------------------------------ MODULE ObexAgent ------------------------------
(***************************************************************************)
(* The agent obexd asks before it takes a file (Bluez5ObexAgent): made     *)
(* each time BlueZ starts and deleted when it stops (Bluez5SIL), it        *)
(* follows obexd, registers there and then exports its skeleton.  obexd    *)
(* knows an agent by its path and the connection, which are those of every *)
(* agent; they are numbered here.                                          *)
(***************************************************************************)
EXTENDS Naturals

CONSTANTS
    MaxAgents,    \* bound: agents ever made
    MaxCreations  \* bound: creations of a proxy in flight, and stale registrations

ObexAgentAssumption == MaxAgents \in Nat /\ MaxCreations \in Nat

VARIABLES
    obexd,               \* external: org.bluez.obex has an owner
    registered,          \* external: obexd has the path of the agent
    mObexAgent,          \* the agent there is, or 0
    made,                \* how many were made
    appeared,            \* its name watch has reported obexd
    watching,            \* its name watch has its callback
    mAgentManagerProxy,  \* it has a proxy of the agent manager
    creations,           \* creations of that proxy in flight
    registerCall,        \* RegisterAgent is in flight on the proxy it has
    staleRegistrations,  \* how many are in flight on one it has dropped
    mAgentInterface,     \* it has a skeleton
    exporter,            \* the agent whose skeleton is exported, or 0
    missed,              \* obexd came unheard, a step towards it has failed, or a deleted
                         \* agent has taken one
    late,                \* a deleted agent may still be called back
    died                 \* the process has died

agentVars == <<mObexAgent, made, late>>
watchVars == <<obexd, registered, appeared, watching>>
callVars == <<mAgentManagerProxy, creations, registerCall, staleRegistrations>>
vars == <<agentVars, watchVars, callVars, mAgentInterface, exporter, missed, died>>

Agents == 0..MaxAgents

TypeOK ==
    /\ {obexd, registered, appeared, watching, mAgentManagerProxy, registerCall,
        mAgentInterface, missed, late, died} \subseteq BOOLEAN
    /\ {mObexAgent, made, exporter} \subseteq Agents
    /\ {creations, staleRegistrations} \subseteq 0..MaxCreations

\* obexd may run before the agent is made: the name watch tells neither from its
\* coming afterwards.
Init ==
    /\ obexd = FALSE /\ registered = FALSE
    /\ mObexAgent = 0 /\ made = 0
    /\ appeared = FALSE /\ watching = FALSE
    /\ mAgentManagerProxy = FALSE /\ creations = 0 /\ registerCall = FALSE /\ staleRegistrations = 0
    /\ mAgentInterface = FALSE /\ exporter = 0
    /\ missed = FALSE /\ late = FALSE /\ died = FALSE

(***************************************************************************)
(* The service                                                             *)
(***************************************************************************)
CreateObexAgent ==
    /\ mObexAgent = 0 /\ made < MaxAgents
    /\ made' = made + 1 /\ mObexAgent' = made + 1
    /\ UNCHANGED <<watchVars, callVars, mAgentInterface, exporter, missed, late, died>>

\* Nothing but the name watch goes with the agent: its skeleton stays exported,
\* and its calls and the wait for the bus will come back to it.  What it failed to
\* do does not concern the next one, unless obexd has the path with no skeleton.
DeleteObexAgent ==
    /\ mObexAgent # 0
    /\ mObexAgent' = 0
    /\ late' = (late \/ ~watching \/ creations > 0 \/ registerCall \/ staleRegistrations > 0)
    /\ appeared' = FALSE /\ watching' = FALSE
    /\ mAgentManagerProxy' = FALSE /\ creations' = 0 /\ registerCall' = FALSE /\ staleRegistrations' = 0
    /\ mAgentInterface' = FALSE
    /\ missed' = (registered /\ exporter = 0)
    /\ UNCHANGED <<obexd, registered, made, exporter, died>>

\* A deleted agent is called back: it dies of that, or does anything an agent does.
LateReply ==
    /\ late
    /\ died' \in BOOLEAN
    /\ registered' \in {registered, obexd}
    /\ exporter' \in {exporter} \union {n \in 1..made : exporter = 0 /\ n # mObexAgent}
    /\ missed' = TRUE
    /\ UNCHANGED <<agentVars, obexd, appeared, watching, callVars, mAgentInterface>>

(***************************************************************************)
(* obexd                                                                   *)
(***************************************************************************)
\* waitForBus has found the session bus.
ConnectWithObex ==
    /\ mObexAgent # 0 /\ ~watching
    /\ watching' = TRUE
    /\ UNCHANGED <<agentVars, obexd, registered, appeared, callVars, mAgentInterface, exporter,
                   missed, died>>

\* Unreferenced, the skeleton is no longer exported, if it was.
Unexport == IF mAgentInterface /\ exporter = mObexAgent THEN 0 ELSE exporter

DeleteObexAgentManagerProxy ==
    /\ mAgentInterface' = FALSE /\ exporter' = Unexport
    /\ registerCall' = FALSE
    /\ staleRegistrations' = staleRegistrations + IF registerCall THEN 1 ELSE 0

\* Mutant: with a proxy there already, nothing is made.
NameAppearedOnce ==
    /\ mObexAgent # 0 /\ ~appeared
    /\ obexd' = TRUE /\ appeared' = TRUE
    /\ creations' = IF watching /\ ~mAgentManagerProxy THEN creations + 1 ELSE creations
    /\ creations' <= MaxCreations
    /\ missed' = (missed \/ ~watching)
    /\ UNCHANGED <<agentVars, registered, watching, mAgentManagerProxy, registerCall,
                   staleRegistrations, mAgentInterface, exporter, died>>

\* createObexAgentManagerProxy.  obexd starts, or was there when the agent was
\* made; a proxy may be left of a creation that ended while obexd was away.
NameAppeared ==
    /\ mObexAgent # 0 /\ ~appeared
    /\ obexd' = TRUE /\ appeared' = TRUE
    /\ IF watching
       THEN /\ creations < MaxCreations /\ creations' = creations + 1
            /\ mAgentManagerProxy' = FALSE
            /\ IF mAgentManagerProxy THEN DeleteObexAgentManagerProxy
               ELSE UNCHANGED <<mAgentInterface, exporter, registerCall, staleRegistrations>>
            /\ UNCHANGED missed
       ELSE missed' = TRUE /\ UNCHANGED <<callVars, mAgentInterface, exporter>>
    /\ staleRegistrations' <= MaxCreations
    /\ UNCHANGED <<agentVars, registered, watching, died>>

NameVanished ==
    /\ obexd
    /\ obexd' = FALSE /\ registered' = FALSE /\ appeared' = FALSE /\ missed' = FALSE
    /\ IF watching /\ appeared
       THEN DeleteObexAgentManagerProxy /\ mAgentManagerProxy' = FALSE
       ELSE UNCHANGED <<mAgentManagerProxy, registerCall, staleRegistrations, mAgentInterface,
                        exporter>>
    /\ staleRegistrations' <= MaxCreations
    /\ UNCHANGED <<agentVars, watching, creations, died>>

\* createProxyCallback replaces the proxy and registers the agent; a creation that
\* failed leaves no proxy.
CreationReply(ok) ==
    /\ creations > 0
    /\ creations' = creations - 1
    /\ mAgentManagerProxy' = ok /\ registerCall' = ok
    /\ staleRegistrations' = staleRegistrations + IF registerCall THEN 1 ELSE 0
    /\ staleRegistrations' <= MaxCreations
    /\ missed' = (missed \/ (obexd /\ ~ok))
    /\ UNCHANGED <<agentVars, watchVars, mAgentInterface, exporter, died>>

\* createAgentInterface: the path may be taken by the skeleton of a deleted agent.
CreateAgentInterface ==
    /\ mAgentInterface' = TRUE
    /\ exporter' = IF Unexport = 0 THEN mObexAgent ELSE exporter

\* registerCallback.  obexd refuses a path that it has.  A reply to a proxy that
\* was dropped is finished with another, which gives no error, and passes for a
\* success.
RegisterReply(ok, stale) ==
    /\ IF stale THEN staleRegistrations > 0 ELSE registerCall
    /\ ok => obexd /\ ~registered
    /\ staleRegistrations' = staleRegistrations - IF stale THEN 1 ELSE 0
    /\ registerCall' = (stale /\ registerCall)
    /\ registered' = (registered \/ ok)
    /\ missed' = (missed \/ (obexd /\ ~registered'))
    /\ IF ok \/ stale THEN CreateAgentInterface ELSE UNCHANGED <<mAgentInterface, exporter>>
    /\ UNCHANGED <<agentVars, obexd, appeared, watching, mAgentManagerProxy, creations, died>>

\* A push comes to the skeleton that is exported, and its handler reads the agent,
\* which may be deleted.  (What one that lives does of it is Push.)
AuthorizePush ==
    /\ registered /\ exporter \notin {0, mObexAgent}
    /\ died' \in BOOLEAN
    /\ UNCHANGED <<agentVars, watchVars, callVars, mAgentInterface, exporter, missed>>

Next ==
    /\ ~died
    /\ \/ CreateObexAgent \/ DeleteObexAgent \/ LateReply
       \/ ConnectWithObex \/ NameAppeared \/ NameVanished
       \/ \E ok \in BOOLEAN : \/ CreationReply(ok)
                              \/ \E stale \in BOOLEAN : RegisterReply(ok, stale)
       \/ AuthorizePush

Spec == Init /\ [][Next]_vars

(***************************************************************************)
(* Properties.                                                             *)
(***************************************************************************)
\* Once everything the agent has begun has ended, and nothing has failed, obexd has
\* it and asks a skeleton that is exported, however obexd has come and gone while
\* calls were in flight.  It is the skeleton of the agent there is as long as BlueZ
\* has not stopped: after that it may be that of a deleted one.
PushesAsked ==
    (/\ mObexAgent # 0 /\ appeared /\ ~missed
     /\ creations = 0 /\ ~registerCall /\ staleRegistrations = 0) =>
        /\ registered
        /\ exporter # 0
        /\ made = 1 => exporter = mObexAgent
=============================================================================
