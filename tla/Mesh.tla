-------------------------------- MODULE Mesh --------------------------------
(***************************************************************************)
(* The configuration of remote mesh nodes (Bluez5MeshAdv,                  *)
(* Bluez5MeshModelConfigClient): requests sent to nodes, each with a timer *)
(* that gives up on the answer, and the key refresh, which runs in a       *)
(* thread of its own and uses the same list of requests.                   *)
(*                                                                         *)
(* The main loop and the thread are the two processes.  The mutex of the   *)
(* list makes one step of each of its uses; a call that waits for BlueZ    *)
(* is a step at its beginning and one at its end, and the other process    *)
(* runs in between.  A send that fails before a request is stored changes  *)
(* nothing.  The thread sleeps between its phases; no step waits for it,   *)
(* so here it may sleep for any time, none included.  What BlueZ keeps of  *)
(* nodes and keys is left out.                                             *)
(***************************************************************************)
EXTENDS Naturals, Sequences, SequencesExt

CONSTANTS
    Nodes,        \* remote nodes
    Local,        \* the local node
    Gets, Sets,   \* commands of the client, of those in Rsp
    NoRequest,
    AppKeys,      \* bound: application keys of one key refresh
    MaxRequests   \* bound: requests that exist at once

VARIABLES
    mNodeInterface,    \* the interface of the node is known
    pendingRequests,   \* the list, of requests
    request,           \* the request objects: [cmd, node, by], or NoRequest
    timers,            \* requests with a timer in the main loop
    told,              \* results the client was given for a request
    main,              \* what the main loop is doing: [at, req, rsp, node]
    refresh            \* the key refresh: [at, nodes, todo, node, keys]

vars == <<mNodeInterface, pendingRequests, request, timers, told, main, refresh>>

\* The answer that ends a request, and the commands that make one (cmds).
Rsp == [APPKEY_ADD |-> "APPKEY_STATUS",     APPKEY_DELETE |-> "APPKEY_STATUS",
        APPKEY_UPDATE |-> "APPKEY_STATUS",  APPKEYINDEX |-> "APPKEY_LIST",
        APPKEY_BIND |-> "MODEL_APP_STATUS", APPKEY_UNBIND |-> "MODEL_APP_STATUS",
        DEFAULT_TTL_GET |-> "TTL_STATUS",   DEFAULT_TTL_SET |-> "TTL_STATUS",
        GATT_PROXY_GET |-> "PROXY_STATUS",  GATT_PROXY_SET |-> "PROXY_STATUS",
        RELAY_GET |-> "RELAY_STATUS",       RELAY_SET |-> "RELAY_STATUS",
        COMPOSITION_DATA |-> "COMP_STATUS", NODE_RESET |-> "RESET_STATUS",
        NETKEY_UPDATE |-> "NETKEY_STATUS"]

Commands == DOMAIN Rsp
Answers == {Rsp[c] : c \in Commands}
Slots == 1..MaxRequests

Request == [cmd : Commands, node : Nodes \union {Local}, by : {"client", "refresh"}]

MeshAssumption ==
    /\ Local \notin Nodes
    /\ Gets \union Sets \subseteq Commands
    /\ NoRequest \notin Request \union Slots
    /\ AppKeys \in Nat
    /\ MaxRequests \in Nat

TypeOK ==
    /\ mNodeInterface \in BOOLEAN
    /\ pendingRequests \in Seq(Slots) /\ IsInjective(pendingRequests)
    /\ request \in [Slots -> Request \union {NoRequest}]
    /\ \A s \in Slots : request[s] # NoRequest <=> s \in ToSet(pendingRequests)
    /\ timers \subseteq Slots
    /\ told \in [Slots -> 0..2]
    /\ main \in [at : {"idle", "adding", "answering", "expiring"}, req : Slots \union {NoRequest},
                 rsp : Answers, node : Nodes \union {Local}]
    /\ refresh \in [at : {"idle", "subnet", "net", "netCall", "app", "appCall"},
                    nodes : SUBSET Nodes, todo : SUBSET (Nodes \union {Local}),
                    node : Nodes \union {Local}, keys : 0..AppKeys]

Idle == [at |-> "idle", req |-> NoRequest, rsp |-> "RESET_STATUS", node |-> Local]

Resting == [at |-> "idle", nodes |-> {}, todo |-> {}, node |-> Local, keys |-> 0]

Init ==
    /\ mNodeInterface = FALSE
    /\ pendingRequests = <<>>
    /\ request = [s \in Slots |-> NoRequest]
    /\ timers = {}
    /\ told = [s \in Slots |-> 0]
    /\ main = Idle
    /\ refresh = Resting

listVars == <<pendingRequests, request, timers>>

(***************************************************************************)
(* The list of requests.                                                   *)
(***************************************************************************)
Matches(s, rsp, n) == Rsp[request[s].cmd] = rsp /\ request[s].node = n

\* getRequestFromResponse: the first request of this node that ends in rsp.
\* Answers carry nothing that tells one such request from another.
RequestFor(rsp, n) == SelectInSeq(pendingRequests, LAMBDA s : Matches(s, rsp, n))

\* Mutant: no timer is started for the request.
AddPendingRequestUntimed(s, cmd, n, by) ==
    /\ request[s] = NoRequest /\ s # main.req
    /\ pendingRequests' = Append(pendingRequests, s)
    /\ request' = [request EXCEPT ![s] = [cmd |-> cmd, node |-> n, by |-> by]]
    /\ told' = [told EXCEPT ![s] = 0]
    /\ UNCHANGED timers

\* addPendingRequest.  The timer runs for seconds: it does not fire before the
\* request is in the list.
AddPendingRequest(s, cmd, n, by) ==
    /\ request[s] = NoRequest /\ s # main.req
    /\ pendingRequests' = Append(pendingRequests, s)
    /\ request' = [request EXCEPT ![s] = [cmd |-> cmd, node |-> n, by |-> by]]
    /\ told' = [told EXCEPT ![s] = 0]
    /\ timers' = timers \union {s}

\* Mutant: the timer of the request stays in the main loop.
DeletePendingRequestAlone(rsp, n) ==
    LET i == RequestFor(rsp, n) IN
    IF i = 0 THEN UNCHANGED listVars
    ELSE /\ pendingRequests' = RemoveAt(pendingRequests, i)
         /\ request' = [request EXCEPT ![pendingRequests[i]] = NoRequest]
         /\ UNCHANGED timers

DeletePendingRequest(rsp, n) ==
    LET i == RequestFor(rsp, n) IN
    IF i = 0 THEN UNCHANGED listVars
    ELSE /\ pendingRequests' = RemoveAt(pendingRequests, i)
         /\ request' = [request EXCEPT ![pendingRequests[i]] = NoRequest]
         /\ timers' = timers \ {pendingRequests[i]}

(***************************************************************************)
(* The main loop: commands of the client, answers of nodes, timers.        *)
(***************************************************************************)
HandleObjectAdded ==
    /\ main = Idle /\ ~mNodeInterface
    /\ mNodeInterface' = TRUE
    /\ UNCHANGED <<told, main>> /\ UNCHANGED listVars /\ UNCHANGED refresh

\* devKeySend, then addPendingRequest.  Without the interface nothing is sent,
\* which is no error.
SendRequest(cmd, n) ==
    /\ main = Idle
    /\ \E s \in Slots : AddPendingRequest(s, cmd, n, "client")
    /\ UNCHANGED <<mNodeInterface, main>> /\ UNCHANGED refresh

ConfigGet(cmd, n) == cmd \in Gets /\ SendRequest(cmd, n)
ConfigSet(cmd, n) == mNodeInterface /\ cmd \in Sets /\ SendRequest(cmd, n)

GetCompositionData(n) == ConfigGet("COMPOSITION_DATA", n)
DeleteNode(n) == ConfigSet("NODE_RESET", n)

\* addAppKey stores the request, then waits for BlueZ to take the key.
AddAppKey(cmd, n) ==
    /\ main = Idle /\ mNodeInterface /\ cmd \in Sets
    /\ \E s \in Slots : /\ AddPendingRequest(s, cmd, n, "client")
                        /\ main' = [at |-> "adding", req |-> s, rsp |-> Rsp[cmd], node |-> n]
    /\ UNCHANGED mNodeInterface /\ UNCHANGED refresh

\* If it does not, the first request of the node that ends in APPKEY_STATUS goes,
\* whichever that is.
AddAppKeyReply ==
    /\ main.at = "adding"
    /\ UNCHANGED listVars \/ DeletePendingRequest(main.rsp, main.node)
    /\ main' = Idle
    /\ UNCHANGED <<mNodeInterface, told>> /\ UNCHANGED refresh

\* recvData finds the request and lets go of the mutex.
RecvData(rsp, n) ==
    /\ main = Idle /\ RequestFor(rsp, n) # 0
    /\ main' = [at |-> "answering", req |-> pendingRequests[RequestFor(rsp, n)],
                rsp |-> rsp, node |-> n]
    /\ UNCHANGED <<mNodeInterface, told>> /\ UNCHANGED listVars /\ UNCHANGED refresh

\* Then it deletes the first such request, perhaps another by now, and reports
\* the answer, but for a reset, a network key, or an answer too short.
FinishRecvData ==
    /\ main.at = "answering"
    /\ DeletePendingRequest(main.rsp, main.node)
    /\ \/ UNCHANGED told
       \/ /\ main.rsp \notin {"RESET_STATUS", "NETKEY_STATUS"}
          /\ told' = [told EXCEPT ![main.req] = @ + 1]
    /\ main' = Idle
    /\ UNCHANGED mNodeInterface /\ UNCHANGED refresh

\* pendingRequestTimerExpired reports NO_RESPONSE, which for a network key or a
\* reset goes with a call to BlueZ, and then takes the request off the list.
PendingRequestTimerExpired(s) ==
    /\ main = Idle /\ s \in timers
    /\ told' = [told EXCEPT ![s] = @ + 1]
    /\ main' = [Idle EXCEPT !.at = "expiring", !.req = s]
    /\ UNCHANGED mNodeInterface /\ UNCHANGED listVars /\ UNCHANGED refresh

\* Mutant: the request that has expired stays in the list.
EraseExpiredNot(s) == timers' = timers \ {s} /\ UNCHANGED <<pendingRequests, request>>

\* Mutant: it leaves the list and is not deleted.
EraseExpiredLeaks(s) ==
    /\ timers' = timers \ {s}
    /\ pendingRequests' = RemoveFirst(pendingRequests, s)
    /\ UNCHANGED request

\* A request the thread has deleted meanwhile is read all the same: there is no such
\* entry then, unless the process dies of it, which is to stop here.
EraseExpired(s) ==
    /\ timers' = timers \ {s}
    /\ pendingRequests' = RemoveFirst(pendingRequests, s)
    /\ request' = [request EXCEPT ![s] = NoRequest]

FinishExpired ==
    /\ main.at = "expiring"
    /\ EraseExpired(main.req)
    /\ main' = Idle
    /\ UNCHANGED <<mNodeInterface, told>> /\ UNCHANGED refresh

(***************************************************************************)
(* The key refresh.  Its thread works on its own copy of the nodes.        *)
(***************************************************************************)
\* keyRefresh starts the thread.  One at a time, which is a bound: the code
\* starts as many as it is asked for.
KeyRefresh ==
    /\ main = Idle /\ refresh = Resting
    /\ \E keys \in 0..AppKeys :
          refresh' = [Resting EXCEPT !.at = "subnet", !.nodes = Nodes, !.keys = keys]
    /\ UNCHANGED <<mNodeInterface, told, main>> /\ UNCHANGED listVars

\* The thread ends if BlueZ has no such subnet.  If it has, the blacklisted
\* nodes are left out.
UpdateSubnet ==
    /\ refresh.at = "subnet"
    /\ \/ refresh' = Resting
       \/ \E blackListedNodes \in SUBSET Nodes :
             refresh' = [refresh EXCEPT !.at = "net",
                                        !.nodes = @ \ blackListedNodes,
                                        !.todo = refresh.nodes \ blackListedNodes]
    /\ UNCHANGED <<mNodeInterface, told, main>> /\ UNCHANGED listVars

\* configNetKeyUpdate and addAppKey store the request, then wait for BlueZ.
DistributeNetKey(n) ==
    /\ refresh.at = "net" /\ n \in refresh.todo
    /\ \E s \in Slots : AddPendingRequest(s, "NETKEY_UPDATE", n, "refresh")
    /\ refresh' = [refresh EXCEPT !.at = "netCall", !.todo = @ \ {n}, !.node = n]
    /\ UNCHANGED <<mNodeInterface, main>>

\* A node that BlueZ could not send the key to is deleted and left out.
NetKeyReply ==
    /\ refresh.at = "netCall"
    /\ \/ /\ refresh' = [refresh EXCEPT !.at = "net"]
          /\ UNCHANGED listVars
       \/ /\ DeletePendingRequest("NETKEY_STATUS", refresh.node)
          /\ refresh' = [refresh EXCEPT !.at = "net", !.nodes = @ \ {refresh.node}]
    /\ UNCHANGED <<mNodeInterface, told, main>>

Distributed == refresh.at \in {"net", "app"} /\ refresh.todo = {}

\* A new application key: BlueZ makes it, or the next one is tried.  It goes to
\* the local node and to the nodes that hold the key.
UpdateAppKey ==
    /\ Distributed /\ refresh.keys > 0
    /\ \E todo \in {{}} \union {{Local} \union N : N \in SUBSET refresh.nodes} :
          refresh' = [refresh EXCEPT !.at = "app", !.todo = todo, !.keys = @ - 1]
    /\ UNCHANGED <<mNodeInterface, told, main>> /\ UNCHANGED listVars

DistributeAppKey(n) ==
    /\ refresh.at = "app" /\ n \in refresh.todo
    /\ Local \in refresh.todo => n = Local
    /\ \E s \in Slots : AddPendingRequest(s, "APPKEY_UPDATE", n, "refresh")
    /\ refresh' = [refresh EXCEPT !.at = "appCall", !.todo = @ \ {n}, !.node = n]
    /\ UNCHANGED <<mNodeInterface, main>>

AppKeyReply ==
    /\ refresh.at = "appCall"
    /\ UNCHANGED listVars \/ DeletePendingRequest("APPKEY_STATUS", refresh.node)
    /\ refresh' = [refresh EXCEPT !.at = "app"]
    /\ UNCHANGED <<mNodeInterface, told, main>>

\* Phases 2 and 3 send to the nodes that are left and store no request.
SetKeyRefreshPhase ==
    /\ Distributed /\ refresh.keys = 0
    /\ refresh' = Resting
    /\ UNCHANGED <<mNodeInterface, told, main>> /\ UNCHANGED listVars

(***************************************************************************)
(* The specification.  GLib dispatches the sources that are ready in turn, *)
(* so a timer that has run out is not passed over for ever (SF), and each  *)
(* handler of the main loop comes to its end, as BlueZ answers or the bus  *)
(* call times out (WF).                                                    *)
(***************************************************************************)
Main ==
    \/ HandleObjectAdded
    \/ \E n \in Nodes :
          \/ \E cmd \in Gets \ {"COMPOSITION_DATA"} : ConfigGet(cmd, n)
          \/ \E cmd \in Sets \ {"APPKEY_ADD", "APPKEY_UPDATE", "NODE_RESET"} : ConfigSet(cmd, n)
          \/ \E cmd \in Sets \intersect {"APPKEY_ADD", "APPKEY_UPDATE"} : AddAppKey(cmd, n)
          \/ GetCompositionData(n) \/ DeleteNode(n)
    \/ \E n \in Nodes \union {Local}, rsp \in Answers : RecvData(rsp, n)
    \/ \E s \in Slots : PendingRequestTimerExpired(s)
    \/ AddAppKeyReply \/ FinishRecvData \/ FinishExpired

Refresh ==
    \/ KeyRefresh \/ UpdateSubnet \/ NetKeyReply \/ UpdateAppKey \/ AppKeyReply
    \/ SetKeyRefreshPhase
    \/ \E n \in Nodes \union {Local} : DistributeNetKey(n) \/ DistributeAppKey(n)

Next == Main \/ Refresh

Fairness ==
    /\ \A s \in Slots : SF_vars(PendingRequestTimerExpired(s))
    /\ WF_vars(AddAppKeyReply \/ FinishRecvData \/ FinishExpired)

Spec == Init /\ [][Next]_vars /\ Fairness

(***************************************************************************)
(* Properties.                                                             *)
(***************************************************************************)
\* The requests in the list are those with a timer, whichever of the main loop
\* and the thread ends them: no timer is left for a request that is deleted.
TimerPerRequest == timers = ToSet(pendingRequests)

\* The client is given one result for a request at most, also when the answer,
\* the timer and a failing call of the thread meet.
AnsweredOnce == \A s \in Slots : told[s] <= 1

\* A request does not stay in the list: if no answer ends it, its timer does.
RequestsEnd ==
    \A s \in Slots : s \in ToSet(pendingRequests) ~> s \notin ToSet(pendingRequests)

=============================================================================
