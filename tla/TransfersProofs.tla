--------------------------- MODULE TransfersProofs ---------------------------
(***************************************************************************)
(* What is proved of the profiles over OBEX, among the profiles side by    *)
(* side: what the client is told of transfers, folders, messages and       *)
(* pushes, and that obexd asks an agent that can be asked.  With the types *)
(* of these and of the other profiles the type invariant is complete.      *)
(***************************************************************************)
EXTENDS ProfilesProofs

(***************************************************************************)
(* ObexAgent.  An agent that has heard of obexd and missed nothing has     *)
(* something in flight, or obexd has it; one that has not heard of it has  *)
(* nothing in flight there.  What obexd has, is exported.                  *)
(***************************************************************************)
AgentFlags ==
    /\ obexd \in BOOLEAN /\ registered \in BOOLEAN /\ appeared \in BOOLEAN
    /\ watching \in BOOLEAN /\ mAgentManagerProxy \in BOOLEAN /\ registerCall \in BOOLEAN
    /\ mAgentInterface \in BOOLEAN /\ missed \in BOOLEAN /\ late \in BOOLEAN /\ died \in BOOLEAN

AgentNumbers ==
    /\ made \in O!Agents /\ mObexAgent \in {0, made} /\ exporter \in 0..made
    /\ creations \in 0..MaxCreations /\ staleRegistrations \in 0..MaxCreations

NothingInFlight ==
    /\ creations = 0 /\ ~registerCall /\ staleRegistrations = 0
    /\ ~mAgentManagerProxy /\ ~mAgentInterface

\* Among obexd, the agent there is, and what obexd has.
AgentKnown ==
    /\ registered => obexd
    /\ appeared => obexd /\ mObexAgent # 0
    /\ mObexAgent = 0 => ~watching /\ NothingInFlight
    /\ obexd /\ ~appeared => NothingInFlight

Registering ==
    /\ appeared /\ ~missed => creations > 0 \/ registerCall \/ registered
    /\ registered /\ exporter = 0 => missed

AgentTyped == AgentFlags /\ AgentNumbers

AgentInv == AgentTyped /\ AgentKnown /\ Registering

LEMMA AgentInit == O!Init => AgentInv
  <1> SUFFICES ASSUME O!Init PROVE AgentInv
    OBVIOUS
  <1> USE DEF O!Init
  <1>1. AgentFlags
    BY DEF AgentFlags
  <1>2. AgentNumbers
    BY ProfilesAssumption
    DEF ProfilesAssumption, O!ObexAgentAssumption, AgentNumbers, O!Agents
  <1>3. AgentKnown /\ Registering
    BY DEF AgentKnown, Registering, NothingInFlight
  <1> QED
    BY <1>1, <1>2, <1>3 DEF AgentInv, AgentTyped

LEMMA AgentNext ==
  ASSUME AgentInv, [O!Next]_(O!vars)
  PROVE  AgentInv'
  <1> USE DEF O!Agents
  <1>1. MaxAgents \in Nat /\ MaxCreations \in Nat
    BY ProfilesAssumption DEF ProfilesAssumption, O!ObexAgentAssumption
  <1>2. AgentTyped /\ AgentKnown /\ Registering
    BY DEF AgentInv
  <1>3. CASE UNCHANGED O!vars
    BY <1>2, <1>3
    DEF O!vars, O!agentVars, O!watchVars, O!callVars, AgentInv, AgentTyped,
        AgentFlags, AgentNumbers, AgentKnown,
        Registering, NothingInFlight
  <1>4. CASE O!CreateObexAgent
    <2> USE <1>1, <1>2, <1>4 DEF O!CreateObexAgent, O!watchVars, O!callVars
    <2>1. AgentTyped'
      <3>1. AgentFlags'
        BY Zenon DEF AgentTyped, AgentFlags
      <3>2. AgentNumbers'
        BY DEF AgentTyped, AgentNumbers
      <3> QED
        BY <3>1, <3>2 DEF AgentTyped
    <2>2. AgentKnown' /\ Registering'
      BY DEF AgentTyped, AgentFlags, AgentNumbers, AgentKnown, Registering, NothingInFlight
    <2> QED
      BY <2>1, <2>2 DEF AgentInv
  <1>5. CASE O!DeleteObexAgent
    <2> USE <1>1, <1>2, <1>5 DEF O!DeleteObexAgent
    <2>1. AgentTyped'
      <3>1. AgentFlags'
        BY Zenon DEF AgentTyped, AgentFlags
      <3>2. AgentNumbers'
        BY DEF AgentTyped, AgentNumbers
      <3> QED
        BY <3>1, <3>2 DEF AgentTyped
    <2>2. AgentKnown' /\ Registering'
      BY DEF AgentTyped, AgentFlags, AgentNumbers, AgentKnown, Registering, NothingInFlight
    <2> QED
      BY <2>1, <2>2 DEF AgentInv
  <1>6. CASE O!LateReply
    <2> USE <1>1, <1>2, <1>6 DEF O!LateReply, O!agentVars, O!callVars
    <2>1. AgentTyped'
      <3>1. AgentFlags'
        BY Zenon DEF AgentTyped, AgentFlags
      <3>2. AgentNumbers'
        BY DEF AgentTyped, AgentNumbers
      <3> QED
        BY <3>1, <3>2 DEF AgentTyped
    <2>2. AgentKnown' /\ Registering'
      BY DEF AgentTyped, AgentFlags, AgentNumbers, AgentKnown, Registering, NothingInFlight
    <2> QED
      BY <2>1, <2>2 DEF AgentInv
  <1>7. CASE O!ConnectWithObex
    <2> USE <1>1, <1>2, <1>7 DEF O!ConnectWithObex, O!agentVars, O!callVars
    <2>1. AgentTyped'
      <3>1. AgentFlags'
        BY Zenon DEF AgentTyped, AgentFlags
      <3>2. AgentNumbers'
        BY DEF AgentTyped, AgentNumbers
      <3> QED
        BY <3>1, <3>2 DEF AgentTyped
    <2>2. AgentKnown' /\ Registering'
      BY DEF AgentTyped, AgentFlags, AgentNumbers, AgentKnown, Registering, NothingInFlight
    <2> QED
      BY <2>1, <2>2 DEF AgentInv
  <1>8. CASE O!NameAppeared
    <2> USE <1>1, <1>2, <1>8 DEF O!NameAppeared, O!agentVars, O!callVars
    <2>1. registered => NothingInFlight
      BY DEF AgentKnown
    <2>2. AgentTyped'
      <3>1. AgentFlags'
        BY Zenon DEF AgentTyped, AgentFlags, O!DeleteObexAgentManagerProxy, O!Unexport
      <3>2. AgentNumbers'
        BY DEF AgentTyped, AgentNumbers, O!DeleteObexAgentManagerProxy, O!Unexport
      <3> QED
        BY <3>1, <3>2 DEF AgentTyped
    <2>3. AgentKnown'
      BY <2>1 DEF AgentTyped, AgentFlags, AgentNumbers, AgentKnown, NothingInFlight
    <2>4. registered => UNCHANGED exporter
      BY <2>1 DEF NothingInFlight
    <2>5. Registering'
      BY <2>4 DEF AgentTyped, AgentFlags, AgentNumbers, Registering
    <2> QED
      BY <2>2, <2>3, <2>5 DEF AgentInv
  <1>9. CASE O!NameVanished
    <2> USE <1>1, <1>2, <1>9 DEF O!NameVanished, O!agentVars
    <2>1. AgentTyped'
      <3>1. AgentFlags'
        BY Zenon DEF AgentTyped, AgentFlags, O!DeleteObexAgentManagerProxy, O!Unexport
      <3>2. AgentNumbers'
        BY DEF AgentTyped, AgentNumbers, O!DeleteObexAgentManagerProxy, O!Unexport
      <3> QED
        BY <3>1, <3>2 DEF AgentTyped
    <2>2. AgentKnown' /\ Registering'
      BY DEF AgentTyped, AgentFlags, AgentNumbers, AgentKnown, Registering, NothingInFlight
    <2> QED
      BY <2>1, <2>2 DEF AgentInv
  <1>10. ASSUME NEW ok \in BOOLEAN, O!CreationReply(ok)
         PROVE  AgentInv'
    <2> USE <1>1, <1>2, <1>10 DEF O!CreationReply, O!agentVars, O!watchVars
    <2>1. AgentTyped'
      <3>1. AgentFlags'
        BY Zenon DEF AgentTyped, AgentFlags
      <3>2. AgentNumbers'
        BY DEF AgentTyped, AgentNumbers
      <3> QED
        BY <3>1, <3>2 DEF AgentTyped
    <2>2. AgentKnown' /\ Registering'
      BY DEF AgentTyped, AgentFlags, AgentNumbers, AgentKnown, Registering, NothingInFlight
    <2> QED
      BY <2>1, <2>2 DEF AgentInv
  <1>11. ASSUME NEW ok \in BOOLEAN, NEW stale \in BOOLEAN, O!RegisterReply(ok, stale)
         PROVE  AgentInv'
    <2> USE <1>1, <1>2, <1>11
        DEF O!RegisterReply, O!CreateAgentInterface, O!Unexport, O!agentVars
    <2>1. mObexAgent # 0 /\ (obexd => appeared)
      BY DEF AgentTyped, AgentFlags, AgentNumbers, AgentKnown, NothingInFlight
    <2>2. AgentTyped'
      <3>1. AgentFlags'
        BY <2>1, Zenon DEF AgentTyped, AgentFlags
      <3>2. AgentNumbers'
        BY <2>1 DEF AgentTyped, AgentNumbers
      <3> QED
        BY <3>1, <3>2 DEF AgentTyped
    <2>3. AgentKnown'
      BY <2>1 DEF AgentTyped, AgentFlags, AgentNumbers, AgentKnown, NothingInFlight
    <2>4. exporter # 0 => exporter' # 0
      BY <2>1
    <2>5. ok => exporter' # 0
      BY <2>1
    <2>6. Registering'
      BY <2>1, <2>4, <2>5 DEF AgentTyped, AgentFlags, AgentNumbers, AgentKnown, Registering
    <2> QED
      BY <2>2, <2>3, <2>6 DEF AgentInv
  <1>12. CASE O!AuthorizePush
    BY <1>2, <1>12
    DEF O!AuthorizePush, O!agentVars, O!watchVars, O!callVars, AgentInv, AgentTyped,
        AgentFlags, AgentNumbers, AgentKnown,
        Registering, NothingInFlight
  <1> QED
    BY <1>3, <1>4, <1>5, <1>6, <1>7, <1>8, <1>9, <1>10, <1>11, <1>12 DEF O!Next

LEMMA AgentAlways == Spec => []AgentInv
  <1>1. Init => AgentInv
    BY AgentInit DEF Init
  <1>2. AgentInv /\ [Next]_vars => AgentInv'
    <2> SUFFICES ASSUME AgentInv, [Next]_vars
                 PROVE  AgentInv'
      OBVIOUS
    <2>1. O!Next \/ UNCHANGED agentVars
      BY DEF Next, ObexNext, vars, obexVars
    <2>2. [O!Next]_(O!vars)
      BY <2>1 DEF agentVars, O!vars, O!agentVars, O!watchVars, O!callVars
    <2> QED
      BY <2>2, AgentNext
  <1> QED
    BY <1>1, <1>2, PTL DEF Spec

LEMMA AgentFacts == AgentInv => O!TypeOK /\ O!PushesAsked
  <1> SUFFICES ASSUME AgentInv PROVE O!TypeOK /\ O!PushesAsked
    OBVIOUS
  <1>1. O!TypeOK
    <2>1. {obexd, registered, appeared, watching, mAgentManagerProxy, registerCall,
           mAgentInterface, missed, late, died} \subseteq BOOLEAN
      BY Zenon DEF AgentInv, AgentTyped, AgentFlags
    <2>2. {mObexAgent, made, exporter} \subseteq O!Agents
      <3>1. mObexAgent \in O!Agents /\ made \in O!Agents /\ exporter \in O!Agents
        BY ProfilesAssumption
        DEF ProfilesAssumption, O!ObexAgentAssumption, AgentInv, AgentTyped, AgentNumbers, O!Agents
      <3> QED
        BY <3>1, Zenon
    <2>3. {creations, staleRegistrations} \subseteq 0..MaxCreations
      BY DEF AgentInv, AgentTyped, AgentNumbers
    <2> QED
      BY <2>1, <2>2, <2>3, Zenon DEF O!TypeOK
  <1>2. O!PushesAsked
    BY DEF AgentInv, AgentTyped, AgentNumbers, AgentKnown, Registering, O!PushesAsked, O!Agents
  <1> QED
    BY <1>1, <1>2

(***************************************************************************)
(* FileTransfer.  A request has one call that waits, on its session, until *)
(* it has ended or has a transfer; one that is alone is the only one that  *)
(* waits there, and when its folder was changed the session is in it.      *)
(***************************************************************************)
LEMMA FunctionIsSequence ==
  ASSUME NEW T, NEW n \in Nat, NEW f \in [1..n -> T]
  PROVE  f \in Seq(T) /\ Len(f) = n
  OBVIOUS

Queued ==
    \A s \in F!Sessions : \A i \in 1..Len(queue[s]) :
        /\ queue[s][i] \in 1..Len(requests)
        /\ requests[queue[s][i]].on = s
        /\ requests[queue[s][i]].stage \in {"change", "call"}
        /\ \A j \in 1..Len(queue[s]) : queue[s][j] = queue[s][i] => j = i

InFolder ==
    \A s \in F!Sessions : \A i \in 1..Len(queue[s]) :
        requests[queue[s][i]].alone =>
            /\ Len(queue[s]) = 1
            /\ requests[queue[s][i]].stage = "call" => folder[s] = requests[queue[s][i]].asked

ToldOnce ==
    \A r \in 1..Len(requests) :
        /\ requests[r].results = IF requests[r].stage = "ended" THEN 1 ELSE 0
        /\ requests[r].alone => requests[r].seen \in {NoFolder, requests[r].asked}

RequestsTyped == requests \in Seq(F!Request) /\ Len(requests) <= MaxFileRequests

FilesInv == F!TypeOK /\ Queued /\ InFolder /\ ToldOnce

LEMMA EndOfRequest ==
  ASSUME NEW x \in F!Request, x.results = 0,
         NEW y, y = [x EXCEPT !.stage = "ended", !.results = x.results + 1]
  PROVE  /\ y \in F!Request /\ y.stage = "ended" /\ y.results = 1
         /\ y.on = x.on /\ y.asked = x.asked /\ y.seen = x.seen /\ y.alone = x.alone
  <1> DEFINE z == [x EXCEPT !.stage = "ended"]
  <1>1. /\ z \in F!Request /\ z.stage = "ended"
        /\ z.on = x.on /\ z.asked = x.asked /\ z.seen = x.seen /\ z.alone = x.alone
    BY DEF F!Request
  <1>2. y = [z EXCEPT !.results = 1]
    OBVIOUS
  <1> HIDE DEF z
  <1> QED
    BY <1>1, <1>2 DEF F!Request

\* What Finish leaves of requests that have not ended.
LEMMA Finished ==
  ASSUME FilesInv, NEW ids, \A r \in 1..Len(requests) : r \in ids => requests[r].stage # "ended",
         F!Finish(ids)
  PROVE  /\ RequestsTyped' /\ ToldOnce' /\ Len(requests') = Len(requests)
         /\ \A r \in 1..Len(requests) : r \notin ids => requests'[r] = requests[r]
  <1>1. /\ requests \in Seq(F!Request) /\ Len(requests) <= MaxFileRequests
        /\ Len(requests) \in Nat /\ DOMAIN requests = 1..Len(requests)
    BY DEF FilesInv, F!TypeOK
  <1>2. requests' = [r \in 1..Len(requests) |->
                       IF r \in ids THEN [requests[r] EXCEPT !.stage = "ended",
                                                             !.results = requests[r].results + 1]
                       ELSE requests[r]]
    BY <1>1 DEF F!Finish
  <1>3. ASSUME NEW r \in 1..Len(requests)
        PROVE  /\ requests[r] \in F!Request /\ requests'[r] \in F!Request
               /\ requests'[r].results = IF requests'[r].stage = "ended" THEN 1 ELSE 0
               /\ requests'[r].alone => requests'[r].seen \in {NoFolder, requests'[r].asked}
    <2>1. requests[r] \in F!Request
      BY <1>1
    <2>2. /\ requests[r].results = IF requests[r].stage = "ended" THEN 1 ELSE 0
          /\ requests[r].alone => requests[r].seen \in {NoFolder, requests[r].asked}
      BY DEF FilesInv, ToldOnce
    <2>3. CASE r \in ids
      <3>1. requests[r].results = 0
        BY <2>2, <2>3
      <3>2. requests'[r] = [requests[r] EXCEPT !.stage = "ended",
                                               !.results = requests[r].results + 1]
        BY <1>2, <2>3
      <3>3. /\ requests'[r] \in F!Request
            /\ requests'[r].stage = "ended" /\ requests'[r].results = 1
            /\ requests'[r].asked = requests[r].asked /\ requests'[r].seen = requests[r].seen
            /\ requests'[r].alone = requests[r].alone
        BY <2>1, <3>1, <3>2, EndOfRequest
      <3> QED
        BY <2>1, <2>2, <3>3
    <2>4. CASE r \notin ids
      BY <1>2, <2>1, <2>2, <2>4
    <2> QED
      BY <2>1, <2>3, <2>4
  <1>4. requests' \in [1..Len(requests) -> F!Request]
    BY <1>2, <1>3
  <1>5. requests' \in Seq(F!Request) /\ Len(requests') = Len(requests)
    BY <1>1, <1>4, FunctionIsSequence
  <1>6. RequestsTyped'
    BY <1>1, <1>5 DEF RequestsTyped
  <1>7. ToldOnce'
    BY <1>3, <1>5 DEF ToldOnce
  <1>8. \A r \in 1..Len(requests) : r \notin ids => requests'[r] = requests[r]
    BY <1>2
  <1> QED
    BY <1>5, <1>6, <1>7, <1>8

\* The end of transfers touches no request that waits.
LEMMA TransfersEnd ==
  ASSUME FilesInv, NEW ids \in SUBSET F!Transferring, F!Finish(ids) \/ UNCHANGED requests,
         UNCHANGED <<queue, folder>>
  PROVE  RequestsTyped' /\ Queued' /\ InFolder' /\ ToldOnce'
  <1>1. CASE UNCHANGED requests
    BY <1>1 DEF FilesInv, F!TypeOK, RequestsTyped, Queued, InFolder, ToldOnce
  <1>2. CASE F!Finish(ids)
    <2>1. /\ requests \in Seq(F!Request) /\ DOMAIN requests = 1..Len(requests)
      BY DEF FilesInv, F!TypeOK
    <2>2. \A r \in 1..Len(requests) : r \in ids => requests[r].stage = "transfer"
      BY <2>1 DEF F!Transferring
    <2>3. /\ RequestsTyped' /\ ToldOnce' /\ Len(requests') = Len(requests)
          /\ \A r \in 1..Len(requests) : r \notin ids => requests'[r] = requests[r]
      BY <1>2, <2>2, Finished
    <2>4. ASSUME NEW s \in F!Sessions, NEW i \in 1..Len(queue[s])
          PROVE  queue[s][i] \in 1..Len(requests) /\ requests'[queue[s][i]] = requests[queue[s][i]]
      <3>1. queue[s][i] \in 1..Len(requests) /\ requests[queue[s][i]].stage \in {"change", "call"}
        BY DEF FilesInv, Queued
      <3> QED
        BY <2>2, <2>3, <3>1
    <2>5. Queued'
      BY <2>3, <2>4 DEF FilesInv, Queued
    <2>6. InFolder'
      BY <2>3, <2>4 DEF FilesInv, InFolder
    <2> QED
      BY <2>3, <2>5, <2>6
  <1> QED
    BY <1>1, <1>2

\* What waits once the first call of a session was answered for good.
LEMMA Dequeued ==
  ASSUME FilesInv, NEW s \in F!Sessions, NEW r, F!Answered(s, r), F!Dequeue(s),
         RequestsTyped', Len(requests') = Len(requests), UNCHANGED folder,
         \A x \in 1..Len(requests) : x # r => requests'[x] = requests[x]
  PROVE  Queued' /\ InFolder' /\ queue' \in [F!Sessions -> Seq(F!RequestIds)]
  <1>1. queue \in [F!Sessions -> Seq(F!RequestIds)]
    BY DEF FilesInv, F!TypeOK
  <1>2. queue[s] \in Seq(F!RequestIds) /\ queue[s] # <<>> /\ r = queue[s][1]
        /\ Len(queue[s]) \in Nat \ {0}
    BY <1>1 DEF F!Answered
  <1>3. /\ Tail(queue[s]) \in Seq(F!RequestIds) /\ Len(Tail(queue[s])) = Len(queue[s]) - 1
        /\ \A i \in 1..(Len(queue[s]) - 1) : Tail(queue[s])[i] = queue[s][i + 1]
    BY <1>2
  <1>4. queue' = [queue EXCEPT ![s] = Tail(queue[s])]
    BY DEF F!Dequeue
  <1>5. queue' \in [F!Sessions -> Seq(F!RequestIds)]
    BY <1>1, <1>3, <1>4
  <1>6. /\ Len(queue'[s]) = Len(queue[s]) - 1
        /\ \A i \in 1..Len(queue'[s]) : queue'[s][i] = queue[s][i + 1]
        /\ \A s2 \in F!Sessions \ {s} : queue'[s2] = queue[s2]
    BY <1>1, <1>3, <1>4
  <1>7. \A s2 \in F!Sessions : Len(queue[s2]) \in Nat /\ Len(queue'[s2]) \in Nat
    BY <1>1, <1>5
  <1>8. 1 \in 1..Len(queue[s]) /\ requests[r].on = s
    BY <1>2 DEF FilesInv, Queued
  <1>9. ASSUME NEW i \in 1..Len(queue'[s])
        PROVE  /\ i + 1 \in 1..Len(queue[s]) /\ queue'[s][i] = queue[s][i + 1]
               /\ queue[s][i + 1] # r
    <2>1. i + 1 \in 1..Len(queue[s]) /\ queue'[s][i] = queue[s][i + 1] /\ i + 1 # 1
      BY <1>2, <1>6
    <2>2. queue[s][i + 1] # queue[s][1]
      BY <1>8, <2>1 DEF FilesInv, Queued
    <2> QED
      BY <1>2, <2>1, <2>2
  <1>10. ASSUME NEW s2 \in F!Sessions \ {s}, NEW i \in 1..Len(queue[s2])
         PROVE  queue[s2][i] # r
    BY <1>8 DEF FilesInv, Queued
  <1>11. Queued'
    <2> SUFFICES ASSUME NEW s2 \in F!Sessions, NEW i \in 1..Len(queue'[s2])
                 PROVE  /\ queue'[s2][i] \in 1..Len(requests')
                        /\ requests'[queue'[s2][i]].on = s2
                        /\ requests'[queue'[s2][i]].stage \in {"change", "call"}
                        /\ \A j \in 1..Len(queue'[s2]) : queue'[s2][j] = queue'[s2][i] => j = i
      BY DEF Queued
    <2>1. CASE s2 = s
      <3>1. /\ queue[s][i + 1] \in 1..Len(requests) /\ requests[queue[s][i + 1]].on = s
            /\ requests[queue[s][i + 1]].stage \in {"change", "call"}
        BY <1>9, <2>1 DEF FilesInv, Queued
      <3>2. ASSUME NEW j \in 1..Len(queue'[s]), queue'[s][j] = queue'[s][i]
            PROVE  j = i
        <4>1. queue[s][j + 1] = queue[s][i + 1] /\ j + 1 \in 1..Len(queue[s])
              /\ i + 1 \in 1..Len(queue[s])
          BY <1>9, <2>1, <3>2
        <4>2. j + 1 = i + 1
          BY <4>1 DEF FilesInv, Queued
        <4> QED
          BY <4>2
      <3> QED
        BY <1>9, <2>1, <3>1, <3>2
    <2>2. CASE s2 # s
      BY <1>6, <1>10, <2>2 DEF FilesInv, Queued
    <2> QED
      BY <2>1, <2>2
  <1>12. InFolder'
    <2> SUFFICES ASSUME NEW s2 \in F!Sessions, NEW i \in 1..Len(queue'[s2]),
                        requests'[queue'[s2][i]].alone
                 PROVE  /\ Len(queue'[s2]) = 1
                        /\ requests'[queue'[s2][i]].stage = "call" =>
                              folder'[s2] = requests'[queue'[s2][i]].asked
      BY DEF InFolder
    <2>1. CASE s2 = s
      <3>1. /\ requests'[queue[s][i + 1]] = requests[queue[s][i + 1]]
            /\ i + 1 \in 1..Len(queue[s])
        BY <1>9, <2>1 DEF FilesInv, Queued
      <3>2. Len(queue[s]) = 1
        BY <1>9, <2>1, <3>1 DEF FilesInv, InFolder
      <3> QED
        BY <1>6, <2>1, <3>2
    <2>2. CASE s2 # s
      <3>1. /\ queue'[s2] = queue[s2] /\ queue[s2][i] \in 1..Len(requests)
            /\ requests'[queue[s2][i]] = requests[queue[s2][i]]
        BY <1>6, <1>10, <2>2 DEF FilesInv, Queued
      <3> QED
        BY <3>1 DEF FilesInv, InFolder
    <2> QED
      BY <2>1, <2>2
  <1> QED
    BY <1>5, <1>11, <1>12

Waiting ==
    /\ RequestsTyped /\ queue \in [F!Sessions -> Seq(F!RequestIds)]
    /\ Queued /\ InFolder /\ ToldOnce

LEMMA AskedWaits ==
  ASSUME FilesInv, NEW kind \in F!Kinds, NEW f \in Folders, F!Ask(kind, f)
  PROVE  Waiting'
  <1> DEFINE s == folderSession
             n == Len(requests) + 1
             new == F!NewRequest(kind, f)
             old == [r \in 1..Len(requests) |->
                       [requests[r] EXCEPT
                          !.alone = requests[r].alone /\ r \notin F!ToSet(queue[s])]]
  <1>1. /\ queue \in [F!Sessions -> Seq(F!RequestIds)]
        /\ requests \in Seq(F!Request) /\ Len(requests) <= MaxFileRequests
        /\ Len(requests) \in Nat /\ DOMAIN requests = 1..Len(requests)
    BY DEF FilesInv, F!TypeOK
  <1>2. /\ s \in F!Sessions /\ Len(requests) < MaxFileRequests
        /\ MaxFileRequests \in Nat
    BY ProfilesAssumption
    DEF F!Ask, FilesInv, F!TypeOK, F!Sessions, ProfilesAssumption, F!FileTransferAssumption
  <1>3. n \in F!RequestIds /\ n \notin 1..Len(requests) /\ 1..n = 1..Len(requests) \union {n}
    BY <1>1, <1>2 DEF F!RequestIds
  <1>4. /\ new \in F!Request /\ new.on = s /\ new.stage = "change" /\ new.results = 0
        /\ new.seen = NoFolder /\ (new.alone <=> queue[s] = <<>>)
    <2>1. \A b \in BOOLEAN :
             LET x == [kind |-> kind, on |-> s, asked |-> f, seen |-> NoFolder,
                       stage |-> "change", results |-> 0, alone |-> b]
             IN  /\ x \in F!Request /\ x.on = s /\ x.stage = "change" /\ x.results = 0
                 /\ x.seen = NoFolder /\ x.alone = b
      BY <1>2 DEF F!Request
    <2>2. (queue[s] = <<>>) \in BOOLEAN
      OBVIOUS
    <2> QED
      BY <2>1, <2>2 DEF F!NewRequest
  <1>5. ASSUME NEW r \in 1..Len(requests)
        PROVE  /\ old[r] \in F!Request
               /\ old[r].on = requests[r].on /\ old[r].asked = requests[r].asked
               /\ old[r].seen = requests[r].seen /\ old[r].stage = requests[r].stage
               /\ old[r].results = requests[r].results
               /\ old[r].alone <=> requests[r].alone /\ r \notin F!ToSet(queue[s])
    <2>1. requests[r] \in F!Request
      BY <1>1
    <2>2. \A b \in BOOLEAN :
             LET x == [requests[r] EXCEPT !.alone = b]
             IN  /\ x \in F!Request /\ x.on = requests[r].on /\ x.asked = requests[r].asked
                 /\ x.seen = requests[r].seen /\ x.stage = requests[r].stage
                 /\ x.results = requests[r].results /\ (x.alone <=> b)
      BY <2>1 DEF F!Request
    <2>3. (requests[r].alone /\ r \notin F!ToSet(queue[s])) \in BOOLEAN
      OBVIOUS
    <2> QED
      BY <2>2, <2>3
  <1>6. old \in Seq(F!Request) /\ Len(old) = Len(requests)
    <2>1. old \in [1..Len(requests) -> F!Request]
      BY <1>5
    <2> QED
      BY <1>1, <2>1, FunctionIsSequence
  <1>7. requests' = Append(old, new) /\ queue' = [queue EXCEPT ![s] = Append(queue[s], n)]
        /\ UNCHANGED folder
    BY <1>1 DEF F!Ask
  <1> HIDE DEF old, new
  <1>8. /\ requests' \in Seq(F!Request) /\ Len(requests') = n
        /\ requests'[n] = new /\ \A r \in 1..Len(requests) : requests'[r] = old[r]
    BY <1>1, <1>4, <1>6, <1>7
  <1>9. RequestsTyped'
    BY <1>1, <1>2, <1>8 DEF RequestsTyped
  <1>10. ToldOnce'
    BY <1>3, <1>4, <1>5, <1>8 DEF FilesInv, ToldOnce
  <1>11. queue[s] \in Seq(F!RequestIds) /\ Len(queue[s]) \in Nat
    BY <1>1, <1>2
  <1>12. /\ Append(queue[s], n) \in Seq(F!RequestIds)
         /\ Len(Append(queue[s], n)) = Len(queue[s]) + 1
         /\ \A i \in 1..Len(queue[s]) : Append(queue[s], n)[i] = queue[s][i]
         /\ Append(queue[s], n)[Len(queue[s]) + 1] = n
    BY <1>3, <1>11
  <1>13. queue' \in [F!Sessions -> Seq(F!RequestIds)]
    BY <1>1, <1>7, <1>12
  <1>14. /\ queue'[s] = Append(queue[s], n)
         /\ \A s2 \in F!Sessions \ {s} : queue'[s2] = queue[s2]
    BY <1>1, <1>2, <1>7
  <1>15. ASSUME NEW s2 \in F!Sessions, NEW i \in 1..Len(queue'[s2])
         PROVE  \/ s2 = s /\ i = Len(queue[s]) + 1 /\ queue'[s2][i] = n
                \/ i \in 1..Len(queue[s2]) /\ queue'[s2][i] = queue[s2][i]
    <2>1. CASE s2 = s /\ i = Len(queue[s]) + 1
      BY <1>12, <1>14, <2>1
    <2>2. CASE s2 = s /\ i # Len(queue[s]) + 1
      <3>1. i \in 1..Len(queue[s])
        BY <1>11, <1>12, <1>14, <2>2
      <3> QED
        BY <1>12, <1>14, <2>2, <3>1
    <2>3. CASE s2 # s
      BY <1>14, <2>3
    <2> QED
      BY <2>1, <2>2, <2>3
  <1>16. ASSUME NEW s2 \in F!Sessions, NEW i \in 1..Len(queue[s2])
         PROVE  /\ queue[s2][i] \in 1..Len(requests) /\ queue[s2][i] # n
                /\ requests'[queue[s2][i]] = old[queue[s2][i]]
    BY <1>3, <1>8 DEF FilesInv, Queued
  <1>17. Queued'
    <2> SUFFICES ASSUME NEW s2 \in F!Sessions, NEW i \in 1..Len(queue'[s2])
                 PROVE  /\ queue'[s2][i] \in 1..Len(requests')
                        /\ requests'[queue'[s2][i]].on = s2
                        /\ requests'[queue'[s2][i]].stage \in {"change", "call"}
                        /\ \A j \in 1..Len(queue'[s2]) : queue'[s2][j] = queue'[s2][i] => j = i
      BY DEF Queued
    <2>1. CASE s2 = s /\ i = Len(queue[s]) + 1 /\ queue'[s2][i] = n
      <3>1. \A j \in 1..Len(queue'[s2]) : queue'[s2][j] = n => j = i
        BY <1>15, <1>16, <2>1
      <3> QED
        BY <1>3, <1>4, <1>8, <2>1, <3>1
    <2>2. CASE i \in 1..Len(queue[s2]) /\ queue'[s2][i] = queue[s2][i]
      <3>1. /\ queue[s2][i] \in 1..Len(requests)
            /\ requests[queue[s2][i]].on = s2 /\ requests[queue[s2][i]].stage \in {"change", "call"}
        BY <2>2 DEF FilesInv, Queued
      <3>2. /\ requests'[queue[s2][i]].on = s2
            /\ requests'[queue[s2][i]].stage \in {"change", "call"}
        BY <1>5, <1>8, <3>1
      <3>3. ASSUME NEW j \in 1..Len(queue'[s2]), queue'[s2][j] = queue'[s2][i]
            PROVE  j = i
        <4>1. j \in 1..Len(queue[s2]) /\ queue[s2][j] = queue[s2][i]
          BY <1>15, <1>16, <2>2, <3>3
        <4> QED
          BY <2>2, <4>1 DEF FilesInv, Queued
      <3> QED
        BY <1>3, <1>8, <2>2, <3>1, <3>2, <3>3
    <2> QED
      BY <1>15, <2>1, <2>2
  <1>18. InFolder'
    <2> SUFFICES ASSUME NEW s2 \in F!Sessions, NEW i \in 1..Len(queue'[s2]),
                        requests'[queue'[s2][i]].alone
                 PROVE  /\ Len(queue'[s2]) = 1
                        /\ requests'[queue'[s2][i]].stage = "call" =>
                              folder'[s2] = requests'[queue'[s2][i]].asked
      BY DEF InFolder
    <2>1. CASE s2 = s /\ i = Len(queue[s]) + 1 /\ queue'[s2][i] = n
      <3>1. requests'[queue'[s2][i]] = new
        BY <1>8, <2>1
      <3>2. Len(queue[s]) = 0
        BY <1>4, <3>1
      <3>3. queue'[s2] = Append(queue[s], n)
        BY <1>14, <2>1
      <3>4. Len(Append(queue[s], n)) = 1
        BY <1>12, <3>2
      <3>5. Len(queue'[s2]) = 1
        BY <3>3, <3>4
      <3> QED
        BY <1>4, <3>1, <3>5
    <2>2. CASE i \in 1..Len(queue[s2]) /\ queue'[s2][i] = queue[s2][i]
      <3> DEFINE r == queue[s2][i]
      <3>1. r \in 1..Len(requests) /\ requests'[r] = old[r]
        BY <1>16, <2>2
      <3>2. requests[r].alone /\ r \notin F!ToSet(queue[s])
        BY <1>5, <2>2, <3>1
      <3>3. s2 # s
        BY <1>11, <2>2, <3>2 DEF F!ToSet
      <3>4. /\ Len(queue[s2]) = 1
            /\ requests[r].stage = "call" => folder[s2] = requests[r].asked
        BY <2>2, <3>2 DEF FilesInv, InFolder
      <3>5. queue'[s2] = queue[s2]
        BY <1>14, <3>3
      <3>6. requests'[r].stage = requests[r].stage /\ requests'[r].asked = requests[r].asked
        BY <1>5, <3>1
      <3> QED
        BY <1>7, <2>2, <3>4, <3>5, <3>6
    <2> QED
      BY <1>15, <2>1, <2>2
  <1> QED
    BY <1>9, <1>10, <1>13, <1>17, <1>18 DEF Waiting

\* The first call of a session, that of a request which has not ended.
LEMMA FirstWaits ==
  ASSUME FilesInv, NEW s \in F!Sessions, NEW r, F!Answered(s, r)
  PROVE  /\ r \in 1..Len(requests) /\ requests[r] \in F!Request
         /\ r = queue[s][1] /\ 1 \in 1..Len(queue[s])
         /\ requests[r].stage \in {"change", "call"} /\ requests[r].results = 0
         /\ requests[r].on = s
  <1>1. queue[s] \in Seq(F!RequestIds) /\ requests \in Seq(F!Request)
    BY DEF FilesInv, F!TypeOK
  <1>2. queue[s] # <<>> /\ r = queue[s][1] /\ 1 \in 1..Len(queue[s])
    BY <1>1 DEF F!Answered
  <1>3. /\ r \in 1..Len(requests) /\ requests[r].on = s
        /\ requests[r].stage \in {"change", "call"}
    BY <1>2 DEF FilesInv, Queued
  <1>4. requests[r].results = 0
    BY <1>3 DEF FilesInv, ToldOnce
  <1> QED
    BY <1>1, <1>2, <1>3, <1>4

LEMMA ErrorEnds ==
  ASSUME FilesInv, NEW s \in F!Sessions, NEW r, F!CallError(s, r)
  PROVE  Waiting'
  <1>1. F!Answered(s, r) /\ F!Dequeue(s) /\ F!Finish({r}) /\ UNCHANGED folder
    BY DEF F!CallError
  <1>2. \A x \in 1..Len(requests) : x \in {r} => requests[x].stage # "ended"
    BY <1>1, FirstWaits
  <1>3. /\ RequestsTyped' /\ ToldOnce' /\ Len(requests') = Len(requests)
        /\ \A x \in 1..Len(requests) : x # r => requests'[x] = requests[x]
    BY <1>1, <1>2, Finished
  <1> QED
    BY <1>1, <1>3, Dequeued DEF Waiting

LEMMA ReplyEnds ==
  ASSUME FilesInv, NEW s \in F!Sessions, NEW r, F!CallReply(s, r)
  PROVE  Waiting'
  <1> DEFINE seen == [requests[r] EXCEPT !.seen = folder[s]]
             ended == [seen EXCEPT !.stage = "ended", !.results = seen.results + 1]
             moved == [seen EXCEPT !.stage = "transfer"]
  <1>1. /\ F!Answered(s, r) /\ F!Dequeue(s) /\ UNCHANGED folder /\ requests[r].stage = "call"
    BY DEF F!CallReply
  <1>2. /\ r \in 1..Len(requests) /\ requests[r] \in F!Request /\ requests[r].results = 0
        /\ r = queue[s][1] /\ 1 \in 1..Len(queue[s])
    BY <1>1, FirstWaits
  <1>3. folder[s] \in Folders \union {NoFolder}
    BY DEF FilesInv, F!TypeOK
  <1>4. requests[r].alone => folder[s] = requests[r].asked
    BY <1>1, <1>2 DEF FilesInv, InFolder
  <1>5. /\ seen \in F!Request /\ seen.results = 0 /\ seen.seen = folder[s]
        /\ seen.alone = requests[r].alone /\ seen.asked = requests[r].asked
    BY <1>2, <1>3 DEF F!Request
  <1> HIDE DEF seen
  <1>6. /\ ended \in F!Request /\ ended.stage = "ended" /\ ended.results = 1
        /\ ended.alone = seen.alone /\ ended.asked = seen.asked /\ ended.seen = seen.seen
    BY <1>5, EndOfRequest
  <1>7. /\ moved \in F!Request /\ moved.stage = "transfer" /\ moved.results = 0
        /\ moved.alone = seen.alone /\ moved.asked = seen.asked /\ moved.seen = seen.seen
    BY <1>5 DEF F!Request
  <1>8. requests' = [requests EXCEPT ![r] = ended] \/ requests' = [requests EXCEPT ![r] = moved]
    BY DEF F!CallReply, seen
  <1> HIDE DEF ended, moved
  <1>9. requests \in Seq(F!Request) /\ Len(requests) <= MaxFileRequests
    BY DEF FilesInv, F!TypeOK
  <1>10. PICK x \in {ended, moved} : requests' = [requests EXCEPT ![r] = x]
    BY <1>8
  <1>11. /\ x \in F!Request /\ x.results = IF x.stage = "ended" THEN 1 ELSE 0
         /\ x.alone => x.seen \in {NoFolder, x.asked}
    BY <1>4, <1>5, <1>6, <1>7, <1>10
  <1>12. /\ requests' \in Seq(F!Request) /\ Len(requests') = Len(requests)
         /\ requests'[r] = x
         /\ \A y \in 1..Len(requests) : y # r => requests'[y] = requests[y]
    BY <1>2, <1>9, <1>10, <1>11, ExceptSeq
  <1>13. RequestsTyped'
    BY <1>9, <1>12 DEF RequestsTyped
  <1>14. ToldOnce'
    BY <1>11, <1>12 DEF FilesInv, ToldOnce
  <1> QED
    BY <1>1, <1>12, <1>13, <1>14, Dequeued DEF Waiting

LEMMA FolderChanges ==
  ASSUME FilesInv, NEW s \in F!Sessions, NEW r, F!ChangeFolderReply(s, r)
  PROVE  Waiting' /\ folder' \in [F!Sessions -> Folders \union {NoFolder}]
  <1> DEFINE q == queue[s]
             x == [requests[r] EXCEPT !.stage = "call"]
  <1>1. /\ F!Answered(s, r) /\ folder' = [folder EXCEPT ![s] = requests[r].asked]
        /\ requests' = [requests EXCEPT ![r] = x]
        /\ queue' = [queue EXCEPT ![s] = Append(Tail(q), r)]
    BY DEF F!ChangeFolderReply
  <1>2. /\ r \in 1..Len(requests) /\ requests[r] \in F!Request /\ requests[r].results = 0
        /\ r = q[1] /\ 1 \in 1..Len(q) /\ requests[r].on = s
    BY <1>1, FirstWaits
  <1>3. /\ x \in F!Request /\ x.stage = "call" /\ x.results = 0 /\ x.on = s
        /\ x.alone = requests[r].alone /\ x.asked = requests[r].asked
        /\ x.seen = requests[r].seen
    BY <1>2 DEF F!Request
  <1> HIDE DEF x
  <1>4. /\ requests \in Seq(F!Request) /\ Len(requests) <= MaxFileRequests
        /\ queue \in [F!Sessions -> Seq(F!RequestIds)]
        /\ folder \in [F!Sessions -> Folders \union {NoFolder}]
    BY DEF FilesInv, F!TypeOK
  <1>5. /\ requests' \in Seq(F!Request) /\ Len(requests') = Len(requests)
        /\ requests'[r] = x
        /\ \A y \in 1..Len(requests) : y # r => requests'[y] = requests[y]
    BY <1>1, <1>2, <1>3, <1>4, ExceptSeq
  <1>6. RequestsTyped'
    BY <1>4, <1>5 DEF RequestsTyped
  <1>7. ToldOnce'
    BY <1>3, <1>5 DEF FilesInv, ToldOnce
  <1>8. folder' \in [F!Sessions -> Folders \union {NoFolder}]
    <2>1. requests[r].asked \in Folders
      BY <1>2 DEF F!Request
    <2> QED
      BY <1>1, <1>4, <2>1
  <1>9. q \in Seq(F!RequestIds) /\ Len(q) \in Nat \ {0} /\ r \in F!RequestIds
    BY <1>2, <1>4
  <1>10. /\ Tail(q) \in Seq(F!RequestIds) /\ Len(Tail(q)) = Len(q) - 1
         /\ \A i \in 1..(Len(q) - 1) : Tail(q)[i] = q[i + 1]
    BY <1>9
  <1>11. /\ Append(Tail(q), r) \in Seq(F!RequestIds) /\ Len(Append(Tail(q), r)) = Len(q)
         /\ \A i \in 1..Len(q) : Append(Tail(q), r)[i] = IF i < Len(q) THEN q[i + 1] ELSE r
    <2>1. /\ Append(Tail(q), r) \in Seq(F!RequestIds)
          /\ Len(Append(Tail(q), r)) = Len(Tail(q)) + 1
          /\ \A i \in 1..Len(Tail(q)) : Append(Tail(q), r)[i] = Tail(q)[i]
          /\ Append(Tail(q), r)[Len(Tail(q)) + 1] = r
      BY <1>9, <1>10, AppendProperties
    <2> QED
      BY <1>9, <1>10, <2>1
  <1>12. queue' \in [F!Sessions -> Seq(F!RequestIds)]
    BY <1>1, <1>4, <1>11
  <1>13. /\ Len(queue'[s]) = Len(q)
         /\ \A i \in 1..Len(q) : queue'[s][i] = q[IF i < Len(q) THEN i + 1 ELSE 1]
         /\ \A s2 \in F!Sessions \ {s} : queue'[s2] = queue[s2]
    BY <1>1, <1>2, <1>4, <1>11
  <1>14. \A s2 \in F!Sessions \ {s} : \A i \in 1..Len(queue[s2]) : queue[s2][i] # r
    BY <1>2 DEF FilesInv, Queued
  <1>15. ASSUME NEW i \in 1..Len(q)
         PROVE  /\ q[i] \in 1..Len(requests) /\ requests'[q[i]].on = s
                /\ requests'[q[i]].stage \in {"change", "call"}
                /\ \A j \in 1..Len(q) : q[j] = q[i] => j = i
    <2>1. /\ q[i] \in 1..Len(requests) /\ requests[q[i]].on = s
          /\ requests[q[i]].stage \in {"change", "call"}
          /\ \A j \in 1..Len(q) : q[j] = q[i] => j = i
      BY DEF FilesInv, Queued
    <2> QED
      BY <1>3, <1>5, <2>1
  <1>16. Queued'
    <2>1. ASSUME NEW i \in 1..Len(q), NEW j \in 1..Len(q), queue'[s][j] = queue'[s][i]
          PROVE  j = i
      <3> DEFINE place(k) == IF k < Len(q) THEN k + 1 ELSE 1
      <3>1. place(i) \in 1..Len(q) /\ place(j) \in 1..Len(q)
        BY <1>9
      <3>2. q[place(i)] = q[place(j)]
        BY <1>13, <2>1
      <3>3. place(i) = place(j)
        BY <1>15, <3>1, <3>2
      <3> QED
        BY <1>9, <3>3
    <2>2. ASSUME NEW i \in 1..Len(q)
          PROVE  /\ queue'[s][i] \in 1..Len(requests') /\ requests'[queue'[s][i]].on = s
                 /\ requests'[queue'[s][i]].stage \in {"change", "call"}
      <3>1. PICK k \in 1..Len(q) : queue'[s][i] = q[k]
        BY <1>9, <1>13
      <3> QED
        BY <1>5, <1>15, <3>1
    <2>3. ASSUME NEW s2 \in F!Sessions \ {s}, NEW i \in 1..Len(queue'[s2])
          PROVE  /\ queue'[s2][i] \in 1..Len(requests')
                 /\ requests'[queue'[s2][i]].on = s2
                 /\ requests'[queue'[s2][i]].stage \in {"change", "call"}
                 /\ \A j \in 1..Len(queue'[s2]) : queue'[s2][j] = queue'[s2][i] => j = i
      BY <1>5, <1>13, <1>14 DEF FilesInv, Queued
    <2> QED
      BY <1>13, <2>1, <2>2, <2>3 DEF Queued
  <1>17. InFolder'
    <2>1. ASSUME NEW i \in 1..Len(q), requests'[queue'[s][i]].alone
          PROVE  /\ Len(q) = 1
                 /\ requests'[queue'[s][i]].stage = "call" =>
                       folder'[s] = requests'[queue'[s][i]].asked
      <3>1. PICK k \in 1..Len(q) : queue'[s][i] = q[k]
        BY <1>9, <1>13
      <3>2. requests[q[k]].alone
        BY <1>3, <1>5, <1>15, <2>1, <3>1
      <3>3. Len(q) = 1
        BY <3>2 DEF FilesInv, InFolder
      <3>4. q[k] = r
        BY <1>2, <3>3
      <3>5. folder'[s] = requests[r].asked
        BY <1>1, <1>4
      <3> QED
        BY <1>3, <1>5, <3>1, <3>3, <3>4, <3>5
    <2>2. ASSUME NEW s2 \in F!Sessions \ {s}, NEW i \in 1..Len(queue'[s2]),
                 requests'[queue'[s2][i]].alone
          PROVE  /\ Len(queue'[s2]) = 1
                 /\ requests'[queue'[s2][i]].stage = "call" =>
                       folder'[s2] = requests'[queue'[s2][i]].asked
      <3>1. queue'[s2] = queue[s2] /\ folder'[s2] = folder[s2]
        BY <1>1, <1>4, <1>13
      <3>2. queue[s2][i] \in 1..Len(requests) /\ requests'[queue[s2][i]] = requests[queue[s2][i]]
        BY <1>5, <1>14, <3>1 DEF FilesInv, Queued
      <3> QED
        BY <2>2, <3>1, <3>2 DEF FilesInv, InFolder
    <2> QED
      BY <1>13, <2>1, <2>2 DEF InFolder
  <1> QED
    BY <1>6, <1>7, <1>8, <1>12, <1>16, <1>17 DEF Waiting

FoldersTyped ==
    /\ folderSession \in 0..MaxSessions /\ sessionsMade \in 0..MaxSessions
    /\ open \subseteq F!Sessions /\ closing \subseteq F!Sessions
    /\ folder \in [F!Sessions -> Folders \union {NoFolder}]
    /\ fileState \in [F!RequestIds -> {"none", "running", "complete", "error", "gone"}]
    /\ fileFetching \subseteq F!RequestIds /\ cancelling \subseteq F!RequestIds
    /\ fileEntered \subseteq F!RequestIds /\ fileDead \in BOOLEAN

LEMMA FilesParts == FilesInv <=> FoldersTyped /\ Waiting
  BY DEF FilesInv, FoldersTyped, Waiting, F!TypeOK, RequestsTyped

LEMMA FilesInit == F!Init => FilesInv
  <1> SUFFICES ASSUME F!Init PROVE FilesInv
    OBVIOUS
  <1> USE DEF F!Init
  <1>1. MaxSessions \in Nat /\ MaxFileRequests \in Nat
    BY ProfilesAssumption DEF ProfilesAssumption, F!FileTransferAssumption
  <1>2. FoldersTyped
    <2>1. folderSession \in 0..MaxSessions /\ sessionsMade \in 0..MaxSessions
      BY <1>1
    <2>2. /\ folder \in [F!Sessions -> Folders \union {NoFolder}]
          /\ fileState \in [F!RequestIds -> {"none", "running", "complete", "error", "gone"}]
      OBVIOUS
    <2> QED
      BY <2>1, <2>2, Zenon DEF FoldersTyped
  <1>3. RequestsTyped /\ queue \in [F!Sessions -> Seq(F!RequestIds)]
    BY <1>1 DEF RequestsTyped
  <1>4. Queued /\ InFolder /\ ToldOnce
    BY DEF Queued, InFolder, ToldOnce
  <1> QED
    BY <1>2, <1>3, <1>4, FilesParts DEF Waiting

\* A step that lets calls and folders be, and ends transfers at most.
LEMMA FoldersRest ==
  ASSUME FilesInv, NEW ids \in SUBSET F!Transferring, F!Finish(ids) \/ UNCHANGED requests,
         UNCHANGED <<queue, folder>>
  PROVE  Waiting'
  <1>1. RequestsTyped' /\ Queued' /\ InFolder' /\ ToldOnce'
    BY TransfersEnd
  <1> QED
    BY <1>1, FilesParts DEF Waiting

LEMMA FilesNext ==
  ASSUME FilesInv, [F!Next]_(F!vars)
  PROVE  FilesInv'
  <1>1. /\ MaxSessions \in Nat /\ MaxFileRequests \in Nat
        /\ F!Sessions = 1..MaxSessions /\ F!RequestIds = 1..MaxFileRequests
    BY ProfilesAssumption
    DEF ProfilesAssumption, F!FileTransferAssumption, F!Sessions, F!RequestIds
  <1>2. FoldersTyped /\ Waiting
    BY FilesParts
  <1>3. SUFFICES FoldersTyped' /\ Waiting'
    <2>1. (FoldersTyped /\ Waiting)' => FilesInv'
      BY FilesParts, PTL
    <2> QED
      BY <2>1
  <1>4. CASE UNCHANGED F!vars
    <2> USE <1>4 DEF F!vars, F!sessionVars, F!callVars
    <2>1. FoldersTyped'
      BY <1>2 DEF FoldersTyped
    <2>2. Waiting'
      BY <1>2 DEF Waiting, RequestsTyped, Queued, InFolder, ToldOnce
    <2> QED
      BY <2>1, <2>2
  <1>5. CASE F!CreateSession
    <2> USE <1>5 DEF F!CreateSession, F!callVars
    <2>1. FoldersTyped'
      BY <1>1, <1>2 DEF FoldersTyped
    <2>2. Waiting'
      BY FoldersRest, {} \in SUBSET F!Transferring
    <2> QED
      BY <2>1, <2>2
  <1>6. ASSUME NEW closed \in SUBSET F!Sessions, F!CloseAtObexd(closed)
        PROVE  /\ open' \subseteq F!Sessions
               /\ fileState' \in
                     [F!RequestIds -> {"none", "running", "complete", "error", "gone"}]
    BY <1>2, <1>6 DEF F!CloseAtObexd, FoldersTyped
  <1>7. ASSUME NEW closed \in SUBSET F!Sessions, F!RemoveSession(closed)
        PROVE  /\ folderSession' = 0 /\ open' \subseteq F!Sessions /\ closing' \subseteq F!Sessions
               /\ fileState' \in
                     [F!RequestIds -> {"none", "running", "complete", "error", "gone"}]
               /\ UNCHANGED <<queue, folder>> => Waiting'
    <2>1. folderSession \in F!Sessions
      BY <1>1, <1>2, <1>7 DEF F!RemoveSession, FoldersTyped
    <2>2. F!CloseAtObexd(closed \union {folderSession})
      BY <1>7 DEF F!RemoveSession
    <2>3. closing' \subseteq F!Sessions /\ folderSession' = 0
      BY <1>2, <1>7, <2>1 DEF F!RemoveSession, FoldersTyped
    <2>4. UNCHANGED <<queue, folder>> => Waiting'
      BY <1>7, FoldersRest DEF F!RemoveSession
    <2> QED
      BY <1>6, <2>1, <2>2, <2>3, <2>4
  <1>8. CASE F!Disconnect
    <2>1. F!RemoveSession({})
      BY <1>8 DEF F!Disconnect
    <2>2. Waiting'
      BY <1>7, <1>8, <2>1 DEF F!Disconnect
    <2>3. FoldersTyped'
      BY <1>1, <1>2, <1>7, <1>8, <2>1 DEF F!Disconnect, F!callVars, FoldersTyped
    <2> QED
      BY <2>2, <2>3
  <1>9. ASSUME NEW s \in F!Sessions, F!LoseSession(s)
        PROVE  FoldersTyped' /\ Waiting'
    <2>1. /\ UNCHANGED <<sessionsMade, folder, queue, fileFetching, cancelling, fileEntered>>
          /\ fileDead' \in BOOLEAN
      BY <1>9 DEF F!LoseSession, F!callVars
    <2>2. CASE F!RemoveSession({s})
      <3>1. Waiting'
        BY <1>7, <2>1, <2>2
      <3>2. FoldersTyped'
        BY <1>1, <1>2, <1>7, <2>1, <2>2 DEF FoldersTyped
      <3> QED
        BY <3>1, <3>2
    <2>3. CASE F!CloseAtObexd({s}) /\ UNCHANGED <<folderSession, closing, requests>>
      <3>1. Waiting'
        BY <2>1, <2>3, FoldersRest, {} \in SUBSET F!Transferring
      <3>2. FoldersTyped'
        BY <1>2, <1>6, <2>1, <2>3 DEF FoldersTyped
      <3> QED
        BY <3>1, <3>2
    <2> QED
      BY <1>9, <2>2, <2>3 DEF F!LoseSession
  <1>10. ASSUME NEW f \in Folders, F!ListFolder(f) \/ F!PullFile(f) \/ F!PushFile(f)
         PROVE  FoldersTyped' /\ Waiting'
    <2>1. PICK kind \in F!Kinds : F!Ask(kind, f)
      BY <1>10 DEF F!ListFolder, F!PullFile, F!PushFile, F!Kinds
    <2>2. Waiting'
      BY <2>1, AskedWaits
    <2>3. FoldersTyped'
      BY <1>2, <2>1 DEF F!Ask, F!sessionVars, F!callVars, FoldersTyped
    <2> QED
      BY <2>2, <2>3
  <1>11. ASSUME NEW s \in F!Sessions, NEW r \in DOMAIN requests, F!ChangeFolderReply(s, r)
         PROVE  FoldersTyped' /\ Waiting'
    <2>1. Waiting' /\ folder' \in [F!Sessions -> Folders \union {NoFolder}]
      BY <1>11, FolderChanges
    <2>2. FoldersTyped'
      BY <1>2, <1>11, <2>1 DEF F!ChangeFolderReply, F!sessionVars, F!callVars, FoldersTyped
    <2> QED
      BY <2>1, <2>2
  <1>12. DOMAIN requests \subseteq F!RequestIds
    <2>1. /\ DOMAIN requests = 1..Len(requests) /\ Len(requests) \in Nat
          /\ Len(requests) <= MaxFileRequests
      BY <1>2 DEF Waiting, RequestsTyped
    <2> QED
      BY <1>1, <2>1
  <1>13. ASSUME NEW s \in F!Sessions, NEW r \in DOMAIN requests, F!CallReply(s, r)
         PROVE  FoldersTyped' /\ Waiting'
    <2>1. Waiting'
      BY <1>13, ReplyEnds
    <2>2. /\ fileState' \in [F!RequestIds -> {"none", "running", "complete", "error", "gone"}]
          /\ fileFetching' \subseteq F!RequestIds
      BY <1>2, <1>12, <1>13 DEF F!CallReply, FoldersTyped
    <2>3. FoldersTyped'
      BY <1>2, <1>13, <2>2 DEF F!CallReply, F!sessionVars, FoldersTyped
    <2> QED
      BY <2>1, <2>3
  <1>14. ASSUME NEW s \in F!Sessions, NEW r \in DOMAIN requests, F!CallError(s, r)
         PROVE  FoldersTyped' /\ Waiting'
    <2>1. Waiting'
      BY <1>14, ErrorEnds
    <2>2. FoldersTyped'
      BY <1>2, <1>14 DEF F!CallError, F!sessionVars, F!callVars, FoldersTyped
    <2> QED
      BY <2>1, <2>2
  <1>15. ASSUME NEW r \in DOMAIN requests, NEW s, F!Update(r, s), UNCHANGED <<queue, folder>>
         PROVE  Waiting' /\ fileEntered' \subseteq F!RequestIds /\ fileDead' \in BOOLEAN
    <2>1. F!Finish({r} \intersect F!Transferring) \/ UNCHANGED requests
      BY <1>15 DEF F!Update
    <2>2. Waiting'
      BY <1>15, <2>1, FoldersRest
    <2>3. fileEntered' \subseteq F!RequestIds /\ fileDead' \in BOOLEAN
      BY <1>2, <1>12, <1>15 DEF F!Update, FoldersTyped
    <2> QED
      BY <2>2, <2>3
  <1>16. ASSUME NEW r \in DOMAIN requests, F!FetchPropertiesReply(r)
         PROVE  FoldersTyped' /\ Waiting'
    <2>1. PICK s : F!Update(r, s)
      BY <1>16 DEF F!FetchPropertiesReply
    <2>2. Waiting' /\ fileEntered' \subseteq F!RequestIds /\ fileDead' \in BOOLEAN
      BY <1>15, <1>16, <2>1 DEF F!FetchPropertiesReply
    <2>3. FoldersTyped'
      BY <1>2, <1>16, <2>2 DEF F!FetchPropertiesReply, F!sessionVars, FoldersTyped
    <2> QED
      BY <2>2, <2>3
  <1>17. ASSUME NEW r \in DOMAIN requests, NEW s \in {"complete", "error"},
                F!HandlePropertiesChanged(r, s)
         PROVE  FoldersTyped' /\ Waiting'
    <2>1. /\ UNCHANGED <<folderSession, sessionsMade, open, closing, folder, queue, fileFetching,
                         cancelling>>
          /\ fileState' = [fileState EXCEPT ![r] = s]
      BY <1>17 DEF F!HandlePropertiesChanged, F!sessionVars
    <2>2. Waiting' /\ fileEntered' \subseteq F!RequestIds /\ fileDead' \in BOOLEAN
      <3>1. CASE F!Update(r, s)
        BY <1>15, <2>1, <3>1
      <3>2. CASE UNCHANGED <<requests, fileEntered, fileDead>>
        <4>1. Waiting'
          BY <2>1, <3>2, FoldersRest, {} \in SUBSET F!Transferring
        <4> QED
          BY <1>2, <3>2, <4>1 DEF FoldersTyped
      <3> QED
        BY <1>17, <3>1, <3>2 DEF F!HandlePropertiesChanged
    <2>3. fileState' \in [F!RequestIds -> {"none", "running", "complete", "error", "gone"}]
      BY <1>2, <1>12, <2>1 DEF FoldersTyped
    <2>4. FoldersTyped'
      BY <1>2, <2>1, <2>2, <2>3 DEF FoldersTyped
    <2> QED
      BY <2>2, <2>4
  <1>18. ASSUME NEW r \in DOMAIN requests, F!CancelTransfer(r)
         PROVE  FoldersTyped' /\ Waiting'
    <2>1. Waiting'
      BY <1>18, FoldersRest, {} \in SUBSET F!Transferring DEF F!CancelTransfer
    <2>2. FoldersTyped'
      BY <1>2, <1>12, <1>18 DEF F!CancelTransfer, F!sessionVars, FoldersTyped
    <2> QED
      BY <2>1, <2>2
  <1>19. ASSUME NEW r \in DOMAIN requests, NEW ok \in BOOLEAN, F!CancelReply(r, ok)
         PROVE  FoldersTyped' /\ Waiting'
    <2>1. Waiting'
      BY <1>19, FoldersRest DEF F!CancelReply
    <2>2. fileState' \in [F!RequestIds -> {"none", "running", "complete", "error", "gone"}]
      BY <1>2, <1>12, <1>19 DEF F!CancelReply, FoldersTyped
    <2>3. FoldersTyped'
      BY <1>2, <1>19, <2>2 DEF F!CancelReply, F!sessionVars, FoldersTyped
    <2> QED
      BY <2>1, <2>3
  <1> QED
    BY <1>4, <1>5, <1>8, <1>9, <1>10, <1>11, <1>13, <1>14, <1>16, <1>17, <1>18, <1>19 DEF F!Next

LEMMA FilesAlways == Spec => []FilesInv
  <1>1. Init => FilesInv
    BY FilesInit DEF Init
  <1>2. FilesInv /\ [Next]_vars => FilesInv'
    <2> SUFFICES ASSUME FilesInv, [Next]_vars
                 PROVE  FilesInv'
      OBVIOUS
    <2>1. F!Next \/ UNCHANGED folderVars
      BY DEF Next, ObexNext, vars, obexVars
    <2>2. [F!Next]_(F!vars)
      BY <2>1 DEF folderVars, F!vars, F!sessionVars, F!callVars
    <2> QED
      BY <2>2, FilesNext
  <1> QED
    BY <1>1, <1>2, PTL DEF Spec

LEMMA FilesFacts == FilesInv => F!TypeOK /\ F!FilesTold
  <1> SUFFICES ASSUME FilesInv PROVE F!FilesTold
    BY DEF FilesInv
  <1>1. DOMAIN requests = 1..Len(requests)
    BY DEF FilesInv, F!TypeOK
  <1> QED
    BY <1>1 DEF FilesInv, ToldOnce, F!FilesTold

(***************************************************************************)
(* Push.  What was told under an id and not reported yet is what the object *)
(* of the id has still to report; the request that is kept was answered by *)
(* nobody, and is that of the path that is kept.                           *)
(***************************************************************************)
Track == [state : U!States, bytes : 0..MaxBytes, reported : 0..MaxBytes, told : 0..MaxBytes,
          finished : 0..1]

PushFile == [state : U!States \union U!Removed, bytes : 0..MaxBytes]

Followed ==
    \A id \in U!Pushes :
        /\ U!AddsUp(id)
        /\ path[id] = U!NoPush => transfer[id] = U!NewTransfer /\ id \notin mTransfers
        /\ id \in mTransfers =>
              /\ transfer[id].told = transfer[id].reported
              /\ transfer[id].reported <= transfer[id].bytes
              /\ transfer[id].bytes <= file[path[id]].bytes
              /\ transfer[id].finished = 0

PushesTyped ==
    /\ path \in [U!Pushes -> U!Pushes \union {U!NoPush}]
    /\ transfer \in [U!Pushes -> Track] /\ mTransfers \subseteq U!Pushes
    /\ file \in [U!Pushes -> PushFile]

\* One who waits to be followed has nothing yet.
LEMMA Reported ==
  ASSUME NEW t \in Track, t.told = t.reported, t.reported <= t.bytes, t.finished = 0,
         MaxBytes \in Nat, NEW u, u = U!Report(t)
  PROVE  /\ u \in Track /\ u.state = t.state /\ u.bytes = t.bytes /\ u.told = t.bytes
         /\ u.finished = IF t.state = "complete" THEN 1 ELSE 0
         /\ u.reported = IF t.state = "complete" THEN 0 ELSE t.bytes
  <1> DEFINE fin == IF t.state = "complete" THEN 1 ELSE 0
             rep == IF t.state = "complete" THEN 0 ELSE t.bytes
             v == [t EXCEPT !.told = t.bytes]
             w == [v EXCEPT !.finished = fin]
  <1>1. t.told + t.bytes - t.reported = t.bytes /\ t.finished + fin = fin
    BY DEF Track
  <1>2. u = [t EXCEPT !.told = t.told + t.bytes - t.reported, !.finished = t.finished + fin,
                      !.reported = rep]
    BY DEF U!Report
  <1>3. u = [w EXCEPT !.reported = rep]
    BY <1>1, <1>2
  <1>4. fin \in 0..1 /\ rep \in 0..MaxBytes
    BY DEF Track
  <1> HIDE DEF fin, rep
  <1>5. /\ v \in Track /\ v.state = t.state /\ v.bytes = t.bytes /\ v.told = t.bytes
    BY DEF Track
  <1> HIDE DEF v
  <1>6. /\ w \in Track /\ w.state = t.state /\ w.bytes = t.bytes /\ w.told = t.bytes
        /\ w.finished = fin
    BY <1>4, <1>5 DEF Track
  <1> HIDE DEF w
  <1>7. /\ u \in Track /\ u.state = t.state /\ u.bytes = t.bytes /\ u.told = t.bytes
        /\ u.finished = fin /\ u.reported = rep
    BY <1>3, <1>4, <1>6 DEF Track
  <1> QED
    BY <1>7 DEF fin, rep

Moved(t, f) == [t EXCEPT !.state = f.state, !.bytes = f.bytes]

LEMMA Updated ==
  ASSUME NEW t \in Track, NEW f \in [state : U!States, bytes : 0..MaxBytes]
  PROVE  /\ Moved(t, f) \in Track /\ Moved(t, f).state = f.state /\ Moved(t, f).bytes = f.bytes
         /\ Moved(t, f).told = t.told /\ Moved(t, f).reported = t.reported
         /\ Moved(t, f).finished = t.finished
  <1> DEFINE v == [t EXCEPT !.state = f.state]
  <1>1. /\ v \in Track /\ v.state = f.state /\ v.bytes = t.bytes
        /\ v.told = t.told /\ v.reported = t.reported /\ v.finished = t.finished
    BY DEF Track
  <1>2. Moved(t, f) = [v EXCEPT !.bytes = f.bytes]
    BY DEF Moved
  <1> HIDE DEF v
  <1> QED
    BY <1>1, <1>2 DEF Track

\* Files only grow.
Growing == \A p \in U!Pushes : file[p].bytes <= file'[p].bytes

LEMMA UpdateFollows ==
  ASSUME PushesTyped, Followed, MaxBytes \in Nat,
         NEW ids \in SUBSET mTransfers, NEW f \in [state : U!States, bytes : 0..MaxBytes],
         U!Update(ids, f), UNCHANGED path, file' \in [U!Pushes -> PushFile], Growing,
         \A i \in ids : transfer[i].bytes <= f.bytes /\ f.bytes <= file'[path[i]].bytes
  PROVE  PushesTyped' /\ Followed'
  <1> DEFINE up(i) == Moved(transfer[i], f)
  <1>1. /\ transfer' = [i \in U!Pushes |->
                          IF i \notin ids THEN transfer[i]
                          ELSE IF U!Final(up(i)) \/ up(i).state = "active" THEN U!Report(up(i))
                          ELSE up(i)]
        /\ mTransfers' = {i \in mTransfers : i \in ids => ~U!Final(up(i))}
    BY DEF U!Update, Moved
  <1>2. mTransfers \subseteq U!Pushes
    BY DEF PushesTyped
  <1>3. ASSUME NEW i \in ids
        PROVE  /\ up(i) \in Track /\ up(i).state = f.state /\ up(i).bytes = f.bytes
               /\ up(i).told = up(i).reported /\ up(i).reported <= f.bytes
               /\ up(i).finished = 0 /\ path[i] \in U!Pushes
    <2>1. transfer[i] \in Track
      BY <1>2 DEF PushesTyped
    <2>2. /\ transfer[i].told = transfer[i].reported
          /\ transfer[i].reported <= transfer[i].bytes /\ transfer[i].finished = 0
          /\ path[i] # U!NoPush
      BY <1>2 DEF Followed, U!AddsUp
    <2>3. /\ up(i) \in Track /\ up(i).state = f.state /\ up(i).bytes = f.bytes
          /\ up(i).told = transfer[i].told /\ up(i).reported = transfer[i].reported
          /\ up(i).finished = transfer[i].finished
      BY <2>1, Updated
    <2>4. /\ transfer[i].reported \in Nat /\ transfer[i].bytes \in Nat /\ f.bytes \in Nat
      BY <2>1 DEF Track
    <2> QED
      BY <1>2, <2>2, <2>3, <2>4 DEF PushesTyped
  <1>4. ASSUME NEW i \in ids
        PROVE  LET u == transfer'[i] IN
               /\ u \in Track /\ u.state = f.state /\ u.bytes = f.bytes
               /\ U!Final(u) \/ f.state = "active" => u.told = u.bytes
               /\ ~(U!Final(u) \/ f.state = "active") => u.told <= u.bytes
               /\ u.finished = 1 <=> f.state = "complete" /\ f.bytes > 0
               /\ i \in mTransfers' <=> ~U!Final(u)
               /\ ~U!Final(u) => u.told = u.reported /\ u.reported <= u.bytes /\ u.finished = 0
    <2>1. f.bytes \in Nat
      OBVIOUS
    <2>2. CASE U!Final(up(i)) \/ up(i).state = "active"
      <3>1. transfer'[i] = U!Report(up(i))
        BY <1>1, <1>2, <2>2
      <3>2. LET u == transfer'[i] IN
            /\ u \in Track /\ u.state = f.state /\ u.bytes = f.bytes /\ u.told = f.bytes
            /\ u.finished = IF f.state = "complete" THEN 1 ELSE 0
            /\ u.reported = IF f.state = "complete" THEN 0 ELSE f.bytes
        BY <1>3, <3>1, Reported
      <3>3. U!Final(transfer'[i]) <=> U!Final(up(i))
        BY <1>3, <3>2 DEF U!Final
      <3>4. f.state = "complete" => f.bytes > 0
        BY <1>3, <2>2 DEF U!Final
      <3>5. i \in mTransfers' <=> ~U!Final(up(i))
        BY <1>1
      <3>6. ~U!Final(up(i)) => f.state = "active"
        BY <1>3, <2>2
      <3> QED
        BY <2>1, <3>2, <3>3, <3>4, <3>5, <3>6 DEF U!Final
    <2>3. CASE ~(U!Final(up(i)) \/ up(i).state = "active")
      <3>1. transfer'[i] = up(i)
        BY <1>1, <1>2, <2>3
      <3>2. i \in mTransfers'
        BY <1>1, <2>3
      <3>3. ~(f.state = "complete" /\ f.bytes > 0)
        BY <1>3, <2>3 DEF U!Final
      <3> QED
        BY <1>3, <2>3, <3>1, <3>2, <3>3
    <2> QED
      BY <2>2, <2>3
  <1>5. ASSUME NEW i \in U!Pushes \ ids
        PROVE  transfer'[i] = transfer[i] /\ (i \in mTransfers' <=> i \in mTransfers)
    BY <1>1
  <1>6. PushesTyped'
    <2>1. \A i \in U!Pushes : transfer'[i] \in Track
      BY <1>4, <1>5 DEF PushesTyped
    <2>2. transfer' \in [U!Pushes -> Track]
      BY <1>1, <2>1
    <2> QED
      BY <1>1, <2>2 DEF PushesTyped
  <1>7. Followed'
    <2> SUFFICES ASSUME NEW i \in U!Pushes
                 PROVE  /\ U!AddsUp(i)'
                        /\ path'[i] = U!NoPush =>
                              transfer'[i] = U!NewTransfer /\ i \notin mTransfers'
                        /\ i \in mTransfers' =>
                              /\ transfer'[i].told = transfer'[i].reported
                              /\ transfer'[i].reported <= transfer'[i].bytes
                              /\ transfer'[i].bytes <= file'[path'[i]].bytes
                              /\ transfer'[i].finished = 0
      BY DEF Followed
    <2>1. CASE i \in ids
      <3>1. path'[i] = path[i] /\ path[i] # U!NoPush
        BY <1>3, <2>1 DEF U!Pushes, U!NoPush
      <3>2. U!AddsUp(i)'
        BY <1>4, <2>1, <3>1 DEF U!AddsUp, U!Final, U!Ended
      <3>3. transfer'[i].bytes <= file'[path'[i]].bytes
        BY <1>4, <2>1, <3>1
      <3> QED
        BY <1>4, <2>1, <3>1, <3>2, <3>3
    <2>2. CASE i \notin ids
      <3>1. U!AddsUp(i)'
        BY <1>5, <2>2 DEF Followed, U!AddsUp, U!Final
      <3>2. i \in mTransfers => transfer[i].bytes <= file'[path[i]].bytes
        <4>1. i \in mTransfers =>
                 /\ path[i] \in U!Pushes /\ transfer[i].bytes <= file[path[i]].bytes
                 /\ file[path[i]].bytes <= file'[path[i]].bytes
          BY DEF Followed, U!AddsUp, PushesTyped, Growing
        <4>2. i \in mTransfers =>
                 /\ transfer[i].bytes \in Nat /\ file[path[i]].bytes \in Nat
                 /\ file'[path[i]].bytes \in Nat
          BY <4>1 DEF PushesTyped, Track, PushFile
        <4> QED
          BY <4>1, <4>2
      <3> QED
        BY <1>5, <2>2, <3>1, <3>2 DEF Followed
    <2> QED
      BY <2>1, <2>2
  <1> QED
    BY <1>6, <1>7

LEMMA DeleteFollows ==
  ASSUME PushesTyped, Followed, MaxBytes \in Nat, NEW ids \in SUBSET mTransfers,
         U!Delete(ids) \/ UNCHANGED <<mTransfers, transfer>>,
         UNCHANGED path, file' \in [U!Pushes -> PushFile], Growing
  PROVE  PushesTyped' /\ Followed'
  <1>1. mTransfers \subseteq U!Pushes /\ transfer \in [U!Pushes -> Track]
    BY DEF PushesTyped
  <1>2. ASSUME NEW i \in mTransfers
        PROVE  transfer[i].bytes <= file'[path[i]].bytes
    <2>1. /\ path[i] \in U!Pushes /\ transfer[i].bytes <= file[path[i]].bytes
          /\ file[path[i]].bytes <= file'[path[i]].bytes
      BY <1>1 DEF Followed, U!AddsUp, PushesTyped, Growing
    <2>2. /\ transfer[i].bytes \in Nat /\ file[path[i]].bytes \in Nat
          /\ file'[path[i]].bytes \in Nat
      BY <1>1, <2>1 DEF PushesTyped, Track, PushFile
    <2> QED
      BY <2>1, <2>2
  <1>3. CASE UNCHANGED <<mTransfers, transfer>>
    <2>1. PushesTyped'
      BY <1>3 DEF PushesTyped
    <2>2. \A i \in U!Pushes : U!AddsUp(i)'
      BY <1>3 DEF Followed, U!AddsUp, U!Final
    <2>3. Followed'
      BY <1>2, <1>3, <2>2 DEF Followed
    <2> QED
      BY <2>1, <2>3
  <1>4. CASE U!Delete(ids)
    <2> DEFINE failed(i) == [transfer[i] EXCEPT !.state = "error"]
    <2>1. /\ mTransfers' = mTransfers \ ids
          /\ transfer' = [i \in U!Pushes |-> IF i \in ids /\ transfer[i].state \notin U!Ended
                                             THEN U!Report(failed(i)) ELSE transfer[i]]
      BY <1>4 DEF U!Delete
    <2>2. ASSUME NEW i \in ids
          PROVE  /\ failed(i) \in Track /\ failed(i).state = "error"
                 /\ failed(i).bytes = transfer[i].bytes
                 /\ failed(i).told = failed(i).reported
                 /\ failed(i).reported <= failed(i).bytes /\ failed(i).finished = 0
      <3>1. transfer[i] \in Track
        BY <1>1
      <3>2. /\ transfer[i].told = transfer[i].reported
            /\ transfer[i].reported <= transfer[i].bytes /\ transfer[i].finished = 0
        BY <1>1 DEF Followed
      <3> QED
        BY <3>1, <3>2 DEF Track, U!States, U!Ended
    <2> HIDE DEF failed
    <2>3. ASSUME NEW i \in ids, transfer[i].state \notin U!Ended
          PROVE  /\ transfer'[i] \in Track /\ transfer'[i].state = "error"
                 /\ transfer'[i].told = transfer'[i].bytes /\ transfer'[i].finished = 0
      <3>1. transfer'[i] = U!Report(failed(i))
        BY <1>1, <2>1, <2>3
      <3> QED
        BY <2>2, <3>1, Reported
    <2>4. ASSUME NEW i \in U!Pushes, ~(i \in ids /\ transfer[i].state \notin U!Ended)
          PROVE  transfer'[i] = transfer[i]
      BY <2>1, <2>4
    <2>5. PushesTyped'
      <3>1. \A i \in U!Pushes : transfer'[i] \in Track
        BY <1>1, <2>3, <2>4
      <3>2. transfer' \in [U!Pushes -> Track]
        BY <2>1, <3>1
      <3> QED
        BY <2>1, <3>2 DEF PushesTyped
    <2>6. Followed'
      <3> SUFFICES ASSUME NEW i \in U!Pushes
                   PROVE  /\ U!AddsUp(i)'
                          /\ path'[i] = U!NoPush =>
                                transfer'[i] = U!NewTransfer /\ i \notin mTransfers'
                          /\ i \in mTransfers' =>
                                /\ transfer'[i].told = transfer'[i].reported
                                /\ transfer'[i].reported <= transfer'[i].bytes
                                /\ transfer'[i].bytes <= file'[path'[i]].bytes
                                /\ transfer'[i].finished = 0
        BY DEF Followed
      <3>1. CASE i \in ids /\ transfer[i].state \notin U!Ended
        <4>1. path[i] # U!NoPush /\ i \notin mTransfers'
          BY <2>1, <3>1 DEF Followed, U!AddsUp
        <4>2. U!AddsUp(i)'
          BY <2>3, <3>1, <4>1 DEF U!AddsUp, U!Final, U!Ended
        <4> QED
          BY <4>1, <4>2
      <3>2. CASE ~(i \in ids /\ transfer[i].state \notin U!Ended)
        <4>1. transfer'[i] = transfer[i] /\ (i \in mTransfers' => i \in mTransfers)
          BY <2>1, <2>4, <3>2
        <4>2. transfer[i].state \notin U!Ended /\ i \in mTransfers => i \in mTransfers'
          BY <2>1, <3>2
        <4>3. U!AddsUp(i)'
          BY <4>1, <4>2 DEF Followed, U!AddsUp, U!Final
        <4> QED
          BY <1>2, <4>1, <4>3 DEF Followed
      <3> QED
        BY <3>1, <3>2
    <2> QED
      BY <2>5, <2>6
  <1> QED
    BY <1>3, <1>4

RequestsAsked ==
    /\ from \in Seq(Senders) /\ Len(from) <= MaxPushes
    /\ verdict \in [U!Pushes -> {"none", "accepted", "rejected", "withdrawn"}]
    /\ replies \in [U!Pushes -> 0..2]
    /\ answer \in [U!Pushes -> {"unasked", "none", "yes", "no"}]
    /\ crossed \subseteq U!Pushes
    /\ path \in [U!Pushes -> U!Pushes \union {U!NoPush}]
    /\ mTransferObjPath \in 0..Len(from) /\ mInvocation \in {U!NoPush, mTransferObjPath}

Kept == mInvocation # U!NoPush =>
            replies[mInvocation] = 0 /\ verdict[mInvocation] \in {"none", "withdrawn"}

Answered ==
    \A p \in U!Pushes :
        /\ p > Len(from) =>
              replies[p] = 0 /\ verdict[p] = "none" /\ answer[p] = "unasked" /\ p \notin crossed
        /\ answer[p] # "unasked" => mTransferObjPath # U!NoPush
        /\ answer[p] = "none" /\ p \notin crossed /\ mTransferObjPath = p => mInvocation = p
        /\ path[p] # U!NoPush => answer[p] = "yes"
        /\ p \notin crossed => U!AnsweredAsSaid(p)
        /\ replies[p] <= 1

Taken ==
    \A p \in U!Pushes :
        verdict[p] = "accepted" => \E id \in U!Pushes : answer[id] = "yes" /\ path[id] = p

Asking == RequestsAsked /\ Kept /\ Answered /\ Taken

\* A push that is asked for is a new one.
LEMMA NewPush ==
  ASSUME Asking, NEW p \in U!Pushes, NEW d \in Senders, U!Asked(p, d)
  PROVE  /\ from' \in Seq(Senders) /\ Len(from') = p /\ p = Len(from) + 1
         /\ Len(from) \in Nat /\ p <= MaxPushes
         /\ replies[p] = 0 /\ verdict[p] = "none" /\ answer[p] = "unasked" /\ p \notin crossed
         /\ mTransferObjPath # p /\ mInvocation # p
  <1>1. from \in Seq(Senders) /\ Len(from) \in Nat
    BY DEF Asking, RequestsAsked
  <1>2. p = Len(from) + 1 /\ from' = Append(from, d)
    BY DEF U!Asked
  <1>3. from' \in Seq(Senders) /\ Len(from') = p
    BY <1>1, <1>2
  <1>4. p > Len(from) /\ p <= MaxPushes
    BY <1>1, <1>2, ProfilesAssumption DEF U!Pushes, ProfilesAssumption, U!PushAssumption
  <1>5. replies[p] = 0 /\ verdict[p] = "none" /\ answer[p] = "unasked" /\ p \notin crossed
    BY <1>4 DEF Asking, Answered
  <1>6. mTransferObjPath # p /\ mInvocation # p
    BY <1>1, <1>2 DEF Asking, RequestsAsked, U!NoPush
  <1> QED
    BY <1>1, <1>2, <1>3, <1>4, <1>5, <1>6

LEMMA AskKeeps ==
  ASSUME Asking, NEW p \in U!Pushes, NEW d \in Senders, U!Asked(p, d),
         UNCHANGED <<crossed, path>>,
         verdict' \in [U!Pushes -> {"none", "accepted", "rejected", "withdrawn"}],
         replies' \in [U!Pushes -> 0..2],
         answer' \in [U!Pushes -> {"unasked", "none", "yes", "no"}],
         \A q \in U!Pushes \ {p} :
            replies'[q] = replies[q] /\ verdict'[q] = verdict[q] /\ answer'[q] = answer[q],
         replies'[p] <= 1, verdict'[p] \in {"none", "rejected"},
         \/ UNCHANGED <<mInvocation, mTransferObjPath>> /\ answer'[p] = "unasked"
         \/ mInvocation' = U!NoPush /\ mTransferObjPath' = p /\ answer'[p] = "unasked"
         \/ /\ mInvocation' = p /\ mTransferObjPath' = p /\ answer'[p] \in {"unasked", "none"}
            /\ replies'[p] = 0 /\ verdict'[p] = "none"
  PROVE  Asking'
  <1>1. /\ from' \in Seq(Senders) /\ Len(from') = p /\ p = Len(from) + 1
        /\ Len(from) \in Nat /\ p <= MaxPushes /\ p \notin crossed
        /\ mTransferObjPath # p /\ mInvocation # p /\ answer[p] = "unasked"
    BY NewPush
  <1>2. path[p] = U!NoPush /\ mInvocation' \in {U!NoPush, mTransferObjPath'}
    BY <1>1 DEF Asking, RequestsAsked, Answered
  <1>3. mTransferObjPath' \in 0..Len(from')
    BY <1>1 DEF Asking, RequestsAsked
  <1>4. RequestsAsked'
    BY <1>1, <1>2, <1>3 DEF Asking, RequestsAsked
  <1>5. Kept'
    <2> SUFFICES ASSUME mInvocation' # U!NoPush
                 PROVE  /\ replies'[mInvocation'] = 0
                        /\ verdict'[mInvocation'] \in {"none", "withdrawn"}
      BY DEF Kept
    <2>1. CASE UNCHANGED mInvocation
      <3>1. mInvocation \in U!Pushes \ {p}
        BY <1>1, <2>1, ProfilesAssumption
        DEF Asking, RequestsAsked, U!Pushes, U!NoPush, ProfilesAssumption, U!PushAssumption
      <3> QED
        BY <2>1, <3>1 DEF Asking, Kept
    <2>2. CASE mInvocation' = p
      BY <1>1, <2>2
    <2> QED
      BY <2>1, <2>2
  <1>6. Answered'
    <2> SUFFICES ASSUME NEW q \in U!Pushes
                 PROVE  /\ q > Len(from') =>
                              /\ replies'[q] = 0 /\ verdict'[q] = "none"
                              /\ answer'[q] = "unasked" /\ q \notin crossed'
                        /\ answer'[q] # "unasked" => mTransferObjPath' # U!NoPush
                        /\ (answer'[q] = "none" /\ q \notin crossed' /\ mTransferObjPath' = q) =>
                              mInvocation' = q
                        /\ path'[q] # U!NoPush => answer'[q] = "yes"
                        /\ q \notin crossed' => U!AnsweredAsSaid(q)'
                        /\ replies'[q] <= 1
      BY DEF Answered
    <2>1. CASE q = p
      <3>1. p # U!NoPush
        BY DEF U!Pushes, U!NoPush
      <3>2. answer'[p] # "unasked" => mTransferObjPath' = p /\ mInvocation' = p
        OBVIOUS
      <3>3. answer'[p] = "none" => verdict'[p] = "none"
        BY <1>1
      <3>4. U!AnsweredAsSaid(p)'
        BY <3>3 DEF U!AnsweredAsSaid
      <3> QED
        BY <1>1, <1>2, <2>1, <3>1, <3>2, <3>4
    <2>2. CASE q # p
      <3>1. q > Len(from') => q > Len(from)
        BY <1>1 DEF U!Pushes
      <3>2. U!AnsweredAsSaid(q)' <=> U!AnsweredAsSaid(q)
        BY <2>2 DEF U!AnsweredAsSaid
      <3>3. mTransferObjPath # U!NoPush => mTransferObjPath' # U!NoPush
        BY DEF U!Pushes, U!NoPush
      <3>4. mTransferObjPath' = q => mTransferObjPath = q /\ mInvocation' = mInvocation
        BY <1>1, <2>2
      <3>5. /\ q > Len(from) =>
                  /\ replies[q] = 0 /\ verdict[q] = "none" /\ answer[q] = "unasked"
                  /\ q \notin crossed
            /\ answer[q] # "unasked" => mTransferObjPath # U!NoPush
            /\ answer[q] = "none" /\ q \notin crossed /\ mTransferObjPath = q => mInvocation = q
            /\ path[q] # U!NoPush => answer[q] = "yes"
            /\ q \notin crossed => U!AnsweredAsSaid(q)
            /\ replies[q] <= 1
        BY DEF Asking, Answered
      <3> QED
        BY <2>2, <3>1, <3>2, <3>3, <3>4, <3>5
    <2> QED
      BY <2>1, <2>2
  <1>7. Taken'
    <2> SUFFICES ASSUME NEW q \in U!Pushes, verdict'[q] = "accepted"
                 PROVE  \E id \in U!Pushes : answer'[id] = "yes" /\ path'[id] = q
      BY DEF Taken
    <2>1. q # p /\ verdict[q] = "accepted"
      OBVIOUS
    <2>2. PICK id \in U!Pushes : answer[id] = "yes" /\ path[id] = q
      BY <2>1 DEF Asking, Taken
    <2>3. id # p
      BY <1>1, <2>2
    <2> QED
      BY <2>2, <2>3
  <1> QED
    BY <1>4, <1>5, <1>6, <1>7 DEF Asking

\* obexd no longer waits for the answer to some.
LEMMA WithdrawKeeps ==
  ASSUME Asking, NEW gone \in SUBSET DOMAIN from,
         verdict' = [p \in U!Pushes |-> IF p \in gone /\ verdict[p] = "none" THEN "withdrawn"
                                        ELSE verdict[p]],
         UNCHANGED <<from, replies, answer, crossed, path, mInvocation, mTransferObjPath>>
  PROVE  Asking'
  <1>1. DOMAIN from = 1..Len(from) /\ Len(from) \in Nat
    BY DEF Asking, RequestsAsked
  <1>2. RequestsAsked'
    BY DEF Asking, RequestsAsked
  <1>3. \A p \in U!Pushes : \/ verdict'[p] = verdict[p]
                            \/ /\ verdict[p] = "none" /\ verdict'[p] = "withdrawn"
                               /\ ~(p > Len(from))
    BY <1>1 DEF U!Pushes
  <1>4. Kept'
    <2>1. mInvocation # U!NoPush => mInvocation \in U!Pushes
      BY ProfilesAssumption
      DEF Asking, RequestsAsked, U!Pushes, U!NoPush, ProfilesAssumption, U!PushAssumption
    <2> QED
      BY <1>3, <2>1 DEF Asking, Kept
  <1>5. \A p \in U!Pushes : U!AnsweredAsSaid(p) => U!AnsweredAsSaid(p)'
    BY <1>3 DEF U!AnsweredAsSaid
  <1>6. Answered'
    BY <1>3, <1>5 DEF Asking, Answered
  <1>7. Taken'
    BY <1>3 DEF Asking, Taken
  <1> QED
    BY <1>2, <1>4, <1>6, <1>7 DEF Asking

LEMMA SupplyKeeps ==
  ASSUME Asking, NEW id \in U!Pushes, NEW accept \in BOOLEAN,
         U!SupplyTransferConfirmation(id, accept)
  PROVE  /\ Asking' /\ (accept => mTransferObjPath \in U!Pushes)
         /\ path[id] = U!NoPush
  <1> DEFINE k == mTransferObjPath
             v == IF accept THEN "accepted" ELSE "rejected"
             said == IF accept THEN "yes" ELSE "no"
  <1>1. /\ answer[id] = "none" /\ answer' = [answer EXCEPT ![id] = said]
        /\ UNCHANGED <<from, mTransferObjPath>>
        /\ crossed' = IF k = id THEN crossed ELSE crossed \union {id, k}
        /\ U!ReplyToKept(v)
        /\ path' = IF accept THEN [path EXCEPT ![id] = k] ELSE path
    BY DEF U!SupplyTransferConfirmation
  <1>2. k \in U!Pushes /\ k <= Len(from) /\ k # U!NoPush /\ Len(from) \in Nat
    BY <1>1, ProfilesAssumption
    DEF Asking, RequestsAsked, Answered, U!Pushes, U!NoPush, ProfilesAssumption, U!PushAssumption
  <1>3. id <= Len(from)
    BY <1>1, <1>2 DEF Asking, Answered, U!Pushes
  <1>4. mInvocation' = U!NoPush /\ mInvocation \in {U!NoPush, k}
    BY <1>1 DEF U!ReplyToKept, Asking, RequestsAsked
  <1>5. CASE mInvocation = U!NoPush
    <2>1. UNCHANGED <<verdict, replies>>
      BY <1>1, <1>5 DEF U!ReplyToKept
    <2>2. id # k \/ id \in crossed
      BY <1>1, <1>2, <1>5 DEF Asking, Answered
    <2>3. RequestsAsked'
      BY <1>1, <1>2, <1>4, <2>1 DEF Asking, RequestsAsked
    <2>4. Kept'
      BY <1>4 DEF Kept
    <2>5. Answered'
      BY <1>1, <1>2, <1>3, <2>1, <2>2 DEF Asking, RequestsAsked, Answered, U!AnsweredAsSaid
    <2>6. Taken'
      BY <1>1, <2>1 DEF Asking, RequestsAsked, Answered, Taken
    <2>7. path[id] = U!NoPush
      BY <1>1 DEF Asking, Answered
    <2> QED
      BY <1>2, <2>3, <2>4, <2>5, <2>6, <2>7 DEF Asking
  <1>6. CASE mInvocation = k
    <2>1. U!ReplyWith(k, v)
      BY <1>1, <1>2, <1>6 DEF U!ReplyToKept
    <2>2. replies[k] = 0 /\ verdict[k] \in {"none", "withdrawn"}
      BY <1>2, <1>6 DEF Asking, Kept
    <2>3. /\ replies' = [replies EXCEPT ![k] = 1]
          /\ verdict' = [verdict EXCEPT ![k] = IF verdict[k] = "none" THEN v ELSE verdict[k]]
      BY <2>1, <2>2 DEF U!ReplyWith, Asking, RequestsAsked
    <2>4. /\ replies' \in [U!Pushes -> 0..2]
          /\ verdict' \in [U!Pushes -> {"none", "accepted", "rejected", "withdrawn"}]
      BY <1>2, <2>3 DEF Asking, RequestsAsked
    <2>5. /\ answer' \in [U!Pushes -> {"unasked", "none", "yes", "no"}]
          /\ path' \in [U!Pushes -> U!Pushes \union {U!NoPush}]
          /\ crossed' \subseteq U!Pushes
      BY <1>1, <1>2 DEF Asking, RequestsAsked
    <2>6. RequestsAsked'
      BY <1>1, <1>4, <2>4, <2>5 DEF Asking, RequestsAsked
    <2>7. Kept'
      BY <1>4 DEF Kept
    <2>8. /\ replies'[k] = 1 /\ \A p \in U!Pushes \ {k} : replies'[p] = replies[p]
          /\ verdict'[k] = IF verdict[k] = "none" THEN v ELSE "withdrawn"
          /\ \A p \in U!Pushes \ {k} : verdict'[p] = verdict[p]
          /\ answer'[id] = said /\ \A p \in U!Pushes \ {id} : answer'[p] = answer[p]
          /\ path'[id] = IF accept THEN k ELSE path[id]
          /\ \A p \in U!Pushes \ {id} : path'[p] = path[p]
      BY <1>1, <1>2, <2>2, <2>3 DEF Asking, RequestsAsked
    <2>9. path[id] = U!NoPush
      BY <1>1 DEF Asking, Answered
    <2>10. ASSUME NEW q \in U!Pushes, q \notin crossed'
           PROVE  U!AnsweredAsSaid(q)'
      <3>1. q \notin crossed /\ U!AnsweredAsSaid(q) /\ (id = q <=> k = q)
        BY <1>1, <2>10 DEF Asking, Answered
      <3>2. CASE q = id
        BY <2>2, <2>8, <3>1, <3>2 DEF U!AnsweredAsSaid
      <3>3. CASE q # id
        <4>1. /\ answer'[q] = answer[q] /\ path'[q] = path[q] /\ verdict'[q] = verdict[q]
          BY <2>8, <3>1, <3>3
        <4> QED
          BY <3>1, <4>1 DEF U!AnsweredAsSaid
      <3> QED
        BY <3>2, <3>3
    <2>11. Answered'
      <3> SUFFICES ASSUME NEW q \in U!Pushes
                   PROVE  /\ q > Len(from') =>
                                /\ replies'[q] = 0 /\ verdict'[q] = "none"
                                /\ answer'[q] = "unasked" /\ q \notin crossed'
                          /\ answer'[q] # "unasked" => mTransferObjPath' # U!NoPush
                          /\ (answer'[q] = "none" /\ q \notin crossed' /\ mTransferObjPath' = q) =>
                                mInvocation' = q
                          /\ path'[q] # U!NoPush => answer'[q] = "yes"
                          /\ q \notin crossed' => U!AnsweredAsSaid(q)'
                          /\ replies'[q] <= 1
        BY DEF Answered
      <3>1. /\ q > Len(from) =>
                  /\ replies[q] = 0 /\ verdict[q] = "none" /\ answer[q] = "unasked"
                  /\ q \notin crossed
            /\ path[q] # U!NoPush => answer[q] = "yes"
            /\ replies[q] <= 1
        BY DEF Asking, Answered
      <3>2. q > Len(from') => q # id /\ q # k /\ q > Len(from)
        BY <1>1, <1>2, <1>3 DEF U!Pushes
      <3>3. q > Len(from') =>
              replies'[q] = 0 /\ verdict'[q] = "none" /\ answer'[q] = "unasked" /\ q \notin crossed'
        BY <1>1, <2>8, <3>1, <3>2
      <3>4. ~(answer'[q] = "none" /\ q \notin crossed' /\ mTransferObjPath' = q)
        BY <1>1, <2>8
      <3>5. path'[q] # U!NoPush => answer'[q] = "yes"
        BY <2>8, <2>9, <3>1
      <3>6. replies'[q] <= 1
        BY <2>8, <3>1
      <3> QED
        BY <1>1, <1>2, <2>10, <3>3, <3>4, <3>5, <3>6
    <2>12. Taken'
      <3> SUFFICES ASSUME NEW q \in U!Pushes, verdict'[q] = "accepted"
                   PROVE  \E j \in U!Pushes : answer'[j] = "yes" /\ path'[j] = q
        BY DEF Taken
      <3>1. CASE q = k
        BY <2>2, <2>8, <3>1
      <3>2. CASE q # k
        <4>1. PICK j \in U!Pushes : answer[j] = "yes" /\ path[j] = q
          BY <2>8, <3>2 DEF Asking, Taken
        <4>2. j # id
          BY <1>1, <4>1
        <4> QED
          BY <2>8, <4>1, <4>2
      <3> QED
        BY <3>1, <3>2
    <2> QED
      BY <1>2, <2>6, <2>7, <2>9, <2>11, <2>12 DEF Asking
  <1> QED
    BY <1>4, <1>5, <1>6

PushSides ==
    /\ mSessions \in [Senders -> {"none", "push", "client"}] /\ leaked \subseteq Senders
    /\ pushFetching \subseteq U!Pushes /\ pushEntered \subseteq U!Pushes
    /\ dead \in BOOLEAN

PushInv == PushesTyped /\ Followed /\ Asking /\ PushSides

LEMMA PushInit == U!Init => PushInv
  <1> SUFFICES ASSUME U!Init PROVE PushInv
    OBVIOUS
  <1>1. MaxPushes \in Nat /\ MaxBytes \in Nat
    BY ProfilesAssumption DEF ProfilesAssumption, U!PushAssumption
  <1>2. U!NewTransfer \in Track /\ [state |-> "waiting", bytes |-> 0] \in PushFile
    BY <1>1 DEF U!NewTransfer, Track, PushFile, U!States
  <1>3. PushesTyped
    BY <1>2 DEF U!Init, PushesTyped
  <1>4. Followed
    BY DEF U!Init, Followed, U!AddsUp, U!Final, U!NewTransfer, U!Ended
  <1>5. from \in Seq(Senders) /\ Len(from) = 0
    BY DEF U!Init
  <1>6. RequestsAsked
    BY <1>1, <1>5 DEF U!Init, RequestsAsked, U!NoPush
  <1>7. Kept /\ Answered /\ Taken
    BY DEF U!Init, Kept, Answered, Taken, U!AnsweredAsSaid
  <1>8. PushSides
    BY DEF U!Init, PushSides
  <1> QED
    BY <1>3, <1>4, <1>6, <1>7, <1>8 DEF PushInv, Asking

\* A reply is one more, and the verdict if there was none.
LEMMA Replied ==
  ASSUME PushesTyped, Asking, NEW p \in U!Pushes, NEW v \in {"accepted", "rejected"},
         U!ReplyWith(p, v), replies[p] = 0
  PROVE  /\ file' \in [U!Pushes -> PushFile] /\ Growing
         /\ replies' \in [U!Pushes -> 0..2] /\ replies'[p] = 1
         /\ verdict' \in [U!Pushes -> {"none", "accepted", "rejected", "withdrawn"}]
         /\ verdict[p] = "none" => verdict'[p] = v
         /\ \A q \in U!Pushes \ {p} : replies'[q] = replies[q] /\ verdict'[q] = verdict[q]
  <1> DEFINE gone == [file[p] EXCEPT !.state = "gone"]
  <1>1. file \in [U!Pushes -> PushFile] /\ file[p] \in PushFile
    BY DEF PushesTyped
  <1>2. gone \in PushFile /\ gone.bytes = file[p].bytes
    BY <1>1 DEF PushFile, U!Removed
  <1>3. file' = file \/ file' = [file EXCEPT ![p] = gone]
    BY DEF U!ReplyWith
  <1> HIDE DEF gone
  <1>4. \A q \in U!Pushes : file[q].bytes \in Nat
    BY <1>1 DEF PushFile
  <1>5. /\ file' \in [U!Pushes -> PushFile]
        /\ \A q \in U!Pushes : file'[q].bytes = file[q].bytes
    BY <1>1, <1>2, <1>3
  <1>6. Growing
    BY <1>4, <1>5 DEF Growing
  <1>7. replies' = [replies EXCEPT ![p] = 1]
    BY DEF U!ReplyWith
  <1>8. verdict' = [verdict EXCEPT ![p] = IF verdict[p] = "none" THEN v ELSE verdict[p]]
    BY DEF U!ReplyWith
  <1>9. /\ replies \in [U!Pushes -> 0..2]
        /\ verdict \in [U!Pushes -> {"none", "accepted", "rejected", "withdrawn"}]
    BY DEF Asking, RequestsAsked
  <1>10. replies' \in [U!Pushes -> 0..2] /\ replies'[p] = 1
    BY <1>7, <1>9
  <1>11. verdict' \in [U!Pushes -> {"none", "accepted", "rejected", "withdrawn"}]
    BY <1>8, <1>9
  <1> QED
    BY <1>5, <1>6, <1>7, <1>8, <1>9, <1>10, <1>11

\* Files at rest have not shrunk.
LEMMA FilesRest ==
  ASSUME PushesTyped, UNCHANGED file, MaxBytes \in Nat
  PROVE  file' \in [U!Pushes -> PushFile] /\ Growing
  <1>1. \A q \in U!Pushes : file[q].bytes \in Nat
    BY DEF PushesTyped, PushFile
  <1> QED
    BY <1>1 DEF PushesTyped, Growing

LEMMA AskStep ==
  ASSUME PushInv, NEW p \in U!Pushes, NEW d \in Senders,
         \/ U!AgentRejects(p, d) \/ U!AgentFindsNoAdapter(p, d)
         \/ U!Refuse(p, d) \/ U!LeaveUnanswered(p, d) \/ U!Offer(p, d)
  PROVE  PushInv'
  <1>1. MaxPushes \in Nat /\ MaxBytes \in Nat
    BY ProfilesAssumption DEF ProfilesAssumption, U!PushAssumption
  <1>2. U!Asked(p, d) /\ UNCHANGED <<crossed, path, mTransfers, transfer>>
    BY DEF U!AgentRejects, U!AgentFindsNoAdapter, U!Refuse, U!LeaveUnanswered, U!Offer,
           U!transferVars
  <1>3. PushesTyped /\ Followed /\ Asking /\ PushSides
    BY DEF PushInv
  <1>4. /\ replies[p] = 0 /\ verdict[p] = "none" /\ answer[p] = "unasked"
    BY <1>2, <1>3, NewPush
  <1>5. /\ replies \in [U!Pushes -> 0..2]
        /\ verdict \in [U!Pushes -> {"none", "accepted", "rejected", "withdrawn"}]
        /\ answer \in [U!Pushes -> {"unasked", "none", "yes", "no"}]
    BY <1>3 DEF Asking, RequestsAsked
  <1>6. (U!ReplyWith(p, "rejected") \/ UNCHANGED <<verdict, replies, file>>)
        => file' \in [U!Pushes -> PushFile] /\ Growing
    BY <1>1, <1>3, <1>4, Replied, FilesRest
  <1>7. file' \in [U!Pushes -> PushFile] /\ Growing
    BY <1>6 DEF U!AgentRejects, U!AgentFindsNoAdapter, U!Refuse, U!LeaveUnanswered, U!Offer
  <1>8. PushesTyped' /\ Followed'
    BY <1>1, <1>2, <1>3, <1>7, DeleteFollows, {} \in SUBSET mTransfers
  <1>9. PushSides'
    <2>1. CASE U!AgentFindsNoAdapter(p, d)
      BY <1>3, <2>1 DEF PushSides, U!AgentFindsNoAdapter, U!sessionVars, U!callVars
    <2>2. CASE ~U!AgentFindsNoAdapter(p, d)
      <3>1. UNCHANGED <<pushFetching, pushEntered, dead>>
        BY <2>2 DEF U!AgentRejects, U!Refuse, U!LeaveUnanswered, U!Offer, U!callVars
      <3>2. /\ mSessions' \in [Senders -> {"none", "push", "client"}] /\ leaked' \subseteq Senders
        BY <1>3, <2>2
        DEF PushSides, U!AgentRejects, U!Refuse, U!LeaveUnanswered, U!Offer, U!sessionVars
      <3> QED
        BY <1>3, <3>1, <3>2 DEF PushSides
    <2> QED
      BY <2>1, <2>2
  <1>10. Asking'
    <2>1. CASE U!AgentRejects(p, d) \/ U!Refuse(p, d)
      <3>1. U!ReplyWith(p, "rejected") /\ UNCHANGED answer
        BY <2>1 DEF U!AgentRejects, U!Refuse
      <3>2. /\ replies' \in [U!Pushes -> 0..2] /\ replies'[p] = 1
            /\ verdict' \in [U!Pushes -> {"none", "accepted", "rejected", "withdrawn"}]
            /\ verdict'[p] = "rejected"
            /\ \A q \in U!Pushes \ {p} : replies'[q] = replies[q] /\ verdict'[q] = verdict[q]
        BY <1>3, <1>4, <3>1, Replied
      <3>3. \/ UNCHANGED <<mInvocation, mTransferObjPath>>
            \/ mInvocation' = U!NoPush /\ mTransferObjPath' = p
        BY <2>1 DEF U!AgentRejects, U!Refuse
      <3>4. answer' \in [U!Pushes -> {"unasked", "none", "yes", "no"}] /\ answer'[p] = "unasked"
        BY <1>4, <1>5, <3>1
      <3> QED
        BY <1>2, <1>3, <3>1, <3>2, <3>3, <3>4, AskKeeps
    <2>2. CASE U!AgentFindsNoAdapter(p, d)
      BY <1>2, <1>3, <1>4, <1>5, <2>2, AskKeeps DEF U!AgentFindsNoAdapter
    <2>3. CASE U!LeaveUnanswered(p, d)
      BY <1>2, <1>3, <1>4, <1>5, <2>3, AskKeeps DEF U!LeaveUnanswered
    <2>4. CASE U!Offer(p, d)
      <3>1. /\ answer' = [answer EXCEPT ![p] = "none"] /\ UNCHANGED <<verdict, replies>>
            /\ mInvocation' = p /\ mTransferObjPath' = p
        BY <2>4 DEF U!Offer
      <3>2. /\ answer' \in [U!Pushes -> {"unasked", "none", "yes", "no"}] /\ answer'[p] = "none"
            /\ \A q \in U!Pushes \ {p} : answer'[q] = answer[q]
        BY <1>5, <3>1
      <3> QED
        BY <1>2, <1>3, <1>4, <1>5, <3>1, <3>2, AskKeeps
    <2> QED
      BY <2>1, <2>2, <2>3, <2>4
  <1> QED
    BY <1>8, <1>9, <1>10 DEF PushInv

LEMMA SupplyStep ==
  ASSUME PushInv, NEW id \in U!Pushes, NEW accept \in BOOLEAN,
         U!SupplyTransferConfirmation(id, accept)
  PROVE  PushInv'
  <1> DEFINE k == mTransferObjPath
             v == IF accept THEN "accepted" ELSE "rejected"
  <1>1. MaxPushes \in Nat /\ MaxBytes \in Nat
    BY ProfilesAssumption DEF ProfilesAssumption, U!PushAssumption
  <1>2. PushesTyped /\ Followed /\ Asking /\ PushSides
    BY DEF PushInv
  <1>3. Asking' /\ (accept => k \in U!Pushes) /\ path[id] = U!NoPush
    BY <1>2, SupplyKeeps
  <1>4. /\ UNCHANGED <<mSessions, leaked, transfer, pushEntered, dead>>
        /\ U!ReplyToKept(v)
        /\ path' = IF accept THEN [path EXCEPT ![id] = k] ELSE path
        /\ mTransfers' = IF accept THEN mTransfers \union {id} ELSE mTransfers
        /\ pushFetching' = IF accept THEN pushFetching \union {id} ELSE pushFetching
    BY DEF U!SupplyTransferConfirmation, U!sessionVars
  <1>5. PushSides'
    BY <1>2, <1>4 DEF PushSides
  <1>6. file' \in [U!Pushes -> PushFile] /\ Growing
    <2>1. CASE mInvocation = U!NoPush
      BY <1>1, <1>2, <1>4, <2>1, FilesRest DEF U!ReplyToKept
    <2>2. CASE mInvocation # U!NoPush
      <3>1. U!ReplyWith(mInvocation, v) /\ v \in {"accepted", "rejected"}
        BY <1>4, <2>2 DEF U!ReplyToKept
      <3>2. mInvocation \in U!Pushes /\ replies[mInvocation] = 0
        BY <1>1, <1>2, <2>2 DEF Asking, RequestsAsked, Kept, U!Pushes, U!NoPush
      <3> QED
        BY <1>2, <3>1, <3>2, Replied
    <2> QED
      BY <2>1, <2>2
  <1>7. CASE ~accept
    BY <1>1, <1>2, <1>3, <1>4, <1>5, <1>6, <1>7, DeleteFollows, {} \in SUBSET mTransfers
    DEF PushInv
  <1>8. CASE accept
    <2>1. transfer[id] = U!NewTransfer /\ id \notin mTransfers
      BY <1>2, <1>3 DEF Followed
    <2>2. /\ k \in U!Pushes /\ k # U!NoPush
          /\ path' = [path EXCEPT ![id] = k] /\ mTransfers' = mTransfers \union {id}
      BY <1>3, <1>4, <1>8 DEF U!Pushes, U!NoPush
    <2>3. PushesTyped'
      BY <1>2, <1>4, <1>6, <2>2 DEF PushesTyped
    <2>4. /\ path'[id] = k
          /\ \A i \in U!Pushes \ {id} :
                path'[i] = path[i] /\ (i \in mTransfers' <=> i \in mTransfers)
      BY <1>2, <2>2 DEF PushesTyped
    <2>5. Followed'
      <3> SUFFICES ASSUME NEW i \in U!Pushes
                   PROVE  /\ U!AddsUp(i)'
                          /\ path'[i] = U!NoPush =>
                                transfer'[i] = U!NewTransfer /\ i \notin mTransfers'
                          /\ i \in mTransfers' =>
                                /\ transfer'[i].told = transfer'[i].reported
                                /\ transfer'[i].reported <= transfer'[i].bytes
                                /\ transfer'[i].bytes <= file'[path'[i]].bytes
                                /\ transfer'[i].finished = 0
        BY DEF Followed
      <3>1. CASE i = id
        <4>1. /\ transfer'[i] = U!NewTransfer /\ path'[i] = k /\ i \in mTransfers'
          BY <1>4, <2>1, <2>2, <2>4, <3>1
        <4>2. file'[k].bytes \in Nat
          BY <1>6, <2>2 DEF PushFile
        <4>3. U!AddsUp(i)'
          BY <2>2, <4>1 DEF U!AddsUp, U!Final, U!NewTransfer, U!Ended
        <4> QED
          BY <2>2, <4>1, <4>2, <4>3 DEF U!NewTransfer
      <3>2. CASE i # id
        <4>1. /\ transfer'[i] = transfer[i] /\ path'[i] = path[i]
              /\ i \in mTransfers' <=> i \in mTransfers
          BY <1>4, <2>4, <3>2
        <4>2. U!AddsUp(i)'
          BY <1>2, <4>1 DEF Followed, U!AddsUp, U!Final
        <4>3. i \in mTransfers => transfer[i].bytes <= file'[path[i]].bytes
          <5>1. i \in mTransfers =>
                   /\ path[i] \in U!Pushes /\ transfer[i].bytes <= file[path[i]].bytes
                   /\ file[path[i]].bytes <= file'[path[i]].bytes
            BY <1>2, <1>6 DEF Followed, U!AddsUp, PushesTyped, Growing
          <5>2. i \in mTransfers =>
                   /\ transfer[i].bytes \in Nat /\ file[path[i]].bytes \in Nat
                   /\ file'[path[i]].bytes \in Nat
            BY <1>2, <1>6, <5>1 DEF PushesTyped, Track, PushFile
          <5> QED
            BY <5>1, <5>2
        <4> QED
          BY <1>2, <4>1, <4>2, <4>3 DEF Followed
      <3> QED
        BY <3>1, <3>2
    <2> QED
      BY <1>3, <1>5, <2>3, <2>5 DEF PushInv
  <1> QED
    BY <1>7, <1>8

LEMMA FetchStep ==
  ASSUME PushInv, NEW id \in U!Pushes, U!FetchPropertiesReply(id)
  PROVE  PushInv'
  <1>1. MaxBytes \in Nat
    BY ProfilesAssumption DEF ProfilesAssumption, U!PushAssumption
  <1>2. PushesTyped /\ Followed /\ Asking /\ PushSides
    BY DEF PushInv
  <1>3. /\ UNCHANGED <<from, verdict, mInvocation, mTransferObjPath, replies, answer, crossed>>
        /\ UNCHANGED <<file, mSessions, leaked, path>>
        /\ U!Enter({id} \ mTransfers) /\ pushFetching' = pushFetching \ {id}
    BY DEF U!FetchPropertiesReply, U!requestVars, U!sessionVars
  <1>4. Asking'
    BY <1>2, <1>3
    DEF Asking, RequestsAsked, Kept, Answered, Taken, U!AnsweredAsSaid
  <1>5. PushSides'
    BY <1>2, <1>3 DEF PushSides, U!Enter
  <1>6. file' \in [U!Pushes -> PushFile] /\ Growing
    BY <1>1, <1>2, <1>3, FilesRest
  <1>7. CASE UNCHANGED <<mTransfers, transfer>>
    BY <1>1, <1>2, <1>3, <1>4, <1>5, <1>6, <1>7, DeleteFollows, {} \in SUBSET mTransfers
    DEF PushInv
  <1>8. CASE /\ file[path[id]].state \notin U!Removed
             /\ U!Update({id} \intersect mTransfers, file[path[id]])
    <2>1. CASE id \in mTransfers
      <3>1. path[id] \in U!Pushes /\ transfer[id].bytes <= file[path[id]].bytes
        BY <1>2, <2>1 DEF PushesTyped, Followed, U!AddsUp
      <3>2. file[path[id]] \in PushFile
        BY <1>2, <3>1 DEF PushesTyped
      <3>3. file[path[id]] \in [state : U!States, bytes : 0..MaxBytes]
        BY <1>8, <3>2 DEF PushFile
      <3>4. {id} \in SUBSET mTransfers /\ U!Update({id}, file[path[id]])
        <4>1. {id} \intersect mTransfers = {id}
          BY <2>1
        <4> QED
          BY <1>8, <2>1, <4>1
      <3>5. file[path[id]].bytes \in Nat
        BY <3>2 DEF PushFile
      <3>6. \A i \in {id} : /\ transfer[i].bytes <= file[path[id]].bytes
                            /\ file[path[id]].bytes <= file'[path[i]].bytes
        BY <1>3, <3>1, <3>5
      <3> HIDE <1>8
      <3> QED
        BY <1>1, <1>2, <1>3, <1>4, <1>5, <1>6, <3>3, <3>4, <3>6, UpdateFollows DEF PushInv
    <2>2. CASE id \notin mTransfers
      <3>1. U!Update({}, file[path[id]])
        <4>1. {id} \intersect mTransfers = {}
          BY <2>2
        <4> QED
          BY <1>8, <4>1
      <3>2. mTransfers' = mTransfers /\ transfer' = transfer
        BY <1>2, <3>1 DEF U!Update, PushesTyped
      <3> QED
        BY <1>1, <1>2, <1>3, <1>4, <1>5, <1>6, <3>2, DeleteFollows, {} \in SUBSET mTransfers
        DEF PushInv
    <2> QED
      BY <2>1, <2>2
  <1> QED
    BY <1>7, <1>8 DEF U!FetchPropertiesReply

LEMMA ChangedStep ==
  ASSUME PushInv, NEW p \in U!Pushes, NEW f \in [state : U!States, bytes : 0..MaxBytes],
         U!HandlePropertiesChanged(p, f)
  PROVE  PushInv'
  <1>1. MaxBytes \in Nat
    BY ProfilesAssumption DEF ProfilesAssumption, U!PushAssumption
  <1>2. PushesTyped /\ Followed /\ Asking /\ PushSides
    BY DEF PushInv
  <1> DEFINE ids == {i \in mTransfers : path[i] = p}
  <1>3. /\ UNCHANGED <<from, verdict, mInvocation, mTransferObjPath, replies, answer, crossed>>
        /\ UNCHANGED <<mSessions, leaked, path, pushFetching>>
        /\ f.bytes >= file[p].bytes /\ file' = [file EXCEPT ![p] = f]
        /\ U!Update(ids, f) /\ U!Enter({i \in pushFetching \ mTransfers : path[i] = p})
    BY DEF U!HandlePropertiesChanged, U!requestVars, U!sessionVars
  <1>4. Asking'
    BY <1>2, <1>3
    DEF Asking, RequestsAsked, Kept, Answered, Taken, U!AnsweredAsSaid
  <1>5. PushSides'
    BY <1>2, <1>3 DEF PushSides, U!Enter
  <1>6. f \in PushFile /\ f.bytes \in Nat
    BY DEF PushFile
  <1>7. /\ file' \in [U!Pushes -> PushFile] /\ file'[p] = f
        /\ \A q \in U!Pushes \ {p} : file'[q] = file[q]
    BY <1>2, <1>3, <1>6 DEF PushesTyped
  <1>8. \A q \in U!Pushes : file[q].bytes \in Nat
    BY <1>2 DEF PushesTyped, PushFile
  <1>9. Growing
    BY <1>3, <1>6, <1>7, <1>8 DEF Growing
  <1>10. \A i \in ids : transfer[i].bytes <= f.bytes /\ f.bytes <= file'[path[i]].bytes
    <2> SUFFICES ASSUME NEW i \in ids
                 PROVE  transfer[i].bytes <= f.bytes /\ f.bytes <= file'[path[i]].bytes
      OBVIOUS
    <2>1. i \in mTransfers /\ i \in U!Pushes /\ path[i] = p
      BY <1>2 DEF PushesTyped
    <2>2. transfer[i].bytes <= file[p].bytes /\ transfer[i].bytes \in Nat
      BY <1>2, <2>1 DEF PushesTyped, Followed, Track
    <2> QED
      BY <1>3, <1>6, <1>7, <1>8, <2>1, <2>2
  <1>11. ids \in SUBSET mTransfers
    OBVIOUS
  <1> HIDE DEF ids
  <1>12. PushesTyped' /\ Followed'
    BY <1>1, <1>2, <1>3, <1>7, <1>9, <1>10, <1>11, UpdateFollows
  <1> QED
    BY <1>4, <1>5, <1>12 DEF PushInv

\* A session that is removed takes what is followed in it down.
LEMMA RemoveFollows ==
  ASSUME PushesTyped, Followed, PushSides, NEW d \in Senders,
         U!RemoveSession(d), UNCHANGED path, file' \in [U!Pushes -> PushFile], Growing
  PROVE  /\ PushesTyped' /\ Followed'
         /\ mSessions' \in [Senders -> {"none", "push", "client"}]
  <1> DEFINE ids == {i \in mTransfers : from[path[i]] = d /\ file[path[i]].state # "closed"}
  <1>1. MaxBytes \in Nat
    BY ProfilesAssumption DEF ProfilesAssumption, U!PushAssumption
  <1>2. U!Delete(ids) \/ UNCHANGED <<mTransfers, transfer>>
    BY DEF U!RemoveSession
  <1>3. ids \in SUBSET mTransfers
    OBVIOUS
  <1> HIDE DEF ids
  <1>4. PushesTyped' /\ Followed'
    BY <1>1, <1>2, <1>3, DeleteFollows
  <1>5. mSessions' \in [Senders -> {"none", "push", "client"}]
    BY DEF U!RemoveSession, PushSides
  <1> QED
    BY <1>4, <1>5

LEMMA SessionStep ==
  ASSUME PushInv, NEW d \in Senders, U!ClientConnected(d) \/ U!Disconnect(d)
  PROVE  PushInv'
  <1>1. MaxBytes \in Nat
    BY ProfilesAssumption DEF ProfilesAssumption, U!PushAssumption
  <1>2. PushesTyped /\ Followed /\ Asking /\ PushSides
    BY DEF PushInv
  <1>3. /\ UNCHANGED <<from, verdict, mInvocation, mTransferObjPath, replies, answer, crossed>>
        /\ UNCHANGED <<file, leaked, path, pushFetching, pushEntered, dead>>
    BY DEF U!ClientConnected, U!Disconnect, U!requestVars, U!transferVars, U!callVars
  <1>4. Asking'
    BY <1>2, <1>3
    DEF Asking, RequestsAsked, Kept, Answered, Taken, U!AnsweredAsSaid
  <1>5. file' \in [U!Pushes -> PushFile] /\ Growing
    BY <1>1, <1>2, <1>3, FilesRest
  <1>6. CASE U!ClientConnected(d)
    <2>1. UNCHANGED <<mTransfers, transfer>>
          /\ mSessions' \in [Senders -> {"none", "push", "client"}]
      BY <1>2, <1>6 DEF U!ClientConnected, U!transferVars, PushSides
    <2>2. PushesTyped' /\ Followed'
      BY <1>1, <1>2, <1>3, <1>5, <2>1, DeleteFollows, {} \in SUBSET mTransfers
    <2> QED
      BY <1>2, <1>3, <1>4, <2>1, <2>2 DEF PushInv, PushSides
  <1>7. CASE U!Disconnect(d)
    <2>1. U!RemoveSession(d)
      BY <1>7 DEF U!Disconnect
    <2>2. /\ PushesTyped' /\ Followed'
          /\ mSessions' \in [Senders -> {"none", "push", "client"}]
      BY <1>2, <1>3, <1>5, <2>1, RemoveFollows
    <2> QED
      BY <1>2, <1>3, <1>4, <2>2 DEF PushInv, PushSides
  <1> QED
    BY <1>6, <1>7

\* What obexd no longer has.
LEMMA Lost ==
  ASSUME PushesTyped, NEW gone, NEW state1 \in U!Removed,
         file' = [p \in U!Pushes |-> IF p \in gone THEN [file[p] EXCEPT !.state = state1]
                                     ELSE file[p]]
  PROVE  file' \in [U!Pushes -> PushFile] /\ Growing
  <1>1. ASSUME NEW p \in U!Pushes
        PROVE  file'[p] \in PushFile /\ file'[p].bytes = file[p].bytes /\ file[p].bytes \in Nat
    <2>1. file[p] \in PushFile
      BY DEF PushesTyped
    <2> DEFINE g == [file[p] EXCEPT !.state = state1]
    <2>2. g \in PushFile /\ g.bytes = file[p].bytes
      BY <2>1 DEF PushFile
    <2>3. file'[p] = g \/ file'[p] = file[p]
      OBVIOUS
    <2>4. file[p].bytes \in Nat
      BY <2>1 DEF PushFile
    <2> HIDE DEF g
    <2> QED
      BY <2>1, <2>2, <2>3, <2>4
  <1>2. file' \in [U!Pushes -> PushFile]
    BY <1>1
  <1>3. ASSUME NEW p \in U!Pushes
        PROVE  file[p].bytes <= file'[p].bytes
    <2>1. file'[p].bytes = file[p].bytes /\ file[p].bytes \in Nat
      BY <1>1
    <2> QED
      BY <2>1
  <1> QED
    BY <1>2, <1>3 DEF Growing

LEMMA WithdrawStep ==
  ASSUME PushInv, NEW p \in U!Pushes, U!Withdraw(p)
  PROVE  PushInv'
  <1>1. MaxBytes \in Nat
    BY ProfilesAssumption DEF ProfilesAssumption, U!PushAssumption
  <1>2. PushesTyped /\ Followed /\ Asking /\ PushSides
    BY DEF PushInv
  <1>3. /\ UNCHANGED <<from, mInvocation, mTransferObjPath, replies, answer, crossed>>
        /\ UNCHANGED <<mSessions, leaked, mTransfers, path, transfer>>
        /\ UNCHANGED <<pushFetching, pushEntered, dead>>
    BY DEF U!Withdraw, U!sessionVars, U!transferVars, U!callVars
  <1>4. file' = [q \in U!Pushes |-> IF q \in {p} THEN [file[q] EXCEPT !.state = "gone"]
                                    ELSE file[q]]
    BY <1>2 DEF U!Withdraw, PushesTyped
  <1>5. file' \in [U!Pushes -> PushFile] /\ Growing
    BY <1>2, <1>4, Lost DEF U!Removed
  <1>6. {p} \in SUBSET DOMAIN from
    BY DEF U!Withdraw
  <1>7. verdict' = [q \in U!Pushes |-> IF q \in {p} /\ verdict[q] = "none" THEN "withdrawn"
                                       ELSE verdict[q]]
    BY <1>2 DEF U!Withdraw, Asking, RequestsAsked
  <1>8. Asking'
    BY <1>2, <1>3, <1>6, <1>7, WithdrawKeeps
  <1>9. PushesTyped' /\ Followed'
    BY <1>1, <1>2, <1>3, <1>5, DeleteFollows, {} \in SUBSET mTransfers
  <1>10. PushSides'
    BY <1>2, <1>3 DEF PushSides
  <1> QED
    BY <1>8, <1>9, <1>10 DEF PushInv

LEMMA LoseStep ==
  ASSUME PushInv, NEW d \in Senders, U!LoseSession(d)
  PROVE  PushInv'
  <1> DEFINE ofSession == {p \in DOMAIN from : from[p] = d /\ file[p].state # "closed"}
  <1>1. MaxBytes \in Nat
    BY ProfilesAssumption DEF ProfilesAssumption, U!PushAssumption
  <1>2. PushesTyped /\ Followed /\ Asking /\ PushSides
    BY DEF PushInv
  <1>3. /\ file' = [p \in U!Pushes |-> IF p \in ofSession THEN [file[p] EXCEPT !.state = "closed"]
                                       ELSE file[p]]
        /\ verdict' = [p \in U!Pushes |-> IF p \in ofSession /\ verdict[p] = "none"
                                          THEN "withdrawn" ELSE verdict[p]]
        /\ U!RemoveSession(d) \/ UNCHANGED <<mSessions, mTransfers, transfer>>
        /\ leaked' = leaked \ {d} /\ dead' \in BOOLEAN
        /\ UNCHANGED <<from, mInvocation, mTransferObjPath, replies, answer, crossed>>
        /\ UNCHANGED <<path, pushFetching, pushEntered>>
    BY DEF U!LoseSession, U!callVars
  <1>4. ofSession \in SUBSET DOMAIN from
    OBVIOUS
  <1> HIDE DEF ofSession
  <1>5. file' \in [U!Pushes -> PushFile] /\ Growing
    BY <1>2, <1>3, Lost DEF U!Removed
  <1>6. Asking'
    BY <1>2, <1>3, <1>4, WithdrawKeeps
  <1>7. /\ PushesTyped' /\ Followed'
        /\ mSessions' \in [Senders -> {"none", "push", "client"}]
    <2>1. CASE U!RemoveSession(d)
      BY <1>2, <1>3, <1>5, <2>1, RemoveFollows
    <2>2. CASE UNCHANGED <<mSessions, mTransfers, transfer>>
      <3>1. PushesTyped' /\ Followed'
        BY <1>1, <1>2, <1>3, <1>5, <2>2, DeleteFollows, {} \in SUBSET mTransfers
      <3> QED
        BY <1>2, <2>2, <3>1 DEF PushSides
    <2> QED
      BY <1>3, <2>1, <2>2
  <1>8. PushSides'
    BY <1>2, <1>3, <1>7 DEF PushSides
  <1> QED
    BY <1>6, <1>7, <1>8 DEF PushInv

LEMMA PushNext == PushInv /\ [U!Next]_(U!vars) => PushInv'
  <1> SUFFICES ASSUME PushInv, [U!Next]_(U!vars)
               PROVE  PushInv'
    OBVIOUS
  <1>1. CASE UNCHANGED U!vars
    <2>1. /\ UNCHANGED <<from, verdict, mInvocation, mTransferObjPath, replies, answer, crossed>>
          /\ UNCHANGED <<file, mSessions, leaked, mTransfers, path, transfer>>
          /\ UNCHANGED <<pushFetching, pushEntered, dead>>
      BY <1>1 DEF U!vars, U!requestVars, U!sessionVars, U!transferVars, U!callVars
    <2>2. PushesTyped' /\ PushSides'
      BY <2>1 DEF PushInv, PushesTyped, PushSides
    <2>3. Followed'
      BY <2>1 DEF PushInv, Followed, U!AddsUp, U!Final
    <2>4. Asking'
      BY <2>1
      DEF PushInv, Asking, RequestsAsked, Kept, Answered, Taken, U!AnsweredAsSaid
    <2> QED
      BY <2>2, <2>3, <2>4 DEF PushInv
  <1>2. CASE U!Next
    <2>1. ASSUME NEW p \in U!Pushes, NEW d \in Senders,
                 \/ U!AgentRejects(p, d) \/ U!AgentFindsNoAdapter(p, d)
                 \/ U!Refuse(p, d) \/ U!LeaveUnanswered(p, d) \/ U!Offer(p, d)
          PROVE  PushInv'
      BY <2>1, AskStep
    <2>2. ASSUME NEW p \in U!Pushes, U!Withdraw(p)
          PROVE  PushInv'
      BY <2>2, WithdrawStep
    <2>3. ASSUME NEW p \in U!Pushes, U!FetchPropertiesReply(p)
          PROVE  PushInv'
      BY <2>3, FetchStep
    <2>4. ASSUME NEW p \in U!Pushes, NEW yes \in BOOLEAN, U!SupplyTransferConfirmation(p, yes)
          PROVE  PushInv'
      BY <2>4, SupplyStep
    <2>5. ASSUME NEW p \in U!Pushes, NEW f \in [state : U!States, bytes : 0..MaxBytes],
                 U!HandlePropertiesChanged(p, f)
          PROVE  PushInv'
      BY <2>5, ChangedStep
    <2>6. ASSUME NEW d \in Senders, U!ClientConnected(d) \/ U!Disconnect(d)
          PROVE  PushInv'
      BY <2>6, SessionStep
    <2>7. ASSUME NEW d \in Senders, U!LoseSession(d)
          PROVE  PushInv'
      BY <2>7, LoseStep
    <2> QED
      BY <1>2, <2>1, <2>2, <2>3, <2>4, <2>5, <2>6, <2>7 DEF U!Next
  <1> QED
    BY <1>1, <1>2

LEMMA PushAlways == Spec => []PushInv
  <1>1. Init => PushInv
    BY PushInit DEF Init
  <1>2. PushInv /\ [Next]_vars => PushInv'
    <2> SUFFICES ASSUME PushInv, [Next]_vars
                 PROVE  PushInv'
      OBVIOUS
    <2>1. U!Next \/ UNCHANGED pushVars
      BY DEF Next, ObexNext, vars, obexVars
    <2>2. [U!Next]_(U!vars)
      BY <2>1
      DEF pushVars, U!vars, U!requestVars, U!sessionVars, U!transferVars, U!callVars
    <2> QED
      BY <2>2, PushNext
  <1> QED
    BY <1>1, <1>2, PTL DEF Spec

LEMMA PushFacts == PushInv => U!TypeOK /\ U!PushesTold
  <1> SUFFICES ASSUME PushInv PROVE U!TypeOK /\ U!PushesTold
    OBVIOUS
  <1>1. PushesTyped /\ Followed /\ Asking /\ PushSides
    BY DEF PushInv
  <1>2. MaxPushes \in Nat
    BY ProfilesAssumption DEF ProfilesAssumption, U!PushAssumption
  <1>3. mTransferObjPath \in U!Pushes \union {U!NoPush}
    BY <1>1, <1>2 DEF Asking, RequestsAsked, U!Pushes, U!NoPush
  <1>4. {mInvocation, mTransferObjPath} \subseteq U!Pushes \union {U!NoPush}
    BY <1>1, <1>3 DEF Asking, RequestsAsked
  <1>5. {crossed, mTransfers, pushFetching, pushEntered} \subseteq SUBSET U!Pushes
    BY <1>1, Zenon DEF Asking, RequestsAsked, PushesTyped, PushSides
  <1>6. U!TypeOK
    BY <1>1, <1>4, <1>5
    DEF U!TypeOK, Asking, RequestsAsked, PushesTyped, PushSides, Track, PushFile
  <1>7. U!PushesTold
    BY <1>1 DEF U!PushesTold, Followed, Asking, Answered, Taken
  <1> QED
    BY <1>6, <1>7

(***************************************************************************)
(* MessageAccess.  A session obexd has is known to the client by its       *)
(* number.  A request has a path once it has a transfer, and has ended     *)
(* with its transfer unless it shares its path with another.               *)
(***************************************************************************)
SessionsKept ==
    /\ messageSessions \in [Instances -> 0..MaxSessions]
    /\ messageSessionsMade \in 0..MaxSessions
    /\ key \in [G!Sessions -> Instances \union {NoInstance}]
    /\ number \in [G!Sessions -> G!Numbers] /\ nextNumber \in 0..G!MaxNumber + 1
    /\ keyOf \in [G!Numbers -> Instances \union {NoInstance}]
    /\ messageOpen \subseteq 1..messageSessionsMade
    /\ connected = {i \in Instances : messageSessions[i] # 0}
    /\ \A i \in Instances : messageSessions[i] # 0 =>
          messageSessions[i] \in messageOpen /\ key[messageSessions[i]] = i
    /\ \A s \in messageOpen :
          key[s] \in Instances /\ number[s] < nextNumber /\ keyOf[number[s]] = key[s]

LEMMA SessionsInit == G!Init => SessionsKept
  <1> SUFFICES ASSUME G!Init PROVE SessionsKept
    OBVIOUS
  <1>1. MaxSessions \in Nat /\ NumberGap \in Nat
    BY ProfilesAssumption DEF ProfilesAssumption, G!MessageAccessAssumption
  <1> QED
    BY <1>1 DEF G!Init, SessionsKept, G!Sessions, G!Numbers, G!MaxNumber

\* What the steps do to the sessions, the requests aside.
LEMMA CreateKeeps ==
  ASSUME SessionsKept, NEW i \in Instances, G!CreateSession(i)
  PROVE  SessionsKept'
  <1>1. MaxSessions \in Nat /\ NumberGap \in Nat /\ messageSessionsMade \in Nat
    BY ProfilesAssumption DEF ProfilesAssumption, G!MessageAccessAssumption, SessionsKept
  <1> DEFINE s == messageSessionsMade + 1
  <1>2. s \in G!Sessions /\ s \notin messageOpen /\ s # 0 /\ messageSessionsMade' = s
    BY <1>1 DEF G!CreateSession, G!Sessions, SessionsKept
  <1>3. PICK n \in {nextNumber, nextNumber + NumberGap} \intersect G!Numbers :
          /\ number' = [number EXCEPT ![s] = n]
          /\ nextNumber' = n + 1
          /\ keyOf' = [keyOf EXCEPT ![n] = i]
    BY DEF G!CreateSession
  <1>4. /\ key' = [key EXCEPT ![s] = i] /\ messageOpen' = messageOpen \union {s}
        /\ messageSessions' = [messageSessions EXCEPT ![i] =
              IF messageSessions[i] = 0 THEN s ELSE messageSessions[i]]
        /\ connected' = connected \union {i}
    BY DEF G!CreateSession
  <1>5. s \in 0..MaxSessions
    BY <1>1, <1>2 DEF G!Sessions
  <1> HIDE DEF s
  <1>6. /\ messageSessions' \in [Instances -> 0..MaxSessions]
        /\ key' \in [G!Sessions -> Instances \union {NoInstance}]
        /\ number' \in [G!Sessions -> G!Numbers]
        /\ keyOf' \in [G!Numbers -> Instances \union {NoInstance}]
    BY <1>2, <1>3, <1>4, <1>5 DEF SessionsKept
  <1>7. n \in Nat /\ nextNumber \in Nat /\ nextNumber <= n /\ nextNumber' \in 0..G!MaxNumber + 1
    BY <1>1, <1>3 DEF SessionsKept, G!Numbers, G!MaxNumber
  <1>8. messageOpen' \subseteq 1..messageSessionsMade'
    <2>1. messageOpen \subseteq 1..messageSessionsMade
      BY DEF SessionsKept
    <2> QED
      BY <1>1, <1>2, <1>4, <2>1 DEF s
  <1>9. /\ messageSessions'[i] = IF messageSessions[i] = 0 THEN s ELSE messageSessions[i]
        /\ \A j \in Instances \ {i} : messageSessions'[j] = messageSessions[j]
    BY <1>4 DEF SessionsKept
  <1>10. connected' = {j \in Instances : messageSessions'[j] # 0}
    BY <1>2, <1>4, <1>9 DEF SessionsKept
  <1>11. /\ key'[s] = i /\ number'[s] = n
         /\ \A t \in messageOpen : /\ t \in G!Sessions /\ t # s
                                   /\ key'[t] = key[t] /\ number'[t] = number[t]
    <2>1. messageOpen \subseteq G!Sessions
      BY <1>1 DEF SessionsKept, G!Sessions
    <2> QED
      BY <1>2, <1>3, <1>4, <2>1 DEF SessionsKept
  <1>12. \A j \in Instances : messageSessions'[j] # 0 =>
            messageSessions'[j] \in messageOpen' /\ key'[messageSessions'[j]] = j
    BY <1>2, <1>4, <1>9, <1>11 DEF SessionsKept
  <1>13. ASSUME NEW t \in messageOpen'
         PROVE  /\ key'[t] \in Instances /\ number'[t] < nextNumber'
                /\ keyOf'[number'[t]] = key'[t]
    <2>1. CASE t = s
      BY <1>3, <1>7, <1>11, <2>1 DEF SessionsKept
    <2>2. CASE t # s
      <3>1. t \in messageOpen /\ number[t] \in G!Numbers
        BY <1>4, <1>11, <2>2 DEF SessionsKept
      <3>2. /\ key[t] \in Instances /\ number[t] < nextNumber /\ keyOf[number[t]] = key[t]
        BY <3>1 DEF SessionsKept
      <3>3. number[t] \in Nat
        BY <3>1 DEF G!Numbers
      <3>4. number[t] < nextNumber' /\ number[t] # n
        BY <1>3, <1>7, <3>2, <3>3
      <3>5. keyOf'[number[t]] = keyOf[number[t]]
        BY <1>3, <3>1, <3>4 DEF SessionsKept
      <3> QED
        BY <1>11, <3>1, <3>2, <3>4, <3>5
    <2> QED
      BY <2>1, <2>2
  <1> QED
    BY <1>2, <1>5, <1>6, <1>7, <1>8, <1>10, <1>12, <1>13 DEF SessionsKept

LEMMA CloseKeeps ==
  ASSUME SessionsKept, NEW i \in Instances, NEW closed,
         messageSessions' = [messageSessions EXCEPT ![i] = 0],
         connected' = connected \ {i}, messageOpen' = messageOpen \ closed,
         \A s \in closed \intersect messageOpen : key[s] = i,
         UNCHANGED <<messageSessionsMade, key, number, nextNumber, keyOf>>
  PROVE  SessionsKept'
  <1>1. MaxSessions \in Nat
    BY ProfilesAssumption DEF ProfilesAssumption, G!MessageAccessAssumption
  <1>2. /\ messageSessions' \in [Instances -> 0..MaxSessions] /\ messageSessions'[i] = 0
        /\ \A j \in Instances \ {i} : messageSessions'[j] = messageSessions[j]
    BY <1>1 DEF SessionsKept
  <1>3. connected' = {j \in Instances : messageSessions'[j] # 0}
    BY <1>2 DEF SessionsKept
  <1>4. \A j \in Instances : messageSessions'[j] # 0 =>
            messageSessions'[j] \in messageOpen' /\ key'[messageSessions'[j]] = j
    BY <1>2 DEF SessionsKept
  <1>5. messageOpen' \subseteq 1..messageSessionsMade'
    BY DEF SessionsKept
  <1>6. \A s \in messageOpen' :
          key'[s] \in Instances /\ number'[s] < nextNumber' /\ keyOf'[number'[s]] = key'[s]
    BY DEF SessionsKept
  <1>7. /\ messageSessionsMade' \in 0..MaxSessions
        /\ key' \in [G!Sessions -> Instances \union {NoInstance}]
        /\ number' \in [G!Sessions -> G!Numbers] /\ nextNumber' \in 0..G!MaxNumber + 1
        /\ keyOf' \in [G!Numbers -> Instances \union {NoInstance}]
    BY DEF SessionsKept
  <1> QED
    BY <1>2, <1>3, <1>4, <1>5, <1>6, <1>7 DEF SessionsKept

LEMMA SessionsNext == SessionsKept /\ [G!Next]_(G!vars) => SessionsKept'
  <1> SUFFICES ASSUME SessionsKept, [G!Next]_(G!vars)
               PROVE  SessionsKept'
    OBVIOUS
  <1> USE DEF G!sessionVars
  <1>1. ASSUME UNCHANGED G!sessionVars
        PROVE  SessionsKept'
    BY <1>1 DEF SessionsKept
  <1>2. ASSUME NEW i \in Instances, G!CreateSession(i)
        PROVE  SessionsKept'
    BY <1>2, CreateKeeps
  <1>3. ASSUME NEW i \in Instances, G!Disconnect(i)
        PROVE  SessionsKept'
    <2>1. messageSessions[i] # 0 /\ key[messageSessions[i]] = i
      BY <1>3 DEF G!Disconnect, SessionsKept
    <2>2. \A s \in {messageSessions[i]} \intersect messageOpen : key[s] = i
      BY <2>1
    <2> QED
      BY <1>3, <2>2, CloseKeeps DEF G!Disconnect, G!CloseAtObexd
  <1>4. ASSUME NEW s \in G!Sessions, G!LoseSession(s)
        PROVE  SessionsKept'
    <2>1. s \in messageOpen /\ key[s] \in Instances
      BY <1>4 DEF G!LoseSession, SessionsKept
    <2>2. 0 \notin messageOpen
      BY DEF SessionsKept
    <2>3. \A t \in {s, messageSessions[key[s]]} \intersect messageOpen : key[t] = key[s]
      BY <2>1, <2>2 DEF SessionsKept
    <2> QED
      BY <1>4, <2>1, <2>3, CloseKeeps DEF G!LoseSession, G!CloseAtObexd
  <1>5. CASE G!RestartObexd
    <2>1. /\ messageOpen = {} /\ nextNumber' = 0
          /\ UNCHANGED <<messageSessions, messageSessionsMade, key, number, messageOpen>>
          /\ UNCHANGED <<connected, keyOf>>
      BY <1>5 DEF G!RestartObexd
    <2>2. nextNumber' \in 0..G!MaxNumber + 1
      BY <2>1, ProfilesAssumption
      DEF ProfilesAssumption, G!MessageAccessAssumption, G!MaxNumber
    <2> QED
      BY <2>1, <2>2 DEF SessionsKept
  <1>6. ASSUME NEW i \in Instances,
               G!GetMessageList(i) \/ G!GetMessage(i) \/ G!PushMessage(i)
        PROVE  UNCHANGED G!sessionVars
    BY <1>6 DEF G!GetMessageList, G!GetMessage, G!PushMessage, G!Ask
  <1>7. ASSUME NEW r \in DOMAIN messageRequests,
               \/ G!CallReply(r) \/ G!CallError(r) \/ G!FetchPropertiesReply(r)
               \/ \E s \in {"complete", "error"} : G!HandlePropertiesChanged(r, s)
        PROVE  UNCHANGED G!sessionVars
    BY <1>7
    DEF G!CallReply, G!CallError, G!FetchPropertiesReply, G!HandlePropertiesChanged
  <1>8. CASE UNCHANGED G!vars
    BY <1>1, <1>8 DEF G!vars
  <1> QED
    BY <1>1, <1>2, <1>3, <1>4, <1>5, <1>6, <1>7, <1>8 DEF G!Next

MessagesTyped ==
    /\ messageRequests \in Seq(G!Request) /\ Len(messageRequests) <= MaxFileRequests
    /\ messageState \in [G!RequestIds -> {"none", "running", "complete", "error", "gone"}]
    /\ messageFetching \subseteq G!RequestIds /\ messageEntered \subseteq G!RequestIds
    /\ messageClosing \subseteq G!Sessions /\ messageDead \in BOOLEAN
    /\ \A r \in G!RequestIds \ DOMAIN messageRequests : messageState[r] = "none"

EndsWithTransfer(r) ==
    LET q == messageRequests[r]
    IN  /\ q.stage = "ended" <=> messageState[r] \in {"complete", "error"}
        /\ q.last = "ok" <=> messageState[r] = "complete"
        /\ q.results = IF q.stage = "ended" THEN 1 ELSE 0

MessageKept(r) ==
    LET q == messageRequests[r]
    IN  /\ q.stage = "call" => q.path = G!NoPath /\ q.results = 0 /\ q.last = "none"
        /\ q.path = G!NoPath =>
              /\ messageState[r] = "none" /\ q.stage \in {"call", "ended"}
              /\ q.stage = "ended" => q.results = 1
        /\ q.path # G!NoPath => messageState[r] # "none"
        /\ q.stage = "unowned" => G!SharesPath(r)
        /\ q.path # G!NoPath /\ ~G!SharesPath(r) /\ r \notin messageEntered => EndsWithTransfer(r)

MessagesKept == MessagesTyped /\ \A r \in DOMAIN messageRequests : MessageKept(r)

LEMMA MessageIds ==
  ASSUME MessagesTyped
  PROVE  /\ DOMAIN messageRequests = 1..Len(messageRequests) /\ Len(messageRequests) \in Nat
         /\ DOMAIN messageRequests \subseteq G!RequestIds
         /\ \A r \in DOMAIN messageRequests : messageRequests[r] \in G!Request
  <1>1. MaxFileRequests \in Nat
    BY ProfilesAssumption DEF ProfilesAssumption, G!MessageAccessAssumption
  <1> QED
    BY <1>1 DEF MessagesTyped, G!RequestIds

\* Who once shares its path with another, does.
LEMMA SharesStays ==
  ASSUME DOMAIN messageRequests \subseteq DOMAIN messageRequests',
         \A q \in DOMAIN messageRequests :
            messageRequests[q].path # G!NoPath =>
                messageRequests'[q].path = messageRequests[q].path,
         NEW r \in DOMAIN messageRequests
  PROVE  G!SharesPath(r) => G!SharesPath(r)'
  <1> SUFFICES ASSUME G!SharesPath(r) PROVE G!SharesPath(r)'
    OBVIOUS
  <1>1. messageRequests[r].path # G!NoPath
    BY DEF G!SharesPath
  <1>2. PICK q \in DOMAIN messageRequests \ {r} :
          messageRequests[q].path = messageRequests[r].path
    BY DEF G!SharesPath
  <1>3. /\ messageRequests'[r].path = messageRequests[r].path
        /\ messageRequests'[q].path = messageRequests[q].path
    BY <1>1, <1>2
  <1>4. messageRequests'[r].path # G!NoPath
    BY <1>1, <1>3 DEF G!NoPath
  <1> QED
    BY <1>2, <1>3, <1>4 DEF G!SharesPath, G!NoPath

LEMMA MessageRests ==
  ASSUME NEW r \in DOMAIN messageRequests, MessageKept(r),
         messageRequests'[r] = messageRequests[r],
         \/ messageState'[r] = messageState[r]
         \/ messageState[r] = "running" /\ messageState'[r] = "gone",
         messageEntered \subseteq messageEntered',
         G!SharesPath(r) => G!SharesPath(r)'
  PROVE  MessageKept(r)'
  <1>1. EndsWithTransfer(r) => EndsWithTransfer(r)'
    BY DEF EndsWithTransfer
  <1> QED
    BY <1>1 DEF MessageKept, G!NoPath

LEMMA ToldOf ==
  ASSUME NEW q \in G!Request, NEW result \in {"ok", "failed"},
         NEW stage \in {"call", "transfer", "unowned", "ended"},
         NEW u, u = G!Told(q, result, stage)
  PROVE  /\ u \in G!Request /\ u.stage = stage /\ u.results = q.results + 1
         /\ u.last = result /\ u.path = q.path
  <1> DEFINE v == [q EXCEPT !.stage = stage]
             w == [v EXCEPT !.results = q.results + 1]
  <1>1. u = [w EXCEPT !.last = result]
    BY DEF G!Told
  <1>2. q.results + 1 \in Nat
    BY DEF G!Request
  <1>3. v \in G!Request /\ v.stage = stage /\ v.path = q.path
    BY DEF G!Request
  <1> HIDE DEF v
  <1>4. w \in G!Request /\ w.stage = stage /\ w.path = q.path /\ w.results = q.results + 1
    BY <1>2, <1>3 DEF G!Request
  <1> HIDE DEF w
  <1> QED
    BY <1>1, <1>4 DEF G!Request

\* Objects with the path p.
OnPath(ids, p) ==
    \A q \in ids :
        q \in DOMAIN messageRequests /\ messageRequests[q].path = p /\ G!HasObject(q)

\* What has an object with the path p hears of its end.
HeardOfEnd(q, ids, p, s) ==
    /\ s # "running" /\ messageRequests[q].path = p /\ G!HasObject(q)
    /\ messageRequests'[q].stage \in {"unowned", "ended"}
    /\ messageRequests[q].stage = "transfer" => messageRequests'[q].stage = "ended"
    /\ ids = {q} =>
          /\ messageRequests'[q].results = messageRequests[q].results + 1
          /\ messageRequests'[q].last = IF s = "complete" THEN "ok" ELSE "failed"

\* The requests after an update of the path p: no other is told of an end.
AllHeard(ids, p, s) ==
    /\ messageRequests' \in Seq(G!Request)
    /\ Len(messageRequests') = Len(messageRequests)
    /\ DOMAIN messageRequests' = DOMAIN messageRequests
    /\ \A q \in DOMAIN messageRequests :
          /\ messageRequests'[q].path = messageRequests[q].path
          /\ messageRequests'[q].stage = "unowned" => messageRequests[q].stage = "unowned"
          /\ \/ HeardOfEnd(q, ids, p, s)
             \/ messageRequests'[q] = messageRequests[q] /\ (s = "running" \/ q \notin ids)

LEMMA UpdateTells ==
  ASSUME MessagesTyped, NEW p, p # G!NoPath, NEW ids, OnPath(ids, p),
         NEW s \in {"running", "complete", "error"}, G!Update(ids, p, s)
  PROVE  AllHeard(ids, p, s)
  <1> DEFINE ended == G!Stored(p)
  <1>1. PICK tableFirst \in BOOLEAN :
          messageRequests' = [r \in DOMAIN messageRequests |->
             IF s = "running" \/ r \notin ids \union ended THEN messageRequests[r]
             ELSE G!Told(messageRequests[r],
                         IF (r \in ids /\ (r \in ended /\ ids # {r} => tableFirst))
                            /\ s = "complete" THEN "ok" ELSE "failed",
                         IF r \in ended THEN "ended" ELSE messageRequests[r].stage)]
    BY DEF G!Update
  <1>2. /\ DOMAIN messageRequests = 1..Len(messageRequests) /\ Len(messageRequests) \in Nat
        /\ \A r \in DOMAIN messageRequests : messageRequests[r] \in G!Request
    BY MessageIds
  <1>3. \A q \in DOMAIN messageRequests :
           q \in ended <=> messageRequests[q].stage = "transfer" /\ messageRequests[q].path = p
    BY DEF G!Stored
  <1> HIDE DEF ended
  <1>4. ASSUME NEW q \in DOMAIN messageRequests, s = "running" \/ q \notin ids \union ended
        PROVE  messageRequests'[q] = messageRequests[q]
    BY <1>1, <1>4
  <1>5. ASSUME NEW q \in DOMAIN messageRequests, s # "running", q \in ids \union ended
        PROVE  /\ messageRequests'[q] \in G!Request
               /\ messageRequests'[q].path = messageRequests[q].path
               /\ messageRequests'[q].stage =
                     IF q \in ended THEN "ended" ELSE messageRequests[q].stage
               /\ messageRequests'[q].results = messageRequests[q].results + 1
               /\ ids = {q} => messageRequests'[q].last = IF s = "complete" THEN "ok" ELSE "failed"
    <2> DEFINE result == IF (q \in ids /\ (q \in ended /\ ids # {q} => tableFirst))
                            /\ s = "complete" THEN "ok" ELSE "failed"
               stage == IF q \in ended THEN "ended" ELSE messageRequests[q].stage
    <2>1. messageRequests'[q] = G!Told(messageRequests[q], result, stage)
      BY <1>1, <1>5
    <2>2. /\ messageRequests[q] \in G!Request /\ result \in {"ok", "failed"}
          /\ stage \in {"call", "transfer", "unowned", "ended"}
      BY <1>2 DEF G!Request
    <2>3. ids = {q} => result = IF s = "complete" THEN "ok" ELSE "failed"
      OBVIOUS
    <2> HIDE DEF result, stage
    <2>4. LET u == messageRequests'[q] IN
          /\ u \in G!Request /\ u.stage = stage
          /\ u.results = messageRequests[q].results + 1
          /\ u.last = result /\ u.path = messageRequests[q].path
      BY <2>1, <2>2, ToldOf
    <2> QED
      BY <2>3, <2>4 DEF stage
  <1>6. messageRequests' \in [1..Len(messageRequests) -> G!Request]
    <2>1. \A q \in DOMAIN messageRequests : messageRequests'[q] \in G!Request
      BY <1>2, <1>4, <1>5
    <2> QED
      BY <1>1, <1>2, <2>1
  <1>7. /\ messageRequests' \in Seq(G!Request) /\ Len(messageRequests') = Len(messageRequests)
        /\ DOMAIN messageRequests' = DOMAIN messageRequests
    BY <1>2, <1>6, FunctionIsSequence
  <1>8. ASSUME NEW q \in DOMAIN messageRequests, q \in ids \union ended
        PROVE  messageRequests[q].path = p /\ messageRequests[q].stage \in {"transfer", "unowned"}
    BY <1>3, <1>8 DEF G!HasObject, OnPath
  <1>9. ASSUME NEW q \in DOMAIN messageRequests, s # "running", q \in ids \union ended
        PROVE  /\ messageRequests'[q].stage \in {"unowned", "ended"}
               /\ messageRequests'[q].stage = "unowned" => messageRequests[q].stage = "unowned"
               /\ messageRequests[q].stage = "transfer" => messageRequests'[q].stage = "ended"
    BY <1>3, <1>5, <1>8, <1>9
  <1>10. ASSUME NEW q \in DOMAIN messageRequests
         PROVE  \/ HeardOfEnd(q, ids, p, s)
                \/ messageRequests'[q] = messageRequests[q] /\ (s = "running" \/ q \notin ids)
    BY <1>4, <1>5, <1>8, <1>9 DEF G!HasObject, HeardOfEnd
  <1>11. ASSUME NEW q \in DOMAIN messageRequests
         PROVE  /\ messageRequests'[q].path = messageRequests[q].path
                /\ messageRequests'[q].stage = "unowned" => messageRequests[q].stage = "unowned"
    BY <1>4, <1>5, <1>9
  <1> QED
    BY <1>7, <1>10, <1>11 DEF AllHeard

LEMMA MessageUpdated ==
  ASSUME MessagesTyped, NEW q \in DOMAIN messageRequests, MessageKept(q),
         DOMAIN messageRequests' = DOMAIN messageRequests,
         messageRequests'[q].path = messageRequests[q].path,
         messageRequests'[q].stage = "unowned" => messageRequests[q].stage = "unowned",
         messageRequests'[q].stage \in {"unowned", "ended"}, messageRequests[q].path # G!NoPath,
         messageState'[q] # "none", G!SharesPath(q) => G!SharesPath(q)',
         \/ G!SharesPath(q)' \/ q \in messageEntered'
         \/ EndsWithTransfer(q)'
  PROVE  MessageKept(q)'
  BY DEF MessageKept, G!NoPath

LEMMA FetchKeeps ==
  ASSUME MessagesKept, NEW r \in DOMAIN messageRequests, G!FetchPropertiesReply(r)
  PROVE  MessagesKept' /\ UNCHANGED nextTransfer
         /\ DOMAIN messageRequests' = DOMAIN messageRequests
         /\ \A q \in DOMAIN messageRequests :
               messageRequests'[q].path = messageRequests[q].path
  <1>1. /\ MessagesTyped /\ \A q \in DOMAIN messageRequests : MessageKept(q)
    BY DEF MessagesKept
  <1>2. /\ UNCHANGED <<nextTransfer, messageState, messageClosing>>
        /\ messageFetching' = messageFetching \ {r}
    BY DEF G!FetchPropertiesReply, G!sessionVars
  <1>3. DOMAIN messageRequests \subseteq G!RequestIds
    BY <1>1, MessageIds
  <1>4. CASE ~G!HasObject(r)
    <2>1. UNCHANGED messageRequests /\ G!Enter({r})
      BY <1>4 DEF G!FetchPropertiesReply
    <2>2. MessagesTyped'
      BY <1>1, <1>2, <1>3, <2>1 DEF MessagesTyped, G!Enter
    <2>3. \A q \in DOMAIN messageRequests : G!SharesPath(q) => G!SharesPath(q)'
      BY <2>1, SharesStays
    <2>4. messageEntered \subseteq messageEntered'
      BY <2>1 DEF G!Enter
    <2>5. \A q \in DOMAIN messageRequests : MessageKept(q)'
      BY <1>1, <1>2, <2>1, <2>3, <2>4, MessageRests
    <2> QED
      BY <1>2, <2>1, <2>2, <2>5 DEF MessagesKept
  <1>5. CASE G!HasObject(r)
    <2> DEFINE p == messageRequests[r].path
    <2>1. UNCHANGED <<messageEntered, messageDead>>
      BY <1>5 DEF G!FetchPropertiesReply
    <2>2. PICK s \in {"running"} \union ({messageState[r]} \ {"gone"}) : G!Update({r}, p, s)
      BY <1>5 DEF G!FetchPropertiesReply
    <2>3. p # G!NoPath /\ messageState[r] # "none"
      BY <1>1, <1>5 DEF MessageKept, G!HasObject
    <2>4. s \in {"running", "complete", "error"}
      BY <1>1, <1>3, <2>2, <2>3 DEF MessagesTyped
    <2> HIDE DEF p
    <2>5. OnPath({r}, p)
      BY <1>5 DEF p, OnPath
    <2>6. AllHeard({r}, p, s)
      BY <1>1, <2>2, <2>3, <2>4, <2>5, UpdateTells
    <2>7. MessagesTyped'
      BY <1>1, <1>2, <2>1, <2>6 DEF MessagesTyped, AllHeard
    <2>8. \A q \in DOMAIN messageRequests : G!SharesPath(q) => G!SharesPath(q)'
      BY <2>6, SharesStays DEF AllHeard
    <2>9. ASSUME NEW q \in DOMAIN messageRequests
          PROVE  MessageKept(q)'
      <3>1. CASE messageRequests'[q] = messageRequests[q]
        BY <1>1, <1>2, <2>1, <2>8, <3>1, MessageRests
      <3>2. CASE messageRequests'[q] # messageRequests[q]
        <4>1. /\ s # "running" /\ messageRequests[q].path = p
              /\ messageRequests'[q].stage \in {"unowned", "ended"}
          BY <2>6, <3>2 DEF AllHeard, HeardOfEnd
        <4>2. messageState'[q] # "none"
          BY <1>1, <1>2, <2>3, <4>1 DEF MessageKept
        <4>3. q # r => G!SharesPath(q)'
          <5>1. q # r => /\ r \in DOMAIN messageRequests' \ {q}
                         /\ messageRequests'[q].path = p /\ messageRequests'[r].path = p
            BY <2>6, <4>1 DEF p, AllHeard
          <5> QED
            BY <2>3, <5>1 DEF G!SharesPath, G!NoPath
        <4>4. q = r => G!SharesPath(q) \/ q \in messageEntered
          <5> SUFFICES ASSUME q = r, ~G!SharesPath(r), r \notin messageEntered
                       PROVE  FALSE
            OBVIOUS
          <5>1. EndsWithTransfer(r)
            BY <1>1, <2>3 DEF MessageKept, p
          <5>2. messageRequests[r].stage # "ended"
            BY <1>5 DEF G!HasObject
          <5>3. messageState[r] \in {"complete", "error"}
            BY <2>2, <2>4, <4>1
          <5> QED
            BY <5>1, <5>2, <5>3 DEF EndsWithTransfer
        <4>5. G!SharesPath(q)' \/ q \in messageEntered'
          BY <2>1, <2>8, <4>3, <4>4
        <4> QED
          BY <1>1, <2>3, <2>6, <2>8, <4>1, <4>2, <4>5, MessageUpdated
        DEF AllHeard
      <3> QED
        BY <3>1, <3>2
    <2> QED
      BY <1>2, <2>6, <2>7, <2>9 DEF MessagesKept, AllHeard
  <1> QED
    BY <1>4, <1>5

LEMMA ChangedKeeps ==
  ASSUME MessagesKept, NEW r \in DOMAIN messageRequests, NEW s \in {"complete", "error"},
         G!HandlePropertiesChanged(r, s)
  PROVE  MessagesKept' /\ UNCHANGED nextTransfer
         /\ DOMAIN messageRequests' = DOMAIN messageRequests
         /\ \A q \in DOMAIN messageRequests :
               messageRequests'[q].path = messageRequests[q].path
  <1> DEFINE p == messageRequests[r].path
             onPath == {q \in DOMAIN messageRequests : messageRequests[q].path = p}
             ids == {q \in onPath : G!HasObject(q)}
  <1>1. /\ MessagesTyped /\ \A q \in DOMAIN messageRequests : MessageKept(q)
    BY DEF MessagesKept
  <1>2. /\ UNCHANGED <<nextTransfer, messageClosing, messageFetching>>
        /\ messageState[r] = "running" /\ messageState' = [messageState EXCEPT ![r] = s]
        /\ G!Update(ids, p, s)
        /\ G!Enter({q \in onPath \intersect messageFetching : ~G!HasObject(q)})
    BY DEF G!HandlePropertiesChanged, G!sessionVars
  <1>3. DOMAIN messageRequests \subseteq G!RequestIds
    BY <1>1, MessageIds
  <1>4. p # G!NoPath
    BY <1>1, <1>2 DEF MessageKept
  <1>5. OnPath(ids, p)
    BY DEF OnPath
  <1>6. \A q \in DOMAIN messageRequests :
           q \in ids <=> messageRequests[q].path = p /\ G!HasObject(q)
    OBVIOUS
  <1>7. messageEntered' \subseteq G!RequestIds /\ messageEntered \subseteq messageEntered'
        /\ messageDead' \in BOOLEAN
    BY <1>1, <1>2, <1>3 DEF G!Enter, MessagesTyped
  <1>8. messageRequests[r].path = p
    OBVIOUS
  <1> HIDE DEF p, ids, onPath
  <1>9. AllHeard(ids, p, s)
    BY <1>1, <1>2, <1>4, <1>5, UpdateTells
  <1>10. /\ messageState' \in [G!RequestIds -> {"none", "running", "complete", "error", "gone"}]
         /\ messageState'[r] = s
         /\ \A q \in G!RequestIds \ {r} : messageState'[q] = messageState[q]
    BY <1>1, <1>2, <1>3 DEF MessagesTyped
  <1>11. MessagesTyped'
    BY <1>1, <1>2, <1>7, <1>9, <1>10 DEF MessagesTyped, AllHeard
  <1>12. \A q \in DOMAIN messageRequests : G!SharesPath(q) => G!SharesPath(q)'
    BY <1>9, SharesStays DEF AllHeard
  <1>13. ASSUME NEW q \in DOMAIN messageRequests
         PROVE  MessageKept(q)'
    <2>1. q # r /\ messageRequests[q].path = p => G!SharesPath(q)'
      <3> SUFFICES ASSUME q # r, messageRequests[q].path = p
                   PROVE  G!SharesPath(q)'
        OBVIOUS
      <3>1. /\ r \in DOMAIN messageRequests' \ {q}
            /\ messageRequests'[q].path = p /\ messageRequests'[r].path = p
        BY <1>8, <1>9 DEF AllHeard
      <3> QED
        BY <1>4, <3>1 DEF G!SharesPath, G!NoPath
    <2>2. CASE messageRequests'[q] = messageRequests[q] /\ q # r
      BY <1>1, <1>3, <1>7, <1>10, <1>12, <2>2, MessageRests
    <2>3. CASE q = r \/ messageRequests'[q] # messageRequests[q]
      <3>1. messageRequests[q].path = p
        BY <1>8, <1>9, <2>3 DEF AllHeard, HeardOfEnd
      <3>2. messageRequests[q].stage # "call" /\ messageState'[q] # "none"
        BY <1>1, <1>3, <1>4, <1>10, <3>1 DEF MessageKept
      <3>3. messageRequests'[q].stage \in {"unowned", "ended"}
        <4>1. CASE messageRequests'[q] = messageRequests[q] /\ q \notin ids
          <5>1. ~G!HasObject(q) /\ messageRequests[q] \in G!Request
            BY <1>1, <1>6, <3>1, <4>1, MessageIds
          <5> QED
            BY <3>2, <4>1, <5>1 DEF G!HasObject, G!Request
        <4> QED
          BY <1>9, <3>1, <4>1 DEF AllHeard, HeardOfEnd
      <3>4. ASSUME ~G!SharesPath(q)', q \notin messageEntered'
            PROVE  EndsWithTransfer(q)'
        <4>1. q = r /\ ~G!SharesPath(r) /\ r \notin messageEntered
          BY <1>7, <1>12, <2>1, <3>1, <3>4
        <4>2. EndsWithTransfer(r)
          BY <1>1, <1>4, <1>8, <4>1 DEF MessageKept
        <4>3. /\ messageRequests[r].stage # "ended" /\ messageRequests[r].results = 0
          BY <1>2, <4>2 DEF EndsWithTransfer
        <4>4. messageRequests[r].stage = "transfer"
          <5>1. messageRequests[r].stage # "unowned" /\ messageRequests[r] \in G!Request
            BY <1>1, <4>1, MessageIds DEF MessageKept
          <5> QED
            BY <3>2, <4>1, <4>3, <5>1 DEF G!Request
        <4>5. ids = {r}
          <5>1. \A i \in DOMAIN messageRequests \ {r} : messageRequests[i].path # p
            BY <1>4, <1>8, <4>1 DEF G!SharesPath
          <5>2. r \in ids
            BY <1>6, <1>8, <4>4 DEF G!HasObject
          <5> QED
            BY <1>5, <5>1, <5>2 DEF OnPath
        <4>6. /\ messageRequests'[r].stage = "ended" /\ messageRequests'[r].results = 1
              /\ messageRequests'[r].last = IF s = "complete" THEN "ok" ELSE "failed"
          BY <1>8, <1>9, <4>3, <4>4, <4>5 DEF AllHeard, HeardOfEnd
        <4> QED
          BY <1>10, <4>1, <4>6 DEF EndsWithTransfer
      <3> QED
        BY <1>1, <1>4, <1>9, <1>12, <3>1, <3>2, <3>3, <3>4, MessageUpdated
        DEF AllHeard
    <2> QED
      BY <2>2, <2>3
  <1> QED
    BY <1>2, <1>9, <1>11, <1>13 DEF MessagesKept, AllHeard

\* A call that ends without a transfer.
LEMMA CallEnds ==
  ASSUME MessagesKept, NEW r \in DOMAIN messageRequests, messageRequests[r].stage = "call",
         NEW result \in {"ok", "failed"}, NEW u, u = G!Told(messageRequests[r], result, "ended"),
         messageRequests' = [messageRequests EXCEPT ![r] = u],
         UNCHANGED <<messageState, messageFetching, messageEntered, messageClosing, messageDead>>
  PROVE  /\ MessagesKept' /\ DOMAIN messageRequests' = DOMAIN messageRequests
         /\ \A q \in DOMAIN messageRequests :
               messageRequests'[q].path = messageRequests[q].path
  <1>1. /\ MessagesTyped /\ \A q \in DOMAIN messageRequests : MessageKept(q)
    BY DEF MessagesKept
  <1>2. /\ DOMAIN messageRequests = 1..Len(messageRequests) /\ Len(messageRequests) \in Nat
        /\ DOMAIN messageRequests \subseteq G!RequestIds
        /\ \A q \in DOMAIN messageRequests : messageRequests[q] \in G!Request
    BY <1>1, MessageIds
  <1>3. /\ u \in G!Request /\ u.stage = "ended" /\ u.results = messageRequests[r].results + 1
        /\ u.last = result /\ u.path = messageRequests[r].path
    BY <1>2, ToldOf
  <1>4. /\ messageRequests' \in Seq(G!Request) /\ Len(messageRequests') = Len(messageRequests)
        /\ DOMAIN messageRequests' = DOMAIN messageRequests /\ messageRequests'[r] = u
        /\ \A q \in DOMAIN messageRequests \ {r} : messageRequests'[q] = messageRequests[q]
    BY <1>1, <1>2, <1>3, ExceptSeq DEF MessagesTyped
  <1>5. \A q \in DOMAIN messageRequests : messageRequests'[q].path = messageRequests[q].path
    BY <1>3, <1>4
  <1>6. MessagesTyped'
    BY <1>1, <1>4 DEF MessagesTyped
  <1>7. \A q \in DOMAIN messageRequests : G!SharesPath(q) => G!SharesPath(q)'
    BY <1>4, <1>5, SharesStays
  <1>8. \A q \in DOMAIN messageRequests \ {r} : MessageKept(q)'
    BY <1>1, <1>4, <1>7, MessageRests
  <1>9. MessageKept(r)'
    BY <1>1, <1>3, <1>4 DEF MessageKept, G!NoPath
  <1> QED
    BY <1>4, <1>5, <1>6, <1>8, <1>9 DEF MessagesKept

\* The requests that were given a transfer.
Transferred == {r \in DOMAIN messageRequests : messageRequests[r].path # G!NoPath}

NumberedKept == nextTransfer \in Nat \ {0} /\ nextTransfer <= Cardinality(Transferred) + 1

LEMMA NumberedIds ==
  ASSUME MessagesTyped
  PROVE  /\ IsFiniteSet(Transferred) /\ Cardinality(Transferred) \in Nat
         /\ Cardinality(Transferred) <= Len(messageRequests)
         /\ \A r \in DOMAIN messageRequests \ Transferred :
               /\ Cardinality(Transferred \union {r}) = Cardinality(Transferred) + 1
               /\ Cardinality(Transferred) + 1 <= MaxFileRequests
  <1>1. /\ DOMAIN messageRequests = 1..Len(messageRequests) /\ Len(messageRequests) \in Nat
    BY MessageIds
  <1> DEFINE n == Len(messageRequests)
  <1>2. IsFiniteSet(1..n) /\ Cardinality(1..n) = n
    <2>1. /\ IsFiniteSet(1..n) /\ Cardinality(1..n) = IF 1 > n THEN 0 ELSE n - 1 + 1
      BY <1>1, FS_Interval
    <2> QED
      BY <1>1, <2>1
  <1>3. Transferred \subseteq 1..Len(messageRequests)
    BY <1>1 DEF Transferred
  <1>4. IsFiniteSet(Transferred) /\ Cardinality(Transferred) \in Nat
    BY <1>2, <1>3, FS_Subset, FS_CardinalityType
  <1>5. Cardinality(Transferred) <= n
    BY <1>2, <1>3, FS_Subset
  <1>6. ASSUME NEW r \in DOMAIN messageRequests \ Transferred
        PROVE  /\ Cardinality(Transferred \union {r}) = Cardinality(Transferred) + 1
               /\ Cardinality(Transferred) + 1 <= MaxFileRequests
    <2>1. Cardinality(Transferred \union {r}) = Cardinality(Transferred) + 1
      BY <1>4, FS_AddElement
    <2>2. Transferred \union {r} \subseteq 1..Len(messageRequests)
      BY <1>1, <1>3
    <2>3. Cardinality(Transferred \union {r}) <= Len(messageRequests)
      BY <1>2, <2>2, FS_Subset
    <2>4. Len(messageRequests) <= MaxFileRequests /\ MaxFileRequests \in Nat
      BY ProfilesAssumption DEF MessagesTyped, ProfilesAssumption, G!MessageAccessAssumption
    <2> QED
      BY <1>1, <1>4, <2>1, <2>3, <2>4
  <1> QED
    BY <1>4, <1>5, <1>6

\* The transfers are numbered as before.
LEMMA NumbersRest ==
  ASSUME NumberedKept, UNCHANGED nextTransfer,
         DOMAIN messageRequests' = DOMAIN messageRequests,
         \A q \in DOMAIN messageRequests : messageRequests'[q].path = messageRequests[q].path
  PROVE  NumberedKept'
  <1>1. Transferred' = Transferred
    BY DEF Transferred, G!NoPath
  <1> QED
    BY <1>1 DEF NumberedKept

\* A reply that brings a transfer.
LEMMA CallGoesOn ==
  ASSUME MessagesKept, SessionsKept, NumberedKept, NEW r \in DOMAIN messageRequests,
         messageRequests[r].kind # "list", G!CallReply(r)
  PROVE  MessagesKept' /\ NumberedKept'
  <1> DEFINE on == messageRequests[r].on
             p == <<number[on], nextTransfer>>
             stage == IF G!Stored(p) = {} THEN "transfer" ELSE "unowned"
             v == [messageRequests[r] EXCEPT !.path = p]
             u == [v EXCEPT !.stage = stage]
  <1>1. /\ MessagesTyped /\ \A q \in DOMAIN messageRequests : MessageKept(q)
    BY DEF MessagesKept
  <1>2. /\ DOMAIN messageRequests = 1..Len(messageRequests) /\ Len(messageRequests) \in Nat
        /\ DOMAIN messageRequests \subseteq G!RequestIds
        /\ \A q \in DOMAIN messageRequests : messageRequests[q] \in G!Request
    BY <1>1, MessageIds
  <1>3. /\ messageRequests[r].stage = "call"
        /\ messageRequests' = [messageRequests EXCEPT ![r].path = p, ![r].stage = stage]
        /\ nextTransfer' = nextTransfer + 1
        /\ messageState' = [messageState EXCEPT ![r] =
              IF on \in messageOpen THEN "running" ELSE "gone"]
        /\ messageFetching' = messageFetching \union {r}
        /\ UNCHANGED <<messageClosing, messageEntered, messageDead>>
    BY DEF G!CallReply, G!sessionVars
  <1>4. messageRequests' = [messageRequests EXCEPT ![r] = u]
    BY <1>3
  <1>5. messageRequests[r].path = G!NoPath /\ r \notin Transferred
        /\ messageRequests[r].results = 0 /\ messageRequests[r].last = "none"
    BY <1>1, <1>3 DEF MessageKept, Transferred
  <1>6. p \in G!Paths /\ p # G!NoPath
    <2>1. /\ Cardinality(Transferred) \in Nat /\ Cardinality(Transferred) + 1 <= MaxFileRequests
          /\ MaxFileRequests \in Nat
      BY <1>1, <1>5, NumberedIds, ProfilesAssumption
      DEF ProfilesAssumption, G!MessageAccessAssumption
    <2>2. nextTransfer \in G!RequestIds
      BY <2>1 DEF NumberedKept, G!RequestIds
    <2>3. number[on] \in G!Numbers
      <3>1. messageRequests[r] \in G!Request
        BY <1>2
      <3>2. on \in G!Sessions
        BY <3>1 DEF G!Request
      <3> QED
        BY <3>2 DEF SessionsKept
    <2> QED
      BY <2>2, <2>3 DEF G!Paths, G!NoPath
  <1>7. stage = "unowned" => \E q \in DOMAIN messageRequests \ {r} : messageRequests[q].path = p
    BY <1>3 DEF G!Stored
  <1>8. stage \in {"transfer", "unowned"}
    OBVIOUS
  <1> HIDE DEF p, stage
  <1>9. v \in G!Request /\ v.path = p /\ v.results = 0 /\ v.last = "none"
    BY <1>2, <1>5, <1>6 DEF G!Request
  <1> HIDE DEF v
  <1>10. /\ u \in G!Request /\ u.path = p /\ u.stage = stage /\ u.results = 0
         /\ u.last = "none"
    BY <1>8, <1>9 DEF G!Request
  <1> HIDE DEF u
  <1>11. /\ messageRequests' \in Seq(G!Request) /\ Len(messageRequests') = Len(messageRequests)
         /\ DOMAIN messageRequests' = DOMAIN messageRequests /\ messageRequests'[r] = u
         /\ \A q \in DOMAIN messageRequests \ {r} : messageRequests'[q] = messageRequests[q]
    BY <1>1, <1>2, <1>4, <1>10, ExceptSeq DEF MessagesTyped
  <1>12. /\ messageState' \in [G!RequestIds -> {"none", "running", "complete", "error", "gone"}]
         /\ messageState'[r] \in {"running", "gone"}
         /\ \A q \in G!RequestIds \ {r} : messageState'[q] = messageState[q]
    BY <1>1, <1>2, <1>3 DEF MessagesTyped
  <1>13. MessagesTyped'
    BY <1>1, <1>2, <1>3, <1>11, <1>12 DEF MessagesTyped
  <1>14. \A q \in DOMAIN messageRequests : G!SharesPath(q) => G!SharesPath(q)'
    BY <1>5, <1>11, SharesStays
  <1>15. \A q \in DOMAIN messageRequests \ {r} : MessageKept(q)'
    BY <1>1, <1>2, <1>3, <1>11, <1>12, <1>14, MessageRests
  <1>16. MessageKept(r)'
    <2>1. stage = "unowned" => G!SharesPath(r)'
      <3> SUFFICES ASSUME stage = "unowned" PROVE G!SharesPath(r)'
        OBVIOUS
      <3>1. PICK q \in DOMAIN messageRequests \ {r} : messageRequests[q].path = p
        BY <1>7
      <3>2. /\ q \in DOMAIN messageRequests' \ {r} /\ messageRequests'[q].path = p
            /\ messageRequests'[r].path = p
        BY <1>10, <1>11, <3>1
      <3> QED
        BY <1>6, <3>2 DEF G!SharesPath, G!NoPath
    <2>2. EndsWithTransfer(r)'
      BY <1>8, <1>10, <1>11, <1>12 DEF EndsWithTransfer
    <2> QED
      BY <1>6, <1>8, <1>10, <1>11, <1>12, <2>1, <2>2 DEF MessageKept, G!NoPath
  <1>17. MessagesKept'
    BY <1>11, <1>13, <1>15, <1>16 DEF MessagesKept
  <1>18. NumberedKept'
    <2>1. Transferred' = Transferred \union {r}
      BY <1>6, <1>10, <1>11 DEF Transferred, G!NoPath
    <2>2. Cardinality(Transferred \union {r}) = Cardinality(Transferred) + 1
          /\ Cardinality(Transferred) \in Nat
      BY <1>1, <1>5, NumberedIds
    <2> QED
      BY <1>3, <2>1, <2>2 DEF NumberedKept
  <1> QED
    BY <1>17, <1>18

MessageInv == SessionsKept /\ MessagesKept /\ NumberedKept

LEMMA MessagesInit == G!Init => MessagesKept /\ NumberedKept
  <1> SUFFICES ASSUME G!Init PROVE MessagesKept /\ NumberedKept
    OBVIOUS
  <1>1. MaxFileRequests \in Nat
    BY ProfilesAssumption DEF ProfilesAssumption, G!MessageAccessAssumption
  <1>2. messageRequests = <<>> /\ Len(messageRequests) = 0 /\ DOMAIN messageRequests = {}
    BY DEF G!Init
  <1>3. MessagesKept
    <2>1. messageRequests \in Seq(G!Request)
      BY <1>2
    <2>2. messageState \in [G!RequestIds -> {"none", "running", "complete", "error", "gone"}]
      BY DEF G!Init
    <2>3. \A r \in G!RequestIds : messageState[r] = "none"
      BY DEF G!Init
    <2>4. Len(messageRequests) <= MaxFileRequests
      BY <1>1, <1>2
    <2>5. /\ messageFetching = {} /\ messageEntered = {} /\ messageClosing = {}
          /\ messageDead = FALSE
      BY DEF G!Init
    <2>6. MessagesTyped
      BY <2>1, <2>2, <2>3, <2>4, <2>5 DEF MessagesTyped
    <2> QED
      BY <1>2, <2>6 DEF MessagesKept
  <1>4. Transferred = {}
    BY <1>2 DEF Transferred
  <1>5. NumberedKept
    BY <1>4, FS_EmptySet DEF G!Init, NumberedKept
  <1> QED
    BY <1>3, <1>5

\* A request that is asked for.
LEMMA AskMessage ==
  ASSUME MessagesKept, SessionsKept, NumberedKept, NEW i \in Instances,
         NEW kind \in {"list", "message"}, G!Ask(kind, i)
  PROVE  MessagesKept' /\ NumberedKept'
  <1> DEFINE u == [kind |-> kind, on |-> messageSessions[i], stage |-> "call",
                   results |-> 0, last |-> "none", path |-> G!NoPath]
  <1>0. PICK n : n = Len(messageRequests)
    OBVIOUS
  <1>1. /\ MessagesTyped /\ \A q \in DOMAIN messageRequests : MessageKept(q)
    BY DEF MessagesKept
  <1>2. /\ DOMAIN messageRequests = 1..n /\ n \in Nat
        /\ DOMAIN messageRequests \subseteq G!RequestIds
    BY <1>0, <1>1, MessageIds
  <1>3. /\ messageSessions[i] # 0 /\ n < MaxFileRequests
        /\ messageRequests' = Append(messageRequests, u)
        /\ UNCHANGED <<nextTransfer, messageState, messageFetching, messageEntered>>
        /\ UNCHANGED <<messageClosing, messageDead>>
    BY <1>0 DEF G!Ask, G!sessionVars
  <1>4. messageSessions[i] \in G!Sessions /\ MaxFileRequests \in Nat
    BY <1>3, ProfilesAssumption
    DEF SessionsKept, G!Sessions, ProfilesAssumption, G!MessageAccessAssumption
  <1>5. u \in G!Request /\ u.stage = "call" /\ u.path = G!NoPath /\ u.results = 0
        /\ u.last = "none"
    BY <1>4 DEF G!Request, G!Paths
  <1> HIDE DEF u
  <1>6. /\ messageRequests' \in Seq(G!Request) /\ Len(messageRequests') = n + 1
        /\ messageRequests'[n + 1] = u
        /\ \A q \in 1..n : messageRequests'[q] = messageRequests[q]
    BY <1>0, <1>1, <1>2, <1>3, <1>5, AppendProperties DEF MessagesTyped
  <1>7. /\ DOMAIN messageRequests' = 1..(n + 1) /\ n + 1 \notin DOMAIN messageRequests
        /\ DOMAIN messageRequests \subseteq DOMAIN messageRequests'
        /\ DOMAIN messageRequests' = DOMAIN messageRequests \union {n + 1}
        /\ n + 1 \in G!RequestIds
    BY <1>2, <1>3, <1>4, <1>6 DEF G!RequestIds
  <1>8. MessagesTyped'
    BY <1>1, <1>2, <1>3, <1>4, <1>6, <1>7 DEF MessagesTyped
  <1>9. \A q \in DOMAIN messageRequests : G!SharesPath(q) => G!SharesPath(q)'
    BY <1>2, <1>6, <1>7, SharesStays
  <1>10. \A q \in DOMAIN messageRequests : MessageKept(q)'
    BY <1>1, <1>2, <1>3, <1>6, <1>9, MessageRests
  <1>11. messageState'[n + 1] = "none"
    BY <1>1, <1>3, <1>7 DEF MessagesTyped
  <1>12. MessageKept(n + 1)'
    BY <1>5, <1>6, <1>11 DEF MessageKept, G!NoPath
  <1>13. MessagesKept'
    BY <1>7, <1>8, <1>10, <1>12 DEF MessagesKept
  <1>14. Transferred' = Transferred
    BY <1>2, <1>5, <1>6, <1>7 DEF Transferred, G!NoPath
  <1> QED
    BY <1>3, <1>13, <1>14 DEF NumberedKept

\* What obexd closes ends no transfer as the client counts ends.
LEMMA CloseRequests ==
  ASSUME MessagesKept, NumberedKept, NEW closed, NEW S0,
         G!CloseAtObexd(closed), UNCHANGED <<nextTransfer, messageRequests>>,
         messageClosing' = messageClosing \union {s \in S0 : G!Called(s)},
         messageDead' \in BOOLEAN, UNCHANGED <<messageFetching, messageEntered>>
  PROVE  MessagesKept' /\ NumberedKept'
  <1>1. /\ MessagesTyped /\ \A q \in DOMAIN messageRequests : MessageKept(q)
    BY DEF MessagesKept
  <1>2. /\ DOMAIN messageRequests \subseteq G!RequestIds
        /\ \A r \in DOMAIN messageRequests : messageRequests[r] \in G!Request
    BY <1>1, MessageIds
  <1>3. \A s : G!Called(s) => s \in G!Sessions
    BY <1>2 DEF G!Called, G!Request
  <1>4. messageState' = [r \in G!RequestIds |->
            IF r \in DOMAIN messageRequests /\ messageRequests[r].on \in closed
               /\ messageState[r] = "running"
            THEN "gone" ELSE messageState[r]]
    BY DEF G!CloseAtObexd
  <1>5. messageState' \in [G!RequestIds -> {"none", "running", "complete", "error", "gone"}]
    BY <1>1, <1>4 DEF MessagesTyped
  <1>6. \A r \in G!RequestIds : \/ messageState'[r] = messageState[r]
                                \/ messageState[r] = "running" /\ messageState'[r] = "gone"
    BY <1>4
  <1>7. messageClosing' \subseteq G!Sessions
    BY <1>1, <1>3 DEF MessagesTyped
  <1>8. MessagesTyped'
    BY <1>1, <1>4, <1>5, <1>7 DEF MessagesTyped
  <1>9. \A q \in DOMAIN messageRequests : G!SharesPath(q) => G!SharesPath(q)'
    BY SharesStays
  <1>10. \A q \in DOMAIN messageRequests : MessageKept(q)'
    BY <1>1, <1>2, <1>6, <1>9, MessageRests
  <1>11. NumberedKept'
    BY NumbersRest
  <1> QED
    BY <1>8, <1>10, <1>11 DEF MessagesKept

LEMMA MessagesNext ==
  MessageInv /\ [G!Next]_(G!vars) => MessagesKept' /\ NumberedKept'
  <1> SUFFICES ASSUME MessageInv, [G!Next]_(G!vars)
               PROVE  MessagesKept' /\ NumberedKept'
    OBVIOUS
  <1>1. SessionsKept /\ MessagesKept /\ NumberedKept
    BY DEF MessageInv
  <1>2. /\ MessagesTyped /\ \A q \in DOMAIN messageRequests : MessageKept(q)
    BY <1>1 DEF MessagesKept
  <1>3. ASSUME UNCHANGED <<messageRequests, messageState, messageFetching, messageEntered>>,
               messageClosing' \subseteq G!Sessions, messageDead' \in BOOLEAN
        PROVE  MessagesKept'
    <2>1. \A q \in DOMAIN messageRequests : G!SharesPath(q) => G!SharesPath(q)'
      BY <1>3, SharesStays
    <2>2. \A q \in DOMAIN messageRequests : MessageKept(q)'
      BY <1>2, <1>3, <2>1, MessageRests
    <2>3. MessagesTyped'
      BY <1>2, <1>3 DEF MessagesTyped
    <2> QED
      BY <1>3, <2>2, <2>3 DEF MessagesKept
  <1>4. messageClosing \subseteq G!Sessions /\ messageDead \in BOOLEAN
    BY <1>2 DEF MessagesTyped
  <1>5. CASE UNCHANGED G!vars
    <2>1. /\ UNCHANGED <<messageRequests, messageState, messageFetching, messageEntered>>
          /\ UNCHANGED <<nextTransfer, messageClosing, messageDead>>
      BY <1>5 DEF G!vars, G!sessionVars, G!requestVars
    <2>2. NumberedKept'
      BY <1>1, <2>1, NumbersRest
    <2> QED
      BY <1>3, <1>4, <2>1, <2>2
  <1>6. ASSUME NEW i \in Instances, G!CreateSession(i)
        PROVE  MessagesKept' /\ NumberedKept'
    <2>1. /\ UNCHANGED <<messageRequests, messageState, messageFetching, messageEntered>>
          /\ UNCHANGED <<nextTransfer, messageClosing, messageDead>>
      BY <1>6 DEF G!CreateSession, G!requestVars
    <2>2. NumberedKept'
      BY <1>1, <2>1, NumbersRest
    <2> QED
      BY <1>3, <1>4, <2>1, <2>2
  <1>7. ASSUME NEW i \in Instances, G!Disconnect(i)
        PROVE  MessagesKept' /\ NumberedKept'
    BY <1>1, <1>4, <1>7, CloseRequests DEF G!Disconnect
  <1>8. ASSUME NEW s \in G!Sessions, G!LoseSession(s)
        PROVE  MessagesKept' /\ NumberedKept'
    <2>1. messageDead' \in BOOLEAN
      BY <1>8 DEF G!LoseSession
    <2> QED
      BY <1>1, <1>8, <2>1, CloseRequests DEF G!LoseSession
  <1>9. ASSUME NEW i \in Instances, G!GetMessageList(i) \/ G!GetMessage(i) \/ G!PushMessage(i)
        PROVE  MessagesKept' /\ NumberedKept'
    BY <1>1, <1>9, AskMessage DEF G!GetMessageList, G!GetMessage, G!PushMessage
  <1>10. CASE G!RestartObexd
    <2>1. /\ UNCHANGED <<messageRequests, messageState, messageFetching, messageEntered>>
          /\ nextTransfer' = 1 /\ messageClosing' = {} /\ UNCHANGED messageDead
      BY <1>10 DEF G!RestartObexd
    <2>2. MessagesKept'
      BY <1>3, <1>4, <2>1
    <2>3. Transferred' = Transferred /\ Cardinality(Transferred) \in Nat
      BY <1>2, <2>1, NumberedIds DEF Transferred, G!NoPath
    <2> QED
      BY <2>1, <2>2, <2>3 DEF NumberedKept
  <1>11. ASSUME NEW r \in DOMAIN messageRequests, G!CallError(r)
         PROVE  MessagesKept' /\ NumberedKept'
    <2> DEFINE u == G!Told(messageRequests[r], "failed", "ended")
    <2>1. /\ messageRequests[r].stage = "call"
          /\ messageRequests' = [messageRequests EXCEPT ![r] = u]
          /\ UNCHANGED <<messageState, messageFetching, messageEntered, messageClosing>>
          /\ UNCHANGED <<messageDead, nextTransfer>>
      BY <1>11 DEF G!CallError, G!sessionVars
    <2>2. u = G!Told(messageRequests[r], "failed", "ended")
      OBVIOUS
    <2> HIDE DEF u
    <2>3. /\ MessagesKept' /\ DOMAIN messageRequests' = DOMAIN messageRequests
          /\ \A q \in DOMAIN messageRequests :
                messageRequests'[q].path = messageRequests[q].path
      BY <1>1, <2>1, <2>2, CallEnds
    <2> QED
      BY <1>1, <2>1, <2>3, NumbersRest
  <1>12. ASSUME NEW r \in DOMAIN messageRequests, G!CallReply(r)
         PROVE  MessagesKept' /\ NumberedKept'
    <2>1. CASE messageRequests[r].kind = "list"
      <3> DEFINE u == G!Told(messageRequests[r], "ok", "ended")
      <3>1. /\ messageRequests[r].stage = "call"
            /\ messageRequests' = [messageRequests EXCEPT ![r] = u]
            /\ UNCHANGED <<messageState, messageFetching, messageEntered, messageClosing>>
            /\ UNCHANGED <<messageDead, nextTransfer>>
        BY <1>12, <2>1 DEF G!CallReply, G!sessionVars
      <3>2. u = G!Told(messageRequests[r], "ok", "ended")
        OBVIOUS
      <3> HIDE DEF u
      <3>3. /\ MessagesKept' /\ DOMAIN messageRequests' = DOMAIN messageRequests
            /\ \A q \in DOMAIN messageRequests :
                  messageRequests'[q].path = messageRequests[q].path
        BY <1>1, <3>1, <3>2, CallEnds
      <3> QED
        BY <1>1, <3>1, <3>3, NumbersRest
    <2>2. CASE messageRequests[r].kind # "list"
      BY <1>1, <1>12, <2>2, CallGoesOn
    <2> QED
      BY <2>1, <2>2
  <1>13. ASSUME NEW r \in DOMAIN messageRequests, G!FetchPropertiesReply(r)
         PROVE  MessagesKept' /\ NumberedKept'
    <2>1. /\ MessagesKept' /\ UNCHANGED nextTransfer
          /\ DOMAIN messageRequests' = DOMAIN messageRequests
          /\ \A q \in DOMAIN messageRequests :
                messageRequests'[q].path = messageRequests[q].path
      BY <1>1, <1>13, FetchKeeps
    <2> QED
      BY <1>1, <2>1, NumbersRest
  <1>14. ASSUME NEW r \in DOMAIN messageRequests, NEW s \in {"complete", "error"},
                G!HandlePropertiesChanged(r, s)
         PROVE  MessagesKept' /\ NumberedKept'
    <2>1. /\ MessagesKept' /\ UNCHANGED nextTransfer
          /\ DOMAIN messageRequests' = DOMAIN messageRequests
          /\ \A q \in DOMAIN messageRequests :
                messageRequests'[q].path = messageRequests[q].path
      BY <1>1, <1>14, ChangedKeeps
    <2> QED
      BY <1>1, <2>1, NumbersRest
  <1> QED
    BY <1>5, <1>6, <1>7, <1>8, <1>9, <1>10, <1>11, <1>12, <1>13, <1>14 DEF G!Next

LEMMA MessagesAlways == Spec => []MessageInv
  <1>1. Init => MessageInv
    BY SessionsInit, MessagesInit DEF Init, MessageInv
  <1>2. MessageInv /\ [Next]_vars => MessageInv'
    <2> SUFFICES ASSUME MessageInv, [Next]_vars
                 PROVE  MessageInv'
      OBVIOUS
    <2>1. G!Next \/ UNCHANGED messageVars
      BY DEF Next, ObexNext, vars, obexVars
    <2>2. [G!Next]_(G!vars)
      BY <2>1 DEF messageVars, G!vars, G!sessionVars, G!requestVars
    <2> QED
      BY <2>2, SessionsNext, MessagesNext DEF MessageInv
  <1> QED
    BY <1>1, <1>2, PTL DEF Spec

LEMMA MessageFacts == MessageInv => G!TypeOK /\ G!MessagesTold
  <1> SUFFICES ASSUME MessageInv PROVE G!TypeOK /\ G!MessagesTold
    OBVIOUS
  <1>1. SessionsKept /\ MessagesKept /\ NumberedKept
    BY DEF MessageInv
  <1>2. /\ MessagesTyped /\ \A q \in DOMAIN messageRequests : MessageKept(q)
    BY <1>1 DEF MessagesKept
  <1>3. nextTransfer \in 1..MaxFileRequests + 1
    <2>1. /\ Cardinality(Transferred) <= Len(messageRequests)
          /\ Cardinality(Transferred) \in Nat /\ Len(messageRequests) \in Nat
      BY <1>2, NumberedIds, MessageIds
    <2>2. Len(messageRequests) <= MaxFileRequests /\ MaxFileRequests \in Nat
      BY <1>2, ProfilesAssumption
      DEF MessagesTyped, ProfilesAssumption, G!MessageAccessAssumption
    <2> QED
      BY <1>1, <2>1, <2>2 DEF NumberedKept
  <1>4. messageOpen \subseteq G!Sessions /\ connected \subseteq Instances
    BY <1>1, ProfilesAssumption
    DEF SessionsKept, G!Sessions, ProfilesAssumption, G!MessageAccessAssumption
  <1>5. {messageOpen, messageClosing} \subseteq SUBSET G!Sessions
    BY <1>2, <1>4, Zenon DEF MessagesTyped
  <1>6. {messageFetching, messageEntered} \subseteq SUBSET G!RequestIds
    BY <1>2, Zenon DEF MessagesTyped
  <1>7. G!TypeOK
    BY <1>1, <1>2, <1>3, <1>4, <1>5, <1>6 DEF G!TypeOK, SessionsKept, MessagesTyped
  <1>8. \A i \in connected : messageSessions[i] \in messageOpen /\ key[messageSessions[i]] = i
    BY <1>1 DEF SessionsKept
  <1>9. ASSUME NEW r \in DOMAIN messageRequests \ messageEntered, ~G!SharesPath(r)
        PROVE  /\ messageRequests[r].results =
                     IF messageRequests[r].stage = "ended" THEN 1 ELSE 0
               /\ messageRequests[r].path # G!NoPath =>
                    /\ messageRequests[r].stage = "ended"
                          <=> messageState[r] \in {"complete", "error"}
                    /\ messageRequests[r].last = "ok" <=> messageState[r] = "complete"
    BY <1>2, <1>9 DEF MessageKept, EndsWithTransfer
  <1>10. ASSUME NEW s \in messageOpen, G!Notified(s) # key[s]
         PROVE  number[s] > 9
    <2>1. number[s] \in Nat /\ keyOf[number[s]] = key[s]
      BY <1>1, <1>4 DEF SessionsKept, G!Numbers
    <2>2. number[s] < 10 => G!Notified(s) = keyOf[number[s]]
      BY DEF G!Notified, G!FirstDigit
    <2> QED
      BY <1>10, <2>1, <2>2
  <1> QED
    BY <1>1, <1>7, <1>8, <1>9, <1>10 DEF G!MessagesTold, SessionsKept

(***************************************************************************)
(* Phonebook.  The object of a transfer that has not ended has the state   *)
(* obexd has, or has not heard of it yet; of a phone book, its state tells *)
(* which of a few courses the client has been told.                        *)
(***************************************************************************)
BookTyped ==
    /\ session \in [Devices -> 0..MaxSessions]
    /\ sessions \in 0..MaxSessions
    /\ mObjectPhonebookProxy \in 0..MaxSessions
    /\ calls \subseteq [kind : B!Kinds, on : 1..MaxSessions]
    /\ pulled \in [Transfers -> B!Pulls \union {"none"}]
    /\ remote \in [Transfers -> B!States \union {"gone"}]
    /\ mTransfersMap \subseteq Transfers
    /\ state \in [Transfers -> B!States]
    /\ fetching \subseteq Transfers
    /\ mTransferStateMap \in [Transfers -> B!Reports \union {"none"}]
    /\ reports \in [Transfers -> Seq(B!Reports)]
    /\ entered \subseteq Transfers
    /\ crashed \in BOOLEAN

\* What the client may have been told of a phone book in state s.
Courses(s) ==
    CASE s = "inactive" -> {<<>>}
      [] s = "queued" -> {<<"idle">>}
      [] s \in {"active", "suspended"} -> {<<"active">>, <<"idle", "active">>}
      [] s = "complete" -> {<<"completed">>, <<"active", "completed">>,
                            <<"idle", "active", "completed">>}
      [] s = "error" -> {<<"error">>, <<"idle", "error">>, <<"active", "error">>,
                         <<"idle", "active", "error">>}

LastTold(s) ==
    CASE s = "inactive" -> "none"
      [] s = "queued" -> "idle"
      [] s \in {"active", "suspended"} -> "active"

InCourse(t) ==
    IF pulled[t] = "card"
    THEN reports[t] = IF state[t] \in B!Final THEN <<B!StateString[state[t]]>> ELSE <<>>
    ELSE /\ reports[t] \in Courses(state[t])
         /\ state[t] \notin B!Final => mTransferStateMap[t] = LastTold(state[t])

Pulled(t) ==
    /\ remote[t] # "inactive"
    /\ t \in mTransfersMap <=> state[t] \notin B!Final
    /\ state[t] \in B!Final => remote[t] = state[t]
    /\ \/ remote[t] = "gone" \/ state[t] = remote[t]
       \/ state[t] = "inactive" /\ remote[t] = "queued"
    /\ InCourse(t)

NotPulled(t) ==
    /\ remote[t] = "inactive" /\ state[t] = "inactive"
    /\ t \notin mTransfersMap /\ t \notin fetching
    /\ mTransferStateMap[t] = "none" /\ reports[t] = <<>>

BookInv ==
    /\ BookTyped
    /\ \A t \in Transfers : IF pulled[t] = "none" THEN NotPulled(t) ELSE Pulled(t)

LEMMA StatesAre ==
  /\ B!States = {"inactive", "queued", "active", "suspended", "complete", "error"}
  /\ B!StateString["inactive"] = "idle" /\ B!StateString["queued"] = "idle"
  /\ B!StateString["active"] = "active" /\ B!StateString["suspended"] = "active"
  /\ B!StateString["complete"] = "completed" /\ B!StateString["error"] = "error"
  BY DEF B!States, B!StateString

LEMMA ReportsAre == B!Reports = {"idle", "active", "completed", "error"}
  <1>1. \A s \in B!States : B!StateString[s] \in {"idle", "active", "completed", "error"}
    BY StatesAre
  <1>2. /\ B!StateString["inactive"] \in B!Reports /\ B!StateString["active"] \in B!Reports
        /\ B!StateString["complete"] \in B!Reports /\ B!StateString["error"] \in B!Reports
    BY StatesAre DEF B!Reports
  <1>3. {"idle", "active", "completed", "error"} \subseteq B!Reports
    BY <1>2, StatesAre
  <1>4. B!Reports \subseteq {"idle", "active", "completed", "error"}
    BY <1>1 DEF B!Reports
  <1> QED
    BY <1>3, <1>4

LEMMA SuccessorsAre ==
  /\ DOMAIN B!Successors = {"queued", "active", "suspended"}
  /\ B!Successors["queued"] = {"queued", "active", "complete", "error"}
  /\ B!Successors["active"] = {"active", "suspended", "complete", "error"}
  /\ B!Successors["suspended"] = {"suspended", "active", "error"}
  BY DEF B!Successors

LEMMA Joined ==
  ASSUME NEW T, NEW s1 \in Seq(T), NEW s2 \in Seq(T), NEW s3 \in Seq(T),
         Len(s3) = Len(s1) + Len(s2), \A i \in 1..Len(s1) : s3[i] = s1[i],
         \A i \in 1..Len(s2) : s3[Len(s1) + i] = s2[i]
  PROVE  s1 \o s2 = s3
  <1>1. /\ s1 \o s2 \in Seq(T) /\ Len(s1 \o s2) = Len(s1) + Len(s2)
        /\ \A i \in 1..Len(s1) + Len(s2) :
              (s1 \o s2)[i] = IF i <= Len(s1) THEN s1[i] ELSE s2[i - Len(s1)]
    BY ConcatProperties
  <1>2. Len(s1) \in Nat /\ Len(s2) \in Nat
    OBVIOUS
  <1>3. ASSUME NEW i \in 1..Len(s1) + Len(s2)
        PROVE  (s1 \o s2)[i] = s3[i]
    <2>1. CASE i <= Len(s1)
      BY <1>1, <1>2, <2>1
    <2>2. CASE ~(i <= Len(s1))
      <3>1. i - Len(s1) \in 1..Len(s2) /\ Len(s1) + (i - Len(s1)) = i
        BY <1>2, <2>2
      <3>2. s3[i] = s2[i - Len(s1)]
        BY <3>1
      <3> QED
        BY <1>1, <2>2, <3>2
    <2> QED
      BY <2>1, <2>2
  <1> QED
    BY <1>1, <1>3, SeqEqual

LEMMA Pairs ==
  \A a, b, c : /\ <<a>> \o <<b>> = <<a, b>> /\ <<a>> \o <<b, c>> = <<a, b, c>>
              /\ <<a, b>> \o <<c>> = <<a, b, c>>
  <1> TAKE a, b, c
  <1> DEFINE T == {a, b, c}
  <1>1. <<a>> \in Seq(T) /\ <<b>> \in Seq(T) /\ <<c>> \in Seq(T)
    OBVIOUS
  <1>2. <<a, b>> \in Seq(T) /\ <<b, c>> \in Seq(T) /\ <<a, b, c>> \in Seq(T)
    OBVIOUS
  <1> HIDE DEF T
  <1>3. <<a>> \o <<b>> = <<a, b>>
    <2> DEFINE s1 == <<a>>
               s2 == <<b>>
               s3 == <<a, b>>
    <2>1. /\ s1 \in Seq(T) /\ s2 \in Seq(T) /\ s3 \in Seq(T)
          /\ Len(s1) = 1 /\ Len(s2) = 1 /\ Len(s3) = 2
      BY <1>1, <1>2
    <2>2. /\ \A i \in 1..1 : s3[i] = s1[i]
          /\ \A i \in 1..1 : s3[1 + i] = s2[i]
      OBVIOUS
    <2> HIDE DEF s1, s2, s3
    <2>3. /\ Len(s3) = Len(s1) + Len(s2) /\ \A i \in 1..Len(s1) : s3[i] = s1[i]
          /\ \A i \in 1..Len(s2) : s3[Len(s1) + i] = s2[i]
      BY <2>1, <2>2
    <2>4. s1 \o s2 = s3
      BY <2>1, <2>3, Joined, Zenon
    <2> QED
      BY <2>4 DEF s1, s2, s3
  <1>4. <<a>> \o <<b, c>> = <<a, b, c>>
    <2> DEFINE s1 == <<a>>
               s2 == <<b, c>>
               s3 == <<a, b, c>>
    <2>1. /\ s1 \in Seq(T) /\ s2 \in Seq(T) /\ s3 \in Seq(T)
          /\ Len(s1) = 1 /\ Len(s2) = 2 /\ Len(s3) = 3
      BY <1>1, <1>2
    <2>2. /\ \A i \in 1..1 : s3[i] = s1[i]
          /\ \A i \in 1..2 : s3[1 + i] = s2[i]
      OBVIOUS
    <2> HIDE DEF s1, s2, s3
    <2>3. /\ Len(s3) = Len(s1) + Len(s2) /\ \A i \in 1..Len(s1) : s3[i] = s1[i]
          /\ \A i \in 1..Len(s2) : s3[Len(s1) + i] = s2[i]
      BY <2>1, <2>2
    <2>4. s1 \o s2 = s3
      BY <2>1, <2>3, Joined, Zenon
    <2> QED
      BY <2>4 DEF s1, s2, s3
  <1>5. <<a, b>> \o <<c>> = <<a, b, c>>
    <2> DEFINE s1 == <<a, b>>
               s2 == <<c>>
               s3 == <<a, b, c>>
    <2>1. /\ s1 \in Seq(T) /\ s2 \in Seq(T) /\ s3 \in Seq(T)
          /\ Len(s1) = 2 /\ Len(s2) = 1 /\ Len(s3) = 3
      BY <1>1, <1>2
    <2>2. /\ \A i \in 1..2 : s3[i] = s1[i]
          /\ \A i \in 1..1 : s3[2 + i] = s2[i]
      OBVIOUS
    <2> HIDE DEF s1, s2, s3
    <2>3. /\ Len(s3) = Len(s1) + Len(s2) /\ \A i \in 1..Len(s1) : s3[i] = s1[i]
          /\ \A i \in 1..Len(s2) : s3[Len(s1) + i] = s2[i]
      BY <2>1, <2>2
    <2>4. s1 \o s2 = s3
      BY <2>1, <2>3, Joined, Zenon
    <2> QED
      BY <2>4 DEF s1, s2, s3
  <1> QED
    BY <1>3, <1>4, <1>5

\* The states an object in state s1 may be notified of.
Follows(s1, s2) ==
    /\ s2 # "inactive"
    /\ \/ s1 = s2
       \/ s1 = "inactive" /\ s2 \in B!Successors["queued"]
       \/ s1 # "inactive" /\ s2 \in B!Successors[s1]

\* A step of the course of a phone book.
LEMMA CourseGoesOn ==
  ASSUME NEW s1 \in {"inactive", "queued", "active", "suspended"}, NEW s2 \in B!States,
         NEW told1 \in Courses(s1), Follows(s1, s2), NEW more,
         more = CASE B!StateString[s2] = LastTold(s1) -> <<>>
                  [] LastTold(s1) = "idle" /\ s2 = "complete" -> <<"active", B!StateString[s2]>>
                  [] OTHER -> <<B!StateString[s2]>>
  PROVE  told1 \o more \in Courses(s2)
  <1> DEFINE idle == <<"idle">>
             active == <<"active">>
             both == <<"idle", "active">>
             none == <<>>
  <1>1. idle \o <<>> = idle /\ active \o <<>> = active /\ both \o <<>> = both
    OBVIOUS
  <1>2. /\ none \o <<"idle">> = idle /\ none \o <<"active">> = active
        /\ none \o <<"completed">> = <<"completed">> /\ none \o <<"error">> = <<"error">>
    OBVIOUS
  <1>3. /\ idle \o <<"active">> = both /\ idle \o <<"error">> = <<"idle", "error">>
        /\ idle \o <<"active", "completed">> = <<"idle", "active", "completed">>
    BY Pairs, Zenon
  <1>4. /\ active \o <<"completed">> = <<"active", "completed">>
        /\ active \o <<"error">> = <<"active", "error">>
    BY Pairs, Zenon
  <1>5. /\ both \o <<"completed">> = <<"idle", "active", "completed">>
        /\ both \o <<"error">> = <<"idle", "active", "error">>
    BY Pairs, Zenon
  <1> HIDE DEF idle, active, both, none
  <1>6. CASE s1 = "inactive"
    BY <1>1, <1>2, <1>3, <1>4, <1>5, <1>6, StatesAre, SuccessorsAre
    DEF Follows, Courses, LastTold, none
  <1>7. CASE s1 = "queued"
    BY <1>1, <1>2, <1>3, <1>4, <1>5, <1>7, StatesAre, SuccessorsAre
    DEF Follows, Courses, LastTold, idle, both
  <1>8. CASE s1 = "active"
    BY <1>1, <1>2, <1>3, <1>4, <1>5, <1>8, StatesAre, SuccessorsAre
    DEF Follows, Courses, LastTold, active, both
  <1>9. CASE s1 = "suspended"
    BY <1>1, <1>2, <1>3, <1>4, <1>5, <1>9, StatesAre, SuccessorsAre
    DEF Follows, Courses, LastTold, active, both
  <1> QED
    BY <1>6, <1>7, <1>8, <1>9

LEMMA NotifyKeeps ==
  ASSUME BookInv, NEW t \in mTransfersMap, pulled[t] # "none", NEW s \in B!States,
         Follows(state[t], s), B!Notify(t, s), UNCHANGED pulled
  PROVE  /\ state' = [state EXCEPT ![t] = s] /\ state' \in [Transfers -> B!States]
         /\ mTransfersMap' = IF s \in B!Final THEN mTransfersMap \ {t} ELSE mTransfersMap
         /\ mTransferStateMap' \in [Transfers -> B!Reports \union {"none"}]
         /\ reports' \in [Transfers -> Seq(B!Reports)] /\ crashed' \in BOOLEAN
         /\ \A u \in Transfers \ {t} :
               /\ mTransferStateMap'[u] = mTransferStateMap[u] /\ reports'[u] = reports[u]
         /\ InCourse(t)'
  <1>1. BookTyped /\ t \in Transfers /\ Pulled(t)
    BY DEF BookInv, BookTyped
  <1>2. /\ state \in [Transfers -> B!States] /\ reports \in [Transfers -> Seq(B!Reports)]
        /\ mTransferStateMap \in [Transfers -> B!Reports \union {"none"}]
        /\ pulled[t] \in {"card", "book"}
    BY <1>1 DEF BookTyped, B!Pulls
  <1> DEFINE said == B!StateString[s]
             more == B!ReportsOf(t, s)
  <1>3. /\ state' = [state EXCEPT ![t] = s] /\ reports' = [reports EXCEPT ![t] = reports[t] \o more]
        /\ mTransfersMap' = IF s \in B!Final THEN mTransfersMap \ {t} ELSE mTransfersMap
        /\ \/ /\ s \in B!Final /\ mTransferStateMap[t] # "none"
              /\ mTransferStateMap' = [mTransferStateMap EXCEPT ![t] = "none"]
           \/ /\ ~(s \in B!Final /\ mTransferStateMap[t] # "none")
              /\ mTransferStateMap' = B!Remember(t, s)
    BY DEF B!Notify
  <1>4. crashed' \in BOOLEAN
    BY <1>1 DEF B!Notify, BookTyped
  <1>5. said \in B!Reports
    BY DEF B!Reports
  <1>6. /\ pulled[t] = "card" => more = IF s \in B!Final THEN <<said>> ELSE <<>>
        /\ pulled[t] # "card" => more = CASE said = mTransferStateMap[t] -> <<>>
              [] mTransferStateMap[t] = "idle" /\ s = "complete" -> <<"active", said>>
              [] OTHER -> <<said>>
    <2>1. CASE pulled[t] = "card"
      BY <2>1 DEF B!ReportsOf
    <2>2. CASE pulled[t] # "card"
      BY <2>2 DEF B!ReportsOf
    <2> QED
      BY <2>1, <2>2
  <1>7. B!Remember(t, s) = IF pulled[t] = "card" THEN mTransferStateMap
                           ELSE [mTransferStateMap EXCEPT ![t] = said]
    BY DEF B!Remember
  <1>8. state[t] \in {"inactive", "queued", "active", "suspended"} /\ state[t] \notin B!Final
    BY <1>1, <1>2, StatesAre DEF Pulled, B!Final
  <1>9. more \in Seq(B!Reports)
    <2>1. /\ <<>> \in Seq(B!Reports) /\ <<said>> \in Seq(B!Reports)
          /\ <<"active", said>> \in Seq(B!Reports)
      BY <1>5, ReportsAre
    <2>2. more \in {<<>>, <<said>>, <<"active", said>>}
      BY <1>6
    <2> QED
      BY <2>1, <2>2
  <1> HIDE DEF more
  <1>10. reports[t] \o more \in Seq(B!Reports)
    BY <1>1, <1>2, <1>9, ConcatProperties
  <1>11. /\ reports' \in [Transfers -> Seq(B!Reports)] /\ reports'[t] = reports[t] \o more
         /\ \A u \in Transfers \ {t} : reports'[u] = reports[u]
    BY <1>1, <1>2, <1>3, <1>10
  <1>12. /\ state' \in [Transfers -> B!States] /\ state'[t] = s
    BY <1>1, <1>2, <1>3
  <1>13. /\ mTransferStateMap' \in [Transfers -> B!Reports \union {"none"}]
         /\ \A u \in Transfers \ {t} : mTransferStateMap'[u] = mTransferStateMap[u]
         /\ pulled[t] # "card" /\ s \notin B!Final => mTransferStateMap'[t] = said
    BY <1>1, <1>2, <1>3, <1>5, <1>7
  <1>14. InCourse(t)'
    <2>1. CASE pulled[t] = "card"
      <3>1. reports[t] = <<>>
        BY <1>1, <1>8, <2>1 DEF Pulled, InCourse
      <3>2. more = IF s \in B!Final THEN <<said>> ELSE <<>>
        BY <1>6, <2>1
      <3>3. reports'[t] = IF s \in B!Final THEN <<said>> ELSE <<>>
        BY <1>11, <3>1, <3>2
      <3> QED
        BY <1>12, <2>1, <3>3 DEF InCourse, B!Final, B!StateString
    <2>2. CASE pulled[t] # "card"
      <3>1. reports[t] \in Courses(state[t]) /\ mTransferStateMap[t] = LastTold(state[t])
        BY <1>1, <1>8, <2>2 DEF Pulled, InCourse
      <3>2. more = CASE said = LastTold(state[t]) -> <<>>
                     [] LastTold(state[t]) = "idle" /\ s = "complete" -> <<"active", said>>
                     [] OTHER -> <<said>>
        BY <1>6, <2>2, <3>1
      <3>3. reports[t] \o more \in Courses(s)
        BY <1>8, <3>1, <3>2, CourseGoesOn
      <3>4. s \notin B!Final => mTransferStateMap'[t] = LastTold(s)
        <4>1. s \notin B!Final => said = LastTold(s)
          BY StatesAre DEF B!Final, LastTold, Follows
        <4> QED
          BY <1>13, <2>2, <4>1
      <3>5. reports'[t] \in Courses(state'[t])
        BY <1>11, <1>12, <3>3
      <3> QED
        BY <1>12, <2>2, <3>4, <3>5 DEF InCourse, B!Final
    <2> QED
      BY <2>1, <2>2
  <1> QED
    BY <1>3, <1>4, <1>11, <1>12, <1>13, <1>14

LEMMA BookInit == B!Init => BookInv
  <1> SUFFICES ASSUME B!Init PROVE BookInv
    OBVIOUS
  <1>1. MaxSessions \in Nat
    BY ProfilesAssumption DEF ProfilesAssumption, B!PhonebookAssumption
  <1>2. "inactive" \in B!States
    BY StatesAre
  <1>3. /\ session \in [Devices -> 0..MaxSessions] /\ sessions \in 0..MaxSessions
        /\ mObjectPhonebookProxy \in 0..MaxSessions
    BY <1>1 DEF B!Init
  <1>4. /\ remote \in [Transfers -> B!States \union {"gone"}]
        /\ state \in [Transfers -> B!States]
        /\ mTransferStateMap \in [Transfers -> B!Reports \union {"none"}]
        /\ pulled \in [Transfers -> B!Pulls \union {"none"}]
    BY <1>2 DEF B!Init
  <1>5. reports \in [Transfers -> Seq(B!Reports)]
    BY DEF B!Init
  <1>6. /\ calls = {} /\ mTransfersMap = {} /\ fetching = {} /\ entered = {} /\ crashed = FALSE
    BY DEF B!Init
  <1>7. BookTyped
    BY <1>3, <1>4, <1>5, <1>6 DEF BookTyped
  <1>8. ASSUME NEW t \in Transfers
        PROVE  pulled[t] = "none" /\ NotPulled(t)
    BY DEF B!Init, NotPulled
  <1> QED
    BY <1>7, <1>8 DEF BookInv

\* What the sessions and calls do leaves the transfers alone.
LEMMA BookRests ==
  ASSUME BookInv,
         UNCHANGED <<pulled, remote, mTransfersMap, state, mTransferStateMap, reports, fetching>>,
         session' \in [Devices -> 0..MaxSessions], sessions' \in 0..MaxSessions,
         mObjectPhonebookProxy' \in 0..MaxSessions,
         calls' \subseteq [kind : B!Kinds, on : 1..MaxSessions],
         entered' \subseteq Transfers, crashed' \in BOOLEAN
  PROVE  BookInv'
  <1>1. BookTyped'
    BY DEF BookInv, BookTyped
  <1>2. ASSUME NEW t \in Transfers
        PROVE  IF pulled'[t] = "none" THEN NotPulled(t)' ELSE Pulled(t)'
    <2>1. InCourse(t) => InCourse(t)'
      BY DEF InCourse
    <2>2. IF pulled[t] = "none" THEN NotPulled(t) ELSE Pulled(t)
      BY DEF BookInv
    <2> QED
      BY <2>1, <2>2 DEF NotPulled, Pulled
  <1> QED
    BY <1>1, <1>2 DEF BookInv

LEMMA SessionsRest ==
  ASSUME BookInv,
         \/ \E d \in Devices :
              \/ B!StoreSession(d) \/ B!RemoveSession(d)
              \/ B!SetPhoneBook(d) \/ B!GetPhonebookSize(d) \/ B!SearchPhoneBook(d)
              \/ B!PullvCard(d) \/ B!PullPhoneBook(d) \/ B!VCardListing(d)
              \/ B!UpdateProperties(d)
         \/ \E c \in calls : B!CallReplyElsewhere(c)
  PROVE  BookInv'
  <1>1. MaxSessions \in Nat
    BY ProfilesAssumption DEF ProfilesAssumption, B!PhonebookAssumption
  <1>2. BookTyped
    BY DEF BookInv
  <1>3. /\ session \in [Devices -> 0..MaxSessions] /\ sessions \in 0..MaxSessions
        /\ mObjectPhonebookProxy \in 0..MaxSessions
        /\ calls \subseteq [kind : B!Kinds, on : 1..MaxSessions]
        /\ entered \subseteq Transfers /\ crashed \in BOOLEAN
    BY <1>2 DEF BookTyped
  <1>4. ASSUME NEW d \in Devices, B!StoreSession(d)
        PROVE  BookInv'
    <2>1. /\ sessions' = sessions + 1 /\ sessions < MaxSessions
          /\ session' = [session EXCEPT ![d] = sessions + 1]
      BY <1>4 DEF B!StoreSession
    <2>2. sessions + 1 \in 0..MaxSessions
      BY <1>1, <1>3, <2>1
    <2>3. session' \in [Devices -> 0..MaxSessions]
      BY <1>3, <2>1, <2>2
    <2> QED
      BY <1>3, <1>4, <2>1, <2>2, <2>3, BookRests DEF B!StoreSession, B!objectVars
  <1>5. ASSUME NEW d \in Devices, B!RemoveSession(d)
        PROVE  BookInv'
    <2>1. session' \in [Devices -> 0..MaxSessions]
      BY <1>1, <1>3, <1>5 DEF B!RemoveSession
    <2> QED
      BY <1>3, <1>5, <2>1, BookRests DEF B!RemoveSession, B!objectVars
  <1>6. ASSUME NEW kind \in B!Kinds, NEW on \in 1..MaxSessions, B!Call(kind, on),
               mObjectPhonebookProxy' \in 0..MaxSessions
        PROVE  BookInv'
    <2>1. calls' \subseteq [kind : B!Kinds, on : 1..MaxSessions]
      BY <1>3, <1>6 DEF B!Call
    <2> QED
      BY <1>3, <1>6, <2>1, BookRests DEF B!Call, B!objectVars
  <1>7. ASSUME NEW d \in Devices, NEW kind \in B!Kinds, B!CallOn(kind, d)
        PROVE  BookInv'
    <2>1. session[d] \in 1..MaxSessions /\ session[d] \in 0..MaxSessions
      BY <1>1, <1>3, <1>7 DEF B!CallOn
    <2> QED
      BY <1>6, <1>7, <2>1 DEF B!CallOn
  <1>8. ASSUME NEW d \in Devices,
               \/ B!SetPhoneBook(d) \/ B!GetPhonebookSize(d) \/ B!SearchPhoneBook(d)
               \/ B!PullvCard(d) \/ B!PullPhoneBook(d)
        PROVE  BookInv'
    BY <1>7, <1>8
    DEF B!SetPhoneBook, B!GetPhonebookSize, B!SearchPhoneBook, B!PullvCard, B!PullPhoneBook,
        B!Kinds
  <1>9. ASSUME NEW d \in Devices, B!VCardListing(d)
        PROVE  BookInv'
    <2>1. /\ mObjectPhonebookProxy \in 1..MaxSessions /\ UNCHANGED mObjectPhonebookProxy
      BY <1>1, <1>3, <1>9 DEF B!VCardListing
    <2>2. CASE mObjectPhonebookProxy \in B!Proxies
      BY <1>3, <1>6, <1>9, <2>1, <2>2 DEF B!VCardListing, B!Kinds
    <2>3. CASE mObjectPhonebookProxy \notin B!Proxies
      BY <1>3, <1>9, <2>1, <2>3, BookRests DEF B!VCardListing, B!objectVars
    <2> QED
      BY <2>2, <2>3
  <1>10. ASSUME NEW d \in Devices, B!UpdateProperties(d)
         PROVE  BookInv'
    BY <1>3, <1>10, BookRests DEF B!UpdateProperties, B!objectVars, B!callVars
  <1>11. ASSUME NEW c \in calls, B!CallReplyElsewhere(c)
         PROVE  BookInv'
    <2>1. crashed' \in BOOLEAN /\ calls' \subseteq [kind : B!Kinds, on : 1..MaxSessions]
      BY <1>3, <1>11 DEF B!CallReplyElsewhere, B!Answered
    <2> QED
      BY <1>3, <1>11, <2>1, BookRests DEF B!CallReplyElsewhere, B!Answered, B!objectVars
  <1> QED
    BY <1>4, <1>5, <1>8, <1>9, <1>10, <1>11

\* A pull that begins.
LEMMA StartKeeps ==
  ASSUME BookInv, NEW kind \in B!Pulls, NEW t \in Transfers, B!StartTransfer(kind, t),
         UNCHANGED <<session, sessions, mObjectPhonebookProxy, entered, crashed>>,
         calls' \subseteq calls
  PROVE  BookInv'
  <1>1. BookTyped /\ pulled[t] = "none" /\ NotPulled(t)
    BY DEF BookInv, B!StartTransfer
  <1>2. /\ pulled' = [pulled EXCEPT ![t] = kind] /\ remote' = [remote EXCEPT ![t] = "queued"]
        /\ mTransfersMap' = mTransfersMap \union {t} /\ fetching' = fetching \union {t}
        /\ UNCHANGED <<state, mTransferStateMap, reports>>
    BY DEF B!StartTransfer
  <1>3. "queued" \in B!States
    BY StatesAre
  <1>4. /\ pulled' \in [Transfers -> B!Pulls \union {"none"}] /\ pulled'[t] = kind
        /\ remote' \in [Transfers -> B!States \union {"gone"}] /\ remote'[t] = "queued"
        /\ \A u \in Transfers \ {t} : pulled'[u] = pulled[u] /\ remote'[u] = remote[u]
    BY <1>1, <1>2, <1>3 DEF BookTyped
  <1>5. BookTyped'
    BY <1>1, <1>2, <1>4 DEF BookTyped
  <1>6. kind # "none"
    BY DEF B!Pulls
  <1>7. Pulled(t)'
    <2>1. InCourse(t)'
      BY <1>1, <1>2 DEF NotPulled, InCourse, Courses, LastTold, B!Final
    <2> QED
      BY <1>1, <1>2, <1>4, <2>1 DEF NotPulled, Pulled, B!Final
  <1>8. ASSUME NEW u \in Transfers \ {t}
        PROVE  IF pulled'[u] = "none" THEN NotPulled(u)' ELSE Pulled(u)'
    <2>1. InCourse(u) => InCourse(u)'
      BY <1>2, <1>4 DEF InCourse
    <2>2. IF pulled[u] = "none" THEN NotPulled(u) ELSE Pulled(u)
      BY DEF BookInv
    <2> QED
      BY <1>2, <1>4, <2>1, <2>2 DEF NotPulled, Pulled
  <1> QED
    BY <1>4, <1>5, <1>6, <1>7, <1>8 DEF BookInv

\* An object that has heard of its state.
LEMMA NotifiedKeeps ==
  ASSUME BookInv, NEW t \in mTransfersMap, pulled[t] # "none", NEW s \in B!States,
         Follows(state[t], s), B!Notify(t, s), UNCHANGED pulled,
         UNCHANGED <<session, sessions, mObjectPhonebookProxy, calls, entered>>,
         fetching' \subseteq fetching,
         remote' \in [Transfers -> B!States \union {"gone"}], remote'[t] = s,
         \A u \in Transfers \ {t} : remote'[u] = remote[u]
  PROVE  BookInv'
  <1>1. BookTyped /\ t \in Transfers
    BY DEF BookInv, BookTyped
  <1>2. /\ state' = [state EXCEPT ![t] = s] /\ state' \in [Transfers -> B!States]
        /\ mTransfersMap' = IF s \in B!Final THEN mTransfersMap \ {t} ELSE mTransfersMap
        /\ mTransferStateMap' \in [Transfers -> B!Reports \union {"none"}]
        /\ reports' \in [Transfers -> Seq(B!Reports)] /\ crashed' \in BOOLEAN
        /\ \A u \in Transfers \ {t} :
               /\ mTransferStateMap'[u] = mTransferStateMap[u] /\ reports'[u] = reports[u]
        /\ InCourse(t)'
    BY NotifyKeeps
  <1>3. /\ state'[t] = s /\ \A u \in Transfers \ {t} : state'[u] = state[u]
    BY <1>1, <1>2 DEF BookTyped
  <1>4. BookTyped'
    BY <1>1, <1>2 DEF BookTyped
  <1>5. Pulled(t)'
    BY <1>2, <1>3 DEF Pulled, Follows, B!Final
  <1>6. ASSUME NEW u \in Transfers \ {t}
        PROVE  IF pulled'[u] = "none" THEN NotPulled(u)' ELSE Pulled(u)'
    <2>1. InCourse(u) => InCourse(u)'
      BY <1>2, <1>3 DEF InCourse, B!Final
    <2>2. IF pulled[u] = "none" THEN NotPulled(u) ELSE Pulled(u)
      BY DEF BookInv
    <2> QED
      BY <1>2, <1>3, <2>1, <2>2 DEF NotPulled, Pulled, B!Final
  <1> QED
    BY <1>1, <1>4, <1>5, <1>6 DEF BookInv

LEMMA FetchBook ==
  ASSUME BookInv, NEW t \in Transfers, B!FetchPropertiesReply(t)
  PROVE  BookInv'
  <1>1. BookTyped /\ pulled[t] # "none" /\ Pulled(t)
    BY DEF BookInv, B!FetchPropertiesReply, NotPulled
  <1>2. /\ UNCHANGED <<session, sessions, mObjectPhonebookProxy, calls, pulled, remote>>
        /\ fetching' = fetching \ {t}
    BY DEF B!FetchPropertiesReply, B!callVars
  <1>3. CASE t \in mTransfersMap /\ remote[t] # "gone" /\ B!Notify(t, remote[t])
    <2>1. remote[t] \in B!States /\ UNCHANGED entered
      BY <1>1, <1>3 DEF BookTyped, B!FetchPropertiesReply
    <2>2. Follows(state[t], remote[t])
      BY <1>1, <1>3, SuccessorsAre DEF Pulled, Follows
    <2>3. /\ remote' \in [Transfers -> B!States \union {"gone"}]
          /\ fetching' \subseteq fetching
      BY <1>1, <1>2 DEF BookTyped
    <2> QED
      BY <1>1, <1>2, <1>3, <2>1, <2>2, <2>3, NotifiedKeeps
  <1>4. CASE /\ UNCHANGED <<mTransfersMap, state, mTransferStateMap, reports>>
             /\ entered' \subseteq Transfers /\ crashed' \in BOOLEAN
    <2>1. BookTyped'
      BY <1>1, <1>2, <1>4 DEF BookTyped
    <2>2. ASSUME NEW u \in Transfers
          PROVE  IF pulled'[u] = "none" THEN NotPulled(u)' ELSE Pulled(u)'
      <3>1. InCourse(u) => InCourse(u)'
        BY <1>2, <1>4 DEF InCourse
      <3>2. IF pulled[u] = "none" THEN NotPulled(u) ELSE Pulled(u)
        BY DEF BookInv
      <3> QED
        BY <1>2, <1>4, <3>1, <3>2 DEF NotPulled, Pulled
    <2> QED
      BY <2>1, <2>2 DEF BookInv
  <1>5. \/ t \in mTransfersMap /\ remote[t] # "gone" /\ B!Notify(t, remote[t])
        \/ /\ UNCHANGED <<mTransfersMap, state, mTransferStateMap, reports>>
           /\ entered' \subseteq Transfers /\ crashed' \in BOOLEAN
    BY <1>1 DEF B!FetchPropertiesReply, B!objectVars, BookTyped
  <1> QED
    BY <1>3, <1>4, <1>5

LEMMA ChangedBook ==
  ASSUME BookInv, NEW t \in Transfers, NEW s \in B!States, B!HandlePropertiesChanged(t, s)
  PROVE  BookInv'
  <1>1. /\ UNCHANGED <<session, sessions, mObjectPhonebookProxy, calls, pulled, fetching>>
        /\ UNCHANGED entered /\ remote' = [remote EXCEPT ![t] = s] /\ B!Notify(t, s)
        /\ remote[t] \in {"queued", "active", "suspended"} /\ s \in B!Successors[remote[t]]
    BY SuccessorsAre DEF B!HandlePropertiesChanged, B!callVars
  <1>2. BookTyped /\ pulled[t] # "none" /\ Pulled(t)
    BY <1>1 DEF BookInv, NotPulled
  <1>3. t \in mTransfersMap
    BY <1>1, <1>2 DEF Pulled, B!Final
  <1>4. Follows(state[t], s)
    BY <1>1, <1>2, SuccessorsAre DEF Pulled, Follows
  <1>5. /\ remote' \in [Transfers -> B!States \union {"gone"}] /\ remote'[t] = s
        /\ \A u \in Transfers \ {t} : remote'[u] = remote[u]
    BY <1>1, <1>2 DEF BookTyped
  <1> QED
    BY <1>1, <1>2, <1>3, <1>4, <1>5, NotifiedKeeps

LEMMA BookNext == BookInv /\ [B!Next]_(B!vars) => BookInv'
  <1> SUFFICES ASSUME BookInv, [B!Next]_(B!vars)
               PROVE  BookInv'
    OBVIOUS
  <1>1. BookTyped
    BY DEF BookInv
  <1>2. /\ session \in [Devices -> 0..MaxSessions] /\ sessions \in 0..MaxSessions
        /\ mObjectPhonebookProxy \in 0..MaxSessions
        /\ calls \subseteq [kind : B!Kinds, on : 1..MaxSessions]
        /\ entered \subseteq Transfers /\ crashed \in BOOLEAN
    BY <1>1 DEF BookTyped
  <1>3. CASE UNCHANGED B!vars
    BY <1>2, <1>3, BookRests DEF B!vars, B!callVars, B!objectVars
  <1>4. ASSUME NEW c \in calls, B!CallReply(c)
        PROVE  BookInv'
    <2>1. /\ calls' \subseteq calls
          /\ UNCHANGED <<session, sessions, mObjectPhonebookProxy, entered, crashed>>
      BY <1>4 DEF B!CallReply, B!Answered
    <2>2. ASSUME NEW t \in Transfers, B!StartTransfer(c.kind, t), c.kind \in B!Pulls
          PROVE  BookInv'
      BY <2>1, <2>2, StartKeeps
    <2>3. CASE UNCHANGED <<pulled, remote, B!objectVars, fetching>>
      BY <1>2, <2>1, <2>3, BookRests DEF B!objectVars
    <2> QED
      BY <1>4, <2>2, <2>3 DEF B!CallReply
  <1>5. CASE B!StopObexd
    <2>1. /\ session' = [d \in Devices |-> 0]
          /\ remote' = [t \in Transfers |->
                           IF remote[t] \in DOMAIN B!Successors THEN "gone" ELSE remote[t]]
          /\ UNCHANGED <<sessions, mObjectPhonebookProxy, calls, pulled, fetching, entered>>
          /\ UNCHANGED <<mTransfersMap, state, mTransferStateMap, reports, crashed>>
      BY <1>5 DEF B!StopObexd, B!objectVars
    <2>2. MaxSessions \in Nat
      BY ProfilesAssumption DEF ProfilesAssumption, B!PhonebookAssumption
    <2>3. session' \in [Devices -> 0..MaxSessions]
      BY <2>1, <2>2
    <2>4. remote' \in [Transfers -> B!States \union {"gone"}]
      BY <1>1, <2>1 DEF BookTyped
    <2>5. BookTyped'
      BY <1>1, <2>1, <2>3, <2>4 DEF BookTyped
    <2>6. ASSUME NEW u \in Transfers
          PROVE  IF pulled'[u] = "none" THEN NotPulled(u)' ELSE Pulled(u)'
      <3>1. InCourse(u) => InCourse(u)'
        BY <2>1 DEF InCourse
      <3>2. IF pulled[u] = "none" THEN NotPulled(u) ELSE Pulled(u)
        BY DEF BookInv
      <3>3. \/ remote'[u] = remote[u]
            \/ remote[u] \in {"queued", "active", "suspended"} /\ remote'[u] = "gone"
        BY <2>1, SuccessorsAre
      <3>4. remote[u] = "inactive" => remote'[u] = "inactive"
        BY <3>3
      <3> QED
        BY <2>1, <3>1, <3>2, <3>3, <3>4 DEF NotPulled, Pulled, B!Final
    <2> QED
      BY <2>5, <2>6 DEF BookInv
  <1>6. ASSUME NEW t \in Transfers, B!FetchPropertiesReply(t)
        PROVE  BookInv'
    BY <1>6, FetchBook
  <1>7. ASSUME NEW t \in Transfers, NEW s \in B!States, B!HandlePropertiesChanged(t, s)
        PROVE  BookInv'
    BY <1>7, ChangedBook
  <1> QED
    BY <1>3, <1>4, <1>5, <1>6, <1>7, SessionsRest DEF B!Next

LEMMA BookAlways == Spec => []BookInv
  <1>1. Init => BookInv
    BY BookInit DEF Init
  <1>2. BookInv /\ [Next]_vars => BookInv'
    <2> SUFFICES ASSUME BookInv, [Next]_vars
                 PROVE  BookInv'
      OBVIOUS
    <2>1. B!Next \/ UNCHANGED bookVars
      BY DEF Next, ObexNext, vars, obexVars
    <2>2. [B!Next]_(B!vars)
      BY <2>1 DEF bookVars, B!vars, B!callVars, B!objectVars
    <2> QED
      BY <2>2, BookNext
  <1> QED
    BY <1>1, <1>2, PTL DEF Spec

\* What the course is called for a client that follows it: no state is told twice, a
\* final one comes last, "completed" after "active" alone, and the last told is e.
Ordered(t, e) ==
  /\ B!IsInjective(t)
  /\ \A i \in DOMAIN t : t[i] \in {"completed", "error"} =>
        i = Len(t) /\ (t[i] = "completed" /\ i > 1 => t[i - 1] = "active")
  /\ t # <<>> => B!Last(t) = e

\* A course of one report, of two and of three.
LEMMA OneReport ==
  ASSUME NEW a
  PROVE  Ordered(<<a>>, a)
  <1> DEFINE t == <<a>>
  <1>1. DOMAIN t = {1} /\ Len(t) = 1 /\ t[1] = a
    OBVIOUS
  <1> HIDE DEF t
  <1>2. Ordered(t, a)
    BY <1>1 DEF Ordered, B!IsInjective, B!Last
  <1> QED
    BY <1>2 DEF t

LEMMA TwoReports ==
  ASSUME NEW a, NEW b, a # b, a \notin {"completed", "error"},
         b = "completed" => a = "active"
  PROVE  Ordered(<<a, b>>, b)
  <1> DEFINE t == <<a, b>>
  <1>1. DOMAIN t = {1, 2} /\ Len(t) = 2 /\ t[1] = a /\ t[2] = b
    OBVIOUS
  <1> HIDE DEF t
  <1>2. B!IsInjective(t)
    BY <1>1 DEF B!IsInjective
  <1>3. \A i \in DOMAIN t : t[i] \in {"completed", "error"} =>
           i = Len(t) /\ (t[i] = "completed" /\ i > 1 => t[i - 1] = "active")
    BY <1>1
  <1>4. B!Last(t) = b
    BY <1>1 DEF B!Last
  <1>5. Ordered(t, b)
    BY <1>2, <1>3, <1>4 DEF Ordered
  <1> QED
    BY <1>5 DEF t

LEMMA ThreeReports ==
  ASSUME NEW a, NEW b, NEW c, a # b, a # c, b # c,
         a \notin {"completed", "error"}, b \notin {"completed", "error"},
         c = "completed" => b = "active"
  PROVE  Ordered(<<a, b, c>>, c)
  <1> DEFINE t == <<a, b, c>>
  <1>1. DOMAIN t = {1, 2, 3} /\ Len(t) = 3 /\ t[1] = a /\ t[2] = b /\ t[3] = c
    OBVIOUS
  <1> HIDE DEF t
  <1>2. B!IsInjective(t)
    BY <1>1 DEF B!IsInjective
  <1>3. \A i \in DOMAIN t : t[i] \in {"completed", "error"} =>
           i = Len(t) /\ (t[i] = "completed" /\ i > 1 => t[i - 1] = "active")
    BY <1>1
  <1>4. B!Last(t) = c
    BY <1>1 DEF B!Last
  <1>5. Ordered(t, c)
    BY <1>2, <1>3, <1>4 DEF Ordered
  <1> QED
    BY <1>5 DEF t

\* A course is one the client can follow.
LEMMA CourseIsOrdered ==
  ASSUME NEW s \in B!States, NEW t \in Courses(s)
  PROVE  Ordered(t, B!StateString[s])
  <1>1. CASE s = "inactive"
    <2>1. t = <<>>
      BY <1>1 DEF Courses
    <2>2. DOMAIN t = {}
      BY <2>1
    <2> QED
      BY <2>1, <2>2 DEF Ordered, B!IsInjective
  <1>2. CASE s = "queued"
    <2>1. t = <<"idle">> /\ B!StateString[s] = "idle"
      BY <1>2, StatesAre DEF Courses
    <2> QED
      BY <2>1, OneReport
  <1>3. CASE s \in {"active", "suspended"}
    <2>1. t = <<"active">> \/ t = <<"idle", "active">>
      BY <1>3 DEF Courses
    <2>2. B!StateString[s] = "active"
      BY <1>3, StatesAre
    <2> QED
      BY <2>1, <2>2, OneReport, TwoReports
  <1>4. CASE s = "complete"
    <2>1. t = <<"completed">> \/ t = <<"active", "completed">>
          \/ t = <<"idle", "active", "completed">>
      BY <1>4 DEF Courses
    <2>2. B!StateString[s] = "completed"
      BY <1>4, StatesAre
    <2> QED
      BY <2>1, <2>2, OneReport, TwoReports, ThreeReports
  <1>5. CASE s = "error"
    <2>1. t = <<"error">> \/ t = <<"idle", "error">> \/ t = <<"active", "error">>
          \/ t = <<"idle", "active", "error">>
      BY <1>5 DEF Courses
    <2>2. B!StateString[s] = "error"
      BY <1>5, StatesAre
    <2> QED
      BY <2>1, <2>2, OneReport, TwoReports, ThreeReports
  <1> QED
    BY <1>1, <1>2, <1>3, <1>4, <1>5, StatesAre

LEMMA BookFacts == BookInv => B!TypeOK /\ B!TransfersTold
  <1> SUFFICES ASSUME BookInv PROVE B!TypeOK /\ B!TransfersTold
    OBVIOUS
  <1>1. B!TypeOK
    BY DEF BookInv, BookTyped, B!TypeOK
  <1>2. ASSUME NEW t \in Transfers, pulled[t] # "none"
        PROVE  B!Course(t) /\ (t \in mTransfersMap <=> state[t] \notin B!Final)
    <2>1. Pulled(t) /\ state[t] \in B!States
      BY <1>2 DEF BookInv, BookTyped
    <2>2. CASE pulled[t] = "card"
      BY <2>1, <2>2 DEF Pulled, InCourse, B!Course
    <2>3. CASE pulled[t] # "card"
      <3>1. reports[t] \in Courses(state[t])
        BY <2>1, <2>3 DEF Pulled, InCourse
      <3>2. B!Course(t)
        BY <2>1, <2>3, <3>1, CourseIsOrdered DEF Ordered, B!Course
      <3> QED
        BY <2>1, <3>2 DEF Pulled
    <2> QED
      BY <2>2, <2>3
  <1> QED
    BY <1>1, <1>2 DEF B!TransfersTold

(***************************************************************************)
(* All of it, among the profiles.                                          *)
(***************************************************************************)
\* Phone books, remote folders, messages, pushes and the agent they come through: the
\* client sees each transfer take its course, in the folder it named, and knows its
\* sessions and those it lost; obexd is answered once, as the client answered, and asks
\* for each push an agent that can be asked.
THEOREM TransfersKnown == Spec => []TransfersTold
  <1>1. BookInv /\ FilesInv /\ MessageInv /\ PushInv /\ AgentInv => TransfersTold
    BY BookFacts, FilesFacts, MessageFacts, PushFacts, AgentFacts DEF TransfersTold
  <1> QED
    BY <1>1, BookAlways, FilesAlways, MessagesAlways, PushAlways, AgentAlways, PTL

LEMMA MediaTypes == PlayersInv /\ LinksInv => P!TypeOK /\ L!TypeOK
  <1> SUFFICES ASSUME PlayersInv, LinksInv PROVE P!TypeOK /\ L!TypeOK
    OBVIOUS
  <1>1. mAddressedMediaPlayer \in Players \union {NoPlayer}
    BY PlayerFacts DEF PlayersInv, Addressed
  <1>2. P!TypeOK
    BY <1>1 DEF P!TypeOK, PlayersInv
  <1>3. L!TypeOK
    BY DEF L!TypeOK, LinksInv, LinksTyped, Flags
  <1> QED
    BY <1>2, <1>3

\* The type invariant of the profiles, for any limits on ids, addresses, objects,
\* requests, calls and transfers: ids and addresses stay in their ranges when they wrap,
\* a table holds only what is live, and no handler stores an id that was never given.
THEOREM TypeCorrect == Spec => []TypeOK
  <1>1. Spec => [](which \in Components)
    <2>1. Init => which \in Components
      BY DEF Init
    <2>2. which \in Components /\ [Next]_vars => (which \in Components)'
      BY DEF Next, vars
    <2> QED
      BY <2>1, <2>2, PTL DEF Spec
  <1>2. BookInv /\ FilesInv /\ MessageInv /\ PushInv /\ AgentInv
          => B!TypeOK /\ F!TypeOK /\ G!TypeOK /\ U!TypeOK /\ O!TypeOK
    BY BookFacts, FilesFacts, MessageFacts, PushFacts, AgentFacts
  <1>3. ASSUME which \in Components,
               S!TypeOK, A!TypeOK, M!TypeOK, V!TypeOK, C!TypeOK, L!TypeOK, P!TypeOK, B!TypeOK,
               O!TypeOK, U!TypeOK, F!TypeOK, G!TypeOK
        PROVE  TypeOK
    BY <1>3, Zenon DEF TypeOK
  <1>4. ChannelsInv => C!TypeOK
    BY DEF ChannelsInv
  <1> QED
    BY <1>1, <1>2, <1>3, <1>4, MediaTypes, SomeTypes, MeshTypes, ChannelsAlways, PlayersAlways,
       LinksAlways, BookAlways, FilesAlways, MessagesAlways, PushAlways, AgentAlways, PTL
=============================================================================
