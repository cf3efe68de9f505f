---------------------------- MODULE MessageAccess ----------------------------
(***************************************************************************)
(* Messages of remote devices (Bluez5ProfileMap): sessions by device and   *)
(* instance, messages got and pushed with a transfer each, and the         *)
(* notifications of a session.  The transfers are kept by object path and  *)
(* not by id, in a table the removal of a session does not look at.        *)
(*                                                                         *)
(* Session objects and requests are numbered as they are made.  The paths  *)
(* of obexd are made of its own numbers, which begin anew when it starts.  *)
(***************************************************************************)
EXTENDS Naturals, Sequences

CONSTANTS
    Instances,    \* pairs of a device and an instance, as a session key names them
    NoInstance,
    MaxSessions,  \* bound: session objects ever made
    MaxRequests,  \* bound: requests ever made
    NumberGap     \* sessions of other profiles that may come in between

MessageAccessAssumption ==
    /\ NoInstance \notin Instances
    /\ {MaxSessions, MaxRequests, NumberGap} \subseteq Nat

VARIABLES
    mSessions,    \* the session object stored for each instance, or 0
    made,         \* how many were made
    key,          \* the instance each was made for
    number,       \* the number in its path
    open,         \* external: those whose session obexd has
    closing,      \* those the profile closed with calls on them: answers may be on their way
    nextNumber,   \* external: of the next session
    nextTransfer, \* external: of the next transfer
    connected,    \* instances the client was last told are connected
    keyOf,        \* instance it was last told a session id for
    requests,     \* the requests, in the order they were made
    remote,       \* external: state of the transfer of each request
    fetching,     \* requests whose transfer has its first GetAll in flight
    entered,      \* requests whose object was entered after it was deleted
    dead          \* the process has died

sessionVars == <<mSessions, made, key, number, open, closing, nextNumber, connected, keyOf>>
requestVars == <<nextTransfer, requests, remote, fetching, entered>>
vars == <<sessionVars, requestVars, dead>>

Sessions == 1..MaxSessions
RequestIds == 1..MaxRequests
MaxNumber == NumberGap + MaxSessions
Numbers == 0..MaxNumber

\* A transfer has the path of its session and a number.
NoPath == <<>>
Paths == (Numbers \X RequestIds) \union {NoPath}

\* `on' is the session object a request was made with.  A transfer object is in the
\* table ("transfer"), or was kept out of it by another with its path ("unowned").
Request == [kind : {"list", "message"}, on : Sessions,
            stage : {"call", "transfer", "unowned", "ended"},
            results : Nat, last : {"none", "ok", "failed"}, path : Paths]

TypeOK ==
    /\ mSessions \in [Instances -> 0..MaxSessions] /\ made \in 0..MaxSessions
    /\ key \in [Sessions -> Instances \union {NoInstance}]
    /\ number \in [Sessions -> Numbers] /\ nextNumber \in 0..MaxNumber + 1
    /\ {open, closing} \subseteq SUBSET Sessions
    /\ nextTransfer \in 1..MaxRequests + 1
    /\ connected \subseteq Instances
    /\ keyOf \in [Numbers -> Instances \union {NoInstance}]
    /\ requests \in Seq(Request) /\ Len(requests) <= MaxRequests
    /\ remote \in [RequestIds -> {"none", "running", "complete", "error", "gone"}]
    /\ {fetching, entered} \subseteq SUBSET RequestIds
    /\ dead \in BOOLEAN

Init ==
    /\ mSessions = [i \in Instances |-> 0] /\ made = 0
    /\ key = [s \in Sessions |-> NoInstance]
    /\ number = [s \in Sessions |-> 0] /\ nextNumber = 0
    /\ open = {} /\ closing = {}
    /\ nextTransfer = 1
    /\ connected = {} /\ keyOf = [n \in Numbers |-> NoInstance]
    /\ requests = <<>>
    /\ remote = [r \in RequestIds |-> "none"]
    /\ fetching = {} /\ entered = {}
    /\ dead = FALSE

(***************************************************************************)
(* Sessions                                                                *)
(***************************************************************************)
\* connect, through to the callback of createSession: the table keeps a session
\* that it has, and the client is told the id of the new one.
CreateSession(i) ==
    /\ made < MaxSessions
    /\ made' = made + 1
    /\ \E n \in {nextNumber, nextNumber + NumberGap} \intersect Numbers :
          /\ number' = [number EXCEPT ![made + 1] = n]
          /\ nextNumber' = n + 1
          /\ keyOf' = [keyOf EXCEPT ![n] = i]
    /\ key' = [key EXCEPT ![made + 1] = i]
    /\ open' = open \union {made + 1}
    /\ mSessions' = [mSessions EXCEPT ![i] = IF @ = 0 THEN made + 1 ELSE @]
    /\ connected' = connected \union {i}
    /\ UNCHANGED <<closing, requestVars, dead>>

\* A transfer whose session is closed is gone; if obexd still signals its failure,
\* that is HandlePropertiesChanged before.
CloseAtObexd(closed) ==
    /\ open' = open \ closed
    /\ remote' = [r \in RequestIds |->
           IF r \in DOMAIN requests /\ requests[r].on \in closed /\ remote[r] = "running"
           THEN "gone" ELSE remote[r]]

Called(s) == \E r \in DOMAIN requests : requests[r].on = s /\ requests[r].stage = "call"

\* removeFromSessionList: the transfers stay in their table.
Disconnect(i) ==
    /\ mSessions[i] # 0
    /\ mSessions' = [mSessions EXCEPT ![i] = 0]
    /\ connected' = connected \ {i}
    /\ CloseAtObexd({mSessions[i]})
    /\ closing' = closing \union {s \in {mSessions[i]} : Called(s)}
    /\ UNCHANGED <<made, key, number, nextNumber, nextTransfer, keyOf, requests, fetching,
                   entered, dead>>

\* Mutant: the session is removed as disconnect does it, which tells its caller.
LoseSessionUntold(s) ==
    /\ s \in open
    /\ mSessions' = [mSessions EXCEPT ![key[s]] = 0]
    /\ CloseAtObexd({s, mSessions[key[s]]})
    /\ closing' = closing \union {o \in {mSessions[key[s]]} \ {s} : Called(o)}
    /\ dead' \in (IF mSessions[key[s]] = s THEN BOOLEAN ELSE {FALSE})
    /\ UNCHANGED <<made, key, number, nextNumber, nextTransfer, connected, keyOf, requests,
                   fetching, entered>>

\* Its watch removes the session that is stored under its key, this one or not; if
\* this, with the watch that is calling.
LoseSession(s) ==
    /\ s \in open
    /\ mSessions' = [mSessions EXCEPT ![key[s]] = 0]
    /\ connected' = connected \ {key[s]}
    /\ CloseAtObexd({s, mSessions[key[s]]})
    /\ closing' = closing \union {o \in {mSessions[key[s]]} \ {s} : Called(o)}
    /\ dead' \in (IF mSessions[key[s]] = s THEN BOOLEAN ELSE {FALSE})
    /\ UNCHANGED <<made, key, number, nextNumber, nextTransfer, keyOf, requests, fetching,
                   entered>>

\* External: obexd, with no session left, starts again.
RestartObexd ==
    /\ open = {} /\ nextNumber # 0
    /\ nextNumber' = 0 /\ nextTransfer' = 1 /\ closing' = {}
    /\ UNCHANGED <<mSessions, made, key, number, open, connected, keyOf, requests, remote,
                   fetching, entered, dead>>

\* The number is read from a path as one digit.
FirstDigit(n) == IF n < 10 THEN n ELSE n \div 10

\* updateProperties: the instance the client takes a message that a session, stored
\* or not, notifies of to be of.
Notified(s) == keyOf[FirstDigit(number[s])]

(***************************************************************************)
(* Requests                                                                *)
(***************************************************************************)
Ask(kind, i) ==
    /\ mSessions[i] # 0 /\ Len(requests) < MaxRequests
    /\ requests' = Append(requests, [kind |-> kind, on |-> mSessions[i], stage |-> "call",
                                     results |-> 0, last |-> "none", path |-> NoPath])
    /\ UNCHANGED <<sessionVars, nextTransfer, remote, fetching, entered, dead>>

GetMessageList(i) == Ask("list", i)
GetMessage(i) == Ask("message", i)
PushMessage(i) == Ask("message", i)

Told(request, result, stage) ==
    [request EXCEPT !.stage = stage, !.results = @ + 1, !.last = result]

CallError(r) ==
    /\ requests[r].stage = "call"
    /\ requests' = [requests EXCEPT ![r] = Told(@, "failed", "ended")]
    /\ UNCHANGED <<sessionVars, nextTransfer, remote, fetching, entered, dead>>

\* The transfer objects in the table with a path.
Stored(p) == {q \in DOMAIN requests : requests[q].stage = "transfer" /\ requests[q].path = p}

\* A list is told at once; a message has a transfer, whose object the table takes if
\* it has none with the path.
CallReply(r) ==
    /\ requests[r].stage = "call" /\ requests[r].on \in open \union closing
    /\ IF requests[r].kind = "list"
       THEN /\ requests' = [requests EXCEPT ![r] = Told(@, "ok", "ended")]
            /\ UNCHANGED <<nextTransfer, remote, fetching>>
       ELSE LET p == <<number[requests[r].on], nextTransfer>>
            IN  /\ requests' = [requests EXCEPT
                       ![r].path = p,
                       ![r].stage = IF Stored(p) = {} THEN "transfer" ELSE "unowned"]
                /\ nextTransfer' = nextTransfer + 1
                /\ remote' = [remote EXCEPT ![r] =
                       IF requests[r].on \in open THEN "running" ELSE "gone"]
                /\ fetching' = fetching \union {r}
    /\ UNCHANGED <<sessionVars, entered, dead>>

(***************************************************************************)
(* Transfers                                                               *)
(***************************************************************************)
\* updateActiveTransfer and updatePushTransfer of the objects `ids' with a path: at
\* an end the client is told, and what is in the table is deleted, whose destructor
\* tells of a failure if another object heard of the end first.
Update(ids, p, s) ==
    \E tableFirst \in BOOLEAN :
        LET ended == Stored(p)
            Heard(r) == r \in ids /\ (r \in ended /\ ids # {r} => tableFirst)
        IN  requests' = [r \in DOMAIN requests |->
                IF s = "running" \/ r \notin ids \union ended THEN requests[r]
                ELSE Told(requests[r], IF Heard(r) /\ s = "complete" THEN "ok" ELSE "failed",
                          IF r \in ended THEN "ended" ELSE requests[r].stage)]

HasObject(r) == requests[r].stage \in {"transfer", "unowned"}

\* Objects that were deleted are entered, which the process may die of.
Enter(ids) ==
    /\ entered' = entered \union ids
    /\ dead' \in (IF ids = {} THEN {FALSE} ELSE BOOLEAN)

\* With "running" nothing is told, as after an error.
FetchPropertiesReply(r) ==
    /\ r \in fetching
    /\ fetching' = fetching \ {r}
    /\ IF HasObject(r)
       THEN /\ \E s \in {"running"} \union ({remote[r]} \ {"gone"}) :
                  Update({r}, requests[r].path, s)
            /\ UNCHANGED <<entered, dead>>
       ELSE Enter({r}) /\ UNCHANGED requests
    /\ UNCHANGED <<sessionVars, nextTransfer, remote>>

\* The signal goes to every object of the path, one left of an obexd before this
\* one included, and to the deleted ones whose proxy a pending GetAll keeps alive.
HandlePropertiesChanged(r, s) ==
    LET onPath == {q \in DOMAIN requests : requests[q].path = requests[r].path}
    IN  /\ remote[r] = "running"
        /\ remote' = [remote EXCEPT ![r] = s]
        /\ Update({q \in onPath : HasObject(q)}, requests[r].path, s)
        /\ Enter({q \in onPath \intersect fetching : ~HasObject(q)})
        /\ UNCHANGED <<sessionVars, nextTransfer, fetching>>

Next ==
    /\ ~dead
    /\ \/ \E i \in Instances :
             \/ CreateSession(i) \/ Disconnect(i)
             \/ GetMessageList(i) \/ GetMessage(i) \/ PushMessage(i)
       \/ \E s \in Sessions : LoseSession(s)
       \/ RestartObexd
       \/ \E r \in DOMAIN requests :
             \/ CallReply(r) \/ CallError(r)
             \/ FetchPropertiesReply(r)
             \/ \E s \in {"complete", "error"} : HandlePropertiesChanged(r, s)

Spec == Init /\ [][Next]_vars

(***************************************************************************)
(* Properties.                                                             *)
(***************************************************************************)
\* An earlier transfer had the path of this one, or a later one has.
SharesPath(r) ==
    requests[r].path # NoPath /\ \E q \in DOMAIN requests \ {r} : requests[q].path = requests[r].path

\* Disconnects and losses of sessions, stored or not, tell the client of every
\* change of the table and no other; a request is told of once and as it ended,
\* unless its object was entered after it was deleted or another had its path; and
\* a notification is told under an id the client knows the instance by, if that has
\* one digit.
MessagesTold ==
    /\ connected = {i \in Instances : mSessions[i] # 0}
    /\ \A i \in connected : mSessions[i] \in open /\ key[mSessions[i]] = i
    /\ \A r \in DOMAIN requests \ entered : ~SharesPath(r) =>
          /\ requests[r].results = IF requests[r].stage = "ended" THEN 1 ELSE 0
          /\ requests[r].path # NoPath =>
                /\ requests[r].stage = "ended" <=> remote[r] \in {"complete", "error"}
                /\ requests[r].last = "ok" <=> remote[r] = "complete"
    /\ \A s \in open : Notified(s) # key[s] => number[s] > 9
=============================================================================
