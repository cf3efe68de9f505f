-------------------------------- MODULE Push --------------------------------
(***************************************************************************)
(* Files other devices push (Bluez5ProfileOpp): the agent's request is     *)
(* kept in one place for all pushes until the client answers, and the      *)
(* transfer of a push that was accepted is followed as any other.          *)
(*                                                                         *)
(* A push stands for the path of its transfer, for the invocation obexd    *)
(* waits on, and for the id it was offered under: each is made once.       *)
(* cancelTransfer is Obex's: here it would delete a transfer as Disconnect *)
(* does.                                                                   *)
(***************************************************************************)
EXTENDS Naturals, Sequences

CONSTANTS
    Senders,   \* remote devices
    MaxPushes, \* bound: pushes asked for
    MaxBytes   \* bound: size of a file

PushAssumption == MaxPushes \in Nat /\ MaxBytes \in Nat

\* Numbered as they are asked for.
Pushes == 1..MaxPushes
NoPush == 0

VARIABLES
    from,               \* external: the senders of the pushes asked for
    verdict,            \* external: what obexd was answered for each push
    file,               \* external: [state, bytes] of each transfer at obexd
    mInvocation,        \* the request kept
    mTransferObjPath,   \* the path kept
    replies,            \* how often each invocation was answered
    answer,             \* what the client was asked and has answered, per id
    crossed,            \* pushes of an answer given when another's path was kept
    mSessions,          \* whose session is in the table, per sender
    leaked,             \* senders with a session object that is not in the table
    mTransfers,         \* ids with a transfer object
    path,               \* that of the object, or NoPush
    transfer,           \* [state, bytes] of the object, and what was told of it
    fetching,           \* ids whose first GetAll is in flight
    entered,            \* ids whose object was entered after it was deleted
    dead                \* the process has died

requestVars == <<from, verdict, mInvocation, mTransferObjPath, replies, answer, crossed>>
sessionVars == <<mSessions, leaked>>
transferVars == <<mTransfers, path, transfer>>
callVars == <<fetching, entered>>
vars == <<requestVars, file, sessionVars, transferVars, callVars, dead>>

\* States of Bluez5ObexTransfer, of which nobody is told of the first three
\* (inactive, queued, suspended), here "waiting"; at obexd a transfer may also have
\* been removed, or its session with it.
Ended == {"complete", "error"}
States == {"waiting", "active"} \union Ended
Removed == {"gone", "closed"}

\* `reported' is the entry of mTransfersMap, `told' the sum of what the client heard.
NewTransfer == [state |-> "waiting", bytes |-> 0, reported |-> 0, told |-> 0, finished |-> 0]

TypeOK ==
    /\ from \in Seq(Senders) /\ Len(from) <= MaxPushes
    /\ verdict \in [Pushes -> {"none", "accepted", "rejected", "withdrawn"}]
    /\ file \in [Pushes -> [state : States \union Removed, bytes : 0..MaxBytes]]
    /\ {mInvocation, mTransferObjPath} \subseteq Pushes \union {NoPush}
    /\ replies \in [Pushes -> 0..2]
    /\ answer \in [Pushes -> {"unasked", "none", "yes", "no"}]
    /\ mSessions \in [Senders -> {"none", "push", "client"}]
    /\ leaked \subseteq Senders
    /\ path \in [Pushes -> Pushes \union {NoPush}]
    /\ transfer \in [Pushes -> [state : States, bytes : 0..MaxBytes,
                                reported : 0..MaxBytes, told : 0..MaxBytes, finished : 0..1]]
    /\ {crossed, mTransfers, fetching, entered} \subseteq SUBSET Pushes
    /\ dead \in BOOLEAN

Init ==
    /\ from = <<>>
    /\ verdict = [p \in Pushes |-> "none"]
    /\ file = [p \in Pushes |-> [state |-> "waiting", bytes |-> 0]]
    /\ mInvocation = NoPush /\ mTransferObjPath = NoPush
    /\ replies = [p \in Pushes |-> 0]
    /\ answer = [p \in Pushes |-> "unasked"]
    /\ crossed = {}
    /\ mSessions = [d \in Senders |-> "none"] /\ leaked = {}
    /\ mTransfers = {}
    /\ path = [p \in Pushes |-> NoPush]
    /\ transfer = [p \in Pushes |-> NewTransfer]
    /\ fetching = {} /\ entered = {}
    /\ dead = FALSE

(***************************************************************************)
(* Transfers and their reports                                             *)
(***************************************************************************)
\* resultCallBack: the bytes since the last report, and whether this is the end.
\* That it is an error is not passed on.
Report(t) ==
    [t EXCEPT !.told = @ + t.bytes - t.reported,
              !.finished = @ + IF t.state = "complete" THEN 1 ELSE 0,
              !.reported = IF t.state = "complete" THEN 0 ELSE t.bytes]

\* A transfer that is complete without a byte does not count as one.
Final(t) == t.state = "error" \/ (t.state = "complete" /\ t.bytes > 0)

\* updateFromProperties and updateActiveTransfer.
Update(ids, f) ==
    LET Updated(t) == [t EXCEPT !.state = f.state, !.bytes = f.bytes]
    IN  /\ transfer' = [i \in Pushes |->
               LET t == Updated(transfer[i])
               IN  IF i \notin ids THEN transfer[i]
                   ELSE IF Final(t) \/ t.state = "active" THEN Report(t) ELSE t]
        /\ mTransfers' = {i \in mTransfers : i \in ids => ~Final(Updated(transfer[i]))}

\* The destructor of one that has not ended reports it as failed.
Delete(ids) ==
    /\ mTransfers' = mTransfers \ ids
    /\ transfer' = [i \in Pushes |->
           IF i \in ids /\ transfer[i].state \notin Ended
           THEN Report([transfer[i] EXCEPT !.state = "error"]) ELSE transfer[i]]

\* removeSession of what is in the table; the transfers of a session of the
\* client's own are not followed here.
RemoveSession(d) ==
    /\ mSessions' = [mSessions EXCEPT ![d] = "none"]
    /\ IF mSessions[d] = "push"
       THEN Delete({i \in mTransfers : from[path[i]] = d /\ file[path[i]].state # "closed"})
       ELSE UNCHANGED <<mTransfers, transfer>>

(***************************************************************************)
(* Requests                                                                *)
(***************************************************************************)
Asked(p, d) == p = Len(from) + 1 /\ from' = Append(from, d)

\* obexd takes a reply as its verdict if it still waits for one.
ReplyWith(p, v) ==
    /\ replies' = [replies EXCEPT ![p] = @ + 1]
    /\ verdict' = [verdict EXCEPT ![p] = IF @ = "none" THEN v ELSE @]
    /\ file' = IF v = "rejected" /\ file[p].state # "closed"
               THEN [file EXCEPT ![p].state = "gone"] ELSE file

\* The agent asks obexd about the push in vain.
AgentRejects(p, d) ==
    /\ Asked(p, d) /\ ReplyWith(p, "rejected")
    /\ UNCHANGED <<mInvocation, mTransferObjPath, answer, crossed, sessionVars, transferVars,
                   callVars, dead>>

\* There is no adapter of the address.
AgentFindsNoAdapter(p, d) ==
    /\ Asked(p, d)
    /\ dead' = TRUE
    /\ UNCHANGED <<verdict, mInvocation, mTransferObjPath, replies, answer, crossed, file,
                   sessionVars, transferVars, callVars>>

\* The profile does, or does not know the device: another push's invocation is
\* forgotten, and its path replaced.
Refuse(p, d) ==
    /\ Asked(p, d) /\ ReplyWith(p, "rejected")
    /\ mInvocation' = NoPush /\ mTransferObjPath' = p
    /\ UNCHANGED <<answer, crossed, sessionVars, transferVars, callVars, dead>>

\* A file without a name gets no answer at all; destroySession asks obexd to remove
\* a session that is not one of its client's, which it does not.
LeaveUnanswered(p, d) ==
    /\ Asked(p, d)
    /\ mInvocation' = p /\ mTransferObjPath' = p
    /\ UNCHANGED <<verdict, replies, answer, crossed, file, sessionVars, transferVars, callVars,
                   dead>>

\* transferConfirmationRequested, with a session object for each push; the table
\* takes the first.
Offer(p, d) ==
    /\ Asked(p, d)
    /\ mInvocation' = p /\ mTransferObjPath' = p
    /\ answer' = [answer EXCEPT ![p] = "none"]
    /\ IF mSessions[d] = "none" THEN mSessions' = [mSessions EXCEPT ![d] = "push"] /\ UNCHANGED leaked
       ELSE leaked' = leaked \union {d} /\ UNCHANGED mSessions
    /\ UNCHANGED <<verdict, replies, crossed, file, transferVars, callVars, dead>>

\* External: obexd waits no longer; handleCancel changes nothing.
Withdraw(p) ==
    /\ p \in DOMAIN from /\ verdict[p] = "none"
    /\ verdict' = [verdict EXCEPT ![p] = "withdrawn"]
    /\ file' = [file EXCEPT ![p].state = "gone"]
    /\ UNCHANGED <<from, mInvocation, mTransferObjPath, replies, answer, crossed, sessionVars,
                   transferVars, callVars, dead>>

\* Mutant: the request is kept after it was answered.
ReplyToKeptAgain(v) ==
    /\ UNCHANGED mInvocation
    /\ IF mInvocation = NoPush THEN UNCHANGED <<verdict, replies, file>>
       ELSE ReplyWith(mInvocation, v)

\* The request that is kept is answered, whichever id the client names.
ReplyToKept(v) ==
    /\ mInvocation' = NoPush
    /\ IF mInvocation = NoPush THEN UNCHANGED <<verdict, replies, file>>
       ELSE ReplyWith(mInvocation, v)

SupplyTransferConfirmation(id, accept) ==
    /\ answer[id] = "none"
    /\ answer' = [answer EXCEPT ![id] = IF accept THEN "yes" ELSE "no"]
    /\ crossed' = IF mTransferObjPath = id THEN crossed ELSE crossed \union {id, mTransferObjPath}
    /\ IF accept
       THEN /\ ReplyToKept("accepted")
            /\ path' = [path EXCEPT ![id] = mTransferObjPath]
            /\ mTransfers' = mTransfers \union {id}
            /\ fetching' = fetching \union {id}
       ELSE ReplyToKept("rejected") /\ UNCHANGED <<path, mTransfers, fetching>>
    /\ UNCHANGED <<from, mTransferObjPath, sessionVars, transfer, entered, dead>>

(***************************************************************************)
(* What happens to the transfers                                           *)
(***************************************************************************)
Enter(ids) ==
    /\ entered' = entered \union ids
    /\ dead' \in (IF ids = {} THEN {FALSE} ELSE BOOLEAN)

FetchPropertiesReply(id) ==
    /\ id \in fetching
    /\ fetching' = fetching \ {id}
    /\ \/ file[path[id]].state \notin Removed /\ Update({id} \intersect mTransfers, file[path[id]])
       \/ UNCHANGED <<mTransfers, transfer>>
    /\ Enter({id} \ mTransfers)
    /\ UNCHANGED <<requestVars, file, sessionVars, path>>

\* obexd signals a state, or bytes, to every object of the path, and to those
\* deleted whose proxy the pending GetAll keeps alive.
HandlePropertiesChanged(p, f) ==
    /\ verdict[p] = "accepted" /\ file[p].state \notin Ended \union Removed
    /\ f.bytes >= file[p].bytes /\ f # file[p]
    /\ f.bytes > file[p].bytes => "active" \in {file[p].state, f.state}
    /\ file' = [file EXCEPT ![p] = f]
    /\ Update({i \in mTransfers : path[i] = p}, f)
    /\ Enter({i \in fetching \ mTransfers : path[i] = p})
    /\ UNCHANGED <<requestVars, sessionVars, path, fetching>>

(***************************************************************************)
(* Sessions                                                                *)
(***************************************************************************)
\* The client connects to the sender.
ClientConnected(d) ==
    /\ mSessions[d] = "none"
    /\ mSessions' = [mSessions EXCEPT ![d] = "client"]
    /\ UNCHANGED <<requestVars, file, leaked, transferVars, callVars, dead>>

\* The client disconnects it, or its own session is lost, in the table or not.
Disconnect(d) ==
    /\ mSessions[d] # "none"
    /\ RemoveSession(d)
    /\ UNCHANGED <<requestVars, file, leaked, path, callVars, dead>>

\* The sender goes, with the session of its pushes: every session object made for
\* it takes down what is in the table, the one there with the watch that calls.
LoseSession(d) ==
    LET ofSession == {p \in DOMAIN from : from[p] = d /\ file[p].state # "closed"}
    IN  /\ ofSession # {}
        /\ file' = [p \in Pushes |-> IF p \in ofSession THEN [file[p] EXCEPT !.state = "closed"]
                                     ELSE file[p]]
        /\ verdict' = [p \in Pushes |-> IF p \in ofSession /\ verdict[p] = "none" THEN "withdrawn"
                                        ELSE verdict[p]]
        /\ IF mSessions[d] = "push" \/ d \in leaked THEN RemoveSession(d)
           ELSE UNCHANGED <<mSessions, mTransfers, transfer>>
        /\ leaked' = leaked \ {d}
        /\ dead' \in (IF mSessions[d] = "push" THEN BOOLEAN ELSE {FALSE})
        /\ UNCHANGED <<from, mInvocation, mTransferObjPath, replies, answer, crossed, path,
                       callVars>>

Next ==
    /\ ~dead
    /\ \/ \E p \in Pushes, d \in Senders :
             \/ AgentRejects(p, d) \/ AgentFindsNoAdapter(p, d)
             \/ Refuse(p, d) \/ LeaveUnanswered(p, d) \/ Offer(p, d)
       \/ \E p \in Pushes :
             \/ Withdraw(p) \/ FetchPropertiesReply(p)
             \/ \E yes \in BOOLEAN : SupplyTransferConfirmation(p, yes)
             \/ \E f \in [state : States, bytes : 0..MaxBytes] : HandlePropertiesChanged(p, f)
       \/ \E d \in Senders : ClientConnected(d) \/ Disconnect(d) \/ LoseSession(d)

Spec == Init /\ [][Next]_vars

(***************************************************************************)
(* Properties.                                                             *)
(***************************************************************************)
\* What the client is told under an id adds up to the bytes that have come of the
\* push that is followed under it, and it is told of an end once, when the push is
\* complete.  Until its end it has an object, and none after.
AddsUp(id) ==
    LET t == transfer[id]
    IN  /\ IF Final(t) \/ t.state = "active" THEN t.told = t.bytes ELSE t.told <= t.bytes
        /\ t.finished = 1 <=> t.state = "complete" /\ t.bytes > 0
        /\ id \in mTransfers => path[id] # NoPush /\ ~Final(t)
        /\ path[id] # NoPush /\ t.state \notin Ended => id \in mTransfers

\* obexd is answered as the client answered, and what is followed under an id is
\* the push that was offered under it, unless another came before the answer.
AnsweredAsSaid(id) ==
    /\ answer[id] = "yes" => path[id] = id /\ verdict[id] \in {"accepted", "withdrawn"}
    /\ answer[id] = "no" => verdict[id] \in {"rejected", "withdrawn"}
    /\ answer[id] = "none" => verdict[id] \in {"none", "withdrawn"}

\* Every invocation is answered once at most, and whatever obexd was let to take,
\* the client has taken, under one id or another, and is followed.
PushesTold ==
    \A p \in Pushes :
        /\ p \notin entered => AddsUp(p)
        /\ p \notin crossed => AnsweredAsSaid(p)
        /\ replies[p] <= 1
        /\ verdict[p] = "accepted" => \E id \in Pushes : answer[id] = "yes" /\ path[id] = p
=============================================================================
