---------------------------- MODULE FileTransfer ----------------------------
(***************************************************************************)
(* Remote folders and files (Bluez5ProfileFtp): each request changes the   *)
(* folder of the device's session, and when that is answered lists it, or  *)
(* gets or puts a file, which a transfer object then follows.              *)
(*                                                                         *)
(* Everything is kept by device, and no request of one touches another's:  *)
(* the model has one.  Its sessions and requests are numbered as they are  *)
(* made.  obexd answers the calls on a session in their order.             *)
(***************************************************************************)
EXTENDS Naturals, Sequences, SequencesExt

CONSTANTS
    Folders,
    NoFolder,
    MaxSessions,  \* bound: sessions ever made
    MaxRequests   \* bound: requests ever made

FileTransferAssumption ==
    NoFolder \notin Folders /\ MaxSessions \in Nat /\ MaxRequests \in Nat

VARIABLES
    mSessions,   \* the session in the table, or 0
    made,        \* how many were made
    open,        \* external: those obexd has
    closing,     \* those the profile closed with calls on them: answers may be on their way
    folder,      \* external: the folder each is in
    queue,       \* external: requests whose calls wait at obexd, by session
    requests,    \* the requests, in the order they were made
    remote,      \* external: state of the transfer of each request
    fetching,    \* requests whose transfer has its first GetAll in flight
    cancelling,  \* requests with a Cancel in flight
    entered,     \* requests whose object was entered after it was deleted
    dead         \* the process has died

sessionVars == <<mSessions, made, open, closing>>
callVars == <<fetching, cancelling, entered>>
vars == <<sessionVars, folder, queue, requests, remote, callVars, dead>>

Sessions == 1..MaxSessions
RequestIds == 1..MaxRequests
Kinds == {"list", "file"}

\* `asked' is the folder the client named, `seen' the one its call was made in;
\* `alone' that no other request had a call on the session with it.
Request == [kind : Kinds, on : Sessions, asked : Folders, seen : Folders \union {NoFolder},
            stage : {"change", "call", "transfer", "ended"}, results : 0..2, alone : BOOLEAN]

TypeOK ==
    /\ mSessions \in 0..MaxSessions /\ made \in 0..MaxSessions
    /\ {open, closing} \subseteq SUBSET Sessions
    /\ folder \in [Sessions -> Folders \union {NoFolder}]
    /\ queue \in [Sessions -> Seq(RequestIds)]
    /\ requests \in Seq(Request) /\ Len(requests) <= MaxRequests
    /\ remote \in [RequestIds -> {"none", "running", "complete", "error", "gone"}]
    /\ {fetching, cancelling, entered} \subseteq SUBSET RequestIds
    /\ dead \in BOOLEAN

Init ==
    /\ mSessions = 0 /\ made = 0 /\ open = {} /\ closing = {}
    /\ folder = [s \in Sessions |-> NoFolder]
    /\ queue = [s \in Sessions |-> <<>>]
    /\ requests = <<>>
    /\ remote = [r \in RequestIds |-> "none"]
    /\ fetching = {} /\ cancelling = {} /\ entered = {}
    /\ dead = FALSE

\* mTransfers
Transferring == {r \in DOMAIN requests : requests[r].stage = "transfer"}

\* The last callback of a request.
Finish(ids) ==
    requests' = [r \in DOMAIN requests |->
        IF r \in ids THEN [requests[r] EXCEPT !.stage = "ended", !.results = @ + 1]
        ELSE requests[r]]

(***************************************************************************)
(* Sessions                                                                *)
(***************************************************************************)
\* connect, through to the callback of createSession: the table keeps a session
\* that it has.
CreateSession ==
    /\ made < MaxSessions
    /\ made' = made + 1
    /\ open' = open \union {made + 1}
    /\ mSessions' = IF mSessions = 0 THEN made + 1 ELSE mSessions
    /\ UNCHANGED <<closing, folder, queue, requests, remote, callVars, dead>>

CloseAtObexd(closed) ==
    /\ open' = open \ closed
    /\ remote' = [r \in RequestIds |->
           IF r \in DOMAIN requests /\ requests[r].on \in closed /\ remote[r] = "running"
           THEN "gone" ELSE remote[r]]

\* Mutant: the transfers are left in their table.
RemoveSessionOnly(closed) ==
    /\ mSessions # 0
    /\ mSessions' = 0
    /\ CloseAtObexd(closed \union {mSessions})
    /\ closing' = closing \union {s \in {mSessions} \ closed : queue[s] # <<>>}
    /\ requests' = [r \in DOMAIN requests |->
           IF r \in Transferring /\ requests[r].on = mSessions
           THEN [requests[r] EXCEPT !.stage = "ended"] ELSE requests[r]]

\* removeSession deletes the transfers, whose destructors report a failure, and the
\* session, whose destructor closes it at obexd if it is not lost.
RemoveSession(closed) ==
    /\ mSessions # 0
    /\ mSessions' = 0
    /\ Finish({r \in Transferring : requests[r].on = mSessions})
    /\ CloseAtObexd(closed \union {mSessions})
    /\ closing' = closing \union {s \in {mSessions} \ closed : queue[s] # <<>>}

\* disconnect, also after a session could not be created.
Disconnect ==
    /\ RemoveSession({})
    /\ UNCHANGED <<made, folder, queue, callVars, dead>>

\* Its watch takes down the session in the table, this one or not; if this, with
\* the watch that is calling.
LoseSession(s) ==
    /\ s \in open
    /\ IF mSessions = 0 THEN CloseAtObexd({s}) /\ UNCHANGED <<mSessions, closing, requests>>
       ELSE RemoveSession({s})
    /\ dead' \in (IF s = mSessions THEN BOOLEAN ELSE {FALSE})
    /\ UNCHANGED <<made, folder, queue, callVars>>

(***************************************************************************)
(* Requests                                                                *)
(***************************************************************************)
\* A request is alone if no other has a call on the session.
NewRequest(kind, f) ==
    [kind |-> kind, on |-> mSessions, asked |-> f, seen |-> NoFolder, stage |-> "change",
     results |-> 0, alone |-> queue[mSessions] = <<>>]

\* listFolder, pullFile, pushFile: ChangeFolder.
Ask(kind, f) ==
    /\ mSessions # 0 /\ Len(requests) < MaxRequests
    /\ requests' = Append([r \in DOMAIN requests |->
                              [requests[r] EXCEPT !.alone = @ /\ r \notin ToSet(queue[mSessions])]],
                          NewRequest(kind, f))
    /\ queue' = [queue EXCEPT ![mSessions] = Append(@, Len(requests) + 1)]
    /\ UNCHANGED <<sessionVars, folder, remote, callVars, dead>>

ListFolder(f) == Ask("list", f)
PullFile(f) == Ask("file", f)
PushFile(f) == Ask("file", f)

\* The first call that waits is r's.
Answered(s, r) == queue[s] # <<>> /\ r = Head(queue[s])

Dequeue(s) == queue' = [queue EXCEPT ![s] = Tail(@)]

\* Any call may fail; all do when the session is closed.
CallError(s, r) ==
    /\ Answered(s, r)
    /\ Dequeue(s)
    /\ Finish({r})
    /\ UNCHANGED <<sessionVars, folder, remote, callVars, dead>>

\* changeFolderCallback: ListFolder, GetFile or PutFile goes to the end of what
\* waits by now.  If the session was closed after the answer that call fails, as
\* CallError lets the first.
ChangeFolderReply(s, r) ==
    /\ Answered(s, r) /\ requests[r].stage = "change" /\ s \in open
    /\ folder' = [folder EXCEPT ![s] = requests[r].asked]
    /\ requests' = [requests EXCEPT ![r].stage = "call"]
    /\ queue' = [queue EXCEPT ![s] = Append(Tail(@), r)]
    /\ UNCHANGED <<sessionVars, remote, callVars, dead>>

\* A list is told at once; a file has a transfer, which startTransfer follows even
\* if the session has been removed since the answer was sent.
CallReply(s, r) ==
    /\ Answered(s, r) /\ requests[r].stage = "call" /\ s \in open \union closing
    /\ Dequeue(s)
    /\ LET seen == [requests[r] EXCEPT !.seen = folder[s]]
       IN  IF requests[r].kind = "list"
           THEN /\ requests' = [requests EXCEPT ![r] = [seen EXCEPT !.stage = "ended", !.results = @ + 1]]
                /\ UNCHANGED <<remote, fetching>>
           ELSE /\ requests' = [requests EXCEPT ![r] = [seen EXCEPT !.stage = "transfer"]]
                /\ remote' = [remote EXCEPT ![r] = IF s \in open THEN "running" ELSE "gone"]
                /\ fetching' = fetching \union {r}
    /\ UNCHANGED <<sessionVars, folder, cancelling, entered, dead>>

(***************************************************************************)
(* Transfers                                                               *)
(***************************************************************************)
\* updateActiveTransfer: complete and error are told, and are the end.  A deleted
\* object that is entered tells anything, or the process dies.
Update(r, s) ==
    IF r \in Transferring
    THEN /\ IF s = "running" THEN UNCHANGED requests ELSE Finish({r})
         /\ UNCHANGED <<entered, dead>>
    ELSE entered' = entered \union {r} /\ dead' \in BOOLEAN /\ UNCHANGED requests

FetchPropertiesReply(r) ==
    /\ r \in fetching
    /\ fetching' = fetching \ {r}
    /\ \E s \in {"running"} \union ({remote[r]} \ {"gone"}) : Update(r, s)
    /\ UNCHANGED <<sessionVars, folder, queue, remote, cancelling>>

HandlePropertiesChanged(r, s) ==
    /\ remote[r] = "running"
    /\ remote' = [remote EXCEPT ![r] = s]
    /\ IF r \in Transferring \union fetching THEN Update(r, s)
       ELSE UNCHANGED <<requests, entered, dead>>
    /\ UNCHANGED <<sessionVars, folder, queue, fetching, cancelling>>

CancelTransfer(r) ==
    /\ r \in Transferring \ cancelling
    /\ cancelling' = cancelling \union {r}
    /\ UNCHANGED <<sessionVars, folder, queue, requests, remote, fetching, entered, dead>>

\* removeTransfer, if it was cancelled; the reply reads the object.
CancelReply(r, ok) ==
    /\ r \in cancelling
    /\ ok => remote[r] \in {"running", "error"}
    /\ cancelling' = cancelling \ {r}
    /\ remote' = IF ok THEN [remote EXCEPT ![r] = "error"] ELSE remote
    /\ IF ok THEN Finish({r} \intersect Transferring) ELSE UNCHANGED requests
    /\ dead' \in (IF r \in Transferring THEN {FALSE} ELSE BOOLEAN)
    /\ UNCHANGED <<sessionVars, folder, queue, fetching, entered>>

Next ==
    /\ ~dead
    /\ \/ CreateSession \/ Disconnect
       \/ \E f \in Folders : ListFolder(f) \/ PullFile(f) \/ PushFile(f)
       \/ \E s \in Sessions :
             \/ LoseSession(s)
             \/ \E r \in DOMAIN requests :
                   ChangeFolderReply(s, r) \/ CallReply(s, r) \/ CallError(s, r)
       \/ \E r \in DOMAIN requests :
             \/ FetchPropertiesReply(r) \/ CancelTransfer(r)
             \/ \E s \in {"complete", "error"} : HandlePropertiesChanged(r, s)
             \/ \E ok \in BOOLEAN : CancelReply(r, ok)

Spec == Init /\ [][Next]_vars

(***************************************************************************)
(* Properties.                                                             *)
(***************************************************************************)
\* A request gets one result that is its last, whatever fails first of its calls,
\* its transfer and its session, and works in the folder it named, if no other
\* request had a call on the session with it: then it may work in the other's.
FilesTold ==
    \A r \in DOMAIN requests \ entered :
        /\ requests[r].results = IF requests[r].stage = "ended" THEN 1 ELSE 0
        /\ requests[r].alone => requests[r].seen \in {NoFolder, requests[r].asked}
=============================================================================
