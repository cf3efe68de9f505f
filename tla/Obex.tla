-------------------------------- MODULE Obex --------------------------------
(***************************************************************************)
(* OBEX sessions and the files sent over them: the client of obexd         *)
(* (Bluez5ObexClient), the session and transfer objects                    *)
(* (Bluez5ObexSession, Bluez5ObexTransfer) and the profile that owns them  *)
(* (Bluez5ObexProfileBase with pushFile and cancelTransfer of              *)
(* Bluez5ProfileOpp).                                                      *)
(*                                                                         *)
(* Every call to obexd is asynchronous: its reply is a step of its own and *)
(* finds whatever the steps in between have left.  A session stands for    *)
(* its object path, a transfer for its id; the object path of a transfer   *)
(* starts with that of the session it was pushed on.                       *)
(***************************************************************************)
EXTENDS Naturals

CONSTANTS
  Address,      \* remote devices
  Session,      \* object paths of sessions, never used twice by obexd
  Prefix,       \* pairs <<s, t>>: path s is a prefix of path t (session1, session10)
  TransferId,   \* transfer ids, never used twice
  Empty,        \* the transfers whose file has no byte
  NoSession,    \* no session
  MaxCalls,     \* bound: CreateSession calls in flight for one address
  MaxProxyCalls \* bound: creations of the client's proxy in flight

ASSUME ObexAssumption ==
  /\ MaxCalls \in Nat
  /\ MaxProxyCalls \in Nat
  /\ NoSession \notin Session \cup Address
  /\ Prefix \subseteq Session \X Session
  /\ Empty \subseteq TransferId

VARIABLES
  obexd,          \* external: org.bluez.obex has an owner
  open,           \* external: sessions open at obexd
  remote,         \* external: state at obexd of each transfer
  watching,       \* the client watches the name org.bluez.obex
  mClientProxy,   \* the client has a proxy
  proxyCalls,     \* creations of a proxy in flight
  createCalls,    \* CreateSession calls in flight on mClientProxy, by address
  staleCalls,     \* some are in flight on a proxy the client has dropped
  deviceAddress,  \* address of each session object ever made, else NoSession
  live,           \* session objects not deleted
  mLostRemote,    \* session objects told that obexd removed the session
  mSessions,      \* session stored for each address
  connected,      \* addresses the client was last told are connected
  pushedOn,       \* session each transfer was pushed on, NoSession before
  sendCalls,      \* transfers whose SendFile call is in flight
  mTransfers,     \* transfer objects in the table
  mState,         \* state of each transfer object
  mFileSize,      \* transfer objects that know a size other than 0
  fetching,       \* transfers whose first GetAll is in flight
  cancelling,     \* transfers with a Cancel in flight
  results,        \* final results the client got for each transfer
  usedAfterFree,  \* transfers whose object was entered after it was deleted
  crashed         \* the process has died

external == <<obexd, open, remote>>
clientVars == <<watching, mClientProxy, proxyCalls, createCalls, staleCalls>>
sessionVars == <<deviceAddress, live, mLostRemote, mSessions, connected>>
transferVars == <<mTransfers, mState, mFileSize, results>>
callVars == <<pushedOn, sendCalls, fetching, cancelling, usedAfterFree>>
vars == <<external, clientVars, sessionVars, transferVars, callVars, crashed>>

TypeOK ==
  /\ obexd \in BOOLEAN
  /\ open \subseteq Session
  /\ remote \in [TransferId -> {"none", "running", "complete", "error", "gone"}]
  /\ watching \in BOOLEAN
  /\ mClientProxy \in BOOLEAN
  /\ proxyCalls \in 0 .. MaxProxyCalls
  /\ createCalls \in [Address -> 0 .. MaxCalls]
  /\ staleCalls \in BOOLEAN
  /\ deviceAddress \in [Session -> Address \cup {NoSession}]
  /\ live \subseteq Session
  /\ mLostRemote \subseteq Session
  /\ mSessions \in [Address -> Session \cup {NoSession}]
  /\ connected \subseteq Address
  /\ pushedOn \in [TransferId -> Session \cup {NoSession}]
  /\ sendCalls \subseteq TransferId
  /\ mTransfers \subseteq TransferId
  /\ mState \in [TransferId -> {"running", "complete", "error"}]
  /\ mFileSize \subseteq TransferId
  /\ fetching \subseteq TransferId
  /\ cancelling \subseteq TransferId
  /\ results \in [TransferId -> 0 .. 2]
  /\ usedAfterFree \subseteq TransferId
  /\ crashed \in BOOLEAN

Init ==
  /\ obexd \in BOOLEAN
  /\ open = {}
  /\ remote = [i \in TransferId |-> "none"]
  /\ watching = FALSE
  /\ mClientProxy = FALSE
  /\ proxyCalls = 0
  /\ createCalls = [a \in Address |-> 0]
  /\ staleCalls = FALSE
  /\ deviceAddress = [s \in Session |-> NoSession]
  /\ live = {}
  /\ mLostRemote = {}
  /\ mSessions = [a \in Address |-> NoSession]
  /\ connected = {}
  /\ pushedOn = [i \in TransferId |-> NoSession]
  /\ sendCalls = {}
  /\ mTransfers = {}
  /\ mState = [i \in TransferId |-> "running"]
  /\ mFileSize = {}
  /\ fetching = {}
  /\ cancelling = {}
  /\ results = [i \in TransferId |-> 0]
  /\ usedAfterFree = {}
  /\ crashed = FALSE

-----------------------------------------------------------------------------
(* The transfer objects and the table that owns them *)

\* isPartOfSession compares the beginning of the object paths.
PartOfSession(i, s) == pushedOn[i] = s \/ <<s, pushedOn[i]>> \in Prefix

\* Mutant: the destructor does not tell the watcher.
DeleteTransfersSilently(ids) ==
  /\ mTransfers' = mTransfers \ ids
  /\ UNCHANGED <<mState, results>>

\* Deleting transfer objects: the destructor of one that has not come to its end
\* tells the watcher it failed; the watcher finds the entry erased already.
DeleteTransfers(ids) ==
  LET unfinished == {i \in ids : mState[i] = "running"} IN
  /\ mTransfers' = mTransfers \ ids
  /\ mState' = [i \in TransferId |-> IF i \in unfinished THEN "error" ELSE mState[i]]
  /\ results' = [i \in TransferId |-> results[i] + IF i \in unfinished THEN 1 ELSE 0]

\* updateFromProperties followed by updateActiveTransfer.  When a transfer that
\* sends is complete its bytes are set to its size, so with no size it counts as
\* one that has moved nothing: no final result, and it stays in the table.
UpdateTransfer(i, state, size) ==
  LET final == state = "error" \/ (state = "complete" /\ i \in size) IN
  /\ mFileSize' = size
  /\ mState' = [mState EXCEPT ![i] = state]
  /\ mTransfers' = IF final THEN mTransfers \ {i} ELSE mTransfers
  /\ results' = IF final THEN [results EXCEPT ![i] = @ + 1] ELSE results

\* Sessions obexd no longer has take their transfers with them.
CloseAtObexd(closed) ==
  /\ open' = open \ closed
  /\ remote' = [i \in TransferId |->
       IF pushedOn[i] \in closed /\ remote[i] # "none" THEN "gone" ELSE remote[i]]

(* The session objects and the table that owns them *)

\* Mutant: the session is removed as removeFromSessionList does it.
RemoveFromSessionList(a) ==
  LET s == mSessions[a] IN
  /\ mSessions' = [mSessions EXCEPT ![a] = NoSession]
  /\ live' = live \ {s}
  /\ CloseAtObexd(IF mClientProxy THEN {s} ELSE {})
  /\ UNCHANGED <<connected, transferVars>>

\* removeSession.  The destructor of the session closes it at obexd, unless it was
\* lost there (it is not in open then) or the client has no proxy.
RemoveSession(a) ==
  LET s == mSessions[a] IN
  IF s = NoSession
  THEN UNCHANGED <<open, remote, live, mSessions, connected, transferVars>>
  ELSE /\ DeleteTransfers({i \in mTransfers : PartOfSession(i, s)})
       /\ mSessions' = [mSessions EXCEPT ![a] = NoSession]
       /\ connected' = connected \ {a}
       /\ live' = live \ {s}
       /\ CloseAtObexd(IF mClientProxy THEN {s} ELSE {})
       /\ UNCHANGED mFileSize

-----------------------------------------------------------------------------
(* Bluez5ObexClient: the name watch and the proxy *)

ConnectWithObex ==
  /\ ~watching
  /\ watching' = TRUE
  /\ UNCHANGED <<external, mClientProxy, proxyCalls, createCalls, staleCalls,
                 sessionVars, transferVars, callVars, crashed>>

\* Dropping the proxy leaves the calls made on it without one to finish them.
DropProxy ==
  /\ createCalls' = [a \in Address |-> 0]
  /\ staleCalls' = (staleCalls \/ \E a \in Address : createCalls[a] > 0)

\* createProxy; an appearance before the watch has its callback goes unnoticed.
NameAppeared ==
  /\ ~obexd
  /\ obexd' = TRUE
  /\ IF watching
     THEN /\ proxyCalls < MaxProxyCalls
          /\ proxyCalls' = proxyCalls + 1
          /\ mClientProxy' = FALSE
          /\ DropProxy
     ELSE UNCHANGED <<mClientProxy, proxyCalls, createCalls, staleCalls>>
  /\ UNCHANGED <<open, remote, watching, sessionVars, transferVars, callVars, crashed>>

\* destroyProxy; a creation in flight is not cancelled.
NameVanished ==
  /\ obexd
  /\ obexd' = FALSE
  /\ CloseAtObexd(open)
  /\ IF watching
     THEN /\ mClientProxy' = FALSE
          /\ DropProxy
     ELSE UNCHANGED <<mClientProxy, createCalls, staleCalls>>
  /\ UNCHANGED <<watching, proxyCalls, sessionVars, transferVars, callVars, crashed>>

\* Mutant: the reply of a creation is taken twice.
ProxyReplyAgain ==
  /\ watching
  /\ proxyCalls' = proxyCalls - 1
  /\ mClientProxy' \in BOOLEAN
  /\ DropProxy
  /\ UNCHANGED <<external, watching, sessionVars, transferVars, callVars, crashed>>

\* createProxyCallback overwrites the proxy, with none if the creation failed.
ProxyReply ==
  /\ proxyCalls > 0
  /\ proxyCalls' = proxyCalls - 1
  /\ mClientProxy' \in BOOLEAN
  /\ DropProxy
  /\ UNCHANGED <<external, watching, sessionVars, transferVars, callVars, crashed>>

-----------------------------------------------------------------------------
(* Sessions *)

\* connect without a proxy fails at once, and takes down what is stored for a.
ConnectWithoutProxy(a) ==
  /\ ~mClientProxy
  /\ RemoveSession(a)
  /\ UNCHANGED <<obexd, clientVars, deviceAddress, mLostRemote, callVars, crashed>>

Connect(a) ==
  /\ mClientProxy
  /\ createCalls[a] < MaxCalls
  /\ createCalls' = [createCalls EXCEPT ![a] = @ + 1]
  /\ UNCHANGED <<external, watching, mClientProxy, proxyCalls, staleCalls,
                 sessionVars, transferVars, callVars, crashed>>

\* storeSession does not replace a session that is stored already.
CreateSessionReply(a, s) ==
  /\ createCalls[a] > 0
  /\ obexd
  /\ deviceAddress[s] = NoSession
  /\ createCalls' = [createCalls EXCEPT ![a] = @ - 1]
  /\ open' = open \cup {s}
  /\ deviceAddress' = [deviceAddress EXCEPT ![s] = a]
  /\ live' = live \cup {s}
  /\ mSessions' = [mSessions EXCEPT ![a] = IF @ = NoSession THEN s ELSE @]
  /\ connected' = connected \cup {a}
  /\ UNCHANGED <<obexd, remote, watching, mClientProxy, proxyCalls, staleCalls,
                 mLostRemote, transferVars, callVars, crashed>>

\* Mutant: a failed connect tells the client without removing the session.
CreateSessionErrorOnlyTells(a) ==
  /\ createCalls[a] > 0
  /\ createCalls' = [createCalls EXCEPT ![a] = @ - 1]
  /\ connected' = connected \ {a}
  /\ UNCHANGED <<external, watching, mClientProxy, proxyCalls, staleCalls, deviceAddress,
                 live, mLostRemote, mSessions, transferVars, callVars, crashed>>

\* handleFailedToCreateSession disconnects the address.
CreateSessionError(a) ==
  /\ createCalls[a] > 0
  /\ createCalls' = [createCalls EXCEPT ![a] = @ - 1]
  /\ RemoveSession(a)
  /\ UNCHANGED <<obexd, watching, mClientProxy, proxyCalls, staleCalls,
                 deviceAddress, mLostRemote, callVars, crashed>>

\* The finish function refuses a proxy that did not make the call without setting
\* an error, and a string is made of the null path.
StaleCreateSessionReply ==
  /\ staleCalls
  /\ crashed' = TRUE
  /\ UNCHANGED <<external, clientVars, sessionVars, transferVars, callVars>>

Disconnect(a) ==
  /\ RemoveSession(a)
  /\ UNCHANGED <<obexd, clientVars, deviceAddress, mLostRemote, callVars, crashed>>

\* External: the link to the device is lost.
LoseSession(s) ==
  /\ s \in open
  /\ CloseAtObexd({s})
  /\ UNCHANGED <<obexd, clientVars, sessionVars, transferVars, callVars, crashed>>

\* Mutant: handleObexSessionStatus returns when the session is lost.
HandleSessionLostIgnored(s) ==
  /\ s \in live \ (open \cup mLostRemote)
  /\ mLostRemote' = mLostRemote \cup {s}
  /\ UNCHANGED <<external, clientVars, deviceAddress, live, mSessions, connected,
                 transferVars, callVars, crashed>>

\* The watch of a session reports that obexd removed it.  The session stored for
\* the address is removed, this one or not; this one deletes the watch that is
\* calling, which the second signal of the removal may still find.
HandleSessionLost(s) ==
  /\ s \in live \ (open \cup mLostRemote)
  /\ mLostRemote' = mLostRemote \cup {s}
  /\ RemoveSession(deviceAddress[s])
  /\ crashed' \in (IF mSessions[deviceAddress[s]] = s THEN BOOLEAN ELSE {FALSE})
  /\ UNCHANGED <<obexd, clientVars, deviceAddress, callVars>>

-----------------------------------------------------------------------------
(* Transfers *)

PushFile(a, i) ==
  /\ mSessions[a] # NoSession
  /\ pushedOn[i] = NoSession
  /\ pushedOn' = [pushedOn EXCEPT ![i] = mSessions[a]]
  /\ sendCalls' = sendCalls \cup {i}
  /\ UNCHANGED <<external, clientVars, sessionVars, transferVars, fetching, cancelling,
                 usedAfterFree, crashed>>

\* External: obexd takes the file.
ObexdAccepts(i) ==
  /\ i \in sendCalls
  /\ remote[i] = "none"
  /\ pushedOn[i] \in open
  /\ remote' = [remote EXCEPT ![i] = "running"]
  /\ UNCHANGED <<obexd, open, clientVars, sessionVars, transferVars, callVars, crashed>>

\* startTransfer, whether or not the session is still there.
SendFileReply(i) ==
  /\ i \in sendCalls
  /\ remote[i] # "none"
  /\ sendCalls' = sendCalls \ {i}
  /\ mTransfers' = mTransfers \cup {i}
  /\ fetching' = fetching \cup {i}
  /\ UNCHANGED <<external, clientVars, sessionVars, mState, mFileSize, results,
                 pushedOn, cancelling, usedAfterFree, crashed>>

SendFileError(i) ==
  /\ i \in sendCalls
  /\ remote[i] = "none"
  /\ sendCalls' = sendCalls \ {i}
  /\ results' = [results EXCEPT ![i] = @ + 1]
  /\ UNCHANGED <<external, clientVars, sessionVars, mTransfers, mState, mFileSize,
                 pushedOn, fetching, cancelling, usedAfterFree, crashed>>

\* A reply or a signal enters a transfer object after it was deleted: the process
\* dies, or nothing happens, or the watcher is told a result again.
EnterDeleted(i) ==
  /\ usedAfterFree' = usedAfterFree \cup {i}
  /\ crashed' \in BOOLEAN
  /\ results' \in {results, [results EXCEPT ![i] = 2]}
  /\ UNCHANGED <<mTransfers, mState, mFileSize>>

FetchPropertiesReply(i) ==
  /\ i \in fetching
  /\ fetching' = fetching \ {i}
  /\ IF i \in mTransfers
     THEN /\ \/ /\ remote[i] \in {"running", "complete", "error"}
                /\ UpdateTransfer(i, remote[i], mFileSize \cup ({i} \ Empty))
             \/ UNCHANGED transferVars
          /\ UNCHANGED <<usedAfterFree, crashed>>
     ELSE EnterDeleted(i)
  /\ UNCHANGED <<external, clientVars, sessionVars, pushedOn, sendCalls, cancelling>>

\* The transfer comes to its end at obexd, whose signal reaches the object, if it
\* was made, or a deleted one whose proxy the pending GetAll keeps alive.
HandlePropertiesChanged(i, state) ==
  /\ remote[i] = "running"
  /\ remote' = [remote EXCEPT ![i] = state]
  /\ CASE i \in mTransfers ->
            UpdateTransfer(i, state, mFileSize) /\ UNCHANGED <<usedAfterFree, crashed>>
       [] i \in fetching \ mTransfers -> EnterDeleted(i)
       [] OTHER -> UNCHANGED <<transferVars, usedAfterFree, crashed>>
  /\ UNCHANGED <<obexd, open, clientVars, sessionVars, pushedOn, sendCalls, fetching,
                 cancelling>>

CancelTransfer(i) ==
  /\ i \in mTransfers
  /\ cancelling' = cancelling \cup {i}
  /\ UNCHANGED <<external, clientVars, sessionVars, transferVars, pushedOn, sendCalls,
                 fetching, usedAfterFree, crashed>>

\* The reply reads the proxy of the transfer object, which may be deleted; if that
\* goes well removeTransfer finds no entry.
CancelReply(i, ok) ==
  /\ i \in cancelling
  /\ ok => remote[i] \in {"running", "error"}
  /\ cancelling' = cancelling \ {i}
  /\ remote' = IF ok THEN [remote EXCEPT ![i] = "error"] ELSE remote
  /\ IF ok /\ i \in mTransfers
     THEN DeleteTransfers({i}) /\ UNCHANGED mFileSize
     ELSE UNCHANGED transferVars
  /\ crashed' \in (IF i \in mTransfers THEN {FALSE} ELSE BOOLEAN)
  /\ UNCHANGED <<obexd, open, clientVars, sessionVars, pushedOn, sendCalls, fetching,
                 usedAfterFree>>

-----------------------------------------------------------------------------
ClientStep ==
  \/ ConnectWithObex \/ NameAppeared \/ NameVanished \/ ProxyReply
  \/ StaleCreateSessionReply

SessionStep ==
  \/ \E a \in Address : \/ ConnectWithoutProxy(a) \/ Connect(a) \/ Disconnect(a)
                        \/ CreateSessionError(a)
                        \/ \E s \in Session : CreateSessionReply(a, s)
  \/ \E s \in Session : LoseSession(s) \/ HandleSessionLost(s)

TransferStep ==
  \E i \in TransferId :
    \/ \E a \in Address : PushFile(a, i)
    \/ ObexdAccepts(i) \/ SendFileReply(i) \/ SendFileError(i)
    \/ FetchPropertiesReply(i)
    \/ \E state \in {"complete", "error"} : HandlePropertiesChanged(i, state)
    \/ CancelTransfer(i)
    \/ \E ok \in BOOLEAN : CancelReply(i, ok)

Next == ~crashed /\ (ClientStep \/ SessionStep \/ TransferStep)

Spec == Init /\ [][Next]_vars

\* GLib dispatches every signal that has arrived.
FairSpec ==
  /\ Spec
  /\ \A s \in Session : WF_vars(~crashed /\ HandleSessionLost(s))

-----------------------------------------------------------------------------
(* Properties *)

\* What the client was told about an address agrees with the table: connect,
\* failed connects, disconnect and lost sessions, in any order, tell it every
\* change (notifySessionStatus) and none that did not happen.
ConnectedMatches == connected = {a \in Address : mSessions[a] # NoSession}

\* A stored session is an object that was not deleted, made for that address, and
\* its watch has not fired, so its loss will still be heard.
StoredSessionsLive ==
  \A a \in Address : mSessions[a] # NoSession =>
    /\ mSessions[a] \in live \ mLostRemote
    /\ deviceAddress[mSessions[a]] = a

\* A transfer that completed before its size was known (updateActiveTransfer).
CompleteWithoutSize(i) == mState[i] = "complete" /\ i \notin mFileSize

\* The client of pushFile gets one final result once the call was answered and the
\* transfer has left the table, and none before: whichever of its own end, a
\* cancel, a disconnect or a lost session comes first (updateActiveTransfer,
\* ~Bluez5ObexTransfer).  Not if the transfer completed before its size was known,
\* which is told to nobody, nor if its object was entered after it was deleted.
OneFinalResult ==
  \A i \in TransferId \ usedAfterFree :
    results[i] = IF /\ pushedOn[i] # NoSession
                    /\ i \notin sendCalls \cup mTransfers
                    /\ ~CompleteWithoutSize(i)
                 THEN 1 ELSE 0

\* A lost session is told: the client does not go on believing an address is
\* connected (handleObexSessionStatus).
LossTold ==
  \A a \in Address, s \in Session :
    (mSessions[a] = s /\ s \notin open) ~> (a \notin connected \/ crashed)

\* "ownership of the transfer object is passed to updateActiveTransfer which will
\* delete it once there is nothing to left to do with it": one that is complete
\* does not stay in the table.  Violated.
CompleteIsDeleted == \A i \in mTransfers : mState[i] # "complete"
=============================================================================
