----------------------------- MODULE ObexProofs -----------------------------
(***************************************************************************)
(* Theorems about module Obex, for any devices, sessions, transfers and    *)
(* bounds: what the client was told is what the table holds, a stored      *)
(* session is alive, and a push gets one final result.                     *)
(***************************************************************************)
EXTENDS Obex, TLAPS

-----------------------------------------------------------------------------
(* The inductive invariant *)

\* Session objects and losses are those of sessions made once.
SessionsMade ==
  \A s \in live \cup mLostRemote : deviceAddress[s] # NoSession

SessionInv == SessionsMade /\ ConnectedMatches /\ StoredSessionsLive

\* How far a push has come: not asked for, its call in flight, an object, an end.
PushStages ==
  \A i \in TransferId :
    /\ pushedOn[i] = NoSession =>
         i \notin sendCalls \cup mTransfers \cup fetching \cup usedAfterFree
    /\ i \in sendCalls => i \notin mTransfers \cup fetching \cup usedAfterFree
    /\ i \in sendCalls \/ pushedOn[i] = NoSession => mState[i] = "running"
    /\ i \in mTransfers => i \notin usedAfterFree

\* A transfer object in the table has not come to an end that was told.
UntoldInTable ==
  \A i \in mTransfers : mState[i] = "running" \/ CompleteWithoutSize(i)

TransferInv == PushStages /\ UntoldInTable /\ OneFinalResult

Inv == TypeOK /\ SessionInv /\ TransferInv

\* The types of what deleting, updating and entering transfer objects change.
TransferTypes ==
  /\ mTransfers \subseteq TransferId
  /\ mState \in [TransferId -> {"running", "complete", "error"}]
  /\ mFileSize \subseteq TransferId
  /\ results \in [TransferId -> 0 .. 2]
  /\ usedAfterFree \subseteq TransferId

\* The types of what removing a session changes besides.
SessionTypes ==
  /\ open \subseteq Session
  /\ remote \in [TransferId -> {"none", "running", "complete", "error", "gone"}]
  /\ live \subseteq Session
  /\ mSessions \in [Address -> Session \cup {NoSession}]
  /\ connected \subseteq Address

LEMMA InitInv == Init => Inv
<1> SUFFICES ASSUME Init PROVE Inv
  OBVIOUS
<1>1. TypeOK
  <2>1. proxyCalls \in 0 .. MaxProxyCalls /\ createCalls \in [Address -> 0 .. MaxCalls]
    BY ObexAssumption DEF ObexAssumption, Init
  <2>2. remote \in [TransferId -> {"none", "running", "complete", "error", "gone"}]
    BY DEF Init
  <2>3. mState \in [TransferId -> {"running", "complete", "error"}]
    BY DEF Init
  <2>4. results \in [TransferId -> 0 .. 2]
    BY DEF Init
  <2> QED
    BY <2>1, <2>2, <2>3, <2>4 DEF Init, TypeOK
<1>2. SessionInv
  BY DEF Init, SessionInv, SessionsMade, ConnectedMatches, StoredSessionsLive
<1>3. TransferInv
  BY DEF Init, TransferInv, PushStages, UntoldInTable, OneFinalResult
<1> QED
  BY <1>1, <1>2, <1>3 DEF Inv

-----------------------------------------------------------------------------
(* The tables *)

\* Deleting objects of the table tells each that has not come to an end, once.
LEMMA DeleteTransfersInv ==
  ASSUME TypeOK, TransferInv, NEW ids \in SUBSET mTransfers, DeleteTransfers(ids),
         UNCHANGED <<mFileSize, pushedOn, sendCalls, fetching, usedAfterFree>>
  PROVE  TransferInv' /\ TransferTypes'
<1> USE DEF TypeOK, DeleteTransfers
<1>0. \A i \in ids : results[i] = 0 /\ pushedOn[i] # NoSession /\ i \notin sendCalls
  BY DEF TransferInv, PushStages, OneFinalResult
<1>1. PushStages'
  BY <1>0 DEF TransferInv, PushStages
<1>2. UntoldInTable'
  BY DEF TransferInv, UntoldInTable, CompleteWithoutSize
<1>3. ASSUME NEW i \in TransferId \ usedAfterFree
      PROVE  results'[i] = IF /\ pushedOn[i] # NoSession
                              /\ i \notin sendCalls \cup mTransfers'
                              /\ ~(mState'[i] = "complete" /\ i \notin mFileSize)
                           THEN 1 ELSE 0
  <2>1. CASE i \in ids /\ mState[i] = "running"
    BY <1>0, <2>1
  <2>2. CASE i \in ids /\ mState[i] # "running"
    <3>1. CompleteWithoutSize(i)
      BY <2>2 DEF TransferInv, UntoldInTable
    <3> QED
      BY <1>0, <2>2, <3>1 DEF CompleteWithoutSize
  <2>3. CASE i \notin ids
    BY <2>3 DEF TransferInv, OneFinalResult, CompleteWithoutSize
  <2> QED
    BY <2>1, <2>2, <2>3
<1>4. OneFinalResult'
  BY <1>3 DEF OneFinalResult, CompleteWithoutSize
<1>5. TransferTypes'
  BY <1>0 DEF TransferTypes
<1> QED
  BY <1>1, <1>2, <1>4, <1>5 DEF TransferInv

\* A signal or an answer of an object in the table: an end is told and the object
\* is deleted; without a size, a transfer that completed stays.
LEMMA UpdateTransferInv ==
  ASSUME TypeOK, TransferInv, NEW i \in mTransfers,
         NEW state \in {"running", "complete", "error"},
         NEW size \in {mFileSize, mFileSize \cup {i}}, UpdateTransfer(i, state, size),
         UNCHANGED <<pushedOn, sendCalls, usedAfterFree>>, fetching' \subseteq fetching
  PROVE  TransferInv' /\ TransferTypes'
<1> USE DEF TypeOK, UpdateTransfer
<1>0. results[i] = 0 /\ pushedOn[i] # NoSession /\ i \notin sendCalls \cup usedAfterFree
  BY DEF TransferInv, PushStages, OneFinalResult
<1>1. PushStages'
  BY <1>0 DEF TransferInv, PushStages
<1>2. UntoldInTable'
  BY DEF TransferInv, UntoldInTable, CompleteWithoutSize
<1>3. ASSUME NEW j \in TransferId \ usedAfterFree
      PROVE  results'[j] = IF /\ pushedOn[j] # NoSession
                              /\ j \notin sendCalls \cup mTransfers'
                              /\ ~(mState'[j] = "complete" /\ j \notin mFileSize')
                           THEN 1 ELSE 0
  <2>1. CASE j = i
    BY <1>0, <2>1
  <2>2. CASE j # i
    BY <2>2 DEF TransferInv, OneFinalResult, CompleteWithoutSize
  <2> QED
    BY <2>1, <2>2
<1>4. OneFinalResult'
  BY <1>3 DEF OneFinalResult, CompleteWithoutSize
<1>5. TransferTypes'
  BY <1>0 DEF TransferTypes
<1> QED
  BY <1>1, <1>2, <1>4, <1>5 DEF TransferInv

\* A deleted object that is entered is out of what OneFinalResult speaks of.
LEMMA EnterDeletedInv ==
  ASSUME TypeOK, TransferInv, NEW i \in fetching \ mTransfers, EnterDeleted(i),
         UNCHANGED <<pushedOn, sendCalls>>, fetching' \subseteq fetching
  PROVE  TransferInv' /\ TransferTypes'
<1> USE DEF TypeOK, EnterDeleted
<1>1. PushStages'
  BY DEF TransferInv, PushStages
<1>2. UntoldInTable'
  BY DEF TransferInv, UntoldInTable, CompleteWithoutSize
<1>3. OneFinalResult'
  BY DEF TransferInv, OneFinalResult, CompleteWithoutSize
<1>4. TransferTypes'
  BY DEF TransferTypes
<1> QED
  BY <1>1, <1>2, <1>3, <1>4 DEF TransferInv

\* What obexd closes.
LEMMA CloseTypes ==
  ASSUME TypeOK, NEW closed, CloseAtObexd(closed)
  PROVE  /\ open' \subseteq Session
         /\ remote' \in [TransferId -> {"none", "running", "complete", "error", "gone"}]
  BY DEF TypeOK, CloseAtObexd

\* removeSession takes the session of one address out of the table and tells it,
\* with the transfers made on it; stored sessions are those of their own address.
LEMMA RemoveSessionInv ==
  ASSUME TypeOK, SessionInv, TransferInv, NEW a \in Address, RemoveSession(a),
         UNCHANGED <<deviceAddress, pushedOn, sendCalls, fetching, usedAfterFree>>,
         mLostRemote' \subseteq mLostRemote \cup {s \in live : deviceAddress[s] = a}
  PROVE  SessionInv' /\ SessionTypes' /\ TransferInv' /\ TransferTypes'
<1> DEFINE s == mSessions[a]
<1>1. CASE s = NoSession
  <2>1. UNCHANGED <<open, remote, live, mSessions, connected, transferVars>>
    BY <1>1 DEF RemoveSession
  <2>2. SessionInv'
    BY <2>1, <1>1 DEF TypeOK, SessionInv, SessionsMade, ConnectedMatches, StoredSessionsLive
  <2>3. TransferInv'
    BY <2>1 DEF TransferInv, PushStages, UntoldInTable, OneFinalResult, CompleteWithoutSize,
                transferVars
  <2> QED
    BY <2>1, <2>2, <2>3 DEF TypeOK, SessionTypes, TransferTypes, transferVars
<1>2. CASE s # NoSession
  <2>1. /\ DeleteTransfers({i \in mTransfers : PartOfSession(i, s)})
        /\ mSessions' = [mSessions EXCEPT ![a] = NoSession]
        /\ connected' = connected \ {a}
        /\ live' = live \ {s}
        /\ CloseAtObexd(IF mClientProxy THEN {s} ELSE {})
        /\ UNCHANGED mFileSize
    BY <1>2 DEF RemoveSession
  <2>2. SessionsMade'
    BY <2>1 DEF SessionInv, SessionsMade
  <2>3. ConnectedMatches'
    BY <2>1 DEF TypeOK, SessionInv, ConnectedMatches
  <2>4. StoredSessionsLive'
    <3> SUFFICES ASSUME NEW b \in Address, mSessions'[b] # NoSession
                 PROVE  /\ mSessions'[b] \in live' \ mLostRemote'
                        /\ deviceAddress'[mSessions'[b]] = b
      BY DEF StoredSessionsLive
    <3>1. b # a /\ mSessions'[b] = mSessions[b]
      BY <2>1 DEF TypeOK
    <3>2. mSessions[b] \in live \ mLostRemote /\ deviceAddress[mSessions[b]] = b
      BY <3>1 DEF SessionInv, StoredSessionsLive
    <3>3. deviceAddress[s] = a
      BY <1>2 DEF SessionInv, StoredSessionsLive
    <3> QED
      BY <2>1, <3>1, <3>2, <3>3
  <2>5. SessionTypes'
    BY <2>1, CloseTypes DEF TypeOK, SessionTypes
  <2>6. TransferInv' /\ TransferTypes'
    BY <2>1, DeleteTransfersInv
  <2> QED
    BY <2>2, <2>3, <2>4, <2>5, <2>6 DEF SessionInv
<1> QED
  BY <1>1, <1>2

\* The invariants read nothing else.
LEMMA SessionsKept == SessionInv /\ UNCHANGED sessionVars => SessionInv'
  BY DEF SessionInv, SessionsMade, ConnectedMatches, StoredSessionsLive, sessionVars

LEMMA TransfersKept ==
  ASSUME TransferInv, UNCHANGED <<transferVars, pushedOn, sendCalls, usedAfterFree>>,
         fetching' \subseteq fetching
  PROVE  TransferInv'
  BY DEF TransferInv, PushStages, UntoldInTable, OneFinalResult, CompleteWithoutSize,
         transferVars

-----------------------------------------------------------------------------
(* The client of obexd *)

LEMMA ClientStepInv == Inv /\ ClientStep => Inv'
<1> SUFFICES ASSUME Inv, ClientStep PROVE Inv'
  OBVIOUS
<1> USE DEF Inv, external, sessionVars, transferVars, callVars
<1>1. UNCHANGED <<sessionVars, transferVars, callVars>>
  BY DEF ClientStep, ConnectWithObex, NameAppeared, NameVanished, ProxyReply,
         StaleCreateSessionReply
<1>2. SessionInv' /\ TransferInv'
  BY <1>1, SessionsKept, TransfersKept
<1>3. TypeOK'
  <2>1. CASE ConnectWithObex
    BY <2>1 DEF TypeOK, ConnectWithObex
  <2>0. DropProxy => createCalls' \in [Address -> 0 .. MaxCalls] /\ staleCalls' \in BOOLEAN
    BY ObexAssumption DEF ObexAssumption, TypeOK, DropProxy
  <2>2. CASE NameAppeared
    <3>1. CASE watching
      <4>1. proxyCalls' \in 0 .. MaxProxyCalls
        BY <2>2, <3>1, ObexAssumption DEF ObexAssumption, TypeOK, NameAppeared
      <4> QED
        BY <2>0, <2>2, <3>1, <4>1 DEF TypeOK, NameAppeared
    <3>2. CASE ~watching
      BY <2>2, <3>2 DEF TypeOK, NameAppeared
    <3> QED
      BY <3>1, <3>2
  <2>3. CASE NameVanished
    <3>1. /\ open' \subseteq Session
          /\ remote' \in [TransferId -> {"none", "running", "complete", "error", "gone"}]
      BY <2>3, CloseTypes DEF NameVanished
    <3>2. CASE watching
      BY <2>0, <2>3, <3>1, <3>2 DEF TypeOK, NameVanished
    <3>3. CASE ~watching
      BY <2>3, <3>1, <3>3 DEF TypeOK, NameVanished
    <3> QED
      BY <3>2, <3>3
  <2>4. CASE ProxyReply
    BY <2>4, ObexAssumption DEF ObexAssumption, TypeOK, ProxyReply, DropProxy
  <2>5. CASE StaleCreateSessionReply
    BY <2>5 DEF TypeOK, StaleCreateSessionReply, clientVars
  <2> QED
    BY <2>1, <2>2, <2>3, <2>4, <2>5 DEF ClientStep
<1> QED
  BY <1>2, <1>3

-----------------------------------------------------------------------------
(* Sessions *)

LEMMA ConnectInv ==
  ASSUME Inv, NEW a \in Address, Connect(a)
  PROVE  Inv'
<1> USE DEF Inv, Connect, external, sessionVars, transferVars, callVars
<1>1. SessionInv' /\ TransferInv'
  BY SessionsKept, TransfersKept
<1>2. TypeOK'
  BY ObexAssumption DEF ObexAssumption, TypeOK
<1> QED
  BY <1>1, <1>2

\* The session is new; the table takes it if it has none for the address.
LEMMA CreateSessionReplyInv ==
  ASSUME Inv, NEW a \in Address, NEW s \in Session, CreateSessionReply(a, s)
  PROVE  Inv'
<1> USE DEF Inv, CreateSessionReply
<1>0. s \notin live \cup mLostRemote
  BY DEF SessionInv, SessionsMade
<1>1. TransferInv'
  BY TransfersKept DEF transferVars, callVars
<1>2. SessionsMade'
  BY ObexAssumption DEF ObexAssumption, TypeOK, SessionInv, SessionsMade
<1>3. ConnectedMatches'
  BY ObexAssumption DEF ObexAssumption, TypeOK, SessionInv, ConnectedMatches
<1>4. StoredSessionsLive'
  <2> SUFFICES ASSUME NEW b \in Address, mSessions'[b] # NoSession
               PROVE  /\ mSessions'[b] \in live' \ mLostRemote'
                      /\ deviceAddress'[mSessions'[b]] = b
    BY DEF StoredSessionsLive
  <2>1. CASE mSessions[b] = NoSession
    <3>1. b = a /\ mSessions'[b] = s
      BY <2>1 DEF TypeOK
    <3> QED
      BY <3>1, <1>0 DEF TypeOK
  <2>2. CASE mSessions[b] # NoSession
    <3>1. mSessions'[b] = mSessions[b]
      BY <2>2 DEF TypeOK
    <3>2. mSessions[b] \in live \ mLostRemote /\ deviceAddress[mSessions[b]] = b
      BY <2>2 DEF SessionInv, StoredSessionsLive
    <3> QED
      BY <1>0, <3>1, <3>2 DEF TypeOK
  <2> QED
    BY <2>1, <2>2
<1>5. TypeOK'
  BY ObexAssumption DEF ObexAssumption, TypeOK, transferVars, callVars
<1> QED
  BY <1>1, <1>2, <1>3, <1>4, <1>5 DEF SessionInv

\* Disconnections, failures to connect and losses all remove the session of one
\* address.
LEMMA RemoveInv ==
  ASSUME Inv, NEW a \in Address, RemoveSession(a),
         UNCHANGED <<obexd, watching, mClientProxy, proxyCalls, staleCalls, deviceAddress,
                     callVars>>,
         mLostRemote' \subseteq mLostRemote \cup {s \in live : deviceAddress[s] = a},
         createCalls' \in [Address -> 0 .. MaxCalls], crashed' \in BOOLEAN
  PROVE  Inv'
<1>1. SessionInv' /\ SessionTypes' /\ TransferInv' /\ TransferTypes'
  BY RemoveSessionInv DEF Inv, callVars
<1>2. TypeOK'
  BY <1>1 DEF Inv, TypeOK, SessionTypes, TransferTypes, callVars
<1> QED
  BY <1>1, <1>2 DEF Inv

LEMMA SessionStepInv == Inv /\ SessionStep => Inv'
<1> SUFFICES ASSUME Inv, SessionStep PROVE Inv'
  OBVIOUS
<1>1. ASSUME NEW a \in Address, ConnectWithoutProxy(a) PROVE Inv'
  BY <1>1, RemoveInv DEF Inv, TypeOK, ConnectWithoutProxy, clientVars
<1>2. ASSUME NEW a \in Address, Disconnect(a) PROVE Inv'
  BY <1>2, RemoveInv DEF Inv, TypeOK, Disconnect, clientVars
<1>3. ASSUME NEW a \in Address, CreateSessionError(a) PROVE Inv'
  <2>1. createCalls' \in [Address -> 0 .. MaxCalls]
    BY <1>3, ObexAssumption DEF ObexAssumption, Inv, TypeOK, CreateSessionError
  <2> QED
    BY <1>3, <2>1, RemoveInv DEF Inv, TypeOK, CreateSessionError
<1>4. ASSUME NEW s \in Session, HandleSessionLost(s) PROVE Inv'
  <2>1. s \in live /\ deviceAddress[s] \in Address
    BY <1>4 DEF HandleSessionLost, Inv, TypeOK, SessionInv, SessionsMade
  <2>2. /\ RemoveSession(deviceAddress[s])
        /\ mLostRemote' = mLostRemote \cup {s}
        /\ UNCHANGED <<obexd, clientVars, deviceAddress, callVars>>
        /\ crashed' \in BOOLEAN
    BY <1>4 DEF HandleSessionLost
  <2> QED
    BY <2>1, <2>2, RemoveInv DEF Inv, TypeOK, clientVars
<1>5. ASSUME NEW s \in Session, LoseSession(s) PROVE Inv'
  <2>1. CloseAtObexd({s}) /\ UNCHANGED <<obexd, clientVars, sessionVars, transferVars,
                                         callVars, crashed>>
    BY <1>5 DEF LoseSession
  <2>2. SessionInv' /\ TransferInv'
    BY <2>1, SessionsKept, TransfersKept DEF Inv, callVars
  <2>3. TypeOK'
    BY <2>1, CloseTypes
    DEF Inv, TypeOK, clientVars, sessionVars, transferVars, callVars
  <2> QED
    BY <2>2, <2>3 DEF Inv
<1> QED
  BY <1>1, <1>2, <1>3, <1>4, <1>5, ConnectInv, CreateSessionReplyInv DEF SessionStep

-----------------------------------------------------------------------------
(* Transfers *)

\* A push is asked for once.
LEMMA PushFileInv ==
  ASSUME Inv, NEW a \in Address, NEW i \in TransferId, PushFile(a, i)
  PROVE  Inv'
<1> USE DEF Inv, PushFile
<1>1. SessionInv'
  BY SessionsKept
<1>2. PushStages' /\ UntoldInTable'
  BY ObexAssumption
  DEF ObexAssumption, TypeOK, TransferInv, PushStages, UntoldInTable, CompleteWithoutSize,
      transferVars
<1>3. OneFinalResult'
  BY ObexAssumption
  DEF ObexAssumption, TypeOK, TransferInv, PushStages, OneFinalResult, CompleteWithoutSize,
      transferVars
<1>4. TypeOK'
  BY DEF TypeOK, external, clientVars, sessionVars, transferVars
<1> QED
  BY <1>1, <1>2, <1>3, <1>4 DEF TransferInv

\* The answer makes an object in the table, which owes the result.
LEMMA SendFileReplyInv ==
  ASSUME Inv, NEW i \in TransferId, SendFileReply(i)
  PROVE  Inv'
<1> USE DEF Inv, SendFileReply
<1>1. SessionInv'
  BY SessionsKept
<1>2. PushStages' /\ UntoldInTable'
  BY DEF TypeOK, TransferInv, PushStages, UntoldInTable, CompleteWithoutSize
<1>3. OneFinalResult'
  BY DEF TypeOK, TransferInv, PushStages, OneFinalResult, CompleteWithoutSize
<1>4. TypeOK'
  BY DEF TypeOK, external, clientVars, sessionVars
<1> QED
  BY <1>1, <1>2, <1>3, <1>4 DEF TransferInv

\* A failed call tells the result itself.
LEMMA SendFileErrorInv ==
  ASSUME Inv, NEW i \in TransferId, SendFileError(i)
  PROVE  Inv'
<1> USE DEF Inv, SendFileError
<1>0. results[i] = 0 /\ mState[i] = "running" /\ i \notin mTransfers \cup usedAfterFree
  BY DEF TransferInv, PushStages, OneFinalResult
<1>1. SessionInv'
  BY SessionsKept
<1>2. PushStages' /\ UntoldInTable'
  BY DEF TypeOK, TransferInv, PushStages, UntoldInTable, CompleteWithoutSize
<1>3. OneFinalResult'
  BY <1>0 DEF TypeOK, TransferInv, PushStages, OneFinalResult, CompleteWithoutSize
<1>4. TypeOK'
  BY <1>0 DEF TypeOK, external, clientVars, sessionVars
<1> QED
  BY <1>1, <1>2, <1>3, <1>4 DEF TransferInv

LEMMA ObexdAcceptsInv ==
  ASSUME Inv, NEW i \in TransferId, ObexdAccepts(i)
  PROVE  Inv'
<1> USE DEF Inv, ObexdAccepts
<1>1. SessionInv' /\ TransferInv'
  BY SessionsKept, TransfersKept DEF callVars
<1>2. TypeOK'
  BY DEF TypeOK, clientVars, sessionVars, transferVars, callVars
<1> QED
  BY <1>1, <1>2

\* Whatever arrives is for an object in the table, for a deleted one, or for none.
LEMMA FetchPropertiesReplyInv ==
  ASSUME Inv, NEW i \in TransferId, FetchPropertiesReply(i)
  PROVE  Inv'
<1> USE DEF Inv
<1>1. /\ i \in fetching /\ fetching' = fetching \ {i}
      /\ UNCHANGED <<external, clientVars, sessionVars, pushedOn, sendCalls, cancelling>>
  BY DEF FetchPropertiesReply
<1>2. SessionInv'
  BY <1>1, SessionsKept
<1>3. TransferInv' /\ TransferTypes' /\ crashed' \in BOOLEAN
  <2>1. CASE i \notin mTransfers
    BY <1>1, <2>1, EnterDeletedInv DEF FetchPropertiesReply, EnterDeleted
  <2>2. CASE i \in mTransfers /\ UNCHANGED transferVars
    BY <1>1, <2>2, TransfersKept
    DEF FetchPropertiesReply, TypeOK, TransferTypes, transferVars
  <2>3. CASE /\ i \in mTransfers /\ remote[i] \in {"running", "complete", "error"}
             /\ UpdateTransfer(i, remote[i], mFileSize \cup ({i} \ Empty))
    <3>1. mFileSize \cup ({i} \ Empty) \in {mFileSize, mFileSize \cup {i}}
      OBVIOUS
    <3> QED
      BY <1>1, <2>3, <3>1, UpdateTransferInv DEF FetchPropertiesReply, TypeOK
  <2> QED
    BY <2>1, <2>2, <2>3 DEF FetchPropertiesReply
<1>4. TypeOK'
  BY <1>1, <1>3 DEF TypeOK, TransferTypes, external, clientVars, sessionVars
<1> QED
  BY <1>2, <1>3, <1>4

LEMMA HandlePropertiesChangedInv ==
  ASSUME Inv, NEW i \in TransferId, NEW state \in {"complete", "error"},
         HandlePropertiesChanged(i, state)
  PROVE  Inv'
<1> USE DEF Inv
<1>1. /\ remote' = [remote EXCEPT ![i] = state]
      /\ UNCHANGED <<obexd, open, clientVars, sessionVars, pushedOn, sendCalls, fetching,
                     cancelling>>
  BY DEF HandlePropertiesChanged
<1>2. SessionInv'
  BY <1>1, SessionsKept
<1>3. TransferInv' /\ TransferTypes' /\ crashed' \in BOOLEAN
  <2>1. CASE i \in mTransfers
    BY <1>1, <2>1, UpdateTransferInv DEF HandlePropertiesChanged, TypeOK
  <2>2. CASE i \in fetching \ mTransfers
    BY <1>1, <2>2, EnterDeletedInv DEF HandlePropertiesChanged, EnterDeleted
  <2>3. CASE i \notin fetching \cup mTransfers
    BY <1>1, <2>3, TransfersKept
    DEF HandlePropertiesChanged, TypeOK, TransferTypes, transferVars
  <2> QED
    BY <2>1, <2>2, <2>3
<1>4. TypeOK'
  BY <1>1, <1>3 DEF TypeOK, TransferTypes, clientVars, sessionVars
<1> QED
  BY <1>2, <1>3, <1>4

LEMMA CancelTransferInv ==
  ASSUME Inv, NEW i \in TransferId, CancelTransfer(i)
  PROVE  Inv'
<1> USE DEF Inv, CancelTransfer
<1>1. SessionInv' /\ TransferInv'
  BY SessionsKept, TransfersKept
<1>2. TypeOK'
  BY DEF TypeOK, external, clientVars, sessionVars, transferVars
<1> QED
  BY <1>1, <1>2

LEMMA CancelReplyInv ==
  ASSUME Inv, NEW i \in TransferId, NEW ok \in BOOLEAN, CancelReply(i, ok)
  PROVE  Inv'
<1> USE DEF Inv
<1>1. /\ cancelling' = cancelling \ {i}
      /\ remote' = IF ok THEN [remote EXCEPT ![i] = "error"] ELSE remote
      /\ crashed' \in BOOLEAN
      /\ UNCHANGED <<obexd, open, clientVars, sessionVars, pushedOn, sendCalls, fetching,
                     usedAfterFree>>
  BY DEF CancelReply
<1>2. SessionInv'
  BY <1>1, SessionsKept
<1>3. TransferInv' /\ TransferTypes'
  <2>1. CASE ok /\ i \in mTransfers
    BY <1>1, <2>1, DeleteTransfersInv DEF CancelReply
  <2>2. CASE ~(ok /\ i \in mTransfers)
    BY <1>1, <2>2, TransfersKept DEF CancelReply, TypeOK, TransferTypes, transferVars
  <2> QED
    BY <2>1, <2>2
<1>4. TypeOK'
  BY <1>1, <1>3 DEF TypeOK, TransferTypes, clientVars, sessionVars
<1> QED
  BY <1>2, <1>3, <1>4

LEMMA TransferStepInv == Inv /\ TransferStep => Inv'
  BY PushFileInv, SendFileReplyInv, SendFileErrorInv, ObexdAcceptsInv,
     FetchPropertiesReplyInv, HandlePropertiesChangedInv, CancelTransferInv, CancelReplyInv
  DEF TransferStep

-----------------------------------------------------------------------------
(* The theorems *)

LEMMA StutterInv == Inv /\ UNCHANGED vars => Inv'
  BY SessionsKept, TransfersKept
  DEF Inv, TypeOK, vars, external, clientVars, sessionVars, transferVars, callVars

LEMMA InvAlways == Spec => []Inv
<1>1. Inv /\ [Next]_vars => Inv'
  BY ClientStepInv, SessionStepInv, TransferStepInv, StutterInv DEF Next
<1> QED
  BY InitInv, <1>1, PTL DEF Spec

\* The variables keep their types: no more calls in flight than the bounds allow,
\* and no push with more than two results.
THEOREM TypeCorrect == Spec => []TypeOK
  BY InvAlways, PTL DEF Inv

\* Connects that fail or come late, disconnects and lost sessions, in any order,
\* tell the client each change of the table and no other (notifySessionStatus).
THEOREM ClientKnowsSessions == Spec => []ConnectedMatches
<1>1. Inv => ConnectedMatches
  BY DEF Inv, SessionInv
<1> QED
  BY <1>1, InvAlways, PTL

\* No second session of an address, and no loss of one, leaves the table with a
\* session that was deleted, or whose loss will not be heard (storeSession,
\* removeSession).
THEOREM StoredAlive == Spec => []StoredSessionsLive
<1>1. Inv => StoredSessionsLive
  BY DEF Inv, SessionInv
<1> QED
  BY <1>1, InvAlways, PTL

\* Of its own end, a cancel, a disconnect and the loss of its session a push tells
\* the first and no other (updateActiveTransfer, ~Bluez5ObexTransfer).
THEOREM FinalResultOnce == Spec => []OneFinalResult
<1>1. Inv => OneFinalResult
  BY DEF Inv, TransferInv
<1> QED
  BY <1>1, InvAlways, PTL
=============================================================================
