------------------------------ MODULE Phonebook ------------------------------
(***************************************************************************)
(* Phone book access (Bluez5ProfilePbap): calls on the sessions of remote  *)
(* devices, all finished with the one proxy the profile keeps, and the     *)
(* transfers it pulls, in tables of its own that the loss of a session     *)
(* does not touch.                                                         *)
(*                                                                         *)
(* A session stands for its proxy and a transfer for its path, neither     *)
(* used twice.  Folders, filters, the contents of cards, the application   *)
(* parameters and the end of the profile are left out.                     *)
(***************************************************************************)
EXTENDS Naturals, Sequences, FiniteSets, SequencesExt

CONSTANTS
    Devices,
    Transfers,       \* paths of transfers
    MaxSessions,     \* bound: sessions ever made
    MaxCalls         \* bound: calls in flight

PhonebookAssumption == MaxSessions \in Nat /\ MaxCalls \in Nat

VARIABLES
    session,                \* per device: its session, or 0
    sessions,               \* how many were made
    mObjectPhonebookProxy,  \* the session whose proxy is kept, or 0
    calls,                  \* calls in flight: [kind, on]
    pulled,                 \* what each transfer brings, "none" before it is made
    remote,                 \* external: state of each transfer at obexd
    mTransfersMap,          \* transfers that have an object
    state,                  \* of the object of each transfer
    fetching,               \* transfers whose first GetAll is in flight
    mTransferStateMap,      \* per transfer: what was last told, or "none"
    reports,                \* what the client was told of each transfer
    entered,                \* transfers whose object was entered once deleted
    crashed                 \* the process has died

callVars == <<session, sessions, mObjectPhonebookProxy, calls>>
objectVars == <<mTransfersMap, state, mTransferStateMap, reports>>
vars == <<callVars, pulled, remote, objectVars, fetching, entered, crashed>>

\* stateString
StateString == [inactive |-> "idle", queued |-> "idle", active |-> "active",
                suspended |-> "active", complete |-> "completed", error |-> "error"]

States == DOMAIN StateString
Final == {"complete", "error"}
Kinds == {"select", "size", "list", "search", "card", "book"}
Pulls == {"card", "book"}
Reports == {StateString[s] : s \in States}

TypeOK ==
    /\ session \in [Devices -> 0..MaxSessions]
    /\ sessions \in 0..MaxSessions
    /\ mObjectPhonebookProxy \in 0..MaxSessions
    /\ calls \subseteq [kind : Kinds, on : 1..MaxSessions]
    /\ pulled \in [Transfers -> Pulls \union {"none"}]
    /\ remote \in [Transfers -> States \union {"gone"}]
    /\ mTransfersMap \subseteq Transfers
    /\ state \in [Transfers -> States]
    /\ fetching \subseteq Transfers
    /\ mTransferStateMap \in [Transfers -> Reports \union {"none"}]
    /\ reports \in [Transfers -> Seq(Reports)]
    /\ entered \subseteq Transfers
    /\ crashed \in BOOLEAN

Init ==
    /\ session = [d \in Devices |-> 0] /\ sessions = 0
    /\ mObjectPhonebookProxy = 0
    /\ calls = {}
    /\ pulled = [t \in Transfers |-> "none"]
    /\ remote = [t \in Transfers |-> "inactive"]
    /\ mTransfersMap = {}
    /\ state = [t \in Transfers |-> "inactive"]
    /\ fetching = {}
    /\ mTransferStateMap = [t \in Transfers |-> "none"]
    /\ reports = [t \in Transfers |-> <<>>]
    /\ entered = {}
    /\ crashed = FALSE

\* A proxy lives as long as its session or a call on it.
Proxies == {session[d] : d \in Devices} \union {c.on : c \in calls}

(***************************************************************************)
(* Sessions, as the base class keeps them.                                 *)
(***************************************************************************)
StoreSession(d) ==
    /\ session[d] = 0 /\ sessions < MaxSessions
    /\ sessions' = sessions + 1
    /\ session' = [session EXCEPT ![d] = sessions + 1]
    /\ UNCHANGED <<mObjectPhonebookProxy, calls, pulled, remote, objectVars, fetching,
                   entered, crashed>>

\* Disconnected by the client, or lost: no transfer is touched.
RemoveSession(d) ==
    /\ session[d] # 0
    /\ session' = [session EXCEPT ![d] = 0]
    /\ UNCHANGED <<sessions, mObjectPhonebookProxy, calls, pulled, remote, objectVars, fetching,
                   entered, crashed>>

(***************************************************************************)
(* Calls.  All but vCardListing make the session of the device the one     *)
(* whose proxy is kept.                                                    *)
(***************************************************************************)
Call(kind, on) ==
    /\ Cardinality(calls) < MaxCalls /\ [kind |-> kind, on |-> on] \notin calls
    /\ calls' = calls \union {[kind |-> kind, on |-> on]}
    /\ UNCHANGED <<session, sessions, pulled, remote, objectVars, fetching, entered, crashed>>

CallOn(kind, d) ==
    /\ session[d] # 0
    /\ Call(kind, session[d])
    /\ mObjectPhonebookProxy' = session[d]

SetPhoneBook(d) == CallOn("select", d)
GetPhonebookSize(d) == CallOn("size", d)
SearchPhoneBook(d) == CallOn("search", d)
PullvCard(d) == CallOn("card", d)
PullPhoneBook(d) == CallOn("book", d)

\* The proxy kept may be another device's, or that of a session deleted since.
VCardListing(d) ==
    /\ session[d] # 0 /\ mObjectPhonebookProxy # 0
    /\ IF mObjectPhonebookProxy \in Proxies THEN Call("list", mObjectPhonebookProxy)
       ELSE /\ crashed' = TRUE
            /\ UNCHANGED <<session, sessions, calls, pulled, remote, objectVars, fetching, entered>>
    /\ UNCHANGED mObjectPhonebookProxy

\* The folder of a session has changed: updateVersion calls on the proxy kept,
\* waiting for the answer, and with one that lives changes nothing here.
UpdateProperties(d) ==
    /\ session[d] # 0
    /\ mObjectPhonebookProxy \notin Proxies \union {0}
    /\ crashed' = TRUE
    /\ UNCHANGED callVars /\ UNCHANGED <<pulled, remote, objectVars, fetching, entered>>

\* startTransfer and startPhoneBookTransfer: an object that asks for its state.
StartTransfer(kind, t) ==
    /\ pulled[t] = "none"
    /\ pulled' = [pulled EXCEPT ![t] = kind]
    /\ remote' = [remote EXCEPT ![t] = "queued"]
    /\ mTransfersMap' = mTransfersMap \union {t}
    /\ fetching' = fetching \union {t}
    /\ UNCHANGED <<state, mTransferStateMap, reports>>

Answered(c) ==
    /\ c \in calls
    /\ calls' = calls \ {c}
    /\ UNCHANGED <<session, sessions, mObjectPhonebookProxy, entered>>

\* A reply is finished with the proxy kept now: if that made the call, a pull that
\* succeeds starts a transfer, and nothing else happens but that the client is told.
CallReply(c) ==
    /\ Answered(c) /\ c.on = mObjectPhonebookProxy
    /\ \/ /\ c.kind \in Pulls
          /\ \E t \in Transfers : StartTransfer(c.kind, t)
       \/ UNCHANGED <<pulled, remote, objectVars, fetching>>
    /\ UNCHANGED crashed

\* A proxy that did not make the call gives neither a result nor an error: a
\* selection passes for done, a size for 0, a list is read through an iterator
\* never set, and of the null path of a transfer a string is made.  A proxy that
\* was deleted is used all the same.
CallReplyElsewhere(c) ==
    /\ Answered(c) /\ c.on # mObjectPhonebookProxy
    /\ crashed' \in (IF mObjectPhonebookProxy \notin Proxies \/ c.kind \in Pulls THEN {TRUE}
                     ELSE IF c.kind \in {"list", "search"} THEN BOOLEAN ELSE {FALSE})
    /\ UNCHANGED <<pulled, remote, objectVars, fetching>>

(***************************************************************************)
(* Transfers.                                                              *)
(***************************************************************************)
\* updateActiveTransfer tells of a card that it is done, monitorTransfer of a
\* phone book each state that is not the one last told.
ReportsOf(t, s) ==
    LET last == mTransferStateMap[t]
        report == StateString[s]
    IN  IF pulled[t] = "card" THEN IF s \in Final THEN <<report>> ELSE <<>>
        ELSE CASE report = last -> <<>>
               [] last = "idle" /\ s = "complete" -> <<"active", report>>
               [] OTHER -> <<report>>

\* Mutant: the state last told is stored once and not updated.
RememberOnce(t, s) ==
    IF pulled[t] = "card" \/ mTransferStateMap[t] # "none" THEN mTransferStateMap
    ELSE [mTransferStateMap EXCEPT ![t] = StateString[s]]

Remember(t, s) ==
    IF pulled[t] = "card" THEN mTransferStateMap
    ELSE [mTransferStateMap EXCEPT ![t] = StateString[s]]

\* The object, whose state has become s, calls its watcher, which deletes it if
\* that is its end.  What was last told is then erased, through an iterator that
\* was found before there was such an entry if this is the first to be told.
Notify(t, s) ==
    /\ state' = [state EXCEPT ![t] = s]
    /\ reports' = [reports EXCEPT ![t] = @ \o ReportsOf(t, s)]
    /\ mTransfersMap' = IF s \in Final THEN mTransfersMap \ {t} ELSE mTransfersMap
    /\ IF s \in Final /\ mTransferStateMap[t] # "none"
       THEN mTransferStateMap' = [mTransferStateMap EXCEPT ![t] = "none"] /\ UNCHANGED crashed
       ELSE /\ mTransferStateMap' = Remember(t, s)
            /\ crashed' \in (IF s \in Final /\ pulled[t] = "book" THEN BOOLEAN ELSE {FALSE})

\* The reply to the first GetAll: the state of the transfer, or an error.  An
\* object deleted meanwhile is entered: it dies of it, or tells anything.
FetchPropertiesReply(t) ==
    /\ t \in fetching
    /\ fetching' = fetching \ {t}
    /\ IF t \in mTransfersMap THEN
          /\ \/ remote[t] # "gone" /\ Notify(t, remote[t])
             \/ UNCHANGED objectVars /\ UNCHANGED crashed
          /\ UNCHANGED entered
       ELSE entered' = entered \union {t} /\ crashed' \in BOOLEAN /\ UNCHANGED objectVars
    /\ UNCHANGED callVars /\ UNCHANGED <<pulled, remote>>

\* obexd signals the state of a transfer, or its bytes in the same state.  States
\* that follow each other at once may come as one.
Successors == [queued |-> {"queued", "active", "complete", "error"},
               active |-> {"active", "suspended", "complete", "error"},
               suspended |-> {"suspended", "active", "error"}]

HandlePropertiesChanged(t, s) ==
    /\ remote[t] \in DOMAIN Successors /\ s \in Successors[remote[t]]
    /\ remote' = [remote EXCEPT ![t] = s]
    /\ Notify(t, s)
    /\ UNCHANGED callVars /\ UNCHANGED <<pulled, fetching, entered>>

\* External: obexd dies, with all its sessions and transfers.
StopObexd ==
    /\ session' = [d \in Devices |-> 0]
    /\ remote' = [t \in Transfers |->
                     IF remote[t] \in DOMAIN Successors THEN "gone" ELSE remote[t]]
    /\ UNCHANGED <<sessions, mObjectPhonebookProxy, calls, pulled, objectVars, fetching, entered,
                   crashed>>

Next ==
    /\ ~crashed
    /\ \/ \E d \in Devices :
             \/ StoreSession(d) \/ RemoveSession(d)
             \/ SetPhoneBook(d) \/ GetPhonebookSize(d) \/ SearchPhoneBook(d)
             \/ PullvCard(d) \/ PullPhoneBook(d) \/ VCardListing(d)
             \/ UpdateProperties(d)
       \/ \E c \in calls : CallReply(c) \/ CallReplyElsewhere(c)
       \/ \E t \in Transfers :
             \/ FetchPropertiesReply(t)
             \/ \E s \in States : HandlePropertiesChanged(t, s)
       \/ StopObexd

Spec == Init /\ [][Next]_vars

(***************************************************************************)
(* Properties.                                                             *)
(***************************************************************************)
\* The client sees each transfer take its course, in whatever order the reply to
\* GetAll and the signals come.  Of a phone book it is told of the states in order,
\* none twice and none after the end, the last as its object has it; of a card, at
\* its end and once.  The table holds the transfers that have not ended.
Course(t) ==
    LET told == reports[t]
        ended == state[t] \in Final
    IN  IF pulled[t] = "card" THEN told = IF ended THEN <<StateString[state[t]]>> ELSE <<>>
        ELSE /\ IsInjective(told)
             /\ \A i \in DOMAIN told : told[i] \in {"completed", "error"} =>
                    i = Len(told) /\ (told[i] = "completed" /\ i > 1 => told[i - 1] = "active")
             /\ told # <<>> => Last(told) = StateString[state[t]]

TransfersTold ==
    \A t \in Transfers : pulled[t] # "none" /\ t \notin entered =>
        /\ Course(t)
        /\ t \in mTransfersMap <=> state[t] \notin Final
=============================================================================
