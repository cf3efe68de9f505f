------------------------------- MODULE Pairing -------------------------------
(***************************************************************************)
(* Pairing as the adapters (Bluez5Adapter), the pairing agent              *)
(* (Bluez5Agent) and the device objects (Bluez5Device) carry it out        *)
(* together.  Everything runs in one GLib main loop: an action is one      *)
(* callback of that loop, that is a call of the client, the reply to an    *)
(* asynchronous D-Bus call, or a method BlueZ calls on the agent.          *)
(*                                                                         *)
(* A device is named by its object path, the pair of its adapter and of    *)
(* the remote address.  Calls the code refuses before it touches any state *)
(* (an empty address, BUSY, UNKNOWN_DEVICE_ADDR, a missing pairing info)   *)
(* are stuttering steps and have no action.                                *)
(***************************************************************************)
EXTENDS Naturals

CONSTANTS
  Adapter,     \* the adapters
  Address,     \* addresses of the remote devices
  NoAddress,   \* mCurrentPairingDevice is the null pointer
  Freed,       \* mCurrentPairingDevice points to a device since deleted
  NoInfo,      \* the agent has no pairing info for a path
  MaxCalls     \* bound: calls of one kind in flight on one device

ASSUME PairingAssumption ==
  /\ MaxCalls \in Nat \ {0}
  /\ NoAddress \notin Address /\ Freed \notin Address /\ NoAddress # Freed

Path == Adapter \X Address

\* A GDBusMethodInvocation the agent holds: no pointer, not replied to yet, or
\* replied to (GDBus frees it with the reply; the agent keeps the pointer).
Invocation == {"null", "open", "closed"}

\* Bluez5AgentPairingInfo.  requestAuthorization is never set and
\* displayPairingSecret never read.
PairingInfo == [incoming : BOOLEAN,
                requestConfirmation : Invocation,
                requestPairingSecret : Invocation]

ASSUME NoInfoAssumption == NoInfo \notin PairingInfo

VARIABLES
  agent,                  \* the SIL has an agent, and every adapter its pointer
  mDevicePairings,        \* agent: pairing infos by object path
  devices,                \* adapters: the paths in mDevices
  mPairing,               \* adapters: the busy flag
  mCurrentPairingDevice,  \* adapters: device of the last accepted pair()
  pairCalls,              \* Device1.Pair calls in flight, by path
  cancelCalls,            \* Device1.CancelPairing calls of clients in flight
  stale,                  \* paths with calls in flight of a deleted device object
  waiting,                \* what BlueZ waits for from the agent, by path
  crashed                 \* the process died of a null or dangling pointer

vars == <<agent, mDevicePairings, devices, mPairing, mCurrentPairingDevice,
          pairCalls, cancelCalls, stale, waiting, crashed>>

TypeOK ==
  /\ agent \in BOOLEAN
  /\ mDevicePairings \in [Path -> PairingInfo \cup {NoInfo}]
  /\ devices \subseteq Path
  /\ mPairing \in [Adapter -> BOOLEAN]
  /\ mCurrentPairingDevice \in [Adapter -> Address \cup {NoAddress, Freed}]
  /\ pairCalls \in [Path -> 0 .. MaxCalls]
  /\ cancelCalls \in [Path -> 0 .. MaxCalls]
  /\ stale \subseteq Path
  /\ waiting \in [Path -> {"none", "confirmation", "secret"}]
  /\ crashed \in BOOLEAN

\* Adapters are created, and announced to the client, before the agent is.
Init ==
  /\ agent = FALSE
  /\ mDevicePairings = [p \in Path |-> NoInfo]
  /\ devices = {}
  /\ mPairing = [a \in Adapter |-> FALSE]
  /\ mCurrentPairingDevice = [a \in Adapter |-> NoAddress]
  /\ pairCalls = [p \in Path |-> 0]
  /\ cancelCalls = [p \in Path |-> 0]
  /\ stale = {}
  /\ waiting = [p \in Path |-> "none"]
  /\ crashed = FALSE

-----------------------------------------------------------------------------
(* Helpers of the agent *)

NewInfo(incoming) == [incoming |-> incoming,
                      requestConfirmation |-> "null",
                      requestPairingSecret |-> "null"]

\* startPairingForDevice: the info of p afterwards; refused when one exists.
StartedInfo(p, incoming) ==
  IF mDevicePairings[p] = NoInfo THEN NewInfo(incoming) ELSE mDevicePairings[p]

\* Mutant: no info is removed, the flag is cleared.
StopPairingForDeviceKeepsInfo(p) ==
  /\ UNCHANGED mDevicePairings
  /\ mPairing' = [mPairing EXCEPT ![p[1]] = FALSE]

\* Mutant: an info removed without clearing the flag.
StopPairingForDeviceKeepsFlag(p) ==
  /\ mDevicePairings' = [mDevicePairings EXCEPT ![p] = NoInfo]
  /\ UNCHANGED mPairing

\* stopPairingForDevice: the busy flag is cleared only with an info.
StopPairingForDevice(p) ==
  IF mDevicePairings[p] = NoInfo
  THEN UNCHANGED <<mDevicePairings, mPairing>>
  ELSE /\ mDevicePairings' = [mDevicePairings EXCEPT ![p] = NoInfo]
       /\ mPairing' = [mPairing EXCEPT ![p[1]] = FALSE]

\* findPairingInfoForAddress: some info of the address, whatever its adapter
\* (mDevicePairings is an unordered map).
FoundForAddress(q, x) == q[2] = x /\ mDevicePairings[q] # NoInfo

\* A reply to invocation i: undefined behaviour when it was replied to before.
Reply(i) == IF i = "closed" THEN crashed' \in BOOLEAN ELSE UNCHANGED crashed

-----------------------------------------------------------------------------
(* Calls of the client *)

\* Bluez5Adapter::pair with Bluez5Device::pair.  The result of
\* startPairingForDevice is ignored; without an agent the flag stays set.
Pair(a, x) ==
  LET p == <<a, x>> IN
  /\ ~mPairing[a]
  /\ p \in devices
  /\ mCurrentPairingDevice' = [mCurrentPairingDevice EXCEPT ![a] = x]
  /\ mPairing' = [mPairing EXCEPT ![a] = TRUE]
  /\ \/ /\ ~agent
        /\ UNCHANGED <<mDevicePairings, pairCalls>>
     \/ /\ agent
        /\ pairCalls[p] < MaxCalls
        /\ pairCalls' = [pairCalls EXCEPT ![p] = @ + 1]
        /\ mDevicePairings' =
             [mDevicePairings EXCEPT ![p] = StartedInfo(p, FALSE)]
  /\ UNCHANGED <<agent, devices, cancelCalls, stale, waiting, crashed>>

\* Bluez5Adapter::cancelPairing.  A dangling mCurrentPairingDevice may or may
\* not compare equal to a device allocated later.
CancelOutgoing(a, x) ==
  LET p == <<a, x>> IN
  /\ mPairing[a]
  /\ p \in devices
  /\ mCurrentPairingDevice[a] \in {x, Freed}
  /\ cancelCalls[p] < MaxCalls
  /\ cancelCalls' = [cancelCalls EXCEPT ![p] = @ + 1]
  /\ UNCHANGED <<agent, mDevicePairings, devices, mPairing,
                 mCurrentPairingDevice, pairCalls, stale, waiting, crashed>>

\* The other branch: Bluez5Agent::cancelPairing answers the first request it
\* finds with Canceled; the info stays and the flag is cleared.
CancelIncoming(a, x) ==
  /\ mPairing[a]
  /\ <<a, x>> \in devices
  /\ mCurrentPairingDevice[a] # x
  /\ \/ /\ ~agent
        /\ crashed' = TRUE
        /\ UNCHANGED <<mDevicePairings, mPairing, waiting>>
     \/ /\ agent
        /\ \E q \in Path :
             LET info    == mDevicePairings[q]
                 confirm == info.requestConfirmation # "null"
             IN
             /\ FoundForAddress(q, x)
             /\ confirm \/ info.requestPairingSecret # "null"
             /\ Reply(IF confirm THEN info.requestConfirmation
                               ELSE info.requestPairingSecret)
             /\ mDevicePairings' = [mDevicePairings EXCEPT ![q] =
                  IF confirm THEN [info EXCEPT !.requestConfirmation = "closed"]
                             ELSE [info EXCEPT !.requestPairingSecret = "closed"]]
             /\ waiting' = [waiting EXCEPT ![q] = "none"]
        /\ mPairing' = [mPairing EXCEPT ![a] = FALSE]
  /\ UNCHANGED <<agent, devices, mCurrentPairingDevice, pairCalls,
                 cancelCalls, stale>>

\* supplyPairingConfirmation, accepting or not.  The info removed is the one
\* of the adapter called, the request answered the first one of the address.
SupplyPairingConfirmation(a, x) ==
  /\ agent
  /\ \E q \in Path :
       LET info == mDevicePairings[q]
           p    == <<a, x>>
           done == info.incoming /\ p \in devices /\ mDevicePairings[p] # NoInfo
       IN
       /\ FoundForAddress(q, x)
       /\ info.requestConfirmation # "null"
       /\ Reply(info.requestConfirmation)
       /\ waiting' = [waiting EXCEPT ![q] = "none"]
       /\ mDevicePairings' =
            [r \in Path |->
               IF done /\ r = p THEN NoInfo
               ELSE IF r = q THEN [info EXCEPT !.requestConfirmation = "closed"]
               ELSE mDevicePairings[r]]
       /\ mPairing' = IF done THEN [mPairing EXCEPT ![a] = FALSE] ELSE mPairing
  /\ UNCHANGED <<agent, devices, mCurrentPairingDevice, pairCalls,
                 cancelCalls, stale>>

\* supplyPairingSecret, passkey or PIN: the info is never removed.
SupplyPairingSecret(x) ==
  /\ agent
  /\ \E q \in Path :
       /\ FoundForAddress(q, x)
       /\ mDevicePairings[q].requestPairingSecret # "null"
       /\ Reply(mDevicePairings[q].requestPairingSecret)
       /\ mDevicePairings' =
            [mDevicePairings EXCEPT ![q].requestPairingSecret = "closed"]
       /\ waiting' = [waiting EXCEPT ![q] = "none"]
  /\ UNCHANGED <<agent, devices, mPairing, mCurrentPairingDevice, pairCalls,
                 cancelCalls, stale>>

-----------------------------------------------------------------------------
(* Replies to the asynchronous calls *)

StillStale(p) ==
  stale' = IF pairCalls'[p] + cancelCalls'[p] = 0 THEN stale \ {p} ELSE stale

\* Mutant: the timeout does not end the call, its late answer comes as well.
PairReplyAfterTimeout(p, timeout) ==
  /\ agent
  /\ pairCalls' = [pairCalls EXCEPT ![p] = @ - 1]
  /\ waiting' = IF timeout THEN waiting ELSE [waiting EXCEPT ![p] = "none"]
  /\ StopPairingForDevice(p)
  /\ UNCHANGED <<agent, devices, mCurrentPairingDevice, cancelCalls, crashed>>
  /\ StillStale(p)

\* pairCallback of Bluez5Device::pair.  BlueZ waits no longer once it answered;
\* after a local timeout it still does.
PairReply(p, timeout) ==
  /\ pairCalls[p] > 0
  /\ agent
  /\ pairCalls' = [pairCalls EXCEPT ![p] = @ - 1]
  /\ waiting' = IF timeout THEN waiting ELSE [waiting EXCEPT ![p] = "none"]
  /\ StopPairingForDevice(p)
  /\ UNCHANGED <<agent, devices, mCurrentPairingDevice, cancelCalls, crashed>>
  /\ StillStale(p)

\* cancelPairingCallback of Bluez5Device::cancelPairing.
CancelReply(p, ok) ==
  /\ cancelCalls[p] > 0
  /\ cancelCalls' = [cancelCalls EXCEPT ![p] = @ - 1]
  /\ mPairing' = IF ok THEN [mPairing EXCEPT ![p[1]] = FALSE] ELSE mPairing
  /\ UNCHANGED <<agent, mDevicePairings, devices, mCurrentPairingDevice,
                 pairCalls, waiting, crashed>>
  /\ StillStale(p)

\* The same callbacks where they are undefined: the device object they captured
\* was deleted (the actions above are the other outcome, where its memory is
\* intact), or pairCallback finds no agent.
ReplyCrash(p) ==
  /\ \/ pairCalls[p] + cancelCalls[p] > 0 /\ p \in stale
     \/ pairCalls[p] > 0 /\ ~agent
  /\ crashed' = TRUE
  /\ UNCHANGED <<agent, mDevicePairings, devices, mPairing,
                 mCurrentPairingDevice, pairCalls, cancelCalls, stale, waiting>>

-----------------------------------------------------------------------------
(* Methods BlueZ calls on the agent *)

\* initiatePairing for a path without info: an incoming attempt, refused when
\* the device is not known.  The handler then replies and returns FALSE, which
\* makes GDBus reply to the freed invocation a second time.
RefuseRequest(p) ==
  /\ agent
  /\ waiting[p] = "none"
  /\ mDevicePairings[p] = NoInfo
  /\ p \notin devices
  /\ crashed' \in BOOLEAN
  /\ UNCHANGED <<agent, mDevicePairings, devices, mPairing,
                 mCurrentPairingDevice, pairCalls, cancelCalls, stale, waiting>>

\* initiatePairing, after which the handler leaves info for p.
InitiatePairing(p, info) ==
  /\ agent
  /\ waiting[p] = "none"
  /\ mDevicePairings[p] # NoInfo \/ p \in devices
  /\ mDevicePairings' = [mDevicePairings EXCEPT ![p] = info]
  /\ mPairing' = IF mDevicePairings[p] = NoInfo
                 THEN [mPairing EXCEPT ![p[1]] = TRUE] ELSE mPairing
  /\ UNCHANGED <<agent, devices, mCurrentPairingDevice, pairCalls,
                 cancelCalls, stale, crashed>>

HandleRequestConfirmation(p) ==
  /\ InitiatePairing(p, [StartedInfo(p, TRUE) EXCEPT !.requestConfirmation = "open"])
  /\ waiting' = [waiting EXCEPT ![p] = "confirmation"]

\* handleRequestPasskey and handleRequestPinCode
HandleRequestSecret(p) ==
  /\ InitiatePairing(p, [StartedInfo(p, TRUE) EXCEPT !.requestPairingSecret = "open"])
  /\ waiting' = [waiting EXCEPT ![p] = "secret"]

\* handleDisplayPasskey and handleDisplayPinCode reply at once
HandleDisplay(p) ==
  /\ InitiatePairing(p, StartedInfo(p, TRUE))
  /\ UNCHANGED waiting

\* BlueZ drops a request and calls handleCancel, which tells the client and
\* changes nothing.
HandleCancel(p) ==
  /\ agent
  /\ waiting[p] # "none"
  /\ waiting' = [waiting EXCEPT ![p] = "none"]
  /\ UNCHANGED <<agent, mDevicePairings, devices, mPairing,
                 mCurrentPairingDevice, pairCalls, cancelCalls, stale, crashed>>

-----------------------------------------------------------------------------
(* Objects that come and go *)

CreateAgentManager ==
  /\ ~agent
  /\ agent' = TRUE
  /\ UNCHANGED <<mDevicePairings, devices, mPairing, mCurrentPairingDevice,
                 pairCalls, cancelCalls, stale, waiting, crashed>>

\* The infos go with the agent, the adapters' busy flags stay.
RemoveAgentManager ==
  /\ agent
  /\ agent' = FALSE
  /\ mDevicePairings' = [p \in Path |-> NoInfo]
  /\ waiting' = [p \in Path |-> "none"]
  /\ UNCHANGED <<devices, mPairing, mCurrentPairingDevice, pairCalls,
                 cancelCalls, stale, crashed>>

AddDevice(p) ==
  /\ p \notin devices
  /\ devices' = devices \cup {p}
  /\ UNCHANGED <<agent, mDevicePairings, mPairing, mCurrentPairingDevice,
                 pairCalls, cancelCalls, stale, waiting, crashed>>

\* removeDevice deletes the object and tells neither the agent nor the calls
\* in flight.
RemoveDevice(p) ==
  /\ p \in devices
  /\ devices' = devices \ {p}
  /\ mCurrentPairingDevice' =
       [mCurrentPairingDevice EXCEPT ![p[1]] = IF @ = p[2] THEN Freed ELSE @]
  /\ stale' = IF pairCalls[p] + cancelCalls[p] > 0 THEN stale \cup {p} ELSE stale
  /\ UNCHANGED <<agent, mDevicePairings, mPairing, pairCalls, cancelCalls,
                 waiting, crashed>>

-----------------------------------------------------------------------------

ClientStep ==
  \/ \E a \in Adapter, x \in Address :
       \/ Pair(a, x)
       \/ CancelOutgoing(a, x)
       \/ CancelIncoming(a, x)
       \/ SupplyPairingConfirmation(a, x)
  \/ \E x \in Address : SupplyPairingSecret(x)

ReplyStep ==
  \E p \in Path :
    \/ \E b \in BOOLEAN : PairReply(p, b) \/ CancelReply(p, b)
    \/ ReplyCrash(p)

AgentStep ==
  \E p \in Path :
    \/ RefuseRequest(p)
    \/ HandleRequestConfirmation(p)
    \/ HandleRequestSecret(p)
    \/ HandleDisplay(p)
    \/ HandleCancel(p)

ObjectStep ==
  \/ CreateAgentManager
  \/ RemoveAgentManager
  \/ \E p \in Path : AddDevice(p) \/ RemoveDevice(p)

\* A dead process takes no step.
Next == ~crashed /\ (ClientStep \/ ReplyStep \/ AgentStep \/ ObjectStep)

Spec == Init /\ [][Next]_vars

-----------------------------------------------------------------------------
(* Properties *)

\* An outgoing pairing info always has its Device1.Pair call in flight: the
\* callback of that call is the only thing that will remove the info (comment
\* in Bluez5Agent::supplyPairingConfirmation), so without the call the device
\* could never be paired again.
Outgoing(p) == mDevicePairings[p] # NoInfo /\ ~mDevicePairings[p].incoming

OutgoingInfoHasPairCall == \A p \in Path : Outgoing(p) => pairCalls[p] > 0

\* The busy flag refuses every further pair() with BUSY.  A step may leave an
\* adapter busy although the agent has no pairing of it only when there is no
\* agent: with an agent, whoever removes the last info clears the flag.
Stranded(a) ==
  mPairing[a] /\ \A x \in Address : mDevicePairings[<<a, x>>] = NoInfo

StrandedOnlyWithoutAgent ==
  [][\A a \in Adapter : Stranded(a)' => Stranded(a) \/ ~agent']_vars

\* What the comment in Bluez5Agent::supplyPairingConfirmation says: while the
\* client's own Pair call on a device is in flight, the pairing info of that
\* device is removed by the callback of that call and by nothing else (the
\* agent's own removal aside).
InfoKeptUntilPairCallback ==
  [][\A p \in Path :
       (pairCalls[p] > 0 /\ mDevicePairings[p] # NoInfo
          /\ mDevicePairings'[p] = NoInfo)
       => pairCalls'[p] < pairCalls[p] \/ ~agent']_vars
=============================================================================
