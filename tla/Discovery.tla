------------------------------ MODULE Discovery ------------------------------
(***************************************************************************)
(* Device discovery of one Bluez5Adapter: the classic ("legacy") scan, the *)
(* low energy scans, the one BlueZ discovery session they share, its       *)
(* filter and the discovery timeout.                                       *)
(*                                                                         *)
(* The calls to BlueZ here are synchronous, so a handler is one step; each *)
(* call may fail, which ends the handler where the code returns.  Property *)
(* changes come back later, in order, as signals: between a call and its   *)
(* signal the adapter's mDiscovering and mPowered are out of date.         *)
(*                                                                         *)
(* A handler is a function from a world, the record of all that is below,  *)
(* to the set of worlds it can leave.                                      *)
(***************************************************************************)
EXTENDS Naturals, Sequences

CONSTANTS
  ScanId,      \* ids of low energy scans; a removed scan's id is used again
  Uuid,        \* service UUIDs a filter can ask for
  NoScan,      \* no scan has the id
  MaxSignals   \* bound: property changes not delivered yet

ASSUME DiscoveryAssumption == MaxSignals \in Nat /\ NoScan \notin Uuid

\* A low energy filter of one service UUID, which BlueZ can apply, or one the
\* adapter applies itself (no criterion, a mask, data, a name, an address).
Filter == Uuid \cup {"other"}

SourceId == 1 .. 2     \* GLib source ids, 0 is none

VARIABLES
  adapter,   \* the fields of Bluez5Adapter
  bluez,     \* external: the adapter of BlueZ and our discovery session
  signals,   \* external: property changes on their way to the adapter
  timers,    \* external: discovery timeouts the main loop will fire
  failed     \* some call to BlueZ has failed

vars == <<adapter, bluez, signals, timers, failed>>

AdapterFields ==
  [mPowered : BOOLEAN,
   mDiscovering : BOOLEAN,
   mSILDiscovery : BOOLEAN,
   mUseBluezFilter : BOOLEAN,
   mLegacyScan : BOOLEAN,
   mDiscoveryTimeout : BOOLEAN,                  \* TRUE: a timeout is set
   mDiscoveryTimeoutSource : SourceId \cup {0},
   mLeScanFilters : [ScanId -> Filter \cup {NoScan}],
   \* no callback, one of the client not called yet or called already, or
   \* the empty one handleDiscoveryTimeout passes
   mCancelDiscCallback : {"none", "waiting", "called", "empty"}]

TypeOK ==
  /\ adapter \in AdapterFields
  /\ bluez \in [powered : BOOLEAN, discovering : BOOLEAN, filter : SUBSET Uuid]
  /\ signals \in Seq([key : {"Powered", "Discovering"}, value : BOOLEAN])
  /\ Len(signals) <= MaxSignals
  /\ timers \subseteq SourceId
  /\ failed \in BOOLEAN

Init ==
  /\ adapter = [mPowered |-> FALSE,
                mDiscovering |-> FALSE,
                mSILDiscovery |-> FALSE,
                mUseBluezFilter |-> FALSE,
                mLegacyScan |-> FALSE,
                mDiscoveryTimeout |-> FALSE,
                mDiscoveryTimeoutSource |-> 0,
                mLeScanFilters |-> [s \in ScanId |-> NoScan],
                mCancelDiscCallback |-> "none"]
  /\ bluez = [powered |-> FALSE, discovering |-> FALSE, filter |-> {}]
  /\ signals = <<>>
  /\ timers = {}
  /\ failed = FALSE

-----------------------------------------------------------------------------
(* Worlds *)

Now == [adapter |-> adapter, bluez |-> bluez, signals |-> signals,
        timers |-> timers, failed |-> failed, ok |-> TRUE]

Becomes(W) ==
  \E w \in W :
    /\ Len(w.signals) <= MaxSignals
    /\ adapter' = w.adapter
    /\ bluez' = w.bluez
    /\ signals' = w.signals
    /\ timers' = w.timers
    /\ failed' = w.failed

\* The worlds of Op after those of W in which no call has failed.
Then(W, Op(_)) ==
  {w \in W : ~w.ok} \cup UNION {Op(w) : w \in {v \in W : v.ok}}

Scans(w) == {s \in ScanId : w.adapter.mLeScanFilters[s] # NoScan}
ScanFilters(w) == {w.adapter.mLeScanFilters[s] : s \in Scans(w)}

-----------------------------------------------------------------------------
(* The calls to BlueZ *)

Failure(w) == [w EXCEPT !.ok = FALSE, !.failed = TRUE]

Signal(key, value) == [key |-> key, value |-> value]

SetDiscovering(w, value) ==
  [w EXCEPT !.bluez.discovering = value,
            !.signals = Append(@, Signal("Discovering", value))]

\* StartDiscovery is refused while our session runs and without power.
StartDiscoveryCall(w) ==
  {Failure(w)} \cup
    {v \in {SetDiscovering(w, TRUE)} : w.bluez.powered /\ ~w.bluez.discovering}

StopDiscoveryCall(w) ==
  {Failure(w)} \cup {v \in {SetDiscovering(w, FALSE)} : w.bluez.discovering}

\* SetDiscoveryFilter with no UUID asks for every device.
SetDiscoveryFilterCall(w, uuids) ==
  {Failure(w), [w EXCEPT !.bluez.filter = uuids]}

\* Power off ends the session.
PowerOff(w) ==
  LET off == [w EXCEPT !.bluez.powered = FALSE,
                       !.signals = Append(@, Signal("Powered", FALSE))]
  IN IF w.bluez.discovering THEN SetDiscovering(off, FALSE) ELSE off

SetPoweredCall(w, value) ==
  {Failure(w),
   IF w.bluez.powered = value THEN w
   ELSE IF value THEN [w EXCEPT !.bluez.powered = TRUE,
                                !.signals = Append(@, Signal("Powered", TRUE))]
   ELSE PowerOff(w)}

-----------------------------------------------------------------------------
(* Functions of the adapter *)

ResetDiscoveryTimeout(w) ==
  [w EXCEPT !.timers = @ \ {w.adapter.mDiscoveryTimeoutSource},
            !.adapter.mDiscoveryTimeoutSource = 0]

\* Mutant: a timeout armed earlier stays.
StartDiscoveryTimeoutKeeps(w) ==
  LET id == CHOOSE i \in SourceId : i \notin w.timers
  IN IF ~w.adapter.mDiscoveryTimeout THEN w
     ELSE [w EXCEPT !.timers = @ \cup {id},
                    !.adapter.mDiscoveryTimeoutSource = id]

StartDiscoveryTimeout(w) ==
  LET reset == ResetDiscoveryTimeout(w)
      id    == CHOOSE i \in SourceId : i \notin reset.timers
  IN IF ~w.adapter.mDiscoveryTimeout THEN reset
     ELSE [reset EXCEPT !.timers = @ \cup {id},
                        !.adapter.mDiscoveryTimeoutSource = id]

StopLeDiscovery(w) == StopDiscoveryCall(ResetDiscoveryTimeout(w))

ResumeLeDiscovery(w) ==
  Then(StartDiscoveryCall(w), LAMBDA v : {StartDiscoveryTimeout(v)})

ClearPreviousFilter(w) == SetDiscoveryFilterCall(w, {})

\* Mutant: the filter replaces the one of the other scans.
SetBluezFilterOfNewOnly(w, filter) == SetDiscoveryFilterCall(w, {filter})

\* setBluezFilter: the UUIDs of the new scan and of all the others.
SetBluezFilter(w, filter) ==
  SetDiscoveryFilterCall(w, {filter} \cup ScanFilters(w))

\* Mutant: only the new scan is looked at.
BluezFilterUsageOfNewOnly(w, filter) == filter \in Uuid

\* bluezFilterUsageCriteria: every scan, the new one included, asks for one
\* service UUID and nothing else.
BluezFilterUsageCriteria(w, filter) == {filter} \cup ScanFilters(w) \subseteq Uuid

PrepareFilterForDiscovery(w) ==
  Then(Then(StopLeDiscovery(w), ClearPreviousFilter),
       LAMBDA v : IF v.adapter.mUseBluezFilter THEN {v} ELSE ResumeLeDiscovery(v))

\* The end of a scan session, common to cancelDiscovery and cancelLeDiscovery.
StopSession(w) ==
  Then(StopDiscoveryCall(
         ResetDiscoveryTimeout([w EXCEPT !.adapter.mSILDiscovery = FALSE])),
       LAMBDA v :
         IF ~v.adapter.mUseBluezFilter THEN {v}
         ELSE Then(ClearPreviousFilter(v),
                   LAMBDA u : {[u EXCEPT !.adapter.mUseBluezFilter = FALSE]}))

-----------------------------------------------------------------------------
(* Calls of the client *)

\* With a BlueZ filter in force the session is restarted without it.  The
\* session counts as running when mDiscovering says so.
StartDiscovery ==
  LET legacy == [Now EXCEPT !.adapter.mLegacyScan = TRUE,
                            !.adapter.mUseBluezFilter = FALSE]
  IN Becomes(
       Then(IF adapter.mUseBluezFilter THEN PrepareFilterForDiscovery(legacy)
                                       ELSE {legacy},
            LAMBDA v : IF v.adapter.mDiscovering THEN {v}
                       ELSE ResumeLeDiscovery(v)))

\* Mutant: the callback is stored before StopDiscovery has succeeded.
CancelDiscoveryStoresEarly(w, callback) ==
  LET other == [w EXCEPT !.adapter.mLegacyScan = FALSE]
  IN IF ~w.adapter.mDiscovering THEN {w}
     ELSE IF Scans(w) # {} THEN {other}
     ELSE StopSession([other EXCEPT !.adapter.mCancelDiscCallback = callback])

\* cancelDiscovery from w; callback is stored once everything has succeeded,
\* otherwise it is called at once.
CancelDiscoveryFrom(w, callback) ==
  LET other == [w EXCEPT !.adapter.mLegacyScan = FALSE]
  IN IF ~w.adapter.mDiscovering THEN {w}
     ELSE IF Scans(w) # {} THEN {other}
     ELSE Then(StopSession(other),
               LAMBDA v : {[v EXCEPT !.adapter.mCancelDiscCallback = callback]})

CancelDiscovery == Becomes(CancelDiscoveryFrom(Now, "waiting"))

\* addLeDiscoveryFilter with a valid filter.  Next to a legacy scan no filter
\* of BlueZ is used; a filter the adapter applies leaves mSILDiscovery alone.
AddLeDiscoveryFilter(scan, filter) ==
  LET use      == BluezFilterUsageCriteria(Now, filter)
      start    == [Now EXCEPT !.adapter.mUseBluezFilter = use]
      Added(v) == {[v EXCEPT !.adapter.mLeScanFilters[scan] = filter]}
      Running(v) ==
        Then(IF adapter.mSILDiscovery THEN ResumeLeDiscovery(v) ELSE {v},
             LAMBDA u : {[u EXCEPT !.adapter.mSILDiscovery = TRUE]})
  IN
  /\ scan \notin Scans(Now)
  /\ IF adapter.mLegacyScan THEN Becomes(Added(Now))
     ELSE Becomes(
            Then(Then(IF adapter.mSILDiscovery THEN PrepareFilterForDiscovery(start)
                                               ELSE {start},
                      LAMBDA v : IF use THEN Then(SetBluezFilter(v, filter), Running)
                                        ELSE {v}),
                 Added))

\* removeLeDiscoveryFilter leaves the session and the filter of BlueZ alone.
RemoveLeDiscoveryFilter(scan) ==
  /\ scan \in Scans(Now)
  /\ Becomes({[Now EXCEPT !.adapter.mLeScanFilters[scan] = NoScan]})

StartLeDiscovery ==
  /\ ~adapter.mDiscovering
  /\ Becomes(ResumeLeDiscovery(Now))

CancelLeDiscovery ==
  /\ adapter.mDiscovering
  /\ Scans(Now) = {}
  /\ ~adapter.mLegacyScan
  /\ Becomes(StopSession(Now))

\* setAdapterPropertySync(DISCOVERY_TIMEOUT): a running timeout is left alone.
SetDiscoveryTimeout(value) ==
  /\ adapter.mDiscoveryTimeout # value
  /\ Becomes({[Now EXCEPT !.adapter.mDiscoveryTimeout = value]})

\* enable and disable
SetPowered(value) ==
  /\ adapter.mPowered # value
  /\ Becomes(SetPoweredCall(Now, value))

ForceRepower ==
  Becomes(Then(SetPoweredCall(Now, FALSE), LAMBDA v : SetPoweredCall(v, TRUE)))

\* getAdapterProperties: the reply holds the value of the moment and is applied
\* like a signal, in the order of the connection.
GetAdapterProperties ==
  Becomes({[Now EXCEPT !.signals =
              Append(@, Signal("Discovering", bluez.discovering))]})

-----------------------------------------------------------------------------
(* Callbacks of the main loop *)

\* handleDiscoveryTimeout: the source is gone afterwards, mDiscoveryTimeoutSource
\* keeps its id unless cancelDiscovery resets it.
HandleDiscoveryTimeout ==
  \E id \in timers :
    Becomes(CancelDiscoveryFrom([Now EXCEPT !.timers = @ \ {id}], "empty"))

\* addPropertyFromVariant: neither property counts as a change of properties.
AddProperty(w, signal) ==
  IF signal.key = "Powered" THEN [w EXCEPT !.adapter.mPowered = signal.value]
  ELSE IF signal.value = w.adapter.mDiscovering THEN w
  ELSE [w EXCEPT !.adapter.mDiscovering = signal.value,
                 !.adapter.mCancelDiscCallback =
                   IF @ = "waiting" THEN "called" ELSE @]

\* The timeout is reset when another property has changed as well.
ResetWhenStopped(w, changed) ==
  IF /\ changed
     /\ ~w.adapter.mPowered \/ ~w.adapter.mDiscovering
     /\ w.adapter.mDiscoveryTimeoutSource # 0
  THEN ResetDiscoveryTimeout(w) ELSE w

\* handleAdapterPropertiesChanged for the next signal, which may carry other
\* properties too (changed).
HandlePropertiesChanged(changed) ==
  /\ signals # <<>>
  /\ Becomes({ResetWhenStopped(
                AddProperty([Now EXCEPT !.signals = Tail(@)], Head(signals)),
                changed)})

\* The same for a signal of other properties only.
HandleOtherPropertiesChanged ==
  Becomes({ResetWhenStopped(Now, TRUE)})

\* External: the radio loses power (rfkill).
LosePower == bluez.powered /\ Becomes({PowerOff(Now)})

-----------------------------------------------------------------------------

ClientStep ==
  \/ StartDiscovery
  \/ CancelDiscovery
  \/ \E s \in ScanId :
       \/ \E f \in Filter : AddLeDiscoveryFilter(s, f)
       \/ RemoveLeDiscoveryFilter(s)
  \/ StartLeDiscovery
  \/ CancelLeDiscovery
  \/ \E b \in BOOLEAN : SetDiscoveryTimeout(b) \/ SetPowered(b)
  \/ ForceRepower
  \/ GetAdapterProperties

LoopStep ==
  \/ HandleDiscoveryTimeout
  \/ \E b \in BOOLEAN : HandlePropertiesChanged(b)
  \/ HandleOtherPropertiesChanged

Next == ClientStep \/ LoopStep \/ LosePower

Spec == Init /\ [][Next]_vars

\* The main loop delivers what has arrived on the connection.
FairSpec == Spec /\ WF_vars(\E b \in BOOLEAN : HandlePropertiesChanged(b))

-----------------------------------------------------------------------------
(* Properties *)

\* resetDiscoveryTimeout can reach every discovery timeout the main loop still
\* has to fire: a second startDiscoveryTimeout leaves no orphan behind that
\* would end a later scan too early.
TimeoutOwned == timers \subseteq {adapter.mDiscoveryTimeoutSource}

\* As long as BlueZ has refused no call, the filter in force at BlueZ hides no
\* device anybody scans for: with a filter set there is no legacy scan, and
\* every low energy scan is one of the filter's UUIDs.
FilterHidesNothing ==
  ~failed /\ bluez.filter # {} =>
    ~adapter.mLegacyScan /\ ScanFilters(Now) \subseteq bluez.filter

\* Every cancelDiscovery that stores its callback is answered: no start slips in
\* between the end of the session and its signal, and no later cancelDiscovery
\* overwrites the callback.
CancelAnswered ==
  adapter.mCancelDiscCallback = "waiting" ~> adapter.mCancelDiscCallback = "called"

\* While a callback waits, the adapter believes in the session, BlueZ has ended it and
\* started no other, and the signal that says so is on its way: whatever scans and
\* changes of power come in between, the callback will be called for that session.
AnswerUnderWay ==
  adapter.mCancelDiscCallback = "waiting" =>
    /\ adapter.mDiscovering /\ ~bluez.discovering
    /\ \E i \in DOMAIN signals : signals[i] = Signal("Discovering", FALSE)

\* What the comment in handleAdapterPropertiesChanged says: once the adapter
\* learns that it is not discovering any more (and no new session has been
\* started meanwhile), no discovery timeout is left.
TimeoutResetWhenStopped ==
  [][adapter.mDiscovering /\ ~adapter'.mDiscovering /\ ~bluez'.discovering
       => timers' = {}]_vars
=============================================================================
