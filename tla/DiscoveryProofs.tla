--------------------------- MODULE DiscoveryProofs ---------------------------
(***************************************************************************)
(* What holds of device discovery for every set of scans and UUIDs and     *)
(* every bound on the signals under way.                                   *)
(*                                                                         *)
(* A handler leaves one world of a set that its calls to BlueZ build step  *)
(* by step, so the lemmas are about worlds: what a call or a function      *)
(* keeps of the world it is given (Kept, Quiet), and from that what every  *)
(* handler leaves true of the state (Inv, AnswerUnderWay).                 *)
(***************************************************************************)
EXTENDS Discovery, TLAPS

Change == [key : {"Powered", "Discovering"}, value : BOOLEAN]

World ==
  [adapter : AdapterFields,
   bluez : [powered : BOOLEAN, discovering : BOOLEAN, filter : SUBSET Uuid],
   signals : Seq(Change), timers : SUBSET SourceId, failed : BOOLEAN, ok : BOOLEAN]

\* A world in which every timer can be reached and a call that failed is known.
Owned(w) ==
  /\ w \in World
  /\ w.timers \subseteq {w.adapter.mDiscoveryTimeoutSource}
  /\ ~w.ok => w.failed

\* No failure is forgotten from w to v.
Failing(w, v) == w.failed => v.failed

\* What the two kinds of scan ask for is the same in v as in w.
SameScans(w, v) ==
  /\ v.adapter.mLegacyScan = w.adapter.mLegacyScan
  /\ v.adapter.mLeScanFilters = w.adapter.mLeScanFilters
  /\ v.adapter.mUseBluezFilter = w.adapter.mUseBluezFilter
  /\ v.adapter.mSILDiscovery = w.adapter.mSILDiscovery

\* From w to v no scan changes and the filter of BlueZ is left alone.
Kept(w, v) ==
  Owned(v) /\ Failing(w, v) /\ SameScans(w, v) /\ v.bluez.filter = w.bluez.filter

\* The queue of signals stays one.
LEMMA AddedSignal ==
  ASSUME NEW q \in Seq(Change), NEW key \in {"Powered", "Discovering"}, NEW b \in BOOLEAN
  PROVE  Append(q, Signal(key, b)) \in Seq(Change)
  <1>1. Signal(key, b) \in Change
    BY DEF Signal, Change
  <1> QED
    BY <1>1

\* A session that starts or ends at BlueZ touches neither scans nor filter.
LEMMA SetDiscoveringKeeps ==
  ASSUME NEW w, Owned(w), NEW b \in BOOLEAN
  PROVE  Kept(w, SetDiscovering(w, b)) /\ SetDiscovering(w, b).adapter = w.adapter
         /\ SetDiscovering(w, b).ok = w.ok
  BY AddedSignal DEF SetDiscovering, Kept, Owned, World, Failing, SameScans

\* A call that fails changes nothing but what is known of failures.
LEMMA FailureKeeps ==
  ASSUME NEW w, Owned(w)
  PROVE  Kept(w, Failure(w)) /\ ~Failure(w).ok
  BY DEF Failure, Kept, Owned, World, Failing, SameScans

LEMMA StartCallKeeps ==
  ASSUME NEW w, Owned(w), NEW v \in StartDiscoveryCall(w)
  PROVE  Kept(w, v)
  BY FailureKeeps, SetDiscoveringKeeps DEF StartDiscoveryCall

LEMMA StopCallKeeps ==
  ASSUME NEW w, Owned(w), NEW v \in StopDiscoveryCall(w)
  PROVE  Kept(w, v)
  BY FailureKeeps, SetDiscoveringKeeps DEF StopDiscoveryCall

\* SetDiscoveryFilter changes the filter alone, and only if it succeeds.
LEMMA FilterCallSets ==
  ASSUME NEW w, Owned(w), NEW uuids \in SUBSET Uuid, NEW v \in SetDiscoveryFilterCall(w, uuids)
  PROVE  /\ Owned(v) /\ Failing(w, v) /\ SameScans(w, v)
         /\ v.ok => v.bluez.filter = uuids
  <1>1. CASE v = Failure(w)
    BY <1>1, FailureKeeps DEF Kept
  <1>2. CASE v = [w EXCEPT !.bluez.filter = uuids]
    BY <1>2 DEF Owned, World, Failing, SameScans
  <1> QED
    BY <1>1, <1>2 DEF SetDiscoveryFilterCall

\* Power, on or off, leaves scans and filter alone.
LEMMA PowerOffKeeps ==
  ASSUME NEW w, Owned(w)
  PROVE  Kept(w, PowerOff(w))
  <1> DEFINE off == [w EXCEPT !.bluez.powered = FALSE,
                              !.signals = Append(@, Signal("Powered", FALSE))]
  <1>1. Kept(w, off)
    BY AddedSignal DEF Kept, Owned, World, Failing, SameScans
  <1> HIDE DEF off
  <1>2. Kept(off, SetDiscovering(off, FALSE))
    BY <1>1, SetDiscoveringKeeps DEF Kept
  <1>3. PowerOff(w) \in {off, SetDiscovering(off, FALSE)}
    BY DEF PowerOff, off
  <1> QED
    BY <1>1, <1>2, <1>3 DEF Kept, Failing, SameScans

LEMMA PowerCallKeeps ==
  ASSUME NEW w, Owned(w), NEW b \in BOOLEAN, NEW v \in SetPoweredCall(w, b)
  PROVE  Kept(w, v)
  <1> DEFINE on == [w EXCEPT !.bluez.powered = TRUE,
                             !.signals = Append(@, Signal("Powered", TRUE))]
  <1>1. Kept(w, on)
    BY AddedSignal DEF Kept, Owned, World, Failing, SameScans
  <1>2. Kept(w, w)
    BY DEF Kept, Failing, SameScans
  <1>3. v \in {Failure(w), w, on, PowerOff(w)}
    BY DEF SetPoweredCall
  <1> QED
    BY <1>1, <1>2, <1>3, FailureKeeps, PowerOffKeeps

\* resetDiscoveryTimeout leaves no timer: the one there is is the one it knows.
LEMMA ResetKeeps ==
  ASSUME NEW w, Owned(w)
  PROVE  LET v == ResetDiscoveryTimeout(w)
         IN  Kept(w, v) /\ v.timers = {} /\ v.ok = w.ok
  <1> DEFINE v == ResetDiscoveryTimeout(w)
  <1>1. v.timers = {}
    BY DEF ResetDiscoveryTimeout, Owned, World
  <1>2. v \in World /\ v.ok = w.ok /\ v.failed = w.failed /\ v.bluez = w.bluez
    BY DEF ResetDiscoveryTimeout, Owned, World, AdapterFields
  <1>3. SameScans(w, v)
    BY DEF ResetDiscoveryTimeout, Owned, World, AdapterFields, SameScans
  <1> QED
    BY <1>1, <1>2, <1>3 DEF Kept, Owned, Failing

\* startDiscoveryTimeout leaves at most the timer whose id it stores.
LEMMA StartTimeoutKeeps ==
  ASSUME NEW w, Owned(w)
  PROVE  Kept(w, StartDiscoveryTimeout(w))
  <1> DEFINE r == ResetDiscoveryTimeout(w)
             id == CHOOSE i \in SourceId : i \notin r.timers
             v == [r EXCEPT !.timers = @ \cup {id}, !.adapter.mDiscoveryTimeoutSource = id]
  <1>1. Kept(w, r) /\ r.timers = {}
    BY ResetKeeps
  <1> HIDE DEF r
  <1>2. id \in SourceId
    BY <1>1 DEF SourceId
  <1> HIDE DEF id
  <1>3. v.timers = {id} /\ v.adapter.mDiscoveryTimeoutSource = id /\ v \in World
        /\ v.ok = r.ok /\ v.failed = r.failed /\ v.bluez = r.bluez
    BY <1>1, <1>2 DEF Kept, Owned, World, AdapterFields
  <1>4. SameScans(r, v)
    BY <1>1 DEF Kept, Owned, World, AdapterFields, SameScans
  <1> HIDE DEF v
  <1>5. Kept(w, v)
    BY <1>1, <1>3, <1>4 DEF Kept, Owned, Failing, SameScans
  <1>6. StartDiscoveryTimeout(w) \in {r, v}
    BY DEF StartDiscoveryTimeout, r, v, id
  <1> QED
    BY <1>1, <1>5, <1>6

\* Kept is transitive, and what a restart of the session leaves alone with it.
LEMMA KeptTwice ==
  ASSUME NEW w, NEW v, NEW u, Kept(w, v), Kept(v, u)
  PROVE  Kept(w, u)
  BY DEF Kept, Failing, SameScans

\* The end and the new start of the session.
LEMMA StopLeKeeps ==
  ASSUME NEW w, Owned(w), NEW v \in StopLeDiscovery(w)
  PROVE  Kept(w, v)
  <1> DEFINE r == ResetDiscoveryTimeout(w)
  <1>1. Kept(w, r)
    BY ResetKeeps
  <1>2. v \in StopDiscoveryCall(r)
    BY DEF StopLeDiscovery
  <1> HIDE DEF r
  <1>3. Kept(r, v)
    BY <1>1, <1>2, StopCallKeeps DEF Kept
  <1> QED
    BY <1>1, <1>3, KeptTwice

LEMMA ResumeKeeps ==
  ASSUME NEW w, Owned(w), NEW v \in ResumeLeDiscovery(w)
  PROVE  Kept(w, v)
  <1>1. CASE v \in StartDiscoveryCall(w)
    BY <1>1, StartCallKeeps
  <1>2. ASSUME NEW u \in StartDiscoveryCall(w), v = StartDiscoveryTimeout(u)
        PROVE  Kept(w, v)
    <2>1. Kept(w, u)
      BY StartCallKeeps
    <2>2. Kept(u, v)
      BY <1>2, <2>1, StartTimeoutKeeps DEF Kept
    <2> QED
      BY <2>1, <2>2, KeptTwice
  <1> QED
    BY <1>1, <1>2 DEF ResumeLeDiscovery, Then

\* The restart of the session that a new filter needs: the filter of BlueZ is cleared, or
\* a call has failed.
LEMMA PrepareKeeps ==
  ASSUME NEW w, Owned(w), NEW v \in PrepareFilterForDiscovery(w)
  PROVE  /\ Owned(v) /\ Failing(w, v) /\ SameScans(w, v)
         /\ v.failed \/ v.bluez.filter = {}
  <1> DEFINE C == Then(StopLeDiscovery(w), ClearPreviousFilter)
  <1>1. ASSUME NEW u \in C
        PROVE  /\ Owned(u) /\ Failing(w, u) /\ SameScans(w, u)
               /\ u.failed \/ u.bluez.filter = {}
    <2>1. CASE u \in StopLeDiscovery(w) /\ ~u.ok
      BY <2>1, StopLeKeeps DEF Kept, Owned
    <2>2. ASSUME NEW t \in StopLeDiscovery(w), u \in ClearPreviousFilter(t)
          PROVE  /\ Owned(u) /\ Failing(w, u) /\ SameScans(w, u)
                 /\ u.failed \/ u.bluez.filter = {}
      <3>1. Kept(w, t)
        BY StopLeKeeps
      <3>2. /\ Owned(u) /\ Failing(t, u) /\ SameScans(t, u)
            /\ u.ok => u.bluez.filter = {}
        BY <2>2, <3>1, FilterCallSets DEF ClearPreviousFilter, Kept
      <3> QED
        BY <3>1, <3>2 DEF Kept, Owned, Failing, SameScans
    <2> QED
      BY <2>1, <2>2 DEF Then
  <1>2. \/ v \in C
        \/ \E u \in C : v \in ResumeLeDiscovery(u)
    BY DEF PrepareFilterForDiscovery, Then
  <1> HIDE DEF C
  <1>3. ASSUME NEW u \in C, v \in ResumeLeDiscovery(u)
        PROVE  /\ Owned(v) /\ Failing(w, v) /\ SameScans(w, v)
               /\ v.failed \/ v.bluez.filter = {}
    <2>1. Kept(u, v)
      BY <1>1, <1>3, ResumeKeeps
    <2> QED
      BY <1>1, <2>1 DEF Kept, Owned, Failing, SameScans
  <1> QED
    BY <1>1, <1>2, <1>3

-----------------------------------------------------------------------------
(* The filter *)

\* A filter is in force at BlueZ only while the adapter uses one for a session of its
\* scans, and it lets their devices through.
Wide(w) ==
  ~w.failed /\ w.bluez.filter # {} =>
    /\ ~w.adapter.mLegacyScan /\ ScanFilters(w) \subseteq w.bluez.filter
    /\ w.adapter.mUseBluezFilter /\ w.adapter.mSILDiscovery

Sound(w) == Owned(w) /\ Wide(w)

\* The filters of the scans depend on nothing else.
LEMMA SameFilters ==
  ASSUME NEW w, NEW v, v.adapter.mLeScanFilters = w.adapter.mLeScanFilters
  PROVE  ScanFilters(v) = ScanFilters(w) /\ Scans(v) = Scans(w)
  BY DEF ScanFilters, Scans

\* A step that keeps the scans and the filter keeps the filter wide.
LEMMA KeptSound ==
  ASSUME NEW w, NEW v, Sound(w), Kept(w, v)
  PROVE  Sound(v)
  BY SameFilters DEF Sound, Kept, Wide, SameScans, Failing

\* A world that has no filter in force, or in which a call has failed, is sound.
LEMMA ClearSound ==
  ASSUME NEW v, Owned(v), v.failed \/ v.bluez.filter = {}
  PROVE  Sound(v)
  BY DEF Sound, Wide

\* The end of the session takes the filter with it.
LEMMA StopSessionSound ==
  ASSUME NEW w, Sound(w), NEW v \in StopSession(w)
  PROVE  Sound(v)
  <1> DEFINE a == [w EXCEPT !.adapter.mSILDiscovery = FALSE]
             r == ResetDiscoveryTimeout(a)
  <1>1. /\ Owned(a) /\ Failing(w, a)
        /\ a.bluez.filter = w.bluez.filter
        /\ a.adapter.mUseBluezFilter = w.adapter.mUseBluezFilter
    BY DEF Sound, Owned, World, AdapterFields, Failing
  <1> HIDE DEF a
  <1>2. Kept(a, r)
    BY <1>1, ResetKeeps
  <1> DEFINE F(u) == [u EXCEPT !.adapter.mUseBluezFilter = FALSE]
             E(u) == {t \in ClearPreviousFilter(u) : ~t.ok}
                       \cup UNION {{F(t)} : t \in {x \in ClearPreviousFilter(u) : x.ok}}
             S == StopDiscoveryCall(r)
  <1>9. StopSession(w) = {u \in S : ~u.ok} \cup
                           UNION {IF ~u.adapter.mUseBluezFilter THEN {u} ELSE E(u) :
                                    u \in {x \in S : x.ok}}
    BY Zenon DEF StopSession, Then, r, a
  <1> HIDE DEF F, S
  <1>3. \/ v \in S /\ (~v.ok \/ ~v.adapter.mUseBluezFilter)
        \/ \E u \in S : \/ v \in ClearPreviousFilter(u) /\ ~v.ok
                        \/ \E t \in ClearPreviousFilter(u) : t.ok /\ v = F(t)
    BY <1>9
  <1> USE DEF F, S
  <1> HIDE DEF r
  <1>4. ASSUME NEW u \in StopDiscoveryCall(r)
        PROVE  Kept(a, u)
    BY <1>2, <1>4, StopCallKeeps, KeptTwice DEF Kept
  <1>5. CASE v \in StopDiscoveryCall(r) /\ (~v.ok \/ ~v.adapter.mUseBluezFilter)
    <2>1. Kept(a, v)
      BY <1>4, <1>5
    <2>2. v.failed \/ v.bluez.filter = {}
      BY <1>1, <1>5, <2>1 DEF Kept, Owned, Sound, Wide, SameScans, Failing
    <2> QED
      BY <2>1, <2>2, ClearSound DEF Kept
  <1>6. ASSUME NEW u \in StopDiscoveryCall(r), v \in ClearPreviousFilter(u), ~v.ok
        PROVE  Sound(v)
    <2>1. Owned(v)
      BY <1>4, <1>6, FilterCallSets DEF ClearPreviousFilter, Kept
    <2> QED
      BY <1>6, <2>1, ClearSound DEF Owned
  <1>7. ASSUME NEW u \in StopDiscoveryCall(r), NEW t \in ClearPreviousFilter(u), t.ok,
               v = [t EXCEPT !.adapter.mUseBluezFilter = FALSE]
        PROVE  Sound(v)
    <2>1. Owned(t) /\ t.bluez.filter = {}
      BY <1>4, <1>7, FilterCallSets DEF ClearPreviousFilter, Kept
    <2>2. Owned(v) /\ v.bluez.filter = {}
      BY <1>7, <2>1 DEF Owned, World, AdapterFields
    <2> QED
      BY <2>2, ClearSound
  <1> QED
    BY <1>3, <1>5, <1>6, <1>7

-----------------------------------------------------------------------------
(* The invariant *)

Inv == TypeOK /\ TimeoutOwned /\ Wide(Now)

\* The state as a world, and a world as the next state.
LEMMA NowSound ==
  ASSUME Inv
  PROVE  Sound(Now)
  <1>1. Owned(Now)
    BY DEF Inv, TypeOK, TimeoutOwned, Owned, World, Now, Change
  <1> QED
    BY <1>1 DEF Sound, Inv

LEMMA BecomesSound ==
  ASSUME NEW W, \A w \in W : Sound(w), Becomes(W)
  PROVE  Inv'
  <1>1. PICK w \in W :
          /\ Len(w.signals) <= MaxSignals
          /\ adapter' = w.adapter /\ bluez' = w.bluez /\ signals' = w.signals
          /\ timers' = w.timers /\ failed' = w.failed
    BY DEF Becomes
  <1>2. Owned(w) /\ Wide(w)
    BY DEF Sound
  <1>3. TypeOK'
    BY <1>1, <1>2 DEF TypeOK, Owned, World, Change
  <1>4. TimeoutOwned'
    BY <1>1, <1>2 DEF TimeoutOwned, Owned
  <1>5. /\ Now'.adapter = w.adapter /\ Now'.bluez = w.bluez /\ Now'.failed = w.failed
    BY <1>1 DEF Now
  <1>6. ScanFilters(Now)' = ScanFilters(w)
    BY <1>5 DEF ScanFilters, Scans
  <1>7. Wide(Now)'
    BY <1>2, <1>5, <1>6 DEF Wide
  <1> QED
    BY <1>3, <1>4, <1>7 DEF Inv

\* The handlers, one by one: each leaves sound worlds from a sound one.
LEMMA StartDiscoverySound ==
  ASSUME Inv, StartDiscovery
  PROVE  Inv'
  <1> DEFINE legacy == [Now EXCEPT !.adapter.mLegacyScan = TRUE,
                                   !.adapter.mUseBluezFilter = FALSE]
             P == IF adapter.mUseBluezFilter THEN PrepareFilterForDiscovery(legacy) ELSE {legacy}
             E(v) == IF v.adapter.mDiscovering THEN {v} ELSE ResumeLeDiscovery(v)
             W == {v \in P : ~v.ok} \cup UNION {E(v) : v \in {u \in P : u.ok}}
  <1>1. Becomes(W)
    BY Zenon DEF StartDiscovery, Then
  <1>2. Sound(Now) /\ Now.adapter = adapter
    BY NowSound DEF Now
  <1>3. Owned(legacy) /\ legacy.failed = Now.failed /\ legacy.bluez = Now.bluez
    BY <1>2 DEF Sound, Owned, World, AdapterFields
  <1>4. ASSUME NEW v \in P
        PROVE  Sound(v)
    <2>1. Owned(v) /\ (v.failed \/ v.bluez.filter = {})
      BY <1>2, <1>3, PrepareKeeps DEF Sound, Wide
    <2> QED
      BY <2>1, ClearSound
  <1> HIDE DEF P
  <1>5. ASSUME NEW v \in W
        PROVE  Sound(v)
    <2>1. v \in P \/ \E u \in P : v \in ResumeLeDiscovery(u)
      OBVIOUS
    <2>2. ASSUME NEW u \in P, v \in ResumeLeDiscovery(u)
          PROVE  Sound(v)
      BY <1>4, <2>2, ResumeKeeps, KeptSound DEF Sound
    <2> QED
      BY <1>4, <2>1, <2>2
  <1> HIDE DEF W
  <1> QED
    BY <1>1, <1>5, BecomesSound

\* cancelDiscovery is called by the client and by the timeout.
LEMMA CancelSound ==
  ASSUME NEW w, Sound(w), NEW callback \in {"waiting", "empty"},
         NEW v \in CancelDiscoveryFrom(w, callback)
  PROVE  Sound(v)
  <1> DEFINE other == [w EXCEPT !.adapter.mLegacyScan = FALSE]
             S == StopSession(other)
             F(u) == [u EXCEPT !.adapter.mCancelDiscCallback = callback]
  <1>1. /\ Owned(other) /\ other.failed = w.failed /\ other.bluez = w.bluez
        /\ other.adapter.mLeScanFilters = w.adapter.mLeScanFilters
        /\ other.adapter.mUseBluezFilter = w.adapter.mUseBluezFilter
        /\ other.adapter.mSILDiscovery = w.adapter.mSILDiscovery
        /\ other.adapter.mLegacyScan = FALSE
    BY DEF Sound, Owned, World, AdapterFields
  <1>2. v \in {w, other} \/ v \in {u \in S : ~u.ok} \cup UNION {{F(u)} : u \in {x \in S : x.ok}}
    BY Zenon DEF CancelDiscoveryFrom, Then
  <1> HIDE DEF other
  <1>3. Sound(other)
    BY <1>1, SameFilters DEF Sound, Wide
  <1>4. ASSUME NEW u \in S
        PROVE  Sound(u) /\ Sound(F(u))
    <2>1. Sound(u)
      BY <1>3, StopSessionSound
    <2>2. Kept(u, F(u))
      BY <2>1 DEF Sound, Owned, World, AdapterFields, Kept, Failing, SameScans
    <2> QED
      BY <2>1, <2>2, KeptSound
  <1> HIDE DEF S, F
  <1>5. v \in {w, other} \/ v \in S \/ \E u \in S : v = F(u)
    BY <1>2
  <1> QED
    BY <1>3, <1>4, <1>5

LEMMA CancelDiscoverySound ==
  ASSUME Inv, CancelDiscovery
  PROVE  Inv'
  BY NowSound, CancelSound, BecomesSound DEF CancelDiscovery

LEMMA TimeoutSound ==
  ASSUME Inv, HandleDiscoveryTimeout
  PROVE  Inv'
  <1>1. PICK id \in timers : Becomes(CancelDiscoveryFrom([Now EXCEPT !.timers = @ \ {id}], "empty"))
    BY DEF HandleDiscoveryTimeout
  <1> DEFINE w == [Now EXCEPT !.timers = @ \ {id}]
  <1>2. Sound(Now)
    BY NowSound
  <1>3. Kept(Now, w)
    BY <1>2 DEF Sound, Owned, World, Kept, Failing, SameScans
  <1> HIDE DEF w
  <1>4. Sound(w)
    BY <1>2, <1>3, KeptSound
  <1>5. Becomes(CancelDiscoveryFrom(w, "empty"))
    BY <1>1 DEF w
  <1> QED
    BY <1>4, <1>5, CancelSound, BecomesSound

\* What addLeDiscoveryFilter does after the filter of BlueZ has been set for v: the
\* session starts again if there is one.
LEMMA RunningSound ==
  ASSUME NEW w, Owned(w), NEW v,
         \/ v \in ResumeLeDiscovery(w) /\ ~v.ok
         \/ \E u \in ResumeLeDiscovery(w) : v = [u EXCEPT !.adapter.mSILDiscovery = TRUE]
         \/ v = [w EXCEPT !.adapter.mSILDiscovery = TRUE]
  PROVE  /\ Owned(v) /\ Failing(w, v)
         /\ v.ok => /\ v.adapter.mSILDiscovery /\ v.bluez.filter = w.bluez.filter
                    /\ v.adapter.mUseBluezFilter = w.adapter.mUseBluezFilter
                    /\ v.adapter.mLegacyScan = w.adapter.mLegacyScan
                    /\ v.adapter.mLeScanFilters = w.adapter.mLeScanFilters
  <1>1. CASE v \in ResumeLeDiscovery(w) /\ ~v.ok
    BY <1>1, ResumeKeeps DEF Kept
  <1>2. ASSUME NEW u, Owned(u), Kept(w, u), v = [u EXCEPT !.adapter.mSILDiscovery = TRUE]
        PROVE  /\ Owned(v) /\ Failing(w, v)
               /\ v.adapter.mSILDiscovery /\ v.bluez.filter = w.bluez.filter
               /\ v.adapter.mUseBluezFilter = w.adapter.mUseBluezFilter
               /\ v.adapter.mLegacyScan = w.adapter.mLegacyScan
               /\ v.adapter.mLeScanFilters = w.adapter.mLeScanFilters
    <2>1. /\ Owned(v) /\ Failing(u, v)
          /\ v.adapter.mSILDiscovery /\ v.bluez.filter = u.bluez.filter
          /\ v.adapter.mUseBluezFilter = u.adapter.mUseBluezFilter
          /\ v.adapter.mLegacyScan = u.adapter.mLegacyScan
          /\ v.adapter.mLeScanFilters = u.adapter.mLeScanFilters
      BY <1>2 DEF Owned, World, AdapterFields, Failing
    <2> QED
      BY <1>2, <2>1 DEF Kept, SameScans, Failing
  <1>3. Kept(w, w)
    BY DEF Kept, Failing, SameScans
  <1>4. ASSUME NEW u \in ResumeLeDiscovery(w)
        PROVE  Owned(u) /\ Kept(w, u)
    BY ResumeKeeps DEF Kept
  <1> QED
    BY <1>1, <1>2, <1>3, <1>4

\* With a filter of BlueZ in use, what is set covers the new scan and all the others;
\* without one the filter is clear.
LEMMA AddLeSound ==
  ASSUME Inv, NEW scan \in ScanId, NEW filter \in Filter, AddLeDiscoveryFilter(scan, filter)
  PROVE  Inv'
  <1> DEFINE use == BluezFilterUsageCriteria(Now, filter)
             start == [Now EXCEPT !.adapter.mUseBluezFilter = use]
             Add(v) == [v EXCEPT !.adapter.mLeScanFilters[scan] = filter]
             Run(v) == [v EXCEPT !.adapter.mSILDiscovery = TRUE]
             P == IF adapter.mSILDiscovery THEN PrepareFilterForDiscovery(start) ELSE {start}
             R(v) == IF adapter.mSILDiscovery THEN ResumeLeDiscovery(v) ELSE {v}
             Q(v) == {u \in R(v) : ~u.ok} \cup UNION {{Run(u)} : u \in {x \in R(v) : x.ok}}
             B(v) == SetBluezFilter(v, filter)
             E(v) == IF use
                     THEN {u \in B(v) : ~u.ok} \cup UNION {Q(u) : u \in {x \in B(v) : x.ok}}
                     ELSE {v}
             T == {v \in P : ~v.ok} \cup UNION {E(v) : v \in {u \in P : u.ok}}
             W == {v \in T : ~v.ok} \cup UNION {{Add(v)} : v \in {u \in T : u.ok}}
  <1>1. IF adapter.mLegacyScan THEN Becomes({Add(Now)}) ELSE Becomes(W)
    BY Zenon DEF AddLeDiscoveryFilter, Then
  <1>2. Sound(Now) /\ Now.adapter = adapter /\ Now.ok
    BY NowSound DEF Now
  <1>3. ASSUME NEW v, Owned(v)
        PROVE  /\ Owned(Add(v)) /\ Add(v).bluez = v.bluez /\ Add(v).failed = v.failed
               /\ Add(v).adapter.mLegacyScan = v.adapter.mLegacyScan
               /\ Add(v).adapter.mUseBluezFilter = v.adapter.mUseBluezFilter
               /\ Add(v).adapter.mSILDiscovery = v.adapter.mSILDiscovery
               /\ ScanFilters(Add(v)) \subseteq {filter} \cup ScanFilters(v)
    <2>1. /\ Owned(Add(v)) /\ Add(v).bluez = v.bluez /\ Add(v).failed = v.failed
          /\ Add(v).adapter.mLegacyScan = v.adapter.mLegacyScan
          /\ Add(v).adapter.mUseBluezFilter = v.adapter.mUseBluezFilter
          /\ Add(v).adapter.mSILDiscovery = v.adapter.mSILDiscovery
          /\ Add(v).adapter.mLeScanFilters = [v.adapter.mLeScanFilters EXCEPT ![scan] = filter]
      BY <1>3 DEF Owned, World, AdapterFields
    <2>2. v.adapter.mLeScanFilters \in [ScanId -> Filter \cup {NoScan}]
      BY <1>3 DEF Owned, World, AdapterFields
    <2> HIDE DEF Add
    <2>3. ScanFilters(Add(v)) \subseteq {filter} \cup ScanFilters(v)
      BY <2>1, <2>2 DEF ScanFilters, Scans
    <2> QED
      BY <2>1, <2>3
  <1>4. CASE adapter.mLegacyScan /\ Becomes({Add(Now)})
    <2>1. Now.failed \/ Now.bluez.filter = {}
      BY <1>2, <1>4 DEF Sound, Wide
    <2>2. Sound(Add(Now))
      BY <1>2, <1>3, <2>1, ClearSound DEF Sound
    <2> HIDE DEF Add
    <2> QED
      BY <1>4, <2>2, BecomesSound
  <1>5. CASE ~adapter.mLegacyScan /\ Becomes(W)
    <2>1. /\ Owned(start) /\ start.failed = Now.failed /\ start.bluez = Now.bluez
          /\ start.adapter.mLeScanFilters = adapter.mLeScanFilters
          /\ start.adapter.mLegacyScan = adapter.mLegacyScan
          /\ start.adapter.mUseBluezFilter = use
      BY <1>2 DEF Sound, Owned, World, AdapterFields, BluezFilterUsageCriteria
    <2> HIDE DEF start
    <2>2. ASSUME NEW v \in P
          PROVE  /\ Owned(v) /\ (v.failed \/ v.bluez.filter = {})
                 /\ v.adapter.mLeScanFilters = adapter.mLeScanFilters
                 /\ ~v.adapter.mLegacyScan /\ v.adapter.mUseBluezFilter = use
      <3>1. CASE adapter.mSILDiscovery
        BY <1>5, <2>1, <2>2, <3>1, PrepareKeeps DEF SameScans
      <3>2. CASE ~adapter.mSILDiscovery
        BY <1>2, <1>5, <2>1, <2>2, <3>2 DEF Sound, Wide
      <3> QED
        BY <3>1, <3>2
    <2> HIDE DEF P
    \* Once the filter has been set for the scans there are and the new one.
    <2>3. ASSUME NEW v \in P, use, NEW u \in B(v)
          PROVE  /\ Owned(u)
                 /\ u.ok => /\ u.bluez.filter = {filter} \cup ScanFilters(Now)
                            /\ u.adapter.mLeScanFilters = adapter.mLeScanFilters
                            /\ ~u.adapter.mLegacyScan /\ u.adapter.mUseBluezFilter
      <3>1. ScanFilters(v) = ScanFilters(Now)
        BY <1>2, <2>2, SameFilters
      <3>2. {filter} \cup ScanFilters(v) \in SUBSET Uuid
        BY <2>3, <3>1 DEF BluezFilterUsageCriteria
      <3>3. u \in SetDiscoveryFilterCall(v, {filter} \cup ScanFilters(v))
        BY <2>3 DEF SetBluezFilter
      <3>4. /\ Owned(u) /\ SameScans(v, u)
            /\ u.ok => u.bluez.filter = {filter} \cup ScanFilters(v)
        BY <2>2, <3>2, <3>3, FilterCallSets
      <3> QED
        BY <2>2, <2>3, <3>1, <3>4 DEF SameScans
    <2> DEFINE Ready(v) ==
          /\ Owned(v)
          /\ v.ok => \/ v.failed \/ v.bluez.filter = {}
                     \/ /\ {filter} \cup ScanFilters(v) \subseteq v.bluez.filter
                        /\ ~v.adapter.mLegacyScan /\ v.adapter.mUseBluezFilter
                        /\ v.adapter.mSILDiscovery
    <2>4. ASSUME NEW v \in P, use, NEW u \in B(v), u.ok, NEW t \in Q(u)
          PROVE  Ready(t)
      <3>1. \/ t \in ResumeLeDiscovery(u) /\ ~t.ok
            \/ \E x \in ResumeLeDiscovery(u) : t = Run(x)
            \/ t = Run(u)
            \/ t = u /\ ~t.ok
        BY <2>4
      <3>2. Owned(u)
        BY <2>3, <2>4
      <3>3. /\ Owned(t)
            /\ t.ok => /\ t.adapter.mSILDiscovery /\ t.bluez.filter = u.bluez.filter
                       /\ t.adapter.mUseBluezFilter = u.adapter.mUseBluezFilter
                       /\ t.adapter.mLegacyScan = u.adapter.mLegacyScan
                       /\ t.adapter.mLeScanFilters = u.adapter.mLeScanFilters
        BY <2>4, <3>1, <3>2, RunningSound
      <3>4. t.ok => ScanFilters(t) = ScanFilters(Now)
        BY <1>2, <2>3, <2>4, <3>3, SameFilters
      <3> QED
        BY <2>3, <2>4, <3>3, <3>4
    <2>5. ASSUME NEW v \in P, NEW u \in E(v)
          PROVE  Ready(u)
      <3>1. CASE ~use
        BY <2>2, <2>5, <3>1
      <3>2. CASE use
        <4>1. (u \in B(v) /\ ~u.ok) \/ \E x \in B(v) : x.ok /\ u \in Q(x)
          BY <2>5, <3>2
        <4> HIDE DEF Ready, Q, B
        <4>2. CASE u \in B(v) /\ ~u.ok
          BY <2>3, <3>2, <4>2 DEF Ready
        <4> QED
          BY <2>4, <3>2, <4>1, <4>2
      <3> QED
        BY <3>1, <3>2
    <2>6. ASSUME NEW v \in T
          PROVE  Ready(v)
      <3>1. (v \in P /\ ~v.ok) \/ \E u \in P : v \in E(u)
        OBVIOUS
      <3> HIDE DEF E
      <3> QED
        BY <2>2, <2>5, <3>1
    <2> HIDE DEF T
    <2>7. ASSUME NEW v \in W
          PROVE  Sound(v)
      <3>1. (v \in T /\ ~v.ok) \/ \E u \in T : u.ok /\ v = Add(u)
        OBVIOUS
      <3>2. CASE v \in T /\ ~v.ok
        BY <2>6, <3>2, ClearSound DEF Owned
      <3>3. ASSUME NEW u \in T, u.ok, v = Add(u)
            PROVE  Sound(v)
        <4>1. Ready(u)
          BY <2>6
        <4> HIDE DEF Add
        <4> QED
          BY <1>3, <3>3, <4>1 DEF Sound, Wide
      <3> QED
        BY <3>1, <3>2, <3>3
    <2> HIDE DEF W
    <2> QED
      BY <1>5, <2>7, BecomesSound
  <1> QED
    BY <1>1, <1>4, <1>5

\* A scan that goes leaves a filter that is wider than needed.
LEMMA RemoveLeSound ==
  ASSUME Inv, NEW scan \in ScanId, RemoveLeDiscoveryFilter(scan)
  PROVE  Inv'
  <1> DEFINE v == [Now EXCEPT !.adapter.mLeScanFilters[scan] = NoScan]
  <1>1. Becomes({v})
    BY DEF RemoveLeDiscoveryFilter
  <1>2. Sound(Now)
    BY NowSound
  <1>3. /\ Owned(v) /\ v.bluez = Now.bluez /\ v.failed = Now.failed
        /\ v.adapter.mLegacyScan = Now.adapter.mLegacyScan
        /\ v.adapter.mUseBluezFilter = Now.adapter.mUseBluezFilter
        /\ v.adapter.mSILDiscovery = Now.adapter.mSILDiscovery
        /\ v.adapter.mLeScanFilters = [Now.adapter.mLeScanFilters EXCEPT ![scan] = NoScan]
    BY <1>2 DEF Sound, Owned, World, AdapterFields
  <1> HIDE DEF v
  <1>4. Now.adapter.mLeScanFilters \in [ScanId -> Filter \cup {NoScan}]
    BY <1>2 DEF Sound, Owned, World, AdapterFields
  <1>5. ScanFilters(v) \subseteq ScanFilters(Now)
    BY <1>3, <1>4 DEF ScanFilters, Scans
  <1>6. Sound(v)
    BY <1>2, <1>3, <1>5 DEF Sound, Wide
  <1> QED
    BY <1>1, <1>6, BecomesSound

LEMMA LeSessionSound ==
  ASSUME Inv, StartLeDiscovery \/ CancelLeDiscovery
  PROVE  Inv'
  <1>1. CASE StartLeDiscovery
    <2>1. \A v \in ResumeLeDiscovery(Now) : Sound(v)
      BY NowSound, ResumeKeeps, KeptSound DEF Sound
    <2> QED
      BY <1>1, <2>1, BecomesSound DEF StartLeDiscovery
  <1>2. CASE CancelLeDiscovery
    BY <1>2, NowSound, StopSessionSound, BecomesSound DEF CancelLeDiscovery
  <1> QED
    BY <1>1, <1>2

LEMMA PowerSound ==
  ASSUME Inv, (\E b \in BOOLEAN : SetPowered(b)) \/ ForceRepower \/ LosePower
  PROVE  Inv'
  <1>1. ASSUME NEW b \in BOOLEAN, NEW v \in SetPoweredCall(Now, b)
        PROVE  Sound(v)
    BY NowSound, PowerCallKeeps, KeptSound DEF Sound
  <1>2. ASSUME NEW b \in BOOLEAN, SetPowered(b)
        PROVE  Inv'
    BY <1>1, <1>2, BecomesSound DEF SetPowered
  <1>3. CASE ForceRepower
    <2> DEFINE S == SetPoweredCall(Now, FALSE)
               W == {v \in S : ~v.ok} \cup
                      UNION {SetPoweredCall(v, TRUE) : v \in {u \in S : u.ok}}
    <2>1. Becomes(W)
      BY <1>3, Zenon DEF ForceRepower, Then
    <2>2. \A v \in S : Sound(v)
      BY <1>1
    <2> HIDE DEF S
    <2>3. ASSUME NEW v \in W
          PROVE  Sound(v)
      <3>1. v \in S \/ \E u \in S : v \in SetPoweredCall(u, TRUE)
        OBVIOUS
      <3>2. ASSUME NEW u \in S, v \in SetPoweredCall(u, TRUE)
            PROVE  Sound(v)
        BY <2>2, <3>2, PowerCallKeeps, KeptSound DEF Sound
      <3> QED
        BY <2>2, <3>1, <3>2
    <2> HIDE DEF W
    <2> QED
      BY <2>1, <2>3, BecomesSound
  <1>4. CASE LosePower
    <2>1. Sound(PowerOff(Now))
      BY NowSound, PowerOffKeeps, KeptSound DEF Sound
    <2> QED
      BY <1>4, <2>1, BecomesSound DEF LosePower
  <1> QED
    BY <1>2, <1>3, <1>4

LEMMA SettingSound ==
  ASSUME Inv, (\E b \in BOOLEAN : SetDiscoveryTimeout(b)) \/ GetAdapterProperties
  PROVE  Inv'
  <1>1. Sound(Now)
    BY NowSound
  <1>2. ASSUME NEW b \in BOOLEAN, SetDiscoveryTimeout(b)
        PROVE  Inv'
    <2> DEFINE v == [Now EXCEPT !.adapter.mDiscoveryTimeout = b]
    <2>1. Kept(Now, v)
      BY <1>1 DEF Sound, Owned, World, AdapterFields, Kept, Failing, SameScans
    <2>2. Becomes({v})
      BY <1>2 DEF SetDiscoveryTimeout
    <2> HIDE DEF v
    <2> QED
      BY <1>1, <2>1, <2>2, KeptSound, BecomesSound
  <1>3. CASE GetAdapterProperties
    <2> DEFINE v == [Now EXCEPT !.signals = Append(@, Signal("Discovering", bluez.discovering))]
    <2>1. bluez.discovering \in BOOLEAN
      BY DEF Inv, TypeOK
    <2>2. Kept(Now, v)
      BY <1>1, <2>1, AddedSignal DEF Sound, Owned, World, Kept, Failing, SameScans
    <2>3. Becomes({v})
      BY <1>3 DEF GetAdapterProperties
    <2> HIDE DEF v
    <2> QED
      BY <1>1, <2>2, <2>3, KeptSound, BecomesSound
  <1> QED
    BY <1>2, <1>3

LEMMA ResetWhenStoppedKeeps ==
  ASSUME NEW w, Owned(w), NEW b \in BOOLEAN
  PROVE  Kept(w, ResetWhenStopped(w, b))
  <1>1. Kept(w, w)
    BY DEF Kept, Failing, SameScans
  <1> QED
    BY <1>1, ResetKeeps DEF ResetWhenStopped

LEMMA AddPropertyKeeps ==
  ASSUME NEW w, Owned(w), NEW signal \in Change
  PROVE  Kept(w, AddProperty(w, signal))
  <1>1. signal.value \in BOOLEAN
    BY DEF Change
  <1> DEFINE p == [w EXCEPT !.adapter.mPowered = signal.value]
             d == [w EXCEPT !.adapter.mDiscovering = signal.value,
                            !.adapter.mCancelDiscCallback =
                              IF @ = "waiting" THEN "called" ELSE @]
  <1>2. Kept(w, p)
    BY <1>1 DEF Owned, World, AdapterFields, Kept, Failing, SameScans
  <1>3. Kept(w, d)
    BY <1>1 DEF Owned, World, AdapterFields, Kept, Failing, SameScans
  <1>4. Kept(w, w)
    BY DEF Kept, Failing, SameScans
  <1>5. AddProperty(w, signal) \in {p, w, d}
    BY DEF AddProperty
  <1> QED
    BY <1>2, <1>3, <1>4, <1>5

LEMMA SignalSound ==
  ASSUME Inv, (\E b \in BOOLEAN : HandlePropertiesChanged(b)) \/ HandleOtherPropertiesChanged
  PROVE  Inv'
  <1>1. Sound(Now)
    BY NowSound
  <1>2. ASSUME NEW b \in BOOLEAN, HandlePropertiesChanged(b)
        PROVE  Inv'
    <2> DEFINE w == [Now EXCEPT !.signals = Tail(@)]
               v == AddProperty(w, Head(signals))
    <2>1. signals \in Seq(Change) /\ signals # <<>>
      BY <1>2 DEF HandlePropertiesChanged, Inv, TypeOK, Change
    <2>2. Head(signals) \in Change /\ Tail(signals) \in Seq(Change)
      BY <2>1
    <2>3. Kept(Now, w)
      BY <1>1, <2>2 DEF Sound, Owned, World, Now, Kept, Failing, SameScans
    <2> HIDE DEF w
    <2>4. Kept(w, v)
      BY <2>2, <2>3, AddPropertyKeeps DEF Kept
    <2>5. Becomes({ResetWhenStopped(v, b)})
      BY <1>2 DEF HandlePropertiesChanged, w
    <2> HIDE DEF v
    <2>6. Kept(v, ResetWhenStopped(v, b))
      BY <2>4, ResetWhenStoppedKeeps DEF Kept
    <2>7. Sound(ResetWhenStopped(v, b))
      BY <1>1, <2>3, <2>4, <2>6, KeptSound
    <2> QED
      BY <2>5, <2>7, BecomesSound
  <1>3. CASE HandleOtherPropertiesChanged
    <2>1. Sound(ResetWhenStopped(Now, TRUE))
      BY <1>1, ResetWhenStoppedKeeps, KeptSound DEF Sound
    <2> QED
      BY <1>3, <2>1, BecomesSound DEF HandleOtherPropertiesChanged
  <1> QED
    BY <1>2, <1>3

\* The inductive invariant.
LEMMA InvAlways == Spec => []Inv
  <1>1. Init => Inv
    <2> SUFFICES ASSUME Init PROVE Inv
      OBVIOUS
    <2>1. adapter \in AdapterFields
      BY DEF Init, AdapterFields
    <2>2. signals \in Seq(Change) /\ Len(signals) = 0
      BY DEF Init
    <2>4. MaxSignals \in Nat
      BY DiscoveryAssumption DEF DiscoveryAssumption
    <2>5. /\ bluez \in [powered : BOOLEAN, discovering : BOOLEAN, filter : SUBSET Uuid]
          /\ timers \subseteq SourceId /\ failed \in BOOLEAN
      <3>1. bluez = [powered |-> FALSE, discovering |-> FALSE, filter |-> {}]
            /\ timers = {} /\ failed = FALSE
        BY DEF Init
      <3> QED
        BY <3>1
    <2>6. Len(signals) <= MaxSignals
      BY <2>2, <2>4
    <2>7. TypeOK
      BY <2>1, <2>2, <2>5, <2>6, Zenon DEF TypeOK, Change
    <2>3. TimeoutOwned /\ Wide(Now)
      BY DEF Init, TimeoutOwned, Wide, Now
    <2> QED
      BY <2>3, <2>7 DEF Inv
  <1>2. Inv /\ [Next]_vars => Inv'
    <2> SUFFICES ASSUME Inv, [Next]_vars PROVE Inv'
      OBVIOUS
    <2>1. CASE ClientStep
      BY <2>1, StartDiscoverySound, CancelDiscoverySound, AddLeSound, RemoveLeSound,
         LeSessionSound, PowerSound, SettingSound DEF ClientStep
    <2>2. CASE LoopStep
      BY <2>2, TimeoutSound, SignalSound DEF LoopStep
    <2>3. CASE LosePower
      BY <2>3, PowerSound
    <2>4. CASE UNCHANGED vars
      BY <2>4 DEF vars, Inv, TypeOK, TimeoutOwned, Wide, Now, ScanFilters, Scans
    <2> QED
      BY <2>1, <2>2, <2>3, <2>4 DEF Next
  <1> QED
    BY <1>1, <1>2, PTL DEF Spec

\* Every state has its type: a source id is one the main loop has given, and no more
\* signals are under way than the bound allows.
THEOREM TypeCorrect == Spec => []TypeOK
  BY InvAlways, PTL DEF Inv

\* resetDiscoveryTimeout can reach every discovery timeout that is armed.
THEOREM TimersReachable == Spec => []TimeoutOwned
  BY InvAlways, PTL DEF Inv

\* While no call to BlueZ has failed, its filter hides nothing anybody scans for: it is set
\* only during a session of the adapter's own low energy scans.
THEOREM NothingHidden == Spec => []FilterHidesNothing
  <1>1. Inv => FilterHidesNothing
    BY DEF Inv, Wide, Now, FilterHidesNothing
  <1> QED
    BY <1>1, InvAlways, PTL

-----------------------------------------------------------------------------
(* The answer of cancelDiscovery *)

Ended(q) == \E i \in DOMAIN q : q[i] = Signal("Discovering", FALSE)

Waiting(w) == w.adapter.mCancelDiscCallback = "waiting"

\* BlueZ has no session, the adapter believes in one and is about to learn better.
Ending(w) == w.adapter.mDiscovering /\ ~w.bluez.discovering /\ Ended(w.signals)

Awaited(w) == Waiting(w) => Ending(w)

\* From w to v the callback, the adapter's belief and the signals under way are kept, and
\* BlueZ starts no session.
Quiet(w, v) ==
  /\ v.adapter.mCancelDiscCallback = w.adapter.mCancelDiscCallback
  /\ v.adapter.mDiscovering = w.adapter.mDiscovering
  /\ v.bluez.discovering => w.bluez.discovering
  /\ Ended(w.signals) => Ended(v.signals)

\* A quiet step keeps an answer under way.
LEMMA QuietAwaited ==
  ASSUME NEW w, NEW v, Quiet(w, v), w.bluez.discovering \in BOOLEAN
  PROVE  /\ Awaited(w) => Awaited(v)
         /\ Ending(w) => Ending(v)
         /\ Waiting(w) <=> Waiting(v)
  BY DEF Quiet, Awaited, Waiting, Ending

\* What is under way stays under way when more follows.
LEMMA EndedAppend ==
  ASSUME NEW q \in Seq(Change), NEW e \in Change
  PROVE  /\ Ended(q) => Ended(Append(q, e))
         /\ e = Signal("Discovering", FALSE) => Ended(Append(q, e))
  <1>1. /\ DOMAIN q = 1 .. Len(q) /\ DOMAIN Append(q, e) = 1 .. Len(q) + 1
        /\ \A i \in 1 .. Len(q) : Append(q, e)[i] = q[i]
        /\ Append(q, e)[Len(q) + 1] = e /\ Len(q) \in Nat
    OBVIOUS
  <1>2. 1 .. Len(q) \subseteq 1 .. Len(q) + 1 /\ Len(q) + 1 \in 1 .. Len(q) + 1
    BY <1>1
  <1> QED
    BY <1>1, <1>2, Zenon DEF Ended

LEMMA SignalIsChange ==
  ASSUME NEW key \in {"Powered", "Discovering"}, NEW b \in BOOLEAN
  PROVE  Signal(key, b) \in Change
  BY DEF Signal, Change

\* The calls to BlueZ that are quiet.
LEMMA FailureQuiet ==
  ASSUME NEW w, Owned(w)
  PROVE  Quiet(w, Failure(w)) /\ ~Failure(w).ok
  BY DEF Failure, Quiet, Owned, World

\* StopDiscovery fails for a session that is over already, so it ends none for which a
\* callback waits; when it succeeds its signal is under way.
LEMMA StopQuiet ==
  ASSUME NEW w, Owned(w), Awaited(w), NEW v \in StopDiscoveryCall(w)
  PROVE  /\ Awaited(v) /\ Owned(v)
         /\ v.adapter.mDiscovering = w.adapter.mDiscovering
         /\ v.ok => ~Waiting(v) /\ ~v.bluez.discovering /\ Ended(v.signals)
  <1> DEFINE s == SetDiscovering(w, FALSE)
  <1>1. Owned(v)
    BY StopCallKeeps DEF Kept
  <1>2. CASE v = Failure(w)
    BY <1>1, <1>2, FailureQuiet, QuietAwaited DEF Quiet, Owned, World
  <1>3. CASE v = s /\ w.bluez.discovering
    <2>1. s.adapter = w.adapter
      BY SetDiscoveringKeeps
    <2>2. ~s.bluez.discovering /\ s.signals = Append(w.signals, Signal("Discovering", FALSE))
      BY DEF SetDiscovering, Owned, World
    <2>3. Ended(s.signals)
      BY <2>2, EndedAppend, SignalIsChange DEF Owned, World
    <2>4. ~Waiting(w)
      BY <1>3 DEF Awaited, Ending
    <2> HIDE DEF s
    <2> QED
      BY <1>1, <1>3, <2>1, <2>2, <2>3, <2>4 DEF Awaited, Waiting
  <1> QED
    BY <1>2, <1>3 DEF StopDiscoveryCall

LEMMA FilterQuiet ==
  ASSUME NEW w, Owned(w), NEW uuids, NEW v \in SetDiscoveryFilterCall(w, uuids)
  PROVE  Quiet(w, v)
  BY FailureQuiet DEF SetDiscoveryFilterCall, Quiet, Owned, World

LEMMA ResetQuiet ==
  ASSUME NEW w, Owned(w)
  PROVE  Quiet(w, ResetDiscoveryTimeout(w))
  BY DEF ResetDiscoveryTimeout, Quiet, Owned, World, AdapterFields

\* A session starts quietly only if nobody waits for the end of one.
LEMMA StartQuiet ==
  ASSUME NEW w, Owned(w), ~Waiting(w), NEW v \in ResumeLeDiscovery(w)
  PROVE  ~Waiting(v)
  <1>1. ASSUME NEW u \in StartDiscoveryCall(w)
        PROVE  Owned(u) /\ ~Waiting(u)
    <2>1. Owned(u)
      BY StartCallKeeps DEF Kept
    <2>2. u = Failure(w) \/ u = SetDiscovering(w, TRUE)
      BY DEF StartDiscoveryCall
    <2>3. CASE u = Failure(w)
      BY <2>1, <2>3, FailureQuiet DEF Quiet, Waiting
    <2>4. CASE u = SetDiscovering(w, TRUE)
      <3>1. u.adapter = w.adapter
        BY <2>4, SetDiscoveringKeeps
      <3> QED
        BY <2>1, <3>1 DEF Waiting
    <2> QED
      BY <2>2, <2>3, <2>4
  <1>2. ASSUME NEW u, Owned(u), ~Waiting(u)
        PROVE  ~Waiting(StartDiscoveryTimeout(u))
    <2> DEFINE r == ResetDiscoveryTimeout(u)
               id == CHOOSE i \in SourceId : i \notin r.timers
               x == [r EXCEPT !.timers = @ \cup {id}, !.adapter.mDiscoveryTimeoutSource = id]
    <2>1. Owned(r) /\ ~Waiting(r)
      BY <1>2, ResetKeeps, ResetQuiet DEF Kept, Quiet, Waiting
    <2>2. StartDiscoveryTimeout(u) \in {r, x}
      BY DEF StartDiscoveryTimeout
    <2> HIDE DEF r, id
    <2>3. ~Waiting(x)
      BY <2>1 DEF Waiting, Owned, World, AdapterFields
    <2> QED
      BY <2>1, <2>2, <2>3
  <1>3. \/ v \in StartDiscoveryCall(w)
        \/ \E u \in StartDiscoveryCall(w) : v = StartDiscoveryTimeout(u)
    BY DEF ResumeLeDiscovery, Then
  <1> QED
    BY <1>1, <1>2, <1>3

LEMMA StopLeQuiet ==
  ASSUME NEW w, Owned(w), Awaited(w), NEW v \in StopLeDiscovery(w)
  PROVE  Awaited(v) /\ Owned(v) /\ (v.ok => ~Waiting(v))
  <1> DEFINE r == ResetDiscoveryTimeout(w)
  <1>1. Owned(r)
    BY ResetKeeps DEF Kept
  <1>2. Awaited(r)
    BY ResetQuiet, QuietAwaited DEF Owned, World
  <1> HIDE DEF r
  <1>3. v \in StopDiscoveryCall(r)
    BY DEF StopLeDiscovery, r
  <1> QED
    BY <1>1, <1>2, <1>3, StopQuiet

\* The session is restarted only if BlueZ has one, so for no callback that waits.
LEMMA PrepareQuiet ==
  ASSUME NEW w, Owned(w), Awaited(w), NEW v \in PrepareFilterForDiscovery(w)
  PROVE  Awaited(v) /\ Owned(v) /\ (v.ok => ~Waiting(v))
  <1> DEFINE C == Then(StopLeDiscovery(w), ClearPreviousFilter)
  <1>1. ASSUME NEW u \in C
        PROVE  Awaited(u) /\ Owned(u) /\ (u.ok => ~Waiting(u))
    <2>1. \/ u \in StopLeDiscovery(w) /\ ~u.ok
          \/ \E t \in StopLeDiscovery(w) : t.ok /\ u \in SetDiscoveryFilterCall(t, {})
      BY <1>1 DEF Then, ClearPreviousFilter
    <2>2. ASSUME NEW t \in StopLeDiscovery(w), t.ok, u \in SetDiscoveryFilterCall(t, {})
          PROVE  Owned(u) /\ ~Waiting(u)
      <3>1. Owned(t) /\ ~Waiting(t)
        BY <2>2, StopLeQuiet
      <3>2. Owned(u) /\ Quiet(t, u)
        BY <2>2, <3>1, FilterCallSets, FilterQuiet
      <3> QED
        BY <3>1, <3>2 DEF Quiet, Waiting
    <2> QED
      BY <2>1, <2>2, StopLeQuiet DEF Awaited
  <1>2. (v \in C) \/ (\E u \in C : u.ok /\ v \in ResumeLeDiscovery(u))
    BY DEF PrepareFilterForDiscovery, Then
  <1> HIDE DEF C
  <1>3. ASSUME NEW u \in C, u.ok, v \in ResumeLeDiscovery(u)
        PROVE  Owned(v) /\ ~Waiting(v)
    BY <1>1, <1>3, ResumeKeeps, StartQuiet DEF Kept
  <1> QED
    BY <1>1, <1>2, <1>3 DEF Awaited

\* When the end of the session has succeeded, its signal is on the way.
LEMMA StopSessionQuiet ==
  ASSUME NEW w, Owned(w), Awaited(w), NEW v \in StopSession(w)
  PROVE  /\ Awaited(v) /\ Owned(v)
         /\ v.ok /\ w.adapter.mDiscovering => Ending(v)
  <1> DEFINE a == [w EXCEPT !.adapter.mSILDiscovery = FALSE]
             r == ResetDiscoveryTimeout(a)
             F(u) == [u EXCEPT !.adapter.mUseBluezFilter = FALSE]
             E(u) == {t \in ClearPreviousFilter(u) : ~t.ok}
                       \cup UNION {{F(t)} : t \in {x \in ClearPreviousFilter(u) : x.ok}}
             S == StopDiscoveryCall(r)
  <1>1. Owned(a) /\ Quiet(w, a)
    BY DEF Owned, World, AdapterFields, Quiet
  <1>2. StopSession(w) = {u \in S : ~u.ok} \cup
                           UNION {IF ~u.adapter.mUseBluezFilter THEN {u} ELSE E(u) :
                                    u \in {x \in S : x.ok}}
    BY Zenon DEF StopSession, Then
  <1>3. ASSUME NEW u, Owned(u)
        PROVE  Owned(F(u)) /\ Quiet(u, F(u)) /\ F(u).ok = u.ok
    BY <1>3 DEF Owned, World, AdapterFields, Quiet
  <1> HIDE DEF F, a
  <1>4. Owned(r) /\ Quiet(a, r)
    BY <1>1, ResetKeeps, ResetQuiet DEF Kept
  <1> HIDE DEF r
  <1>5. Awaited(r) /\ r.adapter.mDiscovering = w.adapter.mDiscovering
    BY <1>1, <1>4, QuietAwaited DEF Quiet, Owned, World
  <1>6. ASSUME NEW u \in S
        PROVE  /\ Owned(u) /\ Awaited(u)
               /\ u.ok /\ w.adapter.mDiscovering => Ending(u)
    BY <1>4, <1>5, StopQuiet DEF Ending
  <1> HIDE DEF S
  <1>7. ASSUME NEW u \in S, NEW t \in ClearPreviousFilter(u)
        PROVE  /\ Owned(t) /\ Awaited(t)
               /\ u.ok /\ w.adapter.mDiscovering => Ending(t)
    <2>1. Owned(t) /\ Quiet(u, t)
      BY <1>6, <1>7, FilterCallSets, FilterQuiet DEF ClearPreviousFilter
    <2>2. Owned(u) /\ u.bluez.discovering \in BOOLEAN
      BY <1>6 DEF Owned, World
    <2> QED
      BY <1>6, <2>1, <2>2, QuietAwaited
  <1>8. ASSUME NEW u \in S, u.ok, NEW t \in ClearPreviousFilter(u), v = F(t)
        PROVE  /\ Owned(v) /\ Awaited(v)
               /\ w.adapter.mDiscovering => Ending(v)
    <2>1. Owned(t) /\ t.bluez.discovering \in BOOLEAN
      BY <1>7 DEF Owned, World
    <2>2. Owned(v) /\ Quiet(t, v)
      BY <1>3, <1>8, <2>1
    <2> QED
      BY <1>7, <1>8, <2>1, <2>2, QuietAwaited
  <1>9. \/ v \in S
        \/ \E u \in S : v \in ClearPreviousFilter(u) /\ u.ok
        \/ \E u \in S : u.ok /\ \E t \in ClearPreviousFilter(u) : v = F(t)
    BY <1>2
  <1> QED
    BY <1>6, <1>7, <1>8, <1>9

\* The handlers again, one by one.
LEMMA BecomesAwaited ==
  ASSUME NEW W, \A w \in W : Awaited(w), Becomes(W)
  PROVE  AnswerUnderWay'
  <1>1. PICK w \in W :
          adapter' = w.adapter /\ bluez' = w.bluez /\ signals' = w.signals
    BY DEF Becomes
  <1>2. Awaited(w)
    OBVIOUS
  <1> QED
    BY <1>1, <1>2 DEF Awaited, Waiting, Ending, Ended, AnswerUnderWay

LEMMA NowAwaited ==
  ASSUME Inv, AnswerUnderWay
  PROVE  /\ Owned(Now) /\ Awaited(Now)
         /\ Now.adapter = adapter /\ Now.bluez = bluez /\ Now.signals = signals
  <1>1. /\ Now.adapter = adapter /\ Now.bluez = bluez /\ Now.signals = signals
    BY DEF Now
  <1>2. Owned(Now)
    BY NowSound DEF Sound
  <1> QED
    BY <1>1, <1>2 DEF Awaited, Waiting, Ending, Ended, AnswerUnderWay

\* startDiscovery starts no session while the adapter believes in one, as it does while a
\* callback waits.
LEMMA StartDiscoveryAwaited ==
  ASSUME Inv, AnswerUnderWay, StartDiscovery
  PROVE  AnswerUnderWay'
  <1> DEFINE legacy == [Now EXCEPT !.adapter.mLegacyScan = TRUE,
                                   !.adapter.mUseBluezFilter = FALSE]
             P == IF adapter.mUseBluezFilter THEN PrepareFilterForDiscovery(legacy) ELSE {legacy}
             E(v) == IF v.adapter.mDiscovering THEN {v} ELSE ResumeLeDiscovery(v)
             W == {v \in P : ~v.ok} \cup UNION {E(v) : v \in {u \in P : u.ok}}
  <1>1. Becomes(W)
    BY Zenon DEF StartDiscovery, Then
  <1>2. Owned(legacy) /\ Quiet(Now, legacy)
    BY NowAwaited DEF Owned, World, AdapterFields, Quiet
  <1> HIDE DEF legacy
  <1>3. Awaited(legacy)
    BY <1>2, NowAwaited, QuietAwaited DEF Owned, World
  <1>4. ASSUME NEW v \in P
        PROVE  Owned(v) /\ Awaited(v)
    BY <1>2, <1>3, PrepareQuiet
  <1> HIDE DEF P
  <1>5. ASSUME NEW v \in W
        PROVE  Awaited(v)
    <2>1. v \in P \/ \E u \in P : ~u.adapter.mDiscovering /\ v \in ResumeLeDiscovery(u)
      OBVIOUS
    <2>2. ASSUME NEW u \in P, ~u.adapter.mDiscovering, v \in ResumeLeDiscovery(u)
          PROVE  Awaited(v)
      <3>1. Owned(u) /\ ~Waiting(u)
        BY <1>4, <2>2 DEF Awaited, Ending
      <3> QED
        BY <2>2, <3>1, StartQuiet DEF Awaited
    <2> QED
      BY <1>4, <2>1, <2>2
  <1> HIDE DEF W
  <1> QED
    BY <1>1, <1>5, BecomesAwaited

\* The callback is stored for a session that the adapter believes in and BlueZ has ended.
LEMMA CancelAwaited ==
  ASSUME NEW w, Owned(w), Awaited(w), NEW callback \in {"waiting", "empty"},
         NEW v \in CancelDiscoveryFrom(w, callback)
  PROVE  Awaited(v)
  <1> DEFINE other == [w EXCEPT !.adapter.mLegacyScan = FALSE]
             S == StopSession(other)
             F(u) == [u EXCEPT !.adapter.mCancelDiscCallback = callback]
  <1>1. Owned(other) /\ Quiet(w, other)
    BY DEF Owned, World, AdapterFields, Quiet
  <1>2. \/ v = w \/ v = other
        \/ w.adapter.mDiscovering /\ v \in {u \in S : ~u.ok} \cup
                                             UNION {{F(u)} : u \in {x \in S : x.ok}}
    BY Zenon DEF CancelDiscoveryFrom, Then
  <1> HIDE DEF other
  <1>3. Awaited(other) /\ other.adapter.mDiscovering = w.adapter.mDiscovering
    BY <1>1, QuietAwaited DEF Quiet, Owned, World
  <1>4. ASSUME NEW u \in S
        PROVE  /\ Owned(u) /\ Awaited(u)
               /\ u.ok /\ w.adapter.mDiscovering => Ending(u)
    BY <1>1, <1>3, StopSessionQuiet
  <1> HIDE DEF S
  <1>5. ASSUME NEW u \in S, u.ok, w.adapter.mDiscovering
        PROVE  Awaited(F(u))
    <2>1. /\ F(u).adapter.mDiscovering = u.adapter.mDiscovering
          /\ F(u).bluez = u.bluez /\ F(u).signals = u.signals
      BY <1>4, <1>5 DEF Owned, World, AdapterFields
    <2>2. Ending(u)
      BY <1>4, <1>5
    <2> HIDE DEF F
    <2> QED
      BY <2>1, <2>2 DEF Awaited, Ending
  <1> HIDE DEF F
  <1>6. \/ v = w \/ v = other \/ v \in S
        \/ w.adapter.mDiscovering /\ \E u \in S : u.ok /\ v = F(u)
    BY <1>2
  <1> QED
    BY <1>3, <1>4, <1>5, <1>6

LEMMA CancelDiscoveryAwaited ==
  ASSUME Inv, AnswerUnderWay, CancelDiscovery
  PROVE  AnswerUnderWay'
  BY NowAwaited, CancelAwaited, BecomesAwaited DEF CancelDiscovery

LEMMA TimeoutAwaited ==
  ASSUME Inv, AnswerUnderWay, HandleDiscoveryTimeout
  PROVE  AnswerUnderWay'
  <1>1. PICK id \in timers :
          Becomes(CancelDiscoveryFrom([Now EXCEPT !.timers = @ \ {id}], "empty"))
    BY DEF HandleDiscoveryTimeout
  <1> DEFINE w == [Now EXCEPT !.timers = @ \ {id}]
  <1>2. Owned(w) /\ Quiet(Now, w)
    BY NowAwaited DEF Owned, World, Quiet
  <1>3. Becomes(CancelDiscoveryFrom(w, "empty"))
    BY <1>1
  <1> HIDE DEF w
  <1>4. Awaited(w)
    BY <1>2, NowAwaited, QuietAwaited DEF Owned, World
  <1> QED
    BY <1>2, <1>3, <1>4, CancelAwaited, BecomesAwaited

\* A scan that is added starts a session only after it has ended one.
LEMMA AddLeAwaited ==
  ASSUME Inv, AnswerUnderWay,
         NEW scan \in ScanId, NEW filter \in Filter, AddLeDiscoveryFilter(scan, filter)
  PROVE  AnswerUnderWay'
  <1> DEFINE use == BluezFilterUsageCriteria(Now, filter)
             start == [Now EXCEPT !.adapter.mUseBluezFilter = use]
             Add(v) == [v EXCEPT !.adapter.mLeScanFilters[scan] = filter]
             Run(v) == [v EXCEPT !.adapter.mSILDiscovery = TRUE]
             P == IF adapter.mSILDiscovery THEN PrepareFilterForDiscovery(start) ELSE {start}
             R(v) == IF adapter.mSILDiscovery THEN ResumeLeDiscovery(v) ELSE {v}
             Q(v) == {u \in R(v) : ~u.ok} \cup UNION {{Run(u)} : u \in {x \in R(v) : x.ok}}
             B(v) == SetBluezFilter(v, filter)
             E(v) == IF use
                     THEN {u \in B(v) : ~u.ok} \cup UNION {Q(u) : u \in {x \in B(v) : x.ok}}
                     ELSE {v}
             T == {v \in P : ~v.ok} \cup UNION {E(v) : v \in {u \in P : u.ok}}
             W == {v \in T : ~v.ok} \cup UNION {{Add(v)} : v \in {u \in T : u.ok}}
             Good(v) == Owned(v) /\ Awaited(v)
  <1>1. Becomes({Add(Now)}) \/ Becomes(W)
    BY Zenon DEF AddLeDiscoveryFilter, Then
  <1>2. ASSUME NEW v, Good(v)
        PROVE  Good(Add(v)) /\ Good(Run(v))
    <2>1. Owned(Add(v)) /\ Quiet(v, Add(v)) /\ Owned(Run(v)) /\ Quiet(v, Run(v))
      BY <1>2 DEF Owned, World, AdapterFields, Quiet
    <2> HIDE DEF Add, Run
    <2>2. v.bluez.discovering \in BOOLEAN
      BY <1>2 DEF Owned, World
    <2> QED
      BY <1>2, <2>1, <2>2, QuietAwaited
  <1>3. /\ Owned(start) /\ Quiet(Now, start)
        /\ start.adapter.mLeScanFilters = adapter.mLeScanFilters
    BY NowAwaited DEF Owned, World, AdapterFields, Quiet, BluezFilterUsageCriteria
  <1> HIDE DEF start, Add, Run
  <1>4. Good(start)
    BY <1>3, NowAwaited, QuietAwaited DEF Owned, World
  <1>5. ASSUME NEW v \in P
        PROVE  /\ Good(v) /\ (adapter.mSILDiscovery /\ v.ok => ~Waiting(v))
               /\ v.adapter.mLeScanFilters = adapter.mLeScanFilters
    BY <1>3, <1>4, PrepareKeeps, PrepareQuiet DEF SameScans
  <1> HIDE DEF P
  \* After the filter has been set.
  <1>6. ASSUME NEW v \in P, v.ok, use, NEW u \in B(v)
        PROVE  Good(u) /\ (adapter.mSILDiscovery => ~Waiting(u))
    <2>1. Owned(v) /\ v.bluez.discovering \in BOOLEAN /\ Awaited(v)
      BY <1>5 DEF Owned, World
    <2>2. ScanFilters(v) = ScanFilters(Now)
      BY <1>5, NowAwaited, SameFilters
    <2>3. {filter} \cup ScanFilters(v) \in SUBSET Uuid
      BY <1>6, <2>2 DEF BluezFilterUsageCriteria
    <2>4. u \in SetDiscoveryFilterCall(v, {filter} \cup ScanFilters(v))
      BY <1>6 DEF SetBluezFilter
    <2>5. Owned(u) /\ Quiet(v, u)
      BY <2>1, <2>3, <2>4, FilterCallSets, FilterQuiet
    <2> QED
      BY <1>5, <1>6, <2>1, <2>5, QuietAwaited
  <1>7. ASSUME NEW v \in P, v.ok, use, NEW u \in B(v), NEW t \in R(u)
        PROVE  Good(t)
    <2>1. CASE adapter.mSILDiscovery
      <3>1. Good(u) /\ ~Waiting(u) /\ t \in ResumeLeDiscovery(u)
        BY <1>6, <1>7, <2>1
      <3> QED
        BY <3>1, ResumeKeeps, StartQuiet DEF Kept, Awaited
    <2>2. CASE ~adapter.mSILDiscovery
      BY <1>6, <1>7, <2>2
    <2> QED
      BY <2>1, <2>2
  <1> HIDE DEF B, R, Good
  <1>8. ASSUME NEW v \in T
        PROVE  Good(v)
    <2>1. \/ v \in P
          \/ use /\ \E p \in P : p.ok /\ v \in B(p)
          \/ use /\ \E p \in P : p.ok /\ \E u \in B(p) :
               \/ v \in R(u)
               \/ \E t \in R(u) : v = Run(t)
      OBVIOUS
    <2> QED
      BY <1>2, <1>5, <1>6, <1>7, <2>1
  <1> HIDE DEF T
  <1>9. ASSUME NEW v \in W
        PROVE  Good(v)
    <2>1. v \in T \/ \E u \in T : v = Add(u)
      OBVIOUS
    <2> QED
      BY <1>2, <1>8, <2>1
  <1> HIDE DEF W
  <1>10. Good(Add(Now))
    BY <1>2, NowAwaited DEF Good
  <1>11. (\A v \in {Add(Now)} : Awaited(v)) /\ (\A v \in W : Awaited(v))
    BY <1>9, <1>10 DEF Good
  <1> QED
    BY <1>1, <1>11, BecomesAwaited

LEMMA LeSessionAwaited ==
  ASSUME Inv, AnswerUnderWay, StartLeDiscovery \/ CancelLeDiscovery
  PROVE  AnswerUnderWay'
  <1>1. CASE StartLeDiscovery
    <2>1. ~Waiting(Now)
      BY <1>1, NowAwaited DEF StartLeDiscovery, Awaited, Ending
    <2>2. \A v \in ResumeLeDiscovery(Now) : Awaited(v)
      BY <2>1, NowAwaited, StartQuiet DEF Awaited
    <2> QED
      BY <1>1, <2>2, BecomesAwaited DEF StartLeDiscovery
  <1>2. CASE CancelLeDiscovery
    <2>1. \A v \in StopSession(Now) : Awaited(v)
      BY NowAwaited, StopSessionQuiet
    <2> QED
      BY <1>2, <2>1, BecomesAwaited DEF CancelLeDiscovery
  <1> QED
    BY <1>1, <1>2

LEMMA PowerOffQuiet ==
  ASSUME NEW w, Owned(w)
  PROVE  Quiet(w, PowerOff(w))
  <1> DEFINE off == [w EXCEPT !.bluez.powered = FALSE,
                              !.signals = Append(@, Signal("Powered", FALSE))]
             end == SetDiscovering(off, FALSE)
  <1>1. /\ w.signals \in Seq(Change) /\ w.bluez.discovering \in BOOLEAN
        /\ off.signals = Append(w.signals, Signal("Powered", FALSE))
        /\ off.adapter = w.adapter /\ off.bluez.discovering = w.bluez.discovering
        /\ end.signals = Append(off.signals, Signal("Discovering", FALSE))
        /\ end.adapter = w.adapter /\ end.bluez.discovering = FALSE
    BY DEF Owned, World, SetDiscovering
  <1>2. PowerOff(w) \in {off, end}
    BY DEF PowerOff
  <1> HIDE DEF off, end
  <1>3. off.signals \in Seq(Change) /\ (Ended(w.signals) => Ended(off.signals))
    BY <1>1, EndedAppend, AddedSignal, SignalIsChange
  <1>4. Ended(end.signals)
    BY <1>1, <1>3, EndedAppend, SignalIsChange
  <1> QED
    BY <1>1, <1>2, <1>3, <1>4 DEF Quiet

LEMMA PowerCallQuiet ==
  ASSUME NEW w, Owned(w), NEW b \in BOOLEAN, NEW v \in SetPoweredCall(w, b)
  PROVE  Quiet(w, v)
  <1> DEFINE on == [w EXCEPT !.bluez.powered = TRUE,
                             !.signals = Append(@, Signal("Powered", TRUE))]
  <1>1. /\ w.signals \in Seq(Change)
        /\ on.signals = Append(w.signals, Signal("Powered", TRUE))
        /\ on.adapter = w.adapter /\ on.bluez.discovering = w.bluez.discovering
    BY DEF Owned, World
  <1>2. v \in {Failure(w), w, on, PowerOff(w)}
    BY DEF SetPoweredCall
  <1> HIDE DEF on
  <1>3. Quiet(w, on)
    BY <1>1, EndedAppend, SignalIsChange DEF Quiet
  <1>4. Quiet(w, w)
    BY DEF Quiet
  <1> QED
    BY <1>2, <1>3, <1>4, FailureQuiet, PowerOffQuiet

LEMMA PowerAwaited ==
  ASSUME Inv, AnswerUnderWay, (\E b \in BOOLEAN : SetPowered(b)) \/ ForceRepower \/ LosePower
  PROVE  AnswerUnderWay'
  <1>1. ASSUME NEW w, Owned(w), Awaited(w), NEW b \in BOOLEAN, NEW v \in SetPoweredCall(w, b)
        PROVE  Owned(v) /\ Awaited(v)
    <2>1. Owned(v) /\ Quiet(w, v)
      BY <1>1, PowerCallKeeps, PowerCallQuiet DEF Kept
    <2> QED
      BY <1>1, <2>1, QuietAwaited DEF Owned, World
  <1>2. Owned(Now) /\ Awaited(Now)
    BY NowAwaited
  <1>3. ASSUME NEW b \in BOOLEAN, SetPowered(b)
        PROVE  AnswerUnderWay'
    BY <1>1, <1>2, <1>3, BecomesAwaited DEF SetPowered
  <1>4. CASE ForceRepower
    <2> DEFINE S == SetPoweredCall(Now, FALSE)
               W == {v \in S : ~v.ok} \cup
                      UNION {SetPoweredCall(v, TRUE) : v \in {u \in S : u.ok}}
    <2>1. Becomes(W)
      BY <1>4, Zenon DEF ForceRepower, Then
    <2>2. \A v \in S : Owned(v) /\ Awaited(v)
      BY <1>1, <1>2
    <2> HIDE DEF S
    <2>3. ASSUME NEW v \in W
          PROVE  Awaited(v)
      <3>1. v \in S \/ \E u \in S : v \in SetPoweredCall(u, TRUE)
        OBVIOUS
      <3> QED
        BY <1>1, <2>2, <3>1
    <2> HIDE DEF W
    <2> QED
      BY <2>1, <2>3, BecomesAwaited
  <1>5. CASE LosePower
    <2>1. Awaited(PowerOff(Now))
      BY <1>2, PowerOffQuiet, QuietAwaited DEF Owned, World
    <2> QED
      BY <1>5, <2>1, BecomesAwaited DEF LosePower
  <1> QED
    BY <1>3, <1>4, <1>5

LEMMA RemoveLeAwaited ==
  ASSUME Inv, AnswerUnderWay, NEW scan \in ScanId, RemoveLeDiscoveryFilter(scan)
  PROVE  AnswerUnderWay'
  <1> DEFINE v == [Now EXCEPT !.adapter.mLeScanFilters[scan] = NoScan]
  <1>1. Becomes({v})
    BY DEF RemoveLeDiscoveryFilter
  <1>2. Quiet(Now, v)
    BY NowAwaited DEF Owned, World, AdapterFields, Quiet
  <1> HIDE DEF v
  <1>3. Awaited(v)
    BY <1>2, NowAwaited, QuietAwaited DEF Owned, World
  <1> QED
    BY <1>1, <1>3, BecomesAwaited

LEMMA SettingAwaited ==
  ASSUME Inv, AnswerUnderWay, (\E b \in BOOLEAN : SetDiscoveryTimeout(b)) \/ GetAdapterProperties
  PROVE  AnswerUnderWay'
  <1>1. ASSUME NEW v, Quiet(Now, v), Becomes({v})
        PROVE  AnswerUnderWay'
    <2>1. Awaited(v)
      BY <1>1, NowAwaited, QuietAwaited DEF Owned, World
    <2> QED
      BY <1>1, <2>1, BecomesAwaited
  <1>2. ASSUME NEW b \in BOOLEAN, SetDiscoveryTimeout(b)
        PROVE  AnswerUnderWay'
    <2> DEFINE v == [Now EXCEPT !.adapter.mDiscoveryTimeout = b]
    <2>1. Becomes({v})
      BY <1>2 DEF SetDiscoveryTimeout
    <2>2. Quiet(Now, v)
      BY NowAwaited DEF Owned, World, AdapterFields, Quiet
    <2> HIDE DEF v
    <2> QED
      BY <1>1, <2>1, <2>2
  <1>3. CASE GetAdapterProperties
    <2> DEFINE e == Signal("Discovering", bluez.discovering)
               v == [Now EXCEPT !.signals = Append(@, e)]
    <2>1. Becomes({v})
      BY <1>3 DEF GetAdapterProperties
    <2>2. e \in Change
      <3>1. bluez.discovering \in BOOLEAN
        BY DEF Inv, TypeOK
      <3> QED
        BY <3>1, SignalIsChange
    <2> HIDE DEF e
    <2>3. /\ v.signals = Append(Now.signals, e) /\ v.adapter = Now.adapter
          /\ v.bluez = Now.bluez /\ Now.signals \in Seq(Change)
      BY NowAwaited DEF Owned, World
    <2> HIDE DEF v
    <2>4. Quiet(Now, v)
      BY <2>2, <2>3, EndedAppend DEF Quiet
    <2> QED
      BY <1>1, <2>1, <2>4
  <1> QED
    BY <1>2, <1>3

\* The signal either is the one the callback waits for, and calls it, or leaves it under way.
LEMMA SignalAwaited ==
  ASSUME Inv, AnswerUnderWay,
         (\E b \in BOOLEAN : HandlePropertiesChanged(b)) \/ HandleOtherPropertiesChanged
  PROVE  AnswerUnderWay'
  <1>1. Owned(Now) /\ Awaited(Now)
    BY NowAwaited
  <1>2. ASSUME NEW w, Owned(w), Awaited(w), NEW b \in BOOLEAN, Becomes({ResetWhenStopped(w, b)})
        PROVE  AnswerUnderWay'
    <2>1. ResetWhenStopped(w, b) \in {w, ResetDiscoveryTimeout(w)}
      BY DEF ResetWhenStopped
    <2>2. Awaited(ResetDiscoveryTimeout(w))
      BY <1>2, ResetQuiet, QuietAwaited DEF Owned, World
    <2> QED
      BY <1>2, <2>1, <2>2, BecomesAwaited
  <1>3. ASSUME NEW b \in BOOLEAN, HandlePropertiesChanged(b)
        PROVE  AnswerUnderWay'
    <2> DEFINE w == [Now EXCEPT !.signals = Tail(@)]
               s == Head(signals)
               v == AddProperty(w, s)
    <2>1. signals \in Seq(Change) /\ signals # <<>>
      BY <1>3 DEF HandlePropertiesChanged, Inv, TypeOK, Change
    <2>2. /\ s \in Change /\ Tail(signals) \in Seq(Change) /\ s = signals[1]
          /\ \A i \in DOMAIN signals : i # 1 => /\ i - 1 \in DOMAIN Tail(signals)
                                                /\ Tail(signals)[i - 1] = signals[i]
      BY <2>1
    <2>3. Ended(signals) => s = Signal("Discovering", FALSE) \/ Ended(Tail(signals))
      <3>1. ASSUME NEW i \in DOMAIN signals, signals[i] = Signal("Discovering", FALSE)
            PROVE  s = Signal("Discovering", FALSE) \/ Ended(Tail(signals))
        <4>1. CASE i = 1
          BY <2>2, <3>1, <4>1
        <4>2. CASE i # 1
          BY <2>2, <3>1, <4>2 DEF Ended
        <4> QED
          BY <4>1, <4>2
      <3> QED
        BY <3>1 DEF Ended
    <2>4. /\ Owned(w) /\ w.adapter = adapter /\ w.bluez = bluez
          /\ w.signals = Tail(signals)
      BY <1>1, <2>2, NowAwaited DEF Owned, World
    <2>5. Becomes({ResetWhenStopped(v, b)})
      BY <1>3 DEF HandlePropertiesChanged
    <2> HIDE DEF w, s
    <2>6. Owned(v)
      BY <2>2, <2>4, AddPropertyKeeps DEF Kept
    <2>7. Awaited(v)
      <3>1. Waiting(Now) => adapter.mDiscovering /\ ~bluez.discovering /\ Ended(signals)
        BY <1>1, NowAwaited DEF Awaited, Ending
      <3>2. CASE s.key = "Powered"
        <4>1. v = [w EXCEPT !.adapter.mPowered = s.value]
          BY <3>2 DEF AddProperty
        <4>2. Quiet(w, v)
          <5>1. v.adapter = [w.adapter EXCEPT !.mPowered = s.value]
                /\ v.bluez = w.bluez /\ v.signals = w.signals
            BY <2>4, <4>1 DEF Owned, World
          <5>2. /\ v.adapter.mCancelDiscCallback = w.adapter.mCancelDiscCallback
                /\ v.adapter.mDiscovering = w.adapter.mDiscovering
            BY <2>4, <5>1 DEF Owned, World, AdapterFields
          <5> QED
            BY <5>1, <5>2 DEF Quiet
        <4>3. s # Signal("Discovering", FALSE)
          BY <3>2 DEF Signal
        <4>4. Awaited(w)
          BY <2>3, <2>4, <3>1, <4>3, NowAwaited DEF Awaited, Waiting, Ending
        <4> QED
          BY <2>4, <4>2, <4>4, QuietAwaited DEF Owned, World
      <3>3. CASE s.key # "Powered" /\ s.value = w.adapter.mDiscovering
        <4>1. v = w
          BY <3>3 DEF AddProperty
        <4>2. ASSUME s = Signal("Discovering", FALSE)
              PROVE  ~adapter.mDiscovering
          <5>1. s.value = FALSE
            BY <4>2 DEF Signal
          <5> QED
            BY <2>4, <3>3, <5>1
        <4> QED
          BY <2>3, <2>4, <3>1, <4>1, <4>2, NowAwaited DEF Awaited, Waiting, Ending
      <3>4. CASE s.key # "Powered" /\ s.value # w.adapter.mDiscovering
        <4>1. v.adapter.mCancelDiscCallback =
                IF w.adapter.mCancelDiscCallback = "waiting" THEN "called"
                ELSE w.adapter.mCancelDiscCallback
          BY <2>4, <3>4 DEF AddProperty, Owned, World, AdapterFields
        <4> QED
          BY <4>1 DEF Awaited, Waiting
      <3> QED
        BY <3>2, <3>3, <3>4
    <2> HIDE DEF v
    <2> QED
      BY <1>2, <2>5, <2>6, <2>7
  <1>4. CASE HandleOtherPropertiesChanged
    BY <1>1, <1>2, <1>4 DEF HandleOtherPropertiesChanged
  <1> QED
    BY <1>3, <1>4

\* A callback that cancelDiscovery has stored is on its way to be called: BlueZ has ended
\* the session, its signal is queued, and neither a scan nor a change of power in between
\* starts a session whose end the adapter would take for this one.
THEOREM AnswersComing == Spec => []AnswerUnderWay
  <1>1. Init => AnswerUnderWay
    BY DEF Init, AnswerUnderWay
  <1>2. Inv /\ AnswerUnderWay /\ [Next]_vars => AnswerUnderWay'
    <2> SUFFICES ASSUME Inv, AnswerUnderWay, [Next]_vars PROVE AnswerUnderWay'
      OBVIOUS
    <2>1. CASE ClientStep
      BY <2>1, StartDiscoveryAwaited, CancelDiscoveryAwaited, AddLeAwaited, RemoveLeAwaited,
         LeSessionAwaited, PowerAwaited, SettingAwaited DEF ClientStep
    <2>2. CASE LoopStep
      BY <2>2, TimeoutAwaited, SignalAwaited DEF LoopStep
    <2>3. CASE LosePower
      BY <2>3, PowerAwaited
    <2>4. CASE UNCHANGED vars
      BY <2>4 DEF vars, AnswerUnderWay
    <2> QED
      BY <2>1, <2>2, <2>3, <2>4 DEF Next
  <1> QED
    BY <1>1, <1>2, InvAlways, PTL DEF Spec
=============================================================================
