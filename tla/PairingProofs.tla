--------------------------- MODULE PairingProofs ---------------------------
(***************************************************************************)
(* Theorems about module Pairing, for any adapters, addresses and number   *)
(* of calls in flight.                                                     *)
(***************************************************************************)
EXTENDS Pairing, TLAPS

\* An info and the reply of an invocation stay in their types.
LEMMA NewInfoType ==
  ASSUME NEW b \in BOOLEAN
  PROVE  NewInfo(b) \in PairingInfo /\ NewInfo(b).incoming = b
BY DEF NewInfo, PairingInfo, Invocation

\* startPairingForDevice leaves an info of the type, the existing one if any.
LEMMA StartedInfoType ==
  ASSUME TypeOK, NEW p \in Path, NEW b \in BOOLEAN
  PROVE  /\ StartedInfo(p, b) \in PairingInfo
         /\ mDevicePairings[p] = NoInfo => StartedInfo(p, b).incoming = b
         /\ mDevicePairings[p] # NoInfo => StartedInfo(p, b) = mDevicePairings[p]
BY NewInfoType DEF StartedInfo, TypeOK

\* A reply leaves crashed a boolean, closed invocation or not.
LEMMA ReplyType ==
  ASSUME crashed \in BOOLEAN, NEW i, Reply(i)
  PROVE  crashed' \in BOOLEAN
BY DEF Reply

\* The state the adapters start in has its types.
LEMMA InitType == Init => TypeOK
<1>1. 0 \in 0 .. MaxCalls
  BY PairingAssumption DEF PairingAssumption
<1>2. ASSUME Init
      PROVE  /\ mDevicePairings \in [Path -> PairingInfo \cup {NoInfo}]
             /\ mPairing \in [Adapter -> BOOLEAN]
             /\ mCurrentPairingDevice \in [Adapter -> Address \cup {NoAddress, Freed}]
  BY <1>2 DEF Init
<1>3. ASSUME Init
      PROVE  /\ pairCalls \in [Path -> 0 .. MaxCalls]
             /\ cancelCalls \in [Path -> 0 .. MaxCalls]
             /\ waiting \in [Path -> {"none", "confirmation", "secret"}]
  BY <1>1, <1>3 DEF Init
<1> QED
  BY <1>2, <1>3 DEF Init, TypeOK

\* Calls of the client keep the types.
LEMMA ClientTypeStep ==
  ASSUME TypeOK, ClientStep
  PROVE  TypeOK'
<1>1. ASSUME NEW a \in Adapter, NEW x \in Address, Pair(a, x)
      PROVE  TypeOK'
  <2>1. <<a, x>> \in Path
    BY DEF Path
  <2>2. mDevicePairings' \in [Path -> PairingInfo \cup {NoInfo}]
    BY <1>1, <2>1, StartedInfoType DEF Pair, TypeOK
  <2>3. pairCalls' \in [Path -> 0 .. MaxCalls]
    <3>1. CASE ~agent
      BY <1>1, <3>1 DEF Pair, TypeOK
    <3>2. CASE agent
      <4>1. /\ pairCalls' = [pairCalls EXCEPT ![<<a, x>>] = @ + 1]
            /\ pairCalls[<<a, x>>] < MaxCalls
        BY <1>1, <3>2 DEF Pair
      <4>2. pairCalls[<<a, x>>] + 1 \in 0 .. MaxCalls
        BY <2>1, <4>1, PairingAssumption DEF TypeOK, PairingAssumption
      <4> QED
        BY <4>1, <4>2 DEF TypeOK
    <3> QED
      BY <3>1, <3>2
  <2>4. mPairing' \in [Adapter -> BOOLEAN]
    BY <1>1 DEF Pair, TypeOK
  <2>5. mCurrentPairingDevice' \in [Adapter -> Address \cup {NoAddress, Freed}]
    BY <1>1 DEF Pair, TypeOK
  <2> QED
    BY <1>1, <2>2, <2>3, <2>4, <2>5 DEF Pair, TypeOK
<1>2. ASSUME NEW a \in Adapter, NEW x \in Address, CancelOutgoing(a, x)
      PROVE  TypeOK'
  <2>1. <<a, x>> \in Path
    BY DEF Path
  <2> QED
    BY <1>2, <2>1, PairingAssumption DEF CancelOutgoing, TypeOK, PairingAssumption
<1>3. ASSUME NEW a \in Adapter, NEW x \in Address, CancelIncoming(a, x)
      PROVE  TypeOK'
  <2>1. CASE ~agent
    BY <1>3, <2>1 DEF CancelIncoming, TypeOK
  <2>2. CASE agent
    <3>1. mDevicePairings' \in [Path -> PairingInfo \cup {NoInfo}]
      BY <1>3, <2>2 DEF CancelIncoming, TypeOK, PairingInfo, Invocation, FoundForAddress
    <3>2. crashed' \in BOOLEAN
      BY <1>3, <2>2, ReplyType DEF CancelIncoming, TypeOK
    <3>3. waiting' \in [Path -> {"none", "confirmation", "secret"}]
      BY <1>3, <2>2 DEF CancelIncoming, TypeOK
    <3>4. mPairing' \in [Adapter -> BOOLEAN]
      BY <1>3, <2>2 DEF CancelIncoming, TypeOK
    <3> QED
      BY <1>3, <3>1, <3>2, <3>3, <3>4 DEF CancelIncoming, TypeOK
  <2> QED
    BY <2>1, <2>2
<1>4. ASSUME NEW a \in Adapter, NEW x \in Address, SupplyPairingConfirmation(a, x)
      PROVE  TypeOK'
  <2>1. mDevicePairings' \in [Path -> PairingInfo \cup {NoInfo}]
    BY <1>4 DEF SupplyPairingConfirmation, TypeOK, PairingInfo, Invocation, FoundForAddress
  <2>2. crashed' \in BOOLEAN
    BY <1>4, ReplyType DEF SupplyPairingConfirmation, TypeOK
  <2>3. waiting' \in [Path -> {"none", "confirmation", "secret"}]
    BY <1>4 DEF SupplyPairingConfirmation, TypeOK
  <2>4. mPairing' \in [Adapter -> BOOLEAN]
    BY <1>4 DEF SupplyPairingConfirmation, TypeOK
  <2> QED
    BY <1>4, <2>1, <2>2, <2>3, <2>4 DEF SupplyPairingConfirmation, TypeOK
<1>5. ASSUME NEW x \in Address, SupplyPairingSecret(x)
      PROVE  TypeOK'
  <2>1. mDevicePairings' \in [Path -> PairingInfo \cup {NoInfo}]
    BY <1>5 DEF SupplyPairingSecret, TypeOK, PairingInfo, Invocation, FoundForAddress
  <2>2. crashed' \in BOOLEAN
    BY <1>5, ReplyType DEF SupplyPairingSecret, TypeOK
  <2>3. waiting' \in [Path -> {"none", "confirmation", "secret"}]
    BY <1>5 DEF SupplyPairingSecret, TypeOK
  <2> QED
    BY <1>5, <2>1, <2>2, <2>3 DEF SupplyPairingSecret, TypeOK
<1> QED
  BY <1>1, <1>2, <1>3, <1>4, <1>5 DEF ClientStep

\* Replies to the asynchronous calls keep the types.
LEMMA ReplyTypeStep ==
  ASSUME TypeOK, ReplyStep
  PROVE  TypeOK'
<1>1. ASSUME NEW p \in Path, NEW b \in BOOLEAN, PairReply(p, b)
      PROVE  TypeOK'
  <2>1. pairCalls' \in [Path -> 0 .. MaxCalls]
    BY <1>1, PairingAssumption DEF PairReply, TypeOK, PairingAssumption
  <2>2. mDevicePairings' \in [Path -> PairingInfo \cup {NoInfo}]
    BY <1>1 DEF PairReply, StopPairingForDevice, TypeOK
  <2>3. mPairing' \in [Adapter -> BOOLEAN]
    BY <1>1 DEF PairReply, StopPairingForDevice, TypeOK
  <2>4. stale' \subseteq Path
    BY <1>1 DEF PairReply, StillStale, TypeOK
  <2>5. waiting' \in [Path -> {"none", "confirmation", "secret"}]
    BY <1>1 DEF PairReply, TypeOK
  <2> QED
    BY <1>1, <2>1, <2>2, <2>3, <2>4, <2>5 DEF PairReply, TypeOK
<1>2. ASSUME NEW p \in Path, NEW b \in BOOLEAN, CancelReply(p, b)
      PROVE  TypeOK'
  <2>1. cancelCalls' \in [Path -> 0 .. MaxCalls]
    BY <1>2, PairingAssumption DEF CancelReply, TypeOK, PairingAssumption
  <2>2. mPairing' \in [Adapter -> BOOLEAN]
    BY <1>2 DEF CancelReply, TypeOK
  <2>3. stale' \subseteq Path
    BY <1>2 DEF CancelReply, StillStale, TypeOK
  <2> QED
    BY <1>2, <2>1, <2>2, <2>3 DEF CancelReply, TypeOK
<1>3. ASSUME NEW p \in Path, ReplyCrash(p)
      PROVE  TypeOK'
  BY <1>3 DEF ReplyCrash, TypeOK
<1> QED
  BY <1>1, <1>2, <1>3 DEF ReplyStep

\* A handler's info for p stays in the type.
LEMMA InitiatePairingTypeStep ==
  ASSUME TypeOK, NEW p \in Path, NEW info \in PairingInfo,
         InitiatePairing(p, info),
         waiting' \in [Path -> {"none", "confirmation", "secret"}]
  PROVE  TypeOK'
<1>1. mPairing' \in [Adapter -> BOOLEAN]
  BY DEF InitiatePairing, TypeOK
<1>2. mDevicePairings' \in [Path -> PairingInfo \cup {NoInfo}]
  BY DEF InitiatePairing, TypeOK
<1> QED
  BY <1>1, <1>2 DEF InitiatePairing, TypeOK

\* Methods of the agent keep the types.
LEMMA AgentTypeStep ==
  ASSUME TypeOK, AgentStep
  PROVE  TypeOK'
<1>1. ASSUME NEW p \in Path, RefuseRequest(p)
      PROVE  TypeOK'
  BY <1>1 DEF RefuseRequest, TypeOK
<1>2. ASSUME NEW p \in Path, HandleRequestConfirmation(p)
      PROVE  TypeOK'
  <2>1. [StartedInfo(p, TRUE) EXCEPT !.requestConfirmation = "open"] \in PairingInfo
    BY StartedInfoType DEF PairingInfo, Invocation
  <2>2. waiting' \in [Path -> {"none", "confirmation", "secret"}]
    BY <1>2 DEF HandleRequestConfirmation, TypeOK
  <2> QED
    BY <1>2, <2>1, <2>2, InitiatePairingTypeStep DEF HandleRequestConfirmation
<1>3. ASSUME NEW p \in Path, HandleRequestSecret(p)
      PROVE  TypeOK'
  <2>1. [StartedInfo(p, TRUE) EXCEPT !.requestPairingSecret = "open"] \in PairingInfo
    BY StartedInfoType DEF PairingInfo, Invocation
  <2>2. waiting' \in [Path -> {"none", "confirmation", "secret"}]
    BY <1>3 DEF HandleRequestSecret, TypeOK
  <2> QED
    BY <1>3, <2>1, <2>2, InitiatePairingTypeStep DEF HandleRequestSecret
<1>4. ASSUME NEW p \in Path, HandleDisplay(p)
      PROVE  TypeOK'
  <2>1. waiting' \in [Path -> {"none", "confirmation", "secret"}]
    BY <1>4 DEF HandleDisplay, TypeOK
  <2> QED
    BY <1>4, <2>1, StartedInfoType, InitiatePairingTypeStep DEF HandleDisplay
<1>5. ASSUME NEW p \in Path, HandleCancel(p)
      PROVE  TypeOK'
  BY <1>5 DEF HandleCancel, TypeOK
<1> QED
  BY <1>1, <1>2, <1>3, <1>4, <1>5 DEF AgentStep

\* Objects that come and go keep the types.
LEMMA ObjectTypeStep ==
  ASSUME TypeOK, ObjectStep
  PROVE  TypeOK'
<1>1. CASE CreateAgentManager
  BY <1>1 DEF CreateAgentManager, TypeOK
<1>2. CASE RemoveAgentManager
  BY <1>2 DEF RemoveAgentManager, TypeOK
<1>3. ASSUME NEW p \in Path, AddDevice(p)
      PROVE  TypeOK'
  BY <1>3 DEF AddDevice, TypeOK
<1>4. ASSUME NEW p \in Path, RemoveDevice(p)
      PROVE  TypeOK'
  <2>1. mCurrentPairingDevice' \in [Adapter -> Address \cup {NoAddress, Freed}]
    BY <1>4 DEF RemoveDevice, TypeOK
  <2> QED
    BY <1>4, <2>1 DEF RemoveDevice, TypeOK
<1> QED
  BY <1>1, <1>2, <1>3, <1>4 DEF ObjectStep

\* TypeOK is inductive.
LEMMA TypeStep == TypeOK /\ [Next]_vars => TypeOK'
<1>1. TypeOK /\ UNCHANGED vars => TypeOK'
  BY DEF TypeOK, vars
<1> QED
  BY <1>1, ClientTypeStep, ReplyTypeStep, AgentTypeStep, ObjectTypeStep DEF Next

\* Every reachable state has the types TypeOK states.
THEOREM TypeCorrect == Spec => []TypeOK
BY InitType, TypeStep, PTL DEF Spec

-----------------------------------------------------------------------------
(***************************************************************************)
(* OutgoingInfoHasPairCall is inductive together with TypeOK: an outgoing  *)
(* info is created with its call, and a step that takes a call away        *)
(* removes the info of the same path.                                      *)
(***************************************************************************)

\* What every step but Pair and PairReply guarantees.
NoNewOutgoing ==
  /\ pairCalls' = pairCalls
  /\ \A p \in Path : Outgoing(p)' => Outgoing(p)

\* A step that creates no outgoing info and ends no call keeps the invariant.
LEMMA NoNewOutgoingStep ==
  ASSUME OutgoingInfoHasPairCall, NoNewOutgoing
  PROVE  OutgoingInfoHasPairCall'
BY DEF OutgoingInfoHasPairCall, NoNewOutgoing

\* Calls of the client other than pair() create no outgoing info.
LEMMA ClientNoNewOutgoing ==
  ASSUME TypeOK, ClientStep,
         \A a \in Adapter, x \in Address : ~Pair(a, x)
  PROVE  NoNewOutgoing
<1>1. ASSUME NEW a \in Adapter, NEW x \in Address, CancelOutgoing(a, x)
      PROVE  NoNewOutgoing
  BY <1>1 DEF CancelOutgoing, NoNewOutgoing, Outgoing
<1>2. ASSUME NEW a \in Adapter, NEW x \in Address, CancelIncoming(a, x)
      PROVE  NoNewOutgoing
  BY <1>2 DEF CancelIncoming, NoNewOutgoing, Outgoing, TypeOK, PairingInfo, FoundForAddress
<1>3. ASSUME NEW a \in Adapter, NEW x \in Address, SupplyPairingConfirmation(a, x)
      PROVE  NoNewOutgoing
  BY <1>3 DEF SupplyPairingConfirmation, NoNewOutgoing, Outgoing, TypeOK, PairingInfo,
              FoundForAddress
<1>4. ASSUME NEW x \in Address, SupplyPairingSecret(x)
      PROVE  NoNewOutgoing
  BY <1>4 DEF SupplyPairingSecret, NoNewOutgoing, Outgoing, TypeOK, PairingInfo,
              FoundForAddress
<1> QED
  BY <1>1, <1>2, <1>3, <1>4 DEF ClientStep

\* initiatePairing creates infos of incoming attempts only.
LEMMA InitiateNoNewOutgoing ==
  ASSUME TypeOK, NEW p \in Path, NEW info \in PairingInfo,
         info.incoming = StartedInfo(p, TRUE).incoming,
         InitiatePairing(p, info)
  PROVE  NoNewOutgoing
<1>1. /\ mDevicePairings' = [mDevicePairings EXCEPT ![p] = info]
      /\ pairCalls' = pairCalls
  BY DEF InitiatePairing
<1>2. Outgoing(p)' => Outgoing(p)
  BY <1>1, StartedInfoType DEF Outgoing, TypeOK
<1>3. \A q \in Path \ {p} : Outgoing(q)' => Outgoing(q)
  BY <1>1 DEF Outgoing, TypeOK
<1> QED
  BY <1>1, <1>2, <1>3 DEF NoNewOutgoing

\* Methods of the agent create no outgoing info.
LEMMA AgentNoNewOutgoing ==
  ASSUME TypeOK, AgentStep
  PROVE  NoNewOutgoing
<1>1. ASSUME NEW p \in Path, RefuseRequest(p) \/ HandleCancel(p)
      PROVE  NoNewOutgoing
  BY <1>1 DEF RefuseRequest, HandleCancel, NoNewOutgoing, Outgoing
<1>2. ASSUME NEW p \in Path, HandleRequestConfirmation(p)
      PROVE  NoNewOutgoing
  <2>1. /\ [StartedInfo(p, TRUE) EXCEPT !.requestConfirmation = "open"] \in PairingInfo
        /\ [StartedInfo(p, TRUE) EXCEPT !.requestConfirmation = "open"].incoming
             = StartedInfo(p, TRUE).incoming
    BY StartedInfoType DEF PairingInfo, Invocation
  <2> QED
    BY <1>2, <2>1, InitiateNoNewOutgoing DEF HandleRequestConfirmation
<1>3. ASSUME NEW p \in Path, HandleRequestSecret(p)
      PROVE  NoNewOutgoing
  <2>1. /\ [StartedInfo(p, TRUE) EXCEPT !.requestPairingSecret = "open"] \in PairingInfo
        /\ [StartedInfo(p, TRUE) EXCEPT !.requestPairingSecret = "open"].incoming
             = StartedInfo(p, TRUE).incoming
    BY StartedInfoType DEF PairingInfo, Invocation
  <2> QED
    BY <1>3, <2>1, InitiateNoNewOutgoing DEF HandleRequestSecret
<1>4. ASSUME NEW p \in Path, HandleDisplay(p)
      PROVE  NoNewOutgoing
  BY <1>4, StartedInfoType, InitiateNoNewOutgoing DEF HandleDisplay
<1> QED
  BY <1>1, <1>2, <1>3, <1>4 DEF AgentStep

\* Neither do objects that come and go.
LEMMA ObjectNoNewOutgoing ==
  ASSUME TypeOK, ObjectStep
  PROVE  NoNewOutgoing
BY DEF ObjectStep, CreateAgentManager, RemoveAgentManager, AddDevice, RemoveDevice,
       NoNewOutgoing, Outgoing

\* pair() creates an outgoing info together with its call.
LEMMA PairKeepsOutgoing ==
  ASSUME TypeOK, OutgoingInfoHasPairCall,
         NEW a \in Adapter, NEW x \in Address, Pair(a, x)
  PROVE  OutgoingInfoHasPairCall'
<1> DEFINE p == <<a, x>>
<1>1. p \in Path
  BY DEF Path
<1>2. CASE ~agent
  BY <1>2 DEF Pair, OutgoingInfoHasPairCall, Outgoing
<1>3. CASE agent
  <2>1. pairCalls' = [pairCalls EXCEPT ![p] = @ + 1]
    BY <1>3 DEF Pair
  <2>2. pairCalls'[p] > 0
    BY <1>1, <2>1 DEF TypeOK
  <2>3. \A q \in Path \ {p} : /\ mDevicePairings'[q] = mDevicePairings[q]
                              /\ pairCalls'[q] = pairCalls[q]
    BY <1>3, <2>1 DEF Pair, TypeOK
  <2> QED
    BY <2>2, <2>3 DEF OutgoingInfoHasPairCall, Outgoing
<1> QED
  BY <1>2, <1>3

\* The callback that ends a Pair call removes the info of its device.
LEMMA ReplyKeepsOutgoing ==
  ASSUME TypeOK, OutgoingInfoHasPairCall, ReplyStep
  PROVE  OutgoingInfoHasPairCall'
<1>1. ASSUME NEW p \in Path, NEW b \in BOOLEAN, PairReply(p, b)
      PROVE  OutgoingInfoHasPairCall'
  <2>1. mDevicePairings'[p] = NoInfo
    BY <1>1 DEF PairReply, StopPairingForDevice, TypeOK
  <2>2. \A q \in Path \ {p} : /\ mDevicePairings'[q] = mDevicePairings[q]
                              /\ pairCalls'[q] = pairCalls[q]
    BY <1>1 DEF PairReply, StopPairingForDevice, TypeOK
  <2> QED
    BY <2>1, <2>2 DEF OutgoingInfoHasPairCall, Outgoing
<1>2. ASSUME NEW p \in Path, NEW b \in BOOLEAN, CancelReply(p, b) \/ ReplyCrash(p)
      PROVE  OutgoingInfoHasPairCall'
  BY <1>2 DEF CancelReply, ReplyCrash, OutgoingInfoHasPairCall, Outgoing
<1> QED
  BY <1>1, <1>2 DEF ReplyStep

\* An outgoing pairing info always has its Device1.Pair call in flight.
THEOREM OutgoingHasPairCall == Spec => []OutgoingInfoHasPairCall
<1>1. Init => OutgoingInfoHasPairCall
  BY DEF Init, OutgoingInfoHasPairCall, Outgoing
<1>2. TypeOK /\ OutgoingInfoHasPairCall /\ [Next]_vars => OutgoingInfoHasPairCall'
  <2> SUFFICES ASSUME TypeOK, OutgoingInfoHasPairCall, [Next]_vars
               PROVE  OutgoingInfoHasPairCall'
    OBVIOUS
  <2>1. CASE ClientStep
    BY <2>1, PairKeepsOutgoing, ClientNoNewOutgoing, NoNewOutgoingStep
  <2>2. CASE ReplyStep
    BY <2>2, ReplyKeepsOutgoing
  <2>3. CASE AgentStep \/ ObjectStep
    BY <2>3, AgentNoNewOutgoing, ObjectNoNewOutgoing, NoNewOutgoingStep
  <2>4. CASE UNCHANGED vars
    BY <2>4 DEF vars, OutgoingInfoHasPairCall, Outgoing
  <2> QED
    BY <2>1, <2>2, <2>3, <2>4 DEF Next
<1> QED
  BY <1>1, <1>2, TypeCorrect, PTL DEF Spec

-----------------------------------------------------------------------------
(***************************************************************************)
(* The action property needs no invariant beyond the types: a step that    *)
(* empties an adapter's pairing infos is one of the agent's removals, and  *)
(* each of those clears the flag or takes the agent away.                  *)
(***************************************************************************)

NoNewStranded == \A a \in Adapter : Stranded(a)' => Stranded(a) \/ ~agent'

\* A step that keeps the flag down or keeps an info strands nobody.
LEMMA KeepsInfosNotStranded ==
  ASSUME TypeOK,
         \A a \in Adapter : mPairing'[a] =>
            \/ mPairing[a] /\ \A x \in Address :
                 mDevicePairings'[<<a, x>>] = NoInfo => mDevicePairings[<<a, x>>] = NoInfo
            \/ \E x \in Address : mDevicePairings'[<<a, x>>] # NoInfo
  PROVE  NoNewStranded
BY DEF NoNewStranded, Stranded

\* Calls of the client strand no adapter that has an agent.
LEMMA ClientNotStranded ==
  ASSUME TypeOK, ClientStep
  PROVE  NoNewStranded
<1>0. \A p \in Path, b \in BOOLEAN : StartedInfo(p, b) # NoInfo
  BY StartedInfoType, NoInfoAssumption DEF NoInfoAssumption
<1>1. ASSUME NEW a \in Adapter, NEW x \in Address, Pair(a, x)
      PROVE  NoNewStranded
  <2>1. <<a, x>> \in Path
    BY DEF Path
  <2>2. CASE ~agent
    BY <1>1, <2>2 DEF Pair, NoNewStranded
  <2>3. CASE agent
    <3>1. mDevicePairings'[<<a, x>>] # NoInfo
      BY <1>0, <1>1, <2>1, <2>3 DEF Pair, TypeOK
    <3>2. \A q \in Path \ {<<a, x>>} : mDevicePairings'[q] = mDevicePairings[q]
      BY <1>1, <2>1, <2>3 DEF Pair, TypeOK
    <3>3. \A b \in Adapter \ {a} : mPairing'[b] = mPairing[b]
      BY <1>1 DEF Pair, TypeOK
    <3>4. \A b \in Adapter \ {a}, y \in Address :
             mDevicePairings'[<<b, y>>] = mDevicePairings[<<b, y>>]
      BY <3>2 DEF Path
    <3> QED
      BY <3>1, <3>3, <3>4 DEF NoNewStranded, Stranded
  <2> QED
    BY <2>2, <2>3
<1>2. ASSUME NEW a \in Adapter, NEW x \in Address, CancelOutgoing(a, x)
      PROVE  NoNewStranded
  BY <1>2 DEF CancelOutgoing, NoNewStranded, Stranded
<1>3. ASSUME NEW a \in Adapter, NEW x \in Address, CancelIncoming(a, x)
      PROVE  NoNewStranded
  <2>1. \A b \in Adapter : mPairing'[b] => mPairing[b]
    BY <1>3 DEF CancelIncoming, TypeOK
  <2>2. \A q \in Path : mDevicePairings'[q] = NoInfo => mDevicePairings[q] = NoInfo
    BY <1>3, NoInfoAssumption
    DEF CancelIncoming, FoundForAddress, TypeOK, PairingInfo, Invocation, NoInfoAssumption
  <2> QED
    BY <2>1, <2>2, KeepsInfosNotStranded DEF Path
<1>4. ASSUME NEW a \in Adapter, NEW x \in Address, SupplyPairingConfirmation(a, x)
      PROVE  NoNewStranded
  <2>1. PICK q \in Path :
          LET info == mDevicePairings[q]
              p    == <<a, x>>
              done == info.incoming /\ p \in devices /\ mDevicePairings[p] # NoInfo
          IN
          /\ FoundForAddress(q, x)
          /\ mDevicePairings' =
               [r \in Path |->
                  IF done /\ r = p THEN NoInfo
                  ELSE IF r = q THEN [info EXCEPT !.requestConfirmation = "closed"]
                  ELSE mDevicePairings[r]]
          /\ mPairing' = IF done THEN [mPairing EXCEPT ![a] = FALSE] ELSE mPairing
    BY <1>4 DEF SupplyPairingConfirmation
  <2>2. \A b \in Adapter : mPairing'[b] => mPairing[b]
    BY <2>1 DEF TypeOK
  <2>3. [mDevicePairings[q] EXCEPT !.requestConfirmation = "closed"] # NoInfo
    BY <2>1, NoInfoAssumption
    DEF FoundForAddress, TypeOK, PairingInfo, Invocation, NoInfoAssumption
  <2>4. ASSUME NEW b \in Adapter, mPairing'[b], NEW y \in Address,
               mDevicePairings'[<<b, y>>] = NoInfo
        PROVE  mDevicePairings[<<b, y>>] = NoInfo
    <3>1. <<b, y>> \in Path
      BY DEF Path
    <3>2. b # a \/ mPairing' = mPairing
      BY <2>1, <2>4 DEF TypeOK
    <3> QED
      BY <2>1, <2>3, <2>4, <3>1, <3>2 DEF TypeOK
  <2> QED
    BY <2>2, <2>4, KeepsInfosNotStranded
<1>5. ASSUME NEW x \in Address, SupplyPairingSecret(x)
      PROVE  NoNewStranded
  <2>1. mPairing' = mPairing
    BY <1>5 DEF SupplyPairingSecret
  <2>2. \A q \in Path : mDevicePairings'[q] = NoInfo => mDevicePairings[q] = NoInfo
    BY <1>5, NoInfoAssumption
    DEF SupplyPairingSecret, FoundForAddress, TypeOK, PairingInfo, Invocation,
        NoInfoAssumption
  <2> QED
    BY <2>1, <2>2, KeepsInfosNotStranded DEF Path
<1> QED
  BY <1>1, <1>2, <1>3, <1>4, <1>5 DEF ClientStep

\* A callback that removes an info clears the flag.
LEMMA ReplyNotStranded ==
  ASSUME TypeOK, ReplyStep
  PROVE  NoNewStranded
<1>1. ASSUME NEW p \in Path, NEW b \in BOOLEAN, PairReply(p, b)
      PROVE  NoNewStranded
  <2>1. CASE mDevicePairings[p] = NoInfo
    BY <1>1, <2>1 DEF PairReply, StopPairingForDevice, NoNewStranded, Stranded
  <2>2. CASE mDevicePairings[p] # NoInfo
    <3>1. /\ mDevicePairings' = [mDevicePairings EXCEPT ![p] = NoInfo]
          /\ mPairing' = [mPairing EXCEPT ![p[1]] = FALSE]
      BY <1>1, <2>2 DEF PairReply, StopPairingForDevice
    <3>2. ~mPairing'[p[1]]
      BY <3>1 DEF TypeOK, Path
    <3>3. \A a \in Adapter \ {p[1]} : mPairing'[a] = mPairing[a]
      BY <3>1 DEF TypeOK
    <3>4. \A a \in Adapter \ {p[1]}, x \in Address :
             mDevicePairings'[<<a, x>>] = mDevicePairings[<<a, x>>]
      BY <3>1 DEF TypeOK, Path
    <3> QED
      BY <3>2, <3>3, <3>4 DEF NoNewStranded, Stranded
  <2> QED
    BY <2>1, <2>2
<1>2. ASSUME NEW p \in Path, NEW b \in BOOLEAN, CancelReply(p, b)
      PROVE  NoNewStranded
  <2>1. \A a \in Adapter : mPairing'[a] => mPairing[a]
    BY <1>2 DEF CancelReply, TypeOK
  <2> QED
    BY <1>2, <2>1, KeepsInfosNotStranded DEF CancelReply
<1>3. ASSUME NEW p \in Path, ReplyCrash(p)
      PROVE  NoNewStranded
  BY <1>3 DEF ReplyCrash, NoNewStranded, Stranded
<1> QED
  BY <1>1, <1>2, <1>3 DEF ReplyStep

\* initiatePairing leaves an info where it sets the flag.
LEMMA InitiateNotStranded ==
  ASSUME TypeOK, NEW p \in Path, NEW info \in PairingInfo, InitiatePairing(p, info)
  PROVE  NoNewStranded
<1>1. mDevicePairings' = [mDevicePairings EXCEPT ![p] = info]
  BY DEF InitiatePairing
<1>2. mDevicePairings'[p] # NoInfo
  BY <1>1, NoInfoAssumption DEF TypeOK, NoInfoAssumption
<1>3. \A a \in Adapter, x \in Address :
         mDevicePairings'[<<a, x>>] = NoInfo => mDevicePairings[<<a, x>>] = NoInfo
  BY <1>1, <1>2 DEF TypeOK, Path
<1>4. \A a \in Adapter \ {p[1]} : mPairing'[a] = mPairing[a]
  BY DEF InitiatePairing, TypeOK
<1>5. p[1] \in Adapter /\ p[2] \in Address /\ p = <<p[1], p[2]>>
  BY DEF Path
<1> QED
  BY <1>2, <1>3, <1>4, <1>5, KeepsInfosNotStranded

\* Methods of the agent strand no adapter.
LEMMA AgentNotStranded ==
  ASSUME TypeOK, AgentStep
  PROVE  NoNewStranded
<1>1. ASSUME NEW p \in Path, RefuseRequest(p) \/ HandleCancel(p)
      PROVE  NoNewStranded
  BY <1>1 DEF RefuseRequest, HandleCancel, NoNewStranded, Stranded
<1>2. ASSUME NEW p \in Path, HandleRequestConfirmation(p)
      PROVE  NoNewStranded
  <2>1. [StartedInfo(p, TRUE) EXCEPT !.requestConfirmation = "open"] \in PairingInfo
    BY StartedInfoType DEF PairingInfo, Invocation
  <2> QED
    BY <1>2, <2>1, InitiateNotStranded DEF HandleRequestConfirmation
<1>3. ASSUME NEW p \in Path, HandleRequestSecret(p)
      PROVE  NoNewStranded
  <2>1. [StartedInfo(p, TRUE) EXCEPT !.requestPairingSecret = "open"] \in PairingInfo
    BY StartedInfoType DEF PairingInfo, Invocation
  <2> QED
    BY <1>3, <2>1, InitiateNotStranded DEF HandleRequestSecret
<1>4. ASSUME NEW p \in Path, HandleDisplay(p)
      PROVE  NoNewStranded
  BY <1>4, StartedInfoType, InitiateNotStranded DEF HandleDisplay
<1> QED
  BY <1>1, <1>2, <1>3, <1>4 DEF AgentStep

\* With an agent, the busy flag of an adapter never outlives the last pairing
\* info of that adapter.
THEOREM FlagNotStranded == Spec => StrandedOnlyWithoutAgent
<1>1. TypeOK /\ [Next]_vars =>
        [\A a \in Adapter : Stranded(a)' => Stranded(a) \/ ~agent']_vars
  <2> SUFFICES ASSUME TypeOK, Next
               PROVE  NoNewStranded
    BY DEF NoNewStranded
  <2>1. CASE ObjectStep
    BY <2>1 DEF ObjectStep, CreateAgentManager, RemoveAgentManager, AddDevice,
                RemoveDevice, NoNewStranded, Stranded
  <2> QED
    BY <2>1, ClientNotStranded, ReplyNotStranded, AgentNotStranded DEF Next
<1> QED
  BY <1>1, TypeCorrect, PTL DEF Spec, StrandedOnlyWithoutAgent
=============================================================================
