--------------------------- MODULE ProfilesProofs ---------------------------
(***************************************************************************)
(* What is proved of single profiles, for the profiles side by side: a     *)
(* step of another profile changes none of the variables of one.  Here are *)
(* the inductive invariants of mesh configuration, advertising,            *)
(* provisioning, the GATT server, the serial port channels, the remote     *)
(* players and the media connections; those of the profiles over OBEX are  *)
(* in TransfersProofs.                                                     *)
(***************************************************************************)
EXTENDS Profiles, FiniteSetTheorems, SequenceTheorems, WellFoundedInduction, TLAPS

(***************************************************************************)
(* Mesh: no timer outlives its request, and no request is answered twice,  *)
(* however the steps of the main loop and of the key refresh thread        *)
(* alternate.                                                              *)
(***************************************************************************)

(***************************************************************************)
(* Sequences.                                                              *)
(***************************************************************************)
LEMMA MinOfNat ==
    ASSUME NEW I \in SUBSET Nat, I # {}
    PROVE  M!Min(I) \in I /\ \A y \in I : M!Min(I) <= y
  <1>1. PICK x \in I : \A y \in I : ~(<<y, x>> \in OpToRel(<, Nat))
    BY NatLessThanWellFounded, WFMin, Zenon
  <1>2. \A y \in I : ~(y < x)
    BY <1>1, Zenon DEF OpToRel
  <1>3. \A y \in I : x <= y
    BY <1>2
  <1> QED
    BY <1>3 DEF M!Min

\* What removing one element of a sequence leaves.
LEMMA RemoveAtElements ==
    ASSUME NEW T, NEW q \in Seq(T), NEW i \in 1..Len(q)
    PROVE  /\ M!RemoveAt(q, i) \in Seq(T)
           /\ Len(M!RemoveAt(q, i)) = Len(q) - 1
           /\ \A j \in 1..(Len(q) - 1) : M!RemoveAt(q, i)[j] = IF j < i THEN q[j] ELSE q[j + 1]
  <1> DEFINE a == SubSeq(q, 1, i - 1)
             b == SubSeq(q, i + 1, Len(q))
  <1>1. /\ a \in Seq(T) /\ Len(a) = i - 1 /\ \A j \in 1..(i - 1) : a[j] = q[j]
        /\ b \in Seq(T) /\ Len(b) = Len(q) - i /\ \A j \in 1..(Len(q) - i) : b[j] = q[j + i]
    OBVIOUS
  <1> HIDE DEF a, b
  <1>2. a \o b \in Seq(T) /\ Len(a \o b) = Len(q) - 1
    <2>1. a \o b \in Seq(T) /\ Len(a \o b) = Len(a) + Len(b)
      BY <1>1, ConcatProperties
    <2> QED
      BY <1>1, <2>1
  <1>3. \A j \in 1..(Len(q) - 1) : (a \o b)[j] = IF j < i THEN q[j] ELSE q[j + 1]
    <2> SUFFICES ASSUME NEW j \in 1..(Len(q) - 1)
                 PROVE  (a \o b)[j] = IF j < i THEN q[j] ELSE q[j + 1]
      OBVIOUS
    <2>1. CASE j < i
      BY <1>1, <2>1, ConcatProperties
    <2>2. CASE j >= i
      <3>1. PICK k \in 1..(Len(q) - i) : k = j - (i - 1)
        BY <2>2
      <3>2. (a \o b)[j] = b[k]
        BY <1>1, <2>2, <3>1, ConcatProperties
      <3>3. b[k] = q[k + i] /\ k + i = j + 1
        BY <1>1, <3>1
      <3> QED
        BY <2>2, <3>2, <3>3
    <2>3. j < i \/ j >= i
      OBVIOUS
    <2> QED
      BY <2>1, <2>2, <2>3, Zenon
  <1> QED
    BY <1>2, <1>3 DEF M!RemoveAt, a, b

(***************************************************************************)
(* The list of requests.                                                   *)
(***************************************************************************)
List == pendingRequests

\* Every request is in the list once, and those in the list have objects and timers.
Listed ==
    /\ List \in Seq(M!Slots)
    /\ \A i, j \in 1..Len(List) : List[i] = List[j] => i = j
    /\ request \in [M!Slots -> M!Request \union {NoRequest}]
    /\ \A s \in M!Slots : request[s] # NoRequest <=> s \in M!ToSet(List)
    /\ timers = M!ToSet(List)

\* Removing the request at i takes it out of the list and leaves the others in order.
Removed(i) ==
    /\ pendingRequests' = M!RemoveAt(List, i)
    /\ request' = [request EXCEPT ![List[i]] = NoRequest]
    /\ timers' = timers \ {List[i]}

LEMMA SetOfSequence ==
    ASSUME NEW T, NEW q \in Seq(T)
    PROVE  \A x : x \in M!ToSet(q) <=> \E i \in 1..Len(q) : q[i] = x
  BY DEF M!ToSet

LEMMA RemovedListed ==
    ASSUME Listed, NEW i \in 1..Len(List), Removed(i)
    PROVE  /\ Listed'
           /\ M!ToSet(pendingRequests') = M!ToSet(List) \ {List[i]}
  <1> DEFINE q == M!RemoveAt(List, i)
  <1>1. /\ q \in Seq(M!Slots) /\ Len(q) = Len(List) - 1
        /\ \A j \in 1..(Len(List) - 1) : q[j] = IF j < i THEN List[j] ELSE List[j + 1]
    BY RemoveAtElements DEF Listed
  <1>2. pendingRequests' = q
    BY DEF Removed
  <1> HIDE DEF q
  <1>3. List[i] \in M!Slots /\ Len(List) \in Nat
    BY DEF Listed
  <1>4. \A j, k \in 1..Len(q) : q[j] = q[k] => j = k
    BY <1>1, <1>3 DEF Listed
  <1>5. \A x : x \in M!ToSet(q) <=> x \in M!ToSet(List) /\ x # List[i]
    <2>1. ASSUME NEW x, x \in M!ToSet(q)
          PROVE  x \in M!ToSet(List) /\ x # List[i]
      <3>1. PICK j \in 1..Len(q) : q[j] = x
        BY <1>1, <2>1, SetOfSequence
      <3>2. PICK k \in 1..Len(List) : k # i /\ x = List[k]
        <4>1. CASE j < i
          BY <1>1, <1>3, <3>1, <4>1
        <4>2. CASE j >= i
          BY <1>1, <1>3, <3>1, <4>2
        <4>3. j < i \/ j >= i
          BY <1>1, <1>3
        <4> QED
          BY <4>1, <4>2, <4>3, Zenon
      <3> QED
        BY <3>2, SetOfSequence DEF Listed
    <2>2. ASSUME NEW x, x \in M!ToSet(List), x # List[i]
          PROVE  x \in M!ToSet(q)
      <3>1. PICK k \in 1..Len(List) : List[k] = x
        BY <2>2, SetOfSequence DEF Listed
      <3>2. \E j \in 1..Len(q) : q[j] = x
        <4>1. CASE k < i
          BY <1>1, <1>3, <3>1, <4>1
        <4>2. CASE k > i
          <5>1. PICK j \in 1..(Len(List) - 1) : j = k - 1
            BY <1>3, <4>2
          <5>2. q[j] = List[j + 1] /\ j + 1 = k /\ j \in 1..Len(q)
            BY <1>1, <1>3, <4>2, <5>1
          <5> QED
            BY <3>1, <5>2
        <4> QED
          BY <1>3, <2>2, <3>1, <4>1, <4>2
      <3> QED
        BY <1>1, <3>2, SetOfSequence
    <2> QED
      BY <2>1, <2>2
  <1>6. M!ToSet(q) = M!ToSet(List) \ {List[i]}
    BY <1>5
  <1>7. request' \in [M!Slots -> M!Request \union {NoRequest}]
        /\ \A s \in M!Slots : request'[s] = IF s = List[i] THEN NoRequest ELSE request[s]
    BY <1>3 DEF Removed, Listed
  <1>8. \A s \in M!Slots : request'[s] # NoRequest <=> s \in M!ToSet(q)
    BY <1>5, <1>7 DEF Listed
  <1>9. timers' = M!ToSet(q)
    BY <1>6 DEF Removed, Listed
  <1> QED
    BY <1>1, <1>2, <1>4, <1>6, <1>7, <1>8, <1>9 DEF Listed, List

\* Storing a request with a new object.
LEMMA AddedListed ==
    ASSUME Listed, NEW s \in M!Slots, NEW cmd \in M!Commands, NEW n \in Nodes \union {Local},
           NEW by \in {"client", "refresh"}, NoRequest \notin M!Request,
           M!AddPendingRequest(s, cmd, n, by)
    PROVE  /\ Listed'
           /\ s \notin M!ToSet(List) /\ M!ToSet(pendingRequests') = M!ToSet(List) \union {s}
  <1> DEFINE q == Append(List, s)
  <1>1. /\ request[s] = NoRequest /\ pendingRequests' = q /\ timers' = timers \union {s}
        /\ request' = [request EXCEPT ![s] = [cmd |-> cmd, node |-> n, by |-> by]]
    BY DEF M!AddPendingRequest, List
  <1>2. /\ q \in Seq(M!Slots) /\ Len(q) = Len(List) + 1 /\ Len(List) \in Nat /\ q[Len(List) + 1] = s
        /\ \A j \in 1..Len(List) : q[j] = List[j]
    BY DEF Listed
  <1> HIDE DEF q
  <1>3. s \notin M!ToSet(List)
    BY <1>1 DEF Listed
  <1>4. \A x : x \in M!ToSet(q) <=> x \in M!ToSet(List) \/ x = s
    <2>1. \A x : x \in M!ToSet(q) => x \in M!ToSet(List) \/ x = s
      <3> SUFFICES ASSUME NEW x, x \in M!ToSet(q)
                   PROVE  x \in M!ToSet(List) \/ x = s
        OBVIOUS
      <3>1. PICK j \in 1..Len(q) : q[j] = x
        BY <1>2, SetOfSequence
      <3>2. CASE j = Len(List) + 1
        BY <1>2, <3>1, <3>2
      <3>3. CASE j \in 1..Len(List)
        BY <1>2, <3>1, <3>3, SetOfSequence DEF Listed
      <3> QED
        BY <1>2, <3>2, <3>3
    <2>2. \A x : x \in M!ToSet(List) => x \in M!ToSet(q)
      <3> SUFFICES ASSUME NEW x, x \in M!ToSet(List)
                   PROVE  x \in M!ToSet(q)
        OBVIOUS
      <3>1. PICK j \in 1..Len(List) : List[j] = x
        BY SetOfSequence DEF Listed
      <3> QED
        BY <1>2, <3>1, SetOfSequence
    <2>3. s \in M!ToSet(q)
      BY <1>2, SetOfSequence
    <2> QED
      BY <2>1, <2>2, <2>3
  <1>5. M!ToSet(q) = M!ToSet(List) \union {s}
    BY <1>4
  <1>6. \A j, k \in 1..Len(q) : q[j] = q[k] => j = k
    <2>1. \A j \in 1..Len(List) : List[j] # s
      BY <1>3, SetOfSequence DEF Listed
    <2> QED
      BY <1>2, <2>1 DEF Listed
  <1>7. [cmd |-> cmd, node |-> n, by |-> by] \in M!Request
    BY DEF M!Request
  <1>8. /\ request' \in [M!Slots -> M!Request \union {NoRequest}]
        /\ \A t \in M!Slots : request'[t] = IF t = s THEN [cmd |-> cmd, node |-> n, by |-> by]
                                          ELSE request[t]
    BY <1>1, <1>7 DEF Listed
  <1>9. \A t \in M!Slots : request'[t] # NoRequest <=> t \in M!ToSet(q)
    BY <1>4, <1>7, <1>8 DEF Listed
  <1>10. timers' = M!ToSet(q)
    BY <1>1, <1>5 DEF Listed
  <1> QED
    BY <1>1, <1>2, <1>3, <1>5, <1>6, <1>8, <1>9, <1>10 DEF Listed, List

\* The request an answer is for is the first of its node that it can end.
LEMMA RequestForFirst ==
    ASSUME List \in Seq(M!Slots), NEW rsp, NEW n, M!RequestFor(rsp, n) # 0
    PROVE  /\ M!RequestFor(rsp, n) \in 1..Len(List)
           /\ M!Matches(List[M!RequestFor(rsp, n)], rsp, n)
           /\ \A j \in 1..Len(List) : j < M!RequestFor(rsp, n) => ~M!Matches(List[j], rsp, n)
  <1> DEFINE I == {i \in 1..Len(List) : M!Matches(List[i], rsp, n)}
  <1>1. M!RequestFor(rsp, n) = IF I # {} THEN M!Min(I) ELSE 0
    BY DEF M!RequestFor, M!SelectInSeq, List
  <1>2. I # {} /\ M!RequestFor(rsp, n) = M!Min(I)
    BY <1>1
  <1>3. I \in SUBSET Nat
    OBVIOUS
  <1>4. M!Min(I) \in I /\ \A y \in I : M!Min(I) <= y
    BY <1>2, <1>3, MinOfNat
  <1>5. \A i \in I : i \in 1..Len(List) /\ M!Matches(List[i], rsp, n)
    OBVIOUS
  <1>6. \A j \in 1..Len(List) : M!Matches(List[j], rsp, n) => j \in I
    OBVIOUS
  <1>7. M!RequestFor(rsp, n) \in I /\ M!RequestFor(rsp, n) \in Nat
        /\ \A y \in I : M!RequestFor(rsp, n) <= y
    BY <1>2, <1>3, <1>4
  <1> HIDE DEF I
  <1>8. \A j \in 1..Len(List) : j < M!RequestFor(rsp, n) => j \notin I
    BY <1>7
  <1> HIDE DEF I
  <1> QED
    BY <1>5, <1>6, <1>7, <1>8, Zenon

LEMMA RequestForNone ==
    ASSUME List \in Seq(M!Slots), NEW rsp, NEW n, M!RequestFor(rsp, n) = 0
    PROVE  \A j \in 1..Len(List) : ~M!Matches(List[j], rsp, n)
  <1> DEFINE I == {i \in 1..Len(List) : M!Matches(List[i], rsp, n)}
  <1>1. M!RequestFor(rsp, n) = IF I # {} THEN M!Min(I) ELSE 0
    BY DEF M!RequestFor, M!SelectInSeq, List
  <1>2. I # {} => M!Min(I) \in I
    <2>1. I \in SUBSET Nat
      OBVIOUS
    <2> HIDE DEF I
    <2> QED
      BY <2>1, MinOfNat
  <1>3. 0 \notin I
    OBVIOUS
  <1>4. I = {}
    <2> HIDE DEF I
    <2> QED
      BY <1>1, <1>2, <1>3
  <1> QED
    BY <1>4

LEMMA IndexOf ==
    ASSUME NEW T, NEW q \in Seq(T), NEW e, e \in M!ToSet(q)
    PROVE  /\ M!SelectInSeq(q, LAMBDA v : v = e) \in 1..Len(q)
           /\ q[M!SelectInSeq(q, LAMBDA v : v = e)] = e
  <1> DEFINE I == {i \in 1..Len(q) : q[i] = e}
  <1>1. M!SelectInSeq(q, LAMBDA v : v = e) = IF I # {} THEN M!Min(I) ELSE 0
    BY Zenon DEF M!SelectInSeq
  <1>2. I # {} /\ I \in SUBSET Nat
    BY SetOfSequence
  <1>3. M!Min(I) \in I
    BY <1>2, MinOfNat
  <1>4. M!SelectInSeq(q, LAMBDA v : v = e) = M!Min(I)
    BY <1>1, <1>2, Zenon
  <1>5. \A i \in I : i \in 1..Len(q) /\ q[i] = e
    OBVIOUS
  <1> HIDE DEF I
  <1> QED
    BY <1>3, <1>4, <1>5, Zenon

LEMMA DeletedIsRemoved ==
    ASSUME Listed, NEW rsp, NEW n, M!DeletePendingRequest(rsp, n)
    PROVE  \/ M!RequestFor(rsp, n) = 0 /\ UNCHANGED M!listVars
           \/ M!RequestFor(rsp, n) # 0 /\ Removed(M!RequestFor(rsp, n))
  BY DEF M!DeletePendingRequest, Removed, List

\* A request is the first of those that an answer of n could end.
First(s, rsp, n) ==
    \A i \in 1..Len(List) : List[i] = s =>
        /\ M!Matches(s, rsp, n)
        /\ \A j \in 1..Len(List) : j < i => ~M!Matches(List[j], rsp, n)

LEMMA AddedKeepsFirst ==
    ASSUME Listed, NEW s \in M!Slots, NEW cmd \in M!Commands, NEW n \in Nodes \union {Local},
           NEW by \in {"client", "refresh"}, M!AddPendingRequest(s, cmd, n, by),
           NEW t \in M!Slots, t # s, NEW rsp, NEW m, First(t, rsp, m)
    PROVE  First(t, rsp, m)'
  <1>1. /\ request[s] = NoRequest /\ pendingRequests' = Append(List, s)
        /\ request' = [request EXCEPT ![s] = [cmd |-> cmd, node |-> n, by |-> by]]
    BY DEF M!AddPendingRequest, List
  <1>2. /\ Len(List') = Len(List) + 1 /\ Len(List) \in Nat /\ List'[Len(List) + 1] = s
        /\ \A j \in 1..Len(List) : List'[j] = List[j]
    BY <1>1 DEF Listed, List
  <1>3. \A j \in 1..Len(List) : List[j] \in M!Slots /\ List[j] # s
    BY <1>1, SetOfSequence DEF Listed
  <1>4. \A u \in M!Slots : u # s => M!Matches(u, rsp, m)' = M!Matches(u, rsp, m)
    BY <1>1 DEF M!Matches, Listed
  <1> SUFFICES ASSUME NEW i \in 1..Len(List'), List'[i] = t
               PROVE  /\ M!Matches(t, rsp, m)'
                      /\ \A j \in 1..Len(List') : j < i => ~M!Matches(List[j], rsp, m)'
    BY DEF First
  <1>5. i \in 1..Len(List) /\ List[i] = t
    BY <1>2
  <1>6. M!Matches(t, rsp, m) /\ \A j \in 1..Len(List) : j < i => ~M!Matches(List[j], rsp, m)
    BY <1>5 DEF First
  <1>7. M!Matches(t, rsp, m)'
    BY <1>4, <1>6
  <1>8. \A j \in 1..Len(List') : j < i => ~M!Matches(List[j], rsp, m)'
    <2> SUFFICES ASSUME NEW j \in 1..Len(List'), j < i
                 PROVE  ~M!Matches(List[j], rsp, m)'
      OBVIOUS
    <2>1. j \in 1..Len(List) /\ List'[j] = List[j]
      BY <1>2, <1>5
    <2>2. List[j] \in M!Slots /\ List[j] # s /\ ~M!Matches(List[j], rsp, m)
      BY <1>3, <1>6, <2>1
    <2>3. request'[List[j]] = request[List[j]]
      BY <1>1, <2>2 DEF Listed
    <2> QED
      BY <2>1, <2>2, <2>3 DEF M!Matches
  <1> QED
    BY <1>7, <1>8

LEMMA RemovedKeepsFirst ==
    ASSUME Listed, NEW i \in 1..Len(List), Removed(i),
           NEW t \in M!Slots, NEW rsp, NEW m, First(t, rsp, m)
    PROVE  First(t, rsp, m)'
  <1>1. /\ Len(List') = Len(List) - 1 /\ Len(List) \in Nat
        /\ \A j \in 1..(Len(List) - 1) : List'[j] = IF j < i THEN List[j] ELSE List[j + 1]
    <2>1. List' = M!RemoveAt(List, i) /\ List \in Seq(M!Slots) /\ Len(List) \in Nat
      BY DEF Listed, Removed, List
    <2> QED
      BY <2>1, RemoveAtElements
  <1>2. \A j \in 1..Len(List') : \E k \in 1..Len(List) :
           k # i /\ List'[j] = List[k] /\ k = IF j < i THEN j ELSE j + 1
    <2> SUFFICES ASSUME NEW j \in 1..Len(List')
                 PROVE  \E k \in 1..Len(List) : k # i /\ List'[j] = List[k] /\ k = IF j < i THEN j ELSE j + 1
      OBVIOUS
    <2>1. CASE j < i
      BY <1>1, <2>1
    <2>2. CASE j >= i
      <3>1. j + 1 \in 1..Len(List) /\ j + 1 # i /\ List'[j] = List[j + 1]
        BY <1>1, <2>2
      <3> QED
        BY <2>2, <3>1
    <2> QED
      BY <1>1, <2>1, <2>2
  <1>4. \A u \in M!Slots : u # List[i] => request'[u] = request[u]
    BY DEF Removed, Listed
  <1> SUFFICES ASSUME NEW j \in 1..Len(List'), List'[j] = t
               PROVE  /\ M!Matches(t, rsp, m)'
                      /\ \A l \in 1..Len(List') : l < j => ~M!Matches(List[l], rsp, m)'
    BY DEF First
  <1>5. PICK k \in 1..Len(List) : k # i /\ List[k] = t /\ k = IF j < i THEN j ELSE j + 1
    BY <1>2
  <1>6. t # List[i] /\ \A l \in 1..Len(List) : l # i => List[l] # List[i] /\ List[l] \in M!Slots
    BY <1>5 DEF Listed
  <1>7. M!Matches(t, rsp, m) /\ \A l \in 1..Len(List) : l < k => ~M!Matches(List[l], rsp, m)
    BY <1>5 DEF First
  <1>8. M!Matches(t, rsp, m)'
    BY <1>4, <1>6, <1>7 DEF M!Matches
  <1>9. \A l \in 1..Len(List') : l < j => ~M!Matches(List[l], rsp, m)'
    <2> SUFFICES ASSUME NEW l \in 1..Len(List'), l < j
                 PROVE  ~M!Matches(List[l], rsp, m)'
      OBVIOUS
    <2>1. PICK k0 \in 1..Len(List) : k0 # i /\ List'[l] = List[k0] /\ k0 = IF l < i THEN l ELSE l + 1
      BY <1>2
    <2>2. k0 < k
      BY <1>1, <1>5, <2>1
    <2>3. ~M!Matches(List[k0], rsp, m) /\ request'[List[k0]] = request[List[k0]]
      BY <1>4, <1>6, <1>7, <2>1, <2>2
    <2> QED
      BY <2>1, <2>3 DEF M!Matches
  <1> QED
    BY <1>8, <1>9

(***************************************************************************)
(* The inductive invariant.                                                *)
(***************************************************************************)
\* While the main loop answers, the request it found is still the first the answer
\* can end, if the thread has not deleted it: deletePendingRequest will not take
\* another one and leave this to its timer.
Answering ==
    /\ main.at \in {"answering", "expiring"} => main.req \in M!Slots
    /\ main.at = "answering" => told[main.req] = 0 /\ First(main.req, main.rsp, main.node)

\* A request in the list has no result yet, but for the one that is expiring.
Unanswered ==
    /\ told \in [M!Slots -> 0..2]
    /\ M!AnsweredOnce
    /\ \A s \in M!Slots : s \in M!ToSet(List) => told[s] = 0 \/ (main.at = "expiring" /\ main.req = s)

ListInv == Listed /\ Answering /\ Unanswered

LEMMA ListInit == M!Init => ListInv
  <1> SUFFICES ASSUME M!Init PROVE ListInv
    OBVIOUS
  <1>1. List = <<>> /\ Len(List) = 0 /\ M!ToSet(List) = {}
    BY DEF M!Init, List, M!ToSet
  <1>2. Listed
    BY <1>1 DEF M!Init, Listed
  <1>3. Answering /\ Unanswered
    BY <1>1 DEF M!Init, Answering, Unanswered, M!AnsweredOnce, M!Idle
  <1> QED
    BY <1>2, <1>3 DEF ListInv

\* A step that stores a request, whoever makes it.
LEMMA StoreInv ==
    ASSUME M!MeshAssumption, ListInv, NEW s \in M!Slots, NEW cmd \in M!Commands,
           NEW n \in Nodes \union {Local}, NEW by \in {"client", "refresh"},
           M!AddPendingRequest(s, cmd, n, by),
           main' = main \/ (main.at = "idle" /\ main'.at = "adding")
    PROVE  ListInv'
  <1>1. Listed' /\ s \notin M!ToSet(List) /\ M!ToSet(List') = M!ToSet(List) \union {s}
    BY AddedListed DEF ListInv, M!MeshAssumption, List
  <1>2. s # main.req /\ told' = [told EXCEPT ![s] = 0]
    BY DEF M!AddPendingRequest
  <1>3. told' \in [M!Slots -> 0..2] /\ told'[s] = 0 /\ \A t \in M!Slots : t # s => told'[t] = told[t]
    BY <1>2 DEF ListInv, Unanswered
  <1>4. M!AnsweredOnce'
    BY <1>3 DEF ListInv, Unanswered, M!AnsweredOnce
  <1>5. \A t \in M!Slots : t \in M!ToSet(List') => told'[t] = 0 \/ (main'.at = "expiring" /\ main'.req = t)
    <2> SUFFICES ASSUME NEW t \in M!Slots, t \in M!ToSet(List'), t # s
                 PROVE  told'[t] = 0 \/ (main'.at = "expiring" /\ main'.req = t)
      BY <1>3
    <2>1. told'[t] = told[t] /\ t \in M!ToSet(List)
      BY <1>1, <1>3
    <2>2. told[t] = 0 \/ (main.at = "expiring" /\ main.req = t)
      BY <2>1 DEF ListInv, Unanswered
    <2> QED
      BY <2>1, <2>2
  <1>6. Answering'
    <2>1. CASE main.at = "idle" /\ main'.at = "adding"
      BY <2>1 DEF Answering
    <2>2. CASE main' = main
      <3>1. main.at \in {"answering", "expiring"} => main.req \in M!Slots
        BY DEF ListInv, Answering
      <3>2. CASE main.at = "answering"
        <4>1. main.req \in M!Slots /\ told[main.req] = 0 /\ First(main.req, main.rsp, main.node)
          BY <3>2 DEF ListInv, Answering
        <4>2. First(main.req, main.rsp, main.node)'
          <5>1. PICK t, rsp, m : t = main.req /\ rsp = main.rsp /\ m = main.node
            OBVIOUS
          <5>2. t \in M!Slots /\ t # s /\ First(t, rsp, m) /\ Listed
            BY <1>2, <4>1, <5>1 DEF ListInv
          <5>3. First(t, rsp, m)'
            BY <5>2, AddedKeepsFirst
          <5>4. main'.req = t /\ main'.rsp = rsp /\ main'.node = m
            BY <2>2, <5>1
          <5> QED
            BY <5>3, <5>4 DEF First
        <4> QED
          BY <1>2, <1>3, <2>2, <3>2, <4>1, <4>2 DEF Answering
      <3>3. CASE main.at # "answering"
        BY <2>2, <3>1, <3>3 DEF Answering
      <3> QED
        BY <3>2, <3>3
    <2> QED
      BY <2>1, <2>2
  <1> QED
    BY <1>1, <1>3, <1>4, <1>5, <1>6 DEF ListInv, Unanswered

\* A step that takes a request off the list when its call has failed.
LEMMA DropInv ==
    ASSUME ListInv, NEW i \in 1..Len(List), Removed(i), told' = told,
           main' = main \/ (main.at = "adding" /\ main'.at = "idle")
    PROVE  ListInv'
  <1>1. Listed' /\ M!ToSet(List') = M!ToSet(List) \ {List[i]}
    BY RemovedListed DEF ListInv, List
  <1>2. Unanswered'
    BY <1>1 DEF ListInv, Unanswered, M!AnsweredOnce
  <1>3. Answering'
    <2>1. CASE main'.at = "idle"
      BY <2>1 DEF Answering
    <2>2. CASE main' = main /\ main.at # "answering"
      BY <2>2 DEF ListInv, Answering
    <2>3. CASE main' = main /\ main.at = "answering"
      <3>1. main.req \in M!Slots /\ told[main.req] = 0 /\ First(main.req, main.rsp, main.node)
        BY <2>3 DEF ListInv, Answering
      <3>2. PICK t, rsp, m : t = main.req /\ rsp = main.rsp /\ m = main.node
        OBVIOUS
      <3>3. First(t, rsp, m)'
        BY <3>1, <3>2, RemovedKeepsFirst DEF ListInv
      <3>4. First(main.req, main.rsp, main.node)'
        BY <2>3, <3>2, <3>3 DEF First
      <3> QED
        BY <2>3, <3>1, <3>4 DEF Answering
    <2> QED
      BY <2>1, <2>2, <2>3
  <1> QED
    BY <1>1, <1>2, <1>3 DEF ListInv

LEMMA KeepInv ==
    ASSUME ListInv, UNCHANGED <<pendingRequests, request, timers, told>>,
           main' = main \/ (main.at = "adding" /\ main'.at = "idle")
    PROVE  ListInv'
  <1>1. Listed'
    BY DEF ListInv, Listed, List
  <1>2. Unanswered'
    BY DEF ListInv, Unanswered, M!AnsweredOnce, List
  <1>3. CASE main' = main
    BY <1>1, <1>2, <1>3 DEF ListInv, Answering, First, M!Matches, List
  <1>4. CASE main'.at = "idle"
    BY <1>1, <1>2, <1>4 DEF ListInv, Answering
  <1> QED
    BY <1>3, <1>4

\* A failed call of the thread, or of the main loop that waited for it.
LEMMA FailInv ==
    ASSUME ListInv, NEW rsp, NEW n, UNCHANGED M!listVars \/ M!DeletePendingRequest(rsp, n),
           told' = told, main' = main \/ (main.at = "adding" /\ main'.at = "idle")
    PROVE  ListInv'
  <1>1. CASE UNCHANGED M!listVars
    BY <1>1, KeepInv DEF M!listVars
  <1>2. CASE M!RequestFor(rsp, n) # 0 /\ Removed(M!RequestFor(rsp, n))
    <2>1. M!RequestFor(rsp, n) \in 1..Len(List)
      BY <1>2, RequestForFirst DEF ListInv, Listed
    <2> QED
      BY <1>2, <2>1, DropInv
  <1> QED
    BY <1>1, <1>2, DeletedIsRemoved DEF ListInv

LEMMA RecvInv ==
    ASSUME ListInv, NEW rsp, NEW n, M!RecvData(rsp, n)
    PROVE  ListInv'
  <1> DEFINE i == M!RequestFor(rsp, n)
  <1>1. /\ main = M!Idle /\ i # 0 /\ told' = told /\ UNCHANGED M!listVars
        /\ main' = [at |-> "answering", req |-> List[i], rsp |-> rsp, node |-> n]
    BY DEF M!RecvData, List
  <1>2. /\ i \in 1..Len(List) /\ M!Matches(List[i], rsp, n)
        /\ \A j \in 1..Len(List) : j < i => ~M!Matches(List[j], rsp, n)
    BY <1>1, RequestForFirst DEF ListInv, Listed
  <1> HIDE DEF i
  <1>3. Listed'
    BY <1>1 DEF ListInv, Listed, List, M!listVars
  <1>4. List[i] \in M!Slots /\ List[i] \in M!ToSet(List) /\ \A j \in 1..Len(List) : List[j] = List[i] => j = i
    BY <1>2, SetOfSequence DEF ListInv, Listed
  <1>5. \A s \in M!Slots : s \in M!ToSet(List) => told[s] = 0
    BY <1>1 DEF ListInv, Unanswered, M!Idle
  <1>6. Unanswered'
    BY <1>1, <1>5 DEF ListInv, Unanswered, M!AnsweredOnce, M!listVars, List
  <1>7. First(main.req, main.rsp, main.node)'
    BY <1>1, <1>2, <1>4 DEF First, M!Matches, M!listVars, List
  <1>8. Answering'
    BY <1>1, <1>4, <1>5, <1>7 DEF Answering
  <1> QED
    BY <1>3, <1>6, <1>8 DEF ListInv

\* The request that was found is the one deleted, or it is gone already: it is not
\* left to its timer.
LEMMA FinishRecvInv ==
    ASSUME ListInv, M!FinishRecvData
    PROVE  ListInv'
  <1> DEFINE i == M!RequestFor(main.rsp, main.node)
  <1>1. /\ main.at = "answering" /\ M!DeletePendingRequest(main.rsp, main.node) /\ main' = M!Idle
        /\ told' = told \/ told' = [told EXCEPT ![main.req] = @ + 1]
    BY DEF M!FinishRecvData
  <1>2. main.req \in M!Slots /\ told[main.req] = 0 /\ First(main.req, main.rsp, main.node)
    BY <1>1 DEF ListInv, Answering
  <1>3. /\ told' \in [M!Slots -> 0..2] /\ told'[main.req] \in {0, 1}
        /\ \A s \in M!Slots : s # main.req => told'[s] = told[s]
    BY <1>1, <1>2 DEF ListInv, Unanswered
  <1>4. M!AnsweredOnce'
    BY <1>3 DEF ListInv, Unanswered, M!AnsweredOnce
  <1>5. Answering'
    BY <1>1 DEF Answering, M!Idle
  <1>6. /\ Listed' /\ main.req \notin M!ToSet(List') /\ M!ToSet(List') \subseteq M!ToSet(List)
    <2>1. CASE i = 0 /\ UNCHANGED M!listVars
      <3>1. Listed' /\ M!ToSet(List') = M!ToSet(List)
        BY <2>1 DEF ListInv, Listed, List, M!listVars
      <3>2. \A j \in 1..Len(List) : ~M!Matches(List[j], main.rsp, main.node)
        BY <2>1, RequestForNone DEF ListInv, Listed
      <3>3. main.req \notin M!ToSet(List)
        BY <1>2, <3>2, SetOfSequence DEF First, ListInv, Listed
      <3> QED
        BY <3>1, <3>3
    <2>2. CASE i # 0 /\ Removed(i)
      <3>1. /\ i \in 1..Len(List) /\ M!Matches(List[i], main.rsp, main.node)
            /\ \A j \in 1..Len(List) : j < i => ~M!Matches(List[j], main.rsp, main.node)
        BY <2>2, RequestForFirst DEF ListInv, Listed
      <3>2. Listed' /\ M!ToSet(List') = M!ToSet(List) \ {List[i]}
        BY <2>2, <3>1, RemovedListed DEF ListInv, List
      <3>3. main.req \in M!ToSet(List) => main.req = List[i]
        <4> SUFFICES ASSUME main.req \in M!ToSet(List)
                     PROVE  main.req = List[i]
          OBVIOUS
        <4>1. PICK k \in 1..Len(List) : List[k] = main.req
          BY SetOfSequence DEF ListInv, Listed
        <4>2. /\ M!Matches(List[k], main.rsp, main.node)
              /\ \A j \in 1..Len(List) : j < k => ~M!Matches(List[j], main.rsp, main.node)
          BY <1>2, <4>1 DEF First
        <4>3. k = i
          <5> HIDE DEF i
          <5> QED
            BY <3>1, <4>1, <4>2
        <4> QED
          BY <4>1, <4>3
      <3> QED
        BY <3>2, <3>3
    <2> QED
      BY <1>1, <2>1, <2>2, DeletedIsRemoved DEF ListInv
  <1>7. \A s \in M!Slots : s \in M!ToSet(List') => told'[s] = 0
    BY <1>1, <1>3, <1>6 DEF ListInv, Unanswered
  <1> QED
    BY <1>3, <1>4, <1>5, <1>6, <1>7 DEF ListInv, Unanswered, List

LEMMA ExpiredInv ==
    ASSUME ListInv, NEW s \in M!Slots, M!PendingRequestTimerExpired(s)
    PROVE  ListInv'
  <1>1. /\ main = M!Idle /\ s \in timers /\ UNCHANGED M!listVars
        /\ told' = [told EXCEPT ![s] = @ + 1]
        /\ main' = [M!Idle EXCEPT !.at = "expiring", !.req = s]
    BY DEF M!PendingRequestTimerExpired
  <1>2. main'.at = "expiring" /\ main'.req = s
    BY <1>1 DEF M!Idle
  <1>3. \A t \in M!Slots : t \in M!ToSet(List) => told[t] = 0
    BY <1>1 DEF ListInv, Unanswered, M!Idle
  <1>4. told[s] = 0
    BY <1>1, <1>3 DEF ListInv, Listed
  <1>5. told' \in [M!Slots -> 0..2] /\ told'[s] = 1 /\ \A t \in M!Slots : t # s => told'[t] = told[t]
    BY <1>1, <1>4 DEF ListInv, Unanswered
  <1>6. Listed' /\ List' = List
    BY <1>1 DEF ListInv, Listed, List, M!listVars
  <1>7. Unanswered'
    BY <1>2, <1>3, <1>5, <1>6 DEF ListInv, Unanswered, M!AnsweredOnce
  <1>8. Answering'
    BY <1>2 DEF Answering
  <1> QED
    BY <1>6, <1>7, <1>8 DEF ListInv

LEMMA FinishExpiredInv ==
    ASSUME ListInv, M!FinishExpired
    PROVE  ListInv'
  <1> DEFINE s == main.req
  <1>1. main.at = "expiring" /\ s \in M!Slots /\ M!EraseExpired(s) /\ main' = M!Idle /\ told' = told
    BY DEF M!FinishExpired, ListInv, Answering
  <1>2. Answering' /\ main'.at = "idle"
    BY <1>1 DEF Answering, M!Idle
  <1>3. CASE s \in M!ToSet(List)
    <2> DEFINE i == M!SelectInSeq(List, LAMBDA v : v = s)
    <2>1. i \in 1..Len(List) /\ List[i] = s
      BY <1>3, IndexOf DEF ListInv, Listed
    <2>2. pendingRequests' = M!RemoveAt(List, i)
      BY <1>1, <2>1 DEF M!EraseExpired, M!RemoveFirst, List
    <2> HIDE DEF i
    <2>3. Removed(i)
      BY <1>1, <2>1, <2>2 DEF M!EraseExpired, Removed
    <2>4. Listed' /\ M!ToSet(List') = M!ToSet(List) \ {s}
      BY <2>1, <2>3, RemovedListed DEF ListInv, List
    <2>5. Unanswered'
      BY <1>1, <1>2, <2>4 DEF ListInv, Unanswered, M!AnsweredOnce
    <2> QED
      BY <1>2, <2>4, <2>5 DEF ListInv
  <1>4. CASE s \notin M!ToSet(List)
    <2>1. ~\E i \in 1..Len(List) : List[i] = s
      BY <1>4, SetOfSequence DEF ListInv, Listed
    <2>2. List' = List
      BY <1>1, <2>1 DEF M!EraseExpired, M!RemoveFirst, List
    <2>3. timers' = timers /\ request' = request
      BY <1>1, <1>4 DEF M!EraseExpired, ListInv, Listed
    <2>4. Listed'
      BY <2>2, <2>3 DEF ListInv, Listed, List
    <2>5. Unanswered'
      BY <1>1, <1>4, <2>2 DEF ListInv, Unanswered, M!AnsweredOnce
    <2> QED
      BY <1>2, <2>4, <2>5 DEF ListInv
  <1> QED
    BY <1>3, <1>4

\* The steps that store a request: the commands are those of the table.
LEMMA CommandsOfThread == {"NETKEY_UPDATE", "APPKEY_UPDATE"} \subseteq M!Commands
  BY DEF M!Commands, M!Rsp

LEMMA ListNext == M!MeshAssumption /\ ListInv /\ [M!Next]_(M!vars) => ListInv'
  <1> SUFFICES ASSUME M!MeshAssumption, ListInv, [M!Next]_(M!vars)
               PROVE  ListInv'
    OBVIOUS
  <1>1. CASE M!HandleObjectAdded \/ M!KeyRefresh \/ M!UpdateSubnet \/ M!UpdateAppKey \/ M!SetKeyRefreshPhase
    <2>1. UNCHANGED <<pendingRequests, request, timers, told, main>>
      BY <1>1 DEF M!HandleObjectAdded, M!KeyRefresh, M!UpdateSubnet, M!UpdateAppKey, M!SetKeyRefreshPhase,
                  M!listVars
    <2> QED
      BY <2>1, KeepInv
  <1>2. ASSUME NEW cmd, NEW n \in Nodes, M!ConfigGet(cmd, n) \/ M!ConfigSet(cmd, n) \/ M!AddAppKey(cmd, n)
        PROVE  ListInv'
    <2>1. cmd \in M!Commands
      BY <1>2 DEF M!MeshAssumption, M!ConfigGet, M!ConfigSet, M!AddAppKey
    <2>2. PICK s \in M!Slots : M!AddPendingRequest(s, cmd, n, "client")
                             /\ (main' = main \/ (main.at = "idle" /\ main'.at = "adding"))
      BY <1>2 DEF M!ConfigGet, M!ConfigSet, M!SendRequest, M!AddAppKey, M!Idle
    <2> QED
      BY <2>1, <2>2, StoreInv
  <1>3. ASSUME NEW n \in Nodes \union {Local}, M!DistributeNetKey(n) \/ M!DistributeAppKey(n)
        PROVE  ListInv'
    <2>1. PICK s \in M!Slots, cmd \in {"NETKEY_UPDATE", "APPKEY_UPDATE"} :
             M!AddPendingRequest(s, cmd, n, "refresh") /\ main' = main
      BY <1>3 DEF M!DistributeNetKey, M!DistributeAppKey
    <2> QED
      BY <2>1, StoreInv, CommandsOfThread
  <1>4. CASE M!AddAppKeyReply
    <2>1. /\ UNCHANGED M!listVars \/ M!DeletePendingRequest(main.rsp, main.node)
          /\ told' = told /\ main.at = "adding" /\ main'.at = "idle"
      BY <1>4 DEF M!AddAppKeyReply, M!Idle
    <2> QED
      BY <2>1, FailInv
  <1>5. CASE M!NetKeyReply
    <2>1. /\ UNCHANGED M!listVars \/ M!DeletePendingRequest("NETKEY_STATUS", refresh.node)
          /\ told' = told /\ main' = main
      BY <1>5 DEF M!NetKeyReply
    <2> QED
      BY <2>1, FailInv
  <1>6. CASE M!AppKeyReply
    <2>1. /\ UNCHANGED M!listVars \/ M!DeletePendingRequest("APPKEY_STATUS", refresh.node)
          /\ told' = told /\ main' = main
      BY <1>6 DEF M!AppKeyReply
    <2> QED
      BY <2>1, FailInv
  <1>7. ASSUME NEW n \in Nodes \union {Local}, NEW rsp \in M!Answers, M!RecvData(rsp, n)
        PROVE  ListInv'
    BY <1>7, RecvInv
  <1>8. ASSUME NEW s \in M!Slots, M!PendingRequestTimerExpired(s)
        PROVE  ListInv'
    BY <1>8, ExpiredInv
  <1>9. CASE M!FinishRecvData \/ M!FinishExpired
    BY <1>9, FinishRecvInv, FinishExpiredInv
  <1>10. CASE UNCHANGED M!vars
    BY <1>10, KeepInv DEF M!vars
  <1> QED
    BY <1>1, <1>2, <1>3, <1>4, <1>5, <1>6, <1>7, <1>8, <1>9, <1>10
    DEF M!Next, M!Main, M!Refresh, M!GetCompositionData, M!DeleteNode

LEMMA ListAlways == Spec => []ListInv
  <1>1. Init => ListInv
    BY ListInit DEF Init
  <1>2. ListInv /\ [Next]_vars => ListInv'
    <2> SUFFICES ASSUME ListInv, [Next]_vars
                 PROVE  ListInv'
      OBVIOUS
    <2>1. M!Next \/ UNCHANGED meshVars
      BY DEF MeshNext, Next, vars
    <2>2. [M!Next]_(M!vars)
      BY <2>1 DEF meshVars, M!vars
    <2> QED
      BY <2>2, ListNext, ProfilesAssumption DEF ProfilesAssumption
  <1> QED
    BY <1>1, <1>2, PTL DEF Spec

\* Mesh, among the profiles: a request in the list has its timer, and no request that
\* the main loop or the thread of the key refresh has deleted has one.
THEOREM TimersOfRequests == Spec => []TimerPerRequest
  <1>1. ListInv => TimerPerRequest
    BY DEF ListInv, Listed, TimerPerRequest, M!TimerPerRequest, List
  <1> QED
    BY <1>1, ListAlways, PTL

\* Mesh, among the profiles: whatever the thread deletes between two steps of the main
\* loop, the client is given one result for a request at most.
THEOREM OneResult == Spec => []AnsweredOnce
  <1>1. ListInv => AnsweredOnce
    BY DEF ListInv, Unanswered, AnsweredOnce
  <1> QED
    BY <1>1, ListAlways, PTL

(***************************************************************************)
(* Types.                                                                  *)
(***************************************************************************)
MainType == [at : {"idle", "adding", "answering", "expiring"}, req : M!Slots \union {NoRequest},
             rsp : M!Answers, node : Nodes \union {Local}]

RefreshType == [at : {"idle", "subnet", "net", "netCall", "app", "appCall"},
                nodes : SUBSET Nodes, todo : SUBSET (Nodes \union {Local}),
                node : Nodes \union {Local}, keys : 0..AppKeys]

LoopsTyped == mNodeInterface \in BOOLEAN /\ main \in MainType /\ refresh \in RefreshType

LEMMA AnswerOf == (\A cmd \in M!Commands : M!Rsp[cmd] \in M!Answers) /\ M!Idle \in MainType
  <1>1. \A cmd \in M!Commands : M!Rsp[cmd] \in M!Answers
    BY DEF M!Answers
  <1>2. "RESET_STATUS" \in M!Answers
    BY <1>1 DEF M!Commands, M!Rsp
  <1> QED
    BY <1>1, <1>2 DEF M!Idle, MainType

LEMMA LoopsNext == M!MeshAssumption /\ ListInv /\ LoopsTyped /\ [M!Next]_(M!vars) => LoopsTyped'
  <1> SUFFICES ASSUME M!MeshAssumption, ListInv, LoopsTyped, [M!Next]_(M!vars)
               PROVE  LoopsTyped'
    OBVIOUS
  <1>1. M!Resting \in RefreshType
    BY DEF M!Resting, RefreshType, M!MeshAssumption
  <1>2. mNodeInterface' \in BOOLEAN
    BY DEF LoopsTyped, M!Next, M!Main, M!Refresh, M!HandleObjectAdded, M!GetCompositionData, M!DeleteNode,
           M!ConfigGet, M!ConfigSet, M!SendRequest, M!AddAppKey, M!AddAppKeyReply, M!RecvData, M!FinishRecvData,
           M!PendingRequestTimerExpired, M!FinishExpired, M!KeyRefresh, M!UpdateSubnet, M!DistributeNetKey,
           M!NetKeyReply, M!UpdateAppKey, M!DistributeAppKey, M!AppKeyReply, M!SetKeyRefreshPhase, M!vars
  <1>3. main' \in MainType
    <2>1. CASE main' = main \/ main' = M!Idle
      BY <2>1, AnswerOf DEF LoopsTyped
    <2>2. ASSUME NEW cmd, NEW n \in Nodes, M!AddAppKey(cmd, n)
          PROVE  main' \in MainType
      BY <2>2, AnswerOf DEF M!AddAppKey, MainType, M!MeshAssumption
    <2>3. ASSUME NEW n \in Nodes \union {Local}, NEW rsp \in M!Answers, M!RecvData(rsp, n)
          PROVE  main' \in MainType
      <3>1. List[M!RequestFor(rsp, n)] \in M!Slots
        BY <2>3, RequestForFirst DEF M!RecvData, ListInv, Listed
      <3> QED
        BY <2>3, <3>1 DEF M!RecvData, MainType, List
    <2>4. ASSUME NEW s \in M!Slots, M!PendingRequestTimerExpired(s)
          PROVE  main' \in MainType
      BY <2>4, AnswerOf DEF M!PendingRequestTimerExpired, MainType
    <2> QED
      BY <2>1, <2>2, <2>3, <2>4
      DEF M!Next, M!Main, M!Refresh, M!HandleObjectAdded, M!GetCompositionData, M!DeleteNode, M!ConfigGet,
          M!ConfigSet, M!SendRequest, M!AddAppKeyReply, M!FinishRecvData, M!FinishExpired, M!KeyRefresh,
          M!UpdateSubnet, M!DistributeNetKey, M!NetKeyReply, M!UpdateAppKey, M!DistributeAppKey, M!AppKeyReply,
          M!SetKeyRefreshPhase, M!vars
  <1>4. refresh' \in RefreshType
    <2>1. CASE refresh' = refresh \/ refresh' = M!Resting
      BY <1>1, <2>1 DEF LoopsTyped
    <2>2. CASE M!KeyRefresh
      BY <1>1, <2>2 DEF M!KeyRefresh, RefreshType
    <2>3. CASE M!UpdateSubnet
      <3>1. ASSUME NEW blacklisted \in SUBSET Nodes,
                   refresh' = [refresh EXCEPT !.at = "net", !.nodes = @ \ blacklisted,
                                              !.todo = refresh.nodes \ blacklisted]
            PROVE  refresh' \in RefreshType
        <4>1. refresh.nodes \ blacklisted \subseteq Nodes
          BY DEF LoopsTyped, RefreshType
        <4> QED
          BY <3>1, <4>1 DEF LoopsTyped, RefreshType
      <3> QED
        BY <1>1, <2>3, <3>1 DEF M!UpdateSubnet
    <2>4. ASSUME NEW n \in Nodes \union {Local}, M!DistributeNetKey(n) \/ M!DistributeAppKey(n)
          PROVE  refresh' \in RefreshType
      <3>1. ASSUME NEW at \in {"netCall", "appCall"},
                   refresh' = [refresh EXCEPT !.at = at, !.todo = @ \ {n}, !.node = n]
            PROVE  refresh' \in RefreshType
        BY <3>1 DEF LoopsTyped, RefreshType
      <3>2. CASE M!DistributeNetKey(n)
        BY <3>1, <3>2 DEF M!DistributeNetKey
      <3>3. CASE M!DistributeAppKey(n)
        BY <3>1, <3>3 DEF M!DistributeAppKey
      <3> QED
        BY <2>4, <3>2, <3>3
    <2>5. CASE M!NetKeyReply \/ M!AppKeyReply
      <3>1. ASSUME NEW at \in {"net", "app"}, NEW N \in SUBSET Nodes,
                   refresh' = [refresh EXCEPT !.at = at, !.nodes = N]
            PROVE  refresh' \in RefreshType
        BY <3>1 DEF LoopsTyped, RefreshType
      <3>2. ASSUME NEW at \in {"net", "app"}, refresh' = [refresh EXCEPT !.at = at]
            PROVE  refresh' \in RefreshType
        BY <3>2 DEF LoopsTyped, RefreshType
      <3>3. refresh.nodes \ {refresh.node} \in SUBSET Nodes
        BY DEF LoopsTyped, RefreshType
      <3>4. CASE M!NetKeyReply
        BY <3>1, <3>2, <3>3, <3>4 DEF M!NetKeyReply
      <3>5. CASE M!AppKeyReply
        BY <3>2, <3>5 DEF M!AppKeyReply
      <3> QED
        BY <2>5, <3>4, <3>5
    <2>6. CASE M!UpdateAppKey
      <3> DEFINE Holders == {{}} \union {{Local} \union N : N \in SUBSET refresh.nodes}
      <3>1. PICK todo \in Holders :
               refresh' = [refresh EXCEPT !.at = "app", !.todo = todo, !.keys = @ - 1]
        BY <2>6 DEF M!UpdateAppKey
      <3>2. refresh.nodes \subseteq Nodes
        BY DEF LoopsTyped, RefreshType
      <3>3. todo \subseteq Nodes \union {Local}
        <4>1. CASE todo = {}
          BY <4>1
        <4>2. ASSUME NEW N \in SUBSET refresh.nodes, todo = {Local} \union N
              PROVE  todo \subseteq Nodes \union {Local}
          BY <3>2, <4>2
        <4> QED
          BY <3>1, <4>1, <4>2
      <3> HIDE DEF Holders
      <3>4. refresh.keys - 1 \in 0..AppKeys
        BY <2>6 DEF M!UpdateAppKey, LoopsTyped, RefreshType, M!MeshAssumption
      <3> QED
        BY <3>1, <3>3, <3>4 DEF LoopsTyped, RefreshType
    <2> QED
      BY <2>1, <2>2, <2>3, <2>4, <2>5, <2>6
      DEF M!Next, M!Main, M!Refresh, M!HandleObjectAdded, M!GetCompositionData, M!DeleteNode, M!ConfigGet,
          M!ConfigSet, M!SendRequest, M!AddAppKey, M!AddAppKeyReply, M!RecvData, M!FinishRecvData,
          M!PendingRequestTimerExpired, M!FinishExpired, M!SetKeyRefreshPhase, M!vars
  <1> QED
    BY <1>2, <1>3, <1>4 DEF LoopsTyped

\* The list holds each request once and exactly the live ones, and what the two
\* processes are doing is of its type.
LEMMA MeshTypes == Spec => []M!TypeOK
  <1>1. Init => LoopsTyped
    <2>1. M!Resting \in RefreshType
      BY ProfilesAssumption
      DEF ProfilesAssumption, M!Resting, RefreshType, M!MeshAssumption
    <2> QED
      BY <2>1, AnswerOf DEF Init, M!Init, LoopsTyped
  <1>2. ListInv /\ LoopsTyped => M!TypeOK
    <2> SUFFICES ASSUME ListInv, LoopsTyped
                 PROVE  M!TypeOK
      OBVIOUS
    <2>1. M!IsInjective(pendingRequests) /\ timers \subseteq M!Slots
      <3>1. M!IsInjective(pendingRequests)
        <4>1. DOMAIN pendingRequests = 1..Len(pendingRequests)
          BY LenProperties DEF ListInv, Listed, List
        <4> QED
          BY <4>1 DEF ListInv, Listed, List, M!IsInjective
      <3>2. timers = M!ToSet(List) /\ List \in Seq(M!Slots)
        BY DEF ListInv, Listed
      <3>3. \A i \in 1..Len(List) : List[i] \in M!Slots
        BY <3>2
      <3> QED
        BY <3>1, <3>2, <3>3, SetOfSequence
    <2> QED
      BY <2>1 DEF ListInv, Listed, Unanswered, LoopsTyped, MainType, RefreshType, M!TypeOK, List
  <1>3. ListInv /\ LoopsTyped /\ [Next]_vars => LoopsTyped'
    <2> SUFFICES ASSUME ListInv, LoopsTyped, [Next]_vars
                 PROVE  LoopsTyped'
      OBVIOUS
    <2>1. M!Next \/ UNCHANGED meshVars
      BY DEF MeshNext, Next, vars
    <2>2. [M!Next]_(M!vars)
      BY <2>1 DEF meshVars, M!vars
    <2> QED
      BY <2>2, LoopsNext, ProfilesAssumption DEF ProfilesAssumption
  <1> QED
    BY <1>1, <1>2, <1>3, ListAlways, PTL DEF Spec

(***************************************************************************)
(* Advertising.  The two properties are inductive as they stand.           *)
(***************************************************************************)
LEMMA AdvertiseInit == A!Init => A!TypeOK /\ AdvertisedOwned
  <1>1. IdRange \in Nat \ {0}
    BY ProfilesAssumption DEF ProfilesAssumption, A!AdvertiseAssumption
  <1>2. 1 % IdRange \in 0..(IdRange - 1)
    BY <1>1
  <1> QED
    BY <1>2 DEF A!Init, A!TypeOK, A!Ids, AdvertisedOwned, A!AdvertisedOwned

LEMMA AdvertiseNext ==
  A!TypeOK /\ AdvertisedOwned /\ [A!Next]_(A!vars) => A!TypeOK' /\ AdvertisedOwned'
  <1> SUFFICES ASSUME A!TypeOK, AdvertisedOwned, [A!Next]_(A!vars)
               PROVE  A!TypeOK' /\ AdvertisedOwned'
    OBVIOUS
  <1> USE DEF A!TypeOK, A!Ids, AdvertisedOwned, A!AdvertisedOwned
  <1>1. CASE A!CreateAdvertisementId
    <2>1. IdRange \in Nat \ {0}
      BY ProfilesAssumption DEF ProfilesAssumption, A!AdvertiseAssumption
    <2>2. (nextAdvId + 1) % IdRange \in 0..(IdRange - 1)
      BY <2>1
    <2> QED
      BY <1>1, <2>2 DEF A!CreateAdvertisementId
  <1>2. ASSUME NEW id \in A!Ids, A!StartAdvertising(id)
        PROVE  A!TypeOK' /\ AdvertisedOwned'
    BY <1>2 DEF A!StartAdvertising
  <1>3. ASSUME NEW id \in A!Ids, A!RegisterReply(id)
        PROVE  A!TypeOK' /\ AdvertisedOwned'
    BY <1>3 DEF A!RegisterReply
  <1>4. ASSUME NEW id \in A!Ids, A!UnRegisterAdvertisement(id)
        PROVE  A!TypeOK' /\ AdvertisedOwned'
    BY <1>4 DEF A!UnRegisterAdvertisement
  <1>5. ASSUME NEW id \in A!Ids, A!HandleRelease(id)
        PROVE  A!TypeOK' /\ AdvertisedOwned'
    BY <1>5 DEF A!HandleRelease
  <1>6. CASE UNCHANGED A!vars
    BY <1>6 DEF A!vars
  <1> QED
    BY <1>1, <1>2, <1>3, <1>4, <1>5, <1>6 DEF A!Next

LEMMA AdvertiseAlways == Spec => [](A!TypeOK /\ AdvertisedOwned)
  <1>1. Init => A!TypeOK /\ AdvertisedOwned
    BY AdvertiseInit DEF Init
  <1>2. A!TypeOK /\ AdvertisedOwned /\ [Next]_vars => A!TypeOK' /\ AdvertisedOwned'
    <2> SUFFICES ASSUME A!TypeOK, AdvertisedOwned, [Next]_vars
                 PROVE  A!TypeOK' /\ AdvertisedOwned'
      OBVIOUS
    <2>1. A!Next \/ UNCHANGED advertiseVars
      BY DEF Next, vars
    <2>2. [A!Next]_(A!vars)
      BY <2>1 DEF advertiseVars, A!vars
    <2> QED
      BY <2>2, AdvertiseNext
  <1> QED
    BY <1>1, <1>2, PTL DEF Spec

\* Advertising, among the profiles: BlueZ advertises nothing the client has no id to
\* stop, in whatever order registrations end and the client unregisters, and although
\* ids are used again.
THEOREM NothingAdvertisedUnowned == Spec => []AdvertisedOwned
  BY AdvertiseAlways, PTL

(***************************************************************************)
(* Provisioning.  The nodes that were given addresses are those in         *)
(* progress or in the network.                                             *)
(***************************************************************************)
Given == V!Stage("addressed") \union V!Stage("complete")

\* A node is begun when the earlier ones have ended.
InOrder ==
    \A n, m \in V!NodeIds :
        m < n /\ node[n].stage # "none" => node[m].stage \in {"complete", "failed"}

\* A node that was given addresses has some, from those there are; one that was
\* not keeps apart from none; and none keeps apart from later ones.
Numbered ==
    \A n \in V!NodeIds :
        /\ n \in Given => node[n].count > 0
        /\ node[n].stage = "complete" => V!Addresses(n) \subseteq 1..UnicastEnd - 1
        /\ n \notin Given => node[n].apart = {}
        /\ \A m \in node[n].apart : m < n

\* The next address is above those the provisioner knows of.
Above ==
    ~adrift =>
        \A n \in Given \ omitted :
            node[n].first + node[n].count <= mUnicastAddressAvailable

Apart == \A n \in Given : \A m \in node[n].apart \intersect Given :
             V!Addresses(m) \intersect V!Addresses(n) = {}

Prompted ==
    \A n \in V!NodeIds :
        node[n].waits # "no" => node[n].stage = "asked" /\ invocation[node[n].waits] = n

ProvisionInv == V!TypeOK /\ InOrder /\ Numbered /\ Above /\ Apart /\ Prompted

LEMMA AddressesWrap ==
  ASSUME NEW a \in Nat
  PROVE  /\ V!Numbers \in Nat /\ a % V!Numbers \in 0..V!Numbers - 1
         /\ a < V!Numbers => a % V!Numbers = a
  <1>1. V!Numbers \in Nat \ {0}
    BY ProfilesAssumption DEF ProfilesAssumption, V!ProvisioningAssumption, V!Numbers
  <1> QED
    BY <1>1

LEMMA NumbersNat ==
  ASSUME V!TypeOK
  PROVE  /\ mUnicastAddressAvailable \in Nat
         /\ \A n \in V!NodeIds : node[n].first \in Nat /\ node[n].count \in Nat
  <1>1. V!Numbers \in Nat /\ \A k \in Counts : k \in Nat
    BY ProfilesAssumption DEF ProfilesAssumption, V!ProvisioningAssumption, V!Numbers
  <1>2. mUnicastAddressAvailable \in Nat
    BY <1>1 DEF V!TypeOK
  <1>3. ASSUME NEW n \in V!NodeIds PROVE node[n].first \in Nat /\ node[n].count \in Nat
    <2>1. node[n] \in V!Node
      BY DEF V!TypeOK
    <2>2. node[n].first \in 0..V!Numbers - 1 /\ node[n].count \in Counts \union {0}
      BY <2>1 DEF V!Node
    <2> QED
      <3> DEFINE first == node[n].first
                 count == node[n].count
      <3>1. first \in 0..V!Numbers - 1 => first \in Nat
        BY <1>1
      <3>2. count \in Counts \union {0} => count \in Nat
        BY <1>1
      <3> HIDE DEF first, count
      <3>3. first \in Nat /\ count \in Nat
        BY <2>2, <3>1, <3>2 DEF first, count
      <3> QED
        BY <3>3 DEF first, count
  <1> QED
    BY <1>2, <1>3

LEMMA UnusedNode == V!Unused \in V!Node /\ V!Failed \in V!Node
  <1>1. 0 \in 0..V!Numbers - 1
    BY AddressesWrap
  <1> QED
    BY <1>1 DEF V!Unused, V!Failed, V!Node

LEMMA NodeKept ==
  ASSUME V!TypeOK, NEW n \in V!NodeIds
  PROVE  /\ \A stage \in {"asked", "complete"} :
               [node EXCEPT ![n].stage = stage] \in [V!NodeIds -> V!Node]
         /\ \A k \in V!Prompts \union {"no"} :
               [node EXCEPT ![n].waits = k] \in [V!NodeIds -> V!Node]
  <1>1. node \in [V!NodeIds -> V!Node] /\ node[n] \in V!Node
    BY DEF V!TypeOK
  <1>2. \A x \in V!Node : [node EXCEPT ![n] = x] \in [V!NodeIds -> V!Node]
    BY <1>1
  <1>3. \A stage \in {"asked", "complete"} : [node[n] EXCEPT !.stage = stage] \in V!Node
    BY <1>1 DEF V!Node
  <1>4. \A k \in V!Prompts \union {"no"} : [node[n] EXCEPT !.waits = k] \in V!Node
    BY <1>1 DEF V!Node
  <1> QED
    BY <1>2, <1>3, <1>4

\* A node keeps its addresses and those it keeps apart from.
SamePlace(i) ==
    /\ node'[i].first = node[i].first /\ node'[i].count = node[i].count
    /\ node'[i].apart = node[i].apart

LEMMA PlacesKept ==
  ASSUME Above, Apart, Given' \subseteq Given, \A i \in Given' : SamePlace(i),
         UNCHANGED <<mUnicastAddressAvailable, omitted, adrift>>
  PROVE  Above' /\ Apart'
  <1>1. Above'
    BY DEF Above, SamePlace
  <1>2. \A i \in Given' : V!Addresses(i)' = V!Addresses(i)
    BY DEF SamePlace, V!Addresses
  <1>3. Apart'
    BY <1>2 DEF Apart, SamePlace
  <1> QED
    BY <1>1, <1>3

LEMMA ProvisionInit == V!Init => ProvisionInv
  <1> SUFFICES ASSUME V!Init PROVE ProvisionInv
    OBVIOUS
  <1> USE ProfilesAssumption DEF ProfilesAssumption, V!ProvisioningAssumption
  <1>1. \A n \in V!NodeIds : node[n] = V!Unused
    BY DEF V!Init
  <1>2. V!TypeOK
    <2>1. FirstAddress \in 0..V!Numbers - 1
      BY DEF V!Numbers
    <2> QED
      BY <2>1, UnusedNode DEF V!Init, V!TypeOK
  <1>3. Given = {} /\ V!InProgress = {}
    BY <1>1 DEF Given, V!InProgress, V!Stage, V!Unused
  <1> QED
    BY <1>1, <1>2, <1>3
    DEF ProvisionInv, InOrder, Numbered, Above, Apart, Prompted, V!Unused

LEMMA ProvisionNext == ProvisionInv /\ [V!Next]_(V!vars) => ProvisionInv'
  <1> SUFFICES ASSUME ProvisionInv, [V!Next]_(V!vars) PROVE ProvisionInv'
    OBVIOUS
  <1>a. V!ProvisioningAssumption
    BY ProfilesAssumption DEF ProfilesAssumption
  <1> USE <1>a DEF V!ProvisioningAssumption, ProvisionInv, V!NodeIds
  <1>1. ASSUME NEW n \in V!NodeIds, V!Provision(n) PROVE ProvisionInv'
    <2> USE <1>1 DEF V!Provision
    <2>1. node' = [node EXCEPT ![n].stage = "asked"]
      OBVIOUS
    <2>2. V!TypeOK'
      <3>1. node' \in [V!NodeIds -> V!Node]
        BY <2>1, NodeKept DEF V!TypeOK
      <3> QED
        BY <3>1 DEF V!TypeOK
    <2>3. Given' = Given /\ n \notin Given
      BY <2>1 DEF Given, V!Stage, V!TypeOK, V!Node
    <2>4. InOrder'
      BY <2>1 DEF InOrder, V!TypeOK, V!Node, V!InProgress, V!Stage
    <2>5. Numbered'
      BY <2>1, <2>3 DEF Numbered, V!TypeOK, V!Node, V!Addresses
    <2>6. Above' /\ Apart'
      <3>1. \A i \in Given' : SamePlace(i)
        BY <2>1, <2>3 DEF SamePlace, V!TypeOK, V!Node, Given, V!Stage
      <3> QED
        BY <2>3, <3>1, PlacesKept
    <2>7. Prompted'
      BY <2>1 DEF Prompted, V!TypeOK, V!Node, V!InProgress, V!Stage
    <2> QED
      BY <2>2, <2>4, <2>5, <2>6, <2>7
  <1>2. ASSUME NEW n \in V!NodeIds, V!HandleAddNodeComplete(n) PROVE ProvisionInv'
    <2> USE <1>2 DEF V!HandleAddNodeComplete
    <2>1. node' = [node EXCEPT ![n].stage = "complete"] /\ node[n].stage = "addressed"
      OBVIOUS
    <2>2. V!TypeOK'
      <3>1. node' \in [V!NodeIds -> V!Node]
        BY <2>1, NodeKept DEF V!TypeOK
      <3> QED
        BY <3>1 DEF V!TypeOK
    <2>3. Given' = Given
      BY <2>1 DEF Given, V!Stage, V!TypeOK, V!Node
    <2>4. InOrder' /\ Prompted'
      BY <2>1 DEF InOrder, Prompted, V!TypeOK, V!Node
    <2>5. Numbered'
      BY <2>1, <2>3 DEF Numbered, V!TypeOK, V!Node, V!Addresses
    <2>6. Above' /\ Apart'
      <3>1. \A i \in Given' : SamePlace(i)
        BY <2>1, <2>3 DEF SamePlace, V!TypeOK, V!Node, Given, V!Stage
      <3> QED
        BY <2>3, <3>1, PlacesKept
    <2> QED
      BY <2>2, <2>4, <2>5, <2>6
  <1>3. ASSUME NEW n \in V!NodeIds, V!HandleAddNodeFailed(n) PROVE ProvisionInv'
    <2> USE <1>3 DEF V!HandleAddNodeFailed
    <2>1. node' = [node EXCEPT ![n] = V!Failed]
      OBVIOUS
    <2>2. V!TypeOK'
      BY UnusedNode DEF V!TypeOK
    <2>3. Given' = Given \ {n}
      BY <2>1 DEF Given, V!Stage, V!TypeOK, V!Node, V!Failed, V!Unused
    <2>4. InOrder' /\ Prompted'
      BY <2>1
      DEF InOrder, Prompted, V!TypeOK, V!Node, V!Failed, V!Unused, V!InProgress, V!Stage
    <2>5. Numbered'
      BY <2>1, <2>3 DEF Numbered, V!TypeOK, V!Node, V!Addresses, V!Failed, V!Unused
    <2>6. Above' /\ Apart'
      <3>1. \A i \in Given' : SamePlace(i)
        BY <2>1, <2>3 DEF SamePlace, V!TypeOK, V!Node, Given, V!Stage
      <3> QED
        BY <2>3, <3>1, PlacesKept
    <2> QED
      BY <2>2, <2>4, <2>5, <2>6
  <1>4. ASSUME NEW n \in V!NodeIds, NEW k \in V!Prompts, V!HandlePrompt(n, k)
        PROVE  ProvisionInv'
    <2> USE <1>4 DEF V!HandlePrompt
    <2>1. node' = [node EXCEPT ![n].waits = k] /\ node[n].stage = "asked"
      OBVIOUS
    <2>2. V!TypeOK'
      <3>1. node' \in [V!NodeIds -> V!Node]
        <4>1. [node EXCEPT ![n].waits = k] \in [V!NodeIds -> V!Node]
          BY NodeKept
        <4> QED
          BY <4>1, <2>1
      <3> QED
        BY <3>1 DEF V!TypeOK
    <2>3. Given' = Given
      BY <2>1 DEF Given, V!Stage, V!TypeOK, V!Node
    <2>4. InOrder'
      BY <2>1 DEF InOrder, V!TypeOK, V!Node
    <2>5. Prompted'
      <3>1. \A i \in V!NodeIds : node[i].stage = "asked" => i = n
        BY <2>1 DEF InOrder
      <3> QED
        BY <2>1, <3>1 DEF Prompted, V!TypeOK, V!Node
    <2>6. Numbered'
      BY <2>1, <2>3 DEF Numbered, V!TypeOK, V!Node, V!Addresses
    <2>7. Above' /\ Apart'
      <3>1. \A i \in Given' : SamePlace(i)
        BY <2>1, <2>3 DEF SamePlace, V!TypeOK, V!Node, Given, V!Stage
      <3> QED
        BY <2>3, <3>1, PlacesKept
    <2> QED
      BY <2>2, <2>4, <2>5, <2>6, <2>7
  <1>5. ASSUME NEW n \in V!NodeIds, NEW c \in Counts, V!HandleRequestProvData(n, c)
        PROVE  ProvisionInv'
    <2> USE <1>5 DEF V!HandleRequestProvData
    <2> DEFINE next == mUnicastAddressAvailable
    <2>1. /\ node' = [node EXCEPT ![n] =
                 [stage |-> "addressed", waits |-> "no", first |-> next, count |-> c,
                  apart |-> V!Known(n)]]
          /\ node[n].stage = "asked" /\ c \in 1..UnicastEnd
      OBVIOUS
    <2>2. V!TypeOK'
      <3>1. (next + c) % V!Numbers \in 0..V!Numbers - 1
        BY <2>1, NumbersNat, AddressesWrap
      <3>2. V!Known(n) \subseteq V!NodeIds
        BY DEF V!Known
      <3>3. node' \in [V!NodeIds -> V!Node]
        <4>1. node[n] \in V!Node /\ next \in 0..V!Numbers - 1
          BY DEF V!TypeOK
        <4>2. node'[n] \in V!Node
          BY <4>1, <3>2, <2>1 DEF V!TypeOK, V!Node
        <4> QED
          BY <4>2, <2>1 DEF V!TypeOK
      <3>4. adrift' \in BOOLEAN
        BY Zenon DEF V!TypeOK
      <3> QED
        BY <3>1, <3>3, <3>4 DEF V!TypeOK
    <2>3. Given' = Given \union {n} /\ n \notin Given
      BY <2>1 DEF Given, V!Stage, V!TypeOK, V!Node
    <2>4. InOrder' /\ Prompted'
      <3>1. \A i \in V!NodeIds \ {n} : node'[i] = node[i]
        BY <2>1 DEF V!TypeOK
      <3>2. node'[n].stage = "addressed" /\ node'[n].waits = "no"
        BY <2>1 DEF V!TypeOK
      <3>3. InOrder'
        BY <2>1, <3>1, <3>2 DEF InOrder
      <3>4. Prompted'
        BY <2>1, <3>1, <3>2 DEF Prompted
      <3> QED
        BY <3>3, <3>4
    <2>5. Numbered'
      BY <2>1, <2>3 DEF Numbered, V!TypeOK, V!Node, V!Addresses, V!Known
    <2>6. Above'
      <3>1. ~adrift' => ~adrift /\ mUnicastAddressAvailable' = next + c
        <4>1. next + c \in Nat /\ V!Numbers \in Nat
          BY <2>1, NumbersNat, AddressesWrap
        <4> QED
          <5>1. ~adrift' => ~adrift /\ ~(next + c >= V!Numbers)
            BY Zenon
          <5> QED
            BY <4>1, <5>1, AddressesWrap
      <3>2. ASSUME NEW i \in Given' \ omitted', ~adrift'
            PROVE  node'[i].first + node'[i].count <= mUnicastAddressAvailable'
        <4>1. i \in V!NodeIds /\ node[i].first \in Nat /\ node[i].count \in Nat /\ next \in Nat
          BY <3>2, NumbersNat DEF Given, V!Stage
        <4>2. CASE i = n
          BY <4>1, <4>2, <3>1, <3>2, <2>1 DEF V!TypeOK
        <4>3. CASE i # n
          BY <4>1, <4>3, <3>1, <3>2, <2>1, <2>3 DEF Above, V!TypeOK
        <4> QED
          BY <4>2, <4>3
      <3> QED
        BY <3>2 DEF Above
    <2>7. Apart'
      <3>1. ASSUME NEW i \in Given', NEW j \in node'[i].apart \intersect Given'
            PROVE  V!Addresses(j)' \intersect V!Addresses(i)' = {}
        <4>1. i \in V!NodeIds /\ j \in V!NodeIds /\ j < i
          BY <2>5, <3>1 DEF Numbered, Given, V!Stage
        <4>2. CASE i = n
          <5>1. ~adrift /\ j \in Given \ omitted /\ j # n
            BY <4>1, <4>2, <3>1, <2>1, <2>3 DEF V!TypeOK, V!Node, V!Known
          <5>2. node[j].first + node[j].count <= next
            BY <5>1 DEF Above
          <5>3. node'[j] = node[j] /\ node'[n].first = next /\ node[j] \in V!Node
            BY <4>1, <5>1, <2>1 DEF V!TypeOK
          <5> QED
            <6>1. /\ V!Addresses(j)' = node[j].first..node[j].first + node[j].count - 1
                  /\ V!Addresses(n)' = next..next + c - 1
              BY <5>3, <2>1 DEF V!Addresses, V!TypeOK
            <6>2. node[j].first \in Nat /\ node[j].count \in Nat /\ next \in Nat /\ c \in Nat
              BY <4>1, <2>1, NumbersNat
            <6> QED
              BY <6>1, <6>2, <5>2, <4>2
        <4>3. CASE i # n /\ j = n
          BY <4>1, <4>3, <3>1, <2>1, <2>3 DEF InOrder, V!TypeOK, V!Node, Given, V!Stage
        <4>4. CASE i # n /\ j # n
          BY <4>1, <4>4, <3>1, <2>1, <2>3 DEF Apart, V!TypeOK, V!Node, V!Addresses
        <4> QED
          BY <4>2, <4>3, <4>4
      <3> QED
        BY <3>1 DEF Apart
    <2> QED
      BY <2>2, <2>4, <2>5, <2>6, <2>7
  <1>6. ASSUME NEW k \in V!Prompts, V!Supply(k) PROVE ProvisionInv'
    <2> USE <1>6 DEF V!Supply
    <2>1. invocation[k] \in V!NodeIds
      BY DEF V!TypeOK
    <2>2. node' = [node EXCEPT ![invocation[k]].waits = "no"]
      OBVIOUS
    <2>3. V!TypeOK'
      <3>1. node' \in [V!NodeIds -> V!Node]
        <4>1. [node EXCEPT ![invocation[k]].waits = "no"] \in [V!NodeIds -> V!Node]
          BY <2>1, NodeKept
        <4> QED
          BY <4>1, <2>2
      <3> QED
        BY <3>1 DEF V!TypeOK
    <2>4. Given' = Given
      BY <2>1, <2>2 DEF Given, V!Stage, V!TypeOK, V!Node
    <2>5. InOrder' /\ Prompted'
      BY <2>1, <2>2 DEF InOrder, Prompted, V!TypeOK, V!Node
    <2>6. Numbered'
      BY <2>1, <2>2, <2>4 DEF Numbered, V!TypeOK, V!Node, V!Addresses
    <2>7. Above' /\ Apart'
      <3>1. \A i \in Given' : SamePlace(i)
        BY <2>1, <2>2, <2>4 DEF SamePlace, V!TypeOK, V!Node, Given, V!Stage
      <3> QED
        BY <2>4, <3>1, PlacesKept
    <2> QED
      BY <2>3, <2>5, <2>6, <2>7
  <1>7. ASSUME NEW own \in {{}, {V!LOCAL_NODE_ADDRESS}}, V!UpdateNodeInfo(own)
        PROVE  ProvisionInv'
    <2> USE <1>7 DEF V!UpdateNodeInfo
    <2> DEFINE list == own \union UNION {V!Addresses(n) : n \in V!Stage("complete")}
    <2>1. UNCHANGED <<node, invocation>> /\ omitted' = V!Stage("addressed")
          /\ adrift' = (list = {})
      OBVIOUS
    <2>2. Given' = Given /\ InOrder' /\ Numbered' /\ Apart' /\ Prompted'
      BY <2>1
      DEF Given, InOrder, Numbered, Apart, Prompted, V!Stage, V!Addresses
    <2>3. list \subseteq 1..UnicastEnd - 1
      BY DEF Numbered, V!Stage, V!LOCAL_NODE_ADDRESS
    <2>4. CASE list = {}
      BY <2>1, <2>2, <2>4 DEF V!TypeOK, Above, V!Stage
    <2>5. ASSUME NEW last \in list, \A a \in list : a <= last,
                 mUnicastAddressAvailable' = (last + 1) % V!Numbers
          PROVE  ProvisionInv'
      <3>1. mUnicastAddressAvailable' = last + 1 /\ last \in 1..UnicastEnd - 1
        BY <2>3, <2>5 DEF V!Numbers
      <3>2. V!TypeOK'
        BY <2>1, <3>1 DEF V!TypeOK, V!Stage, V!Numbers
      <3>3. ASSUME NEW n \in V!Stage("complete")
            PROVE  node[n].first + node[n].count - 1 \in list
        <4>1. n \in V!NodeIds /\ n \in Given /\ node[n] \in V!Node
          BY DEF Given, V!Stage, V!TypeOK
        <4>2. node[n].count \in Nat \ {0} /\ node[n].first \in Nat
          BY <4>1, NumbersNat DEF Numbered
        <4> QED
          BY <4>2 DEF V!Addresses
      <3>4. Above'
        <4>1. ASSUME NEW n \in Given' \ omitted'
              PROVE  node'[n].first + node'[n].count <= mUnicastAddressAvailable'
          <5>1. n \in V!Stage("complete") /\ node[n] \in V!Node
            BY <2>1, <2>2 DEF Given, V!Stage, V!TypeOK
          <5>2. node[n].first + node[n].count - 1 <= last
            BY <5>1, <2>5, <3>3
          <5> QED
            BY <5>1, <5>2, <2>1, <3>1, NumbersNat DEF V!Stage
        <4> QED
          BY <4>1 DEF Above
      <3> QED
        BY <2>2, <3>2, <3>4
    <2> QED
      BY <2>4, <2>5
  <1>8. CASE V!Restart
    <2> USE <1>8 DEF V!Restart
    <2>1. node' = [n \in V!NodeIds |-> IF n \in V!InProgress THEN V!Failed ELSE node[n]]
      OBVIOUS
    <2>2. V!TypeOK'
      <3>1. FirstAddress \in 0..V!Numbers - 1
        BY DEF V!Numbers
      <3> QED
        BY <3>1, UnusedNode DEF V!TypeOK
    <2>3. Given' = V!Stage("complete")
      BY <2>1 DEF Given, V!Stage, V!InProgress, V!Failed, V!Unused
    <2>4. InOrder' /\ Prompted'
      BY <2>1
      DEF InOrder, Prompted, V!TypeOK, V!Node, V!Failed, V!Unused, V!InProgress, V!Stage
    <2>5. Numbered'
      BY <2>1, <2>3
      DEF Numbered, V!TypeOK, V!Node, V!Addresses, V!Failed, V!Unused, V!InProgress,
          V!Stage, Given
    <2>6. Above'
      BY <2>3 DEF Above
    <2>7. Apart'
      BY <2>1, <2>3 DEF Apart, V!Addresses, V!InProgress, V!Stage, Given
    <2> QED
      BY <2>2, <2>4, <2>5, <2>6, <2>7
  <1>9. CASE UNCHANGED V!vars
    BY <1>9
    DEF V!vars, V!TypeOK, InOrder, Numbered, Above, Apart, Prompted, Given, V!Stage,
        V!Addresses, V!InProgress
  <1> QED
    BY <1>1, <1>2, <1>3, <1>4, <1>5, <1>6, <1>7, <1>8, <1>9 DEF V!Next

LEMMA ProvisionKept == ProvisionInv /\ [Next]_vars => ProvisionInv'
  <1> SUFFICES ASSUME ProvisionInv, [Next]_vars PROVE ProvisionInv'
    OBVIOUS
  <1>1. V!Next \/ UNCHANGED provisionVars
    BY DEF MeshNext, Next, vars
  <1>2. [V!Next]_(V!vars)
    BY <1>1 DEF provisionVars, V!vars
  <1> QED
    BY <1>2, ProvisionNext

LEMMA ProvisionAlways == Spec => []ProvisionInv
  <1>1. Init => ProvisionInv
    BY ProvisionInit DEF Init
  <1> QED
    BY <1>1, ProvisionKept, PTL DEF Spec

\* Provisioning, among the profiles: whatever failed between them and whenever the
\* client sent its lists, two nodes share no address, but for the cases NodesApart
\* names; and the answer to a prompt reaches the node that waits.
THEOREM NodesStayApart == Spec => []NodesApart
  <1>1. ProvisionInv => NodesApart
    BY DEF ProvisionInv, Numbered, Apart, Prompted, NodesApart, V!NodesApart, Given, V!Stage,
           V!InProgress
  <1> QED
    BY <1>1, ProvisionAlways, PTL

(***************************************************************************)
(* The GATT server.                                                        *)
(***************************************************************************)
KindOf(p) == IF Len(p) = 2 THEN "service" ELSE IF Len(p) = 3 THEN "char" ELSE "desc"

\* Ids are given once: that of a path is below the counter of its kind.
Below ==
    /\ \A k \in S!Kinds : nextId[k] > 0
    /\ \A p \in exported \union stored : p[Len(p)] < nextId[KindOf(p)]

\* A registration that has not ended has put its object nowhere.
Unregistered == pending \intersect (stored \union lost) = {}

ServerInv == S!TypeOK /\ Below /\ Unregistered /\ S!ExportedAccounted

LEMMA PathLengths ==
  ASSUME NEW p \in S!Object
  PROVE  /\ Len(p) \in 2..4 /\ p[1] \in 1..MaxApp /\ p[2] \in 1..MaxService
         /\ Len(p) > 2 => p[3] \in 0..MaxChar
         /\ \A i \in 1..Len(p) : p[i] \in Nat
         /\ p \in Seq(Nat)
  <1>1. MaxApp \in Nat /\ MaxService \in Nat /\ MaxChar \in Nat /\ MaxDesc \in Nat
    BY ProfilesAssumption DEF ProfilesAssumption, S!GattServerAssumption
  <1>2. CASE \E a \in 1..MaxApp, s \in 1..MaxService : p = <<a, s>>
    BY <1>1, <1>2
  <1>3. CASE \E a \in 1..MaxApp, s \in 1..MaxService, c \in 0..MaxChar : p = <<a, s, c>>
    BY <1>1, <1>3
  <1>4. CASE \E a \in 1..MaxApp, s \in 1..MaxService, c \in 0..MaxChar, d \in 1..MaxDesc :
                 p = <<a, s, c, d>>
    BY <1>1, <1>4
  <1> QED
    BY <1>2, <1>3, <1>4 DEF S!Object

LEMMA ServerInit == S!Init => ServerInv
  <1> SUFFICES ASSUME S!Init PROVE ServerInv
    OBVIOUS
  <1> USE ProfilesAssumption DEF ProfilesAssumption, S!GattServerAssumption
  <1>1. S!TypeOK
    <2>1. mLastCharId \in 0..MaxChar
      BY DEF S!Init
    <2>2. nextId \in [S!Kinds -> Nat]
      BY DEF S!Init
    <2> QED
      BY <2>1, <2>2 DEF S!Init, S!TypeOK
  <1>2. \A k \in S!Kinds : nextId[k] > 0
    BY DEF S!Init
  <1>3. exported \union stored = {} /\ pending = {} /\ lost = {}
    BY DEF S!Init
  <1> QED
    BY <1>1, <1>2, <1>3 DEF ServerInv, Below, Unregistered, S!ExportedAccounted

\* A new object, of a kind and with the next id of that kind.
LEMMA AddKeeps ==
  ASSUME ServerInv, NEW kind \in S!Kinds, NEW p \in S!Object, NEW gap \in Nat,
         p[Len(p)] = nextId[kind], KindOf(p) = kind,
         nextId' = [nextId EXCEPT ![kind] = nextId[kind] + 1 + gap],
         exported' = exported \union {p}, pending' = pending \union {p},
         UNCHANGED <<acquired, apps, stored, hollow, lost, mLastCharId>>
  PROVE  ServerInv'
  <1> USE DEF ServerInv
  <1>1. nextId[kind] \in Nat /\ nextId \in [S!Kinds -> Nat]
    BY DEF S!TypeOK
  <1>2. p \notin exported \union stored
    BY <1>1 DEF Below
  <1>3. S!TypeOK'
    BY <1>1 DEF S!TypeOK
  <1>4. \A k \in S!Kinds : nextId'[k] >= nextId[k] /\ nextId'[k] \in Nat
                           /\ (k = kind => nextId'[k] > nextId[k])
    BY <1>1
  <1>5. Below'
    <2>1. \A k \in S!Kinds : nextId'[k] > 0
      BY <1>1, <1>4 DEF Below
    <2>2. ASSUME NEW q \in exported' \union stored' PROVE q[Len(q)] < nextId'[KindOf(q)]
      <3>1. KindOf(q) \in S!Kinds
        BY DEF KindOf, S!Kinds
      <3>2. q \in S!Object
        BY DEF S!TypeOK
      <3>3. q[Len(q)] \in Nat
        <4>1. Len(q) \in 2..4 /\ \A i \in 1..Len(q) : q[i] \in Nat
          BY <3>2, PathLengths
        <4>2. \A l \in 2..4 : l \in 1..l
          OBVIOUS
        <4> QED
          BY <4>1, <4>2
      <3>4. CASE q = p
        BY <1>4, <3>4
      <3>5. CASE q # p
        BY <1>1, <1>4, <3>1, <3>3, <3>5 DEF Below
      <3> QED
        BY <3>4, <3>5
    <2> QED
      BY <2>1, <2>2 DEF Below, KindOf
  <1>6. Unregistered'
    BY <1>2 DEF Unregistered, S!TypeOK
  <1>7. S!ExportedAccounted'
    BY <1>2 DEF S!ExportedAccounted
  <1> QED
    BY <1>3, <1>5, <1>6, <1>7

LEMMA ServerNext == ServerInv /\ [S!Next]_(S!vars) => ServerInv'
  <1> SUFFICES ASSUME ServerInv, [S!Next]_(S!vars) PROVE ServerInv'
    OBVIOUS
  <1>a. S!GattServerAssumption
    BY ProfilesAssumption DEF ProfilesAssumption
  <1> USE <1>a DEF S!GattServerAssumption
  <1>b. \A s, q : S!Under(s, q) => Len(s) < Len(q)
    BY DEF S!Under
  <1>1. CASE S!HandleBusAcquired
    BY <1>1
    DEF S!HandleBusAcquired, ServerInv, S!TypeOK, Below, Unregistered, S!ExportedAccounted,
        KindOf
  <1>2. CASE S!AddApplication
    <2> USE <1>2 DEF S!AddApplication, ServerInv
    <2>1. nextId["app"] \in 1..MaxApp /\ "app" \in S!Kinds
      BY DEF S!TypeOK, Below, S!Kinds
    <2>2. S!TypeOK'
      <3>1. apps' \subseteq 1..MaxApp
        BY <2>1 DEF S!TypeOK
      <3>2. nextId' \in [S!Kinds -> Nat]
        BY <2>1 DEF S!TypeOK
      <3> QED
        BY <3>1, <3>2 DEF S!TypeOK
    <2>3. Below'
      BY <2>1 DEF S!TypeOK, Below, KindOf
    <2> QED
      BY <2>2, <2>3 DEF Unregistered, S!ExportedAccounted
  <1>3. ASSUME NEW a \in apps, S!AddService(a) PROVE ServerInv'
    <2> DEFINE id == nextId["service"]
               p  == <<a, id>>
    <2>1. "service" \in S!Kinds /\ Len(p) = 2 /\ p[2] = id
      BY DEF S!Kinds
    <2>2. id \in 1..MaxService /\ a \in 1..MaxApp
      BY <1>3, <2>1 DEF S!AddService, S!Add, ServerInv, S!TypeOK, Below
    <2>3. p \in S!Object /\ KindOf(p) = "service"
      BY <2>1, <2>2 DEF S!Object, KindOf
    <2>4. /\ nextId' = [nextId EXCEPT !["service"] = nextId["service"] + 1 + ServiceGap]
          /\ exported' = exported \union {p} /\ pending' = pending \union {p}
          /\ UNCHANGED <<acquired, apps, stored, hollow, lost, mLastCharId>>
      BY <1>3 DEF S!AddService, S!Add
    <2> HIDE DEF p
    <2> QED
      BY <2>1, <2>3, <2>4, AddKeeps
  <1>4. ASSUME NEW a, NEW s, S!AddCharacteristic(a, s) PROVE ServerInv'
    <2> DEFINE id == nextId["char"]
               p  == <<a, s, id>>
    <2>1. "char" \in S!Kinds /\ Len(p) = 3 /\ p[3] = id
      BY DEF S!Kinds
    <2>2. id \in 0..MaxChar
      BY <1>4, <2>1 DEF S!AddCharacteristic, S!Add, ServerInv, S!TypeOK, Below
    <2>3. <<a, s>> \in S!Object
      BY <1>4 DEF S!AddCharacteristic, ServerInv, S!TypeOK
    <2>4. a \in 1..MaxApp /\ s \in 1..MaxService
      BY <2>3, PathLengths
    <2>5. p \in S!Object /\ KindOf(p) = "char"
      BY <2>1, <2>2, <2>4 DEF S!Object, KindOf
    <2>6. /\ nextId' = [nextId EXCEPT !["char"] = nextId["char"] + 1 + 0]
          /\ exported' = exported \union {p} /\ pending' = pending \union {p}
          /\ UNCHANGED <<acquired, apps, stored, hollow, lost, mLastCharId>>
      BY <1>4 DEF S!AddCharacteristic, S!Add
    <2> HIDE DEF p
    <2> QED
      BY <2>1, <2>5, <2>6, AddKeeps
  <1>5. ASSUME NEW a, NEW s, S!AddDescriptor(a, s) PROVE ServerInv'
    <2> DEFINE id == nextId["desc"]
               p  == <<a, s, mLastCharId, id>>
    <2>1. "desc" \in S!Kinds /\ Len(p) = 4
          /\ p[4] = id
      BY DEF S!Kinds
    <2>2. id \in 1..MaxDesc /\ mLastCharId \in 0..MaxChar
      BY <1>5, <2>1 DEF S!AddDescriptor, S!Add, ServerInv, S!TypeOK, Below
    <2>3. <<a, s>> \in S!Object
      BY <1>5 DEF S!AddDescriptor, ServerInv, S!TypeOK
    <2>4. a \in 1..MaxApp /\ s \in 1..MaxService
      BY <2>3, PathLengths
    <2>5. p \in S!Object /\ KindOf(p) = "desc"
      BY <2>1, <2>2, <2>4 DEF S!Object, KindOf
    <2>6. /\ nextId' = [nextId EXCEPT !["desc"] = nextId["desc"] + 1 + 0]
          /\ exported' = exported \union {p} /\ pending' = pending \union {p}
          /\ UNCHANGED <<acquired, apps, stored, hollow, lost, mLastCharId>>
      BY <1>5 DEF S!AddDescriptor, S!Add
    <2> HIDE DEF p
    <2> QED
      BY <2>1, <2>5, <2>6, AddKeeps
  <1>6. ASSUME NEW a \in apps, S!RemoveApplication(a) PROVE ServerInv'
    <2> DEFINE ss == {q \in stored : Len(q) = 2 /\ q[1] = a}
    <2> USE <1>6 DEF S!RemoveApplication, ServerInv
    <2>1. /\ exported' = exported \ (S!Gone(ss) \union (ss \ hollow))
          /\ stored' = stored \ S!Gone(ss) /\ hollow' = hollow \union ss
          /\ UNCHANGED <<acquired, apps, nextId, pending, lost, mLastCharId>>
      BY DEF S!RemoveLocalServices
    <2>2. S!Gone(ss) \subseteq {q \in stored : Len(q) # 2}
      BY <1>b DEF S!Gone
    <2> HIDE DEF ss
    <2>3. ss \subseteq {q \in stored : Len(q) = 2}
      BY DEF ss
    <2>4. S!TypeOK'
      BY <2>1, <2>2, <2>3 DEF S!TypeOK, Unregistered, S!ExportedAccounted
    <2>5. Below' /\ Unregistered' /\ S!ExportedAccounted'
      BY <2>1, <2>2, <2>3
      DEF S!TypeOK, Below, Unregistered, S!ExportedAccounted, KindOf
    <2> QED
      BY <2>4, <2>5
  <1>7. ASSUME NEW s \in stored, S!RemoveService(s) PROVE ServerInv'
    <2> DEFINE under == {q \in stored : S!Under(s, q)}
    <2> USE <1>7 DEF S!RemoveService, ServerInv
    <2>1. under \subseteq {q \in stored : Len(q) # 2} /\ Len(s) = 2
      BY <1>b
    <2>2. /\ stored' = stored \ ({s} \union under) /\ hollow' = hollow \ {s}
          /\ UNCHANGED <<acquired, apps, nextId, pending, mLastCharId>>
      OBVIOUS
    <2>3. S!RemoveLocalServices({s}) = IF s \in hollow THEN {} ELSE under \union {s}
      BY DEF S!RemoveLocalServices, S!Gone
    <2>4. lost' = lost \union (IF s \in hollow THEN under ELSE {})
      OBVIOUS
    <2>5. exported' = exported \ (IF s \in hollow THEN {} ELSE under \union {s})
      BY <2>3
    <2> HIDE DEF under
    <2>6. S!TypeOK'
      BY <2>1, <2>2, <2>4, <2>5 DEF S!TypeOK, Unregistered, S!ExportedAccounted
    <2>7. Below'
      BY <2>2, <2>5 DEF Below, KindOf
    <2>8. Unregistered' /\ S!ExportedAccounted'
      <3>1. CASE s \in hollow
        <4>1. under \subseteq stored \ hollow
          BY <2>1 DEF S!TypeOK
        <4>2. lost' = lost \union under /\ exported' = exported
          BY <2>4, <2>5, <3>1
        <4>3. stored' \ hollow' = (stored \ hollow) \ under
          BY <2>2, <3>1
        <4> QED
          BY <2>2, <4>1, <4>2, <4>3, Zenon DEF Unregistered, S!ExportedAccounted
      <3>2. CASE s \notin hollow
        <4>1. under \union {s} \subseteq stored \ hollow
          BY <2>1, <3>2 DEF S!TypeOK
        <4>2. lost' = lost /\ exported' = exported \ (under \union {s})
          BY <2>4, <2>5, <3>2
        <4>3. stored' \ hollow' = (stored \ hollow) \ (under \union {s})
          BY <2>2, <3>2
        <4> QED
          BY <2>2, <4>1, <4>2, <4>3, Zenon DEF Unregistered, S!ExportedAccounted
      <3> QED
        BY <3>1, <3>2
    <2> QED
      BY <2>6, <2>7, <2>8
  <1>8. ASSUME NEW p \in pending, S!HandleRegisterReply(p) PROVE ServerInv'
    <2> USE <1>8 DEF S!HandleRegisterReply, S!RegisterReply, ServerInv
    <2>1. p \in exported /\ p \in S!Object /\ p \notin stored /\ p \notin lost
      BY DEF S!TypeOK, Unregistered
    <2>2. Len(p) = 3 => p[3] \in 0..MaxChar
      <3>1. Len(p) \in 2..4 /\ (Len(p) > 2 => p[3] \in 0..MaxChar)
        BY <2>1, PathLengths
      <3> QED
        BY <3>1
    <2>3. S!TypeOK'
      BY <2>1, <2>2 DEF S!TypeOK
    <2>4. Below' /\ Unregistered' /\ S!ExportedAccounted'
      BY <2>1 DEF S!TypeOK, Below, Unregistered, S!ExportedAccounted, KindOf
    <2> QED
      BY <2>3, <2>4
  <1>9. CASE UNCHANGED S!vars
    BY <1>9 DEF S!vars, ServerInv, S!TypeOK, Below, Unregistered, S!ExportedAccounted, KindOf
  <1> QED
    BY <1>1, <1>2, <1>3, <1>4, <1>5, <1>6, <1>7, <1>8, <1>9 DEF S!Next

LEMMA WritesAsWritten == ServerInv => S!WriteToldWhereWritten
  <1> SUFFICES ASSUME ServerInv, NEW p \in exported, Len(p) > 2,
                      \A i \in DOMAIN p : p[i] < 10
               PROVE  S!OnHandleWriteValue(p) \in {S!Up(p), S!None}
    BY DEF S!WriteToldWhereWritten
  <1>1. p \in Seq(Nat) /\ Len(p) \in 2..4 /\ \A i \in 1..Len(p) : p[i] \in Nat
    BY PathLengths DEF ServerInv, S!TypeOK
  <1>2. \A i \in 1..(Len(p) - 1) : S!Digit(p[i]) = p[i]
    <2>1. \A k \in Nat : k < 10 => k % 10 = k
      OBVIOUS
    <2>2. DOMAIN p = 1..Len(p) /\ Len(p) \in Nat
      BY <1>1
    <2>3. \A i \in 1..(Len(p) - 1) : i \in 1..Len(p)
      BY <2>2
    <2> QED
      BY <1>1, <2>1, <2>2, <2>3 DEF S!Digit
  <1>3. S!Up(p) = [i \in 1..(Len(p) - 1) |-> p[i]]
    BY <1>1 DEF S!Up
  <1>4. S!Written(p) = S!Up(p)
    BY <1>2, <1>3 DEF S!Written
  <1> QED
    BY <1>4 DEF S!OnHandleWriteValue

LEMMA ServerKept == ServerInv /\ [Next]_vars => ServerInv'
  <1> SUFFICES ASSUME ServerInv, [Next]_vars PROVE ServerInv'
    OBVIOUS
  <1>1. S!Next \/ UNCHANGED serverVars
    BY DEF Next, vars
  <1>2. [S!Next]_(S!vars)
    BY <1>1 DEF serverVars, S!vars
  <1> QED
    BY <1>2, ServerNext

LEMMA ServerAlways == Spec => []ServerInv
  <1>1. Init => ServerInv
    BY ServerInit DEF Init
  <1> QED
    BY <1>1, ServerKept, PTL DEF Spec

\* The GATT server, among the profiles: BlueZ sees what is in a table, what waits for
\* its registration, and what a registration lost, in whatever order services go and
\* registrations end; and a write is told of the characteristic written, while the ids
\* of its path have one digit.
THEOREM ServerAccounts == Spec => []ServerAccounted
  <1>1. ServerInv => ServerAccounted
    BY WritesAsWritten DEF ServerInv, ServerAccounted
  <1> QED
    BY <1>1, ServerAlways, PTL

\* The types of advertisers, provisioning and the GATT server: ids and addresses stay in
\* their ranges when they wrap, objects have paths of the ids there are.
LEMMA SomeTypes == Spec => [](A!TypeOK /\ V!TypeOK /\ S!TypeOK)
  <1>1. ProvisionInv => V!TypeOK
    BY DEF ProvisionInv
  <1>2. ServerInv => S!TypeOK
    BY DEF ServerInv
  <1> QED
    BY <1>1, <1>2, AdvertiseAlways, ProvisionAlways, ServerAlways, PTL

(***************************************************************************)
(* Serial port channels, for any pool of ids, objects, devices and         *)
(* services: an id in use is that of one channel BlueZ can reach, and what *)
(* the client was told is what the channels are.                           *)
(***************************************************************************)
\* Only objects that were made have calls and sockets.
OfMade == connecting \cup mChannel \subseteq C!Made

\* A socket has a device, so a connect whose channel got one does not fail; an
\* entry left over by a failed connect has none.
SocketsReachable ==
  /\ \A c \in mChannel : mDeviceAddress[c] # NoAddress
  /\ C!Stored \cap mChannel \subseteq mInterface

\* A failed connect finds its own skeleton, unless the channel was removed.
ConnectingReachable ==
  ~removedConnecting /\ ~released => connecting \subseteq mInterface

ChannelsInv ==
  /\ C!TypeOK
  /\ C!SkeletonsStored
  /\ OfMade
  /\ SocketsReachable
  /\ ConnectingReachable
  /\ C!IdsAccounted
  /\ C!ToldMatches

LEMMA LinkCount ==
  /\ 0 \in 0 .. MaxLinks
  /\ \A n \in 0 .. MaxLinks : /\ n < MaxLinks => n + 1 \in 0 .. MaxLinks
                              /\ n > 0 => n - 1 \in 0 .. MaxLinks
  BY ProfilesAssumption DEF ProfilesAssumption, C!SppAssumption

\* What the helpers do to the types of what they change.
LEMMA UnregisterType ==
  ASSUME C!TypeOK, NEW id, C!UnregisterProfile(id)
  PROVE  idsRegistered' \subseteq ChannelId /\ links' \in [Channel -> 0 .. MaxLinks]
  BY LinkCount DEF C!TypeOK, C!UnregisterProfile

LEMMA UnrefType ==
  ASSUME C!TypeOK, NEW c, C!UnrefInterface(c)
  PROVE  mInterface' \subseteq Channel /\ channelDied' \in BOOLEAN
  BY DEF C!TypeOK, C!UnrefInterface

LEMMA ForgetType ==
  ASSUME C!TypeOK, NEW id, C!Forget(id)
  PROVE  /\ mChannelIdList' \subseteq ChannelId
         /\ mConnectedDevices' \in [ChannelId -> Channel \cup {NoChannel}]
         /\ info' \in [Channel -> C!Info \cup {NoInfo}]
  BY DEF C!TypeOK, C!Forget

\* A stored channel has an info with the id it is stored for.
LEMMA MadeInfo ==
  ASSUME C!TypeOK
  PROVE  \A c \in C!Made : /\ info[c] \in C!Info
                         /\ info[c].id \in ChannelId
                         /\ info[c].client \in BOOLEAN
  BY DEF C!TypeOK, C!Made, C!Info

\* Nothing exists at the start.
LEMMA ChannelsInit == C!Init => ChannelsInv
  <1> SUFFICES ASSUME C!Init PROVE ChannelsInv
    OBVIOUS
  <1>1. C!TypeOK
    BY LinkCount DEF C!Init, C!TypeOK
  <1>2. C!Made = {} /\ C!Stored = {}
    BY DEF C!Init, C!Made, C!Stored
  <1>3. C!SkeletonsStored /\ OfMade /\ SocketsReachable /\ ConnectingReachable
    BY <1>2 DEF C!Init, C!SkeletonsStored, OfMade, SocketsReachable, ConnectingReachable
  <1>4. C!IdsAccounted /\ C!ToldMatches
    BY <1>2 DEF C!Init, C!IdsAccounted, C!ToldMatches
  <1> QED
    BY <1>1, <1>3, <1>4 DEF ChannelsInv

LEMMA NewChannelType ==
  ASSUME C!TypeOK, NEW c \in Channel, NEW id \in ChannelId, NEW client \in BOOLEAN,
         NEW uuid \in Uuid, C!NewChannel(c, id, client, uuid)
  PROVE  /\ mChannelIdList' \subseteq ChannelId
         /\ mConnectedDevices' \in [ChannelId -> Channel \cup {NoChannel}]
         /\ info' \in [Channel -> C!Info \cup {NoInfo}]
         /\ mInterface' \subseteq Channel
         /\ connecting' \subseteq Channel
         /\ idsRegistered' \subseteq ChannelId
  <1>1. [id |-> id, client |-> client, uuid |-> uuid] \in C!Info
    BY DEF C!Info
  <1>2. CASE \E d \in mInterface : info[d].id = id
    BY <1>2 DEF C!NewChannel, C!TypeOK, C!tables
  <1>3. CASE ~\E d \in mInterface : info[d].id = id
    BY <1>1, <1>3 DEF C!NewChannel, C!TypeOK
  <1> QED
    BY <1>2, <1>3

LEMMA ClientType ==
  ASSUME C!TypeOK, C!ClientStep
  PROVE  C!TypeOK'
  <1>1. ASSUME NEW c \in Channel, NEW id \in ChannelId, NEW uuid \in Uuid,
               C!CreateChannel(c, id, uuid) \/ C!ConnectUuid(c, id, uuid)
        PROVE  C!TypeOK'
    <2>1. PICK client \in BOOLEAN : C!NewChannel(c, id, client, uuid)
      BY <1>1 DEF C!CreateChannel, C!ConnectUuid
    <2>2. UNCHANGED <<C!sockets, removedConnecting, links, released, channelDied>>
      BY <1>1 DEF C!CreateChannel, C!ConnectUuid
    <2> QED
      BY <2>1, <2>2, NewChannelType DEF C!TypeOK, C!sockets
  <1>2. ASSUME NEW uuid \in Uuid, C!RemoveChannel(uuid)
        PROVE  C!TypeOK'
    <2>1. PICK c \in C!Stored :
            /\ C!UnregisterProfile(info[c].id)
            /\ C!UnrefInterface(c)
            /\ C!TellClosed(c)
            /\ C!Forget(info[c].id)
            /\ removedConnecting' = (removedConnecting \/ c \in connecting)
            /\ UNCHANGED <<mDeviceAddress, mChannel, watches, overwritten, connecting,
                           released>>
      BY <1>2 DEF C!RemoveChannel
    <2> QED
      BY <2>1, UnregisterType, UnrefType, ForgetType DEF C!TypeOK, C!TellClosed
  <1> QED
    BY <1>1, <1>2 DEF C!ClientStep

LEMMA BluezType ==
  ASSUME C!TypeOK, C!SkeletonsStored, C!BluezStep
  PROVE  C!TypeOK'
  <1>1. ASSUME NEW c \in Channel, C!ConnectReply(c)
        PROVE  C!TypeOK'
    <2>1. CASE mDeviceAddress[c] # NoAddress
      BY <1>1, <2>1 DEF C!ConnectReply, C!TypeOK, C!tables, C!sockets
    <2>2. CASE mDeviceAddress[c] = NoAddress
      <3>1. C!UnregisterProfile(info[c].id) /\ C!UnrefInterface(c)
        BY <1>1, <2>2 DEF C!ConnectReply
      <3> QED
        BY <1>1, <2>2, <3>1, UnregisterType, UnrefType DEF C!ConnectReply, C!TypeOK, C!sockets
    <2> QED
      BY <2>1, <2>2
  <1>2. ASSUME NEW c \in Channel, C!IoCallback(c)
        PROVE  C!TypeOK'
    BY <1>2 DEF C!IoCallback, C!TypeOK, C!tables, C!sockets, C!calls, C!external
  <1>3. ASSUME NEW c \in Channel, NEW a \in Address, C!HandleNewConnection(c, a)
        PROVE  C!TypeOK'
    <2>1. info[c].id \in ChannelId
      BY <1>3, MadeInfo DEF C!HandleNewConnection, C!Reachable, C!SkeletonsStored, C!Stored
    <2>2. links' \in [Channel -> 0 .. MaxLinks]
      BY <1>3, LinkCount DEF C!HandleNewConnection, C!TypeOK
    <2>3. channelsTold' \subseteq Address \X ChannelId
      BY <1>3, <2>1 DEF C!HandleNewConnection, C!TypeOK
    <2> QED
      BY <1>3, <2>2, <2>3 DEF C!HandleNewConnection, C!TypeOK, C!tables, C!calls
  <1>4. ASSUME NEW c \in Channel, C!HandleRequestDisconnection(c)
        PROVE  C!TypeOK'
    <2>1. /\ channelsTold' \subseteq Address \X ChannelId
          /\ mChannel' \subseteq Channel
          /\ watches' \subseteq Channel
          /\ UNCHANGED <<mDeviceAddress, overwritten, C!calls, released>>
      BY <1>4 DEF C!HandleRequestDisconnection, C!TellClosed, C!TypeOK
    <2>2. CASE info[c].client
      <3>1. C!UnregisterProfile(info[c].id) /\ C!UnrefInterface(c) /\ C!Forget(info[c].id)
        BY <1>4, <2>2 DEF C!HandleRequestDisconnection
      <3> QED
        BY <2>1, <3>1, UnregisterType, UnrefType, ForgetType DEF C!TypeOK, C!calls
    <2>3. CASE ~info[c].client
      <3>1. links' \in [Channel -> 0 .. MaxLinks]
        BY <1>4, <2>3, LinkCount DEF C!HandleRequestDisconnection, C!TypeOK
      <3>2. UNCHANGED <<C!tables, idsRegistered, channelDied>>
        BY <1>4, <2>3 DEF C!HandleRequestDisconnection
      <3> QED
        BY <2>1, <3>1, <3>2 DEF C!TypeOK, C!tables, C!calls
    <2> QED
      BY <2>2, <2>3
  <1>5. ASSUME NEW c \in Channel, C!LoseLink(c)
        PROVE  C!TypeOK'
    <2>1. links' \in [Channel -> 0 .. MaxLinks]
      BY <1>5, LinkCount DEF C!LoseLink, C!TypeOK
    <2> QED
      BY <1>5, <2>1 DEF C!LoseLink, C!TypeOK, C!tables, C!sockets, C!calls
  <1>6. ASSUME C!HandleRelease
        PROVE  C!TypeOK'
    <2>1. links' \in [Channel -> 0 .. MaxLinks]
      BY <1>6, LinkCount DEF C!HandleRelease
    <2> QED
      BY <1>6, <2>1 DEF C!HandleRelease, C!TypeOK, C!calls
  <1> QED
    BY <1>1, <1>2, <1>3, <1>4, <1>5, <1>6 DEF C!BluezStep

\* No two stored channels have one id.
LEMMA StoredDistinct ==
  \A c, d \in C!Stored : info[c].id = info[d].id => c = d
  BY DEF C!Stored

\* Forgetting the id of a stored channel takes that channel out and no other.
LEMMA ForgetStored ==
  ASSUME C!TypeOK, NEW c \in C!Stored, C!Forget(info[c].id)
  PROVE  C!Stored' = C!Stored \ {c} /\ C!Made' = C!Made
  <1>1. C!Made' = C!Made
    BY DEF C!Forget, C!Made
  <1>2. c \notin C!Stored'
    <2>1. info' = info /\ mConnectedDevices'[info[c].id] = NoChannel
      BY MadeInfo DEF C!Forget, C!Stored, C!TypeOK
    <2>2. c # NoChannel
      BY ProfilesAssumption DEF ProfilesAssumption, C!Stored, C!Made, C!SppAssumption
    <2> QED
      BY <2>1, <2>2 DEF C!Stored
  <1>3. ASSUME NEW d \in C!Stored, d # c
        PROVE  d \in C!Stored'
    BY <1>1, <1>3, MadeInfo, StoredDistinct DEF C!Forget, C!Stored, C!TypeOK
  <1>4. ASSUME NEW d \in C!Stored'
        PROVE  d \in C!Stored
    <2>1. d \in C!Made /\ info' = info /\ mConnectedDevices'[info[d].id] = d
      BY <1>1, <1>4 DEF C!Forget, C!Stored
    <2>2. d # NoChannel
      BY <2>1, ProfilesAssumption DEF ProfilesAssumption, C!Made, C!SppAssumption
    <2> QED
      BY <2>1, <2>2, MadeInfo DEF C!Forget, C!Stored, C!TypeOK, C!Made
  <1> QED
    BY <1>1, <1>2, <1>3, <1>4

\* A channel made and exported at a free id.
LEMMA NewChannelInv ==
  ASSUME ChannelsInv, NEW c \in Channel, NEW id \in ChannelId, NEW client \in BOOLEAN,
         NEW uuid \in Uuid, C!NewChannel(c, id, client, uuid),
         UNCHANGED <<C!sockets, removedConnecting, links, released, channelDied>>
  PROVE  /\ C!SkeletonsStored' /\ OfMade' /\ SocketsReachable' /\ ConnectingReachable'
         /\ C!IdsAccounted' /\ C!ToldMatches'
  <1>1. CASE \E d \in mInterface : info[d].id = id
    <2>1. UNCHANGED <<C!tables, connecting>>
      BY <1>1 DEF C!NewChannel
    <2>2. C!Made' = C!Made /\ C!Stored' = C!Stored
      BY <2>1 DEF C!tables, C!Made, C!Stored
    <2>3. C!SkeletonsStored' /\ OfMade' /\ SocketsReachable' /\ ConnectingReachable'
      BY <2>1, <2>2 DEF ChannelsInv, C!tables, C!sockets, C!SkeletonsStored, OfMade, SocketsReachable,
         ConnectingReachable
    <2>4. removedConnecting \/ released
      BY <1>1 DEF C!NewChannel, ChannelsInv, C!IdsAccounted
    <2>5. C!IdsAccounted'
      BY <2>4 DEF C!IdsAccounted
    <2>6. C!ToldMatches'
      BY <2>1, <2>2 DEF ChannelsInv, C!ToldMatches, C!sockets, C!tables
    <2> QED
      BY <2>3, <2>5, <2>6
  <1>2. CASE ~\E d \in mInterface : info[d].id = id
    <2>1. /\ c \notin C!Made
          /\ mChannelIdList' = mChannelIdList \cup {id}
          /\ mConnectedDevices' = [mConnectedDevices EXCEPT ![id] = c]
          /\ info' = [info EXCEPT ![c] = [id |-> id, client |-> client, uuid |-> uuid]]
          /\ mInterface' = mInterface \cup {c}
          /\ connecting' \in {connecting, connecting \cup {c}}
          /\ idsRegistered' = idsRegistered \cup {id}
      BY <1>2 DEF C!NewChannel, C!Made
    <2>2. [id |-> id, client |-> client, uuid |-> uuid] # NoInfo
      BY ProfilesAssumption DEF ProfilesAssumption, C!SppAssumption, C!Info
    <2>3. C!Made' = C!Made \cup {c}
      BY <2>1, <2>2 DEF C!Made, ChannelsInv, C!TypeOK
    <2>4. info'[c].id = id /\ \A d \in C!Made : info'[d] = info[d]
      BY <2>1 DEF ChannelsInv, C!TypeOK, C!Made
    <2>5. C!Stored' = {d \in C!Stored : info[d].id # id} \cup {c}
      <3>1. c \in C!Stored'
        BY <2>1, <2>3, <2>4 DEF C!Stored, ChannelsInv, C!TypeOK
      <3>2. ASSUME NEW d \in C!Made
            PROVE  d \in C!Stored' <=> d \in C!Stored /\ info[d].id # id
        BY <2>1, <2>3, <2>4, MadeInfo DEF C!Stored, ChannelsInv, C!TypeOK
      <3> QED
        BY <2>3, <3>1, <3>2 DEF C!Stored
    <2>6. c \notin mInterface \cup mChannel \cup connecting
      BY <2>1 DEF ChannelsInv, C!SkeletonsStored, OfMade, C!Stored
    <2>7. C!SkeletonsStored'
      BY <1>2, <2>1, <2>5 DEF ChannelsInv, C!SkeletonsStored
    <2>8. OfMade'
      BY <2>1, <2>3 DEF ChannelsInv, OfMade, C!sockets
    <2>9. SocketsReachable'
      BY <2>1, <2>5 DEF ChannelsInv, SocketsReachable, C!sockets
    <2>10. ConnectingReachable'
      BY <2>1 DEF ChannelsInv, ConnectingReachable
    <2>11. {info'[d].id : d \in mInterface'} = {info[d].id : d \in mInterface} \cup {id}
      BY <2>1, <2>4 DEF ChannelsInv, C!SkeletonsStored, C!Stored
    <2>12. C!IdsAccounted'
      BY <2>1, <2>11 DEF ChannelsInv, C!IdsAccounted
    <2>13. C!Stored' \cap mChannel' = C!Stored \cap mChannel
      BY <1>2, <2>5, <2>6 DEF ChannelsInv, SocketsReachable, C!sockets
    <2>14. \A d \in C!Stored \cap mChannel : info'[d] = info[d]
      BY <2>4 DEF C!Stored
    <2>15. C!ToldMatches'
      BY <2>13, <2>14 DEF ChannelsInv, C!ToldMatches, C!sockets
    <2> QED
      BY <2>7, <2>8, <2>9, <2>10, <2>12, <2>15
  <1> QED
    BY <1>1, <1>2

\* A stored channel that goes with its skeleton, its socket and its place in what
\* the client was told; the socket of a removed channel stays open, unowned.
LEMMA LeaveInv ==
  ASSUME ChannelsInv, NEW c \in C!Stored,
         C!UnregisterProfile(info[c].id), C!UnrefInterface(c), C!TellClosed(c),
         C!Forget(info[c].id), mChannel' \in {mChannel, mChannel \ {c}},
         UNCHANGED <<mDeviceAddress, overwritten, connecting, released>>,
         removedConnecting' = (removedConnecting \/ c \in connecting)
  PROVE  /\ C!SkeletonsStored' /\ OfMade' /\ SocketsReachable' /\ ConnectingReachable'
         /\ C!IdsAccounted' /\ C!ToldMatches'
  <1>1. C!Stored' = C!Stored \ {c} /\ C!Made' = C!Made
    BY ForgetStored DEF ChannelsInv
  <1>2. info' = info /\ mInterface' = mInterface \ {c}
    BY DEF C!Forget, C!UnrefInterface
  <1>3. C!SkeletonsStored' /\ OfMade' /\ SocketsReachable'
    BY <1>1, <1>2 DEF ChannelsInv, C!SkeletonsStored, OfMade, SocketsReachable
  <1>4. ConnectingReachable'
    BY <1>2 DEF ChannelsInv, ConnectingReachable
  <1>5. C!IdsAccounted'
    <2>1. SUFFICES ASSUME ~removedConnecting', ~released'
                   PROVE  /\ mChannelIdList' = {info'[d].id : d \in mInterface'}
                          /\ idsRegistered' = mChannelIdList'
      BY DEF C!IdsAccounted
    <2>2. ~removedConnecting /\ ~released
      BY <2>1 DEF ChannelsInv, C!TypeOK
    <2>3. /\ mChannelIdList = {info[d].id : d \in mInterface}
          /\ idsRegistered = mChannelIdList
      BY <2>2 DEF ChannelsInv, C!IdsAccounted
    <2>4. \A d \in mInterface : info[d].id = info[c].id => d = c
      BY StoredDistinct DEF ChannelsInv, C!SkeletonsStored
    <2>5. mChannelIdList' = mChannelIdList \ {info[c].id}
      BY DEF C!Forget
    <2>6. idsRegistered' = idsRegistered \ {info[c].id}
      BY DEF C!UnregisterProfile
    <2> QED
      BY <1>2, <2>3, <2>4, <2>5, <2>6
  <1>6. C!ToldMatches'
    <2>1. SUFFICES ASSUME overwritten = {}, ~released
                   PROVE  channelsTold' = {<<mDeviceAddress[d], info[d].id>> :
                                     d \in (C!Stored \ {c}) \cap mChannel'}
      BY <1>1, <1>2 DEF C!ToldMatches
    <2>2. channelsTold = {<<mDeviceAddress[d], info[d].id>> : d \in C!Stored \cap mChannel}
      BY <2>1 DEF ChannelsInv, C!ToldMatches
    <2>3. channelsTold' = channelsTold \ {<<mDeviceAddress[c], info[c].id>>}
      BY DEF C!TellClosed
    <2>4. (C!Stored \ {c}) \cap mChannel' = (C!Stored \cap mChannel) \ {c}
      OBVIOUS
    <2>5. \A d \in C!Stored : info[d].id = info[c].id => d = c
      BY StoredDistinct
    <2> QED
      BY <2>2, <2>3, <2>4, <2>5
  <1> QED
    BY <1>3, <1>4, <1>5, <1>6

LEMMA ClientInv ==
  ASSUME ChannelsInv, C!ClientStep
  PROVE  ChannelsInv'
  <1>1. C!TypeOK'
    BY ClientType DEF ChannelsInv
  <1>2. ASSUME NEW c \in Channel, NEW id \in ChannelId, NEW uuid \in Uuid,
               C!CreateChannel(c, id, uuid) \/ C!ConnectUuid(c, id, uuid)
        PROVE  ChannelsInv'
    <2>1. PICK client \in BOOLEAN : C!NewChannel(c, id, client, uuid)
      BY <1>2 DEF C!CreateChannel, C!ConnectUuid
    <2>2. UNCHANGED <<C!sockets, removedConnecting, links, released, channelDied>>
      BY <1>2 DEF C!CreateChannel, C!ConnectUuid
    <2> QED
      BY <1>1, <2>1, <2>2, NewChannelInv DEF ChannelsInv
  <1>3. ASSUME NEW uuid \in Uuid, C!RemoveChannel(uuid)
        PROVE  ChannelsInv'
    <2>1. PICK c \in C!Stored :
            /\ C!UnregisterProfile(info[c].id)
            /\ C!UnrefInterface(c)
            /\ C!TellClosed(c)
            /\ C!Forget(info[c].id)
            /\ removedConnecting' = (removedConnecting \/ c \in connecting)
            /\ UNCHANGED <<mDeviceAddress, mChannel, watches, overwritten, connecting,
                           released>>
      BY <1>3 DEF C!RemoveChannel
    <2> QED
      BY <1>1, <2>1, LeaveInv DEF ChannelsInv
  <1> QED
    BY <1>2, <1>3 DEF C!ClientStep

\* The answer to a connect; a failed one gives back an id, its own as long as no
\* channel was removed while it was connecting.
LEMMA ConnectReplyInv ==
  ASSUME ChannelsInv, NEW c \in Channel, C!ConnectReply(c)
  PROVE  /\ C!SkeletonsStored' /\ OfMade' /\ SocketsReachable' /\ ConnectingReachable'
         /\ C!IdsAccounted' /\ C!ToldMatches'
  <1>1. /\ c \in connecting
        /\ connecting' = connecting \ {c}
        /\ UNCHANGED <<C!sockets, removedConnecting, released>>
    BY DEF C!ConnectReply
  <1>2. info' = info /\ mConnectedDevices' = mConnectedDevices
    BY DEF C!ConnectReply, C!tables
  <1>3. C!Made' = C!Made /\ C!Stored' = C!Stored
    BY <1>2 DEF C!Made, C!Stored
  <1>4. OfMade'
    BY <1>1, <1>3 DEF ChannelsInv, OfMade, C!sockets
  <1>5. C!ToldMatches'
    BY <1>1, <1>2, <1>3 DEF ChannelsInv, C!ToldMatches, C!sockets
  <1>6. CASE mDeviceAddress[c] # NoAddress
    <2>1. UNCHANGED <<C!tables, idsRegistered>>
      BY <1>6 DEF C!ConnectReply
    <2> QED
      BY <1>1, <1>3, <1>4, <1>5, <2>1
      DEF ChannelsInv, C!tables, C!sockets, C!SkeletonsStored, SocketsReachable, ConnectingReachable,
          C!IdsAccounted
  <1>7. CASE mDeviceAddress[c] = NoAddress
    <2>1. /\ mInterface' = mInterface \ {c}
          /\ mChannelIdList' = mChannelIdList \ {info[c].id}
          /\ idsRegistered' = idsRegistered \ {info[c].id}
      BY <1>7 DEF C!ConnectReply, C!UnrefInterface, C!UnregisterProfile
    <2>2. c \notin mChannel
      BY <1>7 DEF ChannelsInv, SocketsReachable
    <2>3. C!SkeletonsStored' /\ SocketsReachable' /\ ConnectingReachable'
      BY <1>1, <1>3, <2>1, <2>2
      DEF ChannelsInv, C!sockets, C!SkeletonsStored, SocketsReachable, ConnectingReachable
    <2>4. C!IdsAccounted'
      <3>1. SUFFICES ASSUME ~removedConnecting, ~released
                     PROVE  /\ mChannelIdList' = {info[d].id : d \in mInterface'}
                            /\ idsRegistered' = mChannelIdList'
        BY <1>1, <1>2 DEF C!IdsAccounted
      <3>2. /\ mChannelIdList = {info[d].id : d \in mInterface}
            /\ idsRegistered = mChannelIdList
        BY <3>1 DEF ChannelsInv, C!IdsAccounted
      <3>3. c \in mInterface
        BY <1>1, <3>1 DEF ChannelsInv, ConnectingReachable
      <3>4. \A d \in mInterface : info[d].id = info[c].id => d = c
        BY <3>3, StoredDistinct DEF ChannelsInv, C!SkeletonsStored
      <3> QED
        BY <2>1, <3>2, <3>4
    <2> QED
      BY <1>4, <1>5, <2>3, <2>4
  <1> QED
    BY <1>6, <1>7

\* A connection, which only adds to what the client was told while no socket is
\* overwritten.
LEMMA NewConnectionInv ==
  ASSUME ChannelsInv, NEW c \in Channel, NEW a \in Address, C!HandleNewConnection(c, a)
  PROVE  /\ C!SkeletonsStored' /\ OfMade' /\ SocketsReachable' /\ ConnectingReachable'
         /\ C!IdsAccounted' /\ C!ToldMatches'
  <1>1. /\ c \in mInterface
        /\ UNCHANGED <<C!tables, C!calls, idsRegistered, released>>
        /\ mDeviceAddress' = [mDeviceAddress EXCEPT ![c] = a]
        /\ mChannel' = mChannel \cup {c}
        /\ overwritten' = IF c \in mChannel THEN overwritten \cup {c} ELSE overwritten
        /\ channelsTold' = channelsTold \cup {<<a, info[c].id>>}
    BY DEF C!HandleNewConnection, C!Reachable
  <1>2. C!Made' = C!Made /\ C!Stored' = C!Stored /\ c \in C!Stored /\ c \in C!Made
    BY <1>1 DEF C!tables, C!Made, C!Stored, ChannelsInv, C!SkeletonsStored
  <1>3. C!SkeletonsStored' /\ OfMade' /\ ConnectingReachable' /\ C!IdsAccounted'
    BY <1>1, <1>2 DEF ChannelsInv, C!tables, C!calls, C!SkeletonsStored, OfMade, ConnectingReachable,
       C!IdsAccounted
  <1>4. a # NoAddress
    BY ProfilesAssumption DEF ProfilesAssumption, C!SppAssumption
  <1>5. /\ mDeviceAddress'[c] = a
        /\ \A d \in Channel : d # c => mDeviceAddress'[d] = mDeviceAddress[d]
    BY <1>1 DEF ChannelsInv, C!TypeOK
  <1>6. SocketsReachable'
    BY <1>1, <1>2, <1>4, <1>5 DEF ChannelsInv, SocketsReachable, C!tables, C!TypeOK
  <1>7. C!ToldMatches'
    <2>1. SUFFICES ASSUME overwritten' = {}, ~released
                   PROVE  channelsTold' = {<<mDeviceAddress'[d], info[d].id>> :
                                     d \in C!Stored \cap mChannel'}
      BY <1>1, <1>2 DEF C!ToldMatches, C!tables
    <2>2. overwritten = {} /\ c \notin mChannel
      BY <1>1, <2>1
    <2>3. channelsTold = {<<mDeviceAddress[d], info[d].id>> : d \in C!Stored \cap mChannel}
      BY <2>1, <2>2 DEF ChannelsInv, C!ToldMatches
    <2>4. C!Stored \cap mChannel' = (C!Stored \cap mChannel) \cup {c}
      BY <1>1, <1>2
    <2>5. \A d \in C!Stored \cap mChannel : mDeviceAddress'[d] = mDeviceAddress[d]
      BY <1>5, <2>2 DEF C!Stored, C!Made
    <2> QED
      BY <1>1, <1>5, <2>3, <2>4, <2>5
  <1> QED
    BY <1>3, <1>6, <1>7

\* A disconnection: a client channel leaves, a server channel loses its socket.
LEMMA RequestDisconnectionInv ==
  ASSUME ChannelsInv, NEW c \in Channel, C!HandleRequestDisconnection(c)
  PROVE  /\ C!SkeletonsStored' /\ OfMade' /\ SocketsReachable' /\ ConnectingReachable'
         /\ C!IdsAccounted' /\ C!ToldMatches'
  <1>1. /\ c \in C!Stored
        /\ c \notin connecting
        /\ C!TellClosed(c)
        /\ mChannel' = mChannel \ {c}
        /\ UNCHANGED <<mDeviceAddress, overwritten, connecting, removedConnecting, released>>
    BY DEF C!HandleRequestDisconnection, C!Reachable, ChannelsInv, C!SkeletonsStored, C!calls
  <1>2. CASE info[c].client
    <2>1. C!UnregisterProfile(info[c].id) /\ C!UnrefInterface(c) /\ C!Forget(info[c].id)
      BY <1>2 DEF C!HandleRequestDisconnection
    <2>2. removedConnecting' = (removedConnecting \/ c \in connecting)
      BY <1>1 DEF ChannelsInv, C!TypeOK
    <2> QED
      BY <1>1, <2>1, <2>2, LeaveInv
  <1>3. CASE ~info[c].client
    <2>1. UNCHANGED <<C!tables, idsRegistered>>
      BY <1>3 DEF C!HandleRequestDisconnection
    <2>2. C!Made' = C!Made /\ C!Stored' = C!Stored
      BY <2>1 DEF C!tables, C!Made, C!Stored
    <2>3. C!SkeletonsStored' /\ OfMade' /\ SocketsReachable' /\ ConnectingReachable'
      BY <1>1, <2>1, <2>2
      DEF ChannelsInv, C!tables, C!SkeletonsStored, OfMade, SocketsReachable, ConnectingReachable
    <2>4. C!IdsAccounted'
      BY <1>1, <2>1 DEF ChannelsInv, C!IdsAccounted, C!tables
    <2>5. C!ToldMatches'
      <3>1. SUFFICES ASSUME overwritten = {}, ~released
                     PROVE  channelsTold' = {<<mDeviceAddress[d], info[d].id>> :
                                       d \in C!Stored \cap (mChannel \ {c})}
        BY <1>1, <2>1, <2>2 DEF C!ToldMatches, C!tables
      <3>2. channelsTold = {<<mDeviceAddress[d], info[d].id>> : d \in C!Stored \cap mChannel}
        BY <3>1 DEF ChannelsInv, C!ToldMatches
      <3>3. channelsTold' = channelsTold \ {<<mDeviceAddress[c], info[c].id>>}
        BY <1>1 DEF C!TellClosed
      <3>4. \A d \in C!Stored : info[d].id = info[c].id => d = c
        BY <1>1, StoredDistinct
      <3> QED
        BY <3>2, <3>3, <3>4
    <2> QED
      BY <2>3, <2>4, <2>5
  <1> QED
    BY <1>2, <1>3

\* The release of the profiles empties the table.
LEMMA ReleaseInv ==
  ASSUME ChannelsInv, C!HandleRelease
  PROVE  /\ C!SkeletonsStored' /\ OfMade' /\ SocketsReachable' /\ ConnectingReachable'
         /\ C!IdsAccounted' /\ C!ToldMatches'
  <1>1. /\ mInterface' = mInterface \ C!Stored
        /\ mChannel' = mChannel \ C!Stored
        /\ mConnectedDevices' = [i \in ChannelId |-> NoChannel]
        /\ released'
        /\ UNCHANGED <<info, mDeviceAddress, connecting>>
    BY DEF C!HandleRelease, C!calls
  <1>2. mInterface' = {}
    BY <1>1 DEF ChannelsInv, C!SkeletonsStored
  <1>3. C!Made' = C!Made
    BY <1>1 DEF C!Made
  <1>4. C!Stored' = {}
    <2>1. \A c \in C!Made : c # NoChannel
      BY ProfilesAssumption DEF ProfilesAssumption, C!Made, C!SppAssumption
    <2>2. \A c \in C!Made : mConnectedDevices'[info'[c].id] = NoChannel
      BY <1>1, MadeInfo DEF ChannelsInv
    <2> QED
      BY <1>3, <2>1, <2>2 DEF C!Stored
  <1> QED
    BY <1>1, <1>2, <1>3, <1>4
    DEF ChannelsInv, C!SkeletonsStored, OfMade, SocketsReachable, ConnectingReachable, C!IdsAccounted,
        C!ToldMatches

LEMMA BluezInv ==
  ASSUME ChannelsInv, C!BluezStep
  PROVE  ChannelsInv'
  <1>1. C!TypeOK'
    BY BluezType DEF ChannelsInv
  <1>2. ASSUME NEW c \in Channel, C!ConnectReply(c)
        PROVE  ChannelsInv'
    BY <1>1, <1>2, ConnectReplyInv DEF ChannelsInv
  <1>3. ASSUME NEW c \in Channel, C!IoCallback(c)
        PROVE  ChannelsInv'
    BY <1>1, <1>3
    DEF C!IoCallback, C!tables, C!sockets, C!calls, C!external, ChannelsInv, C!SkeletonsStored, OfMade,
        SocketsReachable, ConnectingReachable, C!IdsAccounted, C!ToldMatches, C!Stored, C!Made
  <1>4. ASSUME NEW c \in Channel, NEW a \in Address, C!HandleNewConnection(c, a)
        PROVE  ChannelsInv'
    BY <1>1, <1>4, NewConnectionInv DEF ChannelsInv
  <1>5. ASSUME NEW c \in Channel, C!HandleRequestDisconnection(c)
        PROVE  ChannelsInv'
    BY <1>1, <1>5, RequestDisconnectionInv DEF ChannelsInv
  <1>6. ASSUME NEW c \in Channel, C!LoseLink(c)
        PROVE  ChannelsInv'
    BY <1>1, <1>6
    DEF C!LoseLink, C!tables, C!sockets, C!calls, ChannelsInv, C!SkeletonsStored, OfMade, SocketsReachable,
        ConnectingReachable, C!IdsAccounted, C!ToldMatches, C!Stored, C!Made
  <1>7. ASSUME C!HandleRelease
        PROVE  ChannelsInv'
    BY <1>1, <1>7, ReleaseInv DEF ChannelsInv
  <1> QED
    BY <1>2, <1>3, <1>4, <1>5, <1>6, <1>7 DEF C!BluezStep

LEMMA ChannelsNext == ChannelsInv /\ [C!Next]_(C!vars) => ChannelsInv'
  <1> SUFFICES ASSUME ChannelsInv, [C!Next]_(C!vars) PROVE ChannelsInv'
    OBVIOUS
  <1>1. CASE C!Next
    BY <1>1, ClientInv, BluezInv DEF C!Next
  <1>2. CASE UNCHANGED C!vars
    BY <1>2 DEF C!vars, C!tables, C!sockets, C!calls, C!external, ChannelsInv, C!TypeOK, C!SkeletonsStored,
       OfMade, SocketsReachable, ConnectingReachable, C!IdsAccounted, C!ToldMatches, C!Stored, C!Made
  <1> QED
    BY <1>1, <1>2

LEMMA ChannelsAlways == Spec => []ChannelsInv
  <1>1. Init => ChannelsInv
    BY ChannelsInit DEF Init
  <1>2. ChannelsInv /\ [Next]_vars => ChannelsInv'
    <2> SUFFICES ASSUME ChannelsInv, [Next]_vars
                 PROVE  ChannelsInv'
      OBVIOUS
    <2>1. C!Next \/ UNCHANGED channelVars
      BY DEF Next, vars
    <2>2. [C!Next]_(C!vars)
      BY <2>1 DEF channelVars, C!vars, C!tables, C!sockets, C!calls, C!external
    <2> QED
      BY <2>2, ChannelsNext
  <1> QED
    BY <1>1, <1>2, PTL DEF Spec

\* However connects fail, channels are removed and BlueZ disconnects, the pool of channel
\* ids holds what no channel has (but for a removal during a connect, and after the
\* release), and BlueZ never calls a skeleton whose channel is deleted.
THEOREM PoolAccounted == Spec => []IdsAccounted
  <1>1. ChannelsInv => IdsAccounted
    BY DEF ChannelsInv, IdsAccounted
  <1> QED
    BY <1>1, ChannelsAlways, PTL

\* The client's view of the connections is that of the channels.
THEOREM ViewOfChannels == Spec => []ToldMatches
  <1>1. ChannelsInv => ToldMatches
    BY DEF ChannelsInv, ToldMatches
  <1> QED
    BY <1>1, ChannelsAlways, PTL

(***************************************************************************)
(* Remote players.                                                         *)
(***************************************************************************)
\* One player of the list is the addressed one, or none is.
Addressed(list, player) ==
    /\ \A i \in DOMAIN list : list[i].addressed => list[i].path = player
    /\ \A i, j \in DOMAIN list : list[i].addressed /\ list[j].addressed => i = j
    /\ player # NoPlayer => \E i \in DOMAIN list : list[i].addressed

PlayersInv ==
    /\ mMediaPlayerList \in Seq(P!PlayerInfo)
    /\ playersTold = mMediaPlayerList
    /\ Addressed(mMediaPlayerList, mAddressedMediaPlayer)

LEMMA PlayerFacts ==
  ASSUME NEW list \in Seq(P!PlayerInfo)
  PROVE  /\ Len(list) \in Nat /\ DOMAIN list = 1..Len(list)
         /\ list \in [1..Len(list) -> P!PlayerInfo]
         /\ \A i \in DOMAIN list : /\ list[i] \in P!PlayerInfo
                                   /\ list[i].path \in Players
                                   /\ list[i].addressed \in BOOLEAN
  <1>1. Len(list) \in Nat /\ DOMAIN list = 1..Len(list) /\ list \in [1..Len(list) -> P!PlayerInfo]
    BY LenProperties
  <1> QED
    BY <1>1 DEF P!PlayerInfo

LEMMA AddPlayer ==
  ASSUME PlayersInv, NEW p \in Players, NEW name \in Names, P!AddMediaPlayer(p, name)
  PROVE  PlayersInv'
  <1> DEFINE list == mMediaPlayerList
             others == [i \in DOMAIN list |-> [list[i] EXCEPT !.addressed = FALSE]]
             player == [path |-> p, addressed |-> TRUE, name |-> name]
             longer == Append(others, player)
  <1>1. Len(list) \in Nat /\ DOMAIN list = 1..Len(list)
    BY PlayerFacts DEF PlayersInv
  <1>2. player \in P!PlayerInfo
    BY DEF P!PlayerInfo
  <1>3. ASSUME NEW i \in DOMAIN list
        PROVE  others[i] \in P!PlayerInfo /\ ~others[i].addressed
    <2>1. list[i] \in P!PlayerInfo
      BY PlayerFacts DEF PlayersInv
    <2> QED
      BY <2>1 DEF P!PlayerInfo
  <1>4. others \in Seq(P!PlayerInfo) /\ Len(others) = Len(list)
    <2>1. others \in [1..Len(list) -> P!PlayerInfo]
      BY <1>1, <1>3
    <2>2. others \in Seq(P!PlayerInfo)
      BY <1>1, <2>1, SeqDef
    <2>3. DOMAIN others = 1..Len(others) /\ Len(others) \in Nat
      BY <2>2, PlayerFacts
    <2>4. DOMAIN others = 1..Len(list)
      BY <1>1
    <2> QED
      BY <1>1, <2>2, <2>3, <2>4
  <1> HIDE DEF others, player
  <1>5. /\ longer \in Seq(P!PlayerInfo)
        /\ Len(longer) = Len(list) + 1
        /\ \A i \in 1..Len(list) : longer[i] = others[i]
        /\ longer[Len(list) + 1] = player
    BY <1>2, <1>4, AppendProperties
  <1>6. DOMAIN longer = 1..Len(list) + 1
    BY <1>5, PlayerFacts
  <1>7. player.addressed /\ player.path = p
    BY DEF player
  <1> HIDE DEF longer
  <1>8. Addressed(longer, p)
    <2>1. \A i \in DOMAIN longer : longer[i].addressed <=> i = Len(list) + 1
      BY <1>1, <1>3, <1>5, <1>6, <1>7
    <2>2. Len(list) + 1 \in DOMAIN longer
      BY <1>1, <1>6
    <2> QED
      BY <1>5, <1>7, <2>1, <2>2 DEF Addressed
  <1>9. mMediaPlayerList' = longer /\ mAddressedMediaPlayer' = p /\ playersTold' = longer
    BY DEF P!AddMediaPlayer, P!UpdatePlayerInfo, longer, others, player
  <1> QED
    BY <1>5, <1>8, <1>9 DEF PlayersInv

LEMMA RemovePlayer ==
  ASSUME PlayersInv, NEW i, P!RemoveMediaPlayer(i)
  PROVE  PlayersInv'
  <1> DEFINE list == mMediaPlayerList
             rest == P!RemoveAt(list, i)
             player == IF list[i].addressed THEN NoPlayer ELSE mAddressedMediaPlayer
  <1>1. Len(list) \in Nat /\ DOMAIN list = 1..Len(list) /\ i \in 1..Len(list)
    BY PlayerFacts DEF PlayersInv, P!RemoveMediaPlayer
  <1>2. rest = M!RemoveAt(list, i)
    BY DEF P!RemoveAt, M!RemoveAt
  <1>3. /\ rest \in Seq(P!PlayerInfo)
        /\ Len(rest) = Len(list) - 1
        /\ \A j \in 1..(Len(list) - 1) : rest[j] = IF j < i THEN list[j] ELSE list[j + 1]
    BY <1>1, <1>2, RemoveAtElements DEF PlayersInv
  <1>4. mMediaPlayerList' = rest /\ mAddressedMediaPlayer' = player /\ playersTold' = rest
    BY DEF P!RemoveMediaPlayer, P!UpdatePlayerInfo
  <1> HIDE DEF rest
  <1>5. DOMAIN rest = 1..(Len(list) - 1)
    BY <1>3, PlayerFacts
  <1> DEFINE was(j) == IF j < i THEN j ELSE j + 1
  <1>6. \A j \in DOMAIN rest : was(j) \in DOMAIN list \ {i} /\ rest[j] = list[was(j)]
    BY <1>1, <1>3, <1>5
  <1>7. \A j, k \in DOMAIN rest : was(j) = was(k) => j = k
    BY <1>1, <1>5
  <1>8. \A k \in DOMAIN list \ {i} : \E j \in DOMAIN rest : was(j) = k
    <2> TAKE k \in DOMAIN list \ {i}
    <2>1. (IF k < i THEN k ELSE k - 1) \in DOMAIN rest
      BY <1>1, <1>5
    <2>2. was(IF k < i THEN k ELSE k - 1) = k
      BY <1>1
    <2> QED
      BY <2>1, <2>2
  <1> HIDE DEF was
  <1>9. Addressed(rest, player)
    <2>1. CASE list[i].addressed
      BY <1>1, <1>6, <2>1 DEF PlayersInv, Addressed
    <2>2. CASE ~list[i].addressed
      BY <1>1, <1>6, <1>7, <1>8, <2>2 DEF PlayersInv, Addressed
    <2> QED
      BY <2>1, <2>2
  <1> QED
    BY <1>3, <1>4, <1>9 DEF PlayersInv

LEMMA RenamePlayer ==
  ASSUME PlayersInv, NEW i, NEW name \in Names, P!UpdatePlayerProperties(i, name)
  PROVE  PlayersInv'
  <1> DEFINE list == mMediaPlayerList
             new == [list EXCEPT ![i].name = name]
  <1>1. list \in Seq(P!PlayerInfo) /\ i \in 1..Len(list) /\ DOMAIN list = 1..Len(list)
    BY PlayerFacts DEF PlayersInv, P!UpdatePlayerProperties
  <1>2. [list[i] EXCEPT !.name = name] \in P!PlayerInfo
    <2>1. list[i] \in P!PlayerInfo
      BY <1>1, PlayerFacts
    <2> QED
      BY <2>1 DEF P!PlayerInfo
  <1>3. new = [list EXCEPT ![i] = [list[i] EXCEPT !.name = name]]
    BY <1>1
  <1>4. /\ new \in Seq(P!PlayerInfo)
        /\ Len(new) = Len(list)
    BY <1>1, <1>2, <1>3, ExceptSeq
  <1>5. \A j \in DOMAIN list : /\ new[j].path = list[j].path
                               /\ new[j].addressed = list[j].addressed
    BY <1>1, PlayerFacts DEF P!PlayerInfo
  <1>6. DOMAIN new = DOMAIN list
    OBVIOUS
  <1>7. /\ mMediaPlayerList' = new /\ playersTold' = new
        /\ mAddressedMediaPlayer' = mAddressedMediaPlayer
    BY DEF P!UpdatePlayerProperties, P!UpdatePlayerInfo
  <1> HIDE DEF new
  <1>8. Addressed(new, mAddressedMediaPlayer)
    BY <1>5, <1>6 DEF PlayersInv, Addressed
  <1> QED
    BY <1>4, <1>7, <1>8 DEF PlayersInv

LEMMA PlayersAlways == Spec => []PlayersInv
  <1>1. Init => PlayersInv
    <2> SUFFICES ASSUME Init PROVE PlayersInv
      OBVIOUS
    <2>1. mMediaPlayerList = <<>> /\ playersTold = <<>> /\ mAddressedMediaPlayer = NoPlayer
      BY DEF Init, P!Init
    <2>2. mMediaPlayerList \in Seq(P!PlayerInfo) /\ DOMAIN mMediaPlayerList = {}
      BY <2>1, EmptySeq, PlayerFacts
    <2> QED
      BY <2>1, <2>2 DEF PlayersInv, Addressed
  <1>2. PlayersInv /\ [Next]_vars => PlayersInv'
    <2> SUFFICES ASSUME PlayersInv, [Next]_vars
                 PROVE  PlayersInv'
      OBVIOUS
    <2>1. P!Next \/ UNCHANGED playersVars
      BY DEF Next, vars
    <2>2. CASE P!Next
      BY <2>2, AddPlayer, RemovePlayer, RenamePlayer DEF P!Next
    <2>3. CASE UNCHANGED playersVars
      BY <2>3 DEF playersVars, PlayersInv
    <2> QED
      BY <2>1, <2>2, <2>3
  <1> QED
    BY <1>1, <1>2, PTL DEF Spec

LEMMA PlayersKnown == PlayersInv => P!PlayersTold
  <1> SUFFICES ASSUME PlayersInv PROVE P!PlayersTold
    OBVIOUS
  <1>1. NoPlayer \notin Players
    BY ProfilesAssumption DEF ProfilesAssumption, P!MediaPlayersAssumption
  <1>2. \A i \in DOMAIN mMediaPlayerList : mMediaPlayerList[i].path \in Players
    BY PlayerFacts DEF PlayersInv
  <1> QED
    BY <1>1, <1>2 DEF PlayersInv, Addressed, P!PlayersTold

(***************************************************************************)
(* Media connections.  While devices come one at a time each flag of the   *)
(* profiles is that of the one there is.                                   *)
(***************************************************************************)
Streaming == {d \in Devices : "STREAM" \in mConnectedUuids[d]}
Controlled == {d \in Devices : mConnectedUuids[d] \intersect L!AvrcpUuids # {}}

\* What BlueZ has.
LinksTyped ==
    /\ mConnectedUuids \in [Devices -> SUBSET L!Uuids]
    /\ transports \subseteq Devices
    /\ watched \subseteq transports
    /\ overlap \in 0..MaxOverlap

Alone == \A d, e \in L!Present : d = e

\* A2DP holds the transport there is, and knows whether it plays.
StreamOfOne ==
    /\ heard.stream = Streaming
    /\ heard.playing \subseteq heard.stream
    /\ heard.playing # {} => a2dp.playing
    /\ watched # {} => a2dp.interface \in watched

\* AVRCP is connected while it has a role.
ControlOfOne ==
    /\ heard.control = Controlled
    /\ avrcp.controller <=> \E d \in Devices : "AVRCP_TARGET" \in mConnectedUuids[d]
    /\ avrcp.target <=> \E d \in Devices : "AVRCP_REMOTE" \in mConnectedUuids[d]
    /\ avrcp.connected <=> avrcp.controller \/ avrcp.target

\* The records that hold the flags.
Flags ==
    /\ a2dp \in [connected : BOOLEAN, playing : BOOLEAN,
                 interface : Devices \union {NoDevice}, proxy : Devices \union {NoDevice}]
    /\ avrcp \in [controller : BOOLEAN, target : BOOLEAN, connected : BOOLEAN,
                  address : Devices \union {NoDevice}]
    /\ heard \in [stream : SUBSET Devices, control : SUBSET Devices, playing : SUBSET Devices]

LinksInv == LinksTyped /\ Flags /\ (overlap = 0 => Alone /\ StreamOfOne /\ ControlOfOne)

\* The size of a set is the same under the name the instance gives it.
LEMMA SameSize ==
  ASSUME NEW T
  PROVE  L!Cardinality(T) = Cardinality(T)
  BY Zenon DEF Cardinality, L!Cardinality

LEMMA AtMostOne ==
  ASSUME NEW T, IsFiniteSet(T), Cardinality(T) <= 1
  PROVE  \A x, y \in T : x = y
  <1> SUFFICES ASSUME NEW x \in T, NEW y \in T, x # y PROVE FALSE
    OBVIOUS
  <1>1. /\ IsFiniteSet(T \ {x})
        /\ Cardinality(T \ {x}) = Cardinality(T) - 1
        /\ Cardinality(T) \in Nat /\ Cardinality(T \ {x}) \in Nat
    <2>1. IsFiniteSet(T \ {x}) /\ Cardinality(T \ {x}) = Cardinality(T) - 1
      BY FS_RemoveElement
    <2> QED
      BY <2>1, FS_CardinalityType
  <1>2. Cardinality(T \ {x}) = 0
    BY <1>1
  <1> QED
    BY <1>1, <1>2, FS_EmptySet

\* A set of profiles that has grown, or shrunk, has more of them, or fewer.
LEMMA MoreProfiles ==
  ASSUME NEW X \in SUBSET L!Uuids, NEW Y \in SUBSET L!Uuids, X \subseteq Y, X # Y
  PROVE  Cardinality(X) < Cardinality(Y) /\ ~(Cardinality(X) > Cardinality(Y))
  <1>1. IsFiniteSet(L!Uuids)
    <2>1. IsFiniteSet({} \union {"STREAM"} \union {"AVRCP_TARGET"} \union {"AVRCP_REMOTE"})
      BY FS_EmptySet, FS_AddElement
    <2>2. L!Uuids = {} \union {"STREAM"} \union {"AVRCP_TARGET"} \union {"AVRCP_REMOTE"}
      BY DEF L!Uuids
    <2> QED
      BY <2>1, <2>2
  <1>2. IsFiniteSet(Y)
    BY <1>1, FS_Subset
  <1>3. IsFiniteSet(X) /\ Cardinality(X) <= Cardinality(Y) /\ Cardinality(X) # Cardinality(Y)
    BY <1>2, FS_Subset
  <1> QED
    BY <1>2, <1>3, FS_CardinalityType

\* What a device gains and loses, as the code compares them.
LEMMA Compared ==
  ASSUME NEW X \in SUBSET L!Uuids, NEW Y \in SUBSET L!Uuids, X # Y,
         X \subseteq Y \/ Y \subseteq X
  PROVE  /\ (IF L!Cardinality(X) < L!Cardinality(Y) THEN Y \ X ELSE {}) = Y \ X
         /\ (IF L!Cardinality(X) > L!Cardinality(Y) THEN X \ Y ELSE {}) = X \ Y
  <1>1. CASE X \subseteq Y
    BY <1>1, MoreProfiles, SameSize
  <1>2. CASE Y \subseteq X
    BY <1>2, MoreProfiles, SameSize
  <1> QED
    BY <1>1, <1>2

LEMMA LinksTypedNext ==
  ASSUME LinksTyped, L!Next
  PROVE  LinksTyped'
  <1> PICK d \in Devices :
         /\ L!Change(d)
         /\ overlap' = IF overlap = 0 /\ L!Cardinality(L!Present') <= 1 /\ L!Grown(d) THEN 0
                       ELSE overlap + 1
    BY DEF L!Next
  <1> USE DEF LinksTyped
  <1>0. MaxOverlap \in Nat /\ overlap < MaxOverlap
    BY ProfilesAssumption DEF ProfilesAssumption, L!MediaLinksAssumption, L!Next
  <1>1. overlap' \in 0..MaxOverlap
    BY <1>0
  <1>2. CASE \E uuids \in SUBSET L!Uuids : L!ConnectedUuidsChanged(d, uuids)
    BY <1>1, <1>2 DEF L!ConnectedUuidsChanged, L!transportVars
  <1>3. CASE L!TransportAdded(d)
    BY <1>1, <1>3 DEF L!TransportAdded
  <1>4. CASE L!TransportRemoved(d)
    BY <1>1, <1>4 DEF L!TransportRemoved
  <1>5. CASE \E active \in BOOLEAN : L!TransportChanged(d, active)
    BY <1>1, <1>5 DEF L!TransportChanged, L!transportVars
  <1> QED
    BY <1>2, <1>3, <1>4, <1>5 DEF L!Change

LEMMA FlagsNext ==
  ASSUME LinksTyped, Flags, L!Next
  PROVE  Flags'
  <1> PICK d \in Devices : L!Change(d)
    BY DEF L!Next
  <1> USE DEF Flags, LinksTyped
  <1>1. ASSUME NEW uuids \in SUBSET L!Uuids, L!ConnectedUuidsChanged(d, uuids)
        PROVE  Flags'
    <2> DEFINE prev == mConnectedUuids[d]
               added == IF L!Cardinality(prev) < L!Cardinality(uuids) THEN uuids \ prev ELSE {}
               removed == IF L!Cardinality(prev) > L!Cardinality(uuids) THEN prev \ uuids ELSE {}
               s == L!StreamStatus(d, added, removed)
               c == L!ControlStatus(d, added, removed)
    <2>1. /\ a2dp' = s.a2dp
          /\ avrcp' = c.avrcp
          /\ heard' = [heard EXCEPT !.stream = s.stream, !.playing = s.playing,
                                    !.control = c.control]
      BY <1>1 DEF L!ConnectedUuidsChanged, L!UpdateProfileConnectionStatus
    <2> HIDE DEF added, removed
    <2>2. /\ s.a2dp \in [connected : BOOLEAN, playing : BOOLEAN,
                         interface : Devices \union {NoDevice}, proxy : Devices \union {NoDevice}]
          /\ s.stream \in SUBSET Devices /\ s.playing \in SUBSET Devices
      BY DEF L!StreamStatus
    <2>3. L!Roles(added, removed) \in
            [controller : BOOLEAN, target : BOOLEAN, connected : BOOLEAN,
             address : Devices \union {NoDevice}]
      BY DEF L!Roles
    <2>4. /\ c.avrcp \in [controller : BOOLEAN, target : BOOLEAN, connected : BOOLEAN,
                          address : Devices \union {NoDevice}]
          /\ c.control \in SUBSET Devices
      BY <2>3 DEF L!ControlStatus
    <2> HIDE DEF s, c
    <2> QED
      BY <2>1, <2>2, <2>4
  <1>2. CASE L!TransportAdded(d)
    BY <1>2 DEF L!TransportAdded
  <1>3. CASE L!TransportRemoved(d)
    BY <1>3 DEF L!TransportRemoved
  <1>4. ASSUME NEW active \in BOOLEAN, L!TransportChanged(d, active)
        PROVE  Flags'
    BY <1>4 DEF L!TransportChanged
  <1> QED
    BY <1>1, <1>2, <1>3, <1>4 DEF L!Change

\* A device gains or loses profiles, and no other has any.
LEMMA ChangedOfOne ==
  ASSUME LinksTyped, Flags, Alone, StreamOfOne, ControlOfOne, NEW d \in Devices,
         NEW uuids \in SUBSET L!Uuids, L!ConnectedUuidsChanged(d, uuids), Alone', L!Grown(d)
  PROVE  StreamOfOne' /\ ControlOfOne'
  <1> DEFINE prev == mConnectedUuids[d]
             added == IF L!Cardinality(prev) < L!Cardinality(uuids) THEN uuids \ prev ELSE {}
             removed == IF L!Cardinality(prev) > L!Cardinality(uuids) THEN prev \ uuids ELSE {}
             s == L!StreamStatus(d, added, removed)
             c == L!ControlStatus(d, added, removed)
  <1>1. /\ uuids # prev
        /\ mConnectedUuids' = [mConnectedUuids EXCEPT ![d] = uuids]
        /\ UNCHANGED <<transports, watched>>
        /\ a2dp' = s.a2dp
        /\ avrcp' = c.avrcp
        /\ heard' = [heard EXCEPT !.stream = s.stream, !.playing = s.playing,
                                  !.control = c.control]
    BY DEF L!ConnectedUuidsChanged, L!UpdateProfileConnectionStatus, L!transportVars
  <1>2. prev \in SUBSET L!Uuids /\ mConnectedUuids'[d] = uuids
        /\ \A e \in Devices \ {d} : mConnectedUuids'[e] = mConnectedUuids[e]
    BY <1>1 DEF LinksTyped
  <1>3. added = uuids \ prev /\ removed = prev \ uuids
    <2>1. prev \subseteq uuids \/ uuids \subseteq prev
      BY <1>2 DEF L!Grown
    <2> HIDE DEF prev
    <2> QED
      BY <1>1, <1>2, <2>1, Compared
  <1>4. \A e \in Devices \ {d} : mConnectedUuids[e] = {} /\ mConnectedUuids'[e] = {}
    <2> TAKE e \in Devices \ {d}
    <2>1. CASE uuids # {}
      <3>1. d \in L!Present'
        BY <1>2, <2>1 DEF L!Present
      <3> QED
        BY <1>2, <3>1 DEF Alone, L!Present
    <2>2. CASE uuids = {}
      <3>1. d \in L!Present
        BY <1>1, <2>2 DEF L!Present
      <3> QED
        BY <1>2, <3>1 DEF Alone, L!Present
    <2> QED
      BY <2>1, <2>2
  <1> HIDE DEF added, removed
  <1>5. /\ heard'.stream = s.stream /\ heard'.playing = s.playing /\ heard'.control = c.control
    BY <1>1 DEF Flags
  \* Streaming
  <1>6. Streaming = (IF "STREAM" \in prev THEN {d} ELSE {})
        /\ Streaming' = (IF "STREAM" \in uuids THEN {d} ELSE {})
    BY <1>2, <1>4 DEF Streaming
  <1>7. heard.stream = Streaming /\ heard.playing \subseteq Streaming
    BY DEF StreamOfOne
  <1>8. s.a2dp.interface = a2dp.interface
    BY DEF L!StreamStatus, Flags
  <1>10. /\ s.stream = Streaming'
         /\ s.playing \subseteq s.stream
         /\ s.playing # {} => s.a2dp.playing
    <2>1. CASE "STREAM" \in added
      <3>1. s.stream = heard.stream \union {d} /\ s.playing = heard.playing
            /\ s.a2dp.playing = a2dp.playing
        BY <2>1 DEF L!StreamStatus, Flags
      <3> QED
        BY <1>3, <1>6, <1>7, <2>1, <3>1 DEF StreamOfOne
    <2>2. CASE "STREAM" \in removed
      <3>1. "STREAM" \notin added
        BY <1>3, <2>2
      <3>2. s.stream = heard.stream \ {d}
            /\ s.playing = IF a2dp.playing THEN heard.playing \ {d} ELSE heard.playing
        BY <2>2, <3>1 DEF L!StreamStatus, Flags
      <3>3. heard.playing \subseteq {d} /\ (heard.playing # {} => a2dp.playing)
        BY <1>6, <1>7 DEF StreamOfOne
      <3>4. s.playing = {}
        BY <3>2, <3>3
      <3> QED
        BY <1>3, <1>6, <1>7, <2>2, <3>2, <3>4
    <2>3. CASE "STREAM" \notin added \union removed
      <3>1. s.stream = heard.stream /\ s.playing = heard.playing /\ s.a2dp = a2dp
        BY <2>3 DEF L!StreamStatus
      <3>2. "STREAM" \in uuids <=> "STREAM" \in prev
        BY <1>3, <2>3
      <3> QED
        BY <1>6, <1>7, <3>1, <3>2 DEF StreamOfOne
    <2> QED
      BY <2>1, <2>2, <2>3
  <1>11. StreamOfOne'
    BY <1>1, <1>5, <1>8, <1>10 DEF StreamOfOne
  \* Remote control
  <1> DEFINE roles == L!Roles(added, removed)
  <1>12. /\ Controlled = (IF prev \intersect L!AvrcpUuids # {} THEN {d} ELSE {})
         /\ Controlled' = (IF uuids \intersect L!AvrcpUuids # {} THEN {d} ELSE {})
    BY <1>2, <1>4 DEF Controlled
  <1>13. /\ avrcp.controller <=> "AVRCP_TARGET" \in prev
         /\ avrcp.target <=> "AVRCP_REMOTE" \in prev
         /\ avrcp.connected <=> prev \intersect L!AvrcpUuids # {}
    BY <1>4 DEF ControlOfOne, L!AvrcpUuids
  <1>14. /\ roles.controller <=> "AVRCP_TARGET" \in uuids
         /\ roles.target <=> "AVRCP_REMOTE" \in uuids
         /\ roles.connected = avrcp.connected
         /\ L!RoleLeft(roles) <=> uuids \intersect L!AvrcpUuids # {}
    <2>1. /\ roles.controller = ((avrcp.controller \/ "AVRCP_TARGET" \in added)
                                 /\ "AVRCP_TARGET" \notin removed)
          /\ roles.target = ((avrcp.target \/ "AVRCP_REMOTE" \in added)
                             /\ "AVRCP_REMOTE" \notin removed)
          /\ roles.connected = avrcp.connected
      BY DEF L!Roles, Flags
    <2> HIDE DEF roles
    <2>2. /\ roles.controller <=> "AVRCP_TARGET" \in uuids
          /\ roles.target <=> "AVRCP_REMOTE" \in uuids
      BY <1>3, <1>13, <2>1
    <2> QED
      BY <2>1, <2>2 DEF L!RoleLeft, L!AvrcpUuids
  <1>15. /\ c.avrcp.controller = roles.controller
         /\ c.avrcp.target = roles.target
         /\ c.avrcp.connected <=> uuids \intersect L!AvrcpUuids # {}
         /\ c.control = Controlled'
    <2>0. roles \in [controller : BOOLEAN, target : BOOLEAN, connected : BOOLEAN,
                     address : Devices \union {NoDevice}]
      BY DEF L!Roles, Flags
    <2>1. heard.control = Controlled
      BY DEF ControlOfOne
    <2>2. CASE added \intersect L!AvrcpUuids # {} /\ ~avrcp.connected
      <3>1. /\ c.avrcp = [roles EXCEPT !.connected = TRUE, !.address = d]
            /\ c.control = heard.control \union {d}
        BY <2>2 DEF L!ControlStatus
      <3> HIDE DEF roles, c
      <3>2. /\ c.avrcp.controller = roles.controller /\ c.avrcp.target = roles.target
            /\ c.avrcp.connected = TRUE
        BY <2>0, <3>1
      <3> QED
        BY <1>3, <1>12, <2>1, <2>2, <3>1, <3>2
    <2>3. CASE removed \intersect L!AvrcpUuids # {} /\ avrcp.connected /\ ~L!RoleLeft(roles)
      <3>1. /\ c.avrcp = [roles EXCEPT !.connected = FALSE, !.address = NoDevice]
            /\ c.control = heard.control \ {d}
        BY <2>3 DEF L!ControlStatus
      <3> HIDE DEF roles, c
      <3>2. /\ c.avrcp.controller = roles.controller /\ c.avrcp.target = roles.target
            /\ c.avrcp.connected = FALSE
        BY <2>0, <3>1
      <3> QED
        BY <1>12, <1>14, <2>1, <2>3, <3>1, <3>2
    <2>4. CASE /\ ~(added \intersect L!AvrcpUuids # {} /\ ~avrcp.connected)
               /\ ~(removed \intersect L!AvrcpUuids # {} /\ avrcp.connected /\ ~L!RoleLeft(roles))
      <3>1. c.avrcp = roles /\ c.control = heard.control
        BY <2>4 DEF L!ControlStatus
      <3>2. avrcp.connected <=> uuids \intersect L!AvrcpUuids # {}
        BY <1>3, <1>13, <1>14, <2>4
      <3> QED
        BY <1>12, <1>13, <1>14, <2>1, <3>1, <3>2
    <2> QED
      BY <2>2, <2>3, <2>4
  <1>16. ControlOfOne'
    <2> HIDE DEF roles, c
    <2>1. /\ avrcp'.controller <=> "AVRCP_TARGET" \in uuids
          /\ avrcp'.target <=> "AVRCP_REMOTE" \in uuids
          /\ avrcp'.connected <=> uuids \intersect L!AvrcpUuids # {}
      BY <1>1, <1>14, <1>15
    <2>2. \A x : (\E e \in Devices : x \in mConnectedUuids'[e]) <=> x \in uuids
      BY <1>2, <1>4
    <2>3. heard'.control = Controlled'
      BY <1>5, <1>15
    <2> QED
      BY <2>1, <2>2, <2>3 DEF ControlOfOne, L!AvrcpUuids
  <1> QED
    BY <1>11, <1>16

LEMMA LinksNext ==
  ASSUME LinksInv, [L!Next]_(L!vars)
  PROVE  LinksInv'
  <1>1. CASE UNCHANGED L!vars
    BY <1>1
    DEF L!vars, LinksInv, LinksTyped, Flags, Alone, StreamOfOne, ControlOfOne, Streaming,
        Controlled, L!Present
  <1>2. CASE L!Next
    <2>1. LinksTyped' /\ Flags'
      BY <1>2, LinksTypedNext, FlagsNext DEF LinksInv
    <2>2. ASSUME overlap' = 0
          PROVE  Alone' /\ StreamOfOne' /\ ControlOfOne'
      <3>1. PICK d \in Devices :
              /\ L!Change(d)
              /\ overlap' = IF overlap = 0 /\ L!Cardinality(L!Present') <= 1 /\ L!Grown(d) THEN 0
                            ELSE overlap + 1
        BY <1>2 DEF L!Next
      <3>2. overlap = 0 /\ L!Cardinality(L!Present') <= 1 /\ L!Grown(d)
        BY <2>2, <3>1 DEF LinksInv, LinksTyped
      <3>3. Alone /\ StreamOfOne /\ ControlOfOne /\ LinksTyped /\ Flags
        BY <3>2 DEF LinksInv
      <3>4. Alone'
        <4>1. IsFiniteSet(Devices)
          BY ProfilesAssumption, Zenon
          DEF ProfilesAssumption, L!MediaLinksAssumption, IsFiniteSet, L!IsFiniteSet
        <4>2. L!Present' \in SUBSET Devices
          BY DEF L!Present
        <4>3. IsFiniteSet(L!Present')
          BY <4>1, <4>2, FS_Subset
        <4> QED
          BY <3>2, <4>3, SameSize, AtMostOne DEF Alone
      <3>5. ASSUME NEW uuids \in SUBSET L!Uuids, L!ConnectedUuidsChanged(d, uuids)
            PROVE  StreamOfOne' /\ ControlOfOne'
        BY <3>2, <3>3, <3>4, <3>5, ChangedOfOne
      <3>6. ASSUME UNCHANGED <<mConnectedUuids, avrcp>>, heard'.control = heard.control
            PROVE  ControlOfOne'
        BY <3>3, <3>6 DEF ControlOfOne, Controlled
      <3>7. UNCHANGED mConnectedUuids => UNCHANGED Streaming
        BY DEF Streaming
      <3>8. CASE L!TransportAdded(d)
        <4>1. /\ UNCHANGED <<mConnectedUuids, avrcp, heard>>
              /\ watched' = watched \union {d}
              /\ a2dp' = [a2dp EXCEPT !.interface = d, !.proxy = d]
          BY <3>8 DEF L!TransportAdded
        <4>2. a2dp'.interface = d /\ a2dp'.playing = a2dp.playing
          BY <3>3, <4>1 DEF Flags
        <4> QED
          BY <3>3, <3>4, <3>6, <3>7, <4>1, <4>2 DEF StreamOfOne
      <3>9. CASE L!TransportRemoved(d)
        <4>1. /\ UNCHANGED <<mConnectedUuids, avrcp, heard>>
              /\ d \in transports
              /\ watched' = watched \ {d, a2dp.proxy}
              /\ a2dp' = [a2dp EXCEPT !.interface = NoDevice, !.proxy = NoDevice]
          BY <3>9 DEF L!TransportRemoved
        <4>2. a2dp'.playing = a2dp.playing
          BY <3>3, <4>1 DEF Flags
        <4>3. watched' = {}
          BY <3>3, <4>1 DEF LinksTyped, Alone, L!Present
        <4> QED
          BY <3>3, <3>4, <3>6, <3>7, <4>1, <4>2, <4>3 DEF StreamOfOne
      <3>10. ASSUME NEW active \in BOOLEAN, L!TransportChanged(d, active)
             PROVE  StreamOfOne' /\ ControlOfOne'
        <4>1. /\ UNCHANGED <<mConnectedUuids, avrcp, transports, watched>>
              /\ d \in watched
              /\ active => "STREAM" \in mConnectedUuids[d]
              /\ a2dp' = [a2dp EXCEPT !.playing = active]
          BY <3>10 DEF L!TransportChanged, L!transportVars
        <4>2. a2dp.interface = d /\ d # NoDevice
          <5>1. NoDevice \notin Devices
            BY ProfilesAssumption DEF ProfilesAssumption, L!MediaLinksAssumption
          <5>2. a2dp.interface \in watched
            BY <3>3, <4>1 DEF StreamOfOne
          <5> QED
            BY <3>3, <4>1, <5>1, <5>2 DEF LinksTyped, Alone, L!Present
        <4>3. heard' = [heard EXCEPT !.playing = IF active THEN heard.playing \union {d}
                                                 ELSE heard.playing \ {d}]
          BY <3>10, <4>2 DEF L!TransportChanged
        <4>4. /\ heard'.stream = heard.stream /\ heard'.control = heard.control
              /\ heard'.playing = IF active THEN heard.playing \union {d} ELSE heard.playing \ {d}
          BY <3>3, <4>3 DEF Flags
        <4>5. a2dp'.playing = active /\ a2dp'.interface = a2dp.interface
          BY <3>3, <4>1 DEF Flags
        <4>6. heard.playing \subseteq {d}
          BY <3>3, <4>1 DEF StreamOfOne, Streaming, LinksTyped, Alone, L!Present
        <4>7. active => d \in heard.stream
          BY <3>3, <4>1 DEF StreamOfOne, Streaming
        <4>8. StreamOfOne'
          BY <3>3, <3>7, <4>1, <4>2, <4>4, <4>5, <4>6, <4>7 DEF StreamOfOne
        <4> QED
          BY <3>6, <4>1, <4>4, <4>8
      <3> QED
        BY <3>1, <3>4, <3>5, <3>8, <3>9, <3>10 DEF L!Change
    <2> QED
      BY <2>1, <2>2 DEF LinksInv
  <1> QED
    BY <1>1, <1>2

LEMMA LinksAlways == Spec => []LinksInv
  <1>1. Init => LinksInv
    <2>1. MaxOverlap \in Nat
      BY ProfilesAssumption DEF ProfilesAssumption, L!MediaLinksAssumption
    <2> QED
      BY <2>1
      DEF Init, L!Init, LinksInv, LinksTyped, Flags, Alone, StreamOfOne, ControlOfOne,
          Streaming, Controlled, L!Present
  <1>2. LinksInv /\ [Next]_vars => LinksInv'
    <2> SUFFICES ASSUME LinksInv, [Next]_vars
                 PROVE  LinksInv'
      OBVIOUS
    <2>1. L!Next \/ UNCHANGED linksVars
      BY DEF Next, vars
    <2>2. [L!Next]_(L!vars)
      BY <2>1 DEF linksVars, L!vars
    <2> QED
      BY <2>2, LinksNext
  <1> QED
    BY <1>1, <1>2, PTL DEF Spec

\* Media, among the profiles: while devices come one at a time the client knows which
\* streams, which is controlled and which plays, in whatever order their roles and
\* transports come and go; and it commands the player it was told is addressed.
THEOREM MediaKnown == Spec => []MediaTold
  <1>1. LinksInv => L!LinksTold
    BY DEF LinksInv, StreamOfOne, ControlOfOne, L!LinksTold, Streaming, Controlled
  <1> QED
    BY <1>1, LinksAlways, PlayersAlways, PlayersKnown, PTL DEF MediaTold
=============================================================================
