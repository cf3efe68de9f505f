------------------------------ MODULE SilProofs ------------------------------
(***************************************************************************)
(* What is proved of the service: the types, the default adapter, the      *)
(* agent and profile manager of each adapter, and that each of its steps   *)
(* is one that Directory promises, or changes nothing the client sees.     *)
(***************************************************************************)
EXTENDS Sil, FiniteSetTheorems, SequenceTheorems, TLAPS

(***************************************************************************)
(* Lists of adapters.                                                      *)
(***************************************************************************)
\* The first list has the adapters of the second, with other devices or players.
Alike(new, list) ==
    /\ new \in Seq(Adapter)
    /\ Len(new) = Len(list)
    /\ DOMAIN new = DOMAIN list
    /\ \A i \in DOMAIN list :
          /\ new[i].path = list[i].path
          /\ new[i].agent = list[i].agent
          /\ new[i].profiles = list[i].profiles

\* PointersCurrent and DefaultIsHci0, of any list.
Pointers(list, agent, profiles) ==
    \A i \in DOMAIN list : list[i].agent = agent /\ list[i].profiles = profiles

Default(list, default) ==
    IF \E i \in DOMAIN list : list[i].path = Hci0
    THEN default \in DOMAIN list /\ list[default].path = Hci0
    ELSE default = 0

Paths(list) == {list[i].path : i \in DOMAIN list}

\* How often an adapter is in a list.
At(list, p) == {i \in DOMAIN list : list[i].path = p}

Count(list, p) == Cardinality(At(list, p))

LEMMA ListFacts ==
  ASSUME NEW list \in Seq(Adapter)
  PROVE  /\ Len(list) \in Nat
         /\ DOMAIN list = 1..Len(list)
         /\ list \in [1..Len(list) -> Adapter]
         /\ \A i \in DOMAIN list :
               /\ list[i] \in Adapter
               /\ list[i].path \in Path
               /\ list[i].devices \in SUBSET Device
               /\ list[i].agent \in BOOLEAN
               /\ list[i].profiles \in BOOLEAN
               /\ list[i].player \in BOOLEAN
  <1>1. Len(list) \in Nat /\ DOMAIN list = 1..Len(list) /\ list \in [1..Len(list) -> Adapter]
    BY LenProperties
  <1>2. \A i \in DOMAIN list : list[i] \in Adapter
    BY <1>1
  <1> QED
    BY <1>1, <1>2 DEF Adapter

LEMMA ListOf ==
  ASSUME NEW n \in Nat, NEW list, list \in [1..n -> Adapter]
  PROVE  list \in Seq(Adapter) /\ Len(list) = n /\ DOMAIN list = 1..n
  <1>1. list \in Seq(Adapter)
    BY SeqDef
  <1>2. DOMAIN list = 1..n /\ DOMAIN list = 1..Len(list) /\ Len(list) \in Nat
    BY <1>1, LenProperties
  <1>3. Len(list) = n
    BY <1>2
  <1> QED
    BY <1>1, <1>2, <1>3

LEMMA AlikeOf ==
  ASSUME NEW list \in Seq(Adapter), NEW new, new \in [DOMAIN list -> Adapter],
         \A i \in DOMAIN list : /\ new[i].path = list[i].path
                                /\ new[i].agent = list[i].agent
                                /\ new[i].profiles = list[i].profiles
  PROVE  Alike(new, list)
  <1>1. Len(list) \in Nat /\ new \in [1..Len(list) -> Adapter] /\ DOMAIN list = 1..Len(list)
    BY ListFacts
  <1>2. new \in Seq(Adapter) /\ Len(new) = Len(list) /\ DOMAIN new = 1..Len(list)
    BY <1>1, ListOf
  <1> QED
    BY <1>1, <1>2 DEF Alike

LEMMA WithDevicesAlike ==
  ASSUME NEW list \in Seq(Adapter), NEW D \in SUBSET Device
  PROVE  Alike(WithDevices(list, D), list)
  <1> DEFINE added(i) == {d \in D : Finds(list, Owner[d], i)}
             new(i) == [list[i] EXCEPT !.devices = @ \cup added(i)]
  <1>1. ASSUME NEW i \in DOMAIN list
        PROVE  /\ new(i) \in Adapter
               /\ new(i).path = list[i].path
               /\ new(i).agent = list[i].agent
               /\ new(i).profiles = list[i].profiles
    <2>1. list[i] \in Adapter /\ added(i) \subseteq Device
      BY ListFacts
    <2> HIDE DEF added
    <2> QED
      BY <2>1 DEF Adapter
  <1>2. WithDevices(list, D) = [i \in DOMAIN list |-> new(i)]
    BY DEF WithDevices
  <1> HIDE DEF new
  <1> QED
    BY <1>1, <1>2, AlikeOf

LEMMA WithoutDeviceAlike ==
  ASSUME NEW list \in Seq(Adapter), NEW d \in Device
  PROVE  Alike(WithoutDevice(list, d), list)
  <1> DEFINE new(i) == IF Finds(list, Owner[d], i)
                       THEN [list[i] EXCEPT !.devices = @ \ {d}] ELSE list[i]
  <1>1. ASSUME NEW i \in DOMAIN list
        PROVE  /\ new(i) \in Adapter
               /\ new(i).path = list[i].path
               /\ new(i).agent = list[i].agent
               /\ new(i).profiles = list[i].profiles
    <2>1. list[i] \in Adapter
      BY ListFacts
    <2> QED
      BY <2>1 DEF Adapter
  <1>2. WithoutDevice(list, d) = [i \in DOMAIN list |-> new(i)]
    BY DEF WithoutDevice
  <1> HIDE DEF new
  <1> QED
    BY <1>1, <1>2, AlikeOf

LEMMA WithPlayersAlike ==
  ASSUME NEW list \in Seq(Adapter), NEW P
  PROVE  Alike(WithPlayers(list, P), list)
  <1> DEFINE found(i) == \E p \in P : Finds(list, p, i)
             new(i) == [list[i] EXCEPT !.player = @ \/ found(i)]
  <1>1. ASSUME NEW i \in DOMAIN list
        PROVE  /\ new(i) \in Adapter
               /\ new(i).path = list[i].path
               /\ new(i).agent = list[i].agent
               /\ new(i).profiles = list[i].profiles
    <2>1. list[i] \in Adapter
      BY ListFacts
    <2>2. (list[i].player \/ found(i)) \in BOOLEAN
      OBVIOUS
    <2> HIDE DEF found
    <2> QED
      BY <2>1, <2>2 DEF Adapter
  <1>2. WithPlayers(list, P) = [i \in DOMAIN list |-> new(i)]
    BY DEF WithPlayers
  <1> HIDE DEF new
  <1> QED
    BY <1>1, <1>2, AlikeOf

LEMMA WithoutPlayerAlike ==
  ASSUME NEW list \in Seq(Adapter), NEW p
  PROVE  Alike(WithoutPlayer(list, p), list)
  <1> DEFINE new(i) == IF Finds(list, p, i) THEN [list[i] EXCEPT !.player = FALSE] ELSE list[i]
  <1>1. ASSUME NEW i \in DOMAIN list
        PROVE  /\ new(i) \in Adapter
               /\ new(i).path = list[i].path
               /\ new(i).agent = list[i].agent
               /\ new(i).profiles = list[i].profiles
    <2>1. list[i] \in Adapter
      BY ListFacts
    <2> QED
      BY <2>1 DEF Adapter
  <1>2. WithoutPlayer(list, p) = [i \in DOMAIN list |-> new(i)]
    BY DEF WithoutPlayer
  <1> HIDE DEF new
  <1> QED
    BY <1>1, <1>2, AlikeOf

\* The two assignments keep all but what they assign.
LEMMA AssignAgentGives ==
  ASSUME NEW list \in Seq(Adapter), NEW agent \in BOOLEAN
  PROVE  /\ AssignAgent(list, agent) \in Seq(Adapter)
         /\ Len(AssignAgent(list, agent)) = Len(list)
         /\ DOMAIN AssignAgent(list, agent) = DOMAIN list
         /\ \A i \in DOMAIN list : /\ AssignAgent(list, agent)[i].path = list[i].path
                                   /\ AssignAgent(list, agent)[i].agent = agent
                                   /\ AssignAgent(list, agent)[i].profiles = list[i].profiles
  <1>1. ASSUME NEW i \in DOMAIN list
        PROVE  [list[i] EXCEPT !.agent = agent] \in Adapter
    <2>1. list[i] \in Adapter
      BY ListFacts
    <2> QED
      BY <2>1 DEF Adapter
  <1>2. AssignAgent(list, agent) \in [1..Len(list) -> Adapter] /\ Len(list) \in Nat
    BY <1>1, ListFacts DEF AssignAgent
  <1>3. /\ AssignAgent(list, agent) \in Seq(Adapter)
        /\ Len(AssignAgent(list, agent)) = Len(list)
        /\ DOMAIN AssignAgent(list, agent) = DOMAIN list
    BY <1>2, ListOf, ListFacts
  <1>4. \A i \in DOMAIN list : AssignAgent(list, agent)[i] = [list[i] EXCEPT !.agent = agent]
    BY DEF AssignAgent
  <1>5. ASSUME NEW a \in Adapter
        PROVE  /\ [a EXCEPT !.agent = agent].path = a.path
               /\ [a EXCEPT !.agent = agent].agent = agent
               /\ [a EXCEPT !.agent = agent].profiles = a.profiles
    BY DEF Adapter
  <1>6. \A i \in DOMAIN list : list[i] \in Adapter
    BY ListFacts
  <1>7. ASSUME NEW i \in DOMAIN list
        PROVE  /\ AssignAgent(list, agent)[i].path = list[i].path
               /\ AssignAgent(list, agent)[i].agent = agent
               /\ AssignAgent(list, agent)[i].profiles = list[i].profiles
    <2> DEFINE a == list[i]
    <2>1. AssignAgent(list, agent)[i] = [a EXCEPT !.agent = agent] /\ a \in Adapter
      BY <1>4, <1>6
    <2> HIDE DEF a
    <2>2. /\ [a EXCEPT !.agent = agent].path = a.path
          /\ [a EXCEPT !.agent = agent].agent = agent
          /\ [a EXCEPT !.agent = agent].profiles = a.profiles
      BY <1>5, <2>1
    <2> QED
      BY <2>1, <2>2, Zenon DEF a
  <1> QED
    BY <1>3, <1>7

LEMMA AssignProfileManagerGives ==
  ASSUME NEW list \in Seq(Adapter)
  PROVE  /\ AssignProfileManager(list) \in Seq(Adapter)
         /\ Len(AssignProfileManager(list)) = Len(list)
         /\ DOMAIN AssignProfileManager(list) = DOMAIN list
         /\ \A i \in DOMAIN list : /\ AssignProfileManager(list)[i].path = list[i].path
                                   /\ AssignProfileManager(list)[i].agent = list[i].agent
                                   /\ AssignProfileManager(list)[i].profiles = TRUE
  <1>1. ASSUME NEW i \in DOMAIN list
        PROVE  [list[i] EXCEPT !.profiles = TRUE] \in Adapter
    <2>1. list[i] \in Adapter
      BY ListFacts
    <2> QED
      BY <2>1 DEF Adapter
  <1>2. AssignProfileManager(list) \in [1..Len(list) -> Adapter] /\ Len(list) \in Nat
    BY <1>1, ListFacts DEF AssignProfileManager
  <1>3. /\ AssignProfileManager(list) \in Seq(Adapter)
        /\ Len(AssignProfileManager(list)) = Len(list)
        /\ DOMAIN AssignProfileManager(list) = DOMAIN list
    BY <1>2, ListOf, ListFacts
  <1>4. \A i \in DOMAIN list : AssignProfileManager(list)[i] = [list[i] EXCEPT !.profiles = TRUE]
    BY DEF AssignProfileManager
  <1> QED
    BY <1>3, <1>4, ListFacts DEF Adapter

\* What holds of a list holds of one that is alike.
LEMMA AlikeKeeps ==
  ASSUME NEW list, NEW new, Alike(new, list)
  PROVE  /\ \A default : Default(list, default) => Default(new, default)
         /\ \A agent, profiles : Pointers(list, agent, profiles) => Pointers(new, agent, profiles)
         /\ Paths(new) = Paths(list)
         /\ \A p : Count(new, p) = Count(list, p)
  <1>1. \A p : At(new, p) = At(list, p)
    BY DEF Alike, At
  <1> QED
    BY <1>1 DEF Alike, Default, Pointers, Paths, Count

\* The default is that of hci0 once assigned, if the one it was is null wherever
\* hci0 is not in the list.
LEMMA DefaultAssigned ==
  ASSUME NEW list \in Seq(Adapter), NEW default \in 0..Len(list),
         AssignNewDefaultAdapter(list, default),
         (\E i \in DOMAIN list : list[i].path = Hci0) \/ default = 0
  PROVE  Default(list, mDefaultAdapter') /\ mDefaultAdapter' \in 0..Len(list)
  BY ListFacts DEF AssignNewDefaultAdapter, Default

LEMMA RemovedFrom ==
  ASSUME NEW list \in Seq(Adapter), NEW i \in DOMAIN list
  PROVE  /\ Without(list, i) \in Seq(Adapter)
         /\ Len(Without(list, i)) = Len(list) - 1
         /\ DOMAIN Without(list, i) = 1..Len(list) - 1
         /\ \A j \in 1..Len(list) - 1 : Without(list, i)[j] = list[IF j < i THEN j ELSE j + 1]
  <1>1. Len(list) \in Nat /\ DOMAIN list = 1..Len(list) /\ i \in 1..Len(list)
    BY ListFacts
  <1>2. Len(list) - 1 \in Nat
    BY <1>1
  <1>3. \A j \in 1..Len(list) - 1 : (IF j < i THEN j ELSE j + 1) \in DOMAIN list
    BY <1>1
  <1>4. Without(list, i) \in [1..Len(list) - 1 -> Adapter]
    BY <1>3, ListFacts DEF Without
  <1>5. \A j \in 1..Len(list) - 1 : Without(list, i)[j] = list[IF j < i THEN j ELSE j + 1]
    BY DEF Without
  <1> QED
    BY <1>2, <1>4, <1>5, ListOf

LEMMA AtFinite ==
  ASSUME NEW list \in Seq(Adapter), NEW p
  PROVE  IsFiniteSet(At(list, p)) /\ Count(list, p) \in Nat
  <1>1. IsFiniteSet(1..Len(list))
    BY ListFacts, FS_Interval
  <1>2. At(list, p) \in SUBSET (1..Len(list))
    BY ListFacts DEF At
  <1>3. IsFiniteSet(At(list, p))
    BY <1>1, <1>2, FS_Subset
  <1> QED
    BY <1>3, FS_CardinalityType DEF Count

LEMMA CountEmpty ==
  ASSUME NEW list \in Seq(Adapter), NEW p, ~ \E i \in DOMAIN list : list[i].path = p
  PROVE  Count(list, p) = 0
  <1>1. At(list, p) = {}
    BY DEF At
  <1> QED
    BY <1>1, FS_EmptySet DEF Count

\* One place more.
LEMMA CountOneMore ==
  ASSUME NEW list \in Seq(Adapter), NEW new, NEW p, NEW x, x \notin DOMAIN list,
         At(new, p) = At(list, p) \cup {x}
  PROVE  Count(new, p) = Count(list, p) + 1
  <1>1. x \notin At(list, p)
    BY DEF At
  <1> QED
    BY <1>1, AtFinite, FS_AddElement DEF Count

LEMMA CountRemoved ==
  ASSUME NEW list \in Seq(Adapter), NEW i \in DOMAIN list, NEW p
  PROVE  Count(Without(list, i), p) =
           IF list[i].path = p THEN Count(list, p) - 1 ELSE Count(list, p)
  <1> DEFINE rest == Without(list, i)
             left == At(list, p) \ {i}
             f == [j \in left |-> IF j < i THEN j ELSE j - 1]
  <1>1. Len(list) \in Nat /\ DOMAIN list = 1..Len(list) /\ i \in 1..Len(list)
    BY ListFacts
  <1>2. /\ DOMAIN rest = 1..Len(list) - 1
        /\ \A j \in 1..Len(list) - 1 : rest[j] = list[IF j < i THEN j ELSE j + 1]
    BY RemovedFrom
  <1> HIDE DEF rest
  <1>3. f \in Bijection(left, At(rest, p))
    <2>1. \A j \in left : j \in 1..Len(list) /\ j # i /\ list[j].path = p
      BY <1>1 DEF At
    <2>2. ASSUME NEW j \in left
          PROVE  f[j] \in At(rest, p)
      <3>1. f[j] \in 1..Len(list) - 1
        BY <1>1, <2>1
      <3>2. rest[f[j]] = list[j]
        BY <1>1, <1>2, <2>1, <3>1
      <3> QED
        BY <1>2, <2>1, <3>1, <3>2 DEF At
    <2>3. \A j, k \in left : f[j] = f[k] => j = k
      BY <1>1, <2>1
    <2>4. ASSUME NEW j \in At(rest, p)
          PROVE  \E k \in left : f[k] = j
      <3>1. j \in 1..Len(list) - 1 /\ rest[j].path = p
        BY <1>2 DEF At
      <3> DEFINE k == IF j < i THEN j ELSE j + 1
      <3>2. k \in 1..Len(list) /\ k # i /\ list[k].path = p
        BY <1>1, <1>2, <3>1
      <3>3. k \in left
        BY <1>1, <3>2 DEF At
      <3>4. f[k] = j
        BY <1>1, <3>1, <3>3
      <3> QED
        BY <3>3, <3>4
    <2>5. f \in [left -> At(rest, p)]
      BY <2>2
    <2> HIDE DEF f, left
    <2> QED
      BY <2>3, <2>4, <2>5 DEF Bijection, Injection, Surjection, IsInjective
  <1>4. ExistsBijection(left, At(rest, p))
    BY <1>3 DEF ExistsBijection
  <1>5. IsFiniteSet(left) /\ Cardinality(left) = IF i \in At(list, p) THEN Count(list, p) - 1
                                                 ELSE Count(list, p)
    BY AtFinite, FS_RemoveElement DEF Count
  <1>6. i \in At(list, p) <=> list[i].path = p
    BY DEF At
  <1> HIDE DEF left
  <1>7. Cardinality(At(rest, p)) = Cardinality(left)
    BY <1>4, <1>5, FS_Bijection
  <1> QED
    BY <1>5, <1>6, <1>7 DEF Count, rest

(***************************************************************************)
(* The service and its list.                                               *)
(***************************************************************************)
ServiceInv ==
    /\ mAdapters \in Seq(Adapter)
    /\ mDefaultAdapter \in 0..Len(mAdapters)
    /\ mAgent \in BOOLEAN
    /\ mProfileManager \in BOOLEAN
    /\ Default(mAdapters, mDefaultAdapter)
    /\ Pointers(mAdapters, mAgent, mProfileManager)

\* BlueZ has nothing when it is not there.
WatchInv ==
    /\ mObjectManager \in 0..managers
    /\ managers \in 0..MaxManagers
    /\ view \in [Manager -> SUBSET (Path \cup Device \cup {Root})]
    /\ started \in BOOLEAN
    /\ running \in BOOLEAN
    /\ objects \in SUBSET (Path \cup Device)
    /\ vanished \in BOOLEAN
    /\ vanished => ~running
    /\ ~running => objects = {}

Inv == ServiceInv /\ WatchInv

LEMMA InvGives == Inv => TypeOK /\ DefaultIsHci0 /\ PointersCurrent
  <1> SUFFICES ASSUME Inv PROVE TypeOK /\ DefaultIsHci0 /\ PointersCurrent
    OBVIOUS
  <1>1. TypeOK
    BY DEF Inv, ServiceInv, WatchInv, TypeOK
  <1>2. DefaultIsHci0
    BY DEF Inv, ServiceInv, Default, DefaultIsHci0
  <1>3. PointersCurrent
    BY DEF Inv, ServiceInv, Pointers, PointersCurrent
  <1> QED
    BY <1>1, <1>2, <1>3

\* A list that is alike takes the place of the one there is.
LEMMA ServiceAlike ==
  ASSUME ServiceInv, Alike(mAdapters', mAdapters),
         UNCHANGED <<mDefaultAdapter, mAgent, mProfileManager>>
  PROVE  /\ ServiceInv'
         /\ Paths(mAdapters') = Paths(mAdapters)
         /\ \A q : Count(mAdapters', q) = Count(mAdapters, q)
  <1>1. /\ Default(mAdapters', mDefaultAdapter)
        /\ Pointers(mAdapters', mAgent, mProfileManager)
        /\ Paths(mAdapters') = Paths(mAdapters)
        /\ \A q : Count(mAdapters', q) = Count(mAdapters, q)
    BY AlikeKeeps DEF ServiceInv
  <1>2. mAdapters' \in Seq(Adapter) /\ Len(mAdapters') = Len(mAdapters)
    BY DEF Alike
  <1> QED
    BY <1>1, <1>2 DEF ServiceInv

LEMMA CreateAdapterKeeps ==
  ASSUME ServiceInv, NEW p \in Path, CreateAdapter(p)
  PROVE  /\ ServiceInv'
         /\ Paths(mAdapters') = Paths(mAdapters) \cup {p}
         /\ \A q : Count(mAdapters', q) = Count(mAdapters, q) + (IF q = p THEN 1 ELSE 0)
  <1> DEFINE made == Append(mAdapters, NewAdapter(p))
  <1>1. NewAdapter(p) \in Adapter
    BY DEF NewAdapter, Adapter, ServiceInv
  <1>2. /\ made \in Seq(Adapter)
        /\ Len(made) = Len(mAdapters) + 1
        /\ \A i \in 1..Len(mAdapters) : made[i] = mAdapters[i]
        /\ made[Len(mAdapters) + 1] = NewAdapter(p)
    BY <1>1, AppendProperties DEF ServiceInv
  <1>3. /\ Len(mAdapters) \in Nat
        /\ DOMAIN mAdapters = 1..Len(mAdapters)
        /\ DOMAIN made = 1..Len(mAdapters) + 1
    BY <1>2, ListFacts DEF ServiceInv
  <1>4. AssignNewDefaultAdapter(made, mDefaultAdapter) /\ mAdapters' = WithPlayers(made, {p})
        /\ UNCHANGED <<mAgent, mProfileManager>>
    BY DEF CreateAdapter
  <1>5. Paths(made) = Paths(mAdapters) \cup {p}
    <2>1. made[Len(mAdapters) + 1].path = p
      BY <1>2 DEF NewAdapter
    <2> HIDE DEF made
    <2> QED
      BY <1>2, <1>3, <2>1 DEF Paths
  <1>6. Pointers(made, mAgent, mProfileManager)
    <2>1. /\ made[Len(mAdapters) + 1].agent = mAgent
          /\ made[Len(mAdapters) + 1].profiles = mProfileManager
      BY <1>2 DEF NewAdapter
    <2> HIDE DEF made
    <2> QED
      BY <1>2, <1>3, <2>1 DEF ServiceInv, Pointers
  <1> HIDE DEF made
  <1>7. Default(made, mDefaultAdapter') /\ mDefaultAdapter' \in 0..Len(made)
    <2>1. mDefaultAdapter \in 0..Len(made)
      BY <1>2, <1>3 DEF ServiceInv
    <2>2. (\E i \in DOMAIN made : made[i].path = Hci0) \/ mDefaultAdapter = 0
      BY <1>2, <1>3 DEF ServiceInv, Default
    <2> QED
      BY <1>2, <1>4, <2>1, <2>2, DefaultAssigned
  <1>8. Alike(mAdapters', made)
    BY <1>2, <1>4, WithPlayersAlike
  <1>9. ASSUME NEW q
        PROVE  Count(made, q) = Count(mAdapters, q) + (IF q = p THEN 1 ELSE 0)
    <2>1. made[Len(mAdapters) + 1].path = p
      BY <1>2 DEF NewAdapter
    <2>2. mAdapters \in Seq(Adapter)
      BY DEF ServiceInv
    <2>3. CASE q = p
      <3>1. At(made, q) = At(mAdapters, q) \cup {Len(mAdapters) + 1}
        BY <1>2, <1>3, <2>1, <2>3 DEF At
      <3>2. Len(mAdapters) + 1 \notin DOMAIN mAdapters
        BY <1>3
      <3> QED
        BY <2>2, <2>3, <3>1, <3>2, CountOneMore
    <2>4. CASE q # p
      <3>1. At(made, q) = At(mAdapters, q)
        BY <1>2, <1>3, <2>1, <2>4 DEF At
      <3> QED
        BY <2>2, <2>4, <3>1, AtFinite DEF Count
    <2> QED
      BY <2>3, <2>4
  <1>10. ServiceInv' /\ Paths(mAdapters') = Paths(mAdapters) \cup {p}
    BY <1>4, <1>5, <1>6, <1>7, <1>8, AlikeKeeps DEF ServiceInv, Alike
  <1> QED
    BY <1>8, <1>9, <1>10, AlikeKeeps

LEMMA CreateDeviceKeeps ==
  ASSUME ServiceInv, NEW d \in Device, CreateDevice(d)
  PROVE  /\ ServiceInv'
         /\ Paths(mAdapters') = Paths(mAdapters)
         /\ \A q : Count(mAdapters', q) = Count(mAdapters, q)
  <1>1. Alike(mAdapters', mAdapters)
    BY WithDevicesAlike DEF CreateDevice, ServiceInv
  <1> QED
    BY <1>1, ServiceAlike DEF CreateDevice

LEMMA RemoveDeviceKeeps ==
  ASSUME ServiceInv, NEW d \in Device, RemoveDevice(d)
  PROVE  /\ ServiceInv'
         /\ Paths(mAdapters') = Paths(mAdapters)
         /\ \A q : Count(mAdapters', q) = Count(mAdapters, q)
  <1>1. Alike(mAdapters', mAdapters)
    BY WithoutDeviceAlike DEF RemoveDevice, ServiceInv
  <1> QED
    BY <1>1, ServiceAlike DEF RemoveDevice

LEMMA RemoveAgentManagerKeeps ==
  ASSUME ServiceInv, RemoveAgentManager
  PROVE  /\ ServiceInv'
         /\ Paths(mAdapters') = Paths(mAdapters)
         /\ \A q : Count(mAdapters', q) = Count(mAdapters, q)
  <1>1. CASE ~mAgent
    BY <1>1 DEF RemoveAgentManager, ServiceInv
  <1>2. CASE mAgent
    <2> DEFINE new == AssignAgent(mAdapters, FALSE)
    <2>1. /\ mAdapters' = new
          /\ mAgent' = FALSE
          /\ UNCHANGED <<mDefaultAdapter, mProfileManager>>
      BY <1>2 DEF RemoveAgentManager
    <2>2. /\ new \in Seq(Adapter)
          /\ Len(new) = Len(mAdapters)
          /\ DOMAIN new = DOMAIN mAdapters
          /\ \A i \in DOMAIN mAdapters : /\ new[i].path = mAdapters[i].path
                                         /\ new[i].agent = FALSE
                                         /\ new[i].profiles = mAdapters[i].profiles
      BY AssignAgentGives DEF ServiceInv
    <2> HIDE DEF new
    <2>3. Default(new, mDefaultAdapter)
      BY <2>2 DEF ServiceInv, Default
    <2>4. Pointers(new, FALSE, mProfileManager) /\ Paths(new) = Paths(mAdapters)
      BY <2>2 DEF ServiceInv, Pointers, Paths
    <2>5. \A q : At(new, q) = At(mAdapters, q)
      BY <2>2 DEF At
    <2> QED
      BY <2>1, <2>2, <2>3, <2>4, <2>5 DEF ServiceInv, Count
  <1> QED
    BY <1>1, <1>2 DEF ServiceInv

\* An adapter of the path leaves, and no adapter of another.
LEMMA RemoveAdapterKeeps ==
  ASSUME ServiceInv, NEW p \in Path, RemoveAdapter(p)
  PROVE  /\ ServiceInv'
         /\ Paths(mAdapters') \in {Paths(mAdapters), Paths(mAdapters) \ {p}}
         /\ \A q : Count(mAdapters', q) =
                     IF q = p /\ Count(mAdapters, p) > 0 THEN Count(mAdapters, p) - 1
                     ELSE Count(mAdapters, q)
         /\ Len(mAdapters') <= Len(mAdapters)
  <1>1. UNCHANGED <<mAgent, mProfileManager>>
    BY DEF RemoveAdapter
  <1>2. Len(mAdapters) \in Nat /\ DOMAIN mAdapters = 1..Len(mAdapters)
    BY ListFacts DEF ServiceInv
  <1>3. CASE ~ \E i \in DOMAIN mAdapters : mAdapters[i].path = p
    <2>1. /\ mAdapters' = WithoutPlayer(mAdapters, p)
          /\ AssignNewDefaultAdapter(mAdapters, mDefaultAdapter)
      BY <1>3 DEF RemoveAdapter
    <2>2. Alike(mAdapters', mAdapters)
      BY <2>1, WithoutPlayerAlike DEF ServiceInv
    <2>3. Default(mAdapters, mDefaultAdapter') /\ mDefaultAdapter' \in 0..Len(mAdapters)
      BY <2>1, DefaultAssigned DEF ServiceInv, Default
    <2>4. ServiceInv' /\ Paths(mAdapters') = Paths(mAdapters)
      BY <1>1, <2>2, <2>3, AlikeKeeps DEF ServiceInv, Alike
    <2>5. Count(mAdapters, p) = 0
      BY <1>3, CountEmpty DEF ServiceInv
    <2>6. \A q : Count(mAdapters', q) = Count(mAdapters, q)
      BY <2>2, AlikeKeeps
    <2>7. Len(mAdapters') <= Len(mAdapters)
      BY <1>2, <2>2 DEF Alike
    <2> QED
      BY <2>4, <2>5, <2>6, <2>7
  <1>4. CASE \E i \in DOMAIN mAdapters : mAdapters[i].path = p
    <2> DEFINE was(i) == IF mDefaultAdapter = i THEN 0
                         ELSE IF mDefaultAdapter > i THEN mDefaultAdapter - 1
                         ELSE mDefaultAdapter
    <2>1. PICK i \in DOMAIN mAdapters :
             /\ mAdapters[i].path = p
             /\ mAdapters' = WithoutPlayer(Without(mAdapters, i), p)
             /\ AssignNewDefaultAdapter(Without(mAdapters, i), was(i))
      BY <1>4 DEF RemoveAdapter
    <2> DEFINE rest == Without(mAdapters, i)
    <2>2. /\ rest \in Seq(Adapter)
          /\ Len(rest) = Len(mAdapters) - 1
          /\ DOMAIN rest = 1..Len(mAdapters) - 1
          /\ \A j \in 1..Len(mAdapters) - 1 : rest[j] = mAdapters[IF j < i THEN j ELSE j + 1]
      BY RemovedFrom DEF ServiceInv
    <2>3. mAdapters' = WithoutPlayer(rest, p) /\ AssignNewDefaultAdapter(rest, was(i))
      BY <2>1
    <2> HIDE DEF rest
    \* Where the others have moved to.
    <2>4. \A j \in DOMAIN mAdapters \ {i} :
             /\ (IF j < i THEN j ELSE j - 1) \in DOMAIN rest
             /\ rest[IF j < i THEN j ELSE j - 1] = mAdapters[j]
      BY <1>2, <2>2
    <2>5. \A j \in DOMAIN rest : \E k \in DOMAIN mAdapters \ {i} : rest[j] = mAdapters[k]
      <3> TAKE j \in DOMAIN rest
      <3>1. (IF j < i THEN j ELSE j + 1) \in DOMAIN mAdapters \ {i}
        BY <1>2, <2>2
      <3> QED
        BY <2>2, <3>1
    <2>6. was(i) \in 0..Len(rest)
      BY <1>2, <2>2 DEF ServiceInv
    <2>7. (\E j \in DOMAIN rest : rest[j].path = Hci0) \/ was(i) = 0
      <3>1. CASE mDefaultAdapter \in {0, i}
        BY <1>2, <3>1
      <3>2. CASE mDefaultAdapter \notin {0, i}
        <4>1. mDefaultAdapter \in DOMAIN mAdapters \ {i} /\ mAdapters[mDefaultAdapter].path = Hci0
          BY <3>2 DEF ServiceInv, Default
        <4> QED
          BY <2>4, <4>1
      <3> QED
        BY <3>1, <3>2
    <2>8. Default(rest, mDefaultAdapter') /\ mDefaultAdapter' \in 0..Len(rest)
      BY <2>2, <2>3, <2>6, <2>7, DefaultAssigned
    <2>9. Pointers(rest, mAgent, mProfileManager)
      BY <2>5 DEF ServiceInv, Pointers
    <2>10. Paths(rest) \in {Paths(mAdapters), Paths(mAdapters) \ {p}}
      <3>1. Paths(rest) \subseteq Paths(mAdapters)
        BY <2>5 DEF Paths
      <3>2. Paths(mAdapters) \ {p} \subseteq Paths(rest)
        BY <2>1, <2>4 DEF Paths
      <3> QED
        BY <3>1, <3>2
    <2>11. Alike(mAdapters', rest)
      BY <2>2, <2>3, WithoutPlayerAlike
    <2>12. /\ ServiceInv'
           /\ Paths(mAdapters') \in {Paths(mAdapters), Paths(mAdapters) \ {p}}
      BY <1>1, <2>8, <2>9, <2>10, <2>11, AlikeKeeps DEF ServiceInv, Alike
    <2>13. \A q : Count(mAdapters', q) = IF q = p THEN Count(mAdapters, q) - 1
                                         ELSE Count(mAdapters, q)
      BY <2>1, <2>11, AlikeKeeps, CountRemoved DEF ServiceInv, rest
    <2>14. Count(mAdapters, p) > 0
      <3>1. Count(mAdapters, p) \in Nat /\ Count(rest, p) \in Nat
        BY <2>2, AtFinite DEF ServiceInv
      <3>2. Count(rest, p) = Count(mAdapters, p) - 1
        BY <2>1, CountRemoved DEF ServiceInv, rest
      <3> QED
        BY <3>1, <3>2
    <2>15. Len(mAdapters') <= Len(mAdapters)
      BY <1>2, <2>2, <2>11 DEF Alike
    <2> QED
      BY <2>12, <2>13, <2>14, <2>15
  <1> QED
    BY <1>3, <1>4

\* BlueZ is found: its adapters come after those there are.
LEMMA StartedKeeps ==
  ASSUME Inv, HandleBluezServiceStarted, managers' # managers
  PROVE  /\ ServiceInv'
         /\ Paths(mAdapters') = Paths(mAdapters) \cup (objects \cap Path)
         /\ \A p \in Path : Count(mAdapters', p) =
                              Count(mAdapters, p) + (IF p \in objects THEN 1 ELSE 0)
  <1> DEFINE made(order) == mAdapters \o [i \in DOMAIN order |-> NewAdapter(order[i])]
             given(order) == AssignAgent(made(order), mAgent')
             all(order) == IF running THEN AssignProfileManager(given(order)) ELSE given(order)
             devices(order) == WithDevices(all(order), objects \cap Device)
  <1>1. /\ mAgent' = (mAgent \/ running)
        /\ mProfileManager' = (mProfileManager \/ running)
        /\ \E order \in Orders(objects \cap Path) :
              /\ mAdapters' = WithPlayers(devices(order), objects \cap Path)
              /\ AssignNewDefaultAdapter(made(order), mDefaultAdapter)
    BY DEF HandleBluezServiceStarted
  <1>2. PICK order \in Orders(objects \cap Path) :
              /\ mAdapters' = WithPlayers(devices(order), objects \cap Path)
              /\ AssignNewDefaultAdapter(made(order), mDefaultAdapter)
    BY <1>1
  <1> DEFINE n == Cardinality(objects \cap Path)
             new == [i \in DOMAIN order |-> NewAdapter(order[i])]
  <1>3. n \in Nat
    <2>1. IsFiniteSet(objects \cap Path)
      BY SilAssumption, FS_Subset DEF SilAssumption
    <2> QED
      BY <2>1, FS_CardinalityType
  <1>4. /\ order \in [1..n -> objects \cap Path]
        /\ \A p \in objects \cap Path : \E i \in DOMAIN order : order[i] = p
    BY DEF Orders
  <1> HIDE DEF n
  <1>5. /\ new \in [1..n -> Adapter]
        /\ \A i \in 1..n : /\ new[i].path = order[i]
                           /\ new[i].agent = mAgent
                           /\ new[i].profiles = mProfileManager
    BY <1>4 DEF NewAdapter, Adapter, Inv, ServiceInv
  <1>6. new \in Seq(Adapter) /\ Len(new) = n
    BY <1>3, <1>5, ListOf
  <1>7. Len(mAdapters) \in Nat /\ DOMAIN mAdapters = 1..Len(mAdapters)
    BY ListFacts DEF Inv, ServiceInv
  <1> DEFINE m == made(order)
  <1>8. m = mAdapters \o new
    OBVIOUS
  <1> HIDE DEF new, m
  <1>9. /\ m \in Seq(Adapter)
        /\ Len(m) = Len(mAdapters) + n
        /\ \A i \in 1..Len(mAdapters) + n :
              m[i] = IF i <= Len(mAdapters) THEN mAdapters[i] ELSE new[i - Len(mAdapters)]
    BY <1>6, <1>8, ConcatProperties DEF Inv, ServiceInv
  <1>10. DOMAIN m = 1..Len(mAdapters) + n
    BY <1>9, ListFacts
  <1>11. \A i \in DOMAIN mAdapters : i \in DOMAIN m /\ m[i] = mAdapters[i]
    BY <1>3, <1>7, <1>9, <1>10
  <1>12. \A i \in 1..n : Len(mAdapters) + i \in DOMAIN m /\ m[Len(mAdapters) + i] = new[i]
    BY <1>3, <1>7, <1>9, <1>10
  <1>13. \A i \in DOMAIN m : \/ i \in DOMAIN mAdapters
                             \/ i - Len(mAdapters) \in 1..n /\ m[i] = new[i - Len(mAdapters)]
    BY <1>3, <1>7, <1>9, <1>10
  <1>14. Pointers(m, mAgent, mProfileManager)
    BY <1>5, <1>11, <1>13 DEF Inv, ServiceInv, Pointers
  <1>15. Paths(m) = Paths(mAdapters) \cup (objects \cap Path)
    <2>1. Paths(m) \subseteq Paths(mAdapters) \cup (objects \cap Path)
      BY <1>4, <1>5, <1>11, <1>13 DEF Paths
    <2>2. Paths(mAdapters) \subseteq Paths(m)
      BY <1>11 DEF Paths
    <2>3. objects \cap Path \subseteq Paths(m)
      BY <1>4, <1>5, <1>12 DEF Paths
    <2> QED
      BY <2>1, <2>2, <2>3
  <1>16. Default(m, mDefaultAdapter') /\ mDefaultAdapter' \in 0..Len(m)
    <2>1. mDefaultAdapter \in 0..Len(m)
      BY <1>3, <1>7, <1>9 DEF Inv, ServiceInv
    <2>2. (\E i \in DOMAIN m : m[i].path = Hci0) \/ mDefaultAdapter = 0
      BY <1>11 DEF Inv, ServiceInv, Default
    <2>3. AssignNewDefaultAdapter(m, mDefaultAdapter)
      BY <1>2 DEF m
    <2> QED
      BY <1>9, <2>1, <2>2, <2>3, DefaultAssigned
  \* The agent and the profile manager, if BlueZ is there, are given to all.
  <1>17. /\ mAgent' \in BOOLEAN /\ mProfileManager' \in BOOLEAN
         /\ ~running => mAgent' = mAgent /\ mProfileManager' = mProfileManager
         /\ running => mAgent' = TRUE /\ mProfileManager' = TRUE
    BY <1>1 DEF Inv, ServiceInv, WatchInv
  <1> DEFINE g == AssignAgent(m, mAgent')
             a == all(order)
             d == devices(order)
  <1>18. /\ g \in Seq(Adapter)
         /\ Len(g) = Len(m)
         /\ DOMAIN g = DOMAIN m
         /\ \A i \in DOMAIN m : /\ g[i].path = m[i].path
                                /\ g[i].agent = mAgent'
                                /\ g[i].profiles = m[i].profiles
    BY <1>9, <1>17, AssignAgentGives
  <1>19. a = IF running THEN AssignProfileManager(g) ELSE g
    BY DEF m
  <1> HIDE DEF g, a
  <1>20. /\ a \in Seq(Adapter)
         /\ Len(a) = Len(m)
         /\ DOMAIN a = DOMAIN m
         /\ \A i \in DOMAIN m : /\ a[i].path = m[i].path
                                /\ a[i].agent = mAgent'
                                /\ a[i].profiles = mProfileManager'
    <2>1. CASE running
      BY <1>17, <1>18, <1>19, <2>1, AssignProfileManagerGives
    <2>2. CASE ~running
      BY <1>14, <1>17, <1>18, <1>19, <2>2 DEF Pointers
    <2> QED
      BY <2>1, <2>2
  <1>21. d = WithDevices(a, objects \cap Device)
    BY DEF a
  <1>22. mAdapters' = WithPlayers(d, objects \cap Path)
    BY <1>2
  <1> HIDE DEF d
  <1>23. Alike(d, a)
    BY <1>20, <1>21, WithDevicesAlike
  <1>24. Alike(mAdapters', d)
    BY <1>22, <1>23, WithPlayersAlike DEF Alike
  <1>25. /\ Default(a, mDefaultAdapter') /\ Pointers(a, mAgent', mProfileManager')
         /\ Paths(a) = Paths(m)
    BY <1>16, <1>20 DEF Default, Pointers, Paths
  <1>26. /\ Default(mAdapters', mDefaultAdapter')
         /\ Pointers(mAdapters', mAgent', mProfileManager')
         /\ Paths(mAdapters') = Paths(m)
    BY <1>23, <1>24, <1>25, AlikeKeeps
  <1>27. mAdapters' \in Seq(Adapter) /\ Len(mAdapters') = Len(m)
    BY <1>20, <1>23, <1>24 DEF Alike
  <1>28. ServiceInv' /\ Paths(mAdapters') = Paths(mAdapters) \cup (objects \cap Path)
    BY <1>15, <1>16, <1>17, <1>26, <1>27 DEF ServiceInv
  \* An order names each adapter once.
  <1>29. \A i, j \in 1..n : order[i] = order[j] => i = j
    <2>1. IsFiniteSet(1..n) /\ Cardinality(1..n) = n
      BY <1>3, FS_Interval
    <2>2. order \in Surjection(1..n, objects \cap Path)
      BY <1>4 DEF Surjection
    <2>3. order \in Injection(1..n, objects \cap Path)
      BY <2>1, <2>2, FS_SurjSameCardinalityImpliesInj DEF n
    <2> QED
      BY <1>4, <2>3 DEF Injection, IsInjective
  <1>30. ASSUME NEW p \in Path
         PROVE  Count(m, p) = Count(mAdapters, p) + (IF p \in objects THEN 1 ELSE 0)
    <2>1. mAdapters \in Seq(Adapter)
      BY DEF Inv, ServiceInv
    <2>2. CASE p \in objects
      <3>1. PICK k \in 1..n : order[k] = p
        BY <1>4, <2>2
      <3>2. \A i \in DOMAIN m : i \in At(m, p) <=> i \in At(mAdapters, p) \/ i = Len(mAdapters) + k
        <4> TAKE i \in DOMAIN m
        <4>1. CASE i \in DOMAIN mAdapters
          BY <1>3, <1>7, <1>11, <3>1, <4>1 DEF At
        <4>2. CASE i \notin DOMAIN mAdapters
          <5>1. i - Len(mAdapters) \in 1..n /\ m[i].path = order[i - Len(mAdapters)]
            BY <1>5, <1>13, <4>2
          <5>2. i = Len(mAdapters) + k <=> i - Len(mAdapters) = k
            BY <1>3, <1>7, <1>10, <3>1
          <5> QED
            BY <1>29, <3>1, <4>2, <5>1, <5>2 DEF At
        <4> QED
          BY <4>1, <4>2
      <3>3. At(m, p) = At(mAdapters, p) \cup {Len(mAdapters) + k}
        BY <1>11, <1>12, <3>2 DEF At
      <3>4. Len(mAdapters) + k \notin DOMAIN mAdapters
        BY <1>7, <3>1
      <3> QED
        BY <2>1, <2>2, <3>3, <3>4, CountOneMore
    <2>3. CASE p \notin objects
      <3>1. \A i \in 1..n : order[i] # p
        BY <1>4, <2>3
      <3>2. At(m, p) = At(mAdapters, p)
        BY <1>5, <1>11, <1>13, <3>1 DEF At
      <3> QED
        BY <2>1, <2>3, <3>2, AtFinite DEF Count
    <2> QED
      BY <2>2, <2>3
  <1>31. \A p : Count(a, p) = Count(m, p)
    <2>1. \A p : At(a, p) = At(m, p)
      BY <1>20 DEF At
    <2> QED
      BY <2>1 DEF Count
  <1>32. \A p : Count(mAdapters', p) = Count(a, p)
    BY <1>23, <1>24, AlikeKeeps
  <1> QED
    BY <1>28, <1>30, <1>31, <1>32

(***************************************************************************)
(* The steps.                                                              *)
(***************************************************************************)
\* What a step may do to what the client sees: see Directory.
PromiseStep == [Promise!Next]_(Promise!vars)

LEMMA PromiseLearn ==
  ASSUME NEW S \in SUBSET (objects \cap Path), managers > 0, managers' > 0,
         UNCHANGED objects, Paths(mAdapters') = Paths(mAdapters) \cup S
  PROVE  PromiseStep
  <1>1. Promise!Learn(S)
    BY DEF Promise!Learn, Paths
  <1> QED
    BY <1>1 DEF PromiseStep, Promise!Next

LEMMA PromiseForget ==
  ASSUME NEW S \in SUBSET Path, S \cap objects = {}, UNCHANGED <<objects, managers>>,
         Paths(mAdapters') = Paths(mAdapters) \ S
  PROVE  PromiseStep
  <1>1. Promise!Forget(S)
    BY DEF Promise!Forget, Paths
  <1> QED
    BY <1>1 DEF PromiseStep, Promise!Next

LEMMA PromiseStutter ==
  ASSUME UNCHANGED <<objects, managers>>, Paths(mAdapters') = Paths(mAdapters)
  PROVE  PromiseStep
  BY DEF PromiseStep, Promise!vars, Paths

LEMMA PathsOf == ServiceInv => Paths(mAdapters) \subseteq Path
  BY ListFacts DEF ServiceInv, Paths

LEMMA SilNext ==
  ASSUME Inv, [Next]_vars
  PROVE  Inv' /\ PromiseStep
  <1> USE DEF Inv
  <1>1. CASE HandleBluezServiceStarted
    <2>1. UNCHANGED <<running, objects, vanished>>
      BY <1>1 DEF HandleBluezServiceStarted, bluez
    <2>2. CASE managers' = managers
      <3>1. UNCHANGED <<service, managers, view>> /\ mObjectManager' = 0 /\ started' = TRUE
        BY <1>1, <2>2 DEF HandleBluezServiceStarted, WatchInv
      <3>2. ServiceInv' /\ WatchInv'
        BY <2>1, <3>1 DEF ServiceInv, WatchInv, service
      <3> QED
        BY <2>1, <3>1, <3>2, PromiseStutter DEF service
    <2>3. CASE managers' # managers
      <3>1. ServiceInv' /\ Paths(mAdapters') = Paths(mAdapters) \cup (objects \cap Path)
        BY <1>1, <2>3, StartedKeeps
      <3>2. /\ managers < MaxManagers
            /\ managers' = managers + 1
            /\ mObjectManager' = managers + 1
            /\ view' = [view EXCEPT ![managers + 1] = Present]
            /\ started' = TRUE
        BY <1>1, <2>3 DEF HandleBluezServiceStarted
      <3>3. WatchInv'
        <4>1. Present \in SUBSET (Path \cup Device \cup {Root})
          BY DEF Present, WatchInv
        <4>2. MaxManagers \in Nat
          BY SilAssumption DEF SilAssumption
        <4>3. managers' \in 0..MaxManagers /\ mObjectManager' \in 0..managers'
          BY <3>2, <4>2 DEF WatchInv
        <4>4. view' \in [Manager -> SUBSET (Path \cup Device \cup {Root})]
          BY <3>2, <4>1 DEF WatchInv
        <4> QED
          BY <2>1, <3>2, <4>3, <4>4 DEF WatchInv
      <3>4. PromiseStep
        <4>1. managers \in Nat
          BY DEF WatchInv
        <4>2. CASE managers > 0
          <5>1. managers' > 0
            BY <3>2, <4>1
          <5> QED
            BY <2>1, <3>1, <4>2, <5>1, PromiseLearn
        <4>3. CASE managers = 0
          <5>1. Promise!Attach
            BY <2>1, <3>1, <3>2, <4>3 DEF Promise!Attach, Paths
          <5> QED
            BY <5>1 DEF PromiseStep, Promise!Next
        <4> QED
          BY <4>1, <4>2, <4>3
      <3> QED
        BY <3>1, <3>3, <3>4
    <2> QED
      BY <2>2, <2>3
  <1>2. CASE HandleBluezServiceStopped
    <2>1. /\ vanished /\ vanished' = FALSE /\ started' = FALSE
          /\ mAdapters' = <<>> /\ mDefaultAdapter' = 0
          /\ UNCHANGED <<mAgent, mProfileManager, mObjectManager, managers, view, running, objects>>
      BY <1>2 DEF HandleBluezServiceStopped
    <2>2. mAdapters' \in Seq(Adapter) /\ Len(mAdapters') = 0 /\ DOMAIN mAdapters' = {}
      BY <2>1, EmptySeq, LenProperties
    <2>3. ServiceInv'
      BY <2>1, <2>2 DEF ServiceInv, Default, Pointers
    <2>4. WatchInv'
      BY <2>1 DEF WatchInv
    <2>5. Paths(mAdapters') = {}
      BY <2>2 DEF Paths
    <2>6. PromiseStep
      BY <2>1, <2>5, PathsOf, PromiseForget DEF WatchInv
    <2> QED
      BY <2>3, <2>4, <2>6
  <1>3. ASSUME NEW o \in Path \cup Device \cup {Root}, NEW m \in Manager, HandleObjectAdded(m, o)
        PROVE  Inv' /\ PromiseStep
    <2>1. /\ m <= managers
          /\ o \in Present
          /\ view' = [view EXCEPT ![m] = @ \cup {o}]
          /\ UNCHANGED <<mObjectManager, managers, started, running, objects, vanished>>
      BY <1>3 DEF HandleObjectAdded, bluez
    <2>2. WatchInv'
      BY <2>1 DEF WatchInv
    <2>3. managers > 0
      BY <2>1 DEF WatchInv, Manager
    <2>4. CASE o \in Path /\ CreateAdapter(o)
      <3>1. ServiceInv' /\ Paths(mAdapters') = Paths(mAdapters) \cup {o}
        BY <2>4, CreateAdapterKeeps
      <3>2. {o} \in SUBSET (objects \cap Path)
        BY <2>1, <2>4, SilAssumption DEF SilAssumption, Present
      <3> QED
        BY <2>1, <2>2, <2>3, <3>1, <3>2, PromiseLearn
    <2>5. CASE o \in Device /\ CreateDevice(o)
      BY <2>1, <2>2, <2>5, CreateDeviceKeeps, PromiseStutter
    <2>6. CASE o = Root /\ UNCHANGED service
      <3>1. ServiceInv'
        BY <2>6 DEF service, ServiceInv
      <3> QED
        BY <2>1, <2>2, <2>6, <3>1, PromiseStutter DEF service
    <2> QED
      BY <1>3, <2>4, <2>5, <2>6 DEF HandleObjectAdded
  <1>4. ASSUME NEW o \in Path \cup Device \cup {Root}, NEW m \in Manager, HandleObjectRemoved(m, o)
        PROVE  Inv' /\ PromiseStep
    <2>1. /\ o \notin Present
          /\ view' = [view EXCEPT ![m] = @ \ {o}]
          /\ UNCHANGED <<mObjectManager, managers, started, running, objects, vanished>>
      BY <1>4 DEF HandleObjectRemoved, bluez
    <2>2. WatchInv'
      BY <2>1 DEF WatchInv
    <2>3. CASE o \in Path /\ RemoveAdapter(o)
      <3>1. ServiceInv' /\ Paths(mAdapters') \in {Paths(mAdapters), Paths(mAdapters) \ {o}}
        BY <2>3, RemoveAdapterKeeps
      <3>2. {o} \in SUBSET Path /\ {o} \cap objects = {}
        BY <2>1, <2>3 DEF Present
      <3> QED
        BY <2>1, <2>2, <3>1, <3>2, PromiseForget, PromiseStutter
    <2>4. CASE o \in Device /\ RemoveDevice(o)
      BY <2>1, <2>2, <2>4, RemoveDeviceKeeps, PromiseStutter
    <2>5. CASE o = Root /\ RemoveAgentManager
      BY <2>1, <2>2, <2>5, RemoveAgentManagerKeeps, PromiseStutter
    <2> QED
      BY <1>4, <2>3, <2>4, <2>5 DEF HandleObjectRemoved
  <1>5. CASE BluezStep
    <2>1. UNCHANGED <<service, watching>>
      BY <1>5 DEF BluezStep, BluezStarts, BluezStops, BluezAdds, BluezRemoves, service, watching
    <2>2. ServiceInv'
      BY <2>1 DEF service, ServiceInv
    <2>3. WatchInv'
      <3> USE DEF watching, WatchInv
      <3>1. CASE BluezStarts
        BY <2>1, <3>1 DEF BluezStarts
      <3>2. CASE BluezStops
        BY <2>1, <3>2 DEF BluezStops
      <3>3. ASSUME NEW o \in Path \cup Device, BluezAdds(o)
            PROVE  WatchInv'
        BY <2>1, <3>3 DEF BluezAdds
      <3>4. ASSUME NEW o \in Path \cup Device, BluezRemoves(o)
            PROVE  WatchInv'
        BY <2>1, <3>4 DEF BluezRemoves
      <3> QED
        BY <1>5, <3>1, <3>2, <3>3, <3>4 DEF BluezStep
    <2>4. Promise!Change
      BY <2>1, <2>3 DEF Promise!Change, service, watching
    <2> QED
      BY <2>2, <2>3, <2>4 DEF PromiseStep, Promise!Next
  <1>6. CASE UNCHANGED vars
    <2>1. UNCHANGED <<service, watching, bluez>>
      BY <1>6 DEF vars
    <2>2. ServiceInv' /\ WatchInv'
      BY <2>1 DEF service, watching, bluez, ServiceInv, WatchInv
    <2> QED
      BY <2>1, <2>2, PromiseStutter DEF service, watching, bluez
  <1> QED
    BY <1>1, <1>2, <1>3, <1>4, <1>5, <1>6 DEF Next, Signal

LEMMA SilInit == Init => Inv
  <1> SUFFICES ASSUME Init PROVE Inv
    OBVIOUS
  <1>1. /\ mAdapters \in Seq(Adapter)
        /\ Len(mAdapters) = 0
        /\ DOMAIN mAdapters = {}
    BY EmptySeq, LenProperties DEF Init
  <1>2. MaxManagers \in Nat
    BY SilAssumption DEF SilAssumption
  <1>3. ServiceInv
    <2>1. mDefaultAdapter = 0 /\ mAgent \in BOOLEAN /\ mProfileManager \in BOOLEAN
      BY DEF Init
    <2>2. Default(mAdapters, mDefaultAdapter) /\ Pointers(mAdapters, mAgent, mProfileManager)
      BY <1>1, <2>1 DEF Default, Pointers
    <2> QED
      BY <1>1, <2>1, <2>2 DEF ServiceInv
  <1>4. WatchInv
    <2>1. mObjectManager \in 0..managers /\ managers \in 0..MaxManagers
      BY <1>2 DEF Init
    <2>2. view \in [Manager -> SUBSET (Path \cup Device \cup {Root})]
      BY DEF Init
    <2>3. started = FALSE /\ running = FALSE /\ vanished = FALSE /\ objects = {}
      BY DEF Init
    <2> QED
      BY <2>1, <2>2, <2>3 DEF WatchInv
  <1> QED
    BY <1>3, <1>4 DEF Inv

LEMMA SilAlways == Spec => []Inv
  <1>1. Inv /\ [Next]_vars => Inv'
    BY SilNext
  <1> QED
    BY <1>1, SilInit, PTL DEF Spec

\* The types, for any adapters and devices and any number of starts of BlueZ.
THEOREM TypeCorrect == Spec => []TypeOK
  <1>1. Inv => TypeOK
    BY InvGives
  <1> QED
    BY <1>1, SilAlways, PTL

\* The default adapter is that of hci0 whenever there is one, and null otherwise, in
\* whatever order the managers of several starts of BlueZ announce adapters.
THEOREM DefaultFollowsHci0 == Spec => []DefaultIsHci0
  <1>1. Inv => DefaultIsHci0
    BY InvGives
  <1> QED
    BY <1>1, SilAlways, PTL

\* Every adapter has the agent and the profile manager the service has.
THEOREM AdaptersGiven == Spec => []PointersCurrent
  <1>1. Inv => PointersCurrent
    BY InvGives
  <1> QED
    BY <1>1, SilAlways, PTL

\* The service starts as Directory does, and each of its steps is one of Directory or
\* changes nothing of it: an adapter the client can get is one BlueZ has, until it has
\* gone or BlueZ has.
THEOREM StepsAsPromised == Spec => Promise!Init /\ [][Promise!Next]_(Promise!vars)
  <1>1. Init => Promise!Init
    BY EmptySeq, LenProperties DEF Init, Promise!Init
  <1>2. Inv /\ [Next]_vars => [Promise!Next]_(Promise!vars)
    BY SilNext DEF PromiseStep
  <1> QED
    BY <1>1, <1>2, SilAlways, PTL DEF Spec

(***************************************************************************)
(* The list and the managers.                                              *)
(***************************************************************************)
Seen(p) == {m \in Manager : p \in view[m]}

\* While the service takes BlueZ to be away the list is empty, and once BlueZ is back
\* no manager has kept an object.
Watched ==
    /\ started => \A p \in Path : Count(mAdapters, p) = Cardinality(Seen(p))
    /\ ~started => Len(mAdapters) = 0
    /\ ~started /\ (running \/ vanished) => \A m \in Manager : view[m] = {}
    /\ \A m \in Manager : m > managers => view[m] = {}

LEMMA SeenFinite == \A p : IsFiniteSet(Seen(p)) /\ Cardinality(Seen(p)) \in Nat
  <1> TAKE p
  <1>1. IsFiniteSet(Manager)
    BY SilAssumption, FS_Interval DEF SilAssumption, Manager
  <1>2. Seen(p) \in SUBSET Manager
    BY DEF Seen
  <1>3. IsFiniteSet(Seen(p))
    BY <1>1, <1>2, FS_Subset
  <1> QED
    BY <1>3, FS_CardinalityType

LEMMA NoneListed ==
  ASSUME ServiceInv, Len(mAdapters) = 0
  PROVE  mAdapters = <<>> /\ \A p : Count(mAdapters, p) = 0
  <1>1. mAdapters \in Seq(Adapter) /\ DOMAIN mAdapters = {}
    BY ListFacts DEF ServiceInv
  <1>2. mAdapters = <<>>
    BY <1>1, EmptySeq
  <1> QED
    BY <1>1, <1>2, CountEmpty

LEMMA WatchedStart ==
  ASSUME Inv, Watched, HandleBluezServiceStarted
  PROVE  Watched'
  <1>1. /\ ~started /\ started' = TRUE
        /\ running \/ vanished
        /\ \A m \in Manager : view[m] = {}
        /\ \A p : Count(mAdapters, p) = 0
    BY NoneListed DEF HandleBluezServiceStarted, Watched, Inv
  <1>2. CASE managers' = managers
    <2>1. UNCHANGED <<mAdapters, managers, view>>
      BY <1>2 DEF HandleBluezServiceStarted, Inv, WatchInv, service
    <2>2. \A p : Seen(p)' = {}
      BY <1>1, <2>1 DEF Seen
    <2> QED
      BY <1>1, <2>1, <2>2, FS_EmptySet DEF Watched
  <1>3. CASE managers' # managers
    <2>1. /\ managers < MaxManagers
          /\ managers' = managers + 1
          /\ view' = [view EXCEPT ![managers + 1] = Present]
      BY <1>3 DEF HandleBluezServiceStarted
    <2>2. managers + 1 \in Manager /\ managers \in Nat
      BY <2>1, SilAssumption DEF Inv, WatchInv, Manager, SilAssumption
    <2>3. ASSUME NEW m \in Manager
          PROVE  view'[m] = IF m = managers + 1 THEN Present ELSE {}
      BY <1>1, <2>1, <2>3 DEF Inv, WatchInv
    <2>4. ASSUME NEW p \in Path
          PROVE  Count(mAdapters', p) = Cardinality(Seen(p)')
      <3>1. Count(mAdapters', p) = IF p \in objects THEN 1 ELSE 0
        BY <1>1, <1>3, StartedKeeps
      <3>2. p \in Present <=> p \in objects
        BY SilAssumption DEF SilAssumption, Present
      <3>3. CASE p \in objects
        <4>1. Seen(p)' = {managers + 1}
          BY <2>2, <2>3, <3>2, <3>3 DEF Seen
        <4> QED
          BY <3>1, <3>3, <4>1, FS_Singleton
      <3>4. CASE p \notin objects
        <4>1. Seen(p)' = {}
          BY <2>2, <2>3, <3>2, <3>4 DEF Seen
        <4> QED
          BY <3>1, <3>4, <4>1, FS_EmptySet
      <3> QED
        BY <3>3, <3>4
    <2>5. \A m \in Manager : m > managers' => view'[m] = {}
      BY <2>1, <2>2, <2>3 DEF Manager
    <2> QED
      BY <1>1, <2>4, <2>5 DEF Watched
  <1> QED
    BY <1>2, <1>3

LEMMA WatchedAdded ==
  ASSUME Inv, Watched, NEW o \in Path \cup Device \cup {Root}, NEW m \in Manager,
         HandleObjectAdded(m, o)
  PROVE  Watched'
  <1>1. /\ started /\ m <= managers
        /\ o \in Present \ view[m]
        /\ view' = [view EXCEPT ![m] = @ \cup {o}]
        /\ UNCHANGED <<managers, started>>
    BY DEF HandleObjectAdded
  <1>2. \A k \in Manager : view'[k] = IF k = m THEN view[k] \cup {o} ELSE view[k]
    BY <1>1 DEF Inv, WatchInv
  <1>3. /\ Count(mAdapters, o) \in Nat
        /\ o \in Path => \A q : Count(mAdapters', q) =
                                Count(mAdapters, q) + (IF q = o THEN 1 ELSE 0)
        /\ o \notin Path => \A q : Count(mAdapters', q) = Count(mAdapters, q)
    <2>1. CASE o \in Path /\ CreateAdapter(o)
      BY <2>1, CreateAdapterKeeps, AtFinite DEF Inv, ServiceInv
    <2>2. CASE o \in Device /\ CreateDevice(o)
      BY <2>2, CreateDeviceKeeps, AtFinite, SilAssumption DEF SilAssumption, Inv, ServiceInv
    <2>3. CASE o = Root /\ UNCHANGED service
      BY <2>3, AtFinite, SilAssumption DEF SilAssumption, service, Inv, ServiceInv
    <2> QED
      BY <2>1, <2>2, <2>3 DEF HandleObjectAdded
  <1>4. ASSUME NEW p \in Path
        PROVE  Count(mAdapters', p) = Cardinality(Seen(p)')
    <2>1. Count(mAdapters, p) = Cardinality(Seen(p)) /\ IsFiniteSet(Seen(p))
          /\ Count(mAdapters, p) \in Nat
      BY <1>1, SeenFinite DEF Watched
    <2>2. CASE p = o
      <3>1. Seen(p)' = Seen(p) \cup {m} /\ m \notin Seen(p)
        BY <1>1, <1>2, <2>2 DEF Seen
      <3>2. Cardinality(Seen(p) \cup {m}) = Cardinality(Seen(p)) + 1
        BY <2>1, <3>1, FS_AddElement
      <3> QED
        BY <1>3, <2>1, <2>2, <3>1, <3>2
    <2>3. CASE p # o
      <3>1. Seen(p)' = Seen(p)
        BY <1>2, <2>3 DEF Seen
      <3> QED
        BY <1>3, <2>1, <2>3, <3>1
    <2> QED
      BY <2>2, <2>3
  <1>5. \A k \in Manager : k > managers' => view'[k] = {}
    BY <1>1, <1>2 DEF Watched, Inv, WatchInv, Manager
  <1> QED
    BY <1>1, <1>4, <1>5 DEF Watched

LEMMA WatchedRemoved ==
  ASSUME Inv, Watched, NEW o \in Path \cup Device \cup {Root}, NEW m \in Manager,
         HandleObjectRemoved(m, o)
  PROVE  Watched'
  <1>1. /\ o \in view[m]
        /\ view' = [view EXCEPT ![m] = @ \ {o}]
        /\ UNCHANGED <<managers, started, running, vanished>>
    BY DEF HandleObjectRemoved, bluez
  <1>2. \A k \in Manager : view'[k] = IF k = m THEN view[k] \ {o} ELSE view[k]
    BY <1>1 DEF Inv, WatchInv
  <1>3. /\ o \in Path => \A q : Count(mAdapters', q) =
                            IF q = o /\ Count(mAdapters, o) > 0 THEN Count(mAdapters, o) - 1
                            ELSE Count(mAdapters, q)
        /\ o \notin Path => \A q : Count(mAdapters', q) = Count(mAdapters, q)
        /\ Len(mAdapters') <= Len(mAdapters)
    <2>1. CASE o \in Path /\ RemoveAdapter(o)
      BY <2>1, RemoveAdapterKeeps DEF Inv
    <2>2. CASE o \in Device /\ RemoveDevice(o)
      <3>1. Alike(mAdapters', mAdapters)
        BY <2>2, WithoutDeviceAlike DEF RemoveDevice, Inv, ServiceInv
      <3> QED
        BY <2>2, <3>1, RemoveDeviceKeeps, ListFacts, SilAssumption
        DEF SilAssumption, Inv, ServiceInv, Alike
    <2>3. CASE o = Root /\ RemoveAgentManager
      <3>1. Len(mAdapters') = Len(mAdapters)
        BY <2>3, AssignAgentGives DEF RemoveAgentManager, Inv, ServiceInv
      <3> QED
        BY <2>3, <3>1, RemoveAgentManagerKeeps, ListFacts, SilAssumption
        DEF SilAssumption, Inv, ServiceInv
    <2> QED
      BY <2>1, <2>2, <2>3 DEF HandleObjectRemoved
  <1>4. ASSUME started, NEW p \in Path
        PROVE  Count(mAdapters', p) = Cardinality(Seen(p)')
    <2>1. Count(mAdapters, p) = Cardinality(Seen(p)) /\ IsFiniteSet(Seen(p))
          /\ Count(mAdapters, p) \in Nat
      BY <1>4, SeenFinite DEF Watched
    <2>2. CASE p = o
      <3>1. Seen(p)' = Seen(p) \ {m} /\ m \in Seen(p)
        BY <1>1, <1>2, <2>2 DEF Seen
      <3>2. Cardinality(Seen(p) \ {m}) = Cardinality(Seen(p)) - 1 /\ Cardinality(Seen(p)) > 0
        BY <2>1, <3>1, FS_RemoveElement, FS_EmptySet
      <3> QED
        BY <1>3, <2>1, <2>2, <3>1, <3>2
    <2>3. CASE p # o
      <3>1. Seen(p)' = Seen(p)
        BY <1>2, <2>3 DEF Seen
      <3> QED
        BY <1>3, <2>1, <2>3, <3>1
    <2> QED
      BY <2>2, <2>3
  <1>5. ~started => Len(mAdapters') = 0
    <2>1. Inv'
      BY SilNext DEF Next, Signal
    <2>2. Len(mAdapters') \in Nat
      BY <2>1, ListFacts DEF Inv, ServiceInv
    <2> QED
      BY <1>3, <2>2 DEF Watched
  <1>6. \A k \in Manager : view[k] = {} => view'[k] = {}
    BY <1>2
  <1> QED
    BY <1>1, <1>4, <1>5, <1>6 DEF Watched

LEMMA WatchedNext ==
  ASSUME Inv, Watched, [Next]_vars
  PROVE  Watched'
  <1>1. CASE HandleBluezServiceStarted
    BY <1>1, WatchedStart
  <1>2. CASE HandleBluezServiceStopped
    <2>1. /\ started' = FALSE /\ mAdapters' = <<>> /\ running' = FALSE /\ vanished' = FALSE
          /\ UNCHANGED <<managers, view>>
      BY <1>2 DEF HandleBluezServiceStopped, Inv, WatchInv
    <2>2. Len(mAdapters') = 0
      BY <2>1, EmptySeq
    <2> QED
      BY <2>1, <2>2 DEF Watched
  <1>3. ASSUME NEW o \in Path \cup Device \cup {Root}, Signal(o)
        PROVE  Watched'
    BY <1>3, WatchedAdded, WatchedRemoved DEF Signal
  <1>4. CASE BluezStep
    <2>1. UNCHANGED <<mAdapters, managers, view, started>>
      BY <1>4 DEF BluezStep, BluezStarts, BluezStops, BluezAdds, BluezRemoves, service, watching
    <2>2. \A p : Seen(p)' = Seen(p)
      BY <2>1 DEF Seen
    <2>3. ~started /\ (running' \/ vanished') => \A m \in Manager : view[m] = {}
      BY <1>4 DEF BluezStep, BluezStarts, BluezStops, BluezAdds, BluezRemoves, Watched
    <2> QED
      BY <2>1, <2>2, <2>3 DEF Watched
  <1>5. CASE UNCHANGED vars
    <2>1. UNCHANGED <<mAdapters, managers, view, started, running, vanished>>
      BY <1>5 DEF vars, service, watching, bluez
    <2>2. \A p : Seen(p)' = Seen(p)
      BY <2>1 DEF Seen
    <2> QED
      BY <2>1, <2>2 DEF Watched
  <1> QED
    BY <1>1, <1>2, <1>3, <1>4, <1>5 DEF Next

LEMMA WatchedInit == Init => Watched
  BY EmptySeq DEF Init, Watched

\* An adapter is in the list once for each manager that has it, through any number of
\* starts of BlueZ: it goes with the last of them that sees it go.
THEOREM OncePerManager == Spec => []AdapterPerManager
  <1>1. Inv /\ Watched => AdapterPerManager
    BY NoneListed DEF Inv, Watched, AdapterPerManager, Count, At, Seen
  <1>2. Watched /\ Inv /\ [Next]_vars => Watched'
    BY WatchedNext
  <1> QED
    BY <1>1, <1>2, SilAlways, WatchedInit, PTL DEF Spec

(***************************************************************************)
(* The devices of the adapters.                                            *)
(***************************************************************************)
\* DevicesFindable, of any list and set of devices.
Held(list, shown) ==
    \A i \in DOMAIN list : \A d \in list[i].devices : Finds(list, Owner[d], i) /\ d \in shown

Shown == UNION {view[m] : m \in Manager}

\* Which adapter is found depends on paths alone.
LEMMA FindsSame ==
  ASSUME NEW list \in Seq(Adapter), NEW new,
         \A i \in DOMAIN list : new[i].path = list[i].path
  PROVE  \A i \in DOMAIN list : \A p : Finds(list, p, i) => Finds(new, p, i)
  <1> SUFFICES ASSUME NEW i \in DOMAIN list, NEW p, Finds(list, p, i)
               PROVE  Finds(new, p, i)
    OBVIOUS
  <1>1. \A j \in 1..i - 1 : j \in DOMAIN list
    BY ListFacts
  <1> QED
    BY <1>1 DEF Finds

\* Fewer devices, of more that are shown.
LEMMA HeldFewer ==
  ASSUME NEW list \in Seq(Adapter), NEW new, Alike(new, list), NEW shown, NEW more,
         Held(list, shown), shown \cap Device \subseteq more,
         \A i \in DOMAIN list : new[i].devices \subseteq list[i].devices
  PROVE  Held(new, more)
  <1> SUFFICES ASSUME NEW i \in DOMAIN list, NEW d \in new[i].devices
               PROVE  Finds(new, Owner[d], i) /\ d \in more
    BY DEF Alike, Held
  <1>1. Finds(list, Owner[d], i) /\ d \in shown /\ d \in Device
    BY ListFacts DEF Held
  <1> QED
    BY <1>1, FindsSame DEF Alike

LEMMA PlayersKeepDevices ==
  ASSUME NEW list \in Seq(Adapter), NEW P, NEW p
  PROVE  \A i \in DOMAIN list : /\ WithPlayers(list, P)[i].devices = list[i].devices
                                /\ WithoutPlayer(list, p)[i].devices = list[i].devices
  <1> SUFFICES ASSUME NEW i \in DOMAIN list
               PROVE  /\ WithPlayers(list, P)[i].devices = list[i].devices
                      /\ WithoutPlayer(list, p)[i].devices = list[i].devices
    OBVIOUS
  <1>1. list[i] \in Adapter
    BY ListFacts
  <1>2. \A x \in BOOLEAN : [list[i] EXCEPT !.player = x].devices = list[i].devices
    BY <1>1 DEF Adapter
  <1>3. WithPlayers(list, P)[i].devices = list[i].devices
    BY <1>1 DEF WithPlayers, Adapter
  <1>4. WithoutPlayer(list, p)[i].devices = list[i].devices
    BY <1>2 DEF WithoutPlayer
  <1> QED
    BY <1>3, <1>4

LEMMA AssignmentsKeepDevices ==
  ASSUME NEW list \in Seq(Adapter), NEW agent
  PROVE  \A i \in DOMAIN list : /\ AssignAgent(list, agent)[i].devices = list[i].devices
                                /\ AssignProfileManager(list)[i].devices = list[i].devices
  <1>1. \A i \in DOMAIN list : list[i] \in Adapter
    BY ListFacts
  <1>2. ASSUME NEW a \in Adapter
        PROVE  /\ [a EXCEPT !.agent = agent].devices = a.devices
               /\ [a EXCEPT !.profiles = TRUE].devices = a.devices
    BY DEF Adapter
  <1> QED
    BY <1>1, <1>2 DEF AssignAgent, AssignProfileManager

LEMMA HeldWithDevices ==
  ASSUME NEW list \in Seq(Adapter), NEW D \in SUBSET Device, NEW shown, D \subseteq shown,
         Held(list, shown)
  PROVE  Held(WithDevices(list, D), shown)
  <1> DEFINE new == WithDevices(list, D)
  <1>1. Alike(new, list)
    BY WithDevicesAlike
  <1>2. ASSUME NEW i \in DOMAIN list
        PROVE  new[i].devices = list[i].devices \cup {d \in D : Finds(list, Owner[d], i)}
    BY ListFacts DEF WithDevices, Adapter
  <1> HIDE DEF new
  <1> SUFFICES ASSUME NEW i \in DOMAIN list, NEW d \in new[i].devices
               PROVE  Finds(new, Owner[d], i) /\ d \in shown
    BY <1>1 DEF Alike, Held, new
  <1>3. Finds(list, Owner[d], i) /\ d \in shown
    BY <1>2 DEF Held
  <1> QED
    BY <1>1, <1>3, FindsSame DEF Alike

\* One adapter is found for a path, so that no other has the device.
LEMMA HeldWithoutDevice ==
  ASSUME NEW list \in Seq(Adapter), NEW d \in Device, NEW shown, Held(list, shown)
  PROVE  Held(WithoutDevice(list, d), shown \ {d})
  <1> DEFINE new == WithoutDevice(list, d)
  <1>1. Alike(new, list)
    BY WithoutDeviceAlike
  <1>2. ASSUME NEW i \in DOMAIN list
        PROVE  new[i].devices = list[i].devices \ {d}
    <2>1. CASE Finds(list, Owner[d], i)
      BY <2>1, ListFacts DEF WithoutDevice, Adapter
    <2>2. CASE ~Finds(list, Owner[d], i)
      BY <2>2, ListFacts DEF WithoutDevice, Held
    <2> QED
      BY <2>1, <2>2
  <1> HIDE DEF new
  <1> SUFFICES ASSUME NEW i \in DOMAIN list, NEW e \in new[i].devices
               PROVE  Finds(new, Owner[e], i) /\ e \in shown \ {d}
    BY <1>1 DEF Alike, Held, new
  <1>3. Finds(list, Owner[e], i) /\ e \in shown \ {d}
    BY <1>2 DEF Held
  <1> QED
    BY <1>1, <1>3, FindsSame DEF Alike

LEMMA HeldAppend ==
  ASSUME NEW list \in Seq(Adapter), NEW p \in Path, NewAdapter(p) \in Adapter, NEW shown,
         Held(list, shown)
  PROVE  Held(Append(list, NewAdapter(p)), shown)
  <1> DEFINE made == Append(list, NewAdapter(p))
  <1>1. /\ made \in Seq(Adapter)
        /\ Len(made) = Len(list) + 1
        /\ \A i \in 1..Len(list) : made[i] = list[i]
        /\ made[Len(list) + 1] = NewAdapter(p)
    BY AppendProperties
  <1>2. Len(list) \in Nat /\ DOMAIN list = 1..Len(list) /\ DOMAIN made = 1..Len(list) + 1
    BY <1>1, ListFacts
  <1> HIDE DEF made
  <1> SUFFICES ASSUME NEW i \in DOMAIN made, NEW d \in made[i].devices
               PROVE  Finds(made, Owner[d], i) /\ d \in shown
    BY DEF Held, made
  <1>3. i \in DOMAIN list
    <2>1. made[Len(list) + 1].devices = {}
      BY <1>1 DEF NewAdapter
    <2> QED
      BY <1>2, <2>1
  <1>4. Finds(list, Owner[d], i) /\ d \in shown
    BY <1>1, <1>2, <1>3 DEF Held
  <1>5. \A j \in 1..i : made[j] = list[j]
    BY <1>1, <1>2, <1>3
  <1> QED
    BY <1>2, <1>3, <1>4, <1>5 DEF Finds

\* Those before an adapter stay before it.
LEMMA HeldRemoved ==
  ASSUME NEW list \in Seq(Adapter), NEW r \in DOMAIN list, NEW shown, Held(list, shown)
  PROVE  Held(Without(list, r), shown)
  <1> DEFINE rest == Without(list, r)
             was(j) == IF j < r THEN j ELSE j + 1
  <1>1. Len(list) \in Nat /\ DOMAIN list = 1..Len(list) /\ r \in 1..Len(list)
    BY ListFacts
  <1>2. DOMAIN rest = 1..Len(list) - 1 /\ \A j \in 1..Len(list) - 1 : rest[j] = list[was(j)]
    BY RemovedFrom
  <1> HIDE DEF rest
  <1> SUFFICES ASSUME NEW i \in DOMAIN rest, NEW d \in rest[i].devices
               PROVE  Finds(rest, Owner[d], i) /\ d \in shown
    BY DEF Held, rest
  <1>3. was(i) \in DOMAIN list /\ rest[i] = list[was(i)]
    BY <1>1, <1>2
  <1>4. Finds(list, Owner[d], was(i)) /\ d \in shown
    BY <1>3 DEF Held
  <1>5. \A j \in 1..i - 1 : rest[j] = list[was(j)] /\ was(j) \in 1..was(i) - 1
    BY <1>1, <1>2
  <1> HIDE DEF was
  <1> QED
    BY <1>3, <1>4, <1>5 DEF Finds

LEMMA HeldStart ==
  ASSUME Inv, Len(mAdapters) = 0, HandleBluezServiceStarted, managers' # managers, NEW shown,
         objects \cap Device \subseteq shown
  PROVE  Held(mAdapters', shown)
  <1> DEFINE made(order) == mAdapters \o [i \in DOMAIN order |-> NewAdapter(order[i])]
             given(order) == AssignAgent(made(order), mAgent')
             all(order) == IF running THEN AssignProfileManager(given(order)) ELSE given(order)
  <1>1. PICK order \in Orders(objects \cap Path) :
           mAdapters' = WithPlayers(WithDevices(all(order), objects \cap Device), objects \cap Path)
    BY DEF HandleBluezServiceStarted
  <1> DEFINE n == Cardinality(objects \cap Path)
             new == [i \in DOMAIN order |-> NewAdapter(order[i])]
             m == made(order)
             g == given(order)
             a == all(order)
             d == WithDevices(a, objects \cap Device)
  <1>2. n \in Nat
    <2>1. IsFiniteSet(objects \cap Path)
      BY SilAssumption, FS_Subset DEF SilAssumption
    <2> QED
      BY <2>1, FS_CardinalityType
  <1>3. order \in [1..n -> objects \cap Path]
    BY DEF Orders
  <1> HIDE DEF n
  <1>4. new \in [1..n -> Adapter] /\ \A i \in 1..n : new[i].devices = {}
    BY <1>3 DEF NewAdapter, Adapter, Inv, ServiceInv
  <1>5. new \in Seq(Adapter) /\ m = mAdapters \o new /\ mAdapters = <<>>
    BY <1>2, <1>4, ListOf, NoneListed DEF Inv
  <1> HIDE DEF new
  <1>6. m = new
    BY <1>5, ConcatEmptySeq
  <1>7. m \in Seq(Adapter) /\ \A i \in DOMAIN m : m[i].devices = {}
    BY <1>4, <1>5, <1>6
  <1>8. mAgent' \in BOOLEAN
    BY <1>5 DEF HandleBluezServiceStarted, Inv, ServiceInv, WatchInv
  <1>9. g = AssignAgent(m, mAgent') /\ a = IF running THEN AssignProfileManager(g) ELSE g
    OBVIOUS
  <1>10. mAdapters' = WithPlayers(d, objects \cap Path) /\ d = WithDevices(a, objects \cap Device)
    BY <1>1
  <1> HIDE DEF m, g, a, d
  <1>11. g \in Seq(Adapter) /\ \A i \in DOMAIN g : g[i].devices = {}
    BY <1>7, <1>8, <1>9, AssignAgentGives, AssignmentsKeepDevices
  <1>12. a \in Seq(Adapter) /\ \A i \in DOMAIN a : a[i].devices = {}
    <2>1. CASE a = g
      BY <1>11, <2>1
    <2>2. CASE a = AssignProfileManager(g)
      <3>1. a \in Seq(Adapter) /\ DOMAIN a = DOMAIN g
        BY <1>11, <2>2, AssignProfileManagerGives
      <3>2. \A i \in DOMAIN g : a[i].devices = g[i].devices
        BY <1>11, <2>2, AssignmentsKeepDevices
      <3> QED
        BY <1>11, <3>1, <3>2
    <2> QED
      BY <1>9, <2>1, <2>2
  <1>13. Held(a, shown)
    BY <1>12 DEF Held
  <1>14. d \in Seq(Adapter) /\ Held(d, shown)
    BY <1>10, <1>12, <1>13, WithDevicesAlike, HeldWithDevices DEF Alike
  <1>15. Alike(mAdapters', d) /\ \A i \in DOMAIN d : mAdapters'[i].devices = d[i].devices
    <2>1. Alike(mAdapters', d)
      BY <1>10, <1>14, WithPlayersAlike
    <2>2. \A i \in DOMAIN d : WithPlayers(d, objects \cap Path)[i].devices = d[i].devices
      BY <1>14, PlayersKeepDevices
    <2> QED
      BY <1>10, <2>1, <2>2
  <1> QED
    BY <1>14, <1>15, HeldFewer

LEMMA HeldNext ==
  ASSUME Inv, Watched, Held(mAdapters, Shown), [Next]_vars
  PROVE  Held(mAdapters', Shown')
  <1>1. mAdapters \in Seq(Adapter) /\ Inv'
    BY SilNext DEF Inv, ServiceInv
  <1>2. ASSUME mAdapters' = mAdapters, view' = view
        PROVE  Held(mAdapters', Shown')
    BY <1>2 DEF Shown, Held
  <1>3. CASE HandleBluezServiceStarted
    <2>1. CASE managers' = managers
      <3>1. mAdapters' = mAdapters /\ view' = view
        BY <1>3, <2>1 DEF HandleBluezServiceStarted, Inv, WatchInv, service
      <3> QED
        BY <1>2, <3>1
    <2>2. CASE managers' # managers
      <3>1. Len(mAdapters) = 0
        BY <1>3 DEF HandleBluezServiceStarted, Watched
      <3>2. view' = [view EXCEPT ![managers + 1] = Present] /\ managers + 1 \in Manager
        BY <1>3, <2>2, SilAssumption
        DEF HandleBluezServiceStarted, Inv, WatchInv, Manager, SilAssumption
      <3>3. view'[managers + 1] = Present
        BY <3>2 DEF Inv, WatchInv
      <3>4. objects \cap Device \subseteq Shown'
        BY <3>2, <3>3 DEF Shown, Present
      <3> QED
        BY <1>3, <2>2, <3>1, <3>4, HeldStart
    <2> QED
      BY <2>1, <2>2
  <1>4. CASE HandleBluezServiceStopped
    BY <1>4 DEF HandleBluezServiceStopped, Held
  <1>5. ASSUME NEW o \in Path \cup Device \cup {Root}, NEW m \in Manager, HandleObjectAdded(m, o)
        PROVE  Held(mAdapters', Shown')
    <2>1. view' = [view EXCEPT ![m] = @ \cup {o}]
      BY <1>5 DEF HandleObjectAdded
    <2>2. \A k \in Manager : view[k] \subseteq view'[k]
      BY <2>1 DEF Inv, WatchInv
    <2>3. o \in view'[m]
      BY <2>1 DEF Inv, WatchInv
    <2>4. Shown \subseteq Shown' /\ o \in Shown'
      BY <2>2, <2>3 DEF Shown
    <2>5. Alike(mAdapters, mAdapters)
      BY <1>1 DEF Alike
    <2>6. Held(mAdapters, Shown')
      BY <1>1, <2>4, <2>5, HeldFewer
    <2>7. CASE o \in Path /\ CreateAdapter(o)
      <3> DEFINE made == Append(mAdapters, NewAdapter(o))
      <3>1. NewAdapter(o) \in Adapter
        BY <2>7 DEF NewAdapter, Adapter, Inv, ServiceInv
      <3>2. made \in Seq(Adapter) /\ Held(made, Shown')
        BY <1>1, <2>6, <2>7, <3>1, HeldAppend, AppendProperties
      <3>3. mAdapters' = WithPlayers(made, {o})
        BY <2>7 DEF CreateAdapter
      <3> HIDE DEF made
      <3>4. /\ Alike(mAdapters', made)
            /\ \A i \in DOMAIN made : mAdapters'[i].devices = made[i].devices
        BY <3>2, <3>3, WithPlayersAlike, PlayersKeepDevices
      <3> QED
        BY <3>2, <3>4, HeldFewer
    <2>8. CASE o \in Device /\ CreateDevice(o)
      BY <1>1, <2>4, <2>6, <2>8, HeldWithDevices DEF CreateDevice
    <2>9. CASE o = Root /\ UNCHANGED service
      BY <2>6, <2>9 DEF service
    <2> QED
      BY <1>5, <2>7, <2>8, <2>9 DEF HandleObjectAdded
  <1>6. ASSUME NEW o \in Path \cup Device \cup {Root}, NEW m \in Manager, HandleObjectRemoved(m, o)
        PROVE  Held(mAdapters', Shown')
    <2>1. view' = [view EXCEPT ![m] = @ \ {o}]
      BY <1>6 DEF HandleObjectRemoved
    <2>2. \A k \in Manager : view[k] \ {o} \subseteq view'[k]
      BY <2>1 DEF Inv, WatchInv
    <2>3. Shown \ {o} \subseteq Shown'
      BY <2>2 DEF Shown
    <2>4. o \notin Device => Shown \cap Device \subseteq Shown'
      BY <2>3
    <2>5. CASE o \in Path /\ RemoveAdapter(o)
      <3>1. o \notin Device
        BY <2>5, SilAssumption DEF SilAssumption
      <3>2. PICK rest \in Seq(Adapter) : Held(rest, Shown) /\ mAdapters' = WithoutPlayer(rest, o)
        BY <1>1, <2>5, HeldRemoved, RemovedFrom DEF RemoveAdapter
      <3>3. /\ Alike(mAdapters', rest)
            /\ \A i \in DOMAIN rest : mAdapters'[i].devices = rest[i].devices
        BY <3>2, WithoutPlayerAlike, PlayersKeepDevices
      <3> QED
        BY <2>4, <3>1, <3>2, <3>3, HeldFewer
    <2>6. CASE o \in Device /\ RemoveDevice(o)
      <3> DEFINE rest == WithoutDevice(mAdapters, o)
      <3>1. Held(rest, Shown \ {o}) /\ rest \in Seq(Adapter)
        BY <1>1, <2>6, HeldWithoutDevice, WithoutDeviceAlike DEF Alike
      <3>2. mAdapters' = rest
        BY <2>6 DEF RemoveDevice
      <3> HIDE DEF rest
      <3>3. Alike(rest, rest)
        BY <3>1 DEF Alike
      <3> QED
        BY <2>3, <3>1, <3>2, <3>3, HeldFewer
    <2>7. CASE o = Root /\ RemoveAgentManager
      <3>1. o \notin Device
        BY <2>7, SilAssumption DEF SilAssumption
      <3>2. /\ mAdapters' \in Seq(Adapter)
            /\ Len(mAdapters') = Len(mAdapters)
            /\ DOMAIN mAdapters' = DOMAIN mAdapters
            /\ \A i \in DOMAIN mAdapters : /\ mAdapters'[i].path = mAdapters[i].path
                                           /\ mAdapters'[i].devices = mAdapters[i].devices
        <4>1. CASE mAgent
          <5>1. mAdapters' = AssignAgent(mAdapters, FALSE)
            BY <2>7, <4>1 DEF RemoveAgentManager
          <5> DEFINE given == AssignAgent(mAdapters, FALSE)
          <5>2. /\ given \in Seq(Adapter)
                /\ Len(given) = Len(mAdapters)
                /\ DOMAIN given = DOMAIN mAdapters
                /\ \A i \in DOMAIN mAdapters : given[i].path = mAdapters[i].path
            BY <1>1, AssignAgentGives
          <5>3. \A i \in DOMAIN mAdapters : given[i].devices = mAdapters[i].devices
            BY <1>1, AssignmentsKeepDevices
          <5> HIDE DEF given
          <5>4. mAdapters' = given
            BY <5>1 DEF given
          <5> QED
            BY <5>2, <5>3, <5>4
        <4>2. CASE ~mAgent
          BY <1>1, <2>7, <4>2 DEF RemoveAgentManager
        <4> QED
          BY <4>1, <4>2
      <3>3. Held(mAdapters', Shown)
        <4> SUFFICES ASSUME NEW i \in DOMAIN mAdapters, NEW d \in mAdapters[i].devices
                     PROVE  Finds(mAdapters', Owner[d], i) /\ d \in Shown
          BY <3>2 DEF Held
        <4>1. Finds(mAdapters, Owner[d], i) /\ d \in Shown
          BY DEF Held
        <4> QED
          BY <1>1, <3>2, <4>1, FindsSame
      <3>4. Alike(mAdapters', mAdapters')
        BY <3>2 DEF Alike
      <3> QED
        BY <2>4, <3>1, <3>2, <3>3, <3>4, HeldFewer
    <2> QED
      BY <1>6, <2>5, <2>6, <2>7 DEF HandleObjectRemoved
  <1>7. CASE BluezStep
    BY <1>2, <1>7
    DEF BluezStep, BluezStarts, BluezStops, BluezAdds, BluezRemoves, service, watching
  <1>8. CASE UNCHANGED vars
    BY <1>2, <1>8 DEF vars, service, watching
  <1> QED
    BY <1>3, <1>4, <1>5, <1>6, <1>7, <1>8 DEF Next, Signal

\* A device is held by the adapter that is found for its path, whichever adapters were
\* listed before and since, and a manager has it: its removal reaches that adapter.
THEOREM RemovalsReachDevices == Spec => []DevicesFindable
  <1>1. Init => Held(mAdapters, Shown)
    BY DEF Init, Held
  <1>2. Inv /\ Watched /\ [Next]_vars => Watched'
    BY WatchedNext
  <1>3. Inv /\ Watched /\ Held(mAdapters, Shown) /\ [Next]_vars => Held(mAdapters, Shown)'
    BY HeldNext DEF Held, Shown
  <1>4. Held(mAdapters, Shown) => DevicesFindable
    BY DEF Held, Shown, DevicesFindable
  <1> QED
    BY <1>1, <1>2, <1>3, <1>4, SilAlways, WatchedInit, PTL DEF Spec
=============================================================================
