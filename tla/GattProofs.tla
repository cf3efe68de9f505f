------------------------------ MODULE GattProofs ------------------------------
(***************************************************************************)
(* Theorems about Gatt, for any devices, services and attributes, any ids  *)
(* and any bounds: the types, the client's view of the services, the       *)
(* freshness of the tables, the ids of the devices that wait to be         *)
(* connected again, and their timers.                                      *)
(***************************************************************************)
EXTENDS Gatt, TLAPS

tableVars == <<announced, known, services, stored, listed, cache, toldUuids, toldUp, leftUp>>

(***************************************************************************)
(* The shape of the attribute tree.                                        *)
(***************************************************************************)
\* Every attribute is below a service, and every service below a device.
LEMMA Tree ==
    /\ \A s \in Services : ServiceOf(s) = s /\ ParentOf[s] \in Devices /\ UuidOf[s] \in Services
    /\ \A a \in Paths : ServiceOf(a) \in Services /\ DeviceOf(a) \in Devices
    /\ \A c \in Chars : c \in Attributes /\ c \notin Services /\ ServiceOf(c) = ParentOf[c]
    /\ \A a \in Attributes \ Chars :
          ParentOf[a] \in Chars /\ ServiceOf(a) = ServiceOf(ParentOf[a])
  <1>1. \A s \in Services : ServiceOf(s) = s /\ ParentOf[s] \in Devices /\ UuidOf[s] \in Services
    BY GattAssumption DEF ServiceOf
  <1>2. \A c \in Chars : c \in Attributes /\ c \notin Services /\ ServiceOf(c) = ParentOf[c]
    BY GattAssumption DEF Chars, ServiceOf
  <1>3. \A a \in Attributes \ Chars : ParentOf[a] \in Chars /\ a \notin Services
    BY GattAssumption DEF Chars
  <1>4. \A a \in Attributes \ Chars : ServiceOf(a) = ServiceOf(ParentOf[a])
    BY <1>2, <1>3, GattAssumption DEF Chars, ServiceOf
  <1>5. \A a \in Paths : ServiceOf(a) \in Services
    BY <1>1, <1>2, <1>3, <1>4, GattAssumption DEF Paths, Chars
  <1> QED
    BY <1>1, <1>2, <1>3, <1>4, <1>5 DEF DeviceOf

(***************************************************************************)
(* Types.                                                                  *)
(***************************************************************************)
\* What the tables of attributes hold.
TablesTyped ==
    /\ announced \subseteq Paths
    /\ known \subseteq Devices
    /\ services \in [Devices -> SUBSET Services]
    /\ \A d \in Devices : \A s \in services[d] : ParentOf[s] = d
    /\ stored \subseteq Attributes /\ listed \subseteq Attributes
    /\ cache \in [Devices -> (SUBSET Paths) \union {None}]
    /\ toldUuids \in [Devices -> SUBSET Services]
    /\ toldUp \in [Devices -> BOOLEAN]
    /\ leftUp \subseteq Devices

\* What the tables of connections hold.
ConnsTyped ==
    /\ conns \in [Ids -> Devices \union {None}]
    /\ auto \in [Devices -> [armed : BOOLEAN, id : Ids] \union {None}]
    /\ sources \in [Devices -> Nat]
    /\ fired \in [Devices -> 0..MaxTimeouts]
    /\ calls \in [Slots -> Call \union {None}]
    /\ nextId \in 1..(MaxId + 1)

LEMMA TypeOKSplit == TypeOK <=> TablesTyped /\ ConnsTyped
  BY DEF TypeOK, TablesTyped, ConnsTyped

\* A copy made anew is well typed.
LEMMA SnapshotType ==
    ASSUME NEW svs \in [Devices -> SUBSET Services], NEW ls \in SUBSET Attributes
    PROVE  Snapshot(svs, ls) \in [Devices -> (SUBSET Paths) \union {None}]
  <1>1. \A d \in Devices : Listing(svs[d], ls) \in SUBSET Paths
    BY DEF Listing, Paths
  <1> QED
    BY <1>1 DEF Snapshot

\* The steps of the tables: an object comes or goes, the copy is made anew, a
\* device comes or goes.
LEMMA AddedTables ==
    ASSUME TablesTyped, NEW p \in Paths, HandleObjectAdded(p)
    PROVE  TablesTyped'
  <1>1. CASE p \in Services /\ CreateRemoteGattService(p) /\ UNCHANGED <<stored, listed>>
    <2> DEFINE d == ParentOf[p]
               svs == [services EXCEPT ![d] = @ \union {p}]
    <2>1. d \in Devices /\ UuidOf[p] \in Services
      BY <1>1, Tree
    <2>2. svs \in [Devices -> SUBSET Services] /\ \A e \in Devices : \A s \in svs[e] : ParentOf[s] = e
      BY <1>1, <2>1 DEF TablesTyped
    <2>3. Snapshot(svs, listed) \in [Devices -> (SUBSET Paths) \union {None}]
      BY <2>2, SnapshotType DEF TablesTyped
    <2>4. announced' \subseteq Paths /\ known' = known
      BY DEF TablesTyped, HandleObjectAdded
    <2>5. CASE d \notin known \/ SameUuid(p, d)
      BY <1>1, <2>4, <2>5 DEF TablesTyped, CreateRemoteGattService
    <2>6. CASE ~(d \notin known \/ SameUuid(p, d))
      <3>1. services' = svs /\ toldUuids' = [toldUuids EXCEPT ![d] = @ \union {UuidOf[p]}]
        BY <1>1, <2>6 DEF CreateRemoteGattService
      <3>2. cache' \in [Devices -> (SUBSET Paths) \union {None}] /\ leftUp' \subseteq Devices
            /\ toldUp' \in [Devices -> BOOLEAN]
        BY <1>1, <2>1, <2>3, <2>6 DEF TablesTyped, CreateRemoteGattService
      <3>3. toldUuids' \in [Devices -> SUBSET Services]
        BY <2>1, <3>1 DEF TablesTyped
      <3>4. stored' \subseteq Attributes /\ listed' \subseteq Attributes
        BY <1>1 DEF TablesTyped
      <3>5. services' \in [Devices -> SUBSET Services]
            /\ \A e \in Devices : \A s \in services'[e] : ParentOf[s] = e
        BY <2>2, <3>1
      <3>6. known' \subseteq Devices
        BY <2>4 DEF TablesTyped
      <3> QED
        BY <2>4, <3>2, <3>3, <3>4, <3>5, <3>6 DEF TablesTyped
    <2> QED
      BY <2>5, <2>6
  <1>2. CASE p \in Attributes /\ UNCHANGED <<services, cache, toldUuids, toldUp, leftUp>>
    <2>1. stored' \subseteq Attributes /\ listed' \subseteq Attributes
      BY <1>2 DEF TablesTyped, HandleObjectAdded, CreateRemoteGattCharacteristic,
                  CreateRemoteGattDescriptor, Chars
    <2> QED
      BY <1>2, <2>1 DEF TablesTyped, HandleObjectAdded
  <1> QED
    BY <1>1, <1>2 DEF HandleObjectAdded, Chars

LEMMA RemovedTables ==
    ASSUME TablesTyped, NEW p \in Paths, HandleObjectRemoved(p)
    PROVE  TablesTyped'
  <1>1. announced' \subseteq Paths /\ UNCHANGED <<known, cache, leftUp>>
    BY DEF TablesTyped, HandleObjectRemoved
  <1>2. CASE p \in Services /\ RemoveRemoteGattService(p)
    <2>1. ParentOf[p] \in Devices
      BY <1>2, Tree
    <2>2. CASE ParentOf[p] \notin known
      BY <1>1, <1>2, <2>2 DEF TablesTyped, RemoveRemoteGattService
    <2>3. CASE ParentOf[p] \in known
      <3>1. /\ services' = [services EXCEPT ![ParentOf[p]] = @ \ {p}]
            /\ stored' = {a \in stored : ServiceOf(a) # p}
            /\ listed' = {a \in listed : ServiceOf(a) # p}
            /\ toldUuids' = [toldUuids EXCEPT ![ParentOf[p]] =
                                IF p \in services[ParentOf[p]] THEN @ \ {UuidOf[p]} ELSE @]
            /\ toldUp' = [toldUp EXCEPT ![ParentOf[p]] = @ /\ services[ParentOf[p]] \ {p} # {}]
        BY <1>2, <2>3 DEF RemoveRemoteGattService
      <3>2. services' \in [Devices -> SUBSET Services]
            /\ \A d \in Devices : \A s \in services'[d] : ParentOf[s] = d
        BY <3>1 DEF TablesTyped
      <3>3. toldUuids' \in [Devices -> SUBSET Services]
        BY <3>1 DEF TablesTyped
      <3>4. toldUp' \in [Devices -> BOOLEAN]
        BY <3>1 DEF TablesTyped
      <3> QED
        BY <1>1, <3>1, <3>2, <3>3, <3>4 DEF TablesTyped
    <2> QED
      BY <2>2, <2>3
  <1>3. CASE stored' \subseteq stored /\ UNCHANGED <<services, listed, toldUuids, toldUp>>
    BY <1>1, <1>3 DEF TablesTyped
  <1>4. RemoveRemoteGattCharacteristic(p) \/ RemoveRemoteGattDescriptor(p) => stored' \subseteq stored
    BY DEF RemoveRemoteGattCharacteristic, RemoveRemoteGattDescriptor
  <1> QED
    BY <1>2, <1>3, <1>4 DEF HandleObjectRemoved

LEMMA CopiedTables ==
    ASSUME TablesTyped, (\E a \in Attributes : Access(a)) \/ (\E d \in Devices : DiscoverServices(d))
    PROVE  TablesTyped'
  <1>1. Snapshot(services, listed) \in [Devices -> (SUBSET Paths) \union {None}]
    BY SnapshotType DEF TablesTyped
  <1>2. CASE \E a \in Attributes : Access(a)
    BY <1>1, <1>2 DEF TablesTyped, Access, attrVars, ReadCharacteristic, WriteCharacteristic,
                      ReadDescriptor, WriteDescriptor, RebuildCopy
  <1>3. CASE \E d \in Devices : DiscoverServices(d)
    BY <1>1, <1>3 DEF TablesTyped, DiscoverServices, attrVars
  <1> QED
    BY <1>2, <1>3

LEMMA DeviceTables ==
    ASSUME TablesTyped, NEW d \in Devices, NEW up \in BOOLEAN, DeviceAdded(d) \/ RemoveDevice(d, up)
    PROVE  TablesTyped'
  <1>1. CASE DeviceAdded(d)
    BY <1>1 DEF TablesTyped, DeviceAdded, attrVars
  <1>2. CASE RemoveDevice(d, up)
    <2>1. CASE up
      BY <1>2, <2>1 DEF TablesTyped, RemoveDevice
    <2>2. CASE ~up
      <3>1. /\ known' = known \ {d} /\ leftUp' = leftUp \ {d}
            /\ services' = [services EXCEPT ![d] = {}]
            /\ cache' = [cache EXCEPT ![d] = None]
            /\ toldUp' = [toldUp EXCEPT ![d] = FALSE]
            /\ UNCHANGED <<announced, stored, listed, toldUuids>>
        BY <1>2, <2>2 DEF RemoveDevice, UpdateDeviceProperties
      <3>2. /\ services' \in [Devices -> SUBSET Services]
            /\ \A e \in Devices : \A s \in services'[e] : ParentOf[s] = e
        BY <3>1 DEF TablesTyped
      <3>3. cache' \in [Devices -> (SUBSET Paths) \union {None}] /\ toldUp' \in [Devices -> BOOLEAN]
        BY <3>1 DEF TablesTyped
      <3> QED
        BY <3>1, <3>2, <3>3 DEF TablesTyped
    <2> QED
      BY <2>1, <2>2
  <1> QED
    BY <1>1, <1>2

\* Connections touch no table.
ConnectionStep ==
    \/ \E d \in Devices : \/ \E a \in BOOLEAN : ConnectGatt(d, a)
                          \/ HandleAutoConnTimeout(d)
    \/ \E i \in Ids : DisconnectGatt(i)
    \/ \E k \in Slots : Reply(k)

LEMMA ConnectionsFrame == ConnectionStep => UNCHANGED tableVars
  BY DEF ConnectionStep, tableVars, attrVars, ConnectGatt, HandleAutoConnTimeout, DisconnectGatt, Reply

(***************************************************************************)
(* The tables and the client's view of them.                               *)
(***************************************************************************)
\* Services belong to devices that are known and to objects BlueZ shows, no two of
\* a device have one UUID, and an attribute is stored below what is stored.
Rooted ==
    /\ \A d \in Devices : /\ services[d] \subseteq announced
                          /\ services[d] # {} => d \in known
    /\ \A d \in Devices : \A s, t \in services[d] : UuidOf[s] = UuidOf[t] => s = t
    /\ \A a \in stored : /\ a \in announced
                         /\ ServiceOf(a) \in services[DeviceOf(a)]
                         /\ a \notin Chars => ParentOf[a] \in stored

CopyGoes == \A d \in Devices : d \notin known \union leftUp => cache[d] = None

TablesInv == TablesTyped /\ Rooted /\ CopyGoes /\ ToldIsTable

\* A copy made anew has nothing of a device that has no service.
LEMMA SnapshotNone ==
    ASSUME NEW svs, NEW ls, NEW d \in Devices, svs[d] = {}
    PROVE  Snapshot(svs, ls)[d] = None
  BY DEF Snapshot

LEMMA AddedInv ==
    ASSUME TablesInv, NEW p \in Paths, HandleObjectAdded(p)
    PROVE  TablesInv'
  <1> USE DEF TablesInv
  <1>1. TablesTyped'
    BY AddedTables
  <1>2. announced' = announced \union {p} /\ known' = known
    BY DEF HandleObjectAdded
  <1>3. CASE p \in Services /\ CreateRemoteGattService(p) /\ UNCHANGED <<stored, listed>>
    <2> DEFINE d == ParentOf[p]
               svs == [services EXCEPT ![d] = @ \union {p}]
    <2>1. d \in Devices /\ UuidOf[p] \in Services
      BY <1>3, Tree
    <2>2. CASE d \notin known \/ SameUuid(p, d)
      <3>1. UNCHANGED <<services, cache, toldUuids, toldUp, leftUp>>
        BY <1>3, <2>2 DEF CreateRemoteGattService
      <3>2. Rooted'
        BY <1>2, <1>3, <3>1 DEF Rooted
      <3>3. CopyGoes' /\ ToldIsTable'
        BY <1>2, <3>1 DEF CopyGoes, ToldIsTable
      <3> QED
        BY <1>1, <3>2, <3>3
    <2>3. CASE ~(d \notin known \/ SameUuid(p, d))
      <3>1. services' = svs /\ toldUuids' = [toldUuids EXCEPT ![d] = @ \union {UuidOf[p]}]
        BY <1>3, <2>3 DEF CreateRemoteGattService
      <3>2. \A t \in services[d] : UuidOf[t] # UuidOf[p]
        BY <2>3 DEF SameUuid
      <3>3. /\ services'[d] = services[d] \union {p}
            /\ \A e \in Devices : e # d => services'[e] = services[e]
            /\ toldUuids'[d] = toldUuids[d] \union {UuidOf[p]}
            /\ \A e \in Devices : e # d => toldUuids'[e] = toldUuids[e]
        BY <2>1, <3>1 DEF TablesTyped
      <3>4. Rooted'
        <4>1. \A e \in Devices : services'[e] \subseteq announced' /\ (services'[e] # {} => e \in known')
          BY <1>2, <2>3, <3>3 DEF Rooted
        <4>2. \A e \in Devices : \A s, t \in services'[e] : UuidOf[s] = UuidOf[t] => s = t
          BY <3>2, <3>3 DEF Rooted
        <4>3. \A a \in stored' : /\ a \in announced'
                                 /\ ServiceOf(a) \in services'[DeviceOf(a)]
                                 /\ a \notin Chars => ParentOf[a] \in stored'
          BY <1>2, <1>3, <3>3, Tree DEF Rooted, TablesTyped, Paths
        <4> QED
          BY <4>1, <4>2, <4>3 DEF Rooted
      <3>5. ToldIsTable'
        <4>0. toldUuids'[d] = {UuidOf[s] : s \in services'[d]}
          BY <2>1, <3>3 DEF ToldIsTable
        <4>1. CASE services[d] = {}
          <5>1. toldUp' = [toldUp EXCEPT ![d] = TRUE]
            BY <1>3, <2>3, <4>1 DEF CreateRemoteGattService
          <5>2. toldUp'[d] = TRUE /\ \A e \in Devices : e # d => toldUp'[e] = toldUp[e]
            BY <2>1, <5>1 DEF TablesTyped
          <5>3. services'[d] # {}
            BY <3>3
          <5>4. ASSUME NEW e \in Devices, e # d
                PROVE  /\ services'[e] = services[e] /\ toldUuids'[e] = toldUuids[e]
                       /\ toldUp'[e] = toldUp[e]
            BY <3>3, <5>2, <5>4
          <5> QED
            BY <4>0, <5>2, <5>3, <5>4 DEF ToldIsTable
        <4>2. CASE services[d] # {}
          <5>1. toldUp' = toldUp
            BY <1>3, <2>3, <4>2 DEF CreateRemoteGattService
          <5> QED
            BY <2>1, <3>3, <4>0, <4>2, <5>1 DEF ToldIsTable, TablesTyped
        <4> QED
          BY <4>1, <4>2
      <3>6. CopyGoes'
        <4>1. CASE services[d] = {}
          <5>1. cache' = cache /\ leftUp' = leftUp
            BY <1>3, <2>3, <4>1 DEF CreateRemoteGattService
          <5> QED
            BY <1>2, <5>1 DEF CopyGoes
        <4>2. CASE services[d] # {}
          <5>1. cache' = Snapshot(svs, listed)
            BY <1>3, <2>3, <4>2 DEF CreateRemoteGattService
          <5>2. \A e \in Devices : e \notin known => svs[e] = {}
            BY <2>3, <3>1, <3>3 DEF Rooted
          <5> HIDE DEF svs
          <5>3. ASSUME NEW e \in Devices, e \notin known
                PROVE  Snapshot(svs, listed)[e] = None
            <6>1. svs[e] = {}
              BY <5>2, <5>3
            <6> QED
              BY <6>1, SnapshotNone
          <5> QED
            BY <1>2, <5>1, <5>3 DEF CopyGoes
        <4> QED
          BY <4>1, <4>2
      <3> QED
        BY <1>1, <3>4, <3>5, <3>6
    <2> QED
      BY <2>2, <2>3
  <1>4. CASE p \in Attributes /\ UNCHANGED <<services, cache, toldUuids, toldUp, leftUp>>
    <2>1. CASE stored' = stored
      BY <1>1, <1>2, <1>4, <2>1 DEF Rooted, CopyGoes, ToldIsTable
    <2>2. CASE stored' = stored \union {p} /\ ServiceOf(p) \in services[DeviceOf(p)]
               /\ (p \notin Chars => ParentOf[p] \in stored)
      BY <1>1, <1>2, <1>4, <2>2 DEF Rooted, CopyGoes, ToldIsTable
    <2>3. CASE p \in Chars /\ CreateRemoteGattCharacteristic(p)
      BY <2>1, <2>2, <2>3, Tree DEF CreateRemoteGattCharacteristic, GetRemoteGattService, DeviceOf
    <2>4. CASE p \notin Chars /\ CreateRemoteGattDescriptor(p)
      BY <2>1, <2>2, <2>4 DEF CreateRemoteGattDescriptor, GetRemoteGattService, DeviceOf
    <2> QED
      BY <1>4, <2>3, <2>4, GattAssumption DEF HandleObjectAdded
  <1> QED
    BY <1>3, <1>4 DEF HandleObjectAdded, Chars

LEMMA RemovedInv ==
    ASSUME TablesInv, NEW p \in Paths, HandleObjectRemoved(p)
    PROVE  TablesInv'
  <1> USE DEF TablesInv
  <1>1. TablesTyped'
    BY RemovedTables
  <1>2. /\ announced' = announced \ {p} /\ UNCHANGED <<known, cache, leftUp>>
        /\ \A q \in announced : ParentOf[q] # p
    BY DEF HandleObjectRemoved
  <1>3. CopyGoes'
    BY <1>2 DEF CopyGoes
  <1>4. CASE p \in Services /\ RemoveRemoteGattService(p)
    <2> DEFINE d == ParentOf[p]
    <2>1. d \in Devices /\ UuidOf[p] \in Services
      BY <1>4, Tree
    <2>2. CASE d \notin known
      <3>1. UNCHANGED <<services, stored, listed, toldUuids, toldUp>>
        BY <1>4, <2>2 DEF RemoveRemoteGattService
      <3>2. \A e \in Devices : p \notin services[e]
        BY <2>2 DEF Rooted, TablesTyped
      <3>3. p \notin stored
        BY <1>4, GattAssumption DEF TablesTyped
      <3> QED
        BY <1>1, <1>2, <1>3, <3>1, <3>2, <3>3 DEF Rooted, ToldIsTable
    <2>3. CASE d \in known
      <3>1. /\ services' = [services EXCEPT ![d] = @ \ {p}]
            /\ stored' = {a \in stored : ServiceOf(a) # p}
            /\ toldUuids' = [toldUuids EXCEPT ![d] = IF p \in services[d] THEN @ \ {UuidOf[p]} ELSE @]
            /\ toldUp' = [toldUp EXCEPT ![d] = @ /\ services[d] \ {p} # {}]
        BY <1>4, <2>3 DEF RemoveRemoteGattService
      <3>2. /\ services'[d] = services[d] \ {p}
            /\ \A e \in Devices : e # d => services'[e] = services[e] /\ p \notin services[e]
        BY <2>1, <3>1 DEF TablesTyped
      <3>3. Rooted'
        <4>1. \A e \in Devices : services'[e] \subseteq announced' /\ (services'[e] # {} => e \in known')
          BY <1>2, <3>2 DEF Rooted
        <4>2. \A e \in Devices : \A s, t \in services'[e] : UuidOf[s] = UuidOf[t] => s = t
          BY <3>2 DEF Rooted
        <4>3. \A a \in stored' : /\ a \in announced'
                                 /\ ServiceOf(a) \in services'[DeviceOf(a)]
                                 /\ a \notin Chars => ParentOf[a] \in stored'
          <5> SUFFICES ASSUME NEW a \in stored'
                       PROVE  /\ a \in announced'
                              /\ ServiceOf(a) \in services'[DeviceOf(a)]
                              /\ a \notin Chars => ParentOf[a] \in stored'
            OBVIOUS
          <5>1. a \in stored /\ ServiceOf(a) # p /\ a \in Attributes /\ a \in Paths
            BY <3>1 DEF TablesTyped, Paths
          <5>2. a # p
            BY <1>4, <5>1, GattAssumption
          <5>3. a \notin Chars => ServiceOf(ParentOf[a]) = ServiceOf(a)
            BY <5>1, Tree
          <5> QED
            BY <1>2, <3>1, <3>2, <5>1, <5>2, <5>3, Tree DEF Rooted
        <4> QED
          BY <4>1, <4>2, <4>3 DEF Rooted
      <3>4. ToldIsTable'
        <4>1. toldUuids'[d] = {UuidOf[s] : s \in services'[d]}
          <5>1. toldUuids[d] = {UuidOf[s] : s \in services[d]}
            BY <2>1 DEF ToldIsTable
          <5>2. p \in services[d] => \A s \in services[d] : UuidOf[s] = UuidOf[p] => s = p
            BY <2>1 DEF Rooted
          <5>3. toldUuids'[d] = IF p \in services[d] THEN toldUuids[d] \ {UuidOf[p]} ELSE toldUuids[d]
            BY <2>1, <3>1 DEF TablesTyped
          <5> QED
            BY <3>2, <5>1, <5>2, <5>3
        <4>2. toldUp'[d] = (services'[d] # {})
          <5>1. toldUp[d] = (services[d] # {})
            BY <2>1 DEF ToldIsTable
          <5>2. toldUp'[d] = (toldUp[d] /\ services[d] \ {p} # {})
            BY <2>1, <3>1 DEF TablesTyped
          <5> QED
            BY <3>2, <5>1, <5>2
        <4>3. \A e \in Devices : e # d => toldUuids'[e] = toldUuids[e] /\ toldUp'[e] = toldUp[e]
          BY <2>1, <3>1 DEF TablesTyped
        <4> QED
          BY <3>2, <4>1, <4>2, <4>3 DEF ToldIsTable
      <3> QED
        BY <1>1, <1>3, <3>3, <3>4
    <2> QED
      BY <2>2, <2>3
  <1>5. CASE p \in Attributes /\ UNCHANGED <<services, toldUuids, toldUp>>
    <2>1. ToldIsTable'
      BY <1>5 DEF ToldIsTable
    <2>2. \A d \in Devices : p \notin services[d]
      BY <1>5, GattAssumption DEF TablesTyped
    <2>3. \A a \in stored : a \notin Chars => ParentOf[a] # p
      BY <1>2 DEF Rooted
    <2>4. CASE stored' = {a \in stored : a # p /\ ParentOf[a] # p} \/ stored' = stored \ {p}
          \/ (stored' = stored /\ p \notin stored)
      <3>1. \A a \in stored' : a \in stored /\ a # p
        BY <2>4
      <3>2. \A a \in stored : a # p /\ ParentOf[a] # p => a \in stored'
        BY <2>4
      <3>3. \A a \in stored' : a \notin Chars => ParentOf[a] \in stored'
        <4> SUFFICES ASSUME NEW a \in stored', a \notin Chars
                     PROVE  ParentOf[a] \in stored'
          OBVIOUS
        <4>1. a \in stored /\ a \in Attributes \ Chars /\ ParentOf[a] \in stored /\ ParentOf[a] # p
          BY <2>3, <3>1 DEF Rooted, TablesTyped
        <4>2. ParentOf[a] \in Chars
          BY <4>1, Tree
        <4>3. ParentOf[ParentOf[a]] # p
          BY <1>5, <4>2, GattAssumption DEF Chars
        <4> QED
          BY <3>2, <4>1, <4>3
      <3>4. \A a \in stored' : a \in announced' /\ ServiceOf(a) \in services'[DeviceOf(a)]
        BY <1>2, <1>5, <3>1 DEF Rooted
      <3>5. \A d \in Devices : services'[d] \subseteq announced' /\ (services'[d] # {} => d \in known')
        BY <1>2, <1>5, <2>2 DEF Rooted
      <3>6. \A d \in Devices : \A s, t \in services'[d] : UuidOf[s] = UuidOf[t] => s = t
        BY <1>5 DEF Rooted
      <3>7. Rooted'
        BY <3>3, <3>4, <3>5, <3>6 DEF Rooted
      <3> QED
        BY <1>1, <1>3, <2>1, <3>7
    <2>5. p \in stored => GetRemoteGattService(ServiceOf(p)) /\ (p \notin Chars => ParentOf[p] \in stored)
      <3>1. p \in stored => ServiceOf(p) \in services[DeviceOf(p)] /\ DeviceOf(p) \in Devices
        BY Tree DEF Rooted
      <3> QED
        BY <3>1 DEF Rooted, GetRemoteGattService, DeviceOf
    <2>6. CASE p \in Chars /\ RemoveRemoteGattCharacteristic(p)
      BY <2>4, <2>5, <2>6, Tree DEF RemoveRemoteGattCharacteristic
    <2>7. CASE p \notin Chars /\ RemoveRemoteGattDescriptor(p)
      BY <2>4, <2>5, <2>7 DEF RemoveRemoteGattDescriptor
    <2> QED
      BY <1>5, <2>6, <2>7, GattAssumption DEF HandleObjectRemoved
  <1> QED
    BY <1>4, <1>5 DEF HandleObjectRemoved, Chars

LEMMA CopiedInv ==
    ASSUME TablesInv, (\E a \in Attributes : Access(a)) \/ (\E d \in Devices : DiscoverServices(d))
    PROVE  TablesInv'
  <1> USE DEF TablesInv
  <1>1. TablesTyped'
    BY CopiedTables
  <1>2. UNCHANGED <<announced, known, services, stored, toldUuids, toldUp>>
    BY DEF Access, DiscoverServices, attrVars
  <1>3. Rooted' /\ ToldIsTable'
    BY <1>2 DEF Rooted, ToldIsTable
  <1>4. \A d \in Devices : d \notin known => Snapshot(services, listed)[d] = None
    BY SnapshotNone DEF Rooted
  <1>5. CopyGoes'
    <2>1. CASE \E a \in Attributes : Access(a)
      <3>1. cache' = Snapshot(services, listed)
        BY <2>1 DEF Access, ReadCharacteristic, WriteCharacteristic, ReadDescriptor,
                    WriteDescriptor, RebuildCopy
      <3> QED
        BY <1>2, <1>4, <3>1 DEF CopyGoes
    <2>2. CASE \E d \in Devices : DiscoverServices(d)
      BY <1>2, <1>4, <2>2 DEF CopyGoes, DiscoverServices
    <2> QED
      BY <2>1, <2>2
  <1> QED
    BY <1>1, <1>3, <1>5

LEMMA DeviceInv ==
    ASSUME TablesInv, NEW d \in Devices, NEW up \in BOOLEAN, DeviceAdded(d) \/ RemoveDevice(d, up)
    PROVE  TablesInv'
  <1> USE DEF TablesInv
  <1>1. TablesTyped'
    BY DeviceTables
  <1>2. CASE DeviceAdded(d)
    BY <1>1, <1>2 DEF DeviceAdded, attrVars, Rooted, CopyGoes, ToldIsTable
  <1>3. CASE RemoveDevice(d, up)
    <2>1. /\ known' = known \ {d} /\ UNCHANGED <<announced, stored, toldUuids>>
          /\ \A p \in announced : DeviceOf(p) # d
      BY <1>3 DEF RemoveDevice
    <2>2. services[d] = {}
      BY <2>1, Tree DEF Rooted, TablesTyped, DeviceOf
    <2>3. services' = services
      BY <1>3, <2>2 DEF RemoveDevice, UpdateDeviceProperties, TablesTyped
    <2>4. \A e \in Devices : toldUp'[e] = toldUp[e]
      <3>1. toldUp[d] = FALSE
        BY <2>2 DEF ToldIsTable
      <3>2. toldUp' = toldUp \/ toldUp' = [toldUp EXCEPT ![d] = FALSE]
        BY <1>3 DEF RemoveDevice, UpdateDeviceProperties
      <3> QED
        BY <3>1, <3>2 DEF TablesTyped
    <2>5. CopyGoes'
      <3>1. CASE up
        BY <1>3, <2>1, <3>1 DEF RemoveDevice, CopyGoes
      <3>2. CASE ~up
        BY <1>3, <2>1, <3>2 DEF RemoveDevice, UpdateDeviceProperties, CopyGoes, TablesTyped
      <3> QED
        BY <3>1, <3>2
    <2>6. Rooted' /\ ToldIsTable'
      BY <2>1, <2>2, <2>3, <2>4 DEF Rooted, ToldIsTable
    <2> QED
      BY <1>1, <2>5, <2>6
  <1> QED
    BY <1>2, <1>3

LEMMA TablesInit == Init => TablesInv
  <1> SUFFICES ASSUME Init PROVE TablesInv
    OBVIOUS
  <1>1. TablesTyped
    BY DEF Init, TablesTyped
  <1>2. Rooted /\ CopyGoes
    BY DEF Init, Rooted, CopyGoes
  <1>3. ToldIsTable
    BY DEF Init, ToldIsTable
  <1> QED
    BY <1>1, <1>2, <1>3 DEF TablesInv

LEMMA TablesNext == TablesInv /\ [Next]_vars => TablesInv'
  <1> SUFFICES ASSUME TablesInv, [Next]_vars
               PROVE  TablesInv'
    OBVIOUS
  <1>1. CASE \E p \in Paths : HandleObjectAdded(p) \/ HandleObjectRemoved(p)
    BY <1>1, AddedInv, RemovedInv
  <1>2. CASE (\E a \in Attributes : Access(a)) \/ (\E d \in Devices : DiscoverServices(d))
    BY <1>2, CopiedInv
  <1>3. CASE \E d \in Devices : DeviceAdded(d) \/ \E up \in BOOLEAN : RemoveDevice(d, up)
    BY <1>3, DeviceInv
  <1>4. UNCHANGED tableVars => TablesInv'
    BY DEF tableVars, TablesInv, TablesTyped, Rooted, CopyGoes, ToldIsTable
  <1>5. CASE ConnectionStep
    BY <1>4, <1>5, ConnectionsFrame
  <1>6. CASE UNCHANGED vars
    BY <1>4, <1>6 DEF vars, tableVars
  <1> QED
    BY <1>1, <1>2, <1>3, <1>5, <1>6 DEF Next, ConnectionStep

\* What serviceFound, serviceLost and CONNECTED have told the client of a device
\* is what the table of services holds.
THEOREM ViewOfServices == Spec => []ToldIsTable
  <1>1. TablesInv => ToldIsTable
    BY DEF TablesInv
  <1> QED
    BY <1>1, TablesInit, TablesNext, PTL DEF Spec

\* No object of an attribute outlives the object of BlueZ it calls, and of a
\* device that left while it was not Connected getService finds nothing.
THEOREM NothingOutlivesBluez == Spec => []NothingStale
  <1>1. TablesInv => NothingStale
    BY DEF TablesInv, Rooted, CopyGoes, NothingStale
  <1> QED
    BY <1>1, TablesInit, TablesNext, PTL DEF Spec

(***************************************************************************)
(* The tables of connections.                                              *)
(***************************************************************************)
\* What starting a call, erasing an id and answering do to the calls.
LEMMA StartType ==
    ASSUME ConnsTyped, NEW kind \in {"connect", "reconnect", "disconnect"}, NEW d \in Devices,
           NEW i \in Ids, NEW a \in BOOLEAN, Start(NewCall(kind, d, i, a))
    PROVE  /\ calls' \in [Slots -> Call \union {None}]
           /\ \A k \in Slots : calls'[k] = calls[k] \/ calls'[k] = NewCall(kind, d, i, a)
  <1>1. NewCall(kind, d, i, a) \in Call
    BY DEF NewCall, Call
  <1> QED
    BY <1>1 DEF ConnsTyped, Start

LEMMA ErasedType ==
    ASSUME NEW cs \in [Slots -> Call \union {None}], NEW i \in Ids
    PROVE  /\ Erased(i, cs) \in [Slots -> Call \union {None}]
           /\ \A k \in Slots : Erased(i, cs)[k] # None =>
                 /\ cs[k] # None /\ Erased(i, cs)[k].dev = cs[k].dev
                 /\ Erased(i, cs)[k].id = cs[k].id
  <1>1. \A k \in Slots : cs[k] # None =>
           /\ [cs[k] EXCEPT !.entry = FALSE] \in Call
           /\ [cs[k] EXCEPT !.entry = FALSE].dev = cs[k].dev
           /\ [cs[k] EXCEPT !.entry = FALSE].id = cs[k].id
    BY DEF Call
  <1> QED
    BY <1>1 DEF Erased

\* Every id belongs to one device: that of the call that holds it, of the
\* connection that has it, of the device that waits with it.
IdsOwned ==
    /\ \A i \in Ids : conns[i] # None => i < nextId
    /\ \A k \in Slots : calls[k] # None =>
          /\ calls[k].id < nextId
          /\ conns[calls[k].id] \in {None, calls[k].dev}
    /\ \A j, k \in Slots : calls[j] # None /\ calls[k] # None /\ calls[j].id = calls[k].id
          => calls[j].dev = calls[k].dev

ConnsInv == ConnsTyped /\ IdsOwned /\ AutoConnectHasId /\ TimersOwned

LEMMA ConnsInit == Init => ConnsInv
  <1> SUFFICES ASSUME Init PROVE ConnsInv
    OBVIOUS
  <1>1. ConnsTyped
    BY GattAssumption DEF Init, ConnsTyped
  <1>2. IdsOwned /\ AutoConnectHasId
    BY DEF Init, IdsOwned, AutoConnectHasId
  <1>3. TimersOwned
    BY DEF Init, TimersOwned
  <1> QED
    BY <1>1, <1>2, <1>3 DEF ConnsInv

\* A step keeps the ids owned if it forgets connections and calls, or if it starts
\* a call with a new id or with one that is the device's already.
LEMMA Forgotten ==
    ASSUME ConnsTyped, IdsOwned, nextId' = nextId,
           \A i \in Ids : conns'[i] \in {conns[i], None},
           \A k \in Slots : calls'[k] # None =>
              calls[k] # None /\ calls'[k].dev = calls[k].dev /\ calls'[k].id = calls[k].id
    PROVE  IdsOwned'
  <1>1. \A k \in Slots : calls[k] # None => calls[k].id \in Ids
    BY DEF ConnsTyped, Call
  <1> QED
    BY <1>1 DEF IdsOwned

LEMMA Started ==
    ASSUME ConnsTyped, IdsOwned, NEW d \in Devices, NEW i \in Ids,
           conns' = conns, nextId' \in {nextId, nextId + 1}, i < nextId',
           i = nextId \/ conns[i] = d,
           \A k \in Slots : calls'[k] = calls[k] \/ (calls'[k].dev = d /\ calls'[k].id = i)
    PROVE  IdsOwned'
  <1>1. \A k \in Slots : calls[k] # None => calls[k].id \in Ids /\ calls[k].dev \in Devices
    BY DEF ConnsTyped, Call
  <1>2. d # None /\ nextId \in Nat
    BY GattAssumption DEF ConnsTyped
  <1>3. \A k \in Slots : calls[k] # None /\ calls[k].id = i => calls[k].dev = d
    BY <1>1, <1>2 DEF IdsOwned, Ids
  <1>4. conns[i] \in {None, d}
    BY <1>2 DEF IdsOwned, Ids
  <1>5. \A j \in Ids : conns'[j] # None => j < nextId'
    BY <1>2 DEF IdsOwned, Ids
  <1>6. \A k \in Slots : calls'[k] # None =>
           calls'[k].id < nextId' /\ conns'[calls'[k].id] \in {None, calls'[k].dev}
    BY <1>1, <1>2, <1>4 DEF IdsOwned, Ids
  <1>7. \A j, k \in Slots : calls'[j] # None /\ calls'[k] # None /\ calls'[j].id = calls'[k].id
           => calls'[j].dev = calls'[k].dev
    BY <1>3 DEF IdsOwned
  <1> QED
    BY <1>5, <1>6, <1>7 DEF IdsOwned

\* handleAutoConnectReq keeps the count of timers, and the device waits with the id
\* it is given or not at all.
LEMMA RequestTimers ==
    ASSUME ConnsTyped, TimersOwned, NEW on \in BOOLEAN, NEW d \in Devices, NEW i \in Ids,
           HandleAutoConnectReq(on, d, i), fired' = fired
    PROVE  /\ auto' \in [Devices -> [armed : BOOLEAN, id : Ids] \union {None}]
           /\ sources' \in [Devices -> Nat]
           /\ TimersOwned'
           /\ \A e \in Devices : e # d => auto'[e] = auto[e]
           /\ auto'[d] # None => auto'[d].id = i
  <1> DEFINE new == IF on THEN [armed |-> FALSE, id |-> i] ELSE None
  <1>1. new \in [armed : BOOLEAN, id : Ids] \union {None}
    OBVIOUS
  <1>2. auto' = [auto EXCEPT ![d] = new]
    BY DEF HandleAutoConnectReq
  <1>3. sources' = [sources EXCEPT ![d] = IF auto[d] # None /\ auto[d].armed THEN @ - 1 ELSE @]
    BY DEF HandleAutoConnectReq
  <1>4. sources[d] = fired[d] + (IF auto[d] # None /\ auto[d].armed THEN 1 ELSE 0)
    BY DEF TimersOwned
  <1>5. fired[d] \in Nat
    BY DEF ConnsTyped
  <1>6. auto'[d] = new /\ \A e \in Devices : e # d => auto'[e] = auto[e]
    BY <1>2 DEF ConnsTyped
  <1>7. sources'[d] = fired[d] /\ \A e \in Devices : e # d => sources'[e] = sources[e]
    BY <1>3, <1>4, <1>5 DEF ConnsTyped
  <1>8. ~(auto'[d] # None /\ auto'[d].armed)
    BY <1>6
  <1>9. TimersOwned'
    BY <1>5, <1>6, <1>7, <1>8 DEF TimersOwned
  <1>10. sources' \in [Devices -> Nat]
    BY <1>3, <1>5, <1>7 DEF ConnsTyped
  <1>11. auto' \in [Devices -> [armed : BOOLEAN, id : Ids] \union {None}]
    BY <1>1, <1>2 DEF ConnsTyped
  <1> QED
    BY <1>6, <1>9, <1>10, <1>11

\* A reply that gives an id its device keeps the ids owned.
LEMMA Given ==
    ASSUME ConnsTyped, IdsOwned, NEW k \in Slots, calls[k] # None, nextId' = nextId,
           conns' = [conns EXCEPT ![calls[k].id] = calls[k].dev] \/ conns' = conns,
           calls' = [calls EXCEPT ![k] = None]
    PROVE  /\ IdsOwned'
           /\ \A i \in Ids : conns[i] # None => conns'[i] = conns[i]
           /\ conns' \in [Ids -> Devices \union {None}]
  <1>1. calls[k] \in Call /\ calls[k].id \in Ids /\ calls[k].dev \in Devices
    BY DEF ConnsTyped, Call
  <1>2. calls[k].dev # None
    BY <1>1, GattAssumption
  <1>3. \A j \in Slots : calls'[j] # None => calls[j] # None /\ calls'[j] = calls[j]
    BY DEF ConnsTyped
  <1>4. \A i \in Ids : conns'[i] = conns[i] \/ (i = calls[k].id /\ conns'[i] = calls[k].dev)
    BY DEF ConnsTyped
  <1>5. \A i \in Ids : conns'[i] # None => i < nextId'
    BY <1>4 DEF IdsOwned
  <1>6. \A j \in Slots : calls'[j] # None =>
           calls'[j].id < nextId' /\ conns'[calls'[j].id] \in {None, calls'[j].dev}
    <2> SUFFICES ASSUME NEW j \in Slots, calls'[j] # None
                 PROVE  calls'[j].id < nextId' /\ conns'[calls'[j].id] \in {None, calls'[j].dev}
      OBVIOUS
    <2>1. calls'[j] = calls[j] /\ calls[j] # None /\ calls[j].id \in Ids
      BY <1>3 DEF ConnsTyped, Call
    <2>2. calls[j].id = calls[k].id => calls[j].dev = calls[k].dev
      BY <2>1 DEF IdsOwned
    <2>3. calls[j].id < nextId /\ conns[calls[j].id] \in {None, calls[j].dev}
      BY <2>1 DEF IdsOwned
    <2> QED
      BY <1>4, <2>1, <2>2, <2>3
  <1>7. \A i, j \in Slots : calls'[i] # None /\ calls'[j] # None /\ calls'[i].id = calls'[j].id
           => calls'[i].dev = calls'[j].dev
    BY <1>3 DEF IdsOwned
  <1>8. \A i \in Ids : conns[i] # None => conns'[i] = conns[i]
    BY <1>1, <1>4 DEF IdsOwned
  <1>9. conns' \in [Ids -> Devices \union {None}]
    BY <1>1 DEF ConnsTyped
  <1> QED
    BY <1>5, <1>6, <1>7, <1>8, <1>9 DEF IdsOwned

LEMMA ConnectInv ==
    ASSUME ConnsInv, NEW d \in Devices, NEW a \in BOOLEAN, ConnectGatt(d, a)
    PROVE  ConnsInv'
  <1> USE DEF ConnsInv
  <1>1. nextId \in Ids /\ nextId' = nextId + 1 /\ UNCHANGED <<conns, auto, sources, fired>>
    BY DEF ConnectGatt
  <1>2. MaxId \in Nat /\ nextId' \in 1..(MaxId + 1) /\ nextId < nextId'
    BY <1>1, GattAssumption DEF Ids
  <1>3. AutoConnectHasId' /\ TimersOwned'
    BY <1>1 DEF AutoConnectHasId, TimersOwned
  <1>4. CASE UNCHANGED calls
    <2>1. \A k \in Slots : calls[k] # None => calls[k].id \in Ids
      BY DEF ConnsTyped, Call
    <2>2. ConnsTyped'
      BY <1>1, <1>2, <1>4 DEF ConnsTyped
    <2>3. IdsOwned'
      BY <1>1, <1>2, <1>4, <2>1 DEF IdsOwned, Ids
    <2> QED
      BY <1>3, <2>2, <2>3
  <1>5. ASSUME NEW i \in Ids, i = nextId \/ conns[i] = d, Start(NewCall("connect", d, i, a))
        PROVE  ConnsInv'
    <2>1. /\ calls' \in [Slots -> Call \union {None}]
          /\ \A k \in Slots : calls'[k] = calls[k] \/ calls'[k] = NewCall("connect", d, i, a)
      BY <1>5, StartType
    <2>2. \A k \in Slots : calls'[k] = calls[k] \/ (calls'[k].dev = d /\ calls'[k].id = i)
      BY <2>1 DEF NewCall
    <2>3. d # None
      BY GattAssumption
    <2>4. i < nextId'
      BY <1>1, <1>2, <1>5, <2>3 DEF IdsOwned, Ids
    <2>5. IdsOwned'
      BY <1>1, <1>5, <2>2, <2>4, Started
    <2>6. ConnsTyped'
      BY <1>1, <1>2, <2>1 DEF ConnsTyped
    <2> QED
      BY <1>3, <2>5, <2>6
  <1> QED
    BY <1>1, <1>4, <1>5 DEF ConnectGatt, IdsOf

LEMMA DisconnectInv ==
    ASSUME ConnsInv, TablesTyped, NEW i \in Ids, DisconnectGatt(i)
    PROVE  ConnsInv'
  <1> USE DEF ConnsInv
  <1> DEFINE d == conns[i]
  <1>1. /\ d \in Devices /\ d # None
        /\ Start(NewCall("disconnect", d, i, FALSE))
        /\ UNCHANGED <<conns, auto, sources, fired, nextId>>
    BY GattAssumption DEF DisconnectGatt, TablesTyped
  <1>2. /\ calls' \in [Slots -> Call \union {None}]
        /\ \A k \in Slots : calls'[k] = calls[k] \/ calls'[k] = NewCall("disconnect", d, i, FALSE)
    BY <1>1, StartType
  <1>3. \A k \in Slots : calls'[k] = calls[k] \/ (calls'[k].dev = d /\ calls'[k].id = i)
    BY <1>2 DEF NewCall
  <1>4. i < nextId'
    BY <1>1 DEF IdsOwned
  <1>5. IdsOwned'
    BY <1>1, <1>3, <1>4, Started
  <1>6. ConnsTyped'
    BY <1>1, <1>2 DEF ConnsTyped
  <1> QED
    BY <1>1, <1>5, <1>6 DEF AutoConnectHasId, TimersOwned

LEMMA ReplyInv ==
    ASSUME ConnsInv, NEW k \in Slots, Reply(k)
    PROVE  ConnsInv'
  <1> USE DEF ConnsInv
  <1> DEFINE c == calls[k]
             rest == [calls EXCEPT ![k] = None]
  <1>1. calls[k] # None /\ UNCHANGED <<fired, nextId>>
    BY DEF Reply
  <1>2. c \in Call /\ c.id \in Ids /\ c.dev \in Devices /\ c.dev # None /\ c.auto \in BOOLEAN
    BY <1>1, GattAssumption DEF ConnsTyped, Call
  <1>3. rest \in [Slots -> Call \union {None}]
    BY DEF ConnsTyped
  <1>4. conns[c.id] \in {None, c.dev}
    BY <1>1 DEF IdsOwned
  <1>5. CASE UNCHANGED <<auto, sources>> /\ calls' = rest
             /\ (conns' = [conns EXCEPT ![c.id] = c.dev] \/ conns' = conns)
    <2>1. /\ IdsOwned' /\ conns' \in [Ids -> Devices \union {None}]
          /\ \A i \in Ids : conns[i] # None => conns'[i] = conns[i]
      BY <1>1, <1>5, Given
    <2>2. ConnsTyped'
      BY <1>1, <1>3, <1>5, <2>1 DEF ConnsTyped
    <2>3. AutoConnectHasId'
      <3>1. \A d \in Devices : auto[d] # None => auto[d].id \in Ids /\ d # None
        BY GattAssumption DEF ConnsTyped
      <3> QED
        BY <1>5, <2>1, <3>1 DEF AutoConnectHasId
    <2>4. TimersOwned'
      BY <1>1, <1>5 DEF TimersOwned
    <2> QED
      BY <2>1, <2>2, <2>3, <2>4
  <1>6. CASE /\ HandleAutoConnectReq(c.auto, c.dev, c.id) /\ calls' = rest
             /\ conns' = [conns EXCEPT ![c.id] = IF @ = None THEN c.dev ELSE @]
    <2>1. conns' = [conns EXCEPT ![c.id] = c.dev]
      BY <1>2, <1>4, <1>6 DEF ConnsTyped
    <2>2. /\ IdsOwned' /\ conns' \in [Ids -> Devices \union {None}]
          /\ \A i \in Ids : conns[i] # None => conns'[i] = conns[i]
      BY <1>1, <1>6, <2>1, Given
    <2>3. /\ auto' \in [Devices -> [armed : BOOLEAN, id : Ids] \union {None}]
          /\ sources' \in [Devices -> Nat]
          /\ TimersOwned'
          /\ \A e \in Devices : e # c.dev => auto'[e] = auto[e]
          /\ auto'[c.dev] # None => auto'[c.dev].id = c.id
      BY <1>1, <1>2, <1>6, RequestTimers
    <2>4. ConnsTyped'
      BY <1>1, <1>3, <1>6, <2>2, <2>3 DEF ConnsTyped
    <2>5. AutoConnectHasId'
      <3>1. conns'[c.id] = c.dev
        BY <1>2, <2>1 DEF ConnsTyped
      <3>2. \A d \in Devices : auto[d] # None => auto[d].id \in Ids /\ d # None
        BY GattAssumption DEF ConnsTyped
      <3> QED
        BY <2>2, <2>3, <3>1, <3>2 DEF AutoConnectHasId
    <2> QED
      BY <2>2, <2>3, <2>4, <2>5
  <1>7. CASE /\ HandleAutoConnectReq(FALSE, c.dev, c.id)
             /\ conns' = IF c.entry THEN [conns EXCEPT ![c.id] = None] ELSE conns
             /\ calls' = IF c.entry THEN Erased(c.id, rest) ELSE rest
    <2>1. /\ auto' \in [Devices -> [armed : BOOLEAN, id : Ids] \union {None}]
          /\ sources' \in [Devices -> Nat]
          /\ TimersOwned'
          /\ \A e \in Devices : e # c.dev => auto'[e] = auto[e]
      BY <1>1, <1>2, <1>7, RequestTimers
    <2>2. auto'[c.dev] = None
      BY <1>2, <1>7 DEF HandleAutoConnectReq, ConnsTyped
    <2>3. /\ calls' \in [Slots -> Call \union {None}]
          /\ \A j \in Slots : calls'[j] # None =>
                rest[j] # None /\ calls'[j].dev = rest[j].dev /\ calls'[j].id = rest[j].id
      <3>1. /\ Erased(c.id, rest) \in [Slots -> Call \union {None}]
            /\ \A j \in Slots : Erased(c.id, rest)[j] # None =>
                  /\ rest[j] # None /\ Erased(c.id, rest)[j].dev = rest[j].dev
                  /\ Erased(c.id, rest)[j].id = rest[j].id
        BY <1>2, <1>3, ErasedType
      <3> QED
        BY <1>3, <1>7, <3>1
    <2>4. \A j \in Slots : calls'[j] # None =>
             calls[j] # None /\ calls'[j].dev = calls[j].dev /\ calls'[j].id = calls[j].id
      BY <2>3 DEF ConnsTyped
    <2>5. \A i \in Ids : conns'[i] \in {conns[i], None} /\ (i # c.id => conns'[i] = conns[i])
      BY <1>7 DEF ConnsTyped
    <2>6. IdsOwned'
      BY <1>1, <2>4, <2>5, Forgotten
    <2>7. conns' \in [Ids -> Devices \union {None}]
      BY <1>2, <1>7 DEF ConnsTyped
    <2>8. ConnsTyped'
      BY <1>1, <2>1, <2>3, <2>7 DEF ConnsTyped
    <2>9. AutoConnectHasId'
      <3>1. \A d \in Devices : auto[d] # None => auto[d].id \in Ids /\ d # None
        BY GattAssumption DEF ConnsTyped
      <3> QED
        BY <1>4, <2>1, <2>2, <2>5, <3>1 DEF AutoConnectHasId
    <2> QED
      BY <2>1, <2>6, <2>8, <2>9
  <1>8. CASE ConnectReply(k, c)
    BY <1>5, <1>6, <1>8 DEF ConnectReply, Answer
  <1>9. CASE ReconnectReply(k, c)
    BY <1>5, <1>9 DEF ReconnectReply, Answer
  <1>10. CASE DisconnectReply(k, c)
    BY <1>5, <1>7, <1>10 DEF DisconnectReply, Answer
  <1> QED
    BY <1>8, <1>9, <1>10 DEF Reply

\* Arming or disarming an entry keeps its id.
LEMMA Rearmed ==
    ASSUME NEW r \in [armed : BOOLEAN, id : Ids], NEW b \in BOOLEAN
    PROVE  /\ [r EXCEPT !.armed = b] \in [armed : BOOLEAN, id : Ids]
           /\ [r EXCEPT !.armed = b].armed = b
           /\ [r EXCEPT !.armed = b].id = r.id
  OBVIOUS

\* A device that comes back is connected again with the id it waits with, and its
\* timer is taken away.
LEMMA ComesBackInv ==
    ASSUME ConnsInv, NEW d \in Devices, DeviceAdded(d)
    PROVE  ConnsInv'
  <1> USE DEF ConnsInv
  <1>1. UNCHANGED <<conns, fired, nextId>>
    BY DEF DeviceAdded
  <1>2. CASE auto[d] = None
    <2>1. UNCHANGED <<conns, auto, sources, fired, calls, nextId>>
      BY <1>1, <1>2 DEF DeviceAdded
    <2> QED
      BY <2>1 DEF ConnsTyped, IdsOwned, AutoConnectHasId, TimersOwned
  <1>3. CASE auto[d] # None
    <2> DEFINE i == auto[d].id
    <2>1. /\ Start(NewCall("reconnect", d, i, FALSE))
          /\ auto' = [auto EXCEPT ![d].armed = FALSE]
          /\ sources' = [sources EXCEPT ![d] = IF auto[d].armed THEN @ - 1 ELSE @]
      BY <1>3 DEF DeviceAdded
    <2>2. auto[d] \in [armed : BOOLEAN, id : Ids] /\ i \in Ids
      BY <1>3 DEF ConnsTyped
    <2>3. conns[i] = d /\ i < nextId
      BY <1>3, <2>2, GattAssumption DEF AutoConnectHasId, IdsOwned
    <2>4. /\ calls' \in [Slots -> Call \union {None}]
          /\ \A k \in Slots : calls'[k] = calls[k] \/ calls'[k] = NewCall("reconnect", d, i, FALSE)
      BY <2>1, <2>2, StartType
    <2>5. \A k \in Slots : calls'[k] = calls[k] \/ (calls'[k].dev = d /\ calls'[k].id = i)
      BY <2>4 DEF NewCall
    <2>6. IdsOwned'
      BY <1>1, <2>2, <2>3, <2>5, Started
    <2>7. /\ auto'[d] \in [armed : BOOLEAN, id : Ids]
          /\ ~auto'[d].armed /\ auto'[d].id = i
          /\ \A e \in Devices : e # d => auto'[e] = auto[e]
          /\ auto' \in [Devices -> [armed : BOOLEAN, id : Ids] \union {None}]
      <3>1. auto'[d] = [auto[d] EXCEPT !.armed = FALSE]
            /\ \A e \in Devices : e # d => auto'[e] = auto[e]
        BY <2>1 DEF ConnsTyped
      <3>2. /\ [auto[d] EXCEPT !.armed = FALSE] \in [armed : BOOLEAN, id : Ids]
            /\ [auto[d] EXCEPT !.armed = FALSE].armed = FALSE
            /\ [auto[d] EXCEPT !.armed = FALSE].id = i
        BY <2>2, Rearmed
      <3>3. auto' \in [Devices -> [armed : BOOLEAN, id : Ids] \union {None}]
        BY <2>1, <3>2 DEF ConnsTyped
      <3> QED
        BY <3>1, <3>2, <3>3
    <2>8. AutoConnectHasId'
      <3>1. \A e \in Devices : e # d /\ auto'[e] # None => conns'[auto'[e].id] = e
        BY <1>1, <2>7 DEF AutoConnectHasId
      <3>2. conns'[auto'[d].id] = d
        BY <1>1, <2>3, <2>7
      <3> QED
        BY <3>1, <3>2 DEF AutoConnectHasId
    <2>9. sources'[d] = fired[d] /\ sources' \in [Devices -> Nat]
          /\ \A e \in Devices : e # d => sources'[e] = sources[e]
      <3>1. fired[d] \in Nat
        BY DEF ConnsTyped
      <3>2. sources[d] = fired[d] + (IF auto[d].armed THEN 1 ELSE 0)
        BY <1>3 DEF TimersOwned
      <3>3. (IF auto[d].armed THEN sources[d] - 1 ELSE sources[d]) = fired[d]
        BY <3>1, <3>2
      <3>4. sources' = [sources EXCEPT ![d] = fired[d]]
        BY <2>1, <3>3
      <3> QED
        BY <3>1, <3>4 DEF ConnsTyped
    <2>10. TimersOwned'
      <3>1. \A e \in Devices : e # d =>
               sources'[e] = fired'[e] + (IF auto'[e] # None /\ auto'[e].armed THEN 1 ELSE 0)
        BY <1>1, <2>7, <2>9 DEF TimersOwned
      <3>2. sources'[d] = fired'[d] + (IF auto'[d] # None /\ auto'[d].armed THEN 1 ELSE 0)
        BY <1>1, <2>7, <2>9 DEF ConnsTyped
      <3> QED
        BY <3>1, <3>2 DEF TimersOwned
    <2>11. ConnsTyped'
      BY <1>1, <2>4, <2>7, <2>9 DEF ConnsTyped
    <2> QED
      BY <2>6, <2>8, <2>10, <2>11
  <1> QED
    BY <1>2, <1>3

\* A device that is removed gives up an id only if it does not wait with it.
LEMMA GoesInv ==
    ASSUME ConnsInv, NEW d \in Devices, NEW up \in BOOLEAN, RemoveDevice(d, up)
    PROVE  ConnsInv'
  <1> USE DEF ConnsInv
  <1>1. UNCHANGED <<auto, sources, fired, nextId>>
    BY DEF RemoveDevice
  <1>2. TimersOwned'
    BY <1>1 DEF TimersOwned
  <1>3. CASE UNCHANGED <<conns, calls>>
    BY <1>1, <1>2, <1>3 DEF ConnsTyped, IdsOwned, AutoConnectHasId
  <1>4. ASSUME NEW i \in IdsOf(d), auto[d] = None,
               conns' = [conns EXCEPT ![i] = None], calls' = Erased(i, calls)
        PROVE  ConnsInv'
    <2>1. i \in Ids /\ conns[i] = d
      BY <1>4 DEF IdsOf
    <2>2. /\ calls' \in [Slots -> Call \union {None}]
          /\ \A k \in Slots : calls'[k] # None =>
                calls[k] # None /\ calls'[k].dev = calls[k].dev /\ calls'[k].id = calls[k].id
      BY <1>4, <2>1, ErasedType DEF ConnsTyped
    <2>3. \A j \in Ids : conns'[j] \in {conns[j], None} /\ (j # i => conns'[j] = conns[j])
      BY <1>4 DEF ConnsTyped
    <2>4. IdsOwned'
      BY <1>1, <2>2, <2>3, Forgotten
    <2>5. conns' \in [Ids -> Devices \union {None}]
      BY <1>4 DEF ConnsTyped
    <2>6. ConnsTyped'
      BY <1>1, <2>2, <2>5 DEF ConnsTyped
    <2>7. AutoConnectHasId'
      <3>1. \A e \in Devices : auto[e] # None => auto[e].id \in Ids /\ e # d
        BY <1>4 DEF ConnsTyped
      <3> QED
        BY <1>1, <2>1, <2>3, <3>1 DEF AutoConnectHasId
    <2> QED
      BY <1>2, <2>4, <2>6, <2>7
  <1> QED
    BY <1>3, <1>4 DEF RemoveDevice, UpdateDeviceProperties

LEMMA TimeoutInv ==
    ASSUME ConnsInv, NEW d \in Devices, HandleAutoConnTimeout(d)
    PROVE  ConnsInv'
  <1> USE DEF ConnsInv
  <1>1. UNCHANGED <<sources, nextId>>
    BY DEF HandleAutoConnTimeout
  <1>2. CASE UNCHANGED <<auto, conns, calls, fired>>
    BY <1>1, <1>2 DEF ConnsTyped, IdsOwned, AutoConnectHasId, TimersOwned
  <1>3. CASE auto[d] # None /\ auto[d].armed
    <2> DEFINE i == auto[d].id
    <2>1. /\ auto' = [auto EXCEPT ![d] = None]
          /\ conns' = [conns EXCEPT ![i] = None]
          /\ calls' = Erased(i, calls)
          /\ fired' = [fired EXCEPT ![d] = @ + 1]
          /\ fired[d] < MaxTimeouts
      BY <1>3 DEF HandleAutoConnTimeout
    <2>2. i \in Ids /\ conns[i] = d
      BY <1>3 DEF ConnsTyped, AutoConnectHasId
    <2>3. /\ calls' \in [Slots -> Call \union {None}]
          /\ \A k \in Slots : calls'[k] # None =>
                calls[k] # None /\ calls'[k].dev = calls[k].dev /\ calls'[k].id = calls[k].id
      BY <2>1, <2>2, ErasedType DEF ConnsTyped
    <2>4. \A j \in Ids : conns'[j] \in {conns[j], None} /\ (j # i => conns'[j] = conns[j])
      BY <2>1 DEF ConnsTyped
    <2>5. IdsOwned'
      BY <1>1, <2>3, <2>4, Forgotten
    <2>6. auto'[d] = None /\ \A e \in Devices : e # d => auto'[e] = auto[e]
      BY <2>1 DEF ConnsTyped
    <2>7. AutoConnectHasId'
      <3>1. \A e \in Devices : auto[e] # None => auto[e].id \in Ids
        BY DEF ConnsTyped
      <3> QED
        BY <2>2, <2>4, <2>6, <3>1 DEF AutoConnectHasId
    <2>8. fired[d] \in Nat /\ fired'[d] = fired[d] + 1
          /\ \A e \in Devices : e # d => fired'[e] = fired[e]
      BY <2>1 DEF ConnsTyped
    <2>9. TimersOwned'
      <3>1. sources'[d] = fired'[d]
        BY <1>1, <1>3, <2>8 DEF TimersOwned
      <3>2. sources'[d] = fired'[d] + (IF auto'[d] # None /\ auto'[d].armed THEN 1 ELSE 0)
        BY <2>6, <2>8, <3>1
      <3> QED
        BY <1>1, <2>6, <2>8, <3>2 DEF TimersOwned
    <2>10. ConnsTyped'
      <3>1. auto' \in [Devices -> [armed : BOOLEAN, id : Ids] \union {None}]
        BY <2>1 DEF ConnsTyped
      <3>2. conns' \in [Ids -> Devices \union {None}]
        BY <2>1 DEF ConnsTyped
      <3>3. fired' \in [Devices -> 0..MaxTimeouts]
        BY <2>1, <2>8, GattAssumption DEF ConnsTyped
      <3> QED
        BY <1>1, <2>3, <3>1, <3>2, <3>3 DEF ConnsTyped
    <2> QED
      BY <2>5, <2>7, <2>9, <2>10
  <1> QED
    BY <1>2, <1>3 DEF HandleAutoConnTimeout

\* A service that goes starts the timer of a device that waits, once.
LEMMA ServiceGoesInv ==
    ASSUME ConnsInv, NEW p \in Paths, HandleObjectRemoved(p)
    PROVE  ConnsInv'
  <1> USE DEF ConnsInv
  <1>1. UNCHANGED <<conns, fired, calls, nextId>>
    BY DEF HandleObjectRemoved
  <1>2. IdsOwned'
    BY <1>1 DEF IdsOwned
  <1>3. CASE UNCHANGED <<auto, sources>>
    BY <1>1, <1>2, <1>3 DEF ConnsTyped, AutoConnectHasId, TimersOwned
  <1>4. ASSUME NEW d \in Devices, auto[d] # None,
               auto' = [auto EXCEPT ![d].armed = TRUE],
               sources' = [sources EXCEPT ![d] = IF auto[d].armed THEN @ ELSE @ + 1]
        PROVE  ConnsInv'
    <2>1. auto[d] \in [armed : BOOLEAN, id : Ids]
      BY <1>4 DEF ConnsTyped
    <2>2. /\ [auto[d] EXCEPT !.armed = TRUE] \in [armed : BOOLEAN, id : Ids]
          /\ [auto[d] EXCEPT !.armed = TRUE].armed = TRUE
          /\ [auto[d] EXCEPT !.armed = TRUE].id = auto[d].id
      BY <2>1, Rearmed
    <2>3. /\ auto'[d] = [auto[d] EXCEPT !.armed = TRUE]
          /\ \A e \in Devices : e # d => auto'[e] = auto[e]
      BY <1>4 DEF ConnsTyped
    <2>4. auto'[d].armed /\ auto'[d].id = auto[d].id
      BY <2>2, <2>3
    <2>5. auto' \in [Devices -> [armed : BOOLEAN, id : Ids] \union {None}]
      BY <1>4, <2>2 DEF ConnsTyped
    <2>6. AutoConnectHasId'
      <3>1. conns'[auto'[d].id] = d
        BY <1>1, <1>4, <2>4 DEF AutoConnectHasId
      <3> QED
        BY <1>1, <2>3, <3>1 DEF AutoConnectHasId
    <2>7. fired[d] \in Nat /\ sources[d] = fired[d] + (IF auto[d].armed THEN 1 ELSE 0)
      BY <1>4 DEF ConnsTyped, TimersOwned
    <2>8. (IF auto[d].armed THEN sources[d] ELSE sources[d] + 1) = fired[d] + 1
      BY <2>1, <2>7
    <2>9. sources' = [sources EXCEPT ![d] = fired[d] + 1]
      BY <1>4, <2>8
    <2>10. /\ sources'[d] = fired[d] + 1 /\ sources' \in [Devices -> Nat]
           /\ \A e \in Devices : e # d => sources'[e] = sources[e]
      BY <2>7, <2>9 DEF ConnsTyped
    <2>11. auto'[d] # None
      BY <2>2, <2>3, GattAssumption DEF Ids
    <2>12. TimersOwned'
      <3>1. sources'[d] = fired'[d] + (IF auto'[d] # None /\ auto'[d].armed THEN 1 ELSE 0)
        BY <1>1, <2>4, <2>10, <2>11
      <3> QED
        BY <1>1, <2>3, <2>10, <3>1 DEF TimersOwned
    <2>13. ConnsTyped'
      BY <1>1, <2>5, <2>10 DEF ConnsTyped
    <2> QED
      BY <1>2, <2>6, <2>12, <2>13
  <1> QED
    BY <1>3, <1>4, Tree DEF HandleObjectRemoved, RemoveRemoteGattService, ArmAutoConnect

LEMMA ConnsNext == ConnsInv /\ TablesInv /\ [Next]_vars => ConnsInv'
  <1> SUFFICES ASSUME ConnsInv, TablesInv, [Next]_vars
               PROVE  ConnsInv'
    OBVIOUS
  <1>1. UNCHANGED connVars => ConnsInv'
    BY DEF connVars, ConnsInv, ConnsTyped, IdsOwned, AutoConnectHasId, TimersOwned
  <1>2. ASSUME NEW p \in Paths, HandleObjectAdded(p)
        PROVE  ConnsInv'
    BY <1>1, <1>2 DEF HandleObjectAdded
  <1>3. ASSUME NEW p \in Paths, HandleObjectRemoved(p)
        PROVE  ConnsInv'
    BY <1>3, ServiceGoesInv
  <1>4. CASE (\E a \in Attributes : Access(a)) \/ (\E d \in Devices : DiscoverServices(d))
    BY <1>1, <1>4 DEF Access, DiscoverServices
  <1>5. ASSUME NEW d \in Devices, DeviceAdded(d)
        PROVE  ConnsInv'
    BY <1>5, ComesBackInv
  <1>6. ASSUME NEW d \in Devices, NEW a \in BOOLEAN, ConnectGatt(d, a)
        PROVE  ConnsInv'
    BY <1>6, ConnectInv
  <1>7. ASSUME NEW d \in Devices, NEW up \in BOOLEAN, RemoveDevice(d, up)
        PROVE  ConnsInv'
    BY <1>7, GoesInv
  <1>8. ASSUME NEW d \in Devices, HandleAutoConnTimeout(d)
        PROVE  ConnsInv'
    BY <1>8, TimeoutInv
  <1>9. ASSUME NEW i \in Ids, DisconnectGatt(i)
        PROVE  ConnsInv'
    BY <1>9, DisconnectInv DEF TablesInv
  <1>10. ASSUME NEW k \in Slots, Reply(k)
         PROVE  ConnsInv'
    BY <1>10, ReplyInv
  <1>11. CASE UNCHANGED vars
    BY <1>1, <1>11 DEF vars, connVars
  <1> QED
    BY <1>2, <1>3, <1>4, <1>5, <1>6, <1>7, <1>8, <1>9, <1>10, <1>11 DEF Next

\* The tables, the copies and the calls keep their types.
THEOREM TypeCorrect == Spec => []TypeOK
  <1>1. TablesInv /\ ConnsInv => TypeOK
    BY TypeOKSplit DEF TablesInv, ConnsInv
  <1> QED
    BY <1>1, TablesInit, TablesNext, ConnsInit, ConnsNext, PTL DEF Spec

\* A device that waits to be connected again still has the connection id it will be
\* connected with, whatever calls are in flight and whatever order they end in.
THEOREM WaitingDeviceHasId == Spec => []AutoConnectHasId
  <1>1. ConnsInv => AutoConnectHasId
    BY DEF ConnsInv
  <1> QED
    BY <1>1, TablesInit, TablesNext, ConnsInit, ConnsNext, PTL DEF Spec

\* Every reconnection timer in the main loop belongs to the entry of its device or
\* is one that fired and was kept by its handler.
THEOREM TimersAccounted == Spec => []TimersOwned
  <1>1. ConnsInv => TimersOwned
    BY DEF ConnsInv
  <1> QED
    BY <1>1, TablesInit, TablesNext, ConnsInit, ConnsNext, PTL DEF Spec
===============================================================================
