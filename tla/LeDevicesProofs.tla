-------------------------- MODULE LeDevicesProofs --------------------------
(***************************************************************************)
(* Theorems about module LeDevices, for any addresses, objects and number  *)
(* of scans: no table points at a deleted object, and what a scan has      *)
(* reported is what its table holds.                                       *)
(***************************************************************************)
EXTENDS LeDevices, TLAPS

-----------------------------------------------------------------------------
(* The inductive invariant *)

\* An address seen under the path p: the path itself, unless the change has been
\* recorded.
Recorded(p, k) == k # p => p \in readdressed /\ Told(k) \subseteq readdressed

\* The entries of a table are used objects at addresses they have had.
Sound(table) ==
  \A k \in Key : table[k] # NoObject =>
    table[k] \in Used /\ Recorded(object[table[k]].path, k)

ObjectsSound ==
  /\ live \subseteq Used
  /\ \A d \in Used : Recorded(object[d].path, object[d].address)

TablesSound ==
  /\ Sound(mDevices)
  /\ \A s \in ScanId : Sound(mLeDevicesByScanId[s])

\* A scan id not handed out yet has an empty table and has reported nothing.
FreshScansEmpty ==
  /\ \A s \in mLeScanFilters : s < nextScanId
  /\ \A s \in ScanId : s >= nextScanId =>
       reported[s] = {} /\ \A k \in Key : mLeDevicesByScanId[s][k] = NoObject

Inv ==
  /\ TypeOK
  /\ ObjectsSound
  /\ TablesSound
  /\ FreshScansEmpty
  /\ DevicesLive
  /\ ScanDevicesLive
  /\ ReportedIsTable

\* No object, no entry, no report at the start.
LEMMA InitInv == Init => Inv
<1> SUFFICES ASSUME Init PROVE Inv
  OBVIOUS
<1>1. TypeOK
  <2>1. EmptyTable \in Table
    BY DEF EmptyTable, Table
  <2>2. nextScanId \in 1 .. MaxScanId + 1
    BY LeDevicesAssumption DEF LeDevicesAssumption, Init
  <2> QED
    BY <2>1, <2>2 DEF Init, TypeOK
<1> QED
  BY <1>1, NoDeviceAssumption
  DEF NoDeviceAssumption, Init, Inv, EmptyTable, Used, ObjectsSound, TablesSound,
      Sound, FreshScansEmpty, DevicesLive, ScanDevicesLive, ReportedIsTable

-----------------------------------------------------------------------------
(* Calls of the client *)

\* A new scan starts with an empty table, whatever older scans have left.
LEMMA AddFilterInv == Inv /\ AddLeDiscoveryFilter => Inv'
<1> SUFFICES ASSUME Inv, AddLeDiscoveryFilter PROVE Inv'
  OBVIOUS
<1> USE DEF Inv, AddLeDiscoveryFilter
<1>0. nextScanId \in ScanId
  BY LeDevicesAssumption DEF LeDevicesAssumption, TypeOK, ScanId
<1>1. TypeOK'
  BY <1>0, LeDevicesAssumption DEF LeDevicesAssumption, TypeOK, ScanId
<1>2. ObjectsSound' /\ TablesSound' /\ DevicesLive'
  BY DEF ObjectsSound, TablesSound, Sound, Recorded, Used, DevicesLive
<1>3. FreshScansEmpty'
  BY LeDevicesAssumption DEF LeDevicesAssumption, FreshScansEmpty, TypeOK, ScanId
<1>4. \A k \in Key : mLeDevicesByScanId[nextScanId][k] = NoObject
  BY <1>0 DEF FreshScansEmpty, ScanId
<1>5. reported[nextScanId] = {}
  BY <1>0 DEF FreshScansEmpty, ScanId
<1>6. ScanDevicesLive'
  BY <1>4 DEF ScanDevicesLive
<1>7. ReportedIsTable'
  BY <1>4, <1>5 DEF ReportedIsTable, Key
<1> QED
  BY <1>1, <1>2, <1>3, <1>6, <1>7

\* A scan less is walked.
LEMMA RemoveFilterInv ==
  ASSUME Inv, NEW s \in ScanId, RemoveLeDiscoveryFilter(s)
  PROVE  Inv'
<1> USE DEF Inv, RemoveLeDiscoveryFilter
<1>1. TypeOK'
  BY DEF TypeOK
<1>2. ObjectsSound' /\ TablesSound' /\ DevicesLive'
  BY DEF ObjectsSound, TablesSound, Sound, Recorded, Used, DevicesLive
<1>3. FreshScansEmpty' /\ ScanDevicesLive' /\ ReportedIsTable'
  BY DEF FreshScansEmpty, ScanDevicesLive, ReportedIsTable
<1> QED
  BY <1>1, <1>2, <1>3

\* What a match adds to a table are live devices of mDevices, each at the address
\* it has now, which is the address reported.
LEMMA MatchInv ==
  ASSUME Inv, NEW s \in ScanId, NEW found \in SUBSET Key,
         MatchLeDiscoveryFilterDevices(s, found)
  PROVE  Inv'
<1> DEFINE Now(k) == object[mDevices[k]].address
           old    == mLeDevicesByScanId[s]
           New(a) == {mDevices[k] : k \in {f \in found : Now(f) = a}}
<1> USE DEF Inv
<1>1. PICK table \in [Key -> Object \cup {NoObject}] :
        /\ \A a \in Key : IF old[a] # NoObject \/ New(a) = {}
                          THEN table[a] = old[a] ELSE table[a] \in New(a)
        /\ mLeDevicesByScanId' = [mLeDevicesByScanId EXCEPT ![s] = table]
  BY DEF MatchLeDiscoveryFilterDevices
<1>2. /\ s < nextScanId
      /\ \A k \in found : mDevices[k] # NoObject
      /\ reported' = [reported EXCEPT ![s] =
                        @ \cup UNION {Told(Now(k)) : k \in found}]
      /\ UNCHANGED <<mLeScanFilters, nextScanId, object, live, mDevices,
                     readdressed, crashed>>
  BY DEF MatchLeDiscoveryFilterDevices
<1>3. \A t \in ScanId \ {s} : /\ mLeDevicesByScanId'[t] = mLeDevicesByScanId[t]
                             /\ reported'[t] = reported[t]
  BY <1>1, <1>2 DEF TypeOK
<1>4. mLeDevicesByScanId'[s] = table
  BY <1>1 DEF TypeOK
<1>5. TypeOK'
  <2>1. UNION {Told(Now(k)) : k \in found} \subseteq Address
    BY DEF Told
  <2> QED
    BY <1>1, <1>2, <2>1 DEF TypeOK, Table
<1>6. ASSUME NEW a \in Key, table[a] # old[a]
      PROVE  /\ old[a] = NoObject
             /\ \E k \in found : table[a] = mDevices[k] /\ Now(k) = a
  BY <1>1, <1>6
<1>7. TablesSound'
  <2>1. ASSUME NEW a \in Key, table[a] # NoObject
        PROVE  table[a] \in Used /\ Recorded(object[table[a]].path, a)
    <3>1. CASE table[a] = old[a]
      BY <2>1, <3>1 DEF TablesSound, Sound
    <3>2. CASE table[a] # old[a]
      BY <1>2, <1>6, <3>2 DEF TablesSound, Sound, ObjectsSound
    <3> QED
      BY <3>1, <3>2
  <2> QED
    BY <1>2, <1>3, <1>4, <2>1 DEF TablesSound, Sound, Recorded, Used
<1>8. ScanDevicesLive'
  <2>1. ASSUME NEW a \in Key, table[a] # NoObject, s \in mLeScanFilters
        PROVE  table[a] \in live \/ object[table[a]].path \in readdressed
    <3>1. CASE table[a] = old[a]
      BY <2>1, <3>1 DEF ScanDevicesLive
    <3>2. CASE table[a] # old[a]
      BY <1>2, <1>6, <3>2 DEF DevicesLive
    <3> QED
      BY <3>1, <3>2
  <2> QED
    BY <1>2, <1>3, <1>4, <2>1 DEF ScanDevicesLive, TypeOK
<1>9. ReportedIsTable'
  <2>1. ASSUME NEW a \in Address \ readdressed, s \in mLeScanFilters
        PROVE  a \in reported'[s] <=> table[a] # NoObject
    <3>1. a \in reported[s] <=> old[a] # NoObject
      BY <2>1 DEF ReportedIsTable
    <3>2. a \in reported'[s] <=> a \in reported[s] \/ \E k \in found : Now(k) = a
      BY <1>2, <2>1 DEF TypeOK, Told
    <3>3. New(a) # {} <=> \E k \in found : Now(k) = a
      OBVIOUS
    <3>4. NoObject \notin New(a)
      BY <1>2
    <3> QED
      BY <1>1, <3>1, <3>2, <3>3, <3>4 DEF Key
  <2> QED
    BY <1>2, <1>3, <1>4, <2>1 DEF ReportedIsTable, TypeOK
<1>10. FreshScansEmpty'
  <2>1. ASSUME NEW t \in ScanId, t >= nextScanId PROVE t # s
    BY <1>2, <2>1 DEF TypeOK, ScanId
  <2> QED
    BY <1>2, <1>3, <2>1 DEF FreshScansEmpty
<1>11. ObjectsSound' /\ DevicesLive'
  BY <1>2 DEF ObjectsSound, Recorded, Used, DevicesLive
<1> QED
  BY <1>5, <1>7, <1>8, <1>9, <1>10, <1>11

-----------------------------------------------------------------------------
(* Signals of BlueZ *)

\* A new object is in no table, so an insert points at it from one key at most.
LEMMA AddDeviceInv ==
  ASSUME Inv, NEW d \in Object, NEW p \in Address, NEW address \in Key,
         NEW found \in SUBSET mLeScanFilters, AddDevice(d, p, address, found)
  PROVE  Inv'
<1> DEFINE device == [path |-> p, address |-> address]
<1> USE DEF Inv
<1>1. /\ d \notin Used
      /\ object' = [object EXCEPT ![d] = device]
      /\ live' = live \cup {d}
      /\ mDevices' = Insert(mDevices, address, d)
      /\ readdressed' = IF address = p THEN readdressed
                        ELSE readdressed \cup {p} \cup Told(address)
      /\ UNCHANGED <<mLeScanFilters, nextScanId, crashed>>
  BY DEF AddDevice, Readdress
<1>2. /\ mLeDevicesByScanId' =
           [s \in ScanId |->
              IF s \in found THEN Insert(mLeDevicesByScanId[s], address, d)
              ELSE mLeDevicesByScanId[s]]
      /\ reported' =
           [s \in ScanId |->
              IF s \in found THEN reported[s] \cup Told(address) ELSE reported[s]]
  BY DEF AddDevice
<1>3. device \in Device /\ device # NoDevice
  BY NoDeviceAssumption DEF NoDeviceAssumption, Device
<1>4. d # NoObject
  BY LeDevicesAssumption DEF LeDevicesAssumption
<1>5. TypeOK'
  <2>1. \A table \in Table : Insert(table, address, d) \in Table
    BY DEF Insert, Table
  <2>2. mDevices' \in Table /\ mLeDevicesByScanId' \in [ScanId -> Table]
    BY <1>1, <1>2, <2>1 DEF TypeOK
  <2>3. object' \in [Object -> Device \cup {NoDevice}] /\ live' \subseteq Object
    BY <1>1, <1>3 DEF TypeOK
  <2>4. reported' \in [ScanId -> SUBSET Address] /\ readdressed' \subseteq Address
    BY <1>1, <1>2 DEF TypeOK, Told
  <2> QED
    BY <1>1, <2>2, <2>3, <2>4 DEF TypeOK
<1>6. /\ Used' = Used \cup {d}
      /\ object'[d] = device
      /\ \A e \in Used : object'[e] = object[e]
  BY <1>1, <1>3 DEF TypeOK, Used
<1>7. /\ readdressed \subseteq readdressed'
      /\ address # p => p \in readdressed' /\ Told(address) \subseteq readdressed'
  BY <1>1
<1>8. ObjectsSound'
  BY <1>1, <1>6, <1>7 DEF ObjectsSound, Recorded
<1>9. ASSUME NEW table \in Table, Sound(table)
      PROVE  /\ \A k \in Key : table[k] # NoObject =>
                  table[k] \in Used' /\ Recorded(object[table[k]].path, k)'
             /\ \A k \in Key : table[k] # d
             /\ \A k \in Key : Insert(table, address, d)[k] =
                  IF k = address /\ table[k] = NoObject THEN d ELSE table[k]
  BY <1>1, <1>4, <1>6, <1>7, <1>9 DEF Sound, Recorded, Insert, Table
<1>10. TablesSound'
  <2>1. ASSUME NEW table \in Table, Sound(table), NEW k \in Key,
               Insert(table, address, d)[k] # NoObject
        PROVE  LET e == Insert(table, address, d)[k]
               IN e \in Used' /\ (k # object'[e].path =>
                    object'[e].path \in readdressed' /\ Told(k) \subseteq readdressed')
    BY <1>6, <1>7, <1>9, <2>1 DEF Sound, Recorded
  <2>2. ASSUME NEW table \in Table, Sound(table), NEW k \in Key,
               table[k] # NoObject
        PROVE  table[k] \in Used' /\ (k # object'[table[k]].path =>
                 object'[table[k]].path \in readdressed' /\ Told(k) \subseteq readdressed')
    BY <1>6, <1>7, <2>2 DEF Sound, Recorded
  <2> QED
    BY <1>1, <1>2, <2>1, <2>2 DEF TablesSound, Sound, Recorded, TypeOK, Told
<1>11. DevicesLive'
  BY <1>1, <1>9 DEF DevicesLive, TablesSound, TypeOK
<1>12. FreshScansEmpty'
  BY <1>1, <1>2 DEF FreshScansEmpty, TypeOK, ScanId
<1>13. ASSUME NEW s \in mLeScanFilters
       PROVE  /\ s \in ScanId
              /\ mLeDevicesByScanId[s] \in Table
              /\ Sound(mLeDevicesByScanId[s])
  BY DEF TypeOK, TablesSound
<1>14. ScanDevicesLive'
  <2>1. ASSUME NEW s \in mLeScanFilters, NEW k \in Key,
               mLeDevicesByScanId'[s][k] # NoObject
        PROVE  \/ mLeDevicesByScanId'[s][k] \in live'
               \/ object'[mLeDevicesByScanId'[s][k]].path \in readdressed'
    <3>1. CASE mLeDevicesByScanId'[s][k] = mLeDevicesByScanId[s][k]
      BY <1>1, <1>6, <1>7, <1>13, <2>1, <3>1 DEF ScanDevicesLive, Sound
    <3>2. CASE mLeDevicesByScanId'[s][k] = d
      BY <1>1, <3>2
    <3> QED
      BY <1>2, <1>9, <1>13, <3>1, <3>2
  <2> QED
    BY <1>1, <2>1 DEF ScanDevicesLive
<1>15. ReportedIsTable'
  <2>1. ASSUME NEW s \in mLeScanFilters, NEW a \in Address \ readdressed'
        PROVE  a \in reported'[s] <=> mLeDevicesByScanId'[s][a] # NoObject
    <3>1. a \in reported[s] <=> mLeDevicesByScanId[s][a] # NoObject
      BY <1>7, <2>1 DEF ReportedIsTable
    <3>2. a \in Key
      BY DEF Key
    <3> QED
      BY <1>2, <1>4, <1>9, <1>13, <3>1, <3>2 DEF Told
  <2> QED
    BY <1>1, <2>1 DEF ReportedIsTable
<1> QED
  BY <1>5, <1>8, <1>10, <1>11, <1>12, <1>14, <1>15

\* Before removeDevice deletes the object of a path that has had one address
\* only, it has erased the one entry each scan can have for that path.
LEMMA RemoveDeviceInv ==
  ASSUME Inv, NEW p \in Address, NEW hit \in [mLeScanFilters -> Key],
         NEW gone \in [mLeScanFilters -> Key], RemoveDevice(p, hit, gone)
  PROVE  Inv'
<1> DEFINE None(s) == Entries(mLeDevicesByScanId[s], p) = {}
           Hit(s)  == object[mLeDevicesByScanId[s][hit[s]]].address
<1> USE DEF Inv
<1>1. /\ \A s \in mLeScanFilters :
           ~None(s) => hit[s] \in Entries(mLeDevicesByScanId[s], p)
      /\ \A s \in mLeScanFilters :
           gone[s] \in IF ~None(s) THEN {Hit(s)}
                      ELSE {NoAddress} \cup
                             {Hit(t) : t \in {u \in mLeScanFilters : ~None(u)}}
      /\ mLeDevicesByScanId' =
           [s \in ScanId |->
              IF s \in mLeScanFilters /\ ~None(s)
              THEN Erase(mLeDevicesByScanId[s], hit[s])
              ELSE mLeDevicesByScanId[s]]
      /\ reported' =
           [s \in ScanId |->
              IF s \in mLeScanFilters THEN reported[s] \ {gone[s]}
              ELSE reported[s]]
  BY DEF RemoveDevice, RemoveFromScans
<1>2. /\ UNCHANGED <<mLeScanFilters, nextScanId, object, readdressed>>
      /\ crashed' \in BOOLEAN
      /\ DeleteDevice(p)
  BY DEF RemoveDevice
<1>3. \/ UNCHANGED <<mDevices, live>>
      \/ \E k \in Entries(mDevices, p) : /\ mDevices' = Erase(mDevices, k)
                                         /\ live' = live \ {mDevices[k]}
  BY <1>2 DEF DeleteDevice
<1>4. \A table \in Table, k \in Key :
        /\ Erase(table, k) \in Table
        /\ \A j \in Key : Erase(table, k)[j] = IF j = k THEN NoObject ELSE table[j]
  BY DEF Erase, Table
<1>5. \A k \in Entries(mDevices, p) : k \in Key
  BY DEF Entries
<1>6. TypeOK'
  <2>1. mLeDevicesByScanId' \in [ScanId -> Table]
    BY <1>1, <1>4 DEF TypeOK
  <2>2. mDevices' \in Table /\ live' \subseteq Object
    BY <1>3, <1>4, <1>5 DEF TypeOK
  <2>3. reported' \in [ScanId -> SUBSET Address]
    BY <1>1 DEF TypeOK
  <2> QED
    BY <1>2, <2>1, <2>2, <2>3 DEF TypeOK
<1>7. ObjectsSound'
  BY <1>2, <1>3 DEF ObjectsSound, Recorded, Used
<1>8. \A s \in ScanId, k \in Key : mLeDevicesByScanId'[s][k] # NoObject =>
        mLeDevicesByScanId'[s][k] = mLeDevicesByScanId[s][k]
  BY <1>1, <1>4 DEF TypeOK
<1>9. TablesSound'
  <2>1. \A k \in Key : mDevices'[k] # NoObject => mDevices'[k] = mDevices[k]
    BY <1>3, <1>4, <1>5 DEF TypeOK
  <2> QED
    BY <1>2, <1>8, <2>1 DEF TablesSound, Sound, Recorded, Used
<1>10. DevicesLive'
  <2>1. CASE UNCHANGED <<mDevices, live>>
    BY <2>1 DEF DevicesLive
  <2>2. ASSUME NEW k \in Entries(mDevices, p), mDevices' = Erase(mDevices, k),
               live' = live \ {mDevices[k]}
        PROVE  DevicesLive'
    <3>1. k \in Key /\ mDevices[k] # NoObject
      BY DEF Entries
    <3>2. \A j \in Key : mDevices'[j] = IF j = k THEN NoObject ELSE mDevices[j]
      BY <1>4, <2>2, <3>1 DEF TypeOK
    <3> QED
      BY <2>2, <3>1, <3>2 DEF DevicesLive
  <2> QED
    BY <1>3, <2>1, <2>2
<1>11. FreshScansEmpty'
  BY <1>1, <1>2, <1>8 DEF FreshScansEmpty, TypeOK
<1>12. ASSUME NEW s \in mLeScanFilters, ~None(s)
       PROVE  LET e == mLeDevicesByScanId[s][hit[s]]
              IN /\ hit[s] \in Key
                 /\ e # NoObject
                 /\ object[e].path = p
                 /\ p \notin readdressed => hit[s] = p /\ Hit(s) = p
                 /\ Hit(s) # p => Told(Hit(s)) \subseteq readdressed
                 /\ hit[s] # p => Told(hit[s]) \subseteq readdressed
  BY <1>1, <1>12 DEF Entries, TablesSound, Sound, ObjectsSound, Recorded, TypeOK
<1>13. ScanDevicesLive'
  <2>1. ASSUME NEW s \in mLeScanFilters, NEW k \in Key,
               mLeDevicesByScanId'[s][k] # NoObject
        PROVE  LET d == mLeDevicesByScanId[s][k]
               IN d \in live' \/ object[d].path \in readdressed
    <3> DEFINE d == mLeDevicesByScanId[s][k]
    <3>0. d # NoObject /\ s \in ScanId /\ d = mLeDevicesByScanId'[s][k]
      BY <1>8, <2>1 DEF TypeOK
    <3>1. CASE object[d].path \in readdressed
      BY <3>1
    <3>2. CASE object[d].path # p
      <4>1. d \in live \/ object[d].path \in readdressed
        BY <3>0 DEF ScanDevicesLive
      <4>2. d \in live => d \in live'
        BY <1>3, <3>2 DEF Entries
      <4> QED
        BY <4>1, <4>2
    <3>3. CASE object[d].path = p /\ p \notin readdressed
      <4>1. k = p
        BY <3>0, <3>3 DEF TablesSound, Sound, Recorded
      <4>2. ~None(s)
        BY <3>0, <3>3 DEF Entries
      <4>3. hit[s] = p
        BY <1>12, <3>3, <4>2
      <4> QED
        BY <1>1, <1>4, <2>1, <3>0, <4>1, <4>2, <4>3 DEF TypeOK
    <3> QED
      BY <3>1, <3>2, <3>3
  <2> QED
    BY <1>2, <1>8, <2>1 DEF ScanDevicesLive, TypeOK
<1>14. ReportedIsTable'
  <2>1. ASSUME NEW s \in mLeScanFilters, NEW a \in Address \ readdressed
        PROVE  a \in reported'[s] <=> mLeDevicesByScanId'[s][a] # NoObject
    <3>0. /\ s \in ScanId /\ a \in Key /\ a # NoAddress
          /\ Told(a) = {a}
          /\ mLeDevicesByScanId[s] \in Table
      BY LeDevicesAssumption DEF LeDevicesAssumption, TypeOK, Key, Told
    <3>1. a \in reported[s] <=> mLeDevicesByScanId[s][a] # NoObject
      BY DEF ReportedIsTable
    <3>2. a \in reported'[s] <=> a \in reported[s] /\ gone[s] # a
      BY <1>1, <3>0
    <3>3. CASE None(s)
      <4>1. mLeDevicesByScanId'[s] = mLeDevicesByScanId[s]
        BY <1>1, <3>0, <3>3
      <4>2. ASSUME gone[s] = a PROVE a = p
        <5>1. PICK t \in mLeScanFilters : ~None(t) /\ Hit(t) = a
          BY <1>1, <3>0, <3>3, <4>2
        <5> QED
          BY <1>12, <3>0, <5>1
      <4>3. a = p => mLeDevicesByScanId[s][a] = NoObject
        BY <3>0, <3>3 DEF Entries, TablesSound, Sound, Recorded
      <4> QED
        BY <3>1, <3>2, <4>1, <4>2, <4>3
    <3>4. CASE ~None(s)
      <4>1. gone[s] = Hit(s)
        BY <1>1, <3>4
      <4>2. mLeDevicesByScanId'[s][a] =
              IF a = hit[s] THEN NoObject ELSE mLeDevicesByScanId[s][a]
        BY <1>1, <1>4, <1>12, <3>0, <3>4
      <4>3. hit[s] = a <=> Hit(s) = a
        BY <1>12, <3>0, <3>4
      <4> QED
        BY <3>1, <3>2, <4>1, <4>2, <4>3
    <3> QED
      BY <3>3, <3>4
  <2> QED
    BY <1>2, <2>1 DEF ReportedIsTable
<1> QED
  BY <1>6, <1>7, <1>9, <1>10, <1>11, <1>13, <1>14

\* A change of Address is recorded; it moves no entry.
LEMMA PropertiesChangedInv ==
  ASSUME Inv, NEW d \in Object, NEW address \in Address,
         HandleDevicePropertiesChanged(d, address)
  PROVE  Inv'
<1> USE DEF Inv
<1>1. /\ d \in live
      /\ object' = [object EXCEPT ![d].address = address]
      /\ readdressed' = IF address = object[d].path THEN readdressed
                        ELSE readdressed \cup {object[d].path} \cup Told(address)
      /\ crashed' \in BOOLEAN
      /\ UNCHANGED <<mLeScanFilters, nextScanId, live, mDevices,
                     mLeDevicesByScanId, reported>>
  BY DEF HandleDevicePropertiesChanged, Readdress
<1>2. d \in Used /\ object[d] \in Device
  BY <1>1 DEF ObjectsSound, Used, TypeOK
<1>3. [object[d] EXCEPT !.address = address] \in Device
  BY <1>2 DEF Device, Key
<1>4. TypeOK'
  BY <1>1, <1>2, <1>3 DEF TypeOK, Device, Told
<1>5. /\ Used' = Used
      /\ object'[d].path = object[d].path
      /\ object'[d].address = address
      /\ \A e \in Object \ {d} : object'[e] = object[e]
  BY <1>1, <1>2, <1>3, NoDeviceAssumption
  DEF NoDeviceAssumption, TypeOK, Used, Device
<1>6. \A e \in Object : object'[e].path = object[e].path
  BY <1>5
<1>7. readdressed \subseteq readdressed'
  BY <1>1
<1>8. ObjectsSound'
  BY <1>1, <1>2, <1>5, <1>7 DEF ObjectsSound, Recorded, Used
<1>9. TablesSound'
  BY <1>1, <1>5, <1>6, <1>7 DEF TablesSound, Sound, Recorded, Used
<1>10. FreshScansEmpty' /\ DevicesLive'
  BY <1>1 DEF FreshScansEmpty, DevicesLive
<1>11. ScanDevicesLive'
  BY <1>1, <1>6, <1>7 DEF ScanDevicesLive, TypeOK, Table
<1>12. ReportedIsTable'
  BY <1>1, <1>7 DEF ReportedIsTable
<1> QED
  BY <1>4, <1>8, <1>9, <1>10, <1>11, <1>12

-----------------------------------------------------------------------------
(* The theorems *)

\* Inv is inductive.
LEMMA StepInv == Inv /\ [Next]_vars => Inv'
<1> SUFFICES ASSUME Inv, [Next]_vars PROVE Inv'
  OBVIOUS
<1>1. CASE ClientStep
  BY <1>1, AddFilterInv, RemoveFilterInv, MatchInv DEF ClientStep
<1>2. CASE BluezStep
  BY <1>2, AddDeviceInv, RemoveDeviceInv, PropertiesChangedInv DEF BluezStep
<1>3. CASE UNCHANGED vars
  BY <1>3 DEF vars, Inv, TypeOK, ObjectsSound, TablesSound, Sound, Recorded, Used,
     FreshScansEmpty, DevicesLive, ScanDevicesLive, ReportedIsTable
<1> QED
  BY <1>1, <1>2, <1>3 DEF Next

\* Inv holds of every reachable state.
LEMMA Invariance == Spec => []Inv
<1> QED
  BY InitInv, StepInv, PTL DEF Spec

\* Every reachable state has the types TypeOK states.
THEOREM TypeCorrect == Spec => []TypeOK
<1>1. Inv => TypeOK
  BY DEF Inv
<1> QED
  BY Invariance, <1>1, PTL

\* mDevices points at live objects, at each from one key: removeDevice deletes no
\* object twice.
THEOREM NoDoubleDelete == Spec => []DevicesLive
<1>1. Inv => DevicesLive
  BY DEF Inv
<1> QED
  BY Invariance, <1>1, PTL

\* A scan the adapter walks points at a deleted object only if the Address of a
\* device changed under its path.
THEOREM NoDanglingScanEntry == Spec => []ScanDevicesLive
<1>1. Inv => ScanDevicesLive
  BY DEF Inv
<1> QED
  BY Invariance, <1>1, PTL

\* The client's view of a scan is the scan's table.
THEOREM ViewOfScan == Spec => []ReportedIsTable
<1>1. Inv => ReportedIsTable
  BY DEF Inv
<1> QED
  BY Invariance, <1>1, PTL
=============================================================================
