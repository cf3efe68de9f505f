------------------------------ MODULE LeDevices ------------------------------
(***************************************************************************)
(* The device objects of one Bluez5Adapter and the tables in which its low *)
(* energy scans point at them: mDevices owns the objects, every scan has a *)
(* table of its own in mLeDevicesByScanId, and removeDevice has to take an *)
(* object out of all of them before it deletes it.                         *)
(*                                                                         *)
(* BlueZ names the object path of a device after its address, so a path is *)
(* written as that address; but the Address property may change under the  *)
(* same path, and the constructor may fail to read it.  addDevice is also  *)
(* called twice for one path when two GLib object managers are connected   *)
(* (see the README on restarts).  Addresses are told apart up to case.     *)
(***************************************************************************)
EXTENDS Naturals

CONSTANTS
  Address,     \* addresses of devices, and their object paths
  NoAddress,   \* the empty string
  Object,      \* device objects in memory
  NoObject,    \* a table has no entry at a key
  NoDevice,    \* contents of memory never used for a device
  MaxScanId    \* bound: scan ids handed out

ASSUME LeDevicesAssumption ==
  /\ MaxScanId \in Nat
  /\ NoAddress \notin Address
  /\ NoObject \notin Object

Key == Address \cup {NoAddress}
ScanId == 1 .. MaxScanId
Device == [path : Address, address : Key]
Table == [Key -> Object \cup {NoObject}]

ASSUME NoDeviceAssumption == NoDevice \notin Device

VARIABLES
  mLeScanFilters,      \* ids of the scans that have a filter
  nextScanId,          \* the next id
  object,              \* contents of the device objects, deleted ones included
  live,                \* objects not deleted
  mDevices,            \* the adapter's devices by address
  mLeDevicesByScanId,  \* the devices of each scan by address
  reported,            \* what each scan has told the client it found
  readdressed,         \* addresses that a change of Address has involved
  crashed              \* the process died of a pointer to a deleted object

vars == <<mLeScanFilters, nextScanId, object, live, mDevices,
          mLeDevicesByScanId, reported, readdressed, crashed>>

TypeOK ==
  /\ mLeScanFilters \subseteq ScanId
  /\ nextScanId \in 1 .. MaxScanId + 1
  /\ object \in [Object -> Device \cup {NoDevice}]
  /\ live \subseteq Object
  /\ mDevices \in Table
  /\ mLeDevicesByScanId \in [ScanId -> Table]
  /\ reported \in [ScanId -> SUBSET Address]
  /\ readdressed \subseteq Address
  /\ crashed \in BOOLEAN

EmptyTable == [k \in Key |-> NoObject]

Init ==
  /\ mLeScanFilters = {}
  /\ nextScanId = 1
  /\ object = [d \in Object |-> NoDevice]
  /\ live = {}
  /\ mDevices = EmptyTable
  /\ mLeDevicesByScanId = [s \in ScanId |-> EmptyTable]
  /\ reported = [s \in ScanId |-> {}]
  /\ readdressed = {}
  /\ crashed = FALSE

-----------------------------------------------------------------------------
(* Helpers *)

Used == {d \in Object : object[d] # NoDevice}

\* std::unordered_map::insert: an entry that exists is kept.
Insert(table, k, d) == [table EXCEPT ![k] = IF @ = NoObject THEN d ELSE @]

Erase(table, k) == [table EXCEPT ![k] = NoObject]

\* Keys of the entries of a table that point at an object of path p.
Entries(table, p) ==
  {k \in Key : table[k] # NoObject /\ object[table[k]].path = p}

\* A walk through the tables of the scans reads a deleted object.
TouchesDeleted ==
  \E s \in mLeScanFilters, k \in Key :
    mLeDevicesByScanId[s][k] \notin live \cup {NoObject}

\* The client is told an address; it cannot name a device that has none.
Told(k) == {k} \cap Address

\* A device is seen under an address other than the one of its path.
Readdress(p, k) == readdressed' =
  IF k = p THEN readdressed ELSE readdressed \cup {p} \cup Told(k)

-----------------------------------------------------------------------------
(* Calls of the client *)

\* addLeDiscoveryFilter, where it succeeds (module Discovery)
AddLeDiscoveryFilter ==
  /\ nextScanId <= MaxScanId
  /\ mLeScanFilters' = mLeScanFilters \cup {nextScanId}
  /\ nextScanId' = nextScanId + 1
  /\ UNCHANGED <<object, live, mDevices, mLeDevicesByScanId, reported,
                 readdressed, crashed>>

\* Mutant: the id is given back, whoever removes it.
RemoveLeDiscoveryFilterReissues(s) ==
  /\ mLeScanFilters' = mLeScanFilters \ {s}
  /\ nextScanId' = nextScanId - 1
  /\ UNCHANGED <<object, live, mDevices, mLeDevicesByScanId, reported,
                 readdressed, crashed>>

\* removeLeDiscoveryFilter: the table of the scan stays.
RemoveLeDiscoveryFilter(s) ==
  /\ s \in mLeScanFilters
  /\ mLeScanFilters' = mLeScanFilters \ {s}
  /\ UNCHANGED <<nextScanId, object, live, mDevices, mLeDevicesByScanId,
                 reported, readdressed, crashed>>

\* matchLeDiscoveryFilterDevices with any id the client was given: the devices
\* at found are low energy devices, not connected, and match the filter.
\* Two of them may by now have one address, then either is inserted.
MatchLeDiscoveryFilterDevices(s, found) ==
  LET Now(k) == object[mDevices[k]].address IN
  /\ s < nextScanId
  /\ \A k \in found : mDevices[k] # NoObject
  /\ \E table \in [Key -> Object \cup {NoObject}] :
       /\ \A a \in Key :
            LET new == {mDevices[k] : k \in {f \in found : Now(f) = a}}
            IN IF mLeDevicesByScanId[s][a] # NoObject \/ new = {}
               THEN table[a] = mLeDevicesByScanId[s][a]
               ELSE table[a] \in new
       /\ mLeDevicesByScanId' = [mLeDevicesByScanId EXCEPT ![s] = table]
  /\ reported' = [reported EXCEPT ![s] =
                    @ \cup UNION {Told(Now(k)) : k \in found}]
  /\ UNCHANGED <<mLeScanFilters, nextScanId, object, live, mDevices,
                 readdressed, crashed>>

-----------------------------------------------------------------------------
(* Signals of BlueZ *)

\* addDevice: a new object, for path p, with the address its constructor
\* reads (none of the properties when the call fails); it is a low energy device
\* that matches the scans in found, or found is empty.  The object is leaked when its address is taken.
AddDevice(d, p, address, found) ==
  /\ d \notin Used
  /\ address = NoAddress => found = {}
  /\ object' = [object EXCEPT ![d] = [path |-> p, address |-> address]]
  /\ live' = live \cup {d}
  /\ mDevices' = Insert(mDevices, address, d)
  /\ mLeDevicesByScanId' =
       [s \in ScanId |->
          IF s \in found THEN Insert(mLeDevicesByScanId[s], address, d)
          ELSE mLeDevicesByScanId[s]]
  /\ reported' =
       [s \in ScanId |->
          IF s \in found THEN reported[s] \cup Told(address)
          ELSE reported[s]]
  /\ Readdress(p, address)
  /\ UNCHANGED <<mLeScanFilters, nextScanId, crashed>>

\* Mutant: the scans are walked only until one of them had the device.
RemoveFromScansOnce(p, hit, gone) ==
  LET None(s) == Entries(mLeDevicesByScanId[s], p) = {}
      Hit(s)  == object[mLeDevicesByScanId[s][hit[s]]].address
  IN
  /\ \A s \in mLeScanFilters :
       IF None(s) THEN gone[s] = NoAddress
       ELSE hit[s] \in Entries(mLeDevicesByScanId[s], p) /\ gone[s] = Hit(s)
  /\ IF \A s \in mLeScanFilters : None(s)
     THEN UNCHANGED <<mLeDevicesByScanId, reported>>
     ELSE \E s \in mLeScanFilters :
            /\ ~None(s)
            /\ mLeDevicesByScanId' = [mLeDevicesByScanId EXCEPT
                                        ![s] = Erase(@, hit[s])]
            /\ reported' = [reported EXCEPT ![s] = @ \ {gone[s]}]

\* Mutant: the client is told of a removal in the first scan only.
RemoveFromScansTellsFirst(p, hit, gone) ==
  LET None(s) == Entries(mLeDevicesByScanId[s], p) = {}
      Hit(s)  == object[mLeDevicesByScanId[s][hit[s]]].address
  IN
  /\ \A s \in mLeScanFilters :
       IF None(s) THEN gone[s] = NoAddress
       ELSE hit[s] \in Entries(mLeDevicesByScanId[s], p) /\ gone[s] = Hit(s)
  /\ mLeDevicesByScanId' =
       [s \in ScanId |->
          IF s \in mLeScanFilters /\ ~None(s)
          THEN Erase(mLeDevicesByScanId[s], hit[s])
          ELSE mLeDevicesByScanId[s]]
  /\ IF \A s \in mLeScanFilters : None(s)
     THEN UNCHANGED reported
     ELSE \E s \in mLeScanFilters :
            /\ ~None(s)
            /\ reported' = [reported EXCEPT ![s] = @ \ {gone[s]}]

\* removeDevice in the tables: hit gives for every scan the key erased, gone the
\* address then told as removed: a scan without an entry repeats, in iteration order, the
\* address of a scan before it (leaddress is not reset), or tells nothing.
RemoveFromScans(p, hit, gone) ==
  LET None(s) == Entries(mLeDevicesByScanId[s], p) = {}
      Hit(s)  == object[mLeDevicesByScanId[s][hit[s]]].address
  IN
  /\ \A s \in mLeScanFilters :
       ~None(s) => hit[s] \in Entries(mLeDevicesByScanId[s], p)
  /\ \A s \in mLeScanFilters :
       gone[s] \in IF ~None(s) THEN {Hit(s)}
                  ELSE {NoAddress} \cup
                         {Hit(t) : t \in {u \in mLeScanFilters : ~None(u)}}
  /\ mLeDevicesByScanId' =
       [s \in ScanId |->
          IF s \in mLeScanFilters /\ ~None(s)
          THEN Erase(mLeDevicesByScanId[s], hit[s])
          ELSE mLeDevicesByScanId[s]]
  /\ reported' =
       [s \in ScanId |->
          IF s \in mLeScanFilters THEN reported[s] \ {gone[s]}
          ELSE reported[s]]

\* Mutant: the object is deleted, its entry stays.
DeleteDeviceKeepsEntry(p) ==
  IF Entries(mDevices, p) = {} THEN UNCHANGED <<mDevices, live>>
  ELSE \E k \in Entries(mDevices, p) : /\ UNCHANGED mDevices
                                       /\ live' = live \ {mDevices[k]}

\* removeDevice in mDevices: the first entry for the path goes with its object.
DeleteDevice(p) ==
  IF Entries(mDevices, p) = {} THEN UNCHANGED <<mDevices, live>>
  ELSE \E k \in Entries(mDevices, p) : /\ mDevices' = Erase(mDevices, k)
                                       /\ live' = live \ {mDevices[k]}

RemoveDevice(p, hit, gone) ==
  /\ RemoveFromScans(p, hit, gone)
  /\ DeleteDevice(p)
  /\ crashed' \in (IF TouchesDeleted THEN BOOLEAN ELSE {FALSE})
  /\ UNCHANGED <<mLeScanFilters, nextScanId, object, readdressed>>

\* handlePropertiesChanged of a device object, leaked ones included, and then
\* handleDevicePropertiesChanged, which only looks the device up in the tables:
\* a scan the device comes to match does not get it.
HandleDevicePropertiesChanged(d, address) ==
  /\ d \in live
  /\ object' = [object EXCEPT ![d].address = address]
  /\ Readdress(object[d].path, address)
  /\ crashed' \in (IF TouchesDeleted THEN BOOLEAN ELSE {FALSE})
  /\ UNCHANGED <<mLeScanFilters, nextScanId, live, mDevices,
                 mLeDevicesByScanId, reported>>

-----------------------------------------------------------------------------

ClientStep ==
  \/ AddLeDiscoveryFilter
  \/ \E s \in ScanId :
       \/ RemoveLeDiscoveryFilter(s)
       \/ \E found \in SUBSET Key : MatchLeDiscoveryFilterDevices(s, found)

BluezStep ==
  \/ \E d \in Object, p \in Address, address \in Key,
       found \in SUBSET mLeScanFilters : AddDevice(d, p, address, found)
  \/ \E p \in Address, hit, gone \in [mLeScanFilters -> Key] :
       RemoveDevice(p, hit, gone)
  \/ \E d \in Object, address \in Address :
       HandleDevicePropertiesChanged(d, address)

\* A dead process takes no step.
Next == ~crashed /\ (ClientStep \/ BluezStep)

Spec == Init /\ [][Next]_vars

-----------------------------------------------------------------------------
(* Properties *)

\* mDevices points at no deleted object, and at each object from one key only,
\* so that removeDevice deletes every object at most once.
DevicesLive ==
  \A k \in Key :
    mDevices[k] # NoObject =>
      /\ mDevices[k] \in live
      /\ \A j \in Key : mDevices[j] = mDevices[k] => j = k

\* The table of a scan the adapter still walks points at no deleted object:
\* removeDevice has erased it there before the delete.  (A device whose Address
\* changed under its path can have two entries, of which one is erased.)
ScanDevicesLive ==
  \A s \in mLeScanFilters, k \in Key :
    LET d == mLeDevicesByScanId[s][k] IN
    d # NoObject => d \in live \/ object[d].path \in readdressed

\* What a scan has told the client and not taken back is what its table holds:
\* no device is lost (it would never be told as removed) and none is told as
\* removed that is still there.
ReportedIsTable ==
  \A s \in mLeScanFilters, a \in Address \ readdressed :
    a \in reported[s] <=> mLeDevicesByScanId[s][a] # NoObject
=============================================================================
