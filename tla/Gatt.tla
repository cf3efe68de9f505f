-------------------------------- MODULE Gatt --------------------------------
(***************************************************************************)
(* The client side of Bluez5ProfileGatt: the attributes of remote devices  *)
(* as BlueZ's objects come and go, what the client has been told of them,  *)
(* the copy that getService answers from, connection ids, and devices that *)
(* are connected again when they come back.                                *)
(*                                                                         *)
(* Every callback runs on one main loop, so a handler is one step.  A call *)
(* on a device is answered in a step of its own, and its callback holds on *)
(* to the device object and to a position in the table of connections.  A  *)
(* reply that finds one of them gone may end the process, which is to stop *)
(* here, or go on: there is no fairness, so stopping needs no action.      *)
(*                                                                         *)
(* BlueZ announces a parent before its children and withdraws it after     *)
(* them.  Values of attributes are left out: what matters is which         *)
(* attributes the tables hold and which the copies list.                   *)
(***************************************************************************)
EXTENDS Naturals, FiniteSets

CONSTANTS
    Devices,       \* addresses of remote devices
    Services,      \* object paths of org.bluez.GattService1
    Attributes,    \* object paths of characteristics and descriptors
    ParentOf,      \* the path above: device, service or characteristic
    UuidOf,        \* the UUID of a service
    None,
    MaxId,         \* bound: connection ids handed out
    MaxCalls,      \* bound: calls in flight
    MaxTimeouts    \* bound: reconnection timeouts that fire

Paths == Services \union Attributes

Chars == {a \in Attributes : ParentOf[a] \in Services}

ServiceOf(a) == IF a \in Services THEN a
                ELSE IF ParentOf[a] \in Services THEN ParentOf[a]
                ELSE ParentOf[ParentOf[a]]

DeviceOf(a) == ParentOf[ServiceOf(a)]

ASSUME GattAssumption ==
    /\ None \notin Devices \union [armed : BOOLEAN, id : 1..MaxId]
    /\ Services \intersect Attributes = {}
    /\ ParentOf \in [Paths -> Devices \union Paths]
    /\ \A s \in Services : ParentOf[s] \in Devices
    /\ \A a \in Attributes : \/ ParentOf[a] \in Services
                             \/ ParentOf[a] \in Chars
    /\ UuidOf \in [Services -> Services]
    /\ MaxId \in Nat /\ MaxCalls \in Nat /\ MaxTimeouts \in Nat

VARIABLES
    announced,   \* objects BlueZ shows (external)
    known,       \* devices in the adapter's table
    services,    \* mDeviceServicesMap: the services of each device
    stored,      \* characteristic and descriptor objects of those services
    listed,      \* attributes the services' own descriptions list
    cache,       \* mRemoteDeviceServicesMap: device -> paths, or None
    toldUuids,   \* the client's view: services found and not lost
    toldUp,      \* the client's view: CONNECTED
    conns,       \* mConnectedDevices: id -> device, or None
    auto,        \* mAutoConnDevMap: device -> [armed, id], or None
    sources,     \* reconnection timers in the main loop, per device
    fired,       \* timeouts that ran to their end, per device
    calls,       \* calls on devices in flight
    nextId,      \* nextAppId
    leftUp       \* devices removed while Connected, the copy not rebuilt since

attrVars == <<announced, services, stored, listed, toldUuids>>
connVars == <<conns, auto, sources, fired, calls, nextId>>
vars == <<announced, known, services, stored, listed, cache, toldUuids, toldUp,
          conns, auto, sources, fired, calls, nextId, leftUp>>

Ids == 1..MaxId
Slots == 1..MaxCalls

Call == [kind : {"connect", "reconnect", "disconnect"}, dev : Devices, id : Ids,
         auto : BOOLEAN,
         entry : BOOLEAN]     \* the position in conns is still valid

TypeOK ==
    /\ announced \subseteq Paths
    /\ known \subseteq Devices
    /\ services \in [Devices -> SUBSET Services]
    /\ \A d \in Devices : \A s \in services[d] : ParentOf[s] = d
    /\ stored \subseteq Attributes /\ listed \subseteq Attributes
    /\ cache \in [Devices -> (SUBSET Paths) \union {None}]
    /\ toldUuids \in [Devices -> SUBSET Services]
    /\ toldUp \in [Devices -> BOOLEAN]
    /\ conns \in [Ids -> Devices \union {None}]
    /\ auto \in [Devices -> [armed : BOOLEAN, id : Ids] \union {None}]
    /\ sources \in [Devices -> Nat]
    /\ fired \in [Devices -> 0..MaxTimeouts]
    /\ calls \in [Slots -> Call \union {None}]
    /\ nextId \in 1..(MaxId + 1)
    /\ leftUp \subseteq Devices

Init ==
    /\ announced = {} /\ known = {}
    /\ services = [d \in Devices |-> {}]
    /\ stored = {} /\ listed = {}
    /\ cache = [d \in Devices |-> None]
    /\ toldUuids = [d \in Devices |-> {}]
    /\ toldUp = [d \in Devices |-> FALSE]
    /\ conns = [i \in Ids |-> None]
    /\ auto = [d \in Devices |-> None]
    /\ sources = [d \in Devices |-> 0]
    /\ fired = [d \in Devices |-> 0]
    /\ calls = [k \in Slots |-> None] /\ nextId = 1 /\ leftUp = {}

(***************************************************************************)
(* Remote attributes.                                                      *)
(***************************************************************************)
Listing(ss, ls) == ss \union {a \in ls : ServiceOf(a) \in ss}

\* updateRemoteDeviceServices: the copy is thrown away and made anew.
Snapshot(svs, ls) ==
    [d \in Devices |-> IF svs[d] = {} THEN None ELSE Listing(svs[d], ls)]

SameUuid(s, d) == \E t \in services[d] : UuidOf[t] = UuidOf[s]

\* getRemoteGattService: by the path of a service, through its device.
GetRemoteGattService(s) == ParentOf[s] \in known /\ s \in services[ParentOf[s]]

CreateRemoteGattService(s) ==
    LET d == ParentOf[s]
        svs == [services EXCEPT ![d] = @ \union {s}]
    IN  IF d \notin known \/ SameUuid(s, d)
        THEN UNCHANGED <<services, cache, toldUuids, toldUp, leftUp>>
        ELSE /\ services' = svs
             /\ toldUuids' = [toldUuids EXCEPT ![d] = @ \union {UuidOf[s]}]
             /\ IF services[d] = {}
                THEN toldUp' = [toldUp EXCEPT ![d] = TRUE] /\ UNCHANGED <<cache, leftUp>>
                ELSE cache' = Snapshot(svs, listed) /\ leftUp' = {} /\ UNCHANGED toldUp

\* A service that goes starts the timer of a device to be connected again.
ArmAutoConnect(d) ==
    IF auto[d] = None THEN UNCHANGED <<auto, sources>>
    ELSE /\ auto' = [auto EXCEPT ![d].armed = TRUE]
         /\ sources' = [sources EXCEPT ![d] = IF auto[d].armed THEN @ ELSE @ + 1]

\* Mutant: DISCONNECTED is told when there was no service left before.
RemoveRemoteGattServiceTellsLate(s) ==
    LET d == ParentOf[s] IN
    IF d \notin known THEN UNCHANGED <<services, stored, listed, toldUuids, toldUp, auto, sources>>
    ELSE /\ ArmAutoConnect(d)
         /\ services' = [services EXCEPT ![d] = @ \ {s}]
         /\ stored' = {a \in stored : ServiceOf(a) # s}
         /\ listed' = {a \in listed : ServiceOf(a) # s}
         /\ toldUuids' = [toldUuids EXCEPT ![d] = IF s \in services[d] THEN @ \ {UuidOf[s]} ELSE @]
         /\ toldUp' = [toldUp EXCEPT ![d] = @ /\ services[d] # {}]

\* removeRemoteGattService does not rebuild the copy.
RemoveRemoteGattService(s) ==
    LET d == ParentOf[s]
        left == services[d] \ {s} IN
    IF d \notin known THEN UNCHANGED <<services, stored, listed, toldUuids, toldUp, auto, sources>>
    ELSE /\ ArmAutoConnect(d)
         /\ services' = [services EXCEPT ![d] = left]
         /\ stored' = {a \in stored : ServiceOf(a) # s}
         /\ listed' = {a \in listed : ServiceOf(a) # s}
         /\ toldUuids' = [toldUuids EXCEPT ![d] = IF s \in services[d] THEN @ \ {UuidOf[s]} ELSE @]
         /\ toldUp' = [toldUp EXCEPT ![d] = @ /\ left # {}]

\* The object is kept, or leaked when its service or characteristic is absent.
CreateRemoteGattCharacteristic(c) ==
    IF GetRemoteGattService(ParentOf[c])
    THEN stored' = stored \union {c} /\ listed' = listed \union {c}
    ELSE UNCHANGED <<stored, listed>>

CreateRemoteGattDescriptor(a) ==
    IF GetRemoteGattService(ServiceOf(a)) /\ ParentOf[a] \in stored
    THEN stored' = stored \union {a} /\ listed' = listed \union {a}
    ELSE UNCHANGED <<stored, listed>>

\* Only the objects go, not what the service's description lists.
RemoveRemoteGattCharacteristic(c) ==
    stored' = IF GetRemoteGattService(ParentOf[c])
              THEN {a \in stored : a # c /\ ParentOf[a] # c} ELSE stored

RemoveRemoteGattDescriptor(a) ==
    stored' = IF GetRemoteGattService(ServiceOf(a)) /\ ParentOf[a] \in stored
              THEN stored \ {a} ELSE stored

Parent(p) == IF p \in Services THEN ParentOf[p] \in known ELSE ParentOf[p] \in announced

HandleObjectAdded(p) ==
    /\ p \notin announced /\ Parent(p)
    /\ announced' = announced \union {p}
    /\ \/ /\ p \in Services
          /\ CreateRemoteGattService(p)
          /\ UNCHANGED <<stored, listed>>
       \/ /\ p \in Chars
          /\ CreateRemoteGattCharacteristic(p)
          /\ UNCHANGED <<services, cache, toldUuids, toldUp, leftUp>>
       \/ /\ p \in Attributes \ Chars
          /\ CreateRemoteGattDescriptor(p)
          /\ UNCHANGED <<services, cache, toldUuids, toldUp, leftUp>>
    /\ UNCHANGED known /\ UNCHANGED connVars

HandleObjectRemoved(p) ==
    /\ p \in announced /\ \A q \in announced : ParentOf[q] # p
    /\ announced' = announced \ {p}
    /\ \/ /\ p \in Services
          /\ RemoveRemoteGattService(p)
       \/ /\ p \in Chars
          /\ RemoveRemoteGattCharacteristic(p)
          /\ UNCHANGED <<services, listed, toldUuids, toldUp, auto, sources>>
       \/ /\ p \in Attributes \ Chars
          /\ RemoveRemoteGattDescriptor(p)
          /\ UNCHANGED <<services, listed, toldUuids, toldUp, auto, sources>>
    /\ UNCHANGED <<known, cache, conns, fired, calls, nextId, leftUp>>

(***************************************************************************)
(* Reads and writes: calls that BlueZ answers at once, on the objects of   *)
(* the table.  A read that fails gives an empty value and counts.          *)
(***************************************************************************)
\* getAddress and findService: by address, or by the id of a connection.
Reachable(a) ==
    /\ ServiceOf(a) \in services[DeviceOf(a)]
    /\ a \in stored

RebuildCopy == cache' = Snapshot(services, listed) /\ leftUp' = {}

\* The four differ in the flag they ask of the characteristic.
ReadCharacteristic(a)  == a \in Chars /\ Reachable(a) /\ RebuildCopy
WriteCharacteristic(a) == a \in Chars /\ Reachable(a) /\ RebuildCopy
ReadDescriptor(a) ==
    a \in Attributes \ Chars /\ Reachable(a) /\ Reachable(ParentOf[a]) /\ RebuildCopy
WriteDescriptor(a) ==
    a \in Attributes \ Chars /\ Reachable(a) /\ Reachable(ParentOf[a]) /\ RebuildCopy

Access(a) ==
    /\ \/ ReadCharacteristic(a) \/ WriteCharacteristic(a)
       \/ ReadDescriptor(a) \/ WriteDescriptor(a)
    /\ UNCHANGED <<known, toldUp>> /\ UNCHANGED attrVars /\ UNCHANGED connVars

\* discoverServices(address): the whole copy goes, one device is copied anew.
DiscoverServices(d) ==
    /\ cache' = [e \in Devices |-> IF e = d THEN Snapshot(services, listed)[d] ELSE None]
    /\ leftUp' = {}
    /\ UNCHANGED <<known, toldUp>> /\ UNCHANGED attrVars /\ UNCHANGED connVars

(***************************************************************************)
(* Connections.                                                            *)
(***************************************************************************)
IdsOf(d) == {i \in Ids : conns[i] = d}

\* Erasing an id makes invalid the positions that callbacks hold.
Erased(i, cs) ==
    [k \in Slots |-> IF cs[k] # None /\ cs[k].id = i
                     THEN [cs[k] EXCEPT !.entry = FALSE] ELSE cs[k]]

NewCall(kind, d, i, a) ==
    [kind |-> kind, dev |-> d, id |-> i, auto |-> a, entry |-> TRUE]

Start(c) ==
    \E k \in Slots : /\ calls[k] = None
                     /\ \A j \in Slots : j < k => calls[j] # None
                     /\ calls' = [calls EXCEPT ![k] = c]

ConnectGatt(d, a) ==
    /\ nextId \in Ids
    /\ nextId' = nextId + 1
    /\ d \in known
    /\ IF IdsOf(d) = {}
       THEN Start(NewCall("connect", d, nextId, a))
       ELSE \E i \in IdsOf(d) :
              IF auto[d] # None /\ ~auto[d].armed
              THEN UNCHANGED calls
              ELSE Start(NewCall("connect", d, i, a))
    /\ UNCHANGED <<known, cache, toldUp, conns, auto, sources, fired, leftUp>>
    /\ UNCHANGED attrVars

DisconnectGatt(i) ==
    /\ conns[i] \in known
    /\ Start(NewCall("disconnect", conns[i], i, FALSE))
    /\ UNCHANGED <<known, cache, toldUp, conns, auto, sources, fired, nextId, leftUp>>
    /\ UNCHANGED attrVars

\* Mutant: the timer of the entry that is replaced stays in the main loop.
HandleAutoConnectReqKeepsTimer(on, d, i) ==
    /\ auto' = [auto EXCEPT ![d] = IF on THEN [armed |-> FALSE, id |-> i] ELSE None]
    /\ UNCHANGED sources

\* Mutant: a timer is taken away whether it was armed or not.
HandleAutoConnectReqAlwaysRemoves(on, d, i) ==
    /\ auto' = [auto EXCEPT ![d] = IF on THEN [armed |-> FALSE, id |-> i] ELSE None]
    /\ sources' = [sources EXCEPT ![d] = IF auto[d] # None THEN @ - 1 ELSE @]

\* handleAutoConnectReq: the timer of the entry it replaces is taken away.
HandleAutoConnectReq(on, d, i) ==
    /\ auto' = [auto EXCEPT ![d] = IF on THEN [armed |-> FALSE, id |-> i] ELSE None]
    /\ sources' = [sources EXCEPT ![d] =
                     IF auto[d] # None /\ auto[d].armed THEN @ - 1 ELSE @]

Answer(k) == calls' = [calls EXCEPT ![k] = None]

ConnectReply(k, c) ==
    /\ c.kind = "connect"
    /\ \/ /\ HandleAutoConnectReq(c.auto, c.dev, c.id)
          /\ conns' = [conns EXCEPT ![c.id] = IF @ = None THEN c.dev ELSE @]
       \/ UNCHANGED <<conns, auto, sources>>
    /\ Answer(k)

\* The connection is stored when the call has failed.
ReconnectReply(k, c) ==
    /\ c.kind = "reconnect"
    /\ conns' = [conns EXCEPT ![c.id] = c.dev] \/ UNCHANGED conns
    /\ Answer(k)
    /\ UNCHANGED <<auto, sources>>

\* An entry that is gone is erased again: nothing happens, or a crash.
DisconnectReply(k, c) ==
    /\ c.kind = "disconnect"
    /\ \/ /\ conns' = IF c.entry THEN [conns EXCEPT ![c.id] = None] ELSE conns
          /\ calls' = LET rest == [calls EXCEPT ![k] = None]
                      IN  IF c.entry THEN Erased(c.id, rest) ELSE rest
          /\ HandleAutoConnectReq(FALSE, c.dev, c.id)
       \/ Answer(k) /\ UNCHANGED <<conns, auto, sources>>

Reply(k) ==
    /\ calls[k] # None
    /\ \/ ConnectReply(k, calls[k])
       \/ ReconnectReply(k, calls[k])
       \/ DisconnectReply(k, calls[k])
    /\ UNCHANGED <<known, cache, toldUp, fired, nextId, leftUp>>
    /\ UNCHANGED attrVars

(***************************************************************************)
(* Devices that go and come back.                                          *)
(***************************************************************************)
\* The two object managers hear of a device in either order: the one of GATT
\* adds a device it waits for itself.
DeviceAdded(d) ==
    /\ d \notin known
    /\ known' = known \union {d}
    /\ IF auto[d] = None THEN UNCHANGED <<auto, sources, calls>>
       ELSE /\ Start(NewCall("reconnect", d, auto[d].id, FALSE))
            /\ auto' = [auto EXCEPT ![d].armed = FALSE]
            /\ sources' = [sources EXCEPT ![d] = IF auto[d].armed THEN @ - 1 ELSE @]
    /\ UNCHANGED <<cache, toldUp, conns, fired, nextId, leftUp>>
    /\ UNCHANGED attrVars

\* Mutant: the id goes though the device is to be connected again.
UpdateDevicePropertiesForgetsAuto(d) ==
    /\ IF IdsOf(d) # {}
       THEN \E i \in IdsOf(d) : /\ conns' = [conns EXCEPT ![i] = None]
                                /\ calls' = Erased(i, calls)
       ELSE UNCHANGED <<conns, calls>>
    /\ services' = [services EXCEPT ![d] = {}]
    /\ cache' = [cache EXCEPT ![d] = None]
    /\ toldUp' = [toldUp EXCEPT ![d] = FALSE]

\* Mutant: the copy that getService answers from stays.
UpdateDevicePropertiesKeepsCopy(d) ==
    /\ IF auto[d] = None /\ IdsOf(d) # {}
       THEN \E i \in IdsOf(d) : /\ conns' = [conns EXCEPT ![i] = None]
                                /\ calls' = Erased(i, calls)
       ELSE UNCHANGED <<conns, calls>>
    /\ services' = [services EXCEPT ![d] = {}]
    /\ UNCHANGED cache
    /\ toldUp' = [toldUp EXCEPT ![d] = FALSE]

\* One of the ids of the device goes, unless it is to be connected again.
UpdateDeviceProperties(d) ==
    /\ IF auto[d] = None /\ IdsOf(d) # {}
       THEN \E i \in IdsOf(d) : /\ conns' = [conns EXCEPT ![i] = None]
                                /\ calls' = Erased(i, calls)
       ELSE UNCHANGED <<conns, calls>>
    /\ services' = [services EXCEPT ![d] = {}]
    /\ cache' = [cache EXCEPT ![d] = None]
    /\ toldUp' = [toldUp EXCEPT ![d] = FALSE]

\* Bluez5Adapter::removeDevice: a device that is Connected keeps its entries.
RemoveDevice(d, up) ==
    /\ d \in known /\ \A p \in announced : DeviceOf(p) # d
    /\ known' = known \ {d}
    /\ IF up
       THEN leftUp' = leftUp \union {d} /\ UNCHANGED <<services, conns, calls, cache, toldUp>>
       ELSE UpdateDeviceProperties(d) /\ leftUp' = leftUp \ {d}
    /\ UNCHANGED <<announced, stored, listed, toldUuids, auto, sources, fired, nextId>>

\* autoConnTimeoutHandler reads what was on a stack when the timer was made: it
\* may read what was there, or an address of no device.
HandleAutoConnTimeout(d) ==
    /\ sources[d] > 0 /\ fired[d] < MaxTimeouts
    /\ IF auto[d] # None /\ auto[d].armed
       THEN /\ auto' = [auto EXCEPT ![d] = None]
            /\ conns' = [conns EXCEPT ![auto[d].id] = None]
            /\ calls' = Erased(auto[d].id, calls)
            /\ fired' = [fired EXCEPT ![d] = @ + 1]
       ELSE UNCHANGED <<auto, conns, calls, fired>>
    /\ UNCHANGED <<known, cache, toldUp, sources, nextId, leftUp>>
    /\ UNCHANGED attrVars

Next ==
    \/ \E p \in Paths : HandleObjectAdded(p) \/ HandleObjectRemoved(p)
    \/ \E a \in Attributes : Access(a)
    \/ \E d \in Devices : \/ DiscoverServices(d) \/ DeviceAdded(d)
                          \/ \E a \in BOOLEAN : ConnectGatt(d, a)
                          \/ \E up \in BOOLEAN : RemoveDevice(d, up)
                          \/ HandleAutoConnTimeout(d)
    \/ \E i \in Ids : DisconnectGatt(i)
    \/ \E k \in Slots : Reply(k)

Spec == Init /\ [][Next]_vars

(***************************************************************************)
(* Properties.                                                             *)
(***************************************************************************)
\* What serviceFound, serviceLost and CONNECTED have told the client of a
\* device is what the table of services holds.
ToldIsTable ==
    \A d \in Devices : /\ toldUuids[d] = {UuidOf[s] : s \in services[d]}
                       /\ toldUp[d] = (services[d] # {})

\* A device that waits to be connected again still has the connection id it
\* will be connected with (updateDeviceProperties, handleAutoConnTimeout).
AutoConnectHasId == \A d \in Devices : auto[d] # None => conns[auto[d].id] = d

\* A reconnection timer in the main loop is the one of the entry, that can be
\* taken away, but for those that have fired and are kept by their handler.
TimersOwned ==
    \A d \in Devices : sources[d] = fired[d] + (IF auto[d] # None /\ auto[d].armed THEN 1 ELSE 0)

\* No object of an attribute outlives the object of BlueZ it calls, and of a
\* device that left while it was not Connected getService finds nothing.
NothingStale ==
    /\ stored \subseteq announced
    /\ \A d \in Devices :
          /\ services[d] \subseteq announced
          /\ d \notin known \union leftUp => services[d] = {} /\ cache[d] = None
=============================================================================
