----------------------------- MODULE GattServer -----------------------------
(***************************************************************************)
(* The server side of Bluez5ProfileGatt: the local applications with their *)
(* services, characteristics and descriptors, the D-Bus objects that are   *)
(* exported for them, and the writes of remote devices.                    *)
(*                                                                         *)
(* An object is exported first; the application is then taken back from    *)
(* BlueZ (synchronously) and registered again (asynchronously), and only   *)
(* the callback of that registration puts the object in its table.  Until  *)
(* then the table it is to be put in may be gone: the process may end      *)
(* there, which is to stop, or go on without it.                           *)
(*                                                                         *)
(* An object is its path: <<app, service, characteristic, descriptor>> or  *)
(* a beginning of it.                                                      *)
(***************************************************************************)
EXTENDS Naturals, Sequences, FiniteSets

CONSTANTS
    MaxApp, MaxService, MaxChar, MaxDesc,   \* bounds: the last id of each kind
    ServiceGap,                             \* service ids other adapters take in between
    MaxPending,                             \* bound: registrations in flight
    MaxExported                             \* bound: objects exported at once

GattServerAssumption ==
    /\ MaxApp \in Nat /\ MaxService \in Nat /\ MaxChar \in Nat /\ MaxDesc \in Nat
    /\ MaxPending \in Nat /\ MaxExported \in Nat /\ ServiceGap \in Nat

VARIABLES
    acquired,   \* the bus name is ours and the object manager made
    apps,       \* mGattLocalApplications
    nextId,     \* the static counters, by kind
    stored,     \* objects in the tables of the applications
    hollow,     \* stored services whose D-Bus object is gone
    exported,   \* objects the object manager shows
    pending,    \* registrations in flight, by the object added
    lost,       \* exported objects whose registration put them in no table
    mLastCharId

vars == <<acquired, apps, nextId, stored, hollow, exported, pending, lost, mLastCharId>>

Kinds == {"app", "service", "char", "desc"}

None == <<>>

Object == {<<a, s>> : a \in 1..MaxApp, s \in 1..MaxService}
          \union {<<a, s, c>> : a \in 1..MaxApp, s \in 1..MaxService, c \in 0..MaxChar}
          \union {<<a, s, c, d>> : a \in 1..MaxApp, s \in 1..MaxService,
                                   c \in 0..MaxChar, d \in 1..MaxDesc}

TypeOK ==
    /\ acquired \in BOOLEAN
    /\ apps \subseteq 1..MaxApp
    /\ nextId \in [Kinds -> Nat]
    /\ stored \subseteq Object
    /\ hollow \subseteq {p \in stored : Len(p) = 2}
    /\ exported \subseteq Object
    /\ pending \subseteq exported
    /\ lost \subseteq exported
    /\ mLastCharId \in 0..MaxChar

Init ==
    /\ acquired = FALSE
    /\ apps = {}
    /\ nextId = [k \in Kinds |-> 1]
    /\ stored = {} /\ hollow = {} /\ exported = {} /\ pending = {} /\ lost = {}
    /\ mLastCharId = 0

Under(p, q) == Len(p) < Len(q) /\ SubSeq(q, 1, Len(p)) = p

Up(p) == SubSeq(p, 1, Len(p) - 1)

HandleBusAcquired ==
    /\ ~acquired
    /\ acquired' = TRUE
    /\ UNCHANGED <<apps, nextId, stored, hollow, exported, pending, lost, mLastCharId>>

AddApplication ==
    /\ nextId["app"] <= MaxApp
    /\ apps' = apps \union {nextId["app"]}
    /\ nextId' = [nextId EXCEPT !["app"] = @ + 1]
    /\ UNCHANGED <<acquired, stored, hollow, exported, pending, lost, mLastCharId>>

\* What addService, addCharacteristic and addDescriptor share: a new id, the
\* object p exported, the registration started.
Add(kind, p, max, gap) ==
    /\ Cardinality(pending) < MaxPending /\ Cardinality(exported) < MaxExported
    /\ nextId[kind] <= max
    /\ nextId' = [nextId EXCEPT ![kind] = @ + 1 + gap]
    /\ exported' = exported \union {p}
    /\ pending' = pending \union {p}
    /\ UNCHANGED <<acquired, apps, stored, hollow, lost, mLastCharId>>

\* The counters are static: the profiles of other adapters take ids too.
AddService(a) ==
    /\ acquired /\ a \in apps
    /\ Add("service", <<a, nextId["service"]>>, MaxService, ServiceGap)

AddCharacteristic(a, s) ==
    <<a, s>> \in stored /\ Add("char", <<a, s, nextId["char"]>>, MaxChar, 0)

\* The characteristic is the one registered last, of whatever service: the
\* client is told if it is not one of this service, and the work goes on.
AddDescriptor(a, s) ==
    /\ <<a, s>> \in stored
    /\ Add("desc", <<a, s, mLastCharId, nextId["desc"]>>, MaxDesc, 0)

\* The callback of registerLocalApplication.  An object that fails stays
\* exported; so does one whose table is gone.
RegisterReply(p) ==
    /\ pending' = pending \ {p}
    /\ \/ /\ Len(p) = 2 \/ Up(p) \in stored
          /\ stored' = stored \union {p}
          /\ mLastCharId' = IF Len(p) = 3 THEN p[3] ELSE mLastCharId
          /\ UNCHANGED lost
       \/ /\ lost' = lost \union {p}
          /\ UNCHANGED <<stored, mLastCharId>>

HandleRegisterReply(p) ==
    /\ p \in pending
    /\ RegisterReply(p)
    /\ UNCHANGED <<acquired, apps, nextId, hollow, exported>>

\* removeLocalDescriptors, removeLocalCharacteristics and removeLocalServices:
\* what is stored under the services S that still have their objects.
Gone(S) == {q \in stored : \E s \in S \ hollow : Under(s, q)}

\* Mutant: the descriptors are left behind.
RemoveLocalServicesShallow(S) ==
    {q \in stored : \E s \in S \ hollow : Under(s, q) /\ Len(q) = 3} \union (S \ hollow)

RemoveLocalServices(S) == Gone(S) \union (S \ hollow)

\* The entry is erased with all it holds; what was put under a service that
\* had lost its object stays exported.
RemoveService(s) ==
    /\ s \in stored /\ Len(s) = 2 /\ acquired
    /\ exported' = exported \ RemoveLocalServices({s})
    /\ stored' = {q \in stored : q # s /\ ~Under(s, q)}
    /\ hollow' = hollow \ {s}
    /\ lost' = lost \union {q \in stored : s \in hollow /\ Under(s, q)}
    /\ UNCHANGED <<acquired, apps, nextId, pending, mLastCharId>>

\* The objects go; neither the application nor its services leave the tables.
RemoveApplication(a) ==
    LET S == {q \in stored : Len(q) = 2 /\ q[1] = a} IN
    /\ a \in apps /\ acquired
    /\ exported' = exported \ RemoveLocalServices(S)
    /\ stored' = stored \ Gone(S)
    /\ hollow' = hollow \union S
    /\ UNCHANGED <<acquired, apps, nextId, pending, lost, mLastCharId>>

\* An id as it is read from a path: its last digit.
Digit(n) == n % 10

\* Mutant: each part is taken from the application's.
WrittenInApp(p) == [i \in 1..(Len(p) - 1) |-> Digit(p[1])]

\* The object a remote wrote, as it is read from the path.
Written(p) == [i \in 1..(Len(p) - 1) |-> Digit(p[i])]

\* onHandleCharacteriscticWriteValue and onHandleDescrptorWriteValue: what the
\* client is told has been written, if anything.
OnHandleWriteValue(p) ==
    LET w == Written(p) IN
    IF w[1] \in apps /\ SubSeq(w, 1, 2) \in stored \ hollow /\ w \in stored THEN w ELSE None

Next ==
    \/ HandleBusAcquired
    \/ AddApplication
    \/ \E a \in apps : AddService(a) \/ RemoveApplication(a)
    \/ \E p \in stored : AddCharacteristic(p[1], p[2]) \/ AddDescriptor(p[1], p[2])
    \/ \E p \in stored : RemoveService(p)
    \/ \E p \in pending : HandleRegisterReply(p)

Spec == Init /\ [][Next]_vars

(***************************************************************************)
(* Properties.                                                             *)
(***************************************************************************)
\* Every object that BlueZ can see is in a table, from which it can be removed,
\* or waits for its registration, or is one that registration lost; and what a
\* table holds is exported (addService, addCharacteristic, removeLocalServices).
ExportedAccounted ==
    /\ exported = (stored \ hollow) \union pending \union lost
    /\ (stored \ hollow) \intersect (pending \union lost) = {}

\* A write of a remote device is reported for the service and characteristic
\* written, while every id in its path has one digit.
WriteToldWhereWritten ==
    \A p \in exported :
        Len(p) > 2 /\ (\A i \in DOMAIN p : p[i] < 10)
            => OnHandleWriteValue(p) \in {Up(p), None}
=============================================================================
