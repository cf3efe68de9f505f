------------------------------ MODULE Advertise ------------------------------
(***************************************************************************)
(* Advertisers (Bluez5Advertise and the calls of Bluez5Adapter on it): the *)
(* ids handed out, the D-Bus object of each, what BlueZ has been asked to  *)
(* advertise.  What an advertisement says is left out.                     *)
(***************************************************************************)
EXTENDS Naturals, FiniteSets

CONSTANTS
    IdRange,        \* how many values an id has: 256 in the code
    MaxInstances    \* advertisements BlueZ has room for

AdvertiseAssumption == IdRange \in Nat \ {0} /\ MaxInstances \in Nat

VARIABLES
    nextAdvId,         \* the static counter
    mAdvertiserMap,    \* ids that have a D-Bus object
    registering,       \* RegisterAdvertisement calls in flight
    advertised         \* external: what BlueZ advertises for this process

vars == <<nextAdvId, mAdvertiserMap, registering, advertised>>

Ids == 0..(IdRange - 1)

TypeOK ==
    /\ nextAdvId \in Ids
    /\ mAdvertiserMap \subseteq Ids
    /\ registering \subseteq Ids
    /\ advertised \subseteq Ids

Init ==
    /\ nextAdvId = 1 % IdRange
    /\ mAdvertiserMap = {} /\ registering = {} /\ advertised = {}

\* createAdvertisementId.  An id still in use cannot be exported again, and
\* createInterface then makes a string of a null pointer: the process ends.
CreateAdvertisementId ==
    /\ nextAdvId \notin mAdvertiserMap
    /\ nextAdvId' = (nextAdvId + 1) % IdRange
    /\ mAdvertiserMap' = mAdvertiserMap \union {nextAdvId}
    /\ UNCHANGED <<registering, advertised>>

\* startAdvertising ends in registerAdvertisement, unless BlueZ has no room or
\* the data is too long: then nothing but the object's properties changes.
StartAdvertising(id) ==
    /\ id \in mAdvertiserMap
    /\ Cardinality(advertised \union registering) < MaxInstances
    /\ registering' = registering \union {id}
    /\ UNCHANGED <<nextAdvId, mAdvertiserMap, advertised>>

\* BlueZ reads the object, and may refuse it; the client is told which.
RegisterReply(id) ==
    /\ id \in registering
    /\ registering' = registering \ {id}
    /\ \/ advertised' = advertised \union ({id} \intersect mAdvertiserMap)
       \/ UNCHANGED advertised
    /\ UNCHANGED <<nextAdvId, mAdvertiserMap>>

\* Mutant: the entry is erased before its path is looked up.
UnRegisterAdvertisementErasesFirst(id) ==
    /\ mAdvertiserMap' = mAdvertiserMap \ {id}
    /\ UNCHANGED <<nextAdvId, registering, advertised>>

\* unRegisterAdvertisement: an id with no object is taken to be unregistered;
\* else the object goes, and BlueZ is told.
UnRegisterAdvertisement(id) ==
    /\ mAdvertiserMap' = mAdvertiserMap \ {id}
    /\ advertised' = IF id \in mAdvertiserMap THEN advertised \ {id} ELSE advertised
    /\ UNCHANGED <<nextAdvId, registering>>

\* BlueZ drops an advertisement: handleRelease keeps the object, to be started
\* again.
HandleRelease(id) ==
    /\ id \in advertised
    /\ advertised' = advertised \ {id}
    /\ UNCHANGED <<nextAdvId, mAdvertiserMap, registering>>

Next ==
    \/ CreateAdvertisementId
    \/ \E id \in Ids : \/ StartAdvertising(id) \/ RegisterReply(id)
                       \/ UnRegisterAdvertisement(id) \/ HandleRelease(id)

Spec == Init /\ [][Next]_vars

\* BlueZ advertises nothing the client has no id to stop: an advertisement
\* outlives neither its object nor a registration that ends after it.
AdvertisedOwned == advertised \subseteq mAdvertiserMap
=============================================================================
