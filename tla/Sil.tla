---------------------------------- MODULE Sil ----------------------------------
(***************************************************************************)
(* The service (Bluez5SIL): BlueZ as it appears on the bus and goes, the   *)
(* object managers that watch its objects, the list of adapters and the    *)
(* default one, the agent and the profile manager they are given, and the  *)
(* adapter an object path belongs to.                                      *)
(*                                                                         *)
(* Each start of BlueZ makes a new object manager, and the old ones live   *)
(* on: they lose their objects with BlueZ and get them back with it, so    *)
(* that an object is announced once by each.  The loss of the name is told *)
(* to the service before it is told to the managers.                       *)
(***************************************************************************)
EXTENDS Naturals, Sequences, FiniteSets

CONSTANTS
  Path,        \* object paths of adapters
  Hci0,        \* the one with hci0 in it
  PrefixOf,    \* pairs of paths of which the first is the beginning of the second
  Device,      \* objects with the interface Device1
  Owner,       \* the path of the adapter each device is under
  Root,        \* the object with AgentManager1 and ProfileManager1
  MaxManagers  \* bound: object managers made, i.e. starts of BlueZ

Adapter == [path : Path, devices : SUBSET Device, agent : BOOLEAN, profiles : BOOLEAN,
            player : BOOLEAN]

ASSUME SilAssumption ==
  /\ IsFiniteSet(Path)
  /\ Hci0 \in Path
  /\ PrefixOf \subseteq Path \X Path
  /\ \A p \in Path : <<p, p>> \in PrefixOf
  /\ Owner \in [Device -> Path]
  /\ Path \cap Device = {}
  /\ Root \notin Path \cup Device
  /\ MaxManagers \in Nat

VARIABLES
  mAdapters,        \* the list; each with its devices, pointers and player
  mDefaultAdapter,  \* where in the list it points, 0 is null
  mAgent,           \* the agent and its manager exist
  mProfileManager,  \* the profile manager exists
  mObjectManager,   \* the one made last, 0 is null
  managers,         \* how many were made
  view,             \* the objects each manager has
  started,          \* handleBluezServiceStarted was the last to be called
  running,          \* external: BlueZ has its name on the bus
  objects,          \* external: adapters and devices BlueZ has
  vanished          \* external: the loss of the name is on its way

service == <<mAdapters, mDefaultAdapter, mAgent, mProfileManager>>
watching == <<mObjectManager, managers, view, started>>
bluez == <<running, objects, vanished>>
vars == <<service, watching, bluez>>

Manager == 1 .. MaxManagers

TypeOK ==
  /\ mAdapters \in Seq(Adapter)
  /\ mDefaultAdapter \in 0 .. Len(mAdapters)
  /\ mAgent \in BOOLEAN
  /\ mProfileManager \in BOOLEAN
  /\ mObjectManager \in 0 .. managers
  /\ managers \in 0 .. MaxManagers
  /\ view \in [Manager -> SUBSET (Path \cup Device \cup {Root})]
  /\ started \in BOOLEAN
  /\ running \in BOOLEAN
  /\ objects \in SUBSET (Path \cup Device)
  /\ vanished \in BOOLEAN

Init ==
  /\ mAdapters = <<>>
  /\ mDefaultAdapter = 0
  /\ mAgent = FALSE
  /\ mProfileManager = FALSE
  /\ mObjectManager = 0
  /\ managers = 0
  /\ view = [m \in Manager |-> {}]
  /\ started = FALSE
  /\ running = FALSE
  /\ objects = {}
  /\ vanished = FALSE

-----------------------------------------------------------------------------
(* Helpers *)

\* What the managers are shown of BlueZ.
Present == objects \cup (IF running THEN {Root} ELSE {})

\* The i-th adapter is what findAdapterForObjectPath returns for a path under p.
Finds(list, p, i) ==
  /\ <<list[i].path, p>> \in PrefixOf
  /\ \A j \in 1 .. i - 1 : <<list[j].path, p>> \notin PrefixOf

\* createDevice and removeDevice, for all of D
WithDevices(list, D) ==
  [i \in DOMAIN list |->
     [list[i] EXCEPT !.devices = @ \cup {d \in D : Finds(list, Owner[d], i)}]]

WithoutDevice(list, d) ==
  [i \in DOMAIN list |->
     IF Finds(list, Owner[d], i) THEN [list[i] EXCEPT !.devices = @ \ {d}] ELSE list[i]]

\* createMediaManager and removeMediaManager: Media1 is an interface of the adapter's
\* object, and goes to the adapter that is found for its path.
WithPlayers(list, P) ==
  [i \in DOMAIN list |->
     [list[i] EXCEPT !.player = @ \/ \E p \in P : Finds(list, p, i)]]

WithoutPlayer(list, p) ==
  [i \in DOMAIN list |->
     IF Finds(list, p, i) THEN [list[i] EXCEPT !.player = FALSE] ELSE list[i]]

AssignAgent(list, agent) == [i \in DOMAIN list |-> [list[i] EXCEPT !.agent = agent]]

AssignProfileManager(list) == [i \in DOMAIN list |-> [list[i] EXCEPT !.profiles = TRUE]]

\* assignNewDefaultAdapter: the last one of hci0, else what it was.
AssignNewDefaultAdapter(list, default) ==
  LET Hci0At == {i \in DOMAIN list : list[i].path = Hci0}
  IN IF Hci0At = {}
     THEN mDefaultAdapter' = default
     ELSE mDefaultAdapter' \in {i \in Hci0At : \A j \in Hci0At : j <= i}

\* What createAdapter appends to the list.
NewAdapter(p) ==
  [path |-> p, devices |-> {}, agent |-> mAgent, profiles |-> mProfileManager,
   player |-> FALSE]

\* The list without its i-th adapter.
Without(list, i) == [j \in 1 .. Len(list) - 1 |-> list[IF j < i THEN j ELSE j + 1]]

\* Each order in which g_dbus_object_manager_get_objects can give the adapters.
Orders(P) == {s \in [1 .. Cardinality(P) -> P] : \A p \in P : \E i \in DOMAIN s : s[i] = p}

-----------------------------------------------------------------------------
(* BlueZ on the bus *)

\* Mutant: the profile manager is not given to the adapters made before it.
HandleBluezServiceStartedLateProfiles ==
  /\ ~started
  /\ running \/ vanished
  /\ started' = TRUE
  /\ managers < MaxManagers
  /\ managers' = managers + 1
  /\ mObjectManager' = managers + 1
  /\ view' = [view EXCEPT ![managers + 1] = Present]
  /\ mAgent' = (mAgent \/ running)
  /\ mProfileManager' = (mProfileManager \/ running)
  /\ \E order \in Orders(objects \cap Path) :
       LET made == mAdapters \o [i \in DOMAIN order |-> NewAdapter(order[i])]
           given == AssignAgent(made, mAgent')
       IN /\ mAdapters' = WithPlayers(WithDevices(given, objects \cap Device), objects \cap Path)
          /\ AssignNewDefaultAdapter(made, mDefaultAdapter)
  /\ UNCHANGED bluez

\* The manager is made synchronously, with what BlueZ has by then (nothing, if it
\* is gone again); without it the handler returns.  All adapters come first, then the
\* agent and the profile manager, then devices and players.
HandleBluezServiceStarted ==
  /\ ~started
  /\ running \/ vanished
  /\ started' = TRUE
  /\ \/ /\ mObjectManager' = 0
        /\ UNCHANGED <<service, managers, view>>
     \/ /\ managers < MaxManagers
        /\ managers' = managers + 1
        /\ mObjectManager' = managers + 1
        /\ view' = [view EXCEPT ![managers + 1] = Present]
        /\ mAgent' = (mAgent \/ running)
        /\ mProfileManager' = (mProfileManager \/ running)
        /\ \E order \in Orders(objects \cap Path) :
             LET made == mAdapters \o [i \in DOMAIN order |-> NewAdapter(order[i])]
                 given == AssignAgent(made, mAgent')
                 all == IF running THEN AssignProfileManager(given) ELSE given
             IN /\ mAdapters' = WithPlayers(WithDevices(all, objects \cap Device),
                                            objects \cap Path)
                /\ AssignNewDefaultAdapter(made, mDefaultAdapter)
  /\ UNCHANGED bluez

\* Mutant: the adapters are left to the managers to remove.
HandleBluezServiceStoppedKeepsAdapters ==
  /\ started
  /\ vanished
  /\ started' = FALSE
  /\ vanished' = FALSE
  /\ mDefaultAdapter' = 0
  /\ UNCHANGED <<mAdapters, mAgent, mProfileManager, mObjectManager, managers, view,
                 running, objects>>

\* Mutant: the default adapter is left as it is.
HandleBluezServiceStoppedKeepsDefault ==
  /\ started
  /\ vanished
  /\ started' = FALSE
  /\ vanished' = FALSE
  /\ mAdapters' = <<>>
  /\ UNCHANGED <<mDefaultAdapter, mAgent, mProfileManager, mObjectManager, managers, view,
                 running, objects>>

\* The adapters are deleted; agent and managers stay.
HandleBluezServiceStopped ==
  /\ started
  /\ vanished
  /\ started' = FALSE
  /\ vanished' = FALSE
  /\ mDefaultAdapter' = 0
  /\ mAdapters' = <<>>
  /\ UNCHANGED <<mAgent, mProfileManager, mObjectManager, managers, view, running, objects>>

-----------------------------------------------------------------------------
(* Signals of an object manager *)

\* Mutant: the new adapter goes to the head of the list.
CreateAdapterFirst(p) ==
  LET made == <<NewAdapter(p)>> \o mAdapters
  IN /\ AssignNewDefaultAdapter(made, mDefaultAdapter)
     /\ mAdapters' = WithPlayers(made, {p})
     /\ UNCHANGED <<mAgent, mProfileManager>>

\* createAdapter, then createMediaManager
CreateAdapter(p) ==
  LET made == Append(mAdapters, NewAdapter(p))
  IN /\ AssignNewDefaultAdapter(made, mDefaultAdapter)
     /\ mAdapters' = WithPlayers(made, {p})
     /\ UNCHANGED <<mAgent, mProfileManager>>

CreateDevice(d) ==
  /\ mAdapters' = WithDevices(mAdapters, {d})
  /\ UNCHANGED <<mDefaultAdapter, mAgent, mProfileManager>>

\* Mutant: signals of managers other than the one made last are ignored.
HandleObjectAddedOfLast(m, o) ==
  /\ started
  /\ m <= managers
  /\ o \in Present \ view[m]
  /\ o \in Device => Owner[o] \in view[m] \/ m # mObjectManager
  /\ view' = [view EXCEPT ![m] = @ \cup {o}]
  /\ \/ o \in Path /\ m = mObjectManager /\ CreateAdapter(o)
     \/ o \in Device /\ m = mObjectManager /\ CreateDevice(o)
     \/ (o = Root \/ m # mObjectManager) /\ UNCHANGED service
  /\ UNCHANGED <<mObjectManager, managers, started, bluez>>

\* BlueZ shows an adapter before its devices, but a manager that has got all objects
\* anew announces them in any order.
HandleObjectAdded(m, o) ==
  /\ started
  /\ m <= managers
  /\ o \in Present \ view[m]
  /\ o \in Device => Owner[o] \in view[m] \/ m # mObjectManager
  /\ view' = [view EXCEPT ![m] = @ \cup {o}]
  /\ \/ o \in Path /\ CreateAdapter(o)
     \/ o \in Device /\ CreateDevice(o)
     \/ o = Root /\ UNCHANGED service
  /\ UNCHANGED <<mObjectManager, managers, started, bluez>>

\* Mutant: the default adapter is left as it is.
RemoveAdapterKeepsDefault(p) ==
  /\ IF \E i \in DOMAIN mAdapters : mAdapters[i].path = p
     THEN \E i \in DOMAIN mAdapters :
            /\ mAdapters[i].path = p
            /\ \A j \in 1 .. i - 1 : mAdapters[j].path # p
            /\ mAdapters' = WithoutPlayer(Without(mAdapters, i), p)
            /\ AssignNewDefaultAdapter(Without(mAdapters, i),
                 IF mDefaultAdapter > i THEN mDefaultAdapter - 1 ELSE mDefaultAdapter)
     ELSE /\ mAdapters' = WithoutPlayer(mAdapters, p)
          /\ AssignNewDefaultAdapter(mAdapters, mDefaultAdapter)
  /\ UNCHANGED <<mAgent, mProfileManager>>

\* removeAdapter, of the first with the path, then removeMediaManager, which finds
\* another one, if any.
RemoveAdapter(p) ==
  /\ IF \E i \in DOMAIN mAdapters : mAdapters[i].path = p
     THEN \E i \in DOMAIN mAdapters :
            /\ mAdapters[i].path = p
            /\ \A j \in 1 .. i - 1 : mAdapters[j].path # p
            /\ mAdapters' = WithoutPlayer(Without(mAdapters, i), p)
            /\ AssignNewDefaultAdapter(Without(mAdapters, i),
                 IF mDefaultAdapter = i THEN 0
                 ELSE IF mDefaultAdapter > i THEN mDefaultAdapter - 1
                 ELSE mDefaultAdapter)
     ELSE /\ mAdapters' = WithoutPlayer(mAdapters, p)
          /\ AssignNewDefaultAdapter(mAdapters, mDefaultAdapter)
  /\ UNCHANGED <<mAgent, mProfileManager>>

RemoveDevice(d) ==
  /\ mAdapters' = WithoutDevice(mAdapters, d)
  /\ UNCHANGED <<mDefaultAdapter, mAgent, mProfileManager>>

RemoveAgentManager ==
  /\ mAdapters' = IF mAgent THEN AssignAgent(mAdapters, FALSE) ELSE mAdapters
  /\ mAgent' = FALSE
  /\ UNCHANGED <<mDefaultAdapter, mProfileManager>>

HandleObjectRemoved(m, o) ==
  /\ ~vanished
  /\ o \in view[m] \ Present
  /\ view' = [view EXCEPT ![m] = @ \ {o}]
  /\ \/ o \in Path /\ RemoveAdapter(o)
     \/ o \in Device /\ RemoveDevice(o)
     \/ o = Root /\ RemoveAgentManager
  /\ UNCHANGED <<mObjectManager, managers, started, bluez>>

-----------------------------------------------------------------------------
(* External: BlueZ *)

\* Its start is seen after its stop has been, by the service and by the managers.
BluezStarts ==
  /\ ~running
  /\ ~vanished
  /\ \A m \in Manager : view[m] = {}
  /\ running' = TRUE
  /\ UNCHANGED <<service, watching, objects, vanished>>

BluezStops ==
  /\ running
  /\ running' = FALSE
  /\ vanished' = TRUE
  /\ objects' = {}
  /\ UNCHANGED <<service, watching>>

BluezAdds(o) ==
  /\ running
  /\ o \notin objects
  /\ o \in Device => Owner[o] \in objects
  /\ objects' = objects \cup {o}
  /\ UNCHANGED <<service, watching, running, vanished>>

\* An adapter takes its devices with it.
BluezRemoves(o) ==
  /\ o \in objects
  /\ objects' = objects \ ({o} \cup {d \in Device : Owner[d] = o})
  /\ UNCHANGED <<service, watching, running, vanished>>

-----------------------------------------------------------------------------

BluezStep ==
  \/ BluezStarts
  \/ BluezStops
  \/ \E o \in Path \cup Device : BluezAdds(o) \/ BluezRemoves(o)

Signal(o) == \E m \in Manager : HandleObjectAdded(m, o) \/ HandleObjectRemoved(m, o)

Next ==
  \/ HandleBluezServiceStarted
  \/ HandleBluezServiceStopped
  \/ \E o \in Path \cup Device \cup {Root} : Signal(o)
  \/ BluezStep

\* The main loop delivers what has arrived.
Fairness ==
  /\ WF_vars(HandleBluezServiceStarted)
  /\ WF_vars(HandleBluezServiceStopped)
  /\ \A p \in Path : WF_vars(Signal(p))

Spec == Init /\ [][Next]_vars /\ Fairness

-----------------------------------------------------------------------------
(* Properties *)

\* The default adapter is one of the list and that of hci0, and there is one whenever
\* the list has hci0: never a deleted adapter, however they come and go.
DefaultIsHci0 ==
  LET Hci0At == {i \in DOMAIN mAdapters : mAdapters[i].path = Hci0}
  IN IF Hci0At = {} THEN mDefaultAdapter = 0 ELSE mDefaultAdapter \in Hci0At

\* Each adapter has the agent and the profile manager of the service, whichever of
\* them was made first, and none of them once it is deleted.
PointersCurrent ==
  \A i \in DOMAIN mAdapters :
    mAdapters[i].agent = mAgent /\ mAdapters[i].profiles = mProfileManager

\* An adapter is in the list once for each manager that has it, so that it is gone
\* from the list when the last of them has seen it go, and not before.
AdapterPerManager ==
  IF started
  THEN \A p \in Path : Cardinality({i \in DOMAIN mAdapters : mAdapters[i].path = p})
                       = Cardinality({m \in Manager : p \in view[m]})
  ELSE mAdapters = <<>>

\* A device is held by the adapter its path leads to, although adapters have come
\* and gone since it was added, and a manager still has it: the signal of its
\* removal is to come and will reach the adapter that holds it.
DevicesFindable ==
  \A i \in DOMAIN mAdapters : \A d \in mAdapters[i].devices :
    /\ Finds(mAdapters, Owner[d], i)
    /\ \E m \in Manager : d \in view[m]

\* The service implements its promise.
Promise == INSTANCE Directory WITH
  present <- objects \cap Path,
  known <- {mAdapters[i].path : i \in DOMAIN mAdapters},
  attached <- managers > 0

\* The list follows BlueZ through its restarts: see Directory.
FollowsBluez == Promise!Spec
=============================================================================
