---------------------------------- MODULE Spp ----------------------------------
(***************************************************************************)
(* The serial port channels of one adapter (Bluez5ProfileSpp): server      *)
(* channels the client creates, client channels it connects, the pool of   *)
(* two channel ids they share, and the sockets BlueZ hands over.           *)
(*                                                                         *)
(* A channel is its SppDeviceInfo object.  Its exported skeleton lives at  *)
(* an object path made of its id, so BlueZ knows it by the id; the         *)
(* connection from BlueZ calls the skeleton, and the reply to              *)
(* Device1.ConnectProfile comes as a step of its own.  Calls refused       *)
(* without a change of state have no action.                               *)
(***************************************************************************)
EXTENDS Naturals

CONSTANTS
  ChannelId,   \* the pool, {22, 6} in the code
  Uuid,        \* service UUIDs
  Address,     \* remote devices
  NoAddress,   \* the empty string
  Channel,     \* SppDeviceInfo objects, each made once
  NoChannel,   \* mConnectedDevices has no entry
  NoInfo,      \* an object not made yet
  MaxLinks     \* bound: connections BlueZ has at a time for one channel

Info == [id : ChannelId, client : BOOLEAN, uuid : Uuid]

SppAssumption ==
  /\ MaxLinks \in Nat
  /\ NoAddress \notin Address
  /\ NoChannel \notin Channel
  /\ NoInfo \notin Info

VARIABLES
  mChannelIdList,     \* ids in use
  mConnectedDevices,  \* the channel stored for each id
  info,               \* what an object was made with, deleted objects included
  mInterface,         \* channels whose skeleton is exported
  mDeviceAddress,     \* the device of a channel's last connection
  mChannel,           \* channels with an open socket
  watches,            \* channels the main loop has a watch for, deleted ones too
  overwritten,        \* history: channels that lost a socket to a second one
  connecting,         \* channels whose ConnectProfile is in flight
  removedConnecting,  \* history: a channel was removed while it was connecting
  told,               \* address and id the client believes are connected
  registered,         \* external: ids whose object path BlueZ has as a profile
  links,              \* external: connections BlueZ has for each channel
  released,           \* external: BlueZ has released its profiles and shuts down
  crashed             \* the process died of a deleted object

tables == <<mChannelIdList, mConnectedDevices, info, mInterface>>
sockets == <<mDeviceAddress, mChannel, watches, overwritten, told>>
calls == <<connecting, removedConnecting>>
external == <<registered, links, released>>
vars == <<tables, sockets, calls, external, crashed>>

TypeOK ==
  /\ mChannelIdList \subseteq ChannelId
  /\ mConnectedDevices \in [ChannelId -> Channel \cup {NoChannel}]
  /\ info \in [Channel -> Info \cup {NoInfo}]
  /\ mInterface \subseteq Channel
  /\ mDeviceAddress \in [Channel -> Address \cup {NoAddress}]
  /\ mChannel \subseteq Channel
  /\ watches \subseteq Channel
  /\ overwritten \subseteq Channel
  /\ connecting \subseteq Channel
  /\ removedConnecting \in BOOLEAN
  /\ told \subseteq Address \X ChannelId
  /\ registered \subseteq ChannelId
  /\ links \in [Channel -> 0 .. MaxLinks]
  /\ released \in BOOLEAN
  /\ crashed \in BOOLEAN

Init ==
  /\ mChannelIdList = {}
  /\ mConnectedDevices = [i \in ChannelId |-> NoChannel]
  /\ info = [c \in Channel |-> NoInfo]
  /\ mInterface = {}
  /\ mDeviceAddress = [c \in Channel |-> NoAddress]
  /\ mChannel = {}
  /\ watches = {}
  /\ overwritten = {}
  /\ connecting = {}
  /\ removedConnecting = FALSE
  /\ told = {}
  /\ registered = {}
  /\ links = [c \in Channel |-> 0]
  /\ released = FALSE
  /\ crashed = FALSE

-----------------------------------------------------------------------------
(* Helpers *)

Made == {c \in Channel : info[c] # NoInfo}

\* Channels that are not deleted.
Stored == {c \in Made : mConnectedDevices[info[c].id] = c}

\* g_object_unref of the skeleton: one that is gone is a deleted object.
UnrefInterface(c) ==
  /\ mInterface' = mInterface \ {c}
  /\ crashed' \in (IF c \in mInterface THEN {FALSE} ELSE BOOLEAN)

\* External: UnregisterProfile ends the connections of the profile, if there is one.
UnregisterProfile(id) ==
  /\ registered' = registered \ {id}
  /\ links' = [c \in Channel |-> IF c \in Made /\ info[c].id = id THEN 0 ELSE links[c]]

\* channelStateChanged(..., false)
TellClosed(c) == told' = told \ {<<mDeviceAddress[c], info[c].id>>}

\* removeConnectedDevice and deallocateChannelId.  The second reads the id from
\* the object the first has deleted; the memory is not used again in between.
Forget(id) ==
  /\ mConnectedDevices' = [mConnectedDevices EXCEPT ![id] = NoChannel]
  /\ mChannelIdList' = mChannelIdList \ {id}
  /\ UNCHANGED info

-----------------------------------------------------------------------------
(* Calls of the client *)

\* allocateChannelId and createSkeletonAndExport, common to connectUuid and
\* createChannel.  BlueZ refuses a path it has (and may refuse any, which changes
\* nothing); the export fails, after RegisterProfile, where another skeleton is.
\* An entry left over at the id is replaced and its object deleted.
NewChannel(c, id, client, uuid) ==
  /\ info[c] = NoInfo
  /\ id \notin mChannelIdList
  /\ id \notin registered
  /\ ~released
  /\ registered' = registered \cup {id}
  /\ IF \E d \in mInterface : info[d].id = id
     THEN UNCHANGED <<tables, connecting>>
     ELSE /\ mChannelIdList' = mChannelIdList \cup {id}
          /\ mConnectedDevices' = [mConnectedDevices EXCEPT ![id] = c]
          /\ info' = [info EXCEPT ![c] = [id |-> id, client |-> client, uuid |-> uuid]]
          /\ mInterface' = mInterface \cup {c}
          /\ connecting' = IF client THEN connecting \cup {c} ELSE connecting

CreateChannel(c, id, uuid) ==
  /\ NewChannel(c, id, FALSE, uuid)
  /\ UNCHANGED <<sockets, removedConnecting, links, released, crashed>>

ConnectUuid(c, id, uuid) ==
  /\ NewChannel(c, id, TRUE, uuid)
  /\ UNCHANGED <<sockets, removedConnecting, links, released, crashed>>

\* Mutant: the skeleton is not released.
RemoveChannelKeepsSkeleton(uuid) ==
  \E c \in Stored :
    /\ info[c].uuid = uuid
    /\ UnregisterProfile(info[c].id)
    /\ TellClosed(c)
    /\ Forget(info[c].id)
    /\ removedConnecting' = (removedConnecting \/ c \in connecting)
    /\ UNCHANGED <<mInterface, mDeviceAddress, mChannel, watches, overwritten, connecting,
                   released, crashed>>

\* Mutant: the client is not told.
RemoveChannelSilently(uuid) ==
  \E c \in Stored :
    /\ info[c].uuid = uuid
    /\ UnregisterProfile(info[c].id)
    /\ UnrefInterface(c)
    /\ Forget(info[c].id)
    /\ removedConnecting' = (removedConnecting \/ c \in connecting)
    /\ UNCHANGED <<told, mDeviceAddress, mChannel, watches, overwritten, connecting, released>>

\* removeChannel: the first entry of the UUID, client or server.  Neither the watch
\* nor the socket is closed.
RemoveChannel(uuid) ==
  \E c \in Stored :
    /\ info[c].uuid = uuid
    /\ UnregisterProfile(info[c].id)
    /\ UnrefInterface(c)
    /\ TellClosed(c)
    /\ Forget(info[c].id)
    /\ removedConnecting' = (removedConnecting \/ c \in connecting)
    /\ UNCHANGED <<mDeviceAddress, mChannel, watches, overwritten, connecting, released>>

-----------------------------------------------------------------------------
(* Replies and callbacks *)

\* Mutant: the id is not given back.
ConnectReplyKeepsId(c) ==
  /\ c \in connecting
  /\ connecting' = connecting \ {c}
  /\ IF mDeviceAddress[c] # NoAddress
     THEN UNCHANGED <<tables, registered, links, crashed>>
     ELSE /\ UnregisterProfile(info[c].id)
          /\ UnrefInterface(c)
          /\ UNCHANGED <<mChannelIdList, mConnectedDevices, info>>
  /\ UNCHANGED <<sockets, removedConnecting, released>>

\* The callback of connectUuid.  BlueZ answers with success once it has handed over
\* the connection, else with an error; then the id is given back, whoever has it by
\* now, and the entry stays.
ConnectReply(c) ==
  /\ c \in connecting
  /\ connecting' = connecting \ {c}
  /\ IF mDeviceAddress[c] # NoAddress
     THEN UNCHANGED <<tables, registered, links, crashed>>
     ELSE /\ UnregisterProfile(info[c].id)
          /\ UnrefInterface(c)
          /\ mChannelIdList' = mChannelIdList \ {info[c].id}
          /\ UNCHANGED <<mConnectedDevices, info>>
  /\ UNCHANGED <<sockets, removedConnecting, released>>

\* A watch that outlives its channel reads the deleted object (if the memory is
\* intact, data comes for the old id).
IoCallback(c) ==
  /\ c \in watches \ Stored
  /\ crashed' = TRUE
  /\ UNCHANGED <<tables, sockets, calls, external>>

-----------------------------------------------------------------------------
(* Methods BlueZ calls on a channel's skeleton *)

Reachable(c) == c \in mInterface /\ info[c].id \in registered

\* A server channel may get a second connection before the first is closed.
HandleNewConnection(c, a) ==
  /\ Reachable(c)
  /\ info[c].client => c \in connecting /\ mDeviceAddress[c] = NoAddress
  /\ links[c] < MaxLinks
  /\ links' = [links EXCEPT ![c] = @ + 1]
  /\ mDeviceAddress' = [mDeviceAddress EXCEPT ![c] = a]
  /\ mChannel' = mChannel \cup {c}
  /\ watches' = watches \cup {c}
  /\ overwritten' = IF c \in mChannel THEN overwritten \cup {c} ELSE overwritten
  /\ told' = told \cup {<<a, info[c].id>>}
  /\ UNCHANGED <<tables, calls, registered, released, crashed>>

\* Whichever device it is for, the last socket is closed.  A client channel goes
\* with it.  BlueZ asks only after it has answered ConnectProfile.
HandleRequestDisconnection(c) ==
  /\ Reachable(c)
  /\ links[c] > 0
  /\ c \notin connecting
  /\ TellClosed(c)
  /\ mChannel' = mChannel \ {c}
  /\ watches' = IF c \in mChannel \ overwritten THEN watches \ {c} ELSE watches
  /\ IF info[c].client
     THEN /\ UnregisterProfile(info[c].id)
          /\ UnrefInterface(c)
          /\ Forget(info[c].id)
     ELSE /\ links' = [links EXCEPT ![c] = @ - 1]
          /\ UNCHANGED <<tables, registered, crashed>>
  /\ UNCHANGED <<mDeviceAddress, overwritten, calls, released>>

\* The table is cleared; ids, watches and the client's view stay.
HandleRelease ==
  /\ \E c \in mInterface : Reachable(c)
  /\ crashed' \in (IF Stored \subseteq mInterface THEN {FALSE} ELSE BOOLEAN)
  /\ mInterface' = mInterface \ Stored
  /\ mChannel' = mChannel \ Stored
  /\ mConnectedDevices' = [i \in ChannelId |-> NoChannel]
  /\ registered' = {}
  /\ links' = [c \in Channel |-> 0]
  /\ released' = TRUE
  /\ UNCHANGED <<mChannelIdList, info, mDeviceAddress, watches, overwritten, told, calls>>

\* External: a link breaks; BlueZ asks for nothing then and nobody is told.
LoseLink(c) ==
  /\ links[c] > 0
  /\ links' = [links EXCEPT ![c] = @ - 1]
  /\ UNCHANGED <<tables, sockets, calls, registered, released, crashed>>

-----------------------------------------------------------------------------

ClientStep ==
  \E uuid \in Uuid :
    \/ \E c \in Channel, id \in ChannelId :
         CreateChannel(c, id, uuid) \/ ConnectUuid(c, id, uuid)
    \/ RemoveChannel(uuid)

BluezStep ==
  \/ \E c \in Channel :
       \/ ConnectReply(c)
       \/ IoCallback(c)
       \/ \E a \in Address : HandleNewConnection(c, a)
       \/ HandleRequestDisconnection(c)
       \/ LoseLink(c)
  \/ HandleRelease

\* A dead process takes no step.
Next == ~crashed /\ (ClientStep \/ BluezStep)

Spec == Init /\ [][Next]_vars

-----------------------------------------------------------------------------
(* Properties *)

\* No channel id is lost or given out twice: the ids in use are those of the
\* channels BlueZ can reach, after every failure, removal and disconnection.  The
\* exceptions are the code's: a channel removed while it is connecting (its id is
\* given back a second time) and the release of the profiles (ids stay in use).
IdsAccounted ==
  ~removedConnecting /\ ~released =>
    /\ mChannelIdList = {info[c].id : c \in mInterface}
    /\ registered = mChannelIdList

\* An exported skeleton is that of the channel stored for its id, so what BlueZ
\* calls finds an object that exists, however late a failed connect frees the id.
SkeletonsStored == mInterface \subseteq Stored

\* The client believes of an address and an id that they are connected exactly when
\* the channel stored for the id has a socket of that device, as long as no server
\* channel got a second connection before the first was closed.
ToldMatches ==
  overwritten = {} /\ ~released =>
    told = {<<mDeviceAddress[c], info[c].id>> : c \in Stored \cap mChannel}
=============================================================================
