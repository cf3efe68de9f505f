------------------------------ MODULE Profiles ------------------------------
(***************************************************************************)
(* The profiles of an adapter that keep state of their own: the GATT       *)
(* server, the advertisers, mesh configuration and provisioning, serial    *)
(* port channels, the media connections, the remote players, phone books,  *)
(* remote folders, messages, and pushed files with the agent they come     *)
(* through.  They share no state: no handler of one reads or writes what   *)
(* another keeps.  A behaviour is therefore that of one of them, named by  *)
(* `which', while the others rest in their initial state.                  *)
(***************************************************************************)
EXTENDS Naturals, Sequences, FiniteSets

CONSTANTS
    MaxApp, MaxService, MaxChar, MaxDesc, ServiceGap, MaxPending, MaxExported,
    IdRange, MaxInstances,
    Nodes, Local, Gets, Sets, NoRequest, AppKeys, MaxRequests,
    FirstAddress, UnicastEnd, Counts, MaxNodes,
    ChannelId, Uuid, Address, NoAddress, Channel, NoChannel, NoInfo, MaxLinks,
    Devices, NoDevice, MaxOverlap,
    Players, Names, NoPlayer,
    Transfers, MaxSessions, MaxCalls,
    MaxAgents, MaxCreations,
    Senders, MaxPushes, MaxBytes,
    Folders, NoFolder, MaxFileRequests,
    Instances, NoInstance, NumberGap

VARIABLES
    which,
    acquired, apps, nextId, stored, hollow, exported, pending, lost, mLastCharId,
    nextAdvId, mAdvertiserMap, registering, advertised,
    mNodeInterface, pendingRequests, request, timers, told, main, refresh,
    node, mUnicastAddressAvailable, invocation, omitted, adrift,
    mChannelIdList, mConnectedDevices, info, mInterface, mDeviceAddress, mChannel, watches,
    overwritten, connecting, removedConnecting, channelsTold, idsRegistered, links,
    released, channelDied,
    mConnectedUuids, transports, watched, a2dp, avrcp, heard, overlap,
    mMediaPlayerList, mAddressedMediaPlayer, playersTold,
    session, sessions, mObjectPhonebookProxy, calls, pulled, remote, mTransfersMap,
    state, fetching, mTransferStateMap, reports, entered, crashed,
    obexd, registered, mObexAgent, made, appeared, watching, mAgentManagerProxy,
    creations, registerCall, staleRegistrations, mAgentInterface, exporter, missed,
    late, died,
    from, verdict, file, mInvocation, mTransferObjPath, replies, answer, crossed,
    mSessions, leaked, mTransfers, path, transfer, pushFetching, pushEntered, dead,
    folderSession, sessionsMade, open, closing, folder, queue, requests, fileState,
    fileFetching, cancelling, fileEntered, fileDead,
    messageSessions, messageSessionsMade, key, number, messageOpen, messageClosing,
    nextNumber, nextTransfer, connected, keyOf, messageRequests, messageState,
    messageFetching, messageEntered, messageDead

S == INSTANCE GattServer
A == INSTANCE Advertise
M == INSTANCE Mesh
V == INSTANCE Provisioning
C == INSTANCE Spp WITH
        told <- channelsTold, registered <- idsRegistered, crashed <- channelDied
L == INSTANCE MediaLinks
P == INSTANCE MediaPlayers
B == INSTANCE Phonebook
O == INSTANCE ObexAgent
U == INSTANCE Push WITH fetching <- pushFetching, entered <- pushEntered
F == INSTANCE FileTransfer WITH
        MaxRequests <- MaxFileRequests,
        mSessions <- folderSession, made <- sessionsMade, remote <- fileState,
        fetching <- fileFetching, entered <- fileEntered, dead <- fileDead
G == INSTANCE MessageAccess WITH
        MaxRequests <- MaxFileRequests,
        mSessions <- messageSessions, made <- messageSessionsMade, open <- messageOpen,
        closing <- messageClosing, requests <- messageRequests, remote <- messageState,
        fetching <- messageFetching, entered <- messageEntered, dead <- messageDead

serverVars == <<acquired, apps, nextId, stored, hollow, exported, pending, lost,
                mLastCharId>>
advertiseVars == <<nextAdvId, mAdvertiserMap, registering, advertised>>
meshVars == <<mNodeInterface, pendingRequests, request, timers, told, main,
              refresh>>
provisionVars == <<node, mUnicastAddressAvailable, invocation, omitted, adrift>>
channelVars == <<mChannelIdList, mConnectedDevices, info, mInterface, mDeviceAddress,
                 mChannel, watches, overwritten, connecting, removedConnecting,
                 channelsTold, idsRegistered, links, released, channelDied>>
linksVars == <<mConnectedUuids, transports, watched, a2dp, avrcp, heard, overlap>>
playersVars == <<mMediaPlayerList, mAddressedMediaPlayer, playersTold>>
bookVars == <<session, sessions, mObjectPhonebookProxy, calls, pulled, remote,
              mTransfersMap, state, fetching, mTransferStateMap, reports, entered,
              crashed>>
agentVars == <<obexd, registered, mObexAgent, made, appeared, watching,
               mAgentManagerProxy, creations, registerCall, staleRegistrations,
               mAgentInterface, exporter, missed, late, died>>
pushVars == <<from, verdict, file, mInvocation, mTransferObjPath, replies, answer,
              crossed, mSessions, leaked, mTransfers, path, transfer, pushFetching,
              pushEntered, dead>>
folderVars == <<folderSession, sessionsMade, open, closing, folder, queue, requests,
                fileState, fileFetching, cancelling, fileEntered, fileDead>>
messageVars == <<messageSessions, messageSessionsMade, key, number, messageOpen,
                 messageClosing, nextNumber, nextTransfer, connected, keyOf,
                 messageRequests, messageState, messageFetching, messageEntered,
                 messageDead>>
obexVars == <<bookVars, agentVars, pushVars, folderVars, messageVars>>
vars == <<which, serverVars, advertiseVars, meshVars, provisionVars, channelVars, linksVars,
          playersVars, obexVars>>

ASSUME ProfilesAssumption ==
    /\ S!GattServerAssumption
    /\ A!AdvertiseAssumption
    /\ M!MeshAssumption
    /\ V!ProvisioningAssumption
    /\ C!SppAssumption
    /\ L!MediaLinksAssumption
    /\ P!MediaPlayersAssumption
    /\ B!PhonebookAssumption
    /\ O!ObexAgentAssumption
    /\ U!PushAssumption
    /\ F!FileTransferAssumption
    /\ G!MessageAccessAssumption

Components == {"server", "advertise", "mesh", "provisioning", "channels", "links",
               "players", "books", "agent", "pushes", "folders", "messages"}

TypeOK ==
    /\ which \in Components
    /\ S!TypeOK /\ A!TypeOK /\ M!TypeOK /\ V!TypeOK /\ C!TypeOK /\ L!TypeOK /\ P!TypeOK
    /\ B!TypeOK /\ O!TypeOK /\ U!TypeOK /\ F!TypeOK /\ G!TypeOK

Init ==
    /\ which \in Components
    /\ S!Init /\ A!Init /\ M!Init /\ V!Init /\ C!Init /\ L!Init /\ P!Init
    /\ B!Init /\ O!Init /\ U!Init /\ F!Init /\ G!Init

\* The profiles that go through obexd.
ObexNext ==
    \/ /\ which = "books" /\ B!Next
       /\ UNCHANGED <<agentVars, pushVars, folderVars, messageVars>>
    \/ /\ which = "agent" /\ O!Next
       /\ UNCHANGED <<bookVars, pushVars, folderVars, messageVars>>
    \/ /\ which = "pushes" /\ U!Next
       /\ UNCHANGED <<bookVars, agentVars, folderVars, messageVars>>
    \/ /\ which = "folders" /\ F!Next
       /\ UNCHANGED <<bookVars, agentVars, pushVars, messageVars>>
    \/ /\ which = "messages" /\ G!Next
       /\ UNCHANGED <<bookVars, agentVars, pushVars, folderVars>>

\* The two halves of mesh.
MeshNext ==
    \/ which = "mesh" /\ M!Next /\ UNCHANGED provisionVars
    \/ which = "provisioning" /\ V!Next /\ UNCHANGED meshVars

Next ==
    /\ UNCHANGED which
    /\ \/ /\ which = "server" /\ S!Next
          /\ UNCHANGED <<advertiseVars, meshVars, provisionVars, channelVars, linksVars,
                         playersVars, obexVars>>
       \/ /\ which = "advertise" /\ A!Next
          /\ UNCHANGED <<serverVars, meshVars, provisionVars, channelVars, linksVars,
                         playersVars, obexVars>>
       \/ /\ UNCHANGED <<serverVars, advertiseVars, channelVars, linksVars, playersVars,
                         obexVars>>
          /\ MeshNext
       \/ /\ which = "channels" /\ C!Next
          /\ UNCHANGED <<serverVars, advertiseVars, meshVars, provisionVars, linksVars,
                         playersVars, obexVars>>
       \/ /\ which = "links" /\ L!Next
          /\ UNCHANGED <<serverVars, advertiseVars, meshVars, provisionVars, channelVars,
                         playersVars, obexVars>>
       \/ /\ which = "players" /\ P!Next
          /\ UNCHANGED <<serverVars, advertiseVars, meshVars, provisionVars, channelVars,
                         linksVars, obexVars>>
       \/ /\ UNCHANGED <<serverVars, advertiseVars, meshVars, provisionVars, channelVars,
                         linksVars, playersVars>>
          /\ ObexNext

Spec == Init /\ [][Next]_vars

(***************************************************************************)
(* The properties of the profiles, each stated and explained in its module.*)
(***************************************************************************)
\* GattServer: what BlueZ can see is in a table, waits for its registration, or
\* is one that registration lost; and a write is told of the characteristic that was
\* written.
ServerAccounted == S!ExportedAccounted /\ S!WriteToldWhereWritten

\* Advertise: BlueZ advertises nothing the client cannot stop.
AdvertisedOwned == A!AdvertisedOwned

\* Mesh: a request in the list has its timer, and no other request has one.
TimerPerRequest == M!TimerPerRequest

\* Mesh: the client is given one result for a request at most.
AnsweredOnce == M!AnsweredOnce

\* Provisioning: no two nodes of a mesh network have an address in common, and the
\* answer to a prompt reaches the node that waits for it.
NodesApart == V!NodesApart

\* Spp: the ids in use are those of the channels BlueZ can reach, and each of these is
\* in the table.
IdsAccounted == C!IdsAccounted /\ C!SkeletonsStored

\* Spp: the client knows which channels are connected, and to which device.
ToldMatches == C!ToldMatches

\* MediaLinks and MediaPlayers: the client knows which device streams, which is
\* controlled, the players there are and which of them it commands.
MediaTold == L!LinksTold /\ P!PlayersTold

\* Phonebook, FileTransfer, MessageAccess and Push: the client sees each transfer take
\* its course, in the folder it named, and knows its sessions, and obexd is answered as
\* the client answered; ObexAgent: obexd asks for each push an agent that can be asked.
TransfersTold ==
    B!TransfersTold /\ F!FilesTold /\ G!MessagesTold /\ U!PushesTold /\ O!PushesAsked
=============================================================================
