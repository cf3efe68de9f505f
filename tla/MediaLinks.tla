----------------------------- MODULE MediaLinks -----------------------------
(***************************************************************************)
(* The connections of audio streaming (Bluez5ProfileA2dp) and of remote    *)
(* control (Bluez5ProfileAvcrp), and what the client is told of them and   *)
(* of the device that plays.                                               *)
(*                                                                         *)
(* Bluez5Device compares the profiles BlueZ says are connected with those  *)
(* it knew, and tells each profile.  The profiles hold one device each:    *)
(* one flag, one address, one transport.  Nothing keeps a second device    *)
(* from connecting, so here it may, and `overlap' counts the steps since.  *)
(* Volume, delay and remote features are left out.                         *)
(***************************************************************************)
EXTENDS Naturals, FiniteSets

CONSTANTS
    Devices,
    NoDevice,
    MaxOverlap              \* bound: steps once devices have overlapped

VARIABLES
    mConnectedUuids,        \* per device: the profiles that are connected
    transports,             \* devices with a media transport at BlueZ
    watched,                \* those whose changes reach handlePropertiesChanged
    a2dp,                   \* mConnected, mState, mInterface, mPropertiesProxy
    avrcp,                  \* mConnectedController, mConnectedTarget, mConnected,
                            \* mConnectedDeviceAddress
    heard,                  \* what the client was last told
    overlap                 \* steps since two devices were there at once, or one
                            \* profile was replaced by another in one change

vars == <<mConnectedUuids, transports, watched, a2dp, avrcp, heard, overlap>>

\* A device streams in one role; it may control, be controlled, or both.
Uuids == {"STREAM", "AVRCP_TARGET", "AVRCP_REMOTE"}
AvrcpUuids == {"AVRCP_TARGET", "AVRCP_REMOTE"}

MediaLinksAssumption == IsFiniteSet(Devices) /\ NoDevice \notin Devices /\ MaxOverlap \in Nat

TypeOK ==
    /\ mConnectedUuids \in [Devices -> SUBSET Uuids]
    /\ transports \subseteq Devices
    /\ watched \subseteq transports
    /\ a2dp \in [connected : BOOLEAN, playing : BOOLEAN,
                 interface : Devices \union {NoDevice}, proxy : Devices \union {NoDevice}]
    /\ avrcp \in [controller : BOOLEAN, target : BOOLEAN, connected : BOOLEAN,
                  address : Devices \union {NoDevice}]
    /\ heard \in [stream : SUBSET Devices, control : SUBSET Devices, playing : SUBSET Devices]
    /\ overlap \in 0..MaxOverlap

Init ==
    /\ mConnectedUuids = [d \in Devices |-> {}]
    /\ transports = {} /\ watched = {}
    /\ a2dp = [connected |-> FALSE, playing |-> FALSE, interface |-> NoDevice, proxy |-> NoDevice]
    /\ avrcp = [controller |-> FALSE, target |-> FALSE, connected |-> FALSE, address |-> NoDevice]
    /\ heard = [stream |-> {}, control |-> {}, playing |-> {}]
    /\ overlap = 0

transportVars == <<transports, watched>>

\* The devices BlueZ has something of.
Present == {d \in Devices : mConnectedUuids[d] # {} \/ d \in transports}

\* Whether the step leaves d's profiles comparable with those before it.
Grown(d) ==
    \/ mConnectedUuids[d] \subseteq mConnectedUuids'[d]
    \/ mConnectedUuids'[d] \subseteq mConnectedUuids[d]

(***************************************************************************)
(* Connections.                                                            *)
(***************************************************************************)
\* The effect on A2DP of the profiles d has gained and those it has lost: the
\* profile, then the devices connected and those playing as the client knows.
\* Losing the connection while playing ends the playing.
StreamStatus(d, added, removed) ==
    IF "STREAM" \in added THEN
        [a2dp |-> [a2dp EXCEPT !.connected = TRUE],
         stream |-> heard.stream \union {d}, playing |-> heard.playing]
    ELSE IF "STREAM" \in removed THEN
        [a2dp |-> [a2dp EXCEPT !.connected = FALSE, !.playing = FALSE],
         stream |-> heard.stream \ {d},
         playing |-> IF a2dp.playing THEN heard.playing \ {d} ELSE heard.playing]
    ELSE [a2dp |-> a2dp, stream |-> heard.stream, playing |-> heard.playing]

\* Our roles once the remote ones have changed: a remote target is controlled by us.
Roles(added, removed) ==
    [avrcp EXCEPT !.controller = (@ \/ "AVRCP_TARGET" \in added) /\ "AVRCP_TARGET" \notin removed,
                  !.target     = (@ \/ "AVRCP_REMOTE" \in added) /\ "AVRCP_REMOTE" \notin removed]

\* Mutant: the loss of one role is told as the loss of the connection.
RoleLeftNot(roles) == FALSE

RoleLeft(roles) == roles.controller \/ roles.target

\* The effect on AVRCP.  The client is told when the first role is connected and
\* when none is left, in both cases of the device whose role changed last.
ControlStatus(d, added, removed) ==
    LET roles == Roles(added, removed) IN
    IF added \intersect AvrcpUuids # {} /\ ~avrcp.connected THEN
        [avrcp |-> [roles EXCEPT !.connected = TRUE, !.address = d],
         control |-> heard.control \union {d}]
    ELSE IF removed \intersect AvrcpUuids # {} /\ avrcp.connected /\ ~RoleLeft(roles) THEN
        [avrcp |-> [roles EXCEPT !.connected = FALSE, !.address = NoDevice],
         control |-> heard.control \ {d}]
    ELSE [avrcp |-> roles, control |-> heard.control]

\* updateProfileConnectionStatus looks at the number of profiles: more of them
\* are additions, fewer are removals, and as many are no change.
UpdateProfileConnectionStatus(d, uuids) ==
    LET prev == mConnectedUuids[d]
        added == IF Cardinality(prev) < Cardinality(uuids) THEN uuids \ prev ELSE {}
        removed == IF Cardinality(prev) > Cardinality(uuids) THEN prev \ uuids ELSE {}
        s == StreamStatus(d, added, removed)
        c == ControlStatus(d, added, removed)
    IN  /\ a2dp' = s.a2dp
        /\ avrcp' = c.avrcp
        /\ heard' = [heard EXCEPT !.stream = s.stream, !.playing = s.playing,
                                  !.control = c.control]

ConnectedUuidsChanged(d, uuids) ==
    /\ uuids # mConnectedUuids[d]
    /\ mConnectedUuids' = [mConnectedUuids EXCEPT ![d] = uuids]
    /\ UpdateProfileConnectionStatus(d, uuids)
    /\ UNCHANGED transportVars

(***************************************************************************)
(* The media transport.                                                    *)
(***************************************************************************)
TransportAdded(d) ==
    /\ d \notin transports
    /\ transports' = transports \union {d}
    /\ watched' = watched \union {d}
    /\ a2dp' = [a2dp EXCEPT !.interface = d, !.proxy = d]
    /\ UNCHANGED <<mConnectedUuids, avrcp, heard>>

\* Whichever transport goes, the one held is let go of.
TransportRemoved(d) ==
    /\ d \in transports
    /\ transports' = transports \ {d}
    /\ watched' = watched \ {d, a2dp.proxy}
    /\ a2dp' = [a2dp EXCEPT !.interface = NoDevice, !.proxy = NoDevice]
    /\ UNCHANGED <<mConnectedUuids, avrcp, heard>>

\* The state of d's transport changes.  The client is told of the device of the
\* transport held.  BlueZ makes a transport active only on a connected device.
TransportChanged(d, active) ==
    /\ d \in watched
    /\ active => "STREAM" \in mConnectedUuids[d]
    /\ a2dp' = [a2dp EXCEPT !.playing = active]
    /\ IF a2dp.interface = NoDevice THEN UNCHANGED heard
       ELSE heard' = [heard EXCEPT !.playing =
                         IF active THEN @ \union {a2dp.interface} ELSE @ \ {a2dp.interface}]
    /\ UNCHANGED <<mConnectedUuids, avrcp>>
    /\ UNCHANGED transportVars

Change(d) ==
    \/ \E uuids \in SUBSET Uuids : ConnectedUuidsChanged(d, uuids)
    \/ TransportAdded(d)
    \/ TransportRemoved(d)
    \/ \E active \in BOOLEAN : TransportChanged(d, active)

Next ==
    /\ overlap < MaxOverlap
    /\ \E d \in Devices :
          /\ Change(d)
          /\ overlap' = IF overlap = 0 /\ Cardinality(Present') <= 1 /\ Grown(d) THEN 0
                        ELSE overlap + 1

Spec == Init /\ [][Next]_vars

(***************************************************************************)
(* Properties.                                                             *)
(***************************************************************************)
\* While devices come one at a time, the client knows which device streams and
\* which is controlled, in whatever order its roles come and go, and believes no
\* device that is gone to be playing.
LinksTold ==
    overlap = 0 =>
        /\ heard.stream = {d \in Devices : "STREAM" \in mConnectedUuids[d]}
        /\ heard.control = {d \in Devices : mConnectedUuids[d] \intersect AvrcpUuids # {}}
        /\ heard.playing \subseteq heard.stream

=============================================================================
