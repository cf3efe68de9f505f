---------------------------- MODULE MediaPlayers ----------------------------
(***************************************************************************)
(* The players of the remote device (Bluez5ProfileAvrcp,                   *)
(* Bluez5MediaPlayer): which there are, which of them the commands of the  *)
(* client go to, and what the client is told of them.  Titles, positions,  *)
(* settings and browsing are left out.                                     *)
(***************************************************************************)
EXTENDS Naturals, Sequences, FiniteSets, SequencesExt

CONSTANTS
    Players,   \* paths of remote players
    Names,     \* what a player may be called
    NoPlayer

VARIABLES
    mMediaPlayerList,
    mAddressedMediaPlayer,
    playersTold            \* the list the client was given last

vars == <<mMediaPlayerList, mAddressedMediaPlayer, playersTold>>

MediaPlayersAssumption == NoPlayer \notin Players

PlayerInfo == [path : Players, addressed : BOOLEAN, name : Names]

TypeOK ==
    /\ mMediaPlayerList \in Seq(PlayerInfo)
    /\ mAddressedMediaPlayer \in Players \union {NoPlayer}
    /\ playersTold \in Seq(PlayerInfo)

Init == mMediaPlayerList = <<>> /\ mAddressedMediaPlayer = NoPlayer /\ playersTold = <<>>

UpdatePlayerInfo == playersTold' = mMediaPlayerList'

\* addMediaPlayer: the new player is the addressed one, and no other is.
AddMediaPlayer(p, name) ==
    LET player == [path |-> p, addressed |-> TRUE, name |-> name] IN
    /\ \A i \in DOMAIN mMediaPlayerList : mMediaPlayerList[i].path # p
    /\ mMediaPlayerList' = Append([i \in DOMAIN mMediaPlayerList |->
                                      [mMediaPlayerList[i] EXCEPT !.addressed = FALSE]], player)
    /\ mAddressedMediaPlayer' = p
    /\ UpdatePlayerInfo

\* When the addressed player goes, no other takes its place.
RemoveMediaPlayer(i) ==
    /\ i \in DOMAIN mMediaPlayerList
    /\ mMediaPlayerList' = RemoveAt(mMediaPlayerList, i)
    /\ mAddressedMediaPlayer' =
          IF mMediaPlayerList[i].addressed THEN NoPlayer ELSE mAddressedMediaPlayer
    /\ UpdatePlayerInfo

\* updatePlayerProperties reads all there is, and the client is told of a change.
UpdatePlayerProperties(i, name) ==
    /\ i \in DOMAIN mMediaPlayerList /\ mMediaPlayerList[i].name # name
    /\ mMediaPlayerList' = [mMediaPlayerList EXCEPT ![i].name = name]
    /\ UNCHANGED mAddressedMediaPlayer
    /\ UpdatePlayerInfo

Next ==
    \/ \E p \in Players, name \in Names : AddMediaPlayer(p, name)
    \/ \E i \in 1..Cardinality(Players) : \/ RemoveMediaPlayer(i)
                                          \/ \E name \in Names : UpdatePlayerProperties(i, name)

Spec == Init /\ [][Next]_vars

\* The client knows the players there are, and its commands go to the one it was
\* told is addressed, or to none: never to a player that was deleted.
PlayersTold ==
    /\ playersTold = mMediaPlayerList
    /\ {playersTold[i].path : i \in {j \in DOMAIN playersTold : playersTold[j].addressed}}
          = {mAddressedMediaPlayer} \ {NoPlayer}
=============================================================================
