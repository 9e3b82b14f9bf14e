------------------------------- MODULE MpGame -------------------------------
(***************************************************************************)
(* What asmp-dll/src/multiplayer/multiplayer.c does inside the game: the   *)
(* multiplayer menu, the connected game and the remote players, around the *)
(* client of MpClient.                                                     *)
(*                                                                         *)
(* Everything runs on the game thread.  A tick of the game is split into   *)
(* the game's own tick, in which the menu scripts and the other hooks run, *)
(* then multiplayer_tick: the client's tick, the callbacks that it makes,  *)
(* and the handler of the present state.                                   *)
(*                                                                         *)
(* The engine and its menu scripts are external.  A map is loaded after    *)
(* it was asked for, and an entity gets its torso after it was created.    *)
(***************************************************************************)
EXTENDS Integers, Sequences

CONSTANTS
  Me,           \* the client process
  Remotes,      \* ids of the other players
  Packets,      \* packets that a server may send: records with a type
  MaxSessions,  \* bound on connection attempts
  MaxQueue      \* bound on packets received and not handled yet

ASSUME BoundsAssumption == MaxSessions \in Nat /\ MaxQueue \in Nat

VARIABLES
  phase,        \* the part of a game tick that comes next
  mpState,      \* mp_->state
  scs,          \* mp_->state_connected_substate
  table,        \* session whose remote_players are allocated: 0 is NULL
  remote,       \* remote_players[i]: state, is_actor_info_changed, entity
  menu,         \* the menu that is shown; "none" inside a map
  status,       \* StatePlayMenuSubstate, kept as the status bar's health
  local,        \* the local player: not in the map, there, or dead
  gaveUp,       \* this attempt was left, pressed over, or out of memory
  (* the client *)
  state, substate, config, tickTime, userSyncTime, actorSyncTime, session,
  asked, fresh, link, events, out, calls

Client == INSTANCE MpClient WITH
  Clients <- {Me}, ServerPackets <- Packets,
  TimeMod <- 1, UserRate <- 1, ActorRate <- 1

clientVars == <<state, substate, config, tickTime, userSyncTime, actorSyncTime,
                session, asked, fresh, link, events, out, calls>>
menuVars == <<menu, status, gaveUp>>
worldVars == <<remote, table, local>>
vars == <<phase, mpState, scs, menuVars, worldVars, clientVars>>

MultiplayerStates == {"NONE", "MAIN_MENU", "MULTIPLAYER_MENU", "CONNECTED"}
ConnectedSubstates ==
  {"JUST_CONNECTED", "WAIT_MAP_LOAD", "MAP_JUST_LOADED", "PLAYER_JUST_SPAWNED",
   "PLAY"}
PlayMenuSubstates ==
  {"IDLE", "CONNECT_PRESSED", "INVALID_NAME", "INVALID_ADDRESS", "CONNECTING",
   "CONNECTION_FAILED", "CONNECTED"}
RemoteStates == {"NOT_SPAWNED", "SPAWNING", "JUST_SPAWNED", "SPAWNED"}
Absent == -1     \* remote_players before its first assignment

(* An entity is absent, created, or complete with its torso: a remote player *)
(* has one from SPAWNING on, complete before weapons and name are attached.  *)
RemotePlayer ==
  {r \in [state : RemoteStates, changed : BOOLEAN,
           entity : {"none", "legs", "whole"}] :
     /\ r.entity = "none" <=> r.state = "NOT_SPAWNED"
     /\ r.state \in {"JUST_SPAWNED", "SPAWNED"} => r.entity = "whole"}
NewRemote == [state |-> "NOT_SPAWNED", changed |-> FALSE, entity |-> "none"]

GameTypeOK ==
  /\ phase \in {"game", "callbacks"}
  /\ mpState \in MultiplayerStates
  /\ scs \in ConnectedSubstates
  /\ table \in Absent .. MaxSessions
  /\ remote \in [Remotes -> RemotePlayer]
  /\ menu \in {"none", "main", "asmp", "other"}
  /\ status \in PlayMenuSubstates
  /\ local \in {"absent", "there", "dead"}
  /\ gaveUp \in BOOLEAN
  /\ Client!ClientTypeOK

(* multiplayer_init: mp_ comes from malloc and only the client is created,   *)
(* so that the two states may have any value.                                *)
GameInit ==
  /\ phase = "game"
  /\ mpState \in MultiplayerStates
  /\ scs \in ConnectedSubstates
  /\ table = Absent
  /\ remote = [i \in Remotes |-> NewRemote]
  /\ menu = "none"
  /\ status = "IDLE"
  /\ local = "absent"
  /\ gaveUp = FALSE
  /\ Client!ClientInit

-----------------------------------------------------------------------------
(* Operators named Mutant... are deliberately wrong variants of the operator *)
(* that follows them.  No action uses them; they exist to be swapped in, to  *)
(* confirm that the properties notice.                                       *)

(* The game's own tick: menus.  Every load passes Game__load_menu_hook_.     *)
InGame == phase = "game" /\ UNCHANGED phase

Connecting == state[Me] = "CONNECTING"

LoadMainMenu ==
  /\ InGame
  /\ menu' = "main"
  /\ status' = "IDLE"
  /\ local' = "absent"
  /\ Client!Disconnect(Me)
  /\ UNCHANGED <<mpState, scs, gaveUp, remote, table>>

(* CreateMultiplayerMenu, which the script reaches from the main menu only.  *)
LoadPlayMenu ==
  /\ InGame
  /\ menu = "main"
  /\ menu' = "asmp"
  /\ mpState' = "MULTIPLAYER_MENU"
  /\ status' = "IDLE"
  /\ UNCHANGED <<scs, gaveUp, worldVars, clientVars>>

(* A key during the fade of the script takes the player from the multiplayer *)
(* menu past the main menu to another one.                                   *)
LoadOtherMenu ==
  /\ InGame
  /\ menu # "other"
  /\ menu' = "other"
  /\ status' = "IDLE"
  /\ gaveUp' = (gaveUp \/ Connecting)
  /\ UNCHANGED <<mpState, scs, worldVars, clientVars>>

(* The player starts a game without the multiplayer. *)
LoadSinglePlayer ==
  /\ InGame
  /\ menu = "other"
  /\ menu' = "none"
  /\ UNCHANGED <<mpState, scs, status, gaveUp, worldVars, clientVars>>

(* TactMultiplayerMenu: a click on CONNECT, which the script takes even when *)
(* the button looks disabled.                                                *)
PressConnect ==
  /\ InGame
  /\ menu = "asmp"
  /\ status' = "CONNECT_PRESSED"
  /\ gaveUp' = (gaveUp \/ Connecting)
  /\ UNCHANGED <<mpState, scs, menu, worldVars, clientVars>>

(* ProcessConnectingText releases the menu of a client that is connected.    *)
ReleaseMenu ==
  /\ InGame
  /\ menu = "asmp"
  /\ status = "CONNECTED"
  /\ menu' = "none"
  /\ status' = "IDLE"
  /\ UNCHANGED <<mpState, scs, gaveUp, worldVars, clientVars>>

-----------------------------------------------------------------------------
(* The game's own tick: the map. *)
SpawnLocalPlayer ==
  /\ InGame
  /\ menu = "none"
  /\ local = "absent"
  /\ local' = "there"
  /\ UNCHANGED <<mpState, scs, menuVars, remote, table, clientVars>>

SpawnTorso(i) ==
  /\ InGame
  /\ remote[i].entity = "legs"
  /\ remote' = [remote EXCEPT ![i].entity = "whole"]
  /\ UNCHANGED <<mpState, scs, menuVars, table, local, clientVars>>

(* EntPlayer__action_hook_: a shot of the local player is sent.              *)
LocalPlayerShoots ==
  /\ InGame
  /\ local = "there"
  /\ Client!SendShoot(Me)
  /\ UNCHANGED <<mpState, scs, menuVars, worldVars>>

(* Entity__set_anim_hook_ turns a death into standing while SCS_PLAY.        *)
LocalPlayerDies ==
  /\ InGame
  /\ local = "there"
  /\ scs # "PLAY"
  /\ local' = "dead"
  /\ UNCHANGED <<mpState, scs, menuVars, remote, table, clientVars>>

(* The network of MpClient, at any time of the game's own tick (external).   *)
NewsArrives ==
  /\ InGame
  /\ Client!EpnetOpen(Me) \/ Client!EpnetClose(Me)
       \/ \E p \in Packets : Client!EpnetReceive(Me, p)
  /\ UNCHANGED <<mpState, scs, menuVars, worldVars>>

SentLeaves ==
  /\ InGame
  /\ Client!EpnetTake(Me)
  /\ UNCHANGED <<mpState, scs, menuVars, worldVars>>

-----------------------------------------------------------------------------
(* multiplayer_tick: first the client.  What the last tick sent has left: no *)
(* step reads it.                                                            *)
TickClient ==
  /\ phase = "game"
  /\ out[Me] = <<>>
  /\ phase' = "callbacks"
  /\ Client!ClientTick(Me)
  /\ UNCHANGED <<mpState, scs, menuVars, worldVars>>

(* The callbacks, in the order of the packets.  A users packet only stores   *)
(* names; a shot only moves a remote player that is spawned.                 *)
Marked(p) ==
  [i \in Remotes |->
     IF i \in p.items THEN [remote[i] EXCEPT !.changed = TRUE] ELSE remote[i]]

Callback ==
  /\ phase = "callbacks"
  /\ calls[Me] # <<>>
  /\ calls' = [calls EXCEPT ![Me] = Tail(@)]
  /\ remote' = IF Head(calls[Me]).type = "ACTORS_SYNC"
                 THEN Marked(Head(calls[Me]))
                 ELSE remote
  /\ UNCHANGED <<phase, mpState, scs, menuVars, table, local, state, substate,
                 config, tickTime, userSyncTime, actorSyncTime, session, asked,
                 fresh, link, events, out>>

(* Then the handler of mpState, which ends the tick. *)
Handler(s) ==
  /\ phase = "callbacks"
  /\ calls[Me] = <<>>
  /\ mpState = s
  /\ phase' = "game"

NothingToHandle ==
  /\ Handler("NONE") \/ Handler("MAIN_MENU")
  /\ UNCHANGED <<mpState, scs, menuVars, worldVars, clientVars>>

-----------------------------------------------------------------------------
(* handle_multiplayer_state_multiplayer_menu_ *)

(* read_mp_menu_info_ finds the items of the multiplayer menu or gives up.   *)
MenuGone ==
  /\ Handler("MULTIPLAYER_MENU")
  /\ menu # "asmp"
  /\ UNCHANGED <<mpState, scs, menuVars, worldVars, clientVars>>

MenuHandler(s) ==
  /\ Handler("MULTIPLAYER_MENU")
  /\ menu = "asmp"
  /\ status = s
  /\ UNCHANGED <<menu, remote, local>>

MenuWaits ==
  /\ \/ \E s \in {"IDLE", "CONNECTED"} : MenuHandler(s)
     \/ MenuHandler("CONNECTING") /\ Connecting
  /\ UNCHANGED <<mpState, scs, status, gaveUp, table, clientVars>>

(* What the player typed is bad, or the client refuses. *)
PressedInVain ==
  /\ MenuHandler("CONNECT_PRESSED")
  /\ status' \in {"INVALID_NAME", "INVALID_ADDRESS", "CONNECTION_FAILED"}
  /\ UNCHANGED <<mpState, scs, gaveUp, table, clientVars>>

PressedAndAsked ==
  /\ MenuHandler("CONNECT_PRESSED")
  /\ Client!ConnectionRequest(Me)
  /\ status' = "CONNECTING"
  /\ gaveUp' = FALSE
  /\ UNCHANGED <<mpState, scs, table>>

(* The menu goes back to idle one tick after it reported a failure. *)
MenuReported ==
  /\ \E s \in {"INVALID_NAME", "INVALID_ADDRESS", "CONNECTION_FAILED"} :
       MenuHandler(s)
  /\ status' = "IDLE"
  /\ UNCHANGED <<mpState, scs, gaveUp, table, clientVars>>

MenuConnectionFailed ==
  /\ MenuHandler("CONNECTING")
  /\ state[Me] \notin {"CONNECTING", "CONNECTED"}
  /\ status' = "CONNECTION_FAILED"
  /\ UNCHANGED <<mpState, scs, gaveUp, table, clientVars>>

(* The table of remote players is allocated and zeroed, or is not. *)
MutantNewTable == IF table > 0 THEN table ELSE session[Me]
NewTable == session[Me]

MenuEnters ==
  /\ Handler("MULTIPLAYER_MENU")
  /\ menu = "asmp"
  /\ status = "CONNECTING"
  /\ state[Me] = "CONNECTED"
  /\ \/ /\ table' = NewTable
        /\ remote' = [i \in Remotes |-> NewRemote]
        /\ status' = "CONNECTED"
        /\ scs' = "JUST_CONNECTED"
        /\ mpState' = "CONNECTED"
        /\ UNCHANGED gaveUp
     \/ /\ table' = 0
        /\ status' = "CONNECTION_FAILED"
        /\ gaveUp' = TRUE
        /\ UNCHANGED <<remote, scs, mpState>>
  /\ UNCHANGED <<menu, local, clientVars>>

-----------------------------------------------------------------------------
(* handle_multiplayer_state_connected_.  It asks neither whether the client  *)
(* is still connected nor whether the map is still loaded.                   *)
ConnectedHandler(s) ==
  /\ Handler("CONNECTED")
  /\ scs = s
  /\ UNCHANGED <<mpState, status, gaveUp, table, clientVars>>

(* The map's name comes from the configuration, which is zeroed until a      *)
(* server has answered.                                                      *)
LoadMap ==
  /\ ConnectedHandler("JUST_CONNECTED")
  /\ IF config[Me] # 0
       THEN scs' = "WAIT_MAP_LOAD" /\ menu' = "none" /\ local' = "absent"
       ELSE UNCHANGED <<scs, menu, local>>
  /\ UNCHANGED remote

WaitMapLoad ==
  /\ ConnectedHandler("WAIT_MAP_LOAD")
  /\ scs' = "MAP_JUST_LOADED"
  /\ UNCHANGED <<menu, remote, local>>

WaitLocalPlayer ==
  /\ ConnectedHandler("MAP_JUST_LOADED")
  /\ scs' = IF local = "there" THEN "PLAYER_JUST_SPAWNED" ELSE scs
  /\ UNCHANGED <<menu, remote, local>>

StartPlay ==
  /\ ConnectedHandler("PLAYER_JUST_SPAWNED")
  /\ scs' = "PLAY"
  /\ UNCHANGED <<menu, remote, local>>

(* handle_remote_players_, for one of them.  The news that created an entity *)
(* stays marked, so that a spawned player is moved to it at once.            *)
MutantSpawns(r) == r.changed /\ r.entity # "none"
Spawns(r) == r.changed

MutantIsReady(r) == r.entity # "none"
IsReady(r) == r.entity = "whole"

NextRemote(r) ==
  CASE r.state = "NOT_SPAWNED" /\ Spawns(r) ->
         [r EXCEPT !.state = "SPAWNING", !.entity = "legs"]
    [] r.state = "SPAWNING" /\ IsReady(r) ->
         [r EXCEPT !.state = "JUST_SPAWNED"]
    [] r.state = "JUST_SPAWNED" -> [r EXCEPT !.state = "SPAWNED"]
    [] r.state = "SPAWNED" -> [r EXCEPT !.changed = FALSE]
    [] OTHER -> r

(* The loop runs to max_clients, which is zero until a server has answered.  *)
Play ==
  /\ ConnectedHandler("PLAY")
  /\ remote' = IF config[Me] = 0 THEN remote
               ELSE [i \in Remotes |-> NextRemote(remote[i])]
  /\ UNCHANGED <<scs, menu, local>>

-----------------------------------------------------------------------------
Menus ==
  \/ LoadMainMenu \/ LoadPlayMenu \/ LoadOtherMenu \/ LoadSinglePlayer
  \/ PressConnect \/ ReleaseMenu

EngineSpawns == SpawnLocalPlayer \/ \E i \in Remotes : SpawnTorso(i)

World == EngineSpawns \/ LocalPlayerShoots \/ LocalPlayerDies

MultiplayerTick ==
  \/ TickClient \/ Callback \/ NothingToHandle
  \/ MenuGone \/ MenuWaits \/ PressedInVain \/ PressedAndAsked \/ MenuReported
  \/ MenuConnectionFailed \/ MenuEnters
  \/ LoadMap \/ WaitMapLoad \/ WaitLocalPlayer \/ StartPlay \/ Play

GameNext == Menus \/ World \/ NewsArrives \/ SentLeaves \/ MultiplayerTick

GameSpec == GameInit /\ [][GameNext]_vars

(* The game loop keeps ticking, what is sent leaves, and the engine completes *)
(* what it spawns.  The strong form is needed because the game's own tick and *)
(* multiplayer_tick alternate: each is disabled while the other runs.         *)
GameFairness ==
  /\ SF_vars(MultiplayerTick)
  /\ SF_vars(SentLeaves)
  /\ SF_vars(EngineSpawns)

FairGameSpec == GameSpec /\ GameFairness

-----------------------------------------------------------------------------
(* Whenever the connected handler walks the remote players, it walks a table *)
(* that was allocated for the session it plays, even after a disconnect, in  *)
(* a second session, or from the garbage that malloc left in mp_->state.     *)
PlaysOnOwnTable ==
  mpState = "CONNECTED" /\ config[Me] # 0 => table = session[Me]

(* The callbacks write into remote_players without looking at it.  They find *)
(* the table of their session unless the player left the multiplayer menu    *)
(* past the main menu, or pressed CONNECT again, while an attempt was under  *)
(* way, or memory ran out.                                                   *)
CallbacksFindTable ==
  phase = "callbacks" /\ calls[Me] # <<>> /\ ~gaveUp => table = session[Me]

(* A player of whom the client has heard appears in the map, unless the      *)
(* player of this game leaves the map or dies before it is ready.            *)
HeardOfIsSpawned ==
  \A i \in Remotes :
    mpState = "CONNECTED" /\ remote[i].changed
      ~> \/ remote[i].state = "SPAWNED"
         \/ mpState # "CONNECTED" \/ menu # "none" \/ local = "dead"
=============================================================================
