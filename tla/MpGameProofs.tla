---------------------------- MODULE MpGameProofs ----------------------------
(***************************************************************************)
(* What holds of the multiplayer in the game for any number of other       *)
(* players and any packets of the server.                                  *)
(***************************************************************************)
EXTENDS MpGame, SequenceTheorems, TLAPS

(* The theorems about the client, for the client of the game.                *)
Proved == INSTANCE MpClientProofs WITH
  Clients <- {Me}, ServerPackets <- Packets,
  TimeMod <- 1, UserRate <- 1, ActorRate <- 1

(* They are about the same client.                                           *)
LEMMA SameTypes ==
  /\ Client!ClientTypeOK <=> Proved!ClientTypeOK
  /\ Client!ClientTypeOK' <=> Proved!ClientTypeOK'
BY DEF Client!ClientTypeOK, Client!States, Client!Substates, Client!Times,
   Client!Sessions, Client!Event, Client!Connected, Client!Disconnected,
   Client!PacketEvent, Client!SentKinds,
   Proved!ClientTypeOK, Proved!States, Proved!Substates, Proved!Times,
   Proved!Sessions, Proved!Event, Proved!Connected, Proved!Disconnected,
   Proved!PacketEvent, Proved!SentKinds

LEMMA SameCalls ==
  Client!ConnectionRequest(Me) \/ Client!Disconnect(Me) \/ Client!SendShoot(Me)
    => Proved!ClientCall(Me)
BY DEF Client!ConnectionRequest, Client!Disconnect, Client!SendShoot,
   Client!MayConnect, Client!OnWire, Client!Transmit, Client!NoCalls, Client!clocks,
   Client!ghosts, Proved!ClientCall, Proved!ConnectionRequest, Proved!Disconnect,
   Proved!SendShoot, Proved!MayConnect, Proved!OnWire, Proved!Transmit,
   Proved!NoCalls, Proved!clocks, Proved!ghosts

LEMMA SameEpnet ==
  Client!EpnetOpen(Me) \/ Client!EpnetClose(Me) \/ Client!EpnetTake(Me)
    \/ (\E p \in Packets : Client!EpnetReceive(Me, p))
    => Proved!EpnetStep(Me)
BY DEF Client!EpnetOpen, Client!EpnetClose, Client!EpnetTake, Client!EpnetReceive,
   Client!Connected, Client!Disconnected, Client!PacketEvent, Client!clocks,
   Client!ghosts, Proved!EpnetStep, Proved!EpnetOpen, Proved!EpnetClose,
   Proved!EpnetTake, Proved!EpnetReceive, Proved!Connected, Proved!Disconnected,
   Proved!PacketEvent, Proved!clocks, Proved!ghosts

LEMMA SameTicks == Client!ClientTick(Me) => Proved!ClientTick(Me)
BY DEF Client!ClientTick, Client!TickIdle, Client!ConnectingIdle,
   Client!ConnectingConnecting, Client!ConnectingConnected,
   Client!ConnectingTopLevel, Client!ConnectingJustConnected,
   Client!TickConnected, Client!TickConnecting, Client!Tick, Client!Times,
   Client!Advance, Client!NoCalls, Client!Stops, Client!First, Client!RestAfter,
   Client!AfterOpening, Client!AfterAsking, Client!TransmitRequest,
   Client!Transmit, Client!OnWire, Client!IsResponse, Client!Connected,
   Client!Disconnected, Client!Due, Client!Elapsed, Client!RateOf, Client!Sift,
   Client!Range,
   Proved!ClientTick, Proved!TickIdle, Proved!ConnectingIdle,
   Proved!ConnectingConnecting, Proved!ConnectingConnected,
   Proved!ConnectingTopLevel, Proved!ConnectingJustConnected,
   Proved!TickConnected, Proved!TickConnecting, Proved!Tick, Proved!Times,
   Proved!Advance, Proved!NoCalls, Proved!Stops, Proved!First, Proved!RestAfter,
   Proved!AfterOpening, Proved!AfterAsking, Proved!TransmitRequest,
   Proved!Transmit, Proved!OnWire, Proved!IsResponse, Proved!Connected,
   Proved!Disconnected, Proved!Due, Proved!Elapsed, Proved!RateOf, Proved!Sift,
   Proved!Range

LEMMA ClientTypes ==
  ASSUME Client!ClientTypeOK,
         \/ Client!ConnectionRequest(Me) \/ Client!Disconnect(Me)
         \/ Client!SendShoot(Me) \/ Client!ClientTick(Me)
         \/ Client!EpnetOpen(Me) \/ Client!EpnetClose(Me) \/ Client!EpnetTake(Me)
         \/ \E p \in Packets : Client!EpnetReceive(Me, p)
  PROVE  Client!ClientTypeOK'
<1>1. Me \in {Me} /\ 1 \in Nat \ {0} /\ 1 \in Nat
  OBVIOUS
<1>2. Proved!ClientTypeOK
  BY SameTypes
<1>3. CASE \/ Client!ConnectionRequest(Me) \/ Client!Disconnect(Me)
           \/ Client!SendShoot(Me)
  <2>1. Proved!ClientCall(Me)
    BY <1>3, SameCalls
  <2>2. Proved!ClientTypeOK'
    BY <1>1, <1>2, <2>1, BoundsAssumption, Proved!CallTypes
  <2> QED
    BY <2>2, SameTypes
<1>4. CASE Client!ClientTick(Me)
  <2>1. Proved!ClientTick(Me)
    BY <1>4, SameTicks
  <2>2. Proved!ClientTypeOK'
    BY <1>1, <1>2, <2>1, BoundsAssumption, Proved!TickTypes
  <2> QED
    BY <2>2, SameTypes
<1>5. CASE \/ Client!EpnetOpen(Me) \/ Client!EpnetClose(Me) \/ Client!EpnetTake(Me)
           \/ \E p \in Packets : Client!EpnetReceive(Me, p)
  <2>1. Proved!EpnetStep(Me)
    BY <1>5, SameEpnet
  <2>2. Proved!ClientTypeOK'
    BY <1>1, <1>2, <2>1, BoundsAssumption, Proved!EpnetTypes
  <2> QED
    BY <2>2, SameTypes
<1> QED
  BY <1>3, <1>4, <1>5

LEMMA ClientInitTypes == Client!ClientInit => Client!ClientTypeOK
<1>1. Client!ClientInit => Proved!ClientInit
  BY DEF Client!ClientInit, Proved!ClientInit
<1>2. 1 \in Nat \ {0} /\ 1 \in Nat
  OBVIOUS
<1> QED
  BY <1>1, <1>2, SameTypes, BoundsAssumption, Proved!ClientInitType

-----------------------------------------------------------------------------
(* Types. *)

(* What the steps of the game do to the remote players.                      *)
LEMMA RemoteTypes ==
  ASSUME NEW r \in RemotePlayer
  PROVE  /\ [r EXCEPT !.changed = TRUE] \in RemotePlayer
         /\ r.entity = "legs" => [r EXCEPT !.entity = "whole"] \in RemotePlayer
         /\ NextRemote(r) \in RemotePlayer
<1>1. /\ r \in [state : RemoteStates, changed : BOOLEAN,
                entity : {"none", "legs", "whole"}]
      /\ r.entity = "none" <=> r.state = "NOT_SPAWNED"
      /\ r.state \in {"JUST_SPAWNED", "SPAWNED"} => r.entity = "whole"
  BY DEF RemotePlayer
<1>2. [r EXCEPT !.changed = TRUE] \in RemotePlayer
  BY <1>1 DEF RemotePlayer
<1>3. r.entity = "legs" => [r EXCEPT !.entity = "whole"] \in RemotePlayer
  BY <1>1 DEF RemotePlayer
<1>4. CASE r.state = "NOT_SPAWNED" /\ Spawns(r)
  <2>1. NextRemote(r) = [r EXCEPT !.state = "SPAWNING", !.entity = "legs"]
    BY <1>4 DEF NextRemote
  <2> QED
    BY <1>1, <1>2, <1>3, <2>1 DEF RemotePlayer, RemoteStates
<1>5. CASE r.state = "SPAWNING" /\ IsReady(r)
  <2>1. NextRemote(r) = [r EXCEPT !.state = "JUST_SPAWNED"]
    BY <1>5 DEF NextRemote
  <2> QED
    BY <1>1, <1>2, <1>3, <1>5, <2>1 DEF RemotePlayer, RemoteStates, IsReady
<1>6. CASE r.state = "JUST_SPAWNED"
  <2>1. NextRemote(r) = [r EXCEPT !.state = "SPAWNED"]
    BY <1>6 DEF NextRemote
  <2> QED
    BY <1>1, <1>2, <1>3, <1>6, <2>1 DEF RemotePlayer, RemoteStates
<1>7. CASE r.state = "SPAWNED"
  <2>1. NextRemote(r) = [r EXCEPT !.changed = FALSE]
    BY <1>7 DEF NextRemote
  <2> QED
    BY <1>1, <1>2, <1>3, <2>1 DEF RemotePlayer
<1>8. CASE /\ ~(r.state = "NOT_SPAWNED" /\ Spawns(r))
           /\ ~(r.state = "SPAWNING" /\ IsReady(r))
           /\ r.state \notin {"JUST_SPAWNED", "SPAWNED"}
  <2>1. NextRemote(r) = r
    BY <1>8 DEF NextRemote
  <2> QED
    BY <1>2, <1>3, <2>1
<1> QED
  BY <1>4, <1>5, <1>6, <1>7, <1>8

LEMMA NewRemoteType == NewRemote \in RemotePlayer
BY DEF NewRemote, RemotePlayer, RemoteStates

(* The part of GameTypeOK that is about the game. *)
PlainTypes ==
  /\ phase \in {"game", "callbacks"}
  /\ mpState \in MultiplayerStates
  /\ scs \in ConnectedSubstates
  /\ table \in Absent .. MaxSessions
  /\ remote \in [Remotes -> RemotePlayer]
  /\ menu \in {"none", "main", "asmp", "other"}
  /\ status \in PlayMenuSubstates
  /\ local \in {"absent", "there", "dead"}
  /\ gaveUp \in BOOLEAN

LEMMA GameClientTypes ==
  ASSUME Client!ClientTypeOK, GameNext
  PROVE  Client!ClientTypeOK'
<1>1. CASE UNCHANGED clientVars
  BY <1>1 DEF clientVars, Client!ClientTypeOK
<1>2. CASE Callback
  <2>1. /\ calls \in [{Me} -> Seq(Packets)] /\ calls[Me] # <<>>
        /\ calls' = [calls EXCEPT ![Me] = Tail(@)]
    BY <1>2 DEF Callback, Client!ClientTypeOK
  <2>2. calls' \in [{Me} -> Seq(Packets)]
    <3>1. Me \in {Me} /\ Tail(calls[Me]) \in Seq(Packets)
      BY <2>1, HeadTailProperties
    <3> QED
      BY <2>1, <3>1
  <2>3. UNCHANGED <<state, substate, config, tickTime, userSyncTime, actorSyncTime,
                    session, asked, fresh, link, events, out>>
    BY <1>2 DEF Callback
  <2> QED
    BY <2>2, <2>3 DEF Client!ClientTypeOK
<1>3. CASE LoadMainMenu \/ LocalPlayerShoots \/ NewsArrives \/ SentLeaves
             \/ TickClient \/ PressedAndAsked
  BY <1>3, ClientTypes DEF LoadMainMenu, LocalPlayerShoots, NewsArrives, SentLeaves,
     TickClient, PressedAndAsked
<1>4. CASE Menus \/ World
  BY <1>1, <1>3, <1>4 DEF Menus, World, EngineSpawns, LoadPlayMenu, LoadOtherMenu,
     LoadSinglePlayer, PressConnect, ReleaseMenu, SpawnLocalPlayer, SpawnTorso,
     LocalPlayerDies
<1>5. CASE MultiplayerTick
  BY <1>1, <1>2, <1>3, <1>5 DEF MultiplayerTick, NothingToHandle, MenuGone, MenuWaits,
     PressedInVain, MenuReported, MenuConnectionFailed, MenuEnters, LoadMap,
     WaitMapLoad, WaitLocalPlayer, StartPlay, Play, ConnectedHandler
<1> QED
  BY <1>3, <1>4, <1>5 DEF GameNext

LEMMA GamePlainTypes ==
  ASSUME PlainTypes, Client!ClientTypeOK, GameNext
  PROVE  PlainTypes'
<1> USE DEF PlainTypes, menuVars, worldVars
<1>1. CASE UNCHANGED <<mpState, scs, menuVars, worldVars>> /\ phase' \in {phase, "game", "callbacks"}
  BY <1>1
<1>2. CASE LoadMainMenu \/ LoadPlayMenu \/ LoadOtherMenu \/ LoadSinglePlayer
             \/ PressConnect \/ ReleaseMenu
  BY <1>2 DEF LoadMainMenu, LoadPlayMenu, LoadOtherMenu, LoadSinglePlayer, PressConnect,
     ReleaseMenu, InGame, MultiplayerStates, PlayMenuSubstates, Connecting
<1>3. CASE SpawnLocalPlayer \/ LocalPlayerDies
  BY <1>3 DEF SpawnLocalPlayer, LocalPlayerDies, InGame
<1>4. ASSUME NEW k \in Remotes, SpawnTorso(k) PROVE PlainTypes'
  <2>1. [remote[k] EXCEPT !.entity = "whole"] \in RemotePlayer
    BY <1>4, RemoteTypes DEF SpawnTorso
  <2> QED
    BY <1>4, <2>1 DEF SpawnTorso, InGame
<1>5. CASE LocalPlayerShoots \/ NewsArrives \/ SentLeaves \/ TickClient
  BY <1>1, <1>5 DEF LocalPlayerShoots, NewsArrives, SentLeaves, TickClient, InGame
<1>6. CASE Callback
  <2>1. ASSUME NEW p PROVE Marked(p) \in [Remotes -> RemotePlayer]
    BY RemoteTypes DEF Marked
  <2>2. remote' \in [Remotes -> RemotePlayer]
    BY <1>6, <2>1 DEF Callback
  <2> QED
    BY <1>6, <2>2 DEF Callback
<1>7. CASE NothingToHandle \/ MenuGone
  BY <1>1, <1>7 DEF NothingToHandle, MenuGone, Handler
<1>8. CASE MenuWaits \/ PressedInVain \/ PressedAndAsked \/ MenuReported
             \/ MenuConnectionFailed
  BY <1>8 DEF MenuWaits, PressedInVain, PressedAndAsked, MenuReported,
     MenuConnectionFailed, MenuHandler, Handler, PlayMenuSubstates
<1>9. CASE MenuEnters
  <2>1. session[Me] \in Absent .. MaxSessions /\ 0 \in Absent .. MaxSessions
    BY BoundsAssumption DEF Client!ClientTypeOK, Client!Sessions, Absent
  <2>2. [k \in Remotes |-> NewRemote] \in [Remotes -> RemotePlayer]
    BY NewRemoteType
  <2> QED
    BY <1>9, <2>1, <2>2 DEF MenuEnters, NewTable, Handler, MultiplayerStates,
       ConnectedSubstates, PlayMenuSubstates
<1>10. CASE LoadMap \/ WaitMapLoad \/ WaitLocalPlayer \/ StartPlay
  BY <1>10 DEF LoadMap, WaitMapLoad, WaitLocalPlayer, StartPlay, ConnectedHandler,
     Handler, ConnectedSubstates
<1>11. CASE Play
  <2>1. [k \in Remotes |-> NextRemote(remote[k])] \in [Remotes -> RemotePlayer]
    BY RemoteTypes
  <2> QED
    BY <1>11, <2>1 DEF Play, ConnectedHandler, Handler
<1> QED
  BY <1>2, <1>3, <1>4, <1>5, <1>6, <1>7, <1>8, <1>9, <1>10, <1>11
     DEF GameNext, Menus, World, EngineSpawns, MultiplayerTick

(* GameTypeOK: in particular a remote player has an entity when and only when *)
(* it has begun to spawn, and that one is complete before handle_remote_      *)
(* players_ attaches weapons and name to it.                                  *)
THEOREM GameTypeCorrect == GameSpec => []GameTypeOK
<1>1. GameInit => PlainTypes /\ Client!ClientTypeOK
  <2> SUFFICES ASSUME GameInit PROVE PlainTypes /\ Client!ClientTypeOK
    OBVIOUS
  <2>1. Client!ClientTypeOK
    BY ClientInitTypes DEF GameInit
  <2>2. remote \in [Remotes -> RemotePlayer]
    BY NewRemoteType DEF GameInit
  <2>3. table \in Absent .. MaxSessions
    BY BoundsAssumption DEF GameInit, Absent
  <2>4. /\ phase \in {"game", "callbacks"} /\ mpState \in MultiplayerStates
        /\ scs \in ConnectedSubstates /\ menu \in {"none", "main", "asmp", "other"}
        /\ status \in PlayMenuSubstates /\ local \in {"absent", "there", "dead"}
        /\ gaveUp \in BOOLEAN
    BY DEF GameInit, PlayMenuSubstates
  <2> QED
    BY <2>1, <2>2, <2>3, <2>4 DEF PlainTypes
<1>2. (PlainTypes /\ Client!ClientTypeOK) /\ [GameNext]_vars
        => (PlainTypes /\ Client!ClientTypeOK)'
  <2>1. (PlainTypes /\ Client!ClientTypeOK) /\ UNCHANGED vars
          => (PlainTypes /\ Client!ClientTypeOK)'
    BY DEF vars, menuVars, worldVars, clientVars, PlainTypes, Client!ClientTypeOK
  <2> QED
    BY <2>1, GamePlainTypes, GameClientTypes
<1>3. PlainTypes /\ Client!ClientTypeOK => GameTypeOK
  BY DEF PlainTypes, GameTypeOK
<1> QED
  BY <1>1, <1>2, <1>3, PTL DEF GameSpec

-----------------------------------------------------------------------------
(* What the client's steps do to the few variables that the game reads.      *)
LEMMA TickEffects ==
  ASSUME Client!ClientTypeOK, Client!ClientTick(Me)
  PROVE  /\ session' = session
         /\ state'[Me] = "CONNECTING" => state[Me] = "CONNECTING"
         /\ state'[Me] = "CONNECTED" => state[Me] \in {"CONNECTING", "CONNECTED"}
         /\ state[Me] # "CONNECTED" => calls'[Me] = <<>>
         /\ config'[Me] # config[Me]
              => state[Me] = "CONNECTING" /\ config'[Me] = session[Me]
BY DEF Client!ClientTypeOK, Client!ClientTick, Client!TickIdle,
   Client!ConnectingIdle, Client!ConnectingConnecting,
   Client!ConnectingConnected, Client!ConnectingTopLevel,
   Client!ConnectingJustConnected, Client!TickConnected, Client!TickConnecting,
   Client!Tick, Client!NoCalls

LEMMA CallEffects ==
  ASSUME Client!ClientTypeOK
  PROVE  /\ Client!Disconnect(Me) =>
              /\ state'[Me] = "INITED" /\ calls'[Me] = <<>>
              /\ UNCHANGED <<session, config>>
         /\ Client!ConnectionRequest(Me) =>
              /\ state'[Me] = "CONNECTING" /\ calls'[Me] = <<>>
              /\ session'[Me] = session[Me] + 1
              /\ config' = config
         /\ Client!SendShoot(Me) => UNCHANGED <<state, calls, session, config>>
BY DEF Client!ClientTypeOK, Client!Disconnect, Client!ConnectionRequest,
   Client!SendShoot, Client!NoCalls, Client!ghosts

LEMMA EpnetEffects ==
  ASSUME \/ Client!EpnetOpen(Me) \/ Client!EpnetClose(Me) \/ Client!EpnetTake(Me)
         \/ \E p \in Packets : Client!EpnetReceive(Me, p)
  PROVE  UNCHANGED <<state, calls, session, config>>
BY DEF Client!EpnetOpen, Client!EpnetClose, Client!EpnetTake,
   Client!EpnetReceive, Client!ghosts

(* Why the connected handler plays on its own table: it is entered with the   *)
(* table of the session, and the session only moves on in the menu.  The      *)
(* garbage in mp_->state does no harm as long as there was no session.        *)
TableInv ==
  /\ mpState = "CONNECTED" /\ session[Me] # 0 => table = session[Me]
  /\ config[Me] # 0 \/ state[Me] = "CONNECTING" => session[Me] # 0

(* Why the callbacks find the table: an attempt that nobody gave up is        *)
(* watched by the menu from the request to the tick in which it is connected, *)
(* and that tick, which calls nothing back, allocates the table.              *)
Watched == mpState = "MULTIPLAYER_MENU" /\ menu = "asmp" /\ status = "CONNECTING"
CallbackInv ==
  ~gaveUp =>
    /\ state[Me] = "CONNECTING" => Watched
    /\ state[Me] = "CONNECTED" =>
         \/ table = session[Me]
         \/ phase = "callbacks" /\ calls[Me] = <<>> /\ Watched
    /\ phase = "callbacks" /\ calls[Me] # <<>> => table = session[Me]

LEMMA TableStep ==
  ASSUME PlainTypes, Client!ClientTypeOK, TableInv, GameNext
  PROVE  TableInv'
<1> USE DEF TableInv
<1>0. session[Me] \in Nat
  BY BoundsAssumption DEF Client!ClientTypeOK, Client!Sessions
<1>1. CASE UNCHANGED <<mpState, table, state, session, config>>
  BY <1>1
<1>2. CASE LoadMainMenu
  BY <1>2, CallEffects DEF LoadMainMenu
<1>3. CASE LoadPlayMenu
  BY <1>3 DEF LoadPlayMenu, worldVars, clientVars
<1>4. CASE LoadOtherMenu \/ LoadSinglePlayer \/ PressConnect \/ ReleaseMenu
  BY <1>1, <1>4 DEF LoadOtherMenu, LoadSinglePlayer, PressConnect, ReleaseMenu,
     worldVars, clientVars
<1>5. CASE SpawnLocalPlayer \/ LocalPlayerDies \/ \E k \in Remotes : SpawnTorso(k)
  BY <1>1, <1>5 DEF SpawnLocalPlayer, LocalPlayerDies, SpawnTorso, clientVars
<1>6. CASE LocalPlayerShoots
  BY <1>1, <1>6, CallEffects DEF LocalPlayerShoots, worldVars
<1>7. CASE NewsArrives \/ SentLeaves
  BY <1>1, <1>7, EpnetEffects DEF NewsArrives, SentLeaves, worldVars
<1>8. CASE TickClient
  <2>1. UNCHANGED <<mpState, table>> /\ Client!ClientTick(Me)
    BY <1>8 DEF TickClient, worldVars
  <2> QED
    BY <2>1, TickEffects
<1>9. CASE Callback
  BY <1>1, <1>9 DEF Callback
<1>10. CASE NothingToHandle \/ MenuGone \/ MenuWaits \/ PressedInVain \/ MenuReported
              \/ MenuConnectionFailed
  BY <1>1, <1>10 DEF NothingToHandle, MenuGone, MenuWaits, PressedInVain, MenuReported,
     MenuConnectionFailed, worldVars, clientVars
<1>11. CASE PressedAndAsked
  <2>1. mpState = "MULTIPLAYER_MENU" /\ mpState' = mpState /\ Client!ConnectionRequest(Me)
    BY <1>11 DEF PressedAndAsked, MenuHandler, Handler
  <2>2. session'[Me] = session[Me] + 1
    BY <2>1, CallEffects
  <2> QED
    BY <1>0, <2>1, <2>2
<1>12. CASE MenuEnters
  <2>1. /\ UNCHANGED <<state, session, config>>
        /\ \/ table' = session[Me]
           \/ mpState' = "MULTIPLAYER_MENU"
    BY <1>12 DEF MenuEnters, Handler, NewTable, clientVars
  <2> QED
    BY <2>1
<1>13. CASE LoadMap \/ WaitMapLoad \/ WaitLocalPlayer \/ StartPlay \/ Play
  BY <1>1, <1>13 DEF LoadMap, WaitMapLoad, WaitLocalPlayer, StartPlay, Play,
     ConnectedHandler, clientVars
<1> QED
  BY <1>2, <1>3, <1>4, <1>5, <1>6, <1>7, <1>8, <1>9, <1>10, <1>11, <1>12, <1>13
     DEF GameNext, Menus, World, EngineSpawns, MultiplayerTick

LEMMA CallbackStep ==
  ASSUME PlainTypes, Client!ClientTypeOK, CallbackInv, GameNext
  PROVE  CallbackInv'
<1> USE DEF CallbackInv, Watched
<1>1. CASE UNCHANGED <<mpState, menu, status, gaveUp, table, phase, state, session, calls>>
  BY <1>1
<1>2. CASE LoadMainMenu
  <2>1. state'[Me] = "INITED" /\ calls'[Me] = <<>>
    BY <1>2, CallEffects DEF LoadMainMenu
  <2> QED
    BY <2>1
<1>3. CASE LoadPlayMenu \/ LoadSinglePlayer \/ ReleaseMenu
  BY <1>3 DEF LoadPlayMenu, LoadSinglePlayer, ReleaseMenu, InGame, worldVars, clientVars
<1>4. CASE LoadOtherMenu \/ PressConnect
  <2>1. /\ phase = "game" /\ (~gaveUp' => ~gaveUp /\ state[Me] # "CONNECTING")
        /\ UNCHANGED <<phase, table, state, session, calls>>
    BY <1>4 DEF LoadOtherMenu, PressConnect, InGame, Connecting, worldVars, clientVars
  <2> QED
    BY <2>1
<1>5. CASE SpawnLocalPlayer \/ LocalPlayerDies \/ \E k \in Remotes : SpawnTorso(k)
  BY <1>1, <1>5 DEF SpawnLocalPlayer, LocalPlayerDies, SpawnTorso, InGame, menuVars,
     clientVars
<1>6. CASE LocalPlayerShoots
  BY <1>1, <1>6, CallEffects DEF LocalPlayerShoots, InGame, menuVars, worldVars
<1>7. CASE NewsArrives \/ SentLeaves
  BY <1>1, <1>7, EpnetEffects DEF NewsArrives, SentLeaves, InGame, menuVars, worldVars
<1>8. CASE TickClient
  <2>1. /\ UNCHANGED <<mpState, menu, status, gaveUp, table>> /\ phase = "game"
        /\ phase' = "callbacks" /\ Client!ClientTick(Me)
    BY <1>8 DEF TickClient, menuVars, worldVars
  <2>2. /\ session' = session
        /\ state'[Me] = "CONNECTING" => state[Me] = "CONNECTING"
        /\ state'[Me] = "CONNECTED" => state[Me] \in {"CONNECTING", "CONNECTED"}
        /\ state[Me] # "CONNECTED" => calls'[Me] = <<>>
    BY <2>1, TickEffects
  <2>3. ~gaveUp /\ state[Me] = "CONNECTED" => table = session[Me]
    BY <2>1
  <2>4. ~gaveUp /\ state[Me] = "CONNECTING" => Watched
    OBVIOUS
  <2>5. Watched => Watched'
    BY <2>1
  <2> HIDE DEF Watched
  <2>6. state[Me] \notin {"CONNECTING", "CONNECTED"} => CallbackInv'
    BY <2>2
  <2>7. CASE state[Me] = "CONNECTED"
    BY <2>1, <2>2, <2>3, <2>7
  <2>8. CASE state[Me] = "CONNECTING"
    BY <2>1, <2>2, <2>4, <2>5, <2>8
  <2> QED
    BY <2>6, <2>7, <2>8
<1>9. CASE Callback
  BY <1>9 DEF Callback, menuVars
<1>10. CASE NothingToHandle \/ MenuGone
  BY <1>10 DEF NothingToHandle, MenuGone, Handler, menuVars, worldVars, clientVars
<1>11. CASE MenuWaits \/ PressedInVain \/ MenuReported \/ MenuConnectionFailed
  <2>1. /\ phase' = "game" /\ menu' = menu
        /\ UNCHANGED <<mpState, gaveUp, table, state, session, calls>>
    BY <1>11 DEF MenuWaits, PressedInVain, MenuReported, MenuConnectionFailed,
       MenuHandler, Handler, clientVars
  <2>2. \/ status' = status /\ (status # "CONNECTING" \/ state[Me] = "CONNECTING")
        \/ status # "CONNECTING"
        \/ state[Me] \notin {"CONNECTING", "CONNECTED"}
    BY <1>11 DEF MenuWaits, PressedInVain, MenuReported, MenuConnectionFailed,
       MenuHandler, Handler, Connecting
  <2> QED
    BY <2>1, <2>2
<1>12. CASE PressedAndAsked
  <2>1. /\ mpState' = "MULTIPLAYER_MENU" /\ menu' = "asmp" /\ status' = "CONNECTING"
        /\ Client!ConnectionRequest(Me)
    BY <1>12 DEF PressedAndAsked, MenuHandler, Handler
  <2>2. state'[Me] = "CONNECTING" /\ calls'[Me] = <<>>
    BY <2>1, CallEffects
  <2> QED
    BY <2>1, <2>2
<1>13. CASE MenuEnters
  <2>1. /\ phase' = "game" /\ state[Me] = "CONNECTED"
        /\ UNCHANGED <<state, session, calls>>
        /\ ~gaveUp' => table' = session[Me]
    BY <1>13 DEF MenuEnters, Handler, NewTable, clientVars
  <2> QED
    BY <2>1
<1>14. CASE LoadMap \/ WaitMapLoad \/ WaitLocalPlayer \/ StartPlay \/ Play
  <2>1. /\ mpState = "CONNECTED" /\ phase' = "game"
        /\ UNCHANGED <<mpState, gaveUp, table, state, session, calls>>
    BY <1>14 DEF LoadMap, WaitMapLoad, WaitLocalPlayer, StartPlay, Play,
       ConnectedHandler, Handler, clientVars
  <2> QED
    BY <2>1
<1> QED
  BY <1>2, <1>3, <1>4, <1>5, <1>6, <1>7, <1>8, <1>9, <1>10, <1>11, <1>12, <1>13, <1>14
     DEF GameNext, Menus, World, EngineSpawns, MultiplayerTick

GameInv == PlainTypes /\ Client!ClientTypeOK /\ TableInv /\ CallbackInv

LEMMA GameInvariant == GameSpec => []GameInv
<1>1. GameInit => TableInv /\ CallbackInv
  BY DEF GameInit, Client!ClientInit, TableInv, CallbackInv
<1>2. GameTypeOK <=> PlainTypes /\ Client!ClientTypeOK
  BY DEF PlainTypes, GameTypeOK
<1>3. PlainTypes /\ Client!ClientTypeOK /\ TableInv /\ CallbackInv /\ [GameNext]_vars
        => (TableInv /\ CallbackInv)'
  <2> SUFFICES ASSUME PlainTypes, Client!ClientTypeOK, TableInv, CallbackInv, [GameNext]_vars
               PROVE  (TableInv /\ CallbackInv)'
    OBVIOUS
  <2>1. CASE UNCHANGED vars
    BY <2>1 DEF vars, menuVars, worldVars, clientVars, TableInv, CallbackInv, Watched
  <2>2. CASE GameNext
    BY <2>2, TableStep, CallbackStep
  <2> QED
    BY <2>1, <2>2
<1> QED
  BY <1>1, <1>2, <1>3, GameTypeCorrect, PTL DEF GameSpec, GameInv

(* PlaysOnOwnTable: handle_multiplayer_state_connected_ walks a table of      *)
(* remote players that was allocated for the session it plays.                *)
THEOREM PlaysOnOwnTableAlways == GameSpec => []PlaysOnOwnTable
<1>1. GameInv => PlaysOnOwnTable
  BY DEF GameInv, TableInv, PlaysOnOwnTable
<1> QED
  BY <1>1, GameInvariant, PTL

(* CallbacksFindTable: the callbacks of the client, which never look, find    *)
(* the table of their session, unless the attempt was left, pressed over or   *)
(* met by a failed allocation.                                                *)
THEOREM CallbacksAlwaysFindTable == GameSpec => []CallbacksFindTable
<1>1. GameInv => CallbacksFindTable
  BY DEF GameInv, CallbackInv, CallbacksFindTable
<1> QED
  BY <1>1, GameInvariant, PTL

-----------------------------------------------------------------------------
(* The game calls its client as MpClient expects: what holds of the client    *)
(* holds of it in the game.                                                   *)

(* A step of the game is one of the client, or touches at most its clocks,    *)
(* what it sends and the callbacks that are still to run.                     *)
LEMMA StepsOfTheClient ==
  ASSUME GameNext
  PROVE  \/ Proved!ClientTick(Me) \/ Proved!ClientCall(Me) \/ Proved!EpnetStep(Me)
         \/ UNCHANGED <<state, substate, config, session, asked, fresh, link, events>>
<1>1. CASE UNCHANGED clientVars
  BY <1>1 DEF clientVars
<1>2. CASE Callback
  BY <1>2 DEF Callback
<1>3. CASE LoadMainMenu \/ LocalPlayerShoots \/ PressedAndAsked
  BY <1>3, SameCalls DEF LoadMainMenu, LocalPlayerShoots, PressedAndAsked
<1>4. CASE NewsArrives \/ SentLeaves
  BY <1>4, SameEpnet DEF NewsArrives, SentLeaves
<1>5. CASE TickClient
  BY <1>5, SameTicks DEF TickClient
<1>6. CASE Menus \/ World
  BY <1>1, <1>3, <1>6 DEF Menus, World, EngineSpawns, LoadPlayMenu, LoadOtherMenu,
     LoadSinglePlayer, PressConnect, ReleaseMenu, SpawnLocalPlayer, SpawnTorso,
     LocalPlayerDies
<1>7. CASE MultiplayerTick
  BY <1>1, <1>2, <1>3, <1>5, <1>7 DEF MultiplayerTick, NothingToHandle, MenuGone,
     MenuWaits, PressedInVain, MenuReported, MenuConnectionFailed, MenuEnters, LoadMap,
     WaitMapLoad, WaitLocalPlayer, StartPlay, Play, ConnectedHandler
<1> QED
  BY <1>4, <1>6, <1>7 DEF GameNext

ClientInv == Proved!Accounted(Me) /\ Proved!Handshake(Me)

LEMMA ClientInvariant == GameSpec => []ClientInv
<1>1. GameInit => ClientInv
  BY DEF GameInit, Client!ClientInit, ClientInv, Proved!Accounted, Proved!Handshake,
     Proved!Disconnected, Proved!Range
<1>2. GameTypeOK /\ ClientInv /\ [GameNext]_vars => ClientInv'
  <2> SUFFICES ASSUME GameTypeOK, ClientInv, [GameNext]_vars
               PROVE  ClientInv'
    OBVIOUS
  <2>1. Proved!ClientTypeOK
    BY SameTypes DEF GameTypeOK
  <2>2. CASE UNCHANGED <<state, substate, config, session, asked, fresh, link, events>>
    BY <2>2 DEF ClientInv, Proved!Accounted, Proved!Handshake
  <2>3. CASE Proved!ClientTick(Me) \/ Proved!ClientCall(Me) \/ Proved!EpnetStep(Me)
    <3>1. Me \in {Me} /\ 1 \in Nat \ {0} /\ 1 \in Nat
      OBVIOUS
    <3>2. Proved!Accounted(Me)'
      BY <2>1, <2>3, <3>1, BoundsAssumption, Proved!AccountedStep DEF ClientInv
    <3>3. Proved!Handshake(Me)'
      BY <2>1, <2>3, <3>1, BoundsAssumption, Proved!HandshakeStep DEF ClientInv
    <3> QED
      BY <3>2, <3>3 DEF ClientInv
  <2>4. CASE UNCHANGED vars
    BY <2>2, <2>4 DEF vars, clientVars
  <2> QED
    BY <2>2, <2>3, <2>4, StepsOfTheClient
<1> QED
  BY <1>1, <1>2, GameTypeCorrect, PTL DEF GameSpec

(* Whatever the player presses and whichever menu is loaded, the client of    *)
(* the game is accounted for: it loses no news that its link is gone, a clean *)
(* session is connected by its own request and answer, and no session asks    *)
(* twice.                                                                     *)
THEOREM GameClientStaysAccountedFor ==
  GameSpec => /\ [](Client!LinkIsAccountedFor /\ Client!FreshSessionHandshakes)
              /\ Client!AsksOncePerSession
<1>1. ClientInv => Client!LinkIsAccountedFor /\ Client!FreshSessionHandshakes
  BY DEF ClientInv, Proved!Accounted, Proved!Handshake, Proved!Disconnected,
     Proved!Range, Client!LinkIsAccountedFor, Client!FreshSessionHandshakes,
     Client!Disconnected, Client!Range
<1>2. ClientInv =>
        [\A c \in {Me} : \A dt \in Client!Times :
           Client!ConnectingConnected(c, dt) => asked[c] < session[c]]_Client!vars
  BY DEF ClientInv, Proved!Handshake, Client!ConnectingConnected,
     Client!TickConnecting
<1> QED
  BY <1>1, <1>2, ClientInvariant, PTL DEF Client!AsksOncePerSession
=============================================================================
