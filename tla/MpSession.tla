------------------------------ MODULE MpSession ------------------------------
(***************************************************************************)
(* The server of MpServer and the clients of MpClient joined by the        *)
(* network: what asmp-server and several copies of asmp-dll do together.   *)
(*                                                                         *)
(* The network is epnet as the two programs use it (external).  Every      *)
(* client has one uplink and one downlink, in order; what belongs to a     *)
(* session that is over is dropped.  Opening and closing a session is      *)
(* epnet's own affair.  The programs send all their packets by the same    *)
(* two calls, which promise nothing: with Lossy, any of them may be lost.  *)
(* With Faulty, epnet may also give up a session on either side without    *)
(* telling the other.                                                      *)
(*                                                                         *)
(* A peer of the server is one session of one client, so that what a       *)
(* client did in an earlier session is told apart from what it does now.   *)
(***************************************************************************)
EXTENDS Integers, Sequences, SequencesExt, Sifting

CONSTANTS
  Clients, MaxClients, None,
  MaxSessions, MaxQueue, MaxInbox, MaxDown,  \* bounds of the instance
  Returners,                                 \* clients that may connect again
  Leavers,                                   \* clients that may disconnect
  Shooters,                                  \* clients that may fire
  UsersRate,                                 \* MP_USER_SYNC_UPDATE_RATE_MS
  Faulty,                                    \* whether timeouts happen
  Lossy                                      \* whether packets get lost

ASSUME SessionAssumption ==
  /\ MaxClients \in 1 .. 255
  /\ UsersRate \in Nat
  /\ None \notin Clients \X Nat
  /\ MaxSessions \in Nat /\ MaxQueue \in Nat /\ MaxInbox \in Nat

VARIABLES
  (* server *)
  phase, serverTick, prevUsersSent, prevActorsSent, isConnected, mpUser,
  mpActor, serverUserTime, serverActorTime, occupant, inbox, sent,
  (* clients *)
  state, substate, config, tickTime, userSyncTime, actorSyncTime, session,
  asked, fresh, link, events, out, calls,
  (* packets under way from the server to each client *)
  down,
  (* which packets of the handshake the present session of each client lost *)
  lost

(* The clocks are reduced to what the code tells apart.  The server's is     *)
(* zero until the first tick and one ever after: zero is the time that means *)
(* "no sync yet".  Actors syncs are always due.  The rate of users syncs     *)
(* decides whether they are due in every tick (0), in the first tick only    *)
(* (1) or never (2 and above).                                               *)
Server == INSTANCE MpServer WITH
  Peers <- Clients \X (1 .. MaxSessions),
  TimeMod <- 2, UserRate <- UsersRate, ActorRate <- 0,
  tickTime <- serverTick, userSyncTime <- serverUserTime,
  actorSyncTime <- serverActorTime

Client == INSTANCE MpClient WITH
  ServerPackets <- Server!Packet,
  TimeMod <- 1, UserRate <- 1, ActorRate <- 0

serverVars == <<phase, serverTick, prevUsersSent, prevActorsSent, isConnected,
                mpUser, mpActor, serverUserTime, serverActorTime, occupant,
                inbox, sent>>
clientVars == <<state, substate, config, tickTime, userSyncTime, actorSyncTime,
                session, asked, fresh, link, events, out, calls>>
vars == <<serverVars, clientVars, down, lost>>

Ids == Server!Ids

(* What travels on a downlink: server packets and the transport's own two. *)
Opened == [type |-> "OPENED"]
Closed == [type |-> "CLOSED"]

SessionInit ==
  /\ Server!ServerInit
  /\ Client!ClientInit
  /\ down = [c \in Clients |-> <<>>]
  /\ lost = [c \in Clients |-> {}]

(* An answer to session n of c, dropped if c has begun another since. *)
Tell(c, n, body) ==
  down' = IF n = session[c] THEN [down EXCEPT ![c] = Append(@, body)] ELSE down

(* The slot that the present session of c holds at the server, if any. *)
SlotsOf(c) == {i \in Ids : occupant[i] = <<c, session[c]>>}

-----------------------------------------------------------------------------
(* A server tick begins, and what the last one sent is under way to the      *)
(* clients that hold the slots.  MaxDown bounds the syncs and shots, of which *)
(* the server never stops sending more: beyond it they are lost at once.  The *)
(* responses need no bound; on the way all packets are lost alike.           *)
Kept(c, packet) == packet.type = "CONNECTION_RESPONSE" \/ Len(down[c]) < MaxDown
Flushed(c) ==
  IF SlotsOf(c) = {} THEN <<>>
  ELSE LET packets == sent[CHOOSE i \in SlotsOf(c) : TRUE]
       IN  Sift(packets, {p \in Range(packets) : Kept(c, p)})

ServerBeginsTick ==
  /\ Server!BeginTick(IF serverTick = 0 THEN 1 ELSE 0)
  /\ down' = [c \in Clients |-> down[c] \o Flushed(c)]
  /\ UNCHANGED <<clientVars, lost>>

ServerWorks ==
  /\ Server!EndUpdate \/ Server!Handle \/ Server!EndPoll \/ Server!Relay
  /\ UNCHANGED <<clientVars, down, lost>>

-----------------------------------------------------------------------------
GamePackets == {"CONNECTION_REQUEST", "USER_SYNC", "ACTOR_SYNC", "SHOOT"}

(* The server's epnet takes the next packet of the uplink of c. *)
Take(c, kinds) ==
  /\ Len(inbox) < MaxInbox
  /\ Client!EpnetTake(c)
  /\ Head(out[c]).kind \in kinds

HeldBy(c, n) == {i \in Ids : occupant[i] = <<c, n>>}
Free == {i \in Ids : occupant[i] = None}

UplinkOpen(c) ==
  /\ Take(c, {"OPEN"})
  /\ LET n == Head(out[c]).session
     IN  \/ /\ Free # {}
            /\ Server!EpnetJoin(<<c, n>>, Min(Free))
            /\ Tell(c, n, Opened)
         \/ /\ Free = {}
            /\ Tell(c, n, Closed)
            /\ UNCHANGED serverVars
  /\ UNCHANGED lost

UplinkClose(c) ==
  /\ Take(c, {"CLOSE"})
  /\ \E i \in HeldBy(c, Head(out[c]).session) : Server!EpnetLeave(i)
  /\ UNCHANGED <<down, lost>>

UplinkPacket(c) ==
  /\ Take(c, GamePackets)
  /\ \E i \in HeldBy(c, Head(out[c]).session) :
        Server!EpnetPacket(i, Head(out[c]).kind)
  /\ UNCHANGED <<down, lost>>

(* A packet of a session that the server does not hold is dropped. *)
UplinkDrop(c) ==
  /\ Take(c, GamePackets \cup {"CLOSE"})
  /\ HeldBy(c, Head(out[c]).session) = {}
  /\ UNCHANGED <<serverVars, down, lost>>

(* The present session of c has lost a packet of its handshake. *)
Lose(c, type) == lost' = [lost EXCEPT ![c] = @ \cup {type}]

UplinkLost(c) ==
  /\ Lossy
  /\ Take(c, GamePackets)
  /\ IF Head(out[c]).session = session[c] /\ Head(out[c]).kind = "CONNECTION_REQUEST"
       THEN Lose(c, "CONNECTION_REQUEST")
       ELSE UNCHANGED lost
  /\ UNCHANGED <<serverVars, down>>

(* The next message of the downlink reaches the epnet of c. *)
Arrives(c) ==
  /\ down[c] # <<>>
  /\ down' = [down EXCEPT ![c] = Tail(@)]
  /\ UNCHANGED serverVars

DownlinkOpened(c) ==
  /\ Arrives(c)
  /\ Head(down[c]) = Opened
  /\ Client!EpnetOpen(c)
  /\ UNCHANGED lost

DownlinkClosed(c) ==
  /\ Arrives(c)
  /\ Head(down[c]) = Closed
  /\ Client!EpnetClose(c)
  /\ UNCHANGED lost

DownlinkPacket(c) ==
  /\ Arrives(c)
  /\ Head(down[c]) \notin {Opened, Closed}
  /\ Client!EpnetReceive(c, Head(down[c]))
  /\ UNCHANGED lost

DownlinkDrop(c) ==
  /\ Arrives(c)
  /\ link[c] = "closed"
  /\ UNCHANGED <<clientVars, lost>>

DownlinkLost(c) ==
  /\ Lossy
  /\ Arrives(c)
  /\ Head(down[c]) \notin {Opened, Closed}
  /\ IF Head(down[c]).type = "CONNECTION_RESPONSE"
       THEN Lose(c, "CONNECTION_RESPONSE")
       ELSE UNCHANGED lost
  /\ UNCHANGED clientVars

(* Either side may take the other for gone. *)
ServerTimesOut ==
  /\ Faulty
  /\ \E i \in Ids : Server!EpnetLeave(i)
  /\ UNCHANGED <<clientVars, down, lost>>

ClientTimesOut(c) ==
  /\ Faulty
  /\ Client!EpnetClose(c)
  /\ UNCHANGED <<serverVars, down, lost>>

-----------------------------------------------------------------------------
(* The clients: their ticks, and what their players do. *)
ClientTicks(c) ==
  /\ Client!ClientTick(c)
  /\ UNCHANGED <<serverVars, down, lost>>

ClientConnects(c) ==
  /\ session[c] = 0 \/ c \in Returners
  /\ Client!ConnectionRequest(c)
  /\ down' = [down EXCEPT ![c] = <<>>]
  /\ lost' = [lost EXCEPT ![c] = {}]
  /\ UNCHANGED serverVars

ClientDisconnects(c) ==
  /\ c \in Leavers \/ state[c] = "UNINITED"
  /\ Client!Disconnect(c)
  /\ UNCHANGED <<serverVars, down, lost>>

ClientShoots(c) ==
  /\ c \in Shooters
  /\ Client!SendShoot(c)
  /\ UNCHANGED <<serverVars, down, lost>>

Play(c) == ClientConnects(c) \/ ClientDisconnects(c) \/ ClientShoots(c)

UplinkArrives(c) ==
  UplinkOpen(c) \/ UplinkClose(c) \/ UplinkPacket(c) \/ UplinkDrop(c)
DownlinkArrives(c) ==
  DownlinkOpened(c) \/ DownlinkClosed(c) \/ DownlinkPacket(c) \/ DownlinkDrop(c)
Uplink(c) == UplinkArrives(c) \/ UplinkLost(c)
Downlink(c) == DownlinkArrives(c) \/ DownlinkLost(c)

ServerNext == ServerBeginsTick \/ ServerWorks \/ ServerTimesOut

(* The clients and the network move while the server is in its update.  The  *)
(* server's other steps neither read nor write what they do, so that this    *)
(* leaves out no reachable state, only orders of independent steps.          *)
During(step) == phase = "update" /\ step

ClientNext(c) ==
  \/ During(Play(c)) \/ During(ClientTicks(c)) \/ During(ClientTimesOut(c))
  \/ During(Uplink(c)) \/ During(Downlink(c))

SessionNext == ServerNext \/ \E c \in Clients : ClientNext(c)

SessionSpec == SessionInit /\ [][SessionNext]_vars

(* What keeps running: main.c:16 calls mp_server_tick in an endless loop, the *)
(* game calls mp_client_tick on every tick of its own, and epnet carries what *)
(* was given to it, or loses it.  The strong form is needed only because the  *)
(* steps of the clients wait for the server's update.  Nobody has to play.    *)
ProgramsRun ==
  /\ WF_vars(ServerBeginsTick \/ ServerWorks)
  /\ \A c \in Clients : SF_vars(During(ClientTicks(c)))

NetworkMoves ==
  \A c \in Clients : SF_vars(During(Uplink(c))) /\ SF_vars(During(Downlink(c)))

FairSessionSpec == SessionSpec /\ ProgramsRun /\ NetworkMoves

(* A network that loses packets, but not every packet from some time on.      *)
NetworkDelivers ==
  \A c \in Clients :
    SF_vars(During(UplinkArrives(c))) /\ SF_vars(During(DownlinkArrives(c)))

DeliveringSpec == SessionSpec /\ ProgramsRun /\ NetworkDelivers

(* With timeouts, a client whose session the server no longer holds notices.  *)
RecoverySpec ==
  /\ FairSessionSpec
  /\ \A c \in Clients : SF_vars(During(SlotsOf(c) = {} /\ ClientTimesOut(c)))

-----------------------------------------------------------------------------
(* The connection request of the present session of c is on its way: not yet *)
(* taken by the server's epnet, or taken and not handled.                    *)
Asking(c) ==
  \/ [session |-> session[c], kind |-> "CONNECTION_REQUEST"] \in Range(out[c])
  \/ \E e \in Range(inbox) :
       e.kind = "CONNECTION_REQUEST" /\ e.from = <<c, session[c]>>

(* A client that plays is a player of the server, or about to be: if its     *)
(* session began clean and neither side has given it up, the server counts   *)
(* it as connected under the name that it gave, or has its request coming,   *)
(* or the network has lost the request.                                      *)
(* The answer goes to a slot and not to a client, so that it may reach the   *)
(* next holder of the slot, which plays before its own request is handled.   *)
ConnectedClientIsPlayer ==
  \A c \in Clients : \A i \in SlotsOf(c) :
    fresh[c] /\ state[c] = "CONNECTED" /\ link[c] = "open"
      => \/ isConnected[i] /\ mpUser[i] = <<c, session[c]>>
         \/ Asking(c)
         \/ "CONNECTION_REQUEST" \in lost[c]

(* A client never sees itself: neither its own slot nor the actor that it    *)
(* sent in this session comes back to its callbacks.                         *)
NoEcho ==
  \A c \in Clients : \A k \in DOMAIN calls[c] :
    calls[c][k].type = "ACTORS_SYNC" =>
      LET items == calls[c][k].items
      IN  /\ SlotsOf(c) \cap DOMAIN items = {}
          /\ \A i \in DOMAIN items : items[i] # <<c, session[c]>>

(* Every attempt that begins clean comes to an end unless the network loses  *)
(* its request or the answer: a client does not stay in CONNECTING, whatever *)
(* the others do, even if the server is full or loses sight of the client.   *)
(* Both packets are sent once, and nothing in client.c limits the waiting.   *)
FreshAttemptEnds ==
  \A c \in Clients :
    fresh[c] /\ state[c] = "CONNECTING" ~> state[c] # "CONNECTING" \/ lost[c] # {}

(* Two clients that both stay connected keep seeing each other's actor.      *)
Sees(c, d) ==
  \E k \in DOMAIN calls[c] :
    /\ calls[c][k].type = "ACTORS_SYNC"
    /\ \E i \in DOMAIN calls[c][k].items :
         calls[c][k].items[i] = <<d, session[d]>>

PlayersKeepMeeting ==
  \A c, d \in Clients :
    c # d /\ <>[](state[c] = "CONNECTED" /\ state[d] = "CONNECTED")
      => []<>Sees(c, d)
=============================================================================
