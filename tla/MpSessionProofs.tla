--------------------------- MODULE MpSessionProofs ---------------------------
(***************************************************************************)
(* What holds of the server and the clients over the network, for any      *)
(* number of clients, slots and sessions, any bounds of the queues and any *)
(* rate of users syncs, with and without timeouts and losses.              *)
(*                                                                         *)
(* The lemmas of MpServerProofs and MpClientProofs say what a step of one  *)
(* side does.  Here they are put together: a join, a request or a packet   *)
(* of one side is what the other sent, in the order in which it was sent.  *)
(***************************************************************************)
EXTENDS MpSession, SequenceLemmas

Peers == Clients \X (1 .. MaxSessions)

(* What is proved of the server and of the clients, for those of MpSession.  *)
Table == INSTANCE MpServerProofs WITH
  Peers <- Clients \X (1 .. MaxSessions),
  TimeMod <- 2, UserRate <- UsersRate, ActorRate <- 0,
  tickTime <- serverTick, userSyncTime <- serverUserTime,
  actorSyncTime <- serverActorTime

Ends == INSTANCE MpClientProofs WITH
  ServerPackets <- Server!Packet,
  TimeMod <- 1, UserRate <- 1, ActorRate <- 0

(* The constants are as those modules assume. *)
LEMMA Bounds ==
  /\ MaxClients \in 1 .. 255 /\ None \notin Peers
  /\ None \notin Clients \X (1 .. MaxSessions)
  /\ MaxSessions \in Nat /\ MaxQueue \in Nat /\ MaxInbox \in Nat
  /\ UsersRate \in Nat
  /\ 2 \in Nat \ {0} /\ 1 \in Nat \ {0} /\ 2 \in Nat /\ 1 \in Nat /\ 0 \in Nat
BY SessionAssumption DEF Peers

-----------------------------------------------------------------------------
(* They are about the same server. *)
LEMMA SameServer ==
  /\ Server!ServerInit => Table!ServerInit
  /\ Ids = Table!Ids /\ Server!Packet = Table!Packet
BY DEF Server!ServerInit, Table!ServerInit, Ids, Server!Ids, Table!Ids,
   Server!Packet, Table!Packet, Server!SlotItems, Table!SlotItems,
   Server!PeerData, Table!PeerData

LEMMA SameBegin == ASSUME NEW dt \in 0 .. 1, Server!BeginTick(dt) PROVE Table!BeginTick(dt)
BY DEF Server!BeginTick, Table!BeginTick, Server!Advance, Table!Advance, Server!Ids,
   Table!Ids, Server!players, Table!players

LEMMA SameReports ==
  ASSUME NEW i \in Ids
  PROVE  /\ \A p : Server!EpnetJoin(p, i) => Table!EpnetJoin(p, i)
         /\ Server!EpnetLeave(i) => Table!EpnetLeave(i)
         /\ \A kind : Server!EpnetPacket(i, kind) => Table!EpnetPacket(i, kind)
BY DEF Server!EpnetJoin, Server!EpnetLeave, Server!EpnetPacket, Server!Report,
   Server!clock, Server!players, Table!EpnetJoin, Table!EpnetLeave,
   Table!EpnetPacket, Table!Report, Table!clock, Table!players

LEMMA SameHandle == Server!Handle => Table!Handle
BY DEF Server!Handle, Server!ProcessJoin, Server!ProcessLeave,
   Server!ProcessConnectionRequest, Server!ProcessUserSync,
   Server!ProcessActorSync, Server!ProcessShoot, Server!Poll, Server!AfterLeave,
   Server!Accepted, Server!Send, Server!ShotGoesTo, Server!Ids, Server!clock,
   Server!players,
   Table!Handle, Table!ProcessJoin, Table!ProcessLeave,
   Table!ProcessConnectionRequest, Table!ProcessUserSync,
   Table!ProcessActorSync, Table!ProcessShoot, Table!Poll, Table!AfterLeave,
   Table!Accepted, Table!Send, Table!ShotGoesTo, Table!Ids, Table!clock,
   Table!players

LEMMA SameRelay == Server!Relay => Table!Relay
BY DEF Server!Relay, Server!SendUsersSync, Server!SkipUsersSync,
   Server!SendActorsSync, Server!SkipActorsSync, Server!IsDue, Server!Elapsed,
   Server!SendSync, Server!ListedFor, Server!Ids, Server!clock, Server!players,
   Table!Relay, Table!SendUsersSync, Table!SkipUsersSync,
   Table!SendActorsSync, Table!SkipActorsSync, Table!IsDue, Table!Elapsed,
   Table!SendSync, Table!ListedFor, Table!Ids, Table!clock, Table!players

LEMMA SameEnds ==
  /\ Server!EndUpdate => Table!EndUpdate
  /\ Server!EndPoll => Table!EndPoll
  /\ UNCHANGED serverVars => UNCHANGED Table!vars
BY DEF Server!EndUpdate, Server!EndPoll, Server!clock, Server!players,
   Table!EndUpdate, Table!EndPoll, Table!clock, Table!players, Table!vars, serverVars

(* And about the same clients. *)
LEMMA SameClients ==
  /\ Client!ClientInit => Ends!ClientInit
  /\ UNCHANGED clientVars => UNCHANGED Ends!vars
BY DEF Client!ClientInit, Ends!ClientInit, clientVars, Ends!vars, Ends!clocks,
   Ends!ghosts

LEMMA SameCalls ==
  ASSUME NEW c \in Clients
  PROVE  /\ Client!ConnectionRequest(c) => Ends!ConnectionRequest(c)
         /\ Client!Disconnect(c) => Ends!Disconnect(c)
         /\ Client!SendShoot(c) => Ends!SendShoot(c)
BY DEF Client!ConnectionRequest, Client!Disconnect, Client!SendShoot,
   Client!MayConnect, Client!OnWire, Client!Transmit, Client!NoCalls, Client!clocks,
   Client!ghosts, Ends!ConnectionRequest, Ends!Disconnect, Ends!SendShoot,
   Ends!MayConnect, Ends!OnWire, Ends!Transmit, Ends!NoCalls, Ends!clocks, Ends!ghosts

LEMMA SameEpnet ==
  ASSUME NEW c \in Clients
  PROVE  /\ Client!EpnetOpen(c) => Ends!EpnetOpen(c)
         /\ Client!EpnetClose(c) => Ends!EpnetClose(c)
         /\ Client!EpnetTake(c) => Ends!EpnetTake(c)
         /\ \A p : Client!EpnetReceive(c, p) => Ends!EpnetReceive(c, p)
BY DEF Client!EpnetOpen, Client!EpnetClose, Client!EpnetTake, Client!EpnetReceive,
   Client!Connected, Client!Disconnected, Client!PacketEvent, Client!clocks,
   Client!ghosts, Ends!EpnetOpen, Ends!EpnetClose, Ends!EpnetTake,
   Ends!EpnetReceive, Ends!Connected, Ends!Disconnected, Ends!PacketEvent,
   Ends!clocks, Ends!ghosts

LEMMA SameTicks == ASSUME NEW c \in Clients, Client!ClientTick(c) PROVE Ends!ClientTick(c)
BY DEF Client!ClientTick, Client!TickIdle, Client!ConnectingIdle,
   Client!ConnectingConnecting, Client!ConnectingConnected,
   Client!ConnectingTopLevel, Client!ConnectingJustConnected,
   Client!TickConnected, Client!TickConnecting, Client!Tick, Client!Times,
   Client!Advance, Client!NoCalls, Client!Stops, Client!First, Client!RestAfter,
   Client!AfterOpening, Client!AfterAsking, Client!TransmitRequest,
   Client!Transmit, Client!OnWire, Client!IsResponse, Client!Connected,
   Client!Disconnected, Client!Due, Client!Elapsed, Client!RateOf, Client!Sift,
   Client!Range,
   Ends!ClientTick, Ends!TickIdle, Ends!ConnectingIdle,
   Ends!ConnectingConnecting, Ends!ConnectingConnected,
   Ends!ConnectingTopLevel, Ends!ConnectingJustConnected,
   Ends!TickConnected, Ends!TickConnecting, Ends!Tick, Ends!Times,
   Ends!Advance, Ends!NoCalls, Ends!Stops, Ends!First, Ends!RestAfter,
   Ends!AfterOpening, Ends!AfterAsking, Ends!TransmitRequest,
   Ends!Transmit, Ends!OnWire, Ends!IsResponse, Ends!Connected,
   Ends!Disconnected, Ends!Due, Ends!Elapsed, Ends!RateOf, Ends!Sift,
   Ends!Range

-----------------------------------------------------------------------------
(* The steps, by what they do to the two sides. *)

Message == Server!Packet \cup {Opened, Closed}

(* Now(c) is the present session of c, as a peer of the server. *)
Now(c) == <<c, session[c]>>

ServerAlone ==
  /\ Table!SteadyNext /\ UNCHANGED clientVars
  /\ down' = down \/ down' = [c \in Clients |-> down[c] \o Flushed(c)]

OwnStep(c) ==
  /\ Ends!Own(c) /\ UNCHANGED serverVars
  /\ down' = IF session'[c] = session[c] THEN down ELSE [down EXCEPT ![c] = <<>>]

(* Session n of c is let in, or turned away. *)
Entering(c, n) ==
  /\ Ends!EpnetTake(c)
  /\ Head(out[c]).kind = "OPEN" /\ Head(out[c]).session = n

OpenStep(c, n) ==
  /\ Entering(c, n)
  /\ (\E i \in Ids : Table!EpnetJoin(<<c, n>>, i)) \/ UNCHANGED serverVars
  /\ \/ down' = down
     \/ /\ n = session[c]
        /\ \E body \in {Opened, Closed} : down' = [down EXCEPT ![c] = Append(@, body)]

HandshakeKinds == {"CONNECTION_REQUEST", "CONNECTION_RESPONSE"}
LostTypeOK == lost \in [Clients -> SUBSET HandshakeKinds]

(* The network has lost the request of the present session of c.             *)
RequestLost(c) == "CONNECTION_REQUEST" \in lost[c]

CarryStep(c) ==
  /\ Ends!EpnetTake(c)
  /\ Head(out[c]).kind # "OPEN"
  /\ down' = down
  /\ \/ HeldBy(c, Head(out[c]).session) = {} /\ UNCHANGED serverVars
     \/ /\ Table!SteadyNext
        /\ Head(out[c]).kind = "CONNECTION_REQUEST" =>
             \E i \in HeldBy(c, Head(out[c]).session) :
                Table!EpnetPacket(i, "CONNECTION_REQUEST")
     \/ /\ UNCHANGED serverVars
        /\ Head(out[c]).session = session[c] /\ Head(out[c]).kind = "CONNECTION_REQUEST"
             => RequestLost(c)'

ArriveStep(c) ==
  /\ UNCHANGED serverVars
  /\ down[c] # <<>>
  /\ down' = [down EXCEPT ![c] = Tail(@)]
  /\ \/ UNCHANGED clientVars
     \/ Ends!EpnetOpen(c) \/ Ends!EpnetClose(c)
     \/ Head(down[c]) \in Server!Packet /\ Ends!EpnetReceive(c, Head(down[c]))

LEMMA LeastFree == Free # {} => Min(Free) \in Free
<1>1. Free \subseteq Nat
  BY DEF Free, Ids, Server!Ids
<1>2. Free # {} => \E m \in Free : \A n \in Free : m <= n
  BY <1>1, SmallestIn
<1> QED
  BY <1>2 DEF Min

LEMMA Reports ==
  ASSUME NEW i \in Ids
  PROVE  /\ Server!EpnetLeave(i) => Table!SteadyNext
         /\ \A kind \in {"CONNECTION_REQUEST", "USER_SYNC", "ACTOR_SYNC", "SHOOT"} :
              Server!EpnetPacket(i, kind) =>
                Table!SteadyNext /\ Table!EpnetPacket(i, kind)
<1>1. i \in Table!Ids
  BY SameServer
<1>2. Server!EpnetLeave(i) => Table!EpnetLeave(i)
  BY SameReports
<1>3. \A kind : Server!EpnetPacket(i, kind) => Table!EpnetPacket(i, kind)
  BY SameReports
<1>4. {"CONNECTION_REQUEST", "USER_SYNC", "ACTOR_SYNC", "SHOOT"} \subseteq Table!EventKinds
  BY DEF Table!EventKinds
<1> QED
  BY <1>1, <1>2, <1>3, <1>4 DEF Table!SteadyNext

LEMMA StepKinds ==
  ASSUME SessionNext, session \in [Clients -> Nat], down \in [Clients -> Seq(Message)],
         LostTypeOK
  PROVE  \/ ServerAlone
         \/ \E c \in Clients :
              \/ OwnStep(c) \/ CarryStep(c) \/ ArriveStep(c)
              \/ \E n : OpenStep(c, n)
<1>1. CASE ServerBeginsTick
  <2>1. PICK dt \in 0 .. 1 : Server!BeginTick(dt)
    BY <1>1 DEF ServerBeginsTick
  <2>2. Table!BeginTick(dt) /\ dt \in Table!Times
    BY <2>1, SameBegin DEF Table!Times
  <2>3. Table!SteadyNext
    BY <2>2 DEF Table!SteadyNext
  <2> QED
    BY <1>1, <2>3 DEF ServerBeginsTick, ServerAlone
<1>2. CASE ServerWorks
  <2>1. Table!SteadyNext
    BY <1>2, SameHandle, SameRelay, SameEnds DEF ServerWorks, Table!SteadyNext
  <2> QED
    BY <1>2, <2>1 DEF ServerWorks, ServerAlone
<1>3. CASE ServerTimesOut
  BY <1>3, Reports DEF ServerTimesOut, ServerAlone
<1>4. ASSUME NEW c \in Clients, Play(c) \/ ClientTicks(c) \/ ClientTimesOut(c)
      PROVE  OwnStep(c)
  <2>1. CASE ClientConnects(c)
    <3>1. Ends!ConnectionRequest(c) /\ session'[c] = session[c] + 1 /\ session[c] \in Nat
      BY <2>1, SameCalls DEF ClientConnects, Client!ConnectionRequest
    <3>2. session'[c] # session[c]
      BY <3>1
    <3> QED
      BY <2>1, <3>1, <3>2 DEF ClientConnects, OwnStep, Ends!Own, Ends!ClientCall
  <2>2. CASE ClientDisconnects(c) \/ ClientShoots(c)
    <3>1. session' = session
      BY <2>2 DEF ClientDisconnects, ClientShoots, Client!Disconnect, Client!SendShoot,
         Client!ghosts
    <3> QED
      BY <2>2, <3>1, SameCalls
         DEF ClientDisconnects, ClientShoots, OwnStep, Ends!Own, Ends!ClientCall
  <2>3. CASE ClientTicks(c)
    <3>1. session' = session
      BY <2>3 DEF ClientTicks, Client!ClientTick, Client!TickIdle, Client!ConnectingIdle,
         Client!ConnectingConnecting, Client!ConnectingConnected,
         Client!ConnectingTopLevel, Client!ConnectingJustConnected,
         Client!TickConnected, Client!TickConnecting, Client!Tick
    <3> QED
      BY <2>3, <3>1, SameTicks DEF ClientTicks, OwnStep, Ends!Own
  <2>4. CASE ClientTimesOut(c)
    <3>1. session' = session
      BY <2>4 DEF ClientTimesOut, Client!EpnetClose, Client!ghosts
    <3> QED
      BY <2>4, <3>1, SameEpnet DEF ClientTimesOut, OwnStep, Ends!Own
  <2> QED
    BY <1>4, <2>1, <2>2, <2>3, <2>4 DEF Play
<1>5. ASSUME NEW c \in Clients, UplinkOpen(c) PROVE \E n : OpenStep(c, n)
  <2> DEFINE n == Head(out[c]).session
  <2>1. Entering(c, n)
    BY <1>5, SameEpnet DEF UplinkOpen, Take, Entering
  <2>2. (\E i \in Ids : Table!EpnetJoin(<<c, n>>, i)) \/ UNCHANGED serverVars
    <3>1. CASE Free # {} /\ Server!EpnetJoin(<<c, n>>, Min(Free))
      <4>1. Min(Free) \in Ids
        BY <3>1, LeastFree DEF Free
      <4> QED
        BY <3>1, <4>1, SameReports
    <3> QED
      BY <1>5, <3>1 DEF UplinkOpen
  <2>3. Tell(c, n, Opened) \/ Tell(c, n, Closed)
    BY <1>5 DEF UplinkOpen
  <2> HIDE DEF n
  <2>4. OpenStep(c, n)
    BY <2>1, <2>2, <2>3 DEF OpenStep, Tell
  <2> QED
    BY <2>4
<1>6. ASSUME NEW c \in Clients,
             UplinkClose(c) \/ UplinkPacket(c) \/ UplinkDrop(c) \/ UplinkLost(c)
      PROVE  CarryStep(c)
  <2>1. /\ Ends!EpnetTake(c) /\ down' = down
        /\ Head(out[c]).kind # "OPEN"
    BY <1>6, SameEpnet DEF UplinkClose, UplinkPacket, UplinkDrop, UplinkLost, Take, GamePackets
  <2>2. CASE UplinkClose(c)
    BY <2>1, <2>2, Reports DEF UplinkClose, Take, CarryStep, HeldBy
  <2>3. CASE UplinkPacket(c)
    <3>1. PICK i \in HeldBy(c, Head(out[c]).session) :
            Server!EpnetPacket(i, Head(out[c]).kind)
      BY <2>3 DEF UplinkPacket
    <3>2. Table!SteadyNext /\ Table!EpnetPacket(i, Head(out[c]).kind)
      BY <2>3, <3>1, Reports DEF UplinkPacket, Take, HeldBy, GamePackets
    <3> QED
      BY <2>1, <3>1, <3>2 DEF CarryStep
  <2>4. CASE UplinkDrop(c)
    BY <2>1, <2>4 DEF UplinkDrop, CarryStep
  <2>5. CASE UplinkLost(c)
    <3>1. Head(out[c]).session = session[c] /\ Head(out[c]).kind = "CONNECTION_REQUEST"
            => RequestLost(c)'
      BY <2>5 DEF UplinkLost, Lose, LostTypeOK, RequestLost
    <3> QED
      BY <2>1, <2>5, <3>1 DEF UplinkLost, CarryStep
  <2> QED
    BY <1>6, <2>2, <2>3, <2>4, <2>5
<1>7. ASSUME NEW c \in Clients, Downlink(c) PROVE ArriveStep(c)
  <2>1. /\ UNCHANGED serverVars /\ down[c] # <<>>
        /\ down' = [down EXCEPT ![c] = Tail(@)]
    BY <1>7 DEF Downlink, DownlinkArrives, DownlinkOpened, DownlinkClosed, DownlinkPacket,
       DownlinkDrop, DownlinkLost, Arrives
  <2>2. Head(down[c]) \in Message
    BY <2>1
  <2>3. \/ UNCHANGED clientVars
        \/ Ends!EpnetOpen(c) \/ Ends!EpnetClose(c)
        \/ Head(down[c]) \in Server!Packet /\ Ends!EpnetReceive(c, Head(down[c]))
    BY <1>7, <2>2, SameEpnet DEF Downlink, DownlinkArrives, DownlinkOpened,
       DownlinkClosed, DownlinkPacket, DownlinkDrop, DownlinkLost, Message
  <2> QED
    BY <2>1, <2>3 DEF ArriveStep
<1> QED
  BY <1>1, <1>2, <1>3, <1>4, <1>5, <1>6, <1>7
     DEF SessionNext, ServerNext, ClientNext, During, Uplink, UplinkArrives

(* A loss is remembered as long as the session lasts.                        *)
LEMMA LostStays ==
  ASSUME LostTypeOK, [SessionNext]_vars, session \in [Clients -> Nat]
  PROVE  /\ LostTypeOK'
         /\ \A c \in Clients : session'[c] = session[c] /\ RequestLost(c) => RequestLost(c)'
<1>1. CASE lost' = lost
  BY <1>1 DEF LostTypeOK, RequestLost
<1>2. ASSUME NEW c \in Clients, NEW kind \in HandshakeKinds, Lose(c, kind)
      PROVE  LostTypeOK' /\ \A d \in Clients : RequestLost(d) => RequestLost(d)'
  BY <1>2 DEF Lose, LostTypeOK, RequestLost
<1>3. ASSUME NEW c \in Clients, ClientConnects(c)
      PROVE  /\ LostTypeOK'
             /\ \A d \in Clients :
                  session'[d] = session[d] /\ RequestLost(d) => RequestLost(d)'
  <2>1. lost' = [lost EXCEPT ![c] = {}] /\ session'[c] = session[c] + 1 /\ session[c] \in Nat
    BY <1>3 DEF ClientConnects, Client!ConnectionRequest
  <2>2. session'[c] # session[c]
    BY <2>1
  <2> QED
    BY <2>1, <2>2 DEF LostTypeOK, RequestLost
<1>4. CASE ServerNext
  BY <1>1, <1>4 DEF ServerNext, ServerBeginsTick, ServerWorks, ServerTimesOut
<1>5. ASSUME NEW c \in Clients, ClientNext(c)
      PROVE  \/ lost' = lost \/ ClientConnects(c)
             \/ \E kind \in HandshakeKinds : Lose(c, kind)
  <2>1. CASE Play(c) \/ ClientTicks(c) \/ ClientTimesOut(c)
    BY <2>1 DEF Play, ClientDisconnects, ClientShoots, ClientTicks, ClientTimesOut
  <2>2. CASE Uplink(c)
    BY <2>2 DEF Uplink, UplinkArrives, UplinkOpen, UplinkClose, UplinkPacket, UplinkDrop,
       UplinkLost, HandshakeKinds
  <2>3. CASE Downlink(c)
    BY <2>3 DEF Downlink, DownlinkArrives, DownlinkOpened, DownlinkClosed, DownlinkPacket,
       DownlinkDrop, DownlinkLost, HandshakeKinds
  <2> QED
    BY <1>5, <2>1, <2>2, <2>3 DEF ClientNext, During
<1>6. CASE UNCHANGED vars
  BY <1>1, <1>6 DEF vars
<1> QED
  BY <1>1, <1>2, <1>3, <1>4, <1>5, <1>6 DEF SessionNext

-----------------------------------------------------------------------------
(* What a step does to each side. *)

Base ==
  /\ Table!TableOrder
  /\ Ends!ClientOrder
  /\ down \in [Clients -> Seq(Message)]
  /\ LostTypeOK

LEMMA BaseTypes ==
  ASSUME Base
  PROVE  /\ Table!ServerTypeOK /\ Ends!ClientTypeOK
         /\ session \in [Clients -> 0 .. MaxSessions]
         /\ session \in [Clients -> Nat]
<1>1. Table!ServerTypeOK /\ Ends!ClientTypeOK
  BY DEF Base, Table!TableOrder, Table!SlotInv, Ends!ClientOrder
<1>2. session \in [Clients -> 0 .. MaxSessions]
  BY <1>1 DEF Ends!ClientTypeOK, Ends!Sessions
<1> QED
  BY <1>1, <1>2, Bounds

(* Who holds a slot has begun a session. *)
LEMMA HolderIsPeer ==
  ASSUME Base, NEW c \in Clients, NEW i \in Ids, occupant[i] = Now(c)
  PROVE  session[c] \in 1 .. MaxSessions /\ Now(c) \in Peers
<1>1. occupant[i] \in Table!PeerData
  BY BaseTypes, SameServer DEF Table!ServerTypeOK
<1>2. session[c] \in Nat /\ Now(c) \in Clients \X Nat
  BY BaseTypes DEF Now
<1>3. Now(c) \in Peers
  BY <1>1, <1>2, SessionAssumption DEF Table!PeerData, Peers
<1> QED
  BY <1>3 DEF Now, Peers

(* A step moves one client at most. *)
MovesOf(c) ==
  \/ OwnStep(c) \/ CarryStep(c) \/ \E n : OpenStep(c, n)
  \/ /\ ArriveStep(c)
     /\ \/ Ends!EpnetOpen(c) \/ Ends!EpnetClose(c)
        \/ Head(down[c]) \in Server!Packet /\ Ends!EpnetReceive(c, Head(down[c]))

LEMMA MovesAreSteps == ASSUME NEW c \in Clients, MovesOf(c) PROVE Ends!StepOf(c)
BY DEF MovesOf, OwnStep, CarryStep, OpenStep, Entering, Ends!Own, Ends!StepOf,
   Ends!EpnetStep

LEMMA ClientMoves ==
  ASSUME Base, SessionNext
  PROVE  /\ Ends!ClientOrder'
         /\ \A c \in Clients : Ends!Unmoved(c) \/ MovesOf(c)
<1>1. \/ ServerAlone
      \/ \E c \in Clients :
           \/ OwnStep(c) \/ CarryStep(c) \/ ArriveStep(c)
           \/ \E n : OpenStep(c, n)
  BY BaseTypes, StepKinds DEF Base
<1>2. Ends!ClientOrder /\ Ends!ClientTypeOK
  BY BaseTypes DEF Base
<1>3. UNCHANGED clientVars => Ends!ClientOrder' /\ \A c \in Clients : Ends!Unmoved(c)
  BY <1>2, Bounds, SameClients, Ends!OrderStands
<1>4. ASSUME NEW c \in Clients, MovesOf(c)
      PROVE  Ends!ClientOrder' /\ \A d \in Clients \ {c} : Ends!Unmoved(d)
  <2>1. Ends!StepOf(c)
    BY <1>4, MovesAreSteps
  <2> QED
    BY <1>2, <2>1, Bounds, Ends!OrderStep, Ends!OthersUnmoved
<1>5. CASE UNCHANGED clientVars
  BY <1>3, <1>5
<1>6. CASE ~UNCHANGED clientVars
  <2>1. PICK c \in Clients : MovesOf(c)
    BY <1>1, <1>6 DEF ServerAlone, ArriveStep, MovesOf
  <2> QED
    BY <1>4, <2>1
<1> QED
  BY <1>5, <1>6

(* A session and its link. *)
LEMMA SessionMoves ==
  ASSUME Base, SessionNext, NEW c \in Clients
  PROVE  /\ \/ session'[c] = session[c]
            \/ session'[c] = session[c] + 1 /\ link'[c] = "opening"
         /\ \A n \in Nat : Ends!Opening(c, n)' =>
              Ends!Opening(c, n) \/ (n = session[c] + 1 /\ session'[c] = session[c] + 1)
         /\ link'[c] = "open" => link[c] = "open" \/ down[c] # <<>>
<1>1. Ends!ClientTypeOK /\ Ends!Orderly(c) /\ Ends!Numbered(c)
  BY BaseTypes DEF Base, Ends!ClientOrder, Ends!Orderly
<1>2. CASE Ends!Unmoved(c)
  <2>1. \A n : Ends!Opening(c, n)' <=> Ends!Opening(c, n)
    BY <1>2, Bounds, Ends!UnmovedKeeps
  <2> QED
    BY <1>2, <2>1 DEF Ends!Unmoved
<1>3. CASE MovesOf(c)
  <2>1. Ends!StepOf(c)
    BY <1>3, MovesAreSteps
  <2>2. \/ session'[c] = session[c]
        \/ session'[c] = session[c] + 1 /\ link'[c] = "opening"
    BY <1>1, <2>1, Bounds, Ends!SessionBegins
  <2>3. \A n \in Nat : Ends!Opening(c, n)' =>
          Ends!Opening(c, n) \/ (n = session[c] + 1 /\ session'[c] = session[c] + 1)
    BY <1>1, <2>1, Bounds, Ends!NumberedStep
  <2>4. link'[c] = "open" => link[c] = "open" \/ down[c] # <<>>
    <3>1. Ends!Own(c) \/ Ends!EpnetTake(c) => (link'[c] = "open" => link[c] = "open")
      BY <1>1, Bounds, Ends!LinkOpens
    <3> QED
      BY <1>3, <3>1 DEF MovesOf, OwnStep, CarryStep, OpenStep, Entering, ArriveStep
  <2> QED
    BY <2>2, <2>3, <2>4
<1> QED
  BY <1>2, <1>3, ClientMoves

(* What a client holds came down its link, and a request that a client sent  *)
(* is taken to the slot that the client holds.                               *)
LEMMA HeldMoves ==
  ASSUME Base, SessionNext, NEW c \in Clients, NEW q, Ends!Held(c, q)'
  PROVE  session'[c] = session[c] /\ (Ends!Held(c, q) \/ q \in Range(down[c]))
<1>1. Ends!ClientTypeOK
  BY BaseTypes
<1>2. CASE Ends!Unmoved(c)
  BY <1>2, Bounds, Ends!UnmovedKeeps DEF Ends!Unmoved
<1>3. CASE MovesOf(c)
  <2>1. Ends!StepOf(c)
    BY <1>3, MovesAreSteps
  <2>2. /\ session'[c] = session[c]
        /\ Ends!Own(c) \/ Ends!EpnetTake(c) \/ Ends!EpnetOpen(c) => Ends!Held(c, q)
        /\ \A p \in Server!Packet :
             Ends!EpnetReceive(c, p) => Ends!Held(c, q) \/ q = p
    BY <1>1, <2>1, Bounds, Ends!HeldStep
  <2>3. CASE Head(down[c]) \in Server!Packet /\ Ends!EpnetReceive(c, Head(down[c]))
             /\ ArriveStep(c)
    <3>1. Head(down[c]) \in Range(down[c])
      <4>1. down[c] \in Seq(Message) /\ down[c] # <<>>
        BY <2>3 DEF ArriveStep, Base
      <4>2. Head(down[c]) = down[c][1] /\ 1 \in DOMAIN down[c]
        BY <4>1
      <4> QED
        BY <4>2 DEF Range
    <3> QED
      BY <2>2, <2>3, <3>1
  <2>4. Ends!EpnetClose(c) => Ends!Own(c)
    BY DEF Ends!Own
  <2> QED
    BY <1>3, <2>2, <2>3, <2>4 DEF MovesOf, OwnStep, CarryStep, OpenStep, Entering
<1> QED
  BY <1>2, <1>3, ClientMoves

LEMMA AskingMoves ==
  ASSUME Base, SessionNext, NEW c \in Clients, NEW i \in Ids,
         NEW p \in Peers, p = Now(c), Ends!HasAsked(c)', occupant[i] = p,
         \A j \in Ids : occupant[j] = p => j = i
  PROVE  /\ session'[c] = session[c]
         /\ \/ Ends!Requesting(c)' \/ Table!Requested(i, p)' \/ RequestLost(c)'
            \/ Ends!HasAsked(c) /\ ~Ends!Requesting(c)
<1>1. /\ Ends!ClientTypeOK /\ Ends!Handshake(c) /\ Ends!AsksWhenOpen(c)
      /\ Table!ServerTypeOK
  BY BaseTypes DEF Base, Ends!ClientOrder, Ends!Orderly
<1>2. CASE Ends!Unmoved(c)
  BY <1>2, Bounds, Ends!UnmovedKeeps DEF Ends!Unmoved
<1>3. CASE MovesOf(c)
  <2>1. Ends!StepOf(c)
    BY <1>3, MovesAreSteps
  <2>2. session'[c] = session[c] /\ (Ends!HasAsked(c) \/ Ends!Requesting(c)')
    BY <1>1, <2>1, Bounds, Ends!HasAskedStep
  <2> SUFFICES ASSUME Ends!Requesting(c), ~Ends!Requesting(c)'
               PROVE  Table!Requested(i, p)' \/ RequestLost(c)'
    BY <2>2
  <2>3. /\ Ends!EpnetTake(c) /\ ~Ends!Own(c) /\ ~Ends!Receives(c)
        /\ Head(out[c]).session = session[c]
        /\ Head(out[c]).kind = "CONNECTION_REQUEST"
    BY <1>1, <2>1, <2>2, Bounds, Ends!RequestingStep
  <2>4. CarryStep(c)
    BY <1>3, <2>3 DEF MovesOf, OwnStep, OpenStep, Entering, Ends!Own, Ends!Receives
  <2>5. i \in HeldBy(c, Head(out[c]).session)
        /\ \A j \in HeldBy(c, Head(out[c]).session) : j = i
    BY <2>3 DEF HeldBy, Now
  <2>6. Table!EpnetPacket(i, "CONNECTION_REQUEST") \/ RequestLost(c)'
    BY <2>3, <2>4, <2>5 DEF CarryStep
  <2>7. i \in Table!Ids
    BY SameServer
  <2> QED
    BY <1>1, <2>6, <2>7, Bounds, Table!RequestQueued DEF Peers
<1> QED
  BY <1>2, <1>3, ClientMoves

-----------------------------------------------------------------------------
(* The downlink. *)

LEMMA FlushedPackets ==
  ASSUME Base, NEW c \in Clients
  PROVE  /\ Flushed(c) \in Seq(Message)
         /\ SlotsOf(c) = {} => Flushed(c) = <<>>
         /\ \A q \in Range(Flushed(c)) :
              \E i \in SlotsOf(c) : \E k \in 1 .. Len(sent[i]) : q = sent[i][k]
<1>1. CASE SlotsOf(c) = {}
  <2>1. Flushed(c) = <<>> /\ <<>> \in Seq(Message) /\ Range(<<>>) = {}
    BY <1>1 DEF Flushed, Range
  <2> QED
    BY <2>1
<1>2. CASE SlotsOf(c) # {}
  <2> DEFINE i == CHOOSE i \in SlotsOf(c) : TRUE
             S == {p \in Range(sent[i]) : Kept(c, p)}
  <2>1. i \in SlotsOf(c)
    BY <1>2
  <2>2. Flushed(c) = Sift(sent[i], S)
    BY <1>2 DEF Flushed
  <2> HIDE DEF i
  <2>3. sent[i] \in Seq(Message)
    <3>1. i \in Table!Ids
      BY <2>1, SameServer DEF SlotsOf
    <3>2. sent[i] \in Seq(Server!Packet)
      BY <3>1, BaseTypes, SameServer DEF Table!ServerTypeOK
    <3> QED
      BY <3>2 DEF Message
  <2> HIDE DEF S
  <2>4. Flushed(c) \in Seq(Message \cap S)
    BY <2>2, <2>3, SiftProperties
  <2>5. Flushed(c) \in Seq(Message)
    BY <2>4
  <2>6. ASSUME NEW q \in Range(Flushed(c)) PROVE \E k \in 1 .. Len(sent[i]) : q = sent[i][k]
    <3>1. q \in S
      BY <2>4, <2>6 DEF Range
    <3> QED
      BY <2>3, <3>1 DEF S, Range
  <2> QED
    BY <1>2, <2>1, <2>5, <2>6
<1> QED
  BY <1>1, <1>2

(* The packets of a slot reach the client that holds it. *)
FlushedTo(c, q) ==
  /\ Table!SteadyNext /\ UNCHANGED clientVars
  /\ \E i \in SlotsOf(c) : \E k \in 1 .. Len(sent[i]) : q = sent[i][k]

LEMMA InTheRange ==
  ASSUME NEW S, NEW first \in Seq(S), NEW second \in Seq(S)
  PROVE  /\ first \o second \in Seq(S)
         /\ Range(first \o second) \subseteq Range(first) \cup Range(second)
         /\ second = <<>> => first \o second = first
<1> DEFINE both == first \o second
<1>1. Follows(both, first, second) /\ both \in Seq(S)
  BY Concatenated
<1>2. second = <<>> => both = first
  OBVIOUS
<1> HIDE DEF both
<1>3. /\ DOMAIN both = 1 .. Len(first) + Len(second)
      /\ DOMAIN first = 1 .. Len(first) /\ DOMAIN second = 1 .. Len(second)
      /\ Len(first) \in Nat /\ Len(second) \in Nat
  BY <1>1 DEF Follows
<1>4. ASSUME NEW k \in 1 .. Len(first) + Len(second)
      PROVE  both[k] \in Range(first) \cup Range(second)
  <2>1. CASE k \in 1 .. Len(first)
    BY <1>1, <1>3, <2>1 DEF Follows, Range
  <2>2. CASE k \notin 1 .. Len(first)
    <3>1. k - Len(first) \in 1 .. Len(second) /\ Len(first) + (k - Len(first)) = k
      BY <1>3, <2>2
    <3>2. both[k] = second[k - Len(first)]
      BY <1>1, <3>1 DEF Follows
    <3> QED
      BY <1>3, <3>1, <3>2 DEF Range
  <2> QED
    BY <2>1, <2>2
<1>5. Range(both) \subseteq Range(first) \cup Range(second)
  BY <1>3, <1>4 DEF Range
<1> QED
  BY <1>1, <1>2, <1>5 DEF both

LEMMA DownMoves ==
  ASSUME Base, SessionNext
  PROVE  /\ down' \in [Clients -> Seq(Message)]
         /\ \A c \in Clients :
              /\ session'[c] # session[c] => down'[c] = <<>>
              /\ down[c] = <<>> =>
                   \/ down'[c] = <<>> \/ SlotsOf(c) # {}
                   \/ \E n : n = session[c] /\ Entering(c, n)
              /\ \A q \in Range(down'[c]) :
                   q \in Range(down[c]) \/ q \in {Opened, Closed} \/ FlushedTo(c, q)
<1> DEFINE Fine(c) ==
      /\ down'[c] \in Seq(Message)
      /\ session'[c] # session[c] => down'[c] = <<>>
      /\ down[c] = <<>> =>
           \/ down'[c] = <<>> \/ SlotsOf(c) # {}
           \/ \E n : n = session[c] /\ Entering(c, n)
      /\ \A q \in Range(down'[c]) :
           q \in Range(down[c]) \/ q \in {Opened, Closed} \/ FlushedTo(c, q)
<1>1. \/ ServerAlone
      \/ \E c \in Clients :
           \/ OwnStep(c) \/ CarryStep(c) \/ ArriveStep(c)
           \/ \E n : OpenStep(c, n)
  BY BaseTypes, StepKinds DEF Base
<1>2. Ends!ClientTypeOK /\ down \in [Clients -> Seq(Message)] /\ Range(<<>>) = {}
  BY BaseTypes DEF Base, Range
<1>3. ASSUME NEW c \in Clients, down'[c] = down[c], session'[c] = session[c]
      PROVE  Fine(c)
  BY <1>2, <1>3
<1>4. CASE ServerAlone
  <2>1. session' = session /\ Table!SteadyNext /\ UNCHANGED clientVars
    BY <1>4 DEF ServerAlone, clientVars
  <2>2. CASE down' = down
    <3>1. down' \in [Clients -> Seq(Message)] /\ \A c \in Clients : Fine(c)
      BY <1>2, <1>3, <2>1, <2>2
    <3> QED
      BY <3>1
  <2>3. CASE down' = [c \in Clients |-> down[c] \o Flushed(c)]
    <3>1. ASSUME NEW c \in Clients PROVE Fine(c)
      <4>1. down'[c] = down[c] \o Flushed(c) /\ down[c] \in Seq(Message)
        BY <1>2, <2>3
      <4>2. Flushed(c) \in Seq(Message) /\ (SlotsOf(c) = {} => Flushed(c) = <<>>)
        BY FlushedPackets
      <4>3. /\ down'[c] \in Seq(Message)
            /\ Range(down'[c]) \subseteq Range(down[c]) \cup Range(Flushed(c))
            /\ Flushed(c) = <<>> => down'[c] = down[c]
        BY <4>1, <4>2, InTheRange
      <4>4. \A q \in Range(Flushed(c)) : FlushedTo(c, q)
        BY <2>1, FlushedPackets DEF FlushedTo
      <4> QED
        BY <2>1, <4>2, <4>3, <4>4
    <3>2. down' \in [Clients -> Seq(Message)]
      BY <2>3, <3>1
    <3> QED
      BY <3>1, <3>2
  <2> QED
    BY <1>4, <2>2, <2>3 DEF ServerAlone
<1>5. ASSUME NEW c \in Clients,
             \/ OwnStep(c) \/ CarryStep(c) \/ ArriveStep(c)
             \/ \E n : OpenStep(c, n)
      PROVE  /\ down' = down \/ \E body : down' = [down EXCEPT ![c] = body]
             /\ Fine(c)
  <2>1. CASE OwnStep(c)
    <3>1. session'[c] = session[c] => down' = down
      BY <2>1 DEF OwnStep
    <3>2. session'[c] # session[c] => down' = [down EXCEPT ![c] = <<>>]
      BY <2>1 DEF OwnStep
    <3>3. <<>> \in Seq(Message)
      OBVIOUS
    <3> QED
      BY <1>2, <1>3, <3>1, <3>2, <3>3
  <2>2. CASE CarryStep(c)
    <3>1. session' = session /\ down' = down
      BY <1>2, <2>2, Bounds, Ends!Taken DEF CarryStep
    <3> QED
      BY <1>3, <3>1
  <2>3. CASE ArriveStep(c)
    <3>1. session' = session
      BY <2>3 DEF ArriveStep, clientVars, Ends!EpnetOpen, Ends!EpnetClose,
         Ends!EpnetReceive, Ends!ghosts
    <3>2. down[c] # <<>> /\ down' = [down EXCEPT ![c] = Tail(@)]
      BY <2>3 DEF ArriveStep
    <3>3. /\ Tail(down[c]) \in Seq(Message)
          /\ Len(Tail(down[c])) = Len(down[c]) - 1 /\ Len(down[c]) \in Nat
          /\ \A k \in 1 .. Len(Tail(down[c])) : Tail(down[c])[k] = down[c][k + 1]
      BY <1>2, <3>2, HeadTailProperties
    <3>4. Range(Tail(down[c])) \subseteq Range(down[c])
      <4> SUFFICES ASSUME NEW k \in 1 .. Len(Tail(down[c]))
                   PROVE  Tail(down[c])[k] \in Range(down[c])
        BY <3>3 DEF Range
      <4>1. k + 1 \in DOMAIN down[c]
        BY <1>2, <3>3
      <4> QED
        BY <3>3, <4>1 DEF Range
    <3> QED
      BY <1>2, <3>1, <3>2, <3>3, <3>4
  <2>4. ASSUME NEW n, OpenStep(c, n)
        PROVE  /\ down' = down \/ \E body : down' = [down EXCEPT ![c] = body]
               /\ Fine(c)
    <3>1. session' = session
      BY <1>2, <2>4, Bounds, Ends!Taken DEF OpenStep, Entering
    <3>2. CASE down' = down
      BY <1>3, <3>1, <3>2
    <3>3. ASSUME NEW body \in {Opened, Closed}, n = session[c],
                 down' = [down EXCEPT ![c] = Append(@, body)]
          PROVE  /\ \E new : down' = [down EXCEPT ![c] = new]
                 /\ Fine(c)
      <4>1. /\ down'[c] = Append(down[c], body)
            /\ \E new : down' = [down EXCEPT ![c] = new]
        BY <1>2, <3>3
      <4>2. body \in Message /\ down[c] \in Seq(Message)
        BY <1>2, <3>3 DEF Message
      <4>3. /\ Append(down[c], body) \in Seq(Message)
            /\ Range(Append(down[c], body)) = Range(down[c]) \cup {body}
        BY <4>2, AppendProperties DEF Range
      <4>4. \E m : m = session[c] /\ Entering(c, m)
        BY <2>4, <3>3 DEF OpenStep
      <4> QED
        BY <3>1, <3>3, <4>1, <4>3, <4>4
    <3> QED
      BY <2>4, <3>2, <3>3 DEF OpenStep
  <2> QED
    BY <1>5, <2>1, <2>2, <2>3, <2>4
<1>6. ASSUME NEW c \in Clients,
             \/ OwnStep(c) \/ CarryStep(c) \/ ArriveStep(c)
             \/ \E n : OpenStep(c, n)
      PROVE  down' \in [Clients -> Seq(Message)] /\ \A d \in Clients : Fine(d)
  <2>1. \A d \in Clients \ {c} : down'[d] = down[d]
    BY <1>2, <1>5, <1>6
  <2>2. \A d \in Clients \ {c} : session'[d] = session[d]
    <3>1. CASE UNCHANGED clientVars
      BY <3>1 DEF clientVars
    <3>2. CASE ~UNCHANGED clientVars
      <4>1. MovesOf(c)
        BY <1>6, <3>2 DEF MovesOf, ArriveStep
      <4>2. Ends!StepOf(c)
        BY <4>1, MovesAreSteps
      <4> QED
        BY <1>2, <4>2, Bounds, Ends!OthersUnmoved DEF Ends!Unmoved
    <3> QED
      BY <3>1, <3>2
  <2>3. \A d \in Clients : Fine(d)
    BY <1>3, <1>5, <1>6, <2>1, <2>2
  <2>4. down' = down \/ \E body : down' = [down EXCEPT ![c] = body]
    BY <1>5, <1>6
  <2>5. DOMAIN down' = Clients /\ down' = [d \in Clients |-> down'[d]]
    BY <1>2, <2>4
  <2>6. \A d \in Clients : down'[d] \in Seq(Message)
    BY <2>3
  <2> QED
    BY <2>3, <2>5, <2>6
<1> QED
  BY <1>1, <1>4, <1>6

-----------------------------------------------------------------------------
(* The invariant. *)

(* The server has met no session that has not begun, or whose opening it has *)
(* not taken yet, and it met each at one slot.                               *)
MetInTurn ==
  \A i \in Ids, c \in Clients, n \in 1 .. MaxSessions :
    Table!Seen(i, <<c, n>>) => n <= session[c] /\ ~Ends!Opening(c, n)

MetOnce ==
  \A i, j \in Ids, p \in Peers : Table!Seen(i, p) /\ Table!Seen(j, p) => i = j

(* While the server has not taken the opening of its session, a client holds *)
(* nothing of the server.                                                    *)
Outside(c) == \E n \in Nat : n = session[c] /\ (n = 0 \/ Ends!Opening(c, n))

OutsideIsQuiet ==
  \A c \in Clients : Outside(c) =>
    down[c] = <<>> /\ link[c] # "open" /\ \A q : ~Ends!Held(c, q)

(* No packet of actors that is under way to a client, or in its hands, is of *)
(* that client's present session or of the slot where the server met it.     *)
Carried(c, q) == q \in Range(down[c]) \/ Ends!Held(c, q)

Foreign(q, p) ==
  \A i \in Ids : i \in DOMAIN q.items => q.items[i] # p /\ ~Table!Seen(i, p)

CarriedIsForeign ==
  \A c \in Clients, q \in Server!Packet, p \in Peers :
    p = Now(c) /\ Carried(c, q) /\ q.type = "ACTORS_SYNC" => Foreign(q, p)

(* A client that has asked and holds a slot is a player, or its request is   *)
(* on its way or lost.                                                       *)
Heard(c, i, p) ==
  \/ Table!Player(i, p)
  \/ Ends!Requesting(c) \/ Table!Requested(i, p) \/ RequestLost(c)

AskersAreHeard ==
  \A c \in Clients, i \in Ids, p \in Peers :
    p = Now(c) /\ occupant[i] = p /\ Ends!HasAsked(c) => Heard(c, i, p)

SessionInv ==
  /\ Base /\ MetInTurn /\ MetOnce
  /\ OutsideIsQuiet /\ CarriedIsForeign /\ AskersAreHeard

LEMMA SessionInvInit == SessionInit => SessionInv
<1> SUFFICES ASSUME SessionInit PROVE SessionInv
  OBVIOUS
<1>1. Table!ServerInit /\ Ends!ClientInit /\ down = [c \in Clients |-> <<>>] /\ LostTypeOK
  BY SameServer, SameClients DEF SessionInit, LostTypeOK
<1>2. /\ Table!TableOrder
      /\ \A i \in Ids, p \in Peers : ~Table!Seen(i, p)
  BY <1>1, Bounds, SameServer, Table!TableInit DEF Peers
<1>3. Ends!ClientOrder
  BY <1>1, Bounds, Ends!OrderInit
<1>4. Base
  BY <1>1, <1>2, <1>3 DEF Base
<1>5. /\ \A c \in Clients : down[c] = <<>> /\ link[c] = "closed" /\ ~Ends!HasAsked(c)
      /\ \A c \in Clients : \A q : ~Ends!Held(c, q)
  <2>1. \A c \in Clients : \A q : ~Ends!Held(c, q)
    BY <1>1, Bounds, Ends!HeldInit
  <2> QED
    BY <1>1, <2>1 DEF Ends!ClientInit, Ends!HasAsked
<1>6. Range(<<>>) = {}
  BY DEF Range
<1>7. MetInTurn /\ MetOnce
  BY <1>2 DEF MetInTurn, MetOnce, Peers
<1>8. OutsideIsQuiet /\ CarriedIsForeign /\ AskersAreHeard
  BY <1>5, <1>6 DEF OutsideIsQuiet, CarriedIsForeign, AskersAreHeard, Carried
<1> QED
  BY <1>4, <1>7, <1>8 DEF SessionInv

LEMMA Enters ==
  ASSUME Base, NEW c \in Clients, NEW n, Entering(c, n)
  PROVE  /\ n \in 1 .. MaxSessions /\ n <= session[c]
         /\ Ends!Opening(c, n) /\ ~Ends!Opening(c, n)'
<1>1. /\ Ends!ClientTypeOK /\ Ends!Numbered(c) /\ ~Ends!Opening(c, 0)
      /\ session[c] \in 0 .. MaxSessions
  BY BaseTypes DEF Base, Ends!ClientOrder, Ends!Orderly
<1>2. /\ Ends!Opening(c, Head(out[c]).session)
      /\ \A m : m = Head(out[c]).session => ~Ends!Opening(c, m)'
      /\ Head(out[c]).session \in Nat /\ Head(out[c]).session <= session[c]
  BY <1>1, Bounds, Ends!OpeningTaken DEF Entering
<1>3. n = Head(out[c]).session
  BY DEF Entering
<1>4. n # 0
  BY <1>1, <1>2, <1>3
<1> QED
  BY <1>1, <1>2, <1>3, <1>4, Bounds

(* Where a slot and a session of a client meet. *)
Meets(i, c, n) == Entering(c, n) /\ Table!EpnetJoin(<<c, n>>, i)

LEMMA TableMoves ==
  ASSUME Base, MetInTurn, SessionNext
  PROVE  /\ Table!TableOrder'
         /\ \A i \in Ids, p \in Peers :
              /\ Table!Seen(i, p)' =>
                   \/ Table!Seen(i, p)
                   \/ \E c \in Clients : \E n : p = <<c, n>> /\ Meets(i, c, n)
              /\ occupant'[i] = p =>
                   \/ occupant[i] = p
                   \/ \E c \in Clients : \E n : p = <<c, n>> /\ Meets(i, c, n)
              /\ occupant[i] = p /\ Table!Player(i, p) => Table!Player(i, p)'
              /\ Table!Requested(i, p) =>
                   Table!Requested(i, p)' \/ Table!Player(i, p)'
<1>1. Table!TableOrder
  BY DEF Base
<1>2. CASE UNCHANGED serverVars
  <2>1. UNCHANGED Table!vars /\ occupant' = occupant
    BY <1>2, SameEnds DEF serverVars
  <2> QED
    BY <1>1, <2>1, Bounds, SameServer, Table!TableStands DEF Peers
<1>3. CASE Table!SteadyNext
  BY <1>1, <1>3, Bounds, SameServer, Table!TableStep DEF Peers
<1>4. ASSUME NEW c \in Clients, NEW n, NEW j \in Ids, Meets(j, c, n)
      PROVE  /\ Table!TableOrder'
             /\ \A i \in Ids, p \in Peers :
                  /\ Table!Seen(i, p)' => Table!Seen(i, p) \/ (i = j /\ p = <<c, n>>)
                  /\ occupant'[i] = p => occupant[i] = p \/ (i = j /\ p = <<c, n>>)
                  /\ occupant[i] = p /\ Table!Player(i, p) => Table!Player(i, p)'
                  /\ Table!Requested(i, p) =>
                       Table!Requested(i, p)' \/ Table!Player(i, p)'
  <2>1. n \in 1 .. MaxSessions /\ Ends!Opening(c, n)
    BY <1>4, Enters DEF Meets
  <2>2. /\ <<c, n>> \in Clients \X (1 .. MaxSessions)
        /\ ~Table!Seen(j, <<c, n>>) /\ j \in Table!Ids
        /\ Table!EpnetJoin(<<c, n>>, j)
    BY <1>4, <2>1, SameServer DEF MetInTurn, Meets
  <2> DEFINE q == <<c, n>>
  <2>3. /\ q \in Clients \X (1 .. MaxSessions) /\ ~Table!Seen(j, q) /\ j \in Table!Ids
        /\ Table!EpnetJoin(q, j)
    BY <2>2
  <2> HIDE DEF q
  <2>4. /\ Table!TableOrder'
        /\ \A i \in Ids, p \in Peers :
             /\ Table!Seen(i, p)' => Table!Seen(i, p) \/ (i = j /\ p = q)
             /\ occupant'[i] = p => occupant[i] = p \/ (i = j /\ p = q)
             /\ occupant[i] = p /\ Table!Player(i, p) => Table!Player(i, p)'
             /\ Table!Requested(i, p) =>
                  Table!Requested(i, p)' \/ Table!Player(i, p)'
    BY <1>1, <2>3, Bounds, SameServer, Table!TableJoin DEF Peers
  <2> QED
    BY <2>4 DEF q
<1>5. \/ UNCHANGED serverVars \/ Table!SteadyNext
      \/ \E c \in Clients : \E n : \E j \in Ids : Meets(j, c, n)
  <2>1. \/ ServerAlone
        \/ \E c \in Clients :
             \/ OwnStep(c) \/ CarryStep(c) \/ ArriveStep(c)
             \/ \E n : OpenStep(c, n)
    BY BaseTypes, StepKinds DEF Base
  <2>2. ASSUME NEW c \in Clients, NEW n, OpenStep(c, n)
        PROVE  UNCHANGED serverVars \/ \E j \in Ids : Meets(j, c, n)
    BY <2>2 DEF OpenStep, Meets
  <2>3. ASSUME NEW c \in Clients, OwnStep(c) \/ CarryStep(c) \/ ArriveStep(c)
        PROVE  UNCHANGED serverVars \/ Table!SteadyNext
    BY <2>3 DEF OwnStep, CarryStep, ArriveStep
  <2>4. ServerAlone => Table!SteadyNext
    BY DEF ServerAlone
  <2> QED
    BY <2>1, <2>2, <2>3, <2>4
<1>6. CASE \E c \in Clients : \E n : \E j \in Ids : Meets(j, c, n)
  <2>1. PICK c \in Clients : \E n : \E j \in Ids : Meets(j, c, n)
    BY <1>6
  <2>2. PICK n : \E j \in Ids : Meets(j, c, n)
    BY <2>1
  <2>3. PICK j \in Ids : Meets(j, c, n)
    BY <2>2
  <2>4. /\ Table!TableOrder'
        /\ \A i \in Ids, p \in Peers :
             /\ Table!Seen(i, p)' => Table!Seen(i, p) \/ (i = j /\ p = <<c, n>>)
             /\ occupant'[i] = p => occupant[i] = p \/ (i = j /\ p = <<c, n>>)
             /\ occupant[i] = p /\ Table!Player(i, p) => Table!Player(i, p)'
             /\ Table!Requested(i, p) =>
                  Table!Requested(i, p)' \/ Table!Player(i, p)'
    BY <1>4, <2>3
  <2> QED
    BY <2>3, <2>4
<1> QED
  BY <1>2, <1>3, <1>5, <1>6

LEMMA MetInTurnStep == ASSUME SessionInv, SessionNext PROVE MetInTurn'
<1> SUFFICES ASSUME NEW i \in Ids, NEW c \in Clients, NEW n \in 1 .. MaxSessions,
                    Table!Seen(i, <<c, n>>)'
             PROVE  n <= session'[c] /\ ~Ends!Opening(c, n)'
  BY DEF MetInTurn
<1>1. Base /\ MetInTurn /\ n \in Nat /\ session[c] \in Nat
  BY BaseTypes, Bounds DEF SessionInv
<1>2. /\ \/ session'[c] = session[c]
         \/ session'[c] = session[c] + 1 /\ link'[c] = "opening"
      /\ Ends!Opening(c, n)' =>
           Ends!Opening(c, n) \/ (n = session[c] + 1 /\ session'[c] = session[c] + 1)
  BY <1>1, SessionMoves
<1> DEFINE p == <<c, n>>
<1>3. p \in Peers /\ Table!Seen(i, p)'
  BY DEF Peers
<1> HIDE DEF p
<1>4. Table!Seen(i, p) \/ \E d \in Clients : \E m : p = <<d, m>> /\ Meets(i, d, m)
  BY <1>1, <1>3, TableMoves
<1>5. CASE Table!Seen(i, p)
  <2>1. n <= session[c] /\ ~Ends!Opening(c, n)
    BY <1>1, <1>5 DEF MetInTurn, p
  <2> QED
    BY <1>1, <1>2, <2>1
<1>6. CASE \E d \in Clients : \E m : p = <<d, m>> /\ Meets(i, d, m)
  <2>1. Entering(c, n)
    BY <1>6 DEF p, Meets
  <2>2. n <= session[c] /\ ~Ends!Opening(c, n)'
    BY <1>1, <2>1, Enters
  <2> QED
    BY <1>1, <1>2, <2>2
<1> QED
  BY <1>4, <1>5, <1>6

LEMMA MetOnceStep == ASSUME SessionInv, SessionNext PROVE MetOnce'
<1> SUFFICES ASSUME NEW i \in Ids, NEW j \in Ids, NEW p \in Peers,
                    Table!Seen(i, p)', Table!Seen(j, p)'
             PROVE  i = j
  BY DEF MetOnce
<1>1. Base /\ MetInTurn /\ MetOnce
  BY DEF SessionInv
<1>2. \A k \in Ids : Table!Seen(k, p)' =>
        Table!Seen(k, p) \/ \E c \in Clients : \E n : p = <<c, n>> /\ Meets(k, c, n)
  BY <1>1, TableMoves
<1>3. ASSUME NEW c \in Clients, NEW n, p = <<c, n>>, NEW k \in Ids, Meets(k, c, n)
      PROVE  \A h \in Ids : ~Table!Seen(h, p)
  <2>1. n \in 1 .. MaxSessions /\ Ends!Opening(c, n)
    BY <1>1, <1>3, Enters DEF Meets
  <2> QED
    BY <1>1, <1>3, <2>1 DEF MetInTurn
<1>4. ASSUME NEW c \in Clients, NEW n, Meets(i, c, n), Meets(j, c, n) PROVE i = j
  <2>1. /\ occupant[i] = None /\ occupant' = [occupant EXCEPT ![i] = <<c, n>>]
        /\ occupant[j] = None /\ occupant' = [occupant EXCEPT ![j] = <<c, n>>]
    BY <1>4 DEF Meets, Table!EpnetJoin
  <2>2. occupant \in [Ids -> Table!PeerData]
    BY <1>1, BaseTypes, SameServer DEF Table!ServerTypeOK
  <2>3. <<c, n>> # None
    <3>1. n \in Nat
      BY <1>1, <1>4, Enters, Bounds DEF Meets
    <3> QED
      BY <3>1, SessionAssumption
  <2>4. occupant'[j] = <<c, n>> /\ (i # j => occupant'[j] = occupant[j])
    BY <2>1, <2>2
  <2> QED
    BY <2>1, <2>3, <2>4
<1>5. CASE Table!Seen(i, p) /\ Table!Seen(j, p)
  BY <1>1, <1>5 DEF MetOnce
<1>6. CASE ~(Table!Seen(i, p) /\ Table!Seen(j, p))
  <2>1. \A h \in Ids : ~Table!Seen(h, p)
    BY <1>2, <1>3, <1>6
  <2>2. PICK c \in Clients : \E n : p = <<c, n>> /\ Meets(i, c, n)
    BY <1>2, <2>1
  <2>3. PICK n : p = <<c, n>> /\ Meets(i, c, n)
    BY <2>2
  <2>4. PICK d \in Clients : \E m : p = <<d, m>> /\ Meets(j, d, m)
    BY <1>2, <2>1
  <2>5. PICK m : p = <<d, m>> /\ Meets(j, d, m)
    BY <2>4
  <2>6. c = d /\ n = m
    BY <2>3, <2>5
  <2> QED
    BY <1>4, <2>3, <2>5, <2>6
<1> QED
  BY <1>5, <1>6

LEMMA OutsideStep == ASSUME SessionInv, SessionNext PROVE OutsideIsQuiet'
<1> SUFFICES ASSUME NEW c \in Clients, Outside(c)'
             PROVE  down'[c] = <<>> /\ link'[c] # "open" /\ \A q : ~Ends!Held(c, q)'
  BY DEF OutsideIsQuiet
<1>1. Base /\ MetInTurn /\ OutsideIsQuiet /\ session[c] \in 0 .. MaxSessions
  BY BaseTypes DEF SessionInv
<1>2. PICK n \in Nat : n = session'[c] /\ (n = 0 \/ Ends!Opening(c, n)')
  BY DEF Outside
<1>3. /\ \/ session'[c] = session[c]
         \/ session'[c] = session[c] + 1 /\ link'[c] = "opening"
      /\ Ends!Opening(c, n)' =>
           Ends!Opening(c, n) \/ (n = session[c] + 1 /\ session'[c] = session[c] + 1)
      /\ link'[c] = "open" => link[c] = "open" \/ down[c] # <<>>
  BY <1>1, SessionMoves
<1>4. \A q : Ends!Held(c, q)' =>
        session'[c] = session[c] /\ (Ends!Held(c, q) \/ q \in Range(down[c]))
  BY <1>1, HeldMoves
<1>5. /\ session'[c] # session[c] => down'[c] = <<>>
      /\ down[c] = <<>> =>
           \/ down'[c] = <<>> \/ SlotsOf(c) # {}
           \/ \E m : m = session[c] /\ Entering(c, m)
  BY <1>1, DownMoves
<1>6. CASE session'[c] # session[c]
  BY <1>3, <1>4, <1>5, <1>6
<1>7. CASE session'[c] = session[c]
  <2>1. n = session[c] /\ (n = 0 \/ Ends!Opening(c, n))
    <3>1. n # session[c] + 1
      BY <1>1, <1>2, <1>7
    <3> QED
      BY <1>2, <1>3, <1>7, <3>1
  <2>2. down[c] = <<>> /\ link[c] # "open" /\ \A q : ~Ends!Held(c, q)
    BY <1>1, <2>1 DEF OutsideIsQuiet, Outside
  <2>3. Range(down[c]) = {}
    BY <2>2 DEF Range
  <2>4. SlotsOf(c) = {}
    <3> SUFFICES ASSUME NEW i \in Ids, occupant[i] = <<c, session[c]>> PROVE FALSE
      BY DEF SlotsOf
    <3>1. n \in 1 .. MaxSessions
      BY <1>1, <2>1, HolderIsPeer DEF Now
    <3>2. Table!Seen(i, <<c, n>>)
      BY <2>1 DEF Table!Seen
    <3> QED
      BY <1>1, <2>1, <3>1, <3>2 DEF MetInTurn
  <2>5. ~\E m : m = session[c] /\ Entering(c, m)
    <3> SUFFICES ASSUME Entering(c, n) PROVE FALSE
      BY <2>1
    <3>1. n \in 1 .. MaxSessions /\ ~Ends!Opening(c, n)'
      BY <1>1, Enters
    <3> QED
      BY <1>2, <3>1
  <2> QED
    BY <1>3, <1>4, <1>5, <2>2, <2>3, <2>4, <2>5
<1> QED
  BY <1>6, <1>7

LEMMA ForeignStep == ASSUME SessionInv, SessionNext PROVE CarriedIsForeign'
<1> SUFFICES ASSUME NEW c \in Clients, NEW q \in Server!Packet, NEW p \in Peers,
                    p = <<c, session'[c]>>, Carried(c, q)', q.type = "ACTORS_SYNC",
                    NEW i \in Ids, i \in DOMAIN q.items
             PROVE  q.items[i] # p /\ ~Table!Seen(i, p)'
  BY DEF CarriedIsForeign, Foreign, Now, Server!Packet
<1>1. Base /\ MetInTurn /\ MetOnce /\ OutsideIsQuiet /\ CarriedIsForeign
  BY DEF SessionInv
<1>2. q \in Range(down'[c]) \/ Ends!Held(c, q)'
  BY DEF Carried, Range
<1>3. q # Opened /\ q # Closed
  BY DEF Opened, Closed
<1>4. Range(<<>>) = {}
  BY DEF Range
<1>5. session'[c] = session[c]
  BY <1>1, <1>2, <1>4, DownMoves, HeldMoves
<1>6. p = Now(c)
  BY <1>5 DEF Now
<1>7. \/ Carried(c, q)
      \/ FlushedTo(c, q)
  BY <1>1, <1>2, <1>3, DownMoves, HeldMoves DEF Carried
<1>8. Table!Seen(i, p)' =>
        Table!Seen(i, p) \/ \E d \in Clients : \E m : p = <<d, m>> /\ Meets(i, d, m)
  BY <1>1, TableMoves
<1>9. CASE Carried(c, q)
  <2>1. q.items[i] # p /\ ~Table!Seen(i, p)
    BY <1>1, <1>6, <1>9 DEF CarriedIsForeign, Foreign
  <2>2. ASSUME NEW d \in Clients, NEW m, p = <<d, m>>, Meets(i, d, m) PROVE FALSE
    <3>1. d = c /\ m = session[c]
      BY <1>6, <2>2 DEF Now
    <3>2. m \in Nat /\ Ends!Opening(c, m)
      BY <1>1, <2>2, <3>1, Enters, Bounds DEF Meets
    <3>3. Outside(c)
      BY <3>1, <3>2 DEF Outside
    <3> QED
      BY <1>1, <1>4, <1>9, <3>3 DEF OutsideIsQuiet, Carried
  <2> QED
    BY <1>8, <2>1, <2>2
<1>10. CASE FlushedTo(c, q)
  <2>1. PICK j \in SlotsOf(c) : \E k \in 1 .. Len(sent[j]) : q = sent[j][k]
    BY <1>10 DEF FlushedTo
  <2>2. PICK k \in 1 .. Len(sent[j]) : q = sent[j][k]
    BY <2>1
  <2>3. j \in Ids /\ occupant[j] = p /\ j \in Table!Ids /\ Table!Seen(j, p)
    BY <1>6, <2>1, SameServer DEF SlotsOf, Now, Table!Seen
  <2>4. i # j
    BY <1>1, <2>2, <2>3 DEF Base, Table!TableOrder, Table!NoSelfSync
  <2>5. ~Table!Seen(i, p)
    BY <1>1, <2>3, <2>4 DEF MetOnce
  <2>6. q.items[i] # p
    BY <2>2, <2>3, <2>5 DEF Table!Seen, Table!Relayed
  <2>7. ~Table!Seen(i, p)'
    <3>1. Table!SteadyNext /\ Table!ServerTypeOK /\ i \in Table!Ids
      BY <1>1, <1>10, BaseTypes, SameServer DEF FlushedTo
    <3> QED
      BY <2>5, <3>1, Bounds, Table!SeenSteady DEF Peers
  <2> QED
    BY <2>6, <2>7
<1> QED
  BY <1>7, <1>9, <1>10

LEMMA AskersStep == ASSUME SessionInv, SessionNext PROVE AskersAreHeard'
<1> SUFFICES ASSUME NEW c \in Clients, NEW i \in Ids, NEW p \in Peers,
                    p = <<c, session'[c]>>, occupant'[i] = p, Ends!HasAsked(c)'
             PROVE  \/ Table!Player(i, p)'
                    \/ Ends!Requesting(c)' \/ Table!Requested(i, p)' \/ RequestLost(c)'
  BY DEF AskersAreHeard, Heard, Now
<1>1. Base /\ MetInTurn /\ MetOnce /\ OutsideIsQuiet /\ AskersAreHeard
  BY DEF SessionInv
<1>2. /\ occupant'[i] = p =>
           \/ occupant[i] = p
           \/ \E d \in Clients : \E m : p = <<d, m>> /\ Meets(i, d, m)
      /\ occupant[i] = p /\ Table!Player(i, p) => Table!Player(i, p)'
      /\ Table!Requested(i, p) => Table!Requested(i, p)' \/ Table!Player(i, p)'
  BY <1>1, TableMoves
<1>3. /\ session'[c] = session[c] /\ p = Now(c)
      /\ link[c] = "open" \/ down[c] # <<>>
  <2>1. link'[c] = "open"
    BY DEF Ends!HasAsked
  <2> QED
    BY <1>1, <2>1, SessionMoves DEF Now
<1>4. CASE occupant[i] = p
  <2>1. \A j \in Ids : occupant[j] = p => j = i
    BY <1>1, <1>4 DEF MetOnce, Table!Seen
  <2>2. \/ Ends!Requesting(c)' \/ Table!Requested(i, p)' \/ RequestLost(c)'
        \/ Ends!HasAsked(c) /\ ~Ends!Requesting(c)
    BY <1>1, <1>3, <1>4, <2>1, AskingMoves
  <2>3. Ends!HasAsked(c) /\ ~Ends!Requesting(c)
          => Table!Player(i, p) \/ Table!Requested(i, p) \/ RequestLost(c)
    BY <1>1, <1>3, <1>4 DEF AskersAreHeard, Heard
  <2>4. RequestLost(c) => RequestLost(c)'
    BY <1>1, <1>3, BaseTypes, LostStays DEF Base
  <2> QED
    BY <1>2, <1>4, <2>2, <2>3, <2>4
<1>5. ASSUME NEW d \in Clients, NEW m, p = <<d, m>>, Meets(i, d, m) PROVE FALSE
  <2>1. d = c /\ m = session[c]
    BY <1>3, <1>5 DEF Now
  <2>2. m \in Nat /\ Ends!Opening(c, m)
    BY <1>1, <1>5, <2>1, Enters, Bounds DEF Meets
  <2>3. Outside(c)
    BY <2>1, <2>2 DEF Outside
  <2> QED
    BY <1>1, <1>3, <2>3 DEF OutsideIsQuiet
<1> QED
  BY <1>2, <1>4, <1>5

LEMMA SessionInvNext == SessionInv /\ [SessionNext]_vars => SessionInv'
<1> SUFFICES ASSUME SessionInv, [SessionNext]_vars PROVE SessionInv'
  OBVIOUS
<1>1. CASE SessionNext
  <2>1. Base /\ MetInTurn
    BY DEF SessionInv
  <2>2. Base'
    BY <1>1, <2>1, TableMoves, ClientMoves, DownMoves, BaseTypes, LostStays DEF Base
  <2> QED
    BY <1>1, <2>2, MetInTurnStep, MetOnceStep, OutsideStep, ForeignStep, AskersStep
       DEF SessionInv
<1>2. CASE UNCHANGED vars
  <2>1. UNCHANGED Table!vars /\ UNCHANGED Ends!vars
    BY <1>2, SameEnds, SameClients DEF vars
  <2>2. /\ down' = down /\ occupant' = occupant /\ session' = session /\ link' = link
        /\ lost' = lost
    BY <1>2 DEF vars, serverVars, clientVars
  <2>3. /\ Table!TableOrder'
        /\ \A i \in Ids, p \in Peers :
             /\ Table!Seen(i, p)' <=> Table!Seen(i, p)
             /\ Table!Player(i, p)' <=> Table!Player(i, p)
             /\ Table!Requested(i, p)' <=> Table!Requested(i, p)
    BY <2>1, Bounds, SameServer, Table!TableStands DEF SessionInv, Base, Peers
  <2>4. Ends!ClientOrder' /\ \A c \in Clients : Ends!Unmoved(c)
    BY <2>1, Bounds, Ends!OrderStands DEF SessionInv, Base
  <2>5. \A c \in Clients :
          /\ \A n : Ends!Opening(c, n)' <=> Ends!Opening(c, n)
          /\ \A q : Ends!Held(c, q)' <=> Ends!Held(c, q)
          /\ Ends!Requesting(c)' <=> Ends!Requesting(c)
          /\ Ends!HasAsked(c)' <=> Ends!HasAsked(c)
    BY <2>4, Bounds, Ends!UnmovedKeeps
  <2>6. Base'
    BY <2>2, <2>3, <2>4 DEF SessionInv, Base, LostTypeOK
  <2>7. MetInTurn'
    BY <2>2, <2>3, <2>5 DEF SessionInv, MetInTurn, Peers
  <2>8. MetOnce'
    BY <2>3 DEF SessionInv, MetOnce
  <2>9. OutsideIsQuiet'
    BY <2>2, <2>5 DEF SessionInv, OutsideIsQuiet, Outside
  <2>10. CarriedIsForeign'
    BY <2>2, <2>3, <2>5 DEF SessionInv, CarriedIsForeign, Carried, Foreign, Now
  <2>11. AskersAreHeard'
    BY <2>2, <2>3, <2>5 DEF SessionInv, AskersAreHeard, Heard, Now, RequestLost
  <2> QED
    BY <2>6, <2>7, <2>8, <2>9, <2>10, <2>11 DEF SessionInv
<1> QED
  BY <1>1, <1>2

LEMMA SessionInvariant == SessionSpec => []SessionInv
BY SessionInvInit, SessionInvNext, PTL DEF SessionSpec

(* ConnectedClientIsPlayer: a client whose session began clean and which     *)
(* counts itself connected over an open link is a player under its own name  *)
(* in the slot that it holds, or its request is still on its way or was lost *)
(* by the network: however slots are reused, whatever leaves are still       *)
(* queued, and whoever the answer that it got was meant for.                 *)
THEOREM ConnectedClientsArePlayers == SessionSpec => []ConnectedClientIsPlayer
<1>1. SessionInv => ConnectedClientIsPlayer
  <2> SUFFICES ASSUME SessionInv, NEW c \in Clients, NEW i \in SlotsOf(c),
                      fresh[c], state[c] = "CONNECTED", link[c] = "open"
               PROVE  \/ isConnected[i] /\ mpUser[i] = <<c, session[c]>>
                      \/ Asking(c) \/ "CONNECTION_REQUEST" \in lost[c]
    BY DEF ConnectedClientIsPlayer
  <2>1. Base /\ AskersAreHeard /\ Ends!ClientTypeOK /\ Ends!Handshake(c)
    BY BaseTypes DEF SessionInv, Base, Ends!ClientOrder, Ends!Orderly
  <2>2. i \in Ids /\ occupant[i] = Now(c)
    BY DEF SlotsOf, Now
  <2>3. Now(c) \in Peers
    BY <2>1, <2>2, HolderIsPeer
  <2>4. Ends!HasAsked(c)
    BY <2>1 DEF Ends!Handshake, Ends!HasAsked
  <2> DEFINE p == Now(c)
  <2>5. Heard(c, i, p)
    BY <2>1, <2>2, <2>3, <2>4 DEF AskersAreHeard
  <2>6. Table!Player(i, p) => isConnected[i] /\ mpUser[i] = <<c, session[c]>>
    BY DEF Table!Player, Now
  <2>7. Ends!Requesting(c) => Asking(c)
    <3> SUFFICES ASSUME Ends!Requesting(c) PROVE Asking(c)
      OBVIOUS
    <3>1. PICK k \in 1 .. Len(out[c]) :
            out[c][k].session = session[c] /\ out[c][k].kind = "CONNECTION_REQUEST"
      BY DEF Ends!Requesting
    <3>2. out[c] \in Seq(Ends!WireMessage)
      BY <2>1, Bounds, Ends!SentSoFar
    <3>3. out[c][k] \in Ends!WireMessage /\ k \in DOMAIN out[c]
      BY <3>1, <3>2, ElementOfSeq
    <3>4. out[c][k] = [session |-> session[c], kind |-> "CONNECTION_REQUEST"]
      BY <3>1, <3>3 DEF Ends!WireMessage
    <3> QED
      BY <3>3, <3>4 DEF Asking, Range
  <2>8. Table!Requested(i, p) => Asking(c)
    <3> SUFFICES ASSUME Table!Requested(i, p) PROVE Asking(c)
      OBVIOUS
    <3>1. PICK k \in 1 .. Len(inbox) :
            inbox[k].kind = "CONNECTION_REQUEST" /\ inbox[k].from = <<c, session[c]>>
      BY DEF Table!Requested, Now
    <3>2. inbox \in Seq(Table!Event)
      BY <2>1, BaseTypes DEF Table!ServerTypeOK
    <3>3. inbox[k] \in Range(inbox)
      BY <3>2 DEF Range
    <3> QED
      BY <3>1, <3>3 DEF Asking
  <2> QED
    BY <2>5, <2>6, <2>7, <2>8 DEF Heard, RequestLost
<1> QED
  BY <1>1, SessionInvariant, PTL

(* NoEcho: no packet of actors that a client is handed lists the slot that   *)
(* it holds or the actor that it sent in this session, in whatever order the *)
(* relays, the network, its leaves and its returns come.                     *)
THEOREM ActorsNeverEcho == SessionSpec => []NoEcho
<1>1. SessionInv => NoEcho
  <2> SUFFICES ASSUME SessionInv, NEW c \in Clients, NEW k \in DOMAIN calls[c],
                      calls[c][k].type = "ACTORS_SYNC"
               PROVE  /\ SlotsOf(c) \cap DOMAIN calls[c][k].items = {}
                      /\ \A i \in DOMAIN calls[c][k].items :
                           calls[c][k].items[i] # <<c, session[c]>>
    BY DEF NoEcho
  <2>1. /\ Base /\ CarriedIsForeign /\ Ends!ClientTypeOK
        /\ session[c] \in 0 .. MaxSessions
    BY BaseTypes DEF SessionInv
  <2> DEFINE q == calls[c][k]
  <2>2. calls[c] \in Seq(Server!Packet) /\ k \in 1 .. Len(calls[c])
    BY <2>1 DEF Ends!ClientTypeOK
  <2>3. q \in Server!Packet
    BY <2>2, ElementOfSeq
  <2>4. q.items \in Server!SlotItems
    BY <2>3 DEF Server!Packet
  <2>5. /\ DOMAIN q.items \subseteq Ids
        /\ \A i \in DOMAIN q.items : q.items[i] \in Peers \cup {None}
    BY <2>4 DEF Server!SlotItems, Server!PeerData, Ids, Peers
  <2>6. Carried(c, q)
    BY DEF Carried, Ends!Held, Ends!Range
  <2> HIDE DEF q
  <2>7. CASE Now(c) \in Peers
    <3>1. q.type = "ACTORS_SYNC"
      BY DEF q
    <3>2. Foreign(q, Now(c))
      BY <2>1, <2>3, <2>6, <2>7, <3>1 DEF CarriedIsForeign
    <3>3. ASSUME NEW i \in DOMAIN q.items
          PROVE  q.items[i] # Now(c) /\ occupant[i] # Now(c)
      BY <2>5, <3>2 DEF Foreign, Table!Seen
    <3> QED
      BY <3>3 DEF q, SlotsOf, Now
  <2>8. CASE Now(c) \notin Peers
    <3>1. SlotsOf(c) = {}
      BY <2>1, <2>8, HolderIsPeer DEF SlotsOf, Now
    <3>2. Now(c) # None
      BY <2>1, Bounds, SessionAssumption DEF Now
    <3> QED
      BY <2>5, <2>8, <3>1, <3>2 DEF q, Now
  <2> QED
    BY <2>7, <2>8
<1> QED
  BY <1>1, SessionInvariant, PTL

-----------------------------------------------------------------------------
(* The composition leaves its parts as they are. *)
LEMMA ServerKeepsItsSpec ==
  ASSUME Base, [SessionNext]_vars
  PROVE  Server!ServerNext \/ UNCHANGED Server!vars
<1>1. UNCHANGED serverVars => UNCHANGED Server!vars
  BY DEF serverVars, Server!vars, Server!clock, Server!players
<1>2. CASE ServerBeginsTick
  <2>1. PICK dt \in 0 .. 1 : Server!BeginTick(dt)
    BY <1>2 DEF ServerBeginsTick
  <2> QED
    BY <2>1 DEF Server!ServerNext, Server!Times
<1>3. CASE ServerWorks
  BY <1>3 DEF ServerWorks, Server!ServerNext
<1>4. CASE ServerTimesOut
  BY <1>4 DEF ServerTimesOut, Ids, Server!ServerNext, Server!EpnetReport
<1>5. ASSUME NEW c \in Clients, UplinkOpen(c)
      PROVE  Server!ServerNext \/ UNCHANGED serverVars
  <2>1. PICK n : n = Head(out[c]).session
    OBVIOUS
  <2>2. Entering(c, n)
    BY <1>5, <2>1, SameEpnet DEF UplinkOpen, Take, Entering
  <2>3. n \in 1 .. MaxSessions
    BY <2>2, Enters
  <2>4. CASE Free # {} /\ Server!EpnetJoin(<<c, n>>, Min(Free))
    <3>1. Min(Free) \in Server!Ids
      BY <2>4, LeastFree DEF Free, Ids
    <3> QED
      BY <2>3, <2>4, <3>1 DEF Server!ServerNext, Server!EpnetReport
  <2> QED
    BY <1>5, <2>1, <2>4 DEF UplinkOpen
<1>6. ASSUME NEW c \in Clients,
             UplinkClose(c) \/ UplinkPacket(c) \/ UplinkDrop(c) \/ UplinkLost(c)
      PROVE  Server!ServerNext \/ UNCHANGED serverVars
  <2>1. CASE UplinkClose(c)
    BY <2>1 DEF UplinkClose, HeldBy, Ids, Server!ServerNext, Server!EpnetReport
  <2>2. CASE UplinkPacket(c)
    <3>1. PICK i \in HeldBy(c, Head(out[c]).session) :
            Server!EpnetPacket(i, Head(out[c]).kind)
      BY <2>2 DEF UplinkPacket
    <3>2. i \in Server!Ids /\ Head(out[c]).kind \in Server!EventKinds
      BY <2>2, <3>1 DEF UplinkPacket, Take, GamePackets, HeldBy, Ids, Server!EventKinds
    <3> QED
      BY <3>1, <3>2 DEF Server!ServerNext, Server!EpnetReport
  <2>3. CASE UplinkDrop(c) \/ UplinkLost(c)
    BY <2>3 DEF UplinkDrop, UplinkLost
  <2> QED
    BY <1>6, <2>1, <2>2, <2>3
<1>7. ASSUME NEW c \in Clients, Play(c) \/ ClientTicks(c) \/ ClientTimesOut(c) \/ Downlink(c)
      PROVE  UNCHANGED serverVars
  BY <1>7 DEF Play, ClientConnects, ClientDisconnects, ClientShoots, ClientTicks,
     ClientTimesOut, Downlink, DownlinkArrives, DownlinkOpened, DownlinkClosed,
     DownlinkPacket, DownlinkDrop, DownlinkLost, Arrives
<1>8. CASE UNCHANGED vars
  BY <1>1, <1>8 DEF vars
<1> QED
  BY <1>1, <1>2, <1>3, <1>4, <1>5, <1>6, <1>7, <1>8
     DEF SessionNext, ServerNext, ClientNext, During, Uplink, UplinkArrives

LEMMA ClientsKeepTheirSpec ==
  ASSUME Base, [SessionNext]_vars
  PROVE  Client!ClientNext \/ UNCHANGED Client!vars
<1>1. UNCHANGED clientVars => UNCHANGED Client!vars
  BY DEF clientVars, Client!vars, Client!clocks, Client!ghosts
<1>2. CASE ServerBeginsTick \/ ServerWorks \/ ServerTimesOut
  BY <1>1, <1>2 DEF ServerBeginsTick, ServerWorks, ServerTimesOut
<1>3. ASSUME NEW c \in Clients, Play(c) \/ ClientTicks(c) \/ ClientTimesOut(c)
      PROVE  Client!ClientNext
  BY <1>3 DEF Play, ClientConnects, ClientDisconnects, ClientShoots, ClientTicks,
     ClientTimesOut, Client!ClientNext, Client!ClientCall, Client!EpnetStep
<1>4. ASSUME NEW c \in Clients, Uplink(c)
      PROVE  Client!ClientNext
  BY <1>4 DEF Uplink, UplinkArrives, UplinkOpen, UplinkClose, UplinkPacket, UplinkDrop,
     UplinkLost, Take,
     Client!ClientNext, Client!EpnetStep
<1>5. ASSUME NEW c \in Clients, Downlink(c)
      PROVE  Client!ClientNext \/ UNCHANGED clientVars
  <2>1. down[c] # <<>> /\ down \in [Clients -> Seq(Message)]
    BY <1>5 DEF Base, Downlink, DownlinkArrives, DownlinkOpened, DownlinkClosed,
       DownlinkPacket, DownlinkDrop, DownlinkLost, Arrives
  <2>2. Head(down[c]) \in Message
    BY <2>1
  <2>3. \/ UNCHANGED clientVars
        \/ Client!EpnetOpen(c) \/ Client!EpnetClose(c)
        \/ \E p \in Server!Packet : Client!EpnetReceive(c, p)
    BY <1>5, <2>2 DEF Downlink, DownlinkArrives, DownlinkOpened, DownlinkClosed,
       DownlinkPacket, DownlinkDrop, DownlinkLost, Message
  <2> QED
    BY <2>3 DEF Client!ClientNext, Client!EpnetStep
<1>6. CASE UNCHANGED vars
  BY <1>1, <1>6 DEF vars
<1> QED
  BY <1>1, <1>2, <1>3, <1>4, <1>5, <1>6 DEF SessionNext, ServerNext, ClientNext, During

(* What the network and the other side do to the server and to the clients   *)
(* is no more than what MpServer and MpClient expect of them: a join is of a *)
(* session that has begun, a packet of the holder of its slot, and nothing   *)
(* but a packet of server.c reaches the callbacks of client.c.               *)
THEOREM PartsKeepTheirSpecs == SessionSpec => Server!ServerSpec /\ Client!ClientSpec
<1>1. SessionInv => Base
  BY DEF SessionInv
<1>2. Base /\ [SessionNext]_vars => [Server!ServerNext]_Server!vars
  BY ServerKeepsItsSpec
<1>3. Base /\ [SessionNext]_vars => [Client!ClientNext]_Client!vars
  BY ClientsKeepTheirSpec
<1>4. SessionInit => Server!ServerInit /\ Client!ClientInit
  BY DEF SessionInit
<1> QED
  BY <1>1, <1>2, <1>3, <1>4, SessionInvariant, PTL
     DEF SessionSpec, Server!ServerSpec, Client!ClientSpec

LEMMA SameServerNext == Server!ServerNext => Table!ServerNext
<1>1. CASE \E dt \in Server!Times : Server!BeginTick(dt)
  <2>1. PICK dt \in 0 .. 1 : Server!BeginTick(dt)
    BY <1>1 DEF Server!Times
  <2>2. Table!BeginTick(dt)
    BY <2>1, SameBegin
  <2> QED
    BY <2>2 DEF Table!ServerNext, Table!Times
<1>2. CASE Server!EpnetReport
  <2>1. Table!EpnetReport
    BY <1>2, SameReports DEF Server!EpnetReport, Table!EpnetReport, Ids, Server!Ids,
       Table!Ids, Server!EventKinds, Table!EventKinds
  <2> QED
    BY <2>1 DEF Table!ServerNext
<1> QED
  BY <1>1, <1>2, SameHandle, SameRelay, SameEnds DEF Server!ServerNext, Table!ServerNext

LEMMA SameServerProperties ==
  /\ Server!PlayerHoldsSlot <=> Table!PlayerHoldsSlot
  /\ Server!UsersSyncIsTruthful <=> Table!UsersSyncIsTruthful
  /\ Server!NoZeroedActorIsRelayed <=> Table!NoZeroedActorIsRelayed
BY DEF Server!PlayerHoldsSlot, Server!Settled, Server!UsersSyncIsTruthful,
   Server!NoZeroedActorIsRelayed, Server!Ids, Table!PlayerHoldsSlot,
   Table!Settled, Table!UsersSyncIsTruthful, Table!NoZeroedActorIsRelayed, Table!Ids

(* What holds of the table of server.c holds of it in the composition: every *)
(* connected player holds its slot and is stored under its own data, every   *)
(* users packet names the players of the slots that it lists, and no actor   *)
(* is relayed that the server never received.                                *)
THEOREM TableStaysTruthful ==
  SessionSpec => [](/\ Server!PlayerHoldsSlot
                    /\ Server!UsersSyncIsTruthful
                    /\ Server!NoZeroedActorIsRelayed)
<1>1. Server!ServerInit => Table!ServerInit
  BY SameServer
<1>2. [Server!ServerNext]_Server!vars => [Table!ServerNext]_Table!vars
  <2>1. UNCHANGED Server!vars => UNCHANGED Table!vars
    BY DEF Server!vars, Server!clock, Server!players, Table!vars, Table!clock,
       Table!players
  <2> QED
    BY <2>1, SameServerNext
<1>3. Table!ServerSpec => []Table!PlayerHoldsSlot
  BY Bounds, Table!PlayerHoldsSlotAlways
<1>4. Table!ServerSpec => []Table!UsersSyncIsTruthful
  BY Bounds, Table!UsersSyncAlwaysTruthful
<1>5. Table!ServerSpec => []Table!NoZeroedActorIsRelayed
  BY Bounds, Table!ZeroedActorNeverRelayed
<1> QED
  BY <1>1, <1>2, <1>3, <1>4, <1>5, SameServerProperties, PartsKeepTheirSpecs, PTL
     DEF Server!ServerSpec, Table!ServerSpec

LEMMA SameClientNext == Client!ClientNext => Ends!ClientNext
<1>1. ASSUME NEW c \in Clients, Client!ClientTick(c) PROVE Ends!ClientNext
  BY <1>1, SameTicks DEF Ends!ClientNext
<1>2. ASSUME NEW c \in Clients, Client!ClientCall(c) PROVE Ends!ClientNext
  BY <1>2, SameCalls DEF Client!ClientCall, Ends!ClientNext, Ends!ClientCall
<1>3. ASSUME NEW c \in Clients, Client!EpnetStep(c) PROVE Ends!ClientNext
  BY <1>3, SameEpnet DEF Client!EpnetStep, Ends!ClientNext, Ends!EpnetStep
<1> QED
  BY <1>1, <1>2, <1>3 DEF Client!ClientNext

LEMMA SameClientProperties ==
  /\ Client!LinkIsAccountedFor <=> Ends!LinkIsAccountedFor
  /\ Client!FreshSessionHandshakes <=> Ends!FreshSessionHandshakes
  /\ [\A c \in Clients : \A dt \in Ends!Times :
         Ends!ConnectingConnected(c, dt) => asked[c] < session[c]]_Ends!vars
       => [\A c \in Clients : \A dt \in Client!Times :
             Client!ConnectingConnected(c, dt) => asked[c] < session[c]]_Client!vars
<1>1. /\ Client!LinkIsAccountedFor <=> Ends!LinkIsAccountedFor
      /\ Client!FreshSessionHandshakes <=> Ends!FreshSessionHandshakes
  BY DEF Client!LinkIsAccountedFor, Client!FreshSessionHandshakes,
     Client!Disconnected, Client!Range, Ends!LinkIsAccountedFor,
     Ends!FreshSessionHandshakes, Ends!Disconnected, Ends!Range
<1>2. Client!Times = Ends!Times
  BY DEF Client!Times, Ends!Times
<1>3. ASSUME NEW c \in Clients, NEW dt, Client!ConnectingConnected(c, dt)
      PROVE  Ends!ConnectingConnected(c, dt)
  BY <1>3 DEF Client!ConnectingConnected, Client!TickConnecting, Client!Tick,
     Client!Advance, Client!NoCalls, Client!AfterAsking, Client!TransmitRequest,
     Client!OnWire, Ends!ConnectingConnected, Ends!TickConnecting, Ends!Tick,
     Ends!Advance, Ends!NoCalls, Ends!AfterAsking, Ends!TransmitRequest, Ends!OnWire
<1>4. UNCHANGED Ends!vars => UNCHANGED Client!vars
  BY DEF Client!vars, Client!clocks, Client!ghosts, Ends!vars, Ends!clocks, Ends!ghosts
<1> QED
  BY <1>1, <1>2, <1>3, <1>4

(* What holds of the clients holds of them in the composition, whatever the  *)
(* network does to their packets: no client loses the news that its link is  *)
(* gone, a clean session is connected by its own request and answer, and no  *)
(* session asks twice.                                                       *)
THEOREM ClientsStayAccountedFor ==
  SessionSpec => /\ [](Client!LinkIsAccountedFor /\ Client!FreshSessionHandshakes)
                 /\ Client!AsksOncePerSession
<1>1. Client!ClientInit => Ends!ClientInit
  BY SameClients
<1>2. [Client!ClientNext]_Client!vars => [Ends!ClientNext]_Ends!vars
  <2>1. UNCHANGED Client!vars => UNCHANGED Ends!vars
    BY DEF Client!vars, Client!clocks, Client!ghosts, Ends!vars, Ends!clocks, Ends!ghosts
  <2> QED
    BY <2>1, SameClientNext
<1>3. Ends!ClientSpec => []Ends!LinkIsAccountedFor
  BY Bounds, Ends!LinkAlwaysAccountedFor
<1>4. Ends!ClientSpec => []Ends!FreshSessionHandshakes
  BY Bounds, Ends!FreshSessionsHandshake
<1>5. Ends!ClientSpec => Ends!AsksOncePerSession
  BY Bounds, Ends!AskedOncePerSession
<1> QED
  BY <1>1, <1>2, <1>3, <1>4, <1>5, SameClientProperties, PartsKeepTheirSpecs, PTL
     DEF Client!ClientSpec, Ends!ClientSpec, Client!AsksOncePerSession,
         Ends!AsksOncePerSession
=============================================================================
