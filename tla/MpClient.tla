------------------------------ MODULE MpClient ------------------------------
(***************************************************************************)
(* The multiplayer client of asmp-dll/src/multiplayer/client/client.c: the *)
(* connection state machine that mp_client_tick drives on the game thread, *)
(* and the calls that the game makes between ticks.                        *)
(*                                                                         *)
(* The state of every client process is a function over Clients, so that   *)
(* one client can be checked by itself and several can be composed with    *)
(* the server.  A tick is one action: epnet_client_update has queued what  *)
(* the network delivered, and nothing else touches the queue or the client *)
(* until mp_client_tick returns.                                           *)
(*                                                                         *)
(* epnet is external.  What is assumed of it: a connection attempt opens   *)
(* or fails, an open link may close at any time, both sides of that are    *)
(* queued as events, epnet_client_connect starts from an empty queue, and  *)
(* what is sent on a link that is not open goes nowhere.                   *)
(***************************************************************************)
EXTENDS Integers, Sequences, SequencesExt, Sifting

CONSTANTS
  Clients,        \* client processes
  ServerPackets,  \* packets that a server may send: records with a type
  MaxSessions,    \* bound on the connection attempts of one client
  MaxQueue,       \* bound on queued packets, received or in flight
  TimeMod,        \* time_get_ms is an unsigned long: 2^32 in the code
  UserRate,       \* user_sync_update_rate_ms of the server's configuration
  ActorRate       \* actor_sync_update_rate_ms of the server's configuration

ASSUME SessionsAssumption == MaxSessions \in Nat /\ MaxQueue \in Nat
ASSUME RatesAssumption ==
  TimeMod \in Nat \ {0} /\ UserRate \in Nat /\ ActorRate \in Nat

VARIABLES
  state,          \* client->state
  substate,       \* the static connecting_substate of handle_state_connecting_
  config,         \* session whose response filled server_configuration, or 0
  tickTime,       \* client->tick_time_ms
  userSyncTime,   \* local_player.user_sync_updated_time_ms
  actorSyncTime,  \* local_player.actor_sync_updated_time_ms
  session,        \* connection attempts that mp_client_connection_request began
  asked,          \* last session in which the connection request was sent
  fresh,          \* whether the session began with the substate idle
  link,           \* epnet: state of the transport connection
  events,         \* epnet: events not polled yet
  out,            \* epnet: what has been sent and not yet delivered
  calls           \* packets that the last tick handed to the callbacks

clocks == <<tickTime, userSyncTime, actorSyncTime>>
ghosts == <<session, asked, fresh>>
vars == <<state, substate, config, clocks, ghosts, link, events, out, calls>>

States == {"UNINITED", "INITED", "CONNECTING", "CONNECTED", "CONNECTION_FAILED"}
Substates == {"IDLE", "CONNECTING", "CONNECTED", "TOP_LEVEL_CONNECTING",
              "TOP_LEVEL_JUST_CONNECTED"}
Times == 0 .. TimeMod - 1
Sessions == 0 .. MaxSessions

(* What epnet_client_poll_events returns. *)
Connected == [kind |-> "CONNECTED"]
Disconnected == [kind |-> "DISCONNECTED"]
PacketEvent(p) == [kind |-> "PACKET", packet |-> p]
Event == {Connected, Disconnected} \cup {PacketEvent(p) : p \in ServerPackets}
IsResponse(e) == e.kind = "PACKET" /\ e.packet.type = "CONNECTION_RESPONSE"

(* What a client puts on the wire; OPEN and CLOSE are the transport's own. *)
SentKinds == {"OPEN", "CLOSE", "CONNECTION_REQUEST", "USER_SYNC", "ACTOR_SYNC",
              "SHOOT"}

ClientTypeOK ==
  /\ state \in [Clients -> States]
  /\ substate \in [Clients -> Substates]
  /\ config \in [Clients -> Sessions]
  /\ tickTime \in [Clients -> Times]
  /\ userSyncTime \in [Clients -> Times]
  /\ actorSyncTime \in [Clients -> Times]
  /\ session \in [Clients -> Sessions]
  /\ asked \in [Clients -> Sessions]
  /\ fresh \in [Clients -> BOOLEAN]
  /\ link \in [Clients -> {"closed", "opening", "open"}]
  /\ events \in [Clients -> Seq(Event)]
  /\ out \in [Clients -> Seq([session : Sessions, kind : SentKinds])]
  /\ calls \in [Clients -> Seq(ServerPackets)]

(* mp_client_create: a zeroed instance, whose state is therefore UNINITED. *)
ClientInit ==
  /\ state = [c \in Clients |-> "UNINITED"]
  /\ substate = [c \in Clients |-> "IDLE"]
  /\ config = [c \in Clients |-> 0]
  /\ tickTime = [c \in Clients |-> 0]
  /\ userSyncTime = [c \in Clients |-> 0]
  /\ actorSyncTime = [c \in Clients |-> 0]
  /\ session = [c \in Clients |-> 0]
  /\ asked = [c \in Clients |-> 0]
  /\ fresh = [c \in Clients |-> TRUE]
  /\ link = [c \in Clients |-> "closed"]
  /\ events = [c \in Clients |-> <<>>]
  /\ out = [c \in Clients |-> <<>>]
  /\ calls = [c \in Clients |-> <<>>]

-----------------------------------------------------------------------------
(* Operators named Mutant... are deliberately wrong variants of the operator *)
(* that follows them.  No action uses them; they exist to be swapped in, to  *)
(* confirm that the properties notice.                                       *)

(* The transport carries these kinds, in this order, for session n. *)
OnWire(c, n, kinds) ==
  [out EXCEPT ![c] = @ \o [k \in 1 .. Len(kinds) |->
                             [session |-> n, kind |-> kinds[k]]]]

(* epnet_client_send (external): what is sent on an open link is on the wire; *)
(* whether it arrives is for the network to decide, for all kinds alike.     *)
(* MaxQueue bounds the syncs and shots, which a client goes on sending, and  *)
(* so loses some of them here.  The request needs no bound: one per session. *)
Transmit(c, kinds) ==
  out' = IF link[c] = "open" /\ Len(out[c]) < MaxQueue
           THEN OnWire(c, session[c], kinds)
           ELSE out

TransmitRequest(c) ==
  out' = IF link[c] = "open"
           THEN OnWire(c, session[c], <<"CONNECTION_REQUEST">>)
           ELSE out

(* No callback runs. *)
NoCalls(c) == calls' = [calls EXCEPT ![c] = <<>>]

-----------------------------------------------------------------------------
(* Calls that the game makes between ticks. *)

MayConnect(c) == state[c] \in {"INITED", "CONNECTION_FAILED"}

(* mp_client_connection_request, when it returns true.  A call that returns *)
(* false stores at most the name.                                           *)
ConnectionRequest(c) ==
  /\ MayConnect(c)
  /\ session[c] < MaxSessions
  /\ state' = [state EXCEPT ![c] = "CONNECTING"]
  /\ session' = [session EXCEPT ![c] = @ + 1]
  /\ fresh' = [fresh EXCEPT ![c] = substate[c] = "IDLE"]
  /\ link' = [link EXCEPT ![c] = "opening"]
  /\ events' = [events EXCEPT ![c] = <<>>]
  /\ out' = OnWire(c, session[c] + 1, <<"OPEN">>)
  /\ NoCalls(c)
  /\ UNCHANGED <<substate, config, clocks, asked>>

(* mp_client_disconnect, allowed in every state. *)
Disconnect(c) ==
  /\ state' = [state EXCEPT ![c] = "INITED"]
  /\ link' = [link EXCEPT ![c] = "closed"]
  /\ out' = IF link[c] = "closed" THEN out ELSE OnWire(c, session[c], <<"CLOSE">>)
  /\ NoCalls(c)
  /\ UNCHANGED <<substate, config, clocks, ghosts, events>>

(* mp_client_send_shoot, allowed in every state. *)
SendShoot(c) ==
  /\ Transmit(c, <<"SHOOT">>)
  /\ UNCHANGED <<state, substate, config, clocks, ghosts, link, events, calls>>

-----------------------------------------------------------------------------
(* Events that epnet queues (external). *)

EpnetOpen(c) ==
  /\ link[c] = "opening"
  /\ link' = [link EXCEPT ![c] = "open"]
  /\ events' = [events EXCEPT ![c] = Append(@, Connected)]
  /\ UNCHANGED <<state, substate, config, clocks, ghosts, out, calls>>

(* The attempt failed, the server closed the link, or nothing came for long. *)
EpnetClose(c) ==
  /\ link[c] # "closed"
  /\ link' = [link EXCEPT ![c] = "closed"]
  /\ events' = [events EXCEPT ![c] = Append(@, Disconnected)]
  /\ UNCHANGED <<state, substate, config, clocks, ghosts, out, calls>>

EpnetReceive(c, p) ==
  /\ link[c] = "open"
  /\ Len(events[c]) < MaxQueue
  /\ events' = [events EXCEPT ![c] = Append(@, PacketEvent(p))]
  /\ UNCHANGED <<state, substate, config, clocks, ghosts, link, out, calls>>

(* The network takes the oldest packet of client c, to deliver or to lose it. *)
EpnetTake(c) ==
  /\ out[c] # <<>>
  /\ out' = [out EXCEPT ![c] = Tail(@)]
  /\ UNCHANGED <<state, substate, config, clocks, ghosts, link, events, calls>>

-----------------------------------------------------------------------------
(* Unsigned long arithmetic on times. *)
MutantAdvance(now, dt) == now + dt
Advance(now, dt) == (now + dt) % TimeMod
Elapsed(now, before) == (now + TimeMod - before) % TimeMod

(* mp_client_tick: dt milliseconds after the last one, then by state.  A     *)
(* tick that only moves the clock changes nothing else.                      *)
Tick(c, dt) ==
  /\ tickTime' = [tickTime EXCEPT ![c] = Advance(@, dt)]
  /\ UNCHANGED <<session, link>>

TickIdle(c, dt) ==
  /\ state[c] \in {"UNINITED", "INITED", "CONNECTION_FAILED"}
  /\ Tick(c, dt)
  /\ NoCalls(c)
  /\ UNCHANGED <<state, substate, config, userSyncTime, actorSyncTime, asked,
                 fresh, events, out>>

(* A tick of handle_state_connecting_ in the given substate. *)
TickConnecting(c, dt, sub) ==
  /\ state[c] = "CONNECTING"
  /\ substate[c] = sub
  /\ Tick(c, dt)
  /\ NoCalls(c)
  /\ UNCHANGED <<userSyncTime, actorSyncTime, fresh>>

ConnectingIdle(c, dt) ==
  /\ TickConnecting(c, dt, "IDLE")
  /\ substate' = [substate EXCEPT ![c] = "CONNECTING"]
  /\ UNCHANGED <<state, config, asked, events, out>>

(* The poll loop: events are dropped up to the first that ends it, which is *)
(* taken too; with none, the queue is drained.                              *)
Stops(c, ending) == {k \in DOMAIN events[c] : events[c][k] \in ending}
First(stops) == CHOOSE k \in stops : \A j \in stops : k <= j
MutantRestAfter(c, stops) == <<>>
RestAfter(c, stops) ==
  IF stops = {} THEN <<>>
  ELSE SubSeq(events[c], First(stops) + 1, Len(events[c]))

MutantAfterOpening == "TOP_LEVEL_CONNECTING"
AfterOpening == "CONNECTED"

ConnectingConnecting(c, dt) ==
  /\ TickConnecting(c, dt, "CONNECTING")
  /\ LET stops == Stops(c, {Connected, Disconnected})
     IN  /\ events' = [events EXCEPT ![c] = RestAfter(c, stops)]
         /\ \/ /\ stops = {}
               /\ UNCHANGED <<state, substate>>
            \/ /\ stops # {}
               /\ events[c][First(stops)] = Connected
               /\ substate' = [substate EXCEPT ![c] = AfterOpening]
               /\ UNCHANGED state
            \/ /\ stops # {}
               /\ events[c][First(stops)] = Disconnected
               /\ substate' = [substate EXCEPT ![c] = "IDLE"]
               /\ state' = [state EXCEPT ![c] = "CONNECTION_FAILED"]
  /\ UNCHANGED <<config, asked, out>>

MutantAfterAsking == "CONNECTED"
AfterAsking == "TOP_LEVEL_CONNECTING"

(* The connection request is sent, once: nothing sends it again. *)
ConnectingConnected(c, dt) ==
  /\ TickConnecting(c, dt, "CONNECTED")
  /\ TransmitRequest(c)
  /\ asked' = [asked EXCEPT ![c] = session[c]]
  /\ substate' = [substate EXCEPT ![c] = AfterAsking]
  /\ UNCHANGED <<state, config, events>>

(* A disconnect ends the attempt but leaves the substate as it is. *)
ConnectingTopLevel(c, dt) ==
  /\ TickConnecting(c, dt, "TOP_LEVEL_CONNECTING")
  /\ LET responses == {e \in Range(events[c]) : IsResponse(e)}
         stops == Stops(c, responses \cup {Disconnected})
     IN  /\ events' = [events EXCEPT ![c] = RestAfter(c, stops)]
         /\ \/ /\ stops = {}
               /\ UNCHANGED <<state, substate, config>>
            \/ /\ stops # {}
               /\ IsResponse(events[c][First(stops)])
               /\ config' = [config EXCEPT ![c] = session[c]]
               /\ substate' = [substate EXCEPT ![c] = "TOP_LEVEL_JUST_CONNECTED"]
               /\ UNCHANGED state
            \/ /\ stops # {}
               /\ events[c][First(stops)] = Disconnected
               /\ state' = [state EXCEPT ![c] = "CONNECTION_FAILED"]
               /\ UNCHANGED <<substate, config>>
  /\ UNCHANGED <<asked, out>>

ConnectingJustConnected(c, dt) ==
  /\ TickConnecting(c, dt, "TOP_LEVEL_JUST_CONNECTED")
  /\ substate' = [substate EXCEPT ![c] = "IDLE"]
  /\ state' = [state EXCEPT ![c] = "CONNECTED"]
  /\ UNCHANGED <<config, asked, events, out>>

(* The rates of server_configuration, zero until a response filled it. *)
RateOf(c, rate) == IF config[c] = 0 THEN 0 ELSE rate
Due(c, before, rate) == Elapsed(tickTime'[c], before[c]) >= RateOf(c, rate)

(* handle_state_connected_: the syncs that are due, then every event up to a *)
(* disconnect; what follows the disconnect stays queued.                     *)
TickConnected(c, dt) ==
  /\ state[c] = "CONNECTED"
  /\ Tick(c, dt)
  /\ LET user == Due(c, userSyncTime, UserRate)
         actor == Due(c, actorSyncTime, ActorRate)
         stops == Stops(c, {Disconnected})
         read == IF stops = {} THEN events[c]
                 ELSE SubSeq(events[c], 1, First(stops) - 1)
         game == Sift(read, {e \in Range(read) : e.kind = "PACKET" /\ ~IsResponse(e)})
     IN  /\ Transmit(c, (IF user THEN <<"USER_SYNC">> ELSE <<>>)
                          \o (IF actor THEN <<"ACTOR_SYNC">> ELSE <<>>))
         /\ userSyncTime' = IF user THEN [userSyncTime EXCEPT ![c] = tickTime'[c]]
                                    ELSE userSyncTime
         /\ actorSyncTime' = IF actor THEN [actorSyncTime EXCEPT ![c] = tickTime'[c]]
                                      ELSE actorSyncTime
         /\ calls' = [calls EXCEPT ![c] = [k \in 1 .. Len(game) |-> game[k].packet]]
         /\ events' = [events EXCEPT ![c] = RestAfter(c, stops)]
         /\ state' = IF stops = {} THEN state ELSE [state EXCEPT ![c] = "INITED"]
  /\ UNCHANGED <<substate, config, asked, fresh>>

ClientTick(c) ==
  \E dt \in Times :
    \/ TickIdle(c, dt)
    \/ ConnectingIdle(c, dt)
    \/ ConnectingConnecting(c, dt)
    \/ ConnectingConnected(c, dt)
    \/ ConnectingTopLevel(c, dt)
    \/ ConnectingJustConnected(c, dt)
    \/ TickConnected(c, dt)

ClientCall(c) == ConnectionRequest(c) \/ Disconnect(c) \/ SendShoot(c)

EpnetStep(c) ==
  \/ EpnetOpen(c) \/ EpnetClose(c) \/ EpnetTake(c)
  \/ \E p \in ServerPackets : EpnetReceive(c, p)

ClientNext == \E c \in Clients : ClientTick(c) \/ ClientCall(c) \/ EpnetStep(c)

ClientSpec == ClientInit /\ [][ClientNext]_vars

-----------------------------------------------------------------------------
(* The client and its link agree: a client that is not connecting or         *)
(* connected holds no link, so that it may always connect again, and one     *)
(* that is has either a link or the news of its end still to read.  No poll  *)
(* loop loses that news, although three of them stop early.                  *)
LinkIsAccountedFor ==
  \A c \in Clients :
    IF state[c] \in {"CONNECTING", "CONNECTED"}
      THEN link[c] = "closed" => Disconnected \in Range(events[c])
      ELSE link[c] = "closed"

(* A session that began with the substate idle is connected only after its   *)
(* own request was sent and an answer that came in this session filled the   *)
(* configuration that the client plays with.                                 *)
FreshSessionHandshakes ==
  \A c \in Clients : fresh[c] =>
    /\ state[c] = "CONNECTING" /\ substate[c] = "TOP_LEVEL_CONNECTING"
         => asked[c] = session[c]
    /\ state[c] = "CONNECTED" => asked[c] = session[c] /\ config[c] = session[c]

(* The connection request is sent at most once per session. *)
AsksOncePerSession ==
  [][\A c \in Clients : \A dt \in Times :
       ConnectingConnected(c, dt) => asked[c] < session[c]]_vars

(* client.h:62 "Disconnects from server. Clear all data related to current   *)
(* session.": whatever a session waits for, that session has asked for.      *)
NothingSurvivesDisconnect ==
  \A c \in Clients :
    state[c] = "CONNECTING" /\ substate[c] = "TOP_LEVEL_CONNECTING"
      => asked[c] = session[c]
=============================================================================
