------------------------------ MODULE MpServer ------------------------------
(***************************************************************************)
(* The game server of asmp-server/src/server.c: a table of player slots,   *)
(* filled from the events that the networking library (epnet) reports, and *)
(* two timers that relay the table to every connected player.              *)
(*                                                                         *)
(* mp_server_tick runs on one thread.  It is split here into the steps it  *)
(* makes, in their order: the clock is read, epnet_server_update turns the *)
(* network traffic into events, every event is handled, and the users and  *)
(* actors packets are sent if they are due.                                *)
(*                                                                         *)
(* A name or an actor is represented by the client that wrote it, so that  *)
(* a property can ask whose data a packet carries.                         *)
(***************************************************************************)
EXTENDS Naturals, Sequences

CONSTANTS
  MaxClients,   \* slots of the table (uint8_t max_clients; main.c passes 4)
  Peers,        \* the client processes that may connect
  None,         \* "no peer": an empty epnet slot, or zeroed player data
  TimeMod,      \* time_get_ms is an unsigned long: 2^32 in the code
  UserRate,     \* MP_USER_SYNC_UPDATE_RATE_MS
  ActorRate,    \* MP_ACTOR_SYNC_UPDATE_RATE_MS
  MaxInbox      \* bound on the events that one epnet_server_update reports

ASSUME SlotsAssumption == MaxClients \in 1 .. 255
ASSUME PeersAssumption == None \notin Peers
ASSUME TimeAssumption ==
  /\ TimeMod \in Nat \ {0}
  /\ UserRate \in Nat
  /\ ActorRate \in Nat
ASSUME InboxAssumption == MaxInbox \in Nat

VARIABLES
  phase,            \* the step of mp_server_tick that comes next
  tickTime,         \* server->tick_time_ms
  prevUsersSent,    \* server->prev_users_sync_sent_time_ms
  prevActorsSent,   \* server->prev_actors_sync_sent_time_ms
  isConnected,      \* players[i].is_connected
  mpUser,           \* players[i].player.mp_user
  mpActor,          \* players[i].player.mp_actor
  userSyncTime,     \* players[i].user_sync_updatd_time_ms
  actorSyncTime,    \* players[i].actor_sync_updated_time_ms
  occupant,         \* epnet: the peer that holds each client id
  inbox,            \* epnet: events not polled yet
  sent              \* epnet: packets given to it for each id in this tick

clock == <<tickTime, prevUsersSent, prevActorsSent>>
players == <<isConnected, mpUser, mpActor, userSyncTime, actorSyncTime>>
vars == <<phase, clock, players, occupant, inbox, sent>>

Ids == 0 .. MaxClients - 1
Times == 0 .. TimeMod - 1
PeerData == Peers \cup {None}
SlotItems == UNION {[S -> PeerData] : S \in SUBSET Ids}

(* The events of epnet_server_poll_events; "from" is the peer behind the id. *)
EventKinds ==
  {"JOIN", "LEAVE", "CONNECTION_REQUEST", "USER_SYNC", "ACTOR_SYNC", "SHOOT"}
Event == [kind : EventKinds, id : Ids, from : Peers]

(* The packets that the server sends. *)
Packet == [type : {"CONNECTION_RESPONSE"}]
            \cup [type : {"SHOOT"}, player : Ids]
            \cup [type : {"USERS_SYNC", "ACTORS_SYNC"}, items : SlotItems]

ServerTypeOK ==
  /\ phase \in {"idle", "update", "poll", "users", "actors"}
  /\ tickTime \in Times
  /\ prevUsersSent \in Times
  /\ prevActorsSent \in Times
  /\ isConnected \in [Ids -> BOOLEAN]
  /\ mpUser \in [Ids -> PeerData]
  /\ mpActor \in [Ids -> PeerData]
  /\ userSyncTime \in [Ids -> Times]
  /\ actorSyncTime \in [Ids -> Times]
  /\ occupant \in [Ids -> PeerData]
  /\ inbox \in Seq(Event)
  /\ sent \in [Ids -> Seq(Packet)]

(* mp_server_create: the instance and the player table are zeroed. *)
ServerInit ==
  /\ phase = "idle"
  /\ tickTime = 0 /\ prevUsersSent = 0 /\ prevActorsSent = 0
  /\ isConnected = [i \in Ids |-> FALSE]
  /\ mpUser = [i \in Ids |-> None]
  /\ mpActor = [i \in Ids |-> None]
  /\ userSyncTime = [i \in Ids |-> 0]
  /\ actorSyncTime = [i \in Ids |-> 0]
  /\ occupant = [i \in Ids |-> None]
  /\ inbox = <<>>
  /\ sent = [i \in Ids |-> <<>>]

-----------------------------------------------------------------------------
(* Operators named Mutant... are deliberately wrong variants of the operator *)
(* that follows them.  No action uses them; they exist to be swapped in, to  *)
(* confirm that the properties notice.                                       *)

(* Unsigned long arithmetic on times. *)
MutantAdvance(now, dt) == now + dt
Advance(now, dt) == (now + dt) % TimeMod

Elapsed(now, before) == (now + TimeMod - before) % TimeMod

(* The tick starts: the clock is read, dt milliseconds after the last one.  *)
(* The packets of the previous tick are on their way.                       *)
BeginTick(dt) ==
  /\ phase = "idle"
  /\ phase' = "update"
  /\ tickTime' = Advance(tickTime, dt)
  /\ sent' = [i \in Ids |-> <<>>]
  /\ UNCHANGED <<prevUsersSent, prevActorsSent, players, occupant, inbox>>

(* epnet_server_update (external): joins, leaves and packets of the joined  *)
(* clients become events, in the order in which they happened.              *)
Report(e) ==
  /\ phase = "update"
  /\ Len(inbox) < MaxInbox
  /\ inbox' = Append(inbox, e)
  /\ UNCHANGED <<phase, clock, players, sent>>

EpnetJoin(p, i) ==
  /\ occupant[i] = None
  /\ occupant' = [occupant EXCEPT ![i] = p]
  /\ Report([kind |-> "JOIN", id |-> i, from |-> p])

EpnetLeave(i) ==
  /\ occupant[i] # None
  /\ occupant' = [occupant EXCEPT ![i] = None]
  /\ Report([kind |-> "LEAVE", id |-> i, from |-> occupant[i]])

EpnetPacket(i, kind) ==
  /\ occupant[i] # None
  /\ kind \notin {"JOIN", "LEAVE"}
  /\ Report([kind |-> kind, id |-> i, from |-> occupant[i]])
  /\ UNCHANGED occupant

EndUpdate ==
  /\ phase = "update"
  /\ phase' = "poll"
  /\ UNCHANGED <<clock, players, occupant, inbox, sent>>

-----------------------------------------------------------------------------
(* process_received_packets_: one action per case of its switch. *)

(* epnet_server_send: one more packet for slot d. *)
Send(d, packet) == sent' = [sent EXCEPT ![d] = Append(@, packet)]

(* The next event is of this kind; it is taken from the queue. *)
Poll(kind) ==
  /\ phase = "poll"
  /\ inbox # <<>>
  /\ Head(inbox).kind = kind
  /\ inbox' = Tail(inbox)
  /\ UNCHANGED <<phase, clock, occupant>>

ProcessJoin ==
  /\ Poll("JOIN")
  /\ UNCHANGED <<players, sent>>

MutantAfterLeave(connected, i) == connected
AfterLeave(connected, i) == [connected EXCEPT ![i] = FALSE]

(* A leave clears is_connected and nothing else of the slot. *)
ProcessLeave ==
  /\ Poll("LEAVE")
  /\ isConnected' = AfterLeave(isConnected, Head(inbox).id)
  /\ UNCHANGED <<mpUser, mpActor, userSyncTime, actorSyncTime, sent>>

MutantAccepted(connected, i) == connected
Accepted(connected, i) == [connected EXCEPT ![i] = TRUE]

ProcessConnectionRequest ==
  /\ Poll("CONNECTION_REQUEST")
  /\ LET sender == Head(inbox).id
     IN  /\ mpUser' = [mpUser EXCEPT ![sender] = Head(inbox).from]
         /\ isConnected' = Accepted(isConnected, sender)
         /\ Send(sender, [type |-> "CONNECTION_RESPONSE"])
  /\ UNCHANGED <<mpActor, userSyncTime, actorSyncTime>>

ProcessUserSync ==
  /\ Poll("USER_SYNC")
  /\ mpUser' = [mpUser EXCEPT ![Head(inbox).id] = Head(inbox).from]
  /\ userSyncTime' = [userSyncTime EXCEPT ![Head(inbox).id] = tickTime]
  /\ UNCHANGED <<isConnected, mpActor, actorSyncTime, sent>>

ProcessActorSync ==
  /\ Poll("ACTOR_SYNC")
  /\ mpActor' = [mpActor EXCEPT ![Head(inbox).id] = Head(inbox).from]
  /\ actorSyncTime' = [actorSyncTime EXCEPT ![Head(inbox).id] = tickTime]
  /\ UNCHANGED <<isConnected, mpUser, userSyncTime, sent>>

(* A shot is relayed to everyone but the shooter, who need not be connected. *)
ShotGoesTo(shooter, d) == d # shooter /\ isConnected[d]

ProcessShoot ==
  /\ Poll("SHOOT")
  /\ LET sender == Head(inbox).id
         shot == [type |-> "SHOOT", player |-> sender]
     IN  sent' = [d \in Ids |-> IF ShotGoesTo(sender, d)
                                  THEN Append(sent[d], shot)
                                  ELSE sent[d]]
  /\ UNCHANGED players

EndPoll ==
  /\ phase = "poll"
  /\ inbox = <<>>
  /\ phase' = "users"
  /\ UNCHANGED <<clock, players, occupant, inbox, sent>>

-----------------------------------------------------------------------------
MutantIsDue(now, before, rate) == now >= before + rate
IsDue(now, before, rate) == Elapsed(now, before) >= rate

(* Whom the packet for slot d describes: the other connected players, a zero *)
(* time being read as "did not send a sync yet".                             *)
MutantListsUnsynced(d, syncTime) == {i \in Ids : isConnected[i] /\ i # d}
MutantListsSelf(d, syncTime) == {i \in Ids : isConnected[i] /\ syncTime[i] # 0}
ListedFor(d, syncTime) ==
  {i \in Ids : isConnected[i] /\ i # d /\ syncTime[i] # 0}

(* Every connected slot is sent one packet, even an empty one. *)
SendSync(type, syncTime, data) ==
  sent' = [d \in Ids |->
             IF isConnected[d]
               THEN Append(sent[d],
                           [type |-> type,
                            items |-> [i \in ListedFor(d, syncTime) |-> data[i]]])
               ELSE sent[d]]

SendUsersSync ==
  /\ phase = "users"
  /\ IsDue(tickTime, prevUsersSent, UserRate)
  /\ SendSync("USERS_SYNC", userSyncTime, mpUser)
  /\ prevUsersSent' = tickTime
  /\ phase' = "actors"
  /\ UNCHANGED <<tickTime, prevActorsSent, players, occupant, inbox>>

SkipUsersSync ==
  /\ phase = "users"
  /\ ~IsDue(tickTime, prevUsersSent, UserRate)
  /\ phase' = "actors"
  /\ UNCHANGED <<clock, players, occupant, inbox, sent>>

SendActorsSync ==
  /\ phase = "actors"
  /\ IsDue(tickTime, prevActorsSent, ActorRate)
  /\ SendSync("ACTORS_SYNC", actorSyncTime, mpActor)
  /\ prevActorsSent' = tickTime
  /\ phase' = "idle"
  /\ UNCHANGED <<tickTime, prevUsersSent, players, occupant, inbox>>

SkipActorsSync ==
  /\ phase = "actors"
  /\ ~IsDue(tickTime, prevActorsSent, ActorRate)
  /\ phase' = "idle"
  /\ UNCHANGED <<clock, players, occupant, inbox, sent>>

-----------------------------------------------------------------------------
Handle ==
  \/ ProcessJoin \/ ProcessLeave \/ ProcessConnectionRequest
  \/ ProcessUserSync \/ ProcessActorSync \/ ProcessShoot

Relay == SendUsersSync \/ SkipUsersSync \/ SendActorsSync \/ SkipActorsSync

EpnetReport ==
  \E i \in Ids :
    \/ \E p \in Peers : EpnetJoin(p, i)
    \/ EpnetLeave(i)
    \/ \E kind \in EventKinds : EpnetPacket(i, kind)

ServerNext ==
  \/ \E dt \in Times : BeginTick(dt)
  \/ EpnetReport
  \/ EndUpdate
  \/ Handle
  \/ EndPoll
  \/ Relay

ServerSpec == ServerInit /\ [][ServerNext]_vars

-----------------------------------------------------------------------------
(* No leave of slot i is still to be handled. *)
Settled(i) ==
  \A k \in 1 .. Len(inbox) : ~(inbox[k].kind = "LEAVE" /\ inbox[k].id = i)

(* A slot that the server calls connected is held by the client whose name   *)
(* it stores, up to a leave that is still queued: no client inherits the     *)
(* connected flag or the name of the one before it, although epnet reuses    *)
(* ids and the table is never cleared.                                       *)
PlayerHoldsSlot ==
  \A i \in Ids : isConnected[i] /\ Settled(i)
                   => mpUser[i] # None /\ occupant[i] = mpUser[i]

(* A users packet names, for every slot it lists, the client that holds the  *)
(* slot when the packet goes out, and it goes to a client that is a player   *)
(* and not among those listed.                                               *)
UsersSyncIsTruthful ==
  \A d \in Ids : \A k \in 1 .. Len(sent[d]) :
    sent[d][k].type = "USERS_SYNC" =>
      /\ occupant[d] # None /\ mpUser[d] = occupant[d]
      /\ \A i \in DOMAIN sent[d][k].items :
           i # d /\ sent[d][k].items[i] = occupant[i]

(* An actors packet never carries an actor that no client has sent: the zero *)
(* time keeps the zeroed part of the table out of it, for good.              *)
NoZeroedActorIsRelayed ==
  \A d \in Ids : \A k \in 1 .. Len(sent[d]) :
    sent[d][k].type = "ACTORS_SYNC" =>
      \A i \in DOMAIN sent[d][k].items : sent[d][k].items[i] # None

(* Between ticks neither relay is overdue, however long a tick took and      *)
(* wherever the clock has wrapped.                                           *)
NoSyncIsOverdue ==
  phase = "idle" =>
    /\ Elapsed(tickTime, prevUsersSent) < UserRate
    /\ Elapsed(tickTime, prevActorsSent) < ActorRate

(* server.c:247 "Ignore players who did not send actor sync yet": the actor  *)
(* relayed for a slot was sent by the client that holds the slot.            *)
OnlyOwnActorIsRelayed ==
  \A d \in Ids : \A k \in 1 .. Len(sent[d]) :
    sent[d][k].type = "ACTORS_SYNC" =>
      \A i \in DOMAIN sent[d][k].items : sent[d][k].items[i] = occupant[i]
=============================================================================
