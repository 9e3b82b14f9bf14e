--------------------------- MODULE MpServerProofs ---------------------------
(***************************************************************************)
(* What holds of the player table of MpServer for every number of slots,   *)
(* every set of clients, every rate and every clock.                       *)
(***************************************************************************)
EXTENDS MpServer, TLAPS

(* The parts of the state that an action of a tick leaves well typed. *)
LEMMA AdvanceType ==
  ASSUME NEW now \in Times, NEW dt \in Times
  PROVE  Advance(now, dt) \in Times
BY TimeAssumption DEF Advance, Times

LEMMA ZeroTime == 0 \in Times
BY TimeAssumption DEF Times

(* What a relay hands to epnet is a packet. *)
LEMMA SyncPacketType ==
  ASSUME NEW type \in {"USERS_SYNC", "ACTORS_SYNC"}, NEW S \in SUBSET Ids,
         NEW data \in [Ids -> PeerData]
  PROVE  [type |-> type, items |-> [i \in S |-> data[i]]] \in Packet
<1>1. [i \in S |-> data[i]] \in [S -> PeerData]
  OBVIOUS
<1>2. [i \in S |-> data[i]] \in SlotItems
  BY <1>1 DEF SlotItems
<1> QED
  BY <1>2 DEF Packet

LEMMA ServerInitType == ServerInit => ServerTypeOK
<1> SUFFICES ASSUME ServerInit PROVE ServerTypeOK
  OBVIOUS
<1> QED
  BY ZeroTime DEF ServerInit, ServerTypeOK, PeerData

LEMMA SendSyncType ==
  ASSUME ServerTypeOK, NEW type \in {"USERS_SYNC", "ACTORS_SYNC"},
         NEW syncTime, NEW data \in [Ids -> PeerData],
         SendSync(type, syncTime, data)
  PROVE  sent' \in [Ids -> Seq(Packet)]
<1> SUFFICES ASSUME NEW d \in Ids
             PROVE  sent[d] \in Seq(Packet)
                    /\ Append(sent[d], [type |-> type,
                         items |-> [i \in ListedFor(d, syncTime) |-> data[i]]])
                         \in Seq(Packet)
  BY DEF SendSync
<1>1. ListedFor(d, syncTime) \in SUBSET Ids
  BY DEF ListedFor
<1>2. [type |-> type, items |-> [i \in ListedFor(d, syncTime) |-> data[i]]]
        \in Packet
  BY <1>1, SyncPacketType
<1> QED
  BY <1>2 DEF ServerTypeOK

LEMMA ServerNextType == ServerTypeOK /\ [ServerNext]_vars => ServerTypeOK'
<1> SUFFICES ASSUME ServerTypeOK, [ServerNext]_vars
             PROVE  ServerTypeOK'
  OBVIOUS
<1> USE DEF ServerTypeOK
<1>1. ASSUME NEW dt \in Times, BeginTick(dt)
      PROVE  ServerTypeOK'
  BY <1>1, AdvanceType DEF BeginTick, players
<1>2. ASSUME NEW e \in Event, Report(e), occupant' \in [Ids -> PeerData]
      PROVE  ServerTypeOK'
  BY <1>2 DEF Report, clock, players
<1>3. ASSUME NEW i \in Ids, NEW p \in Peers, EpnetJoin(p, i)
      PROVE  ServerTypeOK'
  <2>1. [kind |-> "JOIN", id |-> i, from |-> p] \in Event
    BY DEF Event, EventKinds
  <2>2. occupant' \in [Ids -> PeerData]
    BY <1>3 DEF EpnetJoin, PeerData
  <2> QED
    BY <1>2, <1>3, <2>1, <2>2 DEF EpnetJoin
<1>4. ASSUME NEW i \in Ids, EpnetLeave(i)
      PROVE  ServerTypeOK'
  <2>1. [kind |-> "LEAVE", id |-> i, from |-> occupant[i]] \in Event
    BY <1>4 DEF EpnetLeave, Event, EventKinds, PeerData
  <2>2. occupant' \in [Ids -> PeerData]
    BY <1>4 DEF EpnetLeave, PeerData
  <2> QED
    BY <1>2, <1>4, <2>1, <2>2 DEF EpnetLeave
<1>5. ASSUME NEW i \in Ids, NEW kind \in EventKinds, EpnetPacket(i, kind)
      PROVE  ServerTypeOK'
  <2>1. [kind |-> kind, id |-> i, from |-> occupant[i]] \in Event
    BY <1>5 DEF EpnetPacket, Event, PeerData
  <2>2. occupant' \in [Ids -> PeerData]
    BY <1>5 DEF EpnetPacket
  <2> QED
    BY <1>2, <1>5, <2>1, <2>2 DEF EpnetPacket
<1>6. CASE EndUpdate
  BY <1>6 DEF EndUpdate, clock, players
<1>7. ASSUME NEW kind, Poll(kind)
      PROVE  /\ Head(inbox).id \in Ids /\ Head(inbox).from \in PeerData
             /\ inbox' \in Seq(Event)
             /\ UNCHANGED <<phase, clock, occupant>>
  <2>1. Head(inbox) \in Event /\ Tail(inbox) \in Seq(Event)
    BY <1>7 DEF Poll
  <2> QED
    BY <1>7, <2>1 DEF Poll, Event, PeerData
<1>8. CASE ProcessJoin
  BY <1>8, <1>7 DEF ProcessJoin, clock, players
<1>9. CASE ProcessLeave
  BY <1>9, <1>7 DEF ProcessLeave, AfterLeave, clock
<1>10. CASE ProcessConnectionRequest
  <2>1. [type |-> "CONNECTION_RESPONSE"] \in Packet
    BY DEF Packet
  <2>2. sent' \in [Ids -> Seq(Packet)]
    BY <1>10, <1>7, <2>1 DEF ProcessConnectionRequest, Send
  <2> QED
    BY <1>10, <1>7, <2>2 DEF ProcessConnectionRequest, Accepted, clock
<1>11. CASE ProcessUserSync
  BY <1>11, <1>7 DEF ProcessUserSync, clock
<1>12. CASE ProcessActorSync
  BY <1>12, <1>7 DEF ProcessActorSync, clock
<1>13. CASE ProcessShoot
  <2>1. [type |-> "SHOOT", player |-> Head(inbox).id] \in Packet
    BY <1>13, <1>7 DEF ProcessShoot, Packet
  <2>2. sent' \in [Ids -> Seq(Packet)]
    BY <1>13, <2>1 DEF ProcessShoot
  <2> QED
    BY <1>13, <1>7, <2>2 DEF ProcessShoot, clock, players
<1>14. CASE EndPoll
  BY <1>14 DEF EndPoll, clock, players
<1>15. CASE SendUsersSync
  BY <1>15, SendSyncType DEF SendUsersSync, players
<1>16. CASE SkipUsersSync
  BY <1>16 DEF SkipUsersSync, clock, players
<1>17. CASE SendActorsSync
  BY <1>17, SendSyncType DEF SendActorsSync, players
<1>18. CASE SkipActorsSync
  BY <1>18 DEF SkipActorsSync, clock, players
<1>19. CASE UNCHANGED vars
  BY <1>19 DEF vars, clock, players
<1> QED
  BY <1>1, <1>3, <1>4, <1>5, <1>6, <1>8, <1>9, <1>10, <1>11, <1>12, <1>13,
     <1>14, <1>15, <1>16, <1>17, <1>18, <1>19
     DEF ServerNext, EpnetReport, Handle, Relay

(* The server keeps its table, its queue and its packets well typed: in      *)
(* particular its times stay in the range of unsigned long.                  *)
THEOREM ServerTypeCorrect == ServerSpec => []ServerTypeOK
<1>1. ServerTypeOK /\ [ServerNext]_vars => ServerTypeOK'
  BY ServerNextType
<1> QED
  BY ServerInitType, <1>1, PTL DEF ServerSpec

-----------------------------------------------------------------------------
(***************************************************************************)
(* PlayerHoldsSlot is not inductive: the handler of a request trusts the   *)
(* id of an event that was queued some time ago.  What makes it right is   *)
(* that an event which no leave of its id follows in the queue comes from  *)
(* the client that holds the id now.                                       *)
(***************************************************************************)
QueueIsCurrent ==
  \A k \in 1 .. Len(inbox) :
    \/ occupant[inbox[k].id] = inbox[k].from
    \/ \E m \in k .. Len(inbox) :
         inbox[m].kind = "LEAVE" /\ inbox[m].id = inbox[k].id

SlotInv == ServerTypeOK /\ QueueIsCurrent /\ PlayerHoldsSlot

(* Reporting an event keeps what the queue says, if a slot that changes its  *)
(* holder is either left by the event, or was free.                          *)
LEMMA ReportKeepsSlots ==
  ASSUME SlotInv, NEW e \in Event, Report(e),
         occupant' \in [Ids -> PeerData],
         \A i \in Ids : \/ occupant'[i] = occupant[i]
                        \/ occupant[i] = None
                        \/ e.kind = "LEAVE" /\ e.id = i,
         e.kind = "LEAVE" \/ occupant'[e.id] = e.from
  PROVE  QueueIsCurrent' /\ PlayerHoldsSlot'
<1> DEFINE n == Len(inbox)
<1>1. /\ n \in Nat /\ Len(inbox') = n + 1
      /\ inbox'[n + 1] = e
      /\ \A k \in 1 .. n : inbox'[k] = inbox[k] /\ inbox[k] \in Event
  BY DEF SlotInv, ServerTypeOK, Report
<1>2. \A k \in 1 .. n : inbox[k].id \in Ids /\ inbox[k].from # None
  BY <1>1, PeersAssumption DEF Event
<1>3. QueueIsCurrent'
  <2> SUFFICES ASSUME NEW k \in 1 .. n + 1
               PROVE  \/ occupant'[inbox'[k].id] = inbox'[k].from
                      \/ \E m \in k .. n + 1 :
                           inbox'[m].kind = "LEAVE" /\ inbox'[m].id = inbox'[k].id
    BY <1>1 DEF QueueIsCurrent
  <2>1. CASE k = n + 1
    BY <2>1, <1>1
  <2>2. CASE k \in 1 .. n
    <3>1. CASE \E m \in k .. n :
                 inbox[m].kind = "LEAVE" /\ inbox[m].id = inbox[k].id
      <4>1. PICK m \in k .. n :
                   inbox[m].kind = "LEAVE" /\ inbox[m].id = inbox[k].id
        BY <3>1
      <4>2. m \in k .. n + 1 /\ m \in 1 .. n
        BY <1>1, <2>2, <4>1
      <4> QED
        BY <1>1, <2>2, <4>1, <4>2
    <3>2. CASE occupant[inbox[k].id] = inbox[k].from
      <4>1. CASE e.kind = "LEAVE" /\ e.id = inbox[k].id
        <5>1. n + 1 \in k .. n + 1
          BY <1>1, <2>2
        <5> QED
          BY <1>1, <2>2, <4>1, <5>1
      <4>2. CASE ~(e.kind = "LEAVE" /\ e.id = inbox[k].id)
        BY <1>1, <1>2, <2>2, <3>2, <4>2
      <4> QED
        BY <4>1, <4>2
    <3> QED
      BY <2>2, <3>1, <3>2 DEF SlotInv, QueueIsCurrent
  <2> QED
    BY <1>1, <2>1, <2>2
<1>4. PlayerHoldsSlot'
  <2> SUFFICES ASSUME NEW i \in Ids, isConnected[i], Settled(i)'
               PROVE  mpUser[i] # None /\ occupant'[i] = mpUser[i]
    BY DEF Report, players, PlayerHoldsSlot
  <2>1. Settled(i)
    BY <1>1 DEF Settled
  <2>2. mpUser[i] # None /\ occupant[i] = mpUser[i]
    BY <2>1 DEF SlotInv, PlayerHoldsSlot
  <2>3. ~(e.kind = "LEAVE" /\ e.id = i)
    BY <1>1 DEF Settled
  <2> QED
    BY <2>2, <2>3
<1> QED
  BY <1>3, <1>4

(* Handling the oldest event keeps what the rest of the queue says. *)
LEMMA PollKeepsQueue ==
  ASSUME SlotInv, NEW kind, Poll(kind)
  PROVE  /\ QueueIsCurrent'
         /\ \A i \in Ids : Settled(i)' =>
              Settled(i) \/ (kind = "LEAVE" /\ i = Head(inbox).id)
         /\ \A i \in Ids : i = Head(inbox).id /\ kind # "LEAVE" /\ Settled(i)'
              => occupant[i] = Head(inbox).from
         /\ Head(inbox).id \in Ids /\ Head(inbox).from # None
<1> DEFINE n == Len(inbox)
<1>1. /\ n \in Nat \ {0} /\ Len(inbox') = n - 1
      /\ Head(inbox) = inbox[1] /\ inbox[1] \in Event /\ inbox[1].kind = kind
      /\ occupant' = occupant
      /\ \A k \in 1 .. n - 1 : inbox'[k] = inbox[k + 1]
  BY DEF SlotInv, ServerTypeOK, Poll
<1>2. QueueIsCurrent'
  <2> SUFFICES ASSUME NEW k \in 1 .. n - 1
               PROVE  \/ occupant[inbox[k + 1].id] = inbox[k + 1].from
                      \/ \E m \in k .. n - 1 :
                           inbox'[m].kind = "LEAVE" /\ inbox'[m].id = inbox[k + 1].id
    BY <1>1 DEF QueueIsCurrent
  <2>1. CASE occupant[inbox[k + 1].id] = inbox[k + 1].from
    BY <2>1
  <2>2. ASSUME NEW m \in k + 1 .. n,
               inbox[m].kind = "LEAVE", inbox[m].id = inbox[k + 1].id
        PROVE  /\ inbox'[m - 1].kind = "LEAVE" /\ inbox'[m - 1].id = inbox[k + 1].id
               /\ m - 1 \in k .. n - 1
    BY <1>1, <2>2
  <2>3. k + 1 \in 1 .. n
    BY <1>1
  <2> QED
    BY <2>1, <2>2, <2>3 DEF SlotInv, QueueIsCurrent
<1>3. ASSUME NEW i \in Ids, Settled(i)', kind # "LEAVE" \/ i # Head(inbox).id
      PROVE  Settled(i)
  <2> SUFFICES ASSUME NEW k \in 1 .. n
               PROVE  ~(inbox[k].kind = "LEAVE" /\ inbox[k].id = i)
    BY DEF Settled
  <2>1. CASE k = 1
    BY <1>1, <1>3, <2>1
  <2>2. CASE k # 1
    <3>1. k - 1 \in 1 .. n - 1
      BY <1>1, <2>2
    <3>2. inbox'[k - 1] = inbox[k]
      BY <1>1, <3>1
    <3> QED
      BY <1>1, <1>3, <3>1, <3>2 DEF Settled
  <2> QED
    BY <2>1, <2>2
<1>4. ASSUME NEW i \in Ids, i = Head(inbox).id, kind # "LEAVE", Settled(i)'
      PROVE  occupant[i] = Head(inbox).from
  <2>1. Settled(i)
    BY <1>3, <1>4
  <2>2. 1 \in 1 .. n
    BY <1>1
  <2> QED
    BY <1>1, <1>4, <2>1, <2>2 DEF SlotInv, QueueIsCurrent, Settled
<1>5. Head(inbox).id \in Ids /\ Head(inbox).from # None
  BY <1>1, PeersAssumption DEF Event
<1> QED
  BY <1>2, <1>3, <1>4, <1>5

LEMMA SlotInvInit == ServerInit => SlotInv
<1> SUFFICES ASSUME ServerInit PROVE SlotInv
  OBVIOUS
<1>1. Len(inbox) = 0
  BY DEF ServerInit
<1> QED
  BY <1>1, ServerInitType DEF ServerInit, SlotInv, QueueIsCurrent, PlayerHoldsSlot

LEMMA SlotInvNext == SlotInv /\ [ServerNext]_vars => SlotInv'
<1> SUFFICES ASSUME SlotInv, [ServerNext]_vars
             PROVE  QueueIsCurrent' /\ PlayerHoldsSlot'
  BY ServerNextType DEF SlotInv
<1> USE DEF SlotInv
<1>1. ASSUME UNCHANGED <<isConnected, mpUser, occupant, inbox>>
      PROVE  QueueIsCurrent' /\ PlayerHoldsSlot'
  BY <1>1 DEF QueueIsCurrent, PlayerHoldsSlot, Settled
<1>2. ASSUME NEW i \in Ids, NEW p \in Peers, EpnetJoin(p, i)
      PROVE  QueueIsCurrent' /\ PlayerHoldsSlot'
  <2> DEFINE e == [kind |-> "JOIN", id |-> i, from |-> p]
  <2>1. e \in Event /\ Report(e) /\ e.id = i /\ e.from = p /\ e.kind # "LEAVE"
    BY <1>2 DEF EpnetJoin, Event, EventKinds
  <2>2. /\ occupant' \in [Ids -> PeerData]
        /\ \A j \in Ids : occupant'[j] = occupant[j] \/ occupant[j] = None
        /\ occupant'[i] = p
    BY <1>2 DEF EpnetJoin, ServerTypeOK, PeerData
  <2> HIDE DEF e
  <2> QED
    BY <2>1, <2>2, ReportKeepsSlots
<1>3. ASSUME NEW i \in Ids, EpnetLeave(i)
      PROVE  QueueIsCurrent' /\ PlayerHoldsSlot'
  <2> DEFINE e == [kind |-> "LEAVE", id |-> i, from |-> occupant[i]]
  <2>1. e \in Event /\ Report(e) /\ e.id = i /\ e.kind = "LEAVE"
    BY <1>3 DEF EpnetLeave, Event, EventKinds, ServerTypeOK, PeerData
  <2>2. /\ occupant' \in [Ids -> PeerData]
        /\ \A j \in Ids : occupant'[j] = occupant[j] \/ j = i
    BY <1>3 DEF EpnetLeave, ServerTypeOK, PeerData
  <2> HIDE DEF e
  <2> QED
    BY <2>1, <2>2, ReportKeepsSlots
<1>4. ASSUME NEW i \in Ids, NEW kind \in EventKinds, EpnetPacket(i, kind)
      PROVE  QueueIsCurrent' /\ PlayerHoldsSlot'
  <2> DEFINE e == [kind |-> kind, id |-> i, from |-> occupant[i]]
  <2>1. e \in Event /\ Report(e) /\ e.id = i /\ e.from = occupant[i]
    BY <1>4 DEF EpnetPacket, Event, ServerTypeOK, PeerData
  <2>2. occupant' = occupant /\ occupant' \in [Ids -> PeerData]
    BY <1>4 DEF EpnetPacket, ServerTypeOK
  <2> HIDE DEF e
  <2> QED
    BY <2>1, <2>2, ReportKeepsSlots
<1>5. CASE ProcessJoin
  BY <1>5, PollKeepsQueue DEF ProcessJoin, Poll, players, PlayerHoldsSlot
<1>6. CASE ProcessLeave
  BY <1>6, PollKeepsQueue
     DEF ProcessLeave, AfterLeave, Poll, PlayerHoldsSlot, ServerTypeOK
<1>7. CASE ProcessConnectionRequest
  BY <1>7, PollKeepsQueue
     DEF ProcessConnectionRequest, Accepted, Poll, PlayerHoldsSlot, ServerTypeOK
<1>8. CASE ProcessUserSync
  BY <1>8, PollKeepsQueue DEF ProcessUserSync, Poll, PlayerHoldsSlot, ServerTypeOK
<1>9. CASE ProcessActorSync
  BY <1>9, PollKeepsQueue DEF ProcessActorSync, Poll, PlayerHoldsSlot
<1>10. CASE ProcessShoot
  BY <1>10, PollKeepsQueue DEF ProcessShoot, Poll, players, PlayerHoldsSlot
<1>11. ASSUME NEW dt \in Times, BeginTick(dt)
       PROVE  UNCHANGED <<isConnected, mpUser, occupant, inbox>>
  BY <1>11 DEF BeginTick, players
<1>12. ASSUME EndUpdate \/ EndPoll \/ Relay \/ UNCHANGED vars
       PROVE  UNCHANGED <<isConnected, mpUser, occupant, inbox>>
  BY <1>12 DEF EndUpdate, EndPoll, Relay, SendUsersSync, SkipUsersSync,
               SendActorsSync, SkipActorsSync, vars, players
<1> QED
  BY <1>1, <1>2, <1>3, <1>4, <1>5, <1>6, <1>7, <1>8, <1>9, <1>10, <1>11, <1>12
     DEF ServerNext, EpnetReport, Handle

(* A slot that the server calls connected is held by the client whose name   *)
(* it stores: is_connected and the name never outlive the client in the slot *)
(* by more than the leave event that is still queued, for any number of      *)
(* slots, clients and queued events.                                         *)
THEOREM PlayerHoldsSlotAlways == ServerSpec => []PlayerHoldsSlot
<1>1. SlotInv => PlayerHoldsSlot
  BY DEF SlotInv
<1> QED
  BY SlotInvInit, SlotInvNext, <1>1, PTL DEF ServerSpec

-----------------------------------------------------------------------------
(***************************************************************************)
(* What the packets say.  A packet stays in sent until the next tick, and  *)
(* the slots change hands only while sent is empty; the players change     *)
(* only while sent holds no sync; and a sync is built only when every      *)
(* event has been handled, so that every connected slot is settled.        *)
(***************************************************************************)
SyncTypes == {"USERS_SYNC", "ACTORS_SYNC"}

NothingSentInUpdate == phase = "update" => \A d \in Ids : sent[d] = <<>>

NoSyncSentInPoll ==
  phase = "poll" => \A d \in Ids : \A k \in 1 .. Len(sent[d]) :
                      sent[d][k].type \notin SyncTypes

AllHandledInUsers == phase = "users" => inbox = <<>>

SyncedActorIsKnown == \A i \in Ids : actorSyncTime[i] # 0 => mpActor[i] # None

RelayInv ==
  /\ SlotInv
  /\ NothingSentInUpdate
  /\ NoSyncSentInPoll
  /\ AllHandledInUsers
  /\ SyncedActorIsKnown
  /\ UsersSyncIsTruthful
  /\ NoZeroedActorIsRelayed

LEMMA RelayInvInit == ServerInit => RelayInv
<1> SUFFICES ASSUME ServerInit PROVE RelayInv
  OBVIOUS
<1>1. \A d \in Ids : Len(sent[d]) = 0
  BY DEF ServerInit
<1> QED
  BY <1>1, SlotInvInit
     DEF ServerInit, RelayInv, NothingSentInUpdate, NoSyncSentInPoll,
         AllHandledInUsers, SyncedActorIsKnown, UsersSyncIsTruthful,
         NoZeroedActorIsRelayed

(* Where a sequence of packets of slot d came from. *)
LEMMA AppendedPacket ==
  ASSUME NEW s \in Seq(Packet), NEW p, NEW k \in 1 .. Len(Append(s, p))
  PROVE  \/ k \in 1 .. Len(s) /\ Append(s, p)[k] = s[k]
         \/ Append(s, p)[k] = p
OBVIOUS

(* The handlers send responses and shots, never a sync. *)
LEMMA HandlersSendNoSync ==
  ASSUME RelayInv, Handle
  PROVE  NoSyncSentInPoll'
<1> USE DEF SyncTypes
<1>1. phase = "poll" /\ phase' = "poll"
  BY DEF Handle, ProcessJoin, ProcessLeave, ProcessConnectionRequest,
         ProcessUserSync, ProcessActorSync, ProcessShoot, Poll
<1>2. SUFFICES ASSUME NEW d \in Ids, NEW k \in 1 .. Len(sent'[d])
               PROVE  sent'[d][k].type \notin SyncTypes
  BY DEF NoSyncSentInPoll
<1>3. /\ sent \in [Ids -> Seq(Packet)]
      /\ \A j \in 1 .. Len(sent[d]) : sent[d][j].type \notin SyncTypes
  BY <1>1 DEF RelayInv, SlotInv, ServerTypeOK, NoSyncSentInPoll
<1>4. CASE sent' = sent
  BY <1>3, <1>4
<1>5. ASSUME NEW p \in Packet, p.type \notin SyncTypes,
             sent'[d] = sent[d] \/ sent'[d] = Append(sent[d], p)
      PROVE  sent'[d][k].type \notin SyncTypes
  <2>1. sent[d] \in Seq(Packet)
    BY <1>3
  <2>2. CASE sent'[d] = sent[d]
    BY <1>2, <1>3, <2>2
  <2>3. CASE sent'[d] = Append(sent[d], p)
    <3>1. k \in 1 .. Len(Append(sent[d], p))
      BY <1>2, <2>3
    <3>2. \/ k \in 1 .. Len(sent[d]) /\ Append(sent[d], p)[k] = sent[d][k]
          \/ Append(sent[d], p)[k] = p
      BY <2>1, <3>1, AppendedPacket
    <3> QED
      BY <1>3, <1>5, <2>3, <3>2
  <2> QED
    BY <1>5, <2>2, <2>3
<1>6. CASE ProcessConnectionRequest
  <2>1. \/ sent'[d] = sent[d]
        \/ sent'[d] = Append(sent[d], [type |-> "CONNECTION_RESPONSE"])
    BY <1>3, <1>6 DEF ProcessConnectionRequest, Send
  <2>2. [type |-> "CONNECTION_RESPONSE"] \in Packet
    BY DEF Packet
  <2> QED
    BY <1>5, <2>1, <2>2
<1>7. CASE ProcessShoot
  <2>1. \/ sent'[d] = sent[d]
        \/ sent'[d] = Append(sent[d], [type |-> "SHOOT", player |-> Head(inbox).id])
    BY <1>3, <1>7 DEF ProcessShoot
  <2>2. [type |-> "SHOOT", player |-> Head(inbox).id] \in Packet
    BY <1>3, <1>7, PollKeepsQueue DEF ProcessShoot, RelayInv, Packet
  <2> QED
    BY <1>5, <2>1, <2>2
<1>8. CASE ProcessJoin \/ ProcessLeave \/ ProcessUserSync \/ ProcessActorSync
  <2>1. sent' = sent
    BY <1>8 DEF ProcessJoin, ProcessLeave, ProcessUserSync, ProcessActorSync
  <2> QED
    BY <1>4, <2>1
<1> QED
  BY <1>6, <1>7, <1>8 DEF Handle

(* A handler that stores an actor stores one that some client sent. *)
LEMMA HandlersKnowActors ==
  ASSUME RelayInv, Handle
  PROVE  SyncedActorIsKnown'
<1>1. CASE ProcessActorSync
  <2>1. Head(inbox).from # None
    BY <1>1, PollKeepsQueue DEF RelayInv, ProcessActorSync
  <2> QED
    BY <1>1, <2>1
       DEF ProcessActorSync, RelayInv, SlotInv, ServerTypeOK, SyncedActorIsKnown
<1> QED
  BY <1>1 DEF Handle, ProcessJoin, ProcessLeave, ProcessConnectionRequest,
              ProcessUserSync, ProcessShoot, players, RelayInv, SyncedActorIsKnown

(* A users sync is built when the queue is empty: each connected slot is     *)
(* then held by the client whose name it stores.                             *)
LEMMA UsersSyncStep ==
  ASSUME RelayInv, SendUsersSync
  PROVE  UsersSyncIsTruthful' /\ NoZeroedActorIsRelayed'
<1>1. \A i \in Ids : isConnected[i] => mpUser[i] # None /\ occupant[i] = mpUser[i]
  <2>1. \A i \in Ids : Settled(i)
    BY DEF RelayInv, AllHandledInUsers, SendUsersSync, Settled
  <2> QED
    BY <2>1 DEF RelayInv, SlotInv, PlayerHoldsSlot
<1>2. /\ sent \in [Ids -> Seq(Packet)]
      /\ UNCHANGED <<occupant, mpUser>>
  BY DEF RelayInv, SlotInv, ServerTypeOK, SendUsersSync, players
<1>3. SUFFICES ASSUME NEW d \in Ids, NEW k \in 1 .. Len(sent'[d])
               PROVE  /\ sent'[d][k].type = "USERS_SYNC" =>
                           /\ occupant[d] # None /\ mpUser[d] = occupant[d]
                           /\ \A i \in DOMAIN sent'[d][k].items :
                                i # d /\ sent'[d][k].items[i] = occupant[i]
                      /\ sent'[d][k].type = "ACTORS_SYNC" =>
                           \A i \in DOMAIN sent'[d][k].items :
                             sent'[d][k].items[i] # None
  BY <1>2 DEF UsersSyncIsTruthful, NoZeroedActorIsRelayed
<1> DEFINE listed == ListedFor(d, userSyncTime)
           p == [type |-> "USERS_SYNC", items |-> [i \in listed |-> mpUser[i]]]
<1>4. CASE k \in 1 .. Len(sent[d]) /\ sent'[d][k] = sent[d][k]
  BY <1>4 DEF RelayInv, UsersSyncIsTruthful, NoZeroedActorIsRelayed
<1>5. CASE isConnected[d] /\ sent'[d][k] = p
  <2>1. p.type = "USERS_SYNC" /\ DOMAIN p.items = listed
        /\ \A i \in listed : p.items[i] = mpUser[i]
    OBVIOUS
  <2>2. \A i \in listed : i \in Ids /\ i # d /\ isConnected[i]
    BY DEF ListedFor
  <2> HIDE DEF p, listed
  <2> QED
    BY <1>1, <1>5, <2>1, <2>2
<1>6. \/ sent'[d] = sent[d]
      \/ isConnected[d] /\ sent'[d] = Append(sent[d], p)
  BY DEF SendUsersSync, SendSync
<1> HIDE DEF p
<1> QED
  BY <1>2, <1>4, <1>5, <1>6, AppendedPacket

(* An actors sync lists only slots whose actor some client sent. *)
LEMMA ActorsSyncStep ==
  ASSUME RelayInv, SendActorsSync
  PROVE  UsersSyncIsTruthful' /\ NoZeroedActorIsRelayed'
<1>1. /\ sent \in [Ids -> Seq(Packet)]
      /\ UNCHANGED <<occupant, mpUser>>
  BY DEF RelayInv, SlotInv, ServerTypeOK, SendActorsSync, players
<1>2. SUFFICES ASSUME NEW d \in Ids, NEW k \in 1 .. Len(sent'[d])
               PROVE  /\ sent'[d][k].type = "USERS_SYNC" =>
                           /\ occupant[d] # None /\ mpUser[d] = occupant[d]
                           /\ \A i \in DOMAIN sent'[d][k].items :
                                i # d /\ sent'[d][k].items[i] = occupant[i]
                      /\ sent'[d][k].type = "ACTORS_SYNC" =>
                           \A i \in DOMAIN sent'[d][k].items :
                             sent'[d][k].items[i] # None
  BY <1>1 DEF UsersSyncIsTruthful, NoZeroedActorIsRelayed
<1> DEFINE listed == ListedFor(d, actorSyncTime)
           p == [type |-> "ACTORS_SYNC", items |-> [i \in listed |-> mpActor[i]]]
<1>3. CASE k \in 1 .. Len(sent[d]) /\ sent'[d][k] = sent[d][k]
  BY <1>3 DEF RelayInv, UsersSyncIsTruthful, NoZeroedActorIsRelayed
<1>4. CASE sent'[d][k] = p
  <2>1. p.type = "ACTORS_SYNC" /\ DOMAIN p.items = listed
        /\ \A i \in listed : p.items[i] = mpActor[i]
    OBVIOUS
  <2>2. \A i \in listed : mpActor[i] # None
    BY DEF ListedFor, RelayInv, SyncedActorIsKnown
  <2> HIDE DEF p, listed
  <2> QED
    BY <1>4, <2>1, <2>2
<1>5. \/ sent'[d] = sent[d]
      \/ sent'[d] = Append(sent[d], p)
  BY DEF SendActorsSync, SendSync
<1> HIDE DEF p
<1> QED
  BY <1>1, <1>3, <1>4, <1>5, AppendedPacket

LEMMA RelayInvNext == RelayInv /\ [ServerNext]_vars => RelayInv'
<1> SUFFICES ASSUME RelayInv, [ServerNext]_vars
             PROVE  /\ NothingSentInUpdate' /\ NoSyncSentInPoll'
                    /\ AllHandledInUsers' /\ SyncedActorIsKnown'
                    /\ UsersSyncIsTruthful' /\ NoZeroedActorIsRelayed'
  BY SlotInvNext DEF RelayInv
<1> USE DEF RelayInv
<1>1. ASSUME \A d \in Ids : sent'[d] = <<>>
      PROVE  NothingSentInUpdate' /\ NoSyncSentInPoll'
             /\ UsersSyncIsTruthful' /\ NoZeroedActorIsRelayed'
  <2>1. \A d \in Ids : Len(sent'[d]) = 0
    BY <1>1
  <2> QED
    BY <1>1, <2>1 DEF NothingSentInUpdate, NoSyncSentInPoll, UsersSyncIsTruthful,
                      NoZeroedActorIsRelayed
<1>2. ASSUME UNCHANGED <<mpActor, actorSyncTime>>
      PROVE  SyncedActorIsKnown'
  BY <1>2 DEF SyncedActorIsKnown
<1>3. ASSUME NEW dt \in Times, BeginTick(dt)
      PROVE  /\ phase' = "update" /\ \A d \in Ids : sent'[d] = <<>>
             /\ UNCHANGED <<mpActor, actorSyncTime>>
  BY <1>3 DEF BeginTick, players
<1>4. ASSUME EpnetReport
      PROVE  /\ phase' = "update" /\ \A d \in Ids : sent'[d] = <<>>
             /\ UNCHANGED <<mpActor, actorSyncTime>>
  BY <1>4 DEF EpnetReport, EpnetJoin, EpnetLeave, EpnetPacket, Report, players,
              NothingSentInUpdate
<1>5. ASSUME EndUpdate
      PROVE  /\ phase' = "poll" /\ \A d \in Ids : sent'[d] = <<>>
             /\ UNCHANGED <<mpActor, actorSyncTime>>
  BY <1>5 DEF EndUpdate, players, NothingSentInUpdate
<1>6. CASE Handle
  <2>1. phase' = "poll"
    BY <1>6 DEF Handle, ProcessJoin, ProcessLeave, ProcessConnectionRequest,
                ProcessUserSync, ProcessActorSync, ProcessShoot, Poll
  <2>2. NoSyncSentInPoll' /\ SyncedActorIsKnown'
    BY <1>6, HandlersSendNoSync, HandlersKnowActors
  <2> QED
    BY <2>1, <2>2
       DEF NothingSentInUpdate, NoSyncSentInPoll, AllHandledInUsers, SyncTypes,
           UsersSyncIsTruthful, NoZeroedActorIsRelayed
<1>7. ASSUME UNCHANGED <<mpUser, occupant, sent>>
      PROVE  UsersSyncIsTruthful' /\ NoZeroedActorIsRelayed'
  BY <1>7 DEF UsersSyncIsTruthful, NoZeroedActorIsRelayed
<1>8. CASE EndPoll
  BY <1>2, <1>7, <1>8
     DEF EndPoll, players, NothingSentInUpdate, NoSyncSentInPoll, AllHandledInUsers
<1>9. CASE SendUsersSync
  BY <1>2, <1>9, UsersSyncStep
     DEF SendUsersSync, players, NothingSentInUpdate, NoSyncSentInPoll,
         AllHandledInUsers
<1>10. CASE SendActorsSync
  BY <1>2, <1>10, ActorsSyncStep
     DEF SendActorsSync, players, NothingSentInUpdate, NoSyncSentInPoll,
         AllHandledInUsers
<1>11. CASE SkipUsersSync \/ SkipActorsSync
  BY <1>2, <1>7, <1>11
     DEF SkipUsersSync, SkipActorsSync, players, NothingSentInUpdate,
         NoSyncSentInPoll, AllHandledInUsers
<1>12. CASE UNCHANGED vars
  BY <1>2, <1>7, <1>12
     DEF vars, players, NothingSentInUpdate, NoSyncSentInPoll, AllHandledInUsers
<1> QED
  BY <1>1, <1>2, <1>3, <1>4, <1>5, <1>6, <1>8, <1>9, <1>10, <1>11, <1>12
     DEF ServerNext, Relay, AllHandledInUsers

(* Every users packet names the clients that hold the slots it lists, and    *)
(* goes to a player that it does not list.                                   *)
THEOREM UsersSyncAlwaysTruthful == ServerSpec => []UsersSyncIsTruthful
<1>1. RelayInv => UsersSyncIsTruthful
  BY DEF RelayInv
<1> QED
  BY RelayInvInit, RelayInvNext, <1>1, PTL DEF ServerSpec

(* No actor that the server never received leaves it: the zero time is a     *)
(* sound test for that, although it is also a time of the clock.             *)
THEOREM ZeroedActorNeverRelayed == ServerSpec => []NoZeroedActorIsRelayed
<1>1. RelayInv => NoZeroedActorIsRelayed
  BY DEF RelayInv
<1> QED
  BY RelayInvInit, RelayInvNext, <1>1, PTL DEF ServerSpec
-----------------------------------------------------------------------------
(* The relay timers. *)

LEMMA ElapsedSinceNow ==
  ASSUME NEW now \in Times
  PROVE  Elapsed(now, now) = 0
<1>1. now \in Nat /\ TimeMod \in Nat \ {0}
  BY TimeAssumption DEF Times
<1>2. (now + TimeMod - now) = TimeMod
  BY <1>1
<1>3. TimeMod % TimeMod = 0
  BY <1>1
<1> QED
  BY <1>2, <1>3 DEF Elapsed

(* A relay that is not overdue stays so until the clock is read again, and   *)
(* the relays run once in between, users first.                              *)
TimersInv ==
  /\ ServerTypeOK
  /\ phase \in {"idle", "actors"} => ~IsDue(tickTime, prevUsersSent, UserRate)
  /\ phase = "idle" => ~IsDue(tickTime, prevActorsSent, ActorRate)

LEMMA TimersInvInit ==
  ASSUME UserRate > 0, ActorRate > 0, ServerInit
  PROVE  TimersInv
<1>1. Elapsed(0, 0) = 0
  BY ZeroTime, ElapsedSinceNow
<1> QED
  BY <1>1, ServerInitType, TimeAssumption DEF TimersInv, ServerInit, IsDue

LEMMA TimersInvNext ==
  ASSUME UserRate > 0, ActorRate > 0, TimersInv, [ServerNext]_vars
  PROVE  TimersInv'
<1>1. ServerTypeOK'
  BY ServerNextType DEF TimersInv
<1>2. tickTime \in Times /\ Elapsed(tickTime, tickTime) = 0
  BY ElapsedSinceNow DEF TimersInv, ServerTypeOK
<1> USE DEF TimersInv, clock
<1>3. ASSUME NEW dt \in Times, BeginTick(dt)
      PROVE  TimersInv'
  BY <1>1, <1>3 DEF BeginTick
<1>4. CASE EpnetReport
  BY <1>1, <1>4 DEF EpnetReport, EpnetJoin, EpnetLeave, EpnetPacket, Report
<1>5. CASE EndUpdate \/ EndPoll
  BY <1>1, <1>5 DEF EndUpdate, EndPoll
<1>6. CASE Handle
  BY <1>1, <1>6 DEF Handle, ProcessJoin, ProcessLeave, ProcessConnectionRequest,
                    ProcessUserSync, ProcessActorSync, ProcessShoot, Poll
<1>7. CASE SendUsersSync
  BY <1>1, <1>2, <1>7, TimeAssumption DEF SendUsersSync, IsDue
<1>8. CASE SendActorsSync
  BY <1>1, <1>2, <1>8, TimeAssumption DEF SendActorsSync, IsDue
<1>9. CASE SkipUsersSync \/ SkipActorsSync
  BY <1>1, <1>9 DEF SkipUsersSync, SkipActorsSync, IsDue
<1>10. CASE UNCHANGED vars
  BY <1>1, <1>10 DEF vars, IsDue
<1> QED
  BY <1>3, <1>4, <1>5, <1>6, <1>7, <1>8, <1>9, <1>10 DEF ServerNext, Relay

(* With rates above zero, neither relay is ever overdue between two ticks,   *)
(* whatever time passes from one tick to the next and wherever the clock     *)
(* wraps.                                                                    *)
THEOREM SyncNeverOverdue ==
  ASSUME UserRate > 0, ActorRate > 0
  PROVE  ServerSpec => []NoSyncIsOverdue
<1>1. ServerInit => TimersInv
  BY TimersInvInit
<1>2. TimersInv /\ [ServerNext]_vars => TimersInv'
  BY TimersInvNext
<1>3. TimersInv => NoSyncIsOverdue
  <2> SUFFICES ASSUME TimersInv, phase = "idle"
               PROVE  /\ Elapsed(tickTime, prevUsersSent) < UserRate
                      /\ Elapsed(tickTime, prevActorsSent) < ActorRate
    BY DEF NoSyncIsOverdue
  <2>1. /\ Elapsed(tickTime, prevUsersSent) \in Nat
        /\ Elapsed(tickTime, prevActorsSent) \in Nat
    BY TimeAssumption DEF TimersInv, ServerTypeOK, Times, Elapsed
  <2> QED
    BY <2>1, TimeAssumption DEF TimersInv, IsDue
<1> QED
  BY <1>1, <1>2, <1>3, PTL DEF ServerSpec

-----------------------------------------------------------------------------
(***************************************************************************)
(* Clients that come once.  When no peer joins a second time, as is so of  *)
(* the sessions of MpSession, a slot and a peer that have met belong       *)
(* together, and a leave is always that of an earlier holder.              *)
(***************************************************************************)
(* Every step but a join. *)
SteadyNext ==
  \/ \E dt \in Times : BeginTick(dt)
  \/ \E i \in Ids : EpnetLeave(i) \/ \E kind \in EventKinds : EpnetPacket(i, kind)
  \/ EndUpdate \/ Handle \/ EndPoll \/ Relay

(* The server connects slot i with p: p holds it, or sent what is there.     *)
Queued(i, p) == \E k \in 1 .. Len(inbox) : inbox[k].id = i /\ inbox[k].from = p
Relayed(i, p) ==
  \E d \in Ids : \E k \in 1 .. Len(sent[d]) :
    /\ sent[d][k].type = "ACTORS_SYNC"
    /\ i \in DOMAIN sent[d][k].items /\ sent[d][k].items[i] = p
Seen(i, p) ==
  \/ occupant[i] = p \/ mpUser[i] = p \/ mpActor[i] = p
  \/ Queued(i, p) \/ Relayed(i, p)

Player(i, p) == isConnected[i] /\ mpUser[i] = p

(* No event up to a leave is from the client that holds the slot now, and    *)
(* that client's name is not in the table yet.                               *)
LeavesAreOld ==
  \A k \in 1 .. Len(inbox) : inbox[k].kind = "LEAVE" =>
    /\ \A j \in 1 .. k :
         inbox[j].id = inbox[k].id => inbox[j].from # occupant[inbox[k].id]
    /\ occupant[inbox[k].id] # None
         => mpUser[inbox[k].id] # occupant[inbox[k].id]

NoSelfSync ==
  \A d \in Ids : \A k \in 1 .. Len(sent[d]) :
    sent[d][k].type = "ACTORS_SYNC" => d \notin DOMAIN sent[d][k].items

(* The two ends of the queue. *)
LEMMA ReportedQueue ==
  ASSUME ServerTypeOK, NEW e \in Event, Report(e)
  PROVE  /\ Len(inbox) \in Nat /\ Len(inbox') = Len(inbox) + 1
         /\ inbox'[Len(inbox) + 1] = e
         /\ \A k \in 1 .. Len(inbox) : inbox'[k] = inbox[k] /\ inbox[k] \in Event
BY DEF ServerTypeOK, Report

LEMMA PolledQueue ==
  ASSUME ServerTypeOK, NEW kind, Poll(kind)
  PROVE  /\ Len(inbox) \in Nat \ {0} /\ Len(inbox') = Len(inbox) - 1
         /\ Head(inbox) = inbox[1] /\ inbox[1] \in Event /\ inbox[1].kind = kind
         /\ \A k \in 1 .. Len(inbox) - 1 : inbox'[k] = inbox[k + 1]
         /\ occupant' = occupant
BY DEF ServerTypeOK, Poll

(* What a steady step does to the queue. *)
LEMMA SteadyQueue ==
  ASSUME ServerTypeOK, SteadyNext
  PROVE  \/ UNCHANGED <<inbox, occupant>>
         \/ \E e \in Event :
              /\ Report(e) /\ mpUser' = mpUser /\ isConnected' = isConnected
              /\ occupant[e.id] = e.from
              /\ \/ e.kind = "LEAVE" /\ occupant' = [occupant EXCEPT ![e.id] = None]
                 \/ e.kind # "LEAVE" /\ occupant' = occupant
         \/ Handle /\ \E kind \in EventKinds : Poll(kind)
<1>1. ASSUME NEW i \in Ids, EpnetLeave(i)
      PROVE  \E e \in Event :
              /\ Report(e) /\ mpUser' = mpUser /\ isConnected' = isConnected
              /\ occupant[e.id] = e.from
              /\ e.kind = "LEAVE" /\ occupant' = [occupant EXCEPT ![e.id] = None]
  <2> DEFINE e == [kind |-> "LEAVE", id |-> i, from |-> occupant[i]]
  <2>1. e \in Event /\ Report(e) /\ e.kind = "LEAVE" /\ e.id = i
        /\ e.from = occupant[i] /\ occupant' = [occupant EXCEPT ![i] = None]
    BY <1>1 DEF EpnetLeave, Event, EventKinds, ServerTypeOK, PeerData
  <2>2. mpUser' = mpUser /\ isConnected' = isConnected
    BY <2>1 DEF Report, players
  <2> HIDE DEF e
  <2> QED
    BY <2>1, <2>2
<1>2. ASSUME NEW i \in Ids, NEW kind \in EventKinds, EpnetPacket(i, kind)
      PROVE  \E e \in Event :
              /\ Report(e) /\ mpUser' = mpUser /\ isConnected' = isConnected
              /\ occupant[e.id] = e.from
              /\ e.kind # "LEAVE" /\ occupant' = occupant
  <2> DEFINE e == [kind |-> kind, id |-> i, from |-> occupant[i]]
  <2>1. e \in Event /\ Report(e) /\ e.kind # "LEAVE" /\ e.id = i
        /\ e.from = occupant[i] /\ occupant' = occupant
    BY <1>2 DEF EpnetPacket, Event, ServerTypeOK, PeerData
  <2>2. mpUser' = mpUser /\ isConnected' = isConnected
    BY <2>1 DEF Report, players
  <2> HIDE DEF e
  <2> QED
    BY <2>1, <2>2
<1>3. Handle => \E kind \in EventKinds : Poll(kind)
  BY DEF Handle, EventKinds, ProcessJoin, ProcessLeave, ProcessConnectionRequest,
     ProcessUserSync, ProcessActorSync, ProcessShoot
<1>4. ASSUME \/ \E dt \in Times : BeginTick(dt)
             \/ EndUpdate \/ EndPoll \/ Relay
      PROVE  UNCHANGED <<inbox, occupant>>
  BY <1>4 DEF BeginTick, EndUpdate, EndPoll, Relay, SendUsersSync, SkipUsersSync,
     SendActorsSync, SkipActorsSync
<1> QED
  BY <1>1, <1>2, <1>3, <1>4 DEF SteadyNext

(* What is in the queue was there, or is the event that is reported now.     *)
LEMMA QueuedSteady ==
  ASSUME ServerTypeOK, SteadyNext, NEW i \in Ids, NEW p \in Peers, Queued(i, p)'
  PROVE  Queued(i, p) \/ occupant[i] = p
<1>1. CASE UNCHANGED inbox
  BY <1>1 DEF Queued
<1>2. ASSUME NEW e \in Event, Report(e), occupant[e.id] = e.from
      PROVE  Queued(i, p) \/ occupant[i] = p
  BY <1>2, ReportedQueue DEF Queued
<1>3. ASSUME NEW kind, Poll(kind)
      PROVE  Queued(i, p)
  <2>1. PICK k \in 1 .. Len(inbox') : inbox'[k].id = i /\ inbox'[k].from = p
    BY DEF Queued
  <2>2. inbox'[k] = inbox[k + 1] /\ k + 1 \in 1 .. Len(inbox)
    BY <1>3, <2>1, PolledQueue
  <2> QED
    BY <2>1, <2>2 DEF Queued
<1> QED
  BY <1>1, <1>2, <1>3, SteadyQueue

(* A packet of actors that was not sent before is one of the table, without  *)
(* the slot that it is for.                                                  *)
FromTable(d, q) ==
  d \notin DOMAIN q.items /\ \A i \in DOMAIN q.items : q.items[i] = mpActor[i]

LEMMA SentActors ==
  ASSUME ServerTypeOK, ServerNext,
         NEW d \in Ids, NEW k \in 1 .. Len(sent'[d]), sent'[d][k].type = "ACTORS_SYNC"
  PROVE  \/ k \in 1 .. Len(sent[d]) /\ sent'[d][k] = sent[d][k]
         \/ FromTable(d, sent'[d][k])
<1>1. sent[d] \in Seq(Packet)
  BY DEF ServerTypeOK
<1>2. ASSUME NEW q, sent'[d] \in {sent[d], Append(sent[d], q)},
             q.type = "ACTORS_SYNC" => FromTable(d, q)
      PROVE  \/ k \in 1 .. Len(sent[d]) /\ sent'[d][k] = sent[d][k]
             \/ FromTable(d, sent'[d][k])
  BY <1>1, <1>2, AppendedPacket
<1>3. CASE UNCHANGED sent
  BY <1>3
<1>4. ASSUME NEW dt \in Times, BeginTick(dt)
      PROVE  FALSE
  <2>1. sent'[d] = <<>>
    BY <1>4 DEF BeginTick
  <2> QED
    BY <2>1
<1>5. CASE SendUsersSync
  <2> DEFINE q == [type |-> "USERS_SYNC",
                   items |-> [j \in ListedFor(d, userSyncTime) |-> mpUser[j]]]
  <2>1. q.type # "ACTORS_SYNC" /\ sent'[d] \in {sent[d], Append(sent[d], q)}
    BY <1>5 DEF SendUsersSync, SendSync
  <2> HIDE DEF q
  <2> QED
    BY <1>2, <2>1
<1>6. CASE SendActorsSync
  <2> DEFINE q == [type |-> "ACTORS_SYNC",
                   items |-> [j \in ListedFor(d, actorSyncTime) |-> mpActor[j]]]
  <2>1. FromTable(d, q) /\ sent'[d] \in {sent[d], Append(sent[d], q)}
    BY <1>6 DEF SendActorsSync, SendSync, ListedFor, FromTable
  <2> HIDE DEF q
  <2> QED
    BY <1>2, <2>1
<1>7. CASE ProcessConnectionRequest
  <2> DEFINE q == [type |-> "CONNECTION_RESPONSE"]
  <2>1. q.type # "ACTORS_SYNC" /\ sent'[d] \in {sent[d], Append(sent[d], q)}
    BY <1>7 DEF ProcessConnectionRequest, Send, ServerTypeOK
  <2> HIDE DEF q
  <2> QED
    BY <1>2, <2>1
<1>8. CASE ProcessShoot
  <2> DEFINE q == [type |-> "SHOOT", player |-> Head(inbox).id]
  <2>1. q.type # "ACTORS_SYNC" /\ sent'[d] \in {sent[d], Append(sent[d], q)}
    BY <1>8 DEF ProcessShoot
  <2> HIDE DEF q
  <2> QED
    BY <1>2, <2>1
<1>9. ASSUME \/ ProcessJoin \/ ProcessLeave \/ ProcessUserSync \/ ProcessActorSync
             \/ SkipUsersSync \/ SkipActorsSync \/ EndUpdate \/ EndPoll \/ EpnetReport
      PROVE  UNCHANGED sent
  BY <1>9 DEF ProcessJoin, ProcessLeave, ProcessUserSync, ProcessActorSync,
     SkipUsersSync, SkipActorsSync, EndUpdate, EndPoll, EpnetReport, EpnetJoin,
     EpnetLeave, EpnetPacket, Report
<1> QED
  BY <1>3, <1>4, <1>5, <1>6, <1>7, <1>8, <1>9 DEF ServerNext, Handle, Relay

LEMMA NoSelfSyncStep == ServerTypeOK /\ NoSelfSync /\ ServerNext => NoSelfSync'
BY SentActors DEF NoSelfSync, FromTable

LEMMA SteadyIsServer == SteadyNext => ServerNext
BY DEF SteadyNext, ServerNext, EpnetReport

LEMMA RelayedSteady ==
  ASSUME ServerTypeOK, SteadyNext, NEW i \in Ids, NEW p, Relayed(i, p)'
  PROVE  Relayed(i, p) \/ mpActor[i] = p
<1>1. PICK d \in Ids : \E k \in 1 .. Len(sent'[d]) :
        /\ sent'[d][k].type = "ACTORS_SYNC"
        /\ i \in DOMAIN sent'[d][k].items /\ sent'[d][k].items[i] = p
  BY DEF Relayed
<1>2. PICK k \in 1 .. Len(sent'[d]) :
        /\ sent'[d][k].type = "ACTORS_SYNC"
        /\ i \in DOMAIN sent'[d][k].items /\ sent'[d][k].items[i] = p
  BY <1>1
<1>3. \/ k \in 1 .. Len(sent[d]) /\ sent'[d][k] = sent[d][k]
      \/ FromTable(d, sent'[d][k])
  BY <1>2, SentActors, SteadyIsServer
<1> QED
  BY <1>2, <1>3 DEF Relayed, FromTable

(* The table takes names and actors from the queue. *)
LEMMA TableSteady ==
  ASSUME ServerTypeOK, SteadyNext, NEW i \in Ids, NEW p \in Peers
  PROVE  /\ occupant'[i] = p => occupant[i] = p
         /\ mpUser'[i] = p => mpUser[i] = p \/ Queued(i, p)
         /\ mpActor'[i] = p => mpActor[i] = p \/ Queued(i, p)
<1>1. occupant'[i] = p => occupant[i] = p
  <2>1. p # None
    BY PeersAssumption
  <2> QED
    BY <2>1, SteadyQueue DEF ServerTypeOK, Poll
<1>2. CASE Handle
  <2>1. PICK kind \in EventKinds : Poll(kind)
    BY <1>2, SteadyQueue DEF Handle, ProcessJoin, ProcessLeave,
       ProcessConnectionRequest, ProcessUserSync, ProcessActorSync, ProcessShoot, EventKinds
  <2>2. Head(inbox).id = i /\ Head(inbox).from = p => Queued(i, p)
    BY <2>1, PolledQueue DEF Queued
  <2>3. mpUser' = mpUser \/ mpUser' = [mpUser EXCEPT ![Head(inbox).id] = Head(inbox).from]
    BY <1>2 DEF Handle, ProcessJoin, ProcessLeave, ProcessConnectionRequest,
       ProcessUserSync, ProcessActorSync, ProcessShoot, players
  <2>4. mpActor' = mpActor \/ mpActor' = [mpActor EXCEPT ![Head(inbox).id] = Head(inbox).from]
    BY <1>2 DEF Handle, ProcessJoin, ProcessLeave, ProcessConnectionRequest,
       ProcessUserSync, ProcessActorSync, ProcessShoot, players
  <2>5. mpUser'[i] = p => mpUser[i] = p \/ (Head(inbox).id = i /\ Head(inbox).from = p)
    BY <2>3 DEF ServerTypeOK
  <2>6. mpActor'[i] = p => mpActor[i] = p \/ (Head(inbox).id = i /\ Head(inbox).from = p)
    BY <2>4 DEF ServerTypeOK
  <2> QED
    BY <1>1, <2>2, <2>5, <2>6
<1>3. ASSUME ~Handle
      PROVE  UNCHANGED <<mpUser, mpActor>>
  BY <1>3 DEF SteadyNext, BeginTick, EpnetLeave, EpnetPacket, Report, EndUpdate,
     EndPoll, Relay, SendUsersSync, SkipUsersSync, SendActorsSync, SkipActorsSync, players
<1> QED
  BY <1>1, <1>2, <1>3

(* Only a join brings a slot and a peer together. *)
LEMMA SeenSteady ==
  ASSUME ServerTypeOK, SteadyNext, NEW i \in Ids, NEW p \in Peers, Seen(i, p)'
  PROVE  Seen(i, p)
BY QueuedSteady, RelayedSteady, TableSteady DEF Seen

LEMMA SeenJoin ==
  ASSUME ServerTypeOK, NEW q \in Peers, NEW j \in Ids, EpnetJoin(q, j),
         NEW i \in Ids, NEW p \in Peers, Seen(i, p)'
  PROVE  Seen(i, p) \/ (i = j /\ p = q)
<1> DEFINE e == [kind |-> "JOIN", id |-> j, from |-> q]
<1>1. e \in Event /\ Report(e) /\ e.id = j /\ e.from = q
  BY DEF EpnetJoin, Event, EventKinds
<1>2. occupant'[i] = p => occupant[i] = p \/ (i = j /\ p = q)
  BY DEF EpnetJoin, ServerTypeOK
<1>3. UNCHANGED <<mpUser, mpActor, sent>>
  BY <1>1 DEF Report, players
<1> HIDE DEF e
<1>4. Queued(i, p)' => Queued(i, p) \/ (i = j /\ p = q)
  BY <1>1, ReportedQueue DEF Queued
<1>5. Relayed(i, p)' => Relayed(i, p)
  BY <1>3 DEF Relayed
<1> QED
  BY <1>2, <1>3, <1>4, <1>5 DEF Seen

(* The leaves in the queue stay older than what the holders do. *)
LEMMA LeavesStepSteady ==
  ASSUME ServerTypeOK, LeavesAreOld, SteadyNext
  PROVE  LeavesAreOld'
<1>1. CASE UNCHANGED <<inbox, occupant>> /\ ~Handle
  <2>1. UNCHANGED mpUser
    BY <1>1 DEF SteadyNext, BeginTick, EpnetLeave, EpnetPacket, Report, EndUpdate,
       EndPoll, Relay, SendUsersSync, SkipUsersSync, SendActorsSync, SkipActorsSync,
       players
  <2> QED
    BY <1>1, <2>1 DEF LeavesAreOld
<1>2. ASSUME NEW e \in Event, Report(e), mpUser' = mpUser,
             \/ e.kind = "LEAVE" /\ occupant' = [occupant EXCEPT ![e.id] = None]
             \/ e.kind # "LEAVE" /\ occupant' = occupant
      PROVE  LeavesAreOld'
  <2> SUFFICES ASSUME NEW k \in 1 .. Len(inbox'), inbox'[k].kind = "LEAVE"
               PROVE  /\ \A j \in 1 .. k :
                           inbox'[j].id = inbox'[k].id
                             => inbox'[j].from # occupant'[inbox'[k].id]
                      /\ occupant'[inbox'[k].id] # None
                           => mpUser[inbox'[k].id] # occupant'[inbox'[k].id]
    BY <1>2 DEF LeavesAreOld
  <2>1. /\ Len(inbox) \in Nat /\ Len(inbox') = Len(inbox) + 1
        /\ inbox'[Len(inbox) + 1] = e
        /\ \A j \in 1 .. Len(inbox) : inbox'[j] = inbox[j] /\ inbox[j] \in Event
    BY <1>2, ReportedQueue
  <2>2. \A j \in 1 .. k : inbox'[j].from # None
    <3>1. \A j \in 1 .. k : inbox'[j] \in Event
      BY <1>2, <2>1
    <3> QED
      BY <3>1, PeersAssumption DEF Event
  <2>3. CASE inbox'[k].id = e.id /\ e.kind = "LEAVE"
    <3>1. occupant'[inbox'[k].id] = None
      BY <1>2, <2>3 DEF ServerTypeOK, Event
    <3> QED
      BY <2>2, <3>1
  <2>4. CASE ~(inbox'[k].id = e.id /\ e.kind = "LEAVE")
    <3>1. k \in 1 .. Len(inbox) /\ inbox'[k] = inbox[k]
      BY <2>1, <2>4
    <3>2. occupant'[inbox[k].id] = occupant[inbox[k].id]
      BY <1>2, <2>1, <2>4, <3>1 DEF ServerTypeOK, Event
    <3>3. \A j \in 1 .. k : inbox'[j] = inbox[j]
      BY <2>1, <3>1
    <3> QED
      BY <3>1, <3>2, <3>3 DEF LeavesAreOld
  <2> QED
    BY <2>3, <2>4
<1>3. ASSUME Handle, NEW kind, Poll(kind)
      PROVE  LeavesAreOld'
  <2> SUFFICES ASSUME NEW k \in 1 .. Len(inbox'), inbox'[k].kind = "LEAVE"
               PROVE  /\ \A j \in 1 .. k :
                           inbox'[j].id = inbox'[k].id
                             => inbox'[j].from # occupant[inbox'[k].id]
                      /\ occupant[inbox'[k].id] # None
                           => mpUser'[inbox'[k].id] # occupant[inbox'[k].id]
    BY <1>3, PolledQueue DEF LeavesAreOld
  <2>1. /\ Len(inbox) \in Nat \ {0} /\ Len(inbox') = Len(inbox) - 1
        /\ Head(inbox) = inbox[1]
        /\ \A j \in 1 .. Len(inbox) - 1 : inbox'[j] = inbox[j + 1]
    BY <1>3, PolledQueue
  <2>2. /\ k + 1 \in 1 .. Len(inbox) /\ inbox'[k] = inbox[k + 1]
        /\ \A j \in 1 .. k : j + 1 \in 1 .. k + 1 /\ inbox'[j] = inbox[j + 1]
        /\ 1 \in 1 .. k + 1
    BY <2>1
  <2>3. /\ \A j \in 1 .. k + 1 :
             inbox[j].id = inbox[k + 1].id => inbox[j].from # occupant[inbox[k + 1].id]
        /\ occupant[inbox[k + 1].id] # None
             => mpUser[inbox[k + 1].id] # occupant[inbox[k + 1].id]
    BY <2>2 DEF LeavesAreOld
  <2>4. mpUser' = mpUser \/ mpUser' = [mpUser EXCEPT ![Head(inbox).id] = Head(inbox).from]
    BY <1>3 DEF Handle, ProcessJoin, ProcessLeave, ProcessConnectionRequest,
       ProcessUserSync, ProcessActorSync, ProcessShoot, players
  <2>5. inbox[k + 1].id \in Ids
    <3>1. inbox[k + 1] \in Event
      BY <2>2 DEF ServerTypeOK
    <3> QED
      BY <3>1 DEF Event
  <2>6. occupant[inbox[k + 1].id] # None
          => mpUser'[inbox[k + 1].id] # occupant[inbox[k + 1].id]
    BY <2>1, <2>2, <2>3, <2>4, <2>5 DEF ServerTypeOK
  <2> QED
    BY <2>2, <2>3, <2>6
<1>4. Handle => \E kind : Poll(kind)
  BY DEF Handle, ProcessJoin, ProcessLeave, ProcessConnectionRequest, ProcessUserSync,
     ProcessActorSync, ProcessShoot
<1> QED
  BY <1>1, <1>2, <1>3, <1>4, SteadyQueue

LEMMA LeavesStepJoin ==
  ASSUME ServerTypeOK, LeavesAreOld, NEW p \in Peers, NEW i \in Ids, EpnetJoin(p, i),
         ~Seen(i, p)
  PROVE  LeavesAreOld'
<1> DEFINE e == [kind |-> "JOIN", id |-> i, from |-> p]
<1>1. e \in Event /\ Report(e) /\ e.kind # "LEAVE" /\ occupant' = [occupant EXCEPT ![i] = p]
  BY DEF EpnetJoin, Event, EventKinds
<1>2. mpUser' = mpUser /\ mpUser[i] # p
  BY <1>1 DEF Report, players, Seen
<1> HIDE DEF e
<1>3. /\ Len(inbox) \in Nat /\ Len(inbox') = Len(inbox) + 1
      /\ inbox'[Len(inbox) + 1] = e
      /\ \A j \in 1 .. Len(inbox) : inbox'[j] = inbox[j] /\ inbox[j] \in Event
  BY <1>1, ReportedQueue
<1> SUFFICES ASSUME NEW k \in 1 .. Len(inbox'), inbox'[k].kind = "LEAVE"
             PROVE  /\ \A j \in 1 .. k :
                         inbox'[j].id = inbox'[k].id
                           => inbox'[j].from # occupant'[inbox'[k].id]
                    /\ occupant'[inbox'[k].id] # None
                         => mpUser[inbox'[k].id] # occupant'[inbox'[k].id]
  BY <1>2 DEF LeavesAreOld
<1>4. /\ k \in 1 .. Len(inbox) /\ inbox'[k] = inbox[k]
      /\ \A j \in 1 .. k : j \in 1 .. Len(inbox) /\ inbox'[j] = inbox[j]
  BY <1>1, <1>3
<1>5. CASE inbox[k].id = i
  <2>1. occupant'[i] = p
    BY <1>1 DEF ServerTypeOK
  <2>2. \A j \in 1 .. k : inbox[j].id = i => inbox[j].from # p
    BY <1>4 DEF Seen, Queued
  <2> QED
    BY <1>2, <1>4, <1>5, <2>1, <2>2
<1>6. CASE inbox[k].id # i
  <2>1. occupant'[inbox[k].id] = occupant[inbox[k].id]
    <3>1. inbox[k].id \in Ids
      BY <1>3, <1>4 DEF Event
    <3> QED
      BY <1>1, <1>6, <3>1 DEF ServerTypeOK
  <2> QED
    BY <1>4, <2>1 DEF LeavesAreOld
<1> QED
  BY <1>5, <1>6

(* A player stays one while it holds its slot: whatever is handled in the    *)
(* meantime is its own, or older than its name in the table.                 *)
LEMMA PlayerStays ==
  ASSUME SlotInv, LeavesAreOld, ServerNext,
         NEW i \in Ids, NEW p \in Peers, occupant[i] = p, Player(i, p)
  PROVE  Player(i, p)'
<1>1. ServerTypeOK /\ p # None
  BY PeersAssumption DEF SlotInv
<1>2. CASE ~Handle
  BY <1>2 DEF ServerNext, EpnetReport, BeginTick, EpnetJoin, EpnetLeave, EpnetPacket,
     Report, EndUpdate, EndPoll, Relay, SendUsersSync, SkipUsersSync, SendActorsSync,
     SkipActorsSync, players, Player
<1>3. CASE Handle
  <2>1. PICK kind : Poll(kind) /\ kind = Head(inbox).kind
    BY <1>3 DEF Handle, ProcessJoin, ProcessLeave, ProcessConnectionRequest,
       ProcessUserSync, ProcessActorSync, ProcessShoot, Poll
  <2>2. Len(inbox) \in Nat \ {0} /\ Head(inbox) = inbox[1] /\ inbox[1] \in Event
    BY <1>1, <2>1, PolledQueue
  <2>3. ~\E k \in 1 .. Len(inbox) : inbox[k].kind = "LEAVE" /\ inbox[k].id = i
    BY <1>1 DEF LeavesAreOld, Player
  <2>4. /\ Head(inbox).id = i => Head(inbox).from = p
        /\ ~(Head(inbox).kind = "LEAVE" /\ Head(inbox).id = i)
    BY <2>2, <2>3 DEF SlotInv, QueueIsCurrent
  <2>5. CASE ProcessLeave
    BY <1>1, <2>4, <2>5 DEF ProcessLeave, AfterLeave, Poll, Player, ServerTypeOK
  <2>6. CASE ProcessConnectionRequest
    BY <1>1, <2>4, <2>6 DEF ProcessConnectionRequest, Accepted, Player, ServerTypeOK
  <2>7. CASE ProcessUserSync
    BY <1>1, <2>4, <2>7 DEF ProcessUserSync, Player, ServerTypeOK
  <2>8. CASE ProcessJoin \/ ProcessActorSync \/ ProcessShoot
    BY <2>8 DEF ProcessJoin, ProcessActorSync, ProcessShoot, players, Player
  <2> QED
    BY <1>3, <2>5, <2>6, <2>7, <2>8 DEF Handle
<1> QED
  BY <1>2, <1>3

(* A queued request stays queued until it makes its sender a player. *)
Requested(i, p) ==
  \E k \in 1 .. Len(inbox) :
    inbox[k].kind = "CONNECTION_REQUEST" /\ inbox[k].id = i /\ inbox[k].from = p

LEMMA RequestStays ==
  ASSUME ServerTypeOK, ServerNext, NEW i \in Ids, NEW p \in Peers, Requested(i, p)
  PROVE  Requested(i, p)' \/ Player(i, p)'
<1>1. PICK k \in 1 .. Len(inbox) :
        inbox[k].kind = "CONNECTION_REQUEST" /\ inbox[k].id = i /\ inbox[k].from = p
  BY DEF Requested
<1>2. CASE UNCHANGED inbox
  BY <1>2 DEF Requested
<1>3. ASSUME NEW e \in Event, Report(e)
      PROVE  Requested(i, p)'
  <2>1. k \in 1 .. Len(inbox') /\ inbox'[k] = inbox[k]
    BY <1>1, <1>3, ReportedQueue
  <2> QED
    BY <1>1, <2>1 DEF Requested
<1>4. ASSUME Handle, NEW kind, Poll(kind)
      PROVE  Requested(i, p)' \/ Player(i, p)'
  <2>1. /\ Len(inbox) \in Nat \ {0} /\ Len(inbox') = Len(inbox) - 1
        /\ Head(inbox) = inbox[1] /\ inbox[1].kind = kind
        /\ \A j \in 1 .. Len(inbox) - 1 : inbox'[j] = inbox[j + 1]
    BY <1>4, PolledQueue
  <2>2. CASE k = 1
    <3>1. Head(inbox).kind = "CONNECTION_REQUEST" /\ Head(inbox).id = i
          /\ Head(inbox).from = p
      BY <1>1, <2>1, <2>2
    <3>2. ProcessConnectionRequest
      BY <1>4, <3>1 DEF Handle, ProcessJoin, ProcessLeave, ProcessUserSync,
         ProcessActorSync, ProcessShoot, Poll
    <3> QED
      BY <3>1, <3>2 DEF ProcessConnectionRequest, Accepted, Player, ServerTypeOK
  <2>3. CASE k # 1
    <3>1. k - 1 \in 1 .. Len(inbox') /\ inbox'[k - 1] = inbox[k]
      <4>1. k - 1 \in 1 .. Len(inbox) - 1 /\ (k - 1) + 1 = k
        BY <1>1, <2>1, <2>3
      <4> QED
        BY <2>1, <4>1
    <3> QED
      BY <1>1, <3>1 DEF Requested
  <2> QED
    BY <2>2, <2>3
<1>5. CASE \E q \in Peers, j \in Ids : EpnetJoin(q, j)
  <2>1. PICK q \in Peers, j \in Ids : EpnetJoin(q, j)
    BY <1>5
  <2>2. [kind |-> "JOIN", id |-> j, from |-> q] \in Event
    BY DEF Event, EventKinds
  <2> QED
    BY <1>3, <2>1, <2>2 DEF EpnetJoin
<1>6. CASE SteadyNext
  <2>1. Handle => \E kind : Poll(kind)
    BY DEF Handle, ProcessJoin, ProcessLeave, ProcessConnectionRequest,
       ProcessUserSync, ProcessActorSync, ProcessShoot
  <2> QED
    BY <1>2, <1>3, <1>4, <1>6, <2>1, SteadyQueue
<1> QED
  BY <1>5, <1>6 DEF ServerNext, EpnetReport, SteadyNext

(* The order that the table and the queue keep. *)
TableOrder == SlotInv /\ LeavesAreOld /\ NoSelfSync

LEMMA TableInit ==
  ASSUME ServerInit
  PROVE  TableOrder /\ \A i \in Ids, p \in Peers : ~Seen(i, p)
<1>1. /\ inbox = <<>> /\ Len(inbox) = 0
      /\ \A d \in Ids : sent[d] = <<>> /\ Len(sent[d]) = 0
  BY DEF ServerInit
<1>2. SlotInv
  BY SlotInvInit
<1>3. LeavesAreOld /\ NoSelfSync
  BY <1>1 DEF LeavesAreOld, NoSelfSync
<1>4. ASSUME NEW i \in Ids, NEW p \in Peers PROVE ~Seen(i, p)
  <2>1. occupant[i] # p /\ mpUser[i] # p /\ mpActor[i] # p
    BY PeersAssumption DEF ServerInit
  <2> QED
    BY <1>1, <2>1 DEF Seen, Queued, Relayed
<1> QED
  BY <1>2, <1>3, <1>4 DEF TableOrder

LEMMA TableStands ==
  ASSUME UNCHANGED vars
  PROVE  /\ TableOrder => TableOrder'
         /\ \A i \in Ids, p \in Peers :
              /\ Seen(i, p)' <=> Seen(i, p)
              /\ Player(i, p)' <=> Player(i, p)
              /\ Requested(i, p)' <=> Requested(i, p)
<1> USE DEF vars, clock, players
<1>1. SlotInv => SlotInv'
  BY SlotInvNext
<1>2. LeavesAreOld => LeavesAreOld'
  BY DEF LeavesAreOld
<1>3. NoSelfSync => NoSelfSync'
  BY DEF NoSelfSync
<1>4. ASSUME NEW i \in Ids, NEW p \in Peers
      PROVE  /\ Seen(i, p)' <=> Seen(i, p)
             /\ Player(i, p)' <=> Player(i, p)
             /\ Requested(i, p)' <=> Requested(i, p)
  BY DEF Seen, Queued, Relayed, Player, Requested
<1> QED
  BY <1>1, <1>2, <1>3, <1>4 DEF TableOrder

LEMMA TableStep ==
  ASSUME TableOrder, SteadyNext
  PROVE  /\ TableOrder'
         /\ \A i \in Ids, p \in Peers :
              /\ Seen(i, p)' => Seen(i, p)
              /\ occupant'[i] = p => occupant[i] = p
              /\ occupant[i] = p /\ Player(i, p) => Player(i, p)'
              /\ Requested(i, p) => Requested(i, p)' \/ Player(i, p)'
<1>1. ServerTypeOK /\ SlotInv /\ LeavesAreOld /\ NoSelfSync /\ ServerNext
  BY SteadyIsServer DEF TableOrder, SlotInv
<1>2. TableOrder'
  BY <1>1, SlotInvNext, LeavesStepSteady, NoSelfSyncStep DEF TableOrder
<1>3. ASSUME NEW i \in Ids, NEW p \in Peers
      PROVE  /\ Seen(i, p)' => Seen(i, p)
             /\ occupant'[i] = p => occupant[i] = p
             /\ occupant[i] = p /\ Player(i, p) => Player(i, p)'
             /\ Requested(i, p) => Requested(i, p)' \/ Player(i, p)'
  BY <1>1, SeenSteady, TableSteady, PlayerStays, RequestStays
<1> QED
  BY <1>2, <1>3

LEMMA TableJoin ==
  ASSUME TableOrder, NEW q \in Peers, NEW j \in Ids, EpnetJoin(q, j), ~Seen(j, q)
  PROVE  /\ TableOrder'
         /\ \A i \in Ids, p \in Peers :
              /\ Seen(i, p)' => Seen(i, p) \/ (i = j /\ p = q)
              /\ occupant'[i] = p => occupant[i] = p \/ (i = j /\ p = q)
              /\ occupant[i] = p /\ Player(i, p) => Player(i, p)'
              /\ Requested(i, p) => Requested(i, p)' \/ Player(i, p)'
<1>1. ServerTypeOK /\ SlotInv /\ LeavesAreOld /\ NoSelfSync
  BY DEF TableOrder, SlotInv
<1>2. ServerNext
  BY DEF ServerNext, EpnetReport
<1>3. TableOrder'
  BY <1>1, <1>2, SlotInvNext, LeavesStepJoin, NoSelfSyncStep DEF TableOrder
<1>4. ASSUME NEW i \in Ids, NEW p \in Peers
      PROVE  /\ Seen(i, p)' => Seen(i, p) \/ (i = j /\ p = q)
             /\ occupant'[i] = p => occupant[i] = p \/ (i = j /\ p = q)
             /\ occupant[i] = p /\ Player(i, p) => Player(i, p)'
             /\ Requested(i, p) => Requested(i, p)' \/ Player(i, p)'
  <2>1. Seen(i, p)' => Seen(i, p) \/ (i = j /\ p = q)
    BY <1>1, SeenJoin
  <2>2. occupant'[i] = p => occupant[i] = p \/ (i = j /\ p = q)
    BY <1>1 DEF EpnetJoin, ServerTypeOK
  <2>3. occupant[i] = p /\ Player(i, p) => Player(i, p)'
    BY <1>1, <1>2, PlayerStays
  <2>4. Requested(i, p) => Requested(i, p)' \/ Player(i, p)'
    BY <1>1, <1>2, RequestStays
  <2> QED
    BY <2>1, <2>2, <2>3, <2>4
<1> QED
  BY <1>3, <1>4

(* A request that the slot's holder sends now is queued. *)
LEMMA RequestQueued ==
  ASSUME ServerTypeOK, NEW i \in Ids, NEW p \in Peers, occupant[i] = p,
         EpnetPacket(i, "CONNECTION_REQUEST")
  PROVE  Requested(i, p)'
<1> DEFINE e == [kind |-> "CONNECTION_REQUEST", id |-> i, from |-> p]
<1>1. e \in Event /\ Report(e)
  BY DEF EpnetPacket, Event, EventKinds
<1>2. /\ Len(inbox) \in Nat /\ Len(inbox') = Len(inbox) + 1
      /\ inbox'[Len(inbox) + 1] = e
  BY <1>1, ReportedQueue
<1>3. Len(inbox) + 1 \in 1 .. Len(inbox')
  BY <1>2
<1> QED
  BY <1>2, <1>3 DEF Requested
=============================================================================
