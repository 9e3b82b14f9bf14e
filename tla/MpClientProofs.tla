--------------------------- MODULE MpClientProofs ---------------------------
(***************************************************************************)
(* What holds of the client state machine of MpClient for any number of    *)
(* clients, any packets, sessions, rates and clocks, and for every order   *)
(* of ticks, calls of the game and events of the network.                  *)
(***************************************************************************)
EXTENDS MpClient, SequenceLemmas

LEMMA TimeTypes ==
  /\ 0 \in Times
  /\ \A now, dt \in Times : Advance(now, dt) \in Times
BY RatesAssumption DEF Times, Advance

LEMMA SessionTypes == 0 \in Sessions /\ \A n \in Sessions : n \in Nat
BY SessionsAssumption DEF Sessions

LEMMA EventTypes ==
  /\ Connected \in Event /\ Disconnected \in Event /\ Connected # Disconnected
  /\ \A p \in ServerPackets :
       /\ PacketEvent(p) \in Event
       /\ PacketEvent(p) # Disconnected /\ PacketEvent(p) # Connected
  /\ \A e \in Event : IsResponse(e) => e # Disconnected
<1>1. Connected.kind # Disconnected.kind /\ Disconnected.kind # "PACKET"
  BY DEF Connected, Disconnected
<1>2. Connected \in Event /\ Disconnected \in Event
  BY DEF Event
<1>3. ASSUME NEW p \in ServerPackets
      PROVE  /\ PacketEvent(p) \in Event
             /\ PacketEvent(p) # Disconnected /\ PacketEvent(p) # Connected
  <2>1. PacketEvent(p).kind = "PACKET" /\ Connected.kind # "PACKET"
    BY DEF PacketEvent, Connected
  <2> QED
    BY <1>1, <2>1 DEF Event
<1>4. \A e : IsResponse(e) => e # Disconnected
  BY <1>1 DEF IsResponse
<1> QED
  BY <1>1, <1>2, <1>3, <1>4

-----------------------------------------------------------------------------
(* The queue of events. *)

LEMMA RangeOfEvents ==
  ASSUME NEW queue \in Seq(Event)
  PROVE  /\ DOMAIN queue = 1 .. Len(queue) /\ Len(queue) \in Nat
         /\ \A k \in DOMAIN queue : queue[k] \in Event
         /\ \A e : e \in Range(queue) <=> \E k \in DOMAIN queue : queue[k] = e
BY LenProperties, ElementOfSeq DEF Range

(* A poll loop that stops somewhere stops at the first place it can. *)
LEMMA FirstStop ==
  ASSUME NEW c, events[c] \in Seq(Event), NEW ending, Stops(c, ending) # {}
  PROVE  /\ First(Stops(c, ending)) \in Stops(c, ending)
         /\ First(Stops(c, ending)) \in 1 .. Len(events[c])
         /\ events[c][First(Stops(c, ending))] \in ending
         /\ \A j \in Stops(c, ending) : First(Stops(c, ending)) <= j
<1> DEFINE S == Stops(c, ending)
<1>1. S \subseteq 1 .. Len(events[c]) /\ Len(events[c]) \in Nat
  BY RangeOfEvents DEF Stops
<1>2. \E k \in S : \A j \in S : k <= j
  BY <1>1, SmallestIn
<1>3. First(S) \in S /\ \A j \in S : First(S) <= j
  BY <1>2 DEF First
<1>4. \A k \in S : events[c][k] \in ending
  BY DEF Stops
<1> QED
  BY <1>1, <1>3, <1>4

(* What a poll loop leaves was queued behind the place where it stopped. *)
LEMMA Rest ==
  ASSUME NEW c, events[c] \in Seq(Event), NEW ending
  PROVE  LET stops == Stops(c, ending)
             rest == RestAfter(c, stops)
         IN  /\ rest \in Seq(Event)
             /\ Range(rest) \subseteq Range(events[c])
             /\ stops = {} => Range(rest) = {}
             /\ stops # {} => \A k \in DOMAIN events[c] :
                                k > First(stops) => events[c][k] \in Range(rest)
<1> DEFINE stops == Stops(c, ending)
           rest == RestAfter(c, stops)
           n == Len(events[c])
<1>1. n \in Nat /\ DOMAIN events[c] = 1 .. n
  BY RangeOfEvents
<1>2. CASE stops = {}
  <2>1. rest = <<>>
    BY <1>2 DEF RestAfter
  <2>2. rest \in Seq(Event) /\ Range(rest) = {}
    BY <2>1, EmptySeq DEF Range
  <2> QED
    BY <1>2, <2>2
<1>3. CASE stops # {}
  <2> DEFINE m == First(stops)
  <2>1. m \in 1 .. n
    BY <1>3, FirstStop
  <2>2. m + 1 \in Nat \ {0} /\ n - m \in Nat /\ m + 1 + (n - m) - 1 = n
    BY <1>1, <2>1
  <2>3. rest = SubSeq(events[c], m + 1, n)
    BY <1>3 DEF RestAfter
  <2> HIDE DEF m, n, rest
  <2>4. /\ rest \in Seq(Event)
        /\ Len(rest) = n - m
        /\ \A i \in 1 .. n - m : rest[i] = events[c][m + 1 + i - 1]
    <3>1. m + 1 + (n - m) - 1 <= n
      BY <1>1, <2>1
    <3> QED
      BY <2>2, <2>3, <3>1, Part DEF n
  <2>5. Range(rest) \subseteq Range(events[c])
    <3> SUFFICES ASSUME NEW i \in DOMAIN rest PROVE rest[i] \in Range(events[c])
      BY <2>4, RangeOfEvents
    <3>1. i \in 1 .. n - m /\ m + 1 + i - 1 \in 1 .. n
      BY <1>1, <2>1, <2>4, RangeOfEvents
    <3> QED
      BY <1>1, <2>4, <3>1, RangeOfEvents
  <2>6. ASSUME NEW k \in DOMAIN events[c], k > m PROVE events[c][k] \in Range(rest)
    <3>1. k - m \in 1 .. n - m /\ m + 1 + (k - m) - 1 = k
      BY <1>1, <2>1, <2>6
    <3>2. k - m \in DOMAIN rest /\ rest[k - m] = events[c][k]
      BY <2>4, <3>1, RangeOfEvents
    <3> QED
      BY <2>4, <3>2, RangeOfEvents
  <2> QED
    BY <1>3, <2>4, <2>5, <2>6 DEF m, rest
<1> QED
  BY <1>2, <1>3

(* What epnet appends to the queue is found in it, and nothing gets lost. *)
LEMMA Appended ==
  ASSUME NEW queue \in Seq(Event), NEW e \in Event
  PROVE  /\ Append(queue, e) \in Seq(Event)
         /\ Range(Append(queue, e)) = Range(queue) \cup {e}
<1> DEFINE longer == Append(queue, e)
           n == Len(queue)
<1>1. n \in Nat /\ DOMAIN queue = 1 .. n
  BY RangeOfEvents
<1>2. /\ longer \in Seq(Event) /\ DOMAIN longer = 1 .. n + 1
      /\ \A i \in 1 .. n : longer[i] = queue[i]
      /\ longer[n + 1] = e
  BY <1>1, AppendProperties
<1> HIDE DEF longer
<1>3. \A i \in DOMAIN longer : i \in DOMAIN queue \/ i = n + 1
  BY <1>1, <1>2
<1>4. DOMAIN queue \subseteq DOMAIN longer /\ n + 1 \in DOMAIN longer
  BY <1>1, <1>2
<1>5. Range(longer) \subseteq Range(queue) \cup {e}
  BY <1>1, <1>2, <1>3 DEF Range
<1>6. Range(queue) \cup {e} \subseteq Range(longer)
  BY <1>1, <1>2, <1>4 DEF Range
<1> QED
  BY <1>2, <1>5, <1>6 DEF longer
-----------------------------------------------------------------------------
(* Types. *)

LEMMA OnWireType ==
  ASSUME NEW c \in Clients, NEW n \in Sessions, NEW kinds \in Seq(SentKinds),
         out \in [Clients -> Seq([session : Sessions, kind : SentKinds])]
  PROVE  OnWire(c, n, kinds) \in [Clients -> Seq([session : Sessions, kind : SentKinds])]
<1> DEFINE Message == [session : Sessions, kind : SentKinds]
           sending == [k \in 1 .. Len(kinds) |-> [session |-> n, kind |-> kinds[k]]]
<1>1. Len(kinds) \in Nat /\ \A k \in 1 .. Len(kinds) : kinds[k] \in SentKinds
  BY LenProperties, ElementOfSeq
<1>2. sending \in [1 .. Len(kinds) -> Message]
  BY <1>1
<1> HIDE DEF Message
<1>3. sending \in Seq(Message)
  BY <1>1, <1>2, FunctionIsSeq
<1> HIDE DEF sending
<1>4. out[c] \o sending \in Seq(Message)
  BY <1>3, ConcatProperties DEF Message
<1>5. OnWire(c, n, kinds) = [out EXCEPT ![c] = out[c] \o sending]
  BY DEF OnWire, sending
<1> QED
  BY <1>4, <1>5 DEF Message

LEMMA TransmitType ==
  ASSUME ClientTypeOK, NEW c \in Clients, NEW kinds \in Seq(SentKinds),
         out' \in {out, OnWire(c, session[c], kinds)}
  PROVE  out' \in [Clients -> Seq([session : Sessions, kind : SentKinds])]
<1>1. session[c] \in Sessions
      /\ out \in [Clients -> Seq([session : Sessions, kind : SentKinds])]
  BY DEF ClientTypeOK
<1>2. OnWire(c, session[c], kinds)
        \in [Clients -> Seq([session : Sessions, kind : SentKinds])]
  BY <1>1, OnWireType
<1> QED
  BY <1>1, <1>2

LEMMA NoCallsType ==
  ASSUME ClientTypeOK, NEW c \in Clients, NoCalls(c)
  PROVE  calls' \in [Clients -> Seq(ServerPackets)]
<1>1. <<>> \in Seq(ServerPackets)
  BY EmptySeq
<1> QED
  BY <1>1 DEF NoCalls, ClientTypeOK

LEMMA KindsTypes ==
  /\ <<>> \in Seq(SentKinds)
  /\ \A kind \in SentKinds : <<kind>> \in Seq(SentKinds)
  /\ \A a, b \in Seq(SentKinds) : a \o b \in Seq(SentKinds)
  /\ {"OPEN", "CLOSE", "CONNECTION_REQUEST", "USER_SYNC", "ACTOR_SYNC", "SHOOT"}
       \subseteq SentKinds
<1>1. \A kind \in SentKinds : <<kind>> \in Seq(SentKinds)
  OBVIOUS
<1> QED
  BY <1>1, EmptySeq, ConcatProperties DEF SentKinds

(* The callbacks get the packets that the tick has read. *)
LEMMA CallsType ==
  ASSUME NEW game, NEW read \in Seq(Event),
         game = Sift(read, {e \in Range(read) : e.kind = "PACKET" /\ ~IsResponse(e)})
  PROVE  [k \in 1 .. Len(game) |-> game[k].packet] \in Seq(ServerPackets)
<1> DEFINE Games == {e \in Range(read) : e.kind = "PACKET" /\ ~IsResponse(e)}
<1>1. game \in Seq(Event \cap Games)
  BY SiftProperties
<1>2. ASSUME NEW e \in Event \cap Games PROVE e.packet \in ServerPackets
  BY DEF Event, Connected, Disconnected, PacketEvent
<1> HIDE DEF Games
<1>3. Len(game) \in Nat /\ \A k \in 1 .. Len(game) : game[k] \in Event \cap Games
  BY <1>1, LenProperties, ElementOfSeq
<1>4. [k \in 1 .. Len(game) |-> game[k].packet] \in [1 .. Len(game) -> ServerPackets]
  BY <1>2, <1>3
<1> QED
  BY <1>3, <1>4, FunctionIsSeq

LEMMA ClientInitType == ClientInit => ClientTypeOK
<1> SUFFICES ASSUME ClientInit PROVE ClientTypeOK
  OBVIOUS
<1>1. /\ <<>> \in Seq(Event) /\ <<>> \in Seq(ServerPackets)
      /\ <<>> \in Seq([session : Sessions, kind : SentKinds])
  BY EmptySeq
<1> QED
  BY <1>1, TimeTypes, SessionTypes DEF ClientInit, ClientTypeOK, States, Substates

(* A tick leaves everything well typed if it queues and sends what it may.   *)
LEMMA CallTypes ==
  ASSUME ClientTypeOK, NEW c \in Clients, ClientCall(c)
  PROVE  ClientTypeOK'
<1> USE DEF ClientTypeOK, clocks, ghosts
<1>1. calls' \in [Clients -> Seq(ServerPackets)] \/ UNCHANGED calls
  BY NoCallsType DEF ClientCall, ConnectionRequest, Disconnect, SendShoot
<1>2. CASE ConnectionRequest(c)
  <2>1. session[c] + 1 \in Sessions
    BY <1>2, SessionsAssumption DEF ConnectionRequest, Sessions
  <2>2. out' \in [Clients -> Seq([session : Sessions, kind : SentKinds])]
    BY <1>2, <2>1, KindsTypes, OnWireType DEF ConnectionRequest
  <2>3. events' \in [Clients -> Seq(Event)]
    BY <1>2, EmptySeq DEF ConnectionRequest
  <2> QED
    BY <1>1, <1>2, <2>1, <2>2, <2>3 DEF ConnectionRequest, States
<1>3. CASE Disconnect(c)
  <2>1. out' \in [Clients -> Seq([session : Sessions, kind : SentKinds])]
    BY <1>3, KindsTypes, OnWireType DEF Disconnect
  <2> QED
    BY <1>1, <1>3, <2>1 DEF Disconnect, States
<1>4. CASE SendShoot(c)
  <2>1. out' \in [Clients -> Seq([session : Sessions, kind : SentKinds])]
    <3>1. <<"SHOOT">> \in Seq(SentKinds)
      BY KindsTypes
    <3>2. out' \in {out, OnWire(c, session[c], <<"SHOOT">>)}
      BY <1>4 DEF SendShoot, Transmit
    <3> QED
      BY <3>1, <3>2, TransmitType
  <2> QED
    BY <1>4, <2>1 DEF SendShoot
<1> QED
  BY <1>2, <1>3, <1>4 DEF ClientCall

LEMMA EpnetTypes ==
  ASSUME ClientTypeOK, NEW c \in Clients, EpnetStep(c)
  PROVE  ClientTypeOK'
<1> USE DEF ClientTypeOK, clocks, ghosts
<1>1. CASE EpnetOpen(c)
  <2>1. Append(events[c], Connected) \in Seq(Event)
    BY EventTypes, Appended
  <2> QED
    BY <1>1, <2>1 DEF EpnetOpen
<1>2. CASE EpnetClose(c)
  <2>1. Append(events[c], Disconnected) \in Seq(Event)
    BY EventTypes, Appended
  <2> QED
    BY <1>2, <2>1 DEF EpnetClose
<1>3. CASE EpnetTake(c)
  <2>1. Tail(out[c]) \in Seq([session : Sessions, kind : SentKinds])
    BY <1>3, HeadTailProperties DEF EpnetTake
  <2> QED
    BY <1>3, <2>1 DEF EpnetTake
<1>4. ASSUME NEW p \in ServerPackets, EpnetReceive(c, p) PROVE ClientTypeOK'
  <2>1. Append(events[c], PacketEvent(p)) \in Seq(Event)
    BY EventTypes, Appended
  <2> QED
    BY <1>4, <2>1 DEF EpnetReceive
<1> QED
  BY <1>1, <1>2, <1>3, <1>4 DEF EpnetStep

LEMMA TickTypes ==
  ASSUME ClientTypeOK, NEW c \in Clients, ClientTick(c)
  PROVE  ClientTypeOK'
<1> USE DEF ClientTypeOK
<1>1. PICK dt \in Times :
        \/ TickIdle(c, dt) \/ ConnectingIdle(c, dt) \/ ConnectingConnecting(c, dt)
        \/ ConnectingConnected(c, dt) \/ ConnectingTopLevel(c, dt)
        \/ ConnectingJustConnected(c, dt) \/ TickConnected(c, dt)
  BY DEF ClientTick
<1>2. Tick(c, dt)
  BY <1>1 DEF TickIdle, ConnectingIdle, ConnectingConnecting, ConnectingConnected,
     ConnectingTopLevel, ConnectingJustConnected, TickConnected, TickConnecting
<1>3. /\ tickTime' \in [Clients -> Times] /\ tickTime'[c] \in Times
      /\ session' = session /\ link' = link
  BY <1>2, TimeTypes DEF Tick
<1>4. calls' \in [Clients -> Seq(ServerPackets)] \/ TickConnected(c, dt)
  BY <1>1, NoCallsType DEF TickIdle, ConnectingIdle, ConnectingConnecting,
     ConnectingConnected, ConnectingTopLevel, ConnectingJustConnected,
     TickConnecting
<1>5. \A ending : RestAfter(c, Stops(c, ending)) \in Seq(Event)
  BY Rest
<1>6. CASE TickIdle(c, dt)
  BY <1>3, <1>4, <1>6 DEF TickIdle, TickConnected, States
<1>7. CASE ConnectingIdle(c, dt)
  BY <1>3, <1>4, <1>7 DEF ConnectingIdle, TickConnecting, TickConnected, Substates
<1>8. CASE ConnectingConnecting(c, dt)
  BY <1>3, <1>4, <1>5, <1>8
     DEF ConnectingConnecting, TickConnecting, TickConnected, States, Substates,
         AfterOpening
<1>9. CASE ConnectingConnected(c, dt)
  <2>1. out' \in [Clients -> Seq([session : Sessions, kind : SentKinds])]
    <3>1. <<"CONNECTION_REQUEST">> \in Seq(SentKinds)
      BY KindsTypes
    <3>2. out' \in {out, OnWire(c, session[c], <<"CONNECTION_REQUEST">>)}
      BY <1>9 DEF ConnectingConnected, TransmitRequest
    <3> QED
      BY <3>1, <3>2, TransmitType
  <2> QED
    BY <1>3, <1>4, <1>9, <2>1
       DEF ConnectingConnected, TickConnecting, TickConnected, Substates, AfterAsking
<1>10. CASE ConnectingTopLevel(c, dt)
  BY <1>3, <1>4, <1>5, <1>10
     DEF ConnectingTopLevel, TickConnecting, TickConnected, States, Substates
<1>11. CASE ConnectingJustConnected(c, dt)
  BY <1>3, <1>4, <1>11
     DEF ConnectingJustConnected, TickConnecting, TickConnected, States, Substates
<1>12. CASE TickConnected(c, dt)
  <2> DEFINE stops == Stops(c, {Disconnected})
             read == IF stops = {} THEN events[c]
                     ELSE SubSeq(events[c], 1, First(stops) - 1)
             game == Sift(read, {e \in Range(read) : e.kind = "PACKET" /\ ~IsResponse(e)})
  <2>1. read \in Seq(Event)
    <3>1. CASE stops = {}
      BY <3>1
    <3>2. CASE stops # {}
      <4> DEFINE m == First(stops)
      <4>1. m \in 1 .. Len(events[c]) /\ Len(events[c]) \in Nat
        BY <3>2, FirstStop, RangeOfEvents
      <4> HIDE DEF m
      <4>2. /\ 1 \in Nat \ {0} /\ m - 1 \in Nat /\ 1 + (m - 1) - 1 = m - 1
            /\ 1 + (m - 1) - 1 <= Len(events[c])
        BY <4>1
      <4>3. SubSeq(events[c], 1, 1 + (m - 1) - 1) \in Seq(Event)
        BY <4>2, Part
      <4> QED
        BY <3>2, <4>2, <4>3 DEF m
    <3> QED
      BY <3>1, <3>2
  <2>2. calls' \in [Clients -> Seq(ServerPackets)]
    <3>1. [k \in 1 .. Len(game) |-> game[k].packet] \in Seq(ServerPackets)
      BY <2>1, CallsType
    <3>2. calls' = [calls EXCEPT ![c] = [k \in 1 .. Len(game) |-> game[k].packet]]
      BY <1>12 DEF TickConnected
    <3> QED
      BY <3>1, <3>2
  <2>3. out' \in [Clients -> Seq([session : Sessions, kind : SentKinds])]
    <3>1. PICK user, actor \in BOOLEAN :
            Transmit(c, (IF user THEN <<"USER_SYNC">> ELSE <<>>)
                          \o (IF actor THEN <<"ACTOR_SYNC">> ELSE <<>>))
      BY <1>12 DEF TickConnected, Due
    <3> DEFINE kinds == (IF user THEN <<"USER_SYNC">> ELSE <<>>)
                          \o (IF actor THEN <<"ACTOR_SYNC">> ELSE <<>>)
    <3>2. kinds \in Seq(SentKinds)
      BY KindsTypes
    <3> HIDE DEF kinds
    <3>3. out' \in {out, OnWire(c, session[c], kinds)}
      BY <3>1 DEF Transmit, kinds
    <3> QED
      BY <3>2, <3>3, TransmitType
  <2>4. /\ userSyncTime' \in [Clients -> Times]
        /\ actorSyncTime' \in [Clients -> Times]
    BY <1>3, <1>12 DEF TickConnected
  <2>5. events' \in [Clients -> Seq(Event)]
    BY <1>5, <1>12 DEF TickConnected
  <2>6. state' \in [Clients -> States]
    BY <1>12 DEF TickConnected, States
  <2> QED
    BY <1>3, <1>12, <2>2, <2>3, <2>4, <2>5, <2>6 DEF TickConnected
<1> QED
  BY <1>1, <1>6, <1>7, <1>8, <1>9, <1>10, <1>11, <1>12

(* The client's state stays well typed: its clocks stay in the range of      *)
(* unsigned long, what a poll loop leaves queued are events, and what the    *)
(* callbacks of the game get are packets of the server.                      *)
THEOREM ClientTypeCorrect == ClientSpec => []ClientTypeOK
<1>1. ClientTypeOK /\ [ClientNext]_vars => ClientTypeOK'
  <2>1. ClientTypeOK /\ UNCHANGED vars => ClientTypeOK'
    BY DEF ClientTypeOK, vars, clocks, ghosts
  <2> QED
    BY <2>1, CallTypes, EpnetTypes, TickTypes DEF ClientNext
<1> QED
  BY ClientInitType, <1>1, PTL DEF ClientSpec

-----------------------------------------------------------------------------
(* The link. *)

(* What is needed beside LinkIsAccountedFor: the news that a link is gone is *)
(* only ever read when it is gone.                                           *)
NewsIsTrue ==
  \A c \in Clients : Disconnected \in Range(events[c]) => link[c] = "closed"

LinkInv == ClientTypeOK /\ LinkIsAccountedFor /\ NewsIsTrue

(* The same for one client. *)
Accounted(c) ==
  /\ IF state[c] \in {"CONNECTING", "CONNECTED"}
       THEN link[c] = "closed" => Disconnected \in Range(events[c])
       ELSE link[c] = "closed"
  /\ Disconnected \in Range(events[c]) => link[c] = "closed"

LEMMA ForEachClient ==
  LinkIsAccountedFor /\ NewsIsTrue <=> \A c \in Clients : Accounted(c)
BY DEF LinkIsAccountedFor, NewsIsTrue, Accounted

(* A step of one client is no step of another. *)
LEMMA OthersStandStill ==
  ASSUME ClientTypeOK, NEW c \in Clients,
         ClientTick(c) \/ ClientCall(c) \/ EpnetStep(c),
         NEW d \in Clients \ {c}
  PROVE  /\ state'[d] = state[d] /\ substate'[d] = substate[d]
         /\ config'[d] = config[d] /\ session'[d] = session[d]
         /\ asked'[d] = asked[d] /\ fresh'[d] = fresh[d]
         /\ link'[d] = link[d] /\ events'[d] = events[d]
<1> USE DEF ClientTypeOK
<1>1. CASE ClientTick(c)
  BY <1>1 DEF ClientTick, TickIdle, ConnectingIdle, ConnectingConnecting,
     ConnectingConnected, ConnectingTopLevel, ConnectingJustConnected,
     TickConnected, TickConnecting, Tick
<1>2. CASE ClientCall(c)
  BY <1>2 DEF ClientCall, ConnectionRequest, Disconnect, SendShoot, clocks, ghosts
<1>3. CASE EpnetStep(c)
  BY <1>3 DEF EpnetStep, EpnetOpen, EpnetClose, EpnetTake, EpnetReceive, clocks, ghosts
<1> QED
  BY <1>1, <1>2, <1>3

(* A poll loop that stops at the news of the end, or at something else,      *)
(* leaves the client accounted for: it cannot have dropped the news.         *)
LEMMA PollKeepsNews ==
  ASSUME NEW c, events[c] \in Seq(Event), NEW ending, Disconnected \in ending
  PROVE  LET stops == Stops(c, ending)
             rest == RestAfter(c, stops)
         IN  /\ Disconnected \in Range(rest) => Disconnected \in Range(events[c])
             /\ stops = {} => Disconnected \notin Range(events[c])
             /\ stops # {} /\ events[c][First(stops)] # Disconnected
                  => (Disconnected \in Range(events[c])
                        => Disconnected \in Range(rest))
             /\ stops # {} /\ events[c][First(stops)] = Disconnected
                  => Disconnected \in Range(events[c])
<1> DEFINE stops == Stops(c, ending)
<1>1. /\ DOMAIN events[c] = 1 .. Len(events[c]) /\ Len(events[c]) \in Nat
      /\ Disconnected \in Range(events[c]) <=>
           \E k \in DOMAIN events[c] : events[c][k] = Disconnected
  BY RangeOfEvents
<1>2. stops = {} => Disconnected \notin Range(events[c])
  BY <1>1 DEF Stops
<1>3. ASSUME stops # {}, events[c][First(stops)] # Disconnected,
             Disconnected \in Range(events[c])
      PROVE  Disconnected \in Range(RestAfter(c, stops))
  <2>1. PICK k \in DOMAIN events[c] : events[c][k] = Disconnected
    BY <1>1, <1>3
  <2>2. k \in stops
    BY <2>1 DEF Stops
  <2>3. First(stops) \in 1 .. Len(events[c]) /\ First(stops) <= k /\ First(stops) # k
    BY <1>3, <2>1, <2>2, FirstStop
  <2>4. k > First(stops)
    BY <1>1, <2>3
  <2> QED
    BY <1>3, <2>1, <2>4, Rest
<1>4. stops # {} => First(stops) \in DOMAIN events[c]
  BY <1>1, FirstStop
<1>5. Range(RestAfter(c, stops)) \subseteq Range(events[c])
  BY Rest
<1> QED
  BY <1>1, <1>2, <1>3, <1>4, <1>5

LEMMA AccountedStep ==
  ASSUME ClientTypeOK, NEW c \in Clients, Accounted(c),
         ClientTick(c) \/ ClientCall(c) \/ EpnetStep(c)
  PROVE  Accounted(c)'
<1> DEFINE queue == events[c]
<1>1. /\ state \in [Clients -> States] /\ link \in [Clients -> {"closed", "opening", "open"}]
      /\ events \in [Clients -> Seq(Event)] /\ queue \in Seq(Event)
      /\ substate \in [Clients -> Substates]
  BY DEF ClientTypeOK
<1> USE DEF Accounted
<1>2. CASE ConnectionRequest(c)
  <2>1. state'[c] = "CONNECTING" /\ link'[c] = "opening" /\ events'[c] = <<>>
    BY <1>1, <1>2 DEF ConnectionRequest
  <2>2. Range(events'[c]) = {}
    BY <2>1 DEF Range
  <2> QED
    BY <2>1, <2>2
<1>3. CASE Disconnect(c)
  BY <1>1, <1>3 DEF Disconnect
<1>4. CASE SendShoot(c)
  BY <1>1, <1>4 DEF SendShoot
<1>5. CASE EpnetOpen(c)
  <2>1. /\ link[c] = "opening" /\ link'[c] = "open" /\ state' = state
        /\ events'[c] = Append(queue, Connected)
    BY <1>1, <1>5 DEF EpnetOpen
  <2>2. Disconnected \notin Range(events'[c])
    BY <1>1, <2>1, EventTypes, Appended
  <2> QED
    BY <2>1, <2>2
<1>6. CASE EpnetClose(c)
  <2>1. /\ link[c] # "closed" /\ link'[c] = "closed" /\ state' = state
        /\ events'[c] = Append(queue, Disconnected)
    BY <1>1, <1>6 DEF EpnetClose
  <2>2. Disconnected \in Range(events'[c])
    BY <1>1, <2>1, EventTypes, Appended
  <2> QED
    BY <2>1, <2>2
<1>7. CASE EpnetTake(c)
  BY <1>1, <1>7 DEF EpnetTake
<1>8. ASSUME NEW p \in ServerPackets, EpnetReceive(c, p) PROVE Accounted(c)'
  <2>1. /\ link[c] = "open" /\ link' = link /\ state' = state
        /\ events'[c] = Append(queue, PacketEvent(p))
    BY <1>1, <1>8 DEF EpnetReceive
  <2>2. Disconnected \notin Range(events'[c])
    BY <1>1, <2>1, EventTypes, Appended
  <2> QED
    BY <2>1, <2>2
<1>9. ASSUME NEW dt \in Times,
             \/ TickIdle(c, dt) \/ ConnectingIdle(c, dt)
             \/ ConnectingConnected(c, dt) \/ ConnectingJustConnected(c, dt)
      PROVE  Accounted(c)'
  BY <1>1, <1>9 DEF TickIdle, ConnectingIdle, ConnectingConnected,
     ConnectingJustConnected, TickConnecting, Tick
<1>10. ASSUME NEW dt \in Times, ConnectingConnecting(c, dt) PROVE Accounted(c)'
  <2> DEFINE ending == {Connected, Disconnected}
             stops == Stops(c, ending)
  <2>1. /\ state[c] = "CONNECTING" /\ link' = link
        /\ events'[c] = RestAfter(c, stops)
        /\ \/ stops = {} /\ state'[c] = state[c]
           \/ /\ stops # {} /\ events[c][First(stops)] = Connected
              /\ state'[c] = state[c]
           \/ /\ stops # {} /\ events[c][First(stops)] = Disconnected
              /\ state'[c] = "CONNECTION_FAILED"
    BY <1>1, <1>10 DEF ConnectingConnecting, TickConnecting, Tick
  <2> QED
    BY <1>1, <2>1, PollKeepsNews, EventTypes
<1>11. ASSUME NEW dt \in Times, ConnectingTopLevel(c, dt) PROVE Accounted(c)'
  <2> DEFINE ending == {e \in Range(events[c]) : IsResponse(e)} \cup {Disconnected}
             stops == Stops(c, ending)
  <2>1. /\ state[c] = "CONNECTING" /\ link' = link
        /\ events'[c] = RestAfter(c, stops)
        /\ \/ stops = {} /\ state'[c] = state[c]
           \/ /\ stops # {} /\ IsResponse(events[c][First(stops)])
              /\ state'[c] = state[c]
           \/ /\ stops # {} /\ events[c][First(stops)] = Disconnected
              /\ state'[c] = "CONNECTION_FAILED"
    BY <1>1, <1>11 DEF ConnectingTopLevel, TickConnecting, Tick
  <2>2. Disconnected \in ending
    OBVIOUS
  <2>3. ~IsResponse(Disconnected)
    BY EventTypes
  <2> HIDE DEF ending
  <2> QED
    BY <1>1, <2>1, <2>2, <2>3, PollKeepsNews
<1>12. ASSUME NEW dt \in Times, TickConnected(c, dt) PROVE Accounted(c)'
  <2> DEFINE ending == {Disconnected}
             stops == Stops(c, ending)
  <2>1. /\ state[c] = "CONNECTED" /\ link' = link
        /\ events'[c] = RestAfter(c, stops)
        /\ state'[c] = IF stops = {} THEN state[c] ELSE "INITED"
    BY <1>1, <1>12 DEF TickConnected, Tick
  <2>2. stops # {} => events[c][First(stops)] = Disconnected
    BY <1>1, FirstStop
  <2> QED
    BY <1>1, <2>1, <2>2, PollKeepsNews
<1> QED
  BY <1>2, <1>3, <1>4, <1>5, <1>6, <1>7, <1>8, <1>9, <1>10, <1>11, <1>12
     DEF ClientTick, ClientCall, EpnetStep

(* LinkIsAccountedFor: a client that neither connects nor plays holds no     *)
(* link, and one that does has its link or the news of its end still to      *)
(* read: none of the poll loops of client.c, which stop early, loses it.     *)
THEOREM LinkAlwaysAccountedFor == ClientSpec => []LinkIsAccountedFor
<1>1. ClientInit => LinkIsAccountedFor /\ NewsIsTrue
  <2>1. Range(<<>>) = {}
    BY DEF Range
  <2> QED
    BY <2>1 DEF ClientInit, LinkIsAccountedFor, NewsIsTrue
<1>2. LinkInv /\ [ClientNext]_vars => (LinkIsAccountedFor /\ NewsIsTrue)'
  <2> SUFFICES ASSUME LinkInv, [ClientNext]_vars, NEW d \in Clients
               PROVE  Accounted(d)'
    BY DEF LinkIsAccountedFor, NewsIsTrue, Accounted
  <2>1. ClientTypeOK /\ Accounted(d)
    BY ForEachClient DEF LinkInv
  <2>2. CASE UNCHANGED vars
    BY <2>1, <2>2 DEF vars, Accounted
  <2>3. ASSUME NEW c \in Clients, ClientTick(c) \/ ClientCall(c) \/ EpnetStep(c)
        PROVE  Accounted(d)'
    <3>1. CASE c = d
      BY <2>1, <2>3, <3>1, AccountedStep
    <3>2. CASE c # d
      BY <2>1, <2>3, <3>2, OthersStandStill DEF Accounted
    <3> QED
      BY <3>1, <3>2
  <2> QED
    BY <2>2, <2>3 DEF ClientNext
<1> QED
  BY <1>1, <1>2, ClientTypeCorrect, PTL DEF ClientSpec, LinkInv

-----------------------------------------------------------------------------
(* The handshake. *)

(* Why a fresh session handshakes: before the request is sent the session is *)
(* newer than the last that asked, and each later stage has all that the     *)
(* earlier ones did.                                                         *)
Handshake(c) ==
  /\ asked[c] <= session[c]
  /\ state[c] = "CONNECTING" /\ substate[c] \in {"IDLE", "CONNECTING", "CONNECTED"}
       => asked[c] < session[c]
  /\ fresh[c] =>
       /\ state[c] = "CONNECTING" /\ substate[c] = "TOP_LEVEL_CONNECTING"
            => asked[c] = session[c]
       /\ state[c] = "CONNECTING" /\ substate[c] = "TOP_LEVEL_JUST_CONNECTED"
            => asked[c] = session[c] /\ config[c] = session[c]
       /\ state[c] = "CONNECTED" => asked[c] = session[c] /\ config[c] = session[c]

HandshakeInv == \A c \in Clients : Handshake(c)

LEMMA HandshakeStep ==
  ASSUME ClientTypeOK, NEW c \in Clients, Handshake(c),
         ClientTick(c) \/ ClientCall(c) \/ EpnetStep(c)
  PROVE  Handshake(c)'
<1>1. /\ state \in [Clients -> States] /\ substate \in [Clients -> Substates]
      /\ config \in [Clients -> Sessions] /\ session \in [Clients -> Sessions]
      /\ asked \in [Clients -> Sessions] /\ fresh \in [Clients -> BOOLEAN]
      /\ session[c] \in Nat /\ asked[c] \in Nat
  BY SessionTypes DEF ClientTypeOK
<1>2. CASE ConnectionRequest(c)
  <2>1. /\ state'[c] = "CONNECTING" /\ substate' = substate /\ asked' = asked
        /\ session'[c] = session[c] + 1 /\ (fresh'[c] => substate[c] = "IDLE")
    BY <1>1, <1>2 DEF ConnectionRequest
  <2> QED
    BY <1>1, <2>1 DEF Handshake
<1>3. CASE Disconnect(c)
  BY <1>1, <1>3 DEF Disconnect, Handshake, ghosts
<1>4. CASE SendShoot(c) \/ EpnetStep(c)
  BY <1>1, <1>4 DEF SendShoot, EpnetStep, EpnetOpen, EpnetClose, EpnetTake,
     EpnetReceive, Handshake, ghosts
<1>5. ASSUME NEW dt \in Times, ConnectingConnected(c, dt) PROVE Handshake(c)'
  <2>1. /\ state' = state /\ state[c] = "CONNECTING" /\ session' = session
        /\ asked'[c] = session[c] /\ substate'[c] = "TOP_LEVEL_CONNECTING"
    BY <1>1, <1>5 DEF ConnectingConnected, TickConnecting, Tick, AfterAsking
  <2> QED
    BY <1>1, <2>1 DEF Handshake
<1>6. ASSUME NEW dt \in Times, TickIdle(c, dt) \/ TickConnected(c, dt)
      PROVE  Handshake(c)'
  BY <1>1, <1>6 DEF TickIdle, TickConnected, Tick, Handshake
<1>7. ASSUME NEW dt \in Times,
             ConnectingIdle(c, dt) \/ ConnectingJustConnected(c, dt)
      PROVE  Handshake(c)'
  BY <1>1, <1>7 DEF ConnectingIdle, ConnectingJustConnected, TickConnecting, Tick,
     Handshake
<1>8. ASSUME NEW dt \in Times, ConnectingConnecting(c, dt) PROVE Handshake(c)'
  <2>1. /\ session' = session /\ asked' = asked
        /\ state[c] = "CONNECTING" /\ substate[c] = "CONNECTING"
        /\ \/ state' = state /\ substate'[c] \in {"CONNECTING", "CONNECTED"}
           \/ state'[c] = "CONNECTION_FAILED"
    BY <1>1, <1>8 DEF ConnectingConnecting, TickConnecting, Tick, AfterOpening
  <2> QED
    BY <1>1, <2>1 DEF Handshake
<1>9. ASSUME NEW dt \in Times, ConnectingTopLevel(c, dt) PROVE Handshake(c)'
  <2>1. /\ session' = session /\ asked' = asked /\ fresh' = fresh
        /\ state[c] = "CONNECTING" /\ substate[c] = "TOP_LEVEL_CONNECTING"
        /\ \/ state' = state /\ substate' = substate
           \/ /\ state' = state /\ config'[c] = session[c]
              /\ substate'[c] = "TOP_LEVEL_JUST_CONNECTED"
           \/ state'[c] = "CONNECTION_FAILED"
    BY <1>1, <1>9 DEF ConnectingTopLevel, TickConnecting, Tick
  <2> QED
    BY <1>1, <2>1 DEF Handshake
<1> QED
  BY <1>2, <1>3, <1>4, <1>5, <1>6, <1>7, <1>8, <1>9 DEF ClientTick, ClientCall

LEMMA HandshakeInvariant == ClientSpec => []HandshakeInv
<1>1. ClientInit => HandshakeInv
  BY DEF ClientInit, HandshakeInv, Handshake
<1>2. ClientTypeOK /\ HandshakeInv /\ [ClientNext]_vars => HandshakeInv'
  <2> SUFFICES ASSUME ClientTypeOK, HandshakeInv, [ClientNext]_vars, NEW d \in Clients
               PROVE  Handshake(d)'
    BY DEF HandshakeInv
  <2>1. Handshake(d)
    BY DEF HandshakeInv
  <2>2. CASE UNCHANGED vars
    BY <2>1, <2>2 DEF vars, ghosts, Handshake
  <2>3. ASSUME NEW c \in Clients, ClientTick(c) \/ ClientCall(c) \/ EpnetStep(c)
        PROVE  Handshake(d)'
    <3>1. CASE c = d
      BY <2>1, <2>3, <3>1, HandshakeStep
    <3>2. CASE c # d
      BY <2>1, <2>3, <3>2, OthersStandStill DEF Handshake
    <3> QED
      BY <3>1, <3>2
  <2> QED
    BY <2>2, <2>3 DEF ClientNext
<1> QED
  BY <1>1, <1>2, ClientTypeCorrect, PTL DEF ClientSpec

(* FreshSessionHandshakes: a session that mp_client_connection_request began *)
(* with the connecting substate idle is connected only after its own request *)
(* was sent and an answer in that session filled server_configuration.       *)
THEOREM FreshSessionsHandshake == ClientSpec => []FreshSessionHandshakes
<1>1. HandshakeInv => FreshSessionHandshakes
  BY DEF HandshakeInv, Handshake, FreshSessionHandshakes
<1> QED
  BY <1>1, HandshakeInvariant, PTL

(* AsksOncePerSession: handle_state_connecting_ sends the connection request *)
(* of a session once at most, whatever disconnects and failures do to its    *)
(* static substate.                                                          *)
THEOREM AskedOncePerSession == ClientSpec => AsksOncePerSession
<1>1. HandshakeInv =>
        [\A c \in Clients : \A dt \in Times :
           ConnectingConnected(c, dt) => asked[c] < session[c]]_vars
  BY DEF HandshakeInv, Handshake, ConnectingConnected, TickConnecting
<1> QED
  BY <1>1, HandshakeInvariant, PTL DEF AsksOncePerSession

-----------------------------------------------------------------------------
(***************************************************************************)
(* What a step of a client does to what it has sent and to what it holds   *)
(* of the server, for the proofs about several clients and a server.       *)
(***************************************************************************)
StepOf(c) == ClientTick(c) \/ ClientCall(c) \/ EpnetStep(c)

WireMessage == [session : Sessions, kind : SentKinds]

(* The opening of session n, and the request of the present one, are still   *)
(* to be carried.                                                            *)
Opening(c, n) ==
  \E k \in 1 .. Len(out[c]) : out[c][k].session = n /\ out[c][k].kind = "OPEN"
Requesting(c) ==
  \E k \in 1 .. Len(out[c]) :
    out[c][k].session = session[c] /\ out[c][k].kind = "CONNECTION_REQUEST"

(* Nothing is sent for a session that has not begun, and a session opens once. *)
Numbered(c) ==
  /\ \A k \in 1 .. Len(out[c]) : out[c][k].session <= session[c]
  /\ \A j, k \in 1 .. Len(out[c]) :
       j # k /\ out[c][j].kind = "OPEN" /\ out[c][k].kind = "OPEN"
         => out[c][j].session # out[c][k].session

LEMMA SentSoFar ==
  ASSUME ClientTypeOK, NEW c \in Clients
  PROVE  /\ out[c] \in Seq(WireMessage) /\ Len(out[c]) \in Nat
         /\ session[c] \in Nat
         /\ \A k \in 1 .. Len(out[c]) : out[c][k].session \in Nat
<1>1. out[c] \in Seq(WireMessage) /\ session[c] \in Nat
  BY SessionTypes DEF ClientTypeOK, WireMessage
<1>2. \A k \in 1 .. Len(out[c]) : out[c][k] \in WireMessage
  BY <1>1, ElementOfSeq
<1> QED
  BY <1>1, <1>2, LenProperties, SessionTypes DEF WireMessage

LEMMA OnWireContents ==
  ASSUME ClientTypeOK, NEW c \in Clients, NEW n \in Nat, NEW kinds \in Seq(SentKinds),
         out' = OnWire(c, n, kinds)
  PROVE  /\ Len(kinds) \in Nat
         /\ Len(out'[c]) = Len(out[c]) + Len(kinds)
         /\ \A k \in 1 .. Len(out[c]) : out'[c][k] = out[c][k]
         /\ \A k \in 1 .. Len(kinds) :
              out'[c][Len(out[c]) + k] = [session |-> n, kind |-> kinds[k]]
<1> DEFINE sending == [k \in 1 .. Len(kinds) |-> [session |-> n, kind |-> kinds[k]]]
<1>1. Len(kinds) \in Nat
  BY LenProperties
<1>2. sending \in Seq([session : Nat, kind : SentKinds]) /\ Len(sending) = Len(kinds)
  <2>1. sending \in [1 .. Len(kinds) -> [session : Nat, kind : SentKinds]]
    BY <1>1, ElementOfSeq
  <2> HIDE DEF sending
  <2> QED
    BY <1>1, <2>1, FunctionIsSeq
<1>3. \A k \in 1 .. Len(kinds) : sending[k] = [session |-> n, kind |-> kinds[k]]
  OBVIOUS
<1>4. out'[c] = out[c] \o sending
  BY DEF OnWire, ClientTypeOK
<1>5. out[c] \in Seq([session : Nat, kind : SentKinds])
  <2>1. Sessions \subseteq Nat
    BY SessionTypes
  <2>2. \A m \in WireMessage : m \in [session : Nat, kind : SentKinds]
    BY <2>1 DEF WireMessage
  <2>3. out[c] \in [1 .. Len(out[c]) -> [session : Nat, kind : SentKinds]]
    BY <2>2, SentSoFar, LenProperties, ElementOfSeq
  <2> QED
    BY <2>3, SentSoFar, FunctionIsSeq
<1> HIDE DEF sending
<1> DEFINE sofar == out[c]
           Numbers == [session : Nat, kind : SentKinds]
<1>6. /\ sofar \in Seq(Numbers) /\ sending \in Seq(Numbers)
      /\ Len(sending) = Len(kinds) /\ out'[c] = sofar \o sending
  BY <1>2, <1>4, <1>5
<1> HIDE DEF sofar, Numbers
<1>7. Follows(out'[c], sofar, sending)
  BY <1>6, Concatenated
<1> QED
  BY <1>1, <1>3, <1>6, <1>7 DEF sofar, Follows

LEMMA Taken ==
  ASSUME ClientTypeOK, NEW c \in Clients, EpnetTake(c)
  PROVE  /\ session' = session
         /\ Len(out[c]) \in Nat \ {0} /\ Len(out'[c]) = Len(out[c]) - 1
         /\ Head(out[c]) = out[c][1]
         /\ \A k \in 1 .. Len(out'[c]) : out'[c][k] = out[c][k + 1]
<1>1. /\ out[c] \in Seq(WireMessage) /\ out[c] # <<>> /\ out'[c] = Tail(out[c])
      /\ session' = session
  BY SentSoFar DEF EpnetTake, ClientTypeOK, ghosts
<1> QED
  BY <1>1, HeadTailProperties, EmptySeq

(* What c can do without a message of the server. *)
Own(c) == ClientTick(c) \/ ClientCall(c) \/ EpnetClose(c)

(* What c can do, and what epnet can do for it, without taking a message. *)
Sends(c) ==
  \/ out'[c] = out[c] /\ session'[c] = session[c]
  \/ /\ session'[c] = session[c]
     /\ \E kinds \in Seq(SentKinds) :
          /\ \A k \in 1 .. Len(kinds) : kinds[k] # "OPEN"
          /\ out' = OnWire(c, session[c], kinds)
  \/ /\ ConnectionRequest(c) /\ session'[c] = session[c] + 1
     /\ out' = OnWire(c, session[c] + 1, <<"OPEN">>)

Receives(c) == EpnetOpen(c) \/ \E p \in ServerPackets : EpnetReceive(c, p)

LEMMA OutSteps ==
  ASSUME ClientTypeOK, NEW c \in Clients, StepOf(c)
  PROVE  Sends(c) \/ (EpnetTake(c) /\ ~Own(c) /\ ~Receives(c))
<1> DEFINE Sending == \E kinds \in Seq(SentKinds) :
                        /\ \A k \in 1 .. Len(kinds) : kinds[k] # "OPEN"
                        /\ out' = OnWire(c, session[c], kinds)
<1>1. \A kind \in SentKinds \ {"OPEN"} :
        out' = OnWire(c, session[c], <<kind>>) => Sending
  <2> SUFFICES ASSUME NEW kind \in SentKinds \ {"OPEN"},
                      out' = OnWire(c, session[c], <<kind>>)
               PROVE  Sending
    OBVIOUS
  <2>1. <<kind>> \in Seq(SentKinds) /\ \A k \in 1 .. Len(<<kind>>) : <<kind>>[k] # "OPEN"
    BY KindsTypes
  <2> QED
    BY <2>1
<1>2. ConnectionRequest(c) => Sends(c)
  BY DEF Sends, ConnectionRequest, ClientTypeOK
<1>3. ASSUME Disconnect(c) PROVE session' = session /\ (out' = out \/ Sending)
  <2>1. session' = session /\ (out' = out \/ out' = OnWire(c, session[c], <<"CLOSE">>))
    BY <1>3 DEF Disconnect, ghosts
  <2> QED
    BY <1>1, <2>1, KindsTypes
<1>4. ASSUME SendShoot(c) PROVE session' = session /\ (out' = out \/ Sending)
  <2>1. session' = session /\ (out' = out \/ out' = OnWire(c, session[c], <<"SHOOT">>))
    BY <1>4 DEF SendShoot, Transmit, ghosts
  <2> QED
    BY <1>1, <2>1, KindsTypes
<1>5. EpnetClose(c) \/ Receives(c) => session' = session /\ out' = out
  BY DEF Receives, EpnetOpen, EpnetClose, EpnetReceive, ghosts
<1>6. ASSUME NEW dt \in Times, ConnectingConnected(c, dt)
      PROVE  session' = session /\ (out' = out \/ Sending)
  <2>1. /\ session' = session
        /\ out' = out \/ out' = OnWire(c, session[c], <<"CONNECTION_REQUEST">>)
    BY <1>6 DEF ConnectingConnected, TickConnecting, Tick, TransmitRequest
  <2> QED
    BY <1>1, <2>1, KindsTypes
<1>7. ASSUME NEW dt \in Times, TickConnected(c, dt)
      PROVE  session' = session /\ (out' = out \/ Sending)
  <2>1. session' = session
    BY <1>7 DEF TickConnected, Tick
  <2>2. PICK user, actor \in BOOLEAN :
          Transmit(c, (IF user THEN <<"USER_SYNC">> ELSE <<>>)
                        \o (IF actor THEN <<"ACTOR_SYNC">> ELSE <<>>))
    BY <1>7 DEF TickConnected, Due
  <2> DEFINE a == IF user THEN <<"USER_SYNC">> ELSE <<>>
             b == IF actor THEN <<"ACTOR_SYNC">> ELSE <<>>
  <2>3. a \in Seq(SentKinds \ {"OPEN"}) /\ b \in Seq(SentKinds \ {"OPEN"})
    BY DEF SentKinds
  <2> HIDE DEF a, b
  <2>4. a \o b \in Seq(SentKinds \ {"OPEN"})
    BY <2>3, ConcatProperties
  <2>5. a \o b \in Seq(SentKinds) /\ \A k \in 1 .. Len(a \o b) : (a \o b)[k] # "OPEN"
    BY <2>4, ElementOfSeq
  <2>6. out' = out \/ out' = OnWire(c, session[c], a \o b)
    BY <2>2 DEF Transmit, a, b
  <2> QED
    BY <2>1, <2>5, <2>6
<1>8. ASSUME NEW dt \in Times,
             \/ TickIdle(c, dt) \/ ConnectingIdle(c, dt) \/ ConnectingConnecting(c, dt)
             \/ ConnectingTopLevel(c, dt) \/ ConnectingJustConnected(c, dt)
      PROVE  session' = session /\ out' = out
  BY <1>8 DEF TickIdle, ConnectingIdle, ConnectingConnecting, ConnectingTopLevel,
     ConnectingJustConnected, TickConnecting, Tick
<1>9. Own(c) \/ Receives(c) => Sends(c)
  BY <1>2, <1>3, <1>4, <1>5, <1>6, <1>7, <1>8 DEF Own, ClientCall, ClientTick, Sends
<1>10. Own(c) \/ Receives(c) \/ EpnetTake(c)
  BY DEF StepOf, Own, Receives, EpnetStep
<1> QED
  BY <1>9, <1>10

LEMMA NumberedStep ==
  ASSUME ClientTypeOK, NEW c \in Clients, StepOf(c), Numbered(c)
  PROVE  /\ Numbered(c)'
         /\ \A n \in Nat : Opening(c, n)' =>
              Opening(c, n) \/ (n = session[c] + 1 /\ session'[c] = session[c] + 1)
<1> DEFINE old == out[c]
           new == out'[c]
           s == session[c]
<1>1. /\ Len(old) \in Nat /\ s \in Nat
      /\ \A k \in 1 .. Len(old) : old[k].session \in Nat /\ old[k].session <= s
  BY SentSoFar DEF Numbered
<1>2. \A j, k \in 1 .. Len(old) :
        j # k /\ old[j].kind = "OPEN" /\ old[k].kind = "OPEN"
          => old[j].session # old[k].session
  BY DEF Numbered
<1>3. \A n : Opening(c, n) <=>
        \E k \in 1 .. Len(old) : old[k].session = n /\ old[k].kind = "OPEN"
  BY DEF Opening
<1>4. \A n : Opening(c, n)' <=>
        \E k \in 1 .. Len(new) : new[k].session = n /\ new[k].kind = "OPEN"
  BY DEF Opening
<1>5. ASSUME session'[c] \in Nat,
             \A k \in 1 .. Len(new) : new[k].session <= session'[c],
             \A j, k \in 1 .. Len(new) :
               j # k /\ new[j].kind = "OPEN" /\ new[k].kind = "OPEN"
                 => new[j].session # new[k].session
      PROVE  Numbered(c)'
  BY <1>5 DEF Numbered
<1>6. CASE new = old /\ session'[c] = s
  BY <1>1, <1>2, <1>3, <1>4, <1>5, <1>6
<1>7. CASE EpnetTake(c)
  <2>1. session'[c] = s /\ Len(new) = Len(old) - 1
        /\ \A k \in 1 .. Len(new) : new[k] = old[k + 1]
    BY <1>7, Taken
  <2> HIDE DEF old, new, s
  <2>2. \A k \in 1 .. Len(new) : new[k] = old[k + 1] /\ k + 1 \in 1 .. Len(old)
    BY <1>1, <2>1
  <2>3. \A j, k \in 1 .. Len(new) : j # k => j + 1 # k + 1
    BY <1>1, <2>1
  <2>4. \A j, k \in 1 .. Len(new) :
          j # k /\ new[j].kind = "OPEN" /\ new[k].kind = "OPEN"
            => new[j].session # new[k].session
    BY <1>2, <2>2, <2>3
  <2>5. \A k \in 1 .. Len(new) : new[k].session <= s
    BY <1>1, <2>2
  <2>6. Numbered(c)'
    BY <1>1, <1>5, <2>1, <2>4, <2>5
  <2>7. \A n : Opening(c, n)' => Opening(c, n)
    <3> SUFFICES ASSUME NEW n, Opening(c, n)' PROVE Opening(c, n)
      OBVIOUS
    <3>1. PICK k \in 1 .. Len(new) : new[k].session = n /\ new[k].kind = "OPEN"
      BY <1>4
    <3> QED
      BY <1>3, <2>2, <3>1
  <2> QED
    BY <2>6, <2>7
<1>8. ASSUME session'[c] = s,
             NEW kinds \in Seq(SentKinds), \A k \in 1 .. Len(kinds) : kinds[k] # "OPEN",
             out' = OnWire(c, session[c], kinds)
      PROVE  Numbered(c)' /\ \A n \in Nat : Opening(c, n)' => Opening(c, n)
  <2>1. /\ Len(kinds) \in Nat /\ Len(new) = Len(old) + Len(kinds)
        /\ \A k \in 1 .. Len(old) : new[k] = old[k]
        /\ \A k \in 1 .. Len(kinds) :
             new[Len(old) + k] = [session |-> s, kind |-> kinds[k]]
    BY <1>1, <1>8, OnWireContents
  <2> HIDE DEF old, new, s
  <2>2. \A k \in 1 .. Len(new) :
          \/ k \in 1 .. Len(old) /\ new[k] = old[k]
          \/ new[k].session = s /\ new[k].kind # "OPEN"
    <3> SUFFICES ASSUME NEW k \in 1 .. Len(new), ~(k \in 1 .. Len(old))
                 PROVE  new[k].session = s /\ new[k].kind # "OPEN"
      BY <1>1, <2>1
    <3>1. k - Len(old) \in 1 .. Len(kinds) /\ Len(old) + (k - Len(old)) = k
      BY <1>1, <2>1
    <3>2. new[k] = [session |-> s, kind |-> kinds[k - Len(old)]]
      BY <2>1, <3>1
    <3> QED
      BY <1>8, <3>1, <3>2
  <2>3. \A j, k \in 1 .. Len(new) :
          j # k /\ new[j].kind = "OPEN" /\ new[k].kind = "OPEN"
            => new[j].session # new[k].session
    BY <1>2, <2>2
  <2>4. \A k \in 1 .. Len(new) : new[k].session <= s
    BY <1>1, <2>2
  <2>5. Numbered(c)'
    BY <1>1, <1>5, <1>8, <2>3, <2>4
  <2> QED
    BY <1>3, <1>4, <2>2, <2>5
<1>9. ASSUME session'[c] = s + 1, out' = OnWire(c, s + 1, <<"OPEN">>)
      PROVE  /\ Numbered(c)'
             /\ \A n \in Nat : Opening(c, n)' => Opening(c, n) \/ n = s + 1
  <2>1. <<"OPEN">> \in Seq(SentKinds) /\ Len(<<"OPEN">>) = 1 /\ s + 1 \in Nat
    BY <1>1, KindsTypes
  <2>2. /\ Len(new) = Len(old) + 1
        /\ \A k \in 1 .. Len(old) : new[k] = old[k]
        /\ \A k \in 1 .. 1 :
             new[Len(old) + k] = [session |-> s + 1, kind |-> <<"OPEN">>[k]]
    BY <1>9, <2>1, OnWireContents
  <2>3. new[Len(old) + 1].session = s + 1
    BY <2>2
  <2> HIDE DEF old, new, s
  <2>4. \A k \in 1 .. Len(new) :
          \/ k \in 1 .. Len(old) /\ new[k] = old[k]
          \/ k = Len(old) + 1 /\ new[k].session = s + 1
    BY <1>1, <2>2, <2>3
  <2>5. \A j, k \in 1 .. Len(new) :
          j # k /\ new[j].kind = "OPEN" /\ new[k].kind = "OPEN"
            => new[j].session # new[k].session
    <3> SUFFICES ASSUME NEW j \in 1 .. Len(new), NEW k \in 1 .. Len(new), j # k,
                        new[j].kind = "OPEN", new[k].kind = "OPEN"
                 PROVE  new[j].session # new[k].session
      OBVIOUS
    <3>1. CASE j \in 1 .. Len(old) /\ k \in 1 .. Len(old)
      BY <1>2, <2>2, <3>1
    <3>2. CASE j \in 1 .. Len(old) /\ k = Len(old) + 1
      <4>1. old[j].session \in Nat /\ old[j].session <= s /\ new[j] = old[j]
        BY <1>1, <2>2, <3>2
      <4>2. new[k].session = s + 1
        BY <2>3, <3>2
      <4> QED
        BY <1>1, <4>1, <4>2
    <3>3. CASE k \in 1 .. Len(old) /\ j = Len(old) + 1
      <4>1. old[k].session \in Nat /\ old[k].session <= s /\ new[k] = old[k]
        BY <1>1, <2>2, <3>3
      <4>2. new[j].session = s + 1
        BY <2>3, <3>3
      <4> QED
        BY <1>1, <4>1, <4>2
    <3> QED
      BY <2>4, <3>1, <3>2, <3>3
  <2>6. \A k \in 1 .. Len(new) : new[k].session <= s + 1
    <3> SUFFICES ASSUME NEW k \in 1 .. Len(new) PROVE new[k].session <= s + 1
      OBVIOUS
    <3>1. CASE k \in 1 .. Len(old) /\ new[k] = old[k]
      <4>1. old[k].session \in Nat /\ old[k].session <= s
        BY <1>1, <3>1
      <4> QED
        BY <1>1, <3>1, <4>1
    <3>2. CASE new[k].session = s + 1
      BY <1>1, <3>2
    <3> QED
      BY <2>4, <3>1, <3>2
  <2>7. Numbered(c)'
    BY <1>5, <1>9, <2>1, <2>5, <2>6
  <2> QED
    BY <1>3, <1>4, <2>4, <2>7
<1> QED
  BY <1>6, <1>7, <1>8, <1>9, OutSteps DEF Sends

(* The request stays under way until it is taken. *)
LEMMA RequestingStep ==
  ASSUME ClientTypeOK, NEW c \in Clients, StepOf(c), Requesting(c),
         session'[c] = session[c]
  PROVE  \/ Requesting(c)'
         \/ /\ EpnetTake(c) /\ ~Own(c) /\ ~Receives(c)
            /\ Head(out[c]).session = session[c]
            /\ Head(out[c]).kind = "CONNECTION_REQUEST"
<1>1. Len(out[c]) \in Nat /\ session[c] \in Nat
  BY SentSoFar
<1>2. PICK k \in 1 .. Len(out[c]) :
        out[c][k].session = session[c] /\ out[c][k].kind = "CONNECTION_REQUEST"
  BY DEF Requesting
<1>3. CASE out'[c] = out[c]
  BY <1>2, <1>3 DEF Requesting
<1>4. CASE EpnetTake(c) /\ ~Own(c) /\ ~Receives(c)
  <2>1. CASE k = 1
    <3>1. /\ Head(out[c]).session = session[c]
          /\ Head(out[c]).kind = "CONNECTION_REQUEST"
      BY <1>2, <1>4, <2>1, Taken
    <3> QED
      BY <1>4, <3>1
  <2>2. CASE k # 1
    <3>1. k - 1 \in 1 .. Len(out'[c]) /\ out'[c][k - 1] = out[c][(k - 1) + 1]
      BY <1>2, <1>4, <2>2, Taken
    <3>2. (k - 1) + 1 = k
      BY <1>2
    <3> QED
      BY <1>2, <3>1, <3>2 DEF Requesting
  <2> QED
    BY <2>1, <2>2
<1>5. ASSUME NEW kinds \in Seq(SentKinds), out' = OnWire(c, session[c], kinds)
      PROVE  Requesting(c)'
  <2>1. k \in 1 .. Len(out'[c]) /\ out'[c][k] = out[c][k]
    BY <1>1, <1>2, <1>5, OnWireContents
  <2> QED
    BY <1>2, <2>1 DEF Requesting
<1>6. session'[c] # session[c] + 1
  BY <1>1
<1> QED
  BY <1>3, <1>4, <1>5, <1>6, OutSteps DEF Sends

(* A session whose opening was taken opens no more. *)
LEMMA OpeningTaken ==
  ASSUME ClientTypeOK, NEW c \in Clients, EpnetTake(c), Numbered(c),
         Head(out[c]).kind = "OPEN"
  PROVE  /\ Opening(c, Head(out[c]).session)
         /\ \A n : n = Head(out[c]).session => ~Opening(c, n)'
         /\ Head(out[c]).session \in Nat /\ Head(out[c]).session <= session[c]
<1>1. /\ Len(out[c]) \in Nat \ {0} /\ Len(out'[c]) = Len(out[c]) - 1
      /\ Head(out[c]) = out[c][1]
      /\ \A k \in 1 .. Len(out'[c]) : out'[c][k] = out[c][k + 1]
  BY Taken
<1>2. 1 \in 1 .. Len(out[c])
  BY <1>1
<1>3. \A k \in 1 .. Len(out'[c]) : k + 1 \in 1 .. Len(out[c]) /\ k + 1 # 1
  BY <1>1
<1>4. Opening(c, Head(out[c]).session)
  BY <1>1, <1>2 DEF Opening
<1>5. \A k \in 1 .. Len(out'[c]) :
        ~(out'[c][k].session = out[c][1].session /\ out'[c][k].kind = "OPEN")
  BY <1>1, <1>2, <1>3 DEF Numbered
<1>6. \A n : n = Head(out[c]).session => ~Opening(c, n)'
  BY <1>1, <1>5 DEF Opening
<1>7. out[c][1].session \in Nat /\ out[c][1].session <= session[c]
  BY <1>2, SentSoFar DEF Numbered
<1> QED
  BY <1>1, <1>4, <1>6, <1>7

(* What c holds of the server: events not polled and packets handed over. *)
Held(c, q) == PacketEvent(q) \in Range(events[c]) \/ q \in Range(calls[c])

LEMMA HeldInit == ASSUME ClientInit, NEW c \in Clients, NEW q PROVE ~Held(c, q)
<1>1. Range(<<>>) = {}
  BY DEF Range
<1> QED
  BY <1>1 DEF ClientInit, Held

(* What a tick hands over was queued. *)
LEMMA HandedOver ==
  ASSUME ClientTypeOK, NEW c \in Clients, NEW dt \in Times, TickConnected(c, dt),
         NEW q \in Range(calls'[c])
  PROVE  PacketEvent(q) \in Range(events[c])
<1> DEFINE stops == Stops(c, {Disconnected})
           read == IF stops = {} THEN events[c]
                   ELSE SubSeq(events[c], 1, First(stops) - 1)
           games == {e \in Range(read) : e.kind = "PACKET" /\ ~IsResponse(e)}
           game == Sift(read, games)
<1>1. events[c] \in Seq(Event) /\ Range(events[c]) \subseteq Event
  <2>1. events[c] \in Seq(Event)
    BY DEF ClientTypeOK
  <2> QED
    BY <2>1, RangeOfEvents DEF Range
<1>2. read \in Seq(Range(events[c])) /\ Range(read) \subseteq Range(events[c])
  <2>1. events[c] \in Seq(Range(events[c]))
    BY <1>1, FunctionIsSeq, RangeOfEvents, LenProperties
  <2>2. CASE stops = {}
    BY <2>1, <2>2
  <2>3. CASE stops # {}
    <3> DEFINE m == First(stops)
    <3>1. m \in 1 .. Len(events[c]) /\ Len(events[c]) \in Nat
      BY <1>1, <2>3, FirstStop, RangeOfEvents
    <3> HIDE DEF m
    <3>2. /\ 1 \in Nat \ {0} /\ m - 1 \in Nat /\ 1 + (m - 1) - 1 = m - 1
          /\ 1 + (m - 1) - 1 <= Len(events[c])
      BY <3>1
    <3>3. SubSeq(events[c], 1, m - 1) \in Seq(Range(events[c]))
      BY <2>1, <3>2, Part
    <3>4. read = SubSeq(events[c], 1, m - 1)
      BY <2>3 DEF m
    <3>5. read \in Seq(Range(events[c]))
      BY <3>3, <3>4
    <3> HIDE DEF read
    <3> QED
      BY <3>5, ElementOfSeq, LenProperties DEF Range
  <2> QED
    BY <2>2, <2>3
<1> HIDE DEF read
<1>3. game \in Seq(Range(events[c]) \cap games)
  BY <1>2, SiftProperties
<1>4. calls'[c] = [k \in 1 .. Len(game) |-> game[k].packet]
  BY DEF TickConnected, ClientTypeOK, read
<1> HIDE DEF game
<1>5. PICK k \in 1 .. Len(game) : q = game[k].packet
  BY <1>4 DEF Range
<1>6. game[k] \in Range(events[c]) \cap games
  BY <1>3, <1>5, ElementOfSeq
<1>7. game[k] \in Event /\ game[k].kind = "PACKET"
  BY <1>1, <1>6
<1>8. game[k] = PacketEvent(q)
  BY <1>5, <1>7 DEF Event, PacketEvent, Connected, Disconnected
<1> QED
  BY <1>6, <1>8

(* What a client holds of the server came in the present session. *)
LEMMA HeldStep ==
  ASSUME ClientTypeOK, NEW c \in Clients, StepOf(c), NEW q, Held(c, q)'
  PROVE  /\ session'[c] = session[c]
         /\ Own(c) \/ EpnetTake(c) \/ EpnetOpen(c) => Held(c, q)
         /\ \A p \in ServerPackets : EpnetReceive(c, p) => Held(c, q) \/ q = p
<1>1. events[c] \in Seq(Event) /\ Range(<<>>) = {}
  BY DEF ClientTypeOK, Range
<1>2. PacketEvent(q) # Connected /\ PacketEvent(q) # Disconnected
  BY DEF PacketEvent, Connected, Disconnected
<1>3. NoCalls(c) => Range(calls'[c]) = {}
  BY <1>1 DEF NoCalls, ClientTypeOK
<1>4. \A ending : Range(RestAfter(c, Stops(c, ending))) \subseteq Range(events[c])
  BY <1>1, Rest
<1>5. ~ConnectionRequest(c)
  <2> SUFFICES ASSUME ConnectionRequest(c) PROVE FALSE
    OBVIOUS
  <2>1. events'[c] = <<>> /\ NoCalls(c)
    BY DEF ConnectionRequest, ClientTypeOK
  <2> QED
    BY <1>1, <1>3, <2>1 DEF Held
<1>6. CASE Disconnect(c)
  BY <1>3, <1>6 DEF Disconnect, Held, ghosts
<1>7. CASE SendShoot(c) \/ EpnetTake(c)
  BY <1>7 DEF SendShoot, EpnetTake, Held, ghosts
<1>8. ASSUME NEW e \in Event, session' = session, calls' = calls,
             events'[c] = Append(events[c], e)
      PROVE  session'[c] = session[c] /\ (Held(c, q) \/ PacketEvent(q) = e)
  <2>1. Range(events'[c]) = Range(events[c]) \cup {e}
    BY <1>1, <1>8, Appended
  <2> QED
    BY <1>8, <2>1 DEF Held
<1>9. CASE EpnetOpen(c)
  <2>1. session' = session /\ calls' = calls /\ events'[c] = Append(events[c], Connected)
    BY <1>9 DEF EpnetOpen, ClientTypeOK, ghosts
  <2> QED
    BY <1>2, <1>8, <2>1, EventTypes
<1>10. CASE EpnetClose(c)
  <2>1. session' = session /\ calls' = calls /\ events'[c] = Append(events[c], Disconnected)
    BY <1>10 DEF EpnetClose, ClientTypeOK, ghosts
  <2> QED
    BY <1>2, <1>8, <2>1, EventTypes
<1>11. ASSUME NEW p \in ServerPackets, EpnetReceive(c, p)
       PROVE  session'[c] = session[c] /\ (Held(c, q) \/ q = p)
  <2>1. session' = session /\ calls' = calls /\ events'[c] = Append(events[c], PacketEvent(p))
    BY <1>11 DEF EpnetReceive, ClientTypeOK, ghosts
  <2>2. Held(c, q) \/ PacketEvent(q) = PacketEvent(p)
    BY <1>8, <2>1, EventTypes
  <2>3. PacketEvent(q) = PacketEvent(p) => q = p
    BY DEF PacketEvent
  <2> QED
    BY <1>11, <2>1, <2>2, <2>3
<1>12. ASSUME NEW dt \in Times, TickConnected(c, dt)
       PROVE  session'[c] = session[c] /\ Held(c, q)
  <2>1. session' = session /\ events'[c] = RestAfter(c, Stops(c, {Disconnected}))
    BY <1>12 DEF TickConnected, Tick, ClientTypeOK
  <2>2. q \in Range(calls'[c]) => PacketEvent(q) \in Range(events[c])
    BY <1>12, HandedOver
  <2> QED
    BY <1>4, <2>1, <2>2 DEF Held
<1>13. ASSUME NEW dt \in Times, ClientTick(c), ~TickConnected(c, dt),
              \/ TickIdle(c, dt) \/ ConnectingIdle(c, dt)
              \/ ConnectingConnecting(c, dt) \/ ConnectingConnected(c, dt)
              \/ ConnectingTopLevel(c, dt) \/ ConnectingJustConnected(c, dt)
       PROVE  session'[c] = session[c] /\ Held(c, q)
  <2>1. session' = session /\ NoCalls(c)
    BY <1>13 DEF TickIdle, ConnectingIdle, ConnectingConnecting, ConnectingConnected,
       ConnectingTopLevel, ConnectingJustConnected, TickConnecting, Tick
  <2>2. \/ events' = events
        \/ \E ending : events'[c] = RestAfter(c, Stops(c, ending))
    BY <1>13 DEF TickIdle, ConnectingIdle, ConnectingConnecting, ConnectingConnected,
       ConnectingTopLevel, ConnectingJustConnected, TickConnecting, ClientTypeOK
  <2> QED
    BY <1>3, <1>4, <2>1, <2>2 DEF Held
<1>14. Own(c) \/ EpnetTake(c) \/ EpnetOpen(c) => session'[c] = session[c] /\ Held(c, q)
  BY <1>5, <1>6, <1>7, <1>9, <1>10, <1>12, <1>13 DEF Own, ClientCall, ClientTick
<1> QED
  BY <1>11, <1>14 DEF StepOf, Own, EpnetStep

(* A link that is still opening belongs to a session that has not asked yet, *)
(* if the session began clean.                                               *)
AsksWhenOpen(c) ==
  /\ Connected \in Range(events[c]) => link[c] # "opening"
  /\ fresh[c] /\ link[c] = "opening"
       => state[c] = "CONNECTING" /\ substate[c] \in {"IDLE", "CONNECTING"}

LEMMA AsksWhenOpenStep ==
  ASSUME ClientTypeOK, NEW c \in Clients, StepOf(c), Accounted(c), AsksWhenOpen(c)
  PROVE  AsksWhenOpen(c)'
<1>1. /\ events[c] \in Seq(Event) /\ Range(<<>>) = {}
      /\ state \in [Clients -> States] /\ substate \in [Clients -> Substates]
      /\ link \in [Clients -> {"closed", "opening", "open"}]
      /\ events \in [Clients -> Seq(Event)] /\ fresh \in [Clients -> BOOLEAN]
  BY DEF ClientTypeOK, Range
<1>2. \A ending : Range(RestAfter(c, Stops(c, ending))) \subseteq Range(events[c])
  BY <1>1, Rest
<1> USE DEF AsksWhenOpen
<1>3. CASE ConnectionRequest(c)
  <2>1. /\ state'[c] = "CONNECTING" /\ substate' = substate /\ events'[c] = <<>>
        /\ fresh'[c] => substate[c] = "IDLE"
    BY <1>1, <1>3 DEF ConnectionRequest
  <2> QED
    BY <1>1, <2>1
<1>4. CASE Disconnect(c)
  BY <1>1, <1>4 DEF Disconnect
<1>5. CASE SendShoot(c) \/ EpnetTake(c)
  BY <1>5 DEF SendShoot, EpnetTake, ghosts
<1>6. CASE EpnetOpen(c) \/ EpnetClose(c)
  BY <1>1, <1>6 DEF EpnetOpen, EpnetClose
<1>7. ASSUME NEW p \in ServerPackets, EpnetReceive(c, p) PROVE AsksWhenOpen(c)'
  BY <1>1, <1>7 DEF EpnetReceive
<1>8. ASSUME NEW dt \in Times, TickIdle(c, dt) PROVE AsksWhenOpen(c)'
  BY <1>1, <1>8 DEF TickIdle, Tick
<1>9. ASSUME NEW dt \in Times, ConnectingIdle(c, dt) PROVE AsksWhenOpen(c)'
  BY <1>1, <1>9 DEF ConnectingIdle, TickConnecting, Tick
<1>10. ASSUME NEW dt \in Times, ConnectingConnecting(c, dt) PROVE AsksWhenOpen(c)'
  <2> DEFINE ending == {Connected, Disconnected}
             stops == Stops(c, ending)
  <2>1. /\ state[c] = "CONNECTING" /\ link' = link /\ fresh' = fresh
        /\ events'[c] = RestAfter(c, stops) /\ substate[c] = "CONNECTING"
        /\ \/ stops = {} /\ state' = state /\ substate' = substate
           \/ stops # {} /\ events[c][First(stops)] \in {Connected, Disconnected}
    BY <1>1, <1>10 DEF ConnectingConnecting, TickConnecting, Tick
  <2>2. stops # {} => events[c][First(stops)] \in Range(events[c])
    <3> HIDE DEF ending
    <3>1. stops # {} => First(stops) \in 1 .. Len(events[c])
      BY <1>1, FirstStop
    <3>2. DOMAIN events[c] = 1 .. Len(events[c])
      BY <1>1
    <3>3. stops # {} => First(stops) \in DOMAIN events[c]
      BY <3>1, <3>2
    <3> QED
      BY <3>3 DEF Range
  <2>3. stops # {} => link[c] # "opening"
    BY <2>1, <2>2 DEF Accounted
  <2> QED
    BY <1>2, <2>1, <2>3
<1>11. ASSUME NEW dt \in Times, ConnectingConnected(c, dt) PROVE AsksWhenOpen(c)'
  BY <1>1, <1>11 DEF ConnectingConnected, TickConnecting, Tick
<1>12. ASSUME NEW dt \in Times, ConnectingTopLevel(c, dt) PROVE AsksWhenOpen(c)'
  <2>1. /\ substate[c] = "TOP_LEVEL_CONNECTING" /\ link' = link /\ fresh' = fresh
        /\ Range(events'[c]) \subseteq Range(events[c])
    BY <1>1, <1>2, <1>12 DEF ConnectingTopLevel, TickConnecting, Tick
  <2> QED
    BY <2>1
<1>13. ASSUME NEW dt \in Times, ConnectingJustConnected(c, dt) PROVE AsksWhenOpen(c)'
  BY <1>1, <1>13 DEF ConnectingJustConnected, TickConnecting, Tick
<1>14. ASSUME NEW dt \in Times, TickConnected(c, dt) PROVE AsksWhenOpen(c)'
  <2>1. /\ state[c] = "CONNECTED" /\ link' = link /\ fresh' = fresh
        /\ Range(events'[c]) \subseteq Range(events[c])
    BY <1>1, <1>2, <1>14 DEF TickConnected, Tick
  <2> QED
    BY <2>1
<1> QED
  BY <1>3, <1>4, <1>5, <1>6, <1>7, <1>8, <1>9, <1>10, <1>11, <1>12, <1>13, <1>14
     DEF StepOf, ClientCall, EpnetStep, ClientTick

(* A clean session that has asked on an open link had done so before, or     *)
(* sends its request in this step.                                           *)
HasAsked(c) == fresh[c] /\ asked[c] = session[c] /\ link[c] = "open"

LEMMA HasAskedStep ==
  ASSUME ClientTypeOK, NEW c \in Clients, StepOf(c), Handshake(c), AsksWhenOpen(c),
         HasAsked(c)'
  PROVE  session'[c] = session[c] /\ (HasAsked(c) \/ Requesting(c)')
<1>1. /\ session \in [Clients -> Sessions] /\ asked \in [Clients -> Sessions]
      /\ link \in [Clients -> {"closed", "opening", "open"}]
      /\ session[c] \in Nat /\ asked[c] \in Nat
  BY SessionTypes DEF ClientTypeOK
<1>2. CASE ConnectionRequest(c) \/ Disconnect(c) \/ EpnetClose(c)
  <2>1. link'[c] # "open"
    BY <1>1, <1>2 DEF ConnectionRequest, Disconnect, EpnetClose
  <2> QED
    BY <2>1 DEF HasAsked
<1>3. CASE EpnetOpen(c)
  <2>1. link[c] = "opening" /\ UNCHANGED <<fresh, asked, session>>
    BY <1>3 DEF EpnetOpen, ghosts
  <2>2. asked[c] < session[c]
    BY <2>1 DEF HasAsked, Handshake, AsksWhenOpen
  <2> QED
    BY <1>1, <2>1, <2>2 DEF HasAsked
<1>4. CASE SendShoot(c) \/ EpnetTake(c) \/ \E p \in ServerPackets : EpnetReceive(c, p)
  BY <1>4 DEF SendShoot, EpnetTake, EpnetReceive, HasAsked, ghosts
<1>5. ASSUME NEW dt \in Times, ConnectingConnected(c, dt)
      PROVE  session'[c] = session[c] /\ Requesting(c)'
  <2>1. session' = session /\ link' = link /\ TransmitRequest(c)
    BY <1>5 DEF ConnectingConnected, TickConnecting, Tick
  <2>2. out' = OnWire(c, session[c], <<"CONNECTION_REQUEST">>)
    BY <2>1 DEF TransmitRequest, HasAsked
  <2> DEFINE kinds == <<"CONNECTION_REQUEST">>
  <2>3. /\ kinds \in Seq(SentKinds) /\ Len(kinds) = 1
        /\ kinds[1] = "CONNECTION_REQUEST" /\ 1 \in 1 .. Len(kinds)
    BY KindsTypes
  <2>4. out' = OnWire(c, session[c], kinds)
    BY <2>2
  <2>5. Len(out[c]) \in Nat
    BY SentSoFar
  <2> HIDE DEF kinds
  <2>6. /\ Len(out'[c]) = Len(out[c]) + Len(kinds)
        /\ \A k \in 1 .. Len(kinds) :
             out'[c][Len(out[c]) + k] = [session |-> session[c], kind |-> kinds[k]]
    BY <1>1, <2>3, <2>4, OnWireContents
  <2>7. out'[c][Len(out[c]) + 1] = [session |-> session[c], kind |-> kinds[1]]
    BY <2>3, <2>6
  <2>8. Len(out[c]) + 1 \in 1 .. Len(out'[c])
    BY <2>3, <2>5, <2>6
  <2> QED
    BY <2>1, <2>3, <2>7, <2>8 DEF Requesting
<1>6. ASSUME NEW dt \in Times,
             \/ TickIdle(c, dt) \/ ConnectingIdle(c, dt) \/ ConnectingConnecting(c, dt)
             \/ ConnectingTopLevel(c, dt) \/ ConnectingJustConnected(c, dt)
             \/ TickConnected(c, dt)
      PROVE  session'[c] = session[c] /\ HasAsked(c)
  BY <1>6 DEF TickIdle, ConnectingIdle, ConnectingConnecting, ConnectingTopLevel,
     ConnectingJustConnected, TickConnected, TickConnecting, Tick, HasAsked
<1> QED
  BY <1>2, <1>3, <1>4, <1>5, <1>6 DEF StepOf, ClientCall, EpnetStep, ClientTick

(* The other clients. *)
LEMMA OthersKeep ==
  ASSUME ClientTypeOK, NEW c \in Clients, StepOf(c), NEW d \in Clients \ {c}
  PROVE  out'[d] = out[d] /\ calls'[d] = calls[d]
<1> USE DEF ClientTypeOK
<1>1. CASE ClientTick(c)
  BY <1>1 DEF ClientTick, TickIdle, ConnectingIdle, ConnectingConnecting,
     ConnectingConnected, ConnectingTopLevel, ConnectingJustConnected, TickConnected,
     TickConnecting, Transmit, TransmitRequest, OnWire, NoCalls
<1>2. CASE ClientCall(c)
  BY <1>2 DEF ClientCall, ConnectionRequest, Disconnect, SendShoot, Transmit, OnWire,
     NoCalls
<1>3. CASE EpnetStep(c)
  BY <1>3 DEF EpnetStep, EpnetOpen, EpnetClose, EpnetTake, EpnetReceive
<1> QED
  BY <1>1, <1>2, <1>3 DEF StepOf

Unmoved(d) ==
  /\ state'[d] = state[d] /\ substate'[d] = substate[d] /\ config'[d] = config[d]
  /\ session'[d] = session[d] /\ asked'[d] = asked[d] /\ fresh'[d] = fresh[d]
  /\ link'[d] = link[d] /\ events'[d] = events[d]
  /\ out'[d] = out[d] /\ calls'[d] = calls[d]

LEMMA OthersUnmoved ==
  ASSUME ClientTypeOK, NEW c \in Clients, StepOf(c), NEW d \in Clients \ {c}
  PROVE  Unmoved(d)
BY OthersStandStill, OthersKeep DEF Unmoved, StepOf

(* The order that each client keeps with what it sends. *)
Orderly(c) ==
  Accounted(c) /\ Handshake(c) /\ AsksWhenOpen(c) /\ Numbered(c) /\ ~Opening(c, 0)

ClientOrder == ClientTypeOK /\ \A c \in Clients : Orderly(c)

LEMMA UnmovedKeeps ==
  ASSUME NEW d, Unmoved(d)
  PROVE  /\ Orderly(d) => Orderly(d)'
         /\ \A n : Opening(d, n)' <=> Opening(d, n)
         /\ \A q : Held(d, q)' <=> Held(d, q)
         /\ Requesting(d)' <=> Requesting(d)
         /\ HasAsked(d)' <=> HasAsked(d)
<1> USE DEF Unmoved
<1>1. Accounted(d) => Accounted(d)'
  BY DEF Accounted
<1>2. Handshake(d) => Handshake(d)'
  BY DEF Handshake
<1>3. AsksWhenOpen(d) => AsksWhenOpen(d)'
  BY DEF AsksWhenOpen
<1>4. Numbered(d) => Numbered(d)'
  BY DEF Numbered
<1>5. \A n : Opening(d, n)' <=> Opening(d, n)
  BY DEF Opening
<1>6. \A q : Held(d, q)' <=> Held(d, q)
  BY DEF Held
<1>7. Requesting(d)' <=> Requesting(d)
  BY DEF Requesting
<1>8. HasAsked(d)' <=> HasAsked(d)
  BY DEF HasAsked
<1> QED
  BY <1>1, <1>2, <1>3, <1>4, <1>5, <1>6, <1>7, <1>8 DEF Orderly

LEMMA OrderInit == ClientInit => ClientOrder
<1> SUFFICES ASSUME ClientInit PROVE ClientOrder
  OBVIOUS
<1>1. ClientTypeOK
  BY ClientInitType
<1> SUFFICES ASSUME NEW c \in Clients PROVE Orderly(c)
  BY <1>1 DEF ClientOrder
<1>2. /\ state[c] = "UNINITED" /\ link[c] = "closed" /\ events[c] = <<>>
      /\ out[c] = <<>> /\ asked[c] = 0 /\ session[c] = 0
  BY DEF ClientInit
<1>3. Range(<<>>) = {} /\ 1 .. Len(<<>>) = {}
  BY DEF Range
<1>4. Accounted(c) /\ Handshake(c) /\ AsksWhenOpen(c)
  BY <1>2, <1>3 DEF Accounted, Handshake, AsksWhenOpen
<1>5. Numbered(c) /\ ~Opening(c, 0)
  BY <1>2, <1>3 DEF Numbered, Opening
<1> QED
  BY <1>4, <1>5 DEF Orderly

LEMMA OrderStands ==
  ASSUME ClientOrder, UNCHANGED vars
  PROVE  ClientOrder' /\ \A d \in Clients : Unmoved(d)
<1>1. \A d \in Clients : Unmoved(d)
  BY DEF vars, ghosts, Unmoved
<1>2. \A d \in Clients : Orderly(d)'
  BY <1>1, UnmovedKeeps DEF ClientOrder
<1>3. ClientTypeOK'
  BY DEF ClientOrder, ClientTypeOK, vars, clocks, ghosts
<1> QED
  BY <1>1, <1>2, <1>3 DEF ClientOrder

LEMMA OrderStep ==
  ASSUME ClientOrder, NEW c \in Clients, StepOf(c)
  PROVE  ClientOrder'
<1>1. ClientTypeOK /\ Orderly(c)
  BY DEF ClientOrder
<1>2. ClientTypeOK'
  BY <1>1, CallTypes, EpnetTypes, TickTypes DEF StepOf
<1>3. Accounted(c)' /\ Handshake(c)'
  BY <1>1, AccountedStep, HandshakeStep DEF StepOf, Orderly
<1>4. AsksWhenOpen(c)'
  BY <1>1, AsksWhenOpenStep DEF Orderly
<1>5. Numbered(c)' /\ ~Opening(c, 0)'
  <2>1. session[c] \in Nat /\ 0 \in Nat
    BY <1>1, SentSoFar
  <2>2. /\ Numbered(c)'
        /\ \A n \in Nat : Opening(c, n)' =>
             Opening(c, n) \/ (n = session[c] + 1 /\ session'[c] = session[c] + 1)
    BY <1>1, NumberedStep DEF Orderly
  <2>3. Opening(c, 0)' => Opening(c, 0) \/ 0 = session[c] + 1
    BY <2>1, <2>2
  <2> QED
    BY <1>1, <2>1, <2>2, <2>3 DEF Orderly
<1>6. Orderly(c)'
  BY <1>3, <1>4, <1>5 DEF Orderly
<1>7. \A d \in Clients \ {c} : Orderly(d)'
  BY <1>1, OthersUnmoved, UnmovedKeeps DEF ClientOrder
<1> QED
  BY <1>2, <1>6, <1>7 DEF ClientOrder

(* When a link opens and when a session begins. *)
LEMMA LinkOpens ==
  ASSUME ClientTypeOK, NEW c \in Clients, Own(c) \/ EpnetTake(c), link'[c] = "open"
  PROVE  link[c] = "open"
<1>1. CASE EpnetTake(c)
  BY <1>1 DEF EpnetTake
<1>2. CASE ClientTick(c)
  BY <1>2 DEF ClientTick, TickIdle, ConnectingIdle, ConnectingConnecting,
     ConnectingConnected, ConnectingTopLevel, ConnectingJustConnected, TickConnected,
     TickConnecting, Tick
<1>3. CASE ClientCall(c) \/ EpnetClose(c)
  BY <1>3 DEF ClientCall, ConnectionRequest, Disconnect, SendShoot, EpnetClose,
     ClientTypeOK
<1> QED
  BY <1>1, <1>2, <1>3 DEF Own

LEMMA SessionBegins ==
  ASSUME ClientTypeOK, NEW c \in Clients, StepOf(c), session'[c] # session[c]
  PROVE  /\ ConnectionRequest(c) /\ session'[c] = session[c] + 1
         /\ link'[c] = "opening"
<1>1. ConnectionRequest(c) /\ session'[c] = session[c] + 1
  BY OutSteps, Taken DEF Sends
<1> QED
  BY <1>1 DEF ConnectionRequest, ClientTypeOK
=============================================================================
