----------------------------- MODULE QueueProofs -----------------------------
(***************************************************************************)
(* What holds of the two queues that threads share, for every number of    *)
(* threads and of items.  The queue of queue.c: its types, and that it     *)
(* implements Line.  The priority queue of pqueue.c, for every set of      *)
(* priorities: its types, that it is sorted when the mutex is free, and    *)
(* that it implements PriorityQueue.                                       *)
(***************************************************************************)
EXTENDS Queue, PQueue, SequenceLemmas

(* Between the lines of a call: a thread that is about to store has room, one *)
(* that is about to count has stored, and one that has taken found an item.   *)
CallsAreOnTheirWay ==
  \A u \in Users :
    /\ stage[u] # "idle" => discipline # NoQueue
    /\ stage[u] \in {"store", "count"} => number < Len(places)
    /\ stage[u] = "count" => places[number + 1] = offered[u]
    /\ stage[u] = "taken" => number # 0
    /\ stage[u] = "taken" /\ discipline = "LIFO" => result = places[number]

QueueInv == QueueTypeOK /\ CallsAreOnTheirWay

LEMMA QueueInitInv == QueueInit => QueueInv
BY DisciplineAssumption, OffersAssumption, EmptySeq
   DEF QueueInit, QueueInv, QueueTypeOK, CallsAreOnTheirWay

(* MakeRoom: the array grows by at least one place and keeps its items.      *)
LEMMA BiggerHasRoom ==
  ASSUME NEW seq \in Seq(0 .. MaxOffers), NEW n \in Nat, n = Len(seq)
  PROVE  LET grown == [i \in 1 .. Bigger(n) |-> IF i \in DOMAIN seq THEN seq[i] ELSE Garbage]
         IN  /\ grown \in Seq(0 .. MaxOffers)
             /\ Len(grown) > n
             /\ \A i \in 1 .. n : grown[i] = seq[i]
<1> DEFINE grown == [i \in 1 .. Bigger(n) |-> IF i \in DOMAIN seq THEN seq[i] ELSE Garbage]
<1>1. Bigger(n) \in Nat /\ Bigger(n) > n
  BY DEF Bigger
<1>2. DOMAIN seq = 1 .. n /\ \A i \in 1 .. n : seq[i] \in 0 .. MaxOffers
  BY ElementOfSeq, LenProperties
<1>3. grown \in [1 .. Bigger(n) -> 0 .. MaxOffers]
  BY <1>2, OffersAssumption DEF Garbage
<1>4. grown \in Seq(0 .. MaxOffers) /\ Len(grown) = Bigger(n)
  BY <1>1, <1>3, FunctionIsSeq
<1>5. \A i \in 1 .. n : grown[i] = seq[i]
  BY <1>1, <1>2
<1> QED
  BY <1>1, <1>4, <1>5

(* Shifted: memmove closes the gap at the beginning.                         *)
LEMMA ShiftedCloses ==
  ASSUME QueueTypeOK, number # 0
  PROVE  /\ Shifted \in Seq(0 .. MaxOffers)
         /\ Len(Shifted) = Len(places)
         /\ \A i \in 1 .. number - 1 : Shifted[i] = places[i + 1]
<1>1. /\ DOMAIN places = 1 .. Len(places) /\ Len(places) \in Nat
      /\ number \in 1 .. Len(places)
      /\ \A i \in 1 .. Len(places) : places[i] \in 0 .. MaxOffers
  <2>1. places \in Seq(0 .. MaxOffers)
    BY DEF QueueTypeOK
  <2>2. DOMAIN places = 1 .. Len(places) /\ Len(places) \in Nat
    BY <2>1, LenProperties
  <2>3. number \in 1 .. Len(places)
    BY <2>2 DEF QueueTypeOK
  <2> QED
    BY <2>1, <2>2, <2>3, ElementOfSeq
<1>2. Shifted \in [1 .. Len(places) -> 0 .. MaxOffers]
  BY <1>1 DEF Shifted
<1>3. \A i \in 1 .. number - 1 : Shifted[i] = places[i + 1]
  BY <1>1 DEF Shifted
<1> QED
  BY <1>1, <1>2, <1>3, FunctionIsSeq

LEMMA QueueNextInv == QueueInv /\ [QueueNext]_queueVars => QueueInv'
<1> SUFFICES ASSUME QueueInv, [QueueNext]_queueVars
             PROVE  QueueInv'
  OBVIOUS
<1> USE DEF QueueInv, QueueTypeOK, CallsAreOnTheirWay
<1>1. CASE CreateQueue
  BY <1>1, DisciplineAssumption DEF CreateQueue
<1>2. CASE DestroyQueue
  BY <1>2, EmptySeq, OffersAssumption DEF DestroyQueue
<1>3. ASSUME NEW u \in Users, BeginOffer(u)
      PROVE  QueueInv'
  BY <1>3, OffersAssumption DEF BeginOffer, BeginCall, Proceed
<1>4. ASSUME NEW u \in Users, BeginOther(u)
      PROVE  QueueInv'
  BY <1>4 DEF BeginOther, BeginCall, Proceed
<1>5. ASSUME NEW u \in Users, EnterMutex(u)
      PROVE  QueueInv'
  BY <1>5, UsersAssumption DEF EnterMutex
<1>6. ASSUME NEW u \in Users, MakeRoom(u)
      PROVE  QueueInv'
  <2> USE DEF MakeRoom, Holds
  <2>1. CASE number < Len(places) /\ Proceed(u, "store") /\ UNCHANGED <<places, owner>>
    BY <1>6, <2>1, UsersAssumption DEF Proceed
  <2>2. CASE /\ places' = [i \in 1 .. Bigger(Len(places)) |->
                             IF i \in DOMAIN places THEN places[i] ELSE Garbage]
             /\ Proceed(u, "store")
             /\ UNCHANGED owner
    <3>1. places \in Seq(0 .. MaxOffers) /\ Len(places) \in Nat
      BY LenProperties
    <3>2. places' \in Seq(0 .. MaxOffers) /\ Len(places') > Len(places)
      BY <2>2, <3>1, BiggerHasRoom
    <3>3. Len(places') \in Nat /\ number < Len(places') /\ number \in 0 .. Len(places')
      BY <3>1, <3>2, LenProperties
    <3>4. \A other \in Users \ {u} : stage'[other] \notin {"store", "count", "taken"}
      BY <1>6, <2>2, UsersAssumption DEF Proceed
    <3>5. stage'[u] = "store" /\ number < Len(places')
      BY <1>6, <2>2, <3>3 DEF Proceed
    <3>6. QueueTypeOK'
      BY <1>6, <2>2, <3>2, <3>3, <3>4 DEF Proceed
    <3>7. CallsAreOnTheirWay'
      BY <1>6, <2>2, <3>4, <3>5 DEF Proceed
    <3> QED
      BY <3>6, <3>7
  <2>3. CASE Refused(u) /\ UNCHANGED places
    BY <1>6, <2>3, UsersAssumption DEF Refused, Leave, Proceed
  <2> QED
    BY <1>6, <2>1, <2>2, <2>3
<1>7. ASSUME NEW u \in Users, Store(u)
      PROVE  QueueInv'
  <2>1. /\ places' \in Seq(0 .. MaxOffers) /\ Len(places') = Len(places)
        /\ places'[number + 1] = offered[u]
    BY <1>7, ExceptSeq, LenProperties DEF Store, Holds
  <2> QED
    BY <1>7, <2>1, UsersAssumption DEF Store, Holds, Proceed
<1>8. ASSUME NEW u \in Users, Count(u)
      PROVE  QueueInv'
  BY <1>8, LenProperties, UsersAssumption DEF Count, Holds, Leave, Proceed
<1>9. ASSUME NEW u \in Users, TakeItem(u)
      PROVE  QueueInv'
  <2>1. \A i \in 1 .. Len(places) : places[i] \in 0 .. MaxOffers
    BY ElementOfSeq
  <2>2. /\ places' \in Seq(0 .. MaxOffers) /\ Len(places') = Len(places)
        /\ result' \in 0 .. MaxOffers
        /\ discipline = "LIFO" => result' = places'[number]
    BY <1>9, <2>1, ShiftedCloses, LenProperties DEF TakeItem
  <2> QED
    BY <1>9, <2>2, UsersAssumption DEF TakeItem, Holds, Proceed
<1>10. ASSUME NEW u \in Users, CountTaken(u)
       PROVE  QueueInv'
  BY <1>10, OffersAssumption, LenProperties, UsersAssumption DEF CountTaken, Holds, Leave, Proceed
<1>11. ASSUME NEW u \in Users, TakeNothing(u)
       PROVE  QueueInv'
  BY <1>11, OffersAssumption, UsersAssumption DEF TakeNothing, Holds, Leave, Proceed
<1>12. ASSUME NEW u \in Users, ClearQueue(u)
       PROVE  QueueInv'
  BY <1>12, EmptySeq, UsersAssumption DEF ClearQueue, Holds, Leave, Proceed
<1>13. CASE UNCHANGED queueVars
  BY <1>13 DEF queueVars
<1> QED
  BY <1>1, <1>2, <1>3, <1>4, <1>5, <1>6, <1>7, <1>8, <1>9, <1>10, <1>11, <1>12, <1>13
     DEF QueueNext, QueueStep

LEMMA QueueInvariant == QueueSpec => []QueueInv
<1> QED
  BY QueueInitInv, QueueNextInv, PTL DEF QueueSpec

(* The array never holds more than was allocated for it, and only the thread *)
(* that owns the mutex is in the middle of a change (queue.c:92-185).        *)
THEOREM QueueTypeCorrect == QueueSpec => []QueueTypeOK
<1>1. QueueInv => QueueTypeOK
  BY DEF QueueInv
<1> QED
  BY <1>1, QueueInvariant, PTL

-----------------------------------------------------------------------------
(* The refinement of Line.                                                   *)

LEMMA MeaningIs ==
  /\ Meaning("idle") = "nothing" /\ Meaning("clear") = "clear"
  /\ Meaning("offer") = "offer" /\ Meaning("store") = "offer" /\ Meaning("count") = "offer"
  /\ Meaning("take") = "take" /\ Meaning("taken") = "take"
BY DEF Meaning

LEMMA AskedMoves ==
  ASSUME QueueTypeOK, NEW u \in Users, NEW place, Proceed(u, place)
  PROVE  Asked' = [Asked EXCEPT ![u] = Meaning(place)]
BY DEF QueueTypeOK, Proceed, Asked

(* A thread that goes on within its call.                                    *)
LEMMA AskedStays ==
  ASSUME QueueTypeOK, NEW u \in Users, NEW place, Proceed(u, place),
         Meaning(place) = Meaning(stage[u])
  PROVE  Asked' = Asked
BY DEF QueueTypeOK, Proceed, Asked

SomebodyTook == \E u \in Users : stage[u] = "taken"

LEMMA InLineUnchanged ==
  ASSUME UNCHANGED <<discipline, places, number, result>>,
         SomebodyTook' <=> SomebodyTook
  PROVE  InLine' = InLine
BY DEF InLine, SomebodyTook

(* The array changes beyond what is counted.                                 *)
LEMMA InLineKept ==
  ASSUME QueueTypeOK, QueueTypeOK', ~SomebodyTook, ~SomebodyTook',
         number' = number, \A i \in 1 .. number : places'[i] = places[i]
  PROVE  InLine' = InLine
<1>1. InLine = SubSeq(places, 1, number) /\ InLine' = SubSeq(places', 1, number)
  BY DEF InLine, SomebodyTook
<1> QED
  BY <1>1, SameCounted DEF QueueTypeOK

(* Only the thread inside the mutex can have taken.                          *)
LEMMA InsideAlone ==
  ASSUME QueueTypeOK, NEW u \in Users, owner = u, stage[u] # "taken"
  PROVE  ~SomebodyTook
BY DEF QueueTypeOK, SomebodyTook

LEMMA OthersStay ==
  ASSUME QueueTypeOK, NEW u \in Users, NEW place, Proceed(u, place),
         place # "taken", stage[u] # "taken"
  PROVE  SomebodyTook' <=> SomebodyTook
BY DEF QueueTypeOK, Proceed, SomebodyTook


(* Count: the stored item becomes the last of the line.                      *)
LEMMA CountAccepts ==
  ASSUME QueueInv, QueueInv', NEW u \in Users, Count(u)
  PROVE  Shared!Accept(u)
<1> DEFINE D == 0 .. MaxOffers
<1>1. /\ places \in Seq(D) /\ number \in 0 .. Len(places) /\ number \in Nat
      /\ number + 1 \in 1 .. Len(places) /\ number + 1 \in 0 .. Len(places)
      /\ places[number + 1] = offered[u] /\ offered[u] \in D
  BY LenProperties DEF QueueInv, QueueTypeOK, CallsAreOnTheirWay, Count, Holds
<1>2. ~SomebodyTook
  BY InsideAlone DEF QueueInv, Count, Holds
<1>3. ~SomebodyTook'
  BY <1>2, OthersStay DEF QueueInv, Count, Holds, Leave
<1>4. InLine = SubSeq(places, 1, number) /\ InLine' = SubSeq(places, 1, number + 1)
  BY <1>2, <1>3 DEF InLine, SomebodyTook, Count
<1>5. SubSeq(places, 1, number + 1) = SubSeq(places, 1, number) \o <<places[number + 1]>>
  <2>1. SubSeq(places, 1, number + 1)
          = SubSeq(places, 1, (number + 1) - 1) \o <<places[number + 1]>>
    BY <1>1, SubSeqRecursiveSecond
  <2> QED
    BY <1>1, <2>1
<1>6. InLine' = Append(InLine, offered[u])
  BY <1>1, <1>4, <1>5, Counted, AppendIsConcat
<1>7. Asked' = [Asked EXCEPT ![u] = "nothing"] /\ Asked[u] = "offer"
  BY AskedMoves, MeaningIs DEF QueueInv, Count, Holds, Leave, Asked
<1> QED
  BY <1>6, <1>7 DEF Shared!Accept, Shared!Answer, Count

(* TakeItem of a FIFO queue: the item that memmove overwrites is still seen. *)
LEMMA TakeItemIsUnseen ==
  ASSUME QueueInv, QueueInv', NEW u \in Users, TakeItem(u)
  PROVE  InLine' = InLine /\ Asked' = Asked
<1> DEFINE D == 0 .. MaxOffers
<1>1. /\ places \in Seq(D) /\ places' \in Seq(D) /\ number' = number
      /\ number \in 1 .. Len(places) /\ number \in 0 .. Len(places)
      /\ number \in 0 .. Len(places') /\ Len(places) \in Nat
  BY LenProperties DEF QueueInv, QueueTypeOK, TakeItem
<1>2. Asked' = Asked
  BY AskedStays, MeaningIs DEF QueueInv, TakeItem, Holds
<1>3. ~SomebodyTook
  BY InsideAlone DEF QueueInv, TakeItem, Holds
<1>4. InLine = SubSeq(places, 1, number)
  BY <1>3 DEF InLine, SomebodyTook
<1>5. CASE discipline = "LIFO"
  BY <1>2, <1>4, <1>5 DEF TakeItem, InLine
<1>6. CASE discipline = "FIFO"
  <2> DEFINE counted == SubSeq(places', 1, number)
  <2>1. /\ result' = places[1] /\ places' = Shifted
        /\ stage'[u] = "taken" /\ discipline' = "FIFO"
    BY <1>6 DEF TakeItem, Proceed, QueueInv, QueueTypeOK
  <2>2. InLine' = <<places[1]>> \o Front(counted)
    BY <1>1, <2>1 DEF InLine
  <2>3. /\ counted \in Seq(D) /\ Len(counted) = number
        /\ \A i \in 1 .. number : counted[i] = places'[i]
    BY <1>1, Counted
  <2>4. Front(counted) = SubSeq(counted, 1, number - 1)
    BY <2>3 DEF Front
  <2>5. /\ Front(counted) \in Seq(D) /\ Len(Front(counted)) = number - 1
        /\ \A i \in 1 .. number - 1 : Front(counted)[i] = counted[i]
    <3>1. number - 1 \in 0 .. Len(counted)
      BY <1>1, <2>3
    <3>2. counted \in Seq(D) /\ number \in Nat
      BY <1>1, <2>3
    <3> HIDE DEF counted, D
    <3>3. /\ SubSeq(counted, 1, number - 1) \in Seq(D)
          /\ Len(SubSeq(counted, 1, number - 1)) = number - 1
          /\ \A i \in 1 .. number - 1 : SubSeq(counted, 1, number - 1)[i] = counted[i]
      BY <3>1, <3>2, Counted
    <3> QED
      BY <2>4, <3>3
  <2>6. \A i \in 1 .. number - 1 : places'[i] = places[i + 1]
    BY <1>1, <2>1, ShiftedCloses DEF QueueInv
  <2>7. /\ SubSeq(places, 2, number) \in Seq(D)
        /\ Len(SubSeq(places, 2, number)) = number - 1
        /\ \A i \in 1 .. number - 1 : SubSeq(places, 2, number)[i] = places[i + 1]
    <3>1. \A i \in 1 .. Len(places) : places[i] \in D
      BY <1>1, ElementOfSeq
    <3>2. \A i \in 2 .. number : places[i] \in D
      BY <1>1, <3>1
    <3>3. 2 \in Int /\ number \in Int /\ number >= 1
      BY <1>1
    <3>4. /\ SubSeq(places, 2, number) \in Seq(D)
          /\ Len(SubSeq(places, 2, number)) = IF 2 <= number THEN number - 2 + 1 ELSE 0
          /\ \A i \in 1 .. number - 2 + 1 : SubSeq(places, 2, number)[i] = places[2 + i - 1]
      BY <3>2, <3>3, SubSeqProperties
    <3> QED
      BY <3>3, <3>4
  <2>8. Front(counted) = SubSeq(places, 2, number)
    <3>1. \A i \in 1 .. number - 1 : Front(counted)[i] = SubSeq(places, 2, number)[i]
      BY <1>1, <2>3, <2>5, <2>6, <2>7
    <3> QED
      BY <2>5, <2>7, <3>1, SeqEqual
  <2>9. SubSeq(places, 1, number) = <<places[1]>> \o SubSeq(places, 2, number)
    <3>1. 1 \in 1 .. Len(places) /\ 1 + 1 = 2
      BY <1>1
    <3>2. SubSeq(places, 1, number) = <<places[1]>> \o SubSeq(places, 1 + 1, number)
      BY <1>1, <3>1, SubSeqRecursiveFirst
    <3> QED
      BY <3>1, <3>2
  <2> QED
    BY <1>2, <1>4, <2>2, <2>8, <2>9
<1>7. discipline = "LIFO" \/ discipline = "FIFO"
  BY DEF TakeItem
<1> QED
  BY <1>5, <1>6, <1>7

(* CountTaken: what was taken is delivered, the head of the line of a FIFO   *)
(* queue and the last of a LIFO queue.                                       *)
LEMMA CountTakenDelivers ==
  ASSUME QueueInv, QueueInv', NEW u \in Users, CountTaken(u)
  PROVE  Shared!Deliver(u)
<1> DEFINE D == 0 .. MaxOffers
<1>1. /\ places \in Seq(D) /\ number \in 1 .. Len(places) /\ number \in Nat
      /\ result \in D /\ number - 1 \in 0 .. Len(places)
  BY LenProperties DEF QueueInv, QueueTypeOK, CallsAreOnTheirWay, CountTaken, Holds
<1>2. Asked' = [Asked EXCEPT ![u] = "nothing"] /\ Asked[u] = "take"
  BY AskedMoves, MeaningIs DEF QueueInv, CountTaken, Holds, Leave, Asked
<1>3. SomebodyTook /\ ~SomebodyTook'
  BY DEF QueueInv, QueueTypeOK, CountTaken, Holds, Leave, Proceed, SomebodyTook
<1>4. InLine' = SubSeq(places, 1, number - 1)
  BY <1>3 DEF InLine, SomebodyTook, CountTaken
<1>5. /\ Front(SubSeq(places, 1, number)) = SubSeq(places, 1, number - 1)
      /\ Last(SubSeq(places, 1, number)) = places[number]
      /\ SubSeq(places, 1, number) # <<>>
  BY <1>1, FrontOfCounted
<1>6. SubSeq(places, 1, number - 1) \in Seq(D)
  BY <1>1, Counted
<1>7. CASE discipline = "FIFO"
  <2>1. InLine = <<result>> \o SubSeq(places, 1, number - 1)
    BY <1>3, <1>5, <1>7 DEF InLine, SomebodyTook
  <2>2. InLine # <<>> /\ Head(InLine) = result /\ Tail(InLine) = InLine'
    BY <1>1, <1>4, <1>6, <2>1, HeadTailOfLine
  <2> QED
    BY <1>2, <1>7, <2>2 DEF Shared!Deliver, Shared!Answer, CountTaken
<1>8. CASE discipline = "LIFO"
  <2>1. InLine = SubSeq(places, 1, number)
    BY <1>8 DEF InLine
  <2>2. result = places[number]
    BY <1>8 DEF QueueInv, CallsAreOnTheirWay, CountTaken, Holds
  <2>3. InLine # <<>> /\ Last(InLine) = result /\ Front(InLine) = InLine'
    BY <1>4, <1>5, <2>1, <2>2
  <2> QED
    BY <1>2, <1>8, <2>3
       DEF Shared!Deliver, Shared!Answer, CountTaken, Shared!Last, Shared!Front, Last, Front
<1>9. discipline \in {"FIFO", "LIFO"}
  BY DEF QueueInv, QueueTypeOK, CallsAreOnTheirWay, CountTaken, Holds
<1> QED
  BY <1>7, <1>8, <1>9

(* Every step of the queue is one of the line, or none that its users see.   *)
LEMMA QueueStepRefines ==
  ASSUME QueueInv, QueueInv', NEW u \in Users, QueueStep(u)
  PROVE  Shared!Next \/ UNCHANGED Shared!lineVars
<1>1. CASE MakeRoom(u)
  <2>1. ~SomebodyTook
    BY <1>1, InsideAlone DEF QueueInv, MakeRoom, Holds
  <2>2. /\ places \in Seq(0 .. MaxOffers) /\ number \in 0 .. Len(places) /\ Len(places) \in Nat
        /\ stage[u] = "offer"
    BY <1>1, LenProperties DEF QueueInv, QueueTypeOK, MakeRoom, Holds
  <2>3. CASE Refused(u) /\ UNCHANGED places
    <3>1. InLine' = InLine
      BY <1>1, <2>3, <2>2, OthersStay, InLineUnchanged DEF QueueInv, MakeRoom, Refused, Leave
    <3>2. Asked' = [Asked EXCEPT ![u] = "nothing"] /\ Asked[u] = "offer"
      BY <2>2, <2>3, AskedMoves, MeaningIs DEF QueueInv, Refused, Leave, Asked
    <3> QED
      BY <1>1, <3>1, <3>2 DEF Shared!Next, Shared!Refuse, Shared!Answer, MakeRoom
  <2>4. ASSUME Proceed(u, "store"), \A i \in 1 .. number : places'[i] = places[i]
        PROVE  UNCHANGED Shared!lineVars
    <3>1. ~SomebodyTook'
      BY <2>1, <2>2, <2>4, OthersStay DEF QueueInv
    <3>2. InLine' = InLine
      BY <1>1, <2>1, <2>4, <3>1, InLineKept DEF QueueInv, MakeRoom
    <3>3. Asked' = Asked
      BY <2>2, <2>4, AskedStays, MeaningIs DEF QueueInv
    <3> QED
      BY <1>1, <3>2, <3>3 DEF Shared!lineVars, MakeRoom
  <2> QED
    <3>1. CASE Proceed(u, "store") /\ UNCHANGED places
      BY <2>4, <3>1
    <3>2. CASE /\ Proceed(u, "store")
               /\ places' = [i \in 1 .. Bigger(Len(places)) |->
                              IF i \in DOMAIN places THEN places[i] ELSE Garbage]
      <4>1. \A i \in 1 .. Len(places) : places'[i] = places[i]
        BY <2>2, <3>2, BiggerHasRoom
      <4> QED
        BY <2>2, <2>4, <3>2, <4>1
    <3> QED
      BY <1>1, <2>3, <3>1, <3>2 DEF MakeRoom
<1>2. CASE Store(u)
  <2>1. ~SomebodyTook /\ ~SomebodyTook'
    BY <1>2, InsideAlone, OthersStay DEF QueueInv, Store, Holds
  <2>2. \A i \in 1 .. number : places'[i] = places[i]
    <3>1. number \in 0 .. Len(places) /\ number + 1 \in 1 .. Len(places) /\ Len(places) \in Nat
      BY <1>2, LenProperties DEF QueueInv, QueueTypeOK, CallsAreOnTheirWay, Store, Holds
    <3>2. places \in Seq(0 .. MaxOffers) /\ offered[u] \in 0 .. MaxOffers
      BY DEF QueueInv, QueueTypeOK
    <3> QED
      BY <1>2, <3>1, <3>2, ExceptSeq DEF Store
  <2>3. InLine' = InLine
    BY <1>2, <2>1, <2>2, InLineKept DEF QueueInv, Store
  <2>4. Asked' = Asked
    BY <1>2, AskedStays, MeaningIs DEF QueueInv, Store, Holds
  <2> QED
    BY <1>2, <2>3, <2>4 DEF Shared!lineVars, Store
<1>3. CASE Count(u)
  BY <1>3, CountAccepts DEF Shared!Next
<1>4. CASE TakeItem(u)
  BY <1>4, TakeItemIsUnseen DEF Shared!lineVars, TakeItem
<1>5. CASE CountTaken(u)
  BY <1>5, CountTakenDelivers DEF Shared!Next
<1>6. CASE TakeNothing(u)
  <2>1. ~SomebodyTook
    BY <1>6, InsideAlone DEF QueueInv, TakeNothing, Holds
  <2>2. InLine = <<>>
    <3>1. InLine = SubSeq(places, 1, 0)
      BY <1>6, <2>1 DEF InLine, SomebodyTook, TakeNothing
    <3> QED
      BY <3>1, SubSeqEmpty
  <2>3. InLine' = InLine
    BY <1>6, OthersStay, InLineUnchanged DEF QueueInv, TakeNothing, Holds, Leave
  <2>4. Asked' = [Asked EXCEPT ![u] = "nothing"] /\ Asked[u] = "take"
    BY <1>6, AskedMoves, MeaningIs DEF QueueInv, TakeNothing, Holds, Leave, Asked
  <2> QED
    BY <1>6, <2>2, <2>3, <2>4 DEF Shared!Next, Shared!ComeBackEmpty, Shared!Answer, TakeNothing
<1>7. CASE ClearQueue(u)
  <2>1. ~SomebodyTook'
    BY <1>7, InsideAlone, OthersStay DEF QueueInv, ClearQueue, Holds, Leave
  <2>2. InLine' = <<>>
    <3>1. InLine' = SubSeq(<<>>, 1, 0)
      BY <1>7, <2>1 DEF InLine, SomebodyTook, ClearQueue
    <3> QED
      BY <3>1, SubSeqEmpty
  <2>3. Asked' = [Asked EXCEPT ![u] = "nothing"] /\ Asked[u] = "clear"
    BY <1>7, AskedMoves, MeaningIs DEF QueueInv, ClearQueue, Holds, Leave, Asked
  <2> QED
    BY <1>7, <2>2, <2>3 DEF Shared!Next, Shared!Forget, Shared!Answer, ClearQueue
<1> QED
  BY <1>1, <1>2, <1>3, <1>4, <1>5, <1>6, <1>7 DEF QueueStep

LEMMA QueueNextRefines ==
  ASSUME QueueInv, QueueInv', [QueueNext]_queueVars
  PROVE  [Shared!Next]_Shared!lineVars
<1>1. CASE CreateQueue
  <2>1. ~SomebodyTook /\ ~SomebodyTook'
    BY <1>1 DEF QueueInv, CallsAreOnTheirWay, CreateQueue, SomebodyTook
  <2>2. InLine' = InLine
    BY <1>1, <2>1 DEF InLine, SomebodyTook, CreateQueue
  <2> QED
    BY <1>1, <2>2 DEF Shared!Next, Shared!Open, CreateQueue, Asked
<1>2. CASE DestroyQueue
  <2>1. InLine' = SubSeq(<<>>, 1, 0)
    BY <1>2 DEF DestroyQueue, InLine
  <2>2. InLine' = <<>>
    BY <2>1, SubSeqEmpty
  <2>3. Asked' = Asked /\ \A u \in Users : Asked[u] = "nothing"
    BY <1>2, MeaningIs DEF DestroyQueue, Asked
  <2> QED
    BY <1>2, <2>2, <2>3 DEF Shared!Next, Shared!Close, DestroyQueue
<1>3. ASSUME NEW u \in Users, BeginOffer(u) \/ BeginOther(u)
      PROVE  Shared!Ask(u)
  <2>1. PICK place \in {"offer", "take", "clear"} : Proceed(u, place)
    BY <1>3 DEF BeginOffer, BeginOther
  <2>2. stage[u] = "idle" /\ UNCHANGED <<discipline, places, number, result, delivered>>
    BY <1>3 DEF BeginOffer, BeginOther, BeginCall
  <2>3. InLine' = InLine
    BY <2>1, <2>2, OthersStay, InLineUnchanged DEF QueueInv
  <2>4. Asked' = [Asked EXCEPT ![u] = place] /\ Asked[u] = "nothing"
    BY <2>1, <2>2, AskedMoves, MeaningIs DEF QueueInv, Asked
  <2>5. /\ offered' \in [Users -> Nat]
        /\ \A other \in Users \ {u} : offered'[other] = offered[other]
    BY <1>3, OffersAssumption DEF QueueInv, QueueTypeOK, BeginOffer, BeginOther
  <2>6. discipline # NoQueue
    BY <1>3 DEF BeginOffer, BeginOther, BeginCall
  <2> QED
    BY <2>1, <2>2, <2>3, <2>4, <2>5, <2>6 DEF Shared!Ask
<1>4. ASSUME NEW u \in Users, EnterMutex(u)
      PROVE  UNCHANGED Shared!lineVars
  BY <1>4 DEF EnterMutex, Shared!lineVars, InLine, Asked
<1>5. CASE UNCHANGED queueVars
  BY <1>5 DEF queueVars, Shared!lineVars, InLine, Asked
<1> QED
  BY <1>1, <1>2, <1>3, <1>4, <1>5, QueueStepRefines DEF QueueNext, Shared!Next

LEMMA QueueInitRefines == QueueInit => Shared!Init
<1> SUFFICES ASSUME QueueInit PROVE Shared!Init
  OBVIOUS
<1>1. InLine = SubSeq(<<>>, 1, 0)
  BY DEF QueueInit, InLine
<1>2. InLine = <<>>
  BY <1>1, SubSeqEmpty
<1>3. Asked = [u \in Users |-> "nothing"]
  BY MeaningIs DEF QueueInit, Asked
<1> QED
  BY <1>2, <1>3 DEF QueueInit, Shared!Init

(* Calls of any number of threads take effect at one moment each and in turn *)
(* (queue.c:92-185): the queue implements Line.                              *)
THEOREM QueueImplementsLine == QueueSpec => ImplementsLine
<1>1. QueueInv /\ QueueInv' /\ [QueueNext]_queueVars => [Shared!Next]_Shared!lineVars
  BY QueueNextRefines
<1> QED
  BY <1>1, QueueInitRefines, QueueInvariant, PTL DEF QueueSpec, ImplementsLine, Shared!Spec

-----------------------------------------------------------------------------
(* The priority queue.                                                       *)

(* The order of the array: by priority, and among equals in the order in     *)
(* which the two kinds of queue keep them.  The data make it strict.         *)
Precedes(kind, x, y) ==
  \/ x.priority < y.priority
  \/ /\ x.priority = y.priority
     /\ IF kind = "FIFO" THEN x.datum < y.datum ELSE x.datum > y.datum

Ordered(kind, seq, n) ==
  \A i, j \in 1 .. n : i < j => Precedes(kind, seq[i], seq[j])

(* The binary search: what is to its left stays before the new item, what is *)
(* to its right goes after it.                                               *)
SearchInv ==
  /\ lo <= hi /\ hi < Len(items)
  /\ Ordered(type, items, Len(items) - 1)
  /\ \A i \in 1 .. Len(items) - 1 : items[i].datum < items[Len(items)].datum
  /\ \A i \in 1 .. lo : Precedes(type, items[i], items[Len(items)])
  /\ \A i \in hi + 1 .. Len(items) - 1 : Precedes(type, items[Len(items)], items[i])

OnlyInside ==
  \A t \in Threads :
    /\ pc[t] \in {"append", "search"} => lock = t
    /\ pc[t] = "append" => Len(items) < capacity

Searching == \E t \in Threads : pc[t] = "search"

ItemsInv ==
  /\ \A i \in 1 .. Len(items) : items[i].datum <= arrived
  /\ IF Searching THEN SearchInv ELSE Ordered(type, items, Len(items))

PQueueInv == PQueueTypeOK /\ OnlyInside /\ ItemsInv

-----------------------------------------------------------------------------
(* The place of the new item.                                                *)

LEMMA ItemFields ==
  ASSUME NEW x \in Item
  PROVE  x.priority \in Priorities /\ x.priority \in Int /\ x.datum \in Nat \ {0} /\ x.datum \in Int
<1>1. x.priority \in Priorities /\ x.datum \in Nat \ {0}
  BY DEF Item
<1>2. x.priority \in Int
  BY <1>1, PrioritiesAssumption
<1> QED
  BY <1>1, <1>2

LEMMA GoesLeftPrecedes ==
  ASSUME PQueueTypeOK, NEW old \in Item, NEW new \in Item, old.datum < new.datum
  PROVE  IF GoesLeft(old, new) THEN Precedes(type, new, old) ELSE Precedes(type, old, new)
<1>1. old.priority \in Int /\ new.priority \in Int /\ old.datum \in Int /\ new.datum \in Int
  BY ItemFields
<1>2. type \in {"FIFO", "LIFO"}
  BY DEF PQueueTypeOK
<1> QED
  BY <1>1, <1>2 DEF GoesLeft, Precedes

LEMMA PrecedesTransitive ==
  ASSUME NEW kind, NEW x \in Item, NEW y \in Item, NEW z \in Item,
         Precedes(kind, x, y), Precedes(kind, y, z)
  PROVE  Precedes(kind, x, z)
<1>1. /\ x.priority \in Int /\ y.priority \in Int /\ z.priority \in Int
      /\ x.datum \in Int /\ y.datum \in Int /\ z.datum \in Int
  BY ItemFields
<1> QED
  BY <1>1 DEF Precedes

LEMMA MovedIsOrdered ==
  ASSUME PQueueTypeOK, SearchInv, lo = hi
  PROVE  /\ Moved(items, lo) \in Seq(Item)
         /\ Len(Moved(items, lo)) = Len(items)
         /\ Ordered(type, Moved(items, lo), Len(items))
         /\ \A i \in 1 .. Len(items) : \E j \in 1 .. Len(items) : Moved(items, lo)[i] = items[j]
         /\ \A j \in 1 .. Len(items) : \E i \in 1 .. Len(items) : Moved(items, lo)[i] = items[j]
<1> DEFINE n == Len(items)
           moved == Moved(items, lo)
<1>1. items \in Seq(Item) /\ n \in Nat /\ lo \in Nat /\ lo < n
  BY LenProperties DEF PQueueTypeOK, SearchInv
<1>2. items # <<>> /\ lo \in 0 .. n - 1
  BY <1>1
<1>3. /\ moved \in Seq(Item) /\ Len(moved) = n
      /\ \A i \in 1 .. lo : moved[i] = items[i]
      /\ moved[lo + 1] = items[n]
      /\ \A i \in lo + 2 .. n : moved[i] = items[i - 1]
  BY <1>1, <1>2, MovedProperties
<1>4. /\ \A i, j \in 1 .. n - 1 : i < j => Precedes(type, items[i], items[j])
      /\ \A i \in 1 .. lo : Precedes(type, items[i], items[n])
      /\ \A i \in lo + 1 .. n - 1 : Precedes(type, items[n], items[i])
  BY DEF SearchInv, Ordered
<1> HIDE DEF moved, n
<1>5. ASSUME NEW i \in 1 .. n, NEW j \in 1 .. n, i < j
      PROVE  Precedes(type, moved[i], moved[j])
  <2>1. CASE j <= lo
    BY <1>1, <1>3, <1>4, <1>5, <2>1
  <2>2. CASE j = lo + 1
    BY <1>1, <1>3, <1>4, <1>5, <2>2
  <2>3. CASE j >= lo + 2
    <3>1. moved[j] = items[j - 1] /\ j - 1 \in 1 .. n - 1 /\ j - 1 \in lo + 1 .. n - 1
      BY <1>1, <1>3, <2>3
    <3>2. CASE i <= lo
      <4>1. moved[i] = items[i] /\ i \in 1 .. n - 1 /\ i < j - 1
        BY <1>1, <1>3, <1>5, <2>3, <3>2
      <4> QED
        BY <1>4, <3>1, <4>1
    <3>3. CASE i = lo + 1
      BY <1>3, <1>4, <3>1, <3>3
    <3>4. CASE i >= lo + 2
      <4>1. moved[i] = items[i - 1] /\ i - 1 \in 1 .. n - 1 /\ i - 1 < j - 1
        BY <1>1, <1>3, <1>5, <3>4
      <4> QED
        BY <1>4, <3>1, <4>1
    <3> QED
      BY <1>1, <3>2, <3>3, <3>4
  <2> QED
    BY <1>1, <2>1, <2>2, <2>3
<1>6. ASSUME NEW i \in 1 .. n
      PROVE  \E j \in 1 .. n : moved[i] = items[j]
  <2>1. CASE i <= lo
    BY <1>3, <2>1
  <2>2. CASE i = lo + 1
    BY <1>1, <1>3, <2>2
  <2>3. CASE i >= lo + 2
    <3>1. moved[i] = items[i - 1] /\ i - 1 \in 1 .. n
      BY <1>1, <1>3, <2>3
    <3> QED
      BY <3>1
  <2> QED
    BY <1>1, <2>1, <2>2, <2>3
<1>7. ASSUME NEW j \in 1 .. n
      PROVE  \E i \in 1 .. n : moved[i] = items[j]
  <2>1. CASE j <= lo
    BY <1>3, <2>1
  <2>2. CASE j = n
    <3>1. lo + 1 \in 1 .. n
      BY <1>1
    <3> QED
      BY <1>3, <2>2, <3>1
  <2>3. CASE j > lo /\ j # n
    <3>1. j + 1 \in lo + 2 .. n /\ j + 1 \in 1 .. n /\ (j + 1) - 1 = j
      BY <1>1, <2>3
    <3>2. moved[j + 1] = items[(j + 1) - 1]
      BY <1>3, <3>1
    <3> QED
      BY <3>1, <3>2
  <2> QED
    BY <1>1, <2>1, <2>2, <2>3
<1> QED
  BY <1>3, <1>5, <1>6, <1>7 DEF moved, n, Ordered

-----------------------------------------------------------------------------
(* The invariant.                                                            *)

LEMMA PQueueInitInv == PQueueInit => PQueueInv
<1> SUFFICES ASSUME PQueueInit PROVE PQueueInv
  OBVIOUS
<1>1. (CHOOSE p \in Priorities : TRUE) \in Priorities
  BY PrioritiesAssumption
<1>2. want \in [Threads -> Priorities]
  BY <1>1 DEF PQueueInit
<1>3. items = <<>> /\ items \in Seq(Item) /\ Len(items) = 0
  BY EmptySeq DEF PQueueInit
<1>4. PQueueTypeOK
  BY <1>2, <1>3 DEF PQueueInit, PQueueTypeOK
<1> QED
  BY <1>3, <1>4 DEF PQueueInit, PQueueInv, OnlyInside, ItemsInv, Searching, Ordered

(* Only the thread inside the mutex searches.                                *)
LEMMA SearchIsInside ==
  ASSUME PQueueInv, NEW t \in Threads, lock = t
  PROVE  Searching <=> pc[t] = "search"
BY DEF PQueueInv, PQueueTypeOK, OnlyInside, Searching

LEMMA FreeMutexIsOrdered ==
  ASSUME PQueueInv, lock = NoThread
  PROVE  ~Searching /\ Ordered(type, items, Len(items))
BY ThreadsAssumption DEF PQueueInv, OnlyInside, Searching, ItemsInv

(* Steps that leave the array and the search alone.                          *)
LEMMA ArrayUntouched ==
  ASSUME ItemsInv, UNCHANGED <<type, items, lo, hi, arrived>>, Searching' <=> Searching
  PROVE  ItemsInv'
BY DEF ItemsInv, SearchInv, Ordered

LEMMA AppendItemInv ==
  ASSUME PQueueInv, NEW t \in Threads, AppendItem(t)
  PROVE  PQueueInv'
<1> DEFINE n == Len(items)
           new == [priority |-> want[t], datum |-> arrived + 1]
<1>1. /\ items \in Seq(Item) /\ n \in Nat /\ arrived \in Nat /\ capacity \in Nat
      /\ pc \in [Threads -> {"idle", "queue", "append", "search", "dequeue", "clear"}]
      /\ lock = t /\ pc[t] = "append" /\ n < capacity
  BY LenProperties DEF PQueueInv, PQueueTypeOK, OnlyInside, AppendItem, Inside
<1>2. new \in Item
  BY <1>1 DEF PQueueInv, PQueueTypeOK, Item
<1>3. /\ arrived' = arrived + 1
      /\ items' = Append(items, new)
  BY DEF AppendItem
<1>4. /\ items' \in Seq(Item) /\ Len(items') = n + 1
      /\ \A i \in 1 .. n : items'[i] = items[i]
      /\ items'[n + 1] = new /\ new.datum = arrived + 1
  BY <1>1, <1>2, <1>3, AppendProperties
<1>5. ~Searching /\ Ordered(type, items, n)
  BY <1>1, SearchIsInside DEF PQueueInv, ItemsInv
<1> HIDE DEF new
<1>6. \A i \in 1 .. n : items[i].datum <= arrived /\ items[i].datum \in Int
  BY <1>1, ElementOfSeq, ItemFields DEF PQueueInv, ItemsInv
<1>7. \A i \in 1 .. Len(items') : items'[i].datum <= arrived'
  <2>1. \A i \in 1 .. n : items'[i].datum <= arrived'
    BY <1>1, <1>3, <1>4, <1>6
  <2>2. items'[n + 1].datum <= arrived'
    BY <1>1, <1>3, <1>4
  <2> QED
    BY <1>1, <1>4, <2>1, <2>2
<1>8. CASE n = 0
  <2>1. Return(t) /\ UNCHANGED <<type, capacity, want, taken, overtaken, lo, hi>>
    BY <1>8 DEF AppendItem, search
  <2>2. PQueueTypeOK' /\ OnlyInside' /\ ~Searching'
    BY <1>1, <1>3, <1>4, <1>5, <1>8, <2>1, ThreadsAssumption
       DEF PQueueInv, PQueueTypeOK, OnlyInside, Return, Goto, Searching
  <2>3. Ordered(type', items', Len(items'))
    BY <1>4, <1>8 DEF Ordered
  <2> QED
    BY <1>7, <2>2, <2>3 DEF PQueueInv, ItemsInv
<1>9. CASE n # 0
  <2>1. /\ Goto(t, "search") /\ lo' = 0 /\ hi' = n
        /\ UNCHANGED <<type, capacity, want, taken, overtaken, lock>>
    BY <1>9 DEF AppendItem
  <2>2. PQueueTypeOK' /\ OnlyInside' /\ Searching'
    BY <1>1, <1>3, <1>4, <1>5, <2>1, ThreadsAssumption
       DEF PQueueInv, PQueueTypeOK, OnlyInside, Goto, Searching
  <2>3. Ordered(type', items', Len(items') - 1)
    BY <1>1, <1>4, <1>5, <2>1 DEF Ordered
  <2>4. \A i \in 1 .. Len(items') - 1 : items'[i].datum < items'[Len(items')].datum
    BY <1>1, <1>4, <1>6
  <2>5. SearchInv'
    BY <1>1, <1>4, <2>1, <2>3, <2>4 DEF SearchInv
  <2> QED
    BY <1>7, <2>2, <2>5 DEF PQueueInv, ItemsInv
<1> QED
  BY <1>8, <1>9

LEMMA SearchStepInv ==
  ASSUME PQueueInv, NEW t \in Threads, SearchStep(t)
  PROVE  PQueueInv'
<1> DEFINE n == Len(items)
           mid == Mid
<1>1. /\ items \in Seq(Item) /\ n \in Nat /\ lo \in Nat /\ hi \in Nat
      /\ lock = t /\ pc[t] = "search" /\ lo < hi
      /\ type \in {"FIFO", "LIFO"}
      /\ UNCHANGED <<type, items, capacity, lock, pc, want, arrived, taken, overtaken>>
  BY LenProperties DEF PQueueInv, PQueueTypeOK, SearchStep, Inside, ghosts
<1>2. Searching /\ Searching'
  BY <1>1 DEF Searching
<1>3. SearchInv
  BY <1>2 DEF PQueueInv, ItemsInv
<1>4. mid \in Nat /\ lo <= mid /\ mid < hi /\ hi < n
  BY <1>1, <1>3 DEF SearchInv, Mid
<1> HIDE DEF mid
<1>5. /\ mid + 1 \in 1 .. n - 1 /\ n \in 1 .. n
      /\ items[mid + 1] \in Item /\ items[n] \in Item
      /\ items[mid + 1].datum < items[n].datum
  <2>1. mid + 1 \in 1 .. n - 1 /\ mid + 1 \in 1 .. n /\ n \in 1 .. n
    BY <1>1, <1>4
  <2> QED
    BY <1>1, <1>3, <2>1, ElementOfSeq DEF SearchInv
<1>6. \A i \in 1 .. n : items[i] \in Item
  BY <1>1, ElementOfSeq
<1>7. CASE GoesLeft(items[mid + 1], items[n])
  <2>1. hi' = mid /\ lo' = lo
    BY <1>7 DEF SearchStep, At, Last, mid
  <2>2. Precedes(type, items[n], items[mid + 1])
    BY <1>5, <1>7, GoesLeftPrecedes DEF PQueueInv
  <2>3. ASSUME NEW i \in mid + 1 .. n - 1
        PROVE  Precedes(type, items[n], items[i])
    <3>1. CASE i = mid + 1
      BY <2>2, <3>1
    <3>2. CASE i # mid + 1
      <4>1. mid + 1 < i /\ i \in 1 .. n - 1 /\ i \in 1 .. n
        BY <1>1, <1>4, <3>2
      <4>2. Precedes(type, items[mid + 1], items[i])
        BY <1>3, <1>5, <4>1 DEF SearchInv, Ordered
      <4> QED
        BY <1>5, <1>6, <2>2, <4>1, <4>2, PrecedesTransitive
    <3> QED
      BY <3>1, <3>2
  <2>4. SearchInv'
    BY <1>1, <1>3, <1>4, <2>1, <2>3 DEF SearchInv, Ordered
  <2> QED
    BY <1>1, <1>2, <1>4, <2>1, <2>4
       DEF PQueueInv, PQueueTypeOK, OnlyInside, ItemsInv
<1>8. CASE ~GoesLeft(items[mid + 1], items[n])
  <2>1. lo' = mid + 1 /\ hi' = hi
    BY <1>8 DEF SearchStep, At, Last, mid
  <2>2. Precedes(type, items[mid + 1], items[n])
    BY <1>5, <1>8, GoesLeftPrecedes DEF PQueueInv
  <2>3. ASSUME NEW i \in 1 .. mid + 1
        PROVE  Precedes(type, items[i], items[n])
    <3>1. CASE i = mid + 1
      BY <2>2, <3>1
    <3>2. CASE i # mid + 1
      <4>1. i < mid + 1 /\ i \in 1 .. n - 1 /\ i \in 1 .. n
        BY <1>1, <1>4, <3>2
      <4>2. Precedes(type, items[i], items[mid + 1])
        BY <1>3, <1>5, <4>1 DEF SearchInv, Ordered
      <4> QED
        BY <1>5, <1>6, <2>2, <4>1, <4>2, PrecedesTransitive
    <3> QED
      BY <3>1, <3>2
  <2>4. SearchInv'
    BY <1>1, <1>3, <1>4, <2>1, <2>3 DEF SearchInv, Ordered
  <2> QED
    BY <1>1, <1>2, <1>4, <2>1, <2>4
       DEF PQueueInv, PQueueTypeOK, OnlyInside, ItemsInv
<1> QED
  BY <1>7, <1>8

LEMMA PlaceInv ==
  ASSUME PQueueInv, NEW t \in Threads, Place(t)
  PROVE  PQueueInv'
<1> DEFINE n == Len(items)
<1>1. /\ items \in Seq(Item) /\ n \in Nat /\ arrived \in Nat /\ capacity \in Nat
      /\ lock = t /\ pc[t] = "search" /\ lo = hi /\ lo \in Nat
      /\ pc \in [Threads -> {"idle", "queue", "append", "search", "dequeue", "clear"}]
      /\ lo' = 0 /\ hi' = 0 /\ Return(t)
      /\ items' = Moved(items, lo)
      /\ UNCHANGED <<type, capacity, want, arrived, taken, overtaken>>
  BY LenProperties DEF PQueueInv, PQueueTypeOK, Place, InPlace, Inside, ghosts, Moved
<1>2. Searching
  BY <1>1 DEF Searching
<1>3. SearchInv /\ \A i \in 1 .. n : items[i].datum <= arrived
  BY <1>2 DEF PQueueInv, ItemsInv
<1>4. /\ items' \in Seq(Item) /\ Len(items') = n
      /\ Ordered(type, items', n)
      /\ \A i \in 1 .. n : \E j \in 1 .. n : items'[i] = items[j]
  BY <1>1, <1>3, MovedIsOrdered DEF PQueueInv
<1>5. PQueueTypeOK'
  BY <1>1, <1>4 DEF PQueueInv, PQueueTypeOK, Return, Goto
<1>6. OnlyInside' /\ ~Searching'
  BY <1>1, <1>4, ThreadsAssumption DEF PQueueInv, OnlyInside, Searching, Return, Goto
<1>7. \A i \in 1 .. Len(items') : items'[i].datum <= arrived'
  BY <1>1, <1>3, <1>4
<1> QED
  BY <1>1, <1>4, <1>5, <1>6, <1>7 DEF PQueueInv, ItemsInv

LEMMA DequeueInv ==
  ASSUME PQueueInv, NEW t \in Threads, Dequeue(t)
  PROVE  PQueueInv'
<1>1. /\ items \in Seq(Item) /\ Len(items) \in Nat /\ arrived \in Nat /\ capacity \in Nat
      /\ Len(items) <= capacity
      /\ lock = t /\ pc[t] = "dequeue" /\ Return(t)
      /\ pc \in [Threads -> {"idle", "queue", "append", "search", "dequeue", "clear"}]
      /\ UNCHANGED <<type, capacity, want, lo, hi, arrived>>
  BY LenProperties DEF PQueueInv, PQueueTypeOK, Dequeue, Inside, search
<1>2. ~Searching /\ Ordered(type, items, Len(items))
  BY <1>1, SearchIsInside DEF PQueueInv, ItemsInv
<1>3. /\ items' \in Seq(Item) /\ Len(items') \in Nat /\ Len(items') <= Len(items)
      /\ \A i \in 1 .. Len(items') : items'[i] = items[i]
      /\ taken' \in Item \cup {Nothing} /\ overtaken' \subseteq Item
  <2>1. CASE items = <<>>
    BY <1>1, <2>1 DEF Dequeue, PQueueInv, PQueueTypeOK
  <2>2. CASE items # <<>>
    <3>1. items' = Front(items) /\ taken' = Last(items) /\ overtaken' \subseteq Range(items')
      BY <2>2 DEF Dequeue
    <3>2. /\ items' \in Seq(Item) /\ Len(items') = Len(items) - 1 /\ taken' \in Item
          /\ \A i \in 1 .. Len(items) - 1 : items'[i] = items[i]
      BY <1>1, <2>2, <3>1, FrontProperties
    <3>3. Len(items) \in Nat \ {0}
      BY <1>1, <2>2, FrontProperties
    <3>4. Range(items') \subseteq Item
      BY <3>2, RangeOfSeq
    <3> QED
      BY <3>1, <3>2, <3>3, <3>4
  <2> QED
    BY <2>1, <2>2
<1>4. PQueueTypeOK'
  BY <1>1, <1>3 DEF PQueueInv, PQueueTypeOK, Return, Goto
<1>5. OnlyInside' /\ ~Searching'
  BY <1>1, <1>2, ThreadsAssumption DEF PQueueInv, OnlyInside, Searching, Return, Goto
<1>6. \A i \in 1 .. Len(items') : i \in 1 .. Len(items)
  BY <1>1, <1>3
<1>7. Ordered(type', items', Len(items'))
  <2>1. ASSUME NEW i \in 1 .. Len(items'), NEW j \in 1 .. Len(items'), i < j
        PROVE  Precedes(type', items'[i], items'[j])
    BY <1>1, <1>2, <1>3, <1>6, <2>1 DEF Ordered
  <2> QED
    BY <2>1 DEF Ordered
<1>8. \A i \in 1 .. Len(items') : items'[i].datum <= arrived'
  BY <1>1, <1>3, <1>6 DEF PQueueInv, ItemsInv
<1> QED
  BY <1>4, <1>5, <1>7, <1>8 DEF PQueueInv, ItemsInv

(* An array that is emptied.                                                 *)
LEMMA EmptyIsOrdered ==
  ASSUME items' = <<>>, ~Searching'
  PROVE  ItemsInv' /\ items' \in Seq(Item) /\ Len(items') = 0
<1>1. Len(items') = 0 /\ items' \in Seq(Item)
  BY EmptySeq
<1> QED
  BY <1>1 DEF ItemsInv, Ordered

LEMMA GrowInv ==
  ASSUME PQueueInv, NEW t \in Threads, Grow(t)
  PROVE  PQueueInv'
<1>1. /\ items \in Seq(Item) /\ Len(items) \in Nat /\ capacity \in Nat
      /\ Len(items) <= capacity
      /\ lock = t /\ pc[t] = "queue"
      /\ pc \in [Threads -> {"idle", "queue", "append", "search", "dequeue", "clear"}]
      /\ UNCHANGED <<type, items, want, lo, hi, arrived, taken, overtaken>>
  BY LenProperties DEF PQueueInv, PQueueTypeOK, Grow, Inside, search, ghosts
<1>2. ~Searching
  BY <1>1, SearchIsInside
<1>3. \/ /\ Goto(t, "append") /\ lock' = lock
         /\ capacity' \in Nat /\ Len(items) < capacity' /\ capacity <= capacity'
      \/ Return(t) /\ capacity' = capacity
  BY <1>1 DEF Grow, NewCapacity, AfterFailure
<1>4. PQueueTypeOK'
  BY <1>1, <1>3 DEF PQueueInv, PQueueTypeOK, Return, Goto
<1>5. OnlyInside' /\ ~Searching'
  BY <1>1, <1>2, <1>3, ThreadsAssumption DEF PQueueInv, OnlyInside, Searching, Return, Goto
<1> QED
  BY <1>1, <1>2, <1>4, <1>5, ArrayUntouched DEF PQueueInv

LEMMA CallInv ==
  ASSUME PQueueInv, NEW t \in Threads,
         Lock(t) \/ CallOther(t) \/ \E p \in Priorities : CallQueue(t, p)
  PROVE  PQueueInv'
<1>1. /\ pc \in [Threads -> {"idle", "queue", "append", "search", "dequeue", "clear"}]
      /\ want \in [Threads -> Priorities]
      /\ UNCHANGED <<type, items, capacity, lo, hi, arrived, taken, overtaken>>
  BY DEF PQueueInv, PQueueTypeOK, Lock, CallOther, CallQueue, Call, search, ghosts
<1>2. CASE Lock(t)
  <2>1. lock = NoThread /\ lock' = t /\ UNCHANGED <<pc, want>>
    BY <1>2 DEF Lock
  <2>2. PQueueTypeOK' /\ OnlyInside' /\ (Searching' <=> Searching)
    BY <1>1, <2>1, ThreadsAssumption DEF PQueueInv, PQueueTypeOK, OnlyInside, Searching
  <2> QED
    BY <1>1, <2>2, ArrayUntouched DEF PQueueInv
<1>3. CASE CallOther(t) \/ \E p \in Priorities : CallQueue(t, p)
  <2>1. /\ pc[t] = "idle" /\ lock' = lock
        /\ \E place \in {"queue", "dequeue", "clear"} : Goto(t, place)
        /\ want' \in [Threads -> Priorities]
    BY <1>1, <1>3 DEF CallOther, CallQueue, Call
  <2>2. PQueueTypeOK'
    BY <1>1, <2>1 DEF PQueueInv, PQueueTypeOK, Goto
  <2>3. OnlyInside' /\ (Searching' <=> Searching)
    BY <1>1, <2>1 DEF PQueueInv, OnlyInside, Searching, Goto
  <2> QED
    BY <1>1, <2>2, <2>3, ArrayUntouched DEF PQueueInv
<1> QED
  BY <1>2, <1>3

LEMMA EmptyingInv ==
  ASSUME PQueueInv, Replace \/ \E t \in Threads : Clear(t)
  PROVE  PQueueInv'
<1>1. /\ items' = <<>> /\ capacity' = 0 /\ type' \in {"FIFO", "LIFO"}
      /\ UNCHANGED <<want, lo, hi, arrived, taken>>
      /\ overtaken' \subseteq Item
  BY DEF Replace, Clear, PQueueInv, PQueueTypeOK, search, ghosts
<1>2. lock' \in Threads \cup {NoThread} /\ OnlyInside' /\ ~Searching'
      /\ pc' \in [Threads -> {"idle", "queue", "append", "search", "dequeue", "clear"}]
  <2>1. CASE Replace
    BY <2>1 DEF Replace, PQueueInv, PQueueTypeOK, OnlyInside, Searching
  <2>2. ASSUME NEW t \in Threads, Clear(t)
        PROVE  /\ lock' \in Threads \cup {NoThread} /\ OnlyInside' /\ ~Searching'
               /\ pc' \in [Threads -> {"idle", "queue", "append", "search", "dequeue", "clear"}]
    <3>1. lock = t /\ pc[t] = "clear" /\ Return(t)
      BY <2>2 DEF Clear, Inside
    <3>2. ~Searching
      BY <3>1, SearchIsInside
    <3>3. \A other \in Threads : pc'[other] \notin {"append", "search"}
      BY <3>1, ThreadsAssumption DEF PQueueInv, PQueueTypeOK, OnlyInside, Return, Goto
    <3> QED
      BY <3>1, <3>3 DEF PQueueInv, PQueueTypeOK, OnlyInside, Searching, Return, Goto
  <2> QED
    BY <2>1, <2>2
<1>3. ItemsInv' /\ items' \in Seq(Item) /\ Len(items') = 0
  BY <1>1, <1>2, EmptyIsOrdered
<1>4. PQueueTypeOK'
  BY <1>1, <1>2, <1>3 DEF PQueueInv, PQueueTypeOK
<1> QED
  BY <1>2, <1>3, <1>4 DEF PQueueInv

LEMMA PQueueNextInv == PQueueInv /\ [PQueueNext]_pqueueVars => PQueueInv'
<1> SUFFICES ASSUME PQueueInv, [PQueueNext]_pqueueVars PROVE PQueueInv'
  OBVIOUS
<1>1. CASE UNCHANGED pqueueVars
  BY <1>1 DEF pqueueVars, search, ghosts, PQueueInv, PQueueTypeOK, OnlyInside, ItemsInv,
              SearchInv, Searching, Ordered
<1> QED
  BY <1>1, CallInv, GrowInv, AppendItemInv, SearchStepInv, PlaceInv, DequeueInv, EmptyingInv
     DEF PQueueNext, PQueueStep

LEMMA PQueueInvariant == PQueueSpec => []PQueueInv
BY PQueueInitInv, PQueueNextInv, PTL DEF PQueueSpec

(* The array never holds more than was allocated for it, and positions, data *)
(* and the places of the threads stay in their ranges (pqueue.c:139-222).    *)
THEOREM PQueueTypeCorrect == PQueueSpec => []PQueueTypeOK
<1>1. PQueueInv => PQueueTypeOK
  BY DEF PQueueInv
<1> QED
  BY <1>1, PQueueInvariant, PTL

(* Whoever takes the mutex finds the array sorted by priority: the binary    *)
(* search puts every item where it belongs before the mutex is given back    *)
(* (pqueue.c:39-80).                                                       *)
THEOREM PQueueIsSorted == PQueueSpec => []SortedWhenUnlocked
<1>1. PQueueInv => SortedWhenUnlocked
  <2> SUFFICES ASSUME PQueueInv, lock = NoThread,
                      NEW i \in DOMAIN items, NEW j \in DOMAIN items, i < j
               PROVE  items[i].priority <= items[j].priority
    BY DEF SortedWhenUnlocked
  <2>1. items \in Seq(Item)
    BY DEF PQueueInv, PQueueTypeOK
  <2>2. i \in 1 .. Len(items) /\ j \in 1 .. Len(items)
    BY <2>1, LenProperties
  <2>3. Precedes(type, items[i], items[j])
    BY <2>2, FreeMutexIsOrdered DEF Ordered
  <2>4. items[i] \in Item /\ items[j] \in Item
    BY <2>1, <2>2, ElementOfSeq
  <2>5. items[i].priority \in Int /\ items[j].priority \in Int
    BY <2>4, ItemFields
  <2> QED
    BY <2>3, <2>5 DEF Precedes
<1> QED
  BY <1>1, PQueueInvariant, PTL

-----------------------------------------------------------------------------
(* The refinement.  In an ordered array the last item is the one that comes  *)
(* before all others in the abstract queue, and no item is in it twice.      *)

LEMMA SameNothing == Abstract!Nothing = Nothing
BY DEF Abstract!Nothing, Nothing

(* What a thread at a place of its call awaits.                              *)
Awaited(place) ==
  CASE place \in {"queue", "append"} -> "queue"
    [] place \in {"dequeue", "clear"} -> place
    [] OTHER -> "nothing"

LEMMA AwaitedIs ==
  /\ Awaited("idle") = "nothing" /\ Awaited("search") = "nothing"
  /\ Awaited("queue") = "queue" /\ Awaited("append") = "queue"
  /\ Awaited("dequeue") = "dequeue" /\ Awaited("clear") = "clear"
BY DEF Awaited

LEMMA AwaitsIs ==
  /\ Awaits = [t \in Threads |-> Awaited(pc[t])]
  /\ Awaits' = [t \in Threads |-> Awaited(pc'[t])]
BY DEF Awaits, Awaited

LEMMA AwaitsMoves ==
  ASSUME PQueueTypeOK, NEW t \in Threads, NEW place, Goto(t, place)
  PROVE  /\ Awaits[t] = Awaited(pc[t])
         /\ Awaits' = [Awaits EXCEPT ![t] = Awaited(place)]
BY AwaitsIs DEF PQueueTypeOK, Goto

(* A thread that goes on within its call.                                    *)
LEMMA AwaitsStays ==
  ASSUME PQueueTypeOK, NEW t \in Threads, NEW place, Goto(t, place),
         Awaited(place) = Awaited(pc[t])
  PROVE  Awaits' = Awaits
BY AwaitsIs DEF PQueueTypeOK, Goto

LEMMA LastIsTaken ==
  ASSUME PQueueTypeOK, items # <<>>, Ordered(type, items, Len(items))
  PROVE  /\ Last(items) \in Range(items)
         /\ Range(Front(items)) = Range(items) \ {Last(items)}
         /\ \A y \in Range(items) : y.priority <= Last(items).priority
<1> DEFINE n == Len(items)
           f == Front(items)
           last == Last(items)
<1>1. /\ items \in Seq(Item) /\ n \in Nat \ {0} /\ f \in Seq(Item) /\ Len(f) = n - 1
      /\ \A i \in 1 .. n - 1 : f[i] = items[i]
      /\ last \in Item /\ last = items[n]
  BY FrontProperties DEF PQueueTypeOK
<1> HIDE DEF f, last
<1>2. Range(items) = {items[i] : i \in 1 .. n}
  BY <1>1, RangeEquality
<1>3. Range(f) = {f[i] : i \in 1 .. Len(f)}
  BY <1>1, RangeEquality
<1>4. \A i \in 1 .. n - 1 :
        /\ Precedes(type, items[i], last)
        /\ items[i].priority \in Int /\ items[i].datum \in Int
  <2> SUFFICES ASSUME NEW i \in 1 .. n - 1
               PROVE  /\ Precedes(type, items[i], last)
                      /\ items[i].priority \in Int /\ items[i].datum \in Int
    OBVIOUS
  <2>1. i \in 1 .. n /\ n \in 1 .. n /\ i < n
    BY <1>1
  <2>2. items[i] \in Item
    BY <1>1, <2>1, ElementOfSeq
  <2> QED
    BY <1>1, <2>1, <2>2, ItemFields DEF Ordered
<1>5. last.priority \in Int /\ last.datum \in Int
  BY <1>1, ItemFields
<1>6. \A i \in 1 .. n - 1 : items[i] # last /\ items[i].priority <= last.priority
  BY <1>4, <1>5 DEF Precedes
<1>7. \A i \in 1 .. n : i \in 1 .. n - 1 \/ i = n
  BY <1>1
<1>8. \A i \in 1 .. n - 1 : i \in 1 .. n
  BY <1>1
<1>9. last \in Range(items)
  <2>1. n \in 1 .. n
    BY <1>1
  <2> QED
    BY <1>1, <1>2, <2>1
<1>10. \A y \in Range(items) : y = last \/ \E i \in 1 .. n - 1 : y = items[i]
  BY <1>1, <1>2, <1>7
<1>11. Range(f) = Range(items) \ {last}
  <2>1. ASSUME NEW y \in Range(f) PROVE y \in Range(items) \ {last}
    <3>1. PICK i \in 1 .. n - 1 : y = items[i]
      BY <1>1, <1>3
    <3> QED
      BY <1>2, <1>6, <1>8, <3>1
  <2>2. ASSUME NEW y \in Range(items) \ {last} PROVE y \in Range(f)
    BY <1>1, <1>3, <1>10
  <2> QED
    BY <2>1, <2>2
<1>12. \A y \in Range(items) : y.priority <= last.priority
  BY <1>5, <1>6, <1>10
<1> QED
  BY <1>9, <1>11, <1>12 DEF f, last

LEMMA AppendAdds ==
  ASSUME PQueueInv, NEW t \in Threads, AppendItem(t)
  PROVE  Abstract!Add(t)
<1> DEFINE new == [priority |-> want[t], datum |-> arrived + 1]
<1>1. /\ items \in Seq(Item) /\ Len(items) \in Nat /\ arrived \in Nat
      /\ want[t] \in Priorities
      /\ arrived' = arrived + 1 /\ items' = Append(items, new)
      /\ UNCHANGED <<want, taken>>
  BY LenProperties DEF PQueueInv, PQueueTypeOK, AppendItem
<1>2. new \in Item
  BY <1>1 DEF Item
<1> HIDE DEF new
<1>3. /\ items' \in Seq(Item) /\ Len(items') = Len(items) + 1
      /\ \A i \in 1 .. Len(items) : items'[i] = items[i]
      /\ items'[Len(items) + 1] = new
  BY <1>1, <1>2, AppendProperties
<1>4. Range(items) = {items[i] : i \in 1 .. Len(items)}
  BY <1>1, RangeEquality
<1>5. Range(items') = {items'[i] : i \in 1 .. Len(items')}
  BY <1>3, RangeEquality
<1>6. \A i \in 1 .. Len(items) + 1 : i \in 1 .. Len(items) \/ i = Len(items) + 1
  BY <1>1
<1>7. \A i \in 1 .. Len(items) : i \in 1 .. Len(items) + 1
  BY <1>1
<1>8. Len(items) + 1 \in 1 .. Len(items) + 1
  BY <1>1
<1>9. Range(items') = Range(items) \cup {new}
  <2>1. ASSUME NEW y \in Range(items') PROVE y \in Range(items) \cup {new}
    BY <1>3, <1>4, <1>5, <1>6
  <2>2. ASSUME NEW y \in Range(items) \cup {new} PROVE y \in Range(items')
    BY <1>3, <1>4, <1>5, <1>7, <1>8
  <2> QED
    BY <2>1, <2>2
<1>10. Abstract!Effect(t, "queue")
  <2>1. /\ pc[t] = "append" /\ want' = want /\ PQueueTypeOK
        /\ Goto(t, "idle") \/ Goto(t, "search")
    BY DEF AppendItem, Inside, Return, PQueueInv
  <2> QED
    BY <2>1, AwaitsMoves, AwaitedIs DEF Abstract!Effect
<1> QED
  BY <1>1, <1>9, <1>10 DEF Abstract!Add, new

LEMMA PlaceStutters ==
  ASSUME PQueueInv, NEW t \in Threads, Place(t)
  PROVE  Range(items') = Range(items)
<1>1. Searching /\ lo = hi /\ items' = Moved(items, lo)
  BY DEF Place, InPlace, Inside, Searching, Moved
<1>2. SearchInv /\ items \in Seq(Item) /\ PQueueTypeOK
  BY <1>1 DEF PQueueInv, ItemsInv, PQueueTypeOK
<1>3. /\ items' \in Seq(Item) /\ Len(items') = Len(items)
      /\ \A i \in 1 .. Len(items) : \E j \in 1 .. Len(items) : items'[i] = items[j]
      /\ \A j \in 1 .. Len(items) : \E i \in 1 .. Len(items) : items'[i] = items[j]
  BY <1>1, <1>2, MovedIsOrdered
<1>4. Range(items) = {items[i] : i \in 1 .. Len(items)}
  BY <1>2, RangeEquality
<1>5. Range(items') = {items'[i] : i \in 1 .. Len(items')}
  BY <1>3, RangeEquality
<1>6. ASSUME NEW y \in Range(items') PROVE y \in Range(items)
  BY <1>3, <1>4, <1>5
<1>7. ASSUME NEW y \in Range(items) PROVE y \in Range(items')
  BY <1>3, <1>4, <1>5
<1> QED
  BY <1>6, <1>7

LEMMA EmptyRange ==
  ASSUME NEW seq, seq = <<>>
  PROVE  Range(seq) = {}
<1>1. DOMAIN seq = {}
  OBVIOUS
<1> QED
  BY <1>1 DEF Range

LEMMA DequeueTakes ==
  ASSUME PQueueInv, NEW t \in Threads, Dequeue(t)
  PROVE  Abstract!Take(t) \/ Abstract!ComeBackEmpty(t)
<1>1. Ordered(type, items, Len(items)) /\ PQueueTypeOK
  BY SearchIsInside DEF PQueueInv, ItemsInv, Dequeue, Inside
<1>2. Abstract!Effect(t, "dequeue")
  <2>1. pc[t] = "dequeue" /\ want' = want /\ Goto(t, "idle")
    BY DEF Dequeue, Inside, Return
  <2> QED
    BY <1>1, <2>1, AwaitsMoves, AwaitedIs DEF Abstract!Effect
<1>3. arrived' = arrived
  BY DEF Dequeue
<1>4. CASE items = <<>>
  <2>1. taken' = Nothing /\ items' = items
    BY <1>4 DEF Dequeue
  <2>2. Range(items) = {} /\ Range(items') = Range(items)
    BY <1>4, <2>1, EmptyRange
  <2> QED
    BY <1>2, <1>3, <2>1, <2>2, SameNothing DEF Abstract!ComeBackEmpty
<1>5. CASE items # <<>>
  <2>1. taken' = Last(items) /\ items' = Front(items)
    BY <1>5 DEF Dequeue
  <2>2. /\ taken' \in Range(items) /\ Range(items') = Range(items) \ {taken'}
        /\ \A y \in Range(items) : y.priority <= taken'.priority
    BY <1>1, <1>5, <2>1, LastIsTaken
  <2> QED
    BY <1>2, <1>3, <2>2 DEF Abstract!Take
<1> QED
  BY <1>4, <1>5

(* A queueing that finds the array full goes on or is refused.               *)
LEMMA GrowRefuses ==
  ASSUME PQueueInv, NEW t \in Threads, Grow(t)
  PROVE  Abstract!Refuse(t) \/ UNCHANGED Abstract!pqueueVars
<1>1. /\ PQueueTypeOK /\ pc[t] = "queue" /\ UNCHANGED <<items, want, arrived, taken>>
      /\ Goto(t, "append") \/ Goto(t, "idle")
  BY DEF Grow, AfterFailure, Return, Inside, ghosts, PQueueInv
<1>2. Range(items') = Range(items)
  BY <1>1
<1>3. CASE Goto(t, "append")
  BY <1>1, <1>2, <1>3, AwaitsStays, AwaitedIs DEF Abstract!pqueueVars
<1>4. CASE Goto(t, "idle")
  BY <1>1, <1>2, <1>4, AwaitsMoves, AwaitedIs DEF Abstract!Refuse, Abstract!Effect
<1> QED
  BY <1>1, <1>3, <1>4

LEMMA CallAsks ==
  ASSUME PQueueInv, NEW t \in Threads,
         CallOther(t) \/ \E p \in Priorities : CallQueue(t, p)
  PROVE  Abstract!Ask(t)
<1>1. /\ PQueueTypeOK /\ pc[t] = "idle" /\ UNCHANGED <<items, arrived, taken>>
      /\ Goto(t, "queue") \/ Goto(t, "dequeue") \/ Goto(t, "clear")
  BY DEF CallOther, CallQueue, Call, ghosts, PQueueInv
<1>2. \E p \in Priorities : want' = [want EXCEPT ![t] = p]
  <2>1. CASE CallOther(t)
    <3>1. want' = [want EXCEPT ![t] = want[t]] /\ want[t] \in Priorities
      BY <1>1, <2>1 DEF CallOther, PQueueTypeOK
    <3> QED
      BY <3>1
  <2>2. CASE \E p \in Priorities : CallQueue(t, p)
    BY <2>2 DEF CallQueue
  <2> QED
    BY <2>1, <2>2
<1>3. /\ Awaits[t] = "nothing"
      /\ \E call \in {"queue", "dequeue", "clear"} : Awaits' = [Awaits EXCEPT ![t] = call]
  BY <1>1, AwaitsMoves, AwaitedIs
<1>4. Range(items') = Range(items)
  BY <1>1
<1> QED
  BY <1>1, <1>2, <1>3, <1>4 DEF Abstract!Ask

LEMMA ClearClears ==
  ASSUME PQueueInv, NEW t \in Threads, Clear(t)
  PROVE  Abstract!Clear(t)
<1>1. /\ PQueueTypeOK /\ pc[t] = "clear" /\ Goto(t, "idle")
      /\ items' = <<>> /\ UNCHANGED <<want, arrived, taken>>
  BY DEF Clear, Inside, Return, ghosts, PQueueInv
<1>2. Range(items') = {}
  BY <1>1, EmptyRange
<1> QED
  BY <1>1, <1>2, AwaitsMoves, AwaitedIs DEF Abstract!Clear, Abstract!Effect

LEMMA ReplaceReplaces ==
  ASSUME PQueueInv, Replace
  PROVE  Abstract!Replace
<1>1. items' = <<>> /\ UNCHANGED <<pc, want, arrived, taken>>
  BY DEF Replace
<1>2. Range(items') = {}
  BY <1>1, EmptyRange
<1>3. Awaits = [t \in Threads |-> "nothing"] /\ Awaits' = Awaits
  BY <1>1, AwaitsIs, AwaitedIs DEF Replace
<1> QED
  BY <1>1, <1>2, <1>3 DEF Abstract!Replace

LEMMA PQueueNextRefines ==
  ASSUME PQueueInv, [PQueueNext]_pqueueVars
  PROVE  [Abstract!Next]_(Abstract!pqueueVars)
<1>1. CASE Replace
  BY <1>1, ReplaceReplaces DEF Abstract!Next
<1>2. ASSUME NEW t \in Threads,
             \/ CallOther(t) \/ (\E p \in Priorities : CallQueue(t, p))
             \/ AppendItem(t) \/ Dequeue(t) \/ Clear(t)
      PROVE  Abstract!Next
  BY <1>2, CallAsks, AppendAdds, DequeueTakes, ClearClears DEF Abstract!Next
<1>3. ASSUME NEW t \in Threads, Grow(t)
      PROVE  Abstract!Next \/ UNCHANGED Abstract!pqueueVars
  BY <1>3, GrowRefuses DEF Abstract!Next
<1>4. ASSUME NEW t \in Threads, Place(t)
      PROVE  UNCHANGED Abstract!pqueueVars
  <2>1. /\ PQueueTypeOK /\ pc[t] = "search" /\ Goto(t, "idle")
        /\ UNCHANGED <<want, arrived, taken>>
    BY <1>4 DEF Place, Inside, Return, ghosts, PQueueInv
  <2> QED
    BY <1>4, <2>1, PlaceStutters, AwaitsStays, AwaitedIs DEF Abstract!pqueueVars
<1>5. ASSUME UNCHANGED <<items, pc, want, arrived, taken>>
      PROVE  UNCHANGED Abstract!pqueueVars
  <2>1. Awaits' = Awaits
    BY <1>5, AwaitsIs
  <2> QED
    BY <1>5, <2>1 DEF Abstract!pqueueVars
<1>6. ASSUME NEW t \in Threads, Lock(t) \/ SearchStep(t)
      PROVE  UNCHANGED Abstract!pqueueVars
  BY <1>5, <1>6 DEF Lock, SearchStep, ghosts
<1>7. CASE UNCHANGED pqueueVars
  BY <1>5, <1>7 DEF pqueueVars, ghosts
<1> QED
  BY <1>1, <1>2, <1>3, <1>4, <1>6, <1>7 DEF PQueueNext, PQueueStep

LEMMA PQueueInitRefines == PQueueInit => Abstract!Init
<1> SUFFICES ASSUME PQueueInit PROVE Abstract!Init
  OBVIOUS
<1>1. Range(items) = {}
  BY EmptyRange DEF PQueueInit
<1>2. Awaits = [t \in Threads |-> "nothing"]
  BY AwaitsIs, AwaitedIs DEF PQueueInit
<1>3. want \in [Threads -> Priorities]
  BY PQueueInitInv DEF PQueueInv, PQueueTypeOK
<1> QED
  BY <1>1, <1>2, <1>3, SameNothing DEF PQueueInit, Abstract!Init

(* Whatever the threads, each call takes effect once: a dequeue takes an     *)
(* item of the highest priority in the queue, comes back empty only from an  *)
(* empty queue, and no queued item is lost or left twice by the insertion    *)
(* (pqueue.c:39-222).  Which of equals is taken is left open.                *)
THEOREM PQueueImplementsPriorityQueue == PQueueSpec => ImplementsPriorityQueue
<1>1. PQueueInv /\ [PQueueNext]_pqueueVars => [Abstract!Next]_(Abstract!pqueueVars)
  BY PQueueNextRefines
<1> QED
  BY <1>1, PQueueInitRefines, PQueueInvariant, PTL
     DEF PQueueSpec, ImplementsPriorityQueue, Abstract!Spec
=============================================================================
