-------------------------------- MODULE Queue --------------------------------
(***************************************************************************)
(* The FIFO or LIFO queue of common/src/utils/containers/queue/queue.c,    *)
(* shared by several threads: an array behind a mutex, with a count of the *)
(* places in use.  The array and the count change at different moments of  *)
(* a call, and the array may fail to grow.                                 *)
(***************************************************************************)
EXTENDS Naturals, Sequences, SequencesExt

CONSTANTS
  Users,     \* the threads that share the queue
  NoUser,
  NoQueue,   \* the value of discipline when there is no queue
  MaxOffers  \* bound on the items that are ever offered

ASSUME UsersAssumption == NoUser \notin Users
ASSUME DisciplineAssumption == NoQueue \notin {"FIFO", "LIFO"}
ASSUME OffersAssumption == MaxOffers \in Nat

VARIABLES
  discipline,  \* queue->type
  places,       \* queue->items, as many as queue->capacity
  number,      \* queue->items_number
  owner,       \* the thread inside queue->mutex
  stage,       \* where each thread is in its call
  offered,     \* the item that each thread queues: items are numbered
  result,      \* the local variable of queue_dequeue of the thread inside
  delivered,   \* what each thread's last dequeue returned, 0 for a null pointer
  offers       \* how many items have been offered so far

queueVars ==
  <<discipline, places, number, owner, stage, offered, result, delivered, offers>>

Garbage == 0

(* The array never holds more than was allocated for it, and only a thread   *)
(* that owns the mutex is in the middle of a change.                         *)
QueueTypeOK ==
  /\ discipline \in {"FIFO", "LIFO", NoQueue}
  /\ places \in Seq(0 .. MaxOffers)
  /\ number \in 0 .. Len(places)
  /\ owner \in Users \cup {NoUser}
  /\ stage \in [Users -> {"idle", "offer", "store", "count", "take", "taken", "clear"}]
  /\ \A u \in Users : stage[u] \in {"store", "count", "taken"} => owner = u
  /\ offered \in [Users -> 0 .. MaxOffers]
  /\ result \in 0 .. MaxOffers
  /\ delivered \in [Users -> 0 .. MaxOffers]
  /\ offers \in 0 .. MaxOffers

QueueInit ==
  /\ discipline = NoQueue
  /\ places = <<>>
  /\ number = 0
  /\ owner = NoUser
  /\ stage = [u \in Users |-> "idle"]
  /\ offered = [u \in Users |-> 0]
  /\ result = 0
  /\ delivered = [u \in Users |-> 0]
  /\ offers = 0

-----------------------------------------------------------------------------
(* queue_create_fifo and queue_create_lifo; one that runs out of memory      *)
(* leaves everything as it was.                                              *)
CreateQueue ==
  /\ discipline = NoQueue
  /\ discipline' \in {"FIFO", "LIFO"}
  /\ UNCHANGED <<places, number, owner, stage, offered, result, delivered, offers>>

(* queue_destroy.  It takes no lock: a caller makes sure that nobody uses    *)
(* the queue any more.                                                       *)
DestroyQueue ==
  /\ discipline # NoQueue
  /\ \A u \in Users : stage[u] = "idle"
  /\ discipline' = NoQueue
  /\ places' = <<>>
  /\ number' = 0
  /\ UNCHANGED <<owner, stage, offered, result, delivered, offers>>

Proceed(u, place) == stage' = [stage EXCEPT ![u] = place]
Holds(u, place) == owner = u /\ stage[u] = place
Leave(u) == owner' = NoUser /\ Proceed(u, "idle")

BeginCall(u) ==
  /\ discipline # NoQueue
  /\ stage[u] = "idle"
  /\ UNCHANGED <<discipline, places, number, owner, result, delivered>>

BeginOffer(u) ==
  /\ BeginCall(u)
  /\ offers < MaxOffers
  /\ offers' = offers + 1
  /\ offered' = [offered EXCEPT ![u] = offers']
  /\ Proceed(u, "offer")

BeginOther(u) ==
  /\ BeginCall(u)
  /\ Proceed(u, "take") \/ Proceed(u, "clear")
  /\ UNCHANGED <<offered, offers>>

(* mutex_lock at the beginning of every call.                                *)
EnterMutex(u) ==
  /\ stage[u] # "idle"
  /\ owner = NoUser
  /\ owner' = u
  /\ UNCHANGED <<discipline, places, number, stage, offered, result, delivered, offers>>

MutantRefused(u) == Proceed(u, "idle") /\ UNCHANGED owner
Refused(u) == Leave(u)

Bigger(room) == IF room = 0 THEN 1 ELSE 2 * room

(* queue_queue: what mem_realloc adds is uninitialised; if it fails, the     *)
(* array is still the old one.                                               *)
MakeRoom(u) ==
  /\ Holds(u, "offer")
  /\ \/ /\ number < Len(places)
        /\ Proceed(u, "store")
        /\ UNCHANGED <<places, owner>>
     \/ /\ number >= Len(places)
        /\ places' = [i \in 1 .. Bigger(Len(places)) |->
                       IF i \in DOMAIN places THEN places[i] ELSE Garbage]
        /\ Proceed(u, "store")
        /\ UNCHANGED owner
     \/ /\ number >= Len(places)
        /\ Refused(u)
        /\ UNCHANGED places
  /\ UNCHANGED <<discipline, number, offered, result, delivered, offers>>

Store(u) ==
  /\ Holds(u, "store")
  /\ places' = [places EXCEPT ![number + 1] = offered[u]]
  /\ Proceed(u, "count")
  /\ UNCHANGED <<discipline, number, owner, offered, result, delivered, offers>>

Count(u) ==
  /\ Holds(u, "count")
  /\ number' = number + 1
  /\ Leave(u)
  /\ UNCHANGED <<discipline, places, offered, result, delivered, offers>>

(* memmove(&items[0], &items[1], items_number - 1 items)                     *)
MutantShifted == [i \in DOMAIN places |-> IF i < number - 1 THEN places[i + 1] ELSE places[i]]
Shifted == [i \in DOMAIN places |-> IF i < number THEN places[i + 1] ELSE places[i]]

(* queue_dequeue *)
TakeItem(u) ==
  /\ Holds(u, "take")
  /\ number # 0
  /\ \/ /\ discipline = "FIFO"
        /\ result' = places[1]
        /\ places' = Shifted
     \/ /\ discipline = "LIFO"
        /\ result' = places[number]
        /\ UNCHANGED places
  /\ Proceed(u, "taken")
  /\ UNCHANGED <<discipline, number, owner, offered, delivered, offers>>

CountTaken(u) ==
  /\ Holds(u, "taken")
  /\ number' = number - 1
  /\ delivered' = [delivered EXCEPT ![u] = result]
  /\ result' = 0
  /\ Leave(u)
  /\ UNCHANGED <<discipline, places, offered, offers>>

TakeNothing(u) ==
  /\ Holds(u, "take")
  /\ number = 0
  /\ delivered' = [delivered EXCEPT ![u] = 0]
  /\ Leave(u)
  /\ UNCHANGED <<discipline, places, number, offered, result, offers>>

(* queue_clear *)
MutantClearQueue(u) ==
  /\ Holds(u, "clear")
  /\ places' = <<>>
  /\ Leave(u)
  /\ UNCHANGED <<discipline, number, offered, result, delivered, offers>>
ClearQueue(u) ==
  /\ Holds(u, "clear")
  /\ number' = 0
  /\ places' = <<>>
  /\ Leave(u)
  /\ UNCHANGED <<discipline, offered, result, delivered, offers>>

QueueStep(u) ==
  \/ MakeRoom(u) \/ Store(u) \/ Count(u)
  \/ TakeItem(u) \/ CountTaken(u) \/ TakeNothing(u)
  \/ ClearQueue(u)

QueueNext ==
  \/ CreateQueue \/ DestroyQueue
  \/ \E u \in Users :
       BeginOffer(u) \/ BeginOther(u) \/ EnterMutex(u) \/ QueueStep(u)

QueueSpec == QueueInit /\ [][QueueNext]_queueVars

(* A thread inside the mutex goes on.                                        *)
QueueFairness == \A u \in Users : WF_queueVars(QueueStep(u))

FairQueueSpec == QueueSpec /\ QueueFairness

-----------------------------------------------------------------------------
(* The items in the queue as its users see them.  An item is in it once it   *)
(* is counted, and out of it once it is no longer counted: in between, a     *)
(* FIFO dequeue has already overwritten the item that it returns.            *)
InLine ==
  LET counted == SubSeq(places, 1, number)
  IN  IF discipline = "FIFO" /\ \E u \in Users : stage[u] = "taken"
        THEN <<result>> \o Front(counted)
        ELSE counted

(* A call of queue_queue, queue_dequeue or queue_clear that is under way.    *)
Meaning(place) ==
  CASE place = "idle" -> "nothing"
    [] place \in {"offer", "store", "count"} -> "offer"
    [] place \in {"take", "taken"} -> "take"
    [] place = "clear" -> "clear"

Asked == [u \in Users |-> Meaning(stage[u])]

(* Calls take effect at one moment each and in turn: what is accepted is     *)
(* delivered once and in order, whatever the threads do between the lines of *)
(* queue_queue and queue_dequeue.                                            *)
Shared == INSTANCE Line WITH contents <- InLine, asked <- Asked
ImplementsLine == Shared!Spec

(* The mutex is given back on every path through a call, also by one whose   *)
(* allocation failed.                                                        *)
OwnerLeaves == \A u \in Users : owner = u ~> owner # u
=============================================================================
