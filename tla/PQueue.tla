------------------------------- MODULE PQueue -------------------------------
(***************************************************************************)
(* The priority queue of common/src/utils/containers/pqueue/pqueue.c with  *)
(* several threads: an array sorted by priority behind a mutex.  An        *)
(* insertion appends the item and then moves it to the place that a binary *)
(* search finds; a dequeue takes the last item.                            *)
(***************************************************************************)
EXTENDS Integers, Sequences, SequencesExt, FiniteSets

CONSTANTS
  Threads,
  NoThread,
  Priorities,
  MaxArrivals   \* bound on the items that are ever queued

ASSUME ThreadsAssumption == NoThread \notin Threads
ASSUME PrioritiesAssumption ==
  Priorities \subseteq Int /\ Priorities # {} /\ MaxArrivals \in Nat

VARIABLES
  type,         \* q->type
  items,        \* q->items[0 .. items_number - 1]
  capacity,     \* q->capacity
  lock,         \* the thread inside q->mutex
  pc,           \* where each thread is
  want,         \* the priority that each thread is queueing
  lo, hi,       \* the binary search of the thread inside
  arrived,      \* items queued so far: data are numbered by arrival
  taken,        \* what the last dequeue returned
  overtaken     \* equals of it that had been queued earlier and stayed

search == <<lo, hi>>
ghosts == <<arrived, taken, overtaken>>
pqueueVars == <<type, items, capacity, lock, pc, want, search, ghosts>>

Item == [priority : Priorities, datum : Nat \ {0}]
Nothing == [priority |-> 0, datum |-> 0]

(* The array never holds more than was allocated for it. *)
PQueueTypeOK ==
  /\ type \in {"FIFO", "LIFO"}
  /\ items \in Seq(Item)
  /\ capacity \in Nat /\ Len(items) <= capacity
  /\ lock \in Threads \cup {NoThread}
  /\ pc \in [Threads -> {"idle", "queue", "append", "search", "dequeue", "clear"}]
  /\ want \in [Threads -> Priorities]
  /\ lo \in Nat /\ hi \in Nat
  /\ arrived \in Nat
  /\ taken \in Item \cup {Nothing}
  /\ overtaken \subseteq Item

(* pqueue_create_fifo and pqueue_create_lifo. *)
PQueueInit ==
  /\ type \in {"FIFO", "LIFO"}
  /\ items = <<>>
  /\ capacity = 0
  /\ lock = NoThread
  /\ pc = [t \in Threads |-> "idle"]
  /\ want \in [Threads -> {CHOOSE p \in Priorities : TRUE}]
  /\ lo = 0 /\ hi = 0
  /\ arrived = 0
  /\ taken = Nothing
  /\ overtaken = {}

-----------------------------------------------------------------------------
(* Operators named Mutant... are deliberately wrong variants of the operator *)
(* that follows them.  No action uses them; they exist to be swapped in, to  *)
(* confirm that the properties notice.                                       *)

Goto(t, place) == pc' = [pc EXCEPT ![t] = place]
Inside(t, place) == lock = t /\ pc[t] = place
Return(t) == lock' = NoThread /\ Goto(t, "idle")

Call(t) ==
  /\ pc[t] = "idle"
  /\ UNCHANGED <<type, items, capacity, lock, search, ghosts>>

Queueing == {t \in Threads : pc[t] \in {"queue", "append"}}

CallQueue(t, p) ==
  /\ Call(t)
  /\ arrived + Cardinality(Queueing) < MaxArrivals
  /\ Goto(t, "queue")
  /\ want' = [want EXCEPT ![t] = p]

CallOther(t) ==
  /\ Call(t)
  /\ Goto(t, "dequeue") \/ Goto(t, "clear")
  /\ UNCHANGED want

(* mutex_lock *)
Lock(t) ==
  /\ pc[t] # "idle"
  /\ lock = NoThread
  /\ lock' = t
  /\ UNCHANGED <<type, items, capacity, pc, want, search, ghosts>>

MutantNewCapacity(c) == 2 * c
NewCapacity(c) == IF c = 0 THEN 1 ELSE 2 * c

MutantAfterFailure(t) == Goto(t, "idle") /\ UNCHANGED lock
AfterFailure(t) == Return(t)

(* pqueue_queue: the array is grown if it is full, which may fail. *)
Grow(t) ==
  /\ Inside(t, "queue")
  /\ IF Len(items) < capacity
       THEN Goto(t, "append") /\ UNCHANGED <<capacity, lock>>
       ELSE \/ /\ capacity' = NewCapacity(capacity)
               /\ Goto(t, "append")
               /\ UNCHANGED lock
            \/ /\ AfterFailure(t)
               /\ UNCHANGED capacity
  /\ UNCHANGED <<type, items, want, search, ghosts>>

AppendItem(t) ==
  /\ Inside(t, "append")
  /\ arrived' = arrived + 1
  /\ items' = Append(items, [priority |-> want[t], datum |-> arrived'])
  /\ IF Len(items) = 0
       THEN Return(t) /\ UNCHANGED search
       ELSE Goto(t, "search") /\ lo' = 0 /\ hi' = Len(items) /\ UNCHANGED lock
  /\ UNCHANGED <<type, capacity, want, taken, overtaken>>

(* _queue_sort_after_insertion: indices are those of C, from zero. *)
At(i) == items[i + 1]

MutantDescending(old, new) == old.priority < new.priority
GoesLeft(old, new) ==
  IF type = "FIFO" THEN old.priority > new.priority
                   ELSE old.priority >= new.priority

Mid == lo + (hi - lo) \div 2

SearchStep(t) ==
  /\ Inside(t, "search")
  /\ lo < hi
  /\ IF GoesLeft(At(Mid), Last(items))
       THEN hi' = Mid /\ UNCHANGED lo
       ELSE lo' = Mid + 1 /\ UNCHANGED hi
  /\ UNCHANGED <<type, items, capacity, lock, pc, want, ghosts>>

MutantInPlace == [items EXCEPT ![lo + 1] = Last(items)]
InPlace == InsertAt(Front(items), lo + 1, Last(items))

Place(t) ==
  /\ Inside(t, "search")
  /\ lo = hi
  /\ items' = InPlace
  /\ lo' = 0 /\ hi' = 0
  /\ Return(t)
  /\ UNCHANGED <<type, capacity, want, ghosts>>

(* pqueue_dequeue *)
Dequeue(t) ==
  /\ Inside(t, "dequeue")
  /\ IF items = <<>>
       THEN taken' = Nothing /\ overtaken' = {} /\ UNCHANGED items
       ELSE /\ taken' = Last(items)
            /\ items' = Front(items)
            /\ overtaken' = {x \in Range(items') :
                               /\ x.priority = taken'.priority
                               /\ x.datum < taken'.datum}
  /\ Return(t)
  /\ UNCHANGED <<type, capacity, want, search, arrived>>

(* pqueue_clear *)
Clear(t) ==
  /\ Inside(t, "clear")
  /\ items' = <<>>
  /\ capacity' = 0
  /\ Return(t)
  /\ UNCHANGED <<type, want, search, ghosts>>

PQueueStep(t) ==
  \/ Grow(t) \/ AppendItem(t) \/ SearchStep(t) \/ Place(t)
  \/ Dequeue(t) \/ Clear(t)

(* pqueue_destroy, and the creation of the queue that is used next.  The     *)
(* destruction takes no lock: a caller makes sure that nobody uses the queue *)
(* any more.                                                                 *)
Replace ==
  /\ \A t \in Threads : pc[t] = "idle"
  /\ items' = <<>> /\ capacity' = 0
  /\ type' \in {"FIFO", "LIFO"}
  /\ overtaken' = {}
  /\ UNCHANGED <<lock, pc, want, search, arrived, taken>>

PQueueNext ==
  \/ Replace
  \/ \E t \in Threads :
       \/ \E p \in Priorities : CallQueue(t, p)
       \/ CallOther(t)
       \/ Lock(t)
       \/ PQueueStep(t)

PQueueSpec == PQueueInit /\ [][PQueueNext]_pqueueVars

(* A thread inside the mutex goes on.                                        *)
PQueueFairness == \A t \in Threads : WF_pqueueVars(PQueueStep(t))

FairPQueueSpec == PQueueSpec /\ PQueueFairness

-----------------------------------------------------------------------------
(* What a thread awaits of its call: a queueing takes effect when the item is *)
(* appended, before it is moved to its place.                                *)
Awaits == [t \in Threads |-> CASE pc[t] \in {"queue", "append"} -> "queue"
                               [] pc[t] \in {"dequeue", "clear"} -> pc[t]
                               [] OTHER -> "nothing"]

Abstract == INSTANCE PriorityQueue
              WITH contents <- Range(items), asked <- Awaits, wanted <- want

(* Whatever the threads do to each other, a dequeue takes an item of the     *)
(* highest priority in the queue, and the insertion by memmove neither loses *)
(* an item nor leaves one twice (pqueue.c:39-80, 139-222).                   *)
ImplementsPriorityQueue == Abstract!Spec

(* Whenever the mutex is free, the array is sorted.                          *)
SortedWhenUnlocked ==
  lock = NoThread =>
    \A i, j \in DOMAIN items : i < j => items[i].priority <= items[j].priority

(* The mutex is given back on every path through a call, also by one whose   *)
(* allocation failed.                                                        *)
MutexIsReleased == \A t \in Threads : lock = t ~> lock # t

(* test/src/unit_tests/pqueue_tests.c:29: of the equals queued to a FIFO     *)
(* queue, the oldest is dequeued first.                                      *)
FifoTakesOldestFirst == type = "FIFO" => overtaken = {}
=============================================================================
