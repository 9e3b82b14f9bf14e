---------------------------- MODULE PriorityQueue ----------------------------
(***************************************************************************)
(* What the priority queue of common/src/utils/containers/pqueue gives its *)
(* callers: a dequeue takes an item of the highest priority there is, and  *)
(* every item that was queued stays until one dequeue takes it.  A call    *)
(* takes effect once, at some moment between its beginning and its end.    *)
(* An item is a priority and a datum that nobody queued before; data are   *)
(* numbered in the order of arrival.                                       *)
(*                                                                         *)
(* Which of several items of the highest priority a dequeue takes is left  *)
(* open here: the code and its unit test disagree about it.                *)
(***************************************************************************)
EXTENDS Naturals

CONSTANTS Threads, Priorities

VARIABLES
  contents,  \* the items in the queue
  asked,     \* what each thread is waiting for
  wanted,    \* the priority with which each thread queues
  arrived,   \* how many items have been queued so far
  taken      \* what the last dequeue returned

pqueueVars == <<contents, asked, wanted, arrived, taken>>

Nothing == [priority |-> 0, datum |-> 0]

Init ==
  /\ contents = {}
  /\ asked = [t \in Threads |-> "nothing"]
  /\ wanted \in [Threads -> Priorities]
  /\ arrived = 0
  /\ taken = Nothing

Ask(t) ==
  /\ asked[t] = "nothing"
  /\ \E call \in {"queue", "dequeue", "clear"} : asked' = [asked EXCEPT ![t] = call]
  /\ \E p \in Priorities : wanted' = [wanted EXCEPT ![t] = p]
  /\ UNCHANGED <<contents, arrived, taken>>

(* The call of t takes effect.                                               *)
Effect(t, call) ==
  /\ asked[t] = call
  /\ asked' = [asked EXCEPT ![t] = "nothing"]
  /\ UNCHANGED wanted

Add(t) ==
  /\ Effect(t, "queue")
  /\ arrived' = arrived + 1
  /\ contents' = contents \cup {[priority |-> wanted[t], datum |-> arrived']}
  /\ UNCHANGED taken

(* There is no memory for one more item.                                     *)
Refuse(t) == Effect(t, "queue") /\ UNCHANGED <<contents, arrived, taken>>

Take(t) ==
  /\ Effect(t, "dequeue")
  /\ taken' \in contents
  /\ \A y \in contents : y.priority <= taken'.priority
  /\ contents' = contents \ {taken'}
  /\ UNCHANGED arrived

ComeBackEmpty(t) ==
  /\ Effect(t, "dequeue")
  /\ contents = {}
  /\ taken' = Nothing
  /\ UNCHANGED <<contents, arrived>>

Clear(t) == Effect(t, "clear") /\ contents' = {} /\ UNCHANGED <<arrived, taken>>

(* The queue is destroyed and another one takes its place; nobody uses it.   *)
Replace ==
  /\ asked = [t \in Threads |-> "nothing"]
  /\ contents' = {}
  /\ UNCHANGED <<asked, wanted, arrived, taken>>

Next ==
  \/ Replace
  \/ \E t \in Threads :
       Ask(t) \/ Add(t) \/ Refuse(t) \/ Take(t) \/ ComeBackEmpty(t) \/ Clear(t)

Spec == Init /\ [][Next]_pqueueVars
=============================================================================
