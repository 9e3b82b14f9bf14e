-------------------------------- MODULE Deque --------------------------------
(***************************************************************************)
(* What the doubly linked list of common/src/utils/containers/list gives   *)
(* its callers: a sequence that grows and shrinks at both ends, from which *)
(* a call removes all occurrences of a datum.  Every step is the step of   *)
(* the call that call names.  Removing and clearing take several steps,    *)
(* during which nothing else is called; the others take one.               *)
(***************************************************************************)
EXTENDS Sequences, SequencesExt

CONSTANTS
  Data,
  NoData   \* what a pop of an empty list returns

VARIABLES
  contents,
  call,    \* the last call, its datum, and whether it got no memory
  busy,    \* that call has not returned yet
  popped   \* what the last pop returned

dequeVars == <<contents, call, busy, popped>>

DequeInit ==
  /\ contents = <<>>
  /\ call.name = "create"
  /\ ~busy
  /\ popped = NoData

-----------------------------------------------------------------------------
Called(name, d, starved) ==
  /\ ~busy
  /\ call' = [turn |-> ~call.turn, name |-> name, data |-> d, starved |-> starved]

PushBack(d) ==
  /\ Called("push_back", d, FALSE)
  /\ contents' = Append(contents, d)
  /\ UNCHANGED <<busy, popped>>

PushFront(d) ==
  /\ Called("push_front", d, FALSE)
  /\ contents' = <<d>> \o contents
  /\ UNCHANGED <<busy, popped>>

(* A push that gets no memory leaves no trace. *)
StarvedPush(d) ==
  /\ Called("push_back", d, TRUE) \/ Called("push_front", d, TRUE)
  /\ UNCHANGED <<contents, busy, popped>>

PopBack ==
  /\ Called("pop_back", NoData, FALSE)
  /\ IF contents = <<>>
       THEN popped' = NoData /\ UNCHANGED contents
       ELSE popped' = Last(contents) /\ contents' = Front(contents)
  /\ UNCHANGED busy

PopFront ==
  /\ Called("pop_front", NoData, FALSE)
  /\ IF contents = <<>>
       THEN popped' = NoData /\ UNCHANGED contents
       ELSE popped' = Head(contents) /\ contents' = Tail(contents)
  /\ UNCHANGED busy

(* A call on an empty list returns at once. *)
RemovalBegins(d) ==
  /\ Called("remove", d, FALSE)
  /\ busy' = (contents # <<>>)
  /\ UNCHANGED <<contents, popped>>

RemoveOne ==
  /\ busy /\ call.name = "remove"
  /\ \E i \in DOMAIN contents :
       contents[i] = call.data /\ contents' = RemoveAt(contents, i)
  /\ UNCHANGED <<call, busy, popped>>

RemovalEnds ==
  /\ busy /\ call.name = "remove"
  /\ \A i \in DOMAIN contents : contents[i] # call.data
  /\ busy' = FALSE
  /\ UNCHANGED <<contents, call, popped>>

ClearingBegins ==
  /\ Called("clear", NoData, FALSE)
  /\ busy' = (contents # <<>>)
  /\ UNCHANGED <<contents, popped>>

ClearingEnds ==
  /\ busy /\ call.name = "clear"
  /\ busy' = FALSE
  /\ contents' = <<>>
  /\ UNCHANGED <<call, popped>>

DequeNext ==
  \/ \E d \in Data :
       PushBack(d) \/ PushFront(d) \/ StarvedPush(d) \/ RemovalBegins(d)
  \/ PopBack \/ PopFront
  \/ RemoveOne \/ RemovalEnds
  \/ ClearingBegins \/ ClearingEnds

DequeSpec == DequeInit /\ [][DequeNext]_dequeVars
=============================================================================
