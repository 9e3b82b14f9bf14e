-------------------------------- MODULE Line --------------------------------
(***************************************************************************)
(* What the queue of common/src/utils/containers/queue promises to the     *)
(* threads that share it: each call takes effect at one moment between its *)
(* beginning and its return, as if the threads took turns.  An item that   *)
(* was accepted is delivered once, in the order of the queue's discipline, *)
(* unless the queue is cleared or destroyed first.  An offer may be        *)
(* refused, and then leaves no trace.                                      *)
(***************************************************************************)
EXTENDS Naturals, Sequences, SequencesExt

CONSTANTS Users, NoQueue

VARIABLES
  discipline,  \* "FIFO", "LIFO", or NoQueue when there is none
  contents,    \* the items in the queue, the oldest first
  asked,       \* what each user is waiting for
  offered,     \* the item that each user offers
  delivered    \* what the last dequeue of each user returned, 0 for nothing

lineVars == <<discipline, contents, asked, offered, delivered>>

Init ==
  /\ discipline = NoQueue
  /\ contents = <<>>
  /\ asked = [u \in Users |-> "nothing"]
  /\ offered = [u \in Users |-> 0]
  /\ delivered = [u \in Users |-> 0]

Open ==
  /\ discipline = NoQueue
  /\ discipline' \in {"FIFO", "LIFO"}
  /\ UNCHANGED <<contents, asked, offered, delivered>>

Close ==
  /\ \A u \in Users : asked[u] = "nothing"
  /\ discipline' = NoQueue
  /\ contents' = <<>>
  /\ UNCHANGED <<asked, offered, delivered>>

Ask(u) ==
  /\ discipline # NoQueue
  /\ asked[u] = "nothing"
  /\ \E what \in {"offer", "take", "clear"} : asked' = [asked EXCEPT ![u] = what]
  /\ offered' \in [Users -> Nat]
  /\ \A other \in Users \ {u} : offered'[other] = offered[other]
  /\ UNCHANGED <<discipline, contents, delivered>>

Answer(u, what) ==
  /\ asked[u] = what
  /\ asked' = [asked EXCEPT ![u] = "nothing"]
  /\ UNCHANGED <<discipline, offered>>

Accept(u) ==
  /\ Answer(u, "offer")
  /\ contents' = Append(contents, offered[u])
  /\ UNCHANGED delivered

Refuse(u) == Answer(u, "offer") /\ UNCHANGED <<contents, delivered>>

Deliver(u) ==
  /\ Answer(u, "take")
  /\ contents # <<>>
  /\ IF discipline = "FIFO"
       THEN /\ delivered' = [delivered EXCEPT ![u] = Head(contents)]
            /\ contents' = Tail(contents)
       ELSE /\ delivered' = [delivered EXCEPT ![u] = Last(contents)]
            /\ contents' = Front(contents)

ComeBackEmpty(u) ==
  /\ Answer(u, "take")
  /\ contents = <<>>
  /\ delivered' = [delivered EXCEPT ![u] = 0]
  /\ UNCHANGED contents

Forget(u) == Answer(u, "clear") /\ contents' = <<>> /\ UNCHANGED delivered

Next ==
  \/ Open \/ Close
  \/ \E u \in Users :
       Ask(u) \/ Accept(u) \/ Refuse(u) \/ Deliver(u) \/ ComeBackEmpty(u) \/ Forget(u)

Spec == Init /\ [][Next]_lineVars
=============================================================================
