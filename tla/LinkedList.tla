----------------------------- MODULE LinkedList -----------------------------
(***************************************************************************)
(* The doubly linked list of common/src/utils/containers/list/list.c: its  *)
(* items are cells of the heap, and a freed cell may be allocated again.   *)
(* list_remove_by_data and list_clear follow the next links from the front *)
(* until they meet a null link, one cell per step.                         *)
(*                                                                         *)
(* Following a link into a freed cell is undefined; strayed records that   *)
(* it happened, and nothing is modelled after it.  What is in a freed cell *)
(* is therefore never seen, and the model forgets it.                      *)
(***************************************************************************)
EXTENDS Integers, Sequences, FiniteSets

CONSTANTS
  Addresses,   \* the cells that the heap can give
  Null,
  Data,
  NoData

ASSUME HeapAssumption == Null \notin Addresses /\ NoData \notin Data

VARIABLES
  front, back,   \* list->front, list->back
  count,         \* list->items_number
  cells,         \* the heap
  live,          \* the cells that are allocated
  walk,          \* the walk that is under way
  cursor,        \* item, or i: the cell that the walk comes to next
  listCall,      \* the last call, with its data argument
  popped,        \* what the last pop returned
  strayed        \* a freed cell has been read, written or freed again

list == <<front, back, count, cells, live>>
walking == <<walk, cursor>>
listVars == <<list, walking, listCall, popped, strayed>>

Link == Addresses \cup {Null}
Cell == [data : Data \cup {NoData}, prev : Link, next : Link]

(* turn changes at every call; starved: mem_alloc returned 0.                *)
ListCall ==
  [turn : BOOLEAN, data : Data \cup {NoData}, starved : BOOLEAN,
   name : {"create", "push_back", "push_front", "pop_back", "pop_front",
           "remove", "clear"}]

(* Between calls, the list owns as many cells as it has items: none leaks.   *)
ListTypeOK ==
  /\ {front, back, cursor} \subseteq Link
  /\ count \in Nat
  /\ cells \in [Addresses -> Cell]
  /\ live \subseteq Addresses
  /\ walk \in {"none", "remove", "clear"}
  /\ listCall \in ListCall
  /\ popped \in Data \cup {NoData}
  /\ strayed \in BOOLEAN
  /\ walk # "clear" => Cardinality(live) = count

NewCell(d, prev, next) == [data |-> d, prev |-> prev, next |-> next]
Forget(heap, gone) ==
  [a \in Addresses |-> IF a \in gone THEN NewCell(NoData, Null, Null) ELSE heap[a]]

(* list_create *)
ListInit ==
  /\ front = Null /\ back = Null
  /\ count = 0
  /\ cells = [a \in Addresses |-> NewCell(NoData, Null, Null)]
  /\ live = {}
  /\ walk = "none" /\ cursor = Null
  /\ listCall = [turn |-> FALSE, name |-> "create", data |-> NoData, starved |-> FALSE]
  /\ popped = NoData
  /\ strayed = FALSE

-----------------------------------------------------------------------------
(* Operators named Mutant... are deliberately wrong variants of the operator *)
(* that follows them.  No action uses them; they exist to be swapped in, to  *)
(* confirm that the properties notice.                                       *)

Idle == walk = "none" /\ ~strayed

ListCalled(name, d, starved) ==
  listCall' = [turn |-> ~listCall.turn, name |-> name, data |-> d, starved |-> starved]

Touch(links) == strayed' = ~(links \ {Null} \subseteq live)

(* The first item of a list. *)
PushFirst(d, a) ==
  /\ count = 0
  /\ cells' = [cells EXCEPT ![a] = NewCell(d, Null, Null)]
  /\ front' = a /\ back' = a
  /\ UNCHANGED strayed

ListPush(d, a) ==
  /\ Idle
  /\ a \notin live
  /\ live' = live \cup {a}
  /\ count' = count + 1
  /\ UNCHANGED <<walking, popped>>

ListPushBack(d, a) ==
  /\ ListPush(d, a)
  /\ ListCalled("push_back", d, FALSE)
  /\ \/ PushFirst(d, a)
     \/ /\ count > 0
        /\ Touch({back})
        /\ cells' = [cells EXCEPT ![back].next = a, ![a] = NewCell(d, back, Null)]
        /\ back' = a
        /\ UNCHANGED front

ListPushFront(d, a) ==
  /\ ListPush(d, a)
  /\ ListCalled("push_front", d, FALSE)
  /\ \/ PushFirst(d, a)
     \/ /\ count > 0
        /\ Touch({front})
        /\ cells' = [cells EXCEPT ![front].prev = a, ![a] = NewCell(d, Null, front)]
        /\ front' = a
        /\ UNCHANGED back

(* mem_alloc may return 0 at any time. *)
PushFails(name, d) ==
  /\ Idle
  /\ ListCalled(name, d, TRUE)
  /\ UNCHANGED <<list, walking, popped, strayed>>

MutantFreed(a) == live
Freed(a) == live \ {a}

PopNothing(name) ==
  /\ Idle
  /\ count = 0
  /\ ListCalled(name, NoData, FALSE)
  /\ popped' = NoData
  /\ UNCHANGED <<list, walking, strayed>>

Pop(a) ==
  /\ Idle
  /\ count > 0
  /\ Touch({a})
  /\ popped' = cells[a].data
  /\ live' = Freed(a)
  /\ cells' = Forget(cells, {a})
  /\ count' = count - 1
  /\ UNCHANGED walking

Rest(link) == IF count = 1 THEN Null ELSE link

ListPopBack ==
  /\ Pop(back)
  /\ ListCalled("pop_back", NoData, FALSE)
  /\ back' = Rest(cells[back].prev)
  /\ front' = Rest(front)

ListPopFront ==
  /\ Pop(front)
  /\ ListCalled("pop_front", NoData, FALSE)
  /\ front' = Rest(cells[front].next)
  /\ back' = Rest(back)

-----------------------------------------------------------------------------
StartWalk(w, d) ==
  /\ Idle
  /\ count > 0
  /\ ListCalled(w, d, FALSE)
  /\ walk' = w
  /\ cursor' = front
  /\ UNCHANGED <<list, popped, strayed>>

WalkNothing(w, d) ==
  /\ Idle
  /\ count = 0
  /\ ListCalled(w, d, FALSE)
  /\ UNCHANGED <<list, walking, popped, strayed>>

(* remove_item_: the neighbours of the cell are linked to each other. *)
Neighbours(a) == {cells[a].prev, cells[a].next}

MutantBypass(a) ==
  [b \in Addresses |->
     [cells[b] EXCEPT !.next = IF b = cells[a].prev THEN cells[a].next ELSE @]]

Bypass(a) ==
  [b \in Addresses |->
     [cells[b] EXCEPT !.next = IF b = cells[a].prev THEN cells[a].next ELSE @,
                      !.prev = IF b = cells[a].next THEN cells[a].prev ELSE @]]

MutantNewBack(a) == back
NewBack(a) == IF cells[a].next = Null THEN cells[a].prev ELSE back
NewFront(a) == IF cells[a].prev = Null THEN cells[a].next ELSE front

RemoveItem(a) ==
  /\ Touch({a} \cup Neighbours(a))
  /\ cells' = Forget(Bypass(a), {a})
  /\ front' = NewFront(a)
  /\ back' = NewBack(a)
  /\ live' = Freed(a)
  /\ count' = count - 1

(* The data argument of list_remove_by_data. *)
Unwanted == listCall.data

MutantFollowing(a) == IF cells[a].data = Unwanted THEN cells[a].next ELSE a
Following(a) == cells[a].next

RemoveStep ==
  /\ walk = "remove"
  /\ cursor # Null
  /\ ~strayed
  /\ cursor' = Following(cursor)
  /\ IF cells[cursor].data = Unwanted /\ count > 0
       THEN RemoveItem(cursor)
       ELSE Touch({cursor}) /\ UNCHANGED list
  /\ UNCHANGED <<walk, listCall, popped>>

ClearStep ==
  /\ walk = "clear"
  /\ cursor # Null
  /\ ~strayed
  /\ Touch({cursor})
  /\ live' = Freed(cursor)
  /\ cursor' = Following(cursor)
  /\ UNCHANGED <<front, back, count, cells, walk, listCall, popped>>

(* The items that a clearing has freed are forgotten when it ends, since it  *)
(* is then that they leave the list.                                         *)
EndWalk ==
  /\ walk # "none"
  /\ cursor = Null
  /\ walk' = "none"
  /\ IF walk = "clear"
       THEN /\ front' = Null /\ back' = Null /\ count' = 0
            /\ cells' = Forget(cells, Addresses)
       ELSE UNCHANGED <<front, back, count, cells>>
  /\ UNCHANGED <<live, cursor, listCall, popped, strayed>>

Walks == RemoveStep \/ ClearStep \/ EndWalk

ListNext ==
  \/ \E d \in Data :
       \/ \E a \in Addresses : ListPushBack(d, a) \/ ListPushFront(d, a)
       \/ PushFails("push_back", d) \/ PushFails("push_front", d)
       \/ StartWalk("remove", d) \/ WalkNothing("remove", d)
  \/ ListPopBack \/ ListPopFront
  \/ PopNothing("pop_back") \/ PopNothing("pop_front")
  \/ StartWalk("clear", NoData) \/ WalkNothing("clear", NoData)
  \/ Walks

ListSpec == ListInit /\ [][ListNext]_listVars

(* Callers that do not walk a list whose ends a pop has left open.           *)
EndsClosed ==
  count > 0 => cells[front].prev = Null /\ cells[back].next = Null

CarefulNext == ListNext /\ (walk = "none" /\ walk' # "none" => EndsClosed)

CarefulSpec == ListInit /\ [][CarefulNext]_listVars /\ WF_listVars(Walks)

-----------------------------------------------------------------------------
(* The data of n items, from the first one along the next links.             *)
ItemsFrom(first, n, heap) ==
  LET Chain[i \in 1 .. n] == IF i = 1 THEN first ELSE heap[Chain[i - 1]].next
  IN  [i \in 1 .. n |-> heap[Chain[i]].data]
Contents == ItemsFrom(front, count, cells)

(* Each call of list.c does to the items what that call promises: it works   *)
(* on its own end, with its own datum, and a removal or a clearing is        *)
(* complete when it ends, whatever calls went before.                        *)
AsDeque ==
  INSTANCE Deque WITH contents <- Contents, call <- listCall, busy <- walk # "none"
ImplementsDeque == AsDeque!DequeSpec

(* list.h:72 and list.h:82: removing and clearing go over the items of the   *)
(* list, that is, never over cells that are no longer part of it.            *)
WalksStayInside == ~strayed

(* A walk ends.                                                              *)
WalksEnd == walk # "none" ~> walk = "none"
=============================================================================
