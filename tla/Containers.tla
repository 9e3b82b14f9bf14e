------------------------------ MODULE Containers ------------------------------
(***************************************************************************)
(* The containers of common/src/utils side by side.  They share no state:  *)
(* a behaviour uses the one that is chosen at its beginning.               *)
(***************************************************************************)
EXTENDS PQueue, LinkedList, SortedMap, Queue

VARIABLE which

vars == <<which, pqueueVars, listVars, mapVars, queueVars>>

ContainersInit ==
  /\ which \in {"pqueue", "list", "map", "queue"}
  /\ PQueueInit
  /\ which # "pqueue" => type = "FIFO"
  /\ ListInit
  /\ MapInit
  /\ QueueInit

Uses(container) == which = container /\ UNCHANGED which

ContainersNext ==
  \/ Uses("pqueue") /\ PQueueNext /\ UNCHANGED <<listVars, mapVars, queueVars>>
  \/ Uses("list") /\ CarefulNext /\ UNCHANGED <<pqueueVars, mapVars, queueVars>>
  \/ Uses("map") /\ MapNext /\ UNCHANGED <<pqueueVars, listVars, queueVars>>
  \/ Uses("queue") /\ QueueNext /\ UNCHANGED <<pqueueVars, listVars, mapVars>>

ContainersSpec ==
  /\ ContainersInit /\ [][ContainersNext]_vars
  /\ PQueueFairness
  /\ WF_listVars(Walks)
  /\ QueueFairness
=============================================================================
