-------------------------------- MODULE MCList --------------------------------
(* LinkedList by itself, on a heap of three cells. *)
EXTENDS LinkedList

CONSTANTS a1, a2, a3, x, y
=============================================================================
