----------------------------- MODULE MCContainers -----------------------------
(* Containers with two threads, and a list on a heap of three cells. *)
EXTENDS Containers

CONSTANTS t1, t2, a1, a2, a3, x, y
=============================================================================
