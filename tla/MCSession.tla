------------------------------ MODULE MCSession ------------------------------
(* MpSession with two clients. *)
EXTENDS MpSession

CONSTANTS c1, c2
=============================================================================
