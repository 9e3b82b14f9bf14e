----------------------------- MODULE MCInjection -----------------------------
(* Injection as it is: it has no parameter but a name for no file. *)
EXTENDS Injection
=============================================================================
