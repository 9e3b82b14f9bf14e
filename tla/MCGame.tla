------------------------------- MODULE MCGame -------------------------------
(* MpGame with one other player. *)
EXTENDS MpGame

CONSTANTS me, r1

MCPackets ==
  {[type |-> "CONNECTION_RESPONSE"],
   [type |-> "USERS_SYNC", items |-> {r1}],
   [type |-> "ACTORS_SYNC", items |-> {r1}],
   [type |-> "SHOOT", player |-> r1]}
=============================================================================
