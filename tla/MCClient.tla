------------------------------ MODULE MCClient ------------------------------
(* One MpClient and a network that may do anything. *)
EXTENDS MpClient

CONSTANTS c1

Response == [type |-> "CONNECTION_RESPONSE"]
ActorsSync == [type |-> "ACTORS_SYNC"]
MCServerPackets == {Response, ActorsSync}
=============================================================================
