------------------------------ MODULE MCServer ------------------------------
(* The player table of MpServer with two slots and two clients. *)
EXTENDS MpServer, TLC

CONSTANTS p1, p2

MCPeers == {p1, p2}
PeerSymmetry == Permutations(MCPeers)
=============================================================================
