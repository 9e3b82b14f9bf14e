\* The same instance: the actor of the previous holder of a slot is relayed.
SPECIFICATION ServerSpec
CONSTANTS
  MaxClients = 2
  p1 = p1
  p2 = p2
  Peers = {p1, p2}
  None = None
  TimeMod = 2
  UserRate = 1
  ActorRate = 1
  MaxInbox = 2
SYMMETRY PeerSymmetry
INVARIANT
  OnlyOwnActorIsRelayed
