\* Two slots, two clients, any two events per tick; a clock of two values,
\* so that it wraps and the zero time recurs.
SPECIFICATION ServerSpec
CONSTANTS
  MaxClients = 2
  p1 = p1
  p2 = p2
  Peers = {p1, p2}
  None = None
  TimeMod = 2
  UserRate = 1
  ActorRate = 1
  MaxInbox = 2
SYMMETRY PeerSymmetry
INVARIANTS
  ServerTypeOK
  PlayerHoldsSlot
  UsersSyncIsTruthful
  NoZeroedActorIsRelayed
  NoSyncIsOverdue
