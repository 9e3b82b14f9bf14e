\* One client that comes back up to twice to a server with one slot, with timeouts
\* and losses on both sides: a new session may find the slot still held by the old one.
SPECIFICATION RecoverySpec
CONSTANTS
  c1 = c1
  c2 = c2
  Clients = {c1}
  MaxClients = 1
  None = None
  MaxSessions = 3
  MaxQueue = 1
  MaxInbox = 1
  MaxDown = 1
  Returners = {c1}
  Leavers = {c1}
  Shooters = {c1}
  UsersRate = 0
  Faulty = TRUE
  Lossy = TRUE
INVARIANTS
  ConnectedClientIsPlayer
PROPERTIES
  FreshAttemptEnds
