\* Two clients and two slots; c1 may leave and come back, also while its request is
\* still to be handled: three events in one update can be request, leave and join;
\* packets get lost.
SPECIFICATION SessionSpec
CONSTANTS
  c1 = c1
  c2 = c2
  Clients = {c1, c2}
  MaxClients = 2
  None = None
  MaxSessions = 2
  MaxQueue = 1
  MaxInbox = 3
  MaxDown = 1
  Returners = {c1}
  Leavers = {c1}
  Shooters = {}
  UsersRate = 2
  Faulty = FALSE
  Lossy = TRUE
INVARIANTS
  ConnectedClientIsPlayer
  NoEcho
