\* Two clients that connect once and stay, on a network that loses packets but not
\* every packet from some time on.
SPECIFICATION DeliveringSpec
CONSTANTS
  c1 = c1
  c2 = c2
  Clients = {c1, c2}
  MaxClients = 2
  None = None
  MaxSessions = 1
  MaxQueue = 1
  MaxInbox = 1
  MaxDown = 1
  Returners = {}
  Leavers = {}
  Shooters = {}
  UsersRate = 2
  Faulty = FALSE
  Lossy = TRUE
PROPERTIES
  PlayersKeepMeeting
