\* One other player and two connection attempts.
SPECIFICATION FairGameSpec
CONSTANTS
  me = me
  r1 = r1
  Me = me
  Remotes = {r1}
  Packets <- MCPackets
  MaxSessions = 2
  MaxQueue = 1
INVARIANTS
  GameTypeOK
  PlaysOnOwnTable
  CallbacksFindTable
PROPERTIES
  HeardOfIsSpawned
