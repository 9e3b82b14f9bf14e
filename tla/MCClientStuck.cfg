\* The same instance: a session waits for an answer to a request of an earlier one.
SPECIFICATION ClientSpec
CONSTANTS
  c1 = c1
  Clients = {c1}
  ServerPackets <- MCServerPackets
  MaxSessions = 2
  MaxQueue = 2
  TimeMod = 3
  UserRate = 2
  ActorRate = 1
INVARIANT
  NothingSurvivesDisconnect
