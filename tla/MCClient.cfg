\* One client, two connection attempts, a queue of two packets.
SPECIFICATION ClientSpec
CONSTANTS
  c1 = c1
  Clients = {c1}
  ServerPackets <- MCServerPackets
  MaxSessions = 2
  MaxQueue = 2
  TimeMod = 3
  UserRate = 2
  ActorRate = 1
INVARIANTS
  ClientTypeOK
  LinkIsAccountedFor
  FreshSessionHandshakes
PROPERTY
  AsksOncePerSession
