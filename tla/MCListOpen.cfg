\* A list whose callers walk it after popping.
SPECIFICATION ListSpec
CONSTANTS
  a1 = a1
  a2 = a2
  a3 = a3
  x = x
  y = y
  Addresses = {a1, a2, a3}
  Null = Null
  Data = {x, y}
  NoData = NoData
INVARIANT WalksStayInside
CHECK_DEADLOCK FALSE
