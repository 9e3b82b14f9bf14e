\* The same priority queue: which of two equals leaves first.
SPECIFICATION ContainersSpec
CONSTANTS
  t1 = t1
  t2 = t2
  a1 = a1
  a2 = a2
  a3 = a3
  x = x
  y = y
  Threads = {t1, t2}
  NoThread = NoThread
  Priorities = {1, 2}
  MaxArrivals = 4
  Addresses = {a1, a2, a3}
  Null = Null
  Data = {x, y}
  NoData = NoData
  Keys = {1, 2, 3, 4, 5}
  Values = {x, y}
  NoValue = NoValue
  Users = {t1, t2}
  NoUser = NoUser
  NoQueue = NoQueue
  MaxOffers = 3
INVARIANT FifoTakesOldestFirst
