\* Each container by itself: two threads on a priority queue of up to four items,
\* a list of up to three cells of two data, which is not walked while a pop has left
\* one of its ends open, a map of up to five keys, two threads on a queue of up to
\* three items.
SPECIFICATION ContainersSpec
CONSTANTS
  t1 = t1
  t2 = t2
  a1 = a1
  a2 = a2
  a3 = a3
  x = x
  y = y
  Threads = {t1, t2}
  NoThread = NoThread
  Priorities = {1, 2}
  MaxArrivals = 4
  Addresses = {a1, a2, a3}
  Null = Null
  Data = {x, y}
  NoData = NoData
  Keys = {1, 2, 3, 4, 5}
  Values = {x, y}
  NoValue = NoValue
  Users = {t1, t2}
  NoUser = NoUser
  NoQueue = NoQueue
  MaxOffers = 3
INVARIANTS
  PQueueTypeOK
  SortedWhenUnlocked
  ListTypeOK
  WalksStayInside
  MapTypeOK
  KeysAscend
  QueueTypeOK
PROPERTIES
  ImplementsPriorityQueue
  MutexIsReleased
  ImplementsDeque
  WalksEnd
  ImplementsDictionary
  ImplementsLine
  OwnerLeaves
