\* Two descriptors: the second attempt takes the second, the third the first.
CONSTANTS
  s1 = s1
  s2 = s2
  Socket = {s1, s2}
  None = None
SPECIFICATION FairSpec
INVARIANTS
  SocketsOwned
  WatchesItsOwn
PROPERTIES
  OneConnection
  Connects
\* A client that was destroyed does nothing more.
CHECK_DEADLOCK FALSE
