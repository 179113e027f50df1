\* The base loop and two threads; two clients and one descriptor for them.
CONSTANTS
  c1 = c1
  c2 = c2
  NumThreads = 3
  Client = {c1, c2}
  MaxFds = 1
SPECIFICATION FairSpec
INVARIANT ClientsAndLoopsHeld
PROPERTIES
  StartServes
  AllJoined
  Served
  EndIsTold
\* A server that was destroyed does nothing more.
CHECK_DEADLOCK FALSE
