\* The median, and the last, of five numbers.
CONSTANTS
  p1 = p1
  p2 = p2
  p3 = p3
  w1 = w1
  w2 = w2
  Peer = {p1, p2, p3}
  Worker = {w1, w2}
  AllNumbers <- Numbers
  Kths <- KthArgs
  IntMin <- Lowest
  IntMax <- Highest
  None = None
SPECIFICATION FairSpec
INVARIANTS
  SoughtInRange
  Halves
PROPERTY SearchEnds
\* The client's process ends.
CHECK_DEADLOCK FALSE
