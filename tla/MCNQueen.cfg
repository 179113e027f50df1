\* Boards of 1, 2, 4 and 5 queens.
CONSTANTS
  p1 = p1
  p2 = p2
  Peer = {p1, p2}
  Problems <- Boards
SPECIFICATION FairSpec
INVARIANT AnswerRight
PROPERTY WorkEnds
\* The client's process ends.
CHECK_DEADLOCK FALSE
