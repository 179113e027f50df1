\* A thread that sends and then shuts down (EchoClient).
CONSTANTS
  p1 = p1
  p2 = p2
  m1 = m1
  m2 = m2
  Thread = {p1, p2}
  Loop = loop
  Msg = {m1, m2}
  Size = 2
  SndBuf = 2
  HighWaterMark = 0
  MaxTasks = 3
  Uses <- EchoUse
SPECIFICATION Spec
INVARIANT FlushedBeforeShutdown
\* A closed connection does nothing more.
CHECK_DEADLOCK FALSE
