\* Six programs: callbacks that do everything, a timer that closes, a thread that
\* closes, a callback that starts to read without looking, a thread that stops and
\* starts reading, two threads and a peer that end the connection at once.
CONSTANTS
  p1 = p1
  p2 = p2
  m1 = m1
  m2 = m2
  Thread = {p1, p2}
  Loop = loop
  Msg = {m1, m2}
  Size = 2
  SndBuf = 3
  HighWaterMark = 2
  MaxTasks = 2
  Uses <- AnyUse
SPECIFICATION FairSpec
INVARIANTS
  OutputIffWriting
  ClosedForGood
  SenderOrder
PROPERTIES
  ImplementsByteStream
  ShutdownCompletes
  ForceCloseCloses
  OutputDrains
\* A closed connection does nothing more.
CHECK_DEADLOCK FALSE
