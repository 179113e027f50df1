\* Three workers, two producers, room for two, and stop() at any moment; the
\* tasks submit nothing, since workers that do may all block on a full queue.
CONSTANTS
  w1 = w1
  w2 = w2
  w3 = w3
  p1 = p1
  p2 = p2
  t1 = t1
  t2 = t2
  t3 = t3
  t4 = t4
  Worker = {w1, w2, w3}
  Producer = {p1, p2}
  Task = {t1, t2, t3, t4}
  None = None
  MaxQueueSize = 2
  Nested = FALSE
SPECIFICATION FairSpec
INVARIANTS
  NoTaskOverlooked
  NoRoomOverlooked
PROPERTIES
  ImplementsWorkQueue
  EveryTaskRuns
  StopReturns
\* A stopped pool does nothing more.
CHECK_DEADLOCK FALSE
