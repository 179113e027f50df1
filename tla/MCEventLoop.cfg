\* Two foreign threads, three tasks, one channel; no symmetry, for liveness.
CONSTANTS
  p1 = p1
  p2 = p2
  t1 = t1
  t2 = t2
  t3 = t3
  c1 = c1
  Thread = {p1, p2}
  Task = {t1, t2, t3}
  Channel = {c1}
  WakeupFd = wakeupFd
  None = None
  MaxCount = 2
SPECIFICATION FairSpec
INVARIANTS
  NoLostWakeup
PROPERTIES
  ImplementsTaskQueue
  EveryTaskRuns
  QuitEndsLoop
  IoNotStarved
\* After quit() the loop returns and everything may stop.
CHECK_DEADLOCK FALSE
