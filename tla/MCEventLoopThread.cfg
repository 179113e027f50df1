\* The thread's life; only the destructor quits the loop.
CONSTANTS
  owner = owner
  user = user
  t1 = t1
  t2 = t2
  c1 = c1
  Thread = {owner, user}
  Task = {t1, t2}
  Channel = {c1}
  WakeupFd = wakeupFd
  None = None
  MaxCount = 1
  Owner = owner
  TaskQuits = FALSE
SPECIFICATION ThreadFairSpec
INVARIANT LoopOutlivesUsers
PROPERTIES
  StartReturns
  JoinReturnsOnceLooping
\* After the join everything has stopped.
CHECK_DEADLOCK FALSE
