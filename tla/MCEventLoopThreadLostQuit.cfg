\* The destructor against the start of loop().
CONSTANTS
  owner = owner
  user = user
  t1 = t1
  c1 = c1
  Thread = {owner, user}
  Task = {t1}
  Channel = {c1}
  WakeupFd = wakeupFd
  None = None
  MaxCount = 1
  Owner = owner
  TaskQuits = FALSE
SPECIFICATION ThreadFairSpec
PROPERTY DestructorReturns
\* After the join everything has stopped.
CHECK_DEADLOCK FALSE
