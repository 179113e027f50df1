\* Two addresses, time up to 2, one-shot and repeating timers, one waiting task.
CONSTANTS
  Timer = {1, 2}
  MaxTime = 2
  Interval = {0, 1}
  MaxTasks = 1
  None = None
  Off = Off
SPECIFICATION FairSpec
INVARIANTS
  ArmedInTime
  OwnershipInv
PROPERTIES
  ImplementsTimerService
  EveryTimerRuns
\* Once the clock stops nothing more is due.
CHECK_DEADLOCK FALSE
