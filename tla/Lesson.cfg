CONSTANTS
  Tasks = {k1, k2, k3}
  Direct = {d}
  MainFiber = main
  SchedulerFiber = sched
  IdleFiber = idle
  None = None
  MaxSchedules = 4
  MaxYields = 3
SPECIFICATION FairSpec
INVARIANTS TypeOK CurrentIsExecuting ContextsOwn
PROPERTIES StopServes
CHECK_DEADLOCK FALSE
