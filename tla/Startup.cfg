CONSTANTS
  N = 2
  Tasks = {k1, k2, k3}
SPECIFICATION FairSpec
INVARIANTS TypeOK IdsPublished
PROPERTIES ImplementsPool StartReturns CallerServes
CHECK_DEADLOCK FALSE
