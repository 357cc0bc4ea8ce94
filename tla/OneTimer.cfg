SPECIFICATION FairSpec
CONSTANTS
  Users = {u1, u2}
  Pollers = {p1, p2}
  Timers = {a}
  Recurring = {}
  Periods = {1, 2}
  MaxTimeout = 2
  MaxTime = 3
  MaxCalls = 3
INVARIANTS TypeOK NotForgotten
PROPERTIES CancelFinal DueServed
CHECK_DEADLOCK FALSE
