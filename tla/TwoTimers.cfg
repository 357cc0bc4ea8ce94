SPECIFICATION Spec
CONSTANTS
  Users = {u1}
  Pollers = {p1, p2}
  Timers = {a, b}
  Recurring = {b}
  Periods = {0, 2}
  MaxTimeout = 2
  MaxTime = 3
  MaxCalls = 3
INVARIANTS OneShotOnce NoLateTimer
SYMMETRY ThreadSymmetry
CHECK_DEADLOCK FALSE
