SPECIFICATION Spec
CONSTANTS
  Users = {u1}
  Pollers = {p1}
  Timers = {a, b}
  Recurring = {a, b}
  Periods = {1}
  MaxTimeout = 3
  MaxTime = 4
  MaxCalls = 2
PROPERTY RecurringRearmed
CHECK_DEADLOCK FALSE
