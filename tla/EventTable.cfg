SPECIFICATION FairSpec
CONSTANTS
  Users = {u1, u2}
  Pollers = {p1, p2}
  Fds = {2, 4}
  InitialSize = 2
  MaxEvents = 1
  Wrap = 8
  MaxCalls = 3
INVARIANTS TypeOK Conserved Watched
PROPERTIES ImplementsRegistry Served ReadersCounted
CHECK_DEADLOCK FALSE
