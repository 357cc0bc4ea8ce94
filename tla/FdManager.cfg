CONSTANTS
  Callers = {c1, c2}
  Fds = {3, 5}
  Names = {"socket", "close", "rcvtimeo", "ioctl", "setfl", "getfl", "get", "init"}
  Garbage = {FALSE}
  Detects = TRUE
  InitialSize = 2
  MaxContexts = 3
  MaxCalls = 3
SPECIFICATION FairSpec
INVARIANTS TypeOK
PROPERTIES EntriesSurvive CallsEnd
CHECK_DEADLOCK FALSE
