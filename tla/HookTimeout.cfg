CONSTANTS
  Fibers = {f1}
  Threads = {t1, t2}
  Hooked = {t1}
  Fds = {0}
  Contexts <- MCContexts
  TableSize = 1
  NoThread = NoThread
  Nobody = Nobody
  Callback = Callback
  MaxCalls = 1
SPECIFICATION TimeoutSpec
PROPERTIES TimeoutEnds
CHECK_DEADLOCK FALSE
