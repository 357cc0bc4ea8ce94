CONSTANTS
  Fibers = {f1, f2}
  Threads = {t1, t2}
  Hooked = {t1}
  Fds = {0}
  Contexts <- MCContexts
  TableSize = 1
  NoThread = NoThread
  Nobody = Nobody
  Callback = Callback
  MaxCalls = 2
SPECIFICATION FairSpec
INVARIANTS TypeOK Wakeable NoForeignTimeout
PROPERTIES UsesRegistry AllEnd
CHECK_DEADLOCK FALSE
