SPECIFICATION Spec
CONSTANTS
  Root = root
  Created = {t1}
  Fibers = {f1, f2}
  Anyone = anyone
  None = none
  Targets = {root, t1, anyone}
  Kinds = {"Event", "Timer"}
  Races = TRUE
  InitialCounts = {0, 1}
  MaxRequests = 3
INVARIANTS TypeOK FiberOnOneThread ResumeReady
PROPERTIES ImplementsOpenPool
SYMMETRY FiberSymmetry
