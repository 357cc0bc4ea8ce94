SPECIFICATION Spec
CONSTANTS
  Root = root
  Created = {t1}
  Fibers = {f1, f2}
  Anyone = anyone
  None = none
  Targets = {anyone}
  Kinds = {"Event"}
  Races = TRUE
  InitialCounts = {0}
  MaxRequests = 2
INVARIANT ActiveExact
SYMMETRY FiberSymmetry
