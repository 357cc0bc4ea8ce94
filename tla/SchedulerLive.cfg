SPECIFICATION FairSpec
CONSTANTS
  Root = root
  Created = {t1}
  Fibers = {f1, f2}
  Anyone = anyone
  None = none
  Targets = {anyone}
  Kinds = {"Event"}
  Races = FALSE
  InitialCounts = {0}
  MaxRequests = 3
INVARIANTS NothingAbandoned
PROPERTIES StopReturns ImplementsFairPool
