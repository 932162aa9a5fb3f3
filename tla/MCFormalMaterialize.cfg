SPECIFICATION FairSpec
CONSTANTS
  r1 = r1
  r2 = r2
  c1 = c1
  NoRun = NoRun
  Run = {r1, r2}
  Cell = {c1}
  CellOf <- SameCell
  NestedLock = {}
  MaxDeliveries <- FirstRetried
  MaxVersion = 1
  MaxDoubtful = 2
  Faults <- AllFaults
INVARIANTS
  PublishedIsCommitted
  FailedPublishesNothingUnlessDoubtful
  LineageMatchesUnlessRaced
PROPERTIES
  RunsTerminateUnlessLost
CHECK_DEADLOCK FALSE
