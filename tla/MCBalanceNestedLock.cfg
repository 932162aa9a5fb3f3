SPECIFICATION FairSpec
CONSTANTS
  r1 = r1
  r2 = r2
  c1 = c1
  NoRun = NoRun
  Run = {r1}
  Cell = {c1}
  CellOf <- SameCell
  NestedLock = {r1}
  MaxDeliveries <- RetriedThrice
  MaxVersion = 1
  MaxDoubtful = 1
  Faults = {}
PROPERTIES
  EveryRunCompletes
CHECK_DEADLOCK FALSE
