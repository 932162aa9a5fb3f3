CONSTANTS
  f1 = f1
  f2 = f2
  File = {f1, f2}
  FamilyOf <- MCFamily
  DateOf <- MCDate
  Tables = 2
  MaxBatch = 2
  r1 = r1
  r2 = r2
  Refresh = {r1, r2}
  View = {w1}
  NoRun = NoRun
  Shift <- MCShift
  Opening <- MCOpening
  Faults = {"source", "storage", "governance", "database", "archive", "interrupt"}
SPECIFICATION Spec
INVARIANTS RestoredIsAsBefore TablesAgreeUnlessUndone CompletedIsShownUnlessLost
  ManifestFollowsSourceUnlessRaced JobStateFollowsRecords
SYMMETRY MCSymmetry
CHECK_DEADLOCK FALSE
