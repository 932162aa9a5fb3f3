CONSTANTS
  Request = {q1, q2, q3}
  a1 = a1
  Adjustment = {a1}
  u1 = u1
  u2 = u2
  User = {u1, u2}
  Nobody = Nobody
  Months = 2
  x = x
  y = y
  z = z
  Draft <- MCDraft
  Stream <- MCStream
  Batch <- MCBatch
  NoRows = NoRows
  Opening <- MCOpening
  Run = {b1, b2}
  NoRun = NoRun
  Orders <- MCOrders
  Reader = {h1, h2}
  Shift <- MCShift
  MaxClock = 1
  Faults = {"source", "storage", "governance", "interrupt"}
SPECIFICATION Spec
INVARIANTS TypeOK MakerNeverApproves CurrentIsLastUnlessRaced
  CachedYtdCountsUnlessOvertaken CachedYtdShowsFactsUnlessLagging
  CompletedRunIsPrecomputedUnlessUnstored
PROPERTIES AnswersPrecomputedOfSameTotalsUnlessUnmarked
SYMMETRY MCSymmetry
CHECK_DEADLOCK FALSE
