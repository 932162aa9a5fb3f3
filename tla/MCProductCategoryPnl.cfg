CONSTANTS
  Request = {q1, q2}
  a1 = a1
  Adjustment = {a1}
  Months = 2
  Amount = {1, 2}
  Draft <- MCDraft
  Build = {b1, b2}
  NoBuild = NoBuild
  Reader = {h1}
  Stream <- MCStream
  MaxClock = 1
  Faults = {"source", "commit", "governance", "interrupt"}
SPECIFICATION Spec
INVARIANTS CurrentIsLastUnlessRaced FormalIsListedUnlessMoved
  CompletedRefreshReflectsEdits
SYMMETRY MCSymmetry
CHECK_DEADLOCK FALSE
