CONSTANTS
  Request = {}
  a1 = a1
  Adjustment = {a1}
  Months = 2
  Amount = {1, 2}
  Draft <- MCDraft
  Build = {b1}
  NoBuild = NoBuild
  Reader = {h1}
  Stream <- MCStream
  MaxClock = 1
  Faults = {}
SPECIFICATION Spec
INVARIANT RebuiltMatchesPersisted
CHECK_DEADLOCK FALSE
