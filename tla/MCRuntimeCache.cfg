CONSTANTS
  c1 = c1  c2 = c2  c3 = c3  k1 = k1  k2 = k2
  None = None
  Call = {c1, c2, c3}
  Key = {k1, k2}
  KeyOf <- MCKeyOf
  MaxVersion = 1
  MaxGeneration = 2
  Faults = {"raise", "interrupt"}
SPECIFICATION FairSpec
INVARIANTS FreshAnswers SingleFlight
PROPERTY CallsEndUnlessInterrupted
CHECK_DEADLOCK FALSE
