CONSTANTS
  c1 = c1  c2 = c2  c3 = c3  c4 = c4  k1 = k1
  None = None
  Call = {c1, c2, c3, c4}
  Key = {k1}
  KeyOf <- MCSameKey
  Uncached = {c4}
  MaxVersion = 1
SPECIFICATION FairSpec
INVARIANTS SharedOutcome StaleOnlyFromOvertaken
PROPERTY CallsEnd
CHECK_DEADLOCK FALSE
