CONSTANTS
  c1 = c1  c2 = c2  c3 = c3  k = k
  NoKey = NoKey
  NoRequest = NoRequest
  Request = {c1, c2, c3}
  Key <- MCKey
  Traffic <- MCTraffic
  StaleAfter = 0
  MaxTime = 1
  MaxRetries = 1
  MaxSilent = 1
SPECIFICATION FairSpec
INVARIANTS TypeOK OneRunPerKey SingleFlightUnlessRevived RequestsAreRecordedUnlessSilent
  CompletedStaysWhileFreshUnlessReopened
PROPERTY AcceptedRunsSettleUnlessSilent
CHECK_DEADLOCK FALSE
