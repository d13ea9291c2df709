SPECIFICATION FairSpec
CONSTANTS
  c1 = c1
  c2 = c2
  Callers = {c1, c2}
  Backoff = TRUE
  MaxRetries = 1
  MaxRequests = 1
  MaxFaults = 3
INVARIANT TypeOK
INVARIANT RetryIsFresh
INVARIANT ProvenUnlessRaced
PROPERTY RequestsReturn
CHECK_DEADLOCK FALSE
