SPECIFICATION Spec
CONSTANTS
  c1 = c1
  c2 = c2
  Callers = {c1, c2}
  Backoff = TRUE
  MaxRetries = 1
  MaxRequests = 1
  MaxFaults = 0
INVARIANT AlwaysProven
CHECK_DEADLOCK FALSE
