CONSTANTS
  c1 = c1
  c2 = c2
  Callers = {c1, c2}
  Nobody = Nobody
  Capacity = 34
  Limit = 7
  WindowLength = 2
  MaxAttempts = 1
  MaxRequests = 2
  MaxTime = 5
SPECIFICATION Spec
INVARIANTS
  ThrottleIsJustified
CHECK_DEADLOCK FALSE
