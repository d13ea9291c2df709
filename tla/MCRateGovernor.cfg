CONSTANTS
  c1 = c1
  c2 = c2
  Callers = {c1, c2}
  Nobody = Nobody
  Capacity = 34
  Limit = 7
  WindowLength = 2
  MaxAttempts = 2
  MaxRequests = 2
  MaxTime = 5
SPECIFICATION FairSpec
INVARIANTS
  TypeOK
  StatusIsSummary
  OvershootBounded
PROPERTIES
  StatusNeverRegresses
  RequestsReturn
CHECK_DEADLOCK FALSE
