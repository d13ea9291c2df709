SPECIFICATION FairSpec
CONSTANTS
  Names = {a, b}
  CatchAll = CatchAll
  Bodies = {x}
  a = a
  b = b
  x = x
  Priorities = {1, 2}
  IdsGiven = "renames"
  MaxFound = 1
  MaxRules = 3
  MaxApplies = 2
  MaxFaults = 1
  MaxAdmin = 1
  MaxMishaps = 1
INVARIANT TypeOK
INVARIANT IdHonoured
INVARIANT AppliedInSync
INVARIANT NothingForgotten
CHECK_DEADLOCK FALSE
PROPERTY CreateConverges
PROPERTY UnmanagedUntouched
