SPECIFICATION FairSpec
CONSTANTS
  Bodies = {x, y, Blank}
  Blank = Blank
  Passwords = {v, w}
  Nobody = Nobody
  x = x
  y = y
  v = v
  w = w
  MaxConfigs = 2
  MaxMishaps = 2
INVARIANTS
  TypeOK
  InForce
  NothingStranded
  StateIsCurrent
PROPERTIES
  NoAccessLeft
  HandlersEnd
