SPECIFICATION Spec
CONSTANTS
  group = group
  user = user
  both = both
  other = other
  elsewhere = elsewhere
  Memberships = {both, other}
  Groups = {group}
  Users = {user}
  Scope <- MCScope
  Absent = Absent
  MaxApplies = 2
  MaxMishaps = 1
INVARIANTS
  InForceUnlessTold
CHECK_DEADLOCK FALSE
