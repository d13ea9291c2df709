SPECIFICATION FairSpec
CONSTANTS
  group = group
  user = user
  both = both
  other = other
  elsewhere = elsewhere
  Memberships = {both, other}
  Groups = {group}
  Users = {user}
  Scope <- MCScope
  Absent = Absent
  MaxApplies = 2
  MaxMishaps = 1
INVARIANTS
  TypeOK
  InForce
PROPERTIES
  OthersUntouched
  Settles
CHECK_DEADLOCK FALSE
