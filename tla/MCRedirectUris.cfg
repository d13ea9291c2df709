SPECIFICATION FairSpec
CONSTANTS
  r1 = r1
  r2 = r2
  r3 = r3
  Resources = {r1, r2, r3}
  Kind <- TwoKinds
  Kinds = {"redirect", "post_logout"}
  Uris = {"a", "b"}
  Own = {"own"}
  App = App
  NoApp = NoApp
  NoUri = NoUri
  MaxApplies = 2
  MaxFaults = 1
INVARIANT TypeOK
INVARIANT UrisInForce
PROPERTY NoLostUpdate
PROPERTY AppliesEnd
CHECK_DEADLOCK FALSE
