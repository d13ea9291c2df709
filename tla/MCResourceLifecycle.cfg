SPECIFICATION Spec
CONSTANTS
  Handlers <- ProviderHandlers
  Bodies = {x, y}
  Parts = {v, w}
  NoAttributes = NoAttributes
  x = x
  y = y
  v = v
  w = w
  MaxConfigs = 3
  MaxMishaps = 1
  StrandingKinds <- Stranding
  LaggingKinds <- Lagging
  PrematureKinds <- Premature
  InterruptedKinds <- Interrupted
  RestlessKinds <- Restless
INVARIANTS
  TypeOK
  NothingStranded
  InForce
  SettlesSoon
PROPERTIES
  ActivatedAsConfigured
  StaysInForce
