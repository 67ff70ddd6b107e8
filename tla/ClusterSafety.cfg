\* Two edits and a failed call or a restart, at any points of the runs.
SPECIFICATION Spec
CONSTANTS
  c1 = c1
  c2 = c2
  p1 = p1
  old = old
  new = new
  badModule = badModule
  nas = nas
  nasOther = nasOther
  badIP = badIP
  goodPolicy = goodPolicy
  badStage = badStage
  k1 = k1
  None = None
  Clients = {c1, c2}
  Policies = {}
  ClusterSpecs = {old, badModule}
  ClientSpecs = {nas}
  PolicySpecs = {goodPolicy, badStage}
  Secrets = {k1}
  SecretsOf <- MCSecretsOf
  ImageOf <- MCImageOf
  ConfigOf <- MCConfigOf
  TypedInvalid <- MCTypedInvalid
  Unrenderable <- MCUnrenderable
  MaxEdits = 2
  MaxFaults = 1
SYMMETRY Symmetry
INVARIANTS
  TypeOK
  NoLostWakeup
  StaleReadIsFollowedUp
  PublishedSecretsExist
  InvalidSpecReported
\* With the budgets spent the operator may have nothing left to do.
CHECK_DEADLOCK FALSE
