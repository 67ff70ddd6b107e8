\* Convergence with one edit and one failed call or restart.
SPECIFICATION FairSpec
CONSTANTS
  c1 = c1
  c2 = c2
  p1 = p1
  old = old
  new = new
  badModule = badModule
  nas = nas
  nasOther = nasOther
  badIP = badIP
  goodPolicy = goodPolicy
  badStage = badStage
  k1 = k1
  None = None
  Clients = {c1}
  Policies = {p1}
  ClusterSpecs = {old}
  ClientSpecs = {nas, badIP}
  PolicySpecs = {goodPolicy}
  Secrets = {k1}
  SecretsOf <- MCSecretsOf
  ImageOf <- MCImageOf
  ConfigOf <- MCConfigOf
  TypedInvalid <- MCTypedInvalid
  Unrenderable <- MCUnrenderable
  MaxEdits = 1
  MaxFaults = 1
PROPERTIES
  EventuallyApplied
  MissingSecretReported
  StatusRecovers
  DeletedClusterLeavesNothing
  ImplementsPublisher
\* With the budgets spent the operator may have nothing left to do.
CHECK_DEADLOCK FALSE
