\* No edits, no faults: does the operator come to rest?
SPECIFICATION FairSpec
CONSTANTS
  c1 = c1
  c2 = c2
  p1 = p1
  old = old
  new = new
  badModule = badModule
  nas = nas
  nasOther = nasOther
  badIP = badIP
  goodPolicy = goodPolicy
  badStage = badStage
  k1 = k1
  None = None
  Clients = {c1}
  Policies = {p1}
  ClusterSpecs = {old, new}
  ClientSpecs = {nas}
  PolicySpecs = {goodPolicy}
  Secrets = {k1}
  SecretsOf <- MCSecretsOf
  ImageOf <- MCImageOf
  ConfigOf <- MCConfigOf
  TypedInvalid <- MCTypedInvalid
  Unrenderable <- MCUnrenderable
  MaxEdits = 0
  MaxFaults = 0
PROPERTIES
  ComesToRest
\* With the budgets spent the operator may have nothing left to do.
CHECK_DEADLOCK FALSE
