\* Three edits of the policy or the clusters, one failed call or restart.
SPECIFICATION FairSpec
CONSTANTS
  a = a
  b = b
  toA = toA
  toB = toB
  badStage = badStage
  None = None
  Clusters = {a, b}
  Specs = {toA, toB, badStage}
  RefOf <- MCRefOf
  RejectedSpecs = {badStage}
  MaxEdits = 3
  MaxFaults = 1
INVARIANTS
  TypeOK
  ConditionsAgreeAtRest
PROPERTIES
  ReadyJudgesTheSpecItIsOn
  ReadyOnceClusterExists
\* With the budgets spent the controller may have nothing left to do.
CHECK_DEADLOCK FALSE
