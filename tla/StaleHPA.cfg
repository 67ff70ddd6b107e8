\* One change of the topology, no failure.
SPECIFICATION Spec
CONSTANTS
  all = all
  auth = auth
  acct = acct
  coa = coa
  plain = plain
  split = split
  splitScaled = splitScaled
  plainScaled = plainScaled
  None = None
  Unified = all
  Auth = auth
  Acct = acct
  CoA = coa
  Specs = {plain, splitScaled}
  UnifiedSpecs <- MCUnifiedSpecs
  ServicesOf <- MCServicesOf
  AutoscaledOf <- MCAutoscaledOf
  ReplicasOf <- MCReplicasOf
  WithPDB <- MCWithPDB
  ScaledTo = {2}
  MaxEdits = 1
  MaxDeletions = 0
  MaxFaults = 0
INVARIANTS
  HPAOnlyIfAutoscaled
\* At rest nothing need be enabled but edits, which are bounded.
CHECK_DEADLOCK FALSE
