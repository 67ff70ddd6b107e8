\* A change of the spec, a deleted object, and a failed call or a restart.
SPECIFICATION FairSpec
CONSTANTS
  all = all
  auth = auth
  acct = acct
  coa = coa
  plain = plain
  split = split
  splitScaled = splitScaled
  plainScaled = plainScaled
  None = None
  Unified = all
  Auth = auth
  Acct = acct
  CoA = coa
  Specs = {plain, split, splitScaled}
  UnifiedSpecs <- MCUnifiedSpecs
  ServicesOf <- MCServicesOf
  AutoscaledOf <- MCAutoscaledOf
  ReplicasOf <- MCReplicasOf
  WithPDB <- MCWithPDB
  ScaledTo = {2}
  MaxEdits = 1
  MaxDeletions = 1
  MaxFaults = 1
INVARIANTS
  TypeOK
  TopologyAtRest
  ReplicasAtRest
PROPERTIES
  ReplacementCreatedFirst
  TopologyConverges
\* At rest nothing need be enabled but edits, which are bounded.
CHECK_DEADLOCK FALSE
