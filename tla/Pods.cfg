\* Pods that come and go while objects and Secrets are edited.
SPECIFICATION FairSpec
CONSTANTS
  c1 = c1
  c2 = c2
  p1 = p1
  p2 = p2
  dbSecret = dbSecret
  newDbSecret = newDbSecret
  nasSecret = nasSecret
  newNasSecret = newNasSecret
  None = None
  Pieces <- MCPieces
  APIOrder <- MCOrder
  Inputs <- MCInputs
  Starts <- MCStarts
  Edited <- MCEdited
  Contents <- MCContents
  Secrets <- MCSecrets
  Replicas = 1
  MaxEvents <- MCMaxEvents
INVARIANTS
  TypeOK
  VerdictByElement
  SitesIgnoreListing
  ModulesLoaded
  PodsMatchInputs
  PasswordsMounted
  ClientsMounted
PROPERTIES
  PodsConverge
\* With the events spent and all pods up nothing may be left to do.
CHECK_DEADLOCK FALSE
