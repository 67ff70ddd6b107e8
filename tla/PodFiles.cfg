\* One start with odd names of modules and a Secret without its key.
SPECIFICATION Spec
CONSTANTS
  c1 = c1
  c2 = c2
  p1 = p1
  p2 = p2
  dbSecret = dbSecret
  newDbSecret = newDbSecret
  nasSecret = nasSecret
  newNasSecret = newNasSecret
  None = None
  Pieces <- MCPieces
  APIOrder <- MCOrder
  Inputs <- OddNames
  Starts <- OddNames
  Edited <- MCEdited
  Contents <- MCContents
  Secrets <- KeyMissing
  Replicas = 1
  MaxEvents <- NoEvent
INVARIANTS
  PodsAsRendered
\* Once all pods are up the model stops.
CHECK_DEADLOCK FALSE
