\* The content of a Secret changes under a running pod.
SPECIFICATION FairSpec
CONSTANTS
  c1 = c1
  c2 = c2
  p1 = p1
  p2 = p2
  dbSecret = dbSecret
  newDbSecret = newDbSecret
  nasSecret = nasSecret
  newNasSecret = newNasSecret
  None = None
  Pieces <- MCPieces
  APIOrder <- MCOrder
  Inputs <- MCInputs
  Starts <- OneStart
  Edited <- MCEdited
  Contents <- MCContents
  Secrets <- MCSecrets
  Replicas = 1
  MaxEvents <- OneEvent
PROPERTIES
  RotationReachesPods
\* Once its event is spent the model stops.
CHECK_DEADLOCK FALSE
