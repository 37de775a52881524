SPECIFICATION Spec
CONSTANTS
  Nodes <- ParkNodes
  Edges <- ParkEdges
  From <- MCFrom
  To <- MCTo
  Handle <- MCHandle
  Kind <- MCKind
  MaxAttempts <- OneAttempt
  TimedGates = {}
  FailRun = TRUE
  Workers = {w1}
  NoNode = NoNode
  Env = {"cancel"}
  MaxFaults = 0
PROPERTY CancelledRunStays
CHECK_DEADLOCK FALSE
