SPECIFICATION FairSpec
CONSTANTS
  Nodes <- ParkNodes
  Edges <- ParkEdges
  From <- MCFrom
  To <- MCTo
  Handle <- MCHandle
  Kind <- MCKind
  MaxAttempts <- OneAttempt
  TimedGates = {"gate"}
  FailRun = TRUE
  Workers = {w1}
  NoNode = NoNode
  Env = {"crash_report"}
  MaxFaults = 1
PROPERTY EventuallyOver
CHECK_DEADLOCK FALSE
