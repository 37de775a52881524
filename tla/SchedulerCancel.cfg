SPECIFICATION FairSpec
CONSTANTS
  Nodes <- ParkNodes
  Edges <- ParkEdges
  From <- MCFrom
  To <- MCTo
  Handle <- MCHandle
  Kind <- MCKind
  MaxAttempts <- TaskRetries
  TimedGates = {"gate"}
  FailRun = TRUE
  Workers = {w1, w2}
  NoNode = NoNode
  Env = {"cancel", "crash", "crash_report"}
  MaxFaults = 1
PROPERTY EventuallyQuiet
CHECK_DEADLOCK FALSE
