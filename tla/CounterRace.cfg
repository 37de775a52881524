SPECIFICATION Spec
CONSTANTS
  Nodes <- RaceNodes
  Edges <- RaceEdges
  From <- MCFrom
  To <- MCTo
  Handle <- MCHandle
  Kind <- MCKind
  MaxAttempts <- OneAttempt
  TimedGates = {"gate"}
  FailRun = TRUE
  Workers = {w1, w2}
  NoNode = NoNode
  Env = {}
  MaxFaults = 0
INVARIANT NeverStranded
CHECK_DEADLOCK FALSE
