SPECIFICATION Spec
CONSTANTS
  Nodes <- RaceNodes
  Edges <- RaceEdges
  From <- MCFrom
  To <- MCTo
  Handle <- MCHandle
  Kind <- MCKind
  MaxAttempts <- OneAttempt
  TimedGates = {"gate"}
  FailRun = TRUE
  Workers = {w1, w2}
  NoNode = NoNode
  Env = {"slow"}
  MaxFaults = 1
INVARIANTS
  TypeOK
  CounterNeverLow
  JoinClosed
SYMMETRY WorkerSymmetry
CHECK_DEADLOCK FALSE
