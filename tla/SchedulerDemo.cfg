SPECIFICATION Spec
CONSTANTS
  Nodes <- DemoNodes
  Edges <- DemoEdges
  From <- MCFrom
  To <- MCTo
  Handle <- MCHandle
  Kind <- MCKind
  MaxAttempts <- TaskRetries
  TimedGates = {}
  FailRun = TRUE
  Workers = {w1, w2}
  NoNode = NoNode
  Env = {"crash", "crash_report", "lose_exec", "lose_advance", "signal"}
  MaxFaults = 1
INVARIANTS
  InputsComplete
  OneWorkerPerStep
PROPERTY ImplementsDagRun
SYMMETRY WorkerSymmetry
CHECK_DEADLOCK FALSE
