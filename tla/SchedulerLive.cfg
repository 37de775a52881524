SPECIFICATION FairSpec
CONSTANTS
  Nodes <- DemoNodes
  Edges <- DemoEdges
  From <- MCFrom
  To <- MCTo
  Handle <- MCHandle
  Kind <- MCKind
  MaxAttempts <- OneAttempt
  TimedGates = {"gate"}
  FailRun = FALSE
  Workers = {w1, w2}
  NoNode = NoNode
  Env = {"crash", "lose_exec"}
  MaxFaults = 1
INVARIANT NeverStranded
PROPERTY EventuallyOver
