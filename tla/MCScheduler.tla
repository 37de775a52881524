---------------------------- MODULE MCScheduler ----------------------------
(***************************************************************************)
(* Small workflow graphs on which TLC checks Scheduler.  An edge is written *)
(* <<from, to, handle>>.                                                   *)
(***************************************************************************)
EXTENDS Scheduler, TLC

MCFrom == [e \in Edges |-> e[1]]
MCTo == [e \in Edges |-> e[2]]
MCHandle == [e \in Edges |-> e[3]]
MCKind ==
  [n \in Nodes |-> IF n = "branch" THEN "branch" ELSE IF n = "gate" THEN "gate" ELSE "task"]

\* The demo workflow's shape: two parents join in a condition whose false port goes
\* to the last step directly and whose true port goes there through a gate.
DemoNodes == {"task", "other", "branch", "gate", "last"}
DemoEdges ==
  {<<"task", "branch", "">>, <<"other", "branch", "">>,
   <<"branch", "gate", "true">>, <<"branch", "last", "false">>, <<"gate", "last", "">>}

\* A task and a condition, both roots, joined in a gate over the false port.
RaceNodes == {"task", "branch", "gate"}
RaceEdges == {<<"task", "gate", "">>, <<"branch", "gate", "false">>}

\* A task, then a gate at the end of the run.
ParkNodes == {"task", "gate"}
ParkEdges == {<<"task", "gate", "">>}

\* The workers are interchangeable: used by the runs that check no liveness.
WorkerSymmetry == Permutations(Workers)

OneAttempt == [n \in Nodes |-> 1]
TaskRetries == [n \in Nodes |-> IF n = "task" THEN 2 ELSE 1]

=============================================================================
