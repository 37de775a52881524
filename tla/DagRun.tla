------------------------------- MODULE DagRun -------------------------------
(***************************************************************************)
(* What one workflow run promises, without steps, leases, queues or        *)
(* counters.  The nodes of an acyclic graph are opened for work, finish    *)
(* well or badly, or are skipped; a finishing node may prune some of its   *)
(* outgoing edges; the run ends when every node is done.                   *)
(*                                                                         *)
(* Scheduler.tla implements this specification.                            *)
(***************************************************************************)
CONSTANTS
  Nodes,   \* the nodes of the graph
  Edges,   \* its edges
  From,    \* From[e] is the node the edge e leaves
  To,      \* To[e] is the node the edge e enters
  FailRun  \* whether one failed node fails the whole run

VARIABLES
  phase,   \* phase[n]: "blocked", "open", "ok", "bad" or "skipped"
  pruned,  \* the edges that carry nothing any more
  outcome  \* "open", then "completed" or "failed"

vars == <<phase, pruned, outcome>>

Incoming(n) == {e \in Edges : To[e] = n}
Outgoing(n) == {e \in Edges : From[e] = n}

TypeOK ==
  /\ phase \in [Nodes -> {"blocked", "open", "ok", "bad", "skipped"}]
  /\ pruned \subseteq Edges
  /\ outcome \in {"open", "completed", "failed"}

Init ==
  /\ phase = [n \in Nodes |-> "blocked"]
  /\ pruned = {}
  /\ outcome = "open"

Done == {"ok", "bad", "skipped"}

(***************************************************************************)
(* With the phases ph, a node may be worked on if every parent it still    *)
(* listens to is done and one of them did well.  A root listens to nobody. *)
(***************************************************************************)
MayOpen(n, ph) ==
  LET heard == Incoming(n) \ pruned
  IN \/ Incoming(n) = {}
     \/ /\ \A e \in heard : ph[From[e]] \in Done
        /\ \E e \in heard : ph[From[e]] = "ok"

(***************************************************************************)
(* A node is given up only when nothing can reach it any more.             *)
(***************************************************************************)
MayBeSkipped(n, ph) ==
  /\ Incoming(n) # {}
  /\ \A e \in Incoming(n) \ pruned : ph[From[e]] \in {"bad", "skipped"}

Verdict(ph) ==
  IF FailRun /\ \E n \in Nodes : ph[n] = "bad" THEN "failed" ELSE "completed"

FinishWell(n) ==
  /\ phase[n] = "open"
  /\ phase' = [phase EXCEPT ![n] = "ok"]
  /\ \E dead \in SUBSET Outgoing(n) : pruned' = pruned \cup dead
  /\ UNCHANGED outcome

FinishBadly(n) ==
  /\ phase[n] = "open"
  /\ phase' = [phase EXCEPT ![n] = "bad"]
  /\ UNCHANGED <<pruned, outcome>>

(***************************************************************************)
(* One scheduling decision: any number of blocked nodes are opened or      *)
(* skipped, each for a reason that holds once the decision is taken, and   *)
(* the run may be closed if that leaves every node done.                   *)
(***************************************************************************)
Decide ==
  /\ \E given_up \in SUBSET {n \in Nodes : phase[n] = "blocked"} :
     \E opened \in SUBSET {n \in Nodes \ given_up : phase[n] = "blocked"} :
        /\ phase' = [n \in Nodes |-> IF n \in opened THEN "open"
                                     ELSE IF n \in given_up THEN "skipped"
                                     ELSE phase[n]]
        /\ \A n \in opened : MayOpen(n, phase')
        /\ \A n \in given_up : MayBeSkipped(n, phase')
  /\ \/ UNCHANGED outcome
     \/ /\ \A n \in Nodes : phase'[n] \in Done
        /\ outcome' = Verdict(phase')
  /\ UNCHANGED pruned

Next ==
  /\ outcome = "open"
  /\ \/ \E n \in Nodes : FinishWell(n) \/ FinishBadly(n)
     \/ Decide

Spec == Init /\ [][Next]_vars

=============================================================================
