----------------------------- MODULE Scheduler -----------------------------
(***************************************************************************)
(* execution-engine-v2: how one workflow run is carried out by stateless   *)
(* Celery workers over a Postgres database and a Redis queue.              *)
(*                                                                         *)
(* The variables are the rows of workflow_runs, run_steps, step_deps and   *)
(* run_events of ONE run, the two kinds of queued messages, and what each  *)
(* process has read but not written back yet.  An action is one database   *)
(* transaction, or the read half or the write half of a transaction that   *)
(* reads rows without locking them and later writes values computed from   *)
(* them (READ COMMITTED, absolute values, changed columns only).           *)
(***************************************************************************)
EXTENDS Integers, FiniteSets

CONSTANTS
  Nodes,        \* the nodes of the workflow graph, one run_steps row each
  Edges,        \* its edges, one step_deps row each
  From, To,     \* the end points of an edge
  Handle,       \* the output port an edge leaves from
  Kind,         \* Kind[n]: "task", "branch" (condition) or "gate" (completeness_gate)
  MaxAttempts,  \* MaxAttempts[n]: the node's max_attempts
  TimedGates,   \* the gates configured with timeout_days
  FailRun,      \* fail_policy = "fail_run"
  Workers,      \* the Celery worker processes
  NoNode,       \* not a node: the job of an idle worker
  Env,          \* what the environment may do besides running the program
  MaxFaults     \* bound: how many faults it may inject in all

Faults == {"crash", "crash_report", "lose_exec", "lose_advance", "slow"}
Requests == {"signal", "cancel"}

(***************************************************************************)
(* What validate_graph accepts: some node, known node types, no dangling   *)
(* edge, no cycle; and what start_run stores: at least one attempt.        *)
(***************************************************************************)
ASSUME GraphAssumption ==
  /\ Nodes # {} /\ IsFiniteSet(Nodes) /\ IsFiniteSet(Edges)
  /\ From \in [Edges -> Nodes] /\ To \in [Edges -> Nodes]
  /\ Handle \in [Edges -> {"", "true", "false"}]
  /\ Kind \in [Nodes -> {"task", "branch", "gate"}]
  /\ MaxAttempts \in [Nodes -> Nat \ {0}]
  /\ TimedGates \subseteq {n \in Nodes : Kind[n] = "gate"}

ASSUME AcyclicAssumption ==
  \E rank \in [Nodes -> 1 .. Cardinality(Nodes)] :
    \A e \in Edges : rank[From[e]] < rank[To[e]]

ASSUME EnvAssumption ==
  /\ NoNode \notin Nodes
  /\ FailRun \in BOOLEAN
  /\ Env \subseteq Faults \cup Requests
  /\ MaxFaults \in Nat

VARIABLES
  run,             \* workflow_runs.status
  status,          \* run_steps.status; "absent" before start_run wrote the row
  attempt,         \* run_steps.attempt
  deps_remaining,  \* run_steps.deps_remaining, the join counter
  inputs,          \* run_steps.inputs: the parents whose output was merged
  live,            \* the edges with step_deps.live
  satisfied,       \* the edges with step_deps.satisfied
  expired,         \* the steps whose lease_expires_at has passed
  armed,           \* the steps with an armed run_events row
  late,            \* the timed gates whose deadline has passed
  execQ,           \* queued execute_step messages, by step
  advQ,            \* queued advance_run messages, by the step that sent them
  pc, job,         \* per worker: where it is in execute_step, and for which step
  prune,           \* per worker: what the commit of a Branch has read
  adv,             \* the advance_run transaction that holds the advisory lock
  sweep,           \* the reconciler transaction
  signal,          \* the signal_event transaction
  cancel,          \* the cancel_run transaction
  faults           \* how many faults have happened

rows == <<status, attempt, deps_remaining, inputs, live, satisfied, expired, armed>>
queues == <<execQ, advQ>>
worker == <<pc, job, prune>>
others == <<adv, sweep, signal, cancel>>
vars == <<run, rows, late, queues, worker, others, faults>>

RunTerminal == {"completed", "failed", "cancelled"}
RunStatus == {"pending", "running", "waiting"} \cup RunTerminal
Terminal == {"succeeded", "failed", "skipped", "cancelled"}
Active == {"pending", "ready", "running"}
StepStatus == {"absent", "waiting"} \cup Terminal \cup Active

Incoming(n) == {e \in Edges : To[e] = n}
Outgoing(n) == {e \in Edges : From[e] = n}
Roots == {n \in Nodes : Incoming(n) = {}}

Minus(a, b) == IF a > b THEN a - b ELSE 0    \* max(0, a - b)

NoPrune == [dead |-> {}, left |-> [n \in Nodes |-> 0], hit |-> {}]
NoAdvance == [pc |-> "idle", run |-> "pending", live |-> {},
              status |-> [n \in Nodes |-> "absent"], left |-> [n \in Nodes |-> 0]]
NoSweep == [pc |-> "idle", reclaim |-> {}, due |-> {}, wake |-> {}]
NoSignal == [pc |-> "idle", events |-> {}, wake |-> {}]
NoCancel == [pc |-> "idle", steps |-> {}, events |-> {}]

(***************************************************************************)
(* The run row exists with status pending; the rows start_run will add are *)
(* absent and already hold the values it creates them with.                *)
(***************************************************************************)
Init ==
  /\ run = "pending"
  /\ status = [n \in Nodes |-> "absent"]
  /\ attempt = [n \in Nodes |-> 1]
  /\ deps_remaining = [n \in Nodes |-> Cardinality(Incoming(n))]
  /\ inputs = [n \in Nodes |-> {}]
  /\ live = Edges
  /\ satisfied = {}
  /\ expired = {} /\ armed = {} /\ late = {}
  /\ execQ = {} /\ advQ = {}
  /\ pc = [w \in Workers |-> "idle"]
  /\ job = [w \in Workers |-> NoNode]
  /\ prune = [w \in Workers |-> NoPrune]
  /\ adv = NoAdvance /\ sweep = NoSweep /\ signal = NoSignal /\ cancel = NoCancel
  /\ faults = 0

(***************************************************************************)
(* start_run: materialize the graph, commit, enqueue the roots.  The run   *)
(* row is written without looking at its status.                           *)
(***************************************************************************)
StartRun ==
  /\ \A n \in Nodes : status[n] = "absent"
  /\ status' = [n \in Nodes |-> IF n \in Roots THEN "ready" ELSE "pending"]
  /\ run' = IF Roots = {} THEN "pending" ELSE "running"
  /\ execQ' = execQ \cup Roots
  /\ UNCHANGED <<attempt, deps_remaining, inputs, live, satisfied, expired, armed,
                 late, advQ, worker, others, faults>>

----------------------------------------------------------------------------
(***************************************************************************)
(* execute_step: claim, set up, run the handler outside any transaction,   *)
(* commit what it returned, then enqueue the follow-up messages.           *)
(***************************************************************************)
Goto(w, l) == pc' = [pc EXCEPT ![w] = l]

\* Variant with a bug: the compare-and-set on the status is gone.
ClaimWithoutCheck(w, n) ==
  /\ pc[w] = "idle"
  /\ n \in execQ
  /\ status[n] \in {"ready", "running"}
  /\ status' = [status EXCEPT ![n] = "running"]
  /\ expired' = expired \ {n}
  /\ execQ' = execQ \ {n}
  /\ Goto(w, "claimed")
  /\ job' = [job EXCEPT ![w] = n]
  /\ UNCHANGED <<run, attempt, deps_remaining, inputs, live, satisfied, armed, late,
                 advQ, prune, others, faults>>

ClaimReadyStep(w, n) ==
  /\ pc[w] = "idle"
  /\ n \in execQ
  /\ status[n] = "ready"
  /\ status' = [status EXCEPT ![n] = "running"]
  /\ expired' = expired \ {n}
  /\ execQ' = execQ \ {n}
  /\ Goto(w, "claimed")
  /\ job' = [job EXCEPT ![w] = n]
  /\ UNCHANGED <<run, attempt, deps_remaining, inputs, live, satisfied, armed, late,
                 advQ, prune, others, faults>>

\* A message that lost the claim race is dropped, and nothing else happens.
LoseClaim(w, n) ==
  /\ pc[w] = "idle"
  /\ n \in execQ
  /\ status[n] # "ready"
  /\ execQ' = execQ \ {n}
  /\ UNCHANGED <<run, rows, late, advQ, worker, others, faults>>

\* The run was cancelled before the handler started.
SetUpCancelled(w) ==
  /\ pc[w] = "claimed"
  /\ run = "cancelled"
  /\ status' = [status EXCEPT ![job[w]] = "cancelled"]
  /\ Goto(w, "reporting")
  /\ UNCHANGED <<run, attempt, deps_remaining, inputs, live, satisfied, expired, armed,
                 late, queues, job, prune, others, faults>>

SetUp(w) ==
  /\ pc[w] = "claimed"
  /\ run # "cancelled"
  /\ Goto(w, IF run \in {"pending", "waiting"} THEN "resuming" ELSE "handling")
  /\ UNCHANGED <<run, rows, late, queues, job, prune, others, faults>>

\* Writes the decision SetUp took on the status it read.
ResumeRun(w) ==
  /\ pc[w] = "resuming"
  /\ run' = "running"
  /\ Goto(w, "handling")
  /\ UNCHANGED <<rows, late, queues, job, prune, others, faults>>

\* Every commit below writes the status column whatever it holds by now.
Commit(w, s) ==
  /\ status' = [status EXCEPT ![job[w]] = s]
  /\ Goto(w, "reporting")

CommitOutput(w) ==
  /\ pc[w] = "handling"
  /\ Kind[job[w]] # "branch"
  /\ Commit(w, "succeeded")
  /\ UNCHANGED <<run, attempt, deps_remaining, inputs, live, satisfied, expired, armed,
                 late, queues, job, prune, others, faults>>

\* completeness_gate finds a document missing and its deadline, if any, still ahead.
MaySuspend(n) == Kind[n] = "gate" /\ n \notin late

\* Adds an armed event.  What a wakeup or a cancellation in flight has read of the
\* step's events are older rows: its write leaves the new row alone.
CommitSuspend(w) ==
  /\ pc[w] = "handling"
  /\ MaySuspend(job[w])
  /\ Commit(w, "waiting")
  /\ armed' = armed \cup {job[w]}
  /\ sweep' = [sweep EXCEPT !.due = @ \ {job[w]}]
  /\ signal' = [signal EXCEPT !.events = @ \ {job[w]}]
  /\ cancel' = [cancel EXCEPT !.events = @ \ {job[w]}]
  /\ UNCHANGED <<run, attempt, deps_remaining, inputs, live, satisfied, expired,
                 late, queues, job, prune, adv, faults>>

\* condition evaluates to one of them, which stays live.
Ports == {"true", "false"}

\* The commit of a Branch reads the outgoing edges and the counters of the
\* successors it is about to lower ...
CommitBranchRead(w) ==
  /\ pc[w] = "handling"
  /\ Kind[job[w]] = "branch"
  /\ \E h \in Ports :
       LET dead == {e \in Outgoing(job[w]) : Handle[e] # h}
           counted(t) == {e \in dead : To[e] = t /\ e \in live /\ e \notin satisfied}
       IN prune' = [prune EXCEPT ![w] =
            [dead |-> dead,
             left |-> [t \in Nodes |-> Minus(deps_remaining[t], Cardinality(counted(t)))],
             hit  |-> {t \in Nodes : counted(t) # {} /\ deps_remaining[t] > 0}]]
  /\ Goto(w, "pruning")
  /\ UNCHANGED <<run, rows, late, queues, job, others, faults>>

\* ... and writes them back as absolute values.
CommitBranchWrite(w) ==
  /\ pc[w] = "pruning"
  /\ Commit(w, "succeeded")
  /\ live' = live \ prune[w].dead
  /\ deps_remaining' = [t \in Nodes |-> IF t \in prune[w].hit THEN prune[w].left[t]
                                        ELSE deps_remaining[t]]
  /\ prune' = [prune EXCEPT ![w] = NoPrune]
  /\ UNCHANGED <<run, attempt, inputs, satisfied, expired, armed,
                 late, queues, job, others, faults>>

\* StepFailed (definitive at any attempt), or an exception on the last attempt.
FailStep(w) ==
  /\ pc[w] = "handling"
  /\ Commit(w, "failed")
  /\ UNCHANGED <<run, attempt, deps_remaining, inputs, live, satisfied, expired, armed,
                 late, queues, job, prune, others, faults>>

\* Variant with a bug: one attempt too many.
RetryOnceMore(w) ==
  /\ pc[w] = "handling"
  /\ attempt[job[w]] <= MaxAttempts[job[w]]
  /\ attempt' = [attempt EXCEPT ![job[w]] = @ + 1]
  /\ Commit(w, "ready")
  /\ expired' = expired \ {job[w]}
  /\ UNCHANGED <<run, deps_remaining, inputs, live, satisfied, armed,
                 late, queues, job, prune, others, faults>>

RetryStep(w) ==
  /\ pc[w] = "handling"
  /\ attempt[job[w]] < MaxAttempts[job[w]]
  /\ attempt' = [attempt EXCEPT ![job[w]] = @ + 1]
  /\ Commit(w, "ready")
  /\ expired' = expired \ {job[w]}
  /\ UNCHANGED <<run, deps_remaining, inputs, live, satisfied, armed,
                 late, queues, job, prune, others, faults>>

\* check_cancelled raised CancelledError: the one commit that looks first.
AbandonStep(w) ==
  /\ pc[w] = "handling"
  /\ Kind[job[w]] = "task"
  /\ run = "cancelled"
  /\ Commit(w, IF status[job[w]] \in Terminal THEN status[job[w]] ELSE "cancelled")
  /\ UNCHANGED <<run, attempt, deps_remaining, inputs, live, satisfied, expired, armed,
                 late, queues, job, prune, others, faults>>

Report(w) ==
  /\ pc[w] = "reporting"
  /\ execQ' = IF status[job[w]] = "ready" THEN execQ \cup {job[w]} ELSE execQ
  /\ advQ' = advQ \cup {job[w]}
  /\ Goto(w, "idle")
  /\ job' = [job EXCEPT ![w] = NoNode]
  /\ UNCHANGED <<run, rows, late, prune, others, faults>>

----------------------------------------------------------------------------
(***************************************************************************)
(* advance_run: takes the advisory lock, reads the run, then the steps,    *)
(* then the edges, works on them in memory, and writes what changed.       *)
(***************************************************************************)
AdvanceReturn ==
  /\ adv.pc = "idle"
  /\ run \in RunTerminal
  /\ \E n \in advQ : advQ' = advQ \ {n}
  /\ UNCHANGED <<run, rows, late, execQ, worker, others, faults>>

AdvanceLock ==
  /\ adv.pc = "idle"
  /\ run \notin RunTerminal
  /\ \E n \in advQ : advQ' = advQ \ {n}
  /\ adv' = [adv EXCEPT !.pc = "locked", !.run = run]
  /\ UNCHANGED <<run, rows, late, execQ, worker, sweep, signal, cancel, faults>>

AdvanceReadSteps ==
  /\ adv.pc = "locked"
  /\ adv' = [adv EXCEPT !.pc = "steps", !.status = status, !.left = deps_remaining]
  /\ UNCHANGED <<run, rows, late, queues, worker, sweep, signal, cancel, faults>>

AdvanceReadDeps ==
  /\ adv.pc = "steps"
  /\ adv' = [adv EXCEPT !.pc = "deps", !.live = live]
  /\ UNCHANGED <<run, rows, late, queues, worker, sweep, signal, cancel, faults>>

\* The in-memory statuses once the steps in skips are skipped.
Skipping(skips) == [n \in Nodes |-> IF n \in skips THEN "skipped" ELSE adv.status[n]]

LiveIn(n) == Incoming(n) \cap adv.live

\* Edges satisfied by now: those that were, and those whose parent is terminal.
SatisfiedBy(st) == satisfied \cup {e \in Edges : st[From[e]] \in Terminal}

\* Variant with a bug: pruned edges deliver too.
DeliveredOverAnyEdge(n, st) ==
  \E e \in Incoming(n) : e \in SatisfiedBy(st) /\ st[From[e]] = "succeeded"

\* Some live edge delivered an output.
Delivered(n, st) ==
  \E e \in LiveIn(n) : e \in SatisfiedBy(st) /\ st[From[e]] = "succeeded"

\* Variant with a bug: does not wait for the parents still at work.
MustSkipEarly(n, st) ==
  /\ adv.status[n] = "pending"
  /\ Incoming(n) # {}
  /\ ~ Delivered(n, st)

\* A pending non-root step that can never receive a live, delivered input.
MustSkip(n, st) ==
  /\ adv.status[n] = "pending"
  /\ Incoming(n) # {}
  /\ LiveIn(n) \subseteq SatisfiedBy(st)
  /\ ~ Delivered(n, st)

\* The loop stops when satisfying edges and skipping steps changes nothing more.
IsFixpoint(skips) == skips = {n \in Nodes : MustSkip(n, Skipping(skips))}

\* Variant with a bug: counts again the edges an earlier transaction satisfied.
SatisfiedAgain(n, st) == LiveIn(n) \cap SatisfiedBy(st)

\* The live edges to n that this transaction satisfies, and the counter they leave.
NewlySatisfied(n, st) == (LiveIn(n) \cap SatisfiedBy(st)) \ satisfied
\* Variant with a bug: a parent that failed or was skipped is not counted off.
LeftWithoutFailures(n, st) ==
  Minus(adv.left[n],
        Cardinality({e \in NewlySatisfied(n, st) : st[From[e]] = "succeeded"}))

LeftAt(n, st) == Minus(adv.left[n], Cardinality(NewlySatisfied(n, st)))

\* Variant with a bug: readies a join at its first delivered input.
MayReadyEarly(n, st) ==
  /\ st[n] = "pending"
  /\ Incoming(n) = {} \/ Delivered(n, st)

MayReady(n, st) ==
  /\ st[n] = "pending"
  /\ LeftAt(n, st) = 0
  /\ Incoming(n) = {} \/ Delivered(n, st)

\* What the completion rule makes of the run, given the statuses to be written.
RunOutcome(st) ==
  LET has(S) == \E n \in Nodes : st[n] \in S
  IN IF has(Active) THEN IF adv.run \in {"pending", "waiting"} THEN "running" ELSE adv.run
     ELSE IF has({"waiting"}) THEN "waiting"
     ELSE IF has({"failed"}) /\ FailRun THEN "failed"
     ELSE "completed"

AdvanceCommit ==
  /\ adv.pc = "deps"
  /\ \E skips \in SUBSET {n \in Nodes : adv.status[n] = "pending"} :
       LET st    == Skipping(skips)
           ready == {n \in Nodes : MayReady(n, st)}
           final == [n \in Nodes |-> IF n \in ready THEN "ready" ELSE st[n]]
       IN /\ IsFixpoint(skips)
          /\ status' = [n \in Nodes |-> IF n \in skips \cup ready THEN final[n]
                                        ELSE status[n]]
          /\ deps_remaining' = [n \in Nodes |->
               IF LeftAt(n, st) # adv.left[n] THEN LeftAt(n, st) ELSE deps_remaining[n]]
          /\ inputs' = [n \in Nodes |-> inputs[n] \cup
               {From[e] : e \in {d \in NewlySatisfied(n, st) : st[From[d]] = "succeeded"}}]
          /\ satisfied' = SatisfiedBy(st)
          /\ run' = IF RunOutcome(final) # adv.run THEN RunOutcome(final) ELSE run
          /\ execQ' = execQ \cup ready
  /\ adv' = NoAdvance
  /\ UNCHANGED <<attempt, live, expired, armed, late, advQ, worker,
                 sweep, signal, cancel, faults>>

----------------------------------------------------------------------------
(***************************************************************************)
(* The reconciler.  The first transaction reads the expired leases and the *)
(* due timers, then writes; one that finds neither writes nothing and is   *)
(* left out.  The second re-enqueues every ready step.                     *)
(***************************************************************************)
SweepRead ==
  LET reclaim == {n \in expired : status[n] = "running"}
      due     == armed \cap late
  IN /\ sweep.pc = "idle"
     /\ reclaim \cup due # {}
     /\ sweep' = [pc |-> "writing", reclaim |-> reclaim, due |-> due,
                  wake |-> {n \in due : status[n] = "waiting"}]
     /\ UNCHANGED <<run, rows, late, queues, worker, adv, signal, cancel, faults>>

SweepWrite ==
  /\ sweep.pc = "writing"
  /\ status' = [n \in Nodes |-> IF n \in sweep.reclaim \cup sweep.wake THEN "ready"
                                ELSE status[n]]
  /\ expired' = expired \ sweep.reclaim
  /\ armed' = armed \ sweep.due
  /\ sweep' = NoSweep
  /\ UNCHANGED <<run, attempt, deps_remaining, inputs, live, satisfied, late,
                 queues, worker, adv, signal, cancel, faults>>

\* Variant with a bug: only looks for what the lease sweep put back.
FindReclaimedOnly ==
  LET ready == {n \in Nodes : status[n] = "ready" /\ n \in expired}
  IN /\ sweep.pc = "idle"
     /\ ~ ready \subseteq execQ
     /\ execQ' = execQ \cup ready
     /\ UNCHANGED <<run, rows, late, advQ, worker, others, faults>>

FindStrandedReady ==
  LET ready == {n \in Nodes : status[n] = "ready"}
  IN /\ sweep.pc = "idle"
     /\ ~ ready \subseteq execQ
     /\ execQ' = execQ \cup ready
     /\ UNCHANGED <<run, rows, late, advQ, worker, others, faults>>

(***************************************************************************)
(* signal_event("document_added", case): every gate of the run waits for   *)
(* the same case, so one signal matches every armed event.                 *)
(***************************************************************************)
SignalRead ==
  /\ "signal" \in Env
  /\ signal.pc = "idle"
  /\ armed # {}
  /\ signal' = [pc |-> "writing", events |-> armed,
                wake |-> {n \in armed : status[n] = "waiting"}]
  /\ UNCHANGED <<run, rows, late, queues, worker, adv, sweep, cancel, faults>>

SignalWrite ==
  /\ signal.pc = "writing"
  /\ armed' = armed \ signal.events
  /\ status' = [n \in Nodes |-> IF n \in signal.wake THEN "ready" ELSE status[n]]
  /\ execQ' = execQ \cup signal.wake
  /\ signal' = NoSignal
  /\ UNCHANGED <<run, attempt, deps_remaining, inputs, live, satisfied, expired, late,
                 advQ, worker, adv, sweep, cancel, faults>>

(***************************************************************************)
(* cancel_run reads the run, its unfinished steps and its armed events,    *)
(* then writes all of them.  Bound: one cancellation per run.              *)
(***************************************************************************)
\* Variant with a bug: forgets the parked steps.
CancelReadActive ==
  /\ "cancel" \in Env
  /\ cancel.pc = "idle"
  /\ run \notin RunTerminal
  /\ cancel' = [pc |-> "writing", events |-> armed,
                steps |-> {n \in Nodes : status[n] \in Active}]
  /\ UNCHANGED <<run, rows, late, queues, worker, adv, sweep, signal, faults>>

CancelRead ==
  /\ "cancel" \in Env
  /\ cancel.pc = "idle"
  /\ run \notin RunTerminal
  /\ cancel' = [pc |-> "writing", events |-> armed,
                steps |-> {n \in Nodes : status[n] \in Active \cup {"waiting"}}]
  /\ UNCHANGED <<run, rows, late, queues, worker, adv, sweep, signal, faults>>

CancelWrite ==
  /\ cancel.pc = "writing"
  /\ run' = "cancelled"
  /\ status' = [n \in Nodes |-> IF n \in cancel.steps THEN "cancelled" ELSE status[n]]
  /\ armed' = armed \ cancel.events
  /\ cancel' = [NoCancel EXCEPT !.pc = "done"]
  /\ UNCHANGED <<attempt, deps_remaining, inputs, live, satisfied, expired, late,
                 queues, worker, adv, sweep, signal, faults>>

----------------------------------------------------------------------------
(***************************************************************************)
(* Time, and what can go wrong.                                            *)
(***************************************************************************)
Holds(w, n) == job[w] = n /\ pc[w] \in {"claimed", "resuming", "handling", "pruning"}

\* created_at + timeout_days has passed.
DeadlinePasses(n) ==
  /\ n \in TimedGates \ late
  /\ status[n] # "absent"
  /\ late' = late \cup {n}
  /\ UNCHANGED <<run, rows, queues, worker, others, faults>>

\* LEASE_TTL has passed and the step is still running because its worker died.
LeaseExpires(n) ==
  /\ status[n] = "running"
  /\ n \notin expired
  /\ \A w \in Workers : ~ Holds(w, n)
  /\ expired' = expired \cup {n}
  /\ UNCHANGED <<run, status, attempt, deps_remaining, inputs, live, satisfied, armed,
                 late, queues, worker, others, faults>>

Fault(f) ==
  /\ f \in Env
  /\ faults < MaxFaults
  /\ faults' = faults + 1

\* LEASE_TTL has passed while a slow handler is still at work.
LeaseExpiresOnLiveWorker(n) ==
  /\ Fault("slow")
  /\ status[n] = "running"
  /\ n \notin expired
  /\ \E w \in Workers : Holds(w, n)
  /\ expired' = expired \cup {n}
  /\ UNCHANGED <<run, status, attempt, deps_remaining, inputs, live, satisfied, armed,
                 late, queues, worker, others>>

Dies(w) ==
  /\ Goto(w, "idle")
  /\ job' = [job EXCEPT ![w] = NoNode]
  /\ prune' = [prune EXCEPT ![w] = NoPrune]
  /\ execQ' \in {execQ, execQ \cup {job[w]}}    \* acks_late may redeliver the message
  /\ UNCHANGED <<run, rows, late, advQ, others>>

\* A worker dies before its commit ...
Crash(w) ==
  /\ Fault("crash")
  /\ pc[w] \in {"claimed", "resuming", "handling", "pruning"}
  /\ Dies(w)

\* ... or after it, before the follow-up messages are sent.
CrashReporting(w) ==
  /\ Fault("crash_report")
  /\ pc[w] = "reporting"
  /\ Dies(w)

LoseExec(n) ==
  /\ Fault("lose_exec")
  /\ n \in execQ
  /\ execQ' = execQ \ {n}
  /\ UNCHANGED <<run, rows, late, advQ, worker, others>>

LoseAdvance(n) ==
  /\ Fault("lose_advance")
  /\ n \in advQ
  /\ advQ' = advQ \ {n}
  /\ UNCHANGED <<run, rows, late, execQ, worker, others>>

(***************************************************************************)
(* The run is over and nothing is left to do: the only way to stop.        *)
(***************************************************************************)
Finished ==
  /\ run \in RunTerminal
  /\ \A w \in Workers : pc[w] = "idle"
  /\ {adv.pc, sweep.pc, signal.pc} = {"idle"} /\ cancel.pc # "writing"
  /\ execQ = {} /\ advQ = {}

Rest == Finished /\ UNCHANGED vars

----------------------------------------------------------------------------
WorkerStep(w) ==
  \/ \E n \in Nodes : ClaimReadyStep(w, n) \/ LoseClaim(w, n)
  \/ SetUpCancelled(w) \/ SetUp(w) \/ ResumeRun(w)
  \/ CommitOutput(w) \/ CommitSuspend(w) \/ CommitBranchRead(w) \/ CommitBranchWrite(w)
  \/ FailStep(w) \/ RetryStep(w) \/ AbandonStep(w)
  \/ Report(w)

AdvanceStep ==
  AdvanceReturn \/ AdvanceLock \/ AdvanceReadSteps \/ AdvanceReadDeps \/ AdvanceCommit

SweepStep == SweepRead \/ SweepWrite

FaultStep ==
  \/ \E n \in Nodes : LeaseExpiresOnLiveWorker(n) \/ LoseExec(n) \/ LoseAdvance(n)
  \/ \E w \in Workers : Crash(w) \/ CrashReporting(w)

Next ==
  \/ StartRun
  \/ \E w \in Workers : WorkerStep(w)
  \/ AdvanceStep
  \/ SweepStep \/ FindStrandedReady
  \/ SignalRead \/ SignalWrite
  \/ CancelRead \/ CancelWrite
  \/ \E n \in Nodes : DeadlinePasses(n) \/ LeaseExpires(n)
  \/ FaultStep
  \/ Rest

Spec == Init /\ [][Next]_vars

(***************************************************************************)
(* Workers keep taking messages and handlers return, a queued message is   *)
(* delivered, beat keeps firing the sweep, and time passes.  Nobody has to *)
(* signal or cancel, and faults need not happen.                           *)
(***************************************************************************)
Fairness ==
  /\ WF_vars(StartRun)
  /\ \A w \in Workers : WF_vars(WorkerStep(w))
  /\ WF_vars(AdvanceStep)
  /\ WF_vars(SweepStep) /\ WF_vars(FindStrandedReady)
  /\ WF_vars(SignalWrite) /\ WF_vars(CancelWrite)
  /\ \A n \in Nodes : WF_vars(DeadlinePasses(n)) /\ WF_vars(LeaseExpires(n))

FairSpec == Spec /\ Fairness

----------------------------------------------------------------------------
(***************************************************************************)
(* Properties.                                                             *)
(***************************************************************************)
PruneType == [dead : SUBSET Edges, left : [Nodes -> Nat], hit : SUBSET Nodes]
AdvanceType ==
  [pc : {"idle", "locked", "steps", "deps"}, run : RunStatus, live : SUBSET Edges,
   status : [Nodes -> StepStatus], left : [Nodes -> Nat]]
SweepType == [pc : {"idle", "writing"}, reclaim : SUBSET Nodes, due : SUBSET Nodes,
              wake : SUBSET Nodes]
SignalType == [pc : {"idle", "writing"}, events : SUBSET Nodes, wake : SUBSET Nodes]
CancelType == [pc : {"idle", "writing", "done"}, steps : SUBSET Nodes,
               events : SUBSET Nodes]
WorkerPc == {"idle", "claimed", "resuming", "handling", "pruning", "reporting"}

\* Every row, message and local snapshot holds a value the code can store there; a
\* worker has a job exactly while it is busy (models/run_step.py, tasks.py).
TypeOK ==
  /\ run \in RunStatus
  /\ status \in [Nodes -> StepStatus]
  /\ attempt \in [Nodes -> Nat] /\ \A n \in Nodes : attempt[n] \in 1 .. MaxAttempts[n]
  /\ deps_remaining \in [Nodes -> Nat]
  /\ inputs \in [Nodes -> SUBSET Nodes]
  /\ live \subseteq Edges /\ satisfied \subseteq Edges
  /\ expired \subseteq Nodes /\ armed \subseteq Nodes /\ late \subseteq Nodes
  /\ execQ \subseteq Nodes /\ advQ \subseteq Nodes
  /\ pc \in [Workers -> WorkerPc]
  /\ job \in [Workers -> Nodes \cup {NoNode}]
  /\ \A w \in Workers : pc[w] = "idle" <=> job[w] = NoNode
  /\ prune \in [Workers -> PruneType]
  /\ adv \in AdvanceType
  /\ sweep \in SweepType /\ signal \in SignalType /\ cancel \in CancelType
  /\ faults \in Nat

LiveUnsatisfied(n) == {e \in Incoming(n) : e \in live /\ e \notin satisfied}
Started == {"ready", "running", "waiting", "succeeded", "failed"}

\* The join counter is one-sided: lost updates between a Branch commit and
\* advance_run may leave it too high, but it is never below the number of edges the
\* step still waits for (advance_run and commit_step_result write it unlocked).
CounterNeverLow ==
  \A n \in Nodes : deps_remaining[n] >= Cardinality(LiveUnsatisfied(n))

\* A step is readied, and so ever run, only when each live edge into it has been
\* satisfied, whatever crashes, duplicates, reclaims, signals and cancellations do.
JoinClosed ==
  \A n \in Nodes : status[n] \in Started => LiveUnsatisfied(n) = {}

\* A step that was started has all its live parents finished, at least one of them
\* well, and the output of each that succeeded merged into its inputs; nothing
\* arrived over a pruned edge (the merge in advance_run, read by build_context).
InputsComplete ==
  \A n \in Nodes : status[n] \in Started =>
    LET parents == {From[e] : e \in Incoming(n) \cap live}
    IN /\ \A p \in parents : status[p] \in Terminal
       /\ inputs[n] = {p \in parents : status[p] = "succeeded"}
       /\ Incoming(n) # {} => inputs[n] # {}

\* Two workers are never inside the handler of one step, and a worker is inside a
\* handler only while the step's row says running (claim, lease and reclaim).
OneWorkerPerStep ==
  \A w \in Workers, n \in Nodes :
    Holds(w, n) => /\ status[n] = "running"
                   /\ \A v \in Workers \ {w} : ~ Holds(v, n)

\* A run that is not over always has somebody who will move it: a ready or running
\* step, a parked gate that can be woken, a worker or an advance on its way
\* (reconciler.py: "the safety net that guarantees no run is stuck").
NeverStranded ==
  \/ run \in RunTerminal
  \/ \E n \in Nodes : status[n] \in {"absent", "ready", "running"}
  \/ \E n \in Nodes : status[n] = "waiting" /\ n \in armed
  \/ \E w \in Workers : pc[w] = "reporting"
  \/ advQ # {}
  \/ adv.pc # "idle"

\* Every run comes to an end and stays there.
EventuallyOver == <>[](run \in RunTerminal)

\* Whatever a cancellation races with, work on the run stops: in the end no step is
\* left to be claimed, half-way or parked (cancel_run, and the check after the claim).
EventuallyQuiet ==
  <>[](\A n \in Nodes : status[n] \notin {"ready", "running", "waiting"})

\* cancel_run promises that a running handler's commit "is a no-op once the run is
\* cancelled": the step it was running stays cancelled.
CancelledStepsStay ==
  [][\A n \in Nodes : run = "cancelled" /\ status[n] = "cancelled"
                        => status'[n] = "cancelled"]_vars

\* A started run that is cancelled is over (plan, decision D4 and acceptance step 7): no
\* transaction that read its status earlier makes it anything else.
CancelledRunStays ==
  [][run = "cancelled" /\ (\A n \in Nodes : status[n] # "absent") => run' = "cancelled"]_vars

(***************************************************************************)
(* The rows implement the abstract run.                                    *)
(***************************************************************************)
Phase ==
  [n \in Nodes |->
     CASE status[n] \in {"absent", "pending"} -> "blocked"
       [] status[n] \in {"ready", "running", "waiting"} -> "open"
       [] status[n] = "succeeded" -> "ok"
       [] status[n] = "skipped" -> "skipped"
       [] OTHER -> "bad"]

Dag == INSTANCE DagRun
         WITH phase <- Phase, pruned <- Edges \ live,
              outcome <- IF run \in RunTerminal THEN run ELSE "open"

\* Nodes open and are skipped only for the reasons DagRun gives, finish once, and the
\* run ends once, with the right verdict, when every node is done.
ImplementsDagRun == Dag!Spec

=============================================================================
