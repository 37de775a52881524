---------------------------- MODULE DagRunProof ----------------------------
(***************************************************************************)
(* That the rows of a run implement DagRun, for every graph and any number *)
(* of workers, whatever crashes and whatever messages are lost; and when a *)
(* run can get stuck.                                                      *)
(***************************************************************************)
EXTENDS SchedulerProof, DataLemmas

(***************************************************************************)
(* What is not allowed to happen: a cancellation, a lease that expires on  *)
(* a worker that is alive, and a deadline that wakes a gate a signal wakes *)
(* as well.  Each of them makes the code write a status it has not looked  *)
(* at, and the theorems are false with it.                                 *)
(***************************************************************************)
Calm ==
  /\ "cancel" \notin Env
  /\ "slow" \notin Env
  /\ TimedGates = {} \/ "signal" \notin Env

\* Nobody cancels.
NothingCancelled ==
  /\ run # "cancelled" /\ cancel.pc = "idle"
  /\ \A n \in Nodes : status[n] # "cancelled"

\* The rows are written all at once, before anybody touches them.
AllOrNone ==
  \A n \in Nodes : status[n] = "absent" =>
    /\ \A m \in Nodes : status[m] = "absent"
    /\ advQ = {} /\ adv.pc = "idle" /\ \A w \in Workers : pc[w] = "idle"

\* A lease that expired is nobody's; who is about to be woken is still asleep; and only
\* one of the two wakes.
LeaseIsDead == \A w \in Workers, n \in Nodes : Holds(w, n) => n \notin expired
WakesSleepers ==
  /\ late \subseteq TimedGates /\ sweep.wake \subseteq TimedGates
  /\ signal.wake # {} => "signal" \in Env
  /\ \A n \in sweep.reclaim : status[n] = "running" /\ n \in expired
  /\ \A n \in sweep.wake \cup signal.wake : status[n] = "waiting"

\* What a Branch commit is about to prune leaves its own step.
PrunesItsOwn == \A w \in Workers : pc[w] = "pruning" => prune[w].dead \subseteq Outgoing(job[w])

\* An edge is satisfied by a parent that is done.
SatisfiedByDone == \A e \in satisfied : status[From[e]] \in Terminal

\* What advance_run has read of a step that is done, or not started, is still so; and
\* of the edges that leave a step that is done.
ReadHolds ==
  adv.pc \in {"steps", "deps"} =>
    /\ \A n \in Nodes : /\ adv.status[n] # "absent"
                        /\ adv.status[n] \in Terminal \cup {"pending"} => status[n] = adv.status[n]
    /\ \A e \in satisfied : adv.status[From[e]] \in Terminal
    /\ adv.pc = "deps" =>
         \A e \in Edges : adv.status[From[e]] \in Terminal => (e \in adv.live <=> e \in live)

\* The inputs of a step are what its live, satisfied edges delivered.
DeliveredBy(p, n) ==
  \E e \in Incoming(n) : From[e] = p /\ e \in live /\ e \in satisfied /\ status[p] = "succeeded"
InputsAreDelivered == \A n, p \in Nodes : p \in inputs[n] <=> DeliveredBy(p, n)
InputsAreThere ==
  \A n \in Nodes : status[n] \in Started /\ Incoming(n) # {} => inputs[n] # {}

\* A run is over when all its steps are, and is not looked at any more.
OverIsDone ==
  /\ run \in RunTerminal => Nodes # {} /\ \A n \in Nodes : status[n] \in Terminal
  /\ adv.pc # "idle" => Nodes # {} /\ run \notin RunTerminal /\ adv.run \notin RunTerminal

CalmInvariant ==
  /\ JoinInvariant
  /\ NothingCancelled /\ AllOrNone
  /\ OneWorkerPerStep /\ LeaseIsDead /\ WakesSleepers /\ PrunesItsOwn
  /\ SatisfiedByDone /\ ReadHolds
  /\ InputsAreDelivered /\ InputsAreThere
  /\ OverIsDone

USE DEF rows, queues, worker, others, WorkerPc, RunStatus, RunTerminal, StepStatus,
        Terminal, Active

LEMMA CalmInit == Init => CalmInvariant
<1> SUFFICES ASSUME Init PROVE CalmInvariant
  OBVIOUS
<1>1. JoinInvariant
  BY JoinInit
<1>2. NothingCancelled /\ AllOrNone
  BY DEF Init, NothingCancelled, AllOrNone, NoCancel, NoAdvance
<1>3. OneWorkerPerStep /\ LeaseIsDead /\ PrunesItsOwn
  BY DEF Init, OneWorkerPerStep, LeaseIsDead, PrunesItsOwn, Holds
<1>4. WakesSleepers
  BY DEF Init, WakesSleepers, NoSweep, NoSignal
<1>5. SatisfiedByDone /\ ReadHolds /\ OverIsDone
  BY DEF Init, SatisfiedByDone, ReadHolds, OverIsDone, NoAdvance
<1>6. InputsAreDelivered /\ InputsAreThere
  BY DEF Init, InputsAreDelivered, DeliveredBy, InputsAreThere, Started
<1>7. QED
  BY <1>1, <1>2, <1>3, <1>4, <1>5, <1>6 DEF CalmInvariant

\* The transactions that write a status.
LEMMA StatusWrites ==
  ASSUME Calm, CalmInvariant, [Next]_vars
  PROVE  \/ StartRun \/ AdvanceCommit \/ SweepWrite \/ SignalWrite
         \/ \E w \in Workers, n \in Nodes : ClaimReadyStep(w, n)
         \/ \E w \in Workers : \/ CommitOutput(w) \/ CommitBranchWrite(w) \/ FailStep(w)
                              \/ RetryStep(w) \/ CommitSuspend(w)
         \/ UNCHANGED status
<1>1. CASE \E w \in Workers : WorkerStep(w)
  BY <1>1 DEF WorkerStep, LoseClaim, SetUpCancelled, SetUp, ResumeRun, CommitBranchRead, AbandonStep,
     Report, CalmInvariant, NothingCancelled
<1>2. CASE FaultStep
  BY <1>2 DEF FaultStep, LeaseExpiresOnLiveWorker, LoseExec, LoseAdvance, Crash, CrashReporting, Dies
<1>3. CASE AdvanceStep
  BY <1>3 DEF AdvanceStep, AdvanceReturn, AdvanceLock, AdvanceReadSteps, AdvanceReadDeps
<1>4. CASE CancelWrite
  BY <1>4 DEF CancelWrite, CalmInvariant, NothingCancelled
<1>5. CASE \/ SweepRead \/ FindStrandedReady \/ SignalRead \/ CancelRead
           \/ \E n \in Nodes : DeadlinePasses(n) \/ LeaseExpires(n)
           \/ Rest \/ UNCHANGED vars
  BY <1>5 DEF SweepRead, FindStrandedReady, SignalRead, CancelRead, DeadlinePasses, LeaseExpires,
              Rest, vars
<1>6. QED
  BY <1>1, <1>2, <1>3, <1>4, <1>5 DEF Next, SweepStep

\* A commit of a worker ends its work on the step, and what else it writes is its own.
LEMMA CommitWrites ==
  ASSUME NEW w \in Workers, \/ CommitOutput(w) \/ CommitBranchWrite(w) \/ FailStep(w)
                           \/ RetryStep(w) \/ CommitSuspend(w)
  PROVE  /\ pc[w] \in {"handling", "pruning"}
         /\ \E s \in {"ready", "waiting", "succeeded", "failed"} : Commit(w, s)
BY DEF CommitOutput, CommitBranchWrite, FailStep, RetryStep, CommitSuspend

\* What a worker commits, it commits for a step that is running and that no other
\* worker is in.
LEMMA CommitsItsOwn ==
  ASSUME CalmInvariant, NEW w \in Workers, pc[w] \in {"claimed", "resuming", "handling", "pruning"}
  PROVE  /\ job[w] \in Nodes /\ Holds(w, job[w])
         /\ status[job[w]] = "running" /\ job[w] \notin expired
         /\ \A v \in Workers \ {w} : ~ Holds(v, job[w])
<1>1. job[w] \in Nodes /\ Holds(w, job[w])
  BY DEF CalmInvariant, JoinInvariant, TypeOK, Holds
<1>2. QED
  BY <1>1 DEF CalmInvariant, OneWorkerPerStep, LeaseIsDead

\* Which steps it skips and readies, and the counters it writes.
Resolves(skips, ready) ==
  LET st == Skipping(skips)
  IN /\ skips = {n \in Nodes : MustSkip(n, st)}
     /\ ready = {n \in Nodes : MayReady(n, st)}
     /\ deps_remaining' = [n \in Nodes |->
          IF LeftAt(n, st) # adv.left[n] THEN LeftAt(n, st) ELSE deps_remaining[n]]

\* What advance_run decides: skips steps, readies others, and leaves the rest as it is
\* by now; what it believed of the steps that are done is so.
Decision(skips, ready) ==
  LET st == Skipping(skips)
      final == [n \in Nodes |-> IF n \in ready THEN "ready" ELSE st[n]]
  IN /\ skips \cap ready = {}
     /\ \A n \in skips \cup ready : status[n] = "pending"
     /\ status' = [n \in Nodes |-> IF n \in skips THEN "skipped"
                                   ELSE IF n \in ready THEN "ready" ELSE status[n]]
     /\ \A n \in Nodes : st[n] \in Terminal => status'[n] = st[n]
     /\ satisfied' = SatisfiedBy(st)
     /\ inputs' = [n \in Nodes |-> inputs[n] \cup
                     {From[e] : e \in {d \in NewlySatisfied(n, st) : st[From[d]] = "succeeded"}}]
     /\ \A n \in ready : Incoming(n) = {} \/ Delivered(n, st)
     /\ \A n \in skips : MustSkip(n, st)
     /\ run' = IF RunOutcome(final) # adv.run THEN RunOutcome(final) ELSE run
     /\ Resolves(skips, ready)

LEMMA AdvanceDecides ==
  ASSUME CalmInvariant, AdvanceCommit
  PROVE  \E skips, ready \in SUBSET Nodes : Decision(skips, ready)
<1>1. PICK skips \in SUBSET {n \in Nodes : adv.status[n] = "pending"} :
        LET st    == Skipping(skips)
            ready == {n \in Nodes : MayReady(n, st)}
            final == [n \in Nodes |-> IF n \in ready THEN "ready" ELSE st[n]]
        IN /\ IsFixpoint(skips)
           /\ status' = [n \in Nodes |-> IF n \in skips \cup ready THEN final[n]
                                         ELSE status[n]]
           /\ deps_remaining' = [n \in Nodes |->
                IF LeftAt(n, st) # adv.left[n] THEN LeftAt(n, st) ELSE deps_remaining[n]]
           /\ inputs' = [n \in Nodes |-> inputs[n] \cup
                {From[e] : e \in {d \in NewlySatisfied(n, st) : st[From[d]] = "succeeded"}}]
           /\ satisfied' = SatisfiedBy(st)
           /\ run' = IF RunOutcome(final) # adv.run THEN RunOutcome(final) ELSE run
  BY DEF AdvanceCommit
<1> DEFINE st == Skipping(skips)
           ready == {n \in Nodes : MayReady(n, st)}
           final == [n \in Nodes |-> IF n \in ready THEN "ready" ELSE st[n]]
<1>2. \A n \in Nodes : st[n] = IF n \in skips THEN "skipped" ELSE adv.status[n]
  BY DEF Skipping
<1>3. \A n \in ready : st[n] = "pending" /\ (Incoming(n) = {} \/ Delivered(n, st))
  BY DEF MayReady
<1>4. \A n \in skips : MustSkip(n, st)
  BY <1>1 DEF IsFixpoint
<1> HIDE DEF st, ready
<1>5. ready \subseteq Nodes /\ skips \subseteq Nodes
  BY DEF ready
<1>6. skips \cap ready = {}
  BY <1>2, <1>3, <1>5
<1>7. \A n \in Nodes : adv.status[n] \in Terminal \cup {"pending"} => status[n] = adv.status[n]
  BY DEF CalmInvariant, ReadHolds, AdvanceCommit
<1>8. \A n \in skips \cup ready : status[n] = "pending"
  BY <1>2, <1>3, <1>5, <1>6, <1>7
<1>9. status' = [n \in Nodes |-> IF n \in skips THEN "skipped"
                                ELSE IF n \in ready THEN "ready" ELSE status[n]]
  BY <1>1, <1>2, <1>6 DEF st, ready
<1>10. \A n \in Nodes : st[n] \in Terminal => status'[n] = st[n]
  BY <1>2, <1>3, <1>7, <1>9
<1>11. Resolves(skips, ready)
  BY <1>1 DEF Resolves, IsFixpoint, st, ready
<1>12. Decision(skips, ready)
  BY <1>1, <1>3, <1>4, <1>6, <1>8, <1>9, <1>10, <1>11 DEF Decision, st, ready
<1>13. QED
  BY <1>5, <1>12

\* A step that is done stays as it is; one that is not started stays so, but for
\* start_run and advance_run.
LEMMA DoneStays ==
  ASSUME Calm, CalmInvariant, [Next]_vars, NEW n \in Nodes
  PROVE  /\ status[n] \in Terminal => status'[n] = status[n]
         /\ status[n] = "pending" /\ ~AdvanceCommit => status'[n] = "pending"
         /\ status[n] # "absent" => status'[n] # "absent"
         /\ status[n] = "absent" /\ ~StartRun => status'[n] = "absent"
         /\ status'[n] # "cancelled"
<1>1. TypeOK /\ TypeOK' /\ status[n] # "cancelled"
  BY TypeStep DEF CalmInvariant, JoinInvariant, NothingCancelled
<1>2. CASE StartRun
  BY <1>2 DEF StartRun
<1>3. ASSUME NEW w \in Workers, NEW m \in Nodes, ClaimReadyStep(w, m)
      PROVE  status'[n] = IF n = m THEN "running" ELSE status[n]
  BY <1>1, <1>3 DEF ClaimReadyStep, TypeOK
<1>4. CASE \E w \in Workers, m \in Nodes : ClaimReadyStep(w, m)
  BY <1>1, <1>3, <1>4 DEF ClaimReadyStep
<1>5. CASE \E w \in Workers : \/ CommitOutput(w) \/ CommitBranchWrite(w) \/ FailStep(w)
                             \/ RetryStep(w) \/ CommitSuspend(w)
  BY <1>1, <1>5, CommitWrites, CommitsItsOwn DEF Commit, TypeOK
<1>6. CASE AdvanceCommit
  <2>1. PICK skips, ready \in SUBSET Nodes : Decision(skips, ready)
    BY <1>6, AdvanceDecides
  <2>2. QED
    BY <1>1, <1>6, <2>1 DEF Decision
<1>7. CASE SweepWrite \/ SignalWrite
  BY <1>1, <1>7 DEF SweepWrite, SignalWrite, CalmInvariant, WakesSleepers
<1>8. QED
  BY <1>1, <1>2, <1>4, <1>5, <1>6, <1>7, StatusWrites

\* The steps that write the status of the run.
LEMMA RunWrites ==
  ASSUME Calm, CalmInvariant, [Next]_vars
  PROVE  \/ StartRun
         \/ \E w \in Workers : ResumeRun(w)
         \/ AdvanceCommit
         \/ UNCHANGED run
<1>1. CASE \E w \in Workers : WorkerStep(w)
  BY <1>1 DEF WorkerStep, ClaimReadyStep, LoseClaim, SetUpCancelled, SetUp, CommitOutput,
     CommitSuspend, CommitBranchRead, CommitBranchWrite, FailStep, RetryStep, AbandonStep, Report
<1>2. CASE FaultStep
  BY <1>2 DEF FaultStep, LeaseExpiresOnLiveWorker, LoseExec, LoseAdvance, Crash, CrashReporting, Dies
<1>3. CASE AdvanceStep
  BY <1>3 DEF AdvanceStep, AdvanceReturn, AdvanceLock, AdvanceReadSteps, AdvanceReadDeps
<1>4. CASE CancelWrite
  BY <1>4 DEF CancelWrite, CalmInvariant, NothingCancelled
<1>5. CASE \/ SweepStep \/ FindStrandedReady \/ SignalRead \/ SignalWrite \/ CancelRead
           \/ \E n \in Nodes : DeadlinePasses(n) \/ LeaseExpires(n)
           \/ Rest \/ UNCHANGED vars
  BY <1>5 DEF SweepStep, SweepRead, SweepWrite, FindStrandedReady, SignalRead, SignalWrite,
              CancelRead, DeadlinePasses, LeaseExpires, Rest, vars
<1>6. QED
  BY <1>1, <1>2, <1>3, <1>4, <1>5 DEF Next

LEMMA CancelStep ==
  ASSUME Calm, CalmInvariant, [Next]_vars
  PROVE  NothingCancelled'
<1>1. run' # "cancelled"
  <2>1. run # "cancelled" /\ (adv.pc # "idle" => adv.run # "cancelled")
    BY DEF CalmInvariant, NothingCancelled, OverIsDone
  <2>2. CASE AdvanceCommit
    BY <2>1, <2>2, AdvanceDecides DEF Decision, RunOutcome, AdvanceCommit
  <2>3. CASE StartRun \/ \E w \in Workers : ResumeRun(w)
    BY <2>3 DEF StartRun, ResumeRun
  <2>4. QED
    BY <2>1, <2>2, <2>3, RunWrites
<1>2. cancel'.pc = "idle"
  <2>1. cancel \in CancelType /\ cancel.pc = "idle" /\ "cancel" \notin Env
    BY DEF CalmInvariant, JoinInvariant, TypeOK, NothingCancelled, Calm
  <2>2. CASE \E w \in Workers : CommitSuspend(w)
    BY <2>1, <2>2 DEF CommitSuspend, CancelType
  <2>3. CASE CancelRead \/ CancelWrite
    BY <2>1, <2>3 DEF CancelRead, CancelWrite
  <2>4. CASE UNCHANGED cancel
    BY <2>1, <2>4
  <2>5. CASE \E w \in Workers : WorkerStep(w)
    BY <2>2, <2>4, <2>5 DEF WorkerStep, ClaimReadyStep, LoseClaim, SetUpCancelled, SetUp, ResumeRun,
       CommitOutput, CommitBranchRead, CommitBranchWrite, FailStep, RetryStep, AbandonStep, Report
  <2>6. CASE FaultStep
    BY <2>4, <2>6 DEF FaultStep, LeaseExpiresOnLiveWorker, LoseExec, LoseAdvance, Crash,
       CrashReporting, Dies
  <2>7. CASE AdvanceStep
    BY <2>4, <2>7 DEF AdvanceStep, AdvanceReturn, AdvanceLock, AdvanceReadSteps, AdvanceReadDeps,
       AdvanceCommit
  <2>8. CASE \/ StartRun \/ SweepStep \/ FindStrandedReady \/ SignalRead \/ SignalWrite
             \/ \E n \in Nodes : DeadlinePasses(n) \/ LeaseExpires(n)
             \/ Rest \/ UNCHANGED vars
    BY <2>4, <2>8 DEF StartRun, SweepStep, SweepRead, SweepWrite, FindStrandedReady, SignalRead,
       SignalWrite, DeadlinePasses, LeaseExpires, Rest, vars
  <2>9. QED
    BY <2>3, <2>5, <2>6, <2>7, <2>8 DEF Next
<1>3. QED
  BY <1>1, <1>2, DoneStays DEF NothingCancelled

\* A step whose row is still missing is one of a run whose rows are all missing:
\* only the first commit of start_run makes rows, and it makes all of them.
LEMMA AllOrNoneStep ==
  ASSUME Calm, CalmInvariant, [Next]_vars
  PROVE  AllOrNone'
<1> SUFFICES ASSUME NEW n \in Nodes, status'[n] = "absent"
             PROVE  /\ \A m \in Nodes : status'[m] = "absent"
                    /\ advQ' = {} /\ adv'.pc = "idle" /\ \A w \in Workers : pc'[w] = "idle"
  BY DEF AllOrNone
<1>1. status[n] = "absent"
  BY DoneStays
<1>2. /\ \A m \in Nodes : status[m] = "absent"
      /\ advQ = {} /\ adv.pc = "idle" /\ \A w \in Workers : pc[w] = "idle"
  BY <1>1 DEF CalmInvariant, AllOrNone
<1>3. ~StartRun
  BY DEF StartRun
<1>4. CASE \E w \in Workers : WorkerStep(w)
  <2>1. \A w \in Workers, m \in Nodes : ~ClaimReadyStep(w, m)
    BY <1>2 DEF ClaimReadyStep
  <2>2. QED
    BY <1>2, <1>4, <2>1 DEF WorkerStep, LoseClaim, SetUpCancelled, SetUp, ResumeRun,
       CommitOutput, CommitSuspend, CommitBranchRead, CommitBranchWrite, FailStep, RetryStep,
       AbandonStep, Report
<1>5. CASE FaultStep
  BY <1>2, <1>5 DEF FaultStep, LeaseExpiresOnLiveWorker, LoseExec, LoseAdvance, Crash, CrashReporting
<1>6. CASE AdvanceStep
  BY <1>2, <1>6 DEF AdvanceStep, AdvanceReturn, AdvanceLock, AdvanceReadSteps, AdvanceReadDeps,
     AdvanceCommit
<1>7. CASE SweepWrite \/ SignalWrite
  BY <1>2, <1>7 DEF SweepWrite, SignalWrite, CalmInvariant, WakesSleepers
<1>8. CASE CancelWrite
  BY <1>8 DEF CancelWrite, CalmInvariant, NothingCancelled
<1>9. CASE \/ SweepRead \/ FindStrandedReady \/ SignalRead \/ CancelRead
           \/ \E m \in Nodes : DeadlinePasses(m) \/ LeaseExpires(m)
           \/ Rest \/ UNCHANGED vars
  BY <1>2, <1>9 DEF SweepRead, FindStrandedReady, SignalRead, CancelRead, DeadlinePasses,
     LeaseExpires, Rest, vars
<1>10. QED
  BY <1>3, <1>4, <1>5, <1>6, <1>7, <1>8, <1>9 DEF Next, SweepStep

WorkersApart == OneWorkerPerStep /\ LeaseIsDead /\ WakesSleepers /\ PrunesItsOwn

\* A commit takes its worker out of the step, and only of its own.
LEMMA ApartCommit ==
  ASSUME CalmInvariant, NEW w \in Workers, pc[w] \in {"handling", "pruning"},
         NEW s, Commit(w, s), UNCHANGED <<job, late>>,
         expired' \in {expired, expired \ {job[w]}},
         /\ sweep'.reclaim = sweep.reclaim /\ sweep'.wake = sweep.wake
         /\ signal'.wake = signal.wake,
         \A v \in Workers \ {w} : prune'[v] = prune[v]
  PROVE  WorkersApart'
<1>1. /\ job[w] \in Nodes /\ Holds(w, job[w])
      /\ status[job[w]] = "running" /\ job[w] \notin expired
      /\ \A v \in Workers \ {w} : ~ Holds(v, job[w])
  BY CommitsItsOwn
<1>2. /\ status \in [Nodes -> StepStatus] /\ pc \in [Workers -> WorkerPc]
      /\ sweep \in SweepType /\ signal \in SignalType
  BY DEF CalmInvariant, JoinInvariant, TypeOK
<1>3. /\ status' = [status EXCEPT ![job[w]] = s] /\ pc' = [pc EXCEPT ![w] = "reporting"]
      /\ expired' = expired
  BY <1>1 DEF Commit, Goto
<1>4. \A m \in Nodes : m # job[w] => status'[m] = status[m]
  BY <1>2, <1>3
<1>5. \A v \in Workers : /\ v = w => pc'[v] = "reporting"
                         /\ v # w => pc'[v] = pc[v] /\ prune'[v] = prune[v]
  BY <1>2, <1>3
<1>6. \A v \in Workers, m \in Nodes : Holds(v, m)' => v # w /\ Holds(v, m) /\ m # job[w]
  BY <1>1, <1>5 DEF Holds
<1>7. OneWorkerPerStep' /\ LeaseIsDead'
  BY <1>3, <1>4, <1>6 DEF OneWorkerPerStep, LeaseIsDead, CalmInvariant
<1>8. WakesSleepers'
  <2>1. \A m \in sweep.reclaim : m \in Nodes /\ status[m] = "running" /\ m \in expired /\ m # job[w]
    BY <1>1, <1>2 DEF CalmInvariant, WakesSleepers, SweepType
  <2>2. \A m \in sweep.wake \cup signal.wake : m \in Nodes /\ status[m] = "waiting" /\ m # job[w]
    BY <1>1, <1>2 DEF CalmInvariant, WakesSleepers, SweepType, SignalType
  <2>3. QED
    BY <1>3, <1>4, <2>1, <2>2 DEF CalmInvariant, WakesSleepers
<1>9. PrunesItsOwn'
  BY <1>5 DEF CalmInvariant, PrunesItsOwn, Outgoing
<1>10. QED
  BY <1>7, <1>8, <1>9 DEF WorkersApart

\* A step in which no worker enters a step or starts to prune, and no status, lease or
\* wakeup changes.
LEMMA ApartFrame ==
  ASSUME CalmInvariant, UNCHANGED <<status, expired, late, sweep, signal>>,
         \A v \in Workers, n \in Nodes : Holds(v, n)' => Holds(v, n),
         \A v \in Workers : pc'[v] = "pruning" =>
            prune'[v].dead \subseteq Outgoing(job'[v])
  PROVE  WorkersApart'
<1>1. OneWorkerPerStep' /\ LeaseIsDead'
  BY DEF CalmInvariant, OneWorkerPerStep, LeaseIsDead
<1>2. WakesSleepers'
  BY DEF CalmInvariant, WakesSleepers
<1>3. PrunesItsOwn'
  BY DEF PrunesItsOwn, Outgoing
<1>4. QED
  BY <1>1, <1>2, <1>3 DEF WorkersApart

LEMMA ApartWorker ==
  ASSUME Calm, CalmInvariant, NEW w \in Workers, WorkerStep(w)
  PROVE  WorkersApart'
<1>1. /\ status \in [Nodes -> StepStatus] /\ pc \in [Workers -> WorkerPc]
      /\ job \in [Workers -> Nodes \cup {NoNode}]
      /\ sweep \in SweepType /\ signal \in SignalType
      /\ prune \in [Workers -> PruneType]
  BY DEF CalmInvariant, JoinInvariant, TypeOK
<1>2. ASSUME NEW n \in Nodes, ClaimReadyStep(w, n) PROVE WorkersApart'
  <2>1. /\ pc' = [pc EXCEPT ![w] = "claimed"] /\ job' = [job EXCEPT ![w] = n]
        /\ status' = [status EXCEPT ![n] = "running"] /\ status[n] = "ready"
        /\ expired' = expired \ {n} /\ UNCHANGED <<late, prune, sweep, signal>>
    BY <1>2 DEF ClaimReadyStep, Goto
  <2>2. \A m \in Nodes : /\ m = n => status'[m] = "running"
                         /\ m # n => status'[m] = status[m]
    BY <1>1, <2>1
  <2>3. \A v \in Workers : /\ v = w => pc'[v] = "claimed" /\ job'[v] = n
                           /\ v # w => pc'[v] = pc[v] /\ job'[v] = job[v]
    BY <1>1, <2>1
  <2>4. \A v \in Workers, m \in Nodes :
          Holds(v, m)' => \/ v = w /\ m = n
                          \/ v # w /\ m # n /\ Holds(v, m)
    BY <2>1, <2>3 DEF Holds, CalmInvariant, OneWorkerPerStep
  <2>5. OneWorkerPerStep' /\ LeaseIsDead'
    BY <2>1, <2>2, <2>4 DEF OneWorkerPerStep, LeaseIsDead, CalmInvariant
  <2>6. WakesSleepers'
    BY <1>1, <2>1, <2>2 DEF CalmInvariant, WakesSleepers, SweepType, SignalType
  <2>7. PrunesItsOwn'
    BY <2>1, <2>3 DEF CalmInvariant, PrunesItsOwn, Outgoing
  <2>8. QED
    BY <2>5, <2>6, <2>7 DEF WorkersApart
<1>3. ASSUME NEW n \in Nodes, LoseClaim(w, n) PROVE WorkersApart'
  BY <1>3, ApartFrame DEF LoseClaim, Holds, CalmInvariant, PrunesItsOwn
<1>4. CASE SetUpCancelled(w) \/ AbandonStep(w)
  BY <1>4 DEF SetUpCancelled, AbandonStep, CalmInvariant, NothingCancelled
<1>5. CASE SetUp(w) \/ ResumeRun(w)
  <2>1. /\ UNCHANGED <<job, prune, status, expired, late, sweep, signal>>
        /\ pc[w] \in {"claimed", "resuming"}
        /\ pc' \in {[pc EXCEPT ![w] = "resuming"], [pc EXCEPT ![w] = "handling"]}
    BY <1>5 DEF SetUp, ResumeRun, Goto
  <2>2. \A v \in Workers, n \in Nodes : Holds(v, n)' => Holds(v, n)
    BY <1>1, <2>1 DEF Holds
  <2>3. \A v \in Workers : pc'[v] = "pruning" => pc[v] = "pruning"
    BY <1>1, <2>1
  <2>4. QED
    BY <2>1, <2>2, <2>3, ApartFrame DEF CalmInvariant, PrunesItsOwn
<1>6. CASE CommitOutput(w)
  BY <1>6, ApartCommit DEF CommitOutput
<1>7. CASE CommitSuspend(w)
  <2>1. /\ sweep'.reclaim = sweep.reclaim /\ sweep'.wake = sweep.wake
        /\ signal'.wake = signal.wake
    BY <1>1, <1>7 DEF CommitSuspend, SweepType, SignalType
  <2>2. QED
    BY <1>7, <2>1, ApartCommit DEF CommitSuspend
<1>8. CASE CommitBranchRead(w)
  <2>1. \E h \in Ports : \E left, hit : prune' = [prune EXCEPT ![w] =
          [dead |-> {e \in Outgoing(job[w]) : Handle[e] # h}, left |-> left, hit |-> hit]]
    BY <1>8 DEF CommitBranchRead
  <2>2. /\ UNCHANGED <<job, status, expired, late, sweep, signal>>
        /\ pc[w] = "handling" /\ pc' = [pc EXCEPT ![w] = "pruning"]
    BY <1>8 DEF CommitBranchRead, Goto
  <2>3. \A v \in Workers, n \in Nodes : Holds(v, n)' => Holds(v, n)
    BY <1>1, <2>2 DEF Holds
  <2>4. prune'[w].dead \subseteq Outgoing(job[w])
    BY <1>1, <2>1
  <2>5. \A v \in Workers \ {w} : pc'[v] = pc[v] /\ prune'[v] = prune[v]
    BY <1>1, <2>1, <2>2
  <2>6. QED
    BY <2>2, <2>3, <2>4, <2>5, ApartFrame DEF CalmInvariant, PrunesItsOwn
<1>9. CASE CommitBranchWrite(w)
  BY <1>1, <1>9, ApartCommit DEF CommitBranchWrite
<1>10. CASE FailStep(w)
  BY <1>10, ApartCommit DEF FailStep
<1>11. CASE RetryStep(w)
  BY <1>11, ApartCommit DEF RetryStep
<1>12. CASE Report(w)
  <2>1. /\ UNCHANGED <<prune, status, expired, late, sweep, signal>>
        /\ pc' = [pc EXCEPT ![w] = "idle"] /\ job' = [job EXCEPT ![w] = NoNode]
    BY <1>12 DEF Report, Goto
  <2>2. \A v \in Workers : /\ v = w => pc'[v] = "idle"
                           /\ v # w => pc'[v] = pc[v] /\ job'[v] = job[v]
    BY <1>1, <2>1
  <2>3. QED
    BY <2>1, <2>2, ApartFrame DEF Holds, CalmInvariant, PrunesItsOwn
<1>13. QED
  BY <1>2, <1>3, <1>4, <1>5, <1>6, <1>7, <1>8, <1>9, <1>10, <1>11, <1>12 DEF WorkerStep

\* The reconciler and signal_event wake steps no worker is in.
LEMMA ApartWake ==
  ASSUME Calm, CalmInvariant,
         \/ SweepStep \/ SignalRead \/ SignalWrite
         \/ \E n \in Nodes : DeadlinePasses(n) \/ LeaseExpires(n)
  PROVE  WorkersApart'
<1>1. /\ status \in [Nodes -> StepStatus] /\ late \subseteq Nodes
      /\ armed \subseteq Nodes /\ expired \subseteq Nodes
      /\ sweep \in SweepType /\ signal \in SignalType
  BY DEF CalmInvariant, JoinInvariant, TypeOK
<1>2. UNCHANGED <<pc, job, prune>>
  BY DEF SweepStep, SweepRead, SweepWrite, SignalRead, SignalWrite, DeadlinePasses, LeaseExpires
<1>3. /\ \A v \in Workers, n \in Nodes : Holds(v, n)' <=> Holds(v, n)
      /\ PrunesItsOwn'
  BY <1>2 DEF Holds, CalmInvariant, PrunesItsOwn, Outgoing
<1>4. CASE SweepRead
  BY <1>1, <1>3, <1>4
  DEF SweepRead, CalmInvariant, OneWorkerPerStep, LeaseIsDead, WakesSleepers, WorkersApart
<1>5. CASE SweepWrite
  <2>1. \A n \in sweep.reclaim \cup sweep.wake, v \in Workers : n \in Nodes /\ ~Holds(v, n)
    BY <1>1 DEF CalmInvariant, WakesSleepers, LeaseIsDead, OneWorkerPerStep, SweepType
  <2>2. OneWorkerPerStep' /\ LeaseIsDead'
    BY <1>3, <1>5, <2>1 DEF SweepWrite, CalmInvariant, OneWorkerPerStep, LeaseIsDead
  <2>3. sweep.wake = {} \/ signal.wake = {}
    BY DEF Calm, CalmInvariant, WakesSleepers
  <2>4. \A n \in signal.wake : n \in Nodes /\ n \notin sweep.reclaim \cup sweep.wake
    BY <1>1, <2>3 DEF CalmInvariant, WakesSleepers, SignalType
  <2>5. WakesSleepers'
    BY <1>5, <2>4 DEF SweepWrite, NoSweep, CalmInvariant, WakesSleepers
  <2>6. QED
    BY <1>3, <2>2, <2>5 DEF WorkersApart
<1>6. CASE SignalRead
  BY <1>1, <1>3, <1>6
  DEF SignalRead, CalmInvariant, OneWorkerPerStep, LeaseIsDead, WakesSleepers, WorkersApart
<1>7. CASE SignalWrite
  <2>1. \A n \in signal.wake, v \in Workers : n \in Nodes /\ ~Holds(v, n)
    BY <1>1 DEF CalmInvariant, WakesSleepers, OneWorkerPerStep, SignalType
  <2>2. OneWorkerPerStep' /\ LeaseIsDead'
    BY <1>3, <1>7, <2>1 DEF SignalWrite, CalmInvariant, OneWorkerPerStep, LeaseIsDead
  <2>3. sweep.wake = {} \/ signal.wake = {}
    BY DEF Calm, CalmInvariant, WakesSleepers
  <2>4. \A n \in sweep.reclaim \cup sweep.wake : n \in Nodes /\ n \notin signal.wake
    BY <1>1, <2>3 DEF CalmInvariant, WakesSleepers, SweepType
  <2>5. WakesSleepers'
    BY <1>7, <2>4 DEF SignalWrite, NoSignal, CalmInvariant, WakesSleepers
  <2>6. QED
    BY <1>3, <2>2, <2>5 DEF WorkersApart
<1>8. CASE \E n \in Nodes : DeadlinePasses(n)
  BY <1>3, <1>8 DEF DeadlinePasses, CalmInvariant, OneWorkerPerStep, LeaseIsDead, WakesSleepers, WorkersApart
<1>9. CASE \E n \in Nodes : LeaseExpires(n)
  BY <1>3, <1>9 DEF LeaseExpires, CalmInvariant, OneWorkerPerStep, LeaseIsDead, WakesSleepers, WorkersApart
<1>10. QED
  BY <1>4, <1>5, <1>6, <1>7, <1>8, <1>9 DEF SweepStep

LEMMA ApartStep ==
  ASSUME Calm, CalmInvariant, [Next]_vars
  PROVE  WorkersApart'
<1>1. /\ status \in [Nodes -> StepStatus] /\ pc \in [Workers -> WorkerPc]
      /\ job \in [Workers -> Nodes \cup {NoNode}] /\ prune \in [Workers -> PruneType]
      /\ sweep \in SweepType /\ signal \in SignalType
  BY DEF CalmInvariant, JoinInvariant, TypeOK
<1>2. CASE StartRun
  <2>1. \A n \in Nodes, w \in Workers : ~Holds(w, n)
    BY <1>2 DEF StartRun, CalmInvariant, OneWorkerPerStep
  <2>2. sweep.reclaim = {} /\ sweep.wake = {} /\ signal.wake = {}
    BY <1>1, <1>2 DEF StartRun, CalmInvariant, WakesSleepers, SweepType, SignalType
  <2>3. OneWorkerPerStep' /\ LeaseIsDead' /\ WakesSleepers' /\ PrunesItsOwn'
    BY <1>2, <2>1, <2>2 DEF StartRun, Holds, OneWorkerPerStep, LeaseIsDead, WakesSleepers,
       PrunesItsOwn, Outgoing, CalmInvariant
  <2>4. QED
    BY <2>3 DEF WorkersApart
<1>3. CASE \E w \in Workers : WorkerStep(w)
  BY <1>3, ApartWorker
<1>4. CASE AdvanceCommit
  <2>1. PICK skips, ready \in SUBSET Nodes : Decision(skips, ready)
    BY <1>4, AdvanceDecides
  <2>2. UNCHANGED <<expired, late, pc, job, prune, sweep, signal>>
    BY <1>4 DEF AdvanceCommit
  <2>3. \A n \in Nodes : status[n] # "pending" => status'[n] = status[n]
    BY <2>1 DEF Decision
  <2>4. OneWorkerPerStep' /\ LeaseIsDead' /\ PrunesItsOwn'
    BY <2>2, <2>3 DEF Holds, OneWorkerPerStep, LeaseIsDead, PrunesItsOwn, Outgoing, CalmInvariant
  <2>5. WakesSleepers'
    BY <1>1, <2>2, <2>3 DEF WakesSleepers, CalmInvariant, SweepType, SignalType
  <2>6. QED
    BY <2>4, <2>5 DEF WorkersApart
<1>5. CASE \/ SweepStep \/ SignalRead \/ SignalWrite
           \/ \E n \in Nodes : DeadlinePasses(n) \/ LeaseExpires(n)
  BY <1>5, ApartWake
<1>6. CASE FaultStep
  <2>1. CASE \E n \in Nodes : LeaseExpiresOnLiveWorker(n)
    BY <2>1 DEF LeaseExpiresOnLiveWorker, Fault, Calm
  <2>2. CASE \E n \in Nodes : LoseExec(n) \/ LoseAdvance(n)
    BY <2>2, ApartFrame DEF LoseExec, LoseAdvance, Holds, CalmInvariant, PrunesItsOwn
  <2>3. ASSUME NEW w \in Workers, Dies(w) PROVE WorkersApart'
    <3>1. /\ UNCHANGED <<status, expired, late, sweep, signal>>
          /\ pc' = [pc EXCEPT ![w] = "idle"] /\ job' = [job EXCEPT ![w] = NoNode]
          /\ prune' = [prune EXCEPT ![w] = NoPrune]
      BY <2>3 DEF Dies, Goto
    <3>2. \A v \in Workers :
            /\ v = w => pc'[v] = "idle"
            /\ v # w => pc'[v] = pc[v] /\ job'[v] = job[v] /\ prune'[v] = prune[v]
      BY <1>1, <3>1
    <3>3. QED
      BY <3>1, <3>2, ApartFrame DEF Holds, CalmInvariant, PrunesItsOwn
  <2>4. QED
    BY <1>6, <2>1, <2>2, <2>3 DEF FaultStep, Crash, CrashReporting
<1>7. CASE CancelWrite
  BY <1>7 DEF CancelWrite, CalmInvariant, NothingCancelled
<1>8. CASE \/ AdvanceReturn \/ AdvanceLock \/ AdvanceReadSteps \/ AdvanceReadDeps
           \/ FindStrandedReady \/ CancelRead \/ Rest \/ UNCHANGED vars
  <2>1. UNCHANGED <<status, expired, late, sweep, signal, pc, job, prune>>
    BY <1>8 DEF AdvanceReturn, AdvanceLock, AdvanceReadSteps, AdvanceReadDeps,
       FindStrandedReady, CancelRead, Rest, vars
  <2>2. QED
    BY <2>1, ApartFrame DEF Holds, CalmInvariant, PrunesItsOwn
<1>9. QED
  BY <1>2, <1>3, <1>4, <1>5, <1>6, <1>7, <1>8 DEF Next, AdvanceStep

\* Who writes edges and inputs, and who writes what advance_run has read.
LEMMA EdgeWrites ==
  ASSUME Calm, CalmInvariant, [Next]_vars
  PROVE  /\ AdvanceStep \/ UNCHANGED <<adv, satisfied, inputs>>
         /\ AdvanceCommit \/ UNCHANGED <<satisfied, inputs>>
         /\ (\E w \in Workers : CommitBranchWrite(w)) \/ UNCHANGED live
<1>1. CASE \E w \in Workers : WorkerStep(w)
  BY <1>1 DEF WorkerStep, ClaimReadyStep, LoseClaim, SetUpCancelled, SetUp, ResumeRun, CommitOutput,
     CommitSuspend, CommitBranchRead, CommitBranchWrite, FailStep, RetryStep, AbandonStep, Report
<1>2. CASE FaultStep
  BY <1>2 DEF FaultStep, LeaseExpiresOnLiveWorker, LoseExec, LoseAdvance, Crash, CrashReporting, Dies
<1>3. CASE AdvanceStep
  BY <1>3 DEF AdvanceStep, AdvanceReturn, AdvanceLock, AdvanceReadSteps, AdvanceReadDeps, AdvanceCommit
<1>4. CASE CancelWrite
  BY <1>4 DEF CancelWrite
<1>5. CASE \/ StartRun \/ SweepStep \/ FindStrandedReady \/ SignalRead \/ SignalWrite \/ CancelRead
           \/ \E n \in Nodes : DeadlinePasses(n) \/ LeaseExpires(n)
           \/ Rest \/ UNCHANGED vars
  BY <1>5 DEF StartRun, SweepStep, SweepRead, SweepWrite, FindStrandedReady, SignalRead, SignalWrite,
              CancelRead, DeadlinePasses, LeaseExpires, Rest, vars
<1>6. QED
  BY <1>1, <1>2, <1>3, <1>4, <1>5 DEF Next

\* The edges that leave a step that is done are pruned no more.
LEMMA DoneKeepsEdges ==
  ASSUME Calm, CalmInvariant, [Next]_vars, NEW e \in Edges, status[From[e]] \in Terminal
  PROVE  e \in live' <=> e \in live
<1>1. CASE UNCHANGED live
  BY <1>1
<1>2. ASSUME NEW w \in Workers, CommitBranchWrite(w) PROVE e \in live' <=> e \in live
  <2>1. live' = live \ prune[w].dead /\ pc[w] = "pruning"
    BY <1>2 DEF CommitBranchWrite
  <2>2. \A d \in prune[w].dead : From[d] = job[w]
    BY <2>1 DEF CalmInvariant, PrunesItsOwn, Outgoing
  <2>3. status[job[w]] = "running"
    BY <2>1, CommitsItsOwn
  <2>4. QED
    BY <2>1, <2>2, <2>3
<1>3. QED
  BY <1>1, <1>2, EdgeWrites

LEMMA ParentIsNode == \A e \in Edges : From[e] \in Nodes /\ To[e] \in Nodes
BY GraphAssumption

LEMMA SatisfiedStep ==
  ASSUME Calm, CalmInvariant, [Next]_vars
  PROVE  SatisfiedByDone'
<1>1. satisfied \subseteq Edges
  BY DEF CalmInvariant, JoinInvariant, TypeOK
<1>2. \A e \in satisfied : status'[From[e]] \in Terminal
  BY <1>1, ParentIsNode, DoneStays DEF CalmInvariant, SatisfiedByDone
<1>3. CASE AdvanceCommit
  <2>1. PICK skips, ready \in SUBSET Nodes : Decision(skips, ready)
    BY <1>3, AdvanceDecides
  <2> DEFINE st == Skipping(skips)
  <2>2. satisfied' = satisfied \cup {e \in Edges : st[From[e]] \in Terminal}
    BY <2>1 DEF Decision, SatisfiedBy
  <2>3. \A n \in Nodes : st[n] \in Terminal => status'[n] = st[n]
    BY <2>1 DEF Decision
  <2>4. QED
    BY <1>2, <2>2, <2>3, ParentIsNode DEF SatisfiedByDone
<1>4. CASE UNCHANGED satisfied
  BY <1>2, <1>4 DEF SatisfiedByDone
<1>5. QED
  BY <1>3, <1>4, EdgeWrites

LEMMA ReadStep ==
  ASSUME Calm, CalmInvariant, [Next]_vars
  PROVE  ReadHolds'
<1>1. /\ adv \in AdvanceType /\ satisfied \subseteq Edges /\ live \subseteq Edges
      /\ status \in [Nodes -> StepStatus]
  BY DEF CalmInvariant, JoinInvariant, TypeOK
<1>2. CASE AdvanceReturn \/ AdvanceLock
  BY <1>1, <1>2 DEF AdvanceReturn, AdvanceLock, AdvanceType, CalmInvariant, ReadHolds
<1>3. CASE AdvanceReadSteps
  <2>1. adv'.pc = "steps" /\ adv'.status = status /\ UNCHANGED <<status, satisfied>>
    BY <1>1, <1>3 DEF AdvanceReadSteps, AdvanceType
  <2>2. \A n \in Nodes : status[n] # "absent"
    BY <1>3 DEF AdvanceReadSteps, CalmInvariant, AllOrNone
  <2>3. \A e \in satisfied : status[From[e]] \in Terminal
    BY DEF CalmInvariant, SatisfiedByDone
  <2>4. QED
    BY <2>1, <2>2, <2>3 DEF ReadHolds
<1>4. CASE AdvanceReadDeps
  <2>1. /\ adv'.pc = "deps" /\ adv'.status = adv.status /\ adv'.live = live
        /\ UNCHANGED <<status, satisfied, live>> /\ adv.pc = "steps"
    BY <1>1, <1>4 DEF AdvanceReadDeps, AdvanceType
  <2>2. QED
    BY <2>1 DEF ReadHolds, CalmInvariant
<1>5. CASE AdvanceCommit
  BY <1>5 DEF AdvanceCommit, NoAdvance, ReadHolds
<1>6. CASE UNCHANGED <<adv, satisfied>> /\ ~AdvanceCommit
  <2> SUFFICES ASSUME adv.pc \in {"steps", "deps"} PROVE ReadHolds'
    BY <1>6 DEF ReadHolds
  <2>1. \A n \in Nodes : adv.status[n] \in Terminal \cup {"pending"} => status'[n] = adv.status[n]
    BY <1>6, DoneStays DEF CalmInvariant, ReadHolds
  <2>2. \A e \in Edges : adv.status[From[e]] \in Terminal => status[From[e]] \in Terminal
    BY ParentIsNode DEF CalmInvariant, ReadHolds
  <2>3. \A e \in Edges : adv.status[From[e]] \in Terminal => (e \in live' <=> e \in live)
    BY <2>2, DoneKeepsEdges
  <2>4. QED
    BY <1>6, <2>1, <2>3 DEF CalmInvariant, ReadHolds
<1>7. QED
  BY <1>2, <1>3, <1>4, <1>5, <1>6, EdgeWrites DEF AdvanceStep

\* A step is started by start_run, if nothing leads to it, and by advance_run.
LEMMA StartedBefore ==
  ASSUME Calm, CalmInvariant, [Next]_vars, ~AdvanceCommit, NEW n \in Nodes, status'[n] \in Started
  PROVE  status[n] \in Started \/ Incoming(n) = {}
<1>1. status \in [Nodes -> StepStatus] /\ status[n] # "cancelled"
  BY DEF CalmInvariant, JoinInvariant, TypeOK, NothingCancelled
<1>2. status[n] \notin {"skipped", "pending"}
  BY DoneStays DEF Started
<1>3. CASE StartRun
  BY <1>3 DEF StartRun, Started, Roots
<1>4. CASE ~StartRun
  BY <1>1, <1>2, <1>4, DoneStays DEF Started
<1>5. QED
  BY <1>3, <1>4

\* No transaction but advance_run's commit changes what was delivered, or starts a
\* step that has parents.
LEMMA InputsFrame ==
  ASSUME Calm, CalmInvariant, [Next]_vars, ~AdvanceCommit
  PROVE  InputsAreDelivered' /\ InputsAreThere'
<1>1. UNCHANGED <<satisfied, inputs>> /\ satisfied \subseteq Edges
  BY EdgeWrites DEF CalmInvariant, JoinInvariant, TypeOK
<1>2. \A e \in satisfied : /\ status'[From[e]] = status[From[e]]
                           /\ e \in live' <=> e \in live
  BY <1>1, ParentIsNode, DoneStays, DoneKeepsEdges DEF CalmInvariant, SatisfiedByDone
<1>3. \A n, p \in Nodes : DeliveredBy(p, n)' <=> DeliveredBy(p, n)
  BY <1>1, <1>2 DEF DeliveredBy, Incoming
<1>4. InputsAreDelivered'
  BY <1>1, <1>3 DEF CalmInvariant, InputsAreDelivered
<1>5. InputsAreThere'
  BY <1>1, StartedBefore DEF CalmInvariant, InputsAreThere, Incoming
<1>6. QED
  BY <1>4, <1>5

LEMMA InputsAdvance ==
  ASSUME Calm, CalmInvariant, AdvanceCommit
  PROVE  InputsAreDelivered' /\ InputsAreThere'
<1>1. PICK skips, ready \in SUBSET Nodes : Decision(skips, ready)
  BY AdvanceDecides
<1> DEFINE st == Skipping(skips)
<1>2. /\ status \in [Nodes -> StepStatus] /\ inputs \in [Nodes -> SUBSET Nodes]
      /\ satisfied \subseteq Edges /\ adv \in AdvanceType
  BY DEF CalmInvariant, JoinInvariant, TypeOK
<1>3. UNCHANGED live /\ adv.pc = "deps"
  BY DEF AdvanceCommit
<1>4. satisfied' = satisfied \cup {e \in Edges : st[From[e]] \in Terminal}
  BY <1>1 DEF Decision, SatisfiedBy
<1>5. \A n \in Nodes : st[n] \in Terminal => status'[n] = st[n]
  BY <1>1 DEF Decision
<1>6. \A p \in Nodes : status'[p] = "succeeded" <=> status[p] = "succeeded"
  BY <1>1 DEF Decision
<1>7. ASSUME NEW e \in Edges, st[From[e]] = "succeeded"
      PROVE  /\ e \in adv.live <=> e \in live
             /\ status'[From[e]] = "succeeded" /\ e \in satisfied'
  <2>1. adv.status[From[e]] = "succeeded"
    BY <1>7, ParentIsNode DEF Skipping
  <2>2. QED
    BY <1>3, <1>4, <1>5, <1>7, <2>1, ParentIsNode DEF CalmInvariant, ReadHolds
<1>8. ASSUME NEW n \in Nodes, NEW p \in Nodes
      PROVE  p \in inputs'[n] <=>
               \/ p \in inputs[n]
               \/ \E e \in Incoming(n) : /\ From[e] = p /\ e \in live
                                         /\ e \notin satisfied /\ st[p] = "succeeded"
  <2>1. inputs'[n] = inputs[n] \cup
          {From[e] : e \in {d \in NewlySatisfied(n, st) : st[From[d]] = "succeeded"}}
    BY <1>1 DEF Decision
  <2>2. \A d \in Edges : st[From[d]] = "succeeded" =>
          (d \in NewlySatisfied(n, st) <=> d \in Incoming(n) /\ d \in live /\ d \notin satisfied)
    BY <1>7, <1>4 DEF NewlySatisfied, LiveIn, SatisfiedBy
  <2> HIDE DEF st
  <2>3. QED
    BY <2>1, <2>2 DEF Incoming, NewlySatisfied, LiveIn
<1>9. ASSUME NEW n \in Nodes, NEW p \in Nodes
      PROVE  p \in inputs'[n] <=> DeliveredBy(p, n)'
  <2>1. p \in inputs[n] <=> DeliveredBy(p, n)
    BY DEF CalmInvariant, InputsAreDelivered
  <2>2. ASSUME p \in inputs'[n] PROVE DeliveredBy(p, n)'
    <3> HIDE DEF st
    <3>1. CASE p \in inputs[n]
      BY <1>3, <1>4, <1>6, <2>1, <3>1 DEF DeliveredBy, Incoming
    <3>2. CASE p \notin inputs[n]
      BY <1>3, <1>7, <1>8, <2>2, <3>2 DEF DeliveredBy, Incoming
    <3>3. QED
      BY <3>1, <3>2
  <2>3. ASSUME DeliveredBy(p, n)' PROVE p \in inputs'[n]
    <3> HIDE DEF st
    <3>1. PICK e \in Incoming(n) : /\ From[e] = p /\ e \in live /\ e \in satisfied'
                                  /\ status'[p] = "succeeded"
      BY <1>3, <2>3 DEF DeliveredBy, Incoming
    <3>2. CASE e \in satisfied
      BY <1>6, <1>8, <2>1, <3>1, <3>2 DEF DeliveredBy
    <3>3. CASE e \notin satisfied
      BY <1>4, <1>5, <1>8, <3>1, <3>3
    <3>4. QED
      BY <3>2, <3>3
  <2>4. QED
    BY <2>2, <2>3
<1>10. InputsAreDelivered'
  BY <1>9 DEF InputsAreDelivered
<1>11. InputsAreThere'
  <2> SUFFICES ASSUME NEW n \in Nodes, status'[n] \in Started, Incoming(n) # {}
               PROVE  inputs'[n] # {}
    BY DEF InputsAreThere, Incoming
  <2>1. CASE n \in ready
    <3>1. PICK e \in LiveIn(n) : st[From[e]] = "succeeded"
      BY <1>1, <2>1 DEF Decision, Delivered
    <3> HIDE DEF st
    <3>2. /\ e \in Edges /\ e \in Incoming(n) /\ From[e] \in Nodes
          /\ e \in live /\ e \in satisfied' /\ status'[From[e]] = "succeeded"
      BY <1>7, <3>1, ParentIsNode DEF LiveIn, Incoming
    <3>3. DeliveredBy(From[e], n)'
      BY <1>3, <3>2 DEF DeliveredBy, Incoming
    <3>4. QED
      BY <1>9, <3>2, <3>3
  <2>2. CASE n \notin ready
    <3>1. status[n] \in Started
      BY <1>1, <2>2 DEF Decision, Started
    <3>2. QED
      BY <1>1, <3>1 DEF Decision, CalmInvariant, InputsAreThere
  <2>3. QED
    BY <2>1, <2>2
<1>12. QED
  BY <1>10, <1>11

\* A run that is closed is closed with every step done, and with the right verdict.
LEMMA ClosedWhenDone ==
  ASSUME CalmInvariant, AdvanceCommit, NEW skips, NEW ready, Decision(skips, ready),
         run' \in RunTerminal
  PROVE  /\ \A n \in Nodes : status'[n] \in Terminal
         /\ run' = IF FailRun /\ \E n \in Nodes : status'[n] = "failed"
                   THEN "failed" ELSE "completed"
<1> DEFINE st == Skipping(skips)
           final == [n \in Nodes |-> IF n \in ready THEN "ready" ELSE st[n]]
<1>1. /\ run \notin RunTerminal /\ adv.run \notin RunTerminal
      /\ \A n \in Nodes : adv.status[n] \in StepStatus /\ adv.status[n] # "absent"
  BY DEF AdvanceCommit, CalmInvariant, OverIsDone, ReadHolds, JoinInvariant, TypeOK, AdvanceType
<1>2. run' = RunOutcome(final)
  BY <1>1 DEF Decision
<1>3. ~ \E n \in Nodes : final[n] \in Active \cup {"waiting"}
  BY <1>1, <1>2 DEF RunOutcome
<1>4. \A n \in Nodes : final[n] = "ready" \/ final[n] \in StepStatus \ {"absent"}
  BY <1>1 DEF Skipping
<1>5. \A n \in Nodes : final[n] \in Terminal
  BY <1>3, <1>4
<1>6. \A n \in Nodes : final[n] = st[n] /\ st[n] \in Terminal
  BY <1>5
<1>7. \A n \in Nodes : status'[n] = final[n]
  BY <1>6 DEF Decision
<1>8. RunOutcome(final) = IF (\E n \in Nodes : final[n] = "failed") /\ FailRun
                          THEN "failed" ELSE "completed"
  BY <1>3 DEF RunOutcome
<1>9. QED
  BY <1>2, <1>5, <1>7, <1>8

LEMMA OverStep ==
  ASSUME Calm, CalmInvariant, [Next]_vars
  PROVE  OverIsDone'
<1>1. /\ adv \in AdvanceType /\ advQ \subseteq Nodes
      /\ run \in RunTerminal => Nodes # {} /\ \A n \in Nodes : status[n] \in Terminal
      /\ adv.pc # "idle" => Nodes # {} /\ run \notin RunTerminal /\ adv.run \notin RunTerminal
  BY DEF CalmInvariant, JoinInvariant, TypeOK, OverIsDone
<1>2. CASE AdvanceCommit
  <2>1. PICK skips, ready \in SUBSET Nodes : Decision(skips, ready)
    BY <1>2, AdvanceDecides
  <2>2. run' \in RunTerminal => \A n \in Nodes : status'[n] \in Terminal
    BY <1>2, <2>1, ClosedWhenDone
  <2>3. QED
    BY <1>1, <1>2, <2>2 DEF AdvanceCommit, NoAdvance, OverIsDone
<1>3. CASE UNCHANGED run /\ ~AdvanceCommit
  <2>1. run \in RunTerminal => \A n \in Nodes : status'[n] \in Terminal
    BY <1>1, DoneStays
  <2>2. CASE UNCHANGED adv
    BY <1>1, <1>3, <2>1, <2>2 DEF OverIsDone
  <2>3. CASE AdvanceStep
    BY <1>1, <1>3, <2>1, <2>3
    DEF AdvanceStep, AdvanceReturn, AdvanceLock, AdvanceReadSteps, AdvanceReadDeps, AdvanceType, OverIsDone
  <2>4. QED
    BY <2>2, <2>3, EdgeWrites
<1>4. CASE StartRun \/ \E w \in Workers : ResumeRun(w)
  BY <1>1, <1>4 DEF StartRun, ResumeRun, OverIsDone
<1>5. QED
  BY <1>2, <1>3, <1>4, RunWrites

LEMMA CalmStep ==
  ASSUME Calm, CalmInvariant, [Next]_vars
  PROVE  CalmInvariant'
<1>1. JoinInvariant'
  BY JoinStep DEF CalmInvariant
<1>2. InputsAreDelivered' /\ InputsAreThere'
  BY InputsAdvance, InputsFrame
<1>3. QED
  BY <1>1, <1>2, CancelStep, AllOrNoneStep, ApartStep, SatisfiedStep, ReadStep, OverStep
  DEF CalmInvariant, WorkersApart

LEMMA InputsAreComplete == CalmInvariant => InputsComplete
<1> SUFFICES ASSUME CalmInvariant, NEW n \in Nodes, status[n] \in Started
             PROVE  LET parents == {From[e] : e \in Incoming(n) \cap live}
                    IN /\ \A p \in parents : status[p] \in Terminal
                       /\ inputs[n] = {p \in parents : status[p] = "succeeded"}
                       /\ Incoming(n) # {} => inputs[n] # {}
  BY DEF InputsComplete
<1> DEFINE parents == {From[e] : e \in Incoming(n) \cap live}
<1>1. \A e \in Incoming(n) \cap live : e \in satisfied
  BY DEF CalmInvariant, JoinInvariant, JoinClosed, LiveUnsatisfied
<1>2. \A p \in parents : status[p] \in Terminal
  BY <1>1 DEF CalmInvariant, SatisfiedByDone
<1>3. inputs[n] \subseteq Nodes /\ parents \subseteq Nodes
  BY ParentIsNode DEF CalmInvariant, JoinInvariant, TypeOK, Incoming
<1>4. \A p \in Nodes : p \in inputs[n] <=> p \in parents /\ status[p] = "succeeded"
  BY <1>1 DEF CalmInvariant, InputsAreDelivered, DeliveredBy
<1>5. inputs[n] = {p \in parents : status[p] = "succeeded"}
  BY <1>3, <1>4
<1>6. Incoming(n) # {} => inputs[n] # {}
  BY DEF CalmInvariant, InputsAreThere
<1>7. QED
  BY <1>2, <1>5, <1>6

\* A step that was started has all its live parents finished, at least one of them well,
\* and the output of each that succeeded; nothing arrived over a pruned edge.  With what
\* Calm excludes, a parent that is done may be run again.
THEOREM InputsAreWhole ==
  ASSUME Calm
  PROVE  Spec => []InputsComplete
<1>1. CalmInvariant /\ [Next]_vars => CalmInvariant'
  BY CalmStep
<1>2. QED
  BY <1>1, CalmInit, InputsAreComplete, PTL DEF Spec

\* Two workers are never inside the handler of one step, and a worker is inside one only
\* while the step's row says running.
THEOREM OneWorkerInStep ==
  ASSUME Calm
  PROVE  Spec => []OneWorkerPerStep
<1>1. CalmInvariant /\ [Next]_vars => CalmInvariant'
  BY CalmStep
<1>2. CalmInvariant => OneWorkerPerStep
  BY DEF CalmInvariant
<1>3. QED
  BY <1>1, <1>2, CalmInit, PTL DEF Spec

----------------------------------------------------------------------------
(***************************************************************************)
(* The refinement: every transaction opens, finishes or skips nodes for    *)
(* the reasons DagRun gives, or leaves the abstract run as it is.          *)
(***************************************************************************)
Outcome == IF run \in RunTerminal THEN run ELSE "open"

LEMMA PhaseOfStep ==
  ASSUME status \in [Nodes -> StepStatus]
  PROVE  /\ Phase = [n \in Nodes |-> Phase[n]]
         /\ \A n \in Nodes :
              /\ Phase[n] = "blocked" <=> status[n] \in {"absent", "pending"}
              /\ Phase[n] = "open" <=> status[n] \in {"ready", "running", "waiting"}
              /\ Phase[n] = "ok" <=> status[n] = "succeeded"
              /\ Phase[n] = "skipped" <=> status[n] = "skipped"
              /\ Phase[n] = "bad" <=> status[n] \in {"failed", "cancelled"}
BY DEF Phase

LEMMA PhaseOfNextStep ==
  ASSUME status' \in [Nodes -> StepStatus]
  PROVE  /\ Phase' = [n \in Nodes |-> Phase'[n]]
         /\ \A n \in Nodes :
              /\ Phase'[n] = "blocked" <=> status'[n] \in {"absent", "pending"}
              /\ Phase'[n] = "open" <=> status'[n] \in {"ready", "running", "waiting"}
              /\ Phase'[n] = "ok" <=> status'[n] = "succeeded"
              /\ Phase'[n] = "skipped" <=> status'[n] = "skipped"
              /\ Phase'[n] = "bad" <=> status'[n] \in {"failed", "cancelled"}
BY DEF Phase

LEMMA SamePhase ==
  ASSUME status \in [Nodes -> StepStatus],
         \A n \in Nodes : \/ status'[n] = status[n]
                         \/ {status[n], status'[n]} \subseteq {"ready", "running", "waiting"}
  PROVE  Phase' = Phase
BY DEF Phase

LEMMA DagInit == Init => Dag!Init
BY DEF Init, Dag!Init, Phase

\* The worker commits its step well, pruning some of the edges that leave it.
LEMMA DagFinishes ==
  ASSUME CalmInvariant, TypeOK', run \notin RunTerminal, UNCHANGED run,
         NEW w \in Workers, pc[w] \in {"handling", "pruning"},
         NEW s \in {"succeeded", "failed"}, Commit(w, s),
         NEW dead \in SUBSET Outgoing(job[w]), live' = live \ dead, s = "failed" => dead = {}
  PROVE  Dag!Next
<1>1. job[w] \in Nodes /\ status[job[w]] = "running"
  BY CommitsItsOwn
<1>2. status \in [Nodes -> StepStatus] /\ status' \in [Nodes -> StepStatus]
  BY DEF CalmInvariant, JoinInvariant, TypeOK
<1>3. \A n \in Nodes : status'[n] = IF n = job[w] THEN s ELSE status[n]
  BY <1>1, <1>2 DEF Commit
<1>4. Phase[job[w]] = "open"
  BY <1>1, <1>2, PhaseOfStep
<1>5. Phase' = [Phase EXCEPT ![job[w]] = IF s = "failed" THEN "bad" ELSE "ok"]
  BY <1>1, <1>3 DEF Phase
<1>6. (Edges \ live)' = (Edges \ live) \cup dead
  BY DEF Outgoing
<1>7. CASE s = "succeeded"
  <2>1. Dag!FinishWell(job[w])
    BY <1>4, <1>5, <1>6, <1>7 DEF Dag!FinishWell, Dag!Outgoing, Outgoing
  <2>2. QED
    BY <1>1, <2>1 DEF Dag!Next
<1>8. CASE s = "failed"
  <2>1. Dag!FinishBadly(job[w])
    BY <1>4, <1>5, <1>6, <1>8 DEF Dag!FinishBadly
  <2>2. QED
    BY <1>1, <2>1 DEF Dag!Next
<1>9. QED
  BY <1>7, <1>8

\* advance_run opens what may be opened, gives up what may be given up, and closes the
\* run only when that leaves every node done.
LEMMA DagAdvance ==
  ASSUME Calm, CalmInvariant, CalmInvariant', AdvanceCommit
  PROVE  Dag!Next
<1>1. PICK skips, ready \in SUBSET Nodes : Decision(skips, ready)
  BY AdvanceDecides
<1> DEFINE st == Skipping(skips)
<1>2. /\ status \in [Nodes -> StepStatus] /\ status' \in [Nodes -> StepStatus]
      /\ live \subseteq Edges /\ live' = live
      /\ run \notin RunTerminal /\ adv.pc = "deps"
  BY DEF CalmInvariant, JoinInvariant, TypeOK, AdvanceCommit, OverIsDone
<1>3. /\ skips \cap ready = {}
      /\ \A n \in skips \cup ready : status[n] = "pending"
      /\ status' = [n \in Nodes |-> IF n \in skips THEN "skipped"
                                    ELSE IF n \in ready THEN "ready" ELSE status[n]]
      /\ \A n \in Nodes : st[n] \in Terminal => status'[n] = st[n]
      /\ satisfied' = satisfied \cup {e \in Edges : st[From[e]] \in Terminal}
  BY <1>1 DEF Decision, SatisfiedBy
<1>4. Phase' = [n \in Nodes |-> IF n \in ready THEN "open" ELSE IF n \in skips THEN "skipped"
                                ELSE Phase[n]]
  BY <1>3 DEF Phase
<1>5. ready \in SUBSET {n \in Nodes \ skips : Phase[n] = "blocked"}
      /\ skips \in SUBSET {n \in Nodes : Phase[n] = "blocked"}
  BY <1>2, <1>3, PhaseOfStep
<1>6. ASSUME NEW n \in ready PROVE Dag!MayOpen(n, Phase')
  <2>1. \A e \in Incoming(n) \cap live : Phase'[From[e]] \in Dag!Done
    <3>1. n \in Nodes /\ status'[n] = "ready"
      BY <1>3
    <3>2. \A e \in Incoming(n) \cap live : e \in satisfied'
      BY <1>2, <3>1 DEF CalmInvariant, JoinInvariant, JoinClosed, LiveUnsatisfied, Started, Incoming
    <3>3. \A e \in Incoming(n) \cap live : status'[From[e]] \in Terminal
      BY <3>2 DEF CalmInvariant, SatisfiedByDone
    <3>4. QED
      BY <1>2, <3>3, PhaseOfNextStep, ParentIsNode DEF Dag!Done, Incoming
  <2>2. CASE Incoming(n) = {}
    BY <2>2 DEF Dag!MayOpen, Dag!Incoming, Incoming
  <2>3. CASE Delivered(n, st)
    <3>1. PICK e \in Incoming(n) : e \in adv.live /\ st[From[e]] = "succeeded"
      BY <2>3 DEF Delivered, LiveIn
    <3>2. e \in Edges /\ From[e] \in Nodes /\ adv.status[From[e]] = "succeeded"
      BY <3>1, ParentIsNode DEF Skipping, Incoming
    <3>3. e \in live /\ Phase'[From[e]] = "ok"
      BY <1>2, <1>3, <3>1, <3>2, PhaseOfNextStep DEF CalmInvariant, ReadHolds
    <3>4. QED
      BY <1>2, <2>1, <3>1, <3>3 DEF Dag!MayOpen, Dag!Incoming, Incoming
  <2>4. QED
    BY <1>1, <2>2, <2>3 DEF Decision
<1>7. ASSUME NEW n \in skips PROVE Dag!MayBeSkipped(n, Phase')
  <2>1. /\ Incoming(n) # {} /\ LiveIn(n) \subseteq SatisfiedBy(st)
        /\ ~ Delivered(n, st)
    BY <1>1 DEF Decision, MustSkip
  <2>2. live \subseteq adv.live
    BY <1>2 DEF CalmInvariant, JoinInvariant, AdvanceSafe
  <2>3. ASSUME NEW e \in Incoming(n) \cap live PROVE Phase'[From[e]] \in {"bad", "skipped"}
    <3>1. e \in LiveIn(n) /\ e \in Edges /\ From[e] \in Nodes
      BY <2>2, <2>3, ParentIsNode DEF LiveIn, Incoming
    <3>2. st[From[e]] # "succeeded"
      BY <2>1, <3>1 DEF Delivered
    <3>3. st[From[e]] \in Terminal
      <4>1. CASE e \in satisfied
        BY <1>2, <3>1, <4>1 DEF CalmInvariant, ReadHolds, Skipping
      <4>2. CASE e \notin satisfied
        BY <2>1, <3>1, <4>2 DEF SatisfiedBy
      <4>3. QED
        BY <4>1, <4>2
    <3>4. status'[From[e]] \in Terminal /\ status'[From[e]] # "succeeded"
      BY <1>3, <3>1, <3>2, <3>3
    <3>5. QED
      BY <1>2, <3>1, <3>4, PhaseOfNextStep
  <2>4. QED
    BY <1>2, <2>1, <2>3 DEF Dag!MayBeSkipped, Dag!Incoming, Incoming
<1>8. \/ Outcome' = Outcome
      \/ /\ \A n \in Nodes : Phase'[n] \in Dag!Done
         /\ Outcome' = Dag!Verdict(Phase')
  <2>1. CASE run' \notin RunTerminal
    BY <1>2, <2>1 DEF Outcome
  <2>2. CASE run' \in RunTerminal
    <3>1. /\ \A n \in Nodes : status'[n] \in Terminal
          /\ run' = IF FailRun /\ \E n \in Nodes : status'[n] = "failed"
                    THEN "failed" ELSE "completed"
      BY <1>1, <2>2, ClosedWhenDone
    <3>2. \A n \in Nodes : status'[n] = "failed" <=> Phase'[n] = "bad"
      BY <1>2, PhaseOfNextStep DEF CalmInvariant, NothingCancelled
    <3>3. QED
      BY <1>2, <2>2, <3>1, <3>2, PhaseOfNextStep DEF Dag!Done, Dag!Verdict, Outcome
  <2>3. QED
    BY <2>1, <2>2
<1>9. Dag!Decide
  BY <1>2, <1>4, <1>5, <1>6, <1>7, <1>8 DEF Dag!Decide, Outcome
<1>10. QED
  BY <1>2, <1>9 DEF Dag!Next, Outcome

LEMMA DagStart ==
  ASSUME CalmInvariant, CalmInvariant', StartRun, run \notin RunTerminal
  PROVE  Dag!Next
<1>1. /\ status \in [Nodes -> StepStatus] /\ status' \in [Nodes -> StepStatus]
      /\ live' = live /\ run' \notin RunTerminal /\ Roots \subseteq Nodes
      /\ \A n \in Nodes : status[n] = "absent"
  BY DEF CalmInvariant, JoinInvariant, TypeOK, StartRun, Roots
<1>2. Phase' = [n \in Nodes |-> IF n \in Roots THEN "open" ELSE Phase[n]]
  BY <1>1 DEF StartRun, Phase
<1>3. Roots \in SUBSET {n \in Nodes : Phase[n] = "blocked"}
  BY <1>1, PhaseOfStep
<1>4. \A n \in Roots : Dag!MayOpen(n, Phase')
  BY DEF Roots, Incoming, Dag!MayOpen, Dag!Incoming
<1>5. Dag!Decide
  <2>1. /\ {} \in SUBSET {n \in Nodes : Phase[n] = "blocked"}
        /\ Roots \in SUBSET {n \in Nodes \ {} : Phase[n] = "blocked"}
    BY <1>3
  <2>2. Phase' = [n \in Nodes |-> IF n \in Roots THEN "open" ELSE IF n \in {} THEN "skipped"
                                  ELSE Phase[n]]
    BY <1>2
  <2>3. Outcome' = Outcome /\ (Edges \ live)' = Edges \ live
    BY <1>1 DEF Outcome
  <2>4. \A n \in {} : Dag!MayBeSkipped(n, Phase')
    OBVIOUS
  <2>5. QED
    BY <1>4, <2>1, <2>2, <2>3, <2>4 DEF Dag!Decide, Outcome
<1>6. QED
  BY <1>5 DEF Dag!Next

\* A run that is over is not touched: every step is done, so that nobody has one.
LEMMA DagOver ==
  ASSUME Calm, CalmInvariant, [Next]_vars, run \in RunTerminal
  PROVE  UNCHANGED <<Phase, Edges \ live, Outcome>>
<1>1. Nodes # {} /\ adv.pc = "idle" /\ \A n \in Nodes : status[n] \in Terminal
  BY DEF CalmInvariant, OverIsDone
<1>2. \A w \in Workers : pc[w] \in {"idle", "reporting"}
  <2>1. \A w \in Workers : pc[w] \in WorkerPc
    BY DEF CalmInvariant, JoinInvariant, TypeOK
  <2>2. QED
    BY <1>1, <2>1, CommitsItsOwn
<1>3. ~StartRun /\ ~AdvanceCommit /\ \A w \in Workers : ~ResumeRun(w) /\ ~CommitBranchWrite(w)
  BY <1>1, <1>2 DEF StartRun, AdvanceCommit, ResumeRun, CommitBranchWrite
<1>4. UNCHANGED run /\ UNCHANGED live
  BY <1>3, RunWrites, EdgeWrites
<1>5. \A n \in Nodes : status'[n] = status[n]
  BY <1>1, DoneStays
<1>6. Phase' = Phase
  BY <1>5 DEF Phase
<1>7. QED
  BY <1>4, <1>6 DEF Outcome

LEMMA DagStep ==
  ASSUME Calm, CalmInvariant, [Next]_vars
  PROVE  [Dag!Next]_(Dag!vars)
<1>1. CalmInvariant'
  BY CalmStep
<1>2. /\ status \in [Nodes -> StepStatus] /\ TypeOK'
      /\ live \subseteq Edges
  BY <1>1 DEF CalmInvariant, JoinInvariant, TypeOK
<1>3. CASE run \in RunTerminal
  BY <1>3, DagOver DEF Dag!vars, Outcome
<1>4. CASE run \notin RunTerminal
  <2>1. CASE StartRun
    BY <1>1, <1>4, <2>1, DagStart
  <2>2. CASE AdvanceCommit
    BY <1>1, <2>2, DagAdvance
  <2>3. ASSUME NEW w \in Workers,
               CommitOutput(w) \/ CommitBranchWrite(w) \/ FailStep(w)
        PROVE  Dag!Next
    <3>1. CASE CommitOutput(w) \/ FailStep(w)
      <4>1. PICK s \in {"succeeded", "failed"} : Commit(w, s)
        BY <3>1 DEF CommitOutput, FailStep
      <4>2. pc[w] \in {"handling", "pruning"} /\ UNCHANGED run /\ live' = live \ {}
        BY <3>1 DEF CommitOutput, FailStep
      <4>3. {} \in SUBSET Outgoing(job[w])
        OBVIOUS
      <4>4. QED
        BY <1>2, <1>4, <4>1, <4>2, <4>3, DagFinishes
    <3>2. CASE CommitBranchWrite(w)
      <4>1. /\ pc[w] \in {"handling", "pruning"} /\ UNCHANGED run /\ Commit(w, "succeeded")
            /\ live' = live \ prune[w].dead
        BY <3>2 DEF CommitBranchWrite
      <4>2. prune[w].dead \in SUBSET Outgoing(job[w])
        BY <3>2 DEF CommitBranchWrite, CalmInvariant, PrunesItsOwn
      <4>3. QED
        BY <1>2, <1>4, <4>1, <4>2, DagFinishes
    <3>3. QED
      BY <2>3, <3>1, <3>2
  <2>4. ASSUME ~StartRun, ~AdvanceCommit,
               \A w \in Workers : ~CommitOutput(w) /\ ~CommitBranchWrite(w) /\ ~FailStep(w)
        PROVE  UNCHANGED <<Phase, Edges \ live, Outcome>>
    <3>1. UNCHANGED live
      BY <2>4, EdgeWrites
    <3>2. UNCHANGED Outcome
      <4>1. CASE \E w \in Workers : ResumeRun(w)
        BY <1>4, <4>1 DEF ResumeRun, Outcome
      <4>2. QED
        BY <2>4, <4>1, RunWrites DEF Outcome
    <3>3. \A n \in Nodes : \/ status'[n] = status[n]
                          \/ {status[n], status'[n]} \subseteq {"ready", "running", "waiting"}
      <4>1. CASE \E w \in Workers, n \in Nodes : ClaimReadyStep(w, n)
        BY <1>2, <4>1 DEF ClaimReadyStep
      <4>2. CASE SweepWrite \/ SignalWrite
        BY <4>2 DEF SweepWrite, SignalWrite, CalmInvariant, WakesSleepers
      <4>3. CASE \E w \in Workers : RetryStep(w) \/ CommitSuspend(w)
        BY <1>2, <4>3, CommitsItsOwn DEF RetryStep, CommitSuspend, Commit
      <4>4. CASE UNCHANGED status
        BY <4>4
      <4>5. CASE \E w \in Workers : SetUpCancelled(w) \/ AbandonStep(w)
        BY <4>5 DEF SetUpCancelled, AbandonStep, CalmInvariant, NothingCancelled
      <4>6. QED
        BY <2>4, <4>1, <4>2, <4>3, <4>4, <4>5, StatusWrites
    <3>4. Phase' = Phase
      BY <1>2, <3>3, SamePhase
    <3>5. QED
      BY <3>1, <3>2, <3>4
  <2>5. QED
    BY <2>1, <2>2, <2>3, <2>4 DEF Dag!vars, Outcome
<1>5. QED
  BY <1>3, <1>4

\* Every run of the scheduler that Calm describes is, seen through Phase, a run of
\* DagRun: nodes open and are skipped only for the reasons it gives, finish once, and the
\* run is closed once, with the right verdict, when every node is done.
THEOREM RowsImplementDagRun ==
  ASSUME Calm
  PROVE  Spec => ImplementsDagRun
<1>1. CalmInvariant /\ [Next]_vars => CalmInvariant'
  BY CalmStep
<1>2. CalmInvariant /\ [Next]_vars => [Dag!Next]_(Dag!vars)
  BY DagStep
<1>3. QED
  BY <1>1, <1>2, CalmInit, DagInit, PTL DEF Spec, ImplementsDagRun, Dag!Spec

----------------------------------------------------------------------------
(***************************************************************************)
(* That no run is stuck.  advance_run is the only transaction that starts  *)
(* a step, so that two things have to hold besides what Calm says: the     *)
(* message that calls it after a commit arrives, and the join counters are *)
(* right, not merely never too low.                                        *)
(***************************************************************************)
\* The message a worker owes after its commit is sent and not lost.
FollowUpsArrive == "crash_report" \notin Env /\ "lose_advance" \notin Env

PrunedInto(w, t) == {e \in prune[w].dead : To[e] = t}

\* No transaction overwrites a join counter that has changed since it read it.
CountersKept ==
  /\ \A w \in Workers : CommitBranchWrite(w) =>
       \A t \in prune[w].hit :
         deps_remaining[t] = prune[w].left[t] + Cardinality(PrunedInto(w, t))
  /\ AdvanceCommit =>
       \A n \in Nodes : deps_remaining[n] # adv.left[n] =>
         LiveIn(n) \cap (satisfied' \ satisfied) = {}

\* An edge is pruned by the commit that finishes its parent.
DeadByDone == \A e \in Edges \ live : status[From[e]] \in Terminal

\* The counter of a step is the number of edges it still waits for, and what the
\* commit of a Branch has read is what it prunes.
CounterExact == \A n \in Nodes : deps_remaining[n] = Cardinality(LiveUnsatisfied(n))
PruneExact == \A w \in Workers : pc[w] = "pruning" => prune[w].hit = {To[e] : e \in prune[w].dead}

\* What advance_run has read of the counters counts the edges that were live when it
\* read them: those that still are, and those pruned by a step it has not read as done.
SeenWaiting(n) ==
  {e \in Incoming(n) : e \notin satisfied /\ (e \in live \/ adv.status[From[e]] \notin Terminal)}
ReadExact ==
  adv.pc \in {"steps", "deps"} =>
    \A n \in Nodes : /\ adv.left[n] = Cardinality(SeenWaiting(n))
                     /\ status[n] = "pending" => adv.status[n] = "pending"

\* Who is parked can be woken, and is woken by whoever has picked up its event.
ParkedIsArmed ==
  /\ \A n \in Nodes : status[n] = "waiting" => n \in armed
  /\ \A n \in Nodes : status[n] = "waiting" /\ n \in sweep.due => n \in sweep.wake
  /\ \A n \in Nodes : status[n] = "waiting" /\ n \in signal.events => n \in signal.wake

\* Somebody will still look at what the last commits left.
Coming == (\E w \in Workers : pc[w] = "reporting") \/ advQ # {} \/ adv.pc = "locked"

\* When nobody will, advance_run has read, or has dealt with, every step that is done.
CaughtUp ==
  /\ adv.pc \in {"steps", "deps"} =>
       \A n \in Nodes : status[n] \in Terminal => adv.status[n] \in Terminal
  /\ adv.pc = "idle" =>
       /\ \A n \in Nodes : status[n] \in Terminal => Outgoing(n) \subseteq satisfied
       /\ \A n \in Nodes : status[n] = "pending" => LiveUnsatisfied(n) # {}
       /\ \E n \in Nodes : status[n] \notin Terminal
Handled ==
  run \notin RunTerminal /\ ~Coming /\ (\A n \in Nodes : status[n] # "absent") => CaughtUp

ExactInvariant ==
  /\ DeadByDone /\ CounterExact /\ PruneExact /\ ReadExact
  /\ ParkedIsArmed /\ Handled

LEMMA ExactInit == Init => ExactInvariant
<1> SUFFICES ASSUME Init PROVE ExactInvariant
  OBVIOUS
<1>1. DeadByDone /\ PruneExact /\ ReadExact /\ ParkedIsArmed
  BY DEF Init, DeadByDone, PruneExact, ReadExact, ParkedIsArmed, NoAdvance
<1>2. CounterExact
  <2>1. \A n \in Nodes : LiveUnsatisfied(n) = Incoming(n)
    BY DEF Init, LiveUnsatisfied, Incoming
  <2>2. QED
    BY <2>1 DEF Init, CounterExact
<1>3. Handled
  BY GraphAssumption DEF Init, Handled
<1>4. QED
  BY <1>1, <1>2, <1>3 DEF ExactInvariant

\* The transactions that write a counter or an edge.
LEMMA CounterWrites ==
  ASSUME [Next]_vars
  PROVE  \/ \E w \in Workers : CommitBranchWrite(w)
         \/ AdvanceCommit
         \/ UNCHANGED <<deps_remaining, live, satisfied>>
<1>1. CASE \E w \in Workers : WorkerStep(w)
  BY <1>1 DEF WorkerStep, ClaimReadyStep, LoseClaim, SetUpCancelled, SetUp, ResumeRun, CommitOutput,
     CommitSuspend, CommitBranchRead, FailStep, RetryStep, AbandonStep, Report
<1>2. CASE FaultStep
  BY <1>2 DEF FaultStep, LeaseExpiresOnLiveWorker, LoseExec, LoseAdvance, Crash, CrashReporting, Dies
<1>3. CASE AdvanceStep
  BY <1>3 DEF AdvanceStep, AdvanceReturn, AdvanceLock, AdvanceReadSteps, AdvanceReadDeps
<1>4. CASE \/ StartRun \/ SweepStep \/ FindStrandedReady \/ SignalRead \/ SignalWrite
           \/ CancelRead \/ CancelWrite \/ \E n \in Nodes : DeadlinePasses(n) \/ LeaseExpires(n)
           \/ Rest \/ UNCHANGED vars
  BY <1>4 DEF StartRun, SweepStep, SweepRead, SweepWrite, FindStrandedReady, SignalRead, SignalWrite,
              CancelRead, CancelWrite, DeadlinePasses, LeaseExpires, Rest, vars
<1>5. QED
  BY <1>1, <1>2, <1>3, <1>4 DEF Next

\* A worker that prunes has just read what to prune, or goes on as it was.
LEMMA PruneWrites ==
  ASSUME CalmInvariant, [Next]_vars, NEW w \in Workers, pc'[w] = "pruning"
  PROVE  \/ CommitBranchRead(w)
         \/ pc[w] = "pruning" /\ prune'[w] = prune[w] /\ job'[w] = job[w]
<1>1. /\ pc \in [Workers -> WorkerPc] /\ job \in [Workers -> Nodes \cup {NoNode}]
      /\ prune \in [Workers -> PruneType]
  BY DEF CalmInvariant, JoinInvariant, TypeOK
<1>2. CASE UNCHANGED <<pc, prune, job>>
  BY <1>2
<1>3. ASSUME NEW v \in Workers, Dies(v)
      PROVE  pc[w] = "pruning" /\ prune'[w] = prune[w] /\ job'[w] = job[w]
  BY <1>1, <1>3 DEF Dies, Goto
<1>4. ASSUME NEW v \in Workers, WorkerStep(v), v # w
      PROVE  pc'[w] = pc[w] /\ prune'[w] = prune[w] /\ job'[w] = job[w]
  BY <1>1, <1>4 DEF WorkerStep, ClaimReadyStep, LoseClaim, SetUpCancelled, SetUp, ResumeRun,
     CommitOutput, CommitSuspend, CommitBranchRead, CommitBranchWrite, FailStep, RetryStep,
     AbandonStep, Report, Commit, Goto
<1>5. CASE WorkerStep(w)
  BY <1>1, <1>5 DEF WorkerStep, ClaimReadyStep, LoseClaim, SetUpCancelled, SetUp, ResumeRun,
     CommitOutput, CommitSuspend, CommitBranchWrite, FailStep, RetryStep,
     AbandonStep, Report, Commit, Goto
<1>6. CASE FaultStep
  BY <1>2, <1>3, <1>6 DEF FaultStep, LeaseExpiresOnLiveWorker, LoseExec, LoseAdvance, Crash,
     CrashReporting
<1>7. CASE AdvanceStep
  BY <1>2, <1>7 DEF AdvanceStep, AdvanceReturn, AdvanceLock, AdvanceReadSteps, AdvanceReadDeps,
     AdvanceCommit
<1>8. CASE \/ StartRun \/ SweepStep \/ FindStrandedReady \/ SignalRead \/ SignalWrite
           \/ CancelRead \/ CancelWrite \/ \E n \in Nodes : DeadlinePasses(n) \/ LeaseExpires(n)
           \/ Rest \/ UNCHANGED vars
  BY <1>2, <1>8 DEF StartRun, SweepStep, SweepRead, SweepWrite, FindStrandedReady, SignalRead,
              SignalWrite, CancelRead, CancelWrite, DeadlinePasses, LeaseExpires, Rest, vars
<1>9. QED
  BY <1>4, <1>5, <1>6, <1>7, <1>8 DEF Next

LEMMA DeadStep ==
  ASSUME Calm, CalmInvariant, DeadByDone, [Next]_vars
  PROVE  DeadByDone'
<1>1. \A e \in Edges \ live : status'[From[e]] \in Terminal
  BY ParentIsNode, DoneStays DEF DeadByDone
<1>2. CASE UNCHANGED live
  BY <1>1, <1>2 DEF DeadByDone
<1>3. ASSUME NEW w \in Workers, CommitBranchWrite(w) PROVE DeadByDone'
  <2>1. /\ live' = live \ prune[w].dead /\ pc[w] = "pruning"
        /\ status' = [status EXCEPT ![job[w]] = "succeeded"]
    BY <1>3 DEF CommitBranchWrite, Commit
  <2>2. /\ status \in [Nodes -> StepStatus] /\ job[w] \in Nodes
        /\ \A d \in prune[w].dead : From[d] = job[w]
    BY <2>1, CommitsItsOwn DEF CalmInvariant, JoinInvariant, TypeOK, PrunesItsOwn, Outgoing
  <2>3. status'[job[w]] = "succeeded"
    BY <2>1, <2>2
  <2>4. QED
    BY <1>1, <2>1, <2>2, <2>3 DEF DeadByDone
<1>4. QED
  BY <1>2, <1>3, EdgeWrites

LEMMA PruneExactStep ==
  ASSUME Calm, CalmInvariant, DeadByDone, CounterExact, PruneExact, [Next]_vars
  PROVE  PruneExact'
<1> SUFFICES ASSUME NEW w \in Workers, pc'[w] = "pruning"
             PROVE  prune'[w].hit = {To[e] : e \in prune'[w].dead}
  BY DEF PruneExact
<1>1. CASE CommitBranchRead(w)
  <2>1. PICK h \in Ports :
          LET dead == {e \in Outgoing(job[w]) : Handle[e] # h}
              counted(t) == {e \in dead : To[e] = t /\ e \in live /\ e \notin satisfied}
          IN prune' = [prune EXCEPT ![w] =
               [dead |-> dead,
                left |-> [t \in Nodes |-> Minus(deps_remaining[t], Cardinality(counted(t)))],
                hit  |-> {t \in Nodes : counted(t) # {} /\ deps_remaining[t] > 0}]]
    BY <1>1 DEF CommitBranchRead
  <2> DEFINE dead == {e \in Outgoing(job[w]) : Handle[e] # h}
             counted(t) == {e \in dead : To[e] = t /\ e \in live /\ e \notin satisfied}
  <2>2. prune'[w].dead = dead /\ prune'[w].hit = {t \in Nodes : counted(t) # {} /\ deps_remaining[t] > 0}
    BY <2>1 DEF CalmInvariant, JoinInvariant, TypeOK
  <2>3. status[job[w]] = "running" /\ pc[w] = "handling"
    BY <1>1, CommitsItsOwn DEF CommitBranchRead
  <2>4. \A e \in dead : e \in Edges /\ From[e] = job[w] /\ e \in live /\ e \notin satisfied
    BY <2>3 DEF DeadByDone, CalmInvariant, SatisfiedByDone, Outgoing
  <2>5. ASSUME NEW e \in dead PROVE To[e] \in Nodes /\ counted(To[e]) # {} /\ deps_remaining[To[e]] > 0
    <3>1. To[e] \in Nodes /\ e \in LiveUnsatisfied(To[e])
      BY <2>4, ParentIsNode DEF LiveUnsatisfied, Incoming
    <3>2. LiveUnsatisfied(To[e]) \in SUBSET Edges
      BY DEF LiveUnsatisfied, Incoming
    <3>3. Cardinality(LiveUnsatisfied(To[e])) \in Nat /\ Cardinality(LiveUnsatisfied(To[e])) # 0
      BY <3>1, <3>2, GraphAssumption, CountIsNat, FS_Subset, FS_EmptySet
    <3>4. deps_remaining[To[e]] > 0
      BY <3>1, <3>3 DEF CounterExact
    <3>5. QED
      BY <2>4, <3>1, <3>4
  <2>6. \A t \in Nodes : counted(t) # {} => \E e \in dead : t = To[e]
    OBVIOUS
  <2> HIDE DEF dead, counted
  <2>7. QED
    BY <2>2, <2>5, <2>6
<1>2. CASE pc[w] = "pruning" /\ prune'[w] = prune[w]
  BY <1>2 DEF PruneExact
<1>3. QED
  BY <1>1, <1>2, PruneWrites

\* What the commit of a Branch prunes was live and waited for.
LEMMA BranchPrunes ==
  ASSUME Calm, CalmInvariant, DeadByDone, NEW w \in Workers, pc[w] = "pruning"
  PROVE  /\ job[w] \in Nodes /\ status[job[w]] = "running"
         /\ \A e \in prune[w].dead : /\ e \in Edges /\ From[e] = job[w]
                                     /\ e \in live /\ e \notin satisfied
<1>1. job[w] \in Nodes /\ status[job[w]] = "running"
  BY CommitsItsOwn
<1>2. \A e \in prune[w].dead : e \in Edges /\ From[e] = job[w]
  BY DEF CalmInvariant, PrunesItsOwn, Outgoing
<1>3. QED
  BY <1>1, <1>2 DEF DeadByDone, CalmInvariant, SatisfiedByDone

LEMMA ExactBranchWrite ==
  ASSUME Calm, CalmInvariant, DeadByDone, CounterExact, PruneExact, CountersKept,
         NEW w \in Workers, CommitBranchWrite(w)
  PROVE  CounterExact'
<1>1. /\ live' = live \ prune[w].dead /\ UNCHANGED satisfied /\ pc[w] = "pruning"
      /\ deps_remaining' = [t \in Nodes |-> IF t \in prune[w].hit THEN prune[w].left[t]
                                            ELSE deps_remaining[t]]
  BY DEF CommitBranchWrite
<1> SUFFICES ASSUME NEW t \in Nodes
             PROVE  deps_remaining'[t] = Cardinality(LiveUnsatisfied(t)')
  BY DEF CounterExact
<1>2. \A e \in prune[w].dead : e \in Edges /\ e \in live /\ e \notin satisfied
  BY <1>1, BranchPrunes
<1>3. /\ LiveUnsatisfied(t) \in SUBSET Edges
      /\ PrunedInto(w, t) \in SUBSET LiveUnsatisfied(t)
      /\ LiveUnsatisfied(t)' = LiveUnsatisfied(t) \ PrunedInto(w, t)
  BY <1>1, <1>2 DEF LiveUnsatisfied, PrunedInto, Incoming
<1>4. /\ Cardinality(LiveUnsatisfied(t)') = Cardinality(LiveUnsatisfied(t)) - Cardinality(PrunedInto(w, t))
      /\ Cardinality(LiveUnsatisfied(t)) \in Nat /\ Cardinality(PrunedInto(w, t)) \in Nat
  BY <1>3, CountOfDifference, SmallerCount
<1>5. deps_remaining[t] = Cardinality(LiveUnsatisfied(t))
  BY DEF CounterExact
<1>6. CASE t \in prune[w].hit
  <2>1. deps_remaining[t] = prune[w].left[t] + Cardinality(PrunedInto(w, t))
    BY <1>6 DEF CountersKept
  <2>2. prune[w].left[t] \in Nat
    BY DEF CalmInvariant, JoinInvariant, TypeOK, PruneType
  <2>3. QED
    BY <1>1, <1>4, <1>5, <1>6, <2>1, <2>2
<1>7. CASE t \notin prune[w].hit
  <2>1. PrunedInto(w, t) = {}
    BY <1>1, <1>7 DEF PruneExact, PrunedInto
  <2>2. QED
    BY <1>1, <1>3, <1>5, <1>7, <2>1
<1>8. QED
  BY <1>6, <1>7

\* An edge advance_run takes to be live and whose parent it finds, or makes, done, is
\* live.
LEMMA ResolvedIsLive ==
  ASSUME CalmInvariant, DeadByDone, AdvanceCommit, NEW skips \in SUBSET Nodes, NEW ready,
         Decision(skips, ready), NEW e \in Edges, e \in adv.live,
         Skipping(skips)[From[e]] \in Terminal
  PROVE  e \in live
<1>1. From[e] \in Nodes /\ adv.pc = "deps"
  BY ParentIsNode DEF AdvanceCommit
<1>2. CASE From[e] \in skips
  <2>1. status[From[e]] = "pending"
    BY <1>2 DEF Decision
  <2>2. QED
    BY <2>1 DEF DeadByDone
<1>3. CASE From[e] \notin skips
  <2>1. adv.status[From[e]] \in Terminal
    BY <1>1, <1>3 DEF Skipping
  <2>2. QED
    BY <1>1, <2>1 DEF CalmInvariant, ReadHolds
<1>4. QED
  BY <1>2, <1>3

\* What advance_run newly satisfies is what it takes from the edges a step waits for.
LEMMA ResolvedIsCounted ==
  ASSUME CalmInvariant, DeadByDone, AdvanceCommit, NEW skips \in SUBSET Nodes, NEW ready,
         Decision(skips, ready), NEW n \in Nodes
  PROVE  /\ LiveUnsatisfied(n) \in SUBSET Edges
         /\ NewlySatisfied(n, Skipping(skips)) \in SUBSET LiveUnsatisfied(n)
         /\ LiveUnsatisfied(n)' = LiveUnsatisfied(n) \ NewlySatisfied(n, Skipping(skips))
         /\ NewlySatisfied(n, Skipping(skips)) = LiveIn(n) \cap (satisfied' \ satisfied)
<1> DEFINE st == Skipping(skips)
<1>1. /\ UNCHANGED live /\ live \subseteq adv.live
      /\ satisfied' = satisfied \cup {e \in Edges : st[From[e]] \in Terminal}
  BY DEF AdvanceCommit, Decision, SatisfiedBy, CalmInvariant, JoinInvariant, AdvanceSafe
<1>2. \A e \in Edges : e \in adv.live /\ st[From[e]] \in Terminal => e \in live
  BY ResolvedIsLive
<1>3. NewlySatisfied(n, st) = {e \in Incoming(n) : e \in adv.live /\ e \notin satisfied
                                                   /\ st[From[e]] \in Terminal}
  BY DEF NewlySatisfied, LiveIn, SatisfiedBy, Incoming
<1> HIDE DEF st
<1>4. /\ LiveUnsatisfied(n) \in SUBSET Edges
      /\ NewlySatisfied(n, st) \in SUBSET LiveUnsatisfied(n)
      /\ LiveUnsatisfied(n)' = LiveUnsatisfied(n) \ NewlySatisfied(n, st)
  BY <1>1, <1>2, <1>3 DEF LiveUnsatisfied, Incoming
<1>5. NewlySatisfied(n, st) = LiveIn(n) \cap (satisfied' \ satisfied)
  BY <1>1, <1>3 DEF LiveIn, Incoming
<1>6. QED
  BY <1>4, <1>5 DEF st

LEMMA ExactAdvance ==
  ASSUME Calm, CalmInvariant, DeadByDone, CounterExact, CountersKept, AdvanceCommit
  PROVE  CounterExact'
<1>1. PICK skips, ready \in SUBSET Nodes : Decision(skips, ready)
  BY AdvanceDecides
<1> SUFFICES ASSUME NEW n \in Nodes
             PROVE  deps_remaining'[n] = Cardinality(LiveUnsatisfied(n)')
  BY DEF CounterExact
<1> DEFINE now == NewlySatisfied(n, Skipping(skips))
           left == LeftAt(n, Skipping(skips))
<1>2. /\ LiveUnsatisfied(n) \in SUBSET Edges /\ now \in SUBSET LiveUnsatisfied(n)
      /\ LiveUnsatisfied(n)' = LiveUnsatisfied(n) \ now
      /\ now = LiveIn(n) \cap (satisfied' \ satisfied)
  BY <1>1, ResolvedIsCounted
<1>3. /\ deps_remaining'[n] = IF left # adv.left[n] THEN left ELSE deps_remaining[n]
      /\ left = Minus(adv.left[n], Cardinality(now))
  BY <1>1 DEF Decision, Resolves, LeftAt
<1> HIDE DEF now, left
<1>4. /\ Cardinality(LiveUnsatisfied(n)') = Cardinality(LiveUnsatisfied(n)) - Cardinality(now)
      /\ Cardinality(LiveUnsatisfied(n)) \in Nat /\ Cardinality(now) \in Nat
      /\ Cardinality(now) <= Cardinality(LiveUnsatisfied(n))
  BY <1>2, CountOfDifference, SmallerCount
<1>5. deps_remaining[n] = Cardinality(LiveUnsatisfied(n)) /\ adv.left[n] \in Nat
  BY DEF CounterExact, CalmInvariant, JoinInvariant, TypeOK, AdvanceType
<1>6. CASE now = {}
  <2>1. Cardinality(now) = 0
    BY <1>6, FS_EmptySet
  <2>2. left = adv.left[n]
    BY <1>3, <1>5, <2>1 DEF Minus
  <2>3. QED
    BY <1>3, <1>4, <1>5, <2>1, <2>2
<1>7. CASE now # {}
  <2>1. deps_remaining[n] = adv.left[n]
    BY <1>2, <1>7 DEF CountersKept
  <2>2. left = Cardinality(LiveUnsatisfied(n)) - Cardinality(now)
    BY <1>3, <1>4, <1>5, <2>1 DEF Minus
  <2>3. QED
    BY <1>3, <1>4, <1>5, <2>1, <2>2
<1>8. QED
  BY <1>6, <1>7

LEMMA CounterExactStep ==
  ASSUME Calm, CalmInvariant, DeadByDone, CounterExact, PruneExact, CountersKept, [Next]_vars
  PROVE  CounterExact'
<1>1. CASE UNCHANGED <<deps_remaining, live, satisfied>>
  BY <1>1 DEF CounterExact, LiveUnsatisfied
<1>2. QED
  BY <1>1, CounterWrites, ExactBranchWrite, ExactAdvance

\* A step that waits to be started has waited since the rows were written.
LEMMA PendingBefore ==
  ASSUME Calm, CalmInvariant, [Next]_vars, NEW n \in Nodes, status'[n] = "pending"
  PROVE  StartRun \/ status[n] = "pending"
<1>1. status \in [Nodes -> StepStatus]
  BY DEF CalmInvariant, JoinInvariant, TypeOK
<1>2. CASE \E w \in Workers, m \in Nodes : ClaimReadyStep(w, m)
  BY <1>1, <1>2 DEF ClaimReadyStep
<1>3. CASE \E w \in Workers : \/ CommitOutput(w) \/ CommitBranchWrite(w) \/ FailStep(w)
                             \/ RetryStep(w) \/ CommitSuspend(w)
  BY <1>1, <1>3, CommitWrites DEF Commit
<1>4. CASE AdvanceCommit
  BY <1>4, AdvanceDecides DEF Decision
<1>5. CASE SweepWrite \/ SignalWrite
  BY <1>5 DEF SweepWrite, SignalWrite
<1>6. QED
  BY <1>2, <1>3, <1>4, <1>5, StatusWrites

LEMMA ReadExactStep ==
  ASSUME Calm, CalmInvariant, DeadByDone, CounterExact, ReadExact, [Next]_vars
  PROVE  ReadExact'
<1>1. /\ adv \in AdvanceType /\ status \in [Nodes -> StepStatus]
      /\ satisfied \subseteq Edges /\ live \subseteq Edges
  BY DEF CalmInvariant, JoinInvariant, TypeOK
<1>2. CASE AdvanceReturn \/ AdvanceLock
  BY <1>1, <1>2 DEF AdvanceReturn, AdvanceLock, AdvanceType, ReadExact
<1>3. CASE AdvanceReadSteps
  <2>1. /\ adv'.pc = "steps" /\ adv'.status = status /\ adv'.left = deps_remaining
        /\ UNCHANGED <<status, satisfied, live>>
    BY <1>1, <1>3 DEF AdvanceReadSteps, AdvanceType
  <2>2. ASSUME NEW n \in Nodes PROVE SeenWaiting(n)' = LiveUnsatisfied(n)
    <3>1. \A e \in Incoming(n) : status[From[e]] \notin Terminal => e \in live
      BY DEF DeadByDone, Incoming
    <3>2. QED
      BY <2>1, <3>1 DEF SeenWaiting, LiveUnsatisfied, Incoming
  <2>3. QED
    BY <2>1, <2>2 DEF ReadExact, CounterExact
<1>4. CASE AdvanceReadDeps
  <2>1. /\ adv'.status = adv.status /\ adv'.left = adv.left /\ adv.pc = "steps"
        /\ UNCHANGED <<status, satisfied, live>>
    BY <1>1, <1>4 DEF AdvanceReadDeps, AdvanceType
  <2>2. \A n \in Nodes : SeenWaiting(n)' = SeenWaiting(n)
    BY <2>1 DEF SeenWaiting, Incoming
  <2>3. QED
    BY <2>1, <2>2 DEF ReadExact
<1>5. CASE AdvanceCommit
  BY <1>5 DEF AdvanceCommit, NoAdvance, ReadExact
<1>6. CASE UNCHANGED <<adv, satisfied>> /\ ~AdvanceCommit
  <2> SUFFICES ASSUME adv.pc \in {"steps", "deps"}, NEW n \in Nodes
               PROVE  /\ adv.left[n] = Cardinality(SeenWaiting(n)')
                      /\ status'[n] = "pending" => adv.status[n] = "pending"
    BY <1>6 DEF ReadExact
  <2>1. ~StartRun
    BY DEF StartRun, CalmInvariant, AllOrNone
  <2>2. status'[n] = "pending" => adv.status[n] = "pending"
    BY <2>1, PendingBefore DEF ReadExact
  <2>3. SeenWaiting(n)' = SeenWaiting(n)
    <3>1. CASE UNCHANGED live
      BY <1>6, <3>1 DEF SeenWaiting, Incoming
    <3>2. ASSUME NEW w \in Workers, CommitBranchWrite(w) PROVE SeenWaiting(n)' = SeenWaiting(n)
      <4>1. live' = live \ prune[w].dead /\ pc[w] = "pruning"
        BY <3>2 DEF CommitBranchWrite
      <4>2. \A e \in prune[w].dead : From[e] \in Nodes /\ status[From[e]] = "running"
        BY <4>1, BranchPrunes
      <4>3. \A e \in prune[w].dead : adv.status[From[e]] \notin Terminal
        BY <4>2 DEF CalmInvariant, ReadHolds
      <4>4. QED
        BY <1>6, <4>1, <4>3 DEF SeenWaiting, Incoming
    <3>3. QED
      BY <3>1, <3>2, EdgeWrites
  <2>4. QED
    BY <2>2, <2>3 DEF ReadExact
<1>7. QED
  BY <1>2, <1>3, <1>4, <1>5, <1>6, EdgeWrites DEF AdvanceStep

\* Who arms, disarms and picks up events.
LEMMA ParkWrites ==
  ASSUME CalmInvariant, [Next]_vars
  PROVE  \/ \E w \in Workers : CommitSuspend(w)
         \/ SweepRead \/ SweepWrite \/ SignalRead \/ SignalWrite
         \/ UNCHANGED <<armed, sweep, signal>>
<1>1. CASE \E w \in Workers : WorkerStep(w)
  BY <1>1 DEF WorkerStep, ClaimReadyStep, LoseClaim, SetUpCancelled, SetUp, ResumeRun, CommitOutput,
     CommitBranchRead, CommitBranchWrite, FailStep, RetryStep, AbandonStep, Report
<1>2. CASE FaultStep
  BY <1>2 DEF FaultStep, LeaseExpiresOnLiveWorker, LoseExec, LoseAdvance, Crash, CrashReporting, Dies
<1>3. CASE AdvanceStep
  BY <1>3 DEF AdvanceStep, AdvanceReturn, AdvanceLock, AdvanceReadSteps, AdvanceReadDeps, AdvanceCommit
<1>4. CASE CancelWrite
  BY <1>4 DEF CancelWrite, CalmInvariant, NothingCancelled
<1>5. CASE \/ StartRun \/ FindStrandedReady \/ CancelRead
           \/ \E n \in Nodes : DeadlinePasses(n) \/ LeaseExpires(n)
           \/ Rest \/ UNCHANGED vars
  BY <1>5 DEF StartRun, FindStrandedReady, CancelRead, DeadlinePasses, LeaseExpires, Rest, vars
<1>6. QED
  BY <1>1, <1>2, <1>3, <1>4, <1>5 DEF Next, SweepStep

\* A step is parked by the commit that suspends it.
LEMMA WaitingBefore ==
  ASSUME Calm, CalmInvariant, [Next]_vars, \A w \in Workers : ~CommitSuspend(w),
         NEW n \in Nodes, status'[n] = "waiting"
  PROVE  status[n] = "waiting"
<1>1. status \in [Nodes -> StepStatus]
  BY DEF CalmInvariant, JoinInvariant, TypeOK
<1>2. CASE StartRun
  BY <1>2 DEF StartRun
<1>3. CASE \E w \in Workers, m \in Nodes : ClaimReadyStep(w, m)
  BY <1>1, <1>3 DEF ClaimReadyStep
<1>4. CASE \E w \in Workers : \/ CommitOutput(w) \/ CommitBranchWrite(w) \/ FailStep(w)
                             \/ RetryStep(w)
  BY <1>1, <1>4 DEF CommitOutput, CommitBranchWrite, FailStep, RetryStep, Commit
<1>5. CASE AdvanceCommit
  BY <1>5, AdvanceDecides DEF Decision
<1>6. CASE SweepWrite \/ SignalWrite
  BY <1>6 DEF SweepWrite, SignalWrite
<1>7. QED
  BY <1>2, <1>3, <1>4, <1>5, <1>6, StatusWrites

LEMMA ParkedStep ==
  ASSUME Calm, CalmInvariant, ParkedIsArmed, [Next]_vars
  PROVE  ParkedIsArmed'
<1>1. /\ sweep \in SweepType /\ signal \in SignalType
      /\ status \in [Nodes -> StepStatus]
  BY DEF CalmInvariant, JoinInvariant, TypeOK
<1>2. ASSUME NEW w \in Workers, CommitSuspend(w) PROVE ParkedIsArmed'
  <2>1. pc[w] = "handling" /\ job[w] \in Nodes
    BY <1>2, CommitsItsOwn DEF CommitSuspend
  <2>2. /\ status' = [status EXCEPT ![job[w]] = "waiting"]
        /\ armed' = armed \cup {job[w]}
        /\ sweep'.due = sweep.due \ {job[w]} /\ sweep'.wake = sweep.wake
        /\ signal'.events = signal.events \ {job[w]} /\ signal'.wake = signal.wake
    BY <1>1, <1>2 DEF CommitSuspend, Commit, SweepType, SignalType
  <2>3. \A n \in Nodes : n # job[w] => status'[n] = status[n]
    BY <1>1, <2>1, <2>2
  <2>4. QED
    BY <2>2, <2>3 DEF ParkedIsArmed
<1>3. CASE \A w \in Workers : ~CommitSuspend(w)
  <2>1. \A n \in Nodes : status'[n] = "waiting" => status[n] = "waiting"
    BY <1>3, WaitingBefore
  <2>2. CASE SweepRead
    BY <1>1, <2>1, <2>2 DEF SweepRead, ParkedIsArmed
  <2>3. CASE SweepWrite
    <3>1. \A n \in Nodes : status'[n] = "waiting" => n \notin sweep.wake
      BY <2>3 DEF SweepWrite
    <3>2. QED
      BY <2>1, <2>3, <3>1 DEF SweepWrite, NoSweep, ParkedIsArmed
  <2>4. CASE SignalRead
    BY <1>1, <2>1, <2>4 DEF SignalRead, ParkedIsArmed
  <2>5. CASE SignalWrite
    <3>1. \A n \in Nodes : status'[n] = "waiting" => n \notin signal.wake
      BY <2>5 DEF SignalWrite
    <3>2. QED
      BY <2>1, <2>5, <3>1 DEF SignalWrite, NoSignal, ParkedIsArmed
  <2>6. CASE UNCHANGED <<armed, sweep, signal>>
    BY <2>1, <2>6 DEF ParkedIsArmed
  <2>7. QED
    BY <1>3, <2>2, <2>3, <2>4, <2>5, <2>6, ParkWrites
<1>4. QED
  BY <1>2, <1>3

----------------------------------------------------------------------------
\* A message owed, sent or taken is followed by the next, until advance_run reads.
LEMMA ComingStays ==
  ASSUME Calm, FollowUpsArrive, CalmInvariant, [Next]_vars, run \notin RunTerminal, Coming
  PROVE  AdvanceReadSteps \/ Coming'
<1>1. /\ pc \in [Workers -> WorkerPc] /\ adv \in AdvanceType
      /\ job \in [Workers -> Nodes \cup {NoNode}]
  BY DEF CalmInvariant, JoinInvariant, TypeOK
<1>2. ASSUME NEW w \in Workers, WorkerStep(w) PROVE Coming'
  <2>1. CASE Report(w)
    BY <2>1 DEF Report, Coming
  <2>2. CASE ~Report(w)
    <3>1. advQ \subseteq advQ' /\ UNCHANGED adv
      BY <1>2, <2>2 DEF WorkerStep, ClaimReadyStep, LoseClaim, SetUpCancelled, SetUp, ResumeRun,
         CommitOutput, CommitSuspend, CommitBranchRead, CommitBranchWrite, FailStep, RetryStep,
         AbandonStep
    <3>2. \A v \in Workers : pc[v] = "reporting" => pc'[v] = "reporting"
      BY <1>1, <1>2, <2>2 DEF WorkerStep, ClaimReadyStep, LoseClaim, SetUpCancelled, SetUp, ResumeRun,
         CommitOutput, CommitSuspend, CommitBranchRead, CommitBranchWrite, FailStep, RetryStep,
         AbandonStep, Commit, Goto
    <3>3. QED
      BY <3>1, <3>2 DEF Coming
  <2>3. QED
    BY <2>1, <2>2
<1>3. CASE FaultStep
  <2>1. CASE \E n \in Nodes : LeaseExpiresOnLiveWorker(n) \/ LoseExec(n) \/ LoseAdvance(n)
    BY <2>1 DEF LeaseExpiresOnLiveWorker, LoseExec, LoseAdvance, Fault, FollowUpsArrive, Coming
  <2>2. ASSUME NEW w \in Workers, Crash(w) PROVE Coming'
    <3>1. /\ pc' = [pc EXCEPT ![w] = "idle"] /\ UNCHANGED <<advQ, adv>>
          /\ pc[w] # "reporting"
      BY <2>2 DEF Crash, Dies, Goto
    <3>2. \A v \in Workers : pc[v] = "reporting" => pc'[v] = "reporting"
      BY <1>1, <3>1
    <3>3. QED
      BY <3>1, <3>2 DEF Coming
  <2>3. ASSUME NEW w \in Workers, CrashReporting(w) PROVE FALSE
    BY <2>3 DEF CrashReporting, Fault, FollowUpsArrive
  <2>4. QED
    BY <1>3, <2>1, <2>2, <2>3 DEF FaultStep
<1>4. CASE AdvanceStep
  BY <1>1, <1>4 DEF AdvanceStep, AdvanceReturn, AdvanceLock, AdvanceReadDeps, AdvanceCommit,
     AdvanceType, Coming
<1>5. CASE \/ StartRun \/ SweepStep \/ FindStrandedReady \/ SignalRead \/ SignalWrite
           \/ CancelRead \/ CancelWrite \/ \E n \in Nodes : DeadlinePasses(n) \/ LeaseExpires(n)
           \/ Rest \/ UNCHANGED vars
  BY <1>5 DEF StartRun, SweepStep, SweepRead, SweepWrite, FindStrandedReady, SignalRead, SignalWrite,
              CancelRead, CancelWrite, DeadlinePasses, LeaseExpires, Rest, vars, Coming
<1>6. QED
  BY <1>2, <1>3, <1>4, <1>5 DEF Next

\* A step is done by advance_run, which skips it, or by a commit that is reported.
LEMMA DoneIsReported ==
  ASSUME Calm, CalmInvariant, [Next]_vars, ~AdvanceCommit, ~Coming',
         NEW n \in Nodes, status'[n] \in Terminal
  PROVE  status[n] = status'[n]
<1>1. status \in [Nodes -> StepStatus] /\ pc \in [Workers -> WorkerPc]
  BY DEF CalmInvariant, JoinInvariant, TypeOK
<1>2. CASE StartRun
  BY <1>2 DEF StartRun
<1>3. CASE \E w \in Workers, m \in Nodes : ClaimReadyStep(w, m)
  BY <1>1, <1>3 DEF ClaimReadyStep
<1>4. ASSUME NEW w \in Workers, \/ CommitOutput(w) \/ CommitBranchWrite(w) \/ FailStep(w)
                                \/ RetryStep(w) \/ CommitSuspend(w)
      PROVE  FALSE
  <2>1. pc' = [pc EXCEPT ![w] = "reporting"]
    BY <1>4, CommitWrites DEF Commit, Goto
  <2>2. QED
    BY <1>1, <2>1 DEF Coming
<1>5. CASE SweepWrite \/ SignalWrite
  BY <1>5 DEF SweepWrite, SignalWrite
<1>6. QED
  BY <1>2, <1>3, <1>4, <1>5, StatusWrites

\* A run that is not over was not.
LEMMA OpenBefore ==
  ASSUME Calm, CalmInvariant, [Next]_vars, run' \notin RunTerminal
  PROVE  run \notin RunTerminal
<1> SUFFICES ASSUME run \in RunTerminal PROVE FALSE
  OBVIOUS
<1>1. UNCHANGED Outcome
  BY DagOver
<1>2. QED
  BY <1>1 DEF Outcome

\* After advance_run's commit nothing is left over: what it had not read is coming.
LEMMA AdvanceCatchesUp ==
  ASSUME Calm, CalmInvariant, DeadByDone, ReadExact, AdvanceCommit, run' \notin RunTerminal,
         \A n \in Nodes : status[n] \in Terminal => adv.status[n] \in Terminal
  PROVE  /\ \A n \in Nodes : status'[n] \in Terminal => Outgoing(n) \subseteq satisfied'
         /\ \A n \in Nodes : status'[n] = "pending" => LiveUnsatisfied(n)' # {}
         /\ \E n \in Nodes : status'[n] \notin Terminal
<1>1. PICK skips, ready \in SUBSET Nodes : Decision(skips, ready)
  BY AdvanceDecides
<1> DEFINE st == Skipping(skips)
           final == [n \in Nodes |-> IF n \in ready THEN "ready" ELSE st[n]]
<1>2. /\ UNCHANGED live /\ adv.pc = "deps" /\ live \subseteq adv.live
      /\ satisfied' = satisfied \cup {e \in Edges : st[From[e]] \in Terminal}
      /\ skips \cap ready = {}
      /\ \A n \in skips \cup ready : status[n] = "pending"
      /\ \A n \in Nodes : status'[n] = IF n \in skips THEN "skipped"
                                       ELSE IF n \in ready THEN "ready" ELSE status[n]
      /\ \A n \in Nodes : st[n] = IF n \in skips THEN "skipped" ELSE adv.status[n]
  BY <1>1 DEF AdvanceCommit, Decision, SatisfiedBy, CalmInvariant, JoinInvariant, AdvanceSafe, Skipping
<1>3. ASSUME NEW n \in Nodes, status'[n] \in Terminal PROVE st[n] \in Terminal /\ n \notin ready
  BY <1>2, <1>3
<1>4. \A n \in Nodes : status'[n] \in Terminal => Outgoing(n) \subseteq satisfied'
  BY <1>2, <1>3 DEF Outgoing
<1>5. \E n \in Nodes : status'[n] \notin Terminal
  <2> SUFFICES ASSUME \A n \in Nodes : status'[n] \in Terminal PROVE FALSE
    OBVIOUS
  <2>1. \A n \in Nodes : final[n] \in Terminal
    BY <1>3
  <2>2. RunOutcome(final) \in {"failed", "completed"}
    BY <2>1 DEF RunOutcome
  <2>3. run' = IF RunOutcome(final) # adv.run THEN RunOutcome(final) ELSE run
    BY <1>1 DEF Decision
  <2>4. adv.run \notin RunTerminal
    BY <1>2 DEF CalmInvariant, OverIsDone
  <2> HIDE DEF final
  <2>5. QED
    BY <2>2, <2>3, <2>4
<1>6. ASSUME NEW n \in Nodes, status'[n] = "pending", LiveUnsatisfied(n)' = {} PROVE FALSE
  <2> DEFINE now == NewlySatisfied(n, st)
  <2>1. n \notin skips /\ n \notin ready /\ status[n] = "pending"
    BY <1>2, <1>6
  <2>2. st[n] = "pending" /\ adv.status[n] = "pending" /\ adv.left[n] = Cardinality(SeenWaiting(n))
    BY <1>2, <2>1 DEF ReadExact
  <2>3. SeenWaiting(n) = LiveUnsatisfied(n)
    <3>1. \A e \in Incoming(n) : adv.status[From[e]] \notin Terminal => e \in live
      BY ParentIsNode DEF DeadByDone, Incoming
    <3>2. QED
      BY <3>1 DEF SeenWaiting, LiveUnsatisfied
  <2>4. /\ LiveUnsatisfied(n) \in SUBSET Edges /\ now \in SUBSET LiveUnsatisfied(n)
        /\ LiveUnsatisfied(n)' = LiveUnsatisfied(n) \ now
    BY <1>1, ResolvedIsCounted
  <2>5. LeftAt(n, st) = Minus(Cardinality(now), Cardinality(now)) /\ Cardinality(now) \in Nat
    <3>1. now = LiveUnsatisfied(n)
      BY <1>6, <2>4
    <3>2. Cardinality(now) \in Nat
      BY <2>4, <3>1, CountIsNat
    <3>3. QED
      BY <2>2, <2>3, <3>1, <3>2 DEF LeftAt
  <2>6. LeftAt(n, st) = 0
    <3> HIDE DEF now, st
    <3>1. QED
      BY <2>5 DEF Minus
  <2>7. ~(Incoming(n) = {} \/ Delivered(n, st))
    <3>1. ready = {m \in Nodes : MayReady(m, st)}
      BY <1>1 DEF Decision, Resolves
    <3>2. QED
      BY <2>1, <2>2, <2>6, <3>1 DEF MayReady
  <2>8. LiveIn(n) \subseteq SatisfiedBy(st)
    <3> SUFFICES ASSUME NEW e \in LiveIn(n) PROVE e \in SatisfiedBy(st)
      OBVIOUS
    <3>1. e \in Edges /\ e \in Incoming(n) /\ e \in adv.live /\ From[e] \in Nodes
      BY ParentIsNode DEF LiveIn, Incoming
    <3>2. CASE e \in live
      BY <1>2, <1>6, <3>1, <3>2 DEF LiveUnsatisfied, SatisfiedBy, Incoming
    <3>3. CASE e \notin live
      <4>1. status[From[e]] \in Terminal
        BY <3>1, <3>3 DEF DeadByDone
      <4>2. st[From[e]] \in Terminal
        BY <1>2, <3>1, <4>1
      <4>3. QED
        BY <3>1, <4>2 DEF SatisfiedBy
    <3>4. QED
      BY <3>2, <3>3
  <2>9. MustSkip(n, st)
    BY <2>2, <2>7, <2>8 DEF MustSkip
  <2>10. skips = {m \in Nodes : MustSkip(m, st)}
    BY <1>1 DEF Decision, Resolves
  <2>11. QED
    BY <2>1, <2>9, <2>10
<1>7. QED
  BY <1>4, <1>5, <1>6

LEMMA HandledStep ==
  ASSUME Calm, FollowUpsArrive, CalmInvariant, DeadByDone, ReadExact, Handled, [Next]_vars
  PROVE  Handled'
<1> SUFFICES ASSUME run' \notin RunTerminal, ~Coming', \A n \in Nodes : status'[n] # "absent"
             PROVE  CaughtUp'
  BY DEF Handled
<1>1. run \notin RunTerminal
  BY OpenBefore
<1>2. /\ adv \in AdvanceType /\ live \subseteq Edges /\ satisfied \subseteq Edges
      /\ status \in [Nodes -> StepStatus]
  BY DEF CalmInvariant, JoinInvariant, TypeOK
<1>3. CASE StartRun
  <2>1. /\ \A n \in Nodes : status[n] = "absent"
        /\ status' = [n \in Nodes |-> IF n \in Roots THEN "ready" ELSE "pending"]
        /\ UNCHANGED <<live, satisfied, adv>>
    BY <1>3 DEF StartRun
  <2>2. live = Edges /\ satisfied = {}
    <3>1. \A e \in Edges : status[From[e]] \notin Terminal
      BY <2>1, ParentIsNode
    <3>2. QED
      BY <1>2, <3>1 DEF DeadByDone, CalmInvariant, SatisfiedByDone
  <2>3. adv.pc = "idle"
    BY <2>1, GraphAssumption DEF CalmInvariant, AllOrNone
  <2>4. \A n \in Nodes : status'[n] \in {"ready", "pending"}
    BY <2>1
  <2>5. \A n \in Nodes : status'[n] = "pending" => LiveUnsatisfied(n)' # {}
    BY <2>1, <2>2 DEF Roots, LiveUnsatisfied, Incoming
  <2>6. QED
    BY <2>1, <2>3, <2>4, <2>5, GraphAssumption DEF CaughtUp
<1>4. CASE AdvanceReadSteps
  BY <1>2, <1>4 DEF AdvanceReadSteps, AdvanceType, CaughtUp
<1>5. CASE ~StartRun /\ ~AdvanceReadSteps
  <2>1. ~Coming
    BY <1>1, <1>5, ComingStays
  <2>2. \A n \in Nodes : status[n] # "absent"
    BY <1>5, DoneStays
  <2>3. CaughtUp
    BY <1>1, <2>1, <2>2 DEF Handled
  <2>4. CASE AdvanceCommit
    <3>1. \A n \in Nodes : status[n] \in Terminal => adv.status[n] \in Terminal
      BY <2>3, <2>4 DEF AdvanceCommit, CaughtUp
    <3>2. adv'.pc = "idle" /\ \A n : Outgoing(n)' = Outgoing(n)
      BY <2>4 DEF AdvanceCommit, NoAdvance, Outgoing
    <3>3. QED
      BY <2>4, <3>1, <3>2, AdvanceCatchesUp DEF CaughtUp
  <2>5. CASE ~AdvanceCommit
    <3>1. \A n \in Nodes : status'[n] \in Terminal => status[n] = status'[n]
      BY <2>5, DoneIsReported
    <3>2. \A n \in Nodes : status'[n] = "pending" => status[n] = "pending"
      BY <1>5, PendingBefore
    <3>3. UNCHANGED <<live, satisfied>>
      <4>1. ASSUME NEW w \in Workers, CommitBranchWrite(w) PROVE FALSE
        BY <4>1 DEF CommitBranchWrite, Commit, Goto, Coming, CalmInvariant, JoinInvariant, TypeOK
      <4>2. QED
        BY <2>5, <4>1, EdgeWrites
    <3>4. \/ UNCHANGED adv
          \/ adv.pc = "steps" /\ adv'.pc = "deps" /\ adv'.status = adv.status
      <4>1. CASE AdvanceStep
        BY <1>1, <1>2, <1>5, <2>5, <4>1
        DEF AdvanceStep, AdvanceReturn, AdvanceLock, AdvanceReadDeps, AdvanceType, Coming
      <4>2. QED
        BY <4>1, EdgeWrites
    <3>5. \A n \in Nodes : LiveUnsatisfied(n)' = LiveUnsatisfied(n) /\ Outgoing(n)' = Outgoing(n)
      BY <3>3 DEF LiveUnsatisfied, Incoming, Outgoing
    <3>6. QED
      BY <2>3, <3>1, <3>2, <3>3, <3>4, <3>5 DEF CaughtUp
  <2>6. QED
    BY <2>4, <2>5
<1>6. QED
  BY <1>3, <1>4, <1>5

LEMMA ExactStep ==
  ASSUME Calm, FollowUpsArrive, CalmInvariant, ExactInvariant, CountersKept, [Next]_vars
  PROVE  ExactInvariant'
BY DeadStep, CounterExactStep, PruneExactStep, ReadExactStep, ParkedStep, HandledStep
DEF ExactInvariant

\* Nothing that hangs on another can be the first to hang.
LEMMA SomeoneMoves == CalmInvariant /\ ExactInvariant => NeverStranded
<1> SUFFICES ASSUME CalmInvariant, ExactInvariant, ~NeverStranded PROVE FALSE
  OBVIOUS
<1>1. /\ run \notin RunTerminal /\ ~Coming /\ adv.pc = "idle"
      /\ \A n \in Nodes : status[n] \notin {"absent", "ready", "running"}
      /\ \A n \in Nodes : status[n] = "waiting" => n \notin armed
  BY DEF NeverStranded, Coming
<1>2. /\ \A n \in Nodes : status[n] \in Terminal => Outgoing(n) \subseteq satisfied
      /\ \A n \in Nodes : status[n] = "pending" => LiveUnsatisfied(n) # {}
      /\ \E n \in Nodes : status[n] \notin Terminal
  BY <1>1 DEF ExactInvariant, Handled, CaughtUp
<1>3. \A n \in Nodes : status[n] \in Terminal \cup {"pending"}
  BY <1>1 DEF CalmInvariant, JoinInvariant, TypeOK, ExactInvariant, ParkedIsArmed
<1>4. PICK rank \in [Nodes -> 1 .. Cardinality(Nodes)] :
        \A e \in Edges : rank[From[e]] < rank[To[e]]
  BY AcyclicAssumption
<1> DEFINE hanging == {n \in Nodes : status[n] = "pending"}
           ranks == {rank[n] : n \in hanging}
<1>5. PICK r \in ranks : \A s \in ranks : r <= s
  <2>1. Cardinality(Nodes) \in Nat
    BY GraphAssumption, FS_CardinalityType
  <2>2. ranks # {} /\ ranks \in SUBSET Nat
    BY <1>2, <1>3, <2>1
  <2>3. QED
    BY <2>2, LeastNatural
<1>6. PICK n \in hanging : rank[n] = r
  OBVIOUS
<1>7. PICK e \in LiveUnsatisfied(n) : TRUE
  BY <1>2
<1>8. /\ e \in Edges /\ To[e] = n /\ e \notin satisfied /\ From[e] \in Nodes
  BY ParentIsNode DEF LiveUnsatisfied, Incoming
<1>9. status[From[e]] = "pending"
  BY <1>2, <1>3, <1>8 DEF Outgoing
<1>10. rank[From[e]] < rank[n] /\ rank[From[e]] \in ranks
  BY <1>4, <1>8, <1>9
<1>11. rank[n] \in Int /\ rank[From[e]] \in Int
  BY <1>4, <1>8
<1>12. QED
  BY <1>5, <1>6, <1>10, <1>11

\* A run in which the follow-up messages arrive and no transaction overwrites a join
\* counter that changed since it read it always has somebody who will move it.
THEOREM RunsAreNotStranded ==
  ASSUME Calm, FollowUpsArrive
  PROVE  Spec /\ [][CountersKept]_vars => []NeverStranded
<1>1. CalmInvariant /\ [Next]_vars => CalmInvariant'
  BY CalmStep
<1>2. CalmInvariant /\ ExactInvariant /\ [Next]_vars /\ [CountersKept]_vars => ExactInvariant'
  <2>1. ASSUME CalmInvariant, UNCHANGED vars PROVE CountersKept
    <3>1. \A w \in Workers : ~CommitBranchWrite(w)
      BY <2>1 DEF CommitBranchWrite, Commit, Goto, vars, CalmInvariant, JoinInvariant, TypeOK
    <3>2. UNCHANGED satisfied
      BY <2>1 DEF vars
    <3>3. QED
      BY <3>1, <3>2 DEF CountersKept
  <2>2. QED
    BY <2>1, ExactStep
<1>3. QED
  BY <1>1, <1>2, CalmInit, ExactInit, SomeoneMoves, PTL DEF Spec

----------------------------------------------------------------------------
(***************************************************************************)
(* The graphs on which no counter is overwritten: where an edge of a       *)
(* condition meets an edge of another parent, the condition also leads to  *)
(* that parent, over its other port.  The parent then waits for the        *)
(* condition, and is not skipped by the commit that prunes the first edge. *)
(***************************************************************************)
Untangled ==
  \A e, d \in Edges :
    Kind[From[e]] = "branch" /\ To[d] = To[e] /\ From[d] # From[e] =>
      \E c \in Edges : /\ From[c] = From[e] /\ To[c] = From[d]
                       /\ {Handle[c], Handle[e]} = {"true", "false"}

\* A skipped step waits for nothing either.
SkippedClosed == \A n \in Nodes : status[n] = "skipped" => LiveUnsatisfied(n) = {}

\* A condition prunes the edges of one of its ports.
PrunesPort ==
  \A w \in Workers : pc[w] = "pruning" =>
    /\ Kind[job[w]] = "branch"
    /\ \E h \in Ports : prune[w].dead = {e \in Outgoing(job[w]) : Handle[e] # h}
OnePort ==
  \A c, e \in Edges \ live : From[c] = From[e] => {Handle[c], Handle[e]} # {"true", "false"}

\* A counter that a Branch commit has read is as it read it; one that advance_run has
\* read changed only because a condition it had read at work has finished.
PruneKept ==
  \A w \in Workers : pc[w] = "pruning" =>
    \A t \in prune[w].hit :
      deps_remaining[t] = prune[w].left[t] + Cardinality(PrunedInto(w, t))
ReadKept ==
  adv.pc \in {"steps", "deps"} =>
    \A n \in Nodes : deps_remaining[n] # adv.left[n] =>
      \E e \in Incoming(n) : /\ Kind[From[e]] = "branch" /\ e \notin live
                             /\ adv.status[From[e]] \notin Terminal \cup {"pending"}
ReadFollows ==
  adv.pc \in {"steps", "deps"} =>
    \A e \in Edges : adv.status[From[e]] \notin Terminal => adv.status[To[e]] = "pending"

KeptInvariant ==
  /\ SkippedClosed /\ PrunesPort /\ OnePort
  /\ PruneKept /\ ReadKept /\ ReadFollows

LEMMA KeptInit == Init => KeptInvariant
BY DEF Init, KeptInvariant, SkippedClosed, PrunesPort, OnePort, PruneKept, ReadKept, ReadFollows,
   NoAdvance

\* While a step is not done its children wait for it.
LEMMA ChildrenWait ==
  ASSUME CalmInvariant, DeadByDone, SkippedClosed, NEW c \in Edges, status[From[c]] \notin Terminal
  PROVE  c \in live /\ c \notin satisfied /\ status[To[c]] \in {"absent", "pending"}
<1>1. c \in live /\ c \notin satisfied /\ To[c] \in Nodes
  BY ParentIsNode DEF DeadByDone, CalmInvariant, SatisfiedByDone
<1>2. LiveUnsatisfied(To[c]) # {}
  BY <1>1 DEF LiveUnsatisfied, Incoming
<1>3. /\ status[To[c]] \in StepStatus /\ status[To[c]] \notin {"skipped", "cancelled"}
      /\ status[To[c]] \notin Started
  BY <1>1, <1>2 DEF SkippedClosed, CalmInvariant, NothingCancelled, JoinInvariant, JoinClosed, TypeOK
<1>4. QED
  BY <1>1, <1>3 DEF Started

\* A step advance_run neither finds done nor skips stays undone in its eyes, and what it
\* skips had no live edge from such a step.
LEMMA SkipsBehindDone ==
  ASSUME CalmInvariant, AdvanceCommit, NEW skips \in SUBSET Nodes, NEW ready,
         Decision(skips, ready), NEW c \in Edges,
         adv.status[From[c]] \notin Terminal \cup {"pending"}
  PROVE  /\ Skipping(skips)[From[c]] \notin Terminal
         /\ To[c] \in skips => c \notin adv.live
<1> DEFINE st == Skipping(skips)
<1>1. From[c] \in Nodes /\ To[c] \in Nodes /\ adv.pc = "deps"
  BY ParentIsNode DEF AdvanceCommit
<1>2. From[c] \notin skips
  BY DEF Decision, MustSkip
<1>3. st[From[c]] \notin Terminal
  BY <1>1, <1>2 DEF Skipping
<1>4. c \notin satisfied
  BY <1>1 DEF CalmInvariant, ReadHolds
<1>5. ASSUME To[c] \in skips, c \in adv.live PROVE FALSE
  <2>1. LiveIn(To[c]) \subseteq SatisfiedBy(st) /\ c \in LiveIn(To[c])
    BY <1>5 DEF Decision, MustSkip, LiveIn, Incoming
  <2>2. QED
    BY <1>3, <1>4, <2>1 DEF SatisfiedBy
<1>6. QED
  BY <1>3, <1>5

\* What advance_run newly satisfies comes from a step it finds done or skips.
LEMMA NewlyFromDone ==
  ASSUME CalmInvariant, AdvanceCommit, NEW skips \in SUBSET Nodes, NEW ready,
         Decision(skips, ready), NEW n \in Nodes, NEW d \in LiveIn(n) \cap (satisfied' \ satisfied)
  PROVE  /\ d \in Edges /\ To[d] = n /\ From[d] \in Nodes
         /\ Skipping(skips)[From[d]] \in Terminal
         /\ From[d] \in skips \/ adv.status[From[d]] \in Terminal
<1>1. d \in Edges /\ To[d] = n /\ From[d] \in Nodes
  BY ParentIsNode DEF LiveIn, Incoming
<1>2. Skipping(skips)[From[d]] \in Terminal
  BY <1>1 DEF Decision, SatisfiedBy
<1>3. QED
  BY <1>1, <1>2 DEF Skipping

LEMMA KeptCounters ==
  ASSUME Calm, Untangled, CalmInvariant, KeptInvariant, [Next]_vars
  PROVE  CountersKept
<1>1. ASSUME NEW w \in Workers, CommitBranchWrite(w), NEW t \in prune[w].hit
      PROVE  deps_remaining[t] = prune[w].left[t] + Cardinality(PrunedInto(w, t))
  BY <1>1 DEF CommitBranchWrite, KeptInvariant, PruneKept
<1>2. ASSUME AdvanceCommit, NEW n \in Nodes, deps_remaining[n] # adv.left[n],
             NEW d \in LiveIn(n) \cap (satisfied' \ satisfied)
      PROVE  FALSE
  <2>1. PICK skips, ready \in SUBSET Nodes : Decision(skips, ready)
    BY <1>2, AdvanceDecides
  <2>2. adv.pc = "deps" /\ live \subseteq adv.live
    BY <1>2 DEF AdvanceCommit, CalmInvariant, JoinInvariant, AdvanceSafe
  <2>3. PICK e \in Incoming(n) : /\ Kind[From[e]] = "branch" /\ e \notin live
                                /\ adv.status[From[e]] \notin Terminal \cup {"pending"}
    BY <1>2, <2>2 DEF KeptInvariant, ReadKept
  <2>4. e \in Edges /\ To[e] = n
    BY DEF Incoming
  <2>5. /\ d \in Edges /\ To[d] = n /\ From[d] \in Nodes
        /\ Skipping(skips)[From[d]] \in Terminal
        /\ From[d] \in skips \/ adv.status[From[d]] \in Terminal
    BY <1>2, <2>1, NewlyFromDone
  <2>6. From[d] # From[e]
    BY <1>2, <2>1, <2>3, <2>4, <2>5, SkipsBehindDone
  <2>7. PICK c \in Edges : /\ From[c] = From[e] /\ To[c] = From[d]
                          /\ {Handle[c], Handle[e]} = {"true", "false"}
    BY <2>3, <2>4, <2>5, <2>6 DEF Untangled
  <2>8. adv.status[From[d]] = "pending"
    BY <2>2, <2>3, <2>7 DEF KeptInvariant, ReadFollows
  <2>9. c \notin live
    BY <1>2, <2>1, <2>2, <2>3, <2>5, <2>7, <2>8, SkipsBehindDone
  <2>10. QED
    BY <2>3, <2>4, <2>7, <2>9 DEF KeptInvariant, OnePort
<1>3. QED
  BY <1>1, <1>2 DEF CountersKept

LEMMA SkippedClosedStep ==
  ASSUME Calm, CalmInvariant, SkippedClosed, [Next]_vars
  PROVE  SkippedClosed'
<1> SUFFICES ASSUME NEW n \in Nodes, status'[n] = "skipped" PROVE LiveUnsatisfied(n)' = {}
  BY DEF SkippedClosed
<1>1. status \in [Nodes -> StepStatus] /\ TypeOK
  BY DEF CalmInvariant, JoinInvariant, TypeOK
<1>2. CASE status[n] = "skipped"
  <2>1. live' \subseteq live /\ satisfied \subseteq satisfied'
    BY EdgeWrites DEF CommitBranchWrite, AdvanceCommit, SatisfiedBy
  <2>2. QED
    BY <1>1, <1>2, <2>1, WaitsForLess DEF SkippedClosed
<1>3. CASE AdvanceCommit /\ status[n] # "skipped"
  <2>1. PICK skips, ready \in SUBSET Nodes : Decision(skips, ready)
    BY <1>3, AdvanceDecides
  <2>2. MustSkip(n, Skipping(skips)) /\ satisfied' = SatisfiedBy(Skipping(skips))
    BY <1>3, <2>1 DEF Decision
  <2>3. live' = live /\ live \subseteq adv.live
    BY <1>3 DEF AdvanceCommit, CalmInvariant, JoinInvariant, AdvanceSafe
  <2>4. QED
    BY <2>2, <2>3 DEF MustSkip, LiveIn, LiveUnsatisfied, Incoming
<1>4. CASE StartRun
  BY <1>4 DEF StartRun
<1>5. CASE \E w \in Workers, m \in Nodes : ClaimReadyStep(w, m)
  BY <1>1, <1>2, <1>5 DEF ClaimReadyStep
<1>6. CASE \E w \in Workers : \/ CommitOutput(w) \/ CommitBranchWrite(w) \/ FailStep(w)
                             \/ RetryStep(w) \/ CommitSuspend(w)
  BY <1>1, <1>2, <1>6, CommitWrites DEF Commit
<1>7. CASE SweepWrite \/ SignalWrite
  BY <1>2, <1>7 DEF SweepWrite, SignalWrite
<1>8. QED
  BY <1>2, <1>3, <1>4, <1>5, <1>6, <1>7, StatusWrites

LEMMA PortStep ==
  ASSUME Calm, CalmInvariant, DeadByDone, PrunesPort, OnePort, [Next]_vars
  PROVE  PrunesPort' /\ OnePort'
<1>1. PrunesPort'
  <2> SUFFICES ASSUME NEW w \in Workers, pc'[w] = "pruning"
               PROVE  /\ Kind[job'[w]] = "branch"
                      /\ \E h \in Ports : prune'[w].dead = {e \in Outgoing(job'[w]) : Handle[e] # h}
    BY DEF PrunesPort, Outgoing
  <2>1. CASE CommitBranchRead(w)
    <3>1. PICK h \in Ports :
            LET dead == {e \in Outgoing(job[w]) : Handle[e] # h}
                counted(t) == {e \in dead : To[e] = t /\ e \in live /\ e \notin satisfied}
            IN prune' = [prune EXCEPT ![w] =
                 [dead |-> dead,
                  left |-> [t \in Nodes |-> Minus(deps_remaining[t], Cardinality(counted(t)))],
                  hit  |-> {t \in Nodes : counted(t) # {} /\ deps_remaining[t] > 0}]]
      BY <2>1 DEF CommitBranchRead
    <3>2. prune'[w].dead = {e \in Outgoing(job[w]) : Handle[e] # h}
      BY <3>1 DEF CalmInvariant, JoinInvariant, TypeOK
    <3>3. UNCHANGED job
      BY <2>1 DEF CommitBranchRead
    <3>4. QED
      BY <2>1, <3>2, <3>3 DEF CommitBranchRead
  <2>2. CASE pc[w] = "pruning" /\ prune'[w] = prune[w] /\ job'[w] = job[w]
    BY <2>2 DEF PrunesPort
  <2>3. QED
    BY <2>1, <2>2, PruneWrites
<1>2. OnePort'
  <2>1. CASE UNCHANGED live
    BY <2>1 DEF OnePort
  <2>2. ASSUME NEW w \in Workers, CommitBranchWrite(w) PROVE OnePort'
    <3>1. live' = live \ prune[w].dead /\ pc[w] = "pruning"
      BY <2>2 DEF CommitBranchWrite
    <3>2. PICK h \in Ports : prune[w].dead = {e \in Outgoing(job[w]) : Handle[e] # h}
      BY <3>1 DEF PrunesPort
    <3>3. \A e \in Edges : From[e] = job[w] => e \in live
      BY <3>1, BranchPrunes DEF DeadByDone
    <3> SUFFICES ASSUME NEW c \in Edges \ live', NEW e \in Edges \ live', From[c] = From[e]
                 PROVE  {Handle[c], Handle[e]} # {"true", "false"}
      BY DEF OnePort
    <3>4. CASE From[c] = job[w]
      <4>1. Handle[c] # h /\ Handle[e] # h
        BY <3>1, <3>2, <3>3, <3>4
      <4>2. QED
        BY <4>1 DEF Ports
    <3>5. CASE From[c] # job[w]
      BY <3>1, <3>2, <3>5 DEF OnePort, Outgoing
    <3>6. QED
      BY <3>4, <3>5
  <2>3. QED
    BY <2>1, <2>2, EdgeWrites
<1>3. QED
  BY <1>1, <1>2

\* What the commit of a Branch has read of a counter, it finds when it writes it.
LEMMA PruneKeptStep ==
  ASSUME Calm, Untangled, CalmInvariant, DeadByDone, CounterExact, PruneExact,
         SkippedClosed, PrunesPort, PruneKept, [Next]_vars
  PROVE  PruneKept'
<1> SUFFICES ASSUME NEW w \in Workers, pc'[w] = "pruning", NEW t \in prune'[w].hit
             PROVE  deps_remaining'[t] = prune'[w].left[t] + Cardinality(PrunedInto(w, t)')
  BY DEF PruneKept
<1>1. CASE CommitBranchRead(w)
  <2>1. PICK h \in Ports :
          LET dead == {e \in Outgoing(job[w]) : Handle[e] # h}
              counted(u) == {e \in dead : To[e] = u /\ e \in live /\ e \notin satisfied}
          IN prune' = [prune EXCEPT ![w] =
               [dead |-> dead,
                left |-> [u \in Nodes |-> Minus(deps_remaining[u], Cardinality(counted(u)))],
                hit  |-> {u \in Nodes : counted(u) # {} /\ deps_remaining[u] > 0}]]
    BY <1>1 DEF CommitBranchRead
  <2> DEFINE dead == {e \in Outgoing(job[w]) : Handle[e] # h}
             counted == {e \in dead : To[e] = t /\ e \in live /\ e \notin satisfied}
  <2>2. /\ prune'[w].dead = dead /\ t \in Nodes
        /\ prune'[w].left[t] = Minus(deps_remaining[t], Cardinality(counted))
    BY <2>1 DEF CalmInvariant, JoinInvariant, TypeOK
  <2>3. status[job[w]] = "running"
    BY <1>1, CommitsItsOwn DEF CommitBranchRead
  <2>4. \A e \in dead : e \in live /\ e \notin satisfied
    BY <2>3 DEF DeadByDone, CalmInvariant, SatisfiedByDone, Outgoing
  <2>5. PrunedInto(w, t)' = counted
    BY <2>2, <2>4 DEF PrunedInto
  <2>6. LiveUnsatisfied(t) \in SUBSET Edges /\ counted \in SUBSET LiveUnsatisfied(t)
    BY DEF LiveUnsatisfied, Outgoing, Incoming
  <2> HIDE DEF counted
  <2>7. /\ Cardinality(LiveUnsatisfied(t)) \in Nat /\ Cardinality(counted) \in Nat
        /\ Cardinality(counted) <= Cardinality(LiveUnsatisfied(t))
    BY <2>6, SmallerCount
  <2>8. deps_remaining'[t] = Cardinality(LiveUnsatisfied(t))
    BY <1>1, <2>2 DEF CommitBranchRead, CounterExact
  <2>9. deps_remaining[t] = Cardinality(LiveUnsatisfied(t))
    BY <2>2 DEF CounterExact
  <2>10. QED
    BY <2>2, <2>5, <2>7, <2>8, <2>9 DEF Minus
<1>2. CASE pc[w] = "pruning" /\ prune'[w] = prune[w]
  <2>1. PICK e \in prune[w].dead : To[e] = t
    BY <1>2 DEF PruneExact
  <2>2. /\ job[w] \in Nodes /\ status[job[w]] = "running" /\ e \in Edges /\ From[e] = job[w]
        /\ Kind[job[w]] = "branch" /\ t \in Nodes
    BY <1>2, <2>1, BranchPrunes, ParentIsNode DEF PrunesPort
  <2>3. deps_remaining'[t] = deps_remaining[t]
    <3>1. CASE UNCHANGED deps_remaining
      BY <3>1
    <3>2. ASSUME NEW v \in Workers, CommitBranchWrite(v), t \in prune[v].hit PROVE FALSE
      <4>1. pc[v] = "pruning" /\ v # w
        BY <3>2 DEF CommitBranchWrite, Commit, Goto, CalmInvariant, JoinInvariant, TypeOK
      <4>2. PICK d \in prune[v].dead : To[d] = t
        BY <3>2, <4>1 DEF PruneExact
      <4>3. d \in Edges /\ From[d] = job[v] /\ status[job[v]] = "running"
        BY <4>1, <4>2, BranchPrunes
      <4>4. From[d] # From[e]
        BY <1>2, <2>2, <4>1, <4>3, CommitsItsOwn
      <4>5. PICK c \in Edges : From[c] = From[e] /\ To[c] = From[d]
        BY <2>1, <2>2, <4>2, <4>3, <4>4 DEF Untangled
      <4>6. status[From[d]] \in {"absent", "pending"}
        BY <2>2, <4>5, ChildrenWait
      <4>7. QED
        BY <4>3, <4>6
    <3>3. ASSUME NEW v \in Workers, CommitBranchWrite(v) PROVE deps_remaining'[t] = deps_remaining[t]
      BY <2>2, <3>2, <3>3 DEF CommitBranchWrite
    <3>4. ASSUME AdvanceCommit PROVE deps_remaining'[t] = deps_remaining[t]
      <4>1. PICK skips, ready \in SUBSET Nodes : Decision(skips, ready)
        BY <3>4, AdvanceDecides
      <4>2. adv.status[From[e]] \notin Terminal \cup {"pending"}
        BY <2>2, <3>4 DEF CalmInvariant, ReadHolds, AdvanceCommit
      <4>3. ASSUME NEW d \in LiveIn(t) \cap (satisfied' \ satisfied) PROVE FALSE
        <5>1. /\ d \in Edges /\ To[d] = t /\ From[d] \in Nodes
              /\ Skipping(skips)[From[d]] \in Terminal
              /\ From[d] \in skips \/ adv.status[From[d]] \in Terminal
          BY <2>2, <3>4, <4>1, <4>3, NewlyFromDone
        <5>2. From[d] # From[e]
          BY <2>2, <3>4, <4>1, <4>2, <5>1, SkipsBehindDone
        <5>3. PICK c \in Edges : From[c] = From[e] /\ To[c] = From[d]
          BY <2>1, <2>2, <5>1, <5>2 DEF Untangled
        <5>4. c \in live /\ status[From[d]] \in {"absent", "pending"}
          BY <2>2, <5>3, ChildrenWait
        <5>5. adv.status[From[d]] \notin Terminal
          BY <3>4, <5>1, <5>4 DEF CalmInvariant, ReadHolds, AdvanceCommit
        <5>6. c \notin adv.live
          BY <3>4, <4>1, <4>2, <5>1, <5>3, <5>5, SkipsBehindDone
        <5>7. QED
          BY <3>4, <5>4, <5>6 DEF AdvanceCommit, CalmInvariant, JoinInvariant, AdvanceSafe
      <4>4. NewlySatisfied(t, Skipping(skips)) = {}
        BY <2>2, <3>4, <4>1, <4>3, ResolvedIsCounted
      <4>5. LeftAt(t, Skipping(skips)) = adv.left[t]
        <5>1. adv.left[t] \in Nat
          BY <2>2 DEF CalmInvariant, JoinInvariant, TypeOK, AdvanceType
        <5>2. QED
          BY <4>4, <5>1, FS_EmptySet DEF LeftAt, Minus
      <4>6. QED
        BY <2>2, <4>1, <4>5 DEF Decision, Resolves
    <3>5. QED
      BY <3>1, <3>3, <3>4, CounterWrites
  <2>4. PrunedInto(w, t)' = PrunedInto(w, t)
    BY <1>2 DEF PrunedInto
  <2>5. QED
    BY <1>2, <2>3, <2>4 DEF PruneKept
<1>3. QED
  BY <1>1, <1>2, PruneWrites

\* What advance_run has read of a counter changes only when a condition finishes.
LEMMA ReadKeptStep ==
  ASSUME Calm, CalmInvariant, DeadByDone, PruneExact, SkippedClosed, PrunesPort,
         ReadKept, ReadFollows, [Next]_vars
  PROVE  ReadKept' /\ ReadFollows'
<1>1. /\ adv \in AdvanceType /\ live \subseteq Edges /\ deps_remaining \in [Nodes -> Nat]
  BY DEF CalmInvariant, JoinInvariant, TypeOK
<1>2. CASE AdvanceReturn \/ AdvanceLock
  BY <1>1, <1>2 DEF AdvanceReturn, AdvanceLock, AdvanceType, ReadKept, ReadFollows
<1>3. CASE AdvanceReadSteps
  <2>1. /\ adv'.status = status /\ adv'.left = deps_remaining /\ UNCHANGED deps_remaining
        /\ adv.pc = "locked"
    BY <1>1, <1>3 DEF AdvanceReadSteps, AdvanceType
  <2>2. \A e \in Edges : status[To[e]] # "absent"
    BY <2>1, ParentIsNode DEF CalmInvariant, AllOrNone
  <2>3. \A e \in Edges : status[From[e]] \notin Terminal => status[To[e]] = "pending"
    BY <2>2, ChildrenWait
  <2>4. QED
    BY <2>1, <2>3 DEF ReadKept, ReadFollows
<1>4. CASE AdvanceReadDeps
  <2>1. /\ adv'.status = adv.status /\ adv'.left = adv.left /\ adv.pc = "steps"
        /\ UNCHANGED <<deps_remaining, live>>
    BY <1>1, <1>4 DEF AdvanceReadDeps, AdvanceType
  <2>2. QED
    BY <2>1 DEF ReadKept, ReadFollows, Incoming
<1>5. CASE AdvanceCommit
  BY <1>5 DEF AdvanceCommit, NoAdvance, ReadKept, ReadFollows
<1>6. CASE UNCHANGED adv /\ ~AdvanceCommit
  <2>1. ReadFollows'
    BY <1>6 DEF ReadFollows
  <2>2. ASSUME UNCHANGED <<deps_remaining, live>> PROVE ReadKept'
    BY <1>6, <2>2 DEF ReadKept, Incoming
  <2>3. ASSUME NEW w \in Workers, CommitBranchWrite(w), adv.pc \in {"steps", "deps"},
               NEW n \in Nodes, deps_remaining'[n] # adv.left[n]
        PROVE  \E e \in Incoming(n) : /\ Kind[From[e]] = "branch" /\ e \notin live'
                                      /\ adv.status[From[e]] \notin Terminal \cup {"pending"}
    <3>1. /\ live' = live \ prune[w].dead /\ pc[w] = "pruning"
          /\ deps_remaining'[n] = IF n \in prune[w].hit THEN prune[w].left[n]
                                  ELSE deps_remaining[n]
      BY <2>3 DEF CommitBranchWrite
    <3>2. CASE deps_remaining[n] # adv.left[n]
      BY <2>3, <3>1, <3>2 DEF ReadKept
    <3>3. CASE n \in prune[w].hit
      <4>1. PICK e \in prune[w].dead : To[e] = n
        BY <3>1, <3>3 DEF PruneExact
      <4>2. /\ e \in Edges /\ From[e] = job[w] /\ job[w] \in Nodes /\ status[job[w]] = "running"
            /\ Kind[job[w]] = "branch"
        BY <3>1, <4>1, BranchPrunes DEF PrunesPort
      <4>3. adv.status[From[e]] \notin Terminal \cup {"pending"}
        BY <2>3, <4>2 DEF CalmInvariant, ReadHolds
      <4>4. QED
        BY <3>1, <4>1, <4>2, <4>3 DEF Incoming
    <3>4. QED
      BY <2>3, <3>1, <3>2, <3>3
  <2>4. ReadKept'
    BY <1>6, <2>2, <2>3, CounterWrites DEF ReadKept, Incoming
  <2>5. QED
    BY <2>1, <2>4
<1>7. QED
  BY <1>2, <1>3, <1>4, <1>5, <1>6, EdgeWrites DEF AdvanceStep

LEMMA KeptStep ==
  ASSUME Calm, Untangled, CalmInvariant, ExactInvariant, KeptInvariant, [Next]_vars
  PROVE  KeptInvariant'
BY SkippedClosedStep, PortStep, PruneKeptStep, ReadKeptStep DEF KeptInvariant, ExactInvariant

\* On such a graph a run in which the follow-up messages arrive always has somebody who
\* will move it, whoever crashes and whatever else is lost.
THEOREM UntangledRunsAreNotStranded ==
  ASSUME Calm, FollowUpsArrive, Untangled
  PROVE  Spec => []NeverStranded
<1>1. CalmInvariant /\ [Next]_vars => CalmInvariant'
  BY CalmStep
<1>2. CalmInvariant /\ KeptInvariant /\ [Next]_vars => CountersKept
  BY KeptCounters
<1>3. CalmInvariant /\ ExactInvariant /\ KeptInvariant /\ [Next]_vars
        => ExactInvariant' /\ KeptInvariant'
  BY <1>2, ExactStep, KeptStep
<1>4. QED
  BY <1>1, <1>3, CalmInit, ExactInit, KeptInit, SomeoneMoves, PTL DEF Spec

=============================================================================
