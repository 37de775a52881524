--------------------------- MODULE SchedulerProof ---------------------------
(***************************************************************************)
(* Theorems about Scheduler, for every graph, every number of workers and  *)
(* every environment.                                                      *)
(***************************************************************************)
EXTENDS Scheduler, FiniteSetTheorems, TLAPS

LEMMA CountIsNat ==
  ASSUME NEW S \in SUBSET Edges
  PROVE  Cardinality(S) \in Nat
BY GraphAssumption, FS_Subset, FS_CardinalityType

LEMMA MinusIsNat ==
  ASSUME NEW a \in Nat, NEW b \in Nat
  PROVE  Minus(a, b) \in Nat
BY DEF Minus

LEMMA AttemptLimit ==
  \A n \in Nodes : MaxAttempts[n] \in Nat /\ MaxAttempts[n] >= 1
<1> SUFFICES ASSUME NEW n \in Nodes PROVE MaxAttempts[n] \in Nat /\ MaxAttempts[n] >= 1
  OBVIOUS
<1>1. MaxAttempts[n] \in Nat \ {0}
  BY GraphAssumption
<1>2. QED
  BY <1>1

USE DEF rows, queues, worker, others, WorkerPc, RunStatus, RunTerminal, StepStatus,
        Terminal, Active

LEMMA TypeInit == Init => TypeOK
<1> SUFFICES ASSUME Init PROVE TypeOK
  OBVIOUS
<1>1. deps_remaining \in [Nodes -> Nat]
  BY CountIsNat DEF Init, Incoming
<1>2. prune \in [Workers -> PruneType]
  BY DEF Init, NoPrune, PruneType
<1>3. adv \in AdvanceType
  BY DEF Init, NoAdvance, AdvanceType
<1>4. /\ sweep \in SweepType /\ signal \in SignalType /\ cancel \in CancelType
  BY DEF Init, NoSweep, NoSignal, NoCancel, SweepType, SignalType, CancelType
<1>5. attempt \in [Nodes -> Nat] /\ \A n \in Nodes : attempt[n] \in 1 .. MaxAttempts[n]
  BY AttemptLimit DEF Init
<1>6. QED
  BY <1>1, <1>2, <1>3, <1>4, <1>5 DEF Init, TypeOK

\* A worker keeps the types.
LEMMA TypeWorker ==
  ASSUME TypeOK, NEW w \in Workers, WorkerStep(w)
  PROVE  TypeOK'
<1>1. CASE \E n \in Nodes : ClaimReadyStep(w, n)
  BY <1>1, EnvAssumption DEF TypeOK, ClaimReadyStep, Goto
<1>2. CASE \E n \in Nodes : LoseClaim(w, n)
  BY <1>2 DEF TypeOK, LoseClaim
<1>3. CASE SetUpCancelled(w)
  BY <1>3 DEF TypeOK, SetUpCancelled, Goto
<1>4. CASE SetUp(w)
  BY <1>4 DEF TypeOK, SetUp, Goto
<1>5. CASE ResumeRun(w)
  BY <1>5 DEF TypeOK, ResumeRun, Goto
<1>6. CASE CommitOutput(w)
  BY <1>6 DEF TypeOK, CommitOutput, Commit, Goto
<1>7. CASE CommitSuspend(w)
  BY <1>7, EnvAssumption DEF TypeOK, CommitSuspend, Commit, Goto, SweepType, SignalType, CancelType
<1>8. CASE CommitBranchRead(w)
  <2>1. PICK h \in Ports :
          LET dead == {e \in Outgoing(job[w]) : Handle[e] # h}
              counted(t) == {e \in dead : To[e] = t /\ e \in live /\ e \notin satisfied}
          IN prune' = [prune EXCEPT ![w] =
               [dead |-> dead,
                left |-> [t \in Nodes |-> Minus(deps_remaining[t], Cardinality(counted(t)))],
                hit  |-> {t \in Nodes : counted(t) # {} /\ deps_remaining[t] > 0}]]
    BY <1>8 DEF CommitBranchRead
  <2> DEFINE dead == {e \in Outgoing(job[w]) : Handle[e] # h}
             counted(t) == {e \in dead : To[e] = t /\ e \in live /\ e \notin satisfied}
             left == [t \in Nodes |-> Minus(deps_remaining[t], Cardinality(counted(t)))]
             hit == {t \in Nodes : counted(t) # {} /\ deps_remaining[t] > 0}
  <2>2. dead \in SUBSET Edges
    BY DEF Outgoing
  <2>3. left \in [Nodes -> Nat]
    <3>1. \A t \in Nodes : counted(t) \in SUBSET Edges
      BY <2>2
    <3>2. \A t \in Nodes : Cardinality(counted(t)) \in Nat
      BY <3>1, CountIsNat
    <3> HIDE DEF counted
    <3>3. \A t \in Nodes : Minus(deps_remaining[t], Cardinality(counted(t))) \in Nat
      BY <3>2, MinusIsNat DEF TypeOK
    <3>4. QED
      BY <3>3
  <2>4. prune' = [prune EXCEPT ![w] = [dead |-> dead, left |-> left, hit |-> hit]]
    BY <2>1
  <2> HIDE DEF dead, left, hit
  <2>5. hit \in SUBSET Nodes
    BY DEF hit
  <2>6. prune' \in [Workers -> PruneType]
    BY <2>2, <2>3, <2>4, <2>5 DEF TypeOK, PruneType
  <2>7. QED
    BY <1>8, <2>6 DEF TypeOK, CommitBranchRead, Goto
<1>9. CASE CommitBranchWrite(w)
  BY <1>9 DEF TypeOK, CommitBranchWrite, Commit, Goto, PruneType, NoPrune
<1>10. CASE FailStep(w)
  BY <1>10 DEF TypeOK, FailStep, Commit, Goto
<1>11. CASE RetryStep(w)
  <2>1. /\ attempt' \in [Nodes -> Nat]
        /\ \A n \in Nodes : attempt'[n] \in 1 .. MaxAttempts[n]
    BY <1>11, AttemptLimit DEF TypeOK, RetryStep
  <2>2. QED
    BY <1>11, <2>1 DEF TypeOK, RetryStep, Commit, Goto
<1>12. CASE AbandonStep(w)
  BY <1>12 DEF TypeOK, AbandonStep, Commit, Goto
<1>13. CASE Report(w)
  BY <1>13 DEF TypeOK, Report, Goto
<1>14. QED
  BY <1>1, <1>2, <1>3, <1>4, <1>5, <1>6, <1>7, <1>8, <1>9, <1>10, <1>11, <1>12, <1>13
  DEF WorkerStep

LEMMA TypeAdvanceCommit ==
  ASSUME TypeOK, AdvanceCommit
  PROVE  TypeOK'
<1>1. PICK skips \in SUBSET {n \in Nodes : adv.status[n] = "pending"} :
        LET st    == Skipping(skips)
            ready == {n \in Nodes : MayReady(n, st)}
            final == [n \in Nodes |-> IF n \in ready THEN "ready" ELSE st[n]]
        IN /\ status' = [n \in Nodes |-> IF n \in skips \cup ready THEN final[n]
                                         ELSE status[n]]
           /\ deps_remaining' = [n \in Nodes |->
                IF LeftAt(n, st) # adv.left[n] THEN LeftAt(n, st) ELSE deps_remaining[n]]
           /\ inputs' = [n \in Nodes |-> inputs[n] \cup
                {From[e] : e \in {d \in NewlySatisfied(n, st) : st[From[d]] = "succeeded"}}]
           /\ satisfied' = SatisfiedBy(st)
           /\ run' = IF RunOutcome(final) # adv.run THEN RunOutcome(final) ELSE run
           /\ execQ' = execQ \cup ready
  BY DEF AdvanceCommit
<1> DEFINE st == Skipping(skips)
           ready == {n \in Nodes : MayReady(n, st)}
           final == [n \in Nodes |-> IF n \in ready THEN "ready" ELSE st[n]]
<1>2. \A n \in Nodes : NewlySatisfied(n, st) \in SUBSET Edges
  BY DEF NewlySatisfied, LiveIn, Incoming
<1>3. \A n \in Nodes : LeftAt(n, st) \in Nat
  <2>1. \A n \in Nodes : Cardinality(NewlySatisfied(n, st)) \in Nat
    BY <1>2, CountIsNat
  <2>2. \A n \in Nodes : adv.left[n] \in Nat
    BY DEF TypeOK, AdvanceType
  <2> HIDE DEF st
  <2>3. QED
    BY <2>1, <2>2, MinusIsNat DEF LeftAt
<1>4. st \in [Nodes -> StepStatus]
  BY DEF TypeOK, AdvanceType, Skipping
<1> HIDE DEF st
<1>5. status' \in [Nodes -> StepStatus]
  BY <1>1, <1>4 DEF TypeOK, st
<1>6. deps_remaining' \in [Nodes -> Nat]
  BY <1>1, <1>3 DEF TypeOK, st
<1>7. inputs' \in [Nodes -> SUBSET Nodes]
  <2>1. \A e \in Edges : From[e] \in Nodes
    BY GraphAssumption
  <2>2. QED
    BY <1>1, <1>2, <2>1 DEF TypeOK, st
<1>8. satisfied' \subseteq Edges
  BY <1>1 DEF TypeOK, SatisfiedBy
<1>9. run' \in RunStatus
  <2>1. adv.run \in RunStatus /\ run \in RunStatus
    BY DEF TypeOK, AdvanceType
  <2>2. RunOutcome(final) \in RunStatus
    BY <2>1 DEF RunOutcome
  <2>3. QED
    BY <1>1, <2>1, <2>2 DEF st
<1>10. execQ' \subseteq Nodes
  BY <1>1 DEF TypeOK
<1>11. adv' \in AdvanceType
  BY DEF AdvanceCommit, NoAdvance, AdvanceType
<1>12. QED
  BY <1>5, <1>6, <1>7, <1>8, <1>9, <1>10, <1>11 DEF AdvanceCommit, TypeOK

LEMMA TypeAdvance ==
  ASSUME TypeOK, AdvanceStep
  PROVE  TypeOK'
<1>1. CASE AdvanceReturn
  BY <1>1 DEF TypeOK, AdvanceReturn
<1>2. CASE AdvanceLock
  BY <1>2 DEF TypeOK, AdvanceLock, AdvanceType
<1>3. CASE AdvanceReadSteps
  BY <1>3 DEF TypeOK, AdvanceReadSteps, AdvanceType
<1>4. CASE AdvanceReadDeps
  BY <1>4 DEF TypeOK, AdvanceReadDeps, AdvanceType
<1>5. QED
  BY <1>1, <1>2, <1>3, <1>4, TypeAdvanceCommit DEF AdvanceStep

LEMMA TypeFault ==
  ASSUME TypeOK, FaultStep
  PROVE  TypeOK'
<1>1. ASSUME NEW n \in Nodes, LeaseExpiresOnLiveWorker(n) PROVE TypeOK'
  BY <1>1 DEF TypeOK, LeaseExpiresOnLiveWorker, Fault
<1>2. ASSUME NEW n \in Nodes, LoseExec(n) PROVE TypeOK'
  BY <1>2 DEF TypeOK, LoseExec, Fault
<1>3. ASSUME NEW n \in Nodes, LoseAdvance(n) PROVE TypeOK'
  BY <1>3 DEF TypeOK, LoseAdvance, Fault
<1>4. NoPrune \in PruneType
  BY DEF NoPrune, PruneType
<1>5. ASSUME NEW w \in Workers, Crash(w) PROVE TypeOK'
  BY <1>4, <1>5 DEF TypeOK, Crash, Fault, Dies, Goto
<1>6. ASSUME NEW w \in Workers, CrashReporting(w) PROVE TypeOK'
  BY <1>4, <1>6 DEF TypeOK, CrashReporting, Fault, Dies, Goto
<1>7. QED
  BY <1>1, <1>2, <1>3, <1>5, <1>6 DEF FaultStep

LEMMA TypeStep == TypeOK /\ [Next]_vars => TypeOK'
<1> SUFFICES ASSUME TypeOK, [Next]_vars PROVE TypeOK'
  OBVIOUS
<1>1. CASE StartRun
  BY <1>1 DEF TypeOK, StartRun, Roots
<1>2. CASE \E w \in Workers : WorkerStep(w)
  BY <1>2, TypeWorker
<1>3. CASE AdvanceStep
  BY <1>3, TypeAdvance
<1>4. CASE SweepRead
  BY <1>4 DEF TypeOK, SweepRead, SweepType
<1>5. CASE SweepWrite
  BY <1>5 DEF TypeOK, SweepWrite, SweepType, NoSweep
<1>6. CASE FindStrandedReady
  BY <1>6 DEF TypeOK, FindStrandedReady
<1>7. CASE SignalRead
  BY <1>7 DEF TypeOK, SignalRead, SignalType
<1>8. CASE SignalWrite
  BY <1>8 DEF TypeOK, SignalWrite, SignalType, NoSignal
<1>9. CASE CancelRead
  BY <1>9 DEF TypeOK, CancelRead, CancelType
<1>10. CASE CancelWrite
  BY <1>10 DEF TypeOK, CancelWrite, CancelType, NoCancel
<1>11. CASE \E n \in Nodes : DeadlinePasses(n)
  BY <1>11 DEF TypeOK, DeadlinePasses
<1>12. CASE \E n \in Nodes : LeaseExpires(n)
  BY <1>12 DEF TypeOK, LeaseExpires
<1>13. CASE FaultStep
  BY <1>13, TypeFault
<1>14. CASE Rest
  BY <1>14 DEF TypeOK, Rest, vars
<1>15. CASE UNCHANGED vars
  BY <1>15 DEF TypeOK, vars
<1>16. QED
  BY <1>1, <1>2, <1>3, <1>4, <1>5, <1>6, <1>7, <1>8, <1>9, <1>10, <1>11, <1>12, <1>13,
     <1>14, <1>15 DEF Next, SweepStep

\* Every row, message and local snapshot holds a value the code can store there,
\* whatever the graph and whatever goes wrong.
THEOREM TypeCorrect == Spec => []TypeOK
BY TypeInit, TypeStep, PTL DEF Spec

----------------------------------------------------------------------------
(***************************************************************************)
(* The join counter.  CounterNeverLow and JoinClosed are not inductive:    *)
(* a counter is lowered, and a step is started, by transactions that read  *)
(* what they rely on earlier.  The invariant says that nothing that was    *)
(* read can have become too optimistic, because live edges are only ever   *)
(* pruned and edges are only ever satisfied, never the other way round.    *)
(***************************************************************************)

\* What a Branch commit has read is still enough when it writes it back.
PruneSafe ==
  \A w \in Workers : pc[w] = "pruning" =>
    \A t \in prune[w].hit :
      prune[w].left[t] >= Cardinality(LiveUnsatisfied(t) \ prune[w].dead)

\* So is what advance_run has read.
StillCounted(n) == {e \in Incoming(n) : e \in adv.live /\ e \notin satisfied}

AdvanceSafe ==
  /\ adv.pc = "steps" =>
       \A n \in Nodes : adv.left[n] >= Cardinality(LiveUnsatisfied(n))
  /\ adv.pc = "deps" =>
       /\ live \subseteq adv.live
       /\ \A n \in Nodes : adv.left[n] >= Cardinality(StillCounted(n))

\* Whoever is about to write a started status has nothing to wait for.
BusyClosed == \A w \in Workers : pc[w] # "idle" => LiveUnsatisfied(job[w]) = {}
WakeClosed ==
  \A n \in sweep.reclaim \cup sweep.wake \cup signal.wake : LiveUnsatisfied(n) = {}

JoinInvariant ==
  /\ TypeOK
  /\ CounterNeverLow /\ PruneSafe /\ AdvanceSafe
  /\ JoinClosed /\ BusyClosed /\ WakeClosed

LEMMA SmallerCount ==
  ASSUME NEW S \in SUBSET Edges, NEW T \in SUBSET S
  PROVE  /\ Cardinality(S) \in Nat /\ Cardinality(T) \in Nat
         /\ Cardinality(T) <= Cardinality(S)
<1>1. IsFiniteSet(S)
  BY GraphAssumption, FS_Subset
<1>2. QED
  BY <1>1, FS_Subset, FS_CardinalityType

LEMMA CountOfDifference ==
  ASSUME NEW S \in SUBSET Edges, NEW T \in SUBSET S
  PROVE  Cardinality(S \ T) = Cardinality(S) - Cardinality(T)
<1>1. IsFiniteSet(S) /\ S \cap T = T
  BY GraphAssumption, FS_Subset
<1>2. QED
  BY <1>1, FS_Difference

LEMMA AllCounted ==
  ASSUME NEW S \in SUBSET Edges, NEW T \in SUBSET S, Cardinality(S) <= Cardinality(T)
  PROVE  S = T
<1>1. IsFiniteSet(S \ T) /\ S \ T \in SUBSET Edges
  BY GraphAssumption, FS_Subset
<1>2. Cardinality(S \ T) \in Nat /\ Cardinality(S) \in Nat /\ Cardinality(T) \in Nat
  BY <1>1, SmallerCount
<1>3. Cardinality(S \ T) = 0
  BY <1>2, CountOfDifference
<1>4. S \ T = {}
  BY <1>1, <1>3, FS_EmptySet
<1>5. QED
  BY <1>4

\* A step waits for fewer and fewer edges.
LEMMA WaitsForLess ==
  ASSUME TypeOK, live' \subseteq live, satisfied \subseteq satisfied', NEW n \in Nodes
  PROVE  /\ LiveUnsatisfied(n) \in SUBSET Edges
         /\ LiveUnsatisfied(n)' \in SUBSET LiveUnsatisfied(n)
         /\ Cardinality(LiveUnsatisfied(n)) \in Nat
         /\ Cardinality(LiveUnsatisfied(n)') \in Nat
         /\ Cardinality(LiveUnsatisfied(n)') <= Cardinality(LiveUnsatisfied(n))
<1>1. LiveUnsatisfied(n) \in SUBSET Edges /\ LiveUnsatisfied(n)' \in SUBSET LiveUnsatisfied(n)
  BY DEF TypeOK, LiveUnsatisfied, Incoming
<1>2. QED
  BY <1>1, SmallerCount

LEMMA JoinInit == Init => JoinInvariant
<1> SUFFICES ASSUME Init PROVE JoinInvariant
  OBVIOUS
<1>1. TypeOK
  BY TypeInit
<1>2. \A n \in Nodes : LiveUnsatisfied(n) = Incoming(n)
  BY DEF Init, LiveUnsatisfied, Incoming
<1>3. CounterNeverLow
  <2>1. \A n \in Nodes : Incoming(n) \in SUBSET Edges
    BY DEF Incoming
  <2>2. \A n \in Nodes : Cardinality(Incoming(n)) \in Nat
    BY <2>1, CountIsNat
  <2>3. QED
    BY <1>2, <2>2 DEF Init, CounterNeverLow
<1>4. JoinClosed /\ BusyClosed /\ PruneSafe
  BY DEF Init, JoinClosed, Started, BusyClosed, PruneSafe
<1>5. AdvanceSafe /\ WakeClosed
  BY DEF Init, AdvanceSafe, WakeClosed, NoAdvance, NoSweep, NoSignal
<1>6. QED
  BY <1>1, <1>3, <1>4, <1>5 DEF JoinInvariant

\* A step that neither prunes nor satisfies an edge nor writes a counter.
LEMMA JoinFrame ==
  ASSUME JoinInvariant, UNCHANGED <<live, satisfied, deps_remaining>>
  PROVE  /\ \A n : LiveUnsatisfied(n)' = LiveUnsatisfied(n)
         /\ CounterNeverLow'
         /\ UNCHANGED adv => AdvanceSafe'
         /\ UNCHANGED <<sweep, signal>> => WakeClosed'
         /\ UNCHANGED <<pc, prune>> => PruneSafe'
         /\ UNCHANGED <<pc, job>> => BusyClosed'
         /\ UNCHANGED status => JoinClosed'
<1>1. \A n : LiveUnsatisfied(n)' = LiveUnsatisfied(n)
  BY DEF LiveUnsatisfied
<1>2. CounterNeverLow'
  BY <1>1 DEF JoinInvariant, CounterNeverLow
<1>3. UNCHANGED adv => AdvanceSafe'
  BY <1>1 DEF JoinInvariant, AdvanceSafe, StillCounted
<1>4. UNCHANGED <<sweep, signal>> => WakeClosed'
  BY <1>1 DEF JoinInvariant, WakeClosed
<1>5. UNCHANGED <<pc, prune>> => PruneSafe'
  BY <1>1 DEF JoinInvariant, PruneSafe
<1>6. UNCHANGED <<pc, job>> => BusyClosed'
  BY <1>1 DEF JoinInvariant, BusyClosed
<1>7. UNCHANGED status => JoinClosed'
  BY <1>1 DEF JoinInvariant, JoinClosed
<1>8. QED
  BY <1>1, <1>2, <1>3, <1>4, <1>5, <1>6, <1>7

\* A transaction that writes a started status writes it on a step it may start.
LEMMA JoinCommit ==
  ASSUME JoinInvariant, UNCHANGED <<live, satisfied, deps_remaining>>,
         NEW S \in SUBSET Nodes, \A n \in S : LiveUnsatisfied(n) = {},
         \A n \in Nodes \ S : status'[n] \in Started => status'[n] = status[n]
  PROVE  JoinClosed'
BY JoinFrame DEF JoinInvariant, JoinClosed

\* Moving a busy worker on, to anywhere but the second half of a Branch commit.
LEMMA JoinGoto ==
  ASSUME JoinInvariant, UNCHANGED <<live, satisfied, deps_remaining, job, prune>>,
         NEW w \in Workers, pc[w] # "idle", NEW l, l # "pruning", Goto(w, l)
  PROVE  PruneSafe' /\ BusyClosed'
<1>1. \A v \in Workers : pc'[v] # "idle" => pc[v] # "idle"
  BY DEF Goto, JoinInvariant, TypeOK
<1>2. BusyClosed'
  BY <1>1, JoinFrame DEF JoinInvariant, BusyClosed
<1>3. \A v \in Workers : pc'[v] = "pruning" => pc[v] = "pruning"
  BY DEF Goto, JoinInvariant, TypeOK
<1>4. PruneSafe'
  BY <1>3, JoinFrame DEF JoinInvariant, PruneSafe
<1>5. QED
  BY <1>2, <1>4

\* A worker's commit of its own step, which it may start.
LEMMA JoinOwnCommit ==
  ASSUME JoinInvariant, UNCHANGED <<live, satisfied, deps_remaining, job, prune>>,
         NEW w \in Workers, pc[w] # "idle", NEW s, Commit(w, s)
  PROVE  PruneSafe' /\ BusyClosed' /\ JoinClosed'
<1>1. PruneSafe' /\ BusyClosed'
  BY JoinGoto DEF Commit
<1>2. job[w] \in Nodes /\ LiveUnsatisfied(job[w]) = {}
  BY DEF JoinInvariant, TypeOK, BusyClosed
<1>3. \A n \in Nodes \ {job[w]} : status'[n] = status[n]
  BY DEF Commit, JoinInvariant, TypeOK
<1>4. {job[w]} \in SUBSET Nodes /\ \A n \in {job[w]} : LiveUnsatisfied(n) = {}
  BY <1>2
<1> HIDE DEF Commit
<1>5. JoinClosed'
  BY <1>3, <1>4, JoinCommit
<1>6. QED
  BY <1>1, <1>5

\* The two halves of a Branch commit.
LEMMA JoinBranchRead ==
  ASSUME JoinInvariant, NEW w \in Workers, CommitBranchRead(w)
  PROVE  PruneSafe' /\ BusyClosed'
<1>1. PICK h \in Ports :
        LET dead == {e \in Outgoing(job[w]) : Handle[e] # h}
            counted(t) == {e \in dead : To[e] = t /\ e \in live /\ e \notin satisfied}
        IN prune' = [prune EXCEPT ![w] =
             [dead |-> dead,
              left |-> [t \in Nodes |-> Minus(deps_remaining[t], Cardinality(counted(t)))],
              hit  |-> {t \in Nodes : counted(t) # {} /\ deps_remaining[t] > 0}]]
  BY DEF CommitBranchRead
<1> DEFINE dead == {e \in Outgoing(job[w]) : Handle[e] # h}
           counted(t) == {e \in dead : To[e] = t /\ e \in live /\ e \notin satisfied}
           left == [t \in Nodes |-> Minus(deps_remaining[t], Cardinality(counted(t)))]
           hit == {t \in Nodes : counted(t) # {} /\ deps_remaining[t] > 0}
<1>2. prune' = [prune EXCEPT ![w] = [dead |-> dead, left |-> left, hit |-> hit]]
  BY <1>1
<1>3. ASSUME NEW t \in Nodes
      PROVE  left[t] >= Cardinality(LiveUnsatisfied(t) \ dead)
  <2>1. LiveUnsatisfied(t) \in SUBSET Edges
    BY DEF LiveUnsatisfied, Incoming
  <2>2. counted(t) \in SUBSET LiveUnsatisfied(t) /\ LiveUnsatisfied(t) \ dead
          = LiveUnsatisfied(t) \ counted(t)
    BY DEF LiveUnsatisfied, Incoming, Outgoing
  <2> HIDE DEF counted, dead
  <2>3. Cardinality(LiveUnsatisfied(t) \ dead)
          = Cardinality(LiveUnsatisfied(t)) - Cardinality(counted(t))
    BY <2>1, <2>2, CountOfDifference
  <2>4. /\ Cardinality(LiveUnsatisfied(t)) \in Nat /\ Cardinality(counted(t)) \in Nat
        /\ Cardinality(counted(t)) <= Cardinality(LiveUnsatisfied(t))
    BY <2>1, <2>2, SmallerCount
  <2>5. deps_remaining[t] \in Nat /\ deps_remaining[t] >= Cardinality(LiveUnsatisfied(t))
    BY DEF JoinInvariant, TypeOK, CounterNeverLow
  <2>6. QED
    BY <2>3, <2>4, <2>5 DEF Minus
<1>4. hit \subseteq Nodes
  OBVIOUS
<1> HIDE DEF dead, left, hit
<1>5. UNCHANGED <<live, satisfied, deps_remaining>>
  BY DEF CommitBranchRead
<1>6. PruneSafe'
  <2> SUFFICES ASSUME NEW v \in Workers, pc'[v] = "pruning", NEW t \in prune'[v].hit
               PROVE  prune'[v].left[t] >= Cardinality(LiveUnsatisfied(t) \ prune'[v].dead)
    BY <1>5, JoinFrame DEF PruneSafe
  <2>1. CASE v = w
    BY <1>2, <1>3, <1>4, <2>1 DEF JoinInvariant, TypeOK
  <2>2. CASE v # w
    BY <1>2, <2>2 DEF CommitBranchRead, Goto, JoinInvariant, TypeOK, PruneSafe
  <2>3. QED
    BY <2>1, <2>2
<1>7. BusyClosed'
  <2>1. \A v \in Workers : pc'[v] # "idle" => pc[v] # "idle"
    BY DEF CommitBranchRead, Goto, JoinInvariant, TypeOK
  <2>2. UNCHANGED job
    BY DEF CommitBranchRead
  <2>3. QED
    BY <1>5, <2>1, <2>2, JoinFrame DEF JoinInvariant, BusyClosed
<1>8. QED
  BY <1>6, <1>7

LEMMA JoinBranchWrite ==
  ASSUME JoinInvariant, TypeOK', NEW w \in Workers, CommitBranchWrite(w)
  PROVE  JoinInvariant'
<1> DEFINE dead == prune[w].dead
<1>1. live' = live \ dead /\ UNCHANGED <<satisfied, adv, sweep, signal, job>>
  BY DEF CommitBranchWrite
<1>2. live' \subseteq live /\ satisfied \subseteq satisfied'
  BY <1>1
<1>3. \A n \in Nodes : LiveUnsatisfied(n) = {} => LiveUnsatisfied(n)' = {}
  BY <1>2, WaitsForLess DEF JoinInvariant
<1>4. CounterNeverLow'
  <2> SUFFICES ASSUME NEW n \in Nodes
               PROVE  deps_remaining'[n] >= Cardinality(LiveUnsatisfied(n)')
    BY DEF CounterNeverLow
  <2>1. deps_remaining'[n] = IF n \in prune[w].hit THEN prune[w].left[n]
                             ELSE deps_remaining[n]
    BY DEF CommitBranchWrite
  <2>2. LiveUnsatisfied(n)' = LiveUnsatisfied(n) \ dead
    BY <1>1 DEF LiveUnsatisfied
  <2>3. CASE n \in prune[w].hit
    BY <2>1, <2>2, <2>3 DEF CommitBranchWrite, JoinInvariant, PruneSafe
  <2>4. CASE n \notin prune[w].hit
    <3>1. /\ Cardinality(LiveUnsatisfied(n)) \in Nat /\ Cardinality(LiveUnsatisfied(n)') \in Nat
          /\ Cardinality(LiveUnsatisfied(n)') <= Cardinality(LiveUnsatisfied(n))
      BY <1>2, WaitsForLess DEF JoinInvariant
    <3>2. deps_remaining[n] \in Nat /\ deps_remaining[n] >= Cardinality(LiveUnsatisfied(n))
      BY DEF JoinInvariant, TypeOK, CounterNeverLow
    <3>3. QED
      BY <2>1, <2>4, <3>1, <3>2
  <2>5. QED
    BY <2>3, <2>4
<1>5. PruneSafe'
  <2> SUFFICES ASSUME NEW v \in Workers, pc'[v] = "pruning", NEW t \in prune'[v].hit
               PROVE  prune'[v].left[t] >= Cardinality(LiveUnsatisfied(t)' \ prune'[v].dead)
    BY DEF PruneSafe
  <2>1. v # w /\ pc[v] = "pruning" /\ prune'[v] = prune[v]
    BY DEF CommitBranchWrite, Commit, Goto, JoinInvariant, TypeOK
  <2>2. prune[v].left[t] \in Nat /\ t \in Nodes
    BY <2>1 DEF JoinInvariant, TypeOK, PruneType
  <2>3. prune[v].left[t] >= Cardinality(LiveUnsatisfied(t) \ prune[v].dead)
    BY <2>1 DEF JoinInvariant, PruneSafe
  <2> DEFINE before == LiveUnsatisfied(t) \ prune[v].dead
             after == LiveUnsatisfied(t)' \ prune[v].dead
  <2>4. before \in SUBSET Edges /\ after \in SUBSET before
    BY <1>2, <2>2, WaitsForLess DEF JoinInvariant
  <2>5. Cardinality(before) \in Nat /\ Cardinality(after) \in Nat
          /\ Cardinality(after) <= Cardinality(before)
    <3> HIDE DEF before, after
    <3>1. QED
      BY <2>4, SmallerCount
  <2>6. QED
    BY <2>1, <2>2, <2>3, <2>5
<1>6. AdvanceSafe'
  <2>1. CASE adv.pc = "steps"
    <3>1. \A n \in Nodes :
            /\ Cardinality(LiveUnsatisfied(n)) \in Nat /\ Cardinality(LiveUnsatisfied(n)') \in Nat
            /\ Cardinality(LiveUnsatisfied(n)') <= Cardinality(LiveUnsatisfied(n))
      BY <1>2, WaitsForLess DEF JoinInvariant
    <3>2. \A n \in Nodes : adv.left[n] \in Nat
                           /\ adv.left[n] >= Cardinality(LiveUnsatisfied(n))
      BY <2>1 DEF JoinInvariant, TypeOK, AdvanceType, AdvanceSafe
    <3>3. QED
      BY <1>1, <2>1, <3>1, <3>2 DEF AdvanceSafe
  <2>2. CASE adv.pc = "deps"
    <3>1. \A n \in Nodes : StillCounted(n)' = StillCounted(n)
      BY <1>1 DEF StillCounted
    <3>2. QED
      BY <1>1, <2>2, <3>1 DEF JoinInvariant, AdvanceSafe
  <2>3. QED
    BY <1>1, <2>1, <2>2 DEF AdvanceSafe
<1>7. job[w] \in Nodes /\ LiveUnsatisfied(job[w]) = {}
  BY DEF CommitBranchWrite, JoinInvariant, TypeOK, BusyClosed
<1>8. JoinClosed'
  <2>1. \A n \in Nodes \ {job[w]} : status'[n] = status[n]
    BY DEF CommitBranchWrite, Commit, JoinInvariant, TypeOK
  <2>2. QED
    BY <1>3, <1>7, <2>1 DEF JoinInvariant, JoinClosed
<1>9. BusyClosed'
  <2>1. \A v \in Workers : pc'[v] # "idle" => pc[v] # "idle" /\ job[v] \in Nodes
    BY DEF CommitBranchWrite, Commit, Goto, JoinInvariant, TypeOK
  <2>2. QED
    BY <1>1, <1>3, <2>1 DEF JoinInvariant, BusyClosed
<1>10. WakeClosed'
  BY <1>1, <1>3 DEF JoinInvariant, WakeClosed, TypeOK, SweepType, SignalType
<1>11. QED
  BY <1>4, <1>5, <1>6, <1>8, <1>9, <1>10 DEF JoinInvariant

\* advance_run: a counter is lowered by what it satisfies, and a step is readied only
\* when that leaves nothing of what it has read.
LEMMA JoinAdvanceCommit ==
  ASSUME JoinInvariant, TypeOK', AdvanceCommit
  PROVE  JoinInvariant'
<1>1. PICK skips \in SUBSET {n \in Nodes : adv.status[n] = "pending"} :
        LET st    == Skipping(skips)
            ready == {n \in Nodes : MayReady(n, st)}
            final == [n \in Nodes |-> IF n \in ready THEN "ready" ELSE st[n]]
        IN /\ status' = [n \in Nodes |-> IF n \in skips \cup ready THEN final[n]
                                         ELSE status[n]]
           /\ deps_remaining' = [n \in Nodes |->
                IF LeftAt(n, st) # adv.left[n] THEN LeftAt(n, st) ELSE deps_remaining[n]]
           /\ satisfied' = SatisfiedBy(st)
  BY DEF AdvanceCommit
<1> DEFINE st == Skipping(skips)
           ready == {n \in Nodes : MayReady(n, st)}
           now(n) == NewlySatisfied(n, st)
<1>2. UNCHANGED <<live, pc, job, prune, sweep, signal>> /\ adv' = NoAdvance
      /\ satisfied' = satisfied \cup (satisfied' \ satisfied)
  BY <1>1 DEF AdvanceCommit, SatisfiedBy
<1>3. live' \subseteq live /\ satisfied \subseteq satisfied'
  BY <1>2
<1>4. \A n \in Nodes : LiveUnsatisfied(n) = {} => LiveUnsatisfied(n)' = {}
  BY <1>3, WaitsForLess DEF JoinInvariant
<1>5. ASSUME NEW n \in Nodes
      PROVE  /\ StillCounted(n) \in SUBSET Edges /\ now(n) \in SUBSET StillCounted(n)
             /\ Cardinality(StillCounted(n)) \in Nat /\ Cardinality(now(n)) \in Nat
             /\ adv.left[n] \in Nat /\ adv.left[n] >= Cardinality(StillCounted(n))
             /\ LiveUnsatisfied(n)' \subseteq StillCounted(n) \ now(n)
             /\ LeftAt(n, st) = Minus(adv.left[n], Cardinality(now(n)))
  <2>1. StillCounted(n) \in SUBSET Edges
    BY DEF StillCounted, Incoming
  <2>2. now(n) \in SUBSET StillCounted(n)
    BY DEF StillCounted, NewlySatisfied, LiveIn
  <2>3. Cardinality(StillCounted(n)) \in Nat /\ Cardinality(now(n)) \in Nat
    <3> HIDE DEF now
    <3>1. QED
      BY <2>1, <2>2, SmallerCount
  <2>4. live \subseteq adv.live /\ adv.left[n] \in Nat
          /\ adv.left[n] >= Cardinality(StillCounted(n))
    BY DEF AdvanceCommit, JoinInvariant, AdvanceSafe, TypeOK, AdvanceType
  <2>5. LiveUnsatisfied(n)' \subseteq StillCounted(n) \ now(n)
    BY <1>1, <1>2, <2>4 DEF LiveUnsatisfied, StillCounted, NewlySatisfied, LiveIn, Incoming
  <2>6. LeftAt(n, st) = Minus(adv.left[n], Cardinality(now(n)))
    BY DEF LeftAt
  <2>7. QED
    BY <2>1, <2>2, <2>3, <2>4, <2>5, <2>6
<1>6. CounterNeverLow'
  <2> SUFFICES ASSUME NEW n \in Nodes
               PROVE  deps_remaining'[n] >= Cardinality(LiveUnsatisfied(n)')
    BY DEF CounterNeverLow
  <2>1. deps_remaining'[n] = IF LeftAt(n, st) # adv.left[n] THEN LeftAt(n, st)
                             ELSE deps_remaining[n]
    BY <1>1
  <2>2. CASE LeftAt(n, st) = adv.left[n]
    <3>1. /\ Cardinality(LiveUnsatisfied(n)) \in Nat /\ Cardinality(LiveUnsatisfied(n)') \in Nat
          /\ Cardinality(LiveUnsatisfied(n)') <= Cardinality(LiveUnsatisfied(n))
      BY <1>3, WaitsForLess DEF JoinInvariant
    <3>2. deps_remaining[n] \in Nat /\ deps_remaining[n] >= Cardinality(LiveUnsatisfied(n))
      BY DEF JoinInvariant, TypeOK, CounterNeverLow
    <3>3. QED
      BY <2>1, <2>2, <3>1, <3>2
  <2>3. CASE LeftAt(n, st) # adv.left[n]
    <3> DEFINE rest == StillCounted(n) \ now(n)
    <3>1. Cardinality(rest) = Cardinality(StillCounted(n)) - Cardinality(now(n))
      <4> HIDE DEF now
      <4>1. QED
        BY <1>5, CountOfDifference
    <3>2. rest \in SUBSET Edges /\ LiveUnsatisfied(n)' \in SUBSET rest
      BY <1>5
    <3>3. /\ Cardinality(rest) \in Nat /\ Cardinality(LiveUnsatisfied(n)') \in Nat
          /\ Cardinality(LiveUnsatisfied(n)') <= Cardinality(rest)
      <4> HIDE DEF rest
      <4>1. QED
        BY <3>2, SmallerCount
    <3> HIDE DEF rest, now, st
    <3>4. LeftAt(n, st) >= Cardinality(rest)
      BY <1>5, <3>1, <3>3 DEF Minus
    <3>5. LeftAt(n, st) \in Nat
      BY <1>5, MinusIsNat
    <3>6. QED
      BY <2>1, <2>3, <3>3, <3>4, <3>5
  <2>4. QED
    BY <2>2, <2>3
<1>7. ASSUME NEW n \in ready
      PROVE  LiveUnsatisfied(n)' = {}
  <2>1. LeftAt(n, st) = 0 /\ n \in Nodes
    BY DEF MayReady
  <2>2. Cardinality(StillCounted(n)) <= Cardinality(now(n))
    <3> HIDE DEF now, st
    <3>1. QED
      BY <1>5, <2>1 DEF Minus
  <2>3. StillCounted(n) = now(n)
    <3> HIDE DEF now
    <3>1. QED
      BY <1>5, <2>1, <2>2, AllCounted
  <2>4. QED
    BY <1>5, <2>1, <2>3
<1>8. JoinClosed'
  <2> SUFFICES ASSUME NEW n \in Nodes, status'[n] \in Started
               PROVE  LiveUnsatisfied(n)' = {}
    BY DEF JoinClosed
  <2>1. CASE n \in ready
    BY <1>7, <2>1
  <2>2. CASE n \notin ready /\ n \in skips
    <3>1. status'[n] = "skipped"
      BY <1>1, <2>2 DEF Skipping
    <3>2. QED
      BY <3>1 DEF Started
  <2>3. CASE n \notin ready /\ n \notin skips
    <3>1. status'[n] = status[n]
      BY <1>1, <2>3
    <3>2. QED
      BY <1>4, <3>1 DEF JoinInvariant, JoinClosed
  <2>4. QED
    BY <2>1, <2>2, <2>3
<1>9. AdvanceSafe'
  BY <1>2 DEF AdvanceSafe, NoAdvance
<1>10. PruneSafe'
  <2> SUFFICES ASSUME NEW v \in Workers, pc[v] = "pruning", NEW t \in prune[v].hit
               PROVE  prune[v].left[t] >= Cardinality(LiveUnsatisfied(t)' \ prune[v].dead)
    BY <1>2 DEF PruneSafe
  <2>1. prune[v].left[t] \in Nat /\ t \in Nodes
    BY DEF JoinInvariant, TypeOK, PruneType
  <2>2. prune[v].left[t] >= Cardinality(LiveUnsatisfied(t) \ prune[v].dead)
    BY DEF JoinInvariant, PruneSafe
  <2> DEFINE before == LiveUnsatisfied(t) \ prune[v].dead
             after == LiveUnsatisfied(t)' \ prune[v].dead
  <2>3. before \in SUBSET Edges /\ after \in SUBSET before
    BY <1>3, <2>1, WaitsForLess DEF JoinInvariant
  <2>4. Cardinality(before) \in Nat /\ Cardinality(after) \in Nat
          /\ Cardinality(after) <= Cardinality(before)
    <3> HIDE DEF before, after
    <3>1. QED
      BY <2>3, SmallerCount
  <2>5. QED
    BY <2>1, <2>2, <2>4
<1>11. BusyClosed'
  BY <1>2, <1>4 DEF JoinInvariant, BusyClosed, TypeOK
<1>12. WakeClosed'
  BY <1>2, <1>4 DEF JoinInvariant, WakeClosed, TypeOK, SweepType, SignalType
<1>13. QED
  BY <1>6, <1>8, <1>9, <1>10, <1>11, <1>12 DEF JoinInvariant

LEMMA JoinAdvance ==
  ASSUME JoinInvariant, TypeOK', AdvanceStep
  PROVE  JoinInvariant'
<1>1. CASE AdvanceReturn
  BY <1>1, JoinFrame DEF AdvanceReturn, JoinInvariant
<1>2. CASE AdvanceLock
  <2>1. AdvanceSafe'
    BY <1>2 DEF AdvanceLock, AdvanceSafe, JoinInvariant, TypeOK, AdvanceType
  <2>2. QED
    BY <1>2, <2>1, JoinFrame DEF AdvanceLock, JoinInvariant
<1>3. CASE AdvanceReadSteps
  <2>1. AdvanceSafe'
    BY <1>3, JoinFrame
    DEF AdvanceReadSteps, AdvanceSafe, JoinInvariant, CounterNeverLow, TypeOK, AdvanceType
  <2>2. QED
    BY <1>3, <2>1, JoinFrame DEF AdvanceReadSteps, JoinInvariant
<1>4. CASE AdvanceReadDeps
  <2>1. adv'.pc = "deps" /\ adv'.live = live /\ adv'.left = adv.left
    BY <1>4 DEF AdvanceReadDeps, JoinInvariant, TypeOK, AdvanceType
  <2>2. \A n \in Nodes : StillCounted(n)' = LiveUnsatisfied(n)
    BY <1>4, <2>1 DEF StillCounted, LiveUnsatisfied, AdvanceReadDeps
  <2>3. AdvanceSafe'
    BY <1>4, <2>1, <2>2 DEF AdvanceReadDeps, AdvanceSafe, JoinInvariant
  <2>4. QED
    BY <1>4, <2>3, JoinFrame DEF AdvanceReadDeps, JoinInvariant
<1>5. QED
  BY <1>1, <1>2, <1>3, <1>4, JoinAdvanceCommit DEF AdvanceStep

LEMMA JoinWorker ==
  ASSUME JoinInvariant, TypeOK', NEW w \in Workers, WorkerStep(w)
  PROVE  JoinInvariant'
<1>1. ASSUME NEW n \in Nodes, ClaimReadyStep(w, n) PROVE JoinInvariant'
  <2>1. UNCHANGED <<live, satisfied, deps_remaining, adv, sweep, signal, prune>>
    BY <1>1 DEF ClaimReadyStep
  <2>2. LiveUnsatisfied(n) = {}
    BY <1>1 DEF ClaimReadyStep, JoinInvariant, JoinClosed, Started
  <2>3. JoinClosed'
    <3>1. \A m \in Nodes \ {n} : status'[m] = status[m]
      BY <1>1 DEF ClaimReadyStep, JoinInvariant, TypeOK
    <3>2. {n} \in SUBSET Nodes /\ \A m \in {n} : LiveUnsatisfied(m) = {}
      BY <2>2
    <3>3. QED
      BY <2>1, <3>1, <3>2, JoinCommit
  <2>4. /\ pc' = [pc EXCEPT ![w] = "claimed"] /\ job' = [job EXCEPT ![w] = n]
    BY <1>1 DEF ClaimReadyStep, Goto
  <2>5. BusyClosed'
    BY <2>1, <2>2, <2>4, JoinFrame DEF JoinInvariant, BusyClosed, TypeOK
  <2>6. PruneSafe'
    BY <2>1, <2>4, JoinFrame DEF JoinInvariant, PruneSafe, TypeOK
  <2>7. QED
    BY <2>1, <2>3, <2>5, <2>6, JoinFrame DEF JoinInvariant
<1>2. ASSUME NEW n \in Nodes, LoseClaim(w, n) PROVE JoinInvariant'
  BY <1>2, JoinFrame DEF LoseClaim, JoinInvariant
<1>3. CASE SetUpCancelled(w)
  <2>1. Commit(w, "cancelled") /\ pc[w] # "idle"
    BY <1>3 DEF SetUpCancelled, Commit
  <2>2. QED
    BY <1>3, <2>1, JoinOwnCommit, JoinFrame DEF SetUpCancelled, JoinInvariant
<1>4. CASE SetUp(w)
  <2>1. PICK l \in {"resuming", "handling"} : Goto(w, l)
    BY <1>4 DEF SetUp
  <2>2. QED
    BY <1>4, <2>1, JoinGoto, JoinFrame DEF SetUp, JoinInvariant
<1>5. CASE ResumeRun(w)
  <2>1. Goto(w, "handling") /\ pc[w] # "idle"
    BY <1>5 DEF ResumeRun
  <2>2. QED
    BY <1>5, <2>1, JoinGoto, JoinFrame DEF ResumeRun, JoinInvariant
<1>6. CASE CommitOutput(w)
  BY <1>6, JoinOwnCommit, JoinFrame DEF CommitOutput, JoinInvariant
<1>7. CASE CommitSuspend(w)
  <2>1. /\ UNCHANGED <<live, satisfied, deps_remaining, adv, job, prune>>
        /\ Commit(w, "waiting") /\ pc[w] # "idle"
    BY <1>7 DEF CommitSuspend
  <2>2. /\ sweep'.reclaim = sweep.reclaim /\ sweep'.wake = sweep.wake
        /\ signal'.wake = signal.wake
    BY <1>7 DEF CommitSuspend, JoinInvariant, TypeOK, SweepType, SignalType
  <2>3. WakeClosed'
    BY <2>1, <2>2, JoinFrame DEF JoinInvariant, WakeClosed
  <2>4. QED
    BY <2>1, <2>3, JoinOwnCommit, JoinFrame DEF JoinInvariant
<1>8. CASE CommitBranchRead(w)
  BY <1>8, JoinBranchRead, JoinFrame DEF CommitBranchRead, JoinInvariant
<1>9. CASE CommitBranchWrite(w)
  BY <1>9, JoinBranchWrite
<1>10. CASE FailStep(w)
  BY <1>10, JoinOwnCommit, JoinFrame DEF FailStep, JoinInvariant
<1>11. CASE RetryStep(w)
  BY <1>11, JoinOwnCommit, JoinFrame DEF RetryStep, JoinInvariant
<1>12. CASE AbandonStep(w)
  BY <1>12, JoinOwnCommit, JoinFrame DEF AbandonStep, JoinInvariant
<1>13. CASE Report(w)
  <2>1. UNCHANGED <<live, satisfied, deps_remaining, adv, sweep, signal, prune, status>>
    BY <1>13 DEF Report
  <2>2. pc' = [pc EXCEPT ![w] = "idle"] /\ job' = [job EXCEPT ![w] = NoNode]
    BY <1>13 DEF Report, Goto
  <2>3. BusyClosed' /\ PruneSafe'
    BY <2>1, <2>2, JoinFrame DEF JoinInvariant, BusyClosed, PruneSafe, TypeOK
  <2>4. QED
    BY <2>1, <2>3, JoinFrame DEF JoinInvariant
<1>14. QED
  BY <1>1, <1>2, <1>3, <1>4, <1>5, <1>6, <1>7, <1>8, <1>9, <1>10, <1>11, <1>12, <1>13
  DEF WorkerStep

\* The reconciler and signal_event wake only steps that were started already.
LEMMA JoinWake ==
  ASSUME JoinInvariant, TypeOK', SweepStep \/ SignalRead \/ SignalWrite
  PROVE  JoinInvariant'
<1>1. \A n \in Nodes : status[n] \in {"running", "waiting"} => LiveUnsatisfied(n) = {}
  BY DEF JoinInvariant, JoinClosed, Started
<1>2. CASE SweepRead
  <2>1. \A n \in sweep'.reclaim \cup sweep'.wake :
          n \in Nodes /\ status[n] \in {"running", "waiting"}
    BY <1>2 DEF SweepRead, JoinInvariant, TypeOK
  <2>2. WakeClosed'
    BY <1>1, <1>2, <2>1, JoinFrame DEF SweepRead, JoinInvariant, WakeClosed
  <2>3. QED
    BY <1>2, <2>2, JoinFrame DEF SweepRead, JoinInvariant
<1>3. CASE SweepWrite
  <2>1. \A n \in Nodes \ (sweep.reclaim \cup sweep.wake) : status'[n] = status[n]
    BY <1>3 DEF SweepWrite
  <2>2. /\ sweep.reclaim \cup sweep.wake \in SUBSET Nodes
        /\ \A n \in sweep.reclaim \cup sweep.wake : LiveUnsatisfied(n) = {}
    BY DEF JoinInvariant, TypeOK, SweepType, WakeClosed
  <2>3. UNCHANGED <<live, satisfied, deps_remaining, adv, pc, job, prune, signal>>
    BY <1>3 DEF SweepWrite
  <2>4. JoinClosed'
    BY <2>1, <2>2, <2>3, JoinCommit
  <2>5. WakeClosed'
    BY <1>3, <2>3, JoinFrame DEF SweepWrite, NoSweep, JoinInvariant, WakeClosed
  <2>6. QED
    BY <2>3, <2>4, <2>5, JoinFrame DEF JoinInvariant
<1>4. CASE SignalRead
  <2>1. \A n \in signal'.wake : n \in Nodes /\ status[n] \in {"running", "waiting"}
    BY <1>4 DEF SignalRead, JoinInvariant, TypeOK
  <2>2. WakeClosed'
    BY <1>1, <1>4, <2>1, JoinFrame DEF SignalRead, JoinInvariant, WakeClosed
  <2>3. QED
    BY <1>4, <2>2, JoinFrame DEF SignalRead, JoinInvariant
<1>5. CASE SignalWrite
  <2>1. \A n \in Nodes \ signal.wake : status'[n] = status[n]
    BY <1>5 DEF SignalWrite
  <2>2. signal.wake \in SUBSET Nodes /\ \A n \in signal.wake : LiveUnsatisfied(n) = {}
    BY DEF JoinInvariant, TypeOK, SignalType, WakeClosed
  <2>3. UNCHANGED <<live, satisfied, deps_remaining, adv, pc, job, prune, sweep>>
    BY <1>5 DEF SignalWrite
  <2>4. JoinClosed'
    BY <2>1, <2>2, <2>3, JoinCommit
  <2>5. WakeClosed'
    BY <1>5, <2>3, JoinFrame DEF SignalWrite, NoSignal, JoinInvariant, WakeClosed
  <2>6. QED
    BY <2>3, <2>4, <2>5, JoinFrame DEF JoinInvariant
<1>6. QED
  BY <1>2, <1>3, <1>4, <1>5 DEF SweepStep

LEMMA JoinDies ==
  ASSUME JoinInvariant, TypeOK', NEW w \in Workers, Dies(w)
  PROVE  JoinInvariant'
<1>1. UNCHANGED <<live, satisfied, deps_remaining, adv, sweep, signal, status>>
  BY DEF Dies
<1>2. BusyClosed' /\ PruneSafe'
  <2>1. \A v \in Workers : pc'[v] # "idle" => pc'[v] = pc[v] /\ job'[v] = job[v]
                                              /\ prune'[v] = prune[v]
    BY DEF Dies, Goto, JoinInvariant, TypeOK
  <2>2. QED
    BY <1>1, <2>1, JoinFrame DEF JoinInvariant, BusyClosed, PruneSafe
<1>3. QED
  BY <1>1, <1>2, JoinFrame DEF JoinInvariant

LEMMA JoinFault ==
  ASSUME JoinInvariant, TypeOK', FaultStep
  PROVE  JoinInvariant'
<1>1. CASE \E n \in Nodes : LeaseExpiresOnLiveWorker(n) \/ LoseExec(n) \/ LoseAdvance(n)
  BY <1>1, JoinFrame DEF LeaseExpiresOnLiveWorker, LoseExec, LoseAdvance, JoinInvariant
<1>2. CASE \E w \in Workers : Crash(w) \/ CrashReporting(w)
  BY <1>2, JoinDies DEF Crash, CrashReporting
<1>3. QED
  BY <1>1, <1>2 DEF FaultStep

LEMMA JoinStep == JoinInvariant /\ [Next]_vars => JoinInvariant'
<1> SUFFICES ASSUME JoinInvariant, [Next]_vars PROVE JoinInvariant'
  OBVIOUS
<1>1. TypeOK'
  BY TypeStep DEF JoinInvariant
<1>2. CASE StartRun
  <2>1. \A n \in Roots : n \in Nodes /\ LiveUnsatisfied(n) = {}
    BY DEF Roots, LiveUnsatisfied
  <2>2. \A n \in Nodes \ Roots : status'[n] = "pending"
    BY <1>2 DEF StartRun
  <2>3. UNCHANGED <<live, satisfied, deps_remaining, adv, pc, job, prune, sweep, signal>>
    BY <1>2 DEF StartRun
  <2>4. JoinClosed'
    BY <2>1, <2>2, <2>3, JoinFrame DEF JoinClosed, Started
  <2>5. QED
    BY <1>1, <2>3, <2>4, JoinFrame DEF JoinInvariant
<1>3. CASE \E w \in Workers : WorkerStep(w)
  BY <1>1, <1>3, JoinWorker
<1>4. CASE AdvanceStep
  BY <1>1, <1>4, JoinAdvance
<1>5. CASE SweepStep \/ SignalRead \/ SignalWrite
  BY <1>1, <1>5, JoinWake
<1>6. CASE FindStrandedReady
  BY <1>1, <1>6, JoinFrame DEF FindStrandedReady, JoinInvariant
<1>7. CASE CancelRead
  BY <1>1, <1>7, JoinFrame DEF CancelRead, JoinInvariant
<1>8. CASE CancelWrite
  <2>1. \A n \in Nodes : status'[n] \in Started => status'[n] = status[n]
    BY <1>8 DEF CancelWrite, Started
  <2>2. UNCHANGED <<live, satisfied, deps_remaining, adv, pc, job, prune, sweep, signal>>
    BY <1>8 DEF CancelWrite
  <2>3. JoinClosed'
    BY <2>1, <2>2, JoinFrame DEF JoinInvariant, JoinClosed
  <2>4. QED
    BY <1>1, <2>2, <2>3, JoinFrame DEF JoinInvariant
<1>9. CASE \E n \in Nodes : DeadlinePasses(n) \/ LeaseExpires(n)
  BY <1>1, <1>9, JoinFrame DEF DeadlinePasses, LeaseExpires, JoinInvariant
<1>10. CASE FaultStep
  BY <1>1, <1>10, JoinFault
<1>11. CASE Rest \/ UNCHANGED vars
  BY <1>1, <1>11, JoinFrame DEF Rest, vars, JoinInvariant
<1>12. QED
  BY <1>2, <1>3, <1>4, <1>5, <1>6, <1>7, <1>8, <1>9, <1>10, <1>11 DEF Next

\* The join counter is never below the number of edges a step still waits for, in spite
\* of the updates a Branch commit and advance_run can make each other lose.
THEOREM CounterIsSafe == Spec => []CounterNeverLow
<1>1. JoinInvariant => CounterNeverLow
  BY DEF JoinInvariant
<1>2. QED
  BY <1>1, JoinInit, JoinStep, PTL DEF Spec

\* No step is readied, run or woken before each live edge into it has been satisfied,
\* whatever crashes, duplicates, reclaims, signals and cancellations do.
THEOREM JoinIsClosed == Spec => []JoinClosed
<1>1. JoinInvariant => JoinClosed
  BY DEF JoinInvariant
<1>2. QED
  BY <1>1, JoinInit, JoinStep, PTL DEF Spec

=============================================================================
