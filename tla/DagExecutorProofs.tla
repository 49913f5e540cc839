-------------------------- MODULE DagExecutorProofs --------------------------
(***************************************************************************)
(* Whatever is cancelled, however attempts end and for every graph of      *)
(* tasks: proofs of the invariants of DagExecutor, and that its steps are  *)
(* steps of DagContract.                                                   *)
(***************************************************************************)
EXTENDS DagExecutor, FiniteSetTheorems, SequenceTheorems, WellFoundedInduction, TLAPS

\* The permit queue with its proofs: this executor's steps are its clients.
LP == INSTANCE DagLimiterProofs WITH Clients <- Tasks, Limits <- {MaxParallel}

-----------------------------------------------------------------------------
(* The inductive invariant. *)

\* Steps that hold a permit or wait for one.
Places == holders \union LP!Waiters

\* The permit queue keeps its books, within the limit.
QueueInOrder == LP!Inv /\ active <= MaxParallel

\* A step is in inFlight exactly while it has a place in the queue, and past
\* its acquire() it holds the permit.
StepPlaces ==
  \A t \in Tasks :
    /\ pc[t] # "idle" <=> t \in Places
    /\ pc[t] \in {"executing", "reporting", "cascading"} => t \in holders

\* What the executor's map shows of a step, by where the step stands.
StepStates ==
  \A t \in Tasks :
    /\ pc[t] = "executing" <=> state[t] = "running"
    /\ pc[t] = "acquiring" => state[t] \in {"ready", "cancelled", "failed"}
    /\ pc[t] = "reporting" => state[t] \in {"completed", "cancelled", "failed"}
    /\ pc[t] = "cascading" => state[t] = "cancelled"
    /\ t \in timers <=> state[t] = "waiting_retry"

\* A step that has begun keeps what it began on.
StepsResolved == \A t \in Tasks : pc[t] # "idle" => DependenciesResolved(t)

\* Where markNewlyReady() does not write, the row is ready already.
RowsWritten ==
  \A t \in Tasks :
    /\ state[t] = "pending" /\ record[t] = "ready" /\ attempts[t] = 0
         => db[t] \in {"ready", "cancelled"}
    /\ state[t] = "waiting_retry" => attempts[t] > 0

\* The table's count of attempts and the map's, and the retries that are left.
Counted ==
  \A t \in Tasks :
    /\ dbAttempts[t] <= MaxRetries + 1
    /\ state[t] # "running" => dbAttempts[t] <= attempts[t]
    /\ state[t] = "running" => dbAttempts[t] <= attempts[t] + 1
    /\ state[t] \in {"ready", "waiting_retry", "running"} => attempts[t] <= MaxRetries

\* A task without a retry left is pending only until settleQueuedTasks(), which
\* starts from the first task in every iteration, comes to it.
SettledInTime ==
  \A t \in Tasks :
    state[t] = "pending" /\ attempts[t] > MaxRetries =>
      \/ main \in {"called", "settling", "reporting", "cascading"} /\ cursor <= t
      \/ main = "rejected"

\* markNewlyReady() leaves nothing pending that could run.
NothingMissed == \A t \in Tasks : state[t] = "pending" => ~DependenciesResolved(t)

\* What the loop knows where it stands.
LoopKnows ==
  /\ main = "called" => cursor = 1
  /\ main \in {"reporting", "cascading"} =>
       cursor \in Tasks /\ state[cursor] \in {"failed", "cancelled"}
  /\ main \in {"starting", "sweeping", "sweepReporting"} => NothingMissed
  /\ main \in {"sweeping", "sweepReporting", "returned"} =>
       timers = {} /\ \A t \in Tasks : pc[t] = "idle" /\ state[t] # "ready"
  /\ main = "returned" => \A t \in Tasks : state[t] \in Terminal

\* Types and the order of tasks.
Shape == TypeOK /\ deps \in Acyclic

\* Where steps stand.
Control == QueueInOrder /\ StepPlaces /\ StepStates

IInv ==
  /\ Shape /\ Control
  /\ StartedAfterDependencies /\ StepsResolved
  /\ StoreMirrorsState /\ RowsWritten
  /\ Counted /\ SettledInTime
  /\ LoopKnows

-----------------------------------------------------------------------------
(* The permit queue. *)

\* The assumptions of the permit queue hold of the executor's steps.
LEMMA LimiterAssumptions ==
  LP!IsFiniteSet(Tasks) /\ {MaxParallel} \subseteq Int /\ {MaxParallel} # {}
<1>1. IsFiniteSet(Tasks)
  BY FS_Interval, NumTasksAssumption DEF Tasks
<1>2. LP!IsFiniteSet(Tasks)
  BY <1>1 DEF LP!IsFiniteSet, IsFiniteSet
<1> QED
  BY <1>2, LimitAssumption

\* Every step of one executor asks under the same limit.
LEMMA OneLimit == \A r \in LP!Request : r.limit <= MaxParallel
BY LimitAssumption DEF LP!Request, LP!NormalizedLimit

\* startReadyTask() gives the step a place and takes nobody's permit.
LEMMA StartQueue ==
  ASSUME QueueInOrder, NEW t \in Tasks, Limiter!Acquire(t, MaxParallel)
  PROVE  QueueInOrder' /\ Places' = Places \union {t} /\ holders \subseteq holders'
<1>1. LP!Acquire(t, MaxParallel)
  BY DEF Limiter!Acquire, LP!Acquire, Limiter!Drain, LP!Drain, Limiter!Grantable, LP!Grantable,
         Limiter!Max, LP!Max, Limiter!Waiters, LP!Waiters, Limiter!NormalizedLimit,
         LP!NormalizedLimit
<1>2. LP!Inv /\ active <= MaxParallel /\ MaxParallel \in {MaxParallel} /\ MaxParallel \in Nat
  BY LimitAssumption DEF QueueInOrder
<1>3. LP!Inv'
  BY <1>1, <1>2, LP!AcquireInv, LimiterAssumptions
<1>4. active' <= MaxParallel
  BY <1>1, <1>2, OneLimit, LP!StepBound, LimiterAssumptions
<1>5. /\ holders' \union LP!Waiters' = holders \union LP!Waiters \union {t}
      /\ holders \subseteq holders'
  BY <1>1, <1>2, LP!AcquirePlaces, LimiterAssumptions
<1> QED
  BY <1>3, <1>4, <1>5 DEF QueueInOrder, Places

\* The `finally` of startReadyTask() gives up the step's own place only.
LEMMA FinishQueue ==
  ASSUME QueueInOrder, NEW t \in Tasks, Limiter!Release(t)
  PROVE  /\ QueueInOrder' /\ Places' = Places \ {t}
         /\ \A u \in holders : u # t => u \in holders'
<1>1. LP!Release(t)
  BY DEF Limiter!Release, LP!Release, Limiter!Drain, LP!Drain, Limiter!Grantable, LP!Grantable,
         Limiter!Max, LP!Max
<1>2. LP!Inv /\ active <= MaxParallel /\ MaxParallel \in Nat
  BY LimitAssumption DEF QueueInOrder
<1>3. LP!Inv'
  BY <1>1, <1>2, LP!ReleaseInv, LimiterAssumptions
<1>4. active' <= MaxParallel
  BY <1>1, <1>2, OneLimit, LP!StepBound, LimiterAssumptions
<1>5. /\ holders' \union LP!Waiters' = (holders \union LP!Waiters) \ {t}
      /\ holders \ {t} \subseteq holders'
  BY <1>1, <1>2, LP!ReleasePlaces, LimiterAssumptions
<1> QED
  BY <1>3, <1>4, <1>5 DEF QueueInOrder, Places

\* Every other step of the executor leaves the queue as it is.
LEMMA SameQueue ==
  ASSUME UNCHANGED limiter
  PROVE  /\ QueueInOrder => QueueInOrder'
         /\ Places' = Places /\ holders' = holders
BY DEF limiter, QueueInOrder, Places, LP!Waiters, LP!Inv, LP!TypeOK, LP!SlotAccounting,
       LP!NoIdleHead, LP!OnePlacePerClient

\* The limiter's types are part of its invariant.
LEMMA QueueTypes ==
  (QueueInOrder => Limiter!TypeOK) /\ (QueueInOrder' => Limiter!TypeOK')
BY DEF QueueInOrder, LP!Inv, LP!TypeOK, Limiter!TypeOK, LP!Request, Limiter!Request,
       LP!NormalizedLimit, Limiter!NormalizedLimit

\* The permits out are those the limiter counts.
LEMMA QueueCounts == QueueInOrder => active = Cardinality(holders)
BY DEF QueueInOrder, LP!Inv, LP!SlotAccounting, LP!Cardinality, Cardinality

-----------------------------------------------------------------------------
(* Operators of the executor. *)

\* A set of tasks that is not empty has a first one.
LEMMA FirstTask ==
  ASSUME NEW S \in SUBSET Tasks, S # {}
  PROVE  Min(S) \in S /\ \A x \in S : Min(S) <= x
<1> DEFINE R == {ss \in Nat \X Nat : ss[1] < ss[2]}
<1>1. IsWellFoundedOn(R, Nat)
  BY NatLessThanWellFounded DEF OpToRel
<1>2. S \subseteq Nat
  BY NumTasksAssumption DEF Tasks
<1>3. \E m \in S : \A y \in S : ~ (<<y, m>> \in R)
  <2> HIDE DEF R
  <2> QED
    BY <1>1, <1>2, WFMin
<1>4. PICK m \in S : \A y \in S : ~ (<<y, m>> \in R)
  BY <1>3
<1>5. \A y \in S : m <= y
  <2> SUFFICES ASSUME NEW y \in S PROVE m <= y
    OBVIOUS
  <2>1. y \in Nat /\ m \in Nat
    BY <1>2
  <2>2. ~ (y < m)
    BY <1>4, <2>1
  <2> QED
    BY <2>1, <2>2
<1> QED
  BY <1>5 DEF Min

\* A walk over dependents stays among the tasks it may visit.
LEMMA ReachWithin == \A t, S : Reach(t, S) \subseteq S
BY DEF Reach

\* The function a walk over dependents computes.
Walks(f, t, S) == f = [d \in Tasks |-> d \in S /\ \E p \in deps[d] : p = t \/ f[p]]

\* Where the graph has no cycle there is one.
LEMMA WalkExists ==
  ASSUME deps \in Acyclic, NEW t, NEW S
  PROVE  \E f : Walks(f, t, S)
<1> DEFINE Upto(f, n) == f = [d \in 1 .. n |-> d \in S /\ \E p \in deps[d] : p = t \/ f[p]]
           Bad == {n \in 0 .. NumTasks : ~ \E f : Upto(f, n)}
           R == {ss \in Nat \X Nat : ss[1] < ss[2]}
<1>0. NumTasks \in Nat
  BY NumTasksAssumption
<1>1. Bad = {}
  <2> SUFFICES ASSUME Bad # {} PROVE FALSE
    OBVIOUS
  <2>1. PICK m \in Bad : \A y \in Bad : ~ (<<y, m>> \in R)
    <3>1. IsWellFoundedOn(R, Nat)
      BY NatLessThanWellFounded DEF OpToRel
    <3>2. Bad \subseteq Nat
      BY <1>0
    <3> HIDE DEF Bad, R
    <3> QED
      BY <3>1, <3>2, WFMin
  <2>2. m \in 0 .. NumTasks /\ m \in Nat
    BY <1>0
  <2>3. m # 0
    <3>1. Upto([d \in 1 .. 0 |-> FALSE], 0)
      <4>1. 1 .. 0 = {}
        OBVIOUS
      <4> QED
        BY <4>1, Zenon
    <3> QED
      BY <3>1
  <2>4. m - 1 \in 0 .. NumTasks /\ m - 1 < m /\ m - 1 \in Nat
    BY <1>0, <2>2, <2>3
  <2>5. m - 1 \notin Bad
    BY <2>1, <2>2, <2>4
  <2>6. PICK f : Upto(f, m - 1)
    BY <2>4, <2>5
  <2> DEFINE g == [d \in 1 .. m |-> d \in S /\ \E p \in deps[d] : p = t \/ f[p]]
  <2>7. \A d \in 1 .. m - 1 : g[d] = f[d]
    <3>1. 1 .. m - 1 \subseteq 1 .. m
      BY <2>2
    <3> HIDE DEF g
    <3>2. ASSUME NEW d \in 1 .. m - 1 PROVE g[d] = (d \in S /\ \E p \in deps[d] : p = t \/ f[p])
      BY <3>1, Zenon DEF g
    <3>3. ASSUME NEW d \in 1 .. m - 1 PROVE f[d] = (d \in S /\ \E p \in deps[d] : p = t \/ f[p])
      BY <2>6, Zenon
    <3> QED
      BY <3>2, <3>3, Zenon
  <2>8. \A d \in 1 .. m : deps[d] \subseteq 1 .. m - 1
    <3> SUFFICES ASSUME NEW d \in 1 .. m, NEW p \in deps[d] PROVE p \in 1 .. m - 1
      OBVIOUS
    <3>1. d \in Tasks /\ p \in 1 .. d - 1
      BY <1>0, <2>2 DEF Tasks, Acyclic
    <3> QED
      BY <2>2, <3>1
  <2>9. Upto(g, m)
    <3>1. \A d \in 1 .. m : \A p \in deps[d] : g[p] = f[p]
      BY <2>7, <2>8, Zenon
    <3> DEFINE h == [d \in 1 .. m |-> d \in S /\ \E p \in deps[d] : p = t \/ g[p]]
    <3>2. ASSUME NEW d \in 1 .. m
          PROVE  (d \in S /\ \E p \in deps[d] : p = t \/ g[p]) = (d \in S /\ \E p \in deps[d] : p = t \/ f[p])
      <4> HIDE DEF g
      <4>1. (\E p \in deps[d] : p = t \/ g[p]) <=> (\E p \in deps[d] : p = t \/ f[p])
        BY <3>1, Zenon
      <4> QED
        BY <4>1, Zenon
    <3>3. g = h
      BY <3>2, Zenon
    <3> QED
      BY <3>3, Zenon
  <2> QED
    BY <2>1, <2>9
<1>2. \E f : Upto(f, NumTasks)
  <2>1. NumTasks \in 0 .. NumTasks
    BY <1>0
  <2> HIDE DEF Upto
  <2> QED
    BY <1>1, <2>1, Zenon
<1> QED
  BY <1>2 DEF Tasks, Walks

\* What a walk from t reaches, it reaches over a dependency: t itself, or a task
\* it has reached before.
LEMMA ReachBacks ==
  ASSUME deps \in Acyclic, NEW t, NEW S \in SUBSET Tasks, NEW d \in Reach(t, S)
  PROVE  \E p \in deps[d] : p = t \/ p \in Reach(t, S)
<1> DEFINE f == CHOOSE f : f = [e \in Tasks |-> e \in S /\ \E p \in deps[e] : p = t \/ f[p]]
<1>1. f = [e \in Tasks |-> e \in S /\ \E p \in deps[e] : p = t \/ f[p]]
  <2>1. \E h : Walks(h, t, S)
    BY WalkExists
  <2> QED
    BY <2>1, Zenon DEF Walks
<1>2. Reach(t, S) = {e \in S : f[e]}
  BY Zenon DEF Reach
<1> HIDE DEF f
<1>3. d \in S /\ d \in Tasks /\ f[d]
  BY <1>2, Zenon
<1>4. f[d] = (d \in S /\ \E p \in deps[d] : p = t \/ f[p])
  BY <1>1, <1>3, Zenon
<1>5. PICK p \in deps[d] : p = t \/ f[p]
  BY <1>3, <1>4, Zenon
<1>6. p \in Tasks
  BY <1>3, <1>5 DEF Acyclic
<1>7. f[p] => p \in S
  BY <1>1, <1>6, Zenon
<1> QED
  BY <1>2, <1>5, <1>7, Zenon

\* What failDependents() writes: tasks that were pending, and no others.
LEMMA FailWrites ==
  ASSUME TypeOK, NEW t, FailDependents(t)
  PROVE  \E B \in SUBSET Tasks :
           /\ \A d \in B : state[d] = "pending"
           /\ state' = [d \in Tasks |-> IF d \in B THEN "blocked" ELSE state[d]]
           /\ db' = [d \in Tasks |-> IF d \in B THEN "blocked" ELSE db[d]]
<1> DEFINE S == {d \in Tasks : state[d] = "pending" /\ policy[d] # "continue"}
           B == Reach(t, S)
<1>1. B \subseteq S
  BY ReachWithin
<1>2. DOMAIN state = Tasks /\ DOMAIN db = Tasks
  BY DEF TypeOK
<1>3. state' = Set(state, B, "blocked") /\ db' = Set(db, B, "blocked")
  BY DEF FailDependents
<1> HIDE DEF B
<1> QED
  BY <1>1, <1>2, <1>3 DEF Set

-----------------------------------------------------------------------------
(* Types. *)

\* Every step keeps the types, and the order of the tasks.
LEMMA TypeInductive ==
  ASSUME Shape, QueueInOrder', [Next]_vars
  PROVE  Shape'
<1> USE DEF Steps, Phases, Terminal, ExecutionStatus, TaskStatus, Flows, Loop, Yielded,
            rows, loop, cascade, bounds, CascadeOver
<1>a. Limiter!TypeOK'
  BY QueueTypes
<1>b. TypeOK /\ deps \in Acyclic
  BY DEF Shape
<1>c. Tasks \subseteq Nat
  BY NumTasksAssumption DEF Tasks
<1>d. \A S \in SUBSET Tasks : S # {} => Min(S) \in Tasks
  BY FirstTask
<1>e. \A t : FailDependents(t) => state' \in [Tasks -> ExecutionStatus] /\ db' \in [Tasks -> TaskStatus]
  BY <1>b, FailWrites DEF TypeOK
<1>f. \A t \in Tasks : FinishStep(t) => pc' \in [Tasks -> Steps] /\ woken' \in BOOLEAN
  BY <1>b DEF TypeOK, FinishStep
<1>g. \A f \in Flows, F \in SUBSET Tasks : CancelNext(f, F) =>
         /\ state' \in [Tasks -> ExecutionStatus] /\ db' \in [Tasks -> TaskStatus]
         /\ frontier' \in [Flows -> SUBSET Tasks] /\ reportee' \in [Flows -> Flows]
  BY <1>b DEF TypeOK, CancelNext, PendingIn
<1>h. \A f \in Flows : CascadeOver(f) =>
         frontier' \in [Flows -> SUBSET Tasks] /\ reportee' \in [Flows -> Flows]
  BY <1>b DEF TypeOK
<1>i. Shape' <=> TypeOK' /\ (deps \in Acyclic)'
  BY DEF Shape
<1> SUFFICES TypeOK' /\ deps' = deps
  BY <1>b, <1>i
<1>1. CASE LoopActs
  <2>1. CASE Call
    BY <1>a, <1>b, <2>1 DEF TypeOK, Call
  <2>2. CASE SettleQueuedTask
    <3>1. cursor \in Nat \ {0}
      BY <1>b DEF TypeOK
    <3>2. DueFrom(cursor) \subseteq Tasks
      BY <3>1, NumTasksAssumption DEF DueFrom, Tasks
    <3>3. Min(DueFrom(cursor)) \in Tasks
      BY <1>d, <2>2, <3>2 DEF SettleQueuedTask
    <3>4. Min(DueFrom(cursor)) \in Nat \ {0}
      BY <3>3 DEF Tasks
    <3> QED
      BY <1>a, <1>b, <2>2, <3>3, <3>4 DEF TypeOK, SettleQueuedTask
  <2>3. CASE SettledReported
    <3>1. CASE FailDependents(cursor) /\ UNCHANGED cascade /\ NextIteration("settling")
               /\ requested' = requested \ {cursor}
      BY <1>a, <1>b, <1>e, <2>3, <3>1 DEF TypeOK, SettledReported, NextIteration
    <3>2. CASE LoopCascade(Dependents(cursor), {})
      <4>1. CASE CancelNext(Loop, Dependents(cursor)) /\ main' = "cascading" /\ UNCHANGED cursor
                 /\ requested' = requested \ {}
        BY <1>a, <1>b, <1>g, <2>3, <4>1 DEF TypeOK, SettledReported, Dependents
      <4>2. CASE CascadeOver(Loop) /\ NextIteration("settling") /\ UNCHANGED <<state, db>>
                 /\ requested' = requested \ ({} \union {cursor})
        BY <1>a, <1>b, <1>h, <2>3, <4>2 DEF TypeOK, SettledReported, NextIteration
      <4> QED
        BY <3>2, <4>1, <4>2 DEF LoopCascade
    <3> QED
      BY <2>3, <3>1, <3>2 DEF SettledReported
  <2>4. CASE SettledCascade
    BY <1>a, <1>b, <1>g, <1>h, <2>4 DEF TypeOK, SettledCascade, LoopCascade, NextIteration, Dependents
  <2>5. CASE MarkNewlyReady
    BY <1>a, <1>b, <2>5 DEF TypeOK, MarkNewlyReady, Set
  <2>6. CASE \E t \in Tasks : StartReadyTask(t)
    BY <1>a, <1>b, <2>6 DEF TypeOK, StartReadyTask
  <2>7. CASE AwaitWork
    <3>1. main' \in Phases /\ cursor' \in Nat \ {0}
      BY <1>b, <2>7 DEF TypeOK, AwaitWork
    <3> QED
      BY <1>a, <1>b, <2>7, <3>1 DEF TypeOK, AwaitWork
  <2>8. CASE RaceSettles
    BY <1>a, <1>b, <2>8 DEF TypeOK, RaceSettles
  <2>9. CASE SweepLeftover
    <3>1. Min(Leftover) \in Tasks
      BY <1>d, <2>9 DEF SweepLeftover, Leftover
    <3>2. Min(Leftover) \in Nat \ {0}
      BY <3>1 DEF Tasks
    <3> QED
      BY <1>a, <1>b, <2>9, <3>1, <3>2 DEF TypeOK, SweepLeftover
  <2>10. CASE SweptReported
    BY <1>a, <1>b, <2>10 DEF TypeOK, SweptReported
  <2>11. CASE Return
    BY <1>a, <1>b, <2>11 DEF TypeOK, Return
  <2>12. CASE LoopRejected
    BY <1>a, <1>b, <1>h, <2>12 DEF TypeOK, LoopRejected
  <2> QED
    BY <1>1, <2>1, <2>2, <2>3, <2>4, <2>5, <2>6, <2>7, <2>8, <2>9, <2>10, <2>11, <2>12 DEF LoopActs
<1>2. ASSUME NEW t \in Tasks, StepActs(t)
      PROVE  TypeOK' /\ deps' = deps
  <2>1. CASE AbandonStart(t)
    BY <1>a, <1>b, <1>f, <2>1 DEF TypeOK, AbandonStart
  <2>2. CASE ExecuteAttempt(t)
    BY <1>a, <1>b, <2>2 DEF TypeOK, ExecuteAttempt
  <2>3. CASE CancelledBeforeStart(t)
    BY <1>a, <1>b, <2>3 DEF TypeOK, CancelledBeforeStart, Conclude
  <2>4. CASE OutcomeSuccess(t) \/ OutcomeCancelled(t) \/ OutcomeFailed(t)
    BY <1>a, <1>b, <2>4 DEF TypeOK, OutcomeSuccess, OutcomeCancelled, OutcomeFailed, Conclude
  <2>5. CASE OutcomeRetry(t)
    BY <1>a, <1>b, <1>f, <2>5 DEF TypeOK, OutcomeRetry
  <2>6. CASE OutcomeReported(t)
    <3>1. CASE FailDependents(t) /\ FinishStep(t) /\ UNCHANGED cascade
               /\ requested' = requested \ {t}
      BY <1>a, <1>b, <1>e, <1>f, <2>6, <3>1 DEF TypeOK, OutcomeReported
    <3>2. CASE StepCascade(t, Dependents(t), {})
      BY <1>a, <1>b, <1>f, <1>g, <1>h, <2>6, <3>2 DEF TypeOK, OutcomeReported, StepCascade, Dependents
    <3>3. CASE FinishStep(t) /\ UNCHANGED <<state, db, cascade>> /\ requested' = requested \ {t}
      BY <1>a, <1>b, <1>f, <2>6, <3>3 DEF TypeOK, OutcomeReported
    <3> QED
      BY <2>6, <3>1, <3>2, <3>3 DEF OutcomeReported
  <2>7. CASE ContinueCascade(t)
    BY <1>a, <1>b, <1>f, <1>g, <1>h, <2>7 DEF TypeOK, ContinueCascade, StepCascade, Dependents
  <2>8. CASE ReportRejected(t)
    BY <1>a, <1>b, <1>f, <1>h, <2>8 DEF TypeOK, ReportRejected
  <2> QED
    BY <1>2, <2>1, <2>2, <2>3, <2>4, <2>5, <2>6, <2>7, <2>8 DEF StepActs
<1>3. ASSUME NEW t \in Tasks, RetryDelayOver(t)
      PROVE  TypeOK' /\ deps' = deps
  BY <1>a, <1>b, <1>3 DEF TypeOK, RetryDelayOver
<1>4. ASSUME NEW t \in Tasks, RequestTaskCancellation(t)
      PROVE  TypeOK' /\ deps' = deps
  BY <1>a, <1>b, <1>4 DEF TypeOK, RequestTaskCancellation, Set
<1>5. CASE UNCHANGED vars
  BY <1>a, <1>b, <1>5 DEF TypeOK, vars
<1> QED
  BY <1>1, <1>2, <1>3, <1>4, <1>5 DEF Next, Finished

-----------------------------------------------------------------------------
(* Where steps stand. *)

\* What every kind of step does to the queue and to the places in it.
LEMMA PlacesInductive ==
  ASSUME Shape, QueueInOrder, StepPlaces, [Next]_vars
  PROVE  QueueInOrder' /\ StepPlaces'
<1> USE DEF StepPlaces
<1>a. pc \in [Tasks -> Steps]
  BY DEF Shape, TypeOK
<1>1. CASE UNCHANGED <<pc, limiter>>
  BY <1>1, SameQueue
<1>2. ASSUME NEW t \in Tasks, FinishStep(t)
      PROVE  QueueInOrder' /\ StepPlaces'
  <2>1. Limiter!Release(t) /\ pc' = [pc EXCEPT ![t] = "idle"]
    BY <1>2 DEF FinishStep
  <2> QED
    BY <1>a, <2>1, FinishQueue
<1>3. ASSUME NEW t \in Tasks, pc[t] \in {"acquiring", "executing", "reporting", "cascading"},
             t \in holders, UNCHANGED limiter,
             NEW l \in {"executing", "reporting", "cascading"}, pc' = [pc EXCEPT ![t] = l]
      PROVE  QueueInOrder' /\ StepPlaces'
  BY <1>a, <1>3, SameQueue
<1>4. ASSUME NEW t \in Tasks, StepActs(t)
      PROVE  QueueInOrder' /\ StepPlaces'
  <2>1. CASE AbandonStart(t) \/ OutcomeRetry(t) \/ ReportRejected(t)
    BY <1>2, <2>1 DEF AbandonStart, OutcomeRetry, ReportRejected
  <2>2. CASE ExecuteAttempt(t) \/ CancelledBeforeStart(t)
    BY <1>3, <2>2 DEF ExecuteAttempt, CancelledBeforeStart, Conclude
  <2>3. CASE OutcomeSuccess(t) \/ OutcomeCancelled(t) \/ OutcomeFailed(t)
    BY <1>3, <2>3 DEF OutcomeSuccess, OutcomeCancelled, OutcomeFailed, Conclude
  <2>4. CASE OutcomeReported(t)
    BY <1>2, <1>3, <2>4 DEF OutcomeReported, StepCascade
  <2>5. CASE ContinueCascade(t)
    BY <1>2, <1>3, <2>5 DEF ContinueCascade, StepCascade
  <2> QED
    BY <1>4, <2>1, <2>2, <2>3, <2>4, <2>5 DEF StepActs
<1>5. ASSUME NEW t \in Tasks, StartReadyTask(t)
      PROVE  QueueInOrder' /\ StepPlaces'
  BY <1>a, <1>5, StartQueue DEF StartReadyTask
<1>6. CASE LoopActs /\ ~ \E t \in Tasks : StartReadyTask(t)
  BY <1>1, <1>6 DEF LoopActs, Call, SettleQueuedTask, SettledReported, SettledCascade,
     MarkNewlyReady, AwaitWork, RaceSettles, SweepLeftover, SweptReported, Return, LoopRejected
<1>7. ASSUME NEW t \in Tasks, RetryDelayOver(t) \/ RequestTaskCancellation(t)
      PROVE  QueueInOrder' /\ StepPlaces'
  BY <1>1, <1>7 DEF RetryDelayOver, RequestTaskCancellation
<1>8. CASE UNCHANGED vars
  BY <1>1, <1>8 DEF vars
<1> QED
  BY <1>4, <1>5, <1>6, <1>7, <1>8 DEF Next, LoopActs, Finished

\* What every kind of step does to the executor's map.
LEMMA StatesInductive ==
  ASSUME Shape, StepStates, LoopKnows, [Next]_vars
  PROVE  StepStates'
<1> USE DEF StepStates, Loop
<1>a. /\ pc \in [Tasks -> Steps] /\ state \in [Tasks -> ExecutionStatus]
      /\ timers \in SUBSET Tasks
  BY DEF Shape, TypeOK
<1>b. \A t : FailDependents(t) => \E B \in SUBSET Tasks :
           /\ \A d \in B : state[d] = "pending"
           /\ state' = [d \in Tasks |-> IF d \in B THEN "blocked" ELSE state[d]]
  BY FailWrites DEF Shape
<1>c. \A f, F : CancelNext(f, F) => \E d : state[d] = "pending" /\ state' = [state EXCEPT ![d] = "cancelled"]
  BY DEF CancelNext, PendingIn
<1>1. CASE LoopActs
  <2>1. CASE Call \/ AwaitWork \/ RaceSettles \/ SweptReported \/ Return \/ LoopRejected
    BY <2>1 DEF Call, AwaitWork, RaceSettles, SweptReported, Return, LoopRejected
  <2>2. CASE SettleQueuedTask
    <3>1. PICK t \in Tasks, s \in {"cancelled", "failed"} :
            state[t] \in {"pending", "ready"} /\ state' = [state EXCEPT ![t] = s]
      <4>1. cursor \in Nat \ {0}
        BY DEF Shape, TypeOK
      <4>2. DueFrom(cursor) \subseteq Tasks
        BY <4>1, NumTasksAssumption DEF DueFrom, Tasks
      <4>3. Min(DueFrom(cursor)) \in DueFrom(cursor)
        BY <2>2, <4>2, FirstTask DEF SettleQueuedTask
      <4> QED
        BY <2>2, <4>2, <4>3 DEF SettleQueuedTask, DueFrom
    <3> QED
      BY <1>a, <2>2, <3>1 DEF SettleQueuedTask
  <2>3. CASE SettledReported
    BY <1>a, <1>b, <1>c, <2>3 DEF SettledReported, LoopCascade
  <2>4. CASE SettledCascade
    BY <1>a, <1>c, <2>4 DEF SettledCascade, LoopCascade
  <2>5. CASE MarkNewlyReady
    BY <1>a, <2>5 DEF MarkNewlyReady, Set
  <2>6. CASE \E t \in Tasks : StartReadyTask(t)
    BY <1>a, <2>6 DEF StartReadyTask, Startable
  <2>7. CASE SweepLeftover
    BY <1>a, <2>7 DEF SweepLeftover, LoopKnows
  <2> QED
    BY <1>1, <2>1, <2>2, <2>3, <2>4, <2>5, <2>6, <2>7 DEF LoopActs
<1>2. ASSUME NEW t \in Tasks, StepActs(t)
      PROVE  StepStates'
  <2> USE DEF FinishStep
  <2>1. CASE AbandonStart(t)
    BY <1>a, <2>1 DEF AbandonStart
  <2>2. CASE ExecuteAttempt(t)
    BY <1>a, <2>2 DEF ExecuteAttempt
  <2>3. CASE CancelledBeforeStart(t)
    BY <1>a, <2>3 DEF CancelledBeforeStart, Conclude
  <2>4. CASE OutcomeSuccess(t) \/ OutcomeCancelled(t) \/ OutcomeFailed(t)
    BY <1>a, <2>4 DEF OutcomeSuccess, OutcomeCancelled, OutcomeFailed, Conclude
  <2>5. CASE OutcomeRetry(t)
    BY <1>a, <2>5 DEF OutcomeRetry
  <2>6. CASE OutcomeReported(t)
    BY <1>a, <1>b, <1>c, <2>6 DEF OutcomeReported, StepCascade
  <2>7. CASE ContinueCascade(t)
    BY <1>a, <1>c, <2>7 DEF ContinueCascade, StepCascade
  <2>8. CASE ReportRejected(t)
    BY <1>a, <2>8 DEF ReportRejected
  <2> QED
    BY <1>2, <2>1, <2>2, <2>3, <2>4, <2>5, <2>6, <2>7, <2>8 DEF StepActs
<1>3. ASSUME NEW t \in Tasks, RetryDelayOver(t)
      PROVE  StepStates'
  BY <1>a, <1>3 DEF RetryDelayOver
<1>4. ASSUME NEW t \in Tasks, RequestTaskCancellation(t)
      PROVE  StepStates'
  BY <1>4 DEF RequestTaskCancellation
<1>5. CASE UNCHANGED vars
  BY <1>5 DEF vars
<1> QED
  BY <1>1, <1>2, <1>3, <1>4, <1>5 DEF Next, Finished

-----------------------------------------------------------------------------
(* How the executor's map changes, and what that leaves true. *)

\* The life of a task: what one step may make of its state.
Moves(t) ==
  \/ state'[t] = state[t]
  \/ state[t] = "pending" /\ state'[t] = "ready" /\ DependenciesResolved(t)
  \/ state[t] = "pending" /\ state'[t] \in {"blocked", "cancelled", "failed"}
  \/ state[t] = "ready" /\ state'[t] \in {"running", "cancelled", "failed"}
  \/ state[t] = "running" /\ state'[t] \in {"waiting_retry", "completed", "cancelled", "failed"}
  \/ state[t] = "waiting_retry" /\ state'[t] = "pending"

\* Where a step starts out for a permit, it is ready.
Starts(t) == pc[t] # "idle" \/ pc'[t] = "idle" \/ state[t] = "ready"

\* Every step moves tasks along their life, and leaves the rows as they were read.
LEMMA StateMoves ==
  ASSUME Shape, StepStates, LoopKnows, [Next]_vars
  PROVE  /\ \A t \in Tasks : Moves(t) /\ Starts(t)
         /\ deps' = deps /\ policy' = policy /\ record' = record
<1> USE DEF StepStates, Loop, Moves, Starts, rows
<1>a. /\ pc \in [Tasks -> Steps] /\ state \in [Tasks -> ExecutionStatus]
      /\ timers \in SUBSET Tasks
  BY DEF Shape, TypeOK
<1>b. \A t : FailDependents(t) => \E B \in SUBSET Tasks :
           /\ \A d \in B : state[d] = "pending"
           /\ state' = [d \in Tasks |-> IF d \in B THEN "blocked" ELSE state[d]]
  BY FailWrites DEF Shape
<1>c. \A f, F : CancelNext(f, F) => \E d : state[d] = "pending" /\ state' = [state EXCEPT ![d] = "cancelled"]
  BY DEF CancelNext, PendingIn
<1>1. CASE LoopActs
  <2>1. CASE Call \/ AwaitWork \/ RaceSettles \/ SweptReported \/ Return \/ LoopRejected
    BY <2>1 DEF Call, AwaitWork, RaceSettles, SweptReported, Return, LoopRejected
  <2>2. CASE SettleQueuedTask
    <3>1. cursor \in Nat \ {0}
      BY DEF Shape, TypeOK
    <3>2. DueFrom(cursor) \subseteq Tasks
      BY <3>1, NumTasksAssumption DEF DueFrom, Tasks
    <3>3. Min(DueFrom(cursor)) \in DueFrom(cursor)
      BY <2>2, <3>2, FirstTask DEF SettleQueuedTask
    <3>4. PICK t \in Tasks, s \in {"cancelled", "failed"} :
            state[t] \in {"pending", "ready"} /\ state' = [state EXCEPT ![t] = s]
      BY <2>2, <3>2, <3>3 DEF SettleQueuedTask, DueFrom
    <3> QED
      BY <1>a, <2>2, <3>4 DEF SettleQueuedTask
  <2>3. CASE SettledReported
    BY <1>a, <1>b, <1>c, <2>3 DEF SettledReported, LoopCascade
  <2>4. CASE SettledCascade
    BY <1>a, <1>c, <2>4 DEF SettledCascade, LoopCascade
  <2>5. CASE MarkNewlyReady
    BY <1>a, <2>5 DEF MarkNewlyReady, Set
  <2>6. CASE \E t \in Tasks : StartReadyTask(t)
    BY <1>a, <2>6 DEF StartReadyTask, Startable
  <2>7. CASE SweepLeftover
    <3>1. Min(Leftover) \in Tasks /\ state[Min(Leftover)] \in {"pending", "ready", "waiting_retry", "running"}
      BY <2>7, FirstTask DEF SweepLeftover, Leftover
    <3>2. state[Min(Leftover)] = "pending"
      BY <2>7, <3>1 DEF SweepLeftover, LoopKnows
    <3> QED
      BY <1>a, <2>7, <3>2 DEF SweepLeftover
  <2> QED
    BY <1>1, <2>1, <2>2, <2>3, <2>4, <2>5, <2>6, <2>7 DEF LoopActs
<1>2. ASSUME NEW t \in Tasks, StepActs(t)
      PROVE  /\ \A u \in Tasks : Moves(u) /\ Starts(u)
             /\ deps' = deps /\ policy' = policy /\ record' = record
  <2> USE DEF FinishStep
  <2>1. CASE AbandonStart(t)
    BY <1>a, <2>1 DEF AbandonStart
  <2>2. CASE ExecuteAttempt(t)
    BY <1>a, <2>2 DEF ExecuteAttempt
  <2>3. CASE CancelledBeforeStart(t)
    BY <1>a, <2>3 DEF CancelledBeforeStart, Conclude
  <2>4. CASE OutcomeSuccess(t) \/ OutcomeCancelled(t) \/ OutcomeFailed(t)
    BY <1>a, <2>4 DEF OutcomeSuccess, OutcomeCancelled, OutcomeFailed, Conclude
  <2>5. CASE OutcomeRetry(t)
    BY <1>a, <2>5 DEF OutcomeRetry
  <2>6. CASE OutcomeReported(t)
    BY <1>a, <1>b, <1>c, <2>6 DEF OutcomeReported, StepCascade
  <2>7. CASE ContinueCascade(t)
    BY <1>a, <1>c, <2>7 DEF ContinueCascade, StepCascade
  <2>8. CASE ReportRejected(t)
    BY <1>a, <2>8 DEF ReportRejected
  <2> QED
    BY <1>2, <2>1, <2>2, <2>3, <2>4, <2>5, <2>6, <2>7, <2>8 DEF StepActs
<1>3. ASSUME NEW t \in Tasks, RetryDelayOver(t) \/ RequestTaskCancellation(t)
      PROVE  /\ \A u \in Tasks : Moves(u) /\ Starts(u)
             /\ deps' = deps /\ policy' = policy /\ record' = record
  BY <1>a, <1>3 DEF RetryDelayOver, RequestTaskCancellation
<1>5. CASE UNCHANGED vars
  BY <1>5 DEF vars
<1> QED
  BY <1>1, <1>2, <1>3, <1>5 DEF Next, Finished

\* What has ended stays as it ended, so dependencies that are resolved stay so.
LEMMA ResolvedStays ==
  ASSUME Shape, \A t \in Tasks : Moves(t), deps' = deps, policy' = policy,
         NEW t \in Tasks, DependenciesResolved(t)
  PROVE  DependenciesResolved(t)'
<1>1. deps[t] \subseteq Tasks
  BY DEF Shape, Acyclic
<1>2. \A p \in deps[t] : state'[p] = state[p]
  BY <1>1 DEF DependenciesResolved, Moves
<1> QED
  BY <1>2 DEF DependenciesResolved

\* Tasks start on resolved dependencies and keep them.
LEMMA DependenciesInductive ==
  ASSUME Shape, StepStates, LoopKnows, StartedAfterDependencies, StepsResolved, [Next]_vars
  PROVE  StartedAfterDependencies' /\ StepsResolved'
<1>1. /\ \A t \in Tasks : Moves(t) /\ Starts(t)
      /\ deps' = deps /\ policy' = policy
  BY StateMoves
<1>2. \A t \in Tasks : DependenciesResolved(t) => DependenciesResolved(t)'
  BY <1>1, ResolvedStays
<1>3. ASSUME NEW t \in Tasks, state'[t] \in {"ready", "running", "waiting_retry", "completed"}
      PROVE  DependenciesResolved(t)'
  BY <1>1, <1>2, <1>3 DEF StartedAfterDependencies, Moves
<1>4. ASSUME NEW t \in Tasks, pc'[t] # "idle"
      PROVE  DependenciesResolved(t)'
  BY <1>1, <1>2, <1>4 DEF StartedAfterDependencies, StepsResolved, Starts
<1> QED
  BY <1>3, <1>4 DEF StartedAfterDependencies, StepsResolved

-----------------------------------------------------------------------------
(* The table. *)

\* Every write to the map comes with the write to the row.
LEMMA StoreInductive ==
  ASSUME Shape, StepStates, LoopKnows, StoreMirrorsState, RowsWritten, [Next]_vars
  PROVE  StoreMirrorsState' /\ RowsWritten'
<1> USE DEF StepStates, Loop, StoreMirrorsState, RowsWritten, rows
<1>a. /\ pc \in [Tasks -> Steps] /\ state \in [Tasks -> ExecutionStatus]
      /\ db \in [Tasks -> TaskStatus] /\ attempts \in [Tasks -> Nat]
      /\ timers \in SUBSET Tasks
  BY DEF Shape, TypeOK
<1>b. \A t : FailDependents(t) => \E B \in SUBSET Tasks :
           /\ \A d \in B : state[d] = "pending"
           /\ state' = [d \in Tasks |-> IF d \in B THEN "blocked" ELSE state[d]]
           /\ db' = [d \in Tasks |-> IF d \in B THEN "blocked" ELSE db[d]]
  BY FailWrites DEF Shape
<1>c. \A f, F : CancelNext(f, F) => \E d : state[d] = "pending"
           /\ state' = [state EXCEPT ![d] = "cancelled"]
           /\ db' = [db EXCEPT ![d] = "cancelled"]
  BY DEF CancelNext, PendingIn
<1>1. CASE LoopActs
  <2>1. CASE Call \/ AwaitWork \/ RaceSettles \/ SweptReported \/ Return \/ LoopRejected
    BY <2>1 DEF Call, AwaitWork, RaceSettles, SweptReported, Return, LoopRejected
  <2>2. CASE SettleQueuedTask
    BY <1>a, <2>2 DEF SettleQueuedTask
  <2>3. CASE SettledReported
    BY <1>a, <1>b, <1>c, <2>3 DEF SettledReported, LoopCascade
  <2>4. CASE SettledCascade
    BY <1>a, <1>c, <2>4 DEF SettledCascade, LoopCascade
  <2>5. CASE MarkNewlyReady
    BY <1>a, <2>5 DEF MarkNewlyReady, Set
  <2>6. CASE \E t \in Tasks : StartReadyTask(t)
    BY <1>a, <2>6 DEF StartReadyTask, Startable
  <2>7. CASE SweepLeftover
    BY <1>a, <2>7 DEF SweepLeftover
  <2> QED
    BY <1>1, <2>1, <2>2, <2>3, <2>4, <2>5, <2>6, <2>7 DEF LoopActs
<1>2. ASSUME NEW t \in Tasks, StepActs(t)
      PROVE  StoreMirrorsState' /\ RowsWritten'
  <2> USE DEF FinishStep
  <2>1. CASE AbandonStart(t)
    BY <1>a, <2>1 DEF AbandonStart
  <2>2. CASE ExecuteAttempt(t)
    BY <1>a, <2>2 DEF ExecuteAttempt
  <2>3. CASE CancelledBeforeStart(t)
    BY <1>a, <2>3 DEF CancelledBeforeStart, Conclude
  <2>4. CASE OutcomeSuccess(t) \/ OutcomeCancelled(t) \/ OutcomeFailed(t)
    BY <1>a, <2>4 DEF OutcomeSuccess, OutcomeCancelled, OutcomeFailed, Conclude
  <2>5. CASE OutcomeRetry(t)
    BY <1>a, <2>5 DEF OutcomeRetry
  <2>6. CASE OutcomeReported(t)
    BY <1>a, <1>b, <1>c, <2>6 DEF OutcomeReported, StepCascade
  <2>7. CASE ContinueCascade(t)
    BY <1>a, <1>c, <2>7 DEF ContinueCascade, StepCascade
  <2>8. CASE ReportRejected(t)
    BY <1>a, <2>8 DEF ReportRejected
  <2> QED
    BY <1>2, <2>1, <2>2, <2>3, <2>4, <2>5, <2>6, <2>7, <2>8 DEF StepActs
<1>3. ASSUME NEW t \in Tasks, RetryDelayOver(t)
      PROVE  StoreMirrorsState' /\ RowsWritten'
  <2>1. /\ state[t] = "waiting_retry" /\ state' = [state EXCEPT ![t] = "pending"]
        /\ UNCHANGED <<rows, db, attempts>>
    BY <1>a, <1>3 DEF RetryDelayOver
  <2>2. attempts[t] \in Nat /\ attempts[t] > 0
    BY <1>a, <2>1
  <2>3. attempts[t] # 0
    BY <2>2
  <2>4. db[t] # "waiting_retry"
    BY <1>a DEF TaskStatus, Terminal
  <2> QED
    BY <1>a, <2>1, <2>3, <2>4
<1>4. ASSUME NEW t \in Tasks, RequestTaskCancellation(t)
      PROVE  StoreMirrorsState' /\ RowsWritten'
  BY <1>a, <1>4 DEF RequestTaskCancellation, Set
<1>5. CASE UNCHANGED vars
  BY <1>5 DEF vars
<1> QED
  BY <1>1, <1>2, <1>3, <1>4, <1>5 DEF Next, Finished

-----------------------------------------------------------------------------
(* The retry budget. *)

\* A task is left alone, or ended before it ran again.
Dismissed(t) ==
  \/ state'[t] = state[t]
  \/ state[t] \in {"pending", "ready"} /\ state'[t] \in {"blocked", "cancelled", "failed"}

\* An attempt is counted in the table when it begins and in the map when it
\* ends, and one begins only within the budget.
LEMMA CountInductive ==
  ASSUME Shape, StepStates, LoopKnows, Counted, SettledInTime, [Next]_vars
  PROVE  Counted'
<1> USE RetriesAssumption DEF StepStates, Loop, Counted
<1>a. /\ pc \in [Tasks -> Steps] /\ state \in [Tasks -> ExecutionStatus]
      /\ dbAttempts \in [Tasks -> Nat] /\ attempts \in [Tasks -> Nat]
      /\ timers \in SUBSET Tasks /\ cursor \in Nat \ {0}
  BY DEF Shape, TypeOK
<1>c. \A u : FailDependents(u) => \A d \in Tasks : Dismissed(d)
  BY FailWrites DEF Shape, Dismissed
<1>d. \A f, F : CancelNext(f, F) => \A d \in Tasks : Dismissed(d)
  BY <1>a DEF CancelNext, PendingIn, Dismissed
<1>e. dbAttempts' = dbAttempts /\ attempts' = attempts /\ (\A t \in Tasks : Dismissed(t)) => Counted'
  BY <1>a DEF Dismissed
<1>1. CASE LoopActs
  <2>1. dbAttempts' = dbAttempts /\ attempts' = attempts
    BY <1>1 DEF LoopActs, Call, SettleQueuedTask, SettledReported, SettledCascade, MarkNewlyReady,
       StartReadyTask, AwaitWork, RaceSettles, SweepLeftover, SweptReported, Return, LoopRejected
  <2>2. CASE MarkNewlyReady
    <3>1. \A t \in Tasks : state[t] = "pending" => attempts[t] <= MaxRetries
      <4> SUFFICES ASSUME NEW t \in Tasks, state[t] = "pending", attempts[t] > MaxRetries
                   PROVE  FALSE
        BY <1>a
      <4>1. cursor <= t
        BY <2>2 DEF SettledInTime, MarkNewlyReady
      <4>2. t \in DueFrom(cursor)
        BY <1>a, <4>1 DEF DueFrom, Tasks
      <4> QED
        BY <2>2, <4>2 DEF MarkNewlyReady
    <3>2. \A t \in Tasks : \/ state'[t] = state[t]
                           \/ state[t] = "pending" /\ state'[t] = "ready"
      <4>1. PICK N \in SUBSET {t \in Tasks : state[t] = "pending"} : state' = Set(state, N, "ready")
        BY <2>2 DEF MarkNewlyReady
      <4> QED
        BY <1>a, <4>1 DEF Set
    <3> QED
      BY <1>a, <2>1, <3>1, <3>2
  <2>3. CASE SettleQueuedTask
    <3>1. DueFrom(cursor) \subseteq Tasks
      BY <1>a, NumTasksAssumption DEF DueFrom, Tasks
    <3>2. Min(DueFrom(cursor)) \in DueFrom(cursor)
      BY <2>3, <3>1, FirstTask DEF SettleQueuedTask
    <3>3. \A u \in Tasks : Dismissed(u)
      BY <1>a, <2>3, <3>2 DEF SettleQueuedTask, DueFrom, Dismissed
    <3> QED
      BY <1>e, <2>1, <3>3
  <2>4. CASE SweepLeftover
    <3>1. Min(Leftover) \in Leftover
      BY <2>4, FirstTask DEF SweepLeftover, Leftover
    <3>2. state[Min(Leftover)] = "pending"
      BY <2>4, <3>1 DEF SweepLeftover, LoopKnows, Leftover
    <3>3. \A u \in Tasks : Dismissed(u)
      BY <1>a, <2>4, <3>2 DEF SweepLeftover, Dismissed
    <3> QED
      BY <1>e, <2>1, <3>3
  <2>5. CASE ~MarkNewlyReady /\ ~SettleQueuedTask /\ ~SweepLeftover
    <3>1. \A u \in Tasks : Dismissed(u)
      BY <1>1, <1>c, <1>d, <2>5 DEF LoopActs, Call, SettledReported, SettledCascade, LoopCascade,
         StartReadyTask, AwaitWork, RaceSettles, SweptReported, Return, LoopRejected, Dismissed
    <3> QED
      BY <1>e, <2>1, <3>1
  <2> QED
    BY <2>2, <2>3, <2>4, <2>5
<1>2. ASSUME NEW t \in Tasks, StepActs(t)
      PROVE  Counted'
  <2>1. CASE AbandonStart(t)
    BY <1>a, <2>1 DEF AbandonStart
  <2>2. CASE ExecuteAttempt(t)
    BY <1>a, <2>2 DEF ExecuteAttempt
  <2>3. CASE CancelledBeforeStart(t)
    BY <1>a, <2>3 DEF CancelledBeforeStart, Conclude
  <2>4. CASE OutcomeSuccess(t) \/ OutcomeCancelled(t) \/ OutcomeFailed(t)
    BY <1>a, <2>4 DEF OutcomeSuccess, OutcomeCancelled, OutcomeFailed, Conclude
  <2>5. CASE OutcomeRetry(t)
    BY <1>a, <2>5 DEF OutcomeRetry
  <2>6. CASE OutcomeReported(t) \/ ContinueCascade(t) \/ ReportRejected(t)
    <3>1. dbAttempts' = dbAttempts /\ attempts' = attempts
      BY <2>6 DEF OutcomeReported, ContinueCascade, ReportRejected
    <3>2. \A u \in Tasks : Dismissed(u)
      BY <1>c, <1>d, <2>6 DEF OutcomeReported, ContinueCascade, ReportRejected, StepCascade, Dismissed
    <3> QED
      BY <1>e, <3>1, <3>2
  <2> QED
    BY <1>2, <2>1, <2>2, <2>3, <2>4, <2>5, <2>6 DEF StepActs
<1>3. ASSUME NEW t \in Tasks, RetryDelayOver(t)
      PROVE  Counted'
  BY <1>a, <1>3 DEF RetryDelayOver
<1>4. ASSUME NEW t \in Tasks, RequestTaskCancellation(t)
      PROVE  Counted'
  BY <1>a, <1>4 DEF RequestTaskCancellation
<1>5. CASE UNCHANGED vars
  BY <1>5 DEF vars
<1> QED
  BY <1>1, <1>2, <1>3, <1>4, <1>5 DEF Next, Finished

-----------------------------------------------------------------------------
(* The loop. *)

\* The first task that is due is due, and is the first.
LEMMA FirstDue ==
  ASSUME Shape, SettleQueuedTask
  PROVE  /\ Min(DueFrom(cursor)) \in Tasks
         /\ Min(DueFrom(cursor)) \in DueFrom(cursor)
         /\ \A t \in DueFrom(cursor) : Min(DueFrom(cursor)) <= t
<1>1. cursor \in Nat \ {0}
  BY DEF Shape, TypeOK
<1>2. DueFrom(cursor) \subseteq Tasks
  BY <1>1, NumTasksAssumption DEF DueFrom, Tasks
<1>3. DueFrom(cursor) # {}
  BY DEF SettleQueuedTask
<1>4. /\ Min(DueFrom(cursor)) \in DueFrom(cursor)
      /\ \A t \in DueFrom(cursor) : Min(DueFrom(cursor)) <= t
  BY <1>2, <1>3, FirstTask
<1> QED
  BY <1>2, <1>4

\* A task that is pending and out of retries was so before, and stays for
\* settleQueuedTasks() to find.
LEMMA ExhaustedBefore ==
  ASSUME Shape, StepStates, LoopKnows, Counted, [Next]_vars,
         NEW t \in Tasks, state'[t] = "pending", attempts'[t] > MaxRetries
  PROVE  state[t] = "pending" /\ attempts[t] > MaxRetries
<1>a. /\ state \in [Tasks -> ExecutionStatus] /\ attempts \in [Tasks -> Nat]
      /\ pc \in [Tasks -> Steps]
  BY DEF Shape, TypeOK
<1>1. state[t] \in {"pending", "waiting_retry"} /\ Moves(t)
  BY StateMoves DEF Moves
<1>2. attempts'[t] = attempts[t]
  <2>1. CASE LoopActs
    BY <2>1 DEF LoopActs, Call, SettleQueuedTask, SettledReported, SettledCascade, MarkNewlyReady,
       StartReadyTask, AwaitWork, RaceSettles, SweepLeftover, SweptReported, Return, LoopRejected
  <2>2. ASSUME NEW u \in Tasks, StepActs(u)
        PROVE  attempts'[t] = attempts[t]
    <3>1. UNCHANGED attempts \/ (attempts' = [attempts EXCEPT ![u] = @ + 1] /\ state'[u] # "pending")
      BY <1>a, <2>2 DEF StepActs, AbandonStart, ExecuteAttempt, CancelledBeforeStart, Conclude,
         OutcomeSuccess, OutcomeCancelled, OutcomeRetry, OutcomeFailed, OutcomeReported,
         ContinueCascade, ReportRejected
    <3> QED
      BY <1>a, <3>1
  <2>3. ASSUME NEW u \in Tasks, RetryDelayOver(u) \/ RequestTaskCancellation(u)
        PROVE  attempts'[t] = attempts[t]
    BY <2>3 DEF RetryDelayOver, RequestTaskCancellation
  <2>4. CASE UNCHANGED vars
    BY <2>4 DEF vars
  <2> QED
    BY <2>1, <2>2, <2>3, <2>4 DEF Next, Finished
<1>3. state[t] # "waiting_retry"
  BY <1>a, <1>2, RetriesAssumption DEF Counted
<1> QED
  BY <1>1, <1>2, <1>3

\* settleQueuedTasks() comes to every task without retries before the next
\* markNewlyReady().
LEMMA SettledInTimeInductive ==
  ASSUME Shape, StepStates, LoopKnows, Counted, SettledInTime, [Next]_vars
  PROVE  SettledInTime'
<1> SUFFICES ASSUME NEW t \in Tasks, state'[t] = "pending", attempts'[t] > MaxRetries
             PROVE  \/ main' \in {"called", "settling", "reporting", "cascading"} /\ cursor' <= t
                    \/ main' = "rejected"
  BY DEF SettledInTime
<1>a. cursor \in Nat \ {0} /\ t \in Nat \ {0}
  BY DEF Shape, TypeOK, Tasks
<1>b. state[t] = "pending" /\ attempts[t] > MaxRetries
  BY ExhaustedBefore
<1>c. \/ main \in {"called", "settling", "reporting", "cascading"} /\ cursor <= t
      \/ main = "rejected"
  BY <1>b DEF SettledInTime
<1>d. main = "settling" => t \in DueFrom(cursor)
  BY <1>a, <1>b, <1>c DEF DueFrom, Tasks
<1>e. main \in {"reporting", "cascading"} => cursor # t
  BY <1>b DEF LoopKnows
<1>1. CASE LoopActs
  <2>1. CASE Call
    BY <1>a, <1>c, <2>1 DEF Call
  <2>2. CASE SettleQueuedTask
    BY <1>d, <2>2, FirstDue DEF SettleQueuedTask
  <2>3. CASE SettledReported \/ SettledCascade
    BY <1>a, <1>c, <1>e, <2>3 DEF SettledReported, SettledCascade, LoopCascade, NextIteration
  <2>4. CASE MarkNewlyReady
    BY <1>d, <2>4 DEF MarkNewlyReady
  <2>5. CASE RaceSettles
    BY <1>a, <2>5 DEF RaceSettles
  <2>6. CASE LoopRejected
    BY <2>6 DEF LoopRejected
  <2>7. CASE (\E u \in Tasks : StartReadyTask(u)) \/ AwaitWork \/ SweepLeftover \/ SweptReported \/ Return
    BY <1>c, <2>7 DEF StartReadyTask, AwaitWork, SweepLeftover, SweptReported, Return
  <2> QED
    BY <1>1, <2>1, <2>2, <2>3, <2>4, <2>5, <2>6, <2>7 DEF LoopActs
<1>2. CASE UNCHANGED loop
  BY <1>c, <1>2 DEF loop
<1>3. ASSUME NEW u \in Tasks, StepActs(u) \/ RetryDelayOver(u) \/ RequestTaskCancellation(u)
      PROVE  UNCHANGED loop
  BY <1>3 DEF StepActs, AbandonStart, ExecuteAttempt, CancelledBeforeStart, Conclude,
     OutcomeSuccess, OutcomeCancelled, OutcomeRetry, OutcomeFailed, OutcomeReported,
     ContinueCascade, ReportRejected, RetryDelayOver, RequestTaskCancellation
<1> QED
  BY <1>1, <1>2, <1>3 DEF Next, Finished, vars

\* A dependency that is not resolved is not resolved by what ends without
\* having run.
LEMMA NotResolvedBy ==
  ASSUME Shape, deps' = deps, policy' = policy,
         \A p \in Tasks : state'[p] \in {"completed", "failed"} => state'[p] = state[p],
         NEW t \in Tasks, ~DependenciesResolved(t)
  PROVE  ~DependenciesResolved(t)'
<1>1. deps[t] \subseteq Tasks
  BY DEF Shape, Acyclic
<1> QED
  BY <1>1 DEF DependenciesResolved

\* What the loop knows where it stands, it goes on to know.
LEMMA LoopInductive ==
  ASSUME Shape, StepStates, LoopKnows, [Next]_vars
  PROVE  LoopKnows'
<1>a. /\ cursor \in Nat \ {0} /\ state \in [Tasks -> ExecutionStatus] /\ pc \in [Tasks -> Steps]
  BY DEF Shape, TypeOK
<1>b. /\ \A t \in Tasks : Moves(t)
      /\ deps' = deps /\ policy' = policy
  BY StateMoves
<1>c. \A t \in Tasks : state[t] \in Terminal => state'[t] = state[t]
  BY <1>b DEF Moves, Terminal
<1>1. CASE UNCHANGED <<state, main, cursor, pc, timers>>
  BY <1>1, <1>b DEF LoopKnows, NothingMissed, DependenciesResolved
<1>2. ASSUME NEW u \in Tasks, StepActs(u) \/ RetryDelayOver(u)
      PROVE  LoopKnows'
  <2>1. UNCHANGED loop
    BY <1>2 DEF StepActs, AbandonStart, ExecuteAttempt, CancelledBeforeStart, Conclude,
       OutcomeSuccess, OutcomeCancelled, OutcomeRetry, OutcomeFailed, OutcomeReported,
       ContinueCascade, ReportRejected, RetryDelayOver
  <2>2. main # "starting" /\ (pc[u] # "idle" \/ u \in timers)
    BY <1>2 DEF StepActs, AbandonStart, ExecuteAttempt, CancelledBeforeStart,
       OutcomeSuccess, OutcomeCancelled, OutcomeRetry, OutcomeFailed, OutcomeReported,
       ContinueCascade, ReportRejected, RetryDelayOver, Yielded, Idle
  <2>3. main \notin {"starting", "sweeping", "sweepReporting", "returned"}
    BY <2>2 DEF LoopKnows
  <2> QED
    BY <1>c, <2>1, <2>3 DEF loop, LoopKnows, Terminal
<1>3. ASSUME NEW u \in Tasks, RequestTaskCancellation(u)
      PROVE  LoopKnows'
  BY <1>1, <1>3 DEF RequestTaskCancellation, loop
<1>4. CASE LoopActs
  <2>1. CASE Call
    BY <2>1 DEF Call, LoopKnows
  <2>2. CASE SettleQueuedTask
    BY <1>a, <2>2, FirstDue DEF SettleQueuedTask, LoopKnows
  <2>3. CASE SettledReported \/ SettledCascade
    <3>1. \/ main' = "settling"
          \/ main' = "cascading" /\ cursor' = cursor
      BY <2>3 DEF SettledReported, SettledCascade, LoopCascade, NextIteration
    <3>2. cursor \in Tasks /\ state[cursor] \in {"failed", "cancelled"}
      BY <2>3 DEF SettledReported, SettledCascade, LoopKnows
    <3> QED
      BY <1>c, <3>1, <3>2 DEF LoopKnows, Terminal
  <2>4. CASE MarkNewlyReady
    <3>1. PICK N \in SUBSET {t \in Tasks : state[t] = "pending"} :
            /\ \A t \in Tasks : state[t] = "pending" /\ DependenciesResolved(t) => t \in N
            /\ state' = Set(state, N, "ready")
      BY <2>4 DEF MarkNewlyReady
    <3>2. state' = [t \in Tasks |-> IF t \in N THEN "ready" ELSE state[t]]
      BY <1>a, <3>1 DEF Set
    <3>3. \A t \in Tasks : state'[t] = "pending" => ~DependenciesResolved(t)
      BY <3>1, <3>2
    <3>4. \A p \in Tasks : state'[p] \in {"completed", "failed"} => state'[p] = state[p]
      BY <3>2
    <3>5. NothingMissed'
      BY <1>b, <3>3, <3>4, NotResolvedBy DEF NothingMissed
    <3> QED
      BY <2>4, <3>5 DEF MarkNewlyReady, LoopKnows
  <2>5. CASE \E u \in Tasks : StartReadyTask(u)
    <3>1. main = "starting" /\ main' = "starting" /\ UNCHANGED <<state, deps, policy>>
      BY <1>b, <2>5 DEF StartReadyTask, loop
    <3> QED
      BY <3>1 DEF LoopKnows, NothingMissed, DependenciesResolved
  <2>6. CASE AwaitWork
    <3>1. main = "starting" /\ UNCHANGED <<state, deps, policy, pc, timers>>
      BY <1>b, <2>6 DEF AwaitWork
    <3>2. NothingMissed'
      BY <3>1 DEF LoopKnows, NothingMissed, DependenciesResolved
    <3>3. \/ main' = "racing"
          \/ main' = "sweeping" /\ timers = {} /\ \A t \in Tasks : pc[t] = "idle" /\ state[t] # "ready"
      BY <2>6 DEF AwaitWork, Startable
    <3> QED
      BY <3>1, <3>2, <3>3 DEF LoopKnows
  <2>7. CASE RaceSettles \/ LoopRejected
    BY <2>7 DEF RaceSettles, LoopRejected, LoopKnows
  <2>8. CASE SweepLeftover
    <3>1. main = "sweeping" /\ main' \in {"sweeping", "sweepReporting"} /\ UNCHANGED <<pc, timers>>
      BY <2>8 DEF SweepLeftover, loop
    <3>2. \A t \in Tasks : state[t] \notin {"ready", "waiting_retry", "running"}
      BY <3>1 DEF LoopKnows, StepStates
    <3>3. \A t \in Tasks : \/ state'[t] = state[t]
                           \/ state[t] = "pending" /\ state'[t] \in {"cancelled", "blocked"}
      BY <1>a, <1>b, <2>8, <3>2 DEF SweepLeftover, Moves
    <3>4. NothingMissed'
      BY <1>b, <3>1, <3>3, NotResolvedBy DEF NothingMissed, LoopKnows
    <3> QED
      BY <3>1, <3>2, <3>3, <3>4 DEF LoopKnows
  <2>9. CASE SweptReported
    <3>1. main = "sweepReporting" /\ main' = "sweeping" /\ UNCHANGED <<state, deps, policy, pc, timers>>
      BY <1>b, <2>9 DEF SweptReported
    <3> QED
      BY <3>1 DEF LoopKnows, NothingMissed, DependenciesResolved
  <2>10. CASE Return
    <3>1. main = "sweeping" /\ main' = "returned" /\ UNCHANGED <<state, deps, policy, pc, timers>>
      BY <1>b, <2>10 DEF Return
    <3>2. \A t \in Tasks : state[t] \in Terminal
      BY <1>a, <2>10 DEF Return, Leftover, ExecutionStatus
    <3> QED
      BY <3>1, <3>2 DEF LoopKnows
  <2> QED
    BY <1>4, <2>1, <2>2, <2>3, <2>4, <2>5, <2>6, <2>7, <2>8, <2>9, <2>10 DEF LoopActs
<1> QED
  BY <1>1, <1>2, <1>3, <1>4 DEF Next, Finished, vars, loop

-----------------------------------------------------------------------------
(* The invariant. *)

\* executeDag() begins with it.
LEMMA InitInvariant == Init => IInv
<1> SUFFICES ASSUME Init PROVE IInv
  OBVIOUS
<1> USE DEF Init
<1>1. deps \in Acyclic /\ deps \in [Tasks -> SUBSET Tasks]
  BY GraphsAssumption DEF Acyclic
<1>2. attempts \in [Tasks -> Nat] /\ \A t \in Tasks : attempts[t] <= MaxRetries + 1
  <2>1. \A x \in EarlierAttempts : x \in Nat /\ x <= MaxRetries + 1
    BY EarlierAssumption, RetriesAssumption
  <2>2. attempts \in [Tasks -> EarlierAttempts]
    OBVIOUS
  <2> QED
    BY <2>1, <2>2
<1>3. QueueInOrder /\ Places = {}
  <2>1. LP!Inv
    <3>1. LP!Init
      BY DEF Limiter!Init, LP!Init
    <3> QED
      BY <3>1, LP!InitInv, LimiterAssumptions
  <2>2. active = 0 /\ waiting = <<>> /\ holders = {}
    BY DEF Limiter!Init
  <2> QED
    BY <2>1, <2>2, LimitAssumption DEF QueueInOrder, Places, LP!Waiters
<1>4. TypeOK
  <2>1. Limiter!TypeOK
    BY <1>3, QueueTypes
  <2>2. 0 \in Nat /\ 1 \in Nat \ {0} /\ Loop \in Flows
    BY DEF Flows
  <2> QED
    BY <1>1, <1>2, <2>1, <2>2 DEF TypeOK, TaskStatus, ExecutionStatus, Terminal, Steps, Phases
<1>5. StepPlaces /\ StepStates /\ StartedAfterDependencies /\ StepsResolved /\ StoreMirrorsState
  BY <1>3 DEF StepPlaces, StepStates, StartedAfterDependencies, StepsResolved, StoreMirrorsState
<1>6. RowsWritten /\ Counted
  BY <1>2, RetriesAssumption DEF RowsWritten, Counted
<1>7. SettledInTime /\ LoopKnows
  BY DEF SettledInTime, LoopKnows, Tasks
<1> QED
  BY <1>1, <1>3, <1>4, <1>5, <1>6, <1>7 DEF IInv, Shape, Control

\* Every step keeps it.
LEMMA NextInvariant == IInv /\ [Next]_vars => IInv'
<1> SUFFICES ASSUME IInv, [Next]_vars PROVE IInv'
  OBVIOUS
<1>1. /\ Shape /\ QueueInOrder /\ StepPlaces /\ StepStates
      /\ StartedAfterDependencies /\ StepsResolved
      /\ StoreMirrorsState /\ RowsWritten /\ Counted /\ SettledInTime /\ LoopKnows
  BY DEF IInv, Control
<1>2. QueueInOrder' /\ StepPlaces'
  BY <1>1, PlacesInductive
<1>3. Shape'
  BY <1>1, <1>2, TypeInductive
<1>4. StepStates' /\ StartedAfterDependencies' /\ StepsResolved'
  BY <1>1, StatesInductive, DependenciesInductive
<1>5. StoreMirrorsState' /\ RowsWritten'
  BY <1>1, StoreInductive
<1>6. Counted' /\ SettledInTime' /\ LoopKnows'
  BY <1>1, CountInductive, SettledInTimeInductive, LoopInductive
<1> QED
  BY <1>2, <1>3, <1>4, <1>5, <1>6 DEF IInv, Control

\* Nobody in a place means no permit out and none asked for.
LEMMA EmptyQueue ==
  ASSUME QueueInOrder, Places = {}
  PROVE  active = 0 /\ waiting = <<>>
<1>1. holders = {} /\ LP!Waiters = {}
  BY DEF Places
<1>2. active = 0
  BY <1>1, QueueCounts, FS_EmptySet
<1>3. waiting \in Seq(LP!Request)
  BY DEF QueueInOrder, LP!Inv, LP!TypeOK
<1>4. \A i \in DOMAIN waiting : waiting[i].client \in LP!Waiters
  BY DEF LP!Waiters
<1>5. Len(waiting) = 0
  <2> SUFFICES ASSUME Len(waiting) # 0 PROVE FALSE
    OBVIOUS
  <2>1. 1 \in DOMAIN waiting
    BY <1>3
  <2> QED
    BY <1>1, <1>4, <2>1
<1>6. waiting = <<>>
  BY <1>3, <1>5
<1> QED
  BY <1>2, <1>6

-----------------------------------------------------------------------------
(* The theorems. *)

\* The invariant holds in every state of every behaviour.
THEOREM ExecutorInvariant == Spec => []IInv
<1>1. Init => IInv
  BY InitInvariant
<1>2. IInv /\ [Next]_vars => IInv'
  BY NextInvariant
<1> QED
  BY <1>1, <1>2, PTL DEF Spec

\* Every variable of the executor keeps its shape.
THEOREM ExecutorTypeCorrect == Spec => []TypeOK
<1>1. IInv => TypeOK
  BY DEF IInv, Shape
<1> QED
  BY <1>1, ExecutorInvariant, PTL

\* A step that is ready, runs, waits for a retry or is done had every dependency
\* completed, or failed where it chose to continue.
THEOREM ExecutorStartsOnDependencies == Spec => []StartedAfterDependencies
<1>1. IInv => StartedAfterDependencies
  BY DEF IInv
<1> QED
  BY <1>1, ExecutorInvariant, PTL

\* The table tells what the executor knows, or that a cancellation was asked for.
THEOREM ExecutorStoreMirrorsState == Spec => []StoreMirrorsState
<1>1. IInv => StoreMirrorsState
  BY DEF IInv
<1> QED
  BY <1>1, ExecutorInvariant, PTL

\* Nothing that depends on a cancelled task has run or is under way.
THEOREM ExecutorStopsBehindCancelled == Spec => []NothingRunsOnCancelled
<1>1. ASSUME IInv, NEW t \in Tasks, NEW p \in deps[t], state[p] = "cancelled"
      PROVE  state[t] \in {"pending", "cancelled", "blocked", "failed"} /\ pc[t] = "idle"
  <2>1. ~DependenciesResolved(t)
    BY <1>1 DEF DependenciesResolved
  <2>2. state[t] \in ExecutionStatus
    BY <1>1 DEF IInv, Shape, TypeOK
  <2> QED
    BY <1>1, <2>1, <2>2 DEF IInv, StartedAfterDependencies, StepsResolved, ExecutionStatus, Terminal
<1>2. IInv => NothingRunsOnCancelled
  BY <1>1 DEF NothingRunsOnCancelled
<1> QED
  BY <1>2, ExecutorInvariant, PTL

\* No row ever counts more than one attempt beyond its retries: what the next call
\* of executeDag() on these rows begins with (EarlierAssumption).
THEOREM ExecutorKeepsBudget == Spec => [](\A t \in Tasks : dbAttempts[t] <= MaxRetries + 1)
<1>1. IInv => \A t \in Tasks : dbAttempts[t] <= MaxRetries + 1
  BY DEF IInv, Counted
<1> QED
  BY <1>1, ExecutorInvariant, PTL

\* A return leaves every task settled within its budget, and nothing behind: no
\* step, no delay, no permit.
THEOREM ExecutorReturnsSettled == Spec => []ReturnsSettled
<1>1. ASSUME IInv, main = "returned"
      PROVE  /\ \A t \in Tasks : state[t] \in Terminal /\ dbAttempts[t] <= MaxRetries + 1 /\ pc[t] = "idle"
             /\ timers = {} /\ active = 0 /\ waiting = <<>>
  <2>1. /\ timers = {}
        /\ \A t \in Tasks : state[t] \in Terminal /\ pc[t] = "idle"
    BY <1>1 DEF IInv, LoopKnows
  <2>2. \A t \in Tasks : dbAttempts[t] <= MaxRetries + 1
    BY <1>1 DEF IInv, Counted
  <2>3. Places \subseteq Tasks
    <3>1. Limiter!TypeOK
      BY <1>1 DEF IInv, Shape, TypeOK
    <3>2. waiting \in Seq(Limiter!Request) /\ holders \subseteq Tasks
      BY <3>1 DEF Limiter!TypeOK
    <3>3. \A i \in DOMAIN waiting : waiting[i] \in Limiter!Request
      BY <3>2
    <3>4. \A r \in Limiter!Request : r.client \in Tasks
      BY DEF Limiter!Request
    <3> QED
      BY <3>2, <3>3, <3>4 DEF Places, LP!Waiters
  <2>4. Places = {}
    BY <1>1, <2>1, <2>3 DEF IInv, Control, StepPlaces
  <2> QED
    BY <1>1, <2>1, <2>2, <2>4, EmptyQueue DEF IInv, Control
<1>2. IInv => ReturnsSettled
  BY <1>1 DEF ReturnsSettled
<1> QED
  BY <1>2, ExecutorInvariant, PTL

-----------------------------------------------------------------------------
(* The steps of the executor are steps of DagContract. *)

\* What waits, to the contract.
Waits == {"pending", "ready", "waiting_retry"}

\* Where no task begins, ends or is blocked, the contract sees nothing.
LEMMA ShowsNothing ==
  ASSUME Shape, UNCHANGED <<deps, policy>>,
         \A t \in Tasks : state'[t] = state[t] \/ (state[t] \in Waits /\ state'[t] \in Waits)
  PROVE  UNCHANGED Contract!vars
<1>1. \A t \in Tasks :
        (IF state[t] \in Waits THEN "waiting" ELSE state[t])
          = (IF state'[t] \in Waits THEN "waiting" ELSE state'[t])
  OBVIOUS
<1> QED
  BY <1>1 DEF Contract!vars, Waits

\* A task that ends before it runs is dismissed.
LEMMA ShowsDismiss ==
  ASSUME Shape, UNCHANGED <<deps, policy>>, NEW t \in Tasks, state[t] \in Waits,
         NEW s \in {"cancelled", "failed"}, state' = [state EXCEPT ![t] = s]
  PROVE  Contract!Next
<1>1. state \in [Tasks -> ExecutionStatus]
  BY DEF Shape, TypeOK
<1>2. Contract!Dismiss(t)
  BY <1>1 DEF Contract!Dismiss, Waits
<1> QED
  BY <1>2 DEF Contract!Next

\* A task that runs stops.
LEMMA ShowsStop ==
  ASSUME Shape, UNCHANGED <<deps, policy>>, NEW t \in Tasks, state[t] = "running",
         NEW s \in {"waiting_retry", "completed", "cancelled", "failed"},
         state' = [state EXCEPT ![t] = s]
  PROVE  Contract!Next
<1>1. state \in [Tasks -> ExecutionStatus]
  BY DEF Shape, TypeOK
<1>2. Contract!Stop(t)
  BY <1>1 DEF Contract!Stop
<1> QED
  BY <1>2 DEF Contract!Next

\* Tasks are blocked together.
LEMMA ShowsBlock ==
  ASSUME Shape, UNCHANGED <<deps, policy>>, NEW B \in SUBSET Tasks, B # {},
         \A d \in B : state[d] = "pending",
         state' = [d \in Tasks |-> IF d \in B THEN "blocked" ELSE state[d]],
         \A d \in B : \E p \in deps[d] : state'[p] \in {"failed", "cancelled", "blocked"}
  PROVE  Contract!Next
<1>1. state \in [Tasks -> ExecutionStatus] /\ \A d \in B : deps[d] \subseteq Tasks
  BY DEF Shape, TypeOK
<1>2. Contract!Block(B)
  BY <1>1 DEF Contract!Block
<1> QED
  BY <1>2 DEF Contract!Next

\* An attempt begins on resolved dependencies, and with a permit: fewer than
\* MaxParallel others run.
LEMMA ShowsStart ==
  ASSUME IInv, NEW t \in Tasks, ExecuteAttempt(t)
  PROVE  Contract!Next
<1> DEFINE Running == {u \in Tasks : state[u] = "running"}
<1>1. /\ state \in [Tasks -> ExecutionStatus] /\ deps \in Acyclic
      /\ state[t] = "ready" /\ t \in holders /\ UNCHANGED <<deps, policy>>
      /\ state' = [state EXCEPT ![t] = "running"]
  BY DEF IInv, Shape, TypeOK, ExecuteAttempt, rows
<1>2. DependenciesResolved(t)
  BY <1>1 DEF IInv, StartedAfterDependencies
<1>3. Running \subseteq holders \ {t} /\ holders \subseteq Tasks
  BY <1>1 DEF IInv, Shape, TypeOK, Control, StepPlaces, StepStates, Limiter!TypeOK
<1>4. IsFiniteSet(holders)
  <2>1. IsFiniteSet(Tasks)
    BY FS_Interval, NumTasksAssumption DEF Tasks
  <2> QED
    BY <1>3, <2>1, FS_Subset
<1>5. Cardinality(holders) <= MaxParallel /\ Cardinality(holders) \in Nat
  BY <1>4, QueueCounts, FS_CardinalityType DEF IInv, Control, QueueInOrder
<1>6. Cardinality(holders \ {t}) = Cardinality(holders) - 1 /\ IsFiniteSet(holders \ {t})
  BY <1>1, <1>4, FS_RemoveElement
<1>7. Cardinality(Running) <= Cardinality(holders \ {t}) /\ Cardinality(Running) \in Nat
  BY <1>3, <1>6, FS_Subset, FS_CardinalityType
<1>8. Cardinality(Running) < MaxParallel
  <2> HIDE DEF Running
  <2> QED
    BY <1>5, <1>6, <1>7, LimitAssumption
<1>9. Contract!Running = Running
  BY DEF Contract!Running
<1>10. Contract!Cardinality(Contract!Running) < MaxParallel
  BY <1>8, <1>9 DEF Contract!Cardinality, Cardinality
<1>11. Contract!Resolved(t)
  <2>1. deps[t] \subseteq Tasks
    BY <1>1 DEF Acyclic
  <2> QED
    BY <1>2, <2>1 DEF Contract!Resolved, DependenciesResolved
<1>12. Contract!Start(t)
  <2> HIDE DEF Running
  <2> QED
    BY <1>1, <1>10, <1>11 DEF Contract!Start
<1> QED
  BY <1>1, <1>12 DEF Contract!Next

\* failDependents() blocks together what it reaches, if it reaches anything.
LEMMA ShowsFail ==
  ASSUME Shape, UNCHANGED <<deps, policy>>, NEW t \in Tasks, state[t] = "failed", FailDependents(t)
  PROVE  Contract!Next \/ UNCHANGED Contract!vars
<1> DEFINE S == {d \in Tasks : state[d] = "pending" /\ policy[d] # "continue"}
           B == Reach(t, S)
<1>1. state \in [Tasks -> ExecutionStatus] /\ deps \in Acyclic
  BY DEF Shape, TypeOK
<1>2. B \subseteq S
  BY ReachWithin
<1>3. state' = [d \in Tasks |-> IF d \in B THEN "blocked" ELSE state[d]]
  BY <1>1 DEF FailDependents, Set
<1>4. \A d \in B : \E p \in deps[d] : p = t \/ p \in B
  BY <1>1, ReachBacks
<1> HIDE DEF B
<1>5. \A d \in B : state[d] = "pending" /\ d \in Tasks
  BY <1>2
<1>6. t \notin B
  BY <1>5
<1>7. \A d \in B : \E p \in deps[d] : state'[p] \in {"failed", "cancelled", "blocked"}
  BY <1>3, <1>4, <1>5, <1>6
<1>8. CASE B = {}
  <2>1. \A d \in Tasks : state'[d] = state[d]
    BY <1>3, <1>8
  <2> QED
    BY <2>1, ShowsNothing
<1>9. CASE B # {}
  BY <1>3, <1>5, <1>7, <1>9, ShowsBlock
<1> QED
  BY <1>8, <1>9

\* cancelDependents() dismisses one dependent at a time.
LEMMA ShowsCancel ==
  ASSUME Shape, UNCHANGED <<deps, policy>>, NEW f, NEW F \in SUBSET Tasks, CancelNext(f, F)
  PROVE  Contract!Next
<1>1. PICK d \in Tasks : state[d] = "pending" /\ state' = [state EXCEPT ![d] = "cancelled"]
  BY DEF CancelNext, PendingIn
<1> QED
  BY <1>1, ShowsDismiss DEF Waits

\* Every step of the loop is a step of the contract, or none to it.
LEMMA LoopShows ==
  ASSUME IInv, LoopActs
  PROVE  Contract!Next \/ UNCHANGED Contract!vars
<1>a. Shape /\ StepStates /\ LoopKnows
  BY DEF IInv, Control
<1>b. UNCHANGED <<deps, policy>> /\ \A t \in Tasks : Moves(t)
  BY <1>a, StateMoves DEF Next
<1>c. state \in [Tasks -> ExecutionStatus] /\ deps \in Acyclic
  BY <1>a DEF Shape, TypeOK
<1>1. CASE UNCHANGED state
  BY <1>1, <1>a, <1>b, ShowsNothing
<1>2. CASE SettleQueuedTask
  <2>1. PICK t \in Tasks, s \in {"cancelled", "failed"} :
          state[t] \in {"pending", "ready"} /\ state' = [state EXCEPT ![t] = s]
    BY <1>2, <1>a, FirstDue DEF SettleQueuedTask, DueFrom
  <2> QED
    BY <1>a, <1>b, <2>1, ShowsDismiss DEF Waits
<1>3. CASE SettledReported
  <2>1. CASE state[cursor] = "failed" /\ FailDependents(cursor)
    BY <1>3, <1>a, <1>b, <2>1, ShowsFail DEF SettledReported, LoopKnows
  <2>2. CASE LoopCascade(Dependents(cursor), {})
    BY <1>1, <1>a, <1>b, <2>2, ShowsCancel DEF LoopCascade, Dependents
  <2> QED
    BY <1>3, <2>1, <2>2 DEF SettledReported
<1>4. CASE SettledCascade
  <2>1. frontier[Loop] \union Dependents(reportee[Loop]) \in SUBSET Tasks
    BY <1>a DEF Shape, TypeOK, Flows, Dependents
  <2> QED
    BY <1>1, <1>4, <1>a, <1>b, <2>1, ShowsCancel DEF SettledCascade, LoopCascade
<1>5. CASE MarkNewlyReady
  <2>1. PICK N \in SUBSET {t \in Tasks : state[t] = "pending"} : state' = Set(state, N, "ready")
    BY <1>5 DEF MarkNewlyReady
  <2>2. \A t \in Tasks : state'[t] = state[t] \/ (state[t] \in Waits /\ state'[t] \in Waits)
    BY <1>c, <2>1 DEF Set, Waits
  <2> QED
    BY <1>a, <1>b, <2>2, ShowsNothing
<1>6. CASE SweepLeftover
  <2> DEFINE t == Min(Leftover)
  <2>1. t \in Leftover /\ \A x \in Leftover : t <= x
    BY <1>6, FirstTask DEF SweepLeftover, Leftover
  <2>2. t \in Tasks /\ state[t] = "pending" /\ ~DependenciesResolved(t)
    BY <1>6, <1>a, <2>1 DEF SweepLeftover, Leftover, LoopKnows, StepStates, NothingMissed
  <2>3. CASE state' = [state EXCEPT ![t] = "cancelled"]
    BY <1>a, <1>b, <2>2, <2>3, ShowsDismiss DEF Waits
  <2>4. CASE state' = [state EXCEPT ![t] = "blocked"]
    <3>1. PICK p \in deps[t] : state[p] # "completed" /\ ~(state[p] = "failed" /\ policy[t] = "continue")
      BY <2>2 DEF DependenciesResolved
    <3>2. p \in Tasks /\ p \in 1 .. t - 1
      BY <1>c, <2>2, <3>1 DEF Acyclic
    <3>3. p \notin Leftover
      BY <2>1, <2>2, <3>2 DEF Tasks
    <3>4. state[p] \in {"failed", "cancelled", "blocked"}
      BY <1>c, <3>1, <3>2, <3>3 DEF Leftover, ExecutionStatus, Terminal
    <3> HIDE DEF t
    <3>5. p # t
      BY <2>2, <3>4
    <3>6. state' = [d \in Tasks |-> IF d \in {t} THEN "blocked" ELSE state[d]]
      BY <1>c, <2>4
    <3>7. state'[p] \in {"failed", "cancelled", "blocked"}
      BY <3>2, <3>4, <3>5, <3>6
    <3> QED
      BY <1>a, <1>b, <2>2, <3>1, <3>6, <3>7, ShowsBlock
  <2> QED
    BY <1>6, <2>3, <2>4 DEF SweepLeftover
<1> QED
  BY <1>1, <1>2, <1>3, <1>4, <1>5, <1>6
     DEF LoopActs, Call, StartReadyTask, AwaitWork, RaceSettles, SweptReported, Return, LoopRejected

\* Every step of a started task is one too.
LEMMA StepShows ==
  ASSUME IInv, NEW t \in Tasks, StepActs(t)
  PROVE  Contract!Next \/ UNCHANGED Contract!vars
<1>a. Shape /\ StepStates /\ LoopKnows
  BY DEF IInv, Control
<1>b. UNCHANGED <<deps, policy>>
  BY <1>a, StateMoves DEF Next
<1>c. state \in [Tasks -> ExecutionStatus]
  BY <1>a DEF Shape, TypeOK
<1>1. CASE UNCHANGED state
  BY <1>1, <1>a, <1>b, ShowsNothing
<1>2. CASE ExecuteAttempt(t)
  BY <1>2, ShowsStart
<1>3. CASE CancelledBeforeStart(t)
  BY <1>3, <1>a, <1>b, ShowsDismiss DEF CancelledBeforeStart, Conclude, Waits
<1>4. CASE OutcomeSuccess(t) \/ OutcomeCancelled(t) \/ OutcomeFailed(t) \/ OutcomeRetry(t)
  <2>1. state[t] = "running"
    BY <1>4, <1>a DEF OutcomeSuccess, OutcomeCancelled, OutcomeFailed, OutcomeRetry, StepStates
  <2> QED
    BY <1>4, <1>a, <1>b, <2>1, ShowsStop
       DEF OutcomeSuccess, OutcomeCancelled, OutcomeFailed, OutcomeRetry, Conclude
<1>5. CASE OutcomeReported(t)
  <2>1. CASE state[t] = "failed" /\ FailDependents(t)
    BY <1>a, <1>b, <2>1, ShowsFail
  <2>2. CASE StepCascade(t, Dependents(t), {})
    BY <1>1, <1>a, <1>b, <2>2, ShowsCancel DEF StepCascade, Dependents
  <2> QED
    BY <1>1, <1>5, <2>1, <2>2 DEF OutcomeReported
<1>6. CASE ContinueCascade(t)
  <2>1. frontier[t] \union Dependents(reportee[t]) \in SUBSET Tasks
    BY <1>a DEF Shape, TypeOK, Flows, Dependents
  <2> QED
    BY <1>1, <1>6, <1>a, <1>b, <2>1, ShowsCancel DEF ContinueCascade, StepCascade
<1> QED
  BY <1>1, <1>2, <1>3, <1>4, <1>5, <1>6 DEF StepActs, AbandonStart, ReportRejected

\* The executor implements DagContract: its first state is a first state of the
\* contract, and each of its steps is a step of the contract or none to it.
THEOREM ExecutorImplementsContract == Spec => ImplementsContract
<1>1. Init => Contract!Init
  <2> SUFFICES ASSUME Init PROVE Contract!Init
    OBVIOUS
  <2>1. deps \in [Tasks -> SUBSET Tasks]
    BY GraphsAssumption DEF Init, Acyclic
  <2> QED
    BY <2>1 DEF Init, Contract!Init
<1>2. ASSUME IInv, [Next]_vars
      PROVE  [Contract!Next]_(Contract!vars)
  <2>1. CASE LoopActs
    BY <1>2, <2>1, LoopShows
  <2>2. ASSUME NEW t \in Tasks, StepActs(t)
        PROVE  Contract!Next \/ UNCHANGED Contract!vars
    BY <1>2, <2>2, StepShows
  <2>3. ASSUME NEW t \in Tasks, RetryDelayOver(t) \/ RequestTaskCancellation(t)
        PROVE  UNCHANGED Contract!vars
    <3>1. Shape /\ UNCHANGED <<deps, policy>>
      BY <1>2, StateMoves DEF IInv, Control
    <3>2. \A u \in Tasks : state'[u] = state[u] \/ (state[u] \in Waits /\ state'[u] \in Waits)
      BY <2>3, <3>1 DEF RetryDelayOver, RequestTaskCancellation, Waits, Shape, TypeOK
    <3> QED
      BY <3>1, <3>2, ShowsNothing
  <2>4. CASE UNCHANGED vars
    <3>1. Shape /\ UNCHANGED <<deps, policy, state>>
      BY <1>2, <2>4 DEF IInv, vars, rows
    <3> QED
      BY <3>1, ShowsNothing
  <2> QED
    BY <1>2, <2>1, <2>2, <2>3, <2>4 DEF Next, Finished
<1> QED
  BY <1>1, <1>2, ExecutorInvariant, PTL DEF Spec, ImplementsContract, Contract!Spec
=============================================================================
