--------------------------- MODULE PlanRunnerProofs ---------------------------
(***************************************************************************)
(* What PlanRunner keeps for every number of steps and every cap, proved   *)
(* from one inductive invariant.                                           *)
(***************************************************************************)
EXTENDS PlanRunner, TLAPS

\* The first run is the first, and a job that is not over has retries to use.
FirstIsFirst == run = "created" => rootAttempts = 0
RetriesLeft == job \in {"waiting", "queued"} => failures <= MaxFailures

\* A run past its steps has none left under way.
StepsRest == run # "executing" => \A s \in Steps : mem[s] \notin Unfinished

\* The executor has no completed step to do.
NothingDoneToDo == \A s \in Steps : mem[s] \in Unfinished => step[s] # "completed"

Ending == {"verifying", "concluding", "delivered", "persisted"}

Successful == run = "verifying" \/ (run \in Ending /\ outcome.ok)

\* A success the run has seen is still one, but for later cancellations.
SuccessLasts == Successful => \A s \in Steps : step[s] = "completed" \/ s \in requested

\* The run's writes, in their order.
DeliveredFirst ==
  run \in {"delivered", "persisted"} /\ outcome.ok /\ ~outcome.cancelled
    => Managed \/ messages > 0

ResultSecond == run = "persisted" => result.success = outcome.ok

\* The root is completed by the last of them, and its run is over.
CompletedIsOver == root = "completed" => run = "none"

\* What a step keeps of the order of the run's writes.
Order == /\ NoStrandedPlan
         /\ CompletedIsOver /\ CompletedIsDelivered
         /\ DeliveredFirst /\ ResultSecond

\* What it keeps of the steps.
Work == StepsRest /\ NothingDoneToDo /\ SuccessLasts

\* A job waits for a plan that is run or over; the plan of one that is done is
\* over for good.
WaitEnds == job = "waiting" /\ run = "none" => root \in Terminal
DoneForGood == job = "done" => run = "none" /\ root \in Terminal

\* What it keeps of the scheduled job.
Agreement == WaitEnds /\ DoneForGood /\ JobAgreesWithPlan

\* A row shows as running in a run that runs it, before the resume pass has
\* seen it, or where the pass will not look again.
RunningIsRun == run = "executing" => \A s \in Steps : step[s] = "running" => mem[s] = "running"
NoneRunning == run \notin {"none", "executing"} => \A s \in Steps : step[s] # "running"
LeftBehind ==
  Serving /\ run = "none" /\ (\E s \in Steps : step[s] = "running")
    => \/ root = "cancelled" \/ (root = "failed" /\ rootAttempts >= MaxRuns)
       \/ (process = "swept" /\ root \notin Terminal)

\* What it keeps of the rows that show as running.
NoGhosts == RunningIsRun /\ NoneRunning /\ LeftBehind

IInv == TypeOK /\ FirstIsFirst /\ RetriesLeft /\ Order /\ Work /\ Agreement /\ NoGhosts

-----------------------------------------------------------------------------
\* Marking steps keeps a function over the steps one.
LEMMA MarkType ==
  ASSUME NEW T, NEW f \in [Steps -> T], NEW S, NEW v \in T
  PROVE  Mark(f, S, v) \in [Steps -> T]
BY DEF Mark

\* What a marked function says of each step.
LEMMA MarkValue ==
  ASSUME NEW f, NEW S, NEW v, NEW s \in Steps
  PROVE  Mark(f, S, v)[s] = IF s \in S THEN v ELSE f[s]
BY DEF Mark

\* A walk over dependents ends among the steps it may enter.
LEMMA ReachWithin == ASSUME NEW s, NEW S PROVE Reach(s, S) \subseteq S
BY DEF Reach

\* A started run counts its attempt within the cap, and hands over known steps.
LEMMA StartKeepsTypes ==
  ASSUME TypeOK, rootAttempts < MaxRuns,
         NEW table \in [Steps -> TaskStatus], Start(table)
  PROVE  /\ root' \in RootStatus /\ rootAttempts' \in 0 .. MaxRuns
         /\ run' \in Phases
         /\ mem' \in [Steps -> TaskStatus \union {"none", "waiting"}]
<1>1. mem' \in [Steps -> TaskStatus \union {"none", "waiting"}]
  <2>1. mem \in [Steps -> TaskStatus \union {"none", "waiting"}]
    BY DEF TypeOK
  <2>2. mem' = Mark(mem, Incomplete(table), "waiting")
    BY DEF Start
  <2> QED BY <2>1, <2>2, MarkType
<1>2. rootAttempts' \in 0 .. MaxRuns
  BY AttemptsAssumption DEF Start, TypeOK
<1> QED BY <1>1, <1>2 DEF Start, RootStatus, Phases

\* So does a restart, whether it starts a run, finds one or fails the root.
LEMMA RestartKeepsTypes ==
  ASSUME TypeOK, NEW stranded, NEW failed, Restart(stranded, failed)
  PROVE  /\ root' \in RootStatus /\ rootAttempts' \in 0 .. MaxRuns
         /\ run' \in Phases
         /\ mem' \in [Steps -> TaskStatus \union {"none", "waiting"}]
         /\ step' \in [Steps -> TaskStatus]
         /\ tries' \in [Steps -> 0 .. MaxRetries + 1]
         /\ retryable' \in SUBSET Steps
<1> DEFINE table == Mark(Mark(step, stranded, "ready"), failed, "pending")
<1>1. table \in [Steps -> TaskStatus]
  <2>1. step \in [Steps -> TaskStatus] /\ "ready" \in TaskStatus /\ "pending" \in TaskStatus
    BY DEF TypeOK, TaskStatus
  <2> QED BY <2>1, MarkType
<1>2. Mark(tries, failed, 0) \in [Steps -> 0 .. MaxRetries + 1]
  <2>1. tries \in [Steps -> 0 .. MaxRetries + 1] /\ 0 \in 0 .. MaxRetries + 1
    BY AttemptsAssumption DEF TypeOK
  <2> QED BY <2>1, MarkType
<1> HIDE DEF table
<1>3. CASE rootAttempts < MaxRuns /\ run = "none"
  <2>1. Start(table) /\ step' = table /\ tries' = Mark(tries, failed, 0)
        /\ retryable' = retryable \ failed
    <3>1. ~(rootAttempts >= MaxRuns)
      BY <1>3, AttemptsAssumption DEF TypeOK
    <3> QED BY <1>3, <3>1 DEF Restart, table
  <2> QED BY <2>1, <1>1, <1>2, <1>3, StartKeepsTypes DEF TypeOK
<1>4. CASE rootAttempts < MaxRuns /\ run # "none"
  <2>1. ~(rootAttempts >= MaxRuns)
    BY <1>4, AttemptsAssumption DEF TypeOK
  <2>2. /\ step' = table /\ tries' = Mark(tries, failed, 0) /\ retryable' = retryable \ failed
        /\ UNCHANGED <<root, rootAttempts, run, mem>>
    BY <1>4, <2>1 DEF Restart, table
  <2> QED BY <1>1, <1>2, <2>2 DEF TypeOK
<1>5. CASE rootAttempts >= MaxRuns
  <2>1. ~(rootAttempts < MaxRuns)
    BY <1>5, AttemptsAssumption DEF TypeOK
  <2> QED BY <1>5, <2>1 DEF Restart, TypeOK, RootStatus, Terminal
<1>6. rootAttempts < MaxRuns \/ rootAttempts >= MaxRuns
  BY AttemptsAssumption DEF TypeOK
<1> QED BY <1>3, <1>4, <1>5, <1>6

\* What executeDag() writes of a step keeps the shape of its rows.
LEMMA StepWritesTypes ==
  ASSUME TypeOK, NEW s \in Steps, NEW D,
         NEW status \in TaskStatus, NEW end \in TaskStatus,
         StepWrites(s, status, D, end)
  PROVE  /\ mem' \in [Steps -> TaskStatus \union {"none", "waiting"}]
         /\ step' \in [Steps -> TaskStatus]
<1>1. Mark(mem, D, end) \in [Steps -> TaskStatus \union {"none", "waiting"}]
  BY MarkType DEF TypeOK
<1>2. Mark(step, D, end) \in [Steps -> TaskStatus]
  BY MarkType DEF TypeOK
<1> QED BY <1>1, <1>2 DEF StepWrites

\* The variables keep their shape.
LEMMA TypeInductive ==
  ASSUME TypeOK, FirstIsFirst, RetriesLeft, [Next]_vars
  PROVE  TypeOK' /\ FirstIsFirst' /\ RetriesLeft'
<1> USE DEF rows, boot, scheduled
<1>1. ASSUME NEW s \in Steps, StepActs(s) PROVE TypeOK' /\ FirstIsFirst' /\ RetriesLeft'
  <2>1. CASE StepStarts(s)
    <3>1. mem' \in [Steps -> TaskStatus \union {"none", "waiting"}] /\ step' \in [Steps -> TaskStatus]
      BY <2>1 DEF StepStarts, StepWrites, Mark, TypeOK, TaskStatus
    <3>2. tries' \in [Steps -> 0 .. MaxRetries + 1]
      <4>1. tries \in [Steps -> 0 .. MaxRetries + 1] /\ tries[s] <= MaxRetries
            /\ tries' = [tries EXCEPT ![s] = @ + 1]
        BY <2>1 DEF StepStarts, TypeOK
      <4>2. tries[s] + 1 \in 0 .. MaxRetries + 1
        BY <4>1, AttemptsAssumption
      <4> QED BY <4>1, <4>2
    <3>3. UNCHANGED <<deps, root, rootAttempts, retryable, result, messages, run, outcome,
                      requested, job, failures, process, clean, ends, cancels>>
      BY <2>1 DEF StepStarts
    <3> QED BY <3>1, <3>2, <3>3 DEF TypeOK, FirstIsFirst, RetriesLeft
  <2>2. CASE StepCompletes(s)
    BY <2>2 DEF StepCompletes, StepWrites, Mark, TypeOK, TaskStatus, Terminal, FirstIsFirst, RetriesLeft
  <2>3. CASE StepRetries(s)
    BY <2>3 DEF StepRetries, TypeOK, TaskStatus, FirstIsFirst, RetriesLeft
  <2>4. CASE StepFails(s)
    <3>1. mem' \in [Steps -> TaskStatus \union {"none", "waiting"}] /\ step' \in [Steps -> TaskStatus]
      BY <2>4, StepWritesTypes DEF StepFails, TaskStatus, Terminal
    <3> QED BY <2>4, <3>1 DEF StepFails, TypeOK, FirstIsFirst, RetriesLeft
  <2>5. CASE StepCancelled(s)
    <3>1. mem' \in [Steps -> TaskStatus \union {"none", "waiting"}] /\ step' \in [Steps -> TaskStatus]
      BY <2>5, StepWritesTypes DEF StepCancelled, TaskStatus, Terminal
    <3> QED BY <2>5, <3>1 DEF StepCancelled, TypeOK, FirstIsFirst, RetriesLeft
  <2> QED BY <1>1, <2>1, <2>2, <2>3, <2>4, <2>5 DEF StepActs
<1>2. ASSUME NEW s \in Steps, CancelStep(s) PROVE TypeOK' /\ FirstIsFirst' /\ RetriesLeft'
  <2>1. step' \in [Steps -> TaskStatus]
    <3>1. step \in [Steps -> TaskStatus] /\ "cancelled" \in TaskStatus
      BY DEF TypeOK, TaskStatus, Terminal
    <3> QED BY <1>2, <3>1, MarkType DEF CancelStep
  <2>2. cancels' \in 0 .. MaxCancels
    BY <1>2, PlanBoundsAssumption DEF CancelStep, TypeOK
  <2>3. /\ requested' \in SUBSET Steps
        /\ UNCHANGED <<deps, root, rootAttempts, tries, retryable, result, messages, run, mem,
                       outcome, job, failures, process, clean, ends>>
    BY <1>2 DEF CancelStep, TypeOK
  <2> QED BY <2>1, <2>2, <2>3 DEF TypeOK, FirstIsFirst, RetriesLeft
<1>3. CASE StartFirstRun
  <2>1. rootAttempts < MaxRuns
    BY <1>3, AttemptsAssumption DEF StartFirstRun, FirstIsFirst
  <2>2. step \in [Steps -> TaskStatus]
    BY DEF TypeOK
  <2>3. Start(step)
    BY <1>3 DEF StartFirstRun
  <2> QED BY <1>3, <2>1, <2>2, <2>3, StartKeepsTypes
        DEF StartFirstRun, Start, TypeOK, FirstIsFirst, RetriesLeft
<1>4. CASE \E b \in BOOLEAN : ReadOutcome(b) \/ Verified(b)
  <2>1. PICK b \in BOOLEAN : ReadOutcome(b) \/ Verified(b)
    BY <1>4
  <2>2. outcome' \in [cancelled : BOOLEAN, ok : BOOLEAN, retry : BOOLEAN]
    <3>1. CASE ReadOutcome(b)
      <4>1. PICK c, o, r \in BOOLEAN : outcome' = [cancelled |-> c, ok |-> o, retry |-> r]
        BY <3>1 DEF ReadOutcome
      <4> QED BY <4>1
    <3>2. CASE Verified(b)
      BY <3>2 DEF Verified, TypeOK
    <3> QED BY <2>1, <3>1, <3>2
  <2>3. run' \in Phases \ {"created"}
    BY <2>1 DEF ReadOutcome, Verified, Phases
  <2> QED BY <2>1, <2>2, <2>3 DEF ReadOutcome, Verified, TypeOK, FirstIsFirst, RetriesLeft
<1>5. CASE Deliver \/ PersistResult
  BY <1>5 DEF Deliver, PersistResult, TypeOK, Phases, FirstIsFirst, RetriesLeft
<1>6. CASE Finish \/ RunThrows
  <2>1. /\ mem' \in [Steps -> TaskStatus \union {"none", "waiting"}]
        /\ outcome' \in [cancelled : BOOLEAN, ok : BOOLEAN, retry : BOOLEAN]
        /\ result' \in [success : BOOLEAN, retry : BOOLEAN]
    <3>1. /\ mem' = [s \in Steps |-> "none"] /\ outcome' = NoOutcome
          /\ result' = result \/ result' = NoResult
      BY <1>6 DEF Finish, RunThrows, RunOver
    <3>2. /\ NoOutcome \in [cancelled : BOOLEAN, ok : BOOLEAN, retry : BOOLEAN]
          /\ NoResult \in [success : BOOLEAN, retry : BOOLEAN]
      BY DEF NoOutcome, NoResult
    <3> QED BY <3>1, <3>2 DEF TypeOK
  <2>2. root' \in RootStatus /\ run' \in Phases \ {"created"}
    BY <1>6 DEF Finish, RunThrows, RunOver, FinalStatus, RootStatus, Terminal, Phases
  <2> QED BY <1>6, <2>1, <2>2
          DEF Finish, RunThrows, RunOver, TypeOK, FirstIsFirst, RetriesLeft
<1>7. CASE HandlerEnters
  <2>1. /\ root' \in RootStatus /\ rootAttempts' \in 0 .. MaxRuns
        /\ run' \in Phases
        /\ mem' \in [Steps -> TaskStatus \union {"none", "waiting"}]
        /\ step' \in [Steps -> TaskStatus]
        /\ tries' \in [Steps -> 0 .. MaxRetries + 1]
        /\ retryable' \in SUBSET Steps
    <3>1. \/ Restart({}, ToRetry) \/ Restart(Stranded, {})
          \/ UNCHANGED <<root, rootAttempts, step, tries, retryable, run, mem>>
      BY <1>7 DEF HandlerEnters
    <3> QED BY <3>1, RestartKeepsTypes DEF TypeOK
  <2>2. /\ job' \in {"none", "waiting", "queued", "done", "failed"}
        /\ failures' \in 0 .. MaxFailures + 1
        /\ RetriesLeft'
    BY <1>7, PlanBoundsAssumption
       DEF HandlerEnters, HandlerWaits, HandlerGivesUp, HandlerThrows, TypeOK, RetriesLeft
  <2>3. FirstIsFirst'
    BY <1>7 DEF HandlerEnters, Restart, Start, FirstIsFirst, Busy
  <2> QED BY <1>7, <2>1, <2>2, <2>3 DEF HandlerEnters, TypeOK
<1>8. CASE HandlerLearns \/ Shutdown
  <2>1. /\ job' \in {"none", "waiting", "queued", "done", "failed"}
        /\ failures' \in 0 .. MaxFailures + 1
        /\ RetriesLeft'
    BY <1>8, PlanBoundsAssumption
       DEF HandlerLearns, Shutdown, HandlerGivesUp, HandlerThrows, TypeOK, RetriesLeft, scheduled
  <2>2. clean' \in BOOLEAN
    BY <1>8 DEF HandlerLearns, Shutdown, TypeOK, boot
  <2> QED BY <1>8, <2>1, <2>2 DEF HandlerLearns, Shutdown, TypeOK, FirstIsFirst, boot, rows
<1>9. CASE CancelRoot
  <2>1. cancels' \in 0 .. MaxCancels
    BY <1>9, PlanBoundsAssumption DEF CancelRoot, TypeOK
  <2>2. root' \in RootStatus
    BY <1>9 DEF CancelRoot, RootStatus, Terminal
  <2> QED BY <1>9, <2>1, <2>2 DEF CancelRoot, TypeOK, FirstIsFirst, RetriesLeft
<1>10. CASE Crash
  <2>1. ends' \in 0 .. MaxEnds
    BY <1>10, PlanBoundsAssumption DEF Crash, TypeOK
  <2>2. /\ mem' \in [Steps -> TaskStatus \union {"none", "waiting"}]
        /\ outcome' \in [cancelled : BOOLEAN, ok : BOOLEAN, retry : BOOLEAN]
        /\ run' \in Phases \ {"created"}
    <3>1. mem' = [s \in Steps |-> "none"] /\ outcome' = NoOutcome /\ run' = "none"
      BY <1>10 DEF Crash
    <3>2. NoOutcome \in [cancelled : BOOLEAN, ok : BOOLEAN, retry : BOOLEAN]
      BY DEF NoOutcome
    <3> QED BY <3>1, <3>2 DEF Phases
  <2>3. clean' \in BOOLEAN /\ job' \in {"none", "waiting", "queued", "done", "failed"}
    BY <1>10 DEF Crash, TypeOK
  <2>4. RetriesLeft'
    BY <1>10 DEF Crash, RetriesLeft
  <2> QED BY <1>10, <2>1, <2>2, <2>3, <2>4 DEF Crash, TypeOK, FirstIsFirst
<1>11. CASE Recover
  <2>1. step' \in [Steps -> TaskStatus] /\ root' \in RootStatus
    <3>1. step \in [Steps -> TaskStatus] /\ "failed" \in TaskStatus /\ "ready" \in TaskStatus
          /\ root \in RootStatus /\ "failed" \in RootStatus
      BY DEF TypeOK, TaskStatus, RootStatus, Terminal
    <3>2. CASE clean
      BY <1>11, <3>1, <3>2 DEF Recover
    <3>3. CASE ~clean
      <4>1. PICK C \in SUBSET Stranded :
              step' = Mark(Mark(step, Stranded, "failed"), C, "ready")
        BY <1>11, <3>3 DEF Recover
      <4>2. Mark(step, Stranded, "failed") \in [Steps -> TaskStatus]
        BY <3>1, MarkType
      <4> QED BY <1>11, <3>1, <3>3, <4>1, <4>2, MarkType DEF Recover
    <3> QED BY <3>2, <3>3
  <2> QED BY <1>11, <2>1 DEF Recover, TypeOK, FirstIsFirst, RetriesLeft
<1>12. CASE Sweep
  <2>1. step' \in [Steps -> TaskStatus]
    <3>1. step \in [Steps -> TaskStatus] /\ "cancelled" \in TaskStatus
      BY DEF TypeOK, TaskStatus, Terminal
    <3> QED BY <1>12, <3>1, MarkType DEF Sweep
  <2> QED BY <1>12, <2>1 DEF Sweep, TypeOK, FirstIsFirst, RetriesLeft
<1>13. CASE Resume
  <2>1. /\ root' \in RootStatus /\ rootAttempts' \in 0 .. MaxRuns
        /\ run' \in Phases
        /\ mem' \in [Steps -> TaskStatus \union {"none", "waiting"}]
        /\ step' \in [Steps -> TaskStatus]
        /\ tries' \in [Steps -> 0 .. MaxRetries + 1]
        /\ retryable' \in SUBSET Steps
    <3>1. \/ Restart(Stranded, {})
          \/ UNCHANGED <<root, rootAttempts, step, tries, retryable, run, mem>>
      BY <1>13 DEF Resume
    <3> QED BY <3>1, RestartKeepsTypes DEF TypeOK
  <2>2. FirstIsFirst'
    BY <1>13 DEF Resume, Restart, Start, FirstIsFirst, Busy
  <2> QED BY <1>13, <2>1, <2>2 DEF Resume, TypeOK, RetriesLeft
<1>14. CASE UNCHANGED vars
  BY <1>14 DEF vars, TypeOK, FirstIsFirst, RetriesLeft
<1> QED BY <1>1, <1>2, <1>3, <1>4, <1>5, <1>6, <1>7, <1>8, <1>9, <1>10, <1>11, <1>12, <1>13,
           <1>14 DEF Next, RunActs, HandlerActs, BootActs

\* What the creator of the plan leaves is an initial state of the invariant.
LEMMA InitIInv == Init => IInv
<1> SUFFICES ASSUME Init PROVE IInv
  OBVIOUS
<1>1. TypeOK
  <2>1. deps \in [Steps -> SUBSET Steps]
    BY DEF Init
  <2>2. step \in [Steps -> TaskStatus] /\ mem \in [Steps -> TaskStatus \union {"none", "waiting"}]
    BY DEF Init, TaskStatus
  <2>3. tries \in [Steps -> 0 .. MaxRetries + 1]
    <3>1. tries = [s \in Steps |-> 0] /\ 0 \in 0 .. MaxRetries + 1
      BY AttemptsAssumption DEF Init
    <3> QED BY <3>1
  <2>4. outcome \in [cancelled : BOOLEAN, ok : BOOLEAN, retry : BOOLEAN]
        /\ result \in [success : BOOLEAN, retry : BOOLEAN]
    BY DEF Init, NoOutcome, NoResult
  <2>5. /\ rootAttempts \in 0 .. MaxRuns /\ failures \in 0 .. MaxFailures + 1
        /\ ends \in 0 .. MaxEnds /\ cancels \in 0 .. MaxCancels /\ messages \in Nat
    BY AttemptsAssumption, PlanBoundsAssumption DEF Init
  <2> QED BY <2>1, <2>2, <2>3, <2>4, <2>5 DEF Init, TypeOK, RootStatus, Phases
<1>2. FirstIsFirst /\ RetriesLeft
  BY PlanBoundsAssumption DEF Init, FirstIsFirst, RetriesLeft
<1>3. Order
  BY DEF Init, Order, NoStrandedPlan, CompletedIsOver, CompletedIsDelivered, DeliveredFirst,
         ResultSecond, NoResult
<1>4. Work
  BY DEF Init, Work, StepsRest, NothingDoneToDo, SuccessLasts, Successful, Ending, Unfinished
<1>5. Agreement
  BY DEF Init, Agreement, WaitEnds, DoneForGood, JobAgreesWithPlan
<1>6. NoGhosts
  BY DEF Init, NoGhosts, RunningIsRun, NoneRunning, LeftBehind
<1> QED BY <1>1, <1>2, <1>3, <1>4, <1>5, <1>6 DEF IInv

-----------------------------------------------------------------------------
\* A restart starts a run where there is none, leaves the run there is, or fails
\* the root: it never leaves a plan that has not ended without a run.
LEMMA RestartOutcome ==
  ASSUME NEW stranded, NEW failed, Restart(stranded, failed)
  PROVE  \/ run' = "executing" /\ root' = "running" /\ run = "none"
         \/ run # "none" /\ UNCHANGED <<run, root>>
         \/ root' = "failed" /\ run' = run
BY DEF Restart, Start

\* A plan belongs to a job or does not, for ever.
LEMMA ManagedStays == ASSUME [Next]_vars PROVE Managed' = Managed
<1>1. job' = job \/ (job # "none" /\ job' # "none")
  <2>1. CASE \E s \in Steps : StepActs(s) \/ CancelStep(s)
    BY <2>1 DEF StepActs, StepStarts, StepCompletes, StepRetries, StepFails, StepCancelled,
                CancelStep, scheduled
  <2>2. CASE RunActs
    BY <2>2 DEF RunActs, StartFirstRun, ReadOutcome, Verified, Deliver, PersistResult, Finish,
                RunThrows, RunOver, scheduled
  <2>3. CASE HandlerActs \/ Shutdown
    BY <2>3 DEF HandlerActs, HandlerEnters, HandlerLearns, Shutdown, HandlerWaits,
                HandlerGivesUp, HandlerThrows, scheduled
  <2>4. CASE CancelRoot \/ Crash
    BY <2>4 DEF CancelRoot, Crash, scheduled
  <2>5. CASE BootActs \/ UNCHANGED vars
    BY <2>5 DEF BootActs, Recover, Sweep, Resume, vars, scheduled
  <2> QED BY <2>1, <2>2, <2>3, <2>4, <2>5 DEF Next
<1> QED BY <1>1 DEF Managed

\* The run's writes keep their order.
LEMMA OrderInductive == ASSUME IInv, [Next]_vars PROVE Order'
<1> USE DEF Order, NoStrandedPlan, CompletedIsOver, CompletedIsDelivered, DeliveredFirst,
            ResultSecond, Terminal
<1>0. Order /\ Managed' = Managed
  BY ManagedStays DEF IInv
<1>1. CASE UNCHANGED <<root, run, process, result, messages, outcome>>
  BY <1>0, <1>1
<1>2. CASE StartFirstRun
  BY <1>2 DEF StartFirstRun, Start
<1>3. CASE \E b \in BOOLEAN : ReadOutcome(b) \/ Verified(b)
  <2>1. PICK b \in BOOLEAN : ReadOutcome(b) \/ Verified(b)
    BY <1>3
  <2>2. run' \in {"verifying", "concluding"} /\ root' = root /\ root # "completed"
    BY <2>1, <1>0 DEF ReadOutcome, Verified, rows
  <2> QED BY <2>2
<1>4. CASE Deliver
  <2>1. /\ run' = "delivered" /\ root' = root /\ root # "completed" /\ outcome' = outcome
        /\ (~outcome.cancelled /\ ~Managed => messages' = messages + 1)
    BY <1>0, <1>4 DEF Deliver, rows
  <2>2. messages + 1 > 0
    BY DEF IInv, TypeOK
  <2> QED BY <1>0, <2>1, <2>2
<1>5. CASE PersistResult
  <2>1. /\ run = "delivered" /\ run' = "persisted" /\ UNCHANGED <<root, messages, outcome>>
        /\ root # "completed" /\ result' = [success |-> outcome.ok, retry |-> outcome.retry]
    BY <1>0, <1>5 DEF PersistResult
  <2>2. result'.success = outcome.ok
    BY <2>1
  <2> QED BY <1>0, <2>1, <2>2
<1>6. CASE Finish
  <2>1. /\ run = "persisted" /\ run' = "none" /\ UNCHANGED <<result, messages>>
        /\ root' = FinalStatus
    BY <1>6 DEF Finish, RunOver
  <2>2. FinalStatus = "completed" => outcome.ok /\ ~outcome.cancelled
    BY DEF FinalStatus
  <2>3. FinalStatus \in Terminal
    BY DEF FinalStatus
  <2> QED BY <1>0, <2>1, <2>2, <2>3
<1>7. CASE RunThrows
  BY <1>7 DEF RunThrows, RunOver
<1>8. CASE HandlerEnters
  <2>1. UNCHANGED <<process, result, messages, outcome>>
    BY <1>8 DEF HandlerEnters, boot
  <2>2. \/ Restart({}, ToRetry) \/ Restart(Stranded, {})
        \/ UNCHANGED <<root, run>>
    BY <1>8 DEF HandlerEnters
  <2>3. \/ run' = "executing" /\ root' = "running"
        \/ UNCHANGED <<run, root>>
        \/ root' = "failed" /\ run' = run
    BY <2>2, RestartOutcome
  <2> QED BY <1>0, <2>1, <2>3
<1>9. CASE CancelRoot
  BY <1>0, <1>9 DEF CancelRoot, boot
<1>10. CASE Crash
  BY <1>0, <1>10 DEF Crash, rows
<1>11. CASE Recover \/ Sweep
  <2>1. /\ process' \in {"recovered", "swept"} /\ root' \in {root, "failed"}
        /\ UNCHANGED <<run, result, messages, outcome>>
    BY <1>11 DEF Recover, Sweep
  <2> QED BY <1>0, <2>1
<1>12. CASE Resume
  <2>1. UNCHANGED <<result, messages, outcome>>
    BY <1>12 DEF Resume
  <2>2. \/ root \in Terminal /\ UNCHANGED <<root, run>>
        \/ Restart(Stranded, {})
    BY <1>12 DEF Resume
  <2>3. \/ root \in Terminal /\ UNCHANGED <<root, run>>
        \/ run' = "executing" /\ root' = "running"
        \/ run # "none" /\ UNCHANGED <<run, root>>
        \/ root' = "failed" /\ run' = run
    BY <2>2, RestartOutcome
  <2> QED BY <1>0, <2>1, <2>3
<1>13. CASE \E s \in Steps : StepActs(s) \/ CancelStep(s)
  <2>1. UNCHANGED <<root, run, process, result, messages, outcome>>
    BY <1>13 DEF StepActs, StepStarts, StepCompletes, StepRetries, StepFails, StepCancelled,
                 CancelStep, boot
  <2> QED BY <2>1, <1>1
<1>14. CASE HandlerLearns \/ Shutdown
  <2>1. UNCHANGED <<root, run, process, result, messages, outcome>>
    BY <1>14 DEF HandlerLearns, Shutdown, rows, boot
  <2> QED BY <2>1, <1>1
<1>15. CASE UNCHANGED vars
  <2>1. UNCHANGED <<root, run, process, result, messages, outcome>>
    BY <1>15 DEF vars, rows, boot
  <2> QED BY <2>1, <1>1
<1> QED BY <1>2, <1>3, <1>4, <1>5, <1>6, <1>7, <1>8, <1>9, <1>10, <1>11, <1>12, <1>13, <1>14,
           <1>15 DEF Next, RunActs, HandlerActs, BootActs

-----------------------------------------------------------------------------
\* No row but a completed one reads "completed" after a restart.
LEMMA RestartRows ==
  ASSUME NEW stranded, NEW failed, Restart(stranded, failed), NEW s \in Steps
  PROVE  /\ step'[s] = "completed" => step[s] = "completed"
         /\ step[s] = "completed" /\ s \notin stranded /\ s \notin failed
              => step'[s] = "completed"
<1> DEFINE table == Mark(Mark(step, stranded, "ready"), failed, "pending")
<1>1. step' = table \/ step' = step
  BY DEF Restart
<1>2. table[s] = IF s \in failed THEN "pending" ELSE IF s \in stranded THEN "ready" ELSE step[s]
  BY MarkValue
<1> HIDE DEF table
<1> QED BY <1>1, <1>2

\* What a started run is given to do is not done.
LEMMA StartWork ==
  ASSUME NEW table, Start(table), NEW s \in Steps,
         mem[s] \notin Unfinished, mem'[s] \in Unfinished
  PROVE  table[s] # "completed"
<1>1. mem'[s] = IF s \in Incomplete(table) THEN "waiting" ELSE mem[s]
  BY MarkValue DEF Start
<1> QED BY <1>1 DEF Incomplete, Terminal

\* A restart hands over no completed step, and leaves no work to a run that is over.
LEMMA RestartWork ==
  ASSUME NEW stranded, NEW failed, Restart(stranded, failed), StepsRest, NothingDoneToDo
  PROVE  StepsRest' /\ NothingDoneToDo'
<1>1. CASE UNCHANGED <<run, mem>>
  <2>1. StepsRest'
    BY <1>1 DEF StepsRest
  <2>2. NothingDoneToDo'
    BY <1>1, RestartRows DEF NothingDoneToDo
  <2> QED BY <2>1, <2>2
<1>2. CASE ~UNCHANGED <<run, mem>>
  <2> DEFINE table == Mark(Mark(step, stranded, "ready"), failed, "pending")
  <2>1. run = "none" /\ Start(table) /\ step' = table
    BY <1>2 DEF Restart
  <2> HIDE DEF table
  <2>2. StepsRest'
    BY <2>1 DEF Start, StepsRest
  <2>3. ASSUME NEW s \in Steps, mem'[s] \in Unfinished PROVE step'[s] # "completed"
    <3>1. mem[s] \notin Unfinished
      BY <2>1 DEF StepsRest
    <3> QED BY <2>1, <2>3, <3>1, StartWork
  <2> QED BY <2>2, <2>3 DEF NothingDoneToDo
<1> QED BY <1>1, <1>2

\* What executeDag() writes leaves nothing done to do.
LEMMA StepWritesWork ==
  ASSUME TypeOK, NothingDoneToDo, NEW t \in Steps, NEW D, NEW status, NEW end,
         end \in {"blocked", "cancelled", ""}, StepWrites(t, status, D, end)
  PROVE  NothingDoneToDo'
<1> SUFFICES ASSUME NEW s \in Steps, mem'[s] \in Unfinished PROVE step'[s] # "completed"
  BY DEF NothingDoneToDo
<1>1. /\ mem'[s] = IF s = t THEN status ELSE IF s \in D THEN end ELSE mem[s]
      /\ step'[s] = IF s = t THEN status ELSE IF s \in D THEN end ELSE step[s]
  <2>1. /\ mem' = [Mark(mem, D, end) EXCEPT ![t] = status]
        /\ step' = [Mark(step, D, end) EXCEPT ![t] = status]
    BY DEF StepWrites
  <2> QED BY <2>1 DEF Mark
<1> QED BY <1>1 DEF NothingDoneToDo, Unfinished

\* A step of the plan is run, retried or ended only by the run under way.
LEMMA StepActsWork ==
  ASSUME IInv, NEW t \in Steps, StepActs(t)
  PROVE  run = "executing" /\ run' = run /\ NothingDoneToDo'
<1>1. TypeOK /\ NothingDoneToDo /\ StepsRest
  BY DEF IInv, Work
<1>2. mem[t] \in Unfinished /\ run' = run
  BY DEF StepActs, StepStarts, StepCompletes, StepRetries, StepFails, StepCancelled, Unfinished
<1>3. run = "executing"
  BY <1>1, <1>2 DEF StepsRest
<1>4. CASE StepRetries(t)
  <2>1. mem' = [mem EXCEPT ![t] = "waiting"] /\ step' = [step EXCEPT ![t] = "pending"]
    BY <1>4 DEF StepRetries
  <2>2. NothingDoneToDo'
    BY <1>1, <2>1 DEF NothingDoneToDo, TypeOK
  <2> QED BY <1>2, <1>3, <2>2
<1>5. CASE ~StepRetries(t)
  <2>1. \/ StepWrites(t, "running", {}, "") \/ StepWrites(t, "completed", {}, "")
        \/ StepWrites(t, "failed", WaitingAfter(t), "blocked")
        \/ StepWrites(t, "cancelled", WaitingAfter(t), "cancelled")
    BY <1>5 DEF StepActs, StepStarts, StepCompletes, StepFails, StepCancelled
  <2>2. NothingDoneToDo'
    BY <1>1, <2>1, StepWritesWork
  <2> QED BY <1>2, <1>3, <2>2
<1> QED BY <1>4, <1>5

\* A cancellation reaches no completed step but the one it is for.
LEMMA CancelStepRows ==
  ASSUME NEW t \in Steps, CancelStep(t), NEW s \in Steps
  PROVE  /\ step'[s] = "completed" => step[s] = "completed"
         /\ step[s] = "completed" => step'[s] = "completed" \/ (s \in requested' /\ step'[s] = "cancelled")
         /\ s \in requested => s \in requested'
<1> DEFINE S == {t} \union Reach(t, StepsIn({"pending", "ready"}))
<1>1. requested' = requested \union {t} /\ step' = Mark(step, S, "cancelled")
  BY DEF CancelStep
<1>2. step[s] = "completed" /\ s \in S => s = t
  BY ReachWithin DEF StepsIn
<1> HIDE DEF S
<1>3. step'[s] = IF s \in S THEN "cancelled" ELSE step[s]
  BY <1>1, MarkValue
<1> QED BY <1>1, <1>2, <1>3

\* Boot leaves completed rows completed and completes none.
LEMMA BootRows ==
  ASSUME Recover \/ Sweep, NEW s \in Steps
  PROVE  step'[s] = "completed" <=> step[s] = "completed"
<1>1. CASE Sweep
  <2>1. step' = step \/ step' = Mark(step, StepsIn(TaskStatus \ Terminal), "cancelled")
    BY <1>1 DEF Sweep
  <2>2. step[s] = "completed" => s \notin StepsIn(TaskStatus \ Terminal)
    BY DEF StepsIn, Terminal
  <2> QED BY <2>1, <2>2, MarkValue
<1>2. CASE Recover /\ ~clean
  <2>1. PICK C \in SUBSET Stranded : step' = Mark(Mark(step, Stranded, "failed"), C, "ready")
    BY <1>2 DEF Recover
  <2>2. step'[s] = IF s \in C THEN "ready" ELSE IF s \in Stranded THEN "failed" ELSE step[s]
    BY <2>1, MarkValue
  <2>3. step[s] = "completed" => s \notin Stranded
    BY DEF Stranded, StepsIn
  <2> QED BY <2>1, <2>2, <2>3
<1>3. CASE Recover /\ clean
  BY <1>3 DEF Recover
<1> QED BY <1>1, <1>2, <1>3

\* What the run has to do, has done and has seen stay in agreement.
LEMMA WorkInductive == ASSUME IInv, [Next]_vars PROVE Work'
<1>0. TypeOK /\ StepsRest /\ NothingDoneToDo /\ SuccessLasts
  BY DEF IInv, Work
<1>1. CASE \E s \in Steps : StepActs(s)
  <2>1. run = "executing" /\ run' = run /\ NothingDoneToDo'
    BY <1>1, StepActsWork
  <2> QED BY <2>1 DEF Work, StepsRest, SuccessLasts, Successful, Ending
<1>2. CASE \E t \in Steps : CancelStep(t)
  <2>1. PICK t \in Steps : CancelStep(t)
    BY <1>2
  <2>2. UNCHANGED <<mem, run, outcome>>
    BY <2>1 DEF CancelStep
  <2>3. StepsRest' /\ NothingDoneToDo'
    BY <1>0, <2>1, <2>2, CancelStepRows DEF StepsRest, NothingDoneToDo
  <2>4. SuccessLasts'
    BY <1>0, <2>1, <2>2, CancelStepRows DEF SuccessLasts, Successful
  <2> QED BY <2>3, <2>4 DEF Work
<1>3. CASE StartFirstRun
  <2>1. Start(step) /\ step' = step /\ run = "created" /\ run' = "executing"
    BY <1>3 DEF StartFirstRun, Start
  <2>2. StepsRest' /\ SuccessLasts'
    BY <2>1 DEF StepsRest, SuccessLasts, Successful, Ending
  <2>3. ASSUME NEW s \in Steps, mem'[s] \in Unfinished PROVE step'[s] # "completed"
    <3>1. mem[s] \notin Unfinished
      BY <1>0, <2>1 DEF StepsRest
    <3> QED BY <2>1, <2>3, <3>1, StartWork
  <2> QED BY <2>2, <2>3 DEF Work, NothingDoneToDo
<1>4. CASE \E b \in BOOLEAN : ReadOutcome(b) \/ Verified(b)
  <2>1. PICK b \in BOOLEAN : ReadOutcome(b) \/ Verified(b)
    BY <1>4
  <2>2. /\ \A s \in Steps : mem[s] \notin Unfinished
        /\ UNCHANGED <<mem, step, requested>>
    BY <1>0, <2>1 DEF ReadOutcome, Verified, rows, StepsRest
  <2>3. Successful' => AllCompleted \/ Successful
    <3>1. CASE ReadOutcome(b)
      <4>1. /\ outcome'.ok = (b /\ AllCompleted)
            /\ run' = IF b /\ AllCompleted THEN "verifying" ELSE "concluding"
        BY <3>1 DEF ReadOutcome
      <4> QED BY <4>1 DEF Successful
    <3>2. CASE Verified(b)
      BY <3>2 DEF Verified, Successful
    <3> QED BY <2>1, <3>1, <3>2
  <2> QED BY <1>0, <2>2, <2>3 DEF Work, StepsRest, NothingDoneToDo, SuccessLasts, AllCompleted
<1>5. CASE Deliver \/ PersistResult
  <2>1. /\ UNCHANGED <<mem, step, requested, outcome>>
        /\ run \in Ending \ {"verifying"} /\ run' \in Ending \ {"verifying"}
    BY <1>5 DEF Deliver, PersistResult, rows, Ending
  <2> QED BY <1>0, <2>1 DEF Work, StepsRest, NothingDoneToDo, SuccessLasts, Successful, Ending
<1>6. CASE Finish \/ RunThrows \/ Crash
  <2>1. run' = "none" /\ mem' = [s \in Steps |-> "none"]
    BY <1>6 DEF Finish, RunThrows, RunOver, Crash
  <2> QED BY <2>1 DEF Work, StepsRest, NothingDoneToDo, SuccessLasts, Successful, Ending, Unfinished
<1>7. CASE HandlerEnters
  <2>1. \/ run = "none" /\ (Restart({}, ToRetry) \/ Restart(Stranded, {}))
        \/ UNCHANGED <<step, run, mem>>
    BY <1>7 DEF HandlerEnters
  <2>2. UNCHANGED <<outcome, requested>>
    BY <1>7 DEF HandlerEnters
  <2>3. CASE UNCHANGED <<step, run, mem>>
    BY <1>0, <2>2, <2>3 DEF Work, StepsRest, NothingDoneToDo, SuccessLasts, Successful
  <2>4. CASE run = "none" /\ (Restart({}, ToRetry) \/ Restart(Stranded, {}))
    <3>1. run' \in {"none", "executing"}
      BY <2>4, RestartOutcome
    <3>2. SuccessLasts'
      BY <3>1 DEF SuccessLasts, Successful, Ending
    <3> QED BY <1>0, <2>4, <3>2, RestartWork DEF Work
  <2> QED BY <2>1, <2>3, <2>4
<1>8. CASE HandlerLearns \/ Shutdown \/ CancelRoot \/ UNCHANGED vars
  <2>1. UNCHANGED <<step, run, mem, outcome, requested>>
    BY <1>8 DEF HandlerLearns, Shutdown, CancelRoot, vars, rows
  <2> QED BY <1>0, <2>1 DEF Work, StepsRest, NothingDoneToDo, SuccessLasts, Successful
<1>9. CASE Recover \/ Sweep
  <2>1. UNCHANGED <<run, mem, outcome, requested>>
    BY <1>9 DEF Recover, Sweep
  <2>2. \A s \in Steps : step'[s] = "completed" <=> step[s] = "completed"
    BY <1>9, BootRows
  <2> QED BY <1>0, <2>1, <2>2 DEF Work, StepsRest, NothingDoneToDo, SuccessLasts, Successful
<1>10. CASE Resume
  <2>1. UNCHANGED <<outcome, requested>>
    BY <1>10 DEF Resume
  <2>2. UNCHANGED <<step, run, mem>> \/ Restart(Stranded, {})
    BY <1>10 DEF Resume
  <2>3. CASE UNCHANGED <<step, run, mem>>
    BY <1>0, <2>1, <2>3 DEF Work, StepsRest, NothingDoneToDo, SuccessLasts, Successful
  <2>4. CASE Restart(Stranded, {})
    <3>1. run' \in {run, "executing"}
      BY <2>4, RestartOutcome
    <3>2. \A s \in Steps : step[s] = "completed" => step'[s] = "completed"
      BY <2>4, RestartRows DEF Stranded, StepsIn
    <3>3. SuccessLasts'
      BY <1>0, <2>1, <3>1, <3>2 DEF SuccessLasts, Successful, Ending
    <3> QED BY <1>0, <2>4, <3>3, RestartWork DEF Work
  <2> QED BY <2>2, <2>3, <2>4
<1> QED BY <1>1, <1>2, <1>3, <1>4, <1>5, <1>6, <1>7, <1>8, <1>9, <1>10
        DEF Next, RunActs, HandlerActs, BootActs

\* The job and its plan stay in agreement.
LEMMA AgreementInductive == ASSUME IInv, [Next]_vars PROVE Agreement'
<1> USE DEF Agreement, WaitEnds, DoneForGood, JobAgreesWithPlan
<1>0. TypeOK /\ RetriesLeft /\ NoStrandedPlan /\ Agreement
  BY DEF IInv, Order
<1>1. CASE UNCHANGED <<root, run, result, job, failures>>
  BY <1>0, <1>1
<1>2. CASE StartFirstRun
  BY <1>0, <1>2 DEF StartFirstRun, Start, scheduled
<1>3. CASE \E b \in BOOLEAN : ReadOutcome(b) \/ Verified(b)
  <2>1. PICK b \in BOOLEAN : ReadOutcome(b) \/ Verified(b)
    BY <1>3
  <2>2. run # "none" /\ run' # "none" /\ UNCHANGED <<root, result, job, failures>>
    BY <2>1 DEF ReadOutcome, Verified, rows, scheduled
  <2> QED BY <1>0, <2>2
<1>4. CASE Deliver \/ PersistResult
  BY <1>0, <1>4 DEF Deliver, PersistResult, rows, scheduled
<1>5. CASE Finish \/ RunThrows
  <2>1. /\ run # "none" /\ run' = "none" /\ root' \in Terminal
        /\ UNCHANGED <<job, failures>>
    BY <1>5 DEF Finish, RunThrows, RunOver, FinalStatus, Terminal, scheduled
  <2> QED BY <1>0, <2>1
<1>6. CASE HandlerEnters
  <2>1. /\ result' = result /\ job = "queued"
        /\ job' \in {"waiting", "queued", "failed"}
    BY <1>6 DEF HandlerEnters, HandlerWaits, HandlerGivesUp, HandlerThrows
  <2>2. WaitEnds'
    <3>1. ASSUME job' = "waiting" PROVE run' = "none" => root' \in Terminal
      <4>1. \/ Restart({}, ToRetry) \/ Restart(Stranded, {})
            \/ /\ run # "none" \/ root \in {"completed", "cancelled"}
               /\ UNCHANGED <<root, run>>
        BY <1>6, <3>1 DEF HandlerEnters, HandlerGivesUp
      <4> QED BY <4>1, RestartOutcome DEF Terminal
    <3> QED BY <3>1
  <2>3. job' = "failed" => failures' > MaxFailures \/ (run' = "none" /\ root' \in Terminal)
    <3>1. ASSUME HandlerThrows, job' = "failed" PROVE failures' > MaxFailures
      BY <1>0, <3>1, PlanBoundsAssumption DEF HandlerThrows, TypeOK
    <3>2. CASE run = "none" /\ root = "failed" /\ ~result.retry
      BY <1>6, <3>2 DEF HandlerEnters, Terminal
    <3>3. CASE ~(run = "none" /\ root = "failed" /\ ~result.retry)
      <4>1. HandlerWaits \/ HandlerThrows
        BY <1>6, <3>3 DEF HandlerEnters
      <4> QED BY <3>1, <4>1 DEF HandlerWaits
    <3> QED BY <3>2, <3>3
  <2> QED BY <2>1, <2>2, <2>3
<1>7. CASE HandlerLearns
  <2>1. job = "waiting" /\ run = "none" /\ root \in Terminal /\ UNCHANGED <<root, run, result>>
    BY <1>0, <1>7 DEF HandlerLearns, rows
  <2>2. job' # "waiting" /\ (job' = "done" => result.success)
    BY <1>7 DEF HandlerLearns, HandlerThrows, HandlerGivesUp
  <2> QED BY <2>1, <2>2
<1>8. CASE Shutdown
  <2>1. UNCHANGED <<root, run, result>>
    BY <1>8 DEF Shutdown, rows
  <2>2. CASE job = "waiting"
    <3>1. HandlerThrows
      BY <1>8, <2>2 DEF Shutdown
    <3>2. job' \in {"queued", "failed"} /\ (job' = "failed" => failures' > MaxFailures)
      BY <1>0, <3>1, PlanBoundsAssumption DEF HandlerThrows, TypeOK
    <3> QED BY <2>1, <3>2
  <2>3. CASE job # "waiting"
    <3>1. UNCHANGED <<job, failures>>
      BY <1>8, <2>3 DEF Shutdown, scheduled
    <3> QED BY <1>0, <2>1, <2>3, <3>1
  <2> QED BY <2>2, <2>3
<1>9. CASE CancelRoot
  BY <1>0, <1>9 DEF CancelRoot, Terminal, scheduled
<1>10. CASE Crash
  <2>1. /\ run' = "none" /\ UNCHANGED <<root, result, failures>>
        /\ job' = IF job = "waiting" THEN "queued" ELSE job
    BY <1>10 DEF Crash, rows
  <2> QED BY <1>0, <2>1
<1>11. CASE Recover \/ Sweep
  <2>1. /\ UNCHANGED <<run, result, job, failures>>
        /\ root \in Terminal => root' = root
    BY <1>11 DEF Recover, Sweep, Terminal, scheduled
  <2> QED BY <1>0, <2>1
<1>12. CASE Resume
  <2>1. UNCHANGED <<result, job, failures>>
    BY <1>12 DEF Resume, scheduled
  <2>2. \/ UNCHANGED <<root, run>>
        \/ root \notin Terminal /\ Restart(Stranded, {})
    BY <1>12 DEF Resume
  <2>3. \/ UNCHANGED <<root, run>>
        \/ root \notin Terminal /\ (run' # "none" \/ (root' = "failed" /\ run' = run))
    BY <2>2, RestartOutcome
  <2>4. job = "failed" /\ root \notin Terminal => failures > MaxFailures
    BY <1>0
  <2>5. "failed" \in Terminal
    BY DEF Terminal
  <2> QED BY <1>0, <2>1, <2>3, <2>4, <2>5
<1>13. CASE \E s \in Steps : StepActs(s) \/ CancelStep(s)
  <2>1. UNCHANGED <<root, run, result, job, failures>>
    BY <1>13 DEF StepActs, StepStarts, StepCompletes, StepRetries, StepFails, StepCancelled,
                 CancelStep, scheduled
  <2> QED BY <2>1, <1>1
<1>14. CASE UNCHANGED vars
  <2>1. UNCHANGED <<root, run, result, job, failures>>
    BY <1>14 DEF vars, rows, scheduled
  <2> QED BY <2>1, <1>1
<1> QED BY <1>2, <1>3, <1>4, <1>5, <1>6, <1>7, <1>8, <1>9, <1>10, <1>11, <1>12, <1>13, <1>14
        DEF Next, RunActs, HandlerActs, BootActs

\* A restart after an interruption leaves no row running, or fails a root whose
\* attempts are used up.
LEMMA RestartGhosts ==
  ASSUME TypeOK, Restart(Stranded, {})
  PROVE  \/ /\ \A s \in Steps : step'[s] # "running"
            /\ run' # "none"
         \/ /\ root' = "failed" /\ rootAttempts' >= MaxRuns
            /\ UNCHANGED <<step, run, mem>>
<1> DEFINE table == Mark(Mark(step, Stranded, "ready"), {}, "pending")
<1>1. ASSUME NEW s \in Steps PROVE table[s] # "running"
  <2>1. table[s] = IF s \in Stranded THEN "ready" ELSE step[s]
    BY MarkValue
  <2>2. s \notin Stranded => step[s] # "running"
    BY DEF Stranded, StepsIn
  <2> QED BY <2>1, <2>2
<1> HIDE DEF table
<1>2. \/ step' = table /\ run' # "none"
      \/ /\ root' = "failed" /\ rootAttempts' = rootAttempts /\ rootAttempts >= MaxRuns
         /\ UNCHANGED <<step, run, mem>>
  BY DEF Restart, Start, table
<1> QED BY <1>1, <1>2

\* What executeDag() writes of the steps keeps a running row one it runs.
LEMMA StepActsRunning ==
  ASSUME IInv, NEW t \in Steps, StepActs(t)
  PROVE  RunningIsRun'
<1>1. run = "executing" /\ run' = run
  BY StepActsWork
<1>2. TypeOK /\ \A s \in Steps : step[s] = "running" => mem[s] = "running"
  BY <1>1 DEF IInv, NoGhosts, RunningIsRun
<1>3. CASE StepRetries(t)
  <2>1. mem' = [mem EXCEPT ![t] = "waiting"] /\ step' = [step EXCEPT ![t] = "pending"]
    BY <1>3 DEF StepRetries
  <2> QED BY <1>2, <2>1 DEF RunningIsRun, TypeOK
<1>4. CASE ~StepRetries(t)
  <2>1. PICK status, D, end : StepWrites(t, status, D, end)
    BY <1>4 DEF StepActs, StepStarts, StepCompletes, StepFails, StepCancelled
  <2>2. ASSUME NEW s \in Steps
        PROVE  /\ mem'[s] = IF s = t THEN status ELSE IF s \in D THEN end ELSE mem[s]
               /\ step'[s] = IF s = t THEN status ELSE IF s \in D THEN end ELSE step[s]
    <3>1. /\ mem' = [Mark(mem, D, end) EXCEPT ![t] = status]
          /\ step' = [Mark(step, D, end) EXCEPT ![t] = status]
      BY <2>1 DEF StepWrites
    <3> QED BY <3>1 DEF Mark
  <2> QED BY <1>2, <2>2 DEF RunningIsRun
<1> QED BY <1>3, <1>4

\* No row is left running where nobody will look at it, but for the two ends
\* NoGhostStep names.
LEMMA NoGhostsInductive == ASSUME IInv, [Next]_vars PROVE NoGhosts'
<1> USE DEF NoGhosts, RunningIsRun, NoneRunning, LeftBehind
<1>0. TypeOK /\ NoGhosts /\ NoStrandedPlan
  BY DEF IInv, Order
<1>1. CASE UNCHANGED <<root, rootAttempts, step, run, mem, process>>
  BY <1>0, <1>1 DEF Serving
<1>2. CASE \E s \in Steps : StepActs(s)
  <2>1. run = "executing" /\ run' = run /\ RunningIsRun'
    BY <1>2, StepActsWork, StepActsRunning
  <2> QED BY <2>1
<1>3. CASE \E t \in Steps : CancelStep(t)
  <2>1. PICK t \in Steps : CancelStep(t)
    BY <1>3
  <2>2. \A s \in Steps : step'[s] = "running" => step[s] = "running"
    BY <2>1, MarkValue DEF CancelStep
  <2>3. UNCHANGED <<root, rootAttempts, run, mem, process>>
    BY <2>1 DEF CancelStep, boot
  <2> QED BY <1>0, <2>2, <2>3 DEF Serving
<1>4. CASE StartFirstRun
  <2>1. step' = step /\ run = "created" /\ run' = "executing"
    BY <1>4 DEF StartFirstRun, Start
  <2> QED BY <1>0, <2>1
<1>5. CASE \E b \in BOOLEAN : ReadOutcome(b) \/ Verified(b)
  <2>1. PICK b \in BOOLEAN : ReadOutcome(b) \/ Verified(b)
    BY <1>5
  <2>2. step' = step /\ run' \in {"verifying", "concluding"}
    BY <2>1 DEF ReadOutcome, Verified, rows
  <2>3. \A s \in Steps : step[s] # "running"
    BY <1>0, <2>1 DEF ReadOutcome, Verified, Unfinished
  <2> QED BY <2>2, <2>3
<1>6. CASE Deliver \/ PersistResult
  <2>1. step' = step /\ run \notin {"none", "executing"} /\ run' \notin {"none", "executing"}
    BY <1>6 DEF Deliver, PersistResult, rows
  <2> QED BY <1>0, <2>1
<1>7. CASE Finish \/ RunThrows
  <2>1. step' = step /\ run \notin {"none", "executing"} /\ run' = "none"
    BY <1>7 DEF Finish, RunThrows, RunOver
  <2> QED BY <1>0, <2>1
<1>8. CASE HandlerEnters
  <2>1. Serving /\ process' = process
    BY <1>8 DEF HandlerEnters, boot
  <2>2. \/ UNCHANGED <<root, rootAttempts, step, run, mem>>
        \/ run = "none" /\ root = "failed" /\ Restart({}, ToRetry)
        \/ run = "none" /\ Restart(Stranded, {})
    BY <1>8 DEF HandlerEnters
  <2>3. CASE UNCHANGED <<root, rootAttempts, step, run, mem>>
    BY <1>1, <2>1, <2>3
  <2>4. CASE run = "none" /\ root = "failed" /\ Restart({}, ToRetry)
    <3>1. CASE rootAttempts >= MaxRuns
      <4>1. ~(rootAttempts < MaxRuns)
        BY <1>0, <3>1, AttemptsAssumption DEF TypeOK
      <4>2. root' = "failed" /\ UNCHANGED <<rootAttempts, run>>
        BY <2>4, <4>1 DEF Restart
      <4> QED BY <2>4, <3>1, <4>2
    <3>2. CASE ~(rootAttempts >= MaxRuns)
      <4>1. \A s \in Steps : step[s] # "running"
        BY <1>0, <2>1, <2>4, <3>2 DEF Terminal
      <4>2. step' = Mark(Mark(step, {}, "ready"), ToRetry, "pending")
        BY <3>2, <2>4 DEF Restart
      <4>3. \A s \in Steps : step'[s] # "running"
        BY <4>1, <4>2, MarkValue
      <4> QED BY <4>3
    <3> QED BY <3>1, <3>2
  <2>5. CASE run = "none" /\ Restart(Stranded, {})
    BY <1>0, <2>5, RestartGhosts
  <2> QED BY <2>2, <2>3, <2>4, <2>5
<1>9. CASE CancelRoot
  <2>1. root' = "cancelled" /\ UNCHANGED <<step, run, mem>>
    BY <1>9 DEF CancelRoot
  <2> QED BY <1>0, <2>1
<1>10. CASE Crash
  <2>1. run' = "none" /\ process' = "down"
    BY <1>10 DEF Crash
  <2> QED BY <2>1 DEF Serving
<1>11. CASE Recover
  <2>1. /\ UNCHANGED <<run, mem>> /\ process' = "recovered"
        /\ \A s \in Steps : step'[s] = "running" => step[s] = "running"
    <3>1. step' = step \/ \E C \in SUBSET Stranded :
                            step' = Mark(Mark(step, Stranded, "failed"), C, "ready")
      BY <1>11 DEF Recover
    <3> QED BY <1>11, <3>1, MarkValue DEF Recover
  <2> QED BY <1>0, <2>1 DEF Serving
<1>12. CASE Sweep
  <2>1. UNCHANGED <<root, rootAttempts, run, mem>> /\ process' = "swept"
    BY <1>12 DEF Sweep
  <2>2. CASE root \in Terminal
    <3>1. step' = Mark(step, StepsIn(TaskStatus \ Terminal), "cancelled")
      BY <1>12, <2>2 DEF Sweep
    <3>2. ASSUME NEW s \in Steps PROVE step'[s] # "running"
      <4>1. step[s] = "running" => s \in StepsIn(TaskStatus \ Terminal)
        BY DEF StepsIn, TaskStatus, Terminal
      <4> QED BY <3>1, <4>1, MarkValue
    <3> QED BY <3>2
  <2>3. CASE root \notin Terminal
    <3>1. step' = step
      BY <1>12, <2>3 DEF Sweep
    <3> QED BY <1>0, <2>1, <2>3, <3>1
  <2> QED BY <2>2, <2>3
<1>13. CASE Resume
  <2>1. process = "swept" /\ process' = "up"
    BY <1>13 DEF Resume
  <2>2. \/ root \in Terminal /\ UNCHANGED <<root, rootAttempts, step, run, mem>>
        \/ Restart(Stranded, {})
    BY <1>13 DEF Resume
  <2>3. CASE root \in Terminal /\ UNCHANGED <<root, rootAttempts, step, run, mem>>
    BY <1>0, <2>1, <2>3 DEF Serving
  <2>4. CASE Restart(Stranded, {})
    BY <1>0, <2>4, RestartGhosts
  <2> QED BY <2>2, <2>3, <2>4
<1>14. CASE HandlerLearns \/ Shutdown \/ UNCHANGED vars
  <2>1. UNCHANGED <<root, rootAttempts, step, run, mem, process>>
    BY <1>14 DEF HandlerLearns, Shutdown, vars, rows, boot
  <2> QED BY <1>1, <2>1
<1> QED BY <1>2, <1>3, <1>4, <1>5, <1>6, <1>7, <1>8, <1>9, <1>10, <1>11, <1>12, <1>13, <1>14
        DEF Next, RunActs, HandlerActs, BootActs

-----------------------------------------------------------------------------
\* The invariant, for every plan, cap and number of ends of the process.
THEOREM PlanInvariant == Spec => []IInv
<1>1. Init => IInv
  BY InitIInv
<1>2. IInv /\ [Next]_vars => IInv'
  BY TypeInductive, OrderInductive, WorkInductive, AgreementInductive,
     NoGhostsInductive DEF IInv
<1> QED BY <1>1, <1>2, PTL DEF Spec

\* The rows, the run and the job keep their shape, the attempts their caps.
THEOREM PlanTypeCorrect == Spec => []TypeOK
<1>1. IInv => TypeOK
  BY DEF IInv
<1> QED BY <1>1, PlanInvariant, PTL

\* After the resume pass no plan is left in the table that nobody runs, for
\* every sequence of crashes, shutdowns and restarts.
THEOREM PlanNotStranded == Spec => []NoStrandedPlan
<1>1. IInv => NoStrandedPlan
  BY DEF IInv, Order
<1> QED BY <1>1, PlanInvariant, PTL

\* The root is marked completed after its result is kept and its message is
\* out, wherever the process may end between the three writes.
THEOREM PlanCompletedIsDelivered == Spec => []CompletedIsDelivered
<1>1. IInv => CompletedIsDelivered
  BY DEF IInv, Order
<1> QED BY <1>1, PlanInvariant, PTL

\* The scheduled job and the plan it waits for agree on how it ended.
THEOREM PlanJobAgrees == Spec => []JobAgreesWithPlan
<1>1. IInv => JobAgreesWithPlan
  BY DEF IInv, Agreement
<1> QED BY <1>1, PlanInvariant, PTL

\* No restart, retry or recovery runs a completed step again.
THEOREM PlanWorkNotRepeated == Spec => WorkNotRepeated
<1> DEFINE A == \A s \in Steps : step[s] = "completed" => step'[s] \in {"completed", "cancelled"}
<1>1. IInv /\ [Next]_vars => [A]_vars
  <2> SUFFICES ASSUME IInv, Next, NEW s \in Steps, step[s] = "completed"
              PROVE  step'[s] \in {"completed", "cancelled"}
    OBVIOUS
  <2>0. TypeOK /\ NothingDoneToDo
    BY DEF IInv, Work
  <2>1. CASE \E t \in Steps : StepActs(t)
    <3>1. PICK t \in Steps : StepActs(t)
      BY <2>1
    <3>2. mem[t] \in Unfinished /\ mem[s] \notin Unfinished
      BY <2>0, <3>1 DEF StepActs, StepStarts, StepCompletes, StepRetries, StepFails,
                        StepCancelled, Unfinished, NothingDoneToDo
    <3>3. s # t /\ s \notin WaitingAfter(t)
      BY <3>2, ReachWithin DEF WaitingAfter, Unfinished
    <3>4. CASE StepRetries(t)
      BY <2>0, <3>3, <3>4 DEF StepRetries, TypeOK
    <3>5. CASE ~StepRetries(t)
      <4>1. \/ StepWrites(t, "running", {}, "") \/ StepWrites(t, "completed", {}, "")
            \/ StepWrites(t, "failed", WaitingAfter(t), "blocked")
            \/ StepWrites(t, "cancelled", WaitingAfter(t), "cancelled")
        BY <3>1, <3>5 DEF StepActs, StepStarts, StepCompletes, StepFails, StepCancelled
      <4>2. ASSUME NEW D, s \notin D, NEW status, NEW end, StepWrites(t, status, D, end)
            PROVE  step'[s] = step[s]
        <5>1. step' = [Mark(step, D, end) EXCEPT ![t] = status]
          BY <4>2 DEF StepWrites
        <5> QED BY <3>3, <4>2, <5>1 DEF Mark
      <4> QED BY <3>3, <4>1, <4>2
    <3> QED BY <3>4, <3>5
  <2>2. CASE \E t \in Steps : CancelStep(t)
    BY <2>2, CancelStepRows
  <2>3. CASE HandlerEnters \/ Resume
    <3>1. step' = step \/ Restart({}, ToRetry) \/ Restart(Stranded, {})
      BY <2>3 DEF HandlerEnters, Resume
    <3>2. s \notin ToRetry /\ s \notin Stranded
      BY DEF ToRetry, Stranded, StepsIn
    <3> QED BY <3>1, <3>2, RestartRows
  <2>4. CASE Recover \/ Sweep
    BY <2>4, BootRows
  <2>5. CASE step' = step
    BY <2>5
  <2>6. CASE StartFirstRun \/ CancelRoot \/ HandlerLearns \/ Shutdown \/ UNCHANGED vars
    BY <2>5, <2>6 DEF StartFirstRun, CancelRoot, HandlerLearns, Shutdown, vars, rows
  <2>7. CASE Deliver \/ PersistResult \/ Finish \/ RunThrows \/ Crash
    BY <2>5, <2>7 DEF Deliver, PersistResult, Finish, RunThrows, RunOver, Crash, rows
  <2>8. CASE \E b \in BOOLEAN : ReadOutcome(b) \/ Verified(b)
    BY <2>5, <2>8 DEF ReadOutcome, Verified, rows
  <2> QED BY <2>1, <2>2, <2>3, <2>4, <2>6, <2>7, <2>8 DEF Next, RunActs, HandlerActs, BootActs
<1> QED BY <1>1, PlanInvariant, PTL DEF Spec, WorkNotRepeated

\* Once the resume pass is over, a row shows as running only in a run that runs
\* it: the two exceptions are those NoGhostStep names, and there are no others.
THEOREM PlanNoGhostStep == Spec => []NoGhostStep
<1>1. IInv => NoGhostStep
  <2> SUFFICES ASSUME IInv, process = "up", run # "executing",
                      \E s \in Steps : step[s] = "running"
               PROVE  root = "cancelled" \/ (root = "failed" /\ rootAttempts = MaxRuns)
    BY DEF NoGhostStep
  <2>1. run = "none"
    BY DEF IInv, NoGhosts, NoneRunning
  <2>2. root = "cancelled" \/ (root = "failed" /\ rootAttempts >= MaxRuns)
    BY <2>1 DEF IInv, NoGhosts, LeftBehind, Serving
  <2> QED BY <2>2, AttemptsAssumption DEF IInv, TypeOK
<1> QED BY <1>1, PlanInvariant, PTL

\* A plan is marked completed only when every step of it has completed, over all
\* its runs, or was cancelled after it had.
THEOREM PlanCompletedMeansAllSteps == Spec => CompletedMeansAllSteps
<1> DEFINE A == root' = "completed" /\ root # "completed" =>
                  \A s \in Steps : step[s] = "completed" \/ s \in requested
<1>1. IInv /\ [Next]_vars => [A]_vars
  <2> SUFFICES ASSUME IInv, Next, root' = "completed", root # "completed"
              PROVE  \A s \in Steps : step[s] = "completed" \/ s \in requested
    OBVIOUS
  <2>1. CASE Finish
    <3>1. run = "persisted" /\ root' = FinalStatus
      BY <2>1 DEF Finish
    <3>2. outcome.ok
      BY <3>1 DEF FinalStatus
    <3> QED BY <3>1, <3>2 DEF IInv, Work, SuccessLasts, Successful, Ending
  <2>2. CASE \E s \in Steps : StepActs(s) \/ CancelStep(s)
    BY <2>2 DEF StepActs, StepStarts, StepCompletes, StepRetries, StepFails, StepCancelled,
                CancelStep
  <2>3. CASE StartFirstRun \/ Deliver \/ PersistResult \/ RunThrows
    BY <2>3 DEF StartFirstRun, Start, Deliver, PersistResult, RunThrows, rows
  <2>4. CASE \E b \in BOOLEAN : ReadOutcome(b) \/ Verified(b)
    BY <2>4 DEF ReadOutcome, Verified, rows
  <2>5. CASE HandlerEnters \/ Resume
    <3>1. root' = root \/ Restart({}, ToRetry) \/ Restart(Stranded, {})
      BY <2>5 DEF HandlerEnters, Resume
    <3> QED BY <3>1, RestartOutcome
  <2>6. CASE HandlerLearns \/ Shutdown \/ CancelRoot \/ Recover \/ Sweep
    BY <2>6 DEF HandlerLearns, Shutdown, CancelRoot, Recover, Sweep, rows
  <2>7. CASE Crash \/ UNCHANGED vars
    BY <2>7 DEF Crash, vars, rows
  <2> QED BY <2>1, <2>2, <2>3, <2>4, <2>5, <2>6, <2>7 DEF Next, RunActs, HandlerActs, BootActs
<1> QED BY <1>1, PlanInvariant, PTL DEF Spec, CompletedMeansAllSteps
=============================================================================
