----------------------------- MODULE PlanRunner -----------------------------
(***************************************************************************)
(* One plan: a root row and its steps in the tasks table, the detached     *)
(* runs core/plan-runner.ts makes of it, and everything that may start,    *)
(* cut off or settle one of them: crashes and shutdowns, crash recovery    *)
(* and the sweep at boot, the resume pass, cancellations and, for a plan   *)
(* of a scheduled job, the job's handler that waits for it.                *)
(*                                                                         *)
(* executeDag() is here what DagContract says of it: which step may run    *)
(* when, and how it may end; DagExecutor is the module of its detail.      *)
(* A step of the model is the code between two `await`s, save where a      *)
(* crash may come between two writes of one stretch.                       *)
(***************************************************************************)
EXTENDS Integers, FiniteSets

CONSTANTS NumSteps,         \* steps of the plan, a dependency before its dependents
          Scheduled,        \* whether a scheduled job may own the plan, and whether
                            \* it may not
          MaxRuns,          \* MAX_PLAN_RUN_ATTEMPTS, 3
          MaxRetries,       \* constraints.max_retries of a step, 2 unless set
          MaxFailures,      \* max_retries of the job: retries after its handler failed
          MaxEnds,          \* bound: crashes and shutdowns
          MaxCancels        \* bound: cancellation requests

ASSUME StepsAssumption == NumSteps \in Nat
ASSUME ScheduledAssumption == Scheduled \subseteq BOOLEAN
ASSUME AttemptsAssumption == MaxRuns \in Nat \ {0} /\ MaxRetries \in Nat
ASSUME PlanBoundsAssumption == MaxFailures \in Nat /\ MaxEnds \in Nat /\ MaxCancels \in Nat

Steps == 1 .. NumSteps

VARIABLES
  deps,                     \* task_dependencies between the steps
  root, rootAttempts,       \* the root's row: status, attempts
  step, tries,              \* the steps' rows: status, attempts
  retryable,                \* steps whose constraints.failure_retryable is set
  result,                   \* what persistTaskResult() keeps of the root
  messages,                 \* completion messages delivered to the chat
  run,                      \* where runPlan() stands; "none": not in activeRuns
  mem,                      \* executeDag()'s `state`; "none": not among its tasks
  outcome,                  \* what runPlan() has read of its steps and its root
  requested,                \* steps with an entry in pendingRequests
  job, failures,            \* the scheduled job: its state, its handler's failures
  process, clean,           \* how far the boot is, and the clean_shutdown flag
  ends, cancels             \* how much of the bounds is used

rows == <<root, rootAttempts, step, tries, retryable, result>>
boot == <<process, clean, ends>>
scheduled == <<job, failures>>
vars == <<deps, rows, messages, run, mem, outcome, requested, scheduled, boot, cancels>>

Terminal == {"completed", "failed", "cancelled"}
RootStatus == {"ready", "running"} \union Terminal
TaskStatus == {"pending", "ready", "running", "blocked"} \union Terminal
Unfinished == {"waiting", "running"}

NoResult == [success |-> FALSE, retry |-> FALSE]
NoOutcome == [cancelled |-> FALSE, ok |-> FALSE, retry |-> FALSE]

\* deliveryMode 'caller': the job's handler delivers, not the plan.
Managed == job # "none"

StepsIn(S) == {s \in Steps : step[s] \in S}
Mark(f, S, v) == [s \in Steps |-> IF s \in S THEN v ELSE f[s]]
Dependents(s) == {d \in Steps : s \in deps[d]}

\* What a walk over dependents reaches from s when it stops at steps outside S.
Reach(s, S) ==
  LET reached[d \in Steps] ==
        d \in S /\ \E p \in deps[d] : p = s \/ reached[p]
  IN  {d \in S : reached[d]}

\* createPlanTasks() has written the rows; its caller starts the run next.
Init ==
  /\ deps \in {d \in [Steps -> SUBSET Steps] : \A s \in Steps : d[s] \subseteq 1 .. s - 1}
  /\ root = "ready" /\ rootAttempts = 0
  /\ step = [s \in Steps |-> IF deps[s] = {} THEN "ready" ELSE "pending"]
  /\ tries = [s \in Steps |-> 0]
  /\ retryable = {}
  /\ result = NoResult
  /\ messages = 0
  /\ run = "created"
  /\ mem = [s \in Steps |-> "none"]
  /\ outcome = NoOutcome
  /\ requested = {}
  /\ \E b \in Scheduled : job = (IF b THEN "waiting" ELSE "none")
  /\ failures = 0
  /\ process = "up" /\ clean = FALSE
  /\ ends = 0 /\ cancels = 0

-----------------------------------------------------------------------------
(* Starting a run. *)

\* A synchronous stretch is under way: only a crash can come in between.
Busy ==
  \/ run \in {"created", "delivered", "persisted"}
  \/ (run = "executing" /\ \A s \in Steps : mem[s] = "none")
  \/ (run = "concluding" /\ outcome.cancelled)
  \/ (run = "none" /\ job = "waiting")

Serving == process \in {"swept", "up"}

\* Mutant: what has been completed is given to the executor again.
Incomplete_All(table) == {s \in Steps : table[s] # "cancelled"}

\* The rows runPlan() gives to executeDag(): a blocked step is among them.
Incomplete(table) == {s \in Steps : table[s] \notin Terminal}

Start(table) ==
  /\ rootAttempts' = rootAttempts + 1
  /\ root' = "running"
  /\ run' = "executing"
  /\ mem' = Mark(mem, Incomplete(table), "waiting")

\* Mutant: a restart is not one of the attempts the cap is about.
Restart_NoCap(stranded, failed) ==
  LET table == Mark(Mark(step, stranded, "ready"), failed, "pending")
  IN  /\ step' = table
      /\ tries' = Mark(tries, failed, 0)
      /\ retryable' = retryable \ failed
      /\ \/ run = "none" /\ Start(table)
         \/ run # "none" /\ UNCHANGED <<root, rootAttempts, run, mem>>

\* restartPlanFromMetadata() with startDetachedPlanRun(): the cap comes before
\* everything else, and whether a run is active after everything else.
Restart(stranded, failed) ==
  LET table == Mark(Mark(step, stranded, "ready"), failed, "pending")
  IN  \/ /\ rootAttempts < MaxRuns
         /\ step' = table
         /\ tries' = Mark(tries, failed, 0)
         /\ retryable' = retryable \ failed
         /\ \/ run = "none" /\ Start(table)
            \/ run # "none" /\ UNCHANGED <<root, rootAttempts, run, mem>>
      \/ /\ rootAttempts >= MaxRuns
         /\ root' = "failed"
         /\ UNCHANGED <<rootAttempts, step, tries, retryable, run, mem>>

\* normalizeStrandedSteps and retryFailedSteps; no step is ever 'assigned'.
Stranded == StepsIn({"running"})
ToRetry == StepsIn({"failed", "blocked"})

\* The creator of the plan starts its first run.
StartFirstRun ==
  /\ run = "created"
  /\ Start(step)
  /\ UNCHANGED <<deps, step, tries, retryable, result, messages, outcome, requested,
                 scheduled, boot, cancels>>

-----------------------------------------------------------------------------
(* executeDag(), by its contract. *)

StepWrites(s, status, D, end) ==
  /\ mem' = [Mark(mem, D, end) EXCEPT ![s] = status]
  /\ step' = [Mark(step, D, end) EXCEPT ![s] = status]

\* What ends with s: dependents still waiting are blocked by a failure, and
\* cancelled by a cancellation.
WaitingAfter(s) == Reach(s, {d \in Steps : mem[d] = "waiting"})

\* Mutant: the attempt is not counted.
StepStarts_Uncounted(s) ==
  /\ run = "executing" /\ mem[s] = "waiting"
  /\ \A p \in deps[s] : mem[p] \in {"none", "completed"}
  /\ s \notin requested /\ tries[s] <= MaxRetries
  /\ StepWrites(s, "running", {}, "")
  /\ UNCHANGED <<deps, root, rootAttempts, tries, retryable, result, messages, run,
                 outcome, requested, scheduled, boot, cancels>>

\* Its dependencies among the tasks of this call have completed; one that ended
\* in an earlier run is not among them.
StepStarts(s) ==
  /\ run = "executing" /\ mem[s] = "waiting"
  /\ \A p \in deps[s] : mem[p] \in {"none", "completed"}
  /\ s \notin requested /\ tries[s] <= MaxRetries
  /\ StepWrites(s, "running", {}, "")
  /\ tries' = [tries EXCEPT ![s] = @ + 1]
  /\ UNCHANGED <<deps, root, rootAttempts, retryable, result, messages, run, outcome,
                 requested, scheduled, boot, cancels>>

\* Also when a cancellation was asked for: the result may be on its way.
StepCompletes(s) ==
  /\ mem[s] = "running"
  /\ StepWrites(s, "completed", {}, "")
  /\ requested' = requested \ {s}
  /\ UNCHANGED <<deps, root, rootAttempts, tries, retryable, result, messages, run,
                 outcome, scheduled, boot, cancels>>

StepRetries(s) ==
  /\ mem[s] = "running" /\ s \notin requested /\ tries[s] <= MaxRetries
  /\ mem' = [mem EXCEPT ![s] = "waiting"]
  /\ step' = [step EXCEPT ![s] = "pending"]
  /\ UNCHANGED <<deps, root, rootAttempts, tries, retryable, result, messages, run,
                 outcome, requested, scheduled, boot, cancels>>

\* The failure says whether another run may retry it; a step whose budget is
\* used up fails without an attempt, and says nothing.
StepFails(s) ==
  /\ \/ /\ mem[s] = "running" /\ s \notin requested
        /\ \/ retryable' = retryable \union {s}
           \/ retryable' = retryable \ {s}
     \/ /\ mem[s] = "waiting" /\ s \notin requested /\ tries[s] > MaxRetries
        /\ UNCHANGED retryable
  /\ StepWrites(s, "failed", WaitingAfter(s), "blocked")
  /\ requested' = requested \ {s}
  /\ UNCHANGED <<deps, root, rootAttempts, tries, result, messages, run, outcome,
                 scheduled, boot, cancels>>

\* Asked for, or a guard interrupted the attempt.
StepCancelled(s) ==
  /\ mem[s] = "running" \/ (mem[s] = "waiting" /\ s \in requested)
  /\ StepWrites(s, "cancelled", WaitingAfter(s), "cancelled")
  /\ requested' = requested \ ({s} \union WaitingAfter(s))
  /\ UNCHANGED <<deps, root, rootAttempts, tries, retryable, result, messages, run,
                 outcome, scheduled, boot, cancels>>

-----------------------------------------------------------------------------
(* The rest of runPlan(). *)

\* Mutant: a cancelled step is no failure.
AllCompleted_NoneFailed == \A s \in Steps : step[s] \in {"completed", "cancelled"}

AllCompleted == \A s \in Steps : step[s] = "completed"

\* Mutant: a step still in flight is not waited for.
ReadOutcome_Early(kept) ==
  /\ run = "executing" /\ \A s \in Steps : mem[s] # "waiting"
  /\ outcome' = [cancelled |-> root = "cancelled", ok |-> kept /\ AllCompleted,
                 retry |-> FALSE]
  /\ run' = IF outcome'.ok THEN "verifying" ELSE "concluding"
  /\ UNCHANGED <<deps, rows, messages, mem, requested, scheduled, boot, cancels>>

\* executeDag() has returned and artifacts are kept, or one is lost: steps and
\* root are read, once, for everything that follows.
ReadOutcome(kept) ==
  /\ run = "executing" /\ \A s \in Steps : mem[s] \notin Unfinished
  /\ LET failed == StepsIn({"failed"})
         cancelled == root = "cancelled"
         ok == kept /\ AllCompleted
     IN  /\ outcome' = [cancelled |-> cancelled, ok |-> ok,
                        retry |-> /\ ~cancelled /\ kept
                                  /\ failed # {} /\ failed \subseteq retryable]
         /\ run' = IF ok THEN "verifying" ELSE "concluding"
  /\ UNCHANGED <<deps, rows, messages, mem, requested, scheduled, boot, cancels>>

\* verifyPlanSemantics(): only a deterministic finding turns success around.
Verified(accepted) ==
  /\ run = "verifying"
  /\ outcome' = [outcome EXCEPT !.ok = accepted]
  /\ run' = "concluding"
  /\ UNCHANGED <<deps, rows, messages, mem, requested, scheduled, boot, cancels>>

FinalStatus == IF outcome.cancelled THEN "cancelled"
               ELSE IF outcome.ok THEN "completed" ELSE "failed"

\* Mutant: the root is marked before its result is kept.
Deliver_StatusFirst ==
  /\ run = "concluding"
  /\ root' = FinalStatus
  /\ messages' = IF Managed \/ outcome.cancelled THEN messages ELSE messages + 1
  /\ run' = "delivered"
  /\ UNCHANGED <<deps, rootAttempts, step, tries, retryable, result, mem, outcome,
                 requested, scheduled, boot, cancels>>

\* deliverPlanCompletion(): not for a cancelled plan, and its caller delivers
\* that of a scheduled job.
Deliver ==
  /\ run = "concluding"
  /\ messages' = IF Managed \/ outcome.cancelled THEN messages ELSE messages + 1
  /\ run' = "delivered"
  /\ UNCHANGED <<deps, rows, mem, outcome, requested, scheduled, boot, cancels>>

\* persistTaskResult(), a write of its own.
PersistResult ==
  /\ run = "delivered"
  /\ result' = [success |-> outcome.ok, retry |-> outcome.retry]
  /\ run' = "persisted"
  /\ UNCHANGED <<deps, root, rootAttempts, step, tries, retryable, messages, mem,
                 outcome, requested, scheduled, boot, cancels>>

\* runPlan() or its catch has settled: activeRuns forgets the run.
RunOver == /\ run' = "none"
           /\ mem' = [s \in Steps |-> "none"]
           /\ outcome' = NoOutcome
           /\ UNCHANGED <<deps, rootAttempts, step, tries, retryable, messages,
                          requested, scheduled, boot, cancels>>

Finish ==
  /\ run = "persisted"
  /\ root' = FinalStatus
  /\ UNCHANGED result
  /\ RunOver

\* Promotion, delivery or a write throws: the guard of the detached run.
RunThrows ==
  /\ \/ run \in {"delivered", "persisted"}
     \/ run = "concluding" /\ ~outcome.cancelled
  /\ result' = NoResult
  /\ root' = "failed"
  /\ RunOver

-----------------------------------------------------------------------------
(* The handler of the scheduled job: waitForExistingPlan(). *)

HandlerThrows == /\ failures' = failures + 1
                 /\ job' = IF failures < MaxFailures THEN "queued" ELSE "failed"

HandlerWaits == job' = "waiting" /\ UNCHANGED failures
HandlerGivesUp == job' = "failed" /\ UNCHANGED failures

\* Mutant: a failed root is not being run, whatever activeRuns says.
HandlerEnters_StatusOnly ==
  /\ job = "queued" /\ Serving /\ ~clean /\ ~Busy
  /\ \/ /\ root = "failed" /\ ~result.retry
        /\ HandlerGivesUp
        /\ UNCHANGED <<root, rootAttempts, step, tries, retryable, run, mem>>
     \/ /\ root = "failed" /\ result.retry
        /\ Restart({}, ToRetry)
        /\ IF rootAttempts < MaxRuns THEN HandlerWaits ELSE HandlerThrows
     \/ /\ root \in {"ready", "running"}
        /\ Restart(Stranded, {})
        /\ IF rootAttempts < MaxRuns THEN HandlerWaits ELSE HandlerThrows
     \/ /\ root \in {"completed", "cancelled"}
        /\ HandlerWaits
        /\ UNCHANGED <<root, rootAttempts, step, tries, retryable, run, mem>>
  /\ UNCHANGED <<deps, result, messages, outcome, requested, boot, cancels>>

\* A queued job is picked up: it restarts a plan nobody runs, or waits.
HandlerEnters ==
  /\ job = "queued" /\ Serving /\ ~clean /\ ~Busy
  /\ \/ /\ run = "none" /\ root = "failed"
        /\ \/ /\ ~result.retry
              /\ HandlerGivesUp
              /\ UNCHANGED <<root, rootAttempts, step, tries, retryable, run, mem>>
           \/ /\ result.retry
              /\ Restart({}, ToRetry)
              /\ IF rootAttempts < MaxRuns THEN HandlerWaits ELSE HandlerThrows
     \/ /\ run = "none" /\ root \in {"ready", "running"}
        /\ Restart(Stranded, {})
        /\ IF rootAttempts < MaxRuns THEN HandlerWaits ELSE HandlerThrows
     \/ /\ run # "none" \/ root \in {"completed", "cancelled"}
        /\ HandlerWaits
        /\ UNCHANGED <<root, rootAttempts, step, tries, retryable, run, mem>>
  /\ UNCHANGED <<deps, result, messages, outcome, requested, boot, cancels>>

\* waitForPlanRun() resolves with the run's outcome, or with the persisted one.
HandlerLearns ==
  /\ job = "waiting" /\ run = "none"
  /\ \/ /\ root = "completed" /\ result.success
        /\ job' = "done" /\ UNCHANGED failures
     \/ /\ ~(root = "completed" /\ result.success)
        /\ IF result.retry THEN HandlerThrows ELSE HandlerGivesUp
  /\ UNCHANGED <<deps, rows, messages, run, mem, outcome, requested, boot, cancels>>

-----------------------------------------------------------------------------
(* Cancellations: requestTaskCancellation(), whatever the task's status is. *)

CancelStep(s) ==
  /\ Serving /\ ~Busy /\ cancels < MaxCancels
  /\ cancels' = cancels + 1
  /\ requested' = requested \union {s}
  /\ step' = Mark(step, {s} \union Reach(s, StepsIn({"pending", "ready"})), "cancelled")
  /\ UNCHANGED <<deps, root, rootAttempts, tries, retryable, result, messages, run,
                 mem, outcome, scheduled, boot>>

\* The steps do not depend on the root: its cancellation does not reach them.
CancelRoot ==
  /\ Serving /\ ~Busy /\ cancels < MaxCancels
  /\ cancels' = cancels + 1
  /\ root' = "cancelled"
  /\ UNCHANGED <<deps, rootAttempts, step, tries, retryable, result, messages, run,
                 mem, outcome, requested, scheduled, boot>>

-----------------------------------------------------------------------------
(* The end of the process, and the next one's boot. *)

\* A signal: the job runner stops and aborts the handler's wait, which counts as a
\* failure of the job; the plan runs on until the process exits.
Shutdown ==
  /\ Serving /\ ~clean /\ ~Busy /\ ends < MaxEnds
  /\ clean' = TRUE
  /\ IF job = "waiting" THEN HandlerThrows ELSE UNCHANGED scheduled
  /\ UNCHANGED <<deps, rows, messages, run, mem, outcome, requested, process, ends, cancels>>

\* Memory is lost, and a job in a handler is put back by the next boot.
Crash ==
  /\ process # "down" /\ ends < MaxEnds
  /\ run' = "none"
  /\ mem' = [s \in Steps |-> "none"]
  /\ outcome' = NoOutcome
  /\ requested' = {}
  /\ job' = IF job = "waiting" THEN "queued" ELSE job
  /\ process' = "down"
  /\ ends' = ends + 1
  /\ UNCHANGED <<deps, rows, messages, failures, clean, cancels>>

Exit == clean /\ Crash

\* recover(), after an unclean end: a running row with a checkpoint is ready
\* again, one without has failed.  Steps in C have a checkpoint, a root never.
Recover ==
  /\ process = "down"
  /\ \/ clean /\ UNCHANGED <<root, step>>
     \/ /\ ~clean
        /\ root' = IF root = "running" THEN "failed" ELSE root
        /\ \E C \in SUBSET Stranded :
             step' = Mark(Mark(step, Stranded, "failed"), C, "ready")
  /\ clean' = FALSE /\ process' = "recovered"
  /\ UNCHANGED <<deps, rootAttempts, tries, retryable, result, messages, run, mem,
                 outcome, requested, scheduled, ends, cancels>>

\* sweepOrphanedPlanTasks(), when the job runner starts.
Sweep ==
  /\ process = "recovered"
  /\ step' = IF root \in Terminal THEN Mark(step, StepsIn(TaskStatus \ Terminal), "cancelled")
             ELSE step
  /\ process' = "swept"
  /\ UNCHANGED <<deps, root, rootAttempts, tries, retryable, result, messages, run, mem,
                 outcome, requested, scheduled, clean, ends, cancels>>

\* Mutant: only plans that were running are looked for.
Resume_RunningOnly ==
  /\ process = "swept" /\ ~Busy
  /\ \/ root # "running"
        /\ UNCHANGED <<root, rootAttempts, step, tries, retryable, run, mem>>
     \/ root = "running" /\ Restart(Stranded, {})
  /\ process' = "up"
  /\ UNCHANGED <<deps, result, messages, outcome, requested, scheduled, clean, ends, cancels>>

\* resumeIncompletePlans(), three seconds later: the handler may be ahead of it.
Resume ==
  /\ process = "swept" /\ ~Busy
  /\ \/ root \in Terminal
        /\ UNCHANGED <<root, rootAttempts, step, tries, retryable, run, mem>>
     \/ root \notin Terminal /\ Restart(Stranded, {})
  /\ process' = "up"
  /\ UNCHANGED <<deps, result, messages, outcome, requested, scheduled, clean, ends, cancels>>

-----------------------------------------------------------------------------
StepActs(s) == StepStarts(s) \/ StepCompletes(s) \/ StepRetries(s) \/ StepFails(s)
               \/ StepCancelled(s)

RunActs ==
  \/ StartFirstRun
  \/ \E b \in BOOLEAN : ReadOutcome(b) \/ Verified(b)
  \/ Deliver \/ PersistResult \/ Finish \/ RunThrows

HandlerActs == HandlerEnters \/ HandlerLearns

BootActs == Recover \/ Sweep \/ Resume

Over == run = "none" /\ root \in Terminal /\ job \notin {"waiting", "queued"} /\ process = "up"

Next ==
  \/ \E s \in Steps : StepActs(s) \/ CancelStep(s)
  \/ RunActs \/ HandlerActs
  \/ CancelRoot
  \/ Crash \/ Shutdown \/ BootActs
  \/ (Over /\ UNCHANGED vars)

\* Attempts end, promises settle, a shutdown comes to its exit and a process
\* that has ended is started again; nobody has to cancel.
Spec == /\ Init /\ [][Next]_vars
        /\ WF_vars(\E s \in Steps : StepActs(s))
        /\ WF_vars(RunActs) /\ WF_vars(HandlerActs) /\ WF_vars(BootActs)
        /\ WF_vars(Exit)

-----------------------------------------------------------------------------
(* What the plan runner promises. *)

Phases == {"none", "created", "executing", "verifying", "concluding", "delivered",
           "persisted"}

\* Every variable keeps its shape, and the attempts of the root their cap.
TypeOK ==
  /\ deps \in [Steps -> SUBSET Steps]
  /\ root \in RootStatus /\ rootAttempts \in 0 .. MaxRuns
  /\ step \in [Steps -> TaskStatus] /\ tries \in [Steps -> 0 .. MaxRetries + 1]
  /\ retryable \in SUBSET Steps
  /\ result \in [success : BOOLEAN, retry : BOOLEAN]
  /\ messages \in Nat
  /\ run \in Phases
  /\ mem \in [Steps -> TaskStatus \union {"none", "waiting"}]
  /\ outcome \in [cancelled : BOOLEAN, ok : BOOLEAN, retry : BOOLEAN]
  /\ requested \in SUBSET Steps
  /\ job \in {"none", "waiting", "queued", "done", "failed"} /\ failures \in 0 .. MaxFailures + 1
  /\ process \in {"down", "recovered", "swept", "up"} /\ clean \in BOOLEAN
  /\ ends \in 0 .. MaxEnds /\ cancels \in 0 .. MaxCancels

\* A plan is marked completed only when every step of it has completed, over
\* all its runs, or was cancelled after it had: whatever was cut off, swept,
\* normalised or retried in between, no step is lost or taken for done.
CompletedMeansAllSteps ==
  [][root' = "completed" /\ root # "completed" =>
       \A s \in Steps : step[s] = "completed" \/ s \in requested]_vars

\* A step that has completed is never run again, by no restart and no retry.
WorkNotRepeated ==
  [][\A s \in Steps : step[s] = "completed" => step'[s] \in {"completed", "cancelled"}]_vars

\* Once the resume pass is over, a plan that has not ended is being run: none
\* is left in the table that nobody looks after.
NoStrandedPlan ==
  process = "up" /\ root \notin Terminal => run # "none"

\* When a plan is not being run, none of its steps shows as running.  Two ends
\* of the plan leave one: its cancellation before the resume pass, and a
\* resume pass that finds the attempts used up and only fails the root.
NoGhostStep ==
  process = "up" /\ run # "executing" /\ (\E s \in Steps : step[s] = "running")
    => root = "cancelled" \/ (root = "failed" /\ rootAttempts = MaxRuns)

\* A completed plan has its result and, unless its caller delivers it, its
\* message: whatever ended the process between the three writes.
CompletedIsDelivered ==
  root = "completed" => result.success /\ (Managed \/ messages > 0)

\* The scheduled job is done only on a success of its plan; it fails for good
\* only when its plan is over and not to be retried, or its retries are used.
JobAgreesWithPlan ==
  /\ job = "done" => result.success
  /\ job = "failed" => failures > MaxFailures \/ (run = "none" /\ root \in Terminal)

\* Every plan comes to an end and stays there, whatever ends the process on
\* the way, and so does the job that waits for it.
PlanEnds == <>[](run = "none" /\ root \in Terminal /\ job \notin {"waiting", "queued"})

\* A plan that was running when the process ended, and has runs left, is run
\* again or cancelled: core/plan-runner.ts:15 says that incomplete plans are
\* resumed at process startup, and :1188 that a clean or unclean shutdown
\* makes no difference.
InterruptedIsResumed ==
  (process = "down" /\ root = "running" /\ rootAttempts < MaxRuns)
    ~> (run # "none" \/ root = "cancelled")
=============================================================================
