------------------------ MODULE BackgroundRunnerProofs ------------------------
(***************************************************************************)
(* Rows, handlers and cron runs agree for any number of jobs, any limits   *)
(* and any number of cancellations and ends of the process: proofs of the  *)
(* invariants and of the action properties of BackgroundRunner.            *)
(***************************************************************************)
EXTENDS BackgroundRunner, FiniteSetTheorems, TLAPS

\* What tick() delivers is a job.
ParcelInHand == tick = "delivering" => parcel \in Jobs

\* A row whose handler is at work is running, or was failed or cancelled over
\* its head; one whose outcome is being sent has ended.
RowsOfHandlers ==
  \A j \in Jobs :
    /\ pc[j] = "handling" => status[j] \in {"running", "failed", "cancelled"}
    /\ pc[j] = "delivering" => status[j] \in {"completed", "failed"}

\* A handler has a signal as long as it works; one nobody has aborted belongs
\* to a running row the runner still counts, one aborted by a cancellation to a
\* cancelled row.
SignalsTellWhy ==
  \A j \in Jobs :
    /\ signal[j] = "none" <=> pc[j] # "handling"
    /\ signal[j] = "live" => j \in entries /\ status[j] = "running"
    /\ signal[j] = "cancelled" => status[j] = "cancelled"

\* Nothing of the memory is left once the process is down.
NothingDown ==
  process = "down" => /\ tick = "idle" /\ entries = {}
                      /\ \A j \in Jobs : pc[j] = "idle"

\* While the runner is up it counts every handler whose row it has not failed.
SlotsCounted ==
  process = "up" =>
    /\ Cardinality(entries) <= MaxConcurrent
    /\ \A j \in Jobs : pc[j] = "handling" /\ status[j] # "failed" => j \in entries

\* A process that is not up was stopped or has died, and is counted.
EndedBefore == process # "up" => restarts > 0

Control == RowsOfHandlers /\ SignalsTellWhy /\ NothingDown /\ RunningIsHandled

IInv == TypeOK /\ ParcelInHand /\ Control /\ SlotsCounted /\ EndedBefore /\ RunAgreesWithJob

-----------------------------------------------------------------------------
\* The jobs are finitely many, and none of them is None.
LEMMA JobsFinite == IsFiniteSet(Jobs) /\ Jobs \subseteq Nat \ {None}
BY NumJobsAssumption, FS_Interval DEF Jobs, None

\* Of a finite set of numbers, at most n have fewer than n others below them.
LEMMA OldestFit ==
  ASSUME NEW S \in SUBSET Nat, IsFiniteSet(S), NEW n \in Nat
  PROVE  Cardinality({j \in S : Cardinality({i \in S : i < j}) < n}) <= n
<1> DEFINE Below(j) == {i \in S : i < j}
           T == {j \in S : Cardinality(Below(j)) < n}
           f == [j \in T |-> Cardinality(Below(j)) + 1]
<1>1. \A j \in S : IsFiniteSet(Below(j)) /\ Cardinality(Below(j)) \in Nat
  BY FS_Subset, FS_CardinalityType
<1>2. f \in [T -> 1 .. n]
  <2>1. ASSUME NEW j \in T PROVE Cardinality(Below(j)) + 1 \in 1 .. n
    <3>1. Cardinality(Below(j)) \in Nat /\ Cardinality(Below(j)) < n
      BY <1>1
    <3> QED
      BY <3>1
  <2> QED
    BY <2>1
<1>3. ASSUME NEW i \in T, NEW j \in T, i < j
      PROVE  f[i] < f[j]
  <2>1. Below(i) \union {i} \subseteq Below(j) /\ i \notin Below(i)
    <3>1. i \in S /\ i \in Nat /\ j \in Nat /\ ~ (i < i)
      OBVIOUS
    <3>2. \A k \in S : k < i => k < j
      BY <1>3, <3>1
    <3> QED
      BY <1>3, <3>1, <3>2
  <2>2. /\ IsFiniteSet(Below(i) \union {i})
        /\ Cardinality(Below(i) \union {i}) = Cardinality(Below(i)) + 1
    BY <1>1, <2>1, FS_AddElement
  <2>3. Cardinality(Below(i) \union {i}) <= Cardinality(Below(j))
    BY <1>1, <2>1, FS_Subset
  <2> QED
    BY <1>1, <2>2, <2>3
<1>4. f \in Injection(T, 1 .. n)
  <2>1. ASSUME NEW i \in T, NEW j \in T, f[i] = f[j] PROVE i = j
    <3>1. i \in Nat /\ j \in Nat /\ f[i] \in Nat /\ f[j] \in Nat
      BY <1>2
    <3>2. ~ (i < j) /\ ~ (j < i)
      BY <1>3, <2>1, <3>1
    <3> QED
      BY <3>1, <3>2
  <2> HIDE DEF f, T
  <2> QED
    BY <1>2, <2>1 DEF Injection, IsInjective
<1>5. IsFiniteSet(1 .. n) /\ Cardinality(1 .. n) = n
  BY FS_Interval
<1> QED
  BY <1>4, <1>5, FS_Injection

\* A start never fills more than the slots that were left.
LEMMA StartedFit ==
  ASSUME IInv, Cardinality(entries) <= MaxConcurrent
  PROVE  Cardinality(entries \union (Claimed \intersect handled)) <= MaxConcurrent
<1> DEFINE begun == Claimed \intersect handled
           n == MaxConcurrent - Cardinality(entries)
<1>1. /\ entries \subseteq Jobs /\ snapshot \subseteq Jobs
      /\ IsFiniteSet(entries) /\ IsFiniteSet(snapshot) /\ snapshot \subseteq Nat
      /\ Cardinality(entries) \in Nat /\ MaxConcurrent \in Nat /\ n \in Nat
  <2>1. entries \subseteq Jobs /\ snapshot \subseteq Jobs /\ MaxConcurrent \in Nat
    BY CapsAssumption DEF IInv, TypeOK
  <2>2. /\ IsFiniteSet(entries) /\ IsFiniteSet(snapshot) /\ snapshot \subseteq Nat
        /\ Cardinality(entries) \in Nat
    BY <2>1, JobsFinite, FS_Subset, FS_CardinalityType
  <2> QED
    BY <2>1, <2>2
<1>2. Cardinality(Selected) <= n /\ IsFiniteSet(Selected) /\ Cardinality(Selected) \in Nat
  <2>1. Cardinality(Selected) <= n
    BY <1>1, OldestFit DEF Selected
  <2>2. Selected \in SUBSET snapshot
    BY DEF Selected
  <2> QED
    BY <1>1, <2>1, <2>2, FS_Subset, FS_CardinalityType
<1>3. /\ IsFiniteSet(begun) /\ Cardinality(begun) <= Cardinality(Selected)
      /\ Cardinality(begun) \in Nat
  <2>1. begun \in SUBSET Selected
    BY DEF Claimed
  <2> QED
    BY <1>2, <2>1, FS_Subset, FS_CardinalityType
<1>4. /\ Cardinality(entries \union begun)
           = Cardinality(entries) + Cardinality(begun) - Cardinality(entries \intersect begun)
      /\ Cardinality(entries \intersect begun) \in Nat
  BY <1>1, <1>3, FS_Union, FS_Intersection, FS_CardinalityType
<1> QED
  BY <1>1, <1>2, <1>3, <1>4

-----------------------------------------------------------------------------
\* The jobs a tick starts, and those it fails for want of a handler.
Begun == Claimed \intersect handled
Orphan == Claimed \ handled

\* What a tick's start of jobs writes, by these two sets.
LEMMA StartJobsWrites ==
  ASSUME IInv, StartJobs
  PROVE  /\ Begun \subseteq Jobs /\ Orphan \subseteq Jobs
         /\ \A j \in Begun \union Orphan : status[j] \in {"pending", "retrying"}
         /\ status' = [j \in Jobs |-> IF j \in Begun THEN "running"
                                      ELSE IF j \in Orphan THEN "failed" ELSE status[j]]
         /\ run' = [j \in Jobs |-> IF j \in Begun \intersect CronJobs THEN "running"
                                   ELSE IF j \in Orphan \intersect CronJobs THEN "failed"
                                   ELSE run[j]]
         /\ missed' = Write(missed, (Begun \union Orphan) \intersect CronJobs, "none")
         /\ delivery' = Write(delivery, Orphan, "delivering")
         /\ tries' = [j \in Jobs |-> IF j \in Orphan THEN tries[j] + 1 ELSE tries[j]]
         /\ pc' = [j \in Jobs |-> IF j \in Begun THEN "handling"
                                  ELSE IF j \in Orphan THEN "delivering" ELSE pc[j]]
         /\ signal' = Write(signal, Begun, "live")
         /\ entries' = entries \union Begun
<1>1. Claimed \subseteq Jobs /\ \A j \in Claimed : status[j] \in {"pending", "retrying"}
  BY DEF IInv, TypeOK, Claimed, Selected, Claimable
<1> QED
  BY <1>1 DEF StartJobs, Begun, Orphan, StatusStarted, RunStarted, AfterStart

\* A process that dies while it starts jobs has claimed or failed some of them.
LEMMA ExitStartingWrites ==
  ASSUME IInv, NEW j \in Jobs, ExitStarting(j)
  PROVE  /\ EndsProcess /\ MemoryLost /\ UNCHANGED <<retries, handled, cancels>>
         /\ \E S \in SUBSET Jobs :
              /\ \A i \in S : status[i] \in {"pending", "retrying"}
              /\ status' \in [Jobs -> {"absent", "pending", "running", "retrying"} \union Ended]
              /\ run' \in [Jobs -> {"none", "queued", "running", "retrying"} \union Ended]
              /\ missed' \in [Jobs -> {"none", "running", "retrying"} \union Ended]
              /\ \A i \in Jobs \ S : status'[i] = status[i] /\ run'[i] = run[i] /\ missed'[i] = missed[i]
              /\ \A i \in S : status'[i] \in {"running", "failed"}
              /\ \A i \in S \intersect CronJobs :
                   \/ run'[i] = status'[i] /\ missed'[i] = "none"
                   \/ run'[i] \in {run[i], "running"} /\ missed'[i] = status'[i]
         /\ delivery' \in [Jobs -> {"none", "pending", "delivering", "retrying", "delivered", "failed"}]
         /\ tries' \in [Jobs -> Nat]
         /\ backoff' \subseteq backoff /\ overdue' \subseteq overdue
         /\ deliveryBackoff' \subseteq deliveryBackoff
<1> DEFINE older == {i \in Claimed : i < j}
           S == older \union {j}
<1> USE DEF Write
<1>1. TypeOK
  BY DEF IInv
<1>2. Claimed \subseteq Jobs /\ \A i \in Claimed : status[i] \in {"pending", "retrying"}
  BY <1>1 DEF TypeOK, Claimed, Selected, Claimable
<1>3. PICK last \in {"running", AfterStart(j)}, told \in BOOLEAN :
        /\ status' = [StatusStarted(older) EXCEPT ![j] = last]
        /\ run' = [RunStarted(older) EXCEPT ![j] = IF j \notin CronJobs THEN @
                                                  ELSE IF told THEN last
                                                  ELSE IF last = "failed" THEN "running" ELSE @]
        /\ missed' = Write(Write(missed, older \intersect CronJobs, "none"),
                           {j} \intersect CronJobs, IF told THEN "none" ELSE last)
        /\ delivery' = [Write(delivery, older \ handled, "delivering") EXCEPT ![j] =
                          IF last = "failed" THEN "pending" ELSE @]
        /\ tries' = [i \in Jobs |-> IF i \in older \ handled THEN tries[i] + 1 ELSE tries[i]]
        /\ backoff' = backoff \ (older \union {j})
        /\ deliveryBackoff' = deliveryBackoff \ ((older \ handled) \union {i \in {j} : last = "failed"})
        /\ overdue' = overdue \ (older \union {j})
  BY DEF ExitStarting
<1>4. last \in {"running", "failed"} /\ \A i \in Jobs : AfterStart(i) \in {"running", "failed"}
  BY DEF AfterStart
<1>5. S \in SUBSET Jobs /\ \A i \in S : status[i] \in {"pending", "retrying"}
  BY <1>2 DEF ExitStarting
<1>6. /\ EndsProcess /\ MemoryLost /\ UNCHANGED <<retries, handled, cancels>>
      /\ backoff' \subseteq backoff /\ overdue' \subseteq overdue
      /\ deliveryBackoff' \subseteq deliveryBackoff
  BY <1>3 DEF ExitStarting
<1>7. /\ delivery' \in [Jobs -> {"none", "pending", "delivering", "retrying", "delivered", "failed"}]
      /\ tries' \in [Jobs -> Nat]
  BY <1>1, <1>3 DEF TypeOK
<1>8. /\ status' = [i \in Jobs |-> IF i = j THEN last
                                   ELSE IF i \in older THEN AfterStart(i) ELSE status[i]]
      /\ run' = [i \in Jobs |-> IF i \in CronJobs /\ i = j
                                  THEN (IF told THEN last ELSE IF last = "failed" THEN "running"
                                        ELSE IF j \in older THEN AfterStart(j) ELSE run[j])
                                ELSE IF i \in older \intersect CronJobs THEN AfterStart(i) ELSE run[i]]
      /\ missed' = [i \in Jobs |-> IF i \in CronJobs /\ i = j THEN (IF told THEN "none" ELSE last)
                                   ELSE IF i \in older \intersect CronJobs THEN "none" ELSE missed[i]]
  BY <1>3 DEF StatusStarted, RunStarted
<1>9. j \notin older
  BY JobsFinite
<1>10. /\ status' \in [Jobs -> {"absent", "pending", "running", "retrying"} \union Ended]
       /\ run' \in [Jobs -> {"none", "queued", "running", "retrying"} \union Ended]
       /\ missed' \in [Jobs -> {"none", "running", "retrying"} \union Ended]
  BY <1>1, <1>4, <1>8 DEF TypeOK, Ended
<1>11. \A i \in Jobs \ S : status'[i] = status[i] /\ run'[i] = run[i] /\ missed'[i] = missed[i]
  BY <1>8
<1>12. \A i \in S : status'[i] \in {"running", "failed"}
  BY <1>4, <1>5, <1>8
<1>13. \A i \in S \intersect CronJobs :
         \/ run'[i] = status'[i] /\ missed'[i] = "none"
         \/ run'[i] \in {run[i], "running"} /\ missed'[i] = status'[i]
  BY <1>4, <1>5, <1>8, <1>9
<1> HIDE DEF S
<1> QED
  BY <1>5, <1>6, <1>7, <1>10, <1>11, <1>12, <1>13

\* The rows a cancellation of the cron task reaches, those of them with a run that
\* is still open, and those whose handler hears of it.
Reached == {j \in CronJobs : status[j] \notin Ended \union {"absent"}}
OpenRuns == {j \in Reached : run[j] \notin Ended}
Told == {j \in Reached \intersect entries : signal[j] = "live"}

\* What the cancellation writes, by these three.
LEMMA CascadeWrites ==
  ASSUME CascadeCancelCronTask
  PROVE  /\ status' = Write(status, Reached, "cancelled")
         /\ delivery' = Write(delivery, Reached, "none")
         /\ run' = Write(run, OpenRuns, "cancelled")
         /\ missed' = [j \in Jobs |-> IF j \notin Reached THEN missed[j]
                                      ELSE IF run[j] \in Ended THEN "cancelled" ELSE "none"]
         /\ signal' = Write(signal, Told, "cancelled")
         /\ backoff' = backoff \ Reached /\ deliveryBackoff' = deliveryBackoff \ Reached
         /\ overdue' = overdue \ Reached /\ cancels' = cancels + 1
         /\ UNCHANGED <<retries, tries, process, pc, entries, ticking, handled, restarts>>
BY DEF CascadeCancelCronTask, Reached, OpenRuns, Told

\* These keep the shape of what they write.
LEMMA StartJobsTypes ==
  ASSUME IInv, StartJobs
  PROVE  TypeOK'
<1> USE StartJobsWrites DEF Write
<1>1. TypeOK
  BY DEF IInv
<1>2. status' \in [Jobs -> {"absent", "pending", "running", "retrying"} \union Ended]
  BY <1>1 DEF TypeOK, Ended
<1>3. run' \in [Jobs -> {"none", "queued", "running", "retrying"} \union Ended]
  BY <1>1 DEF TypeOK, Ended
<1>4. delivery' \in [Jobs -> {"none", "pending", "delivering", "retrying", "delivered", "failed"}]
  BY <1>1 DEF TypeOK
<1>5. tries' \in [Jobs -> Nat]
  BY <1>1 DEF TypeOK
<1>6. pc' \in [Jobs -> {"idle", "handling", "delivering"}]
  BY <1>1 DEF TypeOK
<1>7. signal' \in [Jobs -> {"none", "live", "aborted", "cancelled"}] /\ entries' \subseteq Jobs
  BY <1>1 DEF TypeOK
<1>8. missed' \in [Jobs -> {"none", "running", "retrying"} \union Ended]
  BY <1>1 DEF TypeOK
<1>9. /\ backoff' = backoff \ Claimed /\ deliveryBackoff' = deliveryBackoff \ Orphan
      /\ overdue' = overdue \ Claimed /\ tick' = "idle" /\ snapshot' = {}
      /\ UNCHANGED <<retries, process, outbox, parcel, handled, bounds>>
  BY DEF StartJobs, Orphan
<1> QED
  BY <1>1, <1>2, <1>3, <1>4, <1>5, <1>6, <1>7, <1>8, <1>9 DEF TypeOK, bounds

LEMMA ExitStartingTypes ==
  ASSUME IInv, NEW j \in Jobs, ExitStarting(j)
  PROVE  TypeOK' /\ ParcelInHand'
<1>1. TypeOK
  BY DEF IInv
<1>2. /\ EndsProcess /\ MemoryLost /\ UNCHANGED <<retries, handled, cancels>>
      /\ status' \in [Jobs -> {"absent", "pending", "running", "retrying"} \union Ended]
      /\ run' \in [Jobs -> {"none", "queued", "running", "retrying"} \union Ended]
      /\ missed' \in [Jobs -> {"none", "running", "retrying"} \union Ended]
      /\ delivery' \in [Jobs -> {"none", "pending", "delivering", "retrying", "delivered", "failed"}]
      /\ tries' \in [Jobs -> Nat]
      /\ backoff' \subseteq backoff /\ overdue' \subseteq overdue
      /\ deliveryBackoff' \subseteq deliveryBackoff
  BY ExitStartingWrites
<1>3. restarts' \in Nat
  BY <1>1, <1>2 DEF TypeOK, EndsProcess
<1> QED
  BY <1>1, <1>2, <1>3 DEF TypeOK, ParcelInHand, MemoryLost

LEMMA CascadeTypes ==
  ASSUME IInv, CascadeCancelCronTask
  PROVE  TypeOK'
<1> USE CascadeWrites DEF Write
<1>1. TypeOK
  BY DEF IInv
<1>2. status' \in [Jobs -> {"absent", "pending", "running", "retrying"} \union Ended]
  BY <1>1 DEF TypeOK, Ended
<1>3. run' \in [Jobs -> {"none", "queued", "running", "retrying"} \union Ended]
  BY <1>1 DEF TypeOK, Ended
<1>4. delivery' \in [Jobs -> {"none", "pending", "delivering", "retrying", "delivered", "failed"}]
  BY <1>1 DEF TypeOK
<1>5. signal' \in [Jobs -> {"none", "live", "aborted", "cancelled"}]
  BY <1>1 DEF TypeOK
<1>6. cancels' \in Nat
  BY <1>1 DEF TypeOK
<1>7. missed' \in [Jobs -> {"none", "running", "retrying"} \union Ended]
  BY <1>1 DEF TypeOK, Ended
<1> QED
  BY <1>1, <1>2, <1>3, <1>4, <1>5, <1>6, <1>7 DEF TypeOK, ticking

\* Every step keeps every variable's shape.
LEMMA TypeInductive ==
  ASSUME IInv, [Next]_vars
  PROVE  TypeOK' /\ ParcelInHand'
<1> USE JobsFinite, CapsAssumption, RunnerBounds
    DEF IInv, TypeOK, ParcelInHand, Write, WriteRun, table, handlers, ticking, bounds, Ended
<1>1. ASSUME NEW j \in Jobs, AddJob(j) PROVE TypeOK' /\ ParcelInHand'
  BY <1>1 DEF AddJob
<1>2. CASE Tick
  BY <1>2 DEF Tick, CheckTimeouts, Stale
<1>3. ASSUME NEW j \in Jobs, SendNext(j) PROVE TypeOK' /\ ParcelInHand'
  BY <1>3 DEF SendNext, ClaimDelivery
<1>4. CASE TickDelivered
  BY <1>4 DEF TickDelivered, DeliverySettles
<1>5. CASE StartJobs
  BY <1>5, StartJobsTypes DEF StartJobs
<1>6. ASSUME NEW j \in Jobs, HandlerResolves(j) PROVE TypeOK' /\ ParcelInHand'
  BY <1>6 DEF HandlerResolves, Handling, LetGo, Conclude, ClaimDelivery
<1>7. ASSUME NEW j \in Jobs, HandlerRetries(j) PROVE TypeOK' /\ ParcelInHand'
  BY <1>7 DEF HandlerRetries, Handling, Retryable, LetGo
<1>8. ASSUME NEW j \in Jobs, HandlerFails(j) PROVE TypeOK' /\ ParcelInHand'
  BY <1>8 DEF HandlerFails, Handling, LetGo, Conclude, ClaimDelivery
<1>9. ASSUME NEW j \in Jobs, HandlerCancelled(j) PROVE TypeOK' /\ ParcelInHand'
  BY <1>9 DEF HandlerCancelled, Handling, LetGo
<1>10. ASSUME NEW j \in Jobs, ResultDelivered(j) PROVE TypeOK' /\ ParcelInHand'
  BY <1>10 DEF ResultDelivered, DeliverySettles
<1>11. ASSUME NEW j \in Jobs, TimeoutFires(j) PROVE TypeOK' /\ ParcelInHand'
  BY <1>11 DEF TimeoutFires
<1>12. ASSUME NEW j \in Jobs, BecomesOverdue(j) PROVE TypeOK' /\ ParcelInHand'
  BY <1>12 DEF BecomesOverdue
<1>13. ASSUME NEW j \in Jobs, BackoffOver(j) PROVE TypeOK' /\ ParcelInHand'
  BY <1>13 DEF BackoffOver
<1>14. ASSUME NEW j \in Jobs, DeliveryBackoffOver(j) PROVE TypeOK' /\ ParcelInHand'
  BY <1>14 DEF DeliveryBackoffOver
<1>15. CASE CascadeCancelCronTask
  BY <1>15, CascadeTypes, CascadeWrites
<1>16. CASE Stop
  BY <1>16 DEF Stop, EndsProcess
<1>17. CASE Exit
  BY <1>17 DEF Exit, EndsProcess, MemoryLost
<1>18. ASSUME NEW j \in Jobs, ExitSweeping(j) PROVE TypeOK' /\ ParcelInHand'
  BY <1>18 DEF ExitSweeping, Stale, EndsProcess, MemoryLost
<1>19. ASSUME NEW j \in Jobs, ExitStarting(j) PROVE TypeOK' /\ ParcelInHand'
  BY <1>19, ExitStartingTypes
<1>20. ASSUME NEW j \in Jobs, ExitConcluding(j) PROVE TypeOK' /\ ParcelInHand'
  BY <1>20 DEF ExitConcluding, RunMisses, Handling, EndsProcess, MemoryLost
<1>21. ASSUME NEW j \in Jobs, ExitRetrying(j) PROVE TypeOK' /\ ParcelInHand'
  BY <1>21 DEF ExitRetrying, RunMisses, Retryable, Handling, EndsProcess, MemoryLost
<1>22. CASE Restart
  BY <1>22 DEF Restart, RecoverOrphaned
<1>23. CASE UNCHANGED vars
  BY <1>23 DEF vars
<1> QED
  BY <1>1, <1>2, <1>3, <1>4, <1>5, <1>6, <1>7, <1>8, <1>9, <1>10, <1>11, <1>12, <1>13, <1>14, <1>15, <1>16, <1>17, <1>18, <1>19, <1>20, <1>21, <1>22, <1>23
  DEF Next, TickActs, HandlerActs

\* Rows, handlers and signals go on agreeing.
LEMMA ControlInductive ==
  ASSUME IInv, TypeOK', [Next]_vars
  PROVE  Control'
<1> USE DEF IInv, TypeOK, Control, RowsOfHandlers, SignalsTellWhy, NothingDown, RunningIsHandled,
            Write, WriteRun, table, handlers, ticking, bounds, Ended, Yielded
<1>1. ASSUME NEW j \in Jobs, AddJob(j) PROVE Control'
  BY <1>1 DEF AddJob
<1>2. CASE Tick
  BY <1>2 DEF Tick, CheckTimeouts, Stale
<1>3. ASSUME NEW j \in Jobs, SendNext(j) PROVE Control'
  BY <1>3 DEF SendNext, ClaimDelivery
<1>4. CASE TickDelivered
  BY <1>4 DEF TickDelivered, DeliverySettles
<1>5. CASE StartJobs
  BY <1>5, StartJobsWrites DEF StartJobs
<1>6. ASSUME NEW j \in Jobs, HandlerResolves(j) PROVE Control'
  BY <1>6 DEF HandlerResolves, Handling, LetGo, Conclude, ClaimDelivery
<1>7. ASSUME NEW j \in Jobs, HandlerRetries(j) PROVE Control'
  BY <1>7 DEF HandlerRetries, Handling, Retryable, LetGo
<1>8. ASSUME NEW j \in Jobs, HandlerFails(j) PROVE Control'
  BY <1>8 DEF HandlerFails, Handling, LetGo, Conclude, ClaimDelivery
<1>9. ASSUME NEW j \in Jobs, HandlerCancelled(j) PROVE Control'
  BY <1>9 DEF HandlerCancelled, Handling, LetGo
<1>10. ASSUME NEW j \in Jobs, ResultDelivered(j) PROVE Control'
  BY <1>10 DEF ResultDelivered, DeliverySettles
<1>11. ASSUME NEW j \in Jobs, TimeoutFires(j) PROVE Control'
  BY <1>11 DEF TimeoutFires
<1>12. ASSUME NEW j \in Jobs, BecomesOverdue(j) PROVE Control'
  BY <1>12 DEF BecomesOverdue
<1>13. ASSUME NEW j \in Jobs, BackoffOver(j) PROVE Control'
  BY <1>13 DEF BackoffOver
<1>14. ASSUME NEW j \in Jobs, DeliveryBackoffOver(j) PROVE Control'
  BY <1>14 DEF DeliveryBackoffOver
<1>15. CASE CascadeCancelCronTask
  BY <1>15, CascadeWrites DEF CascadeCancelCronTask, Reached, OpenRuns, Told
<1>16. CASE Stop
  BY <1>16 DEF Stop, EndsProcess
<1>17. CASE Exit
  BY <1>17 DEF Exit, EndsProcess, MemoryLost
<1>18. ASSUME NEW j \in Jobs, ExitSweeping(j) PROVE Control'
  BY <1>18 DEF ExitSweeping, Stale, EndsProcess, MemoryLost
<1>19. ASSUME NEW j \in Jobs, ExitStarting(j) PROVE Control'
  BY <1>19, ExitStartingWrites DEF EndsProcess, MemoryLost
<1>20. ASSUME NEW j \in Jobs, ExitConcluding(j) PROVE Control'
  BY <1>20 DEF ExitConcluding, RunMisses, Handling, EndsProcess, MemoryLost
<1>21. ASSUME NEW j \in Jobs, ExitRetrying(j) PROVE Control'
  BY <1>21 DEF ExitRetrying, RunMisses, Retryable, Handling, EndsProcess, MemoryLost
<1>22. CASE Restart
  BY <1>22 DEF Restart, RecoverOrphaned
<1>23. CASE UNCHANGED vars
  BY <1>23 DEF vars
<1> QED
  BY <1>1, <1>2, <1>3, <1>4, <1>5, <1>6, <1>7, <1>8, <1>9, <1>10, <1>11, <1>12, <1>13, <1>14, <1>15, <1>16, <1>17, <1>18, <1>19, <1>20, <1>21, <1>22, <1>23
  DEF Next, TickActs, HandlerActs

\* Fewer entries take no more slots.
LEMMA FewerEntries ==
  ASSUME IInv, NEW S \in SUBSET entries
  PROVE  Cardinality(entries) <= MaxConcurrent => Cardinality(S) <= MaxConcurrent
<1>1. entries \subseteq Jobs /\ MaxConcurrent \in Nat
  BY CapsAssumption DEF IInv, TypeOK
<1>2. /\ IsFiniteSet(entries) /\ IsFiniteSet(S) /\ Cardinality(S) <= Cardinality(entries)
      /\ Cardinality(entries) \in Nat /\ Cardinality(S) \in Nat
  BY <1>1, JobsFinite, FS_Subset, FS_CardinalityType
<1> QED
  BY <1>1, <1>2

\* The runner goes on counting the handlers whose rows it has not failed.
LEMMA SlotsInductive ==
  ASSUME IInv, TypeOK', [Next]_vars
  PROVE  SlotsCounted'
<1> USE DEF IInv, TypeOK, SlotsCounted, Write, WriteRun, table, handlers, ticking, bounds, Ended, Yielded
<1>1. ASSUME NEW j \in Jobs, AddJob(j) PROVE SlotsCounted'
  BY <1>1 DEF AddJob
<1>2. CASE Tick
  BY <1>2, FewerEntries DEF Tick, CheckTimeouts, Stale
<1>3. ASSUME NEW j \in Jobs, SendNext(j) PROVE SlotsCounted'
  BY <1>3 DEF SendNext, ClaimDelivery
<1>4. CASE TickDelivered
  BY <1>4 DEF TickDelivered, DeliverySettles
<1>5. CASE StartJobs
  BY <1>5, StartJobsWrites, StartedFit DEF StartJobs, Begun
<1>6. ASSUME NEW j \in Jobs, HandlerResolves(j) PROVE SlotsCounted'
  BY <1>6, FewerEntries DEF HandlerResolves, Handling, LetGo, Conclude, ClaimDelivery
<1>7. ASSUME NEW j \in Jobs, HandlerRetries(j) PROVE SlotsCounted'
  BY <1>7, FewerEntries DEF HandlerRetries, Handling, Retryable, LetGo
<1>8. ASSUME NEW j \in Jobs, HandlerFails(j) PROVE SlotsCounted'
  BY <1>8, FewerEntries DEF HandlerFails, Handling, LetGo, Conclude, ClaimDelivery
<1>9. ASSUME NEW j \in Jobs, HandlerCancelled(j) PROVE SlotsCounted'
  BY <1>9, FewerEntries DEF HandlerCancelled, Handling, LetGo
<1>10. ASSUME NEW j \in Jobs, ResultDelivered(j) PROVE SlotsCounted'
  BY <1>10 DEF ResultDelivered, DeliverySettles
<1>11. ASSUME NEW j \in Jobs, TimeoutFires(j) PROVE SlotsCounted'
  BY <1>11 DEF TimeoutFires
<1>12. ASSUME NEW j \in Jobs, BecomesOverdue(j) PROVE SlotsCounted'
  BY <1>12 DEF BecomesOverdue
<1>13. ASSUME NEW j \in Jobs, BackoffOver(j) PROVE SlotsCounted'
  BY <1>13 DEF BackoffOver
<1>14. ASSUME NEW j \in Jobs, DeliveryBackoffOver(j) PROVE SlotsCounted'
  BY <1>14 DEF DeliveryBackoffOver
<1>15. CASE CascadeCancelCronTask
  BY <1>15, CascadeWrites DEF Reached, Told
<1>16. CASE Stop
  BY <1>16 DEF Stop, EndsProcess
<1>17. CASE Exit
  BY <1>17 DEF Exit, EndsProcess, MemoryLost
<1>18. ASSUME NEW j \in Jobs, ExitSweeping(j) PROVE SlotsCounted'
  BY <1>18 DEF ExitSweeping, Stale, EndsProcess, MemoryLost
<1>19. ASSUME NEW j \in Jobs, ExitStarting(j) PROVE SlotsCounted'
  BY <1>19, ExitStartingWrites DEF EndsProcess, MemoryLost
<1>20. ASSUME NEW j \in Jobs, ExitConcluding(j) PROVE SlotsCounted'
  BY <1>20 DEF ExitConcluding, RunMisses, Handling, EndsProcess, MemoryLost
<1>21. ASSUME NEW j \in Jobs, ExitRetrying(j) PROVE SlotsCounted'
  BY <1>21 DEF ExitRetrying, RunMisses, Retryable, Handling, EndsProcess, MemoryLost
<1>22. CASE Restart
  <2>1. entries' = {} /\ \A j \in Jobs : pc'[j] = "idle"
    BY <1>22 DEF Restart, Control, NothingDown
  <2>2. Cardinality(entries') = 0 /\ MaxConcurrent \in Nat
    BY <2>1, FS_EmptySet, CapsAssumption
  <2> QED
    BY <2>1, <2>2
<1>23. CASE UNCHANGED vars
  BY <1>23 DEF vars
<1> QED
  BY <1>1, <1>2, <1>3, <1>4, <1>5, <1>6, <1>7, <1>8, <1>9, <1>10, <1>11, <1>12, <1>13, <1>14, <1>15, <1>16, <1>17, <1>18, <1>19, <1>20, <1>21, <1>22, <1>23
  DEF Next, TickActs, HandlerActs

\* Ends of the process are counted before it is down.
LEMMA EndedInductive ==
  ASSUME IInv, TypeOK', [Next]_vars
  PROVE  EndedBefore'
<1> USE DEF EndedBefore
<1>1. EndedBefore /\ restarts \in Nat
  BY DEF IInv, TypeOK
<1>2. EndsProcess => restarts' > 0
  BY <1>1 DEF IInv, TypeOK, EndsProcess
<1>3. CASE Stop \/ Exit \/ Restart
  BY <1>2, <1>3 DEF Stop, Exit, Restart
<1>4. ASSUME NEW j \in Jobs,
             ExitSweeping(j) \/ ExitStarting(j) \/ ExitConcluding(j) \/ ExitRetrying(j)
      PROVE  EndedBefore'
  BY <1>2, <1>4 DEF ExitSweeping, ExitStarting, ExitConcluding, ExitRetrying
<1>5. CASE UNCHANGED <<process, restarts>>
  BY <1>1, <1>5
<1>6. TickActs => UNCHANGED <<process, restarts>>
  BY DEF TickActs, Tick, SendNext, TickDelivered, StartJobs, bounds
<1>7. CASE CascadeCancelCronTask
  BY <1>1, <1>7 DEF CascadeCancelCronTask
<1>8. \A j \in Jobs : HandlerActs(j) => UNCHANGED <<process, restarts>>
  BY DEF HandlerActs, HandlerResolves, HandlerRetries, HandlerFails, HandlerCancelled, ResultDelivered, bounds
<1>9. \A j \in Jobs : AddJob(j) \/ TimeoutFires(j) \/ BecomesOverdue(j) \/ BackoffOver(j) \/ DeliveryBackoffOver(j)
                        => UNCHANGED <<process, restarts>>
  BY DEF AddJob, TimeoutFires, BecomesOverdue, BackoffOver, DeliveryBackoffOver, bounds
<1>10. UNCHANGED vars => UNCHANGED <<process, restarts>>
  BY DEF vars, bounds
<1> QED
  BY <1>3, <1>4, <1>5, <1>6, <1>7, <1>8, <1>9, <1>10 DEF Next

\* Every step that writes a row writes its run, or the process ends there.
LEMMA RunsInductive ==
  ASSUME IInv, TypeOK', [Next]_vars
  PROVE  RunAgreesWithJob'
<1> USE JobSetsAssumption
    DEF IInv, TypeOK, RunAgreesWithJob, RunOf, EndedBefore, Control, RowsOfHandlers, NothingDown, Write, WriteRun, table, handlers, ticking, bounds, Ended
<1>1. ASSUME NEW j \in Jobs, AddJob(j) PROVE RunAgreesWithJob'
  BY <1>1 DEF AddJob
<1>2. CASE Tick
  BY <1>2 DEF Tick, CheckTimeouts, Stale
<1>3. ASSUME NEW j \in Jobs, SendNext(j) PROVE RunAgreesWithJob'
  BY <1>3 DEF SendNext, ClaimDelivery
<1>4. CASE TickDelivered
  BY <1>4 DEF TickDelivered, DeliverySettles
<1>5. CASE StartJobs
  BY <1>5, StartJobsWrites DEF StartJobs
<1>6. ASSUME NEW j \in Jobs, HandlerResolves(j) PROVE RunAgreesWithJob'
  BY <1>6 DEF HandlerResolves, Handling, LetGo, Conclude, ClaimDelivery
<1>7. ASSUME NEW j \in Jobs, HandlerRetries(j) PROVE RunAgreesWithJob'
  BY <1>7 DEF HandlerRetries, Handling, Retryable, LetGo
<1>8. ASSUME NEW j \in Jobs, HandlerFails(j) PROVE RunAgreesWithJob'
  BY <1>8 DEF HandlerFails, Handling, LetGo, Conclude, ClaimDelivery
<1>9. ASSUME NEW j \in Jobs, HandlerCancelled(j) PROVE RunAgreesWithJob'
  BY <1>9 DEF HandlerCancelled, Handling, LetGo
<1>10. ASSUME NEW j \in Jobs, ResultDelivered(j) PROVE RunAgreesWithJob'
  BY <1>10 DEF ResultDelivered, DeliverySettles
<1>11. ASSUME NEW j \in Jobs, TimeoutFires(j) PROVE RunAgreesWithJob'
  BY <1>11 DEF TimeoutFires
<1>12. ASSUME NEW j \in Jobs, BecomesOverdue(j) PROVE RunAgreesWithJob'
  BY <1>12 DEF BecomesOverdue
<1>13. ASSUME NEW j \in Jobs, BackoffOver(j) PROVE RunAgreesWithJob'
  BY <1>13 DEF BackoffOver
<1>14. ASSUME NEW j \in Jobs, DeliveryBackoffOver(j) PROVE RunAgreesWithJob'
  BY <1>14 DEF DeliveryBackoffOver
<1>15. CASE CascadeCancelCronTask
  BY <1>15, CascadeWrites DEF Reached, OpenRuns, Told
<1>16. CASE Stop
  BY <1>16 DEF Stop, EndsProcess
<1>17. CASE Exit
  BY <1>17 DEF Exit, EndsProcess, MemoryLost
<1>18. ASSUME NEW j \in Jobs, ExitSweeping(j) PROVE RunAgreesWithJob'
  BY <1>18 DEF ExitSweeping, Stale, EndsProcess, MemoryLost
<1>19. ASSUME NEW j \in Jobs, ExitStarting(j) PROVE RunAgreesWithJob'
  BY <1>19, ExitStartingWrites DEF EndsProcess, MemoryLost
<1>20. ASSUME NEW j \in Jobs, ExitConcluding(j) PROVE RunAgreesWithJob'
  BY <1>20 DEF ExitConcluding, RunMisses, Handling, EndsProcess, MemoryLost
<1>21. ASSUME NEW j \in Jobs, ExitRetrying(j) PROVE RunAgreesWithJob'
  BY <1>21 DEF ExitRetrying, RunMisses, Retryable, Handling, EndsProcess, MemoryLost
<1>22. CASE Restart
  BY <1>22 DEF Restart, RecoverOrphaned
<1>23. CASE UNCHANGED vars
  BY <1>23 DEF vars
<1> QED
  BY <1>1, <1>2, <1>3, <1>4, <1>5, <1>6, <1>7, <1>8, <1>9, <1>10, <1>11, <1>12, <1>13, <1>14, <1>15, <1>16, <1>17, <1>18, <1>19, <1>20, <1>21, <1>22, <1>23
  DEF Next, TickActs, HandlerActs

-----------------------------------------------------------------------------
\* The two action properties, as actions.
StartsClean ==
  \A j \in Jobs : status[j] # "running" /\ status'[j] = "running" => pc[j] = "idle"
EndedRests ==
  \A j \in Jobs :
    \/ status[j] \in {"completed", "failed"} /\ pc[j] # "handling"
    \/ status[j] = "cancelled" /\ signal[j] # "aborted"
      => status'[j] = status[j]

\* A row becomes running only when it is claimed, and a row that waits has no
\* handler at work.
LEMMA StartsFindNoHandler ==
  ASSUME IInv, [Next]_vars
  PROVE  StartsClean
<1> USE DEF IInv, TypeOK, Control, RowsOfHandlers, Write, table, handlers, Ended, StartsClean
<1>1. ASSUME NEW j \in Jobs, AddJob(j) PROVE StartsClean
  BY <1>1 DEF AddJob
<1>2. CASE Tick
  BY <1>2 DEF Tick, CheckTimeouts, Stale
<1>3. ASSUME NEW j \in Jobs, SendNext(j) PROVE StartsClean
  BY <1>3 DEF SendNext, ClaimDelivery
<1>4. CASE TickDelivered
  BY <1>4 DEF TickDelivered, DeliverySettles
<1>5. CASE StartJobs
  BY <1>5, StartJobsWrites
<1>6. ASSUME NEW j \in Jobs, HandlerResolves(j) PROVE StartsClean
  BY <1>6 DEF HandlerResolves, Handling, LetGo, Conclude, ClaimDelivery
<1>7. ASSUME NEW j \in Jobs, HandlerRetries(j) PROVE StartsClean
  BY <1>7 DEF HandlerRetries, Handling, Retryable, LetGo
<1>8. ASSUME NEW j \in Jobs, HandlerFails(j) PROVE StartsClean
  BY <1>8 DEF HandlerFails, Handling, LetGo, Conclude, ClaimDelivery
<1>9. ASSUME NEW j \in Jobs, HandlerCancelled(j) PROVE StartsClean
  BY <1>9 DEF HandlerCancelled, Handling, LetGo
<1>10. ASSUME NEW j \in Jobs, ResultDelivered(j) PROVE StartsClean
  BY <1>10 DEF ResultDelivered, DeliverySettles
<1>11. ASSUME NEW j \in Jobs, TimeoutFires(j) PROVE StartsClean
  BY <1>11 DEF TimeoutFires
<1>12. ASSUME NEW j \in Jobs, BecomesOverdue(j) PROVE StartsClean
  BY <1>12 DEF BecomesOverdue
<1>13. ASSUME NEW j \in Jobs, BackoffOver(j) PROVE StartsClean
  BY <1>13 DEF BackoffOver
<1>14. ASSUME NEW j \in Jobs, DeliveryBackoffOver(j) PROVE StartsClean
  BY <1>14 DEF DeliveryBackoffOver
<1>15. CASE CascadeCancelCronTask
  BY <1>15, CascadeWrites
<1>16. CASE Stop
  BY <1>16 DEF Stop, EndsProcess
<1>17. CASE Exit
  BY <1>17 DEF Exit, EndsProcess, MemoryLost
<1>18. ASSUME NEW j \in Jobs, ExitSweeping(j) PROVE StartsClean
  BY <1>18 DEF ExitSweeping, Stale, EndsProcess, MemoryLost
<1>19. ASSUME NEW j \in Jobs, ExitStarting(j) PROVE StartsClean
  BY <1>19, ExitStartingWrites DEF EndsProcess, MemoryLost
<1>20. ASSUME NEW j \in Jobs, ExitConcluding(j) PROVE StartsClean
  BY <1>20 DEF ExitConcluding, RunMisses, Handling, EndsProcess, MemoryLost
<1>21. ASSUME NEW j \in Jobs, ExitRetrying(j) PROVE StartsClean
  BY <1>21 DEF ExitRetrying, RunMisses, Retryable, Handling, EndsProcess, MemoryLost
<1>22. CASE Restart
  BY <1>22 DEF Restart, RecoverOrphaned
<1>23. CASE UNCHANGED vars
  BY <1>23 DEF vars
<1> QED
  BY <1>1, <1>2, <1>3, <1>4, <1>5, <1>6, <1>7, <1>8, <1>9, <1>10, <1>11, <1>12, <1>13, <1>14, <1>15, <1>16, <1>17, <1>18, <1>19, <1>20, <1>21, <1>22, <1>23
  DEF Next, TickActs, HandlerActs

\* Only the late answer of a handler writes a row that has ended, and to a
\* cancelled row only that of a handler the timeout had aborted.
LEMMA EndedRowsRest ==
  ASSUME IInv, [Next]_vars
  PROVE  EndedRests
<1> USE DEF IInv, TypeOK, Control, RowsOfHandlers, SignalsTellWhy, Write, table, handlers, Ended,
            EndedRests
<1>1. ASSUME NEW j \in Jobs, AddJob(j) PROVE EndedRests
  BY <1>1 DEF AddJob
<1>2. CASE Tick
  BY <1>2 DEF Tick, CheckTimeouts, Stale
<1>3. ASSUME NEW j \in Jobs, SendNext(j) PROVE EndedRests
  BY <1>3 DEF SendNext, ClaimDelivery
<1>4. CASE TickDelivered
  BY <1>4 DEF TickDelivered, DeliverySettles
<1>5. CASE StartJobs
  BY <1>5, StartJobsWrites
<1>6. ASSUME NEW j \in Jobs, HandlerResolves(j) PROVE EndedRests
  BY <1>6 DEF HandlerResolves, Handling, LetGo, Conclude, ClaimDelivery
<1>7. ASSUME NEW j \in Jobs, HandlerRetries(j) PROVE EndedRests
  BY <1>7 DEF HandlerRetries, Handling, Retryable, LetGo
<1>8. ASSUME NEW j \in Jobs, HandlerFails(j) PROVE EndedRests
  BY <1>8 DEF HandlerFails, Handling, LetGo, Conclude, ClaimDelivery
<1>9. ASSUME NEW j \in Jobs, HandlerCancelled(j) PROVE EndedRests
  BY <1>9 DEF HandlerCancelled, Handling, LetGo
<1>10. ASSUME NEW j \in Jobs, ResultDelivered(j) PROVE EndedRests
  BY <1>10 DEF ResultDelivered, DeliverySettles
<1>11. ASSUME NEW j \in Jobs, TimeoutFires(j) PROVE EndedRests
  BY <1>11 DEF TimeoutFires
<1>12. ASSUME NEW j \in Jobs, BecomesOverdue(j) PROVE EndedRests
  BY <1>12 DEF BecomesOverdue
<1>13. ASSUME NEW j \in Jobs, BackoffOver(j) PROVE EndedRests
  BY <1>13 DEF BackoffOver
<1>14. ASSUME NEW j \in Jobs, DeliveryBackoffOver(j) PROVE EndedRests
  BY <1>14 DEF DeliveryBackoffOver
<1>15. CASE CascadeCancelCronTask
  BY <1>15, CascadeWrites DEF Reached
<1>16. CASE Stop
  BY <1>16 DEF Stop, EndsProcess
<1>17. CASE Exit
  BY <1>17 DEF Exit, EndsProcess, MemoryLost
<1>18. ASSUME NEW j \in Jobs, ExitSweeping(j) PROVE EndedRests
  BY <1>18 DEF ExitSweeping, Stale, EndsProcess, MemoryLost
<1>19. ASSUME NEW j \in Jobs, ExitStarting(j) PROVE EndedRests
  BY <1>19, ExitStartingWrites DEF EndsProcess, MemoryLost
<1>20. ASSUME NEW j \in Jobs, ExitConcluding(j) PROVE EndedRests
  BY <1>20 DEF ExitConcluding, RunMisses, Handling, EndsProcess, MemoryLost
<1>21. ASSUME NEW j \in Jobs, ExitRetrying(j) PROVE EndedRests
  BY <1>21 DEF ExitRetrying, RunMisses, Retryable, Handling, EndsProcess, MemoryLost
<1>22. CASE Restart
  BY <1>22 DEF Restart, RecoverOrphaned
<1>23. CASE UNCHANGED vars
  BY <1>23 DEF vars
<1> QED
  BY <1>1, <1>2, <1>3, <1>4, <1>5, <1>6, <1>7, <1>8, <1>9, <1>10, <1>11, <1>12, <1>13, <1>14, <1>15, <1>16, <1>17, <1>18, <1>19, <1>20, <1>21, <1>22, <1>23
  DEF Next, TickActs, HandlerActs

-----------------------------------------------------------------------------
\* Everything the invariant says holds in every state the runner reaches.
THEOREM RunnerInvariant == Spec => []IInv
<1>1. Init => IInv
  <2> SUFFICES ASSUME Init PROVE IInv
    OBVIOUS
  <2> USE CapsAssumption DEF Init
  <2>1. TypeOK /\ ParcelInHand
    BY DEF TypeOK, ParcelInHand, None, Ended
  <2>2. Control
    BY DEF Control, RowsOfHandlers, SignalsTellWhy, NothingDown, RunningIsHandled
  <2>3. SlotsCounted
    BY FS_EmptySet DEF SlotsCounted
  <2>4. EndedBefore /\ RunAgreesWithJob
    BY JobSetsAssumption DEF EndedBefore, RunAgreesWithJob, RunOf
  <2> QED
    BY <2>1, <2>2, <2>3, <2>4 DEF IInv
<1>2. IInv /\ [Next]_vars => IInv'
  <2> SUFFICES ASSUME IInv, [Next]_vars PROVE IInv'
    OBVIOUS
  <2>1. TypeOK' /\ ParcelInHand'
    BY TypeInductive
  <2>2. Control' /\ SlotsCounted' /\ EndedBefore' /\ RunAgreesWithJob'
    BY <2>1, ControlInductive, SlotsInductive, EndedInductive, RunsInductive
  <2> QED
    BY <2>1, <2>2 DEF IInv
<1> QED
  BY <1>1, <1>2, PTL DEF Spec

\* The invariant bounds the handlers at work.
LEMMA BoundFromInvariant == IInv => ConcurrencyBound
<1> SUFFICES ASSUME IInv, process = "up"
             PROVE  Cardinality({j \in Jobs : pc[j] = "handling" /\ status[j] # "failed"})
                      <= MaxConcurrent
  BY DEF ConcurrencyBound
<1> DEFINE working == {j \in Jobs : pc[j] = "handling" /\ status[j] # "failed"}
<1>1. working \in SUBSET entries /\ Cardinality(entries) <= MaxConcurrent
  BY DEF IInv, SlotsCounted
<1> QED
  BY <1>1, FewerEntries

\* Types, and the count of retries, for every number of jobs.
THEOREM RunnerTypeCorrect == Spec => []TypeOK
BY RunnerInvariant, PTL DEF IInv

\* Every running row of a live process has a handler, and no more than
\* MAX_CONCURRENT_TASKS handlers are at work until the runner is stopped.
THEOREM RunnerWorkInHand == Spec => []WorkInHand
<1>1. IInv => WorkInHand
  BY BoundFromInvariant DEF IInv, Control, WorkInHand
<1> QED
  BY <1>1, RunnerInvariant, PTL

\* A cron run agrees with its job, but for one write an end of the process may
\* have kept from it and for jobs requeued after one; a start tells it again.
THEOREM RunnerRunsAgree == Spec => []RunAgreesWithJob
BY RunnerInvariant, PTL DEF IInv

\* A job is not handed to a handler while an earlier one of the same job works.
THEOREM RunnerOneHandler == Spec => OneHandlerPerJob
<1>1. IInv /\ [Next]_vars => [StartsClean]_vars
  BY StartsFindNoHandler
<1> QED
  BY <1>1, RunnerInvariant, PTL DEF Spec, OneHandlerPerJob, StartsClean

\* A row that has ended stays as it ended, but for the late answer of a handler.
THEOREM RunnerOutcomeFinal == Spec => OutcomeIsFinal
<1>1. IInv /\ [Next]_vars => [EndedRests]_vars
  BY EndedRowsRest
<1> QED
  BY <1>1, RunnerInvariant, PTL DEF Spec, OutcomeIsFinal, EndedRests
=============================================================================
