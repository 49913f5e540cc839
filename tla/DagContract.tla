----------------------------- MODULE DagContract -----------------------------
(***************************************************************************)
(* What core/dag-executor.ts promises its callers about a DAG of tasks,    *)
(* without queues, permits, tables or events: which task may run when, and *)
(* how a task that does not run may end.                                   *)
(***************************************************************************)
EXTENDS Integers, FiniteSets

CONSTANTS Tasks, Policies, MaxParallel

VARIABLES deps, policy, status

vars == <<deps, policy, status>>

Statuses == {"waiting", "running", "completed", "failed", "cancelled", "blocked"}
Ended == Statuses \ {"waiting", "running"}
Running == {t \in Tasks : status[t] = "running"}

Init == /\ deps \in [Tasks -> SUBSET Tasks]
        /\ policy \in [Tasks -> Policies]
        /\ status = [t \in Tasks |-> "waiting"]

Resolved(t) ==
  \A p \in deps[t] : \/ status[p] = "completed"
                     \/ status[p] = "failed" /\ policy[t] = "continue"

\* A task runs only on resolved dependencies and within the parallel limit.
Start(t) == /\ status[t] = "waiting" /\ Resolved(t)
            /\ Cardinality(Running) < MaxParallel
            /\ status' = [status EXCEPT ![t] = "running"]

\* A running task ends, or waits for its next attempt.
Stop(t) == /\ status[t] = "running"
           /\ \E s \in {"waiting", "completed", "failed", "cancelled"} :
                status' = [status EXCEPT ![t] = s]

\* A waiting task ends without running: cancelled, or out of attempts.
Dismiss(t) == /\ status[t] = "waiting"
              /\ \E s \in {"cancelled", "failed"} :
                   status' = [status EXCEPT ![t] = s]

\* Tasks are blocked together, each because a dependency did not complete.
Block(S) == /\ S # {} /\ \A t \in S : status[t] = "waiting"
            /\ status' = [t \in Tasks |-> IF t \in S THEN "blocked" ELSE status[t]]
            /\ \A t \in S : \E p \in deps[t] :
                 status'[p] \in {"failed", "cancelled", "blocked"}

Next == /\ \/ \E t \in Tasks : Start(t) \/ Stop(t) \/ Dismiss(t)
           \/ \E S \in SUBSET Tasks : Block(S)
        /\ UNCHANGED <<deps, policy>>

Spec == Init /\ [][Next]_vars
=============================================================================
