---------------------------- MODULE MCDagExecutor ----------------------------
(* Values for TLC: small DAG runs of DagExecutor. *)
EXTENDS DagExecutor

AnyGraph == Acyclic

\* A step that depends on another beside one that does not; a chain.
PairAndChain == {<<{}, {1}, {}>>, <<{}, {1}, {2}>>}

\* on_dep_failure: the default, and the one that changes what a failure does.
\* "fallback" is treated like "fail_fast" by the executor.
DistinctPolicies == {"fail_fast", "continue"}

\* A plan that runs for the first time.
FreshRun == {0}

\* A plan restarted after a crash: rows never tried, and rows whose attempts
\* are used up.
RestartedRun == {0, 2}
=============================================================================
