---------------------------- MODULE MCDagLimiter ----------------------------
(* Values for TLC: four steps that ask for permits. *)
EXTENDS DagLimiter

CONSTANTS c1, c2, c3, c4

Steps == {c1, c2, c3, c4}

\* Three DAG runs, started under different values of max_parallel_agents; a
\* configured 0 means one permit.
ConfiguredLimits == {0, 2, 3}
=============================================================================
