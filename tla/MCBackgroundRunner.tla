-------------------------- MODULE MCBackgroundRunner --------------------------
(* Values for TLC: a few jobs of BackgroundRunner. *)
EXTENDS BackgroundRunner

\* The job whose handler is stubborn, or unknown.
LastJob == {NumJobs}
=============================================================================
