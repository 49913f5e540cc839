----------------------------- MODULE MCScheduler -----------------------------
(* Values for TLC: a scheduled prompt, or two reminders. *)
EXTENDS Scheduler

CONSTANTS c1, m1, m2, none

Prompts == {c1}
Messages == {m1, m2}
OneKind == {Prompts, Messages}
=============================================================================
