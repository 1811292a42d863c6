----------------------------- MODULE MCScheduler -----------------------------
(* Instances of Scheduler for TLC. *)
EXTENDS Scheduler

(* Longer than the longest exponential delay; no hint at all is the short one. *)
OneHint == {20}
=============================================================================
