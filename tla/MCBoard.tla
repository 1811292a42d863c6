------------------------------- MODULE MCBoard -------------------------------
(* An instance of Board for TLC. *)
EXTENDS Board

CONSTANTS p1, p2, todo, k1, k2

MCMigrations == [p \in Processes |-> IF p = p1 THEN 1 ELSE 2]

(* The older build runs with one of two connections in its config. *)
MCConfigured == [p \in Processes |-> IF p = p1 THEN {1} ELSE {1, 2}]

Fact(open, roles, gate, keys, markers) ==
  [open |-> open, roles |-> roles, draft |-> FALSE, decision |-> "none", myReview |-> "approved",
   gate |-> gate, autoMergeArmed |-> FALSE, checksRunning |-> FALSE,
   ticketKeys |-> keys, markers |-> markers]

(* Only I can approve; somebody else can too; merged. *)
MCFacts ==
  {Fact(TRUE, {"reviewer", "sole_approver"}, "blocked", <<k1, k2>>, {}),
   Fact(TRUE, {"reviewer"}, "unknown", <<k2>>, {"merge_conflict"}),
   Fact(FALSE, {"reviewer"}, "unknown", <<k2>>, {})}
=============================================================================
