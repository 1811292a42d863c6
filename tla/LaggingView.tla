----------------------------- MODULE LaggingView -----------------------------
(***************************************************************************)
(* What a live list promises its reader (INV-9): it shows a state the      *)
(* server was in, and it only ever moves on to a later one.                *)
(***************************************************************************)
EXTENDS Integers

VARIABLES
  truth,   \* how many changes of the list the server has committed
  shown    \* how many of them the reader sees; Blank before the first read

Blank == -1

Init == truth = 0 /\ shown = Blank

Change == truth' = truth + 1 /\ UNCHANGED shown

CatchUp == shown' \in (shown + 1)..truth /\ UNCHANGED truth

Next == Change \/ CatchUp

Spec == Init /\ [][Next]_<<truth, shown>>
=============================================================================
