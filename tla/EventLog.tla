------------------------------ MODULE EventLog ------------------------------
(***************************************************************************)
(* The fact stream of one item in the events table, and what its readers   *)
(* compute from it.                                                        *)
(*                                                                         *)
(* A history is the sequence of one item's item.observed and item.removed  *)
(* rows of one connection, oldest first.  The row id of the table grows    *)
(* with every insert and only its order within an item is ever used, so    *)
(* the position in the history stands for the id.  A row is its identity:  *)
(* two rows are equal exactly when the UNIQUE constraint of the table says *)
(* they are, because the dedupe key of a snapshot is a hash of its facts   *)
(* (plus, after a removal, the id of that removal) and the key of a        *)
(* removal is the id of the snapshot it supersedes.                        *)
(***************************************************************************)
EXTENDS Naturals, Sequences, Functions

(* A snapshot; salt is 0, or the id of the removal it resurrects from. *)
Observed(fact, salt) == [kind |-> "observed", fact |-> fact, salt |-> salt]

(* A removal, keyed to the id of the snapshot it supersedes. *)
Removed(id) == [kind |-> "removed", supersedes |-> id]

(* INSERT OR IGNORE: a row whose identity is anywhere in the history is    *)
(* dropped, any other is appended with the next id.                        *)
InsertOrIgnore(history, row) ==
  IF row \in Range(history) THEN history ELSE Append(history, row)

-----------------------------------------------------------------------------
(* What the engine reads back: the max-id row of the fact stream. *)

LatestIsRemoved(history) ==
  history # << >> /\ history[Len(history)].kind = "removed"

LatestIsOpen(history) ==
  /\ history # << >>
  /\ history[Len(history)].kind = "observed"
  /\ history[Len(history)].fact.open

(* Mutant: the last snapshot decides, a removal after it is not looked at. *)
LatestIsOpenRoledIgnoringRemoval(history) ==
  \E k \in DOMAIN history :
    /\ history[k].kind = "observed" /\ history[k].fact.open /\ history[k].fact.roles # {}
    /\ \A j \in DOMAIN history : history[j].kind = "observed" => j <= k

LatestIsOpenRoled(history) ==
  LatestIsOpen(history) /\ history[Len(history)].fact.roles # {}

(* Mutant: a swept snapshot is never salted. *)
NoSalt(history) == 0

(* The salt of a swept snapshot: the id of the removal it has to supersede. *)
ResurrectionSalt(history) ==
  IF LatestIsRemoved(history) THEN Len(history) ELSE 0

-----------------------------------------------------------------------------
(* What the attention fold reads: the latest snapshot, hidden when a later *)
(* removal exists or when its facts say the item is no longer open.        *)

IdsOf(kind, history) == {k \in DOMAIN history : history[k].kind = kind}

OnBoard(history) ==
  \E k \in IdsOf("observed", history) :
    /\ \A j \in IdsOf("observed", history) : j <= k
    /\ \A j \in IdsOf("removed", history) : j < k
    /\ history[k].fact.open
=============================================================================
