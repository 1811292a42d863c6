-------------------------- MODULE MCConnectionSync --------------------------
(* Instances of ConnectionSync for TLC. *)
EXTENDS ConnectionSync, TLC

CONSTANTS pr1, pr2, fresh, stale

OneItem == {pr1}
TwoItems == {pr1, pr2}
TwoDetails == {fresh, stale}
OneDetail == {fresh}

ItemSymmetry == Permutations({pr1, pr2})
DetailSymmetry == Permutations({fresh, stale})
=============================================================================
