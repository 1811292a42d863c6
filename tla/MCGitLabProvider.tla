--------------------------- MODULE MCGitLabProvider ---------------------------
(* Instances of GitLabProvider for TLC. *)
EXTENDS GitLabProvider

CONSTANTS mr1, alice
OneMR == {mr1}
OneReviewer == {alice}
=============================================================================
