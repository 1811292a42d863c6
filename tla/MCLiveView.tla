------------------------------ MODULE MCLiveView ------------------------------
(* Instances of LiveView for TLC. *)
EXTENDS LiveView

CONSTANT github
OneConnection == {github}
=============================================================================
