-------------------------- MODULE MCEmailDispatch --------------------------
(* Instances of EmailDispatch for TLC. *)
EXTENDS EmailDispatch

=============================================================================
