------------------------- MODULE MCAttorneySession -------------------------
(* Instances of AttorneySession for TLC. *)
EXTENDS AttorneySession

=============================================================================
