---------------------------- MODULE MCLeadIntake ----------------------------
(* Instances of LeadIntake for TLC. *)
EXTENDS LeadIntake

=============================================================================
