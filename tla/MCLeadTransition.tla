-------------------------- MODULE MCLeadTransition --------------------------
(* Instances of LeadTransition for TLC. *)
EXTENDS LeadTransition

CONSTANTS a1, a2, b1, b3

\* One button belongs to the second attorney, all others to the first.
MCOwner == [b \in Buttons |-> IF b = b3 THEN a2 ELSE a1]

\* The first button is clicked again, the others once.
MCMaxClicks == [b \in Buttons |-> IF b = b1 THEN 2 ELSE 1]

=============================================================================
