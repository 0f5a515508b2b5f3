--------------------------- MODULE LeadLifecycle ---------------------------
(***************************************************************************)
(* The life of one lead as apps/api/app/leads/state_machine.py has it:     *)
(* PENDING -> REACHED_OUT is the only edge, it is taken once, and the      *)
(* attorney who takes it is stamped on the lead in the same step.          *)
(***************************************************************************)
CONSTANTS Attorneys, Nobody

VARIABLES
    state,             \* Lead.state, or "MISSING" if there is no such row
    reachedBy          \* Lead.reachedOutBy

lifecycleVars == <<state, reachedBy>>

LifecycleInit == state = "PENDING" /\ reachedBy = Nobody

Reach(a) ==
    /\ state = "PENDING"
    /\ state' = "REACHED_OUT"
    /\ reachedBy' = a

\* The row is deleted by hand; no code of the system does.
Vanish ==
    /\ state # "MISSING"
    /\ state' = "MISSING"
    /\ reachedBy' = Nobody

LifecycleNext == Vanish \/ \E a \in Attorneys : Reach(a)

LifecycleSpec == LifecycleInit /\ [][LifecycleNext]_lifecycleVars

=============================================================================
