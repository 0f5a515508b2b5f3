---------------------------- MODULE EmailLedger ----------------------------
(***************************************************************************)
(* What apps/api/app/emails/service.py promises about one lead, with the   *)
(* workers, the lock, the sessions and the retries left out.  For every    *)
(* wanted (kind, recipient) pair there is one record in EmailLog and a     *)
(* number of copies in the recipient's mailbox:                            *)
(*   - the records of all wanted pairs appear together;                    *)
(*   - a copy is only handed to the provider while the record is not SENT; *)
(*   - a record becomes SENT only once a copy is out, and stays SENT.      *)
(***************************************************************************)
EXTENDS Naturals

CONSTANT Wanted        \* the (kind, recipient) pairs of the lead

VARIABLES
    record,            \* record[k]: status of the pair's EmailLog row
    copies             \* copies[k]: mails the provider accepted for the pair

ledgerVars == <<record, copies>>

Status == {"ABSENT", "PENDING", "FAILED", "SENT"}

LedgerTypeOK ==
    /\ record \in [Wanted -> Status]
    /\ copies \in [Wanted -> Nat]

LedgerInit ==
    /\ record = [k \in Wanted |-> "ABSENT"]
    /\ copies = [k \in Wanted |-> 0]

Unsettled(k) == record[k] \in {"PENDING", "FAILED"}

\* The row transaction: every missing record appears, as PENDING.
Open ==
    /\ \E k \in Wanted : record[k] = "ABSENT"
    /\ record' = [k \in Wanted |->
                    IF record[k] = "ABSENT" THEN "PENDING" ELSE record[k]]
    /\ UNCHANGED copies

\* The provider accepts a copy.
Deliver(k) ==
    /\ Unsettled(k)
    /\ copies' = [copies EXCEPT ![k] = @ + 1]
    /\ UNCHANGED record

\* A failed attempt is recorded.
Fail(k) ==
    /\ Unsettled(k)
    /\ record' = [record EXCEPT ![k] = "FAILED"]
    /\ UNCHANGED copies

\* A delivered mail is recorded.
Confirm(k) ==
    /\ Unsettled(k)
    /\ copies[k] > 0
    /\ record' = [record EXCEPT ![k] = "SENT"]
    /\ UNCHANGED copies

LedgerNext ==
    \/ Open
    \/ \E k \in Wanted : Deliver(k) \/ Fail(k) \/ Confirm(k)

LedgerSpec == LedgerInit /\ [][LedgerNext]_ledgerVars

=============================================================================
