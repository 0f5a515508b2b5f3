--------------------------- MODULE ConnectionPool ---------------------------
(***************************************************************************)
(* The one connection pool of the API process (db/session.py), and who     *)
(* holds its connections:                                                  *)
(*   leads/service.py   create_lead: one, for the INSERT                   *)
(*   emails/service.py  send_lead_emails: one for lock_session, from       *)
(*                      before the dispatch until after it, one more for   *)
(*                      the row transaction, and one more per transaction  *)
(*                      of a _deliver task                                 *)
(*                                                                         *)
(* A call that holds the connection of its lock waits for others, so the   *)
(* calls of PoolSize leads can wait for each other, and during a mail      *)
(* outage they can keep the whole pool for longer than the pool's timeout  *)
(* (30 s by default, against up to 3 sends of 15 s and 6 s of backoff).    *)
(* Each lead has one call, so its advisory lock is free: EmailDispatch     *)
(* models calls that contend for it.                                       *)
(***************************************************************************)
EXTENDS Naturals, FiniteSets

CONSTANTS
    Leads,             \* submissions, each with its later send_lead_emails
    Mails,             \* rows to deliver per lead
    PoolSize,          \* pool_size + max_overflow
    MaxAttempts,       \* settings.email_max_attempts
    MaxRetries         \* bound: retries, over all mails

ASSUME FiniteAssumption == IsFiniteSet(Leads) /\ IsFiniteSet(Mails)
ASSUME PoolSizeAssumption == PoolSize \in Nat \ {0}
ASSUME MaxAttemptsAssumption == MaxAttempts \in Nat \ {0}
ASSUME MaxRetriesAssumption == MaxRetries \in Nat

VARIABLES
    free,              \* connections the pool can hand out
    post,              \* post[l]: the submission
    call,              \* call[l]: send_lead_emails
    task,              \* task[l][m]: its _deliver task of a row
    attempt,           \* attempt[l][m]: which attempt that task is at
    retries            \* retries so far

tasks == <<task, attempt, retries>>
vars == <<free, post, call, task, attempt, retries>>

----------------------------------------------------------------------------
(* "...Wait" is the wait for a connection, "insert", "rows", "load" and    *)
(* "record" are short transactions that have one.                          *)

Post == {"idle", "insertWait", "insert", "created", "failed"}

\* "refused" is a call that got no connection for its lock.
Call == {"none", "lockWait", "rowsWait", "rows", "gather", "return", "raise",
         "done", "raised", "refused"}
Pinning == {"rowsWait", "rows", "gather", "return", "raise"}

Waiting == {"loadWait", "recordWait"}
InTask == {"load", "record"}
Running == Waiting \cup InTask \cup {"send"}
Task == Running \cup {"none", "done", "raised"}

Live(l) == \E m \in Mails : task[l][m] \in Running

TypeOK ==
    /\ free \in 0 .. PoolSize
    /\ post \in [Leads -> Post]
    /\ call \in [Leads -> Call]
    /\ task \in [Leads -> [Mails -> Task]]
    /\ attempt \in [Leads -> [Mails -> 1 .. MaxAttempts]]
    /\ retries \in 0 .. MaxRetries

Init ==
    /\ free = PoolSize
    /\ post = [l \in Leads |-> "idle"]
    /\ call = [l \in Leads |-> "none"]
    /\ task = [l \in Leads |-> [m \in Mails |-> "none"]]
    /\ attempt = [l \in Leads |-> [m \in Mails |-> 1]]
    /\ retries = 0

----------------------------------------------------------------------------
(* The pool *)

Take == free > 0 /\ free' = free - 1
Give == free' = free + 1

InTransaction ==
    \/ \E l \in Leads : post[l] = "insert" \/ call[l] = "rows"
    \/ \E l \in Leads, m \in Mails : task[l][m] \in InTask

\* Mutant of Stalled: the pool has no timeout.
Stalled_Never == FALSE

\* No connection comes back within the pool's timeout: transactions are
\* short, but a call that holds the connection of its lock may itself wait,
\* for a connection or for a slow provider.  The waits of several calls may
\* run out at the same time.
Stalled == free = 0 /\ ~InTransaction

PostStep(l, from, to) ==
    /\ post[l] = from
    /\ post' = [post EXCEPT ![l] = to]

CallStep(l, from, to) ==
    /\ call[l] = from
    /\ call' = [call EXCEPT ![l] = to]

----------------------------------------------------------------------------
(* create_lead *)

\* The resume is stored; the session asks for a connection.
Submit(l) ==
    /\ PostStep(l, "idle", "insertWait")
    /\ UNCHANGED <<free, call, tasks>>

InsertBegin(l) ==
    /\ PostStep(l, "insertWait", "insert")
    /\ Take
    /\ UNCHANGED <<call, tasks>>

\* Committed: 201, and the background task starts.
InsertEnd(l) ==
    /\ PostStep(l, "insert", "created")
    /\ Give
    /\ call' = [call EXCEPT ![l] = "lockWait"]
    /\ UNCHANGED <<tasks>>

\* The pool's TimeoutError: the resume is deleted again, 500.
InsertTimeout(l) ==
    /\ Stalled
    /\ PostStep(l, "insertWait", "failed")
    /\ UNCHANGED <<free, call, tasks>>

----------------------------------------------------------------------------
(* send_lead_emails and _dispatch *)

\* lock_session has its connection, and the lock with it.
LockBegin(l) ==
    /\ CallStep(l, "lockWait", "rowsWait")
    /\ Take
    /\ UNCHANGED <<post, tasks>>

\* TimeoutError before the try: no row is ever written for the lead.
LockTimeout(l) ==
    /\ Stalled
    /\ CallStep(l, "lockWait", "refused")
    /\ UNCHANGED <<free, post, tasks>>

RowsBegin(l) ==
    /\ CallStep(l, "rowsWait", "rows")
    /\ Take
    /\ UNCHANGED <<post, tasks>>

\* Mutant of RowsEnd: the session stays open during the deliveries.
RowsEnd_KeepsSession(l) ==
    /\ CallStep(l, "rows", "gather")
    /\ task' = [task EXCEPT ![l] = [m \in Mails |-> "loadWait"]]
    /\ UNCHANGED <<free, post, attempt, retries>>

\* The row transaction commits and gather starts the deliveries.
RowsEnd(l) ==
    /\ CallStep(l, "rows", "gather")
    /\ Give
    /\ task' = [task EXCEPT ![l] = [m \in Mails |-> "loadWait"]]
    /\ UNCHANGED <<post, attempt, retries>>

\* TimeoutError in _dispatch: on to the finally clause.
RowsTimeout(l) ==
    /\ Stalled
    /\ CallStep(l, "rowsWait", "raise")
    /\ UNCHANGED <<free, post, tasks>>

GatherDone(l) ==
    /\ CallStep(l, "gather", "return")
    /\ ~Live(l)
    /\ UNCHANGED <<free, post, tasks>>

\* Mutant of Unlock: a raise leaves the lock session open.
Unlock_NotOnRaise(l) ==
    /\ \/ CallStep(l, "return", "done") /\ Give
       \/ CallStep(l, "raise", "raised") /\ UNCHANGED free
    /\ UNCHANGED <<post, tasks>>

\* The finally clause and the end of lock_session.
Unlock(l) ==
    /\ CallStep(l, "return", "done") \/ CallStep(l, "raise", "raised")
    /\ Give
    /\ UNCHANGED <<post, tasks>>

----------------------------------------------------------------------------
(* _deliver *)

TaskStep(l, m, from, to) ==
    /\ task[l][m] = from
    /\ task' = [task EXCEPT ![l][m] = to]

TaskBegin(l, m) ==
    /\ TaskStep(l, m, "loadWait", "load") \/ TaskStep(l, m, "recordWait", "record")
    /\ Take
    /\ UNCHANGED <<post, call, attempt, retries>>

LoadEnd(l, m) ==
    /\ TaskStep(l, m, "load", "send")
    /\ Give
    /\ UNCHANGED <<post, call, attempt, retries>>

\* The provider accepts, refuses or times out.
SendEnd(l, m) ==
    /\ TaskStep(l, m, "send", "recordWait")
    /\ UNCHANGED <<free, post, call, attempt, retries>>

\* FAILED is recorded and attempts are left: backoff and send again.
Retry(l, m) ==
    /\ TaskStep(l, m, "record", "send")
    /\ attempt[l][m] < MaxAttempts
    /\ attempt' = [attempt EXCEPT ![l][m] = @ + 1]
    /\ retries < MaxRetries
    /\ retries' = retries + 1
    /\ Give
    /\ UNCHANGED <<post, call>>

\* SENT is recorded, or the last FAILED.
RecordEnd(l, m) ==
    /\ TaskStep(l, m, "record", "done")
    /\ Give
    /\ UNCHANGED <<post, call, attempt, retries>>

\* TimeoutError in the task, which gather raises in the call at once; the
\* other tasks run on.
TaskTimeout(l, m) ==
    /\ Stalled
    /\ task[l][m] \in Waiting
    /\ task' = [task EXCEPT ![l][m] = "raised"]
    /\ call' = [call EXCEPT ![l] = IF @ = "gather" THEN "raise" ELSE @]
    /\ UNCHANGED <<free, post, attempt, retries>>

----------------------------------------------------------------------------
Posting(l) == InsertBegin(l) \/ InsertEnd(l) \/ InsertTimeout(l)

Calling(l) ==
    \/ LockBegin(l) \/ LockTimeout(l) \/ RowsBegin(l) \/ RowsEnd(l)
    \/ RowsTimeout(l) \/ GatherDone(l) \/ Unlock(l)

Delivering(l, m) ==
    \/ TaskBegin(l, m) \/ LoadEnd(l, m) \/ SendEnd(l, m) \/ Retry(l, m)
    \/ RecordEnd(l, m) \/ TaskTimeout(l, m)

Over(l) ==
    /\ post[l] = "failed" \/ call[l] \in {"done", "raised", "refused"}
    /\ ~Live(l)

Finished == (\A l \in Leads : Over(l)) /\ UNCHANGED vars

Next ==
    \/ \E l \in Leads :
        Submit(l) \/ Posting(l) \/ Calling(l) \/ \E m \in Mails : Delivering(l, m)
    \/ Finished

\* The event loop runs what is ready, a free connection goes to a waiter and
\* a wait without one times out; nobody has to submit.
Fairness ==
    \A l \in Leads :
        /\ WF_vars(Posting(l))
        /\ WF_vars(Calling(l))
        /\ \A m \in Mails : WF_vars(Delivering(l, m))

Spec == Init /\ [][Next]_vars /\ Fairness

----------------------------------------------------------------------------
(* Properties *)

Pinned == {l \in Leads : call[l] \in Pinning}

\* Every connection is in the pool or held by the session that took it:
\* none leaks or returns twice, whichever of the sessions raises
\* (emails/service.py:109-114).
ConnectionsAccounted ==
    free + Cardinality(Pinned)
         + Cardinality({l \in Leads : post[l] = "insert"})
         + Cardinality({l \in Leads : call[l] = "rows"})
         + Cardinality({lm \in Leads \X Mails : task[lm[1]][lm[2]] \in InTask})
      = PoolSize

\* What has failed for want of a connection: submissions, calls and tasks.
Failures ==
    <<{l \in Leads : post[l] = "failed"},
      {l \in Leads : call[l] \in {"raise", "raised", "refused"}},
      {lm \in Leads \X Mails : task[lm[1]][lm[2]] = "raised"}>>

\* Nothing fails for want of a connection unless the locks of dispatches
\* under way hold the whole pool at that moment: the deliveries of fewer
\* leads than the pool has connections do not starve it, and neither does
\* an earlier load that is over (db/session.py:7, emails/service.py:93-114).
FailureNeedsLoad ==
    [][Failures' # Failures => Cardinality(Pinned) >= PoolSize]_vars

\* Calls that hold a connection and wait for another do not wait for ever:
\* each submission fails or has its dispatch come to an end.
EverySubmissionEnds == \A l \in Leads : (post[l] = "insertWait") ~> Over(l)

\* router.py:89 "SMTP latency or an outage never fails the submission": none
\* fails while a mail is at the provider.
OutageSparesSubmissions ==
    [][(\E l \in Leads, m \in Mails : task[l][m] = "send")
        => \A l \in Leads : post'[l] = "failed" => post[l] = "failed"]_vars

=============================================================================
