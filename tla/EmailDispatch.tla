--------------------------- MODULE EmailDispatch ---------------------------
(***************************************************************************)
(* Email dispatch for one lead: apps/api/app/emails/service.py.            *)
(*                                                                         *)
(* Each member of Workers is one call of send_lead_emails for the lead     *)
(* (the BackgroundTask of the request, or a redelivery of it).  A call     *)
(* takes the lead's Postgres advisory lock on a session of its own, makes  *)
(* sure that every wanted (kind, recipient) pair has an EmailLog row in    *)
(* one transaction, and then runs one _deliver task per row that is not    *)
(* SENT, under asyncio.gather.  Each task has its own session, loads the   *)
(* row once, and alternates provider calls and commits.                    *)
(*                                                                         *)
(* Dispatches of different leads share nothing but the connection pool, so *)
(* one lead is modelled.  A row id (a uuid) is the pair <<call that        *)
(* inserted it, wanted pair>>, which leaves room for duplicate rows: the   *)
(* table has no unique key on (leadId, kind, recipient).                   *)
(***************************************************************************)
EXTENDS Naturals, FiniteSets

CONSTANTS
    Workers,           \* calls of send_lead_emails for the lead
    Wanted,            \* (kind, recipient) pairs: prospect and attorneys
    MaxAttempts,       \* settings.email_max_attempts
    NoWorker,          \* the advisory lock is free
    Skip,              \* nothing to deliver for a pair: its row is SENT
    MaxAmbiguous,      \* bound: sends that deliver and still raise
    MaxCrashes,        \* bound: process deaths
    MaxDbFaults,       \* bound: database errors raised to the code
    MaxLockLosses      \* bound: drops of the connection holding the lock

ASSUME MaxAttemptsAssumption == MaxAttempts \in Nat \ {0}
ASSUME NoWorkerAssumption == NoWorker \notin Workers
ASSUME SkipAssumption == Skip \notin Workers \X Wanted
ASSUME BoundsAssumption ==
    /\ MaxAmbiguous \in Nat
    /\ MaxCrashes \in Nat
    /\ MaxDbFaults \in Nat
    /\ MaxLockLosses \in Nat

VARIABLES
    lead,              \* whether the Lead row is committed
    lock,              \* holder of pg_advisory_lock(hash(lead_id))
    pc,                \* pc[w]: where the call stands
    plan,              \* plan[w][k]: the row _dispatch chose for the pair
    table,             \* committed EmailLog rows by id
    task,              \* task[w][r]: call w's _deliver task of row r
    inbox,             \* inbox[k]: copies the provider accepted
    ambiguous,         \* ambiguous[k]: copies whose send raised all the same
    unguarded,         \* calls that lost the lock before their rows committed
    crashes, dbFaults, lockLosses   \* faults so far

dbVars == <<lead, lock, table>>
mailVars == <<inbox, ambiguous>>
faultVars == <<unguarded, crashes, dbFaults, lockLosses>>
vars == <<lead, lock, pc, plan, table, task, inbox, ambiguous,
          unguarded, crashes, dbFaults, lockLosses>>

----------------------------------------------------------------------------
(* Data *)

RowId == Workers \X Wanted
KeyOf(r) == r[2]

Status == {"ABSENT", "PENDING", "FAILED", "SENT"}
Row == [status : Status, attempts : 0 .. MaxAttempts]

NoRow == [status |-> "ABSENT", attempts |-> 0]
NewRow == [status |-> "PENDING", attempts |-> 0]
Present(r) == table[r].status # "ABSENT"

\* Phases of a _deliver task: the row is to be loaded, the provider is to be
\* called, an outcome is to be committed, or the task is over.
Running == {"load", "send", "failed", "sent"}
Phase == Running \cup {"none", "done", "raised"}
Task == [phase : Phase, attempt : 1 .. MaxAttempts, cached : Row]

NoTask == [phase |-> "none", attempt |-> 1, cached |-> NoRow]
NewTask == [phase |-> "load", attempt |-> 1, cached |-> NoRow]

PC == {"start", "read", "write", "gather", "return", "raise",
       "done", "raised", "dead"}

Live(w) == \E r \in RowId : task[w][r].phase \in Running

TypeOK ==
    /\ lead \in BOOLEAN
    /\ lock \in Workers \cup {NoWorker}
    /\ pc \in [Workers -> PC]
    /\ plan \in [Workers -> [Wanted -> RowId \cup {Skip}]]
    /\ table \in [RowId -> Row]
    /\ task \in [Workers -> [RowId -> Task]]
    /\ inbox \in [Wanted -> Nat]
    /\ ambiguous \in [Wanted -> 0 .. MaxAmbiguous]
    /\ unguarded \subseteq Workers
    /\ crashes \in 0 .. MaxCrashes
    /\ dbFaults \in 0 .. MaxDbFaults
    /\ lockLosses \in 0 .. MaxLockLosses

Init ==
    /\ lead \in BOOLEAN
    /\ lock = NoWorker
    /\ pc = [w \in Workers |-> "start"]
    /\ plan = [w \in Workers |-> [k \in Wanted |-> Skip]]
    /\ table = [r \in RowId |-> NoRow]
    /\ task = [w \in Workers |-> [r \in RowId |-> NoTask]]
    /\ inbox = [k \in Wanted |-> 0]
    /\ ambiguous = [k \in Wanted |-> 0]
    /\ unguarded = {}
    /\ crashes = 0
    /\ dbFaults = 0
    /\ lockLosses = 0

----------------------------------------------------------------------------
(* send_lead_emails: the advisory lock *)

\* Mutant of Acquire: the lock is taken without waiting for its holder.
Acquire_NoWait(w) ==
    /\ pc[w] = "start"
    /\ lock' = w
    /\ pc' = [pc EXCEPT ![w] = "read"]
    /\ UNCHANGED <<lead, plan, table, task, mailVars, faultVars>>

\* pg_advisory_lock returns: the call is alone, for this lead, until it
\* unlocks or its connection drops.
Acquire(w) ==
    /\ pc[w] = "start"
    /\ lock = NoWorker
    /\ lock' = w
    /\ pc' = [pc EXCEPT ![w] = "read"]
    /\ UNCHANGED <<lead, plan, table, task, mailVars, faultVars>>

\* Mutant of Unlock: no finally clause, a raise skips the unlock.
Unlock_NotOnRaise(w) ==
    /\ pc[w] \in {"return", "raise"}
    /\ lock' = IF lock = w /\ pc[w] = "return" THEN NoWorker ELSE lock
    /\ pc' = [pc EXCEPT ![w] = IF pc[w] = "return" /\ lock = w
                               THEN "done" ELSE "raised"]
    /\ UNCHANGED <<lead, plan, table, task, mailVars, faultVars>>

\* The finally clause: unlock whether _dispatch returned or raised.  The
\* unlock itself raises if the connection that held the lock is gone.
Unlock(w) ==
    /\ pc[w] \in {"return", "raise"}
    /\ lock' = IF lock = w THEN NoWorker ELSE lock
    /\ pc' = [pc EXCEPT ![w] = IF pc[w] = "return" /\ lock = w
                               THEN "done" ELSE "raised"]
    /\ UNCHANGED <<lead, plan, table, task, mailVars, faultVars>>

----------------------------------------------------------------------------
(* _dispatch: the row transaction and asyncio.gather *)

\* `if lead is None: return`, before any row is written.
LeadMissing(w) ==
    /\ pc[w] = "read"
    /\ ~lead
    /\ pc' = [pc EXCEPT ![w] = "return"]
    /\ UNCHANGED <<dbVars, plan, task, mailVars, faultVars>>

\* The rows of a pair that the transaction's SELECT returns.
RowsOf(k) == {r \in RowId : KeyOf(r) = k /\ Present(r)}

\* Mutant of Choices: the test for SENT is missing.
Choices_SentToo(w, k) == IF RowsOf(k) = {} THEN {<<w, k>>} ELSE RowsOf(k)

\* What _dispatch may choose for a pair: a new row if it has none, else the
\* row `existing` holds for it (any one of them), skipped if SENT.
Choices(w, k) ==
    IF RowsOf(k) = {} THEN {<<w, k>>}
    ELSE {IF table[r].status = "SENT" THEN Skip ELSE r : r \in RowsOf(k)}

\* SELECT lead, SELECT rows, and the loop over the wanted pairs.
ReadRows(w) ==
    /\ pc[w] = "read"
    /\ lead
    /\ \E choice \in [Wanted -> RowId \cup {Skip}] :
        /\ \A k \in Wanted : choice[k] \in Choices(w, k)
        /\ plan' = [plan EXCEPT ![w] = choice]
    /\ pc' = [pc EXCEPT ![w] = "write"]
    /\ UNCHANGED <<dbVars, task, mailVars, faultVars>>

\* The rows session.add put in the transaction: those the plan creates.
Inserted(w) == {r \in RowId : r[1] = w /\ plan[w][KeyOf(r)] = r}

\* Mutant of WithRowsOf: reused rows go back to PENDING.
WithRowsOf_Reset(w) ==
    [r \in RowId |-> IF plan[w][KeyOf(r)] = r THEN NewRow ELSE table[r]]

\* The table once the rows of the call's plan are inserted.
WithRowsOf(w) == [r \in RowId |-> IF r \in Inserted(w) THEN NewRow ELSE table[r]]

\* Mutant of CommitRows: the lock is transaction-scoped and ends here.
CommitRows_XactLock(w) ==
    /\ pc[w] = "write"
    /\ table' = WithRowsOf(w)
    /\ task' = [task EXCEPT ![w] =
                   [r \in RowId |-> IF plan[w][KeyOf(r)] = r THEN NewTask ELSE @[r]]]
    /\ pc' = [pc EXCEPT ![w] = "gather"]
    /\ lock' = NoWorker
    /\ UNCHANGED <<lead, plan, mailVars, faultVars>>

\* The row transaction commits; gather starts a task per unsettled row.
CommitRows(w) ==
    /\ pc[w] = "write"
    /\ table' = WithRowsOf(w)
    /\ task' = [task EXCEPT ![w] =
                   [r \in RowId |-> IF plan[w][KeyOf(r)] = r THEN NewTask ELSE @[r]]]
    /\ pc' = [pc EXCEPT ![w] = "gather"]
    /\ UNCHANGED <<lead, lock, plan, mailVars, faultVars>>

\* Mutant of GatherDone: the tasks are started and not awaited.
GatherDone_NotAwaited(w) ==
    /\ pc[w] = "gather"
    /\ pc' = [pc EXCEPT ![w] = "return"]
    /\ UNCHANGED <<dbVars, plan, task, mailVars, faultVars>>

\* gather returns once every task has; the first exception of a task took
\* the call out of "gather" before (DeliveryFault).
GatherDone(w) ==
    /\ pc[w] = "gather"
    /\ ~Live(w)
    /\ pc' = [pc EXCEPT ![w] = "return"]
    /\ UNCHANGED <<dbVars, plan, task, mailVars, faultVars>>

----------------------------------------------------------------------------
(* _deliver *)

\* session.get_one: the task's only look at the row.
Load(w, r) ==
    /\ task[w][r].phase = "load"
    /\ task' = [task EXCEPT ![w][r].phase = "send", ![w][r].cached = table[r]]
    /\ UNCHANGED <<dbVars, pc, plan, mailVars, faultVars>>

\* sender.send returns: the provider has the mail.
SendAccepted(w, r) ==
    /\ task[w][r].phase = "send"
    /\ inbox' = [inbox EXCEPT ![KeyOf(r)] = @ + 1]
    /\ task' = [task EXCEPT ![w][r].phase = "sent"]
    /\ UNCHANGED <<dbVars, pc, plan, ambiguous, faultVars>>

\* sender.send raises and nothing was delivered.
SendRefused(w, r) ==
    /\ task[w][r].phase = "send"
    /\ task' = [task EXCEPT ![w][r].phase = "failed"]
    /\ UNCHANGED <<dbVars, pc, plan, mailVars, faultVars>>

\* sender.send raises (a timeout) although the provider took the mail.
SendAmbiguous(w, r) ==
    /\ task[w][r].phase = "send"
    /\ ambiguous[KeyOf(r)] < MaxAmbiguous
    /\ inbox' = [inbox EXCEPT ![KeyOf(r)] = @ + 1]
    /\ ambiguous' = [ambiguous EXCEPT ![KeyOf(r)] = @ + 1]
    /\ task' = [task EXCEPT ![w][r].phase = "failed"]
    /\ UNCHANGED <<dbVars, pc, plan, faultVars>>

Send(w, r) == SendAccepted(w, r) \/ SendRefused(w, r) \/ SendAmbiguous(w, r)

\* Mutant of Outcome: a provider failure is swallowed.
Outcome_Swallowed(t) == [status |-> "SENT", attempts |-> t.attempt]

\* What the task assigns to its row object after an attempt.
Outcome(t) ==
    [status |-> IF t.phase = "sent" THEN "SENT" ELSE "FAILED",
     attempts |-> t.attempt]

\* The UPDATE the session flushes: the columns whose value differs from the
\* session's own copy of the row, whatever the table holds by now.
Flush(row, cached, new) ==
    [status |-> IF new.status # cached.status THEN new.status ELSE row.status,
     attempts |-> IF new.attempts # cached.attempts
                  THEN new.attempts ELSE row.attempts]

\* The table after the task's commit.
Recorded(w, r) ==
    [table EXCEPT ![r] = Flush(@, task[w][r].cached, Outcome(task[w][r]))]

\* Mutant of Continue: range(1, max_attempts), one attempt too few.
Continue_OneLess(t) ==
    IF t.phase = "failed" /\ t.attempt + 1 < MaxAttempts
    THEN [phase |-> "send", attempt |-> t.attempt + 1, cached |-> Outcome(t)]
    ELSE [t EXCEPT !.phase = "done"]

\* Mutant of Continue: one attempt too many.
Continue_OneMore(t) ==
    IF t.phase = "failed" /\ t.attempt <= MaxAttempts
    THEN [phase |-> "send", attempt |-> t.attempt + 1, cached |-> Outcome(t)]
    ELSE [t EXCEPT !.phase = "done"]

\* The loop: over after a success or the last attempt, else (after the
\* backoff) another send.
Continue(t) ==
    IF t.phase = "failed" /\ t.attempt < MaxAttempts
    THEN [phase |-> "send", attempt |-> t.attempt + 1, cached |-> Outcome(t)]
    ELSE [t EXCEPT !.phase = "done"]

Record(w, r) ==
    /\ task[w][r].phase \in {"failed", "sent"}
    /\ table' = Recorded(w, r)
    /\ task' = [task EXCEPT ![w][r] = Continue(@)]
    /\ UNCHANGED <<lead, lock, pc, plan, mailVars, faultVars>>

----------------------------------------------------------------------------
(* Faults *)

CountDbFault ==
    /\ dbFaults < MaxDbFaults
    /\ dbFaults' = dbFaults + 1
    /\ UNCHANGED <<unguarded, crashes, lockLosses>>

\* No connection for the lock session: the call raises before the try.
AcquireFault(w) ==
    /\ pc[w] = "start"
    /\ CountDbFault
    /\ pc' = [pc EXCEPT ![w] = "raised"]
    /\ UNCHANGED <<dbVars, plan, task, mailVars>>

\* The row transaction raises; an error on COMMIT leaves open whether the
\* rows are in.
RowsFault(w) ==
    /\ pc[w] \in {"read", "write"}
    /\ CountDbFault
    /\ \/ UNCHANGED table
       \/ pc[w] = "write" /\ table' = WithRowsOf(w)
    /\ pc' = [pc EXCEPT ![w] = "raise"]
    /\ UNCHANGED <<lead, lock, plan, task, mailVars>>

\* A task's own transaction raises, outside its try.  gather (without
\* return_exceptions) raises in the call at once; the other tasks run on.
DeliveryFault(w, r) ==
    /\ task[w][r].phase \in {"load", "failed", "sent"}
    /\ CountDbFault
    /\ \/ UNCHANGED table
       \/ task[w][r].phase \in {"failed", "sent"} /\ table' = Recorded(w, r)
    /\ task' = [task EXCEPT ![w][r].phase = "raised"]
    /\ pc' = [pc EXCEPT ![w] = IF @ = "gather" THEN "raise" ELSE @]
    /\ UNCHANGED <<lead, lock, plan, mailVars>>

\* Postgres drops the connection of lock_session: the session-level lock is
\* free, and the call does not notice before it unlocks.
LoseLock(w) ==
    /\ lock = w
    /\ lockLosses < MaxLockLosses
    /\ lockLosses' = lockLosses + 1
    /\ lock' = NoWorker
    /\ unguarded' = IF pc[w] \in {"read", "write"}
                    THEN unguarded \cup {w} ELSE unguarded
    /\ UNCHANGED <<lead, pc, plan, table, task, mailVars, crashes, dbFaults>>

\* The process of the call dies: its transactions roll back, its session
\* lock is freed, its tasks are gone, and nothing calls again by itself.
Crash(w) ==
    /\ pc[w] \in {"read", "write", "gather", "return", "raise"} \/ Live(w)
    /\ crashes < MaxCrashes
    /\ crashes' = crashes + 1
    /\ pc' = [pc EXCEPT ![w] = "dead"]
    /\ lock' = IF lock = w THEN NoWorker ELSE lock
    /\ task' = [task EXCEPT ![w] = [r \in RowId |-> NoTask]]
    /\ UNCHANGED <<lead, plan, table, mailVars, unguarded, dbFaults, lockLosses>>

----------------------------------------------------------------------------
CallStep(w) ==
    \/ Acquire(w) \/ LeadMissing(w) \/ ReadRows(w) \/ CommitRows(w)
    \/ GatherDone(w) \/ Unlock(w)

DeliverStep(w, r) == Load(w, r) \/ Send(w, r) \/ Record(w, r)

Fault(w) ==
    \/ AcquireFault(w) \/ RowsFault(w) \/ LoseLock(w) \/ Crash(w)
    \/ \E r \in RowId : DeliveryFault(w, r)

\* Every call has returned, raised or died, and no task is left.
Terminated ==
    /\ \A w \in Workers : pc[w] \in {"done", "raised", "dead"} /\ ~Live(w)
    /\ UNCHANGED vars

Next ==
    \/ \E w \in Workers :
        \/ CallStep(w)
        \/ \E r \in RowId : DeliverStep(w, r)
        \/ Fault(w)
    \/ Terminated

\* The event loop runs every ready coroutine, sends end (the sender has a
\* timeout) and Postgres grants a free lock to its waiters.
Fairness ==
    \A w \in Workers :
        /\ WF_vars(CallStep(w))
        /\ WF_vars(\E r \in RowId : DeliverStep(w, r))

Spec == Init /\ [][Next]_vars /\ Fairness

----------------------------------------------------------------------------
(* Properties that hold under every fault *)

\* A pair has one EmailLog row, however calls, errors and crashes interleave
\* (service.py:74 "reused, never duplicated").  Nothing in the schema says
\* so: the lock does.  Two rows are only possible if a call lost the lock's
\* connection before its row transaction committed.
NoDuplicateRows ==
    \A r, s \in RowId :
        (r # s /\ KeyOf(r) = KeyOf(s) /\ Present(r) /\ Present(s))
            => (r[1] \in unguarded \/ s[1] \in unguarded)

\* A row says SENT only if the provider accepted a copy (service.py:56-62),
\* even when stale tasks of a raised call still write to the row.
SentMeansDelivered ==
    \A r \in RowId : table[r].status = "SENT" => inbox[KeyOf(r)] > 0

\* A call that returns normally leaves an outcome, SENT or FAILED, for every
\* wanted pair: nothing stays PENDING behind it (service.py:93).
ReturnedMeansRecorded ==
    \A w \in Workers : (pc[w] = "done" /\ lead) =>
        \A k \in Wanted : \E r \in RowsOf(k) : table[r].status \in {"FAILED", "SENT"}

\* Every call ends and leaves no task behind, whatever raises: a raise
\* releases the lock for the calls that wait for it (service.py:111-114).
CallsReturn ==
    <>[](\A w \in Workers : pc[w] \in {"done", "raised", "dead"} /\ ~Live(w))

----------------------------------------------------------------------------
(* What a database error or a lost lock may cost *)

\* Concurrent callers deliver one after another (service.py:105-106).
DeliveriesSerialized ==
    \A v, w \in Workers : Live(v) /\ Live(w) => v = w

\* Deliveries of two calls overlap for two reasons only: a call raised out of
\* its gather and left tasks behind, or a connection that held the lock was
\* dropped (service.py:108-114).
OverlapExplained ==
    \A v, w \in Workers : (Live(v) /\ Live(w) /\ v # w) =>
        \/ lockLosses > 0
        \/ pc[v] \in {"raise", "raised"}
        \/ pc[w] \in {"raise", "raised"}

\* A recipient gets one copy, and more only for what went wrong: one for a
\* send reported as failed though delivered, one for a process that died
\* between the provider's answer and the commit of SENT, two for a database
\* error (the tasks a raised gather leaves behind send a copy of their own and
\* write FAILED over a SENT), three for a lost lock (a second row besides).
CopiesExplained ==
    \A k \in Wanted :
        inbox[k] <= 1 + ambiguous[k] + crashes + 2 * dbFaults + 3 * lockLosses

\* No database error has reached a call and no lock was lost so far.
Undisturbed == dbFaults = 0 /\ lockLosses = 0

\* Between dispatches, and unless a fault came up, every row of a dispatched
\* lead is SENT or FAILED after exactly MaxAttempts attempts (service.py:41).
Settled ==
    (Undisturbed /\ crashes = 0 /\ lead /\ (\E w \in Workers : pc[w] = "done")
        /\ \A w \in Workers : pc[w] # "gather") =>
        \A k \in Wanted : \E r \in RowsOf(k) :
            \/ table[r].status = "SENT"
            \/ table[r].status = "FAILED" /\ table[r].attempts = MaxAttempts

\* The status of the pair's row, ABSENT if it has none.
RecordOf(k) ==
    IF RowsOf(k) = {} THEN "ABSENT"
    ELSE table[CHOOSE r \in RowsOf(k) : TRUE].status

Ledger == INSTANCE EmailLedger WITH
            record <- [k \in Wanted |-> RecordOf(k)],
            copies <- inbox

\* Where no database error or lost lock can come up, the dispatch implements
\* the ledger: no copy goes out after SENT is recorded, SENT is final, and the
\* rows of all pairs appear at once.
ImplementsLedger == Ledger!LedgerSpec

=============================================================================
