----------------------------- MODULE LeadIntake -----------------------------
(***************************************************************************)
(* Submission of leads, from the form to the scheduled e-mails:            *)
(*   apps/web/src/components/LeadForm.tsx   the visitor's form             *)
(*   apps/api/app/leads/router.py           POST /api/v1/leads             *)
(*   apps/api/app/leads/service.py          create_lead                    *)
(*   apps/api/app/storage/s3.py             put, delete                    *)
(*                                                                         *)
(* A request is <<visitor, number of the try>>; the handler draws a fresh  *)
(* lead id and object key (uuids) for it, so the request stands for both.  *)
(* The resume goes to the object store first and the Lead row to Postgres  *)
(* after it, and no transaction spans the two.  E-mails are a background   *)
(* task of the API process: it runs after the response is sent, and only   *)
(* the process remembers it.                                               *)
(***************************************************************************)
EXTENDS Naturals, FiniteSets

CONSTANTS
    Visitors,          \* people with the form open
    MaxTries,          \* bound: submissions per visitor
    MaxStoreFaults,    \* bound: object store calls that raise
    MaxInsertFaults,   \* bound: inserts that fail and leave no row
    MaxTornCommits,    \* bound: commits that take effect and still raise
    MaxLostAnswers,    \* bound: connections lost before the response is in
    MaxCrashes         \* bound: deaths of the API process

ASSUME LeadIntakeBounds ==
    /\ MaxTries \in Nat \ {0}
    /\ MaxStoreFaults \in Nat
    /\ MaxInsertFaults \in Nat
    /\ MaxTornCommits \in Nat
    /\ MaxLostAnswers \in Nat
    /\ MaxCrashes \in Nat

VARIABLES
    form,              \* form[v]: what the visitor sees
    tries,             \* tries[v]: submissions so far
    step,              \* step[q]: where the handler of the request stands
    objects,           \* requests whose resume is in the bucket
    leads,             \* requests whose Lead row is committed
    tasks,             \* requests whose background task is still to run
    dispatched,        \* requests whose send_lead_emails has started
    storeFaults, insertFaults, tornCommits, lostAnswers, crashes

stores == <<objects, leads>>
background == <<tasks, dispatched>>
faults == <<storeFaults, insertFaults, tornCommits, lostAnswers, crashes>>
vars == <<form, tries, step, objects, leads, tasks, dispatched,
          storeFaults, insertFaults, tornCommits, lostAnswers, crashes>>

----------------------------------------------------------------------------
Request == Visitors \X (1 .. MaxTries)
VisitorOf(q) == q[1]

\* The request a visitor sent last.  Its form waits for the answer of that
\* one; nobody hears of an answer to one that it has given up.
Last(v) == <<v, tries[v]>>
Awaited(q) == form[VisitorOf(q)] = "submitting" /\ q = Last(VisitorOf(q))

Form == {"editing", "submitting", "thanks"}

\* The handler decides on a response in Decided; it is on its way until the
\* request is "answered", or "dead" if the process died first.
Handling == {"received", "put", "insert", "cleanup", "queue"}
Decided == {"created", "decoy", "refused", "error"}
Step == Handling \cup Decided \cup {"unsent", "answered", "dead"}

TypeOK ==
    /\ form \in [Visitors -> Form]
    /\ tries \in [Visitors -> 0 .. MaxTries]
    /\ step \in [Request -> Step]
    /\ objects \subseteq Request
    /\ leads \subseteq Request
    /\ tasks \subseteq Request
    /\ dispatched \subseteq Request
    /\ storeFaults \in 0 .. MaxStoreFaults
    /\ insertFaults \in 0 .. MaxInsertFaults
    /\ tornCommits \in 0 .. MaxTornCommits
    /\ lostAnswers \in 0 .. MaxLostAnswers
    /\ crashes \in 0 .. MaxCrashes

Init ==
    /\ form = [v \in Visitors |-> "editing"]
    /\ tries = [v \in Visitors |-> 0]
    /\ step = [q \in Request |-> "unsent"]
    /\ objects = {} /\ leads = {} /\ tasks = {} /\ dispatched = {}
    /\ storeFaults = 0 /\ insertFaults = 0 /\ tornCommits = 0
    /\ lostAnswers = 0 /\ crashes = 0

Goto(q, from, to) ==
    /\ step[q] = from
    /\ step' = [step EXCEPT ![q] = to]

----------------------------------------------------------------------------
(* The form *)

\* Mutant of Submit: the button is not disabled while submitting.
Submit_DoubleClick(v) ==
    /\ form[v] # "thanks"
    /\ tries[v] < MaxTries
    /\ tries' = [tries EXCEPT ![v] = @ + 1]
    /\ form' = [form EXCEPT ![v] = "submitting"]
    /\ step' = [step EXCEPT ![<<v, tries[v] + 1>>] = "received"]
    /\ UNCHANGED <<stores, background, faults>>

\* handleSubmit: the button is disabled while a submission is in flight, and
\* the form is gone after a success.
Submit(v) ==
    /\ form[v] = "editing"
    /\ tries[v] < MaxTries
    /\ tries' = [tries EXCEPT ![v] = @ + 1]
    /\ form' = [form EXCEPT ![v] = "submitting"]
    /\ step' = [step EXCEPT ![<<v, tries[v] + 1>>] = "received"]
    /\ UNCHANGED <<stores, background, faults>>

----------------------------------------------------------------------------
(* POST /api/v1/leads, up to the first write *)

\* Content-Length, origin, form fields, rate limit, resume: 4xx before any
\* state changes.
Refuse(q) ==
    /\ Goto(q, "received", "refused")
    /\ UNCHANGED <<form, tries, stores, background, faults>>

\* The honeypot field is filled: 201 with a made-up id.
Decoy(q) ==
    /\ Goto(q, "received", "decoy")
    /\ UNCHANGED <<form, tries, stores, background, faults>>

\* Form and resume are valid: service.create_lead is called.
Accept(q) ==
    /\ Goto(q, "received", "put")
    /\ UNCHANGED <<form, tries, stores, background, faults>>

----------------------------------------------------------------------------
(* service.create_lead *)

\* storage.put succeeds.
Put(q) ==
    /\ Goto(q, "put", "insert")
    /\ objects' = objects \cup {q}
    /\ UNCHANGED <<form, tries, leads, background, faults>>

\* storage.put raises, outside the try: 500, no clean-up.  The store may
\* hold the object (the error may be a timeout).
PutFault(q) ==
    /\ Goto(q, "put", "error")
    /\ storeFaults < MaxStoreFaults
    /\ storeFaults' = storeFaults + 1
    /\ objects' \in {objects, objects \cup {q}}
    /\ UNCHANGED <<form, tries, leads, background,
                   insertFaults, tornCommits, lostAnswers, crashes>>

\* Mutant of Insert: the object is deleted in a finally clause.
Insert_Finally(q) ==
    /\ Goto(q, "insert", "cleanup")
    /\ leads' = leads \cup {q}
    /\ UNCHANGED <<form, tries, objects, background, faults>>

\* The transaction inserts the Lead row and commits.
Insert(q) ==
    /\ Goto(q, "insert", "queue")
    /\ leads' = leads \cup {q}
    /\ UNCHANGED <<form, tries, objects, background, faults>>

\* Mutant of InsertFault: the except clause does not re-raise.
InsertFault_Swallowed(q) ==
    /\ Goto(q, "insert", "queue")
    /\ insertFaults < MaxInsertFaults
    /\ insertFaults' = insertFaults + 1
    /\ UNCHANGED <<form, tries, stores, background,
                   storeFaults, tornCommits, lostAnswers, crashes>>

\* Mutant of InsertFault: no clean-up.
InsertFault_NoCleanup(q) ==
    /\ Goto(q, "insert", "error")
    /\ insertFaults < MaxInsertFaults
    /\ insertFaults' = insertFaults + 1
    /\ UNCHANGED <<form, tries, stores, background,
                   storeFaults, tornCommits, lostAnswers, crashes>>

\* The transaction raises and no row is left: `except Exception`.
InsertFault(q) ==
    /\ Goto(q, "insert", "cleanup")
    /\ insertFaults < MaxInsertFaults
    /\ insertFaults' = insertFaults + 1
    /\ UNCHANGED <<form, tries, stores, background,
                   storeFaults, tornCommits, lostAnswers, crashes>>

\* COMMIT takes effect, but its acknowledgement is lost and the driver
\* raises: the same `except Exception`.
TornCommit(q) ==
    /\ Goto(q, "insert", "cleanup")
    /\ tornCommits < MaxTornCommits
    /\ tornCommits' = tornCommits + 1
    /\ leads' = leads \cup {q}
    /\ UNCHANGED <<form, tries, objects, background,
                   storeFaults, insertFaults, lostAnswers, crashes>>

\* storage.delete, then `raise`: 500.
Cleanup(q) ==
    /\ Goto(q, "cleanup", "error")
    /\ objects' = objects \ {q}
    /\ UNCHANGED <<form, tries, leads, background, faults>>

\* storage.delete raises: logged, and the object stays.
CleanupFault(q) ==
    /\ Goto(q, "cleanup", "error")
    /\ storeFaults < MaxStoreFaults
    /\ storeFaults' = storeFaults + 1
    /\ UNCHANGED <<form, tries, stores, background,
                   insertFaults, tornCommits, lostAnswers, crashes>>

----------------------------------------------------------------------------
(* The answer and the background task *)

\* Mutant of Queue: the task is not added.
Queue_NotAdded(q) ==
    /\ Goto(q, "queue", "created")
    /\ UNCHANGED <<form, tries, stores, background, faults>>

\* Mutant of Queue: the task gets an id that is not the lead's.
Queue_FreshId(q) ==
    /\ Goto(q, "queue", "created")
    /\ tasks' = tasks \cup {<<VisitorOf(q), 0>>}
    /\ UNCHANGED <<form, tries, stores, dispatched, faults>>

\* background.add_task(send_lead_emails, ...) and return 201.
Queue(q) ==
    /\ Goto(q, "queue", "created")
    /\ tasks' = tasks \cup {q}
    /\ UNCHANGED <<form, tries, stores, dispatched, faults>>

\* What the form shows after a response: a 201 (the decoy's too) shows
\* "Thank you", any other status leaves the form open with an error.
Outcome(response) == IF response \in {"created", "decoy"} THEN "thanks" ELSE "editing"

\* The response is sent.  It reaches the form if that still waits for it.
Answer(q) ==
    /\ step[q] \in Decided
    /\ step' = [step EXCEPT ![q] = "answered"]
    /\ form' = IF Awaited(q)
                 THEN [form EXCEPT ![VisitorOf(q)] = Outcome(step[q])]
                 ELSE form
    /\ UNCHANGED <<tries, stores, background, faults>>

\* The connection is lost while the handler runs, or the response on its
\* way: fetch throws, and the form is open again.  The handler goes on, so
\* that the next try may run beside it.  (A request lost before it arrives
\* ends as a refused one does: nothing is stored and nobody hears of it.)
LoseAnswer(q) ==
    /\ Awaited(q)
    /\ step[q] \in Handling \cup Decided
    /\ lostAnswers < MaxLostAnswers
    /\ lostAnswers' = lostAnswers + 1
    /\ form' = [form EXCEPT ![VisitorOf(q)] = "editing"]
    /\ UNCHANGED <<tries, step, stores, background,
                   storeFaults, insertFaults, tornCommits, crashes>>

\* The background task starts, once the response is out.
Dispatch(q) ==
    /\ q \in tasks
    /\ step[q] = "answered"
    /\ tasks' = tasks \ {q}
    /\ dispatched' = dispatched \cup {q}
    /\ UNCHANGED <<form, tries, step, stores, faults>>

\* Mutant of FetchThrows: the form does not catch it.
FetchThrows_NoCatch == UNCHANGED form

\* No form that waits will get its answer: fetch throws in each of them, and
\* the catch block opens the form again.
FetchThrows ==
    form' = [v \in Visitors |->
               IF form[v] = "submitting" THEN "editing" ELSE form[v]]

\* The API process dies and restarts: the requests in flight and the
\* background tasks are gone, what Postgres and the bucket hold stays.
Crash ==
    /\ crashes < MaxCrashes
    /\ crashes' = crashes + 1
    /\ step' = [q \in Request |->
                  IF step[q] \in Handling \cup Decided THEN "dead" ELSE step[q]]
    /\ tasks' = {}
    /\ FetchThrows
    /\ UNCHANGED <<tries, stores, dispatched,
                   storeFaults, insertFaults, tornCommits, lostAnswers>>

----------------------------------------------------------------------------
Handle(q) ==
    \/ Refuse(q) \/ Decoy(q) \/ Accept(q)
    \/ Put(q) \/ PutFault(q)
    \/ Insert(q) \/ InsertFault(q) \/ TornCommit(q)
    \/ Cleanup(q) \/ CleanupFault(q)
    \/ Queue(q) \/ Answer(q) \/ LoseAnswer(q)

\* Nobody can submit any more and the process has nothing left to do.
Idle ==
    /\ \A v \in Visitors : form[v] = "thanks" \/ (form[v] = "editing" /\ tries[v] = MaxTries)
    /\ \A q \in Request : step[q] \in {"unsent", "answered", "dead"}
    /\ tasks = {}
    /\ UNCHANGED vars

Next ==
    \/ \E v \in Visitors : Submit(v)
    \/ \E q \in Request : Handle(q) \/ Dispatch(q)
    \/ Crash
    \/ Idle

\* A handler that runs gets to its end, and the process runs the background
\* tasks it has; visitors need not submit and faults need not happen.
Fairness == \A q \in Request : WF_vars(Handle(q)) /\ WF_vars(Dispatch(q))

Spec == Init /\ [][Next]_vars /\ Fairness

----------------------------------------------------------------------------
(* Properties *)

\* Whatever was answered 201 as a lead is complete: the row is committed and
\* its resume is in the bucket (service.py:31-53, router.py:88-91).
CreatedIsComplete ==
    \A q \in Request : step[q] = "created" \/ q \in tasks \cup dispatched =>
        q \in leads /\ q \in objects

\* service.py:47 "Nothing references the key": a lead never refers to a
\* resume that was deleted.
LeadHasResume == leads \subseteq objects

\* get_resume signs a link to the object of a lead in the table, and asks the
\* store for nothing: whether the link leads anywhere is up to the store.
Downloads(q) == q \in leads /\ q \in objects

\* The leads whose resume cannot be downloaded are those whose commit raised
\* although it took effect (service.py:46-52, router.py:131).
DanglingExplained == Cardinality({q \in leads : ~Downloads(q)}) <= tornCommits

\* An object without a lead, once its request is answered, is one that the
\* store failed to delete, or kept although put raised: a fault for each of
\* them (service.py:46-52).  A crash may leave more, of requests it cut off.
OrphansExplained ==
    Cardinality({q \in objects \ leads : step[q] = "answered"}) <= storeFaults

\* Each lead of a visitor but one is the work of a fault: the connection of
\* its request lost, with the handler still at work or done, a crash, or a
\* torn commit.  Nothing ties a retry to the try given up, and the two may
\* store a lead each, in any order (LeadForm.tsx:48-68).
SecondLeadExplained ==
    \A v \in Visitors :
        Cardinality({q \in leads : VisitorOf(q) = v})
            <= 1 + lostAnswers + crashes + tornCommits

\* Every lead answered 201 is handed to the e-mail dispatch, unless the
\* process dies first (router.py:90): the task lives in memory only.
CreatedIsDispatched ==
    \A q \in Request :
        (step[q] = "created") ~> (q \in dispatched \/ crashes > 0)

\* No form waits forever: each submission ends in thanks or in an error.
FormSettles ==
    \A v \in Visitors : (form[v] = "submitting") ~> (form[v] # "submitting")

=============================================================================
