# Alma Leads in TLA+

A specification of Alma Leads (a FastAPI service, a Next.js site, Postgres, an
S3 store and a mail provider): prospects submit a form with a resume, the
system e-mails them and the attorneys, and an attorney marks the lead as
reached out. The modules are translated from the code in `src/`; TLC checks
them on small instances and TLAPS proves most of the safety properties for
every value of the constants.

Paths below are relative to `src/apps/`: `api/app/...` and `web/src/...`.

## 1. Inventory

| Component | State | Operations | Talks to | Hard part |
|---|---|---|---|---|
| E-mail dispatch (`api/app/emails/service.py`) | `EmailLog` rows, a Postgres advisory lock per lead, asyncio tasks | `send_lead_emails`, `_dispatch`, `_deliver` | Postgres (three sessions), mail provider | concurrent calls, crash between send and commit, errors that leave sibling tasks running |
| Mail senders (`emails/sender.py`) | none | `send` | SMTP or Resend | an answer that is lost |
| Lead intake (`leads/router.py`, `leads/service.py` `create_lead`) | `Lead` rows, the process's background tasks | POST `/leads` | object store, Postgres, dispatch | two stores without a common transaction; tasks lost with the process |
| Lead form (`web/.../LeadForm.tsx`) | React state | submit | intake | a connection lost while the handler runs, and a second try beside it |
| Object store (`storage/s3.py`) | objects | put, delete, presign, ensure_bucket | S3 | each call may fail, put after taking effect |
| State machine and transition (`leads/state_machine.py`, `leads/service.py`) | `Lead.state`, `reachedOutBy` | PATCH `/leads/{id}` | Postgres | two attorneys at once; commit and read-back are two transactions |
| Mark-reached-out button (`MarkReachedOutButton.tsx`, the two lead pages) | React state, rendered page | click, answer, `router.refresh()` | PATCH, page reads | optimistic state, dropped connections, remount by key, several buttons for one lead |
| Connection pool (`db/session.py`) | connections | checkout, checkin, 30 s timeout | everything above | calls that hold one connection and wait for another |
| Lead list (`leads/service.py` `list_leads`, `web/.../leads/page.tsx`) | none of its own | GET `/leads`, paging, redirect | Postgres | count and rows in two statements, offsets while leads move |
| Sessions (`core/security.py`, `auth/*`, `proxy.ts`, `lib/api/*`) | cookie, token expiry, `User` rows | login, logout, `/me`, redirects | Postgres | a token outlives logout; three places decide on redirects |
| Rate limiting (`core/rate_limit.py`, `server-entry.cjs`) | windows per address, in the process | count, refuse | POST routes | window edges, restarts |
| Admission rules (`schemas/leads.py`, `leads/files.py`, `lib/validation/lead.ts`, `lib/api/errors.ts`) | none | validate, explain | intake, form | two implementations of one set of rules, and error bodies of three shapes |
| Startup, seeding (`main.py`, `seed.py`) | bucket, `User` rows | ensure_bucket, seed | S3, Postgres | failure that is only logged |

What makes each correct: the *dispatch* keeps one row per (kind, recipient),
records SENT only for a delivered mail, sends a second copy only where it has
to, and always lets the next caller in. *Intake* never answers 201 for a lead
that is incomplete, and store and table disagree only by faults that can be
named. *Admission* refuses nothing that the form could have checked, up to named
differences, and tells the visitor; the limiter's windows neither leak
nor stick. The *transition* has one winner, who is the one stamped; the *button*
is right whenever it is at rest. The *pool* loses no connection, and waits for
it end. `PROJECT.json` lists the hazards behind these, each at its line.

## 2. Modules

| Module | Models | Kind |
|---|---|---|
| `EmailLedger` | what the dispatch promises per wanted pair: records and copies | abstract specification |
| `EmailDispatch` | `send_lead_emails` with its lock, transactions, tasks, retries, faults | component, implements `EmailLedger` |
| `EmailDispatchProofs` | under every fault: types, no duplicate rows, the lock is given back, when deliveries overlap, how many copies there are | proofs |
| `EmailOutcomeProofs` | outcomes of rows under every fault; up to the first database error or lost lock: serialized deliveries, settled rows, the steps of `EmailLedger` | proofs |
| `LeadIntake` | form, POST handler, object store, table, background task, crash | component |
| `LeadIntakeProofs` | types, created leads are complete, resumes are kept, disagreements, second leads and leads without mails are counted, forms that wait have a request | proofs |
| `LeadAdmission` | form and API rules, body limit, rate limit, messages, the bucket at startup | component |
| `LeadAdmissionProofs` | types, bursts, refusals, what is shown, how the rules mirror each other | proofs |
| `LeadLifecycle` | PENDING, then REACHED_OUT with its stamp, then maybe deleted | abstract specification |
| `LeadTransition` | PATCH, button, page | component, implements `LeadLifecycle` |
| `LeadTransitionProofs` | types, one winner, the button at rest, explained conflicts, what button and page wait for, the implementation of `LeadLifecycle` | proofs |
| `ConnectionPool` | connections taken by submissions and their dispatches | component |
| `ConnectionPoolProofs` | types, no leak, no failure unless locks hold the pool | proofs |
| `LeadListing` | an attorney pages through the leads while they change | component |
| `LeadListingProofs` | types, when a page is empty, what a walk can miss, redirects go back | proofs |
| `AttorneySession` | signing in and out, page visits and calls of a tab meanwhile | component |
| `AttorneySessionProofs` | types, whose name is shown, what a sign-out leaves, where detours end, and that they do | proofs |
| `MC*` | model values and symmetry for TLC | instances |

Operators named `X_Something` next to an `X` are mutants: `X` with a plausible
bug. `PROJECT.json` says which property each of them must break.

### EmailDispatch

| Code | Specification |
|---|---|
| `pg_advisory_lock`, `pg_advisory_unlock` in `finally` | `lock`; `Acquire`, `Unlock` |
| `_dispatch`'s transaction: read, choose, insert, commit | `ReadRows` (the SELECTs and the loop) and `CommitRows`, with other calls' steps between them |
| a lead that does not exist | `LeadMissing`; `lead` is either from the start |
| `asyncio.gather` | `pc = "gather"`, `GatherDone`; the first exception takes the call to `"raise"` in `DeliveryFault`, and the other tasks stay |
| `_deliver`: `get_one`, `send`, commit, loop | `Load`, `SendAccepted` / `SendRefused` / `SendAmbiguous`, `Record` with `Continue` |
| a session that writes only the columns it changed, from its own copy (`expire_on_commit=False`) | `cached`, `Flush` |
| errors of the database, the lock's connection, the process | `AcquireFault`, `RowsFault` (also on a COMMIT that took effect), `DeliveryFault`, `LoseLock`, `Crash` |

Abstractions. One lead: dispatches of different leads share only the pool. A
row's id is named by the call that inserted it and its pair, so duplicates are
representable. `error`, `provider_id`, `sent_at` and the length of the backoff
are left out; a backoff is any time between `Record` and the next send. A crash
ends a process and its database sessions in one step. In the code a second
call for a lead comes from a redelivery (the docstring of `send_lead_emails`
names a retried task and a queue); `Workers` are such calls. In "duplicate"
properties the lock's connection matters: `unguarded` remembers the calls that
lost it before their rows were committed.

### LeadIntake

A request is `<<visitor, try>>` and stands for the lead id and the object key
it draws. `step[q]` follows the handler: `put`, `insert`, `cleanup`, `queue`,
then the decided response, then `answered`. `objects` and `leads` are the two
stores. All the checks before `create_lead` are one action, `Refuse`: each ends
in a 4xx and changes nothing modelled here; `LeadAdmission` has them in full.
The honeypot's made-up 201 is `Decoy`. A resume can be downloaded if its lead
is in the table and its object in the store (`Downloads`): `get_resume` signs a
URL from the row and asks the store for nothing. `TornCommit` is a COMMIT that
takes effect and still raises.

`LoseAnswer` is the `fetch` that throws: at any moment from the arrival of the
request to its answer. The handler goes on, the form is open again, and the next
try may run beside the first; `Awaited` is the request whose answer the form
would still show. `Crash` is the death of the process, which has no line of its
own: it takes the requests and the in-memory tasks (`leads/router.py:90`), and
`FetchThrows` is what the catch block of the form makes of it.
`Dispatch` is the start of `send_lead_emails`; `EmailDispatch` takes over there,
with `lead` TRUE by `CreatedIsComplete`.

### LeadAdmission

| Code | Specification |
|---|---|
| `leadSchema`, `resumeError` | `FormErrors`; `Correct` shows its messages and sends nothing |
| `reject_oversized_uploads` | `TooLarge` in `Arrive`: before the form is parsed, and before the limiter |
| `limiter.limit` around the route | `Pass`, `Refuse`: after the parsing, before the route's own checks, so requests that a rule refuses later are counted |
| `LeadCreateForm.as_form`, the honeypot, `validate_resume` | `Validate`, in this order |
| `create_lead` of the service | `Create`; of its failures only that of a missing bucket (the others are in `LeadIntake`) |
| `parseApiError`, `setError`, the catch clause | `Receive`, `Lose` |
| `lifespan` | `EnsureBucket`, in `Init` and `Restart` |

A draft is a record of what the two sets of rules can tell apart. A name has
three lengths: the form's UTF-16 units, the API's code points, and what
`str.strip` leaves. A file name has a stem or not, an extension or not, something
that `_display_name` drops behind it or not; a size is a number. What a library
decides is an input: whether zod's pattern and whether `EmailStr` accept an
address (`email`, the two independently of each other, since they differ both
ways over display names, the local part, labels, non-ASCII and special-use
domains), and what libmagic takes a content for. The model does not say which
addresses those are.

`FormMirrorsApi` says what "mirrors" amounts to. A draft that the form lets
through is never refused for its size or for a name's length; it may be for a
name of control characters, an address on the word of `EmailStr` alone, a
content, or a file called `.pdf` or cut off at 255 characters. The other way
round the form turns away a name over the limit in units but not in code points,
an address that only `EmailStr` accepts, and a file such as `cv.pdf `. The
e-mail part says no more than that nothing else than the libraries' verdicts
decides; the lengths, sizes and file names are compared by the rules as written.
The allowance of the body limit (`Overhead`) must have room for the framing of
the form (`Framing`): the assumption says so, and without the allowance a file
at the limit would be refused (`TooLarge_NoOverhead`).

`Lose` is the `fetch` that throws, at any moment while the form waits: what the
API has of the request goes on, and its reply is nobody's. If the visitor
submits again, the request left behind is one of `Others` in the limiter (what
two tries store is `LeadIntake`'s question).

Addresses share nothing in the limiter, so one is modelled: the visitors and
`Others` are behind it. A window opens with the first request after the last
one has ended, takes `Limit` requests, and is lost with the process
(`Restart`). `passed` is the history of what the limiter has let through.
Messages stay as shown until the next submission; the validation of a field
while it is edited is left out.

### LeadTransition

`Buttons` are the buttons that are mounted for the lead, each on a page of its
own: in the row of the list, on the detail page, in every tab. `Owner[b]` is
the attorney signed in there (who that is, and how it changes, is
`AttorneySession`'s question), so an attorney may have several PATCHes under way
at once. A page is fetched again by its own button only: a refresh that another
page of the tab causes, which would bring it nearer the truth, is left out.

`Update` is the conditional UPDATE: the row lock makes a second one wait and
evaluate its WHERE clause again, so test and write are one step. `ReadBack` is
the separate transaction of `get_lead`. A request that drops goes on at the
server (`Disconnect` leaves it, or loses it). The page is what the last
`Arrive` rendered; its button exists while the page says PENDING and starts
afresh when it leaves PENDING and returns. One refresh is on its way at a
time, as the router queues them. Deletion of a lead is external (`Erase`): no
route does it, but the 404 branch is for it.

### ConnectionPool

`free` counts the connections that can still be handed out. "...Wait" phases
wait for one; `insert`, `rows`, `load`, `record` are transactions that have
one; a call in `Pinning` holds that of its lock from `LockBegin` to `Unlock`,
mails and backoff included. A wait times out only when `Stalled`: nothing is
free and no transaction is running, since transactions take far less than the
30 s of the pool. Time itself is not modelled.

### LeadListing

A lead stands for its place in the order `(createdAt, id)`; `createdAt` is the
start of the inserting transaction, so `Create` may add leads in any order.
`Count` and `Show` (or `Redirect`, `Overflow`) are the two statements of
`list_leads`, with other transactions between them. `page` is the page of the
URL; `Open` is a tab's link or a typed URL, `NextPage` and `PreviousPage` the
links. Readers do not disturb each other, so there is one. `walk`, `seen`,
`there`, `departed`, `squeezed` and `drained` are history variables for the
properties. `MissedExplained` is the exact price of offset paging: one lead
missed for each that left the tab, or slipped in between a count and its rows,
while the reader was paging, and none for those that arrive between pages. A
page number whose offset the query cannot carry ends in a 500 (`Overflow`),
not in the redirect that smaller ones get.

### AttorneySession

| Code | Specification |
|---|---|
| `create_access_token`, `decode_access_token` | `tokens` (by order of issue), `expired`, `Expire` |
| the cookie jar | `cookie`; it changes when an *answer* arrives (`SignedIn`, `SignedOut`), by another tab (`SignInElsewhere`), by its own Max-Age (`DropCookie`) |
| `get_current_attorney` | `Valid`: the token decodes and its user exists |
| a page request | `visit`, with the cookie of the moment it was sent; `Proxy` / `ProxyRedirect`, then one `ReadOk` or `ReadUnauthorized` for the layout and one for the page |
| `redirect("/login?next=")` | `ToLogin`; `path` is then `?next=` |
| client-side navigation | visits of kind `link` keep the layout, and with it `badge`, the sign-in whose name the header shows; `refresh` is `router.refresh()` |
| calls of scripts | `call`; one at a time. `Click` stands for every call but login and logout |

Tabs share nothing but the cookie, so one tab is modelled in full and the
others by what they do to it. Scripts live on after a soft redirect: when a
link's read and a call both meet a 401, `redirectOn401` takes the login page
itself for the place to return to, and the next sign-in leads to a second login
page (`again`). `MisattributionExplained` is about the stamp of
`LeadTransition`: a tab whose header names one attorney can act for another,
but only after a sign-in in another tab, or one whose answer was lost. A
sign-out clears the cookie and revokes nothing: `tokens` are good until they
expire.

`wanted` is the page the person asked for last, and no script changes it. A
script that navigates (`redirectOn401`, a sign-in, a sign-out) replaces a page
request under way and leads somewhere else: a 401 of a call made on one page
brings the person back to that page although they have followed a link to
another. `overtaken` records where the script led, and `ShownIsWanted` says that
this is the only way to end at a page that was not asked for. Every answer to a
call but a 401 is followed by `router.refresh()` (`Refresh`); a 401 replaces the
document, so the refresh that the code still asks for then is left out.

## 3. Runs

| Run | Question | Bounds, and why they are enough |
|---|---|---|
| `email_clean` | without database errors: settled rows, implements `EmailLedger` | 3 calls (one delivers, one waits, one comes later), 2 pairs, 2 attempts (a retry and a last attempt), 1 ambiguous send per pair, 1 crash |
| `email_faults` | what holds of rows and calls under every fault, when deliveries overlap and how many copies that makes; does every call end | 2 calls, 2 pairs (a sibling to leave behind), one database error, one lost lock and one crash; 1 attempt and no ambiguous send, which `email_clean` has and which would make this run four times as long: the properties of this run are proved for any number of both; no symmetry, since one property is a liveness property |
| `email_serialized` (violated) | "concurrent callers run one after another" | one database error |
| `intake` | are created leads complete and dispatched, and is each disagreement explained | 1 visitor with 3 tries, which run side by side after lost connections (2 of these); 2 faults of the store, 1 of each other. Two visitors share nothing but the bounds on faults and the crash, and are proved |
| `intake_resume` (violated) | "nothing references the key" | one torn commit |
| `transition` | one winner, honest button, settled clicks, implements `LeadLifecycle` | an attorney with two buttons, one of them clicked twice, and another with one: two own requests at once, with and beside a rival's; 1 drop, 1 database error, a deletion |
| `transition_conflict` (violated) | "another attorney got here first" | one button each, one drop |
| `pool` | no leak, no failure unless locks hold the whole pool, no endless wait | 3 submissions on 2 connections: two can hold the pool while one waits; 2 mails, 1 retry |
| `pool_outage` (violated) | "an outage never fails the submission" | the same pool, no retry |
| `admission` | how do form and API differ, is the visitor told the truth, what does the limiter let through | 1 visitor (more are proved) and others behind the address; drafts that differ from a good one in at most one respect, and four that do in two; names of no, one, `MaxName` and one more characters, with and without surrogate pairs and control characters; `Limit` and `Period` 2 over times 0 to 4: two windows and the edge between them, aligned or not; 1 restart |
| `listing` | what can a reader miss, when is a page empty, do redirects end | 4 leads on pages of 2: two full pages, a page that loses its last lead; pages up to 4, so the last two are beyond the end; the largest offset is that of page 3 |
| `session` | whose name is acted in, what a sign-out leaves, where detours end, no circle of redirects | 2 users, 2 pages, 2 sign-ins here or elsewhere; visits, calls, failures and expiries are not bounded |

The bounds on faults (`MaxCrashes`, `MaxDbFaults`, `MaxTornCommits`, ...) and
on tries (`MaxTries`, `MaxClicks`, `MaxRetries`) are the only ones the code
does not have; `MaxAttempts` is `settings.email_max_attempts`.

### What the four violated runs show

- `email_serialized`. `gather` raises at the first exception of a task; the
  `finally` clause frees the lock while the other `_deliver` tasks are still
  running. The next caller finds rows that are not SENT and delivers them as
  well, which the docstring of `send_lead_emails` rules out. `OverlapExplained`
  says when two calls deliver at once (only after a database error or a lost
  lock), and `CopiesExplained` at what price: a pair gets at most one mail, one
  more for each ambiguous send of its own and for each crash, two more for each
  database error and three for each lost lock.
- `intake_resume`. A commit whose acknowledgement is lost raises into
  `except Exception`, which deletes the resume of a lead that is in the table.
  `ResumeKept` proves that this is the only way.
- `transition_conflict`. After a dropped connection the attorney clicks again
  and is told that someone else made their own change. `ConflictExplained` in
  the passing run says when: after a click on another button for the lead (list
  and detail page, or two tabs; no fault is needed), or after an earlier click on
  the same one whose connection dropped or that was answered 500.
- `pool_outage`. Calls that wait for a slow provider keep the connections of
  their locks; the INSERT of a later submission times out in the pool.
  `FailureNeedsLoad` says when: at the step that fails, the locks of dispatches
  under way hold the whole pool. A load that is over explains nothing.

### Fairness

Weak fairness on the steps of calls, tasks, handlers, answers and renders: the
event loop runs every coroutine that is ready, sends have a timeout, Postgres
grants a free lock, and the pool hands a free connection to a waiter or times
out. `CallsReturn` needs no strong fairness, because each call takes the lock
once. No fairness is assumed for anything a person or a fault does: `Submit`,
`Click`, `Erase`, `Crash`, and the fault actions. In `LeadIntake` the fairness
of `Handle` covers its faults too, which are bounded. `PageEnds` and
`VisitSettles` assume only that a page request that was made is served and that
the browser follows redirects (`Serve`); nothing is assumed of the person.

Deadlock is checked in every run: a module whose system can come to rest has an
explicit last step (`Terminated`, `Idle`, `Quiet`, `Finished`) that is enabled
only where nothing is left to do. In `LeadListing` and `AttorneySession` a
person can always open another page.

## 4. Proofs

Checked by TLAPS for all values of the constants, from the named assumptions of
the modules (bounds are naturals, sentinels such as `NoWorker` are not members
of the sets they complete, the leads and mails of `ConnectionPool` are finite).

- `EmailDispatchProofs`. `TypeCorrect`, and `NeverDuplicated`: a pair has two
  rows only if a call lost its lock first. `NoDuplicateRows` is not inductive:
  it has to be known that a call which has read the table and not committed
  yet holds the lock (or is in `unguarded`), and that no row of the pairs it
  plans to insert has appeared since. `InductiveInvariant` proves that
  strengthening, action by action. `LockReleased` and `OverlapsExplained` need
  which tasks a call can have at each stage of its life (`Stages`): tasks
  outlive a call only through a database error.
  `CopiesAccounted` counts mails, whatever goes wrong. A mail leaves nothing
  that stays: a row's SENT can be overwritten by a task of another call, and a
  task dies with its process. So the proof is by a potential. `Debts(k)` is
  the set of ways in which pair `k` can still get a mail that nothing has
  paid for: the pair has no row, or one that is not SENT, or the holder of the
  lock is about to deliver one; and a call that delivers without the lock
  may insert a row, send a copy, or write FAILED over a SENT.
  `inbox + |Debts|` is at most what the faults allow (`Covered`), and that is
  inductive: a send pays a debt, a step under the lock exchanges one debt for
  another, a crash and an ambiguous send add at most one, a database error
  two and a lost lock three.
- `EmailOutcomeProofs`, on top of it. `SentIsDelivered` and
  `ReturnedIsRecorded`. A status is written by a session that leaves out the
  columns it believes unchanged, so the proof has to bound what a task's own
  copy of its row can be (`CacheIsHonest`): where the copy has an outcome,
  the table has one too. A task that is over has recorded an outcome
  (`DoneIsRecorded`), and a pair that a call has planned has a task while the
  call gathers and an outcome once it returns (`PlanIsKept`).
  A second part is about any execution up to its first database error or lost
  lock (`Undisturbed`; crashes and ambiguous sends remain): `Serialized`,
  `RowsEndSettled`, and `LedgerUntilDisturbed`, by which every step is one of
  `EmailLedger`; where these two faults are excluded (`Calm`, the bounds of
  `email_clean`) that makes `DispatchImplementsLedger`. Its invariant
  (`CalmInv`) says what the lock is for: a call holds it from its SELECT to
  the end of its gather and its tasks run no longer than that, so a task's copy
  of its row is the row, no task delivers a row that is SENT, and a plan is
  still right when it is committed. `NeverDuplicated` makes the row of a pair
  unique, so `EmailLedger`'s record of a pair is that row's status.
- `LeadIntakeProofs`. `TypeCorrect`, `CreatedComplete` and `ResumeKept`. The
  invariant relates each phase of the handler to the two stores: the object is
  there from `insert` on, the row is not there before `queue` unless a commit
  was torn, and what is in `tasks` or `dispatched` has both.
  `DanglingCounted` and `OrphansCounted` bound the disagreements of the two
  stores by the faults there were. Their invariant (`CountInv`) counts a lead
  from its torn commit on, before the clean-up deletes its object, and an
  object from the decision on the answer, before it is sent.
  `SecondLeadsCounted` bounds a visitor's leads: a form awaits one request at a
  time, and each that it has given up without being told of an error, its
  handler perhaps still at work, cost a lost connection or a crash
  (`GivenUpInv`); of the others at most one has a lead that no torn commit made. `SilentLeadsCounted` is about the leads no mail will be
  sent for: while the process lives, one for each torn commit, which leaves a
  lead in the table, an error on the form and no task in the queue.
- `LeadAdmissionProofs`. `BurstsBounded` and `RefusalsJustified` follow from
  an invariant on the window (`WindowInv`): its requests are the last that
  passed, it ends a period after the first of them, and requests further back
  than `Limit` times (1 + restarts) are a period older than that first one.
  `RulesMirrored` and `ShownIsRight` follow from one on each request (`FormInv`):
  a reply is the one the draft's rules call for, a draft that was sent had passed
  the form, and the form waits for it or has said that it does not.
- `LeadTransitionProofs`. `TypeCorrect`, `AtMostOneWinner`, and
  `RowImplementsLifecycle`: every step of `LeadTransition` is a step of
  `LeadLifecycle` or leaves `state` and `reachedBy` alone. The invariant says
  that nobody has won while the lead is PENDING. `OptimismIsJustified` and
  `ConflictIsExplained` need what answers and pages on their way say of a row
  that only moves forward (`ButtonInv`), and that without a fault a button's
  only request under way is that of the click the button waits for.
- `ConnectionPoolProofs`. `NoneLeaks` and `FailuresNeedLoad`, by counting: a
  step moves one lead or task, so it changes at most one of the numbers of
  holders by one, and `free` by as much (`OneMoves`, `BalanceStep`). A wait
  times out only when nothing is free and no transaction runs; then every
  connection is that of a lock that is held (`StalledLoad`).
- `LeadListingProofs`. `EmptyIsExplained`: if no lead left the tab since the
  count, the tab still has as many leads as were counted (`CountTells`), a
  page up to the last begins below that number (`PageBegins`), and there is a
  lead at every place below it (`Ranked`, by the least-number principle). That
  the history counters are in their bounds (`CountersTell`) is part of
  `TypeCorrect`. `MissedIsExplained` follows from an invariant on the walk
  (`WalkInv`): before the page the reader is at, and once it is shown before
  the next one, no more leads were missed than left the tab or slipped in. A
  lead that leaves moves one other past the reader at most, since no two leads
  have the same place (`BeforeLoss`); one that enters moves none
  (`BeforeGain`); and beyond the last page there is only what the count has
  not seen (`BeyondPlace`, `LastPageEnds`).
- `AttorneySessionProofs`. `TypeCorrect`, `NameIsRight`, `SignOutHolds` and
  `PageIsWanted`. The invariant says where requests may be (a script that signs
  in runs on a login page, links and refreshes start from a dashboard), that
  while the cookie is of the tab's own sign-in every header and visit is of
  that sign-in too (`OwnIsShown`), and that a visit, or the login page in its
  place, leads to the page asked for, or to where a script has led the tab
  instead (`OnTheWay`).

Only model-checked: the liveness properties (`CallsReturn`, `FormSettles`,
`CreatedIsDispatched`, `ClickSettles`, `PageCatchesUp`, `EverySubmissionEnds`,
`PageEnds`, `VisitSettles`), which are out of the prover's reach. Every
invariant and every action property of the passing runs is proved, that
`EmailDispatch` implements `EmailLedger` under `Calm`, as `email_clean` has it.

Of the liveness properties a safety half is proved, so that what is left to
TLC is that enabled steps are taken. Whoever waits, waits for something that
is under way: `LockReleased` (callers, for the lock), `FormsAreAwaited` (forms),
`ButtonsAreAwaited` (buttons for an answer, optimistic buttons for a render).
And what could go in circles does not: a redirect of the list goes to an
earlier page (`RedirectsGoBack`), and a page request of a session is over after
three steps (`RedirectsEnd`).

## 5. Plan

Done, in this order: `EmailLedger` and `EmailDispatch` (the most concurrent
part), their proofs; `LeadIntake`, its proofs; `LeadLifecycle` and
`LeadTransition`, their proofs; `ConnectionPool`, `LeadListing`,
`AttorneySession`, its proofs; `LeadAdmission` (the two sets of rules, the
limiter, startup), its proofs; outcomes of e-mails, counting in `LeadIntake`,
the button, the pool and the list proved; serialized deliveries and the
implementation of `EmailLedger`, second leads, and what a walk misses, proved;
overlapping deliveries and the number of copies proved under every fault, and
what was proved of executions without database errors extended to any
execution up to its first one; the safety halves of the liveness properties.

Left: `LeadFlow`, the composition of `LeadIntake` and `EmailDispatch` from a
201 to settled rows. They meet in one step, `Dispatch`, where
`CreatedIsComplete` (proved) is what `EmailDispatch` assumes with `lead` TRUE.

## 6. Not modelled

Mail templates, page layout, time display, configuration loading, generated
API schemas, migrations, containers, CI and scripts: no state that another
component depends on. The same-origin and content-type checks are predicates
on the headers of one request, and those of the site's own pages pass them.
Seeding runs by hand, once. How the limiter finds the address behind the proxy
(`server-entry.cjs`) and the lifetime of a presigned URL are left out: the one
only names the address, the other is kept by the store. Dashboard requests take
a connection for one short transaction, as an INSERT does in `ConnectionPool`.
