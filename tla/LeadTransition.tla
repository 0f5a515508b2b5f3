--------------------------- MODULE LeadTransition ---------------------------
(***************************************************************************)
(* Attorneys mark one lead as reached out:                                 *)
(*   apps/api/app/leads/service.py          transition, get_lead           *)
(*   apps/api/app/leads/state_machine.py    the allowed transitions        *)
(*   apps/api/app/leads/router.py           PATCH /api/v1/leads/{lead_id}  *)
(*   apps/web/src/components/MarkReachedOutButton.tsx                      *)
(*   apps/web/src/app/leads/page.tsx, [leadId]/page.tsx  (the button's     *)
(*     place: rendered while the page's lead is PENDING, keyed by state)   *)
(*                                                                         *)
(* The button is optimistic: it shows REACHED_OUT on the click, and rolls  *)
(* back if the request fails.  It is mounted on each page that shows the   *)
(* lead, with a state of its own: in the row of the list, on the detail    *)
(* page, and in every tab; a page opened anew mounts another one.  So one  *)
(* attorney may have several buttons for the lead, and a page that is left *)
(* while its request runs is one whose button nobody sees any more.        *)
(* A request is <<button, number of click>>.  One whose connection drops   *)
(* goes on at the server.                                                  *)
(***************************************************************************)
EXTENDS Naturals

CONSTANTS
    Attorneys,
    Nobody,            \* reachedOutBy is NULL
    Buttons,           \* the buttons mounted for the lead
    Owner,             \* Owner[b]: who is signed in where b is mounted
    MaxClicks,         \* bound: MaxClicks[b] clicks on the button
    MaxDrops,          \* bound: browser requests that fail on the network
    MaxDbFaults,       \* bound: database errors raised to the handler
    MayErase           \* whether the row may be deleted by hand

ASSUME NobodyAssumption == Nobody \notin Attorneys
ASSUME OwnerAssumption == Owner \in [Buttons -> Attorneys]
ASSUME LeadTransitionBounds ==
    /\ MaxClicks \in [Buttons -> Nat]
    /\ MaxDrops \in Nat
    /\ MaxDbFaults \in Nat
    /\ MayErase \in BOOLEAN

VARIABLES
    state, reachedBy,  \* the Lead row
    won,               \* requests whose UPDATE returned the row
    patch,             \* patch[q]: where the PATCH request stands
    clicks,            \* clicks[b]: requests sent by the button so far
    page,              \* page[b]: the lead's state on its rendered page
    shown, message,    \* the button's React state
    pending,           \* pending[b]: markReachedOut awaits its request
    asked,             \* asked[b]: a render of the page is to be fetched
    carried,           \* carried[b]: the render on its way to the browser
    drops, dbFaults

row == <<state, reachedBy, won>>
button == <<shown, pending, message>>
fetches == <<asked, carried>>
vars == <<state, reachedBy, won, patch, clicks, page, shown, pending, message,
          asked, carried, drops, dbFaults>>

----------------------------------------------------------------------------
Request == UNION {{b} \X (1 .. MaxClicks[b]) : b \in Buttons}
Sender(q) == Owner[q[1]]
Latest(b) == <<b, clicks[b]>>

LeadState == {"PENDING", "REACHED_OUT"}
RowState == LeadState \cup {"MISSING"}

\* ALLOWED_TRANSITIONS, and the states with an edge into the target.
Allowed == [s \in LeadState |-> IF s = "PENDING" THEN {"REACHED_OUT"} ELSE {}]

\* Mutant of SourcesFor: every state has an edge into the target.
SourcesFor_All(target) == LeadState

SourcesFor(target) == {s \in LeadState : target \in Allowed[s]}

\* Server side: to be handled, transition committed and lead to be read
\* back, answered with a status; "over" once the answer is used or dropped.
Status == {"ok", "conflict", "missing", "error"}
Patch == Status \cup {"unsent", "sent", "reading", "over"}

\* The text under the button: nothing, "already updated by someone else",
\* "please try again", "check your connection".
Message == {"none", "conflict", "failed", "offline"}

\* The page shows the button only for a PENDING lead.
Mounted(b) == page[b] = "PENDING"

TypeOK ==
    /\ state \in RowState
    /\ reachedBy \in Attorneys \cup {Nobody}
    /\ won \subseteq Request
    /\ patch \in [Request -> Patch]
    /\ clicks \in [Buttons -> Nat] /\ \A b \in Buttons : clicks[b] <= MaxClicks[b]
    /\ page \in [Buttons -> RowState]
    /\ shown \in [Buttons -> LeadState]
    /\ pending \in [Buttons -> BOOLEAN]
    /\ message \in [Buttons -> Message]
    /\ asked \in [Buttons -> BOOLEAN]
    /\ carried \in [Buttons -> RowState \cup {"none"}]
    /\ drops \in 0 .. MaxDrops
    /\ dbFaults \in 0 .. MaxDbFaults

\* The lead is new, and every page is about to be opened.
Init ==
    /\ state = "PENDING"
    /\ reachedBy = Nobody
    /\ won = {}
    /\ patch = [q \in Request |-> "unsent"]
    /\ clicks = [b \in Buttons |-> 0]
    /\ page = [b \in Buttons |-> "MISSING"]
    /\ shown = [b \in Buttons |-> "PENDING"]
    /\ pending = [b \in Buttons |-> FALSE]
    /\ message = [b \in Buttons |-> "none"]
    /\ asked = [b \in Buttons |-> TRUE]
    /\ carried = [b \in Buttons |-> "none"]
    /\ drops = 0
    /\ dbFaults = 0

----------------------------------------------------------------------------
(* PATCH /api/v1/leads/{lead_id} *)

\* Mutant of Update: the WHERE clause lacks the state.
Update_Unconditional(q) ==
    /\ patch[q] = "sent"
    /\ state' = "REACHED_OUT"
    /\ reachedBy' = Sender(q)
    /\ won' = won \cup {q}

\* Mutant of Update: the wrong id is stamped.
Update_WrongStamp(q) ==
    /\ patch[q] = "sent"
    /\ state \in SourcesFor("REACHED_OUT")
    /\ state' = "REACHED_OUT"
    /\ reachedBy' = q
    /\ won' = won \cup {q}

\* transition: one UPDATE ... WHERE state IN sources RETURNING id.  The row
\* lock makes a concurrent UPDATE wait and evaluate its WHERE again, so the
\* test and the write are one step, which stamps who as well.
Update(q) ==
    /\ patch[q] = "sent"
    /\ state \in SourcesFor("REACHED_OUT")
    /\ state' = "REACHED_OUT"
    /\ reachedBy' = Sender(q)
    /\ won' = won \cup {q}

Transition(q) ==
    /\ Update(q)
    /\ patch' = [patch EXCEPT ![q] = "reading"]
    /\ UNCHANGED <<clicks, page, button, fetches, drops, dbFaults>>

\* Zero rows updated: 409 if the lead exists, else 404.
NoTransition(q) ==
    /\ patch[q] = "sent"
    /\ state \notin SourcesFor("REACHED_OUT")
    /\ patch' = [patch EXCEPT ![q] =
                   IF state = "MISSING" THEN "missing" ELSE "conflict"]
    /\ UNCHANGED <<row, clicks, page, button, fetches, drops, dbFaults>>

\* get_lead, in a transaction of its own, for the body of the answer.
ReadBack(q) ==
    /\ patch[q] = "reading"
    /\ patch' = [patch EXCEPT ![q] = IF state = "MISSING" THEN "missing" ELSE "ok"]
    /\ UNCHANGED <<row, clicks, page, button, fetches, drops, dbFaults>>

\* The database raises: 500.  The UPDATE may have been committed, when the
\* acknowledgement of its COMMIT is lost or the read after it fails.
PatchFault(q) ==
    /\ patch[q] \in {"sent", "reading"}
    /\ dbFaults < MaxDbFaults
    /\ dbFaults' = dbFaults + 1
    /\ Update(q) \/ UNCHANGED row
    /\ patch' = [patch EXCEPT ![q] = "error"]
    /\ UNCHANGED <<clicks, page, button, fetches, drops>>

\* External: the row is deleted by hand.
Erase ==
    /\ MayErase
    /\ state # "MISSING"
    /\ state' = "MISSING"
    /\ reachedBy' = Nobody
    /\ UNCHANGED <<won, patch, clicks, page, button, fetches, drops, dbFaults>>

----------------------------------------------------------------------------
(* MarkReachedOutButton *)

\* The component: a badge once REACHED_OUT is settled, else a button, which
\* is disabled while a request is under way.
Clickable(b) == Mounted(b) /\ shown[b] = "PENDING" /\ ~pending[b]

\* Mutant of Click: the button is not disabled while a request is under way.
Click_NotDisabled(b) ==
    /\ Mounted(b)
    /\ shown[b] = "PENDING" \/ pending[b]
    /\ clicks[b] < MaxClicks[b]
    /\ shown' = [shown EXCEPT ![b] = "REACHED_OUT"]
    /\ pending' = [pending EXCEPT ![b] = TRUE]
    /\ message' = [message EXCEPT ![b] = "none"]
    /\ clicks' = [clicks EXCEPT ![b] = @ + 1]
    /\ patch' = [patch EXCEPT ![<<b, clicks[b] + 1>>] = "sent"]
    /\ UNCHANGED <<row, page, fetches, drops, dbFaults>>

\* markReachedOut up to the await: show the target at once, and send.
Click(b) ==
    /\ Clickable(b)
    /\ clicks[b] < MaxClicks[b]
    /\ shown' = [shown EXCEPT ![b] = "REACHED_OUT"]
    /\ pending' = [pending EXCEPT ![b] = TRUE]
    /\ message' = [message EXCEPT ![b] = "none"]
    /\ clicks' = [clicks EXCEPT ![b] = @ + 1]
    /\ patch' = [patch EXCEPT ![<<b, clicks[b] + 1>>] = "sent"]
    /\ UNCHANGED <<row, page, fetches, drops, dbFaults>>

\* The message for a status.
MessageFor(status) ==
    CASE status = "ok" -> "none"
      [] status = "conflict" -> "conflict"
      [] status \in {"missing", "error"} -> "failed"

\* Mutant of RollsBack: a 500 keeps the optimistic state.
RollsBack_404Only == {"missing"}

\* The statuses that undo the optimistic state.
RollsBack == {"missing", "error"}

\* Set the button's React state; nothing to set once the page dropped it.
Show(b, state2, message2) ==
    IF Mounted(b)
    THEN /\ shown' = [shown EXCEPT ![b] = state2]
         /\ message' = [message EXCEPT ![b] = message2]
    ELSE UNCHANGED <<shown, message>>

\* Mutant of Respond: no router.refresh().
Respond_NoRefresh(b) ==
    LET status == patch[Latest(b)] IN
    /\ pending[b]
    /\ status \in Status
    /\ Show(b, IF status \in RollsBack THEN "PENDING" ELSE shown[b], MessageFor(status))
    /\ pending' = [pending EXCEPT ![b] = FALSE]
    /\ patch' = [patch EXCEPT ![Latest(b)] = "over"]
    /\ UNCHANGED <<row, clicks, page, fetches, drops, dbFaults>>

\* Mutant of Respond: pending is only reset after a success.
Respond_NoFinally(b) ==
    LET status == patch[Latest(b)] IN
    /\ pending[b]
    /\ status \in Status
    /\ Show(b, IF status \in RollsBack THEN "PENDING" ELSE shown[b], MessageFor(status))
    /\ pending' = [pending EXCEPT ![b] = (status # "ok")]
    /\ asked' = [asked EXCEPT ![b] = TRUE]
    /\ patch' = [patch EXCEPT ![Latest(b)] = "over"]
    /\ UNCHANGED <<row, clicks, page, carried, drops, dbFaults>>

\* The answer arrives: a 409 keeps the shown state, other failures roll it
\* back, and in each case the page is fetched again.
Respond(b) ==
    LET status == patch[Latest(b)] IN
    /\ pending[b]
    /\ status \in Status
    /\ Show(b, IF status \in RollsBack THEN "PENDING" ELSE shown[b], MessageFor(status))
    /\ pending' = [pending EXCEPT ![b] = FALSE]
    /\ asked' = [asked EXCEPT ![b] = TRUE]
    /\ patch' = [patch EXCEPT ![Latest(b)] = "over"]
    /\ UNCHANGED <<row, clicks, page, carried, drops, dbFaults>>

\* fetch throws, at any time after the click: roll back, without a refresh.
\* The server, if it has the request, goes on with it.
Disconnect(b) ==
    /\ pending[b]
    /\ drops < MaxDrops
    /\ drops' = drops + 1
    /\ Show(b, "PENDING", "offline")
    /\ pending' = [pending EXCEPT ![b] = FALSE]
    /\ patch' \in {patch, [patch EXCEPT ![Latest(b)] = "over"]}
    /\ UNCHANGED <<row, clicks, page, fetches, dbFaults>>

----------------------------------------------------------------------------
(* The page: first load and router.refresh() *)

\* The server component reads the lead and renders.
Render(b) ==
    /\ asked[b]
    /\ carried[b] = "none"
    /\ asked' = [asked EXCEPT ![b] = FALSE]
    /\ carried' = [carried EXCEPT ![b] = state]
    /\ UNCHANGED <<row, patch, clicks, page, button, drops, dbFaults>>

\* The render arrives.  The button is keyed by the state: it keeps its React
\* state if the page goes on showing PENDING and starts afresh otherwise.
Arrive(b) ==
    /\ carried[b] # "none"
    /\ page' = [page EXCEPT ![b] = carried[b]]
    /\ carried' = [carried EXCEPT ![b] = "none"]
    /\ IF Mounted(b) /\ carried[b] = "PENDING"
       THEN UNCHANGED button
       ELSE /\ shown' = [shown EXCEPT ![b] = "PENDING"]
            /\ message' = [message EXCEPT ![b] = "none"]
            /\ UNCHANGED pending
    /\ UNCHANGED <<row, patch, clicks, asked, drops, dbFaults>>

\* The render is lost on the network: the page stays as it is.
LoseRender(b) ==
    /\ carried[b] # "none"
    /\ drops < MaxDrops
    /\ drops' = drops + 1
    /\ carried' = [carried EXCEPT ![b] = "none"]
    /\ UNCHANGED <<row, patch, clicks, page, button, asked, dbFaults>>

----------------------------------------------------------------------------
Server(q) == Transition(q) \/ NoTransition(q) \/ ReadBack(q) \/ PatchFault(q)

Browser(b) == Respond(b) \/ Disconnect(b) \/ Render(b) \/ Arrive(b) \/ LoseRender(b)

\* Nothing is under way and nobody clicks again.
Quiet ==
    /\ \A b \in Buttons : ~pending[b] /\ ~asked[b] /\ carried[b] = "none"
    /\ \A q \in Request : patch[q] \notin {"sent", "reading"}
    /\ UNCHANGED vars

Next ==
    \/ \E q \in Request : Server(q)
    \/ \E b \in Buttons : Click(b) \/ Browser(b)
    \/ Erase
    \/ Quiet

\* Requests are handled, and answers and renders arrive unless lost; nobody
\* has to click, nor to delete a row.
Fairness ==
    /\ \A q \in Request : WF_vars(Transition(q) \/ NoTransition(q) \/ ReadBack(q))
    /\ \A b \in Buttons : WF_vars(Respond(b)) /\ WF_vars(Render(b)) /\ WF_vars(Arrive(b))

Spec == Init /\ [][Next]_vars /\ Fairness

----------------------------------------------------------------------------
(* Properties *)

\* service.py:87 "two attorneys clicking at once can't both win", however
\* requests interleave, and a 200 goes to the winner only.
OneWinner ==
    /\ \A p, q \in won : p = q
    /\ \A q \in Request : patch[q] \in {"reading", "ok"} => q \in won

\* At rest the button never claims more than the server has: an optimistic
\* REACHED_OUT stands only if the lead has left PENDING
\* (MarkReachedOutButton.tsx:27-50).
OptimismJustified ==
    \A b \in Buttons :
        (Mounted(b) /\ shown[b] = "REACHED_OUT" /\ ~pending[b]) => state # "PENDING"

\* MarkReachedOutButton.tsx:38 "so another attorney got here first": who is
\* told "already updated by someone else" (409) did not make the change.
ConflictIsSomeoneElse ==
    \A b \in Buttons : message[b] = "conflict" => reachedBy # Owner[b]

\* The person at this button changed the lead: from another page, or by an
\* earlier click on it whose connection dropped or that was answered 500.
OwnDoing(b) ==
    \E q \in won :
        /\ Sender(q) = Owner[b]
        /\ q[1] # b \/ (q[2] < clicks[b] /\ drops + dbFaults > 0)

\* Who is told so about a change of their own made it from another page, or
\* without being told of the success: never is one click answered 409 for
\* what it did itself (service.py:92-102, MarkReachedOutButton.tsx:28-48).
ConflictExplained ==
    \A b \in Buttons :
        (message[b] = "conflict" /\ reachedBy = Owner[b]) => OwnDoing(b)

Lifecycle == INSTANCE LeadLifecycle

\* The row follows the state machine, and its stamp is the winner's for good
\* (state_machine.py:4, service.py:88-97).
ImplementsLifecycle == Lifecycle!LifecycleSpec

\* Every click is settled: the button never stays on "Saving..."
\* (MarkReachedOutButton.tsx:48).
ClickSettles == \A b \in Buttons : pending[b] ~> ~pending[b]

\* An attorney whose click was answered sees the server's truth, unless the
\* network fails: the page leaves PENDING (MarkReachedOutButton.tsx:44).
PageCatchesUp ==
    \A b \in Buttons :
        (pending[b] /\ patch[Latest(b)] \in {"ok", "conflict"})
            ~> (page[b] # "PENDING" \/ drops > 0)

=============================================================================
