--------------------------- MODULE LeadAdmission ---------------------------
(***************************************************************************)
(* What is checked before a lead is created, in the browser and in the     *)
(* API, and what the visitor is told:                                      *)
(*   apps/web/src/lib/validation/lead.ts    the form's rules               *)
(*   apps/web/src/lib/api/errors.ts         from an error body to messages *)
(*   apps/web/src/components/LeadForm.tsx   messages, or "Thank you"       *)
(*   apps/api/app/main.py                   body size; the bucket          *)
(*   apps/api/app/core/rate_limit.py        requests of an address         *)
(*   apps/api/app/schemas/leads.py, leads/files.py, leads/router.py        *)
(*                                                                         *)
(* The two sets of rules are written twice, in two languages, and only the *)
(* API sees what is in a file.  The visitors are behind one address, with  *)
(* others (Others), since addresses share nothing.  LeadIntake takes over  *)
(* where a submission is admitted, with the failures of create_lead; here  *)
(* it fails only if the process started without its bucket.                *)
(***************************************************************************)
EXTENDS Naturals, Sequences

CONSTANTS
    Visitors,          \* people with the form open
    Drafts,            \* what they may fill in
    MaxName,           \* NAME_MAX, of lead.ts and of schemas/leads.py
    MaxBytes,          \* settings.max_resume_bytes, MAX_RESUME_BYTES
    Overhead,          \* _UPLOAD_OVERHEAD
    Framing,           \* the body of a submission without its file
    Limit, Period,     \* settings.rate_limit_leads: Limit per Period
    MaxTime,           \* bound: time
    MaxRestarts        \* bound: restarts of the API process

----------------------------------------------------------------------------
(* Drafts, in what the two sets of rules tell apart *)

Fields == {"name", "email", "resume"}
Extensions == {"pdf", "doc", "docx"}

\* A name after the form's trim(): JavaScript counts UTF-16 units, Python
\* code points, and str.strip also takes off what trim() leaves.
Name ==
    {n \in [units : Nat, points : Nat, stripped : Nat] :
        /\ n.stripped <= n.points
        /\ n.points <= n.units /\ n.units <= 2 * n.points}

\* Which side accepts an e-mail address is the verdict of two libraries:
\* zod's pattern and pydantic's EmailStr differ, both ways, over display
\* names, the characters and length of the local part, labels, non-ASCII
\* addresses and special-use domains.
Draft ==
    [name : Name,
     email : SUBSET {"form", "api"},    \* who accepts it
     website : BOOLEAN,                 \* the honeypot is filled
     stem : {"some", "none",            \* ".pdf"
             "long"},                   \* cut off with its suffix at 255
     ext : Extensions \cup {"other"},   \* what the name ends in, but for
     tail : BOOLEAN,                    \* what _display_name drops: blanks,
                                        \* unprintables, a last backslash
     content : Extensions \cup {"other"},
     size : Nat]

ASSUME LeadAdmissionAssumptions ==
    /\ Drafts \subseteq Draft
    /\ MaxName \in Nat /\ MaxBytes \in Nat /\ Overhead \in Nat
    /\ Framing \in 0 .. Overhead
    /\ Limit \in Nat \ {0} /\ Period \in Nat \ {0}
    /\ MaxTime \in Nat /\ MaxRestarts \in Nat

VARIABLES
    draft,             \* draft[v]: what the form holds
    page,              \* page[v]: what the visitor sees ...
    fields, general,   \* ... fields with a message, and the general one
    stage,             \* stage[v]: where the request stands
    reply,             \* reply[v]: its status, and the fields in its `detail`
    window,            \* the limiter's window of the address
    bucket,            \* the bucket exists
    clock, restarts,
    passed,            \* history: when the limiter let requests pass
    stored             \* history: stored[v]: the last try has made a lead

form == <<draft, page, fields, general>>
server == <<window, bucket, restarts, passed>>
vars == <<form, stage, reply, server, clock, stored>>

NoReply == [status |-> 0, fields |-> {}]
Statuses == {0, 201, 413, 415, 422, 429, 500}

\* Requests let through, capped at Limit, and the time the window ends.
NoWindow == [hits |-> 0, ends |-> 0]

TypeOK ==
    /\ draft \in [Visitors -> Drafts]
    /\ page \in [Visitors -> {"new", "form", "sending", "thanks"}]
    /\ fields \in [Visitors -> SUBSET Fields]
    /\ general \in [Visitors -> BOOLEAN]
    /\ stage \in [Visitors -> {"idle", "sent", "admitted", "valid", "replied"}]
    /\ reply \in [Visitors -> [status : Statuses, fields : SUBSET Fields]]
    /\ window \in [hits : 0 .. Limit, ends : 0 .. MaxTime + Period]
    /\ bucket \in BOOLEAN
    /\ clock \in 0 .. MaxTime
    /\ restarts \in 0 .. MaxRestarts
    /\ passed \in Seq(0 .. MaxTime)
    /\ stored \in [Visitors -> BOOLEAN]

Init ==
    /\ draft \in [Visitors -> Drafts]
    /\ page = [v \in Visitors |-> "new"]
    /\ fields = [v \in Visitors |-> {}]
    /\ general = [v \in Visitors |-> FALSE]
    /\ stage = [v \in Visitors |-> "idle"]
    /\ reply = [v \in Visitors |-> NoReply]
    /\ window = NoWindow
    /\ bucket \in BOOLEAN
    /\ clock = 0 /\ restarts = 0
    /\ passed = <<>>
    /\ stored = [v \in Visitors |-> FALSE]

----------------------------------------------------------------------------
(* The rules of the form *)

NameOk(d) == d.name.units \in 1 .. MaxName
EmailOk(d) == "form" \in d.email

\* resumeError: file.name.toLowerCase().endsWith(ext), and the size.
ResumeOk(d) ==
    /\ d.ext \in Extensions /\ ~d.tail
    /\ d.size \in 1 .. MaxBytes

\* leadSchema: the fields that get a message of the form's own.
FormErrors(d) ==
    {f \in Fields : \/ f = "name" /\ ~NameOk(d)
                    \/ f = "email" /\ ~EmailOk(d)
                    \/ f = "resume" /\ ~ResumeOk(d)}

----------------------------------------------------------------------------
(* The rules of the API *)

\* Mutant of TooLarge: no allowance for the other fields.
TooLarge_NoOverhead(d) == d.size + Framing > MaxBytes

\* reject_oversized_uploads, by Content-Length.
TooLarge(d) == d.size + Framing > MaxBytes + Overhead

\* Name: the lengths as sent, and then _strip_nonempty.
NameTaken(d) == d.name.points \in 1 .. MaxName /\ d.name.stripped > 0

\* LeadCreateForm: its names, and EmailStr.
FieldErrors(d) ==
    {f \in Fields : \/ f = "name" /\ ~NameTaken(d)
                    \/ f = "email" /\ "api" \notin d.email}

\* The suffix of _display_name: what follows the extension is stripped, and
\* a name that is all extension, or is cut off, has none.
Suffix(d) == IF d.stem = "some" THEN d.ext ELSE "other"

\* validate_resume: 201 stands for "no objection".
ResumeStatus(d) ==
    IF d.size > MaxBytes THEN 413
    ELSE IF d.size = 0 THEN 422
    ELSE IF Suffix(d) \in Extensions /\ d.content = Suffix(d) THEN 201
    ELSE 415

----------------------------------------------------------------------------
(* The limiter *)

\* No window, or one that is over.
Ended == window.hits = 0 \/ clock >= window.ends

\* Mutant of Full: one request too many.
Full_OneMore == ~Ended /\ window.hits > Limit

\* The limit is reached, and the window has not ended.
Full == ~Ended /\ window.hits = Limit

\* Mutant of Pass: windows are aligned with the clock.
Pass_Aligned ==
    /\ ~Full
    /\ window' = IF Ended THEN [hits |-> 1, ends |-> (clock \div Period + 1) * Period]
                 ELSE [window EXCEPT !.hits = @ + 1]
    /\ passed' = Append(passed, clock)

\* A request is counted and let through: its window is the one that the
\* first request after the end of the last one has opened.
Pass ==
    /\ ~Full
    /\ window' = IF Ended THEN [hits |-> 1, ends |-> clock + Period]
                 ELSE [window EXCEPT !.hits = @ + 1]
    /\ passed' = Append(passed, clock)

\* Mutant of Refuse: a refused request prolongs the window.
Refuse_Elastic ==
    /\ Full
    /\ window' = [window EXCEPT !.ends = clock + Period]
    /\ UNCHANGED passed

\* A request over the limit is refused, and changes nothing.
Refuse ==
    /\ Full
    /\ UNCHANGED <<window, passed>>

----------------------------------------------------------------------------
(* The form *)

\* The form is there, and its button is not disabled.
Editable(v) == page[v] \in {"new", "form"}

\* The fields that show a message, and whether there is one above them.
Messages(v) ==
    IF page[v] = "thanks" THEN {}
    ELSE fields[v] \cup {x \in {"general"} : general[v]}

\* onSubmit of a form with mistakes: resolver messages, and no request.  A
\* request of before that still runs goes on as one of Others.
Correct(v, d) ==
    /\ Editable(v)
    /\ FormErrors(d) # {}
    /\ draft' = [draft EXCEPT ![v] = d]
    /\ page' = [page EXCEPT ![v] = "form"]
    /\ fields' = [fields EXCEPT ![v] = FormErrors(d)]
    /\ stage' = [stage EXCEPT ![v] = "idle"]
    /\ reply' = [reply EXCEPT ![v] = NoReply]
    /\ stored' = [stored EXCEPT ![v] = FALSE]
    /\ UNCHANGED <<general, server, clock>>

\* onSubmit of any other form: a request, also beside one of before.
Submit(v, d) ==
    /\ Editable(v)
    /\ FormErrors(d) = {}
    /\ draft' = [draft EXCEPT ![v] = d]
    /\ page' = [page EXCEPT ![v] = "sending"]
    /\ fields' = [fields EXCEPT ![v] = {}]
    /\ general' = [general EXCEPT ![v] = FALSE]
    /\ stage' = [stage EXCEPT ![v] = "sent"]
    /\ reply' = [reply EXCEPT ![v] = NoReply]
    /\ stored' = [stored EXCEPT ![v] = FALSE]
    /\ UNCHANGED <<server, clock>>

\* Mutant of General: only of a `detail` that is a string, which the bodies
\* of the limiter and of a 500 do not have.
General_DetailOnly(r) == r.fields = {} /\ r.status = 413

\* parseApiError: a general message if no field has one.
General(r) == r.fields = {}

\* The answer arrives: "Thank you", or the messages of the error body.
Receive(v) ==
    /\ stage[v] = "replied" /\ page[v] = "sending"
    /\ stage' = [stage EXCEPT ![v] = "idle"]
    /\ IF reply[v].status = 201
         THEN /\ page' = [page EXCEPT ![v] = "thanks"]
              /\ UNCHANGED <<fields, general>>
         ELSE /\ page' = [page EXCEPT ![v] = "form"]
              /\ fields' = [fields EXCEPT ![v] = reply[v].fields]
              /\ general' = [general EXCEPT ![v] = General(reply[v])]
    /\ UNCHANGED <<draft, reply, server, clock, stored>>

\* The connection is lost at any moment: fetch throws, and what the API has
\* of the request goes on.
Lose(v) ==
    /\ page[v] = "sending"
    /\ page' = [page EXCEPT ![v] = "form"]
    /\ general' = [general EXCEPT ![v] = TRUE]
    /\ UNCHANGED <<draft, fields, stage, reply, server, clock, stored>>

----------------------------------------------------------------------------
(* POST /api/v1/leads *)

Reply(v, status, about) ==
    /\ stage' = [stage EXCEPT ![v] = "replied"]
    /\ reply' = [reply EXCEPT ![v] = [status |-> status, fields |-> about]]

\* The middleware, the parsing of the form, and then the limiter.
Arrive(v) ==
    /\ stage[v] = "sent"
    /\ IF TooLarge(draft[v])
         THEN Reply(v, 413, {}) /\ UNCHANGED <<window, passed>>
         ELSE \/ Pass /\ stage' = [stage EXCEPT ![v] = "admitted"] /\ UNCHANGED reply
              \/ Refuse /\ Reply(v, 429, {})
    /\ UNCHANGED <<form, bucket, restarts, clock, stored>>

\* create_lead of the router: the fields, the honeypot, the resume.
Validate(v) ==
    /\ stage[v] = "admitted"
    /\ IF FieldErrors(draft[v]) # {}
         THEN Reply(v, 422, FieldErrors(draft[v]))
       ELSE IF draft[v].website
         THEN Reply(v, 201, {})
       ELSE IF ResumeStatus(draft[v]) # 201
         THEN Reply(v, ResumeStatus(draft[v]), {"resume"})
       ELSE stage' = [stage EXCEPT ![v] = "valid"] /\ UNCHANGED reply
    /\ UNCHANGED <<form, server, clock, stored>>

\* create_lead of the service: put raises if there is no bucket.
Create(v) ==
    /\ stage[v] = "valid"
    /\ Reply(v, IF bucket THEN 201 ELSE 500, {})
    /\ stored' = [stored EXCEPT ![v] = bucket]
    /\ UNCHANGED <<form, server, clock>>

----------------------------------------------------------------------------
(* Everything else *)

\* Requests of others behind the address.
Others ==
    /\ Pass \/ Refuse
    /\ UNCHANGED <<form, stage, reply, bucket, restarts, clock, stored>>

Tick ==
    /\ clock < MaxTime
    /\ clock' = clock + 1
    /\ UNCHANGED <<form, stage, reply, server, stored>>

\* lifespan: ensure_bucket finds the bucket, makes it, or fails, which is
\* only logged.
EnsureBucket == bucket' \in {bucket, TRUE}

\* The API process ends and starts: the windows were in its memory, and the
\* forms that wait get no answer.
Restart ==
    /\ restarts < MaxRestarts
    /\ restarts' = restarts + 1
    /\ window' = NoWindow
    /\ EnsureBucket
    /\ stage' = [v \in Visitors |-> "idle"]
    /\ page' = [v \in Visitors |-> IF page[v] = "sending" THEN "form" ELSE page[v]]
    /\ general' = [v \in Visitors |-> general[v] \/ page[v] = "sending"]
    /\ UNCHANGED <<draft, fields, reply, clock, passed, stored>>

Next ==
    \/ \E v \in Visitors :
        \/ \E d \in Drafts : Correct(v, d) \/ Submit(v, d)
        \/ Arrive(v) \/ Validate(v) \/ Create(v)
        \/ Receive(v) \/ Lose(v)
    \/ Others \/ Tick \/ Restart

Spec == Init /\ [][Next]_vars

----------------------------------------------------------------------------
(* Properties *)

ApiTakes(d) ==
    ~TooLarge(d) /\ FieldErrors(d) = {} /\ ResumeStatus(d) = 201

\* lead.ts:1 "Mirrors the API's rules".  A form that it lets through is never
\* refused for its size or for the length of a name; a name only for being
\* blank to Python, an address only on the word of EmailStr, a file only for
\* its content or for a name that _display_name leaves without a suffix; and
\* a 500 comes from a process that could not make its bucket.  What the form
\* turns away and the API would take is a name too long in UTF-16 units
\* alone, an address only EmailStr accepts, or a file name that gains its
\* suffix in _display_name (files.py:43-83, main.py:26-34,
\* schemas/leads.py:13-35).
FormMirrorsApi ==
    \A v \in Visitors :
        LET d == draft[v]
        IN /\ stage[v] = "replied" =>
                CASE reply[v].status = 413 -> FALSE
                  [] reply[v].status = 415 -> d.stem # "some" \/ d.content # d.ext
                  [] reply[v].status = 422 ->
                        d.name.stripped = 0 \/ d.email = {"form"}
                  [] reply[v].status = 500 -> ~bucket
                  [] OTHER -> TRUE
           /\ (page[v] = "form" /\ reply[v] = NoReply /\ FormErrors(d) # {} /\ ApiTakes(d))
                => \/ d.tail
                   \/ d.name.units > MaxName /\ d.name.points <= MaxName
                   \/ d.email = {"api"}

\* A visitor who is thanked has a lead, or has filled the honeypot, as a
\* browser may do for them; one who is not sees a message, and if there is
\* a lead all the same, the general one (LeadForm.tsx:51-68, errors.ts:6,
\* router.py:78).
ShownIsTrue ==
    \A v \in Visitors :
        /\ page[v] = "thanks" => stored[v] \/ draft[v].website
        /\ page[v] = "form" => Messages(v) # {}
        /\ page[v] = "form" /\ stored[v] => "general" \in Messages(v)

\* Limit per Period (config.py:33): a burst has less than twice as many at
\* the edge of two windows, and Limit more for each restart, which forgets
\* the window (rate_limit.py:6).
BurstExplained ==
    LET most == (2 + restarts) * Limit - 1
    IN \A i, j \in DOMAIN passed : i + most <= j => passed[i] + Period <= passed[j]

\* Who is refused for too many requests shares an address that had its
\* Limit let through within the last Period: refused requests do not
\* prolong the wait (rate_limit.py:9).
LimitedExplained ==
    Full => /\ Len(passed) >= Limit
            /\ passed[Len(passed) - Limit + 1] + Period > clock

=============================================================================
