------------------------ MODULE LeadTransitionProofs ------------------------
(***************************************************************************)
(* Proofs about LeadTransition, for any attorneys, buttons, clicks,        *)
(* network failures and database errors.                                   *)
(***************************************************************************)
EXTENDS LeadTransition, TLAPS

----------------------------------------------------------------------------
(* The row against the state machine *)

\* The only edge into REACHED_OUT leaves PENDING.
LEMMA Sources == SourcesFor("REACHED_OUT") = {"PENDING"}
BY DEF SourcesFor, LeadState, Allowed

\* The attorney of a request.
LEMMA SenderType == \A q \in Request : Sender(q) \in Attorneys
BY OwnerAssumption DEF Request, Sender

\* A request is a button's, and one of its clicks.
LEMMA RequestParts ==
    ASSUME NEW q \in Request
    PROVE  /\ q[1] \in Buttons /\ q[2] \in 1 .. MaxClicks[q[1]] /\ q = <<q[1], q[2]>>
           /\ q[2] \in Nat
<1>1. q[1] \in Buttons /\ q[2] \in 1 .. MaxClicks[q[1]] /\ q = <<q[1], q[2]>>
    BY DEF Request
<1>2. MaxClicks[q[1]] \in Nat
    BY <1>1, LeadTransitionBounds
<1>. QED
    BY <1>1, <1>2

\* An UPDATE that finds the row takes the edge, and stamps its sender.
LEMMA UpdateReaches ==
    ASSUME NEW q \in Request, Update(q)
    PROVE  Lifecycle!Reach(Sender(q)) /\ Sender(q) \in Attorneys
BY Sources, SenderType DEF Update, Lifecycle!Reach

\* Whatever a step does to the row is a step of the life cycle: only an
\* UPDATE and the deletion by hand touch it.
LEMMA StepRefines ==
    ASSUME [Next]_vars
    PROVE  [Lifecycle!LifecycleNext]_(Lifecycle!lifecycleVars)
<1>. USE DEF Lifecycle!LifecycleNext, Lifecycle!lifecycleVars
<1>1. ASSUME NEW q \in Request, Server(q)
      PROVE  [Lifecycle!LifecycleNext]_(Lifecycle!lifecycleVars)
    <2>1. CASE Update(q)
        BY <2>1, UpdateReaches
    <2>2. CASE ~Update(q)
        BY <1>1, <2>2
        DEF Server, Transition, NoTransition, ReadBack, PatchFault, row
    <2>. QED
        BY <2>1, <2>2
<1>2. ASSUME NEW b \in Buttons, Click(b) \/ Browser(b)
      PROVE  UNCHANGED row
    BY <1>2 DEF Click, Browser, Respond, Disconnect, Render, Arrive, LoseRender
<1>3. CASE Erase
    BY <1>3 DEF Erase, Lifecycle!Vanish
<1>4. CASE Quiet \/ UNCHANGED vars
    BY <1>4 DEF Quiet, vars
<1>. QED
    BY <1>1, <1>2, <1>3, <1>4 DEF Next, row

\* The lead's row implements the state machine of state_machine.py:4, with
\* the stamps of service.py:88-97: one edge, taken once, stamped with it.
THEOREM RowImplementsLifecycle == Spec => ImplementsLifecycle
<1>1. Init => Lifecycle!LifecycleInit
    BY DEF Init, Lifecycle!LifecycleInit
<1>. QED
    BY <1>1, StepRefines, PTL DEF Spec, ImplementsLifecycle, Lifecycle!LifecycleSpec

----------------------------------------------------------------------------
(* Type correctness *)

\* Initially every variable has its type.
LEMMA InitTypeOK == Init => TypeOK
BY LeadTransitionBounds
DEF Init, TypeOK, RowState, LeadState, Patch, Status, Message

\* The message of a status is one of the button's messages.
LEMMA MessageType == \A s \in Status : MessageFor(s) \in Message
BY DEF Status, MessageFor, Message

\* Every step keeps the types.
LEMMA StepType ==
    ASSUME TypeOK, [Next]_vars
    PROVE  TypeOK'
<1>. USE LeadTransitionBounds
     DEF TypeOK, RowState, LeadState, Patch, Status, row, button, fetches
<1>1. ASSUME NEW q \in Request, Server(q)
      PROVE  TypeOK'
    <2>1. Sender(q) \in Attorneys
        BY SenderType
    <2>2. CASE Transition(q)
        BY <2>1, <2>2 DEF Transition, Update
    <2>3. CASE NoTransition(q)
        BY <2>3 DEF NoTransition
    <2>4. CASE ReadBack(q)
        BY <2>4 DEF ReadBack
    <2>5. CASE PatchFault(q)
        <3>1. state' \in RowState /\ reachedBy' \in Attorneys \cup {Nobody} /\ won' \subseteq Request
            BY <2>1, <2>5 DEF PatchFault, Update
        <3>. QED
            BY <2>5, <3>1 DEF PatchFault
    <2>. QED
        BY <1>1, <2>2, <2>3, <2>4, <2>5 DEF Server
<1>2. ASSUME NEW b \in Buttons, Click(b) \/ Browser(b)
      PROVE  TypeOK'
    <2>1. CASE Click(b)
        <3>1. clicks' \in [Buttons -> Nat] /\ \A c \in Buttons : clicks'[c] <= MaxClicks[c]
            BY <2>1 DEF Click
        <3>2. pending' \in [Buttons -> BOOLEAN]
            BY <2>1 DEF Click
        <3>3. /\ shown' \in [Buttons -> LeadState]
              /\ message' \in [Buttons -> Message]
              /\ patch' \in [Request -> Patch]
            BY <2>1 DEF Click, Message
        <3>. QED
            BY <2>1, <3>1, <3>2, <3>3 DEF Click
    <2>2. CASE Respond(b)
        <3>1. MessageFor(patch[Latest(b)]) \in Message
            BY <2>2, MessageType DEF Respond
        <3>2. shown' \in [Buttons -> LeadState] /\ message' \in [Buttons -> Message]
            BY <2>2, <3>1 DEF Respond, Show
        <3>. QED
            BY <2>2, <3>2 DEF Respond
    <2>3. CASE Disconnect(b)
        <3>1. shown' \in [Buttons -> LeadState] /\ message' \in [Buttons -> Message]
            BY <2>3 DEF Disconnect, Show, Message
        <3>2. patch' \in [Request -> Patch]
            BY <2>3 DEF Disconnect
        <3>3. pending' \in [Buttons -> BOOLEAN]
            BY <2>3 DEF Disconnect
        <3>4. drops' \in 0 .. MaxDrops
            BY <2>3 DEF Disconnect
        <3>. QED
            BY <2>3, <3>1, <3>2, <3>3, <3>4 DEF Disconnect
    <2>4. CASE Render(b)
        BY <2>4 DEF Render
    <2>5. CASE Arrive(b)
        <3>1. carried[b] \in RowState
            BY <2>5 DEF Arrive
        <3>2. /\ shown' \in [Buttons -> LeadState]
              /\ pending' \in [Buttons -> BOOLEAN]
              /\ message' \in [Buttons -> Message]
            BY <2>5 DEF Arrive, Message
        <3>. QED
            BY <2>5, <3>1, <3>2 DEF Arrive
    <2>6. CASE LoseRender(b)
        BY <2>6 DEF LoseRender
    <2>. QED
        BY <1>2, <2>1, <2>2, <2>3, <2>4, <2>5, <2>6 DEF Browser
<1>3. CASE Erase
    BY <1>3 DEF Erase
<1>4. CASE Quiet \/ UNCHANGED vars
    BY <1>4 DEF Quiet, vars
<1>. QED
    BY <1>1, <1>2, <1>3, <1>4 DEF Next

\* Every variable keeps its type in every behaviour.
THEOREM TypeCorrect == Spec => []TypeOK
BY InitTypeOK, StepType, PTL DEF Spec

----------------------------------------------------------------------------
(* One winner *)

\* Once a request has won the lead is not PENDING any more, so the UPDATE of
\* no other finds it.
WinInv ==
    /\ TypeOK
    /\ won # {} => state # "PENDING"
    /\ OneWinner

\* A step keeps who won, except an UPDATE that finds the lead PENDING.
LEMMA WinStep ==
    ASSUME WinInv, [Next]_vars
    PROVE  WinInv'
<1>0. TypeOK' /\ TypeOK
    BY StepType DEF WinInv
<1>1. ASSUME NEW q \in Request, Server(q)
      PROVE  WinInv'
    <2>1. CASE Update(q)
        <3>1. won' = {q} /\ state' = "REACHED_OUT" /\ patch' = [patch EXCEPT ![q] = patch'[q]]
            BY <1>0, <1>1, <2>1, Sources
            DEF WinInv, Update, Server, Transition, NoTransition, ReadBack, PatchFault, TypeOK
        <3>2. \A p \in Request : p # q => patch[p] \notin {"reading", "ok"}
            BY <2>1, Sources DEF WinInv, OneWinner, Update
        <3>. QED
            BY <1>0, <3>1, <3>2 DEF WinInv, OneWinner, TypeOK
    <2>2. CASE ~Update(q)
        <3>1. UNCHANGED <<state, won>>
            BY <1>1, <2>2
            DEF Server, Transition, NoTransition, ReadBack, PatchFault, row
        <3>2. \A p \in Request :
                patch'[p] \in {"reading", "ok"} => patch[p] \in {"reading", "ok"}
            BY <1>0, <1>1, <2>2
            DEF Server, Transition, NoTransition, ReadBack, PatchFault, TypeOK
        <3>. QED
            BY <1>0, <3>1, <3>2 DEF WinInv, OneWinner
    <2>. QED
        BY <2>1, <2>2
<1>2. ASSUME NEW b \in Buttons, Click(b) \/ Browser(b)
      PROVE  WinInv'
    <2>1. UNCHANGED <<state, won>>
        BY <1>2 DEF Click, Browser, Respond, Disconnect, Render, Arrive, LoseRender, row
    <2>2. \A p \in Request :
            patch'[p] \in {"reading", "ok"} => patch[p] \in {"reading", "ok"}
        BY <1>0, <1>2
        DEF Click, Browser, Respond, Disconnect, Render, Arrive, LoseRender, TypeOK
    <2>. QED
        BY <1>0, <2>1, <2>2 DEF WinInv, OneWinner
<1>3. CASE Erase
    BY <1>0, <1>3 DEF Erase, WinInv, OneWinner
<1>4. CASE Quiet \/ UNCHANGED vars
    BY <1>0, <1>4 DEF Quiet, vars, WinInv, OneWinner
<1>. QED
    BY <1>1, <1>2, <1>3, <1>4 DEF Next

\* However many attorneys click and however their requests interleave, one
\* request changes the lead, and only its sender is answered 200
\* (service.py:87).
THEOREM AtMostOneWinner == Spec => []OneWinner
<1>1. Init => WinInv
    BY InitTypeOK DEF Init, WinInv, OneWinner
<1>2. WinInv => OneWinner
    BY DEF WinInv
<1>. QED
    BY <1>1, <1>2, WinStep, PTL DEF Spec

----------------------------------------------------------------------------
(* What the buttons show *)

\* Clicks to come have no request.
ToCome == \A b \in Buttons : \A n \in 1 .. MaxClicks[b] : n > clicks[b] => patch[<<b, n>>] = "unsent"

\* What an answer says of the row, for good: PENDING and a row that is gone
\* do not come back.
AnswersTell ==
    \A q \in Request :
        /\ patch[q] \in {"reading", "ok", "conflict"} => state # "PENDING"
        /\ patch[q] = "missing" => state = "MISSING"
        /\ patch[q] = "error" => dbFaults > 0
        /\ q \in won => patch[q] \notin {"unsent", "sent", "conflict"}

\* A stamped row is REACHED_OUT, by a request that won.
StampTells ==
    reachedBy # Nobody => state = "REACHED_OUT" /\ \E q \in won : Sender(q) = reachedBy

\* What a button says of the row.
ButtonTells(b) ==
    /\ message[b] = "conflict" => state # "PENDING"
    /\ pending[b] => clicks[b] > 0
    /\ carried[b] \notin {"none", "PENDING"} => state # "PENDING"
    /\ clicks[b] > 0 /\ ~Mounted(b) => state # "PENDING" /\ carried[b] # "PENDING"
    /\ pending[b] => ~Mounted(b) \/ shown[b] = "REACHED_OUT"
    /\ Mounted(b) /\ shown[b] = "REACHED_OUT" => pending[b] \/ state # "PENDING"

\* The lead stands as a request of this button made it.
WonBy(b) == reachedBy # Nobody /\ \E n \in 1 .. MaxClicks[b] : <<b, n>> \in won

\* Without a fault a button has at most one request under way, that of the
\* click it waits for, and once that has won there is no other.
FaultlessTells(b) ==
    drops = 0 /\ dbFaults = 0 =>
        /\ \A n \in 1 .. MaxClicks[b] :
            patch[<<b, n>>] \in Status \cup {"sent", "reading"} => n = clicks[b] /\ pending[b]
        /\ WonBy(b) =>
            Latest(b) \in won /\ (~Mounted(b) \/ shown[b] = "REACHED_OUT")

ButtonInv ==
    /\ WinInv
    /\ ToCome /\ AnswersTell /\ StampTells
    /\ \A b \in Buttons : ButtonTells(b) /\ FaultlessTells(b)
    /\ ConflictExplained

\* What was once a person's own doing remains it.
LEMMA OwnDoingStays ==
    ASSUME TypeOK, TypeOK', NEW b \in Buttons, OwnDoing(b), won' = won,
           clicks'[b] >= clicks[b], drops' >= drops, dbFaults' >= dbFaults
    PROVE  OwnDoing(b)'
<1>1. PICK q \in won :
        /\ Sender(q) = Owner[b]
        /\ q[1] # b \/ (q[2] < clicks[b] /\ drops + dbFaults > 0)
    BY DEF OwnDoing
<1>2. q \in Request /\ q[2] \in Nat
    BY <1>1, RequestParts DEF TypeOK
<1>3. CASE q[1] # b
    BY <1>1, <1>3 DEF OwnDoing
<1>4. CASE q[2] < clicks[b] /\ drops + dbFaults > 0
    <2>1. /\ clicks[b] \in Nat /\ clicks'[b] \in Nat
          /\ drops \in Nat /\ drops' \in Nat /\ dbFaults \in Nat /\ dbFaults' \in Nat
        BY LeadTransitionBounds DEF TypeOK
    <2>2. \A i, j, k \in Nat : i < j /\ k >= j => i < k
        OBVIOUS
    <2>3. \A d, e, x, y \in Nat : d + e > 0 /\ x >= d /\ y >= e => x + y > 0
        OBVIOUS
    <2>4. q[2] < clicks'[b]
        BY <1>2, <1>4, <2>1, <2>2
    <2>5. drops' + dbFaults' > 0
        BY <1>4, <2>1, <2>3
    <2>. QED
        BY <1>1, <2>4, <2>5 DEF OwnDoing
<1>. QED
    BY <1>1, <1>3, <1>4

\* A step of a request keeps the invariant: one UPDATE finds the lead, and
\* without a fault its sender's button still waits for it.
LEMMA ServerButton ==
    ASSUME ButtonInv, WinInv', NEW q \in Request, Server(q)
    PROVE  ButtonInv'
<1>1. TypeOK /\ TypeOK' /\ Sender(q) \in Attorneys
    BY SenderType DEF ButtonInv, WinInv
<1>a. drops \in Nat /\ dbFaults \in Nat /\ clicks \in [Buttons -> Nat]
    BY <1>1, LeadTransitionBounds DEF TypeOK
<1>b. /\ UNCHANGED <<clicks, page, shown, pending, message, asked, carried, drops>>
      /\ dbFaults' \in {dbFaults, dbFaults + 1}
      /\ patch[q] \in {"sent", "reading"}
    BY DEF Server, Transition, Update, NoTransition, ReadBack, PatchFault, button, fetches
<1>c. /\ patch'[q] \in {"reading", "conflict", "missing", "ok", "error"}
      /\ \A p \in Request : p # q => patch'[p] = patch[p]
    BY <1>1
    DEF Server, Transition, NoTransition, ReadBack, PatchFault, TypeOK
<1>2. /\ UNCHANGED <<clicks, page, shown, pending, message, asked, carried, drops>>
      /\ dbFaults' \in {dbFaults, dbFaults + 1} /\ dbFaults \in Nat /\ drops \in Nat
      /\ patch'[q] \in {"reading", "conflict", "missing", "ok", "error"}
      /\ \A p \in Request : p # q => patch'[p] = patch[p]
      /\ patch[q] \in {"sent", "reading"}
    BY <1>a, <1>b, <1>c
<1>3. ToCome'
    BY <1>1, <1>2 DEF ButtonInv, ToCome, Request
<1>4. \/ Update(q) /\ patch'[q] \in {"reading", "error"}
      \/ UNCHANGED row
    <2>1. CASE Transition(q)
        BY <1>1, <2>1 DEF Transition, TypeOK
    <2>2. CASE NoTransition(q) \/ ReadBack(q)
        BY <2>2 DEF NoTransition, ReadBack
    <2>3. CASE PatchFault(q)
        BY <1>1, <2>3 DEF PatchFault, TypeOK
    <2>. QED
        BY <2>1, <2>2, <2>3 DEF Server
<1>5. patch'[q] = "error" => dbFaults' > 0
    BY <1>1, <1>2
    DEF Server, Transition, NoTransition, ReadBack, PatchFault, TypeOK
<1>6. AnswersTell'
    <2>1. CASE Update(q) /\ patch'[q] \in {"reading", "error"}
        <3>1. state = "PENDING" /\ state' = "REACHED_OUT" /\ won' = won \cup {q}
            BY <2>1, Sources DEF Update
        <3>. QED
            BY <1>2, <1>5, <2>1, <3>1 DEF ButtonInv, AnswersTell
    <2>2. CASE UNCHANGED row
        <3>1. /\ patch'[q] = "conflict" => patch[q] = "sent" /\ state # "PENDING"
              /\ patch'[q] = "missing" => state = "MISSING"
              /\ patch'[q] \in {"reading", "ok"} => patch[q] = "reading"
            BY <1>1, <2>2, Sources
            DEF Server, Transition, NoTransition, ReadBack, PatchFault, TypeOK, Update, row
        <3>. QED
            BY <1>2, <1>5, <2>2, <3>1 DEF ButtonInv, AnswersTell, row
    <2>. QED
        BY <1>4, <2>1, <2>2
<1>7. StampTells'
    BY <1>1, <1>4, NobodyAssumption DEF ButtonInv, StampTells, Update, row
<1>8. ASSUME NEW b \in Buttons PROVE ButtonTells(b)'
    <2>1. ButtonTells(b)
        BY DEF ButtonInv
    <2>2. state # "PENDING" => state' # "PENDING"
        BY <1>4 DEF Update, row
    <2>. QED
        BY <1>2, <2>1, <2>2 DEF ButtonTells, Mounted
<1>9. ASSUME NEW b \in Buttons, drops' = 0, dbFaults' = 0
      PROVE  FaultlessTells(b)'
    <2>1. /\ FaultlessTells(b) /\ ButtonTells(b) /\ drops = 0 /\ dbFaults = 0
        BY <1>2, <1>9 DEF ButtonInv
    <2>2. \A n \in 1 .. MaxClicks[b] :
            patch'[<<b, n>>] \in Status \cup {"sent", "reading"} => n = clicks'[b] /\ pending'[b]
        BY <1>2, <2>1 DEF FaultlessTells, WonBy, Request
    <2>3. CASE Update(q) /\ q[1] = b
        <3>1. won' = won \cup {q} /\ patch[q] = "sent"
            BY <2>3 DEF Update
        <3>2. q = <<b, q[2]>> /\ q[2] \in 1 .. MaxClicks[b]
            BY <2>3, RequestParts
        <3>3. q[2] = clicks[b] /\ pending[b]
            BY <2>1, <3>1, <3>2 DEF FaultlessTells, WonBy
        <3>4. Latest(b)' \in won'
            BY <1>2, <3>1, <3>2, <3>3 DEF Latest
        <3>5. ~Mounted(b)' \/ shown'[b] = "REACHED_OUT"
            BY <1>2, <2>1, <3>3 DEF ButtonTells, Mounted
        <3>. QED
            BY <2>2, <3>4, <3>5 DEF FaultlessTells, WonBy
    <2>4. CASE Update(q) /\ q[1] # b
        <3>1. won' = {q}
            <4>1. state = "PENDING" /\ won' = won \cup {q}
                BY <2>4, Sources DEF Update
            <4>. QED
                BY <4>1 DEF ButtonInv, WinInv
        <3>2. ~WonBy(b)'
            BY <2>4, <3>1 DEF WonBy
        <3>. QED
            BY <2>2, <3>2 DEF FaultlessTells, WonBy
    <2>5. CASE UNCHANGED row
        <3>1. WonBy(b)' <=> WonBy(b)
            BY <2>5 DEF WonBy, row
        <3>. QED
            BY <1>2, <2>1, <2>2, <2>5, <3>1 DEF FaultlessTells, WonBy, Latest, Mounted, row
    <2>. QED
        BY <1>4, <2>3, <2>4, <2>5
<1>10. ASSUME NEW b \in Buttons PROVE FaultlessTells(b)'
    BY <1>9 DEF FaultlessTells, WonBy
<1>11. ConflictExplained'
    <2>. SUFFICES ASSUME NEW b \in Buttons, message'[b] = "conflict", reachedBy' = Owner[b]
                  PROVE  OwnDoing(b)'
        BY DEF ConflictExplained
    <2>1. state # "PENDING" /\ message[b] = "conflict"
        BY <1>2 DEF ButtonInv, ButtonTells
    <2>2. UNCHANGED row
        BY <1>4, <2>1, Sources DEF Update
    <2>3. OwnDoing(b)
        BY <2>1, <2>2 DEF ButtonInv, ConflictExplained, row
    <2>4. won' = won /\ clicks'[b] >= clicks[b] /\ drops' >= drops /\ dbFaults' >= dbFaults
        BY <1>1, <1>2, <1>a, <2>2 DEF row
    <2>. QED
        BY <1>1, <2>3, <2>4, OwnDoingStays
<1>. QED
    BY <1>3, <1>6, <1>7, <1>8, <1>10, <1>11 DEF ButtonInv

\* What a step of one page and its button leaves alone.
LEMMA PageFrame ==
    ASSUME TypeOK, NEW b \in Buttons, Click(b) \/ Browser(b)
    PROVE  /\ UNCHANGED <<state, reachedBy, won, dbFaults>>
           /\ drops' \in {drops, drops + 1}
           /\ \A c \in Buttons : c # b =>
                /\ clicks'[c] = clicks[c] /\ page'[c] = page[c] /\ shown'[c] = shown[c]
                /\ pending'[c] = pending[c] /\ message'[c] = message[c]
                /\ asked'[c] = asked[c] /\ carried'[c] = carried[c]
                /\ \A n \in 1 .. MaxClicks[c] : patch'[<<c, n>>] = patch[<<c, n>>]
<1>1. \A c \in Buttons : \A n \in 1 .. MaxClicks[c] : <<c, n>> \in Request
    BY DEF Request
<1>. USE <1>1 DEF TypeOK, row, button, fetches
<1>2. CASE Click(b)
    BY <1>2 DEF Click
<1>3. CASE Respond(b)
    BY <1>3 DEF Respond, Show, Latest
<1>4. CASE Disconnect(b)
    BY <1>4 DEF Disconnect, Show, Latest
<1>5. CASE Render(b)
    BY <1>5 DEF Render
<1>6. CASE Arrive(b)
    BY <1>6 DEF Arrive
<1>7. CASE LoseRender(b)
    BY <1>7 DEF LoseRender
<1>. QED
    BY <1>2, <1>3, <1>4, <1>5, <1>6, <1>7 DEF Browser

\* What is to be shown of the button whose page takes the step.
PageKept(b) ==
    /\ \A n \in 1 .. MaxClicks[b] :
        /\ n > clicks'[b] => patch'[<<b, n>>] = "unsent"
        /\ patch'[<<b, n>>] \in {patch[<<b, n>>], "over"}
           \/ (patch[<<b, n>>] = "unsent" /\ patch'[<<b, n>>] = "sent")
    /\ clicks'[b] >= clicks[b]
    /\ ButtonTells(b)'
    /\ FaultlessTells(b)'
    /\ message'[b] = "conflict" =>
        \/ message[b] = "conflict"
        \/ clicks'[b] > 0 /\ clicks'[b] = clicks[b] /\ patch[Latest(b)] = "conflict"

\* The rest follows.
LEMMA PageButton ==
    ASSUME ButtonInv, WinInv', NEW b \in Buttons, Click(b) \/ Browser(b), PageKept(b)
    PROVE  ButtonInv'
<1>1. TypeOK /\ TypeOK'
    BY DEF ButtonInv, WinInv
<1>2. /\ UNCHANGED <<state, reachedBy, won, dbFaults>>
      /\ drops' \in {drops, drops + 1} /\ drops \in Nat /\ dbFaults \in Nat
      /\ \A c \in Buttons : c # b =>
            /\ clicks'[c] = clicks[c] /\ page'[c] = page[c] /\ shown'[c] = shown[c]
            /\ pending'[c] = pending[c] /\ message'[c] = message[c]
            /\ asked'[c] = asked[c] /\ carried'[c] = carried[c]
            /\ \A n \in 1 .. MaxClicks[c] : patch'[<<c, n>>] = patch[<<c, n>>]
    BY <1>1, PageFrame, LeadTransitionBounds DEF TypeOK
<1>3. ToCome'
    BY <1>2 DEF ButtonInv, ToCome, PageKept
<1>4. \A p \in Request :
        \/ patch'[p] \in {patch[p], "over"}
        \/ patch[p] = "unsent" /\ patch'[p] = "sent"
    BY <1>2 DEF PageKept, Request
<1>5. AnswersTell'
    BY <1>2, <1>4 DEF ButtonInv, AnswersTell
<1>6. StampTells'
    BY <1>2 DEF ButtonInv, StampTells
<1>7. ASSUME NEW c \in Buttons PROVE ButtonTells(c)' /\ FaultlessTells(c)'
    <2>1. CASE c = b
        BY <2>1 DEF PageKept
    <2>2. CASE c # b
        <3>1. ButtonTells(c) /\ FaultlessTells(c)
            BY DEF ButtonInv
        <3>2. ButtonTells(c)'
            BY <1>2, <2>2, <3>1 DEF ButtonTells, Mounted
        <3>3. FaultlessTells(c)'
            BY <1>2, <2>2, <3>1 DEF FaultlessTells, WonBy, Mounted, Latest
        <3>. QED
            BY <3>2, <3>3
    <2>. QED
        BY <2>1, <2>2
<1>8. ASSUME NEW c \in Buttons, message'[c] = "conflict", reachedBy' = Owner[c]
      PROVE  OwnDoing(c)'
    <2>1. clicks[c] \in Nat /\ clicks'[c] \in Nat /\ won \subseteq Request
        BY <1>1 DEF TypeOK
    <2>2. CASE message[c] = "conflict"
        <3>1. OwnDoing(c)
            BY <1>2, <1>8, <2>2 DEF ButtonInv, ConflictExplained
        <3>2. clicks'[c] >= clicks[c]
            BY <1>2, <2>1 DEF PageKept
        <3>3. drops' >= drops /\ dbFaults' >= dbFaults /\ won' = won
            BY <1>2
        <3>. QED
            BY <1>1, <3>1, <3>2, <3>3, OwnDoingStays
    <2>3. CASE message[c] # "conflict"
        <3>1. c = b /\ clicks'[b] > 0 /\ clicks'[b] = clicks[b] /\ patch[Latest(b)] = "conflict"
            BY <1>2, <1>8, <2>3 DEF PageKept
        <3>2. Latest(b) \in Request
            BY <1>1, <3>1 DEF Latest, Request, TypeOK
        <3>3. PICK q \in won : Sender(q) = Owner[b]
            BY <1>2, <1>8, <3>1, NobodyAssumption, OwnerAssumption DEF ButtonInv, StampTells
        <3>4. q \in Request /\ patch[q] \notin {"unsent", "conflict"}
            BY <2>1, <3>3 DEF ButtonInv, AnswersTell
        <3>5. CASE q[1] # b
            BY <1>2, <3>1, <3>3, <3>5 DEF OwnDoing
        <3>6. CASE q[1] = b
            <4>1. q = <<b, q[2]>> /\ q[2] \in 1 .. MaxClicks[b] /\ q[2] \in Nat
                BY <3>4, <3>6, RequestParts
            <4>2. q[2] # clicks[b] /\ ~(q[2] > clicks[b])
                BY <3>1, <3>4, <4>1 DEF ButtonInv, ToCome, Latest
            <4>3. q[2] < clicks'[b]
                BY <2>1, <3>1, <4>1, <4>2
            <4>4. Latest(b) \notin won /\ WonBy(b)
                <5>1. reachedBy # Nobody
                    BY <1>2, <1>8, <3>1, NobodyAssumption, OwnerAssumption
                <5>2. WonBy(b)
                    BY <3>3, <4>1, <5>1 DEF WonBy
                <5>. QED
                    BY <3>1, <3>2, <5>2 DEF ButtonInv, AnswersTell
            <4>5. ~(drops = 0 /\ dbFaults = 0)
                BY <4>4 DEF ButtonInv, FaultlessTells, WonBy
            <4>6. drops' + dbFaults' > 0
                <5>1. \A d, e \in Nat : ~(d = 0 /\ e = 0) => d + e > 0 /\ d + 1 + e > 0
                    OBVIOUS
                <5>2. /\ drops \in Nat /\ dbFaults \in Nat /\ dbFaults' = dbFaults
                      /\ drops' = drops \/ drops' = drops + 1
                    BY <1>2
                <5>. QED
                    BY <4>5, <5>1, <5>2
            <4>. QED
                BY <1>2, <3>1, <3>3, <4>3, <4>6 DEF OwnDoing
        <3>. QED
            BY <3>5, <3>6
    <2>. QED
        BY <2>2, <2>3
<1>9. ConflictExplained'
    BY <1>2, <1>8 DEF ConflictExplained
<1>. QED
    BY <1>3, <1>5, <1>6, <1>7, <1>9 DEF ButtonInv

\* A click: the button is there and idle, so nothing is under way unless
\* something failed.
LEMMA ClickKept ==
    ASSUME ButtonInv, NEW b \in Buttons, Click(b)
    PROVE  PageKept(b)
<1>1. TypeOK /\ ButtonTells(b) /\ FaultlessTells(b)
    BY DEF ButtonInv, WinInv
<1>2. /\ clicks[b] \in Nat /\ clicks[b] < MaxClicks[b] /\ clicks'[b] = clicks[b] + 1
      /\ shown'[b] = "REACHED_OUT" /\ pending'[b] /\ ~pending[b] /\ message'[b] = "none"
      /\ Mounted(b) /\ shown[b] = "PENDING"
      /\ UNCHANGED <<state, reachedBy, won, page, asked, carried, drops, dbFaults>>
    BY <1>1, LeadTransitionBounds
    DEF TypeOK, Click, Clickable, row, fetches
<1>3. /\ clicks[b] + 1 \in 1 .. MaxClicks[b] /\ <<b, clicks[b] + 1>> \in Request
      /\ patch[<<b, clicks[b] + 1>>] = "unsent"
    BY <1>2, LeadTransitionBounds DEF Request, ButtonInv, ToCome
<1>4. /\ patch'[<<b, clicks[b] + 1>>] = "sent"
      /\ \A n \in 1 .. MaxClicks[b] : n # clicks[b] + 1 => patch'[<<b, n>>] = patch[<<b, n>>]
    BY <1>1, <1>3 DEF Click, TypeOK, Request
<1>5. ButtonTells(b)'
    BY <1>1, <1>2 DEF ButtonTells, Mounted
<1>6. FaultlessTells(b)'
    <2>. SUFFICES ASSUME drops' = 0, dbFaults' = 0 PROVE FaultlessTells(b)'
        BY DEF FaultlessTells, WonBy
    <2>1. /\ \A n \in 1 .. MaxClicks[b] : patch[<<b, n>>] \notin Status \cup {"sent", "reading"}
          /\ ~WonBy(b)
        BY <1>1, <1>2 DEF FaultlessTells, WonBy
    <2>2. \A n \in 1 .. MaxClicks[b] :
            patch'[<<b, n>>] \in Status \cup {"sent", "reading"} => n = clicks'[b] /\ pending'[b]
        BY <1>2, <1>4, <2>1
    <2>3. ~WonBy(b)'
        BY <1>2, <2>1 DEF WonBy
    <2>. QED
        BY <2>2, <2>3 DEF FaultlessTells, WonBy
<1>7. \A n \in 1 .. MaxClicks[b] : n > clicks'[b] => patch'[<<b, n>>] = "unsent"
    <2>. SUFFICES ASSUME NEW n \in 1 .. MaxClicks[b], n > clicks'[b]
                  PROVE  patch'[<<b, n>>] = "unsent"
        OBVIOUS
    <2>1. n > clicks[b] /\ n # clicks[b] + 1
        BY <1>2
    <2>. QED
        BY <1>4, <2>1 DEF ButtonInv, ToCome
<1>8. \A n \in 1 .. MaxClicks[b] :
        \/ patch'[<<b, n>>] \in {patch[<<b, n>>], "over"}
        \/ patch[<<b, n>>] = "unsent" /\ patch'[<<b, n>>] = "sent"
    BY <1>3, <1>4
<1>. QED
    BY <1>2, <1>5, <1>6, <1>7, <1>8 DEF PageKept

\* The end of a request in the browser: an answer, or a fetch that throws.
LEMMA EndKept ==
    ASSUME ButtonInv, NEW b \in Buttons, Respond(b) \/ Disconnect(b)
    PROVE  PageKept(b)
<1>1. TypeOK /\ ButtonTells(b) /\ FaultlessTells(b)
    BY DEF ButtonInv, WinInv
<1>2. /\ UNCHANGED <<state, reachedBy, won, clicks, page, carried, dbFaults>>
      /\ pending[b] /\ ~pending'[b]
      /\ clicks[b] \in Nat /\ clicks[b] <= MaxClicks[b] /\ drops \in Nat
    BY <1>1, LeadTransitionBounds DEF TypeOK, Respond, Disconnect, row, fetches
<1>3. clicks[b] \in 1 .. MaxClicks[b] /\ Latest(b) \in Request
    BY <1>1, <1>2, LeadTransitionBounds DEF ButtonTells, Latest, Request
<1>4. \A n \in 1 .. MaxClicks[b] :
        /\ patch'[<<b, n>>] \in {patch[<<b, n>>], "over"}
        /\ n # clicks[b] => patch'[<<b, n>>] = patch[<<b, n>>]
    BY <1>1, <1>3 DEF Respond, Disconnect, TypeOK, Latest, Request
<1>5. /\ \A n \in 1 .. MaxClicks[b] : n > clicks'[b] => patch'[<<b, n>>] = "unsent"
      /\ clicks'[b] >= clicks[b]
    BY <1>2, <1>4 DEF ButtonInv, ToCome
<1>6. CASE Respond(b)
    <2>1. /\ patch[Latest(b)] \in Status /\ patch'[Latest(b)] = "over" /\ drops' = drops
        BY <1>1, <1>3, <1>6 DEF Respond, TypeOK
    <2>2. CASE Mounted(b)
        <3>1. /\ shown'[b] = (IF patch[Latest(b)] \in RollsBack THEN "PENDING" ELSE shown[b])
              /\ message'[b] = MessageFor(patch[Latest(b)])
            BY <1>1, <1>6, <2>2 DEF Respond, Show, TypeOK
        <3>2. message'[b] = "conflict" => patch[Latest(b)] = "conflict"
            BY <2>1, <3>1 DEF MessageFor, Status
        <3>3. patch[Latest(b)] \notin RollsBack =>
                shown'[b] = shown[b] /\ state # "PENDING"
            BY <1>3, <2>1, <3>1 DEF Status, RollsBack, ButtonInv, AnswersTell
        <3>4. patch[Latest(b)] \in RollsBack => shown'[b] = "PENDING"
            BY <3>1
        <3>5. ButtonTells(b)'
            BY <1>1, <1>2, <1>3, <3>2, <3>3, <3>4
            DEF ButtonTells, Mounted, ButtonInv, AnswersTell
        <3>6. FaultlessTells(b)'
            <4>. SUFFICES ASSUME drops' = 0, dbFaults' = 0 PROVE FaultlessTells(b)'
                BY DEF FaultlessTells, WonBy
            <4>1. \A n \in 1 .. MaxClicks[b] :
                    patch'[<<b, n>>] \notin Status \cup {"sent", "reading"}
                BY <1>1, <1>2, <1>4, <2>1 DEF FaultlessTells, WonBy, Latest, Status
            <4>2. ASSUME WonBy(b)
                  PROVE  Latest(b) \in won /\ shown'[b] = "REACHED_OUT"
                <5>1. Latest(b) \in won /\ (~Mounted(b) \/ shown[b] = "REACHED_OUT")
                    BY <1>1, <1>2, <2>1, <4>2 DEF FaultlessTells, WonBy
                <5>2. state = "REACHED_OUT"
                    BY <4>2 DEF ButtonInv, StampTells, WonBy
                <5>3. patch[Latest(b)] \notin RollsBack
                    BY <1>2, <1>3, <5>2 DEF RollsBack, ButtonInv, AnswersTell
                <5>. QED
                    BY <2>2, <3>3, <5>1, <5>3
            <4>. QED
                BY <1>2, <4>1, <4>2 DEF FaultlessTells, Latest, WonBy
        <3>. QED
            BY <1>2, <1>3, <1>4, <1>5, <3>2, <3>5, <3>6 DEF PageKept
    <2>3. CASE ~Mounted(b)
        <3>1. UNCHANGED <<shown, message>>
            BY <1>6, <2>3 DEF Respond, Show
        <3>2. ButtonTells(b)'
            BY <1>1, <1>2, <2>3, <3>1 DEF ButtonTells, Mounted
        <3>3. FaultlessTells(b)'
            BY <1>1, <1>2, <1>4, <2>1, <2>3, <3>1
            DEF FaultlessTells, WonBy, Mounted, Latest, Status
        <3>. QED
            BY <1>4, <1>5, <3>1, <3>2, <3>3 DEF PageKept
    <2>. QED
        BY <2>2, <2>3
<1>7. CASE Disconnect(b)
    <2>1. drops' > 0
        BY <1>2, <1>7 DEF Disconnect
    <2>2. FaultlessTells(b)'
        BY <2>1 DEF FaultlessTells, WonBy
    <2>3. CASE Mounted(b)
        <3>1. shown'[b] = "PENDING" /\ message'[b] = "offline"
            BY <1>1, <1>7, <2>3 DEF Disconnect, Show, TypeOK
        <3>2. ButtonTells(b)'
            BY <1>1, <1>2, <3>1 DEF ButtonTells, Mounted
        <3>. QED
            BY <1>4, <1>5, <2>2, <3>1, <3>2 DEF PageKept
    <2>4. CASE ~Mounted(b)
        <3>1. UNCHANGED <<shown, message>>
            BY <1>7, <2>4 DEF Disconnect, Show
        <3>2. ButtonTells(b)'
            BY <1>1, <1>2, <2>4, <3>1 DEF ButtonTells, Mounted
        <3>. QED
            BY <1>4, <1>5, <2>2, <3>1, <3>2 DEF PageKept
    <2>. QED
        BY <2>3, <2>4
<1>. QED
    BY <1>6, <1>7

\* A render: it was read after the one on the page, so once the page has
\* left PENDING no render brings it back.
LEMMA RenderKept ==
    ASSUME ButtonInv, NEW b \in Buttons, Render(b) \/ Arrive(b) \/ LoseRender(b)
    PROVE  PageKept(b)
<1>1. TypeOK /\ ButtonTells(b) /\ FaultlessTells(b)
    BY DEF ButtonInv, WinInv
<1>2. /\ UNCHANGED <<state, reachedBy, won, patch, clicks, dbFaults>>
      /\ pending' = pending /\ clicks[b] \in Nat /\ clicks[b] <= MaxClicks[b]
    BY <1>1 DEF TypeOK, Render, Arrive, LoseRender, row, button
<1>3. \A n \in 1 .. MaxClicks[b] :
        /\ n > clicks'[b] => patch'[<<b, n>>] = "unsent"
        /\ patch'[<<b, n>>] = patch[<<b, n>>]
    BY <1>2 DEF ButtonInv, ToCome
<1>4. clicks'[b] >= clicks[b]
    BY <1>2
<1>5. CASE Render(b)
    <2>1. UNCHANGED <<page, shown, message, drops>> /\ carried'[b] = state
        BY <1>1, <1>5 DEF Render, TypeOK, button
    <2>2. ButtonTells(b)' /\ FaultlessTells(b)'
        BY <1>1, <1>2, <2>1 DEF ButtonTells, FaultlessTells, WonBy, Mounted, Latest
    <2>. QED
        BY <1>3, <1>4, <2>1, <2>2 DEF PageKept
<1>6. CASE LoseRender(b)
    <2>1. UNCHANGED <<page, shown, message>> /\ carried'[b] = "none" /\ drops' > 0
        BY <1>1, <1>6, LeadTransitionBounds DEF LoseRender, TypeOK, button
    <2>2. ButtonTells(b)' /\ FaultlessTells(b)'
        BY <1>1, <1>2, <2>1 DEF ButtonTells, FaultlessTells, WonBy, Mounted
    <2>. QED
        BY <1>3, <1>4, <2>1, <2>2 DEF PageKept
<1>7. CASE Arrive(b)
    <2>1. /\ carried[b] # "none" /\ page'[b] = carried[b] /\ carried'[b] = "none"
          /\ drops' = drops
        BY <1>1, <1>7 DEF Arrive, TypeOK
    <2>2. CASE Mounted(b) /\ carried[b] = "PENDING"
        <3>1. UNCHANGED <<shown, message>>
            BY <1>7, <2>2 DEF Arrive, button
        <3>2. ButtonTells(b)' /\ FaultlessTells(b)'
            BY <1>1, <1>2, <2>1, <2>2, <3>1 DEF ButtonTells, FaultlessTells, WonBy, Mounted, Latest
        <3>. QED
            BY <1>3, <1>4, <3>1, <3>2 DEF PageKept
    <2>3. CASE ~(Mounted(b) /\ carried[b] = "PENDING")
        <3>1. shown'[b] = "PENDING" /\ message'[b] = "none"
            BY <1>1, <1>7, <2>3 DEF Arrive, TypeOK
        <3>2. clicks[b] > 0 => ~Mounted(b)'
            BY <1>1, <1>2, <2>1, <2>3 DEF ButtonTells, Mounted
        <3>3. ButtonTells(b)'
            BY <1>1, <1>2, <2>1, <3>1, <3>2 DEF ButtonTells, Mounted
        <3>4. FaultlessTells(b)'
            <4>. SUFFICES ASSUME drops' = 0, dbFaults' = 0 PROVE FaultlessTells(b)'
                BY DEF FaultlessTells, WonBy
            <4>1. /\ \A n \in 1 .. MaxClicks[b] :
                        patch[<<b, n>>] \in Status \cup {"sent", "reading"}
                            => n = clicks[b] /\ pending[b]
                  /\ WonBy(b) => Latest(b) \in won
                BY <1>1, <1>2, <2>1 DEF FaultlessTells, WonBy
            <4>2. WonBy(b) => clicks[b] > 0
                BY <1>1, <1>2, <4>1 DEF Latest, Request, TypeOK
            <4>. QED
                BY <1>2, <3>2, <4>1, <4>2 DEF FaultlessTells, Latest, WonBy
        <3>. QED
            BY <1>3, <1>4, <3>1, <3>3, <3>4 DEF PageKept
    <2>. QED
        BY <2>2, <2>3
<1>. QED
    BY <1>5, <1>6, <1>7

\* The deletion of the row by hand.
LEMMA EraseButton ==
    ASSUME ButtonInv, WinInv', Erase
    PROVE  ButtonInv'
<1>1. /\ state' = "MISSING" /\ reachedBy' = Nobody
      /\ UNCHANGED <<won, patch, clicks, page, shown, pending, message, asked, carried,
                     drops, dbFaults>>
    BY DEF Erase, button, fetches
<1>2. ToCome' /\ AnswersTell' /\ StampTells' /\ ConflictExplained'
    BY <1>1, NobodyAssumption, OwnerAssumption
    DEF ButtonInv, ToCome, AnswersTell, StampTells, ConflictExplained
<1>3. ASSUME NEW b \in Buttons PROVE ButtonTells(b)' /\ FaultlessTells(b)'
    <2>1. ButtonTells(b) /\ FaultlessTells(b)
        BY DEF ButtonInv
    <2>2. ButtonTells(b)'
        BY <1>1, <2>1 DEF ButtonTells, Mounted
    <2>3. FaultlessTells(b)'
        BY <1>1, <2>1, NobodyAssumption DEF FaultlessTells, WonBy
    <2>. QED
        BY <2>2, <2>3
<1>. QED
    BY <1>2, <1>3 DEF ButtonInv

\* What the buttons show agrees with the row throughout.
LEMMA ButtonsKept == Spec => []ButtonInv
<1>1. Init => ButtonInv
    <2>. SUFFICES ASSUME Init PROVE ButtonInv
        OBVIOUS
    <2>1. WinInv
        BY InitTypeOK DEF Init, WinInv, OneWinner
    <2>2. ToCome /\ AnswersTell /\ StampTells /\ ConflictExplained
        BY DEF Init, ToCome, AnswersTell, StampTells, ConflictExplained, Request
    <2>3. ASSUME NEW b \in Buttons PROVE ButtonTells(b) /\ FaultlessTells(b)
        BY NobodyAssumption
        DEF Init, ButtonTells, FaultlessTells, WonBy, Mounted, Status, Request
    <2>. QED
        BY <2>1, <2>2, <2>3 DEF ButtonInv
<1>2. ButtonInv /\ [Next]_vars => ButtonInv'
    <2>. SUFFICES ASSUME ButtonInv, [Next]_vars PROVE ButtonInv'
        OBVIOUS
    <2>1. WinInv'
        BY WinStep DEF ButtonInv
    <2>2. ASSUME NEW q \in Request, Server(q) PROVE ButtonInv'
        BY <2>1, <2>2, ServerButton
    <2>3. ASSUME NEW b \in Buttons, Click(b) \/ Browser(b) PROVE ButtonInv'
        <3>1. PageKept(b)
            BY <2>3, ClickKept, EndKept, RenderKept DEF Browser
        <3>. QED
            BY <2>1, <2>3, <3>1, PageButton
    <2>4. CASE Erase
        BY <2>1, <2>4, EraseButton
    <2>5. CASE Quiet \/ UNCHANGED vars
        BY <2>1, <2>5
        DEF Quiet, vars, ButtonInv, ToCome, AnswersTell, StampTells, ConflictExplained, OwnDoing,
            ButtonTells, FaultlessTells, WonBy, Mounted, Latest
    <2>. QED
        BY <2>2, <2>3, <2>4, <2>5 DEF Next
<1>. QED
    BY <1>1, <1>2, PTL DEF Spec

\* At rest no button claims more than the row has
\* (MarkReachedOutButton.tsx:27-50).
THEOREM OptimismIsJustified == Spec => []OptimismJustified
<1>1. ButtonInv => OptimismJustified
    BY DEF ButtonInv, ButtonTells, OptimismJustified
<1>. QED
    BY <1>1, ButtonsKept, PTL

\* An attorney is told that somebody else made a change of their own only if
\* they made it from another page, or by an earlier click whose connection
\* dropped or that was answered 500 (MarkReachedOutButton.tsx:28-48).
THEOREM ConflictIsExplained == Spec => []ConflictExplained
<1>1. ButtonInv => ConflictExplained
    BY DEF ButtonInv
<1>. QED
    BY <1>1, ButtonsKept, PTL

----------------------------------------------------------------------------
(* What the button and the page wait for is on its way *)

\* A button that says "Saving..." has a request at the server, or its answer.
ClickAwaits(b) ==
    pending[b] => Latest(b) \in Request /\ patch[Latest(b)] \in Status \cup {"sent", "reading"}

\* A button that rests on its own claim has a render to come: one that is
\* still to be fetched, or one that was fetched after the change.
RenderAwaits(b) ==
    (Mounted(b) /\ shown[b] = "REACHED_OUT" /\ ~pending[b]) =>
        asked[b] \/ carried[b] \notin {"none", "PENDING"} \/ drops > 0

AwaitInv == \A b \in Buttons : ClickAwaits(b) /\ RenderAwaits(b)

\* A step of a request leaves the browsers alone, and the request that a
\* button waits for gets nearer to its answer.
LEMMA ServerAwaits ==
    ASSUME TypeOK, AwaitInv, NEW q \in Request, Server(q)
    PROVE  AwaitInv'
<1>1. /\ UNCHANGED <<clicks, page, shown, pending, asked, carried, drops>>
      /\ \A p \in Request : p # q => patch'[p] = patch[p]
      /\ patch'[q] \in Status \cup {"sent", "reading"}
    BY DEF Server, Transition, NoTransition, ReadBack, PatchFault, Status, button,
           fetches, TypeOK
<1>. QED
    BY <1>1 DEF AwaitInv, ClickAwaits, RenderAwaits, Mounted, Latest

\* A step of one page and its button.
LEMMA BrowserAwaits ==
    ASSUME ButtonInv, AwaitInv, NEW b \in Buttons, Click(b) \/ Browser(b)
    PROVE  AwaitInv'
<1>0. TypeOK /\ ButtonTells(b) /\ ClickAwaits(b) /\ RenderAwaits(b)
    BY DEF ButtonInv, WinInv, AwaitInv
<1>1. ASSUME NEW c \in Buttons, c # b
      PROVE  ClickAwaits(c)' /\ RenderAwaits(c)'
    <2>1. /\ clicks'[c] = clicks[c] /\ page'[c] = page[c] /\ shown'[c] = shown[c]
          /\ pending'[c] = pending[c] /\ asked'[c] = asked[c] /\ carried'[c] = carried[c]
        BY <1>0, <1>1 DEF Click, Browser, Respond, Disconnect, Render, Arrive, LoseRender,
                          Show, button, fetches, TypeOK
    <2>2. Latest(c) \in Request => patch'[Latest(c)] = patch[Latest(c)]
        BY <1>0, <1>1 DEF Click, Browser, Respond, Disconnect, Render, Arrive, LoseRender,
                          Latest, TypeOK
    <2>3. drops > 0 => drops' > 0
        BY <1>0, LeadTransitionBounds
        DEF Click, Browser, Respond, Disconnect, Render, Arrive, LoseRender, TypeOK
    <2>. QED
        BY <2>1, <2>2, <2>3 DEF AwaitInv, ClickAwaits, RenderAwaits, Mounted, Latest
<1>2. CASE Click(b)
    <2>0. clicks[b] + 1 \in 1 .. MaxClicks[b]
        <3>1. clicks[b] < MaxClicks[b]
            BY <1>2 DEF Click
        <3>2. clicks[b] \in Nat /\ MaxClicks[b] \in Nat
            BY <1>0, LeadTransitionBounds DEF TypeOK
        <3>. QED
            BY <3>1, <3>2
    <2>1. Latest(b)' = <<b, clicks[b] + 1>> /\ <<b, clicks[b] + 1>> \in Request
        BY <1>0, <1>2, <2>0 DEF Click, Latest, Request, TypeOK
    <2>2. pending'[b] = TRUE /\ patch'[<<b, clicks[b] + 1>>] = "sent"
        BY <1>0, <1>2, <2>1 DEF Click, TypeOK
    <2>. QED
        BY <1>1, <2>1, <2>2 DEF AwaitInv, ClickAwaits, RenderAwaits
<1>3. CASE Respond(b)
    <2>1. pending'[b] = FALSE /\ asked'[b] = TRUE
        BY <1>0, <1>3 DEF Respond, TypeOK
    <2>. QED
        BY <1>1, <2>1 DEF AwaitInv, ClickAwaits, RenderAwaits
<1>4. CASE Disconnect(b)
    <2>1. pending'[b] = FALSE /\ drops' > 0
        BY <1>0, <1>4, LeadTransitionBounds DEF Disconnect, TypeOK
    <2>. QED
        BY <1>1, <2>1 DEF AwaitInv, ClickAwaits, RenderAwaits
<1>5. CASE Render(b)
    <2>1. UNCHANGED <<clicks, page, shown, pending, patch, drops>> /\ carried'[b] = state
        BY <1>0, <1>5 DEF Render, button, TypeOK
    <2>2. Mounted(b) /\ shown[b] = "REACHED_OUT" /\ ~pending[b] => state \notin {"none", "PENDING"}
        BY <1>0 DEF ButtonTells, TypeOK, RowState, LeadState
    <2>3. ClickAwaits(b)'
        BY <1>0, <2>1 DEF ClickAwaits, Latest
    <2>4. RenderAwaits(b)'
        BY <2>1, <2>2 DEF RenderAwaits, Mounted
    <2>. QED
        BY <1>1, <2>3, <2>4 DEF AwaitInv
<1>6. CASE Arrive(b)
    <2>1. UNCHANGED <<clicks, pending, patch, asked, drops>> /\ page'[b] = carried[b]
        BY <1>0, <1>6 DEF Arrive, button, TypeOK
    <2>2. ClickAwaits(b)'
        BY <1>0, <2>1 DEF ClickAwaits, Latest
    <2>3. RenderAwaits(b)'
        BY <1>0, <1>6, <2>1 DEF Arrive, RenderAwaits, Mounted, button, TypeOK
    <2>. QED
        BY <1>1, <2>2, <2>3 DEF AwaitInv
<1>7. CASE LoseRender(b)
    <2>1. UNCHANGED <<clicks, pending, patch>> /\ drops' > 0
        BY <1>0, <1>7, LeadTransitionBounds DEF LoseRender, button, TypeOK
    <2>2. ClickAwaits(b)'
        BY <1>0, <2>1 DEF ClickAwaits, Latest
    <2>. QED
        BY <1>1, <2>1, <2>2 DEF AwaitInv, RenderAwaits
<1>. QED
    BY <1>2, <1>3, <1>4, <1>5, <1>6, <1>7 DEF Browser

\* No button stays on "Saving..." for want of a request, and none rests on its
\* own claim for want of a render, unless the network dropped something: the
\* rest of ClickSettles and PageCatchesUp is fairness
\* (MarkReachedOutButton.tsx:27-50).
THEOREM ButtonsAreAwaited == Spec => []AwaitInv
<1>1. Init => AwaitInv
    BY DEF Init, AwaitInv, ClickAwaits, RenderAwaits, Mounted
<1>2. ButtonInv /\ AwaitInv /\ [Next]_vars => AwaitInv'
    <2>. SUFFICES ASSUME ButtonInv, AwaitInv, [Next]_vars PROVE AwaitInv'
        OBVIOUS
    <2>1. TypeOK
        BY DEF ButtonInv, WinInv
    <2>2. CASE Erase \/ Quiet \/ UNCHANGED vars
        <3>1. UNCHANGED <<patch, clicks, page, button, fetches, drops>>
            BY <2>2 DEF Erase, Quiet, vars, button, fetches
        <3>. QED
            BY <3>1 DEF AwaitInv, ClickAwaits, RenderAwaits, Mounted, Latest, button, fetches
    <2>. QED
        BY <2>1, <2>2, ServerAwaits, BrowserAwaits DEF Next
<1>. QED
    BY <1>1, <1>2, ButtonsKept, PTL DEF Spec

=============================================================================
