------------------------ MODULE LeadAdmissionProofs ------------------------
(***************************************************************************)
(* Proofs about LeadAdmission, for any visitors, drafts, sizes, limit and  *)
(* period.                                                                 *)
(***************************************************************************)
EXTENDS LeadAdmission, TLAPS, SequenceTheorems

----------------------------------------------------------------------------
(* What the limiter's window says of the requests it let through *)

\* Requests of the windows before a burst: one window, and one more for
\* each restart.
Before == Limit * (1 + restarts)

\* The requests of the window are the last ones, and it ends a period after
\* the first of them.
WindowIsLast ==
    /\ window.hits <= Len(passed)
    /\ window.hits > 0 =>
           window.ends = passed[Len(passed) - window.hits + 1] + Period

\* Time does not go back.
PassedInOrder ==
    /\ \A i, j \in 1 .. Len(passed) : i <= j => passed[i] <= passed[j]
    /\ \A i \in 1 .. Len(passed) : passed[i] <= clock

\* When the window began.
Began == IF window.hits = 0 THEN clock ELSE passed[Len(passed) - window.hits + 1]

\* A request that is a full window back, restarts apart, is a period back.
OldAreOver ==
    \A i \in 1 .. Len(passed) :
        i + Before <= Len(passed) - window.hits + 1 => passed[i] + Period <= Began

WindowInv == WindowIsLast /\ PassedInOrder /\ OldAreOver /\ BurstExplained

----------------------------------------------------------------------------
(* What the stages of a request say of the form *)

\* The form waits for its request, or has given it up and says so.
Awaits(v) == page[v] = "sending" \/ (page[v] = "form" /\ general[v])

\* The answers that the form cannot rule out beforehand.
ReplyIsRight(v) ==
    LET d == draft[v]
    IN /\ reply[v].status # 413
       /\ reply[v].status = 415 => d.stem # "some" \/ d.content # d.ext
       /\ reply[v].status = 422 => d.name.stripped = 0 \/ d.email = {"form"}
       /\ reply[v].status = 500 => ~bucket
       /\ reply[v].status = 201 => stored[v] \/ d.website
       /\ stored[v] => reply[v].status = 201

RequestIsRight ==
    \A v \in Visitors :
        /\ stage[v] # "idle" => FormErrors(draft[v]) = {} /\ Awaits(v)
        /\ stage[v] \in {"sent", "admitted", "valid"} => ~stored[v]
        /\ stage[v] = "replied" => ReplyIsRight(v)

FormInv == RequestIsRight /\ ShownIsTrue

----------------------------------------------------------------------------
(* Type correctness *)

\* What the rules of the API answer is a status, and about known fields.
LEMMA RulesType ==
    ASSUME NEW d \in Draft
    PROVE  /\ ResumeStatus(d) \in {201, 413, 415, 422}
           /\ FieldErrors(d) \subseteq Fields /\ FormErrors(d) \subseteq Fields
           /\ "resume" \in Fields
BY DEF ResumeStatus, FieldErrors, FormErrors, Fields

\* The limiter keeps the types of the window and of the history.
LEMMA PassType ==
    ASSUME TypeOK, Pass
    PROVE  /\ window' \in [hits : 0 .. Limit, ends : 0 .. MaxTime + Period]
           /\ passed' \in Seq(0 .. MaxTime)
<1>1. passed' \in Seq(0 .. MaxTime)
    BY DEF TypeOK, Pass
<1>2. window \in [hits : 0 .. Limit, ends : 0 .. MaxTime + Period] /\ clock \in 0 .. MaxTime
    BY DEF TypeOK
<1>3. CASE Ended
    BY <1>1, <1>2, <1>3, LeadAdmissionAssumptions DEF Pass
<1>4. CASE ~Ended
    <2>1. window.hits # Limit
        BY <1>4 DEF Pass, Full
    <2>2. window' = [window EXCEPT !.hits = @ + 1]
        BY <1>4 DEF Pass
    <2>3. window.hits + 1 \in 0 .. Limit
        BY <1>2, <2>1, LeadAdmissionAssumptions
    <2>. QED
        BY <1>1, <1>2, <2>2, <2>3
<1>. QED
    BY <1>3, <1>4

\* A reply has its type.
LEMMA ReplyType ==
    ASSUME TypeOK, NEW v \in Visitors, NEW status \in Statuses,
           NEW about \in SUBSET Fields, Reply(v, status, about)
    PROVE  /\ stage' \in [Visitors -> {"idle", "sent", "admitted", "valid", "replied"}]
           /\ reply' \in [Visitors -> [status : Statuses, fields : SUBSET Fields]]
BY DEF Reply, TypeOK

\* A step of a visitor's form keeps the types.
LEMMA FormType ==
    ASSUME TypeOK, NEW v \in Visitors,
           (\E d \in Drafts : Correct(v, d) \/ Submit(v, d)) \/ Receive(v) \/ Lose(v)
    PROVE  TypeOK'
<1>1. NoReply \in [status : Statuses, fields : SUBSET Fields]
    BY DEF NoReply, Statuses
<1>2. ASSUME NEW d \in Drafts, Correct(v, d) PROVE TypeOK'
    <2>1. FormErrors(d) \subseteq Fields
        BY RulesType, LeadAdmissionAssumptions
    <2>. QED
        BY <1>1, <1>2, <2>1 DEF Correct, TypeOK, server
<1>3. ASSUME NEW d \in Drafts, Submit(v, d) PROVE TypeOK'
    BY <1>1, <1>3 DEF Submit, TypeOK, server
<1>4. CASE Receive(v)
    <2>1. reply[v].fields \in SUBSET Fields /\ General(reply[v]) \in BOOLEAN
        BY DEF TypeOK, General
    <2>2. CASE reply[v].status = 201
        BY <1>4, <2>2 DEF Receive, TypeOK, server
    <2>3. CASE reply[v].status # 201
        <3>1. /\ page' \in [Visitors -> {"new", "form", "sending", "thanks"}]
              /\ fields' \in [Visitors -> SUBSET Fields]
              /\ general' \in [Visitors -> BOOLEAN]
            <4>1. /\ page' = [page EXCEPT ![v] = "form"]
                  /\ fields' = [fields EXCEPT ![v] = reply[v].fields]
                  /\ general' = [general EXCEPT ![v] = General(reply[v])]
                BY <1>4, <2>3 DEF Receive
            <4>2. /\ page \in [Visitors -> {"new", "form", "sending", "thanks"}]
                  /\ fields \in [Visitors -> SUBSET Fields]
                  /\ general \in [Visitors -> BOOLEAN]
                BY DEF TypeOK
            <4>3. general' \in [Visitors -> BOOLEAN]
                BY <2>1, <4>1, <4>2
            <4>. QED
                BY <2>1, <4>1, <4>2, <4>3
        <3>2. stage' \in [Visitors -> {"idle", "sent", "admitted", "valid", "replied"}]
            BY <1>4 DEF Receive, TypeOK
        <3>3. UNCHANGED <<draft, reply, server, clock, stored>>
            BY <1>4 DEF Receive
        <3>. QED
            BY <3>1, <3>2, <3>3 DEF TypeOK, server
    <2>. QED
        BY <2>2, <2>3
<1>5. CASE Lose(v)
    BY <1>5 DEF Lose, TypeOK, server
<1>. QED
    BY <1>2, <1>3, <1>4, <1>5

\* A step of a request keeps the types.
LEMMA RequestType ==
    ASSUME TypeOK, NEW v \in Visitors, Arrive(v) \/ Validate(v) \/ Create(v)
    PROVE  TypeOK'
<1>1. draft[v] \in Draft
    BY LeadAdmissionAssumptions DEF TypeOK
<1>2. /\ FieldErrors(draft[v]) \in SUBSET Fields /\ ResumeStatus(draft[v]) \in Statuses
      /\ {"resume"} \in SUBSET Fields /\ {} \in SUBSET Fields
      /\ {201, 413, 422, 429, 500} \subseteq Statuses
    BY <1>1, RulesType DEF Statuses
<1>3. CASE Arrive(v)
    <2>1. /\ stage' \in [Visitors -> {"idle", "sent", "admitted", "valid", "replied"}]
          /\ reply' \in [Visitors -> [status : Statuses, fields : SUBSET Fields]]
        BY <1>2, <1>3, ReplyType DEF Arrive, TypeOK
    <2>2. /\ window' \in [hits : 0 .. Limit, ends : 0 .. MaxTime + Period]
          /\ passed' \in Seq(0 .. MaxTime)
        BY <1>3, PassType DEF Arrive, TypeOK, Refuse
    <2>. QED
        BY <1>3, <2>1, <2>2 DEF Arrive, TypeOK, form
<1>4. CASE Validate(v)
    <2>1. /\ stage' \in [Visitors -> {"idle", "sent", "admitted", "valid", "replied"}]
          /\ reply' \in [Visitors -> [status : Statuses, fields : SUBSET Fields]]
        <3>1. CASE \E status \in Statuses, about \in SUBSET Fields : Reply(v, status, about)
            BY <3>1, ReplyType
        <3>2. CASE stage' = [stage EXCEPT ![v] = "valid"] /\ UNCHANGED reply
            BY <3>2 DEF TypeOK
        <3>. QED
            BY <1>2, <1>4, <3>1, <3>2 DEF Validate
    <2>. QED
        BY <1>4, <2>1 DEF Validate, TypeOK, form, server
<1>5. CASE Create(v)
    <2>1. /\ stage' \in [Visitors -> {"idle", "sent", "admitted", "valid", "replied"}]
          /\ reply' \in [Visitors -> [status : Statuses, fields : SUBSET Fields]]
        BY <1>2, <1>5, ReplyType DEF Create
    <2>. QED
        BY <1>5, <2>1 DEF Create, TypeOK, form, server
<1>. QED
    BY <1>3, <1>4, <1>5

\* Every other step keeps the types.
LEMMA WorldType ==
    ASSUME TypeOK, Others \/ Tick \/ Restart
    PROVE  TypeOK'
<1>1. CASE Others
    <2>1. /\ window' \in [hits : 0 .. Limit, ends : 0 .. MaxTime + Period]
          /\ passed' \in Seq(0 .. MaxTime)
        BY <1>1, PassType DEF Others, TypeOK, Refuse
    <2>. QED
        BY <1>1, <2>1 DEF Others, TypeOK, form
<1>2. CASE Tick
    BY <1>2, LeadAdmissionAssumptions DEF Tick, TypeOK, form, server
<1>3. CASE Restart
    <2>1. window' \in [hits : 0 .. Limit, ends : 0 .. MaxTime + Period]
        BY <1>3, LeadAdmissionAssumptions DEF Restart, NoWindow
    <2>2. restarts' \in 0 .. MaxRestarts
        BY <1>3, LeadAdmissionAssumptions DEF Restart, TypeOK
    <2>3. bucket' \in BOOLEAN
        BY <1>3, Zenon DEF Restart, EnsureBucket, TypeOK
    <2>4. page' \in [Visitors -> {"new", "form", "sending", "thanks"}]
        BY <1>3 DEF Restart, TypeOK
    <2>5. \A v \in Visitors : (general[v] \/ page[v] = "sending") \in BOOLEAN
        OBVIOUS
    <2>6. general' \in [Visitors -> BOOLEAN]
        BY <1>3, <2>5, Zenon DEF Restart
    <2>7. /\ UNCHANGED <<draft, fields, reply, clock, passed, stored>>
          /\ stage' \in [Visitors -> {"idle", "sent", "admitted", "valid", "replied"}]
        BY <1>3 DEF Restart
    <2>. QED
        BY <2>1, <2>2, <2>3, <2>4, <2>6, <2>7 DEF TypeOK
<1>. QED
    BY <1>1, <1>2, <1>3

\* Initially every variable has its type.
LEMMA InitType == Init => TypeOK
BY LeadAdmissionAssumptions DEF Init, TypeOK, NoReply, NoWindow, Statuses

\* Every variable keeps its type: the window has at most Limit requests, and
\* messages are about fields of the form (rate_limit.py:9, errors.ts:13).
THEOREM TypeCorrect == Spec => []TypeOK
<1>1. TypeOK /\ [Next]_vars => TypeOK'
    <2>. SUFFICES ASSUME TypeOK, [Next]_vars PROVE TypeOK'
        OBVIOUS
    <2>1. CASE Next
        BY <2>1, FormType, RequestType, WorldType DEF Next
    <2>2. CASE UNCHANGED vars
        BY <2>2 DEF vars, form, server, TypeOK
    <2>. QED
        BY <2>1, <2>2
<1>. QED
    BY <1>1, InitType, PTL DEF Spec

----------------------------------------------------------------------------
(* The window *)

\* The variables of the limiter, as numbers.
LEMMA Numbers ==
    ASSUME TypeOK
    PROVE  /\ Len(passed) \in Nat /\ DOMAIN passed = 1 .. Len(passed)
           /\ \A i \in 1 .. Len(passed) : passed[i] \in Nat
           /\ window.hits \in Nat /\ window.hits <= Limit /\ window.ends \in Nat
           /\ clock \in Nat /\ restarts \in Nat
           /\ Limit \in Nat /\ Limit > 0 /\ Period \in Nat /\ Period > 0
<1>1. /\ passed \in Seq(0 .. MaxTime) /\ clock \in 0 .. MaxTime /\ restarts \in 0 .. MaxRestarts
      /\ window \in [hits : 0 .. Limit, ends : 0 .. MaxTime + Period]
    BY DEF TypeOK
<1>2. /\ Len(passed) \in Nat /\ DOMAIN passed = 1 .. Len(passed)
      /\ \A i \in 1 .. Len(passed) : passed[i] \in 0 .. MaxTime
    BY <1>1, LenProperties, ElementOfSeq
<1>. QED
    BY <1>1, <1>2, LeadAdmissionAssumptions

\* Products of the constants and the number of restarts.
LEMMA BeforeFacts ==
    ASSUME TypeOK
    PROVE  /\ Before \in Nat /\ Before >= Limit
           /\ (2 + restarts) * Limit - 1 = Before + Limit - 1
           /\ Limit * (1 + (restarts + 1)) = Before + Limit
<1>1. ASSUME NEW l \in Nat, NEW r \in Nat
      PROVE  /\ l * r \in Nat /\ l * (1 + r) = l + l * r
             /\ (2 + r) * l = l + l + l * r /\ l * (1 + (r + 1)) = l + l + l * r
    OBVIOUS
<1>2. Limit \in Nat /\ restarts \in Nat
    BY Numbers
<1>3. /\ Limit * restarts \in Nat /\ Limit * (1 + restarts) = Limit + Limit * restarts
      /\ (2 + restarts) * Limit = Limit + Limit + Limit * restarts
      /\ Limit * (1 + (restarts + 1)) = Limit + Limit + Limit * restarts
    BY <1>1, <1>2
<1>. QED
    BY <1>2, <1>3 DEF Before

\* BurstExplained, in terms of Before.
BurstsAreShort ==
    \A i, j \in 1 .. Len(passed) :
        i + (Before + Limit - 1) <= j => passed[i] + Period <= passed[j]

\* BurstExplained says no more than that, and no less.
LEMMA Bursts == TypeOK => (BurstExplained <=> BurstsAreShort)
BY BeforeFacts, Numbers DEF BurstExplained, BurstsAreShort

\* The same of the next state.
LEMMA BurstsNext == TypeOK' => (BurstExplained' <=> BurstsAreShort')
BY Bursts, PTL

\* What is a period before something is a period before all that is later.
LEMMA Later ==
    ASSUME NEW a \in Nat, NEW b \in Nat, NEW c \in Nat, NEW p \in Nat, b <= c
    PROVE  /\ a + p <= b => a + p <= c
           /\ a <= b => a + p <= b + p
           /\ a <= b /\ b + p <= c => a + p <= c
OBVIOUS

\* A request that passes: after a window that has ended it opens one, whose
\* start is a period after all that the ended one let through.
LEMMA PassWindow ==
    ASSUME TypeOK, TypeOK', WindowInv, Pass, UNCHANGED <<clock, restarts>>
    PROVE  WindowInv'
<1>. DEFINE n == Len(passed)
<1>1. /\ Len(passed') = n + 1 /\ passed'[n + 1] = clock
      /\ \A i \in 1 .. n : passed'[i] = passed[i]
    <2>1. passed \in Seq(0 .. MaxTime) /\ clock \in 0 .. MaxTime /\ passed' = Append(passed, clock)
        BY DEF TypeOK, Pass
    <2>. QED
        BY <2>1, AppendProperties
<1>2. /\ n \in Nat /\ \A i \in 1 .. n : passed[i] \in Nat /\ passed[i] <= clock
      /\ window.hits \in Nat /\ window.hits <= Limit /\ window.ends \in Nat
      /\ clock \in Nat /\ Limit \in Nat /\ Limit > 0 /\ Period \in Nat /\ Period > 0
      /\ window.hits <= n
    BY Numbers DEF WindowInv, PassedInOrder, WindowIsLast
<1>3. Before \in Nat /\ Before >= Limit /\ Before' = Before
    BY BeforeFacts DEF Before
<1>4. PassedInOrder'
    BY <1>1, <1>2 DEF WindowInv, PassedInOrder
<1>5. CASE Ended
    <2>1. window'.hits = 1 /\ window'.ends = clock + Period
        BY <1>5 DEF Pass
    <2>2. \A i \in 1 .. n : i + Before <= n + 1 => passed[i] + Period <= clock
        <3>. SUFFICES ASSUME NEW i \in 1 .. n, i + Before <= n + 1
                      PROVE  passed[i] + Period <= clock
            OBVIOUS
        <3>1. CASE window.hits = 0
            BY <1>2, <3>1 DEF WindowInv, OldAreOver, Began
        <3>2. CASE window.hits > 0
            <4>. DEFINE first == n - window.hits + 1
            <4>1. first \in 1 .. n /\ i <= first
                BY <1>2, <1>3, <3>2
            <4>2. passed[i] <= passed[first] /\ window.ends = passed[first] + Period
                BY <3>2, <4>1 DEF WindowInv, PassedInOrder, WindowIsLast
            <4>3. window.ends <= clock
                BY <1>2, <1>5, <3>2 DEF Ended
            <4>4. passed[i] \in Nat /\ passed[first] \in Nat
                BY <1>2, <4>1
            <4>5. passed[first] + Period <= clock
                BY <4>2, <4>3
            <4>6. passed[first] <= clock /\ clock \in Nat /\ Period \in Nat
                BY <1>2, <4>1
            <4>. HIDE DEF first
            <4>. QED
                BY <4>2, <4>4, <4>5, <4>6, Later
        <3>. QED
            BY <1>2, <3>1, <3>2
    <2>3. WindowIsLast'
        BY <1>1, <1>2, <2>1 DEF WindowIsLast
    <2>4. Began' = clock
        BY <1>1, <1>2, <2>1 DEF Began
    <2>5. OldAreOver'
        <3>. SUFFICES ASSUME NEW i \in 1 .. n + 1, i + Before <= n + 1
                      PROVE  passed'[i] + Period <= clock
            BY <1>1, <1>2, <1>3, <2>1, <2>4 DEF OldAreOver
        <3>1. i \in 1 .. n
            BY <1>2, <1>3
        <3>. QED
            BY <1>1, <2>2, <3>1
    <2>6. BurstsAreShort'
        <3>. SUFFICES ASSUME NEW i \in 1 .. n + 1, NEW j \in 1 .. n + 1,
                             i + (Before + Limit - 1) <= j
                      PROVE  passed'[i] + Period <= passed'[j]
            BY <1>1, <1>3 DEF BurstsAreShort
        <3>1. i \in 1 .. n /\ i + Before <= n + 1
            BY <1>2, <1>3
        <3>2. CASE j = n + 1
            BY <1>1, <2>2, <3>1, <3>2
        <3>3. CASE j \in 1 .. n
            BY <1>1, <3>1, <3>3, Bursts DEF BurstsAreShort, WindowInv
        <3>. QED
            BY <1>2, <3>2, <3>3
    <2>. QED
        BY <1>4, <2>3, <2>5, <2>6, BurstsNext DEF WindowInv
<1>6. CASE ~Ended
    <2>1. /\ window.hits > 0 /\ window.hits < Limit
          /\ window'.hits = window.hits + 1 /\ window'.ends = window.ends
        <3>1. window.hits # 0 /\ window.hits # Limit
            BY <1>6 DEF Pass, Full, Ended
        <3>2. window' = [window EXCEPT !.hits = @ + 1]
            BY <1>6 DEF Pass
        <3>3. window \in [hits : 0 .. Limit, ends : 0 .. MaxTime + Period]
            BY DEF TypeOK
        <3>. QED
            BY <1>2, <3>1, <3>2, <3>3
    <2>. DEFINE first == n - window.hits + 1
    <2>2. first \in 1 .. n /\ (n + 1) - (window.hits + 1) + 1 = first
        BY <1>2, <2>1
    <2>3. window.ends = passed[first] + Period /\ passed'[first] = passed[first]
        BY <1>1, <2>1, <2>2 DEF WindowInv, WindowIsLast
    <2>4. WindowIsLast'
        BY <1>1, <1>2, <2>1, <2>2, <2>3 DEF WindowIsLast
    <2>5. \A i \in 1 .. n : i + Before <= first => passed[i] + Period <= passed[first]
        <3>1. Began = passed[first]
            BY <1>2, <2>1 DEF Began
        <3>2. \A i \in 1 .. n : i + Before <= first => passed[i] + Period <= Began
            BY DEF WindowInv, OldAreOver
        <3>. QED
            BY <3>1, <3>2
    <2>6. Began' = passed[first]
        BY <1>1, <1>2, <2>1, <2>2, <2>3 DEF Began
    <2>7. OldAreOver'
        <3>. SUFFICES ASSUME NEW i \in 1 .. n + 1, i + Before <= first
                      PROVE  passed'[i] + Period <= passed[first]
            BY <1>1, <1>2, <1>3, <2>1, <2>2, <2>6 DEF OldAreOver
        <3>1. i \in 1 .. n
            BY <1>2, <1>3, <2>2
        <3>. QED
            BY <1>1, <2>5, <3>1
    <2>8. BurstsAreShort'
        <3>. SUFFICES ASSUME NEW i \in 1 .. n + 1, NEW j \in 1 .. n + 1,
                             i + (Before + Limit - 1) <= j
                      PROVE  passed'[i] + Period <= passed'[j]
            BY <1>1, <1>3 DEF BurstsAreShort
        <3>1. i \in 1 .. n
            BY <1>2, <1>3
        <3>2. CASE j = n + 1
            <4>1. i + Before <= first
                BY <1>2, <1>3, <2>1, <3>2
            <4>2. passed[i] + Period <= passed[first] /\ passed[first] <= clock
                BY <1>2, <2>2, <2>5, <3>1, <4>1
            <4>3. passed[i] \in Nat /\ passed[first] \in Nat
                BY <1>2, <2>2, <3>1
            <4>4. clock \in Nat /\ Period \in Nat /\ passed'[i] = passed[i] /\ passed'[j] = clock
                BY <1>1, <1>2, <3>1, <3>2
            <4>. HIDE DEF first
            <4>. QED
                BY <4>2, <4>3, <4>4, Later
        <3>3. CASE j \in 1 .. n
            BY <1>1, <3>1, <3>3, Bursts DEF BurstsAreShort, WindowInv
        <3>. QED
            BY <1>2, <3>2, <3>3
    <2>. QED
        BY <1>4, <2>4, <2>7, <2>8, BurstsNext DEF WindowInv
<1>. QED
    BY <1>5, <1>6

\* A step that leaves the limiter alone, while time may pass.
LEMMA SameWindow ==
    ASSUME TypeOK, TypeOK', WindowInv, UNCHANGED <<window, passed, restarts>>, clock <= clock'
    PROVE  WindowInv'
<1>1. /\ clock \in Nat /\ clock' \in Nat /\ Period \in Nat
      /\ \A i \in 1 .. Len(passed) : passed[i] \in Nat
    <2>1. clock' \in Nat
        BY LeadAdmissionAssumptions DEF TypeOK
    <2>. QED
        BY <2>1, Numbers
<1>2. WindowIsLast' /\ BurstExplained'
    BY DEF WindowInv, WindowIsLast, BurstExplained
<1>3. PassedInOrder'
    <2>1. \A i \in 1 .. Len(passed) : passed[i] <= clock'
        BY <1>1, Later DEF WindowInv, PassedInOrder
    <2>. QED
        BY <2>1 DEF WindowInv, PassedInOrder
<1>4. OldAreOver'
    <2>. SUFFICES ASSUME NEW i \in 1 .. Len(passed),
                         i + Before <= Len(passed) - window.hits + 1
                  PROVE  passed[i] + Period <= Began'
        BY DEF OldAreOver, Before
    <2>1. passed[i] + Period <= Began
        BY DEF WindowInv, OldAreOver
    <2>2. CASE window.hits = 0
        BY <1>1, <2>1, <2>2, Later DEF Began
    <2>3. CASE window.hits # 0
        BY <2>1, <2>3 DEF Began
    <2>. QED
        BY <2>2, <2>3
<1>. QED
    BY <1>2, <1>3, <1>4 DEF WindowInv

\* A restart forgets the window, and Before grows by what it may have held.
LEMMA RestartWindow ==
    ASSUME TypeOK, TypeOK', WindowInv, window' = NoWindow, restarts' = restarts + 1,
           UNCHANGED <<clock, passed>>
    PROVE  WindowInv'
<1>. DEFINE n == Len(passed)
<1>1. /\ n \in Nat /\ clock \in Nat /\ Period \in Nat /\ Limit \in Nat
      /\ \A i \in 1 .. n : passed[i] \in Nat /\ passed[i] <= clock
      /\ window.hits \in Nat /\ window.hits <= Limit /\ window.hits <= n
    BY Numbers DEF WindowInv, PassedInOrder, WindowIsLast
<1>2. Before \in Nat /\ Before >= Limit /\ Before' = Before + Limit
    BY BeforeFacts DEF Before
<1>3. window'.hits = 0 /\ PassedInOrder' /\ Began' = clock
    BY DEF WindowInv, PassedInOrder, NoWindow, Began
<1>4. WindowIsLast'
    BY <1>1, <1>3 DEF WindowIsLast
<1>5. OldAreOver'
    <2>. SUFFICES ASSUME NEW i \in 1 .. n, i + (Before + Limit) <= n - 0 + 1
                  PROVE  passed[i] + Period <= clock
        BY <1>2, <1>3 DEF OldAreOver
    <2>1. i + Before <= n - window.hits + 1
        BY <1>1, <1>2
    <2>2. passed[i] + Period <= Began
        BY <2>1 DEF WindowInv, OldAreOver
    <2>3. CASE window.hits = 0
        BY <2>2, <2>3 DEF Began
    <2>4. CASE window.hits # 0
        <3>. DEFINE first == n - window.hits + 1
        <3>1. first \in 1 .. n
            BY <1>1, <2>4
        <3>2. passed[first] \in Nat /\ passed[first] <= clock /\ passed[i] \in Nat
            BY <1>1, <3>1
        <3>3. passed[i] + Period <= passed[first]
            BY <2>2, <2>4 DEF Began
        <3>. HIDE DEF first
        <3>. QED
            BY <1>1, <3>2, <3>3, Later
    <2>. QED
        BY <2>3, <2>4
<1>6. BurstsAreShort'
    <2>1. BurstsAreShort
        BY Bursts DEF WindowInv
    <2>2. \A i, j \in 1 .. n : i + ((Before + Limit) + Limit - 1) <= j =>
              i + (Before + Limit - 1) <= j
        BY <1>1, <1>2
    <2>. QED
        BY <1>2, <2>1, <2>2 DEF BurstsAreShort
<1>. QED
    BY <1>3, <1>4, <1>5, <1>6, BurstsNext DEF WindowInv

\* Every step keeps what is known of the window.
LEMMA NextWindow ==
    ASSUME TypeOK, TypeOK', WindowInv, [Next]_vars
    PROVE  WindowInv'
<1>0. clock \in Nat /\ clock <= clock /\ clock <= clock + 1
    BY Numbers
<1>1. CASE Restart
    BY <1>1, RestartWindow DEF Restart
<1>2. CASE Tick
    BY <1>0, <1>2, SameWindow DEF Tick, server
<1>3. CASE Others
    <2>1. CASE Pass
        BY <1>3, <2>1, PassWindow DEF Others
    <2>2. CASE Refuse
        BY <1>0, <1>3, <2>2, SameWindow DEF Others, Refuse
    <2>. QED
        BY <1>3, <2>1, <2>2 DEF Others
<1>4. ASSUME NEW v \in Visitors, Arrive(v) PROVE WindowInv'
    <2>1. CASE Pass
        BY <1>4, <2>1, PassWindow DEF Arrive
    <2>2. CASE UNCHANGED <<window, passed>>
        BY <1>0, <1>4, <2>2, SameWindow DEF Arrive
    <2>. QED
        BY <1>4, <2>1, <2>2 DEF Arrive, Refuse
<1>5. CASE UNCHANGED <<server, clock>>
    BY <1>0, <1>5, SameWindow DEF server
<1>6. ASSUME NEW v \in Visitors,
             \/ \E d \in Drafts : Correct(v, d) \/ Submit(v, d)
             \/ Validate(v) \/ Create(v) \/ Receive(v) \/ Lose(v)
      PROVE  UNCHANGED <<server, clock>>
    BY <1>6 DEF Correct, Submit, Validate, Create, Receive, Lose
<1>7. CASE UNCHANGED vars
    BY <1>5, <1>7 DEF vars
<1>. QED
    BY <1>1, <1>2, <1>3, <1>4, <1>5, <1>6, <1>7 DEF Next

\* The limiter has let nothing through at first.
LEMMA InitWindow == Init => WindowInv
<1>. SUFFICES ASSUME Init PROVE WindowInv
    OBVIOUS
<1>1. TypeOK /\ passed = <<>> /\ window.hits = 0
    BY InitType DEF Init, NoWindow
<1>2. Len(passed) = 0 /\ DOMAIN passed = {} /\ 1 .. 0 = {}
    BY <1>1, Numbers
<1>. QED
    BY <1>1, <1>2
    DEF WindowInv, WindowIsLast, PassedInOrder, OldAreOver, BurstExplained

\* The limiter's invariant holds throughout.
THEOREM WindowsKept == Spec => [](TypeOK /\ WindowInv)
<1>1. TypeOK /\ WindowInv /\ [Next]_vars /\ TypeOK' => WindowInv'
    BY NextWindow
<1>. QED
    BY <1>1, InitWindow, TypeCorrect, PTL DEF Spec

\* Less than twice the limit passes within a period, and the limit once more
\* for each restart (rate_limit.py:6-9), for any limit and period.
THEOREM BurstsBounded == Spec => []BurstExplained
<1>1. TypeOK /\ WindowInv => BurstExplained
    BY DEF WindowInv
<1>. QED
    BY <1>1, WindowsKept, PTL

\* Nobody is refused below the limit, or for having been refused before:
\* Limit requests of the address passed within the last period.
THEOREM RefusalsJustified == Spec => []LimitedExplained
<1>1. TypeOK /\ WindowInv => LimitedExplained
    <2>. SUFFICES ASSUME TypeOK, WindowInv, Full
                  PROVE  /\ Len(passed) >= Limit
                         /\ passed[Len(passed) - Limit + 1] + Period > clock
        BY DEF LimitedExplained
    <2>1. /\ window.hits = Limit /\ window.hits <= Len(passed)
          /\ Limit > 0 /\ Len(passed) \in Nat /\ Limit \in Nat
        BY Numbers DEF Full, WindowInv, WindowIsLast
    <2>2. window.ends = passed[Len(passed) - Limit + 1] + Period
        BY <2>1 DEF WindowInv, WindowIsLast
    <2>3. window.ends > clock
        BY Numbers DEF Full, Ended
    <2>. QED
        BY <2>1, <2>2, <2>3
<1>. QED
    BY <1>1, WindowsKept, PTL

----------------------------------------------------------------------------
(* The form and the API *)

\* A draft the form lets through is not too large for the API, and what the
\* API may object to is not in the form's reach.
LEMMA RulesAgree ==
    ASSUME NEW d \in Draft, FormErrors(d) = {}
    PROVE  /\ ~TooLarge(d)
           /\ ResumeStatus(d) \in {201, 415}
           /\ ResumeStatus(d) = 415 => d.stem # "some" \/ d.content # d.ext
           /\ FieldErrors(d) # {} => d.name.stripped = 0 \/ d.email = {"form"}
<1>1. NameOk(d) /\ EmailOk(d) /\ ResumeOk(d)
    BY DEF FormErrors, Fields
<1>2. d.size \in Nat /\ d.size \in 1 .. MaxBytes /\ d.ext \in Extensions
    BY <1>1 DEF ResumeOk, Draft
<1>3. ~TooLarge(d)
    BY <1>2, LeadAdmissionAssumptions DEF TooLarge
<1>4. ~(d.size > MaxBytes) /\ d.size # 0
    BY <1>2, LeadAdmissionAssumptions
<1>5. /\ ResumeStatus(d) \in {201, 415}
      /\ ResumeStatus(d) = 415 => d.stem # "some" \/ d.content # d.ext
    BY <1>2, <1>4 DEF ResumeStatus, Suffix
<1>6. CASE ~NameTaken(d)
    <2>1. d.name \in Name /\ d.name.units \in 1 .. MaxName
        BY <1>1 DEF NameOk, Draft
    <2>2. /\ d.name.stripped \in Nat /\ d.name.points \in Nat /\ d.name.units \in Nat
          /\ d.name.points <= d.name.units /\ d.name.units <= 2 * d.name.points
        BY <2>1 DEF Name
    <2>3. d.name.points \in 1 .. MaxName
        BY <2>1, <2>2, LeadAdmissionAssumptions
    <2>4. d.name.stripped = 0
        BY <1>6, <2>2, <2>3 DEF NameTaken
    <2>. QED
        BY <1>3, <1>5, <2>4
<1>7. CASE "api" \notin d.email
    <2>1. "form" \in d.email /\ d.email \subseteq {"form", "api"}
        BY <1>1 DEF EmailOk, Draft
    <2>2. d.email = {"form"}
        BY <1>7, <2>1
    <2>. QED
        BY <1>3, <1>5, <2>2
<1>8. NameTaken(d) /\ "api" \in d.email => FieldErrors(d) = {}
    BY DEF FieldErrors
<1>. QED
    BY <1>3, <1>5, <1>6, <1>7, <1>8

\* What the form turns away although the API takes it: a name that is too
\* long in units alone, an address only the API's library accepts, or a file
\* name that ends in its extension once it is cleaned.
LEMMA FormIsNotStricter ==
    ASSUME NEW d \in Draft, ApiTakes(d), FormErrors(d) # {}
    PROVE  \/ d.tail
           \/ d.name.units > MaxName /\ d.name.points <= MaxName
           \/ d.email = {"api"}
<1>1. FieldErrors(d) = {} /\ ResumeStatus(d) = 201
    BY DEF ApiTakes
<1>2. NameTaken(d) /\ "api" \in d.email
    BY <1>1 DEF FieldErrors, Fields
<1>3. CASE ~EmailOk(d)
    BY <1>2, <1>3 DEF EmailOk, Draft
<1>4. CASE ~NameOk(d)
    <2>1. d.name \in Name /\ d.name.points \in 1 .. MaxName
        BY <1>2 DEF NameTaken, Draft
    <2>2. /\ d.name.units \in Nat /\ d.name.points \in Nat
          /\ d.name.points <= d.name.units
        BY <2>1 DEF Name
    <2>3. ~(d.name.units \in 1 .. MaxName)
        BY <1>4 DEF NameOk
    <2>. QED
        BY <2>1, <2>2, <2>3, LeadAdmissionAssumptions
<1>5. ~(d.size > MaxBytes) /\ d.size # 0 /\ Suffix(d) \in Extensions
    BY <1>1 DEF ResumeStatus
<1>6. d.ext \in Extensions
    BY <1>5 DEF Suffix, Extensions
<1>7. d.size \in 1 .. MaxBytes
    BY <1>5, LeadAdmissionAssumptions DEF Draft
<1>8. NameOk(d) /\ EmailOk(d) => ~ResumeOk(d)
    BY DEF FormErrors
<1>. QED
    BY <1>3, <1>4, <1>6, <1>7, <1>8 DEF ResumeOk

\* The reasons of FormIsNotStricter.
Excused(d) ==
    \/ d.tail
    \/ d.name.units > MaxName /\ d.name.points <= MaxName
    \/ d.email = {"api"}

\* What a visitor sees is right.
ShownTo(v) ==
    /\ page[v] = "thanks" => stored[v] \/ draft[v].website
    /\ page[v] = "form" => fields[v] # {} \/ general[v]
    /\ page[v] = "form" /\ stored[v] => general[v]

ShownToEach == \A v \in Visitors : ShownTo(v)

\* ShownIsTrue, without the set of messages.
LEMMA ShownToAll == TypeOK => (ShownIsTrue <=> ShownToEach)
<1>. SUFFICES ASSUME TypeOK, NEW v \in Visitors
              PROVE  ShownTo(v) <=>
                       /\ page[v] = "thanks" => stored[v] \/ draft[v].website
                       /\ page[v] = "form" => Messages(v) # {}
                       /\ page[v] = "form" /\ stored[v] => "general" \in Messages(v)
    BY DEF ShownIsTrue, ShownToEach
<1>1. fields[v] \subseteq Fields /\ "general" \notin Fields
    BY DEF TypeOK, Fields
<1>2. page[v] = "form" =>
          /\ Messages(v) # {} <=> (fields[v] # {} \/ general[v])
          /\ "general" \in Messages(v) <=> general[v]
    BY <1>1 DEF Messages
<1>. QED
    BY <1>2 DEF ShownTo

\* The same of the next state.
LEMMA ShownToAllNext == TypeOK' => (ShownIsTrue' <=> ShownToEach')
BY ShownToAll, PTL

\* What RequestIsRight says of one visitor.
RightFor(v) ==
    /\ stage[v] # "idle" => FormErrors(draft[v]) = {} /\ Awaits(v)
    /\ stage[v] \in {"sent", "admitted", "valid"} => ~stored[v]
    /\ stage[v] = "replied" => ReplyIsRight(v)

\* A visitor whom a step does not touch.
LEMMA Untouched ==
    ASSUME NEW v \in Visitors, RightFor(v), ShownTo(v), UNCHANGED bucket,
           draft'[v] = draft[v], page'[v] = page[v], fields'[v] = fields[v],
           general'[v] = general[v], stage'[v] = stage[v], reply'[v] = reply[v],
           stored'[v] = stored[v]
    PROVE  RightFor(v)' /\ ShownTo(v)'
BY DEF RightFor, ShownTo, ReplyIsRight, Awaits

\* A step that touches one visitor, who ends up right.
LEMMA OnlyOne ==
    ASSUME TypeOK, TypeOK', FormInv, NEW v \in Visitors, UNCHANGED bucket,
           \A u \in Visitors \ {v} :
               /\ draft'[u] = draft[u] /\ page'[u] = page[u] /\ fields'[u] = fields[u]
               /\ general'[u] = general[u] /\ stage'[u] = stage[u]
               /\ reply'[u] = reply[u] /\ stored'[u] = stored[u],
           RightFor(v)' /\ ShownTo(v)'
    PROVE  FormInv'
<1>1. \A u \in Visitors : RightFor(u) /\ ShownTo(u)
    BY ShownToAll DEF FormInv, RequestIsRight, RightFor, ShownToEach
<1>2. \A u \in Visitors : RightFor(u)' /\ ShownTo(u)'
    BY <1>1, Untouched
<1>3. ShownIsTrue'
    BY <1>2, ShownToAllNext DEF ShownToEach
<1>4. RequestIsRight'
    BY <1>2 DEF RequestIsRight, RightFor
<1>. QED
    BY <1>3, <1>4 DEF FormInv

\* What FormInv says of a visitor.
LEMMA OfVisitor ==
    ASSUME TypeOK, FormInv, NEW v \in Visitors
    PROVE  /\ RightFor(v) /\ ShownTo(v)
           /\ draft[v] \in Draft
<1>1. draft[v] \in Draft
    BY LeadAdmissionAssumptions DEF TypeOK
<1>2. RightFor(v)
    BY DEF FormInv, RequestIsRight, RightFor
<1>3. ShownTo(v)
    BY ShownToAll DEF FormInv, ShownToEach
<1>. QED
    BY <1>1, <1>2, <1>3

\* The form: what it shows of its own mistakes or of an answer is right, and
\* a request leaves only with a draft that it finds no mistake in.
LEMMA FormKeeps ==
    ASSUME TypeOK, TypeOK', FormInv, NEW v \in Visitors,
           (\E d \in Drafts : Correct(v, d) \/ Submit(v, d)) \/ Receive(v) \/ Lose(v)
    PROVE  FormInv'
<1>1. RightFor(v) /\ ShownTo(v)
    BY OfVisitor
<1>2. ASSUME NEW d \in Drafts, Correct(v, d) PROVE FormInv'
    <2>2. /\ page'[v] = "form" /\ fields'[v] = FormErrors(d) /\ stored'[v] = FALSE
          /\ stage'[v] = "idle" /\ FormErrors(d) # {}
        BY <1>2 DEF Correct, TypeOK
    <2>3. RightFor(v)' /\ ShownTo(v)'
        BY <2>2 DEF RightFor, ShownTo
    <2>. QED
        BY <1>2, <2>3, OnlyOne DEF Correct, TypeOK, server
<1>3. ASSUME NEW d \in Drafts, Submit(v, d) PROVE FormInv'
    <2>1. /\ page'[v] = "sending" /\ draft'[v] = d /\ stored'[v] = FALSE
          /\ stage'[v] = "sent" /\ FormErrors(d) = {}
        BY <1>3 DEF Submit, TypeOK
    <2>2. RightFor(v)' /\ ShownTo(v)'
        BY <2>1 DEF RightFor, ShownTo, Awaits, FormErrors, NameOk, EmailOk, ResumeOk
    <2>. QED
        BY <1>3, <2>2, OnlyOne DEF Submit, TypeOK, server
<1>4. CASE Receive(v)
    <2>1. ReplyIsRight(v) /\ stage'[v] = "idle" /\ UNCHANGED <<draft, stored, bucket>>
        BY <1>1, <1>4 DEF Receive, RightFor, TypeOK, server
    <2>2. CASE reply[v].status = 201
        <3>1. page'[v] = "thanks"
            BY <1>4, <2>2 DEF Receive, TypeOK
        <3>2. RightFor(v)' /\ ShownTo(v)'
            BY <2>1, <2>2, <3>1 DEF RightFor, ShownTo, ReplyIsRight
        <3>. QED
            BY <1>4, <2>2, <3>2, OnlyOne DEF Receive, TypeOK, server
    <2>3. CASE reply[v].status # 201
        <3>1. /\ page'[v] = "form" /\ fields'[v] = reply[v].fields
              /\ general'[v] = (reply[v].fields = {}) /\ ~stored[v]
            BY <1>4, <2>1, <2>3 DEF Receive, TypeOK, General, ReplyIsRight
        <3>2. RightFor(v)' /\ ShownTo(v)'
            BY <2>1, <3>1 DEF RightFor, ShownTo
        <3>. QED
            BY <1>4, <2>3, <3>2, OnlyOne DEF Receive, TypeOK, server
    <2>. QED
        BY <2>2, <2>3
<1>5. CASE Lose(v)
    <2>1. /\ page'[v] = "form" /\ general'[v] = TRUE
          /\ UNCHANGED <<draft, stage, reply, bucket, stored>>
        BY <1>5 DEF Lose, TypeOK, server
    <2>2. RightFor(v)' /\ ShownTo(v)'
        BY <1>1, <2>1 DEF RightFor, ShownTo, Awaits, ReplyIsRight
    <2>. QED
        BY <1>5, <2>2, OnlyOne DEF Lose, TypeOK, server
<1>. QED
    BY <1>2, <1>3, <1>4, <1>5

\* A reply that is right for a request that has stored nothing yet.
LEMMA ReplyKeeps ==
    ASSUME TypeOK, TypeOK', FormInv, NEW v \in Visitors, NEW status, NEW about,
           stage[v] # "idle", Reply(v, status, about),
           UNCHANGED <<form, bucket, stored>>, ~stored[v], status # 413,
           status = 415 => draft[v].stem # "some" \/ draft[v].content # draft[v].ext,
           status = 422 => draft[v].name.stripped = 0 \/ draft[v].email = {"form"},
           status = 500 => ~bucket,
           status = 201 => draft[v].website
    PROVE  FormInv'
<1>1. Awaits(v) /\ FormErrors(draft[v]) = {} /\ ShownTo(v)
    BY OfVisitor DEF RightFor
<1>2. /\ stage'[v] = "replied" /\ reply'[v].status = status
      /\ draft' = draft /\ page' = page /\ stored' = stored /\ bucket' = bucket
      /\ fields' = fields /\ general' = general
    BY DEF Reply, TypeOK, form
<1>3. ReplyIsRight(v)'
    BY <1>2 DEF ReplyIsRight
<1>4. RightFor(v)' /\ ShownTo(v)'
    BY <1>1, <1>2, <1>3 DEF RightFor, ShownTo, Awaits
<1>. QED
    BY <1>2, <1>4, OnlyOne DEF Reply, TypeOK

\* A request that goes on to its next stage.
LEMMA AdvanceKeeps ==
    ASSUME TypeOK, TypeOK', FormInv, NEW v \in Visitors,
           stage[v] # "idle", ~stored[v],
           \E s \in {"admitted", "valid"} : stage' = [stage EXCEPT ![v] = s],
           UNCHANGED <<form, reply, bucket, stored>>
    PROVE  FormInv'
<1>1. Awaits(v) /\ FormErrors(draft[v]) = {} /\ ShownTo(v)
    BY OfVisitor DEF RightFor
<1>2. /\ stage'[v] \in {"admitted", "valid"}
      /\ draft' = draft /\ page' = page /\ stored' = stored /\ bucket' = bucket
      /\ fields' = fields /\ general' = general /\ reply' = reply
    BY DEF TypeOK, form
<1>3. RightFor(v)' /\ ShownTo(v)'
    BY <1>1, <1>2 DEF RightFor, ShownTo, Awaits
<1>. QED
    BY <1>2, <1>3, OnlyOne DEF TypeOK

\* The API: the body's size cannot be what is wrong, and neither can a field
\* or a file that the form knows how to check.
LEMMA ApiKeeps ==
    ASSUME TypeOK, TypeOK', FormInv, NEW v \in Visitors,
           Arrive(v) \/ Validate(v) \/ Create(v)
    PROVE  FormInv'
<1>1. /\ RightFor(v) /\ draft[v] \in Draft /\ stage[v] \in {"sent", "admitted", "valid"}
    BY OfVisitor DEF Arrive, Validate, Create
<1>2. /\ stage[v] # "idle" /\ ~stored[v]
      /\ Awaits(v) /\ FormErrors(draft[v]) = {} /\ ShownTo(v)
    BY <1>1, OfVisitor DEF RightFor
<1>3. CASE Arrive(v)
    <2>1. ~TooLarge(draft[v])
        BY <1>1, <1>2, RulesAgree
    <2>2. UNCHANGED <<form, bucket, stored>>
        BY <1>3 DEF Arrive
    <2>3. \/ stage' = [stage EXCEPT ![v] = "admitted"] /\ UNCHANGED reply
          \/ Reply(v, 429, {})
        BY <1>3, <2>1 DEF Arrive
    <2>4. CASE stage' = [stage EXCEPT ![v] = "admitted"] /\ UNCHANGED reply
        BY <1>2, <2>2, <2>4, AdvanceKeeps
    <2>5. CASE Reply(v, 429, {})
        BY <1>2, <2>2, <2>5, ReplyKeeps
    <2>. QED
        BY <2>3, <2>4, <2>5
<1>4. CASE Validate(v)
    <2>1. UNCHANGED <<form, bucket, stored>>
        BY <1>4 DEF Validate, server
    <2>2. /\ ResumeStatus(draft[v]) \in {201, 415}
          /\ ResumeStatus(draft[v]) = 415 =>
                 draft[v].stem # "some" \/ draft[v].content # draft[v].ext
          /\ FieldErrors(draft[v]) # {} =>
                 draft[v].name.stripped = 0 \/ draft[v].email = {"form"}
        BY <1>1, <1>2, RulesAgree
    <2>3. CASE FieldErrors(draft[v]) # {}
        <3>1. Reply(v, 422, FieldErrors(draft[v]))
            BY <1>4, <2>3 DEF Validate
        <3>. QED
            BY <1>2, <2>1, <2>2, <2>3, <3>1, ReplyKeeps
    <2>4. CASE FieldErrors(draft[v]) = {} /\ draft[v].website
        <3>1. Reply(v, 201, {})
            BY <1>4, <2>4 DEF Validate
        <3>. QED
            BY <1>2, <2>1, <2>4, <3>1, ReplyKeeps
    <2>5. CASE /\ FieldErrors(draft[v]) = {} /\ ~draft[v].website
               /\ ResumeStatus(draft[v]) # 201
        <3>1. Reply(v, 415, {"resume"})
            BY <1>4, <2>2, <2>5 DEF Validate
        <3>. QED
            BY <1>2, <2>1, <2>2, <2>5, <3>1, ReplyKeeps
    <2>6. CASE /\ FieldErrors(draft[v]) = {} /\ ~draft[v].website
               /\ ResumeStatus(draft[v]) = 201
        <3>1. stage' = [stage EXCEPT ![v] = "valid"] /\ UNCHANGED reply
            BY <1>4, <2>6 DEF Validate
        <3>. QED
            BY <1>2, <2>1, <3>1, AdvanceKeeps
    <2>. QED
        BY <2>3, <2>4, <2>5, <2>6
<1>5. CASE Create(v)
    <2>1. UNCHANGED <<form, bucket>>
        BY <1>5 DEF Create, server
    <2>2. CASE bucket
        <3>1. Reply(v, 201, {}) /\ stored' = [stored EXCEPT ![v] = TRUE]
            BY <1>5, <2>2 DEF Create
        <3>2. /\ stage'[v] = "replied" /\ reply'[v].status = 201 /\ stored'[v]
              /\ draft' = draft /\ page' = page /\ bucket' = bucket
              /\ fields' = fields /\ general' = general
            BY <2>1, <3>1 DEF Reply, TypeOK, form
        <3>3. ReplyIsRight(v)'
            BY <3>2 DEF ReplyIsRight
        <3>4. RightFor(v)' /\ ShownTo(v)'
            BY <1>2, <3>2, <3>3 DEF RightFor, ShownTo, Awaits
        <3>. QED
            BY <3>1, <3>2, <3>4, OnlyOne DEF Reply, TypeOK
    <2>3. CASE ~bucket
        <3>1. Reply(v, 500, {}) /\ stored' = [stored EXCEPT ![v] = bucket]
            BY <1>5, <2>3 DEF Create
        <3>2. stored' = stored
            BY <1>2, <2>3, <3>1 DEF TypeOK
        <3>. QED
            BY <1>2, <2>1, <2>3, <3>1, <3>2, ReplyKeeps
    <2>. QED
        BY <2>2, <2>3
<1>. QED
    BY <1>3, <1>4, <1>5

\* A restart leaves no request, and tells who waited that something is wrong.
LEMMA RestartKeeps ==
    ASSUME TypeOK, TypeOK', FormInv, Restart
    PROVE  FormInv'
<1>1. ASSUME NEW v \in Visitors PROVE RightFor(v)' /\ ShownTo(v)'
    <2>1. ShownTo(v)
        BY OfVisitor
    <2>2. /\ stage'[v] = "idle"
          /\ page'[v] = IF page[v] = "sending" THEN "form" ELSE page[v]
          /\ general'[v] = (general[v] \/ page[v] = "sending")
          /\ UNCHANGED <<draft, fields, stored>>
        BY DEF Restart
    <2>. QED
        BY <2>1, <2>2 DEF RightFor, ShownTo
<1>2. ShownIsTrue'
    BY <1>1, ShownToAllNext DEF ShownToEach
<1>3. RequestIsRight'
    BY <1>1 DEF RequestIsRight, RightFor
<1>. QED
    BY <1>2, <1>3 DEF FormInv

\* A step that is no visitor's: the requests of others, and time.
LEMMA ElseKeeps ==
    ASSUME FormInv, UNCHANGED <<form, stage, reply, bucket, stored>>
    PROVE  FormInv'
BY DEF FormInv, RequestIsRight, Awaits, ReplyIsRight, ShownIsTrue, Messages, form

\* What the form shows, and what a request has in it, are right in every
\* state.
THEOREM FormKept == Spec => [](TypeOK /\ FormInv)
<1>1. Init => FormInv
    BY DEF Init, FormInv, RequestIsRight, ShownIsTrue
<1>2. TypeOK /\ TypeOK' /\ FormInv /\ [Next]_vars => FormInv'
    <2>. SUFFICES ASSUME TypeOK, TypeOK', FormInv, [Next]_vars
                  PROVE  FormInv'
        OBVIOUS
    <2>1. ASSUME NEW v \in Visitors, NEW d \in Drafts, Correct(v, d) \/ Submit(v, d)
          PROVE  FormInv'
        BY <2>1, FormKeeps
    <2>2. ASSUME NEW v \in Visitors, Receive(v) \/ Lose(v) PROVE FormInv'
        BY <2>2, FormKeeps
    <2>3. ASSUME NEW v \in Visitors, Arrive(v) \/ Validate(v) \/ Create(v) PROVE FormInv'
        BY <2>3, ApiKeeps
    <2>4. CASE Others
        BY <2>4, ElseKeeps DEF Others
    <2>5. CASE Tick
        BY <2>5, ElseKeeps DEF Tick, server
    <2>6. CASE Restart
        BY <2>6, RestartKeeps
    <2>7. CASE UNCHANGED vars
        BY <2>7, ElseKeeps DEF vars, server
    <2>. QED
        BY <2>1, <2>2, <2>3, <2>4, <2>5, <2>6, <2>7 DEF Next
<1>. QED
    BY <1>1, <1>2, TypeCorrect, PTL DEF Spec

\* Whoever is thanked has a lead (or filled the honeypot), and whoever is not
\* is told so, above the fields if there is a lead all the same.
THEOREM ShownIsRight == Spec => []ShownIsTrue
BY FormKept, PTL DEF FormInv

\* The form mirrors the rules of the API but for the listed differences, for
\* any drafts, sizes and limits, whatever the two e-mail libraries accept.
THEOREM RulesMirrored == Spec => []FormMirrorsApi
<1>1. TypeOK /\ FormInv => FormMirrorsApi
    <2>. SUFFICES ASSUME TypeOK, FormInv, NEW v \in Visitors
         PROVE  /\ stage[v] = "replied" =>
                    CASE reply[v].status = 413 -> FALSE
                      [] reply[v].status = 415 ->
                            draft[v].stem # "some" \/ draft[v].content # draft[v].ext
                      [] reply[v].status = 422 ->
                            draft[v].name.stripped = 0 \/ draft[v].email = {"form"}
                      [] reply[v].status = 500 -> ~bucket
                      [] OTHER -> TRUE
                /\ (/\ page[v] = "form" /\ reply[v] = NoReply
                    /\ FormErrors(draft[v]) # {} /\ ApiTakes(draft[v])) => Excused(draft[v])
        BY DEF FormMirrorsApi, Excused
    <2>1. RightFor(v) /\ draft[v] \in Draft
        BY OfVisitor
    <2>2. stage[v] = "replied" => ReplyIsRight(v)
        BY <2>1 DEF RightFor
    <2>3. FormErrors(draft[v]) # {} /\ ApiTakes(draft[v]) => Excused(draft[v])
        BY <2>1, FormIsNotStricter DEF Excused
    <2>. QED
        BY <2>2, <2>3 DEF ReplyIsRight
<1>. QED
    BY <1>1, FormKept, PTL

=============================================================================
