-------------------------- MODULE LeadIntakeProofs --------------------------
(***************************************************************************)
(* Proofs about LeadIntake, for any number of visitors, tries and faults.  *)
(***************************************************************************)
EXTENDS LeadIntake, TLAPS, FiniteSetTheorems

----------------------------------------------------------------------------
(* Type correctness *)

\* Initially every variable has its type.
LEMMA InitTypeOK == Init => TypeOK
BY LeadIntakeBounds DEF Init, TypeOK, Form, Step

\* The visitor of a request.
LEMMA VisitorType == \A q \in Request : VisitorOf(q) \in Visitors
BY DEF Request, VisitorOf

\* Every step of a handler keeps the types.
LEMMA HandleType ==
    ASSUME TypeOK, NEW q \in Request, Handle(q) \/ Dispatch(q)
    PROVE  TypeOK'
<1>. USE LeadIntakeBounds
     DEF TypeOK, Goto, Step, Handling, Decided, stores, background, faults
<1>1. CASE Refuse(q) \/ Decoy(q) \/ Accept(q)
    BY <1>1 DEF Refuse, Decoy, Accept
<1>2. CASE Put(q)
    BY <1>2 DEF Put
<1>3. CASE PutFault(q)
    BY <1>3 DEF PutFault
<1>4. CASE Insert(q)
    BY <1>4 DEF Insert
<1>5. CASE InsertFault(q)
    BY <1>5 DEF InsertFault
<1>6. CASE TornCommit(q)
    BY <1>6 DEF TornCommit
<1>7. CASE Cleanup(q) \/ CleanupFault(q)
    BY <1>7 DEF Cleanup, CleanupFault
<1>8. CASE Queue(q)
    BY <1>8 DEF Queue
<1>9. CASE Answer(q) \/ LoseAnswer(q)
    <2>1. form' \in [Visitors -> Form]
        BY <1>9, VisitorType DEF Answer, LoseAnswer, Outcome, Form
    <2>. QED
        BY <1>9, <2>1 DEF Answer, LoseAnswer
<1>10. CASE Dispatch(q)
    BY <1>10 DEF Dispatch
<1>. QED
    BY <1>1, <1>2, <1>3, <1>4, <1>5, <1>6, <1>7, <1>8, <1>9, <1>10 DEF Handle

\* Every other step keeps the types.
LEMMA OtherType ==
    ASSUME TypeOK, (\E v \in Visitors : Submit(v)) \/ Crash \/ Idle \/ UNCHANGED vars
    PROVE  TypeOK'
<1>. USE LeadIntakeBounds DEF TypeOK, stores, background, faults
<1>1. ASSUME NEW v \in Visitors, Submit(v)
      PROVE  TypeOK'
    <2>1. tries' \in [Visitors -> 0 .. MaxTries]
        BY <1>1 DEF Submit
    <2>. QED
        BY <1>1, <2>1 DEF Submit, Form, Step, Handling
<1>2. CASE Crash
    BY <1>2 DEF Crash, FetchThrows, Form, Step
<1>3. CASE Idle \/ UNCHANGED vars
    BY <1>3 DEF Idle, vars
<1>. QED
    BY <1>1, <1>2, <1>3

\* Every variable keeps its type in every behaviour.
THEOREM TypeCorrect == Spec => []TypeOK
<1>1. TypeOK /\ [Next]_vars => TypeOK'
    BY HandleType, OtherType DEF Next
<1>. QED
    BY <1>1, InitTypeOK, PTL DEF Spec

----------------------------------------------------------------------------
(* Lead rows and their resumes *)

\* A visitor's later tries are still to come.
FreshTries ==
    \A v \in Visitors : \A n \in 1 .. MaxTries :
        n > tries[v] => step[<<v, n>>] = "unsent"

\* Where the handler stands says what the two stores hold of the request.
StepTells ==
    \A q \in Request :
        /\ step[q] \in {"unsent", "received", "put", "insert", "refused", "decoy"} =>
            q \notin leads
        /\ step[q] = "insert" => q \in objects
        /\ step[q] \in {"queue", "created"} => q \in leads \cap objects

\* A request in the background is one whose lead is complete and whose
\* handler is past any clean-up.
TaskTells ==
    /\ \A q \in tasks : q \in leads \cap objects /\ step[q] \in {"created", "answered"}
    /\ \A q \in dispatched : q \in leads \cap objects /\ step[q] = "answered"

\* Without torn commits, what is cleaned up belongs to no lead.
CleanupTells ==
    tornCommits = 0 =>
        /\ LeadHasResume
        /\ \A q \in Request : step[q] = "cleanup" => q \notin leads

IInv == TypeOK /\ FreshTries /\ StepTells /\ TaskTells /\ CleanupTells

\* Every step of a handler keeps the invariant.
LEMMA HandleInv ==
    ASSUME IInv, NEW q \in Request, Handle(q) \/ Dispatch(q)
    PROVE  IInv'
<1>0. TypeOK /\ TypeOK'
    BY HandleType DEF IInv
<1>1. FreshTries'
    <2>1. step[q] # "unsent" \/ step' = step
        BY DEF Handling, Handle, Refuse, Decoy, Accept, Put, PutFault, Insert, InsertFault,
               TornCommit, Cleanup, CleanupFault, Queue, Answer, LoseAnswer,
               Dispatch, Goto, Decided
    <2>2. UNCHANGED tries /\ \A p \in Request : p # q => step'[p] = step[p]
        BY <1>0
        DEF Handle, Refuse, Decoy, Accept, Put, PutFault, Insert, InsertFault,
            TornCommit, Cleanup, CleanupFault, Queue, Answer, LoseAnswer,
            Dispatch, Goto, TypeOK
    <2>3. \A v \in Visitors, n \in 1 .. MaxTries : <<v, n>> \in Request
        BY DEF Request
    <2>. QED
        BY <2>1, <2>2, <2>3 DEF IInv, FreshTries
<1>. USE DEF TypeOK, Goto, stores, background, faults,
             IInv, StepTells, TaskTells, CleanupTells, LeadHasResume
<1>2. CASE Refuse(q) \/ Decoy(q) \/ Accept(q)
    BY <1>0, <1>1, <1>2 DEF Refuse, Decoy, Accept
<1>3. CASE Put(q)
    BY <1>0, <1>1, <1>3 DEF Put
<1>4. CASE PutFault(q)
    BY <1>0, <1>1, <1>4 DEF PutFault
<1>5. CASE Insert(q)
    BY <1>0, <1>1, <1>5 DEF Insert
<1>6. CASE InsertFault(q)
    BY <1>0, <1>1, <1>6 DEF InsertFault
<1>7. CASE TornCommit(q)
    BY <1>0, <1>1, <1>7 DEF TornCommit
<1>8. CASE Cleanup(q)
    BY <1>0, <1>1, <1>8 DEF Cleanup
<1>9. CASE CleanupFault(q)
    BY <1>0, <1>1, <1>9 DEF CleanupFault
<1>10. CASE Queue(q)
    BY <1>0, <1>1, <1>10 DEF Queue
<1>11. CASE Answer(q) \/ LoseAnswer(q)
    BY <1>0, <1>1, <1>11 DEF Answer, LoseAnswer, Decided
<1>12. CASE Dispatch(q)
    BY <1>0, <1>1, <1>12 DEF Dispatch
<1>. QED
    BY <1>2, <1>3, <1>4, <1>5, <1>6, <1>7, <1>8, <1>9, <1>10, <1>11, <1>12 DEF Handle

\* Every other step keeps the invariant.
LEMMA OtherInv ==
    ASSUME IInv, (\E v \in Visitors : Submit(v)) \/ Crash \/ Idle \/ UNCHANGED vars
    PROVE  IInv'
<1>0. TypeOK /\ TypeOK'
    BY OtherType DEF IInv
<1>1. ASSUME NEW v \in Visitors, Submit(v)
      PROVE  IInv'
    <2>. DEFINE q == <<v, tries[v] + 1>>
    <2>1. q \in Request /\ step[q] = "unsent"
        BY <1>0, <1>1 DEF Submit, Request, IInv, FreshTries, TypeOK
    <2>2. /\ UNCHANGED <<objects, leads, tasks, dispatched, tornCommits>>
          /\ step'[q] = "received"
          /\ \A p \in Request : p # q => step'[p] = step[p]
        BY <1>0, <1>1, <2>1 DEF Submit, TypeOK, stores, background, faults
    <2>3. FreshTries'
        <3>1. tries'[v] = tries[v] + 1 /\ \A u \in Visitors : u # v => tries'[u] = tries[u]
            BY <1>0, <1>1 DEF Submit, TypeOK
        <3>2. \A u \in Visitors, n \in 1 .. MaxTries :
                <<u, n>> \in Request /\ (<<u, n>> = q => u = v /\ n = tries[v] + 1)
            BY DEF Request
        <3>3. tries[v] \in Nat
            BY <1>0 DEF TypeOK
        <3>. QED
            BY <2>2, <3>1, <3>2, <3>3 DEF IInv, FreshTries
    <2>4. StepTells' /\ TaskTells' /\ CleanupTells'
        BY <2>1, <2>2 DEF IInv, StepTells, TaskTells, CleanupTells, LeadHasResume, TypeOK
    <2>. QED
        BY <1>0, <2>3, <2>4 DEF IInv
<1>2. CASE Crash
    <2>1. \A q \in Request : step'[q] \in {step[q], "dead"}
          /\ (step[q] = "unsent" => step'[q] = "unsent")
        BY <1>0, <1>2 DEF Crash, FetchThrows, Handling, Decided
    <2>2. /\ UNCHANGED <<tries, objects, leads, dispatched, tornCommits>> /\ tasks' = {}
          /\ \A q \in Request : step[q] = "answered" => step'[q] = "answered"
        BY <1>0, <1>2 DEF Crash, FetchThrows, Handling, Decided, stores
    <2>3. FreshTries'
        BY <2>1, <2>2 DEF IInv, FreshTries, Request
    <2>4. StepTells'
        BY <2>1, <2>2 DEF IInv, StepTells
    <2>5. TaskTells'
        BY <1>0, <2>2 DEF IInv, TaskTells, TypeOK
    <2>6. CleanupTells'
        BY <2>1, <2>2 DEF IInv, CleanupTells, LeadHasResume
    <2>. QED
        BY <1>0, <2>3, <2>4, <2>5, <2>6 DEF IInv
<1>3. CASE Idle \/ UNCHANGED vars
    BY <1>0, <1>3 DEF Idle, vars, IInv, FreshTries, StepTells, TaskTells,
                      CleanupTells, LeadHasResume
<1>. QED
    BY <1>1, <1>2, <1>3

\* IInv is inductive, so it holds throughout.
THEOREM InductiveInvariant == Spec => []IInv
<1>1. Init => IInv
    BY InitTypeOK
    DEF Init, IInv, FreshTries, StepTells, TaskTells, CleanupTells, LeadHasResume, Request
<1>2. IInv /\ [Next]_vars => IInv'
    BY HandleInv, OtherInv DEF Next
<1>. QED
    BY <1>1, <1>2, PTL DEF Spec

\* Whatever fails or crashes, a lead answered 201, or handed to the e-mail
\* dispatch, has its row and its resume (service.py:31-53, router.py:88-91).
THEOREM CreatedComplete == Spec => []CreatedIsComplete
<1>1. IInv => CreatedIsComplete
    BY DEF IInv, StepTells, TaskTells, CreatedIsComplete
<1>. QED
    BY <1>1, InductiveInvariant, PTL

\* No lead refers to a deleted resume as long as no commit took effect and
\* raised (service.py:46-52, where the comment leaves that case out).
THEOREM ResumeKept == Spec => [](tornCommits = 0 => LeadHasResume)
<1>1. IInv => (tornCommits = 0 => LeadHasResume)
    BY DEF IInv, CleanupTells
<1>. QED
    BY <1>1, InductiveInvariant, PTL

----------------------------------------------------------------------------
(* What is left behind, counted against the faults *)

\* Leads whose resume is gone, or about to be deleted.
Torn == {q \in leads : ~Downloads(q) \/ step[q] = "cleanup"}

\* Objects without a lead, of requests that have an answer.
Left == {q \in objects \ leads : step[q] \in Decided \cup {"answered"}}

\* A request that has put nothing yet has no object.
NothingPut == \A q \in Request : step[q] \in {"unsent", "received", "put"} => q \notin objects

CountInv ==
    /\ NothingPut
    /\ IsFiniteSet(Torn) /\ Cardinality(Torn) <= tornCommits
    /\ IsFiniteSet(Left) /\ Cardinality(Left) <= storeFaults

\* A set that loses elements stays below its bound, and so does one that
\* gains an element when the bound grows.
LEMMA StaysBelow ==
    ASSUME NEW S, IsFiniteSet(S), NEW n \in Nat, Cardinality(S) <= n
    PROVE  /\ \A T : T \subseteq S => IsFiniteSet(T) /\ Cardinality(T) <= n
           /\ \A T, q : T \subseteq S \cup {q} => IsFiniteSet(T) /\ Cardinality(T) <= n + 1
<1>1. Cardinality(S) \in Nat
    BY FS_CardinalityType
<1>2. ASSUME NEW T, T \subseteq S PROVE IsFiniteSet(T) /\ Cardinality(T) <= n
    <2>1. IsFiniteSet(T) /\ Cardinality(T) <= Cardinality(S) /\ Cardinality(T) \in Nat
        BY <1>2, FS_Subset, FS_CardinalityType
    <2>. QED
        BY <1>1, <2>1
<1>3. ASSUME NEW T, NEW q, T \subseteq S \cup {q}
      PROVE  IsFiniteSet(T) /\ Cardinality(T) <= n + 1
    <2>1. /\ IsFiniteSet(S \cup {q}) /\ Cardinality(S \cup {q}) \in Nat
          /\ Cardinality(S \cup {q}) <= Cardinality(S) + 1
        BY <1>1, FS_AddElement, FS_CardinalityType
    <2>2. IsFiniteSet(T) /\ Cardinality(T) <= Cardinality(S \cup {q}) /\ Cardinality(T) \in Nat
        BY <1>3, <2>1, FS_Subset, FS_CardinalityType
    <2>. QED
        BY <1>1, <2>1, <2>2
<1>. QED
    BY <1>2, <1>3

\* What a step may do to the two sets, to keep their bounds.
LEMMA CountStep ==
    ASSUME TypeOK, CountInv, NothingPut',
           \/ Torn' \subseteq Torn /\ tornCommits' = tornCommits
           \/ (\E q : Torn' \subseteq Torn \cup {q}) /\ tornCommits' = tornCommits + 1,
           \/ Left' \subseteq Left /\ storeFaults' = storeFaults
           \/ (\E q : Left' \subseteq Left \cup {q}) /\ storeFaults' = storeFaults + 1
    PROVE  CountInv'
<1>1. tornCommits \in Nat /\ storeFaults \in Nat
    BY LeadIntakeBounds DEF TypeOK
<1>2. /\ \A T : T \subseteq Torn => IsFiniteSet(T) /\ Cardinality(T) <= tornCommits
      /\ \A T, q : T \subseteq Torn \cup {q} =>
            IsFiniteSet(T) /\ Cardinality(T) <= tornCommits + 1
    <2>1. IsFiniteSet(Torn) /\ Cardinality(Torn) <= tornCommits
        BY DEF CountInv
    <2>. QED
        BY <1>1, <2>1, StaysBelow
<1>3. /\ \A T : T \subseteq Left => IsFiniteSet(T) /\ Cardinality(T) <= storeFaults
      /\ \A T, q : T \subseteq Left \cup {q} =>
            IsFiniteSet(T) /\ Cardinality(T) <= storeFaults + 1
    <2>1. IsFiniteSet(Left) /\ Cardinality(Left) <= storeFaults
        BY DEF CountInv
    <2>. QED
        BY <1>1, <2>1, StaysBelow
<1>4. IsFiniteSet(Torn') /\ Cardinality(Torn') <= tornCommits'
    BY <1>2
<1>5. IsFiniteSet(Left') /\ Cardinality(Left') <= storeFaults'
    BY <1>3
<1>. QED
    BY <1>4, <1>5 DEF CountInv

\* Every step of a handler keeps the bounds: a torn commit and a fault of
\* the store leave one request behind, and nothing else leaves any.
LEMMA HandleCount ==
    ASSUME IInv, CountInv, NEW q \in Request, Handle(q) \/ Dispatch(q)
    PROVE  CountInv'
<1>0. TypeOK /\ StepTells
    BY DEF IInv
<1>1. \A p \in Request : p # q => step'[p] = step[p]
    BY <1>0
    DEF Handle, Refuse, Decoy, Accept, Put, PutFault, Insert, InsertFault,
        TornCommit, Cleanup, CleanupFault, Queue, Answer, LoseAnswer,
        Dispatch, Goto, TypeOK
<1>2. leads \subseteq Request /\ objects \subseteq Request
    BY <1>0 DEF TypeOK
<1>. USE <1>0, <1>1, <1>2, CountStep
     DEF Goto, stores, background, faults, CountInv, NothingPut, Torn, Left,
         Downloads, Decided, StepTells
<1>3. CASE Refuse(q) \/ Decoy(q) \/ Accept(q)
    BY <1>3 DEF Refuse, Decoy, Accept, TypeOK
<1>4. CASE Put(q)
    BY <1>4 DEF Put, TypeOK
<1>5. CASE PutFault(q)
    <2>1. Left' \subseteq Left \cup {q}
        BY <1>5 DEF PutFault, TypeOK
    <2>2. Torn' \subseteq Torn
        BY <1>5 DEF PutFault, TypeOK
    <2>3. NothingPut'
        BY <1>5 DEF PutFault, TypeOK
    <2>. QED
        BY <1>5, <2>1, <2>2, <2>3 DEF PutFault
<1>6. CASE Insert(q)
    BY <1>6 DEF Insert, TypeOK
<1>7. CASE InsertFault(q)
    BY <1>7 DEF InsertFault, TypeOK
<1>8. CASE TornCommit(q)
    <2>1. Torn' \subseteq Torn \cup {q}
        BY <1>8 DEF TornCommit, TypeOK
    <2>2. Left' \subseteq Left
        BY <1>8 DEF TornCommit, TypeOK
    <2>3. NothingPut'
        BY <1>8 DEF TornCommit, TypeOK
    <2>. QED
        BY <1>8, <2>1, <2>2, <2>3 DEF TornCommit
<1>9. CASE Cleanup(q)
    BY <1>9 DEF Cleanup, TypeOK
<1>10. CASE CleanupFault(q)
    <2>1. Left' \subseteq Left \cup {q}
        BY <1>10 DEF CleanupFault, TypeOK
    <2>2. Torn' \subseteq Torn
        BY <1>10 DEF CleanupFault, TypeOK
    <2>3. NothingPut'
        BY <1>10 DEF CleanupFault, TypeOK
    <2>. QED
        BY <1>10, <2>1, <2>2, <2>3 DEF CleanupFault
<1>11. CASE Queue(q)
    BY <1>11 DEF Queue, TypeOK
<1>12. CASE Answer(q) \/ LoseAnswer(q)
    BY <1>12 DEF Answer, LoseAnswer, TypeOK
<1>13. CASE Dispatch(q)
    BY <1>13 DEF Dispatch
<1>. QED
    BY <1>3, <1>4, <1>5, <1>6, <1>7, <1>8, <1>9, <1>10, <1>11, <1>12, <1>13 DEF Handle

\* Every other step keeps the bounds.
LEMMA OtherCount ==
    ASSUME IInv, CountInv, (\E v \in Visitors : Submit(v)) \/ Crash \/ Idle \/ UNCHANGED vars
    PROVE  CountInv'
<1>0. TypeOK
    BY DEF IInv
<1>1. ASSUME NEW v \in Visitors, Submit(v)
      PROVE  CountInv'
    <2>. DEFINE q == <<v, tries[v] + 1>>
    <2>1. q \in Request /\ step[q] = "unsent"
        BY <1>0, <1>1, LeadIntakeBounds DEF Submit, Request, IInv, FreshTries, TypeOK
    <2>2. /\ UNCHANGED <<objects, leads, tornCommits, storeFaults>>
          /\ step'[q] = "received"
          /\ \A p \in Request : p # q => step'[p] = step[p]
        BY <1>0, <1>1, <2>1 DEF Submit, TypeOK, stores, background, faults
    <2>3. NothingPut'
        BY <2>1, <2>2 DEF CountInv, NothingPut
    <2>4. Torn' \subseteq Torn /\ Left' \subseteq Left
        BY <1>0, <2>2 DEF Torn, Left, Downloads, Decided, TypeOK
    <2>. QED
        BY <1>0, <2>2, <2>3, <2>4, CountStep
<1>2. CASE Crash
    <2>1. /\ UNCHANGED <<objects, leads, tornCommits, storeFaults>>
          /\ \A p \in Request : step'[p] \in {step[p], "dead"}
        BY <1>2 DEF Crash, FetchThrows, stores
    <2>2. NothingPut'
        BY <2>1 DEF CountInv, NothingPut
    <2>3. Torn' \subseteq Torn /\ Left' \subseteq Left
        BY <1>0, <2>1 DEF Torn, Left, Downloads, Decided, TypeOK
    <2>. QED
        BY <1>0, <2>1, <2>2, <2>3, CountStep
<1>3. CASE Idle \/ UNCHANGED vars
    BY <1>3 DEF Idle, vars, CountInv, NothingPut, Torn, Left, Downloads, Decided
<1>. QED
    BY <1>1, <1>2, <1>3

\* The bounds hold throughout.
LEMMA Counted == Spec => [](IInv /\ CountInv)
<1>1. Init => CountInv
    <2>. SUFFICES ASSUME Init PROVE CountInv
        OBVIOUS
    <2>1. Torn = {} /\ Left = {} /\ tornCommits = 0 /\ storeFaults = 0
        BY DEF Init, Torn, Left
    <2>2. NothingPut
        BY DEF Init, NothingPut
    <2>. QED
        BY <2>1, <2>2, FS_EmptySet DEF CountInv
<1>2. IInv /\ CountInv /\ [Next]_vars => CountInv'
    BY HandleCount, OtherCount DEF Next
<1>. QED
    BY <1>1, <1>2, InductiveInvariant, PTL DEF Spec

\* For each lead whose resume cannot be downloaded a commit took effect and
\* raised (service.py:46-52, router.py:131).
THEOREM DanglingCounted == Spec => []DanglingExplained
<1>1. IInv /\ CountInv => DanglingExplained
    <2>. SUFFICES ASSUME IInv, CountInv PROVE DanglingExplained
        OBVIOUS
    <2>1. tornCommits \in Nat
        BY LeadIntakeBounds DEF IInv, TypeOK
    <2>2. {q \in leads : ~Downloads(q)} \subseteq Torn
        BY DEF Torn
    <2>. QED
        BY <2>1, <2>2, StaysBelow DEF CountInv, DanglingExplained
<1>. QED
    BY <1>1, Counted, PTL

\* For each object that an answered request left without a lead a call of
\* the object store failed (service.py:46-52).
THEOREM OrphansCounted == Spec => []OrphansExplained
<1>1. IInv /\ CountInv => OrphansExplained
    <2>. SUFFICES ASSUME IInv, CountInv PROVE OrphansExplained
        OBVIOUS
    <2>1. storeFaults \in Nat
        BY LeadIntakeBounds DEF IInv, TypeOK
    <2>2. {q \in objects \ leads : step[q] = "answered"} \subseteq Left
        BY DEF Left
    <2>. QED
        BY <2>1, <2>2, StaysBelow DEF CountInv, OrphansExplained
<1>. QED
    BY <1>1, Counted, PTL

----------------------------------------------------------------------------
(* A visitor's leads, counted against lost answers *)

Owned(v) == {q \in leads : VisitorOf(q) = v}

\* The requests of a visitor that have stored a lead, or still may, and that
\* the form does not wait for, or that will be answered with an error.
GivenUp(v) ==
    {q \in Request :
        /\ VisitorOf(q) = v
        /\ q \in leads \/ step[q] \in {"received", "put", "insert"}
        /\ ~Awaited(q) \/ (q \in leads /\ step[q] \in {"cleanup", "error"})}

Thanks(v) == IF form[v] = "thanks" THEN 1 ELSE 0

Losses == lostAnswers + crashes + tornCommits

Allowed(v) == Losses + Thanks(v)

\* For each of them there is a loss, but for the lead the visitor was
\* thanked for.
GivenUpIsCounted(v) == IsFiniteSet(GivenUp(v)) /\ Cardinality(GivenUp(v)) <= Allowed(v)

GivenUpInv == \A v \in Visitors : GivenUpIsCounted(v)

AllowedType == \A v \in Visitors : Allowed(v) \in Nat
\* The bounds are numbers, before a step and after it.
LEMMA AllowedIsNat == TypeOK => AllowedType
BY LeadIntakeBounds DEF TypeOK, AllowedType, Allowed, Losses, Thanks
LEMMA AllowedIsNatNext == TypeOK' => AllowedType'
BY AllowedIsNat, PTL

\* What a step may do to a visitor's requests: one more is given up only by
\* a loss or with a thank-you.
LEMMA GivenUpStep ==
    ASSUME TypeOK, TypeOK', NEW v \in Visitors, GivenUpIsCounted(v),
           \/ GivenUp(v)' \subseteq GivenUp(v) /\ Allowed(v)' >= Allowed(v)
           \/ (\E q : GivenUp(v)' \subseteq GivenUp(v) \cup {q}) /\ Allowed(v)' >= Allowed(v) + 1
    PROVE  GivenUpIsCounted(v)'
<1>1. Allowed(v) \in Nat /\ Allowed(v)' \in Nat
    BY AllowedIsNat, AllowedIsNatNext DEF AllowedType
<1>2. /\ \A T : T \subseteq GivenUp(v) =>
            IsFiniteSet(T) /\ Cardinality(T) <= Allowed(v)
      /\ \A T, q : T \subseteq GivenUp(v) \cup {q} =>
            IsFiniteSet(T) /\ Cardinality(T) <= Allowed(v) + 1
    <2>1. IsFiniteSet(GivenUp(v)) /\ Cardinality(GivenUp(v)) <= Allowed(v)
        BY DEF GivenUpIsCounted
    <2>. QED
        BY <1>1, <2>1, StaysBelow
<1>3. CASE GivenUp(v)' \subseteq GivenUp(v) /\ Allowed(v)' >= Allowed(v)
    <2>1. IsFiniteSet(GivenUp(v)') /\ Cardinality(GivenUp(v)') <= Allowed(v)
        BY <1>2, <1>3
    <2>2. Cardinality(GivenUp(v)') \in Nat
        BY <2>1, FS_CardinalityType
    <2>. QED
        BY <1>1, <1>3, <2>1, <2>2 DEF GivenUpIsCounted
<1>4. CASE (\E q : GivenUp(v)' \subseteq GivenUp(v) \cup {q}) /\ Allowed(v)' >= Allowed(v) + 1
    <2>1. IsFiniteSet(GivenUp(v)') /\ Cardinality(GivenUp(v)') <= Allowed(v) + 1
        BY <1>2, <1>4
    <2>2. Cardinality(GivenUp(v)') \in Nat
        BY <2>1, FS_CardinalityType
    <2>. QED
        BY <1>1, <1>4, <2>1, <2>2 DEF GivenUpIsCounted
<1>. QED
    BY <1>3, <1>4

\* A bound grows with the counters it is made of.
LEMMA AllowedGrows ==
    ASSUME TypeOK, TypeOK', NEW v \in Visitors,
           lostAnswers' >= lostAnswers, crashes' >= crashes, tornCommits' >= tornCommits,
           form[v] = "thanks" => form'[v] = "thanks"
    PROVE  /\ Allowed(v)' >= Allowed(v)
           /\ \/ lostAnswers' > lostAnswers \/ crashes' > crashes \/ tornCommits' > tornCommits
              \/ form[v] # "thanks" /\ form'[v] = "thanks"
              => Allowed(v)' >= Allowed(v) + 1
<1>1. /\ lostAnswers \in Nat /\ crashes \in Nat /\ tornCommits \in Nat
      /\ lostAnswers' \in Nat /\ crashes' \in Nat /\ tornCommits' \in Nat
    BY LeadIntakeBounds DEF TypeOK
<1>2. /\ Thanks(v) \in Nat /\ Thanks(v)' \in Nat /\ Thanks(v)' >= Thanks(v)
      /\ form[v] # "thanks" /\ form'[v] = "thanks" => Thanks(v)' > Thanks(v)
    BY DEF Thanks
<1>3. \A a, b, c, d, x, y, z, w \in Nat :
          x >= a /\ y >= b /\ z >= c /\ w >= d =>
              /\ x + y + z + w >= a + b + c + d
              /\ x > a \/ y > b \/ z > c \/ w > d => x + y + z + w >= a + b + c + d + 1
    OBVIOUS
<1>4. /\ lostAnswers' + crashes' + tornCommits' + Thanks(v)'
            >= lostAnswers + crashes + tornCommits + Thanks(v)
      /\ \/ lostAnswers' > lostAnswers \/ crashes' > crashes \/ tornCommits' > tornCommits
         \/ Thanks(v)' > Thanks(v)
         => lostAnswers' + crashes' + tornCommits' + Thanks(v)'
                >= lostAnswers + crashes + tornCommits + Thanks(v) + 1
    BY <1>1, <1>2, <1>3
<1>. QED
    BY <1>2, <1>4 DEF Allowed, Losses

\* The steps of a handler.
LEMMA HandleGivenUp ==
    ASSUME IInv, TypeOK', GivenUpInv, NEW q \in Request, Handle(q) \/ Dispatch(q)
    PROVE  GivenUpInv'
<1>. DEFINE v == VisitorOf(q)
<1>0. TypeOK /\ StepTells /\ v \in Visitors
    BY DEF IInv, Request, VisitorOf
<1>1. /\ \A p \in Request : p # q => step'[p] = step[p]
      /\ leads' = leads \/ leads' = leads \cup {q}
      /\ \A u \in Visitors : u # v => form'[u] = form[u]
      /\ tries' = tries /\ crashes' = crashes
    BY <1>0
    DEF Handle, Refuse, Decoy, Accept, Put, PutFault, Insert, InsertFault,
        TornCommit, Cleanup, CleanupFault, Queue, Answer, LoseAnswer,
        Dispatch, Goto, TypeOK, stores, faults
<1>2. /\ lostAnswers' >= lostAnswers /\ crashes' >= crashes /\ tornCommits' >= tornCommits
      /\ \A u \in Visitors : form[u] = "thanks" => form'[u] = "thanks"
    BY <1>0, LeadIntakeBounds
    DEF Handle, Refuse, Decoy, Accept, Put, PutFault, Insert, InsertFault,
        TornCommit, Cleanup, CleanupFault, Queue, Answer, LoseAnswer, Awaited,
        Dispatch, Goto, TypeOK, faults
<1>3. \A u \in Visitors : Allowed(u)' >= Allowed(u)
    BY <1>0, <1>2, AllowedGrows
<1>4. ASSUME NEW u \in Visitors, u # v PROVE GivenUpIsCounted(u)'
    <2>1. \A p \in Request : VisitorOf(p) = u =>
            p # q /\ (p \in leads' <=> p \in leads) /\ step'[p] = step[p] /\ (Awaited(p)' <=> Awaited(p))
        BY <1>1, <1>4 DEF Awaited, Last
    <2>2. GivenUp(u)' = GivenUp(u)
        BY <2>1 DEF GivenUp
    <2>. QED
        BY <1>0, <1>3, <2>2, GivenUpStep DEF GivenUpInv
<1>5. ASSUME GivenUp(v)' \subseteq GivenUp(v) PROVE GivenUpIsCounted(v)'
    BY <1>0, <1>3, <1>5, GivenUpStep DEF GivenUpInv
<1>6. ASSUME GivenUp(v)' \subseteq GivenUp(v) \cup {q},
             \/ lostAnswers' > lostAnswers \/ tornCommits' > tornCommits
             \/ form[v] # "thanks" /\ form'[v] = "thanks"
      PROVE  GivenUpIsCounted(v)'
    <2>1. Allowed(v)' >= Allowed(v) + 1
        BY <1>0, <1>2, <1>6, AllowedGrows
    <2>. QED
        BY <1>0, <1>6, <2>1, GivenUpStep DEF GivenUpInv
<1>7. GivenUpIsCounted(v)'
    <2>1. CASE /\ Handle(q) \/ Dispatch(q)
               /\ ~TornCommit(q) /\ ~Answer(q) /\ ~LoseAnswer(q)
        <3>1. form' = form
            BY <2>1 DEF Handle, Refuse, Decoy, Accept, Put, PutFault, Insert, InsertFault,
                        Cleanup, CleanupFault, Queue, Dispatch
        <3>2. \A p \in Request : Awaited(p)' <=> Awaited(p)
            BY <1>1, <3>1 DEF Awaited, Last
        <3>3. /\ q \in leads' \/ step'[q] \in {"received", "put", "insert"}
                 => q \in leads \/ step[q] \in {"received", "put", "insert"}
              /\ q \in leads' /\ step'[q] \in {"cleanup", "error"}
                 => q \in leads /\ step[q] \in {"cleanup", "error"}
            BY <1>0, <2>1
            DEF Handle, Refuse, Decoy, Accept, Put, PutFault, Insert, InsertFault,
                Cleanup, CleanupFault, Queue, Dispatch, Goto, TypeOK, stores, StepTells
        <3>4. GivenUp(v)' \subseteq GivenUp(v)
            BY <1>1, <3>2, <3>3 DEF GivenUp
        <3>. QED
            BY <1>5, <3>4
    <2>2. CASE TornCommit(q)
        <3>1. \A p \in Request : Awaited(p)' <=> Awaited(p)
            BY <1>1, <2>2 DEF Awaited, Last, TornCommit
        <3>2. GivenUp(v)' \subseteq GivenUp(v) \cup {q}
            BY <1>1, <3>1 DEF GivenUp
        <3>3. tornCommits' > tornCommits
            BY <1>0, <2>2, LeadIntakeBounds DEF TornCommit, TypeOK
        <3>. QED
            BY <1>6, <3>2, <3>3
    <2>3. CASE LoseAnswer(q)
        <3>1. \A p \in Request : p # q /\ VisitorOf(p) = v => ~Awaited(p)
            BY <2>3 DEF LoseAnswer, Awaited
        <3>2. step' = step /\ leads' = leads
            BY <2>3 DEF LoseAnswer, stores
        <3>3. GivenUp(v)' \subseteq GivenUp(v) \cup {q}
            BY <3>1, <3>2 DEF GivenUp
        <3>4. lostAnswers' > lostAnswers
            BY <1>0, <2>3, LeadIntakeBounds DEF LoseAnswer, TypeOK
        <3>. QED
            BY <1>6, <3>3, <3>4
    <2>4. CASE Answer(q) /\ ~Awaited(q)
        <3>1. /\ form' = form /\ leads' = leads /\ step'[q] = "answered"
              /\ \A p \in Request : Awaited(p)' <=> Awaited(p)
            BY <1>0, <1>1, <2>4 DEF Answer, Awaited, Last, TypeOK, stores
        <3>2. GivenUp(v)' \subseteq GivenUp(v)
            BY <1>1, <2>4, <3>1 DEF GivenUp
        <3>. QED
            BY <1>5, <3>2
    <2>5. CASE Answer(q) /\ Awaited(q)
        <3>1. \A p \in Request : p # q /\ VisitorOf(p) = v => ~Awaited(p)
            BY <2>5 DEF Awaited
        <3>2. step'[q] = "answered" /\ leads' = leads /\ form[v] # "thanks"
            BY <1>0, <2>5 DEF Answer, Awaited, TypeOK, stores
        <3>3. GivenUp(v)' \subseteq GivenUp(v) \cup {q}
            BY <1>1, <3>1, <3>2 DEF GivenUp
        <3>4. CASE step[q] \in {"created", "decoy"}
            <4>1. form'[v] = "thanks"
                BY <1>0, <2>5, <3>4 DEF Answer, Outcome, TypeOK
            <4>. QED
                BY <1>6, <3>2, <3>3, <4>1
        <3>5. CASE step[q] \notin {"created", "decoy"}
            <4>1. q \in leads' => q \in leads /\ step[q] = "error"
                BY <1>0, <2>5, <3>2, <3>5 DEF Answer, Decided, StepTells
            <4>2. GivenUp(v)' \subseteq GivenUp(v)
                BY <3>2, <3>3, <4>1 DEF GivenUp
            <4>. QED
                BY <1>5, <4>2
        <3>. QED
            BY <3>4, <3>5
    <2>. QED
        BY <2>1, <2>2, <2>3, <2>4, <2>5
<1>. QED
    BY <1>4, <1>7 DEF GivenUpInv

\* Every other step.
LEMMA OtherGivenUp ==
    ASSUME IInv, TypeOK', GivenUpInv,
           (\E v \in Visitors : Submit(v)) \/ Crash \/ Idle \/ UNCHANGED vars
    PROVE  GivenUpInv'
<1>0. TypeOK /\ lostAnswers \in Nat /\ crashes \in Nat /\ tornCommits \in Nat
    BY LeadIntakeBounds DEF IInv, TypeOK
<1>1. ASSUME NEW v \in Visitors, Submit(v)
      PROVE  GivenUpInv'
    <2>0. PICK q \in Request : q = <<v, tries[v] + 1>>
        BY <1>0, <1>1, LeadIntakeBounds DEF Submit, Request, TypeOK
    <2>1. step[q] = "unsent" /\ VisitorOf(q) = v /\ q \notin leads
        BY <1>0, <1>1, <2>0, LeadIntakeBounds
        DEF Submit, IInv, FreshTries, StepTells, TypeOK, VisitorOf
    <2>2. /\ UNCHANGED <<leads, tornCommits, lostAnswers, crashes>>
          /\ form[v] = "editing" /\ form'[v] = "submitting" /\ tries'[v] = tries[v] + 1
          /\ \A u \in Visitors : u # v => form'[u] = form[u] /\ tries'[u] = tries[u]
          /\ \A p \in Request : p # q => step'[p] = step[p]
        BY <1>0, <1>1, <2>0 DEF Submit, TypeOK, stores, background, faults
    <2>3. Awaited(q)' /\ \A p \in Request : p # q => (Awaited(p)' <=> Awaited(p))
        <3>1. Awaited(q)'
            BY <2>0, <2>1, <2>2 DEF Awaited, Last
        <3>2. ASSUME NEW p \in Request, p # q PROVE Awaited(p)' <=> Awaited(p)
            <4>1. VisitorOf(p) \in Visitors
                BY DEF Request, VisitorOf
            <4>2. CASE VisitorOf(p) = v
                <5>1. p # Last(v)'
                    BY <2>0, <2>2, <3>2 DEF Last
                <5>. QED
                    BY <2>2, <4>2, <5>1 DEF Awaited
            <4>3. CASE VisitorOf(p) # v
                BY <2>2, <4>1, <4>3 DEF Awaited, Last
            <4>. QED
                BY <4>2, <4>3
        <3>. QED
            BY <3>1, <3>2
    <2>4. ASSUME NEW u \in Visitors PROVE GivenUpIsCounted(u)'
        <3>1. q \notin GivenUp(u)'
            BY <2>1, <2>2, <2>3 DEF GivenUp
        <3>2. GivenUp(u)' \subseteq GivenUp(u)
            BY <2>2, <2>3, <3>1 DEF GivenUp
        <3>3. Allowed(u)' >= Allowed(u)
            BY <1>0, <2>2, AllowedGrows
        <3>. QED
            BY <1>0, <3>2, <3>3, GivenUpStep DEF GivenUpInv
    <2>. QED
        BY <2>4 DEF GivenUpInv
<1>2. CASE Crash
    <2>1. /\ UNCHANGED <<leads, tries, tornCommits, lostAnswers>> /\ crashes' = crashes + 1
          /\ \A q \in Request : step'[q] \in {step[q], "dead"}
          /\ \A u \in Visitors : form[u] = "thanks" => form'[u] = "thanks"
        BY <1>0, <1>2 DEF Crash, FetchThrows, stores, TypeOK
    <2>2. ASSUME NEW u \in Visitors PROVE GivenUpIsCounted(u)'
        <3>1. \A p \in Request : VisitorOf(p) = u /\ p # Last(u) => ~Awaited(p)
            BY DEF Awaited
        <3>2. GivenUp(u)' \subseteq GivenUp(u) \cup {Last(u)}
            BY <2>1, <3>1 DEF GivenUp
        <3>3. Allowed(u)' >= Allowed(u) + 1
            BY <1>0, <2>1, AllowedGrows
        <3>. QED
            BY <1>0, <3>2, <3>3, GivenUpStep DEF GivenUpInv
    <2>. QED
        BY <2>2 DEF GivenUpInv
<1>3. CASE Idle \/ UNCHANGED vars
    BY <1>3 DEF Idle, vars, GivenUpInv, GivenUpIsCounted, GivenUp, Allowed, Thanks, Losses,
                Awaited, Last
<1>. QED
    BY <1>1, <1>2, <1>3

\* For each lead of a visitor but one a connection was lost, at any moment of
\* the request, the process died, or a commit took effect and raised
\* (LeadForm.tsx:48-68).
THEOREM SecondLeadsCounted == Spec => []SecondLeadExplained
<1>1. Init => GivenUpInv
    <2>. SUFFICES ASSUME Init, NEW v \in Visitors PROVE GivenUpIsCounted(v)
        BY DEF GivenUpInv
    <2>1. GivenUp(v) = {} /\ Allowed(v) = 0
        BY DEF Init, GivenUp, Allowed, Losses, Thanks
    <2>. QED
        BY <2>1, FS_EmptySet DEF GivenUpIsCounted
<1>2. IInv /\ TypeOK' /\ GivenUpInv /\ [Next]_vars => GivenUpInv'
    BY HandleGivenUp, OtherGivenUp DEF Next
<1>3. IInv /\ GivenUpInv => SecondLeadExplained
    <2>. SUFFICES ASSUME IInv, GivenUpInv, NEW v \in Visitors
                  PROVE  Cardinality(Owned(v)) <= 1 + Losses
        BY LeadIntakeBounds DEF SecondLeadExplained, Owned, Losses, IInv, TypeOK
    <2>0. TypeOK /\ Losses \in Nat
        BY LeadIntakeBounds DEF IInv, TypeOK, Losses
    <2>1. IsFiniteSet(GivenUp(v)) /\ Cardinality(GivenUp(v)) <= Allowed(v)
        BY DEF GivenUpInv, GivenUpIsCounted
    <2>2. Owned(v) \subseteq GivenUp(v) \cup {Last(v)}
        BY <2>0 DEF Owned, GivenUp, Awaited, TypeOK
    <2>3. CASE form[v] = "thanks"
        <3>1. Owned(v) \subseteq GivenUp(v)
            BY <2>0, <2>3 DEF Owned, GivenUp, Awaited, TypeOK
        <3>2. Cardinality(GivenUp(v)) <= 1 + Losses /\ 1 + Losses \in Nat
            BY <2>0, <2>1, <2>3 DEF Allowed, Thanks
        <3>. QED
            BY <2>1, <3>1, <3>2, StaysBelow
    <2>4. CASE form[v] # "thanks"
        <3>1. Cardinality(GivenUp(v)) <= Losses
            BY <2>0, <2>1, <2>4 DEF Allowed, Thanks
        <3>2. Cardinality(Owned(v)) <= Losses + 1
            BY <2>0, <2>1, <2>2, <3>1, StaysBelow
        <3>. QED
            BY <2>0, <3>2
    <2>. QED
        BY <2>3, <2>4
<1>. QED
    BY <1>1, <1>2, <1>3, InductiveInvariant, TypeCorrect, PTL DEF Spec

----------------------------------------------------------------------------
(* Leads nobody is told about, and forms that wait *)

\* Leads whose dispatch has not started and is not to start either.
Silent == {q \in leads : q \notin tasks \cup dispatched /\ step[q] # "queue"}

SilentInv ==
    crashes = 0 => IsFiniteSet(Silent) /\ Cardinality(Silent) <= tornCommits

\* Every step of a handler keeps the bound: of the leads that are committed
\* only those of torn commits do not get to the queue.
LEMMA HandleSilent ==
    ASSUME IInv, SilentInv, NEW q \in Request, Handle(q) \/ Dispatch(q)
    PROVE  SilentInv'
<1>0. TypeOK /\ leads \subseteq Request /\ UNCHANGED crashes
    BY DEF IInv, TypeOK, Handle, Refuse, Decoy, Accept, Put, PutFault, Insert, InsertFault,
           TornCommit, Cleanup, CleanupFault, Queue, Answer, LoseAnswer, Dispatch,
           faults
<1>1. \A p \in Request : p # q => step'[p] = step[p]
    BY <1>0
    DEF Handle, Refuse, Decoy, Accept, Put, PutFault, Insert, InsertFault,
        TornCommit, Cleanup, CleanupFault, Queue, Answer, LoseAnswer,
        Dispatch, Goto, TypeOK
<1>2. CASE TornCommit(q)
    <2>1. Silent' \subseteq Silent \cup {q} /\ tornCommits' = tornCommits + 1
        BY <1>0, <1>1, <1>2 DEF TornCommit, Silent, background
    <2>2. tornCommits \in Nat
        BY <1>0, LeadIntakeBounds DEF TypeOK
    <2>. QED
        BY <1>0, <2>1, <2>2, StaysBelow DEF SilentInv
<1>3. CASE ~TornCommit(q)
    <2>1. UNCHANGED tornCommits
        BY <1>3
        DEF Handle, Refuse, Decoy, Accept, Put, PutFault, Insert, InsertFault,
            Cleanup, CleanupFault, Queue, Answer, LoseAnswer, Dispatch, faults
    <2>2. Silent' \subseteq Silent
        <3>. USE <1>0, <1>1 DEF Goto, Silent, stores, background, TypeOK
        <3>1. CASE Refuse(q) \/ Decoy(q) \/ Accept(q) \/ Put(q) \/ PutFault(q)
            BY <3>1 DEF Refuse, Decoy, Accept, Put, PutFault
        <3>2. CASE Insert(q) \/ InsertFault(q)
            BY <3>2 DEF Insert, InsertFault
        <3>3. CASE Cleanup(q) \/ CleanupFault(q)
            BY <3>3 DEF Cleanup, CleanupFault
        <3>4. CASE Queue(q)
            BY <3>4 DEF Queue
        <3>5. CASE Answer(q) \/ LoseAnswer(q)
            BY <3>5 DEF Answer, LoseAnswer, Decided
        <3>6. CASE Dispatch(q)
            BY <3>6 DEF Dispatch
        <3>. QED
            BY <1>3, <3>1, <3>2, <3>3, <3>4, <3>5, <3>6 DEF Handle
    <2>3. tornCommits \in Nat
        BY <1>0, LeadIntakeBounds DEF TypeOK
    <2>. QED
        BY <1>0, <2>1, <2>2, <2>3, StaysBelow DEF SilentInv
<1>. QED
    BY <1>2, <1>3

\* Every other step keeps the bound.
LEMMA OtherSilent ==
    ASSUME IInv, SilentInv,
           (\E v \in Visitors : Submit(v)) \/ Crash \/ Idle \/ UNCHANGED vars
    PROVE  SilentInv'
<1>0. TypeOK /\ leads \subseteq Request
    BY DEF IInv, TypeOK
<1>1. ASSUME NEW v \in Visitors, Submit(v)
      PROVE  SilentInv'
    <2>. DEFINE q == <<v, tries[v] + 1>>
    <2>1. q \in Request /\ step[q] = "unsent"
        BY <1>0, <1>1, LeadIntakeBounds DEF Submit, Request, IInv, FreshTries, TypeOK
    <2>2. /\ UNCHANGED <<leads, tasks, dispatched, tornCommits, crashes>>
          /\ \A p \in Request : p # q => step'[p] = step[p]
        BY <1>0, <1>1, <2>1 DEF Submit, TypeOK, stores, background, faults
    <2>3. q \notin leads
        BY <2>1 DEF IInv, StepTells
    <2>4. Silent' = Silent
        BY <1>0, <2>2, <2>3 DEF Silent
    <2>. QED
        BY <2>2, <2>4 DEF SilentInv
<1>2. CASE Crash
    BY <1>0, <1>2, LeadIntakeBounds DEF Crash, FetchThrows, SilentInv, TypeOK
<1>3. CASE Idle \/ UNCHANGED vars
    BY <1>3 DEF Idle, vars, SilentInv, Silent
<1>. QED
    BY <1>1, <1>2, <1>3

\* As long as the process lives, the only leads about which nobody will be
\* told are those whose commit took effect and raised: the visitor saw an
\* error, and no task was queued (service.py:46-53, router.py:90).
THEOREM SilentLeadsCounted ==
    Spec => [](crashes = 0 => Cardinality(Silent) <= tornCommits)
<1>1. Init => SilentInv
    <2>. SUFFICES ASSUME Init PROVE SilentInv
        OBVIOUS
    <2>1. Silent = {} /\ tornCommits = 0
        BY DEF Init, Silent
    <2>. QED
        BY <2>1, FS_EmptySet DEF SilentInv
<1>2. IInv /\ SilentInv /\ [Next]_vars => SilentInv'
    BY HandleSilent, OtherSilent DEF Next
<1>3. SilentInv => (crashes = 0 => Cardinality(Silent) <= tornCommits)
    BY DEF SilentInv
<1>. QED
    BY <1>1, <1>2, <1>3, InductiveInvariant, PTL DEF Spec

\* A form that waits has a request with the process, or its answer on the way.
FormAwaits ==
    \A v \in Visitors :
        form[v] = "submitting" => Last(v) \in Request /\ step[Last(v)] \in Handling \cup Decided

\* A step of a handler takes the request on, or the form out of its wait.
LEMMA HandleAwaits ==
    ASSUME TypeOK, TypeOK', FormAwaits, NEW q \in Request, Handle(q) \/ Dispatch(q)
    PROVE  FormAwaits'
<1>1. UNCHANGED tries /\ \A p \in Request : p # q => step'[p] = step[p]
    BY DEF Handle, Refuse, Decoy, Accept, Put, PutFault, Insert, InsertFault,
           TornCommit, Cleanup, CleanupFault, Queue, Answer, LoseAnswer,
           Dispatch, Goto, TypeOK
<1>2. CASE Answer(q) \/ LoseAnswer(q)
    <2>1. VisitorOf(q) \in Visitors /\ ~Awaited(q)'
        BY <1>1, <1>2, VisitorType DEF Answer, LoseAnswer, Outcome, Awaited, Last, TypeOK
    <2>2. \A v \in Visitors : form'[v] = "submitting" => form[v] = "submitting"
        BY <1>2, <2>1 DEF Answer, LoseAnswer, Outcome, TypeOK
    <2>3. \A v \in Visitors : form'[v] = "submitting" => Last(v) # q
        BY <1>1, <2>1 DEF Awaited, Last, VisitorOf
    <2>. QED
        BY <1>1, <2>2, <2>3 DEF FormAwaits, Last
<1>3. CASE Dispatch(q)
    BY <1>3 DEF Dispatch, FormAwaits, Last
<1>4. CASE Handle(q) /\ ~Answer(q) /\ ~LoseAnswer(q)
    <2>1. UNCHANGED form
        BY <1>4 DEF Handle, Refuse, Decoy, Accept, Put, PutFault, Insert, InsertFault,
                    TornCommit, Cleanup, CleanupFault, Queue
    <2>2. step'[q] \in Handling \cup Decided
        BY <1>4 DEF Handle, Refuse, Decoy, Accept, Put, PutFault, Insert, InsertFault,
                    TornCommit, Cleanup, CleanupFault, Queue, Goto, Handling, Decided, TypeOK
    <2>. QED
        BY <1>1, <2>1, <2>2 DEF FormAwaits, Last
<1>. QED
    BY <1>2, <1>3, <1>4

\* Every other step either sends a request, or ends the wait of all forms.
LEMMA OtherAwaits ==
    ASSUME TypeOK, FormAwaits,
           (\E v \in Visitors : Submit(v)) \/ Crash \/ Idle \/ UNCHANGED vars
    PROVE  FormAwaits'
<1>1. ASSUME NEW v \in Visitors, Submit(v)
      PROVE  FormAwaits'
    <2>. DEFINE q == <<v, tries[v] + 1>>
    <2>1. q \in Request /\ Last(v)' = q /\ step'[q] = "received"
        BY <1>1, LeadIntakeBounds DEF Submit, Request, Last, TypeOK
    <2>2. \A u \in Visitors : u # v =>
            form'[u] = form[u] /\ Last(u)' = Last(u) /\ step'[Last(u)] = step[Last(u)]
        BY <1>1 DEF Submit, Last, TypeOK
    <2>. QED
        BY <2>1, <2>2 DEF FormAwaits, Handling
<1>2. CASE Crash
    BY <1>2 DEF Crash, FetchThrows, FormAwaits, TypeOK
<1>3. CASE Idle \/ UNCHANGED vars
    BY <1>3 DEF Idle, vars, FormAwaits, Last
<1>. QED
    BY <1>1, <1>2, <1>3

\* No form is left waiting for nothing: while it says "Submitting..." the
\* process works on its request, or an answer is on the way, whatever fails
\* and whenever the process dies (LeadForm.tsx:48-68).
THEOREM FormsAreAwaited == Spec => []FormAwaits
<1>1. Init => FormAwaits
    BY DEF Init, FormAwaits
<1>2. TypeOK /\ TypeOK' /\ FormAwaits /\ [Next]_vars => FormAwaits'
    BY HandleAwaits, OtherAwaits DEF Next
<1>. QED
    BY <1>1, <1>2, TypeCorrect, PTL DEF Spec

=============================================================================
