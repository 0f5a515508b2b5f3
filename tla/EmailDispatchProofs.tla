------------------------ MODULE EmailDispatchProofs ------------------------
(***************************************************************************)
(* Proofs about EmailDispatch, for any number of calls, wanted pairs,      *)
(* attempts and faults.                                                    *)
(***************************************************************************)
EXTENDS EmailDispatch, FiniteSetTheorems, TLAPS

----------------------------------------------------------------------------
(* Type correctness *)

\* Initially every variable has its type.
LEMMA InitTypeOK == Init => TypeOK
BY MaxAttemptsAssumption, BoundsAssumption
DEF Init, TypeOK, PC, RowId, Task, NoTask, Row, NoRow, Status, Phase, Running

\* What a task assigns to its row, and what the session then flushes, is a row.
LEMMA FlushType ==
    ASSUME NEW t \in Task, NEW row \in Row
    PROVE  /\ Outcome(t) \in Row
           /\ Flush(row, t.cached, Outcome(t)) \in Row
BY MaxAttemptsAssumption DEF Outcome, Flush, Task, Row, Status

\* The loop leaves a task, with an attempt number within bounds.
LEMMA ContinueType ==
    ASSUME NEW t \in Task
    PROVE  Continue(t) \in Task
<1>1. Outcome(t) \in Row
    BY MaxAttemptsAssumption DEF Outcome, Task, Row, Status
<1>. QED
    BY <1>1, MaxAttemptsAssumption DEF Continue, Task, Phase, Running

\* One new phase of one task leaves every task a task.
LEMMA SetPhaseType ==
    ASSUME TypeOK, NEW w \in Workers, NEW r \in RowId, NEW p \in Phase
    PROVE  [task EXCEPT ![w][r].phase = p] \in [Workers -> [RowId -> Task]]
<1>1. [task[w][r] EXCEPT !.phase = p] \in Task
    BY DEF TypeOK, Task
<1>2. task[w] \in [RowId -> Task] /\ task \in [Workers -> [RowId -> Task]]
    BY DEF TypeOK
<1>. QED
    BY <1>1, <1>2

\* The table keeps its type when a task commits.
LEMMA RecordedType ==
    ASSUME TypeOK, NEW w \in Workers, NEW r \in RowId
    PROVE  Recorded(w, r) \in [RowId -> Row]
<1>1. task[w][r] \in Task /\ table[r] \in Row
    BY DEF TypeOK
<1>2. Flush(table[r], task[w][r].cached, Outcome(task[w][r])) \in Row
    BY <1>1, FlushType
<1>. QED
    BY <1>2 DEF Recorded, TypeOK

\* The table keeps its type when a call's rows are inserted.
LEMMA WithRowsType ==
    ASSUME TypeOK, NEW w \in Workers
    PROVE  WithRowsOf(w) \in [RowId -> Row]
BY MaxAttemptsAssumption DEF WithRowsOf, TypeOK, Row, NewRow, Status

\* A pair of a row is a wanted pair.
LEMMA KeyOfType == \A r \in RowId : KeyOf(r) \in Wanted
BY DEF RowId, KeyOf

\* Every step of a call keeps the types.
LEMMA CallStepType ==
    ASSUME TypeOK, NEW w \in Workers, CallStep(w)
    PROVE  TypeOK'
<1>1. CASE Acquire(w)
    BY <1>1 DEF Acquire, TypeOK, PC, mailVars, faultVars
<1>2. CASE LeadMissing(w)
    BY <1>2 DEF LeadMissing, TypeOK, PC, dbVars, mailVars, faultVars
<1>3. CASE ReadRows(w)
    BY <1>3 DEF ReadRows, TypeOK, PC, dbVars, mailVars, faultVars
<1>4. CASE CommitRows(w)
    <2>1. table' \in [RowId -> Row]
        BY <1>4, WithRowsType DEF CommitRows
    <2>2. NewTask \in Task
        BY MaxAttemptsAssumption
        DEF NewTask, Task, NoRow, Row, Status, Phase, Running
    <2>3. task' \in [Workers -> [RowId -> Task]]
        BY <1>4, <2>2 DEF CommitRows, TypeOK
    <2>. QED
        BY <1>4, <2>1, <2>3 DEF CommitRows, TypeOK, PC, mailVars, faultVars
<1>5. CASE GatherDone(w)
    BY <1>5 DEF GatherDone, TypeOK, PC, dbVars, mailVars, faultVars
<1>6. CASE Unlock(w)
    BY <1>6 DEF Unlock, TypeOK, PC, mailVars, faultVars
<1>. QED
    BY <1>1, <1>2, <1>3, <1>4, <1>5, <1>6 DEF CallStep

\* Every step of a task keeps the types.
LEMMA DeliverStepType ==
    ASSUME TypeOK, NEW w \in Workers, NEW r \in RowId, DeliverStep(w, r)
    PROVE  TypeOK'
<1>. DEFINE Typed == task' \in [Workers -> [RowId -> Task]]
<1>1. /\ task[w][r] \in Task /\ task[w] \in [RowId -> Task]
      /\ table[r] \in Row /\ KeyOf(r) \in Wanted
    BY KeyOfType DEF TypeOK
<1>2. CASE Load(w, r)
    <2>1. [task[w][r] EXCEPT !.phase = "send", !.cached = table[r]] \in Task
        BY <1>1 DEF Task, Phase, Running
    <2>2. Typed
        BY <1>1, <1>2, <2>1 DEF Load, TypeOK
    <2>. QED
        BY <1>2, <2>2 DEF Load, TypeOK, dbVars, mailVars, faultVars
<1>3. CASE SendAccepted(w, r)
    <2>1. Typed
        BY <1>3, SetPhaseType DEF SendAccepted, Phase, Running
    <2>. QED
        BY <1>1, <1>3, <2>1 DEF SendAccepted, TypeOK, dbVars, faultVars
<1>4. CASE SendRefused(w, r)
    <2>1. Typed
        BY <1>4, SetPhaseType DEF SendRefused, Phase, Running
    <2>. QED
        BY <1>4, <2>1 DEF SendRefused, TypeOK, dbVars, mailVars, faultVars
<1>5. CASE SendAmbiguous(w, r)
    <2>1. Typed
        BY <1>5, SetPhaseType DEF SendAmbiguous, Phase, Running
    <2>2. ambiguous' \in [Wanted -> 0 .. MaxAmbiguous]
        BY <1>1, <1>5, BoundsAssumption DEF SendAmbiguous, TypeOK
    <2>. QED
        BY <1>1, <1>5, <2>1, <2>2 DEF SendAmbiguous, TypeOK, dbVars, faultVars
<1>6. CASE Record(w, r)
    <2>1. Continue(task[w][r]) \in Task
        BY <1>1, ContinueType
    <2>2. Typed
        BY <1>1, <1>6, <2>1 DEF Record, TypeOK
    <2>3. table' \in [RowId -> Row]
        BY <1>6, RecordedType DEF Record
    <2>. QED
        BY <1>6, <2>2, <2>3 DEF Record, TypeOK, mailVars, faultVars
<1>. QED
    BY <1>2, <1>3, <1>4, <1>5, <1>6 DEF DeliverStep, Send

\* Every fault keeps the types.
LEMMA FaultType ==
    ASSUME TypeOK, NEW w \in Workers, Fault(w)
    PROVE  TypeOK'
<1>. USE BoundsAssumption
<1>1. CASE AcquireFault(w)
    BY <1>1 DEF AcquireFault, CountDbFault, TypeOK, PC, dbVars, mailVars
<1>2. CASE RowsFault(w)
    <2>1. table' \in [RowId -> Row]
        BY <1>2, WithRowsType DEF RowsFault, TypeOK
    <2>. QED
        BY <1>2, <2>1 DEF RowsFault, CountDbFault, TypeOK, PC, mailVars
<1>3. CASE LoseLock(w)
    BY <1>3 DEF LoseLock, TypeOK, mailVars
<1>4. CASE Crash(w)
    <2>1. NoTask \in Task
        BY MaxAttemptsAssumption DEF NoTask, Task, NoRow, Row, Status, Phase
    <2>2. task' \in [Workers -> [RowId -> Task]]
        BY <1>4, <2>1 DEF Crash, TypeOK
    <2>. QED
        BY <1>4, <2>2 DEF Crash, TypeOK, PC, mailVars
<1>5. ASSUME NEW r \in RowId, DeliveryFault(w, r)
      PROVE  TypeOK'
    <2>1. table' \in [RowId -> Row]
        BY <1>5, RecordedType DEF DeliveryFault, TypeOK
    <2>2. task' \in [Workers -> [RowId -> Task]]
        BY <1>5, SetPhaseType DEF DeliveryFault, Phase
    <2>. QED
        BY <1>5, <2>1, <2>2 DEF DeliveryFault, CountDbFault, TypeOK, PC, mailVars
<1>. QED
    BY <1>1, <1>2, <1>3, <1>4, <1>5 DEF Fault

\* Every variable keeps its type in every behaviour of the dispatch
\* (service.py: rows, tasks and the attempt counter of _deliver's loop).
THEOREM TypeCorrect == Spec => []TypeOK
<1>1. TypeOK /\ [Next]_vars => TypeOK'
    <2>. SUFFICES ASSUME TypeOK, [Next]_vars PROVE TypeOK'
        OBVIOUS
    <2>1. CASE Next
        BY <2>1, CallStepType, DeliverStepType, FaultType
        DEF Next, Terminated, vars, TypeOK
    <2>2. CASE UNCHANGED vars
        BY <2>2 DEF vars, TypeOK
    <2>. QED
        BY <2>1, <2>2
<1>. QED
    BY <1>1, InitTypeOK, PTL DEF Spec

----------------------------------------------------------------------------
(* Rows are never duplicated *)

\* A call that may still insert rows on the strength of what it read.
Guarded(w) == pc[w] \in {"read", "write"} /\ w \notin unguarded

\* Such a call holds the advisory lock.
GuardedHoldsLock == \A w \in Workers : Guarded(w) => lock = w

\* Before its row transaction commits, a call has no row.
NoRowYet ==
    \A w \in Workers : pc[w] \in {"start", "read", "write"} =>
        \A k \in Wanted : ~Present(<<w, k>>)

\* The plan of a guarded call stays right until it commits: where it is to
\* insert a row, no row of the pair has come up in the meantime.
PlanCurrent ==
    \A w \in Workers : (pc[w] = "write" /\ w \notin unguarded) =>
        \A k \in Wanted : plan[w][k] = <<w, k>> =>
            \A r \in RowId : Present(r) /\ KeyOf(r) = k => r[1] \in unguarded

\* A plan of reusing a row is about a row that is there.
PlanPresent ==
    \A w \in Workers : pc[w] = "write" =>
        \A r \in RowId : plan[w][KeyOf(r)] = r /\ r[1] # w => Present(r)

\* A task works on a row that is there.
TaskPresent ==
    \A w \in Workers : \A r \in RowId : task[w][r].phase \in Running => Present(r)

IInv ==
    /\ TypeOK
    /\ GuardedHoldsLock
    /\ NoRowYet
    /\ PlanCurrent
    /\ PlanPresent
    /\ TaskPresent
    /\ NoDuplicateRows

\* A row id names its call and its pair.
LEMMA RowIdParts ==
    /\ \A w \in Workers, k \in Wanted :
        <<w, k>> \in RowId /\ KeyOf(<<w, k>>) = k /\ <<w, k>>[1] = w
    /\ \A r \in RowId :
        r[1] \in Workers /\ KeyOf(r) \in Wanted /\ r = <<r[1], KeyOf(r)>>
BY DEF RowId, KeyOf

\* A task's commit adds no row and removes none.
LEMMA RecordKeepsRows ==
    ASSUME TypeOK, TaskPresent, NEW w \in Workers, NEW r \in RowId,
           task[w][r].phase \in {"failed", "sent"}, table' = Recorded(w, r)
    PROVE  \A s \in RowId : Present(s)' <=> Present(s)
<1>1. Present(r)
    BY DEF TaskPresent, Running
<1>2. table'[r] = Flush(table[r], task[w][r].cached, Outcome(task[w][r]))
    BY DEF Recorded, TypeOK
<1>3. Present(r)'
    BY <1>1, <1>2 DEF Present, Flush, Outcome
<1>4. \A s \in RowId : s # r => table'[s] = table[s]
    BY DEF Recorded, TypeOK
<1>. QED
    BY <1>1, <1>3, <1>4 DEF Present

\* A step under which no row comes or goes, no call returns to an earlier
\* stage and none gets a new plan, keeps what is known of rows and plans.
LEMMA SameRows ==
    ASSUME IInv, UNCHANGED plan, unguarded \subseteq unguarded',
           \A r \in RowId : Present(r)' <=> Present(r),
           \A w \in Workers :
               /\ pc'[w] \in {"start", "read", "write"} => pc[w] \in {"start", "read", "write"}
               /\ pc'[w] = "write" => pc[w] = "write"
    PROVE  NoRowYet' /\ PlanCurrent' /\ PlanPresent' /\ NoDuplicateRows'
<1>1. NoRowYet'
    BY RowIdParts DEF IInv, NoRowYet
<1>2. PlanCurrent'
    <2>. SUFFICES ASSUME NEW w \in Workers, pc'[w] = "write", w \notin unguarded',
                         NEW k \in Wanted, plan'[w][k] = <<w, k>>,
                         NEW r \in RowId, Present(r)', KeyOf(r) = k
                  PROVE  r[1] \in unguarded'
        BY DEF PlanCurrent
    <2>1. pc[w] = "write" /\ w \notin unguarded /\ plan[w][k] = <<w, k>> /\ Present(r)
        OBVIOUS
    <2>2. r[1] \in unguarded
        BY <2>1 DEF IInv, PlanCurrent
    <2>. QED
        BY <2>2
<1>3. PlanPresent'
    BY DEF IInv, PlanPresent
<1>4. NoDuplicateRows'
    BY DEF IInv, NoDuplicateRows
<1>. QED
    BY <1>1, <1>2, <1>3, <1>4

\* A step that inserts the rows of a call's plan: the pairs it inserts had
\* no row, so none has two now.
LEMMA InsertRows ==
    ASSUME IInv, NEW w \in Workers, pc[w] = "write",
           table' = WithRowsOf(w), UNCHANGED <<plan, unguarded, lock>>,
           pc'[w] \notin {"start", "read", "write"},
           \A v \in Workers \ {w} : pc'[v] = pc[v]
    PROVE  /\ NoRowYet' /\ PlanCurrent' /\ PlanPresent' /\ NoDuplicateRows'
           /\ \A r \in RowId : Present(r) => Present(r)'
           /\ \A r \in RowId : plan[w][KeyOf(r)] = r => Present(r)'
<1>1. \A r \in RowId : Present(r)' <=> (Present(r) \/ r \in Inserted(w))
    BY DEF Present, WithRowsOf, NewRow
<1>2. \A r \in Inserted(w) : r \in RowId /\ r[1] = w /\ r = <<w, KeyOf(r)>>
                             /\ plan[w][KeyOf(r)] = <<w, KeyOf(r)>>
    BY RowIdParts DEF Inserted
<1>3. \A v \in Workers : Guarded(v) => v = w \/ w \in unguarded
    BY DEF IInv, GuardedHoldsLock, Guarded
<1>4. NoRowYet'
    <2>. SUFFICES ASSUME NEW v \in Workers, pc'[v] \in {"start", "read", "write"},
                         NEW k \in Wanted
                  PROVE  ~Present(<<v, k>>)'
        BY DEF NoRowYet
    <2>1. v # w /\ ~Present(<<v, k>>) /\ <<v, k>> \in RowId
        BY RowIdParts DEF IInv, NoRowYet
    <2>. QED
        BY <1>1, <1>2, <2>1
<1>5. PlanCurrent'
    <2>. SUFFICES ASSUME NEW v \in Workers, pc'[v] = "write", v \notin unguarded,
                         NEW k \in Wanted, plan[v][k] = <<v, k>>,
                         NEW r \in RowId, Present(r)', KeyOf(r) = k
                  PROVE  r[1] \in unguarded
        BY DEF PlanCurrent
    <2>1. v # w /\ pc[v] = "write" /\ Guarded(v)
        BY DEF Guarded
    <2>2. CASE Present(r)
        BY <2>1, <2>2 DEF IInv, PlanCurrent
    <2>3. CASE r \in Inserted(w)
        BY <1>2, <1>3, <2>1, <2>3
    <2>. QED
        BY <1>1, <2>2, <2>3
<1>6. PlanPresent'
    BY <1>1 DEF IInv, PlanPresent
<1>7. NoDuplicateRows'
    <2>. SUFFICES ASSUME NEW r \in RowId, NEW s \in RowId, r # s,
                         KeyOf(r) = KeyOf(s), Present(r)', Present(s)'
                  PROVE  r[1] \in unguarded \/ s[1] \in unguarded
        BY DEF NoDuplicateRows
    <2>1. CASE Present(r) /\ Present(s)
        BY <2>1 DEF IInv, NoDuplicateRows
    <2>2. ASSUME NEW new \in Inserted(w), NEW old \in RowId,
                 KeyOf(new) = KeyOf(old), Present(old), w \notin unguarded
          PROVE  old[1] \in unguarded
        BY <1>2, <2>2, RowIdParts DEF IInv, PlanCurrent
    <2>3. ~(r \in Inserted(w) /\ s \in Inserted(w))
        BY <1>2
    <2>. QED
        BY <1>1, <1>2, <2>1, <2>2, <2>3
<1>8. \A r \in RowId : plan[w][KeyOf(r)] = r => Present(r)'
    BY <1>1, RowIdParts DEF IInv, PlanPresent, Inserted
<1>. QED
    BY <1>1, <1>4, <1>5, <1>6, <1>7, <1>8

\* Every step of a call keeps the invariant.
LEMMA CallStepInv ==
    ASSUME IInv, NEW w \in Workers, CallStep(w)
    PROVE  IInv'
<1>0. TypeOK' /\ TypeOK
    BY CallStepType DEF IInv
<1>1. CASE Acquire(w)
    <2>1. NoRowYet' /\ PlanCurrent' /\ PlanPresent' /\ NoDuplicateRows'
        BY <1>0, <1>1, SameRows DEF Acquire, TypeOK, faultVars, Present
    <2>2. GuardedHoldsLock'
        BY <1>0, <1>1, NoWorkerAssumption
        DEF Acquire, IInv, GuardedHoldsLock, Guarded, TypeOK, faultVars
    <2>3. TaskPresent'
        BY <1>1 DEF Acquire, IInv, TaskPresent, Present
    <2>. QED
        BY <1>0, <2>1, <2>2, <2>3 DEF IInv
<1>2. CASE LeadMissing(w)
    <2>1. NoRowYet' /\ PlanCurrent' /\ PlanPresent' /\ NoDuplicateRows'
        BY <1>0, <1>2, SameRows DEF LeadMissing, TypeOK, faultVars, dbVars, Present
    <2>2. GuardedHoldsLock'
        BY <1>0, <1>2
        DEF LeadMissing, IInv, GuardedHoldsLock, Guarded, TypeOK, faultVars, dbVars
    <2>3. TaskPresent'
        BY <1>2 DEF LeadMissing, IInv, TaskPresent, Present, dbVars
    <2>. QED
        BY <1>0, <2>1, <2>2, <2>3 DEF IInv
<1>3. CASE ReadRows(w)
    <2>1. /\ \A r \in RowId : Present(r)' <=> Present(r)
          /\ UNCHANGED <<task, unguarded, lock>>
          /\ \A v \in Workers \ {w} : pc'[v] = pc[v] /\ plan'[v] = plan[v]
          /\ pc[w] = "read" /\ pc'[w] = "write"
          /\ \A k \in Wanted : plan'[w][k] \in Choices(w, k)
        BY <1>0, <1>3 DEF ReadRows, TypeOK, dbVars, faultVars, Present
    <2>2. ASSUME NEW k \in Wanted, plan'[w][k] = <<w, k>>
          PROVE  RowsOf(k) = {}
        <3>1. ~Present(<<w, k>>)
            BY <2>1 DEF IInv, NoRowYet
        <3>2. <<w, k>> # Skip
            BY SkipAssumption
        <3>. QED
            BY <2>1, <2>2, <3>1, <3>2 DEF Choices, RowsOf
    <2>3. ASSUME NEW r \in RowId, plan'[w][KeyOf(r)] = r, r[1] # w
          PROVE  Present(r)
        <3>1. KeyOf(r) \in Wanted /\ r # Skip /\ r # <<w, KeyOf(r)>>
            BY <2>3, RowIdParts, SkipAssumption DEF RowId
        <3>. QED
            BY <2>1, <2>3, <3>1 DEF Choices, RowsOf
    <2>4. NoRowYet'
        BY <2>1, RowIdParts DEF IInv, NoRowYet
    <2>5. PlanCurrent'
        BY <2>1, <2>2 DEF IInv, PlanCurrent, RowsOf
    <2>6. PlanPresent'
        BY <2>1, <2>3 DEF IInv, PlanPresent
    <2>7. NoDuplicateRows' /\ TaskPresent'
        BY <2>1 DEF IInv, NoDuplicateRows, TaskPresent
    <2>8. GuardedHoldsLock'
        BY <2>1 DEF IInv, GuardedHoldsLock, Guarded
    <2>. QED
        BY <1>0, <2>4, <2>5, <2>6, <2>7, <2>8 DEF IInv
<1>4. CASE CommitRows(w)
    <2>1. /\ pc[w] = "write" /\ table' = WithRowsOf(w)
          /\ UNCHANGED <<plan, unguarded, lock>>
          /\ pc'[w] = "gather"
          /\ \A v \in Workers \ {w} : pc'[v] = pc[v] /\ task'[v] = task[v]
          /\ \A r \in RowId : task'[w][r] =
                IF plan[w][KeyOf(r)] = r THEN NewTask ELSE task[w][r]
        BY <1>0, <1>4 DEF CommitRows, TypeOK, faultVars
    <2>2. /\ NoRowYet' /\ PlanCurrent' /\ PlanPresent' /\ NoDuplicateRows'
          /\ \A r \in RowId : Present(r) => Present(r)'
          /\ \A r \in RowId : plan[w][KeyOf(r)] = r => Present(r)'
        BY <2>1, InsertRows
    <2>3. TaskPresent'
        BY <2>1, <2>2 DEF IInv, TaskPresent
    <2>4. GuardedHoldsLock'
        BY <2>1 DEF IInv, GuardedHoldsLock, Guarded
    <2>. QED
        BY <1>0, <2>2, <2>3, <2>4 DEF IInv
<1>5. CASE GatherDone(w)
    <2>1. NoRowYet' /\ PlanCurrent' /\ PlanPresent' /\ NoDuplicateRows'
        BY <1>0, <1>5, SameRows DEF GatherDone, TypeOK, faultVars, dbVars, Present
    <2>2. GuardedHoldsLock'
        BY <1>0, <1>5
        DEF GatherDone, IInv, GuardedHoldsLock, Guarded, TypeOK, faultVars, dbVars
    <2>3. TaskPresent'
        BY <1>5 DEF GatherDone, IInv, TaskPresent, Present, dbVars
    <2>. QED
        BY <1>0, <2>1, <2>2, <2>3 DEF IInv
<1>6. CASE Unlock(w)
    <2>1. NoRowYet' /\ PlanCurrent' /\ PlanPresent' /\ NoDuplicateRows'
        BY <1>0, <1>6, SameRows DEF Unlock, TypeOK, faultVars, Present
    <2>2. GuardedHoldsLock'
        BY <1>0, <1>6
        DEF Unlock, IInv, GuardedHoldsLock, Guarded, TypeOK, faultVars
    <2>3. TaskPresent'
        BY <1>6 DEF Unlock, IInv, TaskPresent, Present
    <2>. QED
        BY <1>0, <2>1, <2>2, <2>3 DEF IInv
<1>. QED
    BY <1>1, <1>2, <1>3, <1>4, <1>5, <1>6 DEF CallStep

\* A step of a task, or the fault of one, moves only that task: it runs
\* after the step only if it ran before.
LEMMA TaskMoves ==
    ASSUME TypeOK, NEW w \in Workers, NEW r \in RowId,
           DeliverStep(w, r) \/ DeliveryFault(w, r)
    PROVE  \A v \in Workers : \A s \in RowId :
               task'[v][s].phase \in Running => task[v][s].phase \in Running
<1>1. /\ task \in [Workers -> [RowId -> Task]] /\ task[w] \in [RowId -> Task]
      /\ task[w][r] \in Task
    BY DEF TypeOK
<1>2. task[w][r].phase \in Running
    BY DEF DeliverStep, Load, Send, SendAccepted, SendRefused, SendAmbiguous,
           Record, DeliveryFault, Running
<1>3. \A v \in Workers : \A s \in RowId :
          v # w \/ s # r => task'[v][s] = task[v][s]
    BY <1>1 DEF DeliverStep, Load, Send, SendAccepted, SendRefused, SendAmbiguous,
           Record, DeliveryFault
<1>. QED
    BY <1>2, <1>3

\* Every step of a task keeps the invariant.
LEMMA DeliverStepInv ==
    ASSUME IInv, NEW w \in Workers, NEW r \in RowId, DeliverStep(w, r)
    PROVE  IInv'
<1>0. TypeOK' /\ TypeOK
    BY DeliverStepType DEF IInv
<1>1. UNCHANGED <<lock, pc, plan, unguarded>>
    BY DEF DeliverStep, Load, Send, SendAccepted, SendRefused, SendAmbiguous,
           Record, dbVars, faultVars
<1>2. \A s \in RowId : Present(s)' <=> Present(s)
    <2>1. CASE Record(w, r)
        BY <1>0, <2>1, RecordKeepsRows DEF Record, IInv
    <2>2. CASE Load(w, r) \/ Send(w, r)
        BY <2>2 DEF Load, Send, SendAccepted, SendRefused, SendAmbiguous,
                    dbVars, Present
    <2>. QED
        BY <2>1, <2>2 DEF DeliverStep
<1>3. NoRowYet' /\ PlanCurrent' /\ PlanPresent' /\ NoDuplicateRows'
    BY <1>1, <1>2, SameRows
<1>4. GuardedHoldsLock'
    BY <1>1 DEF IInv, GuardedHoldsLock, Guarded
<1>5. TaskPresent'
    BY <1>0, <1>2, TaskMoves DEF IInv, TaskPresent
<1>. QED
    BY <1>0, <1>3, <1>4, <1>5 DEF IInv

\* Every fault keeps the invariant.
LEMMA FaultInv ==
    ASSUME IInv, NEW w \in Workers, Fault(w)
    PROVE  IInv'
<1>0. TypeOK' /\ TypeOK
    BY FaultType DEF IInv
<1>1. CASE AcquireFault(w)
    <2>1. /\ UNCHANGED <<lock, plan, table, task, unguarded>>
          /\ pc' = [pc EXCEPT ![w] = "raised"]
        BY <1>1 DEF AcquireFault, CountDbFault, dbVars
    <2>2. NoRowYet' /\ PlanCurrent' /\ PlanPresent' /\ NoDuplicateRows'
        BY <1>0, <2>1, SameRows DEF TypeOK, Present
    <2>3. GuardedHoldsLock' /\ TaskPresent'
        BY <1>0, <2>1
        DEF IInv, GuardedHoldsLock, Guarded, TypeOK, TaskPresent, Present
    <2>. QED
        BY <1>0, <2>2, <2>3 DEF IInv
<1>2. CASE RowsFault(w)
    <2>1. /\ UNCHANGED <<lock, plan, task, unguarded>>
          /\ pc'[w] = "raise"
          /\ \A v \in Workers \ {w} : pc'[v] = pc[v]
        BY <1>0, <1>2 DEF RowsFault, CountDbFault, TypeOK
    <2>2. GuardedHoldsLock'
        BY <2>1 DEF IInv, GuardedHoldsLock, Guarded
    <2>3. CASE UNCHANGED table
        <3>1. NoRowYet' /\ PlanCurrent' /\ PlanPresent' /\ NoDuplicateRows'
            BY <2>1, <2>3, SameRows DEF Present
        <3>2. TaskPresent'
            BY <2>1, <2>3 DEF IInv, TaskPresent, Present
        <3>. QED
            BY <1>0, <2>2, <3>1, <3>2 DEF IInv
    <2>4. CASE pc[w] = "write" /\ table' = WithRowsOf(w)
        <3>1. /\ NoRowYet' /\ PlanCurrent' /\ PlanPresent' /\ NoDuplicateRows'
              /\ \A r \in RowId : Present(r) => Present(r)'
            BY <2>1, <2>4, InsertRows
        <3>2. TaskPresent'
            BY <2>1, <3>1 DEF IInv, TaskPresent
        <3>. QED
            BY <1>0, <2>2, <3>1, <3>2 DEF IInv
    <2>. QED
        BY <1>2, <2>3, <2>4 DEF RowsFault
<1>3. CASE LoseLock(w)
    <2>1. /\ UNCHANGED <<pc, plan, table, task>> /\ lock = w
          /\ unguarded' = IF pc[w] \in {"read", "write"}
                          THEN unguarded \cup {w} ELSE unguarded
        BY <1>3 DEF LoseLock
    <2>2. NoRowYet' /\ PlanCurrent' /\ PlanPresent' /\ NoDuplicateRows'
        BY <2>1, SameRows DEF Present
    <2>3. GuardedHoldsLock' /\ TaskPresent'
        BY <2>1 DEF IInv, GuardedHoldsLock, Guarded, TaskPresent, Present
    <2>. QED
        BY <1>0, <2>2, <2>3 DEF IInv
<1>4. CASE Crash(w)
    <2>1. /\ UNCHANGED <<plan, table, unguarded>>
          /\ pc'[w] = "dead"
          /\ \A v \in Workers \ {w} : pc'[v] = pc[v] /\ task'[v] = task[v]
          /\ \A r \in RowId : task'[w][r].phase \notin Running
          /\ lock' = IF lock = w THEN NoWorker ELSE lock
        BY <1>0, <1>4 DEF Crash, TypeOK, NoTask, Running
    <2>2. NoRowYet' /\ PlanCurrent' /\ PlanPresent' /\ NoDuplicateRows'
        BY <2>1, SameRows DEF Present
    <2>3. GuardedHoldsLock'
        BY <2>1 DEF IInv, GuardedHoldsLock, Guarded
    <2>4. TaskPresent'
        BY <2>1 DEF IInv, TaskPresent, Present
    <2>. QED
        BY <1>0, <2>2, <2>3, <2>4 DEF IInv
<1>5. ASSUME NEW r \in RowId, DeliveryFault(w, r)
      PROVE  IInv'
    <2>1. /\ UNCHANGED <<lock, plan, unguarded>>
          /\ pc' = [pc EXCEPT ![w] = IF @ = "gather" THEN "raise" ELSE @]
        BY <1>5 DEF DeliveryFault, CountDbFault
    <2>2. \A s \in RowId : Present(s)' <=> Present(s)
        <3>1. CASE UNCHANGED table
            BY <3>1 DEF Present
        <3>2. CASE task[w][r].phase \in {"failed", "sent"} /\ table' = Recorded(w, r)
            BY <1>0, <3>2, RecordKeepsRows DEF IInv
        <3>. QED
            BY <1>5, <3>1, <3>2 DEF DeliveryFault
    <2>3. NoRowYet' /\ PlanCurrent' /\ PlanPresent' /\ NoDuplicateRows'
        BY <1>0, <2>1, <2>2, SameRows DEF TypeOK
    <2>4. GuardedHoldsLock'
        BY <1>0, <2>1 DEF IInv, GuardedHoldsLock, Guarded, TypeOK
    <2>5. TaskPresent'
        BY <1>0, <1>5, <2>2, TaskMoves DEF IInv, TaskPresent
    <2>. QED
        BY <1>0, <2>3, <2>4, <2>5 DEF IInv
<1>. QED
    BY <1>1, <1>2, <1>3, <1>4, <1>5 DEF Fault

\* The invariant holds initially: no call has begun and the table is empty.
LEMMA InitInv == Init => IInv
BY InitTypeOK, RowIdParts
DEF Init, IInv, GuardedHoldsLock, Guarded, NoRowYet, PlanCurrent, PlanPresent,
    TaskPresent, NoDuplicateRows, Present, NoRow, NoTask, Running

\* IInv is inductive, so it holds throughout.
THEOREM InductiveInvariant == Spec => []IInv
<1>1. IInv /\ [Next]_vars => IInv'
    <2>. SUFFICES ASSUME IInv, [Next]_vars PROVE IInv'
        OBVIOUS
    <2>1. CASE Next
        <3>1. CASE Terminated
            BY <3>1 DEF Terminated, vars, IInv, TypeOK, GuardedHoldsLock, Guarded,
                NoRowYet, PlanCurrent, PlanPresent, TaskPresent, NoDuplicateRows, Present
        <3>. QED
            BY <2>1, <3>1, CallStepInv, DeliverStepInv, FaultInv DEF Next
    <2>2. CASE UNCHANGED vars
        BY <2>2 DEF vars, IInv, TypeOK, GuardedHoldsLock, Guarded,
            NoRowYet, PlanCurrent, PlanPresent, TaskPresent, NoDuplicateRows, Present
    <2>. QED
        BY <2>1, <2>2
<1>. QED
    BY <1>1, InitInv, PTL DEF Spec

\* However many calls race, fail, crash or lose connections, a wanted pair
\* has one EmailLog row unless a call lost its lock before it committed rows.
THEOREM NeverDuplicated == Spec => []NoDuplicateRows
<1>1. IInv => NoDuplicateRows
    BY DEF IInv
<1>. QED
    BY <1>1, InductiveInvariant, PTL

----------------------------------------------------------------------------
(* Stages of a call *)

\* Before its rows are committed, a call has no task.
NoTaskYet ==
    \A w \in Workers : pc[w] \in {"start", "read", "write"} =>
        \A r \in RowId : task[w][r] = NoTask

\* A task works on the row that the plan of its call has for the pair.
TaskOfPlan ==
    \A w \in Workers : \A r \in RowId :
        task[w][r].phase \in Running => plan[w][KeyOf(r)] = r

\* A task that has yet to load its row knows nothing of it.
LoadsOnce ==
    \A w \in Workers : \A r \in RowId :
        task[w][r].phase = "load" => task[w][r].cached = NoRow

\* Tasks run while their call gathers, or after it raised.
LiveStages ==
    \A w \in Workers : Live(w) => pc[w] \in {"gather", "raise", "raised"}

\* The lock is never held by a call that is over.
HolderUnderWay ==
    \A w \in Workers : lock = w => pc[w] \in {"read", "write", "gather", "return", "raise"}

\* As long as no connection was dropped, a call under way holds the lock.
LockKept ==
    lockLosses = 0 =>
        \A w \in Workers :
            pc[w] \in {"read", "write", "gather", "return", "raise"} => lock = w

Stages ==
    /\ TypeOK
    /\ NoTaskYet
    /\ TaskOfPlan
    /\ LoadsOnce
    /\ LiveStages
    /\ HolderUnderWay
    /\ LockKept

\* Every step of a call keeps the stages apart.
LEMMA CallStages ==
    ASSUME Stages, NEW w \in Workers, CallStep(w)
    PROVE  Stages'
<1>0. TypeOK /\ TypeOK'
    BY CallStepType DEF Stages
<1>1. /\ UNCHANGED lockLosses
      /\ \A v \in Workers \ {w} :
            pc'[v] = pc[v] /\ plan'[v] = plan[v] /\ task'[v] = task[v]
    BY <1>0 DEF CallStep, Acquire, LeadMissing, ReadRows, CommitRows, GatherDone, Unlock,
       TypeOK, dbVars, faultVars
<1>2. CASE Acquire(w)
    <2>1. /\ UNCHANGED <<plan, task>> /\ pc[w] = "start" /\ pc'[w] = "read"
          /\ lock = NoWorker /\ lock' = w
        BY <1>0, <1>2 DEF Acquire, TypeOK
    <2>2. NoTaskYet' /\ TaskOfPlan' /\ LoadsOnce'
        BY <1>1, <2>1 DEF Stages, NoTaskYet, TaskOfPlan, LoadsOnce
    <2>3. LiveStages'
        BY <1>1, <2>1 DEF Stages, LiveStages, NoTaskYet, Live, NoTask, Running
    <2>4. HolderUnderWay' /\ LockKept'
        BY <1>1, <2>1, NoWorkerAssumption DEF Stages, HolderUnderWay, LockKept
    <2>. QED
        BY <1>0, <2>2, <2>3, <2>4 DEF Stages
<1>3. CASE LeadMissing(w) \/ GatherDone(w)
    <2>1. /\ UNCHANGED <<plan, task, lock>> /\ pc[w] \in {"read", "gather"} /\ pc'[w] = "return"
          /\ pc[w] = "gather" => ~Live(w)
        BY <1>0, <1>3 DEF LeadMissing, GatherDone, TypeOK, dbVars
    <2>2. NoTaskYet' /\ TaskOfPlan' /\ LoadsOnce'
        BY <1>1, <2>1 DEF Stages, NoTaskYet, TaskOfPlan, LoadsOnce
    <2>3. ~Live(w)
        BY <2>1 DEF Stages, NoTaskYet, Live, NoTask, Running
    <2>4. LiveStages'
        BY <1>1, <2>1, <2>3 DEF Stages, LiveStages, Live
    <2>5. HolderUnderWay' /\ LockKept'
        BY <1>1, <2>1 DEF Stages, HolderUnderWay, LockKept
    <2>. QED
        BY <1>0, <2>2, <2>4, <2>5 DEF Stages
<1>4. CASE ReadRows(w)
    <2>1. /\ UNCHANGED <<task, lock>> /\ pc[w] = "read" /\ pc'[w] = "write"
        BY <1>0, <1>4 DEF ReadRows, TypeOK, dbVars
    <2>2. \A r \in RowId : task[w][r] = NoTask
        BY <2>1 DEF Stages, NoTaskYet
    <2>3. NoTaskYet' /\ TaskOfPlan' /\ LoadsOnce'
        BY <1>1, <2>1, <2>2 DEF Stages, NoTaskYet, TaskOfPlan, LoadsOnce, NoTask, Running
    <2>4. LiveStages'
        BY <1>1, <2>1, <2>2 DEF Stages, LiveStages, Live, NoTask, Running
    <2>5. HolderUnderWay' /\ LockKept'
        BY <1>1, <2>1 DEF Stages, HolderUnderWay, LockKept
    <2>. QED
        BY <1>0, <2>3, <2>4, <2>5 DEF Stages
<1>5. CASE CommitRows(w)
    <2>1. /\ UNCHANGED <<plan, lock>> /\ pc[w] = "write" /\ pc'[w] = "gather"
          /\ \A r \in RowId : task'[w][r] =
                IF plan[w][KeyOf(r)] = r THEN NewTask ELSE task[w][r]
        BY <1>0, <1>5 DEF CommitRows, TypeOK
    <2>2. \A r \in RowId : task[w][r].phase \notin Running
        BY <2>1 DEF Stages, NoTaskYet, NoTask, Running
    <2>3. NoTaskYet' /\ TaskOfPlan' /\ LoadsOnce'
        BY <1>1, <2>1, <2>2 DEF Stages, NoTaskYet, TaskOfPlan, LoadsOnce, NewTask
    <2>4. LiveStages'
        BY <1>1, <2>1 DEF Stages, LiveStages, Live
    <2>5. HolderUnderWay' /\ LockKept'
        BY <1>1, <2>1 DEF Stages, HolderUnderWay, LockKept
    <2>. QED
        BY <1>0, <2>3, <2>4, <2>5 DEF Stages
<1>6. CASE Unlock(w)
    <2>1. /\ UNCHANGED <<plan, task>>
          /\ pc[w] \in {"return", "raise"} /\ pc'[w] \in {"done", "raised"}
          /\ pc[w] = "raise" => pc'[w] = "raised"
          /\ lock' = IF lock = w THEN NoWorker ELSE lock
        BY <1>0, <1>6 DEF Unlock, TypeOK
    <2>2. NoTaskYet' /\ TaskOfPlan' /\ LoadsOnce'
        BY <1>1, <2>1 DEF Stages, NoTaskYet, TaskOfPlan, LoadsOnce
    <2>3. LiveStages'
        BY <1>1, <2>1 DEF Stages, LiveStages, Live
    <2>4. HolderUnderWay' /\ LockKept'
        BY <1>1, <2>1, NoWorkerAssumption DEF Stages, HolderUnderWay, LockKept
    <2>. QED
        BY <1>0, <2>2, <2>3, <2>4 DEF Stages
<1>. QED
    BY <1>2, <1>3, <1>4, <1>5, <1>6 DEF CallStep

\* A step of a task, or the fault of one.
LEMMA TaskStages ==
    ASSUME Stages, NEW w \in Workers, NEW r \in RowId,
           DeliverStep(w, r) \/ DeliveryFault(w, r), TypeOK'
    PROVE  Stages'
<1>0. TypeOK /\ task[w] \in [RowId -> Task] /\ task \in [Workers -> [RowId -> Task]]
    BY DEF Stages, TypeOK
<1>1. /\ UNCHANGED <<lock, plan, lockLosses>> /\ task[w][r].phase \in Running
      /\ \A v \in Workers : pc'[v] = pc[v] \/ (pc[v] = "gather" /\ pc'[v] = "raise")
      /\ \A v \in Workers, s \in RowId : v # w \/ s # r => task'[v][s] = task[v][s]
    BY <1>0 DEF DeliverStep, Load, Send, SendAccepted, SendRefused, SendAmbiguous, Record,
       DeliveryFault, CountDbFault, dbVars, faultVars, Running, TypeOK
<1>2. \A v \in Workers : \A s \in RowId :
          task'[v][s].phase \in Running => task[v][s].phase \in Running
    BY <1>0, TaskMoves
<1>3. NoTaskYet'
    BY <1>1 DEF Stages, NoTaskYet, NoTask, Running
<1>4. TaskOfPlan' /\ LoadsOnce'
    <2>1. TaskOfPlan'
        BY <1>1, <1>2 DEF Stages, TaskOfPlan
    <2>2. task'[w][r].phase # "load"
        BY <1>0 DEF DeliverStep, Load, Send, SendAccepted, SendRefused, SendAmbiguous, Record,
           DeliveryFault, Continue, Task
    <2>3. LoadsOnce'
        BY <1>1, <2>2 DEF Stages, LoadsOnce
    <2>. QED
        BY <2>1, <2>3
<1>5. LiveStages'
    BY <1>1, <1>2 DEF Stages, LiveStages, Live
<1>6. HolderUnderWay' /\ LockKept'
    BY <1>1 DEF Stages, HolderUnderWay, LockKept
<1>. QED
    BY <1>3, <1>4, <1>5, <1>6 DEF Stages

\* The faults of a call.
LEMMA FaultStages ==
    ASSUME Stages, NEW w \in Workers, Fault(w)
    PROVE  Stages'
<1>0. TypeOK /\ TypeOK'
    BY FaultType DEF Stages
<1>1. CASE AcquireFault(w) \/ RowsFault(w)
    <2>1. /\ UNCHANGED <<lock, plan, task, lockLosses>>
          /\ \A v \in Workers \ {w} : pc'[v] = pc[v]
          /\ \/ pc[w] = "start" /\ pc'[w] = "raised"
             \/ pc[w] \in {"read", "write"} /\ pc'[w] = "raise"
        BY <1>0, <1>1 DEF AcquireFault, RowsFault, CountDbFault, TypeOK, dbVars
    <2>2. NoTaskYet' /\ TaskOfPlan' /\ LoadsOnce'
        BY <2>1 DEF Stages, NoTaskYet, TaskOfPlan, LoadsOnce
    <2>3. LiveStages'
        BY <2>1 DEF Stages, LiveStages, Live
    <2>4. HolderUnderWay' /\ LockKept'
        BY <2>1 DEF Stages, HolderUnderWay, LockKept
    <2>. QED
        BY <1>0, <2>2, <2>3, <2>4 DEF Stages
<1>2. CASE LoseLock(w)
    <2>1. /\ UNCHANGED <<plan, task, pc>> /\ lock' = NoWorker
          /\ lockLosses' = lockLosses + 1 /\ lockLosses \in Nat
        BY <1>0, <1>2, BoundsAssumption DEF LoseLock, TypeOK
    <2>2. NoTaskYet' /\ TaskOfPlan' /\ LoadsOnce' /\ LiveStages'
        BY <2>1 DEF Stages, NoTaskYet, TaskOfPlan, LoadsOnce, LiveStages, Live
    <2>3. HolderUnderWay'
        BY <2>1, NoWorkerAssumption DEF HolderUnderWay
    <2>4. LockKept'
        BY <2>1 DEF LockKept
    <2>. QED
        BY <1>0, <2>2, <2>3, <2>4 DEF Stages
<1>3. CASE Crash(w)
    <2>1. /\ UNCHANGED <<plan, lockLosses>>
          /\ pc'[w] = "dead"
          /\ \A v \in Workers \ {w} : pc'[v] = pc[v] /\ task'[v] = task[v]
          /\ \A r \in RowId : task'[w][r] = NoTask
          /\ lock' = IF lock = w THEN NoWorker ELSE lock
        BY <1>0, <1>3 DEF Crash, TypeOK
    <2>2. NoTaskYet' /\ TaskOfPlan' /\ LoadsOnce'
        BY <2>1 DEF Stages, NoTaskYet, TaskOfPlan, LoadsOnce, NoTask, Running
    <2>3. LiveStages'
        BY <2>1 DEF Stages, LiveStages, Live, NoTask, Running
    <2>4. HolderUnderWay' /\ LockKept'
        BY <2>1, NoWorkerAssumption DEF Stages, HolderUnderWay, LockKept
    <2>. QED
        BY <1>0, <2>2, <2>3, <2>4 DEF Stages
<1>4. ASSUME NEW r \in RowId, DeliveryFault(w, r) PROVE Stages'
    BY <1>0, <1>4, TaskStages
<1>. QED
    BY <1>1, <1>2, <1>3, <1>4 DEF Fault

\* The stages of a call, its tasks and the lock stay in step.
LEMMA StagesKept == Spec => []Stages
<1>1. Init => Stages
    BY InitTypeOK, NoWorkerAssumption
    DEF Init, Stages, NoTaskYet, TaskOfPlan, LoadsOnce, LiveStages, Live, HolderUnderWay, LockKept,
        NoTask, Running
<1>2. Stages /\ [Next]_vars => Stages'
    <2>. SUFFICES ASSUME Stages, [Next]_vars PROVE Stages'
        OBVIOUS
    <2>1. CASE UNCHANGED vars
        BY <2>1 DEF vars, Stages, TypeOK, NoTaskYet, TaskOfPlan, LoadsOnce, LiveStages, Live,
           HolderUnderWay, LockKept
    <2>2. ASSUME NEW w \in Workers, NEW r \in RowId, DeliverStep(w, r) PROVE Stages'
        BY <2>2, DeliverStepType, TaskStages DEF Stages
    <2>. QED
        BY <2>1, <2>2, CallStages, FaultStages DEF Next, Terminated
<1>. QED
    BY <1>1, <1>2, PTL DEF Spec

\* The advisory lock is never held by a call that is over, however it ended:
\* the finally clause, or the end of its connection, has released it
\* (service.py:111-114).
THEOREM LockReleased == Spec => []HolderUnderWay
<1>1. Stages => HolderUnderWay
    BY DEF Stages
<1>. QED
    BY <1>1, StagesKept, PTL

\* Deliveries of two calls overlap only after a call raised out of its
\* gather or a connection that held the lock was dropped.
THEOREM OverlapsExplained == Spec => []OverlapExplained
<1>1. Stages => OverlapExplained
    <2>. SUFFICES ASSUME Stages, NEW v \in Workers, NEW w \in Workers,
                         Live(v), Live(w), v # w, ~(lockLosses > 0),
                         pc[v] \notin {"raise", "raised"}, pc[w] \notin {"raise", "raised"}
                  PROVE  FALSE
        BY DEF OverlapExplained
    <2>1. pc[v] = "gather" /\ pc[w] = "gather"
        BY DEF Stages, LiveStages
    <2>2. lockLosses = 0
        BY BoundsAssumption DEF Stages, TypeOK
    <2>. QED
        BY <2>1, <2>2 DEF Stages, LockKept
<1>. QED
    BY <1>1, StagesKept, PTL

----------------------------------------------------------------------------
(* What copies a pair may still cost *)

\* From its SELECT to the end of its gather, the holder of the lock is alone.
Alone(w) == lock = w /\ pc[w] \in {"read", "write", "gather"}

\* The holder of the lock is to deliver, or is delivering, the row.
Serves(w, r) ==
    /\ lock = w
    /\ \/ pc[w] = "write" /\ plan[w][KeyOf(r)] = r
       \/ pc[w] = "gather" /\ task[w][r].phase \in Running

\* A task that has not handed over a copy since its last attempt.
Unsure(w, r) == task[w][r].phase \in {"load", "send", "failed"}

\* A call that is not alone may still insert a row of its own, hand over a
\* copy, and write FAILED over a status it does not know of.
MayInsert(w) == ~Alone(w) /\ pc[w] \in {"read", "write"}
MayCopy(w, k) ==
    /\ ~Alone(w)
    /\ \/ pc[w] \in {"read", "write"}
       \/ \E r \in RowId : KeyOf(r) = k /\ Unsure(w, r)
MayOverwrite(w, k) ==
    /\ ~Alone(w)
    /\ \/ pc[w] \in {"read", "write"}
       \/ \E r \in RowId : KeyOf(r) = k /\ Unsure(w, r) /\ task[w][r].cached.status # "FAILED"

\* The holder of the lock is about to hand over a copy for the row.
Promised(r) == \E w \in Workers : Serves(w, r) /\ task[w][r].phase # "sent"

\* The row is not SENT, and the holder of the lock is not about to write it.
Open(r) ==
    /\ Present(r)
    /\ table[r].status # "SENT"
    /\ \A w \in Workers : Serves(w, r) => task[w][r].cached.status = "SENT"

\* The pair has no row, and none is about to be inserted under the lock.
Fresh(k) == \A r \in RowId : KeyOf(r) = k => ~Present(r) /\ ~Promised(r)

\* Each of these debts is good for one more copy.
Debts(k) ==
    {<<"insert", w>> : w \in {v \in Workers : MayInsert(v)}}
    \cup {<<"copy", w>> : w \in {v \in Workers : MayCopy(v, k)}}
    \cup {<<"overwrite", w>> : w \in {v \in Workers : MayOverwrite(v, k)}}
    \cup {<<"promised", r>> : r \in {s \in RowId : KeyOf(s) = k /\ Promised(s)}}
    \cup {<<"open", r>> : r \in {s \in RowId : KeyOf(s) = k /\ Open(s)}}
    \cup {<<"fresh", k>> : f \in {x \in {k} : Fresh(k)}}

\* What has gone wrong so far, in copies.
Excuses(k) == 1 + ambiguous[k] + crashes + 2 * dbFaults + 3 * lockLosses

\* The copies of a pair and those it may still cost are within that.
Covered(k) ==
    /\ IsFiniteSet(Debts(k))
    /\ inbox[k] + Cardinality(Debts(k)) <= Excuses(k)

CopiesCovered == \A k \in Wanted : Covered(k)

----------------------------------------------------------------------------
(* Cardinalities *)

\* One element more.
LEMMA OneMore ==
    ASSUME NEW S, IsFiniteSet(S), NEW a, NEW T, T \subseteq S \cup {a}
    PROVE  IsFiniteSet(T) /\ Cardinality(T) <= Cardinality(S) + 1
<1>1. /\ IsFiniteSet(S \cup {a}) /\ Cardinality(S) \in Nat
      /\ Cardinality(S \cup {a}) = Cardinality(S) \/ Cardinality(S \cup {a}) = Cardinality(S) + 1
    BY FS_AddElement, FS_CardinalityType
<1>2. /\ IsFiniteSet(T) /\ Cardinality(T) \in Nat
      /\ Cardinality(T) <= Cardinality(S \cup {a})
    BY <1>1, FS_Subset, FS_CardinalityType
<1>. QED
    BY <1>1, <1>2

\* One element less.
LEMMA OneLess ==
    ASSUME NEW S, IsFiniteSet(S), NEW b \in S
    PROVE  IsFiniteSet(S \ {b}) /\ Cardinality(S \ {b}) + 1 = Cardinality(S)
<1>1. /\ IsFiniteSet(S \ {b}) /\ Cardinality(S) \in Nat
      /\ Cardinality(S \ {b}) = Cardinality(S) - 1
    BY FS_RemoveElement, FS_CardinalityType
<1>. QED
    BY <1>1

\* Two elements more, three, and four.
LEMMA TwoMore ==
    ASSUME NEW S, IsFiniteSet(S), NEW a, NEW b, NEW T, T \subseteq S \cup {a, b}
    PROVE  IsFiniteSet(T) /\ Cardinality(T) <= Cardinality(S) + 2
<1>. DEFINE U == S \cup {a}
<1>1. IsFiniteSet(U) /\ Cardinality(U) <= Cardinality(S) + 1
    BY OneMore
<1>2. IsFiniteSet(T) /\ Cardinality(T) <= Cardinality(U) + 1
    <2>1. T \subseteq U \cup {b}
        OBVIOUS
    <2>. HIDE DEF U
    <2>. QED
        BY <1>1, <2>1, OneMore
<1>3. Cardinality(S) \in Nat /\ Cardinality(T) \in Nat /\ Cardinality(U) \in Nat
    BY <1>1, <1>2, FS_CardinalityType
<1>. HIDE DEF U
<1>. QED
    BY <1>1, <1>2, <1>3

LEMMA ThreeMore ==
    ASSUME NEW S, IsFiniteSet(S), NEW a, NEW b, NEW c, NEW T, T \subseteq S \cup {a, b, c}
    PROVE  IsFiniteSet(T) /\ Cardinality(T) <= Cardinality(S) + 3
<1>. DEFINE U == S \cup {a, b}
<1>1. IsFiniteSet(U) /\ Cardinality(U) <= Cardinality(S) + 2
    BY TwoMore
<1>2. IsFiniteSet(T) /\ Cardinality(T) <= Cardinality(U) + 1
    <2>1. T \subseteq U \cup {c}
        OBVIOUS
    <2>. HIDE DEF U
    <2>. QED
        BY <1>1, <2>1, OneMore
<1>3. Cardinality(S) \in Nat /\ Cardinality(T) \in Nat /\ Cardinality(U) \in Nat
    BY <1>1, <1>2, FS_CardinalityType
<1>. HIDE DEF U
<1>. QED
    BY <1>1, <1>2, <1>3

LEMMA FourMore ==
    ASSUME NEW S, IsFiniteSet(S), NEW a, NEW b, NEW c, NEW d, NEW T,
           T \subseteq S \cup {a, b, c, d}
    PROVE  IsFiniteSet(T) /\ Cardinality(T) <= Cardinality(S) + 4
<1>. DEFINE U == S \cup {a, b, c}
<1>1. IsFiniteSet(U) /\ Cardinality(U) <= Cardinality(S) + 3
    BY ThreeMore
<1>2. IsFiniteSet(T) /\ Cardinality(T) <= Cardinality(U) + 1
    <2>1. T \subseteq U \cup {d}
        OBVIOUS
    <2>. HIDE DEF U
    <2>. QED
        BY <1>1, <2>1, OneMore
<1>3. Cardinality(S) \in Nat /\ Cardinality(T) \in Nat /\ Cardinality(U) \in Nat
    BY <1>1, <1>2, FS_CardinalityType
<1>. HIDE DEF U
<1>. QED
    BY <1>1, <1>2, <1>3

----------------------------------------------------------------------------
(* How the debts of a pair move *)

\* A step is about the call w: the other calls stand where they stood.
OthersStay(w) ==
    \A v \in Workers \ {w} :
        /\ pc'[v] = pc[v] /\ plan'[v] = plan[v] /\ task'[v] = task[v]
        /\ lock' = v <=> lock = v

\* What the other calls may still do, and which rows they serve, stays.
LEMMA OthersOwe ==
    ASSUME NEW w \in Workers, OthersStay(w), NEW v \in Workers \ {w}, NEW k \in Wanted
    PROVE  /\ MayInsert(v)' <=> MayInsert(v)
           /\ MayCopy(v, k)' <=> MayCopy(v, k)
           /\ MayOverwrite(v, k)' <=> MayOverwrite(v, k)
           /\ \A r \in RowId : Serves(v, r)' <=> Serves(v, r)
<1>1. /\ pc'[v] = pc[v] /\ plan'[v] = plan[v] /\ task'[v] = task[v]
      /\ lock' = v <=> lock = v
    BY DEF OthersStay
<1>2. Alone(v)' <=> Alone(v)
    BY <1>1 DEF Alone
<1>3. \A r \in RowId : Unsure(v, r)' <=> Unsure(v, r)
    BY <1>1 DEF Unsure
<1>4. MayInsert(v)' <=> MayInsert(v)
    BY <1>1, <1>2 DEF MayInsert
<1>5. MayCopy(v, k)' <=> MayCopy(v, k)
    BY <1>1, <1>2, <1>3 DEF MayCopy
<1>6. MayOverwrite(v, k)' <=> MayOverwrite(v, k)
    BY <1>1, <1>2, <1>3 DEF MayOverwrite
<1>7. \A r \in RowId : Serves(v, r)' <=> Serves(v, r)
    BY <1>1 DEF Serves
<1>. QED
    BY <1>4, <1>5, <1>6, <1>7

\* The promises of the other calls, and their claims on open rows, stay.
LEMMA RowsOwe ==
    ASSUME NEW w \in Workers, OthersStay(w), NEW r \in RowId
    PROVE  /\ Promised(r)' =>
                 Promised(r) \/ (Serves(w, r)' /\ task'[w][r].phase # "sent")
           /\ Promised(r) =>
                 Promised(r)' \/ (Serves(w, r) /\ task[w][r].phase # "sent")
           /\ /\ table[r].status = table'[r].status
              /\ Serves(w, r) => task[w][r].cached.status = "SENT"
              => (Open(r)' => Open(r))
<1>1. \A v \in Workers \ {w} : (Serves(v, r)' <=> Serves(v, r)) /\ task'[v] = task[v]
    BY OthersOwe, RowIdParts DEF OthersStay
<1>2. Promised(r)' => Promised(r) \/ (Serves(w, r)' /\ task'[w][r].phase # "sent")
    BY <1>1 DEF Promised
<1>3. Promised(r) => Promised(r)' \/ (Serves(w, r) /\ task[w][r].phase # "sent")
    BY <1>1 DEF Promised
<1>4. ASSUME table[r].status = table'[r].status,
             Serves(w, r) => task[w][r].cached.status = "SENT",
             Open(r)'
      PROVE  Open(r)
    BY <1>1, <1>4 DEF Open, Present
<1>. QED
    BY <1>2, <1>3, <1>4

\* A step that adds no debt of its call and changes no row.
LEMMA IdleStep ==
    ASSUME NEW w \in Workers, OthersStay(w), NEW k \in Wanted, UNCHANGED table,
           \A r \in RowId : ~Serves(w, r) /\ ~Serves(w, r)',
           MayInsert(w)' => MayInsert(w),
           MayCopy(w, k)' => MayCopy(w, k),
           MayOverwrite(w, k)' => MayOverwrite(w, k)
    PROVE  Debts(k)' \subseteq Debts(k)
<1>1. \A r \in RowId : (Promised(r)' <=> Promised(r)) /\ (Open(r)' => Open(r))
    BY RowsOwe
<1>2. Fresh(k)' => Fresh(k)
    BY <1>1 DEF Fresh, Present
<1>3. \A v \in Workers : /\ MayInsert(v)' => MayInsert(v)
                         /\ MayCopy(v, k)' => MayCopy(v, k)
                         /\ MayOverwrite(v, k)' => MayOverwrite(v, k)
    BY OthersOwe
<1>. QED
    BY <1>1, <1>2, <1>3 DEF Debts

\* Steps of a call around its row transaction and its gather.
LEMMA CallIdle ==
    ASSUME Stages, Stages', NEW w \in Workers, NEW k \in Wanted,
           Acquire(w) \/ LeadMissing(w) \/ GatherDone(w) \/ Unlock(w) \/ AcquireFault(w)
    PROVE  Debts(k)' \subseteq Debts(k)
<1>0. TypeOK
    BY DEF Stages
<1>1. /\ UNCHANGED <<table, task, plan>> /\ OthersStay(w)
    BY <1>0, NoWorkerAssumption DEF Acquire, LeadMissing, GatherDone, Unlock, AcquireFault,
       TypeOK, dbVars, OthersStay
<1>2. \/ pc[w] = "start" /\ pc'[w] = "read" /\ lock' = w
      \/ pc[w] \in {"start", "read", "gather", "return", "raise"}
         /\ pc'[w] \in {"return", "raised", "done"}
    BY <1>0 DEF Acquire, LeadMissing, GatherDone, Unlock, AcquireFault, TypeOK
<1>3. \A r \in RowId : ~Serves(w, r) /\ ~Serves(w, r)'
    BY <1>0, <1>2 DEF Serves, GatherDone, Live, Acquire, LeadMissing, Unlock, AcquireFault
<1>4. ASSUME ~Alone(w)', NEW r \in RowId, Unsure(w, r)' PROVE ~Alone(w) /\ Unsure(w, r)
    <2>1. Unsure(w, r)
        BY <1>1, <1>4 DEF Unsure
    <2>2. Live(w) /\ pc[w] \in {"gather", "raise", "raised"}
        BY <2>1 DEF Unsure, Live, Running, Stages, LiveStages
    <2>3. pc[w] = "gather" => ~Live(w)
        BY <1>0 DEF Acquire, LeadMissing, GatherDone, Unlock, AcquireFault
    <2>. QED
        BY <2>1, <2>2, <2>3 DEF Alone
<1>5. MayInsert(w)' => MayInsert(w)
    BY <1>2 DEF MayInsert, Alone
<1>6. MayCopy(w, k)' => MayCopy(w, k)
    BY <1>2, <1>4 DEF MayCopy, Alone
<1>7. MayOverwrite(w, k)' => MayOverwrite(w, k)
    BY <1>1, <1>2, <1>4 DEF MayOverwrite, Alone
<1>. QED
    BY <1>1, <1>3, <1>5, <1>6, <1>7, IdleStep

\* A debt of the pair is paid by a new one, or none is new.
Exchanged(k) ==
    \/ Debts(k)' \subseteq Debts(k)
    \/ \E paid \in Debts(k) : \E new : Debts(k)' \subseteq (Debts(k) \ {paid}) \cup {new}

\* Membership of debts, by kind.
LEMMA DebtKinds ==
    ASSUME NEW k \in Wanted
    PROVE  /\ \A w \in Workers : MayInsert(w) => <<"insert", w>> \in Debts(k)
           /\ \A w \in Workers : MayCopy(w, k) => <<"copy", w>> \in Debts(k)
           /\ \A w \in Workers : MayOverwrite(w, k) => <<"overwrite", w>> \in Debts(k)
           /\ \A r \in RowId : KeyOf(r) = k /\ Promised(r) => <<"promised", r>> \in Debts(k)
           /\ \A r \in RowId : KeyOf(r) = k /\ Open(r) => <<"open", r>> \in Debts(k)
           /\ Fresh(k) => <<"fresh", k>> \in Debts(k)
BY DEF Debts

\* What a call that reads the rows under the lock promises was open, or had
\* no row.
LEMMA ReadDebts ==
    ASSUME Stages, NEW w \in Workers, NEW k \in Wanted, ReadRows(w)
    PROVE  Exchanged(k)
<1>0. PICK p : TypeOK /\ p = plan'[w][k]
    BY DEF Stages
<1>1. /\ UNCHANGED <<table, task, lock>> /\ OthersStay(w)
      /\ pc[w] = "read" /\ pc'[w] = "write" /\ p \in Choices(w, k)
    BY <1>0 DEF ReadRows, TypeOK, dbVars, OthersStay
<1>2. /\ \A r \in RowId : ~Serves(w, r)
      /\ \A r \in RowId : task[w][r].cached.status = "ABSENT" /\ ~Unsure(w, r)
    BY <1>1 DEF Serves, Stages, NoTaskYet, NoTask, NoRow, Unsure
<1>3. CASE lock # w
    <2>1. \A r \in RowId : ~Serves(w, r)'
        BY <1>1, <1>3 DEF Serves
    <2>2. MayInsert(w) /\ MayCopy(w, k) /\ MayOverwrite(w, k)
        BY <1>1, <1>3 DEF MayInsert, MayCopy, MayOverwrite, Alone
    <2>3. Debts(k)' \subseteq Debts(k)
        BY <1>1, <1>2, <2>1, <2>2, IdleStep
    <2>. QED
        BY <2>3 DEF Exchanged
<1>4. CASE lock = w
    <2>1. /\ ~MayInsert(w)' /\ ~MayCopy(w, k)' /\ ~MayOverwrite(w, k)'
          /\ \A r \in RowId : ~Promised(r)
        BY <1>1, <1>2, <1>4 DEF MayInsert, MayCopy, MayOverwrite, Alone, Promised, Serves
    <2>2. \A r \in RowId : KeyOf(r) = k => (Serves(w, r)' <=> r = p)
        BY <1>0, <1>1, <1>4 DEF Serves
    <2>3. \A r \in RowId : KeyOf(r) = k => (Promised(r)' => r = p)
        BY <1>1, <2>1, <2>2, RowsOwe
    <2>4. \A r \in RowId : Open(r)' => Open(r)
        BY <1>1, <1>2, RowsOwe
    <2>5. \A v \in Workers \ {w} : /\ MayInsert(v)' => MayInsert(v)
                                   /\ MayCopy(v, k)' => MayCopy(v, k)
                                   /\ MayOverwrite(v, k)' => MayOverwrite(v, k)
        BY <1>1, OthersOwe
    <2>6. <<w, k>> \in RowId /\ KeyOf(<<w, k>>) = k /\ Skip \notin RowId
        BY RowIdParts, SkipAssumption DEF RowId
    <2>7. CASE p = Skip
        <3>1. PICK s \in RowsOf(k) : TRUE
            BY <1>1, <2>6, <2>7 DEF Choices
        <3>2. ~Fresh(k)'
            BY <1>1, <3>1 DEF RowsOf, Fresh, Present
        <3>3. \A r \in RowId : KeyOf(r) = k => ~Promised(r)'
            BY <2>3, <2>6, <2>7
        <3>4. \A v \in Workers : /\ MayInsert(v)' => MayInsert(v)
                                 /\ MayCopy(v, k)' => MayCopy(v, k)
                                 /\ MayOverwrite(v, k)' => MayOverwrite(v, k)
            BY <2>1, <2>5
        <3>5. Debts(k)' \subseteq Debts(k)
            BY <2>4, <3>2, <3>3, <3>4 DEF Debts
        <3>. QED
            BY <3>5 DEF Exchanged
    <2>8. CASE p # Skip
        <3>1. \/ p = <<w, k>> /\ RowsOf(k) = {}
              \/ p \in RowId /\ KeyOf(p) = k /\ Present(p) /\ table[p].status # "SENT"
            BY <1>1, <2>8 DEF Choices, RowsOf
        <3>2. p \in RowId /\ KeyOf(p) = k
            BY <2>6, <3>1
        <3>3. Promised(p)' /\ ~Open(p)' /\ ~Fresh(k)'
            <4>1. Serves(w, p)' /\ task'[w][p].phase # "sent" /\ task'[w][p].cached.status = "ABSENT"
                BY <1>1, <1>2, <2>2, <3>2 DEF Stages, NoTaskYet, NoTask
            <4>2. Promised(p)'
                BY <4>1 DEF Promised
            <4>3. ~Open(p)'
                BY <4>1 DEF Open
            <4>4. ~Fresh(k)'
                BY <3>2, <4>2 DEF Fresh
            <4>. QED
                BY <4>2, <4>3, <4>4
        <3>4. CASE RowsOf(k) = {}
            <4>1. Fresh(k)
                BY <2>1, <3>4 DEF RowsOf, Fresh
            <4>2. Debts(k)' \subseteq (Debts(k) \ {<<"fresh", k>>}) \cup {<<"promised", p>>}
                BY <2>1, <2>3, <2>4, <2>5, <3>3 DEF Debts
            <4>. QED
                BY <4>1, <4>2, DebtKinds DEF Exchanged
        <3>5. CASE RowsOf(k) # {}
            <4>1. Open(p)
                BY <1>1, <1>2, <1>4, <3>1, <3>5 DEF Open, Serves
            <4>2. Debts(k)' \subseteq (Debts(k) \ {<<"open", p>>}) \cup {<<"promised", p>>}
                BY <2>1, <2>3, <2>4, <2>5, <3>3 DEF Debts
            <4>. QED
                BY <3>2, <4>1, <4>2, DebtKinds DEF Exchanged
        <3>. QED
            BY <3>4, <3>5
    <2>. QED
        BY <2>7, <2>8
<1>. QED
    BY <1>3, <1>4

\* The rows of a pair after a call has inserted those of its plan.
LEMMA InsertedRow ==
    ASSUME TypeOK, NEW w \in Workers, NEW k \in Wanted, NEW r \in RowId, KeyOf(r) = k,
           table' = WithRowsOf(w)
    PROVE  table'[r] = IF r = <<w, k>> /\ plan[w][k] = r THEN NewRow ELSE table[r]
BY RowIdParts DEF WithRowsOf, Inserted

\* A call that commits its rows: what it has promised becomes a task, and a
\* row it inserts without the lock is open in place of the debt to insert it.
LEMMA CommitDebts ==
    ASSUME Stages, NEW w \in Workers, NEW k \in Wanted, CommitRows(w)
    PROVE  Exchanged(k)
<1>0. PICK p : TypeOK /\ p = plan[w][k]
    BY DEF Stages
<1>1. /\ UNCHANGED <<plan, lock>> /\ OthersStay(w) /\ table' = WithRowsOf(w)
      /\ pc[w] = "write" /\ pc'[w] = "gather"
      /\ \A r \in RowId : KeyOf(r) = k =>
            task'[w][r] = IF p = r THEN NewTask ELSE task[w][r]
    BY <1>0 DEF CommitRows, TypeOK, OthersStay
<1>2. /\ \A r \in RowId : task[w][r] = NoTask
      /\ NoTask.phase = "none" /\ NoTask.cached.status = "ABSENT"
      /\ NewTask.phase = "load" /\ NewTask.cached.status = "ABSENT"
      /\ NewRow.status = "PENDING"
    BY <1>1 DEF Stages, NoTaskYet, NoTask, NoRow, NewTask, NewRow
<1>3. \A r \in RowId : KeyOf(r) = k =>
          table'[r] = IF r = <<w, k>> /\ p = r THEN NewRow ELSE table[r]
    BY <1>0, <1>1, InsertedRow
<1>4. \A r \in RowId : KeyOf(r) = k =>
          (Serves(w, r) <=> lock = w /\ r = p) /\ (Serves(w, r)' <=> lock = w /\ r = p)
    BY <1>0, <1>1, <1>2 DEF Serves, Running
<1>5. \A r \in RowId : KeyOf(r) = k => (Present(r) => Present(r)')
    BY <1>2, <1>3 DEF Present
<1>6. \A r \in RowId : KeyOf(r) = k => (Promised(r)' <=> Promised(r))
    <2>. SUFFICES ASSUME NEW r \in RowId, KeyOf(r) = k PROVE Promised(r)' <=> Promised(r)
        OBVIOUS
    <2>1. CASE lock = w /\ r = p
        <3>1. Serves(w, r) /\ task[w][r].phase # "sent"
            BY <1>2, <1>4, <2>1
        <3>2. Serves(w, r)' /\ task'[w][r].phase # "sent"
            BY <1>1, <1>2, <1>4, <2>1
        <3>. QED
            BY <3>1, <3>2 DEF Promised
    <2>2. CASE ~(lock = w /\ r = p)
        BY <1>1, <1>4, <2>2, RowsOwe
    <2>. QED
        BY <2>1, <2>2
<1>7. Fresh(k)' => Fresh(k)
    BY <1>5, <1>6 DEF Fresh
<1>8. \A v \in Workers \ {w} : /\ MayInsert(v)' => MayInsert(v)
                               /\ MayCopy(v, k)' => MayCopy(v, k)
                               /\ MayOverwrite(v, k)' => MayOverwrite(v, k)
    BY <1>1, OthersOwe
<1>9. \A r \in RowId : KeyOf(r) = k /\ ~(r = p /\ lock = w) /\ ~(r = p /\ p = <<w, k>>) =>
          (Open(r)' => Open(r))
    BY <1>1, <1>3, <1>4, RowsOwe
<1>10. CASE lock = w
    <2>1. ~MayInsert(w)' /\ ~MayCopy(w, k)' /\ ~MayOverwrite(w, k)'
        BY <1>1, <1>10 DEF MayInsert, MayCopy, MayOverwrite, Alone
    <2>2. \A r \in RowId : KeyOf(r) = k /\ r = p => ~Open(r)'
        BY <1>1, <1>2, <1>4, <1>10 DEF Open
    <2>3. Debts(k)' \subseteq Debts(k)
        BY <1>6, <1>7, <1>8, <1>9, <2>1, <2>2 DEF Debts
    <2>. QED
        BY <2>3 DEF Exchanged
<1>11. CASE lock # w
    <2>1. MayInsert(w) /\ MayCopy(w, k) /\ MayOverwrite(w, k) /\ ~MayInsert(w)'
        BY <1>1, <1>11 DEF MayInsert, MayCopy, MayOverwrite, Alone
    <2>2. Debts(k)' \subseteq (Debts(k) \ {<<"insert", w>>}) \cup {<<"open", <<w, k>>>>}
        BY <1>6, <1>7, <1>8, <1>9, <1>11, <2>1 DEF Debts
    <2>. QED
        BY <2>1, <2>2, DebtKinds DEF Exchanged
<1>. QED
    BY <1>10, <1>11

\* A call whose row transaction raises: a row it promised is open, or the
\* pair has no row.
LEMMA RowsFaultDebts ==
    ASSUME Stages, NEW w \in Workers, NEW k \in Wanted, RowsFault(w)
    PROVE  Debts(k)' \subseteq Debts(k) \cup {<<"open", plan[w][k]>>, <<"fresh", k>>}
<1>0. PICK p : TypeOK /\ p = plan[w][k]
    BY DEF Stages
<1>1. /\ UNCHANGED <<plan, lock, task>> /\ OthersStay(w)
      /\ table' = table \/ table' = WithRowsOf(w)
      /\ pc[w] \in {"read", "write"} /\ pc'[w] = "raise"
    BY <1>0 DEF RowsFault, TypeOK, OthersStay
<1>2. \A r \in RowId : task[w][r] = NoTask
    BY <1>1 DEF Stages, NoTaskYet
<1>3. \A r \in RowId : KeyOf(r) = k /\ r # p => table'[r] = table[r]
    BY <1>0, <1>1, InsertedRow
<1>4. \A r \in RowId : KeyOf(r) = k => (Serves(w, r) => r = p) /\ ~Serves(w, r)'
    BY <1>0, <1>1 DEF Serves
<1>5. \A r \in RowId : KeyOf(r) = k /\ r # p =>
          (Open(r)' => Open(r))
    BY <1>1, <1>3, <1>4, RowsOwe
<1>6. \A r \in RowId : KeyOf(r) = k => (Promised(r)' => Promised(r))
    BY <1>1, <1>4, RowsOwe
<1>7. ~MayInsert(w)' /\ ~MayCopy(w, k)' /\ ~MayOverwrite(w, k)'
    BY <1>1, <1>2 DEF MayInsert, MayCopy, MayOverwrite, Unsure, NoTask
<1>8. \A v \in Workers \ {w} : /\ MayInsert(v)' => MayInsert(v)
                               /\ MayCopy(v, k)' => MayCopy(v, k)
                               /\ MayOverwrite(v, k)' => MayOverwrite(v, k)
    BY <1>1, OthersOwe
<1>9. Debts(k)' \subseteq Debts(k) \cup {<<"open", p>>, <<"fresh", k>>}
    BY <1>5, <1>6, <1>7, <1>8 DEF Debts
<1>. QED
    BY <1>0, <1>9

\* What a running task says of its call: the call is past its row transaction,
\* and it has no other running task for the pair.
LEMMA RunningTask ==
    ASSUME Stages, NEW w \in Workers, NEW r \in RowId, task[w][r].phase \in Running
    PROVE  /\ pc[w] \notin {"start", "read", "write"}
           /\ Alone(w) <=> Serves(w, r)
           /\ \A s \in RowId : KeyOf(s) = KeyOf(r) /\ s # r =>
                  task[w][s].phase \notin Running /\ ~Unsure(w, s) /\ ~Serves(w, s)
<1>1. pc[w] \notin {"start", "read", "write"}
    BY DEF Stages, NoTaskYet, NoTask, Running
<1>2. Alone(w) <=> Serves(w, r)
    BY <1>1 DEF Alone, Serves
<1>3. \A s \in RowId : KeyOf(s) = KeyOf(r) /\ s # r => task[w][s].phase \notin Running
    BY DEF Stages, TaskOfPlan
<1>. QED
    BY <1>1, <1>2, <1>3 DEF Unsure, Running, Serves

\* A step of a task touches the debts of its own pair only.
LEMMA OtherPairs ==
    ASSUME NEW w \in Workers, NEW r \in RowId, NEW k \in Wanted, k # KeyOf(r),
           UNCHANGED <<lock, pc, plan>>,
           \A v \in Workers, s \in RowId : v # w \/ s # r => task'[v][s] = task[v][s],
           \A s \in RowId : s # r => table'[s] = table[s]
    PROVE  Debts(k)' \subseteq Debts(k)
<1>1. \A v \in Workers : Alone(v)' <=> Alone(v)
    BY DEF Alone
<1>2. \A v \in Workers, s \in RowId : KeyOf(s) = k =>
          /\ task'[v][s] = task[v][s]
          /\ Unsure(v, s)' <=> Unsure(v, s)
          /\ Serves(v, s)' <=> Serves(v, s)
    BY DEF Unsure, Serves
<1>3. \A v \in Workers : /\ MayInsert(v)' => MayInsert(v)
                         /\ MayCopy(v, k)' => MayCopy(v, k)
                         /\ MayOverwrite(v, k)' => MayOverwrite(v, k)
    BY <1>1, <1>2 DEF MayInsert, MayCopy, MayOverwrite
<1>4. \A s \in RowId : KeyOf(s) = k =>
          /\ Promised(s)' <=> Promised(s)
          /\ Open(s)' <=> Open(s)
          /\ Present(s)' <=> Present(s)
    BY <1>2 DEF Promised, Open, Present
<1>5. Fresh(k)' => Fresh(k)
    BY <1>4 DEF Fresh
<1>. QED
    BY <1>3, <1>4, <1>5 DEF Debts

\* A step of a task about the debts of its own pair: what it has to say of
\* the task and of the row.
LEMMA OwnPair ==
    ASSUME Stages, TypeOK', NEW w \in Workers, NEW r \in RowId, NEW k \in Wanted,
           k = KeyOf(r), task[w][r].phase \in Running, Present(r)',
           UNCHANGED <<lock, pc, plan>>,
           \A v \in Workers, s \in RowId : v # w \/ s # r => task'[v][s] = task[v][s],
           \A s \in RowId : s # r => table'[s] = table[s]
    PROVE  /\ OthersStay(w) /\ (Alone(w)' <=> Alone(w)) /\ ~Fresh(k)'
           /\ \A v \in Workers \ {w} : /\ MayInsert(v)' => MayInsert(v)
                                       /\ MayCopy(v, k)' => MayCopy(v, k)
                                       /\ MayOverwrite(v, k)' => MayOverwrite(v, k)
           /\ ~MayInsert(w)'
           /\ MayCopy(w, k) <=> ~Alone(w) /\ Unsure(w, r)
           /\ MayCopy(w, k)' <=> ~Alone(w) /\ Unsure(w, r)'
           /\ MayOverwrite(w, k) <=>
                  ~Alone(w) /\ Unsure(w, r) /\ task[w][r].cached.status # "FAILED"
           /\ MayOverwrite(w, k)' <=>
                  ~Alone(w) /\ Unsure(w, r)' /\ task'[w][r].cached.status # "FAILED"
           /\ \A s \in RowId : KeyOf(s) = k /\ s # r =>
                  (Promised(s)' => Promised(s)) /\ (Open(s)' => Open(s))
<1>1. OthersStay(w) /\ (Alone(w)' <=> Alone(w)) /\ ~Fresh(k)'
    <2>1. \A v \in Workers \ {w} : task'[v] = task[v]
        BY DEF Stages, TypeOK
    <2>. QED
        BY <2>1 DEF OthersStay, Alone, Fresh
<1>2. \A v \in Workers \ {w} : /\ MayInsert(v)' => MayInsert(v)
                               /\ MayCopy(v, k)' => MayCopy(v, k)
                               /\ MayOverwrite(v, k)' => MayOverwrite(v, k)
    BY <1>1, OthersOwe
<1>3. pc[w] \notin {"start", "read", "write"}
    BY RunningTask
<1>4. \A s \in RowId : KeyOf(s) = k /\ s # r =>
          ~Unsure(w, s) /\ ~Unsure(w, s)' /\ ~Serves(w, s) /\ ~Serves(w, s)'
    <2>1. \A s \in RowId : KeyOf(s) = k /\ s # r =>
              task'[w][s] = task[w][s] /\ ~Unsure(w, s) /\ ~Serves(w, s)
        BY RunningTask
    <2>. QED
        BY <2>1 DEF Unsure, Serves
<1>5. \A s \in RowId : KeyOf(s) = k /\ s # r =>
          (Promised(s)' => Promised(s)) /\ (Open(s)' => Open(s))
    BY <1>1, <1>4, RowsOwe
<1>6. ~MayInsert(w)'
    BY <1>3 DEF MayInsert
<1>7. /\ MayCopy(w, k) <=> ~Alone(w) /\ Unsure(w, r)
      /\ MayOverwrite(w, k) <=>
             ~Alone(w) /\ Unsure(w, r) /\ task[w][r].cached.status # "FAILED"
    BY <1>3, <1>4 DEF MayCopy, MayOverwrite
<1>8. /\ MayCopy(w, k)' <=> ~Alone(w) /\ Unsure(w, r)'
      /\ MayOverwrite(w, k)' <=>
             ~Alone(w) /\ Unsure(w, r)' /\ task'[w][r].cached.status # "FAILED"
    BY <1>1, <1>3, <1>4 DEF MayCopy, MayOverwrite
<1>. QED
    BY <1>1, <1>2, <1>5, <1>6, <1>7, <1>8

\* Loading the row, and sends that fail, add no debt.
LEMMA AttemptDebts ==
    ASSUME IInv, Stages, Stages', NEW w \in Workers, NEW r \in RowId, NEW k \in Wanted,
           Load(w, r) \/ SendRefused(w, r) \/ SendAmbiguous(w, r)
    PROVE  Debts(k)' \subseteq Debts(k)
<1>0. TypeOK /\ TypeOK' /\ task[w][r] \in Task /\ task[w] \in [RowId -> Task]
    BY DEF Stages, TypeOK
<1>1. /\ UNCHANGED <<lock, pc, plan, table>> /\ task[w][r].phase \in {"load", "send"}
      /\ task'[w][r].phase \in {"send", "failed"}
      /\ \A v \in Workers, s \in RowId : v # w \/ s # r => task'[v][s] = task[v][s]
      /\ \/ task[w][r].phase = "load" /\ task'[w][r].cached = table[r]
         \/ task'[w][r].cached = task[w][r].cached
    BY <1>0 DEF Load, SendRefused, SendAmbiguous, dbVars, TypeOK, Task
<1>2. CASE k # KeyOf(r)
    BY <1>1, <1>2, OtherPairs
<1>3. CASE k = KeyOf(r)
    <2>1. task[w][r].phase \in Running /\ Unsure(w, r) /\ Unsure(w, r)' /\ Present(r)'
        BY <1>1 DEF Running, Unsure, IInv, TaskPresent, Present
    <2>2. task[w][r].phase = "load" => task[w][r].cached.status = "ABSENT"
        BY DEF Stages, LoadsOnce, NoRow
    <2>3. /\ OthersStay(w) /\ (Alone(w)' <=> Alone(w)) /\ ~Fresh(k)'
          /\ \A v \in Workers : /\ MayInsert(v)' => MayInsert(v)
                                /\ MayCopy(v, k)' => MayCopy(v, k)
                                /\ MayOverwrite(v, k)' => MayOverwrite(v, k)
          /\ \A s \in RowId : KeyOf(s) = k /\ s # r =>
                 (Promised(s)' => Promised(s)) /\ (Open(s)' => Open(s))
        BY <1>0, <1>1, <1>3, <2>1, <2>2, OwnPair
    <2>4. (Serves(w, r)' <=> Serves(w, r)) /\ pc[w] # "write"
        BY <1>1, <2>1, RunningTask DEF Serves, Running
    <2>5. Promised(r)' => Promised(r)
        <3>1. Serves(w, r)' => Promised(r)
            BY <1>1, <2>4 DEF Promised
        <3>. QED
            BY <2>3, <3>1, RowsOwe
    <2>6. Open(r)' => Open(r)
        <3>1. CASE Serves(w, r) /\ task[w][r].phase = "load" /\ task'[w][r].cached = table[r]
            BY <1>1, <2>4, <3>1 DEF Open
        <3>2. CASE task'[w][r].cached = task[w][r].cached
            <4>1. Open(r)' /\ Serves(w, r) => task[w][r].cached.status = "SENT"
                BY <2>4, <3>2 DEF Open
            <4>. QED
                BY <1>1, <2>3, <4>1, RowsOwe
        <3>3. CASE ~Serves(w, r)
            BY <1>1, <2>3, <3>3, RowsOwe
        <3>. QED
            BY <1>1, <3>1, <3>2, <3>3
    <2>. QED
        BY <2>3, <2>5, <2>6 DEF Debts
<1>. QED
    BY <1>2, <1>3

\* The copy that a provider accepts had been promised, or was the copy of a
\* stray task: that debt is paid.
LEMMA AcceptedDebts ==
    ASSUME IInv, Stages, Stages', NEW w \in Workers, NEW r \in RowId, NEW k \in Wanted,
           SendAccepted(w, r), k = KeyOf(r)
    PROVE  \E paid \in Debts(k) : Debts(k)' \subseteq Debts(k) \ {paid}
<1>0. TypeOK /\ TypeOK' /\ task[w][r] \in Task /\ task[w] \in [RowId -> Task]
    BY DEF Stages, TypeOK
<1>1. /\ UNCHANGED <<lock, pc, plan, table>> /\ task[w][r].phase = "send"
      /\ task'[w][r].phase = "sent"
      /\ \A v \in Workers, s \in RowId : v # w \/ s # r => task'[v][s] = task[v][s]
      /\ task'[w][r].cached = task[w][r].cached
    BY <1>0 DEF SendAccepted, dbVars, TypeOK, Task
<1>2. task[w][r].phase \in Running /\ Unsure(w, r) /\ ~Unsure(w, r)' /\ Present(r)'
    BY <1>1 DEF Running, Unsure, IInv, TaskPresent, Present
<1>3. /\ OthersStay(w) /\ (Alone(w)' <=> Alone(w)) /\ ~Fresh(k)'
      /\ \A v \in Workers \ {w} : /\ MayInsert(v)' => MayInsert(v)
                                  /\ MayCopy(v, k)' => MayCopy(v, k)
                                  /\ MayOverwrite(v, k)' => MayOverwrite(v, k)
      /\ ~MayInsert(w)' /\ ~MayCopy(w, k)' /\ ~MayOverwrite(w, k)'
      /\ MayCopy(w, k) <=> ~Alone(w)
      /\ \A s \in RowId : KeyOf(s) = k /\ s # r =>
             (Promised(s)' => Promised(s)) /\ (Open(s)' => Open(s))
    BY <1>0, <1>1, <1>2, OwnPair
<1>4. (Serves(w, r)' <=> Serves(w, r)) /\ pc[w] # "write"
    BY <1>1, <1>2, RunningTask DEF Serves, Running
<1>5. Open(r)' => Open(r)
    <2>1. Open(r)' /\ Serves(w, r) => task[w][r].cached.status = "SENT"
        BY <1>1, <1>4 DEF Open
    <2>. QED
        BY <1>1, <1>3, <2>1, RowsOwe
<1>6. Promised(r)' => Promised(r)
    BY <1>1, <1>3, RowsOwe
<1>7. CASE Serves(w, r)
    <2>1. Promised(r)
        BY <1>1, <1>7 DEF Promised
    <2>2. ~Promised(r)'
        BY <1>1, <1>7 DEF Promised, Serves
    <2>3. Alone(w)
        BY <1>2, <1>7, RunningTask
    <2>4. Debts(k)' \subseteq Debts(k) \ {<<"promised", r>>}
        BY <1>3, <1>5, <2>2, <2>3 DEF Debts
    <2>. QED
        BY <2>1, <2>4, DebtKinds
<1>8. CASE ~Serves(w, r)
    <2>1. MayCopy(w, k)
        BY <1>2, <1>3, <1>8, RunningTask
    <2>2. Debts(k)' \subseteq Debts(k) \ {<<"copy", w>>}
        BY <1>3, <1>5, <1>6, <2>1 DEF Debts
    <2>. QED
        BY <2>1, <2>2, DebtKinds
<1>. QED
    BY <1>7, <1>8

\* The status of a row after a task's commit.
LEMMA RecordedStatus ==
    ASSUME TypeOK, NEW w \in Workers, NEW r \in RowId, table' = Recorded(w, r)
    PROVE  /\ \A s \in RowId : s # r => table'[s] = table[s]
           /\ task[w][r].phase = "sent" =>
                  \/ table'[r].status = "SENT"
                  \/ table'[r].status = table[r].status /\ task[w][r].cached.status = "SENT"
           /\ task[w][r].phase = "failed" /\ task[w][r].cached.status = "FAILED" =>
                  table'[r].status = table[r].status
<1>1. table'[r] = Flush(table[r], task[w][r].cached, Outcome(task[w][r]))
    BY DEF Recorded, TypeOK
<1>2. \A s \in RowId : s # r => table'[s] = table[s]
    BY DEF Recorded, TypeOK
<1>3. table'[r].status = IF Outcome(task[w][r]).status # task[w][r].cached.status
                         THEN Outcome(task[w][r]).status ELSE table[r].status
    BY <1>1 DEF Flush
<1>. QED
    BY <1>2, <1>3 DEF Outcome

\* A commit of a task: the failure of a served row leaves it open in place of
\* the promise, and that of a stray task uses up its right to overwrite.
LEMMA RecordDebts ==
    ASSUME IInv, Stages, Stages', NEW w \in Workers, NEW r \in RowId, NEW k \in Wanted,
           Record(w, r)
    PROVE  Exchanged(k)
<1>0. TypeOK /\ TypeOK' /\ task[w][r] \in Task /\ task[w] \in [RowId -> Task]
    BY DEF Stages, TypeOK
<1>1. /\ UNCHANGED <<lock, pc, plan>> /\ task[w][r].phase \in {"failed", "sent"}
      /\ table' = Recorded(w, r)
      /\ task'[w][r] = Continue(task[w][r])
      /\ \A v \in Workers, s \in RowId : v # w \/ s # r => task'[v][s] = task[v][s]
      /\ \A s \in RowId : s # r => table'[s] = table[s]
    BY <1>0, RecordedStatus DEF Record, TypeOK
<1>2. CASE k # KeyOf(r)
    <2>1. Debts(k)' \subseteq Debts(k)
        BY <1>1, <1>2, OtherPairs
    <2>. QED
        BY <2>1 DEF Exchanged
<1>3. CASE k = KeyOf(r)
    <2>1. task[w][r].phase \in Running /\ Present(r)'
        BY <1>0, <1>1, RecordKeepsRows DEF Running, IInv, TaskPresent
    <2>2. /\ OthersStay(w) /\ (Alone(w)' <=> Alone(w)) /\ ~Fresh(k)' /\ ~MayInsert(w)'
          /\ \A v \in Workers \ {w} : /\ MayInsert(v)' => MayInsert(v)
                                      /\ MayCopy(v, k)' => MayCopy(v, k)
                                      /\ MayOverwrite(v, k)' => MayOverwrite(v, k)
          /\ MayCopy(w, k) <=> ~Alone(w) /\ Unsure(w, r)
          /\ MayCopy(w, k)' <=> ~Alone(w) /\ Unsure(w, r)'
          /\ MayOverwrite(w, k) <=>
                 ~Alone(w) /\ Unsure(w, r) /\ task[w][r].cached.status # "FAILED"
          /\ MayOverwrite(w, k)' <=>
                 ~Alone(w) /\ Unsure(w, r)' /\ task'[w][r].cached.status # "FAILED"
          /\ \A s \in RowId : KeyOf(s) = k /\ s # r =>
                 (Promised(s)' => Promised(s)) /\ (Open(s)' => Open(s))
        BY <1>0, <1>1, <1>3, <2>1, OwnPair
    <2>3. /\ Alone(w) <=> Serves(w, r)
          /\ pc[w] # "write" /\ pc'[w] # "write"
        BY <1>1, <2>1, RunningTask
    <2>4. \/ /\ task[w][r].phase = "failed" /\ task'[w][r].phase = "send"
             /\ task'[w][r].cached.status = "FAILED"
          \/ /\ task'[w][r].phase = "done"
        BY <1>0, <1>1 DEF Continue, Outcome, Task
    <2>5. CASE task[w][r].phase = "sent"
        <3>1. task'[w][r].phase = "done" /\ ~Unsure(w, r)' /\ ~Serves(w, r)'
            BY <2>3, <2>4, <2>5 DEF Unsure, Serves, Running
        <3>2. Promised(r)' => Promised(r)
            BY <2>2, <3>1, RowsOwe
        <3>3. \/ table'[r].status = "SENT"
              \/ table'[r].status = table[r].status /\ task[w][r].cached.status = "SENT"
            BY <1>0, <1>1, <2>5, RecordedStatus
        <3>4. Open(r)' => Open(r)
            BY <2>2, <3>3, RowsOwe DEF Open
        <3>5. Debts(k)' \subseteq Debts(k)
            BY <2>2, <3>1, <3>2, <3>4 DEF Debts
        <3>. QED
            BY <3>5 DEF Exchanged
    <2>6. CASE task[w][r].phase = "failed" /\ Serves(w, r)
        <3>1. Alone(w) /\ Promised(r)
            BY <2>3, <2>6 DEF Promised
        <3>2. CASE task'[w][r].phase = "send" /\ task'[w][r].cached.status = "FAILED"
            <4>1. Serves(w, r)'
                BY <1>1, <2>3, <2>6, <3>2 DEF Serves, Running
            <4>2. ~Open(r)'
                BY <3>2, <4>1 DEF Open
            <4>3. Debts(k)' \subseteq Debts(k)
                BY <2>2, <3>1, <4>2 DEF Debts
            <4>. QED
                BY <4>3 DEF Exchanged
        <3>3. CASE task'[w][r].phase = "done"
            <4>1. ~Promised(r)'
                BY <1>1, <2>3, <2>6, <3>3 DEF Promised, Serves, Running
            <4>2. Debts(k)' \subseteq (Debts(k) \ {<<"promised", r>>}) \cup {<<"open", r>>}
                BY <2>2, <3>1, <4>1 DEF Debts
            <4>. QED
                BY <1>3, <3>1, <4>2, DebtKinds DEF Exchanged
        <3>. QED
            BY <2>4, <3>2, <3>3
    <2>7. CASE task[w][r].phase = "failed" /\ ~Serves(w, r)
        <3>1. ~Alone(w) /\ Unsure(w, r) /\ ~Serves(w, r)' /\ ~MayOverwrite(w, k)'
            BY <1>1, <2>2, <2>3, <2>4, <2>7 DEF Unsure, Serves, Alone
        <3>2. Promised(r)' => Promised(r)
            BY <2>2, <3>1, RowsOwe
        <3>3. CASE task[w][r].cached.status = "FAILED"
            <4>1. table'[r].status = table[r].status
                BY <1>0, <1>1, <2>7, <3>3, RecordedStatus
            <4>2. Open(r)' => Open(r)
                BY <2>2, <2>7, <4>1, RowsOwe
            <4>3. Debts(k)' \subseteq Debts(k)
                BY <2>2, <3>1, <3>2, <4>2 DEF Debts
            <4>. QED
                BY <4>3 DEF Exchanged
        <3>4. CASE task[w][r].cached.status # "FAILED"
            <4>1. MayOverwrite(w, k)
                BY <2>2, <3>1, <3>4
            <4>2. Debts(k)' \subseteq (Debts(k) \ {<<"overwrite", w>>}) \cup {<<"open", r>>}
                BY <2>2, <3>1, <3>2 DEF Debts
            <4>. QED
                BY <4>1, <4>2, DebtKinds DEF Exchanged
        <3>. QED
            BY <3>3, <3>4
    <2>. QED
        BY <1>1, <2>5, <2>6, <2>7
<1>. QED
    BY <1>2, <1>3

\* A call stops serving: its promise is off, and only the row of its plan may
\* be open now, or the pair without a row again.
LEMMA ServiceEnds ==
    ASSUME IInv, Stages, NEW w \in Workers, OthersStay(w), NEW k \in Wanted,
           NEW p, p = plan[w][k],
           \A s \in RowId : ~Serves(w, s)',
           \A s \in RowId : KeyOf(s) = k /\ s # p => table'[s] = table[s],
           \A s \in RowId : KeyOf(s) = k => (Present(s)' <=> Present(s))
    PROVE  /\ \A s \in RowId : KeyOf(s) = k =>
                 /\ Promised(s)' => Promised(s)
                 /\ Serves(w, s) => s = p
                 /\ Serves(w, s) /\ task[w][s].phase # "sent" => Promised(s) /\ ~Promised(s)'
                 /\ s # p => (Open(s)' => Open(s))
           /\ \/ Fresh(k)' => Fresh(k)
              \/ p \in RowId /\ KeyOf(p) = k /\ Serves(w, p) /\ ~Present(p)'
                 /\ task[w][p].phase # "sent"
           /\ \A v \in Workers \ {w} : /\ MayInsert(v)' => MayInsert(v)
                                       /\ MayCopy(v, k)' => MayCopy(v, k)
                                       /\ MayOverwrite(v, k)' => MayOverwrite(v, k)
<1>1. \A s \in RowId : KeyOf(s) = k /\ Serves(w, s) => s = p
    BY DEF Serves, Stages, TaskOfPlan
<1>2. \A s \in RowId : Promised(s)' => Promised(s)
    BY RowsOwe
<1>3. \A s \in RowId : KeyOf(s) = k /\ s # p => (Open(s)' => Open(s))
    BY <1>1, RowsOwe
<1>4. ASSUME NEW s \in RowId, Serves(w, s), task[w][s].phase # "sent"
      PROVE  Promised(s) /\ ~Promised(s)'
    <2>1. Promised(s)
        BY <1>4 DEF Promised
    <2>2. \A v \in Workers \ {w} : ~Serves(v, s)
        BY <1>4 DEF Serves
    <2>3. \A v \in Workers : ~Serves(v, s)'
        BY <2>2, OthersOwe
    <2>. QED
        BY <2>1, <2>3 DEF Promised
<1>5. ASSUME Fresh(k)', ~Fresh(k)
      PROVE  p \in RowId /\ KeyOf(p) = k /\ Serves(w, p) /\ ~Present(p)'
             /\ task[w][p].phase # "sent"
    <2>1. PICK s \in RowId : KeyOf(s) = k /\ (Present(s) \/ Promised(s))
        BY <1>5 DEF Fresh
    <2>2. ~Present(s)' /\ ~Promised(s)'
        BY <1>5, <2>1 DEF Fresh
    <2>3. ~Present(s) /\ Promised(s)
        BY <2>1, <2>2
    <2>4. Serves(w, s) /\ task[w][s].phase # "sent"
        BY <2>2, <2>3, RowsOwe
    <2>5. s = p
        BY <1>1, <2>1, <2>4
    <2>. QED
        BY <2>1, <2>2, <2>4, <2>5
<1>7. \A v \in Workers \ {w} : /\ MayInsert(v)' => MayInsert(v)
                               /\ MayCopy(v, k)' => MayCopy(v, k)
                               /\ MayOverwrite(v, k)' => MayOverwrite(v, k)
    BY OthersOwe
<1>. QED
    BY <1>1, <1>2, <1>3, <1>4, <1>5, <1>7

\* Two more debts at most: a stray task for a promise, and an open row.
TwoNew(k) ==
    \/ \E new : Debts(k)' \subseteq Debts(k) \cup {new}
    \/ \E paid \in Debts(k) : \E a, b, c : Debts(k)' \subseteq (Debts(k) \ {paid}) \cup {a, b, c}

\* A database error in a task: its call raises, and the other tasks stray.
LEMMA DeliveryFaultDebts ==
    ASSUME IInv, Stages, Stages', NEW w \in Workers, NEW r \in RowId, NEW k \in Wanted,
           DeliveryFault(w, r)
    PROVE  TwoNew(k)
<1>0. PICK p : TypeOK /\ TypeOK' /\ p = plan[w][k] /\ task[w][r] \in Task /\ task[w] \in [RowId -> Task]
    BY DEF Stages, TypeOK
<1>1. /\ UNCHANGED <<lock, plan>> /\ task[w][r].phase \in Running
      /\ task'[w][r].phase = "raised" /\ OthersStay(w)
      /\ pc'[w] = IF pc[w] = "gather" THEN "raise" ELSE pc[w]
      /\ table' = table \/ (task[w][r].phase \in {"failed", "sent"} /\ table' = Recorded(w, r))
      /\ \A s \in RowId : s # r => task'[w][s] = task[w][s]
    BY <1>0 DEF DeliveryFault, TypeOK, OthersStay, Running, Task
<1>2. pc[w] \notin {"start", "read", "write"} /\ pc'[w] \notin {"read", "write", "gather"}
    BY <1>1, RunningTask
<1>3. /\ \A s \in RowId : ~Serves(w, s)' /\ ~Alone(w)' /\ ~MayInsert(w)'
    BY <1>2 DEF Serves, Alone, MayInsert
<1>4. r[2] = k => r = p
    BY <1>0, <1>1 DEF Stages, TaskOfPlan, KeyOf
<1>5. /\ \A s \in RowId : KeyOf(s) = k /\ s # p => table'[s] = table[s]
      /\ \A s \in RowId : KeyOf(s) = k => (Present(s)' <=> Present(s))
    <2>1. CASE table' = table
        BY <2>1 DEF Present
    <2>2. CASE task[w][r].phase \in {"failed", "sent"} /\ table' = Recorded(w, r)
        BY <1>0, <1>4, <2>2, RecordKeepsRows, RecordedStatus DEF IInv, KeyOf
    <2>. QED
        BY <1>1, <2>1, <2>2
<1>6. /\ \A s \in RowId : KeyOf(s) = k =>
                 /\ Promised(s)' => Promised(s)
                 /\ Serves(w, s) /\ task[w][s].phase # "sent" => Promised(s) /\ ~Promised(s)'
                 /\ s # p => (Open(s)' => Open(s))
      /\ \A v \in Workers \ {w} : /\ MayInsert(v)' => MayInsert(v)
                                  /\ MayCopy(v, k)' => MayCopy(v, k)
                                  /\ MayOverwrite(v, k)' => MayOverwrite(v, k)
    BY <1>0, <1>1, <1>3, <1>5, ServiceEnds
<1>7. Fresh(k)' => Fresh(k)
    <2>1. \/ Fresh(k)' => Fresh(k)
          \/ p \in RowId /\ KeyOf(p) = k /\ Serves(w, p) /\ ~Present(p)'
        BY <1>0, <1>1, <1>3, <1>5, ServiceEnds
    <2>2. \A s \in RowId : Serves(w, s) => Present(s)
        BY <1>2 DEF Serves, IInv, TaskPresent
    <2>. QED
        BY <1>5, <2>1, <2>2
<1>8. \A s \in RowId : KeyOf(s) = k /\ Unsure(w, s)' => s = p /\ s # r /\ Unsure(w, s)
                                                     /\ task'[w][s] = task[w][s]
    BY <1>0, <1>1 DEF Unsure, Stages, TaskOfPlan, Running
<1>9. CASE Alone(w) /\ p \in RowId /\ KeyOf(p) = k /\ Unsure(w, p)
    <2>1. Serves(w, p) /\ task[w][p].phase # "sent"
        BY <1>9, RunningTask DEF Unsure, Running
    <2>2. Promised(p) /\ ~Promised(p)'
        BY <1>6, <1>9, <2>1
    <2>3. Debts(k)' \subseteq (Debts(k) \ {<<"promised", p>>})
                \cup {<<"copy", w>>, <<"overwrite", w>>, <<"open", p>>}
        BY <1>3, <1>6, <1>7, <2>2 DEF Debts
    <2>. QED
        BY <1>9, <2>2, <2>3, DebtKinds DEF TwoNew
<1>10. CASE ~(Alone(w) /\ p \in RowId /\ KeyOf(p) = k /\ Unsure(w, p))
    <2>1. MayCopy(w, k)' => MayCopy(w, k)
        BY <1>2, <1>8, <1>10 DEF MayCopy
    <2>2. MayOverwrite(w, k)' => MayOverwrite(w, k)
        BY <1>2, <1>8, <1>10 DEF MayOverwrite
    <2>3. Debts(k)' \subseteq Debts(k) \cup {<<"open", p>>}
        BY <1>3, <1>6, <1>7, <2>1, <2>2 DEF Debts
    <2>. QED
        BY <2>3 DEF TwoNew
<1>. QED
    BY <1>9, <1>10

\* A process that dies: a row it was to settle is open, or the pair has no
\* row.
LEMMA CrashDebts ==
    ASSUME IInv, Stages, NEW w \in Workers, NEW k \in Wanted, Crash(w)
    PROVE  \E new : Debts(k)' \subseteq Debts(k) \cup {new}
<1>0. PICK p : TypeOK /\ p = plan[w][k]
    BY DEF Stages
<1>1. /\ UNCHANGED <<plan, table>> /\ OthersStay(w) /\ pc'[w] = "dead"
      /\ \A r \in RowId : task'[w][r] = NoTask
    BY <1>0, NoWorkerAssumption DEF Crash, TypeOK, OthersStay
<1>2. /\ \A s \in RowId : ~Serves(w, s)'
      /\ ~MayInsert(w)' /\ ~MayCopy(w, k)' /\ ~MayOverwrite(w, k)'
    BY <1>1 DEF Serves, MayInsert, MayCopy, MayOverwrite, Unsure, NoTask
<1>3. \A s \in RowId : Present(s)' <=> Present(s)
    BY <1>1 DEF Present
<1>4. /\ \A s \in RowId : KeyOf(s) = k => /\ Promised(s)' => Promised(s)
                                          /\ s # p => (Open(s)' => Open(s))
      /\ \/ Fresh(k)' => Fresh(k)
         \/ p \in RowId /\ KeyOf(p) = k /\ ~Present(p)'
      /\ \A v \in Workers \ {w} : /\ MayInsert(v)' => MayInsert(v)
                                  /\ MayCopy(v, k)' => MayCopy(v, k)
                                  /\ MayOverwrite(v, k)' => MayOverwrite(v, k)
    BY <1>0, <1>1, <1>2, <1>3, ServiceEnds
<1>5. CASE Fresh(k)' => Fresh(k)
    <2>1. Debts(k)' \subseteq Debts(k) \cup {<<"open", p>>}
        BY <1>2, <1>4, <1>5 DEF Debts
    <2>. QED
        BY <2>1
<1>6. CASE p \in RowId /\ KeyOf(p) = k /\ ~Present(p)'
    <2>1. ~Open(p)'
        BY <1>6 DEF Open
    <2>2. Debts(k)' \subseteq Debts(k) \cup {<<"fresh", k>>}
        BY <1>2, <1>4, <2>1 DEF Debts
    <2>. QED
        BY <2>2
<1>. QED
    BY <1>4, <1>5, <1>6

\* Three more debts at most: a call that goes on without the lock may insert,
\* copy and overwrite.
ThreeNew(k) ==
    \/ \E a, b, c : Debts(k)' \subseteq Debts(k) \cup {a, b, c}
    \/ \E paid \in Debts(k) :
           \E a, b, c, d : Debts(k)' \subseteq (Debts(k) \ {paid}) \cup {a, b, c, d}

\* A dropped lock: the call goes on beside those that take the lock next.
LEMMA LoseLockDebts ==
    ASSUME IInv, Stages, NEW w \in Workers, NEW k \in Wanted, LoseLock(w)
    PROVE  ThreeNew(k)
<1>0. PICK p : TypeOK /\ p = plan[w][k]
    BY DEF Stages
<1>1. /\ UNCHANGED <<pc, plan, task, table>> /\ OthersStay(w) /\ lock = w /\ lock' # w
      /\ pc[w] \in {"read", "write", "gather", "return", "raise"}
    BY <1>0, NoWorkerAssumption DEF LoseLock, OthersStay, Stages, HolderUnderWay
<1>2. /\ \A s \in RowId : ~Serves(w, s)'
      /\ \A s \in RowId : Present(s)' <=> Present(s)
      /\ \A s \in RowId : Unsure(w, s)' <=> Unsure(w, s)
    BY <1>1 DEF Serves, Present, Unsure
<1>3. /\ \A s \in RowId : KeyOf(s) = k =>
                 /\ Promised(s)' => Promised(s)
                 /\ Serves(w, s) => s = p
                 /\ Serves(w, s) /\ task[w][s].phase # "sent" => Promised(s) /\ ~Promised(s)'
                 /\ s # p => (Open(s)' => Open(s))
      /\ \/ Fresh(k)' => Fresh(k)
         \/ p \in RowId /\ KeyOf(p) = k /\ Serves(w, p) /\ ~Present(p)'
            /\ task[w][p].phase # "sent"
      /\ \A v \in Workers \ {w} : /\ MayInsert(v)' => MayInsert(v)
                                  /\ MayCopy(v, k)' => MayCopy(v, k)
                                  /\ MayOverwrite(v, k)' => MayOverwrite(v, k)
    BY <1>0, <1>1, <1>2, ServiceEnds
<1>4. \A s \in RowId : KeyOf(s) = k /\ Unsure(w, s) => s = p
    BY <1>0 DEF Unsure, Stages, TaskOfPlan, Running
<1>5. pc[w] \notin {"read", "write"} => ~MayInsert(w)'
    BY <1>1 DEF MayInsert
<1>6. CASE p \in RowId /\ KeyOf(p) = k /\ Serves(w, p) /\ task[w][p].phase # "sent"
    <2>1. Promised(p) /\ ~Promised(p)'
        BY <1>3, <1>6
    <2>2. CASE Fresh(k)' => Fresh(k)
        <3>1. Debts(k)' \subseteq (Debts(k) \ {<<"promised", p>>})
                  \cup {<<"insert", w>>, <<"copy", w>>, <<"overwrite", w>>, <<"open", p>>}
            BY <1>3, <2>1, <2>2 DEF Debts
        <3>. QED
            BY <1>6, <2>1, <3>1, DebtKinds DEF ThreeNew
    <2>3. CASE ~Present(p)'
        <3>1. ~Open(p)'
            BY <2>3 DEF Open
        <3>2. Debts(k)' \subseteq (Debts(k) \ {<<"promised", p>>})
                  \cup {<<"insert", w>>, <<"copy", w>>, <<"overwrite", w>>, <<"fresh", k>>}
            BY <1>3, <2>1, <3>1 DEF Debts
        <3>. QED
            BY <1>6, <2>1, <3>2, DebtKinds DEF ThreeNew
    <2>. QED
        BY <1>3, <2>2, <2>3
<1>7. CASE ~(p \in RowId /\ KeyOf(p) = k /\ Serves(w, p) /\ task[w][p].phase # "sent")
    <2>1. Fresh(k)' => Fresh(k)
        BY <1>3, <1>7
    <2>2. CASE pc[w] \in {"read", "write"}
        <3>1. \A s \in RowId : KeyOf(s) = k /\ Serves(w, s) => FALSE
            BY <1>3, <1>7, <2>2 DEF Serves, Stages, NoTaskYet, NoTask
        <3>2. \A s \in RowId : Open(s)' => (KeyOf(s) = k => Open(s))
            BY <1>1, <3>1, RowsOwe
        <3>3. Debts(k)' \subseteq Debts(k) \cup {<<"insert", w>>, <<"copy", w>>, <<"overwrite", w>>}
            BY <1>3, <2>1, <3>2 DEF Debts
        <3>. QED
            BY <3>3 DEF ThreeNew
    <2>3. CASE pc[w] \notin {"read", "write"}
        <3>1. ~MayInsert(w)'
            BY <1>5, <2>3
        <3>2. \A s \in RowId : KeyOf(s) = k /\ Unsure(w, s) => pc[w] # "gather"
            BY <1>1, <1>4, <1>7 DEF Serves, Unsure, Running
        <3>3. MayCopy(w, k)' => MayCopy(w, k)
            BY <1>1, <1>2, <2>3, <3>2 DEF MayCopy, Alone
        <3>4. MayOverwrite(w, k)' => MayOverwrite(w, k)
            BY <1>1, <1>2, <2>3, <3>2 DEF MayOverwrite, Alone
        <3>5. Debts(k)' \subseteq Debts(k) \cup {<<"open", p>>, <<"open", p>>, <<"open", p>>}
            BY <1>3, <2>1, <3>1, <3>3, <3>4 DEF Debts
        <3>. QED
            BY <3>5 DEF ThreeNew
    <2>. QED
        BY <2>2, <2>3
<1>. QED
    BY <1>6, <1>7

----------------------------------------------------------------------------
(* Copies are accounted for *)

\* No debt more, an exchange, and one, two and three debts more.
LEMMA DebtsCounted ==
    ASSUME NEW k \in Wanted, IsFiniteSet(Debts(k))
    PROVE  /\ Cardinality(Debts(k)) \in Nat
           /\ IsFiniteSet(Debts(k)') => Cardinality(Debts(k)') \in Nat
           /\ Exchanged(k) =>
                  IsFiniteSet(Debts(k)') /\ Cardinality(Debts(k)') <= Cardinality(Debts(k))
           /\ (\E paid \in Debts(k) : Debts(k)' \subseteq Debts(k) \ {paid}) =>
                  IsFiniteSet(Debts(k)') /\ Cardinality(Debts(k)') + 1 <= Cardinality(Debts(k))
           /\ (\E new : Debts(k)' \subseteq Debts(k) \cup {new}) =>
                  IsFiniteSet(Debts(k)') /\ Cardinality(Debts(k)') <= Cardinality(Debts(k)) + 1
           /\ (\E a, b : Debts(k)' \subseteq Debts(k) \cup {a, b}) =>
                  IsFiniteSet(Debts(k)') /\ Cardinality(Debts(k)') <= Cardinality(Debts(k)) + 2
           /\ TwoNew(k) =>
                  IsFiniteSet(Debts(k)') /\ Cardinality(Debts(k)') <= Cardinality(Debts(k)) + 2
           /\ ThreeNew(k) =>
                  IsFiniteSet(Debts(k)') /\ Cardinality(Debts(k)') <= Cardinality(Debts(k)) + 3
<1>. DEFINE n == Cardinality(Debts(k))
            m == Cardinality(Debts(k)')
            Few(i) == IsFiniteSet(Debts(k)') /\ m <= n + i
<1>1. n \in Nat /\ (IsFiniteSet(Debts(k)') => m \in Nat)
    BY FS_CardinalityType
<1>2. Debts(k)' \subseteq Debts(k) => Few(0)
    BY <1>1, FS_Subset
<1>3. ASSUME NEW paid \in Debts(k)
      PROVE  IsFiniteSet(Debts(k) \ {paid}) /\ Cardinality(Debts(k) \ {paid}) \in Nat
             /\ Cardinality(Debts(k) \ {paid}) + 1 = n
    BY OneLess, FS_CardinalityType
<1>4. ASSUME NEW paid \in Debts(k), Debts(k)' \subseteq Debts(k) \ {paid}
      PROVE  IsFiniteSet(Debts(k)') /\ m + 1 <= n
    <2>1. IsFiniteSet(Debts(k)') /\ m <= Cardinality(Debts(k) \ {paid})
        BY <1>3, <1>4, FS_Subset
    <2>. QED
        BY <1>1, <1>3, <2>1
<1>5. Exchanged(k) => Few(0)
    <2>1. ASSUME NEW paid \in Debts(k), NEW new, Debts(k)' \subseteq (Debts(k) \ {paid}) \cup {new}
          PROVE  Few(0)
        <3>1. IsFiniteSet(Debts(k)') /\ m <= Cardinality(Debts(k) \ {paid}) + 1
            BY <1>3, <2>1, OneMore
        <3>. QED
            BY <1>1, <1>3, <3>1
    <2>. QED
        BY <1>2, <2>1 DEF Exchanged
<1>6. (\E new : Debts(k)' \subseteq Debts(k) \cup {new}) => Few(1)
    BY OneMore
<1>7. (\E a, b : Debts(k)' \subseteq Debts(k) \cup {a, b}) => Few(2)
    BY TwoMore
<1>8. (\E a, b, c : Debts(k)' \subseteq Debts(k) \cup {a, b, c}) => Few(3)
    BY ThreeMore
<1>9. TwoNew(k) => Few(2)
    <2>1. ASSUME NEW paid \in Debts(k), NEW a, NEW b, NEW c,
                 Debts(k)' \subseteq (Debts(k) \ {paid}) \cup {a, b, c}
          PROVE  Few(2)
        <3>1. IsFiniteSet(Debts(k)') /\ m <= Cardinality(Debts(k) \ {paid}) + 3
            BY <1>3, <2>1, ThreeMore
        <3>. QED
            BY <1>1, <1>3, <3>1
    <2>2. Few(1) => Few(2)
        BY <1>1
    <2>. QED
        BY <1>6, <2>1, <2>2 DEF TwoNew
<1>10. ThreeNew(k) => Few(3)
    <2>1. ASSUME NEW paid \in Debts(k), NEW a, NEW b, NEW c, NEW d,
                 Debts(k)' \subseteq (Debts(k) \ {paid}) \cup {a, b, c, d}
          PROVE  Few(3)
        <3>1. IsFiniteSet(Debts(k)') /\ m <= Cardinality(Debts(k) \ {paid}) + 4
            BY <1>3, <2>1, FourMore
        <3>. QED
            BY <1>1, <1>3, <3>1
    <2>. QED
        BY <1>8, <2>1 DEF ThreeNew
<1>11. Few(0) => m <= n
    BY <1>1
<1>. QED
    BY <1>1, <1>4, <1>5, <1>6, <1>7, <1>9, <1>10, <1>11

\* Copies and debts grow by no more than the excuses do.
LEMMA StillCovered ==
    ASSUME TypeOK, TypeOK', NEW k \in Wanted, Covered(k), IsFiniteSet(Debts(k)'),
           NEW more \in Nat, NEW new \in Int,
           Cardinality(Debts(k)') <= Cardinality(Debts(k)) + new,
           inbox'[k] <= inbox[k] + more, Excuses(k)' >= Excuses(k) + more + new
    PROVE  Covered(k)'
<1>1. Cardinality(Debts(k)) \in Nat /\ Cardinality(Debts(k)') \in Nat
    BY FS_CardinalityType DEF Covered
<1>2. inbox[k] \in Nat /\ inbox'[k] \in Nat
    BY DEF TypeOK
<1>3. Excuses(k) \in Nat /\ Excuses(k)' \in Nat
    BY BoundsAssumption DEF Excuses, TypeOK
<1>4. inbox[k] + Cardinality(Debts(k)) <= Excuses(k)
    BY DEF Covered
<1>5. inbox'[k] + Cardinality(Debts(k)') <= Excuses(k)'
    BY <1>1, <1>2, <1>3, <1>4
<1>. QED
    BY <1>5 DEF Covered

\* A step of a call keeps the copies within the excuses.
LEMMA CallCovered ==
    ASSUME IInv, Stages, Stages', NEW w \in Workers, NEW k \in Wanted, Covered(k), CallStep(w)
    PROVE  Covered(k)'
<1>1. TypeOK /\ TypeOK' /\ IsFiniteSet(Debts(k))
    BY DEF Stages, Covered
<1>2. UNCHANGED <<inbox, ambiguous, crashes, dbFaults, lockLosses>>
    BY DEF CallStep, Acquire, LeadMissing, ReadRows, CommitRows, GatherDone, Unlock,
       mailVars, faultVars
<1>3. Exchanged(k)
    <2>1. CASE Acquire(w) \/ LeadMissing(w) \/ GatherDone(w) \/ Unlock(w)
        <3>1. Debts(k)' \subseteq Debts(k)
            BY <2>1, CallIdle
        <3>. QED
            BY <3>1 DEF Exchanged
    <2>. QED
        BY <2>1, ReadDebts, CommitDebts DEF CallStep
<1>4. IsFiniteSet(Debts(k)') /\ Cardinality(Debts(k)') <= Cardinality(Debts(k))
    BY <1>1, <1>3, DebtsCounted
<1>5. inbox'[k] <= inbox[k] + 0 /\ Cardinality(Debts(k)') <= Cardinality(Debts(k)) + 0
    BY <1>1, <1>2, <1>4, FS_CardinalityType DEF TypeOK
<1>6. Excuses(k)' >= Excuses(k) + 0 + 0
    BY <1>1, <1>2, BoundsAssumption DEF Excuses, TypeOK
<1>. QED
    BY <1>1, <1>4, <1>5, <1>6, StillCovered

\* So does a step of a task.
LEMMA DeliverCovered ==
    ASSUME IInv, Stages, Stages', NEW w \in Workers, NEW r \in RowId, NEW k \in Wanted,
           Covered(k), DeliverStep(w, r)
    PROVE  Covered(k)'
<1>1. /\ TypeOK /\ TypeOK' /\ IsFiniteSet(Debts(k)) /\ KeyOf(r) \in Wanted
      /\ inbox[k] \in Nat /\ ambiguous[k] \in Nat
    BY KeyOfType, BoundsAssumption DEF Stages, Covered, TypeOK
<1>2. UNCHANGED <<crashes, dbFaults, lockLosses>>
    BY DEF DeliverStep, Load, Send, SendAccepted, SendRefused, SendAmbiguous, Record, faultVars
<1>3. CASE Load(w, r) \/ SendRefused(w, r) \/ Record(w, r) \/ (Send(w, r) /\ k # KeyOf(r))
    <2>1. UNCHANGED <<inbox, ambiguous>> \/ k # KeyOf(r)
        BY <1>3 DEF Load, SendRefused, Record, mailVars
    <2>2. inbox'[k] = inbox[k] /\ ambiguous'[k] = ambiguous[k]
        BY <1>1, <1>3, <2>1 DEF Load, Send, SendAccepted, SendRefused, SendAmbiguous, Record,
           mailVars, TypeOK
    <2>3. Exchanged(k)
        <3>1. CASE Record(w, r)
            BY <3>1, RecordDebts
        <3>2. CASE Load(w, r) \/ SendRefused(w, r) \/ SendAmbiguous(w, r)
            <4>1. Debts(k)' \subseteq Debts(k)
                BY <3>2, AttemptDebts
            <4>. QED
                BY <4>1 DEF Exchanged
        <3>3. CASE SendAccepted(w, r) /\ k # KeyOf(r)
            <4>1. /\ UNCHANGED <<lock, pc, plan, table>>
                  /\ \A v \in Workers, s \in RowId : v # w \/ s # r => task'[v][s] = task[v][s]
                BY <1>1, <3>3 DEF SendAccepted, dbVars, TypeOK
            <4>2. Debts(k)' \subseteq Debts(k)
                BY <3>3, <4>1, OtherPairs
            <4>. QED
                BY <4>2 DEF Exchanged
        <3>. QED
            BY <1>3, <3>1, <3>2, <3>3 DEF Send
    <2>4. IsFiniteSet(Debts(k)') /\ Cardinality(Debts(k)') <= Cardinality(Debts(k))
        BY <1>1, <2>3, DebtsCounted
    <2>5. inbox'[k] <= inbox[k] + 0 /\ Cardinality(Debts(k)') <= Cardinality(Debts(k)) + 0
        BY <1>1, <2>2, <2>4, FS_CardinalityType
    <2>6. Excuses(k)' >= Excuses(k) + 0 + 0
        BY <1>1, <1>2, <2>2, BoundsAssumption DEF Excuses, TypeOK
    <2>. QED
        BY <1>1, <2>4, <2>5, <2>6, StillCovered
<1>4. CASE SendAccepted(w, r) /\ k = KeyOf(r)
    <2>1. inbox'[k] = inbox[k] + 1 /\ ambiguous'[k] = ambiguous[k]
        BY <1>1, <1>4 DEF SendAccepted, TypeOK
    <2>2. \E paid \in Debts(k) : Debts(k)' \subseteq Debts(k) \ {paid}
        BY <1>4, AcceptedDebts
    <2>3. IsFiniteSet(Debts(k)') /\ Cardinality(Debts(k)') + 1 <= Cardinality(Debts(k))
        BY <1>1, <2>2, DebtsCounted
    <2>4. inbox'[k] <= inbox[k] + 1 /\ Cardinality(Debts(k)') <= Cardinality(Debts(k)) + (-1)
        BY <1>1, <2>1, <2>3, FS_CardinalityType
    <2>5. Excuses(k)' >= Excuses(k) + 1 + (-1)
        BY <1>1, <1>2, <2>1, BoundsAssumption DEF Excuses, TypeOK
    <2>. QED
        BY <1>1, <2>3, <2>4, <2>5, StillCovered
<1>5. CASE SendAmbiguous(w, r) /\ k = KeyOf(r)
    <2>1. inbox'[k] = inbox[k] + 1 /\ ambiguous'[k] = ambiguous[k] + 1
        BY <1>1, <1>5 DEF SendAmbiguous, TypeOK
    <2>2. Debts(k)' \subseteq Debts(k)
        BY <1>5, AttemptDebts
    <2>3. IsFiniteSet(Debts(k)') /\ Cardinality(Debts(k)') <= Cardinality(Debts(k))
        BY <1>1, <2>2, DebtsCounted DEF Exchanged
    <2>4. inbox'[k] <= inbox[k] + 1 /\ Cardinality(Debts(k)') <= Cardinality(Debts(k)) + 0
        BY <1>1, <2>1, <2>3, FS_CardinalityType
    <2>5. Excuses(k)' >= Excuses(k) + 1 + 0
        BY <1>1, <1>2, <2>1, BoundsAssumption DEF Excuses, TypeOK
    <2>. QED
        BY <1>1, <2>3, <2>4, <2>5, StillCovered
<1>. QED
    BY <1>3, <1>4, <1>5 DEF DeliverStep, Send

\* And so does a fault, which is an excuse for as many copies as it may cost.
LEMMA FaultCovered ==
    ASSUME IInv, Stages, Stages', NEW w \in Workers, NEW k \in Wanted, Covered(k), Fault(w)
    PROVE  Covered(k)'
<1>1. /\ TypeOK /\ TypeOK' /\ IsFiniteSet(Debts(k)) /\ inbox[k] \in Nat /\ ambiguous[k] \in Nat
      /\ crashes \in Nat /\ dbFaults \in Nat /\ lockLosses \in Nat
    BY BoundsAssumption DEF Stages, Covered, TypeOK
<1>2. UNCHANGED <<inbox, ambiguous>>
    BY DEF Fault, AcquireFault, RowsFault, DeliveryFault, LoseLock, Crash, mailVars
<1>3. inbox'[k] <= inbox[k] + 0
    BY <1>1, <1>2
<1>4. CASE AcquireFault(w) \/ RowsFault(w) \/ \E r \in RowId : DeliveryFault(w, r)
    <2>1. dbFaults' = dbFaults + 1 /\ UNCHANGED <<crashes, lockLosses>>
        BY <1>4 DEF AcquireFault, RowsFault, DeliveryFault, CountDbFault
    <2>2. IsFiniteSet(Debts(k)') /\ Cardinality(Debts(k)') <= Cardinality(Debts(k)) + 2
        <3>1. CASE AcquireFault(w)
            <4>1. Debts(k)' \subseteq Debts(k) \cup {<<"fresh", k>>, <<"fresh", k>>}
                BY <3>1, CallIdle
            <4>. QED
                BY <1>1, <4>1, DebtsCounted
        <3>2. CASE RowsFault(w)
            BY <1>1, <3>2, RowsFaultDebts, DebtsCounted
        <3>3. CASE \E r \in RowId : DeliveryFault(w, r)
            BY <1>1, <3>3, DeliveryFaultDebts, DebtsCounted
        <3>. QED
            BY <1>4, <3>1, <3>2, <3>3
    <2>3. Excuses(k)' >= Excuses(k) + 0 + 2
        BY <1>1, <1>2, <2>1 DEF Excuses
    <2>. QED
        BY <1>1, <1>3, <2>2, <2>3, StillCovered
<1>5. CASE LoseLock(w)
    <2>1. lockLosses' = lockLosses + 1 /\ UNCHANGED <<crashes, dbFaults>>
        BY <1>5 DEF LoseLock
    <2>2. IsFiniteSet(Debts(k)') /\ Cardinality(Debts(k)') <= Cardinality(Debts(k)) + 3
        BY <1>1, <1>5, LoseLockDebts, DebtsCounted
    <2>3. Excuses(k)' >= Excuses(k) + 0 + 3
        BY <1>1, <1>2, <2>1 DEF Excuses
    <2>. QED
        BY <1>1, <1>3, <2>2, <2>3, StillCovered
<1>6. CASE Crash(w)
    <2>1. crashes' = crashes + 1 /\ UNCHANGED <<dbFaults, lockLosses>>
        BY <1>6 DEF Crash
    <2>2. IsFiniteSet(Debts(k)') /\ Cardinality(Debts(k)') <= Cardinality(Debts(k)) + 1
        BY <1>1, <1>6, CrashDebts, DebtsCounted
    <2>3. Excuses(k)' >= Excuses(k) + 0 + 1
        BY <1>1, <1>2, <2>1 DEF Excuses
    <2>. QED
        BY <1>1, <1>3, <2>2, <2>3, StillCovered
<1>. QED
    BY <1>4, <1>5, <1>6 DEF Fault

\* Initially a pair has at most the debt of its first copy.
LEMMA InitCovered == Init => CopiesCovered
<1>. SUFFICES ASSUME Init, NEW k \in Wanted PROVE Covered(k)
    BY DEF CopiesCovered
<1>1. /\ \A w \in Workers : pc[w] = "start" /\ lock # w
      /\ \A w \in Workers, r \in RowId : task[w][r].phase = "none"
      /\ \A r \in RowId : table[r].status = "ABSENT"
      /\ inbox[k] = 0 /\ ambiguous[k] = 0 /\ crashes = 0 /\ dbFaults = 0 /\ lockLosses = 0
    BY NoWorkerAssumption DEF Init, NoTask, NoRow
<1>2. /\ \A w \in Workers : ~MayInsert(w) /\ ~MayCopy(w, k) /\ ~MayOverwrite(w, k)
      /\ \A r \in RowId : ~Promised(r) /\ ~Open(r)
    BY <1>1 DEF MayInsert, MayCopy, MayOverwrite, Unsure, Promised, Serves, Open, Present
<1>3. Debts(k) \subseteq {<<"fresh", k>>}
    BY <1>2 DEF Debts
<1>4. IsFiniteSet(Debts(k)) /\ Cardinality(Debts(k)) <= 1
    <2>1. IsFiniteSet({}) /\ Cardinality({}) = 0 /\ Debts(k) \subseteq {} \cup {<<"fresh", k>>}
        BY <1>3, FS_EmptySet
    <2>2. IsFiniteSet(Debts(k)) /\ Cardinality(Debts(k)) <= Cardinality({}) + 1
        BY <2>1, OneMore
    <2>. QED
        BY <2>1, <2>2
<1>5. Excuses(k) = 1
    BY <1>1 DEF Excuses
<1>6. Cardinality(Debts(k)) \in Nat
    BY <1>4, FS_CardinalityType
<1>. QED
    BY <1>1, <1>4, <1>5, <1>6 DEF Covered

\* A stuttering step leaves the debts alone.
LEMMA IdleCovered ==
    ASSUME NEW k \in Wanted, Covered(k), UNCHANGED vars
    PROVE  Covered(k)'
<1>1. \A w \in Workers, r \in RowId : (Serves(w, r)' <=> Serves(w, r)) /\ (Unsure(w, r)' <=> Unsure(w, r))
    BY DEF vars, Serves, Unsure
<1>2. \A w \in Workers : Alone(w)' <=> Alone(w)
    BY DEF vars, Alone
<1>3. \A w \in Workers : /\ MayInsert(w)' <=> MayInsert(w)
                         /\ MayCopy(w, k)' <=> MayCopy(w, k)
                         /\ MayOverwrite(w, k)' <=> MayOverwrite(w, k)
    BY <1>1, <1>2 DEF vars, MayInsert, MayCopy, MayOverwrite
<1>4. \A r \in RowId : (Promised(r)' <=> Promised(r)) /\ (Open(r)' <=> Open(r))
    BY <1>1 DEF vars, Promised, Open, Present
<1>5. Fresh(k)' <=> Fresh(k)
    BY <1>4 DEF vars, Fresh, Present
<1>6. Debts(k)' = Debts(k)
    BY <1>3, <1>4, <1>5 DEF Debts
<1>7. Excuses(k)' = Excuses(k) /\ inbox' = inbox
    BY DEF vars, Excuses
<1>. QED
    BY <1>6, <1>7 DEF Covered

\* In every state of every behaviour the copies of a pair, and those it may
\* still cost, are within what has gone wrong so far.
LEMMA CoveredKept == Spec => []CopiesCovered
<1>1. CopiesCovered /\ IInv /\ Stages /\ Stages' /\ [Next]_vars => CopiesCovered'
    <2>. SUFFICES ASSUME CopiesCovered, IInv, Stages, Stages', [Next]_vars, NEW k \in Wanted
                  PROVE  Covered(k)'
        BY DEF CopiesCovered
    <2>1. Covered(k)
        BY DEF CopiesCovered
    <2>2. CASE UNCHANGED vars
        BY <2>1, <2>2, IdleCovered
    <2>3. CASE Next
        BY <2>1, <2>2, <2>3, CallCovered, DeliverCovered, FaultCovered DEF Next, Terminated
    <2>. QED
        BY <2>2, <2>3
<1>. QED
    BY <1>1, InitCovered, InductiveInvariant, StagesKept, PTL DEF Spec

\* A recipient gets one copy, and one more at most for each ambiguous send and
\* each process that died, two for each database error and three for each lost
\* lock, whatever the order of calls, tasks and faults (service.py:99-114).
THEOREM CopiesAccounted == Spec => []CopiesExplained
<1>1. CopiesCovered /\ TypeOK => CopiesExplained
    <2>. SUFFICES ASSUME CopiesCovered, TypeOK, NEW k \in Wanted
                  PROVE  inbox[k] <= Excuses(k)
        BY DEF CopiesExplained, Excuses
    <2>1. IsFiniteSet(Debts(k)) /\ inbox[k] + Cardinality(Debts(k)) <= Excuses(k)
        BY DEF CopiesCovered, Covered
    <2>2. Cardinality(Debts(k)) \in Nat /\ inbox[k] \in Nat /\ Excuses(k) \in Nat
        BY <2>1, FS_CardinalityType, BoundsAssumption DEF Excuses, TypeOK
    <2>. QED
        BY <2>1, <2>2
<1>. QED
    BY <1>1, CoveredKept, TypeCorrect, PTL

=============================================================================
