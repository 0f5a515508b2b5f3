------------------------- MODULE EmailOutcomeProofs -------------------------
(***************************************************************************)
(* Proofs about what EmailDispatch records: SENT only for a mail that the  *)
(* provider has, and an outcome for every pair once a call returns, under  *)
(* every fault; and, up to the first database error or lost lock, that     *)
(* deliveries do not overlap, that rows end settled, and that every step   *)
(* is a step of EmailLedger.  They rest on the invariant of                *)
(* EmailDispatchProofs and hold for any number of calls, wanted pairs,     *)
(* attempts and faults.                                                    *)
(***************************************************************************)
EXTENDS EmailDispatchProofs

----------------------------------------------------------------------------
HasOutcome(r) == table[r].status \in {"FAILED", "SENT"}

\* A task that is to record SENT has handed a copy to the provider.
SentIsBacked ==
    \A w \in Workers : \A r \in RowId :
        task[w][r].phase = "sent" => inbox[KeyOf(r)] > 0

\* A task whose own copy of the row shows an outcome is right: Flush leaves
\* such a status out of the UPDATE.
CacheIsHonest ==
    \A w \in Workers : \A r \in RowId :
        task[w][r].cached.status \in {"FAILED", "SENT"} => HasOutcome(r)

\* A task that is over has recorded an outcome.
DoneIsRecorded ==
    \A w \in Workers : \A r \in RowId :
        task[w][r].phase = "done" => HasOutcome(r)

\* A pair is skipped for a row with an outcome; another has a row of its
\* own, a task while the call gathers, and an outcome once it returns.
PairIsKept(w, k) ==
    IF plan[w][k] = Skip
    THEN \E r \in RowId : KeyOf(r) = k /\ HasOutcome(r)
    ELSE /\ plan[w][k] \in RowId /\ KeyOf(plan[w][k]) = k
         /\ pc[w] = "gather" => task[w][plan[w][k]].phase \in Running \cup {"done"}
         /\ pc[w] \in {"return", "done"} => HasOutcome(plan[w][k])

PlanIsKept ==
    \A w \in Workers : (lead /\ pc[w] \in {"write", "gather", "return", "done"}) =>
        \A k \in Wanted : PairIsKept(w, k)

OutcomeInv ==
    /\ IInv
    /\ SentMeansDelivered
    /\ SentIsBacked
    /\ CacheIsHonest
    /\ DoneIsRecorded
    /\ PlanIsKept

----------------------------------------------------------------------------
(* Outcomes stay *)

\* The commit of a task records an outcome in its row and leaves the others
\* alone: a status is only left out of the UPDATE if it is one already.
LEMMA RecordGivesOutcome ==
    ASSUME TypeOK, CacheIsHonest, NEW w \in Workers, NEW r \in RowId,
           task[w][r].phase \in {"failed", "sent"}, table' = Recorded(w, r)
    PROVE  /\ HasOutcome(r)'
           /\ \A s \in RowId : s # r => table'[s] = table[s]
           /\ table'[r].status = "SENT" =>
                  task[w][r].phase = "sent" \/ table[r].status = "SENT"
<1>1. table'[r] = Flush(table[r], task[w][r].cached, Outcome(task[w][r]))
    BY DEF Recorded, TypeOK
<1>2. \A s \in RowId : s # r => table'[s] = table[s]
    BY DEF Recorded, TypeOK
<1>3. table'[r].status = IF Outcome(task[w][r]).status # task[w][r].cached.status
                         THEN Outcome(task[w][r]).status ELSE table[r].status
    BY <1>1 DEF Flush
<1>4. /\ Outcome(task[w][r]).status \in {"FAILED", "SENT"}
      /\ Outcome(task[w][r]).status = "SENT" => task[w][r].phase = "sent"
    BY DEF Outcome
<1>5. task[w][r].cached.status \in {"FAILED", "SENT"} =>
          table[r].status \in {"FAILED", "SENT"}
    BY DEF CacheIsHonest, HasOutcome
<1>. QED
    BY <1>2, <1>3, <1>4, <1>5 DEF HasOutcome

\* The rows that a call inserts had no outcome, so none is lost.
LEMMA InsertKeepsOutcomes ==
    ASSUME IInv, NEW w \in Workers, pc[w] = "write", table' = WithRowsOf(w)
    PROVE  \A s \in RowId :
               /\ HasOutcome(s) => table'[s] = table[s]
               /\ table'[s].status = "SENT" => table[s].status = "SENT"
<1>. SUFFICES ASSUME NEW s \in RowId
              PROVE  /\ HasOutcome(s) => table'[s] = table[s]
                     /\ table'[s].status = "SENT" => table[s].status = "SENT"
    OBVIOUS
<1>1. CASE s \in Inserted(w)
    <2>1. ~Present(s)
        BY <1>1, RowIdParts DEF Inserted, IInv, NoRowYet
    <2>2. table'[s].status = "PENDING"
        BY <1>1 DEF WithRowsOf, NewRow
    <2>. QED
        BY <2>1, <2>2 DEF Present, HasOutcome
<1>2. CASE s \notin Inserted(w)
    BY <1>2 DEF WithRowsOf
<1>. QED
    BY <1>1, <1>2

\* A pair stays kept as long as outcomes stay, the plan does, and the call
\* is not further than it was.
LEMMA PairStaysKept ==
    ASSUME NEW v \in Workers, NEW k \in Wanted, PairIsKept(v, k),
           \A r \in RowId : HasOutcome(r) => HasOutcome(r)',
           plan'[v] = plan[v],
           pc'[v] \in {"return", "done"} => pc[v] \in {"return", "done"},
           pc'[v] = "gather" =>
               /\ pc[v] = "gather"
               /\ \A r \in RowId : task[v][r].phase \in Running \cup {"done"} =>
                      task'[v][r].phase \in Running \cup {"done"}
    PROVE  PairIsKept(v, k)'
<1>1. CASE plan[v][k] = Skip
    BY <1>1 DEF PairIsKept
<1>2. CASE plan[v][k] # Skip
    BY <1>2 DEF PairIsKept
<1>. QED
    BY <1>1, <1>2

\* A step that changes neither a row nor a task nor a copy keeps all but
\* the plans.
LEMMA NothingRecorded ==
    ASSUME OutcomeInv, UNCHANGED <<table, task, inbox>>
    PROVE  /\ SentMeansDelivered' /\ SentIsBacked' /\ CacheIsHonest' /\ DoneIsRecorded'
           /\ \A r \in RowId : HasOutcome(r) => HasOutcome(r)'
BY DEF OutcomeInv, SentMeansDelivered, SentIsBacked, CacheIsHonest, DoneIsRecorded, HasOutcome

\* The other calls' pairs stay kept when a step is about one call only.
LEMMA OthersKept ==
    ASSUME OutcomeInv, NEW w \in Workers, UNCHANGED lead,
           \A r \in RowId : HasOutcome(r) => HasOutcome(r)',
           \A v \in Workers \ {w} :
               pc'[v] = pc[v] /\ plan'[v] = plan[v] /\ task'[v] = task[v],
           (lead /\ pc'[w] \in {"write", "gather", "return", "done"}) =>
               \A k \in Wanted : PairIsKept(w, k)'
    PROVE  PlanIsKept'
<1>. SUFFICES ASSUME NEW v \in Workers, lead,
                     pc'[v] \in {"write", "gather", "return", "done"},
                     NEW k \in Wanted
              PROVE  PairIsKept(v, k)'
    BY DEF PlanIsKept
<1>1. CASE v = w
    BY <1>1
<1>2. CASE v # w
    <2>1. PairIsKept(v, k)
        BY <1>2 DEF OutcomeInv, PlanIsKept
    <2>. QED
        BY <1>2, <2>1, PairStaysKept
<1>. QED
    BY <1>1, <1>2

----------------------------------------------------------------------------
(* The invariant *)

\* Every step of a call keeps what is recorded.
LEMMA CallStepOutcome ==
    ASSUME OutcomeInv, NEW w \in Workers, CallStep(w)
    PROVE  OutcomeInv'
<1>0. TypeOK /\ IInv /\ IInv'
    BY CallStepInv DEF OutcomeInv, IInv
<1>1. CASE Acquire(w)
    <2>1. /\ UNCHANGED <<lead, plan, table, task, inbox>>
          /\ pc'[w] = "read" /\ \A v \in Workers \ {w} : pc'[v] = pc[v]
        BY <1>0, <1>1 DEF Acquire, TypeOK, mailVars
    <2>2. PlanIsKept'
        BY <2>1, OthersKept, NothingRecorded
    <2>. QED
        BY <1>0, <2>1, <2>2, NothingRecorded DEF OutcomeInv
<1>2. CASE LeadMissing(w)
    <2>1. /\ UNCHANGED <<lead, plan, table, task, inbox>> /\ ~lead
        BY <1>2 DEF LeadMissing, dbVars, mailVars
    <2>2. PlanIsKept'
        BY <2>1 DEF PlanIsKept
    <2>. QED
        BY <1>0, <2>1, <2>2, NothingRecorded DEF OutcomeInv
<1>3. CASE ReadRows(w)
    <2>1. /\ UNCHANGED <<lead, table, task, inbox>>
          /\ \A v \in Workers \ {w} : pc'[v] = pc[v] /\ plan'[v] = plan[v]
          /\ pc'[w] = "write"
          /\ \A k \in Wanted : plan'[w][k] \in Choices(w, k)
        BY <1>0, <1>3 DEF ReadRows, TypeOK, dbVars, mailVars
    <2>2. ASSUME NEW k \in Wanted PROVE PairIsKept(w, k)'
        <3>1. <<w, k>> \in RowId /\ KeyOf(<<w, k>>) = k /\ Skip \notin RowId
            BY RowIdParts, SkipAssumption DEF RowId
        <3>2. CASE plan'[w][k] = Skip
            <4>1. PICK r \in RowsOf(k) : table[r].status = "SENT"
                BY <2>1, <3>1, <3>2 DEF Choices, RowsOf
            <4>2. r \in RowId /\ KeyOf(r) = k /\ HasOutcome(r)'
                BY <2>1, <4>1 DEF RowsOf, HasOutcome
            <4>. QED
                BY <3>2, <4>2 DEF PairIsKept
        <3>3. CASE plan'[w][k] # Skip
            <4>1. plan'[w][k] \in RowId /\ KeyOf(plan'[w][k]) = k
                BY <2>1, <3>1, <3>3 DEF Choices, RowsOf
            <4>. QED
                BY <2>1, <3>3, <4>1 DEF PairIsKept
        <3>. QED
            BY <3>2, <3>3
    <2>3. PlanIsKept'
        BY <2>1, <2>2, OthersKept, NothingRecorded
    <2>. QED
        BY <1>0, <2>1, <2>3, NothingRecorded DEF OutcomeInv
<1>4. CASE CommitRows(w)
    <2>1. /\ pc[w] = "write" /\ pc'[w] = "gather" /\ table' = WithRowsOf(w)
          /\ UNCHANGED <<lead, plan, inbox>>
          /\ \A v \in Workers \ {w} : pc'[v] = pc[v] /\ task'[v] = task[v]
          /\ \A r \in RowId : task'[w][r] =
                IF plan[w][KeyOf(r)] = r THEN NewTask ELSE task[w][r]
        BY <1>0, <1>4 DEF CommitRows, TypeOK, mailVars
    <2>2. \A r \in RowId : /\ HasOutcome(r) => HasOutcome(r)'
                           /\ table'[r].status = "SENT" => table[r].status = "SENT"
        BY <1>0, <2>1, InsertKeepsOutcomes DEF HasOutcome
    <2>3. \A v \in Workers, r \in RowId :
              task'[v][r] = task[v][r] \/ task'[v][r] = NewTask
        BY <2>1
    <2>4. NewTask.phase = "load" /\ NewTask.cached.status = "ABSENT"
        BY DEF NewTask, NoRow
    <2>5. SentMeansDelivered' /\ SentIsBacked' /\ CacheIsHonest' /\ DoneIsRecorded'
        BY <2>1, <2>2, <2>3, <2>4
        DEF OutcomeInv, SentMeansDelivered, SentIsBacked, CacheIsHonest, DoneIsRecorded
    <2>6. ASSUME lead, NEW k \in Wanted PROVE PairIsKept(w, k)'
        <3>1. PairIsKept(w, k)
            BY <2>1, <2>6 DEF OutcomeInv, PlanIsKept
        <3>2. CASE plan[w][k] = Skip
            BY <2>1, <2>2, <3>1, <3>2 DEF PairIsKept
        <3>3. CASE plan[w][k] # Skip
            <4>1. task'[w][plan[w][k]] = NewTask
                BY <2>1, <3>1, <3>3 DEF PairIsKept
            <4>. QED
                BY <2>1, <2>4, <3>1, <3>3, <4>1 DEF PairIsKept, Running
        <3>. QED
            BY <3>2, <3>3
    <2>7. PlanIsKept'
        BY <2>1, <2>2, <2>6, OthersKept
    <2>. QED
        BY <1>0, <2>5, <2>7 DEF OutcomeInv
<1>5. CASE GatherDone(w)
    <2>1. /\ UNCHANGED <<lead, plan, table, task, inbox>>
          /\ pc[w] = "gather" /\ pc'[w] = "return"
          /\ \A v \in Workers \ {w} : pc'[v] = pc[v]
          /\ \A r \in RowId : task[w][r].phase \notin Running
        BY <1>0, <1>5 DEF GatherDone, TypeOK, dbVars, mailVars, Live
    <2>2. ASSUME lead, NEW k \in Wanted PROVE PairIsKept(w, k)'
        <3>1. PairIsKept(w, k)
            BY <2>1, <2>2 DEF OutcomeInv, PlanIsKept
        <3>2. CASE plan[w][k] = Skip
            BY <2>1, <3>1, <3>2 DEF PairIsKept, HasOutcome
        <3>3. CASE plan[w][k] # Skip
            <4>1. plan[w][k] \in RowId /\ task[w][plan[w][k]].phase = "done"
                BY <2>1, <3>1, <3>3 DEF PairIsKept
            <4>2. HasOutcome(plan[w][k])
                BY <4>1 DEF OutcomeInv, DoneIsRecorded
            <4>. QED
                BY <2>1, <3>1, <3>3, <4>2 DEF PairIsKept, HasOutcome
        <3>. QED
            BY <3>2, <3>3
    <2>3. PlanIsKept'
        BY <2>1, <2>2, OthersKept, NothingRecorded
    <2>. QED
        BY <1>0, <2>1, <2>3, NothingRecorded DEF OutcomeInv
<1>6. CASE Unlock(w)
    <2>1. /\ UNCHANGED <<lead, plan, table, task, inbox>>
          /\ pc'[w] = "done" => pc[w] = "return"
          /\ pc'[w] \in {"done", "raised"}
          /\ \A v \in Workers \ {w} : pc'[v] = pc[v]
        BY <1>0, <1>6 DEF Unlock, TypeOK, mailVars
    <2>2. ASSUME lead, pc'[w] = "done", NEW k \in Wanted PROVE PairIsKept(w, k)'
        <3>1. PairIsKept(w, k)
            BY <2>1, <2>2 DEF OutcomeInv, PlanIsKept
        <3>. QED
            BY <2>1, <2>2, <3>1, PairStaysKept, NothingRecorded
    <2>3. PlanIsKept'
        BY <2>1, <2>2, OthersKept, NothingRecorded
    <2>. QED
        BY <1>0, <2>1, <2>3, NothingRecorded DEF OutcomeInv
<1>. QED
    BY <1>1, <1>2, <1>3, <1>4, <1>5, <1>6 DEF CallStep

\* One task moves on, to a phase after which it still gathers, and what it
\* says of its row and its mail is right: the invariant holds on.
LEMMA TaskStepOutcome ==
    ASSUME OutcomeInv, IInv', NEW w \in Workers, NEW r \in RowId,
           UNCHANGED <<lead, pc, plan>>,
           \A s \in RowId : HasOutcome(s) => HasOutcome(s)',
           \A s \in RowId : table'[s].status = "SENT" =>
               table[s].status = "SENT" \/ inbox'[KeyOf(s)] > 0,
           \A k \in Wanted : inbox[k] > 0 => inbox'[k] > 0,
           \A v \in Workers, s \in RowId :
               v # w \/ s # r => task'[v][s] = task[v][s],
           task'[w][r].phase \in Running \cup {"done"},
           task'[w][r].phase = "sent" => inbox'[KeyOf(r)] > 0,
           task'[w][r].phase = "done" => HasOutcome(r)',
           task'[w][r].cached.status \in {"FAILED", "SENT"} => HasOutcome(r)'
    PROVE  OutcomeInv'
<1>1. SentMeansDelivered'
    BY RowIdParts DEF OutcomeInv, SentMeansDelivered
<1>2. SentIsBacked'
    BY RowIdParts DEF OutcomeInv, SentIsBacked
<1>3. CacheIsHonest' /\ DoneIsRecorded'
    BY DEF OutcomeInv, CacheIsHonest, DoneIsRecorded
<1>4. PlanIsKept'
    <2>. SUFFICES ASSUME NEW v \in Workers, lead,
                         pc[v] \in {"write", "gather", "return", "done"},
                         NEW k \in Wanted
                  PROVE  PairIsKept(v, k)'
        BY DEF PlanIsKept
    <2>1. PairIsKept(v, k)
        BY DEF OutcomeInv, PlanIsKept
    <2>. QED
        BY <2>1, PairStaysKept
<1>. QED
    BY <1>1, <1>2, <1>3, <1>4 DEF OutcomeInv

\* Every step of a task keeps what is recorded.
LEMMA DeliverStepOutcome ==
    ASSUME OutcomeInv, NEW w \in Workers, NEW r \in RowId, DeliverStep(w, r)
    PROVE  OutcomeInv'
<1>0. TypeOK /\ IInv /\ IInv'
    BY DeliverStepInv DEF OutcomeInv, IInv
<1>1. /\ UNCHANGED <<lead, pc, plan>>
      /\ \A v \in Workers, s \in RowId :
            v # w \/ s # r => task'[v][s] = task[v][s]
    BY <1>0 DEF DeliverStep, Load, Send, SendAccepted, SendRefused, SendAmbiguous,
        Record, dbVars, TypeOK
<1>2. /\ task[w][r] \in Task /\ task[w] \in [RowId -> Task] /\ KeyOf(r) \in Wanted
      /\ \A k \in Wanted : inbox[k] \in Nat
    BY <1>0, RowIdParts DEF TypeOK
<1>3. CASE Load(w, r)
    <2>1. /\ UNCHANGED <<table, inbox>>
          /\ task'[w][r].phase = "send" /\ task'[w][r].cached = table[r]
        BY <1>0, <1>2, <1>3 DEF Load, TypeOK, dbVars, mailVars, Task
    <2>. QED
        BY <1>0, <1>1, <2>1, TaskStepOutcome DEF HasOutcome, Running
<1>4. CASE Send(w, r)
    <2>1. /\ UNCHANGED table
          /\ task'[w][r].phase \in {"sent", "failed"}
          /\ task'[w][r].cached = task[w][r].cached
        BY <1>0, <1>2, <1>4
        DEF Send, SendAccepted, SendRefused, SendAmbiguous, TypeOK, dbVars, Task
    <2>2. /\ \A k \in Wanted : inbox[k] > 0 => inbox'[k] > 0
          /\ task'[w][r].phase = "sent" => inbox'[KeyOf(r)] > 0
        <3>1. CASE SendAccepted(w, r)
            BY <1>0, <1>2, <3>1 DEF SendAccepted, TypeOK
        <3>2. CASE SendRefused(w, r)
            BY <1>0, <1>2, <3>2 DEF SendRefused, TypeOK, mailVars
        <3>3. CASE SendAmbiguous(w, r)
            <4>1. task'[w][r].phase = "failed"
                BY <1>0, <1>2, <3>3 DEF SendAmbiguous, TypeOK
            <4>2. \A k \in Wanted : inbox[k] > 0 => inbox'[k] > 0
                BY <1>0, <1>2, <3>3 DEF SendAmbiguous, TypeOK
            <4>. QED
                BY <4>1, <4>2
        <3>. QED
            BY <1>4, <3>1, <3>2, <3>3 DEF Send
    <2>3. task[w][r].cached.status \in {"FAILED", "SENT"} => HasOutcome(r)
        BY <1>0 DEF OutcomeInv, CacheIsHonest
    <2>. QED
        BY <1>0, <1>1, <2>1, <2>2, <2>3, TaskStepOutcome DEF HasOutcome, Running
<1>5. CASE Record(w, r)
    <2>1. /\ task[w][r].phase \in {"failed", "sent"} /\ table' = Recorded(w, r)
          /\ UNCHANGED inbox
          /\ task'[w][r] = Continue(task[w][r])
        BY <1>0, <1>2, <1>5 DEF Record, TypeOK, mailVars
    <2>2. /\ HasOutcome(r)'
          /\ \A s \in RowId : s # r => table'[s] = table[s]
          /\ table'[r].status = "SENT" =>
                task[w][r].phase = "sent" \/ table[r].status = "SENT"
        BY <1>0, <2>1, RecordGivesOutcome DEF OutcomeInv
    <2>3. task'[w][r].phase \in {"send", "done"}
        BY <1>2, <2>1 DEF Continue, Task
    <2>4. task[w][r].phase = "sent" => inbox[KeyOf(r)] > 0
        BY DEF OutcomeInv, SentIsBacked
    <2>. QED
        BY <1>0, <1>1, <2>1, <2>2, <2>3, <2>4, TaskStepOutcome DEF HasOutcome, Running
<1>. QED
    BY <1>3, <1>4, <1>5 DEF DeliverStep

\* Every fault keeps what is recorded.
LEMMA FaultOutcome ==
    ASSUME OutcomeInv, NEW w \in Workers, Fault(w)
    PROVE  OutcomeInv'
<1>0. TypeOK /\ IInv /\ IInv'
    BY FaultInv DEF OutcomeInv, IInv
<1>1. CASE AcquireFault(w)
    <2>1. /\ UNCHANGED <<lead, plan, table, task, inbox>>
          /\ pc'[w] = "raised" /\ \A v \in Workers \ {w} : pc'[v] = pc[v]
        BY <1>0, <1>1 DEF AcquireFault, TypeOK, dbVars, mailVars
    <2>2. PlanIsKept'
        BY <2>1, OthersKept, NothingRecorded
    <2>. QED
        BY <1>0, <2>1, <2>2, NothingRecorded DEF OutcomeInv
<1>2. CASE RowsFault(w)
    <2>1. /\ UNCHANGED <<lead, plan, task, inbox>>
          /\ pc'[w] = "raise" /\ \A v \in Workers \ {w} : pc'[v] = pc[v]
        BY <1>0, <1>2 DEF RowsFault, TypeOK, mailVars
    <2>0. table' = table \/ (pc[w] = "write" /\ table' = WithRowsOf(w))
        BY <1>2 DEF RowsFault
    <2>2. \A r \in RowId : /\ HasOutcome(r) => HasOutcome(r)'
                           /\ table'[r].status = "SENT" => table[r].status = "SENT"
        BY <1>0, <2>0, InsertKeepsOutcomes DEF HasOutcome
    <2>3. PlanIsKept'
        BY <2>1, <2>2, OthersKept
    <2>4. SentMeansDelivered' /\ SentIsBacked' /\ CacheIsHonest' /\ DoneIsRecorded'
        BY <2>1, <2>2
        DEF OutcomeInv, SentMeansDelivered, SentIsBacked, CacheIsHonest, DoneIsRecorded
    <2>. QED
        BY <1>0, <2>3, <2>4 DEF OutcomeInv
<1>3. CASE LoseLock(w)
    <2>1. UNCHANGED <<lead, pc, plan, table, task, inbox>>
        BY <1>3 DEF LoseLock, mailVars
    <2>2. PlanIsKept'
        BY <2>1 DEF OutcomeInv, PlanIsKept, PairIsKept, HasOutcome
    <2>. QED
        BY <1>0, <2>1, <2>2, NothingRecorded DEF OutcomeInv
<1>4. CASE Crash(w)
    <2>1. /\ UNCHANGED <<lead, plan, table, inbox>>
          /\ pc'[w] = "dead"
          /\ \A v \in Workers \ {w} : pc'[v] = pc[v] /\ task'[v] = task[v]
          /\ \A r \in RowId : task'[w][r] = NoTask
        BY <1>0, <1>4 DEF Crash, TypeOK, mailVars
    <2>2. NoTask.phase = "none" /\ NoTask.cached.status = "ABSENT"
        BY DEF NoTask, NoRow
    <2>3. SentMeansDelivered' /\ SentIsBacked' /\ CacheIsHonest' /\ DoneIsRecorded'
        BY <2>1, <2>2
        DEF OutcomeInv, SentMeansDelivered, SentIsBacked, CacheIsHonest,
            DoneIsRecorded, HasOutcome
    <2>4. PlanIsKept'
        BY <2>1, OthersKept DEF HasOutcome
    <2>. QED
        BY <1>0, <2>3, <2>4 DEF OutcomeInv
<1>5. ASSUME NEW r \in RowId, DeliveryFault(w, r)
      PROVE  OutcomeInv'
    <2>1. /\ UNCHANGED <<lead, plan, inbox>>
          /\ pc'[w] # "gather" /\ (pc'[w] = "raise" \/ pc'[w] = pc[w])
          /\ \A v \in Workers \ {w} : pc'[v] = pc[v] /\ task'[v] = task[v]
          /\ \A s \in RowId : s # r => task'[w][s] = task[w][s]
          /\ task'[w][r].phase = "raised"
          /\ task'[w][r].cached = task[w][r].cached
        BY <1>0, <1>5 DEF DeliveryFault, TypeOK, mailVars, Task
    <2>2. \A s \in RowId :
              /\ HasOutcome(s) => HasOutcome(s)'
              /\ table'[s].status = "SENT" => inbox[KeyOf(s)] > 0
        <3>1. CASE UNCHANGED table
            BY <3>1 DEF HasOutcome, OutcomeInv, SentMeansDelivered
        <3>2. CASE task[w][r].phase \in {"failed", "sent"} /\ table' = Recorded(w, r)
            <4>1. /\ HasOutcome(r)'
                  /\ \A s \in RowId : s # r => table'[s] = table[s]
                  /\ table'[r].status = "SENT" =>
                        task[w][r].phase = "sent" \/ table[r].status = "SENT"
                BY <1>0, <3>2, RecordGivesOutcome DEF OutcomeInv
            <4>. QED
                BY <4>1 DEF HasOutcome, OutcomeInv, SentMeansDelivered, SentIsBacked
        <3>. QED
            BY <1>5, <3>1, <3>2 DEF DeliveryFault
    <2>3. SentMeansDelivered' /\ SentIsBacked' /\ CacheIsHonest' /\ DoneIsRecorded'
        BY <2>1, <2>2
        DEF OutcomeInv, SentMeansDelivered, SentIsBacked, CacheIsHonest, DoneIsRecorded
    <2>4. ASSUME lead, pc'[w] \in {"write", "gather", "return", "done"},
                 NEW k \in Wanted
          PROVE  PairIsKept(w, k)'
        <3>1. PairIsKept(w, k)
            BY <2>1, <2>4 DEF OutcomeInv, PlanIsKept
        <3>. QED
            BY <2>1, <2>2, <2>4, <3>1, PairStaysKept
    <2>5. PlanIsKept'
        BY <2>1, <2>2, <2>4, OthersKept
    <2>. QED
        BY <1>0, <2>3, <2>5 DEF OutcomeInv
<1>. QED
    BY <1>1, <1>2, <1>3, <1>4, <1>5 DEF Fault

\* OutcomeInv is inductive on top of IInv, so it holds throughout.
THEOREM OutcomesKept == Spec => []OutcomeInv
<1>1. Init => OutcomeInv
    <2>. SUFFICES ASSUME Init PROVE OutcomeInv
        OBVIOUS
    <2>1. IInv
        BY InitInv
    <2>. QED
        BY <2>1
        DEF Init, OutcomeInv, SentMeansDelivered, SentIsBacked, CacheIsHonest,
            DoneIsRecorded, PlanIsKept, NoRow, NoTask
<1>2. OutcomeInv /\ [Next]_vars => OutcomeInv'
    <2>. SUFFICES ASSUME OutcomeInv, [Next]_vars PROVE OutcomeInv'
        OBVIOUS
    <2>1. CASE UNCHANGED vars
        BY <2>1
        DEF vars, OutcomeInv, IInv, TypeOK, GuardedHoldsLock, Guarded, NoRowYet,
            PlanCurrent, PlanPresent, TaskPresent, NoDuplicateRows, Present,
            SentMeansDelivered, SentIsBacked, CacheIsHonest, DoneIsRecorded,
            PlanIsKept, PairIsKept, HasOutcome
    <2>2. CASE Next
        <3>1. CASE Terminated
            BY <2>1, <3>1 DEF Terminated
        <3>. QED
            BY <2>2, <3>1, CallStepOutcome, DeliverStepOutcome, FaultOutcome DEF Next
    <2>. QED
        BY <2>1, <2>2
<1>. QED
    BY <1>1, <1>2, PTL DEF Spec

\* A row says SENT only if the provider accepted a copy, whatever raises,
\* dies or is late, for any number of calls and attempts (service.py:56-62).
THEOREM SentIsDelivered == Spec => []SentMeansDelivered
<1>1. OutcomeInv => SentMeansDelivered
    BY DEF OutcomeInv
<1>. QED
    BY <1>1, OutcomesKept, PTL

\* A call that returns normally leaves SENT or FAILED for every wanted pair
\* (service.py:93), even if it skipped rows or shared them with others.
THEOREM ReturnedIsRecorded == Spec => []ReturnedMeansRecorded
<1>1. OutcomeInv => ReturnedMeansRecorded
    <2>. SUFFICES ASSUME OutcomeInv, NEW w \in Workers, pc[w] = "done", lead,
                         NEW k \in Wanted
                  PROVE  \E r \in RowsOf(k) : table[r].status \in {"FAILED", "SENT"}
        BY DEF ReturnedMeansRecorded
    <2>1. PairIsKept(w, k)
        BY DEF OutcomeInv, PlanIsKept
    <2>2. PICK r \in RowId : KeyOf(r) = k /\ HasOutcome(r)
        BY <2>1 DEF PairIsKept
    <2>3. r \in RowsOf(k)
        BY <2>2 DEF RowsOf, HasOutcome, Present
    <2>. QED
        BY <2>2, <2>3 DEF HasOutcome
<1>. QED
    BY <1>1, OutcomesKept, PTL

----------------------------------------------------------------------------
(* Up to the first database error or lost lock *)

\* From its SELECT to the end of its gather, a call is alone.
HoldsLock ==
    \A w \in Workers : pc[w] \in {"read", "write", "gather", "return"} => lock = w

\* Tasks run while their call gathers, and not longer.
LiveGathers == \A w \in Workers : Live(w) => pc[w] = "gather"

\* The copy of a row that a task works with is the row.
CacheIsCurrent ==
    \A w \in Workers : \A r \in RowId :
        task[w][r].phase \in {"send", "failed", "sent"} => task[w][r].cached = table[r]

\* No task delivers a row that is SENT.
TaskUnsent ==
    \A w \in Workers : \A r \in RowId :
        task[w][r].phase \in Running => table[r].status # "SENT"

\* A plan is still right when it is committed.
PlanKnown ==
    \A w \in Workers : pc[w] = "write" =>
        \A k \in Wanted : plan[w][k] \in Choices(w, k)

SettledRow(r) ==
    \/ table[r].status = "SENT"
    \/ table[r].status = "FAILED" /\ table[r].attempts = MaxAttempts

\* Unless a process died, a row is settled or has a task.
RowsSettled ==
    crashes = 0 =>
        \A r \in RowId : Present(r) =>
            SettledRow(r) \/ \E w \in Workers : task[w][r].phase \in Running

\* What holds of every state that no database error and no lost lock precedes.
CalmInv ==
    /\ OutcomeInv
    /\ unguarded = {}
    /\ HoldsLock
    /\ LiveGathers
    /\ CacheIsCurrent
    /\ TaskUnsent
    /\ PlanKnown
    /\ RowsSettled

NextCalmInv == CalmInv'

\* Tasks of one call at a time, none while a call writes its rows, one row
\* for each pair, and one task for each pair.
LEMMA OneAtATime ==
    ASSUME CalmInv
    PROVE  /\ \A v, w \in Workers : Live(v) /\ Live(w) => v = w
           /\ \A v, w \in Workers : pc[v] = "write" => ~Live(w)
           /\ \A v, w \in Workers : pc[v] = "write" /\ lock = w => v = w
           /\ \A r, s \in RowId : Present(r) /\ Present(s) /\ KeyOf(r) = KeyOf(s) => r = s
           /\ \A v, w \in Workers : \A r, s \in RowId :
                  /\ task[v][r].phase \in Running /\ task[w][s].phase \in Running
                  /\ KeyOf(r) = KeyOf(s)
                  => v = w /\ r = s
<1>1. \A w \in Workers : Live(w) => pc[w] = "gather" /\ lock = w
    BY DEF CalmInv, LiveGathers, HoldsLock
<1>2. \A w \in Workers : pc[w] = "write" => lock = w
    BY DEF CalmInv, HoldsLock
<1>3. \A r, s \in RowId : Present(r) /\ Present(s) /\ KeyOf(r) = KeyOf(s) => r = s
    BY DEF CalmInv, OutcomeInv, IInv, NoDuplicateRows
<1>4. \A w \in Workers : \A r \in RowId :
          task[w][r].phase \in Running => Live(w) /\ Present(r)
    BY DEF CalmInv, OutcomeInv, IInv, TaskPresent, Live
<1>. QED
    BY <1>1, <1>2, <1>3, <1>4

\* A step that leaves rows and tasks alone.
LEMMA QuietStep ==
    ASSUME CalmInv, OutcomeInv', UNCHANGED <<table, task, crashes, unguarded>>,
           HoldsLock', LiveGathers', PlanKnown'
    PROVE  NextCalmInv
<1>1. CacheIsCurrent' /\ TaskUnsent'
    BY DEF CalmInv, CacheIsCurrent, TaskUnsent
<1>2. RowsSettled'
    BY DEF CalmInv, RowsSettled, SettledRow, Present
<1>. QED
    BY <1>1, <1>2 DEF NextCalmInv, CalmInv

\* Steps of a call, the commit of its rows apart.
LEMMA CallCalm ==
    ASSUME CalmInv, OutcomeInv', NEW w \in Workers,
           Acquire(w) \/ LeadMissing(w) \/ ReadRows(w) \/ GatherDone(w) \/ Unlock(w)
    PROVE  NextCalmInv
<1>0. TypeOK
    BY DEF CalmInv, OutcomeInv, IInv
<1>1. /\ UNCHANGED <<table, task, crashes, unguarded>>
      /\ \A v \in Workers \ {w} : pc'[v] = pc[v] /\ plan'[v] = plan[v]
    BY <1>0 DEF Acquire, LeadMissing, ReadRows, GatherDone, Unlock, TypeOK,
       dbVars, mailVars, faultVars
<1>2. \A v \in Workers : Live(v)' <=> Live(v)
    BY <1>1 DEF Live
<1>3. ~Live(w)
    BY DEF Acquire, LeadMissing, ReadRows, GatherDone, Unlock, CalmInv, LiveGathers
<1>4. LiveGathers'
    BY <1>1, <1>2, <1>3 DEF CalmInv, LiveGathers
<1>5. \A v \in Workers : \A k \in Wanted : Choices(v, k)' = Choices(v, k)
    BY <1>1 DEF Choices, RowsOf, Present
<1>6. pc'[w] = "write" => ReadRows(w)
    BY <1>0 DEF Acquire, LeadMissing, GatherDone, Unlock, TypeOK
<1>7. ASSUME ReadRows(w), NEW k \in Wanted PROVE plan'[w][k] \in Choices(w, k)
    BY <1>0, <1>7 DEF ReadRows, TypeOK
<1>8. PlanKnown'
    BY <1>1, <1>5, <1>6, <1>7 DEF CalmInv, PlanKnown
<1>9. HoldsLock'
    <2>1. CASE Acquire(w)
        <3>1. /\ lock = NoWorker /\ lock' = w /\ pc'[w] = "read"
              /\ \A v \in Workers \ {w} : pc'[v] = pc[v]
            BY <1>0, <2>1 DEF Acquire, TypeOK
        <3>. QED
            BY <3>1, NoWorkerAssumption DEF CalmInv, HoldsLock
    <2>2. CASE LeadMissing(w) \/ ReadRows(w) \/ GatherDone(w)
        <3>1. lock' = lock /\ pc[w] \in {"read", "gather"}
            BY <2>2 DEF LeadMissing, ReadRows, GatherDone, dbVars
        <3>. QED
            BY <1>1, <3>1 DEF CalmInv, HoldsLock
    <2>3. CASE Unlock(w)
        <3>1. /\ pc'[w] \in {"done", "raised"}
              /\ lock' = IF lock = w THEN NoWorker ELSE lock
            BY <1>0, <2>3 DEF Unlock, TypeOK
        <3>. QED
            BY <1>1, <3>1 DEF CalmInv, HoldsLock
    <2>. QED
        BY <2>1, <2>2, <2>3
<1>. QED
    BY <1>1, <1>4, <1>8, <1>9, QuietStep

\* What the commit of a call's rows does to a row: it is inserted, or it was
\* there, and is skipped if it is SENT and gets a task if it is not.
LEMMA CommittedRow ==
    ASSUME CalmInv, NEW w \in Workers, CommitRows(w), NEW r \in RowId
    PROVE  /\ plan[w][KeyOf(r)] = r =>
                 task'[w][r] = NewTask /\ table'[r].status # "SENT"
           /\ plan[w][KeyOf(r)] # r => task'[w][r] = task[w][r] /\ table'[r] = table[r]
           /\ Present(r) => table'[r] = table[r]
           /\ Present(r) /\ table[r].status # "SENT" => plan[w][KeyOf(r)] = r
           /\ ~Present(r) => (Present(r)' <=> plan[w][KeyOf(r)] = r)
<1>. DEFINE k == KeyOf(r)
<1>0. TypeOK /\ k \in Wanted /\ pc[w] = "write" /\ plan[w][k] \in Choices(w, k)
    BY RowIdParts DEF CalmInv, OutcomeInv, IInv, PlanKnown, CommitRows
<1>1. task'[w][r] = IF plan[w][k] = r THEN NewTask ELSE task[w][r]
    BY <1>0 DEF CommitRows, TypeOK
<1>2. table'[r] = IF r[1] = w /\ plan[w][k] = r THEN NewRow ELSE table[r]
    BY <1>0 DEF CommitRows, WithRowsOf, Inserted
<1>3. r[1] = w => ~Present(r)
    BY <1>0, RowIdParts DEF CalmInv, OutcomeInv, IInv, NoRowYet
<1>4. r[1] # w => r # <<w, k>>
    OBVIOUS
<1>5. CASE RowsOf(k) = {}
    <2>1. plan[w][k] = <<w, k>> /\ ~Present(r)
        BY <1>0, <1>5 DEF Choices, RowsOf
    <2>2. plan[w][k] = r <=> r[1] = w
        BY <1>4, <2>1, RowIdParts
    <2>. QED
        BY <1>1, <1>2, <2>1, <2>2 DEF NewRow, Present
<1>6. CASE RowsOf(k) # {}
    <2>1. PICK s \in RowsOf(k) : plan[w][k] = IF table[s].status = "SENT" THEN Skip ELSE s
        BY <1>0, <1>6 DEF Choices
    <2>2. s \in RowId /\ Present(s) /\ KeyOf(s) = k
        BY DEF RowsOf
    <2>3. Skip # r
        BY SkipAssumption DEF RowId
    <2>4. Present(r) => r = s
        BY <2>2, OneAtATime
    <2>5. plan[w][k] = r => r = s /\ Present(r) /\ table[r].status # "SENT"
        BY <2>1, <2>2, <2>3
    <2>. QED
        BY <1>1, <1>2, <1>3, <2>1, <2>3, <2>4, <2>5 DEF Present
<1>. QED
    BY <1>5, <1>6

\* The commit of a call's rows.
LEMMA CommitCalm ==
    ASSUME CalmInv, OutcomeInv', NEW w \in Workers, CommitRows(w)
    PROVE  NextCalmInv
<1>0. TypeOK
    BY DEF CalmInv, OutcomeInv, IInv
<1>1. /\ UNCHANGED <<lock, plan, crashes, unguarded>>
      /\ pc[w] = "write" /\ pc'[w] = "gather"
      /\ \A v \in Workers \ {w} : pc'[v] = pc[v] /\ task'[v] = task[v]
    BY <1>0 DEF CommitRows, TypeOK, mailVars, faultVars
<1>2. \A v \in Workers, r \in RowId : task[v][r].phase \notin Running
    BY <1>1, OneAtATime DEF Live
<1>3. \A v \in Workers, r \in RowId : task'[v][r].phase \in Running =>
          v = w /\ plan[w][KeyOf(r)] = r /\ task'[v][r] = NewTask
    BY <1>1, <1>2, CommittedRow
<1>4. NewTask.phase = "load" /\ NewTask.phase \in Running
    BY DEF NewTask, Running
<1>5. HoldsLock'
    BY <1>1 DEF CalmInv, HoldsLock
<1>6. LiveGathers'
    BY <1>1, <1>3 DEF LiveGathers, Live
<1>7. CacheIsCurrent' /\ TaskUnsent'
    <2>1. CacheIsCurrent'
        BY <1>3, <1>4 DEF CacheIsCurrent, Running
    <2>2. TaskUnsent'
        BY <1>3, CommittedRow DEF TaskUnsent
    <2>. QED
        BY <2>1, <2>2
<1>8. PlanKnown'
    BY <1>1 DEF CalmInv, HoldsLock, PlanKnown
<1>9. RowsSettled'
    <2>. SUFFICES ASSUME NEW r \in RowId, Present(r)'
                  PROVE  SettledRow(r)' \/ \E v \in Workers : task'[v][r].phase \in Running
        BY DEF RowsSettled
    <2>1. CASE plan[w][KeyOf(r)] = r
        BY <1>4, <2>1, CommittedRow
    <2>2. CASE plan[w][KeyOf(r)] # r
        BY <2>2, CommittedRow DEF SettledRow
    <2>. QED
        BY <2>1, <2>2
<1>. QED
    BY <1>1, <1>5, <1>6, <1>7, <1>8, <1>9 DEF NextCalmInv, CalmInv

\* A step of one task: what it has to say of its row.
LEMMA TaskCalm ==
    ASSUME CalmInv, OutcomeInv', NEW w \in Workers, NEW r \in RowId,
           task[w][r].phase \in Running,
           UNCHANGED <<lock, pc, plan, crashes, unguarded>>,
           \A v \in Workers, s \in RowId : v # w \/ s # r => task'[v][s] = task[v][s],
           \A s \in RowId : s # r => table'[s] = table[s],
           task'[w][r].phase \in {"send", "failed", "sent"} => task'[w][r].cached = table'[r],
           task'[w][r].phase \in Running => table'[r].status # "SENT",
           task'[w][r].phase \in Running \/ SettledRow(r)'
    PROVE  NextCalmInv
<1>1. Live(w) /\ pc[w] = "gather" /\ lock = w
    BY DEF Live, CalmInv, LiveGathers, HoldsLock
<1>2. \A v \in Workers : task[v][r].phase \in Running => v = w
    BY OneAtATime
<1>3. \A v \in Workers : Live(v)' => Live(v)
    BY <1>1 DEF Live
<1>4. HoldsLock' /\ LiveGathers'
    BY <1>3 DEF CalmInv, HoldsLock, LiveGathers
<1>5. CacheIsCurrent'
    BY <1>2 DEF CalmInv, CacheIsCurrent, Running
<1>6. TaskUnsent'
    BY <1>2 DEF CalmInv, TaskUnsent
<1>7. PlanKnown'
    BY <1>1, OneAtATime DEF PlanKnown
<1>8. RowsSettled'
    <2>. SUFFICES ASSUME crashes = 0, NEW s \in RowId, Present(s)'
                  PROVE  SettledRow(s)' \/ \E v \in Workers : task'[v][s].phase \in Running
        BY DEF RowsSettled
    <2>1. CASE s = r
        BY <2>1
    <2>2. CASE s # r
        BY <2>2 DEF CalmInv, RowsSettled, SettledRow, Present
    <2>. QED
        BY <2>1, <2>2
<1>. QED
    BY <1>4, <1>5, <1>6, <1>7, <1>8 DEF NextCalmInv, CalmInv

\* What a task commits is what it has assigned to its row.
LEMMA RecordedIsOutcome ==
    ASSUME CalmInv, NEW w \in Workers, NEW r \in RowId, Record(w, r)
    PROVE  table'[r] = Outcome(task[w][r])
<1>1. /\ task[w][r].phase \in {"failed", "sent"} /\ table' = Recorded(w, r)
      /\ table \in [RowId -> Row] /\ table[r] \in Row
    BY DEF Record, CalmInv, OutcomeInv, IInv, TypeOK
<1>2. task[w][r].cached = table[r]
    BY <1>1 DEF CalmInv, CacheIsCurrent
<1>3. table'[r] = Flush(table[r], table[r], Outcome(task[w][r]))
    BY <1>1, <1>2 DEF Recorded
<1>. QED
    BY <1>1, <1>3 DEF Flush, Outcome, Row

\* Steps of a task.
LEMMA DeliverCalm ==
    ASSUME CalmInv, OutcomeInv', NEW w \in Workers, NEW r \in RowId, DeliverStep(w, r)
    PROVE  NextCalmInv
<1>0. TypeOK /\ task[w][r] \in Task /\ task[w] \in [RowId -> Task]
    BY DEF CalmInv, OutcomeInv, IInv, TypeOK
<1>1. /\ UNCHANGED <<lock, pc, plan, crashes, unguarded>>
      /\ task[w][r].phase \in Running
      /\ \A v \in Workers, s \in RowId : v # w \/ s # r => task'[v][s] = task[v][s]
    BY <1>0 DEF DeliverStep, Load, Send, SendAccepted, SendRefused, SendAmbiguous,
       Record, TypeOK, dbVars, faultVars, Running
<1>2. table[r].status # "SENT"
    BY <1>1 DEF CalmInv, TaskUnsent
<1>3. CASE Load(w, r)
    <2>1. /\ UNCHANGED table
          /\ task'[w][r].phase = "send" /\ task'[w][r].cached = table[r]
        BY <1>0, <1>3 DEF Load, TypeOK, dbVars, mailVars, Task
    <2>. QED
        BY <1>1, <1>2, <2>1, TaskCalm DEF Running
<1>4. CASE Send(w, r)
    <2>1. /\ UNCHANGED table /\ task[w][r].phase = "send"
          /\ task'[w][r].phase \in {"sent", "failed"}
          /\ task'[w][r].cached = task[w][r].cached
        BY <1>0, <1>4
        DEF Send, SendAccepted, SendRefused, SendAmbiguous, TypeOK, dbVars, Task
    <2>2. task[w][r].cached = table[r]
        BY <2>1 DEF CalmInv, CacheIsCurrent
    <2>. QED
        BY <1>1, <1>2, <2>1, <2>2, TaskCalm DEF Running
<1>5. CASE Record(w, r)
    <2>1. /\ task[w][r].phase \in {"failed", "sent"}
          /\ task'[w][r] = Continue(task[w][r])
          /\ table'[r] = Outcome(task[w][r])
          /\ \A s \in RowId : s # r => table'[s] = table[s]
        BY <1>0, <1>5, RecordedIsOutcome DEF Record, Recorded, TypeOK, mailVars
    <2>2. /\ table'[r].status = "SENT" <=> task[w][r].phase = "sent"
          /\ table'[r].status \in {"SENT", "FAILED"}
          /\ table'[r].attempts = task[w][r].attempt
        BY <2>1 DEF Outcome
    <2>3. \/ /\ task'[w][r].phase = "send" /\ task'[w][r].cached = table'[r]
             /\ task[w][r].phase = "failed"
          \/ /\ task'[w][r].phase = "done"
             /\ task[w][r].phase = "sent" \/ task[w][r].attempt = MaxAttempts
        <3>1. task[w][r].attempt \in 1 .. MaxAttempts
            BY <1>0 DEF Task
        <3>2. CASE task[w][r].phase = "failed" /\ task[w][r].attempt < MaxAttempts
            BY <2>1, <3>2 DEF Continue
        <3>3. CASE ~(task[w][r].phase = "failed" /\ task[w][r].attempt < MaxAttempts)
            <4>1. task'[w][r].phase = "done"
                BY <1>0, <2>1, <3>3 DEF Continue, Task
            <4>. QED
                BY <2>1, <3>1, <3>3, <4>1, MaxAttemptsAssumption
        <3>. QED
            BY <3>2, <3>3
    <2>4. task'[w][r].phase \in Running \/ SettledRow(r)'
        BY <2>2, <2>3 DEF Running, SettledRow
    <2>5. task'[w][r].phase \in Running => table'[r].status # "SENT"
        BY <2>2, <2>3 DEF Running
    <2>6. task'[w][r].phase \in {"send", "failed", "sent"} => task'[w][r].cached = table'[r]
        BY <2>3
    <2>. QED
        BY <1>1, <2>1, <2>4, <2>5, <2>6, TaskCalm
<1>. QED
    BY <1>3, <1>4, <1>5 DEF DeliverStep

\* A process that dies leaves the calls that remain as they were.
LEMMA CrashCalm ==
    ASSUME CalmInv, OutcomeInv', NEW w \in Workers, Crash(w)
    PROVE  NextCalmInv
<1>0. TypeOK /\ crashes \in Nat
    BY BoundsAssumption DEF CalmInv, OutcomeInv, IInv, TypeOK
<1>1. /\ UNCHANGED <<plan, table, unguarded>> /\ crashes' = crashes + 1
      /\ pc'[w] = "dead" /\ lock' = IF lock = w THEN NoWorker ELSE lock
      /\ \A v \in Workers \ {w} : pc'[v] = pc[v] /\ task'[v] = task[v]
      /\ \A r \in RowId : task'[w][r].phase = "none"
    BY <1>0 DEF Crash, TypeOK, mailVars, NoTask
<1>2. HoldsLock'
    BY <1>1 DEF CalmInv, HoldsLock
<1>3. LiveGathers' /\ CacheIsCurrent' /\ TaskUnsent'
    <2>1. LiveGathers'
        BY <1>1 DEF CalmInv, LiveGathers, Live, Running
    <2>2. CacheIsCurrent'
        BY <1>1 DEF CalmInv, CacheIsCurrent
    <2>3. TaskUnsent'
        BY <1>1 DEF CalmInv, TaskUnsent, Running
    <2>. QED
        BY <2>1, <2>2, <2>3
<1>4. PlanKnown'
    <2>1. \A v \in Workers, k \in Wanted : Choices(v, k)' = Choices(v, k)
        BY <1>1 DEF Choices, RowsOf, Present
    <2>. QED
        BY <1>1, <2>1 DEF CalmInv, PlanKnown
<1>5. RowsSettled'
    BY <1>0, <1>1 DEF RowsSettled
<1>. QED
    BY <1>1, <1>2, <1>3, <1>4, <1>5 DEF NextCalmInv, CalmInv

\* Faults are counted, so that what has not come up now had not before.
LEMMA WasUndisturbed ==
    ASSUME TypeOK, [Next]_vars, Undisturbed'
    PROVE  Undisturbed
<1>1. dbFaults \in Nat /\ lockLosses \in Nat
    BY BoundsAssumption DEF TypeOK
<1>2. dbFaults' \in {dbFaults, dbFaults + 1} /\ lockLosses' \in {lockLosses, lockLosses + 1}
    <2>1. ASSUME NEW w \in Workers, CallStep(w) \/ \E r \in RowId : DeliverStep(w, r)
          PROVE  UNCHANGED <<dbFaults, lockLosses>>
        BY <2>1 DEF CallStep, Acquire, LeadMissing, ReadRows, CommitRows, GatherDone, Unlock,
           DeliverStep, Load, Send, SendAccepted, SendRefused, SendAmbiguous, Record, faultVars
    <2>2. ASSUME NEW w \in Workers, Fault(w)
          PROVE  dbFaults' \in {dbFaults, dbFaults + 1} /\ lockLosses' \in {lockLosses, lockLosses + 1}
        BY <2>2 DEF Fault, AcquireFault, RowsFault, DeliveryFault, CountDbFault, LoseLock, Crash
    <2>. QED
        BY <2>1, <2>2 DEF Next, Terminated, vars
<1>. QED
    BY <1>1, <1>2 DEF Undisturbed

\* The only fault of a step that disturbs nothing is the death of a process.
LEMMA OnlyCrashes ==
    ASSUME Undisturbed, Undisturbed', NEW w \in Workers, Fault(w)
    PROVE  Crash(w)
<1>1. dbFaults' # dbFaults + 1 /\ lockLosses' # lockLosses + 1
    BY DEF Undisturbed
<1>. QED
    BY <1>1 DEF Fault, AcquireFault, RowsFault, DeliveryFault, LoseLock, CountDbFault

\* Every step that disturbs nothing keeps the invariant.
LEMMA CalmStep ==
    ASSUME Undisturbed, Undisturbed', CalmInv, OutcomeInv', [Next]_vars
    PROVE  NextCalmInv
<1>1. CASE UNCHANGED vars
    <2>1. HoldsLock' /\ LiveGathers'
        BY <1>1 DEF vars, CalmInv, HoldsLock, LiveGathers, Live
    <2>2. \A v \in Workers, k \in Wanted : Choices(v, k)' = Choices(v, k)
        BY <1>1 DEF vars, Choices, RowsOf, Present
    <2>3. PlanKnown'
        BY <1>1, <2>2 DEF vars, CalmInv, PlanKnown
    <2>. QED
        BY <1>1, <2>1, <2>3, QuietStep DEF vars
<1>2. ASSUME NEW w \in Workers, CallStep(w) PROVE NextCalmInv
    BY <1>2, CallCalm, CommitCalm DEF CallStep
<1>3. ASSUME NEW w \in Workers, NEW r \in RowId, DeliverStep(w, r) PROVE NextCalmInv
    BY <1>3, DeliverCalm
<1>4. ASSUME NEW w \in Workers, Fault(w) PROVE NextCalmInv
    BY <1>4, OnlyCrashes, CrashCalm
<1>5. CASE Terminated
    BY <1>1, <1>5 DEF Terminated
<1>. QED
    BY <1>1, <1>2, <1>3, <1>4, <1>5 DEF Next

CalmWhileUndisturbed == Undisturbed => CalmInv

\* CalmInv holds up to the first database error or lost lock.
LEMMA CalmKept == Spec => []CalmWhileUndisturbed
<1>1. Init /\ OutcomeInv => CalmWhileUndisturbed
    <2>. SUFFICES ASSUME Init, OutcomeInv PROVE CalmInv
        BY DEF CalmWhileUndisturbed
    <2>1. /\ \A w \in Workers, r \in RowId : task[w][r].phase = "none"
          /\ \A r \in RowId : table[r].status = "ABSENT"
        BY DEF Init, NoTask, NoRow
    <2>2. HoldsLock /\ LiveGathers /\ PlanKnown
        BY <2>1 DEF Init, HoldsLock, LiveGathers, Live, Running, PlanKnown
    <2>3. CacheIsCurrent
        BY <2>1 DEF CacheIsCurrent
    <2>4. TaskUnsent /\ RowsSettled
        BY <2>1 DEF TaskUnsent, RowsSettled, Present
    <2>. QED
        BY <2>2, <2>3, <2>4 DEF Init, CalmInv
<1>2. CalmWhileUndisturbed /\ TypeOK /\ OutcomeInv' /\ [Next]_vars => CalmWhileUndisturbed'
    <2>. SUFFICES ASSUME CalmWhileUndisturbed, TypeOK, OutcomeInv', [Next]_vars, Undisturbed'
                  PROVE  NextCalmInv
        BY DEF CalmWhileUndisturbed, NextCalmInv
    <2>. QED
        BY WasUndisturbed, CalmStep DEF CalmWhileUndisturbed
<1>. QED
    BY <1>1, <1>2, OutcomesKept, TypeCorrect, PTL DEF Spec

\* Until a database error or a lost lock comes up, deliveries of two calls
\* never overlap (service.py:104-106), whatever crashes.
THEOREM Serialized == Spec => [](Undisturbed => DeliveriesSerialized)
<1>1. CalmWhileUndisturbed => (Undisturbed => DeliveriesSerialized)
    BY OneAtATime DEF CalmWhileUndisturbed, DeliveriesSerialized
<1>. QED
    BY <1>1, CalmKept, PTL

\* Until a database error, a lost lock or a crash comes up, every row is SENT,
\* or FAILED after exactly the attempts allowed, between two dispatches
\* (service.py:41).
THEOREM RowsEndSettled == Spec => []Settled
<1>1. CalmWhileUndisturbed /\ ReturnedMeansRecorded => Settled
    <2>. SUFFICES ASSUME CalmInv, ReturnedMeansRecorded, crashes = 0, lead,
                         NEW w \in Workers, pc[w] = "done",
                         \A v \in Workers : pc[v] # "gather",
                         NEW k \in Wanted
                  PROVE  \E r \in RowsOf(k) : SettledRow(r)
        BY DEF CalmWhileUndisturbed, Settled, SettledRow
    <2>1. PICK r \in RowsOf(k) : table[r].status \in {"FAILED", "SENT"}
        BY DEF ReturnedMeansRecorded
    <2>2. r \in RowId /\ Present(r)
        BY DEF RowsOf
    <2>3. \A v \in Workers : task[v][r].phase \notin Running
        BY <2>2 DEF CalmInv, LiveGathers, Live
    <2>. QED
        BY <2>2, <2>3 DEF CalmInv, RowsSettled
<1>. QED
    BY <1>1, CalmKept, ReturnedIsRecorded, PTL

----------------------------------------------------------------------------
(* The dispatch implements the ledger *)

\* The record of a pair is the status of its only row.
RecordTells ==
    \A k \in Wanted :
        /\ RowsOf(k) = {} => RecordOf(k) = "ABSENT"
        /\ \A r \in RowsOf(k) : RecordOf(k) = table[r].status

\* It is, until something is disturbed.
LEMMA RecordIsRow == CalmInv => RecordTells
<1>. SUFFICES ASSUME CalmInv, NEW k \in Wanted, NEW r \in RowsOf(k)
              PROVE  RecordOf(k) = table[r].status
    BY DEF RecordTells, RecordOf
<1>1. \A s \in RowsOf(k) : s = r
    BY OneAtATime DEF RowsOf
<1>2. (CHOOSE s \in RowsOf(k) : TRUE) \in RowsOf(k)
    OBVIOUS
<1>. QED
    BY <1>1, <1>2 DEF RecordOf

\* The same of the next state.
LEMMA RecordIsRowNext == CalmInv' => RecordTells'
BY RecordIsRow, PTL

LedgerStep == [Ledger!LedgerNext]_(Ledger!ledgerVars)

\* A step that changes no row and no mailbox.
LEMMA LedgerStutters ==
    ASSUME UNCHANGED <<table, inbox>>
    PROVE  LedgerStep
BY DEF LedgerStep, Ledger!ledgerVars, RecordOf, RowsOf, Present

\* The commit of a call's rows opens the records that are missing.
LEMMA CommitOpens ==
    ASSUME CalmInv, CalmInv', NEW w \in Workers, CommitRows(w)
    PROVE  LedgerStep
<1>. DEFINE rec == [k \in Wanted |-> RecordOf(k)]
<1>0. /\ RecordTells /\ RecordTells' /\ UNCHANGED inbox
      /\ \A k \in Wanted : plan[w][k] \in Choices(w, k)
    BY RecordIsRow, RecordIsRowNext DEF CommitRows, mailVars, CalmInv, PlanKnown
<1>1. ASSUME NEW k \in Wanted, RowsOf(k) = {}
      PROVE  RecordOf(k) = "ABSENT" /\ RecordOf(k)' = "PENDING"
    <2>1. <<w, k>> \in RowId /\ KeyOf(<<w, k>>) = k /\ <<w, k>>[1] = w
        BY RowIdParts
    <2>2. plan[w][k] = <<w, k>>
        BY <1>0, <1>1 DEF Choices
    <2>3. table'[<<w, k>>] = NewRow
        BY <2>1, <2>2 DEF CommitRows, WithRowsOf, Inserted
    <2>4. <<w, k>> \in RowsOf(k)'
        BY <2>1, <2>3 DEF RowsOf, Present, NewRow
    <2>. QED
        BY <1>0, <1>1, <2>3, <2>4 DEF RecordTells, NewRow
<1>2. ASSUME NEW k \in Wanted, RowsOf(k) # {}
      PROVE  RecordOf(k) # "ABSENT" /\ RecordOf(k)' = RecordOf(k)
    <2>1. PICK r \in RowsOf(k) : TRUE
        BY <1>2
    <2>2. r \in RowId /\ KeyOf(r) = k /\ Present(r) /\ table'[r] = table[r]
        BY CommittedRow DEF RowsOf
    <2>3. r \in RowsOf(k)'
        BY <2>2 DEF RowsOf, Present
    <2>. QED
        BY <1>0, <2>1, <2>2, <2>3 DEF RecordTells, Present
<1>3. rec' = [k \in Wanted |-> IF rec[k] = "ABSENT" THEN "PENDING" ELSE rec[k]]
    BY <1>1, <1>2
<1>4. CASE \E k \in Wanted : rec[k] = "ABSENT"
    BY <1>0, <1>3, <1>4 DEF LedgerStep, Ledger!LedgerNext, Ledger!Open
<1>5. CASE ~(\E k \in Wanted : rec[k] = "ABSENT")
    <2>1. rec' = rec
        BY <1>3, <1>5
    <2>. QED
        BY <1>0, <2>1 DEF LedgerStep, Ledger!ledgerVars
<1>. QED
    BY <1>4, <1>5

\* What a task does to the mailbox and the row of its pair.
LEMMA DeliverDelivers ==
    ASSUME CalmInv, CalmInv', NEW w \in Workers, NEW r \in RowId, DeliverStep(w, r)
    PROVE  LedgerStep
<1>. DEFINE rec == [k \in Wanted |-> RecordOf(k)]
            k == KeyOf(r)
<1>0. /\ TypeOK /\ k \in Wanted /\ RecordTells /\ RecordTells'
    BY RowIdParts, RecordIsRow, RecordIsRowNext DEF CalmInv, OutcomeInv, IInv
<1>1. task[w][r].phase \in Running
    BY DEF DeliverStep, Load, Send, SendAccepted, SendRefused, SendAmbiguous, Record, Running
<1>2. Present(r) /\ table[r].status # "SENT" /\ table[r] \in Row
    BY <1>0, <1>1 DEF CalmInv, TaskUnsent, OutcomeInv, IInv, TaskPresent, TypeOK
<1>3. r \in RowsOf(k) /\ table[r].status \in {"PENDING", "FAILED"}
    BY <1>2 DEF RowsOf, Present, Row, Status
<1>4. rec[k] \in {"PENDING", "FAILED"}
    BY <1>0, <1>3 DEF RecordTells
<1>5. CASE Load(w, r) \/ SendRefused(w, r)
    BY <1>5, LedgerStutters DEF Load, SendRefused, dbVars, mailVars
<1>6. CASE SendAccepted(w, r) \/ SendAmbiguous(w, r)
    <2>1. inbox' = [inbox EXCEPT ![k] = @ + 1] /\ UNCHANGED table
        BY <1>6 DEF SendAccepted, SendAmbiguous, dbVars
    <2>2. rec' = rec
        BY <2>1 DEF RecordOf, RowsOf, Present
    <2>3. Ledger!Deliver(k)
        BY <1>4, <2>1, <2>2 DEF Ledger!Deliver, Ledger!Unsettled
    <2>. QED
        BY <1>0, <2>3 DEF LedgerStep, Ledger!LedgerNext
<1>7. CASE Record(w, r)
    <2>1. /\ table'[r].status \in {"FAILED", "SENT"} /\ UNCHANGED inbox
          /\ table'[r].status = "SENT" => task[w][r].phase = "sent"
          /\ \A s \in RowId : s # r => table'[s] = table[s]
        <3>1. table' = Recorded(w, r) /\ UNCHANGED inbox /\ table'[r] = Outcome(task[w][r])
            BY <1>7, RecordedIsOutcome DEF Record, mailVars
        <3>2. \A s \in RowId : s # r => table'[s] = table[s]
            BY <1>0, <3>1 DEF Recorded, TypeOK
        <3>. QED
            BY <3>1, <3>2 DEF Outcome
    <2>2. r \in RowsOf(k)'
        BY <1>3, <2>1 DEF RowsOf, Present
    <2>3. \A j \in Wanted : j # k => RecordOf(j)' = RecordOf(j)
        <3>. SUFFICES ASSUME NEW j \in Wanted, j # k PROVE RecordOf(j)' = RecordOf(j)
            OBVIOUS
        <3>1. RowsOf(j)' = RowsOf(j) /\ r \notin RowsOf(j)
            BY <2>1 DEF RowsOf, Present
        <3>2. CASE RowsOf(j) = {}
            BY <1>0, <3>1, <3>2 DEF RecordTells
        <3>3. CASE RowsOf(j) # {}
            <4>1. PICK s \in RowsOf(j) : s # r /\ s \in RowId
                BY <3>1, <3>3 DEF RowsOf
            <4>. QED
                BY <1>0, <2>1, <3>1, <4>1 DEF RecordTells
        <3>. QED
            BY <3>2, <3>3
    <2>4. RecordOf(k)' = table'[r].status
        BY <1>0, <2>2 DEF RecordTells
    <2>5. rec' = [rec EXCEPT ![k] = table'[r].status]
        BY <1>0, <2>3, <2>4
    <2>6. table'[r].status = "SENT" => inbox[k] > 0
        BY <2>1 DEF CalmInv, OutcomeInv, SentIsBacked
    <2>7. Ledger!Fail(k) \/ Ledger!Confirm(k)
        BY <1>4, <2>1, <2>5, <2>6 DEF Ledger!Fail, Ledger!Confirm, Ledger!Unsettled
    <2>. QED
        BY <1>0, <2>7 DEF LedgerStep, Ledger!LedgerNext
<1>. QED
    BY <1>5, <1>6, <1>7 DEF DeliverStep, Send

\* Every step that disturbs nothing is a step of the ledger, or changes none
\* of its records and copies.
LEMMA StepRefines ==
    ASSUME Undisturbed, Undisturbed', CalmInv, CalmInv', [Next]_vars
    PROVE  LedgerStep
<1>1. CASE UNCHANGED vars \/ Terminated
    BY <1>1, LedgerStutters DEF Terminated, vars
<1>2. ASSUME NEW w \in Workers, CallStep(w) PROVE LedgerStep
    <2>1. CASE CommitRows(w)
        BY <2>1, CommitOpens
    <2>2. CASE ~CommitRows(w)
        <3>1. UNCHANGED <<table, inbox>>
            BY <1>2, <2>2 DEF CallStep, Acquire, LeadMissing, ReadRows, GatherDone, Unlock,
               dbVars, mailVars
        <3>. QED
            BY <3>1, LedgerStutters
    <2>. QED
        BY <2>1, <2>2
<1>3. ASSUME NEW w \in Workers, NEW r \in RowId, DeliverStep(w, r) PROVE LedgerStep
    BY <1>3, DeliverDelivers
<1>4. ASSUME NEW w \in Workers, Fault(w) PROVE LedgerStep
    <2>1. UNCHANGED <<table, inbox>>
        BY <1>4, OnlyCrashes DEF Crash, mailVars
    <2>. QED
        BY <2>1, LedgerStutters
<1>. QED
    BY <1>1, <1>2, <1>3, <1>4 DEF Next

\* Until a database error or a lost lock comes up, every step of the dispatch
\* is one of the ledger (service.py:72-116): no copy goes out after SENT is
\* recorded, SENT is final, and the rows of all pairs appear at once.
THEOREM LedgerUntilDisturbed == Spec => [][Undisturbed' => LedgerStep]_vars
<1>1. CalmWhileUndisturbed /\ CalmWhileUndisturbed' /\ TypeOK /\ [Next]_vars
          => (Undisturbed' => LedgerStep)
    <2>. SUFFICES ASSUME CalmWhileUndisturbed, CalmWhileUndisturbed', TypeOK, [Next]_vars,
                         Undisturbed'
                  PROVE  LedgerStep
        OBVIOUS
    <2>1. Undisturbed /\ CalmInv /\ CalmInv'
        BY WasUndisturbed DEF CalmWhileUndisturbed
    <2>. QED
        BY <2>1, StepRefines
<1>. QED
    BY <1>1, CalmKept, TypeCorrect, PTL DEF Spec

\* Where no database error and no lost lock can come up at all.
Calm == MaxDbFaults = 0 /\ MaxLockLosses = 0

\* There, the dispatch implements the ledger as a whole.
THEOREM DispatchImplementsLedger == Calm => (Spec => ImplementsLedger)
<1>. SUFFICES ASSUME Calm PROVE Spec => ImplementsLedger
    OBVIOUS
<1>1. Init => Ledger!LedgerInit
    <2>. SUFFICES ASSUME Init PROVE Ledger!LedgerInit
        OBVIOUS
    <2>1. \A k \in Wanted : RowsOf(k) = {}
        BY DEF Init, NoRow, RowsOf, Present
    <2>2. \A k \in Wanted : RecordOf(k) = "ABSENT"
        BY <2>1 DEF RecordOf
    <2>. QED
        BY <2>2 DEF Init, Ledger!LedgerInit
<1>2. TypeOK => Undisturbed
    BY DEF Calm, TypeOK, Undisturbed
<1>3. (Undisturbed' => LedgerStep) /\ Undisturbed' => [Ledger!LedgerNext]_(Ledger!ledgerVars)
    BY DEF LedgerStep
<1>4. UNCHANGED vars => [Ledger!LedgerNext]_(Ledger!ledgerVars)
    BY LedgerStutters DEF vars, LedgerStep
<1>. QED
    BY <1>1, <1>2, <1>3, <1>4, TypeCorrect, LedgerUntilDisturbed, PTL
    DEF Spec, ImplementsLedger, Ledger!LedgerSpec

=============================================================================
