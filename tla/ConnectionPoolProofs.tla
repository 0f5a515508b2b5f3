------------------------ MODULE ConnectionPoolProofs ------------------------
(***************************************************************************)
(* Proofs about ConnectionPool, for any finite sets of leads and mails and *)
(* any size of the pool.                                                   *)
(***************************************************************************)
EXTENDS ConnectionPool, TLAPS, FiniteSetTheorems

----------------------------------------------------------------------------
(* Sets of those that are at certain places, and how a step changes their  *)
(* number                                                                  *)

At(f, S, P) == {x \in S : f[x] \in P}

\* One of S goes from a place to another.
LEMMA OneMoves ==
    ASSUME NEW S, IsFiniteSet(S), NEW P, NEW f, NEW g, NEW x \in S,
           \A y \in S : y # x => g[y] = f[y]
    PROVE  /\ Cardinality(At(f, S, P)) \in Nat /\ Cardinality(At(g, S, P)) \in Nat
           /\ (f[x] \in P <=> g[x] \in P) =>
                Cardinality(At(g, S, P)) = Cardinality(At(f, S, P))
           /\ f[x] \notin P /\ g[x] \in P =>
                Cardinality(At(g, S, P)) = Cardinality(At(f, S, P)) + 1
           /\ f[x] \in P /\ g[x] \notin P =>
                Cardinality(At(f, S, P)) = Cardinality(At(g, S, P)) + 1
<1>1. /\ IsFiniteSet(At(f, S, P)) /\ IsFiniteSet(At(g, S, P))
      /\ Cardinality(At(f, S, P)) \in Nat /\ Cardinality(At(g, S, P)) \in Nat
    BY FS_Subset, FS_CardinalityType DEF At
<1>2. ASSUME f[x] \in P <=> g[x] \in P PROVE At(g, S, P) = At(f, S, P)
    BY <1>2 DEF At
<1>3. ASSUME f[x] \notin P, g[x] \in P
      PROVE  At(g, S, P) = At(f, S, P) \cup {x} /\ x \notin At(f, S, P)
    BY <1>3 DEF At
<1>4. ASSUME f[x] \in P, g[x] \notin P
      PROVE  At(f, S, P) = At(g, S, P) \cup {x} /\ x \notin At(g, S, P)
    BY <1>4 DEF At
<1>5. ASSUME f[x] \notin P, g[x] \in P
      PROVE  Cardinality(At(g, S, P)) = Cardinality(At(f, S, P)) + 1
    BY <1>1, <1>3, <1>5, FS_AddElement
<1>6. ASSUME f[x] \in P, g[x] \notin P
      PROVE  Cardinality(At(f, S, P)) = Cardinality(At(g, S, P)) + 1
    BY <1>1, <1>4, <1>6, FS_AddElement
<1>. QED
    BY <1>1, <1>2, <1>5, <1>6

----------------------------------------------------------------------------
(* Who holds a connection *)

\* The tasks of all leads in one function.
Flat == [lm \in Leads \X Mails |-> task[lm[1]][lm[2]]]

\* How many connections are held for a lock, an INSERT, the row transaction
\* and the transactions of the tasks.
ForLock == Cardinality(At(call, Leads, Pinning))
ForInsert == Cardinality(At(post, Leads, {"insert"}))
ForRows == Cardinality(At(call, Leads, {"rows"}))
ForTasks == Cardinality(At(Flat, Leads \X Mails, InTask))

Held == ForLock + ForInsert + ForRows + ForTasks

\* A call begins after the commit, and its tasks after the row transaction.
Beginnings ==
    \A l \in Leads :
        /\ post[l] # "created" => call[l] = "none"
        /\ call[l] \in {"none", "lockWait", "rowsWait", "rows", "refused"} =>
               \A m \in Mails : task[l][m] = "none"

\* The inductive invariant: nothing leaks, and everything has its turn.
PoolInv ==
    /\ TypeOK
    /\ Beginnings
    /\ free + Held = PoolSize

\* Which places hold a connection.
LEMMA Places ==
    /\ "rowsWait" \in Pinning /\ "rows" \in Pinning /\ "gather" \in Pinning
    /\ "return" \in Pinning /\ "raise" \in Pinning
    /\ "none" \notin Pinning /\ "lockWait" \notin Pinning /\ "refused" \notin Pinning
    /\ "done" \notin Pinning /\ "raised" \notin Pinning
    /\ "load" \in InTask /\ "record" \in InTask
    /\ "loadWait" \notin InTask /\ "recordWait" \notin InTask /\ "send" \notin InTask
    /\ "none" \notin InTask /\ "done" \notin InTask /\ "raised" \notin InTask
BY DEF Pinning, InTask

HeldOk == ForLock \in Nat /\ ForInsert \in Nat /\ ForRows \in Nat /\ ForTasks \in Nat

\* The number of holders of each kind is a number.
LEMMA HeldType == HeldOk
<1>1. IsFiniteSet(Leads \X Mails)
    BY FiniteAssumption, FS_Product
<1>2. /\ IsFiniteSet(At(call, Leads, Pinning)) /\ IsFiniteSet(At(post, Leads, {"insert"}))
      /\ IsFiniteSet(At(call, Leads, {"rows"}))
      /\ IsFiniteSet(At(Flat, Leads \X Mails, InTask))
    BY <1>1, FiniteAssumption, FS_Subset DEF At
<1>. QED
    BY <1>2, FS_CardinalityType DEF HeldOk, ForLock, ForInsert, ForRows, ForTasks

\* A step of a submission.
LEMMA PostCount ==
    ASSUME TypeOK, NEW l \in Leads, NEW from, NEW to, PostStep(l, from, to)
    PROVE  /\ from # "insert" /\ to # "insert" => ForInsert' = ForInsert
           /\ from # "insert" /\ to = "insert" => ForInsert' = ForInsert + 1
           /\ from = "insert" /\ to # "insert" => ForInsert = ForInsert' + 1
<1>1. /\ post[l] = from /\ post'[l] = to
      /\ \A k \in Leads : k # l => post'[k] = post[k]
    BY DEF PostStep, TypeOK
<1>. QED
    BY <1>1, FiniteAssumption, OneMoves DEF ForInsert

\* A step of a call.
LEMMA CallMoves ==
    ASSUME TypeOK, NEW l \in Leads, NEW to, call' = [call EXCEPT ![l] = to], NEW P
    PROVE  /\ (call[l] \in P <=> to \in P) =>
                Cardinality(At(call', Leads, P)) = Cardinality(At(call, Leads, P))
           /\ call[l] \notin P /\ to \in P =>
                Cardinality(At(call', Leads, P)) = Cardinality(At(call, Leads, P)) + 1
           /\ call[l] \in P /\ to \notin P =>
                Cardinality(At(call, Leads, P)) = Cardinality(At(call', Leads, P)) + 1
<1>. DEFINE g == call'
<1>1. g[l] = to /\ \A k \in Leads : k # l => g[k] = call[k]
    BY DEF TypeOK
<1>2. IsFiniteSet(Leads)
    BY FiniteAssumption
<1>. HIDE DEF g
<1>3. /\ (call[l] \in P <=> g[l] \in P) =>
            Cardinality(At(g, Leads, P)) = Cardinality(At(call, Leads, P))
      /\ call[l] \notin P /\ g[l] \in P =>
            Cardinality(At(g, Leads, P)) = Cardinality(At(call, Leads, P)) + 1
      /\ call[l] \in P /\ g[l] \notin P =>
            Cardinality(At(call, Leads, P)) = Cardinality(At(g, Leads, P)) + 1
    BY <1>1, <1>2, OneMoves
<1>. QED
    BY <1>1, <1>3 DEF g

\* Connections held for locks.
LEMMA LockCount ==
    ASSUME TypeOK, NEW l \in Leads, NEW to, call' = [call EXCEPT ![l] = to]
    PROVE  /\ (call[l] \in Pinning <=> to \in Pinning) => ForLock' = ForLock
           /\ call[l] \notin Pinning /\ to \in Pinning => ForLock' = ForLock + 1
           /\ call[l] \in Pinning /\ to \notin Pinning => ForLock = ForLock' + 1
<1>1. /\ ForLock = Cardinality(At(call, Leads, Pinning))
      /\ ForLock' = Cardinality(At(call', Leads, Pinning))
    BY DEF ForLock, At, Pinning
<1>. QED
    BY <1>1, CallMoves

\* Connections held for the row transaction.
LEMMA RowsCount ==
    ASSUME TypeOK, NEW l \in Leads, NEW to, call' = [call EXCEPT ![l] = to]
    PROVE  /\ (call[l] \in {"rows"} <=> to \in {"rows"}) => ForRows' = ForRows
           /\ call[l] \notin {"rows"} /\ to \in {"rows"} => ForRows' = ForRows + 1
           /\ call[l] \in {"rows"} /\ to \notin {"rows"} => ForRows = ForRows' + 1
<1>1. /\ ForRows = Cardinality(At(call, Leads, {"rows"}))
      /\ ForRows' = Cardinality(At(call', Leads, {"rows"}))
    BY DEF ForRows, At
<1>. QED
    BY <1>1, CallMoves

\* A step of a task.
LEMMA TaskCount ==
    ASSUME TypeOK, NEW l \in Leads, NEW m \in Mails, NEW to,
           task' = [task EXCEPT ![l][m] = to]
    PROVE  /\ (task[l][m] \in InTask <=> to \in InTask) => ForTasks' = ForTasks
           /\ task[l][m] \notin InTask /\ to \in InTask => ForTasks' = ForTasks + 1
           /\ task[l][m] \in InTask /\ to \notin InTask => ForTasks = ForTasks' + 1
<1>1. <<l, m>> \in Leads \X Mails /\ IsFiniteSet(Leads \X Mails)
    BY FiniteAssumption, FS_Product
<1>2. Flat[<<l, m>>] = task[l][m] /\ Flat'[<<l, m>>] = to
    BY <1>1 DEF Flat, TypeOK
<1>3. \A x \in Leads \X Mails : x # <<l, m>> => Flat'[x] = Flat[x]
    BY DEF Flat, TypeOK
<1>4. /\ ForTasks = Cardinality(At(Flat, Leads \X Mails, InTask))
      /\ ForTasks' = Cardinality(At(Flat', Leads \X Mails, InTask))
    BY DEF ForTasks, At, InTask
<1>5. /\ (Flat[<<l, m>>] \in InTask <=> Flat'[<<l, m>>] \in InTask) => ForTasks' = ForTasks
      /\ Flat[<<l, m>>] \notin InTask /\ Flat'[<<l, m>>] \in InTask => ForTasks' = ForTasks + 1
      /\ Flat[<<l, m>>] \in InTask /\ Flat'[<<l, m>>] \notin InTask => ForTasks = ForTasks' + 1
    BY <1>1, <1>3, <1>4, OneMoves
<1>. QED
    BY <1>2, <1>5

\* What a step leaves alone it leaves counted.
LEMMA SameCount ==
    /\ UNCHANGED post => ForInsert' = ForInsert
    /\ UNCHANGED call => ForLock' = ForLock /\ ForRows' = ForRows
    /\ UNCHANGED task => ForTasks' = ForTasks
BY DEF ForInsert, ForLock, ForRows, ForTasks, Flat

\* The same of the next state.
LEMMA HeldTypeNext == HeldOk'
BY HeldType, PTL

\* A step of a submission takes or gives what it holds less or more.
LEMMA PostBalance ==
    ASSUME PoolInv, NEW l \in Leads, Submit(l) \/ Posting(l)
    PROVE  free' + Held' = free + Held /\ free' \in Nat
<1>1. TypeOK /\ free \in Nat /\ (post[l] # "created" => call[l] = "none")
    BY PoolSizeAssumption DEF PoolInv, TypeOK, Beginnings
<1>2. CASE Submit(l)
    <2>1. ForInsert' = ForInsert /\ free' = free
        BY <1>1, <1>2, PostCount DEF Submit
    <2>2. ForLock' = ForLock /\ ForRows' = ForRows /\ ForTasks' = ForTasks
        BY <1>2, SameCount DEF Submit, tasks
    <2>. QED
        BY <1>1, <2>1, <2>2, HeldType, HeldTypeNext DEF Held, HeldOk
<1>3. CASE InsertBegin(l)
    <2>1. ForInsert' = ForInsert + 1
        BY <1>1, <1>3, PostCount DEF InsertBegin
    <2>2. ForLock' = ForLock /\ ForRows' = ForRows /\ ForTasks' = ForTasks
        BY <1>3, SameCount DEF InsertBegin, tasks
    <2>. QED
        BY <1>1, <1>3, <2>1, <2>2, HeldType, HeldTypeNext DEF InsertBegin, Take, Held, HeldOk
<1>4. CASE InsertEnd(l)
    <2>1. ForInsert = ForInsert' + 1
        BY <1>1, <1>4, PostCount DEF InsertEnd
    <2>2. call[l] = "none" /\ call' = [call EXCEPT ![l] = "lockWait"]
        BY <1>1, <1>4 DEF InsertEnd, PostStep
    <2>3. ForLock' = ForLock /\ ForRows' = ForRows
        BY <1>1, <2>2, LockCount, RowsCount, Places
    <2>4. ForTasks' = ForTasks
        BY <1>4, SameCount DEF InsertEnd, tasks
    <2>5. free' = free + 1
        BY <1>4 DEF InsertEnd, Give
    <2>. QED
        BY <1>1, <2>1, <2>3, <2>4, <2>5, HeldType, HeldTypeNext DEF Held, HeldOk
<1>5. CASE InsertTimeout(l)
    <2>1. ForInsert' = ForInsert /\ free' = free
        BY <1>1, <1>5, PostCount DEF InsertTimeout
    <2>2. ForLock' = ForLock /\ ForRows' = ForRows /\ ForTasks' = ForTasks
        BY <1>5, SameCount DEF InsertTimeout, tasks
    <2>. QED
        BY <1>1, <2>1, <2>2, HeldType, HeldTypeNext DEF Held, HeldOk
<1>. QED
    BY <1>2, <1>3, <1>4, <1>5 DEF Posting

\* A step of a call does.
LEMMA CallBalance ==
    ASSUME PoolInv, NEW l \in Leads, Calling(l)
    PROVE  free' + Held' = free + Held /\ free' \in Nat
<1>1. TypeOK /\ free \in Nat
    BY PoolSizeAssumption DEF PoolInv, TypeOK
<1>2. ForInsert' = ForInsert
    BY SameCount
    DEF Calling, LockBegin, LockTimeout, RowsBegin, RowsEnd, RowsTimeout, GatherDone, Unlock
<1>3. CASE RowsEnd(l)
    <2>1. call[l] = "rows" /\ call' = [call EXCEPT ![l] = "gather"]
        BY <1>3 DEF RowsEnd, CallStep
    <2>a. call[l] \in Pinning /\ "gather" \in Pinning /\ "gather" \notin {"rows"}
        BY <2>1, Places
    <2>b. ForLock' = ForLock
        BY <1>1, <2>1, <2>a, LockCount, RowsCount
    <2>c. ForRows = ForRows' + 1
        BY <1>1, <2>1, <2>a, RowsCount
    <2>2. ForLock' = ForLock /\ ForRows = ForRows' + 1
        BY <2>b, <2>c
    <2>3. \A m \in Mails : task[l][m] = "none"
        BY <2>1 DEF PoolInv, Beginnings
    <2>4. At(Flat, Leads \X Mails, InTask)' = At(Flat, Leads \X Mails, InTask)
        BY <1>1, <1>3, <2>3 DEF RowsEnd, At, Flat, InTask, TypeOK
    <2>5. ForTasks' = ForTasks
        BY <2>4 DEF ForTasks
    <2>. QED
        BY <1>1, <1>2, <1>3, <2>2, <2>5, HeldType, HeldTypeNext DEF RowsEnd, Give, Held, HeldOk
<1>4. CASE ~RowsEnd(l)
    <2>1. ForTasks' = ForTasks
        BY <1>4, SameCount
        DEF Calling, LockBegin, LockTimeout, RowsBegin, RowsTimeout, GatherDone, Unlock, tasks
    <2>2. CASE LockBegin(l)
        <3>1. ForLock' = ForLock + 1 /\ ForRows' = ForRows
            <4>1. call[l] = "lockWait" /\ call' = [call EXCEPT ![l] = "rowsWait"]
                BY <2>2 DEF LockBegin, CallStep
            <4>2. /\ call[l] \notin Pinning /\ "rowsWait" \in Pinning
                  /\ call[l] \notin {"rows"} /\ "rowsWait" \notin {"rows"}
                BY <4>1, Places
            <4>3. ForLock' = ForLock + 1
                BY <1>1, <4>1, <4>2, LockCount
            <4>4. ForRows' = ForRows
                BY <1>1, <4>1, <4>2, RowsCount
            <4>. QED
                BY <4>3, <4>4
        <3>. QED
            BY <1>1, <1>2, <2>1, <2>2, <3>1, HeldType, HeldTypeNext DEF LockBegin, Take, Held, HeldOk
    <2>3. CASE RowsBegin(l)
        <3>1. ForLock' = ForLock /\ ForRows' = ForRows + 1
            BY <1>1, <2>3, LockCount, RowsCount, Places DEF RowsBegin, CallStep
        <3>. QED
            BY <1>1, <1>2, <2>1, <2>3, <3>1, HeldType, HeldTypeNext DEF RowsBegin, Take, Held, HeldOk
    <2>4. CASE LockTimeout(l) \/ RowsTimeout(l) \/ GatherDone(l)
        <3>1. ForLock' = ForLock /\ ForRows' = ForRows
            BY <1>1, <2>4, LockCount, RowsCount, Places
            DEF LockTimeout, RowsTimeout, GatherDone, CallStep
        <3>2. free' = free
            BY <2>4 DEF LockTimeout, RowsTimeout, GatherDone
        <3>. QED
            BY <1>1, <1>2, <2>1, <3>1, <3>2, HeldType, HeldTypeNext DEF Held, HeldOk
    <2>5. CASE Unlock(l)
        <3>1. ForLock = ForLock' + 1 /\ ForRows' = ForRows
            BY <1>1, <2>5, LockCount, RowsCount, Places DEF Unlock, CallStep
        <3>. QED
            BY <1>1, <1>2, <2>1, <2>5, <3>1, HeldType, HeldTypeNext DEF Unlock, Give, Held, HeldOk
    <2>. QED
        BY <1>4, <2>2, <2>3, <2>4, <2>5 DEF Calling
<1>. QED
    BY <1>3, <1>4

\* A step of a task does.
LEMMA TaskBalance ==
    ASSUME PoolInv, NEW l \in Leads, NEW m \in Mails, Delivering(l, m)
    PROVE  free' + Held' = free + Held /\ free' \in Nat
<1>1. TypeOK /\ free \in Nat
    BY PoolSizeAssumption DEF PoolInv, TypeOK
<1>2. ForInsert' = ForInsert
    BY SameCount
    DEF Delivering, TaskBegin, LoadEnd, SendEnd, Retry, RecordEnd, TaskTimeout
<1>3. ForLock' = ForLock /\ ForRows' = ForRows
    <2>1. CASE TaskTimeout(l, m)
        <3>. DEFINE to == IF call[l] = "gather" THEN "raise" ELSE call[l]
        <3>1. call' = [call EXCEPT ![l] = to]
            BY <2>1 DEF TaskTimeout
        <3>2. /\ call[l] \in Pinning <=> to \in Pinning
              /\ call[l] \in {"rows"} <=> to \in {"rows"}
            BY Places
        <3>. HIDE DEF to
        <3>. QED
            <4>1. ForLock' = ForLock
                BY <1>1, <3>1, <3>2, LockCount
            <4>2. ForRows' = ForRows
                BY <1>1, <3>1, <3>2, RowsCount
            <4>. QED
                BY <4>1, <4>2
    <2>2. CASE ~TaskTimeout(l, m)
        BY <2>2, SameCount DEF Delivering, TaskBegin, LoadEnd, SendEnd, Retry, RecordEnd
    <2>. QED
        BY <2>1, <2>2
<1>4. CASE TaskBegin(l, m)
    <2>1. ForTasks' = ForTasks + 1
        BY <1>1, <1>4, TaskCount, Places DEF TaskBegin, TaskStep
    <2>. QED
        BY <1>1, <1>2, <1>3, <1>4, <2>1, HeldType, HeldTypeNext DEF TaskBegin, Take, Held, HeldOk
<1>5. CASE LoadEnd(l, m) \/ Retry(l, m) \/ RecordEnd(l, m)
    <2>1. ForTasks = ForTasks' + 1
        BY <1>1, <1>5, TaskCount, Places DEF LoadEnd, Retry, RecordEnd, TaskStep
    <2>2. Give
        BY <1>5 DEF LoadEnd, Retry, RecordEnd
    <2>. QED
        BY <1>1, <1>2, <1>3, <2>1, <2>2, HeldType, HeldTypeNext DEF Give, Held, HeldOk
<1>6. CASE SendEnd(l, m) \/ TaskTimeout(l, m)
    <2>1. ForTasks' = ForTasks
        BY <1>1, <1>6, TaskCount, Places DEF SendEnd, TaskTimeout, TaskStep, Waiting
    <2>2. free' = free
        BY <1>6 DEF SendEnd, TaskTimeout
    <2>. QED
        BY <1>1, <1>2, <1>3, <2>1, <2>2, HeldType, HeldTypeNext DEF Held, HeldOk
<1>. QED
    BY <1>4, <1>5, <1>6 DEF Delivering

----------------------------------------------------------------------------
(* Every step keeps the invariant *)

\* The connections stay accounted for, so the pool has at most its size.
LEMMA BalanceStep ==
    ASSUME PoolInv, [Next]_vars
    PROVE  free' + Held' = PoolSize /\ free' \in 0 .. PoolSize
<1>1. free + Held = PoolSize /\ free \in Nat /\ PoolSize \in Nat
    BY PoolSizeAssumption DEF PoolInv, TypeOK
<1>2. free' + Held' = free + Held /\ free' \in Nat
    <2>1. CASE UNCHANGED vars
        <3>1. free' = free /\ UNCHANGED <<post, call, task>>
            BY <2>1 DEF vars
        <3>2. /\ ForLock' = ForLock /\ ForInsert' = ForInsert
              /\ ForRows' = ForRows /\ ForTasks' = ForTasks
            BY <3>1, SameCount
        <3>. QED
            BY <1>1, <3>1, <3>2 DEF Held
    <2>2. CASE Finished
        BY <2>1, <2>2 DEF Finished
    <2>. QED
        BY <2>1, <2>2, PostBalance, CallBalance, TaskBalance DEF Next
<1>3. Held' \in Nat
    <2>1. ForLock' \in Nat /\ ForInsert' \in Nat /\ ForRows' \in Nat /\ ForTasks' \in Nat
        BY HeldTypeNext DEF HeldOk
    <2>2. Held' = ForLock' + ForInsert' + ForRows' + ForTasks'
        BY DEF Held
    <2>3. \A a, b, c, d \in Nat : a + b + c + d \in Nat
        OBVIOUS
    <2>. QED
        BY <2>1, <2>2, <2>3
<1>4. free' + Held' = PoolSize
    BY <1>1, <1>2
<1>5. free' <= PoolSize
    BY <1>1, <1>2, <1>3, <1>4
<1>. QED
    BY <1>1, <1>2, <1>4, <1>5

\* A step of a submission or a call keeps the types, begins calls and tasks
\* in their order, and takes no lead out of those that had a connection.
LEMMA LeadStep ==
    ASSUME PoolInv, free' \in 0 .. PoolSize,
           NEW l \in Leads, Submit(l) \/ Posting(l) \/ Calling(l)
    PROVE  TypeOK' /\ Beginnings'
<1>1. TypeOK /\ Beginnings
    BY DEF PoolInv
<1>. USE <1>1 DEF TypeOK, Beginnings, At, Post, Call, tasks,
                  PostStep, CallStep
<1>2. CASE Submit(l) \/ InsertBegin(l) \/ InsertTimeout(l)
    <2>1. /\ UNCHANGED <<call, task, attempt, retries>> /\ post[l] # "created"
          /\ \E to \in {"insertWait", "insert", "failed"} : post' = [post EXCEPT ![l] = to]
        BY <1>2 DEF Submit, InsertBegin, InsertTimeout
    <2>. QED
        BY <2>1
<1>3. CASE InsertEnd(l)
    <2>1. /\ UNCHANGED <<task, attempt, retries>> /\ call[l] = "none"
          /\ post' = [post EXCEPT ![l] = "created"]
          /\ call' = [call EXCEPT ![l] = "lockWait"]
        BY <1>3 DEF InsertEnd
    <2>2. Beginnings'
        BY <2>1
    <2>. QED
        BY <2>1, <2>2
<1>4. ASSUME NEW from \in Call, NEW to \in Call, CallStep(l, from, to),
             UNCHANGED <<post, task, attempt, retries>>,
             from # "none", from \in {"lockWait", "refused"} \/ to # "refused",
             to \in {"none", "lockWait", "rowsWait", "rows", "refused"} =>
                 from \in {"lockWait", "rowsWait"},
             to \notin {"none", "lockWait"}
      PROVE  TypeOK' /\ Beginnings'
    <2>1. /\ call[l] = from /\ call' \in [Leads -> Call] /\ call'[l] = to
          /\ \A k \in Leads : k # l => call'[k] = call[k]
        BY <1>4
    <2>2. Beginnings'
        BY <1>4, <2>1
    <2>. QED
        BY <1>4, <2>1, <2>2
<1>5. CASE \/ LockBegin(l) \/ LockTimeout(l) \/ RowsBegin(l) \/ RowsTimeout(l)
           \/ GatherDone(l) \/ Unlock(l)
    <2>1. UNCHANGED <<post, task, attempt, retries>>
        BY <1>5 DEF LockBegin, LockTimeout, RowsBegin, RowsTimeout, GatherDone, Unlock
    <2>2. \/ CallStep(l, "lockWait", "rowsWait") \/ CallStep(l, "lockWait", "refused")
          \/ CallStep(l, "rowsWait", "rows") \/ CallStep(l, "rowsWait", "raise")
          \/ CallStep(l, "gather", "return") \/ CallStep(l, "return", "done")
          \/ CallStep(l, "raise", "raised")
        BY <1>5 DEF LockBegin, LockTimeout, RowsBegin, RowsTimeout, GatherDone, Unlock
    <2>3. CASE CallStep(l, "lockWait", "rowsWait")
        BY <1>4, <2>1, <2>3
    <2>4. CASE CallStep(l, "lockWait", "refused")
        BY <1>4, <2>1, <2>4
    <2>5. CASE CallStep(l, "rowsWait", "rows")
        BY <1>4, <2>1, <2>5
    <2>6. CASE CallStep(l, "rowsWait", "raise")
        BY <1>4, <2>1, <2>6
    <2>7. CASE CallStep(l, "gather", "return")
        BY <1>4, <2>1, <2>7
    <2>8. CASE CallStep(l, "return", "done")
        BY <1>4, <2>1, <2>8
    <2>9. CASE CallStep(l, "raise", "raised")
        BY <1>4, <2>1, <2>9
    <2>. QED
        BY <2>2, <2>3, <2>4, <2>5, <2>6, <2>7, <2>8, <2>9
<1>6. CASE RowsEnd(l)
    <2>1. /\ call[l] = "rows" /\ call' = [call EXCEPT ![l] = "gather"]
          /\ task' = [task EXCEPT ![l] = [m \in Mails |-> "loadWait"]]
          /\ UNCHANGED <<post, attempt, retries>>
        BY <1>6 DEF RowsEnd
    <2>2. task' \in [Leads -> [Mails -> Task]]
        BY <2>1 DEF Task, Running, Waiting
    <2>3. Beginnings'
        BY <2>1
    <2>. QED
        BY <2>1, <2>2, <2>3
<1>. QED
    BY <1>2, <1>3, <1>5, <1>6 DEF Posting, Calling

\* A step of a task does.
LEMMA TaskKeeps ==
    ASSUME PoolInv, free' \in 0 .. PoolSize,
           NEW l \in Leads, NEW m \in Mails, Delivering(l, m)
    PROVE  TypeOK' /\ Beginnings'
<1>1. TypeOK /\ Beginnings
    BY DEF PoolInv
<1>2. UNCHANGED post
    BY DEF Delivering, TaskBegin, LoadEnd, SendEnd, Retry, RecordEnd, TaskTimeout
<1>3. /\ task[l][m] # "none"
      /\ \E to \in Task : task' = [task EXCEPT ![l][m] = to]
    BY DEF Delivering, TaskBegin, LoadEnd, SendEnd, Retry, RecordEnd, TaskTimeout,
           TaskStep, Task, Running, Waiting, InTask
<1>4. /\ task' \in [Leads -> [Mails -> Task]]
      /\ \A k \in Leads : k # l => task'[k] = task[k]
    BY <1>1, <1>3 DEF TypeOK
<1>5. \/ UNCHANGED call
      \/ call[l] = "gather" /\ call' = [call EXCEPT ![l] = "raise"]
    <2>1. CASE TaskTimeout(l, m)
        <3>1. CASE call[l] = "gather"
            BY <2>1, <3>1 DEF TaskTimeout
        <3>2. CASE call[l] # "gather"
            BY <1>1, <2>1, <3>2 DEF TaskTimeout, TypeOK
        <3>. QED
            BY <3>1, <3>2
    <2>2. CASE ~TaskTimeout(l, m)
        BY <2>2 DEF Delivering, TaskBegin, LoadEnd, SendEnd, Retry, RecordEnd
    <2>. QED
        BY <2>1, <2>2
<1>6. attempt' \in [Leads -> [Mails -> 1 .. MaxAttempts]] /\ retries' \in 0 .. MaxRetries
    <2>1. CASE Retry(l, m)
        <3>1. attempt[l][m] + 1 \in 1 .. MaxAttempts /\ retries + 1 \in 0 .. MaxRetries
            BY <1>1, <2>1, MaxAttemptsAssumption, MaxRetriesAssumption DEF Retry, TypeOK
        <3>2. attempt' = [attempt EXCEPT ![l][m] = attempt[l][m] + 1] /\ retries' = retries + 1
            BY <2>1 DEF Retry
        <3>. QED
            BY <1>1, <3>1, <3>2 DEF TypeOK
    <2>2. CASE ~Retry(l, m)
        BY <1>1, <2>2
        DEF Delivering, TaskBegin, LoadEnd, SendEnd, RecordEnd, TaskTimeout, TypeOK
    <2>. QED
        BY <2>1, <2>2
<1>7. call[l] \notin {"none", "lockWait", "rowsWait", "rows", "refused"}
    BY <1>1, <1>3 DEF Beginnings
<1>8. call' \in [Leads -> Call]
    BY <1>1, <1>5 DEF TypeOK, Call
<1>9. Beginnings'
    BY <1>1, <1>2, <1>4, <1>5, <1>7 DEF Beginnings, TypeOK
<1>. QED
    BY <1>1, <1>2, <1>4, <1>6, <1>8, <1>9 DEF TypeOK

\* A wait runs out only while the locks of calls hold the whole pool.
LEMMA StalledLoad ==
    ASSUME PoolInv, Stalled
    PROVE  Cardinality(Pinned) = PoolSize
<1>1. /\ TypeOK /\ free = 0 /\ free + Held = PoolSize /\ HeldOk
      /\ PoolSize \in Nat
    BY HeldType, PoolSizeAssumption DEF PoolInv, Stalled
<1>2. /\ At(post, Leads, {"insert"}) = {} /\ At(call, Leads, {"rows"}) = {}
      /\ At(Flat, Leads \X Mails, InTask) = {}
    BY DEF Stalled, InTransaction, At, Flat
<1>3. ForInsert = 0 /\ ForRows = 0 /\ ForTasks = 0
    BY <1>2, FS_EmptySet DEF ForInsert, ForRows, ForTasks
<1>4. ForLock = PoolSize
    BY <1>1, <1>3 DEF Held, HeldOk
<1>5. ForLock = Cardinality(Pinned)
    BY DEF ForLock, At, Pinned
<1>. QED
    BY <1>4, <1>5

\* Only a step of Stalled fails anything.
LEMMA FailStep ==
    ASSUME PoolInv, [Next]_vars, Failures' # Failures
    PROVE  Stalled
<1>. SUFFICES ASSUME ~Stalled PROVE Failures' = Failures
    OBVIOUS
<1>1. TypeOK
    BY DEF PoolInv
<1>2. ASSUME \A k \in Leads : post'[k] = "failed" <=> post[k] = "failed",
             \A k \in Leads : call'[k] \in {"raise", "raised", "refused"}
                <=> call[k] \in {"raise", "raised", "refused"},
             \A k \in Leads, n \in Mails : task'[k][n] = "raised" <=> task[k][n] = "raised"
      PROVE  Failures' = Failures
    <2>1. {l \in Leads : post'[l] = "failed"} = {l \in Leads : post[l] = "failed"}
        BY <1>2
    <2>2. {l \in Leads : call'[l] \in {"raise", "raised", "refused"}}
            = {l \in Leads : call[l] \in {"raise", "raised", "refused"}}
        BY <1>2
    <2>3. {lm \in Leads \X Mails : task'[lm[1]][lm[2]] = "raised"}
            = {lm \in Leads \X Mails : task[lm[1]][lm[2]] = "raised"}
        BY <1>2
    <2>. QED
        BY <2>1, <2>2, <2>3 DEF Failures
<1>3. ASSUME NEW l \in Leads, Submit(l) \/ Posting(l) PROVE Failures' = Failures
    <2>1. UNCHANGED task
        BY <1>3 DEF Submit, Posting, InsertBegin, InsertEnd, InsertTimeout, tasks
    <2>2. \A k \in Leads : post'[k] = "failed" <=> post[k] = "failed"
        BY <1>1, <1>3
        DEF Submit, Posting, InsertBegin, InsertEnd, InsertTimeout, PostStep, TypeOK
    <2>3. \A k \in Leads : call'[k] = call[k] \/ (k = l /\ InsertEnd(l) /\ call'[k] = "lockWait")
        BY <1>1, <1>3
        DEF Submit, Posting, InsertBegin, InsertEnd, InsertTimeout, TypeOK
    <2>4. InsertEnd(l) => call[l] = "none"
        BY DEF InsertEnd, PostStep, PoolInv, Beginnings
    <2>. QED
        BY <1>2, <2>1, <2>2, <2>3, <2>4
<1>4. ASSUME NEW l \in Leads, Calling(l) PROVE Failures' = Failures
    <2>1. \A k \in Leads : call'[k] \in {"raise", "raised", "refused"}
                <=> call[k] \in {"raise", "raised", "refused"}
        BY <1>1, <1>4
        DEF Calling, LockBegin, LockTimeout, RowsBegin, RowsEnd, RowsTimeout, GatherDone,
            Unlock, CallStep, TypeOK
    <2>2. \A k \in Leads, n \in Mails : task'[k][n] = "raised" <=> task[k][n] = "raised"
        <3>1. CASE RowsEnd(l)
            <4>1. /\ \A n \in Mails : task'[l][n] = "loadWait" /\ task[l][n] = "none"
                  /\ \A k \in Leads : k # l => task'[k] = task[k]
                BY <1>1, <3>1 DEF RowsEnd, CallStep, TypeOK, PoolInv, Beginnings
            <4>. QED
                BY <4>1
        <3>2. CASE ~RowsEnd(l)
            BY <1>4, <3>2 DEF Calling, LockBegin, LockTimeout, RowsBegin, RowsTimeout,
                              GatherDone, Unlock, tasks
        <3>. QED
            BY <3>1, <3>2
    <2>3. UNCHANGED post
        BY <1>4 DEF Calling, LockBegin, LockTimeout, RowsBegin, RowsEnd, RowsTimeout,
                    GatherDone, Unlock
    <2>. QED
        BY <1>2, <2>1, <2>2, <2>3
<1>5. ASSUME NEW l \in Leads, NEW m \in Mails, Delivering(l, m) PROVE Failures' = Failures
    <2>1. UNCHANGED <<post, call>>
        BY <1>5 DEF Delivering, TaskBegin, LoadEnd, SendEnd, Retry, RecordEnd, TaskTimeout
    <2>2. \A k \in Leads, n \in Mails : task'[k][n] = "raised" <=> task[k][n] = "raised"
        BY <1>1, <1>5
        DEF Delivering, TaskBegin, LoadEnd, SendEnd, Retry, RecordEnd, TaskTimeout,
            TaskStep, TypeOK
    <2>. QED
        BY <1>2, <2>1, <2>2
<1>6. CASE Finished \/ UNCHANGED vars
    BY <1>6 DEF Finished, vars, Failures
<1>. QED
    BY <1>3, <1>4, <1>5, <1>6 DEF Next

\* The invariant holds throughout.
LEMMA PoolKept == Spec => []PoolInv
<1>1. Init => PoolInv
    <2>. SUFFICES ASSUME Init PROVE PoolInv
        OBVIOUS
    <2>1. TypeOK /\ Beginnings
        BY PoolSizeAssumption, MaxAttemptsAssumption, MaxRetriesAssumption
        DEF Init, TypeOK, Beginnings, Post, Call, Task
    <2>2. /\ At(post, Leads, {"insert"}) = {} /\ At(call, Leads, {"rows"}) = {}
          /\ At(call, Leads, Pinning) = {} /\ At(Flat, Leads \X Mails, InTask) = {}
        BY DEF Init, At, Flat, Pinning, InTask
    <2>3. ForInsert = 0 /\ ForRows = 0 /\ ForTasks = 0 /\ ForLock = 0
        BY <2>2, FS_EmptySet DEF ForInsert, ForRows, ForTasks, ForLock
    <2>. QED
        BY <2>1, <2>3, PoolSizeAssumption DEF Init, Held, PoolInv
<1>2. PoolInv /\ [Next]_vars => PoolInv'
    <2>. SUFFICES ASSUME PoolInv, [Next]_vars PROVE PoolInv'
        OBVIOUS
    <2>1. free' + Held' = PoolSize /\ free' \in 0 .. PoolSize
        BY BalanceStep
    <2>2. TypeOK' /\ Beginnings'
        <3>1. CASE Finished \/ UNCHANGED vars
            BY <3>1 DEF Finished, vars, PoolInv, TypeOK, Beginnings
        <3>2. ASSUME NEW l \in Leads, Submit(l) \/ Posting(l) \/ Calling(l)
              PROVE  TypeOK' /\ Beginnings'
            BY <2>1, <3>2, LeadStep
        <3>3. ASSUME NEW l \in Leads, NEW m \in Mails, Delivering(l, m)
              PROVE  TypeOK' /\ Beginnings'
            BY <2>1, <3>3, TaskKeeps
        <3>. QED
            BY <3>1, <3>2, <3>3 DEF Next
    <2>. QED
        BY <2>1, <2>2 DEF PoolInv
<1>. QED
    BY <1>1, <1>2, PTL DEF Spec

\* Every variable keeps its type: the pool never has more than its size.
THEOREM TypeCorrect == Spec => []TypeOK
<1>1. PoolInv => TypeOK
    BY DEF PoolInv
<1>. QED
    BY <1>1, PoolKept, PTL

\* No connection leaks or returns twice, whichever of the sessions raises
\* (emails/service.py:93-114).
THEOREM NoneLeaks == Spec => []ConnectionsAccounted
<1>1. PoolInv => ConnectionsAccounted
    <2>. SUFFICES ASSUME PoolInv PROVE ConnectionsAccounted
        OBVIOUS
    <2>1. /\ At(call, Leads, Pinning) = Pinned
          /\ At(post, Leads, {"insert"}) = {l \in Leads : post[l] = "insert"}
          /\ At(call, Leads, {"rows"}) = {l \in Leads : call[l] = "rows"}
          /\ At(Flat, Leads \X Mails, InTask)
                = {lm \in Leads \X Mails : task[lm[1]][lm[2]] \in InTask}
        BY DEF At, Pinned, Flat
    <2>2. free + Held = PoolSize /\ HeldOk /\ free \in Nat
        BY HeldType, PoolSizeAssumption DEF PoolInv, TypeOK
    <2>3. /\ Cardinality(Pinned) = ForLock
          /\ Cardinality({l \in Leads : post[l] = "insert"}) = ForInsert
          /\ Cardinality({l \in Leads : call[l] = "rows"}) = ForRows
          /\ Cardinality({lm \in Leads \X Mails : task[lm[1]][lm[2]] \in InTask}) = ForTasks
        BY <2>1 DEF ForLock, ForInsert, ForRows, ForTasks
    <2>4. free + ForLock + ForInsert + ForRows + ForTasks = PoolSize
        BY <2>2 DEF Held, HeldOk
    <2>. QED
        BY <2>3, <2>4 DEF ConnectionsAccounted
<1>. QED
    BY <1>1, PoolKept, PTL

\* Whatever fails for want of a connection fails while the dispatches of as
\* many leads as the pool has connections hold them all (db/session.py:7,
\* emails/service.py:93-114).
THEOREM FailuresNeedLoad == Spec => FailureNeedsLoad
<1>1. PoolInv /\ [Next]_vars => (Failures' # Failures => Cardinality(Pinned) >= PoolSize)
    BY FailStep, StalledLoad, PoolSizeAssumption
<1>2. PoolInv /\ [Next]_vars => [Failures' # Failures => Cardinality(Pinned) >= PoolSize]_vars
    BY <1>1
<1>. QED
    BY <1>2, PoolKept, PTL DEF Spec, FailureNeedsLoad

=============================================================================
