-------------------------- MODULE LeadListingProofs --------------------------
(***************************************************************************)
(* Proofs about LeadListing, for any number of leads and any page size.    *)
(***************************************************************************)
EXTENDS LeadListing, TLAPS, FiniteSetTheorems, WellFoundedInduction

----------------------------------------------------------------------------
(* Pages *)

\* A page that exists, by the count, begins before the last lead counted.
LEMMA PageBegins ==
    ASSUME NEW count \in Nat \ {0}, NEW n \in Nat \ {0}, n <= Pages(count)
    PROVE  Offset(n) \in Nat /\ Offset(n) < count
<1>. DEFINE full == (count + PageSize - 1) \div PageSize
<1>1. PageSize \in Nat /\ PageSize > 0
    BY PageSizeAssumption
<1>2. full \in Nat /\ full * PageSize <= count + PageSize - 1
    BY <1>1
<1>3. CASE full > 1
    <2>1. n <= full
        BY <1>3 DEF Pages
    <2>. HIDE DEF full
    <2>2. full - n \in Nat /\ n - 1 \in Nat
        BY <1>2, <2>1
    <2>3. (full - n) * PageSize \in Nat /\ (n - 1) * PageSize \in Nat
        BY <1>1, <2>2
    <2>4. full * PageSize = (full - n) * PageSize + (n - 1) * PageSize + PageSize
        BY <1>1, <1>2, <2>2
    <2>. QED
        BY <1>1, <1>2, <2>3, <2>4 DEF Offset
<1>4. CASE ~(full > 1)
    <2>1. n = 1
        BY <1>4 DEF Pages
    <2>. QED
        BY <1>1, <2>1 DEF Offset
<1>. QED
    BY <1>3, <1>4

\* Leads of a set after a number, in the order of the list.
After(S, n) == {k \in S : k > n}

\* A set of leads has one with any number of others after it, below its
\* size: the least number with at most that many after it.
LEMMA Ranked ==
    ASSUME NEW S \in SUBSET Leads, NEW k \in Nat, k < Cardinality(S)
    PROVE  \E l \in S : Cardinality(After(S, l)) = k
<1>1. Leads \subseteq Nat /\ IsFiniteSet(Leads) /\ MaxLeads \in Nat
    BY LeadListingBounds, FS_Interval DEF Leads
<1>2. \A n \in Nat : IsFiniteSet(After(S, n)) /\ Cardinality(After(S, n)) \in Nat
    BY <1>1, FS_Subset, FS_CardinalityType DEF After
<1>a. \A j \in S : j \in Nat /\ 0 < j /\ j <= MaxLeads
    BY <1>1 DEF Leads
<1>. DEFINE T == {n \in Nat : Cardinality(After(S, n)) <= k}
<1>3. After(S, MaxLeads) = {}
    <2>1. \A j \in S : ~(j > MaxLeads)
        BY <1>1, <1>a
    <2>. QED
        BY <2>1 DEF After
<1>4. MaxLeads \in T
    BY <1>1, <1>3, FS_EmptySet
<1>5. PICK l \in T : \A m \in T : ~(<<m, l>> \in OpToRel(<, Nat))
    BY <1>4, NatLessThanWellFounded, WFMin
<1>6. l \in Nat /\ \A m \in T : ~(m < l)
    BY <1>5 DEF OpToRel
<1>7. l # 0
    <2>1. After(S, 0) = S
        BY <1>a DEF After
    <2>. QED
        BY <1>1, <1>2, <2>1
<1>8. l - 1 \in Nat /\ Cardinality(After(S, l - 1)) > k
    BY <1>2, <1>6, <1>7
<1>9. After(S, l - 1) = After(S, l) \cup (IF l \in S THEN {l} ELSE {})
    <2>1. \A j \in S : j > l - 1 <=> (j > l \/ j = l)
        BY <1>6, <1>a
    <2>. QED
        BY <2>1 DEF After
<1>10. Cardinality(After(S, l)) <= k /\ IsFiniteSet(After(S, l)) /\ l \notin After(S, l)
    BY <1>2, <1>6 DEF After
<1>11. l \in S
    <2>1. CASE l \notin S
        <3>1. After(S, l - 1) = After(S, l)
            BY <1>9, <2>1
        <3>. QED
            BY <1>2, <1>6, <1>8, <1>10, <3>1
    <2>. QED
        BY <2>1
<1>12. Cardinality(After(S, l - 1)) = Cardinality(After(S, l)) + 1
    BY <1>9, <1>10, <1>11, FS_AddElement
<1>. QED
    BY <1>2, <1>6, <1>8, <1>10, <1>11, <1>12

----------------------------------------------------------------------------
(* Types *)

\* How many leads there are, of each kind.
Created == Cardinality(created)
Reached == Cardinality(reached)

\* The counters of the leads that left the tab or slipped into it are
\* bounded by the leads that can do so: a lead is created once, and marked
\* once.
CountersTell ==
    /\ departed <= Reached
    /\ drained <= Reached
    /\ squeezed <= (IF tab = "REACHED_OUT" THEN Reached ELSE Created)

\* Without a departure the count is not above what is there for the rows.
CountTells == phase = "rows" /\ drained = 0 => total <= Cardinality(InTab)

ListInv == TypeOK /\ CountersTell /\ CountTells /\ EmptyExplained

\* The leads of a tab are some of those created.
LEMMA TabType ==
    ASSUME NEW t \in Tab, NEW all \in SUBSET Leads, NEW out \in SUBSET all
    PROVE  Filter(t, all, out) \subseteq all
BY DEF Filter, Tab

\* Sets of leads are finite, with at most MaxLeads of them.
LEMMA LeadSets ==
    ASSUME NEW S \in SUBSET Leads
    PROVE  IsFiniteSet(S) /\ Cardinality(S) \in 0 .. MaxLeads
<1>1. IsFiniteSet(Leads) /\ Cardinality(Leads) = MaxLeads /\ MaxLeads \in Nat
    BY LeadListingBounds, FS_Interval DEF Leads
<1>2. IsFiniteSet(S) /\ Cardinality(S) <= Cardinality(Leads) /\ Cardinality(S) \in Nat
    BY <1>1, FS_Subset, FS_CardinalityType
<1>. QED
    BY <1>1, <1>2

\* The last page of any count is a page.
LEMMA PagesType ==
    ASSUME NEW count \in Nat
    PROVE  Pages(count) \in Nat \ {0} /\ Parsed(Pages(count)) = Pages(count)
<1>1. (count + PageSize - 1) \div PageSize \in Nat
    BY PageSizeAssumption
<1>2. Pages(count) \in Nat \ {0}
    BY <1>1 DEF Pages
<1>. QED
    BY <1>2 DEF Parsed

\* A page that the count says exists has a lead, if none has left since.
LEMMA PageHasLead ==
    ASSUME ListInv, phase = "rows", drained = 0, total > 0, page <= Pages(total)
    PROVE  PageOf(page) # {}
<1>1. /\ total \in Nat \ {0} /\ page \in Nat \ {0}
      /\ InTab \subseteq Leads /\ total <= Cardinality(InTab)
    <2>1. total \in Nat \ {0} /\ page \in Nat \ {0}
        BY LeadListingBounds DEF ListInv, TypeOK
    <2>2. InTab \subseteq Leads
        BY TabType DEF ListInv, TypeOK, InTab
    <2>. QED
        BY <2>1, <2>2 DEF ListInv, CountTells
<1>2. Offset(page) \in Nat /\ Offset(page) < total
    BY <1>1, PageBegins
<1>3. Offset(page) < Cardinality(InTab) /\ Cardinality(InTab) \in Nat
    BY <1>1, <1>2, LeadSets
<1>4. PICK l \in InTab : Cardinality(After(InTab, l)) = Offset(page)
    BY <1>1, <1>2, <1>3, Ranked
<1>5. Above(l) = Offset(page)
    BY <1>4 DEF Above, After
<1>6. Above(l) < Offset(page) + PageSize
    BY <1>2, <1>5, PageSizeAssumption
<1>. QED
    BY <1>2, <1>4, <1>5, <1>6 DEF PageOf

----------------------------------------------------------------------------
(* The steps *)

NextListInv == ListInv'

\* The tab's leads are leads, and so are those of every page.
LEMMA TabLeads ==
    ASSUME TypeOK
    PROVE  /\ InTab \subseteq Leads /\ IsFiniteSet(InTab)
           /\ Cardinality(InTab) \in 0 .. MaxLeads
<1>1. InTab \subseteq Leads
    BY TabType DEF TypeOK, InTab
<1>. QED
    BY <1>1, LeadSets

\* The leads created and those marked, counted.
LEMMA TableType ==
    ASSUME TypeOK
    PROVE  /\ IsFiniteSet(created) /\ Created \in 0 .. MaxLeads
           /\ IsFiniteSet(reached) /\ Reached \in 0 .. MaxLeads
<1>1. created \in SUBSET Leads /\ reached \in SUBSET Leads
    BY DEF TypeOK
<1>. QED
    BY <1>1, LeadSets DEF Created, Reached

\* A step of the reader, who does not touch the table: what the new request
\* or answer has to satisfy.
LEMMA ReaderKeeps ==
    ASSUME ListInv, UNCHANGED table,
           tab' \in Tab, page' \in 1 .. MaxPage, phase' \in Phase \ {"rows", "shown"},
           UNCHANGED <<total, items, drained>>,
           walk' \in BOOLEAN, seen' \subseteq Leads, there' \subseteq Leads,
           \/ UNCHANGED <<tab, departed, squeezed>>
           \/ departed' = 0 /\ squeezed' = 0
    PROVE  NextListInv
<1>1. MaxLeads \in Nat
    BY LeadListingBounds
<1>2. TypeOK'
    BY <1>1 DEF ListInv, TypeOK, table
<1>3. /\ created' = created /\ reached' = reached
      /\ Created \in Nat /\ Reached \in Nat /\ Created' = Created /\ Reached' = Reached
    BY <1>1, TableType DEF ListInv, table, Created, Reached
<1>4. CountersTell'
    BY <1>3 DEF ListInv, CountersTell
<1>. QED
    BY <1>2, <1>4 DEF NextListInv, ListInv, CountTells, EmptyExplained

\* A tab is opened.
LEMMA OpenKeeps ==
    ASSUME ListInv, NEW t \in Tab, NEW n \in 1 .. MaxPage, Open(t, n)
    PROVE  NextListInv
<1>1. Filter(t, created, reached) \subseteq Leads
    BY TabType DEF ListInv, TypeOK
<1>2. UNCHANGED table /\ tab' \in Tab /\ page' \in 1 .. MaxPage /\ phase' \in Phase \ {"rows", "shown"}
    BY DEF Open, Request, table, Phase
<1>3. UNCHANGED <<total, items, drained>> /\ departed' = 0 /\ squeezed' = 0
    BY DEF Open, Request
<1>4. walk' \in BOOLEAN /\ seen' \subseteq Leads /\ there' \subseteq Leads
    BY <1>1 DEF Open
<1>. QED
    BY <1>2, <1>3, <1>4, ReaderKeeps

\* Another page is asked for.
LEMMA RequestKeeps ==
    ASSUME ListInv, NEW n \in 1 .. MaxPage, Request(n), UNCHANGED <<tab, history>>
    PROVE  NextListInv
<1>1. /\ UNCHANGED table /\ tab' \in Tab /\ page' \in 1 .. MaxPage
      /\ phase' \in Phase \ {"rows", "shown"} /\ UNCHANGED <<total, items, drained>>
    BY DEF Request, ListInv, TypeOK, table, Phase
<1>2. /\ UNCHANGED <<tab, departed, squeezed>>
      /\ walk' \in BOOLEAN /\ seen' \subseteq Leads /\ there' \subseteq Leads
    BY DEF ListInv, TypeOK, history
<1>. QED
    BY <1>1, <1>2, ReaderKeeps

\* Links and redirects ask for a page that is one.
LEMMA TurnKeeps ==
    ASSUME ListInv, Redirect \/ NextPage \/ PreviousPage
    PROVE  NextListInv
<1>1. page \in 1 .. MaxPage /\ total \in Nat /\ MaxPage \in Nat
    BY LeadListingBounds DEF ListInv, TypeOK
<1>2. CASE Redirect
    <2>. DEFINE last == Pages(total)
    <2>1. last \in Nat \ {0} /\ Parsed(last) = last
        BY <1>1, PagesType
    <2>2. page > last /\ Request(Parsed(last)) /\ UNCHANGED <<tab, history>>
        BY <1>2 DEF Redirect
    <2>. HIDE DEF last
    <2>3. last \in 1 .. MaxPage /\ Request(last)
        BY <1>1, <2>1, <2>2
    <2>. QED
        BY <2>2, <2>3, RequestKeeps
<1>3. CASE NextPage
    <2>1. page + 1 \in 1 .. MaxPage
        BY <1>1, <1>3 DEF NextPage
    <2>. QED
        BY <1>3, <2>1, RequestKeeps DEF NextPage
<1>4. CASE PreviousPage
    <2>1. page - 1 \in 1 .. MaxPage
        BY <1>1, <1>4 DEF PreviousPage
    <2>. QED
        BY <1>4, <2>1, RequestKeeps DEF PreviousPage
<1>. QED
    BY <1>2, <1>3, <1>4

\* The count.
LEMMA CountKeeps ==
    ASSUME ListInv, Count
    PROVE  NextListInv
<1>1. MaxLeads \in Nat /\ Cardinality(InTab) \in 0 .. MaxLeads
    BY LeadListingBounds, TabLeads DEF ListInv
<1>2. /\ created' = created /\ reached' = reached /\ tab' = tab
      /\ phase' = "rows" /\ drained' = 0 /\ total' = Cardinality(InTab)
      /\ UNCHANGED <<departed, squeezed>>
    BY DEF Count, table, history
<1>3. TypeOK'
    BY <1>1 DEF Count, table, history, ListInv, TypeOK, Phase
<1>4. InTab' = InTab /\ Created' = Created /\ Reached' = Reached
    BY <1>2 DEF InTab, Created, Reached
<1>5. Reached \in Nat
    BY <1>1, TableType DEF ListInv
<1>6. CountersTell'
    BY <1>2, <1>4, <1>5 DEF ListInv, CountersTell
<1>7. CountTells'
    BY <1>1, <1>2, <1>4 DEF CountTells
<1>. QED
    BY <1>2, <1>3, <1>6, <1>7 DEF NextListInv, ListInv, EmptyExplained

\* The page is rendered.
LEMMA ShowKeeps ==
    ASSUME ListInv, Show
    PROVE  NextListInv
<1>1. InTab \subseteq Leads
    BY TabLeads DEF ListInv
<1>2. items' = PageOf(page) /\ items' \subseteq Leads
    BY <1>1 DEF Show, PageOf
<1>3. TypeOK'
    BY <1>2 DEF Show, table, ListInv, TypeOK, Phase
<1>4. CountersTell'
    BY DEF Show, table, ListInv, CountersTell, Created, Reached
<1>5. phase' = "shown" /\ total' = total /\ drained' = drained
    BY DEF Show
<1>6. EmptyExplained'
    <2>1. total \in Nat /\ drained \in Nat
        BY LeadListingBounds DEF ListInv, TypeOK
    <2>2. CASE total > 0 /\ drained = 0
        BY <1>2, <1>5, <2>2, PageHasLead DEF Show, EmptyExplained
    <2>3. CASE ~(total > 0 /\ drained = 0)
        BY <1>5, <2>1, <2>3 DEF EmptyExplained
    <2>. QED
        BY <2>2, <2>3
<1>. QED
    BY <1>3, <1>4, <1>5, <1>6 DEF NextListInv, ListInv, CountTells

\* The error page, and a step that changes nothing.
LEMMA OverflowKeeps ==
    ASSUME ListInv, Overflow
    PROVE  NextListInv
<1>1. /\ UNCHANGED table /\ tab' \in Tab /\ page' \in 1 .. MaxPage
      /\ phase' \in Phase \ {"rows", "shown"} /\ UNCHANGED <<total, items, drained>>
    BY DEF Overflow, ListInv, TypeOK, Phase
<1>2. /\ UNCHANGED <<tab, departed, squeezed>>
      /\ walk' \in BOOLEAN /\ seen' \subseteq Leads /\ there' \subseteq Leads
    BY DEF Overflow, ListInv, TypeOK, history
<1>. QED
    BY <1>1, <1>2, ReaderKeeps

----------------------------------------------------------------------------
(* The table changes *)

Same(s, t) == s \ t = {} /\ t \ s = {} /\ s = t
Gains(s, t, l) == l \notin s /\ t = s \cup {l} /\ s \ t = {} /\ t \ s = {l}
Loses(s, t, l) == l \in s /\ t = s \ {l} /\ s \ t = {l} /\ t \ s = {}

\* What a change of the table has to satisfy: the counters grow with it.
LEMMA WatchKeeps ==
    ASSUME ListInv, NEW l \in Leads, Watch(InTab, InTab'),
           created' \subseteq Leads, reached' \subseteq created',
           Created' \in Nat, Reached' \in Nat, Created' >= Created, Reached' >= Reached,
           \/ Same(InTab, InTab')
           \/ Gains(InTab, InTab', l) /\ tab = "REACHED_OUT" /\ Reached' = Reached + 1
           \/ Gains(InTab, InTab', l) /\ tab # "REACHED_OUT" /\ Created' = Created + 1
           \/ Loses(InTab, InTab', l) /\ Reached' = Reached + 1
    PROVE  NextListInv
<1>. DEFINE before == InTab
            after == InTab'
            left == Cardinality(before \ after)
            entered == Cardinality(after \ before)
<1>1. /\ tab' = tab /\ page' = page /\ phase' = phase /\ total' = total
      /\ items' = items /\ walk' = walk /\ seen' = seen
    BY DEF Watch
<1>2. /\ departed' = departed + left /\ there' = there \cap after
      /\ squeezed' = (IF phase = "rows" THEN squeezed + entered ELSE squeezed)
      /\ drained' = (IF phase = "rows" THEN drained + left ELSE drained)
    BY DEF Watch
<1>3. /\ MaxLeads \in Nat /\ Created \in Nat /\ Reached \in Nat
      /\ departed \in Nat /\ squeezed \in Nat /\ drained \in Nat /\ total \in Nat
    BY LeadListingBounds, TableType DEF ListInv, TypeOK
<1>4. /\ Cardinality({}) = 0 /\ Cardinality({l}) = 1
    BY FS_EmptySet, FS_Singleton
<1>5. /\ left \in {0, 1} /\ entered \in {0, 1}
      /\ left = 1 => Reached' = Reached + 1
      /\ left = 0 => Same(before, after) \/ Gains(before, after, l)
      /\ entered = 1 /\ tab = "REACHED_OUT" => Reached' = Reached + 1
      /\ entered = 1 /\ tab # "REACHED_OUT" => Created' = Created + 1
    <2>1. CASE Same(before, after)
        <3>1. left = 0 /\ entered = 0
            BY <1>4, <2>1 DEF Same
        <3>. QED
            BY <2>1, <3>1
    <2>2. CASE /\ Gains(before, after, l)
               /\ \/ tab = "REACHED_OUT" /\ Reached' = Reached + 1
                  \/ tab # "REACHED_OUT" /\ Created' = Created + 1
        <3>1. left = 0 /\ entered = 1
            BY <1>4, <2>2 DEF Gains
        <3>. QED
            BY <2>2, <3>1
    <2>3. CASE Loses(before, after, l) /\ Reached' = Reached + 1
        <3>1. left = 1 /\ entered = 0
            BY <1>4, <2>3 DEF Loses
        <3>. QED
            BY <2>3, <3>1
    <2>. QED
        BY <2>1, <2>2, <2>3
<1>. HIDE DEF before, after, left, entered
<1>6. created' \in SUBSET Leads /\ reached' \in SUBSET Leads
    OBVIOUS
<1>7. Created' <= MaxLeads /\ Reached' <= MaxLeads
    <2>. DEFINE c == created'
                r == reached'
    <2>1. c \in SUBSET Leads /\ r \in SUBSET Leads /\ Created' = Cardinality(c) /\ Reached' = Cardinality(r)
        BY <1>6 DEF Created, Reached
    <2>. HIDE DEF c, r
    <2>. QED
        BY <1>3, <2>1, LeadSets
<1>8. CountersTell'
    <2>1. /\ departed <= Reached /\ drained <= Reached
          /\ squeezed <= (IF tab = "REACHED_OUT" THEN Reached ELSE Created)
        BY DEF ListInv, CountersTell
    <2>2. departed' <= Reached' /\ drained' <= Reached'
        BY <1>2, <1>3, <1>5, <2>1
    <2>3. squeezed' <= (IF tab = "REACHED_OUT" THEN Reached' ELSE Created')
        BY <1>2, <1>3, <1>5, <2>1
    <2>. QED
        BY <1>1, <2>2, <2>3 DEF CountersTell
<1>9. TypeOK'
    <2>1. departed' \in Nat /\ squeezed' \in Nat /\ drained' \in Nat
        BY <1>2, <1>3, <1>5
    <2>2. departed' <= MaxLeads /\ squeezed' <= MaxLeads /\ drained' <= MaxLeads
        <3>1. /\ departed' <= Reached' /\ drained' <= Reached'
              /\ squeezed' <= Reached' \/ squeezed' <= Created'
            BY <1>8, <1>1 DEF CountersTell
        <3>. QED
            BY <1>3, <1>7, <2>1, <3>1
    <2>3. departed' \in 0 .. MaxLeads /\ squeezed' \in 0 .. MaxLeads /\ drained' \in 0 .. MaxLeads
        BY <1>3, <2>1, <2>2
    <2>. QED
        BY <1>1, <1>2, <2>3 DEF ListInv, TypeOK
<1>10. CountTells'
    <2>1. CASE left = 0 /\ phase = "rows" /\ drained = 0
        <3>1. total <= Cardinality(before) /\ IsFiniteSet(before) /\ Cardinality(before) \in Nat
            BY <1>3, <2>1, TabLeads DEF ListInv, CountTells, before
        <3>2. after = before \/ (l \notin before /\ after = before \cup {l})
            BY <1>5, <2>1 DEF Same, Gains
        <3>3. Cardinality(after) \in Nat /\ Cardinality(after) >= Cardinality(before)
            BY <3>1, <3>2, FS_AddElement
        <3>. QED
            BY <1>1, <1>3, <3>1, <3>3 DEF CountTells, after
    <2>2. CASE ~(left = 0 /\ phase = "rows" /\ drained = 0)
        <3>1. ~(phase' = "rows" /\ drained' = 0)
            BY <1>1, <1>2, <1>3, <1>5, <2>2
        <3>. QED
            BY <3>1 DEF CountTells
    <2>. QED
        BY <2>1, <2>2
<1>11. EmptyExplained'
    <2>1. phase = "shown" => drained' = drained
        BY <1>2
    <2>. QED
        BY <1>1, <2>1 DEF ListInv, EmptyExplained
<1>. QED
    BY <1>8, <1>9, <1>10, <1>11 DEF NextListInv, ListInv

\* A lead is created: all tabs but REACHED_OUT gain it.
LEMMA CreateKeeps ==
    ASSUME ListInv, NEW l \in Leads, Create(l)
    PROVE  NextListInv
<1>1. /\ l \notin created /\ created' = created \cup {l} /\ reached' = reached
      /\ Watch(InTab, Filter(tab, created', reached))
    BY DEF Create
<1>2. tab' = tab /\ InTab' = Filter(tab, created', reached)
    BY <1>1 DEF Watch, InTab
<1>3. created \subseteq Leads /\ reached \subseteq created /\ tab \in Tab
    BY DEF ListInv, TypeOK
<1>4. MaxLeads \in Nat /\ Created \in Nat /\ Reached \in Nat /\ IsFiniteSet(created)
    BY LeadListingBounds, TableType DEF ListInv
<1>5. Created' = Created + 1 /\ Reached' = Reached
    BY <1>1, <1>4, FS_AddElement DEF Created, Reached
<1>6. CASE tab = "REACHED_OUT"
    <2>1. Same(InTab, InTab')
        BY <1>1, <1>2, <1>6 DEF InTab, Filter, Same
    <2>. QED
        BY <1>1, <1>2, <1>3, <1>4, <1>5, <2>1, WatchKeeps
<1>7. CASE tab # "REACHED_OUT"
    <2>1. Gains(InTab, InTab', l)
        BY <1>1, <1>2, <1>3, <1>7 DEF InTab, Filter, Gains, Tab
    <2>. QED
        BY <1>1, <1>2, <1>3, <1>4, <1>5, <1>7, <2>1, WatchKeeps
<1>. QED
    BY <1>6, <1>7

\* A lead is marked: PENDING loses it and REACHED_OUT gains it.
LEMMA MarkKeeps ==
    ASSUME ListInv, NEW l \in Leads, MarkReachedOut(l)
    PROVE  NextListInv
<1>1. /\ l \in created \ reached /\ reached' = reached \cup {l} /\ created' = created
      /\ Watch(InTab, Filter(tab, created, reached'))
    BY DEF MarkReachedOut
<1>2. tab' = tab /\ InTab' = Filter(tab, created, reached')
    BY <1>1 DEF Watch, InTab
<1>3. created \subseteq Leads /\ reached \subseteq created /\ tab \in Tab
    BY DEF ListInv, TypeOK
<1>4. MaxLeads \in Nat /\ Created \in Nat /\ Reached \in Nat /\ IsFiniteSet(reached)
    BY LeadListingBounds, TableType DEF ListInv
<1>5. Created' = Created /\ Reached' = Reached + 1
    BY <1>1, <1>4, FS_AddElement DEF Created, Reached
<1>6. CASE tab = "all"
    <2>1. Same(InTab, InTab')
        BY <1>1, <1>2, <1>6 DEF InTab, Filter, Same
    <2>. QED
        BY <1>1, <1>2, <1>3, <1>4, <1>5, <2>1, WatchKeeps
<1>7. CASE tab = "REACHED_OUT"
    <2>1. Gains(InTab, InTab', l)
        BY <1>1, <1>2, <1>3, <1>7 DEF InTab, Filter, Gains
    <2>. QED
        BY <1>1, <1>2, <1>3, <1>4, <1>5, <1>7, <2>1, WatchKeeps
<1>8. CASE tab = "PENDING"
    <2>1. Loses(InTab, InTab', l)
        BY <1>1, <1>2, <1>3, <1>8 DEF InTab, Filter, Loses
    <2>. QED
        BY <1>1, <1>2, <1>3, <1>4, <1>5, <2>1, WatchKeeps
<1>. QED
    BY <1>3, <1>6, <1>7, <1>8 DEF Tab

----------------------------------------------------------------------------
(* The invariant *)

\* It holds at first.
LEMMA ListBegins == Init => ListInv
<1>. SUFFICES ASSUME Init PROVE ListInv
    OBVIOUS
<1>1. TypeOK
    <2>1. 1 \in 1 .. MaxPage /\ 0 \in 0 .. MaxLeads
        BY LeadListingBounds
    <2>. QED
        BY <2>1 DEF Init, TypeOK, Leads, Tab, Phase
<1>2. CountersTell
    <2>1. Created = 0 /\ Reached = 0
        BY FS_EmptySet DEF Init, Created, Reached
    <2>. QED
        BY <2>1 DEF Init, CountersTell
<1>. QED
    BY <1>1, <1>2 DEF Init, ListInv, CountTells, EmptyExplained

\* Every step keeps it.
LEMMA ListKept == ListInv /\ [Next]_vars => ListInv'
<1>. SUFFICES ASSUME ListInv, [Next]_vars PROVE NextListInv
    BY DEF NextListInv
<1>1. CASE \E t \in Tab, n \in 1 .. MaxPage : Open(t, n)
    BY <1>1, OpenKeeps
<1>2. CASE Count
    BY <1>2, CountKeeps
<1>3. CASE Show
    BY <1>3, ShowKeeps
<1>4. CASE Overflow
    BY <1>4, OverflowKeeps
<1>5. CASE Redirect \/ NextPage \/ PreviousPage
    BY <1>5, TurnKeeps
<1>6. CASE \E l \in Leads : Create(l)
    BY <1>6, CreateKeeps
<1>7. CASE \E l \in Leads : MarkReachedOut(l)
    BY <1>7, MarkKeeps
<1>8. CASE UNCHANGED vars
    BY <1>8 DEF NextListInv, ListInv, TypeOK, CountersTell, CountTells, EmptyExplained,
                Created, Reached, InTab, vars
<1>. QED
    BY <1>1, <1>2, <1>3, <1>4, <1>5, <1>6, <1>7, <1>8 DEF Next, Serve

\* It always holds.
LEMMA ListKeptAlways == Spec => []ListInv
<1>. QED
    BY ListBegins, ListKept, PTL DEF Spec

\* The types of every variable: in particular, every page that a link or a
\* redirect asks for is a page (page.tsx:45-49, 56-60).
THEOREM TypeCorrect == Spec => []TypeOK
<1>1. ListInv => TypeOK
    BY DEF ListInv
<1>. QED
    BY <1>1, ListKeptAlways, PTL

\* An empty page is shown of a tab that was counted as non-empty only if
\* leads left between the count and the rows, for any number of leads, any
\* page size and any page asked for (page.tsx:56-60, 98-104).
THEOREM EmptyIsExplained == Spec => []EmptyExplained
<1>1. ListInv => EmptyExplained
    BY DEF ListInv
<1>. QED
    BY <1>1, ListKeptAlways, PTL

----------------------------------------------------------------------------
(* Leads that a walk misses *)

\* A lead's place in the list of a set of leads, and those before a place.
Place(S, l) == Cardinality(After(S, l))
Before(T, S, x) == {l \in T : Place(S, l) < x}

\* Places are numbers.
LEMMA PlaceType ==
    ASSUME NEW S \in SUBSET Leads, NEW l
    PROVE  /\ After(S, l) \subseteq S /\ IsFiniteSet(After(S, l))
           /\ Place(S, l) \in Nat
<1>1. After(S, l) \in SUBSET Leads /\ After(S, l) \subseteq S
    BY DEF After
<1>2. MaxLeads \in Nat
    BY LeadListingBounds
<1>. QED
    BY <1>1, <1>2, LeadSets DEF Place

\* Older leads have later places, so no two leads have the same one.
LEMMA PlaceGrows ==
    ASSUME NEW S \in SUBSET Leads, NEW k \in S, NEW l \in S, k < l
    PROVE  Place(S, k) >= Place(S, l) + 1
<1>1. /\ IsFiniteSet(After(S, k)) /\ IsFiniteSet(After(S, l))
      /\ Place(S, k) \in Nat /\ Place(S, l) \in Nat
    BY PlaceType
<1>2. S \subseteq Nat
    BY LeadListingBounds DEF Leads
<1>3. l \notin After(S, l) /\ After(S, l) \cup {l} \subseteq After(S, k)
    <2>1. l \in Nat /\ k \in Nat /\ ~(l > l) /\ l > k
        BY <1>2
    <2>2. \A j \in S : j > l => j > k
        BY <1>2, <2>1
    <2>. QED
        BY <2>1, <2>2 DEF After
<1>4. Cardinality(After(S, l) \cup {l}) = Place(S, l) + 1
    BY <1>1, <1>3, FS_AddElement DEF Place
<1>5. Cardinality(After(S, l) \cup {l}) <= Place(S, k)
    BY <1>1, <1>3, FS_Subset DEF Place
<1>. QED
    BY <1>1, <1>4, <1>5

LEMMA PlacesDiffer ==
    ASSUME NEW S \in SUBSET Leads, NEW k \in S, NEW l \in S, Place(S, k) = Place(S, l)
    PROVE  k = l
<1>1. Place(S, k) \in Nat
    BY PlaceType
<1>2. k \in Nat /\ l \in Nat
    BY LeadListingBounds DEF Leads
<1>3. ~(k < l) /\ ~(l < k)
    BY <1>1, PlaceGrows
<1>. QED
    BY <1>2, <1>3

\* From a place on there are no more leads than the list has beyond it.
LEMMA BeyondPlace ==
    ASSUME NEW S \in SUBSET Leads, NEW x \in Nat
    PROVE  LET B == {l \in S : Place(S, l) >= x}
           IN /\ IsFiniteSet(B) /\ Cardinality(B) \in Nat
              /\ Cardinality(B) = 0 \/ Cardinality(B) + x <= Cardinality(S)
<1>. DEFINE B == {l \in S : Place(S, l) >= x}
<1>1. /\ IsFiniteSet(S) /\ Cardinality(S) \in Nat
      /\ IsFiniteSet(B) /\ Cardinality(B) \in Nat
    <2>1. B \in SUBSET Leads /\ MaxLeads \in Nat
        BY LeadListingBounds
    <2>. HIDE DEF B
    <2>. QED
        BY <2>1, LeadSets
<1>2. S \subseteq Nat
    BY LeadListingBounds DEF Leads
<1>3. CASE x < Cardinality(S)
    <2>1. PICK m \in S : Place(S, m) = x
        BY <1>3, Ranked DEF Place
    <2>2. B \subseteq S \ After(S, m)
        <3>. SUFFICES ASSUME NEW l \in B, l > m PROVE FALSE
            BY DEF After
        <3>1. Place(S, m) >= Place(S, l) + 1
            BY <1>2, PlaceGrows
        <3>. QED
            BY <2>1, <3>1, PlaceType
    <2>3. S \cap After(S, m) = After(S, m)
        BY DEF After
    <2>4. /\ IsFiniteSet(S \ After(S, m))
          /\ Cardinality(S \ After(S, m)) = Cardinality(S) - x
        BY <1>1, <2>1, <2>3, FS_Difference DEF Place
    <2>. HIDE DEF B
    <2>5. Cardinality(B) <= Cardinality(S) - x
        BY <2>2, <2>4, FS_Subset
    <2>. QED
        BY <1>1, <2>5 DEF B
<1>4. CASE ~(x < Cardinality(S))
    <2>1. ASSUME NEW l \in B PROVE FALSE
        <3>1. After(S, l) \subseteq S \ {l}
            BY <1>2 DEF After
        <3>2. IsFiniteSet(S \ {l}) /\ Cardinality(S \ {l}) = Cardinality(S) - 1
            BY <1>1, FS_RemoveElement
        <3>3. Place(S, l) <= Cardinality(S) - 1 /\ Place(S, l) \in Nat
            BY <3>1, <3>2, FS_Subset, PlaceType DEF Place
        <3>. QED
            BY <1>1, <1>4, <3>3
    <2>2. B = {}
        BY <2>1
    <2>. QED
        BY <1>1, <2>2, FS_EmptySet
<1>. QED
    BY <1>3, <1>4

\* Leads before a place are finitely many, and no more before an earlier one.
LEMMA BeforeType ==
    ASSUME NEW T \in SUBSET Leads, NEW S \in SUBSET Leads, NEW x \in Nat
    PROVE  /\ Before(T, S, x) \in SUBSET Leads
           /\ IsFiniteSet(Before(T, S, x)) /\ Cardinality(Before(T, S, x)) \in Nat
<1>1. Before(T, S, x) \in SUBSET Leads /\ MaxLeads \in Nat
    BY LeadListingBounds DEF Before
<1>. QED
    BY <1>1, LeadSets

LEMMA BeforeGrows ==
    ASSUME NEW T \in SUBSET Leads, NEW S \in SUBSET Leads, NEW x \in Nat, NEW y \in Nat, x <= y
    PROVE  Cardinality(Before(T, S, x)) <= Cardinality(Before(T, S, y))
<1>1. Before(T, S, x) \subseteq Before(T, S, y)
    <2>. SUFFICES ASSUME NEW l \in T, Place(S, l) < x PROVE Place(S, l) < y
        BY DEF Before
    <2>. QED
        BY PlaceType
<1>. QED
    BY <1>1, BeforeType, FS_Subset

\* A lead that enters the list brings none of the others before a place.
LEMMA BeforeGain ==
    ASSUME NEW S \in SUBSET Leads, NEW T \in SUBSET S, NEW U \in SUBSET T,
           NEW l \in Leads, NEW x \in Nat
    PROVE  Cardinality(Before(U, S \cup {l}, x)) <= Cardinality(Before(T, S, x))
<1>. DEFINE R == S \cup {l}
<1>1. R \in SUBSET Leads /\ T \in SUBSET Leads
    OBVIOUS
<1>2. ASSUME NEW k \in U, Place(R, k) < x PROVE Place(S, k) < x
    <2>1. After(S, k) \subseteq After(R, k)
        BY DEF After
    <2>. HIDE DEF R
    <2>2. Place(S, k) <= Place(R, k)
        BY <1>1, <2>1, PlaceType, FS_Subset DEF Place
    <2>. QED
        BY <1>1, <1>2, <2>2, PlaceType
<1>3. Before(U, R, x) \subseteq Before(T, S, x)
    BY <1>2 DEF Before
<1>. QED
    BY <1>1, <1>3, BeforeType, FS_Subset

\* A lead that leaves it brings one at most: the one at the place itself.
LEMMA BeforeLoss ==
    ASSUME NEW S \in SUBSET Leads, NEW T \in SUBSET S, NEW U \in SUBSET T,
           NEW l \in Leads, NEW x \in Nat
    PROVE  Cardinality(Before(U, S \ {l}, x)) <= Cardinality(Before(T, S, x)) + 1
<1>. DEFINE R == S \ {l}
            A == Before(T, S, x)
            B == Before(U, R, x)
<1>1. R \in SUBSET Leads /\ T \in SUBSET Leads /\ U \in SUBSET Leads
    OBVIOUS
<1>2. /\ IsFiniteSet(A) /\ Cardinality(A) \in Nat
      /\ IsFiniteSet(B) /\ Cardinality(B) \in Nat
    BY <1>1, BeforeType
<1>3. ASSUME NEW k \in B PROVE k \in A \/ (k \in S /\ Place(S, k) = x)
    <2>1. k \in U /\ Place(R, k) < x
        BY DEF Before
    <2>. HIDE DEF A, B
    <2>2. After(S, k) \subseteq After(R, k) \cup {l}
        BY DEF After
    <2>. HIDE DEF R
    <2>3. /\ IsFiniteSet(After(R, k) \cup {l})
          /\ Cardinality(After(R, k) \cup {l}) <= Place(R, k) + 1
        BY <1>1, PlaceType, FS_AddElement DEF Place
    <2>4. Place(S, k) <= Cardinality(After(R, k) \cup {l})
        BY <2>2, <2>3, FS_Subset DEF Place
    <2>5. /\ Place(S, k) \in Nat /\ Place(R, k) \in Nat
          /\ Cardinality(After(R, k) \cup {l}) \in Nat
        BY <1>1, <2>3, PlaceType, FS_CardinalityType
    <2>6. Place(S, k) < x \/ Place(S, k) = x
        BY <2>1, <2>3, <2>4, <2>5
    <2>. QED
        BY <2>1, <2>6 DEF A, Before
<1>. HIDE DEF A, B, R
<1>4. CASE \E q \in S : Place(S, q) = x
    <2>1. PICK q \in S : Place(S, q) = x
        BY <1>4
    <2>2. B \subseteq A \cup {q}
        BY <1>3, <2>1, PlacesDiffer
    <2>3. IsFiniteSet(A \cup {q}) /\ Cardinality(A \cup {q}) <= Cardinality(A) + 1
        <3>1. /\ IsFiniteSet(A \cup {q})
              /\ Cardinality(A \cup {q}) =
                    IF q \in A THEN Cardinality(A) ELSE Cardinality(A) + 1
            BY <1>2, FS_AddElement
        <3>. QED
            BY <1>2, <3>1
    <2>4. Cardinality(B) <= Cardinality(A \cup {q}) /\ Cardinality(A \cup {q}) \in Nat
        BY <2>2, <2>3, FS_Subset, FS_CardinalityType
    <2>. QED
        BY <1>2, <2>3, <2>4 DEF A, B, R
<1>5. CASE ~\E q \in S : Place(S, q) = x
    <2>1. B \subseteq A
        BY <1>3, <1>5
    <2>2. Cardinality(B) <= Cardinality(A)
        BY <1>2, <2>1, FS_Subset
    <2>. QED
        BY <1>2, <2>2 DEF A, B, R
<1>. QED
    BY <1>4, <1>5

\* How many leads that were always in the tab a walk has not shown, of those
\* before a place; and what it may miss.
Unseen(x) == Cardinality(Before(there \ seen, InTab, x))
Slack == departed + squeezed

\* What a walk has missed before the page it is at, once that is shown before
\* the next one; and while the rows are awaited, what the count has missed.
WalkInv ==
    walk =>
        /\ there \subseteq InTab
        /\ phase \in {"count", "rows"} => Unseen(Offset(page)) <= Slack
        /\ phase = "rows" => Unseen(Offset(page)) + Cardinality(InTab) <= Slack + total
        /\ phase = "shown" => Unseen(Offset(page) + PageSize) <= Slack
        /\ MissedExplained

NextWalkInv == WalkInv'

\* The numbers of the invariant are numbers.
LEMMA WalkTypes ==
    ASSUME TypeOK
    PROVE  /\ PageSize \in Nat /\ Offset(page) \in Nat /\ Offset(page) + PageSize \in Nat
           /\ Slack \in Nat /\ total \in Nat
           /\ there \subseteq Leads /\ InTab \subseteq Leads /\ Cardinality(InTab) \in Nat
           /\ \A x \in Nat : Unseen(x) \in Nat
           /\ IsFiniteSet(there \ seen) /\ Cardinality(there \ seen) \in Nat
<1>1. /\ PageSize \in Nat /\ MaxLeads \in Nat /\ page \in Nat \ {0} /\ total \in Nat
      /\ departed \in Nat /\ squeezed \in Nat
    BY PageSizeAssumption, LeadListingBounds DEF TypeOK
<1>2. page - 1 \in Nat
    BY <1>1
<1>3. Offset(page) \in Nat /\ Offset(page) + PageSize \in Nat
    BY <1>1, <1>2 DEF Offset
<1>4. InTab \in SUBSET Leads /\ there \ seen \in SUBSET Leads /\ there \subseteq Leads
    BY TabLeads DEF TypeOK
<1>5. \A x \in Nat : Unseen(x) \in Nat
    BY <1>4, BeforeType DEF Unseen
<1>6. Cardinality(InTab) \in Nat
    BY <1>1, TabLeads
<1>7. IsFiniteSet(there \ seen) /\ Cardinality(there \ seen) \in Nat
    BY <1>1, <1>4, LeadSets
<1>. QED
    BY <1>1, <1>3, <1>4, <1>5, <1>6, <1>7 DEF Slack

\* A request for a page that begins no later than what the walk has covered.
LEMMA WalkAsks ==
    ASSUME TypeOK, walk => there \subseteq InTab,
           NEW n \in Nat \ {0}, Request(n), UNCHANGED <<tab, history>>,
           NEW x \in Nat, Offset(n) <= x, walk => Unseen(x) <= Slack
    PROVE  NextWalkInv
<1>1. /\ phase' = "count" /\ page' = n /\ walk' = walk /\ Slack' = Slack
      /\ there' = there /\ seen' = seen /\ InTab' = InTab
    BY DEF Request, history, InTab, Slack
<1>2. Offset(n) \in Nat
    <2>1. n - 1 \in Nat /\ PageSize \in Nat
        BY PageSizeAssumption
    <2>. QED
        BY <2>1 DEF Offset
<1>3. Unseen(Offset(n)) <= Unseen(x)
    <2>1. there \ seen \in SUBSET Leads /\ InTab \in SUBSET Leads
        BY WalkTypes
    <2>. QED
        BY <1>2, <2>1, BeforeGrows DEF Unseen
<1>4. walk => Unseen(Offset(n)) <= Slack
    BY <1>2, <1>3, WalkTypes
<1>5. Unseen(Offset(page))' = Unseen(Offset(n))
    BY <1>1 DEF Unseen, Offset
<1>. QED
    BY <1>1, <1>4, <1>5 DEF NextWalkInv, WalkInv, MissedExplained

\* A walk begins on page 1 with everything in the tab before it.
LEMMA OpenWalks ==
    ASSUME TypeOK, NEW t \in Tab, NEW n \in 1 .. MaxPage, Open(t, n)
    PROVE  NextWalkInv
<1>1. /\ phase' = "count" /\ page' = n /\ walk' = (n = 1)
      /\ there' = InTab' /\ Slack' = 0 /\ seen' = {}
    BY DEF Open, Request, InTab, Slack
<1>2. InTab' \in SUBSET Leads
    <2>1. tab' = t /\ created' = created /\ reached' = reached
        BY DEF Open, Request
    <2>. QED
        BY <2>1, TabType DEF InTab, TypeOK
<1>3. Offset(1) = 0
    BY PageSizeAssumption DEF Offset
<1>4. \A S \in SUBSET Leads : Before(S, S, 0) = {}
    <2>. SUFFICES ASSUME NEW S \in SUBSET Leads, NEW l \in S, Place(S, l) < 0 PROVE FALSE
        BY DEF Before
    <2>. QED
        BY PlaceType
<1>5. n = 1 => Unseen(Offset(page))' = 0
    <2>1. n = 1 => Unseen(Offset(page))' = Cardinality(Before(InTab', InTab', 0))
        BY <1>1, <1>3 DEF Unseen
    <2>2. Before(InTab', InTab', 0) = {}
        BY <1>2, <1>4
    <2>. QED
        BY <2>1, <2>2, FS_EmptySet
<1>6. CASE n = 1
    <2>1. there' \subseteq InTab' /\ Unseen(Offset(page))' <= Slack'
        BY <1>1, <1>5, <1>6
    <2>. QED
        BY <1>1, <2>1 DEF NextWalkInv, WalkInv, MissedExplained
<1>7. CASE n # 1
    BY <1>1, <1>7 DEF NextWalkInv, WalkInv
<1>. QED
    BY <1>6, <1>7

\* Links and redirects: the new page begins where the walk has been.
LEMMA TurnWalks ==
    ASSUME TypeOK, WalkInv, Redirect \/ NextPage \/ PreviousPage
    PROVE  NextWalkInv
<1>1. page \in Nat \ {0} /\ total \in Nat /\ PageSize \in Nat
    BY LeadListingBounds, PageSizeAssumption DEF TypeOK
<1>2. walk => there \subseteq InTab
    BY DEF WalkInv
<1>3. \A m, n \in Nat \ {0} : m <= n => Offset(m) <= Offset(n)
    <2>. SUFFICES ASSUME NEW m \in Nat \ {0}, NEW n \in Nat \ {0}, m <= n
                  PROVE  Offset(m) <= Offset(n)
        OBVIOUS
    <2>1. n - m \in Nat /\ m - 1 \in Nat
        OBVIOUS
    <2>2. (n - m) * PageSize \in Nat /\ (m - 1) * PageSize \in Nat
        BY <1>1, <2>1
    <2>3. (n - 1) * PageSize = (n - m) * PageSize + (m - 1) * PageSize
        BY <1>1, <2>1
    <2>. QED
        BY <2>2, <2>3 DEF Offset
<1>4. Offset(page + 1) = Offset(page) + PageSize
    <2>1. page - 1 \in Nat /\ (page + 1) - 1 = (page - 1) + 1
        BY <1>1
    <2>2. \A k \in Nat : (k + 1) * PageSize = k * PageSize + PageSize
        BY <1>1
    <2>. QED
        BY <2>1, <2>2 DEF Offset
<1>5. CASE Redirect
    <2>. DEFINE last == Pages(total)
    <2>1. last \in Nat \ {0} /\ Parsed(last) = last
        BY <1>1, PagesType
    <2>2. /\ page > last /\ Request(last) /\ UNCHANGED <<tab, history>>
          /\ walk => Unseen(Offset(page)) <= Slack
        BY <1>5, <2>1 DEF Redirect, WalkInv
    <2>. HIDE DEF last
    <2>3. Offset(last) <= Offset(page)
        BY <1>1, <1>3, <2>1, <2>2
    <2>. QED
        BY <1>2, <2>1, <2>2, <2>3, WalkTypes, WalkAsks
<1>6. CASE NextPage \/ PreviousPage
    <2>1. PICK n \in {page - 1, page + 1} :
              n \in Nat \ {0} /\ Request(n) /\ UNCHANGED <<tab, history>>
        BY <1>1, <1>6 DEF NextPage, PreviousPage
    <2>2. walk => Unseen(Offset(page) + PageSize) <= Slack
        BY <1>6 DEF NextPage, PreviousPage, WalkInv
    <2>3. Offset(n) <= Offset(page) + PageSize
        BY <1>1, <1>3, <1>4, <2>1
    <2>. QED
        BY <1>2, <2>1, <2>2, <2>3, WalkTypes, WalkAsks
<1>. QED
    BY <1>5, <1>6

\* The last page ends no earlier than the count.
LEMMA LastPageEnds ==
    ASSUME NEW count \in Nat
    PROVE  count <= Offset(Pages(count)) + PageSize
<1>. DEFINE full == (count + PageSize - 1) \div PageSize
<1>1. PageSize \in Nat /\ PageSize > 0
    BY PageSizeAssumption
<1>2. full \in Nat /\ count + PageSize - 1 < (full + 1) * PageSize
    BY <1>1
<1>3. Pages(count) = IF full > 1 THEN full ELSE 1
    BY DEF Pages
<1>. HIDE DEF full
<1>4. \A k \in Nat : (k + 1) * PageSize = k * PageSize + PageSize /\ k * PageSize \in Nat
    BY <1>1
<1>5. count <= full * PageSize
    BY <1>1, <1>2, <1>4
<1>6. CASE full > 1
    <2>1. full - 1 \in Nat /\ (full - 1) + 1 = full
        BY <1>2, <1>6
    <2>. QED
        BY <1>3, <1>4, <1>5, <1>6, <2>1 DEF Offset
<1>7. CASE ~(full > 1)
    <2>1. full * PageSize <= PageSize
        <3>1. full = 0 \/ full = 1
            BY <1>2, <1>7
        <3>. QED
            BY <1>1, <3>1
    <2>2. Offset(1) = 0
        BY <1>1 DEF Offset
    <2>. QED
        BY <1>1, <1>2, <1>3, <1>4, <1>5, <1>7, <2>1, <2>2
<1>. QED
    BY <1>6, <1>7

\* The count misses nothing.
LEMMA CountWalks ==
    ASSUME TypeOK, WalkInv, Count
    PROVE  NextWalkInv
<1>1. /\ phase = "count" /\ phase' = "rows" /\ total' = Cardinality(InTab)
      /\ page' = page /\ walk' = walk /\ there' = there /\ seen' = seen
      /\ Slack' = Slack /\ InTab' = InTab
    BY DEF Count, table, history, InTab, Slack
<1>2. Unseen(Offset(page))' = Unseen(Offset(page))
    BY <1>1 DEF Unseen, Offset
<1>3. walk => there \subseteq InTab /\ Unseen(Offset(page)) <= Slack
    BY <1>1 DEF WalkInv
<1>4. walk => Unseen(Offset(page)) + Cardinality(InTab) <= Slack + Cardinality(InTab)
    BY <1>3, WalkTypes
<1>. QED
    BY <1>1, <1>2, <1>3, <1>4 DEF NextWalkInv, WalkInv, MissedExplained

\* The page that is shown adds what it covers; if it was the last one by the
\* count, only what slipped in since is left.
LEMMA ShowWalks ==
    ASSUME TypeOK, WalkInv, Show
    PROVE  NextWalkInv
<1>. DEFINE x == Offset(page)
            y == Offset(page) + PageSize
            rest == {l \in InTab : Place(InTab, l) >= y}
            known == Before(there \ seen, InTab, x)
<1>1. /\ phase = "rows" /\ phase' = "shown" /\ items' = PageOf(page) /\ seen' = seen \cup items'
      /\ page' = page /\ total' = total /\ walk' = walk /\ there' = there
      /\ Slack' = Slack /\ InTab' = InTab /\ Offset(page)' = x
    BY DEF Show, table, InTab, Slack, Offset
<1>2. SUFFICES ASSUME walk
               PROVE  /\ Unseen(y)' <= Slack
                      /\ page = Pages(total) => Cardinality(there \ seen') <= Slack
    <2>1. walk => there \subseteq InTab
        BY DEF WalkInv
    <2>2. Unseen(Offset(page) + PageSize)' = Unseen(y)'
        BY <1>1
    <2>3. Slack = departed' + squeezed'
        BY <1>1 DEF Slack
    <2>. QED
        BY <1>1, <2>1, <2>2, <2>3 DEF NextWalkInv, WalkInv, MissedExplained
<1>3. /\ there \subseteq InTab /\ Unseen(x) <= Slack
      /\ Unseen(x) + Cardinality(InTab) <= Slack + total
    BY <1>1, <1>2 DEF WalkInv
<1>4. /\ x \in Nat /\ y \in Nat /\ PageSize \in Nat /\ Slack \in Nat /\ total \in Nat
      /\ InTab \in SUBSET Leads /\ there \ seen \in SUBSET Leads
      /\ Cardinality(InTab) \in Nat
    BY WalkTypes
<1>5. IsFiniteSet(known) /\ Cardinality(known) \in Nat /\ Cardinality(known) = Unseen(x)
    BY <1>4, BeforeType DEF Unseen
<1>6. items' = {l \in InTab : x <= Place(InTab, l) /\ Place(InTab, l) < y}
    BY <1>1 DEF PageOf, Above, Place, After
<1>7. \A l \in InTab : Place(InTab, l) \in Nat
    BY <1>4, PlaceType
<1>8. \A l \in there \ seen' :
          /\ l \in there \ seen /\ l \in InTab
          /\ Place(InTab, l) < x \/ Place(InTab, l) >= y
    BY <1>1, <1>3, <1>4, <1>6, <1>7
<1>9. Unseen(y)' <= Slack
    <2>1. Unseen(y)' = Cardinality(Before(there \ seen', InTab, y))
        BY <1>1 DEF Unseen
    <2>2. Before(there \ seen', InTab, y) \subseteq known
        <3>. SUFFICES ASSUME NEW l \in there \ seen', Place(InTab, l) < y
                      PROVE  l \in there \ seen /\ Place(InTab, l) < x
            BY DEF Before
        <3>. QED
            BY <1>4, <1>7, <1>8
    <2>. HIDE DEF x, y, known
    <2>3. Cardinality(Before(there \ seen', InTab, y)) \in Nat
        BY <1>5, <2>2, FS_Subset, FS_CardinalityType
    <2>4. Cardinality(Before(there \ seen', InTab, y)) <= Cardinality(known)
        BY <1>5, <2>2, FS_Subset
    <2>. QED
        BY <1>3, <1>4, <1>5, <2>1, <2>3, <2>4
<1>10. ASSUME page = Pages(total) PROVE Cardinality(there \ seen') <= Slack
    <2>1. /\ IsFiniteSet(rest) /\ Cardinality(rest) \in Nat
          /\ Cardinality(rest) = 0 \/ Cardinality(rest) + y <= Cardinality(InTab)
        BY <1>4, BeyondPlace
    <2>2. total <= y
        BY <1>4, <1>10, LastPageEnds
    <2>3. there \ seen' \subseteq known \cup rest
        BY <1>8 DEF Before
    <2>. HIDE DEF x, y, known, rest
    <2>4. /\ IsFiniteSet(known \cup rest)
          /\ Cardinality(known \cup rest) <= Cardinality(known) + Cardinality(rest)
        <3>1. /\ IsFiniteSet(known \cup rest) /\ IsFiniteSet(known \cap rest)
              /\ Cardinality(known \cup rest)
                    = Cardinality(known) + Cardinality(rest) - Cardinality(known \cap rest)
            BY <1>5, <2>1, FS_Union, FS_Intersection
        <3>2. Cardinality(known \cap rest) \in Nat
            BY <3>1, FS_CardinalityType
        <3>. QED
            BY <1>5, <2>1, <3>1, <3>2
    <2>5. /\ Cardinality(there \ seen') <= Cardinality(known \cup rest)
          /\ Cardinality(there \ seen') \in Nat /\ Cardinality(known \cup rest) \in Nat
        BY <2>3, <2>4, FS_Subset, FS_CardinalityType
    <2>6. Cardinality(known) + Cardinality(rest) <= Slack
        BY <1>3, <1>4, <1>5, <2>1, <2>2
    <2>. QED
        BY <1>4, <1>5, <2>1, <2>4, <2>5, <2>6
<1>. QED
    BY <1>9, <1>10

\* What a change of the table does to a walk: a lead that enters the tab moves
\* the others down, and is one more to count; a lead that leaves it moves the
\* others up, one of them past the reader.
LEMMA MissedMoves ==
    ASSUME TypeOK, there \subseteq InTab, NEW l \in Leads, Watch(InTab, InTab'),
           \/ Same(InTab, InTab')
           \/ Gains(InTab, InTab', l)
           \/ Loses(InTab, InTab', l)
    PROVE  /\ there' \subseteq InTab' /\ there' \subseteq there
           /\ Slack' \in Nat /\ Slack' >= Slack
           /\ \A x \in Nat :
                  /\ Unseen(x)' \in Nat /\ Unseen(x)' + Slack <= Unseen(x) + Slack'
                  /\ phase = "rows" =>
                        Unseen(x)' + Cardinality(InTab') + Slack
                            <= Unseen(x) + Cardinality(InTab) + Slack'
<1>. DEFINE S == InTab
            R == InTab'
            T == there \ seen
            U == there' \ seen
            left == Cardinality(S \ R)
            entered == Cardinality(R \ S)
<1>1. /\ seen' = seen /\ there' = there \cap R /\ departed' = departed + left
      /\ squeezed' = (IF phase = "rows" THEN squeezed + entered ELSE squeezed)
    BY DEF Watch
<1>2. /\ S \in SUBSET Leads /\ T \in SUBSET S /\ U \in SUBSET T /\ R \in SUBSET Leads
      /\ IsFiniteSet(S) /\ Cardinality(S) \in Nat
    BY <1>1, WalkTypes, TabLeads DEF Same, Gains, Loses
<1>3. departed \in Nat /\ squeezed \in Nat /\ Slack = departed + squeezed
    BY LeadListingBounds DEF TypeOK, Slack
<1>4. \A x \in Nat : /\ Unseen(x) = Cardinality(Before(T, S, x)) /\ Unseen(x) \in Nat
                     /\ Unseen(x)' = Cardinality(Before(U, R, x)) /\ Unseen(x)' \in Nat
    <2>1. T \in SUBSET Leads /\ U \in SUBSET Leads
        BY <1>2
    <2>2. \A x \in Nat : /\ Unseen(x) = Cardinality(Before(T, S, x))
                         /\ Unseen(x)' = Cardinality(Before(U, R, x))
        BY <1>1 DEF Unseen
    <2>. HIDE DEF S, R, T, U
    <2>. QED
        BY <1>2, <2>1, <2>2, BeforeType
<1>5. /\ there' \subseteq InTab' /\ there' \subseteq there
      /\ Slack' = departed' + squeezed'
    BY <1>1 DEF Slack
<1>. HIDE DEF T, U
<1>6. Cardinality({}) = 0 /\ Cardinality({l}) = 1
    BY FS_EmptySet, FS_Singleton
<1>7. CASE Same(S, R) \/ Gains(S, R, l)
    <2>1. left = 0 /\ entered \in {0, 1} /\ Cardinality(R) = Cardinality(S) + entered
        <3>1. CASE Same(S, R)
            BY <1>2, <1>6, <3>1 DEF Same
        <3>2. CASE Gains(S, R, l)
            <4>1. left = 0 /\ entered = 1
                BY <1>6, <3>2 DEF Gains
            <4>2. Cardinality(R) = Cardinality(S) + 1
                BY <1>2, <3>2, FS_AddElement DEF Gains
            <4>. QED
                BY <4>1, <4>2
        <3>. QED
            BY <1>7, <3>1, <3>2
    <2>2. R = S \/ R = S \cup {l}
        BY <1>7 DEF Same, Gains
    <2>3. \A x \in Nat : Unseen(x)' <= Unseen(x)
        <3>. SUFFICES ASSUME NEW x \in Nat
                      PROVE  Cardinality(Before(U, R, x)) <= Cardinality(Before(T, S, x))
            BY <1>4
        <3>1. CASE R = S
            <4>1. Before(U, R, x) \subseteq Before(T, S, x)
                BY <1>2, <3>1 DEF Before
            <4>2. T \in SUBSET Leads
                BY <1>2
            <4>. HIDE DEF S, R
            <4>. QED
                BY <1>2, <4>1, <4>2, BeforeType, FS_Subset
        <3>2. CASE R = S \cup {l}
            <4>. HIDE DEF S, R
            <4>. QED
                BY <1>2, <3>2, BeforeGain
        <3>. QED
            BY <2>2, <3>1, <3>2
    <2>. HIDE DEF S, R, left, entered
    <2>4. /\ Slack' \in Nat /\ Slack' >= Slack
          /\ phase = "rows" => Slack' = Slack + entered
        BY <1>1, <1>3, <1>5, <2>1
    <2>. QED
        BY <1>2, <1>3, <1>4, <1>5, <2>1, <2>3, <2>4 DEF S, R
<1>8. CASE Loses(S, R, l)
    <2>1. left = 1 /\ entered = 0 /\ Cardinality(R) = Cardinality(S) - 1
        <3>1. left = 1 /\ entered = 0
            BY <1>6, <1>8 DEF Loses
        <3>2. Cardinality(R) = Cardinality(S) - 1
            BY <1>2, <1>8, FS_RemoveElement DEF Loses
        <3>. QED
            BY <3>1, <3>2
    <2>2. R = S \ {l}
        BY <1>8 DEF Loses
    <2>. HIDE DEF S, R, left, entered
    <2>3. \A x \in Nat : Unseen(x)' <= Unseen(x) + 1
        BY <1>2, <1>4, <2>2, BeforeLoss
    <2>4. Slack' = Slack + 1
        BY <1>1, <1>3, <1>5, <2>1
    <2>. QED
        BY <1>2, <1>3, <1>4, <1>5, <2>1, <2>3, <2>4 DEF S, R
<1>. QED
    BY <1>7, <1>8

\* So the invariant survives every change of the table.
LEMMA TableWalks ==
    ASSUME TypeOK, WalkInv, NEW l \in Leads, Watch(InTab, InTab'),
           \/ Same(InTab, InTab')
           \/ Gains(InTab, InTab', l)
           \/ Loses(InTab, InTab', l)
    PROVE  NextWalkInv
<1>. SUFFICES ASSUME walk PROVE NextWalkInv
    BY DEF Watch, NextWalkInv, WalkInv
<1>0. PICK x \in Nat, y \in Nat : x = Offset(page) /\ y = Offset(page) + PageSize
    BY WalkTypes
<1>1. /\ page' = page /\ phase' = phase /\ total' = total /\ walk' = walk /\ seen' = seen
      /\ Offset(page)' = x /\ Offset(page)' + PageSize = y
    BY <1>0 DEF Watch, Offset
<1>2. /\ there \subseteq InTab
      /\ phase \in {"count", "rows"} => Unseen(x) <= Slack
      /\ phase = "rows" => Unseen(x) + Cardinality(InTab) <= Slack + total
      /\ phase = "shown" => Unseen(y) <= Slack
      /\ phase = "shown" /\ page = Pages(total) => Cardinality(there \ seen) <= Slack
    BY <1>0 DEF WalkInv, MissedExplained, Slack
<1>3. /\ there' \subseteq InTab' /\ there' \subseteq there
      /\ Slack' \in Nat /\ Slack' >= Slack
      /\ \A z \in Nat :
             /\ Unseen(z)' \in Nat /\ Unseen(z)' + Slack <= Unseen(z) + Slack'
             /\ phase = "rows" =>
                    Unseen(z)' + Cardinality(InTab') + Slack
                        <= Unseen(z) + Cardinality(InTab) + Slack'
    BY <1>2, MissedMoves
<1>4. /\ x \in Nat /\ y \in Nat /\ Slack \in Nat /\ total \in Nat
      /\ Cardinality(InTab) \in Nat /\ Cardinality(InTab') \in Nat
      /\ Unseen(x) \in Nat /\ Unseen(y) \in Nat
      /\ IsFiniteSet(there \ seen) /\ Cardinality(there \ seen) \in Nat
    <2>1. /\ x \in Nat /\ y \in Nat /\ Slack \in Nat /\ total \in Nat
          /\ InTab \subseteq Leads /\ Cardinality(InTab) \in Nat
          /\ Unseen(x) \in Nat /\ Unseen(y) \in Nat
          /\ IsFiniteSet(there \ seen) /\ Cardinality(there \ seen) \in Nat
        BY WalkTypes
    <2>2. InTab' \in SUBSET Leads /\ MaxLeads \in Nat
        BY <2>1, LeadListingBounds DEF Same, Gains, Loses
    <2>3. \A R \in SUBSET Leads : Cardinality(R) \in Nat
        BY <2>2, LeadSets
    <2>. QED
        BY <2>1, <2>2, <2>3
<1>5. Unseen(Offset(page))' = Unseen(x)' /\ Unseen(Offset(page) + PageSize)' = Unseen(y)'
    BY <1>1 DEF Unseen
<1>6. phase \in {"count", "rows"} => Unseen(x)' <= Slack'
    BY <1>2, <1>3, <1>4
<1>7. phase = "rows" => Unseen(x)' + Cardinality(InTab') <= Slack' + total
    BY <1>2, <1>3, <1>4
<1>8. phase = "shown" => Unseen(y)' <= Slack'
    BY <1>2, <1>3, <1>4
<1>9. phase = "shown" /\ page = Pages(total) => Cardinality(there' \ seen') <= Slack'
    <2>1. there' \ seen' \in SUBSET (there \ seen)
        BY <1>1, <1>3
    <2>2. /\ Cardinality(there' \ seen') \in Nat
          /\ Cardinality(there' \ seen') <= Cardinality(there \ seen)
        BY <1>4, <2>1, FS_Subset, FS_CardinalityType
    <2>. QED
        BY <1>2, <1>3, <1>4, <2>2
<1>10. Slack' = departed' + squeezed'
    BY DEF Slack
<1>. QED
    BY <1>1, <1>3, <1>5, <1>6, <1>7, <1>8, <1>9, <1>10 DEF NextWalkInv, WalkInv, MissedExplained

\* Every step keeps it.
LEMMA WalkKept ==
    ASSUME TypeOK, WalkInv, [Next]_vars
    PROVE  NextWalkInv
<1>0. created \subseteq Leads /\ reached \subseteq created /\ tab \in Tab
    BY DEF TypeOK
<1>1. CASE \E t \in Tab, n \in 1 .. MaxPage : Open(t, n)
    BY <1>1, OpenWalks
<1>2. CASE Count
    BY <1>2, CountWalks
<1>3. CASE Show
    BY <1>3, ShowWalks
<1>4. CASE Redirect \/ NextPage \/ PreviousPage
    BY <1>4, TurnWalks
<1>5. CASE Overflow
    <2>1. /\ phase' = "error" /\ walk' = walk /\ there' = there /\ InTab' = InTab
        BY <1>5 DEF Overflow, table, history, InTab
    <2>. QED
        BY <2>1 DEF NextWalkInv, WalkInv, MissedExplained
<1>6. ASSUME NEW l \in Leads, Create(l) PROVE NextWalkInv
    <2>1. /\ created' = created \cup {l} /\ reached' = reached /\ l \notin created
          /\ Watch(InTab, Filter(tab, created', reached))
        BY <1>6 DEF Create
    <2>2. tab' = tab /\ InTab' = Filter(tab, created', reached)
        BY <2>1 DEF Watch, InTab
    <2>3. CASE tab = "REACHED_OUT"
        <3>1. Same(InTab, InTab')
            BY <1>0, <2>1, <2>2, <2>3 DEF InTab, Filter, Same
        <3>. QED
            BY <2>1, <2>2, <3>1, TableWalks
    <2>4. CASE tab # "REACHED_OUT"
        <3>1. Gains(InTab, InTab', l)
            BY <1>0, <2>1, <2>2, <2>4 DEF InTab, Filter, Gains, Tab
        <3>. QED
            BY <2>1, <2>2, <3>1, TableWalks
    <2>. QED
        BY <2>3, <2>4
<1>7. ASSUME NEW l \in Leads, MarkReachedOut(l) PROVE NextWalkInv
    <2>1. /\ l \in created \ reached /\ reached' = reached \cup {l} /\ created' = created
          /\ Watch(InTab, Filter(tab, created, reached'))
        BY <1>7 DEF MarkReachedOut
    <2>2. tab' = tab /\ InTab' = Filter(tab, created, reached')
        BY <2>1 DEF Watch, InTab
    <2>3. CASE tab = "PENDING"
        <3>1. Loses(InTab, InTab', l)
            BY <1>0, <2>1, <2>2, <2>3 DEF InTab, Filter, Loses
        <3>. QED
            BY <2>1, <2>2, <3>1, TableWalks
    <2>4. CASE tab = "REACHED_OUT"
        <3>1. Gains(InTab, InTab', l)
            BY <1>0, <2>1, <2>2, <2>4 DEF InTab, Filter, Gains
        <3>. QED
            BY <2>1, <2>2, <3>1, TableWalks
    <2>5. CASE tab = "all"
        <3>1. Same(InTab, InTab')
            BY <1>0, <2>1, <2>2, <2>5 DEF InTab, Filter, Same
        <3>. QED
            BY <2>1, <2>2, <3>1, TableWalks
    <2>. QED
        BY <1>0, <2>3, <2>4, <2>5 DEF Tab
<1>8. CASE UNCHANGED vars
    BY <1>8 DEF NextWalkInv, WalkInv, MissedExplained, Unseen, Slack, InTab, Offset, vars
<1>. QED
    BY <1>1, <1>2, <1>3, <1>4, <1>5, <1>6, <1>7, <1>8 DEF Next, Serve

\* Who has paged from the first page to the last has seen every lead that was
\* in the tab all the time, but for one for each lead that left it, or slipped
\* in between a count and its rows, for any number of leads, any page size,
\* and whatever pages back and forth (service.py:62-69).
THEOREM MissedIsExplained == Spec => []MissedExplained
<1>1. Init => WalkInv
    BY DEF Init, WalkInv
<1>2. TypeOK /\ WalkInv /\ [Next]_vars => WalkInv'
    BY WalkKept DEF NextWalkInv
<1>3. WalkInv => MissedExplained
    BY DEF WalkInv, MissedExplained
<1>. QED
    BY <1>1, <1>2, <1>3, TypeCorrect, PTL DEF Spec

----------------------------------------------------------------------------
(* Redirects *)

\* A redirect goes to an earlier page, one that exists by the count it was
\* decided on: a request is redirected no more often than its page has pages
\* before it, however the tab shrinks meanwhile (page.tsx:56-60).
THEOREM RedirectsGoBack == Spec => [][Redirect => page' \in 1 .. page - 1]_vars
<1>1. TypeOK /\ Redirect => page' \in 1 .. page - 1
    <2>. SUFFICES ASSUME TypeOK, Redirect PROVE page' \in 1 .. page - 1
        OBVIOUS
    <2>1. Pages(total) \in Nat \ {0} /\ page > Pages(total)
        BY PagesType DEF Redirect, TypeOK
    <2>2. page' = Parsed(Pages(total)) /\ page \in Nat
        BY LeadListingBounds DEF Redirect, Request, TypeOK
    <2>. QED
        BY <2>1, <2>2 DEF Parsed
<1>. QED
    BY <1>1, TypeCorrect, PTL DEF Spec

=============================================================================
