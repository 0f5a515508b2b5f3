---------------------------- MODULE LeadListing ----------------------------
(***************************************************************************)
(* An attorney pages through the leads while they change:                  *)
(*   apps/api/app/leads/service.py   list_leads                            *)
(*   apps/web/src/app/leads/page.tsx the tabs, the links and the redirect  *)
(*                                                                         *)
(* A lead stands for its place in the order (createdAt, id); the list is   *)
(* newest first.  createdAt is the start of the inserting transaction, so  *)
(* leads need not become visible in their order.  list_leads counts and    *)
(* reads in one READ COMMITTED transaction: two statements, each with its  *)
(* own view of the table.                                                  *)
(*                                                                         *)
(* Readers do not disturb each other: one is modelled.                     *)
(***************************************************************************)
EXTENDS Naturals, FiniteSets

CONSTANTS
    MaxLeads,          \* bound: leads ever created
    PageSize,          \* PAGE_SIZE
    MaxPage,           \* bound: page numbers in the URL
    MaxOffset          \* the largest OFFSET that the query can carry

ASSUME PageSizeAssumption == PageSize \in Nat \ {0}
ASSUME LeadListingBounds ==
    MaxLeads \in Nat /\ MaxPage \in Nat \ {0} /\ MaxOffset \in Nat

VARIABLES
    created,           \* leads in the table
    reached,           \* those that are REACHED_OUT
    tab, page,         \* the URL the reader is at
    phase,             \* where the request for it stands
    total, items,      \* what list_leads has read
    walk,              \* the reader came from page 1 by the page links
    seen,              \* leads shown since the walk began
    there,             \* leads that have been in the tab since it began
    departed,          \* leads that have left the tab since it began
    squeezed,          \* leads that entered it between a count and its rows
    drained            \* leads that left it between this count and its rows

table == <<created, reached>>
history == <<walk, seen, there, departed, squeezed>>
vars == <<created, reached, tab, page, phase, total, items,
          walk, seen, there, departed, squeezed, drained>>

----------------------------------------------------------------------------
Leads == 1 .. MaxLeads
Tab == {"PENDING", "REACHED_OUT", "all"}
Phase == {"idle", "count", "rows", "shown", "error"}

TypeOK ==
    /\ created \subseteq Leads
    /\ reached \subseteq created
    /\ tab \in Tab
    /\ page \in 1 .. MaxPage
    /\ phase \in Phase
    /\ total \in 0 .. MaxLeads
    /\ items \subseteq Leads
    /\ walk \in BOOLEAN
    /\ seen \subseteq Leads
    /\ there \subseteq Leads
    /\ departed \in 0 .. MaxLeads
    /\ squeezed \in 0 .. MaxLeads
    /\ drained \in 0 .. MaxLeads

Init ==
    /\ created = {} /\ reached = {}
    /\ tab = "PENDING" /\ page = 1 /\ phase = "idle"
    /\ total = 0 /\ items = {}
    /\ walk = FALSE /\ seen = {} /\ there = {}
    /\ departed = 0 /\ squeezed = 0 /\ drained = 0

----------------------------------------------------------------------------
(* list_leads *)

\* The WHERE clause of a tab.
Filter(t, all, out) ==
    CASE t = "PENDING" -> all \ out
      [] t = "REACHED_OUT" -> out
      [] t = "all" -> all

InTab == Filter(tab, created, reached)

\* How many leads of the tab the list has before a lead.
Above(l) == Cardinality({k \in InTab : k > l})

Offset(n) == (n - 1) * PageSize

\* Mutant of PageOf: the offset is a page too far.
PageOf_NextOffset(n) ==
    {l \in InTab : n * PageSize <= Above(l) /\ Above(l) < (n + 1) * PageSize}

\* ORDER BY createdAt DESC, id OFFSET ... LIMIT ...
PageOf(n) == {l \in InTab : Offset(n) <= Above(l) /\ Above(l) < Offset(n) + PageSize}

----------------------------------------------------------------------------
(* The page *)

\* Mutant of Pages: no Math.max(1, ...).
Pages_NoMax(count) == (count + PageSize - 1) \div PageSize

\* Mutant of Pages: a last page that is always short of full.
Pages_FloorPlusOne(count) == count \div PageSize + 1

Pages(count) ==
    LET full == (count + PageSize - 1) \div PageSize
    IN IF full > 1 THEN full ELSE 1

\* Math.max(1, parseInt(...)), of a URL the page's own code writes.
Parsed(n) == IF n > 1 THEN n ELSE 1

Request(n) ==
    /\ page' = n
    /\ phase' = "count"
    /\ UNCHANGED <<created, reached, total, items, drained>>

\* A tab's link, or a URL typed in: a new walk if it is for page 1.
Open(t, n) ==
    /\ phase \in {"idle", "shown", "error"}
    /\ tab' = t
    /\ Request(n)
    /\ walk' = (n = 1)
    /\ seen' = {}
    /\ there' = Filter(t, created, reached)
    /\ departed' = 0
    /\ squeezed' = 0

\* SELECT count(*).
Count ==
    /\ phase = "count"
    /\ total' = Cardinality(InTab)
    /\ phase' = "rows"
    /\ drained' = 0
    /\ UNCHANGED <<table, tab, page, items, history>>

\* The rows are read, and the page exists by the count: it is rendered.
Show ==
    /\ phase = "rows"
    /\ Offset(page) <= MaxOffset
    /\ page <= Pages(total)
    /\ items' = PageOf(page)
    /\ seen' = seen \cup items'
    /\ phase' = "shown"
    /\ UNCHANGED <<table, tab, page, total, walk, there, departed, squeezed, drained>>

\* The rows are read, and the page is beyond the last by the count:
\* redirect to the last.
Redirect ==
    /\ phase = "rows"
    /\ Offset(page) <= MaxOffset
    /\ page > Pages(total)
    /\ Request(Parsed(Pages(total)))
    /\ UNCHANGED <<tab, history>>

\* The offset does not fit the query's integer: 500, and unwrap throws.
Overflow ==
    /\ phase = "rows"
    /\ Offset(page) > MaxOffset
    /\ phase' = "error"
    /\ UNCHANGED <<table, tab, page, total, items, history, drained>>

\* The Next link.
NextPage ==
    /\ phase = "shown"
    /\ page < Pages(total)
    /\ page < MaxPage
    /\ Request(page + 1)
    /\ UNCHANGED <<tab, history>>

\* Mutant of PreviousPage: the link is there on page 1.
PreviousPage_Always ==
    /\ phase = "shown"
    /\ Request(page - 1)
    /\ UNCHANGED <<tab, history>>

\* The Previous link.
PreviousPage ==
    /\ phase = "shown"
    /\ page > 1
    /\ Request(page - 1)
    /\ UNCHANGED <<tab, history>>

----------------------------------------------------------------------------
(* The table changes *)

\* Bookkeeping for the properties, from the tab's members before and after.
Watch(before, after) ==
    LET left == Cardinality(before \ after)
        entered == Cardinality(after \ before)
    IN /\ there' = there \cap after
       /\ departed' = departed + left
       /\ squeezed' = IF phase = "rows" THEN squeezed + entered ELSE squeezed
       /\ drained' = IF phase = "rows" THEN drained + left ELSE drained
       /\ UNCHANGED <<tab, page, phase, total, items, walk, seen>>

\* create_lead commits.
Create(l) ==
    /\ l \notin created
    /\ created' = created \cup {l}
    /\ UNCHANGED reached
    /\ Watch(InTab, Filter(tab, created', reached))

\* transition commits.
MarkReachedOut(l) ==
    /\ l \in created \ reached
    /\ reached' = reached \cup {l}
    /\ UNCHANGED created
    /\ Watch(InTab, Filter(tab, created, reached'))

----------------------------------------------------------------------------
Serve == Count \/ Show \/ Redirect \/ Overflow

Next ==
    \/ \E t \in Tab, n \in 1 .. MaxPage : Open(t, n)
    \/ Serve \/ NextPage \/ PreviousPage
    \/ \E l \in Leads : Create(l) \/ MarkReachedOut(l)

\* A request that was made is served, and the browser follows redirects.
Fairness == WF_vars(Serve)

Spec == Init /\ [][Next]_vars /\ Fairness

----------------------------------------------------------------------------
(* Properties *)

\* Who has paged from the first page to the last has seen every lead that
\* was in the tab all the time, except one for each lead that left the tab
\* (the rest moves up a place behind the reader's back) or that slipped in
\* between a count and its rows (service.py:62-69).  Arrivals between two
\* pages only repeat leads.
MissedExplained ==
    (walk /\ phase = "shown" /\ page = Pages(total)) =>
        Cardinality(there \ seen) <= departed + squeezed

\* "No leads here yet." is shown for a tab that was counted as non-empty
\* only if leads left between the count and the rows: the redirect never
\* ends at a page beyond the last (page.tsx:56-60, 98-104).
EmptyExplained ==
    (phase = "shown" /\ items = {} /\ total > 0) => drained > 0

\* A request for any page ends, however often it is redirected.
PageEnds == (phase = "count") ~> (phase \in {"shown", "error"})

=============================================================================
