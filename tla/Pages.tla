------------------------------- MODULE Pages --------------------------------
(***************************************************************************)
(* The lists of the platform (rooms, egress sessions, recordings) page by  *)
(* page: paginate in apps/server/src/platform/pagination.helper.ts.  Rows  *)
(* are created and deleted while a consumer follows `next'.                *)
(*                                                                         *)
(* A row is the order column and the id.  The order column is the time of  *)
(* creation; ids are unique and in no order of time.                       *)
(***************************************************************************)
EXTENDS Integers, Sequences, FiniteSets, SequencesExt

CONSTANTS
    Times,      \* bound: the clock's readings, 1 to Times
    RowIds,     \* a set of numbers
    PageLimit,  \* MAX_PAGE_LIMIT
    MaxChanges  \* bound: rows created and deleted

ASSUME IdsAreOrdered == RowIds \subseteq Int
ASSUME PageBoundsAreNat == Times \in Nat \ {0} /\ PageLimit \in Nat /\ MaxChanges \in Nat

VARIABLES
    now,        \* the clock
    table,      \* the rows of the consumer's project
    used,       \* ids given so far
    cursor,     \* `next' of the last page; Start, and AtEnd for null
    walked,     \* what the consumer was given, page after page
    steady,     \* history: rows there at the first page and never deleted
    changes

pageVars == <<now, table, used, cursor, walked, steady, changes>>

Start == [order |-> 0, id |-> 0]
AtEnd == [order |-> -1, id |-> 0]
Row == [order : 1 .. Times, id : RowIds]

\* orderBy: order DESC, id DESC.
Newer(a, b) == a.order > b.order \/ (a.order = b.order /\ a.id > b.id)

\* Variant: the rows of the cursor's time are behind it.
StrictlyOlder(row) == cursor = Start \/ row.order < cursor.order

\* cursorPredicate; the first page has none.
After(row) == cursor = Start \/ row.order < cursor.order \/ (row.order = cursor.order /\ row.id < cursor.id)

NewerThan(rows, row) == {r \in rows : Newer(r, row)}

\* The n-th of the rows, newest first.
Nth(rows, n) == CHOOSE row \in rows : Cardinality(NewerThan(rows, row)) = n - 1

Behind == {row \in table : After(row)}

\* findPage: the rows behind the cursor, newest first, up to `take'.
Found(take) ==
    [n \in 1 .. (IF Cardinality(Behind) < take THEN Cardinality(Behind) ELSE take) |-> Nth(Behind, n)]

\* Variant: no row more than the page is asked for.
TakeLimit(limit) == limit

Take(limit) == limit + 1

\* paginate.  A limit out of 1..PageLimit and a malformed cursor are refused.
NextPage(limit) ==
    LET rows == Found(Take(limit))
        items == SubSeq(rows, 1, IF Len(rows) > limit THEN limit ELSE Len(rows)) IN
    /\ cursor # AtEnd
    /\ cursor' = IF Len(rows) > limit THEN items[Len(items)] ELSE AtEnd
    /\ walked' = walked \o items
    /\ steady' = IF cursor = Start THEN table ELSE steady
    /\ UNCHANGED <<now, table, used, changes>>

Change == changes < MaxChanges /\ changes' = changes + 1

CreateRow(id) ==
    /\ Change /\ id \notin used
    /\ used' = used \cup {id}
    /\ table' = table \cup {[order |-> now, id |-> id]}
    /\ UNCHANGED <<now, cursor, walked, steady>>

DeleteRow(row) ==
    /\ Change /\ row \in table
    /\ table' = table \ {row} /\ steady' = steady \ {row}
    /\ UNCHANGED <<now, used, cursor, walked>>

TimePasses ==
    /\ now < Times /\ now' = now + 1
    /\ UNCHANGED <<table, used, cursor, walked, steady, changes>>

PageInit ==
    /\ now = 1 /\ table = {} /\ used = {}
    /\ cursor = Start /\ walked = << >> /\ steady = {} /\ changes = 0

PageNext ==
    \/ \E limit \in 1 .. PageLimit : NextPage(limit)
    \/ \E id \in RowIds : CreateRow(id)
    \/ \E row \in table : DeleteRow(row)
    \/ TimePasses

PageSpec == PageInit /\ [][PageNext]_pageVars

-----------------------------------------------------------------------------
PageTypeOK ==
    /\ now \in 1 .. Times /\ table \cup steady \subseteq Row /\ used \subseteq RowIds
    /\ cursor \in Row \cup {Start, AtEnd} /\ walked \in Seq(Row)

\* Whatever is created and deleted meanwhile, the consumer is given no row
\* twice, the newest first, and in the end every row that was there all the
\* time ("the walk continues from the cursor's position and neither skips
\* older rows nor repeats any", openspec/specs/platform-api/spec.md:66).
WalkIsWhole ==
    /\ \A i, j \in DOMAIN walked : i < j => Newer(walked[i], walked[j])
    /\ cursor = AtEnd => \A row \in steady : Contains(walked, row)

PageInv == PageTypeOK /\ WalkIsWhole
=============================================================================
