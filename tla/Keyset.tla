------------------------------- MODULE Keyset -------------------------------
(***************************************************************************)
(* The order, the seek condition and the page cut that every paged         *)
(* endpoint of the API shares: GET /recalls, GET /recalls/search and       *)
(* GET /products/search.                                                   *)
(*                                                                         *)
(* A row is known by the two values the cursor carries: its sort value     *)
(* (event_date, published_at or the text-search rank) and its id.  Ids are *)
(* text in the program; only their order matters, so they are integers.    *)
(* A SELECT with ORDER BY and LIMIT is the set of rows it returns: the     *)
(* order of the rows in the reply is the order Precedes, which is strict   *)
(* and total because ids are unique.                                       *)
(***************************************************************************)
EXTENDS Integers, FiniteSets

CONSTANTS Ids,        \* the ids a row may have
          SortKeys,   \* the sort values a row may have
          NoCursor    \* a request without a cursor

Row == [sort : SortKeys, id : Ids]

ASSUME KeysetAssumption ==
  /\ Ids \subseteq Int /\ IsFiniteSet(Ids)
  /\ SortKeys \subseteq Int
  /\ NoCursor \notin Row

-----------------------------------------------------------------------------
\* ORDER BY <sort> DESC, <id> ASC
Precedes(a, b) == \/ a.sort > b.sort
                  \/ a.sort = b.sort /\ a.id < b.id

\* ORDER BY ... LIMIT n: the rows that fewer than n rows of S precede.
FirstN(S, n) == {r \in S : Cardinality({s \in S : Precedes(s, r)}) < n}

\* Slips in the seek condition: the tie on the sort value left out, and the
\* cursor's own row let in again.
SeekWithoutTie(c, r) == r.sort < c.sort
SeekInclusive(c, r) == \/ r.sort < c.sort
                       \/ r.sort = c.sort /\ r.id >= c.id

\* The seek condition: <sort> < :c OR (<sort> = :c AND <id> > :id)
SeekWhere(c, r) == \/ r.sort < c.sort
                   \/ r.sort = c.sort /\ r.id > c.id

\* A slip: the statement built without the seek condition.
BeyondNothing(c, S) == S

\* The rows of S that a request with cursor c may still return.
Beyond(c, S) == IF c = NoCursor THEN S ELSE {r \in S : SeekWhere(c, r)}

\* A slip: LIMIT limit instead of LIMIT limit + 1.
FetchWithoutProbe(S, c, limit) == FirstN(Beyond(c, S), limit)

\* The page query: one row more than the page holds.
Fetch(S, c, limit) == FirstN(Beyond(c, S), limit + 1)

\* A slip: the probe row left in the page.
PageWithProbe(rows, limit) == rows

\* slice_page: the page, and whether a row was fetched beyond it.
PageRows(rows, limit) == FirstN(rows, limit)
HasNext(rows, limit) == Cardinality(rows) > limit

\* rows[-1], the row the next cursor is minted from.
LastRow(page) == CHOOSE r \in page : \A s \in page : s = r \/ Precedes(s, r)

\* A slip: the cursor minted from the probe row, which the next page then skips.
NextCursorFromProbe(rows, limit) ==
  IF HasNext(rows, limit) THEN LastRow(rows) ELSE NoCursor

NextCursor(rows, limit) ==
  IF HasNext(rows, limit) /\ PageRows(rows, limit) # {}
    THEN LastRow(PageRows(rows, limit))
    ELSE NoCursor
=============================================================================
