------------------------------ MODULE PageWalk ------------------------------
(***************************************************************************)
(* One client walking a paged endpoint from the first page to the last,    *)
(* while the nightly pipeline rebuilds the mart the endpoint reads.        *)
(*                                                                         *)
(* The server keeps nothing between requests: all a walk carries from one  *)
(* request to the next is the cursor the client holds.  Each request runs  *)
(* one or two SELECTs (the page and, with with_total, the count); Postgres *)
(* gives each statement its own snapshot, so a rebuild may land between    *)
(* two requests and between the two statements of one request.             *)
(*                                                                         *)
(* The mart is restricted to the rows that match the client's filters,     *)
(* which the client keeps the same on every page; what a filter matches    *)
(* is decided elsewhere.  A rebuild may bring a row that its response      *)
(* model refuses: model_validate then fails the whole page it is on.       *)
(***************************************************************************)
EXTENDS Keyset

CONSTANTS Absent,        \* no row with this id matches
          Flawed,        \* ids whose row the pipeline may get wrong
          LimitCeiling,  \* the largest limit a request may name (100)
          PageLimitMax   \* Settings.page_limit_max

ASSUME PageWalkAssumption ==
  /\ Absent \notin SortKeys
  /\ Flawed \subseteq Ids
  /\ LimitCeiling \in Nat \ {0}
  /\ PageLimitMax \in 1..LimitCeiling

VARIABLES
  mart,      \* sort value of the matching row with each id, or Absent
  unfit,     \* ids whose row does not fit its response model
  cursor,    \* next_cursor of the last reply, NoCursor before the first
  phase,     \* where the client and its current request are
  limit,     \* PaginationParams.limit of the current request
  withTotal, \* PaginationParams.with_total of the current request
  page,      \* page_rows of the current request
  next,      \* next_cursor of the current request
  total,     \* total of the current request, NoTotal until it is counted
  settled,   \* history: ids whose row is unchanged since the walk began
  rebuilt,   \* history: when the mart was last rebuilt, see Rebuilt
  received   \* history: the rows of all replies the client has had

request == <<limit, withTotal, page, next, total>>
vars == <<mart, unfit, cursor, phase, request, settled, rebuilt, received>>

NoTotal == -1

Phases == {"idle",      \* the client has a reply, or has sent nothing yet
           "asked",     \* parameters validated, no statement executed
           "spoilt",    \* page read, with a row on it that does not fit
           "listed",    \* page read, count still to be read
           "ready",     \* reply built, not yet received by the client
           "finished"}  \* the client has had a reply without next_cursor

Rebuilt == {"never",    \* not since the walk began
            "earlier",  \* before the current request read its page
            "mid"}      \* between the two statements of the current request

RowOf(m, i) == [sort |-> m[i], id |-> i]
Matching(m) == {RowOf(m, i) : i \in {j \in Ids : m[j] # Absent}}

TypeOK ==
  /\ mart \in [Ids -> SortKeys \cup {Absent}]
  /\ unfit \in SUBSET Flawed
  /\ cursor \in Row \cup {NoCursor}
  /\ phase \in Phases
  /\ limit \in 1..PageLimitMax
  /\ withTotal \in BOOLEAN
  /\ page \in SUBSET Row
  /\ next \in Row \cup {NoCursor}
  /\ total \in Nat \cup {NoTotal}
  /\ settled \in SUBSET Ids
  /\ rebuilt \in Rebuilt
  /\ received \in SUBSET Row

Init ==
  /\ mart \in [Ids -> SortKeys \cup {Absent}]
  /\ unfit \in SUBSET {i \in Flawed : mart[i] # Absent}
  /\ settled = {i \in Ids : mart[i] # Absent}
  /\ cursor = NoCursor
  /\ phase = "idle"
  /\ limit = 1 /\ withTotal = FALSE
  /\ page = {} /\ next = NoCursor /\ total = NoTotal
  /\ rebuilt = "never"
  /\ received = {}

-----------------------------------------------------------------------------
\* A slip: the setting not applied.
EffectiveLimitUncapped(asked) == asked

\* pagination_params: limit = min(limit, settings.page_limit_max)
EffectiveLimit(asked) == IF asked < PageLimitMax THEN asked ELSE PageLimitMax

\* The client asks for the page after its cursor.  It may change limit and
\* with_total from page to page.
Ask ==
  /\ phase = "idle"
  /\ \E asked \in 1..LimitCeiling : limit' = EffectiveLimit(asked)
  /\ withTotal' \in BOOLEAN
  /\ phase' = "asked"
  /\ UNCHANGED <<mart, unfit, cursor, page, next, total, settled, rebuilt, received>>

\* A slip: every row fetched is validated, the probe row too.
FitAsFetched(rows, p) == \A r \in rows : r.id \notin unfit

\* model_validate accepts every row of the page p cut from the fetched rows.
Fit(rows, p) == \A r \in p : r.id \notin unfit

\* The page statement, slice_page and the minting of next_cursor, where every row
\* of the page fits its model.
List ==
  /\ phase = "asked"
  /\ LET rows == Fetch(Matching(mart), cursor, limit)
     IN /\ page' = PageRows(rows, limit)
        /\ next' = NextCursor(rows, limit)
        /\ Fit(rows, page')
  /\ rebuilt' = IF rebuilt = "mid" THEN "earlier" ELSE rebuilt
  /\ phase' = IF withTotal THEN "listed" ELSE "ready"
  /\ UNCHANGED <<mart, unfit, cursor, limit, withTotal, total, settled, received>>

\* The page statement, where a row of the page does not fit.  That shows only after
\* the count has been read, and nothing read is used.
ListUnfit ==
  /\ phase = "asked"
  /\ LET rows == Fetch(Matching(mart), cursor, limit)
     IN ~Fit(rows, PageRows(rows, limit))
  /\ phase' = "spoilt"
  /\ UNCHANGED <<mart, unfit, cursor, request, settled, rebuilt, received>>

\* A slip: the count built from the page statement, with its seek condition.
CountRemaining ==
  /\ phase = "listed"
  /\ total' = Cardinality(Beyond(cursor, Matching(mart)))
  /\ phase' = "ready"
  /\ UNCHANGED <<mart, unfit, cursor, limit, withTotal, page, next, settled, rebuilt, received>>

\* The count statement: the same predicates, neither cursor nor limit.
Count ==
  /\ phase = "listed"
  /\ total' = Cardinality(Matching(mart))
  /\ phase' = "ready"
  /\ UNCHANGED <<mart, unfit, cursor, limit, withTotal, page, next, settled, rebuilt, received>>

ClearRequest ==
  /\ limit' = 1 /\ withTotal' = FALSE
  /\ page' = {} /\ next' = NoCursor /\ total' = NoTotal

\* The reply reaches the client, which takes next_cursor as its cursor.
Deliver ==
  /\ phase = "ready"
  /\ received' = received \cup page
  /\ cursor' = next
  /\ phase' = IF next = NoCursor THEN "finished" ELSE "idle"
  /\ ClearRequest
  /\ UNCHANGED <<mart, unfit, settled, rebuilt>>

\* model_validate raises for the row: a 500 without a page.  The client has its old
\* cursor still.
Reject ==
  /\ phase = "spoilt"
  /\ phase' = "idle"
  /\ ClearRequest
  /\ UNCHANGED <<mart, unfit, cursor, settled, rebuilt, received>>

\* A statement fails (503 with Retry-After) or the reply is lost; the client
\* will ask again with the cursor it has.
Fail ==
  /\ phase \in {"asked", "spoilt", "listed", "ready"}
  /\ phase' = "idle"
  /\ ClearRequest
  /\ UNCHANGED <<mart, unfit, cursor, settled, rebuilt, received>>

\* The pipeline replaces the mart; any row may appear, vanish or move, break or be
\* mended.
Rebuild ==
  /\ mart' \in [Ids -> SortKeys \cup {Absent}]
  /\ unfit' \in SUBSET {i \in Flawed : mart'[i] # Absent}
  /\ <<mart', unfit'>> # <<mart, unfit>>
  /\ settled' = {i \in settled : mart'[i] = mart[i]}
  /\ rebuilt' = IF phase = "listed" \/ (phase = "ready" /\ rebuilt = "mid")
                  THEN "mid" ELSE "earlier"
  /\ UNCHANGED <<cursor, phase, limit, withTotal, page, next, total, received>>

Next == \/ Ask \/ List \/ ListUnfit \/ Count \/ Deliver
        \/ Reject \/ Fail \/ Rebuild

\* The client keeps asking, and no step of a request fails for ever: one that
\* is retried again and again succeeds at last.  Nothing is assumed of rebuilds.
Fairness == /\ WF_vars(Ask) /\ WF_vars(Reject)
            /\ SF_vars(List) /\ SF_vars(ListUnfit)
            /\ SF_vars(Count) /\ SF_vars(Deliver)

Spec == Init /\ [][Next]_vars
FairSpec == Spec /\ Fairness

-----------------------------------------------------------------------------
\* A walk that has come to its end has received every row that stayed as it
\* was from the first request to the last, and received it under one key only,
\* however many rebuilds, failures and changes of limit it lived through
\* (limit + 1 in list_stmt, the seek condition, the cursor from rows[-1]).
SettledRowsOnce ==
  phase = "finished" =>
    \A i \in settled : {r \in received : r.id = i} = {RowOf(mart, i)}

\* The pages of a walk follow one another in the order of ORDER BY: every row
\* of the page being built comes after every row received before it.  So no
\* row is shown twice at the same place, even when rebuilds move rows.
PagesInOrder == \A r \in page, s \in received : Precedes(s, r)

\* A reply that names a next page is full: slice_page cuts at limit, and a
\* cursor is minted only when a row was fetched beyond the page.
FullUnlessLast == next # NoCursor => Cardinality(page) = limit

\* The count agrees with the pages: on a mart that was not rebuilt during the
\* walk it counts what has been received, the page at hand and whatever is
\* still to come; if a rebuild came before this request only, it still counts
\* the page.  (The two statements of a request do not share a snapshot, so a
\* rebuild between them voids both.)
TotalAgrees ==
  phase = "ready" /\ total # NoTotal =>
    /\ rebuilt = "never" => IF next = NoCursor
                              THEN total = Cardinality(received \cup page)
                              ELSE total > Cardinality(received \cup page)
    /\ rebuilt = "earlier" => IF next = NoCursor
                                THEN total >= Cardinality(page)
                                ELSE total > Cardinality(page)

\* The cursor a client holds only moves forward, to a row it has received; a
\* page with a next_cursor is never one the client has seen before.
CursorAdvances ==
  [][cursor' # cursor /\ cursor' # NoCursor =>
       /\ cursor' \in received' \ received
       /\ cursor # NoCursor => Precedes(cursor, cursor')]_vars

\* The matching rows the walk has still to pass.
Ahead == Beyond(cursor, Matching(mart))
NoneUnfit(rows) == \A r \in rows : r.id \notin unfit

\* A walk ends, whatever the rebuilds do in the meantime, once no row that does not
\* fit lies ahead of it: each reply moves the cursor forward over finitely many
\* places (Cursor of rows[-1], model_validate).
WalkEnds == <>[]NoneUnfit(Ahead) => <>(phase = "finished")

\* One bad row costs the rows behind it, never those before it: on a mart that is
\* not rebuilt any more, a client that comes down to one row a page gets everything
\* up to the row that does not fit, although that row is fetched beyond the page
\* before (model_validate over page_rows, not rows).
OnlyUnfitHoldsBack ==
  <>[][(phase' = "asked" => limit' = 1) /\ UNCHANGED <<mart, unfit>>]_vars
    => <>(phase = "finished" \/ ~NoneUnfit(FirstN(Ahead, 1)))

\* The walk implements the abstract feed: settled rows exactly once, forward
\* only.  The frontier is the client's cursor.
Feed == INSTANCE ExactlyOnceFeed
          WITH settled <- {RowOf(mart, i) : i \in settled},
               frontier <- cursor,
               finished <- (phase = "finished")
ImplementsFeed == Feed!Spec
=============================================================================
