--------------------------- MODULE PageWalkProofs ---------------------------
(***************************************************************************)
(* The safety of a walk, for any ids, sort values and page limits, and for *)
(* any number of rebuilds and failures.                                    *)
(*                                                                         *)
(* What holds at the end of a walk is not inductive: it follows from what  *)
(* each reply does for the settled rows.  WalkInv says that the cursor     *)
(* splits the settled rows into those received and those still to come,    *)
(* and that the reply being built closes the gap up to its next cursor.    *)
(***************************************************************************)
EXTENDS PageWalk, FiniteSetTheorems, WellFoundedInduction, TLAPS

-----------------------------------------------------------------------------
(* Facts about the keyset order and the page cut.                           *)

\* The rows of S that come before r, and those that come after it.
Before(S, r) == {s \in S : Precedes(s, r)}
Behind(S, r) == {s \in S : Precedes(r, s)}

-----------------------------------------------------------------------------
\* ORDER BY is a strict total order on rows.
LEMMA PrecedesStrictTotal ==
  /\ \A a \in Row : ~Precedes(a, a)
  /\ \A a, b, c \in Row : Precedes(a, b) /\ Precedes(b, c) => Precedes(a, c)
  /\ \A a, b \in Row : a = b \/ Precedes(a, b) \/ Precedes(b, a)
<1>1. \A a \in Row : a.sort \in Int /\ a.id \in Int
  BY KeysetAssumption DEF Row
<1>2. \A a, b \in Row : a.sort = b.sort /\ a.id = b.id => a = b
  BY DEF Row
<1> QED
  BY <1>1, <1>2 DEF Precedes

\* The seek condition of the WHERE clause and the order of the ORDER BY clause,
\* written apart in the program, agree: seeking past c leaves the rows after c.
LEMMA SeekFollowsOrder ==
  \A c, r \in Row : SeekWhere(c, r) <=> Precedes(c, r)
<1>1. \A a \in Row : a.sort \in Int /\ a.id \in Int
  BY KeysetAssumption DEF Row
<1> QED
  BY <1>1 DEF SeekWhere, Precedes

\* What lies before an earlier row is strictly less.
LEMMA BeforeShrinks ==
  ASSUME NEW S \in SUBSET Row, NEW r \in S, NEW s \in S, Precedes(s, r)
  PROVE  /\ Before(S, s) \subseteq Before(S, r)
         /\ Before(S, s) # Before(S, r)
<1>1. s \in Before(S, r) /\ s \notin Before(S, s)
  BY PrecedesStrictTotal DEF Before
<1>2. Before(S, s) \subseteq Before(S, r)
  BY PrecedesStrictTotal DEF Before
<1> QED
  BY <1>1, <1>2

\* Likewise for what lies behind a later row.
LEMMA BehindShrinks ==
  ASSUME NEW S \in SUBSET Row, NEW r \in S, NEW s \in S, Precedes(r, s)
  PROVE  /\ Behind(S, s) \subseteq Behind(S, r)
         /\ Behind(S, s) # Behind(S, r)
<1>1. s \in Behind(S, r) /\ s \notin Behind(S, s)
  BY PrecedesStrictTotal DEF Behind
<1>2. Behind(S, s) \subseteq Behind(S, r)
  BY PrecedesStrictTotal DEF Behind
<1> QED
  BY <1>1, <1>2

\* In a finite set of rows, every part that is not empty has a first row.
LEMMA FirstRowExists ==
  ASSUME NEW S \in SUBSET Row, IsFiniteSet(S), NEW D \in SUBSET S, D # {}
  PROVE  \E r \in D : \A s \in D : ~Precedes(s, r)
<1> DEFINE T == {Before(S, r) : r \in D}
<1>1. T \subseteq FiniteSubsetsOf(S)
  <2>1. \A r \in D : Before(S, r) \subseteq S
    BY DEF Before
  <2>2. FiniteSubsetsOf(S) = SUBSET S
    BY FS_FiniteSubsetsOfFinite
  <2> QED
    BY <2>1, <2>2
<1>2. T # {}
  OBVIOUS
<1>3. PICK x \in T : \A y \in T : ~(<<y, x>> \in StrictSubsetOrdering(S))
  <2> HIDE DEF T
  <2> QED
    BY <1>1, <1>2, FS_StrictSubsetOrderingWellFounded, WFMin
<1>4. PICK r \in D : x = Before(S, r)
  BY <1>3
<1>5. ASSUME NEW s \in D, Precedes(s, r)
      PROVE  FALSE
  <2>1. Before(S, s) \subseteq Before(S, r) /\ Before(S, s) # Before(S, r)
    BY <1>5, BeforeShrinks
  <2>2. Before(S, s) \in SUBSET S /\ Before(S, r) \in SUBSET S
    BY DEF Before
  <2>3. <<Before(S, s), Before(S, r)>> \in StrictSubsetOrdering(S)
    BY <2>1, <2>2 DEF StrictSubsetOrdering
  <2> QED
    BY <2>3, <1>3, <1>4
<1> QED
  BY <1>5

\* And a last one.
LEMMA LastRowExists ==
  ASSUME NEW S \in SUBSET Row, IsFiniteSet(S), S # {}
  PROVE  \E r \in S : \A s \in S : ~Precedes(r, s)
<1> DEFINE T == {Behind(S, r) : r \in S}
<1>1. T \subseteq FiniteSubsetsOf(S)
  <2>1. \A r \in S : Behind(S, r) \subseteq S
    BY DEF Behind
  <2>2. FiniteSubsetsOf(S) = SUBSET S
    BY FS_FiniteSubsetsOfFinite
  <2> QED
    BY <2>1, <2>2
<1>2. T # {}
  OBVIOUS
<1>3. PICK x \in T : \A y \in T : ~(<<y, x>> \in StrictSubsetOrdering(S))
  <2> HIDE DEF T
  <2> QED
    BY <1>1, <1>2, FS_StrictSubsetOrderingWellFounded, WFMin
<1>4. PICK r \in S : x = Behind(S, r)
  BY <1>3
<1>5. ASSUME NEW s \in S, Precedes(r, s)
      PROVE  FALSE
  <2>1. Behind(S, s) \subseteq Behind(S, r) /\ Behind(S, s) # Behind(S, r)
    BY <1>5, BehindShrinks
  <2>2. Behind(S, s) \in SUBSET S /\ Behind(S, r) \in SUBSET S
    BY DEF Behind
  <2>3. <<Behind(S, s), Behind(S, r)>> \in StrictSubsetOrdering(S)
    BY <2>1, <2>2 DEF StrictSubsetOrdering
  <2> QED
    BY <2>3, <1>3, <1>4
<1> QED
  BY <1>5

-----------------------------------------------------------------------------
\* The row the next cursor is minted from is in the page and ends it.
LEMMA LastRowOfPage ==
  ASSUME NEW S \in SUBSET Row, IsFiniteSet(S), S # {}
  PROVE  /\ LastRow(S) \in S
         /\ \A s \in S : s = LastRow(S) \/ Precedes(s, LastRow(S))
<1>1. PICK r \in S : \A s \in S : ~Precedes(r, s)
  BY LastRowExists
<1>2. \A s \in S : s = r \/ Precedes(s, r)
  BY <1>1, PrecedesStrictTotal
<1> QED
  BY <1>2 DEF LastRow

\* LIMIT leaves no gap: what precedes a row of the result is in the result.
LEMMA FirstNDownward ==
  ASSUME NEW S \in SUBSET Row, IsFiniteSet(S), NEW n \in Nat,
         NEW r \in FirstN(S, n), NEW s \in S, Precedes(s, r)
  PROVE  s \in FirstN(S, n)
<1>1. r \in S /\ Cardinality(Before(S, r)) < n
  BY DEF FirstN, Before
<1>2. Before(S, s) \subseteq Before(S, r)
  BY <1>1, BeforeShrinks
<1>3. IsFiniteSet(Before(S, r)) /\ Before(S, r) \subseteq S
  BY FS_Subset DEF Before
<1>4. /\ Cardinality(Before(S, s)) <= Cardinality(Before(S, r))
      /\ Cardinality(Before(S, s)) \in Nat
      /\ Cardinality(Before(S, r)) \in Nat
  BY <1>2, <1>3, FS_Subset, FS_CardinalityType
<1>5. Cardinality(Before(S, s)) < n
  BY <1>1, <1>4
<1> QED
  BY <1>5 DEF FirstN, Before

\* A result shorter than its LIMIT is everything there is.
LEMMA FirstNShort ==
  ASSUME NEW S \in SUBSET Row, IsFiniteSet(S), NEW n \in Nat,
         Cardinality(FirstN(S, n)) < n
  PROVE  FirstN(S, n) = S
<1> DEFINE D == S \ FirstN(S, n)
<1>1. FirstN(S, n) \subseteq S /\ IsFiniteSet(FirstN(S, n))
  BY FS_Subset DEF FirstN
<1>2. SUFFICES ASSUME D # {}
               PROVE  FALSE
  BY <1>1
<1>3. PICK r \in D : \A s \in D : ~Precedes(s, r)
  BY <1>2, FirstRowExists
<1>4. Before(S, r) \subseteq FirstN(S, n)
  BY <1>3 DEF Before
<1>5. Cardinality(Before(S, r)) <= Cardinality(FirstN(S, n))
  BY <1>1, <1>4, FS_Subset
<1>6. Cardinality(Before(S, r)) \in Nat /\ Cardinality(FirstN(S, n)) \in Nat
  BY <1>1, <1>4, FS_Subset, FS_CardinalityType
<1>7. Cardinality(Before(S, r)) < n
  BY <1>5, <1>6
<1>8. r \in FirstN(S, n)
  BY <1>7 DEF FirstN, Before
<1> QED
  BY <1>8

\* A result never exceeds its LIMIT.
LEMMA FirstNBound ==
  ASSUME NEW S \in SUBSET Row, IsFiniteSet(S), NEW n \in Nat
  PROVE  Cardinality(FirstN(S, n)) <= n
<1> DEFINE F == FirstN(S, n)
<1>1. F \in SUBSET Row /\ F \subseteq S /\ IsFiniteSet(F)
  BY FS_Subset DEF FirstN
<1>2. CASE F = {}
  BY <1>2, FS_EmptySet
<1>3. CASE F # {}
  <2>1. PICK x \in F : \A s \in F : s = x \/ Precedes(s, x)
    BY <1>1, <1>3, LastRowOfPage
  <2>2. F \ {x} \subseteq Before(S, x)
    BY <1>1, <2>1 DEF Before
  <2>3. IsFiniteSet(Before(S, x))
    BY FS_Subset DEF Before
  <2>4. /\ Cardinality(F \ {x}) <= Cardinality(Before(S, x))
        /\ IsFiniteSet(F \ {x})
    BY <2>2, <2>3, FS_Subset
  <2>5. Cardinality(Before(S, x)) < n
    BY <2>1 DEF FirstN, Before
  <2>6. Cardinality(F \ {x}) = Cardinality(F) - 1
    BY <1>1, <2>1, FS_RemoveElement
  <2>7. Cardinality(F) \in Nat /\ Cardinality(Before(S, x)) \in Nat
    BY <1>1, <2>3, FS_CardinalityType
  <2>8. Cardinality(F) <= n
    <3> HIDE DEF F
    <3> QED
      BY <2>4, <2>5, <2>6, <2>7
  <2> QED
    BY <2>8
<1> QED
  BY <1>2, <1>3

\* Cutting the fetched rows at a smaller limit is cutting the whole set there.
LEMMA FirstNTwice ==
  ASSUME NEW S \in SUBSET Row, IsFiniteSet(S), NEW n \in Nat, NEW m \in Nat, m <= n
  PROVE  FirstN(FirstN(S, n), m) = FirstN(S, m)
<1> DEFINE F == FirstN(S, n)
<1>1. \A r \in F : Before(F, r) = Before(S, r)
  BY FirstNDownward DEF FirstN, Before
<1>2. F \subseteq S
  BY DEF FirstN
<1>3. \A r \in S : Cardinality(Before(S, r)) \in Nat
  <2>1. \A r \in S : IsFiniteSet(Before(S, r))
    BY FS_Subset DEF Before
  <2> QED
    BY <2>1, FS_CardinalityType
<1>4. FirstN(S, m) \subseteq F
  BY <1>3 DEF FirstN, Before
<1>5. FirstN(F, m) = {r \in F : Cardinality(Before(F, r)) < m}
  BY DEF FirstN, Before
<1>6. FirstN(S, m) = {r \in S : Cardinality(Before(S, r)) < m}
  BY DEF FirstN, Before
<1>7. FirstN(F, m) = FirstN(S, m)
  <2> HIDE DEF F
  <2> QED
    BY <1>1, <1>2, <1>4, <1>5, <1>6
<1> QED
  BY <1>7

\* What one request gives of the rows S its cursor leaves: the whole of S when
\* it mints no cursor, and otherwise a full page, namely the rows of S up to the
\* one the cursor is minted from.
LEMMA PageCut ==
  ASSUME NEW S \in SUBSET Row, IsFiniteSet(S), NEW n \in Nat, n > 0,
         NEW rows, rows = FirstN(S, n + 1),
         NEW p, p = PageRows(rows, n),
         NEW nc, nc = NextCursor(rows, n)
  PROVE  /\ p \subseteq S /\ IsFiniteSet(p)
         /\ nc = NoCursor => p = S
         /\ nc # NoCursor => /\ nc \in p
                             /\ p = {r \in S : ~Precedes(nc, r)}
                             /\ Cardinality(p) = n
<1>1. p = FirstN(S, n)
  BY FirstNTwice DEF PageRows
<1>2. /\ p \subseteq S /\ IsFiniteSet(p)
      /\ rows \subseteq S /\ IsFiniteSet(rows)
  BY <1>1, FS_Subset DEF FirstN
<1>3. /\ Cardinality(p) \in Nat /\ Cardinality(rows) \in Nat
      /\ Cardinality(S) \in Nat
      /\ Cardinality(rows) <= Cardinality(S)
      /\ Cardinality(p) <= Cardinality(S)
      /\ Cardinality(S) = Cardinality(p) => p = S
  BY <1>2, FS_CardinalityType, FS_Subset
<1>4. Cardinality(p) < n => p = S
  BY <1>1, FirstNShort
<1>5. Cardinality(p) <= n
  BY <1>1, FirstNBound
<1>6. ASSUME ~HasNext(rows, n)
      PROVE  p = S
  <2>1. Cardinality(rows) < n + 1
    BY <1>6, <1>3 DEF HasNext
  <2>2. rows = S
    BY <2>1, FirstNShort
  <2> QED
    BY <2>1, <2>2, <1>3, <1>4, <1>5
<1>7. ASSUME p = {}
      PROVE  p = S
  BY <1>7, <1>4, FS_EmptySet
<1>8. ASSUME HasNext(rows, n), p # {}
      PROVE  /\ nc \in p /\ nc # NoCursor
             /\ p = {r \in S : ~Precedes(nc, r)}
             /\ Cardinality(p) = n
  <2>1. nc = LastRow(p)
    BY <1>8 DEF NextCursor
  <2>2. nc \in p /\ \A s \in p : s = nc \/ Precedes(s, nc)
    BY <2>1, <1>2, <1>8, LastRowOfPage
  <2>3. nc \in Row
    BY <2>2, <1>2
  <2>4. \A r \in p : ~Precedes(nc, r)
    BY <2>2, <1>2, <2>3, PrecedesStrictTotal
  <2>5. \A r \in S : ~Precedes(nc, r) => r \in p
    <3>1. \A r \in S : Precedes(r, nc) => r \in p
      BY <1>1, <1>2, <2>2, FirstNDownward
    <3> QED
      BY <3>1, <2>2, <2>3, PrecedesStrictTotal
  <2>6. Cardinality(p) = n
    BY <1>3, <1>4, <1>5, <1>8 DEF HasNext
  <2> QED
    BY <2>2, <2>3, <2>4, <2>5, <2>6, <1>2, KeysetAssumption
<1> QED
  BY <1>2, <1>6, <1>7, <1>8 DEF NextCursor

-----------------------------------------------------------------------------
(* The invariant of a walk.                                                 *)

\* The rows of the settled ids.
SettledRows == {RowOf(mart, i) : i \in settled}

\* A settled id is in the mart, and what the client or the reply holds of it is
\* its row as it stands.
SettledInv ==
  /\ \A i \in settled : mart[i] # Absent
  /\ \A r \in received \cup page : r.id \in settled => r = RowOf(mart, r.id)

\* The cursor is the last row received.
CursorInv ==
  phase # "finished" =>
    /\ cursor = NoCursor => received = {}
    /\ cursor # NoCursor => /\ cursor \in received
                            /\ \A r \in received : ~Precedes(cursor, r)

\* Settled rows up to the cursor have been received; after the end, all have.
SplitInv ==
  /\ phase # "finished" =>
       \A r \in SettledRows :
         r \in received \/ cursor = NoCursor \/ Precedes(cursor, r)
  /\ phase = "finished" => SettledRows \subseteq received

\* The reply being built: rows beyond the cursor, with every settled row up to
\* the next cursor, or every settled row when there is none.
ReplyInv ==
  /\ phase \notin {"listed", "ready"} => page = {} /\ next = NoCursor
  /\ \A r \in page : cursor # NoCursor => Precedes(cursor, r)
  /\ next # NoCursor => /\ next \in page
                        /\ \A r \in page : ~Precedes(next, r)
                        /\ Cardinality(page) = limit
  /\ phase \in {"listed", "ready"} =>
       \A r \in SettledRows :
         \/ r \in page
         \/ cursor # NoCursor /\ ~Precedes(cursor, r)
         \/ next # NoCursor /\ Precedes(next, r)

WalkInv == TypeOK /\ SettledInv /\ CursorInv /\ SplitInv /\ ReplyInv

-----------------------------------------------------------------------------
\* The matching rows are finitely many rows.
LEMMA MatchingRows ==
  ASSUME NEW m \in [Ids -> SortKeys \cup {Absent}]
  PROVE  Matching(m) \in SUBSET Row /\ IsFiniteSet(Matching(m))
<1> DEFINE Present == {j \in Ids : m[j] # Absent}
<1>1. IsFiniteSet(Present)
  BY KeysetAssumption, FS_Subset
<1>2. \A i \in Present : RowOf(m, i) \in Row
  BY DEF RowOf, Row
<1>3. Matching(m) = {RowOf(m, i) : i \in Present}
  BY DEF Matching
<1>4. IsFiniteSet(Matching(m))
  <2> DEFINE f == [i \in Present |-> RowOf(m, i)]
  <2>1. f \in Surjection(Present, Matching(m))
    BY <1>3 DEF Surjection
  <2> HIDE DEF f, Present
  <2> QED
    BY <1>1, <2>1, FS_Surjection
<1> QED
  BY <1>2, <1>3, <1>4

\* A settled id's row is one of the matching rows.
LEMMA SettledMatch ==
  ASSUME TypeOK, SettledInv
  PROVE  SettledRows \subseteq Matching(mart)
BY DEF TypeOK, SettledInv, SettledRows, Matching

\* What a cursor leaves of a set of rows.
LEMMA BeyondRows ==
  ASSUME NEW S \in SUBSET Row, IsFiniteSet(S), NEW c \in Row \cup {NoCursor}
  PROVE  /\ Beyond(c, S) \in SUBSET Row /\ IsFiniteSet(Beyond(c, S))
         /\ Beyond(c, S) \subseteq S
         /\ \A r \in S : r \in Beyond(c, S) <=> c = NoCursor \/ Precedes(c, r)
<1>1. \A r \in S : r \in Beyond(c, S) <=> c = NoCursor \/ Precedes(c, r)
  BY SeekFollowsOrder, KeysetAssumption DEF Beyond
<1>2. Beyond(c, S) \subseteq S
  BY DEF Beyond
<1> QED
  BY <1>1, <1>2, FS_Subset

\* The page a request reads, in terms of the rows its cursor leaves.
LEMMA ListedPage ==
  ASSUME TypeOK, List
  PROVE  LET S == Beyond(cursor, Matching(mart))
         IN  /\ page' \subseteq S
             /\ next' = NoCursor => page' = S
             /\ next' # NoCursor => /\ next' \in page'
                                    /\ page' = {r \in S : ~Precedes(next', r)}
                                    /\ Cardinality(page') = limit
<1> DEFINE S == Beyond(cursor, Matching(mart))
           rows == FirstN(S, limit + 1)
<1>1. S \in SUBSET Row /\ IsFiniteSet(S)
  BY MatchingRows, BeyondRows DEF TypeOK
<1>2. limit \in Nat /\ limit > 0
  BY PageWalkAssumption DEF TypeOK
<1>3. page' = PageRows(rows, limit) /\ next' = NextCursor(rows, limit)
  BY DEF List, Fetch
<1> HIDE DEF S
<1>4. /\ page' \subseteq S
      /\ next' = NoCursor => page' = S
      /\ next' # NoCursor => /\ next' \in page'
                             /\ page' = {r \in S : ~Precedes(next', r)}
                             /\ Cardinality(page') = limit
  BY <1>1, <1>2, <1>3, PageCut
<1> QED
  BY <1>4 DEF S

-----------------------------------------------------------------------------
\* The limit a walk rests at between requests.
LEMMA LimitOne == 1 \in 1..PageLimitMax
BY PageWalkAssumption

LEMMA WalkInit == Init => WalkInv
<1> SUFFICES ASSUME Init
             PROVE  WalkInv
  OBVIOUS
<1>1. TypeOK
  BY LimitOne DEF Init, TypeOK, Phases, Rebuilt
<1>2. SettledInv
  BY DEF Init, SettledInv
<1>3. CursorInv /\ SplitInv /\ ReplyInv
  BY DEF Init, CursorInv, SplitInv, ReplyInv
<1> QED
  BY <1>1, <1>2, <1>3 DEF WalkInv

LEMMA TypeStep == TypeOK /\ [Next]_vars => TypeOK'
<1> SUFFICES ASSUME TypeOK, [Next]_vars
             PROVE  TypeOK'
  OBVIOUS
<1> USE DEF TypeOK, Phases, Rebuilt
<1>1. CASE Ask
  <2>1. \A asked \in 1..LimitCeiling : EffectiveLimit(asked) \in 1..PageLimitMax
    BY PageWalkAssumption DEF EffectiveLimit
  <2> QED
    BY <1>1, <2>1 DEF Ask
<1>2. CASE List
  <2>1. page' \in SUBSET Row /\ next' \in Row \cup {NoCursor}
    BY <1>2, ListedPage, MatchingRows, BeyondRows
  <2> QED
    BY <1>2, <2>1 DEF List
<1>3. CASE Count
  <2>1. Cardinality(Matching(mart)) \in Nat
    BY MatchingRows, FS_CardinalityType
  <2> QED
    BY <1>3, <2>1 DEF Count
<1>4. CASE Deliver
  BY <1>4, LimitOne DEF Deliver, ClearRequest
<1>5. CASE Fail \/ Reject
  BY <1>5, LimitOne DEF Fail, Reject, ClearRequest
<1>6. CASE Rebuild
  BY <1>6 DEF Rebuild
<1>7. CASE ListUnfit \/ UNCHANGED vars
  BY <1>7 DEF ListUnfit, vars, request
<1> QED
  BY <1>1, <1>2, <1>3, <1>4, <1>5, <1>6, <1>7 DEF Next

\* Steps that read no page, deliver no reply and touch no row.
LEMMA QuietStep ==
  ASSUME WalkInv, Ask \/ ListUnfit \/ Count \/ Reject \/ Fail \/ UNCHANGED vars
  PROVE  SettledInv' /\ CursorInv' /\ SplitInv' /\ ReplyInv'
<1> USE DEF WalkInv, SettledInv, CursorInv, SplitInv, ReplyInv, SettledRows
<1>1. CASE Ask
  BY <1>1 DEF Ask
<1>2. CASE Count
  BY <1>2 DEF Count
<1>3. CASE Fail \/ Reject
  BY <1>3 DEF Fail, Reject, ClearRequest
<1>4. CASE ListUnfit
  BY <1>4 DEF ListUnfit, request
<1>5. CASE UNCHANGED vars
  BY <1>5 DEF vars, request
<1> QED
  BY <1>1, <1>2, <1>3, <1>4, <1>5

\* Reading the page: it holds every matching row up to its next cursor, and so
\* every settled one.
LEMMA ListStep ==
  ASSUME WalkInv, List
  PROVE  SettledInv' /\ CursorInv' /\ SplitInv' /\ ReplyInv'
<1> DEFINE S == Beyond(cursor, Matching(mart))
<1>1. UNCHANGED <<mart, cursor, settled, received>> /\ limit' = limit
  BY DEF List
<1>2. phase = "asked" /\ phase' \in {"listed", "ready"}
  BY DEF List
<1>3. /\ page' \subseteq S
      /\ next' = NoCursor => page' = S
      /\ next' # NoCursor => /\ next' \in page'
                             /\ page' = {r \in S : ~Precedes(next', r)}
                             /\ Cardinality(page') = limit
  BY ListedPage DEF WalkInv
<1>4. /\ S \subseteq Matching(mart)
      /\ \A r \in Matching(mart) : r \in S <=> cursor = NoCursor \/ Precedes(cursor, r)
  BY MatchingRows, BeyondRows DEF WalkInv, TypeOK
<1> HIDE DEF S
<1>5. SettledInv'
  <2>1. \A r \in Matching(mart) : r = RowOf(mart, r.id)
    BY DEF Matching, RowOf
  <2> QED
    BY <1>1, <1>3, <1>4, <2>1 DEF WalkInv, SettledInv
<1>6. CursorInv' /\ SplitInv'
  BY <1>1, <1>2 DEF WalkInv, CursorInv, SplitInv, SettledRows
<1>7. ReplyInv'
  <2>1. SettledRows' = SettledRows /\ SettledRows \subseteq Matching(mart)
    BY <1>1, SettledMatch DEF WalkInv, SettledRows
  <2>2. \A r \in page' : cursor # NoCursor => Precedes(cursor, r)
    BY <1>3, <1>4
  <2>3. next' # NoCursor => /\ next' \in page'
                            /\ \A r \in page' : ~Precedes(next', r)
                            /\ Cardinality(page') = limit
    BY <1>3
  <2>4. \A r \in SettledRows :
          \/ r \in page'
          \/ cursor # NoCursor /\ ~Precedes(cursor, r)
          \/ next' # NoCursor /\ Precedes(next', r)
    BY <1>3, <1>4, <2>1
  <2> QED
    BY <1>1, <1>2, <2>1, <2>2, <2>3, <2>4 DEF ReplyInv
<1> QED
  BY <1>5, <1>6, <1>7

\* Taking the reply: the cursor moves to the end of the page, and the settled
\* rows between the two cursors are those of the page.
LEMMA DeliverStep ==
  ASSUME WalkInv, Deliver
  PROVE  SettledInv' /\ CursorInv' /\ SplitInv' /\ ReplyInv'
<1>1. /\ UNCHANGED <<mart, settled>> /\ SettledRows' = SettledRows
      /\ received' = received \cup page /\ page' = {}
      /\ cursor' = next /\ next' = NoCursor /\ phase = "ready"
      /\ phase' = IF next = NoCursor THEN "finished" ELSE "idle"
  BY DEF Deliver, ClearRequest, SettledRows
<1>2. SettledInv'
  BY <1>1 DEF WalkInv, SettledInv
<1>3. CursorInv'
  <2> SUFFICES ASSUME next # NoCursor
               PROVE  next \in received' /\ \A r \in received' : ~Precedes(next, r)
    BY <1>1 DEF CursorInv
  <2>1. next \in page /\ \A r \in page : ~Precedes(next, r)
    BY DEF WalkInv, ReplyInv
  <2>2. ASSUME NEW r \in received
        PROVE  ~Precedes(next, r)
    <3>1. cursor # NoCursor /\ ~Precedes(cursor, r) /\ cursor \in Row
      BY <1>1, <2>2 DEF WalkInv, CursorInv, TypeOK
    <3>2. Precedes(cursor, next)
      BY <2>1, <3>1 DEF WalkInv, ReplyInv
    <3>3. next \in Row /\ r \in Row
      BY <2>1, <2>2 DEF WalkInv, TypeOK
    <3> QED
      BY <3>1, <3>2, <3>3, PrecedesStrictTotal
  <2> QED
    BY <1>1, <2>1, <2>2
<1>4. SplitInv'
  <2>1. \A r \in SettledRows :
          r \in received' \/ (next # NoCursor /\ Precedes(next, r))
    BY <1>1 DEF WalkInv, SplitInv, ReplyInv
  <2> QED
    BY <1>1, <2>1 DEF SplitInv
<1>5. ReplyInv'
  BY <1>1 DEF ReplyInv
<1> QED
  BY <1>2, <1>3, <1>4, <1>5

\* A rebuild: the rows it leaves alone keep their place on either side of the
\* cursor, and the others are settled no more.
LEMMA RebuildStep ==
  ASSUME WalkInv, Rebuild
  PROVE  SettledInv' /\ CursorInv' /\ SplitInv' /\ ReplyInv'
<1>1. /\ UNCHANGED <<cursor, phase, limit, page, next, received>>
      /\ settled' \subseteq settled
      /\ \A i \in settled' : mart'[i] = mart[i]
  BY DEF Rebuild
<1>2. \A i \in settled' : RowOf(mart', i) = RowOf(mart, i)
  BY <1>1 DEF RowOf
<1>3. SettledRows' \subseteq SettledRows
  BY <1>1, <1>2 DEF SettledRows
<1>4. SettledInv'
  BY <1>1, <1>2 DEF WalkInv, SettledInv
<1>5. CursorInv'
  BY <1>1 DEF WalkInv, CursorInv
<1>6. SplitInv'
  BY <1>1, <1>3 DEF WalkInv, SplitInv
<1>7. ReplyInv'
  BY <1>1, <1>3 DEF WalkInv, ReplyInv
<1> QED
  BY <1>4, <1>5, <1>6, <1>7

LEMMA WalkStep == WalkInv /\ [Next]_vars => WalkInv'
<1> SUFFICES ASSUME WalkInv, [Next]_vars
             PROVE  WalkInv'
  OBVIOUS
<1>1. TypeOK'
  BY TypeStep DEF WalkInv
<1>2. CASE Ask \/ ListUnfit \/ Count \/ Reject \/ Fail \/ UNCHANGED vars
  BY <1>1, <1>2, QuietStep DEF WalkInv
<1>3. CASE List
  BY <1>1, <1>3, ListStep DEF WalkInv
<1>4. CASE Deliver
  BY <1>1, <1>4, DeliverStep DEF WalkInv
<1>5. CASE Rebuild
  BY <1>1, <1>5, RebuildStep DEF WalkInv
<1> QED
  BY <1>2, <1>3, <1>4, <1>5 DEF Next

\* Every reachable state of a walk satisfies the invariant.
THEOREM WalkInvariant == Spec => []WalkInv
<1>1. Init => WalkInv
  BY WalkInit
<1>2. WalkInv /\ [Next]_vars => WalkInv'
  BY WalkStep
<1> QED
  BY <1>1, <1>2, PTL DEF Spec

-----------------------------------------------------------------------------
\* The variables of a walk stay within their types: in particular limit within
\* the configured maximum and every cursor a row's key.
THEOREM WalkTypes == Spec => []TypeOK
<1>1. WalkInv => TypeOK
  BY DEF WalkInv
<1> QED
  BY <1>1, WalkInvariant, PTL

\* A finished walk has received every row that stayed in place, under one key
\* only, whatever limits were asked for and however the mart was rebuilt.
THEOREM SettledRowsExactlyOnce == Spec => []SettledRowsOnce
<1>1. WalkInv => SettledRowsOnce
  <2> SUFFICES ASSUME WalkInv, phase = "finished", NEW i \in settled
               PROVE  {r \in received : r.id = i} = {RowOf(mart, i)}
    BY DEF SettledRowsOnce
  <2>1. RowOf(mart, i) \in received /\ RowOf(mart, i).id = i
    BY DEF WalkInv, SplitInv, SettledRows, RowOf
  <2>2. \A r \in received : r.id = i => r = RowOf(mart, i)
    BY DEF WalkInv, SettledInv
  <2> QED
    BY <2>1, <2>2
<1> QED
  BY <1>1, WalkInvariant, PTL

\* Pages follow one another in the order of the ORDER BY clause, so that no row
\* is shown twice at one place.
THEOREM PagesFollowInOrder == Spec => []PagesInOrder
<1>1. WalkInv => PagesInOrder
  <2> SUFFICES ASSUME WalkInv, NEW r \in page, NEW s \in received
               PROVE  Precedes(s, r)
    BY DEF PagesInOrder
  <2>1. phase # "finished"
    BY DEF WalkInv, ReplyInv
  <2>2. cursor # NoCursor /\ cursor \in Row /\ ~Precedes(cursor, s)
    BY <2>1 DEF WalkInv, CursorInv, TypeOK
  <2>3. Precedes(cursor, r)
    BY <2>2 DEF WalkInv, ReplyInv
  <2>4. r \in Row /\ s \in Row
    BY DEF WalkInv, TypeOK
  <2> QED
    BY <2>2, <2>3, <2>4, PrecedesStrictTotal
<1> QED
  BY <1>1, WalkInvariant, PTL

\* A reply with a next page is full, for every limit.
THEOREM RepliesFullUnlessLast == Spec => []FullUnlessLast
<1>1. WalkInv => FullUnlessLast
  BY DEF WalkInv, ReplyInv, FullUnlessLast
<1> QED
  BY <1>1, WalkInvariant, PTL

\* The client's cursor only moves forward, to a row the same reply brought.
THEOREM CursorOnlyAdvances == Spec => CursorAdvances
<1> DEFINE Forward == cursor' # cursor /\ cursor' # NoCursor =>
                        /\ cursor' \in received' \ received
                        /\ cursor # NoCursor => Precedes(cursor, cursor')
<1>1. WalkInv /\ [Next]_vars => [Forward]_vars
  <2> SUFFICES ASSUME WalkInv, Next, cursor' # cursor, cursor' # NoCursor
               PROVE  Forward
    OBVIOUS
  <2>1. Deliver
    BY DEF Next, Ask, List, ListUnfit, Count, Reject, Fail, Rebuild
  <2>2. cursor' = next /\ received' = received \cup page /\ phase = "ready"
    BY <2>1 DEF Deliver
  <2>3. next \in page /\ next \in received' /\ next \in Row
    BY <2>2 DEF WalkInv, ReplyInv, TypeOK
  <2>4. cursor # NoCursor => Precedes(cursor, next)
    BY <2>3 DEF WalkInv, ReplyInv
  <2>5. next \notin received
    <3>1. CASE cursor = NoCursor
      BY <3>1, <2>2 DEF WalkInv, CursorInv
    <3>2. CASE cursor # NoCursor
      BY <3>2, <2>2, <2>4 DEF WalkInv, CursorInv
    <3> QED
      BY <3>1, <3>2
  <2> QED
    BY <2>2, <2>3, <2>4, <2>5
<1> QED
  BY <1>1, WalkInvariant, PTL DEF Spec, CursorAdvances

-----------------------------------------------------------------------------
\* The feed speaks of the same rows and the same seek condition.
LEMMA SameKeyset ==
  /\ Feed!Row = Row
  /\ \A c, S : Feed!Beyond(c, S) = Beyond(c, S)
  /\ \A S, c, f : Feed!Passed(S, c, f) = {r \in Beyond(c, S) : ~SeekWhere(f, r)}
BY DEF Feed!Row, Row, Feed!Beyond, Beyond, Feed!SeekWhere, SeekWhere, Feed!Passed

\* The walk starts as the abstract feed does.
LEMMA FeedInit == Init => Feed!Init
<1> SUFFICES ASSUME Init
             PROVE  Feed!Init
  OBVIOUS
<1> DEFINE R == {RowOf(mart, i) : i \in settled}
<1>1. R \in SUBSET Row
  BY DEF Init, RowOf, Row
<1>2. Feed!OneRowPerId(R)
  BY DEF Feed!OneRowPerId, RowOf
<1>3. cursor = NoCursor /\ received = {} /\ (phase = "finished") = FALSE
  BY DEF Init
<1> QED
  BY <1>1, <1>2, <1>3, SameKeyset DEF Feed!Init

\* Taking a reply is a step of the feed over the rows of its page.
LEMMA DeliverIsFeedStep ==
  ASSUME WalkInv, Deliver
  PROVE  Feed!Next
<1> DEFINE R == {RowOf(mart, i) : i \in settled}
<1>1. /\ R' = R /\ R = SettledRows
      /\ received' = received \cup page
      /\ cursor' = next /\ phase = "ready"
      /\ phase' = IF next = NoCursor THEN "finished" ELSE "idle"
  BY DEF Deliver, SettledRows
<1>2. /\ page \subseteq Row /\ next \in Row \cup {NoCursor}
      /\ cursor \in Row \cup {NoCursor}
      /\ SettledRows \subseteq Row
  <2>1. SettledRows \subseteq Row
    BY SettledMatch, MatchingRows DEF WalkInv, TypeOK
  <2> QED
    BY <2>1 DEF WalkInv, TypeOK
<1>3. page \in SUBSET Beyond(cursor, Row)
  BY <1>2, SeekFollowsOrder DEF WalkInv, ReplyInv, Beyond
<1>4. CASE next = NoCursor
  <2>1. Beyond(cursor, R) \subseteq page
    BY <1>1, <1>2, <1>4, SeekFollowsOrder DEF WalkInv, ReplyInv, Beyond
  <2>2. Feed!Finish
    <3> HIDE DEF R
    <3>1. (phase = "finished") = FALSE /\ (phase = "finished")' = TRUE
      BY <1>1, <1>4
    <3> QED
      BY <1>1, <1>3, <1>4, <2>1, <3>1, SameKeyset DEF Feed!Finish, R
  <2> QED
    BY <2>2 DEF Feed!Next
<1>5. CASE next # NoCursor
  <2>1. next \in Row /\ next \in page /\ \A r \in page : ~Precedes(next, r)
    BY <1>2, <1>5 DEF WalkInv, ReplyInv
  <2>2. page = Feed!Passed(page, cursor, next)
    BY <1>2, <1>3, <2>1, SeekFollowsOrder, SameKeyset DEF Beyond
  <2>3. Feed!Passed(R, cursor, next) \subseteq page
    BY <1>1, <1>2, <2>1, <1>5, SeekFollowsOrder, SameKeyset
       DEF WalkInv, ReplyInv, Beyond
  <2>4. Feed!Advance
    <3>1. next \in Beyond(cursor, Row)
      BY <1>3, <2>1
    <3>2. (phase = "finished") = FALSE /\ (phase = "finished")' = FALSE
      BY <1>1, <1>5
    <3> QED
      BY <1>1, <1>3, <2>2, <2>3, <3>1, <3>2, SameKeyset DEF Feed!Advance
  <2> QED
    BY <2>4 DEF Feed!Next
<1> QED
  BY <1>4, <1>5

\* A rebuild can only unsettle rows.
LEMMA RebuildIsFeedStep ==
  ASSUME WalkInv, Rebuild
  PROVE  Feed!Next
<1>1. /\ UNCHANGED <<cursor, phase, received>>
      /\ settled' \subseteq settled
      /\ \A i \in settled' : RowOf(mart', i) = RowOf(mart, i)
  BY DEF Rebuild, RowOf
<1>2. {RowOf(mart', i) : i \in settled'} \in SUBSET {RowOf(mart, i) : i \in settled}
  BY <1>1
<1> QED
  BY <1>1, <1>2 DEF Feed!Next, Feed!Unsettle

\* Every walk is a behaviour of the feed: whatever statements, pages, limits and
\* retries do, the client sees settled rows once each and in order.
THEOREM WalkImplementsFeed == Spec => ImplementsFeed
<1>1. WalkInv /\ [Next]_vars => [Feed!Next]_(Feed!vars)
  <2> SUFFICES ASSUME WalkInv, [Next]_vars
               PROVE  [Feed!Next]_(Feed!vars)
    OBVIOUS
  <2>1. CASE \/ Ask \/ List \/ ListUnfit \/ Count
            \/ Reject \/ Fail \/ UNCHANGED vars
    <3>1. /\ UNCHANGED <<mart, settled, cursor, received>>
          /\ (phase = "finished")' = (phase = "finished")
      BY <2>1 DEF Ask, List, ListUnfit, Count, Reject, Fail, vars, request
    <3> QED
      BY <3>1 DEF Feed!vars
  <2>2. CASE Deliver
    BY <2>2, DeliverIsFeedStep
  <2>3. CASE Rebuild
    BY <2>3, RebuildIsFeedStep
  <2> QED
    BY <2>1, <2>2, <2>3 DEF Next
<1> QED
  BY <1>1, FeedInit, WalkInvariant, PTL DEF Spec, ImplementsFeed, Feed!Spec

-----------------------------------------------------------------------------
\* While the mart stands still every row of it is settled, what the client and the
\* reply hold is of it, and something of it follows every next cursor; and a total is
\* the count of the mart its page was read from.
TotalInv ==
  /\ phase # "ready" => total = NoTotal
  /\ rebuilt = "never" =>
       /\ settled = {i \in Ids : mart[i] # Absent}
       /\ received \subseteq Matching(mart)
  /\ (phase = "listed" /\ rebuilt # "mid") \/ (phase = "ready" /\ rebuilt = "never") =>
       /\ page \subseteq Matching(mart)
       /\ next # NoCursor => \E r \in Matching(mart) : Precedes(next, r)
  /\ phase = "ready" /\ total # NoTotal =>
       /\ rebuilt = "never" => total = Cardinality(Matching(mart))
       /\ rebuilt # "mid" => /\ total >= Cardinality(page)
                             /\ next # NoCursor => total > Cardinality(page)

\* A part of the matching rows counts no more than they do, and less if it lacks one.
LEMMA PartCounted ==
  ASSUME TypeOK, NEW P \in SUBSET Matching(mart)
  PROVE  /\ Cardinality(Matching(mart)) >= Cardinality(P)
         /\ P # Matching(mart) => Cardinality(Matching(mart)) > Cardinality(P)
<1>1. IsFiniteSet(Matching(mart))
  BY MatchingRows DEF TypeOK
<1>2. IsFiniteSet(P) /\ Cardinality(P) <= Cardinality(Matching(mart))
      /\ (Cardinality(Matching(mart)) = Cardinality(P) => Matching(mart) = P)
  BY <1>1, FS_Subset
<1>3. Cardinality(P) \in Nat /\ Cardinality(Matching(mart)) \in Nat
  BY <1>1, <1>2, FS_CardinalityType
<1> QED
  BY <1>2, <1>3

\* The probe row: behind a page with a next cursor there is a matching row.
LEMMA ProbeFollows ==
  ASSUME TypeOK, List, next' # NoCursor
  PROVE  \E r \in Matching(mart) : Precedes(next', r)
<1> DEFINE S == Beyond(cursor, Matching(mart))
           rows == FirstN(S, limit + 1)
<1>1. S \in SUBSET Row /\ IsFiniteSet(S) /\ S \subseteq Matching(mart)
  BY MatchingRows, BeyondRows DEF TypeOK
<1>2. limit \in Nat
  BY PageWalkAssumption DEF TypeOK
<1>3. page' = {r \in S : ~Precedes(next', r)} /\ Cardinality(page') = limit
  BY ListedPage
<1>4. Cardinality(rows) > limit
  BY DEF List, Fetch, NextCursor, HasNext
<1> HIDE DEF S
<1>5. rows \subseteq S
  BY DEF FirstN
<1>6. Cardinality(S) > limit
  <2>1. Cardinality(rows) <= Cardinality(S) /\ IsFiniteSet(rows)
    BY <1>1, <1>5, FS_Subset
  <2>2. Cardinality(rows) \in Nat /\ Cardinality(S) \in Nat
    BY <1>1, <2>1, FS_CardinalityType
  <2> QED
    BY <1>2, <1>4, <2>1, <2>2
<1>7. page' # S
  BY <1>2, <1>3, <1>6
<1> QED
  BY <1>1, <1>3, <1>7

\* Reading the page and counting the mart keep it.
LEMMA TotalList ==
  ASSUME WalkInv, TotalInv, List
  PROVE  TotalInv'
<1>1. /\ UNCHANGED <<mart, cursor, settled, received, total>> /\ phase = "asked"
      /\ phase' \in {"listed", "ready"} /\ total = NoTotal
      /\ rebuilt' # "mid" /\ (rebuilt' = "never" => rebuilt = "never")
  BY DEF List, TotalInv, WalkInv, TypeOK, Rebuilt
<1>2. Matching(mart)' = Matching(mart) /\ (\A j \in Ids : mart'[j] = mart[j])
  BY <1>1 DEF Matching, RowOf
<1>3. page' \subseteq Matching(mart)
  BY ListedPage, MatchingRows, BeyondRows DEF WalkInv, TypeOK
<1>4. next' # NoCursor => \E r \in Matching(mart) : Precedes(next', r)
  BY ProbeFollows DEF WalkInv
<1> QED
  BY <1>1, <1>2, <1>3, <1>4 DEF TotalInv

LEMMA TotalCount ==
  ASSUME WalkInv, TotalInv, Count
  PROVE  TotalInv'
<1>1. /\ UNCHANGED <<mart, cursor, page, next, settled, received, rebuilt>>
      /\ phase = "listed" /\ phase' = "ready"
      /\ total' = Cardinality(Matching(mart))
  BY DEF Count
<1>2. Matching(mart)' = Matching(mart)
  BY <1>1 DEF Matching, RowOf
<1>3. ASSUME rebuilt # "mid"
      PROVE  /\ total' >= Cardinality(page)
             /\ next # NoCursor => total' > Cardinality(page)
  <2>1. /\ page \subseteq Matching(mart)
        /\ next # NoCursor => \E r \in Matching(mart) : Precedes(next, r)
    BY <1>1, <1>3 DEF TotalInv
  <2>2. next # NoCursor => \A r \in page : ~Precedes(next, r)
    BY DEF WalkInv, ReplyInv
  <2>3. next # NoCursor => page # Matching(mart)
    BY <2>1, <2>2
  <2> QED
    BY <1>1, <2>1, <2>3, PartCounted DEF WalkInv
<1> QED
  BY <1>1, <1>2, <1>3 DEF TotalInv

\* Taking a reply, and a rebuild, which ends the time in which all is settled.
LEMMA TotalDeliver ==
  ASSUME WalkInv, TotalInv, Deliver
  PROVE  TotalInv'
<1>1. /\ UNCHANGED <<mart, settled, rebuilt>> /\ phase = "ready"
      /\ phase' \in {"finished", "idle"} /\ total' = NoTotal
      /\ received' = received \cup page
  BY DEF Deliver, ClearRequest
<1>2. Matching(mart)' = Matching(mart)
  BY <1>1 DEF Matching, RowOf
<1> QED
  BY <1>1, <1>2 DEF TotalInv

LEMMA TotalRebuild ==
  ASSUME WalkInv, TotalInv, Rebuild
  PROVE  TotalInv'
<1>1. /\ UNCHANGED <<cursor, phase, page, next, total, received>>
      /\ rebuilt' = IF phase = "listed" \/ (phase = "ready" /\ rebuilt = "mid")
                      THEN "mid" ELSE "earlier"
  BY DEF Rebuild
<1> QED
  BY <1>1 DEF TotalInv

LEMMA TotalStep ==
  ASSUME WalkInv, TotalInv, [Next]_vars
  PROVE  TotalInv'
<1>1. CASE Ask
  <2>1. /\ UNCHANGED <<mart, settled, received, rebuilt, total>>
        /\ phase = "idle" /\ phase' = "asked"
    BY <1>1 DEF Ask
  <2> QED
    BY <2>1 DEF TotalInv, Matching, RowOf
<1>2. CASE ListUnfit \/ Reject \/ Fail
  <2>1. /\ UNCHANGED <<mart, settled, received, rebuilt>>
        /\ phase' \in {"spoilt", "idle"} /\ total' = NoTotal
    BY <1>2 DEF ListUnfit, Reject, Fail, ClearRequest, request, TotalInv
  <2> QED
    BY <2>1 DEF TotalInv, Matching, RowOf
<1>3. CASE UNCHANGED vars
  BY <1>3 DEF vars, request, TotalInv, Matching, RowOf
<1> QED
  BY <1>1, <1>2, <1>3, TotalList, TotalCount, TotalDeliver, TotalRebuild DEF Next

\* A total agrees with the pages it comes with, for every mart and however many
\* rebuilds came before: it is what the whole walk receives if there was none, and
\* counts the page, and a row more when more is to come, if they came earlier.
THEOREM TotalsAgree == Spec => []TotalAgrees
<1>1. Init => TotalInv
  BY DEF Init, TotalInv
<1>2. WalkInv /\ TotalInv => TotalAgrees
  <2> SUFFICES ASSUME WalkInv, TotalInv, phase = "ready", total # NoTotal
               PROVE  TotalAgrees
    BY DEF TotalAgrees
  <2>1. ASSUME rebuilt = "never"
        PROVE  IF next = NoCursor THEN total = Cardinality(received \cup page)
                                  ELSE total > Cardinality(received \cup page)
    <3>1. /\ received \cup page \subseteq Matching(mart)
          /\ total = Cardinality(Matching(mart))
          /\ SettledRows = Matching(mart)
      BY <2>1 DEF TotalInv, SettledRows, Matching
    <3>2. CASE next = NoCursor
      <4>1. SettledRows \subseteq received \cup page
        BY <3>2 DEF WalkInv, SplitInv, ReplyInv
      <4>2. received \cup page = Matching(mart)
        BY <3>1, <4>1
      <4> QED
        BY <3>1, <3>2, <4>2
    <3>3. CASE next # NoCursor
      <4>1. PICK r \in Matching(mart) : Precedes(next, r)
        BY <2>1, <3>3 DEF TotalInv
      <4>2. /\ next \in page /\ next \in Row /\ r \in Row
            /\ \A s \in page : ~Precedes(next, s)
        BY <3>3, MatchingRows DEF WalkInv, ReplyInv, TypeOK
      <4>3. r \notin page
        BY <4>1, <4>2
      <4>4. ASSUME r \in received PROVE FALSE
        <5>1. cursor # NoCursor /\ cursor \in Row /\ ~Precedes(cursor, r)
          BY <4>4 DEF WalkInv, CursorInv, TypeOK
        <5>2. Precedes(cursor, next)
          BY <4>2, <5>1 DEF WalkInv, ReplyInv
        <5> QED
          BY <4>1, <4>2, <5>1, <5>2, PrecedesStrictTotal
      <4>5. received \cup page # Matching(mart)
        BY <4>3, <4>4
      <4> QED
        BY <3>1, <3>3, <4>5, PartCounted DEF WalkInv
    <3> QED
      BY <3>2, <3>3
  <2>2. ASSUME rebuilt = "earlier"
        PROVE  IF next = NoCursor THEN total >= Cardinality(page)
                                  ELSE total > Cardinality(page)
    BY <2>2 DEF TotalInv
  <2> QED
    BY <2>1, <2>2 DEF TotalAgrees
<1>3. TotalInv /\ WalkInv /\ [Next]_vars => TotalInv'
  BY TotalStep
<1> QED
  BY <1>1, <1>2, <1>3, WalkInvariant, PTL DEF Spec

-----------------------------------------------------------------------------
(* What the end of a walk rests on, besides fairness.                       *)

\* With finitely many sort values there are finitely many places for a cursor.
LEMMA PlacesFinite ==
  ASSUME IsFiniteSet(SortKeys)
  PROVE  IsFiniteSet(Row)
<1> DEFINE f == [r \in Row |-> <<r.sort, r.id>>]
<1>1. IsFiniteSet(SortKeys \X Ids)
  BY KeysetAssumption, FS_Product
<1>2. f \in Injection(Row, SortKeys \X Ids)
  <2>1. f \in [Row -> SortKeys \X Ids]
    BY DEF Row
  <2>2. \A a, b \in Row : f[a] = f[b] => a = b
    BY DEF Row
  <2> QED
    BY <2>1, <2>2 DEF Injection, IsInjective
<1> QED
  BY <1>1, <1>2, FS_Injection

\* The replies a walk may have still: one for each place past the cursor, and the last.
RepliesLeft ==
  IF phase = "finished" THEN 0 ELSE 1 + Cardinality(Beyond(cursor, Row))

\* A walk cannot go on for ever on replies alone: each one delivered, whatever rebuilds
\* did to the mart and however small its page, leaves strictly fewer to come (the cursor
\* from rows[-1], the seek condition), and nothing else, a failed request, a page refused
\* by model_validate or a rebuild among it, gives any back.
THEOREM RepliesRunOut ==
  ASSUME IsFiniteSet(SortKeys)
  PROVE  Spec => /\ [](RepliesLeft \in Nat)
                 /\ [][IF Deliver THEN RepliesLeft' < RepliesLeft
                                  ELSE RepliesLeft' = RepliesLeft]_vars
<1> DEFINE Shrinks == IF Deliver THEN RepliesLeft' < RepliesLeft
                                 ELSE RepliesLeft' = RepliesLeft
<1>1. IsFiniteSet(Row)
  BY PlacesFinite
<1>2. \A c \in Row \cup {NoCursor} :
        /\ IsFiniteSet(Beyond(c, Row)) /\ Cardinality(Beyond(c, Row)) \in Nat
        /\ \A r \in Row : r \in Beyond(c, Row) <=> c = NoCursor \/ Precedes(c, r)
  <2> TAKE c \in Row \cup {NoCursor}
  <2>1. /\ IsFiniteSet(Beyond(c, Row))
        /\ \A r \in Row : r \in Beyond(c, Row) <=> c = NoCursor \/ Precedes(c, r)
    BY <1>1, BeyondRows
  <2> QED
    BY <2>1, FS_CardinalityType
<1>3. WalkInv => RepliesLeft \in Nat
  BY <1>2 DEF WalkInv, TypeOK, RepliesLeft
<1>4. WalkInv /\ [Next]_vars => [Shrinks]_vars
  <2> SUFFICES ASSUME WalkInv, Next PROVE Shrinks
    OBVIOUS
  <2>1. CASE Deliver /\ next = NoCursor
    <3>1. phase # "finished" /\ phase' = "finished"
      BY <2>1 DEF Deliver
    <3>2. RepliesLeft' = 0
      BY <3>1 DEF RepliesLeft
    <3>3. Cardinality(Beyond(cursor, Row)) \in Nat
      BY <1>2 DEF WalkInv, TypeOK
    <3>4. RepliesLeft' < RepliesLeft
      BY <3>1, <3>2, <3>3 DEF RepliesLeft
    <3> QED
      BY <2>1, <3>4
  <2>2. CASE Deliver /\ next # NoCursor
    <3>1. phase = "ready" /\ phase' = "idle" /\ cursor' = next
      BY <2>2 DEF Deliver
    <3>2. cursor \in Row \cup {NoCursor} /\ next \in Row
      BY <2>2 DEF WalkInv, TypeOK
    <3>3. cursor # NoCursor => Precedes(cursor, next)
      BY <2>2 DEF WalkInv, ReplyInv
    <3>4. next \in Beyond(cursor, Row) /\ next \notin Beyond(next, Row)
      BY <1>2, <3>2, <3>3, PrecedesStrictTotal, KeysetAssumption
    <3>5. Beyond(next, Row) \subseteq Beyond(cursor, Row)
      <4>1. Beyond(next, Row) \subseteq Row
        BY DEF Beyond
      <4> QED
        BY <4>1, <1>2, <3>2, <3>3, PrecedesStrictTotal, KeysetAssumption
    <3>6. /\ Cardinality(Beyond(next, Row)) <= Cardinality(Beyond(cursor, Row))
          /\ Cardinality(Beyond(next, Row)) # Cardinality(Beyond(cursor, Row))
      BY <1>2, <3>2, <3>4, <3>5, FS_Subset
    <3>7. RepliesLeft' = 1 + Cardinality(Beyond(next, Row))
      BY <3>1 DEF RepliesLeft, Beyond, SeekWhere
    <3>8. RepliesLeft = 1 + Cardinality(Beyond(cursor, Row))
      BY <3>1 DEF RepliesLeft
    <3>9. /\ Cardinality(Beyond(next, Row)) \in Nat
          /\ Cardinality(Beyond(cursor, Row)) \in Nat
      BY <1>2, <3>2
    <3>10. RepliesLeft' < RepliesLeft
      BY <3>6, <3>7, <3>8, <3>9
    <3> QED
      BY <2>2, <3>10
  <2>3. CASE ~Deliver
    <3>1. cursor' = cursor /\ (phase' = "finished" <=> phase = "finished")
      BY <2>3 DEF Next, Ask, List, ListUnfit, Count, Reject, Fail, Rebuild
    <3>2. RepliesLeft' = RepliesLeft
      BY <3>1 DEF RepliesLeft, Beyond, SeekWhere
    <3> QED
      BY <2>3, <3>2
  <2> QED
    BY <2>1, <2>2, <2>3
<1> QED
  BY <1>3, <1>4, WalkInvariant, PTL DEF Spec

\* A page is refused for a row of its own and for nothing else: the row fetched beyond it
\* to see whether there is a next page may be as unfit as it likes (model_validate over
\* page_rows, not rows).  So a client that asks for one row a page is stopped only by
\* that row.
THEOREM RefusedForOwnRows ==
  Spec => [][phase = "asked" =>
               /\ phase' = "spoilt" => ~NoneUnfit(FirstN(Ahead, limit))
               /\ phase' \in {"listed", "ready"} =>
                    /\ page' = FirstN(Ahead, limit)
                    /\ NoneUnfit(page')]_vars
<1> DEFINE OwnRows == phase = "asked" =>
                        /\ phase' = "spoilt" => ~NoneUnfit(FirstN(Ahead, limit))
                        /\ phase' \in {"listed", "ready"} =>
                             /\ page' = FirstN(Ahead, limit)
                             /\ NoneUnfit(page')
<1>1. WalkInv /\ [Next]_vars => [OwnRows]_vars
  <2> SUFFICES ASSUME WalkInv, Next, phase = "asked"
               PROVE  /\ phase' = "spoilt" => ~NoneUnfit(FirstN(Ahead, limit))
                      /\ phase' \in {"listed", "ready"} =>
                           /\ page' = FirstN(Ahead, limit)
                           /\ NoneUnfit(page')
    OBVIOUS
  <2> DEFINE rows == Fetch(Matching(mart), cursor, limit)
  <2>1. PageRows(rows, limit) = FirstN(Ahead, limit)
    <3>1. Ahead \in SUBSET Row /\ IsFiniteSet(Ahead)
      BY MatchingRows, BeyondRows DEF WalkInv, TypeOK, Ahead
    <3>2. limit \in Nat /\ limit + 1 \in Nat /\ limit <= limit + 1
      BY PageWalkAssumption DEF WalkInv, TypeOK
    <3>3. FirstN(FirstN(Ahead, limit + 1), limit) = FirstN(Ahead, limit)
      BY <3>1, <3>2, FirstNTwice
    <3> QED
      BY <3>3 DEF PageRows, Fetch, Ahead
  <2>2. ASSUME phase' = "spoilt" PROVE ~NoneUnfit(FirstN(Ahead, limit))
    <3>1. ListUnfit
      BY <2>2 DEF Next, Ask, List, Count, Deliver, Reject, Fail, Rebuild
    <3> QED
      BY <3>1, <2>1 DEF ListUnfit, Fit, NoneUnfit
  <2>3. ASSUME phase' \in {"listed", "ready"}
        PROVE  page' = FirstN(Ahead, limit) /\ NoneUnfit(page')
    <3>1. List
      BY <2>3 DEF Next, Ask, ListUnfit, Count, Deliver, Reject, Fail, Rebuild
    <3> QED
      BY <3>1, <2>1 DEF List, Fit, NoneUnfit
  <2> QED
    BY <2>2, <2>3
<1> QED
  BY <1>1, WalkInvariant, PTL DEF Spec
=============================================================================
