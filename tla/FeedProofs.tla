----------------------------- MODULE FeedProofs -----------------------------
(***************************************************************************)
(* The abstract feed keeps its promise.  With the refinement proved in     *)
(* PageWalkProofs this is what a client of any paged endpoint may rely on. *)
(***************************************************************************)
EXTENDS ExactlyOnceFeed, TLAPS

\* ORDER BY is a strict total order on rows.
LEMMA PrecedesStrictTotal ==
  /\ \A a \in Row : ~Precedes(a, a)
  /\ \A a, b, c \in Row : Precedes(a, b) /\ Precedes(b, c) => Precedes(a, c)
  /\ \A a, b \in Row : a = b \/ Precedes(a, b) \/ Precedes(b, a)
<1>1. \A a \in Row : a.sort \in Int /\ a.id \in Int
  BY KeysetAssumption DEF Row
<1>2. \A a, b \in Row : a.sort = b.sort /\ a.id = b.id => a = b
  BY DEF Row
<1> QED
  BY <1>1, <1>2 DEF Precedes

\* The seek condition of the WHERE clause and the order of the ORDER BY clause,
\* written apart in the program, agree: seeking past c leaves the rows after c.
LEMMA SeekFollowsOrder ==
  \A c, r \in Row : SeekWhere(c, r) <=> Precedes(c, r)
<1>1. \A a \in Row : a.sort \in Int /\ a.id \in Int
  BY KeysetAssumption DEF Row
<1> QED
  BY <1>1 DEF SeekWhere, Precedes

FeedInv ==
  /\ settled \in SUBSET Row /\ received \in SUBSET Row
  /\ frontier \in Row \cup {NoCursor}
  /\ finished \in BOOLEAN
  /\ ~finished => /\ frontier = NoCursor => received = {}
                  /\ frontier # NoCursor => \A r \in received : ~Precedes(frontier, r)
                  /\ \A r \in settled : \/ r \in received
                                        \/ frontier = NoCursor
                                        \/ Precedes(frontier, r)
  /\ finished => settled \subseteq received

\* What the seek condition leaves, in terms of the order.
LEMMA SeekLeaves ==
  ASSUME NEW c \in Row \cup {NoCursor}, NEW S \in SUBSET Row
  PROVE  Beyond(c, S) = {r \in S : c = NoCursor \/ Precedes(c, r)}
BY SeekFollowsOrder, KeysetAssumption DEF Beyond

LEMMA FeedInvStep == FeedInv /\ [Next]_vars => FeedInv'
<1> SUFFICES ASSUME FeedInv, [Next]_vars
             PROVE  FeedInv'
  OBVIOUS
<1>1. CASE Advance
  <2>1. PICK f \in Beyond(frontier, Row), given \in SUBSET Beyond(frontier, Row) :
          /\ ~finished
          /\ given = Passed(given, frontier, f)
          /\ Passed(settled, frontier, f) \subseteq given
          /\ frontier' = f
          /\ received' = received \cup given
          /\ UNCHANGED <<settled, finished>>
    BY <1>1 DEF Advance
  <2>2. /\ f \in Row /\ given \subseteq Row /\ f # NoCursor
        /\ frontier # NoCursor => Precedes(frontier, f)
    BY <2>1, SeekLeaves, KeysetAssumption DEF FeedInv
  <2>3. \A r \in given : ~Precedes(f, r)
    BY <2>1, <2>2, SeekFollowsOrder DEF Passed
  <2>4. \A r \in received : ~Precedes(f, r)
    BY <2>1, <2>2, PrecedesStrictTotal DEF FeedInv
  <2>5. \A r \in settled : r \in received' \/ Precedes(f, r)
    <3> SUFFICES ASSUME NEW r \in settled, ~Precedes(f, r)
                 PROVE  r \in received'
      OBVIOUS
    <3>1. CASE frontier = NoCursor \/ Precedes(frontier, r)
      <4>1. r \in Beyond(frontier, settled)
        BY <3>1, SeekLeaves DEF FeedInv
      <4>2. ~SeekWhere(f, r)
        BY <2>2, SeekFollowsOrder DEF FeedInv
      <4> QED
        BY <4>1, <4>2, <2>1 DEF Passed
    <3>2. CASE ~(frontier = NoCursor \/ Precedes(frontier, r))
      BY <3>2, <2>1 DEF FeedInv
    <3> QED
      BY <3>1, <3>2
  <2> QED
    BY <2>1, <2>2, <2>3, <2>4, <2>5 DEF FeedInv
<1>2. CASE Finish
  <2>1. PICK given \in SUBSET Beyond(frontier, Row) :
          /\ ~finished
          /\ Beyond(frontier, settled) \subseteq given
          /\ frontier' = NoCursor
          /\ received' = received \cup given
          /\ finished' = TRUE
          /\ UNCHANGED settled
    BY <1>2 DEF Finish
  <2>2. given \subseteq Row
    BY <2>1, SeekLeaves DEF FeedInv
  <2>3. settled \subseteq received'
    BY <2>1, SeekLeaves DEF FeedInv
  <2> QED
    BY <2>1, <2>2, <2>3 DEF FeedInv
<1>3. CASE Unsettle
  BY <1>3 DEF Unsettle, FeedInv
<1>4. CASE UNCHANGED vars
  BY <1>4 DEF vars, FeedInv
<1> QED
  BY <1>1, <1>2, <1>3, <1>4 DEF Next

LEMMA FeedInvariant == Spec => []FeedInv
<1>1. Init => FeedInv
  BY DEF Init, FeedInv
<1> QED
  BY <1>1, FeedInvStep, PTL DEF Spec

\* When the client is told there is no next page, every settled row has reached
\* it.
THEOREM FeedMissesNothing == Spec => []NothingSettledMissed
<1>1. FeedInv => NothingSettledMissed
  BY DEF FeedInv, NothingSettledMissed
<1> QED
  BY <1>1, FeedInvariant, PTL

\* In between, the frontier tells the settled rows received from those to come.
THEOREM FeedSplitsAtFrontier == Spec => []FrontierSplitsSettled
<1>1. FeedInv => FrontierSplitsSettled
  BY SeekFollowsOrder DEF FeedInv, FrontierSplitsSettled
<1> QED
  BY <1>1, FeedInvariant, PTL

\* Nothing is received at or before a place already read.
THEOREM FeedReadsForward == Spec => OnlyForward
<1> DEFINE Forward == \A r \in received' \ received, s \in received : Precedes(s, r)
<1>1. FeedInv /\ [Next]_vars => [Forward]_vars
  <2> SUFFICES ASSUME FeedInv, Next,
                      NEW r \in received' \ received, NEW s \in received
               PROVE  Precedes(s, r)
    OBVIOUS
  <2>1. ~finished /\ r \in Beyond(frontier, Row)
    BY DEF Next, Advance, Finish, Unsettle
  <2>2. r \in Row /\ s \in Row /\ frontier # NoCursor /\ frontier \in Row
    BY <2>1, SeekLeaves DEF FeedInv
  <2>3. Precedes(frontier, r) /\ ~Precedes(frontier, s)
    BY <2>1, <2>2, SeekLeaves DEF FeedInv
  <2> QED
    BY <2>2, <2>3, PrecedesStrictTotal
<1> QED
  BY <1>1, FeedInvariant, PTL DEF Spec, OnlyForward
=============================================================================
