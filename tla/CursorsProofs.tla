---------------------------- MODULE CursorsProofs ----------------------------
(***************************************************************************)
(* Why a cursor the service minted never breaks it, why none gets a page   *)
(* of another order, and why a search's total is that of its pages.  The   *)
(* arguments turn on the definitions of the code alone, Answer, Encode and *)
(* the predicates of the statements, and hold for histories of any length. *)
(***************************************************************************)
EXTENDS Cursors, TLAPS

\* What the client keeps was minted for a page of an order.
KeptInv ==
  kept.token # NoCursor => kept.token = Encode(kept.by) /\ SortOf(kept.by) # "none"

\* A token sent as the client's own is what its minter encodes.
SentInv ==
  own # {} => \E by \in Asks : own = {by} /\ sent = Encode(by) /\ SortOf(by) # "none"

\* The status is the answer to the last request and the token it sent, if any.
StatusInv ==
  \/ status = Answer(ask, sent)
  \/ status = 0 /\ sent = NoCursor /\ own = {}

\* What was found was found in the shape gold has now, or had before.
FoundInv ==
  /\ found = total
  /\ Searched => \E shape \in UpcShapes : /\ found = Found(ask, shape)
                                          /\ upcs = "object" => shape = "object"

CursorsInv == TypeOK /\ KeptInv /\ SentInv /\ StatusInv /\ FoundInv

-----------------------------------------------------------------------------
\* The tag of a payload tells it from no cursor at all.
LEMMA NoCursorIsNoToken == NoCursor \notin Tokens
BY DEF NoCursor, Broken, Tokens, Payloads

LEMMA SortsOfAsks == \A a : SortOf(a) \in Kinds \cup {"none"}
BY DEF SortOf, Kinds

LEMMA AskFields ==
  ASSUME NEW a \in Asks
  PROVE  a.with \in SUBSET Selectors
<1>1. CASE a = Ask("/recalls", {}, FALSE) \/ a = Ask("/recalls/search", {"q"}, FALSE)
  BY <1>1 DEF Ask, Selectors
<1>2. ASSUME NEW s \in Searches, a = Ask("/products/search", s.with, s.narrowed)
      PROVE  a.with \in SUBSET Selectors
  BY <1>2 DEF Ask, Searches
<1> QED BY <1>1, <1>2 DEF Asks

LEMMA EncodedIsPayload ==
  ASSUME NEW a, SortOf(a) # "none"
  PROVE  Encode(a) \in Payloads
BY SortsOfAsks DEF Encode, Payloads, Values

LEMMA AnswerTyped == \A a, t : Answer(a, t) \in {200, 400, 422, 500, 503}
BY DEF Answer, RankWhere, DateWhere

\* A page is of an order.
LEMMA PageHasSort == \A a, t : Answer(a, t) = 200 => SortOf(a) # "none"
BY DEF Answer

\* The heart of it: of any request whatever a minted token makes a page, a 400 or the
\* 422 of a search without a selector, and a page of a request of its own sort
\* (Cursor.decode, date_keyset_where, rank_keyset_where, the driver).
LEMMA AnswerToMinted ==
  ASSUME NEW a \in Asks, NEW by \in Asks, SortOf(by) # "none"
  PROVE  /\ Answer(a, Encode(by)) \in {200, 400, 422}
         /\ SortOf(a) = SortOf(by) => Answer(a, Encode(by)) = 200
<1> DEFINE t == Encode(by)
<1>1. /\ t \in Payloads /\ t # NoCursor
  BY EncodedIsPayload, NoCursorIsNoToken DEF Tokens
<1>2. /\ t.kind = SortOf(by) /\ t.id = "text" /\ Decodes(t)
      /\ t.value = IF SortOf(by) = "r" THEN "number" ELSE "iso"
  BY DEF Encode, Decodes
<1>3. CASE SortOf(a) = "none"
  <2>1. Answer(a, t) = 422
    BY <1>1, <1>2, <1>3 DEF Answer
  <2> QED BY <1>3, <2>1
<1>4. CASE SortOf(a) = SortOf(by)
  <2>1. Binds(t, SortOf(a))
    BY <1>2, <1>4 DEF Binds
  <2>2. SortOf(a) = "r" => RankWhere(t) = 200
    BY <1>2, <1>4 DEF RankWhere
  <2>3. SortOf(a) # "r" => DateWhere(t, SortOf(a)) = 200
    BY <1>2, <1>4 DEF DateWhere
  <2> QED BY <1>1, <1>2, <1>4, <2>1, <2>2, <2>3 DEF Answer
<1>5. CASE SortOf(a) # "none" /\ SortOf(a) # SortOf(by)
  <2>1. SortOf(a) = "r" => RankWhere(t) = 400
    BY <1>2, <1>5 DEF RankWhere
  <2>2. SortOf(a) # "r" => DateWhere(t, SortOf(a)) = 400
    BY <1>2, <1>5 DEF DateWhere
  <2>3. Answer(a, t) = 400
    BY <1>1, <1>2, <1>5, <2>1, <2>2 DEF Answer
  <2> QED BY <1>5, <2>3
<1> QED BY <1>3, <1>4, <1>5

\* A page behind a cursor, minted or altered, is of the cursor's own sort.
LEMMA PageOfOwnSort ==
  ASSUME NEW a, NEW t, t # NoCursor, Answer(a, t) = 200
  PROVE  t.kind = SortOf(a)
BY DEF Answer, RankWhere, DateWhere

\* The condition the keyword's count states anew is that of its pages, and the others
\* share theirs (fts_count_stmt, identifier_count_stmt, upc_count_stmt).
LEMMA CountIsOfPages == \A s, shape : Found(s, shape) = Counted(s, shape)
<1>1. ASSUME NEW s, NEW shape, NEW p \in Products, Deciding(s.with) = {"q"}
      PROVE  OnPages(s, p, shape) <=> "q" \in p.is /\ OfSource(s, p)
  BY <1>1 DEF OnPages
<1>2. ASSUME NEW s, NEW shape, NEW p \in Products
      PROVE  OnPages(s, p, shape) <=> InTotal(s, p, shape)
  BY <1>1 DEF InTotal
<1> QED BY <1>2 DEF Found, Counted

-----------------------------------------------------------------------------
\* What a request leaves behind, whatever token it was sent with.
LEMMA RequestStep ==
  ASSUME CursorsInv, NEW a \in Asks, NEW t \in Tokens \cup {NoCursor}, NEW by \in SUBSET Asks,
         by # {} => \E b \in Asks : by = {b} /\ t = Encode(b) /\ SortOf(b) # "none",
         Request(a, t, by)
  PROVE  CursorsInv'
<1>1. KeptInv' /\ kept' \in Minted
  <2>1. CASE kept' = kept
    BY <2>1 DEF CursorsInv, KeptInv, TypeOK
  <2>2. CASE MayMint(a, t) /\ kept' = [token |-> Encode(a), by |-> a]
    <3>1. SortOf(a) # "none"
      BY <2>2, PageHasSort DEF MayMint
    <3> QED BY <2>2, <3>1, EncodedIsPayload DEF KeptInv, Minted
  <2> QED BY <2>1, <2>2 DEF Request
<1>2. ask' = a /\ sent' = t /\ own' = by /\ status' = Answer(a, t) /\ upcs' = upcs
  BY DEF Request
<1>3. SentInv' /\ StatusInv'
  BY <1>2 DEF SentInv, StatusInv
<1>4. FoundInv'
  <2>1. upcs \in UpcShapes
    BY DEF CursorsInv, TypeOK
  <2>2. CASE a.endpoint = "/products/search" /\ Answer(a, t) = 200
    <3>1. found' = Found(a, upcs) /\ total' = Found(a, upcs)
      BY <2>2, CountIsOfPages DEF Request
    <3> QED BY <1>2, <2>1, <3>1 DEF FoundInv
  <2>3. CASE ~(a.endpoint = "/products/search" /\ Answer(a, t) = 200)
    <3>1. found' = {} /\ total' = {}
      BY <2>3 DEF Request
    <3> QED BY <1>2, <2>3, <3>1 DEF FoundInv, Searched
  <2> QED BY <2>2, <2>3
<1>5. TypeOK'
  <2>1. found' \subseteq Products /\ total' \subseteq Products
    BY DEF Request, Found, Counted
  <2>2. status' \in {0, 200, 400, 422, 500, 503}
    BY <1>2, AnswerTyped
  <2>3. upcs' \in UpcShapes
    BY <1>2 DEF CursorsInv, TypeOK
  <2> QED BY <1>1, <1>2, <2>1, <2>2, <2>3 DEF TypeOK
<1> QED BY <1>1, <1>3, <1>4, <1>5 DEF CursorsInv

LEMMA CursorsInit == Init => CursorsInv
<1> SUFFICES ASSUME Init PROVE CursorsInv
  OBVIOUS
<1>1. TypeOK
  BY DEF Init, TypeOK, Minted, Asks, UpcShapes
<1> QED BY <1>1 DEF Init, CursorsInv, KeptInv, SentInv, StatusInv, FoundInv, Searched

LEMMA CursorsStep == CursorsInv /\ [Next]_vars => CursorsInv'
<1> SUFFICES ASSUME CursorsInv, [Next]_vars PROVE CursorsInv'
  OBVIOUS
<1>1. CASE First
  BY <1>1, RequestStep DEF First
<1>2. CASE Replay
  <2>1. PICK a \in Asks : Request(a, kept.token, {kept.by})
    BY <1>2 DEF Replay
  <2>2. /\ kept.by \in Asks /\ kept.token \in Tokens
        /\ kept.token = Encode(kept.by) /\ SortOf(kept.by) # "none"
    BY <1>2 DEF Replay, CursorsInv, KeptInv, TypeOK, Minted, Tokens
  <2> QED BY <2>1, <2>2, RequestStep
<1>3. CASE Altered
  BY <1>3, RequestStep DEF Altered
<1>4. CASE Reshape
  <2>1. upcs' = "bare" /\ UNCHANGED <<kept, ask, sent, own, status, found, total>>
    BY <1>4 DEF Reshape
  <2>2. FoundInv'
    BY <2>1 DEF CursorsInv, FoundInv, Searched
  <2>3. TypeOK' /\ KeptInv' /\ SentInv' /\ StatusInv'
    BY <2>1 DEF CursorsInv, TypeOK, KeptInv, SentInv, StatusInv, UpcShapes
  <2> QED BY <2>2, <2>3 DEF CursorsInv
<1>5. CASE UNCHANGED vars
  BY <1>5 DEF vars, CursorsInv, TypeOK, KeptInv, SentInv, StatusInv, FoundInv, Searched
<1> QED BY <1>1, <1>2, <1>3, <1>4, <1>5 DEF Next

\* Tokens kept and sent, the status and what was found are in order after any history
\* of requests (Cursor.decode, the endpoints' _encode_cursor, search_products).
THEOREM CursorsInvariant == Spec => []CursorsInv
BY CursorsInit, CursorsStep, PTL DEF Spec

\* Every variable keeps its type; above all, what is minted is a token a decoder knows.
THEOREM CursorTypes == Spec => []TypeOK
<1>1. CursorsInv => TypeOK
  BY DEF CursorsInv
<1> QED BY <1>1, CursorsInvariant, PTL

\* No cursor the service minted breaks it, on any endpoint, after any history, and one
\* sent back with its own request gets a page (_encode_cursor, date_keyset_where).
THEOREM MintedCursorsAreSafe == Spec => []MintedNeverBreaks
<1>1. CursorsInv => MintedNeverBreaks
  <2> SUFFICES ASSUME CursorsInv, own # {}
               PROVE  status \in {200, 400, 422} /\ (own = {ask} => status = 200)
    BY DEF MintedNeverBreaks
  <2>1. PICK by \in Asks : own = {by} /\ sent = Encode(by) /\ SortOf(by) # "none"
    BY DEF CursorsInv, SentInv
  <2>2. ask \in Asks
    BY DEF CursorsInv, TypeOK
  <2>3. status = Answer(ask, sent)
    BY DEF CursorsInv, StatusInv
  <2> QED BY <2>1, <2>2, <2>3, AnswerToMinted
<1> QED BY <1>1, CursorsInvariant, PTL

\* No cursor, minted, altered or another endpoint's, gets a page of an order it was not
\* cut from (CursorKind, date_keyset_where, rank_keyset_where).
THEOREM PagesOfOwnSort == Spec => []OwnSortOnly
<1>1. CursorsInv => OwnSortOnly
  BY PageOfOwnSort DEF CursorsInv, StatusInv, OwnSortOnly
<1> QED BY <1>1, CursorsInvariant, PTL

\* The total is that of the very rows the pages are cut from, for every combination of
\* selectors and agencies (fts_count_stmt, identifier_count_stmt, upc_count_stmt).
THEOREM TotalsOfPages == Spec => []TotalOfItsPages
<1>1. CursorsInv => TotalOfItsPages
  BY DEF CursorsInv, FoundInv, TotalOfItsPages
<1> QED BY <1>1, CursorsInvariant, PTL

-----------------------------------------------------------------------------
\* The selectors a search is by, in the words of the documentation.
By(with) == IF "q" \in with THEN {"q"}
            ELSE IF with \in SUBSET {"upc"} THEN {"upc"}
            ELSE with \ {"upc"}

\* They are those that decide.
LEMMA DecidingIsBy ==
  ASSUME NEW with \in SUBSET Selectors, with # {}
  PROVE  Deciding(with) = By(with)
<1>1. CASE "q" \in with
  BY <1>1 DEF Deciding, By
<1>2. CASE "q" \notin with /\ with \in SUBSET {"upc"}
  <2>1. with = {"upc"} /\ with \cap {"hin", "model"} = {}
    BY <1>2
  <2> QED BY <1>2, <2>1 DEF Deciding, By
<1>3. CASE "q" \notin with /\ with \notin SUBSET {"upc"}
  <2>1. with \cap {"hin", "model"} = with \ {"upc"} /\ with \ {"upc"} # {}
    BY <1>3 DEF Selectors
  <2> QED BY <1>3, <2>1 DEF Deciding, By
<1> QED BY <1>1, <1>2, <1>3

\* Every row on the pages matches all that decides; and with UPCs in the shape the code
\* looks for, every row that does, of an agency asked for, is on them.
LEMMA FoundByDeciding ==
  ASSUME NEW s, NEW shape
  PROVE  /\ \A p \in Found(s, shape) : Deciding(s.with) \subseteq p.is
         /\ shape = "object" =>
              \A p \in Products :
                Deciding(s.with) \subseteq p.is /\ OfSource(s, p) => p \in Found(s, shape)
BY DEF Found, OnPages, HasUpc

\* Whatever is given beside what decides changes nothing of what is found: a search is
\* by q, else by every identifier given, else by upc (search_products).
THEOREM OthersChangeNothing == Spec => []LesserSelectorsChangeNothing
<1>1. CursorsInv => LesserSelectorsChangeNothing
  <2> SUFFICES ASSUME CursorsInv, Searched
               PROVE  /\ \A p \in found : By(ask.with) \subseteq p.is
                      /\ upcs = "object" => \A p \in Products :
                           By(ask.with) \subseteq p.is /\ (ask.narrowed => p.source)
                             => p \in found
    BY DEF LesserSelectorsChangeNothing, By
  <2>1. ask \in Asks /\ ask.with \in SUBSET Selectors
    BY AskFields DEF CursorsInv, TypeOK
  <2>2. SortOf(ask) # "none"
    BY PageHasSort DEF CursorsInv, StatusInv, Searched
  <2>3. ask.with # {}
    BY <2>2 DEF SortOf, Searched, Deciding
  <2>4. Deciding(ask.with) = By(ask.with)
    BY <2>1, <2>3, DecidingIsBy
  <2>5. PICK shape \in UpcShapes : /\ found = Found(ask, shape)
                                   /\ upcs = "object" => shape = "object"
    BY DEF CursorsInv, FoundInv
  <2> QED BY <2>4, <2>5, FoundByDeciding DEF OfSource
<1> QED BY <1>1, CursorsInvariant, PTL
=============================================================================
