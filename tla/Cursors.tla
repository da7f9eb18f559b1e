------------------------------- MODULE Cursors -------------------------------
(***************************************************************************)
(* Cursors between the pages of the paginated endpoints: what each endpoint *)
(* mints, what Cursor.decode and the seek-WHERE builders make of a token    *)
(* that comes back (the client's own, another endpoint's, or one that was   *)
(* changed on the way), and what becomes of one they let through when the   *)
(* driver binds it.                                                         *)
(*                                                                          *)
(* A token stands for its payload [kind, sort_value, id]; of a value the    *)
(* model keeps its JSON type, and of a string whether it is an ISO date.    *)
(***************************************************************************)
EXTENDS ProductSearch

Kinds == {"e", "p", "r"}
Values == {"iso", "text", "number", "null"}

\* garbage does not decode from base64 and JSON; misshapen decodes to something
\* else than three elements headed by a kind.
Payloads == [form : {"payload"}, kind : Kinds, value : Values, id : {"text", "number"}]
Broken(form) == [form |-> form, kind |-> "e", value |-> "null", id |-> "text"]
Tokens == Payloads \cup {Broken("garbage"), Broken("misshapen")}
NoCursor == Broken("none")

\* What is asked of whom; a search for recalls is by q alone.
Ask(endpoint, with, narrowed) == [endpoint |-> endpoint, with |-> with, narrowed |-> narrowed]

Asks == {Ask("/recalls", {}, FALSE), Ask("/recalls/search", {"q"}, FALSE)}
          \cup {Ask("/products/search", s.with, s.narrowed) : s \in Searches}

VARIABLES
  kept,   \* the token the client keeps, and the request that minted it
  ask,    \* the last request
  sent,   \* the token it sent, or NoCursor
  own,    \* the request that minted that token as a set, {} if it was altered
  status, \* the reply's status, 0 before the first
  upcs,   \* how gold stores a UPC
  found,  \* the products matched by the statement of the page
  total   \* the products counted for with_total

vars == <<kept, ask, sent, own, status, upcs, found, total>>

-----------------------------------------------------------------------------
\* The order a request's rows come in: by event date, published date or rank.
\* search_products: by rank if q decides.
SortOf(a) ==
  IF a.endpoint = "/recalls" THEN "e"
  ELSE IF Deciding(a.with) = {"q"} THEN "r"
  ELSE IF a.with # {} THEN "p" ELSE "none"

\* The cursor of a page's last row.  Two slips: the products' one is dated whatever
\* the sort; the list's has a kind no decoder knows.
EncodeDated(a) ==
  [form |-> "payload", kind |-> IF a.endpoint = "/recalls" THEN "e" ELSE "p",
   value |-> "iso", id |-> "text"]

EncodeNewKind(a) ==
  [form |-> "payload", kind |-> IF a.endpoint = "/recalls" THEN "a" ELSE SortOf(a),
   value |-> IF SortOf(a) = "r" THEN "number" ELSE "iso", id |-> "text"]

Encode(a) ==
  [form |-> "payload", kind |-> SortOf(a),
   value |-> IF SortOf(a) = "r" THEN "number" ELSE "iso", id |-> "text"]

\* Cursor.decode
Decodes(t) == t.form = "payload"

\* date_keyset_where: what it raises, as a status, or 200.  A slip: it turns only
\* rank cursors away.
DateWhereAnyDate(t, expected) ==
  IF t.kind = "r" THEN 400 ELSE IF t.value = "text" THEN 500 ELSE 200

DateWhere(t, expected) ==
  IF t.kind # expected THEN 400
  ELSE IF t.value = "text" THEN 500  \* datetime.fromisoformat
  ELSE 200

\* rank_keyset_where.  A slip: it takes any cursor.
RankWhereUnchecked(t) == 200

RankWhere(t) == IF t.kind # "r" THEN 400 ELSE 200

\* The driver and Postgres take a date or a null where a date is compared, a number
\* or a null where a rank is, and a string for an id; the rest is a DBAPIError.
Binds(t, sort) ==
  /\ t.id = "text"
  /\ t.value \in IF sort = "r" THEN {"number", "null"} ELSE {"iso", "null"}

\* The checks a request passes, in their order: the cursor is decoded with the
\* dependencies, the selectors are matched and the statement is built in the
\* handler, and then executed.
Answer(a, t) ==
  LET where == IF t = NoCursor THEN 200
               ELSE IF SortOf(a) = "r" THEN RankWhere(t)
               ELSE DateWhere(t, SortOf(a))
  IN IF t # NoCursor /\ ~Decodes(t) THEN 400
     ELSE IF SortOf(a) = "none" THEN 422
     ELSE IF where # 200 THEN where
     ELSE IF t # NoCursor /\ ~Binds(t, SortOf(a)) THEN 503 ELSE 200

\* A page may have another behind it, except that nothing sorts behind a null.
MayMint(a, t) == Answer(a, t) = 200 /\ (t = NoCursor \/ t.value # "null")

-----------------------------------------------------------------------------
Minted == [token : Payloads \cup {NoCursor}, by : Asks]

TypeOK ==
  /\ kept \in Minted
  /\ ask \in Asks
  /\ sent \in Tokens \cup {NoCursor}
  /\ own \in SUBSET Asks
  /\ status \in {0, 200, 400, 422, 500, 503}
  /\ upcs \in UpcShapes
  /\ found \subseteq Products /\ total \subseteq Products

Init ==
  /\ kept = [token |-> NoCursor, by |-> Ask("/recalls", {}, FALSE)]
  /\ ask = Ask("/recalls", {}, FALSE)
  /\ sent = NoCursor
  /\ own = {}
  /\ status = 0
  /\ upcs = "object"
  /\ found = {} /\ total = {}

\* One request with one token (or none) and its reply, which may bring the cursor of
\* the next page.
Request(a, t, by) ==
  /\ ask' = a
  /\ sent' = t
  /\ own' = by
  /\ status' = Answer(a, t)
  /\ LET searched == a.endpoint = "/products/search" /\ Answer(a, t) = 200 IN
       /\ found' = IF searched THEN Found(a, upcs) ELSE {}
       /\ total' = IF searched THEN Counted(a, upcs) ELSE {}
  /\ upcs' = upcs
  /\ \/ kept' = kept
     \/ MayMint(a, t) /\ kept' = [token |-> Encode(a), by |-> a]

First == \E a \in Asks : Request(a, NoCursor, {})

\* The token the client keeps, on whatever endpoint it likes.
Replay == /\ kept.token # NoCursor
          /\ \E a \in Asks : Request(a, kept.token, {kept.by})

\* A token altered in its kind, value or id, or damaged beyond decoding, from a client
\* that keeps none: what a client keeps is no part of its request.
Altered == /\ kept.token = NoCursor
           /\ \E a \in Asks, t \in Tokens : Request(a, t, {})

\* The pipeline comes to store UPCs as bare strings, and the next rebuild has them.
Reshape ==
  /\ upcs = "object" /\ upcs' = "bare"
  /\ UNCHANGED <<kept, ask, sent, own, status, found, total>>

Next == First \/ Replay \/ Altered \/ Reshape

Spec == Init /\ [][Next]_vars

-----------------------------------------------------------------------------
\* A cursor the service minted never breaks it: sent back to any endpoint it yields
\* a page or a 400 (or the 422 of a search without a selector), and sent back with
\* the request that minted it, a page.  (Cursor, _encode_cursor, date_keyset_where,
\* rank_keyset_where)
MintedNeverBreaks ==
  own # {} => /\ status \in {200, 400, 422}
              /\ own = {ask} => status = 200

\* A page behind a cursor is a page of the order the cursor was cut from: a cursor
\* of another sort is refused whatever its values, even if they would bind.
\* (CursorKind, date_keyset_where)
OwnSortOnly == sent # NoCursor /\ status = 200 => sent.kind = SortOf(ask)

Searched == ask.endpoint = "/products/search" /\ status = 200

\* The total counts the rows its pages are cut from, for every combination of selectors
\* and agencies and in either shape of gold (fts_count_stmt and its siblings).
TotalOfItsPages == found = total

\* Whatever else is given, a search is by q, or else by every identifier given, or else
\* by upc: what is found matches all of these, and is what they alone would find
\* (search_products, "q wins, then hin/model, then upc").
LesserSelectorsChangeNothing ==
  Searched =>
    LET by == IF "q" \in ask.with THEN {"q"}
              ELSE IF ask.with \in SUBSET {"upc"} THEN {"upc"}
              ELSE ask.with \ {"upc"} IN
      /\ \A p \in found : by \subseteq p.is
      /\ upcs = "object" => \A p \in Products :
            by \subseteq p.is /\ (ask.narrowed => p.source) => p \in found

-----------------------------------------------------------------------------
\* The following says what a decision of the repository says, and the code does
\* otherwise.

\* A tampered payload maps to 400, not to a ValueError downstream that surfaces as
\* 500 (ADR 0004).  Kind and shape are checked, the values are not.
TamperedIsRefused == status # 500
=============================================================================
