----------------------------- MODULE ProductSearch -----------------------------
(***************************************************************************)
(* GET /products/search: which of the selectors given decides, and which   *)
(* rows the statement of its pages and the one of its total match.         *)
(*                                                                         *)
(* The mart holds a row of each class: whether the row matches the q, hin, *)
(* model and upc that are asked for, and whether it is of an agency that   *)
(* is asked for.                                                           *)
(***************************************************************************)
EXTENDS Naturals

Selectors == {"q", "hin", "model", "upc"}

\* The selectors given, and whether agencies are.
Searches == [with : SUBSET Selectors, narrowed : BOOLEAN]

\* The selectors a row matches, and whether it is of an agency asked for.
Products == [is : SUBSET Selectors, source : BOOLEAN]

\* Gold stores a UPC as an object, and may come to store the bare string.
UpcShapes == {"object", "bare"}

-----------------------------------------------------------------------------
\* Slips: the identifiers come first; a upc given with an identifier narrows it.
IdentifierFirst(with) ==
  IF with \cap {"hin", "model"} # {} THEN with \cap {"hin", "model"}
  ELSE IF "q" \in with THEN {"q"} ELSE with

AllIdentifiers(with) == IF "q" \in with THEN {"q"} ELSE with

\* The selectors that decide: q, else hin and model, else upc.
Deciding(with) ==
  IF "q" \in with THEN {"q"}
  ELSE IF with \cap {"hin", "model"} # {} THEN with \cap {"hin", "model"}
  ELSE with

\* _source_cond
OfSource(s, p) == s.narrowed => p.source

\* A slip: the bare code is looked for.
HasCode(p, shape) == "upc" \in p.is /\ shape = "bare"

\* _upc_where: recall_product_upcs @> [{"upc": code}].
HasUpc(p, shape) == "upc" \in p.is /\ shape = "object"

\* The rows of the pages: fts_stmt, _identifier_where, _upc_where.
OnPages(s, p, shape) ==
  LET by == Deciding(s.with) IN
    /\ by \ {"upc"} \subseteq p.is
    /\ "upc" \in by => HasUpc(p, shape)
    /\ OfSource(s, p)

\* A slip: the agencies are left out of the count of a keyword.
CountedAnySource(s, p, shape) ==
  LET by == Deciding(s.with) IN
    /\ by \ {"upc"} \subseteq p.is
    /\ "upc" \in by => HasUpc(p, shape)
    /\ by # {"q"} => OfSource(s, p)

\* The rows the total counts: fts_count_stmt, which states its condition anew, and
\* identifier_count_stmt and upc_count_stmt, which share theirs with the pages.
InTotal(s, p, shape) ==
  LET by == Deciding(s.with) IN
    IF by = {"q"} THEN "q" \in p.is /\ OfSource(s, p) ELSE OnPages(s, p, shape)

Found(s, shape) == {p \in Products : OnPages(s, p, shape)}

Counted(s, shape) == {p \in Products : InTotal(s, p, shape)}
=============================================================================
