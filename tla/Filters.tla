------------------------------- MODULE Filters -------------------------------
(***************************************************************************)
(* The filters of /recalls and /recalls/search: how a query string becomes *)
(* RecallFilters and recalls_predicates decides a row by them, while a     *)
(* client sets, extends and clears one filter after another.               *)
(*                                                                         *)
(* A nullable column is the set of its value, empty for NULL, so that a    *)
(* predicate is TRUE exactly when SQL's is (there is no NOT among them).   *)
(* Of the filters with one shape one stands for all: source for the ones   *)
(* with an enum, lifecycle_status for those with free text on a nullable   *)
(* column (and is_active, firm_id, source_recall_id, of one value each),   *)
(* distribution_state for the array overlaps.                              *)
(***************************************************************************)
EXTENDS Naturals, FiniteSets

CONSTANTS Agencies,  \* the values of Source
          Statuses,  \* values of lifecycle_status
          States,    \* the state codes of the mart
          Codes,     \* state codes as clients write them
          Upper(_),  \* str.upper
          LastDay,   \* date.max; days are 1..LastDay
          MaxSet     \* how many filters a client sets at once

ASSUME FiltersAssumption ==
  /\ LastDay \in Nat \ {0} /\ MaxSet \in Nat
  /\ "" \notin Agencies \cup Statuses \cup Codes
  /\ States \subseteq Codes /\ \A s \in States : Upper(s) = s

\* A timestamp is the first or the last instant of a UTC day (the session's zone).
Days == 1..LastDay
Start(d) == 2 * d
Instants == {Start(d) : d \in Days} \cup {Start(d) + 1 : d \in Days}
DayOf(t) == CHOOSE d \in Days : t \in {Start(d), Start(d) + 1}

AtMostOne(S) == {{}} \cup {{x} : x \in S}

Rows == [source : {{s} : s \in Agencies}, lifecycle_status : AtMostOne(Statuses),
         distribution_state : SUBSET States, published_at : {{t} : t \in Instants},
         announced_at : AtMostOne(Instants)]

Lists == {"source", "lifecycle_status", "distribution_state"}
Dates == {"published_after", "published_before", "announced_after", "announced_before"}

Legal(f) == CASE f = "source" -> Agencies [] f = "lifecycle_status" -> Statuses \cup {""}
              [] OTHER -> Codes

\* What one field may carry in a query: its repetitions, each split at its commas.
\* f=a, f=a&f=b, f=a,b, f=a, (a comma and a blank), f=a,&f=b, "f=," and f= .
Bare(x) == [comma |-> FALSE, parts |-> {x}]
Joined(X) == [comma |-> TRUE, parts |-> X]
Raws(f) ==
  LET V == Legal(f) \ {""} IN
    {{Bare("")}} \cup {{Bare(x) : x \in X} : X \in SUBSET V}
    \cup {{Joined(X \cup {""})} : X \in SUBSET V}
    \cup UNION {{{Joined({x, ""}), Bare(y)} : y \in V \ {x}} : x \in V}

VARIABLES
  row,    \* a row of mart_recall_summary
  query,  \* the filters of the client's last request
  answer  \* "in" the page, "out" of it, "refused" (422) or "error" (500)

vars == <<row, query, answer>>

-----------------------------------------------------------------------------
\* split_query_list.  A slip: the blanks beside a comma are kept.
SplitKeepsBlanks(raw) == UNION {e.parts : e \in raw}

Split(raw) == UNION {IF e.comma THEN e.parts \ {""} ELSE e.parts : e \in raw}

\* recall_filters: the elements must be legal for their type.
Valid(q) == \A f \in Lists : Split(q[f]) \subseteq Legal(f)

\* IN, and && for arrays: any of the values; a filter with none is not set.
\* A slip: containment, all of the values.
AllOf(column, wanted) == wanted \subseteq column

AnyOf(column, wanted) == wanted = {} \/ column \cap wanted # {}

\* A slip: a row without the date is let through.
FromOrUndated(column, days) == \A d \in days : \A t \in column : t >= Start(d)

From(column, days) == \A d \in days : \E t \in column : t >= Start(d)

\* A slip: the bare comparison with the date, which is that day's first instant.
ThroughBare(column, days) == \A d \in days : \E t \in column : t <= Start(d)

Through(column, days) == \A d \in days : \E t \in column : t < Start(d + 1)

\* The day after the last is an OverflowError, raised as the statement is built.
Overflows(q) == LastDay \in q.published_before \cup q.announced_before

\* The values a list is compared with.  A slip: the codes as they were written.
AsWritten(f, q) == Split(q[f])

Wanted(f, q) ==
  IF f = "distribution_state" THEN {Upper(x) : x \in Split(q[f])} ELSE Split(q[f])

\* recalls_predicates
Matches(r, q) ==
  /\ \A f \in Lists : AnyOf(r[f], Wanted(f, q))
  /\ From(r.published_at, q.published_after)
  /\ Through(r.published_at, q.published_before)
  /\ From(r.announced_at, q.announced_after)
  /\ Through(r.announced_at, q.announced_before)

\* A slip: the elements of a list are not held to its type.
AnswerUnvalidated(r, q) ==
  CASE Overflows(q) -> "error"
    [] OTHER -> IF Matches(r, q) THEN "in" ELSE "out"

Answer(r, q) ==
  CASE ~Valid(q) -> "refused"
    [] Valid(q) /\ Overflows(q) -> "error"
    [] OTHER -> IF Matches(r, q) THEN "in" ELSE "out"

-----------------------------------------------------------------------------
Unfiltered == [f \in Lists \cup Dates |-> {}]

\* The last conjunct is what recall_filters promises of the lists it hands on.
TypeOK ==
  /\ row \in Rows
  /\ \A f \in Lists : query[f] \in Raws(f)
  /\ \A f \in Dates : query[f] \in AtMostOne(Days)
  /\ answer \in {"in", "out", "refused", "error"}
  /\ answer \in {"in", "out"} => \A f \in Lists : Split(query[f]) \subseteq Legal(f)

Init ==
  /\ row \in Rows
  /\ query = Unfiltered
  /\ answer = "in"

\* The next request has another value for one filter.
Ask(f, value) ==
  /\ query' = [query EXCEPT ![f] = value]
  /\ Cardinality({g \in Lists \cup Dates : query'[g] # {}}) <= MaxSet
  /\ answer' = Answer(row, query')
  /\ UNCHANGED row

Next ==
  \/ \E f \in Lists : \E raw \in Raws(f) : Ask(f, raw)
  \/ \E f \in Dates : \E d \in AtMostOne(Days) : Ask(f, d)

Spec == Init /\ [][Next]_vars

-----------------------------------------------------------------------------
\* The filters mean what the parameters' descriptions say: any of a field's values,
\* given in one parameter or in several, a state code in either case; every field
\* that has one; the whole of both end days; a row without the date or value asked
\* about is left out.  Only a value that is written and not legal has a request
\* refused, never a blank beside a comma; and only the last day of the calendar, as
\* an end day, breaks it.  (split_query_list, recall_filters, recalls_predicates)
FiltersMeanWhatTheySay ==
  /\ answer = "refused" =>
       \E f \in Lists : \E e \in query[f] : \E x \in e.parts \ Legal(f) : e.comma => x # ""
  /\ answer = "error" => LastDay \in query.published_before \cup query.announced_before
  /\ answer \in {"in", "out"} =>
    (answer = "in" <=>
      /\ \A f \in Lists :
           LET named == {x \in Legal(f) : \E e \in query[f] :
                           x \in e.parts /\ (e.comma => x # "")}
           IN \/ named = {}
              \/ \E x \in named, v \in row[f] :
                   x = v \/ (f = "distribution_state" /\ Upper(x) = v)
      /\ \A d \in query.published_after : \E t \in row.published_at : d <= DayOf(t)
      /\ \A d \in query.published_before : \E t \in row.published_at : DayOf(t) <= d
      /\ \A d \in query.announced_after : \E t \in row.announced_at : d <= DayOf(t)
      /\ \A d \in query.announced_before : \E t \in row.announced_at : DayOf(t) <= d)

\* A client that asks for one day after another, each from and through that day,
\* gets a row in the window of its own day and in no other.  The window of the
\* calendar's last day is an error for every row, so a row of that day is in none.
\* (recalls_predicates, where the day after the end day is computed)
DayWindowsPartition ==
  LET Window(after, before, d) == [Unfiltered EXCEPT ![after] = {d}, ![before] = {d}]
      Partitions(after, before, column) ==
        /\ {d \in Days : Answer(row, Window(after, before, d)) = "in"}
             = {DayOf(t) : t \in column} \ {LastDay}
        /\ Answer(row, Window(after, before, LastDay)) = "error"
  IN /\ Partitions("published_after", "published_before", row.published_at)
     /\ Partitions("announced_after", "announced_before", row.announced_at)

\* Setting a filter that was not set never brings a row in, and adding values to a
\* list that has some never loses one; so a client may refine step by step.
\* (recalls_predicates)
Refines ==
  [][\A f \in Lists \cup Dates :
       LET others == \A g \in (Lists \cup Dates) \ {f} : query'[g] = query[g]
           old == IF f \in Lists THEN Split(query[f]) ELSE query[f]
           new == IF f \in Lists THEN Split(query'[f]) ELSE query'[f]
       IN others =>
            /\ old = {} /\ answer' = "in" => answer # "out"
            /\ f \in Lists /\ old # {} /\ old \subseteq new /\ answer = "in"
                 => answer' # "out"]_vars
=============================================================================
