--------------------------- MODULE FiltersProofs ---------------------------
(***************************************************************************)
(* The filters for every set of agencies, statuses, states and codes, every *)
(* calendar, and any number of filters set at once.                        *)
(***************************************************************************)
EXTENDS Filters, TLAPS

\* A query's fields, each of the form its parameter allows.
Queries ==
  {q \in [Lists \cup Dates -> UNION ({Raws(f) : f \in Lists} \cup {AtMostOne(Days)})] :
     /\ \A f \in Lists : q[f] \in Raws(f)
     /\ \A f \in Dates : q[f] \in AtMostOne(Days)}

\* The answer is always that of the last query.
AnswerInv == row \in Rows /\ query \in Queries /\ answer = Answer(row, query)

-----------------------------------------------------------------------------
\* A list's values: blanks beside a comma fall out.
LEMMA SplitIs ==
  ASSUME NEW f \in Lists, NEW raw \in Raws(f)
  PROVE  \A x : x \in Split(raw) <=> \E e \in raw : x \in e.parts /\ (e.comma => x # "")
<1>1. \A e \in raw : e.comma \in BOOLEAN
  <2>1. \A x : Bare(x).comma \in BOOLEAN /\ Joined(x).comma \in BOOLEAN
    BY DEF Bare, Joined
  <2>2. \A e \in raw : \E x : e = Bare(x) \/ e = Joined(x)
    <3> DEFINE V == Legal(f) \ {""}
    <3>1. \/ raw = {Bare("")}
          \/ \E X \in SUBSET V : raw = {Bare(x) : x \in X}
          \/ \E X \in SUBSET V : raw = {Joined(X \cup {""})}
          \/ \E x \in V : \E y \in V \ {x} : raw = {Joined({x, ""}), Bare(y)}
      BY DEF Raws
    <3>2. ASSUME NEW x, NEW y, raw = {Joined({x, ""}), Bare(y)}
          PROVE  \A e \in raw : \E z : e = Bare(z) \/ e = Joined(z)
      BY <3>2
    <3>3. ASSUME NEW X, raw = {Joined(X \cup {""})}
          PROVE  \A e \in raw : \E z : e = Bare(z) \/ e = Joined(z)
      BY <3>3
    <3>4. ASSUME NEW X, raw = {Bare(x) : x \in X}
          PROVE  \A e \in raw : \E z : e = Bare(z) \/ e = Joined(z)
      BY <3>4
    <3> HIDE DEF V
    <3> QED BY <3>1, <3>2, <3>3, <3>4
  <2> QED BY <2>1, <2>2
<1>2. ASSUME NEW e \in raw, NEW x
      PROVE  x \in (IF e.comma THEN e.parts \ {""} ELSE e.parts)
               <=> x \in e.parts /\ (e.comma => x # "")
  <2>1. CASE e.comma = TRUE
    BY <2>1
  <2>2. CASE e.comma = FALSE
    BY <2>2
  <2> QED BY <1>1, <2>1, <2>2
<1> QED BY <1>2 DEF Split

LEMMA AnswerInit == Init => AnswerInv
<1> SUFFICES ASSUME Init PROVE AnswerInv
  OBVIOUS
<1>1. \A f \in Lists \cup Dates : query[f] = {}
  BY DEF Init, Unfiltered
<1>2. query \in Queries
  <2>1. ASSUME NEW f \in Lists PROVE {} \in Raws(f)
    <3>1. {} = {Bare(x) : x \in {}} /\ {} \in SUBSET (Legal(f) \ {""})
      OBVIOUS
    <3> QED BY <3>1, Zenon DEF Raws
  <2>2. {} \in AtMostOne(Days)
    BY DEF AtMostOne
  <2> QED BY <2>1, <2>2 DEF Init, Unfiltered, Queries
<1>3. \A f \in Lists : Split(query[f]) = {} /\ Wanted(f, query) = {}
  BY <1>1 DEF Split, Wanted, Lists
<1>4. Valid(query) /\ ~Overflows(query) /\ Matches(row, query)
  BY <1>1, <1>3 DEF Valid, Overflows, Matches, AnyOf, From, Through, Dates
<1> QED BY <1>2, <1>4 DEF Init, AnswerInv, Answer

LEMMA AnswerStep ==
  ASSUME AnswerInv, [Next]_vars
  PROVE  AnswerInv'
<1>1. ASSUME NEW f \in Lists, NEW raw \in Raws(f), Ask(f, raw)
      PROVE  AnswerInv'
  <2>1. query' \in Queries
    BY <1>1 DEF Ask, Queries, AnswerInv, Lists, Dates
  <2> QED BY <1>1, <2>1 DEF Ask, AnswerInv
<1>2. ASSUME NEW f \in Dates, NEW d \in AtMostOne(Days), Ask(f, d)
      PROVE  AnswerInv'
  <2>1. query' \in Queries
    BY <1>2 DEF Ask, Queries, AnswerInv, Lists, Dates
  <2> QED BY <1>2, <2>1 DEF Ask, AnswerInv
<1>3. CASE UNCHANGED vars
  BY <1>3 DEF vars, AnswerInv, Answer
<1> QED BY <1>1, <1>2, <1>3 DEF Next

\* Every answer is that of the query it was asked with (list_recalls).
THEOREM AnswerInvariant == Spec => []AnswerInv
BY AnswerInit, AnswerStep, PTL DEF Spec

\* Every variable keeps its type, and no list reaches the predicates with an element
\* its type does not have.
THEOREM FilterTypes == Spec => []TypeOK
<1>1. ASSUME AnswerInv PROVE TypeOK
  <2>1. /\ row \in Rows
        /\ \A f \in Lists : query[f] \in Raws(f)
        /\ \A f \in Dates : query[f] \in AtMostOne(Days)
    BY <1>1 DEF AnswerInv, Queries
  <2>2. /\ answer \in {"in", "out", "refused", "error"}
        /\ answer \in {"in", "out"} => Valid(query)
    BY <1>1 DEF AnswerInv, Answer
  <2> QED BY <2>1, <2>2 DEF TypeOK, Valid
<1> QED BY <1>1, AnswerInvariant, PTL

-----------------------------------------------------------------------------
\* Days and instants: from a day on, and through a day, are comparisons of days.
LEMMA WholeDays ==
  ASSUME NEW t \in Instants, NEW d \in Days
  PROVE  /\ t >= Start(d) <=> d <= DayOf(t)
         /\ t < Start(d + 1) <=> DayOf(t) <= d
         /\ DayOf(t) \in Days
<1>1. LastDay \in Nat /\ d \in Nat
  <2>1. LastDay \in Nat
    BY FiltersAssumption
  <2> QED BY <2>1 DEF Days
<1>2. PICK e \in Days : t = Start(e) \/ t = Start(e) + 1
  BY Zenon DEF Instants
<1>3. e \in Nat
  BY <1>1 DEF Days
<1>4. DayOf(t) = e
  <2>1. \A d2 \in Days : t \in {Start(d2), Start(d2) + 1} <=> d2 = e
    BY <1>1, <1>2, <1>3 DEF Start, Days
  <2> QED BY <2>1 DEF DayOf
<1> QED BY <1>1, <1>2, <1>3, <1>4 DEF Start

\* The values a valid list names are those of its element type among its parts.
LEMMA NamedIsSplit ==
  ASSUME NEW q \in Queries, Valid(q), NEW f \in Lists
  PROVE  {x \in Legal(f) : \E e \in q[f] : x \in e.parts /\ (e.comma => x # "")} = Split(q[f])
<1>1. q[f] \in Raws(f)
  BY DEF Queries
<1> QED BY <1>1, SplitIs DEF Valid

\* A state code in either case names the state.
LEMMA AnyOfIs ==
  ASSUME NEW r \in Rows, NEW q \in Queries, Valid(q), NEW f \in Lists
  PROVE  AnyOf(r[f], Wanted(f, q)) <=>
           \/ Split(q[f]) = {}
           \/ \E x \in Split(q[f]), v \in r[f] :
                x = v \/ (f = "distribution_state" /\ Upper(x) = v)
<1>1. CASE f = "distribution_state"
  <2>1. r[f] \subseteq States
    BY <1>1 DEF Rows
  <2>2. \A v \in r[f] : Upper(v) = v
    BY <2>1, FiltersAssumption
  <2>3. Wanted(f, q) = {Upper(x) : x \in Split(q[f])}
    BY <1>1 DEF Wanted
  <2> QED BY <1>1, <2>2, <2>3 DEF AnyOf
<1>2. CASE f # "distribution_state"
  BY <1>2 DEF AnyOf, Wanted
<1> QED BY <1>1, <1>2

-----------------------------------------------------------------------------
\* The date filters compare days.
LEMMA DatesMean ==
  ASSUME NEW column \in SUBSET Instants, NEW days \in AtMostOne(Days)
  PROVE  /\ From(column, days) <=> \A d \in days : \E t \in column : d <= DayOf(t)
         /\ Through(column, days) <=> \A d \in days : \E t \in column : DayOf(t) <= d
<1>1. days \subseteq Days
  BY DEF AtMostOne
<1> QED BY <1>1, WholeDays DEF From, Through

\* A row's dates are instants, at most one each.
LEMMA RowDates ==
  ASSUME NEW r \in Rows
  PROVE  /\ r.published_at \in AtMostOne(Instants)
         /\ r.announced_at \in AtMostOne(Instants)
         /\ r.published_at \subseteq Instants /\ r.announced_at \subseteq Instants
BY DEF Rows, AtMostOne

LEMMA MatchesMeans ==
  ASSUME NEW r \in Rows, NEW q \in Queries, Valid(q)
  PROVE  Matches(r, q) <=>
           /\ \A f \in Lists :
                LET named == {x \in Legal(f) : \E e \in q[f] :
                                x \in e.parts /\ (e.comma => x # "")}
                IN \/ named = {}
                   \/ \E x \in named, v \in r[f] :
                        x = v \/ (f = "distribution_state" /\ Upper(x) = v)
           /\ \A d \in q.published_after : \E t \in r.published_at : d <= DayOf(t)
           /\ \A d \in q.published_before : \E t \in r.published_at : DayOf(t) <= d
           /\ \A d \in q.announced_after : \E t \in r.announced_at : d <= DayOf(t)
           /\ \A d \in q.announced_before : \E t \in r.announced_at : DayOf(t) <= d
<1>1. \A f \in Lists :
        AnyOf(r[f], Wanted(f, q)) <=>
          LET named == {x \in Legal(f) : \E e \in q[f] :
                          x \in e.parts /\ (e.comma => x # "")}
          IN \/ named = {}
             \/ \E x \in named, v \in r[f] :
                  x = v \/ (f = "distribution_state" /\ Upper(x) = v)
  <2> SUFFICES ASSUME NEW f \in Lists
      PROVE  AnyOf(r[f], Wanted(f, q)) <=>
               LET named == {x \in Legal(f) : \E e \in q[f] :
                               x \in e.parts /\ (e.comma => x # "")}
               IN \/ named = {}
                  \/ \E x \in named, v \in r[f] :
                       x = v \/ (f = "distribution_state" /\ Upper(x) = v)
    OBVIOUS
  <2> DEFINE named == {x \in Legal(f) : \E e \in q[f] :
                         x \in e.parts /\ (e.comma => x # "")}
  <2>1. named = Split(q[f])
    BY NamedIsSplit
  <2>2. AnyOf(r[f], Wanted(f, q)) <=>
          \/ Split(q[f]) = {}
          \/ \E x \in Split(q[f]), v \in r[f] :
               x = v \/ (f = "distribution_state" /\ Upper(x) = v)
    BY AnyOfIs
  <2> HIDE DEF named
  <2>3. AnyOf(r[f], Wanted(f, q)) <=>
          \/ named = {}
          \/ \E x \in named, v \in r[f] :
               x = v \/ (f = "distribution_state" /\ Upper(x) = v)
    BY <2>1, <2>2
  <2> QED BY <2>3 DEF named
<1>2. /\ q.published_after \in AtMostOne(Days) /\ q.published_before \in AtMostOne(Days)
      /\ q.announced_after \in AtMostOne(Days) /\ q.announced_before \in AtMostOne(Days)
  BY DEF Queries, Dates
<1>3. /\ From(r.published_at, q.published_after) <=>
           \A d \in q.published_after : \E t \in r.published_at : d <= DayOf(t)
      /\ From(r.announced_at, q.announced_after) <=>
           \A d \in q.announced_after : \E t \in r.announced_at : d <= DayOf(t)
  BY <1>2, RowDates, DatesMean
<1>4. /\ Through(r.published_at, q.published_before) <=>
           \A d \in q.published_before : \E t \in r.published_at : DayOf(t) <= d
      /\ Through(r.announced_at, q.announced_before) <=>
           \A d \in q.announced_before : \E t \in r.announced_at : DayOf(t) <= d
  BY <1>2, RowDates, DatesMean
<1> QED BY <1>1, <1>3, <1>4, Zenon DEF Matches

\* The filters mean what their descriptions say, for every calendar and every set of
\* values; only a value that is not legal is refused, and only the calendar's last
\* day as an end day breaks a request.
THEOREM FiltersMean == Spec => []FiltersMeanWhatTheySay
<1>1. AnswerInv => FiltersMeanWhatTheySay
  <2> SUFFICES ASSUME AnswerInv PROVE FiltersMeanWhatTheySay
    OBVIOUS
  <2>0. row \in Rows /\ query \in Queries /\ answer = Answer(row, query)
    BY DEF AnswerInv
  <2>1. answer = "error" => LastDay \in query.published_before \cup query.announced_before
    BY <2>0 DEF Answer, Overflows
  <2>2. ASSUME answer \in {"in", "out"}
        PROVE  Valid(query) /\ (answer = "in" <=> Matches(row, query))
    BY <2>0, <2>2 DEF Answer
  <2>5. answer = "refused" =>
          \E f \in Lists : \E e \in query[f] : \E x \in e.parts \ Legal(f) : e.comma => x # ""
    <3>1. SUFFICES ASSUME ~Valid(query)
          PROVE  \E f \in Lists : \E e \in query[f] : \E x \in e.parts \ Legal(f) :
                   e.comma => x # ""
      BY <2>0 DEF Answer
    <3>2. PICK f \in Lists : \E x \in Split(query[f]) : x \notin Legal(f)
      BY <3>1 DEF Valid
    <3>3. query[f] \in Raws(f)
      BY <2>0 DEF Queries
    <3> QED BY <3>2, <3>3, SplitIs
  <2>3. CASE answer \notin {"in", "out"}
    BY <2>1, <2>3, <2>5 DEF FiltersMeanWhatTheySay
  <2>4. CASE answer \in {"in", "out"}
    BY <2>0, <2>1, <2>2, <2>4, <2>5, MatchesMeans, Zenon DEF FiltersMeanWhatTheySay
  <2> QED BY <2>3, <2>4
<1> QED BY <1>1, AnswerInvariant, PTL

\* The days whose window takes an instant: its own day alone.
LEMMA OwnDayAlone ==
  ASSUME NEW column \in AtMostOne(Instants), NEW d \in Days
  PROVE  From(column, {d}) /\ Through(column, {d}) <=> d \in {DayOf(t) : t \in column}
<1>1. CASE column = {}
  BY <1>1 DEF From
<1>2. ASSUME NEW t \in Instants, column = {t}
      PROVE  From(column, {d}) /\ Through(column, {d}) <=> d \in {DayOf(u) : u \in column}
  <2>1. /\ From(column, {d}) <=> d <= DayOf(t)
        /\ Through(column, {d}) <=> DayOf(t) <= d
    BY <1>2, WholeDays DEF From, Through
  <2>2. d <= DayOf(t) /\ DayOf(t) <= d <=> d = DayOf(t)
    <3>1. DayOf(t) \in Days /\ LastDay \in Nat
      BY WholeDays, FiltersAssumption
    <3> QED BY <3>1 DEF Days
  <2> QED BY <1>2, <2>1, <2>2
<1> QED BY <1>1, <1>2 DEF AtMostOne

\* What the query of one day's window is, whichever the two dates it is set on.
LEMMA WindowAnswers ==
  ASSUME NEW r \in Rows, NEW d \in Days, NEW q,
         q \in [Lists \cup Dates -> SUBSET Days], \A f \in Lists : q[f] = {}
  PROVE  /\ Valid(q)
         /\ d = LastDay /\ (q.published_before = {d} \/ q.announced_before = {d})
              => Answer(r, q) = "error"
         /\ q.published_before \cup q.announced_before = {d} /\ d # LastDay
              => (Answer(r, q) = "in" <=>
                    /\ From(r.published_at, q.published_after)
                    /\ Through(r.published_at, q.published_before)
                    /\ From(r.announced_at, q.announced_after)
                    /\ Through(r.announced_at, q.announced_before))
<1>1. \A f \in Lists : Split(q[f]) = {} /\ Wanted(f, q) = {}
  BY DEF Split, Wanted
<1>2. Valid(q)
  BY <1>1 DEF Valid
<1>3. \A f \in Lists : AnyOf(r[f], Wanted(f, q))
  BY <1>1 DEF AnyOf
<1> QED BY <1>2, <1>3 DEF Answer, Overflows, Matches

\* Day windows partition the rows that have the date, however long the calendar and
\* whatever the row, save for its last day, whose window is an error.
THEOREM WindowsPartition == Spec => []DayWindowsPartition
<1> DEFINE Window(after, before, d) == [Unfiltered EXCEPT ![after] = {d}, ![before] = {d}]
<1>0. LastDay \in Days
  <2>1. LastDay \in Nat /\ LastDay # 0
    BY FiltersAssumption
  <2> QED BY <2>1 DEF Days
<1>1. ASSUME NEW r \in Rows, NEW d \in Days
      PROVE  LET q == Window("published_after", "published_before", d)
             IN /\ d = LastDay => Answer(r, q) = "error"
                /\ Answer(r, q) = "in"
                     <=> d \in {DayOf(t) : t \in r.published_at} \ {LastDay}
  <2> DEFINE q == Window("published_after", "published_before", d)
  <2>1. /\ q \in [Lists \cup Dates -> SUBSET Days] /\ \A f \in Lists : q[f] = {}
        /\ q.published_after = {d} /\ q.published_before = {d}
        /\ q.announced_after = {} /\ q.announced_before = {}
    BY DEF Unfiltered, Lists, Dates
  <2> HIDE DEF q
  <2>2. From(r.announced_at, {}) /\ Through(r.announced_at, {})
    BY DEF From, Through
  <2>3. From(r.published_at, {d}) /\ Through(r.published_at, {d})
          <=> d \in {DayOf(t) : t \in r.published_at}
    BY RowDates, OwnDayAlone
  <2>4. CASE d = LastDay
    BY <2>1, <2>4, WindowAnswers DEF q
  <2>5. CASE d # LastDay
    <3>1. q.published_before \cup q.announced_before = {d}
      BY <2>1
    <3>2. Answer(r, q) = "in" <=> From(r.published_at, {d}) /\ Through(r.published_at, {d})
      BY <2>1, <2>2, <2>5, <3>1, WindowAnswers
    <3>3. d \in {DayOf(t) : t \in r.published_at}
            <=> d \in {DayOf(t) : t \in r.published_at} \ {LastDay}
      BY <2>5
    <3> QED BY <2>3, <2>5, <3>2, <3>3 DEF q
  <2> QED BY <2>4, <2>5
<1>2. ASSUME NEW r \in Rows, NEW d \in Days
      PROVE  LET q == Window("announced_after", "announced_before", d)
             IN /\ d = LastDay => Answer(r, q) = "error"
                /\ Answer(r, q) = "in"
                     <=> d \in {DayOf(t) : t \in r.announced_at} \ {LastDay}
  <2> DEFINE q == Window("announced_after", "announced_before", d)
  <2>1. /\ q \in [Lists \cup Dates -> SUBSET Days] /\ \A f \in Lists : q[f] = {}
        /\ q.announced_after = {d} /\ q.announced_before = {d}
        /\ q.published_after = {} /\ q.published_before = {}
    BY DEF Unfiltered, Lists, Dates
  <2> HIDE DEF q
  <2>2. From(r.published_at, {}) /\ Through(r.published_at, {})
    BY DEF From, Through
  <2>3. From(r.announced_at, {d}) /\ Through(r.announced_at, {d})
          <=> d \in {DayOf(t) : t \in r.announced_at}
    BY RowDates, OwnDayAlone
  <2>4. CASE d = LastDay
    BY <2>1, <2>4, WindowAnswers DEF q
  <2>5. CASE d # LastDay
    <3>1. q.published_before \cup q.announced_before = {d}
      BY <2>1
    <3>2. Answer(r, q) = "in" <=> From(r.announced_at, {d}) /\ Through(r.announced_at, {d})
      BY <2>1, <2>2, <2>5, <3>1, WindowAnswers
    <3>3. d \in {DayOf(t) : t \in r.announced_at}
            <=> d \in {DayOf(t) : t \in r.announced_at} \ {LastDay}
      BY <2>5
    <3> QED BY <2>3, <2>5, <3>2, <3>3 DEF q
  <2> QED BY <2>4, <2>5
<1>3. ASSUME NEW r \in Rows
      PROVE  /\ {DayOf(t) : t \in r.published_at} \subseteq Days
             /\ {DayOf(t) : t \in r.announced_at} \subseteq Days
  <2>1. \A t \in Instants : DayOf(t) \in Days
    BY <1>0, WholeDays
  <2> QED BY <2>1, RowDates
<1> HIDE DEF Window
<1>4. AnswerInv => DayWindowsPartition
  <2> SUFFICES ASSUME row \in Rows PROVE DayWindowsPartition
    BY DEF AnswerInv
  <2>1. {d \in Days : Answer(row, Window("published_after", "published_before", d)) = "in"}
          = {DayOf(t) : t \in row.published_at} \ {LastDay}
    BY <1>1, <1>3
  <2>2. {d \in Days : Answer(row, Window("announced_after", "announced_before", d)) = "in"}
          = {DayOf(t) : t \in row.announced_at} \ {LastDay}
    BY <1>2, <1>3
  <2>3. /\ Answer(row, Window("published_after", "published_before", LastDay)) = "error"
        /\ Answer(row, Window("announced_after", "announced_before", LastDay)) = "error"
    BY <1>0, <1>1, <1>2
  <2> QED BY <2>1, <2>2, <2>3 DEF DayWindowsPartition, Window
<1> QED BY <1>4, AnswerInvariant, PTL

-----------------------------------------------------------------------------
\* A query that asks no more than another, field by field.
Looser(q, p) ==
  /\ \A f \in Lists : \/ Split(q[f]) = {}
                      \/ Split(p[f]) # {} /\ Split(p[f]) \subseteq Split(q[f])
  /\ \A f \in Dates : q[f] \subseteq p[f]

\* What the stricter query takes the looser one takes.
LEMMA LooserMatches ==
  ASSUME NEW r \in Rows, NEW q \in Queries, NEW p \in Queries, Looser(q, p), Matches(r, p)
  PROVE  Matches(r, q)
<1>1. ASSUME NEW f \in Lists PROVE AnyOf(r[f], Wanted(f, q))
  <2>0. AnyOf(r[f], Wanted(f, p))
    BY DEF Matches
  <2>1. CASE f = "distribution_state"
    <3>1. /\ Wanted(f, q) = {Upper(x) : x \in Split(q[f])}
          /\ Wanted(f, p) = {Upper(x) : x \in Split(p[f])}
      BY <2>1 DEF Wanted
    <3>2. CASE Split(q[f]) = {}
      BY <3>1, <3>2 DEF AnyOf
    <3>3. CASE Split(p[f]) # {} /\ Split(p[f]) \subseteq Split(q[f])
      <4>1. Wanted(f, p) # {} /\ Wanted(f, p) \subseteq Wanted(f, q)
        BY <3>1, <3>3
      <4> QED BY <2>0, <4>1 DEF AnyOf
    <3> QED BY <3>2, <3>3 DEF Looser
  <2>2. CASE f # "distribution_state"
    BY <2>0, <2>2 DEF Wanted, AnyOf, Looser
  <2> QED BY <2>1, <2>2
<1>2. /\ q.published_after \subseteq p.published_after
      /\ q.published_before \subseteq p.published_before
      /\ q.announced_after \subseteq p.announced_after
      /\ q.announced_before \subseteq p.announced_before
  BY DEF Looser, Dates
<1>3. /\ From(r.published_at, q.published_after)
      /\ Through(r.published_at, q.published_before)
      /\ From(r.announced_at, q.announced_after)
      /\ Through(r.announced_at, q.announced_before)
  BY <1>2, Zenon DEF Matches, From, Through
<1> QED BY <1>1, <1>3 DEF Matches

\* A filter newly set only takes rows away, and a value added to a list only brings
\* rows, whatever the row, the query and the values.
THEOREM FiltersRefine == Spec => Refines
<1>1. ASSUME AnswerInv, AnswerInv', [Next]_vars, NEW f \in Lists \cup Dates,
             \A g \in (Lists \cup Dates) \ {f} : query'[g] = query[g]
      PROVE  LET old == IF f \in Lists THEN Split(query[f]) ELSE query[f]
                 new == IF f \in Lists THEN Split(query'[f]) ELSE query'[f]
             IN /\ old = {} /\ answer' = "in" => answer # "out"
                /\ f \in Lists /\ old # {} /\ old \subseteq new /\ answer = "in"
                     => answer' # "out"
  <2> DEFINE old == IF f \in Lists THEN Split(query[f]) ELSE query[f]
             new == IF f \in Lists THEN Split(query'[f]) ELSE query'[f]
  <2>0. /\ row \in Rows /\ query \in Queries /\ query' \in Queries /\ row' = row
        /\ answer = Answer(row, query) /\ answer' = Answer(row, query')
    <3>1. row' = row
      BY <1>1 DEF Next, Ask, vars
    <3> QED BY <1>1, <3>1 DEF AnswerInv
  <2>1. /\ answer = "in" => Matches(row, query)
        /\ answer' = "in" => Matches(row, query')
        /\ answer = "out" => ~Matches(row, query)
        /\ answer' = "out" => ~Matches(row, query')
    BY <2>0 DEF Answer
  <2>2. Lists \cap Dates = {}
    BY DEF Lists, Dates
  <2>3. ASSUME old = {} PROVE Looser(query, query')
    BY <1>1, <2>2, <2>3 DEF Looser
  <2>4. ASSUME f \in Lists, old # {}, old \subseteq new PROVE Looser(query', query)
    BY <1>1, <2>2, <2>4 DEF Looser
  <2> HIDE DEF old, new
  <2>5. old = {} /\ answer' = "in" => answer # "out"
    BY <2>0, <2>1, <2>3, LooserMatches
  <2>6. f \in Lists /\ old # {} /\ old \subseteq new /\ answer = "in" => answer' # "out"
    BY <2>0, <2>1, <2>4, LooserMatches
  <2> QED BY <2>5, <2>6 DEF old, new
<1>2. AnswerInv /\ AnswerInv' /\ [Next]_vars =>
        \A f \in Lists \cup Dates :
          LET others == \A g \in (Lists \cup Dates) \ {f} : query'[g] = query[g]
              old == IF f \in Lists THEN Split(query[f]) ELSE query[f]
              new == IF f \in Lists THEN Split(query'[f]) ELSE query'[f]
          IN others =>
               /\ old = {} /\ answer' = "in" => answer # "out"
               /\ f \in Lists /\ old # {} /\ old \subseteq new /\ answer = "in"
                    => answer' # "out"
  BY <1>1
<1> QED BY <1>2, AnswerInvariant, PTL DEF Spec, Refines
=============================================================================
