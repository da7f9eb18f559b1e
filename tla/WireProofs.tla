------------------------------ MODULE WireProofs ------------------------------
(***************************************************************************)
(* Why every row a mart may hold is served, for all combinations of values *)
(* in its columns, lists of every length, and any number of fields that    *)
(* drift at once.                                                          *)
(***************************************************************************)
EXTENDS Wire, TLAPS

Flattened == {"product_upcs", "recall_product_upcs"}
Listed == RecallLists \cup FirmLists

\* A column fits the field it is served as: every value it may hold parses, and so does
\* what the validators make of its NULL.
Suits(f, column, field) ==
  \/ /\ column.type \notin DOMAIN ItemTypes \cup {"null", "list", "rejected"}
     /\ f \notin Flattened \cup Listed \cup KeptNull
     /\ field.kind \in DOMAIN Parses /\ column.type \in Parses[field.kind]
     /\ column.null => field.null \/ f = "recalls_by_source"
     /\ f = "recalls_by_source" <=> column.type = "counts"
  \/ /\ column.type \in DOMAIN ItemTypes
     /\ field.kind \in DOMAIN ParsesItems
     /\ \/ f \in Flattened \ KeptNull /\ column.type = "upcs" /\ field.kind = "strings"
        \/ /\ f \in Listed \ (Flattened \cup KeptNull)
           /\ ItemTypes[column.type] \subseteq ParsesItems[field.kind]
        \/ /\ f \in KeptNull \ (Flattened \cup Listed) /\ field.null
           /\ ItemTypes[column.type] \subseteq ParsesItems[field.kind]

\* A statement selects every column its model has a field for, each fits its field, and
\* the other fields have a value from the statement or a default.
Suited(stmt) ==
  LET columns == Marts[stmt.mart] IN
    /\ stmt.cols \subseteq DOMAIN columns
    /\ \A f \in DOMAIN stmt.model :
         IF f \in DOMAIN columns THEN f \in stmt.cols /\ Suits(f, columns[f], stmt.model[f])
         ELSE IF f \in DOMAIN stmt.computed
           THEN Parse(stmt.model[f], Prepared(f, stmt.computed[f])) # Rejected
         ELSE stmt.model[f].default # Rejected

-----------------------------------------------------------------------------
LEMMA Parsed ==
  ASSUME NEW f, NEW column, NEW field, NEW v, Suits(f, column, field), Holds(column, v)
  PROVE  LET p == Parse(field, Prepared(f, v)) IN
           /\ p # Rejected
           /\ v # Null => p.is = v.is /\ DOMAIN p.items = DOMAIN v.items
           /\ v = Null => p = ServedForNull(f, column.type)
<1> USE DEF Null, Rejected, Scalar, ListOf, Empty
<1>1. CASE v = Null
  <2>1. column.null
    BY <1>1 DEF Holds, Suits
  <2>2. CASE column.type \notin DOMAIN ItemTypes
    BY <1>1, <2>1, <2>2 DEF Suits, Prepared, Parse, ServedForNull, Flattened, Listed, Parses
  <2>3. CASE column.type \in DOMAIN ItemTypes /\ f \in Flattened
    <3>1. f \notin KeptNull /\ field.kind = "strings"
      BY <2>3 DEF Suits
    <3>2. Prepared(f, v) = Empty
      BY <1>1, <2>3 DEF Prepared, Flattened, flatten_upcs
    <3>3. Parse(field, Empty) = Empty
      BY <3>1 DEF Parse, ParsesItems
    <3> QED BY <1>1, <2>3, <3>1, <3>2, <3>3 DEF ServedForNull
  <2>4. CASE column.type \in DOMAIN ItemTypes /\ f \in Listed \ Flattened
    <3>1. f \notin KeptNull /\ field.kind \in DOMAIN ParsesItems
      BY <2>4 DEF Suits
    <3>2. Prepared(f, v) = Empty
      BY <1>1, <2>4 DEF Prepared, Flattened, Listed
    <3>3. Parse(field, Empty) = Empty
      BY <3>1 DEF Parse
    <3> QED BY <1>1, <2>4, <3>1, <3>2, <3>3 DEF ServedForNull
  <2>5. CASE column.type \in DOMAIN ItemTypes /\ f \notin Listed \cup Flattened
    <3>1. f \in KeptNull /\ field.null
      BY <2>5 DEF Suits
    <3>2. Prepared(f, v) = Null
      BY <1>1, <2>5, <3>1 DEF Prepared, Flattened, Listed, KeptNull
    <3>3. Parse(field, Null) = Null
      BY <3>1 DEF Parse
    <3> QED BY <1>1, <2>5, <3>1, <3>2, <3>3 DEF ServedForNull
  <2> QED BY <2>2, <2>3, <2>4, <2>5
<1>2. CASE v = Scalar(column.type) /\ v # Null /\ column.type \notin DOMAIN ItemTypes
  <2>1. /\ column.type \notin {"null", "list", "rejected"}
        /\ f \notin Flattened \cup Listed
        /\ field.kind \in DOMAIN Parses /\ column.type \in Parses[field.kind]
    BY <1>2 DEF Suits
  <2>2. Prepared(f, v) = v
    BY <1>2, <2>1 DEF Prepared, Flattened, Listed
  <2>3. v.is = column.type
    BY <1>2
  <2>4. Parse(field, v) = v
    BY <2>1, <2>3 DEF Parse
  <2> QED BY <1>2, <2>1, <2>2, <2>3, <2>4
<1>3. CASE /\ column.type \in DOMAIN ItemTypes
           /\ v = ListOf(v.items) /\ v.items \in Seq(ItemTypes[column.type])
  <2>1. /\ v # Null /\ v.is = "list"
        /\ \A i \in DOMAIN v.items : v.items[i] \in ItemTypes[column.type]
    BY <1>3
  <2>2. CASE f \in Flattened /\ column.type = "upcs" /\ field.kind = "strings"
    <3>1. flatten_upcs(v) = ListOf([i \in DOMAIN v.items |->
                                      IF v.items[i] = "upc" THEN "text" ELSE v.items[i]])
      BY <1>3, <2>1 DEF flatten_upcs
    <3> QED BY <2>1, <2>2, <3>1 DEF Prepared, Parse, Flattened, ParsesItems, ItemTypes
  <2>3. CASE f \notin Flattened /\ ItemTypes[column.type] \subseteq ParsesItems[field.kind]
    BY <1>3, <2>1, <2>3 DEF Suits, Prepared, Parse, Flattened, ParsesItems
  <2> QED BY <1>3, <2>2, <2>3 DEF Suits
<1> QED BY <1>1, <1>2, <1>3 DEF Holds

-----------------------------------------------------------------------------
\* Every field of the model has a column that fits it: so a statement over all of a mart.
LEMMA WholeSuited ==
  ASSUME NEW from \in DOMAIN Marts, NEW model,
         \A f \in DOMAIN model :
            f \in DOMAIN Marts[from] /\ Suits(f, Marts[from][f], model[f])
  PROVE  Suited(Whole(from, model))
BY DEF Suited, Whole, Reads

\* The counts by period.
LEMMA PeriodsSuited == Suited(Whole("fct_by_period", PeriodCount))
<1>1. \A f \in DOMAIN PeriodCount :
        f \in DOMAIN fct_by_period /\ Suits(f, fct_by_period[f], PeriodCount[f])
  BY DEF fct_by_period, PeriodCount, Suits, Flattened, Listed, KeptNull, RecallLists,
     FirmLists, ItemTypes, Parses, ParsesItems, Required, Optional, NotNull, Nullable, ++
<1> QED BY <1>1, WholeSuited DEF Marts

\* The trend by month.
LEMMA TrendSuited == Suited(Whole("fct_monthly_trend", MonthlyTrendPoint))
<1>1. \A f \in DOMAIN MonthlyTrendPoint :
        f \in DOMAIN fct_monthly_trend /\ Suits(f, fct_monthly_trend[f], MonthlyTrendPoint[f])
  BY DEF fct_monthly_trend, MonthlyTrendPoint, Suits, Flattened, Listed, KeptNull, RecallLists,
     FirmLists, ItemTypes, Parses, ParsesItems, Required, Optional, NotNull, Nullable, ++
<1> QED BY <1>1, WholeSuited DEF Marts

\* The counts by classification.
LEMMA ClassificationsSuited == Suited(Whole("fct_classification", ClassificationCount))
<1>1. \A f \in DOMAIN ClassificationCount :
        f \in DOMAIN fct_classification /\ Suits(f, fct_classification[f], ClassificationCount[f])
  BY DEF fct_classification, ClassificationCount, Suits, Flattened, Listed, KeptNull, RecallLists,
     FirmLists, ItemTypes, Parses, ParsesItems, Required, Optional, NotNull, Nullable, ++
<1> QED BY <1>1, WholeSuited DEF Marts

\* The counts by status.
LEMMA StatusesSuited == Suited(Whole("fct_status", StatusCount))
<1>1. \A f \in DOMAIN StatusCount :
        f \in DOMAIN fct_status /\ Suits(f, fct_status[f], StatusCount[f])
  BY DEF fct_status, StatusCount, Suits, Flattened, Listed, KeptNull, RecallLists,
     FirmLists, ItemTypes, Parses, ParsesItems, Required, Optional, NotNull, Nullable, ++
<1> QED BY <1>1, WholeSuited DEF Marts

\* The counts by state.
LEMMA GeographySuited == Suited(Whole("fct_geography", GeographyCount))
<1>1. \A f \in DOMAIN GeographyCount :
        f \in DOMAIN fct_geography /\ Suits(f, fct_geography[f], GeographyCount[f])
  BY DEF fct_geography, GeographyCount, Suits, Flattened, Listed, KeptNull, RecallLists,
     FirmLists, ItemTypes, Parses, ParsesItems, Required, Optional, NotNull, Nullable, ++
<1> QED BY <1>1, WholeSuited DEF Marts

\* The counts by country.
LEMMA CountriesSuited == Suited(Whole("fct_country", CountryCount))
<1>1. \A f \in DOMAIN CountryCount :
        f \in DOMAIN fct_country /\ Suits(f, fct_country[f], CountryCount[f])
  BY DEF fct_country, CountryCount, Suits, Flattened, Listed, KeptNull, RecallLists,
     FirmLists, ItemTypes, Parses, ParsesItems, Required, Optional, NotNull, Nullable, ++
<1> QED BY <1>1, WholeSuited DEF Marts

\* The leading firms.
LEMMA LeadersSuited == Suited(Whole("fct_firm", FirmLeaderRow))
<1>1. ASSUME NEW f \in {"firm_id", "canonical_name"}
      PROVE  f \in DOMAIN fct_firm /\ Suits(f, fct_firm[f], FirmLeaderRow[f])
  <2>1. f \in DOMAIN fct_firm /\ fct_firm[f] = NotNull("text")
    BY DEF fct_firm, ++
  <2>2. FirmLeaderRow[f] = Required("str")
    BY DEF FirmLeaderRow, ++
  <2>3. Suits(f, NotNull("text"), Required("str"))
    BY DEF Suits, Flattened, Listed, KeptNull, RecallLists, FirmLists, ItemTypes,
       Parses, ParsesItems, Required, Optional, Default, NotNull, Nullable
  <2> QED BY <2>1, <2>2, <2>3
<1>2. ASSUME NEW f \in {"event_count", "active_recalls", "product_count",
                        "event_count_rank"}
      PROVE  f \in DOMAIN fct_firm /\ Suits(f, fct_firm[f], FirmLeaderRow[f])
  <2>1. f \in DOMAIN fct_firm /\ fct_firm[f] = NotNull("bigint")
    BY DEF fct_firm, ++
  <2>2. FirmLeaderRow[f] = Required("int")
    BY DEF FirmLeaderRow, ++
  <2>3. Suits(f, NotNull("bigint"), Required("int"))
    BY DEF Suits, Flattened, Listed, KeptNull, RecallLists, FirmLists, ItemTypes,
       Parses, ParsesItems, Required, Optional, Default, NotNull, Nullable
  <2> QED BY <2>1, <2>2, <2>3
<1>3. ASSUME NEW f \in {"first_recall_at", "last_recall_at"}
      PROVE  f \in DOMAIN fct_firm /\ Suits(f, fct_firm[f], FirmLeaderRow[f])
  <2>1. f \in DOMAIN fct_firm /\ fct_firm[f] = Nullable("stamp")
    BY DEF fct_firm, ++
  <2>2. FirmLeaderRow[f] = Optional("datetime")
    BY DEF FirmLeaderRow, ++
  <2>3. Suits(f, Nullable("stamp"), Optional("datetime"))
    BY DEF Suits, Flattened, Listed, KeptNull, RecallLists, FirmLists, ItemTypes,
       Parses, ParsesItems, Required, Optional, Default, NotNull, Nullable
  <2> QED BY <2>1, <2>2, <2>3
<1>4. DOMAIN FirmLeaderRow =
        {"firm_id", "canonical_name", "event_count", "active_recalls",
         "product_count", "event_count_rank", "first_recall_at", "last_recall_at"}
  BY DEF FirmLeaderRow, ++
<1> QED
  BY <1>1, <1>2, <1>3, <1>4, WholeSuited DEF Marts

\* The units by period.
LEMMA UnitsSuited == Suited(Whole("fct_units", UnitsRow))
<1>1. ASSUME NEW f \in {"source", "unit_category"}
      PROVE  f \in DOMAIN fct_units /\ Suits(f, fct_units[f], UnitsRow[f])
  <2>1. f \in DOMAIN fct_units /\ fct_units[f] = NotNull("text")
    BY DEF fct_units, ++
  <2>2. UnitsRow[f] = Required("str")
    BY DEF UnitsRow, ++
  <2>3. Suits(f, NotNull("text"), Required("str"))
    BY DEF Suits, Flattened, Listed, KeptNull, RecallLists, FirmLists, ItemTypes,
       Parses, ParsesItems, Required, Optional, Default, NotNull, Nullable
  <2> QED BY <2>1, <2>2, <2>3
<1>2. ASSUME NEW f, f = "period"
      PROVE  f \in DOMAIN fct_units /\ Suits(f, fct_units[f], UnitsRow[f])
  <2>1. f \in DOMAIN fct_units /\ fct_units[f] = NotNull("day")
    BY <1>2 DEF fct_units, ++
  <2>2. UnitsRow[f] = Required("date")
    BY <1>2 DEF UnitsRow, ++
  <2>3. Suits(f, NotNull("day"), Required("date"))
    BY <1>2 DEF Suits, Flattened, Listed, KeptNull, RecallLists, FirmLists, ItemTypes,
       Parses, ParsesItems, Required, Optional, Default, NotNull, Nullable
  <2> QED BY <2>1, <2>2, <2>3
<1>3. ASSUME NEW f, f = "recalls_with_units"
      PROVE  f \in DOMAIN fct_units /\ Suits(f, fct_units[f], UnitsRow[f])
  <2>1. f \in DOMAIN fct_units /\ fct_units[f] = NotNull("bigint")
    BY <1>3 DEF fct_units, ++
  <2>2. UnitsRow[f] = Required("int")
    BY <1>3 DEF UnitsRow, ++
  <2>3. Suits(f, NotNull("bigint"), Required("int"))
    BY <1>3 DEF Suits, Flattened, Listed, KeptNull, RecallLists, FirmLists, ItemTypes,
       Parses, ParsesItems, Required, Optional, Default, NotNull, Nullable
  <2> QED BY <2>1, <2>2, <2>3
<1>4. ASSUME NEW f \in {"total_units", "avg_units_per_recall", "max_units"}
      PROVE  f \in DOMAIN fct_units /\ Suits(f, fct_units[f], UnitsRow[f])
  <2>1. f \in DOMAIN fct_units /\ fct_units[f] = NotNull("numeric")
    BY DEF fct_units, ++
  <2>2. UnitsRow[f] = Required("float")
    BY DEF UnitsRow, ++
  <2>3. Suits(f, NotNull("numeric"), Required("float"))
    BY DEF Suits, Flattened, Listed, KeptNull, RecallLists, FirmLists, ItemTypes,
       Parses, ParsesItems, Required, Optional, Default, NotNull, Nullable
  <2> QED BY <2>1, <2>2, <2>3
<1>5. DOMAIN UnitsRow =
        {"source", "unit_category", "period", "recalls_with_units", "total_units",
         "avg_units_per_recall", "max_units"}
  BY DEF UnitsRow, ++
<1> QED
  BY <1>1, <1>2, <1>3, <1>4, <1>5, WholeSuited DEF Marts

\* The profile of a firm.
LEMMA FirmSuited == Suited(Whole("firm_profile", FirmProfile))
<1>1. ASSUME NEW f \in {"firm_id", "canonical_name", "normalized_name"}
      PROVE  f \in DOMAIN firm_profile /\ Suits(f, firm_profile[f], FirmProfile[f])
  <2>1. f \in DOMAIN firm_profile /\ firm_profile[f] = NotNull("text")
    BY DEF firm_profile, ++
  <2>2. FirmProfile[f] = Required("str")
    BY DEF FirmProfile, ++
  <2>3. Suits(f, NotNull("text"), Required("str"))
    BY DEF Suits, Flattened, Listed, KeptNull, RecallLists, FirmLists, ItemTypes,
       Parses, ParsesItems, Required, Optional, Default, NotNull, Nullable
  <2> QED BY <2>1, <2>2, <2>3
<1>2. ASSUME NEW f \in {"observed_names", "observed_company_ids",
                        "alternate_names", "roles"}
      PROVE  f \in DOMAIN firm_profile /\ Suits(f, firm_profile[f], FirmProfile[f])
  <2>1. f \in DOMAIN firm_profile /\ firm_profile[f] = Nullable("names")
    BY DEF firm_profile, ++
  <2>2. FirmProfile[f] = Default("strings", Empty)
    BY DEF FirmProfile, ++
  <2>3. Suits(f, Nullable("names"), Default("strings", Empty))
    BY DEF Suits, Flattened, Listed, KeptNull, RecallLists, FirmLists, ItemTypes,
       Parses, ParsesItems, Required, Optional, Default, NotNull, Nullable
  <2> QED BY <2>1, <2>2, <2>3
<1>3. ASSUME NEW f \in {"firm_usda_attributes", "firm_uscg_attributes",
                        "firm_fda_attributes"}
      PROVE  f \in DOMAIN firm_profile /\ Suits(f, firm_profile[f], FirmProfile[f])
  <2>1. f \in DOMAIN firm_profile /\ firm_profile[f] = Nullable("rows")
    BY DEF firm_profile, ++
  <2>2. FirmProfile[f] = Default("records", Empty)
    BY DEF FirmProfile, ++
  <2>3. Suits(f, Nullable("rows"), Default("records", Empty))
    BY DEF Suits, Flattened, Listed, KeptNull, RecallLists, FirmLists, ItemTypes,
       Parses, ParsesItems, Required, Optional, Default, NotNull, Nullable
  <2> QED BY <2>1, <2>2, <2>3
<1>4. ASSUME NEW f \in {"total_recalls", "active_recalls"}
      PROVE  f \in DOMAIN firm_profile /\ Suits(f, firm_profile[f], FirmProfile[f])
  <2>1. f \in DOMAIN firm_profile /\ firm_profile[f] = NotNull("bigint")
    BY DEF firm_profile, ++
  <2>2. FirmProfile[f] = Default("int", Scalar("zero"))
    BY DEF FirmProfile, ++
  <2>3. Suits(f, NotNull("bigint"), Default("int", Scalar("zero")))
    BY DEF Suits, Flattened, Listed, KeptNull, RecallLists, FirmLists, ItemTypes,
       Parses, ParsesItems, Required, Optional, Default, NotNull, Nullable
  <2> QED BY <2>1, <2>2, <2>3
<1>5. ASSUME NEW f, f = "distinct_products"
      PROVE  f \in DOMAIN firm_profile /\ Suits(f, firm_profile[f], FirmProfile[f])
  <2>1. f \in DOMAIN firm_profile /\ firm_profile[f] = NotNull("whole")
    BY <1>5 DEF firm_profile, ++
  <2>2. FirmProfile[f] = Default("int", Scalar("zero"))
    BY <1>5 DEF FirmProfile, ++
  <2>3. Suits(f, NotNull("whole"), Default("int", Scalar("zero")))
    BY <1>5 DEF Suits, Flattened, Listed, KeptNull, RecallLists, FirmLists, ItemTypes,
       Parses, ParsesItems, Required, Optional, Default, NotNull, Nullable
  <2> QED BY <2>1, <2>2, <2>3
<1>6. ASSUME NEW f \in {"first_recall_at", "last_recall_at"}
      PROVE  f \in DOMAIN firm_profile /\ Suits(f, firm_profile[f], FirmProfile[f])
  <2>1. f \in DOMAIN firm_profile /\ firm_profile[f] = Nullable("stamp")
    BY DEF firm_profile, ++
  <2>2. FirmProfile[f] = Optional("datetime")
    BY DEF FirmProfile, ++
  <2>3. Suits(f, Nullable("stamp"), Optional("datetime"))
    BY DEF Suits, Flattened, Listed, KeptNull, RecallLists, FirmLists, ItemTypes,
       Parses, ParsesItems, Required, Optional, Default, NotNull, Nullable
  <2> QED BY <2>1, <2>2, <2>3
<1>7. ASSUME NEW f, f = "recalls_by_source"
      PROVE  f \in DOMAIN firm_profile /\ Suits(f, firm_profile[f], FirmProfile[f])
  <2>1. f \in DOMAIN firm_profile /\ firm_profile[f] = Nullable("counts")
    BY <1>7 DEF firm_profile, ++
  <2>2. FirmProfile[f] = Default("dict", Scalar("counts"))
    BY <1>7 DEF FirmProfile, ++
  <2>3. Suits(f, Nullable("counts"), Default("dict", Scalar("counts")))
    BY <1>7 DEF Suits, Flattened, Listed, KeptNull, RecallLists, FirmLists, ItemTypes,
       Parses, ParsesItems, Required, Optional, Default, NotNull, Nullable
  <2> QED BY <2>1, <2>2, <2>3
<1>8. DOMAIN FirmProfile =
        {"firm_id", "canonical_name", "normalized_name", "observed_names",
         "observed_company_ids", "alternate_names", "roles",
         "firm_usda_attributes", "firm_uscg_attributes", "firm_fda_attributes",
         "total_recalls", "active_recalls", "distinct_products", "first_recall_at",
         "last_recall_at", "recalls_by_source"}
  BY DEF FirmProfile, ++
<1> QED
  BY <1>1, <1>2, <1>3, <1>4, <1>5, <1>6, <1>7, <1>8, WholeSuited DEF Marts

\* The number of recalls and firms; the sources are a constant of the program.
LEMMA OverviewSuited ==
  Suited(Reads("overview", DOMAIN overview, [sources |-> ListOf(<<"text">>)], StatsOverview))
<1>1. \A f \in DOMAIN StatsOverview \ {"sources"} :
        f \in DOMAIN overview /\ Suits(f, overview[f], StatsOverview[f])
  BY DEF overview, StatsOverview, Suits, Flattened, Listed, KeptNull, RecallLists,
     FirmLists, ItemTypes, Parses, ParsesItems, Required, Optional, NotNull, Nullable
<1>2. Prepared("sources", ListOf(<<"text">>)) = ListOf(<<"text">>)
  BY DEF Prepared, RecallLists, FirmLists
<1>3. Parse(StatsOverview["sources"], ListOf(<<"text">>)) # Rejected
  BY DEF Parse, StatsOverview, Required, ParsesItems, ListOf, Rejected, Scalar
<1>4. "sources" \notin DOMAIN overview
  BY DEF overview
<1> QED BY <1>1, <1>2, <1>3, <1>4 DEF Suited, Reads, Marts

\* The columns of a recall in a list.
LEMMA SummaryFits ==
  \A f \in DOMAIN RecallSummary :
    f \in ListCols /\ f \in DOMAIN recall_summary
    /\ Suits(f, recall_summary[f], RecallSummary[f])
<1>1. ASSUME NEW f \in {"recall_event_id", "source_recall_id",
                        "distribution_scope"}
      PROVE  f \in ListCols /\ f \in DOMAIN recall_summary
             /\ Suits(f, recall_summary[f], RecallSummary[f])
  <2>1. f \in ListCols /\ f \in DOMAIN recall_summary /\ recall_summary[f] = NotNull("text")
    BY DEF ListCols, recall_summary, ++
  <2>2. RecallSummary[f] = Required("str")
    BY DEF RecallSummary, ++
  <2>3. Suits(f, NotNull("text"), Required("str"))
    BY DEF Suits, Flattened, Listed, KeptNull, RecallLists, FirmLists, ItemTypes,
       Parses, ParsesItems, Required, Optional, Default, NotNull, Nullable
  <2> QED BY <2>1, <2>2, <2>3
<1>2. ASSUME NEW f \in {"title", "url", "classification", "risk_level",
                        "lifecycle_status", "reason_category", "primary_firm_name"}
      PROVE  f \in ListCols /\ f \in DOMAIN recall_summary
             /\ Suits(f, recall_summary[f], RecallSummary[f])
  <2>1. f \in ListCols /\ f \in DOMAIN recall_summary /\ recall_summary[f] = Nullable("text")
    BY DEF ListCols, recall_summary, ++
  <2>2. RecallSummary[f] = Optional("str")
    BY DEF RecallSummary, ++
  <2>3. Suits(f, Nullable("text"), Optional("str"))
    BY DEF Suits, Flattened, Listed, KeptNull, RecallLists, FirmLists, ItemTypes,
       Parses, ParsesItems, Required, Optional, Default, NotNull, Nullable
  <2> QED BY <2>1, <2>2, <2>3
<1>3. ASSUME NEW f, f = "source"
      PROVE  f \in ListCols /\ f \in DOMAIN recall_summary
             /\ Suits(f, recall_summary[f], RecallSummary[f])
  <2>1. f \in ListCols /\ f \in DOMAIN recall_summary /\ recall_summary[f] = NotNull("agency")
    BY <1>3 DEF ListCols, recall_summary, ++
  <2>2. RecallSummary[f] = Required("Source")
    BY <1>3 DEF RecallSummary, ++
  <2>3. Suits(f, NotNull("agency"), Required("Source"))
    BY <1>3 DEF Suits, Flattened, Listed, KeptNull, RecallLists, FirmLists, ItemTypes,
       Parses, ParsesItems, Required, Optional, Default, NotNull, Nullable
  <2> QED BY <2>1, <2>2, <2>3
<1>4. ASSUME NEW f, f = "announced_at"
      PROVE  f \in ListCols /\ f \in DOMAIN recall_summary
             /\ Suits(f, recall_summary[f], RecallSummary[f])
  <2>1. f \in ListCols /\ f \in DOMAIN recall_summary /\ recall_summary[f] = Nullable("stamp")
    BY <1>4 DEF ListCols, recall_summary, ++
  <2>2. RecallSummary[f] = Optional("datetime")
    BY <1>4 DEF RecallSummary, ++
  <2>3. Suits(f, Nullable("stamp"), Optional("datetime"))
    BY <1>4 DEF Suits, Flattened, Listed, KeptNull, RecallLists, FirmLists, ItemTypes,
       Parses, ParsesItems, Required, Optional, Default, NotNull, Nullable
  <2> QED BY <2>1, <2>2, <2>3
<1>5. ASSUME NEW f \in {"published_at", "event_date"}
      PROVE  f \in ListCols /\ f \in DOMAIN recall_summary
             /\ Suits(f, recall_summary[f], RecallSummary[f])
  <2>1. f \in ListCols /\ f \in DOMAIN recall_summary /\ recall_summary[f] = NotNull("stamp")
    BY DEF ListCols, recall_summary, ++
  <2>2. RecallSummary[f] = Required("datetime")
    BY DEF RecallSummary, ++
  <2>3. Suits(f, NotNull("stamp"), Required("datetime"))
    BY DEF Suits, Flattened, Listed, KeptNull, RecallLists, FirmLists, ItemTypes,
       Parses, ParsesItems, Required, Optional, Default, NotNull, Nullable
  <2> QED BY <2>1, <2>2, <2>3
<1>6. ASSUME NEW f, f = "is_active"
      PROVE  f \in ListCols /\ f \in DOMAIN recall_summary
             /\ Suits(f, recall_summary[f], RecallSummary[f])
  <2>1. f \in ListCols /\ f \in DOMAIN recall_summary /\ recall_summary[f] = Nullable("flag")
    BY <1>6 DEF ListCols, recall_summary, ++
  <2>2. RecallSummary[f] = Optional("bool")
    BY <1>6 DEF RecallSummary, ++
  <2>3. Suits(f, Nullable("flag"), Optional("bool"))
    BY <1>6 DEF Suits, Flattened, Listed, KeptNull, RecallLists, FirmLists, ItemTypes,
       Parses, ParsesItems, Required, Optional, Default, NotNull, Nullable
  <2> QED BY <2>1, <2>2, <2>3
<1>7. ASSUME NEW f, f = "has_been_edited"
      PROVE  f \in ListCols /\ f \in DOMAIN recall_summary
             /\ Suits(f, recall_summary[f], RecallSummary[f])
  <2>1. f \in ListCols /\ f \in DOMAIN recall_summary /\ recall_summary[f] = NotNull("flag")
    BY <1>7 DEF ListCols, recall_summary, ++
  <2>2. RecallSummary[f] = Default("bool", Scalar("false"))
    BY <1>7 DEF RecallSummary, ++
  <2>3. Suits(f, NotNull("flag"), Default("bool", Scalar("false")))
    BY <1>7 DEF Suits, Flattened, Listed, KeptNull, RecallLists, FirmLists, ItemTypes,
       Parses, ParsesItems, Required, Optional, Default, NotNull, Nullable
  <2> QED BY <2>1, <2>2, <2>3
<1>8. ASSUME NEW f \in {"firm_count", "product_count"}
      PROVE  f \in ListCols /\ f \in DOMAIN recall_summary
             /\ Suits(f, recall_summary[f], RecallSummary[f])
  <2>1. f \in ListCols /\ f \in DOMAIN recall_summary /\ recall_summary[f] = NotNull("bigint")
    BY DEF ListCols, recall_summary, ++
  <2>2. RecallSummary[f] = Default("int", Scalar("zero"))
    BY DEF RecallSummary, ++
  <2>3. Suits(f, NotNull("bigint"), Default("int", Scalar("zero")))
    BY DEF Suits, Flattened, Listed, KeptNull, RecallLists, FirmLists, ItemTypes,
       Parses, ParsesItems, Required, Optional, Default, NotNull, Nullable
  <2> QED BY <2>1, <2>2, <2>3
<1>9. DOMAIN RecallSummary =
        {"recall_event_id", "source_recall_id", "distribution_scope", "title",
         "url", "classification", "risk_level", "lifecycle_status",
         "reason_category", "primary_firm_name", "source", "announced_at",
         "published_at", "event_date", "is_active", "has_been_edited",
         "firm_count", "product_count"}
  BY DEF RecallSummary, ++
<1> QED BY <1>1, <1>2, <1>3, <1>4, <1>5, <1>6, <1>7, <1>8, <1>9

\* Columns a list leaves out are not missed.
LEMMA ListColsSelect == ListCols \subseteq DOMAIN Marts["recall_summary"]
BY DEF ListCols, recall_summary, Marts, ++

\* The list of recalls.
LEMMA ListSuited ==
  Suited(Reads("recall_summary", ListCols, NoneMore, RecallSummary))
BY SummaryFits, ListColsSelect DEF Suited, Reads, Marts

\* A rank that a statement computes parses.
LEMMA RankParses ==
  ASSUME NEW field, field.kind = "float"
  PROVE  /\ "rank" \in DOMAIN Rank
         /\ Parse(field, Prepared("rank", Rank["rank"])) # Rejected
<1>1. Prepared("rank", Scalar("numeric")) = Scalar("numeric")
  BY DEF Prepared, RecallLists, FirmLists
<1>2. Parse(field, Scalar("numeric")) = Scalar("numeric")
  BY DEF Parse, Scalar, Parses
<1> QED BY <1>1, <1>2 DEF Rank, Scalar, Rejected

\* The search of recalls.
LEMMA SearchSuited ==
  Suited(Reads("recall_summary", ListCols, Rank, RecallSearchHit))
<1>1. /\ DOMAIN RecallSearchHit = DOMAIN RecallSummary \cup {"rank"}
      /\ \A f \in DOMAIN RecallSummary : RecallSearchHit[f] = RecallSummary[f]
  BY DEF RecallSearchHit, ++
<1>2. "rank" \notin DOMAIN RecallSummary /\ "rank" \notin DOMAIN recall_summary
  BY DEF RecallSummary, recall_summary, ++
<1>3. RecallSearchHit["rank"].kind = "float"
  BY <1>2 DEF RecallSearchHit, ++, Required
<1>4. Parse(RecallSearchHit["rank"], Prepared("rank", Rank["rank"])) # Rejected
  BY <1>3, RankParses
<1>5. "rank" \in DOMAIN Rank
  BY DEF Rank
<1> QED BY <1>1, <1>2, <1>4, <1>5, SummaryFits, ListColsSelect DEF Suited, Reads, Marts

\* The columns only a detail has.
LEMMA DetailFits ==
  \A f \in DOMAIN RecallDetail \ DOMAIN RecallSummary :
    f \in DOMAIN recall_summary /\ Suits(f, recall_summary[f], RecallDetail[f])
<1>1. ASSUME NEW f \in {"recall_reason", "corrective_action",
                        "consequence_of_defect", "distribution_states"}
      PROVE  f \in DOMAIN recall_summary /\ Suits(f, recall_summary[f], RecallDetail[f])
  <2>1. f \in DOMAIN recall_summary /\ recall_summary[f] = Nullable("text")
    BY DEF recall_summary, ++
  <2>2. f \notin DOMAIN RecallSummary
    BY DEF RecallSummary, ++
  <2>3. RecallDetail[f] = Optional("str")
    BY <2>2 DEF RecallDetail, ++
  <2>4. Suits(f, Nullable("text"), Optional("str"))
    BY DEF Suits, Flattened, Listed, KeptNull, RecallLists, FirmLists, ItemTypes,
       Parses, ParsesItems, Required, Optional, Default, NotNull, Nullable
  <2> QED BY <2>1, <2>3, <2>4
<1>2. ASSUME NEW f \in {"distribution_state_codes", "distribution_country_codes"}
      PROVE  f \in DOMAIN recall_summary /\ Suits(f, recall_summary[f], RecallDetail[f])
  <2>1. f \in DOMAIN recall_summary /\ recall_summary[f] = Nullable("names")
    BY DEF recall_summary, ++
  <2>2. f \notin DOMAIN RecallSummary
    BY DEF RecallSummary, ++
  <2>3. RecallDetail[f] = Optional("strings")
    BY <2>2 DEF RecallDetail, ++
  <2>4. Suits(f, Nullable("names"), Optional("strings"))
    BY DEF Suits, Flattened, Listed, KeptNull, RecallLists, FirmLists, ItemTypes,
       Parses, ParsesItems, Required, Optional, Default, NotNull, Nullable
  <2> QED BY <2>1, <2>3, <2>4
<1>3. ASSUME NEW f, f = "product_upcs"
      PROVE  f \in DOMAIN recall_summary /\ Suits(f, recall_summary[f], RecallDetail[f])
  <2>1. f \in DOMAIN recall_summary /\ recall_summary[f] = Nullable("upcs")
    BY <1>3 DEF recall_summary, ++
  <2>2. f \notin DOMAIN RecallSummary
    BY <1>3 DEF RecallSummary, ++
  <2>3. RecallDetail[f] = Default("strings", Empty)
    BY <1>3, <2>2 DEF RecallDetail, ++
  <2>4. Suits(f, Nullable("upcs"), Default("strings", Empty))
    BY <1>3 DEF Suits, Flattened, Listed, KeptNull, RecallLists, FirmLists, ItemTypes,
       Parses, ParsesItems, Required, Optional, Default, NotNull, Nullable
  <2> QED BY <2>1, <2>3, <2>4
<1>4. ASSUME NEW f \in {"product_names", "models", "hins"}
      PROVE  f \in DOMAIN recall_summary /\ Suits(f, recall_summary[f], RecallDetail[f])
  <2>1. f \in DOMAIN recall_summary /\ recall_summary[f] = Nullable("names")
    BY DEF recall_summary, ++
  <2>2. f \notin DOMAIN RecallSummary
    BY DEF RecallSummary, ++
  <2>3. RecallDetail[f] = Default("strings", Empty)
    BY <2>2 DEF RecallDetail, ++
  <2>4. Suits(f, Nullable("names"), Default("strings", Empty))
    BY DEF Suits, Flattened, Listed, KeptNull, RecallLists, FirmLists, ItemTypes,
       Parses, ParsesItems, Required, Optional, Default, NotNull, Nullable
  <2> QED BY <2>1, <2>3, <2>4
<1>5. ASSUME NEW f, f = "hazards"
      PROVE  f \in DOMAIN recall_summary /\ Suits(f, recall_summary[f], RecallDetail[f])
  <2>1. f \in DOMAIN recall_summary /\ recall_summary[f] = Nullable("objects")
    BY <1>5 DEF recall_summary, ++
  <2>2. f \notin DOMAIN RecallSummary
    BY <1>5 DEF RecallSummary, ++
  <2>3. RecallDetail[f] = Optional("anything")
    BY <1>5, <2>2 DEF RecallDetail, ++
  <2>4. Suits(f, Nullable("objects"), Optional("anything"))
    BY <1>5 DEF Suits, Flattened, Listed, KeptNull, RecallLists, FirmLists, ItemTypes,
       Parses, ParsesItems, Required, Optional, Default, NotNull, Nullable
  <2> QED BY <2>1, <2>3, <2>4
<1>6. ASSUME NEW f, f = "firms"
      PROVE  f \in DOMAIN recall_summary /\ Suits(f, recall_summary[f], RecallDetail[f])
  <2>1. f \in DOMAIN recall_summary /\ recall_summary[f] = NotNull("rows")
    BY <1>6 DEF recall_summary, ++
  <2>2. f \notin DOMAIN RecallSummary
    BY <1>6 DEF RecallSummary, ++
  <2>3. RecallDetail[f] = Default("records", Empty)
    BY <1>6, <2>2 DEF RecallDetail, ++
  <2>4. Suits(f, NotNull("rows"), Default("records", Empty))
    BY <1>6 DEF Suits, Flattened, Listed, KeptNull, RecallLists, FirmLists, ItemTypes,
       Parses, ParsesItems, Required, Optional, Default, NotNull, Nullable
  <2> QED BY <2>1, <2>3, <2>4
<1>7. DOMAIN RecallDetail = DOMAIN RecallSummary \cup
        {"recall_reason", "corrective_action", "consequence_of_defect",
         "distribution_states", "distribution_state_codes",
         "distribution_country_codes", "product_upcs", "product_names", "models",
         "hins", "hazards", "firms"}
  BY DEF RecallDetail, ++
<1> QED BY <1>1, <1>2, <1>3, <1>4, <1>5, <1>6, <1>7

\* The detail of a recall.
LEMMA DetailSuited == Suited(Whole("recall_summary", RecallDetail))
<1>1. \A f \in DOMAIN RecallSummary :
        f \in DOMAIN RecallDetail /\ RecallDetail[f] = RecallSummary[f]
  BY DEF RecallDetail, ++
<1> QED BY <1>1, SummaryFits, DetailFits, WholeSuited DEF Marts

\* The columns of a product.
LEMMA ProductFits ==
  \A f \in DOMAIN ProductSearchHit \ {"rank", "upc_is_recall_level"} :
    f \in DOMAIN product_search /\ Suits(f, product_search[f], ProductSearchHit[f])
<1>1. ASSUME NEW f \in {"recall_product_id", "recall_event_id", "source_recall_id"}
      PROVE  f \in DOMAIN product_search /\ Suits(f, product_search[f], ProductSearchHit[f])
  <2>1. f \in DOMAIN product_search /\ product_search[f] = NotNull("text")
    BY DEF product_search, ++
  <2>2. ProductSearchHit[f] = Required("str")
    BY DEF ProductSearchHit, ++
  <2>3. Suits(f, NotNull("text"), Required("str"))
    BY DEF Suits, Flattened, Listed, KeptNull, RecallLists, FirmLists, ItemTypes,
       Parses, ParsesItems, Required, Optional, Default, NotNull, Nullable
  <2> QED BY <2>1, <2>2, <2>3
<1>2. ASSUME NEW f \in {"product_name", "product_description", "model", "type",
                        "hin", "recall_title", "classification", "risk_level",
                        "url", "firm_name"}
      PROVE  f \in DOMAIN product_search /\ Suits(f, product_search[f], ProductSearchHit[f])
  <2>1. f \in DOMAIN product_search /\ product_search[f] = Nullable("text")
    BY DEF product_search, ++
  <2>2. ProductSearchHit[f] = Optional("str")
    BY DEF ProductSearchHit, ++
  <2>3. Suits(f, Nullable("text"), Optional("str"))
    BY DEF Suits, Flattened, Listed, KeptNull, RecallLists, FirmLists, ItemTypes,
       Parses, ParsesItems, Required, Optional, Default, NotNull, Nullable
  <2> QED BY <2>1, <2>2, <2>3
<1>3. ASSUME NEW f, f = "source"
      PROVE  f \in DOMAIN product_search /\ Suits(f, product_search[f], ProductSearchHit[f])
  <2>1. f \in DOMAIN product_search /\ product_search[f] = NotNull("agency")
    BY <1>3 DEF product_search, ++
  <2>2. ProductSearchHit[f] = Required("Source")
    BY <1>3 DEF ProductSearchHit, ++
  <2>3. Suits(f, NotNull("agency"), Required("Source"))
    BY <1>3 DEF Suits, Flattened, Listed, KeptNull, RecallLists, FirmLists, ItemTypes,
       Parses, ParsesItems, Required, Optional, Default, NotNull, Nullable
  <2> QED BY <2>1, <2>2, <2>3
<1>4. ASSUME NEW f, f = "model_year"
      PROVE  f \in DOMAIN product_search /\ Suits(f, product_search[f], ProductSearchHit[f])
  <2>1. f \in DOMAIN product_search /\ product_search[f] = Nullable("text")
    BY <1>4 DEF product_search, ++
  <2>2. ProductSearchHit[f] = Optional("str_or_int")
    BY <1>4 DEF ProductSearchHit, ++
  <2>3. Suits(f, Nullable("text"), Optional("str_or_int"))
    BY <1>4 DEF Suits, Flattened, Listed, KeptNull, RecallLists, FirmLists, ItemTypes,
       Parses, ParsesItems, Required, Optional, Default, NotNull, Nullable
  <2> QED BY <2>1, <2>2, <2>3
<1>5. ASSUME NEW f, f = "published_at"
      PROVE  f \in DOMAIN product_search /\ Suits(f, product_search[f], ProductSearchHit[f])
  <2>1. f \in DOMAIN product_search /\ product_search[f] = NotNull("stamp")
    BY <1>5 DEF product_search, ++
  <2>2. ProductSearchHit[f] = Required("datetime")
    BY <1>5 DEF ProductSearchHit, ++
  <2>3. Suits(f, NotNull("stamp"), Required("datetime"))
    BY <1>5 DEF Suits, Flattened, Listed, KeptNull, RecallLists, FirmLists, ItemTypes,
       Parses, ParsesItems, Required, Optional, Default, NotNull, Nullable
  <2> QED BY <2>1, <2>2, <2>3
<1>6. ASSUME NEW f, f = "is_active"
      PROVE  f \in DOMAIN product_search /\ Suits(f, product_search[f], ProductSearchHit[f])
  <2>1. f \in DOMAIN product_search /\ product_search[f] = Nullable("flag")
    BY <1>6 DEF product_search, ++
  <2>2. ProductSearchHit[f] = Optional("bool")
    BY <1>6 DEF ProductSearchHit, ++
  <2>3. Suits(f, Nullable("flag"), Optional("bool"))
    BY <1>6 DEF Suits, Flattened, Listed, KeptNull, RecallLists, FirmLists, ItemTypes,
       Parses, ParsesItems, Required, Optional, Default, NotNull, Nullable
  <2> QED BY <2>1, <2>2, <2>3
<1>7. ASSUME NEW f, f = "recall_product_upcs"
      PROVE  f \in DOMAIN product_search /\ Suits(f, product_search[f], ProductSearchHit[f])
  <2>1. f \in DOMAIN product_search /\ product_search[f] = Nullable("upcs")
    BY <1>7 DEF product_search, ++
  <2>2. ProductSearchHit[f] = Default("strings", Empty)
    BY <1>7 DEF ProductSearchHit, ++
  <2>3. Suits(f, Nullable("upcs"), Default("strings", Empty))
    BY <1>7 DEF Suits, Flattened, Listed, KeptNull, RecallLists, FirmLists, ItemTypes,
       Parses, ParsesItems, Required, Optional, Default, NotNull, Nullable
  <2> QED BY <2>1, <2>2, <2>3
<1>8. DOMAIN ProductSearchHit \ {"rank", "upc_is_recall_level"} =
        {"recall_product_id", "recall_event_id", "source_recall_id",
         "product_name", "product_description", "model", "type", "hin",
         "recall_title", "classification", "risk_level", "url", "firm_name",
         "source", "model_year", "published_at", "is_active",
         "recall_product_upcs"}
  BY DEF ProductSearchHit, ++
<1> QED BY <1>1, <1>2, <1>3, <1>4, <1>5, <1>6, <1>7, <1>8

\* What the product search adds to a product.
LEMMA ProductExtras ==
  /\ {"rank", "upc_is_recall_level"} \cap DOMAIN product_search = {}
  /\ ProductSearchHit["rank"] = Optional("float")
  /\ ProductSearchHit["upc_is_recall_level"] = Default("bool", Scalar("true"))
<1>1. {"rank", "upc_is_recall_level"} \cap DOMAIN product_search = {}
  BY DEF product_search, ++
<1>2. ProductSearchHit["rank"] = Optional("float")
  BY DEF ProductSearchHit, ++
<1>3. ProductSearchHit["upc_is_recall_level"] = Default("bool", Scalar("true"))
  BY DEF ProductSearchHit, ++
<1> QED BY <1>1, <1>2, <1>3

\* The search of products by text.
LEMMA FtsSuited ==
  Suited(Reads("product_search", DOMAIN product_search, Rank, ProductSearchHit))
<1>1. Parse(ProductSearchHit["rank"], Prepared("rank", Rank["rank"])) # Rejected
  BY ProductExtras, RankParses DEF Optional
<1>2. ProductSearchHit["upc_is_recall_level"].default # Rejected
  BY ProductExtras DEF Default, Scalar, Rejected
<1>3. DOMAIN Rank = {"rank"}
  BY DEF Rank
<1> QED BY <1>1, <1>2, <1>3, ProductFits, ProductExtras DEF Suited, Reads, Marts

\* The search of products by identifier.
LEMMA IdentifierSuited == Suited(Whole("product_search", ProductSearchHit))
<1>1. /\ ProductSearchHit["rank"].default # Rejected
      /\ ProductSearchHit["upc_is_recall_level"].default # Rejected
  BY ProductExtras DEF Optional, Default, Null, Scalar, Rejected
<1> QED BY <1>1, ProductFits, ProductExtras DEF Suited, Whole, Reads, Marts, NoneMore

\* Every statement is over a mart, and suits it.
LEMMA StatementsSuited ==
  ASSUME NEW name \in DOMAIN Statements
  PROVE  Statements[name].mart \in DOMAIN Marts /\ Suited(Statements[name])
<1>1. Suited(Statements[name])
  BY PeriodsSuited, TrendSuited, ClassificationsSuited, StatusesSuited, GeographySuited,
     CountriesSuited, LeadersSuited, UnitsSuited, FirmSuited, OverviewSuited, ListSuited,
     SearchSuited, DetailSuited, FtsSuited, IdentifierSuited
  DEF Statements
<1>2. Statements[name].mart \in DOMAIN Marts
  BY DEF Statements, Reads, Whole, Marts
<1> QED BY <1>1, <1>2

-----------------------------------------------------------------------------
\* A field that may drift as the readers bear it, still parses.
LEMMA BearableParses ==
  ASSUME NEW d, Drifted(d), Bearable(d)
  PROVE  SidecarField(d.sidecar, d.name, d.value) # Rejected
<1> DEFINE field == Sidecars[d.sidecar][d.name]
           whole == Collapse(d.name, d.value)
<1>1. /\ field.kind \in {"str", "str_or_int"}
      /\ d.value = Null => field.null
      /\ d.value # Scalar("flag")
  BY DEF Bearable
<1>2. d.name # "prior_holders"
  <2>1. UscgManufacturer["prior_holders"].kind = "strings"
    BY DEF UscgManufacturer, Default, ++
  <2>2. "prior_holders" \notin DOMAIN UsdaEstablishment
    BY DEF UsdaEstablishment, ++
  <2>3. "prior_holders" \notin DOMAIN FdaAttributes
    BY DEF FdaAttributes, ++
  <2>4. d.sidecar \in DOMAIN Sidecars /\ d.name \in DOMAIN Sidecars[d.sidecar]
    BY DEF Drifted
  <2> QED BY <1>1, <2>1, <2>2, <2>3, <2>4 DEF Sidecars
<1>3. /\ whole \in {Null, Scalar("text"), Scalar("bigint")}
      /\ whole = Null => field.null
  <2>1. CASE d.value = ListOf(d.value.items)
    <3>1. d.value.is = "list"
      BY <2>1 DEF ListOf
    <3> QED BY <3>1, <1>2 DEF Collapse, Null, Scalar
  <2>2. CASE \E type \in JsonTypes : d.value = Scalar(type)
    <3>1. d.value \in {Null, Scalar("text"), Scalar("bigint"), Scalar("object")}
      BY <2>2, <1>1 DEF JsonTypes, Null
    <3>2. Scalar("object").is = "object" /\ \A type : Scalar(type).is = type
      BY DEF Scalar
    <3> QED BY <1>1, <1>2, <3>1, <3>2 DEF Collapse, Null
  <2> QED BY <2>1, <2>2 DEF Drifted, Shape
<1>4. Parse(field, Coerced(field, whole)) # Rejected
  <2> HIDE DEF field, whole
  <2>1. CASE whole = Null
    <3>1. Coerced(field, whole) = Null
      BY <2>1, <1>1 DEF Coerced, Null, Scalar
    <3> QED BY <3>1, <2>1, <1>3 DEF Parse, Null, Rejected, Scalar
  <2>2. CASE whole \in {Scalar("text"), Scalar("bigint")}
    <3>1. \/ Coerced(field, whole) = Scalar("text")
          \/ Coerced(field, whole) = Scalar("bigint") /\ field.kind = "str_or_int"
      BY <2>2, <1>1 DEF Coerced, Scalar
    <3> QED BY <3>1, <1>1 DEF Parse, Parses, Rejected, Scalar
  <2> QED BY <2>1, <2>2, <1>3
<1> QED BY <1>2, <1>4 DEF SidecarField

-----------------------------------------------------------------------------
\* What a statement serves of a row of its mart, when no record spoils its list.
LEMMA ServedWhole ==
  ASSUME NEW name \in DOMAIN Statements, NEW served,
         RowFits(Statements[name].mart, row),
         served = Validate(Statements[name].model, Delivered(Statements[name])),
         \A c : ~Misfit(c)
  PROVE  /\ ~Refused(served)
         /\ \A f \in DOMAIN served \cap DOMAIN row :
              /\ row[f] # Null => /\ served[f].is = row[f].is
                                  /\ DOMAIN served[f].items = DOMAIN row[f].items
              /\ row[f] = Null =>
                   served[f] = ServedForNull(f, Marts[Statements[name].mart][f].type)
<1> DEFINE stmt == Statements[name]
           columns == Marts[stmt.mart]
           given == Delivered(stmt)
<1>1. Suited(stmt)
  BY StatementsSuited
<1>2. /\ DOMAIN row = DOMAIN columns
      /\ \A c \in DOMAIN columns : Holds(columns[c], row[c])
  BY DEF RowFits
<1>3. /\ DOMAIN given = stmt.cols \cup DOMAIN stmt.computed
      /\ \A c \in stmt.cols : given[c] = row[c]
      /\ \A c \in DOMAIN stmt.computed \ stmt.cols : given[c] = stmt.computed[c]
  BY DEF Delivered, ++
<1>4. /\ DOMAIN served = DOMAIN stmt.model
      /\ \A f \in DOMAIN stmt.model :
           served[f] = IF f \in DOMAIN given THEN Parse(stmt.model[f], Prepared(f, given[f]))
                                             ELSE stmt.model[f].default
  BY DEF Validate
<1>5. ASSUME NEW f \in DOMAIN stmt.model, f \in DOMAIN columns
      PROVE  /\ served[f] # Rejected
             /\ row[f] # Null => /\ served[f].is = row[f].is
                                 /\ DOMAIN served[f].items = DOMAIN row[f].items
             /\ row[f] = Null => served[f] = ServedForNull(f, columns[f].type)
  <2>1. f \in stmt.cols /\ Suits(f, columns[f], stmt.model[f])
    BY <1>1, <1>5 DEF Suited
  <2>2. Holds(columns[f], row[f])
    BY <1>2, <1>5
  <2>3. served[f] = Parse(stmt.model[f], Prepared(f, row[f]))
    BY <1>3, <1>4, <2>1
  <2> HIDE DEF stmt, columns
  <2> QED BY <2>1, <2>2, <2>3, Parsed
<1>6. ASSUME NEW f \in DOMAIN stmt.model, f \notin DOMAIN columns
      PROVE  served[f] # Rejected
  <2>1. f \notin stmt.cols
    BY <1>1, <1>6 DEF Suited
  <2>2. CASE f \in DOMAIN stmt.computed
    <3>1. served[f] = Parse(stmt.model[f], Prepared(f, stmt.computed[f]))
      BY <1>3, <1>4, <2>1, <2>2
    <3> QED BY <1>1, <1>6, <2>2, <3>1 DEF Suited
  <2>3. CASE f \notin DOMAIN stmt.computed
    <3>1. served[f] = stmt.model[f].default
      BY <1>3, <1>4, <2>1, <2>3
    <3> QED BY <1>1, <1>6, <2>3, <3>1 DEF Suited
  <2> QED BY <2>2, <2>3
<1>7. ~Refused(served)
  BY <1>4, <1>5, <1>6 DEF Refused
<1> QED BY <1>2, <1>4, <1>5, <1>7

-----------------------------------------------------------------------------
\* The mart has a row it may hold, only what is a field drifts, and an answer is what its
\* statement makes of the row and the drift that are there now.
WireInv ==
  /\ mart \in DOMAIN Marts /\ RowFits(mart, row)
  /\ \A d \in drift : Drifted(d)
  /\ Answered =>
       /\ answer.stmt \in DOMAIN Statements
       /\ Statements[answer.stmt].mart = mart
       /\ answer.served = Validate(Statements[answer.stmt].model,
                                   Delivered(Statements[answer.stmt]))

LEMMA WireInvInit == Init => WireInv
BY WireAssumption DEF Init, WireInv, Answered

LEMMA WireInvStep == WireInv /\ [Next]_vars => WireInv'
<1> SUFFICES ASSUME WireInv, [Next]_vars PROVE WireInv'
  OBVIOUS
<1>1. CASE Rebuild
  BY <1>1, WireAssumption DEF Rebuild, WireInv, Answered
<1>2. CASE Drift
  BY <1>2, WireAssumption DEF Drift, WireInv, Answered, NoAnswer
<1>3. ASSUME NEW name \in DOMAIN Statements, Run(name) PROVE WireInv'
  <2>1. UNCHANGED <<mart, row, drift>>
    BY <1>3 DEF Run
  <2>2. (mart \in DOMAIN Marts /\ RowFits(mart, row) /\ \A d \in drift : Drifted(d))'
    BY <2>1 DEF WireInv
  <2>3. /\ answer'.stmt = name /\ Statements[name].mart = mart
        /\ answer'.served = Validate(Statements[name].model, Delivered(Statements[name]))
    BY <1>3 DEF Run
  <2>4. Delivered(Statements[name])' = Delivered(Statements[name])
    BY <2>1 DEF Delivered, Misfit
  <2> QED BY <2>1, <2>2, <2>3, <2>4 DEF WireInv
<1>4. CASE UNCHANGED vars
  BY <1>4 DEF vars, WireInv, Answered, Delivered, Misfit
<1> QED BY <1>1, <1>2, <1>3, <1>4 DEF Next

LEMMA WireInvHolds == Spec => []WireInv
BY WireInvInit, WireInvStep, PTL DEF Spec

-----------------------------------------------------------------------------
\* For every row a mart may hold, whatever the values of its columns together and however
\* long its lists, no statement's model refuses the row or drops a value: the columns the
\* table literals have, the ones the statements select and the fields of the models agree.
THEOREM WhatIsHeldIsServed == Spec => []HeldIsServed
<1>1. WireInv => HeldIsServed
  <2> SUFFICES ASSUME WireInv, Answered, drift = {}
               PROVE  /\ ~Refused(answer.served)
                      /\ \A f \in Backed : row[f] # Null =>
                           /\ answer.served[f].is = row[f].is
                           /\ DOMAIN answer.served[f].items = DOMAIN row[f].items
    BY DEF HeldIsServed
  <2>1. \A c : ~Misfit(c)
    BY DEF Misfit
  <2> QED BY <2>1, ServedWhole DEF WireInv, Backed
<1> QED BY <1>1, WireInvHolds, PTL

\* For every such row, _none_to_list and flatten_upcs leave no NULL in a list said never to
\* be null, and keep the NULL of the lists where NULL and the empty list differ.
THEOREM NullsToldApart == Spec => []NullsAreToldApart
<1>1. WireInv => NullsAreToldApart
  <2> SUFFICES ASSUME WireInv, Answered, drift = {}
               PROVE  \A f \in Backed : row[f] = Null =>
                        answer.served[f] = ServedForNull(f, Marts[mart][f].type)
    BY DEF NullsAreToldApart
  <2>1. \A c : ~Misfit(c)
    BY DEF Misfit
  <2> QED BY <2>1, ServedWhole DEF WireInv, Backed
<1> QED BY <1>1, WireInvHolds, PTL

\* However many text fields of a firm's registration records drift at once, to lists of any
\* length and any shape of JSON, _collapse_nonscalars and coerce_numbers_to_str keep the
\* firm served, unless a required identifier is gone or a text has become a boolean.
THEOREM FirmsSurviveDrift == Spec => []FirmsOutliveDrift
<1>1. WireInv => FirmsOutliveDrift
  <2> SUFFICES ASSUME WireInv, Answered, \A d \in drift : Bearable(d)
               PROVE  ~Refused(answer.served)
    BY DEF FirmsOutliveDrift
  <2>1. \A c : ~Misfit(c)
    BY BearableParses DEF Misfit, WireInv
  <2> QED BY <2>1, ServedWhole DEF WireInv
<1> QED BY <1>1, WireInvHolds, PTL
=============================================================================
