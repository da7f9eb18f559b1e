--------------------------------- MODULE Wire ---------------------------------
(***************************************************************************)
(* From a row of a gold mart to the answer on the wire: the columns each   *)
(* statement selects, and the model its row is validated against.          *)
(*                                                                         *)
(* A value is known by its type alone.  The pipeline rebuilds a mart with  *)
(* a row that holds, in each column, any value the mart allows there, or   *)
(* agencies have fields of a firm's sidecars drift to shapes nobody        *)
(* announced; then any statement over the mart is run.                     *)
(***************************************************************************)
EXTENDS Sequences

CONSTANTS Rows,    \* the rows the pipeline may give each mart
          Drifts   \* the sets of fields that may drift together, with their shapes

VARIABLES
  mart,    \* the mart rebuilt last, of DOMAIN Marts
  row,     \* its row, one of Rows[mart]
  drift,   \* what has drifted in the row's sidecars, one of Drifts, or nothing
  answer   \* the last answer, and the statement behind it

vars == <<mart, row, drift, answer>>

\* Values by type: scalars, and lists of the types of their elements.
Scalar(type) == [is |-> type, items |-> <<>>]
ListOf(items) == [is |-> "list", items |-> items]
Null == Scalar("null")
Rejected == Scalar("rejected")
Empty == ListOf(<<>>)

\* The columns or fields of f and those of g.
f ++ g == [c \in DOMAIN f \cup DOMAIN g |-> IF c \in DOMAIN f THEN f[c] ELSE g[c]]

-----------------------------------------------------------------------------
(* The marts.  A whole number of type numeric is "whole"; "counts" is an    *)
(* object of numbers, "upc" an object {"upc": text}, "row" an object of     *)
(* a sidecar or a firm's reference.                                         *)

NotNull(type) == [type |-> type, null |-> FALSE]
Nullable(type) == [type |-> type, null |-> TRUE]

recall_summary ==
  [c \in {"recall_event_id", "source_recall_id", "distribution_scope"} |-> NotNull("text")]
  ++ [c \in {"title", "recall_reason", "url", "classification", "risk_level",
             "lifecycle_status", "reason_category", "distribution_states",
             "corrective_action", "consequence_of_defect", "primary_firm_name"}
        |-> Nullable("text")]
  ++ [source |-> NotNull("agency"), announced_at |-> Nullable("stamp"),
      published_at |-> NotNull("stamp"), event_date |-> NotNull("stamp"),
      is_active |-> Nullable("flag"), has_been_edited |-> NotNull("flag"),
      firm_count |-> NotNull("bigint"), product_count |-> NotNull("bigint"),
      hazards |-> Nullable("objects"), product_upcs |-> Nullable("upcs"),
      firms |-> NotNull("rows")]
  ++ [c \in {"distribution_state_codes", "distribution_country_codes", "product_names",
             "models", "hins"} |-> Nullable("names")]

product_search ==
  [c \in {"recall_product_id", "recall_event_id", "source_recall_id"} |-> NotNull("text")]
  ++ [c \in {"product_name", "product_description", "model", "type", "model_year", "hin",
             "recall_title", "classification", "risk_level", "url", "firm_name"}
        |-> Nullable("text")]
  ++ [source |-> NotNull("agency"), published_at |-> NotNull("stamp"),
      is_active |-> Nullable("flag"), recall_product_upcs |-> Nullable("upcs")]

firm_profile ==
  [c \in {"firm_id", "canonical_name", "normalized_name"} |-> NotNull("text")]
  ++ [c \in {"observed_names", "observed_company_ids", "alternate_names", "roles"}
        |-> Nullable("names")]
  ++ [c \in {"first_recall_at", "last_recall_at"} |-> Nullable("stamp")]
  ++ [c \in {"firm_usda_attributes", "firm_uscg_attributes", "firm_fda_attributes"}
        |-> Nullable("rows")]
  ++ [total_recalls |-> NotNull("bigint"), active_recalls |-> NotNull("bigint"),
      distinct_products |-> NotNull("whole"), recalls_by_source |-> Nullable("counts")]

fct_by_period ==
  [period |-> NotNull("day"), source |-> NotNull("text"), event_count |-> NotNull("bigint")]

fct_monthly_trend ==
  [month |-> NotNull("day"), source |-> NotNull("text"), event_count |-> NotNull("bigint"),
   rolling_3mo_avg |-> Nullable("numeric"), rolling_12mo_avg |-> Nullable("numeric"),
   event_count_year_ago |-> Nullable("bigint"), yoy_pct_change |-> Nullable("numeric")]

fct_classification ==
  [source |-> NotNull("text"), classification |-> Nullable("text"),
   risk_level |-> Nullable("text"), event_count |-> NotNull("bigint")]

fct_status ==
  [source |-> NotNull("text"), status |-> NotNull("text"), event_count |-> NotNull("bigint")]

fct_firm ==
  [c \in {"firm_id", "canonical_name"} |-> NotNull("text")]
  ++ [c \in {"event_count", "active_recalls", "product_count", "event_count_rank"}
        |-> NotNull("bigint")]
  ++ [c \in {"first_recall_at", "last_recall_at"} |-> Nullable("stamp")]

fct_geography ==
  [c \in {"geography_basis", "source", "state_code"} |-> NotNull("text")]
  ++ [recall_count |-> NotNull("bigint")]

fct_country ==
  [c \in {"source", "country_code"} |-> NotNull("text")]
  ++ [recall_count |-> NotNull("bigint")]

fct_units ==
  [c \in {"source", "unit_category"} |-> NotNull("text")]
  ++ [period |-> NotNull("day"), recalls_with_units |-> NotNull("bigint")]
  ++ [c \in {"total_units", "avg_units_per_recall", "max_units"} |-> NotNull("numeric")]

\* overview_stmt: two counts, and the stamp of a gold_meta that may have no row.
overview ==
  [total_recalls |-> NotNull("bigint"), distinct_firms |-> NotNull("bigint"),
   last_rebuilt_at |-> Nullable("stamp")]

Marts ==
  [recall_summary |-> recall_summary, product_search |-> product_search,
   firm_profile |-> firm_profile, fct_by_period |-> fct_by_period,
   fct_monthly_trend |-> fct_monthly_trend, fct_classification |-> fct_classification,
   fct_status |-> fct_status, fct_firm |-> fct_firm, fct_geography |-> fct_geography,
   fct_country |-> fct_country, fct_units |-> fct_units, overview |-> overview]

\* What the elements of a column of lists may be: UPCs as they are, and as the pipeline
\* may come to have them.
ItemTypes ==
  [names |-> {"text"}, upcs |-> {"upc", "text"}, objects |-> {"object"}, rows |-> {"row"}]

\* The values a column may hold.
Holds(column, value) ==
  \/ value = Null /\ column.null
  \/ value = Scalar(column.type) /\ column.type \notin DOMAIN ItemTypes
  \/ /\ column.type \in DOMAIN ItemTypes
     /\ value = ListOf(value.items) /\ value.items \in Seq(ItemTypes[column.type])

RowFits(name, r) ==
  /\ DOMAIN r = DOMAIN Marts[name]
  /\ \A c \in DOMAIN r : Holds(Marts[name][c], r[c])

-----------------------------------------------------------------------------
(* The models: what a field parses, and what it is without a value.         *)

Required(kind) == [kind |-> kind, null |-> FALSE, default |-> Rejected]
Optional(kind) == [kind |-> kind, null |-> TRUE, default |-> Null]
Default(kind, value) == [kind |-> kind, null |-> FALSE, default |-> value]

RecallSummary ==
  [f \in {"recall_event_id", "source_recall_id", "distribution_scope"} |-> Required("str")]
  ++ [f \in {"title", "url", "classification", "risk_level", "lifecycle_status",
             "reason_category", "primary_firm_name"} |-> Optional("str")]
  ++ [source |-> Required("Source"), announced_at |-> Optional("datetime"),
      published_at |-> Required("datetime"), event_date |-> Required("datetime"),
      is_active |-> Optional("bool"), has_been_edited |-> Default("bool", Scalar("false")),
      firm_count |-> Default("int", Scalar("zero")),
      product_count |-> Default("int", Scalar("zero"))]

RecallSearchHit == RecallSummary ++ [rank |-> Required("float")]

RecallDetail ==
  RecallSummary
  ++ [f \in {"recall_reason", "corrective_action", "consequence_of_defect",
             "distribution_states"} |-> Optional("str")]
  ++ [f \in {"distribution_state_codes", "distribution_country_codes"} |-> Optional("strings")]
  ++ [f \in {"product_upcs", "product_names", "models", "hins"} |-> Default("strings", Empty)]
  ++ [hazards |-> Optional("anything"), firms |-> Default("records", Empty)]

ProductSearchHit ==
  [f \in {"recall_product_id", "recall_event_id", "source_recall_id"} |-> Required("str")]
  ++ [f \in {"product_name", "product_description", "model", "type", "hin", "recall_title",
             "classification", "risk_level", "url", "firm_name"} |-> Optional("str")]
  ++ [source |-> Required("Source"), model_year |-> Optional("str_or_int"),
      published_at |-> Required("datetime"), is_active |-> Optional("bool"),
      recall_product_upcs |-> Default("strings", Empty), rank |-> Optional("float"),
      upc_is_recall_level |-> Default("bool", Scalar("true"))]

FirmProfile ==
  [f \in {"firm_id", "canonical_name", "normalized_name"} |-> Required("str")]
  ++ [f \in {"observed_names", "observed_company_ids", "alternate_names", "roles"}
        |-> Default("strings", Empty)]
  ++ [f \in {"total_recalls", "active_recalls", "distinct_products"}
        |-> Default("int", Scalar("zero"))]
  ++ [f \in {"first_recall_at", "last_recall_at"} |-> Optional("datetime")]
  ++ [recalls_by_source |-> Default("dict", Scalar("counts"))]
  ++ [f \in {"firm_usda_attributes", "firm_uscg_attributes", "firm_fda_attributes"}
        |-> Default("records", Empty)]

PeriodCount ==
  [period |-> Required("date"), source |-> Required("str"), event_count |-> Required("int")]

MonthlyTrendPoint ==
  [month |-> Required("date"), source |-> Required("str"), event_count |-> Required("int"),
   event_count_year_ago |-> Optional("int")]
  ++ [f \in {"rolling_3mo_avg", "rolling_12mo_avg", "yoy_pct_change"} |-> Optional("float")]

ClassificationCount ==
  [source |-> Required("str"), classification |-> Optional("str"),
   risk_level |-> Optional("str"), event_count |-> Required("int")]

StatusCount ==
  [source |-> Required("str"), status |-> Required("str"), event_count |-> Required("int")]

FirmLeaderRow ==
  [f \in {"firm_id", "canonical_name"} |-> Required("str")]
  ++ [f \in {"event_count", "active_recalls", "product_count", "event_count_rank"}
        |-> Required("int")]
  ++ [f \in {"first_recall_at", "last_recall_at"} |-> Optional("datetime")]

GeographyCount ==
  [f \in {"geography_basis", "source", "state_code"} |-> Required("str")]
  ++ [recall_count |-> Required("int")]

CountryCount ==
  [f \in {"source", "country_code"} |-> Required("str")] ++ [recall_count |-> Required("int")]

UnitsRow ==
  [f \in {"source", "unit_category"} |-> Required("str")]
  ++ [period |-> Required("date"), recalls_with_units |-> Required("int")]
  ++ [f \in {"total_units", "avg_units_per_recall", "max_units"} |-> Required("float")]

StatsOverview ==
  [total_recalls |-> Required("int"), distinct_firms |-> Required("int"),
   sources |-> Required("strings"), last_rebuilt_at |-> Optional("datetime")]

\* The sidecars' models, which turn numbers into text (coerce_numbers_to_str).
UsdaEstablishment ==
  [establishment_id |-> Required("str")]
  ++ [f \in {"establishment_name", "address", "city", "state", "zip", "county", "fips_code",
             "geolocation", "latest_mpi_active_date", "grant_date", "status_regulated_est",
             "size", "district", "circuit", "activities", "dbas"} |-> Optional("str")]

UscgManufacturer ==
  [mic |-> Required("str"), prior_holders |-> Default("strings", Empty)]
  ++ [f \in {"company_name", "dba", "parent_company", "parent_mic", "past_company_1",
             "past_company_2", "past_company_3", "address", "city", "state", "zip", "country",
             "status", "in_business", "out_of_business", "date_modified",
             "uscg_directory_id", "detail_url"} |-> Optional("str")]
  ++ [f \in {"mic_has_prior_holder", "mic_oob_recycled", "mic_renamed_not_recycled"}
        |-> Optional("bool")]

FdaAttributes ==
  [firm_fei_num |-> Required("str_or_int"), firm_surviving_fei |-> Optional("str_or_int")]
  ++ [f \in {"firm_legal_nam", "firm_city_nam", "firm_state_cd", "firm_state_prvnc_nam",
             "firm_country_nam", "firm_postal_cd", "firm_line1_adr", "firm_line2_adr",
             "firm_surviving_nam"} |-> Optional("str")]

Sidecars ==
  [firm_usda_attributes |-> UsdaEstablishment, firm_uscg_attributes |-> UscgManufacturer,
   firm_fda_attributes |-> FdaAttributes]

-----------------------------------------------------------------------------
(* The statements.                                                          *)

\* A slip: a column with a default in the model is left out.
ListColsShort ==
  {"recall_event_id", "source", "source_recall_id", "title", "url", "announced_at",
   "published_at", "event_date", "classification", "risk_level", "lifecycle_status",
   "is_active", "reason_category", "distribution_scope", "primary_firm_name",
   "product_count", "has_been_edited"}

\* _LIST_COLS of the recalls; every other statement selects all of its table literal
\* (detail_stmt, _HIT_COLS, firm_stmt and the statements of the statistics).
ListCols ==
  {"recall_event_id", "source", "source_recall_id", "title", "url", "announced_at",
   "published_at", "event_date", "classification", "risk_level", "lifecycle_status",
   "is_active", "reason_category", "distribution_scope", "primary_firm_name",
   "firm_count", "product_count", "has_been_edited"}

NoneMore == [c \in {} |-> Null]
Rank == [rank |-> Scalar("numeric")]

Reads(from, cols, computed, model) ==
  [mart |-> from, cols |-> cols, computed |-> computed, model |-> model]

Whole(from, model) == Reads(from, DOMAIN Marts[from], NoneMore, model)

Statements ==
  [list_stmt |-> Reads("recall_summary", ListCols, NoneMore, RecallSummary),
   search_stmt |-> Reads("recall_summary", ListCols, Rank, RecallSearchHit),
   detail_stmt |-> Whole("recall_summary", RecallDetail),
   fts_stmt |-> Reads("product_search", DOMAIN product_search, Rank, ProductSearchHit),
   identifier_stmt |-> Whole("product_search", ProductSearchHit),
   firm_stmt |-> Whole("firm_profile", FirmProfile),
   by_period_stmt |-> Whole("fct_by_period", PeriodCount),
   monthly_trend_stmt |-> Whole("fct_monthly_trend", MonthlyTrendPoint),
   by_classification_stmt |-> Whole("fct_classification", ClassificationCount),
   status_stmt |-> Whole("fct_status", StatusCount),
   firm_leaderboard_stmt |-> Whole("fct_firm", FirmLeaderRow),
   by_geography_stmt |-> Whole("fct_geography", GeographyCount),
   by_country_stmt |-> Whole("fct_country", CountryCount),
   units_stmt |-> Whole("fct_units", UnitsRow),
   overview_stmt |-> Reads("overview", DOMAIN overview,
                           [sources |-> ListOf(<<"text">>)], StatsOverview)]

-----------------------------------------------------------------------------
(* Validation.                                                              *)

\* What each kind of field parses.
Parses ==
  [str |-> {"text", "agency"}, Source |-> {"agency"}, datetime |-> {"stamp"},
   date |-> {"day"}, int |-> {"bigint", "whole"}, float |-> {"bigint", "whole", "numeric"},
   bool |-> {"flag"}, str_or_int |-> {"text", "bigint", "flag"}, dict |-> {"counts"}]

ParsesItems ==
  [strings |-> {"text"}, anything |-> {"text", "bigint", "object"}, records |-> {"row"}]

Parse(field, value) ==
  IF \/ value = Null /\ field.null
     \/ field.kind \in DOMAIN Parses /\ value.is \in Parses[field.kind]
     \/ /\ field.kind \in DOMAIN ParsesItems /\ value.is = "list"
        /\ \A i \in DOMAIN value.items : value.items[i] \in ParsesItems[field.kind]
    THEN value ELSE Rejected

\* A slip: the elements are passed on as they come.
PassUpcs(value) == IF value = Null THEN Empty ELSE value

flatten_upcs(value) ==
  IF value = Null THEN Empty
  ELSE [value EXCEPT !.items =
          [i \in DOMAIN @ |-> IF @[i] = "upc" THEN "text" ELSE @[i]]]

\* A slip: a list whose NULL says something is thrown in with the others.
RecallListsAndStates ==
  {"product_names", "models", "hins", "firms", "distribution_state_codes"}

\* RecallDetail._none_to_list.
RecallLists == {"product_names", "models", "hins", "firms"}

\* FirmProfile._none_to_list.
FirmLists ==
  {"observed_names", "observed_company_ids", "alternate_names", "roles",
   "firm_usda_attributes", "firm_uscg_attributes", "firm_fda_attributes"}

\* The validators that run before a field is parsed.
Prepared(name, value) ==
  IF name \in {"product_upcs", "recall_product_upcs"} THEN flatten_upcs(value)
  ELSE IF name \in RecallLists \cup FirmLists /\ value = Null THEN Empty
  ELSE IF name = "recalls_by_source" /\ value = Null THEN Scalar("counts")
  ELSE value

Validate(model, given) ==
  [f \in DOMAIN model |->
     IF f \in DOMAIN given THEN Parse(model[f], Prepared(f, given[f])) ELSE model[f].default]

Refused(served) == \E f \in DOMAIN served : served[f] = Rejected

-----------------------------------------------------------------------------
(* A row of a sidecar.                                                      *)

\* A slip: numbers and objects were thought of, arrays were not.
CollapseObjects(name, value) == IF value.is = "object" THEN Scalar("text") ELSE value

\* _collapse_nonscalars, with prior_holders as the one field kept a list.
Collapse(name, value) ==
  IF value.is = "object" \/ (value.is = "list" /\ name # "prior_holders")
    THEN Scalar("text") ELSE value

\* coerce_numbers_to_str, of a string and of the strings in a list.
Coerced(field, value) ==
  IF field.kind = "str" /\ value.is = "bigint" THEN Scalar("text")
  ELSE IF field.kind = "strings"
    THEN [value EXCEPT !.items = [i \in DOMAIN @ |-> IF @[i] = "bigint" THEN "text" ELSE @[i]]]
  ELSE value

SidecarField(sidecar, name, value) ==
  LET field == Sidecars[sidecar][name]
      whole == Collapse(name, value)
  IN Parse(field, Coerced(field, IF name = "prior_holders" /\ whole = Null THEN Empty ELSE whole))

\* The shapes a field of a sidecar may drift to, and what a drift is.
JsonTypes == {"null", "text", "bigint", "flag", "object"}

Shape(value) ==
  \/ \E type \in JsonTypes : value = Scalar(type)
  \/ value = ListOf(value.items) /\ value.items \in Seq(JsonTypes)

Drifted(d) ==
  d.sidecar \in DOMAIN Sidecars /\ d.name \in DOMAIN Sidecars[d.sidecar] /\ Shape(d.value)

ASSUME WireAssumption ==
  /\ \A name \in DOMAIN Marts : \A r \in Rows[name] : RowFits(name, r)
  /\ \A ds \in Drifts : \A d \in ds : Drifted(d)

-----------------------------------------------------------------------------
NoAnswer == [stmt |-> "none"]

Init ==
  /\ mart \in DOMAIN Marts /\ row \in Rows[mart]
  /\ drift = {} /\ answer = NoAnswer

\* The pipeline: any row.
Rebuild ==
  /\ \E name \in DOMAIN Marts : mart' = name /\ row' \in Rows[name]
  /\ drift' = {} /\ answer' = NoAnswer

\* The agencies: fields of a firm's registration records change their shapes.
Drift ==
  /\ mart = "firm_profile" /\ drift = {}
  /\ drift' \in Drifts
  /\ \A d \in drift' : row[d.sidecar] \notin {Null, Empty}
  /\ answer' = NoAnswer
  /\ UNCHANGED <<mart, row>>

\* A record that does not fit spoils the list it is in.
Misfit(sidecar) ==
  \E d \in drift : d.sidecar = sidecar /\ SidecarField(sidecar, d.name, d.value) = Rejected

Delivered(stmt) ==
  [c \in stmt.cols |-> IF Misfit(c) THEN ListOf(<<"misfit">>) ELSE row[c]] ++ stmt.computed

Run(name) ==
  LET stmt == Statements[name] IN
    /\ stmt.mart = mart
    /\ answer' = [stmt |-> name, served |-> Validate(stmt.model, Delivered(stmt))]
    /\ UNCHANGED <<mart, row, drift>>

Next == Rebuild \/ Drift \/ \E name \in DOMAIN Statements : Run(name)

Spec == Init /\ [][Next]_vars

-----------------------------------------------------------------------------
Answered == answer # NoAnswer

\* The fields of the answered model that the mart has a column for.
Backed == DOMAIN answer.served \cap DOMAIN row

\* What the mart holds is what a reader gets: no value, UPCs in either shape among them,
\* has its row refused, and none is dropped for a model's default because its statement does not
\* select it (the table literals, _LIST_COLS and the defaults of the models).
HeldIsServed ==
  Answered /\ drift = {} =>
    /\ ~Refused(answer.served)
    /\ \A f \in Backed : row[f] # Null =>
         /\ answer.served[f].is = row[f].is
         /\ DOMAIN answer.served[f].items = DOMAIN row[f].items

\* What is served for a NULL: the lists whose NULL means something else than an empty list.
KeptNull == {"distribution_state_codes", "distribution_country_codes", "hazards"}

ServedForNull(f, type) ==
  IF f \in KeptNull THEN Null
  ELSE IF type \in DOMAIN ItemTypes THEN Empty
  ELSE IF type = "counts" THEN Scalar("counts") ELSE Null

\* The lists said to be never null are lists where the mart has NULL, and where an empty
\* list means something else than NULL the two are told apart (_none_to_list,
\* flatten_upcs, the descriptions of RecallDetail).
NullsAreToldApart ==
  Answered /\ drift = {} =>
    \A f \in Backed : row[f] = Null =>
      answer.served[f] = ServedForNull(f, Marts[mart][f].type)

\* A text field whose identifier is not gone and which has not become a boolean.
Bearable(d) ==
  LET field == Sidecars[d.sidecar][d.name] IN
    /\ field.kind \in {"str", "str_or_int"}
    /\ d.value = Null => field.null
    /\ d.value # Scalar("flag")

\* Whatever the text fields of registration records drift to, however many at once, the
\* firm is served, unless a required identifier is gone or a text has become a boolean,
\* which neither _collapse_nonscalars nor coerce_numbers_to_str minds (the former's
\* docstring: "guards the sidecars against future shape drift").
FirmsOutliveDrift ==
  Answered /\ (\A d \in drift : Bearable(d)) => ~Refused(answer.served)
=============================================================================
