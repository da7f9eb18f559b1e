# A model of the consumer product recalls API

TLA+ modules, TLC runs and TLAPS proofs for `src/recalls_api`, the read-only HTTP
API over the recall marts that a nightly pipeline builds in a Neon Postgres
database. The modules are written from the Python source; where they stand for
code outside it (SQLAlchemy's pool, asyncpg, Postgres, Neon, Starlette, slowapi),
they model what this code relies on, and `PROJECT.json` marks them external.

## The system

The service is one asyncio process per machine. It writes nothing: all its state is
the connection pool, the rate limiter's counters and what each request in flight
holds. The marts are replaced behind its back once a night, and Neon suspends its
compute when idle.

| Component | State | Operations | What makes it correct |
|---|---|---|---|
| Keyset pagination (`pagination.py`, `queries/`, `routers/recalls.py`, `routers/products.py`) | none on the server; the client's cursor | page statement, count statement, `slice_page`, mint a cursor | a walk gives every row that stays put exactly once, in order, and ends; `total` agrees with the pages |
| Cursor codec (`pagination.py`) | none; the token | `encode`, `decode`, `date_keyset_where`, `rank_keyset_where` | own tokens always work, foreign and altered ones are a 400 |
| Recall filters (`deps.py`, `queries/recalls.py`) | none | `split_query_list`, validation, `recalls_predicates` | they select what the parameters' descriptions say |
| Product search dispatch (`routers/products.py`) | none | `q` over `hin`/`model` over `upc` | page, count and cursor follow one selector |
| Request handling (`main.py`, `errors.py`, `logging.py`, `middleware.py`, `routers/`) | a position in the stack, a context variable, an exception on its way out | middleware, dependencies, handler, exception handlers | a status for every cause, one envelope, the request's own id, data cached and nothing else |
| Connection pool (`db.py`, `settings.py`) | idle and checked-out connections | take, ping, connect, return | bounded, nothing leaks, stale connections are never felt, every wait ends |
| Health probes (`routers/health.py`) | none | `/health`, `/health/db` | liveness never depends on Neon; no cache answers for the database |
| Statistics, detail and firm routes | none | one statement each | as request handling |
| Response models (`models/`) and table literals (`queries/`) | none | select, prepare, parse a row | what the mart holds is served; no shape a mart or an agency may deliver refuses a row |
| Rate limiter (`main.py`) | slowapi's windows, one per address and URL path, per process | count, 429 | a bounded burst for each path; a refused client is let back in; probes are exempt |
| Start-up (`main.py`, `db.py`, `settings.py`) | engine, settings read once | `get_settings`, `lifespan`, `open_pool`, `normalize_dsn`, `close_pool` | a sleeping Neon is no crash; a console URL connects and is checked |
| HTTP cache headers (`middleware.py`, `main.py`) | a start-up ETag | `dispatch` | no data past its max-age, no cached errors |
| OpenAPI export, deployment files | | | a script; when a process is replaced |

How they interact: a request passes CORS, request id, rate limit and cache
middleware; the router solves its dependencies, `get_conn` first, then parameters;
the handler builds its statement (filters, selector, seek condition), runs one or
two on the connection, cuts the page, mints a cursor and validates the rows; any
exception unwinds through `get_conn` to the handlers of `errors.py`, or past all
middleware to the catch-all. Requests share the event loop, the pool and Neon, and
pages of one walk share nothing but the client's cursor.

Hard to test, and therefore the subject of the properties: rebuilds between pages
and between a page and its count; retries with an old cursor; ties and full pages
at the limit; tokens coming back to the wrong place; whole-day date bounds; the
many ways a request can fail while it holds a connection; exhaustion and stale
connections after a suspend; which middleware a reply passes on each way out; a row
that does not fit its model; restarts while Neon sleeps or the secret changes;
refused clients and the limiter's windows; caches that outlive a rebuild or an
outage; columns, NULLs and shapes between a mart and the wire.
`PROJECT.json` lists them under `hazards`, each at its line, with the properties
that would catch it.

## Modules

- **Keyset** (pure). A row is the pair its cursor carries, sort value and id.
  `Precedes` is `ORDER BY sort DESC, id ASC`, `SeekWhere` the condition of
  `date_keyset_where` and `rank_keyset_where`, `Fetch` the statement with
  `LIMIT limit + 1`, `PageRows`/`HasNext` are `slice_page`, `NextCursor` the
  handlers' "cursor of `rows[-1]` if `has_next and page_rows`". A result is the set
  of its rows, because the order is strict and total.
- **PageWalk** extends Keyset. One client and the mart: `Ask` (`pagination_params`
  with the cap of `page_limit_max`), `List` (page statement and cursor), `Count`
  (the second statement of `with_total`), `Deliver`, `Fail` (503 or lost reply) and
  `Rebuild` (any other mart). A row of `Flawed` may fail `model_validate`: `ListUnfit`
  is the page statement where a row of the page does, `Reject` the 500 it ends in.
  The count is read before the rows are validated, which changes nothing the client
  sees, so `ListUnfit` goes straight to its end. `settled`, `rebuilt` and `received` are history
  variables. The mart is already restricted to the rows that match: Filters says
  which those are. All three paged endpoints share this protocol and differ in the
  sort value only, so one module stands for them.
- **ExactlyOnceFeed** extends Keyset: the abstract promise. A frontier moves
  forward; what it passes and has not changed is received; rows that changed may or
  may not be. `PageWalk!ImplementsFeed` is the refinement, with the client's cursor
  as the frontier and the rows of the settled ids as the settled rows.
- **Pool**: the pool as `make_engine` configures it, and Neon awake or asleep.
  `Take`, `Opened`/`OpenFails` (pre-ping or new connection), `Return`, `Sleep`
  (every open connection is dead), `Wake`.
- **Serving** extends Pool: the requests. `pc` is the position between two awaits;
  an action is what runs between them:
  `Arrive` (outer middleware, slowapi's own 429, routing), `GetEntry`, `Connected`,
  `ConnectFails`, `WaitTimesOut` (`get_conn`), `Validate` (the other dependencies,
  and the building of the statement), `Execute`, `ExecuteFails`, `Conclude`
  (200, `ResourceNotFound`, or `model_validate` raising), `Unwind` (out of
  `async with`), `Catch` (the registered handlers), `Crash` and `CatchAll`
  (Starlette's ServerErrorMiddleware), `Leave` (headers on the way out), `Close`
  (FastAPI runs the dependency's exit code after the reply is sent). Routes are
  five classes: `health`, `ready` (`/health/db`), `list` (list, search and
  statistics), `item` (detail, firm), `unknown`. Parameters are classed by where they
  fail: in validation, in decoding a cursor, in the handler, in building the statement,
  or, `unbindable`, only when its values are bound (a NUL byte in a text, a cursor of
  the right kind with a value or id of another type), which is a `DBAPIError` with
  nothing wrong with the database.
- **OneAnswerEach**: the abstract service. A request comes, meets trouble or not, and is
  answered once; `Outcomes` are the statuses its own parameters and its trouble allow,
  `AnswerOf` the rest of the answer, which follows from the status. No pool, no other
  request. `Serving!ImplementsService` is the refinement: a request is away while
  `"new"`, answered once its reply is sent (`closing`, `done`), troubled when `excused`.
- **MCServing**: Serving with `Symmetry`. Requests differ in name only; the run
  that checks liveness does not use it.
- **ProductSearch** (pure): `/products/search` over the classes of rows a search can
  tell apart. `Deciding` is the `match` over `q`, `hin`, `model`, `upc`; `OnPages` and
  `InTotal` are the predicates of the page statements and of the count statements,
  which the code states anew for `q` and shares otherwise; `HasUpc` the containment
  test, which fits the objects gold stores and not bare strings.
- **Cursors** extends ProductSearch: tokens by form, kind, the JSON type of the value
  and of the id; `Answer` is what a request with a token gets, check by check in the
  code's order; the client keeps one token and sends it, or an altered one, anywhere.
  A product search also keeps what its two statements matched. `Reshape` is the
  pipeline coming to store UPCs as bare strings, as `flatten_upcs` expects it to.
  `Binds` (what asyncpg and Postgres accept) is external.
- **Filters**: query fields with their spellings (`Raws`, mixed ones too), `Split`, `Valid`,
  `Matches` predicate by predicate, dates as the first and last instants of days.
  A nullable column is a set, empty for NULL. Of filters with one shape one stands
  for all: `source` (enum, also `distribution_scope`), `lifecycle_status` (text on
  a nullable column, also `classification`, and the single-valued `is_active`,
  `firm_id`, `source_recall_id`), `distribution_state` (array overlap, also
  `distribution_country`, with the codes put in upper case). `firm` (ILIKE) is left to the database.
- **MCFilters**: Filters with a concrete `str.upper` for the state codes.
- **Machine**: one machine's process through `Start` (`get_settings`), `OpenPool`
  (`lifespan`, with `normalize_dsn`, `make_engine` and the best-effort check in
  `Check`), `Stop`, and again, while an operator changes the secret (`SetSecret`) and
  Neon sleeps and wakes (`Neon`). A DSN is its form, its driver, its TLS parameters
  and whether its role may write. The limiter's counters live in the process, one for
  each of `Keys`, an address and a URL path: `default_limits` has no scope.
  `Admit` and `Refuse` are requests within and beyond the budget, `Tick` is time.
  `since`, `log` and `starts` are history variables; the last two hold, for
  each age within a window, how many admissions and starts are of that age or younger.
- **MCMachine**: Machine with five secrets: none, garbage, a console URL of a
  read-only role and of one that may write, and a URL with TLS turned off.
- **HttpCache**: a reader and, perhaps, a CDN before the service. `CacheControl` is
  the middleware's decision, `ETag` the process's tag on what it lets be kept and on
  nothing else, `Respond` an answer with both; what the
  caches do with them (keep, use while fresh, revalidate) is HTTP's and external.
  `Rebuild`, `Start` (restart or deploy) and `SleepOrWake` happen at any time.
- **Wire**: from the columns of the marts, with the types and NULLs the seeded gold
  schema gives them, through the fifteen statements' selected columns and the
  validators to the fields of the models. A value is its type; what pydantic accepts
  for a type (`Parse`) is external. `Rebuild` gives a mart any row of `Rows`, and
  `Drift` changes the shape of any set of fields of `Drifts` in a firm's registration
  records at once. `RowFits` and `Drifted` say what these may be: every column a value
  of its type or NULL where it may have one, every list of any length, every shape JSON
  has for a field.
- **MCWire**: Wire with the rows that are ordinary in all columns but one, lists of up
  to two, and drifts of one field or of all optional text fields of a record together.
- **PageWalkProofs, FeedProofs, ServingProofs, CursorsProofs, FiltersProofs,
  MachineProofs, HttpCacheProofs, WireProofs**: the proofs.

Operators whose comment begins with "A slip" are plausible mistakes in the
operation that follows. No specification uses them; each stands in for that
operation once, to see a property fail.

## Runs

| Run | Instance | Checks |
|---|---|---|
| `page_walk` | 3 ids, 2 sort values, limits up to 3 capped at 2, one row that may not fit | `TypeOK`, `SettledRowsOnce`, `PagesInOrder`, `FullUnlessLast`, `TotalAgrees`, `CursorAdvances`, `ImplementsFeed` |
| `page_walk_live` | 2 ids, 2 sort values, one row that may not fit, with fairness | `WalkEnds`, `OnlyUnfitHoldsBack` |
| `serving` | 2 requests of any route, pool 1+1, 2 statements | `TypeOK`, `StatusTellsCause`, `RepliesCarryTheirId`, `ConnectionsReturned`, `ImplementsService` |
| `serving_live` | 2 requests, pool 1+0, with fairness | `UnavailableOnlyWithExcuse`, `Answered`, `LivenessAnswers200` |
| `cursors` | all endpoints, selector sets and tokens, UPCs in both shapes | `TypeOK`, `MintedNeverBreaks`, `OwnSortOnly`, `TotalOfItsPages`, `LesserSelectorsChangeNothing` |
| `filters` | 2 agencies, 1 status, 2 state codes and one in lower case, 3 days, 2 filters set | `TypeOK`, `FiltersMeanWhatTheySay`, `DayWindowsPartition`, `Refines` |
| `machine` | 5 secrets, production, 1 client and 2 paths, 2 requests per window of 2 ticks, 2 starts per window, with fairness | `TypeOK`, `RefusedOnlyWithinWindow`, `BurstBound`, `ConsoleUrlIsChecked`, `ServesThroughSleep` |
| `http_cache` | max-age 2, 3 tags, pinned, with and without a CDN | `TypeOK`, `NeverStaleFirstHand`, `ProbesAreLive`, `OutagesAreNotKept` |
| `wire` | every mart and statement; rows off the ordinary in any one column; drifts of any one sidecar field or of all optional texts | `HeldIsServed`, `NullsAreToldApart`, `FirmsOutliveDrift` |
| `tampered`, `writable_role`, `never_stale` | as `cursors`, `machine`, `http_cache` with one tag | a document's claim each, see below |

Bounds, and why they are enough:

- `page_walk`: three rows on two sort values have ties inside a page, across a page
  boundary and across a rebuild; limits 1 and 2 make pages that are exactly full,
  that leave one row and that take all; a limit of 3 meets the cap. The row that may
  not fit can be first, in the middle, last or the probe row. The number of
  rebuilds, failures and retries is not bounded. A walk under two ids already has
  each of these but the tie across a boundary with a row behind it, which is not
  needed for termination. All but the two liveness properties are proved for every
  value of the constants.
- `serving`: two requests interleave on every step, meet at a full pool with one
  idle and one overflow entry, and Neon may sleep and wake at every point, any
  number of times. Each request is one arrival; a client that comes again is another
  request. In `serving_live` there is no overflow, so that two requests suffice for
  exhaustion and a wait. Every safety property here is proved for any number of
  requests and any pool.
- `cursors` has no bound beyond its classes of values: it is complete after a request,
  its follow-up and one more.
- `wire` goes through every column of every mart one at a time, with lists of up to two
  elements, and through every field of a sidecar alone or all optional texts of a
  sidecar together. The models validate each column on its own, so combinations bring
  nothing new; WireProofs shows it for all of them and for lists of any length.
- `machine`: a budget of 2 tells the last admitted request from the first refused;
  a window of 2 ticks lets two windows meet inside a stretch of one. `MaxStarts`
  bounds the starts in one window, which nothing in the code does; `BurstBound`
  counts them. Two paths of one client, so that one can be exhausted while the other
  is not; two clients would be two more keys of the same kind. MachineProofs has any
  number of both, any budget and any window.
- `http_cache`: at max-age 2 a copy can be new, half way and expired, and can be
  behind by more than its age; three tags are the running one, one still kept
  somewhere and a new one.
- `filters`: two values per field distinguish any-of from all-of; three days have two
  windows that adjoin and the last day of the calendar; with two filters set at once,
  combinations of fields are conjunctions already covered pairwise.

What they show: the pagination keeps its promise through rebuilds, failures and
limit changes, and one bad row holds back only what lies behind it; errors and
successes return their connections and tell their causes, and each request is answered
as if it were the only one; connections gone stale
in the pool cost nobody a 503; liveness never depends on Neon; minted cursors never
break the service; filters and selectors mean what they say, and totals count what
pages show; a console URL passes its check, and a sleeping Neon stops no start;
the limiter bounds what one address gets of one path and lets a refused one back in
when its window ends; without a CDN
nothing is shown past its max-age; every value a mart may hold reaches the wire.
`TotalAgrees` is stated for marts that were not rebuilt between the two
statements of a request, since nothing in the code gives them one snapshot.

### Where the code and its documents disagree

Three runs check one statement of the documents each, and TLC finds it violated:

- `tampered` (`TamperedIsRefused`): a cursor of the right kind with a string that
  is no date is a `ValueError` in `datetime.fromisoformat`, a 500. ADR 0004 names
  exactly this as what must not happen.
- `writable_role` (`WritableRefused`): `open_pool` asks the session whether it is
  read-only, and `make_engine` has just made it so. A role that may write passes the
  check; ADR 0001 says that it fails the boot loudly. The sessions are read-only all
  the same, by that very setting. But of the layers ADR 0001 lists the check tests the
  one this code adds itself, and tells nothing of the role.
- `never_stale` (`NeverStale`): the ETag is the start-up's, so it does not change
  when the mart is rebuilt. A CDN that has fetched the new data under the same tag
  answers a reader's revalidation with 304, and the reader's copy from before the
  rebuild passes for new. ADR 0007 says that this never serves stale data. First
  hand it does not, since no route answers 304 (`NeverStaleFirstHand`).

The properties of the passing runs state further ones as the code has them:

- The 429 is not the one the documents describe. `_on_rate_limited` (`main.py:60`) is a
  coroutine function, and SlowAPIMiddleware checks the limit in a plain one, which cannot
  await it and answers with slowapi's own `{"error": "Rate limit exceeded: ..."}`:
  no envelope, no request id in the body and, since the limiter's headers are not
  enabled, no `Retry-After` (`Serving!TurnedAway`; `StatusTellsCause`,
  `RepliesCarryTheirId`). ADR 0006:23 promises all three, and
  `api-reference.md:76` and `:93` the `Retry-After`; no request reaches
  `rate_limited_response`.
- The limit is not per address. slowapi's `default_limits` have no scope and its key
  style is the URL, so there is a counter for each address and path, and an address has
  a full budget for every path it asks for, each recall's page included
  (`Machine!Keys`; `BurstBound` is stated for what the code bounds). `main.py:34`,
  ADR 0006:19 and `api-reference.md:93` say 60 requests a minute per IP.
- A 503 need not mean trouble with the database. A value that asyncpg or Postgres
  cannot bind (a NUL byte in `q` or an id, a cursor of the right kind whose value or id
  has another type) is a `DBAPIError`, which `errors.py:168` maps to the 503 with
  `Retry-After`: the client is told to repeat what can never work
  (`UnavailableOnlyWithExcuse` has it as its one exception, `Serving!ExecuteFails`,
  `Cursors!Answer`). `api-reference.md:78` gives the 503 to a database that is
  unreachable or timed out.
- The catch-all 500 is made by Starlette's ServerErrorMiddleware after
  RequestIdMiddleware has reset the context variable: its envelope says
  `"request_id": "-"`, and it has neither `X-Request-ID` nor the CORS headers that
  `main.py:106` promises for every response (`RepliesCarryTheirId`,
  `StatusTellsCause`; ADR 0008 says every error body carries the id). The 404 of an
  unknown path has no envelope.
- A malformed firm id is refused only after `get_conn` has connected, so with Neon
  asleep it is a 503 (`Serving!GetEntry` precedes `Validate`; `routers/firms.py:47`
  says 422 before the DB).
- A row that breaks the wire contract raises pydantic's `ValidationError` in the
  handler, for which no exception handler is registered, and not the
  `ResponseValidationError` that has one (`Serving!Conclude`, `Caught`).
- `published_before=9999-12-31` overflows and is a 500 (`FiltersMeanWhatTheySay`
  has it as its one exception); a client that asks day by day gets no row of that day
  (`DayWindowsPartition`).
- With UPCs stored as bare strings every `upc` search comes back empty, though the
  models bear that shape and `models/common.py:17-19` calls it safe across the
  pending change (`HasUpc`; `LesserSelectorsChangeNothing` promises nothing there).
- `_collapse_nonscalars` guards text fields. A text that becomes a boolean, a flag
  that becomes anything else, or `prior_holders` that becomes a scalar or an object
  still costs the whole firm, although `models/firms.py:24` says the sidecars are
  guarded "against future shape drift" (`FirmsOutliveDrift`).
- `channel_binding=disable` turns TLS off, as `sslmode=disable` does
  (`Machine!Normalize`), though that is not what it asks.
- `data_contract.md:25` counts 17 list columns; `_LIST_COLS` has 18 (`Wire!ListCols`).

The tag of a cursor tells sort orders apart, and `OwnSortOnly` holds; it does not
tell `/recalls/search` from `/products/search`, which share the kind `r`.

## Fairness

- `Serving`: weak fairness of `Step(r)` for each request: the event loop runs every
  task that can go on, and each wait of a step has a deadline in the code
  (`timeout` and `command_timeout` in `make_engine`, and the pool's default
  timeout). Arrivals and Neon's sleeping and waking are not fair: clients need not
  come and Neon need not wake.
- `PageWalk`: the client keeps asking (weak fairness of `Ask`), and the steps of a
  request, if tried again and again, do not fail for ever (strong fairness of
  `List`, `ListUnfit`, `Count`, `Deliver`). This is an assumption on Neon and the network, not
  on the code: while Neon sleeps for ever no walk can end. Rebuilds are not fair and
  not bounded. `WalkEnds` is for a walk that has, from some point on, no unfit row
  ahead of it; `OnlyUnfitHoldsBack` for a mart that settles and a client that comes
  down to one row a page.
- `Machine`: time passes, the platform starts what is down and clears away a process
  that refused (weak fairness), and not every start is cut short (strong fairness of
  `OpenPool`). Neon need not wake, and a serving process may be stopped again and
  again. `ServesThroughSleep` is for a secret that stays a URL from the console.
- `HttpCache`, `Cursors`, `Filters`, `Wire` state no liveness.

## Proofs

Assumptions are those the modules name: `KeysetAssumption` (ids are a finite set of
integers, sort values integers, and `NoCursor` is no row), `PageWalkAssumption`
(`page_limit_max` lies in `1..LimitCeiling`, as `Settings` demands),
`PoolAssumption` (finitely many requests, `db_pool_size >= 1`,
`db_max_overflow >= 0`), `ServingAssumption`, `FiltersAssumption` (no value is the
empty string, states are codes in upper case, at least one day), `MachineAssumption` (some secret, a budget and
a window of at least one), `CacheAssumption` (the absence of a tag is no tag), `WireAssumption` (the rows a mart is given fit its
columns, and what drifts is a field of a sidecar, to a shape of JSON).

**PageWalkProofs** begins with the operators of Keyset: `Precedes` is a strict total
order on rows of different ids (`PrecedesStrictTotal`), the seek condition is that order
(`SeekFollowsOrder`), a nonempty finite set has a first and a last row, `FirstN` is
downward closed, bounded, and whole when it comes out short, and `PageCut` sums up:
the page and its next cursor leave no gap.

That a finished walk has every settled row is not inductive:
it needs to be known at each page. `WalkInv` says that what the client holds of a
settled row is the row as it stands (`SettledInv`), that the cursor is the last row
received (`CursorInv`), that settled rows up to the cursor have been received and
at the end all have (`SplitInv`), and that the reply under construction holds
exactly the settled rows from the cursor to its next cursor, or to the end when it
has none (`ReplyInv`). `Rebuild` keeps it because it can only shrink `settled`;
`Fail` because it drops the reply and keeps the cursor; `Deliver` moves what
`ReplyInv` says into `SplitInv`; `List` is `PageCut`. From it:
`SettledRowsExactlyOnce`, `PagesFollowInOrder`, `RepliesFullUnlessLast`,
`CursorOnlyAdvances`, and `WalkImplementsFeed`: `Deliver` maps to `Advance` or
`Finish`, `Rebuild` to `Unsettle` or a stutter, the rest to stutters. `TotalsAgree`
needs `TotalInv` besides: while the mart is not rebuilt every row of it is settled and
all that the client and the reply hold is of it, something matching follows every
next cursor, and a total is the count of the mart its page was read from. With
`SplitInv` and `ReplyInv` the last page then completes the count, and an earlier one
falls short of it.

Two more theorems are what the two liveness properties of a walk rest on besides
fairness. `RepliesRunOut`: with finitely many sort values, the places past the cursor
are finitely many (`PlacesFinite`), each delivered reply leaves strictly fewer of them,
and neither a failure nor a rebuild gives one back; this is the measure behind
`WalkEnds`. `RefusedForOwnRows`: a page is refused exactly when one of the first `limit`
rows ahead does not fit, because cutting the fetched rows is cutting everything ahead at
the same place (`FirstNTwice`); so the row that holds back a client of
`OnlyUnfitHoldsBack` is the first one ahead of it.

**FeedProofs** shows that the abstract feed deserves its name: it misses nothing
settled, splits the settled rows at its frontier and only reads forward. With the
refinement these hold of each paged endpoint.

**ServingProofs** is for any number of requests, any pool and any behaviour of Neon.
`TypeInv` needs the sum of idle entries bounded, because `Sleep` makes all of them
dead ones. `HoldInv` says where a connection may be held; `ExcuseInv` that each
source of a 503 already has its reason: Neon asleep during the request, a dead
connection in hand, a value of its own that cannot be bound, or the database error on
its way out; `IdInv` that the context
variable is the request's id from arrival to departure. From them: `ServingTypes`,
`UnavailableHasItsExcuse`, `EveryReplyItsOwnId`. `CauseInv` says, place by place, which
exception and which reply a request's parameters and route may lead to; `LeaveInv` that
a reply is made with a connection in hand only by a handler's result; `BoundInv` that
holders and idle entries together stay within the pool, a cardinality argument over what
`Take`, `Opened` and `Return` move. From them: `EveryStatusItsCause`,
`NoConnectionIsLost`.

`ServiceIsImplemented` is the refinement. `Arrive` maps to `Come`; `Leave` and
`CatchAll`, which send a reply, to `Answer`, by what `CauseInv`, `IdInv` and `ExcuseInv`
say of a request about to leave; `NeonSleeps` and a step that fails on its own to
`Trouble` or a stutter; the rest to stutters. Since `Outcomes` and `AnswerOf` have no
argument but the request's own, this is the statement that nothing leaks from one
request to another but trouble.

Two theorems are what the liveness properties rest on besides fairness. `HandsInv` ties
what a request holds to its route and its place; with it `ProbesStandAlone` shows that
`/health` never has a connection or an exception in hand and is answered 200.
`RequestsAreShort` gives every place a rank: each step of a request lowers its own and
nobody's step raises another's, so that a request has at most `MaxStatements + 9` steps,
however the pool is contended. That a step is always possible in the end, the other half
of `Answered`, is `ENABLED` and stays with TLC.

**CursorsProofs** turns on the code's definitions; its invariant, `CursorsInv`, only
carries them through a history: the token kept was minted for an order (`KeptInv`), a
token sent as the client's own is what its minter encodes (`SentInv`), the status is
the answer to the last request (`StatusInv`), what was found was found in a shape gold
has or had (`FoundInv`). Of minted tokens `AnswerToMinted` says what any endpoint makes
of them. From it: `CursorTypes`, `MintedCursorsAreSafe`, `PagesOfOwnSort`,
`TotalsOfPages`, `OthersChangeNothing`, for histories of any length.

**FiltersProofs** is for any sets of values, any calendar and any number of filters.
`AnswerInv` says that the row and the query are well-formed and the answer is the
query's own. From it `FiltersMean` (predicate by predicate, after lemmas on `Split`
and on the two ends of a day), `WindowsPartition` (the answer to the query of one day,
by `WindowAnswers`, and the days that take an instant, by `OwnDayAlone`) and, for a
step, `FiltersRefine`.

**MachineProofs**: `AdmittedInWindow`, that a window still open saw an admission since
it opened, gives `Refusals`, key by key; `ConsoleUrls` follows from what
`normalize_dsn` strips, for any set of secrets. `BurstBound`
alone is not inductive, since it forgets how much of a window is spent and when it
opened. `BurstInv` says for each age up to a window what may have been admitted within
it: a budget and one more for each start if the counter's window is over
(`SpentClosed`), the counter on top of that if it is open (`SpentOpen`), and no more
than the counter since it opened (`SpentInside`). A tick closes a window by turning the
third into the first. From it `BurstsAreBounded`, and `MachineTypes` on the way.
`SleepCutsNoBootShort` is the safety part of `ServesThroughSleep`: a start on a URL of
the console ends in serving unless the platform stops it, writable role or not.

**HttpCacheProofs**: `CacheInv` says that what is kept is a good answer of a data
route, and first hand no further behind than it is old. From it `CacheTypes`,
`FirstHandIsNeverStale`, `NoProbeIsKept`, `NoOutageIsKept`.

**WireProofs** is for every row a mart may hold, with any combination of values, lists of
any length and any number of fields drifting at once. `Suits` says of a column and the
field it is served as, from their types alone, that they agree; `Parsed` that then every
value the column may hold parses, and what a reader gets for its NULL; `Suited` that a
statement selects what its model needs. Each of the fifteen statements is `Suited`, by a
lemma of its own that goes through its table and its model (`StatementsSuited`);
`BearableParses` does the same for a field that drifts. `WireInv` carries this through a
history: the row fits its mart and the answer is what its statement makes of the row and
the drift now there. From it: `WhatIsHeldIsServed`, `NullsToldApart`,
`FirmsSurviveDrift`.

Only model-checked:

- All liveness (`WalkEnds`, `OnlyUnfitHoldsBack`, `Answered`, `LivenessAnswers200`,
  `ServesThroughSleep`): fairness and `ENABLED` are out of the prover's reach. For each
  of them a theorem above is the part that is not.
- The three statements of the documents that fail.

## Not modelled, and why

- Text: JSON, base64, md5 ids, full-text ranking, ILIKE. Only forms, order and
  equality matter to the properties. `compute_recall_event_id` is such a hash.
- Descriptions and examples of the models, log formatting, the OpenAPI script: wording,
  with no state.
- The optional source condition of the statistics and the order of their rows; the
  contents of `FirmRef` (a record to Wire) and of a count per agency.
- slowapi's storage is external: a counter for each address and path, a fixed window,
  gone with the process; so is the body of its 429. The routes' paths are classes, and
  what a counter holds beyond the limit makes no difference.
- The deploy workflow: when a process is replaced is a choice of Machine and
  HttpCache, which covers whatever CI decides. More than one machine: each has its own
  limiter and pool, and they share only Neon.
- `Last-Modified`, which a cache that has an ETag does not use.
- Disconnecting clients and task cancellation; requests without an `Origin` header
  (which get no CORS headers); methods other than GET.

## Plan

Written, in this order: Keyset, ExactlyOnceFeed, PageWalk; Pool and Serving; Cursors;
Filters; then rows that do not fit in PageWalk, ProductSearch, Machine, HttpCache,
Wire; the proofs beside each. Left:

1. Composing Serving with Machine, so that a request in flight meets the stop of its
   process, and `close_pool` the connections in use.
2. Cancellation: a client that disconnects while its request holds a connection.
