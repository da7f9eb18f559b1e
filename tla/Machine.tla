------------------------------- MODULE Machine -------------------------------
(***************************************************************************)
(* One machine of the service: the process on it from its start, through   *)
(* the best-effort check of its database connection, to its stop; and the  *)
(* rate limiter, whose counters live and die with the process.  SlowAPI    *)
(* keeps one for every address and URL path: the default limits of         *)
(* create_app name no scope of their own.                                  *)
(*                                                                         *)
(* The platform restarts what stopped, an operator may change the secret   *)
(* with the DSN at any time, and Neon sleeps and wakes as it likes.  Time  *)
(* passes in ticks; the windows of the limiter are whole ticks long.       *)
(***************************************************************************)
EXTENDS Integers

CONSTANTS Secrets,     \* what NEON_DATABASE_URL_RO may hold, see Dsns
          Production,  \* Settings.is_production
          Clients,     \* the addresses requests come from (get_remote_address)
          Paths,       \* the URL paths of the routes that are not exempt
          Limit,       \* requests per window in Settings.rate_limit_default
          Window,      \* the window, in ticks
          MaxStarts    \* bound: starts of a process within one window

TlsParams == {"sslmode", "channel_binding", "ssl"}  \* _LIBPQ_TLS_PARAMS

\* A DSN as it is written: its driver ("none" for a plain postgresql://), the TLS
\* parameters in its query, and whether its role may write by its own defaults.
\* Of one that is missing, or that make_url cannot parse, only that is known.
Dsns == [form : {"missing", "malformed", "url"},
         driver : {"none", "asyncpg", "other"},
         tls : [TlsParams -> {"absent", "require", "disable"}],
         writable : BOOLEAN]

ASSUME MachineAssumption ==
  /\ Secrets \subseteq Dsns /\ Secrets # {}
  /\ Production \in BOOLEAN
  /\ Limit \in Nat \ {0} /\ MaxStarts \in Nat \ {0}
  /\ Window \in Nat \ {0}

\* What slowapi counts by.
Keys == Clients \X Paths

VARIABLES
  secret,   \* what the platform holds
  dsn,      \* what the process has read, cached by get_settings
  proc,     \* "down", "starting", "serving" or "refused"
  checked,  \* the check at boot: "no", "skipped" or "passed"
  db,       \* Neon: "awake" or "asleep"
  count,    \* the limiter's counter of each key, up to Limit
  age,      \* ticks since the key's window opened, up to Window + 1
  since,    \* history: ticks since the key was last admitted, up to Window
  log,      \* history: log[k][t], admissions of key k of an age of at most t ticks
  starts    \* history: starts[t], starts of a process of an age of at most t ticks

boot == <<secret, dsn, proc, checked, db>>
limiter == <<count, age>>
history == <<since, log, starts>>
vars == <<boot, limiter, history>>

Recent == 0..(Window - 1)
Counted(f) == [t \in Recent |-> f[t] + 1]
Older(f) == [t \in Recent |-> IF t = 0 THEN 0 ELSE f[t - 1]]
InWindow(f) == f[Window - 1]

TypeOK ==
  /\ secret \in Secrets /\ dsn \in Secrets
  /\ proc \in {"down", "starting", "serving", "refused"}
  /\ checked \in {"no", "skipped", "passed"}
  /\ db \in {"awake", "asleep"}
  /\ count \in [Keys -> 0..Limit]
  /\ age \in [Keys -> 0..(Window + 1)]
  /\ since \in [Keys -> 0..Window]
  /\ log \in [Keys -> [Recent -> Nat]]
  /\ starts \in [Recent -> 0..MaxStarts]

Init ==
  /\ secret \in Secrets /\ dsn = secret
  /\ proc = "down" /\ checked = "no"
  /\ db \in {"awake", "asleep"}
  /\ count = [k \in Keys |-> 0]
  /\ age = [k \in Keys |-> Window]
  /\ since = [k \in Keys |-> Window]
  /\ log = [k \in Keys |-> [t \in Recent |-> 0]]
  /\ starts = [t \in Recent |-> 0]

-----------------------------------------------------------------------------
\* normalize_dsn: the driver, the parameters left for asyncpg, and whether TLS is on.
\* A slip: channel_binding, which came with newer console URLs, is not stripped.
NormalizeSslOnly(d) ==
  [driver |-> IF d.driver = "none" THEN "asyncpg" ELSE d.driver,
   query |-> {p \in {"channel_binding"} : d.tls[p] # "absent"},
   tls |-> \A p \in TlsParams : d.tls[p] # "disable"]

Normalize(d) ==
  [driver |-> IF d.driver = "none" THEN "asyncpg" ELSE d.driver,
   query |-> {},
   tls |-> \A p \in TlsParams : d.tls[p] # "disable"]

\* make_url and create_async_engine accept it.
Builds(d) == d.form = "url" /\ Normalize(d).driver = "asyncpg"

\* asyncpg takes no libpq parameters, and Neon no connection without TLS.
Reaches(d) == db = "awake" /\ Normalize(d).query = {} /\ Normalize(d).tls

\* The server_settings make_engine sends with every connection.
ServerSettings ==
  {"default_transaction_read_only", "statement_timeout", "timezone", "application_name"}

\* transaction_read_only of a session: what the client sends prevails over the
\* defaults of the role.
ReadOnly(d) == "default_transaction_read_only" \in ServerSettings \/ ~d.writable

\* get_settings at create_app: without a DSN the process ends at once.  Its limiter
\* is new.
Start ==
  /\ proc = "down"
  /\ InWindow(starts) < MaxStarts
  /\ starts' = Counted(starts)
  /\ dsn' = secret
  /\ proc' = IF secret.form = "missing" THEN "refused" ELSE "starting"
  /\ checked' = "no"
  /\ count' = [k \in Keys |-> 0]
  /\ age' = [k \in Keys |-> Window]
  /\ UNCHANGED <<secret, db, since, log>>

\* A slip: what connecting raises is let through.
CheckMustConnect ==
  IF ~Builds(dsn) \/ ~Reaches(dsn) THEN "refused"
  ELSE IF ~ReadOnly(dsn) /\ Production THEN "refused" ELSE "passed"

\* open_pool: how the check at boot comes out.
Check ==
  IF ~Builds(dsn) THEN "refused"
  ELSE IF ~Reaches(dsn) THEN "skipped"
  ELSE IF ~ReadOnly(dsn) /\ Production THEN "refused" ELSE "passed"

\* A slip: an "except" wide enough for the refusals too.
OpenPoolForgiving ==
  /\ proc = "starting"
  /\ proc' = "serving" /\ checked' = Check
  /\ UNCHANGED <<secret, dsn, db, limiter, history>>

\* lifespan runs open_pool before anything is served.
OpenPool ==
  /\ proc = "starting"
  /\ IF Check = "refused"
       THEN proc' = "refused" /\ checked' = checked
       ELSE proc' = "serving" /\ checked' = Check
  /\ UNCHANGED <<secret, dsn, db, limiter, history>>

\* The process is stopped, or crashes; or the platform clears away one that refused.
Stop ==
  /\ proc # "down"
  /\ proc' = "down"
  /\ UNCHANGED <<secret, dsn, checked, db, limiter, history>>

-----------------------------------------------------------------------------
\* slowapi's fixed window, in its MemoryStorage: it opens with the first request of a
\* key, and the counter of a window that has passed starts anew.
Expired(k) == age[k] >= Window

Used(k) == IF Expired(k) THEN 0 ELSE count[k]

\* A slip: one request too many within a window.
WithinOneOver(k) == Used(k) <= Limit

Within(k) == Used(k) < Limit

\* A request of the window's budget: it is counted, and opens a window if there is none.
Admit(k) ==
  /\ proc = "serving" /\ Within(k)
  /\ count' = [count EXCEPT ![k] = IF Used(k) < Limit THEN Used(k) + 1 ELSE Limit]
  /\ age' = [age EXCEPT ![k] = IF Expired(k) THEN 0 ELSE @]
  /\ since' = [since EXCEPT ![k] = 0]
  /\ log' = [log EXCEPT ![k] = Counted(@)]
  /\ UNCHANGED <<secret, dsn, proc, checked, db, starts>>

\* A slip: every request opens the window anew.
RefuseElastic(k) ==
  /\ proc = "serving" /\ ~Within(k)
  /\ age' = [age EXCEPT ![k] = 0]
  /\ UNCHANGED <<boot, count, history>>

\* SlowAPIMiddleware answers with a 429, which leaves the window where it is; what the
\* counter holds beyond the limit makes no difference.
Refuse(k) ==
  /\ proc = "serving" /\ ~Within(k)
  /\ UNCHANGED <<boot, limiter, history>>

Tick ==
  /\ age' = [k \in Keys |-> IF age[k] <= Window THEN age[k] + 1 ELSE age[k]]
  /\ since' = [k \in Keys |-> IF since[k] < Window THEN since[k] + 1 ELSE since[k]]
  /\ log' = [k \in Keys |-> Older(log[k])]
  /\ starts' = Older(starts)
  /\ UNCHANGED <<boot, count>>

SetSecret ==
  /\ secret' \in Secrets \ {secret}
  /\ UNCHANGED <<dsn, proc, checked, db, limiter, history>>

Neon ==
  /\ db' \in {"awake", "asleep"} \ {db}
  /\ UNCHANGED <<secret, dsn, proc, checked, limiter, history>>

Next ==
  \/ Start \/ OpenPool \/ Stop \/ SetSecret \/ Neon \/ Tick
  \/ \E k \in Keys : Admit(k) \/ Refuse(k)

\* Time passes, the platform starts what is down and clears away what has refused, and
\* not every start is cut short.  Neon need not wake, and a process that serves may be
\* stopped at any time, and again.
Fairness ==
  /\ WF_vars(Tick) /\ WF_vars(Start) /\ SF_vars(OpenPool)
  /\ WF_vars(proc = "refused" /\ Stop)

Spec == Init /\ [][Next]_vars
FairSpec == Spec /\ Fairness

-----------------------------------------------------------------------------
\* What the Neon console hands out: no driver, and TLS asked for.
FromConsole(d) ==
  /\ d.form = "url" /\ d.driver = "none"
  /\ \A p \in TlsParams : d.tls[p] # "disable"

\* A URL pasted from the console, for the role it is meant for, is not merely survived
\* at boot: when Neon is awake the process connects with it and makes its check
\* (normalize_dsn; a URL asyncpg cannot take would be skipped as if Neon slept).
ConsoleUrlIsChecked ==
  [][OpenPool /\ FromConsole(dsn) /\ ~dsn.writable /\ db = "awake"
       => proc' = "serving" /\ checked' = "passed"]_vars

\* Whoever is refused at a path has been admitted at that very path less than a window
\* ago: neither its refused calls there nor anything it asks for elsewhere puts off the
\* end of its window, nor does a restart, and no refusal outlasts one
\* (the Limiter of create_app).
RefusedOnlyWithinWindow ==
  \A k \in Keys : proc = "serving" /\ ~Within(k) => since[k] < Window

\* What the limiter lets through for one address and one path in any stretch of one
\* window: the budgets of the two windows that may meet in it, and one more for every
\* start of a process, whose MemoryStorage is empty.  For an address alone there is no
\* such bound: it has a budget for every path it asks for, each recall's page included
\* (the Limiter of create_app).
BurstBound == \A k \in Keys : InWindow(log[k]) <= Limit * (2 + InWindow(starts))

\* Once the secret stays a URL from the console, the machine serves again and again,
\* even if Neon never wakes: a sleeping Neon does not crash-loop the machine (open_pool's
\* docstring, fly.toml's checks of /health alone).
ServesThroughSleep == <>[]FromConsole(secret) => []<>(proc = "serving")

\* Decision 0001: a misconfigured writable DSN fails the boot in production.  The code
\* asks the session, which its own server_settings have made read-only.
WritableRefused == Production /\ checked = "passed" => ~dsn.writable
=============================================================================
