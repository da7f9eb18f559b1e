------------------------------ MODULE Serving ------------------------------
(***************************************************************************)
(* Requests in flight: each passes the middleware stack of create_app, has *)
(* its dependencies solved in the order of the route's signature (get_conn *)
(* comes first), runs its handler's statements, and leaves through the     *)
(* exception handlers of errors.py or as the handler's result.  Requests   *)
(* share the event loop, the connection pool and Neon; a step is what runs *)
(* between two awaits.                                                     *)
(*                                                                         *)
(* The stack, outermost first: Starlette's ServerErrorMiddleware (which    *)
(* runs the handler registered for Exception), CORS, RequestId, SlowAPI,   *)
(* CacheControl, Starlette's ExceptionMiddleware (which runs the other     *)
(* handlers), the router.  SlowAPIMiddleware answers a request over the    *)
(* limit itself, and the two inside of it never see that request.          *)
(***************************************************************************)
EXTENDS Pool

CONSTANTS Served,        \* the kinds of route clients ask for, see Routes
          MaxStatements  \* SELECTs one handler may run (2 with with_total)

\* health is /health, ready is /health/db; list stands for the routes with
\* queries only, item for those with an id in the path.
Routes == {"health", "ready", "list", "item", "unknown"}

ASSUME ServingAssumption ==
  /\ Served \subseteq Routes
  /\ MaxStatements \in Nat \ {0}

VARIABLES
  pc,      \* where each request is
  want,    \* what each request asks for
  left,    \* how many statements its handler has still to run
  raised,  \* the exception on its way out, or "nothing"
  ctx,     \* the request_id context variable in the request's task
  reply,   \* what the client is sent
  excused  \* history: Neon slept, or the pool or a statement ran out of time,
           \* while the request was in flight

reqVars == <<pc, want, left, raised, ctx, reply, excused>>
vars == <<poolVars, reqVars>>

Unset == "-"  \* the default of the context variable

\* An invalid parameter fails FastAPI's validation.  The rest pass it: a badCursor
\* does not decode or is of another kind; the handler itself refuses an unknown
\* source or a search with no selector; an unusable value breaks the building of the
\* statement (a cursor date that is no date, the last day of the calendar); and an
\* unbindable one only its execution (a NUL byte in a text or an id, a cursor of the
\* right kind whose value or id has the wrong type).
Wants == [route : {"health", "ready", "unknown"}, params : {"valid"}]
           \cup [route : {"list"}, params : {"valid", "invalid", "badCursor", "refused",
                                            "unusable", "unbindable"}]
           \cup [route : {"item"}, params : {"valid", "invalid", "refused", "unbindable"}]

Exceptions == {"nothing", "BadCursor", "InvalidParameter", "RequestValidationError",
               "ResourceNotFound", "HTTPException", "DBError", "ValidationError", "Unexpected"}

PCs == {"new", "connecting", "validating", "handling", "raising", "crashed",
        "leaving", "closing", "done"}

Ids == Requests \cup {Unset}

\* A reply before the middleware adds its headers.
Bare(status, envelope, id, retryAfter) ==
  [status |-> status, envelope |-> envelope, bodyId |-> id, retryAfter |-> retryAfter,
   headerId |-> Unset, cors |-> FALSE, cache |-> "none"]

NoReply == Bare(0, FALSE, Unset, FALSE)
Replies == [status : {0, 200, 400, 404, 422, 429, 500, 503}, envelope : BOOLEAN,
            bodyId : Ids, retryAfter : BOOLEAN, headerId : Ids, cors : BOOLEAN,
            cache : {"none", "no-store", "public"}]

TypeOK ==
  /\ PoolTypeOK
  /\ pc \in [Requests -> PCs]
  /\ want \in [Requests -> Wants]
  /\ left \in [Requests -> 0..MaxStatements]
  /\ raised \in [Requests -> Exceptions]
  /\ ctx \in [Requests -> Ids]
  /\ reply \in [Requests -> Replies]
  /\ excused \in [Requests -> BOOLEAN]

Init ==
  /\ PoolInit
  /\ pc = [r \in Requests |-> "new"]
  /\ want = [r \in Requests |-> [route |-> "health", params |-> "valid"]]
  /\ left = [r \in Requests |-> 0]
  /\ raised = [r \in Requests |-> "nothing"]
  /\ ctx = [r \in Requests |-> Unset]
  /\ reply = [r \in Requests |-> NoReply]
  /\ excused = [r \in Requests |-> FALSE]

-----------------------------------------------------------------------------
\* A slip: the handlers run outside of RequestIdMiddleware, where no id is bound.
EnvelopeOutside(r, status, retryAfter) == Bare(status, TRUE, Unset, retryAfter)

\* The reply of a handler of errors.py: the uniform envelope with the request id
\* its context variable holds when the handler runs.
Envelope(r, status, retryAfter) == Bare(status, TRUE, ctx[r], retryAfter)

\* A handler's result, or a body that Starlette (of an HTTPException) or slowapi makes.
Plain(status) == Bare(status, FALSE, Unset, FALSE)

\* The exception types register_error_handlers gives a handler of their own, and
\* HTTPException, which has FastAPI's.  None is for pydantic's ValidationError, which
\* model_validate raises (the one registered is for FastAPI's
\* ResponseValidationError), or for the Unexpected: ValueError, OverflowError.
Caught(exc) == exc \in Exceptions \ {"nothing", "ValidationError", "Unexpected"}

\* _db_error_handler.  A slip: without the header that makes a client come back.
UnavailableForGood(r) == Envelope(r, 503, FALSE)

Unavailable(r) == Envelope(r, 503, TRUE)

Handled(r, exc) ==
  CASE exc = "BadCursor"        -> Envelope(r, 400, FALSE)
    [] exc = "ResourceNotFound" -> Envelope(r, 404, FALSE)
    [] exc = "DBError"          -> Unavailable(r)
    [] exc = "HTTPException"    -> Plain(404)
    [] OTHER                    -> Envelope(r, 422, FALSE)

Fault(params) ==
  CASE params = "badCursor" -> "BadCursor"
    [] params = "invalid"   -> "RequestValidationError"
    [] params = "refused"   -> "InvalidParameter"
    [] OTHER                -> "Unexpected"

Raise(r, exc) == /\ raised' = [raised EXCEPT ![r] = exc]
                 /\ pc' = [pc EXCEPT ![r] = "raising"]

Goto(r, place) == pc' = [pc EXCEPT ![r] = place]

\* SlowAPIMiddleware checks the limit in a plain function, which does not await
\* _on_rate_limited: it answers with slowapi's own {"error": "Rate limit exceeded"}.
TurnedAway == Plain(429)

\* The routes that depend on get_conn.  A slip: the liveness probe does as well.
AnyRouteConnects(route) == route # "unknown"

Connects(route) == route \notin {"unknown", "health"}

Statements(route) ==
  CASE route = "list" -> 1..MaxStatements
    [] route \in {"item", "ready"} -> {1}
    [] OTHER -> {0}

-----------------------------------------------------------------------------
\* A request comes in: RequestIdMiddleware binds its id, SlowAPI may turn it away
\* (never a health route), and the router finds its route or does not.
Arrive(r) ==
  /\ pc[r] = "new"
  /\ ctx' = [ctx EXCEPT ![r] = r]
  /\ excused' = [excused EXCEPT ![r] = (db = "asleep")]
  /\ \E w \in {w \in Wants : w.route \in Served} :
       /\ want' = [want EXCEPT ![r] = w]
       /\ \/ /\ w.route \in {"list", "item"}
             /\ reply' = [reply EXCEPT ![r] = TurnedAway]
             /\ Goto(r, "leaving")
             /\ UNCHANGED raised
          \/ /\ w.route = "unknown" /\ Raise(r, "HTTPException")
             /\ UNCHANGED reply
          \/ /\ w.route = "health" /\ ~Connects(w.route) /\ Goto(r, "handling")
             /\ UNCHANGED <<raised, reply>>
          \/ /\ Connects(w.route) /\ Goto(r, "connecting")
             /\ UNCHANGED <<raised, reply>>
  /\ UNCHANGED <<poolVars, left>>

\* The first dependency, get_conn: engine.connect() waits for a pool entry, then
\* for the entry to be pinged or connected.
GetEntry(r) ==
  /\ pc[r] = "connecting"
  /\ Take(r)
  /\ IF conn'[r] = "opening" THEN UNCHANGED pc ELSE Goto(r, "validating")
  /\ UNCHANGED <<want, left, raised, ctx, reply, excused>>

Connected(r) ==
  /\ pc[r] = "connecting"
  /\ Opened(r)
  /\ Goto(r, "validating")
  /\ UNCHANGED <<want, left, raised, ctx, reply, excused>>

ConnectFails(r) ==
  /\ pc[r] = "connecting"
  /\ OpenFails(r)
  /\ Raise(r, "DBError")
  /\ UNCHANGED <<want, left, ctx, reply, excused>>

\* The pool's own timeout, while every connection it may open is in use.
WaitTimesOut(r) ==
  /\ pc[r] = "connecting" /\ conn[r] = "none" /\ Exhausted
  /\ Raise(r, "DBError")
  /\ excused' = [excused EXCEPT ![r] = TRUE]
  /\ UNCHANGED <<poolVars, want, left, ctx, reply>>

\* A statement can be built of the parameters.
Passes(params) == params \in {"valid", "unbindable"}

\* The other dependencies and parameters are validated, and the handler builds its
\* statement, with the connection in hand.
Validate(r) ==
  /\ pc[r] = "validating"
  /\ \/ /\ ~Passes(want[r].params)
        /\ Raise(r, Fault(want[r].params))
        /\ UNCHANGED left
     \/ /\ Passes(want[r].params)
        /\ \E n \in Statements(want[r].route) : left' = [left EXCEPT ![r] = n]
        /\ Goto(r, "handling")
        /\ UNCHANGED raised
  /\ UNCHANGED <<poolVars, want, ctx, reply, excused>>

\* conn.execute returns; every parameter is bound by the first statement already.
Execute(r) ==
  /\ pc[r] = "handling" /\ left[r] > 0 /\ conn[r] = "live"
  /\ want[r].params = "valid"
  /\ left' = [left EXCEPT ![r] = @ - 1]
  /\ UNCHANGED <<poolVars, pc, want, raised, ctx, reply, excused>>

\* conn.execute raises: the connection is dead, or the statement outlived
\* command_timeout; or nothing is wrong with the database, and asyncpg or Postgres
\* cannot take a value of the request's own.  All of it is a DBAPIError.
ExecuteFails(r) ==
  /\ pc[r] = "handling" /\ left[r] > 0
  /\ Raise(r, "DBError")
  /\ \/ excused' = [excused EXCEPT ![r] = @ \/ conn[r] = "live"]
     \/ want[r].params = "unbindable" /\ UNCHANGED excused
  /\ UNCHANGED <<poolVars, want, left, ctx, reply>>

\* The statements are done: the rows fit the response model, there is no row, or
\* a value in them does not fit the model (model_validate raises).
Conclude(r) ==
  /\ pc[r] = "handling" /\ left[r] = 0
  /\ \/ /\ Goto(r, "leaving")
        /\ reply' = [reply EXCEPT ![r] = Plain(200)]
        /\ UNCHANGED raised
     \/ /\ want[r].route = "item" /\ Raise(r, "ResourceNotFound")
        /\ UNCHANGED reply
     \/ /\ want[r].route \in {"item", "list"} /\ Raise(r, "ValidationError")
        /\ UNCHANGED reply
  /\ UNCHANGED <<poolVars, want, left, ctx, excused>>

\* An exception passes through get_conn's "async with", which returns the
\* connection, before any handler sees it.
Unwind(r) ==
  /\ pc[r] = "raising"
  /\ Return(r)
  /\ UNCHANGED reqVars

\* A slip: the reply is made while the connection is still held, and never returned.
CatchEarly(r) ==
  /\ pc[r] = "raising" /\ Caught(raised[r])
  /\ reply' = [reply EXCEPT ![r] = Handled(r, raised[r])]
  /\ raised' = [raised EXCEPT ![r] = "nothing"]
  /\ Goto(r, "leaving")
  /\ UNCHANGED <<poolVars, want, left, ctx, excused>>

Catch(r) ==
  /\ pc[r] = "raising" /\ conn[r] = "none" /\ Caught(raised[r])
  /\ reply' = [reply EXCEPT ![r] = Handled(r, raised[r])]
  /\ raised' = [raised EXCEPT ![r] = "nothing"]
  /\ Goto(r, "leaving")
  /\ UNCHANGED <<poolVars, want, left, ctx, excused>>

\* No handler: the exception runs through every middleware.  RequestIdMiddleware
\* resets the context variable in its "finally".
Crash(r) ==
  /\ pc[r] = "raising" /\ conn[r] = "none" /\ ~Caught(raised[r])
  /\ ctx' = [ctx EXCEPT ![r] = Unset]
  /\ Goto(r, "crashed")
  /\ UNCHANGED <<poolVars, want, left, raised, reply, excused>>

\* ServerErrorMiddleware calls _catch_all_handler and sends what it returns.
CatchAll(r) ==
  /\ pc[r] = "crashed"
  /\ reply' = [reply EXCEPT ![r] = Envelope(r, 500, FALSE)]
  /\ raised' = [raised EXCEPT ![r] = "nothing"]
  /\ Goto(r, "done")
  /\ UNCHANGED <<poolVars, want, left, ctx, excused>>

\* A slip: data routes are cached whatever their status.
CacheAnyStatus(route, status) ==
  IF route \in {"health", "ready"} THEN "no-store" ELSE "public"

\* CacheControlMiddleware.dispatch
CacheHeader(route, status) ==
  IF route \in {"health", "ready"} THEN "no-store"
  ELSE IF status = 200 THEN "public" ELSE "none"

\* A reply with the headers the middleware adds.
Sent(r) ==
  [status |-> reply[r].status, envelope |-> reply[r].envelope,
   bodyId |-> reply[r].bodyId, retryAfter |-> reply[r].retryAfter,
   headerId |-> ctx[r], cors |-> TRUE,
   cache |-> CacheHeader(want[r].route, reply[r].status)]

\* The reply goes out through CacheControl, RequestId and CORS.
Leave(r) ==
  /\ pc[r] = "leaving"
  /\ reply' = [reply EXCEPT ![r] = Sent(r)]
  /\ ctx' = [ctx EXCEPT ![r] = Unset]
  /\ Goto(r, IF conn[r] = "none" THEN "done" ELSE "closing")
  /\ UNCHANGED <<poolVars, want, left, raised, excused>>

\* After the reply is sent the dependency's exit code returns the connection.
Close(r) ==
  /\ pc[r] = "closing"
  /\ Return(r)
  /\ Goto(r, "done")
  /\ UNCHANGED <<want, left, raised, ctx, reply, excused>>

NeonSleeps ==
  /\ Sleep
  /\ excused' = [r \in Requests |-> excused[r] \/ pc[r] \notin {"new", "done"}]
  /\ UNCHANGED <<pc, want, left, raised, ctx, reply>>

NeonWakes == Wake /\ UNCHANGED reqVars

\* What the event loop, the pool and the driver do for one request.
Step(r) ==
  \/ GetEntry(r) \/ Connected(r) \/ ConnectFails(r) \/ WaitTimesOut(r)
  \/ Validate(r) \/ Execute(r) \/ ExecuteFails(r) \/ Conclude(r)
  \/ Unwind(r) \/ Catch(r) \/ Crash(r) \/ CatchAll(r) \/ Leave(r) \/ Close(r)

Next ==
  \/ \E r \in Requests : Arrive(r) \/ Step(r)
  \/ NeonSleeps \/ NeonWakes

\* Every task gets its turn, and the pool, connect and command timeouts bound
\* every wait; clients need not come, and Neon need not wake.
Fairness == \A r \in Requests : WF_vars(Step(r))

Spec == Init /\ [][Next]_vars
FairSpec == Spec /\ Fairness

-----------------------------------------------------------------------------
Done(r) == pc[r] = "done"

\* Whatever way a request ends, by its result, a handled error or a crash, its
\* connection is back in the pool; an error reply is not even made before that;
\* and the connections open at Neon, in use or idle, never outnumber pool_size
\* plus max_overflow.  (get_conn, make_engine)
ConnectionsReturned ==
  /\ Cardinality(Holders) + Idle <= PoolSize + MaxOverflow
  /\ \A r \in Requests :
       conn[r] # "none" =>
         \/ pc[r] \in {"connecting", "validating", "handling", "raising"}
         \/ pc[r] \in {"leaving", "closing"} /\ reply[r].status = 200

\* A request is told that the database is unavailable only when, while it was in
\* flight, Neon slept, the pool was exhausted or a statement ran out of time, or when
\* it carries a value that cannot be bound, whose DBAPIError is the one other source of
\* a 503: a connection Neon dropped before the request came never costs it one
\* (pool_pre_ping in make_engine, _db_error_handler, register_error_handlers).
UnavailableOnlyWithExcuse ==
  \A r \in Requests :
    reply[r].status = 503 => excused[r] \/ want[r].params = "unbindable"

\* A reply's status tells why the request ended as it did.  The 503, and it alone, comes
\* with Retry-After: a request over the limit is not told when to come back.  Of all
\* replies only the catch-all 500 misses the CORS headers, and of all errors only
\* slowapi's 429 and the 404 of a path no route matches miss the envelope.  A value that
\* cannot be bound never ends in a 200.  (errors.py, create_app, SlowAPIMiddleware)
StatusTellsCause ==
  \A r \in Requests : Done(r) =>
    LET w == want[r]  status == reply[r].status IN
    /\ reply[r].retryAfter <=> status = 503
    /\ status = 200 => w.params = "valid" /\ left[r] = 0
    /\ status = 400 => w.params = "badCursor"
    /\ status = 404 => w.route = "unknown" \/ (w.route = "item" /\ w.params = "valid")
    /\ status = 422 => w.params \in {"invalid", "refused"}
    /\ status = 429 => w.route \notin {"health", "ready"}
    /\ status = 500 => w.params \in {"valid", "unusable"}
    /\ status = 503 => w.route \notin {"health", "unknown"}
    /\ reply[r].cors <=> status # 500
    /\ reply[r].envelope <=> status \notin {200, 429} /\ w.route # "unknown"

\* What of its id a client can quote to find its request in the log: the header, on
\* every reply that leaves through RequestIdMiddleware, slowapi's 429 included; and the
\* same id in the envelope of every error a handler of errors.py made within it.  The
\* bodies of slowapi and of Starlette hold none, and the catch-all's 500, made when the
\* middleware's "finally" has already reset the variable, is the one reply without an
\* id anywhere.  (RequestIdMiddleware.dispatch, _envelope, _catch_all_handler)
RepliesCarryTheirId ==
  \A r \in Requests : Done(r) =>
    /\ reply[r].headerId = IF reply[r].status = 500 THEN Unset ELSE r
    /\ reply[r].bodyId = IF reply[r].envelope /\ reply[r].status # 500 THEN r ELSE Unset

\* Each request is answered once, as its own parameters and troubles allow and as if it
\* were alone, whatever else shares the event loop, the pool and Neon with it; the
\* answer, once sent, stays, and a cache is told to keep data and neither an error nor
\* a probe's answer.  (create_app, errors.py, CacheControlMiddleware.dispatch, get_conn)
Service == INSTANCE OneAnswerEach
             WITH place <- [r \in Requests |-> IF pc[r] = "new" THEN "away"
                                               ELSE IF pc[r] \in {"closing", "done"}
                                                 THEN "answered" ELSE "waiting"],
                  asked <- want,
                  troubled <- {r \in Requests : excused[r]},
                  answer <- [r \in Requests |-> IF pc[r] \in {"closing", "done"}
                                                  THEN reply[r] ELSE NoReply]
ImplementsService == Service!Spec

\* Every request that comes in is answered and lets its connection go, even if
\* Neon never wakes: nothing waits without a deadline (the timeouts of make_engine).
Answered == \A r \in Requests : pc[r] # "new" ~> Done(r) /\ conn[r] = "none"

\* The liveness probe is answered 200 whatever becomes of Neon and of the pool.
\* (routers/health.py health)
LivenessAnswers200 ==
  \A r \in Requests :
    (pc[r] # "new" /\ want[r].route = "health") ~> (Done(r) /\ reply[r].status = 200)

=============================================================================
