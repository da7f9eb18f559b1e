-------------------------------- MODULE Pool --------------------------------
(***************************************************************************)
(* The bounded connection pool of make_engine and the Neon database behind *)
(* it.  The pool itself is SQLAlchemy's; what is modelled is how db.py     *)
(* configures it (pool_size, max_overflow, pool_pre_ping, pool_recycle)    *)
(* and how get_conn takes and returns a connection.                        *)
(*                                                                         *)
(* Neon suspends idle compute: every connection open at that moment is     *)
(* dead from then on, and connecting fails until the compute has woken.    *)
(***************************************************************************)
EXTENDS Integers, FiniteSets

CONSTANTS Requests,    \* the requests that may hold a connection
          PoolSize,    \* Settings.db_pool_size
          MaxOverflow  \* Settings.db_max_overflow

ASSUME PoolAssumption ==
  /\ IsFiniteSet(Requests)
  /\ PoolSize \in Nat \ {0}
  /\ MaxOverflow \in Nat

VARIABLES
  db,    \* "awake" or "asleep"
  idle,  \* how many idle connections are live, and how many are dead
  conn   \* what each request has of the pool, see Holdings

poolVars == <<db, idle, conn>>

Conditions == {"live", "dead"}

Holdings == {"none",     \* nothing
             "opening",  \* an entry, being pinged or connected
             "live",     \* a connection that works
             "dead"}     \* a connection Neon has dropped

PoolTypeOK ==
  /\ db \in {"awake", "asleep"}
  /\ idle \in [Conditions -> 0..PoolSize]
  /\ conn \in [Requests -> Holdings]

\* Building the engine connects nothing; the check at boot leaves the one
\* connection it made, if Neon was awake.
PoolInit ==
  /\ db \in {"awake", "asleep"}
  /\ idle = [c \in Conditions |-> IF c = "live" /\ db = "awake" THEN 1 ELSE 0]
  /\ conn = [r \in Requests |-> "none"]

Holders == {r \in Requests : conn[r] # "none"}
Idle == idle["live"] + idle["dead"]

\* Every connection the pool may open is in the hands of a request.
Exhausted == Cardinality(Holders) >= PoolSize + MaxOverflow

\* A slip: a pool that keeps every entry.
PutBackAlways(c) == idle' = [idle EXCEPT ![c] = @ + 1]

\* An entry goes back to the pool, which closes it when it is full.
PutBack(c) == idle' = IF Idle < PoolSize THEN [idle EXCEPT ![c] = @ + 1] ELSE idle

\* A slip: without pool_pre_ping an idle connection is handed out unchecked.
TakeUnchecked(r) ==
  /\ conn[r] = "none"
  /\ ~Exhausted
  /\ \/ Idle = 0 /\ idle' = idle /\ conn' = [conn EXCEPT ![r] = "opening"]
     \/ \E c \in Conditions : /\ idle[c] > 0
                             /\ idle' = [idle EXCEPT ![c] = @ - 1]
                             /\ conn' = [conn EXCEPT ![r] = c]
  /\ UNCHANGED db

\* A slip: a pool that opens a connection although one is idle.
TakeAlwaysNew(r) ==
  /\ conn[r] = "none"
  /\ ~Exhausted
  /\ conn' = [conn EXCEPT ![r] = "opening"]
  /\ UNCHANGED <<db, idle>>

\* engine.connect() gets hold of an entry: an idle one, or a new one when none
\* is idle and the pool may still grow.
Take(r) ==
  /\ conn[r] = "none"
  /\ ~Exhausted
  /\ \/ Idle = 0 /\ idle' = idle
     \/ \E c \in Conditions : idle[c] > 0 /\ idle' = [idle EXCEPT ![c] = @ - 1]
  /\ conn' = [conn EXCEPT ![r] = "opening"]
  /\ UNCHANGED db

\* The pre-ping finds the connection alive, or a new one is made in the place
\* of one that is dead or past pool_recycle.
Opened(r) ==
  /\ conn[r] = "opening"
  /\ db = "awake"
  /\ conn' = [conn EXCEPT ![r] = "live"]
  /\ UNCHANGED <<db, idle>>

\* A slip: no connect timeout.
NeverGivesUp(r) == FALSE /\ UNCHANGED poolVars

\* Neon does not answer within the connect timeout.
OpenFails(r) ==
  /\ conn[r] = "opening"
  /\ db = "asleep"
  /\ conn' = [conn EXCEPT ![r] = "none"]
  /\ PutBack("dead") \/ idle' = idle
  /\ UNCHANGED db

\* The end of "async with engine.connect()".
Return(r) ==
  /\ conn[r] \in Conditions
  /\ conn' = [conn EXCEPT ![r] = "none"]
  /\ PutBack(conn[r])
  /\ UNCHANGED db

\* Neon suspends, or the network to it breaks: every open connection is dead.
Sleep ==
  /\ db = "awake"
  /\ db' = "asleep"
  /\ idle' = [c \in Conditions |-> IF c = "dead" THEN Idle ELSE 0]
  /\ conn' = [r \in Requests |-> IF conn[r] = "live" THEN "dead" ELSE conn[r]]

Wake ==
  /\ db = "asleep"
  /\ db' = "awake"
  /\ UNCHANGED <<idle, conn>>
=============================================================================
