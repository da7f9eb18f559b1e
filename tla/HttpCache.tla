------------------------------ MODULE HttpCache ------------------------------
(***************************************************************************)
(* The HTTP caches of the service's readers, and the headers that steer    *)
(* them: CacheControlMiddleware says what may be kept and for how long,    *)
(* and puts the process's one tag on what may be kept.                     *)
(*                                                                         *)
(* A reader keeps one answer per path.  A CDN may stand between it and the *)
(* service; both follow the rules of HTTP: an answer younger than its      *)
(* max-age is used as it is; an older one is asked for again with its tag, *)
(* and a cache that holds a fresh answer of the same tag may say that      *)
(* nothing has changed.  The mart is rebuilt and the process replaced at   *)
(* any time.                                                               *)
(***************************************************************************)
EXTENDS Integers

CONSTANTS MaxAge,  \* Settings.cache_max_age_seconds, in ticks
          Pinned,  \* whether GIT_SHA is set, so that a restart keeps the tag
          Tags,    \* the tags of the processes
          None     \* no answer kept, or no tag

ASSUME CacheAssumption ==
  /\ MaxAge \in Nat
  /\ None \notin Tags
  /\ Pinned \in BOOLEAN

Paths == {"data", "health"}  \* GET of a data route, and of /health/db

VARIABLES
  up,       \* whether the database answers: a 200, else a 503
  shared,   \* whether there is a CDN between the reader and the service
  tag,      \* the running process's ETag
  browser,  \* what the reader keeps of each path
  cdn,      \* what the CDN keeps of each path
  shown     \* the last answer the reader was shown

vars == <<up, shared, tag, browser, cdn, shown>>

\* The longest lag told apart from longer ones.
MaxLag == MaxAge + 1

\* An answer: whether the mart has been rebuilt since it was made, how long ago, its
\* age and its tag, if it has one.
Answer == [ok : BOOLEAN, stale : BOOLEAN, lag : 0..MaxLag, age : 0..MaxAge,
           tag : Tags \cup {None}]

\* What a cache may hold of a path: nothing, or an answer it can ask for again by its tag.
Kept == {None} \cup {answer \in Answer : answer.tag # None}

TypeOK ==
  /\ up \in BOOLEAN
  /\ shared \in BOOLEAN
  /\ tag \in Tags
  /\ browser \in [Paths -> Kept]
  /\ cdn \in [Paths -> Kept]
  /\ shown \in {None} \cup [path : Paths, of : Answer, up : BOOLEAN]

Init ==
  /\ up \in BOOLEAN
  /\ shared \in BOOLEAN
  /\ tag \in Tags
  /\ browser = [p \in Paths |-> None]
  /\ cdn = [p \in Paths |-> None]
  /\ shown = None

-----------------------------------------------------------------------------
\* Slips: success is looked at before the path, and not at all.
SuccessFirst(path, ok) ==
  IF ok THEN "max-age" ELSE IF path = "health" THEN "no-store" ELSE "unset"

AnyStatus(path, ok) == IF path = "health" THEN "no-store" ELSE "max-age"

\* CacheControlMiddleware.dispatch: Cache-Control.
CacheControl(path, ok) ==
  IF path = "health" THEN "no-store" ELSE IF ok THEN "max-age" ELSE "unset"

\* A slip: the tag is set in the other branches of dispatch.
TagSwapped(path, ok) == IF CacheControl(path, ok) = "max-age" THEN None ELSE tag

\* CacheControlMiddleware.dispatch: the ETag, set in the branch of what may be kept.
ETag(path, ok) == IF CacheControl(path, ok) = "max-age" THEN tag ELSE None

MadeNow(path) == [ok |-> up, stale |-> FALSE, lag |-> 0, age |-> 0, tag |-> ETag(path, up)]

\* A slip: an answer of this process's tag is said to be unchanged.
RespondNotModified(path, kept) ==
  IF up /\ kept # None /\ kept.tag = tag THEN [kept EXCEPT !.age = 0] ELSE MadeNow(path)

\* The service's answer to a reader that keeps an answer: no handler reads
\* If-None-Match, so it is made anew.
Respond(path, kept) == MadeNow(path)

\* What a cache keeps under a path after an answer.
Keep(path, answer, kept) ==
  IF CacheControl(path, answer.ok) = "max-age" THEN answer ELSE kept

Fresh(kept) == kept # None /\ kept.age < MaxAge

Show(path, answer) == shown' = [path |-> path, of |-> answer, up |-> up]

\* The reader's own copy will do.
GetKept(path) ==
  /\ Fresh(browser[path])
  /\ Show(path, browser[path])
  /\ UNCHANGED <<up, shared, tag, browser, cdn>>

\* The reader asks the service.
GetDirect(path) ==
  /\ ~shared /\ ~Fresh(browser[path])
  /\ LET answer == Respond(path, browser[path]) IN
       /\ Show(path, answer)
       /\ browser' = [browser EXCEPT ![path] = Keep(path, answer, @)]
  /\ UNCHANGED <<up, shared, tag, cdn>>

\* The CDN answers out of its own store.  To a reader that keeps an answer of the
\* same tag it says 304, and the copy is as young again as the CDN's.
GetFromCdn(path) ==
  /\ shared /\ ~Fresh(browser[path]) /\ Fresh(cdn[path])
  /\ LET mine == browser[path]
         answer == IF mine # None /\ mine.tag = cdn[path].tag
                     THEN [mine EXCEPT !.age = cdn[path].age]
                     ELSE cdn[path] IN
       /\ Show(path, answer)
       /\ browser' = [browser EXCEPT ![path] = answer]
  /\ UNCHANGED <<up, shared, tag, cdn>>

\* The CDN asks the service.
GetThroughCdn(path) ==
  /\ shared /\ ~Fresh(browser[path]) /\ ~Fresh(cdn[path])
  /\ LET answer == Respond(path, cdn[path]) IN
       /\ Show(path, answer)
       /\ cdn' = [cdn EXCEPT ![path] = Keep(path, answer, @)]
       /\ browser' = [browser EXCEPT ![path] = Keep(path, answer, @)]
  /\ UNCHANGED <<up, shared, tag>>

\* Another reader makes the CDN ask the service.
OthersAsk(path) ==
  /\ shared /\ ~Fresh(cdn[path])
  /\ cdn' = [cdn EXCEPT ![path] = Keep(path, Respond(path, @), @)]
  /\ UNCHANGED <<up, shared, tag, browser, shown>>

-----------------------------------------------------------------------------
Superseded(kept) == IF kept = None THEN None ELSE [kept EXCEPT !.stale = TRUE]

\* The pipeline rebuilds the mart: what is kept of it is no longer what it says.
Rebuild ==
  /\ browser' = [browser EXCEPT !["data"] = Superseded(@)]
  /\ cdn' = [cdn EXCEPT !["data"] = Superseded(@)]
  /\ UNCHANGED <<up, shared, tag, shown>>

UpTo(n, max) == IF n > max THEN max ELSE n

Older(kept) ==
  IF kept = None THEN None
  ELSE [kept EXCEPT !.age = UpTo(@ + 1, MaxAge),
                    !.lag = IF kept.stale THEN UpTo(@ + 1, MaxLag) ELSE @]

Tick ==
  /\ browser' = [p \in Paths |-> Older(browser[p])]
  /\ cdn' = [p \in Paths |-> Older(cdn[p])]
  /\ UNCHANGED <<up, shared, tag, shown>>

Held == {kept.tag : kept \in {c[p] : c \in {browser, cdn}, p \in Paths} \ {None}}

\* create_app's startup_id: a pinned tag outlives a restart and changes with a deploy;
\* an unpinned one is new every time.
Start ==
  /\ tag' \in (Tags \ (Held \cup {tag})) \cup (IF Pinned THEN {tag} ELSE {})
  /\ UNCHANGED <<up, shared, browser, cdn, shown>>

SleepOrWake ==
  /\ up' = ~up
  /\ UNCHANGED <<shared, tag, browser, cdn, shown>>

Next ==
  \/ \E path \in Paths :
       \/ GetKept(path) \/ GetDirect(path)
       \/ GetFromCdn(path) \/ GetThroughCdn(path) \/ OthersAsk(path)
  \/ Rebuild \/ Tick \/ Start \/ SleepOrWake

Spec == Init /\ [][Next]_vars

-----------------------------------------------------------------------------
\* Decision 0007 of data: "over-revalidation, never staleness"; what is shown was the
\* mart's at most one max-age ago.
NeverStale == shown # None => shown.of.lag <= MaxAge

\* Without a CDN the code keeps this, across restarts and deploys, though its tag says
\* nothing of the mart: no route answers 304, and Cache-Control bounds the rest
\* (CacheControlMiddleware.dispatch).
NeverStaleFirstHand == ~shared => NeverStale

\* A probe of the database is answered by the database, not by a cache (the /health
\* branch of dispatch comes before the one for a 200).
ProbesAreLive ==
  shown # None /\ shown.path = "health" => shown.of.ok = shown.up

\* An outage is over for a reader as soon as it is over: a kept answer is never an
\* error, and an answer is an error only while the database is down (dispatch marks
\* a 200 alone as cacheable).
OutagesAreNotKept == shown # None /\ shown.up => shown.of.ok
=============================================================================
