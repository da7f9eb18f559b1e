---------------------------- MODULE HttpCacheProofs ----------------------------
(***************************************************************************)
(* What a reader is shown, proved for every max-age, with a pinned tag or  *)
(* without.                                                                *)
(***************************************************************************)
EXTENDS HttpCache, TLAPS

\* A kept answer is a data answer, and a good one.
Sound(path, kept) == kept # None => path = "data" /\ kept.ok

\* While it may be used, it is no further behind than it is old.
Bounded(kept) == Fresh(kept) => kept.lag <= kept.age

CacheInv ==
  /\ TypeOK
  /\ \A p \in Paths : Sound(p, browser[p]) /\ Sound(p, cdn[p])
  /\ ~shared => \A p \in Paths : Bounded(browser[p])
  /\ NeverStaleFirstHand
  /\ ProbesAreLive
  /\ OutagesAreNotKept

\* An answer made now bears a tag if, and only if, it may be kept
\* (CacheControlMiddleware.dispatch).
LEMMA RespondNow ==
  ASSUME tag \in Tags, up \in BOOLEAN, NEW path, NEW kept
  PROVE  /\ Respond(path, kept) \in Answer
         /\ Respond(path, kept).ok = up
         /\ Respond(path, kept).lag = 0 /\ Respond(path, kept).age = 0
         /\ Respond(path, kept).tag # None <=> CacheControl(path, up) = "max-age"
BY CacheAssumption DEF Respond, MadeNow, ETag, Answer, MaxLag

\* What is kept after such an answer is sound if what was kept before was
\* (dispatch: a 200 off /health alone is cacheable).
LEMMA KeepSound ==
  ASSUME tag \in Tags, up \in BOOLEAN, NEW path \in Paths, NEW kept \in Kept,
         NEW known, Sound(path, kept), ~Fresh(kept)
  PROVE  /\ Keep(path, Respond(path, known), kept) \in Kept
         /\ Sound(path, Keep(path, Respond(path, known), kept))
         /\ Bounded(Keep(path, Respond(path, known), kept))
<1>1. CASE CacheControl(path, up) = "max-age"
  <2>1. path = "data" /\ up
    BY <1>1 DEF CacheControl, Paths
  <2>2. Respond(path, known) \in Answer /\ Respond(path, known).ok = up
    BY RespondNow
  <2>3. Respond(path, known).lag <= Respond(path, known).age
    BY RespondNow
  <2>4. Keep(path, Respond(path, known), kept) = Respond(path, known)
    BY <1>1, <2>2 DEF Keep
  <2>5. Respond(path, known) \in Kept
    BY <1>1, <2>2, RespondNow DEF Kept
  <2> QED BY <2>1, <2>2, <2>3, <2>4, <2>5 DEF Sound, Bounded
<1>2. CASE CacheControl(path, up) # "max-age"
  BY <1>2, RespondNow DEF Keep, Bounded
<1> QED BY <1>1, <1>2

\* A tick of time keeps what the caches hold within its bounds.
LEMMA OlderBounded ==
  ASSUME NEW path \in Paths, NEW kept \in Kept, Sound(path, kept)
  PROVE  /\ Older(kept) \in Kept
         /\ Sound(path, Older(kept))
         /\ Bounded(kept) => Bounded(Older(kept))
<1>1. CASE kept = None
  BY <1>1 DEF Older, Sound, Bounded
<1>2. CASE kept # None
  <2> DEFINE older == Older(kept)
  <2>1. kept \in Answer /\ kept.tag # None
    BY <1>2 DEF Kept
  <2>2. /\ older = [kept EXCEPT !.age = UpTo(kept.age + 1, MaxAge),
                               !.lag = IF kept.stale THEN UpTo(kept.lag + 1, MaxLag)
                                       ELSE kept.lag]
    BY <1>2 DEF Older
  <2>3. /\ kept.age \in 0..MaxAge /\ kept.lag \in 0..MaxLag
        /\ UpTo(kept.age + 1, MaxAge) \in 0..MaxAge
        /\ UpTo(kept.lag + 1, MaxLag) \in 0..MaxLag
    BY <2>1, CacheAssumption DEF Answer, UpTo, MaxLag
  <2>4. older \in Kept
    BY <2>1, <2>2, <2>3 DEF Answer, Kept
  <2>5. older.ok = kept.ok /\ older.age = UpTo(kept.age + 1, MaxAge)
        /\ older.lag \in {kept.lag, UpTo(kept.lag + 1, MaxLag)}
    BY <2>1, <2>2 DEF Answer
  <2>6. Bounded(kept) => Bounded(older)
    <3> HIDE DEF older
    <3> QED BY <1>2, <2>3, <2>5, CacheAssumption DEF Bounded, Fresh, UpTo, MaxLag
  <2>7. Sound(path, older)
    <3> HIDE DEF older
    <3> QED BY <1>2, <2>5 DEF Sound
  <2> QED BY <2>4, <2>6, <2>7
<1> QED BY <1>1, <1>2

LEMMA SupersededBounded ==
  ASSUME NEW path \in Paths, NEW kept \in Kept, Sound(path, kept)
  PROVE  /\ Superseded(kept) \in Kept
         /\ Sound(path, Superseded(kept))
         /\ Bounded(kept) => Bounded(Superseded(kept))
BY DEF Superseded, Answer, Kept, Sound, Bounded, Fresh

LEMMA CacheInit == Init => CacheInv
BY DEF Init, Kept, CacheInv, TypeOK, Sound, Bounded, Fresh, NeverStaleFirstHand, NeverStale,
       ProbesAreLive, OutagesAreNotKept

LEMMA CacheStep == CacheInv /\ [Next]_vars => CacheInv'
<1> SUFFICES ASSUME CacheInv, [Next]_vars PROVE CacheInv'
  OBVIOUS
<1> USE DEF CacheInv, TypeOK
<1>1. ASSUME NEW path \in Paths, GetKept(path) PROVE CacheInv'
  <2>1. browser[path] \in Answer /\ path = "data" /\ browser[path].ok
    BY <1>1 DEF GetKept, Fresh, Sound, Kept
  <2>2. ~shared => browser[path].lag <= MaxAge
    BY <1>1, <2>1, CacheAssumption DEF GetKept, Bounded, Fresh, Answer, MaxLag
  <2>3. shown' = [path |-> path, of |-> browser[path], up |-> up]
    BY <1>1 DEF GetKept, Show
  <2>4. UNCHANGED <<up, shared, tag, browser, cdn>>
    BY <1>1 DEF GetKept
  <2> QED BY <2>1, <2>2, <2>3, <2>4
          DEF NeverStaleFirstHand, NeverStale, ProbesAreLive, OutagesAreNotKept,
              Sound, Bounded, Fresh
<1>2. ASSUME NEW path \in Paths, GetDirect(path) PROVE CacheInv'
  <2> DEFINE answer == Respond(path, browser[path])
             kept == Keep(path, answer, browser[path])
  <2>1. /\ kept \in Kept
        /\ Sound(path, kept)
        /\ Bounded(kept)
    BY <1>2, KeepSound DEF GetDirect
  <2>2. answer \in Answer /\ answer.ok = up /\ answer.lag = 0
    BY RespondNow
  <2>3. /\ shown' = [path |-> path, of |-> answer, up |-> up]
        /\ browser' = [browser EXCEPT ![path] = kept]
        /\ UNCHANGED <<up, shared, tag, cdn>>
    BY <1>2 DEF GetDirect, Show
  <2>4. shown'.of.lag <= MaxAge /\ shown'.of.ok = up
    BY <2>2, <2>3, CacheAssumption
  <2>5. /\ browser' \in [Paths -> Kept]
        /\ \A p \in Paths : Sound(p, browser'[p])
        /\ ~shared => \A p \in Paths : Bounded(browser'[p])
    <3> HIDE DEF kept, answer
    <3> QED BY <2>1, <2>3
  <2> HIDE DEF kept, answer
  <2> QED BY <2>2, <2>3, <2>4, <2>5
          DEF NeverStaleFirstHand, NeverStale, ProbesAreLive, OutagesAreNotKept,
              Sound, Bounded, Fresh
<1>3. ASSUME NEW path \in Paths, GetFromCdn(path) PROVE CacheInv'
  <2>1. /\ cdn[path] \in Answer /\ path = "data" /\ cdn[path].ok /\ shared
    BY <1>3 DEF GetFromCdn, Fresh, Sound, Kept
  <2> DEFINE mine == browser[path]
             answer == IF mine # None /\ mine.tag = cdn[path].tag
                         THEN [mine EXCEPT !.age = cdn[path].age]
                         ELSE cdn[path]
  <2>2. answer \in Answer /\ answer \in Kept /\ answer.ok
    BY <2>1, <1>3 DEF Answer, Kept, Sound, GetFromCdn, Fresh
  <2>3. /\ shown' = [path |-> path, of |-> answer, up |-> up]
        /\ browser' = [browser EXCEPT ![path] = answer]
        /\ UNCHANGED <<up, shared, tag, cdn>>
    BY <1>3 DEF GetFromCdn, Show
  <2> HIDE DEF answer, mine
  <2> QED BY <2>1, <2>2, <2>3
          DEF NeverStaleFirstHand, NeverStale, ProbesAreLive, OutagesAreNotKept,
              Sound, Bounded, Fresh
<1>4. ASSUME NEW path \in Paths, GetThroughCdn(path) PROVE CacheInv'
  <2> DEFINE answer == Respond(path, cdn[path])
             mine == Keep(path, answer, browser[path])
             theirs == Keep(path, answer, cdn[path])
  <2>1. /\ mine \in Kept /\ Sound(path, mine)
        /\ theirs \in Kept /\ Sound(path, theirs)
    BY <1>4, KeepSound DEF GetThroughCdn
  <2>2. answer \in Answer /\ answer.ok = up
    BY RespondNow
  <2>3. /\ shown' = [path |-> path, of |-> answer, up |-> up]
        /\ browser' = [browser EXCEPT ![path] = mine]
        /\ cdn' = [cdn EXCEPT ![path] = theirs]
        /\ UNCHANGED <<up, shared, tag>> /\ shared
    BY <1>4 DEF GetThroughCdn, Show
  <2> HIDE DEF answer, mine, theirs
  <2> QED BY <2>1, <2>2, <2>3
          DEF NeverStaleFirstHand, NeverStale, ProbesAreLive, OutagesAreNotKept,
              Sound
<1>5. ASSUME NEW path \in Paths, OthersAsk(path) PROVE CacheInv'
  <2> DEFINE theirs == Keep(path, Respond(path, cdn[path]), cdn[path])
  <2>1. theirs \in Kept /\ Sound(path, theirs)
    BY <1>5, KeepSound DEF OthersAsk
  <2>2. /\ cdn' = [cdn EXCEPT ![path] = theirs]
        /\ UNCHANGED <<up, shared, tag, browser, shown>> /\ shared
    BY <1>5 DEF OthersAsk
  <2> HIDE DEF theirs
  <2> QED BY <2>1, <2>2
          DEF NeverStaleFirstHand, NeverStale, ProbesAreLive, OutagesAreNotKept, Sound
<1>6. CASE Rebuild
  <2>1. /\ UNCHANGED <<up, shared, tag, shown>>
        /\ browser' = [browser EXCEPT !["data"] = Superseded(@)]
        /\ cdn' = [cdn EXCEPT !["data"] = Superseded(@)]
    BY <1>6 DEF Rebuild
  <2>2. "data" \in Paths
    BY DEF Paths
  <2>3. \A p \in Paths : /\ browser'[p] \in {browser[p], Superseded(browser[p])}
                         /\ cdn'[p] \in {cdn[p], Superseded(cdn[p])}
    BY <2>1, <2>2
  <2>4. \A p \in Paths :
          /\ browser'[p] \in Kept /\ cdn'[p] \in Kept
          /\ Sound(p, browser'[p]) /\ Sound(p, cdn'[p])
          /\ Bounded(browser[p]) => Bounded(browser'[p])
    BY <2>3, SupersededBounded
  <2>5. /\ browser' \in [Paths -> Kept]
        /\ cdn' \in [Paths -> Kept]
    BY <2>1, <2>4
  <2> QED BY <2>1, <2>4, <2>5
          DEF NeverStaleFirstHand, NeverStale, ProbesAreLive, OutagesAreNotKept,
              Sound, Bounded, Fresh
<1>7. CASE Tick
  <2>1. /\ UNCHANGED <<up, shared, tag, shown>>
        /\ browser' = [p \in Paths |-> Older(browser[p])]
        /\ cdn' = [p \in Paths |-> Older(cdn[p])]
    BY <1>7 DEF Tick
  <2>2. \A p \in Paths :
          /\ browser'[p] \in Kept /\ cdn'[p] \in Kept
          /\ Sound(p, browser'[p]) /\ Sound(p, cdn'[p])
          /\ Bounded(browser[p]) => Bounded(browser'[p])
    BY <2>1, OlderBounded
  <2>3. /\ browser' \in [Paths -> Kept]
        /\ cdn' \in [Paths -> Kept]
    BY <2>1, <2>2
  <2> QED BY <2>1, <2>2, <2>3
          DEF NeverStaleFirstHand, NeverStale, ProbesAreLive, OutagesAreNotKept,
              Sound, Bounded, Fresh
<1>8. CASE Start \/ SleepOrWake \/ UNCHANGED vars
  <2>1. UNCHANGED <<shared, browser, cdn, shown>> /\ up' \in BOOLEAN /\ tag' \in Tags
    BY <1>8 DEF Start, SleepOrWake, vars
  <2> QED BY <2>1
          DEF NeverStaleFirstHand, NeverStale, ProbesAreLive, OutagesAreNotKept,
              Sound, Bounded, Fresh
<1> QED BY <1>1, <1>2, <1>3, <1>4, <1>5, <1>6, <1>7, <1>8 DEF Next

LEMMA CacheInvariant == Spec => []CacheInv
BY CacheInit, CacheStep, PTL DEF Spec

\* No cache is ever left with an answer it has no tag to ask again with, for any max-age
\* and any set of tags (dispatch tags what it lets a cache keep, a 200 off /health).
THEOREM CacheTypes == Spec => []TypeOK
<1>1. CacheInv => TypeOK
  BY DEF CacheInv
<1> QED BY <1>1, CacheInvariant, PTL

\* Without a CDN no reader is shown data older than the max-age after a rebuild, for
\* any max-age and any way tags are made (CacheControlMiddleware).
THEOREM FirstHandIsNeverStale == Spec => []NeverStaleFirstHand
<1>1. CacheInv => NeverStaleFirstHand
  BY DEF CacheInv
<1> QED BY <1>1, CacheInvariant, PTL

\* Probes are answered by the database, with a CDN or without (dispatch, whose branch
\* for /health comes first).
THEOREM NoProbeIsKept == Spec => []ProbesAreLive
<1>1. CacheInv => ProbesAreLive
  BY DEF CacheInv
<1> QED BY <1>1, CacheInvariant, PTL

\* An outage is never kept, with a CDN or without (dispatch, which marks a 200 alone).
THEOREM NoOutageIsKept == Spec => []OutagesAreNotKept
<1>1. CacheInv => OutagesAreNotKept
  BY DEF CacheInv
<1> QED BY <1>1, CacheInvariant, PTL
=============================================================================
