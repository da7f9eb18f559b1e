---------------------------- MODULE OneAnswerEach ----------------------------
(***************************************************************************)
(* What the service promises whoever calls it, with the pool, the          *)
(* middleware, the statements and the event loop left out.                 *)
(*                                                                         *)
(* Each request is answered once, and its answer stays.  Which statuses it *)
(* may have is settled by what the request itself asks for and by whether  *)
(* the database gave trouble since it came; everything else about the      *)
(* answer is settled by its status.  Nothing another request asks, meets   *)
(* or is answered makes any difference.                                    *)
(***************************************************************************)
CONSTANTS Requests, Wants,  \* the requests, and what they may ask for
          Unset,            \* the id of an answer that carries none
          NoReply           \* before the answer

VARIABLES place,     \* where each request is: "away", "waiting" or "answered"
          asked,     \* what each asks for
          troubled,  \* the requests since whose coming the database gave trouble
          answer     \* the answer each has been given

vars == <<place, asked, troubled, answer>>

Init ==
  /\ place = [r \in Requests |-> "away"]
  /\ asked \in [Requests -> Wants]
  /\ troubled = {}
  /\ answer = [r \in Requests |-> NoReply]

Probe(w) == w.route \in {"health", "ready"}
Data(w) == w.route \in {"list", "item"}

\* The statuses a request may be answered with, without trouble and with it: the
\* liveness probe knows none, and a path no route has never gets as far as to meet any.
\* What is wrong with a request shows in its status, unless trouble or the rate limit
\* comes before it is looked at; a value that cannot be bound looks like trouble.
Outcomes(w, trouble) ==
  {s \in {200, 400, 404, 422, 429, 500, 503} :
     \/ s = 200 /\ (Probe(w) \/ (Data(w) /\ w.params = "valid"))
     \/ s = 400 /\ w.params = "badCursor"
     \/ s = 404 /\ (w.route = "unknown" \/ (w.route = "item" /\ w.params = "valid"))
     \/ s = 422 /\ w.params \in {"invalid", "refused"}
     \/ s = 429 /\ Data(w)
     \/ s = 500 /\ Data(w) /\ w.params \in {"valid", "unusable"}
     \/ s = 503 /\ (w.route = "ready" \/ Data(w))
               /\ (trouble \/ w.params = "unbindable")}

\* The answer of a status.  The catch-all's 500 carries no id, no CORS headers and no
\* word for caches; the 404 of an unknown path and the 429 are not the service's own
\* envelope, and of the two statuses worth a retry only the 503 says when.
AnswerOf(r, w, s) ==
  [status |-> s,
   envelope |-> s \notin {200, 429} /\ w.route # "unknown",
   bodyId |-> IF s \in {200, 429, 500} \/ w.route = "unknown" THEN Unset ELSE r,
   retryAfter |-> s = 503,
   headerId |-> IF s = 500 THEN Unset ELSE r,
   cors |-> s # 500,
   cache |-> IF Probe(w) THEN "no-store" ELSE IF s = 200 THEN "public" ELSE "none"]

-----------------------------------------------------------------------------
Come(r) ==
  /\ place[r] = "away"
  /\ place' = [place EXCEPT ![r] = "waiting"]
  /\ \E w \in Wants : asked' = [asked EXCEPT ![r] = w]
  /\ troubled' \in {troubled, troubled \cup {r}}
  /\ UNCHANGED answer

\* The database gives trouble to some of those that have come.
Trouble ==
  /\ \E S \in SUBSET {r \in Requests : place[r] # "away"} : troubled' = troubled \cup S
  /\ UNCHANGED <<place, asked, answer>>

Answer(r) ==
  /\ place[r] = "waiting"
  /\ place' = [place EXCEPT ![r] = "answered"]
  /\ \E s \in Outcomes(asked[r], r \in troubled) :
       answer' = [answer EXCEPT ![r] = AnswerOf(r, asked[r], s)]
  /\ UNCHANGED <<asked, troubled>>

Next == Trouble \/ \E r \in Requests : Come(r) \/ Answer(r)

Spec == Init /\ [][Next]_vars
=============================================================================
