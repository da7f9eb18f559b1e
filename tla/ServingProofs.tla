--------------------------- MODULE ServingProofs ---------------------------
(***************************************************************************)
(* What holds of requests in flight for any number of them, any pool and   *)
(* any behaviour of Neon: types, the 503 that always has its reason, the   *)
(* id a client can quote, the status that tells its cause, and the         *)
(* connection that is always given back.                                   *)
(***************************************************************************)
EXTENDS Serving, FiniteSetTheorems, TLAPS

\* The pool's part of the invariant: Sleep turns every idle entry into a dead one,
\* so their sum is what has to be bounded.
PoolInv == PoolTypeOK /\ Idle <= PoolSize

TypeInv == PoolInv /\ TypeOK

InFlight(r) == pc[r] \notin {"new", "done"}

-----------------------------------------------------------------------------
\* What returning an entry does to the idle ones.
LEMMA PutBackKeepsBound ==
  ASSUME PoolInv, NEW c \in Conditions, PutBack(c) \/ idle' = idle
  PROVE  /\ idle' \in [Conditions -> 0..PoolSize]
         /\ idle'["live"] + idle'["dead"] <= PoolSize
<1>1. idle \in [Conditions -> 0..PoolSize] /\ idle["live"] + idle["dead"] <= PoolSize
  BY DEF PoolInv, PoolTypeOK, Idle
<1>2. CASE Idle < PoolSize /\ idle' = [idle EXCEPT ![c] = @ + 1]
  <2>1. CASE c = "live"
    BY <1>1, <1>2, <2>1, PoolAssumption DEF Conditions, Idle
  <2>2. CASE c = "dead"
    BY <1>1, <1>2, <2>2, PoolAssumption DEF Conditions, Idle
  <2> QED BY <2>1, <2>2 DEF Conditions
<1>3. CASE idle' = idle
  BY <1>1, <1>3
<1> QED BY <1>2, <1>3 DEF PutBack

\* Neon's own steps keep it: sleeping only turns idle entries into dead ones.
LEMMA NeonStep ==
  ASSUME PoolInv, Sleep \/ Wake
  PROVE  PoolInv'
<1> USE PoolAssumption
<1>0. /\ db \in {"awake", "asleep"} /\ conn \in [Requests -> Holdings]
      /\ idle \in [Conditions -> 0..PoolSize] /\ idle["live"] + idle["dead"] <= PoolSize
  BY DEF PoolInv, PoolTypeOK, Idle
<1>1. CASE Sleep
  <2>1. Idle \in 0..PoolSize
    BY <1>0 DEF Idle, Conditions
  <2>2. /\ idle' \in [Conditions -> 0..PoolSize]
        /\ idle'["live"] + idle'["dead"] <= PoolSize
    BY <1>1, <2>1 DEF Sleep, Conditions
  <2>3. conn' \in [Requests -> Holdings] /\ db' = "asleep"
    BY <1>0, <1>1 DEF Sleep, Holdings
  <2> QED BY <2>2, <2>3 DEF PoolInv, PoolTypeOK, Idle
<1>2. CASE Wake
  BY <1>0, <1>2 DEF Wake, PoolInv, PoolTypeOK, Idle
<1> QED BY <1>1, <1>2

\* Every step of the pool keeps its part of the invariant.
LEMMA PoolStep ==
  ASSUME PoolInv, NEW r \in Requests,
         Take(r) \/ Opened(r) \/ OpenFails(r) \/ Return(r) \/ UNCHANGED poolVars
  PROVE  PoolInv'
<1> USE PoolAssumption
<1>0. /\ db \in {"awake", "asleep"} /\ conn \in [Requests -> Holdings]
      /\ idle \in [Conditions -> 0..PoolSize] /\ idle["live"] + idle["dead"] <= PoolSize
  BY DEF PoolInv, PoolTypeOK, Idle
<1>1. CASE Take(r)
  <2>1. conn' \in [Requests -> Holdings] /\ db' = db
    BY <1>0, <1>1 DEF Take, Holdings
  <2>2. CASE idle' = idle
    BY <1>0, <2>1, <2>2 DEF PoolInv, PoolTypeOK, Idle
  <2>3. ASSUME NEW c \in Conditions, idle[c] > 0, idle' = [idle EXCEPT ![c] = @ - 1]
        PROVE  PoolInv'
    <3>1. CASE c = "live"
      BY <1>0, <2>1, <2>3, <3>1 DEF PoolInv, PoolTypeOK, Idle, Conditions
    <3>2. CASE c = "dead"
      BY <1>0, <2>1, <2>3, <3>2 DEF PoolInv, PoolTypeOK, Idle, Conditions
    <3> QED BY <3>1, <3>2 DEF Conditions
  <2> QED BY <1>1, <2>2, <2>3 DEF Take
<1>2. CASE Opened(r)
  BY <1>0, <1>2 DEF Opened, Holdings, PoolInv, PoolTypeOK, Idle
<1>3. CASE OpenFails(r)
  <2>1. "dead" \in Conditions /\ (PutBack("dead") \/ idle' = idle)
    BY <1>3 DEF OpenFails, Conditions
  <2>2. /\ idle' \in [Conditions -> 0..PoolSize]
        /\ idle'["live"] + idle'["dead"] <= PoolSize
    BY <2>1, PutBackKeepsBound
  <2>3. conn' \in [Requests -> Holdings] /\ db' = db
    BY <1>0, <1>3 DEF OpenFails, Holdings
  <2> QED BY <1>0, <2>2, <2>3 DEF PoolInv, PoolTypeOK, Idle
<1>4. CASE Return(r)
  <2>1. conn[r] \in Conditions /\ PutBack(conn[r])
    BY <1>4 DEF Return
  <2>2. /\ idle' \in [Conditions -> 0..PoolSize]
        /\ idle'["live"] + idle'["dead"] <= PoolSize
    BY <2>1, PutBackKeepsBound
  <2>3. conn' \in [Requests -> Holdings] /\ db' = db
    BY <1>0, <1>4 DEF Return, Holdings
  <2> QED BY <1>0, <2>2, <2>3 DEF PoolInv, PoolTypeOK, Idle
<1>5. CASE UNCHANGED poolVars
  BY <1>0, <1>5 DEF poolVars, PoolInv, PoolTypeOK, Idle
<1> QED BY <1>1, <1>2, <1>3, <1>4, <1>5

-----------------------------------------------------------------------------
\* Every action is one step of the pool and leaves the rest of it alone.
LEMMA StepIsPoolStep ==
  ASSUME NEW r \in Requests, Arrive(r) \/ Step(r)
  PROVE  Take(r) \/ Opened(r) \/ OpenFails(r) \/ Return(r) \/ UNCHANGED poolVars
BY DEF Step, Arrive, GetEntry, Connected, ConnectFails, WaitTimesOut, Validate, Execute,
       ExecuteFails, Conclude, Unwind, Catch, Crash, CatchAll, Leave, Close

\* What the replies are made of has the type of a reply.
LEMMA RepliesTyped ==
  ASSUME NEW r \in Requests, ctx[r] \in Ids
  PROVE  /\ NoReply \in Replies
         /\ \A s \in {200, 404, 429} : Plain(s) \in Replies
         /\ Envelope(r, 500, FALSE) \in Replies
         /\ TurnedAway \in Replies
         /\ \A exc \in Exceptions : Handled(r, exc) \in Replies
<1>0. Unset \in Ids /\ r \in Ids
  BY DEF Ids
<1>1. NoReply \in Replies
  BY <1>0 DEF NoReply, Bare, Replies
<1>2. \A s \in {200, 404, 429} : Plain(s) \in Replies
  BY <1>0 DEF Plain, Bare, Replies
<1>3. /\ Envelope(r, 400, FALSE) \in Replies /\ Envelope(r, 404, FALSE) \in Replies
      /\ Envelope(r, 422, FALSE) \in Replies /\ Envelope(r, 500, FALSE) \in Replies
      /\ Unavailable(r) \in Replies
  BY <1>0 DEF Envelope, Unavailable, Bare, Replies
<1>4. TurnedAway \in Replies
  BY <1>2 DEF TurnedAway
<1>5. \A exc \in Exceptions : Handled(r, exc) \in Replies
  <2>1. Plain(404) \in Replies
    BY <1>2
  <2> QED BY <1>3, <2>1 DEF Handled
<1> QED BY <1>1, <1>2, <1>3, <1>4, <1>5

\* The requests' part of a type-correct state stays so.
LEMMA RequestStepTyped ==
  ASSUME TypeInv, NEW r \in Requests, Arrive(r) \/ Step(r), PoolInv'
  PROVE  TypeInv'
<1> USE ServingAssumption
<1>0. TypeOK
  BY DEF TypeInv
<1>1. /\ ctx[r] \in Ids /\ r \in Ids /\ Unset \in Ids /\ raised[r] \in Exceptions
      /\ left[r] \in 0..MaxStatements /\ reply[r] \in Replies
  BY <1>0 DEF TypeOK, Ids
<1>2. /\ Plain(200) \in Replies
      /\ Envelope(r, 500, FALSE) \in Replies
      /\ TurnedAway \in Replies
      /\ Handled(r, raised[r]) \in Replies
  <2>1. ctx[r] \in Ids
    BY <1>1
  <2>2. Plain(200) \in Replies
    BY <2>1, RepliesTyped
  <2>3. Envelope(r, 500, FALSE) \in Replies
    BY <2>1, RepliesTyped
  <2>4. TurnedAway \in Replies
    BY <2>1, RepliesTyped
  <2>5. Handled(r, raised[r]) \in Replies
    BY <1>1, RepliesTyped
  <2> QED BY <2>2, <2>3, <2>4, <2>5
<1>3. PoolTypeOK'
  BY DEF PoolInv
<1>4. CASE Arrive(r)
  BY <1>0, <1>1, <1>2, <1>3, <1>4 DEF Arrive, TypeOK, TypeInv, Raise, Goto, PCs, Exceptions
<1>5. CASE GetEntry(r)
  BY <1>0, <1>3, <1>5 DEF GetEntry, TypeOK, TypeInv, Goto, PCs
<1>6. CASE Connected(r)
  BY <1>0, <1>3, <1>6 DEF Connected, TypeOK, TypeInv, Goto, PCs
<1>7. CASE ConnectFails(r)
  BY <1>0, <1>3, <1>7 DEF ConnectFails, TypeOK, TypeInv, Raise, PCs, Exceptions
<1>8. CASE WaitTimesOut(r)
  BY <1>0, <1>3, <1>8 DEF WaitTimesOut, TypeOK, TypeInv, Raise, PCs, Exceptions
<1>9. CASE Validate(r)
  <2>1. \A n \in Statements(want[r].route) : n \in 0..MaxStatements
    BY DEF Statements
  <2>2. left' \in [Requests -> 0..MaxStatements]
    BY <1>0, <1>9, <2>1 DEF Validate, TypeOK
  <2>3. raised' \in [Requests -> Exceptions] /\ pc' \in [Requests -> PCs]
    BY <1>0, <1>9 DEF Fault, Validate, TypeOK, Raise, Goto, PCs, Exceptions
  <2> QED BY <1>0, <1>3, <1>9, <2>2, <2>3 DEF Validate, TypeOK, TypeInv
<1>10. CASE Execute(r)
  BY <1>0, <1>1, <1>3, <1>10 DEF Execute, TypeOK, TypeInv
<1>11. CASE ExecuteFails(r)
  BY <1>0, <1>3, <1>11 DEF ExecuteFails, TypeOK, TypeInv, Raise, PCs, Exceptions
<1>12. CASE Conclude(r)
  BY <1>0, <1>2, <1>3, <1>12 DEF Conclude, TypeOK, TypeInv, Raise, Goto, PCs, Exceptions
<1>13. CASE Unwind(r)
  BY <1>0, <1>3, <1>13 DEF Unwind, reqVars, TypeOK, TypeInv
<1>14. CASE Catch(r)
  BY <1>0, <1>2, <1>3, <1>14 DEF Catch, TypeOK, TypeInv, Goto, PCs, Exceptions
<1>15. CASE Crash(r)
  BY <1>0, <1>1, <1>3, <1>15 DEF Crash, TypeOK, TypeInv, Goto, PCs
<1>16. CASE CatchAll(r)
  BY <1>0, <1>2, <1>3, <1>16 DEF CatchAll, TypeOK, TypeInv, Goto, PCs, Exceptions
<1>17. CASE Leave(r)
  <2>1. CacheHeader(want[r].route, reply[r].status) \in {"none", "no-store", "public"}
    BY DEF CacheHeader
  <2>2. Sent(r) \in Replies
    BY <1>1, <2>1 DEF Sent, Replies
  <2> QED BY <1>0, <1>1, <1>3, <1>17, <2>2 DEF Leave, TypeOK, TypeInv, Goto, PCs
<1>18. CASE Close(r)
  BY <1>0, <1>3, <1>18 DEF Close, TypeOK, TypeInv, Goto, PCs
<1> QED BY <1>4, <1>5, <1>6, <1>7, <1>8, <1>9, <1>10, <1>11, <1>12, <1>13, <1>14,
           <1>15, <1>16, <1>17, <1>18 DEF Step

LEMMA TypeStep == TypeInv /\ [Next]_vars => TypeInv'
<1> SUFFICES ASSUME TypeInv, [Next]_vars PROVE TypeInv'
  OBVIOUS
<1>0. TypeOK /\ PoolInv
  BY DEF TypeInv
<1>1. ASSUME NEW r \in Requests, Arrive(r) \/ Step(r) PROVE TypeInv'
  BY <1>0, <1>1, StepIsPoolStep, PoolStep, RequestStepTyped
<1>2. CASE NeonSleeps
  <2>1. PoolInv'
    BY <1>0, <1>2, NeonStep DEF NeonSleeps
  <2> QED BY <1>0, <1>2, <2>1 DEF NeonSleeps, TypeOK, TypeInv, PoolInv
<1>3. CASE NeonWakes
  <2>1. PoolInv'
    BY <1>0, <1>3, NeonStep DEF NeonWakes
  <2> QED BY <1>0, <1>3, <2>1 DEF NeonWakes, reqVars, TypeOK, TypeInv, PoolInv
<1>4. CASE UNCHANGED vars
  BY <1>0, <1>4 DEF vars, reqVars, poolVars, TypeOK, TypeInv, PoolInv, PoolTypeOK, Idle
<1> QED BY <1>1, <1>2, <1>3, <1>4 DEF Next

LEMMA TypeInit == Init => TypeInv
<1> SUFFICES ASSUME Init PROVE TypeInv
  OBVIOUS
<1> USE PoolAssumption, ServingAssumption
<1>1. PoolInv
  BY DEF Init, PoolInit, PoolInv, PoolTypeOK, Idle, Conditions, Holdings
<1>2. NoReply \in Replies
  BY DEF NoReply, Bare, Replies, Ids
<1> QED BY <1>1, <1>2 DEF Init, TypeInv, TypeOK, PoolInv, PCs, Wants, Exceptions, Ids

\* Every variable keeps its type: the pool never holds more idle entries than its
\* size, and no request runs more statements than its route has.
THEOREM ServingTypes == Spec => []TypeOK
<1>1. TypeInv => TypeOK
  BY DEF TypeInv
<1> QED BY <1>1, TypeInit, TypeStep, PTL DEF Spec

-----------------------------------------------------------------------------
\* Where a request may hold something of the pool, and where it must hold a
\* connection: without it a statement could fail for no reason of Neon's.
HoldInv ==
  \A r \in Requests :
    /\ pc[r] = "new" => /\ left[r] = 0 /\ raised[r] = "nothing"
                       /\ reply[r] = NoReply /\ ~excused[r]
    /\ conn[r] # "none" => pc[r] \in {"connecting", "validating", "handling", "raising",
                                      "leaving", "closing"}
    /\ pc[r] = "validating" \/ (pc[r] = "handling" /\ left[r] > 0)
         => conn[r] \in Conditions
    /\ pc[r] = "connecting" => conn[r] \in {"none", "opening"} /\ left[r] = 0

\* What a 503 may be owed to.
Warranted(r) == excused[r] \/ want[r].params = "unbindable"

\* Each thing that ends in a 503 already has its reason: Neon is asleep, the
\* connection in hand is dead, or the database error is on its way out.
ExcuseInv ==
  \A r \in Requests :
    /\ InFlight(r) /\ db = "asleep" => excused[r]
    /\ conn[r] = "dead" => excused[r]
    /\ raised[r] = "DBError" => Warranted(r)
    /\ reply[r].status = 503 => Warranted(r)

\* The id is bound from the arrival to the departure, what is built in between
\* carries it, and only a departure sets the headers.
IdInv ==
  \A r \in Requests :
    /\ pc[r] \in {"connecting", "validating", "handling", "raising", "leaving"} => ctx[r] = r
    /\ pc[r] \in {"crashed", "closing", "done"} => ctx[r] = Unset
    /\ pc[r] \notin {"closing", "done"} => ~reply[r].cors
    /\ pc[r] \in {"leaving", "closing", "done"} /\ (pc[r] = "leaving" \/ reply[r].cors)
         => (reply[r].envelope => reply[r].bodyId = r)
    /\ pc[r] \in {"closing", "done"} /\ reply[r].cors => reply[r].headerId = r
    /\ pc[r] = "closing" => reply[r].cors
    /\ pc[r] = "done" /\ ~reply[r].cors => reply[r].bodyId = Unset

ServingInv == TypeInv /\ HoldInv /\ ExcuseInv /\ IdInv

-----------------------------------------------------------------------------
\* A connection is held only between the arrival and the end.
LEMMA HoldStep ==
  ASSUME TypeInv, HoldInv, [Next]_vars
  PROVE  HoldInv'
<1>0. /\ pc \in [Requests -> PCs] /\ conn \in [Requests -> Holdings]
      /\ left \in [Requests -> 0..MaxStatements] /\ want \in [Requests -> Wants]
      /\ raised \in [Requests -> Exceptions] /\ ctx \in [Requests -> Ids]
      /\ reply \in [Requests -> Replies] /\ excused \in [Requests -> BOOLEAN]
      /\ db \in {"awake", "asleep"}
  BY DEF TypeInv, TypeOK, PoolTypeOK
<1>1. ASSUME NEW r \in Requests, Arrive(r) \/ Step(r)
      PROVE  HoldInv'
  <2>1. CASE Arrive(r)
    <3>1. /\ conn[r] = "none" /\ left[r] = 0 /\ raised[r] = "nothing"
          /\ reply[r] = NoReply
      BY <1>0, <2>1 DEF Arrive, HoldInv
    <3>2. /\ pc'[r] \in {"leaving", "raising", "handling", "connecting"}
          /\ \A q \in Requests : q # r => /\ pc'[q] = pc[q] /\ raised'[q] = raised[q]
                                         /\ reply'[q] = reply[q] /\ excused'[q] = excused[q]
          /\ UNCHANGED <<db, conn, left>>
      BY <1>0, <2>1 DEF Arrive, Raise, Goto, poolVars
    <3> QED BY <3>1, <3>2 DEF HoldInv
  <2>2. CASE GetEntry(r)
    BY <1>0, <2>2 DEF GetEntry, Take, Goto, HoldInv, Conditions, Holdings
  <2>3. CASE Connected(r)
    BY <1>0, <2>3 DEF Connected, Opened, Goto, HoldInv, Conditions, Holdings
  <2>4. CASE ConnectFails(r)
    BY <1>0, <2>4 DEF ConnectFails, OpenFails, Raise, HoldInv, Conditions, Holdings
  <2>5. CASE WaitTimesOut(r)
    BY <1>0, <2>5 DEF WaitTimesOut, Raise, poolVars, HoldInv, Conditions, Holdings
  <2>6. CASE Validate(r)
    BY <1>0, <2>6 DEF Validate, Raise, Goto, poolVars, HoldInv, Conditions, Holdings
  <2>7. CASE Execute(r)
    BY <1>0, <2>7 DEF Execute, poolVars, HoldInv, Conditions, Holdings
  <2>8. CASE ExecuteFails(r)
    BY <1>0, <2>8 DEF ExecuteFails, Raise, poolVars, HoldInv, Conditions, Holdings
  <2>9. CASE Conclude(r)
    BY <1>0, <2>9 DEF Conclude, Raise, Goto, Plain, Bare, poolVars, HoldInv, Conditions,
         Holdings
  <2>10. CASE Unwind(r)
    BY <1>0, <2>10 DEF Unwind, Return, reqVars, HoldInv, Conditions, Holdings
  <2>11. CASE Catch(r)
    BY <1>0, <2>11 DEF Catch, Handled, Unavailable, Envelope, Plain, Bare, Caught, Goto,
         poolVars, HoldInv, Conditions, Holdings
  <2>12. CASE Crash(r)
    BY <1>0, <2>12 DEF Crash, Goto, poolVars, HoldInv, Conditions, Holdings
  <2>13. CASE CatchAll(r)
    BY <1>0, <2>13 DEF CatchAll, Goto, Envelope, Bare, poolVars, HoldInv, Conditions,
         Holdings
  <2>14. CASE Leave(r)
    BY <1>0, <2>14 DEF Leave, Sent, Goto, poolVars, HoldInv, Conditions, Holdings
  <2>15. CASE Close(r)
    BY <1>0, <2>15 DEF Close, Return, Goto, HoldInv, Conditions, Holdings
  <2> QED BY <1>1, <2>1, <2>2, <2>3, <2>4, <2>5, <2>6, <2>7, <2>8, <2>9, <2>10, <2>11,
         <2>12, <2>13, <2>14, <2>15 DEF Step
<1>2. CASE NeonSleeps
  BY <1>0, <1>2 DEF NeonSleeps, Sleep, HoldInv, Conditions, Holdings
<1>3. CASE NeonWakes
  BY <1>0, <1>3 DEF NeonWakes, Wake, reqVars, HoldInv, Conditions, Holdings
<1>4. CASE UNCHANGED vars
  BY <1>4 DEF vars, reqVars, poolVars, HoldInv, Conditions, Holdings
<1> QED BY <1>1, <1>2, <1>3, <1>4 DEF Next

\* No step brings a 503 nearer without a reason.
LEMMA ExcuseStep ==
  ASSUME TypeInv, HoldInv, ExcuseInv, [Next]_vars
  PROVE  ExcuseInv'
<1>0. /\ pc \in [Requests -> PCs] /\ conn \in [Requests -> Holdings]
      /\ left \in [Requests -> 0..MaxStatements] /\ want \in [Requests -> Wants]
      /\ raised \in [Requests -> Exceptions] /\ ctx \in [Requests -> Ids]
      /\ reply \in [Requests -> Replies] /\ excused \in [Requests -> BOOLEAN]
      /\ db \in {"awake", "asleep"}
  BY DEF TypeInv, TypeOK, PoolTypeOK
<1>1. ASSUME NEW r \in Requests, Arrive(r) \/ Step(r)
      PROVE  ExcuseInv'
  <2>1. CASE Arrive(r)
    <3>1. /\ conn[r] = "none" /\ left[r] = 0 /\ raised[r] = "nothing"
          /\ reply[r] = NoReply
      BY <1>0, <2>1 DEF Arrive, HoldInv
    <3>2. /\ pc'[r] \in {"leaving", "raising", "handling", "connecting"}
          /\ \A q \in Requests : q # r => /\ pc'[q] = pc[q] /\ raised'[q] = raised[q]
                                         /\ reply'[q] = reply[q] /\ excused'[q] = excused[q]
                                         /\ want'[q] = want[q]
          /\ UNCHANGED <<db, conn, left>>
      BY <1>0, <2>1 DEF Arrive, Raise, Goto, poolVars
    <3>3. raised'[r] # "DBError" /\ reply'[r].status # 503
      BY <1>0, <2>1, <3>1 DEF Arrive, Raise, NoReply, Bare, TurnedAway, Plain
    <3>4. db = "asleep" => excused'[r]
      BY <1>0, <2>1 DEF Arrive
    <3> QED BY <3>1, <3>2, <3>3, <3>4 DEF ExcuseInv, Warranted, InFlight
  <2>2. CASE GetEntry(r)
    BY <1>0, <2>2 DEF GetEntry, Take, Goto, HoldInv, ExcuseInv, Warranted, InFlight, NoReply, Bare,
         Conditions
  <2>3. CASE Connected(r)
    BY <1>0, <2>3 DEF Connected, Opened, Goto, HoldInv, ExcuseInv, Warranted, InFlight, NoReply,
         Bare, Conditions
  <2>4. CASE ConnectFails(r)
    BY <1>0, <2>4 DEF ConnectFails, OpenFails, Raise, HoldInv, ExcuseInv, Warranted, InFlight,
         NoReply, Bare, Conditions
  <2>5. CASE WaitTimesOut(r)
    BY <1>0, <2>5 DEF WaitTimesOut, Raise, poolVars, HoldInv, ExcuseInv, Warranted, InFlight,
         NoReply, Bare, Conditions
  <2>6. CASE Validate(r)
    <3>1. Fault(want[r].params) # "DBError"
      BY DEF Fault
    <3> QED
      BY <1>0, <2>6, <3>1 DEF Validate, Raise, Goto, poolVars, HoldInv, ExcuseInv, Warranted, InFlight
  <2>7. CASE Execute(r)
    BY <1>0, <2>7 DEF Execute, poolVars, HoldInv, ExcuseInv, Warranted, InFlight, NoReply, Bare,
         Conditions
  <2>8. CASE ExecuteFails(r)
    <3>1. conn[r] \in Conditions
      BY <2>8 DEF ExecuteFails, HoldInv
    <3>2. /\ excused[r] => excused'[r]
          /\ conn[r] = "dead" => excused'[r]
          /\ Warranted(r)'
      BY <1>0, <2>8, <3>1 DEF ExecuteFails, ExcuseInv, Warranted, Conditions
    <3>3. \A q \in Requests : q # r => excused'[q] = excused[q]
      BY <1>0, <2>8 DEF ExecuteFails
    <3>4. /\ \A q \in Requests : q # r => pc'[q] = pc[q] /\ raised'[q] = raised[q]
          /\ pc[r] = "handling"
          /\ UNCHANGED <<db, conn, reply, want>>
      BY <1>0, <2>8 DEF ExecuteFails, Raise, poolVars
    <3> QED BY <3>2, <3>3, <3>4 DEF ExcuseInv, Warranted, InFlight
  <2>9. CASE Conclude(r)
    <3>1. /\ raised'[r] = raised[r] \/ raised'[r] # "DBError"
          /\ reply'[r] = reply[r] \/ reply'[r].status # 503
          /\ pc[r] = "handling"
      BY <1>0, <2>9 DEF Conclude, Raise, Plain, Bare
    <3>2. /\ \A q \in Requests : q # r => /\ pc'[q] = pc[q] /\ raised'[q] = raised[q]
                                         /\ reply'[q] = reply[q]
          /\ UNCHANGED <<db, conn, want, excused>>
      BY <1>0, <2>9 DEF Conclude, Raise, Goto, poolVars
    <3> QED BY <3>1, <3>2 DEF ExcuseInv, Warranted, InFlight
  <2>10. CASE Unwind(r)
    BY <1>0, <2>10 DEF Unwind, Return, reqVars, HoldInv, ExcuseInv, Warranted, InFlight, NoReply,
         Bare, Conditions
  <2>11. CASE Catch(r)
    BY <1>0, <2>11 DEF Catch, Handled, Unavailable, Envelope, Plain, Bare, Caught, Goto,
         poolVars, HoldInv, ExcuseInv, Warranted, InFlight, NoReply, Conditions
  <2>12. CASE Crash(r)
    BY <1>0, <2>12 DEF Crash, Goto, poolVars, HoldInv, ExcuseInv, Warranted, InFlight, NoReply,
         Bare, Conditions
  <2>13. CASE CatchAll(r)
    <3>1. raised'[r] # "DBError" /\ reply'[r].status # 503 /\ pc[r] = "crashed"
      BY <1>0, <2>13 DEF CatchAll, Envelope, Bare
    <3>2. /\ \A q \in Requests : q # r => /\ pc'[q] = pc[q] /\ raised'[q] = raised[q]
                                         /\ reply'[q] = reply[q]
          /\ UNCHANGED <<db, conn, want, excused>>
      BY <1>0, <2>13 DEF CatchAll, Goto, poolVars
    <3> QED BY <3>1, <3>2 DEF ExcuseInv, Warranted, InFlight
  <2>14. CASE Leave(r)
    BY <1>0, <2>14 DEF Leave, Sent, Goto, poolVars, HoldInv, ExcuseInv, Warranted, InFlight,
         NoReply, Bare, Conditions
  <2>15. CASE Close(r)
    BY <1>0, <2>15 DEF Close, Return, Goto, HoldInv, ExcuseInv, Warranted, InFlight, NoReply, Bare,
         Conditions
  <2> QED BY <1>1, <2>1, <2>2, <2>3, <2>4, <2>5, <2>6, <2>7, <2>8, <2>9, <2>10, <2>11,
         <2>12, <2>13, <2>14, <2>15 DEF Step
<1>2. CASE NeonSleeps
  <2>1. \A r \in Requests : excused[r] \/ InFlight(r) => excused'[r]
    BY <1>0, <1>2 DEF NeonSleeps, InFlight
  <2>2. \A r \in Requests : conn'[r] = "dead" => InFlight(r)
    BY <1>0, <1>2 DEF NeonSleeps, Sleep, HoldInv, InFlight
  <2>3. pc' = pc /\ raised' = raised /\ reply' = reply /\ want' = want
    BY <1>2 DEF NeonSleeps
  <2> QED BY <2>1, <2>2, <2>3 DEF ExcuseInv, Warranted, InFlight
<1>3. CASE NeonWakes
  BY <1>0, <1>3 DEF NeonWakes, Wake, reqVars, HoldInv, ExcuseInv, Warranted, InFlight, NoReply,
         Bare, Conditions
<1>4. CASE UNCHANGED vars
  BY <1>4 DEF vars, reqVars, poolVars, HoldInv, ExcuseInv, Warranted, InFlight, NoReply, Bare,
         Conditions
<1> QED BY <1>1, <1>2, <1>3, <1>4 DEF Next

\* No step loses or swaps an id.
LEMMA IdStep ==
  ASSUME TypeInv, HoldInv, IdInv, [Next]_vars
  PROVE  IdInv'
<1>0. /\ pc \in [Requests -> PCs] /\ conn \in [Requests -> Holdings]
      /\ left \in [Requests -> 0..MaxStatements] /\ want \in [Requests -> Wants]
      /\ raised \in [Requests -> Exceptions] /\ ctx \in [Requests -> Ids]
      /\ reply \in [Requests -> Replies] /\ excused \in [Requests -> BOOLEAN]
      /\ db \in {"awake", "asleep"}
  BY DEF TypeInv, TypeOK, PoolTypeOK
<1>1. ASSUME NEW r \in Requests, Arrive(r) \/ Step(r)
      PROVE  IdInv'
  <2>1. CASE Arrive(r)
    BY <1>0, <2>1 DEF Arrive, Raise, Goto, Connects, HoldInv, IdInv, NoReply, Bare,
         TurnedAway, Plain
  <2>2. CASE GetEntry(r)
    BY <1>0, <2>2 DEF GetEntry, Take, Goto, HoldInv, IdInv, NoReply, Bare, TurnedAway
  <2>3. CASE Connected(r)
    BY <1>0, <2>3 DEF Connected, Opened, Goto, HoldInv, IdInv, NoReply, Bare, TurnedAway
  <2>4. CASE ConnectFails(r)
    BY <1>0, <2>4 DEF ConnectFails, OpenFails, Raise, HoldInv, IdInv, NoReply, Bare,
         TurnedAway
  <2>5. CASE WaitTimesOut(r)
    BY <1>0, <2>5 DEF WaitTimesOut, Raise, poolVars, HoldInv, IdInv, NoReply, Bare,
         TurnedAway
  <2>6. CASE Validate(r)
    BY <1>0, <2>6 DEF Validate, Raise, Goto, poolVars, HoldInv, IdInv, NoReply, Bare,
         TurnedAway
  <2>7. CASE Execute(r)
    BY <1>0, <2>7 DEF Execute, poolVars, HoldInv, IdInv, NoReply, Bare, TurnedAway
  <2>8. CASE ExecuteFails(r)
    BY <1>0, <2>8 DEF ExecuteFails, Raise, poolVars, HoldInv, IdInv, NoReply, Bare,
         TurnedAway
  <2>9. CASE Conclude(r)
    BY <1>0, <2>9 DEF Conclude, Raise, Goto, Plain, Bare, poolVars, HoldInv, IdInv,
         NoReply, TurnedAway
  <2>10. CASE Unwind(r)
    BY <1>0, <2>10 DEF Unwind, Return, reqVars, HoldInv, IdInv, NoReply, Bare,
         TurnedAway
  <2>11. CASE Catch(r)
    BY <1>0, <2>11 DEF Catch, Handled, Unavailable, Envelope, Plain, Bare, Caught, Goto,
         poolVars, HoldInv, IdInv, NoReply, TurnedAway
  <2>12. CASE Crash(r)
    BY <1>0, <2>12 DEF Crash, Goto, poolVars, HoldInv, IdInv, NoReply, Bare, TurnedAway
  <2>13. CASE CatchAll(r)
    BY <1>0, <2>13 DEF CatchAll, Goto, Envelope, Bare, poolVars, HoldInv, IdInv,
         NoReply, TurnedAway
  <2>14. CASE Leave(r)
    BY <1>0, <2>14 DEF Leave, Sent, Goto, poolVars, HoldInv, IdInv, NoReply, Bare,
         TurnedAway
  <2>15. CASE Close(r)
    BY <1>0, <2>15 DEF Close, Return, Goto, HoldInv, IdInv, NoReply, Bare, TurnedAway
  <2> QED BY <1>1, <2>1, <2>2, <2>3, <2>4, <2>5, <2>6, <2>7, <2>8, <2>9, <2>10, <2>11,
         <2>12, <2>13, <2>14, <2>15 DEF Step
<1>2. CASE NeonSleeps
  BY <1>0, <1>2 DEF NeonSleeps, Sleep, HoldInv, IdInv, NoReply, Bare, TurnedAway
<1>3. CASE NeonWakes
  BY <1>0, <1>3 DEF NeonWakes, Wake, reqVars, HoldInv, IdInv, NoReply, Bare,
         TurnedAway
<1>4. CASE UNCHANGED vars
  BY <1>4 DEF vars, reqVars, poolVars, HoldInv, IdInv, NoReply, Bare, TurnedAway
<1> QED BY <1>1, <1>2, <1>3, <1>4 DEF Next

LEMMA ServingInit == Init => ServingInv
<1> SUFFICES ASSUME Init PROVE ServingInv
  OBVIOUS
<1>1. TypeInv
  BY TypeInit
<1>2. HoldInv /\ ExcuseInv /\ IdInv
  BY DEF Init, PoolInit, HoldInv, ExcuseInv, Warranted, IdInv, InFlight, NoReply, Bare
<1> QED BY <1>1, <1>2 DEF ServingInv

\* Types, connections in hand, excuses and ids are in order in every reachable state
\* (create_app, get_conn, RequestIdMiddleware).
THEOREM ServingInvariant == Spec => []ServingInv
<1>1. ServingInv /\ [Next]_vars => ServingInv'
  BY TypeStep, HoldStep, ExcuseStep, IdStep DEF ServingInv
<1> QED BY <1>1, ServingInit, PTL DEF Spec

\* Nobody is told that the database is unavailable but for a reason that arose while
\* the request was in flight or for a value of its own that cannot be bound, whatever
\* the pool's size, the number of requests and the times Neon sleeps and wakes
\* (_db_error_handler, make_engine).
THEOREM UnavailableHasItsExcuse == Spec => []UnavailableOnlyWithExcuse
<1>1. ServingInv => UnavailableOnlyWithExcuse
  BY DEF ServingInv, ExcuseInv, Warranted, UnavailableOnlyWithExcuse
<1> QED BY <1>1, ServingInvariant, PTL

-----------------------------------------------------------------------------
\* An exception on its way out is the one its request's parameters or route call for.
RaisedFits(exc, w) ==
  /\ exc # "nothing"
  /\ w.route = "unknown" <=> exc = "HTTPException"
  /\ exc = "BadCursor" => w.params = "badCursor"
  /\ exc \in {"InvalidParameter", "RequestValidationError"} => w.params \in {"invalid", "refused"}
  /\ exc = "ResourceNotFound" => w.route = "item" /\ w.params = "valid"
  /\ exc = "ValidationError" => w.params = "valid" /\ w.route \in {"list", "item"}
  /\ exc = "DBError" => Connects(w.route)
  /\ exc = "Unexpected" => w.params = "unusable" /\ w.route = "list"

\* What a reply tells of its request, whoever made it.
ReplyFits(answer, w, n) ==
  /\ answer.status \in {200, 400, 404, 422, 429, 500, 503}
  /\ answer.retryAfter <=> answer.status = 503
  /\ answer.status = 200 => w.params = "valid" /\ n = 0 /\ w.route # "unknown"
  /\ answer.status = 400 => w.params = "badCursor"
  /\ answer.status = 404 => w.route = "unknown" \/ (w.route = "item" /\ w.params = "valid")
  /\ answer.status = 422 => w.params \in {"invalid", "refused"}
  /\ answer.status = 429 => w.route \in {"list", "item"}
  /\ answer.status = 500 => w.params \in {"valid", "unusable"} /\ w.route \in {"list", "item"}
  /\ answer.status = 503 => Connects(w.route)
  /\ answer.envelope <=> answer.status \notin {200, 429} /\ w.route # "unknown"
  /\ ~answer.envelope => answer.bodyId = Unset

\* Where each request is decides what its exception and its reply may be.
CauseInv ==
  \A r \in Requests :
    /\ pc[r] \in {"connecting", "validating", "handling"} => want[r].route # "unknown"
    /\ pc[r] \in {"connecting", "validating"} \/ (pc[r] = "handling" /\ left[r] > 0)
         => Connects(want[r].route)
    /\ pc[r] = "handling" => Passes(want[r].params)
    /\ pc[r] = "handling" /\ left[r] = 0 => want[r].params = "valid"
    /\ pc[r] \in {"raising", "crashed"} => RaisedFits(raised[r], want[r])
    /\ pc[r] = "crashed" => ~Caught(raised[r])
    /\ pc[r] \notin {"leaving", "closing", "done"} => reply[r] = NoReply
    /\ pc[r] \in {"leaving", "closing", "done"} => ReplyFits(reply[r], want[r], left[r])
    /\ pc[r] = "leaving" => reply[r].status # 500
    /\ pc[r] \in {"closing", "done"} =>
         /\ reply[r].cors <=> reply[r].status # 500
         /\ ~reply[r].cors => reply[r].headerId = Unset
         /\ reply[r].cache = IF reply[r].cors
                               THEN CacheHeader(want[r].route, reply[r].status) ELSE "none"

\* A reply is made with a connection in hand only by a handler's result.
LeaveInv ==
  \A r \in Requests :
    pc[r] \in {"leaving", "closing"} /\ conn[r] # "none" => reply[r].status = 200

-----------------------------------------------------------------------------
\* A handled exception gives the reply its cause calls for.
LEMMA HandledFits ==
  ASSUME NEW r \in Requests, NEW exc \in Exceptions, Caught(exc), RaisedFits(exc, want[r])
  PROVE  /\ ReplyFits(Handled(r, exc), want[r], left[r])
         /\ Handled(r, exc).status # 500
BY DEF Exceptions, Caught, RaisedFits, ReplyFits, Handled, Unavailable, Envelope, Plain, Bare

\* A fault in the parameters raises the exception that tells it.
LEMMA FaultFits ==
  ASSUME NEW w \in Wants, ~Passes(w.params)
  PROVE  RaisedFits(Fault(w.params), w)
<1>1. w.route # "unknown"
  BY DEF Wants, Passes
<1>2. /\ w.params \in {"invalid", "badCursor", "refused", "unusable"}
      /\ w.params = "unusable" => w.route = "list"
  BY DEF Wants, Passes
<1> QED BY <1>1, <1>2 DEF RaisedFits, Fault

\* No step makes a reply tell another cause than its own.
LEMMA CauseStep ==
  ASSUME TypeInv, HoldInv, IdInv, CauseInv, [Next]_vars
  PROVE  CauseInv'
<1>0. /\ pc \in [Requests -> PCs] /\ left \in [Requests -> 0..MaxStatements]
      /\ want \in [Requests -> Wants] /\ raised \in [Requests -> Exceptions]
      /\ reply \in [Requests -> Replies]
  BY DEF TypeInv, TypeOK
<1>1. ASSUME NEW r \in Requests, Arrive(r) \/ Step(r)
      PROVE  CauseInv'
  <2>1. CASE Arrive(r)
    <3>1. PICK w \in Wants :
            /\ want' = [want EXCEPT ![r] = w]
            /\ \/ /\ w.route \in {"list", "item"}
                  /\ reply' = [reply EXCEPT ![r] = TurnedAway]
                  /\ pc' = [pc EXCEPT ![r] = "leaving"] /\ raised' = raised
               \/ /\ w.route = "unknown" /\ Raise(r, "HTTPException") /\ reply' = reply
               \/ /\ w.route = "health" /\ pc' = [pc EXCEPT ![r] = "handling"]
                  /\ raised' = raised /\ reply' = reply
               \/ /\ Connects(w.route) /\ pc' = [pc EXCEPT ![r] = "connecting"]
                  /\ raised' = raised /\ reply' = reply
      BY <2>1 DEF Arrive, Goto
    <3>2. /\ left' = left /\ left[r] = 0 /\ reply[r] = NoReply
          /\ w.route \in {"health", "unknown"} => w.params = "valid"
      BY <1>0, <2>1 DEF Arrive, HoldInv, Wants
    <3>3. CASE w.route \in {"list", "item"} /\ reply' = [reply EXCEPT ![r] = TurnedAway]
               /\ pc' = [pc EXCEPT ![r] = "leaving"] /\ raised' = raised
      <4>1. ReplyFits(TurnedAway, w, left[r]) /\ TurnedAway.status # 500
        BY <3>3 DEF ReplyFits, TurnedAway, Plain, Bare
      <4> QED BY <1>0, <3>1, <3>2, <3>3, <4>1 DEF CauseInv
    <3>4. CASE w.route = "unknown" /\ Raise(r, "HTTPException") /\ reply' = reply
      <4>1. RaisedFits("HTTPException", w)
        BY <3>4 DEF RaisedFits
      <4> QED BY <1>0, <3>1, <3>2, <3>4, <4>1 DEF Raise, CauseInv
    <3>5. CASE w.route = "health" /\ pc' = [pc EXCEPT ![r] = "handling"]
               /\ raised' = raised /\ reply' = reply
      BY <1>0, <3>1, <3>2, <3>5 DEF CauseInv, Passes
    <3>6. CASE Connects(w.route) /\ pc' = [pc EXCEPT ![r] = "connecting"]
               /\ raised' = raised /\ reply' = reply
      BY <1>0, <3>1, <3>2, <3>6 DEF Connects, CauseInv
    <3> QED BY <3>1, <3>3, <3>4, <3>5, <3>6
  <2>2. CASE GetEntry(r)
    BY <1>0, <2>2 DEF GetEntry, Goto, CauseInv
  <2>3. CASE Connected(r)
    BY <1>0, <2>3 DEF Connected, Goto, CauseInv
  <2>4. CASE ConnectFails(r)
    BY <1>0, <2>4 DEF ConnectFails, Raise, CauseInv, RaisedFits
  <2>5. CASE WaitTimesOut(r)
    BY <1>0, <2>5 DEF WaitTimesOut, Raise, CauseInv, RaisedFits
  <2>6. CASE Validate(r)
    <3>1. ~Passes(want[r].params) => RaisedFits(Fault(want[r].params), want[r])
      BY <1>0, FaultFits
    <3>2. Connects(want[r].route) => \A n \in Statements(want[r].route) : n > 0
      <4>1. want[r].route \in {"health", "ready", "unknown", "list", "item"}
        BY <1>0 DEF Wants
      <4> QED BY <4>1 DEF Statements, Connects
    <3> QED BY <1>0, <2>6, <3>1, <3>2 DEF Validate, Raise, Goto, CauseInv
  <2>7. CASE Execute(r)
    BY <1>0, <2>7 DEF Execute, CauseInv
  <2>8. CASE ExecuteFails(r)
    BY <1>0, <2>8 DEF ExecuteFails, Raise, CauseInv, RaisedFits
  <2>9. CASE Conclude(r)
    BY <1>0, <2>9 DEF Conclude, Raise, Goto, Plain, Bare, CauseInv, RaisedFits, ReplyFits
  <2>10. CASE Unwind(r)
    BY <1>0, <2>10 DEF Unwind, reqVars, CauseInv
  <2>11. CASE Catch(r)
    <3>1. /\ ReplyFits(Handled(r, raised[r]), want[r], left[r])
          /\ Handled(r, raised[r]).status # 500
      BY <1>0, <2>11, HandledFits DEF Catch, CauseInv
    <3> QED BY <1>0, <2>11, <3>1 DEF Catch, Goto, CauseInv
  <2>12. CASE Crash(r)
    BY <1>0, <2>12 DEF Crash, Goto, CauseInv
  <2>13. CASE CatchAll(r)
    <3>1. ReplyFits(Envelope(r, 500, FALSE), want[r], left[r])
      BY <1>0, <2>13 DEF CatchAll, CauseInv, RaisedFits, ReplyFits, Caught, Envelope, Bare,
           Exceptions
    <3> QED BY <1>0, <2>13, <3>1 DEF CatchAll, Goto, CauseInv, Envelope, Bare
  <2>14. CASE Leave(r)
    BY <1>0, <2>14 DEF Leave, Sent, Goto, CauseInv, ReplyFits
  <2>15. CASE Close(r)
    BY <1>0, <2>15 DEF Close, Goto, CauseInv
  <2> QED BY <1>1, <2>1, <2>2, <2>3, <2>4, <2>5, <2>6, <2>7, <2>8, <2>9, <2>10, <2>11,
         <2>12, <2>13, <2>14, <2>15 DEF Step
<1>2. CASE NeonSleeps
  BY <1>0, <1>2 DEF NeonSleeps, CauseInv
<1>3. CASE NeonWakes
  BY <1>0, <1>3 DEF NeonWakes, reqVars, CauseInv
<1>4. CASE UNCHANGED vars
  BY <1>4 DEF vars, reqVars, CauseInv
<1> QED BY <1>1, <1>2, <1>3, <1>4 DEF Next

LEMMA CauseInit == Init => CauseInv
BY DEF Init, CauseInv

\* No step makes a reply while its connection is still out, but a result.
LEMMA LeaveStep ==
  ASSUME TypeInv, HoldInv, IdInv, LeaveInv, [Next]_vars
  PROVE  LeaveInv'
<1>0. /\ pc \in [Requests -> PCs] /\ conn \in [Requests -> Holdings]
      /\ reply \in [Requests -> Replies]
  BY DEF TypeInv, TypeOK, PoolTypeOK
<1>1. ASSUME NEW r \in Requests, Arrive(r) \/ Step(r)
      PROVE  LeaveInv'
  <2>1. CASE Arrive(r)
    <3>1. /\ conn' = conn /\ conn[r] = "none"
          /\ \A q \in Requests : q # r => pc'[q] = pc[q] /\ reply'[q] = reply[q]
      BY <1>0, <2>1 DEF Arrive, poolVars, HoldInv, Raise, Goto
    <3> QED BY <3>1 DEF LeaveInv
  <2>2. CASE GetEntry(r)
    BY <1>0, <2>2 DEF GetEntry, Take, Goto, LeaveInv
  <2>3. CASE Connected(r)
    BY <1>0, <2>3 DEF Connected, Opened, Goto, LeaveInv
  <2>4. CASE ConnectFails(r)
    BY <1>0, <2>4 DEF ConnectFails, OpenFails, Raise, LeaveInv
  <2>5. CASE WaitTimesOut(r)
    BY <1>0, <2>5 DEF WaitTimesOut, Raise, poolVars, LeaveInv
  <2>6. CASE Validate(r)
    BY <1>0, <2>6 DEF Validate, Raise, Goto, poolVars, LeaveInv
  <2>7. CASE Execute(r)
    BY <1>0, <2>7 DEF Execute, poolVars, LeaveInv
  <2>8. CASE ExecuteFails(r)
    BY <1>0, <2>8 DEF ExecuteFails, Raise, poolVars, LeaveInv
  <2>9. CASE Conclude(r)
    BY <1>0, <2>9 DEF Conclude, Raise, Goto, Plain, Bare, poolVars, LeaveInv
  <2>10. CASE Unwind(r)
    BY <1>0, <2>10 DEF Unwind, Return, reqVars, LeaveInv
  <2>11. CASE Catch(r)
    BY <1>0, <2>11 DEF Catch, Goto, poolVars, LeaveInv
  <2>12. CASE Crash(r)
    BY <1>0, <2>12 DEF Crash, Goto, poolVars, LeaveInv
  <2>13. CASE CatchAll(r)
    <3>1. pc'[r] = "done"
      BY <1>0, <2>13 DEF CatchAll, Goto
    <3>2. /\ conn' = conn
          /\ \A q \in Requests : q # r => pc'[q] = pc[q] /\ reply'[q] = reply[q]
      BY <1>0, <2>13 DEF CatchAll, Goto, poolVars
    <3> QED BY <3>1, <3>2 DEF LeaveInv
  <2>14. CASE Leave(r)
    BY <1>0, <2>14 DEF Leave, Sent, Goto, poolVars, LeaveInv
  <2>15. CASE Close(r)
    BY <1>0, <2>15 DEF Close, Return, Goto, LeaveInv
  <2> QED BY <1>1, <2>1, <2>2, <2>3, <2>4, <2>5, <2>6, <2>7, <2>8, <2>9, <2>10, <2>11,
         <2>12, <2>13, <2>14, <2>15 DEF Step
<1>2. CASE NeonSleeps
  BY <1>0, <1>2 DEF NeonSleeps, Sleep, LeaveInv
<1>3. CASE NeonWakes
  BY <1>0, <1>3 DEF NeonWakes, Wake, reqVars, LeaveInv
<1>4. CASE UNCHANGED vars
  BY <1>4 DEF vars, reqVars, poolVars, LeaveInv
<1> QED BY <1>1, <1>2, <1>3, <1>4 DEF Next

-----------------------------------------------------------------------------
\* The connections in use and the idle ones together keep to the pool's limit.
BoundInv == Cardinality(Holders) + Idle <= PoolSize + MaxOverflow

\* Taking an entry adds one holder, giving one back removes it.
LEMMA HoldersCounted ==
  ASSUME NEW r \in Requests
  PROVE  /\ IsFiniteSet(Holders) /\ Cardinality(Holders) \in Nat
         /\ r \notin Holders =>
              Cardinality(Holders \cup {r}) = Cardinality(Holders) + 1
         /\ r \in Holders =>
              Cardinality(Holders \ {r}) = Cardinality(Holders) - 1
<1>1. IsFiniteSet(Holders)
  BY PoolAssumption, FS_Subset DEF Holders
<1>2. Cardinality(Holders) \in Nat
  BY <1>1, FS_CardinalityType
<1>3. r \notin Holders => Cardinality(Holders \cup {r}) = Cardinality(Holders) + 1
  BY <1>1, FS_AddElement
<1>4. r \in Holders => Cardinality(Holders \ {r}) = Cardinality(Holders) - 1
  BY <1>1, FS_RemoveElement
<1> QED BY <1>1, <1>2, <1>3, <1>4

\* Opening a connection waits for room, and putting one back makes it.
LEMMA BoundStep ==
  ASSUME PoolInv, BoundInv, NEW r \in Requests,
         Take(r) \/ Opened(r) \/ OpenFails(r) \/ Return(r) \/ UNCHANGED poolVars
  PROVE  BoundInv'
<1> USE PoolAssumption
<1>0. /\ conn \in [Requests -> Holdings] /\ idle \in [Conditions -> 0..PoolSize]
      /\ idle["live"] \in Nat /\ idle["dead"] \in Nat
  BY DEF PoolInv, PoolTypeOK, Conditions
<1>1. /\ IsFiniteSet(Holders) /\ Cardinality(Holders) \in Nat
      /\ r \notin Holders => Cardinality(Holders \cup {r}) = Cardinality(Holders) + 1
      /\ r \in Holders => Cardinality(Holders \ {r}) = Cardinality(Holders) - 1
  BY HoldersCounted
<1>2. CASE Take(r)
  <2>1. r \notin Holders /\ Holders' = Holders \cup {r}
    BY <1>0, <1>2 DEF Take, Holders
  <2>2. Cardinality(Holders) < PoolSize + MaxOverflow
    BY <1>1, <1>2 DEF Take, Exhausted
  <2>3. Idle' = Idle - 1 \/ (Idle = 0 /\ Idle' = 0)
    BY <1>0, <1>2 DEF Take, Idle, Conditions
  <2>4. Idle \in Nat
    BY <1>0 DEF Idle
  <2> QED BY <1>1, <2>1, <2>2, <2>3, <2>4 DEF BoundInv
<1>3. CASE Opened(r)
  <2>1. Holders' = Holders /\ Idle' = Idle
    BY <1>0, <1>3 DEF Opened, Holders, Idle
  <2> QED BY <2>1 DEF BoundInv
<1>4. CASE OpenFails(r) \/ Return(r)
  <2>1. r \in Holders /\ Holders' = Holders \ {r}
    BY <1>0, <1>4 DEF OpenFails, Return, Holders, Conditions
  <2>2. Idle' = Idle \/ Idle' = Idle + 1
    <3>1. \E c \in Conditions : PutBack(c) \/ idle' = idle
      BY <1>4 DEF OpenFails, Return, Conditions
    <3> QED BY <1>0, <3>1 DEF PutBack, Idle, Conditions
  <2>3. Idle \in Nat
    BY <1>0 DEF Idle
  <2> QED BY <1>1, <2>1, <2>2, <2>3 DEF BoundInv
<1>5. CASE UNCHANGED poolVars
  BY <1>5 DEF poolVars, BoundInv, Holders, Idle
<1> QED BY <1>2, <1>3, <1>4, <1>5

\* Neon's sleep closes nothing and opens nothing.
LEMMA BoundKept ==
  ASSUME TypeInv, BoundInv, [Next]_vars
  PROVE  BoundInv'
<1>0. /\ PoolInv /\ conn \in [Requests -> Holdings]
      /\ idle \in [Conditions -> 0..PoolSize]
  BY DEF TypeInv, PoolInv, PoolTypeOK
<1>1. ASSUME NEW r \in Requests, Arrive(r) \/ Step(r)
      PROVE  BoundInv'
  BY <1>0, <1>1, StepIsPoolStep, BoundStep
<1>2. CASE NeonSleeps
  <2>1. Holders' = Holders
    BY <1>0, <1>2 DEF NeonSleeps, Sleep, Holders
  <2>2. Idle' = Idle
    BY <1>0, <1>2, PoolAssumption DEF NeonSleeps, Sleep, Idle, Conditions
  <2> QED BY <2>1, <2>2 DEF BoundInv
<1>3. CASE NeonWakes
  BY <1>3 DEF NeonWakes, Wake, BoundInv, Holders, Idle
<1>4. CASE UNCHANGED vars
  BY <1>4 DEF vars, poolVars, BoundInv, Holders, Idle
<1> QED BY <1>1, <1>2, <1>3, <1>4 DEF Next

LEMMA BoundInit == Init => BoundInv
<1> SUFFICES ASSUME Init PROVE BoundInv
  OBVIOUS
<1>1. Holders = {}
  BY DEF Init, PoolInit, Holders
<1>2. Idle \in {0, 1}
  BY DEF Init, PoolInit, Idle, Conditions
<1> QED BY <1>1, <1>2, FS_EmptySet, PoolAssumption DEF BoundInv

-----------------------------------------------------------------------------
ReplyInv == ServingInv /\ CauseInv /\ LeaveInv /\ BoundInv

\* Exceptions, replies and connections fit the request at every place it may be at, in
\* every reachable state (create_app, errors.py, get_conn).
THEOREM ReplyInvariant == Spec => []ReplyInv
<1>1. Init => ReplyInv
  BY ServingInit, CauseInit, BoundInit DEF ReplyInv, Init, LeaveInv
<1>2. ReplyInv /\ [Next]_vars => ReplyInv'
  BY TypeStep, HoldStep, ExcuseStep, IdStep, CauseStep, LeaveStep, BoundKept
     DEF ReplyInv, ServingInv
<1> QED BY <1>1, <1>2, PTL DEF Spec

\* A client that meets an error knows by which id to ask for it, except after the
\* catch-all's 500, for any number of requests under any interleaving
\* (RequestIdMiddleware, _envelope, _catch_all_handler, SlowAPIMiddleware).
THEOREM EveryReplyItsOwnId == Spec => []RepliesCarryTheirId
<1>1. ReplyInv => RepliesCarryTheirId
  <2> SUFFICES ASSUME ReplyInv, NEW r \in Requests, pc[r] = "done"
               PROVE  /\ reply[r].headerId = IF reply[r].status = 500 THEN Unset ELSE r
                      /\ reply[r].bodyId = IF reply[r].envelope /\ reply[r].status # 500
                                             THEN r ELSE Unset
    BY DEF RepliesCarryTheirId, Done
  <2>1. /\ reply[r].cors => reply[r].headerId = r
        /\ reply[r].cors /\ reply[r].envelope => reply[r].bodyId = r
        /\ ~reply[r].cors => reply[r].bodyId = Unset
    BY DEF ReplyInv, ServingInv, IdInv
  <2>2. /\ reply[r].cors <=> reply[r].status # 500
        /\ ~reply[r].cors => reply[r].headerId = Unset
        /\ ~reply[r].envelope => reply[r].bodyId = Unset
    BY DEF ReplyInv, CauseInv, ReplyFits
  <2> QED BY <2>1, <2>2
<1> QED BY <1>1, ReplyInvariant, PTL

\* A status tells why the request ended as it did, and the 503 alone when to come back,
\* for any number of requests under any interleaving.
THEOREM EveryStatusItsCause == Spec => []StatusTellsCause
<1>1. ReplyInv => StatusTellsCause
  BY DEF ReplyInv, CauseInv, ReplyFits, Connects, StatusTellsCause, Done
<1> QED BY <1>1, ReplyInvariant, PTL

\* Every way a request may end gives its connection back, before an error reply is
\* made, and the connections stay in the pool's bound, whatever its size.
THEOREM NoConnectionIsLost == Spec => []ConnectionsReturned
<1>1. ReplyInv => ConnectionsReturned
  BY DEF ReplyInv, ServingInv, HoldInv, LeaveInv, BoundInv, ConnectionsReturned
<1> QED BY <1>1, ReplyInvariant, PTL

-----------------------------------------------------------------------------
\* What fits a request is an outcome of its own, with trouble if it is a 503.
LEMMA FitsIsOutcome ==
  ASSUME NEW a, NEW w \in Wants, NEW n, NEW t \in BOOLEAN, ReplyFits(a, w, n),
         a.status = 503 => t \/ w.params = "unbindable"
  PROVE  a.status \in Service!Outcomes(w, t)
<1>1. w.route \in {"health", "ready", "unknown", "list", "item"}
  BY DEF Wants
<1>2. w.params # "valid" => w.route \in {"list", "item"}
  BY DEF Wants
<1> QED BY <1>1, <1>2 DEF ReplyFits, Connects, Service!Outcomes, Service!Probe, Service!Data

\* What leaves through the middleware is the answer of its status.
LEMMA SentIsAnswer ==
  ASSUME ReplyInv, NEW r \in Requests, pc[r] = "leaving"
  PROVE  /\ Sent(r) = Service!AnswerOf(r, want[r], reply[r].status)
         /\ reply[r].status \in Service!Outcomes(want[r], excused[r])
<1>1. /\ want[r] \in Wants /\ excused[r] \in BOOLEAN
      /\ want[r].route \in {"health", "ready", "unknown", "list", "item"}
  BY DEF ReplyInv, ServingInv, TypeInv, TypeOK, Wants
<1>2. ReplyFits(reply[r], want[r], left[r]) /\ reply[r].status # 500
  BY DEF ReplyInv, CauseInv
<1>3. /\ reply[r].status = 503 => excused[r] \/ want[r].params = "unbindable"
      /\ ctx[r] = r /\ (reply[r].envelope => reply[r].bodyId = r)
  BY DEF ReplyInv, ServingInv, ExcuseInv, Warranted, IdInv
<1>4. reply[r].envelope \in BOOLEAN /\ reply[r].retryAfter \in BOOLEAN
  BY DEF ReplyInv, ServingInv, TypeInv, TypeOK, Replies
<1>5. reply[r].bodyId = IF reply[r].status \in {200, 429, 500} \/ want[r].route = "unknown"
                          THEN Unset ELSE r
  BY <1>2, <1>3, <1>4 DEF ReplyFits
<1>6. CacheHeader(want[r].route, reply[r].status)
        = IF Service!Probe(want[r]) THEN "no-store"
          ELSE IF reply[r].status = 200 THEN "public" ELSE "none"
  BY DEF CacheHeader, Service!Probe
<1>7. /\ reply[r].envelope = (reply[r].status \notin {200, 429} /\ want[r].route # "unknown")
      /\ reply[r].retryAfter = (reply[r].status = 503)
      /\ TRUE = (reply[r].status # 500)
  BY <1>2, <1>4 DEF ReplyFits
<1>8. Sent(r) = Service!AnswerOf(r, want[r], reply[r].status)
  BY <1>2, <1>3, <1>5, <1>6, <1>7 DEF Sent, Service!AnswerOf
<1> QED BY <1>1, <1>2, <1>3, <1>8, FitsIsOutcome

\* What the catch-all sends is the answer of its status.
LEMMA CatchAllIsAnswer ==
  ASSUME ReplyInv, NEW r \in Requests, pc[r] = "crashed"
  PROVE  /\ Envelope(r, 500, FALSE) = Service!AnswerOf(r, want[r], 500)
         /\ 500 \in Service!Outcomes(want[r], excused[r])
<1>1. RaisedFits(raised[r], want[r]) /\ ~Caught(raised[r]) /\ raised[r] \in Exceptions
  BY DEF ReplyInv, CauseInv, ServingInv, TypeInv, TypeOK
<1>2. want[r].route \in {"list", "item"} /\ want[r].params \in {"valid", "unusable"}
  <2>1. want[r] \in Wants
    BY DEF ReplyInv, ServingInv, TypeInv, TypeOK
  <2>2. raised[r] \in {"ValidationError", "Unexpected"}
    BY <1>1 DEF RaisedFits, Caught
  <2>3. want[r].params # "valid" => want[r].route \in {"list", "item"}
    BY <2>1 DEF Wants
  <2> QED BY <1>1, <2>2, <2>3 DEF RaisedFits
<1>3. ctx[r] = Unset
  BY DEF ReplyInv, ServingInv, IdInv
<1>4. /\ TRUE = (500 \notin {200, 429} /\ want[r].route # "unknown")
      /\ FALSE = (500 = 503) /\ FALSE = (500 # 500)
      /\ Unset = IF 500 \in {200, 429, 500} \/ want[r].route = "unknown" THEN Unset ELSE r
      /\ Unset = IF 500 = 500 THEN Unset ELSE r
      /\ "none" = IF Service!Probe(want[r]) THEN "no-store"
                  ELSE IF 500 = 200 THEN "public" ELSE "none"
  BY <1>2 DEF Service!Probe
<1>5. Envelope(r, 500, FALSE) = Service!AnswerOf(r, want[r], 500)
  BY <1>3, <1>4 DEF Envelope, Bare, Service!AnswerOf
<1>6. 500 \in Service!Outcomes(want[r], excused[r])
  BY <1>2 DEF Service!Outcomes, Service!Data
<1> QED BY <1>5, <1>6

\* Where the abstract request is.
Place(r) == IF pc[r] = "new" THEN "away"
            ELSE IF pc[r] \in {"closing", "done"} THEN "answered" ELSE "waiting"

Shown(r) == IF pc[r] \in {"closing", "done"} THEN reply[r] ELSE NoReply

\* A step of one request that leaves its place, its wish and its answer alone is the
\* service's trouble or nothing.
LEMMA InnerStep ==
  ASSUME TypeOK, want' = want, excused' \in [Requests -> BOOLEAN],
         \A q \in Requests : /\ Place(q)' = Place(q) /\ Shown(q)' = Shown(q)
                             /\ excused[q] => excused'[q]
                             /\ excused'[q] => excused[q] \/ Place(q) # "away"
  PROVE  Service!Trouble
<1> DEFINE P == [r \in Requests |-> Place(r)]
           A == [r \in Requests |-> Shown(r)]
           S == {r \in Requests : excused'[r] /\ ~excused[r]}
<1>1. P' = P /\ A' = A
  OBVIOUS
<1>2. S \in SUBSET {r \in Requests : P[r] # "away"}
  OBVIOUS
<1>3. {r \in Requests : excused'[r]} = {r \in Requests : excused[r]} \cup S
  OBVIOUS
<1> QED BY <1>1, <1>2, <1>3 DEF Service!Trouble, Place, Shown

\* Up to its answer a request's steps show nothing of it but its troubles.
LEMMA StepShowsNothing ==
  ASSUME ReplyInv, NEW r \in Requests, Step(r), ~Leave(r), ~CatchAll(r)
  PROVE  Service!Trouble
<1>0. /\ TypeOK /\ pc \in [Requests -> PCs] /\ reply \in [Requests -> Replies]
      /\ excused \in [Requests -> BOOLEAN]
  BY DEF ReplyInv, ServingInv, TypeInv, TypeOK
<1>1. /\ want' = want
      /\ \A q \in Requests : q # r => pc'[q] = pc[q] /\ reply'[q] = reply[q]
      /\ \/ /\ pc[r] \notin {"new", "closing", "done"}
            /\ pc'[r] \notin {"new", "closing", "done"}
         \/ pc[r] = "closing" /\ pc'[r] = "done" /\ reply' = reply
  <2>1. CASE GetEntry(r) \/ Connected(r) \/ Execute(r) \/ Unwind(r) \/ Crash(r)
    BY <1>0, <2>1 DEF GetEntry, Connected, Execute, Unwind, Crash, Goto, reqVars
  <2>2. CASE ConnectFails(r) \/ WaitTimesOut(r) \/ ExecuteFails(r)
    BY <1>0, <2>2 DEF ConnectFails, WaitTimesOut, ExecuteFails, Raise
  <2>3. CASE Validate(r) \/ Conclude(r)
    BY <1>0, <2>3 DEF Validate, Conclude, Raise, Goto
  <2>4. CASE Catch(r) \/ Close(r)
    BY <1>0, <2>4 DEF Catch, Close, Goto
  <2> QED BY <2>1, <2>2, <2>3, <2>4 DEF Step
<1>2. /\ excused' \in [Requests -> BOOLEAN]
      /\ \A q \in Requests : excused[q] => excused'[q]
      /\ \A q \in Requests : excused'[q] => excused[q] \/ (q = r /\ pc[r] # "new")
  <2>1. CASE WaitTimesOut(r) \/ ExecuteFails(r)
    BY <1>0, <2>1 DEF WaitTimesOut, ExecuteFails
  <2>2. CASE excused' = excused
    BY <1>0, <2>2
  <2> QED
    BY <2>1, <2>2 DEF Step, GetEntry, Connected, ConnectFails, Validate, Execute, Conclude,
       Unwind, Catch, Crash, Close, reqVars
<1>3. \A q \in Requests : /\ Place(q)' = Place(q) /\ Shown(q)' = Shown(q)
                          /\ excused[q] => excused'[q]
                          /\ excused'[q] => excused[q] \/ Place(q) # "away"
  BY <1>1, <1>2 DEF Place, Shown
<1> QED BY <1>0, <1>1, <1>2, <1>3, InnerStep

\* A request that comes in comes to the service.
LEMMA ArriveIsCome ==
  ASSUME ReplyInv, NEW r \in Requests, Arrive(r)
  PROVE  Service!Come(r)
<1> DEFINE P == [q \in Requests |-> Place(q)]
           A == [q \in Requests |-> Shown(q)]
           T == {q \in Requests : excused[q]}
<1>0. /\ pc \in [Requests -> PCs] /\ reply \in [Requests -> Replies]
      /\ excused \in [Requests -> BOOLEAN] /\ want \in [Requests -> Wants]
  BY DEF ReplyInv, ServingInv, TypeInv, TypeOK
<1>1. PICK w \in Wants : want' = [want EXCEPT ![r] = w]
  BY DEF Arrive
<1>2. /\ pc[r] = "new" /\ pc'[r] \in {"leaving", "raising", "handling", "connecting"}
      /\ \A q \in Requests : q # r => pc'[q] = pc[q] /\ reply'[q] = reply[q]
      /\ excused' = [excused EXCEPT ![r] = (db = "asleep")]
  BY <1>0 DEF Arrive, Raise, Goto
<1>3. P[r] = "away" /\ P' = [P EXCEPT ![r] = "waiting"]
  BY <1>2 DEF Place
<1>4. A' = A
  BY <1>2 DEF Shown
<1>5. ~excused[r]
  BY <1>2 DEF ReplyInv, ServingInv, HoldInv
<1>6. T' \in {T, T \cup {r}}
  BY <1>0, <1>2, <1>5
<1> QED BY <1>1, <1>3, <1>4, <1>6 DEF Service!Come, Place, Shown

\* A reply on its way out, through the middleware or past it, is the service's answer.
LEMMA SendingIsAnswer ==
  ASSUME ReplyInv, NEW r \in Requests, Leave(r) \/ CatchAll(r)
  PROVE  Service!Answer(r)
<1> DEFINE P == [q \in Requests |-> Place(q)]
           A == [q \in Requests |-> Shown(q)]
           T == {q \in Requests : excused[q]}
<1>0. /\ pc \in [Requests -> PCs] /\ reply \in [Requests -> Replies]
      /\ excused \in [Requests -> BOOLEAN]
  BY DEF ReplyInv, ServingInv, TypeInv, TypeOK
<1>1. /\ want' = want /\ excused' = excused
      /\ pc[r] \in {"leaving", "crashed"} /\ pc'[r] \in {"closing", "done"}
      /\ \A q \in Requests : q # r => pc'[q] = pc[q] /\ reply'[q] = reply[q]
  BY <1>0 DEF Leave, CatchAll, Goto
<1>2. \E s \in Service!Outcomes(want[r], excused[r]) :
        reply'[r] = Service!AnswerOf(r, want[r], s)
  <2>1. CASE Leave(r)
    <3>1. pc[r] = "leaving" /\ reply'[r] = Sent(r)
      BY <1>0, <2>1 DEF Leave
    <3> QED BY <3>1, SentIsAnswer
  <2>2. CASE CatchAll(r)
    <3>1. pc[r] = "crashed" /\ reply'[r] = Envelope(r, 500, FALSE)
      BY <1>0, <2>2 DEF CatchAll
    <3>2. /\ Envelope(r, 500, FALSE) = Service!AnswerOf(r, want[r], 500)
          /\ 500 \in Service!Outcomes(want[r], excused[r])
      BY <3>1, CatchAllIsAnswer
    <3>3. reply'[r] = Service!AnswerOf(r, want[r], 500)
      BY <3>1, <3>2
    <3> QED BY <3>2, <3>3
  <2> QED BY <2>1, <2>2
<1>3. P[r] = "waiting" /\ P' = [P EXCEPT ![r] = "answered"]
  BY <1>1 DEF Place
<1>4. \E s \in Service!Outcomes(want[r], excused[r]) :
        A' = [A EXCEPT ![r] = Service!AnswerOf(r, want[r], s)]
  BY <1>1, <1>2 DEF Shown
<1>5. T' = T /\ (r \in T) = excused[r]
  BY <1>0, <1>1
<1> QED BY <1>1, <1>3, <1>4, <1>5 DEF Service!Answer, Place, Shown

\* However many requests share the loop, the pool and Neon, the service is the one in
\* which each is answered once and for itself: their interleaving shows in no answer
\* (create_app, get_conn, errors.py, CacheControlMiddleware, RequestIdMiddleware).
THEOREM ServiceIsImplemented == Spec => ImplementsService
<1>1. Init => Service!Init
  BY DEF Init, Service!Init, Wants
<1>2. ReplyInv /\ [Next]_vars => [Service!Next]_(Service!vars)
  <2> SUFFICES ASSUME ReplyInv, [Next]_vars PROVE Service!Next \/ UNCHANGED Service!vars
    OBVIOUS
  <2>1. ASSUME NEW r \in Requests, Arrive(r) PROVE Service!Next
    BY <2>1, ArriveIsCome DEF Service!Next
  <2>2. ASSUME NEW r \in Requests, Step(r) PROVE Service!Next
    BY <2>2, StepShowsNothing, SendingIsAnswer DEF Service!Next
  <2>3. CASE NeonSleeps
    <3>1. /\ TypeOK /\ want' = want /\ excused' \in [Requests -> BOOLEAN]
          /\ \A q \in Requests : /\ Place(q)' = Place(q) /\ Shown(q)' = Shown(q)
                                 /\ excused[q] => excused'[q]
                                 /\ excused'[q] => excused[q] \/ Place(q) # "away"
      BY <2>3 DEF ReplyInv, ServingInv, TypeInv, TypeOK, NeonSleeps, Place, Shown
    <3> QED BY <3>1, InnerStep DEF Service!Next
  <2>4. CASE NeonWakes \/ UNCHANGED vars
    BY <2>4 DEF NeonWakes, vars, reqVars, Service!vars
  <2> QED BY <2>1, <2>2, <2>3, <2>4 DEF Next
<1> QED BY <1>1, <1>2, ReplyInvariant, PTL DEF Spec, ImplementsService, Service!Spec

-----------------------------------------------------------------------------
\* What a request has of the pool at each place: a connection only if its route asks
\* for one, an entry being opened only while it connects, and the connection it is to
\* give back when it closes.
HandsInv ==
  \A r \in Requests :
    /\ conn[r] # "none" => Connects(want[r].route)
    /\ conn[r] = "opening" => pc[r] = "connecting"
    /\ pc[r] = "closing" => conn[r] \in Conditions

LEMMA HandsStep ==
  ASSUME ReplyInv, HandsInv, [Next]_vars
  PROVE  HandsInv'
<1>0. /\ pc \in [Requests -> PCs] /\ conn \in [Requests -> Holdings]
      /\ want \in [Requests -> Wants] /\ HoldInv /\ CauseInv
  BY DEF ReplyInv, ServingInv, TypeInv, TypeOK, PoolTypeOK
<1>1. ASSUME NEW r \in Requests, Arrive(r) \/ Step(r)
      PROVE  HandsInv'
  <2>1. CASE Arrive(r)
    <3>1. /\ conn' = conn /\ conn[r] = "none" /\ pc'[r] # "closing"
          /\ \A q \in Requests : q # r => pc'[q] = pc[q] /\ want'[q] = want[q]
      BY <1>0, <2>1 DEF Arrive, poolVars, HoldInv, Raise, Goto
    <3> QED BY <3>1 DEF HandsInv
  <2>2. CASE GetEntry(r)
    BY <1>0, <2>2 DEF GetEntry, Take, Goto, HandsInv, CauseInv
  <2>3. CASE Connected(r)
    BY <1>0, <2>3 DEF Connected, Opened, Goto, HandsInv
  <2>4. CASE ConnectFails(r)
    BY <1>0, <2>4 DEF ConnectFails, OpenFails, Raise, HandsInv
  <2>5. CASE WaitTimesOut(r)
    BY <1>0, <2>5 DEF WaitTimesOut, Raise, poolVars, HandsInv
  <2>6. CASE Validate(r)
    BY <1>0, <2>6 DEF Validate, Raise, Goto, poolVars, HandsInv
  <2>7. CASE Execute(r) \/ Unwind(r)
    BY <1>0, <2>7 DEF Execute, Unwind, Return, reqVars, poolVars, HandsInv
  <2>8. CASE ExecuteFails(r)
    BY <1>0, <2>8 DEF ExecuteFails, Raise, poolVars, HandsInv
  <2>9. CASE Conclude(r)
    BY <1>0, <2>9 DEF Conclude, Raise, Goto, poolVars, HandsInv
  <2>10. CASE Catch(r) \/ Crash(r) \/ CatchAll(r)
    BY <1>0, <2>10 DEF Catch, Crash, CatchAll, Goto, poolVars, HandsInv
  <2>11. CASE Leave(r)
    BY <1>0, <2>11 DEF Leave, Goto, poolVars, HandsInv, Holdings, Conditions
  <2>12. CASE Close(r)
    BY <1>0, <2>12 DEF Close, Return, Goto, HandsInv
  <2> QED BY <1>1, <2>1, <2>2, <2>3, <2>4, <2>5, <2>6, <2>7, <2>8, <2>9, <2>10, <2>11,
         <2>12 DEF Step
<1>2. CASE NeonSleeps
  BY <1>0, <1>2 DEF NeonSleeps, Sleep, HandsInv, Conditions
<1>3. CASE NeonWakes
  BY <1>0, <1>3 DEF NeonWakes, Wake, reqVars, HandsInv
<1>4. CASE UNCHANGED vars
  BY <1>4 DEF vars, reqVars, poolVars, HandsInv
<1> QED BY <1>1, <1>2, <1>3, <1>4 DEF Next

\* What a request has in hand fits its route and its place in every reachable state
\* (get_conn, solved for the routes of routers/ that ask for it).
THEOREM HandsInvariant == Spec => []HandsInv
<1>1. Init => HandsInv
  BY DEF Init, PoolInit, HandsInv
<1>2. ReplyInv /\ HandsInv /\ [Next]_vars => HandsInv'
  BY HandsStep
<1> QED BY <1>1, <1>2, ReplyInvariant, PTL DEF Spec

\* The liveness probe touches neither the pool nor Neon at any moment, and its answer
\* is 200: the safety part of LivenessAnswers200.
ProbeStandsAlone ==
  \A r \in Requests :
    pc[r] # "new" /\ want[r].route = "health" =>
      /\ conn[r] = "none" /\ pc[r] \in {"handling", "leaving", "done"}
      /\ Done(r) => reply[r].status = 200

\* That holds for every number of requests and whatever state the pool and Neon are
\* in (routers/health.py health, create_app).
THEOREM ProbesStandAlone == Spec => []ProbeStandsAlone
<1>1. ReplyInv /\ HandsInv => ProbeStandsAlone
  <2> SUFFICES ASSUME ReplyInv, HandsInv, NEW r \in Requests, pc[r] # "new",
                      want[r].route = "health"
               PROVE  /\ conn[r] = "none" /\ pc[r] \in {"handling", "leaving", "done"}
                      /\ Done(r) => reply[r].status = 200
    BY DEF ProbeStandsAlone
  <2>1. /\ pc[r] \in PCs /\ want[r] \in Wants /\ raised[r] \in Exceptions
        /\ want[r].params = "valid" /\ ~Connects(want[r].route)
    BY DEF ReplyInv, ServingInv, TypeInv, TypeOK, Wants, Connects
  <2>2. conn[r] = "none" /\ pc[r] # "closing"
    BY <2>1 DEF HandsInv, Conditions
  <2>3. pc[r] \notin {"connecting", "validating"}
    BY <2>1 DEF ReplyInv, CauseInv
  <2>4. \A exc \in Exceptions : ~RaisedFits(exc, want[r])
    BY <2>1 DEF RaisedFits, Exceptions
  <2>5. pc[r] \notin {"raising", "crashed"}
    BY <2>1, <2>4 DEF ReplyInv, CauseInv
  <2>6. pc[r] = "done" => reply[r].status = 200
    BY <2>1 DEF ReplyInv, CauseInv, ReplyFits
  <2> QED BY <2>1, <2>2, <2>3, <2>5, <2>6 DEF PCs, Done
<1> QED BY <1>1, ReplyInvariant, HandsInvariant, PTL

-----------------------------------------------------------------------------
\* How many steps a request has at most before it.
Rank(r) ==
  CASE pc[r] = "new" -> MaxStatements + 9
    [] pc[r] = "connecting" -> MaxStatements + IF conn[r] = "none" THEN 8 ELSE 7
    [] pc[r] = "validating" -> MaxStatements + 6
    [] pc[r] = "handling" -> left[r] + 5
    [] pc[r] = "raising" -> IF conn[r] = "none" THEN 3 ELSE 4
    [] pc[r] \in {"crashed", "leaving"} -> 2
    [] pc[r] = "closing" -> 1
    [] OTHER -> 0

\* Every step of a request brings it nearer to its end, and nobody else's step, Neon's
\* sleep and waking included, puts it off: with every task getting its turn, this is
\* why Answered holds.
EachStepCounts ==
  [][\A r \in Requests : /\ Rank(r)' <= Rank(r)
                         /\ Arrive(r) \/ Step(r) => Rank(r)' < Rank(r)]_vars

LEMMA RankTyped == TypeOK => \A r \in Requests : Rank(r) \in 0..(MaxStatements + 9)
BY ServingAssumption DEF TypeOK, PCs, Rank

LEMMA RankTypedNext == TypeOK' => \A r \in Requests : Rank(r)' \in 0..(MaxStatements + 9)
BY ServingAssumption DEF TypeOK, PCs, Rank

LEMMA OwnStepCounts ==
  ASSUME ReplyInv, HandsInv, NEW r \in Requests, Arrive(r) \/ Step(r)
  PROVE  Rank(r)' < Rank(r)
<1> USE ServingAssumption DEF Rank
<1>0. /\ pc \in [Requests -> PCs] /\ conn \in [Requests -> Holdings]
      /\ left \in [Requests -> 0..MaxStatements] /\ HoldInv
  BY DEF ReplyInv, ServingInv, TypeInv, TypeOK, PoolTypeOK
<1>1. CASE Arrive(r)
  <2>1. pc[r] = "new" /\ pc'[r] \in {"leaving", "raising", "handling", "connecting"}
    BY <1>0, <1>1 DEF Arrive, Raise, Goto
  <2>2. conn' = conn /\ conn[r] = "none" /\ left' = left /\ left[r] = 0
    BY <1>0, <2>1, <1>1 DEF Arrive, poolVars, HoldInv
  <2> QED BY <2>1, <2>2
<1>2. CASE GetEntry(r) \/ Connected(r) \/ ConnectFails(r) \/ WaitTimesOut(r)
  BY <1>0, <1>2 DEF GetEntry, Take, Connected, Opened, ConnectFails, OpenFails, WaitTimesOut,
     Raise, Goto, poolVars
<1>3. CASE Validate(r)
  <2>1. \A n \in Statements(want[r].route) : n \in 0..MaxStatements
    BY DEF Statements
  <2> QED BY <1>0, <1>3, <2>1 DEF Validate, Raise, Goto, poolVars
<1>4. CASE Execute(r)
  BY <1>0, <1>4 DEF Execute, poolVars
<1>5. CASE ExecuteFails(r) \/ Conclude(r)
  BY <1>0, <1>5 DEF ExecuteFails, Conclude, Raise, Goto, poolVars
<1>6. CASE Unwind(r)
  BY <1>0, <1>6 DEF Unwind, Return, reqVars, Conditions
<1>7. CASE Catch(r) \/ Crash(r) \/ CatchAll(r)
  <2>1. \/ pc[r] = "raising" /\ pc'[r] \in {"leaving", "crashed"}
        \/ pc[r] = "crashed" /\ pc'[r] = "done"
    BY <1>0, <1>7 DEF Catch, Crash, CatchAll, Goto
  <2> QED BY <2>1
<1>8. CASE Leave(r)
  <2>1. pc[r] = "leaving" /\ pc'[r] \in {"closing", "done"}
    BY <1>0, <1>8 DEF Leave, Goto
  <2> QED BY <2>1
<1>9. CASE Close(r)
  <2>1. pc[r] = "closing" /\ pc'[r] = "done"
    BY <1>0, <1>9 DEF Close, Goto
  <2> QED BY <2>1
<1> QED BY <1>1, <1>2, <1>3, <1>4, <1>5, <1>6, <1>7, <1>8, <1>9 DEF Step

\* No other request's step and nothing Neon does touches a request's rank.
LEMMA OthersLeaveRank ==
  ASSUME TypeOK, NEW r \in Requests,
         \/ \E q \in Requests : q # r /\ (Arrive(q) \/ Step(q))
         \/ NeonSleeps \/ NeonWakes \/ UNCHANGED vars
  PROVE  Rank(r)' = Rank(r)
<1> SUFFICES pc'[r] = pc[r] /\ left'[r] = left[r] /\ (conn'[r] = "none" <=> conn[r] = "none")
  BY DEF Rank
<1>0. /\ pc \in [Requests -> PCs] /\ conn \in [Requests -> Holdings]
      /\ left \in [Requests -> 0..MaxStatements]
  BY DEF TypeOK, PoolTypeOK
<1>1. ASSUME NEW q \in Requests, q # r, Arrive(q) \/ Step(q)
      PROVE  pc'[r] = pc[r] /\ left'[r] = left[r] /\ conn'[r] = conn[r]
  <2>1. conn'[r] = conn[r]
    BY <1>0, <1>1, StepIsPoolStep DEF Take, Opened, OpenFails, Return, poolVars
  <2>2. pc'[r] = pc[r] /\ left'[r] = left[r]
    <3>1. CASE Arrive(q)
      BY <1>0, <1>1, <3>1 DEF Arrive, Raise, Goto
    <3>2. CASE GetEntry(q) \/ Connected(q) \/ ConnectFails(q) \/ WaitTimesOut(q) \/ Unwind(q)
      BY <1>0, <1>1, <3>2 DEF GetEntry, Connected, ConnectFails, WaitTimesOut, Unwind, Raise,
         Goto, reqVars
    <3>3. CASE Validate(q) \/ Execute(q) \/ ExecuteFails(q) \/ Conclude(q)
      BY <1>0, <1>1, <3>3 DEF Validate, Execute, ExecuteFails, Conclude, Raise, Goto
    <3>4. CASE Catch(q) \/ Crash(q) \/ CatchAll(q) \/ Leave(q) \/ Close(q)
      BY <1>0, <1>1, <3>4 DEF Catch, Crash, CatchAll, Leave, Close, Goto
    <3> QED BY <1>1, <3>1, <3>2, <3>3, <3>4 DEF Step
  <2> QED BY <2>1, <2>2
<1>2. CASE NeonSleeps
  BY <1>0, <1>2 DEF NeonSleeps, Sleep
<1>3. CASE NeonWakes \/ UNCHANGED vars
  BY <1>3 DEF NeonWakes, Wake, reqVars, poolVars, vars
<1> QED BY <1>1, <1>2, <1>3

\* A request has at most MaxStatements + 9 steps, each of which counts, whatever the
\* others do (the awaits of get_conn, the handlers and the middleware of create_app).
THEOREM RequestsAreShort == Spec => EachStepCounts
<1>1. ReplyInv /\ HandsInv /\ ReplyInv' /\ [Next]_vars
        => [\A r \in Requests : /\ Rank(r)' <= Rank(r)
                                /\ Arrive(r) \/ Step(r) => Rank(r)' < Rank(r)]_vars
  <2> SUFFICES ASSUME ReplyInv, HandsInv, ReplyInv', [Next]_vars, NEW r \in Requests
               PROVE  /\ Rank(r)' <= Rank(r)
                      /\ Arrive(r) \/ Step(r) => Rank(r)' < Rank(r)
    OBVIOUS
  <2>1. TypeOK /\ TypeOK'
    BY DEF ReplyInv, ServingInv, TypeInv
  <2>2. /\ Rank(r) \in 0..(MaxStatements + 9)
        /\ Rank(r)' \in 0..(MaxStatements + 9)
    BY <2>1, RankTyped, RankTypedNext
  <2>3. CASE Arrive(r) \/ Step(r)
    BY <2>2, <2>3, OwnStepCounts, ServingAssumption
  <2>4. CASE ~(Arrive(r) \/ Step(r))
    <3>1. Rank(r)' = Rank(r)
      BY <2>1, <2>4, OthersLeaveRank DEF Next
    <3> QED BY <2>2, <2>4, <3>1, ServingAssumption
  <2> QED BY <2>3, <2>4
<1> QED BY <1>1, ReplyInvariant, HandsInvariant, PTL DEF Spec, EachStepCounts
=============================================================================
