----------------------------- MODULE MachineProofs -----------------------------
(***************************************************************************)
(* What one machine keeps to, proved for every set of secrets, clients and *)
(* paths and every budget and window of the limiter.                       *)
(***************************************************************************)
EXTENDS Machine, TLAPS

LimiterType ==
  /\ count \in [Keys -> 0..Limit]
  /\ age \in [Keys -> 0..(Window + 1)]
  /\ since \in [Keys -> 0..Window]

\* While a window is open its key has been admitted since it opened: neither a
\* refusal nor a restart leaves a window behind that nothing was admitted in.
AdmittedInWindow == \A k \in Keys : ~Expired(k) => since[k] <= age[k]

LimiterInv == LimiterType /\ AdmittedInWindow

-----------------------------------------------------------------------------
LEMMA LimiterInit == Init => LimiterInv
BY MachineAssumption DEF Init, LimiterInv, LimiterType, AdmittedInWindow, Expired

LEMMA LimiterStep == LimiterInv /\ [Next]_vars => LimiterInv'
<1> SUFFICES ASSUME LimiterInv, [Next]_vars PROVE LimiterInv'
  OBVIOUS
<1> USE MachineAssumption DEF LimiterInv, LimiterType, AdmittedInWindow, Expired
<1>1. CASE Start
  BY <1>1 DEF Start
<1>2. CASE Tick
  BY <1>2 DEF Tick
<1>3. ASSUME NEW k \in Keys, Admit(k) PROVE LimiterInv'
  <2>1. Used(k) \in 0..Limit
    BY DEF Used
  <2>2. count' \in [Keys -> 0..Limit]
    BY <1>3, <2>1 DEF Admit
  <2>3. /\ age' \in [Keys -> 0..(Window + 1)]
        /\ since' \in [Keys -> 0..Window]
    BY <1>3 DEF Admit
  <2>4. AdmittedInWindow'
    BY <1>3, <2>3 DEF Admit
  <2> QED BY <2>2, <2>3, <2>4
<1>4. CASE UNCHANGED <<count, age, since>>
  BY <1>4
<1> QED
  BY <1>1, <1>2, <1>3, <1>4
     DEF Next, OpenPool, Stop, SetSecret, Neon, Refuse, boot, limiter, history, vars

LEMMA RefusedInvariant == LimiterInv => RefusedOnlyWithinWindow
BY MachineAssumption
   DEF LimiterInv, LimiterType, AdmittedInWindow, RefusedOnlyWithinWindow,
       Within, Used, Expired

\* Whoever is refused at a path was admitted there less than a window ago, for every
\* budget, every window and every number of paths, clients and restarts (the Limiter of
\* create_app).
THEOREM Refusals == Spec => []RefusedOnlyWithinWindow
BY LimiterInit, LimiterStep, RefusedInvariant, PTL DEF Spec

-----------------------------------------------------------------------------
BootType ==
  /\ secret \in Secrets /\ dsn \in Secrets
  /\ proc \in {"down", "starting", "serving", "refused"}
  /\ checked \in {"no", "skipped", "passed"}
  /\ db \in {"awake", "asleep"}

\* What is counted of fewer ticks is counted of more.
LogType ==
  /\ log \in [Keys -> [Recent -> Nat]]
  /\ starts \in [Recent -> Nat]
  /\ InWindow(starts) <= MaxStarts
  /\ \A t, u \in Recent : t <= u => starts[t] <= starts[u]

\* The budgets of the processes of the last t ticks and of the one before them.
Budget(t) == Limit * (1 + starts[t])

\* With no window open, each process has let at most one budget through.
SpentClosed ==
  \A k \in Keys : Expired(k) => \A t \in Recent : log[k][t] <= Budget(t)

\* With a window open, what has been admitted in it comes on top ...
SpentOpen ==
  \A k \in Keys : ~Expired(k) => \A t \in Recent : log[k][t] <= count[k] + Budget(t)

\* ... and nothing else has been admitted since the tick after the one it opened in.
SpentInside ==
  \A k \in Keys : ~Expired(k) => \A t \in Recent : t < age[k] => log[k][t] <= count[k]

MachineTyped == BootType /\ LimiterType /\ LogType
BurstInv == MachineTyped /\ SpentClosed /\ SpentOpen /\ SpentInside

LEMMA RecentType == /\ 0 \in Recent /\ Window - 1 \in Recent
                    /\ \A t \in Recent : t \in Nat /\ t < Window /\ (t # 0 => t - 1 \in Recent)
BY MachineAssumption DEF Recent

\* One start more is one budget more.
LEMMA OneBudgetMore == \A n \in Nat : /\ Limit * (1 + n) \in Nat
                                      /\ Limit * (1 + (n + 1)) = Limit * (1 + n) + Limit
BY MachineAssumption

LEMMA MachineTypedInit == Init => MachineTyped
<1> SUFFICES ASSUME Init PROVE MachineTyped
  OBVIOUS
<1>1. BootType
  BY DEF Init, BootType
<1>2. LimiterType
  BY LimiterInit DEF LimiterInv
<1>3. LogType
  BY MachineAssumption, RecentType DEF Init, LogType, InWindow
<1> QED BY <1>1, <1>2, <1>3 DEF MachineTyped

LEMMA BootStep == BootType /\ [Next]_vars => BootType'
<1> SUFFICES ASSUME BootType, [Next]_vars PROVE BootType'
  OBVIOUS
<1> USE DEF BootType
<1>1. CASE Start
  BY <1>1 DEF Start
<1>2. CASE OpenPool
  BY <1>2 DEF OpenPool, Check
<1>3. ASSUME NEW k \in Keys, Admit(k) PROVE BootType'
  BY <1>3 DEF Admit
<1>4. CASE Stop \/ SetSecret \/ Neon
  BY <1>4 DEF Stop, SetSecret, Neon
<1>5. CASE UNCHANGED boot
  BY <1>5 DEF boot
<1> QED
  BY <1>1, <1>2, <1>3, <1>4, <1>5 DEF Next, Tick, Refuse, vars

\* Only a start, an admission and the passing of time touch the two histories.
LEMMA LogStep == LogType /\ [Next]_vars => LogType'
<1> SUFFICES ASSUME LogType, [Next]_vars PROVE LogType'
  OBVIOUS
<1> USE RecentType, MachineAssumption DEF LogType, InWindow
<1>1. CASE Start
  <2>1. starts' = [t \in Recent |-> starts[t] + 1] /\ log' = log
    BY <1>1 DEF Start, Counted
  <2>2. starts[Window - 1] < MaxStarts
    BY <1>1 DEF Start
  <2> QED BY <2>1, <2>2
<1>2. CASE Tick
  <2>1. /\ starts' = [t \in Recent |-> IF t = 0 THEN 0 ELSE starts[t - 1]]
        /\ log' = [k \in Keys |-> [t \in Recent |-> IF t = 0 THEN 0 ELSE log[k][t - 1]]]
    BY <1>2 DEF Tick, Older
  <2>2. starts' \in [Recent -> Nat] /\ log' \in [Keys -> [Recent -> Nat]]
    BY <2>1
  <2>3. ASSUME NEW t \in Recent, NEW u \in Recent, t <= u
        PROVE  starts'[t] <= starts'[u]
    <3>1. CASE t = 0
      BY <2>1, <2>2, <3>1
    <3>2. CASE t # 0
      <4>1. t - 1 \in Recent /\ u - 1 \in Recent /\ t - 1 <= u - 1 /\ u # 0
        BY <2>3, <3>2
      <4> QED BY <2>1, <3>2, <4>1
    <3> QED BY <3>1, <3>2
  <2>4. starts'[Window - 1] <= starts[Window - 1]
    <3>1. CASE Window = 1
      BY <2>1, <3>1
    <3>2. CASE Window # 1
      BY <2>1, <3>2
    <3> QED BY <3>1, <3>2
  <2>5. starts'[Window - 1] <= MaxStarts
    BY <2>2, <2>4
  <2> QED BY <2>2, <2>3, <2>5
<1>3. ASSUME NEW k \in Keys, Admit(k) PROVE LogType'
  BY <1>3 DEF Admit, Counted
<1>4. CASE UNCHANGED <<log, starts>>
  BY <1>4
<1> QED
  BY <1>1, <1>2, <1>3, <1>4
     DEF Next, OpenPool, Stop, SetSecret, Neon, Refuse, history, vars

LEMMA MachineTypedStep == MachineTyped /\ LimiterInv /\ [Next]_vars => MachineTyped'
BY BootStep, LimiterStep, LogStep DEF MachineTyped, LimiterInv

LEMMA TypeOKOfMachine == MachineTyped => TypeOK
<1> SUFFICES ASSUME MachineTyped PROVE starts \in [Recent -> 0..MaxStarts]
  BY DEF MachineTyped, BootType, LimiterType, LogType, TypeOK
<1> QED
  BY RecentType, MachineAssumption DEF MachineTyped, LogType, InWindow

\* The machine's variables have their types, the windows of the limiter and the
\* histories of the last window included (create_app, open_pool, the limiter).
THEOREM MachineTypes == Spec => []TypeOK
<1>1. Init => MachineTyped /\ LimiterInv
  BY MachineTypedInit, LimiterInit
<1>2. MachineTyped /\ LimiterInv /\ [Next]_vars => (MachineTyped /\ LimiterInv)'
  BY MachineTypedStep, LimiterStep
<1> QED BY <1>1, <1>2, TypeOKOfMachine, PTL DEF Spec

-----------------------------------------------------------------------------
LEMMA BurstInit == Init => BurstInv
<1> SUFFICES ASSUME Init PROVE BurstInv
  OBVIOUS
<1>1. \A k \in Keys : Expired(k) /\ log[k] = [t \in Recent |-> 0]
  BY MachineAssumption DEF Init, Expired
<1>2. \A t \in Recent : Budget(t) \in Nat
  BY OneBudgetMore DEF Init, Budget
<1>3. SpentClosed /\ SpentOpen /\ SpentInside
  BY <1>1, <1>2 DEF SpentClosed, SpentOpen, SpentInside
<1> QED BY <1>3, MachineTypedInit DEF BurstInv

\* Every client's budget is whole again after a start, and that is one budget more.
LEMMA BurstStart == BurstInv /\ MachineTyped' /\ Start => BurstInv'
<1> SUFFICES ASSUME BurstInv, MachineTyped', Start PROVE BurstInv'
  OBVIOUS
<1>1. \A k \in Keys : Expired(k)'
  BY MachineAssumption DEF Start, Expired
<1>2. ASSUME NEW k \in Keys, NEW t \in Recent PROVE log'[k][t] <= Budget(t)'
  <2>1. /\ log[k][t] \in Nat /\ starts[t] \in Nat /\ count[k] \in 0..Limit
    BY DEF BurstInv, MachineTyped, LogType, LimiterType
  <2>2. log'[k][t] = log[k][t] /\ Budget(t)' = Budget(t) + Limit /\ Budget(t) \in Nat
    BY <2>1, OneBudgetMore DEF Start, Counted, Budget
  <2>3. log[k][t] <= Budget(t) \/ log[k][t] <= count[k] + Budget(t)
    BY DEF BurstInv, SpentClosed, SpentOpen
  <2> QED BY <2>1, <2>2, <2>3, MachineAssumption
<1>3. SpentClosed' /\ SpentOpen' /\ SpentInside'
  BY <1>1, <1>2 DEF SpentClosed, SpentOpen, SpentInside
<1> QED BY <1>3 DEF BurstInv

\* An admission is counted in its window and in the history alike.
LEMMA BurstAdmit ==
  ASSUME NEW k \in Keys, BurstInv, MachineTyped', Admit(k)
  PROVE  BurstInv'
<1>1. /\ \A d \in Keys : /\ log[d] \in [Recent -> Nat] /\ log'[d] \in [Recent -> Nat]
                            /\ count[d] \in 0..Limit /\ count'[d] \in 0..Limit
                            /\ age[d] \in Nat /\ age'[d] \in Nat
      /\ \A t \in Recent : starts[t] \in Nat
  BY MachineAssumption DEF BurstInv, MachineTyped, LogType, LimiterType
<1>2. /\ \A t \in Recent : log'[k][t] = log[k][t] + 1
      /\ count'[k] = Used(k) + 1
      /\ age'[k] = IF Expired(k) THEN 0 ELSE age[k]
      /\ \A d \in Keys \ {k} : log'[d] = log[d] /\ count'[d] = count[d] /\ age'[d] = age[d]
  BY <1>1 DEF Admit, Counted, Within, BurstInv, MachineTyped, LogType, LimiterType
<1>3. \A t \in Recent : Budget(t)' = Budget(t) /\ Budget(t) \in Nat
  BY <1>1, OneBudgetMore DEF Admit, Budget
<1>4. ~Expired(k)'
  BY <1>1, <1>2, MachineAssumption DEF Expired
<1>5. \A d \in Keys \ {k} : Expired(d)' = Expired(d)
  BY <1>2 DEF Expired
<1>6. SpentClosed'
  BY <1>2, <1>3, <1>4, <1>5 DEF BurstInv, SpentClosed
<1>7. SpentOpen'
  <2>1. ASSUME NEW t \in Recent PROVE log'[k][t] <= count'[k] + Budget(t)'
    <3>1. log[k][t] <= Used(k) + Budget(t)
      BY <1>1, <1>3 DEF BurstInv, SpentClosed, SpentOpen, Used
    <3> QED BY <1>1, <1>2, <1>3, <3>1 DEF Used
  <2> QED BY <1>2, <1>3, <1>5, <2>1 DEF BurstInv, SpentOpen
<1>8. SpentInside'
  <2>1. ASSUME NEW t \in Recent, t < age'[k] PROVE log'[k][t] <= count'[k]
    <3>1. ~Expired(k) /\ t < age[k]
      BY <1>2, <2>1, RecentType
    <3>2. log[k][t] <= count[k] /\ Used(k) = count[k]
      BY <3>1 DEF BurstInv, SpentInside, Used
    <3> QED BY <1>1, <1>2, <3>2
  <2> QED BY <1>2, <1>5, <2>1 DEF BurstInv, SpentInside
<1> QED BY <1>6, <1>7, <1>8 DEF BurstInv

\* As time passes, the oldest tick is dropped; what a window that closes leaves of its
\* admissions is within its budget.
LEMMA BurstTick == BurstInv /\ MachineTyped' /\ Tick => BurstInv'
<1> SUFFICES ASSUME BurstInv, MachineTyped', Tick PROVE BurstInv'
  OBVIOUS
<1>1. /\ \A k \in Keys : /\ log[k] \in [Recent -> Nat]
                            /\ count[k] \in 0..Limit /\ count'[k] = count[k]
                            /\ age[k] \in 0..(Window + 1)
                            /\ age'[k] = IF age[k] <= Window THEN age[k] + 1 ELSE age[k]
      /\ starts \in [Recent -> Nat]
  BY DEF Tick, BurstInv, MachineTyped, LogType, LimiterType
<1>2. /\ \A t \in Recent : starts'[t] = IF t = 0 THEN 0 ELSE starts[t - 1]
      /\ \A k \in Keys : \A t \in Recent :
           log'[k][t] = IF t = 0 THEN 0 ELSE log[k][t - 1]
  BY DEF Tick, Older
<1>3. \A t \in Recent : /\ Budget(t) \in Nat /\ Budget(t)' \in Nat
                        /\ t # 0 => Budget(t)' = Budget(t - 1)
  BY <1>1, <1>2, OneBudgetMore, RecentType DEF Budget
<1>4. ASSUME NEW k \in Keys PROVE Expired(k) => Expired(k)'
  BY <1>1, MachineAssumption DEF Expired
<1>5. ASSUME NEW k \in Keys, Expired(k)', NEW t \in Recent PROVE log'[k][t] <= Budget(t)'
  <2>1. CASE t = 0
    BY <1>2, <1>3, <2>1
  <2>2. CASE t # 0 /\ Expired(k)
    BY <1>2, <1>3, <2>2, RecentType DEF BurstInv, SpentClosed
  <2>3. CASE t # 0 /\ ~Expired(k)
    <3>1. t - 1 \in Recent /\ t - 1 < age[k]
      BY <1>1, <1>5, <2>3, RecentType, MachineAssumption DEF Expired
    <3>2. log[k][t - 1] <= count[k]
      BY <2>3, <3>1 DEF BurstInv, SpentInside
    <3>3. starts[t - 1] \in Nat /\ Limit <= Limit * (1 + starts[t - 1])
      <4>1. \A n \in Nat : Limit <= Limit * (1 + n)
        BY MachineAssumption
      <4> QED BY <1>1, <3>1, <4>1
    <3>4. Budget(t)' = Limit * (1 + starts[t - 1]) /\ log'[k][t] = log[k][t - 1]
      BY <1>2, <1>3, <2>3 DEF Budget
    <3>5. log[k][t - 1] \in Nat /\ count[k] \in Nat /\ count[k] <= Limit
      BY <1>1, <3>1
    <3>6. Limit \in Nat /\ Budget(t)' \in Nat
      BY <1>3, MachineAssumption
    <3> QED BY <3>2, <3>3, <3>4, <3>5, <3>6
  <2> QED BY <2>1, <2>2, <2>3
<1>6. ASSUME NEW k \in Keys, ~Expired(k)', NEW t \in Recent
      PROVE  /\ log'[k][t] <= count'[k] + Budget(t)'
             /\ t < age'[k] => log'[k][t] <= count'[k]
  <2>1. ~Expired(k) /\ age'[k] = age[k] + 1
    BY <1>1, <1>4, <1>6, MachineAssumption DEF Expired
  <2>2. CASE t = 0
    BY <1>1, <1>2, <1>3, <2>2
  <2>3. CASE t # 0
    <3>1. t - 1 \in Recent /\ (t < age'[k] => t - 1 < age[k])
      BY <1>1, <2>1, <2>3, RecentType
    <3>2. /\ log[k][t - 1] <= count[k] + Budget(t - 1)
          /\ t - 1 < age[k] => log[k][t - 1] <= count[k]
      BY <2>1, <3>1 DEF BurstInv, SpentOpen, SpentInside
    <3> QED BY <1>1, <1>2, <1>3, <2>3, <3>1, <3>2
  <2> QED BY <2>2, <2>3
<1> QED BY <1>5, <1>6 DEF BurstInv, SpentClosed, SpentOpen, SpentInside

LEMMA BurstStep == BurstInv /\ LimiterInv /\ [Next]_vars => BurstInv'
<1> SUFFICES ASSUME BurstInv, LimiterInv, [Next]_vars PROVE BurstInv'
  OBVIOUS
<1>1. MachineTyped'
  BY MachineTypedStep DEF BurstInv
<1>2. CASE Start
  BY <1>1, <1>2, BurstStart
<1>3. CASE Tick
  BY <1>1, <1>3, BurstTick
<1>4. ASSUME NEW k \in Keys, Admit(k) PROVE BurstInv'
  BY <1>1, <1>4, BurstAdmit
<1>5. CASE UNCHANGED <<count, age, log, starts>>
  BY <1>1, <1>5 DEF BurstInv, SpentClosed, SpentOpen, SpentInside, Budget, Expired
<1> QED
  BY <1>2, <1>3, <1>4, <1>5
     DEF Next, OpenPool, Stop, SetSecret, Neon, Refuse, limiter, history, vars

LEMMA BurstsWithinBudgets == BurstInv => BurstBound
<1> SUFFICES ASSUME BurstInv, NEW k \in Keys
             PROVE  InWindow(log[k]) <= Limit * (2 + InWindow(starts))
  BY DEF BurstBound
<1> DEFINE T == Window - 1
<1>1. T \in Recent /\ log[k][T] \in Nat /\ starts[T] \in Nat /\ count[k] \in 0..Limit
  BY RecentType DEF BurstInv, MachineTyped, LogType, LimiterType
<1>2. log[k][T] <= Budget(T) \/ log[k][T] <= count[k] + Budget(T)
  BY <1>1 DEF BurstInv, SpentClosed, SpentOpen
<1>3. Budget(T) \in Nat /\ Limit * (2 + starts[T]) = Budget(T) + Limit
  BY <1>1, OneBudgetMore DEF Budget
<1> QED BY <1>1, <1>2, <1>3, MachineAssumption DEF InWindow

\* In no stretch of one window does the limiter let more requests of one address for one
\* path through than two budgets and one for every start in it, for every budget, every
\* window and every number of starts (the Limiter of create_app, whose counters a start
\* empties).
THEOREM BurstsAreBounded == Spec => []BurstBound
<1>1. Init => BurstInv /\ LimiterInv
  BY BurstInit, LimiterInit
<1>2. BurstInv /\ LimiterInv /\ [Next]_vars => (BurstInv /\ LimiterInv)'
  BY BurstStep, LimiterStep
<1> QED BY <1>1, <1>2, BurstsWithinBudgets, PTL DEF Spec


-----------------------------------------------------------------------------
\* Every session is read-only, whatever its role (make_engine).
LEMMA SessionReadOnly == \A d : ReadOnly(d)
BY DEF ReadOnly, ServerSettings

\* A URL of the console is built, reaches an awake Neon and passes the check
\* (normalize_dsn, open_pool).
THEOREM ConsoleUrls == Spec => ConsoleUrlIsChecked
<1>1. ASSUME OpenPool, FromConsole(dsn), db = "awake"
      PROVE  proc' = "serving" /\ checked' = "passed"
  <2>1. Normalize(dsn) = [driver |-> "asyncpg", query |-> {}, tls |-> TRUE]
    BY <1>1 DEF FromConsole, Normalize
  <2>2. Builds(dsn) /\ Reaches(dsn)
    BY <1>1, <2>1 DEF FromConsole, Builds, Reaches
  <2>3. Check = "passed"
    BY <2>2, SessionReadOnly DEF Check
  <2> QED BY <1>1, <2>3 DEF OpenPool
<1> QED BY <1>1, PTL DEF ConsoleUrlIsChecked

\* A start with a URL of the console is cut short by nothing but a stop: neither the
\* settings nor the check at boot refuse it, Neon awake or asleep.
ConsoleUrlsBoot ==
  [][/\ Start /\ FromConsole(secret) => proc' = "starting" /\ FromConsole(dsn')
     /\ OpenPool /\ FromConsole(dsn) => proc' = "serving"]_vars

\* This is what ServesThroughSleep rests on besides fairness, for every such URL, the
\* writable ones included (get_settings, open_pool).
THEOREM SleepCutsNoBootShort == Spec => ConsoleUrlsBoot
<1>1. Start /\ FromConsole(secret) => proc' = "starting" /\ FromConsole(dsn')
  BY DEF Start, FromConsole
<1>2. ASSUME OpenPool, FromConsole(dsn) PROVE proc' = "serving"
  <2>1. Builds(dsn)
    BY <1>2 DEF FromConsole, Builds, Normalize
  <2>2. Check \in {"skipped", "passed"}
    BY <2>1, SessionReadOnly DEF Check
  <2> QED BY <1>2, <2>2 DEF OpenPool
<1> QED BY <1>1, <1>2, PTL DEF ConsoleUrlsBoot
=============================================================================
