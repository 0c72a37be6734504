------------------------------ MODULE TimerProofs ------------------------------
(***************************************************************************)
(* Theorems about the timer heap, for every number of timers, users and    *)
(* waiters.                                                                *)
(***************************************************************************)
EXTENDS Timer, FunctionTheorems, WellFoundedInduction, TLAPS

-----------------------------------------------------------------------------
(***************************************************************************)
(* The inductive invariant.                                                *)
(***************************************************************************)

TypeInv ==
    /\ clock \in 0..MaxTick /\ setBacks \in 0..SetBacks
    /\ made \subseteq Timers /\ m_timers \subseteq made /\ m_cb \subseteq made
    /\ m_next \in [Timers -> Nat] /\ m_ms \in [Timers -> Durations \cup {0}]
    /\ m_tickled \in BOOLEAN /\ m_previouseTime \in Nat
    /\ writer \in Waiters \cup {NoThread}
    /\ pc \in [Users \cup Waiters -> UserPC \cup WaiterPC]
    /\ job \in [Users -> Job \cup {NoJob}]
    /\ limit \in [Waiters -> Nat] /\ listNow \in [Waiters -> Nat]
    /\ rollover \in [Waiters -> BOOLEAN] /\ drains \subseteq Waiters
    /\ wakeup \in BOOLEAN
    /\ fired \in [Timers -> Int] /\ cancelled \subseteq Timers
    /\ tied \subseteq Timers /\ disordered \in BOOLEAN

(* A deadline is a timeout after some reading of the clock.                *)
DeadlineInv == \A t \in Timers : m_next[t] >= m_ms[t]

(* A call has the timer it was given for as long as it needs it.           *)
JobInv ==
    \A u \in Users :
        /\ pc[u] \in UserPC
        /\ pc[u] \in {"write", "insert"} => job[u] \in Job /\ job[u].timer \in made
        /\ pc[u] = "notify" => job[u] = NoJob \/ job[u].timer \in made
        /\ pc[u] = "idle" => job[u] = NoJob

(* A callback that is not null was neither collected nor cancelled.        *)
CallbackInv ==
    \A t \in Timers :
        /\ fired[t] \in {0, 1}
        /\ t \in m_cb => fired[t] = 0 /\ t \notin cancelled
        /\ t \in cancelled => fired[t] = 0 /\ t \in made
        /\ t \notin made => fired[t] = 0

(* Timers that meet are remembered.                                        *)
TieInv == Meeting \subseteq tied

(* While the clock runs forward no deadline is further away than its       *)
(* timeout, so a deadline that is computed anew is not earlier.            *)
ClockInv ==
    /\ \A t \in made : m_next[t] <= clock + m_ms[t]
    /\ \A w \in Waiters : listNow[w] <= clock

(* m_tickled is set while a wake-up is on its way or somebody is awake.    *)
TickleInv ==
    m_tickled => \/ wakeup
                 \/ \E u \in Users : pc[u] = "notify"
                 \/ \E w \in Waiters : pc[w] # "asleep"

(* FrontIsCovered without Front.                                           *)
CoverInv ==
    m_timers # {} /\ ~disordered =>
        \/ wakeup
        \/ \E u \in Users : pc[u] = "notify"
        \/ \E w \in Waiters : pc[w] # "asleep" \/ \A x \in m_timers : limit[w] <= m_next[x]

IInv == TypeInv /\ DeadlineInv /\ JobInv /\ CallbackInv /\ TieInv

-----------------------------------------------------------------------------
(***************************************************************************)
(* The operators of the model.                                             *)
(***************************************************************************)

LEMMA DurationNat == \A ms \in Durations \cup {0} : ms \in Nat
BY TimerAssumption

LEMMA TimesNat ==
    ASSUME TypeInv
    PROVE  clock \in Nat /\ \A t \in Timers : m_next[t] \in Nat /\ m_ms[t] \in Nat
<1>1. clock \in Nat
  BY TimerAssumption DEF TypeInv
<1>2. ASSUME NEW t \in Timers PROVE m_next[t] \in Nat /\ m_ms[t] \in Nat
  <2>1. m_ms[t] \in Durations \cup {0} /\ m_next[t] \in Nat
    BY DEF TypeInv
  <2> QED BY <2>1, DurationNat
<1> QED BY <1>1, <1>2

LEMMA ForeverNat == Forever \in Nat
BY TimerAssumption, PoolAssumption DEF Forever

(* begin() of a set that is not empty has the least deadline.              *)
LEMMA FrontIsLeast ==
    ASSUME TypeInv, m_timers # {}
    PROVE  Front \in m_timers /\ \A x \in m_timers : m_next[Front] <= m_next[x]
<1> DEFINE D == {m_next[x] : x \in m_timers}
<1>1. D \in SUBSET Nat /\ D # {}
  BY DEF TypeInv
<1>2. PICK d \in D : \A e \in D : ~(<<e, d>> \in OpToRel(<, Nat))
  BY <1>1, NatLessThanWellFounded, WFMin
<1>3. \A e \in D : d <= e
  <2> TAKE e \in D
  <2>1. d \in Nat /\ e \in Nat /\ ~(e < d)
    BY <1>1, <1>2 DEF OpToRel
  <2> QED BY <2>1
<1>4. PICK t \in m_timers : d = m_next[t]
  OBVIOUS
<1>5. \A x \in m_timers : m_next[t] <= m_next[x]
  BY <1>3, <1>4
<1> QED BY <1>5 DEF Front

LEMMA NewTimer ==
    ASSUME TypeInv, NEW t \in New
    PROVE  t \in Timers /\ t \notin made
<1>1. PICK kind \in {Recurring \ made, (Timers \ Recurring) \ made} \ {{}} : t = CHOOSE x \in kind : TRUE
  BY DEF New
<1>2. t \in kind
  BY <1>1
<1> QED BY <1>1, <1>2, TimerAssumption

LEMMA NamedTimer ==
    ASSUME TypeInv, NEW t \in Named
    PROVE  t \in Timers /\ t \in made /\ t \in m_cb
BY DEF TypeInv, Named

LEMMA NoJobIsNoJob == NoJob \notin Job /\ \A j \in Job : j.timer \in Timers /\ j.timer # NoTimer /\ j.ms \in Durations
BY TimerAssumption DEF NoJob, Job

LEMMA InsertedProperties ==
    ASSUME NEW h, NEW t, NEW d
    PROVE  Inserted(h, t, d) \subseteq h \cup {t} /\ h \subseteq Inserted(h, t, d)
BY DEF Inserted

-----------------------------------------------------------------------------
(***************************************************************************)
(* Types, calls and callbacks, which need nothing of the deadlines.        *)
(***************************************************************************)

LEMMA TypeStep == IInv /\ [Next]_vars => TypeInv' /\ DeadlineInv'
<1> SUFFICES ASSUME IInv, [Next]_vars PROVE TypeInv' /\ DeadlineInv'
  OBVIOUS
<1> USE TimerAssumption DEF IInv, TypeInv, DeadlineInv, clockVars, heapVars, localVars, histVars,
        Goto, UserPC, WaiterPC
<1> DEFINE TimersTyped == made' \subseteq Timers /\ m_timers' \subseteq made' /\ m_cb' \subseteq made'
<1>1. \A ms \in Durations \cup {0} : ms \in Nat
  BY DurationNat
<1>2. clock \in Nat
  OBVIOUS
<1>3. ASSUME Remember, TimersTyped PROVE tied' \subseteq Timers
  <2>1. Meeting' \subseteq Timers
    BY <1>3 DEF Meeting, Live
  <2> QED BY <1>3, <2>1 DEF Remember
<1>4. CASE Clock
  BY <1>4 DEF Clock, Advance, SetBack
<1>5. CASE Undefined
  <2>1. TimersTyped
    BY <1>5 DEF Undefined
  <2>2. tied' \subseteq Timers
    BY <1>3, <1>5, <2>1 DEF Undefined
  <2> QED BY <1>5, <2>1, <2>2 DEF Undefined
<1>6. ASSUME NEW u \in Users, User(u) PROVE TypeInv' /\ DeadlineInv'
  <2> USE NoJobIsNoJob, InsertedProperties DEF JobInv
  <2>1. CASE addTimer(u)
    <3> PICK t \in New, ms \in Durations :
          /\ made' = made \cup {t}
          /\ m_next' = [m_next EXCEPT ![t] = clock + ms]
          /\ m_ms' = [m_ms EXCEPT ![t] = ms]
          /\ m_cb' = m_cb \cup {t}
          /\ job' = [job EXCEPT ![u] = [timer |-> t, ms |-> ms, call |-> "add"]]
      BY <2>1 DEF addTimer
    <3>1. t \in Timers
      BY NewTimer
    <3>2. job' \in [Users -> Job \cup {NoJob}]
      BY <3>1 DEF Job
    <3>3. m_next' \in [Timers -> Nat] /\ m_ms' \in [Timers -> Durations \cup {0}]
      <4>1. clock + ms \in Nat
        BY <1>1, <1>2
      <4> QED BY <3>1, <4>1
    <3>4. DeadlineInv'
      <4>1. m_next'[t] = clock + ms
        BY <3>1
      <4>2. m_ms'[t] = ms
        BY <3>1
      <4>3. ms \in Nat
        BY <1>1
      <4>4. \A x \in Timers \ {t} : m_next'[x] = m_next[x] /\ m_ms'[x] = m_ms[x]
        BY <3>1
      <4>5. m_next'[t] >= m_ms'[t]
        BY <1>2, <4>1, <4>2, <4>3
      <4> QED BY <4>4, <4>5
    <3>5. TimersTyped
      BY <2>1, <3>1 DEF addTimer
    <3>6. tied' \subseteq Timers
      BY <1>3, <2>1, <3>5 DEF addTimer
    <3> QED BY <2>1, <3>2, <3>3, <3>4, <3>5, <3>6 DEF addTimer
  <2>2. CASE Insert(u)
    <3>1. TimersTyped
      BY <2>2 DEF Insert
    <3>2. tied' \subseteq Timers
      BY <1>3, <2>2, <3>1 DEF Insert
    <3> QED BY <2>2, <3>1, <3>2 DEF Insert
  <2>3. CASE onTimerInsertedAtFront(u)
    <3>1. wakeup' \in BOOLEAN
      BY <2>3 DEF onTimerInsertedAtFront
    <3> QED BY <2>3, <3>1 DEF onTimerInsertedAtFront
  <2>4. CASE cancel(u)
    BY <2>4, NamedTimer DEF cancel
  <2>5. CASE refresh(u)
    <3> PICK t \in Named :
          /\ m_next' = [m_next EXCEPT ![t] = clock + m_ms[t]]
          /\ m_timers' = Inserted(m_timers \ Same(t), t, m_next'[t])
      BY <2>5 DEF refresh
    <3>1. t \in Timers /\ t \in made
      BY NamedTimer
    <3>2. m_ms[t] \in Nat
      BY <1>1, <3>1
    <3>3. m_next' \in [Timers -> Nat]
      BY <1>2, <3>1, <3>2
    <3>4. m_next'[t] >= m_ms[t] /\ \A x \in Timers \ {t} : m_next'[x] = m_next[x]
      BY <1>2, <3>1, <3>2
    <3>5. UNCHANGED <<clockVars, made, m_ms, m_cb, m_tickled, m_previouseTime, writer, pc, job,
                      localVars, wakeup, fired, cancelled, disordered>>
      BY <2>5 DEF refresh
    <3>6. DeadlineInv'
      BY <3>4, <3>5
    <3>7. TimersTyped
      BY <3>1, <3>5
    <3>8. tied' \subseteq Timers
      BY <1>3, <2>5, <3>7 DEF refresh
    <3> QED BY <3>3, <3>5, <3>6, <3>7, <3>8
  <2>6. CASE reset(u)
    <3> PICK t \in Named, ms \in Durations, call \in {"reset", "resetFromNow"} :
          job' = [job EXCEPT ![u] = [timer |-> t, ms |-> ms, call |-> call]]
      BY <2>6 DEF reset
    <3>1. job' \in [Users -> Job \cup {NoJob}]
      BY NamedTimer DEF Job
    <3> QED BY <2>6, <3>1 DEF reset
  <2>7. CASE ResetWrite(u)
    <3> DEFINE t == job[u].timer
               start == IF job[u].call = "resetFromNow" THEN clock ELSE m_next[t] - m_ms[t]
    <3>1. t \in Timers /\ job[u].ms \in Durations
      BY <2>7 DEF ResetWrite
    <3>2. start \in Nat
      <4>1. m_ms[t] \in Nat /\ m_next[t] >= m_ms[t] /\ m_next[t] \in Nat
        BY <1>1, <3>1
      <4> QED BY <1>2, <4>1
    <3>3. /\ m_next' = [m_next EXCEPT ![t] = start + job[u].ms]
          /\ m_ms' = [m_ms EXCEPT ![t] = job[u].ms]
      BY <2>7 DEF ResetWrite
    <3> HIDE DEF start
    <3>4. job[u].ms \in Nat
      BY <1>1, <3>1
    <3>5. m_next' \in [Timers -> Nat] /\ m_ms' \in [Timers -> Durations \cup {0}]
      BY <3>1, <3>2, <3>3, <3>4
    <3>6. m_next'[t] >= job[u].ms
      BY <3>1, <3>2, <3>3, <3>4
    <3>7. m_ms'[t] = job[u].ms /\ \A x \in Timers \ {t} : m_next'[x] = m_next[x] /\ m_ms'[x] = m_ms[x]
      BY <3>1, <3>3
    <3>8. DeadlineInv'
      BY <3>6, <3>7
    <3>9. TimersTyped /\ disordered' \in BOOLEAN
      BY <2>7 DEF ResetWrite
    <3>10. tied' \subseteq Timers
      BY <1>3, <2>7, <3>9 DEF ResetWrite
    <3> QED BY <2>7, <3>5, <3>8, <3>9, <3>10 DEF ResetWrite
  <2> QED BY <1>6, <2>1, <2>2, <2>3, <2>4, <2>5, <2>6, <2>7 DEF User, UserStep
<1>7. ASSUME NEW w \in Waiters, WaiterStep(w) \/ Wake(w) \/ StoppingAsks(w) PROVE TypeInv' /\ DeadlineInv'
  <2>1. CASE StoppingAsks(w)
    BY <2>1 DEF StoppingAsks
  <2>2. CASE getNextTimer(w)
    <3>1. limit' \in [Waiters -> Nat]
      BY <2>2, ForeverNat, FrontIsLeast DEF getNextTimer
    <3> QED BY <2>2, <3>1 DEF getNextTimer
  <2>3. CASE Wake(w)
    BY <1>2, <2>3 DEF Wake
  <2>4. CASE ListLock(w)
    BY <1>2, <2>4 DEF ListLock
  <2>5. CASE Collect(w)
    <3>1. Front \in m_timers /\ Front \in Timers
      BY <2>5, FrontIsLeast DEF Collect, Expired
    <3>2. fired' \in [Timers -> Int]
      BY <2>5, <3>1 DEF Collect
    <3>3. CASE Front \in Recurring
      <4>1. TimersTyped
        BY <2>5, <3>1, <3>3, InsertedProperties DEF Collect
      <4>2. m_next' \in [Timers -> Nat] /\ DeadlineInv'
        <5>1. m_ms[Front] \in Nat
          BY <1>1, <3>1
        <5>2. m_next' = [m_next EXCEPT ![Front] = listNow[w] + m_ms[Front]] /\ m_ms' = m_ms
          BY <2>5, <3>3 DEF Collect
        <5>3. m_next' \in [Timers -> Nat]
          BY <3>1, <5>1, <5>2
        <5>4. m_next'[Front] >= m_ms[Front] /\ \A x \in Timers \ {Front} : m_next'[x] = m_next[x]
          BY <3>1, <5>1, <5>2
        <5> QED BY <5>2, <5>3, <5>4
      <4>3. tied' \subseteq Timers
        BY <1>3, <2>5, <4>1 DEF Collect
      <4> QED BY <2>5, <3>2, <3>3, <4>1, <4>2, <4>3 DEF Collect
    <3>4. CASE Front \notin Recurring
      <4>1. TimersTyped
        BY <2>5, <3>4 DEF Collect
      <4>2. tied' \subseteq Timers
        BY <1>3, <2>5, <4>1 DEF Collect
      <4> QED BY <2>5, <3>2, <3>4, <4>1, <4>2 DEF Collect
    <3> QED BY <3>3, <3>4
  <2>6. CASE ListDone(w)
    BY <2>6 DEF ListDone
  <2>7. CASE Drain(w)
    BY <2>7 DEF Drain
  <2> QED BY <1>7, <2>1, <2>2, <2>3, <2>4, <2>5, <2>6, <2>7 DEF WaiterStep
<1>8. CASE UNCHANGED vars
  BY <1>8 DEF vars
<1> QED BY <1>4, <1>5, <1>6, <1>7, <1>8 DEF Next

(* What a step of a waiter, or of the clock, leaves alone.                 *)
LEMMA WaiterFrame ==
    ASSUME TypeInv, NEW w \in Waiters, WaiterStep(w) \/ Wake(w) \/ StoppingAsks(w)
    PROVE  /\ \A p \in (Users \cup Waiters) \ {w} : pc'[p] = pc[p]
           /\ UNCHANGED <<job, made, m_ms, clockVars, cancelled, disordered>>
           /\ ~Collect(w) => UNCHANGED <<heapVars, fired, tied>>
<1> USE DEF TypeInv, clockVars, heapVars, localVars, histVars, Goto
<1>1. CASE StoppingAsks(w) \/ getNextTimer(w) \/ Wake(w)
  BY <1>1 DEF StoppingAsks, getNextTimer, Wake
<1>2. CASE ListLock(w) \/ ListDone(w) \/ Drain(w)
  BY <1>2 DEF ListLock, ListDone, Drain
<1>3. CASE Collect(w)
  BY <1>3 DEF Collect
<1> QED BY <1>1, <1>2, <1>3 DEF WaiterStep

LEMMA JobStep == IInv /\ [Next]_vars => JobInv'
<1> SUFFICES ASSUME IInv, [Next]_vars PROVE JobInv'
  OBVIOUS
<1> USE TimerAssumption, NoJobIsNoJob
    DEF IInv, TypeInv, JobInv, clockVars, heapVars, localVars, histVars, Goto, UserPC
<1>1. CASE Clock \/ Undefined
  BY <1>1 DEF Clock, Undefined
<1>2. ASSUME NEW u \in Users, User(u) PROVE JobInv'
  <2>1. CASE addTimer(u)
    <3> PICK t \in New, ms \in Durations :
          /\ made' = made \cup {t}
          /\ job' = [job EXCEPT ![u] = [timer |-> t, ms |-> ms, call |-> "add"]]
      BY <2>1 DEF addTimer
    <3>1. t \in Timers
      BY NewTimer
    <3>2. [timer |-> t, ms |-> ms, call |-> "add"] \in Job
      BY <3>1 DEF Job
    <3> QED BY <2>1, <3>2 DEF addTimer
  <2>2. CASE Insert(u)
    BY <2>2 DEF Insert
  <2>3. CASE onTimerInsertedAtFront(u)
    BY <2>3 DEF onTimerInsertedAtFront
  <2>4. CASE cancel(u) \/ refresh(u)
    BY <2>4 DEF cancel, refresh
  <2>5. CASE reset(u)
    <3> PICK t \in Named, ms \in Durations, call \in {"reset", "resetFromNow"} :
          job' = [job EXCEPT ![u] = [timer |-> t, ms |-> ms, call |-> call]]
      BY <2>5 DEF reset
    <3>1. t \in Timers /\ t \in made
      BY NamedTimer
    <3>2. [timer |-> t, ms |-> ms, call |-> call] \in Job
      BY <3>1 DEF Job
    <3> QED BY <2>5, <3>1, <3>2 DEF reset
  <2>6. CASE ResetWrite(u)
    BY <2>6 DEF ResetWrite
  <2> QED BY <1>2, <2>1, <2>2, <2>3, <2>4, <2>5, <2>6 DEF User, UserStep
<1>3. ASSUME NEW w \in Waiters, WaiterStep(w) \/ Wake(w) \/ StoppingAsks(w) PROVE JobInv'
  <2>1. \A u \in Users : u # w /\ u \in Users \cup Waiters
    OBVIOUS
  <2> QED BY <1>3, <2>1, WaiterFrame
<1>4. CASE UNCHANGED vars
  BY <1>4 DEF vars
<1> QED BY <1>1, <1>2, <1>3, <1>4 DEF Next

LEMMA CallbackStep == IInv /\ [Next]_vars => CallbackInv'
<1> SUFFICES ASSUME IInv, [Next]_vars PROVE CallbackInv'
  OBVIOUS
<1> USE DEF IInv, TypeInv, CallbackInv, clockVars, heapVars, localVars, histVars
<1>1. CASE Clock \/ Undefined
  BY <1>1 DEF Clock, Undefined
<1>2. ASSUME NEW u \in Users, User(u) PROVE CallbackInv'
  <2>1. CASE addTimer(u)
    <3> PICK t \in New : made' = made \cup {t} /\ m_cb' = m_cb \cup {t}
      BY <2>1 DEF addTimer
    <3>1. t \in Timers /\ t \notin made
      BY NewTimer
    <3> QED BY <2>1, <3>1 DEF addTimer
  <2>2. CASE cancel(u)
    <3> PICK t \in Named : m_cb' = m_cb \ {t} /\ cancelled' = cancelled \cup {t}
      BY <2>2 DEF cancel
    <3>1. t \in m_cb /\ t \in made
      BY NamedTimer
    <3> QED BY <2>2, <3>1 DEF cancel
  <2>3. CASE UserStep(u) \/ refresh(u) \/ reset(u)
    <3>1. UNCHANGED <<made, m_cb, fired, cancelled>>
      BY <2>3 DEF UserStep, Insert, onTimerInsertedAtFront, ResetWrite, refresh, reset
    <3> QED BY <3>1
  <2> QED BY <1>2, <2>1, <2>2, <2>3 DEF User
<1>3. ASSUME NEW w \in Waiters, WaiterStep(w) \/ Wake(w) \/ StoppingAsks(w) PROVE CallbackInv'
  <2>1. CASE Collect(w)
    <3>1. Front \in Timers
      BY <2>1, FrontIsLeast DEF Collect, Expired
    <3>2. CASE Front \in Recurring
      BY <2>1, <3>2 DEF Collect
    <3>3. CASE Front \notin Recurring
      BY <2>1, <3>1, <3>3 DEF Collect
    <3> QED BY <3>2, <3>3
  <2>2. CASE ~Collect(w)
    BY <1>3, <2>2, WaiterFrame
  <2> QED BY <2>1, <2>2
<1>4. CASE UNCHANGED vars
  BY <1>4 DEF vars
<1> QED BY <1>1, <1>2, <1>3, <1>4 DEF Next

(* A step that moves no deadline and lets no timer in makes none meet.     *)
LEMMA NoneMoves ==
    ASSUME TieInv, Live' \subseteq Live, m_next' = m_next, tied' = tied
    PROVE  TieInv'
BY DEF TieInv, Meeting

LEMMA Remembered ==
    ASSUME TieInv, Remember
    PROVE  TieInv' /\ tied \subseteq tied'
BY DEF TieInv, Remember

(* Timers that have met are not forgotten, nor is a set that lost its      *)
(* order.                                                                  *)
LEMMA TieStep ==
    IInv /\ [Next]_vars => TieInv' /\ tied \subseteq tied' /\ (disordered => disordered')
<1> SUFFICES ASSUME IInv, [Next]_vars
             PROVE  TieInv' /\ tied \subseteq tied' /\ (disordered => disordered')
  OBVIOUS
<1> USE DEF IInv, clockVars, heapVars, localVars, histVars
<1>1. CASE Clock
  <2>1. UNCHANGED <<heapVars, histVars>>
    BY <1>1 DEF Clock
  <2> QED BY <2>1, NoneMoves DEF Live
<1>2. CASE Undefined
  BY <1>2, Remembered DEF Undefined
<1>3. ASSUME NEW u \in Users, User(u) PROVE TieInv' /\ tied \subseteq tied' /\ (disordered => disordered')
  <2>1. CASE addTimer(u) \/ Insert(u) \/ refresh(u)
    BY <2>1, Remembered DEF addTimer, Insert, refresh
  <2>2. CASE ResetWrite(u)
    BY <2>2, Remembered DEF ResetWrite
  <2>3. CASE onTimerInsertedAtFront(u) \/ cancel(u) \/ reset(u)
    <3>1. m_timers' \subseteq m_timers /\ m_cb' \subseteq m_cb /\ UNCHANGED <<m_next, tied, disordered>>
      BY <2>3 DEF onTimerInsertedAtFront, cancel, reset
    <3> QED BY <3>1, NoneMoves DEF Live
  <2> QED BY <1>3, <2>1, <2>2, <2>3 DEF User, UserStep
<1>4. ASSUME NEW w \in Waiters, WaiterStep(w) \/ Wake(w) \/ StoppingAsks(w)
      PROVE  TieInv' /\ tied \subseteq tied' /\ (disordered => disordered')
  <2>1. disordered' = disordered
    BY <1>4, WaiterFrame
  <2>2. CASE Collect(w)
    <3>1. Remember
      BY <2>2 DEF Collect
    <3> QED BY <2>1, <3>1, Remembered
  <2>3. CASE ~Collect(w)
    <3>1. UNCHANGED <<heapVars, tied>>
      BY <1>4, <2>3, WaiterFrame
    <3> QED BY <2>1, <3>1, NoneMoves DEF Live
  <2> QED BY <2>2, <2>3
<1>5. CASE UNCHANGED vars
  <2>1. UNCHANGED <<heapVars, histVars>>
    BY <1>5 DEF vars
  <2> QED BY <2>1, NoneMoves DEF Live
<1> QED BY <1>1, <1>2, <1>3, <1>4, <1>5 DEF Next

LEMMA InitIInv == Init => IInv
<1> SUFFICES ASSUME Init PROVE IInv
  OBVIOUS
<1>1. TypeInv
  <2>1. pc \in [Users \cup Waiters -> UserPC \cup WaiterPC]
    BY DEF Init, UserPC, WaiterPC
  <2>2. clock \in 0..MaxTick /\ setBacks \in 0..SetBacks
    BY TimerAssumption DEF Init
  <2>3. m_next \in [Timers -> Nat] /\ m_ms \in [Timers -> Durations \cup {0}]
    BY DEF Init
  <2>4. job \in [Users -> Job \cup {NoJob}]
    BY DEF Init
  <2>5. /\ limit \in [Waiters -> Nat] /\ listNow \in [Waiters -> Nat]
        /\ rollover \in [Waiters -> BOOLEAN] /\ fired \in [Timers -> Int]
    BY DEF Init
  <2> QED BY <2>1, <2>2, <2>3, <2>4, <2>5 DEF Init, TypeInv
<1>2. DeadlineInv
  BY DEF Init, DeadlineInv
<1>3. JobInv
  BY TimerAssumption DEF Init, JobInv, UserPC
<1>4. CallbackInv
  BY DEF Init, CallbackInv
<1>5. TieInv
  BY DEF Init, TieInv, Meeting, Live
<1> QED BY <1>1, <1>2, <1>3, <1>4, <1>5 DEF IInv

(* The parts that hold whatever the order of the set.                      *)
THEOREM Inductive == Spec => []IInv
<1>1. IInv /\ [Next]_vars => IInv'
  BY TypeStep, JobStep, CallbackStep, TieStep DEF IInv
<1> QED BY InitIInv, <1>1, PTL DEF Spec

(* Every variable has its type; no deadline is before the clock's start.   *)
THEOREM TypeCorrect == Spec => []TypeOK
<1>1. IInv => TypeOK
  BY DEF IInv, TypeInv, CallbackInv, TypeOK
<1> QED BY <1>1, Inductive, PTL

(* A one-shot timer is collected at most once, and not if its cancel()     *)
(* returned true, whatever the deadlines, the other timers and the clock.  *)
THEOREM OneShotFiresOnce == Spec => []OneShotOnce
<1>1. IInv => OneShotOnce
  BY DEF IInv, CallbackInv, OneShotOnce
<1> QED BY <1>1, Inductive, PTL

-----------------------------------------------------------------------------
(***************************************************************************)
(* The heap: only timers that have met another with their deadline are     *)
(* mistaken for it.                                                        *)
(***************************************************************************)

(* For any other, find() finds the timer itself or nothing.                *)
LEMMA SameIsSelf ==
    ASSUME IInv, NEW t \in Named, NEW x \in Same(t), x \notin tied \/ t \notin tied
    PROVE  x = t
<1>1. t \in Live /\ x \in Live /\ m_next[x] = m_next[t]
  BY NamedTimer DEF IInv, Live, Same
<1>2. x # t => x \in Meeting /\ t \in Meeting
  BY <1>1 DEF Meeting
<1> QED BY <1>2 DEF IInv, TieInv

LEMMA CarriesFrame ==
    ASSUME NEW u, pc'[u] = pc[u], job'[u] = job[u], NEW t
    PROVE  Carries(u, t)' <=> Carries(u, t)
BY DEF Carries

LEMMA CarriedIsMade ==
    ASSUME IInv, NEW u \in Users, NEW t, Carries(u, t)
    PROVE  t \in made /\ t \in Timers
BY DEF IInv, TypeInv, JobInv, Carries

LEMMA OthersCarry ==
    ASSUME IInv, NEW u \in Users, User(u)
    PROVE  \A v \in Users \ {u}, t \in Timers : Carries(v, t)' <=> Carries(v, t)
<1>1. ASSUME NEW v \in Users, v # u PROVE pc'[v] = pc[v] /\ job'[v] = job[v]
  <2> USE DEF IInv, TypeInv, Goto
  <2>1. CASE UserStep(u)
    BY <1>1, <2>1 DEF UserStep, Insert, onTimerInsertedAtFront, ResetWrite
  <2>2. CASE ~UserStep(u)
    BY <1>1, <2>2 DEF User, addTimer, cancel, refresh, reset
  <2> QED BY <2>1, <2>2
<1> QED BY <1>1, CarriesFrame

LEMMA WaitersCarryNone ==
    ASSUME IInv, NEW w \in Waiters, WaiterStep(w) \/ Wake(w) \/ StoppingAsks(w)
    PROVE  \A u \in Users, t \in Timers : Carries(u, t)' <=> Carries(u, t)
<1>1. \A u \in Users : pc'[u] = pc[u] /\ job'[u] = job[u]
  BY WaiterFrame, TimerAssumption DEF IInv
<1> QED BY <1>1, CarriesFrame

(* The parts of HeapOrdered.                                               *)
Distinct == \A x, y \in m_timers : m_next[x] = m_next[y] => x = y
InOneHand ==
    \A u \in Users, t \in Timers \ tied : Carries(u, t) =>
       t \notin m_timers /\ \A v \in Users : Carries(v, t) => v = u

(* A deadline is written in the set only if its timer has met another.     *)
LEMMA DisorderStep == IInv /\ HeapOrdered /\ [Next]_vars => (disordered' => tied' # {})
<1> SUFFICES ASSUME IInv, HeapOrdered, [Next]_vars, disordered' PROVE tied' # {}
  OBVIOUS
<1> USE DEF clockVars, heapVars, localVars, histVars
<1>1. tied \subseteq tied'
  BY TieStep
<1>2. CASE disordered
  BY <1>1, <1>2 DEF HeapOrdered
<1>3. ASSUME NEW u \in Users, ResetWrite(u), ~disordered PROVE tied' # {}
  <2> DEFINE t == job[u].timer
  <2>1. Carries(u, t) /\ t \in Timers /\ t \in m_timers
    BY <1>3, CarriedIsMade DEF ResetWrite, Carries, IInv, TypeInv
  <2>2. t \in tied
    BY <1>3, <2>1 DEF HeapOrdered
  <2> QED BY <1>1, <2>2
<1>4. ASSUME ~disordered, \A u \in Users : ~ResetWrite(u) PROVE FALSE
  <2>1. CASE Clock \/ Undefined
    BY <1>4, <2>1 DEF Clock, Undefined
  <2>2. ASSUME NEW u \in Users, User(u) PROVE FALSE
    BY <1>4, <2>2
       DEF User, UserStep, addTimer, Insert, onTimerInsertedAtFront, cancel, refresh, reset
  <2>3. ASSUME NEW w \in Waiters, WaiterStep(w) \/ Wake(w) \/ StoppingAsks(w) PROVE FALSE
    BY <1>4, <2>3, WaiterFrame DEF IInv
  <2>4. CASE UNCHANGED vars
    BY <1>4, <2>4 DEF vars
  <2> QED BY <2>1, <2>2, <2>3, <2>4 DEF Next
<1> QED BY <1>2, <1>3, <1>4

LEMMA OrderedStep ==
    IInv /\ HeapOrdered /\ [Next]_vars /\ ~disordered' => Distinct' /\ InOneHand'
<1> SUFFICES ASSUME IInv, HeapOrdered, [Next]_vars, ~disordered' PROVE Distinct' /\ InOneHand'
  OBVIOUS
<1> USE TimerAssumption DEF Distinct, InOneHand, clockVars, heapVars, localVars, histVars, Goto
<1>1. tied \subseteq tied' /\ ~disordered
  BY TieStep
<1>2. Distinct /\ InOneHand
  BY <1>1 DEF HeapOrdered
<1>3. CASE Clock
  BY <1>2, <1>3 DEF Clock, Carries
<1>4. CASE Undefined
  BY <1>1, <1>4 DEF Undefined
<1>5. ASSUME NEW u \in Users, User(u) PROVE Distinct' /\ InOneHand'
  <2> USE DEF IInv, TypeInv
  <2>1. \A v \in Users \ {u}, t \in Timers : Carries(v, t)' <=> Carries(v, t)
    BY <1>5, OthersCarry
  <2>2. CASE addTimer(u)
    <3> PICK t \in New, ms \in Durations :
          /\ m_next' = [m_next EXCEPT ![t] = clock + ms]
          /\ job' = [job EXCEPT ![u] = [timer |-> t, ms |-> ms, call |-> "add"]]
      BY <2>2 DEF addTimer
    <3>1. t \in Timers /\ t \notin made
      BY NewTimer
    <3>2. m_timers' = m_timers /\ \A x \in m_timers : m_next'[x] = m_next[x]
      BY <2>2, <3>1 DEF addTimer
    <3>3. \A v \in Users : ~Carries(v, t)
      BY <3>1, CarriedIsMade
    <3>4. \A x \in Timers : Carries(u, x)' => x = t
      BY DEF Carries
    <3>5. Distinct'
      BY <1>2, <3>2
    <3>6. InOneHand'
      BY <1>1, <1>2, <2>1, <3>1, <3>2, <3>3, <3>4
    <3> QED BY <3>5, <3>6
  <2>3. CASE Insert(u)
    <3> DEFINE t == job[u].timer
    <3>1. Carries(u, t) /\ t \in Timers
      BY <2>3 DEF Insert, Carries, JobInv
    <3>2. m_timers' = Inserted(m_timers, t, m_next[t]) /\ m_next' = m_next
      BY <2>3 DEF Insert
    <3>3. \A x \in Timers : ~Carries(u, x)'
      BY <2>3 DEF Insert, Carries
    <3>4. \A x, y \in m_timers' : m_next[x] = m_next[y] => x = y
      BY <1>2, <3>2 DEF Inserted
    <3>5. t \notin tied => \A v \in Users \ {u} : ~Carries(v, t)
      BY <1>2, <3>1
    <3>6. m_timers' \subseteq m_timers \cup {t}
      BY <3>2, InsertedProperties
    <3>7. Distinct'
      BY <3>2, <3>4
    <3> HIDE DEF t
    <3>8. InOneHand'
      BY <1>1, <1>2, <2>1, <3>3, <3>5, <3>6
    <3> QED BY <3>7, <3>8
  <2>4. CASE onTimerInsertedAtFront(u)
    <3>1. \A x \in Timers : ~Carries(u, x) /\ ~Carries(u, x)'
      BY <2>4 DEF onTimerInsertedAtFront, Carries
    <3>2. UNCHANGED <<m_timers, m_next, tied>>
      BY <2>4 DEF onTimerInsertedAtFront
    <3> QED BY <1>2, <2>1, <3>1, <3>2
  <2>5. CASE cancel(u)
    <3>1. m_timers' \subseteq m_timers /\ m_next' = m_next /\ pc' = pc /\ job' = job /\ tied' = tied
      BY <2>5 DEF cancel
    <3> QED BY <1>2, <3>1 DEF Carries
  <2>6. CASE refresh(u)
    <3> PICK t \in Named :
          /\ Same(t) # {}
          /\ m_next' = [m_next EXCEPT ![t] = clock + m_ms[t]]
          /\ m_timers' = Inserted(m_timers \ Same(t), t, m_next'[t])
      BY <2>6 DEF refresh
    <3>1. t \in Timers
      BY NamedTimer
    <3>2. m_timers' \subseteq (m_timers \ {t}) \cup {t} /\ m_timers' \subseteq m_timers \cup {t}
      BY InsertedProperties
    <3>3. \A x \in Timers \ {t} : m_next'[x] = m_next[x]
      BY <3>1
    <3>4. t \notin m_timers \ Same(t)
      BY DEF Same
    <3>5. \A x, y \in m_timers' : m_next'[x] = m_next'[y] => x = y
      <4>1. CASE \E x \in m_timers \ Same(t) : m_next[x] = m_next'[t]
        BY <1>2, <3>3, <3>4, <4>1 DEF Inserted
      <4>2. CASE \A x \in m_timers \ Same(t) : m_next[x] # m_next'[t]
        <5>1. m_timers' = (m_timers \ Same(t)) \cup {t}
          BY <4>2 DEF Inserted
        <5> QED BY <1>2, <3>3, <3>4, <4>2, <5>1
      <4> QED BY <4>1, <4>2
    <3>6. t \notin tied => t \in m_timers
      BY SameIsSelf DEF Same
    <3>7. pc' = pc /\ job' = job
      BY <2>6 DEF refresh
    <3>8. \A v \in Users, x \in Timers : Carries(v, x)' <=> Carries(v, x)
      BY <3>7 DEF Carries
    <3>9. InOneHand'
      <4> SUFFICES ASSUME NEW v \in Users, NEW x \in Timers \ tied', Carries(v, x)'
                   PROVE  x \notin m_timers' /\ \A z \in Users : Carries(z, x)' => z = v
        OBVIOUS
      <4>1. Carries(v, x) /\ x \notin tied
        BY <1>1, <3>8
      <4>2. x \notin m_timers /\ \A z \in Users : Carries(z, x) => z = v
        BY <1>2, <4>1
      <4>3. x # t
        BY <3>6, <4>1, <4>2
      <4> QED BY <3>2, <3>8, <4>2, <4>3
    <3> QED BY <3>5, <3>9
  <2>7. CASE reset(u)
    <3> PICK t \in Named, ms \in Durations, call \in {"reset", "resetFromNow"} :
          /\ Same(t) # {}
          /\ m_timers' = m_timers \ Same(t)
          /\ job' = [job EXCEPT ![u] = [timer |-> t, ms |-> ms, call |-> call]]
      BY <2>7 DEF reset
    <3>1. t \notin m_timers'
      BY DEF Same
    <3>2. t \notin tied => t \in m_timers
      BY SameIsSelf DEF Same
    <3>3. t \notin tied => \A v \in Users : ~Carries(v, t)
      BY <1>2, <3>2, NamedTimer
    <3>4. \A x \in Timers : Carries(u, x)' => x = t
      BY DEF Carries
    <3>5. m_next' = m_next /\ tied' = tied
      BY <2>7 DEF reset
    <3>6. InOneHand'
      BY <1>2, <2>1, <3>1, <3>3, <3>4, <3>5
    <3> QED BY <1>2, <3>5, <3>6
  <2>8. CASE ResetWrite(u)
    <3> DEFINE t == job[u].timer
    <3>1. t \in Timers /\ t \notin m_timers /\ m_timers' = m_timers
      BY <1>5, <2>8 DEF ResetWrite, JobInv
    <3>2. \A x \in m_timers : m_next'[x] = m_next[x]
      BY <2>8, <3>1 DEF ResetWrite
    <3>3. \A x \in Timers : Carries(u, x)' <=> Carries(u, x)
      BY <2>8 DEF ResetWrite, Carries
    <3> HIDE DEF t
    <3>4. InOneHand'
      BY <1>1, <1>2, <2>1, <3>1, <3>3
    <3> QED BY <1>2, <3>1, <3>2, <3>4
  <2> QED BY <1>5, <2>2, <2>3, <2>4, <2>5, <2>6, <2>7, <2>8 DEF User, UserStep
<1>6. ASSUME NEW w \in Waiters, WaiterStep(w) \/ Wake(w) \/ StoppingAsks(w)
      PROVE  Distinct' /\ InOneHand'
  <2>1. \A u \in Users, t \in Timers : Carries(u, t)' <=> Carries(u, t)
    BY <1>6, WaitersCarryNone
  <2>2. m_timers' \subseteq m_timers => InOneHand'
    BY <1>1, <1>2, <2>1
  <2>3. CASE Collect(w)
    <3>1. Front \in m_timers /\ Front \in Timers
      BY <2>3, FrontIsLeast DEF Collect, Expired, IInv, TypeInv
    <3>2. CASE Front \in Recurring
      <4> DEFINE d == listNow[w] + m_ms[Front]
      <4>1. /\ m_next' = [m_next EXCEPT ![Front] = d]
            /\ m_timers' = Inserted(m_timers \ {Front}, Front, d)
        BY <2>3, <3>2 DEF Collect
      <4>2. m_next'[Front] = d /\ \A x \in m_timers \ {Front} : m_next'[x] = m_next[x]
        BY <3>1, <4>1 DEF IInv, TypeInv
      <4> HIDE DEF d
      <4>3. m_timers' \subseteq m_timers
        BY <3>1, <4>1, InsertedProperties
      <4>4. \A x, y \in m_timers' : m_next'[x] = m_next'[y] => x = y
        BY <1>2, <4>1, <4>2 DEF Inserted
      <4> QED BY <2>2, <4>3, <4>4
    <3>3. CASE Front \notin Recurring
      <4>1. m_timers' \subseteq m_timers /\ m_next' = m_next
        BY <2>3, <3>3 DEF Collect
      <4> QED BY <1>2, <2>2, <4>1
    <3> QED BY <3>2, <3>3
  <2>4. CASE ~Collect(w)
    <3>1. m_timers' = m_timers /\ m_next' = m_next
      BY <1>6, <2>4, WaiterFrame DEF IInv
    <3> QED BY <1>2, <2>2, <3>1
  <2> QED BY <2>3, <2>4
<1>7. CASE UNCHANGED vars
  BY <1>2, <1>7 DEF vars, Carries
<1> QED BY <1>3, <1>4, <1>5, <1>6, <1>7 DEF Next

LEMMA LostStep ==
    IInv /\ NoTimerLost /\ [Next]_vars => NoTimerLost'
<1> SUFFICES ASSUME IInv, NoTimerLost, [Next]_vars, ~disordered', NEW x \in m_cb' \ tied'
             PROVE  x \in m_timers' \/ \E u \in Users : Carries(u, x)'
  BY DEF NoTimerLost
<1> USE TimerAssumption DEF clockVars, heapVars, localVars, histVars, Goto
<1>1. ~disordered /\ x \notin tied /\ x \notin Meeting'
  <2>1. tied \subseteq tied' /\ TieInv' /\ ~disordered
    BY TieStep
  <2> QED BY <2>1 DEF TieInv
<1>2. x \in m_cb => x \in m_timers \/ \E u \in Users : Carries(u, x)
  BY <1>1 DEF NoTimerLost
<1>3. CASE Clock
  BY <1>2, <1>3 DEF Clock, Carries
<1>4. CASE Undefined
  BY <1>1, <1>4 DEF Undefined
<1>5. ASSUME NEW u \in Users, User(u)
      PROVE  x \in m_timers' \/ \E v \in Users : Carries(v, x)'
  <2> USE DEF IInv, TypeInv
  <2>1. x \in Timers
    <3>1. TypeInv'
      BY TypeStep
    <3> QED BY <3>1
  <2>2. \A v \in Users \ {u} : Carries(v, x)' <=> Carries(v, x)
    BY <1>5, <2>1, OthersCarry
  <2>3. CASE addTimer(u)
    <3> PICK t \in New, ms \in Durations :
          /\ m_cb' = m_cb \cup {t}
          /\ job' = [job EXCEPT ![u] = [timer |-> t, ms |-> ms, call |-> "add"]]
      BY <2>3 DEF addTimer
    <3>1. Carries(u, t)'
      BY <2>3 DEF addTimer, Carries
    <3>2. ~Carries(u, x) /\ m_timers' = m_timers
      BY <2>3 DEF addTimer, Carries
    <3> QED BY <1>2, <2>2, <3>1, <3>2
  <2>4. CASE Insert(u)
    <3> DEFINE t == job[u].timer
    <3>1. m_cb' = m_cb /\ m_timers' = Inserted(m_timers, t, m_next[t]) /\ m_next' = m_next
      BY <2>4 DEF Insert
    <3>2. m_timers \subseteq m_timers'
      BY <3>1, InsertedProperties
    <3>3. Carries(u, x) => x = t
      BY DEF Carries
    <3> HIDE DEF t
    <3>4. CASE x = t
      <4>1. x \in Live'
        BY DEF Live
      <4>2. \A y \in m_timers \ {x} : m_next[y] # m_next[x]
        BY <1>1, <3>1, <3>2, <4>1 DEF Meeting, Live
      <4>3. x \in m_timers'
        BY <3>1, <3>2, <3>4, <4>2 DEF Inserted
      <4> QED BY <4>3
    <3>5. CASE x # t
      BY <1>2, <2>2, <3>1, <3>2, <3>3, <3>5
    <3> QED BY <3>4, <3>5
  <2>5. CASE onTimerInsertedAtFront(u)
    <3>1. ~Carries(u, x) /\ m_timers' = m_timers /\ m_cb' = m_cb
      BY <2>5 DEF onTimerInsertedAtFront, Carries
    <3> QED BY <1>2, <2>2, <3>1
  <2>6. CASE cancel(u)
    <3> PICK t \in Named : m_cb' = m_cb \ {t} /\ m_timers' = m_timers \ Same(t)
      BY <2>6 DEF cancel
    <3>1. x \notin Same(t)
      BY <1>1, SameIsSelf
    <3>2. pc' = pc /\ job' = job
      BY <2>6 DEF cancel
    <3> QED BY <1>2, <3>1, <3>2 DEF Carries
  <2>7. CASE refresh(u)
    <3> PICK t \in Named :
          /\ Same(t) # {}
          /\ m_next' = [m_next EXCEPT ![t] = clock + m_ms[t]]
          /\ m_timers' = Inserted(m_timers \ Same(t), t, m_next'[t])
      BY <2>7 DEF refresh
    <3>1. m_cb' = m_cb /\ pc' = pc /\ job' = job /\ t \in Timers
      BY <2>7, NamedTimer DEF refresh
    <3>2. m_timers \ Same(t) \subseteq m_timers'
      BY InsertedProperties
    <3>3. CASE x = t
      <4>1. \A y \in m_timers \ Same(t) : y # t /\ m_next'[y] = m_next[y] /\ y \in Live'
        BY <3>1, <3>2 DEF Same, Live
      <4>2. x \in Live'
        BY DEF Live
      <4>3. \A y \in m_timers \ Same(t) : m_next[y] # m_next'[t]
        BY <1>1, <3>3, <4>1, <4>2 DEF Meeting
      <4> QED BY <3>3, <4>3 DEF Inserted
    <3>4. CASE x # t
      <4>1. x \notin Same(t)
        BY <1>1, <3>4, SameIsSelf
      <4> QED BY <1>2, <3>1, <3>2, <4>1 DEF Carries
    <3> QED BY <3>3, <3>4
  <2>8. CASE reset(u)
    <3> PICK t \in Named, ms \in Durations, call \in {"reset", "resetFromNow"} :
          /\ m_timers' = m_timers \ Same(t)
          /\ job' = [job EXCEPT ![u] = [timer |-> t, ms |-> ms, call |-> call]]
      BY <2>8 DEF reset
    <3>1. Carries(u, t)' /\ ~Carries(u, x) /\ m_cb' = m_cb
      BY <2>8 DEF reset, Carries
    <3>2. x \in Same(t) => x = t
      BY <1>1, SameIsSelf
    <3> QED BY <1>2, <2>2, <3>1, <3>2
  <2>9. CASE ResetWrite(u)
    <3>1. m_cb' = m_cb /\ m_timers' = m_timers /\ (Carries(u, x) => Carries(u, x)')
      BY <2>9 DEF ResetWrite, Carries
    <3> QED BY <1>2, <2>2, <3>1
  <2> QED BY <1>5, <2>3, <2>4, <2>5, <2>6, <2>7, <2>8, <2>9 DEF User, UserStep
<1>6. ASSUME NEW w \in Waiters, WaiterStep(w) \/ Wake(w) \/ StoppingAsks(w)
      PROVE  x \in m_timers' \/ \E u \in Users : Carries(u, x)'
  <2>1. x \in Timers
    <3>1. TypeInv'
      BY TypeStep
    <3> QED BY <3>1 DEF TypeInv
  <2>2. \A u \in Users : Carries(u, x)' <=> Carries(u, x)
    BY <1>6, <2>1, WaitersCarryNone
  <2>3. CASE Collect(w)
    <3>1. Front \in m_timers /\ Front \in Timers
      BY <2>3, FrontIsLeast DEF Collect, Expired, IInv, TypeInv
    <3>2. CASE Front \in Recurring
      <4> DEFINE d == listNow[w] + m_ms[Front]
      <4>1. /\ m_next' = [m_next EXCEPT ![Front] = d] /\ m_cb' = m_cb
            /\ m_timers' = Inserted(m_timers \ {Front}, Front, d)
        BY <2>3, <3>2 DEF Collect
      <4>2. m_next'[Front] = d /\ \A y \in m_timers \ {Front} : m_next'[y] = m_next[y]
        BY <3>1, <4>1 DEF IInv, TypeInv
      <4> HIDE DEF d
      <4>3. m_timers \ {Front} \subseteq m_timers'
        BY <4>1, InsertedProperties
      <4>4. x = Front => x \in m_timers'
        <5>1. ASSUME x = Front, NEW y \in m_timers \ {Front} PROVE m_next[y] # d
          <6>1. x \in Live' /\ y \in Live' /\ x # y
            BY <4>3, <5>1 DEF Live
          <6>2. m_next'[y] # m_next'[x]
            BY <1>1, <6>1 DEF Meeting
          <6> QED BY <4>2, <5>1, <6>2
        <5> QED BY <4>1, <5>1 DEF Inserted
      <4> QED BY <1>2, <2>2, <4>1, <4>3, <4>4
    <3>3. CASE Front \notin Recurring
      <4>1. m_timers' = m_timers \ {Front} /\ m_cb' = m_cb \ {Front}
        BY <2>3, <3>3 DEF Collect
      <4> QED BY <1>2, <2>2, <4>1
    <3> QED BY <3>2, <3>3
  <2>4. CASE ~Collect(w)
    <3>1. m_timers' = m_timers /\ m_cb' = m_cb
      BY <1>6, <2>4, WaiterFrame DEF IInv, heapVars
    <3> QED BY <1>2, <2>2, <3>1
  <2> QED BY <2>3, <2>4
<1>7. CASE UNCHANGED vars
  BY <1>2, <1>7 DEF vars, Carries
<1> QED BY <1>3, <1>4, <1>5, <1>6, <1>7 DEF Next

(* The order of m_timers is undone only after deadlines of live timers     *)
(* have met, and until then a timer whose deadline reset() writes without  *)
(* the lock is not in the set and in one user's hands: for any timers and  *)
(* threads, and however the clock is set.                                  *)
THEOREM OnlyTiesUndoTheOrder == Spec => []HeapOrdered
<1>1. Init => HeapOrdered
  BY DEF Init, HeapOrdered, Carries
<1>2. IInv /\ HeapOrdered /\ [Next]_vars => HeapOrdered'
  <2> SUFFICES ASSUME IInv, HeapOrdered, [Next]_vars PROVE HeapOrdered'
    OBVIOUS
  <2>1. disordered' => tied' # {}
    BY DisorderStep
  <2>2. ~disordered' => Distinct' /\ InOneHand'
    BY OrderedStep
  <2> QED BY <2>1, <2>2 DEF HeapOrdered, Distinct, InOneHand
<1> QED BY <1>1, <1>2, Inductive, PTL DEF Spec

(* While the set is in order, concurrent cancel(), refresh(), reset() and  *)
(* listExpiredCb() lose no timer that has not met another with its         *)
(* deadline.                                                               *)
THEOREM OnlyTiesLoseTimers == Spec => []NoTimerLost
<1>1. Init => NoTimerLost
  BY DEF Init, NoTimerLost
<1> QED BY <1>1, LostStep, Inductive, PTL DEF Spec

(* No timer that has a callback has left the set but to come back.         *)
AllKept == \A t \in m_cb : t \in m_timers \/ \E u \in Users : Carries(u, t)

NoneMeet == Meeting = {}
NoneTied == tied = {}

(* So a program whose live timers never have one deadline loses none and   *)
(* never undoes the order of the set.                                      *)
THEOREM NoneLostIfDistinct == Spec /\ []NoneMeet => [](AllKept /\ ~disordered)
<1>1. Init => NoneTied
  BY DEF Init, NoneTied
<1>2. NoneTied /\ NoneMeet' /\ [Next]_vars => NoneTied'
  <2> SUFFICES ASSUME tied = {}, Meeting' = {}, [Next]_vars PROVE tied' = {}
    BY DEF NoneTied, NoneMeet
  <2>1. Remember => tied' = {}
    BY DEF Remember
  <2>2. ASSUME ~Remember PROVE tied' = tied
    <3> USE DEF histVars
    <3>1. CASE Clock \/ Undefined
      BY <2>2, <3>1 DEF Clock, Undefined
    <3>2. ASSUME NEW u \in Users, User(u) PROVE tied' = tied
      BY <2>2, <3>2
         DEF User, UserStep, addTimer, Insert, onTimerInsertedAtFront, cancel, refresh, reset, ResetWrite
    <3>3. ASSUME NEW w \in Waiters, WaiterStep(w) \/ Wake(w) \/ StoppingAsks(w) PROVE tied' = tied
      BY <2>2, <3>3 DEF WaiterStep, getNextTimer, ListLock, Collect, ListDone, Drain, Wake, StoppingAsks
    <3>4. CASE UNCHANGED vars
      BY <3>4 DEF vars
    <3> QED BY <3>1, <3>2, <3>3, <3>4 DEF Next
  <2> QED BY <2>1, <2>2
<1>3. NoneTied /\ HeapOrdered /\ NoTimerLost => AllKept /\ ~disordered
  BY DEF NoneTied, HeapOrdered, NoTimerLost, AllKept
<1> QED BY <1>1, <1>2, <1>3, OnlyTiesUndoTheOrder, OnlyTiesLoseTimers, PTL DEF Spec

(* What one user carries is never in the set.                              *)
OutOfSet == ~disordered /\ \A u \in Users, t \in Timers : Carries(u, t) => t \notin m_timers

(* Nor does a program undo it, whatever the deadlines, whose timers are    *)
(* handled by one thread.                                                  *)
THEOREM OneUserKeepsOrder ==
    ASSUME \A u, v \in Users : u = v
    PROVE  Spec => []~disordered
<1>1. Init => OutOfSet
  BY DEF Init, OutOfSet
<1>2. IInv /\ OutOfSet /\ [Next]_vars => OutOfSet'
  <2> SUFFICES ASSUME IInv, OutOfSet, [Next]_vars PROVE OutOfSet'
    OBVIOUS
  <2> USE DEF OutOfSet, clockVars, heapVars, localVars, histVars, Goto
  <2>1. CASE Clock \/ Undefined
    BY <2>1 DEF Clock, Undefined, Carries
  <2>2. ASSUME NEW u \in Users, User(u) PROVE OutOfSet'
    <3> USE DEF IInv, TypeInv
    <3>1. \A v \in Users : v = u
      OBVIOUS
    <3>2. CASE addTimer(u)
      <4> PICK t \in New, ms \in Durations :
            job' = [job EXCEPT ![u] = [timer |-> t, ms |-> ms, call |-> "add"]]
        BY <3>2 DEF addTimer
      <4>1. t \notin m_timers
        BY NewTimer
      <4>2. \A x \in Timers : Carries(u, x)' => x = t
        BY DEF Carries
      <4> QED BY <3>1, <3>2, <4>1, <4>2 DEF addTimer
    <3>3. CASE Insert(u) \/ onTimerInsertedAtFront(u)
      <4>1. pc'[u] \in {"notify", "idle"}
        BY <3>3 DEF Insert, onTimerInsertedAtFront
      <4>2. \A x \in Timers : ~Carries(u, x)'
        BY <4>1 DEF Carries
      <4>3. disordered' = disordered
        BY <3>3 DEF Insert, onTimerInsertedAtFront
      <4> QED BY <3>1, <4>2, <4>3
    <3>4. CASE cancel(u) \/ refresh(u)
      <4>1. \A x \in Timers : ~Carries(u, x)'
        BY <3>4 DEF cancel, refresh, Carries
      <4> QED BY <3>1, <3>4, <4>1 DEF cancel, refresh
    <3>5. CASE reset(u)
      <4> PICK t \in Named, ms \in Durations, call \in {"reset", "resetFromNow"} :
            /\ m_timers' = m_timers \ Same(t)
            /\ job' = [job EXCEPT ![u] = [timer |-> t, ms |-> ms, call |-> call]]
        BY <3>5 DEF reset
      <4>1. t \notin m_timers'
        BY DEF Same
      <4>2. \A x \in Timers : Carries(u, x)' => x = t
        BY DEF Carries
      <4> QED BY <3>1, <3>5, <4>1, <4>2 DEF reset
    <3>6. CASE ResetWrite(u)
      <4> DEFINE t == job[u].timer
      <4>1. Carries(u, t) /\ t \in Timers
        BY <3>6, CarriedIsMade DEF ResetWrite, Carries, JobInv
      <4>2. \A x \in Timers : Carries(u, x)' <=> Carries(u, x)
        BY <3>6 DEF ResetWrite, Carries
      <4> QED BY <3>1, <3>6, <4>1, <4>2 DEF ResetWrite
    <3> QED BY <2>2, <3>2, <3>3, <3>4, <3>5, <3>6 DEF User, UserStep
  <2>3. ASSUME NEW w \in Waiters, WaiterStep(w) \/ Wake(w) \/ StoppingAsks(w) PROVE OutOfSet'
    <3>1. \A u \in Users, t \in Timers : Carries(u, t)' <=> Carries(u, t)
      BY <2>3, WaitersCarryNone
    <3>2. disordered' = disordered
      BY <2>3, WaiterFrame DEF IInv
    <3>3. m_timers' \subseteq m_timers
      <4>1. CASE Collect(w)
        <5>1. Front \in m_timers
          BY <4>1, FrontIsLeast DEF Collect, Expired, IInv
        <5>2. m_timers' = m_timers \ {Front} \/ m_timers' = Inserted(m_timers \ {Front}, Front, listNow[w] + m_ms[Front])
          BY <4>1 DEF Collect
        <5> QED BY <5>1, <5>2, InsertedProperties
      <4>2. CASE ~Collect(w)
        BY <2>3, <4>2, WaiterFrame DEF IInv
      <4> QED BY <4>1, <4>2
    <3> QED BY <3>1, <3>2, <3>3
  <2>4. CASE UNCHANGED vars
    BY <2>4 DEF vars, Carries
  <2> QED BY <2>1, <2>2, <2>3, <2>4 DEF Next
<1>3. OutOfSet => ~disordered
  BY DEF OutOfSet
<1> QED BY <1>1, <1>2, <1>3, Inductive, PTL DEF Spec

-----------------------------------------------------------------------------
(***************************************************************************)
(* The waiters sleep no longer than to the first deadline, in a program    *)
(* whose clock is not set back.                                            *)
(***************************************************************************)

(* What a step of a user leaves alone.                                     *)
LEMMA UserFrame ==
    ASSUME TypeInv, NEW u \in Users, User(u)
    PROVE  /\ \A p \in (Users \cup Waiters) \ {u} : pc'[p] = pc[p]
           /\ \A w \in Waiters : w # u
           /\ limit' = limit /\ listNow' = listNow
           /\ ~onTimerInsertedAtFront(u) => wakeup' = wakeup /\ pc[u] # "notify"
           /\ ~Insert(u) => m_tickled' = m_tickled
<1> USE TimerAssumption DEF TypeInv, clockVars, heapVars, localVars, histVars, Goto
<1>1. CASE addTimer(u) \/ cancel(u)
  BY <1>1 DEF addTimer, cancel
<1>2. CASE refresh(u) \/ reset(u)
  BY <1>2 DEF refresh, reset
<1>3. CASE Insert(u)
  BY <1>3 DEF Insert
<1>4. CASE onTimerInsertedAtFront(u)
  BY <1>4 DEF onTimerInsertedAtFront
<1>5. CASE ResetWrite(u)
  BY <1>5 DEF ResetWrite
<1> QED BY <1>1, <1>2, <1>3, <1>4, <1>5 DEF User, UserStep

LEMMA ClockStep ==
    ASSUME SetBacks = 0
    PROVE  IInv /\ ClockInv /\ [Next]_vars => ClockInv'
<1> SUFFICES ASSUME IInv, ClockInv, [Next]_vars PROVE ClockInv'
  OBVIOUS
<1> USE DEF IInv, clockVars, heapVars, localVars, histVars
<1>1. /\ clock \in Nat /\ made \subseteq Timers /\ listNow \in [Waiters -> Nat]
      /\ m_next \in [Timers -> Nat] /\ m_ms \in [Timers -> Durations \cup {0}]
  BY TimesNat DEF TypeInv
<1>2. \A t \in Timers : m_next[t] \in Nat /\ m_ms[t] \in Nat
  BY TimesNat
<1>3. ASSUME clock' \in Nat, clock <= clock', UNCHANGED <<m_next, m_ms, made, listNow>>
      PROVE  ClockInv'
  BY <1>1, <1>2, <1>3 DEF ClockInv
<1>4. clock <= clock
  BY <1>1
<1>5. CASE Clock
  <2>1. clock' = clock + 1
    BY <1>5, TimerAssumption DEF Clock, Advance, SetBack, TypeInv
  <2>2. clock' \in Nat /\ clock <= clock'
    BY <1>1, <2>1
  <2> QED BY <1>3, <1>5, <2>2 DEF Clock
<1>6. CASE Undefined
  BY <1>1, <1>3, <1>4, <1>6 DEF Undefined
<1>7. ASSUME NEW u \in Users, User(u) PROVE ClockInv'
  <2>1. listNow' = listNow /\ clock' = clock
    <3>1. clock' = clock
      BY <1>7 DEF User, UserStep, addTimer, Insert, onTimerInsertedAtFront, ResetWrite, cancel,
                  refresh, reset
    <3> QED BY <1>7, <3>1, UserFrame
  <2>2. ASSUME NEW t \in Timers, NEW d \in Nat, NEW ms \in Nat, made' \in {made, made \cup {t}},
               m_next' = [m_next EXCEPT ![t] = d], d <= clock + ms,
               m_ms'[t] = ms, \A x \in Timers \ {t} : m_ms'[x] = m_ms[x]
        PROVE  ClockInv'
    <3>1. m_next'[t] = d /\ \A x \in Timers \ {t} : m_next'[x] = m_next[x]
      BY <1>1, <2>2
    <3>2. \A x \in made' : m_next'[x] <= clock + m_ms'[x]
      BY <1>1, <2>2, <3>1 DEF ClockInv
    <3> QED BY <2>1, <3>2 DEF ClockInv
  <2>3. CASE addTimer(u)
    <3> PICK t \in New, ms \in Durations :
          /\ made' = made \cup {t}
          /\ m_next' = [m_next EXCEPT ![t] = clock + ms]
          /\ m_ms' = [m_ms EXCEPT ![t] = ms]
      BY <2>3 DEF addTimer
    <3>1. t \in Timers /\ ms \in Nat
      BY NewTimer, DurationNat
    <3>2. m_ms'[t] = ms /\ \A x \in Timers \ {t} : m_ms'[x] = m_ms[x]
      BY <1>1, <3>1
    <3>3. clock + ms \in Nat /\ clock + ms <= clock + ms
      BY <1>1, <3>1
    <3> QED BY <2>2, <3>1, <3>2, <3>3
  <2>4. CASE refresh(u)
    <3> PICK t \in Named : m_next' = [m_next EXCEPT ![t] = clock + m_ms[t]]
      BY <2>4 DEF refresh
    <3>1. t \in Timers /\ m_ms[t] \in Nat
      BY <1>2, NamedTimer
    <3>2. made' = made /\ m_ms' = m_ms
      BY <2>4 DEF refresh
    <3>3. clock + m_ms[t] \in Nat /\ clock + m_ms[t] <= clock + m_ms[t]
      BY <1>1, <3>1
    <3> QED BY <2>2, <3>1, <3>2, <3>3
  <2>5. CASE ResetWrite(u)
    <3> DEFINE t == job[u].timer
               ms == job[u].ms
               start == IF job[u].call = "resetFromNow" THEN clock ELSE m_next[t] - m_ms[t]
    <3>1. t \in Timers /\ t \in made /\ ms \in Nat
      BY <2>5, NoJobIsNoJob, DurationNat DEF ResetWrite, TypeInv, JobInv
    <3>2. /\ made' = made /\ m_ms' = [m_ms EXCEPT ![t] = ms]
          /\ m_next' = [m_next EXCEPT ![t] = start + ms]
      BY <2>5 DEF ResetWrite
    <3>3. start \in Nat /\ start <= clock
      <4>1. m_next[t] \in Nat /\ m_ms[t] \in Nat
        BY <1>2, <3>1
      <4>2. m_next[t] <= clock + m_ms[t] /\ m_next[t] >= m_ms[t]
        BY <3>1 DEF ClockInv, DeadlineInv
      <4> QED BY <1>1, <4>1, <4>2
    <3> HIDE DEF t, ms, start
    <3>4. start + ms \in Nat /\ start + ms <= clock + ms
      BY <1>1, <3>1, <3>3
    <3>5. m_ms'[t] = ms /\ \A x \in Timers \ {t} : m_ms'[x] = m_ms[x]
      BY <1>1, <3>1, <3>2
    <3> QED BY <2>2, <3>1, <3>2, <3>4, <3>5
  <2>6. CASE Insert(u) \/ onTimerInsertedAtFront(u) \/ cancel(u) \/ reset(u)
    <3>1. UNCHANGED <<made, m_next, m_ms>>
      BY <2>6 DEF Insert, onTimerInsertedAtFront, cancel, reset
    <3> QED BY <1>1, <1>3, <1>4, <2>1, <3>1
  <2> QED BY <1>7, <2>3, <2>4, <2>5, <2>6 DEF User, UserStep
<1>8. ASSUME NEW w \in Waiters, WaiterStep(w) \/ Wake(w) \/ StoppingAsks(w) PROVE ClockInv'
  <2>1. UNCHANGED <<made, m_ms, clock>>
    BY <1>8, WaiterFrame
  <2>2. ASSUME m_next' = m_next, NEW n \in Nat, n <= clock,
               listNow' = listNow \/ listNow' = [listNow EXCEPT ![w] = n]
        PROVE  ClockInv'
    BY <1>1, <2>1, <2>2 DEF ClockInv
  <2>3. CASE Wake(w)
    BY <1>1, <1>4, <2>2, <2>3 DEF Wake
  <2>4. CASE ListDone(w)
    <3>1. m_next' = m_next /\ listNow' = [listNow EXCEPT ![w] = 0] /\ 0 \in Nat /\ 0 <= clock
      BY <1>1, <2>4 DEF ListDone
    <3> QED BY <2>2, <3>1
  <2>5. CASE Collect(w)
    <3>1. Front \in made /\ Front \in Timers /\ listNow' = listNow
      BY <2>5, FrontIsLeast DEF Collect, Expired, TypeInv
    <3>2. CASE Front \in Recurring
      <4>1. m_next' = [m_next EXCEPT ![Front] = listNow[w] + m_ms[Front]]
        BY <2>5, <3>2 DEF Collect
      <4>2. /\ m_next'[Front] = listNow[w] + m_ms[Front]
            /\ \A x \in Timers \ {Front} : m_next'[x] = m_next[x]
        BY <1>1, <3>1, <4>1
      <4>3. m_ms[Front] \in Nat /\ listNow[w] \in Nat /\ listNow[w] <= clock
        BY <1>1, <1>2, <3>1 DEF ClockInv
      <4>4. m_next'[Front] <= clock + m_ms[Front]
        BY <1>1, <4>2, <4>3
      <4>5. \A x \in made' : m_next'[x] <= clock + m_ms[x]
        BY <1>1, <2>1, <4>2, <4>4 DEF ClockInv
      <4> QED BY <2>1, <3>1, <4>5 DEF ClockInv
    <3>3. CASE Front \notin Recurring
      <4>1. m_next' = m_next
        BY <2>5, <3>3 DEF Collect
      <4> QED BY <1>1, <1>3, <1>4, <2>1, <3>1, <4>1
    <3> QED BY <3>2, <3>3
  <2>6. CASE StoppingAsks(w) \/ getNextTimer(w) \/ ListLock(w) \/ Drain(w)
    <3>1. UNCHANGED <<m_next, listNow>>
      BY <2>6 DEF StoppingAsks, getNextTimer, ListLock, Drain
    <3> QED BY <1>1, <1>3, <1>4, <2>1, <3>1
  <2> QED BY <1>8, <2>3, <2>4, <2>5, <2>6 DEF WaiterStep
<1>9. CASE UNCHANGED vars
  BY <1>1, <1>3, <1>4, <1>9 DEF vars
<1> QED BY <1>5, <1>6, <1>7, <1>8, <1>9 DEF Next

LEMMA TickleStep == IInv /\ TickleInv /\ [Next]_vars => TickleInv'
<1> SUFFICES ASSUME IInv, TickleInv, [Next]_vars PROVE TickleInv'
  OBVIOUS
<1> USE DEF IInv, TickleInv, clockVars, heapVars, localVars, histVars, Goto
<1>1. CASE Clock \/ Undefined
  BY <1>1 DEF Clock, Undefined
<1>2. pc \in [Users \cup Waiters -> UserPC \cup WaiterPC]
  BY DEF TypeInv
<1>3. ASSUME NEW u \in Users, User(u) PROVE TickleInv'
  <2>1. \A w \in Waiters : pc'[w] = pc[w]
    BY <1>3, UserFrame
  <2>2. \A v \in Users : v # u => pc'[v] = pc[v]
    BY <1>3, UserFrame
  <2>3. CASE onTimerInsertedAtFront(u)
    <3>1. wakeup' \in {TRUE, wakeup \/ \E w \in Waiters : pc[w] # "run"}
      BY <2>3 DEF onTimerInsertedAtFront
    <3>2. CASE \E w \in Waiters : pc[w] # "run"
      BY <3>1, <3>2
    <3>3. CASE \A w \in Waiters : pc[w] = "run"
      BY <2>1, <3>3, PoolAssumption
    <3> QED BY <3>2, <3>3
  <2>4. CASE Insert(u)
    <3>1. wakeup' = wakeup /\ pc[u] = "insert"
      BY <2>4 DEF Insert
    <3>2. CASE AtFront(job[u].timer) /\ ~m_tickled
      <4>1. pc'[u] = "notify"
        BY <1>2, <2>4, <3>2 DEF Insert
      <4> QED BY <4>1
    <3>3. CASE ~(AtFront(job[u].timer) /\ ~m_tickled)
      <4>1. m_tickled' = m_tickled
        BY <2>4, <3>3 DEF Insert, TypeInv
      <4> QED BY <2>1, <2>2, <3>1, <4>1
    <3> QED BY <3>2, <3>3
  <2>5. CASE ~onTimerInsertedAtFront(u) /\ ~Insert(u)
    <3>1. wakeup' = wakeup /\ pc[u] # "notify" /\ m_tickled' = m_tickled
      BY <1>3, <2>5, UserFrame
    <3> QED BY <2>1, <2>2, <3>1
  <2> QED BY <2>3, <2>4, <2>5
<1>4. ASSUME NEW w \in Waiters, WaiterStep(w) \/ Wake(w) \/ StoppingAsks(w) PROVE TickleInv'
  <2>1. CASE StoppingAsks(w) \/ getNextTimer(w)
    BY <2>1 DEF StoppingAsks, getNextTimer
  <2>2. CASE Wake(w) \/ ListLock(w) \/ Collect(w) \/ ListDone(w) \/ Drain(w)
    <3>1. pc'[w] # "asleep"
      BY <1>2, <2>2 DEF Wake, ListLock, Collect, ListDone, Drain
    <3> QED BY <3>1
  <2> QED BY <1>4, <2>1, <2>2 DEF WaiterStep
<1>5. CASE UNCHANGED vars
  BY <1>5 DEF vars
<1> QED BY <1>1, <1>3, <1>4, <1>5 DEF Next

LEMMA CoverStep ==
    IInv /\ ClockInv /\ TickleInv /\ CoverInv /\ [Next]_vars => CoverInv'
<1> SUFFICES ASSUME IInv, ClockInv, TickleInv, CoverInv, [Next]_vars, m_timers' # {}, ~disordered'
             PROVE  \/ wakeup'
                    \/ \E u \in Users : pc'[u] = "notify"
                    \/ \E w \in Waiters : pc'[w] # "asleep" \/ \A x \in m_timers' : limit'[w] <= m_next'[x]
  BY DEF CoverInv
<1> USE DEF IInv, clockVars, heapVars, localVars, histVars, Goto
<1> DEFINE Covered == \/ wakeup'
                      \/ \E u \in Users : pc'[u] = "notify"
                      \/ \E w \in Waiters : pc'[w] # "asleep" \/ \A x \in m_timers' : limit'[w] <= m_next'[x]
<1>1. /\ pc \in [Users \cup Waiters -> UserPC \cup WaiterPC] /\ limit \in [Waiters -> Nat]
      /\ m_timers \subseteq made /\ made \subseteq Timers /\ m_next \in [Timers -> Nat]
      /\ ~disordered
  BY TieStep DEF TypeInv
<1>2. CASE Clock \/ Undefined
  BY <1>1, <1>2 DEF Clock, Undefined, CoverInv
<1>3. ASSUME NEW u \in Users, User(u) PROVE Covered
  <2>1. (\A w \in Waiters : pc'[w] = pc[w]) /\ limit' = limit
    BY <1>3, UserFrame
  <2>2. \A v \in Users : v # u => pc'[v] = pc[v]
    BY <1>3, UserFrame
  <2>3. CASE onTimerInsertedAtFront(u)
    <3>1. wakeup' \in {TRUE, wakeup \/ \E w \in Waiters : pc[w] # "run"}
      BY <2>3 DEF onTimerInsertedAtFront
    <3>2. CASE \E w \in Waiters : pc[w] # "run"
      BY <3>1, <3>2
    <3>3. CASE \A w \in Waiters : pc[w] = "run"
      BY <2>1, <3>3, PoolAssumption
    <3> QED BY <3>2, <3>3
  <2>4. ASSUME wakeup' = wakeup, pc[u] # "notify", m_timers # {},
               \A n \in Nat : (\A x \in m_timers : n <= m_next[x]) => \A x \in m_timers' : n <= m_next'[x]
        PROVE  Covered
    BY <1>1, <2>1, <2>2, <2>4 DEF CoverInv
  <2>5. CASE Insert(u)
    <3> DEFINE t == job[u].timer
    <3>1. wakeup' = wakeup /\ pc[u] = "insert" /\ m_next' = m_next /\ m_timers' \subseteq m_timers \cup {t}
      BY <2>5, InsertedProperties DEF Insert
    <3>2. CASE AtFront(t) /\ ~m_tickled
      <4>1. pc'[u] = "notify"
        BY <1>1, <2>5, <3>2 DEF Insert
      <4> QED BY <4>1
    <3>3. CASE m_tickled
      BY <2>1, <2>2, <3>1, <3>3 DEF TickleInv
    <3>4. CASE ~AtFront(t)
      <4>1. t \in Timers
        BY <2>5, NoJobIsNoJob DEF Insert, JobInv
      <4>2. PICK x0 \in m_timers : ~(m_next[t] <= m_next[x0])
        BY <3>4 DEF AtFront
      <4>3. m_next[t] \in Nat /\ m_next[x0] \in Nat /\ m_next[x0] <= m_next[t]
        BY <1>1, <4>1, <4>2
      <4> HIDE DEF t
      <4>4. ASSUME NEW n \in Nat, \A x \in m_timers : n <= m_next[x], NEW x \in m_timers'
            PROVE  n <= m_next'[x]
        <5>1. n <= m_next[x0]
          BY <4>4
        <5>2. n <= m_next[t]
          BY <4>3, <5>1
        <5> QED BY <3>1, <4>4, <5>2
      <4> QED BY <2>4, <3>1, <4>2, <4>4
    <3> QED BY <3>2, <3>3, <3>4
  <2>6. CASE addTimer(u)
    <3> PICK t \in New, ms \in Durations : m_next' = [m_next EXCEPT ![t] = clock + ms]
      BY <2>6 DEF addTimer
    <3>1. t \notin m_timers
      BY <1>1, NewTimer
    <3>2. m_timers' = m_timers /\ wakeup' = wakeup /\ pc[u] # "notify"
      BY <2>6 DEF addTimer
    <3>3. \A x \in m_timers : m_next'[x] = m_next[x]
      BY <1>1, <3>1
    <3> QED BY <2>4, <3>2, <3>3
  <2>7. CASE cancel(u) \/ reset(u)
    <3>1. m_timers' \subseteq m_timers /\ m_next' = m_next /\ wakeup' = wakeup /\ pc[u] # "notify"
      BY <2>7 DEF cancel, reset
    <3>2. m_timers # {}
      BY <3>1
    <3> QED BY <2>4, <3>1, <3>2
  <2>8. CASE refresh(u)
    <3> PICK t \in Named :
          /\ Same(t) # {}
          /\ m_next' = [m_next EXCEPT ![t] = clock + m_ms[t]]
          /\ m_timers' = Inserted(m_timers \ Same(t), t, m_next'[t])
      BY <2>8 DEF refresh
    <3> PICK y \in Same(t) : TRUE
      OBVIOUS
    <3>1. wakeup' = wakeup /\ pc[u] # "notify"
      BY <2>8 DEF refresh
    <3>2. t \in made /\ t \in Timers /\ y \in m_timers /\ m_next[y] = m_next[t]
      BY NamedTimer DEF Same
    <3>3. m_next'[t] = clock + m_ms[t] /\ \A x \in Timers \ {t} : m_next'[x] = m_next[x]
      BY <1>1, <3>2
    <3>4. m_timers' \subseteq m_timers \cup {t}
      BY InsertedProperties
    <3>5. clock \in Nat /\ m_ms[t] \in Nat /\ m_next[t] \in Nat /\ m_next[t] <= clock + m_ms[t]
      BY <3>2, TimesNat DEF ClockInv
    <3>6. ASSUME NEW n \in Nat, \A x \in m_timers : n <= m_next[x], NEW x \in m_timers'
          PROVE  n <= m_next'[x]
      <4>1. CASE x = t
        <5>1. n <= m_next[t]
          BY <3>2, <3>6
        <5>2. n <= clock + m_ms[t]
          BY <3>5, <5>1
        <5> QED BY <3>3, <4>1, <5>2
      <4>2. CASE x # t
        BY <1>1, <3>3, <3>4, <3>6, <4>2
      <4> QED BY <4>1, <4>2
    <3> QED BY <2>4, <3>1, <3>2, <3>6
  <2>9. CASE ResetWrite(u)
    <3> DEFINE t == job[u].timer
    <3>1. t \in Timers
      BY <2>9, NoJobIsNoJob DEF ResetWrite, JobInv
    <3>2. t \notin m_timers
      BY <2>9 DEF ResetWrite
    <3>3. m_timers' = m_timers /\ wakeup' = wakeup /\ pc[u] # "notify"
      BY <2>9 DEF ResetWrite
    <3>4. \A x \in m_timers : m_next'[x] = m_next[x]
      BY <1>1, <2>9, <3>2 DEF ResetWrite
    <3> QED BY <2>4, <3>3, <3>4
  <2> QED BY <1>3, <2>3, <2>5, <2>6, <2>7, <2>8, <2>9 DEF User, UserStep
<1>4. ASSUME NEW w \in Waiters, WaiterStep(w) \/ Wake(w) \/ StoppingAsks(w) PROVE Covered
  <2>1. CASE StoppingAsks(w)
    BY <2>1 DEF StoppingAsks, CoverInv
  <2>2. CASE getNextTimer(w)
    <3>1. m_timers' = m_timers /\ m_next' = m_next
      BY <2>2 DEF getNextTimer
    <3>2. limit'[w] = m_next[Front]
      BY <1>1, <2>2, <3>1 DEF getNextTimer
    <3>3. \A x \in m_timers : m_next[Front] <= m_next[x]
      BY <3>1, FrontIsLeast
    <3> QED BY <3>1, <3>2, <3>3
  <2>3. CASE Wake(w) \/ ListLock(w) \/ Collect(w) \/ ListDone(w) \/ Drain(w)
    <3>1. pc'[w] # "asleep"
      BY <1>1, <2>3 DEF Wake, ListLock, Collect, ListDone, Drain
    <3> QED BY <3>1
  <2> QED BY <1>4, <2>1, <2>2, <2>3 DEF WaiterStep
<1>5. CASE UNCHANGED vars
  BY <1>5 DEF vars, CoverInv
<1> QED BY <1>2, <1>3, <1>4, <1>5 DEF Next

(* While the clock is not set back and the set is in order, the waiters    *)
(* never all sleep past the first deadline, deadlines tied or not: whoever *)
(* puts a timer in front of it sends a wake-up or relies on one that is on *)
(* its way, and refresh(), which sends none, only moves deadlines later.   *)
THEOREM WaitersWakeInTime ==
    ASSUME SetBacks = 0
    PROVE  Spec => []FrontIsCovered
<1>1. Init => ClockInv /\ TickleInv /\ CoverInv
  BY DEF Init, ClockInv, TickleInv, CoverInv
<1>2. IInv /\ ClockInv /\ TickleInv /\ CoverInv /\ [Next]_vars => ClockInv' /\ TickleInv' /\ CoverInv'
  BY ClockStep, TickleStep, CoverStep
<1>3. IInv /\ CoverInv => FrontIsCovered
  BY FrontIsLeast DEF IInv, CoverInv, FrontIsCovered
<1> QED BY <1>1, <1>2, <1>3, Inductive, PTL DEF Spec
=============================================================================
