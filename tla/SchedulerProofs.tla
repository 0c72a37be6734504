--------------------------- MODULE SchedulerProofs ---------------------------
(***************************************************************************)
(* Theorems about the scheduler for every number of workers, fibers and    *)
(* posts.                                                                  *)
(***************************************************************************)
EXTENDS Scheduler, SequenceTheorems, FiniteSetTheorems, WellFoundedInduction, TLAPS

-----------------------------------------------------------------------------
(***************************************************************************)
(* The pop from the queue.                                                 *)
(***************************************************************************)

(* Removing an element leaves a sequence over the same set, one shorter,   *)
(* whose elements were all there before.                                   *)
LEMMA RemoveAtProperties ==
    ASSUME NEW S, NEW s \in Seq(S), NEW i \in 1..Len(s)
    PROVE  /\ RemoveAt(s, i) \in Seq(S)
           /\ Len(RemoveAt(s, i)) = Len(s) - 1
           /\ \A j \in DOMAIN RemoveAt(s, i) : \E k \in DOMAIN s : RemoveAt(s, i)[j] = s[k]
<1> DEFINE left == SubSeq(s, 1, i-1)
           right == SubSeq(s, i+1, Len(s))
<1>1. Len(s) \in Nat /\ i \in Int /\ 1 <= i /\ i <= Len(s)
  BY LenProperties
<1>2. left \in Seq(S) /\ Len(left) = i - 1
      /\ \A j \in 1..(i-1) : left[j] = s[j]
  <2>1. \A j \in 1..(i-1) : s[j] \in S
    BY <1>1, ElementOfSeq
  <2>2. CASE i = 1
    BY <2>2, <1>1
  <2>3. QED BY <1>1, <2>1, SubSeqProperties
<1>3. right \in Seq(S) /\ Len(right) = Len(s) - i
      /\ \A j \in 1..(Len(s) - i) : right[j] = s[i + j]
  BY <1>1, SubSeqProperties
<1>4. RemoveAt(s, i) = left \o right
  BY DEF RemoveAt
<1> HIDE DEF left, right
<1>5. /\ left \o right \in Seq(S)
      /\ Len(left \o right) = Len(left) + Len(right)
      /\ \A j \in 1 .. Len(left) + Len(right) :
            (left \o right)[j] = IF j <= Len(left) THEN left[j] ELSE right[j - Len(left)]
  BY <1>2, <1>3, ConcatProperties
<1>6. Len(left) + Len(right) = Len(s) - 1
  BY <1>1, <1>2, <1>3
<1>7. \A j \in 1 .. Len(s) - 1 : \E k \in 1 .. Len(s) : (left \o right)[j] = s[k]
  <2> TAKE j \in 1 .. Len(s) - 1
  <2>1. CASE j <= i - 1
    <3>1. (left \o right)[j] = s[j] /\ j \in 1 .. Len(s)
      BY <2>1, <1>1, <1>2, <1>5, <1>6
    <3> QED BY <3>1
  <2>2. CASE ~(j <= i - 1)
    <3>1. (left \o right)[j] = right[j - (i - 1)]
      BY <2>2, <1>1, <1>2, <1>5, <1>6
    <3>2. j - (i - 1) \in 1 .. (Len(s) - i)
      BY <2>2, <1>1
    <3>3. right[j - (i - 1)] = s[j + 1] /\ j + 1 \in 1 .. Len(s)
      BY <3>2, <1>1, <1>3
    <3> QED BY <3>1, <3>3
  <2> QED BY <2>1, <2>2
<1>8. DOMAIN s = 1 .. Len(s) /\ DOMAIN (left \o right) = 1 .. Len(s) - 1
  BY <1>5, <1>6, LenProperties
<1> QED BY <1>4, <1>5, <1>6, <1>7, <1>8

(* A worker that finds a task it may run pops the first such task.         *)
LEMMA MinOfEligible ==
    ASSUME NEW S \in SUBSET Nat, S # {}
    PROVE  Min(S) \in S /\ \A y \in S : Min(S) <= y
<1>1. PICK x \in S : \A y \in S : ~(<<y, x>> \in OpToRel(<, Nat))
  BY NatLessThanWellFounded, WFMin
<1>2. \A y \in S : x <= y
  <2> TAKE y \in S
  <2>1. ~(y < x)
    BY <1>1 DEF OpToRel
  <2> QED BY <2>1
<1> QED BY <1>2 DEF Min

LEMMA EligibleIndex ==
    ASSUME NEW w \in Workers, m_tasks \in Seq(Task), Eligible(w) # {}
    PROVE  /\ Min(Eligible(w)) \in Eligible(w)
           /\ Min(Eligible(w)) \in 1..Len(m_tasks)
           /\ m_tasks[Min(Eligible(w))] \in Task
<1>1. DOMAIN m_tasks = 1..Len(m_tasks) /\ Len(m_tasks) \in Nat
  BY LenProperties
<1>2. Eligible(w) \in SUBSET Nat
  BY <1>1 DEF Eligible
<1>3. Min(Eligible(w)) \in Eligible(w)
  BY <1>2, MinOfEligible
<1>4. Eligible(w) \subseteq 1..Len(m_tasks)
  BY <1>1 DEF Eligible
<1> QED BY <1>3, <1>4, ElementOfSeq

(* A scheduled task is a Task.                                             *)
LEMMA ScheduledTask ==
    ASSUME NEW kind \in {"fiber", "cb"}, NEW f \in Fibers, NEW t \in PinTargets
    PROVE  [kind |-> kind, fiber |-> f, thread |-> t] \in Task
BY DEF PinTargets, Task, Workers

-----------------------------------------------------------------------------
(***************************************************************************)
(* Types.  That the counters never wrap is not a matter of types: here     *)
(* they are integers, CountersExact says the rest.                         *)
(***************************************************************************)
TypeInv ==
    /\ m_useCaller \in BOOLEAN
    /\ m_tasks \in Seq(Task)
    /\ m_state \in [Fibers -> FiberState]
    /\ m_mutex \in [Fibers -> Workers \cup {NoThread}]
    /\ pc \in [Workers -> WorkerPC]
    /\ task \in [Workers -> Task \cup {NoTask}]
    /\ idleTerm \in [Workers -> BOOLEAN]
    /\ m_activeThreadCount \in Int
    /\ m_idleThreadCount \in Int
    /\ m_stopping \in BOOLEAN
    /\ t_scheduler \subseteq Workers
    /\ ctl \in ControlPC
    /\ posts \in 0..MaxPosts

(* A worker has a task exactly while it is in the branches that need one.  *)
TaskInv ==
    \A w \in Workers :
        task[w] \in Task <=>
            pc[w] \in {"lock", "locked", "body", "switch", "unlock", "count"}

(* The holder of a task that is locked owns the fiber's mutex.             *)
LockInv == \A w \in Workers : Holds(w) => m_mutex[task[w].fiber] = w

(* A RUNNING fiber is in some worker's hands, and every fiber that is      *)
(* queued, taken or locked has been constructed; only the fiber of a       *)
(* callback that is still to be run has not.                               *)
Constructed(f) == m_state[f] \notin {"NONE", "CB"}

RunningInv ==
    \A f \in Fibers : m_state[f] = "RUNNING" =>
        \E w \in Workers : pc[w] = "body" /\ task[w].fiber = f

ConstructedInv ==
    /\ \A i \in DOMAIN m_tasks : m_tasks[i].kind = "fiber" => Constructed(m_tasks[i].fiber)
    /\ \A w \in Workers :
          task[w] \in Task /\ (task[w].kind = "fiber" \/ Holds(w)) => Constructed(task[w].fiber)

(* Where start() and stop() are, and what that says of the workers.        *)
ControlInv ==
    /\ m_stopping <=> ctl \in {"inRoot", "joining", "stopped", "assertFailed"}
    /\ ctl = "created" => \A w \in Workers : pc[w] = "off"
    /\ ctl \in {"created", "up", "checked"} \/ ~m_useCaller => pc[Main] = "off"
    /\ ~m_useCaller => Spawned # {}
    /\ ~m_useCaller /\ ctl # "created" => \A w \in Spawned : pc[w] # "off"
    /\ m_useCaller /\ ctl \in {"joining", "stopped"} => pc[Main] = "exited"
    /\ ctl = "stopped" => \A w \in Spawned : pc[w] \in {"off", "exited"}

(* Whoever saw stopping() saw it for good.                                 *)
StopInv ==
    /\ \A w \in Workers : pc[w] = "exited" => idleTerm[w]
    /\ (\E w \in Workers : idleTerm[w]) \/ ctl = "stopped" => stopping

IInv ==
    /\ TypeInv /\ TaskInv
    /\ LockInv /\ RunningInv /\ ConstructedInv
    /\ CountersExact
    /\ ControlInv /\ StopInv

LEMMA NoTaskIsNoTask == NoTask \notin Task
BY FiberAssumption DEF NoTask, Task

(* One call of scheduleLock() keeps the types.                             *)
LEMMA scheduleLockType ==
    ASSUME TypeInv, NEW kind \in {"fiber", "cb"}, NEW f \in Fibers, NEW t \in PinTargets,
           scheduleLock(kind, f, t)
    PROVE  m_tasks' \in Seq(Task) /\ m_state' \in [Fibers -> FiberState] /\ posts' \in 0..MaxPosts
<1>1. m_tasks' \in Seq(Task)
  BY ScheduledTask, AppendProperties DEF scheduleLock, TypeInv
<1>2. m_state' \in [Fibers -> FiberState]
  <2>1. CASE kind = "cb"
    BY <2>1 DEF scheduleLock, TypeInv, FiberState
  <2>2. CASE kind # "cb"
    BY <2>2 DEF scheduleLock, TypeInv, FiberState
  <2> QED BY <2>1, <2>2
<1>3. posts' \in 0..MaxPosts
  BY BoundAssumption DEF scheduleLock, TypeInv
<1> QED BY <1>1, <1>2, <1>3

LEMMA TypeStep == TypeInv /\ [Next]_vars => TypeInv'
<1> SUFFICES ASSUME TypeInv, [Next]_vars PROVE TypeInv'
  OBVIOUS
<1> USE DEF queueVars, fiberVars, counterVars, controlVars, Goto, NextRound
<1>1. CASE Post
  <2> PICK kind \in {"fiber", "cb"}, f \in Fibers, t \in PinTargets : scheduleLock(kind, f, t)
    BY <1>1 DEF Post
  <2> QED BY <1>1, scheduleLockType DEF Post, TypeInv
<1>2. CASE start
  BY <1>2 DEF start, TypeInv, WorkerPC, ControlPC, Workers
<1>3. CASE stop
  <2>1. CASE StopSet
    BY <2>1 DEF StopSet, TypeInv, WorkerPC, ControlPC
  <2> QED BY <1>3, <2>1 DEF stop, StopCheck, RootDone, Join, TypeInv, WorkerPC, ControlPC
<1>4. ASSUME NEW w \in Workers, run(w) PROVE TypeInv'
  <2>1. CASE Pop(w)
    <3>1. m_tasks' \in Seq(Task) /\ task' \in [Workers -> Task \cup {NoTask}]
      BY <2>1, EligibleIndex, RemoveAtProperties DEF Pop, TypeInv
    <3> QED BY <2>1, <3>1 DEF Pop, TypeInv, WorkerPC
  <2>2. CASE FindNothing(w) \/ LeaveRun(w) \/ EnterIdle(w) \/ LeaveIdle(w)
    BY <2>2 DEF FindNothing, LeaveRun, EnterIdle, LeaveIdle, TypeInv, WorkerPC
  <2>3. CASE LockFiber(w)
    BY <2>3 DEF LockFiber, TypeInv, WorkerPC, FiberState
  <2>4. CASE resume(w)
    BY <2>4 DEF resume, AfterRun, TypeInv, WorkerPC, FiberState
  <2>5. CASE SwapOut(w)
    BY <2>5 DEF SwapOut, AfterRun, TypeInv, WorkerPC
  <2>6. CASE UnlockFiber(w) \/ CountOff(w)
    BY <2>6 DEF UnlockFiber, CountOff, TypeInv, WorkerPC
  <2>7. CASE idle(w)
    <3>1. stopping \in BOOLEAN
      BY DEF stopping, TypeInv
    <3>2. pc' = [pc EXCEPT ![w] = "idleDone"] /\ idleTerm' = [idleTerm EXCEPT ![w] = stopping]
      BY <2>7 DEF idle
    <3>3. pc' \in [Workers -> WorkerPC] /\ idleTerm' \in [Workers -> BOOLEAN]
      BY <3>1, <3>2 DEF TypeInv, WorkerPC
    <3> QED BY <2>7, <3>3 DEF idle, TypeInv
  <2>8. CASE BodyPost(w)
    <3> PICK kind \in {"fiber", "cb"}, f \in Fibers, t \in PinTargets : scheduleLock(kind, f, t)
      BY <2>8 DEF BodyPost
    <3> QED BY <2>8, scheduleLockType DEF BodyPost, TypeInv
  <2>9. CASE yield(w) \/ MainFunc(w)
    BY <2>9 DEF yield, MainFunc, TypeInv, WorkerPC, FiberState
  <2> QED
    BY <1>4, <2>1, <2>2, <2>3, <2>4, <2>5, <2>6, <2>7, <2>8, <2>9 DEF run, RunStep
<1>5. CASE UNCHANGED vars
  BY <1>5 DEF vars, TypeInv
<1> QED BY <1>1, <1>2, <1>3, <1>4, <1>5 DEF Next

-----------------------------------------------------------------------------
(***************************************************************************)
(* Control: start(), stop() and the entry and exit of the workers.         *)
(***************************************************************************)

(* What a step of a worker leaves alone.                                   *)
LEMMA RunFrame ==
    ASSUME TypeInv, NEW w \in Workers, run(w)
    PROVE  /\ pc[w] \notin {"off", "exited"} /\ pc'[w] # "off"
           /\ \A v \in Workers \ {w} :
                 pc'[v] = pc[v] /\ task'[v] = task[v] /\ idleTerm'[v] = idleTerm[v]
           /\ UNCHANGED controlVars
           /\ pc'[w] = "exited" => idleTerm'[w]
           /\ idleTerm'[w] => idleTerm[w] \/ stopping
<1> USE DEF queueVars, fiberVars, counterVars, controlVars, Goto, NextRound, TypeInv
<1>1. CASE Pop(w) \/ FindNothing(w) \/ LockFiber(w)
  BY <1>1 DEF Pop, FindNothing, LockFiber
<1>2. CASE resume(w) \/ SwapOut(w) \/ BodyPost(w) \/ yield(w) \/ MainFunc(w)
  BY <1>2 DEF resume, AfterRun, SwapOut, BodyPost, yield, MainFunc
<1>3. CASE UnlockFiber(w) \/ CountOff(w)
  BY <1>3 DEF UnlockFiber, CountOff
<1>4. CASE LeaveRun(w) \/ EnterIdle(w) \/ idle(w) \/ LeaveIdle(w)
  BY <1>4 DEF LeaveRun, EnterIdle, idle, LeaveIdle
<1> QED BY <1>1, <1>2, <1>3, <1>4 DEF run, RunStep

LEMMA ControlStep == IInv /\ [Next]_vars => ControlInv'
<1> SUFFICES ASSUME IInv, [Next]_vars PROVE ControlInv'
  OBVIOUS
<1> USE ThreadAssumption DEF queueVars, fiberVars, counterVars, controlVars, ControlInv, Workers
<1>1. CASE Post
  BY <1>1 DEF Post, IInv
<1>2. CASE start
  BY <1>2 DEF start, IInv, TypeInv
<1>3. CASE StopCheck
  BY <1>3 DEF StopCheck, stopping, IInv, StopInv
<1>4. CASE StopSet
  BY <1>4 DEF StopSet, IInv, TypeInv
<1>5. CASE RootDone
  BY <1>5 DEF RootDone, IInv
<1>6. CASE Join
  BY <1>6 DEF Join, IInv
<1>7. ASSUME NEW w \in Workers, run(w) PROVE ControlInv'
  BY <1>7, RunFrame DEF IInv
<1>8. CASE UNCHANGED vars
  BY <1>8 DEF vars, IInv
<1> QED BY <1>1, <1>2, <1>3, <1>4, <1>5, <1>6, <1>7, <1>8 DEF Next, stop

-----------------------------------------------------------------------------
(***************************************************************************)
(* Tasks and the fibers' mutexes.                                          *)
(***************************************************************************)

(* start(), stop() and posts from outside do not touch the workers' tasks  *)
(* and move a worker only from "off" to the head of its loop.              *)
LEMMA ControlFrame ==
    ASSUME IInv, Post \/ start \/ stop
    PROVE  /\ task' = task /\ m_mutex' = m_mutex /\ idleTerm' = idleTerm
           /\ UNCHANGED counterVars
           /\ \A w \in Workers : pc'[w] = pc[w] \/ (pc[w] = "off" /\ pc'[w] = "scan")
<1> USE DEF queueVars, fiberVars, counterVars, controlVars
<1>1. CASE Post
  BY <1>1 DEF Post
<1>2. CASE start
  BY <1>2 DEF start, IInv, ControlInv
<1>3. CASE stop
  <2>1. CASE StopSet
    BY <2>1 DEF StopSet, IInv, TypeInv, ControlInv
  <2> QED BY <1>3, <2>1 DEF stop, StopCheck, RootDone, Join
<1> QED BY <1>1, <1>2, <1>3

LEMMA TaskStep == IInv /\ [Next]_vars => TaskInv'
<1> SUFFICES ASSUME IInv, [Next]_vars PROVE TaskInv'
  OBVIOUS
<1> USE NoTaskIsNoTask DEF queueVars, fiberVars, counterVars, controlVars, Goto, NextRound,
        TaskInv, TypeInv, IInv
<1>1. CASE Post \/ start \/ stop
  BY <1>1, ControlFrame
<1>2. ASSUME NEW w \in Workers, run(w) PROVE TaskInv'
  <2>1. CASE Pop(w)
    <3>1. task'[w] \in Task
      BY <2>1, EligibleIndex DEF Pop
    <3> QED BY <2>1, <3>1 DEF Pop
  <2>2. CASE FindNothing(w) \/ LockFiber(w) \/ SwapOut(w)
    BY <2>2 DEF FindNothing, LockFiber, SwapOut, AfterRun
  <2>3. CASE resume(w) \/ yield(w) \/ MainFunc(w) \/ BodyPost(w)
    BY <2>3 DEF resume, AfterRun, yield, MainFunc, BodyPost
  <2>4. CASE UnlockFiber(w) \/ CountOff(w)
    BY <2>4 DEF UnlockFiber, CountOff
  <2>5. CASE LeaveRun(w) \/ EnterIdle(w) \/ idle(w) \/ LeaveIdle(w)
    BY <2>5 DEF LeaveRun, EnterIdle, idle, LeaveIdle
  <2> QED BY <1>2, <2>1, <2>2, <2>3, <2>4, <2>5 DEF run, RunStep
<1>3. CASE UNCHANGED vars
  BY <1>3 DEF vars
<1> QED BY <1>1, <1>2, <1>3 DEF Next

(* The task of a worker that has one names a fiber.                        *)
LEMMA HeldFiber ==
    ASSUME TaskInv, NEW w \in Workers,
           pc[w] \in {"lock", "locked", "body", "switch", "unlock", "count"}
    PROVE  task[w] \in Task /\ task[w].fiber \in Fibers /\ task[w].kind \in {"fiber", "cb"}
BY DEF TaskInv, Task

LEMMA LockStep == IInv /\ [Next]_vars => LockInv'
<1> SUFFICES ASSUME IInv, [Next]_vars PROVE LockInv'
  OBVIOUS
<1> USE DEF queueVars, fiberVars, counterVars, controlVars, Goto, NextRound,
        LockInv, TypeInv, IInv, Holds
<1>1. CASE Post \/ start \/ stop
  BY <1>1, ControlFrame
<1>2. ASSUME NEW w \in Workers, run(w) PROVE LockInv'
  <2>1. CASE Pop(w) \/ FindNothing(w)
    BY <2>1 DEF Pop, FindNothing
  <2>2. CASE LockFiber(w)
    <3>1. NoThread \notin Workers
      BY ThreadAssumption DEF Workers
    <3>2. task[w].fiber \in Fibers
      BY <2>2, HeldFiber DEF LockFiber
    <3>3. ASSUME NEW v \in Workers, Holds(v)' PROVE m_mutex'[task'[v].fiber] = v
      <4>1. CASE v = w
        BY <2>2, <3>2, <4>1 DEF LockFiber
      <4>2. CASE v # w
        <5>1. Holds(v) /\ task'[v] = task[v]
          BY <2>2, <3>3, <4>2 DEF LockFiber
        <5>2. m_mutex[task[v].fiber] = v
          BY <5>1
        <5>3. task[v].fiber # task[w].fiber
          BY <2>2, <3>1, <5>2 DEF LockFiber
        <5> QED BY <2>2, <5>1, <5>2, <5>3 DEF LockFiber
      <4> QED BY <4>1, <4>2
    <3> QED BY <3>3
  <2>3. CASE resume(w) \/ SwapOut(w) \/ yield(w) \/ MainFunc(w) \/ BodyPost(w)
    BY <2>3 DEF resume, AfterRun, SwapOut, yield, MainFunc, BodyPost
  <2>4. CASE UnlockFiber(w)
    <3>1. Holds(w) /\ task[w].kind \in {"fiber", "cb"} /\ task[w].fiber \in Fibers
      BY <2>4, HeldFiber DEF UnlockFiber
    <3>2. ~Holds(w)'
      BY <2>4, <3>1 DEF UnlockFiber, NoTask
    <3>3. ASSUME NEW v \in Workers, v # w, Holds(v)' PROVE m_mutex'[task'[v].fiber] = v
      <4>1. Holds(v) /\ task'[v] = task[v]
        BY <2>4, <3>3 DEF UnlockFiber
      <4>2. m_mutex[task[v].fiber] = v /\ m_mutex[task[w].fiber] = w
        BY <4>1, <3>1
      <4> QED BY <2>4, <3>3, <4>1, <4>2 DEF UnlockFiber
    <3> QED BY <3>2, <3>3
  <2>5. CASE CountOff(w)
    BY <2>5 DEF CountOff, NoTask
  <2>6. CASE LeaveRun(w) \/ EnterIdle(w) \/ idle(w) \/ LeaveIdle(w)
    BY <2>6 DEF LeaveRun, EnterIdle, idle, LeaveIdle
  <2> QED BY <1>2, <2>1, <2>2, <2>3, <2>4, <2>5, <2>6 DEF run, RunStep
<1>3. CASE UNCHANGED vars
  BY <1>3 DEF vars
<1> QED BY <1>1, <1>2, <1>3 DEF Next

(* The stack of a fiber is used by one worker at a time.                   *)
LEMMA OneHolder ==
    ASSUME LockInv, NEW v \in Workers, NEW w \in Workers,
           Holds(v), Holds(w), task[v].fiber = task[w].fiber
    PROVE  v = w
BY DEF LockInv

LEMMA scheduleLockState ==
    ASSUME TypeInv, NEW kind \in {"fiber", "cb"}, NEW f \in Fibers, NEW t \in PinTargets,
           scheduleLock(kind, f, t)
    PROVE  /\ \A g \in Fibers : Constructed(g) => m_state'[g] = m_state[g]
           /\ \A g \in Fibers : m_state'[g] = "RUNNING" => m_state[g] = "RUNNING"
           /\ kind = "fiber" => Constructed(f)'
BY DEF scheduleLock, TypeInv, Constructed, FiberState

LEMMA RunningStep == IInv /\ [Next]_vars => RunningInv'
<1> SUFFICES ASSUME IInv, [Next]_vars PROVE RunningInv'
  OBVIOUS
<1> USE DEF queueVars, fiberVars, counterVars, controlVars, Goto, NextRound,
        RunningInv, TypeInv, IInv
<1>1. CASE Post
  <2> PICK kind \in {"fiber", "cb"}, f \in Fibers, t \in PinTargets : scheduleLock(kind, f, t)
    BY <1>1 DEF Post
  <2> QED BY <1>1, scheduleLockState DEF Post
<1>2. CASE start \/ stop
  <2>1. m_state' = m_state
    BY <1>2 DEF start, stop, StopCheck, StopSet, RootDone, Join
  <2> QED BY <1>2, <2>1, ControlFrame
<1>3. ASSUME NEW w \in Workers, run(w) PROVE RunningInv'
  <2>1. CASE Pop(w) \/ FindNothing(w) \/ SwapOut(w)
    BY <2>1 DEF Pop, FindNothing, SwapOut
  <2>2. CASE LockFiber(w)
    BY <2>2 DEF LockFiber
  <2>3. CASE resume(w)
    BY <2>3 DEF resume
  <2>4. CASE BodyPost(w)
    <3> PICK kind \in {"fiber", "cb"}, f \in Fibers, t \in PinTargets : scheduleLock(kind, f, t)
      BY <2>4 DEF BodyPost
    <3> QED BY <2>4, scheduleLockState DEF BodyPost
  <2>5. CASE yield(w) \/ MainFunc(w)
    <3> SUFFICES ASSUME NEW f \in Fibers, m_state'[f] = "RUNNING"
                 PROVE  \E v \in Workers : pc'[v] = "body" /\ task'[v].fiber = f
      OBVIOUS
    <3>1. m_state[f] = "RUNNING" /\ f # task[w].fiber
      BY <2>5, HeldFiber DEF yield, MainFunc
    <3>2. PICK v \in Workers : pc[v] = "body" /\ task[v].fiber = f
      BY <3>1
    <3>3. pc'[v] = "body" /\ task'[v].fiber = f
      BY <2>5, <3>1, <3>2 DEF yield, MainFunc
    <3> QED BY <3>3
  <2>6. CASE UnlockFiber(w) \/ CountOff(w)
    BY <2>6 DEF UnlockFiber, CountOff
  <2>7. CASE LeaveRun(w) \/ EnterIdle(w) \/ idle(w) \/ LeaveIdle(w)
    BY <2>7 DEF LeaveRun, EnterIdle, idle, LeaveIdle
  <2> QED BY <1>3, <2>1, <2>2, <2>3, <2>4, <2>5, <2>6, <2>7 DEF run, RunStep
<1>4. CASE UNCHANGED vars
  BY <1>4 DEF vars
<1> QED BY <1>1, <1>2, <1>3, <1>4 DEF Next

(* scheduleLock() keeps both halves of ConstructedInv when the workers     *)
(* stay where they are.                                                    *)
LEMMA ConstructedPost ==
    ASSUME IInv, UNCHANGED <<pc, task>>,
           NEW kind \in {"fiber", "cb"}, NEW f \in Fibers, NEW t \in PinTargets,
           scheduleLock(kind, f, t)
    PROVE  ConstructedInv'
<1> DEFINE new == [kind |-> kind, fiber |-> f, thread |-> t]
<1>1. new \in Task /\ m_tasks \in Seq(Task) /\ m_tasks' = Append(m_tasks, new)
  BY ScheduledTask DEF IInv, TypeInv, scheduleLock
<1>2. /\ m_tasks' \in Seq(Task)
      /\ Len(m_tasks') = Len(m_tasks) + 1
      /\ \A i \in 1 .. Len(m_tasks) : m_tasks'[i] = m_tasks[i]
      /\ m_tasks'[Len(m_tasks) + 1] = new
  BY <1>1, AppendProperties
<1>3. /\ Len(m_tasks) \in Nat
      /\ DOMAIN m_tasks = 1 .. Len(m_tasks) /\ DOMAIN m_tasks' = 1 .. Len(m_tasks) + 1
  BY <1>1, <1>2, LenProperties
<1>4. ASSUME NEW g \in Fibers, Constructed(g) PROVE Constructed(g)'
  BY <1>4, scheduleLockState DEF IInv, Constructed
<1>5. ASSUME NEW i \in DOMAIN m_tasks', m_tasks'[i].kind = "fiber"
      PROVE  Constructed(m_tasks[i].fiber)'
  <2>1. CASE i = Len(m_tasks) + 1
    BY <1>2, <1>5, <2>1, scheduleLockState DEF IInv, Constructed
  <2>2. CASE i \in 1 .. Len(m_tasks)
    <3>1. m_tasks'[i] = m_tasks[i] /\ m_tasks[i] \in Task
      BY <1>1, <1>2, <2>2, ElementOfSeq
    <3>2. m_tasks[i].fiber \in Fibers /\ Constructed(m_tasks[i].fiber)
      BY <1>3, <1>5, <2>2, <3>1 DEF IInv, ConstructedInv, Task
    <3>3. m_state'[m_tasks[i].fiber] = m_state[m_tasks[i].fiber]
      BY <3>2, scheduleLockState DEF IInv
    <3> QED BY <3>1, <3>2, <3>3 DEF Constructed
  <2> QED BY <1>3, <1>5, <2>1, <2>2
<1>6. ASSUME NEW w \in Workers, task'[w] \in Task, task'[w].kind = "fiber" \/ Holds(w)'
      PROVE  Constructed(task[w].fiber)'
  <2>1. task[w].fiber \in Fibers /\ Constructed(task[w].fiber)
    BY <1>6 DEF IInv, ConstructedInv, Task, Holds
  <2>2. m_state'[task[w].fiber] = m_state[task[w].fiber]
    BY <2>1, scheduleLockState DEF IInv
  <2> QED BY <2>1, <2>2 DEF Constructed
<1> QED BY <1>5, <1>6 DEF ConstructedInv

(* A step of worker w that un-constructs no fiber keeps ConstructedInv if  *)
(* it holds for w's own task afterwards.                                   *)
LEMMA ConstructedKept ==
    ASSUME IInv, m_tasks' = m_tasks, NEW w \in Workers,
           \A f \in Fibers : Constructed(f) => Constructed(f)',
           \A v \in Workers \ {w} : task'[v] = task[v] /\ pc'[v] = pc[v],
           (task[w] \in Task /\ (task[w].kind = "fiber" \/ Holds(w)) => Constructed(task[w].fiber))'
    PROVE  ConstructedInv'
<1>1. ASSUME NEW i \in DOMAIN m_tasks, m_tasks[i].kind = "fiber"
      PROVE  Constructed(m_tasks[i].fiber)'
  <2>1. m_tasks \in Seq(Task) /\ i \in 1 .. Len(m_tasks)
    BY LenProperties DEF IInv, TypeInv
  <2>2. m_tasks[i] \in Task
    BY <2>1, ElementOfSeq
  <2>3. m_tasks[i].fiber \in Fibers
    BY <2>2 DEF Task
  <2> QED BY <1>1, <2>3 DEF IInv, ConstructedInv, Constructed
<1>2. ASSUME NEW v \in Workers \ {w}, task[v] \in Task, task[v].kind = "fiber" \/ Holds(v)
      PROVE  Constructed(task[v].fiber)'
  <2>1. task[v].fiber \in Fibers
    BY <1>2 DEF Task
  <2> QED BY <1>2, <2>1 DEF IInv, ConstructedInv, Constructed
<1> QED BY <1>1, <1>2 DEF ConstructedInv, Constructed, Holds

LEMMA ConstructedStep == IInv /\ [Next]_vars => ConstructedInv'
<1> SUFFICES ASSUME IInv, [Next]_vars PROVE ConstructedInv'
  OBVIOUS
<1> USE NoTaskIsNoTask DEF queueVars, fiberVars, counterVars, controlVars, Goto, NextRound, IInv
<1>1. CASE Post
  BY <1>1, ConstructedPost DEF Post
<1>2. CASE start \/ stop
  <2>1. UNCHANGED <<m_state, m_tasks>>
    BY <1>2 DEF start, stop, StopCheck, StopSet, RootDone, Join
  <2> QED BY <1>2, <2>1, ControlFrame DEF ConstructedInv, Constructed, Holds
<1>3. ASSUME NEW w \in Workers, run(w) PROVE ConstructedInv'
  <2>1. CASE Pop(w)
    <3> DEFINE i == Min(Eligible(w))
    <3>1. i \in 1 .. Len(m_tasks) /\ m_tasks[i] \in Task
      BY <2>1, EligibleIndex DEF Pop, TypeInv
    <3>2. /\ m_tasks' = RemoveAt(m_tasks, i) /\ task' = [task EXCEPT ![w] = m_tasks[i]]
          /\ m_state' = m_state /\ pc' = [pc EXCEPT ![w] = "lock"]
      BY <2>1 DEF Pop
    <3> HIDE DEF i
    <3>3. \A j \in DOMAIN m_tasks' : \E k \in DOMAIN m_tasks : m_tasks'[j] = m_tasks[k]
      BY <3>1, <3>2, RemoveAtProperties DEF TypeInv
    <3>4. \A j \in DOMAIN m_tasks' : m_tasks'[j].kind = "fiber" => Constructed(m_tasks[j].fiber)'
      BY <3>2, <3>3 DEF ConstructedInv, Constructed
    <3>5. i \in DOMAIN m_tasks
      BY <3>1, LenProperties DEF TypeInv
    <3>6. \A v \in Workers : task'[v] \in Task /\ (task'[v].kind = "fiber" \/ Holds(v)')
                                => Constructed(task[v].fiber)'
      <4> TAKE v \in Workers
      <4>1. CASE v = w
        BY <3>2, <3>5, <4>1 DEF ConstructedInv, Constructed, Holds, TypeInv
      <4>2. CASE v # w
        BY <3>2, <4>2 DEF ConstructedInv, Constructed, Holds, TypeInv
      <4> QED BY <4>1, <4>2
    <3> QED BY <3>4, <3>6 DEF ConstructedInv
  <2>2. CASE LockFiber(w)
    <3>1. task[w].fiber \in Fibers /\ task[w].kind \in {"fiber", "cb"} /\ task[w] \in Task
      BY <2>2, HeldFiber DEF LockFiber
    <3>2. \A f \in Fibers : Constructed(f) => Constructed(f)'
      BY <2>2, <3>1 DEF LockFiber, Constructed, TypeInv
    <3>3. Constructed(task[w].fiber)'
      BY <2>2, <3>1 DEF LockFiber, ConstructedInv, Constructed, TypeInv
    <3> QED BY <2>2, <3>2, <3>3, ConstructedKept DEF LockFiber, TypeInv
  <2>3. CASE resume(w) \/ yield(w) \/ MainFunc(w)
    <3>1. task[w].fiber \in Fibers /\ task[w] \in Task /\ Holds(w)
      BY <2>3, HeldFiber DEF resume, yield, MainFunc, Holds
    <3>2. Constructed(task[w].fiber)
      BY <3>1 DEF ConstructedInv
    <3>3. \A f \in Fibers : Constructed(f) => Constructed(f)'
      BY <2>3, <3>1 DEF resume, yield, MainFunc, Constructed, TypeInv
    <3>4. UNCHANGED <<m_tasks, task>> /\ \A v \in Workers \ {w} : pc'[v] = pc[v]
      BY <2>3 DEF resume, AfterRun, yield, MainFunc, TypeInv
    <3>5. Constructed(task[w].fiber)'
      BY <3>1, <3>2, <3>3, <3>4 DEF Constructed
    <3> QED BY <3>3, <3>4, <3>5, ConstructedKept
  <2>4. CASE BodyPost(w)
    BY <2>4, ConstructedPost DEF BodyPost
  <2>5. CASE SwapOut(w) \/ UnlockFiber(w) \/ CountOff(w)
    <3>1. task[w].fiber \in Fibers /\ task[w] \in Task /\ Constructed(task[w].fiber)
      <4>1. task[w].fiber \in Fibers /\ task[w] \in Task
            /\ (task[w].kind = "fiber" \/ Holds(w))
        BY <2>5, HeldFiber DEF SwapOut, UnlockFiber, CountOff, Holds
      <4> QED BY <4>1 DEF ConstructedInv
    <3>2. UNCHANGED <<m_tasks, m_state>>
      BY <2>5 DEF SwapOut, UnlockFiber, CountOff
    <3>3. \A v \in Workers \ {w} : task'[v] = task[v] /\ pc'[v] = pc[v]
      BY <1>3, RunFrame
    <3>4. task'[w] \in {task[w], NoTask}
      BY <2>5 DEF SwapOut, UnlockFiber, CountOff, TypeInv
    <3> QED BY <3>1, <3>2, <3>3, <3>4, ConstructedKept DEF Constructed
  <2>6. CASE FindNothing(w) \/ LeaveRun(w) \/ EnterIdle(w) \/ idle(w) \/ LeaveIdle(w)
    <3>1. task[w] \notin Task
      BY <2>6 DEF FindNothing, LeaveRun, EnterIdle, idle, LeaveIdle, TaskInv
    <3>2. UNCHANGED <<m_tasks, m_state, task>>
      BY <2>6 DEF FindNothing, LeaveRun, EnterIdle, idle, LeaveIdle
    <3>3. \A v \in Workers \ {w} : pc'[v] = pc[v]
      BY <1>3, RunFrame
    <3> QED BY <3>1, <3>2, <3>3, ConstructedKept DEF Constructed
  <2> QED BY <1>3, <2>1, <2>2, <2>3, <2>4, <2>5, <2>6 DEF run, RunStep
<1>4. CASE UNCHANGED vars
  BY <1>4 DEF vars, ConstructedInv, Constructed, Holds
<1> QED BY <1>1, <1>2, <1>3, <1>4 DEF Next

-----------------------------------------------------------------------------
(***************************************************************************)
(* The two counters.                                                       *)
(***************************************************************************)
ActiveSet == {w \in Workers : Active(w)}
IdleSet   == {w \in Workers : pc[w] \in {"idle", "idleDone"}}

LEMMA WorkersFinite ==
    /\ IsFiniteSet(Workers)
    /\ \A S \in SUBSET Workers : IsFiniteSet(S) /\ Cardinality(S) \in Nat
<1>1. IsFiniteSet(Workers)
  BY ThreadAssumption, FS_AddElement DEF Workers
<1> QED BY <1>1, FS_Subset, FS_CardinalityType

(* The counters of a step that moves one worker into or out of a set.      *)
LEMMA CountOne ==
    ASSUME NEW S \in SUBSET Workers, NEW w \in Workers
    PROVE  /\ w \notin S => Cardinality(S \cup {w}) = Cardinality(S) + 1
           /\ w \in S => Cardinality(S \ {w}) = Cardinality(S) - 1
BY WorkersFinite, FS_AddElement, FS_RemoveElement

LEMMA CountStep == IInv /\ [Next]_vars => CountersExact'
<1> SUFFICES ASSUME IInv, [Next]_vars PROVE CountersExact'
  OBVIOUS
<1> USE DEF queueVars, fiberVars, counterVars, controlVars, Goto, NextRound, IInv, TypeInv
<1>1. /\ m_activeThreadCount = Cardinality(ActiveSet)
      /\ m_idleThreadCount = Cardinality(IdleSet)
      /\ ActiveSet \in SUBSET Workers /\ IdleSet \in SUBSET Workers
  BY DEF CountersExact, ActiveSet, IdleSet
<1>2. SUFFICES /\ m_activeThreadCount' = Cardinality(ActiveSet')
               /\ m_idleThreadCount' = Cardinality(IdleSet')
  BY DEF CountersExact, ActiveSet, IdleSet
<1>3. CASE Post \/ start \/ stop
  <2>1. ActiveSet' = ActiveSet /\ IdleSet' = IdleSet
    BY <1>3, ControlFrame DEF ActiveSet, IdleSet, Active
  <2> QED BY <1>1, <1>3, <2>1, ControlFrame
<1>4. ASSUME NEW w \in Workers, run(w)
      PROVE  /\ m_activeThreadCount' = Cardinality(ActiveSet')
             /\ m_idleThreadCount' = Cardinality(IdleSet')
  <2>1. CASE Pop(w)
    <3>1. w \notin ActiveSet /\ ActiveSet' = ActiveSet \cup {w} /\ IdleSet' = IdleSet
      BY <2>1 DEF Pop, ActiveSet, IdleSet, Active
    <3> QED BY <1>1, <2>1, <3>1, CountOne DEF Pop
  <2>2. CASE CountOff(w)
    <3>1. task[w].kind \in {"fiber", "cb"}
      BY <2>2, HeldFiber DEF CountOff
    <3>2. w \in ActiveSet /\ ActiveSet' = ActiveSet \ {w} /\ IdleSet' = IdleSet
      BY <2>2, <3>1 DEF CountOff, ActiveSet, IdleSet, Active
    <3> QED BY <1>1, <2>2, <3>2, CountOne DEF CountOff
  <2>3. CASE EnterIdle(w)
    <3>1. w \notin IdleSet /\ IdleSet' = IdleSet \cup {w} /\ ActiveSet' = ActiveSet
      BY <2>3 DEF EnterIdle, ActiveSet, IdleSet, Active
    <3> QED BY <1>1, <2>3, <3>1, CountOne DEF EnterIdle
  <2>4. CASE LeaveIdle(w)
    <3>1. w \in IdleSet /\ IdleSet' = IdleSet \ {w} /\ ActiveSet' = ActiveSet
      BY <2>4 DEF LeaveIdle, ActiveSet, IdleSet, Active
    <3> QED BY <1>1, <2>4, <3>1, CountOne DEF LeaveIdle
  <2>5. CASE FindNothing(w) \/ LeaveRun(w) \/ idle(w) \/ BodyPost(w)
    <3>1. UNCHANGED counterVars /\ ActiveSet' = ActiveSet /\ IdleSet' = IdleSet
      BY <2>5 DEF FindNothing, LeaveRun, idle, BodyPost, ActiveSet, IdleSet, Active
    <3> QED BY <1>1, <3>1
  <2>6. CASE LockFiber(w) \/ yield(w) \/ MainFunc(w)
    <3>1. UNCHANGED counterVars /\ ActiveSet' = ActiveSet /\ IdleSet' = IdleSet
      BY <2>6 DEF LockFiber, yield, MainFunc, ActiveSet, IdleSet, Active
    <3> QED BY <1>1, <3>1
  <2>7. CASE resume(w) \/ SwapOut(w) \/ UnlockFiber(w)
    <3>1. task[w].kind \in {"fiber", "cb"}
      BY <2>7, HeldFiber DEF resume, SwapOut, UnlockFiber
    <3>2. UNCHANGED counterVars /\ ActiveSet' = ActiveSet /\ IdleSet' = IdleSet
      BY <2>7, <3>1 DEF resume, SwapOut, UnlockFiber, AfterRun, ActiveSet, IdleSet, Active
    <3> QED BY <1>1, <3>2
  <2> QED BY <1>4, <2>1, <2>2, <2>3, <2>4, <2>5, <2>6, <2>7 DEF run, RunStep
<1>5. CASE UNCHANGED vars
  BY <1>1, <1>5 DEF vars, ActiveSet, IdleSet, Active
<1> QED BY <1>3, <1>4, <1>5 DEF Next

-----------------------------------------------------------------------------
(***************************************************************************)
(* Shutdown.                                                               *)
(***************************************************************************)

(* When stopping() holds nobody holds a task.                              *)
LEMMA StoppingIsQuiet ==
    ASSUME IInv, stopping
    PROVE  \A w \in Workers : ~Active(w)
<1>1. ActiveSet \in SUBSET Workers /\ Cardinality(ActiveSet) = 0
  BY DEF IInv, CountersExact, stopping, ActiveSet
<1>2. ActiveSet = {}
  BY <1>1, WorkersFinite, FS_EmptySet
<1> QED BY <1>2 DEF ActiveSet

(* stopping() is stable: no step makes it false again.                     *)
LEMMA StoppingStep == IInv /\ stopping /\ [Next]_vars => stopping'
<1> SUFFICES ASSUME IInv, stopping, [Next]_vars PROVE stopping'
  OBVIOUS
<1> USE DEF queueVars, fiberVars, counterVars, controlVars, stopping
<1>1. CASE Post \/ start
  BY <1>1 DEF Post, start, IInv, ControlInv
<1>2. CASE stop
  BY <1>2 DEF stop, StopCheck, StopSet, RootDone, Join
<1>3. ASSUME NEW w \in Workers, run(w) PROVE stopping'
  <2>1. ~Active(w)
    BY StoppingIsQuiet
  <2>2. CASE Pop(w)
    BY <2>2 DEF Pop, Eligible
  <2>3. CASE LockFiber(w) \/ resume(w) \/ SwapOut(w) \/ BodyPost(w) \/ yield(w) \/ MainFunc(w)
             \/ CountOff(w)
    BY <2>1, <2>3 DEF LockFiber, resume, SwapOut, BodyPost, yield, MainFunc, CountOff, Active
  <2>4. CASE FindNothing(w) \/ UnlockFiber(w) \/ LeaveRun(w) \/ EnterIdle(w) \/ idle(w) \/ LeaveIdle(w)
    BY <2>4 DEF FindNothing, UnlockFiber, LeaveRun, EnterIdle, idle, LeaveIdle
  <2> QED BY <1>3, <2>2, <2>3, <2>4 DEF run, RunStep
<1>4. CASE UNCHANGED vars
  BY <1>4 DEF vars
<1> QED BY <1>1, <1>2, <1>3, <1>4 DEF Next

LEMMA StopStep == IInv /\ [Next]_vars => StopInv'
<1> SUFFICES ASSUME IInv, [Next]_vars PROVE StopInv'
  OBVIOUS
<1>1. ASSUME NEW w \in Workers, pc'[w] = "exited" PROVE idleTerm'[w]
  <2>1. CASE Post \/ start \/ stop
    BY <1>1, <2>1, ControlFrame DEF IInv, StopInv
  <2>2. ASSUME NEW v \in Workers, run(v) PROVE idleTerm'[w]
    BY <1>1, <2>2, RunFrame DEF IInv, StopInv
  <2>3. CASE UNCHANGED vars
    BY <1>1, <2>3 DEF vars, IInv, StopInv
  <2> QED BY <2>1, <2>2, <2>3 DEF Next
<1>2. ASSUME NEW w \in Workers, idleTerm'[w] PROVE idleTerm[w] \/ stopping
  <2>1. CASE Post \/ start \/ stop
    BY <1>2, <2>1, ControlFrame
  <2>2. ASSUME NEW v \in Workers, run(v) PROVE idleTerm[w] \/ stopping
    BY <1>2, <2>2, RunFrame DEF IInv
  <2>3. CASE UNCHANGED vars
    BY <1>2, <2>3 DEF vars
  <2> QED BY <2>1, <2>2, <2>3 DEF Next
<1>3. ASSUME ctl' = "stopped" PROVE stopping
  <2> USE DEF controlVars
  <2>1. CASE ctl = "stopped"
    BY <2>1 DEF IInv, StopInv
  <2>2. CASE StopCheck
    BY <1>3, <2>2 DEF StopCheck
  <2>3. CASE Join
    <3>1. CASE m_useCaller
      BY <2>3, <3>1 DEF Join, IInv, ControlInv, StopInv, Workers
    <3>2. CASE ~m_useCaller
      <4>1. PICK w \in Spawned : pc[w] = "exited"
        BY <2>3, <3>2 DEF Join, IInv, ControlInv
      <4> QED BY <4>1 DEF IInv, StopInv, Workers
    <3> QED BY <3>1, <3>2
  <2>4. CASE Post \/ start \/ StopSet \/ RootDone
    BY <1>3, <2>1, <2>4 DEF Post, start, StopSet, RootDone
  <2>5. ASSUME NEW v \in Workers, run(v) PROVE ctl' = ctl
    BY <2>5, RunFrame DEF IInv
  <2>6. CASE UNCHANGED vars
    BY <1>3, <2>1, <2>6 DEF vars
  <2> QED BY <1>3, <2>1, <2>2, <2>3, <2>4, <2>5, <2>6 DEF Next, stop
<1>4. idleTerm \in [Workers -> BOOLEAN]
  BY DEF IInv, TypeInv
<1>5. (\E w \in Workers : idleTerm'[w]) \/ ctl' = "stopped" => stopping'
  BY <1>2, <1>3, StoppingStep DEF IInv, StopInv
<1> QED BY <1>1, <1>5 DEF StopInv

-----------------------------------------------------------------------------
(***************************************************************************)
(* The theorems.                                                           *)
(***************************************************************************)

LEMMA Initially == Init => IInv
<1> SUFFICES ASSUME Init PROVE IInv
  OBVIOUS
<1> USE DEF Init
<1>1. TypeInv
  <2>1. <<>> \in Seq(Task) /\ 0 \in 0..MaxPosts
    BY EmptySeq, BoundAssumption
  <2>2. m_tasks \in Seq(Task) /\ posts \in 0..MaxPosts
    BY <2>1
  <2>3. /\ m_state \in [Fibers -> FiberState] /\ m_mutex \in [Fibers -> Workers \cup {NoThread}]
        /\ pc \in [Workers -> WorkerPC] /\ idleTerm \in [Workers -> BOOLEAN]
        /\ task \in [Workers -> Task \cup {NoTask}]
    BY DEF FiberState, WorkerPC
  <2>4. t_scheduler \subseteq Workers /\ ctl \in ControlPC
    BY DEF ControlPC, Workers
  <2>5. m_useCaller \in BOOLEAN /\ m_stopping \in BOOLEAN
    OBVIOUS
  <2>6. m_activeThreadCount \in Int /\ m_idleThreadCount \in Int
    OBVIOUS
  <2> HIDE DEF Init
  <2> QED BY <2>2, <2>3, <2>4, <2>5, <2>6 DEF TypeInv
<1>2. TaskInv /\ LockInv /\ RunningInv
  BY NoTaskIsNoTask DEF TaskInv, LockInv, RunningInv, Holds
<1>3. ConstructedInv
  BY NoTaskIsNoTask DEF ConstructedInv
<1>4. CountersExact
  <2>1. {w \in Workers : Active(w)} = {} /\ {w \in Workers : pc[w] \in {"idle", "idleDone"}} = {}
    BY DEF Active
  <2> QED BY <2>1, FS_EmptySet DEF CountersExact
<1>5. ControlInv /\ StopInv
  BY DEF ControlInv, StopInv, Workers
<1> QED BY <1>1, <1>2, <1>3, <1>4, <1>5 DEF IInv

THEOREM Inductive == Spec => []IInv
<1>1. Init => IInv
  BY Initially
<1>2. IInv /\ [Next]_vars => IInv'
  <2> SUFFICES ASSUME IInv, [Next]_vars PROVE IInv'
    OBVIOUS
  <2>1. TypeInv'
    BY TypeStep DEF IInv
  <2>2. TaskInv' /\ LockInv' /\ RunningInv' /\ ConstructedInv'
    BY TaskStep, LockStep, RunningStep, ConstructedStep
  <2>3. CountersExact' /\ ControlInv' /\ StopInv'
    BY CountStep, ControlStep, StopStep
  <2> QED BY <2>1, <2>2, <2>3 DEF IInv
<1> QED BY <1>1, <1>2, PTL DEF Spec

(* The variables keep their types; in particular the unsigned counters     *)
(* never go below zero.                                                    *)
THEOREM TypeCorrect == Spec => []TypeOK
<1>1. IInv => TypeOK
  BY WorkersFinite DEF IInv, TypeInv, CountersExact, TypeOK
<1> QED BY <1>1, Inductive, PTL

(* A fiber is on the stack of at most one worker, however often and by     *)
(* whomever it is scheduled.                                               *)
THEOREM Exclusive == Spec => []OneThreadPerFiber
<1>1. IInv => OneThreadPerFiber
  BY OneHolder DEF IInv, OneThreadPerFiber, OnStack, Holds
<1> QED BY <1>1, Inductive, PTL

(* The assert of Fiber::resume() never fails in a worker.                  *)
THEOREM ResumeIsSafe == Spec => []ResumeAssertion
<1>1. IInv => ResumeAssertion
  <2> SUFFICES ASSUME IInv, NEW w \in Workers, pc[w] = "locked"
               PROVE  m_state[task[w].fiber] \in {"READY", "TERM"}
    BY DEF ResumeAssertion
  <2>1. task[w] \in Task /\ task[w].fiber \in Fibers /\ Holds(w)
    BY HeldFiber DEF IInv, Holds
  <2>2. m_state[task[w].fiber] \in {"READY", "RUNNING", "TERM"}
    BY <2>1 DEF IInv, ConstructedInv, Constructed, TypeInv, FiberState
  <2>3. ASSUME m_state[task[w].fiber] = "RUNNING" PROVE FALSE
    <3>1. PICK v \in Workers : pc[v] = "body" /\ task[v].fiber = task[w].fiber
      BY <2>1, <2>3 DEF IInv, RunningInv
    <3>2. v = w
      BY <2>1, <3>1, OneHolder DEF IInv, Holds
    <3> QED BY <3>1, <3>2
  <2> QED BY <2>2, <2>3
<1> QED BY <1>1, Inductive, PTL

(* The two atomic counters are exact.                                      *)
THEOREM CountersAreExact == Spec => []CountersExact
<1>1. IInv => CountersExact
  BY DEF IInv
<1> QED BY <1>1, Inductive, PTL

(* No worker that has seen stopping() can be wrong about it.               *)
THEOREM ExitIsFinal == Spec => []NoWorkAfterExit
<1>1. IInv => NoWorkAfterExit
  BY StoppingIsQuiet DEF IInv, StopInv, NoWorkAfterExit, OnStack, Active
<1> QED BY <1>1, Inductive, PTL

THEOREM StoppingStable == Spec => StoppingIsStable
<1>1. IInv /\ [Next]_vars => [stopping => stopping']_vars
  BY StoppingStep
<1> QED BY <1>1, Inductive, PTL DEF Spec, StoppingIsStable

(* The assert of ~Scheduler() holds after stop().                          *)
THEOREM DestructorIsSafe == Spec => []DestructorAssertion
<1>1. IInv => DestructorAssertion
  BY DEF IInv, StopInv, ControlInv, TypeInv, DestructorAssertion, Workers
<1> QED BY <1>1, Inductive, PTL

-----------------------------------------------------------------------------
(***************************************************************************)
(* Refinement of the task pool.                                            *)
(***************************************************************************)

(* inHand changes only when a task is popped or counted off.               *)
LEMMA InHandFrame ==
    ASSUME IInv, task' = task, \A w \in Workers : Active(w)' <=> Active(w)
    PROVE  inHand' = inHand
BY DEF inHand

(* A worker in the hand of which there is a task keeps the pool busy.      *)
LEMMA ActiveIsBusy ==
    ASSUME IInv, NEW w \in Workers, Active(w)
    PROVE  inHand[w] # NoTask /\ Pool!Busy
<1>1. task[w] \in Task
  BY HeldFiber DEF IInv, Active
<1> QED BY <1>1, NoTaskIsNoTask DEF inHand, Pool!Busy

LEMMA RunImplements ==
    ASSUME IInv, NEW w \in Workers, run(w)
    PROVE  Pool!Next \/ UNCHANGED <<m_tasks, inHand, m_stopping, ctl>>
<1> USE DEF queueVars, fiberVars, counterVars, controlVars, Goto, NextRound, IInv, TypeInv
<1>1. CASE Pop(w)
  <2>1. ~Active(w) /\ inHand[w] = NoTask
    BY <1>1 DEF Pop, Active, inHand
  <2>2. Eligible(w) = Pool!Takeable(w)
    BY DEF Eligible, Pool!Takeable
  <2>3. inHand' = [inHand EXCEPT ![w] = m_tasks[Min(Eligible(w))]]
    BY <1>1 DEF Pop, Active, inHand
  <2>4. /\ Eligible(w) # {} /\ m_tasks' = RemoveAt(m_tasks, Min(Eligible(w)))
        /\ ctl' = ctl /\ m_stopping' = m_stopping
    BY <1>1 DEF Pop
  <2> HIDE DEF IInv, TypeInv
  <2>5. Pool!Min(Pool!Takeable(w)) = Min(Eligible(w))
    BY <2>2 DEF Pool!Min, Min
  <2>6. \A i : Pool!RemoveAt(m_tasks, i) = RemoveAt(m_tasks, i)
    BY DEF Pool!RemoveAt, RemoveAt
  <2>7. Pool!Take(w)
    BY <2>1, <2>2, <2>3, <2>4, <2>5, <2>6 DEF Pool!Take
  <2> QED BY <2>7 DEF Pool!Next
<1>2. CASE CountOff(w)
  <2>1. task[w].kind \in {"fiber", "cb"} /\ Active(w)
    BY <1>2, HeldFiber DEF CountOff, Active
  <2>2. inHand' = [inHand EXCEPT ![w] = NoTask]
    BY <1>2, <2>1 DEF CountOff, Active, inHand
  <2>3. Pool!Finish(w)
    BY <1>2, <2>1, <2>2, ActiveIsBusy DEF CountOff, Pool!Finish
  <2> QED BY <2>3 DEF Pool!Next
<1>3. CASE BodyPost(w)
  <2> PICK kind \in {"fiber", "cb"}, f \in Fibers, t \in PinTargets : scheduleLock(kind, f, t)
    BY <1>3 DEF BodyPost
  <2>1. Pool!Busy
    BY <1>3, ActiveIsBusy DEF BodyPost, Active
  <2>2. inHand' = inHand
    BY <1>3 DEF BodyPost, inHand, Active
  <2>3. Pool!Submit
    BY <1>3, <2>1, <2>2, ScheduledTask DEF BodyPost, scheduleLock, Pool!Submit
  <2> QED BY <2>3 DEF Pool!Next
<1>4. CASE LockFiber(w) \/ yield(w) \/ MainFunc(w)
  <2>1. inHand' = inHand
    BY <1>4, InHandFrame DEF LockFiber, yield, MainFunc, Active
  <2> QED BY <1>4, <2>1 DEF LockFiber, yield, MainFunc
<1>5. CASE resume(w) \/ SwapOut(w)
  <2>1. task[w].kind \in {"fiber", "cb"}
    BY <1>5, HeldFiber DEF resume, SwapOut
  <2>2. inHand' = inHand
    BY <1>5, <2>1, InHandFrame DEF resume, SwapOut, AfterRun, Active
  <2> QED BY <1>5, <2>2 DEF resume, SwapOut
<1>6. CASE UnlockFiber(w)
  <2>1. task[w].kind \in {"fiber", "cb"}
    BY <1>6, HeldFiber DEF UnlockFiber
  <2>2. \A v \in Workers : (Active(v)' <=> Active(v)) /\ (Active(v) => task'[v] = task[v])
    BY <1>6, <2>1 DEF UnlockFiber, Active
  <2>3. inHand' = inHand
    BY <2>2 DEF inHand
  <2> QED BY <1>6, <2>3 DEF UnlockFiber
<1>7. CASE FindNothing(w) \/ LeaveRun(w) \/ EnterIdle(w) \/ idle(w) \/ LeaveIdle(w)
  <2>1. inHand' = inHand
    BY <1>7, InHandFrame DEF FindNothing, LeaveRun, EnterIdle, idle, LeaveIdle, Active
  <2> QED BY <1>7, <2>1 DEF FindNothing, LeaveRun, EnterIdle, idle, LeaveIdle
<1> QED BY <1>1, <1>2, <1>3, <1>4, <1>5, <1>6, <1>7 DEF run, RunStep

(* Every step of the scheduler is a step of the task pool or none.         *)
LEMMA StepImplements == IInv /\ IInv' /\ [Next]_vars => [Pool!Next]_(Pool!poolVars)
<1> SUFFICES ASSUME IInv, IInv', [Next]_vars
             PROVE  Pool!Next \/ UNCHANGED <<m_tasks, inHand, m_stopping, (ctl = "stopped")>>
  BY DEF Pool!poolVars
<1> USE DEF queueVars, fiberVars, counterVars, controlVars
<1>1. CASE Post \/ start \/ stop
  <2>1. inHand' = inHand
    BY <1>1, ControlFrame, InHandFrame DEF Active
  <2>2. CASE Post
    <3> PICK kind \in {"fiber", "cb"}, f \in Fibers, t \in PinTargets : scheduleLock(kind, f, t)
      BY <2>2 DEF Post
    <3>1. ~m_stopping
      BY <2>2 DEF Post, IInv, ControlInv
    <3>2. Pool!Submit
      BY <2>1, <2>2, <3>1, ScheduledTask DEF Post, scheduleLock, Pool!Submit
    <3> QED BY <3>2 DEF Pool!Next
  <2>3. CASE start
    BY <2>1, <2>3 DEF start
  <2>4. CASE StopCheck
    <3>1. (ctl = "stopped") <=> (ctl' = "stopped")
      BY <2>4 DEF StopCheck, IInv, StopInv, ControlInv, stopping
    <3> QED BY <2>1, <2>4, <3>1 DEF StopCheck
  <2>5. CASE StopSet
    BY <2>1, <2>5 DEF StopSet, Pool!Next, Pool!Close
  <2>6. CASE RootDone
    BY <2>1, <2>6 DEF RootDone
  <2>7. CASE Join
    <3>1. stopping
      BY <2>7 DEF Join, IInv, StopInv, stopping
    <3>2. ~Pool!Busy
      BY <3>1, StoppingIsQuiet DEF Pool!Busy, inHand
    <3>3. Pool!Closed
      BY <2>1, <2>7, <3>1, <3>2 DEF Join, stopping, Pool!Closed
    <3> QED BY <3>3 DEF Pool!Next
  <2> QED BY <1>1, <2>2, <2>3, <2>4, <2>5, <2>6, <2>7 DEF stop
<1>2. ASSUME NEW w \in Workers, run(w)
      PROVE  Pool!Next \/ UNCHANGED <<m_tasks, inHand, m_stopping, (ctl = "stopped")>>
  BY <1>2, RunImplements
<1>3. CASE UNCHANGED vars
  BY <1>3 DEF vars, inHand, Active
<1> QED BY <1>1, <1>2, <1>3 DEF Next

(* The scheduler implements the task pool: each queued task is taken once, *)
(* in queue order, and the pool closes empty.                              *)
THEOREM Refinement == Spec => ImplementsTaskPool
<1>1. Init => Pool!Init
  BY DEF Init, Pool!Init, inHand, Active
<1>2. IInv /\ IInv' /\ [Next]_vars => [Pool!Next]_(Pool!poolVars)
  BY StepImplements
<1> QED BY <1>1, <1>2, Inductive, PTL DEF Spec, ImplementsTaskPool, Pool!Spec
=============================================================================
