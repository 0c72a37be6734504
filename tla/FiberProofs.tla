----------------------------- MODULE FiberProofs -----------------------------
(***************************************************************************)
(* Theorems about fibers, their stacks and contexts, for every number of   *)
(* threads and fibers.                                                     *)
(***************************************************************************)
EXTENDS Fiber, TLAPS

-----------------------------------------------------------------------------
(***************************************************************************)
(* The inductive invariant.                                                *)
(***************************************************************************)
Locals == [Threads -> Fibers \cup {NoFiber}]
OfFiber == [Fibers -> Fibers \cup {NoFiber}]

TypeInv ==
    /\ t_fiber \in Locals /\ t_thread_fiber \in Locals /\ t_scheduler_fiber \in Locals
    /\ m_state \in [Fibers -> State] /\ m_mutex \in [Fibers -> Threads \cup {NoThread}]
    /\ ctx \in OfFiber /\ curr \in OfFiber /\ task \in OfFiber
    /\ at \in [Fibers -> Place] /\ cpu \in [Threads -> Fibers]
    /\ m_tasks \in [Tasks -> 0..MaxQueued]
    /\ heap \subseteq Fibers /\ handles \subseteq Tasks \cup Direct
    /\ m_schedulerFiber \in {SchedulerFiber, NoFiber} /\ m_stopping \in BOOLEAN
    /\ yields \in 0..MaxYields /\ resets \in 0..MaxResets

(* Where run() has a task, and where it has the fiber's mutex.             *)
InRun   == {"loop", "lock", "locked", "resuming", "unlock"}
HasTask == {"lock", "locked", "resuming", "unlock"}
HasLock == {"locked", "resuming", "unlock"}

(* A spawned thread: its pointers, and what it executes.                   *)
NoLocals(t) ==
    t_fiber[t] = NoFiber /\ t_thread_fiber[t] = NoFiber /\ t_scheduler_fiber[t] = NoFiber

SpawnedOK(t) ==
    /\ \/ at[t] \in {"start", "exited"} /\ NoLocals(t)
       \/ at[t] \in InRun /\ t_fiber[t] = cpu[t] /\ t_thread_fiber[t] = t /\ t_scheduler_fiber[t] = t
    /\ cpu[t] # t => at[t] = "resuming" /\ cpu[t] = task[t]

SpawnedInv == \A t \in Spawned : SpawnedOK(t)

(* The creating thread: it executes its own stack, a fiber that it resumed *)
(* itself, the scheduler fiber, or what that has resumed.                  *)
MainLocals ==
    \/ NoLocals(Main) /\ at[Main] = "user" /\ at[SchedulerFiber] = "none"
    \/ /\ t_fiber[Main] = cpu[Main] /\ t_thread_fiber[Main] = Main
       /\ t_scheduler_fiber[Main] = IF at[SchedulerFiber] = "none" THEN Main ELSE SchedulerFiber

MainStack ==
    \/ at[Main] = "user" /\ cpu[Main] = Main /\ task[Main] = NoFiber
    \/ at[Main] = "resuming" /\ task[Main] \in Direct /\ cpu[Main] \in {Main, task[Main]}
    \/ at[Main] = "resuming" /\ task[Main] = NoFiber /\ cpu[Main] \in {Main, SchedulerFiber}
    \/ /\ at[Main] = "resuming" /\ task[Main] = NoFiber /\ cpu[Main] \in Tasks
       /\ at[SchedulerFiber] = "resuming" /\ task[SchedulerFiber] = cpu[Main]

MainInv == MainLocals /\ MainStack

(* The scheduler fiber runs from stop() on, once.                          *)
SchedulerInv ==
    /\ \/ /\ at[SchedulerFiber] = "none" /\ ~m_stopping /\ m_schedulerFiber = NoFiber
          /\ cpu[Main] \notin Tasks \cup {SchedulerFiber}
       \/ /\ at[SchedulerFiber] = "entry" /\ ~m_stopping /\ m_schedulerFiber = SchedulerFiber
          /\ cpu[Main] \notin Tasks \cup {SchedulerFiber}
       \/ /\ at[SchedulerFiber] \in {"entry", "dying"} \cup InRun /\ m_stopping
          /\ m_schedulerFiber = SchedulerFiber /\ cpu[Main] \in Tasks \cup {SchedulerFiber}
       \/ /\ at[SchedulerFiber] = "dead" /\ m_stopping /\ cpu[Main] \notin Tasks \cup {SchedulerFiber}
    /\ curr[SchedulerFiber] = IF at[SchedulerFiber] \in InRun THEN SchedulerFiber ELSE NoFiber

(* Whoever is inside run() has the mutex of the fiber it resumes.          *)
Owner(s) == IF s = SchedulerFiber THEN Main ELSE s

RunOK(s) ==
    /\ IF at[s] \in HasTask THEN task[s] \in Tasks ELSE task[s] = NoFiber
    /\ at[s] \in HasLock => m_mutex[task[s]] = Owner(s)

RunInv == \A s \in RunStacks : RunOK(s)

(* A fiber of the program.                                                 *)
Executed(f) == \E t \in Threads : cpu[t] = f

FiberOK(f) ==
    /\ at[f] \in {"none", "entry", "body", "leaving", "dying", "dead"}
    /\ Executed(f) => at[f] \notin {"none", "dead"}
    /\ at[f] \in {"leaving", "dying"} => Executed(f)
    /\ curr[f] = IF at[f] \in {"body", "leaving"} THEN f ELSE NoFiber
    /\ task[f] = NoFiber
    /\ (m_state[f] = "TERM") <=> (at[f] \in {"dying", "dead"})
    /\ at[f] = "none" => ~Referenced(f)

FiberInv == (\A f \in Tasks \cup Direct : FiberOK(f)) /\ (\A t \in Threads : curr[t] = NoFiber)

(* A Fiber exists as long as something refers to it.                       *)
HeapInv == heap = {f \in Fibers : Referenced(f)}

IInv == /\ TypeInv /\ SpawnedInv /\ MainInv /\ SchedulerInv /\ RunInv /\ FiberInv
        /\ ContextsIntact /\ HeapInv

-----------------------------------------------------------------------------
(***************************************************************************)
(* Names, and who executes what.                                           *)
(***************************************************************************)
LEMMA Names ==
    /\ Main \in Threads /\ Spawned \subseteq Threads /\ Threads \subseteq Fibers /\ Main \notin Spawned
    /\ \A t \in Threads : t = Main \/ t \in Spawned
    /\ Tasks \subseteq Built /\ Direct \subseteq Built /\ SchedulerFiber \in Built /\ Built \subseteq Fibers
    /\ \A f \in Built : f \in Tasks \/ f \in Direct \/ f = SchedulerFiber
    /\ \A f \in Fibers : f \in Threads \/ f \in Built
    /\ \A f \in Built : f \notin Threads /\ f \notin Spawned /\ f # Main
    /\ \A f \in Tasks : f \notin Direct /\ f # SchedulerFiber
    /\ SchedulerFiber \notin Direct /\ SchedulerFiber \notin Spawned
    /\ NoFiber \notin Fibers /\ NoFiber \notin Tasks \cup Direct /\ NoFiber # SchedulerFiber /\ NoFiber # Main
    /\ NoThread \notin Threads
    /\ RunStacks \subseteq Fibers /\ \A s \in RunStacks : s \notin Tasks \cup Direct /\ s # Main
    /\ \A s \in RunStacks : s \in Spawned \/ s = SchedulerFiber
BY NameAssumption DEF Fibers, Threads, Built, RunStacks

LEMMA Owners ==
    /\ \A s \in RunStacks : Owner(s) \in Threads
    /\ \A r, s \in RunStacks : Owner(r) = Owner(s) => r = s
    /\ \A t \in Spawned : t \in RunStacks /\ Owner(t) = t
    /\ SchedulerFiber \in RunStacks /\ Owner(SchedulerFiber) = Main
BY Names DEF Owner, RunStacks

(* What a spawned thread executes, and what the creating one.              *)
LEMMA Executing ==
    ASSUME IInv
    PROVE  /\ \A t \in Spawned : /\ cpu[t] \in Tasks \cup {t}
                                 /\ cpu[t] \in Tasks => /\ at[t] = "resuming" /\ task[t] = cpu[t]
                                                        /\ m_mutex[cpu[t]] = t
           /\ cpu[Main] \in Tasks \cup Direct \cup {SchedulerFiber, Main}
           /\ cpu[Main] \in Tasks => /\ at[SchedulerFiber] = "resuming" /\ task[SchedulerFiber] = cpu[Main]
                                     /\ m_mutex[cpu[Main]] = Main
           /\ \A t \in Threads : cpu[t] \in Tasks => m_mutex[cpu[t]] = t
<1>1. ASSUME NEW t \in Spawned
      PROVE  /\ cpu[t] \in Tasks \cup {t}
             /\ cpu[t] \in Tasks => at[t] = "resuming" /\ task[t] = cpu[t] /\ m_mutex[cpu[t]] = t
  <2>1. SpawnedOK(t) /\ RunOK(t) /\ Owner(t) = t
    BY Owners DEF IInv, SpawnedInv, RunInv
  <2>2. cpu[t] # t => at[t] = "resuming" /\ cpu[t] = task[t]
    BY <2>1 DEF SpawnedOK
  <2>3. at[t] = "resuming" => task[t] \in Tasks /\ m_mutex[task[t]] = t
    BY <2>1 DEF RunOK, HasTask, HasLock
  <2>4. t \notin Tasks
    BY Names
  <2> QED BY <2>2, <2>3, <2>4
<1>2. /\ cpu[Main] \in Tasks \cup Direct \cup {SchedulerFiber, Main}
      /\ cpu[Main] \in Tasks => at[SchedulerFiber] = "resuming" /\ task[SchedulerFiber] = cpu[Main]
  BY Names DEF IInv, MainInv, MainStack
<1>3. RunOK(SchedulerFiber) /\ Owner(SchedulerFiber) = Main
  BY Owners DEF IInv, RunInv
<1>4. cpu[Main] \in Tasks => m_mutex[cpu[Main]] = Main
  BY <1>2, <1>3 DEF RunOK, HasLock
<1> QED BY <1>1, <1>2, <1>4, Names

(* A thread inside run() executes its own run(), ...                       *)
LEMMA Running ==
    ASSUME IInv, NEW t \in Threads, cpu[t] \in RunStacks
    PROVE  /\ Owner(cpu[t]) = t
           /\ t = Main => cpu[t] = SchedulerFiber
           /\ t # Main => t \in Spawned /\ cpu[t] = t
BY Executing, Names, Owners

(* ... and one that executes a fiber has resumed it.                       *)
LEMMA OnFiber ==
    ASSUME IInv, NEW t \in Threads, cpu[t] \in Built
    PROVE  /\ t_fiber[t] = cpu[t] /\ cpu[t] # t
           /\ cpu[t] \in Tasks => Peer(t, cpu[t]) = IF t = Main THEN SchedulerFiber ELSE t
           /\ cpu[t] \notin Tasks => t = Main /\ Peer(t, cpu[t]) = Main
           /\ cpu[t] = SchedulerFiber => at[SchedulerFiber] \in {"entry", "dying"} \cup InRun /\ m_stopping
<1>0. cpu[t] # t
  BY Names
<1>1. CASE t \in Spawned
  <2>1. cpu[t] \in Tasks /\ at[t] = "resuming" /\ cpu[t] # SchedulerFiber
    BY <1>0, <1>1, Executing, Names
  <2>2. SpawnedOK(t) /\ t # Main
    BY <1>1, Names DEF IInv, SpawnedInv
  <2>3. t_fiber[t] = cpu[t] /\ t_scheduler_fiber[t] = t
    BY <2>1, <2>2 DEF SpawnedOK
  <2> QED BY <1>0, <2>1, <2>2, <2>3 DEF Peer, m_runInScheduler
<1>2. CASE t = Main
  <2>1. at[Main] = "resuming"
    BY <1>0, <1>2 DEF IInv, MainInv, MainStack
  <2>2. /\ t_fiber[Main] = cpu[Main] /\ t_thread_fiber[Main] = Main
        /\ t_scheduler_fiber[Main] = IF at[SchedulerFiber] = "none" THEN Main ELSE SchedulerFiber
    BY <2>1 DEF IInv, MainInv, MainLocals
  <2>3. /\ cpu[Main] \in Tasks \cup {SchedulerFiber} => at[SchedulerFiber] \in {"entry", "dying"} \cup InRun /\ m_stopping
    BY DEF IInv, SchedulerInv
  <2>4. at[SchedulerFiber] \in {"entry", "dying"} \cup InRun => at[SchedulerFiber] # "none"
    BY DEF InRun
  <2> QED BY <1>0, <1>2, <2>2, <2>3, <2>4 DEF Peer, m_runInScheduler
<1> QED BY <1>1, <1>2, Names

(* A stack that is executed is executed by one thread.                     *)
LEMMA Unshared ==
    ASSUME IInv
    PROVE  \A t, u \in Threads : cpu[t] = cpu[u] => t = u
BY DEF IInv, ContextsIntact

-----------------------------------------------------------------------------
(***************************************************************************)
(* The references to a Fiber.                                              *)
(***************************************************************************)
LEMMA HeapNext ==
    ASSUME HeapInv, NEW new \in SUBSET Fibers, HeapAfter(new),
           \A f \in Fibers : Referenced(f)' => Referenced(f) \/ f \in new
    PROVE  HeapInv'
<1>1. heap' = {f \in heap \cup new : Referenced(f)'}
  BY DEF HeapAfter
<1>2. heap' = {f \in Fibers : Referenced(f)'}
  BY <1>1 DEF HeapInv
<1> QED BY <1>2 DEF HeapInv

LEMMA HeapSame ==
    ASSUME HeapInv, heap' = heap, \A f \in Fibers : Referenced(f)' <=> Referenced(f)
    PROVE  HeapInv'
BY DEF HeapInv

LEMMA HeapType ==
    ASSUME NEW new \in SUBSET Fibers, HeapAfter(new), heap \subseteq Fibers
    PROVE  heap' \subseteq Fibers
BY DEF HeapAfter

LEMMA ReferencedSame ==
    ASSUME UNCHANGED <<handles, m_schedulerFiber, m_tasks, task, curr, t_thread_fiber>>, NEW f
    PROVE  Referenced(f)' <=> Referenced(f)
BY DEF Referenced

-----------------------------------------------------------------------------
(***************************************************************************)
(* Types.                                                                  *)
(***************************************************************************)
LEMMA Places ==
    /\ {"none", "entry", "body", "leaving", "dying", "dead", "user", "start", "exited"} \subseteq Place
    /\ InRun \subseteq Place /\ {"READY", "RUNNING", "TERM"} \subseteq State
BY DEF Place, InRun, State

LEMMA ProgramType ==
    ASSUME TypeInv, NEW f \in Tasks \cup Direct, New(f) \/ DropHandle(f) \/ Schedule(f) \/ reset(f)
    PROVE  TypeInv'
<1> USE Names, Places DEF TypeInv, Locals, OfFiber, localVars, fiberVars, stackVars, sharedVars, boundVars
<1>1. f \in Fibers
  OBVIOUS
<1>2. CASE New(f)
  BY <1>1, <1>2, HeapType DEF New, Fresh, Move
<1>3. CASE DropHandle(f)
  BY <1>3, HeapType DEF DropHandle
<1>4. CASE Schedule(f)
  <2>1. f \in Tasks /\ m_tasks' = [m_tasks EXCEPT ![f] = m_tasks[f] + 1] /\ m_tasks[f] < MaxQueued /\ HeapAfter({})
    BY <1>4 DEF Schedule
  <2>2. m_tasks' \in [Tasks -> 0..MaxQueued]
    BY <2>1, BoundAssumption
  <2>3. heap' \subseteq Fibers
    BY <2>1, HeapType
  <2> QED BY <1>4, <2>2, <2>3 DEF Schedule
<1>5. CASE reset(f)
  <2>1. resets' \in 0..MaxResets
    BY <1>5, BoundAssumption DEF reset
  <2> QED BY <1>1, <1>5, <2>1 DEF reset, Fresh, Move
<1> QED BY <1>2, <1>3, <1>4, <1>5

LEMMA SwapType ==
    ASSUME TypeInv, NEW t \in Threads, NEW from \in Fibers, NEW to \in Fibers, ctx[to] \in Fibers, Swap(t, from, to)
    PROVE  ctx' \in OfFiber /\ cpu' \in [Threads -> Fibers]
BY DEF TypeInv, OfFiber, Swap

LEMMA MainType ==
    ASSUME TypeInv, MainGetThis \/ NewScheduler \/ MainReturns \/ DeleteScheduler
    PROVE  TypeInv'
<1> USE Names, Places DEF TypeInv, Locals, OfFiber, localVars, fiberVars, stackVars, sharedVars, boundVars
<1>0. Main \in Fibers /\ SchedulerFiber \in Fibers /\ {Main} \in SUBSET Fibers /\ {Main, SchedulerFiber} \in SUBSET Fibers
      /\ {} \in SUBSET Fibers
  OBVIOUS
<1>1. CASE MainGetThis
  BY <1>0, <1>1, HeapType DEF MainGetThis, NewMainFiber
<1>2. CASE NewScheduler
  BY <1>0, <1>2, HeapType DEF NewScheduler, Move
<1>3. CASE MainReturns
  BY <1>0, <1>3, HeapType DEF MainReturns, Move
<1>4. CASE DeleteScheduler
  BY <1>0, <1>4, HeapType DEF DeleteScheduler
<1> QED BY <1>1, <1>2, <1>3, <1>4

LEMMA RunType ==
    ASSUME TypeInv, NEW t \in Threads,
           \/ EnterRun(t) \/ LockFiber(t) \/ AfterResume(t) \/ DropTask(t) \/ ExitThread(t)
           \/ \E f \in Tasks : Pop(t, f)
    PROVE  TypeInv'
<1> USE Names, Places DEF TypeInv, Locals, OfFiber, InRun, localVars, fiberVars, stackVars, sharedVars, boundVars
<1>0. t \in Fibers /\ cpu[t] \in Fibers /\ {t} \in SUBSET Fibers /\ {} \in SUBSET Fibers
  OBVIOUS
<1>1. CASE EnterRun(t)
  BY <1>0, <1>1, HeapType DEF EnterRun, NewMainFiber, Move
<1>2. CASE LockFiber(t)
  BY <1>0, <1>2 DEF LockFiber, Move
<1>3. CASE AfterResume(t)
  BY <1>0, <1>3 DEF AfterResume, Move
<1>4. CASE DropTask(t)
  BY <1>0, <1>4, HeapType DEF DropTask, Move
<1>5. CASE ExitThread(t)
  BY <1>0, <1>5, HeapType DEF ExitThread, Move
<1>6. ASSUME NEW f \in Tasks, Pop(t, f) PROVE TypeInv'
  <2>1. m_tasks[f] \in 0..MaxQueued /\ m_tasks[f] > 0 /\ m_tasks' = [m_tasks EXCEPT ![f] = m_tasks[f] - 1]
    BY <1>6 DEF Pop
  <2>2. m_tasks' \in [Tasks -> 0..MaxQueued]
    BY <2>1, BoundAssumption
  <2> QED BY <1>0, <1>6, <2>2 DEF Pop, Move
<1> QED BY <1>1, <1>2, <1>3, <1>4, <1>5, <1>6

LEMMA StepType ==
    ASSUME TypeInv, NEW t \in Threads, EnterMainFunc(t) \/ yield(t) \/ MainFunc(t)
    PROVE  TypeInv'
<1> USE Names, Places DEF TypeInv, Locals, OfFiber, InRun, localVars, fiberVars, stackVars, sharedVars, boundVars
<1>0. cpu[t] \in Fibers /\ t_fiber[t] \in Fibers \cup {NoFiber} /\ {} \in SUBSET Fibers
  OBVIOUS
<1>1. CASE EnterMainFunc(t)
  BY <1>0, <1>1, HeapType DEF EnterMainFunc, Move
<1>2. CASE yield(t)
  <2>1. yields' \in 0..MaxYields
    BY <1>2, BoundAssumption DEF yield
  <2> QED BY <1>0, <1>2, <2>1 DEF yield, Move
<1>3. CASE MainFunc(t)
  BY <1>0, <1>3, HeapType DEF MainFunc, Move
<1> QED BY <1>1, <1>2, <1>3

-----------------------------------------------------------------------------
(***************************************************************************)
(* The switches.                                                           *)
(***************************************************************************)

(* Thread t leaves stack s for stack f, whose continuation is saved.       *)
Switch(t, s, f) ==
    /\ s \in Fibers /\ f \in Fibers /\ s # f
    /\ cpu[t] = s /\ ~Executed(f) /\ ctx[f] = f
    /\ cpu' = [cpu EXCEPT ![t] = f]
    /\ ctx' = [ctx EXCEPT ![s] = s, ![f] = NoFiber]

(* resume(): f has been begun or suspended, and has not ended.             *)
SwitchIn(t, s, f) ==
    /\ Switch(t, s, f) /\ f \in Built /\ at[f] \in {"entry", "body"}
    /\ m_state' = [m_state EXCEPT ![f] = "RUNNING"]
    /\ t_fiber' = [t_fiber EXCEPT ![t] = f]
    /\ at' = [at EXCEPT ![s] = "resuming"]
    /\ UNCHANGED <<t_thread_fiber, t_scheduler_fiber, m_mutex, heap, curr>>

LEMMA StopForm ==
    ASSUME IInv, stop
    PROVE  /\ SwitchIn(Main, Main, SchedulerFiber) /\ t_thread_fiber[Main] = Main
           /\ at[Main] = "user" /\ at[SchedulerFiber] = "entry" /\ m_schedulerFiber = SchedulerFiber
           /\ m_stopping' = TRUE /\ UNCHANGED <<task, m_tasks, handles, m_schedulerFiber, boundVars>>
<1>1. /\ at[Main] = "user" /\ cpu[Main] = Main /\ m_schedulerFiber = SchedulerFiber /\ ~m_stopping
  BY DEF stop, IInv, TypeInv
<1>2. at[SchedulerFiber] = "entry"
  BY <1>1, Names DEF IInv, SchedulerInv
<1>3. t_thread_fiber[Main] = Main
  BY <1>2 DEF IInv, MainInv, MainLocals
<1>4. ~Executed(SchedulerFiber)
  BY <1>1, Executing, Names DEF Executed
<1>5. ctx[SchedulerFiber] = SchedulerFiber
  BY <1>2, <1>4, Names DEF IInv, ContextsIntact, Executed
<1>6. Peer(Main, SchedulerFiber) = Main
  BY <1>3, Names DEF Peer, m_runInScheduler
<1>7. /\ m_state' = [m_state EXCEPT ![SchedulerFiber] = "RUNNING"]
      /\ t_fiber' = [t_fiber EXCEPT ![Main] = SchedulerFiber]
      /\ ctx' = [ctx EXCEPT ![Main] = cpu[Main], ![SchedulerFiber] = NoFiber]
      /\ cpu' = [cpu EXCEPT ![Main] = ctx[SchedulerFiber]]
      /\ at' = [at EXCEPT ![Main] = "resuming"]
  BY <1>1, <1>6 DEF stop, resume, Swap, Move
<1>8. Switch(Main, Main, SchedulerFiber)
  BY <1>1, <1>4, <1>5, <1>7, Names DEF Switch
<1> QED BY <1>1, <1>2, <1>3, <1>7, <1>8, Names DEF stop, SwitchIn

LEMMA DirectForm ==
    ASSUME IInv, NEW f \in Tasks \cup Direct, ResumeDirect(f)
    PROVE  /\ SwitchIn(Main, Main, f) /\ f \in Direct /\ f \in handles
           /\ at[Main] = "user" /\ task[Main] = NoFiber /\ t_fiber[Main] # NoFiber
           /\ task' = [task EXCEPT ![Main] = f] /\ UNCHANGED <<sharedVars, boundVars>>
<1>1. /\ at[Main] = "user" /\ cpu[Main] = Main /\ t_fiber[Main] # NoFiber
      /\ f \in Direct /\ f \in handles /\ m_state[f] = "READY"
  BY DEF ResumeDirect
<1>2. FiberOK(f) /\ f \in Built /\ f \notin Tasks
  BY <1>1, Names DEF IInv, FiberInv
<1>3. ~Executed(f)
  BY <1>1, <1>2, Executing, Names DEF Executed
<1>4. at[f] \in {"entry", "body"}
  BY <1>1, <1>2, <1>3 DEF FiberOK, Referenced
<1>5. ctx[f] = f
  BY <1>2, <1>3, <1>4 DEF IInv, ContextsIntact, Executed
<1>6. t_thread_fiber[Main] = Main /\ task[Main] = NoFiber
  BY <1>1 DEF IInv, MainInv, MainLocals, MainStack, NoLocals
<1>7. Peer(Main, f) = Main
  BY <1>2, <1>6 DEF Peer, m_runInScheduler
<1>8. /\ m_state' = [m_state EXCEPT ![f] = "RUNNING"]
      /\ t_fiber' = [t_fiber EXCEPT ![Main] = f]
      /\ ctx' = [ctx EXCEPT ![Main] = cpu[Main], ![f] = NoFiber]
      /\ cpu' = [cpu EXCEPT ![Main] = ctx[f]]
      /\ at' = [at EXCEPT ![Main] = "resuming"]
  BY <1>7 DEF ResumeDirect, resume, Swap, Move
<1>9. Switch(Main, Main, f)
  BY <1>1, <1>2, <1>3, <1>5, <1>8, Names DEF Switch
<1> QED BY <1>1, <1>2, <1>4, <1>6, <1>8, <1>9 DEF ResumeDirect, SwitchIn

LEMMA TaskForm ==
    ASSUME IInv, NEW t \in Threads, ResumeTask(t)
    PROVE  \E s \in RunStacks, f \in Tasks :
              /\ SwitchIn(t, s, f) /\ at[s] = "locked" /\ task[s] = f /\ Owner(s) = t /\ m_mutex[f] = t
              /\ t = Main => s = SchedulerFiber
              /\ t # Main => s = t /\ t \in Spawned
              /\ UNCHANGED <<task, sharedVars, boundVars>>
<1>1. PICK s \in RunStacks : s = cpu[t] /\ at[s] = "locked"
  BY DEF ResumeTask, In
<1>2. Owner(s) = t /\ (t = Main => s = SchedulerFiber) /\ (t # Main => s = t /\ t \in Spawned)
  BY <1>1, Running
<1>3. PICK f \in Tasks : f = task[s] /\ m_mutex[f] = t
  BY <1>1, <1>2 DEF IInv, RunInv, RunOK, HasTask, HasLock
<1>4. f \in Built /\ f \in Fibers /\ s \in Fibers /\ s # f
  BY Names
<1>5. FiberOK(f)
  BY DEF IInv, FiberInv
<1>6. ~Executed(f)
  <2>1. ASSUME NEW u \in Threads, cpu[u] = f PROVE FALSE
    <3>1. u = t
      BY <1>3, <2>1, Executing
    <3> QED BY <1>1, <1>4, <2>1, <3>1
  <2> QED BY <2>1 DEF Executed
<1>7. Referenced(f)
  BY <1>3, <1>4 DEF Referenced
<1>8. at[f] \in {"entry", "body"}
  BY <1>1, <1>3, <1>5, <1>6, <1>7 DEF FiberOK, ResumeTask
<1>9. ctx[f] = f
  BY <1>4, <1>6, <1>8 DEF IInv, ContextsIntact, Executed
<1>10. Peer(t, f) = s
  <2>1. CASE t = Main
    <3>1. at[SchedulerFiber] # "none" /\ s = SchedulerFiber
      BY <1>1, <1>2, <2>1
    <3> QED BY <2>1, <3>1 DEF IInv, MainInv, MainLocals, Peer, m_runInScheduler
  <2>2. CASE t # Main
    <3>1. s = t /\ SpawnedOK(t) /\ at[t] = "locked"
      BY <1>1, <1>2, <2>2 DEF IInv, SpawnedInv
    <3> QED BY <3>1 DEF SpawnedOK, Peer, m_runInScheduler
  <2> QED BY <2>1, <2>2
<1>11. /\ m_state' = [m_state EXCEPT ![f] = "RUNNING"]
       /\ t_fiber' = [t_fiber EXCEPT ![t] = f]
       /\ ctx' = [ctx EXCEPT ![s] = s, ![f] = NoFiber]
       /\ cpu' = [cpu EXCEPT ![t] = f]
       /\ at' = [at EXCEPT ![s] = "resuming"]
  <2>1. resume(t, f) /\ Move(s, "resuming")
    BY <1>1, <1>3 DEF ResumeTask
  <2> QED BY <1>1, <1>9, <1>10, <2>1 DEF resume, Swap, Move
<1>12. Switch(t, s, f)
  BY <1>1, <1>4, <1>6, <1>9, <1>11 DEF Switch
<1>13. SwitchIn(t, s, f) /\ UNCHANGED <<task, sharedVars, boundVars>>
  BY <1>4, <1>8, <1>11, <1>12 DEF ResumeTask, SwitchIn
<1> QED BY <1>1, <1>2, <1>3, <1>13

(* The rest of yield(): back to the stack that resumed f.                  *)
SwitchOut(t, f, p) ==
    /\ Switch(t, f, p) /\ f \in Built
    /\ \/ f \in Tasks /\ p = IF t = Main THEN SchedulerFiber ELSE t
       \/ f \notin Tasks /\ t = Main /\ p = Main
    /\ t_fiber' = [t_fiber EXCEPT ![t] = p]
    /\ \/ at[f] = "leaving" /\ at' = [at EXCEPT ![f] = "body"]
       \/ at[f] = "dying" /\ at' = [at EXCEPT ![f] = "dead"]
    /\ UNCHANGED <<t_thread_fiber, t_scheduler_fiber, m_state, m_mutex, heap, curr, task,
                   sharedVars, boundVars>>

LEMMA OutForm ==
    ASSUME IInv, NEW t \in Threads, SwapOut(t)
    PROVE  \E f \in Built, p \in Fibers : SwitchOut(t, f, p)
<1>1. PICK f \in Built : f = cpu[t] /\ at[f] \in {"leaving", "dying"}
  BY DEF SwapOut, Executes
<1>2. /\ t_fiber[t] = f /\ f # t /\ (f \in Tasks => Peer(t, f) = IF t = Main THEN SchedulerFiber ELSE t)
      /\ f \notin Tasks => t = Main /\ Peer(t, f) = Main
  BY <1>1, OnFiber
<1>3. PICK p \in Fibers : p = Peer(t, f)
  BY <1>2, Names
<1>4. /\ \/ f \in Tasks /\ p = IF t = Main THEN SchedulerFiber ELSE t
         \/ f \notin Tasks /\ t = Main /\ p = Main
  BY <1>2, <1>3
<1>5. ~Executed(p) /\ ctx[p] = p /\ f # p
  <2>1. CASE p = t
    <3>1. ctx[t] = t
      BY <1>1, <1>2 DEF IInv, ContextsIntact
    <3>2. \A u \in Threads : cpu[u] # t
      BY <1>1, <1>2, <2>1, Executing, Names
    <3> QED BY <1>2, <2>1, <3>1, <3>2 DEF Executed
  <2>2. CASE p # t
    <3>1. t = Main /\ p = SchedulerFiber /\ f \in Tasks
      BY <1>4, <2>2
    <3>2. at[SchedulerFiber] = "resuming"
      BY <1>1, <3>1, Executing
    <3>3. \A u \in Threads : cpu[u] # SchedulerFiber
      BY <1>1, <3>1, Executing, Names
    <3>4. ctx[SchedulerFiber] = SchedulerFiber
      BY <3>2, <3>3, Names DEF IInv, ContextsIntact
    <3> QED BY <3>1, <3>3, <3>4, Names DEF Executed
  <2> QED BY <2>1, <2>2
<1>6. /\ t_fiber' = [t_fiber EXCEPT ![t] = p]
      /\ ctx' = [ctx EXCEPT ![f] = cpu[t], ![p] = NoFiber]
      /\ cpu' = [cpu EXCEPT ![t] = ctx[p]]
  BY <1>1, <1>2, <1>3 DEF SwapOut, Swap
<1>7. \/ at[f] = "leaving" /\ at' = [at EXCEPT ![f] = "body"]
      \/ at[f] = "dying" /\ at' = [at EXCEPT ![f] = "dead"]
  BY <1>1 DEF SwapOut, Move
<1>8. Switch(t, f, p)
  BY <1>1, <1>5, <1>6, Names DEF Switch
<1> QED BY <1>4, <1>6, <1>7, <1>8 DEF SwapOut, SwitchOut

LEMMA SwitchContexts ==
    ASSUME IInv, NEW t \in Threads, NEW s \in Fibers, NEW f \in Fibers, Switch(t, s, f),
           f \in Built \cup {t}, \A g \in Built : g # s => at'[g] = at[g]
    PROVE  /\ ContextsIntact'
           /\ \A u \in Threads : cpu'[u] = IF u = t THEN f ELSE cpu[u]
           /\ \A g : Executed(g)' <=> g = f \/ (Executed(g) /\ g # s)
<1>1. /\ cpu[t] = s /\ ~Executed(f) /\ s # f
      /\ \A u \in Threads : cpu'[u] = IF u = t THEN f ELSE cpu[u]
      /\ \A g \in Fibers : ctx'[g] = IF g = f THEN NoFiber ELSE IF g = s THEN s ELSE ctx[g]
  BY DEF Switch, IInv, TypeInv, OfFiber
<1>2. \A u \in Threads : u # t => cpu[u] # s /\ cpu[u] # f
  BY <1>1, Unshared DEF Executed
<1>3. \A g : Executed(g)' <=> g = f \/ (Executed(g) /\ g # s)
  BY <1>1, <1>2 DEF Executed
<1>4. ASSUME NEW g \in Built, \A u \in Threads : cpu'[u] # g, at'[g] \notin {"none", "dead"}
      PROVE  ctx'[g] = g
  <2>1. g # f /\ g \in Fibers
    BY <1>1, <1>4, Names
  <2>2. CASE g = s
    BY <1>1, <2>1, <2>2
  <2>3. CASE g # s
    <3>1. at[g] \notin {"none", "dead"} /\ \A u \in Threads : cpu[u] # g
      BY <1>1, <1>4, <2>3
    <3>2. ctx[g] = g
      BY <3>1 DEF IInv, ContextsIntact
    <3> QED BY <1>1, <2>1, <2>3, <3>2
  <2> QED BY <2>2, <2>3
<1>5. ASSUME NEW u \in Threads, cpu'[u] # u PROVE ctx'[u] = u
  <2>1. u # f /\ u \in Fibers
    BY <1>1, <1>5, Names
  <2>2. CASE u = s
    BY <1>1, <2>1, <2>2
  <2>3. CASE u # s
    <3>1. cpu[u] # u
      BY <1>1, <1>5, <2>3
    <3>2. ctx[u] = u
      BY <3>1 DEF IInv, ContextsIntact
    <3> QED BY <1>1, <2>1, <2>3, <3>2
  <2> QED BY <2>2, <2>3
<1>6. \A u, v \in Threads : cpu'[u] = cpu'[v] => u = v
  BY <1>1, <1>2, Unshared
<1> QED BY <1>1, <1>3, <1>4, <1>5, <1>6 DEF ContextsIntact

(* A fiber that is neither begun, suspended nor referred to anew.          *)
LEMMA FiberFrame ==
    ASSUME NEW f \in Tasks \cup Direct, FiberOK(f), at'[f] = at[f], curr'[f] = curr[f], task'[f] = task[f],
           m_state'[f] = "TERM" <=> m_state[f] = "TERM", Executed(f)' <=> Executed(f),
           at[f] = "none" => (Referenced(f)' => Referenced(f))
    PROVE  FiberOK(f)'
BY DEF FiberOK

(* A fiber that is resumed.                                                *)
LEMMA FiberResumed ==
    ASSUME IInv, NEW t \in Threads, NEW s \in Fibers, NEW f \in Fibers, SwitchIn(t, s, f),
           s \notin Tasks \cup Direct, UNCHANGED <<m_tasks, handles, m_schedulerFiber>>,
           \A g \in Tasks \cup Direct : task'[g] = task[g],
           \A g \in Fibers : g # f => (Referenced(g)' => Referenced(g))
    PROVE  FiberInv'
<1>1. Switch(t, s, f) /\ f \in Built /\ at[f] \in {"entry", "body"} /\ s # f
  BY DEF SwitchIn, Switch
<1>2. \A g \in Fibers : g # s => at'[g] = at[g]
  BY DEF SwitchIn, IInv, TypeInv
<1>3. \A g : Executed(g)' <=> g = f \/ (Executed(g) /\ g # s)
  BY <1>1, <1>2, SwitchContexts, Names
<1>4. curr' = curr /\ \A g \in Fibers : m_state'[g] = IF g = f THEN "RUNNING" ELSE m_state[g]
  BY DEF SwitchIn, IInv, TypeInv
<1>5. ASSUME NEW g \in Tasks \cup Direct PROVE FiberOK(g)'
  <2>1. FiberOK(g) /\ g \in Fibers /\ g # s /\ task'[g] = task[g]
    BY Names DEF IInv, FiberInv
  <2>2. CASE g = f
    <3>1. at'[g] \in {"entry", "body"} /\ at'[g] = at[g] /\ m_state'[g] = "RUNNING" /\ Executed(g)'
      BY <1>1, <1>2, <1>3, <1>4, <2>1, <2>2
    <3> QED BY <1>4, <2>1, <3>1 DEF FiberOK
  <2>3. CASE g # f
    <3>1. Executed(g)' <=> Executed(g)
      BY <1>3, <2>1, <2>3
    <3>2. at'[g] = at[g] /\ m_state'[g] = m_state[g] /\ (Referenced(g)' => Referenced(g))
      BY <1>2, <1>4, <2>1, <2>3
    <3> QED BY <1>4, <2>1, <3>1, <3>2, FiberFrame
  <2> QED BY <2>2, <2>3
<1> QED BY <1>4, <1>5 DEF FiberInv, IInv

LEMMA SwitchInType ==
    ASSUME IInv, NEW t \in Threads, NEW s \in Fibers, NEW f \in Fibers, SwitchIn(t, s, f),
           task' \in OfFiber, m_stopping' \in BOOLEAN, UNCHANGED <<m_tasks, handles, m_schedulerFiber, boundVars>>
    PROVE  TypeInv'
BY Names, Places DEF IInv, TypeInv, SwitchIn, Switch, Locals, OfFiber, State, boundVars, InRun

LEMMA StopKeeps == IInv /\ stop => IInv'
<1> SUFFICES ASSUME IInv, stop PROVE IInv'
  OBVIOUS
<1>1. /\ SwitchIn(Main, Main, SchedulerFiber) /\ t_thread_fiber[Main] = Main
      /\ at[Main] = "user" /\ at[SchedulerFiber] = "entry" /\ m_schedulerFiber = SchedulerFiber
      /\ m_stopping' = TRUE /\ UNCHANGED <<task, m_tasks, handles, m_schedulerFiber, boundVars>>
  BY StopForm
<1>2. TypeInv'
  BY <1>1, SwitchInType, Names DEF IInv, TypeInv
<1>3. /\ at' = [at EXCEPT ![Main] = "resuming"] /\ UNCHANGED <<t_thread_fiber, t_scheduler_fiber, m_mutex, heap, curr>>
      /\ t_fiber' = [t_fiber EXCEPT ![Main] = SchedulerFiber] /\ cpu' = [cpu EXCEPT ![Main] = SchedulerFiber]
      /\ Switch(Main, Main, SchedulerFiber)
  BY <1>1 DEF SwitchIn, Switch
<1>4. \A g \in Fibers : g # Main => at'[g] = at[g]
  BY <1>3 DEF IInv, TypeInv
<1>5. at'[Main] = "resuming" /\ cpu'[Main] = SchedulerFiber /\ t_fiber'[Main] = SchedulerFiber
  BY <1>3, Names DEF IInv, TypeInv, Locals
<1>6. ContextsIntact'
  BY <1>3, <1>4, SwitchContexts, Names
<1>7. SpawnedInv'
  <2>1. ASSUME NEW u \in Spawned PROVE SpawnedOK(u)'
    <3>1. at'[u] = at[u] /\ cpu'[u] = cpu[u] /\ t_fiber'[u] = t_fiber[u] /\ SpawnedOK(u)
      BY <1>3, <1>4, Names DEF IInv, SpawnedInv, TypeInv, Locals
    <3> QED BY <1>1, <1>3, <3>1 DEF SpawnedOK, NoLocals
  <2> QED BY <2>1 DEF SpawnedInv
<1>8. MainInv'
  <2>1. t_scheduler_fiber[Main] = SchedulerFiber /\ task[Main] = NoFiber
    BY <1>1, Names DEF IInv, MainInv, MainLocals, MainStack, NoLocals
  <2>2. at'[SchedulerFiber] = "entry"
    BY <1>1, <1>4, Names
  <2>3. MainLocals'
    BY <1>1, <1>3, <1>5, <2>1, <2>2 DEF MainLocals
  <2>4. MainStack'
    BY <1>1, <1>5, <2>1 DEF MainStack
  <2> QED BY <2>3, <2>4 DEF MainInv
<1>9. SchedulerInv'
  <2>1. at'[SchedulerFiber] = at[SchedulerFiber]
    BY <1>4, Names
  <2> QED BY <1>1, <1>3, <1>5, <2>1 DEF IInv, SchedulerInv
<1>10. RunInv'
  BY <1>1, <1>3, <1>4, Names DEF IInv, RunInv, RunOK
<1>11. \A g \in Fibers : Referenced(g)' <=> Referenced(g)
  BY <1>1, <1>3 DEF Referenced
<1>12. FiberInv'
  BY <1>1, <1>11, FiberResumed, Names
<1>13. HeapInv'
  BY <1>3, <1>11, HeapSame DEF IInv
<1> QED BY <1>2, <1>6, <1>7, <1>8, <1>9, <1>10, <1>12, <1>13 DEF IInv

LEMMA DirectKeeps ==
    ASSUME NEW f \in Tasks \cup Direct
    PROVE  IInv /\ ResumeDirect(f) => IInv'
<1> SUFFICES ASSUME IInv, ResumeDirect(f) PROVE IInv'
  OBVIOUS
<1>1. /\ SwitchIn(Main, Main, f) /\ f \in Direct /\ f \in handles
      /\ at[Main] = "user" /\ task[Main] = NoFiber /\ t_fiber[Main] # NoFiber
      /\ task' = [task EXCEPT ![Main] = f] /\ UNCHANGED <<sharedVars, boundVars>>
  BY DirectForm
<1>2. f \in Fibers /\ f # SchedulerFiber /\ f \notin Tasks /\ f # Main
  BY <1>1, Names
<1>3. UNCHANGED <<m_tasks, handles, m_schedulerFiber, m_stopping>>
  BY <1>1 DEF sharedVars
<1>4. task' \in OfFiber /\ (\A g \in Fibers : g # Main => task'[g] = task[g]) /\ task'[Main] = f
  BY <1>1, <1>2, Names DEF IInv, TypeInv, OfFiber
<1>5. TypeInv'
  BY <1>1, <1>2, <1>3, <1>4, SwitchInType, Names DEF IInv, TypeInv
<1>6. /\ at' = [at EXCEPT ![Main] = "resuming"] /\ UNCHANGED <<t_thread_fiber, t_scheduler_fiber, m_mutex, heap, curr>>
      /\ t_fiber' = [t_fiber EXCEPT ![Main] = f] /\ cpu' = [cpu EXCEPT ![Main] = f]
      /\ cpu[Main] = Main /\ Switch(Main, Main, f)
  BY <1>1 DEF SwitchIn, Switch
<1>7. \A g \in Fibers : g # Main => at'[g] = at[g]
  BY <1>6 DEF IInv, TypeInv
<1>8. at'[Main] = "resuming" /\ cpu'[Main] = f /\ t_fiber'[Main] = f
  BY <1>6, Names DEF IInv, TypeInv, Locals
<1>9. ContextsIntact'
  BY <1>1, <1>6, <1>7, SwitchContexts, Names
<1>10. SpawnedInv'
  <2>1. ASSUME NEW u \in Spawned PROVE SpawnedOK(u)'
    <3>1. at'[u] = at[u] /\ cpu'[u] = cpu[u] /\ t_fiber'[u] = t_fiber[u] /\ task'[u] = task[u] /\ SpawnedOK(u)
      BY <1>4, <1>6, <1>7, Names DEF IInv, SpawnedInv, TypeInv, Locals
    <3> QED BY <1>6, <3>1 DEF SpawnedOK, NoLocals
  <2> QED BY <2>1 DEF SpawnedInv
<1>11. MainInv'
  <2>1. at'[SchedulerFiber] = at[SchedulerFiber]
    BY <1>7, Names
  <2>2. MainLocals'
    BY <1>1, <1>6, <1>8, <2>1 DEF IInv, MainInv, MainLocals, NoLocals
  <2>3. MainStack'
    BY <1>1, <1>4, <1>8 DEF MainStack
  <2> QED BY <2>2, <2>3 DEF MainInv
<1>12. SchedulerInv'
  <2>1. at'[SchedulerFiber] = at[SchedulerFiber]
    BY <1>7, Names
  <2>2. cpu[Main] \notin Tasks \cup {SchedulerFiber} /\ cpu'[Main] \notin Tasks \cup {SchedulerFiber}
    BY <1>2, <1>6, <1>8, Names
  <2> QED BY <1>3, <1>6, <2>1, <2>2 DEF IInv, SchedulerInv
<1>13. RunInv'
  BY <1>4, <1>6, <1>7, Names DEF IInv, RunInv, RunOK
<1>14. \A g \in Fibers : Referenced(g)' <=> Referenced(g)
  <2>1. ASSUME NEW g \in Fibers
        PROVE  (\E x \in Fibers : task'[x] = g) <=> (g = f \/ \E x \in Fibers : task[x] = g)
    BY <1>1, <1>4, Names
  <2>2. Referenced(f)
    BY <1>1 DEF Referenced
  <2>3. Referenced(f)'
    BY <1>1, <1>3 DEF Referenced
  <2> QED BY <1>3, <1>6, <2>1, <2>2, <2>3 DEF Referenced
<1>15. FiberInv'
  BY <1>1, <1>2, <1>3, <1>4, <1>14, FiberResumed, Names
<1>16. HeapInv'
  BY <1>6, <1>14, HeapSame DEF IInv
<1> QED BY <1>5, <1>9, <1>10, <1>11, <1>12, <1>13, <1>15, <1>16 DEF IInv

LEMMA TaskKeeps ==
    ASSUME NEW t \in Threads
    PROVE  IInv /\ ResumeTask(t) => IInv'
<1> SUFFICES ASSUME IInv, ResumeTask(t) PROVE IInv'
  OBVIOUS
<1>1. PICK s \in RunStacks, f \in Tasks :
        /\ SwitchIn(t, s, f) /\ at[s] = "locked" /\ task[s] = f /\ Owner(s) = t /\ m_mutex[f] = t
        /\ t = Main => s = SchedulerFiber
        /\ t # Main => s = t /\ t \in Spawned
        /\ UNCHANGED <<task, sharedVars, boundVars>>
  BY TaskForm
<1>2. f \in Fibers /\ f \in Built /\ s \in Fibers /\ s # f /\ f # SchedulerFiber /\ f # Main /\ s # Main /\ f \notin Direct
  BY Names
<1>3. UNCHANGED <<task, m_tasks, handles, m_schedulerFiber, m_stopping>>
  BY <1>1 DEF sharedVars
<1>4. TypeInv'
  BY <1>1, <1>2, <1>3, SwitchInType DEF IInv, TypeInv
<1>5. /\ at' = [at EXCEPT ![s] = "resuming"] /\ UNCHANGED <<t_thread_fiber, t_scheduler_fiber, m_mutex, heap, curr>>
      /\ t_fiber' = [t_fiber EXCEPT ![t] = f] /\ cpu' = [cpu EXCEPT ![t] = f]
      /\ cpu[t] = s /\ Switch(t, s, f)
  BY <1>1 DEF SwitchIn, Switch
<1>6. \A g \in Fibers : at'[g] = IF g = s THEN "resuming" ELSE at[g]
  BY <1>5 DEF IInv, TypeInv
<1>7. \A u \in Threads : cpu'[u] = (IF u = t THEN f ELSE cpu[u]) /\ t_fiber'[u] = IF u = t THEN f ELSE t_fiber[u]
  BY <1>5 DEF IInv, TypeInv, Locals
<1>8. ContextsIntact'
  BY <1>2, <1>5, <1>6, SwitchContexts, Names
<1>9. SpawnedInv'
  <2>1. ASSUME NEW u \in Spawned PROVE SpawnedOK(u)'
    <3>1. SpawnedOK(u) /\ u \in Fibers /\ u \in Threads /\ u # Main
      BY Names DEF IInv, SpawnedInv
    <3>2. CASE u = t
      BY <1>1, <1>3, <1>5, <1>6, <1>7, <3>1, <3>2 DEF SpawnedOK, InRun
    <3>3. CASE u # t
      <4>1. u # s
        BY <1>1, <3>1, <3>3, Names
      <4> QED BY <1>3, <1>5, <1>6, <1>7, <3>1, <3>3, <4>1 DEF SpawnedOK, NoLocals
    <3> QED BY <3>2, <3>3
  <2> QED BY <2>1 DEF SpawnedInv
<1>10. at'[Main] = at[Main]
  BY <1>2, <1>6, Names
<1>11. MainInv'
  <2>1. CASE t = Main
    <3>1. /\ s = SchedulerFiber /\ at[SchedulerFiber] = "locked" /\ at'[SchedulerFiber] = "resuming"
          /\ cpu[Main] = SchedulerFiber /\ cpu'[Main] = f /\ t_fiber'[Main] = f /\ task'[SchedulerFiber] = f
      BY <1>1, <1>3, <1>5, <1>6, <1>7, <2>1, Names
    <3>2. MainLocals'
      BY <1>5, <1>10, <3>1 DEF IInv, MainInv, MainLocals
    <3>3. at[Main] = "resuming" /\ task[Main] = NoFiber
      BY <3>1, Names DEF IInv, MainInv, MainStack
    <3>4. MainStack'
      BY <1>3, <1>10, <3>1, <3>3 DEF MainStack
    <3> QED BY <3>2, <3>4 DEF MainInv
  <2>2. CASE t # Main
    <3>1. at'[SchedulerFiber] = at[SchedulerFiber] /\ cpu'[Main] = cpu[Main] /\ t_fiber'[Main] = t_fiber[Main]
      BY <1>1, <1>6, <1>7, <2>2, Names
    <3> QED BY <1>3, <1>5, <1>10, <3>1 DEF IInv, MainInv, MainLocals, MainStack, NoLocals
  <2> QED BY <2>1, <2>2
<1>12. SchedulerInv'
  <2>1. CASE t = Main
    <3>1. s = SchedulerFiber /\ at[SchedulerFiber] = "locked" /\ at'[SchedulerFiber] = "resuming" /\ cpu'[Main] = f
      BY <1>1, <1>6, <1>7, <2>1, Names
    <3> QED BY <1>3, <1>5, <3>1 DEF IInv, SchedulerInv, InRun
  <2>2. CASE t # Main
    <3>1. at'[SchedulerFiber] = at[SchedulerFiber] /\ cpu'[Main] = cpu[Main]
      BY <1>1, <1>6, <1>7, <2>2, Names
    <3> QED BY <1>3, <1>5, <3>1 DEF IInv, SchedulerInv
  <2> QED BY <2>1, <2>2
<1>13. RunInv'
  <2>1. ASSUME NEW r \in RunStacks PROVE RunOK(r)'
    <3>1. RunOK(r) /\ r \in Fibers
      BY Names DEF IInv, RunInv
    <3> QED BY <1>1, <1>3, <1>5, <1>6, <3>1 DEF RunOK, HasTask, HasLock
  <2> QED BY <2>1 DEF RunInv
<1>14. \A g \in Fibers : Referenced(g)' <=> Referenced(g)
  BY <1>3, <1>5, ReferencedSame
<1>15. FiberInv'
  BY <1>1, <1>2, <1>3, <1>14, FiberResumed, Names
<1>16. HeapInv'
  BY <1>5, <1>14, HeapSame DEF IInv
<1> QED BY <1>4, <1>8, <1>9, <1>11, <1>12, <1>13, <1>15, <1>16 DEF IInv

LEMMA OutKeeps ==
    ASSUME NEW t \in Threads
    PROVE  IInv /\ SwapOut(t) => IInv'
<1> SUFFICES ASSUME IInv, SwapOut(t) PROVE IInv'
  OBVIOUS
<1>1. PICK f \in Built, p \in Fibers : SwitchOut(t, f, p)
  BY OutForm
<1>2. /\ Switch(t, f, p) /\ cpu[t] = f /\ f # p /\ cpu' = [cpu EXCEPT ![t] = p]
      /\ ctx' = [ctx EXCEPT ![f] = f, ![p] = NoFiber]
      /\ t_fiber' = [t_fiber EXCEPT ![t] = p]
      /\ UNCHANGED <<t_thread_fiber, t_scheduler_fiber, m_state, m_mutex, heap, curr, task,
                     m_tasks, handles, m_schedulerFiber, m_stopping, boundVars>>
  BY <1>1 DEF SwitchOut, Switch, sharedVars
<1>3. \/ f \in Tasks /\ t = Main /\ p = SchedulerFiber
      \/ f \in Tasks /\ t \in Spawned /\ p = t
      \/ f \notin Tasks /\ t = Main /\ p = Main
  BY <1>1, Names DEF SwitchOut
<1>4. \/ at[f] = "leaving" /\ at' = [at EXCEPT ![f] = "body"]
      \/ at[f] = "dying" /\ at' = [at EXCEPT ![f] = "dead"]
  BY <1>1 DEF SwitchOut
<1>5. \A g \in Fibers : g # f => at'[g] = at[g]
  BY <1>4 DEF IInv, TypeInv
<1>6. at'[f] = IF at[f] = "leaving" THEN "body" ELSE "dead"
  BY <1>4, Names DEF IInv, TypeInv
<1>7. \A u \in Threads : cpu'[u] = (IF u = t THEN p ELSE cpu[u]) /\ t_fiber'[u] = IF u = t THEN p ELSE t_fiber[u]
  BY <1>2 DEF IInv, TypeInv, Locals
<1>8. TypeInv'
  <2>1. at' \in [Fibers -> Place]
    BY <1>4, Places DEF IInv, TypeInv
  <2> QED BY <1>2, <2>1, Names DEF IInv, TypeInv, Locals, OfFiber, boundVars
<1>9. f \in Fibers /\ f \notin Threads
  BY Names
<1>10. /\ ContextsIntact'
       /\ \A g : Executed(g)' <=> g = p \/ (Executed(g) /\ g # f)
  <2>1. p \in Built \cup {t}
    BY <1>3, Names
  <2> QED BY <1>2, <1>5, <1>9, <2>1, SwitchContexts, Names
<1>11. SpawnedInv'
  <2>1. ASSUME NEW u \in Spawned PROVE SpawnedOK(u)'
    <3>1. SpawnedOK(u) /\ u \in Fibers /\ u \in Threads /\ u # f /\ at'[u] = at[u]
      BY <1>5, <1>9, Names DEF IInv, SpawnedInv
    <3>2. CASE u = t
      <4>1. p = t /\ at[t] = "resuming"
        BY <1>2, <1>3, <1>9, <2>1, <3>1, <3>2, Names DEF SpawnedOK
      <4> QED BY <1>2, <1>7, <3>1, <3>2, <4>1 DEF SpawnedOK, InRun
    <3>3. CASE u # t
      BY <1>2, <1>7, <3>1, <3>3 DEF SpawnedOK, NoLocals
    <3> QED BY <3>2, <3>3
  <2> QED BY <2>1 DEF SpawnedInv
<1>12. at'[Main] = at[Main]
  BY <1>5, <1>9, Names
<1>13. MainInv'
  <2>1. CASE t = Main
    <3>1. cpu[Main] = f /\ cpu'[Main] = p /\ t_fiber'[Main] = p /\ f # Main
      BY <1>2, <1>7, <2>1, Names
    <3>2. t_fiber[Main] = f /\ at[Main] = "resuming"
      BY <2>1, <3>1, OnFiber DEF IInv, MainInv, MainStack
    <3>3. (at'[SchedulerFiber] = "none") <=> (at[SchedulerFiber] = "none")
      BY <1>4, <1>5, <1>6, Names
    <3>4. MainLocals'
      <4>1. /\ t_thread_fiber[Main] = Main
            /\ t_scheduler_fiber[Main] = IF at[SchedulerFiber] = "none" THEN Main ELSE SchedulerFiber
        BY <3>2 DEF IInv, MainInv, MainLocals
      <4> QED BY <1>2, <3>1, <3>3, <4>1 DEF MainLocals
    <3>5. MainStack'
      BY <1>2, <1>3, <1>12, <2>1, <3>1, <3>2, Names DEF IInv, MainInv, MainStack
    <3> QED BY <3>4, <3>5 DEF MainInv
  <2>2. CASE t # Main
    <3>1. at'[SchedulerFiber] = at[SchedulerFiber] /\ cpu'[Main] = cpu[Main] /\ t_fiber'[Main] = t_fiber[Main]
      BY <1>3, <1>5, <1>7, <2>2, Names
    <3> QED BY <1>2, <1>12, <3>1 DEF IInv, MainInv, MainLocals, MainStack, NoLocals
  <2> QED BY <2>1, <2>2
<1>14. SchedulerInv'
  <2>1. CASE t # Main
    <3>1. at'[SchedulerFiber] = at[SchedulerFiber] /\ cpu'[Main] = cpu[Main]
      BY <1>3, <1>5, <1>7, <2>1, Names
    <3> QED BY <1>2, <3>1 DEF IInv, SchedulerInv
  <2>2. CASE f \in Tasks /\ t = Main /\ p = SchedulerFiber
    <3>1. at'[SchedulerFiber] = at[SchedulerFiber] /\ cpu'[Main] = SchedulerFiber /\ cpu[Main] \in Tasks
      BY <1>2, <1>5, <1>7, <2>2, Names
    <3> QED BY <1>2, <3>1 DEF IInv, SchedulerInv
  <2>3. CASE f = SchedulerFiber /\ t = Main /\ p = Main
    <3>1. at[SchedulerFiber] = "dying" /\ m_stopping
      BY <1>2, <1>4, <2>3, OnFiber, Names DEF InRun
    <3>2. at'[SchedulerFiber] = "dead" /\ cpu'[Main] = Main
      BY <1>6, <1>7, <2>3, <3>1
    <3>3. curr'[SchedulerFiber] = NoFiber
      BY <1>2, <3>1 DEF IInv, SchedulerInv, InRun
    <3> QED BY <1>2, <3>1, <3>2, <3>3, Names DEF SchedulerInv, InRun
  <2>4. CASE f \in Direct /\ t = Main /\ p = Main
    <3>1. at'[SchedulerFiber] = at[SchedulerFiber] /\ cpu'[Main] = Main /\ cpu[Main] \notin Tasks \cup {SchedulerFiber}
      BY <1>2, <1>5, <1>7, <2>4, Names
    <3>2. cpu'[Main] \notin Tasks \cup {SchedulerFiber}
      BY <3>1, Names
    <3> QED BY <1>2, <3>1, <3>2 DEF IInv, SchedulerInv
  <2> QED BY <1>3, <2>1, <2>2, <2>3, <2>4, Names
<1>15. RunInv'
  <2>1. ASSUME NEW r \in RunStacks PROVE RunOK(r)'
    <3>1. RunOK(r) /\ r \in Fibers
      BY Names DEF IInv, RunInv
    <3>2. CASE r = f
      <4>1. at[f] = "dying" \/ at[f] = "leaving"
        BY <1>4
      <4>2. at[f] \notin HasTask /\ at'[f] \notin HasTask /\ at'[f] \notin HasLock
        BY <1>6, <4>1 DEF HasTask, HasLock
      <4> QED BY <1>2, <3>1, <3>2, <4>2 DEF RunOK
    <3>3. CASE r # f
      BY <1>2, <1>5, <3>1, <3>3 DEF RunOK
    <3> QED BY <3>2, <3>3
  <2> QED BY <2>1 DEF RunInv
<1>16. \A g \in Fibers : Referenced(g)' <=> Referenced(g)
  BY <1>2, ReferencedSame
<1>17. FiberInv'
  <2>1. ASSUME NEW g \in Tasks \cup Direct PROVE FiberOK(g)'
    <3>1. FiberOK(g) /\ g \in Fibers /\ g # p
      BY <1>3, Names DEF IInv, FiberInv
    <3>2. CASE g = f
      <4>1. ~Executed(g)'
        BY <1>10, <3>1, <3>2
      <4> QED BY <1>2, <1>4, <1>6, <3>1, <3>2, <4>1 DEF FiberOK
    <3>3. CASE g # f
      <4>1. Executed(g)' <=> Executed(g)
        BY <1>10, <3>1, <3>3
      <4> QED BY <1>2, <1>5, <1>16, <3>1, <3>3, <4>1, FiberFrame
    <3> QED BY <3>2, <3>3
  <2> QED BY <1>2, <2>1 DEF IInv, FiberInv
<1>18. HeapInv'
  BY <1>2, <1>16, HeapSame DEF IInv
<1> QED BY <1>8, <1>10, <1>11, <1>13, <1>14, <1>15, <1>17, <1>18 DEF IInv

-----------------------------------------------------------------------------
(***************************************************************************)
(* The steps that switch no stack.                                         *)
(***************************************************************************)
LEMMA ContextsKeep ==
    ASSUME IInv, cpu' = cpu, \A t \in Threads : ctx'[t] = ctx[t],
           \A g \in Built : \/ ctx'[g] = g
                            \/ /\ ctx'[g] = ctx[g]
                               /\ at[g] \in {"none", "dead"} => at'[g] \in {"none", "dead"}
    PROVE  ContextsIntact'
BY DEF IInv, ContextsIntact

(* Nothing happens to the threads and the scheduler fiber.                 *)
LEMMA ThreadsKeep ==
    ASSUME IInv, UNCHANGED <<localVars, cpu, task, m_mutex, m_stopping, m_schedulerFiber>>,
           curr'[SchedulerFiber] = curr[SchedulerFiber],
           \A g \in Threads \cup {SchedulerFiber} : at'[g] = at[g]
    PROVE  SpawnedInv' /\ MainInv' /\ SchedulerInv' /\ RunInv'
<1> USE DEF localVars
<1>1. SpawnedInv'
  BY Names DEF IInv, SpawnedInv, SpawnedOK, NoLocals
<1>2. MainInv'
  <2>1. at'[Main] = at[Main] /\ at'[SchedulerFiber] = at[SchedulerFiber]
    BY Names
  <2> QED BY <2>1 DEF IInv, MainInv, MainLocals, MainStack, NoLocals
<1>3. SchedulerInv'
  <2>1. at'[SchedulerFiber] = at[SchedulerFiber]
    OBVIOUS
  <2> QED BY <2>1 DEF IInv, SchedulerInv
<1>4. RunInv'
  BY Names DEF IInv, RunInv, RunOK
<1> QED BY <1>1, <1>2, <1>3, <1>4

(* Nothing happens to the fibers of the program but, perhaps, to f.        *)
LEMMA FibersKeep ==
    ASSUME IInv, NEW S \in SUBSET (Tasks \cup Direct), cpu' = cpu,
           \A t \in Threads : curr'[t] = curr[t],
           \A g \in (Tasks \cup Direct) \ S :
               /\ at'[g] = at[g] /\ curr'[g] = curr[g] /\ task'[g] = task[g]
               /\ (m_state'[g] = "TERM") <=> (m_state[g] = "TERM")
               /\ Referenced(g)' => Referenced(g),
           \A g \in S : FiberOK(g)'
    PROVE  FiberInv'
<1>1. \A g : Executed(g)' <=> Executed(g)
  BY DEF Executed
<1>2. ASSUME NEW g \in (Tasks \cup Direct) \ S PROVE FiberOK(g)'
  <2>1. FiberOK(g) /\ g \in Tasks \cup Direct
    BY DEF IInv, FiberInv
  <2> QED BY <1>1, <2>1, FiberFrame
<1> QED BY <1>2 DEF IInv, FiberInv

(* The program makes, drops, schedules and resets fibers.                  *)
LEMMA ProgramKeeps ==
    ASSUME NEW f \in Tasks \cup Direct
    PROVE  IInv /\ (New(f) \/ DropHandle(f) \/ Schedule(f) \/ reset(f)) => IInv'
<1> SUFFICES ASSUME IInv, New(f) \/ DropHandle(f) \/ Schedule(f) \/ reset(f) PROVE IInv'
  OBVIOUS
<1>1. TypeInv'
  BY ProgramType DEF IInv
<1>2. f \in Fibers /\ f \in Built /\ f \notin Threads /\ f # SchedulerFiber /\ f # Main /\ FiberOK(f) /\ {f} \in SUBSET Fibers
  BY Names DEF IInv, FiberInv
<1>3. /\ UNCHANGED <<localVars, cpu, task, curr, m_mutex, m_stopping, m_schedulerFiber>>
      /\ \A g \in Fibers : g # f => at'[g] = at[g] /\ m_state'[g] = m_state[g] /\ ctx'[g] = ctx[g]
  <2>1. UNCHANGED <<localVars, cpu, task, curr, m_mutex, m_stopping, m_schedulerFiber>>
    BY DEF New, DropHandle, Schedule, reset, fiberVars, stackVars, sharedVars
  <2>2. \/ UNCHANGED <<at, m_state, ctx>>
        \/ Fresh(f)
    BY DEF New, DropHandle, Schedule, reset, fiberVars, stackVars
  <2> QED BY <2>1, <2>2 DEF Fresh, Move, IInv, TypeInv, OfFiber
<1>4. SpawnedInv' /\ MainInv' /\ SchedulerInv' /\ RunInv'
  <2>1. \A g \in Threads \cup {SchedulerFiber} : at'[g] = at[g]
    BY <1>2, <1>3, Names
  <2> QED BY <1>3, <2>1, ThreadsKeep
<1>5. ASSUME Fresh(f)
      PROVE  at'[f] = "entry" /\ m_state'[f] = "READY" /\ ctx'[f] = f
  BY <1>2, <1>5 DEF Fresh, Move, IInv, TypeInv, OfFiber
<1>6. ContextsIntact'
  <2>1. ctx'[f] = f \/ (ctx'[f] = ctx[f] /\ at'[f] = at[f])
    BY <1>5 DEF New, DropHandle, Schedule, reset, fiberVars, stackVars
  <2>2. \A t \in Threads : ctx'[t] = ctx[t]
    BY <1>2, <1>3, Names
  <2>3. \A g \in Built : g # f => ctx'[g] = ctx[g] /\ at'[g] = at[g]
    BY <1>3, Names
  <2> QED BY <1>3, <2>1, <2>2, <2>3, ContextsKeep
<1>7. Executed(f)' <=> Executed(f)
  BY <1>3 DEF Executed
<1>8. \A g \in Fibers : g # f => (Referenced(g)' => Referenced(g))
  <2>1. \A g \in Fibers : g # f => (g \in handles' => g \in handles)
    BY DEF New, DropHandle, Schedule, reset, sharedVars
  <2>2. \A g \in Tasks : g # f => m_tasks'[g] = m_tasks[g]
    BY DEF New, DropHandle, Schedule, reset, sharedVars, IInv, TypeInv
  <2> QED BY <1>3, <2>1, <2>2 DEF Referenced, localVars
<1>9. FiberOK(f)' /\ HeapInv'
  <2>1. CASE New(f)
    <3>1. at[f] = "none" /\ Fresh(f) /\ HeapAfter({f})
      BY <2>1 DEF New
    <3>2. FiberOK(f)'
      BY <1>2, <1>3, <1>5, <1>7, <3>1 DEF FiberOK
    <3>3. HeapInv'
      BY <1>2, <1>8, <3>1, HeapNext DEF IInv
    <3> QED BY <3>2, <3>3
  <2>2. CASE DropHandle(f)
    <3>1. UNCHANGED <<at, m_state, m_tasks>> /\ handles' = handles \ {f} /\ HeapAfter({})
      BY <2>2 DEF DropHandle, fiberVars, stackVars
    <3>2. Referenced(f)' => Referenced(f)
      BY <1>3, <3>1 DEF Referenced, localVars
    <3>3. FiberOK(f)'
      BY <1>2, <1>3, <1>7, <3>1, <3>2, FiberFrame
    <3>4. HeapInv'
      BY <1>8, <3>1, <3>2, HeapNext DEF IInv
    <3> QED BY <3>3, <3>4
  <2>3. CASE Schedule(f)
    <3>1. UNCHANGED <<at, m_state, handles>> /\ HeapAfter({})
      BY <2>3 DEF Schedule, fiberVars, stackVars
    <3>2. Referenced(f)
      <4>1. CASE f \in handles
        BY <4>1 DEF Referenced
      <4>2. ASSUME NEW t \in Threads, at[cpu[t]] = "body", t_fiber[t] = f PROVE Referenced(f)
        <5>1. cpu[t] \in Built
          BY <4>2, Executing, Names DEF IInv, SpawnedInv, SpawnedOK, MainInv, MainStack, InRun
        <5>2. cpu[t] = f /\ at[f] = "body"
          BY <4>2, <5>1, OnFiber
        <5>3. curr[f] = f
          BY <1>2, <5>2 DEF FiberOK
        <5> QED BY <1>2, <5>3 DEF Referenced
      <4> QED BY <2>3, <4>1, <4>2 DEF Schedule
    <3>3. FiberOK(f)'
      BY <1>2, <1>3, <1>7, <3>1, <3>2, FiberFrame
    <3>4. HeapInv'
      BY <1>8, <3>1, <3>2, HeapNext DEF IInv
    <3> QED BY <3>3, <3>4
  <2>4. CASE reset(f)
    <3>1. f \in handles /\ m_state[f] = "TERM" /\ (\A t \in Threads : cpu[t] # f) /\ Fresh(f)
          /\ UNCHANGED <<heap, handles, m_tasks>>
      BY <2>4 DEF reset, sharedVars
    <3>2. at[f] = "dead"
      BY <1>2, <3>1 DEF FiberOK, Executed
    <3>3. FiberOK(f)'
      BY <1>2, <1>3, <1>5, <1>7, <3>1, <3>2 DEF FiberOK
    <3>4. \A g \in Fibers : Referenced(g)' <=> Referenced(g)
      BY <1>3, <3>1 DEF Referenced, localVars
    <3> QED BY <3>1, <3>3, <3>4, HeapSame DEF IInv
  <2> QED BY <2>1, <2>2, <2>3, <2>4
<1>10. FiberInv'
  <2>1. ASSUME NEW g \in (Tasks \cup Direct) \ {f}
        PROVE  /\ at'[g] = at[g] /\ curr'[g] = curr[g] /\ task'[g] = task[g]
               /\ (m_state'[g] = "TERM") <=> (m_state[g] = "TERM")
               /\ Referenced(g)' => Referenced(g)
    <3>1. g \in Fibers /\ g # f
      BY Names
    <3> QED BY <1>3, <1>8, <3>1
  <2>2. {f} \in SUBSET (Tasks \cup Direct) /\ (\A g \in {f} : FiberOK(g)')
    BY <1>9
  <2>3. cpu' = cpu /\ \A t \in Threads : curr'[t] = curr[t]
    BY <1>3
  <2> QED BY <2>1, <2>2, <2>3, FibersKeep
<1> QED BY <1>1, <1>4, <1>6, <1>9, <1>10 DEF IInv

(* Nothing but the pointers, m_ctx, place and task of the creating thread  *)
(* and the scheduler fiber changes.                                        *)
LEMMA OthersKeep ==
    ASSUME IInv, UNCHANGED <<cpu, m_mutex, curr>>,
           \A t \in Spawned : /\ t_fiber'[t] = t_fiber[t] /\ t_thread_fiber'[t] = t_thread_fiber[t]
                              /\ t_scheduler_fiber'[t] = t_scheduler_fiber[t],
           \A g \in Fibers \ {Main, SchedulerFiber} :
               at'[g] = at[g] /\ task'[g] = task[g] /\ m_state'[g] = m_state[g],
           \A g \in Tasks \cup Direct : Referenced(g)' => Referenced(g)
    PROVE  SpawnedInv' /\ FiberInv' /\ \A s \in Spawned : RunOK(s)'
<1>1. SpawnedInv'
  BY Names DEF IInv, SpawnedInv, SpawnedOK, NoLocals
<1>2. ASSUME NEW s \in Spawned PROVE RunOK(s)'
  <2>1. s \in Fibers \ {Main, SchedulerFiber} /\ RunOK(s)
    BY Names, Owners DEF IInv, RunInv
  <2> QED BY <2>1 DEF RunOK
<1>3. FiberInv'
  <2>1. \A g \in Tasks \cup Direct : g \in Fibers \ {Main, SchedulerFiber}
    BY Names
  <2>2. \A g \in Tasks \cup Direct : Executed(g)' <=> Executed(g)
    BY DEF Executed
  <2>3. ASSUME NEW g \in Tasks \cup Direct PROVE FiberOK(g)'
    <3>1. FiberOK(g)
      BY DEF IInv, FiberInv
    <3> QED BY <2>1, <2>2, <3>1, FiberFrame
  <2> QED BY <2>3 DEF IInv, FiberInv
<1> QED BY <1>1, <1>2, <1>3

LEMMA MainKeeps == IInv /\ (MainGetThis \/ NewScheduler \/ MainReturns \/ DeleteScheduler) => IInv'
<1> SUFFICES ASSUME IInv, MainGetThis \/ NewScheduler \/ MainReturns \/ DeleteScheduler PROVE IInv'
  OBVIOUS
<1>1. TypeInv'
  BY MainType DEF IInv
<1>2. CASE MainGetThis
  <2>1. /\ at[Main] = "user" /\ cpu[Main] = Main /\ t_fiber[Main] = NoFiber
        /\ UNCHANGED <<m_mutex, ctx, at, curr, task, cpu, m_tasks, handles, m_schedulerFiber, m_stopping>>
        /\ HeapAfter({Main})
    BY <1>2 DEF MainGetThis, stackVars, sharedVars
  <2>2. /\ t_fiber' = [t_fiber EXCEPT ![Main] = Main]
        /\ t_thread_fiber' = [t_thread_fiber EXCEPT ![Main] = Main]
        /\ t_scheduler_fiber' = [t_scheduler_fiber EXCEPT ![Main] = Main]
        /\ m_state' = [m_state EXCEPT ![Main] = "RUNNING"]
    BY <1>2 DEF MainGetThis, NewMainFiber
  <2>3. /\ t_fiber'[Main] = Main /\ t_thread_fiber'[Main] = Main /\ t_scheduler_fiber'[Main] = Main
        /\ \A t \in Threads : t # Main => /\ t_fiber'[t] = t_fiber[t] /\ t_thread_fiber'[t] = t_thread_fiber[t]
                                          /\ t_scheduler_fiber'[t] = t_scheduler_fiber[t]
        /\ \A g \in Fibers : g # Main => m_state'[g] = m_state[g]
    BY <2>2, Names DEF IInv, TypeInv, Locals
  <2>4. at[SchedulerFiber] = "none"
    BY <2>1, Names DEF IInv, MainInv, MainLocals
  <2>5. \A g \in Fibers : Referenced(g)' => Referenced(g) \/ g = Main
    BY <2>1, <2>3 DEF Referenced
  <2>6. HeapInv'
    BY <2>1, <2>5, HeapNext, Names DEF IInv
  <2>7. SpawnedInv' /\ FiberInv'
    BY <2>1, <2>3, <2>5, OthersKeep, Names
  <2>8. MainInv'
    <3>1. MainLocals'
      BY <2>1, <2>3, <2>4 DEF MainLocals
    <3>2. MainStack'
      BY <2>1 DEF IInv, MainInv, MainStack
    <3> QED BY <3>1, <3>2 DEF MainInv
  <2>9. SchedulerInv' /\ RunInv' /\ ContextsIntact'
    BY <2>1 DEF IInv, SchedulerInv, RunInv, RunOK, ContextsIntact
  <2> QED BY <1>1, <2>6, <2>7, <2>8, <2>9 DEF IInv
<1>3. CASE NewScheduler
  <2>1. /\ at[Main] = "user" /\ cpu[Main] = Main /\ at[SchedulerFiber] = "none"
        /\ UNCHANGED <<m_mutex, curr, task, cpu, m_tasks, handles, m_stopping>>
        /\ m_schedulerFiber' = SchedulerFiber /\ HeapAfter({Main, SchedulerFiber})
    BY <1>3 DEF NewScheduler
  <2>2. /\ t_fiber' = [t_fiber EXCEPT ![Main] = Main]
        /\ t_thread_fiber' = [t_thread_fiber EXCEPT ![Main] = Main]
        /\ t_scheduler_fiber' = [t_scheduler_fiber EXCEPT ![Main] = SchedulerFiber]
        /\ m_state' = [m_state EXCEPT ![Main] = "RUNNING", ![SchedulerFiber] = "READY"]
        /\ ctx' = [ctx EXCEPT ![SchedulerFiber] = SchedulerFiber]
        /\ at' = [at EXCEPT ![SchedulerFiber] = "entry"]
    BY <1>3 DEF NewScheduler, Move
  <2>3. /\ t_fiber'[Main] = Main /\ t_thread_fiber'[Main] = Main /\ t_scheduler_fiber'[Main] = SchedulerFiber
        /\ \A t \in Threads : t # Main => /\ t_fiber'[t] = t_fiber[t] /\ t_thread_fiber'[t] = t_thread_fiber[t]
                                          /\ t_scheduler_fiber'[t] = t_scheduler_fiber[t]
        /\ \A g \in Fibers : g # Main /\ g # SchedulerFiber => m_state'[g] = m_state[g]
        /\ \A g \in Fibers : g # SchedulerFiber => at'[g] = at[g] /\ ctx'[g] = ctx[g]
        /\ at'[SchedulerFiber] = "entry" /\ ctx'[SchedulerFiber] = SchedulerFiber
    BY <2>2, Names DEF IInv, TypeInv, Locals, OfFiber
  <2>4. ~m_stopping /\ m_schedulerFiber = NoFiber /\ curr[SchedulerFiber] = NoFiber /\ task[Main] = NoFiber
    BY <2>1, Names DEF IInv, SchedulerInv, InRun, MainInv, MainStack
  <2>5. \A g \in Fibers : Referenced(g)' => Referenced(g) \/ g \in {Main, SchedulerFiber}
    BY <2>1, <2>3 DEF Referenced
  <2>6. HeapInv'
    BY <2>1, <2>5, HeapNext, Names DEF IInv
  <2>7. /\ SpawnedInv' /\ FiberInv' /\ \A s \in Spawned : RunOK(s)'
    <3>1. \A g \in Tasks \cup Direct : Referenced(g)' => Referenced(g)
      BY <2>5, Names
    <3>2. \A t \in Spawned : /\ t_fiber'[t] = t_fiber[t] /\ t_thread_fiber'[t] = t_thread_fiber[t]
                             /\ t_scheduler_fiber'[t] = t_scheduler_fiber[t]
      BY <2>3, Names
    <3>3. \A g \in Fibers \ {Main, SchedulerFiber} :
               at'[g] = at[g] /\ task'[g] = task[g] /\ m_state'[g] = m_state[g]
      BY <2>1, <2>3
    <3> QED BY <2>1, <3>1, <3>2, <3>3, OthersKeep
  <2>8. at'[Main] = "user"
    BY <2>1, <2>3, Names
  <2>9. MainInv'
    BY <2>1, <2>3, <2>4, <2>8 DEF MainInv, MainLocals, MainStack
  <2>10. SchedulerInv'
    BY <2>1, <2>3, <2>4, Names DEF SchedulerInv, InRun
  <2>11. RunInv'
    <3>1. RunOK(SchedulerFiber)
      BY Owners DEF IInv, RunInv
    <3>2. RunOK(SchedulerFiber)'
      BY <2>1, <2>3, <3>1 DEF RunOK, HasTask, HasLock
    <3> QED BY <2>7, <3>2, Names DEF RunInv
  <2>12. ContextsIntact'
    BY <2>1, <2>3, ContextsKeep, Names
  <2> QED BY <1>1, <2>6, <2>7, <2>9, <2>10, <2>11, <2>12 DEF IInv
<1>4. CASE MainReturns
  <2>1. /\ at[Main] = "resuming" /\ cpu[Main] = Main
        /\ task' = [task EXCEPT ![Main] = NoFiber] /\ at' = [at EXCEPT ![Main] = "user"]
        /\ UNCHANGED <<t_fiber, t_thread_fiber, t_scheduler_fiber, m_state, m_mutex, ctx, curr, cpu,
                       m_tasks, handles, m_schedulerFiber, m_stopping>>
        /\ HeapAfter({})
    BY <1>4 DEF MainReturns, Move, localVars, fiberVars, sharedVars
  <2>2. /\ at'[Main] = "user" /\ task'[Main] = NoFiber
        /\ \A g \in Fibers : g # Main => at'[g] = at[g] /\ task'[g] = task[g]
    BY <2>1, Names DEF IInv, TypeInv, OfFiber
  <2>3. \A g \in Fibers : Referenced(g)' => Referenced(g)
    <3>1. \A g \in Fibers, x \in Fibers : task'[x] = g => task[x] = g
      BY <2>2, Names
    <3> QED BY <2>1, <3>1 DEF Referenced
  <2>4. HeapInv'
    BY <2>1, <2>3, HeapNext DEF IInv
  <2>5. /\ SpawnedInv' /\ FiberInv' /\ \A s \in Spawned : RunOK(s)'
    BY <2>1, <2>2, <2>3, OthersKeep, Names
  <2>6. at'[SchedulerFiber] = at[SchedulerFiber] /\ task'[SchedulerFiber] = task[SchedulerFiber]
    BY <2>2, Names
  <2>7. MainInv'
    <3>1. MainLocals
      BY DEF IInv, MainInv
    <3> QED BY <2>1, <2>2, <2>6, <3>1 DEF MainInv, MainLocals, MainStack, NoLocals
  <2>8. SchedulerInv'
    BY <2>1, <2>6 DEF IInv, SchedulerInv
  <2>9. RunInv'
    <3>1. RunOK(SchedulerFiber)
      BY Owners DEF IInv, RunInv
    <3>2. RunOK(SchedulerFiber)'
      BY <2>1, <2>6, <3>1 DEF RunOK
    <3> QED BY <2>5, <3>2, Names DEF RunInv
  <2>10. ContextsIntact'
    BY <2>1, <2>2, ContextsKeep, Names
  <2> QED BY <1>1, <2>4, <2>5, <2>7, <2>8, <2>9, <2>10 DEF IInv
<1>5. CASE DeleteScheduler
  <2>1. /\ at[Main] = "user" /\ m_stopping /\ m_schedulerFiber' = NoFiber /\ HeapAfter({})
        /\ UNCHANGED <<localVars, m_state, m_mutex, ctx, at, curr, task, cpu, m_tasks, handles, m_stopping>>
    BY <1>5 DEF DeleteScheduler, fiberVars, stackVars
  <2>2. \A g \in Fibers : Referenced(g)' => Referenced(g)
    BY <2>1, Names DEF Referenced, localVars
  <2>3. HeapInv'
    BY <2>1, <2>2, HeapNext DEF IInv
  <2>4. SpawnedInv' /\ FiberInv'
    BY <2>1, <2>2, OthersKeep, Names DEF localVars
  <2>5. MainInv' /\ RunInv' /\ ContextsIntact'
    BY <2>1 DEF IInv, MainInv, MainLocals, MainStack, NoLocals, RunInv, RunOK, ContextsIntact, localVars
  <2>6. cpu[Main] = Main
    BY <2>1 DEF IInv, MainInv, MainStack
  <2>7. SchedulerInv'
    BY <2>1, <2>6, Names DEF IInv, SchedulerInv
  <2> QED BY <1>1, <2>3, <2>4, <2>5, <2>7 DEF IInv
<1> QED BY <1>2, <1>3, <1>4, <1>5

(* A step inside run() on stack s of thread t.                             *)
LEMMA RunMove ==
    ASSUME IInv, NEW t \in Threads, NEW s \in RunStacks, s = cpu[t], at[s] \in InRun, NEW place \in InRun,
           at' = [at EXCEPT ![s] = place], \A g \in Fibers : g # s => task'[g] = task[g],
           UNCHANGED <<localVars, m_state, ctx, curr, cpu, m_stopping, m_schedulerFiber>>,
           \A g \in Tasks \cup Direct : Referenced(g)' => Referenced(g)
    PROVE  /\ SpawnedInv' /\ MainInv' /\ SchedulerInv' /\ FiberInv' /\ ContextsIntact'
           /\ at'[s] = place /\ \A g \in Fibers : g # s => at'[g] = at[g]
<1>1. /\ s \in Fibers /\ Owner(s) = t /\ (t = Main => s = SchedulerFiber) /\ (t # Main => s = t /\ t \in Spawned)
      /\ s # Main /\ s \notin Tasks \cup Direct
  BY Running, Names
<1>2. at'[s] = place /\ \A g \in Fibers : g # s => at'[g] = at[g]
  BY <1>1 DEF IInv, TypeInv
<1>3. SpawnedInv'
  <2>1. ASSUME NEW u \in Spawned PROVE SpawnedOK(u)'
    <3>1. SpawnedOK(u) /\ u \in Fibers /\ u \in Threads
      BY Names DEF IInv, SpawnedInv
    <3>2. CASE u = s
      <4>1. cpu[u] = u
        BY <1>1, <3>2, Names
      <4> QED BY <1>2, <3>1, <3>2, <4>1 DEF SpawnedOK, localVars, InRun
    <3>3. CASE u # s
      BY <1>2, <3>1, <3>3 DEF SpawnedOK, NoLocals, localVars
    <3> QED BY <3>2, <3>3
  <2> QED BY <2>1 DEF SpawnedInv
<1>5. MainInv' /\ SchedulerInv'
  <2>0. at'[Main] = at[Main] /\ task'[Main] = task[Main]
    BY <1>1, <1>2, Names
  <2>1. CASE s = SchedulerFiber
    <3>1. t = Main /\ cpu[Main] = SchedulerFiber /\ SchedulerFiber \notin Tasks \cup Direct
      BY <1>1, <2>1, Names
    <3>2. /\ at[SchedulerFiber] \in InRun /\ at'[SchedulerFiber] \in InRun /\ "none" \notin InRun
          /\ "entry" \notin InRun /\ "dead" \notin InRun
      BY <1>2, <2>1 DEF InRun
    <3>3. MainLocals' /\ MainStack'
      BY <2>0, <3>1, <3>2 DEF IInv, MainInv, MainLocals, MainStack, NoLocals, localVars
    <3>4. SchedulerInv'
      BY <3>1, <3>2 DEF IInv, SchedulerInv
    <3> QED BY <3>3, <3>4 DEF MainInv
  <2>2. CASE s # SchedulerFiber
    <3>1. at'[SchedulerFiber] = at[SchedulerFiber] /\ task'[SchedulerFiber] = task[SchedulerFiber]
      BY <1>2, <2>2, Names
    <3>2. MainInv'
      BY <2>0, <3>1 DEF IInv, MainInv, MainLocals, MainStack, NoLocals, localVars
    <3>3. SchedulerInv'
      BY <3>1 DEF IInv, SchedulerInv
    <3> QED BY <3>2, <3>3
  <2> QED BY <2>1, <2>2
<1>6. FiberInv'
  <2>1. ASSUME NEW g \in Tasks \cup Direct PROVE FiberOK(g)'
    <3>1. FiberOK(g) /\ g \in Fibers /\ g # s
      BY <1>1, Names DEF IInv, FiberInv
    <3>2. Executed(g)' <=> Executed(g)
      BY DEF Executed
    <3> QED BY <1>2, <3>1, <3>2, FiberFrame
  <2> QED BY <2>1 DEF IInv, FiberInv
<1>7. ContextsIntact'
  <2>1. at[s] \notin {"none", "dead"}
    BY DEF InRun
  <2> QED BY <1>2, <2>1, ContextsKeep, Names
<1> QED BY <1>2, <1>3, <1>5, <1>6, <1>7

(* A step that neither takes nor gives back a fiber's mutex.               *)
LEMMA RunFrame ==
    ASSUME IInv, NEW s \in RunStacks, m_mutex' = m_mutex,
           \A g \in Fibers : g # s => at'[g] = at[g] /\ task'[g] = task[g], RunOK(s)'
    PROVE  RunInv'
<1>1. ASSUME NEW r \in RunStacks, r # s PROVE RunOK(r)'
  <2>1. RunOK(r) /\ r \in Fibers
    BY Names DEF IInv, RunInv
  <2> QED BY <1>1, <2>1 DEF RunOK
<1> QED BY <1>1 DEF RunInv

LEMMA InRunForm ==
    ASSUME IInv, NEW t \in Threads, NEW place, In(t, place)
    PROVE  \E s \in RunStacks : /\ s = cpu[t] /\ at[s] = place /\ RunOK(s) /\ Owner(s) = t
                                /\ s \in Fibers
BY Running, Names DEF In, IInv, RunInv

LEMMA RunKeeps ==
    ASSUME NEW t \in Threads
    PROVE  IInv /\ (LockFiber(t) \/ AfterResume(t) \/ DropTask(t) \/ \E f \in Tasks : Pop(t, f)) => IInv'
<1> SUFFICES ASSUME IInv, LockFiber(t) \/ AfterResume(t) \/ DropTask(t) \/ \E f \in Tasks : Pop(t, f) PROVE IInv'
  OBVIOUS
<1>1. TypeInv'
  BY RunType DEF IInv
<1>0. {"loop", "lock", "locked", "resuming", "unlock"} = InRun
  BY DEF InRun
<1> USE DEF HasTask, HasLock
<1>2. ASSUME NEW f \in Tasks, Pop(t, f) PROVE IInv'
  <2>1. PICK s \in RunStacks : s = cpu[t] /\ at[s] = "loop" /\ RunOK(s) /\ Owner(s) = t /\ s \in Fibers
    BY <1>2, InRunForm DEF Pop
  <2>2. /\ m_tasks[f] > 0 /\ m_tasks' = [m_tasks EXCEPT ![f] = m_tasks[f] - 1]
        /\ task' = [task EXCEPT ![s] = f] /\ at' = [at EXCEPT ![s] = "lock"]
        /\ UNCHANGED <<localVars, m_state, m_mutex, ctx, heap, curr, cpu, handles, m_schedulerFiber, m_stopping>>
    BY <1>2, <2>1 DEF Pop, Move, fiberVars
  <2>3. task[s] = NoFiber
    BY <2>1 DEF RunOK
  <2>4. task'[s] = f /\ \A g \in Fibers : g # s => task'[g] = task[g]
    BY <2>1, <2>2 DEF IInv, TypeInv, OfFiber
  <2>5. ASSUME NEW g \in Fibers PROVE Referenced(g)' <=> Referenced(g)
    <3>1. CASE g = f
      <4>1. Referenced(f)
        BY <2>2 DEF Referenced
      <4>2. Referenced(f)'
        BY <2>1, <2>4 DEF Referenced
      <4> QED BY <3>1, <4>1, <4>2
    <3>2. CASE g # f
      <4>1. g \in Tasks => m_tasks'[g] = m_tasks[g]
        BY <2>2, <3>2 DEF IInv, TypeInv
      <4>2. \A x \in Fibers : task'[x] = g <=> task[x] = g
        BY <2>3, <2>4, <3>2, Names
      <4> QED BY <2>2, <4>1, <4>2 DEF Referenced, localVars
    <3> QED BY <3>1, <3>2
  <2>6. \A g \in Tasks \cup Direct : Referenced(g)' => Referenced(g)
    BY <2>5, Names
  <2>7. /\ SpawnedInv' /\ MainInv' /\ SchedulerInv' /\ FiberInv' /\ ContextsIntact'
        /\ at'[s] = "lock" /\ \A g \in Fibers : g # s => at'[g] = at[g]
    <3>1. at[s] \in InRun /\ "lock" \in InRun
      BY <1>0, <2>1
    <3> QED BY <2>1, <2>2, <2>4, <2>6, <3>1, RunMove
  <2>8. RunOK(s)'
    BY <2>4, <2>7 DEF RunOK
  <2>9. RunInv'
    BY <2>2, <2>4, <2>7, <2>8, RunFrame
  <2>10. HeapInv'
    BY <2>2, <2>5, HeapSame DEF IInv
  <2> QED BY <1>1, <2>7, <2>9, <2>10 DEF IInv
<1>3. CASE LockFiber(t)
  <2>1. PICK s \in RunStacks : s = cpu[t] /\ at[s] = "lock" /\ RunOK(s) /\ Owner(s) = t /\ s \in Fibers
    BY <1>3, InRunForm DEF LockFiber
  <2>2. PICK f \in Tasks : f = task[s]
    BY <2>1 DEF RunOK
  <2>3. /\ m_mutex[f] = NoThread /\ m_mutex' = [m_mutex EXCEPT ![f] = t] /\ at' = [at EXCEPT ![s] = "locked"]
        /\ UNCHANGED <<localVars, m_state, ctx, heap, curr, task, cpu, m_tasks, handles, m_schedulerFiber, m_stopping>>
    BY <1>3, <2>1, <2>2 DEF LockFiber, Move, sharedVars
  <2>4. \A g \in Fibers : Referenced(g)' <=> Referenced(g)
    BY <2>3, ReferencedSame DEF localVars
  <2>5. /\ SpawnedInv' /\ MainInv' /\ SchedulerInv' /\ FiberInv' /\ ContextsIntact'
        /\ at'[s] = "locked" /\ \A g \in Fibers : g # s => at'[g] = at[g]
    <3>1. at[s] \in InRun /\ "locked" \in InRun /\ \A g \in Tasks \cup Direct : Referenced(g)' => Referenced(g)
      BY <1>0, <2>1, <2>4, Names
    <3> QED BY <2>1, <2>3, <3>1, RunMove
  <2>6. m_mutex'[f] = t /\ \A g \in Fibers : g # f => m_mutex'[g] = m_mutex[g]
    BY <2>3, Names DEF IInv, TypeInv
  <2>7. RunOK(s)'
    BY <2>1, <2>2, <2>3, <2>5, <2>6 DEF RunOK
  <2>8. ASSUME NEW r \in RunStacks, r # s PROVE RunOK(r)'
    <3>1. RunOK(r) /\ r \in Fibers /\ Owner(r) \in Threads /\ at'[r] = at[r] /\ task'[r] = task[r]
      BY <2>3, <2>5, <2>8, Names, Owners DEF IInv, RunInv
    <3>2. at[r] \in HasLock => task[r] \in Fibers /\ task[r] # f
      BY <2>3, <3>1, Names DEF RunOK
    <3> QED BY <2>6, <3>1, <3>2 DEF RunOK
  <2>9. HeapInv'
    BY <2>3, <2>4, HeapSame DEF IInv
  <2>10. RunInv'
    BY <2>7, <2>8 DEF RunInv
  <2> QED BY <1>1, <2>5, <2>9, <2>10 DEF IInv
<1>4. CASE AfterResume(t)
  <2>1. PICK s \in RunStacks : s = cpu[t] /\ at[s] \in {"resuming", "locked"} /\ RunOK(s) /\ Owner(s) = t /\ s \in Fibers
    BY <1>4, InRunForm DEF AfterResume
  <2>2. /\ at' = [at EXCEPT ![s] = "unlock"]
        /\ UNCHANGED <<localVars, m_state, m_mutex, ctx, heap, curr, task, cpu, m_tasks, handles, m_schedulerFiber, m_stopping>>
    BY <1>4, <2>1 DEF AfterResume, Move, sharedVars, fiberVars
  <2>3. \A g \in Fibers : Referenced(g)' <=> Referenced(g)
    BY <2>2, ReferencedSame DEF localVars
  <2>4. /\ SpawnedInv' /\ MainInv' /\ SchedulerInv' /\ FiberInv' /\ ContextsIntact'
        /\ at'[s] = "unlock" /\ \A g \in Fibers : g # s => at'[g] = at[g]
    <3>1. at[s] \in InRun /\ "unlock" \in InRun /\ \A g \in Tasks \cup Direct : Referenced(g)' => Referenced(g)
      BY <1>0, <2>1, <2>3, Names
    <3> QED BY <2>1, <2>2, <3>1, RunMove
  <2>5. RunOK(s)'
    BY <2>1, <2>2, <2>4 DEF RunOK
  <2>6. RunInv'
    BY <2>2, <2>4, <2>5, RunFrame
  <2>7. HeapInv'
    BY <2>2, <2>3, HeapSame DEF IInv
  <2> QED BY <1>1, <2>4, <2>6, <2>7 DEF IInv
<1>5. CASE DropTask(t)
  <2>1. PICK s \in RunStacks : s = cpu[t] /\ at[s] = "unlock" /\ RunOK(s) /\ Owner(s) = t /\ s \in Fibers
    BY <1>5, InRunForm DEF DropTask
  <2>2. PICK f \in Tasks : f = task[s] /\ m_mutex[f] = t
    BY <2>1 DEF RunOK
  <2>3. /\ m_mutex' = [m_mutex EXCEPT ![f] = NoThread] /\ at' = [at EXCEPT ![s] = "loop"]
        /\ task' = [task EXCEPT ![s] = NoFiber] /\ HeapAfter({})
        /\ UNCHANGED <<localVars, m_state, ctx, curr, cpu, m_tasks, handles, m_schedulerFiber, m_stopping>>
    BY <1>5, <2>1, <2>2 DEF DropTask, Move, sharedVars
  <2>4. task'[s] = NoFiber /\ \A g \in Fibers : g # s => task'[g] = task[g]
    BY <2>1, <2>3 DEF IInv, TypeInv, OfFiber
  <2>5. \A g \in Fibers : Referenced(g)' => Referenced(g)
    <3>1. \A g \in Fibers, x \in Fibers : task'[x] = g => task[x] = g
      BY <2>4, Names
    <3> QED BY <2>3, <3>1 DEF Referenced, localVars
  <2>6. /\ SpawnedInv' /\ MainInv' /\ SchedulerInv' /\ FiberInv' /\ ContextsIntact'
        /\ at'[s] = "loop" /\ \A g \in Fibers : g # s => at'[g] = at[g]
    <3>1. at[s] \in InRun /\ "loop" \in InRun /\ \A g \in Tasks \cup Direct : Referenced(g)' => Referenced(g)
      BY <1>0, <2>1, <2>5, Names
    <3> QED BY <2>1, <2>3, <2>4, <3>1, RunMove
  <2>7. \A g \in Fibers : g # f => m_mutex'[g] = m_mutex[g]
    BY <2>3, Names DEF IInv, TypeInv
  <2>8. RunOK(s)'
    BY <2>4, <2>6 DEF RunOK
  <2>9. ASSUME NEW r \in RunStacks, r # s PROVE RunOK(r)'
    <3>1. RunOK(r) /\ r \in Fibers /\ Owner(r) # t /\ at'[r] = at[r] /\ task'[r] = task[r]
      BY <2>1, <2>4, <2>6, <2>9, Names, Owners DEF IInv, RunInv
    <3>2. at[r] \in HasLock => task[r] \in Fibers /\ task[r] # f
      BY <2>2, <3>1, Names DEF RunOK
    <3> QED BY <2>7, <3>1, <3>2 DEF RunOK
  <2>10. HeapInv'
    BY <2>3, <2>5, HeapNext DEF IInv
  <2>11. RunInv'
    BY <2>8, <2>9 DEF RunInv
  <2> QED BY <1>1, <2>6, <2>10, <2>11 DEF IInv
<1> QED BY <1>2, <1>3, <1>4, <1>5

(* A spawned thread enters and leaves run().                               *)
LEMMA ThreadKeeps ==
    ASSUME NEW t \in Threads
    PROVE  IInv /\ (EnterRun(t) \/ ExitThread(t)) => IInv'
<1> SUFFICES ASSUME IInv, EnterRun(t) \/ ExitThread(t) PROVE IInv'
  OBVIOUS
<1>1. TypeInv'
  BY RunType DEF IInv
<1>2. t \in Spawned /\ cpu[t] = t /\ at[t] \in {"start", "loop"}
  <2>1. CASE EnterRun(t)
    <3>1. PICK s \in RunStacks : s = cpu[t] /\ at[s] = "start"
      BY <2>1 DEF EnterRun, In
    <3>2. s # SchedulerFiber
      BY <3>1 DEF IInv, SchedulerInv, InRun
    <3> QED BY <3>1, <3>2, Running
  <2>2. CASE ExitThread(t)
    BY <2>2, Names DEF ExitThread, In
  <2> QED BY <2>1, <2>2
<1>3. /\ t \in Fibers /\ t # Main /\ t # SchedulerFiber /\ t \notin Tasks \cup Direct /\ t \in RunStacks
      /\ SpawnedOK(t) /\ RunOK(t)
  BY <1>2, Names, Owners DEF IInv, SpawnedInv, RunInv
<1>4. PICK self \in {t, NoFiber}, place \in {"loop", "exited"} :
        /\ self = t <=> place = "loop"
        /\ t_fiber' = [t_fiber EXCEPT ![t] = self]
        /\ t_thread_fiber' = [t_thread_fiber EXCEPT ![t] = self]
        /\ t_scheduler_fiber' = [t_scheduler_fiber EXCEPT ![t] = self]
        /\ at' = [at EXCEPT ![t] = place] /\ HeapAfter({self} \ {NoFiber})
        /\ \A g \in Fibers : g # t => m_state'[g] = m_state[g]
        /\ UNCHANGED <<m_mutex, ctx, curr, task, cpu, m_tasks, handles, m_schedulerFiber, m_stopping>>
  <2>0. t # NoFiber
    BY <1>3, Names
  <2>1. CASE EnterRun(t)
    <3>1. {t} \ {NoFiber} = {t}
      BY <2>0
    <3>2. \A g \in Fibers : g # t => m_state'[g] = m_state[g]
      BY <2>1 DEF EnterRun, IInv, TypeInv
    <3>3. /\ t_fiber' = [t_fiber EXCEPT ![t] = t]
          /\ t_thread_fiber' = [t_thread_fiber EXCEPT ![t] = t]
          /\ t_scheduler_fiber' = [t_scheduler_fiber EXCEPT ![t] = t]
          /\ at' = [at EXCEPT ![t] = "loop"] /\ HeapAfter({t})
          /\ UNCHANGED <<m_mutex, ctx, curr, task, cpu, m_tasks, handles, m_schedulerFiber, m_stopping>>
      BY <2>1 DEF EnterRun, NewMainFiber, Move, sharedVars
    <3> QED BY <3>1, <3>2, <3>3
  <2>2. CASE ExitThread(t)
    <3>1. {NoFiber} \ {NoFiber} = {}
      OBVIOUS
    <3>2. /\ t_fiber' = [t_fiber EXCEPT ![t] = NoFiber]
          /\ t_thread_fiber' = [t_thread_fiber EXCEPT ![t] = NoFiber]
          /\ t_scheduler_fiber' = [t_scheduler_fiber EXCEPT ![t] = NoFiber]
          /\ at' = [at EXCEPT ![t] = "exited"] /\ HeapAfter({})
          /\ UNCHANGED <<m_state, m_mutex, ctx, curr, task, cpu, m_tasks, handles, m_schedulerFiber, m_stopping>>
      BY <2>2 DEF ExitThread, Move, sharedVars, fiberVars
    <3> QED BY <2>0, <3>1, <3>2
  <2> QED BY <2>1, <2>2
<1>5. /\ t_fiber'[t] = self /\ t_thread_fiber'[t] = self /\ t_scheduler_fiber'[t] = self
      /\ \A u \in Threads : u # t => /\ t_fiber'[u] = t_fiber[u] /\ t_thread_fiber'[u] = t_thread_fiber[u]
                                     /\ t_scheduler_fiber'[u] = t_scheduler_fiber[u]
      /\ at'[t] = place /\ \A g \in Fibers : g # t => at'[g] = at[g]
  BY <1>3, <1>4 DEF IInv, TypeInv, Locals
<1>6. SpawnedInv'
  <2>1. ASSUME NEW u \in Spawned PROVE SpawnedOK(u)'
    <3>1. SpawnedOK(u) /\ u \in Fibers /\ u \in Threads
      BY Names DEF IInv, SpawnedInv
    <3>2. CASE u = t
      BY <1>2, <1>4, <1>5, <3>2 DEF SpawnedOK, NoLocals, InRun
    <3>3. CASE u # t
      BY <1>4, <1>5, <3>1, <3>3 DEF SpawnedOK, NoLocals
    <3> QED BY <3>2, <3>3
  <2> QED BY <2>1 DEF SpawnedInv
<1>7. at'[Main] = at[Main] /\ at'[SchedulerFiber] = at[SchedulerFiber]
  BY <1>3, <1>5, Names
<1>8. MainInv' /\ SchedulerInv'
  <2>1. /\ t_fiber'[Main] = t_fiber[Main] /\ t_thread_fiber'[Main] = t_thread_fiber[Main]
        /\ t_scheduler_fiber'[Main] = t_scheduler_fiber[Main]
    BY <1>3, <1>5, Names
  <2> QED BY <1>4, <1>7, <2>1 DEF IInv, MainInv, MainLocals, MainStack, NoLocals, SchedulerInv
<1>9. RunInv'
  <2>1. RunOK(t)'
    BY <1>2, <1>3, <1>4, <1>5 DEF RunOK, HasTask, HasLock
  <2> QED BY <1>3, <1>4, <1>5, <2>1, RunFrame
<1>10. \A g \in Fibers : Referenced(g)' => Referenced(g) \/ g \in {self} \ {NoFiber}
  <2>1. \A g \in Fibers, u \in Threads : t_thread_fiber'[u] = g => t_thread_fiber[u] = g \/ g \in {self} \ {NoFiber}
    BY <1>5, Names
  <2> QED BY <1>4, <2>1 DEF Referenced
<1>11. HeapInv'
  <2>1. {self} \ {NoFiber} \in SUBSET Fibers
    BY <1>3
  <2> QED BY <1>4, <1>10, <2>1, HeapNext DEF IInv
<1>12. FiberInv'
  <2>1. ASSUME NEW g \in Tasks \cup Direct PROVE FiberOK(g)'
    <3>1. FiberOK(g) /\ g \in Fibers /\ g # t /\ g \notin {self} \ {NoFiber}
      BY <1>3, Names DEF IInv, FiberInv
    <3>2. Executed(g)' <=> Executed(g)
      BY <1>4 DEF Executed
    <3> QED BY <1>4, <1>5, <1>10, <3>1, <3>2, FiberFrame
  <2> QED BY <1>4, <2>1 DEF IInv, FiberInv
<1>13. ContextsIntact'
  BY <1>3, <1>4, <1>5, ContextsKeep, Names
<1> QED BY <1>1, <1>6, <1>8, <1>9, <1>11, <1>12, <1>13 DEF IInv

(* The function of fiber f, on its own stack.                              *)
LEMMA OwnStack ==
    ASSUME IInv, NEW t \in Threads, cpu[t] \in Built
    PROVE  \E f \in Built : /\ f = cpu[t] /\ f \in Fibers /\ f \notin Threads /\ t_fiber[t] = f /\ Executed(f)
                            /\ f \in Tasks \cup Direct => FiberOK(f) /\ f # SchedulerFiber
                            /\ f \notin Tasks \cup Direct => f = SchedulerFiber /\ t = Main /\ RunOK(f) /\ m_stopping
                            /\ Referenced(f)
<1>1. /\ cpu[t] \in Fibers /\ cpu[t] \notin Threads /\ t_fiber[t] = cpu[t]
      /\ cpu[t] \in Tasks \cup Direct => cpu[t] # SchedulerFiber
      /\ cpu[t] \notin Tasks \cup Direct => cpu[t] = SchedulerFiber
      /\ Executed(cpu[t])
  BY OnFiber, Names DEF Executed
<1>2. cpu[t] \in Tasks \cup Direct => FiberOK(cpu[t])
  BY DEF IInv, FiberInv
<1>3. cpu[t] = SchedulerFiber => t = Main /\ RunOK(SchedulerFiber) /\ m_stopping /\ m_schedulerFiber = SchedulerFiber
  <2>1. cpu[t] = SchedulerFiber => t = Main
    BY Executing, Names
  <2>2. RunOK(SchedulerFiber)
    BY Owners DEF IInv, RunInv
  <2> QED BY <2>1, <2>2 DEF IInv, SchedulerInv
<1>4. cpu[t] \in Tasks => \E s \in Fibers : task[s] = cpu[t]
  <2>1. CASE t \in Spawned
    BY <2>1, Executing, Names
  <2>2. CASE t = Main
    BY <2>2, Executing, Names
  <2> QED BY <2>1, <2>2, Names
<1>5. cpu[t] \in Direct => task[Main] = cpu[t]
  <2>1. cpu[t] \in Direct => t = Main
    BY OnFiber, Names
  <2> QED BY <2>1, Names DEF IInv, MainInv, MainStack
<1>6. Referenced(cpu[t])
  BY <1>1, <1>3, <1>4, <1>5, Names DEF Referenced
<1> QED BY <1>1, <1>2, <1>3, <1>6

LEMMA FunctionKeeps ==
    ASSUME NEW t \in Threads
    PROVE  IInv /\ (EnterMainFunc(t) \/ yield(t) \/ MainFunc(t)) => IInv'
<1> SUFFICES ASSUME IInv, EnterMainFunc(t) \/ yield(t) \/ MainFunc(t) PROVE IInv'
  OBVIOUS
<1>1. TypeInv'
  BY StepType DEF IInv
<1>2. cpu[t] \in Built
  BY DEF EnterMainFunc, yield, MainFunc, Executes
<1>3. PICK f \in Built : /\ f = cpu[t] /\ f \in Fibers /\ f \notin Threads /\ t_fiber[t] = f /\ Executed(f)
                         /\ f \in Tasks \cup Direct => FiberOK(f) /\ f # SchedulerFiber
                         /\ f \notin Tasks \cup Direct => f = SchedulerFiber /\ t = Main /\ RunOK(f) /\ m_stopping
                         /\ Referenced(f)
  BY <1>2, OwnStack
(* Where f goes, and which fiber's state changes: its own.                 *)
<1>4. PICK place \in Place, c \in {f, NoFiber} :
        /\ at' = [at EXCEPT ![f] = place] /\ curr' = [curr EXCEPT ![f] = c]
        /\ UNCHANGED <<localVars, m_mutex, ctx, task, cpu, sharedVars>>
        /\ \/ at[f] = "entry" /\ place = (IF f = SchedulerFiber THEN "loop" ELSE "body") /\ c = f /\ m_state' = m_state
           \/ at[f] = "body" /\ place = "leaving" /\ c = curr[f] /\ m_state' = [m_state EXCEPT ![f] = "READY"]
           \/ at[f] \in {"body", "loop"} /\ place = "dying" /\ c = NoFiber /\ m_state' = [m_state EXCEPT ![f] = "TERM"]
        /\ HeapAfter({}) \/ (heap' = heap /\ c = curr[f])
  <2>1. curr[f] = IF at[f] \in InRun \cup {"body", "leaving"} THEN f ELSE NoFiber
    <3>1. CASE f \in Tasks \cup Direct
      <4>1. at[f] \notin InRun
        BY <1>3, <3>1 DEF FiberOK, InRun
      <4> QED BY <1>3, <3>1, <4>1 DEF FiberOK
    <3>2. CASE f = SchedulerFiber
      <4>1. at[f] \notin {"body", "leaving"}
        BY <3>2 DEF IInv, SchedulerInv, InRun
      <4> QED BY <3>2, <4>1 DEF IInv, SchedulerInv
    <3> QED BY <1>3, <3>1, <3>2
  <2>2. CASE EnterMainFunc(t)
    <3>1. PICK place \in Place : place = IF f = SchedulerFiber THEN "loop" ELSE "body"
      BY Places DEF InRun
    <3>2. /\ at[f] = "entry" /\ at' = [at EXCEPT ![f] = place] /\ curr' = [curr EXCEPT ![f] = f]
          /\ UNCHANGED <<localVars, m_mutex, ctx, task, cpu, sharedVars, m_state>> /\ HeapAfter({})
      BY <1>3, <2>2, <3>1 DEF EnterMainFunc, Executes, Move, fiberVars
    <3> QED BY <3>1, <3>2
  <2>3. CASE yield(t)
    <3>1. /\ at[f] = "body" /\ at' = [at EXCEPT ![f] = "leaving"] /\ curr' = curr /\ heap' = heap
          /\ UNCHANGED <<localVars, m_mutex, ctx, task, cpu, sharedVars>>
          /\ m_state' = [m_state EXCEPT ![f] = "READY"]
      BY <1>3, <2>3 DEF yield, Executes, Move
    <3>2. curr[f] = f /\ curr' = [curr EXCEPT ![f] = f] /\ "leaving" \in Place
      BY <2>1, <3>1, Places DEF IInv, TypeInv, OfFiber
    <3> QED BY <3>1, <3>2
  <2>4. CASE MainFunc(t)
    <3>1. /\ at[f] \in {"body", "loop"} /\ at' = [at EXCEPT ![f] = "dying"] /\ curr' = [curr EXCEPT ![f] = NoFiber]
          /\ UNCHANGED <<localVars, m_mutex, ctx, task, cpu, sharedVars>> /\ HeapAfter({})
          /\ m_state' = [m_state EXCEPT ![curr[f]] = "TERM"]
      BY <1>3, <2>4 DEF MainFunc, Executes, Move
    <3>2. curr[f] = f /\ "dying" \in Place
      BY <2>1, <3>1, Places DEF InRun
    <3> QED BY <3>1, <3>2
  <2> QED BY <2>2, <2>3, <2>4
<1>5. /\ at'[f] = place /\ curr'[f] = c
      /\ \A g \in Fibers : g # f => at'[g] = at[g] /\ curr'[g] = curr[g] /\ m_state'[g] = m_state[g]
      /\ UNCHANGED <<m_tasks, handles, m_schedulerFiber, m_stopping>>
  BY <1>3, <1>4 DEF IInv, TypeInv, OfFiber, sharedVars
<1>6. Executed(f)' /\ \A g : Executed(g)' <=> Executed(g)
  BY <1>3, <1>4 DEF Executed
<1>7. \A g \in Fibers : Referenced(g)' => Referenced(g)
  <2>1. \A g \in Fibers, x \in Fibers : curr'[x] = g => curr[x] = g \/ g = f
    BY <1>5, Names
  <2> QED BY <1>3, <1>4, <1>5, <2>1 DEF Referenced, localVars
<1>8. HeapInv'
  <2>1. CASE HeapAfter({})
    BY <1>7, <2>1, HeapNext DEF IInv
  <2>2. CASE heap' = heap /\ c = curr[f]
    <3>1. curr' = curr
      BY <1>4, <2>2 DEF IInv, TypeInv, OfFiber
    <3> QED BY <1>4, <1>5, <2>2, <3>1, ReferencedSame, HeapSame DEF IInv, localVars
  <2> QED BY <1>4, <2>1, <2>2
<1>9. ContextsIntact'
  <2>1. at[f] \notin {"none", "dead"}
    BY <1>4
  <2> QED BY <1>3, <1>4, <1>5, <2>1, ContextsKeep, Names
<1>10. CASE f \in Tasks \cup Direct
  <2>1. SpawnedInv' /\ MainInv' /\ SchedulerInv' /\ RunInv'
    <3>1. \A g \in Threads \cup {SchedulerFiber} : at'[g] = at[g]
      BY <1>3, <1>5, <1>10, Names
    <3>2. curr'[SchedulerFiber] = curr[SchedulerFiber]
      BY <1>3, <1>5, <1>10, Names
    <3> QED BY <1>4, <1>5, <3>1, <3>2, ThreadsKeep
  <2>2. FiberOK(f)'
    <3>1. FiberOK(f) /\ f # SchedulerFiber
      BY <1>3, <1>10
    <3>2. /\ m_state'[f] = "TERM" <=> at'[f] = "dying"
          /\ at'[f] \in {"body", "leaving", "dying"} /\ curr'[f] = IF at'[f] \in {"body", "leaving"} THEN f ELSE NoFiber
      <4>1. CASE at[f] = "entry" /\ place = "body" /\ c = f /\ m_state' = m_state
        BY <1>5, <3>1, <4>1 DEF FiberOK
      <4>2. CASE at[f] = "body" /\ place = "leaving" /\ c = curr[f] /\ m_state' = [m_state EXCEPT ![f] = "READY"]
        BY <1>3, <1>5, <3>1, <4>2 DEF FiberOK, IInv, TypeInv
      <4>3. CASE at[f] \in {"body", "loop"} /\ place = "dying" /\ c = NoFiber /\ m_state' = [m_state EXCEPT ![f] = "TERM"]
        BY <1>3, <1>5, <3>1, <4>3 DEF IInv, TypeInv
      <4> QED BY <1>4, <3>1, <4>1, <4>2, <4>3
    <3>3. task'[f] = NoFiber
      BY <1>4, <3>1 DEF FiberOK
    <3> QED BY <1>6, <3>2, <3>3 DEF FiberOK
  <2>3. FiberInv'
    <3>1. ASSUME NEW g \in Tasks \cup Direct, g # f PROVE FiberOK(g)'
      <4>1. FiberOK(g) /\ g \in Fibers
        BY Names DEF IInv, FiberInv
      <4> QED BY <1>4, <1>5, <1>6, <1>7, <3>1, <4>1, FiberFrame
    <3>2. \A u \in Threads : curr'[u] = curr[u]
      BY <1>3, <1>5, Names
    <3> QED BY <2>2, <3>1, <3>2 DEF IInv, FiberInv
  <2> QED BY <1>1, <1>8, <1>9, <2>1, <2>3 DEF IInv
<1>11. CASE f = SchedulerFiber
  <2>0. /\ t = Main /\ RunOK(SchedulerFiber) /\ m_stopping /\ cpu[Main] = SchedulerFiber
    BY <1>3, <1>11, Names
  <2>1. \/ at[SchedulerFiber] = "entry" /\ at'[SchedulerFiber] = "loop" /\ curr'[SchedulerFiber] = SchedulerFiber
        \/ at[SchedulerFiber] = "loop" /\ at'[SchedulerFiber] = "dying" /\ curr'[SchedulerFiber] = NoFiber
    <3>1. at[SchedulerFiber] # "body"
      BY DEF IInv, SchedulerInv, InRun
    <3> QED BY <1>4, <1>5, <1>11, <3>1
  <2>2. SpawnedInv'
    <3>1. \A u \in Spawned : at'[u] = at[u] /\ u \in Fibers
      BY <1>5, <1>11, Names
    <3> QED BY <1>4, <3>1 DEF IInv, SpawnedInv, SpawnedOK, NoLocals, localVars
  <2>3. MainInv'
    <3>1. at'[Main] = at[Main]
      BY <1>5, <1>11, Names
    <3> QED BY <1>4, <2>0, <2>1, <3>1, Names DEF IInv, MainInv, MainLocals, MainStack, NoLocals, localVars
  <2>4. SchedulerInv'
    BY <1>4, <1>5, <2>0, <2>1, Names DEF IInv, SchedulerInv, InRun
  <2>5. RunInv'
    <3>1. RunOK(SchedulerFiber)'
      BY <1>4, <2>0, <2>1 DEF RunOK, HasTask, HasLock
    <3> QED BY <1>4, <1>5, <1>11, <3>1, Owners, RunFrame
  <2>6. FiberInv'
    <3>1. ASSUME NEW g \in Tasks \cup Direct PROVE FiberOK(g)'
      <4>1. FiberOK(g) /\ g \in Fibers /\ g # f
        BY <1>11, Names DEF IInv, FiberInv
      <4> QED BY <1>4, <1>5, <1>6, <1>7, <4>1, FiberFrame
    <3>2. \A u \in Threads : curr'[u] = curr[u]
      BY <1>3, <1>5, Names
    <3> QED BY <3>1, <3>2 DEF IInv, FiberInv
  <2> QED BY <1>1, <1>8, <1>9, <2>2, <2>3, <2>4, <2>5, <2>6 DEF IInv
<1> QED BY <1>3, <1>10, <1>11

-----------------------------------------------------------------------------
(***************************************************************************)
(* The invariant holds.                                                    *)
(***************************************************************************)
LEMMA InitIInv == Init => IInv
<1> SUFFICES ASSUME Init PROVE IInv
  OBVIOUS
<1> USE DEF Init
<1>1. TypeInv
  <2>1. at \in [Fibers -> Place]
    BY Places
  <2>2. m_tasks \in [Tasks -> 0..MaxQueued] /\ yields \in 0..MaxYields /\ resets \in 0..MaxResets
    BY BoundAssumption
  <2>3. cpu \in [Threads -> Fibers] /\ m_state \in [Fibers -> State]
    BY Names, Places
  <2> QED BY <2>1, <2>2, <2>3 DEF TypeInv, Locals, OfFiber
<1>2. /\ at[Main] = "user" /\ at[SchedulerFiber] = "none" /\ cpu[Main] = Main /\ task[Main] = NoFiber
      /\ t_fiber[Main] = NoFiber /\ t_thread_fiber[Main] = NoFiber /\ t_scheduler_fiber[Main] = NoFiber
      /\ curr[SchedulerFiber] = NoFiber /\ task[SchedulerFiber] = NoFiber
  BY Names
<1>3. /\ \A t \in Spawned : /\ at[t] = "start" /\ cpu[t] = t /\ task[t] = NoFiber
                            /\ t_fiber[t] = NoFiber /\ t_thread_fiber[t] = NoFiber /\ t_scheduler_fiber[t] = NoFiber
      /\ \A f \in Tasks \cup Direct : /\ at[f] = "none" /\ curr[f] = NoFiber /\ task[f] = NoFiber
                                      /\ m_state[f] # "TERM"
      /\ \A t \in Threads : cpu[t] = t /\ curr[t] = NoFiber
      /\ \A f \in Built : at[f] = "none"
  BY Names
<1>4. \A f \in Fibers : ~Referenced(f)
  BY Names DEF Referenced
<1> HIDE DEF Init
<1>5. SpawnedInv
  BY <1>3 DEF SpawnedInv, SpawnedOK, NoLocals
<1>6. MainInv
  BY <1>2 DEF MainInv, MainLocals, MainStack, NoLocals
<1>7. SchedulerInv
  BY <1>2, Names DEF SchedulerInv, InRun, Init
<1>8. RunInv
  BY <1>2, <1>3 DEF RunInv, RunOK, RunStacks, HasTask, HasLock
<1>9. FiberInv
  <2>1. \A f \in Tasks \cup Direct : ~Executed(f) /\ ~Referenced(f)
    BY <1>3, <1>4, Names DEF Executed
  <2> QED BY <1>3, <2>1 DEF FiberInv, FiberOK
<1>10. ContextsIntact
  BY <1>3 DEF ContextsIntact
<1>11. HeapInv
  BY <1>4 DEF HeapInv, Init
<1> QED BY <1>1, <1>5, <1>6, <1>7, <1>8, <1>9, <1>10, <1>11 DEF IInv

LEMMA StutterKeeps == IInv /\ UNCHANGED vars => IInv'
<1> SUFFICES ASSUME IInv, UNCHANGED vars PROVE IInv'
  OBVIOUS
<1> USE DEF vars, localVars, fiberVars, stackVars, sharedVars, boundVars
<1>0. \A f \in Fibers : Referenced(f)' <=> Referenced(f)
  BY ReferencedSame
<1>1. TypeInv'
  BY DEF IInv, TypeInv, Locals, OfFiber
<1>2. SpawnedInv' /\ MainInv' /\ SchedulerInv' /\ RunInv'
  BY ThreadsKeep
<1>3. FiberInv'
  <2>1. ASSUME NEW f \in Tasks \cup Direct PROVE FiberOK(f)'
    BY <1>0, <2>1, FiberFrame, Names DEF IInv, FiberInv, Executed
  <2> QED BY <2>1 DEF IInv, FiberInv
<1>4. ContextsIntact'
  BY DEF IInv, ContextsIntact
<1>5. HeapInv'
  BY <1>0, HeapSame DEF IInv
<1> QED BY <1>1, <1>2, <1>3, <1>4, <1>5 DEF IInv

(* The invariant of everything below: which stack each thread executes,    *)
(* what its pointers then are, and that suspended stacks have a context.   *)
THEOREM Inductive == Spec => []IInv
<1>1. IInv /\ [Next]_vars => IInv'
  <2> SUFFICES ASSUME IInv, [Next]_vars PROVE IInv'
    OBVIOUS
  <2>1. CASE UNCHANGED vars
    BY <2>1, StutterKeeps
  <2>2. CASE Program
    BY <2>2, ProgramKeeps, DirectKeeps DEF Program
  <2>3. CASE MainThread
    BY <2>3, MainKeeps, StopKeeps DEF MainThread
  <2>4. ASSUME NEW t \in Threads, run(t) PROVE IInv'
    BY <2>4, TaskKeeps, RunKeeps, ThreadKeeps DEF run
  <2>5. ASSUME NEW t \in Threads, FiberStep(t) PROVE IInv'
    BY <2>5, FunctionKeeps, OutKeeps DEF FiberStep
  <2> QED BY <2>1, <2>2, <2>3, <2>4, <2>5 DEF Next
<1> QED BY <1>1, InitIInv, PTL DEF Spec

(* Every variable keeps its type; a thread always executes a stack that    *)
(* swapcontext() was given, never the empty context of a running fiber.    *)
THEOREM TypeCorrect == Spec => []TypeOK
<1>1. IInv => TypeOK
  BY DEF IInv, TypeInv, TypeOK, Locals, OfFiber
<1> QED BY <1>1, Inductive, PTL

(* GetThis() names the fiber whose stack the thread executes, for every    *)
(* number of threads and however often a fiber changes threads.            *)
THEOREM GetThisIsRight == Spec => []ThisIsRunning
<1>1. IInv => ThisIsRunning
  <2> SUFFICES ASSUME IInv, NEW t \in Threads
               PROVE  t_fiber[t] \in {cpu[t], NoFiber} /\ (cpu[t] # t => t_fiber[t] # NoFiber)
    BY DEF ThisIsRunning
  <2>1. CASE t = Main
    BY <2>1, Names DEF IInv, MainInv, MainLocals, MainStack, NoLocals, TypeInv
  <2>2. CASE t \in Spawned
    BY <2>2, Names DEF IInv, SpawnedInv, SpawnedOK, NoLocals, TypeInv, InRun
  <2> QED BY <2>1, <2>2, Names
<1> QED BY <1>1, Inductive, PTL

(* Two threads never execute one stack, and a suspended stack has its      *)
(* continuation in its own Fiber: no resume() or yield() overwrites it.    *)
THEOREM NoContextOverwritten == Spec => []ContextsIntact
<1>1. IInv => ContextsIntact
  BY DEF IInv
<1> QED BY <1>1, Inductive, PTL

(* What a thread executes, what t_fiber points to, and what yield() will   *)
(* continue exist; no fiber is freed between its first and last statement. *)
THEOREM NothingUsedAfterFree == Spec => []NoUseAfterFree
<1>1. IInv => NoUseAfterFree
  <2> SUFFICES ASSUME IInv PROVE NoUseAfterFree
    OBVIOUS
  <2>0. \A f \in Fibers : Referenced(f) => f \in heap
    BY DEF IInv, HeapInv
  <2>1. \A t \in Threads : t_thread_fiber[t] = t => t \in heap
    BY <2>0, Names DEF Referenced
  <2>2. ASSUME NEW t \in Threads, cpu[t] \in Built
        PROVE  cpu[t] \in heap /\ t_fiber[t] \in heap
    BY <2>0, <2>2, OwnStack
  <2>3. ASSUME NEW t \in Threads, cpu[t] \in Built
        PROVE  Peer(t, cpu[t]) \in heap
    <3>1. t_thread_fiber[t] = t
      <4>1. CASE t = Main
        BY <2>3, <4>1, OnFiber, Names DEF IInv, MainInv, MainLocals, NoLocals, TypeInv
      <4>2. CASE t \in Spawned
        BY <2>3, <4>2, OnFiber, Names DEF IInv, SpawnedInv, SpawnedOK, NoLocals, TypeInv, InRun
      <4> QED BY <4>1, <4>2, Names
    <3>2. CASE cpu[t] \in Tasks /\ t = Main
      <4>1. Peer(t, cpu[t]) = SchedulerFiber
        BY <2>3, <3>2, OnFiber
      <4>2. at[SchedulerFiber] = "resuming"
        BY <3>2, Executing
      <4>3. curr[SchedulerFiber] = SchedulerFiber
        BY <4>2 DEF IInv, SchedulerInv, InRun
      <4> QED BY <4>1, <4>3, <2>0, Names DEF Referenced
    <3>3. CASE ~(cpu[t] \in Tasks /\ t = Main)
      BY <2>1, <2>3, <3>1, <3>3, OnFiber
    <3> QED BY <3>2, <3>3
  <2>4. ASSUME NEW t \in Threads PROVE cpu[t] = t \/ cpu[t] \in Built
    BY Executing, Names
  <2>5. ASSUME NEW t \in Threads, cpu[t] = t PROVE t_fiber[t] \in heap \cup {NoFiber}
    <3>1. CASE t = Main
      BY <2>1, <2>5, <3>1, Names DEF IInv, MainInv, MainLocals, NoLocals
    <3>2. CASE t \in Spawned
      BY <2>1, <2>5, <3>2, Names DEF IInv, SpawnedInv, SpawnedOK, NoLocals
    <3> QED BY <3>1, <3>2, Names
  <2>6. ASSUME NEW f \in Built, at[f] \in {"body", "leaving", "dying"} PROVE f \in heap
    <3>1. CASE f = SchedulerFiber
      <4>1. m_schedulerFiber = SchedulerFiber
        BY <2>6, <3>1 DEF IInv, SchedulerInv, InRun
      <4> QED BY <3>1, <4>1, <2>0, Names DEF Referenced
    <3>2. CASE f \in Tasks \cup Direct
      <4>1. FiberOK(f) /\ f \in Fibers
        BY <3>2, Names DEF IInv, FiberInv
      <4>2. CASE at[f] \in {"body", "leaving"}
        BY <4>1, <4>2, <2>0 DEF FiberOK, Referenced
      <4>3. CASE at[f] = "dying"
        BY <4>1, <4>3, <2>2 DEF FiberOK, Executed
      <4> QED BY <2>6, <4>2, <4>3
    <3> QED BY <3>1, <3>2, Names
  <2> QED BY <2>2, <2>3, <2>4, <2>5, <2>6 DEF NoUseAfterFree
<1> QED BY <1>1, Inductive, PTL

-----------------------------------------------------------------------------
(***************************************************************************)
(* Refinement of asymmetric coroutines.                                    *)
(***************************************************************************)
Dead == {f \in Built : at[f] = "dead"}

(* Who resumed f, when a thread executes it and when none does; the stacks *)
(* that threads execute are a parameter, to speak of two states.           *)
ResumerWhen(stack, f) ==
    CASE \E t \in Threads : stack[t] = f ->
            IF f \in Tasks THEN IF stack[Main] = f THEN SchedulerFiber
                                                   ELSE CHOOSE t \in Threads : stack[t] = f
            ELSE Main
      [] f = SchedulerFiber /\ stack[Main] \in Tasks -> Main
      [] OTHER -> NoFiber

LEMMA ResumerForm ==
    ASSUME NEW stack, \A t, u \in Threads : stack[t] = stack[u] => t = u, NEW f \in Built
    PROVE  /\ \A t \in Threads : stack[t] = f =>
                  ResumerWhen(stack, f) = IF f \in Tasks THEN IF t = Main THEN SchedulerFiber ELSE t ELSE Main
           /\ (\A t \in Threads : stack[t] # f) =>
                  ResumerWhen(stack, f) = IF f = SchedulerFiber /\ stack[Main] \in Tasks THEN Main ELSE NoFiber
<1>1. ASSUME NEW t \in Threads, stack[t] = f
      PROVE  ResumerWhen(stack, f) = IF f \in Tasks THEN IF t = Main THEN SchedulerFiber ELSE t ELSE Main
  <2>1. CASE f \in Tasks
    <3>1. f # SchedulerFiber
      BY <2>1, Names
    <3>2. \A u \in Threads : stack[u] = f => u = t
      BY <1>1
    <3>3. (CHOOSE u \in Threads : stack[u] = f) = t
      BY <1>1, <3>2
    <3>4. ResumerWhen(stack, f) = IF stack[Main] = f THEN SchedulerFiber ELSE CHOOSE u \in Threads : stack[u] = f
      BY <1>1, <2>1, <3>1 DEF ResumerWhen
    <3> QED BY <1>1, <2>1, <3>2, <3>3, <3>4, Names
  <2>2. CASE f \notin Tasks
    BY <1>1, <2>2 DEF ResumerWhen
  <2> QED BY <2>1, <2>2
<1>2. ASSUME \A t \in Threads : stack[t] # f
      PROVE  ResumerWhen(stack, f) = IF f = SchedulerFiber /\ stack[Main] \in Tasks THEN Main ELSE NoFiber
  BY <1>2 DEF ResumerWhen
<1> QED BY <1>1, <1>2

(* The abstract state, before and after a step.                            *)
LEMMA Resumers ==
    /\ resumer = [f \in Built |-> ResumerWhen(cpu, f)]
    /\ resumer' = [f \in Built |-> ResumerWhen(cpu', f)]
BY DEF resumer, ResumerWhen

(* A step that switches no stack and ends no fiber is a stutter.           *)
LEMMA NoSwitch ==
    ASSUME cpu' = cpu, \A f \in Built : at'[f] = "dead" <=> at[f] = "dead"
    PROVE  UNCHANGED <<cpu, resumer, Dead>>
<1>1. resumer' = resumer
  BY Resumers
<1>2. Dead' = Dead
  BY DEF Dead
<1> QED BY <1>1, <1>2

(* Thread t executes s in a, and f, which s has resumed, in b.             *)
LEMMA OneSwitch ==
    ASSUME NEW a, NEW b, \A u, v \in Threads : a[u] = a[v] => u = v, \A u, v \in Threads : b[u] = b[v] => u = v,
           NEW t \in Threads, NEW f \in Built, NEW s, a[t] = s, b[t] = f, \A u \in Threads : a[u] # f,
           \A u \in Threads : u # t => a[u] = b[u],
           \/ f \in Tasks /\ s = IF t = Main THEN SchedulerFiber ELSE t
           \/ f \notin Tasks /\ t = Main /\ s = Main
    PROVE  /\ ResumerWhen(a, f) = NoFiber /\ ResumerWhen(b, f) = s
           /\ \A g \in Built : g # f => ResumerWhen(a, g) = ResumerWhen(b, g)
<1>1. f \in Tasks => f # SchedulerFiber
  BY Names
<1>2. s \notin Tasks /\ Main \in Threads /\ Main \notin Tasks
  BY Names
<1>3. ResumerWhen(b, f) = s
  BY <1>1, ResumerForm
<1>4. ResumerWhen(a, f) = NoFiber
  <2>1. ResumerWhen(a, f) = IF f = SchedulerFiber /\ a[Main] \in Tasks THEN Main ELSE NoFiber
    BY ResumerForm
  <2>2. f = SchedulerFiber => a[Main] = Main
    BY <1>1
  <2> QED BY <1>2, <2>1, <2>2
<1>5. ASSUME NEW g \in Built, g # f PROVE ResumerWhen(a, g) = ResumerWhen(b, g)
  <2>1. CASE \E u \in Threads : u # t /\ a[u] = g
    <3>1. PICK u \in Threads : u # t /\ a[u] = g /\ b[u] = g
      BY <2>1
    <3>2. ResumerWhen(a, g) = IF g \in Tasks THEN IF u = Main THEN SchedulerFiber ELSE u ELSE Main
      BY <3>1, ResumerForm
    <3>3. ResumerWhen(b, g) = IF g \in Tasks THEN IF u = Main THEN SchedulerFiber ELSE u ELSE Main
      BY <3>1, ResumerForm
    <3> QED BY <3>2, <3>3
  <2>2. CASE g = s
    <3>1. g = SchedulerFiber /\ t = Main /\ f \in Tasks /\ g \notin Tasks
      BY <2>2, Names
    <3>2. ResumerWhen(a, g) = Main
      BY <2>2, <3>1, ResumerForm
    <3>3. \A u \in Threads : b[u] # g
      BY <1>5, <2>2, <3>1
    <3>4. ResumerWhen(b, g) = Main
      BY <3>1, <3>3, <1>2, ResumerForm
    <3> QED BY <3>2, <3>4
  <2>3. CASE g # s /\ \A u \in Threads : u # t => a[u] # g
    <3>1. \A u \in Threads : a[u] # g /\ b[u] # g
      BY <1>5, <2>3
    <3>2. ResumerWhen(a, g) = IF g = SchedulerFiber /\ a[Main] \in Tasks THEN Main ELSE NoFiber
      BY <3>1, ResumerForm
    <3>3. ResumerWhen(b, g) = IF g = SchedulerFiber /\ b[Main] \in Tasks THEN Main ELSE NoFiber
      BY <3>1, ResumerForm
    <3>4. g = SchedulerFiber => (a[Main] \in Tasks <=> b[Main] \in Tasks)
      <4>1. CASE t = Main
        BY <4>1, <2>3, <1>2
      <4>2. CASE t # Main
        BY <4>2, <1>2
      <4> QED BY <4>1, <4>2
    <3> QED BY <3>2, <3>3, <3>4
  <2> QED BY <2>1, <2>2, <2>3
<1> QED BY <1>3, <1>4, <1>5

LEMMA InIsResume ==
    ASSUME IInv, IInv', NEW t \in Threads, NEW s \in Fibers, NEW f \in Built, SwitchIn(t, s, f),
           \/ f \in Tasks /\ s = IF t = Main THEN SchedulerFiber ELSE t
           \/ f \notin Tasks /\ t = Main /\ s = Main
    PROVE  Asymmetric!Resume(t, f)
<1>1. /\ cpu[t] = s /\ cpu' = [cpu EXCEPT ![t] = f] /\ at[f] \in {"entry", "body"}
      /\ at' = [at EXCEPT ![s] = "resuming"] /\ at \in [Fibers -> Place] /\ cpu \in [Threads -> Fibers]
      /\ \A u \in Threads : cpu[u] # f
  BY DEF SwitchIn, Switch, Executed, IInv, TypeInv
<1>2. at[s] # "dead"
  <2>1. s = SchedulerFiber => at[s] # "dead"
    BY <1>1, OnFiber, Names DEF InRun
  <2>2. s \in Threads => at[s] # "dead"
    BY <1>1, Names DEF IInv, MainInv, MainStack, SpawnedInv, SpawnedOK, InRun
  <2> QED BY <2>1, <2>2, Names
<1>3. /\ \A u, v \in Threads : cpu[u] = cpu[v] => u = v
      /\ \A u, v \in Threads : cpu'[u] = cpu'[v] => u = v
  BY DEF IInv, ContextsIntact
<1>4. cpu'[t] = f /\ \A u \in Threads : u # t => cpu[u] = cpu'[u]
  BY <1>1
<1>5. /\ ResumerWhen(cpu, f) = NoFiber /\ ResumerWhen(cpu', f) = s
      /\ \A g \in Built : g # f => ResumerWhen(cpu, g) = ResumerWhen(cpu', g)
  <2> DEFINE a == cpu
             b == cpu'
  <2>1. /\ \A u, v \in Threads : a[u] = a[v] => u = v
        /\ \A u, v \in Threads : b[u] = b[v] => u = v
        /\ a[t] = s /\ b[t] = f /\ (\A u \in Threads : a[u] # f) /\ \A u \in Threads : u # t => a[u] = b[u]
    BY <1>1, <1>3, <1>4
  <2> HIDE DEF a, b
  <2>2. /\ ResumerWhen(a, f) = NoFiber /\ ResumerWhen(b, f) = s
        /\ \A g \in Built : g # f => ResumerWhen(a, g) = ResumerWhen(b, g)
    BY <2>1, OneSwitch
  <2> QED BY <2>2 DEF a, b
<1>6. resumer[f] = NoFiber /\ resumer' = [resumer EXCEPT ![f] = cpu[t]]
  BY <1>1, <1>5, Resumers
<1>7. Dead' = Dead /\ f \notin Dead
  BY <1>1, <1>2, Names DEF Dead
<1> QED BY <1>1, <1>6, <1>7 DEF Asymmetric!Resume, Dead

LEMMA OutIsGiveBack ==
    ASSUME IInv, IInv', NEW t \in Threads, NEW p \in Fibers, NEW f \in Built, SwitchOut(t, f, p)
    PROVE  Asymmetric!GiveBack(t, f)
<1>1. /\ cpu[t] = f /\ cpu' = [cpu EXCEPT ![t] = p] /\ f # p
      /\ at' = [at EXCEPT ![f] = "body"] \/ at' = [at EXCEPT ![f] = "dead"]
      /\ at[f] # "dead" /\ at \in [Fibers -> Place] /\ cpu \in [Threads -> Fibers]
      /\ \/ f \in Tasks /\ p = IF t = Main THEN SchedulerFiber ELSE t
         \/ f \notin Tasks /\ t = Main /\ p = Main
  BY DEF SwitchOut, Switch, Executed, IInv, TypeInv
<1>2. /\ \A u, v \in Threads : cpu[u] = cpu[v] => u = v
      /\ \A u, v \in Threads : cpu'[u] = cpu'[v] => u = v
  BY DEF IInv, ContextsIntact
<1>3. /\ cpu'[t] = p /\ \A u \in Threads : u # t => cpu'[u] = cpu[u]
      /\ \A u \in Threads : cpu'[u] # f
  BY <1>1, <1>2
<1>4. /\ ResumerWhen(cpu', f) = NoFiber /\ ResumerWhen(cpu, f) = p
      /\ \A g \in Built : g # f => ResumerWhen(cpu', g) = ResumerWhen(cpu, g)
  <2> DEFINE a == cpu'
             b == cpu
  <2>1. /\ \A u, v \in Threads : a[u] = a[v] => u = v
        /\ \A u, v \in Threads : b[u] = b[v] => u = v
        /\ a[t] = p /\ b[t] = f /\ (\A u \in Threads : a[u] # f) /\ \A u \in Threads : u # t => a[u] = b[u]
    BY <1>1, <1>2, <1>3
  <2> HIDE DEF a, b
  <2>2. /\ ResumerWhen(a, f) = NoFiber /\ ResumerWhen(b, f) = p
        /\ \A g \in Built : g # f => ResumerWhen(a, g) = ResumerWhen(b, g)
    BY <1>1, <2>1, OneSwitch
  <2> QED BY <2>2 DEF a, b
<1>5. resumer[f] = p /\ resumer' = [resumer EXCEPT ![f] = NoFiber]
  BY <1>4, Resumers
<1>6. Dead' \in {Dead, Dead \cup {f}}
  BY <1>1, Names DEF Dead
<1> QED BY <1>1, <1>5, <1>6 DEF Asymmetric!GiveBack, Dead

(* What changes no stack's end but that of f.                              *)
LEMMA MoveIsStutter ==
    ASSUME IInv, cpu' = cpu, NEW s, NEW place, at' = [at EXCEPT ![s] = place] \/ at' = at,
           place # "dead" /\ (s \in Built => at[s] # "dead")
    PROVE  UNCHANGED <<cpu, resumer, Dead>>
<1>1. at \in [Fibers -> Place]
  BY DEF IInv, TypeInv
<1> QED BY <1>1, NoSwitch, Names

LEMMA ProgramImplements ==
    ASSUME IInv, IInv', Program
    PROVE  Asymmetric!Next \/ UNCHANGED <<cpu, resumer, Dead>>
<1>0. PICK f \in Tasks \cup Direct : New(f) \/ DropHandle(f) \/ Schedule(f) \/ reset(f) \/ ResumeDirect(f)
  BY DEF Program
<1>1. f \in Built /\ f \in Fibers
  BY Names
<1>2. CASE New(f)
  BY <1>2, MoveIsStutter DEF New, Fresh, Move
<1>3. CASE DropHandle(f) \/ Schedule(f)
  BY <1>3, NoSwitch DEF DropHandle, Schedule, stackVars
<1>4. CASE reset(f)
  <2>1. FiberOK(f) /\ m_state[f] = "TERM" /\ ~Executed(f)
    BY <1>4 DEF IInv, FiberInv, reset, Executed
  <2>2. at[f] = "dead" /\ at' = [at EXCEPT ![f] = "entry"] /\ cpu' = cpu /\ at \in [Fibers -> Place]
    BY <1>4, <2>1 DEF FiberOK, reset, Fresh, Move, IInv, TypeInv
  <2>3. f \in Dead /\ Dead' = Dead \ {f} /\ resumer' = resumer
    BY <1>1, <2>2, Resumers, Names DEF Dead
  <2>4. Asymmetric!Renew(f)
    BY <2>2, <2>3 DEF Asymmetric!Renew, Dead
  <2> QED BY <1>1, <2>4 DEF Asymmetric!Next
<1>5. CASE ResumeDirect(f)
  <2>1. SwitchIn(Main, Main, f) /\ f \notin Tasks /\ Main \in Threads /\ Main \in Fibers
    BY <1>5, DirectForm, Names
  <2>2. Asymmetric!Resume(Main, f)
    BY <1>1, <2>1, InIsResume
  <2> QED BY <1>1, <2>1, <2>2 DEF Asymmetric!Next
<1> QED BY <1>0, <1>2, <1>3, <1>4, <1>5

LEMMA MainImplements ==
    ASSUME IInv, IInv', MainThread
    PROVE  Asymmetric!Next \/ UNCHANGED <<cpu, resumer, Dead>>
<1> USE DEF stackVars
<1>1. CASE MainGetThis \/ DeleteScheduler
  BY <1>1, NoSwitch DEF MainGetThis, DeleteScheduler
<1>2. CASE NewScheduler
  BY <1>2, MoveIsStutter DEF NewScheduler, Move
<1>3. CASE stop
  <2>1. SwitchIn(Main, Main, SchedulerFiber)
    BY <1>3, StopForm
  <2>2. SchedulerFiber \notin Tasks /\ Main \in Threads /\ Main \in Fibers /\ SchedulerFiber \in Built
    BY Names
  <2>3. Asymmetric!Resume(Main, SchedulerFiber)
    BY <2>1, <2>2, InIsResume
  <2> QED BY <2>2, <2>3 DEF Asymmetric!Next
<1>4. CASE MainReturns
  BY <1>4, MoveIsStutter DEF MainReturns, Move
<1> QED BY <1>1, <1>2, <1>3, <1>4 DEF MainThread

LEMMA RunImplements ==
    ASSUME IInv, IInv', NEW t \in Threads, run(t)
    PROVE  Asymmetric!Next \/ UNCHANGED <<cpu, resumer, Dead>>
<1>1. CASE ResumeTask(t)
  <2>1. PICK s \in RunStacks, f \in Tasks :
          SwitchIn(t, s, f) /\ (t = Main => s = SchedulerFiber) /\ (t # Main => s = t)
    BY <1>1, TaskForm
  <2>2. f \in Built /\ s \in Fibers
    BY Names DEF RunStacks
  <2>3. Asymmetric!Resume(t, f)
    BY <2>1, <2>2, InIsResume
  <2> QED BY <2>2, <2>3 DEF Asymmetric!Next
<1>2. CASE EnterRun(t) \/ ExitThread(t)
  <2>1. t \notin Built
    BY Names
  <2> QED BY <1>2, <2>1, MoveIsStutter DEF EnterRun, ExitThread, Move
<1>3. CASE LockFiber(t) \/ AfterResume(t) \/ DropTask(t) \/ \E f \in Tasks : Pop(t, f)
  <2>1. at[cpu[t]] # "dead"
    BY <1>3 DEF LockFiber, AfterResume, DropTask, Pop, In
  <2> QED BY <1>3, <2>1, MoveIsStutter DEF LockFiber, AfterResume, DropTask, Pop, Move
<1> QED BY <1>1, <1>2, <1>3 DEF run

LEMMA FiberImplements ==
    ASSUME IInv, IInv', NEW t \in Threads, FiberStep(t)
    PROVE  Asymmetric!Next \/ UNCHANGED <<cpu, resumer, Dead>>
<1>1. CASE SwapOut(t)
  <2>1. PICK f \in Built, p \in Fibers : SwitchOut(t, f, p)
    BY <1>1, OutForm
  <2>2. Asymmetric!GiveBack(t, f)
    BY <2>1, OutIsGiveBack
  <2> QED BY <2>2 DEF Asymmetric!Next
<1>2. CASE EnterMainFunc(t) \/ yield(t) \/ MainFunc(t)
  <2>1. at[cpu[t]] # "dead"
    BY <1>2 DEF EnterMainFunc, yield, MainFunc, Executes
  <2>2. /\ cpu' = cpu
        /\ \E place \in {"loop", "body", "leaving", "dying"} : at' = [at EXCEPT ![cpu[t]] = place]
    BY <1>2 DEF EnterMainFunc, yield, MainFunc, Move
  <2> QED BY <2>1, <2>2, MoveIsStutter
<1> QED BY <1>1, <1>2 DEF FiberStep

(* Contexts, thread-local pointers and locks implement coroutines: on      *)
(* every thread a fiber moves to, yield() goes back to the stack whose     *)
(* resume() it answers, and no ended or resumed fiber is resumed again.    *)
THEOREM Refinement == Spec => ImplementsCoroutine
<1>1. Init => Asymmetric!Init
  <2> SUFFICES ASSUME Init PROVE Asymmetric!Init
    OBVIOUS
  <2>1. cpu = [t \in Threads |-> t] /\ \A f \in Built : at[f] = "none"
    BY Names DEF Init
  <2>2. \A f \in Built : ResumerWhen(cpu, f) = NoFiber
    <3>1. \A f \in Built : \A t \in Threads : cpu[t] # f
      BY <2>1, Names
    <3>2. cpu[Main] = Main /\ Main \notin Tasks /\ \A t, u \in Threads : cpu[t] = cpu[u] => t = u
      BY <2>1, Names
    <3> QED BY <3>1, <3>2, ResumerForm
  <2> QED BY <2>1, <2>2, Resumers DEF Asymmetric!Init
<1>2. IInv /\ IInv' /\ [Next]_vars => [Asymmetric!Next]_(Asymmetric!vars)
  <2> SUFFICES ASSUME IInv, IInv', [Next]_vars PROVE Asymmetric!Next \/ UNCHANGED <<cpu, resumer, Dead>>
    BY DEF Asymmetric!vars, Dead
  <2>1. CASE UNCHANGED vars
    BY <2>1, NoSwitch DEF vars, stackVars
  <2>2. CASE Next
    BY <2>2, ProgramImplements, MainImplements, RunImplements, FiberImplements DEF Next
  <2> QED BY <2>1, <2>2
<1> QED BY <1>1, <1>2, Inductive, PTL DEF Spec, ImplementsCoroutine, Asymmetric!Spec

(* Who was resumed goes back to one that waits for it alone: the stacks    *)
(* that wait are not executed by anybody, and no two fibers will continue  *)
(* the same one.                                                           *)
ResumesNest ==
    /\ \A t \in Threads : cpu[t] \in Built => resumer[cpu[t]] # NoFiber
    /\ \A f \in Built, t \in Threads : resumer[f] # NoFiber => cpu[t] # resumer[f]
    /\ \A f, g \in Built : resumer[f] = resumer[g] /\ resumer[f] # NoFiber => f = g

(* resume() inside resume() nests, on one thread and across threads: each  *)
(* return has its own stack, which stays suspended until then.             *)
THEOREM ResumesAreNested == Spec => []ResumesNest
<1>1. IInv => ResumesNest
  <2> SUFFICES ASSUME IInv PROVE ResumesNest
    OBVIOUS
  <2>1. \A t, u \in Threads : cpu[t] = cpu[u] => t = u
    BY Unshared
  <2>2. /\ \A t \in Threads : cpu[t] \in Tasks \cup {t} \/ (t = Main /\ cpu[t] \in Direct \cup {SchedulerFiber})
        /\ SchedulerFiber \notin Threads /\ NoFiber \notin Fibers
    BY Executing, Names, NameAssumption
  (* The stack that waits, and why it does.                                *)
  <2>3. ASSUME NEW f \in Built, resumer[f] # NoFiber
        PROVE  \/ f = cpu[Main] /\ f \in Tasks /\ resumer[f] = SchedulerFiber
               \/ f = cpu[Main] /\ f \notin Tasks /\ resumer[f] = Main
               \/ f = SchedulerFiber /\ cpu[Main] \in Tasks /\ resumer[f] = Main
               \/ \E t \in Spawned : f = cpu[t] /\ f \in Tasks /\ resumer[f] = t
    <3>1. resumer[f] = ResumerWhen(cpu, f)
      BY Resumers
    <3>2. CASE \A t \in Threads : cpu[t] # f
      BY <2>1, <2>3, <3>1, <3>2, ResumerForm
    <3>3. CASE \E t \in Threads : cpu[t] = f
      <4>1. PICK t \in Threads : cpu[t] = f
        BY <3>3
      <4>2. resumer[f] = IF f \in Tasks THEN IF t = Main THEN SchedulerFiber ELSE t ELSE Main
        BY <2>1, <3>1, <4>1, ResumerForm
      <4>3. f \notin Tasks => t = Main
        BY <2>2, <4>1, Names
      <4> QED BY <4>1, <4>2, <4>3, Names
    <3> QED BY <3>2, <3>3
  <2>4. ASSUME NEW t \in Threads, cpu[t] \in Built PROVE resumer[cpu[t]] # NoFiber
    <3>1. PICK f \in Built : f = cpu[t]
      BY <2>4
    <3>2. resumer[f] = ResumerWhen(cpu, f)
      BY Resumers
    <3>3. resumer[f] = IF f \in Tasks THEN IF t = Main THEN SchedulerFiber ELSE t ELSE Main
      BY <2>1, <3>1, <3>2, ResumerForm
    <3> QED BY <2>2, <3>1, <3>3, Names
  <2>5. ASSUME NEW f \in Built, NEW t \in Threads, resumer[f] # NoFiber PROVE cpu[t] # resumer[f]
    BY <2>2, <2>3, <2>5, Names
  <2>6. ASSUME NEW f \in Built, NEW g \in Built, resumer[f] = resumer[g], resumer[f] # NoFiber PROVE f = g
    <3>1. \A t \in Spawned : t # Main /\ t # SchedulerFiber
      BY Names
    <3>2. Main # SchedulerFiber /\ SchedulerFiber \notin Tasks
      BY Names
    <3>3. resumer[g] # NoFiber
      BY <2>6
    <3> QED BY <2>3, <2>6, <3>1, <3>2, <3>3
  <2> QED BY <2>4, <2>5, <2>6 DEF ResumesNest
<1> QED BY <1>1, Inductive, PTL
=============================================================================
