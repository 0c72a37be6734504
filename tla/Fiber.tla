-------------------------------- MODULE Fiber --------------------------------
(***************************************************************************)
(* The fibers of fiber_lib/2fiber (fiber_ly.{h,cpp}) below the level of    *)
(* m_state: which stack each thread executes, which continuation each      *)
(* Fiber object has saved in m_ctx, the three thread-local pointers that   *)
(* tell resume() and yield() where to switch, and who keeps a Fiber alive. *)
(*                                                                         *)
(* A Fiber and the stack it stands for have one name: a thread for its     *)
(* main fiber, SchedulerFiber for the one that executes run() on the       *)
(* creating thread.  A continuation is used up when it is loaded, since    *)
(* the stack then changes under it, so a context is the stack it will      *)
(* continue, or NoFiber.                                                   *)
(*                                                                         *)
(* The threads are those of Scheduler.tla.  Of run() this module has what  *)
(* touches fibers; queue order, counters and shutdown are left to          *)
(* Scheduler.tla.                                                          *)
(***************************************************************************)
EXTENDS Integers

CONSTANTS Spawned,        \* threads that start() creates
          Main,           \* the thread that constructs the scheduler
          SchedulerFiber, \* m_schedulerFiber
          Tasks,          \* fibers built with run_in_scheduler = true
          Direct,         \* fibers built with false, resumed by Main itself
          NoFiber, NoThread,
          MaxYields, MaxQueued, MaxResets \* bounds

Threads == Spawned \cup {Main}
Built   == Tasks \cup Direct \cup {SchedulerFiber}
Fibers  == Threads \cup Built

ASSUME NameAssumption ==
    /\ Main \notin Spawned /\ Threads \cap Built = {}
    /\ Tasks \cap Direct = {} /\ SchedulerFiber \notin Tasks \cup Direct
    /\ NoFiber \notin Fibers /\ NoThread \notin Threads

ASSUME BoundAssumption == MaxYields \in Nat /\ MaxQueued \in Nat /\ MaxResets \in Nat

m_runInScheduler(f) == f \in Tasks

State == {"READY", "RUNNING", "TERM"}

(***************************************************************************)
(* How far the code on a stack has come.  "user": Main in user code;       *)
(* "start": a spawned thread before run().  "loop" to "unlock" are in      *)
(* run(), "resuming" in resume().  "entry" to "dead" are in a fiber's      *)
(* function: "leaving" and "dying" after the last write of m_state and     *)
(* before swapcontext().                                                   *)
(***************************************************************************)
Place == {"none", "user", "start", "loop", "lock", "locked", "resuming", "unlock",
          "exited", "entry", "body", "leaving", "dying", "dead"}

VARIABLES \* thread-local
          t_fiber, t_thread_fiber, t_scheduler_fiber,
          \* of a Fiber
          m_state, m_mutex, ctx,
          heap,      \* the Fiber objects that exist
          \* of a stack
          at,
          curr,      \* MainFunc()'s own reference
          task,      \* run()'s task.fiber
          \* of a thread
          cpu,       \* the stack it executes
          \* shared
          m_tasks,   \* how often each fiber is queued
          handles,   \* fibers user code has a shared_ptr to
          m_schedulerFiber,
          m_stopping,
          yields, resets \* bounds

localVars  == <<t_fiber, t_thread_fiber, t_scheduler_fiber>>
fiberVars  == <<m_state, m_mutex, ctx>>
stackVars  == <<at, curr, task, cpu>>
sharedVars == <<m_tasks, handles, m_schedulerFiber, m_stopping>>
boundVars  == <<yields, resets>>
vars == <<localVars, fiberVars, heap, stackVars, sharedVars, boundVars>>

Init ==
    /\ t_fiber = [t \in Threads |-> NoFiber]
    /\ t_thread_fiber = [t \in Threads |-> NoFiber]
    /\ t_scheduler_fiber = [t \in Threads |-> NoFiber]
    /\ m_state = [f \in Fibers |-> "READY"]
    /\ m_mutex = [f \in Fibers |-> NoThread]
    /\ ctx = [f \in Fibers |-> NoFiber]
    /\ heap = {}
    /\ at = [f \in Fibers |-> IF f = Main THEN "user"
                              ELSE IF f \in Spawned THEN "start" ELSE "none"]
    /\ curr = [f \in Fibers |-> NoFiber]
    /\ task = [f \in Fibers |-> NoFiber]
    /\ cpu = [t \in Threads |-> t]
    /\ m_tasks = [f \in Tasks |-> 0]
    /\ handles = {}
    /\ m_schedulerFiber = NoFiber
    /\ m_stopping = FALSE
    /\ yields = 0
    /\ resets = 0

Move(s, place) == at' = [at EXCEPT ![s] = place]

(***************************************************************************)
(* The shared_ptrs to a Fiber.  A stack that is gone still holds those     *)
(* that were on it: nothing runs their destructors.  ~Fiber() runs when    *)
(* the last one goes, and frees the stack.                                 *)
(***************************************************************************)
Referenced(f) ==
    \/ f \in handles
    \/ m_schedulerFiber = f
    \/ f \in Tasks /\ m_tasks[f] > 0
    \/ \E s \in Fibers : task[s] = f \/ curr[s] = f
    \/ \E t \in Threads : t_thread_fiber[t] = f

HeapAfter(new) == heap' = {f \in heap \cup new : Referenced(f)'}

(***************************************************************************)
(* The constructor with a callback.                                        *)
(***************************************************************************)
Fresh(f) ==
    /\ m_state' = [m_state EXCEPT ![f] = "READY"]
    /\ ctx' = [ctx EXCEPT ![f] = f]
    /\ Move(f, "entry")

(***************************************************************************)
(* GetThis() on a thread that has no fiber yet makes its main fiber.       *)
(***************************************************************************)
NewMainFiber(t) ==
    /\ t_fiber' = [t_fiber EXCEPT ![t] = t]
    /\ t_thread_fiber' = [t_thread_fiber EXCEPT ![t] = t]
    /\ t_scheduler_fiber' = [t_scheduler_fiber EXCEPT ![t] = t]

(* Mutant: run_in_scheduler is not looked at.                              *)
PeerOfThread(t, f) == t_thread_fiber[t]

(***************************************************************************)
(* The fiber whose context resume() saves the caller in and yield()        *)
(* continues.                                                              *)
(***************************************************************************)
Peer(t, f) == IF m_runInScheduler(f) THEN t_scheduler_fiber[t] ELSE t_thread_fiber[t]

(***************************************************************************)
(* swapcontext(&from->m_ctx, &to->m_ctx) on thread t, which executes s.    *)
(***************************************************************************)
Swap(t, from, to) ==
    /\ ctx' = [ctx EXCEPT ![from] = cpu[t], ![to] = NoFiber]
    /\ cpu' = [cpu EXCEPT ![t] = ctx[to]]

(***************************************************************************)
(* Fiber::resume() on thread t.                                            *)
(***************************************************************************)
resume(t, f) ==
    /\ m_state' = [m_state EXCEPT ![f] = "RUNNING"]
    /\ t_fiber' = [t_fiber EXCEPT ![t] = f]
    /\ Swap(t, Peer(t, f), f)

-----------------------------------------------------------------------------
(***************************************************************************)
(* The program: it makes fibers, schedules them, keeps or drops them.      *)
(***************************************************************************)
New(f) ==
    /\ f \in Tasks \cup Direct
    /\ at[f] = "none"
    /\ Fresh(f)
    /\ handles' = handles \cup {f}
    /\ UNCHANGED <<localVars, m_mutex, curr, task, cpu, m_tasks, m_schedulerFiber, m_stopping,
                   boundVars>>
    /\ HeapAfter({f})

DropHandle(f) ==
    /\ f \in handles
    /\ handles' = handles \ {f}
    /\ UNCHANGED <<localVars, fiberVars, stackVars, m_tasks, m_schedulerFiber, m_stopping,
                   boundVars>>
    /\ HeapAfter({})

(* By a thread outside the pool before stop(), or by a fiber, of itself.   *)
Schedule(f) ==
    /\ f \in Tasks /\ m_tasks[f] < MaxQueued
    /\ \/ f \in handles /\ ~m_stopping
       \/ \E t \in Threads : at[cpu[t]] = "body" /\ t_fiber[t] = f
    /\ m_tasks' = [m_tasks EXCEPT ![f] = @ + 1]
    /\ UNCHANGED <<localVars, fiberVars, stackVars, handles, m_schedulerFiber, m_stopping,
                   boundVars>>
    /\ HeapAfter({})

(***************************************************************************)
(* reset() of a fiber that has ended.  The caller must know that the       *)
(* resume() that ended it has returned: TERM alone does not say so.        *)
(***************************************************************************)
reset(f) ==
    /\ f \in handles /\ resets < MaxResets
    /\ m_state[f] = "TERM" /\ \A t \in Threads : cpu[t] # f
    /\ Fresh(f)
    /\ resets' = resets + 1
    /\ UNCHANGED <<localVars, m_mutex, heap, curr, task, cpu, sharedVars, yields>>

-----------------------------------------------------------------------------
(***************************************************************************)
(* The creating thread on its own stack.                                   *)
(***************************************************************************)
MainGetThis ==
    /\ at[Main] = "user" /\ cpu[Main] = Main /\ t_fiber[Main] = NoFiber
    /\ NewMainFiber(Main)
    /\ m_state' = [m_state EXCEPT ![Main] = "RUNNING"]
    /\ UNCHANGED <<m_mutex, ctx, stackVars, sharedVars, boundVars>>
    /\ HeapAfter({Main})

(* Mutant: without SetSchedulerFiber().                                    *)
NewSchedulerUnset ==
    /\ at[Main] = "user" /\ cpu[Main] = Main
    /\ at[SchedulerFiber] = "none"
    /\ NewMainFiber(Main)
    /\ m_state' = [m_state EXCEPT ![Main] = "RUNNING", ![SchedulerFiber] = "READY"]
    /\ ctx' = [ctx EXCEPT ![SchedulerFiber] = SchedulerFiber]
    /\ Move(SchedulerFiber, "entry")
    /\ m_schedulerFiber' = SchedulerFiber
    /\ UNCHANGED <<m_mutex, curr, task, cpu, m_tasks, handles, m_stopping, boundVars>>
    /\ HeapAfter({Main, SchedulerFiber})

(* Scheduler(use_caller = true): GetThis() first, then the scheduler fiber *)
(* takes the place of the main fiber in t_scheduler_fiber.                 *)
NewScheduler ==
    /\ at[Main] = "user" /\ cpu[Main] = Main
    /\ at[SchedulerFiber] = "none"
    /\ t_fiber' = [t_fiber EXCEPT ![Main] = Main]
    /\ t_thread_fiber' = [t_thread_fiber EXCEPT ![Main] = Main]
    /\ t_scheduler_fiber' = [t_scheduler_fiber EXCEPT ![Main] = SchedulerFiber]
    /\ m_state' = [m_state EXCEPT ![Main] = "RUNNING", ![SchedulerFiber] = "READY"]
    /\ ctx' = [ctx EXCEPT ![SchedulerFiber] = SchedulerFiber]
    /\ Move(SchedulerFiber, "entry")
    /\ m_schedulerFiber' = SchedulerFiber
    /\ UNCHANGED <<m_mutex, curr, task, cpu, m_tasks, handles, m_stopping, boundVars>>
    /\ HeapAfter({Main, SchedulerFiber})

(* stop() resumes the scheduler fiber, without a lock.                     *)
stop ==
    /\ at[Main] = "user" /\ cpu[Main] = Main /\ ~m_stopping
    /\ m_schedulerFiber # NoFiber
    /\ m_stopping' = TRUE
    /\ resume(Main, m_schedulerFiber)
    /\ Move(Main, "resuming")
    /\ UNCHANGED <<t_thread_fiber, t_scheduler_fiber, m_mutex, heap, curr, task, m_tasks, handles,
                   m_schedulerFiber, boundVars>>

(* A fiber of user code that is not the scheduler's; the caller keeps a    *)
(* reference during the call.                                              *)
ResumeDirect(f) ==
    /\ at[Main] = "user" /\ cpu[Main] = Main /\ t_fiber[Main] # NoFiber
    /\ f \in Direct \cap handles /\ m_state[f] = "READY"
    /\ resume(Main, f)
    /\ task' = [task EXCEPT ![Main] = f]
    /\ Move(Main, "resuming")
    /\ UNCHANGED <<t_thread_fiber, t_scheduler_fiber, m_mutex, heap, curr, sharedVars, boundVars>>

MainReturns ==
    /\ at[Main] = "resuming" /\ cpu[Main] = Main
    /\ task' = [task EXCEPT ![Main] = NoFiber]
    /\ Move(Main, "user")
    /\ UNCHANGED <<localVars, fiberVars, curr, cpu, sharedVars, boundVars>>
    /\ HeapAfter({})

(* ~Scheduler(), after stop(): t_scheduler_fiber is left pointing at the   *)
(* fiber that goes with it.                                                *)
DeleteScheduler ==
    /\ at[Main] = "user" /\ m_stopping /\ m_schedulerFiber # NoFiber
    /\ m_schedulerFiber' = NoFiber
    /\ UNCHANGED <<localVars, fiberVars, stackVars, m_tasks, handles, m_stopping, boundVars>>
    /\ HeapAfter({})

-----------------------------------------------------------------------------
(***************************************************************************)
(* run(), on the stack of a spawned thread or of the scheduler fiber.      *)
(***************************************************************************)
RunStacks == Spawned \cup {SchedulerFiber}

In(t, place) == cpu[t] \in RunStacks /\ at[cpu[t]] = place

EnterRun(t) ==
    /\ In(t, "start")
    /\ NewMainFiber(t)
    /\ m_state' = [m_state EXCEPT ![t] = "RUNNING"]
    /\ Move(t, "loop")
    /\ UNCHANGED <<m_mutex, ctx, curr, task, cpu, sharedVars, boundVars>>
    /\ HeapAfter({t})

Pop(t, f) ==
    /\ In(t, "loop") /\ m_tasks[f] > 0
    /\ m_tasks' = [m_tasks EXCEPT ![f] = @ - 1]
    /\ task' = [task EXCEPT ![cpu[t]] = f]
    /\ Move(cpu[t], "lock")
    /\ UNCHANGED <<localVars, fiberVars, heap, curr, cpu, handles, m_schedulerFiber, m_stopping,
                   boundVars>>

(* Mutant: the fiber's m_mutex is not taken.                               *)
LockFiberNot(t) ==
    /\ In(t, "lock")
    /\ Move(cpu[t], "locked")
    /\ UNCHANGED <<localVars, fiberVars, heap, curr, task, cpu, sharedVars, boundVars>>

(* std::lock_guard on the m_mutex of the fiber.                            *)
LockFiber(t) ==
    /\ In(t, "lock") /\ m_mutex[task[cpu[t]]] = NoThread
    /\ m_mutex' = [m_mutex EXCEPT ![task[cpu[t]]] = t]
    /\ Move(cpu[t], "locked")
    /\ UNCHANGED <<localVars, m_state, ctx, heap, curr, task, cpu, sharedVars, boundVars>>

ResumeTask(t) ==
    /\ In(t, "locked") /\ m_state[task[cpu[t]]] # "TERM"
    /\ resume(t, task[cpu[t]])
    /\ Move(cpu[t], "resuming")
    /\ UNCHANGED <<t_thread_fiber, t_scheduler_fiber, m_mutex, heap, curr, task, sharedVars,
                   boundVars>>

(* resume() has returned, or the fiber had ended already.                  *)
AfterResume(t) ==
    /\ \/ In(t, "resuming")
       \/ In(t, "locked") /\ m_state[task[cpu[t]]] = "TERM"
    /\ Move(cpu[t], "unlock")
    /\ UNCHANGED <<localVars, fiberVars, heap, curr, task, cpu, sharedVars, boundVars>>

(* Unlock, then task.reset().                                              *)
DropTask(t) ==
    /\ In(t, "unlock")
    /\ m_mutex' = [m_mutex EXCEPT ![task[cpu[t]]] = NoThread]
    /\ task' = [task EXCEPT ![cpu[t]] = NoFiber]
    /\ Move(cpu[t], "loop")
    /\ UNCHANGED <<localVars, m_state, ctx, curr, cpu, sharedVars, boundVars>>
    /\ HeapAfter({})

NothingLeft == m_stopping /\ \A f \in Tasks : m_tasks[f] = 0

(* run() returns on a spawned thread, whose thread-locals are destroyed.   *)
ExitThread(t) ==
    /\ In(t, "loop") /\ cpu[t] = t /\ NothingLeft
    /\ Move(t, "exited")
    /\ t_fiber' = [t_fiber EXCEPT ![t] = NoFiber]
    /\ t_thread_fiber' = [t_thread_fiber EXCEPT ![t] = NoFiber]
    /\ t_scheduler_fiber' = [t_scheduler_fiber EXCEPT ![t] = NoFiber]
    /\ UNCHANGED <<fiberVars, curr, task, cpu, sharedVars, boundVars>>
    /\ HeapAfter({})

-----------------------------------------------------------------------------
(***************************************************************************)
(* A fiber on its own stack: MainFunc() and what the callback does.        *)
(***************************************************************************)
Executes(t, place) == cpu[t] \in Built /\ at[cpu[t]] = place

(* Mutant: MainFunc() keeps a plain pointer.                               *)
EnterMainFuncRaw(t) ==
    /\ Executes(t, "entry")
    /\ Move(cpu[t], IF cpu[t] = SchedulerFiber THEN "loop" ELSE "body")
    /\ UNCHANGED <<localVars, fiberVars, heap, curr, task, cpu, sharedVars, boundVars>>

(* curr = GetThis().                                                       *)
EnterMainFunc(t) ==
    /\ Executes(t, "entry")
    /\ curr' = [curr EXCEPT ![cpu[t]] = t_fiber[t]]
    /\ Move(cpu[t], IF cpu[t] = SchedulerFiber THEN "loop" ELSE "body")
    /\ UNCHANGED <<localVars, fiberVars, task, cpu, sharedVars, boundVars>>
    /\ HeapAfter({})

(* Fiber::GetThis()->yield() up to swapcontext(): suspended for everybody  *)
(* who looks at m_state, and still on its stack.                           *)
yield(t) ==
    /\ Executes(t, "body") /\ yields < MaxYields
    /\ m_state' = [m_state EXCEPT ![t_fiber[t]] = "READY"]
    /\ Move(cpu[t], "leaving")
    /\ yields' = yields + 1
    /\ UNCHANGED <<localVars, m_mutex, ctx, heap, curr, task, cpu, sharedVars, resets>>

(* The callback returns; for the scheduler fiber that is run().            *)
MainFunc(t) ==
    /\ \/ Executes(t, "body")
       \/ Executes(t, "loop") /\ NothingLeft
    /\ m_state' = [m_state EXCEPT ![curr[cpu[t]]] = "TERM"]
    /\ curr' = [curr EXCEPT ![cpu[t]] = NoFiber]
    /\ Move(cpu[t], "dying")
    /\ UNCHANGED <<localVars, m_mutex, ctx, task, cpu, sharedVars, boundVars>>
    /\ HeapAfter({})

(* Mutant: without SetThis().                                              *)
SwapOutOnly(t) ==
    /\ Executes(t, "leaving") \/ Executes(t, "dying")
    /\ Move(cpu[t], IF at[cpu[t]] = "dying" THEN "dead" ELSE "body")
    /\ Swap(t, t_fiber[t], Peer(t, t_fiber[t]))
    /\ UNCHANGED <<localVars, m_state, m_mutex, heap, curr, task, sharedVars, boundVars>>

(* The rest of yield(): SetThis() and swapcontext().                       *)
SwapOut(t) ==
    /\ Executes(t, "leaving") \/ Executes(t, "dying")
    /\ Move(cpu[t], IF at[cpu[t]] = "dying" THEN "dead" ELSE "body")
    /\ t_fiber' = [t_fiber EXCEPT ![t] = Peer(t, t_fiber[t])]
    /\ Swap(t, t_fiber[t], Peer(t, t_fiber[t]))
    /\ UNCHANGED <<t_thread_fiber, t_scheduler_fiber, m_state, m_mutex, heap, curr, task, sharedVars,
                   boundVars>>

-----------------------------------------------------------------------------
Program ==
    \E f \in Tasks \cup Direct :
        New(f) \/ DropHandle(f) \/ Schedule(f) \/ reset(f) \/ ResumeDirect(f)

MainThread == MainGetThis \/ NewScheduler \/ stop \/ MainReturns \/ DeleteScheduler

run(t) ==
    \/ EnterRun(t) \/ LockFiber(t) \/ ResumeTask(t) \/ AfterResume(t) \/ DropTask(t)
    \/ ExitThread(t)
    \/ \E f \in Tasks : Pop(t, f)

FiberStep(t) == EnterMainFunc(t) \/ yield(t) \/ MainFunc(t) \/ SwapOut(t)

Next == Program \/ MainThread \/ \E t \in Threads : run(t) \/ FiberStep(t)

Spec == Init /\ [][Next]_vars

-----------------------------------------------------------------------------
(***************************************************************************)
(* Properties.                                                             *)
(***************************************************************************)

(* Every variable has its type; in particular a thread always executes     *)
(* some stack, so no context is loaded twice or before it is saved.        *)
TypeOK ==
    /\ \A local \in {t_fiber, t_thread_fiber, t_scheduler_fiber} :
           local \in [Threads -> Fibers \cup {NoFiber}]
    /\ m_state \in [Fibers -> State]
    /\ m_mutex \in [Fibers -> Threads \cup {NoThread}]
    /\ \A p \in {ctx, curr, task} : p \in [Fibers -> Fibers \cup {NoFiber}]
    /\ at \in [Fibers -> Place]
    /\ cpu \in [Threads -> Fibers]
    /\ m_tasks \in [Tasks -> 0..MaxQueued]
    /\ heap \subseteq Fibers /\ handles \subseteq Tasks \cup Direct
    /\ m_schedulerFiber \in {SchedulerFiber, NoFiber}
    /\ m_stopping \in BOOLEAN
    /\ yields \in 0..MaxYields /\ resets \in 0..MaxResets

(* GetThis(), which every hooked call asks for the fiber to wake later,    *)
(* names the fiber whose stack the thread executes, after any migration.   *)
ThisIsRunning ==
    \A t \in Threads : t_fiber[t] \in {cpu[t], NoFiber} /\ (cpu[t] # t => t_fiber[t] # NoFiber)

(* A stack that can go on and that no thread executes has its continuation *)
(* in its own Fiber, and one that a thread executes is executed by that    *)
(* thread alone and has none: switching never overwrites a context that is *)
(* still needed, whichever of t_scheduler_fiber and t_thread_fiber it uses.*)
ContextsIntact ==
    /\ \A f \in Built : (\A t \in Threads : cpu[t] # f) /\ at[f] \notin {"none", "dead"}
                        => ctx[f] = f
    /\ \A t \in Threads : cpu[t] # t => ctx[t] = t
    /\ \A t, u \in Threads : cpu[t] = cpu[u] => t = u

(* Nothing is used after ~Fiber(): the stack a thread executes, the fiber  *)
(* t_fiber points to and the one yield() will continue exist, and a fiber  *)
(* that was entered is not freed before it has ended, since its stack      *)
(* still has objects on it.                                                *)
NoUseAfterFree ==
    /\ \A t \in Threads :
           /\ t_fiber[t] \in heap \cup {NoFiber}
           /\ cpu[t] # t => cpu[t] \in heap /\ Peer(t, cpu[t]) \in heap
    /\ \A f \in Built : at[f] \in {"body", "leaving", "dying"} => f \in heap

(* The stack that resumed what is executed, or has resumed the scheduler   *)
(* fiber.                                                                  *)
resumer == [f \in Built |->
    CASE \E t \in Threads : cpu[t] = f ->
            IF f \in Tasks THEN IF cpu[Main] = f THEN SchedulerFiber
                                                 ELSE CHOOSE t \in Threads : cpu[t] = f
            ELSE Main
      [] f = SchedulerFiber /\ cpu[Main] \in Tasks -> Main
      [] OTHER -> NoFiber]

(* Contexts and thread-local pointers implement coroutines: resume() and   *)
(* yield() nest, on every thread a fiber moves to.                         *)
Asymmetric == INSTANCE Coroutine WITH
    Coroutines <- Built, Nobody <- NoFiber,
    running <- cpu, caller <- resumer, ended <- {f \in Built : at[f] = "dead"}

ImplementsCoroutine == Asymmetric!Spec
=============================================================================
