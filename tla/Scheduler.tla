------------------------------ MODULE Scheduler ------------------------------
(***************************************************************************)
(* The FIFO scheduler of fiber_lib/3scheduler: scheduler_ly.{h,cpp} with   *)
(* the fibers (fiber_ly.cpp) it resumes.                                   *)
(*                                                                         *)
(* Every worker thread loops in Scheduler::run(): it pops the first task   *)
(* it may run under m_mutex, resumes the task's fiber under the fiber's    *)
(* own m_mutex, and resumes its idle fiber when it found nothing.  The     *)
(* critical sections of m_mutex are short and never nest, so each is one   *)
(* action; everything between two of them is a step of its own.  A fiber's *)
(* m_mutex is held across the whole resume() and is modelled as a lock.    *)
(*                                                                         *)
(* With use_caller the creating thread (Main) becomes a worker too, but    *)
(* only inside stop(), which resumes the scheduler fiber there.            *)
(***************************************************************************)
EXTENDS Integers, Sequences, FiniteSets, SequencesExt

CONSTANTS Fibers,        \* fibers that user code, or a callback task, creates
          Spawned,       \* the m_threadCount threads start() creates
          Main,          \* the thread that constructs the scheduler
          Closer,        \* another thread of the program, never a worker
          StopThreads,   \* who calls stop() when use_caller is false
          AnyThread,     \* the thread = -1 of a task that is not pinned
          NoFiber,       \* a null fiber pointer
          NoThread,      \* nobody holds the mutex
          MaxPosts       \* bound on the calls of scheduleLock()

ASSUME ThreadAssumption ==
    /\ Main \notin Spawned /\ Closer \notin Spawned /\ Main # Closer
    /\ AnyThread \notin Spawned \cup {Main}
    /\ NoThread \notin Spawned \cup {Main}
    /\ StopThreads \subseteq {Main, Closer}
    /\ IsFiniteSet(Spawned)

ASSUME FiberAssumption == NoFiber \notin Fibers

ASSUME BoundAssumption == MaxPosts \in Nat

Workers == Spawned \cup {Main}

(***************************************************************************)
(* A fiber of Fibers is "NONE" before it exists and "CB" while it is the   *)
(* fiber that run() will build for a callback that is still queued.        *)
(***************************************************************************)
FiberState == {"NONE", "CB", "READY", "RUNNING", "TERM"}

Task == [kind : {"fiber", "cb"}, fiber : Fibers, thread : Workers \cup {AnyThread}]

NoTask == [kind |-> "none", fiber |-> NoFiber, thread |-> AnyThread]

(***************************************************************************)
(* Where a worker is in run().  "off": not started, or for Main not inside *)
(* stop().  "body": inside the fiber.  "switch": the fiber has set its     *)
(* state for the last time but swapcontext() has not left its stack yet.   *)
(***************************************************************************)
WorkerPC == {"off", "scan", "lock", "locked", "body", "switch", "unlock",
             "count", "noTask", "idle", "idleDone", "exited"}

ControlPC == {"created", "up", "checked", "inRoot", "joining", "stopped",
              "assertFailed"}

VARIABLES m_useCaller,          \* constructor argument
          m_tasks,              \* the queue
          m_state,              \* Fiber::m_state of every fiber
          m_mutex,              \* holder of every fiber's m_mutex
          pc,                   \* where each worker is
          task,                 \* run()'s local task
          idleTerm,             \* the worker's idle fiber is TERM
          m_activeThreadCount,
          m_idleThreadCount,
          m_stopping,
          t_scheduler,          \* threads whose t_scheduler is this scheduler
          ctl,                  \* where start()/stop() are
          posts                 \* calls of scheduleLock() so far (bounds the model)

queueVars   == <<m_tasks, posts>>
fiberVars   == <<m_state, m_mutex>>
counterVars == <<m_activeThreadCount, m_idleThreadCount>>
controlVars == <<m_useCaller, m_stopping, t_scheduler, ctl>>
vars == <<queueVars, fiberVars, pc, task, idleTerm, counterVars, controlVars>>

Init ==
    /\ m_useCaller \in BOOLEAN
    /\ Spawned = {} => m_useCaller          \* assert(threads > 0)
    /\ m_tasks = <<>>
    /\ m_state = [f \in Fibers |-> "NONE"]
    /\ m_mutex = [f \in Fibers |-> NoThread]
    /\ pc = [w \in Workers |-> "off"]
    /\ task = [w \in Workers |-> NoTask]
    /\ idleTerm = [w \in Workers |-> FALSE]
    /\ m_activeThreadCount = 0
    /\ m_idleThreadCount = 0
    /\ m_stopping = FALSE
    /\ t_scheduler = {Main}
    /\ ctl = "created"
    /\ posts = 0

-----------------------------------------------------------------------------
(***************************************************************************)
(* scheduleLock().  The caller names a fiber it just made, a fiber that    *)
(* exists already (any holder of the pointer may schedule it again, ready, *)
(* running or terminated, queued or not), or a callback; and -1 or the id  *)
(* of a worker that exists.  tickle() does nothing in this class.          *)
(***************************************************************************)
PinTargets == {AnyThread} \cup {t \in Spawned : pc[t] # "off"}
                          \cup (IF m_useCaller THEN {Main} ELSE {})

scheduleLock(kind, f, t) ==
    /\ posts < MaxPosts
    /\ posts' = posts + 1
    /\ t \in PinTargets
    /\ IF kind = "cb"
         THEN /\ m_state[f] = "NONE"
              /\ m_state' = [m_state EXCEPT ![f] = "CB"]
         ELSE /\ m_state[f] # "CB"
              /\ m_state' = [m_state EXCEPT ![f] = IF @ = "NONE" THEN "READY" ELSE @]
    /\ m_tasks' = Append(m_tasks, [kind |-> kind, fiber |-> f, thread |-> t])

(***************************************************************************)
(* A thread outside the pool posts work.  It does so before stop() is      *)
(* called: nothing is promised for a task that arrives later.              *)
(***************************************************************************)
Post ==
    /\ ctl \in {"created", "up"}
    /\ \E kind \in {"fiber", "cb"}, f \in Fibers, t \in PinTargets : scheduleLock(kind, f, t)
    /\ UNCHANGED <<m_mutex, pc, task, idleTerm, counterVars, controlVars>>

-----------------------------------------------------------------------------
(***************************************************************************)
(* One worker in run().                                                    *)
(***************************************************************************)
Goto(w, label) == pc' = [pc EXCEPT ![w] = label]

MayRun(w, t) == t.thread \in {AnyThread, w}

(* Mutant: the scan gives up at the first task pinned to another thread.   *)
EligibleHeadOnly(w) == {i \in DOMAIN m_tasks : i = 1 /\ MayRun(w, m_tasks[i])}

Eligible(w) == {i \in DOMAIN m_tasks : MayRun(w, m_tasks[i])}

(* Mutant: the newest task first.                                          *)
PopNewest(w) ==
    /\ pc[w] = "scan"
    /\ Eligible(w) # {}
    /\ LET i == Max(Eligible(w))
       IN  /\ task' = [task EXCEPT ![w] = m_tasks[i]]
           /\ m_tasks' = RemoveAt(m_tasks, i)
    /\ m_activeThreadCount' = m_activeThreadCount + 1
    /\ Goto(w, "lock")
    /\ UNCHANGED <<posts, fiberVars, idleTerm, m_idleThreadCount, controlVars>>

(* Mutant: the worker is not counted active.                               *)
PopUncounted(w) ==
    /\ pc[w] = "scan"
    /\ Eligible(w) # {}
    /\ LET i == Min(Eligible(w))
       IN  /\ task' = [task EXCEPT ![w] = m_tasks[i]]
           /\ m_tasks' = RemoveAt(m_tasks, i)
    /\ Goto(w, "lock")
    /\ UNCHANGED <<posts, fiberVars, idleTerm, counterVars, controlVars>>

(* The scan under m_mutex: take the first task this worker may run and     *)
(* count the worker active in the same critical section.                   *)
Pop(w) ==
    /\ pc[w] = "scan"
    /\ Eligible(w) # {}
    /\ LET i == Min(Eligible(w))
       IN  /\ task' = [task EXCEPT ![w] = m_tasks[i]]
           /\ m_tasks' = RemoveAt(m_tasks, i)
    /\ m_activeThreadCount' = m_activeThreadCount + 1
    /\ Goto(w, "lock")
    /\ UNCHANGED <<posts, fiberVars, idleTerm, m_idleThreadCount, controlVars>>

FindNothing(w) ==
    /\ pc[w] = "scan"
    /\ Eligible(w) = {}
    /\ Goto(w, "noTask")
    /\ UNCHANGED <<queueVars, fiberVars, task, idleTerm, counterVars, controlVars>>

(* Mutant: resume() without the fiber's mutex.                             *)
LockFiberUnlocked(w) ==
    /\ pc[w] = "lock"
    /\ m_state' = IF task[w].kind = "cb" THEN [m_state EXCEPT ![task[w].fiber] = "READY"]
                                         ELSE m_state
    /\ Goto(w, "locked")
    /\ UNCHANGED <<queueVars, m_mutex, task, idleTerm, counterVars, controlVars>>

(* Lock the fiber; a callback first gets a new fiber of its own.           *)
LockFiber(w) ==
    /\ pc[w] = "lock"
    /\ LET f == task[w].fiber
       IN  /\ m_mutex[f] = NoThread
           /\ m_mutex' = [m_mutex EXCEPT ![f] = w]
           /\ m_state' = IF task[w].kind = "cb" THEN [m_state EXCEPT ![f] = "READY"]
                                                ELSE m_state
    /\ Goto(w, "locked")
    /\ UNCHANGED <<queueVars, task, idleTerm, counterVars, controlVars>>

(* Mutant: the branch for callbacks forgets m_activeThreadCount--.         *)
AfterRunNoCount(w) == "unlock"

(* What run() does first once the fiber is back or was found TERM: a       *)
(* fiber task is unlocked and then counted off, a callback's fiber is      *)
(* counted off inside the lock.                                            *)
AfterRun(w) == IF task[w].kind = "cb" THEN "count" ELSE "unlock"

(* Fiber::resume(), unless the fiber has terminated.  ResumeAssertion      *)
(* states the assert at its head.                                          *)
resume(w) ==
    /\ pc[w] = "locked"
    /\ LET f == task[w].fiber
       IN  IF m_state[f] = "TERM"
             THEN /\ Goto(w, AfterRun(w))
                  /\ UNCHANGED m_state
             ELSE /\ m_state' = [m_state EXCEPT ![f] = "RUNNING"]
                  /\ Goto(w, "body")
    /\ UNCHANGED <<queueVars, m_mutex, task, idleTerm, counterVars, controlVars>>

(* The body schedules work: a new fiber, a callback, another fiber or the  *)
(* running one itself (the hooks and the timers do so to wake a fiber).    *)
BodyPost(w) ==
    /\ pc[w] = "body"
    /\ \E kind \in {"fiber", "cb"}, f \in Fibers, t \in PinTargets : scheduleLock(kind, f, t)
    /\ UNCHANGED <<m_mutex, pc, task, idleTerm, counterVars, controlVars>>

(* Mutant: yield() leaves the state RUNNING.                               *)
yieldRunning(w) ==
    /\ pc[w] = "body"
    /\ Goto(w, "switch")
    /\ UNCHANGED <<queueVars, fiberVars, task, idleTerm, counterVars, controlVars>>

(* Fiber::yield() from the body: READY first, swapcontext() afterwards.    *)
yield(w) ==
    /\ pc[w] = "body"
    /\ m_state' = [m_state EXCEPT ![task[w].fiber] = "READY"]
    /\ Goto(w, "switch")
    /\ UNCHANGED <<queueVars, m_mutex, task, idleTerm, counterVars, controlVars>>

(* Fiber::MainFunc() after the callback: TERM, then yield().               *)
MainFunc(w) ==
    /\ pc[w] = "body"
    /\ m_state' = [m_state EXCEPT ![task[w].fiber] = "TERM"]
    /\ Goto(w, "switch")
    /\ UNCHANGED <<queueVars, m_mutex, task, idleTerm, counterVars, controlVars>>

(* swapcontext() leaves the fiber's stack; resume() returns in run().      *)
SwapOut(w) ==
    /\ pc[w] = "switch"
    /\ Goto(w, AfterRun(w))
    /\ UNCHANGED <<queueVars, fiberVars, task, idleTerm, counterVars, controlVars>>

(* Back to the head of the loop, where task.reset() forgets the task.      *)
NextRound(w) ==
    /\ Goto(w, "scan")
    /\ task' = [task EXCEPT ![w] = NoTask]

UnlockFiber(w) ==
    /\ pc[w] = "unlock"
    /\ m_mutex' = [m_mutex EXCEPT ![task[w].fiber] = NoThread]
    /\ IF task[w].kind = "cb"
         THEN NextRound(w)
         ELSE Goto(w, "count") /\ UNCHANGED task
    /\ UNCHANGED <<queueVars, m_state, idleTerm, counterVars, controlVars>>

CountOff(w) ==
    /\ pc[w] = "count"
    /\ m_activeThreadCount' = m_activeThreadCount - 1
    /\ IF task[w].kind = "cb"
         THEN Goto(w, "unlock") /\ UNCHANGED task
         ELSE NextRound(w)
    /\ UNCHANGED <<queueVars, fiberVars, idleTerm, m_idleThreadCount, controlVars>>

(* The branch without a task: leave run() when the idle fiber has          *)
(* finished, else count the worker idle and resume the idle fiber.         *)
LeaveRun(w) ==
    /\ pc[w] = "noTask"
    /\ idleTerm[w]
    /\ Goto(w, "exited")
    /\ UNCHANGED <<queueVars, fiberVars, task, idleTerm, counterVars, controlVars>>

EnterIdle(w) ==
    /\ pc[w] = "noTask"
    /\ ~idleTerm[w]
    /\ m_idleThreadCount' = m_idleThreadCount + 1
    /\ Goto(w, "idle")
    /\ UNCHANGED <<queueVars, fiberVars, task, idleTerm, m_activeThreadCount, controlVars>>

(* Mutant: the workers that still run a task are not asked.                *)
stoppingIgnoresActive == m_stopping /\ m_tasks = <<>>

(* Mutant: the queue is not asked.                                         *)
stoppingIgnoresQueue == m_stopping /\ m_activeThreadCount = 0

(* Scheduler::stopping(), read under m_mutex.                              *)
stopping == m_stopping /\ m_tasks = <<>> /\ m_activeThreadCount = 0

(* Scheduler::idle(): every resume of the idle fiber evaluates the loop's  *)
(* condition once; the loop ends, or sleeps a second and yields.           *)
idle(w) ==
    /\ pc[w] = "idle"
    /\ idleTerm' = [idleTerm EXCEPT ![w] = stopping]
    /\ Goto(w, "idleDone")
    /\ UNCHANGED <<queueVars, fiberVars, task, counterVars, controlVars>>

(* Mutant: the count is left to the exit of the thread.                    *)
LeaveIdleCounted(w) ==
    /\ pc[w] = "idleDone"
    /\ m_idleThreadCount' = IF idleTerm[w] THEN m_idleThreadCount ELSE m_idleThreadCount - 1
    /\ Goto(w, "scan")
    /\ UNCHANGED <<queueVars, fiberVars, task, idleTerm, m_activeThreadCount, controlVars>>

LeaveIdle(w) ==
    /\ pc[w] = "idleDone"
    /\ m_idleThreadCount' = m_idleThreadCount - 1
    /\ Goto(w, "scan")
    /\ UNCHANGED <<queueVars, fiberVars, task, idleTerm, m_activeThreadCount, controlVars>>

(* The steps of run() that need nothing from the fiber's body.             *)
RunStep(w) ==
    \/ Pop(w) \/ FindNothing(w) \/ LockFiber(w) \/ resume(w) \/ SwapOut(w)
    \/ UnlockFiber(w) \/ CountOff(w)
    \/ LeaveRun(w) \/ EnterIdle(w) \/ idle(w) \/ LeaveIdle(w)

run(w) == RunStep(w) \/ BodyPost(w) \/ yield(w) \/ MainFunc(w)

-----------------------------------------------------------------------------
(***************************************************************************)
(* start() and stop().                                                     *)
(***************************************************************************)

(* m_mutex is held while every Thread is constructed, and a constructor    *)
(* returns once its thread runs: no worker scans before all exist.         *)
start ==
    /\ ctl = "created"
    /\ ctl' = "up"
    /\ pc' = [w \in Workers |-> IF w \in Spawned THEN "scan" ELSE pc[w]]
    /\ t_scheduler' = t_scheduler \cup Spawned
    /\ UNCHANGED <<queueVars, fiberVars, task, idleTerm, counterVars, m_useCaller, m_stopping>>

(* The check at the head of stop(), before anything is changed.  A         *)
(* scheduler that has no thread of its own yet can only be stopped with    *)
(* use_caller; a stopped one can be stopped again.                         *)
StopCheck ==
    /\ ctl \in {"up", "stopped"} \cup (IF m_useCaller THEN {"created"} ELSE {})
    /\ ctl' = IF stopping THEN "stopped" ELSE "checked"
    /\ UNCHANGED <<queueVars, fiberVars, pc, task, idleTerm, counterVars, m_useCaller,
                   m_stopping, t_scheduler>>

(* The asserts on the calling thread t.                                    *)
StopAssert(t) == IF m_useCaller THEN t \in t_scheduler ELSE t \notin t_scheduler

(* m_stopping, the asserts, and with use_caller the scheduler fiber.       *)
StopSet ==
    /\ ctl = "checked"
    /\ m_stopping' = TRUE
    /\ \E t \in (IF m_useCaller THEN {Main} ELSE StopThreads) :
          ctl' = IF ~StopAssert(t) THEN "assertFailed"
                 ELSE IF m_useCaller THEN "inRoot" ELSE "joining"
    /\ pc' = [pc EXCEPT ![Main] = IF ctl' = "inRoot" THEN "scan" ELSE @]
    /\ UNCHANGED <<queueVars, fiberVars, task, idleTerm, counterVars, m_useCaller, t_scheduler>>

(* The scheduler fiber's run() has returned to stop().                     *)
RootDone ==
    /\ ctl = "inRoot"
    /\ pc[Main] = "exited"
    /\ ctl' = "joining"
    /\ UNCHANGED <<queueVars, fiberVars, pc, task, idleTerm, counterVars, m_useCaller,
                   m_stopping, t_scheduler>>

(* Mutant: the threads are not joined.                                     *)
JoinNone ==
    /\ ctl = "joining"
    /\ ctl' = "stopped"
    /\ UNCHANGED <<queueVars, fiberVars, pc, task, idleTerm, counterVars, m_useCaller,
                   m_stopping, t_scheduler>>

Join ==
    /\ ctl = "joining"
    /\ \A w \in Spawned : pc[w] \in {"off", "exited"}
    /\ ctl' = "stopped"
    /\ UNCHANGED <<queueVars, fiberVars, pc, task, idleTerm, counterVars, m_useCaller,
                   m_stopping, t_scheduler>>

stop == StopCheck \/ StopSet \/ RootDone \/ Join

Next == Post \/ start \/ stop \/ \E w \in Workers : run(w)

(***************************************************************************)
(* Every thread keeps running: a worker makes its next step, a body        *)
(* yields or returns in the end, and a stop() that was begun goes on.      *)
(* That somebody calls stop() at all is not assumed.                       *)
(***************************************************************************)
Fairness ==
    /\ \A w \in Workers : WF_vars(RunStep(w)) /\ WF_vars(yield(w) \/ MainFunc(w))
    /\ WF_vars(StopSet) /\ WF_vars(RootDone) /\ WF_vars(Join)

Spec == Init /\ [][Next]_vars

FairSpec == Spec /\ Fairness

-----------------------------------------------------------------------------
(***************************************************************************)
(* Properties.                                                             *)
(***************************************************************************)

(* Every variable has its type.                                            *)
TypeOK ==
    /\ m_useCaller \in BOOLEAN
    /\ m_tasks \in Seq(Task)
    /\ m_state \in [Fibers -> FiberState]
    /\ m_mutex \in [Fibers -> Workers \cup {NoThread}]
    /\ pc \in [Workers -> WorkerPC]
    /\ task \in [Workers -> Task \cup {NoTask}]
    /\ idleTerm \in [Workers -> BOOLEAN]
    /\ m_activeThreadCount \in Nat
    /\ m_idleThreadCount \in Nat
    /\ m_stopping \in BOOLEAN
    /\ t_scheduler \subseteq Workers
    /\ ctl \in ControlPC
    /\ posts \in 0..MaxPosts

(* Worker w holds the m_mutex of the fiber of its task.                    *)
Holds(w) ==
    \/ pc[w] \in {"locked", "body", "switch", "unlock"}
    \/ pc[w] = "count" /\ task[w].kind = "cb"

(* Worker w executes on the stack of the fiber of its task, the part of    *)
(* yield() that follows the change of m_state included.                    *)
OnStack(w) == pc[w] \in {"body", "switch"}

(* A popped task that has not been counted off yet.                        *)
Active(w) ==
    \/ pc[w] \in {"lock", "locked", "body", "switch", "count"}
    \/ pc[w] = "unlock" /\ task[w].kind = "fiber"

(* A fiber that is queued twice, or that schedules itself and then yields, *)
(* is never on the stack of two workers at once, although yield() marks it *)
(* READY before it has left its stack: the fiber's m_mutex is what keeps   *)
(* the second worker out until swapcontext() is done.                      *)
OneThreadPerFiber ==
    \A v, w \in Workers : OnStack(v) /\ OnStack(w) /\ task[v].fiber = task[w].fiber => v = w

(* assert(m_state == READY) of Fiber::resume(): the worker that locked a   *)
(* fiber finds it suspended or terminated, never RUNNING elsewhere and     *)
(* never without a context.                                                *)
ResumeAssertion ==
    \A w \in Workers : pc[w] = "locked" => m_state[task[w].fiber] \in {"READY", "TERM"}

(* m_activeThreadCount counts exactly the workers that hold a popped task, *)
(* and m_idleThreadCount those inside the idle fiber: an atomic counter    *)
(* changed at six places of a loop with three branches.                    *)
CountersExact ==
    /\ m_activeThreadCount = Cardinality({w \in Workers : Active(w)})
    /\ m_idleThreadCount = Cardinality({w \in Workers : pc[w] \in {"idle", "idleDone"}})

(* Once one worker has seen stopping(), no worker finds work again: the    *)
(* queue is empty, no body is running that could fill it, and no worker    *)
(* can still be about to exit while a task waits for it.                   *)
NoWorkAfterExit ==
    (\E w \in Workers : idleTerm[w] \/ pc[w] = "exited") =>
        /\ stopping
        /\ \A w \in Workers : ~OnStack(w)

(* stopping(), once true, stays true: the destructor, the idle fibers and  *)
(* a second stop() all evaluate it again and must agree with the worker    *)
(* that already left on the strength of it.                                *)
StoppingIsStable == [][stopping => stopping']_vars

(* When stop() has returned, the assert(stopping()) of ~Scheduler() holds, *)
(* every queued task was taken and no worker is left in a fiber.           *)
DestructorAssertion ==
    ctl = "stopped" => stopping /\ \A w \in Workers : pc[w] \in {"off", "exited"}

(* What each worker has in hand: a popped task until it is counted off.    *)
inHand == [w \in Workers |-> IF Active(w) THEN task[w] ELSE NoTask]

(* The scheduler implements the task pool of TaskPool.tla: every task is   *)
(* taken once, in queue order among those the worker may run, by a worker  *)
(* that has nothing in hand; and stop() returns only when nothing is       *)
(* queued or in hand.                                                      *)
Pool == INSTANCE TaskPool WITH
            Tasks <- Task,
            queue <- m_tasks,
            held <- inHand,
            closing <- m_stopping,
            closed <- ctl = "stopped"

ImplementsTaskPool == Pool!Spec

(* A stop() that was begun returns, whatever is queued and whatever the    *)
(* bodies still schedule while the pool drains.                            *)
StopReturns == ctl = "checked" ~> ctl = "stopped"

(* A task for any worker, or for a started one, is taken out of the queue  *)
(* in the end: the queue cannot stay non-empty for ever while one of the   *)
(* threads that may run its tasks is up.                                   *)
TasksAreTaken ==
    (ctl = "up" /\ \E i \in DOMAIN m_tasks : m_tasks[i].thread # Main)
        ~> (\A i \in DOMAIN m_tasks : m_tasks[i].thread = Main)
=============================================================================
