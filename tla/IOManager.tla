------------------------------ MODULE IOManager ------------------------------
(***************************************************************************)
(* The I/O manager of fiber_lib/5iomanager (ioscheduler_ly.{h,cpp}): the   *)
(* file events, the wake-up pipe and the idle fiber that sleeps in         *)
(* epoll_wait(), on top of the scheduler's queue and the timers.           *)
(*                                                                         *)
(* Scheduler.tla has the worker loop in full; here the part of it around   *)
(* a resume() is one step, and its two counters are what that module shows *)
(* them to be, the number of workers in a task and in the idle fiber.      *)
(* Timer.tla has the heap in full; here a timer is armed and may expire at *)
(* any time.                                                               *)
(*                                                                         *)
(* What is new is the order in which an event is deleted, counted and      *)
(* scheduled under the mutex of its descriptor, the snapshot epoll_wait()  *)
(* returns, which is used after the events have changed, and tickle().     *)
(***************************************************************************)
EXTENDS Integers, Sequences, FiniteSets

CONSTANTS Spawned,     \* the worker threads start() creates
          Root,        \* the creating thread, a worker inside stop()
          Fds, Fibers, \* descriptors; fibers and callbacks of user code
          NoFd, NoFiber, NoThread,
          TwoWay,      \* may one descriptor have both events registered?
          MaxArrivals, \* bound on what the outside world does
          MaxCalls     \* bound on the calls of fibers

ASSUME WorkerAssumption ==
    Root \notin Spawned /\ NoThread \notin Spawned \cup {Root} /\ IsFiniteSet(Spawned)

ASSUME NullAssumption == NoFd \notin Fds /\ NoFiber \notin Fibers

ASSUME BoundAssumption == TwoWay \in BOOLEAN /\ MaxArrivals \in Nat /\ MaxCalls \in Nat

Workers == Spawned \cup {Root}

Event == {"READ", "WRITE"}

(* EPOLLHUP and EPOLLERR, which epoll reports without being asked.         *)
Condition == Event \cup {"HUP"}

(* "CB" is a callback whose fiber run() has yet to make.                   *)
FiberState == {"NONE", "CB", "READY", "RUNNING", "TERM"}

(* Where a worker is.  From "timers" to "leave" it is in the idle fiber,   *)
(* in the first three inside IOManager::stopping().  The root is in "main" *)
(* until it calls stop(), and in "stop" before it runs the scheduler.      *)
IdlePC   == {"timers", "pending", "queue", "wait", "expire", "schedule", "events", "leave"}
WorkerPC == IdlePC \cup {"main", "stop", "scan", "resume", "body", "yield", "noTask", "exited"}

VARIABLES m_tasks, m_state, pc, cur, idleTerm,
          m_stopping,
          wakeups,       \* tickles stop() has yet to make
          events, ctx,   \* of every FdContext, ctx with the fiber per event
          fdMutex,       \* holder of FdContext::mutex
          fdOf, todo,    \* whose mutex a worker holds, and what is left to do
          m_pendingEventCount,
          timers,        \* callbacks of armed timers
          cbs,           \* callbacks idle() has collected
          tickleDue,     \* workers about to call tickle()
          snapEvents, snapPipe, \* what epoll_wait() returned
          interest, ready, edge, \* the kernel's view of each descriptor
          pipe,          \* the pipe has bytes that woke nobody yet
          arrivals, calls,
          aborted        \* an assert has failed

queueVars  == <<m_tasks, m_state>>
fdVars     == <<events, ctx, m_pendingEventCount>>
lockVars   == <<fdMutex, fdOf, todo>>
timerVars  == <<timers, cbs>>
snapVars   == <<snapEvents, snapPipe>>
kernelVars == <<interest, ready, edge>>
workerVars == <<pc, cur, idleTerm>>
stopVars   == <<m_stopping, wakeups>>
boundVars  == <<arrivals, calls>>
vars == <<queueVars, fdVars, lockVars, timerVars, snapVars, kernelVars, workerVars, stopVars,
          boundVars, tickleDue, pipe, aborted>>

Init ==
    /\ m_tasks = <<>>
    /\ m_state = [f \in Fibers |-> "NONE"]
    /\ pc = [w \in Workers |-> IF w = Root THEN "main" ELSE "scan"]
    /\ cur = [w \in Workers |-> NoFiber]
    /\ idleTerm = {}
    /\ m_stopping = FALSE
    /\ wakeups = 0
    /\ events = [d \in Fds |-> {}]
    /\ ctx = [d \in Fds |-> [e \in Event |-> NoFiber]]
    /\ fdMutex = [d \in Fds |-> NoThread]
    /\ fdOf = [w \in Workers |-> NoFd]
    /\ todo = [w \in Workers |-> <<>>]
    /\ m_pendingEventCount = 0
    /\ timers = {}
    /\ cbs = [w \in Workers |-> {}]
    /\ tickleDue = {}
    /\ snapEvents = [w \in Workers |-> [d \in Fds |-> {}]]
    /\ snapPipe = {}
    /\ interest = [d \in Fds |-> {}]
    /\ ready = [d \in Fds |-> {}]
    /\ edge = {}
    /\ pipe = FALSE
    /\ arrivals = 0
    /\ calls = 0
    /\ aborted = FALSE

-----------------------------------------------------------------------------
(***************************************************************************)
(* The kernel.  A descriptor is in edge when epoll has something to report *)
(* about it that no epoll_wait() has returned: after an arrival, and after *)
(* epoll_ctl() when something it asks for is there already.                *)
(***************************************************************************)
Reports(d, want) == IF want = {} THEN {} ELSE ready[d] \cap (want \cup {"HUP"})

(* epoll_ctl(): ADD, MOD or, with nothing wanted, DEL.                     *)
epoll_ctl(d, want) ==
    /\ interest' = [interest EXCEPT ![d] = want]
    /\ edge' = IF Reports(d, want) # {} THEN edge \cup {d} ELSE edge \ {d}
    /\ UNCHANGED ready

Arrive(d, c) ==
    /\ arrivals < MaxArrivals
    /\ arrivals' = arrivals + 1
    /\ ready' = [ready EXCEPT ![d] = @ \cup {c}]
    /\ edge' = IF interest[d] # {} /\ c \in interest[d] \cup {"HUP"} THEN edge \cup {d} ELSE edge
    /\ UNCHANGED <<queueVars, fdVars, lockVars, timerVars, snapVars, interest, workerVars,
                   stopVars, calls, tickleDue, pipe, aborted>>

-----------------------------------------------------------------------------
(***************************************************************************)
(* The queue and tickle().                                                 *)
(***************************************************************************)
Goto(w, label) == pc' = [pc EXCEPT ![w] = label]

Idle == {w \in Workers : pc[w] \in IdlePC}

Active == {w \in Workers : pc[w] \in {"resume", "body", "yield"}}

(* scheduleLock() by worker w: tickle() comes next if the queue was empty. *)
scheduleLock(w, f) ==
    /\ m_tasks' = Append(m_tasks, f)
    /\ tickleDue' = IF m_tasks = <<>> THEN tickleDue \cup {w} ELSE tickleDue

(* tickle() writes a byte if it sees an idle thread.                       *)
TickledPipe == pipe \/ Idle # {}

tickle(w) ==
    /\ w \in tickleDue
    /\ tickleDue' = tickleDue \ {w}
    /\ pipe' = TickledPipe
    /\ UNCHANGED <<queueVars, fdVars, lockVars, timerVars, snapVars, kernelVars, workerVars,
                   stopVars, boundVars, aborted>>

-----------------------------------------------------------------------------
(***************************************************************************)
(* A worker that holds the mutex of descriptor fdOf[w] and has deleted     *)
(* events in the kernel: triggerEvent() and --m_pendingEventCount in the   *)
(* order of the caller.                                                    *)
(***************************************************************************)
Lock(w, d, steps) ==
    /\ fdMutex' = [fdMutex EXCEPT ![d] = w]
    /\ fdOf' = [fdOf EXCEPT ![w] = d]
    /\ todo' = [todo EXCEPT ![w] = steps]

Held(w) == fdOf[w] # NoFd

NextTodo(w) == todo' = [todo EXCEPT ![w] = Tail(@)]

Triggers(w) == Held(w) /\ todo[w] # <<>> /\ Head(todo[w]) \in Event

(* Mutant: the context is not reset.                                       *)
triggerEventKeepsContext(w) ==
    /\ Triggers(w)
    /\ LET d == fdOf[w]
           e == Head(todo[w])
       IN  IF e \in events[d]
             THEN /\ events' = [events EXCEPT ![d] = @ \ {e}]
                  /\ scheduleLock(w, ctx[d][e])
                  /\ NextTodo(w)
                  /\ UNCHANGED aborted
             ELSE /\ aborted' = TRUE
                  /\ UNCHANGED <<events, m_tasks, tickleDue, todo>>
    /\ UNCHANGED <<m_state, ctx, m_pendingEventCount, fdMutex, fdOf, timerVars, snapVars,
                   kernelVars, workerVars, stopVars, boundVars, pipe>>

(* triggerEvent(): its assert, or the event is cleared, what waited for it *)
(* is scheduled, and the context reset.                                    *)
triggerEvent(w) ==
    /\ Triggers(w)
    /\ LET d == fdOf[w]
           e == Head(todo[w])
       IN  IF e \in events[d]
             THEN /\ events' = [events EXCEPT ![d] = @ \ {e}]
                  /\ scheduleLock(w, ctx[d][e])
                  /\ ctx' = [ctx EXCEPT ![d][e] = NoFiber]
                  /\ NextTodo(w)
                  /\ UNCHANGED aborted
             ELSE /\ aborted' = TRUE
                  /\ UNCHANGED <<events, m_tasks, tickleDue, ctx, todo>>
    /\ UNCHANGED <<m_state, m_pendingEventCount, fdMutex, fdOf, timerVars, snapVars, kernelVars,
                   workerVars, stopVars, boundVars, pipe>>

CountDown(w) ==
    /\ Held(w) /\ todo[w] # <<>> /\ Head(todo[w]) = "count"
    /\ m_pendingEventCount' = m_pendingEventCount - 1
    /\ NextTodo(w)
    /\ UNCHANGED <<queueVars, events, ctx, fdMutex, fdOf, timerVars, snapVars, kernelVars,
                   workerVars, stopVars, boundVars, tickleDue, pipe, aborted>>

Unlock(w) ==
    /\ Held(w) /\ todo[w] = <<>>
    /\ fdMutex' = [fdMutex EXCEPT ![fdOf[w]] = NoThread]
    /\ fdOf' = [fdOf EXCEPT ![w] = NoFd]
    /\ UNCHANGED <<queueVars, fdVars, todo, timerVars, snapVars, kernelVars, workerVars,
                   stopVars, boundVars, tickleDue, pipe, aborted>>

-----------------------------------------------------------------------------
(***************************************************************************)
(* What a fiber does, and the root before stop().  A call that finds the   *)
(* event registered already, or not registered, changes nothing and is     *)
(* left out.                                                               *)
(***************************************************************************)
Calls(w) ==
    /\ pc[w] \in {"body", "main"} /\ w \notin tickleDue /\ ~Held(w)
    /\ calls < MaxCalls
    /\ calls' = calls + 1
    /\ UNCHANGED arrivals

Become(f, state) == m_state' = [m_state EXCEPT ![f] = state]

(* A callback nobody has used yet.                                         *)
NewCallback(f) == m_state[f] = "NONE" /\ Become(f, "CB")

schedule(w, f) ==
    /\ Calls(w)
    /\ NewCallback(f)
    /\ scheduleLock(w, f)
    /\ UNCHANGED <<fdVars, lockVars, timerVars, snapVars, kernelVars, workerVars, stopVars, pipe,
                   aborted>>

(* addTimer(); the new timer may be the first, which calls tickle().       *)
addTimer(w, f) ==
    /\ Calls(w)
    /\ NewCallback(f)
    /\ timers' = timers \cup {f}
    /\ tickleDue' \in {tickleDue \cup {w}} \cup (IF timers = {} THEN {} ELSE {tickleDue})
    /\ UNCHANGED <<m_tasks, fdVars, lockVars, cbs, snapVars, kernelVars, workerVars, stopVars,
                   pipe, aborted>>

(* addEvent() under the mutex of the descriptor.                           *)
Register(d, e, f) ==
    /\ fdMutex[d] = NoThread
    /\ e \notin events[d]
    /\ TwoWay \/ events[d] = {}
    /\ epoll_ctl(d, events[d] \cup {e})
    /\ m_pendingEventCount' = m_pendingEventCount + 1
    /\ events' = [events EXCEPT ![d] = @ \cup {e}]
    /\ ctx' = [ctx EXCEPT ![d][e] = f]

(* With the running fiber, which then yields ...                           *)
addEvent(w, d, e) ==
    /\ Calls(w) /\ pc[w] = "body"
    /\ Register(d, e, cur[w])
    /\ Goto(w, "yield")
    /\ UNCHANGED <<queueVars, lockVars, timerVars, snapVars, cur, idleTerm, stopVars, tickleDue,
                   pipe, aborted>>

(* ... or with a callback.                                                 *)
addEventCb(w, d, e, f) ==
    /\ Calls(w)
    /\ NewCallback(f)
    /\ Register(d, e, f)
    /\ UNCHANGED <<m_tasks, lockVars, timerVars, snapVars, workerVars, stopVars, tickleDue, pipe,
                   aborted>>

(* delEvent() forgets what waits for the event.  Nothing could wake a      *)
(* fiber after that, so only the event of a callback is deleted.           *)
delEvent(w, d, e) ==
    /\ Calls(w)
    /\ fdMutex[d] = NoThread
    /\ e \in events[d] /\ m_state[ctx[d][e]] = "CB"
    /\ epoll_ctl(d, events[d] \ {e})
    /\ m_pendingEventCount' = m_pendingEventCount - 1
    /\ events' = [events EXCEPT ![d] = @ \ {e}]
    /\ ctx' = [ctx EXCEPT ![d][e] = NoFiber]
    /\ Become(ctx[d][e], "TERM")
    /\ UNCHANGED <<m_tasks, lockVars, timerVars, snapVars, workerVars, stopVars, tickleDue, pipe,
                   aborted>>

(* Mutant: the event is counted off before and after it is triggered.      *)
cancelEventCountsTwice(w, d, e) ==
    /\ Calls(w)
    /\ fdMutex[d] = NoThread
    /\ e \in events[d]
    /\ epoll_ctl(d, events[d] \ {e})
    /\ Lock(w, d, <<"count", e, "count">>)
    /\ UNCHANGED <<queueVars, fdVars, timerVars, snapVars, workerVars, stopVars, tickleDue, pipe,
                   aborted>>

(* cancelEvent() counts the event off before it triggers it ...            *)
cancelEvent(w, d, e) ==
    /\ Calls(w)
    /\ fdMutex[d] = NoThread
    /\ e \in events[d]
    /\ epoll_ctl(d, events[d] \ {e})
    /\ Lock(w, d, <<"count", e>>)
    /\ UNCHANGED <<queueVars, fdVars, timerVars, snapVars, workerVars, stopVars, tickleDue, pipe,
                   aborted>>

(* Mutant: two events of one turn are counted off once.                    *)
TriggerAllCountsOnce(es) ==
    (IF "READ" \in es THEN <<"READ">> ELSE <<>>) \o
    (IF "WRITE" \in es THEN <<"WRITE">> ELSE <<>>) \o <<"count">>

(* READ before WRITE, each triggered and then counted off.                 *)
TriggerAll(es) ==
    (IF "READ" \in es THEN <<"READ", "count">> ELSE <<>>) \o
    (IF "WRITE" \in es THEN <<"WRITE", "count">> ELSE <<>>)

(* ... and cancelAll() after, like idle().                                 *)
cancelAll(w, d) ==
    /\ Calls(w)
    /\ fdMutex[d] = NoThread
    /\ events[d] # {}
    /\ epoll_ctl(d, {})
    /\ Lock(w, d, TriggerAll(events[d]))
    /\ UNCHANGED <<queueVars, fdVars, timerVars, snapVars, workerVars, stopVars, tickleDue, pipe,
                   aborted>>

(* The fiber reads or writes until the descriptor is not ready any more.   *)
Consume(w, d, e) ==
    /\ Calls(w)
    /\ e \in ready[d]
    /\ ready' = [ready EXCEPT ![d] = @ \ {e}]
    /\ UNCHANGED <<queueVars, fdVars, lockVars, timerVars, snapVars, interest, edge, workerVars,
                   stopVars, tickleDue, pipe, aborted>>

Body(w) ==
    \/ \E f \in Fibers : schedule(w, f) \/ addTimer(w, f)
    \/ \E d \in Fds : cancelAll(w, d)
    \/ \E d \in Fds, e \in Event :
          \/ addEvent(w, d, e) \/ delEvent(w, d, e) \/ cancelEvent(w, d, e) \/ Consume(w, d, e)
          \/ \E f \in Fibers : addEventCb(w, d, e, f)

-----------------------------------------------------------------------------
(***************************************************************************)
(* The worker loop around the fibers.                                      *)
(***************************************************************************)
AtEase(w) == w \notin tickleDue /\ ~Held(w)

(* The pop calls tickle() if it leaves tasks in the queue.                 *)
Pop(w) ==
    /\ pc[w] = "scan" /\ AtEase(w)
    /\ m_tasks # <<>>
    /\ cur' = [cur EXCEPT ![w] = Head(m_tasks)]
    /\ m_tasks' = Tail(m_tasks)
    /\ tickleDue' = IF Tail(m_tasks) # <<>> THEN tickleDue \cup {w} ELSE tickleDue
    /\ Goto(w, "resume")
    /\ UNCHANGED <<m_state, fdVars, lockVars, timerVars, snapVars, kernelVars, idleTerm, stopVars,
                   boundVars, pipe, aborted>>

(* The fiber's mutex lets nobody in before it has yielded.                 *)
resume(w) ==
    /\ pc[w] = "resume" /\ AtEase(w)
    /\ m_state[cur[w]] # "RUNNING"
    /\ Become(cur[w], "RUNNING")
    /\ Goto(w, "body")
    /\ UNCHANGED <<m_tasks, fdVars, lockVars, timerVars, snapVars, kernelVars, cur, idleTerm,
                   stopVars, boundVars, tickleDue, pipe, aborted>>

(* The fiber yields after addEvent(), or its function returns.             *)
SwapOut(w) ==
    /\ pc[w] \in {"yield", "body"} /\ AtEase(w)
    /\ Become(cur[w], IF pc[w] = "yield" THEN "READY" ELSE "TERM")
    /\ cur' = [cur EXCEPT ![w] = NoFiber]
    /\ Goto(w, "scan")
    /\ UNCHANGED <<m_tasks, fdVars, lockVars, timerVars, snapVars, kernelVars, idleTerm, stopVars,
                   boundVars, tickleDue, pipe, aborted>>

(* A step of the worker that changes nothing but where it is.              *)
Move(w, from, to) ==
    /\ pc[w] = from /\ AtEase(w)
    /\ Goto(w, to)
    /\ UNCHANGED <<queueVars, fdVars, lockVars, timerVars, snapVars, kernelVars, cur, idleTerm,
                   stopVars, boundVars, tickleDue, pipe, aborted>>

FindNothing(w) == m_tasks = <<>> /\ Move(w, "scan", "noTask")

LeaveRun(w) == w \in idleTerm /\ Move(w, "noTask", "exited")

EnterIdle(w) == w \notin idleTerm /\ Move(w, "noTask", "timers")

-----------------------------------------------------------------------------
(***************************************************************************)
(* IOManager::stopping() reads three things one after the other; the last  *)
(* is Scheduler::stopping() under the queue's mutex.                       *)
(***************************************************************************)
StopTimers(w) == Move(w, "timers", IF timers = {} THEN "pending" ELSE "wait")

StopPending(w) == Move(w, "pending", IF m_pendingEventCount = 0 THEN "queue" ELSE "wait")

StopQueue(w) ==
    /\ pc[w] = "queue" /\ AtEase(w)
    /\ IF m_stopping /\ m_tasks = <<>> /\ Active = {}
         THEN idleTerm' = idleTerm \cup {w} /\ Goto(w, "leave")
         ELSE Goto(w, "wait") /\ UNCHANGED idleTerm
    /\ UNCHANGED <<queueVars, fdVars, lockVars, timerVars, snapVars, kernelVars, cur, stopVars,
                   boundVars, tickleDue, pipe, aborted>>

(* epoll_wait() returns what there is, after five seconds at the latest.   *)
epoll_wait(w) ==
    /\ pc[w] = "wait"
    /\ snapEvents' = [snapEvents EXCEPT ![w] =
                        [d \in Fds |-> IF d \in edge THEN Reports(d, interest[d]) ELSE {}]]
    /\ edge' = {}
    /\ snapPipe' = IF pipe THEN snapPipe \cup {w} ELSE snapPipe
    /\ pipe' = FALSE
    /\ Goto(w, "expire")
    /\ UNCHANGED <<queueVars, fdVars, lockVars, timerVars, interest, ready, cur, idleTerm,
                   stopVars, boundVars, tickleDue, aborted>>

listExpiredCb(w) ==
    /\ pc[w] = "expire"
    /\ \E due \in SUBSET timers :
          timers' = timers \ due /\ cbs' = [cbs EXCEPT ![w] = due]
    /\ Goto(w, "schedule")
    /\ UNCHANGED <<queueVars, fdVars, lockVars, snapVars, kernelVars, cur, idleTerm, stopVars,
                   boundVars, tickleDue, pipe, aborted>>

ScheduleCb(w) ==
    /\ pc[w] = "schedule" /\ AtEase(w)
    /\ \E f \in cbs[w] :
          scheduleLock(w, f) /\ cbs' = [cbs EXCEPT ![w] = @ \ {f}]
    /\ UNCHANGED <<m_state, fdVars, lockVars, timers, snapVars, kernelVars, workerVars, stopVars,
                   boundVars, pipe, aborted>>

CbsDone(w) == cbs[w] = {} /\ Move(w, "schedule", "events")

(* Mutant: errors and hang-ups are not turned into events.                 *)
RealEventsNoHup(w, d) == snapEvents[w][d] \cap Event

(* The events of the snapshot that idle() takes to have happened: an error *)
(* stands for every event that is registered now.                          *)
RealEvents(w, d) ==
    (snapEvents[w][d] \cap Event) \cup (IF "HUP" \in snapEvents[w][d] THEN events[d] ELSE {})

(* Mutant: the descriptor is removed from epoll whatever is left.          *)
LeftEventsNone(w, d) == {}

LeftEvents(w, d) == events[d] \ RealEvents(w, d)

(* One event of the snapshot, under the mutex of its descriptor.           *)
HandleEvent(w, d) ==
    /\ pc[w] = "events" /\ AtEase(w)
    /\ snapEvents[w][d] # {}
    /\ fdMutex[d] = NoThread
    /\ snapEvents' = [snapEvents EXCEPT ![w][d] = {}]
    /\ LET real == RealEvents(w, d)
       IN  IF real \cap events[d] = {}
             THEN UNCHANGED <<kernelVars, lockVars>>
             ELSE epoll_ctl(d, LeftEvents(w, d)) /\ Lock(w, d, TriggerAll(real))
    /\ UNCHANGED <<queueVars, fdVars, timerVars, snapPipe, workerVars, stopVars, boundVars,
                   tickleDue, pipe, aborted>>

(* The tickle event: the pipe is read until it is empty.                   *)
DrainPipe(w) ==
    /\ pc[w] = "events" /\ AtEase(w)
    /\ w \in snapPipe
    /\ snapPipe' = snapPipe \ {w}
    /\ pipe' = FALSE
    /\ UNCHANGED <<queueVars, fdVars, lockVars, timerVars, snapEvents, kernelVars, workerVars,
                   stopVars, boundVars, tickleDue, aborted>>

EventsDone(w) ==
    /\ w \notin snapPipe /\ \A d \in Fds : snapEvents[w][d] = {}
    /\ Move(w, "events", "leave")

LeaveIdle(w) == Move(w, "leave", "scan")

RunStep(w) ==
    \/ tickle(w) \/ triggerEvent(w) \/ CountDown(w) \/ Unlock(w)
    \/ Pop(w) \/ resume(w) \/ SwapOut(w) \/ FindNothing(w) \/ LeaveRun(w) \/ EnterIdle(w)
    \/ StopTimers(w) \/ StopPending(w) \/ StopQueue(w)
    \/ epoll_wait(w) \/ listExpiredCb(w) \/ ScheduleCb(w) \/ CbsDone(w)
    \/ DrainPipe(w) \/ EventsDone(w) \/ LeaveIdle(w)
    \/ \E d \in Fds : HandleEvent(w, d)

-----------------------------------------------------------------------------
(***************************************************************************)
(* stop(): one tickle() for each thread and one for the scheduler fiber,   *)
(* which the root then runs.                                               *)
(***************************************************************************)
StopSet ==
    /\ pc[Root] = "main" /\ AtEase(Root)
    /\ m_stopping' = TRUE
    /\ wakeups' = Cardinality(Spawned) + 1
    /\ Goto(Root, "stop")
    /\ UNCHANGED <<queueVars, fdVars, lockVars, timerVars, snapVars, kernelVars, cur, idleTerm,
                   boundVars, tickleDue, pipe, aborted>>

StopTickle ==
    /\ pc[Root] = "stop" /\ wakeups > 0
    /\ wakeups' = wakeups - 1
    /\ pipe' = TickledPipe
    /\ UNCHANGED <<queueVars, fdVars, lockVars, timerVars, snapVars, kernelVars, workerVars,
                   m_stopping, boundVars, tickleDue, aborted>>

StopRun == wakeups = 0 /\ Move(Root, "stop", "scan")

stop == StopSet \/ StopTickle \/ StopRun

World == \E d \in Fds, c \in Condition : Arrive(d, c)

Next ==
    /\ ~aborted
    /\ World \/ stop \/ \E w \in Workers : RunStep(w) \/ Body(w)

Spec == Init /\ [][Next]_vars

-----------------------------------------------------------------------------
(***************************************************************************)
(* Properties.                                                             *)
(***************************************************************************)

(* Every variable has its type; the unsigned counter does not wrap.        *)
TypeOK ==
    /\ m_tasks \in Seq(Fibers)
    /\ m_state \in [Fibers -> FiberState]
    /\ pc \in [Workers -> WorkerPC]
    /\ cur \in [Workers -> Fibers \cup {NoFiber}]
    /\ idleTerm \subseteq Workers /\ tickleDue \subseteq Workers /\ snapPipe \subseteq Workers
    /\ m_stopping \in BOOLEAN /\ pipe \in BOOLEAN /\ aborted \in BOOLEAN
    /\ wakeups \in 0..Cardinality(Spawned) + 1
    /\ events \in [Fds -> SUBSET Event]
    /\ ctx \in [Fds -> [Event -> Fibers \cup {NoFiber}]]
    /\ fdMutex \in [Fds -> Workers \cup {NoThread}]
    /\ fdOf \in [Workers -> Fds \cup {NoFd}]
    /\ todo \in [Workers -> Seq(Event \cup {"count"})]
    /\ m_pendingEventCount \in Nat
    /\ timers \subseteq Fibers
    /\ cbs \in [Workers -> SUBSET Fibers]
    /\ snapEvents \in [Workers -> [Fds -> SUBSET Condition]]
    /\ interest \in [Fds -> SUBSET Event]
    /\ ready \in [Fds -> SUBSET Condition] /\ edge \subseteq Fds
    /\ arrivals \in 0..MaxArrivals /\ calls \in 0..MaxCalls

(* m_pendingEventCount counts the registered events exactly, up to those   *)
(* that cancelEvent() has counted off and not triggered yet, and those     *)
(* that idle() or cancelAll() has triggered and not counted off yet.       *)
PendingExact ==
    LET Registered == {x \in Fds \X Event : x[2] \in events[x[1]]}
        CountedOff == {w \in Workers : Len(todo[w]) = 1 /\ Head(todo[w]) \in Event}
        Triggered  == {w \in Workers : Len(todo[w]) \in {1, 3} /\ Head(todo[w]) = "count"}
    IN  m_pendingEventCount + Cardinality(CountedOff)
            = Cardinality(Registered) + Cardinality(Triggered)

(* Where fiber f, or the callback that will become it, is referred to.     *)
References(f) ==
    {<<"queue", i>> : i \in {j \in DOMAIN m_tasks : m_tasks[j] = f}}
        \cup {<<"event", x>> : x \in {y \in Fds \X Event : ctx[y[1]][y[2]] = f}}
        \cup {<<"timer", x>> : x \in timers \cap {f}}
        \cup {<<"collected", w>> : w \in {v \in Workers : f \in cbs[v]}}
        \cup {<<"popped", w>> : w \in {v \in Workers : pc[v] = "resume" /\ cur[v] = f}}

(* Whoever waits is referred to once: an event, its cancellation and a     *)
(* timer that race never wake it twice, and never lose it.                 *)
OneReference ==
    \A f \in Fibers :
        /\ m_state[f] \in {"CB", "READY"} => Cardinality(References(f)) = 1
        /\ m_state[f] = "RUNNING" => Cardinality(References(f)) <= 1

(* Outside the mutex the kernel watches exactly what is registered.        *)
KernelAgrees == \A d \in Fds : fdMutex[d] = NoThread => interest[d] = events[d]

(* What has happened on a descriptor with events registered for it is on   *)
(* its way: epoll will report it, or a worker has it in its snapshot,      *)
(* although descriptors are edge triggered and snapshots are used late.    *)
EventOnItsWay ==
    \A d \in Fds : Reports(d, events[d]) # {} =>
        d \in edge \/ fdMutex[d] # NoThread \/ \E w \in Workers : snapEvents[w][d] # {}

(* stopping(): "no timers left and no pending events left with the         *)
(* Scheduler::stopping()".  The three are not read atomically; when all    *)
(* workers have left, does anything wait still?                            *)
NothingLeftBehind ==
    (\A w \in Workers : pc[w] = "exited") =>
        /\ m_tasks = <<>> /\ timers = {}
        /\ \A d \in Fds : events[d] = {}
        /\ \A f \in Fibers : m_state[f] \in {"NONE", "TERM"}

(* The assert of triggerEvent().                                           *)
TriggerAssertion == ~aborted
=============================================================================
