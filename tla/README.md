# A formal model of coroutine-lib-ly

TLA+ specifications of the coroutine library in `src/coroutine-lib-ly/fiber_lib`, the TLC runs that
check them on small instances, and theorems about them checked by TLAPS.

The repository is built in stages (`1thread` ... `6hook`); each stage copies the files of the earlier
ones. A component is modelled from the first stage that contains it, and from the copy next to its caller where
a later component uses it. The copies are the same files byte for byte, but for `1thread/thread_ly.cpp` (the encoding of
its comments) and `3scheduler/scheduler_ly.h` (`hasIdleThread`, later called `hasIdleThreads`).

## 1. Inventory

| part | state | operations | interacts with |
|---|---|---|---|
| **Thread**, **Semaphore** (`1thread/thread_ly.*`) | thread id, callback, semaphore count | constructor (waits until the thread runs), `join`, `run`; `wait`, `signal` | used by `Scheduler::start` and `stop` |
| **Fiber** (`2fiber/fiber_ly.*`) | `m_state` READY / RUNNING / TERM, a stack, `m_mutex` | constructor, `reset`, `resume`, `yield`, `MainFunc` | resumed by the worker loop, yields back to it |
| **Scheduler** (`3scheduler/scheduler_ly.*`) | `m_tasks`, `m_mutex`, active and idle counters, `m_stopping`, `m_useCaller`, thread list, thread-local `t_scheduler` | `scheduleLock`, `start`, `run`, `idle`, `stopping`, `stop`, `tickle` | every worker thread runs `run()`; bodies call back into `scheduleLock` |
| **Timer**, **TimerManager** (`4timer/timer_ly.*`) | ordered set `m_timers`, deadlines, callbacks, `m_tickled`, `m_previouseTime` | `addTimer`, `addConditionTimer`, `cancel`, `refresh`, `reset`, `getNextTimer`, `listExpiredCb`, `hasTimer` | polled by `IOManager::idle`, notifies it through `onTimerInsertedAtFront` |
| **IOManager** (`5iomanager/ioscheduler_ly.*`) | `FdContext` table, epoll interest, pending count, wake-up pipe | `addEvent`, `delEvent`, `cancelEvent`, `cancelAll`, `tickle`, `idle`, `stopping` | is a Scheduler and a TimerManager; epoll wakes it |
| **FdManager**, **FdCtx** (`6hook/fd_manager_ly.*`) | table of contexts, socket and non-blocking flags, timeouts | `get`, `del`, `init`, `setTimeout`, `getTimeout` | used by the hooks |
| **Hooks** (`6hook/hook_ly.*`) | per-thread enable flag, `timer_info` per call | `sleep` family, `connect`, `do_io` calls, `close`, `fcntl`, `ioctl`, `setsockopt` | turn a blocking call into a timer, an event and a `yield` |
| examples (`epoll/`, `libevent/`, `main.cpp`, `test.cpp`) | | | use the library or are benchmarks beside it |

What is hard here:

* **Fibers move between threads.** `yield()` says READY before it has left its stack; a fiber can be
  queued twice, or queued while it runs. Only `Fiber::m_mutex`, taken around `resume()`, excludes a second
  worker.
* **Shutdown.** `stopping()` is a conjunction over a flag, the queue and a counter that is changed
  in two branches of a loop; workers leave one by one while others still produce work.
* **Wake-ups.** A notification is left out when somebody seems to be awake or one is on its way
  (`m_tickled`, `m_idleThreadCount`, an edge-triggered pipe).
* **The timer heap** gives up its lock in the middle of `reset()`, reads the clock before it takes the
  lock, and orders timers by deadline alone.
* **Events versus timeouts** in the I/O manager and the hooks: a timer that cancels an event races the event.
* **Contexts.** `resume()` and `yield()` find the other side through thread-local pointers, on a stack that may have
  changed its thread; nothing but a reference on that stack keeps its `Fiber` alive.
* **Objects shared while they come and go**: a `Thread` and its semaphore during the start handshake, the contexts of
  descriptors whose numbers are used again.
* **Widths**: milliseconds in `int` and `unsigned int`, the system clock going back.

What makes each part correct: a new thread is known before it works, and nobody uses a `Thread` that is gone (Thread);
`yield()` goes back to who resumed, no context is overwritten while it is needed, no fiber freed while it runs
(Fiber); a fiber is on one stack at a time and is resumed only when it is suspended (Fiber, Scheduler); every
scheduled task is taken once, in order, and `stop()` returns only after all of them (Scheduler); no timer is lost, none fires
twice or after a successful `cancel()`, and each fires in
time (Timer); an event wakes its fiber exactly once and pending events are counted exactly (IOManager); a
socket has its own context and no other's (FdManager); a hooked call returns what the blocking call would have returned (Hooks).

## 2. Modules

| module | what it is | lines of code it stands for |
|---|---|---|
| `Coroutine` | abstract: what asymmetric coroutines promise | (a promise, no code) |
| `Fiber` | saved contexts, thread-local pointers, ownership of fibers; properties | `2fiber/fiber_ly.{h,cpp}`, where `6hook/scheduler_ly.{h,cpp}` uses fibers |
| `Thread` | the start handshake, `join` and detaching; properties | `1thread/thread_ly.{h,cpp}`, `start()` and `stop()` of `6hook/scheduler_ly.cpp` |
| `TaskPool` | abstract: what a scheduler promises | (a promise, no code) |
| `Scheduler` | the scheduler with its workers and fibers; properties | `3scheduler/scheduler_ly.{h,cpp}`, `fiber_ly.cpp` |
| `ThreadProofs`, `FiberProofs`, `SchedulerProofs`, `TimerProofs`, `IOManagerProofs`, `FdManagerProofs`, `HookProofs` | the theorems about the module of that name, and their proofs | |
| `Timer` | the timer heap, its users and the threads that sleep on it; properties | `4timer/timer_ly.cpp`, timer part of `5iomanager/ioscheduler_ly.cpp` |
| `IOManager` | file events, epoll, the wake-up pipe, the idle fiber and shutdown; properties | `5iomanager/ioscheduler_ly.{h,cpp}`, the worker loop and `stop()` of `5iomanager/scheduler_ly.cpp` |
| `FdManager` | the table of contexts and the calls that live on it; properties | `6hook/fd_manager_ly.{h,cpp}`, `socket`, `accept`, `close`, `fcntl`, `ioctl`, `setsockopt` of `6hook/hook_ly.cpp` |
| `Hook` | the hooked calls: timer, event and `yield`, and `close()`; properties | `6hook/hook_ly.cpp`, `fd_manager_ly.cpp`, what they call in `6hook/ioscheduler_ly.cpp` and `timer_ly.cpp` |
| `MCFiber`, `MCThread`, `MCScheduler`, `MCTimer`, `MCIOManager`, `MCFdManager`, `MCHook` | instances for TLC | |

A module keeps the part of the system below it that its own hazards depend on, and replaces the rest by
what the module of that part shows: `Scheduler` has fibers whose switches go where they should (`Fiber`) and a `start()`
that is one action (`Thread`); `IOManager` has the queue and a worker loop whose counters are exact, and timers
that expire at any time; `Hook` has events that are triggered in one step and fibers that resume some time after they
were queued.

Operators commented *Mutant* are variations of the operator that follows them: a bug somebody could have
written there. No specification uses them. They document what each property is able to find.

### Thread

One step is one access to memory that both sides share, or one call on a mutex or condition variable. The new thread and the
owner:

    born --Publish--> swap --TakeCallback--> lock, count, notify, unlock (signal) --> call, scan, works --> ended
    new --StartLock--> make --Create--> sem, test, sleep, asleep, awake, take (wait) --> got --RecordId--> make
    make --StartUnlock--> up --StopSwap--> join --Join*, StopDestroys*--> done

The callback is `Scheduler::run()`, of which only its use of the scheduler's `m_mutex` is kept: the owner holds that mutex during
all of `start()`. `cv.wait()` may return unasked (`WakeUnasked`), `pthread_create()` may fail (`CreateFails`, after which
the model stops), and a program with threads of its own may destroy a `Thread` unjoined as soon as its constructor has
returned (`LetGo`). The thread's name is left out.

### Fiber

A stack and the `Fiber` that stands for it have one name. `cpu[t]` is the stack thread `t` executes, `ctx[f]` the stack whose
continuation is in `m_ctx`: `swapcontext()` (`Swap`) saves the first, loads the second and uses it up. `at[s]` is how far
the code on a stack has come:

    a fiber's:            entry --EnterMainFunc--> body --yield--> leaving --SwapOut--> body
                                                   body --MainFunc--> dying --SwapOut--> dead
    a thread's in run():  start --EnterRun--> loop --Pop--> lock --LockFiber--> locked --ResumeTask--> resuming
                          resuming --AfterResume--> unlock --DropTask--> loop --ExitThread--> exited
    the creating thread's: user --stop | ResumeDirect--> resuming --MainReturns--> user

The scheduler fiber, in which the creating thread executes `run()`, goes through both of the first two. `leaving` and `dying`
are the window in which `m_state` says that the fiber is suspended or has ended and its stack is still in use.

*Ownership.* `Referenced(f)` lists the `shared_ptr`s; a `Fiber` that nothing refers to after a step is not in `heap` any more.
References on a stack that is never unwound stay.

*The abstract specification.* `Coroutine` has no contexts and no pointers: a resumed coroutine has a caller, and gives the
thread back to it. `Fiber` implements it with `cpu` as `running`, and with the stack that resumed as `caller`.

Assumptions about callers: `resume()` is called by the loop and by the creating thread on its own stack, one level deep, as the
library and its tests do. Inside a fiber, or by hand for a fiber with `run_in_scheduler`, it would overwrite the only
context that leads back. `reset()`, which no file calls, waits until no thread executes the fiber. A fiber schedules itself, as
in the tests, or is scheduled by a thread outside the pool before `stop()`. Of `run()` the module keeps what touches
fibers; the order of the queue and the counters are in `Scheduler`.

### Scheduler

One step of the model is one critical section of `Scheduler::m_mutex` or the code between two of
them. `pc[w]` is where worker `w` is in `run()`:

    scan --Pop--> lock --LockFiber--> locked --resume--> body --yield | MainFunc--> switch --SwapOut-->
        fiber task:     unlock --> count --> scan        (m_activeThreadCount-- after the fiber's lock)
        callback task:  count --> unlock --> scan        (m_activeThreadCount-- inside the fiber's lock)
    scan --FindNothing--> noTask --EnterIdle--> idle --> idleDone --LeaveIdle--> scan
                          noTask --LeaveRun--> exited    (the idle fiber is TERM)

A fiber's `m_mutex` is a lock with a holder, since it is held across `resume()`. `switch` is the window in
which `yield()` has written the state and `swapcontext()` has not happened. `ctl` is where the thread that
calls `start()` and `stop()` is. With `use_caller` the creating thread `Main` is a worker inside `stop()`.

Abstractions: a task's payload is its fiber or "a callback", whose fiber is the one `run()` constructs for
it. `Scheduler::tickle()` does nothing in this class, so neither does the model. The one second `sleep` in
`idle()` is a stutter. `start()` is one action: it holds `m_mutex` throughout, and each `Thread`
constructor returns only once its thread runs.

Assumptions about callers: threads outside the pool post before `stop()` is called (the code promises
nothing for later ones, and bodies may post at any time); without a worker thread and without
`use_caller` nobody stops a scheduler that was not started; a task is pinned to a worker that exists.

### Timer

`users` call `addTimer`, `cancel`, `refresh` and `reset`, each split where the code lets go of `m_mutex`:

    addTimer --> insert --Insert--> (notify --onTimerInsertedAtFront-->) idle
    reset --> write --ResetWrite--> insert --Insert--> ...

`waiters` do what `IOManager::idle()` does with timers:

    run --getNextTimer--> asleep --Wake--> lock --ListLock--> listing --Collect*, ListDone--> (drain -->) run

`Wake` reads the clock *before* `ListLock`, as `listExpiredCb()` does. `m_timers` is a set whose `find`,
`insert` and `begin` (`Same`, `Inserted`, `Front`) compare deadlines only. A user can name a timer once
`addTimer()` has returned it (`Named`).

*Time.* All readings of the clock between two ticks are equal, as readings of the system clock within one of its units
are, and the clock may be set back. So deadlines tie in every way they can in the code: two threads read the same time, two readings
differ by the difference of the timeouts, a time comes again, or one batch of `listExpiredCb()` renews several timers from one
reading. A timeout may be 0. Sleeping in whole milliseconds is left out: `Wake` may happen at any time, for a file event or
because the rounded sleep was short.

*Ties.* `m_timers` takes two timers with one deadline for the same: `insert()` refuses the second, and `find()` may find, and
`erase()` remove, the other one. `tied` remembers the timers that have met another with their deadline while both were live (in
the set or with a callback). If another timer was erased instead, `reset()` writes the deadline of a timer that is still in the
set; the order of the `std::set` may then be broken, and what it does afterwards is undefined. `disordered` says that
this has happened, and from then on `Undefined` may put anything into the set.

*The pipe.* It is edge triggered: one write wakes one waiter (`wakeup`), and the one that empties the pipe
can take a byte that has woken nobody (`Drain`). The cap of five seconds on the sleep is left out on purpose: the
liveness property then shows that the wake-ups alone are enough.

*Other readers of the heap.* Inserting a first timer calls `tickle()`, which writes only if a thread is counted
idle. A waiter that is not has yet to call `getNextTimer()`; the model lets the byte be written or left out then.
`IOManager::stopping()` calls `getNextTimer()` too, which clears `m_tickled` although the caller does not sleep on
the answer (`StoppingAsks`).

### IOManager

A worker goes round the loop of `run()`, and inside its idle fiber round the loop of `IOManager::idle()`:

    scan --Pop--> resume --> body --> yield --SwapOut--> scan
    scan --FindNothing--> noTask --EnterIdle--> timers --StopTimers--> pending --StopPending--> queue
    queue --StopQueue--> wait --epoll_wait--> expire --listExpiredCb--> schedule --ScheduleCb*--> events
    events --HandleEvent*, DrainPipe--> leave --LeaveIdle--> scan

`timers`, `pending` and `queue` are the three conditions of `stopping()`, read one after the other. The root is in
`main` (user code of the creating thread) until it calls `stop()`, which makes it a worker.

What a holder of `FdContext::mutex` does after `epoll_ctl()` is a list of small steps, `todo[w]`: trigger an event,
count one off. The three callers have different orders: `cancelEvent()` counts first, `cancelAll()` and `idle()`
afterwards. Triggering calls `scheduleLock()`, which calls `tickle()` only if the queue was empty (`tickleDue`), and that
writes to the pipe only if a thread is counted idle.

*The kernel.* `ready[d]` is what has happened on `d`, `interest[d]` what epoll was asked for, and `edge` the
descriptors it has to report: edge-triggered, so a report is made once, by `Arrive` or by an `epoll_ctl()` that asks for
what is there. `epoll_wait()` copies the conditions to `snapEvents[w]`, which `HandleEvent` uses later, when
another worker may have changed everything. The pipe is edge-triggered in the same way.

Abstractions: a task is a fiber of user code or a callback, which becomes one when it is run; pinned tasks are left
to `Scheduler`. `delEvent()` is called for events of callbacks, since a fiber that waits for a deleted event has
been dropped by its owner. The growth of `m_fdContexts` and failing `epoll_ctl()` calls are left out here (`Hook`
has those that a closed descriptor causes). A failed assert ends the behaviour (`aborted`).

### FdManager

One step is one section under the table's `m_mutex`, one use of a context, or one system call:

    run --socket--> get --Get--> run           the context is there
                    get --Get--> create --Create--> run
    run --close--> findClose --Find--> del --Del--> close --CloseFd--> run
    run --fcntl--> findSetfl --Find--> setfl --Setfl--> forceSetfl --ForceSetfl--> run
    run --ioctl--> findIoctl --Find--> ioctl --Ioctl--> passIoctl --PassIoctl--> run
    run --setsockopt--> findOpt --Find--> opt --Opt--> run

Every opening of a descriptor has a name, which its context has too: the same number opened again is another opening. `m_size`
is the size of `m_datas`, which `Create` enlarges to `fd * 1.5` and never makes smaller. `blocks` is what the kernel has,
`asked` what the user asked for: the properties compare the two with the contexts. Threads in `Unhooked` have
`t_hook_enable` false, so that `socket()`, `close()` and `setsockopt()` go straight to the kernel.

Assumptions about callers: threads share descriptors, but who closes one knows that nobody uses it (calls that meet a
`close()` are in `Hook`), and does so on a hooked thread if the descriptor was opened on one. The table's first size is at least
2, since `fd * 1.5` is not greater than `fd` for 0 and 1.

### Hook

`pc[f]` is where fiber `f` is:

    run --do_io--> try --EAGAIN--> (timer --addConditionTimer-->) event --addEvent--> wait
    wait --Resume--> woken --Woken--> try | run         event --addEvent fails--> failed --> run
    run --connect--> (timer -->) event ... woken | failed --> check --Check--> run
    run --sleep--> wait ... woken --> run
    run --close--> closeDel --Del--> closeFd --CloseFd--> run

A call is a record with an identity; `cancelled` is the field of its `timer_info`, which all retries of the call share.
A timer refers to the call as its `weak_ptr` does: `Alive` is a `lock()` that succeeds. An expired timer passes
through `due` (collected, its callback queued) and `cancelling` (the callback has set `cancelled` and has not called
`cancelEvent()`). `waiter[d][e]` is the fiber in an event's context, `wakes[f]` how often a fiber is queued.

`watched[d]` is what epoll watches. `close_f()` makes epoll forget the descriptor while the `FdContext` keeps its events:
then `EPOLL_CTL_MOD` and `DEL` fail, `cancelEvent()` and `cancelAll()` give up, and `addEvent()`, which only logs the
failure, registers all the same.

Abstractions: a socket is TCP. A new or failed one polls as hung up, its reads and writes fail at once, and a connecting
one returns EAGAIN. A timeout is set or not (`Timed`), and expires at any time. Whether a call returns data,
an error or a timeout is not recorded, only that it returns. One fiber closes a descriptor at a time. `connect()` itself never has a
timeout (`s_connect_timeout` is never set); the model has that of `connect_with_timeout()`. The second event of one report
that meets an assert of `triggerEvent()` is left to `IOManager`.

## 3. Runs

| run | configuration | result |
|---|---|---|
| `fiber` | 1 spawned thread + the creating thread, 2 scheduled fibers, 1 resumed directly, 2 yields, 1 `reset()` | 5 properties hold (479 732 states) |
| `thread` | 3 threads, 2 unasked wake-ups, fairness, no symmetry | 5 properties hold (2 826 states) |
| `scheduler` | 2 spawned workers + root worker, 2 fibers, 2 posts, `use_caller` both ways, fairness, no symmetry | 10 properties hold (176 900 states) |
| `timer_heap` | one one-shot and one recurring timer of timeout 0, 2 users, 1 waiter, the clock may be set back | 4 properties hold (722 301 states) |
| `timer_wakeup` | 2 one-shot timers, timeouts 0 and 1, 1 user, 2 waiters, fairness, no symmetry | `FrontIsCovered`, `DueTimersFire` hold (936 181 states) |
| `iomanager_safety` | 1 spawned worker + root, 1 descriptor with both events, 2 fibers or callbacks, 2 arrivals, 3 calls | 5 properties hold (987 012 states) |
| `iomanager_left_behind` | the same | `NothingLeftBehind` violated |
| `iomanager_trigger_assert` | the same | `TriggerAssertion` violated |
| `fdmanager` | 2 hooked threads + 1 without hooks, descriptors 2 and 3, a table of size 2, 3 openings, both values of `FIONBIO` | 5 properties hold (3 096 367 states) |
| `hook_calls` | 2 fibers, 1 descriptor, 2 calls, 1 arrival, 1 `close()`, fairness, no symmetry | 4 properties hold (336 306 states) |
| `hook_timeout_lost` | the same without `close()` | `TimeoutArmed` violated |
| `hook_wait_on_closed` | as `hook_calls` | `NoWaitOnClosed` violated |

What the properties of the passing runs say:

* Fiber: `GetThis()` names the stack that runs (`ThisIsRunning`), every suspended stack has its continuation in its own
  context and none is loaded twice (`ContextsIntact`), nothing is used after `~Fiber()`, although a running fiber may be dropped
  by all others (`NoUseAfterFree`), and `resume()` and `yield()` nest on every thread a fiber moves to
  (`ImplementsCoroutine`).
* Thread: the recorded ids are real (`IdsPublished`), a new thread leaves the `Thread` object alone once it may be gone
  (`ObjectOutlivesUse`), each thread is reclaimed once (`ReclaimedOnce`), and `start()` returns although it holds `m_mutex`
  all the time (`StartReturns`).
* Scheduler: no fiber is on two stacks (`OneThreadPerFiber`), `resume()`'s assert holds (`ResumeAssertion`), the two counters
  are what they count (`CountersExact`), nothing is left once a worker has decided to exit (`NoWorkAfterExit`,
  `StoppingIsStable`), the destructor's assert holds (`DestructorAssertion`), and the scheduler is a task pool that takes
  every task once (`ImplementsTaskPool`); `stop()` returns, and no queued task is passed over for ever.
* Timer: only ties undo the set's order, and a timer that `reset()` has taken out is in one user's hands (`HeapOrdered`); no
  timer is dropped but one that has met another with its deadline (`NoTimerLost`); a one-shot timer is collected at most once
  and never after a successful `cancel()`, ties or not (`OneShotOnce`); somebody's sleep covers the first deadline
  (`FrontIsCovered`), and the heap does not stay overdue (`DueTimersFire`).
* IOManager: the pending count is exact (`PendingExact`; that `stopping()` reads it between two other things is the matter of
  `NothingLeftBehind`), whatever waits is referred to exactly once
  (`OneReference`), epoll watches what is registered (`KernelAgrees`), and what has happened and is wanted is on its way although
  reports are edge-triggered and snapshots stale (`EventOnItsWay`).
* FdManager: a socket has the context that was made for it, however the table grew (`OwnContext`), its settings are what was
  asked of this opening (`SettingsAreOwn`), it blocks in the kernel only from an `ioctl(FIONBIO, 0)` to the next call that sets its
  flag (`BlocksOnlyByFionbio`), and what is not a managed socket has no context (`NoStrayContext`).
* Hook: a waiting fiber has exactly one wake-up coming and any other none (`WakeOnce`), no timer outlives its call
  (`NoTimerLeft`), and, while nothing has been closed, a call whose event is there returns unless another fiber takes the event
  (`ReadyReturns`).

**Why the bounds are enough.** The fibers' hazards need a fiber that moves between a thread and the scheduler fiber, another one
that is resumed there meanwhile, and one that uses the other thread-local pointer; with two yields a fiber is resumed three times, on
either thread. The threads' need one thread that runs while the next is made, and a third for the ids. The
scheduler's need two workers that meet on one fiber and a third to exit meanwhile; a fiber queued twice is two posts, and
for any number of posts the safety properties are proved (section 4), as they are for the other modules and bounds. The timer's need two
timers (a tie, a new front), and two users (the window in `reset()`) or two waiters (whose sleep covers the
front); one tick makes a timer of the shorter timeout overdue while the other is pending, makes deadlines tie that were computed
at two times, and can be set back. The heap was also checked with timeout 1, two ticks and a clock set back (4 320 113
states), and with timeouts 0 and 1 (3 230 804 states). The I/O manager's need two workers with
snapshots of one descriptor, both of its events (so that MOD and DEL differ), a second arrival after the snapshot, and three
calls: two events and a cancellation, or a timer besides. The hooks' need two fibers on one descriptor, and a call
that retries: one arrival for the retry and two calls for a reader and a writer, or for a call that meets the callback
of the one before. The descriptors' need two threads, both descriptors beyond the end of the table, and one opening more than
descriptors, so that a number is used again. `MaxYields`, `MaxQueued`, `MaxResets`, `MaxSpurious`, `MaxOpenings`,
`MaxPosts`, `MaxTick`, `SetBacks`, `MaxArrivals`, `MaxCalls` and `MaxCloses` appear
only in guards of calls, of the clock and of what the outside world does. With one descriptor, mix-ups *between* descriptors
are out of sight; no critical section takes the mutex of two.

**Deadlock** is checked for `Scheduler` and `Timer`: idle workers keep polling, waiters keep waking. In `IOManager` all
workers may have left, or an assert may have failed; in `Hook` nobody is bound to make a call; `Fiber` and `Thread` end when
all threads have, and in `FdManager` the openings may be used up. Their configurations say
`CHECK_DEADLOCK FALSE`.

**Symmetry** is used over fibers, users and waiters, or hooked threads, in runs without liveness; these are interchangeable
in every definition.

**Fairness.** Worker steps are weakly fair since an OS thread that can run does run and the locks are held for
finitely many steps. A body is assumed to yield or return some day. A `stop()` that was begun goes on; nobody
is bound to call it. In the timer's model a call that was begun returns, and a waiter must wake
only when its deadline has come or a byte is in the pipe; the clock need not move. In the hooks' model some worker is
in `idle()` again and again, and a fiber that is in a call and can go on does; nothing has to arrive, no timer has to
expire. In `Thread` the owner goes on with a `start()` it has begun, new threads run, and a mutex that stays free is taken;
nobody is bound to call `start()` or `stop()`.

### Disagreements between code and comments

1. *An event left behind by the shutdown* (`5iomanager/ioscheduler_ly.cpp:357`): `stopping()` reads the timers, the pending
   events and the queue one after the other. A fiber that registers an event in between is suspended for ever.
2. *The assert of `triggerEvent()`* (`5iomanager/ioscheduler_ly.cpp:462`): a snapshot with both events, one of which another
   worker has deleted meanwhile, triggers an event that is not registered.
3. *A timeout that is lost* (`6hook/hook_ly.cpp:149`): the timer is armed before the event is registered. Its callback may run
   first, on another thread; or a callback of the previous wait may set `cancelled`, which silences the timer
   of the next one. The fiber then waits with no timeout.
4. *A wait on a closed descriptor* (`6hook/hook_ly.cpp:483`): between `cancelAll()` and `close_f()`, or with EAGAIN in hand
   before both, a call registers its event; nothing wakes the fiber again.

More that no run is kept for:

* *Timers with one deadline* (`timer_ly.cpp:90`): the second is dropped by `insert()` (`:198`), one-shot or recurring, and never
  runs. Two threads that add timers of one timeout within a unit of the clock suffice, or two recurring timers of one timeout
  that expire in one batch (`:174`). Without `tied` in it, `NoTimerLost` is violated within a few steps. With a tie `reset()` can
  also erase another timer and then write a deadline inside the set (`:72`), which `std::set` does not allow; without `tied` in
  it, `HeapOrdered` is violated.
* *Clock set back with a recurring timer* (`timer_ly.cpp:164`): the loop that clears the heap refills it and never
  ends, with `m_mutex` held.
* *`ioctl(FIONBIO, 0)`* (`hook_ly.cpp:626`) makes a managed socket blocking, although "whether it blocks depends on the system
  setting" (`hook_ly.cpp:513`, of `fcntl`); the comment at line 625 says that 0 restores blocking. The next hooked call that
  finds nothing to read then blocks its thread. `BlocksOnlyByFionbio` says that nothing else does this.
* *Two threads that grow `m_fdContexts`* (`ioscheduler_ly.cpp:139`): the size is not looked at again under the exclusive lock, so
  the second `contextResize()` may shrink the table. `FdManager::get()` does look again; its mutant `CreateResizes` is this bug.
* `stop()` by the thread that built the scheduler with `use_caller` false fails `assert(GetThis() != this)`, because the
  constructor calls `SetThis()` in either case (`scheduler_ly.cpp:193`; `Scheduler` has the step `StopAssert`).
* A `cancel()` between the two locked sections of `reset()` returns true and `reset()` puts the timer back, with a null
  callback (`timer_ly.cpp:75`; `OneShotOnce` holds all the same).
* A task scheduled between a worker's empty scan and `++m_idleThreadCount` wakes nobody, and waits until `epoll_wait()`
  times out after up to five seconds (`ioscheduler_ly.cpp:343`).
* `run()` compares an iterator that `erase()` has invalidated with `end()` (`scheduler_ly.cpp:125-129`), which the standard
  leaves undefined; the model has what a vector's plain pointers do.
* A fiber that was entered and is dropped while it is suspended is never freed: its stack refers to it (`fiber_ly.cpp:178`).
  After `~Scheduler()` the creating thread's `t_scheduler_fiber` points to a fiber that is gone.
* A `pthread_create()` that fails in `start()` leaves entries in `m_threads` that are null, which `stop()` joins.
* A descriptor closed on a thread without hooks keeps its context, and one from `F_DUPFD` (`hook_ly.cpp:547`) is non-blocking
  without having one.

## 4. Proofs

Every safety invariant of a passing run is a theorem, and so are the action property `StoppingIsStable` and both
refinements. A theorem holds for every value of the constants that the module's named `ASSUME`s allow: any sets of threads, fibers,
descriptors and timers, any bounds. In each proof module `Inductive` is `Spec => []IInv`, and what follows from `IInv` alone is
proved from it.

| module | theorem | statement | under |
|---|---|---|---|
| `ThreadProofs` | `TypeCorrect` | `Spec => []TypeOK` | |
| | `IdsArePublished` | `Spec => []IdsPublished` | |
| | `NoUseOfDestroyedThread` | `Spec => []ObjectOutlivesUse` | |
| | `ThreadsReclaimedOnce` | `Spec => []ReclaimedOnce` | |
| `FiberProofs` | `TypeCorrect` | `Spec => []TypeOK` | |
| | `GetThisIsRight` | `Spec => []ThisIsRunning` | |
| | `NoContextOverwritten` | `Spec => []ContextsIntact` | |
| | `NothingUsedAfterFree` | `Spec => []NoUseAfterFree` | |
| | `Refinement` | `Spec => ImplementsCoroutine` | |
| | `ResumesAreNested` | `Spec => []ResumesNest` | |
| `SchedulerProofs` | `TypeCorrect` | `Spec => []TypeOK` | |
| | `Exclusive` | `Spec => []OneThreadPerFiber` | |
| | `ResumeIsSafe` | `Spec => []ResumeAssertion` | |
| | `CountersAreExact` | `Spec => []CountersExact` | |
| | `ExitIsFinal` | `Spec => []NoWorkAfterExit` | |
| | `StoppingStable` | `Spec => StoppingIsStable` | |
| | `DestructorIsSafe` | `Spec => []DestructorAssertion` | |
| | `Refinement` | `Spec => ImplementsTaskPool` | |
| `TimerProofs` | `TypeCorrect` | `Spec => []TypeOK` | |
| | `OneShotFiresOnce` | `Spec => []OneShotOnce` | |
| | `OnlyTiesUndoTheOrder` | `Spec => []HeapOrdered` | |
| | `OnlyTiesLoseTimers` | `Spec => []NoTimerLost` | |
| | `NoneLostIfDistinct` | `Spec /\ []NoneMeet => [](AllKept /\ ~disordered)` | |
| | `OneUserKeepsOrder` | `Spec => []~disordered` | one user |
| | `WaitersWakeInTime` | `Spec => []FrontIsCovered` | `SetBacks = 0` |
| `IOManagerProofs` | `TypeCorrect` | `Spec => []TypeOK` | |
| | `PendingIsExact` | `Spec => []PendingExact` | |
| | `KernelSeesRegistrations` | `Spec => []KernelAgrees` | |
| | `EventsAreOnTheirWay` | `Spec => []EventOnItsWay` | |
| | `OneReferenceEach` | `Spec => []OneReference` | |
| `FdManagerProofs` | `TypeCorrect` | `Spec => []TypeOK` | |
| | `ContextIsOwn` | `Spec => []OwnContext` | |
| | `SettingsFollowOpening` | `Spec => []SettingsAreOwn` | |
| | `NoContextLeft` | `Spec => []NoStrayContext` | |
| | `OnlyFionbioBlocks` | `Spec => []BlocksOnlyByFionbio` | |
| `HookProofs` | `TypeCorrect` | `Spec => []TypeOK` | |
| | `NoTimerLeftBehind` | `Spec => []NoTimerLeft` | |
| | `WokenOnce` | `Spec => []WakeOnce` | |

**Assumptions on the constants.** Names of different things are different and null values are none of them (`NameAssumption`,
`NullAssumption`, parts of the others); bounds are natural numbers (`BoundAssumption`); the spawned threads of a scheduler are
finitely many (`WorkerAssumption`), which the counters need; descriptors are natural numbers, and the first size of the context
table is at least 2 (`FdAssumption`, `SizeAssumption`); timeouts are natural numbers and there is a longest one, and somebody sleeps on
the timers (`TimerAssumption`, `PoolAssumption`).

**Hypotheses of single theorems**:

* `SetBacks = 0`, as in the run `timer_wakeup`. When the clock was set back, `refresh()` and `listExpiredCb()` move deadlines to
  earlier and wake nobody.
* `NoneMeet` (no two live timers have one deadline) is what a program would have to ensure to lose no timer; nothing in the code
  does. `OnlyTiesLoseTimers` needs no such hypothesis: it says of every program which timers can be lost.
* One user: without a second thread nobody can come between `reset()`'s `erase()` and its write, so that the order survives ties.

### Why the invariants are needed

None of the properties is inductive alone. What was added, part by part:

*Thread.* `MutexInv` and `CountInv` follow the semaphore: its count is 1 exactly between the new thread's `++` and the owner's
`--`, and only the thread that is waited for may be before the end of `signal()`. So the owner leaves the constructor only when the
thread has left the object alone (`ObjectOutlivesUse`) and has set its id (`IdInv`). `ReclaimInv` ties `m_thread` to what was
joined and detached.

*Fiber.* `SpawnedInv` and `MainInv` say for each place of a thread which stack it executes and where its three pointers
point: a spawned thread executes its own stack or the task it has resumed, the creating thread its own, a fiber it resumed
directly, the scheduler fiber, or what that has resumed. With `RunInv` (who is inside `resume()` holds the fiber's `m_mutex`)
no second thread can enter a stack between `yield()`'s write of `m_state` and its `swapcontext()`, which is what `ContextsIntact`
needs. `SchedulerInv` and `FiberInv` tell how far each stack has come, `HeapInv` that a `Fiber` exists while it is referred to.
`NoUseAfterFree` follows, because the loop's `task`, `MainFunc()`'s `curr` or `m_schedulerFiber` refers to whatever is executed.

The refinement takes each `resume()` to `Resume`, the end of each `yield()` to `GiveBack`, `reset()` to `Renew`, and everything else
to a stutter. `OneSwitch` is its core: a switch changes the resumer of one fiber only, also where the scheduler fiber, which
is itself resumed, resumes another. `ResumesNest` says that the stacks to go back to are all different and executed by nobody.

*Scheduler.*

* `TypeInv`: types, with counters that are only integers. That they are natural numbers
  (`TypeOK`) follows from `CountersExact`.
* `TaskInv`: a worker has a task exactly in the branches that use one.
* `LockInv`: who is between lock and unlock holds the fiber's mutex. `OneThreadPerFiber` follows, since a mutex has
  one holder.
* `RunningInv`: a RUNNING fiber has a worker in its body. With `LockInv` this gives `ResumeAssertion`: the
  worker that locked the fiber is the only one that could be in its body.
* `ConstructedInv`: what is queued as a fiber, or held, has been constructed.
* `CountersExact`: by finite-set cardinality, one case for every step that moves a worker in or out of a counted
  region.
* `ControlInv`, `StopInv`: what the position of `stop()` says of the workers, and that a worker whose idle fiber
  ended implies `stopping`. `stopping` is stable since with no active worker nobody is in a body, and
  only a body can post after `stop()` was called.

The refinement maps `queue` to `m_tasks`, `held` to the tasks of active workers, `closing` to `m_stopping` and
`closed` to "`stop()` has returned". `Pop` is `Take`, `CountOff` is `Finish`, `scheduleLock` is `Submit`; the
rest stutters or closes.

*Timer.* `CallbackInv` (a callback that is not null was neither collected nor cancelled) is enough for `OneShotOnce`, whatever the set
does. `TieInv` says that `tied` has all live timers that share a deadline now; `tied` only grows. So `Same(t)` is `{t}` or empty
for a timer that is not tied, no `insert` of it is refused, and no other call mistakes it for its own: a step can lose a timer or
put it into a second user's hands only if it makes it tied. `HeapOrdered` and `NoTimerLost` are inductive together with
that, up to the first deadline written inside the set. `ClockInv` bounds a deadline by the time plus its timeout, so
that a renewed one is not earlier, whichever of several timers with one deadline `refresh()` has erased; `TickleInv` and
`CoverInv` follow `m_tickled` and the pipe.

*IOManager.* `TodoInv` lists what a holder of a descriptor's mutex can have left to do, `KernelInv` what the kernel watches meanwhile;
`KernelAgrees` is its case for a free mutex. `PendingExact` counts registered events, those counted off early and those
triggered and not counted, three finite sets of which each step changes one by one element. `ReportInv` is `EventOnItsWay`
for a held mutex as well. For `OneReference` the places a fiber can be in are a relation (`At`): `PlaceInv` says it has at most
one, `StateInv` when it has one.

*FdManager.* `CallInv` is what a thread relies on after it has given up the table's lock: that the descriptor is its own during
`socket()` and `close()`, and that the context it has found is still the one in the table. `TableInv` says that a stored
context belongs to the present opening and lies below the table's size, `NameInv` that two descriptors are never one
opening. `BlockInv` is `BlocksOnlyByFionbio` for every stored context, returned to the user or not.

*Hook.* `SiteInv` and `SleepInv` go from a wake-up to its fiber: whoever a context or a `sleep()`'s timer names is waiting, in the
very call that put it there. `WakeInv` closes the circle: a waiting fiber that nothing names any more is in the queue, once. `TimerInv` and
`CallInv` are needed because a timer of an earlier call, already collected, may fire in a later one.

## 5. What is only model-checked, and what is not modelled

*Only model-checked*: the liveness properties `StartReturns`, `StopReturns`, `TasksAreTaken`, `DueTimersFire` and `ReadyReturns`,
since fairness and `ENABLED` are beyond the prover. `FrontIsCovered` is proved for a clock that is not set back; with
`SetBacks = 1` TLC finds it violated. The four properties that a run shows violated are of course not theorems.

*Not modelled*: what is in registers and on stacks, signals and masks that `swapcontext()` saves; allocation failure; the outcome of
hooked calls; the arithmetic of their timeouts; the growth of `m_fdContexts`; `epoll_ctl()` failing on an open descriptor;
logging; the example servers.

## 6. Plan

In order of importance:

1. The outcome of the hooked calls against an abstract blocking call that returns once with data, an error or a timeout;
   in particular `connect()`, which reports success when it is woken while the socket is still connecting. Then the refinement
   as a theorem of `HookProofs`.
2. What holds where a run shows a violation: an event is left behind only if it was registered after a worker had read
   the pending count (`NothingLeftBehind`), a timeout is lost only if its callback ran before `addEvent()`
   or belongs to an earlier wait (`TimeoutArmed`), as invariants with proofs.
3. The growth of `m_fdContexts` (two threads that resize), liveness of `IOManager` under fairness, the conversions of
   times with their widths.
