-------------------------------- MODULE Thread --------------------------------
(***************************************************************************)
(* Threads and the semaphore of fiber_lib/1thread (thread_ly.{h,cpp}), and *)
(* how Scheduler::start() and stop() use them.                             *)
(*                                                                         *)
(* A Thread object belongs to the thread that made it, and until it has    *)
(* signalled m_semaphore the new thread reads and writes that object too.  *)
(* The constructor waits for the signal: on the semaphore's mutex and      *)
(* condition variable, whose wait() may return unasked.  start() makes all *)
(* threads with the scheduler's m_mutex locked, which run() needs.         *)
(*                                                                         *)
(* A Thread object and the thread it starts have one name.                 *)
(***************************************************************************)
EXTENDS Integers

CONSTANTS Children, \* the m_threadCount threads
          Owner,    \* the thread that calls start() and stop()
          Nobody,   \* holds no lock, is no thread
          MaxSpurious \* bound on unasked returns of a cv.wait()

ASSUME NameAssumption == Owner \notin Children /\ Nobody \notin Children \cup {Owner}

ASSUME BoundAssumption == MaxSpurious \in Nat

NoId == Nobody \* m_id = -1, m_thread = 0

(***************************************************************************)
(* Where a new thread is: "none" before pthread_create(), "born" to        *)
(* "unlock" in run() with the object in hand, "lock" to "unlock" inside    *)
(* signal(); then in the callback, which takes the scheduler's m_mutex     *)
(* ("call") and has it ("scan") before it goes on without ("works").       *)
(***************************************************************************)
ChildPC == {"none", "born", "swap", "lock", "count", "notify", "unlock",
            "call", "scan", "works", "ended"}

(***************************************************************************)
(* Where the owner is: "make" between two constructors of start(), "sem"   *)
(* to "take" in wait() of the constructor of now, "got" when it has        *)
(* returned, "up" after start(), "join" in stop().                         *)
(***************************************************************************)
OwnerPC == {"new", "make", "sem", "test", "sleep", "asleep", "awake", "take", "got", "up",
            "join", "done", "threw"}

VARIABLES pc, owner,
          now,         \* the object whose constructor runs
          \* a Thread object
          exists, m_id, m_cb, m_thread,
          \* its semaphore
          count, mtx, waiting,
          \* the scheduler
          m_mutex, m_threadIds,
          toJoin,      \* stop()'s threads that it has not joined yet
          reclaimed,   \* how often each thread was joined or detached
          spurious     \* bounds the unasked wake-ups

objectVars    == <<exists, m_id, m_cb, m_thread>>
semaphoreVars == <<count, mtx, waiting>>
schedVars     == <<m_mutex, m_threadIds, toJoin>>
vars == <<pc, owner, now, objectVars, semaphoreVars, schedVars, reclaimed, spurious>>

Init ==
    /\ pc = [c \in Children |-> "none"]
    /\ owner = "new"
    /\ now = Nobody
    /\ exists = {}
    /\ m_id = [c \in Children |-> NoId]
    /\ m_cb = [c \in Children |-> FALSE]
    /\ m_thread = [c \in Children |-> NoId]
    /\ count = [c \in Children |-> 0]
    /\ mtx = [c \in Children |-> Nobody]
    /\ waiting = [c \in Children |-> FALSE]
    /\ m_mutex = Nobody
    /\ m_threadIds = {}
    /\ toJoin = {}
    /\ reclaimed = [c \in Children |-> 0]
    /\ spurious = 0

Go(c, place) == pc' = [pc EXCEPT ![c] = place]

-----------------------------------------------------------------------------
(***************************************************************************)
(* The new thread: Thread::run().                                          *)
(***************************************************************************)

(* t_thread, the name, m_id.                                               *)
Publish(c) ==
    /\ pc[c] = "born"
    /\ m_id' = [m_id EXCEPT ![c] = c]
    /\ Go(c, "swap")
    /\ UNCHANGED <<owner, now, exists, m_cb, m_thread, semaphoreVars, schedVars, reclaimed,
                   spurious>>

(* cb.swap(thread->m_cb).                                                  *)
TakeCallback(c) ==
    /\ pc[c] = "swap"
    /\ m_cb' = [m_cb EXCEPT ![c] = FALSE]
    /\ Go(c, "lock")
    /\ UNCHANGED <<owner, now, exists, m_id, m_thread, semaphoreVars, schedVars, reclaimed,
                   spurious>>

(* Mutant: signal() without the mutex.                                     *)
SignalUnlocked(c) ==
    /\ pc[c] = "lock"
    /\ Go(c, "count")
    /\ UNCHANGED <<owner, now, objectVars, semaphoreVars, schedVars, reclaimed, spurious>>

(***************************************************************************)
(* Semaphore::signal().                                                    *)
(***************************************************************************)
SignalLock(c) ==
    /\ pc[c] = "lock" /\ mtx[c] = Nobody
    /\ mtx' = [mtx EXCEPT ![c] = c]
    /\ Go(c, "count")
    /\ UNCHANGED <<owner, now, objectVars, count, waiting, schedVars, reclaimed, spurious>>

(* Mutant: unlocks before notify_one().                                    *)
SignalCountUnlock(c) ==
    /\ pc[c] = "count"
    /\ count' = [count EXCEPT ![c] = @ + 1]
    /\ mtx' = [mtx EXCEPT ![c] = Nobody]
    /\ Go(c, "notify")
    /\ UNCHANGED <<owner, now, objectVars, waiting, schedVars, reclaimed, spurious>>

SignalCount(c) ==
    /\ pc[c] = "count"
    /\ count' = [count EXCEPT ![c] = @ + 1]
    /\ Go(c, "notify")
    /\ UNCHANGED <<owner, now, objectVars, mtx, waiting, schedVars, reclaimed, spurious>>

SignalNotify(c) ==
    /\ pc[c] = "notify"
    /\ waiting' = [waiting EXCEPT ![c] = FALSE]
    /\ Go(c, "unlock")
    /\ UNCHANGED <<owner, now, objectVars, count, mtx, schedVars, reclaimed, spurious>>

SignalUnlock(c) ==
    /\ pc[c] = "unlock"
    /\ mtx' = [mtx EXCEPT ![c] = Nobody]
    /\ Go(c, "call")
    /\ UNCHANGED <<owner, now, objectVars, count, waiting, schedVars, reclaimed, spurious>>

(***************************************************************************)
(* cb(), which is Scheduler::run(): it looks at the queue under m_mutex.   *)
(***************************************************************************)
CallLock(c) ==
    /\ pc[c] = "call" /\ m_mutex = Nobody
    /\ m_mutex' = c
    /\ Go(c, "scan")
    /\ UNCHANGED <<owner, now, objectVars, semaphoreVars, m_threadIds, toJoin, reclaimed, spurious>>

CallUnlock(c) ==
    /\ pc[c] = "scan"
    /\ m_mutex' = Nobody
    /\ Go(c, "works")
    /\ UNCHANGED <<owner, now, objectVars, semaphoreVars, m_threadIds, toJoin, reclaimed, spurious>>

(* It goes round its loop, or returns.                                     *)
CallAgain(c) ==
    /\ pc[c] = "works"
    /\ Go(c, "call")
    /\ UNCHANGED <<owner, now, objectVars, semaphoreVars, schedVars, reclaimed, spurious>>

Return(c) ==
    /\ pc[c] = "works"
    /\ Go(c, "ended")
    /\ UNCHANGED <<owner, now, objectVars, semaphoreVars, schedVars, reclaimed, spurious>>

-----------------------------------------------------------------------------
(***************************************************************************)
(* The owner: Scheduler::start() and the constructor of Thread.            *)
(***************************************************************************)
StartLock ==
    /\ owner = "new" /\ m_mutex = Nobody
    /\ m_mutex' = Owner
    /\ owner' = "make"
    /\ UNCHANGED <<pc, now, objectVars, semaphoreVars, m_threadIds, toJoin, reclaimed, spurious>>

(* Mutant: the constructor does not wait.                                  *)
CreateOnly(c) ==
    /\ owner = "make" /\ c \notin exists
    /\ exists' = exists \cup {c}
    /\ m_cb' = [m_cb EXCEPT ![c] = TRUE]
    /\ m_thread' = [m_thread EXCEPT ![c] = c]
    /\ Go(c, "born")
    /\ now' = c
    /\ owner' = "got"
    /\ UNCHANGED <<m_id, semaphoreVars, schedVars, reclaimed, spurious>>

(* pthread_create().                                                       *)
Create(c) ==
    /\ owner = "make" /\ c \notin exists
    /\ exists' = exists \cup {c}
    /\ m_cb' = [m_cb EXCEPT ![c] = TRUE]
    /\ m_thread' = [m_thread EXCEPT ![c] = c]
    /\ Go(c, "born")
    /\ now' = c
    /\ owner' = "sem"
    /\ UNCHANGED <<m_id, semaphoreVars, schedVars, reclaimed, spurious>>

(* It fails: the exception leaves start(), which unlocks m_mutex.          *)
CreateFails ==
    /\ owner = "make" /\ exists # Children
    /\ m_mutex' = Nobody
    /\ owner' = "threw"
    /\ UNCHANGED <<pc, now, objectVars, semaphoreVars, m_threadIds, toJoin, reclaimed, spurious>>

(* Mutant: if instead of while.                                            *)
WaitLockIf ==
    /\ owner \in {"sem", "awake"} /\ mtx[now] = Nobody
    /\ mtx' = [mtx EXCEPT ![now] = Owner]
    /\ owner' = IF owner = "awake" THEN "take" ELSE "test"
    /\ UNCHANGED <<pc, now, objectVars, count, waiting, schedVars, reclaimed, spurious>>

(***************************************************************************)
(* Semaphore::wait().                                                      *)
(***************************************************************************)
WaitLock ==
    /\ owner \in {"sem", "awake"} /\ mtx[now] = Nobody
    /\ mtx' = [mtx EXCEPT ![now] = Owner]
    /\ owner' = "test"
    /\ UNCHANGED <<pc, now, objectVars, count, waiting, schedVars, reclaimed, spurious>>

WaitTest ==
    /\ owner = "test"
    /\ owner' = IF count[now] = 0 THEN "sleep" ELSE "take"
    /\ UNCHANGED <<pc, now, objectVars, semaphoreVars, schedVars, reclaimed, spurious>>

(* cv.wait(): unlocks and waits in one step.                               *)
WaitSleep ==
    /\ owner = "sleep"
    /\ mtx' = [mtx EXCEPT ![now] = Nobody]
    /\ waiting' = [waiting EXCEPT ![now] = TRUE]
    /\ owner' = "asleep"
    /\ UNCHANGED <<pc, now, objectVars, count, schedVars, reclaimed, spurious>>

(* notify_one() has come.                                                  *)
Wake ==
    /\ owner = "asleep" /\ ~waiting[now]
    /\ owner' = "awake"
    /\ UNCHANGED <<pc, now, objectVars, semaphoreVars, schedVars, reclaimed, spurious>>

WakeUnasked ==
    /\ owner = "asleep" /\ waiting[now] /\ spurious < MaxSpurious
    /\ waiting' = [waiting EXCEPT ![now] = FALSE]
    /\ owner' = "awake"
    /\ spurious' = spurious + 1
    /\ UNCHANGED <<pc, now, objectVars, count, mtx, schedVars, reclaimed>>

WaitDone ==
    /\ owner = "take"
    /\ count' = [count EXCEPT ![now] = @ - 1]
    /\ mtx' = [mtx EXCEPT ![now] = Nobody]
    /\ owner' = "got"
    /\ UNCHANGED <<pc, now, objectVars, waiting, schedVars, reclaimed, spurious>>

(* The constructor has returned: m_threadIds.push_back(getId()).           *)
RecordId ==
    /\ owner = "got"
    /\ m_threadIds' = m_threadIds \cup {m_id[now]}
    /\ now' = Nobody
    /\ owner' = "make"
    /\ UNCHANGED <<pc, objectVars, semaphoreVars, m_mutex, toJoin, reclaimed, spurious>>

StartUnlock ==
    /\ owner = "make" /\ exists = Children
    /\ m_mutex' = Nobody
    /\ owner' = "up"
    /\ UNCHANGED <<pc, now, objectVars, semaphoreVars, m_threadIds, toJoin, reclaimed, spurious>>

-----------------------------------------------------------------------------
(***************************************************************************)
(* The owner: stop(), or the destructor without join().                    *)
(***************************************************************************)

(* thrs.swap(m_threads) under m_mutex, in one step.                        *)
StopSwap ==
    /\ owner = "up" /\ m_mutex = Nobody /\ exists = Children
    /\ toJoin' = exists
    /\ owner' = "join"
    /\ UNCHANGED <<pc, now, objectVars, semaphoreVars, m_mutex, m_threadIds, reclaimed, spurious>>

(* Mutant: m_thread is not set to 0.                                       *)
JoinKeeps(c) ==
    /\ owner = "join" /\ c \in toJoin
    /\ m_thread[c] # NoId /\ pc[c] = "ended"
    /\ reclaimed' = [reclaimed EXCEPT ![c] = @ + 1]
    /\ toJoin' = toJoin \ {c}
    /\ UNCHANGED <<pc, owner, now, objectVars, semaphoreVars, m_mutex, m_threadIds, spurious>>

(* pthread_join() returns when the thread has ended.                       *)
Join(c) ==
    /\ owner = "join" /\ c \in toJoin
    /\ m_thread[c] # NoId /\ pc[c] = "ended"
    /\ reclaimed' = [reclaimed EXCEPT ![c] = @ + 1]
    /\ m_thread' = [m_thread EXCEPT ![c] = NoId]
    /\ toJoin' = toJoin \ {c}
    /\ UNCHANGED <<pc, owner, now, exists, m_id, m_cb, semaphoreVars, m_mutex, m_threadIds,
                   spurious>>

(* ~Thread() of c detaches what was not joined.                            *)
Destroy(c) ==
    /\ exists' = exists \ {c}
    /\ reclaimed' = [reclaimed EXCEPT ![c] = @ + IF m_thread[c] # NoId THEN 1 ELSE 0]
    /\ m_thread' = [m_thread EXCEPT ![c] = NoId]
    /\ UNCHANGED <<pc, now, m_id, m_cb, semaphoreVars, schedVars, spurious>>

(* thrs goes out of scope after the last join().                           *)
StopDestroys(c) ==
    /\ owner = "join" /\ toJoin = {} /\ c \in exists
    /\ owner' = IF exists = {c} THEN "done" ELSE "join"
    /\ Destroy(c)

(* A program that keeps Threads of its own may let one go unjoined.        *)
LetGo(c) ==
    /\ owner = "up" /\ c \in exists
    /\ Destroy(c)
    /\ UNCHANGED owner

-----------------------------------------------------------------------------
signal(c) == SignalLock(c) \/ SignalCount(c) \/ SignalNotify(c) \/ SignalUnlock(c)

run(c) ==
    \/ Publish(c) \/ TakeCallback(c) \/ signal(c)
    \/ CallLock(c) \/ CallUnlock(c) \/ CallAgain(c) \/ Return(c)

wait == WaitLock \/ WaitTest \/ WaitSleep \/ Wake \/ WakeUnasked \/ WaitDone

start ==
    \/ StartLock \/ wait \/ RecordId \/ StartUnlock \/ CreateFails
    \/ \E c \in Children : Create(c)

stop == StopSwap \/ \E c \in Children : Join(c) \/ StopDestroys(c)

Next ==
    \/ start \/ stop
    \/ \E c \in Children : run(c) \/ LetGo(c)

(***************************************************************************)
(* Threads run.  A start() that was begun goes on, and each pthread_create *)
(* succeeds or throws.  A thread that waits for a mutex gets it once       *)
(* nobody else takes it again; nobody is bound to call start() or stop().  *)
(***************************************************************************)
Fairness ==
    /\ WF_vars(wait) /\ WF_vars(RecordId) /\ WF_vars(StartUnlock)
    /\ WF_vars(CreateFails \/ \E c \in Children : Create(c))
    /\ \A c \in Children : WF_vars(run(c))

Spec == Init /\ [][Next]_vars /\ Fairness

-----------------------------------------------------------------------------
(***************************************************************************)
(* Properties.                                                             *)
(***************************************************************************)

(* Every variable has its type; a semaphore signalled once never goes      *)
(* below zero, however often cv.wait() returns unasked.                    *)
TypeOK ==
    /\ pc \in [Children -> ChildPC] /\ owner \in OwnerPC
    /\ now \in Children \cup {Nobody}
    /\ exists \subseteq Children
    /\ m_id \in [Children -> Children \cup {NoId}]
    /\ m_cb \in [Children -> BOOLEAN]
    /\ m_thread \in [Children -> Children \cup {NoId}]
    /\ count \in [Children -> {0, 1}]
    /\ mtx \in [Children -> Children \cup {Owner, Nobody}]
    /\ waiting \in [Children -> BOOLEAN]
    /\ m_mutex \in Children \cup {Owner, Nobody}
    /\ m_threadIds \subseteq Children \cup {NoId}
    /\ toJoin \subseteq Children
    /\ reclaimed \in [Children -> Nat]
    /\ spurious \in 0..MaxSpurious

(* The ids the scheduler records, which pinned tasks name later, are those *)
(* of its threads: getId() never reads the -1 of a thread that has not     *)
(* come to set it.                                                         *)
IdsPublished ==
    /\ NoId \notin m_threadIds
    /\ owner \in {"up", "join", "done"} => m_threadIds = Children

(* A new thread uses the Thread object, the semaphore in it included, only *)
(* while it exists, although its maker may let it go as soon as the        *)
(* constructor has returned; and the callback that runs is not a part of   *)
(* the object.                                                             *)
ObjectOutlivesUse ==
    \A c \in Children :
        \/ pc[c] \in {"born", "swap", "lock", "count", "notify", "unlock"}
        \/ pc[c] \in {"call", "scan", "works"} /\ m_cb[c]
        => c \in exists

(* Every thread is joined or detached, by the time its object is gone and  *)
(* never twice, and stop() returns after the last of them has ended.       *)
ReclaimedOnce ==
    /\ \A c \in Children :
           /\ reclaimed[c] <= 1
           /\ pc[c] # "none" /\ c \notin exists => reclaimed[c] = 1
    /\ owner = "done" => \A c \in Children : pc[c] = "ended"

(* start(), which holds m_mutex while it waits for one thread after the    *)
(* other, comes to an end, although those that run already need m_mutex:   *)
(* they signal before they call anything.                                  *)
StartReturns == owner = "make" ~> owner \in {"up", "threw"}
=============================================================================
