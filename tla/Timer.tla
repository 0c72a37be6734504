-------------------------------- MODULE Timer --------------------------------
(***************************************************************************)
(* The timer heap of fiber_lib/4timer (timer_ly.{h,cpp}) and the two kinds *)
(* of threads around it: users, which add, cancel, refresh and reset       *)
(* timers, and waiters, which sleep until the first deadline and then      *)
(* collect what has expired, as IOManager::idle() does.                    *)
(*                                                                         *)
(* m_timers is a std::set ordered by Timer::Comparator, that is by m_next  *)
(* alone: two timers with the same deadline are one element of it.  Here   *)
(* it is a set of timers, and Same(t) are those it cannot tell from t.     *)
(*                                                                         *)
(* Each method is one action where it holds m_mutex, and several where it  *)
(* lets go of it: reset() between taking the timer out and inserting it,   *)
(* addTimer() before onTimerInsertedAtFront(), listExpiredCb() between     *)
(* reading the clock and locking.  The loop of listExpiredCb() holds the   *)
(* lock and takes one step for each timer.                                 *)
(***************************************************************************)
EXTENDS Integers, FiniteSets, FiniteSetsExt

CONSTANTS Timers,         \* the timers user code creates
          Recurring,      \* those created with recurring = true
          Users, Waiters, \* the threads
          NoTimer, NoThread,
          Durations,      \* timeouts user code asks for, in ticks of the clock
          MaxTick,        \* bound on the clock
          Hour,           \* ticks of the hour detectClockRollover() tolerates
          SetBacks        \* how often the system clock may be set back

ASSUME TimerAssumption ==
    /\ Recurring \subseteq Timers
    /\ NoTimer \notin Timers
    /\ Users \cap Waiters = {} /\ NoThread \notin Waiters
    /\ Durations \subseteq Nat
    /\ MaxTick \in Nat /\ Hour \in Nat /\ SetBacks \in Nat

(* A timeout is a uint64_t: there is a longest one.  A pool has a thread.  *)
ASSUME PoolAssumption == Max(Durations \cup {0}) \in Nat /\ Waiters # {}

VARIABLES clock,           \* the system clock, in ticks
          setBacks,        \* how often it was set back
          made,            \* timers that exist
          m_timers,        \* the heap
          m_next, m_ms,    \* deadline and timeout of each timer
          m_cb,            \* timers whose callback is not null
          m_tickled, m_previouseTime,
          writer,          \* the waiter that holds m_mutex in listExpiredCb()
          pc, job,         \* where each thread is, and with which timer
          limit,           \* until when a waiter sleeps
          listNow, rollover, \* locals of listExpiredCb()
          wakeup,          \* a byte was written to the pipe and has woken nobody yet
          drains,          \* waiters that were woken by the pipe and will empty it
          \* history
          fired,           \* how often each one-shot timer's callback was collected
          cancelled,       \* timers whose cancel() returned true
          tied,            \* timers that have had the deadline of another live timer
          disordered       \* a deadline was written while its timer was in the set

clockVars  == <<clock, setBacks>>
heapVars   == <<m_timers, m_next, m_ms, m_cb>>
localVars  == <<limit, listNow, rollover, drains>>
histVars   == <<fired, cancelled, tied, disordered>>
vars == <<clockVars, made, heapVars, m_tickled, m_previouseTime, writer, pc, job,
          localVars, wakeup, histVars>>

(***************************************************************************)
(* All readings of the system clock between two ticks are equal, as they   *)
(* are in the code when they fall in one unit of system_clock: deadlines   *)
(* tie when their readings do, or differ by as much as their timeouts, or  *)
(* when a clock that was set back comes to a time again.                   *)
(***************************************************************************)
Forever == MaxTick + Max(Durations \cup {0}) + 1

(* The call a user is in: reset with from_now false or true, or addTimer.  *)
Job == [timer : Timers, ms : Durations, call : {"add", "reset", "resetFromNow"}]
NoJob == [timer |-> NoTimer, ms |-> 0, call |-> "none"]

UserPC   == {"idle", "write", "insert", "notify"}
WaiterPC == {"run", "asleep", "lock", "listing", "drain"}

Init ==
    /\ clock = 0 /\ setBacks = 0
    /\ made = {} /\ m_timers = {} /\ m_cb = {}
    /\ m_next = [t \in Timers |-> 0]
    /\ m_ms = [t \in Timers |-> 0]
    /\ m_tickled = FALSE
    /\ m_previouseTime = 0
    /\ writer = NoThread
    /\ pc = [p \in Users \cup Waiters |-> IF p \in Users THEN "idle" ELSE "run"]
    /\ job = [u \in Users |-> NoJob]
    /\ limit = [w \in Waiters |-> 0]
    /\ listNow = [w \in Waiters |-> 0]
    /\ rollover = [w \in Waiters |-> FALSE]
    /\ wakeup = FALSE
    /\ drains = {}
    /\ fired = [t \in Timers |-> 0]
    /\ cancelled = {}
    /\ tied = {}
    /\ disordered = FALSE

-----------------------------------------------------------------------------
(***************************************************************************)
(* The heap.                                                               *)
(***************************************************************************)

(* find(): the element of the set that compares equal to t.                *)
Same(t) == {x \in m_timers : m_next[x] = m_next[t]}

(* begin().                                                                *)
Front == CHOOSE t \in m_timers : \A x \in m_timers : m_next[t] <= m_next[x]

(* insert() of t with deadline d into heap h, nothing if d is there.       *)
Inserted(h, t, d) == IF \E x \in h : m_next[x] = d THEN h ELSE h \cup {t}

(* begin() is the inserted element, or the one that kept it out.           *)
AtFront(t) == \A x \in m_timers : m_next[t] <= m_next[x]

(* The timers that have a callback or are in the set, and which of them    *)
(* meet another with their deadline.                                       *)
Live == m_timers \cup m_cb
Meeting == {t \in Live : \E x \in Live \ {t} : m_next[x] = m_next[t]}

(* The timers user code can name: addTimer() has returned a pointer to     *)
(* them, and their callback is not null.                                   *)
Named == {t \in m_cb : \A u \in Users : job[u].timer = t => job[u].call # "add"}

Goto(p, label) == pc' = [pc EXCEPT ![p] = label]

(* What the changes made to the heap mean for the history.                 *)
Remember == tied' = tied \cup Meeting'

-----------------------------------------------------------------------------
(***************************************************************************)
(* The users.                                                              *)
(***************************************************************************)

(* New timers of one kind are alike: which of them is next is no choice.   *)
New == {CHOOSE t \in kind : TRUE : kind \in {Recurring \ made, (Timers \ Recurring) \ made} \ {{}}}

(* addTimer(ms, cb, recurring): the Timer is built first, then inserted.   *)
addTimer(u) ==
    /\ pc[u] = "idle"
    /\ \E t \in New, ms \in Durations :
          /\ made' = made \cup {t}
          /\ m_next' = [m_next EXCEPT ![t] = clock + ms]
          /\ m_ms' = [m_ms EXCEPT ![t] = ms]
          /\ m_cb' = m_cb \cup {t}
          /\ job' = [job EXCEPT ![u] = [timer |-> t, ms |-> ms, call |-> "add"]]
    /\ Goto(u, "insert")
    /\ UNCHANGED <<clockVars, m_timers, m_tickled, m_previouseTime, writer, localVars, wakeup,
                   fired, cancelled, disordered>>
    /\ Remember

(* The insertion with the lock; at_front is false when a wake-up is on its *)
(* way already.                                                            *)
Insert(u) ==
    /\ pc[u] = "insert"
    /\ writer = NoThread
    /\ LET t == job[u].timer
           at_front == AtFront(t) /\ ~m_tickled
       IN  /\ m_timers' = Inserted(m_timers, t, m_next[t])
           /\ m_tickled' = (m_tickled \/ at_front)
           /\ Goto(u, IF at_front THEN "notify" ELSE "idle")
           /\ job' = IF at_front /\ job[u].call = "add" THEN job ELSE [job EXCEPT ![u] = NoJob]
    /\ UNCHANGED <<clockVars, made, m_next, m_ms, m_cb, m_previouseTime, writer, localVars,
                   wakeup, fired, cancelled, disordered>>
    /\ Remember

(* Mutant: the empty handler of TimerManager, which wakes nobody.          *)
onTimerInsertedAtFrontEmpty(u) ==
    /\ pc[u] = "notify"
    /\ Goto(u, "idle")
    /\ job' = [job EXCEPT ![u] = NoJob]
    /\ UNCHANGED <<clockVars, made, heapVars, m_tickled, m_previouseTime, writer, localVars,
                   wakeup, histVars>>

(* onTimerInsertedAtFront(), after the lock: IOManager::tickle(), which    *)
(* does nothing when no waiter is in the idle fiber.  One that is in "run" *)
(* may be in it or not.                                                    *)
onTimerInsertedAtFront(u) ==
    /\ pc[u] = "notify"
    /\ wakeup' \in {TRUE, wakeup \/ \E w \in Waiters : pc[w] # "run"}
    /\ Goto(u, "idle")
    /\ job' = [job EXCEPT ![u] = NoJob]
    /\ UNCHANGED <<clockVars, made, heapVars, m_tickled, m_previouseTime, writer, localVars,
                   histVars>>

cancel(u) ==
    /\ pc[u] = "idle"
    /\ writer = NoThread
    /\ \E t \in Named :
          /\ m_cb' = m_cb \ {t}
          /\ m_timers' = m_timers \ Same(t)
          /\ cancelled' = cancelled \cup {t}
    /\ UNCHANGED <<clockVars, made, m_next, m_ms, m_tickled, m_previouseTime, writer, pc, job,
                   localVars, wakeup, fired, tied, disordered>>

(* Mutant: the timer is erased and not inserted again.                     *)
refreshErases(u) ==
    /\ pc[u] = "idle"
    /\ writer = NoThread
    /\ \E t \in Named :
          /\ Same(t) # {}
          /\ m_next' = [m_next EXCEPT ![t] = clock + m_ms[t]]
          /\ m_timers' = m_timers \ Same(t)
    /\ UNCHANGED <<clockVars, made, m_ms, m_cb, m_tickled, m_previouseTime, writer, pc, job,
                   localVars, wakeup, fired, cancelled, disordered>>
    /\ Remember

(* refresh() erases, moves the deadline and inserts under one lock, and    *)
(* wakes nobody: the deadline only moves to later.                         *)
refresh(u) ==
    /\ pc[u] = "idle"
    /\ writer = NoThread
    /\ \E t \in Named :
          /\ Same(t) # {}
          /\ m_next' = [m_next EXCEPT ![t] = clock + m_ms[t]]
          /\ m_timers' = Inserted(m_timers \ Same(t), t, m_next'[t])
    /\ UNCHANGED <<clockVars, made, m_ms, m_cb, m_tickled, m_previouseTime, writer, pc, job,
                   localVars, wakeup, fired, cancelled, disordered>>
    /\ Remember

(* Mutant: reset() goes on although the timer is not in the heap.          *)
resetUnchecked(u) ==
    /\ pc[u] = "idle"
    /\ writer = NoThread
    /\ \E t \in Named, ms \in Durations, call \in {"reset", "resetFromNow"} :
          /\ ms # m_ms[t] \/ call = "resetFromNow"
          /\ m_timers' = m_timers \ Same(t)
          /\ job' = [job EXCEPT ![u] = [timer |-> t, ms |-> ms, call |-> call]]
    /\ Goto(u, "write")
    /\ UNCHANGED <<clockVars, made, m_next, m_ms, m_cb, m_tickled, m_previouseTime, writer,
                   localVars, wakeup, histVars>>

(* reset(): the timer is taken out with the lock held ...                  *)
reset(u) ==
    /\ pc[u] = "idle"
    /\ writer = NoThread
    /\ \E t \in Named, ms \in Durations, call \in {"reset", "resetFromNow"} :
          /\ ms # m_ms[t] \/ call = "resetFromNow"
          /\ Same(t) # {}
          /\ m_timers' = m_timers \ Same(t)
          /\ job' = [job EXCEPT ![u] = [timer |-> t, ms |-> ms, call |-> call]]
    /\ Goto(u, "write")
    /\ UNCHANGED <<clockVars, made, m_next, m_ms, m_cb, m_tickled, m_previouseTime, writer,
                   localVars, wakeup, histVars>>

(* ... and its deadline is written without it; Insert follows.  A deadline *)
(* written while the timer is in the set may undo the set's order.         *)
ResetWrite(u) ==
    /\ pc[u] = "write"
    /\ LET t == job[u].timer
           start == IF job[u].call = "resetFromNow" THEN clock ELSE m_next[t] - m_ms[t]
       IN  /\ m_next' = [m_next EXCEPT ![t] = start + job[u].ms]
           /\ m_ms' = [m_ms EXCEPT ![t] = job[u].ms]
           /\ disordered' = (disordered \/ t \in m_timers)
    /\ Goto(u, "insert")
    /\ UNCHANGED <<clockVars, made, m_timers, m_cb, m_tickled, m_previouseTime, writer, job,
                   localVars, wakeup, fired, cancelled>>
    /\ Remember

(* What a set whose order was undone finds, refuses and begins with is not *)
(* defined: anything may be in it.                                         *)
Undefined ==
    /\ disordered
    /\ m_timers' \in SUBSET made
    /\ UNCHANGED <<clockVars, made, m_next, m_ms, m_cb, m_tickled, m_previouseTime, writer, pc,
                   job, localVars, wakeup, fired, cancelled, disordered>>
    /\ Remember

UserStep(u) == Insert(u) \/ onTimerInsertedAtFront(u) \/ ResetWrite(u)

User(u) == UserStep(u) \/ addTimer(u) \/ cancel(u) \/ refresh(u) \/ reset(u)

-----------------------------------------------------------------------------
(***************************************************************************)
(* The waiters: the timer part of IOManager::idle().                       *)
(***************************************************************************)

(* IOManager::stopping() calls getNextTimer() too, which clears the flag.  *)
StoppingAsks(w) ==
    /\ pc[w] = "run"
    /\ writer = NoThread
    /\ m_tickled' = FALSE
    /\ UNCHANGED <<clockVars, made, heapVars, m_previouseTime, writer, pc, job, localVars, wakeup,
                   histVars>>

(* Mutant: the flag of the last wake-up stays set.                         *)
getNextTimerKeepsFlag(w) ==
    /\ pc[w] = "run"
    /\ writer = NoThread
    /\ limit' = [limit EXCEPT ![w] = IF m_timers = {} THEN Forever ELSE m_next[Front]]
    /\ Goto(w, "asleep")
    /\ UNCHANGED <<clockVars, made, heapVars, m_tickled, m_previouseTime, writer, job, listNow,
                   rollover, drains, wakeup, histVars>>

(* getNextTimer() and the epoll_wait() with its result.  The cap of five   *)
(* seconds is left out: without it a timer nobody waits for is never       *)
(* collected, with it the timer is late.                                   *)
getNextTimer(w) ==
    /\ pc[w] = "run"
    /\ writer = NoThread
    /\ m_tickled' = FALSE
    /\ limit' = [limit EXCEPT ![w] = IF m_timers = {} THEN Forever ELSE m_next[Front]]
    /\ Goto(w, "asleep")
    /\ UNCHANGED <<clockVars, made, heapVars, m_previouseTime, writer, job, listNow, rollover,
                   drains, wakeup, histVars>>

(* epoll_wait() returns: at the deadline, for the pipe, or for a file; the *)
(* pipe is edge triggered and wakes one waiter for one write.  Then        *)
(* listExpiredCb() reads the clock, before it locks ...                    *)
Wake(w) ==
    /\ pc[w] = "asleep"
    /\ drains' = IF wakeup THEN drains \cup {w} ELSE drains
    /\ wakeup' = FALSE
    /\ limit' = [limit EXCEPT ![w] = 0]
    /\ listNow' = [listNow EXCEPT ![w] = clock]
    /\ Goto(w, "lock")
    /\ UNCHANGED <<clockVars, made, heapVars, m_tickled, m_previouseTime, writer, job,
                   rollover, histVars>>

(* ... and detectClockRollover() reads it again under the lock.            *)
ListLock(w) ==
    /\ pc[w] = "lock"
    /\ writer = NoThread
    /\ writer' = w
    /\ rollover' = [rollover EXCEPT ![w] = clock < m_previouseTime - Hour]
    /\ m_previouseTime' = clock
    /\ Goto(w, "listing")
    /\ UNCHANGED <<clockVars, made, heapVars, m_tickled, job, limit, listNow, drains, wakeup,
                   histVars>>

(* The condition of the loop.                                              *)
Expired(w) == m_timers # {} /\ (rollover[w] \/ m_next[Front] < listNow[w])

(* Mutant: a one-shot timer keeps its callback.                            *)
CollectKeepsCallback(w) ==
    /\ pc[w] = "listing"
    /\ Expired(w)
    /\ LET t == Front
           d == listNow[w] + m_ms[t]
       IN  /\ fired' = IF t \in m_cb \ Recurring THEN [fired EXCEPT ![t] = @ + 1] ELSE fired
           /\ IF t \in Recurring
                THEN /\ m_next' = [m_next EXCEPT ![t] = d]
                     /\ m_timers' = Inserted(m_timers \ {t}, t, d)
                ELSE m_timers' = m_timers \ {t} /\ UNCHANGED m_next
    /\ UNCHANGED <<clockVars, made, m_ms, m_cb, m_tickled, m_previouseTime, writer, pc, job,
                   localVars, wakeup, cancelled, disordered>>
    /\ Remember

(* Mutant: the expired timer is not erased.                                *)
CollectKeepsTimer(w) ==
    /\ pc[w] = "listing"
    /\ Expired(w)
    /\ LET t == Front
       IN  fired' = IF t \in m_cb \ Recurring THEN [fired EXCEPT ![t] = @ + 1] ELSE fired
    /\ UNCHANGED <<clockVars, made, heapVars, m_tickled, m_previouseTime, writer, pc, job,
                   localVars, wakeup, cancelled, tied, disordered>>

(* One round: a recurring timer is put back with a deadline of this batch, *)
(* another one loses its callback.  A null callback is collected but runs  *)
(* nothing.                                                                *)
Collect(w) ==
    /\ pc[w] = "listing"
    /\ Expired(w)
    /\ LET t == Front
           d == listNow[w] + m_ms[t]
       IN  /\ fired' = IF t \in m_cb \ Recurring THEN [fired EXCEPT ![t] = @ + 1] ELSE fired
           /\ IF t \in Recurring
                THEN /\ m_next' = [m_next EXCEPT ![t] = d]
                     /\ m_timers' = Inserted(m_timers \ {t}, t, d)
                     /\ UNCHANGED m_cb
                ELSE /\ m_timers' = m_timers \ {t}
                     /\ m_cb' = m_cb \ {t}
                     /\ UNCHANGED m_next
    /\ UNCHANGED <<clockVars, made, m_ms, m_tickled, m_previouseTime, writer, pc, job, localVars,
                   wakeup, cancelled, disordered>>
    /\ Remember

ListDone(w) ==
    /\ pc[w] = "listing"
    /\ ~Expired(w)
    /\ writer' = NoThread
    /\ listNow' = [listNow EXCEPT ![w] = 0]
    /\ rollover' = [rollover EXCEPT ![w] = FALSE]
    /\ Goto(w, IF w \in drains THEN "drain" ELSE "run")
    /\ UNCHANGED <<clockVars, made, heapVars, m_tickled, m_previouseTime, job, limit, drains,
                   wakeup, histVars>>

(* Emptying the pipe also takes a byte that has woken nobody yet.          *)
Drain(w) ==
    /\ pc[w] = "drain"
    /\ wakeup' = FALSE
    /\ drains' = drains \ {w}
    /\ Goto(w, "run")
    /\ UNCHANGED <<clockVars, made, heapVars, m_tickled, m_previouseTime, writer, job, limit,
                   listNow, rollover, histVars>>

WaiterStep(w) ==
    \/ getNextTimer(w) \/ ListLock(w) \/ Collect(w) \/ ListDone(w) \/ Drain(w)

(* A waiter that has to wake up: its deadline has come or it has mail.     *)
WakeDue(w) == Wake(w) /\ (wakeup \/ limit[w] <= clock)

-----------------------------------------------------------------------------
Advance ==
    /\ clock < MaxTick
    /\ clock' = clock + 1
    /\ UNCHANGED setBacks

SetBack ==
    /\ setBacks < SetBacks
    /\ setBacks' = setBacks + 1
    /\ \E c \in 0..MaxTick : c < clock /\ clock' = c

Clock ==
    /\ Advance \/ SetBack
    /\ UNCHANGED <<made, heapVars, m_tickled, m_previouseTime, writer, pc, job, localVars,
                   wakeup, histVars>>

Next ==
    \/ Clock
    \/ Undefined
    \/ \E u \in Users : User(u)
    \/ \E w \in Waiters : WaiterStep(w) \/ Wake(w) \/ StoppingAsks(w)

(* A call that was begun goes on, and waiters work and wake up when they   *)
(* must.  Nobody is bound to call anything.                                *)
Fairness ==
    /\ \A u \in Users : WF_vars(UserStep(u))
    /\ \A w \in Waiters : WF_vars(WaiterStep(w) \/ WakeDue(w))

Spec == Init /\ [][Next]_vars

FairSpec == Spec /\ Fairness

-----------------------------------------------------------------------------
(***************************************************************************)
(* Properties.                                                             *)
(***************************************************************************)

TypeOK ==
    /\ clock \in 0..MaxTick /\ setBacks \in 0..SetBacks
    /\ made \subseteq Timers /\ m_timers \subseteq made /\ m_cb \subseteq made
    /\ m_next \in [Timers -> Nat] /\ m_ms \in [Timers -> Durations \cup {0}]
    /\ m_tickled \in BOOLEAN /\ m_previouseTime \in Nat
    /\ writer \in Waiters \cup {NoThread}
    /\ pc \in [Users \cup Waiters -> UserPC \cup WaiterPC]
    /\ job \in [Users -> Job \cup {NoJob}]
    /\ limit \in [Waiters -> Nat] /\ listNow \in [Waiters -> Nat]
    /\ rollover \in [Waiters -> BOOLEAN] /\ drains \subseteq Waiters
    /\ wakeup \in BOOLEAN
    /\ fired \in [Timers -> 0..2] /\ cancelled \subseteq Timers
    /\ tied \subseteq Timers /\ disordered \in BOOLEAN

(* Who has taken a timer out of the heap and will put it back.             *)
Carries(u, t) == pc[u] \in {"write", "insert"} /\ job[u].timer = t

(* The order of the set is undone only when deadlines tie: until a live    *)
(* timer has met another with its deadline, the timer whose deadline       *)
(* reset() writes without the lock is not in the set and in nobody else's  *)
(* hands, and a set in order has one timer for each deadline.              *)
HeapOrdered ==
    /\ disordered => tied # {}
    /\ ~disordered =>
          /\ \A x, y \in m_timers : m_next[x] = m_next[y] => x = y
          /\ \A u \in Users, t \in Timers \ tied : Carries(u, t) =>
                t \notin m_timers /\ \A v \in Users : Carries(v, t) => v = u

(* A timer that was neither cancelled nor, if it fires once, collected is  *)
(* in the heap or on its way back into it, unless it has met another with  *)
(* its deadline: concurrent cancel(), refresh(), reset() and               *)
(* listExpiredCb() lose none but those whose deadlines the comparator      *)
(* cannot tell apart.                                                      *)
NoTimerLost ==
    ~disordered => \A t \in m_cb \ tied : t \in m_timers \/ \E u \in Users : Carries(u, t)

(* A one-shot timer is collected at most once, and never when its cancel() *)
(* returned true, before or after, whatever races with it.                 *)
OneShotOnce ==
    \A t \in Timers \ Recurring : fired[t] <= 1 /\ (t \in cancelled => fired[t] = 0)

(* While every waiter is asleep and the set in order, one of them wakes up *)
(* no later than the first deadline, or a wake-up is on its way: "only     *)
(* tickle once till one thread wakes up and runs getNextTimer()" saves     *)
(* pipe writes, never the one that was needed.                             *)
FrontIsCovered ==
    m_timers # {} /\ ~disordered =>
        \/ wakeup
        \/ \E u \in Users : pc[u] = "notify"
        \/ \E w \in Waiters : pc[w] # "asleep" \/ limit[w] <= m_next[Front]

(* The heap does not stay overdue: whenever deadlines have passed, a time  *)
(* comes when every one of them was collected, cancelled or moved,         *)
(* although only the waiter that sleeps least has a wake-up call.          *)
Overdue == \E t \in m_timers : m_next[t] < clock

DueTimersFire == Overdue ~> ~Overdue
=============================================================================
