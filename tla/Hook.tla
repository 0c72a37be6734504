--------------------------------- MODULE Hook ---------------------------------
(***************************************************************************)
(* The hooked system calls of fiber_lib/6hook (hook_ly.cpp): how a         *)
(* blocking call becomes a timer, an event and a yield(), and what happens *)
(* when the event, the timeout and close() meet.                           *)
(*                                                                         *)
(* IOManager.tla and Scheduler.tla have what is below in full.  Here       *)
(* addEvent(), cancelEvent() and cancelAll() are one step each, as the     *)
(* mutex of the descriptor makes them; a fiber that is queued resumes at   *)
(* any time after it has yielded; a timer expires at any time, and its     *)
(* callback runs at any time after that, on another thread.                *)
(***************************************************************************)
EXTENDS Integers, FiniteSets

CONSTANTS Fibers, Fds, NoFiber, NoFd,
          MaxCalls, MaxArrivals, MaxCloses \* bounds

ASSUME NullAssumption == NoFiber \notin Fibers /\ NoFd \notin Fds

ASSUME BoundAssumption == MaxCalls \in Nat /\ MaxArrivals \in Nat /\ MaxCloses \in Nat

Event == {"READ", "WRITE"}

(* Where a fiber is: "run" in user code, from "try" to "check" in a hooked *)
(* call, and in close().                                                   *)
FiberPC == {"run", "try", "timer", "event", "wait", "woken", "failed", "check",
            "closeDel", "closeFd"}

Kind == {"io", "connect", "sleep", "close", "none"}

(* A call; cancelled is its timer_info.                                    *)
NoCall == [id |-> 0, kind |-> "none", fd |-> NoFd, event |-> "READ", timed |-> FALSE,
           cancelled |-> FALSE]

VARIABLES pc, call,
          wakes,      \* how often each fiber is in the scheduler's queue
          waiter,     \* the fiber in each event's context, NoFiber if not registered
          fdCtx,      \* descriptors FdManager has a context for
          timers,     \* armed timers: the fiber and the call
          due,        \* expired ones whose callback has not run
          cancelling, \* callbacks that have set cancelled and not cancelled the event
          \* the kernel
          open, ready, conn,
          watched,    \* the events epoll watches
          snapshot,   \* the events an idle worker has got from epoll_wait()
          \* bounds
          ids, arrivals, closes

callVars   == <<pc, call>>
ioVars     == <<wakes, waiter, fdCtx>>
timerVars  == <<timers, due, cancelling>>
kernelVars == <<open, ready, conn, watched, snapshot>>
boundVars  == <<ids, arrivals, closes>>
vars == <<callVars, ioVars, timerVars, kernelVars, boundVars>>

Init ==
    /\ pc = [f \in Fibers |-> "run"]
    /\ call = [f \in Fibers |-> NoCall]
    /\ wakes = [f \in Fibers |-> 0]
    /\ waiter = [d \in Fds |-> [e \in Event |-> NoFiber]]
    /\ fdCtx = {}
    /\ timers = {} /\ due = {} /\ cancelling = {}
    /\ open = {}
    /\ ready = [d \in Fds |-> {}]
    /\ conn = [d \in Fds |-> "new"]
    /\ watched = [d \in Fds |-> {}]
    /\ snapshot = [d \in Fds |-> {}]
    /\ ids = 0 /\ arrivals = 0 /\ closes = 0

-----------------------------------------------------------------------------
(***************************************************************************)
(* The kernel, and the part of IOManager::idle() that handles events.  A   *)
(* socket is connected, or not, some time after connect().                 *)
(***************************************************************************)
Arrive(d, e) ==
    /\ arrivals < MaxArrivals
    /\ d \in open /\ conn[d] = "connected"
    /\ e \notin ready[d]
    /\ arrivals' = arrivals + 1
    /\ ready' = [ready EXCEPT ![d] = @ \cup {e}]
    /\ UNCHANGED <<callVars, ioVars, timerVars, open, conn, watched, snapshot, ids, closes>>

(* A connected socket is writable; a failed one, like one that never tried *)
(* to connect, is hung up, which idle() takes for both events.             *)
Connected(d, outcome) ==
    /\ conn[d] = "connecting"
    /\ conn' = [conn EXCEPT ![d] = outcome]
    /\ ready' = [ready EXCEPT ![d] = IF outcome = "connected" THEN {"WRITE"} ELSE Event]
    /\ UNCHANGED <<callVars, ioVars, timerVars, open, watched, snapshot, boundVars>>

epoll_wait(d) ==
    /\ snapshot[d] = {}
    /\ ready[d] \cap watched[d] # {}
    /\ snapshot' = [snapshot EXCEPT ![d] = ready[d] \cap watched[d]]
    /\ UNCHANGED <<callVars, ioVars, timerVars, open, ready, conn, watched, boundVars>>

Registered(d) == {e \in Event : waiter[d][e] # NoFiber}

(* Mutant: the context is not reset.                                       *)
triggerEventKeepsContext(d, es) ==
    /\ wakes' = [f \in Fibers |-> wakes[f] + Cardinality({e \in es : waiter[d][e] = f})]
    /\ UNCHANGED waiter

(* The fibers that wait for the events es of d are queued, and the         *)
(* contexts reset.                                                         *)
triggerEvent(d, es) ==
    /\ wakes' = [f \in Fibers |-> wakes[f] + Cardinality({e \in es : waiter[d][e] = f})]
    /\ waiter' = [waiter EXCEPT ![d] = [e \in Event |-> IF e \in es THEN NoFiber ELSE @[e]]]

(* epoll_ctl() fails with MOD and DEL if epoll does not watch the          *)
(* descriptor; then nothing else is done.                                  *)
Trigger(d, es) ==
    IF es \cap Registered(d) = {} \/ watched[d] = {}
      THEN UNCHANGED <<wakes, waiter, watched>>
      ELSE triggerEvent(d, es) /\ watched' = [watched EXCEPT ![d] = Registered(d) \ es]

HandleEvent(d) ==
    /\ snapshot[d] # {}
    /\ snapshot' = [snapshot EXCEPT ![d] = {}]
    /\ Trigger(d, snapshot[d])
    /\ UNCHANGED <<callVars, fdCtx, timerVars, open, ready, conn, boundVars>>

Kernel ==
    \E d \in Fds :
        \/ \E e \in Event : Arrive(d, e)
        \/ \E outcome \in {"connected", "failed"} : Connected(d, outcome)

Idle == \E d \in Fds : epoll_wait(d) \/ HandleEvent(d)

-----------------------------------------------------------------------------
(***************************************************************************)
(* Timers.  One belongs to a wait of a call; its callback does nothing     *)
(* once the call has returned (the weak timer_info), or is cancelled.      *)
(***************************************************************************)
Mine(f) == {t \in timers : t.fiber = f}

Alive(t) == call[t.fiber].id = t.call.id

Expire(t) ==
    /\ t \in timers
    /\ timers' = timers \ {t}
    /\ due' = due \cup {t}
    /\ UNCHANGED <<callVars, ioVars, cancelling, kernelVars, boundVars>>

(* The callback of sleep() queues the fiber; that of a timeout sets        *)
(* cancelled ...                                                           *)
Callback(t) ==
    /\ t \in due
    /\ due' = due \ {t}
    /\ IF t.call.kind = "sleep"
         THEN wakes' = [wakes EXCEPT ![t.fiber] = @ + 1] /\ UNCHANGED <<call, cancelling>>
         ELSE IF Alive(t) /\ ~call[t.fiber].cancelled
           THEN /\ call' = [call EXCEPT ![t.fiber].cancelled = TRUE]
                /\ cancelling' = cancelling \cup {t}
                /\ UNCHANGED wakes
           ELSE UNCHANGED <<wakes, call, cancelling>>
    /\ UNCHANGED <<pc, waiter, fdCtx, timers, kernelVars, boundVars>>

(* ... and then cancels the event of the descriptor, whoever waits for it. *)
CancelEvent(t) ==
    /\ t \in cancelling
    /\ cancelling' = cancelling \ {t}
    /\ Trigger(t.call.fd, {t.call.event})
    /\ UNCHANGED <<callVars, fdCtx, timers, due, open, ready, conn, snapshot, boundVars>>

TimerStep == (\E t \in timers : Expire(t)) \/ (\E t \in due : Callback(t))
                 \/ (\E t \in cancelling : CancelEvent(t))

-----------------------------------------------------------------------------
(***************************************************************************)
(* Calls of user code.                                                     *)
(***************************************************************************)
Goto(f, label) == pc' = [pc EXCEPT ![f] = label]

Begin(f, kind, d, e, timed) ==
    /\ pc[f] = "run"
    /\ ids < MaxCalls
    /\ ids' = ids + 1
    /\ call' = [call EXCEPT ![f] = [id |-> ids + 1, kind |-> kind, fd |-> d, event |-> e,
                                    timed |-> timed, cancelled |-> FALSE]]
    /\ UNCHANGED <<arrivals, closes>>

(* The value a call returns is of no interest to what follows.             *)
Return(f) == Goto(f, "run") /\ call' = [call EXCEPT ![f] = NoCall]

(* The kernel gives a free number, and FdManager::get() makes a context,   *)
(* which sets the descriptor non-blocking.                                 *)
NewFd(f, state, what) ==
    /\ pc[f] = "run"
    /\ \E d \in Fds \ open :
          /\ open' = open \cup {d}
          /\ fdCtx' = fdCtx \cup {d}
          /\ conn' = [conn EXCEPT ![d] = state]
          /\ ready' = [ready EXCEPT ![d] = what]
    /\ UNCHANGED <<callVars, wakes, waiter, timerVars, watched, snapshot, boundVars>>

socket(f) == NewFd(f, "new", Event)

(* accept() with a client there; without one it waits like any do_io().    *)
accept(f) == NewFd(f, "connected", {"WRITE"})

(* What getTimeout() says: none, or the one setsockopt() has set some time. *)
Timed == BOOLEAN

(* do_io() on a descriptor with a context.                                 *)
do_io(f, d, e) ==
    /\ d \in fdCtx
    /\ \E timed \in Timed : Begin(f, "io", d, e, timed)
    /\ Goto(f, "try")
    /\ UNCHANGED <<ioVars, timerVars, kernelVars>>

(* read() to recvmsg(), and write() to sendmsg().                          *)
ReadWrite(f, d) == do_io(f, d, "READ") \/ do_io(f, d, "WRITE")

(* The original call: an error, the data, or EAGAIN.                       *)
Try(f) ==
    /\ pc[f] = "try"
    /\ LET d == call[f].fd
           e == call[f].event
           fails == d \notin open \/ conn[d] \in {"new", "failed"}
       IN  \/ (fails \/ e \in ready[d]) /\ Return(f)
              /\ ready' = IF fails THEN ready ELSE [ready EXCEPT ![d] = @ \ {e}]
           \/ ~fails /\ e \notin ready[d] /\ Goto(f, IF call[f].timed THEN "timer" ELSE "event")
              /\ UNCHANGED <<call, ready>>
    /\ UNCHANGED <<ioVars, timerVars, open, conn, watched, snapshot, boundVars>>

(* connect_with_timeout() of a socket that is not connected: it is in      *)
(* progress.  connect() passes s_connect_timeout, which nobody sets.       *)
connect(f, d) ==
    /\ d \in fdCtx /\ conn[d] = "new" /\ d \in open
    /\ \E timed \in BOOLEAN :
          Begin(f, "connect", d, "WRITE", timed) /\ Goto(f, IF timed THEN "timer" ELSE "event")
    /\ conn' = [conn EXCEPT ![d] = "connecting"]
    /\ ready' = [ready EXCEPT ![d] = {}]
    /\ UNCHANGED <<ioVars, timerVars, open, watched, snapshot>>

NewTimer(f, c) == timers' = timers \cup {[fiber |-> f, call |-> c]}

addConditionTimer(f) ==
    /\ pc[f] = "timer"
    /\ NewTimer(f, call[f])
    /\ Goto(f, "event")
    /\ UNCHANGED <<call, ioVars, due, cancelling, kernelVars, boundVars>>

(* Mutant: the new event replaces those epoll watches.                     *)
addEventReplaces(f) ==
    /\ pc[f] = "event"
    /\ LET d == call[f].fd
           e == call[f].event
       IN  IF e \in Registered(d)
             THEN Goto(f, "failed") /\ UNCHANGED <<waiter, watched>>
             ELSE /\ waiter' = [waiter EXCEPT ![d][e] = f]
                  /\ watched' = [watched EXCEPT ![d] = {e} \cap {x \in Event : d \in open}]
                  /\ Goto(f, "wait")
    /\ UNCHANGED <<call, wakes, fdCtx, timerVars, open, ready, conn, snapshot, boundVars>>

(* addEvent() fails if somebody waits for the event already.  It does not  *)
(* fail if epoll_ctl() does, for a closed descriptor (ADD) or one that     *)
(* epoll has forgotten (MOD): that is only logged.                         *)
addEvent(f) ==
    /\ pc[f] = "event"
    /\ LET d == call[f].fd
           e == call[f].event
           fails == d \notin open \/ (Registered(d) # {} /\ watched[d] = {})
       IN  IF e \in Registered(d)
             THEN Goto(f, "failed") /\ UNCHANGED <<waiter, watched>>
             ELSE /\ waiter' = [waiter EXCEPT ![d][e] = f]
                  /\ watched' = IF fails THEN watched
                                ELSE [watched EXCEPT ![d] = Registered(d) \cup {e}]
                  /\ Goto(f, "wait")
    /\ UNCHANGED <<call, wakes, fdCtx, timerVars, open, ready, conn, snapshot, boundVars>>

(* Back from yield().                                                      *)
Resume(f) ==
    /\ pc[f] = "wait"
    /\ wakes[f] > 0
    /\ wakes' = [wakes EXCEPT ![f] = @ - 1]
    /\ Goto(f, "woken")
    /\ UNCHANGED <<call, waiter, fdCtx, timerVars, kernelVars, boundVars>>

Again(f) == Goto(f, IF call[f].kind = "io" THEN "try" ELSE "check") /\ UNCHANGED call

(* The timer is cancelled.  A sleep is over, a timeout is returned, else   *)
(* the call tries again, or connect() asks for the outcome.                *)
Woken(f) ==
    /\ pc[f] = "woken"
    /\ timers' = timers \ Mine(f)
    /\ IF call[f].kind = "sleep" \/ call[f].cancelled THEN Return(f) ELSE Again(f)
    /\ UNCHANGED <<ioVars, due, cancelling, kernelVars, boundVars>>

(* Mutant: the timer is not cancelled when addEvent() fails.               *)
FailedKeepsTimer(f) ==
    /\ pc[f] = "failed"
    /\ IF call[f].kind = "io" THEN Return(f) ELSE Again(f)
    /\ UNCHANGED <<ioVars, timerVars, kernelVars, boundVars>>

(* addEvent() has failed.                                                  *)
Failed(f) ==
    /\ pc[f] = "failed"
    /\ timers' = timers \ Mine(f)
    /\ IF call[f].kind = "io" THEN Return(f) ELSE Again(f)
    /\ UNCHANGED <<ioVars, due, cancelling, kernelVars, boundVars>>

(* getsockopt(SO_ERROR): no error is a success.                            *)
Check(f) ==
    /\ pc[f] = "check"
    /\ Return(f)
    /\ UNCHANGED <<ioVars, timerVars, kernelVars, boundVars>>

(* sleep(), usleep() and nanosleep().                                      *)
sleep(f) ==
    /\ Begin(f, "sleep", NoFd, "READ", TRUE)
    /\ NewTimer(f, call'[f])
    /\ Goto(f, "wait")
    /\ UNCHANGED <<ioVars, due, cancelling, kernelVars>>

Closing(f, d) == pc[f] \in {"closeDel", "closeFd"} /\ call[f].fd = d

(* close(), which one fiber calls: the fibers that wait are woken ...      *)
close(f, d) ==
    /\ d \in fdCtx
    /\ closes < MaxCloses
    /\ pc[f] = "run" /\ \A g \in Fibers : ~Closing(g, d)
    /\ closes' = closes + 1
    /\ call' = [call EXCEPT ![f] = [NoCall EXCEPT !.kind = "close", !.fd = d]]
    /\ Trigger(d, Event)
    /\ Goto(f, "closeDel")
    /\ UNCHANGED <<fdCtx, timerVars, open, ready, conn, snapshot, ids, arrivals>>

(* Mutant: the context stays.                                              *)
DelNothing(f) ==
    /\ pc[f] = "closeDel"
    /\ Goto(f, "closeFd")
    /\ UNCHANGED <<call, ioVars, timerVars, kernelVars, boundVars>>

(* ... then the context is removed ...                                     *)
Del(f) ==
    /\ pc[f] = "closeDel"
    /\ fdCtx' = fdCtx \ {call[f].fd}
    /\ Goto(f, "closeFd")
    /\ UNCHANGED <<call, wakes, waiter, timerVars, kernelVars, boundVars>>

(* ... and then the descriptor closed, which epoll forgets.                *)
CloseFd(f) ==
    /\ pc[f] = "closeFd"
    /\ open' = open \ {call[f].fd}
    /\ watched' = [watched EXCEPT ![call[f].fd] = {}]
    /\ ready' = [ready EXCEPT ![call[f].fd] = {}]
    /\ conn' = [conn EXCEPT ![call[f].fd] = "new"]
    /\ Return(f)
    /\ UNCHANGED <<ioVars, timerVars, snapshot, boundVars>>

Step(f) ==
    \/ Try(f) \/ addConditionTimer(f) \/ addEvent(f) \/ Resume(f) \/ Woken(f) \/ Failed(f)
    \/ Check(f) \/ Del(f) \/ CloseFd(f)

UserCall(f) ==
    \/ socket(f) \/ accept(f) \/ sleep(f)
    \/ \E d \in Fds : connect(f, d) \/ close(f, d) \/ ReadWrite(f, d)

Next ==
    \/ Kernel \/ Idle \/ TimerStep
    \/ \E f \in Fibers : Step(f) \/ UserCall(f)

(* Threads run: some worker is idle, and the fibers in a call go on.       *)
(* Nobody is bound to make a call, and nothing has to arrive.              *)
Fairness ==
    /\ \A d \in Fds : WF_vars(epoll_wait(d)) /\ WF_vars(HandleEvent(d))
    /\ \A f \in Fibers : WF_vars(Step(f))

Spec == Init /\ [][Next]_vars

FairSpec == Spec /\ Fairness

-----------------------------------------------------------------------------
(***************************************************************************)
(* Properties.                                                             *)
(***************************************************************************)
TypeOK ==
    /\ pc \in [Fibers -> FiberPC]
    /\ \A f \in Fibers :
          /\ call[f].kind \in Kind /\ call[f].fd \in Fds \cup {NoFd} /\ call[f].event \in Event
          /\ call[f].id \in 0..ids /\ call[f].timed \in BOOLEAN /\ call[f].cancelled \in BOOLEAN
    /\ wakes \in [Fibers -> Nat]
    /\ waiter \in [Fds -> [Event -> Fibers \cup {NoFiber}]]
    /\ fdCtx \subseteq open /\ open \subseteq Fds
    /\ \A t \in timers \cup due \cup cancelling : t.fiber \in Fibers /\ t.call.id \in 1..ids
    /\ ready \in [Fds -> SUBSET Event] /\ watched \in [Fds -> SUBSET Event]
    /\ snapshot \in [Fds -> SUBSET Event]
    /\ conn \in [Fds -> {"new", "connecting", "connected", "failed"}]
    /\ ids \in 0..MaxCalls /\ arrivals \in 0..MaxArrivals /\ closes \in 0..MaxCloses

(* A fiber that waits will be woken by exactly one thing, and one that     *)
(* does not by none: events, timeouts and close() that meet never queue it *)
(* twice (a second wake-up would end a later sleep() early) and never lose *)
(* it.                                                                     *)
WakeOnce ==
    \A f \in Fibers :
        wakes[f] + Cardinality({x \in Fds \X Event : waiter[x[1]][x[2]] = f})
                 + Cardinality({t \in timers \cup due : t.fiber = f /\ t.call.kind = "sleep"})
            = IF pc[f] = "wait" THEN 1 ELSE 0

(* An armed timer belongs to a call in progress that will cancel it.       *)
NoTimerLeft ==
    \A t \in timers : Alive(t) /\ pc[t.fiber] \in {"event", "wait", "woken", "failed"}

(* As long as nothing was closed, a call returns once its event is there,  *)
(* unless another fiber takes the event.                                   *)
Happened(f) ==
    /\ closes = 0
    /\ call[f].kind \in {"io", "connect"}
    /\ call[f].event \in ready[call[f].fd]

ReadyReturns == \A f \in Fibers : Happened(f) ~> ~Happened(f)

(* A fiber that waits in do_io() with a timeout will be timed out: its     *)
(* timer is armed, or its callback is under way to cancel the event.       *)
WillTimeOut(f) ==
    \/ ~call[f].cancelled /\ \E t \in timers \cup due : t.fiber = f /\ Alive(t)
    \/ \E t \in cancelling : t.fiber = f /\ Alive(t)

TimeoutArmed ==
    \A f \in Fibers :
        pc[f] = "wait" /\ call[f].kind = "io" /\ call[f].timed /\ wakes[f] = 0 => WillTimeOut(f)

(* Nobody waits for an event of a descriptor that was closed.              *)
NoWaitOnClosed == \A d \in Fds : Registered(d) # {} => d \in open
=============================================================================
