---------------------------- MODULE IOManagerProofs ----------------------------
(***************************************************************************)
(* Theorems about the I/O manager, for every number of workers,            *)
(* descriptors and fibers.                                                 *)
(***************************************************************************)
EXTENDS IOManager, FiniteSetTheorems, FunctionTheorems, TLAPS

-----------------------------------------------------------------------------
(***************************************************************************)
(* The inductive invariant.                                                *)
(***************************************************************************)
TypeInv ==
    /\ m_tasks \in Seq(Fibers)
    /\ m_state \in [Fibers -> FiberState]
    /\ pc \in [Workers -> WorkerPC]
    /\ cur \in [Workers -> Fibers \cup {NoFiber}]
    /\ idleTerm \subseteq Workers /\ tickleDue \subseteq Workers /\ snapPipe \subseteq Workers
    /\ m_stopping \in BOOLEAN /\ pipe \in BOOLEAN /\ aborted \in BOOLEAN
    /\ wakeups \in 0..Cardinality(Spawned) + 1
    /\ events \in [Fds -> SUBSET Event]
    /\ ctx \in [Fds -> [Event -> Fibers \cup {NoFiber}]]
    /\ fdMutex \in [Fds -> Workers \cup {NoThread}]
    /\ fdOf \in [Workers -> Fds \cup {NoFd}]
    /\ m_pendingEventCount \in Int
    /\ timers \subseteq Fibers
    /\ cbs \in [Workers -> SUBSET Fibers]
    /\ snapEvents \in [Workers -> [Fds -> SUBSET Condition]]
    /\ interest \in [Fds -> SUBSET Event]
    /\ ready \in [Fds -> SUBSET Condition] /\ edge \subseteq Fds
    /\ arrivals \in 0..MaxArrivals /\ calls \in 0..MaxCalls

(* What the holder of a mutex can have left to do: the two steps of        *)
(* cancelEvent(), and those of idle() and cancelAll().                     *)
Cancelling == {<<"count", e>> : e \in Event} \cup {<<e>> : e \in Event}
Triggering == {<<>>, <<"READ", "count", "WRITE", "count">>, <<"count", "WRITE", "count">>,
               <<"READ", "count">>, <<"WRITE", "count">>, <<"count">>}

(* The events that are left to trigger.                                    *)
Left(w) == {e \in Event : \E i \in DOMAIN todo[w] : todo[w][i] = e}

TodoInv == todo \in [Workers -> Cancelling \cup Triggering]

(* A mutex has one holder, who knows it, and work is left only under it.   *)
LockInv ==
    /\ \A w \in Workers, d \in Fds : fdMutex[d] = w <=> fdOf[w] = d
    /\ \A w \in Workers : ~Held(w) => todo[w] = <<>>

(* The kernel watches what is registered but for what is being triggered,  *)
(* and what cancelEvent() is about to trigger is registered.               *)
HolderOK(w) ==
    Held(w) => /\ interest[fdOf[w]] = events[fdOf[w]] \ Left(w)
               /\ todo[w] \in Cancelling => Left(w) \subseteq events[fdOf[w]]

KernelInv ==
    /\ \A d \in Fds : fdMutex[d] = NoThread => interest[d] = events[d]
    /\ \A w \in Workers : HolderOK(w)

(* A context has a fiber exactly when its event is registered.             *)
ContextInv == \A d \in Fds, e \in Event : ctx[d][e] # NoFiber <=> e \in events[d]

(* What a worker has depends on where it is.                               *)
WorkerOK(w) ==
    /\ pc[w] \in {"resume", "body", "yield"} => cur[w] \in Fibers
    /\ pc[w] # "schedule" => cbs[w] = {}
    /\ pc[w] \notin {"expire", "schedule", "events"} => \A d \in Fds : snapEvents[w][d] = {}

WorkerInv == \A w \in Workers : WorkerOK(w)

(* Whatever epoll has to report is new or in a snapshot.                   *)
Reported(d) ==
    \A c \in Reports(d, interest[d]) : d \in edge \/ \E w \in Workers : c \in snapEvents[w][d]

ReportInv == \A d \in Fds : Reported(d)

(* The five kinds of places a fiber or a callback can be in, each with the *)
(* descriptor or the worker it belongs to.                                 *)
Kind == Event \cup {"queue", "timer", "collected", "popped"}
Spot == Fds \cup Workers \cup {NoFd}

Queued(f)    == \E i \in 1..Len(m_tasks) : m_tasks[i] = f
Popped(w, f) == pc[w] = "resume" /\ cur[w] = f
Runs(w, f)   == pc[w] \in {"body", "yield"} /\ cur[w] = f

At(f, k, x) ==
    \/ k = "queue" /\ x = NoFd /\ Queued(f)
    \/ k \in Event /\ x \in Fds /\ ctx[x][k] = f
    \/ k = "timer" /\ x = NoFd /\ f \in timers
    \/ k = "collected" /\ x \in Workers /\ f \in cbs[x]
    \/ k = "popped" /\ x \in Workers /\ Popped(x, f)

Somewhere(f) == \E k \in Kind, x \in Spot : At(f, k, x)

(* A fiber is in one place at most ...                                     *)
PlaceOK(f) == \A k, l \in Kind, x, y \in Spot : At(f, k, x) /\ At(f, l, y) => k = l /\ x = y

(* ... and once in the queue; whether it is in one depends on its state.   *)
NoneTwice == \A i, j \in 1..Len(m_tasks) : m_tasks[i] = m_tasks[j] => i = j

PlaceInv == NoneTwice /\ \A f \in Fibers : PlaceOK(f)

StateOK(f) ==
    /\ m_state[f] \in {"CB", "READY"} => Somewhere(f)
    /\ m_state[f] \in {"NONE", "TERM"} => ~Somewhere(f)
    /\ \A w \in Workers : Runs(w, f) =>
          /\ m_state[f] = "RUNNING"
          /\ pc[w] = "yield" <=> Somewhere(f)
          /\ \A v \in Workers : Runs(v, f) => v = w

StateInv == \A f \in Fibers : StateOK(f)

(* The counter counts the registered events.                               *)
Registered == {x \in Fds \X Event : x[2] \in events[x[1]]}
CountedOff == {w \in Workers : Len(todo[w]) = 1 /\ Head(todo[w]) \in Event}
Triggered  == {w \in Workers : Len(todo[w]) \in {1, 3} /\ Head(todo[w]) = "count"}

CountInv ==
    /\ IsFiniteSet(Registered)
    /\ m_pendingEventCount + Cardinality(CountedOff) = Cardinality(Registered) + Cardinality(Triggered)

IInv == /\ TypeInv /\ TodoInv /\ LockInv /\ KernelInv /\ ContextInv /\ WorkerInv /\ ReportInv
        /\ PlaceInv /\ StateInv /\ CountInv

-----------------------------------------------------------------------------
(***************************************************************************)
(* The operators of the model.                                             *)
(***************************************************************************)
Step == Event \cup {"count"}

(* The sequences a holder works through, one step at a time.               *)
LEMMA FourSteps ==
    ASSUME NEW S, NEW a \in S, NEW b \in S, NEW c \in S, NEW d \in S
    PROVE  <<a, b>> \o <<c, d>> = <<a, b, c, d>>
<1> DEFINE s == <<a, b>> \o <<c, d>>
<1>1. s \in Seq(S) /\ Len(s) = 4
  OBVIOUS
<1>2. s[1] = a /\ s[2] = b /\ s[3] = c /\ s[4] = d
  OBVIOUS
<1> HIDE DEF s
<1>3. s = [i \in 1..4 |-> s[i]]
  BY <1>1
<1>4. s = <<a, b, c, d>>
  BY <1>1, <1>2, <1>3
<1> QED BY <1>4 DEF s

(* One of these sequences after the other.                                 *)
LEMMA TodoCases ==
    ASSUME NEW s \in Cancelling \cup Triggering
    PROVE  \/ \E e \in Event : s = <<"count", e>> \/ s = <<e>>
           \/ s = <<>> \/ s = <<"count">>
           \/ \E e \in Event : s = <<e, "count">>
           \/ s = <<"count", "WRITE", "count">>
           \/ s = <<"READ", "count", "WRITE", "count">>
BY DEF Cancelling, Triggering, Event

LEMMA ShortSequences ==
    ASSUME NEW S, NEW a \in S, NEW b \in S, NEW c \in S, NEW d \in S
    PROVE  /\ <<>> \in Seq(S) /\ Len(<<>>) = 0
           /\ <<a>> \in Seq(S) /\ Len(<<a>>) = 1
           /\ <<a, b>> \in Seq(S) /\ Len(<<a, b>>) = 2
           /\ <<a, b, c>> \in Seq(S) /\ Len(<<a, b, c>>) = 3
           /\ <<a, b, c, d>> \in Seq(S) /\ Len(<<a, b, c, d>>) = 4
OBVIOUS

LEMMA TodoShapes ==
    ASSUME NEW s \in Cancelling \cup Triggering
    PROVE  s \in Seq(Step) /\ Len(s) \in 0..4 /\ (s = <<>> <=> Len(s) = 0)
<1>1. "READ" \in Step /\ "WRITE" \in Step /\ "count" \in Step /\ Event \subseteq Step
  BY DEF Step, Event
<1>2. s \in Seq(Step) /\ Len(s) \in {0, 1, 2, 3, 4}
  <2>1. CASE \E e \in Event : s = <<"count", e>> \/ s = <<e>>
    <3> PICK e \in Event : s = <<"count", e>> \/ s = <<e>>
      BY <2>1
    <3>1. e \in Step
      BY <1>1
    <3> QED BY <1>1, <3>1, ShortSequences
  <2>2. CASE s = <<>> \/ s = <<"count">>
    BY <1>1, <2>2, ShortSequences
  <2>3. CASE \E e \in Event : s = <<e, "count">>
    <3> PICK e \in Event : s = <<e, "count">>
      BY <2>3
    <3>1. e \in Step
      BY <1>1
    <3> QED BY <1>1, <3>1, ShortSequences
  <2>4. CASE s = <<"count", "WRITE", "count">> \/ s = <<"READ", "count", "WRITE", "count">>
    BY <1>1, <2>4, ShortSequences
  <2> QED BY <2>1, <2>2, <2>3, <2>4, TodoCases
<1>3. s = <<>> <=> Len(s) = 0
  BY <1>2
<1> QED BY <1>2, <1>3

(* The last step tells the two kinds apart.                                *)
LEMMA TodoEnds ==
    ASSUME NEW s
    PROVE  /\ s \in Triggering /\ s # <<>> => s[Len(s)] = "count"
           /\ s \in Cancelling => s[Len(s)] \in Event /\ s # <<>> /\ s \notin Triggering
<1>1. ASSUME s \in Triggering, s # <<>> PROVE s[Len(s)] = "count"
  <2>1. s = <<"READ", "count", "WRITE", "count">> => Len(s) = 4 /\ s[4] = "count"
    OBVIOUS
  <2>2. s = <<"count", "WRITE", "count">> => Len(s) = 3 /\ s[3] = "count"
    OBVIOUS
  <2>3. s = <<"READ", "count">> \/ s = <<"WRITE", "count">> => Len(s) = 2 /\ s[2] = "count"
    OBVIOUS
  <2>4. s = <<"count">> => Len(s) = 1 /\ s[1] = "count"
    OBVIOUS
  <2> QED BY <1>1, <2>1, <2>2, <2>3, <2>4 DEF Triggering
<1>2. ASSUME s \in Cancelling PROVE s[Len(s)] \in Event /\ s # <<>>
  <2>1. ASSUME NEW e \in Event, s = <<"count", e>> PROVE Len(s) = 2 /\ s[2] = e /\ s # <<>>
    BY <2>1
  <2>2. ASSUME NEW e \in Event, s = <<e>> PROVE Len(s) = 1 /\ s[1] = e /\ s # <<>>
    BY <2>2
  <2> QED BY <1>2, <2>1, <2>2 DEF Cancelling
<1> QED BY <1>1, <1>2 DEF Event

LEMMA TodoTail ==
    ASSUME NEW s \in Cancelling \cup Triggering, s # <<>>
    PROVE  /\ Tail(s) \in Cancelling \cup Triggering /\ Len(Tail(s)) = Len(s) - 1
           /\ s \in Triggering => Tail(s) \in Triggering
           /\ Head(s) = s[1] /\ Head(s) \in Step
           /\ \A i \in 1..Len(Tail(s)) : Tail(s)[i] = s[i + 1]
<1>1. s \in Seq(Step) /\ Len(s) > 0
  BY TodoShapes
<1>2. /\ Len(Tail(s)) = Len(s) - 1 /\ Head(s) = s[1] /\ Head(s) \in Step
      /\ \A i \in 1..Len(Tail(s)) : Tail(s)[i] = s[i + 1]
  BY <1>1
<1>3. CASE s \in Triggering
  <2>1. s = <<"count">> => Tail(s) = <<>>
    OBVIOUS
  <2>2. ASSUME NEW e \in Event, s = <<e, "count">> PROVE Tail(s) = <<"count">>
    BY <2>2
  <2>3. s = <<"count", "WRITE", "count">> => Tail(s) = <<"WRITE", "count">>
    OBVIOUS
  <2>4. s = <<"READ", "count", "WRITE", "count">> => Tail(s) = <<"count", "WRITE", "count">>
    OBVIOUS
  <2>5. Tail(s) \in Triggering
    BY <1>3, <2>1, <2>2, <2>3, <2>4 DEF Triggering, Event
  <2> QED BY <1>2, <2>5
<1>4. CASE s \in Cancelling
  <2>1. ASSUME NEW e \in Event, s = <<"count", e>> PROVE Tail(s) = <<e>>
    BY <2>1
  <2>2. ASSUME NEW e \in Event, s = <<e>> PROVE Tail(s) = <<>>
    BY <2>2
  <2>3. Tail(s) \in Cancelling \cup Triggering
    BY <1>4, <2>1, <2>2 DEF Cancelling, Triggering
  <2>4. s \notin Triggering
    BY <1>4, TodoEnds
  <2> QED BY <1>2, <2>3, <2>4
<1> QED BY <1>3, <1>4

LEMMA TriggerAllShapes ==
    ASSUME NEW es
    PROVE  /\ TriggerAll(es) \in Triggering
           /\ {e \in Event : \E i \in DOMAIN TriggerAll(es) : TriggerAll(es)[i] = e} = es \cap Event
           /\ Len(TriggerAll(es)) \in {0, 2, 4}
<1>1. CASE "READ" \in es /\ "WRITE" \in es
  <2>1. TriggerAll(es) = <<"READ", "count", "WRITE", "count">>
    <3>1. "READ" \in Step /\ "WRITE" \in Step /\ "count" \in Step
      BY DEF Step, Event
    <3> QED BY <1>1, <3>1, FourSteps DEF TriggerAll
  <2> QED BY <1>1, <2>1 DEF Triggering, Event
<1>2. CASE "READ" \in es /\ "WRITE" \notin es
  <2>1. TriggerAll(es) = <<"READ", "count">>
    BY <1>2 DEF TriggerAll
  <2> QED BY <1>2, <2>1 DEF Triggering, Event
<1>3. CASE "READ" \notin es /\ "WRITE" \in es
  <2>1. TriggerAll(es) = <<"WRITE", "count">>
    BY <1>3 DEF TriggerAll
  <2> QED BY <1>3, <2>1 DEF Triggering, Event
<1>4. CASE "READ" \notin es /\ "WRITE" \notin es
  <2>1. TriggerAll(es) = <<>>
    BY <1>4 DEF TriggerAll
  <2> QED BY <1>4, <2>1 DEF Triggering, Event
<1> QED BY <1>1, <1>2, <1>3, <1>4

-----------------------------------------------------------------------------
(***************************************************************************)
(* The steps of the I/O manager, sorted by what they change.               *)
(***************************************************************************)

(* Steps that only move a worker from one place of the loop to another.    *)
MoveStep(w) ==
    \/ FindNothing(w) \/ LeaveRun(w) \/ EnterIdle(w) \/ StopTimers(w) \/ StopPending(w)
    \/ CbsDone(w) \/ EventsDone(w) \/ LeaveIdle(w) \/ (w = Root /\ StopRun)

(* Steps of the queue, the timers, the kernel and the pipe.                *)
RestStep(w) ==
    \/ tickle(w) \/ Pop(w) \/ resume(w) \/ SwapOut(w) \/ StopQueue(w)
    \/ epoll_wait(w) \/ listExpiredCb(w) \/ ScheduleCb(w) \/ DrainPipe(w)
    \/ \E f \in Fibers : schedule(w, f) \/ addTimer(w, f)
    \/ \E d \in Fds, e \in Event : Consume(w, d, e)

(* Steps that change what is registered, or begin, continue or end work    *)
(* under the mutex of a descriptor.                                        *)
FdStep(w) ==
    \/ triggerEvent(w) \/ CountDown(w) \/ Unlock(w)
    \/ \E d \in Fds : HandleEvent(w, d) \/ cancelAll(w, d)
    \/ \E d \in Fds, e \in Event :
          \/ addEvent(w, d, e) \/ delEvent(w, d, e) \/ cancelEvent(w, d, e)
          \/ \E f \in Fibers : addEventCb(w, d, e, f)

LEMMA StepCases ==
    ASSUME [Next]_vars
    PROVE  \/ World \/ StopSet \/ StopTickle
           \/ \E w \in Workers : MoveStep(w) \/ RestStep(w) \/ FdStep(w)
           \/ UNCHANGED vars
<1>1. Root \in Workers
  BY DEF Workers
<1>2. CASE stop
  BY <1>1, <1>2 DEF stop, MoveStep
<1>3. ASSUME NEW w \in Workers, RunStep(w) PROVE MoveStep(w) \/ RestStep(w) \/ FdStep(w)
  BY <1>3 DEF RunStep, MoveStep, RestStep, FdStep
<1>4. ASSUME NEW w \in Workers, Body(w) PROVE RestStep(w) \/ FdStep(w)
  BY <1>4 DEF Body, RestStep, FdStep
<1> QED BY <1>2, <1>3, <1>4 DEF Next

LEMMA MoveFrame ==
    ASSUME TypeInv, NEW w \in Workers, MoveStep(w)
    PROVE  /\ UNCHANGED <<queueVars, fdVars, lockVars, timerVars, snapVars, kernelVars, cur, idleTerm,
                          stopVars, boundVars, tickleDue, pipe, aborted>>
           /\ pc' = [pc EXCEPT ![w] = pc'[w]] /\ pc'[w] \in WorkerPC
           /\ pc[w] \notin {"resume", "body", "yield"}
           /\ pc'[w] \notin {"resume", "body", "yield", "expire", "schedule"}
           /\ pc[w] = "schedule" => cbs[w] = {} /\ pc'[w] = "events"
           /\ pc[w] = "events" => \A d \in Fds : snapEvents[w][d] = {}
           /\ pc[w] # "expire" /\ (pc'[w] = "events" => pc[w] = "schedule")
<1> USE DEF TypeInv, WorkerPC, IdlePC, Move, Goto
<1>1. CASE FindNothing(w) \/ LeaveRun(w) \/ EnterIdle(w) \/ LeaveIdle(w) \/ (w = Root /\ StopRun)
  BY <1>1 DEF FindNothing, LeaveRun, EnterIdle, LeaveIdle, StopRun
<1>2. CASE StopTimers(w) \/ StopPending(w) \/ CbsDone(w)
  BY <1>2 DEF StopTimers, StopPending, CbsDone
<1>3. CASE EventsDone(w)
  BY <1>3 DEF EventsDone
<1> QED BY <1>1, <1>2, <1>3 DEF MoveStep

LEMMA RestFrame ==
    ASSUME NEW w \in Workers, RestStep(w)
    PROVE  UNCHANGED <<fdVars, lockVars, interest, aborted, stopVars>>
<1> USE DEF queueVars, timerVars, snapVars, kernelVars, workerVars
<1>1. CASE tickle(w) \/ Pop(w) \/ resume(w) \/ SwapOut(w)
  BY <1>1 DEF tickle, Pop, resume, SwapOut
<1>2. CASE StopQueue(w) \/ epoll_wait(w) \/ listExpiredCb(w) \/ ScheduleCb(w) \/ DrainPipe(w)
  BY <1>2 DEF StopQueue, epoll_wait, listExpiredCb, ScheduleCb, DrainPipe
<1>3. CASE (\E f \in Fibers : schedule(w, f) \/ addTimer(w, f)) \/ \E d \in Fds, e \in Event : Consume(w, d, e)
  BY <1>3 DEF schedule, addTimer, Consume
<1> QED BY <1>1, <1>2, <1>3 DEF RestStep

(* The forms that a step of the last kind has.                             *)
Registers(d, e, f) == Register(d, e, f) /\ f \in Fibers /\ UNCHANGED lockVars

Deletes(d, e) ==
    /\ fdMutex[d] = NoThread
    /\ e \in events[d]
    /\ epoll_ctl(d, events[d] \ {e})
    /\ m_pendingEventCount' = m_pendingEventCount - 1
    /\ events' = [events EXCEPT ![d] = @ \ {e}]
    /\ ctx' = [ctx EXCEPT ![d][e] = NoFiber]
    /\ UNCHANGED lockVars

Begins(w, d, es, steps) ==
    /\ fdMutex[d] = NoThread /\ ~Held(w)
    /\ epoll_ctl(d, events[d] \ es)
    /\ Lock(w, d, steps)
    /\ UNCHANGED fdVars
    /\ {e \in Event : \E i \in DOMAIN steps : steps[i] = e} = es \cap Event
    /\ \/ steps \in Triggering /\ Len(steps) \in {0, 2, 4}
       \/ es \subseteq events[d] /\ \E e \in Event : steps = <<"count", e>>

LEMMA FdForms ==
    ASSUME TypeInv, WorkerInv, NEW w \in Workers, FdStep(w)
    PROVE  \/ triggerEvent(w) \/ CountDown(w) \/ Unlock(w)
           \/ \E d \in Fds, e \in Event, f \in Fibers : Registers(d, e, f)
           \/ \E d \in Fds, e \in Event : Deletes(d, e)
           \/ \E d \in Fds, es \in SUBSET Condition, steps \in Cancelling \cup Triggering : Begins(w, d, es, steps)
           \/ UNCHANGED <<fdVars, lockVars, kernelVars>>
<1>1. ASSUME NEW d \in Fds, NEW e \in Event, addEvent(w, d, e)
      PROVE  \E f \in Fibers : Registers(d, e, f)
  BY <1>1 DEF addEvent, Registers, WorkerInv, WorkerOK
<1>2. ASSUME NEW d \in Fds, NEW e \in Event, NEW f \in Fibers, addEventCb(w, d, e, f)
      PROVE  Registers(d, e, f)
  BY <1>2 DEF addEventCb, Registers
<1>3. ASSUME NEW d \in Fds, NEW e \in Event, delEvent(w, d, e) PROVE Deletes(d, e)
  BY <1>3 DEF delEvent, Deletes
<1>4. ASSUME NEW d \in Fds, NEW e \in Event, cancelEvent(w, d, e)
      PROVE  \E es \in SUBSET Condition, steps \in Cancelling \cup Triggering : Begins(w, d, es, steps)
  <2>1. <<"count", e>> \in Cancelling
    BY DEF Cancelling
  <2>2. {x \in Event : \E i \in DOMAIN <<"count", e>> : <<"count", e>>[i] = x} = {e} \cap Event
    <3> DEFINE s == <<"count", e>>
    <3>1. DOMAIN s = 1..2 /\ s[1] = "count" /\ s[2] = e
      OBVIOUS
    <3> HIDE DEF s
    <3>2. {x \in Event : \E i \in DOMAIN s : s[i] = x} = {e} \cap Event
      <4>1. \A x \in Event : x # "count"
        BY DEF Event
      <4>2. \A x \in Event : (\E i \in DOMAIN s : s[i] = x) <=> x = e
        BY <3>1, <4>1
      <4> QED BY <4>2
    <3> QED BY <3>2 DEF s
  <2>3. Begins(w, d, {e}, <<"count", e>>)
    BY <1>4, <2>2 DEF cancelEvent, Begins, Calls
  <2> QED BY <2>1, <2>3 DEF Condition
<1>5. ASSUME NEW d \in Fds, cancelAll(w, d)
      PROVE  \E es \in SUBSET Condition, steps \in Cancelling \cup Triggering : Begins(w, d, es, steps)
  <2>1. events[d] \in SUBSET Condition /\ events[d] \ events[d] = {}
    BY DEF TypeInv, Condition
  <2>2. Begins(w, d, events[d], TriggerAll(events[d]))
    BY <1>5, <2>1, TriggerAllShapes DEF cancelAll, Begins, Calls
  <2> QED BY <2>1, <2>2, TriggerAllShapes
<1>6. ASSUME NEW d \in Fds, HandleEvent(w, d)
      PROVE  \/ UNCHANGED <<fdVars, lockVars, kernelVars>>
             \/ \E es \in SUBSET Condition, steps \in Cancelling \cup Triggering : Begins(w, d, es, steps)
  <2> DEFINE real == RealEvents(w, d)
  <2>1. real \in SUBSET Condition
    BY DEF TypeInv, RealEvents, Condition
  <2>2. CASE real \cap events[d] = {}
    BY <1>6, <2>2 DEF HandleEvent
  <2>3. CASE real \cap events[d] # {}
    <3>1. Begins(w, d, real, TriggerAll(real))
      BY <1>6, <2>3, TriggerAllShapes DEF HandleEvent, Begins, LeftEvents, AtEase
    <3> QED BY <2>1, <3>1, TriggerAllShapes
  <2> QED BY <2>2, <2>3
<1> QED BY <1>1, <1>2, <1>3, <1>4, <1>5, <1>6 DEF FdStep

(* triggerEvent() of event e of d, unless its assert fails.                *)
Fires(w, d, e) ==
    /\ d = fdOf[w] /\ todo[w] # <<>> /\ e = Head(todo[w])
    /\ e \in events[d]
    /\ events' = [events EXCEPT ![d] = @ \ {e}]
    /\ ctx' = [ctx EXCEPT ![d][e] = NoFiber]
    /\ scheduleLock(w, ctx[d][e])
    /\ todo' = [todo EXCEPT ![w] = Tail(@)]
    /\ UNCHANGED aborted

LEMMA TriggerForm ==
    ASSUME TypeInv, NEW w \in Workers, triggerEvent(w)
    PROVE  /\ UNCHANGED <<m_state, m_pendingEventCount, fdMutex, fdOf, timerVars, snapVars, kernelVars,
                          workerVars, stopVars, boundVars, pipe>>
           /\ \/ \E d \in Fds, e \in Event : Fires(w, d, e)
              \/ aborted' = TRUE /\ UNCHANGED <<events, m_tasks, tickleDue, ctx, todo>>
<1>1. fdOf[w] \in Fds /\ todo[w] # <<>> /\ Head(todo[w]) \in Event
  BY DEF TypeInv, triggerEvent, Triggers, Held
<1>2. CASE Head(todo[w]) \in events[fdOf[w]]
  <2>1. Fires(w, fdOf[w], Head(todo[w]))
    BY <1>1, <1>2 DEF triggerEvent, Fires, NextTodo
  <2> QED BY <1>1, <2>1 DEF triggerEvent
<1>3. CASE Head(todo[w]) \notin events[fdOf[w]]
  BY <1>3 DEF triggerEvent
<1> QED BY <1>2, <1>3

-----------------------------------------------------------------------------
(***************************************************************************)
(* Types.                                                                  *)
(***************************************************************************)

(* The types of what the last kind of step changes ...                     *)
LEMMA FdTypes ==
    ASSUME TypeInv, TodoInv, LockInv, WorkerInv, NEW w \in Workers, FdStep(w)
    PROVE  /\ events' \in [Fds -> SUBSET Event]
           /\ ctx' \in [Fds -> [Event -> Fibers \cup {NoFiber}]]
           /\ fdMutex' \in [Fds -> Workers \cup {NoThread}]
           /\ fdOf' \in [Workers -> Fds \cup {NoFd}]
           /\ m_pendingEventCount' \in Int
           /\ interest' \in [Fds -> SUBSET Event]
           /\ edge' \subseteq Fds /\ ready' \in [Fds -> SUBSET Condition]
           /\ TodoInv'
<1> USE DEF TypeInv, TodoInv, fdVars, lockVars, kernelVars, epoll_ctl
<1>1. CASE triggerEvent(w)
  <2>1. ASSUME NEW d \in Fds, NEW e \in Event, Fires(w, d, e)
        PROVE  /\ events' \in [Fds -> SUBSET Event] /\ ctx' \in [Fds -> [Event -> Fibers \cup {NoFiber}]]
               /\ TodoInv'
    <3>1. todo[w] \in Cancelling \cup Triggering /\ todo[w] # <<>>
      BY <2>1 DEF Fires
    <3>2. todo' = [todo EXCEPT ![w] = Tail(todo[w])] /\ Tail(todo[w]) \in Cancelling \cup Triggering
      BY <2>1, <3>1, TodoTail DEF Fires
    <3>3. TodoInv'
      BY <3>2
    <3>4. events' \in [Fds -> SUBSET Event]
      BY <2>1 DEF Fires
    <3>5. ctx' \in [Fds -> [Event -> Fibers \cup {NoFiber}]]
      BY <2>1 DEF Fires
    <3> QED BY <3>3, <3>4, <3>5
  <2> QED BY <1>1, <2>1, TriggerForm
<1>2. CASE CountDown(w)
  BY <1>2, TodoTail DEF CountDown, NextTodo
<1>3. CASE Unlock(w)
  BY <1>3 DEF Unlock, Held
<1>4. ASSUME NEW d \in Fds, NEW e \in Event, NEW f \in Fibers, Registers(d, e, f)
      PROVE  /\ events' \in [Fds -> SUBSET Event] /\ ctx' \in [Fds -> [Event -> Fibers \cup {NoFiber}]]
             /\ interest' \in [Fds -> SUBSET Event] /\ edge' \subseteq Fds /\ ready' = ready
             /\ m_pendingEventCount' \in Int /\ UNCHANGED lockVars
  BY <1>4 DEF Registers, Register
<1>5. ASSUME NEW d \in Fds, NEW e \in Event, Deletes(d, e)
      PROVE  /\ events' \in [Fds -> SUBSET Event] /\ ctx' \in [Fds -> [Event -> Fibers \cup {NoFiber}]]
             /\ interest' \in [Fds -> SUBSET Event] /\ edge' \subseteq Fds /\ ready' = ready
             /\ m_pendingEventCount' \in Int /\ UNCHANGED lockVars
  BY <1>5 DEF Deletes
<1>6. ASSUME NEW d \in Fds, NEW es \in SUBSET Condition, NEW steps \in Cancelling \cup Triggering,
             Begins(w, d, es, steps)
      PROVE  /\ interest' \in [Fds -> SUBSET Event] /\ edge' \subseteq Fds /\ ready' = ready
             /\ fdMutex' \in [Fds -> Workers \cup {NoThread}] /\ fdOf' \in [Workers -> Fds \cup {NoFd}]
             /\ UNCHANGED fdVars /\ TodoInv'
  BY <1>6 DEF Begins, Lock
<1> QED BY <1>1, <1>2, <1>3, <1>4, <1>5, <1>6, FdForms

(* ... and of all other variables.                                         *)
LEMMA FdRest ==
    ASSUME TypeInv, TodoInv, LockInv, WorkerInv, ContextInv, NEW w \in Workers, FdStep(w)
    PROVE  /\ m_tasks' \in Seq(Fibers) /\ m_state' \in [Fibers -> FiberState]
           /\ pc' \in [Workers -> WorkerPC]
           /\ tickleDue' \subseteq Workers
           /\ snapEvents' \in [Workers -> [Fds -> SUBSET Condition]]
           /\ aborted' \in BOOLEAN
           /\ arrivals' \in 0..MaxArrivals /\ calls' \in 0..MaxCalls
           /\ UNCHANGED <<cur, idleTerm, snapPipe, stopVars, pipe, timerVars>>
<1> USE BoundAssumption DEF TypeInv, queueVars, timerVars, snapVars, workerVars, stopVars, boundVars
<1>1. CASE triggerEvent(w)
  <2>1. ASSUME NEW d \in Fds, NEW e \in Event, Fires(w, d, e)
        PROVE  m_tasks' \in Seq(Fibers) /\ tickleDue' \subseteq Workers /\ aborted' \in BOOLEAN
    <3>1. ctx[d][e] \in Fibers
      BY <2>1 DEF Fires, ContextInv
    <3> HIDE DEF TypeInv
    <3>2. m_tasks \in Seq(Fibers) /\ tickleDue \subseteq Workers /\ aborted \in BOOLEAN
      BY DEF TypeInv
    <3> QED BY <2>1, <3>1, <3>2 DEF Fires, scheduleLock
  <2> QED BY <1>1, <2>1, TriggerForm
<1>2. CASE CountDown(w) \/ Unlock(w)
  BY <1>2 DEF CountDown, Unlock
<1>3. ASSUME NEW d \in Fds, HandleEvent(w, d)
      PROVE  /\ snapEvents' \in [Workers -> [Fds -> SUBSET Condition]]
             /\ UNCHANGED <<queueVars, tickleDue, timerVars, snapPipe, workerVars, stopVars, boundVars,
                            pipe, aborted>>
  BY <1>3 DEF HandleEvent
<1>4. ASSUME Calls(w) PROVE calls' \in 0..MaxCalls /\ arrivals' = arrivals
  BY <1>4 DEF Calls
<1>5. ASSUME NEW d \in Fds, cancelAll(w, d) \/ \E e \in Event : cancelEvent(w, d, e)
      PROVE  Calls(w) /\ UNCHANGED <<queueVars, timerVars, snapVars, workerVars, stopVars, tickleDue, pipe, aborted>>
  BY <1>5 DEF cancelAll, cancelEvent
<1>6. ASSUME NEW d \in Fds, NEW e \in Event, addEvent(w, d, e)
      PROVE  /\ Calls(w) /\ pc' \in [Workers -> WorkerPC]
             /\ UNCHANGED <<queueVars, timerVars, snapVars, cur, idleTerm, stopVars, tickleDue, pipe, aborted>>
  BY <1>6 DEF addEvent, Goto, WorkerPC
<1>7. ASSUME NEW d \in Fds, NEW e \in Event, NEW f \in Fibers, addEventCb(w, d, e, f)
      PROVE  /\ Calls(w) /\ m_state' \in [Fibers -> FiberState]
             /\ UNCHANGED <<m_tasks, timerVars, snapVars, workerVars, stopVars, tickleDue, pipe, aborted>>
  BY <1>7 DEF addEventCb, NewCallback, Become, FiberState
<1>8. ASSUME NEW d \in Fds, NEW e \in Event, delEvent(w, d, e)
      PROVE  /\ Calls(w) /\ m_state' \in [Fibers -> FiberState]
             /\ UNCHANGED <<m_tasks, timerVars, snapVars, workerVars, stopVars, tickleDue, pipe, aborted>>
  BY <1>8 DEF delEvent, Become, FiberState
<1> QED BY <1>1, <1>2, <1>3, <1>4, <1>5, <1>6, <1>7, <1>8 DEF FdStep

LEMMA RestTypes ==
    ASSUME TypeInv, WorkerInv, NEW w \in Workers, RestStep(w)
    PROVE  TypeInv'
<1> USE BoundAssumption DEF TypeInv, queueVars, fdVars, lockVars, timerVars, snapVars, kernelVars, workerVars,
        stopVars, boundVars, Goto, WorkerPC, IdlePC, Become, FiberState, TickledPipe
<1>1. CASE tickle(w)
  <2>1. pipe' \in BOOLEAN
    BY <1>1 DEF tickle
  <2> QED BY <1>1, <2>1 DEF tickle
<1>2. CASE Pop(w)
  <2>1. m_tasks' \in Seq(Fibers) /\ Head(m_tasks) \in Fibers
    BY <1>2 DEF Pop
  <2> QED BY <1>2, <2>1 DEF Pop
<1>3. CASE resume(w)
  BY <1>3 DEF resume
<1>4. CASE SwapOut(w)
  BY <1>4 DEF SwapOut
<1>5. CASE StopQueue(w)
  <2>1. \/ pc' = [pc EXCEPT ![w] = "leave"] /\ idleTerm' = idleTerm \cup {w}
        \/ pc' = [pc EXCEPT ![w] = "wait"] /\ idleTerm' = idleTerm
    BY <1>5 DEF StopQueue
  <2>2. pc' \in [Workers -> WorkerPC] /\ idleTerm' \subseteq Workers
    BY <2>1
  <2>3. UNCHANGED <<queueVars, fdVars, lockVars, timerVars, snapVars, kernelVars, cur, stopVars, boundVars,
                    tickleDue, pipe, aborted>>
    BY <1>5 DEF StopQueue
  <2> QED BY <2>2, <2>3
<1>6. CASE epoll_wait(w)
  <2>1. snapEvents' \in [Workers -> [Fds -> SUBSET Condition]]
    BY <1>6 DEF epoll_wait, Reports
  <2> QED BY <1>6, <2>1 DEF epoll_wait
<1>7. CASE listExpiredCb(w)
  BY <1>7 DEF listExpiredCb
<1>8. CASE ScheduleCb(w)
  <2> PICK f \in cbs[w] : scheduleLock(w, f) /\ cbs' = [cbs EXCEPT ![w] = @ \ {f}]
    BY <1>8 DEF ScheduleCb
  <2>1. m_tasks' \in Seq(Fibers) /\ tickleDue' \subseteq Workers
    BY DEF scheduleLock
  <2> QED BY <1>8, <2>1 DEF ScheduleCb
<1>9. CASE DrainPipe(w)
  BY <1>9 DEF DrainPipe
<1>10. ASSUME NEW f \in Fibers, schedule(w, f) PROVE TypeInv'
  <2>1. m_tasks' \in Seq(Fibers) /\ tickleDue' \subseteq Workers
    BY <1>10 DEF schedule, scheduleLock
  <2> QED BY <1>10, <2>1 DEF schedule, Calls, NewCallback
<1>11. ASSUME NEW f \in Fibers, addTimer(w, f) PROVE TypeInv'
  BY <1>11 DEF addTimer, Calls, NewCallback
<1>12. ASSUME NEW d \in Fds, NEW e \in Event, Consume(w, d, e) PROVE TypeInv'
  BY <1>12 DEF Consume, Calls
<1> QED BY <1>1, <1>2, <1>3, <1>4, <1>5, <1>6, <1>7, <1>8, <1>9, <1>10, <1>11, <1>12 DEF RestStep

LEMMA TypeStep == IInv /\ [Next]_vars => TypeInv' /\ TodoInv'
<1> SUFFICES ASSUME IInv, [Next]_vars PROVE TypeInv' /\ TodoInv'
  OBVIOUS
<1> USE BoundAssumption DEF IInv, queueVars, fdVars, lockVars, timerVars, snapVars, kernelVars, workerVars,
        stopVars, boundVars
<1>1. CASE World
  BY <1>1 DEF World, Arrive, TypeInv, TodoInv
<1>2. CASE StopSet
  <2>1. IsFiniteSet(Spawned)
    BY WorkerAssumption
  <2>2. Cardinality(Spawned) \in Nat
    BY <2>1, FS_CardinalityType
  <2> QED BY <1>2, <2>2 DEF StopSet, TypeInv, TodoInv, Goto, WorkerPC, Workers
<1>3. CASE StopTickle
  <2>1. pipe' \in BOOLEAN
    BY <1>3 DEF StopTickle, TickledPipe, TypeInv
  <2>2. IsFiniteSet(Spawned)
    BY WorkerAssumption
  <2>3. Cardinality(Spawned) \in Nat
    BY <2>2, FS_CardinalityType
  <2> QED BY <1>3, <2>1, <2>3 DEF StopTickle, TypeInv, TodoInv
<1>4. ASSUME NEW w \in Workers, MoveStep(w) PROVE TypeInv' /\ TodoInv'
  BY <1>4, MoveFrame DEF TypeInv, TodoInv
<1>5. ASSUME NEW w \in Workers, RestStep(w) PROVE TypeInv' /\ TodoInv'
  BY <1>5, RestTypes, RestFrame DEF TodoInv
<1>6. ASSUME NEW w \in Workers, FdStep(w) PROVE TypeInv' /\ TodoInv'
  <2>1. TodoInv'
    BY <1>6, FdTypes
  <2>2. TypeInv'
    BY <1>6, FdTypes, FdRest DEF TypeInv
  <2> QED BY <2>1, <2>2
<1>7. CASE UNCHANGED vars
  BY <1>7 DEF vars, TypeInv, TodoInv
<1> QED BY <1>1, <1>2, <1>3, <1>4, <1>5, <1>6, <1>7, StepCases

-----------------------------------------------------------------------------
(***************************************************************************)
(* Mutexes, registrations and the kernel.                                  *)
(***************************************************************************)

(* All other steps leave the descriptors alone.                            *)
LEMMA FdFrame ==
    ASSUME TypeInv, [Next]_vars, ~\E w \in Workers : FdStep(w)
    PROVE  UNCHANGED <<fdVars, lockVars, interest>>
<1> USE DEF fdVars, lockVars, kernelVars
<1>1. CASE World
  BY <1>1 DEF World, Arrive
<1>2. CASE StopSet \/ StopTickle
  BY <1>2 DEF StopSet, StopTickle
<1>3. ASSUME NEW w \in Workers, MoveStep(w) \/ RestStep(w)
      PROVE  UNCHANGED <<fdVars, lockVars, interest>>
  BY <1>3, MoveFrame, RestFrame
<1>4. CASE UNCHANGED vars
  BY <1>4 DEF vars
<1> QED BY <1>1, <1>2, <1>3, <1>4, StepCases

LEMMA LockStep == IInv /\ [Next]_vars => LockInv'
<1> SUFFICES ASSUME IInv, [Next]_vars PROVE LockInv'
  OBVIOUS
<1> USE WorkerAssumption, NullAssumption DEF IInv, TypeInv, LockInv, Held, Workers, lockVars
<1>1. ASSUME NEW w \in Workers, FdStep(w) PROVE LockInv'
  <2> USE DEF TodoInv
  <2>1. CASE triggerEvent(w)
    <3>1. UNCHANGED <<fdMutex, fdOf>> /\ Held(w)
      BY <2>1, TriggerForm DEF triggerEvent, Triggers
    <3>2. ASSUME NEW d \in Fds, NEW e \in Event, Fires(w, d, e)
          PROVE  \A v \in Workers : v # w => todo'[v] = todo[v]
      BY <3>2 DEF Fires
    <3> QED BY <2>1, <3>1, <3>2, TriggerForm
  <2>2. CASE CountDown(w)
    BY <2>2 DEF CountDown, NextTodo
  <2>3. CASE Unlock(w)
    <3>1. todo' = todo /\ todo[w] = <<>> /\ fdOf[w] \in Fds
      BY <2>3 DEF Unlock
    <3>2. fdMutex' = [fdMutex EXCEPT ![fdOf[w]] = NoThread] /\ fdOf' = [fdOf EXCEPT ![w] = NoFd]
      BY <2>3 DEF Unlock
    <3> QED BY <3>1, <3>2
  <2>4. ASSUME NEW d \in Fds, NEW es, NEW steps, Begins(w, d, es, steps) PROVE LockInv'
    <3>1. /\ fdMutex[d] = NoThread /\ fdOf[w] = NoFd
          /\ fdMutex' = [fdMutex EXCEPT ![d] = w] /\ fdOf' = [fdOf EXCEPT ![w] = d]
          /\ todo' = [todo EXCEPT ![w] = steps]
      BY <2>4 DEF Begins, Lock
    <3> QED BY <3>1
  <2>5. UNCHANGED lockVars => LockInv'
    OBVIOUS
  <2> QED BY <1>1, <2>1, <2>2, <2>3, <2>4, <2>5, FdForms DEF Registers, Deletes
<1>2. CASE ~\E w \in Workers : FdStep(w)
  BY <1>2, FdFrame
<1> QED BY <1>1, <1>2

LEMMA ContextStep == IInv /\ [Next]_vars => ContextInv'
<1> SUFFICES ASSUME IInv, [Next]_vars PROVE ContextInv'
  OBVIOUS
<1> USE NullAssumption DEF IInv, TypeInv, ContextInv, fdVars
<1>1. ASSUME NEW w \in Workers, FdStep(w) PROVE ContextInv'
  <2>1. ASSUME NEW d \in Fds, NEW e \in Event, Fires(w, d, e) PROVE ContextInv'
    BY <2>1 DEF Fires
  <2>2. CASE CountDown(w) \/ Unlock(w)
    BY <2>2 DEF CountDown, Unlock
  <2>3. ASSUME NEW d \in Fds, NEW e \in Event, NEW f \in Fibers, Registers(d, e, f) PROVE ContextInv'
    BY <2>3 DEF Registers, Register
  <2>4. ASSUME NEW d \in Fds, NEW e \in Event, Deletes(d, e) PROVE ContextInv'
    BY <2>4 DEF Deletes
  <2>5. UNCHANGED <<events, ctx>> => ContextInv'
    OBVIOUS
  <2> QED BY <1>1, <2>1, <2>2, <2>3, <2>4, <2>5, FdForms, TriggerForm DEF Begins
<1>2. CASE ~\E w \in Workers : FdStep(w)
  BY <1>2, FdFrame
<1> QED BY <1>1, <1>2

(* The events that are left after the next step.                           *)
LEMMA LeftAfter ==
    ASSUME TodoInv, NEW w \in Workers, todo[w] # <<>>, todo' = [todo EXCEPT ![w] = Tail(@)]
    PROVE  /\ Left(w) = Left(w)' \cup ({Head(todo[w])} \cap Event)
           /\ \A v \in Workers : v # w => Left(v)' = Left(v)
           /\ todo'[w] \in Cancelling => todo[w] \in Cancelling /\ Head(todo[w]) = "count"
<1> DEFINE s == todo[w]
           r == Tail(s)
<1>1. s \in Cancelling \cup Triggering /\ todo'[w] = r
  BY DEF TodoInv
<1>2. /\ s \in Seq(Step) /\ Len(r) = Len(s) - 1 /\ Head(s) = s[1] /\ Len(s) \in 0..4
      /\ \A i \in 1..Len(r) : r[i] = s[i + 1]
      /\ r \in Cancelling \cup Triggering /\ r \in Seq(Step)
      /\ s \in Triggering => r \in Triggering
  BY <1>1, TodoTail, TodoShapes
<1>3. Len(s) > 0 /\ DOMAIN s = 1..Len(s) /\ DOMAIN r = 1..Len(r)
  BY <1>1, <1>2, TodoShapes
<1> HIDE DEF r, s
<1>4. \A x : (\E i \in 1..Len(s) : s[i] = x) <=> s[1] = x \/ \E i \in 1..Len(r) : r[i] = x
  <2> TAKE x
  <2>1. ASSUME NEW i \in 1..Len(s), s[i] = x, i # 1 PROVE \E j \in 1..Len(r) : r[j] = x
    <3>1. i - 1 \in 1..Len(r) /\ r[i - 1] = s[i]
      BY <1>2, <1>3, <2>1
    <3> QED BY <2>1, <3>1
  <2>2. ASSUME NEW i \in 1..Len(r) PROVE i + 1 \in 1..Len(s) /\ s[i + 1] = r[i]
    BY <1>2, <1>3
  <2> QED BY <1>2, <1>3, <2>1, <2>2
<1>5. Left(w) = {e \in Event : \E i \in 1..Len(s) : s[i] = e}
  BY <1>3 DEF Left, s
<1>6. Left(w)' = {e \in Event : \E i \in 1..Len(r) : r[i] = e}
  BY <1>1, <1>3 DEF Left
<1>7. Left(w) = Left(w)' \cup ({Head(s)} \cap Event)
  BY <1>2, <1>4, <1>5, <1>6
<1>8. \A v \in Workers : v # w => todo'[v] = todo[v]
  BY DEF TodoInv
<1>9. r \in Cancelling => s \in Cancelling /\ s[1] = "count"
  <2> SUFFICES ASSUME r \in Cancelling PROVE s \in Cancelling /\ s[1] = "count"
    OBVIOUS
  <2>1. s \in Cancelling /\ Len(r) > 0
    BY <1>1, <1>2, TodoEnds, TodoShapes
  <2>2. Len(s) > 1
    BY <1>2, <2>1
  <2>3. \A e \in Event : s = <<e>> => Len(s) = 1
    OBVIOUS
  <2>4. PICK e \in Event : s = <<"count", e>> \/ s = <<e>>
    BY <2>1 DEF Cancelling
  <2>5. s # <<e>>
    <3>1. s = <<e>> => Len(s) = 1
      BY <2>3
    <3>2. Len(s) # 1
      BY <1>2, <2>2
    <3> QED BY <3>1, <3>2
  <2>6. s = <<"count", e>>
    BY <2>4, <2>5
  <2> QED BY <2>1, <2>6
<1>10. \A v \in Workers : v # w => Left(v)' = Left(v)
  BY <1>8 DEF Left
<1> QED BY <1>1, <1>2, <1>7, <1>9, <1>10 DEF s

LEMMA KernelStep == IInv /\ [Next]_vars => KernelInv'
<1> SUFFICES ASSUME IInv, [Next]_vars PROVE KernelInv'
  OBVIOUS
<1>1. /\ fdMutex \in [Fds -> Workers \cup {NoThread}] /\ fdOf \in [Workers -> Fds \cup {NoFd}]
      /\ events \in [Fds -> SUBSET Event] /\ interest \in [Fds -> SUBSET Event]
      /\ todo \in [Workers -> Cancelling \cup Triggering]
      /\ NoThread \notin Workers /\ NoFd \notin Fds
  BY WorkerAssumption, NullAssumption DEF IInv, TypeInv, TodoInv, Workers
<1>2. \A v \in Workers, d \in Fds : fdMutex[d] = v <=> fdOf[v] = d
  BY DEF IInv, LockInv
<1>3. /\ \A d \in Fds : fdMutex[d] = NoThread => interest[d] = events[d]
      /\ \A v \in Workers : HolderOK(v)
  BY DEF IInv, KernelInv
<1>4. ASSUME NEW v \in Workers, UNCHANGED <<todo[v], fdOf[v]>>,
             Held(v) => UNCHANGED <<interest[fdOf[v]], events[fdOf[v]]>>
      PROVE  HolderOK(v)'
  <2>1. Left(v)' = Left(v)
    BY <1>4 DEF Left
  <2> QED BY <1>3, <1>4, <2>1 DEF HolderOK, Held
<1>5. UNCHANGED <<events, interest, lockVars>> => KernelInv'
  BY <1>3, <1>4 DEF KernelInv, lockVars
<1>6. ASSUME NEW w \in Workers, FdStep(w) PROVE KernelInv'
  <2>1. CASE triggerEvent(w)
    <3>1. UNCHANGED <<fdMutex, fdOf, interest>> /\ Held(w)
      BY <2>1, TriggerForm DEF triggerEvent, Triggers, kernelVars, IInv
    <3>2. ASSUME NEW d \in Fds, NEW e \in Event, Fires(w, d, e) PROVE KernelInv'
      <4>1. /\ d = fdOf[w] /\ fdMutex[d] = w /\ events' = [events EXCEPT ![d] = @ \ {e}]
            /\ todo[w] # <<>> /\ e = Head(todo[w]) /\ todo' = [todo EXCEPT ![w] = Tail(@)]
        BY <1>2, <3>2 DEF Fires
      <4>2. /\ Left(w) = Left(w)' \cup ({Head(todo[w])} \cap Event)
            /\ todo'[w] \in Cancelling => todo[w] \in Cancelling /\ Head(todo[w]) = "count"
        BY <4>1, LeftAfter DEF IInv
      <4>3. Left(w) = Left(w)' \cup {e} /\ todo'[w] \notin Cancelling
        BY <4>1, <4>2 DEF Event
      <4>4. \A v \in Workers : v # w => HolderOK(v)'
        BY <1>1, <1>2, <1>4, <3>1, <4>1 DEF Held
      <4>5. events'[d] = events[d] \ {e} /\ interest[d] = events[d] \ Left(w)
        BY <1>1, <1>3, <3>1, <4>1 DEF HolderOK
      <4>6. interest[d] = events'[d] \ Left(w)'
        BY <4>3, <4>5
      <4>7. HolderOK(w)'
        BY <3>1, <4>1, <4>3, <4>6 DEF HolderOK
      <4>8. \A x \in Fds : fdMutex[x] = NoThread => interest[x] = events'[x]
        BY <1>1, <1>3, <4>1
      <4> QED BY <3>1, <4>4, <4>7, <4>8 DEF KernelInv
    <3>3. CASE UNCHANGED <<events, todo>>
      BY <1>5, <3>1, <3>3 DEF lockVars
    <3> QED BY <2>1, <3>2, <3>3, TriggerForm DEF IInv
  <2>2. CASE CountDown(w)
    <3>1. /\ UNCHANGED <<fdMutex, fdOf, interest, events>>
          /\ todo[w] # <<>> /\ Head(todo[w]) = "count" /\ todo' = [todo EXCEPT ![w] = Tail(@)]
      BY <2>2 DEF CountDown, kernelVars, NextTodo
    <3>2. /\ Left(w) = Left(w)' \cup ({Head(todo[w])} \cap Event)
          /\ todo'[w] \in Cancelling => todo[w] \in Cancelling
      BY <3>1, LeftAfter DEF IInv
    <3>3. Left(w) = Left(w)'
      BY <3>1, <3>2 DEF Event
    <3>4. HolderOK(w)'
      BY <1>3, <3>1, <3>2, <3>3 DEF HolderOK, Held
    <3>5. \A v \in Workers : v # w => HolderOK(v)'
      BY <1>1, <1>4, <3>1
    <3> QED BY <1>3, <3>1, <3>4, <3>5 DEF KernelInv
  <2>3. CASE Unlock(w)
    <3>1. todo' = todo /\ todo[w] = <<>> /\ fdOf[w] \in Fds /\ UNCHANGED <<interest, events>> /\ Held(w)
      BY <1>1, <2>3 DEF Unlock, kernelVars, fdVars, Held
    <3>2. fdMutex' = [fdMutex EXCEPT ![fdOf[w]] = NoThread] /\ fdOf' = [fdOf EXCEPT ![w] = NoFd]
      BY <2>3 DEF Unlock
    <3>3. Left(w) = {}
      BY <3>1 DEF Left
    <3>4. interest[fdOf[w]] = events[fdOf[w]]
      BY <1>3, <3>1, <3>3 DEF HolderOK
    <3>5. \A v \in Workers : v # w => HolderOK(v)'
      BY <1>1, <1>4, <3>1, <3>2
    <3>6. HolderOK(w)'
      BY <1>1, <3>2 DEF HolderOK, Held
    <3>7. \A d \in Fds : fdMutex'[d] = NoThread => interest'[d] = events'[d]
      BY <1>1, <1>3, <3>1, <3>2, <3>4
    <3> QED BY <3>5, <3>6, <3>7 DEF KernelInv
  <2>4. ASSUME NEW d \in Fds, fdMutex[d] = NoThread, UNCHANGED lockVars, NEW es,
               interest' = [interest EXCEPT ![d] = es], events' = [events EXCEPT ![d] = es]
        PROVE  KernelInv'
    <3>1. \A v \in Workers : fdOf[v] # d
      BY <1>1, <1>2, <2>4
    <3>2. \A x \in Fds : x # d => interest'[x] = interest[x] /\ events'[x] = events[x]
      BY <1>1, <2>4
    <3>3. interest'[d] = events'[d]
      BY <1>1, <2>4
    <3>4. \A v \in Workers : HolderOK(v)'
      BY <1>1, <1>4, <2>4, <3>1, <3>2 DEF Held, lockVars
    <3> QED BY <1>3, <2>4, <3>2, <3>3, <3>4 DEF KernelInv, lockVars
  <2>5. ASSUME NEW d \in Fds, NEW e \in Event, NEW f \in Fibers, Registers(d, e, f) PROVE KernelInv'
    BY <2>4, <2>5 DEF Registers, Register, epoll_ctl
  <2>6. ASSUME NEW d \in Fds, NEW e \in Event, Deletes(d, e) PROVE KernelInv'
    BY <2>4, <2>6 DEF Deletes, epoll_ctl
  <2>7. ASSUME NEW d \in Fds, NEW es \in SUBSET Condition, NEW steps \in Cancelling \cup Triggering,
               Begins(w, d, es, steps)
        PROVE KernelInv'
    <3>1. /\ fdMutex[d] = NoThread /\ ~Held(w)
          /\ fdMutex' = [fdMutex EXCEPT ![d] = w] /\ fdOf' = [fdOf EXCEPT ![w] = d]
          /\ todo' = [todo EXCEPT ![w] = steps] /\ events' = events
          /\ interest' = [interest EXCEPT ![d] = events[d] \ es]
      BY <2>7 DEF Begins, Lock, epoll_ctl, fdVars
    <3>2. todo'[w] = steps /\ fdOf'[w] = d /\ interest'[d] = events[d] \ es
      BY <1>1, <3>1
    <3>3. Left(w)' = es \cap Event
      BY <2>7, <3>2 DEF Begins, Left
    <3>4. steps \in Cancelling => es \subseteq events[d]
      BY <2>7, TodoEnds DEF Begins
    <3>5. HolderOK(w)'
      <4>1. events[d] \subseteq Event
        BY <1>1
      <4>2. events[d] \ es = events[d] \ (es \cap Event)
        BY <4>1
      <4> QED BY <3>1, <3>2, <3>3, <3>4, <4>2 DEF HolderOK
    <3>6. \A v \in Workers : fdOf[v] # d
      BY <1>1, <1>2, <3>1
    <3>7. \A v \in Workers : v # w => HolderOK(v)'
      BY <1>1, <1>4, <3>1, <3>6 DEF Held
    <3>8. \A x \in Fds : fdMutex'[x] = NoThread => interest'[x] = events'[x]
      BY <1>1, <1>3, <3>1
    <3> QED BY <3>5, <3>7, <3>8 DEF KernelInv
  <2> QED BY <1>5, <1>6, <2>1, <2>2, <2>3, <2>5, <2>6, <2>7, FdForms DEF IInv, kernelVars, fdVars
<1>7. CASE ~\E w \in Workers : FdStep(w)
  <2>1. UNCHANGED <<events, interest, lockVars>>
    BY <1>7, FdFrame DEF fdVars, IInv
  <2> QED BY <1>5, <2>1
<1> QED BY <1>6, <1>7

(* epoll_ctl() reports at once what is there for the events it asks for.   *)
LEMMA ControlReports ==
    ASSUME TypeInv, ReportInv, NEW d \in Fds, NEW want \in SUBSET Event, epoll_ctl(d, want),
           \A w \in Workers, x \in Fds : x # d => snapEvents'[w][x] = snapEvents[w][x]
    PROVE  ReportInv'
<1>1. Reported(d)'
  BY DEF TypeInv, epoll_ctl, Reported, Reports
<1>2. ASSUME NEW x \in Fds, x # d PROVE Reported(x)'
  <2>1. interest'[x] = interest[x] /\ ready' = ready /\ (x \in edge' <=> x \in edge)
    BY <1>2 DEF TypeInv, epoll_ctl
  <2>2. Reported(x)
    BY DEF ReportInv
  <2> QED BY <1>2, <2>1, <2>2 DEF Reported, Reports
<1> QED BY <1>1, <1>2 DEF ReportInv

LEMMA ReportStep == IInv /\ [Next]_vars => ReportInv'
<1> SUFFICES ASSUME IInv, [Next]_vars PROVE ReportInv'
  OBVIOUS
<1> USE DEF IInv, TypeInv
<1>1. UNCHANGED <<kernelVars, snapEvents>> => ReportInv'
  BY DEF ReportInv, Reported, Reports, kernelVars
<1>2. CASE World
  <2> PICK d \in Fds, c \in Condition : Arrive(d, c)
    BY <1>2 DEF World
  <2>1. /\ snapEvents' = snapEvents /\ interest' = interest
        /\ ready' = [ready EXCEPT ![d] = @ \cup {c}]
        /\ edge' = IF interest[d] # {} /\ c \in interest[d] \cup {"HUP"} THEN edge \cup {d} ELSE edge
    BY DEF Arrive, snapVars
  <2>2. Reported(d)'
    BY <2>1 DEF ReportInv, Reported, Reports
  <2>3. \A x \in Fds : x # d => Reported(x)'
    BY <2>1 DEF ReportInv, Reported, Reports
  <2> QED BY <2>2, <2>3 DEF ReportInv
<1>3. CASE StopSet \/ StopTickle
  BY <1>1, <1>3 DEF StopSet, StopTickle, snapVars
<1>4. ASSUME NEW w \in Workers, MoveStep(w) PROVE ReportInv'
  BY <1>1, <1>4, MoveFrame DEF snapVars
<1>5. ASSUME NEW w \in Workers, RestStep(w) PROVE ReportInv'
  <2>1. CASE epoll_wait(w)
    <3>1. /\ snapEvents' = [snapEvents EXCEPT ![w] =
                              [d \in Fds |-> IF d \in edge THEN Reports(d, interest[d]) ELSE {}]]
          /\ UNCHANGED <<interest, ready>> /\ pc[w] = "wait"
      BY <2>1 DEF epoll_wait
    <3> SUFFICES ASSUME NEW d \in Fds, NEW c \in Reports(d, interest[d])
                 PROVE  \E v \in Workers : c \in snapEvents'[v][d]
      BY <3>1 DEF ReportInv, Reported, Reports
    <3>2. CASE d \in edge
      BY <3>1, <3>2
    <3>3. CASE d \notin edge
      <4> PICK v \in Workers : c \in snapEvents[v][d]
        BY <3>3 DEF ReportInv, Reported
      <4>1. v # w
        BY <3>1 DEF WorkerInv, WorkerOK
      <4> QED BY <3>1, <4>1
    <3> QED BY <3>2, <3>3
  <2>2. ASSUME NEW d \in Fds, NEW e \in Event, Consume(w, d, e) PROVE ReportInv'
    <3>1. ready' = [ready EXCEPT ![d] = @ \ {e}] /\ UNCHANGED <<interest, edge, snapEvents>>
      BY <2>2 DEF Consume, snapVars
    <3>2. \A x \in Fds : Reports(x, interest[x])' \subseteq Reports(x, interest[x])
      BY <3>1 DEF Reports
    <3> QED BY <3>1, <3>2 DEF ReportInv, Reported
  <2>3. CASE tickle(w) \/ Pop(w) \/ resume(w) \/ SwapOut(w) \/ StopQueue(w)
    BY <1>1, <2>3 DEF tickle, Pop, resume, SwapOut, StopQueue, snapVars
  <2>4. CASE listExpiredCb(w) \/ ScheduleCb(w) \/ DrainPipe(w) \/ \E f \in Fibers : schedule(w, f) \/ addTimer(w, f)
    BY <1>1, <2>4 DEF listExpiredCb, ScheduleCb, DrainPipe, schedule, addTimer, snapVars
  <2> QED BY <1>5, <2>1, <2>2, <2>3, <2>4 DEF RestStep
<1>6. ASSUME NEW w \in Workers, FdStep(w) PROVE ReportInv'
  <2>1. CASE triggerEvent(w) \/ CountDown(w) \/ Unlock(w)
    BY <1>1, <2>1 DEF triggerEvent, CountDown, Unlock, snapVars
  <2>2. ASSUME NEW d \in Fds, cancelAll(w, d) PROVE ReportInv'
    BY <2>2, ControlReports DEF cancelAll, snapVars
  <2>3. ASSUME NEW d \in Fds, NEW e \in Event, cancelEvent(w, d, e) \/ delEvent(w, d, e) PROVE ReportInv'
    <3>1. epoll_ctl(d, events[d] \ {e}) /\ snapEvents' = snapEvents
      BY <2>3 DEF cancelEvent, delEvent, snapVars
    <3> QED BY <3>1, ControlReports
  <2>4. ASSUME NEW d \in Fds, NEW e \in Event, addEvent(w, d, e) \/ \E f \in Fibers : addEventCb(w, d, e, f)
        PROVE  ReportInv'
    <3>1. epoll_ctl(d, events[d] \cup {e}) /\ snapEvents' = snapEvents
      BY <2>4 DEF addEvent, addEventCb, Register, snapVars
    <3> QED BY <3>1, ControlReports
  <2>5. ASSUME NEW d \in Fds, HandleEvent(w, d) PROVE ReportInv'
    <3>1. snapEvents' = [snapEvents EXCEPT ![w][d] = {}] /\ fdMutex[d] = NoThread
      BY <2>5 DEF HandleEvent
    <3>2. \A v \in Workers, x \in Fds : v # w \/ x # d => snapEvents'[v][x] = snapEvents[v][x]
      BY <3>1
    <3>3. CASE RealEvents(w, d) \cap events[d] # {}
      <4>1. epoll_ctl(d, LeftEvents(w, d)) /\ LeftEvents(w, d) \in SUBSET Event
        BY <2>5, <3>3 DEF HandleEvent, LeftEvents
      <4> QED BY <3>2, <4>1, ControlReports
    <3>4. CASE RealEvents(w, d) \cap events[d] = {}
      <4>1. UNCHANGED kernelVars
        BY <2>5, <3>4 DEF HandleEvent
      <4>2. interest[d] = events[d]
        BY <3>1 DEF KernelInv
      <4>3. ASSUME NEW c \in Reports(d, interest[d]) PROVE c \notin snapEvents[w][d]
        BY <3>4, <4>2, <4>3 DEF Reports, RealEvents
      <4>4. Reported(d)'
        BY <3>2, <4>1, <4>3 DEF ReportInv, Reported, Reports, kernelVars
      <4>5. \A x \in Fds : x # d => Reported(x)'
        BY <3>2, <4>1 DEF ReportInv, Reported, Reports, kernelVars
      <4> QED BY <4>4, <4>5 DEF ReportInv
    <3> QED BY <3>3, <3>4
  <2> QED BY <1>6, <2>1, <2>2, <2>3, <2>4, <2>5 DEF FdStep
<1>7. CASE UNCHANGED vars
  BY <1>1, <1>7 DEF vars, snapVars
<1> QED BY <1>2, <1>3, <1>4, <1>5, <1>6, <1>7, StepCases

LEMMA WorkerStep == IInv /\ [Next]_vars => WorkerInv'
<1> SUFFICES ASSUME IInv, [Next]_vars PROVE WorkerInv'
  OBVIOUS
<1> USE DEF IInv, TypeInv, Goto, timerVars, snapVars, workerVars
<1>1. ASSUME NEW v \in Workers, UNCHANGED <<pc[v], cur[v], cbs[v], snapEvents[v]>> PROVE WorkerOK(v)'
  BY <1>1 DEF WorkerInv, WorkerOK
<1>2. UNCHANGED <<pc, cur, cbs, snapEvents>> => WorkerInv'
  BY <1>1 DEF WorkerInv
<1>3. CASE World \/ StopTickle \/ UNCHANGED vars
  BY <1>2, <1>3 DEF World, Arrive, StopTickle, vars
<1>4. CASE StopSet
  <2>1. pc[Root] = "main" /\ pc' = [pc EXCEPT ![Root] = "stop"] /\ UNCHANGED <<cur, cbs, snapEvents>>
    BY <1>4 DEF StopSet
  <2> QED BY <2>1 DEF WorkerInv, WorkerOK
<1>5. ASSUME NEW w \in Workers, MoveStep(w) PROVE WorkerInv'
  <2>1. UNCHANGED <<cur, cbs, snapEvents>> /\ pc' = [pc EXCEPT ![w] = pc'[w]]
    BY <1>5, MoveFrame
  <2>2. WorkerOK(w)'
    BY <1>5, <2>1, MoveFrame DEF WorkerInv, WorkerOK
  <2>3. \A v \in Workers : v # w => WorkerOK(v)'
    BY <1>1, <2>1
  <2> QED BY <2>2, <2>3 DEF WorkerInv
<1>6. ASSUME NEW w \in Workers, RestStep(w) PROVE WorkerInv'
  <2>1. CASE tickle(w) \/ DrainPipe(w) \/ (\E f \in Fibers : schedule(w, f) \/ addTimer(w, f))
             \/ \E d \in Fds, e \in Event : Consume(w, d, e)
    BY <1>2, <2>1 DEF tickle, DrainPipe, schedule, addTimer, Consume
  <2>2. CASE Pop(w)
    <3>1. Head(m_tasks) \in Fibers
      BY <2>2 DEF Pop
    <3>2. WorkerOK(w)'
      BY <2>2, <3>1 DEF Pop, WorkerInv, WorkerOK
    <3>3. \A v \in Workers : v # w => WorkerOK(v)'
      BY <1>1, <2>2 DEF Pop
    <3> QED BY <3>2, <3>3 DEF WorkerInv
  <2>3. CASE resume(w) \/ SwapOut(w)
    <3>1. WorkerOK(w)'
      BY <2>3 DEF resume, SwapOut, WorkerInv, WorkerOK
    <3>2. \A v \in Workers : v # w => WorkerOK(v)'
      BY <1>1, <2>3 DEF resume, SwapOut
    <3> QED BY <3>1, <3>2 DEF WorkerInv
  <2>4. CASE StopQueue(w)
    <3>1. WorkerOK(w)'
      BY <2>4 DEF StopQueue, WorkerInv, WorkerOK
    <3>2. \A v \in Workers : v # w => WorkerOK(v)'
      BY <1>1, <2>4 DEF StopQueue
    <3> QED BY <3>1, <3>2 DEF WorkerInv
  <2>5. CASE epoll_wait(w)
    <3>1. WorkerOK(w)'
      BY <2>5 DEF epoll_wait, WorkerInv, WorkerOK
    <3>2. \A v \in Workers : v # w => WorkerOK(v)'
      BY <1>1, <2>5 DEF epoll_wait
    <3> QED BY <3>1, <3>2 DEF WorkerInv
  <2>6. CASE listExpiredCb(w)
    <3>1. WorkerOK(w)'
      BY <2>6 DEF listExpiredCb, WorkerInv, WorkerOK
    <3>2. \A v \in Workers : v # w => WorkerOK(v)'
      BY <1>1, <2>6 DEF listExpiredCb
    <3> QED BY <3>1, <3>2 DEF WorkerInv
  <2>7. CASE ScheduleCb(w)
    <3>1. WorkerOK(w)'
      BY <2>7 DEF ScheduleCb, WorkerInv, WorkerOK
    <3>2. \A v \in Workers : v # w => WorkerOK(v)'
      BY <1>1, <2>7 DEF ScheduleCb
    <3> QED BY <3>1, <3>2 DEF WorkerInv
  <2> QED BY <1>6, <2>1, <2>2, <2>3, <2>4, <2>5, <2>6, <2>7 DEF RestStep
<1>7. ASSUME NEW w \in Workers, FdStep(w) PROVE WorkerInv'
  <2>1. CASE triggerEvent(w) \/ CountDown(w) \/ Unlock(w)
    BY <1>2, <2>1 DEF triggerEvent, CountDown, Unlock
  <2>2. CASE \/ \E d \in Fds : cancelAll(w, d)
             \/ \E d \in Fds, e \in Event : cancelEvent(w, d, e) \/ delEvent(w, d, e)
             \/ \E d \in Fds, e \in Event, f \in Fibers : addEventCb(w, d, e, f)
    BY <1>2, <2>2 DEF cancelAll, cancelEvent, delEvent, addEventCb
  <2>3. ASSUME NEW d \in Fds, NEW e \in Event, addEvent(w, d, e) PROVE WorkerInv'
    <3>1. WorkerOK(w)'
      BY <2>3 DEF addEvent, WorkerInv, WorkerOK
    <3>2. \A v \in Workers : v # w => WorkerOK(v)'
      BY <1>1, <2>3 DEF addEvent
    <3> QED BY <3>1, <3>2 DEF WorkerInv
  <2>4. ASSUME NEW d \in Fds, HandleEvent(w, d) PROVE WorkerInv'
    <3>1. WorkerOK(w)'
      BY <2>4 DEF HandleEvent, WorkerInv, WorkerOK
    <3>2. \A v \in Workers : v # w => WorkerOK(v)'
      BY <1>1, <2>4 DEF HandleEvent
    <3> QED BY <3>1, <3>2 DEF WorkerInv
  <2> QED BY <1>7, <2>1, <2>2, <2>3, <2>4 DEF FdStep
<1> QED BY <1>3, <1>4, <1>5, <1>6, <1>7, StepCases

-----------------------------------------------------------------------------
(***************************************************************************)
(* The counter of pending events.                                          *)
(***************************************************************************)
IsCountedOff(s) == Len(s) = 1 /\ Head(s) \in Event
IsTriggered(s)  == Len(s) \in {1, 3} /\ Head(s) = "count"

(* Each step of a holder either changes the registrations and marks it, or *)
(* changes the counter and takes the mark away, or the other way round.    *)
LEMMA TodoMarks ==
    ASSUME NEW s \in Cancelling \cup Triggering
    PROVE  /\ Len(s) \in {0, 2, 4} => ~IsCountedOff(s) /\ ~IsTriggered(s)
           /\ s # <<>> /\ Head(s) \in Event =>
                /\ ~IsTriggered(s) /\ ~IsCountedOff(Tail(s))
                /\ IsCountedOff(s) <=> ~IsTriggered(Tail(s))
           /\ s # <<>> /\ Head(s) = "count" =>
                /\ ~IsCountedOff(s) /\ ~IsTriggered(Tail(s))
                /\ IsTriggered(s) <=> ~IsCountedOff(Tail(s))
<1>1. "count" \notin Event /\ "WRITE" \in Event /\ "READ" \in Event
  BY DEF Event
<1>2. CASE Len(s) \in {0, 2, 4} /\ s = <<>>
  BY <1>2 DEF IsCountedOff, IsTriggered
<1>3. CASE \E e \in Event : s = <<"count", e>>
  <2> PICK e \in Event : s = <<"count", e>>
    BY <1>3
  <2>1. Len(s) = 2 /\ Head(s) = "count" /\ Tail(s) = <<e>>
    OBVIOUS
  <2>2. Len(<<e>>) = 1 /\ Head(<<e>>) = e
    OBVIOUS
  <2> QED BY <1>1, <2>1, <2>2 DEF IsCountedOff, IsTriggered
<1>4. CASE \E e \in Event : s = <<e>>
  <2> PICK e \in Event : s = <<e>>
    BY <1>4
  <2>1. Len(s) = 1 /\ Head(s) = e /\ Tail(s) = <<>> /\ Len(<<>>) = 0
    OBVIOUS
  <2> QED BY <1>1, <2>1 DEF IsCountedOff, IsTriggered
<1>5. CASE s = <<>>
  BY <1>5 DEF IsCountedOff, IsTriggered
<1>6. CASE s = <<"count">>
  <2>1. Len(s) = 1 /\ Head(s) = "count" /\ Len(Tail(s)) = 0
    BY <1>6
  <2> QED BY <1>1, <2>1 DEF IsCountedOff, IsTriggered
<1>7. CASE \E e \in Event : s = <<e, "count">>
  <2> PICK e \in Event : s = <<e, "count">>
    BY <1>7
  <2>1. Len(s) = 2 /\ Head(s) = e /\ Tail(s) = <<"count">>
    OBVIOUS
  <2>2. Len(<<"count">>) = 1 /\ Head(<<"count">>) = "count"
    OBVIOUS
  <2> QED BY <1>1, <2>1, <2>2 DEF IsCountedOff, IsTriggered
<1>8. CASE s = <<"count", "WRITE", "count">>
  <2>1. Len(s) = 3 /\ Head(s) = "count"
    BY <1>8
  <2>2. Len(Tail(s)) = 2
    BY <1>8
  <2>3. IsTriggered(s)
    BY <2>1 DEF IsTriggered
  <2>4. ~IsCountedOff(Tail(s)) /\ ~IsTriggered(Tail(s))
    BY <2>2 DEF IsCountedOff, IsTriggered
  <2>5. ~IsCountedOff(s) /\ Len(s) \notin {0, 2, 4}
    BY <2>1 DEF IsCountedOff
  <2> QED BY <1>1, <2>1, <2>3, <2>4, <2>5
<1>9. CASE s = <<"READ", "count", "WRITE", "count">>
  <2>1. Len(s) = 4 /\ Head(s) = "READ"
    BY <1>9
  <2>2. Tail(s) = <<"count", "WRITE", "count">>
    BY <1>9
  <2>3. ASSUME NEW r, r = <<"count", "WRITE", "count">> PROVE Len(r) = 3 /\ Head(r) = "count"
    BY <2>3
  <2>4. Len(Tail(s)) = 3 /\ Head(Tail(s)) = "count"
    BY <2>2, <2>3
  <2> QED BY <1>1, <2>1, <2>4 DEF IsCountedOff, IsTriggered
<1> QED BY <1>3, <1>4, <1>5, <1>6, <1>7, <1>8, <1>9, TodoCases

LEMMA OneMore ==
    ASSUME NEW S, IsFiniteSet(S), NEW x, x \notin S
    PROVE  IsFiniteSet(S \cup {x}) /\ Cardinality(S \cup {x}) = Cardinality(S) + 1
BY FS_AddElement

LEMMA OneLess ==
    ASSUME NEW S, IsFiniteSet(S), NEW x \in S
    PROVE  IsFiniteSet(S \ {x}) /\ Cardinality(S \ {x}) = Cardinality(S) - 1
BY FS_RemoveElement

LEMMA WorkersFinite ==
    /\ IsFiniteSet(Workers)
    /\ \A S \in SUBSET Workers : IsFiniteSet(S) /\ Cardinality(S) \in Nat
<1>1. IsFiniteSet(Spawned \cup {Root})
  BY WorkerAssumption, FS_AddElement
<1> QED BY <1>1, FS_Subset, FS_CardinalityType DEF Workers

(* The marks after a step of worker w.                                     *)
LEMMA MarksAfter ==
    ASSUME TodoInv, NEW w \in Workers, NEW s, todo' = [todo EXCEPT ![w] = s]
    PROVE  /\ CountedOff' = (CountedOff \ {w}) \cup (IF IsCountedOff(s) THEN {w} ELSE {})
           /\ Triggered'  = (Triggered \ {w}) \cup (IF IsTriggered(s) THEN {w} ELSE {})
           /\ w \in CountedOff <=> IsCountedOff(todo[w])
           /\ w \in Triggered <=> IsTriggered(todo[w])
<1>1. todo'[w] = s /\ \A v \in Workers : v # w => todo'[v] = todo[v]
  BY DEF TodoInv
<1>2. CountedOff = {v \in Workers : IsCountedOff(todo[v])} /\ Triggered = {v \in Workers : IsTriggered(todo[v])}
  BY DEF CountedOff, Triggered, IsCountedOff, IsTriggered
<1>3. CountedOff' = {v \in Workers : IsCountedOff(todo'[v])} /\ Triggered' = {v \in Workers : IsTriggered(todo'[v])}
  BY DEF CountedOff, Triggered, IsCountedOff, IsTriggered
<1> QED BY <1>1, <1>2, <1>3

(* The registrations after events changes at one descriptor.               *)
LEMMA RegisteredAfter ==
    ASSUME TypeInv, NEW d \in Fds, NEW e \in Event
    PROVE  /\ e \in events[d] /\ events' = [events EXCEPT ![d] = @ \ {e}] =>
                <<d, e>> \in Registered /\ Registered' = Registered \ {<<d, e>>}
           /\ e \notin events[d] /\ events' = [events EXCEPT ![d] = @ \cup {e}] =>
                <<d, e>> \notin Registered /\ Registered' = Registered \cup {<<d, e>>}
<1>1. ASSUME NEW x \in Fds, NEW y \in Event
      PROVE  <<x, y>> \in Registered <=> y \in events[x]
  BY DEF Registered
<1>2. ASSUME NEW x \in Fds, NEW y \in Event
      PROVE  <<x, y>> \in Registered' <=> y \in events'[x]
  BY DEF Registered
<1>3. Registered \subseteq Fds \X Event /\ Registered' \subseteq Fds \X Event
  BY DEF Registered
<1>4. events \in [Fds -> SUBSET Event]
  BY DEF TypeInv
<1>5. ASSUME e \in events[d], events' = [events EXCEPT ![d] = @ \ {e}]
      PROVE  <<d, e>> \in Registered /\ Registered' = Registered \ {<<d, e>>}
  <2>1. ASSUME NEW x \in Fds, NEW y \in Event
        PROVE  <<x, y>> \in Registered' <=> <<x, y>> \in Registered \ {<<d, e>>}
    BY <1>1, <1>2, <1>4, <1>5
  <2> QED BY <1>1, <1>3, <1>5, <2>1
<1>6. ASSUME e \notin events[d], events' = [events EXCEPT ![d] = @ \cup {e}]
      PROVE  <<d, e>> \notin Registered /\ Registered' = Registered \cup {<<d, e>>}
  <2>1. ASSUME NEW x \in Fds, NEW y \in Event
        PROVE  <<x, y>> \in Registered' <=> <<x, y>> \in Registered \cup {<<d, e>>}
    BY <1>1, <1>2, <1>4, <1>6
  <2> QED BY <1>1, <1>3, <1>6, <2>1
<1> QED BY <1>5, <1>6

LEMMA CountStep == IInv /\ [Next]_vars => CountInv'
<1> SUFFICES ASSUME IInv, [Next]_vars PROVE CountInv'
  OBVIOUS
<1>1. /\ TypeInv /\ TodoInv /\ WorkerInv
      /\ IsFiniteSet(Registered) /\ m_pendingEventCount \in Int
      /\ m_pendingEventCount + Cardinality(CountedOff) = Cardinality(Registered) + Cardinality(Triggered)
  BY DEF IInv, CountInv, TypeInv
<1>2. /\ IsFiniteSet(CountedOff) /\ IsFiniteSet(Triggered)
      /\ Cardinality(CountedOff) \in Nat /\ Cardinality(Triggered) \in Nat /\ Cardinality(Registered) \in Nat
  BY <1>1, WorkersFinite, FS_CardinalityType DEF CountedOff, Triggered
<1>3. UNCHANGED <<events, m_pendingEventCount, todo>> => CountInv'
  BY <1>1 DEF CountInv, Registered, CountedOff, Triggered
<1>4. ASSUME NEW w \in Workers, FdStep(w) PROVE CountInv'
  <2>1. CASE triggerEvent(w)
    <3>1. m_pendingEventCount' = m_pendingEventCount
      BY <1>1, <2>1, TriggerForm
    <3>2. ASSUME NEW d \in Fds, NEW e \in Event, Fires(w, d, e) PROVE CountInv'
      <4>1. <<d, e>> \in Registered /\ Registered' = Registered \ {<<d, e>>}
        BY <1>1, <3>2, RegisteredAfter DEF Fires
      <4>2. IsFiniteSet(Registered') /\ Cardinality(Registered') = Cardinality(Registered) - 1
        BY <1>1, <4>1, OneLess
      <4>3. /\ ~IsTriggered(todo[w]) /\ ~IsCountedOff(Tail(todo[w]))
            /\ IsCountedOff(todo[w]) <=> ~IsTriggered(Tail(todo[w]))
        BY <1>1, <3>2, TodoMarks DEF Fires, TodoInv
      <4>4. /\ CountedOff' = (CountedOff \ {w}) \cup (IF IsCountedOff(Tail(todo[w])) THEN {w} ELSE {})
            /\ Triggered'  = (Triggered \ {w}) \cup (IF IsTriggered(Tail(todo[w])) THEN {w} ELSE {})
            /\ w \in CountedOff <=> IsCountedOff(todo[w])
            /\ w \in Triggered <=> IsTriggered(todo[w])
        BY <1>1, <3>2, MarksAfter DEF Fires
      <4>5. CASE IsCountedOff(todo[w])
        <5>1. CountedOff' = CountedOff \ {w} /\ w \in CountedOff /\ Triggered' = Triggered
          BY <4>3, <4>4, <4>5
        <5>2. Cardinality(CountedOff') = Cardinality(CountedOff) - 1
          BY <1>2, <5>1, OneLess
        <5> QED BY <1>1, <1>2, <3>1, <4>2, <5>1, <5>2 DEF CountInv
      <4>6. CASE ~IsCountedOff(todo[w])
        <5>1. CountedOff' = CountedOff /\ Triggered' = Triggered \cup {w} /\ w \notin Triggered
          BY <4>3, <4>4, <4>6
        <5>2. Cardinality(Triggered') = Cardinality(Triggered) + 1
          BY <1>2, <5>1, OneMore
        <5> QED BY <1>1, <1>2, <3>1, <4>2, <5>1, <5>2 DEF CountInv
      <4> QED BY <4>5, <4>6
    <3> QED BY <1>1, <1>3, <2>1, <3>1, <3>2, TriggerForm
  <2>2. CASE CountDown(w)
    <3>1. /\ todo[w] # <<>> /\ Head(todo[w]) = "count" /\ todo' = [todo EXCEPT ![w] = Tail(todo[w])]
          /\ m_pendingEventCount' = m_pendingEventCount - 1 /\ events' = events
      BY <2>2 DEF CountDown, NextTodo
    <3>2. Registered' = Registered
      BY <3>1 DEF Registered
    <3>3. /\ ~IsCountedOff(todo[w]) /\ ~IsTriggered(Tail(todo[w]))
          /\ IsTriggered(todo[w]) <=> ~IsCountedOff(Tail(todo[w]))
      BY <1>1, <3>1, TodoMarks DEF TodoInv
    <3>4. /\ CountedOff' = (CountedOff \ {w}) \cup (IF IsCountedOff(Tail(todo[w])) THEN {w} ELSE {})
          /\ Triggered'  = (Triggered \ {w}) \cup (IF IsTriggered(Tail(todo[w])) THEN {w} ELSE {})
          /\ w \in CountedOff <=> IsCountedOff(todo[w])
          /\ w \in Triggered <=> IsTriggered(todo[w])
      BY <1>1, <3>1, MarksAfter
    <3>5. CASE IsTriggered(todo[w])
      <4>1. Triggered' = Triggered \ {w} /\ w \in Triggered /\ CountedOff' = CountedOff
        BY <3>3, <3>4, <3>5
      <4>2. Cardinality(Triggered') = Cardinality(Triggered) - 1
        BY <1>2, <4>1, OneLess
      <4> QED BY <1>1, <1>2, <3>1, <3>2, <4>1, <4>2 DEF CountInv
    <3>6. CASE ~IsTriggered(todo[w])
      <4>1. Triggered' = Triggered /\ CountedOff' = CountedOff \cup {w} /\ w \notin CountedOff
        BY <3>3, <3>4, <3>6
      <4>2. Cardinality(CountedOff') = Cardinality(CountedOff) + 1
        BY <1>2, <4>1, OneMore
      <4> QED BY <1>1, <1>2, <3>1, <3>2, <4>1, <4>2 DEF CountInv
    <3> QED BY <3>5, <3>6
  <2>3. CASE Unlock(w)
    BY <1>3, <2>3 DEF Unlock, fdVars
  <2>4. ASSUME NEW d \in Fds, NEW e \in Event, NEW f \in Fibers, Registers(d, e, f) PROVE CountInv'
    <3>1. /\ m_pendingEventCount' = m_pendingEventCount + 1 /\ todo' = todo
          /\ e \notin events[d] /\ events' = [events EXCEPT ![d] = @ \cup {e}]
      BY <2>4 DEF Registers, Register, lockVars
    <3>2. <<d, e>> \notin Registered /\ Registered' = Registered \cup {<<d, e>>}
      BY <1>1, <3>1, RegisteredAfter
    <3>3. IsFiniteSet(Registered') /\ Cardinality(Registered') = Cardinality(Registered) + 1
      BY <1>1, <3>2, OneMore
    <3>4. CountedOff' = CountedOff /\ Triggered' = Triggered
      BY <3>1 DEF CountedOff, Triggered
    <3> QED BY <1>1, <1>2, <3>1, <3>3, <3>4 DEF CountInv
  <2>5. ASSUME NEW d \in Fds, NEW e \in Event, Deletes(d, e) PROVE CountInv'
    <3>1. /\ m_pendingEventCount' = m_pendingEventCount - 1 /\ todo' = todo
          /\ e \in events[d] /\ events' = [events EXCEPT ![d] = @ \ {e}]
      BY <2>5 DEF Deletes, lockVars
    <3>2. <<d, e>> \in Registered /\ Registered' = Registered \ {<<d, e>>}
      BY <1>1, <3>1, RegisteredAfter
    <3>3. IsFiniteSet(Registered') /\ Cardinality(Registered') = Cardinality(Registered) - 1
      BY <1>1, <3>2, OneLess
    <3>4. CountedOff' = CountedOff /\ Triggered' = Triggered
      BY <3>1 DEF CountedOff, Triggered
    <3> QED BY <1>1, <1>2, <3>1, <3>3, <3>4 DEF CountInv
  <2>6. ASSUME NEW d \in Fds, NEW es \in SUBSET Condition, NEW steps \in Cancelling \cup Triggering,
               Begins(w, d, es, steps)
        PROVE CountInv'
    <3>1. /\ UNCHANGED <<events, m_pendingEventCount>> /\ todo[w] = <<>>
          /\ todo' = [todo EXCEPT ![w] = steps]
      BY <2>6 DEF Begins, Lock, fdVars, IInv, LockInv
    <3>2. Len(steps) \in {0, 2, 4}
      <4>1. \A e \in Event : Len(<<"count", e>>) = 2
        OBVIOUS
      <4> QED BY <2>6, <4>1 DEF Begins
    <3>3. ~IsCountedOff(steps) /\ ~IsTriggered(steps) /\ ~IsCountedOff(todo[w]) /\ ~IsTriggered(todo[w])
      <4>1. ~IsCountedOff(steps) /\ ~IsTriggered(steps)
        BY <3>2, TodoMarks
      <4>2. Len(<<>>) = 0
        OBVIOUS
      <4> QED BY <3>1, <4>1, <4>2 DEF IsCountedOff, IsTriggered
    <3>4. CountedOff' = CountedOff /\ Triggered' = Triggered
      <4>1. /\ CountedOff' = (CountedOff \ {w}) \cup (IF IsCountedOff(steps) THEN {w} ELSE {})
            /\ Triggered'  = (Triggered \ {w}) \cup (IF IsTriggered(steps) THEN {w} ELSE {})
            /\ w \in CountedOff <=> IsCountedOff(todo[w])
            /\ w \in Triggered <=> IsTriggered(todo[w])
        BY <1>1, <3>1, MarksAfter
      <4> QED BY <3>3, <4>1
    <3>5. Registered' = Registered
      BY <3>1 DEF Registered
    <3> QED BY <1>1, <3>1, <3>4, <3>5 DEF CountInv
  <2> QED BY <1>1, <1>3, <1>4, <2>1, <2>2, <2>3, <2>4, <2>5, <2>6, FdForms DEF fdVars, lockVars
<1>5. CASE ~\E w \in Workers : FdStep(w)
  BY <1>1, <1>3, <1>5, FdFrame DEF fdVars, lockVars
<1> QED BY <1>4, <1>5

-----------------------------------------------------------------------------
(***************************************************************************)
(* The places of fibers and callbacks.                                     *)
(***************************************************************************)

(* The kinds of places are distinct, and each has its own spots.           *)
LEMMA Kinds ==
    /\ \A e \in Event : e \in Kind /\ e \notin {"queue", "timer", "collected", "popped"}
    /\ "queue" \in Kind /\ "timer" \in Kind /\ "collected" \in Kind /\ "popped" \in Kind
    /\ NoFd \in Spot /\ Fds \subseteq Spot /\ Workers \subseteq Spot
BY DEF Kind, Spot, Event

(* What At() says of each kind of place.                                   *)
LEMMA AtCases ==
    ASSUME NEW f
    PROVE  /\ At(f, "queue", NoFd) <=> Queued(f)
           /\ \A d \in Fds, e \in Event : At(f, e, d) <=> ctx[d][e] = f
           /\ At(f, "timer", NoFd) <=> f \in timers
           /\ \A w \in Workers : At(f, "collected", w) <=> f \in cbs[w]
           /\ \A w \in Workers : At(f, "popped", w) <=> Popped(w, f)
<1>1. \A e \in Event : e \notin {"queue", "timer", "collected", "popped"}
  BY Kinds
<1> QED BY <1>1 DEF At

(* The same of one fiber's places now and after a step.                    *)
SamePlaces(f) ==
    /\ Queued(f)' <=> Queued(f)
    /\ \A d \in Fds, e \in Event : ctx'[d][e] = f <=> ctx[d][e] = f
    /\ f \in timers' <=> f \in timers
    /\ \A w \in Workers : f \in cbs'[w] <=> f \in cbs[w]
    /\ \A w \in Workers : Popped(w, f)' <=> Popped(w, f)

SameRuns(f) ==
    /\ m_state'[f] = m_state[f]
    /\ \A w \in Workers : (Runs(w, f)' <=> Runs(w, f)) /\ (Runs(w, f) => pc'[w] = pc[w])

LEMMA SamePlacesOK ==
    ASSUME NEW f, SamePlaces(f), PlaceOK(f)
    PROVE  PlaceOK(f)' /\ (Somewhere(f)' <=> Somewhere(f))
<1>1. \A k \in Kind, x \in Spot : At(f, k, x)' <=> At(f, k, x)
  BY DEF SamePlaces, At
<1> QED BY <1>1 DEF PlaceOK, Somewhere

LEMMA SameOK ==
    ASSUME NEW f, SamePlaces(f), SameRuns(f), PlaceOK(f), StateOK(f)
    PROVE  PlaceOK(f)' /\ StateOK(f)'
<1>1. PlaceOK(f)' /\ (Somewhere(f)' <=> Somewhere(f))
  BY SamePlacesOK
<1> QED BY <1>1 DEF SameRuns, StateOK

(* A fiber without a place.                                                *)
LEMMA Nowhere ==
    ASSUME NEW f
    PROVE  ~Somewhere(f) <=>
               /\ ~Queued(f) /\ f \notin timers
               /\ \A d \in Fds, e \in Event : ctx[d][e] # f
               /\ \A w \in Workers : f \notin cbs[w] /\ ~Popped(w, f)
<1>1. ASSUME ~Somewhere(f)
      PROVE  /\ ~Queued(f) /\ f \notin timers
             /\ \A d \in Fds, e \in Event : ctx[d][e] # f
             /\ \A w \in Workers : f \notin cbs[w] /\ ~Popped(w, f)
  <2>1. \A k \in Kind, x \in Spot : ~At(f, k, x)
    BY <1>1 DEF Somewhere
  <2>2. ~At(f, "queue", NoFd) /\ ~At(f, "timer", NoFd)
    BY <2>1, Kinds
  <2>3. \A d \in Fds, e \in Event : ~At(f, e, d)
    BY <2>1, Kinds
  <2>4. \A w \in Workers : ~At(f, "collected", w) /\ ~At(f, "popped", w)
    BY <2>1, Kinds
  <2> QED BY <2>2, <2>3, <2>4, AtCases
<1>2. ASSUME ~Queued(f), f \notin timers, \A d \in Fds, e \in Event : ctx[d][e] # f,
             \A w \in Workers : f \notin cbs[w] /\ ~Popped(w, f)
      PROVE  ~Somewhere(f)
  BY <1>2 DEF Somewhere, At
<1> QED BY <1>1, <1>2

(* A fiber in one place is in no other.                                    *)
LEMMA NowhereElse ==
    ASSUME NEW f, PlaceOK(f), NEW k \in Kind, NEW x \in Spot, At(f, k, x)
    PROVE  /\ Queued(f) => k = "queue"
           /\ \A d \in Fds, e \in Event : ctx[d][e] = f => k = e /\ x = d
           /\ f \in timers => k = "timer"
           /\ \A w \in Workers : f \in cbs[w] => k = "collected" /\ x = w
           /\ \A w \in Workers : Popped(w, f) => k = "popped" /\ x = w
<1>1. \A l \in Kind, y \in Spot : At(f, l, y) => k = l /\ x = y
  BY DEF PlaceOK
<1>2. At(f, "queue", NoFd) => k = "queue"
  BY <1>1, Kinds
<1>3. At(f, "timer", NoFd) => k = "timer"
  BY <1>1, Kinds
<1>4. \A d \in Fds, e \in Event : At(f, e, d) => k = e /\ x = d
  BY <1>1, Kinds
<1>5. \A w \in Workers : /\ At(f, "collected", w) => k = "collected" /\ x = w
                         /\ At(f, "popped", w) => k = "popped" /\ x = w
  BY <1>1, Kinds
<1> QED BY <1>2, <1>3, <1>4, <1>5, AtCases

(* A fiber that is in one place after a step, and in no other.             *)
OnlyAt(f, k, x) == \A l \in Kind, y \in Spot : At(f, l, y) <=> l = k /\ y = x

LEMMA OnlyAtOK ==
    ASSUME NEW f, NEW k \in Kind, NEW x \in Spot, OnlyAt(f, k, x)'
    PROVE  PlaceOK(f)' /\ Somewhere(f)'
BY DEF OnlyAt, PlaceOK, Somewhere

LEMMA NowhereOK ==
    ASSUME NEW f, ~Queued(f)', f \notin timers', \A d \in Fds, e \in Event : ctx'[d][e] # f,
           \A w \in Workers : f \notin cbs'[w] /\ ~Popped(w, f)'
    PROVE  PlaceOK(f)' /\ ~Somewhere(f)'
BY DEF PlaceOK, Somewhere, At

(* What the queue holds after an Append and after a pop.                   *)
LEMMA QueueAppend ==
    ASSUME m_tasks \in Seq(Fibers), NoneTwice, NEW g \in Fibers, ~Queued(g), m_tasks' = Append(m_tasks, g)
    PROVE  NoneTwice' /\ \A f : Queued(f)' <=> Queued(f) \/ f = g
<1>1. /\ Len(m_tasks) \in Nat /\ Len(m_tasks') = Len(m_tasks) + 1 /\ m_tasks'[Len(m_tasks) + 1] = g
      /\ \A i \in 1..Len(m_tasks) : m_tasks'[i] = m_tasks[i]
  OBVIOUS
<1>2. \A i \in 1..Len(m_tasks') : i \in 1..Len(m_tasks) \/ i = Len(m_tasks) + 1
  BY <1>1
<1>3. NoneTwice'
  BY <1>1, <1>2 DEF NoneTwice, Queued
<1>4. \A i \in 1..Len(m_tasks) : i \in 1..Len(m_tasks')
  BY <1>1
<1>5. Len(m_tasks) + 1 \in 1..Len(m_tasks')
  BY <1>1
<1>6. \A f : Queued(f)' <=> Queued(f) \/ f = g
  BY <1>1, <1>2, <1>4, <1>5 DEF Queued
<1> QED BY <1>3, <1>6

LEMMA QueuePop ==
    ASSUME m_tasks \in Seq(Fibers), NoneTwice, m_tasks # <<>>, m_tasks' = Tail(m_tasks)
    PROVE  /\ NoneTwice' /\ Queued(Head(m_tasks)) /\ Head(m_tasks) \in Fibers
           /\ \A f : Queued(f)' <=> Queued(f) /\ f # Head(m_tasks)
<1>1. /\ Len(m_tasks) \in Nat \ {0} /\ Len(m_tasks') = Len(m_tasks) - 1 /\ Head(m_tasks) = m_tasks[1]
      /\ \A i \in 1..Len(m_tasks') : m_tasks'[i] = m_tasks[i + 1]
      /\ Head(m_tasks) \in Fibers
  OBVIOUS
<1>2. \A i \in 1..Len(m_tasks') : i + 1 \in 1..Len(m_tasks) /\ i \in Int
  BY <1>1
<1>3. \A i \in 1..Len(m_tasks) : i # 1 => i - 1 \in 1..Len(m_tasks') /\ m_tasks'[i - 1] = m_tasks[i]
  BY <1>1
<1>4. 1 \in 1..Len(m_tasks)
  BY <1>1
<1>5. NoneTwice'
  BY <1>1, <1>2 DEF NoneTwice
<1>6. ASSUME NEW f PROVE Queued(f)' <=> Queued(f) /\ f # Head(m_tasks)
  <2>1. ASSUME NEW i \in 1..Len(m_tasks'), m_tasks'[i] = f
        PROVE  m_tasks[i + 1] = f /\ i + 1 \in 1..Len(m_tasks) /\ i + 1 # 1
    BY <1>1, <1>2, <2>1
  <2>2. ASSUME Queued(f)' PROVE Queued(f) /\ f # Head(m_tasks)
    BY <1>1, <1>4, <2>1, <2>2 DEF Queued, NoneTwice
  <2>3. ASSUME Queued(f), f # Head(m_tasks) PROVE Queued(f)'
    BY <1>1, <1>3, <2>3 DEF Queued
  <2> QED BY <2>2, <2>3
<1> QED BY <1>1, <1>4, <1>5, <1>6 DEF Queued

(* Nobody runs a fiber that does not run.                                  *)
LEMMA NotRun ==
    ASSUME NEW f, StateOK(f), m_state[f] # "RUNNING", NEW w \in Workers
    PROVE  ~Runs(w, f)
BY DEF StateOK

(* Steps that move no fiber, and steps that move one.                      *)
LEMMA NoneMoves ==
    ASSUME PlaceInv, StateInv, UNCHANGED <<m_tasks, m_state, ctx, timers, cbs, cur>>,
           \A w \in Workers : \/ pc'[w] = pc[w]
                              \/ {pc[w], pc'[w]} \cap {"resume", "body", "yield"} = {}
    PROVE  PlaceInv' /\ StateInv'
<1>1. ASSUME NEW f \in Fibers PROVE SamePlaces(f) /\ SameRuns(f)
  <2>1. \A w \in Workers : (Popped(w, f)' <=> Popped(w, f)) /\ (Runs(w, f)' <=> Runs(w, f))
    BY DEF Popped, Runs
  <2>2. \A w \in Workers : Runs(w, f) => pc'[w] = pc[w]
    BY DEF Runs
  <2>3. Queued(f)' <=> Queued(f)
    BY DEF Queued
  <2> QED BY <2>1, <2>2, <2>3 DEF SamePlaces, SameRuns
<1>2. \A f \in Fibers : PlaceOK(f)' /\ StateOK(f)'
  BY <1>1, SameOK DEF PlaceInv, StateInv
<1> QED BY <1>2 DEF PlaceInv, StateInv, NoneTwice

LEMMA OneMoves ==
    ASSUME PlaceInv, StateInv, NEW g \in Fibers, NoneTwice', PlaceOK(g)', StateOK(g)',
           \A f \in Fibers : f # g => SamePlaces(f) /\ SameRuns(f)
    PROVE  PlaceInv' /\ StateInv'
<1>1. \A f \in Fibers : f # g => PlaceOK(f)' /\ StateOK(f)'
  BY SameOK DEF PlaceInv, StateInv
<1> QED BY <1>1 DEF PlaceInv, StateInv

(* A new callback is nowhere and nobody runs it.                           *)
LEMMA NewIsNowhere ==
    ASSUME TypeInv, StateInv, NEW f \in Fibers, NewCallback(f)
    PROVE  /\ ~Queued(f) /\ f \notin timers
           /\ \A d \in Fds, e \in Event : ctx[d][e] # f
           /\ \A w \in Workers : f \notin cbs[w] /\ ~Popped(w, f) /\ ~Runs(w, f)
           /\ m_state'[f] = "CB" /\ \A g \in Fibers : g # f => m_state'[g] = m_state[g]
<1>1. m_state[f] = "NONE" /\ m_state' = [m_state EXCEPT ![f] = "CB"] /\ StateOK(f)
  BY DEF NewCallback, Become, StateInv
<1>2. ~Somewhere(f) /\ \A w \in Workers : ~Runs(w, f)
  BY <1>1 DEF StateOK
<1>3. m_state'[f] = "CB" /\ \A g \in Fibers : g # f => m_state'[g] = m_state[g]
  BY <1>1 DEF TypeInv
<1> QED BY <1>2, <1>3, Nowhere

LEMMA ScheduleMoves ==
    ASSUME IInv, NEW w \in Workers, NEW f \in Fibers, schedule(w, f)
    PROVE  PlaceInv' /\ StateInv'
<1>1. /\ NewCallback(f) /\ m_tasks' = Append(m_tasks, f)
      /\ UNCHANGED <<ctx, timers, cbs, pc, cur>>
  BY DEF schedule, scheduleLock, fdVars, timerVars, workerVars
<1>2. TypeInv /\ PlaceInv /\ StateInv /\ NoneTwice /\ m_tasks \in Seq(Fibers)
  BY DEF IInv, TypeInv, PlaceInv
<1>3. /\ ~Queued(f) /\ f \notin timers
      /\ \A d \in Fds, e \in Event : ctx[d][e] # f
      /\ \A v \in Workers : f \notin cbs[v] /\ ~Popped(v, f) /\ ~Runs(v, f)
      /\ m_state'[f] = "CB" /\ \A g \in Fibers : g # f => m_state'[g] = m_state[g]
  BY <1>1, <1>2, NewIsNowhere
<1>4. NoneTwice' /\ \A g : Queued(g)' <=> Queued(g) \/ g = f
  BY <1>1, <1>2, <1>3, QueueAppend
<1>5. \A v \in Workers : \A g : (Popped(v, g)' <=> Popped(v, g)) /\ (Runs(v, g)' <=> Runs(v, g))
  BY <1>1 DEF Popped, Runs
<1>6. \A g \in Fibers : g # f => SamePlaces(g) /\ SameRuns(g)
  BY <1>1, <1>3, <1>4, <1>5 DEF SamePlaces, SameRuns
<1>7. OnlyAt(f, "queue", NoFd)'
  BY <1>1, <1>3, <1>4, <1>5 DEF OnlyAt, At
<1>8. PlaceOK(f)' /\ Somewhere(f)'
  BY <1>7, OnlyAtOK, Kinds
<1>9. StateOK(f)'
  BY <1>3, <1>5, <1>8 DEF StateOK
<1> QED BY <1>2, <1>4, <1>6, <1>8, <1>9, OneMoves

LEMMA TimerMoves ==
    ASSUME IInv, NEW w \in Workers, NEW f \in Fibers, addTimer(w, f)
    PROVE  PlaceInv' /\ StateInv'
<1>1. /\ NewCallback(f) /\ timers' = timers \cup {f}
      /\ UNCHANGED <<m_tasks, ctx, cbs, pc, cur>>
  BY DEF addTimer, fdVars, workerVars
<1>2. TypeInv /\ PlaceInv /\ StateInv /\ NoneTwice
  BY DEF IInv, PlaceInv
<1>3. /\ ~Queued(f) /\ f \notin timers
      /\ \A d \in Fds, e \in Event : ctx[d][e] # f
      /\ \A v \in Workers : f \notin cbs[v] /\ ~Popped(v, f) /\ ~Runs(v, f)
      /\ m_state'[f] = "CB" /\ \A g \in Fibers : g # f => m_state'[g] = m_state[g]
  BY <1>1, <1>2, NewIsNowhere
<1>4. NoneTwice' /\ \A g : Queued(g)' <=> Queued(g)
  BY <1>1, <1>2 DEF Queued, NoneTwice
<1>5. \A v \in Workers : \A g : (Popped(v, g)' <=> Popped(v, g)) /\ (Runs(v, g)' <=> Runs(v, g))
  BY <1>1 DEF Popped, Runs
<1>6. \A g \in Fibers : g # f => SamePlaces(g) /\ SameRuns(g)
  BY <1>1, <1>3, <1>4, <1>5 DEF SamePlaces, SameRuns
<1>7. OnlyAt(f, "timer", NoFd)'
  BY <1>1, <1>3, <1>4, <1>5 DEF OnlyAt, At
<1>8. PlaceOK(f)' /\ Somewhere(f)'
  BY <1>7, OnlyAtOK, Kinds
<1>9. StateOK(f)'
  BY <1>3, <1>5, <1>8 DEF StateOK
<1> QED BY <1>2, <1>4, <1>6, <1>8, <1>9, OneMoves

LEMMA CallbackMoves ==
    ASSUME IInv, NEW w \in Workers, NEW f \in Fibers, NEW d \in Fds, NEW e \in Event, addEventCb(w, d, e, f)
    PROVE  PlaceInv' /\ StateInv'
<1>1. /\ NewCallback(f) /\ ctx' = [ctx EXCEPT ![d][e] = f] /\ e \notin events[d]
      /\ UNCHANGED <<m_tasks, timers, cbs, pc, cur>>
  BY DEF addEventCb, Register, timerVars, workerVars
<1>2. TypeInv /\ PlaceInv /\ StateInv /\ NoneTwice
  BY DEF IInv, PlaceInv
<1>3. /\ ~Queued(f) /\ f \notin timers
      /\ \A x \in Fds, y \in Event : ctx[x][y] # f
      /\ \A v \in Workers : f \notin cbs[v] /\ ~Popped(v, f) /\ ~Runs(v, f)
      /\ m_state'[f] = "CB" /\ \A g \in Fibers : g # f => m_state'[g] = m_state[g]
  BY <1>1, <1>2, NewIsNowhere
<1>4. NoneTwice' /\ \A g : Queued(g)' <=> Queued(g)
  BY <1>1, <1>2 DEF Queued, NoneTwice
<1>5. \A v \in Workers : \A g : (Popped(v, g)' <=> Popped(v, g)) /\ (Runs(v, g)' <=> Runs(v, g))
  BY <1>1 DEF Popped, Runs
<1>6. /\ ctx[d][e] = NoFiber /\ ctx'[d][e] = f
      /\ \A x \in Fds, y \in Event : x # d \/ y # e => ctx'[x][y] = ctx[x][y]
  BY <1>1, <1>2 DEF IInv, ContextInv, TypeInv
<1>7. \A g \in Fibers : g # f => SamePlaces(g) /\ SameRuns(g)
  BY NullAssumption, <1>1, <1>3, <1>4, <1>5, <1>6 DEF SamePlaces, SameRuns
<1>8. OnlyAt(f, e, d)'
  <2>1. \A x \in Fds, y \in Event : ctx'[x][y] = f <=> y = e /\ x = d
    BY <1>3, <1>6
  <2>2. e \notin {"queue", "timer", "collected", "popped"}
    BY Kinds
  <2> QED BY <1>1, <1>3, <1>4, <1>5, <2>1, <2>2 DEF OnlyAt, At
<1>9. PlaceOK(f)' /\ Somewhere(f)'
  BY <1>8, OnlyAtOK, Kinds
<1>10. StateOK(f)'
  BY <1>3, <1>5, <1>9 DEF StateOK
<1> QED BY <1>2, <1>4, <1>7, <1>9, <1>10, OneMoves

(* A fiber that calls addEvent() has been nowhere while it ran.            *)
LEMMA EventMoves ==
    ASSUME IInv, NEW w \in Workers, NEW d \in Fds, NEW e \in Event, addEvent(w, d, e)
    PROVE  PlaceInv' /\ StateInv'
<1>1. /\ ctx' = [ctx EXCEPT ![d][e] = cur[w]] /\ e \notin events[d]
      /\ pc[w] = "body" /\ pc' = [pc EXCEPT ![w] = "yield"]
      /\ UNCHANGED <<m_tasks, m_state, timers, cbs, cur>>
  BY DEF addEvent, Register, timerVars, queueVars, Goto
<1>2. TypeInv /\ PlaceInv /\ StateInv /\ NoneTwice /\ pc \in [Workers -> WorkerPC]
  BY DEF IInv, PlaceInv, TypeInv
<1>3. PICK f \in Fibers : f = cur[w]
  BY <1>1 DEF IInv, WorkerInv, WorkerOK
<1>4. Runs(w, f)
  BY <1>1, <1>3 DEF Runs
<1>5. StateOK(f) /\ m_state[f] = "RUNNING" /\ ~Somewhere(f) /\ \A v \in Workers : Runs(v, f) => v = w
  BY <1>1, <1>2, <1>4 DEF StateInv, StateOK
<1>6. /\ ~Queued(f) /\ f \notin timers
      /\ \A x \in Fds, y \in Event : ctx[x][y] # f
      /\ \A v \in Workers : f \notin cbs[v] /\ ~Popped(v, f)
  BY <1>5, Nowhere
<1>7. NoneTwice' /\ \A g : Queued(g)' <=> Queued(g)
  BY <1>1, <1>2 DEF Queued, NoneTwice
<1>8. pc'[w] = "yield" /\ \A v \in Workers : v # w => pc'[v] = pc[v]
  BY <1>1, <1>2
<1>9. \A v \in Workers : \A g : (Popped(v, g)' <=> Popped(v, g)) /\ (Runs(v, g)' <=> Runs(v, g))
  BY <1>1, <1>8 DEF Popped, Runs
<1>10. /\ ctx[d][e] = NoFiber /\ ctx'[d][e] = f
       /\ \A x \in Fds, y \in Event : x # d \/ y # e => ctx'[x][y] = ctx[x][y]
  BY <1>1, <1>2, <1>3 DEF IInv, ContextInv, TypeInv
<1>11. \A g \in Fibers, v \in Workers : g # f /\ Runs(v, g) => pc'[v] = pc[v]
  BY <1>3, <1>8 DEF Runs
<1>12. \A g \in Fibers : g # f => SamePlaces(g) /\ SameRuns(g)
  BY NullAssumption, <1>1, <1>7, <1>9, <1>10, <1>11 DEF SamePlaces, SameRuns
<1>13. OnlyAt(f, e, d)'
  <2>1. \A x \in Fds, y \in Event : ctx'[x][y] = f <=> y = e /\ x = d
    BY <1>6, <1>10
  <2>2. e \notin {"queue", "timer", "collected", "popped"}
    BY Kinds
  <2> QED BY <1>1, <1>6, <1>7, <1>9, <2>1, <2>2 DEF OnlyAt, At
<1>14. PlaceOK(f)' /\ Somewhere(f)'
  BY <1>13, OnlyAtOK, Kinds
<1>15. StateOK(f)'
  BY <1>1, <1>5, <1>8, <1>9, <1>14 DEF StateOK
<1> QED BY <1>2, <1>7, <1>12, <1>14, <1>15, OneMoves

LEMMA DeletionMoves ==
    ASSUME IInv, NEW w \in Workers, NEW d \in Fds, NEW e \in Event, delEvent(w, d, e)
    PROVE  PlaceInv' /\ StateInv'
<1>1. /\ ctx' = [ctx EXCEPT ![d][e] = NoFiber] /\ e \in events[d]
      /\ m_state[ctx[d][e]] = "CB" /\ m_state' = [m_state EXCEPT ![ctx[d][e]] = "TERM"]
      /\ UNCHANGED <<m_tasks, timers, cbs, pc, cur>>
  BY DEF delEvent, Become, timerVars, workerVars
<1>2. TypeInv /\ PlaceInv /\ StateInv /\ NoneTwice
  BY DEF IInv, PlaceInv
<1>3. PICK f \in Fibers : f = ctx[d][e]
  BY <1>1 DEF IInv, TypeInv, ContextInv
<1>4. PlaceOK(f) /\ StateOK(f) /\ \A v \in Workers : ~Runs(v, f)
  BY <1>1, <1>2, <1>3, NotRun DEF PlaceInv, StateInv
<1>5. At(f, e, d)
  BY <1>3, AtCases
<1>6. /\ ~Queued(f) /\ f \notin timers
      /\ \A x \in Fds, y \in Event : ctx[x][y] = f => e = y /\ d = x
      /\ \A v \in Workers : f \notin cbs[v] /\ ~Popped(v, f)
  BY <1>4, <1>5, NowhereElse, Kinds
<1>7. NoneTwice' /\ \A g : Queued(g)' <=> Queued(g)
  BY <1>1, <1>2 DEF Queued, NoneTwice
<1>8. \A v \in Workers : \A g : (Popped(v, g)' <=> Popped(v, g)) /\ (Runs(v, g)' <=> Runs(v, g))
  BY <1>1 DEF Popped, Runs
<1>9. /\ ctx'[d][e] = NoFiber
      /\ \A x \in Fds, y \in Event : x # d \/ y # e => ctx'[x][y] = ctx[x][y]
  BY <1>1, <1>2 DEF TypeInv
<1>10. m_state'[f] = "TERM" /\ \A g \in Fibers : g # f => m_state'[g] = m_state[g]
  BY <1>1, <1>2, <1>3 DEF TypeInv
<1>11. \A g \in Fibers : g # f => SamePlaces(g) /\ SameRuns(g)
  BY NullAssumption, <1>1, <1>3, <1>7, <1>8, <1>9, <1>10 DEF SamePlaces, SameRuns
<1>12. \A x \in Fds, y \in Event : ctx'[x][y] # f
  BY NullAssumption, <1>6, <1>9
<1>13. PlaceOK(f)' /\ ~Somewhere(f)'
  BY <1>1, <1>6, <1>7, <1>8, <1>12, NowhereOK
<1>14. StateOK(f)'
  BY <1>4, <1>8, <1>10, <1>13 DEF StateOK
<1> QED BY <1>2, <1>7, <1>11, <1>13, <1>14, OneMoves

(* Three ways into the queue: from an event, from what idle() collected ... *)
LEMMA TriggerMoves ==
    ASSUME IInv, NEW w \in Workers, NEW d \in Fds, NEW e \in Event, Fires(w, d, e),
           UNCHANGED <<m_state, timers, cbs, pc, cur>>
    PROVE  PlaceInv' /\ StateInv'
<1>1. /\ ctx' = [ctx EXCEPT ![d][e] = NoFiber] /\ e \in events[d]
      /\ m_tasks' = Append(m_tasks, ctx[d][e])
  BY DEF Fires, scheduleLock
<1>2. TypeInv /\ PlaceInv /\ StateInv /\ NoneTwice /\ m_tasks \in Seq(Fibers)
  BY DEF IInv, PlaceInv, TypeInv
<1>3. PICK f \in Fibers : f = ctx[d][e]
  BY <1>1 DEF IInv, TypeInv, ContextInv
<1>4. PlaceOK(f) /\ StateOK(f)
  BY <1>2 DEF PlaceInv, StateInv
<1>5. At(f, e, d)
  BY <1>3, AtCases
<1>6. /\ ~Queued(f) /\ f \notin timers
      /\ \A x \in Fds, y \in Event : ctx[x][y] = f => e = y /\ d = x
      /\ \A v \in Workers : f \notin cbs[v] /\ ~Popped(v, f)
  BY <1>4, <1>5, NowhereElse, Kinds
<1>7. NoneTwice' /\ \A g : Queued(g)' <=> Queued(g) \/ g = f
  BY <1>1, <1>2, <1>3, <1>6, QueueAppend
<1>8. \A v \in Workers : \A g : (Popped(v, g)' <=> Popped(v, g)) /\ (Runs(v, g)' <=> Runs(v, g))
  BY DEF Popped, Runs
<1>9. /\ ctx'[d][e] = NoFiber
      /\ \A x \in Fds, y \in Event : x # d \/ y # e => ctx'[x][y] = ctx[x][y]
  BY <1>1, <1>2 DEF TypeInv
<1>10. \A g \in Fibers : g # f => SamePlaces(g) /\ SameRuns(g)
  BY NullAssumption, <1>3, <1>7, <1>8, <1>9 DEF SamePlaces, SameRuns
<1>11. \A x \in Fds, y \in Event : ctx'[x][y] # f
  BY NullAssumption, <1>6, <1>9
<1>12. OnlyAt(f, "queue", NoFd)'
  BY <1>6, <1>7, <1>8, <1>11 DEF OnlyAt, At
<1>13. PlaceOK(f)' /\ Somewhere(f)'
  BY <1>12, OnlyAtOK, Kinds
<1>14. Somewhere(f)
  BY <1>5, Kinds DEF Somewhere
<1>15. StateOK(f)'
  BY <1>4, <1>8, <1>13, <1>14 DEF StateOK
<1> QED BY <1>2, <1>7, <1>10, <1>13, <1>15, OneMoves

LEMMA CollectedMoves ==
    ASSUME IInv, NEW w \in Workers, ScheduleCb(w)
    PROVE  PlaceInv' /\ StateInv'
<1>1. PICK f \in cbs[w] : m_tasks' = Append(m_tasks, f) /\ cbs' = [cbs EXCEPT ![w] = @ \ {f}]
  BY DEF ScheduleCb, scheduleLock
<1>2. UNCHANGED <<m_state, ctx, timers, pc, cur>>
  BY DEF ScheduleCb, fdVars, workerVars
<1>3. TypeInv /\ PlaceInv /\ StateInv /\ NoneTwice /\ m_tasks \in Seq(Fibers) /\ f \in Fibers
  BY DEF IInv, PlaceInv, TypeInv
<1>4. PlaceOK(f) /\ StateOK(f)
  BY <1>3 DEF PlaceInv, StateInv
<1>5. At(f, "collected", w)
  BY AtCases
<1>6. /\ ~Queued(f) /\ f \notin timers
      /\ \A x \in Fds, y \in Event : ctx[x][y] # f
      /\ \A v \in Workers : (f \in cbs[v] => v = w) /\ ~Popped(v, f)
  BY <1>4, <1>5, NowhereElse, Kinds
<1>7. NoneTwice' /\ \A g : Queued(g)' <=> Queued(g) \/ g = f
  BY <1>1, <1>3, <1>6, QueueAppend
<1>8. \A v \in Workers : \A g : (Popped(v, g)' <=> Popped(v, g)) /\ (Runs(v, g)' <=> Runs(v, g))
  BY <1>2 DEF Popped, Runs
<1>9. cbs'[w] = cbs[w] \ {f} /\ \A v \in Workers : v # w => cbs'[v] = cbs[v]
  BY <1>1, <1>3 DEF TypeInv
<1>10. \A g \in Fibers : g # f => SamePlaces(g) /\ SameRuns(g)
  BY <1>2, <1>7, <1>8, <1>9 DEF SamePlaces, SameRuns
<1>11. \A v \in Workers : f \notin cbs'[v]
  BY <1>6, <1>9
<1>12. OnlyAt(f, "queue", NoFd)'
  BY <1>2, <1>6, <1>7, <1>8, <1>11 DEF OnlyAt, At
<1>13. PlaceOK(f)' /\ Somewhere(f)'
  BY <1>12, OnlyAtOK, Kinds
<1>14. Somewhere(f)
  BY <1>5, Kinds DEF Somewhere
<1>15. StateOK(f)'
  BY <1>2, <1>4, <1>8, <1>13, <1>14 DEF StateOK
<1> QED BY <1>3, <1>7, <1>10, <1>13, <1>15, OneMoves

(* ... and out of it again.                                                *)
LEMMA PopMoves ==
    ASSUME IInv, NEW w \in Workers, Pop(w)
    PROVE  PlaceInv' /\ StateInv'
<1>1. /\ pc[w] = "scan" /\ m_tasks # <<>> /\ m_tasks' = Tail(m_tasks)
      /\ cur' = [cur EXCEPT ![w] = Head(m_tasks)] /\ pc' = [pc EXCEPT ![w] = "resume"]
      /\ UNCHANGED <<m_state, ctx, timers, cbs>>
  BY DEF Pop, Goto, fdVars, timerVars
<1>2. TypeInv /\ PlaceInv /\ StateInv /\ NoneTwice /\ m_tasks \in Seq(Fibers)
  BY DEF IInv, PlaceInv, TypeInv
<1>3. PICK f \in Fibers : f = Head(m_tasks)
  BY <1>1, <1>2, QueuePop
<1>4. PlaceOK(f) /\ StateOK(f)
  BY <1>2 DEF PlaceInv, StateInv
<1>5. NoneTwice' /\ Queued(f) /\ \A g : Queued(g)' <=> Queued(g) /\ g # f
  BY <1>1, <1>2, <1>3, QueuePop
<1>6. At(f, "queue", NoFd)
  BY <1>5, AtCases
<1>7. /\ f \notin timers
      /\ \A x \in Fds, y \in Event : ctx[x][y] # f
      /\ \A v \in Workers : f \notin cbs[v] /\ ~Popped(v, f)
  BY <1>4, <1>6, NowhereElse, Kinds
<1>8. /\ pc'[w] = "resume" /\ cur'[w] = f
      /\ \A v \in Workers : v # w => pc'[v] = pc[v] /\ cur'[v] = cur[v]
  BY <1>1, <1>2, <1>3 DEF TypeInv
<1>9. /\ \A v \in Workers : \A g : Popped(v, g)' <=> Popped(v, g) \/ (v = w /\ g = f)
      /\ \A v \in Workers : \A g : Runs(v, g)' <=> Runs(v, g)
      /\ \A v \in Workers : \A g : Runs(v, g) => pc'[v] = pc[v]
  BY <1>1, <1>8 DEF Popped, Runs
<1>10. \A g \in Fibers : g # f => SamePlaces(g) /\ SameRuns(g)
  BY <1>1, <1>5, <1>9 DEF SamePlaces, SameRuns
<1>11. OnlyAt(f, "popped", w)'
  BY <1>1, <1>5, <1>7, <1>9 DEF OnlyAt, At
<1>12. PlaceOK(f)' /\ Somewhere(f)'
  BY <1>11, OnlyAtOK, Kinds
<1>13. Somewhere(f)
  BY <1>6, Kinds DEF Somewhere
<1>14. StateOK(f)'
  BY <1>1, <1>4, <1>9, <1>12, <1>13 DEF StateOK
<1> QED BY <1>2, <1>5, <1>10, <1>12, <1>14, OneMoves

LEMMA ResumeMoves ==
    ASSUME IInv, NEW w \in Workers, resume(w)
    PROVE  PlaceInv' /\ StateInv'
<1>1. /\ pc[w] = "resume" /\ m_state[cur[w]] # "RUNNING"
      /\ m_state' = [m_state EXCEPT ![cur[w]] = "RUNNING"] /\ pc' = [pc EXCEPT ![w] = "body"]
      /\ UNCHANGED <<m_tasks, ctx, timers, cbs, cur>>
  BY DEF resume, Become, Goto, fdVars, timerVars
<1>2. TypeInv /\ PlaceInv /\ StateInv /\ NoneTwice
  BY DEF IInv, PlaceInv
<1>3. PICK f \in Fibers : f = cur[w]
  BY <1>1 DEF IInv, WorkerInv, WorkerOK
<1>4. PlaceOK(f) /\ StateOK(f) /\ \A v \in Workers : ~Runs(v, f)
  BY <1>1, <1>2, <1>3, NotRun DEF PlaceInv, StateInv
<1>5. At(f, "popped", w)
  <2>1. Popped(w, f)
    BY <1>1, <1>3 DEF Popped
  <2> QED BY <2>1, AtCases
<1>6. /\ ~Queued(f) /\ f \notin timers
      /\ \A x \in Fds, y \in Event : ctx[x][y] # f
      /\ \A v \in Workers : f \notin cbs[v] /\ (Popped(v, f) => v = w)
  BY <1>4, <1>5, NowhereElse, Kinds
<1>7. NoneTwice' /\ \A g : Queued(g)' <=> Queued(g)
  BY <1>1, <1>2 DEF Queued, NoneTwice
<1>8. /\ pc'[w] = "body" /\ \A v \in Workers : v # w => pc'[v] = pc[v]
      /\ m_state'[f] = "RUNNING" /\ \A g \in Fibers : g # f => m_state'[g] = m_state[g]
  BY <1>1, <1>2, <1>3 DEF TypeInv
<1>9. /\ \A v \in Workers : \A g : Popped(v, g)' <=> Popped(v, g) /\ v # w
      /\ \A v \in Workers : \A g : Runs(v, g)' <=> Runs(v, g) \/ (v = w /\ g = f)
      /\ \A v \in Workers : \A g : Runs(v, g) => pc'[v] = pc[v]
  BY <1>1, <1>3, <1>8 DEF Popped, Runs
<1>10. \A g : Popped(w, g) => g = f
  BY <1>3 DEF Popped
<1>11. \A g \in Fibers : g # f => SamePlaces(g) /\ SameRuns(g)
  BY <1>1, <1>7, <1>8, <1>9, <1>10 DEF SamePlaces, SameRuns
<1>12. PlaceOK(f)' /\ ~Somewhere(f)'
  BY <1>1, <1>6, <1>7, <1>9, NowhereOK
<1>13. StateOK(f)'
  BY <1>4, <1>8, <1>9, <1>12 DEF StateOK
<1> QED BY <1>2, <1>7, <1>11, <1>12, <1>13, OneMoves

LEMMA SwapMoves ==
    ASSUME IInv, NEW w \in Workers, SwapOut(w)
    PROVE  PlaceInv' /\ StateInv'
<1>1. /\ pc[w] \in {"yield", "body"}
      /\ m_state' = [m_state EXCEPT ![cur[w]] = IF pc[w] = "yield" THEN "READY" ELSE "TERM"]
      /\ cur' = [cur EXCEPT ![w] = NoFiber] /\ pc' = [pc EXCEPT ![w] = "scan"]
      /\ UNCHANGED <<m_tasks, ctx, timers, cbs>>
  BY DEF SwapOut, Become, Goto, fdVars, timerVars
<1>2. TypeInv /\ PlaceInv /\ StateInv /\ NoneTwice
  BY DEF IInv, PlaceInv
<1>3. PICK f \in Fibers : f = cur[w]
  BY <1>1 DEF IInv, WorkerInv, WorkerOK
<1>4. PlaceOK(f) /\ StateOK(f) /\ Runs(w, f)
  BY <1>1, <1>2, <1>3 DEF PlaceInv, StateInv, Runs
<1>5. (pc[w] = "yield" <=> Somewhere(f)) /\ \A v \in Workers : Runs(v, f) => v = w
  BY <1>4 DEF StateOK
<1>6. NoneTwice' /\ \A g : Queued(g)' <=> Queued(g)
  BY <1>1, <1>2 DEF Queued, NoneTwice
<1>7. /\ pc'[w] = "scan" /\ cur'[w] = NoFiber
      /\ \A v \in Workers : v # w => pc'[v] = pc[v] /\ cur'[v] = cur[v]
  BY <1>1, <1>2 DEF TypeInv
<1>8. /\ m_state'[f] = IF pc[w] = "yield" THEN "READY" ELSE "TERM"
      /\ \A g \in Fibers : g # f => m_state'[g] = m_state[g]
  BY <1>1, <1>2, <1>3 DEF TypeInv
<1>9. /\ \A v \in Workers : \A g : Popped(v, g)' <=> Popped(v, g)
      /\ \A v \in Workers : \A g : Runs(v, g)' <=> Runs(v, g) /\ v # w
      /\ \A v \in Workers : \A g : v # w => pc'[v] = pc[v]
      /\ \A g : Runs(w, g) => g = f
  BY <1>1, <1>3, <1>7 DEF Popped, Runs
<1>10. \A g \in Fibers : SamePlaces(g)
  BY <1>1, <1>6, <1>9 DEF SamePlaces
<1>11. \A g \in Fibers : g # f => SameRuns(g)
  BY <1>7, <1>8, <1>9 DEF SameRuns
<1>12. PlaceOK(f)' /\ (Somewhere(f)' <=> Somewhere(f))
  BY <1>4, <1>10, SamePlacesOK
<1>13. \A v \in Workers : ~Runs(v, f)'
  BY <1>5, <1>9
<1>14. StateOK(f)'
  BY <1>5, <1>8, <1>12, <1>13 DEF StateOK
<1> QED BY <1>2, <1>6, <1>10, <1>11, <1>12, <1>14, OneMoves

(* All expired timers of one turn move together.                           *)
LEMMA ExpiryMoves ==
    ASSUME IInv, NEW w \in Workers, listExpiredCb(w)
    PROVE  PlaceInv' /\ StateInv'
<1>1. PICK due \in SUBSET timers : timers' = timers \ due /\ cbs' = [cbs EXCEPT ![w] = due]
  BY DEF listExpiredCb
<1>2. /\ pc[w] = "expire" /\ pc' = [pc EXCEPT ![w] = "schedule"]
      /\ UNCHANGED <<m_tasks, m_state, ctx, cur>>
  BY DEF listExpiredCb, Goto, queueVars, fdVars
<1>3. TypeInv /\ PlaceInv /\ StateInv /\ NoneTwice
  BY DEF IInv, PlaceInv
<1>4. NoneTwice' /\ \A g : Queued(g)' <=> Queued(g)
  BY <1>2, <1>3 DEF Queued, NoneTwice
<1>5. pc'[w] = "schedule" /\ \A v \in Workers : v # w => pc'[v] = pc[v]
  BY <1>2, <1>3 DEF TypeInv
<1>6. \A v \in Workers : \A g : /\ (Popped(v, g)' <=> Popped(v, g)) /\ (Runs(v, g)' <=> Runs(v, g))
                                /\ Runs(v, g) => pc'[v] = pc[v]
  BY <1>2, <1>5 DEF Popped, Runs
<1>7. cbs[w] = {} /\ cbs'[w] = due /\ \A v \in Workers : v # w => cbs'[v] = cbs[v]
  BY <1>1, <1>2, <1>3 DEF IInv, WorkerInv, WorkerOK, TypeInv
<1>8. ASSUME NEW f \in Fibers PROVE PlaceOK(f)' /\ StateOK(f)'
  <2>1. PlaceOK(f) /\ StateOK(f)
    BY <1>3 DEF PlaceInv, StateInv
  <2>2. SameRuns(f)
    BY <1>2, <1>6 DEF SameRuns
  <2>3. CASE f \notin due
    <3>1. SamePlaces(f)
      BY <1>1, <1>2, <1>4, <1>6, <1>7, <2>3 DEF SamePlaces
    <3> QED BY <2>1, <2>2, <3>1, SameOK
  <2>4. CASE f \in due
    <3>1. At(f, "timer", NoFd)
      BY <2>4, AtCases
    <3>2. /\ ~Queued(f)
          /\ \A x \in Fds, y \in Event : ctx[x][y] # f
          /\ \A v \in Workers : f \notin cbs[v] /\ ~Popped(v, f)
      BY <2>1, <3>1, NowhereElse, Kinds
    <3>3. f \notin timers' /\ \A v \in Workers : f \in cbs'[v] <=> v = w
      BY <1>1, <1>7, <2>4, <3>2
    <3>4. OnlyAt(f, "collected", w)'
      BY <1>2, <1>4, <1>6, <3>2, <3>3 DEF OnlyAt, At
    <3>5. PlaceOK(f)' /\ Somewhere(f)'
      BY <3>4, OnlyAtOK, Kinds
    <3>6. Somewhere(f)
      BY <3>1, Kinds DEF Somewhere
    <3>7. StateOK(f)'
      BY <2>1, <2>2, <3>5, <3>6 DEF StateOK, SameRuns
    <3> QED BY <3>5, <3>7
  <2> QED BY <2>3, <2>4
<1> QED BY <1>4, <1>8 DEF PlaceInv, StateInv

LEMMA PlaceStep == IInv /\ [Next]_vars => PlaceInv' /\ StateInv'
<1> SUFFICES ASSUME IInv, [Next]_vars PROVE PlaceInv' /\ StateInv'
  OBVIOUS
<1>1. TypeInv /\ PlaceInv /\ StateInv
  BY DEF IInv
<1>2. UNCHANGED <<m_tasks, m_state, ctx, timers, cbs, cur, pc>> => PlaceInv' /\ StateInv'
  BY <1>1, NoneMoves
<1>3. CASE World \/ StopTickle \/ UNCHANGED vars
  BY <1>2, <1>3 DEF World, Arrive, StopTickle, vars, queueVars, fdVars, timerVars, workerVars
<1>4. CASE StopSet
  <2>1. /\ UNCHANGED <<m_tasks, m_state, ctx, timers, cbs, cur>>
        /\ pc[Root] = "main" /\ pc' = [pc EXCEPT ![Root] = "stop"]
    BY <1>4 DEF StopSet, Goto, queueVars, fdVars, timerVars
  <2>2. \A v \in Workers : \/ pc'[v] = pc[v]
                           \/ {pc[v], pc'[v]} \cap {"resume", "body", "yield"} = {}
    BY <1>1, <2>1 DEF TypeInv
  <2> QED BY <1>1, <2>1, <2>2, NoneMoves
<1>5. ASSUME NEW w \in Workers, MoveStep(w) PROVE PlaceInv' /\ StateInv'
  <2>1. /\ UNCHANGED <<m_tasks, m_state, ctx, timers, cbs, cur>>
        /\ pc' = [pc EXCEPT ![w] = pc'[w]] /\ pc[w] \notin {"resume", "body", "yield"}
        /\ pc'[w] \notin {"resume", "body", "yield"}
    BY <1>1, <1>5, MoveFrame DEF queueVars, fdVars, timerVars
  <2>2. \A v \in Workers : v # w => pc'[v] = pc[v]
    BY <1>1, <2>1 DEF TypeInv
  <2> QED BY <1>1, <2>1, <2>2, NoneMoves
<1>6. ASSUME NEW w \in Workers, RestStep(w) PROVE PlaceInv' /\ StateInv'
  <2>1. CASE StopQueue(w) \/ epoll_wait(w)
    <3>1. /\ UNCHANGED <<m_tasks, m_state, ctx, timers, cbs, cur>>
          /\ pc[w] \in {"queue", "wait"}
          /\ \E label \in {"leave", "wait", "expire"} : pc' = [pc EXCEPT ![w] = label]
      BY <2>1 DEF StopQueue, epoll_wait, Goto, queueVars, fdVars, timerVars
    <3>2. \A v \in Workers : \/ pc'[v] = pc[v]
                             \/ {pc[v], pc'[v]} \cap {"resume", "body", "yield"} = {}
      BY <1>1, <3>1 DEF TypeInv
    <3> QED BY <1>1, <3>1, <3>2, NoneMoves
  <2>2. CASE tickle(w) \/ DrainPipe(w) \/ \E d \in Fds, e \in Event : Consume(w, d, e)
    BY <1>2, <2>2 DEF tickle, DrainPipe, Consume, queueVars, fdVars, timerVars, workerVars
  <2> QED BY <1>6, <2>1, <2>2, ScheduleMoves, TimerMoves, CollectedMoves, PopMoves, ResumeMoves, SwapMoves,
             ExpiryMoves DEF RestStep
<1>7. ASSUME NEW w \in Workers, FdStep(w) PROVE PlaceInv' /\ StateInv'
  <2>1. CASE triggerEvent(w)
    <3>1. UNCHANGED <<m_state, timers, cbs, pc, cur>>
      BY <1>1, <2>1, TriggerForm DEF timerVars, workerVars
    <3>2. \/ \E d \in Fds, e \in Event : Fires(w, d, e)
          \/ UNCHANGED <<m_tasks, ctx>>
      BY <1>1, <2>1, TriggerForm
    <3> QED BY <1>2, <3>1, <3>2, TriggerMoves
  <2>2. CASE CountDown(w) \/ Unlock(w)
    BY <1>2, <2>2 DEF CountDown, Unlock, queueVars, fdVars, timerVars, workerVars
  <2>3. CASE \E d \in Fds : HandleEvent(w, d) \/ cancelAll(w, d) \/ \E e \in Event : cancelEvent(w, d, e)
    BY <1>2, <2>3 DEF HandleEvent, cancelAll, cancelEvent, queueVars, fdVars, timerVars, workerVars
  <2> QED BY <1>7, <2>1, <2>2, <2>3, EventMoves, CallbackMoves, DeletionMoves DEF FdStep
<1> QED BY <1>3, <1>4, <1>5, <1>6, <1>7, StepCases

-----------------------------------------------------------------------------
(***************************************************************************)
(* The theorems.                                                           *)
(***************************************************************************)
LEMMA InitIInv == Init => IInv
<1> SUFFICES ASSUME Init PROVE IInv
  OBVIOUS
<1> USE WorkerAssumption, NullAssumption, BoundAssumption DEF Init, Workers
<1>1. IsFiniteSet(Spawned) /\ Cardinality(Spawned) \in Nat
  BY FS_CardinalityType
<1>2. TypeInv
  <2>1. /\ m_tasks \in Seq(Fibers) /\ m_state \in [Fibers -> FiberState]
        /\ pc \in [Workers -> WorkerPC]
    BY DEF WorkerPC, IdlePC, FiberState
  <2>2. wakeups \in 0..Cardinality(Spawned) + 1 /\ arrivals \in 0..MaxArrivals /\ calls \in 0..MaxCalls
    BY <1>1
  <2>3. /\ ctx \in [Fds -> [Event -> Fibers \cup {NoFiber}]]
        /\ snapEvents \in [Workers -> [Fds -> SUBSET Condition]]
    OBVIOUS
  <2>4. /\ cur \in [Workers -> Fibers \cup {NoFiber}]
        /\ idleTerm \subseteq Workers /\ tickleDue \subseteq Workers /\ snapPipe \subseteq Workers
        /\ m_stopping \in BOOLEAN /\ pipe \in BOOLEAN /\ aborted \in BOOLEAN
        /\ timers \subseteq Fibers /\ edge \subseteq Fds
    OBVIOUS
  <2>5. /\ fdMutex \in [Fds -> Workers \cup {NoThread}] /\ fdOf \in [Workers -> Fds \cup {NoFd}]
        /\ m_pendingEventCount \in Int
    OBVIOUS
  <2>6. /\ events \in [Fds -> SUBSET Event] /\ interest \in [Fds -> SUBSET Event]
        /\ ready \in [Fds -> SUBSET Condition] /\ cbs \in [Workers -> SUBSET Fibers]
    OBVIOUS
  <2> HIDE DEF Init
  <2> QED BY <2>1, <2>2, <2>3, <2>4, <2>5, <2>6 DEF TypeInv
<1>3. TodoInv
  BY DEF TodoInv, Triggering
<1>4. LockInv
  BY DEF LockInv, Held
<1>5. KernelInv /\ ContextInv /\ WorkerInv
  BY DEF KernelInv, HolderOK, Held, ContextInv, WorkerInv, WorkerOK
<1>6. ReportInv
  BY DEF ReportInv, Reported, Reports
<1>7. \A f \in Fibers : /\ ~Queued(f) /\ f \notin timers
                        /\ \A d \in Fds, e \in Event : ctx[d][e] # f
                        /\ \A w \in Workers : f \notin cbs[w] /\ ~Popped(w, f) /\ ~Runs(w, f)
  BY DEF Queued, Popped, Runs
<1>8. \A f \in Fibers : ~Somewhere(f)
  BY <1>7, Nowhere
<1>9. PlaceInv
  BY <1>8 DEF PlaceInv, PlaceOK, Somewhere, NoneTwice
<1>10. StateInv
  BY <1>7, <1>8 DEF StateInv, StateOK
<1>11. CountInv
  <2>1. Registered = {}
    BY DEF Registered
  <2>2. Len(<<>>) = 0
    OBVIOUS
  <2>3. CountedOff = {} /\ Triggered = {}
    BY <2>2 DEF CountedOff, Triggered
  <2> QED BY <2>1, <2>3, FS_EmptySet DEF CountInv
<1> QED BY <1>2, <1>3, <1>4, <1>5, <1>6, <1>9, <1>10, <1>11 DEF IInv

(* The inductive invariant holds in every reachable state.                 *)
THEOREM Inductive == Spec => []IInv
<1>1. IInv /\ [Next]_vars => IInv'
  BY TypeStep, LockStep, KernelStep, ContextStep, WorkerStep, ReportStep, PlaceStep, CountStep DEF IInv
<1> QED BY InitIInv, <1>1, PTL DEF Spec

-----------------------------------------------------------------------------
(* The unsigned counter does not wrap: whoever has counted an event off    *)
(* and not triggered it holds the mutex under which it stays registered.   *)
LEMMA CounterIsNatural == IInv => m_pendingEventCount \in Nat
<1> SUFFICES ASSUME IInv PROVE m_pendingEventCount \in Nat
  OBVIOUS
<1>1. TypeInv /\ TodoInv /\ LockInv /\ KernelInv /\ CountInv
  BY DEF IInv
<1> DEFINE at(w) == <<fdOf[w], Head(todo[w])>>
<1>2. ASSUME NEW w \in CountedOff
      PROVE  w \in Workers /\ fdOf[w] \in Fds /\ Head(todo[w]) \in events[fdOf[w]]
             /\ Head(todo[w]) \in Event
  <2>1. w \in Workers /\ Len(todo[w]) = 1 /\ Head(todo[w]) \in Event /\ todo[w] \in Cancelling \cup Triggering
    BY <1>1 DEF CountedOff, TodoInv
  <2>2. todo[w] # <<>> /\ todo[w] \in Seq(Step) /\ Head(todo[w]) = todo[w][1]
    BY <2>1, TodoShapes
  <2>3. todo[w] \notin Triggering
    BY <2>1, <2>2, TodoEnds DEF Event
  <2>4. Held(w) /\ fdOf[w] \in Fds
    BY <1>1, <2>1, <2>2 DEF LockInv, Held, TypeInv
  <2>5. Head(todo[w]) \in Left(w)
    BY <2>1, <2>2 DEF Left
  <2>6. Left(w) \subseteq events[fdOf[w]]
    BY <1>1, <2>1, <2>3, <2>4 DEF KernelInv, HolderOK
  <2> QED BY <2>1, <2>4, <2>5, <2>6
<1>3. \A w \in CountedOff : at(w) \in Registered
  BY <1>2 DEF Registered
<1>4. \A v, w \in CountedOff : at(v) = at(w) => v = w
  <2> TAKE v, w \in CountedOff
  <2>1. at(v) = at(w) => fdOf[v] = fdOf[w]
    OBVIOUS
  <2>2. v \in Workers /\ w \in Workers /\ fdOf[v] \in Fds
    BY <1>2
  <2>3. fdOf[v] = fdOf[w] => v = w
    BY <1>1, <2>2 DEF LockInv
  <2> QED BY <2>1, <2>3
<1> DEFINE f == [w \in CountedOff |-> at(w)]
<1>5. f \in [CountedOff -> Registered] /\ \A v, w \in CountedOff : f[v] = f[w] => v = w
  BY <1>3, <1>4
<1>6. IsFiniteSet(Registered) /\ Cardinality(Registered) \in Nat
  BY <1>1, FS_CardinalityType DEF CountInv
<1>7. IsFiniteSet(CountedOff) /\ Cardinality(CountedOff) \in Nat /\ Cardinality(Triggered) \in Nat
  BY WorkersFinite DEF CountedOff, Triggered
<1> HIDE DEF f
<1>8. Cardinality(CountedOff) <= Cardinality(Registered)
  <2>1. ~(Cardinality(Registered) < Cardinality(CountedOff))
    BY <1>5, <1>6, <1>7, FS_PigeonHole
  <2> QED BY <1>6, <1>7, <2>1
<1> QED BY <1>1, <1>6, <1>7, <1>8 DEF CountInv, TypeInv

(* Every variable has its type, and the unsigned m_pendingEventCount never *)
(* goes below zero, whatever addEvent(), delEvent(), cancelEvent(),        *)
(* cancelAll() and idle() do at once.                                      *)
THEOREM TypeCorrect == Spec => []TypeOK
<1>1. IInv => TypeOK
  <2> SUFFICES ASSUME IInv PROVE TypeOK
    OBVIOUS
  <2>1. todo \in [Workers -> Seq(Event \cup {"count"})]
    <3>1. \A w \in Workers : todo[w] \in Seq(Step)
      BY TodoShapes DEF IInv, TodoInv
    <3> QED BY <3>1 DEF IInv, TodoInv, Step
  <2>2. m_pendingEventCount \in Nat
    BY CounterIsNatural
  <2> QED BY <2>1, <2>2 DEF TypeOK, IInv, TypeInv
<1> QED BY <1>1, Inductive, PTL

(* m_pendingEventCount counts the registered events exactly, but for what  *)
(* cancelEvent() has counted off early and idle() and cancelAll() have yet *)
(* to count off.                                                           *)
THEOREM PendingIsExact == Spec => []PendingExact
<1>1. IInv => PendingExact
  BY DEF IInv, CountInv, PendingExact, Registered, CountedOff, Triggered
<1> QED BY <1>1, Inductive, PTL

(* Outside the mutex of a descriptor the kernel watches what is registered. *)
THEOREM KernelSeesRegistrations == Spec => []KernelAgrees
<1>1. IInv => KernelAgrees
  BY DEF IInv, KernelInv, KernelAgrees
<1> QED BY <1>1, Inductive, PTL

(* An event that has happened and has been registered for is in the        *)
(* kernel's report, in a snapshot, or being handled.                       *)
THEOREM EventsAreOnTheirWay == Spec => []EventOnItsWay
<1>1. IInv => EventOnItsWay
  <2> SUFFICES ASSUME IInv, NEW d \in Fds, Reports(d, events[d]) # {}, fdMutex[d] = NoThread
               PROVE  d \in edge \/ \E w \in Workers : snapEvents[w][d] # {}
    BY DEF EventOnItsWay
  <2>1. interest[d] = events[d] /\ Reported(d)
    BY DEF IInv, KernelInv, ReportInv
  <2>2. PICK c : c \in Reports(d, interest[d])
    BY <2>1
  <2> QED BY <2>1, <2>2 DEF Reported
<1> QED BY <1>1, Inductive, PTL

(* The references to a fiber, one kind of place after the other.           *)
LEMMA OnePlaceOneReference ==
    ASSUME TypeInv, NoneTwice, NEW f \in Fibers, PlaceOK(f)
    PROVE  /\ ~Somewhere(f) => References(f) = {}
           /\ Somewhere(f) => \E r : References(f) = {r}
<1> DEFINE queue     == {<<"queue", i>> : i \in {j \in DOMAIN m_tasks : m_tasks[j] = f}}
           event     == {<<"event", x>> : x \in {y \in Fds \X Event : ctx[y[1]][y[2]] = f}}
           timer     == {<<"timer", x>> : x \in timers \cap {f}}
           collected == {<<"collected", w>> : w \in {v \in Workers : f \in cbs[v]}}
           popped    == {<<"popped", w>> : w \in {v \in Workers : pc[v] = "resume" /\ cur[v] = f}}
<1>1. References(f) = queue \cup event \cup timer \cup collected \cup popped
  BY DEF References
<1>2. DOMAIN m_tasks = 1..Len(m_tasks)
  BY DEF TypeInv
<1>3. /\ ~Queued(f) => queue = {}
      /\ (\A d \in Fds, e \in Event : ctx[d][e] # f) => event = {}
      /\ f \notin timers => timer = {}
      /\ (\A w \in Workers : f \notin cbs[w]) => collected = {}
      /\ (\A w \in Workers : ~Popped(w, f)) => popped = {}
  BY <1>2 DEF Queued, Popped
<1>4. ASSUME Queued(f) PROVE \E i : queue = {<<"queue", i>>}
  <2>1. PICK i \in 1..Len(m_tasks) : m_tasks[i] = f
    BY <1>4 DEF Queued
  <2>2. \A j \in 1..Len(m_tasks) : m_tasks[j] = f => j = i
    BY <2>1 DEF NoneTwice
  <2>3. {j \in DOMAIN m_tasks : m_tasks[j] = f} = {i}
    BY <1>2, <2>1, <2>2
  <2>4. queue = {<<"queue", i>>}
    BY <2>3
  <2> QED BY <2>4
<1>5. ASSUME NEW d \in Fds, NEW e \in Event, ctx[d][e] = f,
             \A x \in Fds, y \in Event : ctx[x][y] = f => e = y /\ d = x
      PROVE  event = {<<"event", <<d, e>>>>}
  <2>1. {y \in Fds \X Event : ctx[y[1]][y[2]] = f} = {<<d, e>>}
    BY <1>5
  <2> QED BY <2>1
<1>6. ASSUME f \in timers PROVE timer = {<<"timer", f>>}
  <2>1. timers \cap {f} = {f}
    BY <1>6
  <2> QED BY <2>1
<1>7. ASSUME NEW w \in Workers, f \in cbs[w], \A v \in Workers : f \in cbs[v] => w = v
      PROVE  collected = {<<"collected", w>>}
  <2>1. {v \in Workers : f \in cbs[v]} = {w}
    BY <1>7
  <2> QED BY <2>1
<1>8. ASSUME NEW w \in Workers, Popped(w, f), \A v \in Workers : Popped(v, f) => w = v
      PROVE  popped = {<<"popped", w>>}
  <2>1. {v \in Workers : pc[v] = "resume" /\ cur[v] = f} = {w}
    BY <1>8 DEF Popped
  <2> QED BY <2>1
<1> HIDE DEF queue, event, timer, collected, popped
<1>9. ASSUME ~Somewhere(f) PROVE References(f) = {}
  BY <1>1, <1>3, <1>9, Nowhere
<1>10. ASSUME NEW k \in Kind, NEW x \in Spot, At(f, k, x) PROVE \E r : References(f) = {r}
  <2>1. /\ Queued(f) => k = "queue"
        /\ \A d \in Fds, e \in Event : ctx[d][e] = f => k = e /\ x = d
        /\ f \in timers => k = "timer"
        /\ \A w \in Workers : f \in cbs[w] => k = "collected" /\ x = w
        /\ \A w \in Workers : Popped(w, f) => k = "popped" /\ x = w
    BY <1>10, NowhereElse
  <2>2. CASE k = "queue"
    <3>1. Queued(f)
      BY <1>10, <2>2, Kinds DEF At
    <3>2. event = {} /\ timer = {} /\ collected = {} /\ popped = {}
      BY <1>3, <2>1, <2>2, Kinds
    <3> QED BY <1>1, <1>4, <3>1, <3>2
  <2>3. CASE k \in Event
    <3>1. x \in Fds /\ ctx[x][k] = f
      BY <1>10, <2>3, Kinds DEF At
    <3>2. queue = {} /\ timer = {} /\ collected = {} /\ popped = {}
      BY <1>3, <2>1, <2>3, Kinds
    <3>3. event = {<<"event", <<x, k>>>>}
      BY <1>5, <2>1, <2>3, <3>1
    <3> QED BY <1>1, <3>2, <3>3
  <2>4. CASE k = "timer"
    <3>1. f \in timers
      BY <1>10, <2>4, Kinds DEF At
    <3>2. queue = {} /\ event = {} /\ collected = {} /\ popped = {}
      BY <1>3, <2>1, <2>4, Kinds
    <3> QED BY <1>1, <1>6, <3>1, <3>2
  <2>5. CASE k = "collected"
    <3>1. x \in Workers /\ f \in cbs[x]
      BY <1>10, <2>5, Kinds DEF At
    <3>2. queue = {} /\ event = {} /\ timer = {} /\ popped = {}
      BY <1>3, <2>1, <2>5, Kinds
    <3> QED BY <1>1, <1>7, <2>1, <3>1, <3>2
  <2>6. CASE k = "popped"
    <3>1. x \in Workers /\ Popped(x, f)
      BY <1>10, <2>6, Kinds DEF At
    <3>2. queue = {} /\ event = {} /\ timer = {} /\ collected = {}
      BY <1>3, <2>1, <2>6, Kinds
    <3> QED BY <1>1, <1>8, <2>1, <3>1, <3>2
  <2> QED BY <2>2, <2>3, <2>4, <2>5, <2>6 DEF Kind
<1> QED BY <1>9, <1>10 DEF Somewhere

(* Whoever waits is referred to exactly once and whoever runs at most once: *)
(* however an event, its cancellation and a timer race, nobody is woken    *)
(* twice and nobody is lost.                                               *)
THEOREM OneReferenceEach == Spec => []OneReference
<1>1. IInv => OneReference
  <2> SUFFICES ASSUME IInv, NEW f \in Fibers
               PROVE  /\ m_state[f] \in {"CB", "READY"} => Cardinality(References(f)) = 1
                      /\ m_state[f] = "RUNNING" => Cardinality(References(f)) <= 1
    BY DEF OneReference
  <2>1. TypeInv /\ NoneTwice /\ PlaceOK(f) /\ StateOK(f)
    BY DEF IInv, PlaceInv, StateInv
  <2>2. Somewhere(f) => Cardinality(References(f)) = 1
    BY <2>1, OnePlaceOneReference, FS_Singleton
  <2>3. ~Somewhere(f) => Cardinality(References(f)) = 0
    BY <2>1, OnePlaceOneReference, FS_EmptySet
  <2> QED BY <2>1, <2>2, <2>3 DEF StateOK
<1> QED BY <1>1, Inductive, PTL
=============================================================================
