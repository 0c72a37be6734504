------------------------------- MODULE HookProofs -------------------------------
(***************************************************************************)
(* Theorems about the hooked system calls, for every number of fibers and  *)
(* descriptors.                                                            *)
(***************************************************************************)
EXTENDS Hook, FiniteSetTheorems, TLAPS

-----------------------------------------------------------------------------
(***************************************************************************)
(* The inductive invariant.                                                *)
(***************************************************************************)
Call == [id : Nat, kind : Kind, fd : Fds \cup {NoFd}, event : Event, timed : BOOLEAN,
         cancelled : BOOLEAN]

Timer == [fiber : Fibers, call : Call]

TypeInv ==
    /\ pc \in [Fibers -> FiberPC] /\ call \in [Fibers -> Call]
    /\ wakes \in [Fibers -> {0, 1}]
    /\ waiter \in [Fds -> [Event -> Fibers \cup {NoFiber}]]
    /\ fdCtx \subseteq Fds /\ open \subseteq Fds
    /\ timers \subseteq Timer /\ due \subseteq Timer /\ cancelling \subseteq Timer
    /\ ready \in [Fds -> SUBSET Event] /\ watched \in [Fds -> SUBSET Event]
    /\ snapshot \in [Fds -> SUBSET Event]
    /\ conn \in [Fds -> {"new", "connecting", "connected", "failed"}]
    /\ ids \in 0..MaxCalls /\ arrivals \in 0..MaxArrivals /\ closes \in 0..MaxCloses

(* The call a fiber is in, at each place.                                  *)
InCall  == {"try", "timer", "event", "wait", "woken", "failed", "check"}
InClose == {"closeDel", "closeFd"}

CallOK(f) ==
    /\ call[f].id <= ids
    /\ pc[f] \in InCall => /\ call[f].id > 0
                           /\ \/ call[f].kind \in {"io", "connect"} /\ call[f].fd \in Fds
                              \/ call[f].kind = "sleep" /\ pc[f] \in {"wait", "woken"}
    /\ pc[f] \in InClose => call[f].id = 0

CallInv == \A f \in Fibers : CallOK(f)

(* A descriptor has a context only while it is open, and one fiber closes it. *)
CloseOK(f) ==
    pc[f] \in InClose => /\ call[f].fd \in open
                         /\ pc[f] = "closeFd" => call[f].fd \notin fdCtx
                         /\ \A g \in Fibers : Closing(g, call[f].fd) => g = f

CloseInv == fdCtx \subseteq open /\ \A f \in Fibers : CloseOK(f)

(* A timer that expired late can only be of the call it was armed for.     *)
TimerOK(t) ==
    /\ t.call.id \in 1..ids
    /\ t.call.kind # "sleep" => t.call.fd \in Fds
    /\ Alive(t) => call[t.fiber].kind = t.call.kind

TimerInv ==
    /\ \A t \in timers \cup due \cup cancelling : TimerOK(t)
    /\ \A t \in cancelling : t.call.kind # "sleep"

(* Whoever a context names waits for that very event, and whoever a        *)
(* sleep()'s timer names is asleep in that very call.                      *)
SiteInv ==
    \A d \in Fds, e \in Event, f \in Fibers : waiter[d][e] = f =>
        /\ pc[f] = "wait" /\ call[f].kind \in {"io", "connect"}
        /\ call[f].fd = d /\ call[f].event = e

SleepInv ==
    \A t \in timers \cup due : t.call.kind = "sleep" =>
        /\ pc[t.fiber] = "wait" /\ call[t.fiber] = t.call
        /\ ~(t \in timers /\ t \in due)

(* Whoever waits, and for nothing any more, has been queued.               *)
Waiting(f)  == \E d \in Fds, e \in Event : waiter[d][e] = f
Sleeping(f) == \E t \in timers \cup due : t.fiber = f /\ t.call.kind = "sleep"

WakeInv == \A f \in Fibers : wakes[f] = 1 <=> pc[f] = "wait" /\ ~Waiting(f) /\ ~Sleeping(f)

IInv == /\ TypeInv /\ CallInv /\ CloseInv /\ TimerInv /\ NoTimerLeft
        /\ SiteInv /\ SleepInv /\ WakeInv

-----------------------------------------------------------------------------
(***************************************************************************)
(* The steps, and the types of what they change.                           *)
(***************************************************************************)

(* The steps that are no fiber's own.                                      *)
OutsideStep ==
    \/ \E d \in Fds, e \in Event : Arrive(d, e)
    \/ \E d \in Fds, outcome \in {"connected", "failed"} : Connected(d, outcome)
    \/ \E d \in Fds : epoll_wait(d) \/ HandleEvent(d)
    \/ (\E t \in timers : Expire(t)) \/ (\E t \in due : Callback(t)) \/ \E t \in cancelling : CancelEvent(t)

(* The steps of fiber f: those that begin something ...                    *)
BeginStep(f) ==
    \/ \E state \in {"new", "connected"}, what \in SUBSET Event : NewFd(f, state, what)
    \/ sleep(f)
    \/ \E d \in Fds, e \in Event : do_io(f, d, e)
    \/ \E d \in Fds : connect(f, d) \/ close(f, d)

LEMMA StepCases ==
    ASSUME [Next]_vars
    PROVE  OutsideStep \/ (\E f \in Fibers : BeginStep(f) \/ Step(f)) \/ UNCHANGED vars
<1>1. CASE Kernel \/ Idle \/ TimerStep
  BY <1>1 DEF Kernel, Idle, TimerStep, OutsideStep
<1>2. ASSUME NEW f \in Fibers, UserCall(f) PROVE BeginStep(f)
  <2>1. "READ" \in Event /\ "WRITE" \in Event /\ Event \in SUBSET Event /\ {"WRITE"} \in SUBSET Event
    BY DEF Event
  <2>2. socket(f) \/ accept(f) => BeginStep(f)
    BY <2>1 DEF socket, accept, BeginStep
  <2>3. ASSUME NEW d \in Fds, ReadWrite(f, d) PROVE BeginStep(f)
    BY <2>1, <2>3 DEF ReadWrite, BeginStep
  <2> QED BY <1>2, <2>2, <2>3 DEF UserCall, BeginStep
<1> QED BY <1>1, <1>2 DEF Next

LEMMA NoCallType == NoCall \in Call /\ NoCall.id = 0
BY DEF NoCall, Call, Kind, Event

(* What the fields of a call and of a timer are.                           *)
LEMMA Fields ==
    /\ \A c \in Call : /\ c.id \in Nat /\ c.kind \in Kind /\ c.fd \in Fds \cup {NoFd} /\ c.event \in Event
                       /\ c.timed \in BOOLEAN /\ c.cancelled \in BOOLEAN
    /\ \A t \in Timer : t.fiber \in Fibers /\ t.call \in Call
    /\ \A f \in Fibers, c \in Call : /\ [fiber |-> f, call |-> c] \in Timer
                                     /\ [fiber |-> f, call |-> c].fiber = f /\ [fiber |-> f, call |-> c].call = c
    /\ \A s, t \in Timer : s.fiber = t.fiber /\ s.call = t.call => s = t
BY DEF Call, Timer

(* The new call.                                                           *)
LEMMA BeginForm ==
    ASSUME TypeInv, NEW f \in Fibers, NEW kind \in Kind, NEW d \in Fds \cup {NoFd}, NEW e \in Event,
           NEW timed \in BOOLEAN, Begin(f, kind, d, e, timed)
    PROVE  /\ pc[f] = "run" /\ ids' = ids + 1 /\ ids' \in 0..MaxCalls /\ UNCHANGED <<arrivals, closes>>
           /\ \E c \in Call : /\ call' = [call EXCEPT ![f] = c]
                              /\ c.id = ids + 1 /\ c.kind = kind /\ c.fd = d /\ c.event = e
<1> DEFINE c == [id |-> ids + 1, kind |-> kind, fd |-> d, event |-> e, timed |-> timed, cancelled |-> FALSE]
<1>1. ids \in 0..MaxCalls /\ ids < MaxCalls /\ ids' = ids + 1
  BY DEF Begin, TypeInv
<1>2. ids + 1 \in Nat /\ ids' \in 0..MaxCalls
  BY <1>1, BoundAssumption
<1>3. c \in Call
  BY <1>2 DEF Call
<1>4. call' = [call EXCEPT ![f] = c]
  BY DEF Begin
<1>5. c.id = ids + 1 /\ c.kind = kind /\ c.fd = d /\ c.event = e
  OBVIOUS
<1> QED BY <1>1, <1>2, <1>3, <1>4, <1>5 DEF Begin

(* triggerEvent() queues whoever waits for one of the events, once.        *)
LEMMA TriggerCases ==
    ASSUME TypeInv, SiteInv, NEW d \in Fds, NEW es \in SUBSET Event, Trigger(d, es)
    PROVE  /\ watched' \in [Fds -> SUBSET Event]
           /\ \/ UNCHANGED <<wakes, waiter>>
              \/ /\ wakes' = [f \in Fibers |-> IF \E e \in es : waiter[d][e] = f THEN wakes[f] + 1 ELSE wakes[f]]
                 /\ waiter' = [waiter EXCEPT ![d] = [e \in Event |-> IF e \in es THEN NoFiber ELSE waiter[d][e]]]
<1> USE DEF TypeInv
<1>1. CASE es \cap Registered(d) = {} \/ watched[d] = {}
  BY <1>1 DEF Trigger
<1>2. CASE ~(es \cap Registered(d) = {} \/ watched[d] = {})
  <2>1. triggerEvent(d, es) /\ watched' = [watched EXCEPT ![d] = Registered(d) \ es]
    BY <1>2 DEF Trigger
  <2>2. watched' \in [Fds -> SUBSET Event]
    BY <2>1 DEF Registered
  <2>3. ASSUME NEW f \in Fibers
        PROVE  wakes[f] + Cardinality({e \in es : waiter[d][e] = f})
                    = IF \E e \in es : waiter[d][e] = f THEN wakes[f] + 1 ELSE wakes[f]
    <3>1. CASE \E e \in es : waiter[d][e] = f
      <4>1. PICK e \in es : waiter[d][e] = f
        BY <3>1
      <4>2. \A x \in es : waiter[d][x] = f => x = e
        BY <4>1 DEF SiteInv
      <4>3. {x \in es : waiter[d][x] = f} = {e}
        BY <4>1, <4>2
      <4> QED BY <3>1, <4>3, FS_Singleton
    <3>2. CASE ~\E e \in es : waiter[d][e] = f
      <4>1. {x \in es : waiter[d][x] = f} = {}
        BY <3>2
      <4>2. Cardinality({x \in es : waiter[d][x] = f}) = 0
        BY <4>1, FS_EmptySet
      <4>3. wakes[f] \in {0, 1}
        OBVIOUS
      <4> QED BY <3>2, <4>2, <4>3
    <3> QED BY <3>1, <3>2
  <2>4. wakes' = [f \in Fibers |-> wakes[f] + Cardinality({e \in es : waiter[d][e] = f})]
    BY <2>1 DEF triggerEvent
  <2>5. wakes' = [f \in Fibers |-> IF \E e \in es : waiter[d][e] = f THEN wakes[f] + 1 ELSE wakes[f]]
    BY <2>3, <2>4
  <2>6. waiter' = [waiter EXCEPT ![d] = [e \in Event |-> IF e \in es THEN NoFiber ELSE waiter[d][e]]]
    BY <2>1 DEF triggerEvent
  <2> QED BY <2>2, <2>5, <2>6
<1> QED BY <1>1, <1>2

-----------------------------------------------------------------------------
(***************************************************************************)
(* Who waits for what.                                                     *)
(***************************************************************************)

(* A step that neither begins nor ends the waiting of f.                   *)
SameWait(f) ==
    /\ pc'[f] = "wait" <=> pc[f] = "wait"
    /\ pc[f] = "wait" => \/ call'[f] = call[f]
                         \/ /\ call[f].kind # "sleep" /\ call'[f].kind = call[f].kind
                            /\ call'[f].fd = call[f].fd /\ call'[f].event = call[f].event

SameSleeps ==
    \A t \in Timer : t.call.kind = "sleep" => (t \in timers' <=> t \in timers) /\ (t \in due' <=> t \in due)

LEMMA SleepKeeps ==
    ASSUME TypeInv, SleepInv, SameSleeps, timers' \subseteq Timer, due' \subseteq Timer,
           \A f \in Fibers : SameWait(f)
    PROVE  SleepInv' /\ \A f \in Fibers : Sleeping(f)' <=> Sleeping(f)
<1>1. \A t \in timers \cup due : t \in Timer /\ t.fiber \in Fibers
  BY Fields DEF TypeInv
<1>2. \A t \in timers' \cup due' : t \in Timer /\ t.fiber \in Fibers
  BY Fields
<1>3. SleepInv'
  <2> SUFFICES ASSUME NEW t \in timers' \cup due', t.call.kind = "sleep"
               PROVE  /\ pc'[t.fiber] = "wait" /\ call'[t.fiber] = t.call
                      /\ ~(t \in timers' /\ t \in due')
    BY DEF SleepInv
  <2>1. t \in timers \cup due /\ t.fiber \in Fibers /\ ((t \in timers' /\ t \in due') => (t \in timers /\ t \in due))
    BY <1>2 DEF SameSleeps
  <2>2. pc[t.fiber] = "wait" /\ call[t.fiber] = t.call /\ ~(t \in timers /\ t \in due)
    BY <2>1 DEF SleepInv
  <2> QED BY <2>1, <2>2 DEF SameWait
<1>4. \A f \in Fibers : Sleeping(f)' <=> Sleeping(f)
  BY <1>1, <1>2 DEF SameSleeps, Sleeping
<1> QED BY <1>3, <1>4

(* Nobody sleeps and waits for an event.                                   *)
LEMMA WaitsOnce ==
    ASSUME SiteInv, SleepInv, NEW f \in Fibers, Waiting(f)
    PROVE  ~Sleeping(f) /\ pc[f] = "wait"
<1>1. pc[f] = "wait" /\ call[f].kind \in {"io", "connect"}
  BY DEF SiteInv, Waiting
<1>2. Sleeping(f) => call[f].kind = "sleep"
  BY DEF SleepInv, Sleeping
<1> QED BY <1>1, <1>2

LEMMA QuietKeeps ==
    ASSUME SiteInv, WakeInv, UNCHANGED <<wakes, waiter>>,
           \A f \in Fibers : SameWait(f) /\ (Sleeping(f)' <=> Sleeping(f))
    PROVE  SiteInv' /\ WakeInv'
<1>1. SiteInv'
  BY DEF SiteInv, SameWait
<1>2. \A f \in Fibers : Waiting(f)' <=> Waiting(f)
  BY DEF Waiting
<1>3. WakeInv'
  BY <1>2 DEF WakeInv, SameWait
<1> QED BY <1>1, <1>3

LEMMA TriggerKeeps ==
    ASSUME TypeInv, SiteInv, SleepInv, WakeInv, NEW d \in Fds, NEW es \in SUBSET Event, Trigger(d, es),
           \A f \in Fibers : SameWait(f) /\ (Sleeping(f)' <=> Sleeping(f))
    PROVE  /\ SiteInv' /\ WakeInv'
           /\ wakes' \in [Fibers -> {0, 1}] /\ waiter' \in [Fds -> [Event -> Fibers \cup {NoFiber}]]
<1>1. CASE UNCHANGED <<wakes, waiter>>
  BY <1>1, QuietKeeps DEF TypeInv
<1>2. CASE /\ wakes' = [f \in Fibers |-> IF \E e \in es : waiter[d][e] = f THEN wakes[f] + 1 ELSE wakes[f]]
           /\ waiter' = [waiter EXCEPT ![d] = [e \in Event |-> IF e \in es THEN NoFiber ELSE waiter[d][e]]]
  <2>1. /\ waiter' \in [Fds -> [Event -> Fibers \cup {NoFiber}]]
        /\ \A x \in Fds, y \in Event : waiter'[x][y] = IF x = d /\ y \in es THEN NoFiber ELSE waiter[x][y]
    BY <1>2 DEF TypeInv
  <2>2. \A x \in Fds, y \in Event, f \in Fibers : waiter'[x][y] = f <=> waiter[x][y] = f /\ ~(x = d /\ y \in es)
    BY <2>1, NullAssumption
  <2>3. SiteInv'
    BY <2>2 DEF SiteInv, SameWait
  <2>4. ASSUME NEW f \in Fibers
        PROVE  wakes'[f] \in {0, 1} /\ (wakes'[f] = 1 <=> pc'[f] = "wait" /\ ~Waiting(f)' /\ ~Sleeping(f)')
    <3>1. wakes[f] \in {0, 1} /\ (wakes[f] = 1 <=> pc[f] = "wait" /\ ~Waiting(f) /\ ~Sleeping(f))
      BY DEF TypeInv, WakeInv
    <3>2. CASE \E e \in es : waiter[d][e] = f
      <4>1. Waiting(f)
        BY <3>2 DEF Waiting
      <4>2. wakes[f] = 0 /\ pc[f] = "wait" /\ ~Sleeping(f)
        BY <3>1, <4>1, WaitsOnce
      <4>3. wakes'[f] = 1
        BY <1>2, <3>2, <4>2
      <4>4. ~Waiting(f)'
        BY <2>2, <3>2 DEF Waiting, SiteInv
      <4> QED BY <4>2, <4>3, <4>4 DEF SameWait
    <3>3. CASE ~\E e \in es : waiter[d][e] = f
      <4>1. wakes'[f] = wakes[f]
        BY <1>2, <3>3
      <4>2. Waiting(f)' <=> Waiting(f)
        BY <2>2, <3>3 DEF Waiting
      <4> QED BY <3>1, <4>1, <4>2 DEF SameWait
    <3> QED BY <3>2, <3>3
  <2>5. wakes' \in [Fibers -> {0, 1}]
    BY <1>2, <2>4
  <2> QED BY <2>1, <2>3, <2>4, <2>5 DEF WakeInv
<1> QED BY <1>1, <1>2, TriggerCases

-----------------------------------------------------------------------------
(***************************************************************************)
(* What the steps of one fiber do to its place and its call.               *)
(***************************************************************************)

(* Nobody else's place and call change.                                    *)
OnlyOf(f) ==
    /\ pc' = [pc EXCEPT ![f] = pc'[f]] /\ pc'[f] \in FiberPC
    /\ call' = [call EXCEPT ![f] = call'[f]] /\ call'[f] \in Call

(* From where to where, and with which call.                               *)
Moves(f) ==
    \/ /\ pc[f] = "try" /\ pc'[f] \in {"timer", "event"} /\ call'[f] = call[f]
    \/ /\ pc[f] = "timer" /\ pc'[f] = "event" /\ call'[f] = call[f]
    \/ /\ pc[f] = "event" /\ pc'[f] \in {"failed", "wait"} /\ call'[f] = call[f]
    \/ /\ pc[f] = "wait" /\ pc'[f] = "woken" /\ call'[f] = call[f]
    \/ /\ pc[f] \in {"woken", "failed"} /\ pc'[f] \in {"try", "check"} /\ call'[f] = call[f]
       /\ pc[f] = "woken" => call[f].kind # "sleep"
    \/ /\ pc[f] = "closeDel" /\ pc'[f] = "closeFd" /\ call'[f] = call[f]
    \/ /\ pc[f] \in {"try", "woken", "failed", "check", "closeFd"} /\ pc'[f] = "run" /\ call'[f] = NoCall

LEMMA StepForm ==
    ASSUME TypeInv, NEW f \in Fibers, Step(f)
    PROVE  OnlyOf(f) /\ Moves(f) /\ UNCHANGED boundVars
<1> USE NoCallType DEF TypeInv, OnlyOf, Moves, callVars, FiberPC
<1>1. CASE Try(f)
  <2>1. CASE Return(f)
    BY <1>1, <2>1 DEF Try, Return, Goto
  <2>2. CASE Goto(f, IF call[f].timed THEN "timer" ELSE "event") /\ UNCHANGED call
    BY <1>1, <2>2 DEF Try, Goto
  <2> QED BY <1>1, <2>1, <2>2 DEF Try
<1>2. CASE addConditionTimer(f)
  BY <1>2 DEF addConditionTimer, Goto
<1>3. CASE addEvent(f)
  <2>1. pc[f] = "event" /\ (Goto(f, "failed") \/ Goto(f, "wait")) /\ UNCHANGED <<call, boundVars>>
    BY <1>3 DEF addEvent
  <2> QED BY <2>1 DEF Goto
<1>4. CASE Resume(f)
  BY <1>4 DEF Resume, Goto
<1>5. CASE Woken(f)
  BY <1>5 DEF Woken, Goto, Return, Again
<1>6. CASE Failed(f)
  BY <1>6 DEF Failed, Goto, Return, Again
<1>7. CASE Check(f)
  BY <1>7 DEF Check, Goto, Return
<1>8. CASE Del(f)
  BY <1>8 DEF Del, Goto
<1>9. CASE CloseFd(f)
  BY <1>9 DEF CloseFd, Goto, Return
<1> QED BY <1>1, <1>2, <1>3, <1>4, <1>5, <1>6, <1>7, <1>8, <1>9 DEF Step

(* How a call begins; socket() and accept() have returned at once.         *)
Begins(f) ==
    /\ pc[f] = "run"
    /\ \/ /\ UNCHANGED callVars /\ ids' = ids
       \/ /\ ids' = ids + 1 /\ call'[f].id = ids + 1
          /\ \/ call'[f].kind = "sleep" /\ pc'[f] = "wait"
             \/ call'[f].kind = "io" /\ call'[f].fd \in Fds /\ pc'[f] = "try"
             \/ call'[f].kind = "connect" /\ call'[f].fd \in Fds /\ pc'[f] \in {"timer", "event"}
       \/ /\ ids' = ids /\ call'[f].id = 0 /\ pc'[f] = "closeDel"
          /\ \E d \in fdCtx : call'[f].fd = d /\ \A g \in Fibers : ~Closing(g, d)

LEMMA BeginsForm ==
    ASSUME TypeInv, NEW f \in Fibers, BeginStep(f)
    PROVE  OnlyOf(f) /\ Begins(f) /\ ids' \in 0..MaxCalls /\ arrivals' = arrivals /\ closes' \in 0..MaxCloses
<1> USE BoundAssumption DEF TypeInv, OnlyOf, Begins, callVars, boundVars, FiberPC, Goto
<1>1. ASSUME NEW state, NEW what, NewFd(f, state, what)
      PROVE  OnlyOf(f) /\ Begins(f) /\ ids' \in 0..MaxCalls /\ arrivals' = arrivals /\ closes' \in 0..MaxCloses
  BY <1>1 DEF NewFd
<1>2. ASSUME sleep(f)
      PROVE  OnlyOf(f) /\ Begins(f) /\ ids' \in 0..MaxCalls /\ arrivals' = arrivals /\ closes' \in 0..MaxCloses
  <2>1. Begin(f, "sleep", NoFd, "READ", TRUE) /\ pc' = [pc EXCEPT ![f] = "wait"]
    BY <1>2 DEF sleep
  <2>2. "sleep" \in Kind /\ "READ" \in Event /\ NoFd \in Fds \cup {NoFd} /\ TRUE \in BOOLEAN
    BY DEF Kind, Event
  <2> HIDE DEF TypeInv
  <2>3. ASSUME NEW d \in Fds \cup {NoFd}, NEW e \in Event, NEW timed \in BOOLEAN,
               Begin(f, "sleep", d, e, timed)
        PROVE  /\ pc[f] = "run" /\ ids' = ids + 1 /\ ids' \in 0..MaxCalls /\ UNCHANGED <<arrivals, closes>>
               /\ \E c \in Call : call' = [call EXCEPT ![f] = c] /\ c.id = ids + 1 /\ c.kind = "sleep"
    BY <2>2, <2>3, BeginForm
  <2> USE DEF TypeInv
  <2> QED BY <2>1, <2>2, <2>3
<1>3. ASSUME NEW d \in Fds, NEW e \in Event, do_io(f, d, e)
      PROVE  OnlyOf(f) /\ Begins(f) /\ ids' \in 0..MaxCalls /\ arrivals' = arrivals /\ closes' \in 0..MaxCloses
  <2>1. PICK timed \in BOOLEAN : Begin(f, "io", d, e, timed) /\ pc' = [pc EXCEPT ![f] = "try"]
    BY <1>3 DEF do_io, Timed
  <2>2. "io" \in Kind /\ d \in Fds \cup {NoFd}
    BY DEF Kind
  <2> HIDE DEF TypeInv
  <2>3. /\ pc[f] = "run" /\ ids' = ids + 1 /\ ids' \in 0..MaxCalls /\ UNCHANGED <<arrivals, closes>>
        /\ \E c \in Call : call' = [call EXCEPT ![f] = c] /\ c.id = ids + 1 /\ c.kind = "io" /\ c.fd = d
    BY <2>1, <2>2, BeginForm
  <2> USE DEF TypeInv
  <2> QED BY <2>1, <2>3
<1>4. ASSUME NEW d \in Fds, connect(f, d)
      PROVE  OnlyOf(f) /\ Begins(f) /\ ids' \in 0..MaxCalls /\ arrivals' = arrivals /\ closes' \in 0..MaxCloses
  <2>1. PICK timed \in BOOLEAN : /\ Begin(f, "connect", d, "WRITE", timed)
                                 /\ pc' = [pc EXCEPT ![f] = IF timed THEN "timer" ELSE "event"]
    BY <1>4 DEF connect
  <2>2. "connect" \in Kind /\ "WRITE" \in Event /\ d \in Fds \cup {NoFd}
    BY DEF Kind, Event
  <2> HIDE DEF TypeInv
  <2>3. /\ pc[f] = "run" /\ ids' = ids + 1 /\ ids' \in 0..MaxCalls /\ UNCHANGED <<arrivals, closes>>
        /\ \E c \in Call : call' = [call EXCEPT ![f] = c] /\ c.id = ids + 1 /\ c.kind = "connect" /\ c.fd = d
    BY <2>1, <2>2, BeginForm
  <2> USE DEF TypeInv
  <2> QED BY <2>1, <2>3
<1>5. ASSUME NEW d \in Fds, close(f, d)
      PROVE  OnlyOf(f) /\ Begins(f) /\ ids' \in 0..MaxCalls /\ arrivals' = arrivals /\ closes' \in 0..MaxCloses
  <2> DEFINE c == [NoCall EXCEPT !.kind = "close", !.fd = d]
  <2>1. /\ call' = [call EXCEPT ![f] = c] /\ pc' = [pc EXCEPT ![f] = "closeDel"] /\ pc[f] = "run"
        /\ d \in fdCtx /\ \A g \in Fibers : ~Closing(g, d)
        /\ closes' = closes + 1 /\ closes < MaxCloses /\ UNCHANGED <<ids, arrivals>>
    BY <1>5 DEF close
  <2>2. c \in Call /\ c.id = 0 /\ c.fd = d
    BY DEF NoCall, Call, Kind, Event
  <2> HIDE DEF c
  <2>3. call'[f] = c
    BY <2>1
  <2>4. OnlyOf(f)
    BY <2>1, <2>2
  <2>5. Begins(f)
    BY <2>1, <2>2, <2>3
  <2> QED BY <2>1, <2>4, <2>5
<1> QED BY <1>1, <1>2, <1>3, <1>4, <1>5 DEF BeginStep

(* The steps that are no fiber's change a call only by cancelling it.      *)
LEMMA OutsideForm ==
    ASSUME TypeInv, OutsideStep
    PROVE  /\ UNCHANGED <<pc, fdCtx, open, ids, closes>> /\ arrivals' \in 0..MaxArrivals
           /\ call' \in [Fibers -> Call]
           /\ \A f \in Fibers : /\ call'[f].id = call[f].id /\ call'[f].kind = call[f].kind
                                /\ call'[f].fd = call[f].fd /\ call'[f].event = call[f].event
<1> USE DEF TypeInv, callVars, kernelVars, ioVars, boundVars
<1>1. CASE call' = call
  <2>1. ASSUME NEW d \in Fds, NEW e \in Event, Arrive(d, e)
        PROVE  UNCHANGED <<pc, fdCtx, open, ids, closes>> /\ arrivals' \in 0..MaxArrivals
    BY <2>1, BoundAssumption DEF Arrive
  <2>2. ASSUME NEW d \in Fds, NEW outcome, Connected(d, outcome)
        PROVE  UNCHANGED <<pc, fdCtx, open, ids, closes, arrivals>>
    BY <2>2 DEF Connected
  <2>3. ASSUME NEW d \in Fds, epoll_wait(d) \/ HandleEvent(d)
        PROVE  UNCHANGED <<pc, fdCtx, open, ids, closes, arrivals>>
    BY <2>3 DEF epoll_wait, HandleEvent
  <2>4. ASSUME NEW t, Expire(t) \/ Callback(t) \/ CancelEvent(t)
        PROVE  UNCHANGED <<pc, fdCtx, open, ids, closes, arrivals>>
    BY <2>4 DEF Expire, Callback, CancelEvent
  <2>5. UNCHANGED <<pc, fdCtx, open, ids, closes>> /\ arrivals' \in 0..MaxArrivals
    BY <2>1, <2>2, <2>3, <2>4 DEF OutsideStep
  <2> QED BY <1>1, <2>5
<1>2. ASSUME NEW t \in due, Callback(t), call' # call
      PROVE  /\ UNCHANGED <<pc, fdCtx, open, ids, closes>> /\ arrivals' \in 0..MaxArrivals
             /\ call' \in [Fibers -> Call]
             /\ \A f \in Fibers : /\ call'[f].id = call[f].id /\ call'[f].kind = call[f].kind
                                  /\ call'[f].fd = call[f].fd /\ call'[f].event = call[f].event
  <2>1. t.fiber \in Fibers
    BY Fields
  <2>2. call' = [call EXCEPT ![t.fiber] = [call[t.fiber] EXCEPT !.cancelled = TRUE]]
    BY <1>2 DEF Callback
  <2>3. ASSUME NEW c \in Call
        PROVE  /\ [c EXCEPT !.cancelled = TRUE] \in Call /\ [c EXCEPT !.cancelled = TRUE].id = c.id
               /\ [c EXCEPT !.cancelled = TRUE].kind = c.kind /\ [c EXCEPT !.cancelled = TRUE].fd = c.fd
               /\ [c EXCEPT !.cancelled = TRUE].event = c.event
    BY DEF Call
  <2>4. call[t.fiber] \in Call
    BY <2>1
  <2>5. PICK c \in Call : /\ call' = [call EXCEPT ![t.fiber] = c]
                          /\ c.id = call[t.fiber].id /\ c.kind = call[t.fiber].kind
                          /\ c.fd = call[t.fiber].fd /\ c.event = call[t.fiber].event
    BY <2>2, <2>3, <2>4
  <2>6. UNCHANGED <<pc, fdCtx, open, ids, closes, arrivals>>
    BY <1>2 DEF Callback
  <2> QED BY <2>1, <2>5, <2>6
<1>3. CASE call' # call
  BY <1>2, <1>3 DEF OutsideStep, Arrive, Connected, epoll_wait, HandleEvent, Expire, CancelEvent
<1> QED BY <1>1, <1>3

-----------------------------------------------------------------------------
(***************************************************************************)
(* What a step does to the call of each fiber, and to the timers.          *)
(***************************************************************************)
SameCall(f) == /\ call'[f].id = call[f].id /\ call'[f].kind = call[f].kind
               /\ call'[f].fd = call[f].fd /\ call'[f].event = call[f].event

(* A call goes on, ends, or is new, with an id no earlier call has had.    *)
LEMMA CallChange ==
    ASSUME TypeInv, [Next]_vars
    PROVE  /\ ids' >= ids
           /\ \A f \in Fibers : SameCall(f) \/ call'[f].id = 0 \/ call'[f].id = ids + 1
<1> USE DEF SameCall
<1>0. ids \in Nat
  BY BoundAssumption DEF TypeInv
<1>1. CASE OutsideStep
  BY <1>0, <1>1, OutsideForm
<1>2. ASSUME NEW g \in Fibers, BeginStep(g)
      PROVE  ids' >= ids /\ \A f \in Fibers : SameCall(f) \/ call'[f].id = 0 \/ call'[f].id = ids + 1
  <2>1. OnlyOf(g) /\ Begins(g)
    BY <1>2, BeginsForm
  <2>2. \A f \in Fibers : f # g => call'[f] = call[f]
    BY <2>1 DEF OnlyOf, TypeInv
  <2>3. SameCall(g) \/ call'[g].id = 0 \/ call'[g].id = ids + 1
    BY <2>1 DEF Begins, callVars
  <2>4. ids' >= ids
    BY <1>0, <2>1 DEF Begins
  <2> QED BY <2>2, <2>3, <2>4
<1>3. ASSUME NEW g \in Fibers, Step(g)
      PROVE  ids' >= ids /\ \A f \in Fibers : SameCall(f) \/ call'[f].id = 0 \/ call'[f].id = ids + 1
  <2>1. OnlyOf(g) /\ Moves(g) /\ ids' = ids
    BY <1>3, StepForm DEF boundVars
  <2>2. \A f \in Fibers : f # g => call'[f] = call[f]
    BY <2>1 DEF OnlyOf, TypeInv
  <2>3. SameCall(g) \/ call'[g].id = 0
    BY <2>1, NoCallType DEF Moves
  <2> QED BY <1>0, <2>1, <2>2, <2>3
<1>4. CASE UNCHANGED vars
  BY <1>0, <1>4 DEF vars, callVars, boundVars
<1> QED BY <1>1, <1>2, <1>3, <1>4, StepCases

(* A timer is alive no longer than the call it was armed for.              *)
LEMMA AliveKeeps ==
    ASSUME TypeInv, [Next]_vars, NEW t \in Timer, t.call.id \in 1..ids, Alive(t)'
    PROVE  Alive(t) /\ call'[t.fiber].kind = call[t.fiber].kind
<1>1. t.fiber \in Fibers /\ ids \in Nat
  BY Fields, BoundAssumption DEF TypeInv
<1>2. call'[t.fiber].id = t.call.id
  BY DEF Alive
<1>3. SameCall(t.fiber)
  BY <1>1, <1>2, CallChange
<1> QED BY <1>2, <1>3 DEF SameCall, Alive

(* The timers; sleep() is in the call it begins, the others in their own.  *)
TimersOf(f) ==
    \/ UNCHANGED timerVars /\ pc[f] \notin {"woken", "failed"}
    \/ /\ pc[f] = "timer" /\ pc'[f] = "event" /\ call'[f] = call[f]
       /\ NewTimer(f, call[f]) /\ UNCHANGED <<due, cancelling>>
    \/ /\ pc[f] = "run" /\ pc'[f] = "wait" /\ call'[f].id = ids + 1 /\ call'[f].kind = "sleep" /\ ids' = ids + 1
       /\ NewTimer(f, call'[f]) /\ UNCHANGED <<due, cancelling>>
    \/ pc[f] \in {"woken", "failed"} /\ timers' = timers \ Mine(f) /\ UNCHANGED <<due, cancelling>>

LEMMA TimersForm ==
    ASSUME TypeInv, NEW f \in Fibers, BeginStep(f) \/ Step(f)
    PROVE  TimersOf(f)
<1> USE DEF timerVars
<1>1. CASE addConditionTimer(f)
  BY <1>1 DEF addConditionTimer, TimersOf, TypeInv, Goto
<1>2. CASE Woken(f) \/ Failed(f)
  BY <1>2 DEF Woken, Failed, TimersOf
<1>3. CASE sleep(f)
  <2>1. Begins(f) /\ OnlyOf(f)
    BY <1>3, BeginsForm DEF BeginStep
  <2>2. NewTimer(f, call'[f]) /\ UNCHANGED <<due, cancelling>> /\ pc[f] = "run" /\ pc'[f] = "wait" /\ ids' = ids + 1
    BY <1>3 DEF sleep, Goto, Begin, TypeInv
  <2>3. ids' # ids
    BY <2>2, BoundAssumption DEF TypeInv
  <2>4. call'[f].id = ids + 1 /\ call'[f].kind = "sleep"
    BY <2>1, <2>2, <2>3 DEF Begins
  <2> QED BY <2>2, <2>4 DEF TimersOf
<1>4. CASE Try(f) \/ addEvent(f) \/ Resume(f) \/ Check(f) \/ Del(f) \/ CloseFd(f)
  BY <1>4 DEF Try, addEvent, Resume, Check, Del, CloseFd, TimersOf
<1>5. ASSUME NEW state, NEW what, NewFd(f, state, what) PROVE TimersOf(f)
  BY <1>5 DEF NewFd, TimersOf
<1>6. ASSUME NEW d, NEW e, do_io(f, d, e) PROVE TimersOf(f)
  BY <1>6 DEF do_io, Begin, TimersOf
<1>7. ASSUME NEW d, connect(f, d) \/ close(f, d) PROVE TimersOf(f)
  <2>1. UNCHANGED timerVars /\ pc[f] = "run"
    BY <1>7 DEF connect, close, Begin
  <2> QED BY <2>1 DEF TimersOf
<1> QED BY <1>1, <1>2, <1>3, <1>4, <1>5, <1>6, <1>7 DEF BeginStep, Step

-----------------------------------------------------------------------------
(***************************************************************************)
(* Types.                                                                  *)
(***************************************************************************)
RestOfTypes ==
    /\ pc \in [Fibers -> FiberPC] /\ call \in [Fibers -> Call]
    /\ fdCtx \subseteq Fds /\ open \subseteq Fds
    /\ timers \subseteq Timer /\ due \subseteq Timer /\ cancelling \subseteq Timer
    /\ ready \in [Fds -> SUBSET Event] /\ watched \in [Fds -> SUBSET Event]
    /\ snapshot \in [Fds -> SUBSET Event]
    /\ conn \in [Fds -> {"new", "connecting", "connected", "failed"}]
    /\ ids \in 0..MaxCalls /\ arrivals \in 0..MaxArrivals /\ closes \in 0..MaxCloses

KernelTypes ==
    /\ fdCtx \subseteq Fds /\ open \subseteq Fds
    /\ ready \in [Fds -> SUBSET Event] /\ watched \in [Fds -> SUBSET Event]
    /\ snapshot \in [Fds -> SUBSET Event]
    /\ conn \in [Fds -> {"new", "connecting", "connected", "failed"}]

LEMMA KernelTypeStep == IInv /\ [Next]_vars => KernelTypes'
<1> SUFFICES ASSUME TypeInv, SiteInv, TimerInv, [Next]_vars PROVE KernelTypes'
  BY DEF IInv
<1>0. KernelTypes
  BY DEF TypeInv, KernelTypes
<1>1. ASSUME NEW d \in Fds, NEW e \in Event, Arrive(d, e) PROVE KernelTypes'
  BY <1>0, <1>1 DEF Arrive, KernelTypes, ioVars
<1>2. ASSUME NEW d \in Fds, NEW outcome \in {"connected", "failed"}, Connected(d, outcome) PROVE KernelTypes'
  <2>1. {"WRITE"} \in SUBSET Event /\ outcome \in {"new", "connecting", "connected", "failed"}
    BY DEF Event
  <2>2. PICK es \in SUBSET Event : ready' = [ready EXCEPT ![d] = es]
    BY <1>2, <2>1 DEF Connected
  <2>3. conn' = [conn EXCEPT ![d] = outcome] /\ UNCHANGED <<fdCtx, open, watched, snapshot>>
    BY <1>2 DEF Connected, ioVars
  <2> QED BY <1>0, <2>1, <2>2, <2>3 DEF KernelTypes
<1>3. ASSUME NEW d \in Fds, epoll_wait(d) PROVE KernelTypes'
  BY <1>0, <1>3 DEF epoll_wait, KernelTypes, ioVars
<1>4. ASSUME NEW d \in Fds, NEW es \in SUBSET Event, Trigger(d, es),
             UNCHANGED <<fdCtx, open, ready, conn>>, snapshot' \in [Fds -> SUBSET Event]
      PROVE  KernelTypes'
  BY <1>0, <1>4, TriggerCases DEF KernelTypes
<1>5. ASSUME NEW d \in Fds, HandleEvent(d) PROVE KernelTypes'
  <2>1. snapshot[d] \in SUBSET Event
    BY DEF TypeInv
  <2>2. Trigger(d, snapshot[d]) /\ UNCHANGED <<fdCtx, open, ready, conn>> /\ snapshot' = [snapshot EXCEPT ![d] = {}]
    BY <1>5 DEF HandleEvent
  <2> QED BY <1>4, <2>1, <2>2 DEF TypeInv
<1>6. ASSUME NEW t \in timers \cup due \cup cancelling, Expire(t) \/ Callback(t) PROVE KernelTypes'
  BY <1>0, <1>6 DEF Expire, Callback, KernelTypes, kernelVars, ioVars
<1>7. ASSUME NEW t \in cancelling, CancelEvent(t) PROVE KernelTypes'
  <2>1. t.call.fd \in Fds /\ {t.call.event} \in SUBSET Event
    BY Fields DEF TimerInv, TimerOK, TypeInv
  <2>2. Trigger(t.call.fd, {t.call.event}) /\ UNCHANGED <<fdCtx, open, ready, conn, snapshot>>
    BY <1>7 DEF CancelEvent
  <2> QED BY <1>0, <1>4, <2>1, <2>2 DEF KernelTypes
<1>8. CASE OutsideStep
  BY <1>1, <1>2, <1>3, <1>5, <1>6, <1>7, <1>8 DEF OutsideStep
<1>9. ASSUME NEW f \in Fibers, BeginStep(f) PROVE KernelTypes'
  <2>1. ASSUME NEW state \in {"new", "connected"}, NEW what \in SUBSET Event, NewFd(f, state, what)
        PROVE  KernelTypes'
    BY <1>0, <2>1 DEF NewFd, KernelTypes
  <2>2. CASE sleep(f)
    BY <1>0, <2>2 DEF sleep, KernelTypes, kernelVars, ioVars
  <2>3. ASSUME NEW d \in Fds, NEW e \in Event, do_io(f, d, e) PROVE KernelTypes'
    BY <1>0, <2>3 DEF do_io, KernelTypes, kernelVars, ioVars
  <2>4. ASSUME NEW d \in Fds, connect(f, d) PROVE KernelTypes'
    <3>1. /\ conn' = [conn EXCEPT ![d] = "connecting"] /\ ready' = [ready EXCEPT ![d] = {}]
          /\ UNCHANGED <<fdCtx, open, watched, snapshot>>
      BY <2>4 DEF connect, ioVars
    <3> QED BY <1>0, <3>1 DEF KernelTypes
  <2>5. ASSUME NEW d \in Fds, close(f, d) PROVE KernelTypes'
    <3>1. Trigger(d, Event) /\ UNCHANGED <<fdCtx, open, ready, conn, snapshot>>
      BY <2>5 DEF close
    <3> QED BY <1>0, <1>4, <3>1 DEF KernelTypes
  <2> QED BY <1>9, <2>1, <2>2, <2>3, <2>4, <2>5 DEF BeginStep
<1>10. ASSUME NEW f \in Fibers, Step(f) PROVE KernelTypes'
  <2>1. CASE Try(f)
    BY <1>0, <2>1 DEF Try, KernelTypes, ioVars
  <2>2. CASE addEvent(f)
    <3>1. UNCHANGED <<fdCtx, open, ready, conn, snapshot>>
      BY <2>2 DEF addEvent
    <3>2. call[f].event \in Event
      BY Fields DEF TypeInv
    <3>3. watched' \in [Fds -> SUBSET Event]
      BY <1>0, <2>2, <3>2 DEF addEvent, KernelTypes, Registered
    <3> QED BY <1>0, <3>1, <3>3 DEF KernelTypes
  <2>3. CASE addConditionTimer(f) \/ Resume(f) \/ Woken(f) \/ Failed(f) \/ Check(f)
    BY <1>0, <2>3 DEF addConditionTimer, Resume, Woken, Failed, Check, KernelTypes, kernelVars, ioVars
  <2>4. CASE Del(f)
    BY <1>0, <2>4 DEF Del, KernelTypes, kernelVars
  <2>5. CASE CloseFd(f)
    BY <1>0, <2>5 DEF CloseFd, KernelTypes, ioVars
  <2> QED BY <1>10, <2>1, <2>2, <2>3, <2>4, <2>5 DEF Step
<1>11. CASE UNCHANGED vars
  BY <1>0, <1>11 DEF vars, kernelVars, ioVars, KernelTypes
<1> QED BY <1>8, <1>9, <1>10, <1>11, StepCases

LEMMA TypeStep == IInv /\ [Next]_vars => RestOfTypes'
<1> SUFFICES ASSUME TypeInv, TimerInv, CallInv, [Next]_vars, KernelTypes' PROVE RestOfTypes'
  BY KernelTypeStep DEF IInv
<1>1. CASE OutsideStep
  <2>1. /\ UNCHANGED <<pc, ids, closes>> /\ arrivals' \in 0..MaxArrivals /\ call' \in [Fibers -> Call]
    BY <1>1, OutsideForm
  <2>2. timers' \subseteq Timer /\ due' \subseteq Timer /\ cancelling' \subseteq Timer
    <3>1. ASSUME NEW t, Expire(t)
          PROVE timers' \subseteq Timer /\ due' \subseteq Timer /\ cancelling' \subseteq Timer
      BY <3>1 DEF Expire, TypeInv
    <3>2. ASSUME NEW t, Callback(t)
          PROVE timers' \subseteq Timer /\ due' \subseteq Timer /\ cancelling' \subseteq Timer
      BY <3>2 DEF Callback, TypeInv
    <3>3. ASSUME NEW t, CancelEvent(t)
          PROVE timers' \subseteq Timer /\ due' \subseteq Timer /\ cancelling' \subseteq Timer
      BY <3>3 DEF CancelEvent, TypeInv
    <3>4. ASSUME ~\E t \in timers \cup due \cup cancelling : Expire(t) \/ Callback(t) \/ CancelEvent(t)
          PROVE  UNCHANGED timerVars
      BY <1>1, <3>4 DEF OutsideStep, Arrive, Connected, epoll_wait, HandleEvent
    <3> QED BY <3>1, <3>2, <3>3, <3>4 DEF TypeInv, timerVars
  <2> QED BY <2>1, <2>2 DEF RestOfTypes, TypeInv, KernelTypes
<1>2. ASSUME NEW f \in Fibers, BeginStep(f) \/ Step(f) PROVE RestOfTypes'
  <2>1. OnlyOf(f) /\ ids' \in 0..MaxCalls /\ arrivals' \in 0..MaxArrivals /\ closes' \in 0..MaxCloses
    BY <1>2, BeginsForm, StepForm DEF boundVars, TypeInv
  <2>2. pc' \in [Fibers -> FiberPC] /\ call' \in [Fibers -> Call]
    BY <2>1 DEF OnlyOf, TypeInv
  <2>3. call[f] \in Call /\ call'[f] \in Call
    BY <2>2 DEF TypeInv
  <2>4. timers' \subseteq Timer /\ due' \subseteq Timer /\ cancelling' \subseteq Timer
    BY <1>2, <2>3, TimersForm, Fields DEF TimersOf, NewTimer, TypeInv, timerVars
  <2> QED BY <2>1, <2>2, <2>4 DEF RestOfTypes, KernelTypes
<1>3. CASE UNCHANGED vars
  BY <1>3 DEF vars, callVars, timerVars, boundVars, RestOfTypes, TypeInv, KernelTypes
<1> QED BY <1>1, <1>2, <1>3, StepCases

-----------------------------------------------------------------------------
(***************************************************************************)
(* The call a fiber is in, and its descriptor.                             *)
(***************************************************************************)
LEMMA CallStep == IInv /\ [Next]_vars => CallInv'
<1> SUFFICES ASSUME TypeInv, CallInv, [Next]_vars, NEW f \in Fibers PROVE CallOK(f)'
  BY DEF IInv, CallInv
<1>0. CallOK(f) /\ ids \in Nat /\ call[f].id \in Nat
  BY Fields, BoundAssumption DEF CallInv, TypeInv
<1>1. ids' >= ids
  BY CallChange
<1>2. CASE OutsideStep
  BY <1>0, <1>2, OutsideForm DEF CallOK
<1>3. ASSUME NEW g \in Fibers, BeginStep(g) \/ Step(g), g # f PROVE CallOK(f)'
  <2>1. pc'[f] = pc[f] /\ call'[f] = call[f] /\ ids' \in Nat
    BY <1>3, BeginsForm, StepForm, BoundAssumption DEF OnlyOf, TypeInv, boundVars
  <2> QED BY <1>0, <1>1, <2>1 DEF CallOK
<1>4. CASE BeginStep(f)
  <2>1. OnlyOf(f) /\ Begins(f) /\ ids' \in Nat
    BY <1>4, BeginsForm, BoundAssumption
  <2>2. CASE UNCHANGED callVars
    BY <1>0, <1>1, <2>1, <2>2 DEF CallOK, callVars
  <2>3. CASE ids' = ids + 1 /\ call'[f].id = ids + 1 /\ pc[f] = "run"
    BY <1>0, <2>1, <2>3 DEF CallOK, Begins, InCall, InClose, callVars
  <2>4. CASE ids' = ids /\ call'[f].id = 0 /\ pc'[f] = "closeDel"
    BY <1>0, <2>4 DEF CallOK, InCall, InClose
  <2> QED BY <2>1, <2>2, <2>3, <2>4 DEF Begins
<1>5. CASE Step(f)
  <2>1. Moves(f) /\ ids' = ids
    BY <1>5, StepForm DEF boundVars
  <2>2. CASE call'[f] = call[f]
    BY <1>0, <2>1, <2>2 DEF CallOK, Moves, InCall, InClose
  <2>3. CASE call'[f] = NoCall /\ pc'[f] = "run"
    BY <1>0, <2>1, <2>3, NoCallType DEF CallOK, InCall, InClose
  <2> QED BY <2>1, <2>2, <2>3 DEF Moves
<1>6. CASE UNCHANGED vars
  BY <1>0, <1>6 DEF vars, callVars, boundVars, CallOK
<1> QED BY <1>2, <1>3, <1>4, <1>5, <1>6, StepCases

(* Which descriptors have a context, and which are open.                   *)
DescriptorsOf(f) ==
    \/ UNCHANGED <<fdCtx, open>> /\ pc[f] \notin InClose
    \/ /\ pc[f] = "run" /\ UNCHANGED callVars
       /\ \E d \in Fds \ open : open' = open \cup {d} /\ fdCtx' = fdCtx \cup {d}
    \/ pc[f] = "closeDel" /\ fdCtx' = fdCtx \ {call[f].fd} /\ open' = open
    \/ pc[f] = "closeFd" /\ fdCtx' = fdCtx /\ open' = open \ {call[f].fd} /\ pc'[f] = "run"

LEMMA DescriptorsForm ==
    ASSUME TypeInv, NEW f \in Fibers, BeginStep(f) \/ Step(f)
    PROVE  DescriptorsOf(f)
<1> USE DEF ioVars, kernelVars, InClose
<1>1. CASE Del(f)
  BY <1>1 DEF Del, DescriptorsOf
<1>2. CASE CloseFd(f)
  BY <1>2 DEF CloseFd, DescriptorsOf, Return, Goto, TypeInv
<1>3. ASSUME NEW state, NEW what, NewFd(f, state, what) PROVE DescriptorsOf(f)
  BY <1>3 DEF NewFd, DescriptorsOf
<1>4. CASE \/ Try(f) \/ addConditionTimer(f) \/ addEvent(f) \/ Resume(f) \/ Woken(f) \/ Failed(f)
           \/ Check(f)
  BY <1>4 DEF Try, addConditionTimer, addEvent, Resume, Woken, Failed, Check, DescriptorsOf
<1>5. CASE sleep(f)
  BY <1>5 DEF sleep, Begin, DescriptorsOf
<1>6. ASSUME NEW d, NEW e, do_io(f, d, e) PROVE DescriptorsOf(f)
  BY <1>6 DEF do_io, Begin, DescriptorsOf
<1>7. ASSUME NEW d, connect(f, d) \/ close(f, d) PROVE DescriptorsOf(f)
  <2>1. UNCHANGED <<fdCtx, open>> /\ pc[f] = "run"
    BY <1>7 DEF connect, close, Begin
  <2> QED BY <2>1 DEF DescriptorsOf
<1> QED BY <1>1, <1>2, <1>3, <1>4, <1>5, <1>6, <1>7 DEF BeginStep, Step

LEMMA CloseStep == IInv /\ [Next]_vars => CloseInv'
<1> SUFFICES ASSUME TypeInv, CloseInv, [Next]_vars PROVE CloseInv'
  BY DEF IInv
<1>1. CASE UNCHANGED <<pc, fdCtx, open>> /\ \A f \in Fibers : call'[f].fd = call[f].fd
  BY <1>1 DEF CloseInv, CloseOK, Closing
<1>2. ASSUME NEW f \in Fibers, BeginStep(f) \/ Step(f) PROVE CloseInv'
  <2>1. OnlyOf(f) /\ DescriptorsOf(f) /\ (Begins(f) \/ Moves(f))
    BY <1>2, BeginsForm, StepForm, DescriptorsForm
  <2>2. \A g \in Fibers : g # f => pc'[g] = pc[g] /\ call'[g] = call[g]
    BY <2>1 DEF OnlyOf, TypeInv
  <2>3. fdCtx \subseteq open /\ \A g \in Fibers : CloseOK(g)
    BY DEF CloseInv
  <2>4. fdCtx' \subseteq open'
    BY <2>1, <2>3 DEF DescriptorsOf, CloseOK, InClose
  (* Who closes a descriptor: as before, or f begins to, and nobody else did. *)
  <2>5. ASSUME NEW g \in Fibers, NEW d, Closing(g, d)'
        PROVE  \/ Closing(g, d)
               \/ /\ g = f /\ d \in fdCtx /\ open' = open /\ pc'[f] = "closeDel"
                  /\ \A h \in Fibers : ~Closing(h, d)
    <3>1. CASE g # f
      BY <2>2, <2>5, <3>1 DEF Closing
    <3>2. CASE g = f /\ Moves(f)
      BY <2>5, <3>2 DEF Closing, Moves
    <3>3. CASE g = f /\ Begins(f)
      <4>1. pc[f] = "run" /\ pc'[f] \in {"closeDel", "closeFd"} /\ call'[f].fd = d
        BY <2>5, <3>3 DEF Begins, Closing
      <4>2. pc'[f] = "closeDel" /\ d \in fdCtx /\ \A h \in Fibers : ~Closing(h, d)
        BY <3>3, <4>1 DEF Begins, callVars
      <4>3. open' = open
        BY <2>1, <4>1 DEF DescriptorsOf, callVars
      <4> QED BY <3>3, <4>2, <4>3
    <3> QED BY <2>1, <3>1, <3>2, <3>3
  <2>6. ASSUME NEW g \in Fibers, (pc[g] \in InClose)' PROVE CloseOK(g)'
    <3>1. pc'[g] \in {"closeDel", "closeFd"}
      BY <2>6 DEF InClose
    <3>2. CASE /\ g = f /\ call'[g].fd \in fdCtx /\ open' = open /\ pc'[f] = "closeDel"
               /\ \A h \in Fibers : ~Closing(h, call'[g].fd)
      BY <2>3, <2>5, <3>2 DEF CloseOK
    <3>3. CASE Closing(g, call'[g].fd)
      <4>1. call'[g].fd = call[g].fd /\ pc[g] \in InClose
        BY <3>3 DEF Closing, InClose
      <4>2. /\ call[g].fd \in open /\ (pc[g] = "closeFd" => call[g].fd \notin fdCtx)
            /\ \A h \in Fibers : Closing(h, call[g].fd) => h = g
        BY <2>3, <4>1 DEF CloseOK
      <4>3. \A h \in Fibers : Closing(h, call[g].fd)' => h = g
        BY <2>5, <3>3, <4>1, <4>2
      <4>4. call[g].fd \in open'
        <5>1. CASE pc[f] = "closeFd" /\ open' = open \ {call[f].fd} /\ pc'[f] = "run"
          <6>1. g # f
            BY <2>6, <5>1 DEF InClose
          <6>2. Closing(f, call[f].fd) /\ ~Closing(f, call[g].fd)
            BY <4>2, <5>1, <6>1 DEF Closing
          <6> QED BY <4>2, <5>1, <6>2
        <5> QED BY <2>1, <4>2, <5>1 DEF DescriptorsOf
      <4>5. pc'[g] = "closeFd" => call[g].fd \notin fdCtx'
        <5>1. SUFFICES ASSUME pc'[g] = "closeFd" PROVE call[g].fd \notin fdCtx'
          OBVIOUS
        <5>2. CASE g = f
          <6>1. pc[f] = "closeDel"
            BY <2>1, <4>1, <5>1, <5>2 DEF Moves, Begins, InClose
          <6> QED BY <2>1, <5>2, <6>1 DEF DescriptorsOf, InClose
        <5>3. CASE g # f
          <6>1. call[g].fd \notin fdCtx /\ call[g].fd \in open
            BY <2>2, <4>2, <5>1, <5>3
          <6> QED BY <2>1, <6>1 DEF DescriptorsOf
        <5> QED BY <5>2, <5>3
      <4> QED BY <4>1, <4>3, <4>4, <4>5 DEF CloseOK
    <3>4. PICK d : d = call'[g].fd
      OBVIOUS
    <3>5. Closing(g, d)'
      BY <3>1, <3>4 DEF Closing
    <3> QED BY <2>5, <3>2, <3>3, <3>4, <3>5
  <2> QED BY <2>4, <2>6 DEF CloseInv, CloseOK
<1> QED BY <1>1, <1>2, StepCases, OutsideForm DEF vars, callVars, ioVars, kernelVars

-----------------------------------------------------------------------------
(***************************************************************************)
(* The timers.                                                             *)
(***************************************************************************)
LEMMA TimerStepKeeps == IInv /\ [Next]_vars => TimerInv' /\ NoTimerLeft'
<1> SUFFICES ASSUME TypeInv, CallInv, TimerInv, NoTimerLeft, [Next]_vars, RestOfTypes'
             PROVE  TimerInv' /\ NoTimerLeft'
  BY TypeStep DEF IInv
<1>0. ids' >= ids /\ ids \in Nat /\ ids' \in Nat
  BY CallChange, BoundAssumption DEF TypeInv, RestOfTypes
(* Whatever is kept stays what it was.                                     *)
<1>1. ASSUME NEW t \in timers \cup due \cup cancelling PROVE TimerOK(t)'
  <2>1. t \in Timer /\ TimerOK(t)
    BY DEF TypeInv, TimerInv
  <2>2. t.call.id \in 1..ids'
    BY <1>0, <2>1, Fields DEF TimerOK
  <2>3. Alive(t)' => call'[t.fiber].kind = t.call.kind
    BY <2>1, AliveKeeps DEF TimerOK
  <2> QED BY <2>1, <2>2, <2>3 DEF TimerOK
<1>2. CASE OutsideStep
  <2>1. /\ timers' \cup due' \cup cancelling' \subseteq timers \cup due \cup cancelling /\ timers' \subseteq timers
        /\ \A t \in cancelling' : t \in cancelling \/ t.call.kind # "sleep"
    <3>1. ASSUME NEW t \in timers \cup due \cup cancelling, Expire(t) \/ Callback(t) \/ CancelEvent(t)
          PROVE  /\ timers' \cup due' \cup cancelling' \subseteq timers \cup due \cup cancelling /\ timers' \subseteq timers
                 /\ \A u \in cancelling' : u \in cancelling \/ u.call.kind # "sleep"
      BY <3>1 DEF Expire, Callback, CancelEvent
    <3>2. ASSUME ~\E t \in timers \cup due \cup cancelling : Expire(t) \/ Callback(t) \/ CancelEvent(t)
          PROVE  UNCHANGED timerVars
      BY <1>2, <3>2 DEF OutsideStep, Arrive, Connected, epoll_wait, HandleEvent
    <3> QED BY <3>1, <3>2 DEF timerVars
  <2>2. TimerInv'
    BY <1>1, <2>1 DEF TimerInv
  <2>3. UNCHANGED pc /\ \A f \in Fibers : call'[f].id = call[f].id
    BY <1>2, OutsideForm
  <2>4. NoTimerLeft'
    <3> SUFFICES ASSUME NEW t \in timers' PROVE Alive(t)' /\ pc'[t.fiber] \in {"event", "wait", "woken", "failed"}
      BY DEF NoTimerLeft
    <3>1. t \in timers /\ t.fiber \in Fibers
      BY <2>1, Fields DEF TypeInv
    <3> QED BY <2>3, <3>1 DEF NoTimerLeft, Alive
  <2> QED BY <2>2, <2>4
<1>3. ASSUME NEW f \in Fibers, BeginStep(f) \/ Step(f) PROVE TimerInv' /\ NoTimerLeft'
  <2>1. OnlyOf(f) /\ TimersOf(f) /\ (Begins(f) \/ Moves(f))
    BY <1>3, BeginsForm, StepForm, TimersForm
  <2>2. \A g \in Fibers : g # f => pc'[g] = pc[g] /\ call'[g] = call[g]
    BY <2>1 DEF OnlyOf, TypeInv
  <2>3. call[f] \in Call /\ call'[f] \in Call
    BY <2>1 DEF OnlyOf, TypeInv
  (* The new timer, if there is one.                                       *)
  <2>4. ASSUME NEW c \in Call, call'[f] = c, pc'[f] \in {"event", "wait"}, c.id \in 1..ids',
               c.kind # "sleep" => c.fd \in Fds, NEW t, t = [fiber |-> f, call |-> c]
        PROVE  TimerOK(t)' /\ Alive(t)' /\ pc'[t.fiber] \in {"event", "wait", "woken", "failed"}
    BY <2>4, Fields DEF TimerOK, Alive
  (* What is kept of the others.                                           *)
  <2>5. ASSUME NEW t \in timers, t \in timers'
        PROVE  Alive(t)' /\ pc'[t.fiber] \in {"event", "wait", "woken", "failed"}
    <3>1. t.fiber \in Fibers /\ Alive(t) /\ pc[t.fiber] \in {"event", "wait", "woken", "failed"}
      BY Fields DEF TypeInv, NoTimerLeft
    <3>2. CASE t.fiber # f
      BY <2>2, <3>1, <3>2 DEF Alive
    <3>3. CASE t.fiber = f
      <4>1. pc[f] # "run"
        BY <3>1, <3>3
      <4>2. pc[f] \notin {"woken", "failed"}
        BY <2>1, <2>5, <3>1, <3>3 DEF TimersOf, Mine
      <4>3. Moves(f) /\ pc[f] \in {"event", "wait"}
        BY <2>1, <3>1, <3>3, <4>1, <4>2 DEF Begins
      <4>4. call'[f] = call[f] /\ pc'[f] \in {"failed", "wait", "woken"}
        BY <4>3 DEF Moves
      <4> QED BY <3>1, <3>3, <4>4 DEF Alive
    <3> QED BY <3>2, <3>3
  <2>6. CASE UNCHANGED timerVars
    BY <1>1, <2>5, <2>6 DEF timerVars, TimerInv, NoTimerLeft
  <2>7. CASE /\ pc[f] = "timer" /\ pc'[f] = "event" /\ call'[f] = call[f]
             /\ NewTimer(f, call[f]) /\ UNCHANGED <<due, cancelling>>
    <3>1. call[f].id \in 1..ids' /\ call[f].fd \in Fds
      BY <1>0, <2>3, <2>7, Fields DEF CallInv, CallOK, InCall
    <3>2. \A t \in timers' : t \in timers \/ t = [fiber |-> f, call |-> call[f]]
      BY <2>7 DEF NewTimer
    <3> QED BY <1>1, <2>3, <2>4, <2>5, <2>7, <3>1, <3>2 DEF TimerInv, NoTimerLeft
  <2>8. CASE /\ pc[f] = "run" /\ pc'[f] = "wait" /\ call'[f].id = ids + 1 /\ call'[f].kind = "sleep" /\ ids' = ids + 1
             /\ NewTimer(f, call'[f]) /\ UNCHANGED <<due, cancelling>>
    <3>1. call'[f].id \in 1..ids'
      BY <1>0, <2>8
    <3>2. \A t \in timers' : t \in timers \/ t = [fiber |-> f, call |-> call'[f]]
      BY <2>8 DEF NewTimer
    <3> QED BY <1>1, <2>3, <2>4, <2>5, <2>8, <3>1, <3>2 DEF TimerInv, NoTimerLeft
  <2>9. CASE timers' = timers \ Mine(f) /\ UNCHANGED <<due, cancelling>>
    BY <1>1, <2>5, <2>9 DEF TimerInv, NoTimerLeft
  <2> QED BY <2>1, <2>6, <2>7, <2>8, <2>9 DEF TimersOf
<1>4. CASE UNCHANGED vars
  <2>1. UNCHANGED timerVars /\ UNCHANGED callVars
    BY <1>4 DEF vars
  <2>2. TimerInv'
    BY <1>1, <2>1 DEF timerVars, TimerInv
  <2> QED BY <2>1, <2>2 DEF timerVars, callVars, NoTimerLeft, Alive
<1> QED BY <1>2, <1>3, <1>4, StepCases

-----------------------------------------------------------------------------
(***************************************************************************)
(* Who waits, step by step.                                                *)
(***************************************************************************)
WaitTypes == wakes \in [Fibers -> {0, 1}] /\ waiter \in [Fds -> [Event -> Fibers \cup {NoFiber}]]

WaitInv == SiteInv /\ SleepInv /\ WakeInv /\ WaitTypes

(* A step that nobody begins or ends to wait in ...                        *)
LEMMA QuietStep ==
    ASSUME IInv, RestOfTypes', UNCHANGED <<wakes, waiter>>, SameSleeps, \A f \in Fibers : SameWait(f)
    PROVE  WaitInv'
<1>1. SleepInv' /\ \A f \in Fibers : Sleeping(f)' <=> Sleeping(f)
  BY SleepKeeps DEF IInv, RestOfTypes
<1>2. SiteInv' /\ WakeInv'
  BY <1>1, QuietKeeps DEF IInv
<1> QED BY <1>1, <1>2 DEF WaitInv, WaitTypes, IInv, TypeInv

(* ... and one that triggers events.                                       *)
LEMMA TriggerStep ==
    ASSUME IInv, RestOfTypes', NEW d \in Fds, NEW es \in SUBSET Event, Trigger(d, es),
           SameSleeps, \A f \in Fibers : SameWait(f)
    PROVE  WaitInv'
<1>1. SleepInv' /\ \A f \in Fibers : Sleeping(f)' <=> Sleeping(f)
  BY SleepKeeps DEF IInv, RestOfTypes
<1>2. TypeInv /\ SiteInv /\ SleepInv /\ WakeInv
  BY DEF IInv
<1>3. SiteInv' /\ WakeInv' /\ WaitTypes'
  BY <1>1, <1>2, TriggerKeeps DEF WaitTypes
<1> QED BY <1>1, <1>3 DEF WaitInv

LEMMA OutsideWait ==
    ASSUME IInv, RestOfTypes', OutsideStep
    PROVE  WaitInv'
<1>0. /\ TypeInv /\ TimerInv /\ SiteInv /\ SleepInv /\ WakeInv
      /\ WaitTypes /\ \A f \in Fibers : wakes[f] \in {0, 1}
  BY DEF IInv, TypeInv, WaitTypes
<1>1. ASSUME NEW d \in Fds,
             \/ \E e \in Event : Arrive(d, e)
             \/ \E outcome \in {"connected", "failed"} : Connected(d, outcome)
             \/ epoll_wait(d)
      PROVE  WaitInv'
  <2>1. UNCHANGED <<pc, call, wakes, waiter, timers, due>>
    BY <1>1 DEF Arrive, Connected, epoll_wait, callVars, ioVars, timerVars
  <2>2. SameSleeps /\ \A f \in Fibers : SameWait(f)
    BY <2>1 DEF SameSleeps, SameWait
  <2> QED BY <2>1, <2>2, QuietStep
<1>2. ASSUME NEW d \in Fds, HandleEvent(d) PROVE WaitInv'
  <2>1. UNCHANGED <<pc, call, timers, due>> /\ Trigger(d, snapshot[d])
    BY <1>2 DEF HandleEvent, callVars, timerVars
  <2>2. SameSleeps /\ \A f \in Fibers : SameWait(f)
    BY <2>1 DEF SameSleeps, SameWait
  <2>3. snapshot[d] \in SUBSET Event
    BY <1>0 DEF TypeInv
  <2> QED BY <2>1, <2>2, <2>3, TriggerStep
<1>3. ASSUME NEW t \in timers, Expire(t) PROVE WaitInv'
  <2>1. UNCHANGED <<pc, call, wakes, waiter>> /\ timers' = timers \ {t} /\ due' = due \cup {t}
    BY <1>3 DEF Expire, callVars, ioVars
  <2>2. timers' \cup due' = timers \cup due
    BY <2>1
  <2>3. SleepInv'
    BY <1>0, <2>1, <2>2 DEF SleepInv
  <2>4. SiteInv' /\ WakeInv' /\ WaitTypes'
    BY <1>0, <2>1, <2>2 DEF SiteInv, WakeInv, WaitTypes, Waiting, Sleeping
  <2> QED BY <2>3, <2>4 DEF WaitInv
<1>4. ASSUME NEW t \in due, Callback(t), t.call.kind # "sleep" PROVE WaitInv'
  <2>1. t.fiber \in Fibers /\ TimerOK(t)
    BY <1>0, Fields DEF TypeInv, TimerInv
  <2>2. UNCHANGED <<pc, wakes, waiter, timers>> /\ due' = due \ {t}
    BY <1>4 DEF Callback
  <2>3. call' # call => Alive(t)
    BY <1>4 DEF Callback
  <2>4. \A f \in Fibers : SameCall(f) /\ (f # t.fiber => call'[f] = call[f])
    BY <1>0, <1>4, OutsideForm DEF SameCall, Callback, TypeInv
  <2>5. \A f \in Fibers : SameWait(f)
    BY <2>1, <2>2, <2>3, <2>4, <1>4 DEF SameWait, SameCall, TimerOK
  <2>6. SameSleeps
    BY <1>4, <2>2 DEF SameSleeps
  <2> QED BY <2>2, <2>5, <2>6, QuietStep
<1>5. ASSUME NEW t \in due, Callback(t), t.call.kind = "sleep" PROVE WaitInv'
  <2>1. t \in Timer /\ t.fiber \in Fibers
    BY <1>0, Fields DEF TypeInv
  <2>2. UNCHANGED <<pc, call, waiter, timers>> /\ due' = due \ {t} /\ wakes' = [wakes EXCEPT ![t.fiber] = wakes[t.fiber] + 1]
    BY <1>5 DEF Callback
  <2>3. pc[t.fiber] = "wait" /\ call[t.fiber] = t.call /\ t \notin timers
    BY <1>0, <1>5 DEF SleepInv
  <2>4. Sleeping(t.fiber) /\ ~Waiting(t.fiber)
    BY <1>0, <1>5, <2>1, WaitsOnce DEF Sleeping
  <2>5. wakes[t.fiber] = 0
    BY <1>0, <2>1, <2>4 DEF WakeInv
  <2>6. \A u \in timers' \cup due' : u.fiber = t.fiber => u.call.kind # "sleep"
    <3> SUFFICES ASSUME NEW u \in timers' \cup due', u.fiber = t.fiber, u.call.kind = "sleep" PROVE FALSE
      OBVIOUS
    <3>1. u \in timers \cup due /\ u # t /\ u \in Timer
      BY <1>0, <2>2, <2>3 DEF TypeInv
    <3>2. call[u.fiber] = u.call
      BY <1>0, <3>1 DEF SleepInv
    <3> QED BY <2>1, <2>3, <3>1, <3>2, Fields
  <2>7. SleepInv'
    BY <1>0, <2>2 DEF SleepInv
  <2>8. SiteInv' /\ \A f \in Fibers : Waiting(f)' <=> Waiting(f)
    BY <1>0, <2>2 DEF SiteInv, Waiting
  <2>9. ~Sleeping(t.fiber)' /\ \A f \in Fibers : f # t.fiber => (Sleeping(f)' <=> Sleeping(f))
    BY <2>2, <2>6 DEF Sleeping
  <2>10. WaitTypes' /\ wakes'[t.fiber] = 1 /\ \A f \in Fibers : f # t.fiber => wakes'[f] = wakes[f]
    BY <1>0, <2>1, <2>2, <2>5 DEF WaitTypes
  <2>11. WakeInv'
    BY <1>0, <2>1, <2>2, <2>3, <2>4, <2>8, <2>9, <2>10 DEF WakeInv
  <2> QED BY <2>7, <2>8, <2>10, <2>11 DEF WaitInv
<1>6. ASSUME NEW t \in cancelling, CancelEvent(t) PROVE WaitInv'
  <2>1. UNCHANGED <<pc, call, timers, due>> /\ Trigger(t.call.fd, {t.call.event})
    BY <1>6 DEF CancelEvent, callVars
  <2>2. SameSleeps /\ \A f \in Fibers : SameWait(f)
    BY <2>1 DEF SameSleeps, SameWait
  <2>3. t.call.fd \in Fds /\ {t.call.event} \in SUBSET Event
    BY <1>0, Fields DEF TimerInv, TimerOK, TypeInv
  <2> QED BY <2>1, <2>2, <2>3, TriggerStep
<1> QED BY <1>1, <1>2, <1>3, <1>4, <1>5, <1>6 DEF OutsideStep

(* A fiber that neither waits nor begins to, like all the others.          *)
LEMMA OwnQuiet ==
    ASSUME IInv, NEW f \in Fibers, OnlyOf(f), TimersOf(f), pc[f] # "wait", pc'[f] # "wait"
    PROVE  SameSleeps /\ \A g \in Fibers : SameWait(g)
<1>1. \A g \in Fibers : SameWait(g)
  BY DEF OnlyOf, SameWait, IInv, TypeInv
<1>2. ASSUME NEW t \in Timer, t.call.kind = "sleep"
      PROVE  (t \in timers' <=> t \in timers) /\ (t \in due' <=> t \in due)
  <2>1. CASE UNCHANGED timerVars
    BY <2>1 DEF timerVars
  <2>2. CASE pc[f] = "timer" /\ NewTimer(f, call[f]) /\ UNCHANGED <<due, cancelling>>
    <3>1. call[f] \in Call /\ call[f].kind # "sleep"
      BY <2>2 DEF IInv, TypeInv, CallInv, CallOK, InCall
    <3>2. t # [fiber |-> f, call |-> call[f]]
      BY <1>2, <3>1, Fields
    <3> QED BY <2>2, <3>2 DEF NewTimer
  <2>3. CASE pc[f] \in {"woken", "failed"} /\ timers' = timers \ Mine(f) /\ UNCHANGED <<due, cancelling>>
    <3>1. t \in timers => t.fiber # f
      BY <1>2, <2>3 DEF IInv, SleepInv
    <3> QED BY <2>3, <3>1 DEF Mine
  <2> QED BY <2>1, <2>2, <2>3 DEF TimersOf
<1> QED BY <1>1, <1>2 DEF SameSleeps

LEMMA OwnWait ==
    ASSUME IInv, RestOfTypes', NEW f \in Fibers, BeginStep(f) \/ Step(f)
    PROVE  WaitInv'
<1>0. /\ TypeInv /\ CallInv /\ TimerInv /\ SiteInv /\ SleepInv /\ WakeInv
      /\ WaitTypes /\ \A g \in Fibers : wakes[g] \in {0, 1}
  BY DEF IInv, TypeInv, WaitTypes
<1>1. OnlyOf(f) /\ TimersOf(f)
  BY <1>0, BeginsForm, StepForm, TimersForm
<1>2. \A g \in Fibers : g # f => pc'[g] = pc[g] /\ call'[g] = call[g]
  BY <1>0, <1>1 DEF OnlyOf, TypeInv
<1>3. CASE sleep(f)
  <2>1. /\ pc[f] = "run" /\ pc'[f] = "wait" /\ NewTimer(f, call'[f]) /\ UNCHANGED <<wakes, waiter, due>>
    BY <1>0, <1>3 DEF sleep, Begin, Goto, TypeInv, ioVars
  <2>2. Begins(f) /\ ids' = ids + 1 /\ ids \in Nat
    <3>1. BeginStep(f)
      BY <1>3 DEF BeginStep
    <3>2. ids' = ids + 1
      BY <1>3 DEF sleep, Begin
    <3> QED BY <1>0, <3>1, <3>2, BeginsForm, BoundAssumption DEF TypeInv
  <2>3. call'[f].id = ids + 1 /\ call'[f].kind = "sleep" /\ call'[f] \in Call
    BY <1>1, <2>1, <2>2 DEF Begins, OnlyOf
  <2>4. PICK t \in Timer : t.fiber = f /\ t.call = call'[f] /\ timers' = timers \cup {t}
    BY <2>1, <2>3, Fields DEF NewTimer
  <2>5. \A u \in timers \cup due : u.call.kind = "sleep" => u.fiber # f
    BY <1>0, <2>1 DEF SleepInv
  <2>6. t \notin due
    BY <2>3, <2>4, <2>5
  <2>7. wakes[f] = 0 /\ ~Waiting(f)
    BY <1>0, <2>1 DEF WakeInv, SiteInv, Waiting
  <2>8. \A u \in timers \cup due : u.fiber \in Fibers
    BY <1>0, Fields DEF TypeInv
  <2>9. SleepInv'
    <3> SUFFICES ASSUME NEW u \in timers' \cup due', u.call.kind = "sleep"
                 PROVE  /\ pc'[u.fiber] = "wait" /\ call'[u.fiber] = u.call
                        /\ ~(u \in timers' /\ u \in due')
      BY DEF SleepInv
    <3>1. CASE u = t
      BY <2>1, <2>4, <2>6, <3>1
    <3>2. CASE u # t
      <4>1. u \in timers \cup due /\ u.fiber # f /\ (u \in timers' => u \in timers) /\ (u \in due' => u \in due)
        BY <2>1, <2>4, <2>5, <3>2
      <4>2. pc[u.fiber] = "wait" /\ call[u.fiber] = u.call /\ ~(u \in timers /\ u \in due)
        BY <1>0, <4>1 DEF SleepInv
      <4> QED BY <1>2, <2>8, <4>1, <4>2
    <3> QED BY <3>1, <3>2
  <2>10. SiteInv'
    BY <1>0, <1>2, <2>1 DEF SiteInv
  <2>11. \A g \in Fibers : (Waiting(g)' <=> Waiting(g)) /\ (g # f => (Sleeping(g)' <=> Sleeping(g)))
    BY <2>1, <2>4 DEF Waiting, Sleeping
  <2>12. Sleeping(f)'
    BY <2>3, <2>4 DEF Sleeping
  <2>13. WakeInv'
    BY <1>0, <1>2, <2>1, <2>7, <2>11, <2>12 DEF WakeInv
  <2> QED BY <1>0, <2>1, <2>9, <2>10, <2>13 DEF WaitInv, WaitTypes
<1>4. CASE Resume(f)
  <2>1. /\ pc[f] = "wait" /\ pc'[f] = "woken" /\ wakes[f] > 0
        /\ wakes' = [wakes EXCEPT ![f] = wakes[f] - 1] /\ UNCHANGED <<waiter, timers, due>>
    BY <1>0, <1>4 DEF Resume, Goto, TypeInv, timerVars
  <2>2. wakes[f] = 1 /\ ~Waiting(f) /\ ~Sleeping(f)
    BY <1>0, <2>1 DEF WakeInv
  <2>3. WaitTypes' /\ wakes'[f] = 0 /\ \A g \in Fibers : g # f => wakes'[g] = wakes[g]
    BY <1>0, <2>1, <2>2 DEF WaitTypes
  <2>4. \A g \in Fibers : (Waiting(g)' <=> Waiting(g)) /\ (Sleeping(g)' <=> Sleeping(g))
    BY <2>1 DEF Waiting, Sleeping
  <2>5. SiteInv'
    BY <1>0, <1>2, <2>1, <2>2 DEF SiteInv, Waiting
  <2>6. SleepInv'
    <3>1. \A u \in timers \cup due : u.fiber \in Fibers /\ (u.call.kind = "sleep" => u.fiber # f)
      BY <1>0, <2>2, Fields DEF TypeInv, Sleeping
    <3> QED BY <1>0, <1>2, <2>1, <3>1 DEF SleepInv
  <2>7. WakeInv'
    BY <1>0, <1>2, <2>1, <2>2, <2>3, <2>4 DEF WakeInv
  <2> QED BY <2>3, <2>5, <2>6, <2>7 DEF WaitInv
<1>5. CASE addEvent(f)
  <2>0. /\ pc[f] = "event" /\ call[f].fd \in Fds /\ call[f].event \in Event
        /\ call[f].kind \in {"io", "connect"} /\ UNCHANGED <<call, wakes, timers, due>>
    BY <1>0, <1>5, Fields DEF addEvent, CallInv, CallOK, InCall, TypeInv, timerVars
  <2>1. CASE Goto(f, "failed") /\ UNCHANGED waiter
    <3>1. pc'[f] = "failed"
      BY <1>0, <2>1 DEF Goto, TypeInv
    <3>2. SameSleeps /\ \A g \in Fibers : SameWait(g)
      BY <1>1, <2>0, <3>1, OwnQuiet
    <3> QED BY <2>0, <2>1, <3>2, QuietStep
  <2>2. CASE /\ call[f].event \notin Registered(call[f].fd) /\ Goto(f, "wait")
             /\ waiter' = [waiter EXCEPT ![call[f].fd][call[f].event] = f]
    <3>1. PICK d \in Fds, e \in Event : d = call[f].fd /\ e = call[f].event
      BY <2>0
    <3>2. waiter[d][e] = NoFiber /\ pc'[f] = "wait" /\ waiter' = [waiter EXCEPT ![d][e] = f]
      BY <1>0, <2>2, <3>1 DEF Registered, Goto, TypeInv
    <3>3. /\ waiter' \in [Fds -> [Event -> Fibers \cup {NoFiber}]]
          /\ \A x \in Fds, y \in Event : waiter'[x][y] = IF x = d /\ y = e THEN f ELSE waiter[x][y]
      BY <1>0, <3>2 DEF WaitTypes
    <3>4. ~Waiting(f) /\ ~Sleeping(f) /\ wakes[f] = 0
      BY <1>0, <2>0, Fields DEF SiteInv, SleepInv, WakeInv, Waiting, Sleeping
    <3>5. \A g \in Fibers : /\ g # f => (Waiting(g)' <=> Waiting(g))
                            /\ Sleeping(g)' <=> Sleeping(g)
      BY <2>0, <3>2, <3>3, NullAssumption DEF Waiting, Sleeping
    <3>6. Waiting(f)'
      BY <3>3 DEF Waiting
    <3>7. SiteInv'
      <4> SUFFICES ASSUME NEW x \in Fds, NEW y \in Event, NEW g \in Fibers, waiter'[x][y] = g
                   PROVE  /\ pc'[g] = "wait" /\ call'[g].kind \in {"io", "connect"}
                          /\ call'[g].fd = x /\ call'[g].event = y
        BY DEF SiteInv
      <4>1. CASE x = d /\ y = e
        BY <2>0, <3>1, <3>2, <3>3, <4>1
      <4>2. CASE ~(x = d /\ y = e)
        <5>1. waiter[x][y] = g /\ g # f
          BY <3>3, <3>4, <4>2 DEF Waiting
        <5> QED BY <1>0, <1>2, <5>1 DEF SiteInv
      <4> QED BY <4>1, <4>2
    <3>8. SleepInv'
      <4>1. \A u \in timers \cup due : u.fiber \in Fibers /\ (u.call.kind = "sleep" => u.fiber # f)
        BY <1>0, <3>4, Fields DEF TypeInv, Sleeping
      <4> QED BY <1>0, <1>2, <2>0, <4>1 DEF SleepInv
    <3>9. WakeInv'
      <4>1. ASSUME NEW g \in Fibers, g # f
            PROVE  wakes'[g] = 1 <=> pc'[g] = "wait" /\ ~Waiting(g)' /\ ~Sleeping(g)'
        <5>1. wakes[g] = 1 <=> pc[g] = "wait" /\ ~Waiting(g) /\ ~Sleeping(g)
          BY <1>0 DEF WakeInv
        <5>2. wakes'[g] = wakes[g] /\ pc'[g] = pc[g]
          BY <1>2, <2>0, <4>1
        <5>3. (Waiting(g)' <=> Waiting(g)) /\ (Sleeping(g)' <=> Sleeping(g))
          BY <3>5, <4>1
        <5> QED BY <5>1, <5>2, <5>3
      <4>2. wakes'[f] # 1 /\ Waiting(f)'
        BY <2>0, <3>4, <3>6
      <4> QED BY <4>1, <4>2 DEF WakeInv
    <3> QED BY <1>0, <2>0, <3>3, <3>7, <3>8, <3>9 DEF WaitInv, WaitTypes
  <2> QED BY <1>5, <2>1, <2>2 DEF addEvent
<1>6. ASSUME NEW d \in Fds, close(f, d) PROVE WaitInv'
  <2>1. pc[f] = "run" /\ pc'[f] = "closeDel" /\ Trigger(d, Event)
    BY <1>0, <1>6 DEF close, Goto, TypeInv
  <2>2. SameSleeps /\ \A g \in Fibers : SameWait(g)
    BY <1>1, <2>1, OwnQuiet
  <2> QED BY <2>1, <2>2, TriggerStep
<1>7. ASSUME UNCHANGED <<wakes, waiter>>, pc[f] # "wait", pc'[f] # "wait"
      PROVE  WaitInv'
  <2>1. SameSleeps /\ \A g \in Fibers : SameWait(g)
    BY <1>1, <1>7, OwnQuiet
  <2> QED BY <1>7, <2>1, QuietStep
<1>8. CASE Try(f) \/ addConditionTimer(f) \/ Woken(f) \/ Failed(f) \/ Check(f) \/ Del(f) \/ CloseFd(f)
  <2>1. UNCHANGED <<wakes, waiter>>
    BY <1>8 DEF Try, addConditionTimer, Woken, Failed, Check, Del, CloseFd, ioVars
  <2>2. pc[f] \notin {"wait", "event"}
    BY <1>8 DEF Try, addConditionTimer, Woken, Failed, Check, Del, CloseFd
  <2>3. Moves(f)
    BY <1>0, <1>8, StepForm DEF Step
  <2>4. pc'[f] # "wait"
    BY <2>2, <2>3 DEF Moves
  <2> QED BY <1>7, <2>1, <2>2, <2>4
<1>9. ASSUME NEW state, NEW what, NewFd(f, state, what) PROVE WaitInv'
  <2>1. UNCHANGED <<wakes, waiter>> /\ pc[f] = "run" /\ pc'[f] = "run"
    BY <1>9 DEF NewFd, callVars
  <2> QED BY <1>7, <2>1
<1>10. ASSUME NEW d, NEW e, do_io(f, d, e) PROVE WaitInv'
  <2>1. UNCHANGED <<wakes, waiter>> /\ pc[f] = "run" /\ pc'[f] = "try"
    BY <1>0, <1>10 DEF do_io, Begin, Goto, ioVars, TypeInv
  <2> QED BY <1>7, <2>1
<1>11. ASSUME NEW d, connect(f, d) PROVE WaitInv'
  <2>1. UNCHANGED <<wakes, waiter>> /\ pc[f] = "run" /\ pc'[f] \in {"timer", "event"}
    BY <1>0, <1>11 DEF connect, Begin, Goto, ioVars, TypeInv
  <2> QED BY <1>7, <2>1
<1> QED BY <1>3, <1>4, <1>5, <1>6, <1>8, <1>9, <1>10, <1>11 DEF BeginStep, Step

LEMMA WaitStep == IInv /\ [Next]_vars => WaitInv'
<1> SUFFICES ASSUME IInv, [Next]_vars, RestOfTypes' PROVE WaitInv'
  BY TypeStep
<1>1. CASE UNCHANGED vars
  <2>1. UNCHANGED <<pc, call, wakes, waiter, timers, due>>
    BY <1>1 DEF vars, callVars, ioVars, timerVars
  <2>2. SameSleeps /\ \A f \in Fibers : SameWait(f)
    BY <2>1 DEF SameSleeps, SameWait
  <2> QED BY <2>1, <2>2, QuietStep
<1> QED BY <1>1, OutsideWait, OwnWait, StepCases

-----------------------------------------------------------------------------
(***************************************************************************)
(* The theorems.                                                           *)
(***************************************************************************)
LEMMA InitIInv == Init => IInv
<1> SUFFICES ASSUME Init PROVE IInv
  OBVIOUS
<1>1. TypeInv
  BY NoCallType, BoundAssumption DEF Init, TypeInv, FiberPC
<1>2. CallInv /\ CloseInv
  BY NoCallType, BoundAssumption DEF Init, CallInv, CallOK, CloseInv, CloseOK, InCall, InClose
<1>3. TimerInv /\ NoTimerLeft /\ SleepInv
  BY DEF Init, TimerInv, NoTimerLeft, SleepInv
<1>4. SiteInv
  BY NullAssumption DEF Init, SiteInv
<1>5. WakeInv
  BY DEF Init, WakeInv
<1> QED BY <1>1, <1>2, <1>3, <1>4, <1>5 DEF IInv

(* The inductive invariant: where each fiber is in its call and what, if   *)
(* it waits, will wake it; the types of every variable with it.            *)
THEOREM Inductive == Spec => []IInv
<1>1. IInv /\ [Next]_vars => IInv'
  BY TypeStep, CallStep, CloseStep, TimerStepKeeps, WaitStep
     DEF IInv, WaitInv, WaitTypes, TypeInv, RestOfTypes
<1> QED BY <1>1, InitIInv, PTL DEF Spec

(* Every variable keeps its type: a descriptor has a context only while it *)
(* is open, and no timer belongs to a call nobody has made.                *)
THEOREM TypeCorrect == Spec => []TypeOK
<1>1. IInv => TypeOK
  <2> SUFFICES ASSUME IInv PROVE TypeOK
    OBVIOUS
  <2>1. TypeInv /\ CallInv /\ CloseInv /\ TimerInv
    BY DEF IInv
  <2>2. \A f \in Fibers : call[f] \in Call /\ call[f].id \in 0..ids
    BY <2>1, Fields, BoundAssumption DEF TypeInv, CallInv, CallOK
  <2>3. \A t \in timers \cup due \cup cancelling : t.fiber \in Fibers /\ t.call.id \in 1..ids
    BY <2>1, Fields DEF TypeInv, TimerInv, TimerOK
  <2>4. wakes \in [Fibers -> Nat]
    BY <2>1 DEF TypeInv
  <2> QED BY <2>1, <2>2, <2>3, <2>4, Fields DEF TypeOK, TypeInv, CloseInv
<1> QED BY <1>1, Inductive, PTL

(* An armed timer belongs to a call in progress, which will cancel it:     *)
(* do_io() and connect() leave none behind, by whichever way they return.  *)
THEOREM NoTimerLeftBehind == Spec => []NoTimerLeft
<1>1. IInv => NoTimerLeft
  BY DEF IInv
<1> QED BY <1>1, Inductive, PTL

(* However an event, a timeout, a close() and a sleep() meet, a fiber that *)
(* waits will be queued by exactly one of them, and one that does not wait *)
(* by none.                                                                *)
THEOREM WokenOnce == Spec => []WakeOnce
<1>1. IInv => WakeOnce
  <2> SUFFICES ASSUME IInv, NEW f \in Fibers
               PROVE  wakes[f] + Cardinality({x \in Fds \X Event : waiter[x[1]][x[2]] = f})
                        + Cardinality({t \in timers \cup due : t.fiber = f /\ t.call.kind = "sleep"})
                      = IF pc[f] = "wait" THEN 1 ELSE 0
    BY DEF WakeOnce
  <2> DEFINE Sites == {x \in Fds \X Event : waiter[x[1]][x[2]] = f}
             Sleeps == {t \in timers \cup due : t.fiber = f /\ t.call.kind = "sleep"}
  <2>1. wakes[f] \in {0, 1} /\ (wakes[f] = 1 <=> pc[f] = "wait" /\ ~Waiting(f) /\ ~Sleeping(f))
    BY DEF IInv, TypeInv, WakeInv
  <2>2. SiteInv /\ SleepInv /\ TypeInv
    BY DEF IInv
  <2>3. CASE Waiting(f)
    <3>1. pc[f] = "wait" /\ ~Sleeping(f) /\ wakes[f] = 0
      BY <2>1, <2>2, <2>3, WaitsOnce
    <3>2. PICK d \in Fds, e \in Event : waiter[d][e] = f
      BY <2>3 DEF Waiting
    <3>3. \A x \in Fds, y \in Event : waiter[x][y] = f => x = d /\ y = e
      BY <2>2, <3>2 DEF SiteInv
    <3>4. \A x \in Fds \X Event : waiter[x[1]][x[2]] = f <=> x = <<d, e>>
      BY <3>2, <3>3
    <3>5. Sites = {<<d, e>>}
      BY <3>4
    <3>6. Cardinality(Sites) = 1
      BY <3>5, FS_Singleton
    <3>7. Sleeps = {}
      BY <3>1 DEF Sleeping
    <3>8. Cardinality(Sleeps) = 0
      BY <3>7, FS_EmptySet
    <3> HIDE DEF Sites, Sleeps
    <3>9. wakes[f] + Cardinality(Sites) + Cardinality(Sleeps) = IF pc[f] = "wait" THEN 1 ELSE 0
      BY <3>1, <3>6, <3>8
    <3> QED BY <3>9 DEF Sites, Sleeps
  <2>4. CASE ~Waiting(f)
    <3>1. Sites = {}
      <4>1. \A x \in Fds \X Event : x[1] \in Fds /\ x[2] \in Event
        OBVIOUS
      <4> QED BY <2>4, <4>1 DEF Waiting
    <3>2. Cardinality(Sites) = 0
      BY <3>1, FS_EmptySet
    <3>3. CASE Sleeping(f)
      <4>1. PICK t \in timers \cup due : t.fiber = f /\ t.call.kind = "sleep"
        BY <3>3 DEF Sleeping
      <4>2. pc[f] = "wait" /\ wakes[f] = 0 /\ call[f] = t.call
        BY <2>1, <2>2, <3>3, <4>1 DEF SleepInv
      <4>3. \A u \in timers \cup due : u.fiber = f /\ u.call.kind = "sleep" => u = t
        BY <2>2, <4>1, <4>2, Fields DEF SleepInv, TypeInv
      <4>4. Sleeps = {t}
        BY <4>1, <4>3
      <4>5. Cardinality(Sleeps) = 1
        BY <4>4, FS_Singleton
      <4> HIDE DEF Sites, Sleeps
      <4>6. wakes[f] + Cardinality(Sites) + Cardinality(Sleeps) = IF pc[f] = "wait" THEN 1 ELSE 0
        BY <3>2, <4>2, <4>5
      <4> QED BY <4>6 DEF Sites, Sleeps
    <3>4. CASE ~Sleeping(f)
      <4>1. Sleeps = {}
        BY <3>4 DEF Sleeping
      <4>2. Cardinality(Sleeps) = 0
        BY <4>1, FS_EmptySet
      <4> HIDE DEF Sites, Sleeps
      <4>3. wakes[f] + Cardinality(Sites) + Cardinality(Sleeps) = IF pc[f] = "wait" THEN 1 ELSE 0
        BY <2>1, <2>4, <3>2, <3>4, <4>2
      <4> QED BY <4>3 DEF Sites, Sleeps
    <3> QED BY <3>3, <3>4
  <2> QED BY <2>3, <2>4
<1> QED BY <1>1, Inductive, PTL
=============================================================================
