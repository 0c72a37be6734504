------------------------------ MODULE ThreadProofs ------------------------------
(***************************************************************************)
(* Theorems about the start, the life and the end of threads, for every    *)
(* number of threads and of unasked wake-ups.                              *)
(***************************************************************************)
EXTENDS Thread, TLAPS

-----------------------------------------------------------------------------
(***************************************************************************)
(* The inductive invariant.                                                *)
(***************************************************************************)

(* A new thread that still needs its object, one inside signal(), and one  *)
(* that has raised the count.                                              *)
Starting == {"born", "swap", "lock", "count", "notify", "unlock"}
Signalling == {"count", "notify", "unlock"}
Signalled == {"notify", "unlock", "call", "scan", "works", "ended"}

(* The owner inside wait(), in it with the semaphore's mutex, before the   *)
(* end of start(), and after it.                                           *)
Waiting == {"sem", "test", "sleep", "asleep", "awake", "take"}
HasMutex == {"test", "sleep", "take"}
Building == {"new", "make", "got", "threw"} \cup Waiting
Built == {"up", "join", "done"}

(* What the types do not say: the count is raised once and taken once.     *)
TypeInv ==
    /\ pc \in [Children -> ChildPC] /\ owner \in OwnerPC
    /\ now \in Children \cup {Nobody}
    /\ exists \subseteq Children
    /\ m_id \in [Children -> Children \cup {NoId}]
    /\ m_cb \in [Children -> BOOLEAN]
    /\ m_thread \in [Children -> Children \cup {NoId}]
    /\ count \in [Children -> Int]
    /\ mtx \in [Children -> Children \cup {Owner, Nobody}]
    /\ waiting \in [Children -> BOOLEAN]
    /\ m_mutex \in Children \cup {Owner, Nobody}
    /\ m_threadIds \subseteq Children \cup {NoId}
    /\ toJoin \subseteq Children
    /\ reclaimed \in [Children -> Int]
    /\ spurious \in 0..MaxSpurious

(* The constructor that runs is that of an existing object; objects are    *)
(* made before "up" and let go after it.                                   *)
NowInv ==
    /\ owner \in Waiting \cup {"got"} => now \in exists
    /\ owner \notin Waiting \cup {"got"} => now = Nobody
    /\ owner \in Building => \A c \in Children : c \in exists <=> pc[c] # "none"
    /\ owner \in Built => \A c \in Children : pc[c] # "none"

(* The holder of a semaphore's mutex is where it holds it.                 *)
MutexInv ==
    \A c \in Children :
        /\ mtx[c] = c <=> pc[c] \in Signalling
        /\ mtx[c] = Owner <=> now = c /\ owner \in HasMutex
        /\ mtx[c] \in {c, Owner, Nobody}

(* The count is 1 from SignalCount to WaitDone, and only the thread that   *)
(* is waited for has not come out of signal().                             *)
CountInv ==
    \A c \in Children :
        /\ count[c] = IF pc[c] \in Signalled /\ now = c /\ owner \in Waiting THEN 1 ELSE 0
        /\ pc[c] \in Starting => now = c /\ owner \in Waiting
        /\ owner = "take" /\ now = c => pc[c] \in Signalled

(* A thread sets m_id and takes its callback before it signals; the ids    *)
(* recorded are those of the threads whose constructors have returned.     *)
IdInv ==
    /\ \A c \in Children :
          /\ pc[c] \notin {"none", "born"} => m_id[c] = c
          /\ m_cb[c] => pc[c] \in {"born", "swap"}
    /\ owner \in Building => m_threadIds = exists \ {now}
    /\ owner \in Built => m_threadIds = Children

(* m_thread is set while the thread is neither joined nor detached, and    *)
(* the object of such a thread exists.                                     *)
ReclaimInv ==
    /\ \A c \in Children :
          /\ reclaimed[c] = IF pc[c] = "none" \/ m_thread[c] # NoId THEN 0 ELSE 1
          /\ m_thread[c] # NoId => c \in exists /\ pc[c] # "none"
          /\ c \in toJoin => m_thread[c] # NoId
    /\ owner # "join" => toJoin = {}
    /\ owner = "join" => \A c \in Children \ toJoin : pc[c] = "ended"
    /\ owner = "done" => \A c \in Children : pc[c] = "ended"
    /\ owner \in Building \cup {"up"} => \A c \in exists : m_thread[c] # NoId

IInv == TypeInv /\ NowInv /\ MutexInv /\ CountInv /\ IdInv /\ ReclaimInv
-----------------------------------------------------------------------------
(***************************************************************************)
(* The steps, part by part.                                                *)
(***************************************************************************)

(* What a step of a new thread leaves alone.                               *)
LEMMA RunFrame ==
    ASSUME TypeInv, NEW c \in Children, run(c)
    PROVE  /\ pc[c] \notin {"none", "ended"} /\ pc'[c] \notin {"none", "born"}
           /\ \A d \in Children \ {c} :
                 pc'[d] = pc[d] /\ mtx'[d] = mtx[d] /\ count'[d] = count[d] /\ m_id'[d] = m_id[d]
                 /\ m_cb'[d] = m_cb[d]
           /\ UNCHANGED <<owner, now, exists, m_thread, m_threadIds, toJoin, reclaimed, spurious>>
<1> USE DEF objectVars, semaphoreVars, schedVars, Go, TypeInv
<1>1. CASE Publish(c) \/ TakeCallback(c)
  BY <1>1 DEF Publish, TakeCallback
<1>2. CASE signal(c)
  BY <1>2 DEF signal, SignalLock, SignalCount, SignalNotify, SignalUnlock
<1>3. CASE CallLock(c) \/ CallUnlock(c) \/ CallAgain(c) \/ Return(c)
  BY <1>3 DEF CallLock, CallUnlock, CallAgain, Return
<1> QED BY <1>1, <1>2, <1>3 DEF run

LEMMA TypeStep == TypeInv /\ NowInv /\ [Next]_vars => TypeInv'
<1> SUFFICES ASSUME TypeInv, NowInv, [Next]_vars PROVE TypeInv'
  OBVIOUS
<1> USE DEF objectVars, semaphoreVars, schedVars, Go, TypeInv, ChildPC, OwnerPC, NoId
<1>1. CASE start
  <2>1. CASE StartLock \/ StartUnlock \/ CreateFails
    BY <2>1 DEF StartLock, StartUnlock, CreateFails
  <2>2. CASE WaitLock \/ WaitTest \/ WaitSleep
    BY <2>2 DEF WaitLock, WaitTest, WaitSleep
  <2>3. CASE Wake \/ WaitDone
    BY <2>3 DEF Wake, WaitDone
  <2>4. CASE RecordId
    BY <2>4 DEF RecordId, NowInv
  <2>5. ASSUME NEW c \in Children, Create(c) PROVE TypeInv'
    BY <2>5 DEF Create
  <2>6. CASE WakeUnasked
    <3>1. waiting' \in [Children -> BOOLEAN]
      BY <2>6 DEF WakeUnasked
    <3>2. spurious' \in 0..MaxSpurious
      BY <2>6, BoundAssumption DEF WakeUnasked
    <3> QED BY <2>6, <3>1, <3>2 DEF WakeUnasked
  <2> QED BY <1>1, <2>1, <2>2, <2>3, <2>4, <2>5, <2>6 DEF start, wait
<1>2. CASE stop
  <2>1. CASE StopSwap
    BY <2>1 DEF StopSwap
  <2>2. ASSUME NEW c \in Children, Join(c) PROVE TypeInv'
    BY <2>2 DEF Join
  <2>3. ASSUME NEW c \in Children, StopDestroys(c) PROVE TypeInv'
    BY <2>3 DEF StopDestroys, Destroy
  <2> QED BY <1>2, <2>1, <2>2, <2>3 DEF stop
<1>3. ASSUME NEW c \in Children, run(c) PROVE TypeInv'
  <2>1. CASE Publish(c)
    BY <2>1 DEF Publish
  <2>2. CASE TakeCallback(c)
    BY <2>2 DEF TakeCallback
  <2>3. CASE SignalLock(c) \/ SignalUnlock(c)
    BY <2>3 DEF SignalLock, SignalUnlock
  <2>4. CASE SignalCount(c)
    BY <2>4 DEF SignalCount
  <2>5. CASE CallLock(c) \/ CallUnlock(c) \/ CallAgain(c) \/ Return(c)
    BY <2>5 DEF CallLock, CallUnlock, CallAgain, Return
  <2>6. CASE SignalNotify(c)
    <3>1. waiting' \in [Children -> BOOLEAN]
      BY <2>6 DEF SignalNotify
    <3> QED BY <2>6, <3>1 DEF SignalNotify
  <2> QED BY <1>3, <2>1, <2>2, <2>3, <2>4, <2>5, <2>6 DEF run, signal
<1>4. ASSUME NEW c \in Children, LetGo(c) PROVE TypeInv'
  BY <1>4 DEF LetGo, Destroy
<1>5. CASE UNCHANGED vars
  BY <1>5 DEF vars
<1> QED BY <1>1, <1>2, <1>3, <1>4, <1>5 DEF Next

LEMMA NowStep == TypeInv /\ NowInv /\ [Next]_vars => NowInv'
<1> SUFFICES ASSUME TypeInv, NowInv, [Next]_vars PROVE NowInv'
  OBVIOUS
<1> USE DEF objectVars, semaphoreVars, schedVars, Go, TypeInv, NowInv, Waiting, Building, Built
<1>1. CASE start
  <2>1. CASE StartLock \/ StartUnlock \/ CreateFails
    BY <2>1 DEF StartLock, StartUnlock, CreateFails
  <2>2. CASE wait
    BY <2>2 DEF wait, WaitLock, WaitTest, WaitSleep, Wake, WakeUnasked, WaitDone
  <2>3. CASE RecordId
    BY <2>3 DEF RecordId
  <2>4. ASSUME NEW c \in Children, Create(c) PROVE NowInv'
    BY <2>4 DEF Create
  <2> QED BY <1>1, <2>1, <2>2, <2>3, <2>4 DEF start
<1>2. CASE stop
  BY <1>2 DEF stop, StopSwap, Join, StopDestroys, Destroy
<1>3. ASSUME NEW c \in Children, run(c) PROVE NowInv'
  BY <1>3, RunFrame
<1>4. ASSUME NEW c \in Children, LetGo(c) PROVE NowInv'
  BY <1>4 DEF LetGo, Destroy
<1>5. CASE UNCHANGED vars
  BY <1>5 DEF vars
<1> QED BY <1>1, <1>2, <1>3, <1>4, <1>5 DEF Next

LEMMA MutexStep == IInv /\ [Next]_vars => MutexInv'
<1> SUFFICES ASSUME IInv, [Next]_vars PROVE MutexInv'
  OBVIOUS
<1> USE NameAssumption DEF objectVars, semaphoreVars, schedVars, Go, IInv, TypeInv, MutexInv,
        Signalling, HasMutex
<1>1. CASE start
  <2>1. CASE StartLock \/ StartUnlock \/ CreateFails \/ RecordId
    BY <2>1 DEF StartLock, StartUnlock, CreateFails, RecordId
  <2>2. CASE WaitLock \/ WaitTest \/ WaitSleep
    BY <2>2 DEF WaitLock, WaitTest, WaitSleep, NowInv, Waiting
  <2>3. CASE Wake \/ WakeUnasked \/ WaitDone
    BY <2>3 DEF Wake, WakeUnasked, WaitDone, NowInv, Waiting
  <2>4. ASSUME NEW c \in Children, Create(c) PROVE MutexInv'
    BY <2>4 DEF Create, NowInv, Building
  <2> QED BY <1>1, <2>1, <2>2, <2>3, <2>4 DEF start, wait
<1>2. CASE stop
  BY <1>2 DEF stop, StopSwap, Join, StopDestroys, Destroy
<1>3. ASSUME NEW c \in Children, run(c) PROVE MutexInv'
  <2>1. CASE SignalLock(c) \/ SignalCount(c) \/ SignalNotify(c) \/ SignalUnlock(c)
    BY <2>1 DEF SignalLock, SignalCount, SignalNotify, SignalUnlock
  <2>2. CASE Publish(c) \/ TakeCallback(c)
    BY <2>2 DEF Publish, TakeCallback
  <2>3. CASE CallLock(c) \/ CallUnlock(c) \/ CallAgain(c) \/ Return(c)
    BY <2>3 DEF CallLock, CallUnlock, CallAgain, Return
  <2> QED BY <1>3, <2>1, <2>2, <2>3 DEF run, signal
<1>4. ASSUME NEW c \in Children, LetGo(c) PROVE MutexInv'
  BY <1>4 DEF LetGo, Destroy
<1>5. CASE UNCHANGED vars
  BY <1>5 DEF vars
<1> QED BY <1>1, <1>2, <1>3, <1>4, <1>5 DEF Next

LEMMA CountStep == IInv /\ [Next]_vars => CountInv'
<1> SUFFICES ASSUME IInv, [Next]_vars PROVE CountInv'
  OBVIOUS
<1> USE NameAssumption DEF objectVars, semaphoreVars, schedVars, Go, IInv, TypeInv, CountInv,
        Starting, Signalled, Waiting
<1>1. CASE start
  <2>1. CASE StartLock \/ StartUnlock \/ CreateFails
    BY <2>1 DEF StartLock, StartUnlock, CreateFails
  <2>2. CASE WaitLock \/ WaitTest \/ WaitSleep
    BY <2>2 DEF WaitLock, WaitTest, WaitSleep
  <2>3. CASE Wake \/ WakeUnasked
    BY <2>3 DEF Wake, WakeUnasked
  <2>4. CASE WaitDone
    <3>1. now \in Children /\ pc[now] \in Signalled /\ mtx[now] = Owner /\ count[now] = 1
      BY <2>4 DEF WaitDone, NowInv, MutexInv, HasMutex
    <3>2. pc[now] \notin Starting
      BY <3>1 DEF MutexInv, Signalling
    <3> QED BY <2>4, <3>1, <3>2 DEF WaitDone
  <2>5. CASE RecordId
    BY <2>5 DEF RecordId
  <2>6. ASSUME NEW c \in Children, Create(c) PROVE CountInv'
    BY <2>6 DEF Create, NowInv, Building
  <2> QED BY <1>1, <2>1, <2>2, <2>3, <2>4, <2>5, <2>6 DEF start, wait
<1>2. CASE stop
  BY <1>2 DEF stop, StopSwap, Join, StopDestroys, Destroy
<1>3. ASSUME NEW c \in Children, run(c) PROVE CountInv'
  <2>1. CASE SignalLock(c) \/ SignalCount(c) \/ SignalNotify(c) \/ SignalUnlock(c)
    BY <2>1 DEF SignalLock, SignalCount, SignalNotify, SignalUnlock
  <2>2. CASE Publish(c) \/ TakeCallback(c)
    BY <2>2 DEF Publish, TakeCallback
  <2>3. CASE CallLock(c) \/ CallUnlock(c) \/ CallAgain(c) \/ Return(c)
    BY <2>3 DEF CallLock, CallUnlock, CallAgain, Return
  <2> QED BY <1>3, <2>1, <2>2, <2>3 DEF run, signal
<1>4. ASSUME NEW c \in Children, LetGo(c) PROVE CountInv'
  BY <1>4 DEF LetGo, Destroy
<1>5. CASE UNCHANGED vars
  BY <1>5 DEF vars
<1> QED BY <1>1, <1>2, <1>3, <1>4, <1>5 DEF Next

LEMMA IdStep == IInv /\ [Next]_vars => IdInv'
<1> SUFFICES ASSUME IInv, [Next]_vars PROVE IdInv'
  OBVIOUS
<1> USE NameAssumption DEF objectVars, semaphoreVars, schedVars, Go, IInv, TypeInv, NowInv, IdInv,
        Building, Built, Waiting
<1>1. CASE start
  <2>1. CASE StartLock \/ StartUnlock \/ CreateFails
    BY <2>1 DEF StartLock, StartUnlock, CreateFails
  <2>2. CASE wait
    BY <2>2 DEF wait, WaitLock, WaitTest, WaitSleep, Wake, WakeUnasked, WaitDone
  <2>3. CASE RecordId
    <3>1. now \in Children /\ pc[now] \notin Starting /\ pc[now] # "none"
      BY <2>3 DEF RecordId, CountInv
    <3>2. m_id[now] = now
      BY <3>1 DEF Starting
    <3> QED BY <2>3, <3>1, <3>2 DEF RecordId
  <2>4. ASSUME NEW c \in Children, Create(c) PROVE IdInv'
    BY <2>4 DEF Create
  <2> QED BY <1>1, <2>1, <2>2, <2>3, <2>4 DEF start
<1>2. CASE stop
  BY <1>2 DEF stop, StopSwap, Join, StopDestroys, Destroy
<1>3. ASSUME NEW c \in Children, run(c) PROVE IdInv'
  <2>1. CASE Publish(c) \/ TakeCallback(c)
    BY <2>1 DEF Publish, TakeCallback
  <2>2. CASE signal(c)
    BY <2>2 DEF signal, SignalLock, SignalCount, SignalNotify, SignalUnlock
  <2>3. CASE CallLock(c) \/ CallUnlock(c) \/ CallAgain(c) \/ Return(c)
    BY <2>3 DEF CallLock, CallUnlock, CallAgain, Return
  <2> QED BY <1>3, <2>1, <2>2, <2>3 DEF run
<1>4. ASSUME NEW c \in Children, LetGo(c) PROVE IdInv'
  BY <1>4 DEF LetGo, Destroy
<1>5. CASE UNCHANGED vars
  BY <1>5 DEF vars
<1> QED BY <1>1, <1>2, <1>3, <1>4, <1>5 DEF Next

LEMMA ReclaimStep == IInv /\ [Next]_vars => ReclaimInv'
<1> SUFFICES ASSUME IInv, [Next]_vars PROVE ReclaimInv'
  OBVIOUS
<1> USE NameAssumption DEF objectVars, semaphoreVars, schedVars, Go, IInv, TypeInv, NowInv,
        ReclaimInv, Building, Built, Waiting, NoId
<1>1. CASE start
  <2>1. CASE StartLock \/ StartUnlock \/ CreateFails
    BY <2>1 DEF StartLock, StartUnlock, CreateFails
  <2>2. CASE wait
    BY <2>2 DEF wait, WaitLock, WaitTest, WaitSleep, Wake, WakeUnasked, WaitDone
  <2>3. CASE RecordId
    BY <2>3 DEF RecordId
  <2>4. ASSUME NEW c \in Children, Create(c) PROVE ReclaimInv'
    BY <2>4 DEF Create
  <2> QED BY <1>1, <2>1, <2>2, <2>3, <2>4 DEF start
<1>2. CASE StopSwap
  BY <1>2 DEF StopSwap
<1>3. ASSUME NEW c \in Children, Join(c) PROVE ReclaimInv'
  BY <1>3 DEF Join
<1>4. ASSUME NEW c \in Children, StopDestroys(c) PROVE ReclaimInv'
  BY <1>4 DEF StopDestroys, Destroy
<1>5. ASSUME NEW c \in Children, run(c) PROVE ReclaimInv'
  BY <1>5, RunFrame
<1>6. ASSUME NEW c \in Children, LetGo(c) PROVE ReclaimInv'
  BY <1>6 DEF LetGo, Destroy
<1>7. CASE UNCHANGED vars
  BY <1>7 DEF vars
<1> QED BY <1>1, <1>2, <1>3, <1>4, <1>5, <1>6, <1>7 DEF Next, stop

LEMMA InitIInv == Init => IInv
BY NameAssumption, BoundAssumption
   DEF Init, IInv, TypeInv, NowInv, MutexInv, CountInv, IdInv, ReclaimInv, ChildPC, OwnerPC, NoId,
       Starting, Signalling, Signalled, Waiting, HasMutex, Building, Built

-----------------------------------------------------------------------------
(***************************************************************************)
(* The theorems.                                                           *)
(***************************************************************************)

(* The parts together are inductive: from the first pthread_create() to    *)
(* the last join() each thread, its object, its semaphore and the owner    *)
(* agree where they are.                                                   *)
THEOREM Inductive == Spec => []IInv
<1>1. IInv /\ [Next]_vars => IInv'
  BY TypeStep, NowStep, MutexStep, CountStep, IdStep, ReclaimStep DEF IInv
<1> QED BY InitIInv, <1>1, PTL DEF Spec

(* Every variable has its type, and a semaphore that is signalled once     *)
(* counts 0 or 1 whatever unasked wake-ups cv.wait() makes.                *)
THEOREM TypeCorrect == Spec => []TypeOK
<1>1. IInv => TypeOK
  <2> SUFFICES ASSUME IInv PROVE TypeOK
    OBVIOUS
  <2>1. count \in [Children -> {0, 1}]
    BY DEF IInv, TypeInv, CountInv
  <2>2. reclaimed \in [Children -> Nat]
    BY DEF IInv, TypeInv, ReclaimInv
  <2> QED BY <2>1, <2>2 DEF IInv, TypeInv, TypeOK
<1> QED BY <1>1, Inductive, PTL

(* getId() is called after the thread has set m_id, so m_threadIds holds   *)
(* the ids of all threads and no -1.                                       *)
THEOREM IdsArePublished == Spec => []IdsPublished
<1>1. IInv => IdsPublished
  BY NameAssumption
     DEF IInv, TypeInv, IdInv, IdsPublished, Building, Built, Waiting, OwnerPC, NoId
<1> QED BY <1>1, Inductive, PTL

(* run() never touches a Thread object that its owner has destroyed: the   *)
(* constructor waits until the thread has left signal().                   *)
THEOREM NoUseOfDestroyedThread == Spec => []ObjectOutlivesUse
<1>1. IInv => ObjectOutlivesUse
  BY DEF IInv, NowInv, CountInv, IdInv, ObjectOutlivesUse, Starting, Waiting
<1> QED BY <1>1, Inductive, PTL

(* Each thread is joined or detached once by the time its object is gone,  *)
(* and stop() returns after the last thread has ended.                     *)
THEOREM ThreadsReclaimedOnce == Spec => []ReclaimedOnce
<1>1. IInv => ReclaimedOnce
  BY DEF IInv, ReclaimInv, ReclaimedOnce
<1> QED BY <1>1, Inductive, PTL
=============================================================================
