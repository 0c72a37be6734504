---------------------------- MODULE FdManagerProofs ----------------------------
(***************************************************************************)
(* Theorems about the table of descriptor contexts, for every number of    *)
(* threads, descriptors and openings.                                      *)
(***************************************************************************)
EXTENDS FdManager, TLAPS

-----------------------------------------------------------------------------
(***************************************************************************)
(* The inductive invariant.                                                *)
(***************************************************************************)

(* A call that has its descriptor to itself, since socket() has not        *)
(* returned it or close() has begun; one that may share it; one that has   *)
(* come out of get().                                                      *)
AlonePC == {"get", "create", "findClose", "del", "close"}
IoctlPC == {"findIoctl", "ioctl", "passIoctl"}
SharePC == {"findSetfl", "setfl", "forceSetfl", "findOpt", "opt"} \cup IoctlPC
FoundPC == {"setfl", "forceSetfl", "ioctl", "passIoctl", "opt"}

(* What a thread in a call relies on, which is not checked again after the *)
(* lock is given up.                                                       *)
CallOK(t) ==
    /\ pc[t] = "run" <=> fd[t] = NoFd
    /\ pc[t] \in AlonePC =>
          /\ fd[t] \notin usable /\ opening[fd[t]] # None
          /\ \A u \in Threads \ {t} : fd[u] # fd[t]
    /\ pc[t] \in SharePC => fd[t] \in usable
    /\ pc[t] \in {"get", "create"} =>
          /\ opening[fd[t]] \in managed /\ m_datas[fd[t]] = None
          /\ asked[opening[fd[t]]] = Default
    /\ pc[t] = "findClose" /\ opening[fd[t]] \in managed => m_datas[fd[t]] = opening[fd[t]]
    /\ pc[t] = "del" => found[t] = opening[fd[t]] /\ m_datas[fd[t]] = opening[fd[t]]
    /\ pc[t] = "close" => m_datas[fd[t]] = None
    /\ pc[t] \in FoundPC => found[t] = m_datas[fd[t]]

CallInv == \A t \in Threads : CallOK(t)

(* The table holds contexts of managed sockets that are open, each at the  *)
(* number of its own opening, and for each that is in use.                 *)
EntryOK(d) ==
    /\ m_datas[d] # None =>
          /\ d < m_size
          /\ m_datas[d] = opening[d] /\ opening[d] \in managed
          /\ opening[d] \in m_isSocket /\ opening[d] \in m_sysNonblock
          /\ m_user[opening[d]] = asked[opening[d]]
    /\ d \in usable => opening[d] # None /\ (opening[d] \in managed => m_datas[d] = opening[d])
    /\ opening[d] # None => d \in usable \/ \E t \in Threads : fd[t] = d

TableInv ==
    /\ m_size \in Nat /\ m_size >= 2
    /\ \A d \in Fds : EntryOK(d)

(* A name is that of one opening, and one that no descriptor has carries   *)
(* nothing over to its next use.                                           *)
NameInv ==
    /\ \A d, e \in Fds : opening[d] # None /\ opening[d] = opening[e] => d = e
    /\ \A n \in Openings : (\A d \in Fds : opening[d] # n) => n \notin managed /\ asked[n] = Default

(* A socket with a context blocks no thread, unless ioctl() makes it.      *)
BlockInv == \A d \in Fds : m_datas[d] # None /\ opening[d] \in blocks => opening[d] \in unblocked

IInv == TypeOK /\ CallInv /\ TableInv /\ NameInv /\ BlockInv

-----------------------------------------------------------------------------
(***************************************************************************)
(* What the operators of the table do.                                     *)
(***************************************************************************)

(* A thread in a call has an open descriptor.                              *)
LEMMA CallHasFd ==
    ASSUME TypeOK, CallInv, TableInv, NEW t \in Threads, pc[t] # "run"
    PROVE  /\ fd[t] \in Fds /\ opening[fd[t]] \in Openings /\ opening[fd[t]] # None
           /\ pc[t] \in AlonePC \/ pc[t] \in SharePC
<1>1. fd[t] \in Fds
  BY DEF TypeOK, CallInv, CallOK
<1>2. pc[t] \in AlonePC \/ pc[t] \in SharePC
  BY DEF TypeOK, PC, AlonePC, SharePC, IoctlPC
<1>3. opening[fd[t]] # None
  BY <1>1, <1>2 DEF CallInv, CallOK, TableInv, EntryOK
<1> QED BY <1>1, <1>2, <1>3 DEF TypeOK

(* Nothing is stored at or beyond the end of the table.                    *)
LEMMA EntryIsStored ==
    ASSUME TypeOK, TableInv, NEW d \in Fds
    PROVE  Entry(d) = m_datas[d]
BY DEF TypeOK, TableInv, EntryOK, Entry

(* fd * 1.5 is greater than fd from 2 on.                                  *)
LEMMA Growth ==
    ASSUME NEW n \in Nat, n >= 2
    PROVE  (n * 3) \div 2 \in Nat /\ (n * 3) \div 2 > n
OBVIOUS

(* Create() stores a context at its own descriptor and drops none: the     *)
(* table grows to more than the descriptor's number.                       *)
LEMMA CreateStores ==
    ASSUME TypeOK, CallInv, TableInv, NEW t \in Threads, Create(t)
    PROVE  /\ m_size' \in Nat /\ m_size' >= m_size /\ fd[t] < m_size'
           /\ m_datas' = [m_datas EXCEPT ![fd[t]] = opening[fd[t]]]
<1>1. fd[t] \in Fds /\ fd[t] \in Nat
  BY CallHasFd, FdAssumption DEF Create
<1>2. m_size \in Nat /\ m_size >= 2
  BY DEF TableInv
<1> DEFINE size == IF m_size <= fd[t] THEN (fd[t] * 3) \div 2 ELSE m_size
<1>3. size \in Nat /\ size >= m_size /\ fd[t] < size
  <2>1. CASE m_size <= fd[t]
    <3>1. (fd[t] * 3) \div 2 \in Nat /\ (fd[t] * 3) \div 2 > fd[t]
      BY <1>1, <1>2, <2>1, Growth
    <3> QED BY <1>1, <1>2, <2>1, <3>1
  <2>2. CASE ~(m_size <= fd[t])
    BY <1>1, <1>2, <2>2
  <2> QED BY <2>1, <2>2
<1>4. m_size' = size /\ m_datas' = [Resized(size) EXCEPT ![fd[t]] = IF fd[t] < size THEN opening[fd[t]] ELSE @]
  BY DEF Create
<1> HIDE DEF size
<1>5. ASSUME NEW d \in Fds PROVE Resized(size)[d] = m_datas[d]
  <2>1. d \in Nat
    BY FdAssumption
  <2>2. m_datas[d] # None => d < m_size
    BY DEF TableInv, EntryOK
  <2>3. Entry(d) = m_datas[d]
    BY EntryIsStored
  <2>4. Resized(size)[d] = IF d < size THEN Entry(d) ELSE None
    BY DEF Resized
  <2> QED BY <1>2, <1>3, <2>1, <2>2, <2>3, <2>4
<1>6. Resized(size) = [d \in Fds |-> m_datas[d]]
  BY <1>5 DEF Resized
<1>7. m_datas = [d \in Fds |-> m_datas[d]]
  BY DEF TypeOK
<1> QED BY <1>3, <1>4, <1>6, <1>7

(* The calls that thread t can make on descriptor d, and the steps of the  *)
(* one it is in.                                                           *)
Touches(t, d) ==
    \/ socket(t, d) \/ close(t, d) \/ setsockopt(t, d)
    \/ \E v \in BOOLEAN : fcntl(t, d, v)
    \/ \E v \in BOOLEAN : ioctl(t, d, v)
    \/ d = fd[t] /\ Step(t)

LEMMA NextTouches ==
    ASSUME TypeOK, CallInv, TableInv, Next
    PROVE  \E t \in Threads, d \in Fds : Touches(t, d)
<1>1. PICK t \in Threads : Call(t) \/ Step(t)
  BY DEF Next
<1>2. CASE Call(t)
  BY <1>2 DEF Call, Touches
<1>3. CASE Step(t)
  <2>1. pc[t] # "run"
    BY <1>3 DEF Step, Get, Create, Find, Del, CloseFd, Setfl, ForceSetfl, Ioctl, PassIoctl, Opt
  <2>2. fd[t] \in Fds
    BY <2>1, CallHasFd
  <2> QED BY <1>3, <2>2 DEF Touches
<1> QED BY <1>1, <1>2, <1>3

(* What a managed call found is the context of its descriptor's opening.   *)
LEMMA FoundIsOwn ==
    ASSUME IInv, NEW t \in Threads, pc[t] \in FoundPC, found[t] # None
    PROVE  found[t] = opening[fd[t]] /\ opening[fd[t]] \in managed /\ found[t] \in m_isSocket
BY CallHasFd DEF IInv, CallInv, CallOK, TableInv, EntryOK, FoundPC, TypeOK

LEMMA ManagedIsFound ==
    ASSUME IInv, NEW t \in Threads
    PROVE  Managed(t) => found[t] # None
BY DEF IInv, TypeOK, Managed, Openings, None

-----------------------------------------------------------------------------
(***************************************************************************)
(* A step touches one descriptor, one opening and one thread.              *)
(***************************************************************************)

(* The other threads' calls stay where they are.                           *)
LEMMA OtherCalls ==
    ASSUME IInv, NEW t \in Threads, NEW d \in Fds, Touches(t, d), NEW u \in Threads, u # t
    PROVE  pc'[u] = pc[u] /\ fd'[u] = fd[u] /\ value'[u] = value[u] /\ found'[u] = found[u]
<1> USE DEF callVars, tableVars, ctxVars, kernelVars, userVars, Go, Done, IInv, TypeOK, Begin
<1>1. CASE socket(t, d)
  BY <1>1 DEF socket
<1>2. CASE close(t, d) \/ setsockopt(t, d)
  BY <1>2 DEF close, setsockopt
<1>3. CASE \E v \in BOOLEAN : fcntl(t, d, v)
  BY <1>3 DEF fcntl
<1>4. CASE \E v \in BOOLEAN : ioctl(t, d, v)
  BY <1>4 DEF ioctl
<1>5. CASE Get(t) \/ Create(t) \/ Find(t)
  BY <1>5 DEF Get, Create, Find
<1>6. CASE Del(t) \/ CloseFd(t) \/ Opt(t)
  BY <1>6 DEF Del, CloseFd, Opt
<1>7. CASE Setfl(t) \/ Ioctl(t)
  BY <1>7 DEF Setfl, Ioctl, SetUserNonblock
<1>8. CASE ForceSetfl(t) \/ PassIoctl(t)
  BY <1>8 DEF ForceSetfl, PassIoctl, KernelNonblock
<1> QED BY <1>1, <1>2, <1>3, <1>4, <1>5, <1>6, <1>7, <1>8 DEF Touches, Step

(* The other descriptors keep their openings and contexts.                 *)
LEMMA OtherFds ==
    ASSUME IInv, NEW t \in Threads, NEW d \in Fds, Touches(t, d), NEW e \in Fds, e # d
    PROVE  /\ opening'[e] = opening[e] /\ m_datas'[e] = m_datas[e]
           /\ e \in usable' <=> e \in usable
<1> USE DEF callVars, tableVars, ctxVars, kernelVars, userVars, Done, IInv, TypeOK, Begin
<1>1. CASE socket(t, d)
  BY <1>1 DEF socket
<1>2. CASE close(t, d) \/ setsockopt(t, d)
  BY <1>2 DEF close, setsockopt
<1>3. CASE \E v \in BOOLEAN : fcntl(t, d, v)
  BY <1>3 DEF fcntl
<1>4. CASE \E v \in BOOLEAN : ioctl(t, d, v)
  BY <1>4 DEF ioctl
<1>5. CASE d = fd[t] /\ (Get(t) \/ Find(t))
  BY <1>5 DEF Get, Find
<1>6. CASE d = fd[t] /\ Create(t)
  <2>1. opening' = opening /\ usable' = usable \cup {d}
    BY <1>6 DEF Create
  <2> QED BY <1>6, <2>1, CreateStores
<1>7. CASE d = fd[t] /\ (Del(t) \/ CloseFd(t) \/ Opt(t))
  BY <1>7 DEF Del, CloseFd, Opt
<1>8. CASE Setfl(t) \/ Ioctl(t)
  BY <1>8 DEF Setfl, Ioctl, SetUserNonblock
<1>9. CASE ForceSetfl(t) \/ PassIoctl(t)
  BY <1>9 DEF ForceSetfl, PassIoctl, KernelNonblock
<1> QED BY <1>1, <1>2, <1>3, <1>4, <1>5, <1>6, <1>7, <1>8, <1>9 DEF Touches, Step

(* An opening other than the descriptor's keeps its settings and flags.    *)
LEMMA OtherOpenings ==
    ASSUME IInv, NEW t \in Threads, NEW d \in Fds, Touches(t, d),
           NEW n \in Openings, n # opening[d], n # opening'[d]
    PROVE  /\ asked'[n] = asked[n] /\ m_user'[n] = m_user[n]
           /\ n \in managed' <=> n \in managed
           /\ n \in m_isSocket' <=> n \in m_isSocket
           /\ n \in m_sysNonblock' <=> n \in m_sysNonblock
           /\ n \in blocks' <=> n \in blocks
           /\ n \in unblocked' <=> n \in unblocked
<1> USE DEF callVars, tableVars, ctxVars, kernelVars, userVars, Done, IInv, TypeOK, Begin
<1>1. CASE socket(t, d)
  <2> PICK m \in Openings : /\ opening' = [opening EXCEPT ![d] = m]
                            /\ blocks' = blocks \cup {m}
                            /\ managed' \in {managed, managed \cup {m}}
                            /\ UNCHANGED <<ctxVars, asked, unblocked>>
    BY <1>1 DEF socket
  <2> QED OBVIOUS
<1>2. CASE close(t, d) \/ setsockopt(t, d)
  BY <1>2 DEF close, setsockopt
<1>3. CASE \E v \in BOOLEAN : fcntl(t, d, v)
  BY <1>3 DEF fcntl
<1>4. CASE \E v \in BOOLEAN : ioctl(t, d, v)
  BY <1>4 DEF ioctl
<1>5. CASE d = fd[t] /\ (Get(t) \/ Find(t))
  BY <1>5 DEF Get, Find
<1>6. CASE d = fd[t] /\ Create(t)
  BY <1>6 DEF Create, InitCtx
<1>7. CASE d = fd[t] /\ Del(t)
  <2>1. found[t] = opening[d]
    BY <1>7 DEF Del, CallInv, CallOK
  <2> QED BY <1>7, <2>1 DEF Del
<1>8. CASE d = fd[t] /\ CloseFd(t)
  BY <1>8 DEF CloseFd
<1>9. CASE d = fd[t] /\ (Setfl(t) \/ Ioctl(t))
  <2>1. Managed(t) => found[t] = opening[d]
    BY <1>9, FoundIsOwn, ManagedIsFound DEF Setfl, Ioctl, SetUserNonblock, FoundPC
  <2> QED BY <1>9, <2>1 DEF Setfl, Ioctl, SetUserNonblock
<1>10. CASE d = fd[t] /\ (ForceSetfl(t) \/ PassIoctl(t))
  BY <1>10 DEF ForceSetfl, PassIoctl, KernelNonblock
<1>11. CASE d = fd[t] /\ Opt(t)
  <2>1. found[t] # None => found[t] = opening[d]
    BY <1>11, FoundIsOwn DEF Opt, FoundPC
  <2> QED BY <1>11, <2>1 DEF Opt
<1> QED BY <1>1, <1>2, <1>3, <1>4, <1>5, <1>6, <1>7, <1>8, <1>9, <1>10, <1>11 DEF Touches, Step

(* A descriptor that another thread's call is on stays open and keeps its  *)
(* context, for only one that nobody uses is closed.                       *)
LEMMA SharedFd ==
    ASSUME IInv, NEW t \in Threads, NEW d \in Fds, Touches(t, d),
           NEW u \in Threads, u # t, fd[u] = d
    PROVE  /\ pc[u] \in SharePC
           /\ UNCHANGED <<opening, m_datas, usable, managed, m_isSocket, m_sysNonblock>>
<1> USE DEF callVars, tableVars, ctxVars, kernelVars, userVars, IInv
<1>1. pc[u] # "run" /\ opening[d] # None
  BY CallHasFd, FdAssumption DEF CallInv, CallOK
<1>2. pc[u] \in AlonePC \/ pc[u] \in SharePC
  BY <1>1, CallHasFd
<1>3. d \notin usable => pc[u] \in AlonePC
  BY <1>2 DEF CallInv, CallOK
<1>4. d = fd[t] => pc[t] \notin AlonePC /\ pc[u] \notin AlonePC
  BY DEF CallInv, CallOK
<1>5. d \in usable => pc[u] \notin AlonePC
  BY DEF CallInv, CallOK
<1>6. CASE socket(t, d) \/ close(t, d)
  BY <1>1, <1>6 DEF socket, close, Unused
<1>7. CASE setsockopt(t, d)
  BY <1>2, <1>5, <1>7 DEF setsockopt, Begin
<1>8. CASE \E v \in BOOLEAN : fcntl(t, d, v)
  BY <1>2, <1>5, <1>8 DEF fcntl, Begin
<1>9. CASE \E v \in BOOLEAN : ioctl(t, d, v)
  BY <1>2, <1>5, <1>9 DEF ioctl, Begin
<1>10. CASE d = fd[t] /\ Step(t)
  <2>1. CASE Get(t) \/ Create(t) \/ Del(t) \/ CloseFd(t)
    BY <1>4, <1>10, <2>1 DEF Get, Create, Del, CloseFd, AlonePC
  <2>2. CASE Find(t) \/ Opt(t)
    BY <1>2, <1>4, <1>10, <2>2 DEF Find, Opt
  <2>3. CASE Setfl(t) \/ Ioctl(t)
    BY <1>2, <1>4, <1>10, <2>3 DEF Setfl, Ioctl, SetUserNonblock
  <2>4. CASE ForceSetfl(t) \/ PassIoctl(t)
    BY <1>2, <1>4, <1>10, <2>4 DEF ForceSetfl, PassIoctl, KernelNonblock
  <2> QED BY <1>10, <2>1, <2>2, <2>3, <2>4 DEF Step
<1> QED BY <1>6, <1>7, <1>8, <1>9, <1>10 DEF Touches

-----------------------------------------------------------------------------
(***************************************************************************)
(* The steps, part by part.                                                *)
(***************************************************************************)

LEMMA NonblockTyped ==
    ASSUME NEW m \in [Openings -> Setting], NEW n, NEW v \in BOOLEAN
    PROVE  [m EXCEPT ![n].nonblock = v] \in [Openings -> Setting]
<1>1. n \in Openings => [m[n] EXCEPT !.nonblock = v] \in Setting
  BY DEF Setting
<1> QED BY <1>1

LEMMA TimeoutTyped ==
    ASSUME NEW m \in [Openings -> Setting], NEW n, NEW ms \in Timeouts
    PROVE  [m EXCEPT ![n].timeout = ms] \in [Openings -> Setting]
<1>1. n \in Openings => [m[n] EXCEPT !.timeout = ms] \in Setting
  BY DEF Setting
<1> QED BY <1>1

LEMMA TypeStep == IInv /\ [Next]_vars => TypeOK'
<1> SUFFICES ASSUME IInv, [Next]_vars PROVE TypeOK'
  OBVIOUS
<1> USE DEF callVars, tableVars, ctxVars, kernelVars, userVars, Go, Done, Begin, IInv, TypeOK, PC
<1>1. CASE UNCHANGED vars
  BY <1>1 DEF vars
<1>2. ASSUME NEW t \in Threads, NEW d \in Fds, Touches(t, d) PROVE TypeOK'
  <2>1. CASE socket(t, d)
    <3> PICK n \in Openings :
          /\ opening' = [opening EXCEPT ![d] = n] /\ blocks' = blocks \cup {n}
          /\ managed' \in {managed, managed \cup {n}} /\ usable' \in {usable, usable \cup {d}}
          /\ fd' \in {fd, [fd EXCEPT ![t] = d]} /\ pc' \in {pc, [pc EXCEPT ![t] = "get"]}
      BY <2>1 DEF socket
    <3> QED BY <2>1 DEF socket
  <2>2. CASE close(t, d) \/ setsockopt(t, d)
    BY <2>2 DEF close, setsockopt
  <2>3. CASE \E v \in BOOLEAN : fcntl(t, d, v)
    BY <2>3 DEF fcntl
  <2>4. CASE \E v \in BOOLEAN : ioctl(t, d, v)
    BY <2>4, ValueAssumption DEF ioctl
  <2>5. CASE d = fd[t] /\ Get(t)
    <3>1. usable' \in SUBSET Fds
      BY <2>5 DEF Get
    <3>2. CASE Entry(d) # None
      BY <2>5, <3>1, <3>2 DEF Get
    <3>3. CASE Entry(d) = None
      BY <2>5, <3>1, <3>3 DEF Get
    <3> QED BY <3>2, <3>3
  <2>6. CASE d = fd[t] /\ Create(t)
    <3>1. opening[d] \in Openings /\ Default \in Setting
      BY <2>6, CallHasFd DEF Create, Default, Setting
    <3>2. m_datas' \in [Fds -> Openings \cup {None}]
      BY <2>6, <3>1, CreateStores
    <3>3. m_size' \in {InitialSize} \cup {(e * 3) \div 2 : e \in Fds}
      BY <2>6 DEF Create
    <3>4. m_user' \in [Openings -> Setting]
      BY <2>6, <3>1 DEF Create, InitCtx
    <3> QED BY <2>6, <3>1, <3>2, <3>3, <3>4 DEF Create, InitCtx
  <2>7. CASE d = fd[t] /\ Find(t)
    <3>1. Entry(d) \in Openings \cup {None}
      BY EntryIsStored
    <3>2. pc' \in [Threads -> PC]
      BY <2>7 DEF Find
    <3> QED BY <2>7, <3>1, <3>2 DEF Find
  <2>8. CASE d = fd[t] /\ Del(t)
    <3>1. Default \in Setting
      BY DEF Default, Setting
    <3>2. m_datas' \in [Fds -> Openings \cup {None}] /\ m_user' \in [Openings -> Setting]
      BY <2>8, <3>1 DEF Del
    <3> QED BY <2>8, <3>2 DEF Del
  <2>9. CASE d = fd[t] /\ CloseFd(t)
    <3>1. Default \in Setting
      BY DEF Default, Setting
    <3>2. asked' \in [Openings -> Setting] /\ opening' \in [Fds -> Openings \cup {None}]
      BY <2>9, <3>1 DEF CloseFd
    <3> QED BY <2>9, <3>2 DEF CloseFd
  <2>10. CASE d = fd[t] /\ (Setfl(t) \/ Ioctl(t))
    <3>1. asked' \in [Openings -> Setting] /\ m_user' \in [Openings -> Setting]
      <4>1. value[t] \in BOOLEAN
        OBVIOUS
      <4>2. CASE Managed(t)
        <5>1. /\ m_user' = [m_user EXCEPT ![found[t]].nonblock = value[t]]
              /\ asked' = [asked EXCEPT ![opening[fd[t]]].nonblock = value[t]]
          BY <2>10, <4>2 DEF Setfl, Ioctl, SetUserNonblock
        <5>2. m_user \in [Openings -> Setting] /\ asked \in [Openings -> Setting]
          BY DEF TypeOK
        <5> HIDE DEF TypeOK
        <5>3. m_user' \in [Openings -> Setting]
          BY <4>1, <5>1, <5>2, NonblockTyped
        <5>4. asked' \in [Openings -> Setting]
          BY <4>1, <5>1, <5>2, NonblockTyped
        <5> QED BY <5>3, <5>4
      <4>3. CASE ~Managed(t)
        BY <2>10, <4>3 DEF Setfl, Ioctl, SetUserNonblock
      <4> QED BY <4>2, <4>3
    <3> QED BY <2>10, <3>1 DEF Setfl, Ioctl, SetUserNonblock
  <2>11. CASE d = fd[t] /\ (ForceSetfl(t) \/ PassIoctl(t))
    <3>1. opening[d] \in Openings
      BY <2>11, CallHasFd DEF ForceSetfl, PassIoctl
    <3>2. blocks' \in SUBSET Openings
      BY <2>11, <3>1 DEF ForceSetfl, PassIoctl, KernelNonblock
    <3> QED BY <2>11, <3>2 DEF ForceSetfl, PassIoctl, KernelNonblock
  <2>12. CASE d = fd[t] /\ Opt(t)
    <3>1. asked' \in [Openings -> Setting] /\ m_user' \in [Openings -> Setting]
      <4>1. m_user \in [Openings -> Setting] /\ asked \in [Openings -> Setting]
        OBVIOUS
      <4>2. CASE found[t] # None
        <5>1. PICK ms \in Timeouts :
                /\ m_user' = [m_user EXCEPT ![found[t]].timeout = ms]
                /\ asked' = [asked EXCEPT ![opening[fd[t]]].timeout = ms]
          BY <2>12, <4>2 DEF Opt
        <5> HIDE DEF TypeOK
        <5>2. m_user' \in [Openings -> Setting]
          BY <4>1, <5>1, TimeoutTyped
        <5>3. asked' \in [Openings -> Setting]
          BY <4>1, <5>1, TimeoutTyped
        <5> QED BY <5>2, <5>3
      <4>3. CASE found[t] = None
        BY <2>12, <4>1, <4>3 DEF Opt
      <4> QED BY <4>2, <4>3
    <3> QED BY <2>12, <3>1 DEF Opt
  <2> QED BY <1>2, <2>1, <2>2, <2>3, <2>4, <2>5, <2>6, <2>7, <2>8, <2>9, <2>10, <2>11, <2>12
          DEF Touches, Step
<1> QED BY <1>1, <1>2, NextTouches

(* The thread that steps.                                                  *)
LEMMA OwnCall ==
    ASSUME IInv, NEW t \in Threads, NEW d \in Fds, Touches(t, d)
    PROVE  CallOK(t)'
<1> USE FdAssumption DEF callVars, tableVars, ctxVars, kernelVars, userVars, Go, Done, Begin,
        IInv, TypeOK, CallInv, CallOK, AlonePC, SharePC, IoctlPC, FoundPC
<1>1. ASSUME NEW u \in Threads \ {t} PROVE fd'[u] = fd[u]
  BY <1>1, OtherCalls
<1>2. CASE socket(t, d)
  <2>1. \A u \in Threads : fd[u] # d
    BY <1>2, CallHasFd DEF socket
  <2>2. d \notin usable
    BY <1>2 DEF socket, TableInv, EntryOK
  <2>3. PICK n \in Openings : /\ opening' = [opening EXCEPT ![d] = n] /\ Unnamed(n)
    BY <1>2 DEF socket
  <2>4. asked[n] = Default
    BY <2>3 DEF Unnamed, NameInv
  <2>5. m_datas[d] = None
    BY <1>2 DEF socket, TableInv, EntryOK
  <2>6. CASE t \in Hooked
    BY <1>1, <1>2, <2>1, <2>2, <2>3, <2>4, <2>5, <2>6 DEF socket, Openings, None
  <2>7. CASE t \notin Hooked
    BY <1>1, <1>2, <2>7 DEF socket
  <2> QED BY <2>6, <2>7
<1>3. CASE close(t, d)
  BY <1>1, <1>3 DEF close, Unused, TableInv, EntryOK
<1>4. CASE setsockopt(t, d)
  BY <1>4 DEF setsockopt
<1>5. CASE \E v \in BOOLEAN : fcntl(t, d, v)
  BY <1>5 DEF fcntl
<1>6. CASE \E v \in BOOLEAN : ioctl(t, d, v)
  BY <1>6 DEF ioctl
<1>7. CASE d = fd[t] /\ Get(t)
  BY <1>1, <1>7, EntryIsStored DEF Get
<1>8. CASE d = fd[t] /\ Create(t)
  BY <1>8 DEF Create
<1>9. CASE d = fd[t] /\ Find(t)
  BY <1>1, <1>9, EntryIsStored DEF Find, TableInv, EntryOK
<1>10. CASE d = fd[t] /\ Del(t)
  BY <1>1, <1>10 DEF Del, TableInv, EntryOK
<1>11. CASE d = fd[t] /\ (CloseFd(t) \/ Opt(t))
  BY <1>11 DEF CloseFd, Opt
<1>12. CASE d = fd[t] /\ (Setfl(t) \/ Ioctl(t))
  BY <1>12 DEF Setfl, Ioctl, SetUserNonblock
<1>13. CASE ForceSetfl(t) \/ PassIoctl(t)
  BY <1>13 DEF ForceSetfl, PassIoctl, KernelNonblock
<1> QED BY <1>2, <1>3, <1>4, <1>5, <1>6, <1>7, <1>8, <1>9, <1>10, <1>11, <1>12, <1>13
        DEF Touches, Step

(* A step opens a free descriptor with a new name, closes one or leaves it.*)
LEMMA OpeningChange ==
    ASSUME IInv, NEW t \in Threads, NEW d \in Fds, Touches(t, d)
    PROVE  \/ opening'[d] = opening[d]
           \/ opening'[d] = None /\ opening[d] \notin managed' /\ asked'[opening[d]] = Default
           \/ opening[d] = None /\ opening'[d] \in Openings /\ Unnamed(opening'[d])
<1> USE DEF callVars, tableVars, ctxVars, kernelVars, userVars, IInv, TypeOK
<1>1. CASE socket(t, d)
  BY <1>1 DEF socket
<1>2. CASE close(t, d) \/ setsockopt(t, d)
  BY <1>2 DEF close, setsockopt
<1>3. CASE (\E v \in BOOLEAN : fcntl(t, d, v)) \/ \E v \in BOOLEAN : ioctl(t, d, v)
  BY <1>3 DEF fcntl, ioctl
<1>4. CASE d = fd[t] /\ (Get(t) \/ Create(t) \/ Find(t) \/ Del(t) \/ Opt(t))
  BY <1>4 DEF Get, Create, Find, Del, Opt
<1>5. CASE Setfl(t) \/ Ioctl(t) \/ ForceSetfl(t) \/ PassIoctl(t)
  BY <1>5 DEF Setfl, Ioctl, SetUserNonblock, ForceSetfl, PassIoctl, KernelNonblock
<1>6. CASE d = fd[t] /\ CloseFd(t)
  BY <1>6, CallHasFd DEF CloseFd
<1> QED BY <1>1, <1>2, <1>3, <1>4, <1>5, <1>6 DEF Touches, Step

(* Another descriptor's opening has another name, before and after.        *)
LEMMA OtherNames ==
    ASSUME IInv, NEW t \in Threads, NEW d \in Fds, Touches(t, d),
           NEW e \in Fds, e # d, opening[e] # None
    PROVE  opening[e] \in Openings /\ opening[e] # opening[d] /\ opening[e] # opening'[d]
BY OpeningChange DEF IInv, TypeOK, NameInv, Unnamed

(* A thread is on one descriptor from the beginning of a call to its end.  *)
LEMMA FdChange ==
    ASSUME IInv, NEW t \in Threads, NEW d \in Fds, Touches(t, d)
    PROVE  fd[t] \in {NoFd, d} /\ fd'[t] \in {NoFd, d}
<1> USE DEF callVars, tableVars, ctxVars, kernelVars, userVars, Done, Begin, IInv, TypeOK,
        CallInv, CallOK
<1>1. CASE socket(t, d)
  BY <1>1 DEF socket
<1>2. CASE close(t, d) \/ setsockopt(t, d)
  BY <1>2 DEF close, setsockopt
<1>3. CASE (\E v \in BOOLEAN : fcntl(t, d, v)) \/ \E v \in BOOLEAN : ioctl(t, d, v)
  BY <1>3 DEF fcntl, ioctl
<1>4. CASE d = fd[t] /\ (Get(t) \/ Create(t) \/ Find(t) \/ Del(t) \/ CloseFd(t) \/ Opt(t))
  BY <1>4 DEF Get, Create, Find, Del, CloseFd, Opt
<1>5. CASE d = fd[t] /\ (Setfl(t) \/ Ioctl(t) \/ ForceSetfl(t) \/ PassIoctl(t))
  BY <1>5 DEF Setfl, Ioctl, SetUserNonblock, ForceSetfl, PassIoctl, KernelNonblock
<1> QED BY <1>1, <1>2, <1>3, <1>4, <1>5 DEF Touches, Step

LEMMA CallStep == IInv /\ [Next]_vars => CallInv'
<1> SUFFICES ASSUME IInv, [Next]_vars PROVE CallInv'
  OBVIOUS
<1>1. CASE UNCHANGED vars
  BY <1>1 DEF vars, callVars, tableVars, ctxVars, kernelVars, userVars, IInv, CallInv, CallOK
<1>2. ASSUME NEW t \in Threads, NEW d \in Fds, Touches(t, d), NEW u \in Threads, u # t
      PROVE  CallOK(u)'
  <2>1. pc'[u] = pc[u] /\ fd'[u] = fd[u] /\ value'[u] = value[u] /\ found'[u] = found[u]
    BY <1>2, OtherCalls
  <2>2. CallOK(u)
    BY DEF IInv, CallInv
  <2>3. CASE pc[u] = "run"
    BY <2>1, <2>2, <2>3 DEF CallOK, AlonePC, SharePC, IoctlPC, FoundPC
  <2>4. CASE pc[u] # "run" /\ fd[u] = d
    <3>1. /\ pc[u] \in SharePC
          /\ UNCHANGED <<opening, m_datas, usable, managed, m_isSocket, m_sysNonblock>>
      BY <1>2, <2>4, SharedFd
    <3> QED BY <2>1, <2>2, <3>1 DEF CallOK, AlonePC, SharePC, IoctlPC, FoundPC
  <2>5. CASE pc[u] # "run" /\ fd[u] # d
    <3>1. fd[u] \in Fds /\ opening[fd[u]] # None
      BY <2>5, CallHasFd DEF IInv
    <3>2. /\ opening'[fd[u]] = opening[fd[u]] /\ m_datas'[fd[u]] = m_datas[fd[u]]
          /\ fd[u] \in usable' <=> fd[u] \in usable
      BY <1>2, <2>5, <3>1, OtherFds
    <3>3. /\ asked'[opening[fd[u]]] = asked[opening[fd[u]]]
          /\ opening[fd[u]] \in managed' <=> opening[fd[u]] \in managed
      BY <1>2, <2>5, <3>1, OtherNames, OtherOpenings
    <3>4. ASSUME pc[u] \in AlonePC, NEW v \in Threads \ {u} PROVE fd'[v] # fd[u]
      <4>1. CASE v # t
        BY <1>2, <2>2, <3>4, <4>1, OtherCalls DEF CallOK
      <4>2. CASE v = t
        BY <1>2, <2>2, <2>5, <3>1, <3>4, <4>2, FdChange, FdAssumption DEF CallOK
      <4> QED BY <4>1, <4>2
    <3> QED BY <2>1, <2>2, <3>2, <3>3, <3>4 DEF CallOK
  <2> QED BY <2>3, <2>4, <2>5
<1>3. ASSUME NEW t \in Threads, NEW d \in Fds, Touches(t, d) PROVE CallInv'
  BY <1>2, <1>3, OwnCall DEF CallInv
<1> QED BY <1>1, <1>3, NextTouches DEF IInv

(* The descriptor that a step touches.                                     *)
LEMMA OwnEntry ==
    ASSUME IInv, NEW t \in Threads, NEW d \in Fds, Touches(t, d)
    PROVE  EntryOK(d)' /\ m_size' \in Nat /\ m_size' >= m_size
<1> USE DEF callVars, tableVars, ctxVars, kernelVars, userVars, Go, Done, Begin,
        IInv, TypeOK, EntryOK, TableInv
<1>1. EntryOK(d) /\ m_size \in Nat
  OBVIOUS
<1>2. CASE socket(t, d)
  <2>1. PICK n \in Openings : opening' = [opening EXCEPT ![d] = n] /\ Unnamed(n)
    BY <1>2 DEF socket
  <2>2. m_datas[d] = None /\ n \notin managed /\ d \notin usable
    BY <1>2, <2>1 DEF socket, Unnamed, NameInv
  <2>3. CASE t \in Hooked
    BY <1>2, <2>1, <2>2, <2>3 DEF socket, Openings, None
  <2>4. CASE t \notin Hooked
    BY <1>2, <2>1, <2>2, <2>4 DEF socket, Openings, None
  <2> QED BY <2>3, <2>4
<1>3. CASE close(t, d)
  BY <1>1, <1>3 DEF close
<1>4. CASE setsockopt(t, d)
  BY <1>1, <1>4 DEF setsockopt
<1>5. CASE \E v \in BOOLEAN : fcntl(t, d, v)
  BY <1>1, <1>5 DEF fcntl
<1>6. CASE \E v \in BOOLEAN : ioctl(t, d, v)
  BY <1>1, <1>6 DEF ioctl
<1>7. CASE d = fd[t] /\ Get(t)
  BY <1>1, <1>7, EntryIsStored DEF Get, CallInv, CallOK
<1>8. CASE d = fd[t] /\ Create(t)
  <2>1. /\ opening[d] \in Openings /\ opening[d] # None
        /\ opening[d] \in managed /\ asked[opening[d]] = Default
    BY <1>8, CallHasFd DEF Create, CallInv, CallOK
  <2>2. d < m_size' /\ m_datas'[d] = opening[d] /\ m_size' \in Nat /\ m_size' >= m_size
    BY <1>8, CreateStores
  <2>3. /\ opening' = opening /\ managed' = managed /\ asked' = asked /\ d \in usable'
        /\ opening[d] \in m_isSocket' /\ opening[d] \in m_sysNonblock'
        /\ m_user' = [m_user EXCEPT ![opening[d]] = Default]
    BY <1>8 DEF Create, InitCtx
  <2>4. m_user'[opening[d]] = Default
    BY <2>1, <2>3
  <2> QED BY <2>1, <2>2, <2>3, <2>4
<1>9. CASE d = fd[t] /\ Find(t)
  BY <1>1, <1>9 DEF Find
<1>10. CASE d = fd[t] /\ Del(t)
  BY <1>1, <1>10 DEF Del, CallInv, CallOK, AlonePC
<1>11. CASE d = fd[t] /\ CloseFd(t)
  BY <1>1, <1>11 DEF CloseFd, CallInv, CallOK, AlonePC
<1>12. CASE d = fd[t] /\ (Setfl(t) \/ Ioctl(t))
  <2>1. Managed(t) => found[t] = opening[d] /\ opening[d] \in Openings
    BY <1>12, FoundIsOwn, ManagedIsFound DEF Setfl, Ioctl, FoundPC
  <2>2. UNCHANGED <<m_size, m_datas, opening, usable, managed, m_isSocket, m_sysNonblock, fd>>
    BY <1>12 DEF Setfl, Ioctl, SetUserNonblock
  <2>3. m_datas[d] # None => m_user[opening[d]] = asked[opening[d]]
    BY <1>1
  <2>4. m_datas[d] # None => m_user'[opening[d]] = asked'[opening[d]]
    <3>1. CASE Managed(t)
      <4>1. /\ m_user' = [m_user EXCEPT ![opening[d]].nonblock = value[t]]
            /\ asked' = [asked EXCEPT ![opening[d]].nonblock = value[t]]
        BY <1>12, <2>1, <3>1 DEF Setfl, Ioctl, SetUserNonblock
      <4> QED BY <2>1, <2>3, <3>1, <4>1
    <3>2. CASE ~Managed(t)
      BY <1>12, <2>3, <3>2 DEF Setfl, Ioctl, SetUserNonblock
    <3> QED BY <3>1, <3>2
  <2> QED BY <1>1, <2>2, <2>4
<1>13. CASE d = fd[t] /\ (ForceSetfl(t) \/ PassIoctl(t))
  BY <1>1, <1>13 DEF ForceSetfl, PassIoctl, KernelNonblock, CallInv, CallOK, SharePC, IoctlPC
<1>14. CASE d = fd[t] /\ Opt(t)
  <2>1. found[t] # None => found[t] = opening[d] /\ opening[d] \in Openings
    BY <1>14, FoundIsOwn DEF Opt, FoundPC
  <2>2. UNCHANGED <<m_size, m_datas, opening, usable, managed, m_isSocket, m_sysNonblock>>
    BY <1>14 DEF Opt
  <2>3. d \in usable
    BY <1>14 DEF Opt, CallInv, CallOK, SharePC
  <2>4. m_datas[d] # None => m_user[opening[d]] = asked[opening[d]]
    BY <1>1
  <2>5. m_datas[d] # None => m_user'[opening[d]] = asked'[opening[d]]
    <3>1. CASE found[t] # None
      <4>1. PICK ms \in Timeouts : /\ m_user' = [m_user EXCEPT ![opening[d]].timeout = ms]
                                  /\ asked' = [asked EXCEPT ![opening[d]].timeout = ms]
        BY <1>14, <2>1, <3>1 DEF Opt
      <4> QED BY <2>1, <2>4, <3>1, <4>1
    <3>2. CASE found[t] = None
      BY <1>14, <2>4, <3>2 DEF Opt
    <3> QED BY <3>1, <3>2
  <2> QED BY <1>1, <2>2, <2>3, <2>5
<1> QED BY <1>2, <1>3, <1>4, <1>5, <1>6, <1>7, <1>8, <1>9, <1>10, <1>11, <1>12, <1>13, <1>14
        DEF Touches, Step

LEMMA TableStep == IInv /\ [Next]_vars => TableInv'
<1> SUFFICES ASSUME IInv, [Next]_vars PROVE TableInv'
  OBVIOUS
<1>1. CASE UNCHANGED vars
  BY <1>1 DEF vars, callVars, tableVars, ctxVars, kernelVars, userVars, IInv, TableInv, EntryOK
<1>2. ASSUME NEW t \in Threads, NEW d \in Fds, Touches(t, d) PROVE TableInv'
  <2>1. EntryOK(d)' /\ m_size' \in Nat /\ m_size' >= m_size
    BY <1>2, OwnEntry
  <2>2. ASSUME NEW e \in Fds, e # d PROVE EntryOK(e)'
    <3>1. EntryOK(e) /\ m_size \in Nat
      BY DEF IInv, TableInv
    <3>2. /\ opening'[e] = opening[e] /\ m_datas'[e] = m_datas[e]
          /\ e \in usable' <=> e \in usable
      BY <1>2, <2>2, OtherFds
    <3>3. ASSUME opening[e] # None
          PROVE  /\ asked'[opening[e]] = asked[opening[e]] /\ m_user'[opening[e]] = m_user[opening[e]]
                 /\ opening[e] \in managed' <=> opening[e] \in managed
                 /\ opening[e] \in m_isSocket' <=> opening[e] \in m_isSocket
                 /\ opening[e] \in m_sysNonblock' <=> opening[e] \in m_sysNonblock
      BY <1>2, <2>2, <3>3, OtherNames, OtherOpenings
    <3>4. ASSUME NEW u \in Threads, fd[u] = e PROVE fd'[u] = e
      BY <1>2, <2>2, <3>2, <3>4, OtherCalls, FdChange, FdAssumption
    <3>5. e \in Nat
      BY FdAssumption
    <3>6. opening[e] # None => e \in usable' \/ \E u \in Threads : fd'[u] = e
      BY <3>1, <3>2, <3>4 DEF EntryOK
    <3> QED BY <2>1, <3>1, <3>2, <3>3, <3>5, <3>6 DEF EntryOK
  <2>3. m_size' >= 2
    BY <2>1 DEF IInv, TableInv
  <2> QED BY <2>1, <2>2, <2>3 DEF TableInv
<1> QED BY <1>1, <1>2, NextTouches DEF IInv

LEMMA NameStep == IInv /\ [Next]_vars => NameInv'
<1> SUFFICES ASSUME IInv, [Next]_vars PROVE NameInv'
  OBVIOUS
<1>1. CASE UNCHANGED vars
  BY <1>1 DEF vars, kernelVars, userVars, IInv, NameInv
<1>2. ASSUME NEW t \in Threads, NEW d \in Fds, Touches(t, d) PROVE NameInv'
  <2>1. \A e \in Fds \ {d} : opening'[e] = opening[e]
    BY <1>2, OtherFds
  <2>2. \A e \in Fds \ {d} : opening[e] # None => opening[e] # opening'[d]
    BY <1>2, OtherNames
  <2>3. ASSUME NEW e \in Fds, NEW f \in Fds, opening'[e] # None, opening'[e] = opening'[f]
        PROVE  e = f
    <3>1. CASE e = d \/ f = d
      BY <2>1, <2>2, <2>3, <3>1
    <3>2. CASE e # d /\ f # d
      BY <2>1, <2>3, <3>2 DEF IInv, NameInv
    <3> QED BY <3>1, <3>2
  <2>4. ASSUME NEW n \in Openings, \A e \in Fds : opening'[e] # n
        PROVE  n \notin managed' /\ asked'[n] = Default
    <3>1. CASE n = opening[d]
      <4>1. n # None /\ opening'[d] # opening[d]
        BY <2>4, <3>1 DEF Openings, None
      <4> QED BY <1>2, <3>1, <4>1, OpeningChange
    <3>2. CASE n # opening[d]
      <4>1. \A e \in Fds : opening[e] # n
        BY <2>1, <2>4, <3>2
      <4>2. n \notin managed /\ asked[n] = Default
        BY <4>1 DEF IInv, NameInv
      <4> QED BY <1>2, <2>4, <3>2, <4>2, OtherOpenings
    <3> QED BY <3>1, <3>2
  <2> QED BY <2>3, <2>4 DEF NameInv
<1> QED BY <1>1, <1>2, NextTouches DEF IInv

LEMMA BlockStep == IInv /\ TableInv' /\ [Next]_vars => BlockInv'
<1> SUFFICES ASSUME IInv, TableInv', [Next]_vars,
                    NEW e \in Fds, m_datas'[e] # None, opening'[e] \in blocks'
             PROVE  opening'[e] \in unblocked'
  BY DEF BlockInv
<1>1. CASE UNCHANGED vars
  BY <1>1 DEF vars, tableVars, kernelVars, userVars, IInv, BlockInv
<1>2. ASSUME NEW t \in Threads, NEW d \in Fds, Touches(t, d), e # d PROVE opening'[e] \in unblocked'
  <2>1. opening'[e] = opening[e] /\ m_datas'[e] = m_datas[e]
    BY <1>2, OtherFds
  <2>2. opening[e] # None /\ (opening[e] \in blocks => opening[e] \in unblocked)
    BY <2>1 DEF IInv, BlockInv, TableInv, EntryOK
  <2> QED BY <1>2, <2>1, <2>2, OtherNames, OtherOpenings
<1>3. ASSUME NEW t \in Threads, Touches(t, e) PROVE opening'[e] \in unblocked'
  <2> USE DEF callVars, tableVars, ctxVars, kernelVars, userVars, Done, Begin, IInv, TypeOK
  <2>1. m_datas[e] # None =>
          (opening[e] \in blocks => opening[e] \in unblocked) /\ m_datas[e] = opening[e]
          /\ opening[e] \in m_isSocket /\ opening[e] \in m_sysNonblock
    BY DEF BlockInv, TableInv, EntryOK
  <2>2. CASE socket(t, e)
    BY <2>2 DEF socket, TableInv, EntryOK
  <2>3. CASE close(t, e) \/ setsockopt(t, e)
    BY <2>1, <2>3 DEF close, setsockopt
  <2>4. CASE (\E v \in BOOLEAN : fcntl(t, e, v)) \/ \E v \in BOOLEAN : ioctl(t, e, v)
    BY <2>1, <2>4 DEF fcntl, ioctl
  <2>5. CASE e = fd[t] /\ (Get(t) \/ Find(t) \/ Setfl(t) \/ Ioctl(t) \/ Opt(t))
    BY <2>1, <2>5 DEF Get, Find, Setfl, Ioctl, SetUserNonblock, Opt
  <2>6. CASE e = fd[t] /\ Create(t)
    BY <2>6 DEF Create, InitCtx
  <2>7. CASE e = fd[t] /\ Del(t)
    BY <2>1, <2>7 DEF Del
  <2>8. CASE e = fd[t] /\ CloseFd(t)
    BY <2>8 DEF CloseFd, CallInv, CallOK
  <2>9. CASE e = fd[t] /\ ForceSetfl(t)
    <3>1. found[t] = m_datas[e] /\ m_datas' = m_datas /\ opening' = opening
      BY <2>9 DEF ForceSetfl, KernelNonblock, CallInv, CallOK, FoundPC
    <3> QED BY <2>1, <2>9, <3>1 DEF ForceSetfl, KernelNonblock, Managed
  <2>10. CASE e = fd[t] /\ PassIoctl(t)
    <3>1. found[t] = m_datas[e] /\ m_datas' = m_datas /\ opening' = opening
      BY <2>10 DEF PassIoctl, KernelNonblock, CallInv, CallOK, FoundPC
    <3>2. Managed(t)
      BY <2>1, <3>1 DEF Managed
    <3> QED BY <2>10, <3>1, <3>2 DEF PassIoctl, KernelNonblock
  <2> QED BY <1>3, <2>2, <2>3, <2>4, <2>5, <2>6, <2>7, <2>8, <2>9, <2>10 DEF Touches, Step
<1> QED BY <1>1, <1>2, <1>3, NextTouches DEF IInv

LEMMA InitIInv == Init => IInv
<1> SUFFICES ASSUME Init PROVE IInv
  OBVIOUS
<1>1. TypeOK
  BY DEF Init, TypeOK, PC, Setting, Default, None
<1>2. CallInv
  BY DEF Init, CallInv, CallOK, AlonePC, SharePC, IoctlPC, FoundPC
<1>3. TableInv
  BY SizeAssumption DEF Init, TableInv, EntryOK
<1>4. NameInv /\ BlockInv
  BY DEF Init, NameInv, BlockInv, Openings, None
<1> QED BY <1>1, <1>2, <1>3, <1>4 DEF IInv

-----------------------------------------------------------------------------
(***************************************************************************)
(* The theorems.                                                           *)
(***************************************************************************)

(* What a thread has read under the table's lock is still so when it uses  *)
(* it after the lock, whatever the other threads do in between.            *)
THEOREM Inductive == Spec => []IInv
<1>1. IInv /\ [Next]_vars => IInv'
  BY TypeStep, CallStep, TableStep, NameStep, BlockStep DEF IInv
<1> QED BY InitIInv, <1>1, PTL DEF Spec

(* Every variable has its type.                                            *)
THEOREM TypeCorrect == Spec => []TypeOK
<1>1. IInv => TypeOK
  BY DEF IInv
<1> QED BY <1>1, Inductive, PTL

(* A managed socket in use has the context made for this opening of its    *)
(* number, through every growth of the table and every reuse of a number.  *)
THEOREM ContextIsOwn == Spec => []OwnContext
<1>1. IInv => OwnContext
  BY EntryIsStored DEF IInv, TableInv, EntryOK, OwnContext, ManagedFds, TypeOK
<1> QED BY <1>1, Inductive, PTL

(* What a context says was asked of this opening of the descriptor.        *)
THEOREM SettingsFollowOpening == Spec => []SettingsAreOwn
<1>1. IInv => SettingsAreOwn
  BY EntryIsStored DEF IInv, TableInv, EntryOK, SettingsAreOwn, ManagedFds, TypeOK
<1> QED BY <1>1, Inductive, PTL

(* A descriptor outside a call has a context only if it is a managed       *)
(* socket: close() leaves nothing behind for the number's next opening.    *)
THEOREM NoContextLeft == Spec => []NoStrayContext
<1>1. IInv => NoStrayContext
  BY EntryIsStored DEF IInv, TableInv, EntryOK, NoStrayContext, ManagedFds, TypeOK, Openings, None
<1> QED BY <1>1, Inductive, PTL

(* A managed socket blocks in the kernel only from an ioctl(FIONBIO, 0),   *)
(* which passes the user's value on, to the next fcntl(F_SETFL) or         *)
(* ioctl(FIONBIO).                                                         *)
THEOREM OnlyFionbioBlocks == Spec => []BlocksOnlyByFionbio
<1>1. IInv => BlocksOnlyByFionbio
  <2> SUFFICES ASSUME IInv, NEW d \in ManagedFds, opening[d] \in blocks
               PROVE  opening[d] \in unblocked
    BY DEF BlocksOnlyByFionbio
  <2>1. d \in Fds /\ m_datas[d] = opening[d] /\ opening[d] # None
    BY DEF IInv, TableInv, EntryOK, ManagedFds, TypeOK
  <2> QED BY <2>1 DEF IInv, BlockInv
<1> QED BY <1>1, Inductive, PTL
=============================================================================
