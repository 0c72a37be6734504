------------------------------ MODULE FdManager ------------------------------
(***************************************************************************)
(* The table of descriptor contexts of fiber_lib/6hook (fd_manager_ly.cpp) *)
(* and the hooked calls that live on it (hook_ly.cpp): socket(), accept(), *)
(* close(), fcntl(), ioctl() and setsockopt().                             *)
(*                                                                         *)
(* A socket is non-blocking in the kernel whatever the user asked for; the *)
(* context keeps what the user asked for.  Threads share the table, whose  *)
(* sections under m_mutex are one action each; get() has two, and grows    *)
(* the table in the second.  Numbers of closed descriptors are used again. *)
(*                                                                         *)
(* Every opening of a descriptor has a name, which is that of the context  *)
(* socket() makes for it too.  A name is used again when neither the       *)
(* kernel nor the table has it any more.  m_isClosed is left out: no code  *)
(* sets it.                                                                *)
(***************************************************************************)
EXTENDS Integers

CONSTANTS Threads,
          Unhooked,      \* the threads with t_hook_enable = false
          Fds,           \* descriptors
          InitialSize,   \* of m_datas
          Timeouts,      \* milliseconds that setsockopt() is asked for
          NoFd, NoTimeout,
          MaxOpenings    \* how many openings have names

ASSUME FdAssumption == Fds \subseteq Nat /\ NoFd \notin Fds /\ Unhooked \subseteq Threads

(* With 0 or 1, fd * 1.5 would not be greater than fd.                     *)
ASSUME SizeAssumption == InitialSize \in Nat /\ InitialSize >= 2

ASSUME ValueAssumption == NoTimeout \notin Timeouts

ASSUME BoundAssumption == MaxOpenings \in Nat

Openings == 1..MaxOpenings

None == 0 \* no opening: a closed descriptor, a null context

(* A FdCtx after init(), or the user's view of a descriptor.               *)
Setting == [nonblock : BOOLEAN, timeout : Timeouts \cup {NoTimeout}]

Default == [nonblock |-> FALSE, timeout |-> NoTimeout]

(***************************************************************************)
(* Where a thread is in a hooked call: "get" and "create" are the two      *)
(* sections of get(fd, true); "find..." is get(fd) of the other calls.     *)
(***************************************************************************)
PC == {"run", "get", "create", "findClose", "del", "close", "findSetfl", "setfl", "forceSetfl",
       "findIoctl", "ioctl", "passIoctl", "findOpt", "opt"}

VARIABLES pc, fd, value, found, \* a thread's call, its descriptor and argument, its ctx
          m_size, m_datas,      \* the table
          m_isSocket, m_sysNonblock, m_user, \* contexts, by opening
          \* the kernel
          opening,              \* the opening a descriptor belongs to now
          blocks,               \* openings whose O_NONBLOCK is off
          \* the user
          usable,               \* descriptors that socket() has returned
          managed,              \* openings made by hooked threads
          asked,                \* what was asked of each opening
          unblocked             \* managed openings whose last flag call was ioctl(FIONBIO, 0)

callVars   == <<pc, fd, value, found>>
tableVars  == <<m_size, m_datas>>
ctxVars    == <<m_isSocket, m_sysNonblock, m_user>>
kernelVars == <<opening, blocks>>
userVars   == <<usable, managed, asked, unblocked>>
vars == <<callVars, tableVars, ctxVars, kernelVars, userVars>>

Init ==
    /\ pc = [t \in Threads |-> "run"]
    /\ fd = [t \in Threads |-> NoFd]
    /\ value = [t \in Threads |-> FALSE]
    /\ found = [t \in Threads |-> None]
    /\ m_size = InitialSize
    /\ m_datas = [d \in Fds |-> None]
    /\ m_isSocket = {}
    /\ m_sysNonblock = {}
    /\ m_user = [n \in Openings |-> Default]
    /\ opening = [d \in Fds |-> None]
    /\ blocks = {}
    /\ usable = {}
    /\ managed = {}
    /\ asked = [n \in Openings |-> Default]
    /\ unblocked = {}

Hooked == Threads \ Unhooked

Go(t, place) == pc' = [pc EXCEPT ![t] = place]

(* The call returns.                                                       *)
Done(t) ==
    /\ Go(t, "run")
    /\ fd' = [fd EXCEPT ![t] = NoFd]
    /\ value' = [value EXCEPT ![t] = FALSE]
    /\ found' = [found EXCEPT ![t] = None]

(* m_datas[d] as get(d) reads it.                                          *)
Entry(d) == IF d < m_size THEN m_datas[d] ELSE None

(* m_datas.resize(n).                                                      *)
Resized(n) == [d \in Fds |-> IF d < n THEN Entry(d) ELSE None]

-----------------------------------------------------------------------------
Unnamed(n) == \A d \in Fds : opening[d] # n /\ m_datas[d] # n

(***************************************************************************)
(* socket(), and accept() once it has a descriptor: socket_f() takes a     *)
(* free number.                                                            *)
(***************************************************************************)
socket(t, d) == \E n \in Openings :
    /\ pc[t] = "run" /\ opening[d] = None
    /\ Unnamed(n) /\ \A m \in Openings : m < n => ~Unnamed(m)
    /\ opening' = [opening EXCEPT ![d] = n]
    /\ blocks' = blocks \cup {n}
    /\ IF t \in Hooked
         THEN /\ managed' = managed \cup {n}
              /\ fd' = [fd EXCEPT ![t] = d]
              /\ Go(t, "get")
              /\ UNCHANGED usable
         ELSE /\ usable' = usable \cup {d}
              /\ UNCHANGED <<managed, fd, pc>>
    /\ UNCHANGED <<value, found, tableVars, ctxVars, asked, unblocked>>

(* get(fd, true) under the shared lock: an existing context is returned.   *)
Get(t) ==
    /\ pc[t] = "get"
    /\ IF Entry(fd[t]) # None
         THEN usable' = usable \cup {fd[t]} /\ Done(t)
         ELSE Go(t, "create") /\ UNCHANGED <<fd, value, found, usable>>
    /\ UNCHANGED <<tableVars, ctxVars, kernelVars, managed, asked, unblocked>>

(* FdCtx::init(): a socket is made non-blocking.                           *)
InitCtx(d) ==
    LET n == opening[d] IN
    /\ m_isSocket' = m_isSocket \cup {n}
    /\ m_sysNonblock' = m_sysNonblock \cup {n}
    /\ blocks' = blocks \ {n}
    /\ m_user' = [m_user EXCEPT ![n] = Default]

(* Mutant: the size is not looked at again.                                *)
CreateResizes(t) ==
    LET d == fd[t]
        size == (d * 3) \div 2
    IN
    /\ pc[t] = "create"
    /\ m_size' = size
    /\ m_datas' = [Resized(size) EXCEPT ![d] = IF d < size THEN opening[d] ELSE @]
    /\ InitCtx(d)
    /\ usable' = usable \cup {d}
    /\ Done(t)
    /\ UNCHANGED <<opening, managed, asked, unblocked>>

(* Mutant: grows by fd, not to fd * 1.5.                                   *)
CreateGrowsBy(t) ==
    LET d == fd[t]
        size == IF m_size <= d THEN m_size + d ELSE m_size
    IN
    /\ pc[t] = "create"
    /\ m_size' = size
    /\ m_datas' = [Resized(size) EXCEPT ![d] = IF d < size THEN opening[d] ELSE @]
    /\ InitCtx(d)
    /\ usable' = usable \cup {d}
    /\ Done(t)
    /\ UNCHANGED <<opening, managed, asked, unblocked>>

(* Under the exclusive lock: grow if it is still too small, then make the  *)
(* context and put it into the table.                                      *)
Create(t) ==
    LET d == fd[t]
        size == IF m_size <= d THEN (d * 3) \div 2 ELSE m_size
    IN
    /\ pc[t] = "create"
    /\ m_size' = size
    /\ m_datas' = [Resized(size) EXCEPT ![d] = IF d < size THEN opening[d] ELSE @]
    /\ InitCtx(d)
    /\ usable' = usable \cup {d}
    /\ Done(t)
    /\ UNCHANGED <<opening, managed, asked, unblocked>>

-----------------------------------------------------------------------------
(***************************************************************************)
(* The other calls.  Threads may share a descriptor; who closes it knows   *)
(* that nobody uses it, and is hooked if its opener was.                   *)
(***************************************************************************)
Unused(d) == \A t \in Threads : fd[t] # d

Begin(t, d, place) ==
    /\ pc[t] = "run" /\ d \in usable
    /\ fd' = [fd EXCEPT ![t] = d]
    /\ Go(t, place)

close(t, d) ==
    /\ Unused(d) /\ (opening[d] \in managed => t \in Hooked)
    /\ Begin(t, d, IF t \in Hooked THEN "findClose" ELSE "close")
    /\ usable' = usable \ {d}
    /\ UNCHANGED <<value, found, tableVars, ctxVars, kernelVars, managed, asked, unblocked>>

(* fcntl(F_SETFL) and ioctl(FIONBIO) do not look at t_hook_enable.         *)
fcntl(t, d, v) ==
    /\ Begin(t, d, "findSetfl")
    /\ value' = [value EXCEPT ![t] = v]
    /\ UNCHANGED <<found, tableVars, ctxVars, kernelVars, userVars>>

ioctl(t, d, v) ==
    /\ Begin(t, d, "findIoctl")
    /\ value' = [value EXCEPT ![t] = v]
    /\ UNCHANGED <<found, tableVars, ctxVars, kernelVars, userVars>>

setsockopt(t, d) ==
    /\ t \in Hooked
    /\ Begin(t, d, "findOpt")
    /\ UNCHANGED <<value, found, tableVars, ctxVars, kernelVars, userVars>>

(* Mutant: close() without del().                                          *)
FindOnly(t) ==
    /\ pc[t] \in {"findClose", "findSetfl", "findIoctl", "findOpt"}
    /\ found' = [found EXCEPT ![t] = Entry(fd[t])]
    /\ Go(t, CASE pc[t] = "findClose" -> "close"
               [] pc[t] = "findSetfl" -> "setfl"
               [] pc[t] = "findIoctl" -> "ioctl"
               [] pc[t] = "findOpt" -> "opt")
    /\ UNCHANGED <<fd, value, tableVars, ctxVars, kernelVars, userVars>>

(* get(fd).                                                                *)
Find(t) ==
    /\ pc[t] \in {"findClose", "findSetfl", "findIoctl", "findOpt"}
    /\ found' = [found EXCEPT ![t] = Entry(fd[t])]
    /\ Go(t, CASE pc[t] = "findClose" -> IF Entry(fd[t]) = None THEN "close" ELSE "del"
               [] pc[t] = "findSetfl" -> "setfl"
               [] pc[t] = "findIoctl" -> "ioctl"
               [] pc[t] = "findOpt" -> "opt")
    /\ UNCHANGED <<fd, value, tableVars, ctxVars, kernelVars, userVars>>

(* Mutant: one off in the comparison with the size.                        *)
DelBelow(t) ==
    /\ pc[t] = "del"
    /\ m_datas' = [m_datas EXCEPT ![fd[t]] = IF fd[t] + 1 < m_size THEN None ELSE @]
    /\ m_isSocket' = m_isSocket \ {found[t]}
    /\ m_sysNonblock' = m_sysNonblock \ {found[t]}
    /\ m_user' = [m_user EXCEPT ![found[t]] = Default]
    /\ Go(t, "close")
    /\ UNCHANGED <<fd, value, found, m_size, kernelVars, userVars>>

(* cancelAll() is in Hook.tla; del().  close() has the last reference.     *)
Del(t) ==
    /\ pc[t] = "del"
    /\ m_datas' = [m_datas EXCEPT ![fd[t]] = IF fd[t] < m_size THEN None ELSE @]
    /\ m_isSocket' = m_isSocket \ {found[t]}
    /\ m_sysNonblock' = m_sysNonblock \ {found[t]}
    /\ m_user' = [m_user EXCEPT ![found[t]] = Default]
    /\ Go(t, "close")
    /\ UNCHANGED <<fd, value, found, m_size, kernelVars, userVars>>

(* close_f().                                                              *)
CloseFd(t) ==
    /\ pc[t] = "close"
    /\ opening' = [opening EXCEPT ![fd[t]] = None]
    /\ blocks' = blocks \ {opening[fd[t]]}
    /\ managed' = managed \ {opening[fd[t]]}
    /\ asked' = [asked EXCEPT ![opening[fd[t]]] = Default]
    /\ unblocked' = unblocked \ {opening[fd[t]]}
    /\ Done(t)
    /\ UNCHANGED <<tableVars, ctxVars, usable>>

Managed(t) == found[t] \in m_isSocket

(* setUserNonblock(), by either call; without a context the kernel gets    *)
(* what the user asked for.                                                *)
SetUserNonblock(t, next) ==
    /\ IF Managed(t)
         THEN /\ m_user' = [m_user EXCEPT ![found[t]].nonblock = value[t]]
              /\ asked' = [asked EXCEPT ![opening[fd[t]]].nonblock = value[t]]
         ELSE UNCHANGED <<m_user, asked>>
    /\ Go(t, next)
    /\ UNCHANGED <<fd, value, found, tableVars, m_isSocket, m_sysNonblock, kernelVars, usable,
                   managed, unblocked>>

(* fcntl_f(F_SETFL) or ioctl_f(FIONBIO) with this flag.                    *)
KernelNonblock(t, v) ==
    /\ blocks' = IF v THEN blocks \ {opening[fd[t]]} ELSE blocks \cup {opening[fd[t]]}
    /\ Done(t)
    /\ UNCHANGED <<tableVars, ctxVars, opening, usable, managed, asked>>

Setfl(t) == pc[t] = "setfl" /\ SetUserNonblock(t, "forceSetfl")

(* Mutant: the user's flag is passed on.                                   *)
PassSetfl(t) ==
    /\ pc[t] = "forceSetfl"
    /\ KernelNonblock(t, value[t])
    /\ unblocked' = unblocked \ {opening[fd[t]]}

(* The flag of a managed socket follows getSysNonblock().                  *)
ForceSetfl(t) ==
    /\ pc[t] = "forceSetfl"
    /\ KernelNonblock(t, IF Managed(t) THEN found[t] \in m_sysNonblock ELSE value[t])
    /\ unblocked' = unblocked \ {opening[fd[t]]}

Ioctl(t) == pc[t] = "ioctl" /\ SetUserNonblock(t, "passIoctl")

(* The argument is passed on as it is, also that of a managed socket.      *)
PassIoctl(t) ==
    /\ pc[t] = "passIoctl"
    /\ KernelNonblock(t, value[t])
    /\ unblocked' = IF Managed(t) /\ ~value[t] THEN unblocked \cup {opening[fd[t]]}
                                              ELSE unblocked \ {opening[fd[t]]}

(* setTimeout().                                                           *)
Opt(t) ==
    /\ pc[t] = "opt"
    /\ IF found[t] # None
         THEN \E ms \in Timeouts :
                /\ m_user' = [m_user EXCEPT ![found[t]].timeout = ms]
                /\ asked' = [asked EXCEPT ![opening[fd[t]]].timeout = ms]
         ELSE UNCHANGED <<m_user, asked>>
    /\ Done(t)
    /\ UNCHANGED <<tableVars, m_isSocket, m_sysNonblock, kernelVars, usable, managed, unblocked>>

-----------------------------------------------------------------------------
Call(t) ==
    \E d \in Fds :
        \/ socket(t, d) \/ close(t, d) \/ setsockopt(t, d)
        \/ \E v \in BOOLEAN : fcntl(t, d, v) \/ ioctl(t, d, v)

Step(t) ==
    \/ Get(t) \/ Create(t) \/ Find(t) \/ Del(t) \/ CloseFd(t)
    \/ Setfl(t) \/ ForceSetfl(t) \/ Ioctl(t) \/ PassIoctl(t) \/ Opt(t)

Next == \E t \in Threads : Call(t) \/ Step(t)

Spec == Init /\ [][Next]_vars

-----------------------------------------------------------------------------
(***************************************************************************)
(* Properties.                                                             *)
(***************************************************************************)

(* Every variable has its type.                                            *)
TypeOK ==
    /\ pc \in [Threads -> PC]
    /\ fd \in [Threads -> Fds \cup {NoFd}]
    /\ value \in [Threads -> BOOLEAN]
    /\ found \in [Threads -> Openings \cup {None}]
    /\ m_size \in {InitialSize} \cup {(d * 3) \div 2 : d \in Fds}
    /\ m_datas \in [Fds -> Openings \cup {None}]
    /\ m_isSocket \subseteq Openings /\ m_sysNonblock \subseteq Openings
    /\ m_user \in [Openings -> Setting]
    /\ opening \in [Fds -> Openings \cup {None}]
    /\ blocks \subseteq Openings /\ managed \subseteq Openings
    /\ usable \subseteq Fds
    /\ asked \in [Openings -> Setting] /\ unblocked \subseteq Openings

ManagedFds == {d \in usable : opening[d] \in managed}

(* A socket that socket() has returned to a hooked thread has the context  *)
(* that was made for it: growing the table for one descriptor drops no     *)
(* other's, no context is written beyond the end, and closing a descriptor *)
(* while its number is taken again deletes neither too much nor too little.*)
OwnContext == \A d \in ManagedFds : Entry(d) = opening[d]

(* What do_io() reads of a descriptor is what was asked of this opening of *)
(* it, nothing that was asked of an earlier one with the same number.      *)
SettingsAreOwn ==
    \A d \in ManagedFds : Entry(d) # None /\ m_user[Entry(d)] = asked[opening[d]]

(* A managed socket is non-blocking in the kernel, so that no hooked call  *)
(* blocks its thread, unless the last call that set its flag was an        *)
(* ioctl(FIONBIO, 0): neither fcntl(F_SETFL), where "the system setting    *)
(* decides", nor a new opening of its number leaves it blocking, and the   *)
(* next fcntl() undoes what the ioctl() did.                               *)
BlocksOnlyByFionbio ==
    \A d \in ManagedFds : opening[d] \in blocks => opening[d] \in unblocked

(* A descriptor that is not a managed socket has no context, so its calls  *)
(* go straight to the kernel.                                              *)
NoStrayContext ==
    \A d \in Fds : Entry(d) # None /\ (\A t \in Threads : fd[t] # d) => d \in ManagedFds
=============================================================================
