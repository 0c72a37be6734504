------------------------------ MODULE Coroutine ------------------------------
(***************************************************************************)
(* What asymmetric coroutines promise, without contexts, thread-local      *)
(* pointers or locks.  A thread executes one stack at a time; resuming a   *)
(* coroutine suspends the stack that did it, and a coroutine that yields,  *)
(* or ends, gives the thread back to the stack that resumed it, whichever  *)
(* thread it started on.                                                   *)
(***************************************************************************)
CONSTANTS Threads, Coroutines, Nobody

VARIABLES running,  \* the stack each thread executes, at first its own
          caller,   \* who resumed a coroutine that has not yielded since
          ended     \* coroutines whose function has returned

vars == <<running, caller, ended>>

Init ==
    /\ running = [t \in Threads |-> t]
    /\ caller = [c \in Coroutines |-> Nobody]
    /\ ended = {}

Resume(t, c) ==
    /\ c \notin ended /\ caller[c] = Nobody
    /\ running' = [running EXCEPT ![t] = c]
    /\ caller' = [caller EXCEPT ![c] = running[t]]
    /\ UNCHANGED ended

(* A coroutine yields, or returns from its function.                       *)
GiveBack(t, c) ==
    /\ running[t] = c
    /\ running' = [running EXCEPT ![t] = caller[c]]
    /\ caller' = [caller EXCEPT ![c] = Nobody]
    /\ ended' \in {ended, ended \cup {c}}

(* A coroutine that has ended is given another function.                   *)
Renew(c) ==
    /\ c \in ended
    /\ ended' = ended \ {c}
    /\ UNCHANGED <<running, caller>>

Next ==
    \E c \in Coroutines :
        \/ Renew(c)
        \/ \E t \in Threads : Resume(t, c) \/ GiveBack(t, c)

Spec == Init /\ [][Next]_vars
=============================================================================
