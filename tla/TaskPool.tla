------------------------------- MODULE TaskPool -------------------------------
(***************************************************************************)
(* What the scheduler promises to its users, without threads, locks,       *)
(* counters or fibers: tasks are queued in order, each worker takes the    *)
(* first one it may run and holds at most one, work may come from outside  *)
(* until the pool is closing and from a task in hand at any time, and the  *)
(* pool is closed only when nothing is queued or in hand.                  *)
(***************************************************************************)
EXTENDS Integers, Sequences, SequencesExt

CONSTANTS Workers, Tasks, NoTask,
          MayRun(_, _)       \* MayRun(w, t): worker w may run task t

VARIABLES queue,     \* tasks nobody took yet
          held,      \* the task each worker has in hand
          closing,   \* no more work from outside
          closed     \* stop() has returned

poolVars == <<queue, held, closing, closed>>

Init ==
    /\ queue = <<>>
    /\ held = [w \in Workers |-> NoTask]
    /\ closing = FALSE
    /\ closed = FALSE

Busy == \E w \in Workers : held[w] # NoTask

Submit ==
    /\ closing => Busy
    /\ \E t \in Tasks : queue' = Append(queue, t)
    /\ UNCHANGED <<held, closing, closed>>

Takeable(w) == {i \in DOMAIN queue : MayRun(w, queue[i])}

Take(w) ==
    /\ held[w] = NoTask
    /\ Takeable(w) # {}
    /\ LET i == Min(Takeable(w))
       IN  /\ held' = [held EXCEPT ![w] = queue[i]]
           /\ queue' = RemoveAt(queue, i)
    /\ UNCHANGED <<closing, closed>>

Finish(w) ==
    /\ held[w] # NoTask
    /\ held' = [held EXCEPT ![w] = NoTask]
    /\ UNCHANGED <<queue, closing, closed>>

Close ==
    /\ closing' = TRUE
    /\ UNCHANGED <<queue, held, closed>>

Closed ==
    /\ closing
    /\ queue = <<>>
    /\ ~Busy
    /\ closed' = TRUE
    /\ UNCHANGED <<queue, held, closing>>

Next == Submit \/ Close \/ Closed \/ \E w \in Workers : Take(w) \/ Finish(w)

Spec == Init /\ [][Next]_poolVars
=============================================================================
