--------------------------- MODULE PriorityQueues ---------------------------
(***************************************************************************)
(* What the scheduler promises (include/gyros/task.h, "Task management"):  *)
(* tasks of one priority take turns in the order they became runnable, and *)
(* a context switch gives the processor to the first one of the highest    *)
(* priority.  Abstractly there is one queue per priority; the kernel       *)
(* implements all of them with the single sorted list _gyros.running.      *)
(*                                                                         *)
(* Any number of tasks may become runnable at once, at the end of their    *)
(* queues, but only one task at a time leaves its place, by its own call   *)
(* or by a call about it; the others keep theirs.  The exception are tasks *)
(* that were made runnable before their timeout was reached.               *)
(***************************************************************************)
EXTENDS GyrosList

CONSTANTS Tasks, Idle, NoTask, Levels
VARIABLES
    queue,    \* the runnable tasks of each priority, first one first
    current,  \* the task that executes
    switch,   \* a context switch has been requested
    timed     \* the tasks that a timeout will make runnable

vars == <<queue, current, switch, timed>>

Occupied == {p \in Levels : queue[p] # <<>>}
First == Head(queue[Max(Occupied)])

Runnable == UNION {ToSet(queue[p]) : p \in Levels}

Init ==
    /\ queue = [p \in Levels |-> <<>>]
    /\ current = NoTask
    /\ switch = FALSE
    /\ timed = {}

\* The tasks of moved leave their places; all others keep theirs.  Whoever
\* joins a queue, a task of moved included, does so behind those that stay.
Requeue(moved) ==
    /\ \A p \in Levels :
           /\ IsPrefix(Keep(queue[p], ToSet(queue[p]) \ moved), queue'[p])
           /\ Distinct(queue'[p])
    /\ \A p, q \in Levels :
           p < q => ToSet(queue'[p]) \cap ToSet(queue'[q]) = {}

\* The current task goes on.  A requested switch stays requested, and one is
\* when the current task is not runnable any more.
GoesOn ==
    /\ current' = current
    /\ switch => switch'
    /\ current # NoTask /\ current \notin Runnable' => switch'

\* At most one task, t, stops being runnable, goes to the end of a queue or
\* gets another priority; t may start to wait for a timeout.
Change(t) ==
    /\ Requeue({t})
    /\ timed' \subseteq IF t \in Runnable' THEN timed ELSE timed \cup {t}
    /\ GoesOn

\* The timeouts of some tasks are reached: they join the ends of their queues.
Timeouts(reached) ==
    /\ Requeue(reached)
    /\ timed' = timed \ reached
    /\ current' = current /\ switch'

\* The idle task starts executing when the scheduler is started.
Start ==
    /\ current = NoTask
    /\ Requeue({}) /\ Idle \in Runnable'
    /\ current' = Idle /\ switch'
    /\ UNCHANGED timed

Switch ==
    /\ switch
    /\ current' = First /\ switch' = FALSE
    /\ UNCHANGED <<queue, timed>>

Next ==
    \/ \E t \in Tasks \cup {NoTask} : Change(t)
    \/ \E reached \in (SUBSET timed) \ {{}} : Timeouts(reached)
    \/ Start
    \/ Switch

Spec == Init /\ [][Next]_vars
=============================================================================
