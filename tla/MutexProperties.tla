-------------------------- MODULE MutexProperties --------------------------
(***************************************************************************)
(* Mutexes on their own, and their correctness properties.                 *)
(***************************************************************************)
EXTENDS Mutex

vars == <<gyros, pc, mutexVars>>

Spec == MutexInit /\ [][MutexNext]_vars

\* No two tasks have locked the same mutex, although each decides on what it
\* loaded some instructions, and maybe some context switches, before it stored.
MutualExclusion ==
    \A t, u \in AppTasks : t # u => holds[t] \cap holds[u] = {}

\* t has been woken to take m, and has not tried yet.
Woken(t, m) == pc[t] = "slow" /\ call[t] = "lock" /\ wants[t] = m /\ Runs(t)

\* A free mutex that tasks wait for has one of them woken: an unlock never
\* overlooks a waiter that came after its load of the list.
NoLostWakeup ==
    \A m \in Mutexes :
        owner[m] = NoTask /\ Waiters(m) # {} => \E t \in AppTasks : Woken(t, m)

\* The owner of a mutex has at least the priority of all that wait for it
\* (mutex.h:44: it "inherits the high priority until it unlocks the mutes").
OwnerInherits ==
    \A m \in Mutexes : owner[m] # NoTask =>
        \A t \in Waiters(m) : gyros.priority[t] <= gyros.priority[owner[m]]

\* A task that owns no mutex has its own priority.
PriorityRestored ==
    \A t \in AppTasks :
        gyros.priority[t] # gyros.base_priority[t] => \E m \in Mutexes : owner[m] = t

\* "This prevents the high priority task from getting starved by medium
\* priority tasks which starve the low priority task" (mutex.h:47): while the
\* owner can run, nobody of less priority than a waiter executes.
NoPriorityInversion ==
    \A m \in Mutexes, t \in AppTasks :
        /\ t \in Waiters(m)
        /\ owner[m] # NoTask /\ Runs(owner[m])
        /\ ~gyros.pendsv
        => gyros.priority[t] <= gyros.priority[gyros.current]
=============================================================================
