------------------------------ MODULE CondVar ------------------------------
(***************************************************************************)
(* Condition variables: src/cond.c, on top of the mutexes of module Mutex. *)
(*                                                                         *)
(* A wait gives the mutex up and enters the list of the condition in one   *)
(* step, since interrupts stay disabled from the one to the other.  A task *)
(* that has been woken locks the mutex with gyros_mutex_lock, as module    *)
(* Mutex describes, before its wait returns.                               *)
(***************************************************************************)
EXTENDS Mutex

CONSTANT Conds   \* a condition variable names its task_list

ASSUME CondAssumption == Conds \subseteq Objects /\ Conds \cap Mutexes = {}

VARIABLES
    cond,    \* the condition variable a task is in a wait for
    timed    \* that wait is a gyros_cond_wait_until

condVars == <<cond, timed>>

CondInit ==
    /\ MutexInit
    /\ cond = [t \in Tasks |-> NoList]
    /\ timed = [t \in Tasks |-> FALSE]

Waiting(t) == cond[t] # NoList

\* t is in its own code, not in gyros_mutex_lock called by a wait.
CondCalls(t) == Calls(t) /\ ~Waiting(t)

\* The mutex is released for c; k is the kernel state the wait starts from.
ReleaseAndWait(k, t, c, m) ==
    /\ gyros' = Wait(UnlockSlow(k, m, FALSE), c)
    /\ owner' = [owner EXCEPT ![m] = NoTask]
    /\ holds' = [holds EXCEPT ![t] = @ \ {m}]
    /\ wants' = [wants EXCEPT ![t] = m]
    /\ cond' = [cond EXCEPT ![t] = c]
    /\ Goto(t, "cond")
    /\ UNCHANGED <<call, monitor>>

gyros_cond_wait(t, c, m) ==
    /\ CondCalls(t) /\ m \in holds[t]
    /\ ReleaseAndWait(gyros, t, c, m)
    /\ UNCHANGED timed

\* The mutex is released before the timeout is looked at.
Faulty_gyros_cond_wait_until(t, c, m, timeout) ==
    /\ CondCalls(t) /\ m \in holds[t]
    /\ IF TimeoutReached(gyros, timeout)
       THEN /\ gyros' = UnlockSlow(gyros, m, FALSE)
            /\ owner' = [owner EXCEPT ![m] = NoTask]
            /\ UNCHANGED <<pc, call, wants, holds, monitor, condVars>>
       ELSE /\ ReleaseAndWait(gyros__task_set_timeout(gyros, timeout), t, c, m)
            /\ timed' = [timed EXCEPT ![t] = TRUE]

\* Returns false, with the mutex locked, if the time has been reached.
gyros_cond_wait_until(t, c, m, timeout) ==
    /\ CondCalls(t) /\ m \in holds[t]
    /\ IF TimeoutReached(gyros, timeout)
       THEN UNCHANGED <<gyros, pc, mutexVars, condVars>>
       ELSE /\ ReleaseAndWait(gyros__task_set_timeout(gyros, timeout), t, c, m)
            /\ timed' = [timed EXCEPT ![t] = TRUE]

\* gyros_mutex_lock(m), after a signal or a timeout.
CondWoken(t) ==
    /\ Continues(t, "cond")
    /\ Enter(t, "lock", wants[t])
    /\ UNCHANGED <<gyros, owner, holds, monitor, condVars>>

\* The mutex is locked and the wait returns; gyros_cond_wait_until returns
\* whether timed_out is false.
CondReturn(t) ==
    /\ Calls(t) /\ Waiting(t)
    /\ gyros' = ForgetTimeout(gyros, t)
    /\ cond' = [cond EXCEPT ![t] = NoList]
    /\ timed' = [timed EXCEPT ![t] = FALSE]
    /\ UNCHANGED <<pc, mutexVars>>

\* A list with one task in it is taken for an empty one.
Faulty_gyros_cond_signal_one(t, c) ==
    /\ CondCalls(t)
    /\ gyros' = IF Cardinality(Waiters(c)) <= 1 THEN gyros ELSE WakeFirst(gyros, c)
    /\ UNCHANGED <<pc, mutexVars, condVars>>

gyros_cond_signal_one(t, c) ==
    /\ CondCalls(t)
    /\ gyros' = WakeFirst(gyros, c)
    /\ UNCHANGED <<pc, mutexVars, condVars>>

\* The last task first, and one reschedule after all of them.
gyros_cond_signal_all(t, c) ==
    /\ CondCalls(t)
    /\ gyros' = IF Waiters(c) = {}
                THEN gyros
                ELSE gyros__cond_reschedule(WakeAllFromTail(gyros, c))
    /\ UNCHANGED <<pc, mutexVars, condVars>>

CondTick ==
    /\ Tick
    /\ monitor' = FALSE
    /\ UNCHANGED <<owner, call, wants, holds, condVars>>

\* A step of the mutex code, whoever called it, and of the surroundings.
CondStep(t) == (MutexStep(t) /\ UNCHANGED condVars) \/ CondWoken(t)

CondSwitch == MutexSwitch /\ UNCHANGED condVars
=============================================================================
