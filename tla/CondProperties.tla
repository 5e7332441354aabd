--------------------------- MODULE CondProperties ---------------------------
(***************************************************************************)
(* Condition variables used the way they are meant to be, and their        *)
(* correctness properties.                                                 *)
(*                                                                         *)
(* The tasks share a flag, guarded by a mutex.  A task that finds it clear *)
(* waits for a condition; a task that sets it signals the condition before *)
(* it does anything else; a task whose wait returns, for whatever reason,  *)
(* looks at the flag again and clears it.                                  *)
(***************************************************************************)
EXTENDS CondVar

VARIABLES
    ready,   \* the flag
    owes     \* tasks that have set the flag and not signalled yet

condAll == <<gyros, pc, mutexVars, condVars, ready, owes>>

CondStart == CondInit /\ ready = FALSE /\ owes = {}

\* t may do as it likes.
Free(t) == ~Waiting(t) /\ t \notin owes

LockStep(t) ==
    /\ Free(t)
    /\ \E m \in Mutexes : gyros_mutex_lock(t, m) \/ gyros_mutex_unlock(t, m)
    /\ UNCHANGED <<condVars, ready, owes>>

RestStep(t) ==
    /\ Free(t)
    /\ MutexRest(t)
    /\ UNCHANGED <<condVars, ready, owes>>

ResumeStep(t) == MutexResume(t) /\ UNCHANGED <<condVars, ready, owes>>

WaitStep(t, m) ==
    /\ Free(t) /\ ~ready
    /\ \E c \in Conds :
        \/ gyros_cond_wait(t, c, m)
        \/ \E delay \in 0..MaxDelay : gyros_cond_wait_until(t, c, m, Deadline(delay))
    /\ UNCHANGED <<ready, owes>>

Produce(t, m) ==
    /\ Free(t) /\ Calls(t) /\ m \in holds[t]
    /\ ~ready /\ ready' = TRUE
    /\ owes' = owes \cup {t}
    /\ UNCHANGED <<gyros, pc, mutexVars, condVars>>

SignalStep(t) ==
    /\ t \in owes /\ owes' = owes \ {t}
    /\ \E c \in Conds : gyros_cond_signal_one(t, c) \/ gyros_cond_signal_all(t, c)
    /\ UNCHANGED ready

ReturnStep(t) ==
    /\ CondReturn(t)
    /\ ready' = FALSE
    /\ UNCHANGED owes

InsideStep(t) == CondStep(t) /\ UNCHANGED <<ready, owes>>

SwitchStep == CondSwitch /\ UNCHANGED <<ready, owes>>
TickStep == CondTick /\ UNCHANGED <<ready, owes>>

CondNext ==
    \/ SwitchStep
    \/ TickStep
    \/ \E t \in AppTasks :
        \/ LockStep(t) \/ RestStep(t) \/ ResumeStep(t)
        \/ \E m \in Mutexes : WaitStep(t, m) \/ Produce(t, m)
        \/ SignalStep(t) \/ ReturnStep(t) \/ InsideStep(t)

CondSpec == CondStart /\ [][CondNext]_condAll

\* The timer keeps interrupting, a requested switch is made, a task goes on
\* with the code it is in, and unlocks what it has locked.
FairCondSpec ==
    /\ CondSpec
    /\ WF_condAll(SwitchStep) /\ WF_condAll(TickStep)
    /\ \A t \in AppTasks :
        /\ WF_condAll(ResumeStep(t))
        /\ SF_condAll(InsideStep(t)) /\ SF_condAll(ReturnStep(t)) /\ SF_condAll(SignalStep(t))
        /\ \A m \in Mutexes :
            SF_condAll(Free(t) /\ gyros_mutex_unlock(t, m) /\ UNCHANGED <<condVars, ready, owes>>)

-----------------------------------------------------------------------------
\* The flag is never set while all that want to see it are in the list and
\* nobody is going to signal them: no signal falls between the moment a wait
\* unlocks the mutex and the moment the task is in the list (cond.h:98).
NoLostSignal ==
    \A c \in Conds :
        ready /\ Waiters(c) # {} =>
            \/ owes # {}
            \/ \E t \in AppTasks : cond[t] = c /\ t \notin Waiters(c)

\* "Locked again before returning" (cond.h:99), also by a wait whose time has
\* been reached when it is called: what a task takes for locked it owns.
LockedAfterWait ==
    \A t \in AppTasks : \A m \in holds[t] : owner[m] = t

\* Once a wait has been signalled or has timed out, its result stands, however
\* long the task then waits for the mutex (cond.h:113).
ResultStands ==
    [][\A t \in AppTasks :
          /\ Waiting(t) /\ t \notin Waiters(cond[t])
          /\ cond'[t] = cond[t]
          => gyros'.timed_out[t] = gyros.timed_out[t]]_condAll

\* The task of the highest priority returns from every wait with a timeout,
\* although nobody signals it and lower tasks lock the mutex meanwhile.
TimedWaitReturns ==
    \A t \in AppTasks :
        (\A u \in AppTasks \ {t} : BasePriority[u] < BasePriority[t]) =>
            (timed[t] ~> ~timed[t])
=============================================================================
