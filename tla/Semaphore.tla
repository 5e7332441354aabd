----------------------------- MODULE Semaphore -----------------------------
(***************************************************************************)
(* Counting and binary semaphores: src/sem.c.                              *)
(*                                                                         *)
(* A semaphore that is signalled wakes one task, but the unit goes to      *)
(* whoever takes it first: a woken task looks at the value again.          *)
(***************************************************************************)
EXTENDS GyrosServices

CONSTANTS
    Sems,        \* a semaphore names its task_list
    MaxValue,    \* max_value: 1 if initialised as binary, else UINT_MAX
    StartValue   \* the value it is initialised with

ASSUME SemAssumption ==
    /\ Sems \subseteq Objects
    /\ MaxValue \in [Sems -> Nat \ {0}]
    /\ StartValue \in [Sems -> Nat]
    /\ \A s \in Sems : StartValue[s] <= MaxValue[s]

VARIABLES
    value,   \* s->value
    waits    \* the semaphore a task is in a call for

semVars == <<value, waits>>

SemInit ==
    /\ gyros \in Started
    /\ pc = [t \in Tasks |-> "task"]
    /\ value = StartValue
    /\ waits = [t \in Tasks |-> NoList]

TakeUnit(s) == value' = [value EXCEPT ![s] = @ - 1]

\* The call of t blocks on s; k is the kernel state it starts from.
BlockOn(k, t, s, call) ==
    /\ gyros' = Wait(k, s)
    /\ Goto(t, call)
    /\ waits' = [waits EXCEPT ![t] = s]
    /\ UNCHANGED value

\* The call of t returns.
SemReturn(t) ==
    /\ gyros' = ForgetTimeout(gyros, t)
    /\ Goto(t, "task")
    /\ waits' = [waits EXCEPT ![t] = NoList]

\* A failed gyros_sem_try_wait changes nothing.
gyros_sem_try_wait(t, s) ==
    /\ Calls(t)
    /\ value[s] > 0
    /\ TakeUnit(s)
    /\ UNCHANGED <<gyros, pc, waits>>

\* One turn of "while (s->value == 0)".
WaitLoop(t, s) ==
    IF value[s] = 0
    THEN BlockOn(gyros, t, s, "sem_wait")
    ELSE SemReturn(t) /\ TakeUnit(s)

gyros_sem_wait(t, s) == Calls(t) /\ WaitLoop(t, s)

SemWoken(t) == Continues(t, "sem_wait") /\ WaitLoop(t, waits[t])

gyros_sem_wait_until(t, s, timeout) ==
    /\ Calls(t)
    /\ IF value[s] > 0
       THEN TakeUnit(s) /\ UNCHANGED <<gyros, pc, waits>>
       ELSE IF TimeoutReached(gyros, timeout)
       THEN UNCHANGED <<gyros, pc, semVars>>
       ELSE BlockOn(gyros__task_set_timeout(gyros, timeout), t, s, "sem_wait_until")

\* Returns true if there is a unit now, and false otherwise.
WaitUntilGets(t) ==
    /\ Continues(t, "sem_wait_until")
    /\ value[waits[t]] > 0
    /\ SemReturn(t) /\ TakeUnit(waits[t])

WaitUntilFails(t) ==
    /\ Continues(t, "sem_wait_until")
    /\ value[waits[t]] = 0
    /\ SemReturn(t)
    /\ UNCHANGED value

\* A task is woken only if there was no unit before.
Faulty_gyros_sem_signal(s) ==
    /\ IF value[s] < MaxValue[s]
       THEN /\ value' = [value EXCEPT ![s] = @ + 1]
            /\ gyros' = IF value[s] = 0 THEN WakeFirst(gyros, s) ELSE gyros
       ELSE UNCHANGED <<gyros, value>>
    /\ UNCHANGED <<pc, waits>>

\* The woken task may have a higher priority than the caller.
FaultyStay_gyros_sem_signal(s) ==
    /\ IF value[s] < MaxValue[s]
       THEN /\ value' = [value EXCEPT ![s] = @ + 1]
            /\ gyros' = IF Waiters(s) = {} THEN gyros
                        ELSE gyros__task_wake(gyros, Head(gyros.lists[s]))
       ELSE UNCHANGED <<gyros, value>>
    /\ UNCHANGED <<pc, waits>>

\* By a task or by an interrupt handler.
gyros_sem_signal(s) ==
    /\ IF value[s] < MaxValue[s]
       THEN /\ value' = [value EXCEPT ![s] = @ + 1]
            /\ gyros' = WakeFirst(gyros, s)
       ELSE UNCHANGED <<gyros, value>>
    /\ UNCHANGED <<pc, waits>>

SemStep(t) == SemWoken(t) \/ WaitUntilGets(t) \/ WaitUntilFails(t)

SemRest(t) == Rest(t) /\ UNCHANGED semVars
SemResume(t) == Resume(t) /\ UNCHANGED semVars
SemTick == Tick /\ UNCHANGED semVars
SemSwitch == ContextSwitch /\ UNCHANGED semVars

SemNext ==
    \/ SemTick
    \/ SemSwitch
    \/ \E s \in Sems : gyros_sem_signal(s)
    \/ \E t \in AppTasks :
        \/ \E s \in Sems :
            \/ gyros_sem_try_wait(t, s)
            \/ gyros_sem_wait(t, s)
            \/ \E delay \in 0..MaxDelay : gyros_sem_wait_until(t, s, Deadline(delay))
        \/ SemStep(t)
        \/ SemRest(t)
        \/ SemResume(t)

-----------------------------------------------------------------------------
(* Semaphores on their own, and their correctness properties.              *)

semAll == <<gyros, pc, semVars>>

SemSpec == SemInit /\ [][SemNext]_semAll

\* The timer keeps interrupting, a requested switch is made, whoever rests is
\* resumed, a task goes on with the call it is in when it keeps getting the
\* processor, and every semaphore is signalled again and again.
FairSemSpec ==
    /\ SemSpec
    /\ WF_semAll(SemSwitch) /\ WF_semAll(SemTick)
    /\ \A s \in Sems : WF_semAll(gyros_sem_signal(s))
    /\ \A t \in AppTasks : SF_semAll(SemStep(t)) /\ WF_semAll(SemResume(t))

\* Tasks that have been woken in a call for s and have not looked again.
Woken(s) == {t \in AppTasks : waits[t] = s /\ Runs(t)}

\* Whenever tasks wait, every unit of the semaphore has a woken task of its
\* own that is going to look at it, however many signals came before any of
\* the woken tasks ran, and whatever timeouts and other takers did meanwhile.
UnitsNotStranded ==
    \A s \in Sems : Waiters(s) # {} => value[s] <= Cardinality(Woken(s))

\* The task of the highest priority returns from every gyros_sem_wait, whoever
\* else takes units meanwhile.
HighestGetsUnit ==
    \A t \in AppTasks :
        (\A u \in AppTasks \ {t} : BasePriority[u] < BasePriority[t]) =>
            (pc[t] = "sem_wait" ~> pc[t] = "task")
=============================================================================
