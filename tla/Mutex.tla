------------------------------- MODULE Mutex -------------------------------
(***************************************************************************)
(* Mutexes with priority inheritance: src/mutex.c and the inline functions *)
(* of include/gyros/mutex.h.                                               *)
(*                                                                         *)
(* With FastPath (a Cortex-M without GYROS_CONFIG_DEBUG) a mutex is locked *)
(* and unlocked by a load-exclusive and a store-exclusive instruction,     *)
(* each a step of its own; the store fails when the exclusive monitor has  *)
(* been cleared, which every exception does.  Otherwise, and when the fast *)
(* path does not apply, the _slow functions do the work with interrupts    *)
(* disabled.                                                               *)
(***************************************************************************)
EXTENDS GyrosServices

CONSTANTS
    Mutexes,       \* a mutex names its task_list
    FastPath,      \* the ldrex/strex code is compiled in
    NewPriorities, \* priorities that gyros_task_set_priority is called with,
    PriorityOfUsers \* also for a task that has or wants a mutex

ASSUME MutexAssumption ==
    /\ Mutexes \subseteq Objects
    /\ {FastPath, PriorityOfUsers} \subseteq BOOLEAN
    /\ NewPriorities \subseteq Priorities

VARIABLES
    owner,    \* m->owner
    call,     \* the mutex function a task is in, and
    wants,    \* the mutex it was called with
    holds,    \* the mutexes a task has locked, as its own code sees it
    monitor   \* the exclusive monitor of the processor is set

mutexVars == <<owner, call, wants, holds, monitor>>

NoMutex == NoList

MutexInit ==
    /\ gyros \in Started
    /\ pc = [t \in Tasks |-> "task"]
    /\ owner = [m \in Mutexes |-> NoTask]
    /\ call = [t \in Tasks |-> "none"]
    /\ wants = [t \in Tasks |-> NoMutex]
    /\ holds = [t \in Tasks |-> {}]
    /\ monitor = FALSE

Enter(t, function, m) ==
    /\ Goto(t, IF FastPath THEN "ldrex" ELSE "slow")
    /\ call' = [call EXCEPT ![t] = function]
    /\ wants' = [wants EXCEPT ![t] = m]

\* The function t is in returns and has locked the mutexes in locked.
Leave(t, locked) ==
    /\ Goto(t, "task")
    /\ call' = [call EXCEPT ![t] = "none"]
    /\ wants' = [wants EXCEPT ![t] = NoMutex]
    /\ holds' = [holds EXCEPT ![t] = @ \cup locked]

\* t continues in a mutex function.
Inside(t, where, functions) == Continues(t, where) /\ call[t] \in functions

-----------------------------------------------------------------------------
(* The calls.  A task must not lock a mutex it owns, nor unlock one it     *)
(* does not own.                                                           *)

gyros_mutex_try_lock(t, m) ==
    /\ Calls(t) /\ m \notin holds[t]
    /\ Enter(t, "try_lock", m)
    /\ UNCHANGED <<gyros, owner, holds, monitor>>

gyros_mutex_lock(t, m) ==
    /\ Calls(t) /\ m \notin holds[t]
    /\ Enter(t, "lock", m)
    /\ UNCHANGED <<gyros, owner, holds, monitor>>

gyros_mutex_unlock(t, m) ==
    /\ Calls(t) /\ m \in holds[t]
    /\ Enter(t, "unlock", m)
    /\ holds' = [holds EXCEPT ![t] = @ \ {m}]
    /\ UNCHANGED <<gyros, owner, monitor>>

\* gyros_ldrex_p(&m->owner) == NULL, or for gyros_mutex_unlock
\* gyros_ldrex_p(&m->task_list.next) == &m->task_list.
gyros_ldrex_p(t) ==
    LET m == wants[t]
        expected == IF call[t] = "unlock" THEN Waiters(m) = {} ELSE owner[m] = NoTask
    IN  /\ Continues(t, "ldrex")
        /\ monitor' = TRUE
        /\ Goto(t, IF expected THEN "strex" ELSE "slow")
        /\ UNCHANGED <<gyros, owner, call, wants, holds>>

\* The store of the fast path.
Store(t) ==
    LET m == wants[t]
        unlock == call[t] = "unlock"
    IN  /\ owner' = [owner EXCEPT ![m] = IF unlock THEN NoTask ELSE t]
        /\ Leave(t, IF unlock THEN {} ELSE {m})

\* An ordinary store, whatever happened since the load.
Faulty_gyros_strex_p(t) ==
    /\ Continues(t, "strex")
    /\ monitor' = FALSE
    /\ Store(t)
    /\ UNCHANGED gyros

\* gyros_strex_p(&m->owner, ...): if it fails the loop starts again.
gyros_strex_p(t) ==
    /\ Continues(t, "strex")
    /\ monitor' = FALSE
    /\ IF monitor
       THEN Store(t)
       ELSE Goto(t, "ldrex") /\ UNCHANGED <<owner, call, wants, holds>>
    /\ UNCHANGED gyros

-----------------------------------------------------------------------------
(* The slow functions.                                                     *)

gyros__mutex_try_lock_slow(t) ==
    /\ Inside(t, "slow", {"try_lock"})
    /\ IF owner[wants[t]] = NoTask
       THEN owner' = [owner EXCEPT ![wants[t]] = t] /\ Leave(t, {wants[t]})
       ELSE Leave(t, {}) /\ UNCHANGED owner
    /\ UNCHANGED <<gyros, monitor>>

\* The owner of m keeps its priority.
Faulty_Inherit(k, m) == k

\* The owner stays where it is in the list of running tasks.
FaultyPlace_Inherit(k, m) ==
    IF k.priority[owner[m]] < k.priority[k.current]
    THEN [k EXCEPT !.priority[owner[m]] = k.priority[k.current]]
    ELSE k

\* The owner of m inherits the priority of the current task.
Inherit(k, m) ==
    IF k.priority[owner[m]] < k.priority[k.current]
    THEN gyros__set_priority(k, owner[m], k.priority[k.current])
    ELSE k

\* One turn of "while (m->owner != NULL)", from the call or after a wake-up.
gyros__mutex_lock_slow(t) ==
    LET m == wants[t]
    IN  /\ Inside(t, "slow", {"lock"})
        /\ IF owner[m] = NoTask
           THEN /\ owner' = [owner EXCEPT ![m] = t]
                /\ Leave(t, {m})
                /\ UNCHANGED gyros
           ELSE /\ gyros' = gyros__reschedule(Inherit(gyros__task_move(gyros, t, m), m))
                /\ UNCHANGED <<pc, owner, call, wants, holds>>
        /\ UNCHANGED monitor

\* A task keeps the priority it has inherited.
Faulty_Disinherit(k) == k

\* A task that has inherited a priority gets its own back.
Disinherit(k) ==
    LET t == k.current
    IN  IF k.priority[t] = k.base_priority[t]
        THEN k
        ELSE gyros__task_move([k EXCEPT !.priority[t] = k.base_priority[t]],
                              t, k.main_list[t])

\* Nobody is woken.
Faulty_UnlockSlow(k, m, reschedule) == Disinherit(k)

\* What gyros__mutex_unlock_slow does besides clearing the owner.
UnlockSlow(k, m, reschedule) ==
    LET restored == Disinherit(k)
        woken == gyros__task_wake(restored, Head(restored.lists[m]))
    IN  IF restored.lists[m] = <<>> THEN restored
        ELSE IF reschedule THEN gyros__cond_reschedule(woken)
        ELSE woken

gyros__mutex_unlock_slow(t) ==
    LET m == wants[t]
    IN  /\ Inside(t, "slow", {"unlock"})
        /\ owner' = [owner EXCEPT ![m] = NoTask]
        /\ gyros' = UnlockSlow(gyros, m, TRUE)
        /\ Leave(t, {})
        /\ UNCHANGED monitor

-----------------------------------------------------------------------------
(* The surroundings: tasks come and go, priorities change, and exceptions  *)
(* clear the monitor.                                                      *)

gyros_task_set_priority(t, priority) ==
    LET based == [gyros EXCEPT !.base_priority[t] = priority]
    IN  /\ PriorityOfUsers \/ (holds[t] = {} /\ call[t] = "none")
        /\ gyros' = IF gyros.priority[t] = priority
                    THEN based
                    ELSE gyros__cond_reschedule(gyros__set_priority(based, t, priority))
        /\ monitor' = FALSE
        /\ UNCHANGED <<pc, owner, call, wants, holds>>

MutexRest(t) == Rest(t) /\ UNCHANGED mutexVars

MutexResume(t) == Resume(t) /\ monitor' = FALSE /\ UNCHANGED <<owner, call, wants, holds>>

\* An interrupt that does nothing to the kernel state.
Interrupt ==
    /\ monitor /\ monitor' = FALSE
    /\ UNCHANGED <<gyros, pc, owner, call, wants, holds>>

\* The switch to another task leaves the monitor as it is.
Faulty_MutexSwitch == ContextSwitch /\ UNCHANGED mutexVars

MutexSwitch ==
    /\ ContextSwitch
    /\ monitor' = FALSE
    /\ UNCHANGED <<owner, call, wants, holds>>

\* What t does once it has called a mutex function.
MutexStep(t) ==
    \/ gyros_ldrex_p(t)
    \/ gyros_strex_p(t)
    \/ gyros__mutex_try_lock_slow(t)
    \/ gyros__mutex_lock_slow(t)
    \/ gyros__mutex_unlock_slow(t)

MutexNext ==
    \/ MutexSwitch
    \/ Interrupt
    \/ \E t \in AppTasks :
        \/ \E m \in Mutexes :
            \/ gyros_mutex_try_lock(t, m)
            \/ gyros_mutex_lock(t, m)
            \/ gyros_mutex_unlock(t, m)
        \/ MutexStep(t)
        \/ MutexRest(t)
        \/ MutexResume(t)
        \/ \E p \in NewPriorities : gyros_task_set_priority(t, p)
=============================================================================
