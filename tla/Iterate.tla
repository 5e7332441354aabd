------------------------------ MODULE Iterate ------------------------------
(***************************************************************************)
(* The list of all tasks and the mutex that guards it, with                *)
(* GYROS_CONFIG_ITERATE: src/iterate.c, task exit and task deletion        *)
(* (src/task.c, src/delete.c), composed with the mutexes of module Mutex.  *)
(*                                                                         *)
(* A task that iterates, exits or deletes locks the mutex with             *)
(* gyros_mutex_lock; doing says for which purpose, and the rest follows    *)
(* when the lock function has returned.  Interrupt handlers iterate        *)
(* without the mutex, in one step that changes nothing.                    *)
(***************************************************************************)
EXTENDS MutexProperties

CONSTANTS
    iterate_mutex,   \* gyros__iterate_mutex
    DeleteHigher     \* a task may delete one that has a higher priority

ASSUME IterateAssumption ==
    iterate_mutex \in Mutexes /\ DeleteHigher \in BOOLEAN

VARIABLES
    tasks,    \* _gyros.tasks
    doing,    \* what a task has called
    victim,   \* the task it deletes
    listed    \* what gyros_task_iterate has returned to it, latest last

iterateVars == <<tasks, doing, victim, listed>>

\* gyros_start puts the idle task in front of those created before.
IterateInit ==
    /\ MutexInit
    /\ tasks = <<Idle>> \o ListRemove(gyros.lists[Running], Idle)
    /\ doing = [t \in Tasks |-> "none"]
    /\ victim = [t \in Tasks |-> NoTask]
    /\ listed = [t \in Tasks |-> <<>>]

\* t is in its own code and calls what locks the mutex.
LockFor(t, purpose) ==
    /\ doing[t] = "none"
    /\ gyros_mutex_lock(t, iterate_mutex)
    /\ doing' = [doing EXCEPT ![t] = purpose]

\* gyros_mutex_lock has returned to what t has called.
Locked(t, purpose) == Calls(t) /\ doing[t] = purpose

\* What is left of t, and of the locals of a call it was in.
Gone(t) ==
    /\ Goto(t, "finished")
    /\ call' = [call EXCEPT ![t] = "none"]
    /\ wants' = [wants EXCEPT ![t] = NoMutex]
    /\ holds' = [holds EXCEPT ![t] = {}]
    /\ tasks' = ListRemove(tasks, t)
    /\ listed' = [listed EXCEPT ![t] = <<>>]

Finished(k, t) == ForgetTimeout(gyros__task_finish(k, t), t)

-----------------------------------------------------------------------------
(* gyros_task_iterate.                                                     *)

\* With previous NULL.
gyros_task_iterate(t) ==
    /\ LockFor(t, "iterate")
    /\ UNCHANGED <<tasks, victim, listed>>

\* The node of a task that is linked nowhere points to itself.
NextOf(t) ==
    IF t \in Elements(tasks) THEN tasks[1 + CHOOSE i \in DOMAIN tasks : tasks[i] = t] ELSE t

Previous(t) == Last(listed[t])

IterateFirst(t) ==
    /\ Locked(t, "iterate") /\ listed[t] = <<>>
    /\ listed' = [listed EXCEPT ![t] = <<Head(tasks)>>]
    /\ UNCHANGED <<gyros, pc, mutexVars, tasks, doing, victim>>

\* With previous the task that was returned last,
IterateNext(t) ==
    /\ Locked(t, "iterate") /\ listed[t] # <<>> /\ Previous(t) # Last(tasks)
    /\ listed' = [listed EXCEPT ![t] = Append(@, NextOf(Previous(t)))]
    /\ UNCHANGED <<gyros, pc, mutexVars, tasks, doing, victim>>

\* and when that was the last one.
IterateEnd(t) ==
    /\ Locked(t, "iterate") /\ listed[t] # <<>> /\ Previous(t) = Last(tasks)
    /\ gyros_mutex_unlock(t, iterate_mutex)
    /\ doing' = [doing EXCEPT ![t] = "none"]
    /\ listed' = [listed EXCEPT ![t] = <<>>]
    /\ UNCHANGED <<tasks, victim>>

-----------------------------------------------------------------------------
(* Tasks come and go.                                                      *)

\* By a task or an interrupt handler, whoever has the mutex.
gyros_task_create(t) ==
    /\ pc[t] = "finished"
    /\ LET created == [gyros EXCEPT !.joinable[t] = TRUE,
                                    !.base_priority[t] = BasePriority[t],
                                    !.priority[t] = BasePriority[t]]
       IN  gyros' = gyros__cond_reschedule(add_task_to_list(created, t, Running))
    /\ Goto(t, "task")
    /\ tasks' = Append(tasks, t)
    /\ monitor' = FALSE
    /\ UNCHANGED <<owner, call, wants, holds, doing, victim, listed>>

\* The task unlinks itself before it has locked the mutex.
Faulty_gyros__task_exit(t) ==
    /\ LockFor(t, "exit")
    /\ tasks' = ListRemove(tasks, t)
    /\ UNCHANGED <<victim, listed>>

\* The main function of t returns, or t deletes itself.
gyros__task_exit(t) ==
    /\ LockFor(t, "exit")
    /\ UNCHANGED <<tasks, victim, listed>>

\* From there on interrupts are disabled; the slow unlock does not reschedule.
\* A task that has inherited a priority since it has the mutex would be moved to
\* the list it is in, and it is in none (task.c:96, mutex.c:129): what the code
\* does then is not defined, and t goes no further here.
ExitFinish(t) ==
    /\ Locked(t, "exit")
    /\ gyros.priority[t] = gyros.base_priority[t]
    /\ gyros' = gyros__reschedule(UnlockSlow(Finished(gyros, t), iterate_mutex, FALSE))
    /\ owner' = [owner EXCEPT ![iterate_mutex] = NoTask]
    /\ doing' = [doing EXCEPT ![t] = "none"]
    /\ Gone(t)
    /\ UNCHANGED <<monitor, victim>>

gyros_task_delete(t, u) ==
    /\ u # t
    /\ DeleteHigher \/ BasePriority[u] <= BasePriority[t]
    /\ LockFor(t, "delete")
    /\ victim' = [victim EXCEPT ![t] = u]
    /\ UNCHANGED <<tasks, listed>>

\* u may be waiting for the mutex itself, or have been woken to take it.
DeleteFinish(t) ==
    LET u == victim[t]
    IN  /\ Locked(t, "delete")
        /\ gyros' = Finished(gyros, u)
        /\ doing' = [doing EXCEPT ![t] = "unlock", ![u] = "none"]
        /\ victim' = [victim EXCEPT ![t] = NoTask, ![u] = NoTask]
        /\ Gone(u)
        /\ UNCHANGED <<owner, monitor>>

DeleteUnlock(t) ==
    /\ Locked(t, "unlock")
    /\ gyros_mutex_unlock(t, iterate_mutex)
    /\ doing' = [doing EXCEPT ![t] = "none"]
    /\ UNCHANGED <<tasks, victim, listed>>

IterateStep(t) ==
    \/ gyros_task_iterate(t) \/ IterateFirst(t) \/ IterateNext(t) \/ IterateEnd(t)
    \/ gyros_task_create(t)
    \/ gyros__task_exit(t) \/ ExitFinish(t)
    \/ \E u \in AppTasks : gyros_task_delete(t, u)
    \/ DeleteFinish(t) \/ DeleteUnlock(t)

\* The application locks and unlocks mutexes of its own accord too, but does
\* not call anything else between the steps of one of the calls above.
OwnStep ==
    /\ MutexNext
    /\ \A t \in AppTasks : Executing(t) /\ pc[t] = "task" /\ doing[t] # "none" =>
           pc'[t] \in {"task", "rest"} /\ holds'[t] = holds[t]
    /\ UNCHANGED iterateVars

IterateNextStep == OwnStep \/ \E t \in AppTasks : IterateStep(t)

-----------------------------------------------------------------------------
(* Mutexes used by an application and by the iteration.                    *)

iterateAll == <<vars, iterateVars>>

IterateSpec == IterateInit /\ [][IterateNextStep]_iterateAll

\* What an iteration has returned so far are the first tasks of the list as it
\* is now (iterate.h:55): however exits, deletions and creations fall between
\* its calls, no task is returned twice or after its end, none is passed over,
\* and the next call does not start from a task that is gone.
ListingStands ==
    \A t \in AppTasks : Locked(t, "iterate") => IsPrefix(listed[t], tasks)
=============================================================================
