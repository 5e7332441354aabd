--------------------------- MODULE TaskManagement ---------------------------
(***************************************************************************)
(* The task services of GyrOS: src/task.c, src/suspend.c, src/priority.c,  *)
(* src/yield.c, src/sleep.c, src/join.c and src/delete.c, with the timer   *)
(* interrupt and the context switch of the Cortex-M port.  Built without   *)
(* GYROS_CONFIG_ITERATE (the lock that option adds to task exit and task   *)
(* deletion is the business of another module).                            *)
(*                                                                         *)
(* One processor runs the current task.  A call that does not block is one *)
(* step; a call that blocks is a step that ends with a pending context     *)
(* switch, and another one, taken when the task is current again, for what *)
(* the call does after gyros_interrupt_restore().  Interrupt handlers run  *)
(* between any two steps, a pending switch included.                       *)
(***************************************************************************)
EXTENDS GyrosKernel

CONSTANTS
    Applications,  \* applications: [tasks, calls, isr_calls], see app
    MaxDelay       \* longest sleep, in ticks

ASSUME TaskAssumption == MaxDelay \in Nat /\ MaxDelay < TimeRange \div 2

VARIABLES
    gyros,   \* the kernel state
    pc,      \* where each task is: in its own code or in a blocking call
    target,  \* the task that gyros_task_join(_until) waits for
    joined,  \* the local variable of gyros_task_join_until, negated
    app      \* the application: how many task structures it has (tasks), and
             \* which functions its tasks (calls) and its interrupt handlers
             \* (isr_calls) call

vars == <<gyros, pc, target, joined, app>>

Blocked == {"sleep_until", "join", "join_until"}

\* A task has been created and has not finished.
Live(t) == pc[t] \notin {"new", "finished"}

AppTasks == Tasks \ {Idle}

Init ==
    /\ gyros = KernelInit
    /\ pc = [t \in Tasks |-> "new"]
    /\ target = [t \in Tasks |-> NoTask]
    /\ joined = [t \in Tasks |-> FALSE]
    /\ app \in Applications

\* t executes: it is current and no switch is pending.
Executing(t) == gyros.current = t /\ ~gyros.pendsv

\* The current task is in its own code and calls f.
TaskCalls(f) ==
    /\ f \in app.calls
    /\ \E t \in AppTasks : Executing(t) /\ pc[t] = "task"

\* f is called by the current task or by an interrupt handler.
Called(f) == TaskCalls(f) \/ (f \in app.isr_calls /\ gyros.current # NoTask)

\* The local state of a task that is in its own code or finished.
Leave(t, where) ==
    /\ pc' = [pc EXCEPT ![t] = where]
    /\ target' = [target EXCEPT ![t] = NoTask]
    /\ joined' = [joined EXCEPT ![t] = FALSE]
    /\ UNCHANGED app

\* timed_out is dead once a blocking call has returned it, and timeout once
\* the task is not linked in the timeout list any more; they are reset so that
\* old values do not multiply states.
ForgetTimeout(k, t) ==
    [k EXCEPT !.timeout[t] = IF t \in Elements(k.timeouts) THEN @ ELSE 0,
              !.timed_out[t] = FALSE]

-----------------------------------------------------------------------------
(* Life of a task.                                                         *)

\* main() creates tasks before gyros_start(), tasks may create others after.
gyros_task_create(t, priority) ==
    /\ gyros.current = NoTask \/ Called("task_create")
    /\ ~Live(t)
    /\ pc[t] = "new" => Cardinality({u \in AppTasks : pc[u] # "new"}) < app.tasks
    \* The call reinitialises joiner_list: nobody may be linked in it.
    /\ gyros.lists[t] = <<>>
    /\ LET initialised == [gyros EXCEPT !.joinable[t] = TRUE,
                                        !.base_priority[t] = priority,
                                        !.priority[t] = priority,
                                        !.lists[t] = <<>>]
           added == add_task_to_list(initialised, t, Running)
       IN  gyros' = IF added.current = NoTask
                    THEN added
                    ELSE gyros__cond_reschedule(added)
    /\ Leave(t, "task")

\* The code that called gyros_start() becomes the idle task.
gyros_start ==
    /\ gyros.current = NoTask
    /\ gyros' = gyros__reschedule([add_task_to_list(gyros, Idle, Running)
                                     EXCEPT !.current = Idle])
    /\ pc' = [pc EXCEPT ![Idle] = "task"]
    /\ UNCHANGED <<target, joined, app>>

\* The main function of the current task returns.
gyros__task_exit(t) ==
    /\ TaskCalls("task_exit") /\ t = gyros.current
    /\ gyros' = gyros__reschedule(ForgetTimeout(gyros__task_finish(gyros, t), t))
    /\ Leave(t, "finished")

\* Whoever waits to join another task that is deleted is woken, but nobody is
\* rescheduled.
gyros_task_delete(t) ==
    /\ TaskCalls("task_delete")
    /\ pc[t] # "new"
    /\ LET finished == ForgetTimeout(gyros__task_finish(gyros, t), t)
       IN  gyros' = IF t = gyros.current
                    THEN gyros__reschedule(finished)
                    ELSE finished
    /\ Leave(t, "finished")

-----------------------------------------------------------------------------
(* Calls that do not block the caller (unless it suspends itself).         *)

gyros_task_suspend(t) ==
    /\ Called("task_suspend")
    /\ Live(t)
    /\ LET suspended == RemoveTimeout(gyros__task_suspend(gyros, t), t)
       IN  gyros' = IF t = gyros.current
                    THEN gyros__reschedule(suspended)
                    ELSE suspended
    /\ UNCHANGED <<pc, target, joined, app>>

\* The resumed task may have a higher priority than the caller.  One that waits
\* for a timeout stays linked in the timeout list while it runs.
gyros_task_resume(t) ==
    /\ Called("task_resume")
    /\ Live(t)
    /\ gyros' = gyros__cond_reschedule(gyros__task_move(gyros, t, Running))
    /\ UNCHANGED <<pc, target, joined, app>>

\* The task whose priority has been raised may have to run at once.
Faulty_gyros_task_set_priority(t, priority) ==
    /\ Called("task_set_priority")
    /\ Live(t)
    /\ gyros' = gyros__set_priority(
                    [gyros EXCEPT !.base_priority[t] = priority], t, priority)
    /\ UNCHANGED <<pc, target, joined, app>>

gyros_task_set_priority(t, priority) ==
    /\ Called("task_set_priority")
    /\ Live(t)
    /\ LET based == [gyros EXCEPT !.base_priority[t] = priority]
       IN  gyros' = IF gyros.priority[t] = priority
                    THEN based
                    ELSE gyros__cond_reschedule(
                             gyros__set_priority(based, t, priority))
    /\ UNCHANGED <<pc, target, joined, app>>

gyros_yield ==
    /\ TaskCalls("yield")
    /\ gyros' = gyros__cond_reschedule(
                    gyros__task_move(gyros, gyros.current, Running))
    /\ UNCHANGED <<pc, target, joined, app>>

-----------------------------------------------------------------------------
(* Calls that block.                                                       *)

\* gyros__task_set_timeout links timeout_list_node.  A task that has been
\* resumed in a timed wait is linked already; linking the node twice breaks
\* both lists, and what follows from there is beyond this model.
TimeoutUnlinked(t) == t \notin Elements(gyros.timeouts)

\* Returns at once when the time has been reached already.
gyros_sleep_until(t, timeout) ==
    /\ TaskCalls("sleep_until") /\ t = gyros.current
    /\ IF TimeoutReached(gyros, timeout)
       THEN UNCHANGED vars
       ELSE /\ TimeoutUnlinked(t)
            /\ gyros' = gyros__reschedule(gyros__task_suspend(
                            gyros__task_set_timeout(gyros, timeout), t))
            /\ pc' = [pc EXCEPT ![t] = "sleep_until"]
            /\ UNCHANGED <<target, joined, app>>

\* Returns timed_out.
SleepReturn(t) ==
    /\ Executing(t) /\ pc[t] = "sleep_until"
    /\ gyros' = ForgetTimeout(gyros, t)
    /\ Leave(t, "task")

\* One turn of "while (task->joinable)", from the call or after a wake-up.
JoinLoop(t, u) ==
    IF gyros.joinable[u]
    THEN /\ gyros' = gyros__reschedule(gyros__task_move(gyros, t, u))
         /\ pc' = [pc EXCEPT ![t] = "join"]
         /\ target' = [target EXCEPT ![t] = u]
         /\ UNCHANGED <<joined, app>>
    ELSE /\ Leave(t, "task")
         /\ UNCHANGED gyros

gyros_task_join(t, u) ==
    /\ TaskCalls("task_join") /\ t = gyros.current /\ u # t
    /\ JoinLoop(t, u)

JoinWoken(t) ==
    /\ Executing(t) /\ pc[t] = "join"
    /\ JoinLoop(t, target[t])

\* The call reads joinable right after gyros__reschedule(), which on this port
\* has only requested the switch: before the caller has waited.
\* A task that was never created has no joiner_list to wait in.
gyros_task_join_until(t, u, timeout) ==
    /\ TaskCalls("task_join_until") /\ t = gyros.current /\ u # t
    /\ pc[u] # "new"
    /\ IF TimeoutReached(gyros, timeout)
       THEN UNCHANGED vars
       ELSE /\ TimeoutUnlinked(t)
            /\ gyros' = gyros__reschedule(gyros__task_move(
                            gyros__task_set_timeout(gyros, timeout), t, u))
            /\ pc' = [pc EXCEPT ![t] = "join_until"]
            /\ target' = [target EXCEPT ![t] = u]
            /\ joined' = [joined EXCEPT ![t] = ~gyros.joinable[u]]
            /\ UNCHANGED app

\* Returns joined[t].
JoinUntilReturn(t) ==
    /\ Executing(t) /\ pc[t] = "join_until"
    /\ gyros' = ForgetTimeout(gyros, t)
    /\ Leave(t, "task")

-----------------------------------------------------------------------------
(* The processor.                                                          *)

\* The timer interrupt counts one tick.
Tick ==
    /\ gyros.current # NoTask
    /\ gyros' = gyros__tick(gyros, (gyros.now + 1) % TimeRange)
    /\ UNCHANGED <<pc, target, joined, app>>

\* A pending context switch is made.
ContextSwitch ==
    /\ gyros.pendsv
    /\ gyros' = PendSV_Handler(gyros)
    /\ UNCHANGED <<pc, target, joined, app>>

Deadline(delay) == (gyros.now + delay) % TimeRange

LifeStep(t) ==
    \/ \E p \in Priorities : gyros_task_create(t, p)
    \/ gyros__task_exit(t)
    \/ gyros_task_delete(t)

ScheduleStep(t) ==
    \/ gyros_task_suspend(t)
    \/ gyros_task_resume(t)
    \/ \E p \in Priorities : gyros_task_set_priority(t, p)

BlockStep(t) ==
    \/ \E delay \in 0..MaxDelay : gyros_sleep_until(t, Deadline(delay))
    \/ SleepReturn(t)
    \/ \E u \in AppTasks : gyros_task_join(t, u)
    \/ JoinWoken(t)
    \/ \E u \in AppTasks, delay \in 0..MaxDelay :
           gyros_task_join_until(t, u, Deadline(delay))
    \/ JoinUntilReturn(t)

Next ==
    \/ gyros_start
    \/ gyros_yield
    \/ Tick
    \/ ContextSwitch
    \/ \E t \in AppTasks : LifeStep(t) \/ ScheduleStep(t) \/ BlockStep(t)

Spec == Init /\ [][Next]_vars
=============================================================================
