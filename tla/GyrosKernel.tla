---------------------------- MODULE GyrosKernel ----------------------------
(***************************************************************************)
(* The kernel state that every service of GyrOS works on (_gyros, and the  *)
(* scheduling part of each gyros_task_t) and the internal functions of     *)
(* src/task.c and src/timeout.c.                                           *)
(*                                                                         *)
(* The kernel runs on one processor and touches this state only with       *)
(* interrupts disabled, so a call between gyros_interrupt_disable() and    *)
(* gyros_interrupt_restore() is one atomic step.  Each internal function   *)
(* is therefore an operator from a kernel state to a kernel state, and the *)
(* modules that model the services compose them into actions, in the order *)
(* the code calls them.  The operators carry the names of the C functions. *)
(*                                                                         *)
(* A list is named by the structure its head is embedded in: Running is    *)
(* _gyros.running, a task names its joiner_list, and the elements of       *)
(* Objects name the wait lists of the synchronisation objects.             *)
(*                                                                         *)
(* An operator called Faulty_f is f with a mistake somebody could make in  *)
(* it.  No action uses one; they serve to see the properties fail.         *)
(***************************************************************************)
EXTENDS GyrosList, FiniteSets

CONSTANTS
    Tasks,        \* task structures
    Idle,         \* s_idle_task
    NoTask,       \* NULL, as a task pointer
    Objects,      \* wait lists of synchronisation objects
    Running,      \* _gyros.running
    NoList,       \* NULL, as a list pointer
    Priorities,   \* priorities an application gives its tasks
    TimeRange     \* number of values of gyros_abstime_t (a power of two)

ASSUME KernelAssumption ==
    /\ Idle \in Tasks /\ NoTask \notin Tasks
    /\ Running \notin Tasks \cup Objects
    /\ NoList \notin Tasks \cup Objects \cup {Running}
    \* Objects name lists of their own.
    /\ Objects \cap Tasks = {}
    \* The idle task has priority 0 and must never hold the processor while
    \* another task is running, so an application uses larger ones.
    /\ Priorities \subseteq Nat \ {0}
    /\ TimeRange \in Nat /\ TimeRange >= 4 /\ TimeRange % 2 = 0

ListIds == Tasks \cup Objects \cup {Running}
Time == 0 .. TimeRange - 1

\* (gyros_reltime_t)(a - b): the difference of two wrapping clock values,
\* read as a signed number of the same width.
gyros_time_compare(a, b) ==
    LET d == (a - b) % TimeRange
    IN  IF d < TimeRange \div 2 THEN d ELSE d - TimeRange

\* struct gyros_state and the scheduling fields of gyros_task_t.  pendsv is
\* the PendSV bit of the Cortex-M: a context switch has been requested and
\* happens as soon as interrupts are enabled.
KernelStates ==
    [ current    : Tasks \cup {NoTask},
      lists      : [ListIds -> Seq(Tasks)],
      main_list  : [Tasks -> ListIds \cup {NoList}],
      timeouts   : Seq(Tasks),
      timeout    : [Tasks -> Time],
      timed_out  : [Tasks -> BOOLEAN],
      priority   : [Tasks -> Priorities \cup {0}],
      base_priority : [Tasks -> Priorities \cup {0}],
      joinable   : [Tasks -> BOOLEAN],
      pendsv     : BOOLEAN,
      now        : Time ]

\* The state at reset: no task, empty lists, and zeroed task structures.
KernelInit ==
    [ current    |-> NoTask,
      lists      |-> [l \in ListIds |-> <<>>],
      main_list  |-> [t \in Tasks |-> NoList],
      timeouts   |-> <<>>,
      timeout    |-> [t \in Tasks |-> 0],
      timed_out  |-> [t \in Tasks |-> FALSE],
      priority   |-> [t \in Tasks |-> 0],
      base_priority |-> [t \in Tasks |-> 0],
      joinable   |-> [t \in Tasks |-> FALSE],
      pendsv     |-> FALSE,
      now        |-> 0 ]

RunningTasks(k) == Elements(k.lists[Running])

-----------------------------------------------------------------------------
(* Main list: running, or waiting for an object or a task.                 *)

\* The node leaves whatever list it is linked in.
UnlinkMain(k, t) ==
    [k EXCEPT !.lists = [l \in ListIds |-> ListRemove(k.lists[l], t)]]

\* Before the tasks of the same priority instead of after them.
Faulty_add_task_to_list(k, t, l) ==
    [k EXCEPT
        !.lists[l] = ListInsertBefore(@,
            FirstPosition(@, {i \in 1..Len(@) : k.priority[t] >= k.priority[@[i]]}), t),
        !.main_list[t] = l]

\* After every task of the same or a higher priority.
add_task_to_list(k, t, l) ==
    [k EXCEPT
        !.lists[l] = ListInsertBefore(@,
            FirstPosition(@, {i \in 1..Len(@) : k.priority[t] > k.priority[@[i]]}), t),
        !.main_list[t] = l]

gyros__task_suspend(k, t) == [UnlinkMain(k, t) EXCEPT !.main_list[t] = NoList]

\* The node is not unlinked from its old list.
Faulty_gyros__task_move(k, t, l) == add_task_to_list(k, t, l)

gyros__task_move(k, t, l) == add_task_to_list(UnlinkMain(k, t), t, l)

\* gyros__list_remove(&task->timeout_list_node)
RemoveTimeout(k, t) == [k EXCEPT !.timeouts = ListRemove(@, t)]

\* The timeout list is forgotten.
Faulty_gyros__task_wake(k, t) == gyros__task_move(k, t, Running)

gyros__task_wake(k, t) == gyros__task_move(RemoveTimeout(k, t), t, Running)

\* The tasks of a sequence, woken one after the other.
WakeSeq(k, tasks) ==
    LET woken[n \in 0..Len(tasks)] ==
            IF n = 0 THEN k ELSE gyros__task_wake(woken[n - 1], tasks[n])
    IN  woken[Len(tasks)]

\* while (!gyros__list_empty(l)) gyros__task_wake(TASK(l->prev)): the last
\* task of the list first.
WakeAllFromTail(k, l) == WakeSeq(k, Reverse(k.lists[l]))

gyros__set_priority(k, t, p) ==
    LET lowered == [k EXCEPT !.priority[t] = p]
    IN  IF lowered.main_list[t] = NoList
        THEN lowered
        ELSE gyros__task_move(lowered, t, lowered.main_list[t])

\* Only the first joiner is woken.
Faulty_gyros__task_finish(k, t) ==
    LET unlinked == RemoveTimeout(gyros__task_suspend(k, t), t)
        finished == [unlinked EXCEPT !.joinable[t] = FALSE]
    IN  IF finished.lists[t] = <<>>
        THEN finished
        ELSE gyros__task_wake(finished, Head(finished.lists[t]))

gyros__task_finish(k, t) ==
    LET unlinked == RemoveTimeout(gyros__task_suspend(k, t), t)
    IN  WakeAllFromTail([unlinked EXCEPT !.joinable[t] = FALSE], t)

-----------------------------------------------------------------------------
(* Rescheduling.                                                           *)

gyros__reschedule(k) == [k EXCEPT !.pendsv = TRUE]

gyros__cond_reschedule(k) ==
    IF Head(k.lists[Running]) # k.current THEN gyros__reschedule(k) ELSE k

\* A task that is preempted goes to the end of its queue.
Faulty_PendSV_Handler(k) ==
    LET requeued == IF k.main_list[k.current] = Running
                    THEN gyros__task_move(k, k.current, Running)
                    ELSE k
    IN  [requeued EXCEPT !.current = Head(requeued.lists[Running]), !.pendsv = FALSE]

\* PendSV_Handler: the first running task becomes the current one.
PendSV_Handler(k) ==
    [k EXCEPT !.current = Head(k.lists[Running]), !.pendsv = FALSE]

-----------------------------------------------------------------------------
(* Timeouts.                                                               *)

\* gyros__task_set_timeout returns 0 and does nothing.
TimeoutReached(k, timeout) == gyros_time_compare(timeout, k.now) <= 0

\* The timeout list is a queue instead of sorted.
Faulty_gyros__task_set_timeout(k, timeout) ==
    [k EXCEPT !.timeouts = Append(@, k.current),
              !.timeout[k.current] = timeout,
              !.timed_out[k.current] = FALSE]

\* gyros__task_set_timeout when it returns 1: the current task is queued
\* behind every task whose timeout is not later than its own.
gyros__task_set_timeout(k, timeout) ==
    LET later == {i \in 1..Len(k.timeouts) :
                     gyros_time_compare(timeout, k.timeout[k.timeouts[i]]) < 0}
        position == FirstPosition(k.timeouts, later)
    IN  [k EXCEPT !.timeouts = ListInsertBefore(@, position, k.current),
                  !.timeout[k.current] = timeout,
                  !.timed_out[k.current] = FALSE]

\* The last task of those to wake is missed.
Faulty_ExpiredTimeouts(k, now) ==
    LET future == {i \in 1..Len(k.timeouts) :
                      gyros_time_compare(now, k.timeout[k.timeouts[i]]) < 0}
    IN  SubSeq(k.timeouts, 1, FirstPosition(k.timeouts, future) - 2)

\* Times are compared as if the clock never wrapped.
FaultyWrap_ExpiredTimeouts(k, now) ==
    LET future == {i \in 1..Len(k.timeouts) : now < k.timeout[k.timeouts[i]]}
    IN  SubSeq(k.timeouts, 1, FirstPosition(k.timeouts, future) - 1)

\* The tasks at the front of the timeout list whose timeout has been reached.
ExpiredTimeouts(k, now) ==
    LET future == {i \in 1..Len(k.timeouts) :
                      gyros_time_compare(now, k.timeout[k.timeouts[i]]) < 0}
    IN  SubSeq(k.timeouts, 1, FirstPosition(k.timeouts, future) - 1)

\* gyros__tick, called from the timer interrupt with the time it has counted
\* up to.  (Software timers are the business of another module.)
gyros__tick(k, now) ==
    LET expired == ExpiredTimeouts(k, now)
        flagged == [k EXCEPT
            !.now = now,
            !.timed_out = [t \in Tasks |-> t \in Elements(expired) \/ @[t]]]
        woken == WakeSeq(flagged, expired)
    IN  IF expired = <<>> THEN woken ELSE gyros__reschedule(woken)
=============================================================================
