--------------------------- MODULE GyrosServices ---------------------------
(***************************************************************************)
(* An application that has created its tasks and called gyros_start(): the *)
(* surroundings in which the modules of the synchronisation objects run.   *)
(* Each of those modules adds the state of its objects and the calls of    *)
(* its service; this one has the processor, the timer and a way for tasks  *)
(* to get off the processor, so that lower ones run.                       *)
(*                                                                         *)
(* As in TaskManagement, a call is one step up to the point where it       *)
(* blocks and one step after it; pc says in which call a task is.  An      *)
(* operator called Faulty_f is f with a mistake somebody could make in it. *)
(***************************************************************************)
EXTENDS GyrosKernel

CONSTANTS
    BasePriority,   \* the priority each task is created with
    MaxDelay        \* longest wait, in ticks

ASSUME ServicesAssumption ==
    /\ IsFiniteSet(Tasks)
    /\ BasePriority \in [Tasks -> Priorities \cup {0}]
    /\ \A t \in Tasks : BasePriority[t] = 0 <=> t = Idle
    /\ MaxDelay \in Nat /\ MaxDelay < TimeRange \div 2

VARIABLES
    gyros,   \* the kernel state
    pc       \* where each task is: in its own code or in a call

AppTasks == Tasks \ {Idle}

\* The orders in which tasks of these priorities run: those of equal priority
\* in the order of their creation, whichever that is.
Orders ==
    {order \in SetToSeqs(Tasks) : \A i, j \in 1..Cardinality(Tasks) :
         i < j => BasePriority[order[i]] >= BasePriority[order[j]]}

\* The states after gyros_task_create for one task after the other, and
\* gyros_start.
Started ==
    {[KernelInit EXCEPT !.priority = BasePriority,
                        !.base_priority = BasePriority,
                        !.joinable = [t \in Tasks |-> t # Idle],
                        !.main_list = [t \in Tasks |-> Running],
                        !.lists[Running] = order,
                        !.current = Idle,
                        !.pendsv = TRUE] : order \in Orders}

\* t executes: it is current and no switch is pending.
Executing(t) == gyros.current = t /\ ~gyros.pendsv

\* t is in its own code and calls a service.
Calls(t) == Executing(t) /\ pc[t] = "task"

\* t goes on in the call it is in: it has been woken and is current again.
Continues(t, call) == Executing(t) /\ pc[t] = call

Goto(t, where) == pc' = [pc EXCEPT ![t] = where]

Runs(t) == gyros.main_list[t] = Running

Waiters(l) == Elements(gyros.lists[l])

Deadline(delay) == (gyros.now + delay) % TimeRange

\* A call with a timeout forgets it when it returns: neither field is read
\* again before the next such call sets it.
ForgetTimeout(k, t) == [k EXCEPT !.timeout[t] = 0, !.timed_out[t] = FALSE]

\* The task waits in l for at most the given time.
WaitUntil(k, l, timeout) ==
    gyros__reschedule(gyros__task_move(gyros__task_set_timeout(k, timeout), k.current, l))

\* The task waits in l.
Wait(k, l) == gyros__reschedule(gyros__task_move(k, k.current, l))

\* The first task in l is woken, if there is one.
WakeFirst(k, l) ==
    IF k.lists[l] = <<>>
    THEN k
    ELSE gyros__cond_reschedule(gyros__task_wake(k, Head(k.lists[l])))

-----------------------------------------------------------------------------
\* The task suspends itself,
Rest(t) ==
    /\ Calls(t)
    /\ gyros' = gyros__reschedule(RemoveTimeout(gyros__task_suspend(gyros, t), t))
    /\ Goto(t, "rest")

\* and an interrupt handler resumes it.
Resume(t) ==
    /\ pc[t] = "rest"
    /\ gyros' = gyros__cond_reschedule(gyros__task_move(gyros, t, Running))
    /\ Goto(t, "task")

\* The timer interrupt counts one tick.
Tick ==
    /\ gyros' = gyros__tick(gyros, (gyros.now + 1) % TimeRange)
    /\ UNCHANGED pc

\* A pending context switch is made.
ContextSwitch ==
    /\ gyros.pendsv
    /\ gyros' = PendSV_Handler(gyros)
    /\ UNCHANGED pc

\* Unless a context switch is pending, the current task is a running one and
\* no running task has a higher priority (task.h:49).
HighestPriorityRuns ==
    ~gyros.pendsv =>
        /\ Runs(gyros.current)
        /\ \A t \in RunningTasks(gyros) :
               gyros.priority[t] <= gyros.priority[gyros.current]
=============================================================================
