--------------------------- MODULE TaskProperties ---------------------------
(***************************************************************************)
(* Correctness properties of the task services.                            *)
(***************************************************************************)
EXTENDS TaskManagement

\* The variables stay within their types.
TypeOK ==
    /\ gyros \in KernelStates
    /\ pc \in [Tasks -> {"new", "task", "finished"} \cup Blocked]
    /\ target \in [Tasks -> Tasks \cup {NoTask}]
    /\ joined \in [Tasks -> BOOLEAN]
    /\ app \in Applications

\* The lists and the main_list fields agree: a task is linked in the list its
\* main_list field names, there once, and nowhere else (task.c relies on it
\* to move a task whose priority changes).
ListsConsistent ==
    /\ Distinct(gyros.timeouts)
    /\ \A l \in ListIds :
        /\ Distinct(gyros.lists[l])
        /\ \A t \in Tasks : t \in Elements(gyros.lists[l]) <=> gyros.main_list[t] = l

\* Every list, running and waiting ones, is ordered by falling priority, also
\* after the priority of a task that is in the middle of it has changed.
ListsSorted ==
    \A l \in ListIds : Falling(gyros.lists[l], gyros.priority)

\* Unless a context switch is pending, the current task is a running one, every
\* other running task has a lower priority, or the same one and a later turn.
HighestPriorityRuns ==
    gyros.current # NoTask /\ ~gyros.pendsv =>
        /\ gyros.current \in RunningTasks(gyros)
        /\ \A t \in RunningTasks(gyros) \ {gyros.current} :
               \/ gyros.priority[t] < gyros.priority[gyros.current]
               \/ /\ gyros.priority[t] = gyros.priority[gyros.current]
                  /\ Precedes(gyros.lists[Running], gyros.current, t)

\* t is deleted by another task while somebody waits to join it.
DeletesJoined(t) ==
    t # gyros.current /\ gyros.lists[t] # <<>> /\ gyros_task_delete(t)

\* "Only the running task with the higher priority is allowed to execute"
\* (task.h:49).  Every context switch brings it about, and whatever tasks and
\* interrupt handlers do after that, the deletion of another task that is
\* joined (delete.c:58) excepted, a task of a higher priority that becomes
\* runnable is switched to.
HighestPriorityKept ==
    [][HighestPriorityRuns \/ ContextSwitch =>
           HighestPriorityRuns' \/ \E t \in AppTasks : DeletesJoined(t)]_vars

\* Nobody waits in gyros_task_join for a task that has finished, however exits,
\* deletions, creations, suspensions and joins are interleaved.
JoinerNotStranded ==
    \A t \in AppTasks :
        pc[t] = "join" /\ gyros.main_list[t] = target[t] => gyros.joinable[target[t]]

\* gyros_task_join_until returns "true if the task has finished, or false if
\* timeout was reached" (task.h:200): when a task continues in the call before
\* its timeout and the other one has finished, the call returns true.
JoinUntilTellsFinished ==
    \A t \in AppTasks :
        /\ pc[t] = "join_until" /\ Executing(t)
        /\ ~gyros.timed_out[t] /\ ~gyros.joinable[target[t]]
        => joined[t]

-----------------------------------------------------------------------------
\* t loses its turn to u: u is now ahead of a task of the same priority that
\* it was not ahead of before.
LosesTurn(t, u) ==
    LET before == gyros.lists[Running]
        after == gyros'.lists[Running]
    IN  /\ t \in Elements(before) /\ t \in Elements(after)
        /\ gyros'.priority[t] = gyros.priority[t]
        /\ gyros'.priority[u] = gyros.priority[t]
        /\ ~Precedes(before, u, t) /\ Precedes(after, u, t)

\* A runnable task lets others of its priority pass only by gyros_yield, when
\* it is resumed while running, or when a timeout is reached that it still has
\* from a wait in which it was resumed; waking, creating or changing the
\* priority of another task never does (task.h:50-54).
TurnsKept ==
    [][\A t, u \in Tasks : LosesTurn(t, u) =>
           \/ gyros_yield /\ t = gyros.current
           \/ gyros_task_resume(t)
           \/ Tick /\ t \in Elements(gyros.timeouts)]_vars

\* The single sorted list implements one queue for each priority.
Queues == INSTANCE PriorityQueues WITH
    Levels <- Priorities \cup {0},
    queue <- [p \in Priorities \cup {0} |->
                 Keep(gyros.lists[Running], {t \in Tasks : gyros.priority[t] = p})],
    current <- gyros.current,
    switch <- gyros.pendsv,
    timed <- Elements(gyros.timeouts)

\* Whatever the task services do, the queues of the abstract specification are
\* served in order: one task at a time leaves its place, those whose timeout is
\* reached excepted, and each switch is to the first one of the highest queue.
ImplementsQueues == Queues!Spec
=============================================================================
