----------------------------- MODULE TaskProofs -----------------------------
(***************************************************************************)
(* Proofs about the task services, for any number of tasks, priorities and *)
(* clock values, and any choice of calls by the application.               *)
(***************************************************************************)
EXTENDS TaskProperties, GyrosKernelProofs

\* Before gyros_start no switch is pending; after it the idle task is always
\* runnable, so that the list of running tasks is never empty.
IdleReady ==
    IF gyros.current = NoTask
    THEN ~gyros.pendsv /\ pc[Idle] = "new"
    ELSE gyros.main_list[Idle] = Running /\ pc[Idle] = "task"

\* The current task is runnable, or a switch has been requested.
CurrentRuns ==
    gyros.current # NoTask =>
        gyros.pendsv \/ gyros.main_list[gyros.current] = Running

\* It is even the first one: this is HighestPriorityRuns, seen in the list.
FirstIsCurrent ==
    gyros.current # NoTask =>
        gyros.pendsv \/ Head(gyros.lists[Running]) = gyros.current

\* A step does not make another task the first one without a switch.
FirstKept == FirstIsCurrent => FirstIsCurrent'

\* A task that does not exist is linked nowhere.
DeadUnlinked ==
    \A t \in Tasks : ~Live(t) =>
        gyros.main_list[t] = NoList /\ t \notin Elements(gyros.timeouts)

\* Nobody joins himself.
JoinsOthers ==
    \A t \in Tasks :
        /\ gyros.main_list[t] # t
        /\ pc[t] = "join" => target[t] \in AppTasks \ {t}

\* The inductive invariant.
IInv ==
    /\ TypeOK
    /\ KernelOK(gyros)
    /\ IdleReady
    /\ CurrentRuns
    /\ DeadUnlinked
    /\ JoinsOthers
    /\ JoinerNotStranded

USE KernelAssumption, TaskAssumption

LEMMA ListIdsFacts ==
    /\ Running \in ListIds /\ NoList \notin ListIds /\ Running # NoList
    /\ Tasks \subseteq ListIds /\ Running \notin Tasks /\ NoList \notin Tasks
    BY DEF ListIds, KernelAssumption

LEMMA TimeFacts ==
    /\ 0 \in Time
    /\ \A i \in Int : i % TimeRange \in Time
    BY DEF Time, KernelAssumption

\* A task that executes is runnable.
LEMMA ExecutingFacts ==
    ASSUME IInv, NEW t \in Tasks, Executing(t)
    PROVE  gyros.main_list[t] = Running /\ Live(t)
<1>1. gyros.current = t /\ t # NoTask /\ ~gyros.pendsv
    BY DEF Executing, KernelAssumption
<1>2. gyros.main_list[t] = Running
    BY <1>1 DEF IInv, CurrentRuns
<1>3. Live(t)
    BY <1>2, ListIdsFacts DEF IInv, DeadUnlinked
<1> QED
    BY <1>2, <1>3

LEMMA ForgetTimeoutOK ==
    ASSUME NEW k, KernelOK(k), NEW t \in Tasks
    PROVE  LET n == ForgetTimeout(k, t)
           IN  /\ KernelOK(n)
               /\ n.current = k.current /\ n.pendsv = k.pendsv
               /\ n.lists = k.lists /\ n.main_list = k.main_list
               /\ n.timeouts = k.timeouts /\ n.joinable = k.joinable
               /\ n.priority = k.priority
<1> DEFINE n == ForgetTimeout(k, t)
<1>1. /\ n \in KernelStates
      /\ n.current = k.current /\ n.pendsv = k.pendsv
      /\ n.lists = k.lists /\ n.main_list = k.main_list
      /\ n.timeouts = k.timeouts /\ n.joinable = k.joinable
      /\ n.priority = k.priority
    BY TimeFacts DEF ForgetTimeout, KernelOK, KernelStates
<1> HIDE DEF n
<1>2. ListsOK(n) /\ \A u \in Tasks : LinkedRight(n, u)
    BY <1>1 DEF KernelOK, ListsOK, LinkedRight
<1> QED
    BY <1>1, <1>2 DEF KernelOK, n

LEMMA InitIInv == Init => IInv
<1> SUFFICES ASSUME Init PROVE IInv
    OBVIOUS
<1>1. TypeOK
    BY TimeFacts DEF Init, TypeOK, KernelInit, KernelStates, ListIds
<1>2. KernelOK(gyros)
  <2>1. \A l \in ListIds : gyros.lists[l] = <<>>
    BY DEF Init, KernelInit
  <2>2. \A t \in Tasks : gyros.main_list[t] = NoList
    BY DEF Init, KernelInit
  <2>3. ListsOK(gyros)
    BY <2>1 DEF ListsOK, Distinct, Falling
  <2>4. \A t \in Tasks : LinkedRight(gyros, t)
    BY <2>1, <2>2, ListIdsFacts DEF LinkedRight, Elements, ToSet
  <2>5. Distinct(gyros.timeouts)
    BY DEF Init, KernelInit, Distinct
  <2> QED
    BY <1>1, <2>3, <2>4, <2>5 DEF KernelOK, TypeOK
<1>3. IdleReady /\ CurrentRuns
    BY DEF Init, KernelInit, IdleReady, CurrentRuns, KernelAssumption
<1>4. DeadUnlinked
    BY DEF Init, KernelInit, DeadUnlinked, Elements, ToSet
<1>5. JoinsOthers /\ JoinerNotStranded
    BY ListIdsFacts DEF Init, KernelInit, JoinsOthers, JoinerNotStranded, AppTasks
<1> QED
    BY <1>1, <1>2, <1>3, <1>4, <1>5 DEF IInv

-----------------------------------------------------------------------------
\* What a step that only changes the kernel state has to establish.
LEMMA KernelStep ==
    ASSUME IInv,
           UNCHANGED <<pc, target, joined, app>>,
           KernelOK(gyros'),
           gyros'.current = gyros.current, gyros.current # NoTask,
           gyros'.joinable = gyros.joinable,
           gyros'.main_list[Idle] = Running,
           gyros'.pendsv \/ gyros'.main_list[gyros.current] = Running,
           FirstIsCurrent =>
               gyros'.pendsv \/ Head(gyros'.lists[Running]) = gyros'.current,
           Elements(gyros'.timeouts) \subseteq Elements(gyros.timeouts),
           \A t \in Tasks :
               \/ gyros'.main_list[t] = gyros.main_list[t]
               \/ Live(t) /\ gyros'.main_list[t] \in {Running, NoList}
    PROVE  IInv' /\ FirstKept
<1>1. TypeOK'
    BY DEF IInv, TypeOK, KernelOK
<1>2. IdleReady' /\ CurrentRuns' /\ FirstKept
    BY DEF IInv, IdleReady, CurrentRuns, FirstKept, FirstIsCurrent
<1>3. DeadUnlinked'
    BY DEF IInv, DeadUnlinked, Live
<1>4. JoinsOthers'
    BY ListIdsFacts DEF IInv, JoinsOthers
<1>5. JoinerNotStranded'
    BY ListIdsFacts DEF IInv, JoinsOthers, JoinerNotStranded, AppTasks
<1> QED
    BY <1>1, <1>2, <1>3, <1>4, <1>5 DEF IInv

LEMMA TaskCallsFacts ==
    ASSUME IInv, NEW f, TaskCalls(f)
    PROVE  /\ gyros.current \in AppTasks /\ Executing(gyros.current)
           /\ gyros.current # NoTask /\ pc[gyros.current] = "task"
    BY DEF TaskCalls, Executing, AppTasks, KernelAssumption

LEMMA CalledFacts ==
    ASSUME IInv, NEW f, Called(f)
    PROVE  gyros.current # NoTask
    BY TaskCallsFacts DEF Called

LEMMA StartStep == IInv /\ gyros_start => IInv' /\ FirstKept
<1> SUFFICES ASSUME IInv, gyros_start PROVE IInv' /\ FirstKept
    OBVIOUS
<1> DEFINE a == add_task_to_list(gyros, Idle, Running)
           b == [a EXCEPT !.current = Idle]
<1>1. gyros.current = NoTask /\ pc[Idle] = "new" /\ ~Live(Idle)
    BY DEF gyros_start, IInv, IdleReady, Live
<1>2. gyros.main_list[Idle] = NoList /\ Idle \notin Elements(gyros.timeouts)
    BY <1>1 DEF IInv, DeadUnlinked, KernelAssumption
<1>3. Idle \in Tasks /\ KernelOKWithout(gyros, Idle)
    BY <1>2, ListIdsFacts DEF IInv, KernelOK, KernelOKWithout, Unlinked, LinkedRight, KernelAssumption
<1>4. /\ KernelOK(a) /\ SameButLists(gyros, a)
      /\ a.main_list = [gyros.main_list EXCEPT ![Idle] = Running]
      /\ a.timeouts = gyros.timeouts
    BY <1>3, ListIdsFacts, AddTaskToListOK
<1> HIDE DEF a
<1>5. /\ b \in KernelStates /\ b.lists = a.lists /\ b.main_list = a.main_list
      /\ b.timeouts = a.timeouts /\ b.priority = a.priority
      /\ b.joinable = a.joinable /\ b.current = Idle
    BY <1>3, <1>4 DEF KernelOK, KernelStates
<1>6. gyros' = [b EXCEPT !.pendsv = TRUE]
    BY DEF gyros_start, gyros__reschedule, a
<1> HIDE DEF b
<1>7. KernelOK(b)
  <2>1. ListsOK(b) /\ \A t \in Tasks : LinkedRight(b, t)
    BY <1>4, <1>5 DEF KernelOK, ListsOK, LinkedRight
  <2> QED
    BY <1>4, <1>5, <2>1 DEF KernelOK
<1>8. /\ KernelOK(gyros') /\ gyros'.pendsv /\ gyros'.current = Idle
      /\ gyros'.main_list = [gyros.main_list EXCEPT ![Idle] = Running]
      /\ gyros'.timeouts = gyros.timeouts
      /\ gyros'.joinable = gyros.joinable
  <2>1. gyros' = gyros__reschedule(b)
    BY <1>6 DEF gyros__reschedule
  <2>2. KernelOK(gyros')
    BY <1>7, <2>1, RescheduleOK
  <2>3. /\ gyros'.pendsv /\ gyros'.current = b.current
        /\ gyros'.main_list = b.main_list /\ gyros'.timeouts = b.timeouts
        /\ gyros'.joinable = b.joinable
    BY <1>5, <1>6 DEF KernelStates
  <2> QED
    BY <1>4, <1>5, <2>2, <2>3 DEF SameButLists
<1>9. gyros.main_list \in [Tasks -> ListIds \cup {NoList}]
    BY DEF IInv, KernelOK, KernelStates
<1>10. pc' = [pc EXCEPT ![Idle] = "task"] /\ UNCHANGED <<target, joined, app>>
    BY DEF gyros_start
<1>11. TypeOK'
    BY <1>8, <1>10 DEF IInv, TypeOK, KernelOK
<1>12. IdleReady' /\ CurrentRuns' /\ FirstKept
    BY <1>3, <1>8, <1>9, <1>10
       DEF IInv, TypeOK, IdleReady, CurrentRuns, FirstKept, FirstIsCurrent, KernelAssumption
<1>13. DeadUnlinked'
    BY <1>8, <1>9, <1>10 DEF IInv, TypeOK, DeadUnlinked, Live
<1>14. JoinsOthers' /\ JoinerNotStranded'
    BY <1>8, <1>9, <1>10, ListIdsFacts DEF IInv, TypeOK, JoinsOthers, JoinerNotStranded, AppTasks
<1> QED
    BY <1>8, <1>11, <1>12, <1>13, <1>14 DEF IInv

LEMMA TickStep == IInv /\ Tick => IInv' /\ FirstKept
<1> SUFFICES ASSUME IInv, Tick PROVE IInv' /\ FirstKept
    OBVIOUS
<1> DEFINE now == (gyros.now + 1) % TimeRange
           n == gyros__tick(gyros, now)
<1>1. gyros.now \in Int
    BY DEF IInv, KernelOK, KernelStates, Time
<1>2. now \in Time
    BY <1>1, TimeFacts
<1> HIDE DEF now
<1>3. /\ KernelOK(n)
      /\ n.current = gyros.current /\ n.joinable = gyros.joinable
      /\ \A u \in Tasks : \/ n.main_list[u] = gyros.main_list[u]
                          \/ /\ n.main_list[u] = Running
                             /\ u \in Elements(gyros.timeouts)
                             /\ u \notin Elements(n.timeouts)
      /\ Elements(n.timeouts) \subseteq Elements(gyros.timeouts)
      /\ n.pendsv \/ (n.lists = gyros.lists /\ n.pendsv = gyros.pendsv)
  <2>1. KernelOK(gyros) /\ now \in Time
    BY <1>2 DEF IInv
  <2> QED
    BY ONLY <2>1, TickOK
<1>4. gyros' = n /\ UNCHANGED <<pc, target, joined, app>> /\ gyros.current # NoTask
    BY DEF Tick, now
<1> HIDE DEF n
<1>5. \A u \in Tasks : u \in Elements(gyros.timeouts) => Live(u)
    BY DEF IInv, DeadUnlinked
<1>6. n.main_list[Idle] = Running
    BY <1>3, <1>4 DEF IInv, IdleReady, KernelAssumption
<1>7. gyros.current \in Tasks
    BY <1>4 DEF IInv, KernelOK, KernelStates
<1>8. n.pendsv \/ n.main_list[gyros.current] = Running
    BY <1>3, <1>4, <1>7 DEF IInv, CurrentRuns
<1>9. FirstIsCurrent => n.pendsv \/ Head(n.lists[Running]) = n.current
    BY <1>3, <1>4 DEF FirstIsCurrent
<1> QED
    BY <1>3, <1>4, <1>5, <1>6, <1>8, <1>9, KernelStep

LEMMA SwitchStep == IInv /\ ContextSwitch => IInv' /\ FirstIsCurrent'
<1> SUFFICES ASSUME IInv, ContextSwitch PROVE IInv' /\ FirstIsCurrent'
    OBVIOUS
<1>1. gyros.current # NoTask /\ gyros.main_list[Idle] = Running /\ pc[Idle] = "task"
    BY DEF IInv, IdleReady, ContextSwitch
<1>2. gyros.lists[Running] # <<>> /\ Head(gyros.lists[Running]) \in Tasks
    BY <1>1, RunningNotEmpty DEF IInv, KernelAssumption
<1>3. gyros' = [gyros EXCEPT !.current = Head(gyros.lists[Running]), !.pendsv = FALSE]
      /\ UNCHANGED <<pc, target, joined, app>>
    BY DEF ContextSwitch, PendSV_Handler
<1>4. /\ gyros' \in KernelStates /\ gyros'.lists = gyros.lists
      /\ gyros'.main_list = gyros.main_list /\ gyros'.timeouts = gyros.timeouts
      /\ gyros'.priority = gyros.priority /\ gyros'.joinable = gyros.joinable
      /\ gyros'.current = Head(gyros.lists[Running]) /\ gyros'.current \in Tasks
    BY <1>2, <1>3 DEF IInv, KernelOK, KernelStates
<1>5. KernelOK(gyros')
  <2>1. ListsOK(gyros') /\ \A t \in Tasks : LinkedRight(gyros', t)
    BY <1>4 DEF IInv, KernelOK, ListsOK, LinkedRight
  <2> QED
    BY <1>4, <2>1 DEF IInv, KernelOK
<1>6. TypeOK'
    BY <1>3, <1>4 DEF IInv, TypeOK
<1>7. IdleReady' /\ FirstIsCurrent'
    BY <1>1, <1>3, <1>4 DEF IdleReady, FirstIsCurrent, KernelAssumption
<1>8. CurrentRuns'
  <2>1. gyros.lists[Running] \in Seq(Tasks)
    BY RunningSeq DEF IInv
  <2>2. Head(gyros.lists[Running]) \in Elements(gyros.lists[Running])
    BY <1>2, <2>1, ElementsOfSeq
  <2>3. gyros.main_list[Head(gyros.lists[Running])] = Running
    BY <1>2, <2>2, ListIdsFacts DEF IInv, KernelOK, LinkedRight
  <2> QED
    BY <1>4, <2>3 DEF CurrentRuns
<1>9. DeadUnlinked' /\ JoinsOthers' /\ JoinerNotStranded'
    BY <1>3, <1>4 DEF IInv, DeadUnlinked, JoinsOthers, JoinerNotStranded, Live
<1> QED
    BY <1>5, <1>6, <1>7, <1>8, <1>9 DEF IInv

LEMMA SuspendStep ==
    ASSUME IInv, NEW t \in AppTasks, gyros_task_suspend(t) PROVE IInv' /\ FirstKept
<1> DEFINE a == gyros__task_suspend(gyros, t)
           b == RemoveTimeout(a, t)
<1>1. gyros.current # NoTask /\ Live(t) /\ t \in Tasks /\ t # Idle
      /\ UNCHANGED <<pc, target, joined, app>>
    BY CalledFacts DEF gyros_task_suspend, AppTasks
<1>2. /\ KernelOK(a) /\ SameButLists(gyros, a)
      /\ a.main_list = [gyros.main_list EXCEPT ![t] = NoList]
      /\ a.timeouts = gyros.timeouts
    BY <1>1, TaskSuspendOK DEF IInv
<1> HIDE DEF a
<1>3. /\ KernelOK(b) /\ SameButLists(a, b) /\ b.lists = a.lists
      /\ b.main_list = a.main_list
      /\ Elements(b.timeouts) = Elements(a.timeouts) \ {t}
    BY <1>2, RemoveTimeoutOK
<1> HIDE DEF b
<1>4. gyros' = IF t = gyros.current THEN gyros__reschedule(b) ELSE b
    BY DEF gyros_task_suspend, a, b
<1>5. KernelOK(gyros__reschedule(b)) /\ gyros__reschedule(b) = [b EXCEPT !.pendsv = TRUE]
    BY <1>3, RescheduleOK
<1>6. /\ KernelOK(gyros') /\ gyros'.main_list = b.main_list
      /\ gyros'.timeouts = b.timeouts /\ gyros'.joinable = gyros.joinable
      /\ gyros'.current = gyros.current
      /\ gyros'.pendsv \/ (t # gyros.current /\ gyros'.lists = a.lists
                             /\ gyros'.pendsv = gyros.pendsv)
    BY <1>2, <1>3, <1>4, <1>5 DEF SameButLists, KernelOK, KernelStates
<1>7. gyros.main_list \in [Tasks -> ListIds \cup {NoList}]
    BY DEF IInv, KernelOK, KernelStates
<1>8. gyros'.main_list[Idle] = Running
    BY <1>1, <1>2, <1>3, <1>6, <1>7 DEF IInv, IdleReady, KernelAssumption
<1>9. FirstIsCurrent => gyros'.pendsv \/ Head(gyros'.lists[Running]) = gyros'.current
  <2> SUFFICES ASSUME FirstIsCurrent, ~gyros'.pendsv
               PROVE  Head(gyros'.lists[Running]) = gyros'.current
    OBVIOUS
  <2>1. /\ t # gyros.current /\ ~gyros.pendsv
        /\ Head(gyros.lists[Running]) = gyros.current
    BY <1>1, <1>6 DEF FirstIsCurrent
  <2>2. gyros.lists[Running] # <<>>
    BY <1>1, RunningNotEmpty DEF IInv, IdleReady, KernelAssumption
  <2>3. Head(a.lists[Running]) = Head(gyros.lists[Running])
    BY <1>1, <2>1, <2>2, FirstRunningStays DEF IInv, a
  <2> QED
    BY <1>6, <2>1, <2>3
<1>10. \A u \in Tasks :
           \/ gyros'.main_list[u] = gyros.main_list[u]
           \/ Live(u) /\ gyros'.main_list[u] \in {Running, NoList}
    BY <1>1, <1>2, <1>3, <1>6, <1>7
<1>11. Elements(gyros'.timeouts) \subseteq Elements(gyros.timeouts)
    BY <1>2, <1>3, <1>6
<1>12. gyros'.pendsv \/ gyros'.main_list[gyros.current] = Running
  <2>1. CASE gyros'.pendsv
    BY <2>1
  <2>2. CASE ~gyros'.pendsv
    <3>1. t # gyros.current /\ ~gyros.pendsv /\ gyros.current \in Tasks
      BY <1>1, <1>6, <2>2 DEF IInv, KernelOK, KernelStates
    <3> QED
      BY <1>1, <1>2, <1>3, <1>6, <1>7, <3>1 DEF IInv, CurrentRuns
  <2> QED
    BY <2>1, <2>2
<1> QED
    BY <1>1, <1>6, <1>8, <1>9, <1>10, <1>11, <1>12, KernelStep

\* gyros__task_move to the list of running tasks, then gyros__cond_reschedule.
LEMMA MoveStep ==
    ASSUME IInv, NEW t \in Tasks, Live(t), gyros.current # NoTask,
           UNCHANGED <<pc, target, joined, app>>,
           gyros' = gyros__cond_reschedule(gyros__task_move(gyros, t, Running))
    PROVE  IInv' /\ FirstKept
<1> DEFINE a == gyros__task_move(gyros, t, Running)
<1>1. /\ KernelOK(a) /\ SameButLists(gyros, a)
      /\ a.main_list = [gyros.main_list EXCEPT ![t] = Running]
      /\ a.timeouts = gyros.timeouts
    BY ListIdsFacts, TaskMoveOK DEF IInv
<1>2. gyros' = gyros__cond_reschedule(a)
    OBVIOUS
<1> HIDE DEF a
<1>3. /\ KernelOK(gyros')
      /\ gyros' = a \/ gyros' = [a EXCEPT !.pendsv = TRUE]
      /\ gyros'.pendsv \/ Head(gyros'.lists[Running]) = gyros'.current
    BY <1>1, <1>2, CondRescheduleOK
<1>4. /\ gyros'.main_list = a.main_list /\ gyros'.timeouts = a.timeouts
      /\ gyros'.current = a.current /\ gyros'.joinable = a.joinable
  <2>1. a \in KernelStates
    BY <1>1 DEF KernelOK
  <2>2. CASE gyros' = a
    BY <2>2
  <2>3. CASE gyros' = [a EXCEPT !.pendsv = TRUE]
    BY <2>1, <2>3 DEF KernelStates
  <2> QED
    BY <1>3, <2>2, <2>3
<1>5. gyros.main_list \in [Tasks -> ListIds \cup {NoList}]
    BY DEF IInv, KernelOK, KernelStates
<1>6. gyros'.main_list[Idle] = Running
    BY <1>1, <1>4, <1>5 DEF IInv, IdleReady, KernelAssumption
<1>7. \A u \in Tasks :
          \/ gyros'.main_list[u] = gyros.main_list[u]
          \/ Live(u) /\ gyros'.main_list[u] \in {Running, NoList}
    BY <1>1, <1>4, <1>5
<1>8. gyros.current \in Tasks
    BY DEF IInv, KernelOK, KernelStates
<1>9. gyros'.pendsv \/ gyros'.main_list[gyros.current] = Running
  <2>1. gyros'.pendsv \/ gyros'.pendsv = gyros.pendsv
    BY <1>1, <1>3 DEF SameButLists, KernelOK, KernelStates
  <2> QED
    BY <1>1, <1>4, <1>5, <1>8, <2>1 DEF IInv, CurrentRuns
<1> QED
    BY <1>1, <1>3, <1>4, <1>6, <1>7, <1>9, KernelStep DEF SameButLists

LEMMA ResumeStep ==
    ASSUME IInv, NEW t \in AppTasks, gyros_task_resume(t) PROVE IInv' /\ FirstKept
<1>1. gyros.current # NoTask
    BY CalledFacts DEF gyros_task_resume
<1> QED
    BY <1>1, MoveStep DEF gyros_task_resume, AppTasks

LEMMA YieldStep == IInv /\ gyros_yield => IInv' /\ FirstKept
<1> SUFFICES ASSUME IInv, gyros_yield PROVE IInv' /\ FirstKept
    OBVIOUS
<1> DEFINE t == gyros.current
<1>1. t \in Tasks /\ Executing(t) /\ t # NoTask
    BY TaskCallsFacts DEF gyros_yield, AppTasks
<1>2. Live(t)
    BY <1>1, ExecutingFacts
<1> QED
    BY <1>1, <1>2, MoveStep DEF gyros_yield

LEMMA SetPriorityStep ==
    ASSUME IInv, NEW t \in AppTasks, NEW p \in Priorities,
           gyros_task_set_priority(t, p)
    PROVE  IInv' /\ FirstKept
<1> DEFINE a == [gyros EXCEPT !.base_priority[t] = p]
           b == gyros__set_priority(a, t, p)
<1>1. gyros.current # NoTask /\ UNCHANGED <<pc, target, joined, app>> /\ t \in Tasks
    BY CalledFacts DEF gyros_task_set_priority, AppTasks
<1>2. /\ a \in KernelStates /\ a.lists = gyros.lists /\ a.main_list = gyros.main_list
      /\ a.timeouts = gyros.timeouts /\ a.priority = gyros.priority
      /\ a.joinable = gyros.joinable /\ a.current = gyros.current
      /\ a.pendsv = gyros.pendsv
    BY <1>1 DEF IInv, KernelOK, KernelStates
<1>3. gyros' = IF gyros.priority[t] = p THEN a ELSE gyros__cond_reschedule(b)
    BY DEF gyros_task_set_priority
<1> HIDE DEF a
<1>4. KernelOK(a)
  <2>1. ListsOK(a) /\ \A u \in Tasks : LinkedRight(a, u)
    BY <1>2 DEF IInv, KernelOK, ListsOK, LinkedRight
  <2> QED
    BY <1>2, <2>1 DEF IInv, KernelOK
<1>5. /\ KernelOK(b) /\ b.main_list = a.main_list /\ b.timeouts = a.timeouts
      /\ b.current = a.current /\ b.pendsv = a.pendsv /\ b.joinable = a.joinable
  <2>1. t \in Tasks /\ KernelOK(a) /\ p \in Priorities \cup {0}
    BY <1>1, <1>4
  <2> DEFINE n == gyros__set_priority(a, t, p)
  <2>2. /\ KernelOK(n) /\ n.main_list = a.main_list /\ n.timeouts = a.timeouts
        /\ n.current = a.current /\ n.pendsv = a.pendsv /\ n.joinable = a.joinable
    BY <2>1, SetPriorityOK
  <2> QED
    BY <2>2 DEF b
<1> HIDE DEF b
<1>6. gyros.main_list[Idle] = Running
    BY <1>1 DEF IInv, IdleReady
<1>7. gyros.pendsv \/ gyros.main_list[gyros.current] = Running
    BY <1>1 DEF IInv, CurrentRuns
<1>8. CASE gyros.priority[t] = p
  <2>1. gyros' = a
    BY <1>3, <1>8
  <2>2. FirstIsCurrent => gyros'.pendsv \/ Head(gyros'.lists[Running]) = gyros'.current
    BY <1>1, <1>2, <2>1 DEF FirstIsCurrent
  <2> QED
    BY <1>1, <1>2, <1>4, <1>6, <1>7, <2>1, <2>2, KernelStep
<1>9. CASE gyros.priority[t] # p
  <2>1. gyros' = gyros__cond_reschedule(b)
    BY <1>3, <1>9
  <2>2. /\ KernelOK(gyros')
        /\ gyros' = b \/ gyros' = [b EXCEPT !.pendsv = TRUE]
        /\ gyros'.pendsv \/ Head(gyros'.lists[Running]) = gyros'.current
    BY <1>5, <2>1, CondRescheduleOK
  <2>3. /\ gyros'.main_list = b.main_list /\ gyros'.timeouts = b.timeouts
        /\ gyros'.current = b.current /\ gyros'.joinable = b.joinable
        /\ gyros'.pendsv \/ gyros'.pendsv = b.pendsv
    BY <1>5, <2>2 DEF KernelOK, KernelStates
  <2> QED
    BY <1>1, <1>2, <1>5, <1>6, <1>7, <2>2, <2>3, KernelStep
<1> QED
    BY <1>8, <1>9

-----------------------------------------------------------------------------
(* Calls that block.                                                       *)

\* The value of gyros_sleep_until is read; only dead fields change.
LEMMA ReturnStep ==
    ASSUME IInv, NEW t \in AppTasks, Executing(t), pc[t] \in Blocked,
           gyros' = gyros \/ gyros' = ForgetTimeout(gyros, t),
           Leave(t, "task")
    PROVE  IInv' /\ FirstKept
<1>1. t \in Tasks /\ t # Idle /\ gyros.main_list[t] = Running
    BY ExecutingFacts DEF AppTasks
<1>2. /\ KernelOK(gyros')
      /\ gyros'.current = gyros.current /\ gyros'.pendsv = gyros.pendsv
      /\ gyros'.lists = gyros.lists /\ gyros'.main_list = gyros.main_list
      /\ gyros'.timeouts = gyros.timeouts /\ gyros'.joinable = gyros.joinable
    BY <1>1, ForgetTimeoutOK DEF IInv
<1>3. /\ pc' = [pc EXCEPT ![t] = "task"]
      /\ target' = [target EXCEPT ![t] = NoTask]
      /\ joined' = [joined EXCEPT ![t] = FALSE] /\ app' = app
    BY DEF Leave
<1>4. TypeOK'
    BY <1>2, <1>3 DEF IInv, TypeOK, KernelOK
<1>5. IdleReady' /\ CurrentRuns' /\ FirstKept
    BY <1>1, <1>2, <1>3
       DEF IInv, TypeOK, IdleReady, CurrentRuns, FirstKept, FirstIsCurrent, KernelAssumption
<1>6. DeadUnlinked'
    BY <1>1, <1>2, <1>3, ListIdsFacts DEF IInv, TypeOK, DeadUnlinked, Live
<1>7. JoinsOthers' /\ JoinerNotStranded'
    BY <1>1, <1>2, <1>3 DEF IInv, TypeOK, JoinsOthers, JoinerNotStranded, AppTasks
<1> QED
    BY <1>2, <1>4, <1>5, <1>6, <1>7 DEF IInv

\* A step that changes nothing.
LEMMA StutterStep == IInv /\ UNCHANGED vars => IInv' /\ FirstKept
    BY DEF vars, IInv, TypeOK, IdleReady, CurrentRuns, FirstKept, FirstIsCurrent,
           DeadUnlinked, JoinsOthers, JoinerNotStranded, Live

LEMMA SleepStep ==
    ASSUME IInv, NEW t \in AppTasks, NEW timeout \in Time,
           gyros_sleep_until(t, timeout)
    PROVE  IInv' /\ FirstKept
<1>1. t \in Tasks /\ t # Idle /\ t = gyros.current /\ Executing(t) /\ t # NoTask
    BY TaskCallsFacts DEF gyros_sleep_until, AppTasks
<1>2. CASE TimeoutReached(gyros, timeout)
    BY <1>2, StutterStep DEF gyros_sleep_until
<1>3. CASE ~TimeoutReached(gyros, timeout)
  <2> DEFINE a == gyros__task_set_timeout(gyros, timeout)
             b == gyros__task_suspend(a, t)
  <2>1. t \notin Elements(gyros.timeouts)
    BY <1>3 DEF gyros_sleep_until, TimeoutUnlinked
  <2>2. /\ KernelOK(a) /\ a.lists = gyros.lists /\ a.main_list = gyros.main_list
        /\ a.current = gyros.current /\ a.joinable = gyros.joinable
        /\ Elements(a.timeouts) = Elements(gyros.timeouts) \cup {t}
    BY <1>1, <2>1, SetTimeoutOK DEF IInv
  <2>3. /\ gyros' = gyros__reschedule(b)
        /\ pc' = [pc EXCEPT ![t] = "sleep_until"]
        /\ UNCHANGED <<target, joined, app>>
    BY <1>3 DEF gyros_sleep_until
  <2> HIDE DEF a
  <2>4. /\ KernelOK(b) /\ SameButLists(a, b) /\ b.timeouts = a.timeouts
        /\ b.main_list = [a.main_list EXCEPT ![t] = NoList]
    BY <1>1, <2>2, TaskSuspendOK
  <2> HIDE DEF b
  <2>5. /\ KernelOK(gyros') /\ gyros' = [b EXCEPT !.pendsv = TRUE]
    BY <2>3, <2>4, RescheduleOK
  <2>6. /\ gyros'.pendsv /\ gyros'.current = gyros.current
        /\ gyros'.main_list = [gyros.main_list EXCEPT ![t] = NoList]
        /\ gyros'.joinable = gyros.joinable
        /\ Elements(gyros'.timeouts) = Elements(gyros.timeouts) \cup {t}
    BY <2>2, <2>4, <2>5 DEF KernelOK, KernelStates, SameButLists
  <2>7. gyros.main_list \in [Tasks -> ListIds \cup {NoList}]
    BY DEF IInv, KernelOK, KernelStates
  <2>8. TypeOK'
    BY <2>3, <2>5 DEF IInv, TypeOK, KernelOK, Blocked
  <2>9. IdleReady' /\ CurrentRuns' /\ FirstKept
    BY <1>1, <2>3, <2>6, <2>7
       DEF IInv, TypeOK, IdleReady, CurrentRuns, FirstKept, FirstIsCurrent, KernelAssumption
  <2>10. DeadUnlinked'
    BY <1>1, <2>3, <2>6, <2>7 DEF IInv, TypeOK, DeadUnlinked, Live
  <2>11. JoinsOthers' /\ JoinerNotStranded'
    BY <1>1, <2>3, <2>6, <2>7, ListIdsFacts
       DEF IInv, TypeOK, JoinsOthers, JoinerNotStranded, AppTasks
  <2> QED
    BY <2>5, <2>8, <2>9, <2>10, <2>11 DEF IInv
<1> QED
    BY <1>2, <1>3

LEMMA JoinLoopStep ==
    ASSUME IInv, NEW t \in AppTasks, NEW u \in AppTasks \ {t}, Executing(t),
           pc[t] \in {"task", "join"}, JoinLoop(t, u)
    PROVE  IInv' /\ FirstKept
<1>1. t \in Tasks /\ t # Idle /\ u \in Tasks /\ u # t
      /\ gyros.main_list[t] = Running /\ gyros.current = t /\ t # NoTask
    BY ExecutingFacts DEF AppTasks, Executing, KernelAssumption
<1>2. CASE gyros.joinable[u]
  <2> DEFINE a == gyros__task_move(gyros, t, u)
  <2>1. /\ gyros' = gyros__reschedule(a)
        /\ pc' = [pc EXCEPT ![t] = "join"]
        /\ target' = [target EXCEPT ![t] = u]
        /\ UNCHANGED <<joined, app>>
    BY <1>2 DEF JoinLoop
  <2>2. u \in ListIds
    BY <1>1, ListIdsFacts
  <2>3. /\ KernelOK(a) /\ SameButLists(gyros, a) /\ a.timeouts = gyros.timeouts
        /\ a.main_list = [gyros.main_list EXCEPT ![t] = u]
    BY <1>1, <2>2, TaskMoveOK DEF IInv
  <2> HIDE DEF a
  <2>4. KernelOK(gyros') /\ gyros' = [a EXCEPT !.pendsv = TRUE]
    BY <2>1, <2>3, RescheduleOK
  <2>5. /\ gyros'.pendsv /\ gyros'.current = gyros.current
        /\ gyros'.main_list = [gyros.main_list EXCEPT ![t] = u]
        /\ gyros'.joinable = gyros.joinable
        /\ gyros'.timeouts = gyros.timeouts
    BY <2>3, <2>4 DEF KernelOK, KernelStates, SameButLists
  <2>6. gyros.main_list \in [Tasks -> ListIds \cup {NoList}]
    BY DEF IInv, KernelOK, KernelStates
  <2>7. TypeOK'
    BY <1>1, <2>1, <2>4 DEF IInv, TypeOK, KernelOK, Blocked
  <2>8. IdleReady' /\ CurrentRuns' /\ FirstKept
    BY <1>1, <2>1, <2>5, <2>6
       DEF IInv, TypeOK, IdleReady, CurrentRuns, FirstKept, FirstIsCurrent, KernelAssumption
  <2>9. DeadUnlinked'
    BY <1>1, <2>1, <2>5, <2>6 DEF IInv, TypeOK, DeadUnlinked, Live
  <2>10. JoinsOthers'
    BY <1>1, <2>1, <2>5, <2>6 DEF IInv, TypeOK, JoinsOthers, AppTasks
  <2>11. JoinerNotStranded'
    BY <1>1, <1>2, <2>1, <2>5, <2>6 DEF IInv, TypeOK, JoinerNotStranded, AppTasks
  <2> QED
    BY <2>4, <2>7, <2>8, <2>9, <2>10, <2>11 DEF IInv
<1>3. CASE ~gyros.joinable[u]
  <2>1. /\ gyros' = gyros
        /\ pc' = [pc EXCEPT ![t] = "task"]
        /\ target' = [target EXCEPT ![t] = NoTask]
        /\ joined' = [joined EXCEPT ![t] = FALSE] /\ app' = app
    BY <1>3 DEF JoinLoop, Leave
  <2>2. TypeOK'
    BY <1>1, <2>1 DEF IInv, TypeOK
  <2>3. KernelOK(gyros') /\ IdleReady' /\ CurrentRuns' /\ FirstKept
    BY <1>1, <2>1 DEF IInv, TypeOK, IdleReady, CurrentRuns, FirstKept, FirstIsCurrent
  <2>4. DeadUnlinked'
    BY <1>1, <2>1, ExecutingFacts DEF IInv, TypeOK, DeadUnlinked, Live
  <2>5. JoinsOthers' /\ JoinerNotStranded'
    BY <1>1, <2>1 DEF IInv, TypeOK, JoinsOthers, JoinerNotStranded, AppTasks
  <2> QED
    BY <2>2, <2>3, <2>4, <2>5 DEF IInv
<1> QED
    BY <1>2, <1>3

LEMMA JoinStep ==
    ASSUME IInv, NEW t \in AppTasks, NEW u \in AppTasks, gyros_task_join(t, u)
    PROVE  IInv' /\ FirstKept
<1>1. Executing(t) /\ pc[t] = "task" /\ u # t /\ JoinLoop(t, u)
    BY TaskCallsFacts DEF gyros_task_join
<1> QED
    BY <1>1, JoinLoopStep

LEMMA JoinWokenStep ==
    ASSUME IInv, NEW t \in AppTasks, JoinWoken(t)
    PROVE  IInv' /\ FirstKept
<1>1. Executing(t) /\ pc[t] = "join" /\ JoinLoop(t, target[t])
    BY DEF JoinWoken
<1>2. target[t] \in AppTasks \ {t}
    BY <1>1 DEF IInv, JoinsOthers, AppTasks
<1> QED
    BY <1>1, <1>2, JoinLoopStep

LEMMA JoinUntilStep ==
    ASSUME IInv, NEW t \in AppTasks, NEW u \in AppTasks, NEW timeout \in Time,
           gyros_task_join_until(t, u, timeout)
    PROVE  IInv' /\ FirstKept
<1>1. /\ t \in Tasks /\ t # Idle /\ t = gyros.current /\ Executing(t)
      /\ t # NoTask /\ u \in Tasks /\ u # t
    BY TaskCallsFacts DEF gyros_task_join_until, AppTasks
<1>2. t \notin Elements(gyros.timeouts) \/ TimeoutReached(gyros, timeout)
    BY DEF gyros_task_join_until, TimeoutUnlinked
<1>3. CASE TimeoutReached(gyros, timeout)
    BY <1>3, StutterStep DEF gyros_task_join_until
<1>4. CASE ~TimeoutReached(gyros, timeout)
  <2> DEFINE a == gyros__task_set_timeout(gyros, timeout)
             b == gyros__task_move(a, t, u)
  <2>1. /\ KernelOK(a) /\ a.lists = gyros.lists /\ a.main_list = gyros.main_list
        /\ a.current = gyros.current /\ a.joinable = gyros.joinable
        /\ Elements(a.timeouts) = Elements(gyros.timeouts) \cup {t}
    BY <1>1, <1>2, <1>4, SetTimeoutOK DEF IInv
  <2>2. /\ gyros' = gyros__reschedule(b)
        /\ pc' = [pc EXCEPT ![t] = "join_until"]
        /\ target' = [target EXCEPT ![t] = u]
        /\ joined' = [joined EXCEPT ![t] = ~gyros.joinable[u]] /\ app' = app
    BY <1>4 DEF gyros_task_join_until
  <2> HIDE DEF a
  <2>3. /\ KernelOK(b) /\ SameButLists(a, b) /\ b.timeouts = a.timeouts
        /\ b.main_list = [a.main_list EXCEPT ![t] = u]
    <3>1. u \in ListIds
      BY <1>1, ListIdsFacts
    <3> QED
      BY <1>1, <2>1, <3>1, TaskMoveOK
  <2> HIDE DEF b
  <2>4. /\ KernelOK(gyros') /\ gyros' = [b EXCEPT !.pendsv = TRUE]
    BY <2>2, <2>3, RescheduleOK
  <2>5. /\ gyros'.pendsv /\ gyros'.current = gyros.current
        /\ gyros'.main_list = [gyros.main_list EXCEPT ![t] = u]
        /\ gyros'.joinable = gyros.joinable
        /\ Elements(gyros'.timeouts) = Elements(gyros.timeouts) \cup {t}
    BY <2>1, <2>3, <2>4 DEF KernelOK, KernelStates, SameButLists
  <2>6. /\ gyros.main_list \in [Tasks -> ListIds \cup {NoList}]
        /\ gyros.joinable \in [Tasks -> BOOLEAN]
    BY DEF IInv, KernelOK, KernelStates
  <2>7. TypeOK'
    BY <1>1, <2>2, <2>4, <2>6 DEF IInv, TypeOK, KernelOK, Blocked
  <2>8. IdleReady' /\ CurrentRuns' /\ FirstKept
    BY <1>1, <2>2, <2>5, <2>6
       DEF IInv, TypeOK, IdleReady, CurrentRuns, FirstKept, FirstIsCurrent, KernelAssumption
  <2>9. DeadUnlinked'
    BY <1>1, <2>2, <2>5, <2>6 DEF IInv, TypeOK, DeadUnlinked, Live
  <2>10. JoinsOthers'
    BY <1>1, <2>2, <2>5, <2>6 DEF IInv, TypeOK, JoinsOthers, AppTasks
  <2>11. JoinerNotStranded'
    BY <1>1, <2>2, <2>5, <2>6 DEF IInv, TypeOK, JoinsOthers, JoinerNotStranded, AppTasks
  <2> QED
    BY <2>4, <2>7, <2>8, <2>9, <2>10, <2>11 DEF IInv
<1> QED
    BY <1>3, <1>4

\* The structure that gyros_task_create has initialised is linked nowhere.
LEMMA InitialisedOK ==
    ASSUME IInv, NEW t \in AppTasks, NEW p \in Priorities, gyros_task_create(t, p)
    PROVE  LET a == [gyros EXCEPT !.joinable[t] = TRUE,
                                  !.base_priority[t] = p,
                                  !.priority[t] = p,
                                  !.lists[t] = <<>>]
           IN  /\ KernelOKWithout(a, t)
               /\ a.lists = gyros.lists /\ a.main_list = gyros.main_list
               /\ a.timeouts = gyros.timeouts /\ a.current = gyros.current
               /\ a.pendsv = gyros.pendsv
               /\ a.joinable = [gyros.joinable EXCEPT ![t] = TRUE]
               /\ \A u \in Tasks \ {t} : a.priority[u] = gyros.priority[u]
<1> DEFINE a == [gyros EXCEPT !.joinable[t] = TRUE,
                              !.base_priority[t] = p,
                              !.priority[t] = p,
                              !.lists[t] = <<>>]
<1>1. t \in Tasks /\ ~Live(t) /\ gyros.lists[t] = <<>>
    BY DEF gyros_task_create, AppTasks
<1>2. gyros.main_list[t] = NoList /\ t \notin Elements(gyros.timeouts)
    BY <1>1 DEF IInv, DeadUnlinked
<1>3. t \in ListIds /\ Running \in ListIds
    BY <1>1, ListIdsFacts
<1>4. /\ a \in KernelStates
      /\ a.lists = gyros.lists /\ a.main_list = gyros.main_list
      /\ a.timeouts = gyros.timeouts /\ a.current = gyros.current
      /\ a.pendsv = gyros.pendsv
      /\ a.joinable = [gyros.joinable EXCEPT ![t] = TRUE]
      /\ \A u \in Tasks \ {t} : a.priority[u] = gyros.priority[u]
  <2>1. [gyros.lists EXCEPT ![t] = <<>>] = gyros.lists
    BY <1>1, <1>3 DEF IInv, KernelOK, KernelStates
  <2>2. gyros \in KernelStates
    BY DEF IInv, KernelOK
  <2> QED
    BY <1>1, <1>3, <2>1, <2>2 DEF KernelStates
<1> HIDE DEF a
<1>5. KernelOKWithout(a, t)
  <2>1. Unlinked(a, t)
    BY <1>1, <1>2, <1>4, ListIdsFacts DEF IInv, KernelOK, LinkedRight, Unlinked
  <2>2. \A l \in ListIds : Distinct(a.lists[l])
    BY <1>4 DEF IInv, KernelOK, ListsOK
  <2>3. ASSUME NEW l \in ListIds PROVE Falling(a.lists[l], a.priority)
    <3>1. a.lists[l] \in Seq(Tasks) /\ Falling(a.lists[l], gyros.priority)
      BY <1>4 DEF IInv, KernelOK, ListsOK, KernelStates
    <3>2. \A x \in Elements(a.lists[l]) : gyros.priority[x] = a.priority[x]
      BY <1>4, <2>1, <3>1, ElementsOfSeq DEF Unlinked
    <3> QED
      BY <3>1, <3>2, FallingSameKeys
  <2>4. \A u \in Tasks \ {t} : LinkedRight(a, u)
    BY <1>4 DEF IInv, KernelOK, LinkedRight
  <2>5. Distinct(a.timeouts)
    BY <1>4 DEF IInv, KernelOK
  <2> QED
    BY <1>4, <2>1, <2>2, <2>3, <2>4, <2>5 DEF KernelOKWithout, ListsOK
<1> QED
    BY <1>4, <1>5 DEF a

LEMMA CreateStep ==
    ASSUME IInv, NEW t \in AppTasks, NEW p \in Priorities, gyros_task_create(t, p)
    PROVE  IInv' /\ FirstKept
<1> DEFINE a == [gyros EXCEPT !.joinable[t] = TRUE,
                              !.base_priority[t] = p,
                              !.priority[t] = p,
                              !.lists[t] = <<>>]
           b == add_task_to_list(a, t, Running)
           c == gyros__cond_reschedule(b)
<1>1. /\ t \in Tasks /\ t # Idle /\ ~Live(t) /\ gyros.lists[t] = <<>>
      /\ gyros' = IF b.current = NoTask THEN b ELSE c
      /\ pc' = [pc EXCEPT ![t] = "task"]
      /\ target' = [target EXCEPT ![t] = NoTask]
      /\ joined' = [joined EXCEPT ![t] = FALSE] /\ app' = app
    BY DEF gyros_task_create, Leave, AppTasks
<1>2. gyros.main_list[t] = NoList /\ t \notin Elements(gyros.timeouts)
    BY <1>1 DEF IInv, DeadUnlinked
<1>3. Running \in ListIds
    BY ListIdsFacts
<1>4. /\ a.lists = gyros.lists /\ a.main_list = gyros.main_list
      /\ a.timeouts = gyros.timeouts /\ a.current = gyros.current
      /\ a.pendsv = gyros.pendsv
      /\ a.joinable = [gyros.joinable EXCEPT ![t] = TRUE]
      /\ KernelOKWithout(a, t)
    BY InitialisedOK
<1> HIDE DEF a
<1>5. KernelOKWithout(a, t)
    BY <1>4
<1>6. /\ KernelOK(b) /\ SameButLists(a, b) /\ b.timeouts = a.timeouts
      /\ b.main_list = [a.main_list EXCEPT ![t] = Running]
  <2>1. t \in Tasks /\ KernelOKWithout(a, t)
    BY <1>1, <1>5
  <2> QED
    BY <2>1, <1>3, AddTaskToListOK
<1> HIDE DEF b
<1>7. /\ KernelOK(c) /\ (c = b \/ c = [b EXCEPT !.pendsv = TRUE])
      /\ c.pendsv \/ Head(c.lists[Running]) = c.current
    BY <1>6, CondRescheduleOK
<1> HIDE DEF c
<1>8. /\ c.current = b.current /\ c.main_list = b.main_list
      /\ c.timeouts = b.timeouts /\ c.joinable = b.joinable
    BY <1>6, <1>7 DEF KernelOK, KernelStates
<1>9. /\ KernelOK(gyros') /\ gyros'.current = gyros.current
      /\ gyros'.main_list = [gyros.main_list EXCEPT ![t] = Running]
      /\ gyros'.joinable = [gyros.joinable EXCEPT ![t] = TRUE]
      /\ gyros'.timeouts = gyros.timeouts
      /\ gyros'.pendsv \/ gyros'.pendsv = gyros.pendsv
      /\ IF gyros.current = NoTask
         THEN gyros'.pendsv = gyros.pendsv
         ELSE gyros'.pendsv \/ Head(gyros'.lists[Running]) = gyros'.current
    BY <1>1, <1>4, <1>6, <1>7, <1>8 DEF SameButLists, KernelOK, KernelStates
<1>10. /\ gyros.main_list \in [Tasks -> ListIds \cup {NoList}]
       /\ gyros.joinable \in [Tasks -> BOOLEAN]
       /\ Elements(gyros.timeouts) \subseteq Tasks \ {t}
    BY <1>2, ElementsOfSeq DEF IInv, KernelOK, KernelStates
<1>11. TypeOK'
    BY <1>1, <1>9 DEF IInv, TypeOK, KernelOK
<1>12. IdleReady' /\ FirstKept
    BY <1>1, <1>9, <1>10
       DEF IInv, TypeOK, IdleReady, FirstKept, FirstIsCurrent, KernelAssumption
<1>13. CurrentRuns'
    BY <1>1, <1>9, <1>10 DEF IInv, KernelOK, KernelStates, CurrentRuns
<1>14. DeadUnlinked'
    BY <1>1, <1>9, <1>10 DEF IInv, TypeOK, DeadUnlinked, Live
<1>15. JoinsOthers'
    BY <1>1, <1>9, <1>10, ListIdsFacts DEF IInv, TypeOK, JoinsOthers, AppTasks
<1>16. JoinerNotStranded'
    BY <1>1, <1>9, <1>10 DEF IInv, TypeOK, JoinsOthers, JoinerNotStranded, AppTasks
<1> QED
    BY <1>9, <1>11, <1>12, <1>13, <1>14, <1>15, <1>16 DEF IInv

\* A task finishes: the current one, with a reschedule, or another one without.
\* Those who wait to join another one may then belong before the current task.
LEMMA FinishStep ==
    ASSUME IInv, NEW t \in AppTasks, gyros.current # NoTask,
           Leave(t, "finished"),
           LET n == ForgetTimeout(gyros__task_finish(gyros, t), t)
           IN  \/ gyros' = gyros__reschedule(n)
               \/ gyros' = n /\ t # gyros.current
    PROVE  /\ IInv'
           /\ FirstKept \/ (t # gyros.current /\ gyros.lists[t] # <<>>)
<1> DEFINE a == gyros__task_finish(gyros, t)
           n == ForgetTimeout(a, t)
<1>1. /\ t \in Tasks /\ t # Idle
      /\ pc' = [pc EXCEPT ![t] = "finished"]
      /\ target' = [target EXCEPT ![t] = NoTask]
      /\ joined' = [joined EXCEPT ![t] = FALSE] /\ app' = app
    BY DEF Leave, AppTasks
<1>2. KernelOK(gyros) /\ t \in Tasks /\ gyros.main_list[t] # t
    BY <1>1 DEF IInv, JoinsOthers
<1>3. /\ KernelOK(a)
      /\ a.current = gyros.current /\ a.pendsv = gyros.pendsv
      /\ \A u \in Tasks \ {t} : a.joinable[u] = gyros.joinable[u]
      /\ a.main_list[t] = NoList
      /\ \A u \in Tasks \ {t} :
             \/ gyros.main_list[u] = t /\ a.main_list[u] = Running
             \/ gyros.main_list[u] # t /\ a.main_list[u] = gyros.main_list[u]
      /\ Elements(a.timeouts) \subseteq Elements(gyros.timeouts) \ {t}
      /\ \A u \in Tasks \ {t} : gyros.main_list[u] = t => u \notin Elements(a.timeouts)
  <2>1. FinishedRight(gyros, gyros__task_finish(gyros, t), t)
    BY <1>2, TaskFinishOK
  <2> HIDE DEF a
  <2>2. FinishedRight(gyros, a, t)
    BY <2>1 DEF a
  <2> QED
    BY <2>2 DEF FinishedRight
<1>4. gyros.main_list[Idle] = Running /\ pc[Idle] = "task" /\ Idle \in Tasks
    BY DEF IInv, IdleReady, KernelAssumption
<1>5. ASSUME FirstIsCurrent, ~gyros.pendsv, t # gyros.current, gyros.lists[t] = <<>>
      PROVE  Head(a.lists[Running]) = gyros.current
  <2>1. Head(gyros.lists[Running]) = gyros.current
    BY <1>5 DEF FirstIsCurrent
  <2>2. gyros.lists[Running] # <<>>
    BY <1>2, <1>4, RunningNotEmpty
  <2>3. Head(gyros.lists[Running]) # t
    BY <1>5, <2>1
  <2> QED
    BY <1>1, <1>2, <1>5, <2>1, <2>2, <2>3, FinishUnjoined
<1>6. /\ KernelOK(n) /\ n.current = a.current /\ n.pendsv = a.pendsv
      /\ n.lists = a.lists /\ n.main_list = a.main_list
      /\ n.timeouts = a.timeouts /\ n.joinable = a.joinable
  <2> HIDE DEF a
  <2> QED
    BY <1>1, <1>3, ForgetTimeoutOK
<1>7. gyros' = gyros__reschedule(n) \/ (gyros' = n /\ t # gyros.current)
    OBVIOUS
<1> HIDE DEF a, n
<1>8. KernelOK(gyros__reschedule(n)) /\ gyros__reschedule(n) = [n EXCEPT !.pendsv = TRUE]
    BY <1>6, RescheduleOK
<1>9. /\ KernelOK(gyros') /\ gyros'.current = gyros.current
      /\ gyros'.main_list = a.main_list
      /\ gyros'.timeouts = a.timeouts
      /\ gyros'.joinable = a.joinable
      /\ \/ gyros'.pendsv
         \/ /\ gyros'.lists = a.lists /\ gyros'.pendsv = gyros.pendsv
            /\ t # gyros.current
  <2>1. CASE gyros' = gyros__reschedule(n)
    <3>1. /\ gyros'.pendsv /\ gyros'.current = n.current
          /\ gyros'.main_list = n.main_list /\ gyros'.timeouts = n.timeouts
          /\ gyros'.joinable = n.joinable /\ KernelOK(gyros')
      BY <1>6, <1>8, <2>1 DEF KernelOK, KernelStates
    <3> QED
      BY <1>3, <1>6, <3>1
  <2>2. CASE gyros' = n /\ t # gyros.current
    BY <1>3, <1>6, <2>2
  <2> QED
    BY <1>7, <2>1, <2>2
<1>10. /\ gyros.main_list \in [Tasks -> ListIds \cup {NoList}]
       /\ gyros.joinable \in [Tasks -> BOOLEAN]
       /\ Elements(gyros.timeouts) \subseteq Tasks
    BY ElementsOfSeq DEF IInv, KernelOK, KernelStates
<1>11. TypeOK'
    BY <1>1, <1>9 DEF IInv, TypeOK, KernelOK
<1>12. IdleReady' /\ CurrentRuns'
  <2>1. gyros'.main_list[Idle] = Running
    BY <1>1, <1>3, <1>4, <1>9
  <2>2. gyros.current \in Tasks
    BY DEF IInv, KernelOK, KernelStates
  <2>3. gyros'.pendsv \/ gyros'.main_list[gyros.current] = Running
    BY <1>3, <1>9, <2>2 DEF IInv, CurrentRuns
  <2> QED
    BY <1>1, <1>4, <1>9, <2>1, <2>3 DEF IInv, TypeOK, IdleReady, CurrentRuns
<1>13. DeadUnlinked'
  <2> SUFFICES ASSUME NEW u \in Tasks, ~Live(u)'
               PROVE  gyros'.main_list[u] = NoList /\ u \notin Elements(gyros'.timeouts)
    BY DEF DeadUnlinked
  <2>1. CASE u = t
    BY <1>3, <1>9, <2>1
  <2>2. CASE u # t
    <3>1. ~Live(u)
      BY <1>1, <2>2 DEF IInv, TypeOK, Live
    <3>2. gyros.main_list[u] = NoList /\ u \notin Elements(gyros.timeouts)
      BY <3>1 DEF IInv, DeadUnlinked
    <3> QED
      BY <1>1, <1>3, <1>9, <2>2, <3>2, ListIdsFacts
  <2> QED
    BY <2>1, <2>2
<1>14. FirstKept \/ (t # gyros.current /\ gyros.lists[t] # <<>>)
  <2> SUFFICES ASSUME FirstIsCurrent, t = gyros.current \/ gyros.lists[t] = <<>>
               PROVE  FirstIsCurrent'
    BY DEF FirstKept
  <2>1. CASE gyros'.pendsv
    BY <2>1 DEF FirstIsCurrent
  <2>2. CASE ~gyros'.pendsv
    <3>1. Head(a.lists[Running]) = gyros.current
      BY <1>5, <1>9, <2>2
    <3> QED
      BY <1>9, <2>2, <3>1 DEF FirstIsCurrent
  <2> QED
    BY <2>1, <2>2
<1>15. JoinsOthers'
  <2> SUFFICES ASSUME NEW u \in Tasks
               PROVE  /\ gyros'.main_list[u] # u
                      /\ pc'[u] = "join" => target'[u] \in AppTasks \ {u}
    BY DEF JoinsOthers
  <2>1. gyros'.main_list[u] # u
    BY <1>1, <1>3, <1>9, ListIdsFacts DEF IInv, JoinsOthers
  <2>2. pc'[u] = "join" => u # t /\ pc[u] = "join" /\ target'[u] = target[u]
    BY <1>1 DEF IInv, TypeOK
  <2> QED
    BY <2>1, <2>2 DEF IInv, JoinsOthers
<1>16. JoinerNotStranded'
  <2> SUFFICES ASSUME NEW u \in AppTasks, pc'[u] = "join", gyros'.main_list[u] = target'[u]
               PROVE  gyros'.joinable[target'[u]]
    BY DEF JoinerNotStranded
  <2>1. u \in Tasks /\ u # t /\ pc[u] = "join" /\ target'[u] = target[u]
    BY <1>1 DEF IInv, TypeOK, AppTasks
  <2>2. target[u] \in Tasks
    BY <2>1 DEF IInv, JoinsOthers, AppTasks
  <2>3. gyros.main_list[u] # t /\ gyros.main_list[u] = target[u]
    BY <1>3, <1>9, <2>1, <2>2, ListIdsFacts
  <2>4. gyros.joinable[target[u]]
    BY <2>1, <2>3 DEF IInv, JoinerNotStranded
  <2> QED
    BY <1>3, <1>9, <1>10, <2>1, <2>2, <2>3, <2>4
<1> QED
    BY <1>9, <1>11, <1>12, <1>13, <1>14, <1>15, <1>16 DEF IInv

LEMMA ExitStep ==
    ASSUME IInv, NEW t \in AppTasks, gyros__task_exit(t)
    PROVE  IInv' /\ FirstKept
<1>1. gyros.current # NoTask /\ t = gyros.current /\ Leave(t, "finished")
    BY TaskCallsFacts DEF gyros__task_exit
<1>2. gyros' = gyros__reschedule(ForgetTimeout(gyros__task_finish(gyros, t), t))
    BY DEF gyros__task_exit
<1> QED
    BY <1>1, <1>2, FinishStep

LEMMA DeleteStep ==
    ASSUME IInv, NEW t \in AppTasks, gyros_task_delete(t)
    PROVE  IInv' /\ (FirstKept \/ DeletesJoined(t))
<1>1. gyros.current # NoTask /\ Leave(t, "finished")
    BY TaskCallsFacts DEF gyros_task_delete
<1>2. CASE t = gyros.current
  <2>1. gyros' = gyros__reschedule(ForgetTimeout(gyros__task_finish(gyros, t), t))
    BY <1>2 DEF gyros_task_delete
  <2> QED
    BY <1>1, <1>2, <2>1, FinishStep
<1>3. CASE t # gyros.current
  <2>1. gyros' = ForgetTimeout(gyros__task_finish(gyros, t), t)
    BY <1>3 DEF gyros_task_delete
  <2> QED
    BY <1>1, <1>3, <2>1, FinishStep DEF DeletesJoined
<1> QED
    BY <1>2, <1>3

\* SleepReturn and JoinUntilReturn.
LEMMA WaitReturnStep ==
    ASSUME IInv, NEW t \in AppTasks, SleepReturn(t) \/ JoinUntilReturn(t)
    PROVE  IInv' /\ FirstKept
<1>1. /\ Executing(t) /\ pc[t] \in Blocked
      /\ gyros' = ForgetTimeout(gyros, t) /\ Leave(t, "task")
    BY DEF SleepReturn, JoinUntilReturn, Blocked
<1> QED
    BY <1>1, ReturnStep

\* The first task stays the current one, or becomes it by a switch, unless a
\* task others wait to join is deleted.
FirstRestored ==
    \/ FirstKept
    \/ ContextSwitch /\ FirstIsCurrent'
    \/ \E t \in AppTasks : DeletesJoined(t)

LEMMA NextStep ==
    ASSUME IInv, [Next]_vars
    PROVE  IInv' /\ FirstRestored
<1>1. CASE gyros_start
    BY <1>1, StartStep DEF FirstRestored
<1>2. CASE gyros_yield
    BY <1>2, YieldStep DEF FirstRestored
<1>3. CASE Tick
    BY <1>3, TickStep DEF FirstRestored
<1>4. CASE ContextSwitch
    BY <1>4, SwitchStep DEF FirstRestored
<1>5. ASSUME NEW t \in AppTasks, LifeStep(t)
      PROVE  IInv' /\ FirstRestored
  <2>1. CASE \E p \in Priorities : gyros_task_create(t, p)
    BY <2>1, CreateStep DEF FirstRestored
  <2>2. CASE gyros__task_exit(t)
    BY <2>2, ExitStep DEF FirstRestored
  <2>3. CASE gyros_task_delete(t)
    BY <2>3, DeleteStep DEF FirstRestored
  <2> QED
    BY <1>5, <2>1, <2>2, <2>3 DEF LifeStep
<1>6. ASSUME NEW t \in AppTasks, ScheduleStep(t)
      PROVE  IInv' /\ FirstRestored
  <2>1. CASE gyros_task_suspend(t)
    BY <2>1, SuspendStep DEF FirstRestored
  <2>2. CASE gyros_task_resume(t)
    BY <2>2, ResumeStep DEF FirstRestored
  <2>3. CASE \E p \in Priorities : gyros_task_set_priority(t, p)
    BY <2>3, SetPriorityStep DEF FirstRestored
  <2> QED
    BY <1>6, <2>1, <2>2, <2>3 DEF ScheduleStep
<1>7. ASSUME NEW t \in AppTasks, BlockStep(t)
      PROVE  IInv' /\ FirstRestored
  <2>1. ASSUME NEW delay \in 0..MaxDelay PROVE Deadline(delay) \in Time
    <3>1. gyros.now + delay \in Int
      BY DEF IInv, KernelOK, KernelStates, Time, TaskAssumption, KernelAssumption
    <3> QED
      BY <3>1, TimeFacts DEF Deadline
  <2>2. CASE \E delay \in 0..MaxDelay : gyros_sleep_until(t, Deadline(delay))
    BY <2>1, <2>2, SleepStep DEF FirstRestored
  <2>3. CASE SleepReturn(t) \/ JoinUntilReturn(t)
    BY <2>3, WaitReturnStep DEF FirstRestored
  <2>4. CASE \E u \in AppTasks : gyros_task_join(t, u)
    BY <2>4, JoinStep DEF FirstRestored
  <2>5. CASE JoinWoken(t)
    BY <2>5, JoinWokenStep DEF FirstRestored
  <2>6. CASE \E u \in AppTasks, delay \in 0..MaxDelay :
                 gyros_task_join_until(t, u, Deadline(delay))
    BY <2>1, <2>6, JoinUntilStep DEF FirstRestored
  <2> QED
    BY <1>7, <2>2, <2>3, <2>4, <2>5, <2>6 DEF BlockStep
<1>8. CASE UNCHANGED vars
    BY <1>8, StutterStep DEF FirstRestored
<1> QED
    BY <1>1, <1>2, <1>3, <1>4, <1>5, <1>6, <1>7, <1>8 DEF Next

\* The inductive invariant holds in every application.
THEOREM IInvHolds == Spec => []IInv
<1>1. IInv /\ [Next]_vars => IInv'
    BY NextStep
<1> QED
    BY <1>1, InitIInv, PTL DEF Spec

LEMMA IInvLists == IInv => ListsConsistent /\ ListsSorted
    BY DEF IInv, KernelOK, ListsOK, LinkedRight, ListsConsistent, ListsSorted

\* The current task is the first one of the list when and only when every other
\* running task has a lower priority or a later turn.
FirstMeansHighest == HighestPriorityRuns <=> FirstIsCurrent

LEMMA IInvFirst == IInv => FirstMeansHighest
<1> SUFFICES ASSUME IInv, gyros.current # NoTask, ~gyros.pendsv
             PROVE  HighestPriorityRuns <=> FirstIsCurrent
    BY DEF FirstMeansHighest, HighestPriorityRuns, FirstIsCurrent
<1> DEFINE s == gyros.lists[Running]
           c == gyros.current
<1>1. s # <<>>
    BY RunningNotEmpty DEF IInv, IdleReady, KernelAssumption
<1>2. s \in Seq(Tasks) /\ Falling(s, gyros.priority) /\ Distinct(s)
    BY ListIdsFacts DEF IInv, KernelOK, KernelStates, ListsOK
<1>3. gyros.priority \in [Tasks -> Int]
  <2>1. gyros.priority \in [Tasks -> Priorities \cup {0}]
    BY DEF IInv, KernelOK, KernelStates
  <2>2. Priorities \cup {0} \subseteq Int
    BY DEF KernelAssumption
  <2> QED
    BY <2>1, <2>2
<1>4. HighestPriorityRuns <=>
          /\ c \in Elements(s)
          /\ \A t \in Elements(s) \ {c} :
                 \/ gyros.priority[t] < gyros.priority[c]
                 \/ gyros.priority[t] = gyros.priority[c] /\ Precedes(s, c, t)
    BY DEF HighestPriorityRuns, RunningTasks
<1>5. FirstIsCurrent <=> Head(s) = c
    BY DEF FirstIsCurrent
<1> HIDE DEF s, c
<1>6. /\ 1 \in 1..Len(s) /\ Head(s) = s[1]
      /\ \A x : x \in Elements(s) <=> \E i \in 1..Len(s) : s[i] = x
      /\ Elements(s) \subseteq Tasks
  <2>1. \A x : x \in Elements(s) <=> \E i \in 1..Len(s) : s[i] = x
    BY DEF Elements, ToSet
  <2> QED
    BY <1>1, <1>2, <2>1
<1>7. ASSUME Head(s) = c, NEW t \in Elements(s) \ {c}
      PROVE  \/ gyros.priority[t] < gyros.priority[c]
             \/ gyros.priority[t] = gyros.priority[c] /\ Precedes(s, c, t)
  <2>1. PICK i \in 1..Len(s) : s[i] = t
    BY <1>6
  <2>2. 1 < i
    BY <1>6, <1>7, <2>1
  <2>3. gyros.priority[s[1]] >= gyros.priority[s[i]]
    BY <1>2, <1>6, <2>2 DEF Falling
  <2>4. Precedes(s, c, t)
    BY <1>6, <1>7, <2>1, <2>2 DEF Precedes
  <2> QED
    BY <1>3, <1>6, <1>7, <2>1, <2>3, <2>4
<1>8. ASSUME c \in Elements(s), Head(s) # c
      PROVE  ~ \/ gyros.priority[Head(s)] < gyros.priority[c]
               \/ gyros.priority[Head(s)] = gyros.priority[c] /\ Precedes(s, c, Head(s))
  <2>1. PICK j \in 1..Len(s) : s[j] = c
    BY <1>6, <1>8
  <2>2. 1 < j
    BY <1>6, <1>8, <2>1
  <2>3. gyros.priority[s[1]] >= gyros.priority[c]
    BY <1>2, <1>6, <2>1, <2>2 DEF Falling
  <2>4. ~Precedes(s, c, Head(s))
    <3> SUFFICES ASSUME NEW m \in 1..Len(s), NEW n \in 1..Len(s), m < n, s[n] = s[1]
                 PROVE  FALSE
      BY <1>6 DEF Precedes
    <3>1. n = 1
      BY <1>2, <1>6 DEF Distinct
    <3> QED
      BY <3>1
  <2> QED
    BY <1>3, <1>6, <1>8, <2>3, <2>4
<1>9. Head(s) \in Elements(s)
    BY <1>6
<1> QED
    BY <1>4, <1>5, <1>7, <1>8, <1>9

\* What a step does to the first place, seen in the priorities.
LEMMA StepKeepsHighest ==
    ASSUME IInv, [Next]_vars, FirstMeansHighest, FirstMeansHighest',
           HighestPriorityRuns \/ ContextSwitch
    PROVE  HighestPriorityRuns' \/ \E t \in AppTasks : DeletesJoined(t)
<1>1. CASE ContextSwitch
    BY <1>1, SwitchStep DEF FirstMeansHighest
<1>2. CASE ~ContextSwitch
  <2>1. FirstKept \/ \E t \in AppTasks : DeletesJoined(t)
    BY <1>2, NextStep DEF FirstRestored
  <2> QED
    BY <1>2, <2>1 DEF FirstKept, FirstMeansHighest
<1> QED
    BY <1>1, <1>2

\* The variables keep their types.
THEOREM TypeCorrect == Spec => []TypeOK
<1>1. IInv => TypeOK
    BY DEF IInv
<1> QED
    BY <1>1, IInvHolds, PTL

\* Every task is in the list its main_list names and in no other, once, and
\* every list is ordered by priority (src/task.c, add_task_to_list).
THEOREM ListsAlwaysRight == Spec => [](ListsConsistent /\ ListsSorted)
    BY IInvLists, IInvHolds, PTL

\* The running task with the highest priority executes after every context
\* switch, and goes on doing so until a task that others wait to join is
\* deleted by another one (include/gyros/task.h:49, src/delete.c:58).
THEOREM HighestPriorityAlwaysKept == Spec => HighestPriorityKept
<1>1. IInv /\ FirstMeansHighest /\ FirstMeansHighest' /\ [Next]_vars =>
          [HighestPriorityRuns \/ ContextSwitch =>
               HighestPriorityRuns' \/ \E t \in AppTasks : DeletesJoined(t)]_vars
    BY StepKeepsHighest
<1> QED
    BY <1>1, IInvHolds, IInvFirst, PTL DEF Spec, HighestPriorityKept

\* Nobody waits in gyros_task_join for a task that has finished (src/join.c).
THEOREM NoStrandedJoiner == Spec => []JoinerNotStranded
<1>1. IInv => JoinerNotStranded
    BY DEF IInv
<1> QED
    BY <1>1, IInvHolds, PTL

-----------------------------------------------------------------------------
(* Turns.  What each call does to the queues of the running tasks.          *)

\* t may lose its turn in this step: it was not runnable, is not any more, has
\* another priority, or has given its turn away.
Excused(t) ==
    \/ t \notin RunningTasks(gyros) \/ t \notin RunningTasks(gyros')
    \/ gyros'.priority[t] # gyros.priority[t]
    \/ gyros_yield /\ t = gyros.current
    \/ gyros_task_resume(t)
    \/ Tick /\ t \in Elements(gyros.timeouts)

\* The tasks of moved leave their places in the queues, and they alone.
Moves(moved) ==
    RequeuedAll(gyros, gyros', moved) /\ \A t \in moved : Excused(t)

\* Of the running tasks only t leaves its place, and a timeout is set by nobody
\* but by t when it stops running.
OneLeaves(t, moved) ==
    /\ \A u \in RunningTasks(gyros) : u \in moved <=> u = t
    /\ Elements(gyros'.timeouts) \subseteq
           IF t \in RunningTasks(gyros')
           THEN Elements(gyros.timeouts)
           ELSE Elements(gyros.timeouts) \cup {t}

\* The timeouts of the tasks of moved are reached.
TimeoutsReached(moved) ==
    /\ moved \subseteq Elements(gyros.timeouts) /\ moved # {}
    /\ Elements(gyros'.timeouts) = Elements(gyros.timeouts) \ moved
    /\ gyros'.pendsv

\* A step of the current task or of an interrupt handler.
StaysOn ==
    /\ gyros'.current = gyros.current
    /\ gyros.pendsv => gyros'.pendsv
    /\ \E moved \in SUBSET Tasks :
           /\ Moves(moved)
           /\ \/ TimeoutsReached(moved)
              \/ \E t \in Tasks \cup {NoTask} : OneLeaves(t, moved)

\* Only the list of running tasks and the priorities matter.
LEMMA LevelsFollow ==
    ASSUME NEW k, NEW j, NEW m, NEW n, NEW M, RequeuedAll(j, m, M),
           k.lists = j.lists, k.priority = j.priority,
           n.lists = m.lists, n.priority = m.priority
    PROVE  RequeuedAll(k, n, M)
<1>1. \A p : Level(k, p) = Level(j, p)
    BY DEF Level
<1>2. \A p : Level(n, p) = Level(m, p)
    BY DEF Level
<1> QED
    BY <1>1, <1>2 DEF RequeuedAll

\* Nobody moves while lists and priorities stay as they are.
LEMMA LevelsUntouched ==
    ASSUME NEW k, KernelOK(k), NEW n, n.lists = k.lists, n.priority = k.priority
    PROVE  RequeuedAll(k, n, {})
    BY RunningSeq, LevelsSame

\* Rescheduling touches neither the lists nor the current task.
LEMMA RescheduleLists ==
    ASSUME NEW k, KernelOK(k), NEW n,
           n = k \/ n = gyros__reschedule(k) \/ n = gyros__cond_reschedule(k)
    PROVE  /\ n.lists = k.lists /\ n.priority = k.priority /\ n.current = k.current
           /\ n.timeouts = k.timeouts
           /\ k.pendsv => n.pendsv
<1>1. n = k \/ n = [k EXCEPT !.pendsv = TRUE]
    BY RescheduleOK, CondRescheduleOK
<1>2. k \in KernelStates
    BY DEF KernelOK
<1> QED
    BY <1>1, <1>2 DEF KernelStates

\* A task that main_list places elsewhere does not run.
LEMMA NotRunning ==
    ASSUME NEW k, KernelOK(k), NEW t \in Tasks, k.main_list[t] # Running
    PROVE  t \notin RunningTasks(k)
    BY ListIdsFacts DEF KernelOK, LinkedRight, RunningTasks

\* A step that leaves the lists and the priorities alone.
LEMMA NobodyMoves ==
    ASSUME IInv, gyros'.lists = gyros.lists, gyros'.priority = gyros.priority
    PROVE  Moves({})
    BY LevelsUntouched DEF IInv, Moves

LEMMA QuietMoves ==
    ASSUME IInv, gyros'.lists = gyros.lists, gyros'.priority = gyros.priority,
           gyros'.current = gyros.current, gyros.pendsv => gyros'.pendsv,
           gyros'.timeouts = gyros.timeouts
    PROVE  StaysOn
<1>1. RunningTasks(gyros) \subseteq Tasks
    BY RunningSeq, ElementsOfSeq DEF IInv, RunningTasks
<1>2. OneLeaves(NoTask, {})
    BY <1>1 DEF OneLeaves, KernelAssumption
<1> QED
    BY <1>2, NobodyMoves DEF StaysOn

\* A step that takes one task from its place.
LEMMA OneMoves ==
    ASSUME NEW t \in Tasks, RequeuedAll(gyros, gyros', {t}), Excused(t),
           gyros'.current = gyros.current, gyros.pendsv => gyros'.pendsv,
           \/ Elements(gyros'.timeouts) \subseteq Elements(gyros.timeouts)
           \/ /\ t \notin RunningTasks(gyros')
              /\ Elements(gyros'.timeouts) \subseteq Elements(gyros.timeouts) \cup {t}
    PROVE  StaysOn
<1>1. OneLeaves(t, {t})
    BY DEF OneLeaves
<1> QED
    BY <1>1 DEF StaysOn, Moves

\* The tasks whose timeout is reached are woken, and nobody else.
LEMMA TickTurns ==
    ASSUME IInv, Tick
    PROVE  StaysOn
<1> DEFINE now == (gyros.now + 1) % TimeRange
           n == gyros__tick(gyros, now)
           e == ExpiredTimeouts(gyros, now)
           moved == Elements(e)
<1>1. gyros.now \in Int
    BY DEF IInv, KernelOK, KernelStates, Time
<1>2. now \in Time /\ KernelOK(gyros)
    BY <1>1, TimeFacts DEF IInv
<1> HIDE DEF now
<1>3. RequeuedAll(gyros, n, moved) /\ (moved # {} => n.pendsv)
    BY <1>2, TickRequeues
<1>4. TickedTo(gyros, n, e, now)
    BY <1>2, TickDetails
<1>5. gyros' = n
    BY DEF Tick, now
<1> HIDE DEF n, e
<1>6. /\ gyros'.current = gyros.current
      /\ gyros.pendsv => gyros'.pendsv
      /\ moved \subseteq Elements(gyros.timeouts)
      /\ Elements(gyros'.timeouts) = Elements(gyros.timeouts) \ moved
    BY <1>4, <1>5 DEF TickedTo
<1>7. Elements(gyros.timeouts) \subseteq Tasks
    BY ElementsOfSeq DEF IInv, KernelOK, KernelStates
<1>8. Moves(moved)
    BY <1>3, <1>5, <1>6 DEF Moves, Excused
<1>9. CASE moved = {}
  <2>1. RunningTasks(gyros) \subseteq Tasks
    BY RunningSeq, ElementsOfSeq DEF IInv, RunningTasks
  <2>2. OneLeaves(NoTask, moved)
    BY <1>6, <1>9, <2>1 DEF OneLeaves, KernelAssumption
  <2> QED
    BY <1>6, <1>7, <1>8, <2>2 DEF StaysOn
<1>10. CASE moved # {}
  <2>1. TimeoutsReached(moved)
    BY <1>3, <1>5, <1>6, <1>10 DEF TimeoutsReached
  <2> QED
    BY <1>6, <1>7, <1>8, <2>1 DEF StaysOn
<1> QED
    BY <1>9, <1>10

\* The suspended task leaves its queue.
LEMMA SuspendTurns ==
    ASSUME IInv, NEW t \in AppTasks, gyros_task_suspend(t)
    PROVE  StaysOn
<1> DEFINE a == gyros__task_suspend(gyros, t)
           b == RemoveTimeout(a, t)
<1>1. t \in Tasks /\ KernelOK(gyros)
    BY DEF AppTasks, IInv
<1>2. /\ KernelOK(a) /\ RequeuedAll(gyros, a, {t}) /\ SameButLists(gyros, a)
      /\ a.main_list = [gyros.main_list EXCEPT ![t] = NoList]
      /\ a.timeouts = gyros.timeouts
    BY <1>1, TaskSuspendOK, SuspendRequeues
<1> HIDE DEF a
<1>3. /\ KernelOK(b) /\ b.lists = a.lists /\ SameButLists(a, b)
      /\ b.main_list = a.main_list
      /\ Elements(b.timeouts) = Elements(a.timeouts) \ {t}
    BY <1>1, <1>2, RemoveTimeoutOK
<1> HIDE DEF b
<1>4. gyros' = b \/ gyros' = gyros__reschedule(b)
    BY DEF gyros_task_suspend, a, b
<1>5. /\ gyros'.lists = b.lists /\ gyros'.priority = b.priority /\ gyros'.current = b.current
      /\ gyros'.timeouts = b.timeouts /\ (b.pendsv => gyros'.pendsv)
    BY <1>3, <1>4, RescheduleLists
<1>6. RequeuedAll(gyros, gyros', {t})
    BY <1>2, <1>3, <1>5, LevelsFollow DEF SameButLists
<1>7. t \notin RunningTasks(gyros')
  <2>1. a.main_list[t] = NoList
    BY <1>1, <1>2 DEF KernelOK, KernelStates
  <2>2. t \notin RunningTasks(a)
    BY <1>1, <1>2, <2>1, ListIdsFacts, NotRunning
  <2> QED
    BY <1>3, <1>5, <2>2 DEF RunningTasks
<1>8. /\ gyros'.current = gyros.current /\ (gyros.pendsv => gyros'.pendsv)
      /\ Elements(gyros'.timeouts) \subseteq Elements(gyros.timeouts)
    BY <1>2, <1>3, <1>5 DEF SameButLists
<1> QED
    BY <1>1, <1>6, <1>7, <1>8, OneMoves DEF Excused

\* gyros_yield and gyros_task_resume.
LEMMA MoveTurns ==
    ASSUME IInv, NEW t \in Tasks, Excused(t),
           gyros' = gyros__cond_reschedule(gyros__task_move(gyros, t, Running))
    PROVE  StaysOn
<1> DEFINE a == gyros__task_move(gyros, t, Running)
<1>1. /\ KernelOK(a) /\ SameButLists(gyros, a) /\ RequeuedAll(gyros, a, {t})
      /\ a.timeouts = gyros.timeouts
    BY ListIdsFacts, TaskMoveOK, MoveRequeues DEF IInv
<1>2. gyros' = gyros__cond_reschedule(a)
    OBVIOUS
<1> HIDE DEF a
<1>3. /\ gyros'.lists = a.lists /\ gyros'.priority = a.priority /\ gyros'.current = a.current
      /\ gyros'.timeouts = a.timeouts /\ (a.pendsv => gyros'.pendsv)
    BY <1>1, <1>2, RescheduleLists
<1>4. RequeuedAll(gyros, gyros', {t})
    BY <1>1, <1>3, LevelsFollow
<1> QED
    BY <1>1, <1>3, <1>4, OneMoves DEF SameButLists

\* Only a task that gets another priority leaves its place.
LEMMA SetPriorityTurns ==
    ASSUME IInv, NEW t \in AppTasks, NEW p \in Priorities,
           gyros_task_set_priority(t, p)
    PROVE  StaysOn
<1> DEFINE a == [gyros EXCEPT !.base_priority[t] = p]
           b == gyros__set_priority(a, t, p)
<1>1. t \in Tasks
    BY DEF AppTasks
<1>2. /\ a \in KernelStates /\ a.lists = gyros.lists /\ a.main_list = gyros.main_list
      /\ a.timeouts = gyros.timeouts /\ a.priority = gyros.priority
      /\ a.current = gyros.current /\ a.pendsv = gyros.pendsv
    BY <1>1 DEF IInv, KernelOK, KernelStates
<1>3. gyros' = IF gyros.priority[t] = p THEN a ELSE gyros__cond_reschedule(b)
    BY DEF gyros_task_set_priority
<1> HIDE DEF a
<1>4. KernelOK(a)
  <2>1. ListsOK(a) /\ \A u \in Tasks : LinkedRight(a, u)
    BY <1>2 DEF IInv, KernelOK, ListsOK, LinkedRight
  <2> QED
    BY <1>2, <2>1 DEF IInv, KernelOK
<1>5. CASE gyros.priority[t] = p
    BY <1>2, <1>3, <1>5, QuietMoves
<1>6. CASE gyros.priority[t] # p
  <2>1. p \in Priorities \cup {0}
    OBVIOUS
  <2>2. RequeuedAll(a, b, {t})
    BY <1>1, <1>4, <2>1, SetPriorityRequeues
  <2>3. /\ KernelOK(b) /\ b.current = a.current /\ b.priority[t] = p
        /\ b.timeouts = a.timeouts /\ b.pendsv = a.pendsv
    BY <1>1, <1>4, <2>1, SetPriorityOK
  <2> HIDE DEF b
  <2>4. /\ gyros'.lists = b.lists /\ gyros'.priority = b.priority /\ gyros'.current = b.current
        /\ gyros'.timeouts = b.timeouts /\ (b.pendsv => gyros'.pendsv)
    BY <1>3, <1>6, <2>3, RescheduleLists
  <2>5. RequeuedAll(gyros, gyros', {t})
    BY <1>2, <2>2, <2>4, LevelsFollow
  <2>6. gyros'.priority[t] # gyros.priority[t]
    BY <1>6, <2>3, <2>4
  <2> QED
    BY <1>1, <1>2, <2>3, <2>4, <2>5, <2>6, OneMoves DEF Excused
<1> QED
    BY <1>5, <1>6

\* The current task leaves the list of running tasks to wait in list l, or in
\* none, after it has set a timeout or without one.
LEMMA BlockTurns ==
    ASSUME IInv, NEW t \in Tasks, t = gyros.current, NEW k,
           KernelOK(k), k.lists = gyros.lists, k.priority = gyros.priority,
           k.current = gyros.current,
           Elements(k.timeouts) \subseteq Elements(gyros.timeouts) \cup {t},
           \/ gyros' = gyros__reschedule(gyros__task_suspend(k, t))
           \/ \E l \in Tasks : gyros' = gyros__reschedule(gyros__task_move(k, t, l))
    PROVE  StaysOn
<1>1. PICK n : /\ KernelOK(n) /\ SameButLists(k, n) /\ n.main_list[t] # Running
               /\ RequeuedAll(k, n, {t}) /\ gyros' = gyros__reschedule(n)
               /\ n.timeouts = k.timeouts
  <2>1. CASE gyros' = gyros__reschedule(gyros__task_suspend(k, t))
    <3> DEFINE n == gyros__task_suspend(k, t)
    <3>1. /\ KernelOK(n) /\ SameButLists(k, n) /\ RequeuedAll(k, n, {t})
          /\ n.main_list = [k.main_list EXCEPT ![t] = NoList]
          /\ n.timeouts = k.timeouts
      BY TaskSuspendOK, SuspendRequeues
    <3> HIDE DEF n
    <3>2. n.main_list[t] # Running
      BY <3>1, ListIdsFacts DEF KernelOK, KernelStates
    <3>3. gyros' = gyros__reschedule(n)
      BY <2>1 DEF n
    <3> QED
      BY <3>1, <3>2, <3>3
  <2>2. CASE \E l \in Tasks : gyros' = gyros__reschedule(gyros__task_move(k, t, l))
    <3> PICK l \in Tasks : gyros' = gyros__reschedule(gyros__task_move(k, t, l))
      BY <2>2
    <3> DEFINE n == gyros__task_move(k, t, l)
    <3>1. /\ KernelOK(n) /\ SameButLists(k, n) /\ RequeuedAll(k, n, {t})
          /\ n.main_list = [k.main_list EXCEPT ![t] = l]
          /\ n.timeouts = k.timeouts
      BY ListIdsFacts, TaskMoveOK, MoveRequeues
    <3>3. gyros' = gyros__reschedule(n)
      OBVIOUS
    <3> HIDE DEF n
    <3>2. n.main_list[t] # Running
      BY <3>1, ListIdsFacts DEF KernelOK, KernelStates
    <3> QED
      BY <3>1, <3>2, <3>3
  <2> QED
    BY <2>1, <2>2
<1>2. /\ gyros'.lists = n.lists /\ gyros'.priority = n.priority /\ gyros'.current = n.current
      /\ gyros'.timeouts = n.timeouts /\ gyros'.pendsv
  <2>1. gyros' = gyros__reschedule(n)
    BY <1>1
  <2>2. gyros'.pendsv
    BY <1>1, <2>1 DEF gyros__reschedule, KernelOK, KernelStates
  <2> QED
    BY <1>1, <2>1, <2>2, RescheduleLists
<1>3. RequeuedAll(gyros, gyros', {t})
    BY <1>1, <1>2, LevelsFollow
<1>4. t \notin RunningTasks(gyros')
    BY <1>1, <1>2, NotRunning DEF RunningTasks
<1> QED
    BY <1>1, <1>2, <1>3, <1>4, OneMoves DEF Excused, SameButLists

\* gyros_sleep_until: a timeout, then gyros__task_suspend.
LEMMA SleepTurns ==
    ASSUME IInv, NEW t \in AppTasks, NEW timeout \in Time,
           gyros_sleep_until(t, timeout)
    PROVE  StaysOn
<1>1. t \in Tasks /\ t = gyros.current
    BY DEF gyros_sleep_until, AppTasks
<1>2. CASE TimeoutReached(gyros, timeout)
    BY <1>2, QuietMoves DEF gyros_sleep_until, vars
<1>3. CASE ~TimeoutReached(gyros, timeout)
  <2> DEFINE a == gyros__task_set_timeout(gyros, timeout)
  <2>1. /\ KernelOK(a) /\ a.lists = gyros.lists /\ a.priority = gyros.priority
        /\ a.current = gyros.current
        /\ Elements(a.timeouts) = Elements(gyros.timeouts) \cup {t}
    <3>1. t \notin Elements(gyros.timeouts)
      BY <1>3 DEF gyros_sleep_until, TimeoutUnlinked
    <3> QED
      BY <1>1, <3>1, SetTimeoutOK DEF IInv
  <2>2. gyros' = gyros__reschedule(gyros__task_suspend(a, t))
    BY <1>3 DEF gyros_sleep_until
  <2> HIDE DEF a
  <2> QED
    BY <1>1, <2>1, <2>2, BlockTurns
<1> QED
    BY <1>2, <1>3

\* gyros_task_join_until: a timeout, then a move to the joiner list.
LEMMA JoinUntilTurns ==
    ASSUME IInv, NEW t \in AppTasks, NEW u \in AppTasks, NEW timeout \in Time,
           gyros_task_join_until(t, u, timeout)
    PROVE  StaysOn
<1>1. t \in Tasks /\ t = gyros.current /\ u \in Tasks
    BY DEF gyros_task_join_until, AppTasks
<1>2. CASE TimeoutReached(gyros, timeout)
    BY <1>2, QuietMoves DEF gyros_task_join_until, vars
<1>3. CASE ~TimeoutReached(gyros, timeout)
  <2> DEFINE a == gyros__task_set_timeout(gyros, timeout)
  <2>1. /\ KernelOK(a) /\ a.lists = gyros.lists /\ a.priority = gyros.priority
        /\ a.current = gyros.current
        /\ Elements(a.timeouts) = Elements(gyros.timeouts) \cup {t}
    <3>1. t \notin Elements(gyros.timeouts)
      BY <1>3 DEF gyros_task_join_until, TimeoutUnlinked
    <3> QED
      BY <1>1, <3>1, SetTimeoutOK DEF IInv
  <2>2. gyros' = gyros__reschedule(gyros__task_move(a, t, u))
    BY <1>3 DEF gyros_task_join_until
  <2> HIDE DEF a
  <2> QED
    BY <1>1, <2>1, <2>2, BlockTurns
<1> QED
    BY <1>2, <1>3

\* gyros_task_join: a move to the joiner list while the task is joinable.
LEMMA JoinLoopTurns ==
    ASSUME IInv, NEW t \in AppTasks, NEW u \in AppTasks, Executing(t), JoinLoop(t, u)
    PROVE  StaysOn
<1>1. t \in Tasks /\ u \in Tasks /\ t = gyros.current /\ KernelOK(gyros)
    BY DEF Executing, AppTasks, IInv
<1>2. CASE gyros.joinable[u]
  <2>1. gyros' = gyros__reschedule(gyros__task_move(gyros, t, u))
    BY <1>2 DEF JoinLoop
  <2> QED
    BY <1>1, <2>1, BlockTurns
<1>3. CASE ~gyros.joinable[u]
    BY <1>3, QuietMoves DEF JoinLoop
<1> QED
    BY <1>2, <1>3

\* A blocking call that returns moves nobody.
LEMMA ReturnTurns ==
    ASSUME IInv, NEW t \in AppTasks, SleepReturn(t) \/ JoinUntilReturn(t)
    PROVE  StaysOn
<1>1. t \in Tasks /\ KernelOK(gyros) /\ gyros' = ForgetTimeout(gyros, t)
    BY DEF SleepReturn, JoinUntilReturn, IInv, AppTasks
<1>2. /\ gyros'.lists = gyros.lists /\ gyros'.priority = gyros.priority
      /\ gyros'.current = gyros.current /\ gyros'.pendsv = gyros.pendsv
      /\ gyros'.timeouts = gyros.timeouts
    BY <1>1, ForgetTimeoutOK
<1> QED
    BY <1>2, QuietMoves

\* gyros__task_exit and gyros_task_delete: those who wait to join the task
\* become runnable, and it does not run any more.
LEMMA FinishTurns ==
    ASSUME IInv, IInv', NEW t \in AppTasks, gyros__task_exit(t) \/ gyros_task_delete(t)
    PROVE  StaysOn
<1> DEFINE a == gyros__task_finish(gyros, t)
           n == ForgetTimeout(a, t)
           J == {u \in Tasks : gyros.main_list[u] = t}
           moved == {t} \cup J
<1>1. t \in Tasks /\ KernelOK(gyros) /\ gyros.main_list[t] # t /\ pc' = [pc EXCEPT ![t] = "finished"]
    BY DEF AppTasks, IInv, JoinsOthers, gyros__task_exit, gyros_task_delete, Leave
<1>2. gyros' = n \/ gyros' = gyros__reschedule(n)
    BY DEF gyros__task_exit, gyros_task_delete
<1>3. RequeuedAll(gyros, a, moved)
    BY <1>1, FinishRequeues
<1>4. /\ KernelOK(a) /\ a.current = gyros.current /\ a.pendsv = gyros.pendsv
      /\ Elements(a.timeouts) \subseteq Elements(gyros.timeouts)
  <2>1. FinishedRight(gyros, gyros__task_finish(gyros, t), t)
    BY <1>1, TaskFinishOK
  <2> HIDE DEF a
  <2>2. FinishedRight(gyros, a, t)
    BY <2>1 DEF a
  <2> QED
    BY <2>2 DEF FinishedRight
<1> HIDE DEF a, moved, J
<1>5. /\ KernelOK(n) /\ n.lists = a.lists /\ n.priority = a.priority
      /\ n.current = a.current /\ n.pendsv = a.pendsv /\ n.timeouts = a.timeouts
    BY <1>1, <1>4, ForgetTimeoutOK
<1> HIDE DEF n
<1>6. /\ gyros'.lists = n.lists /\ gyros'.priority = n.priority /\ gyros'.current = n.current
      /\ gyros'.timeouts = n.timeouts /\ (n.pendsv => gyros'.pendsv)
    BY <1>2, <1>5, RescheduleLists
<1>7. RequeuedAll(gyros, gyros', moved)
    BY <1>3, <1>5, <1>6, LevelsFollow
<1>8. t \notin RunningTasks(gyros')
  <2>1. ~Live(t)'
    BY <1>1 DEF IInv, TypeOK, Live
  <2>2. gyros'.main_list[t] # Running /\ KernelOK(gyros')
    BY <1>1, <2>1, ListIdsFacts DEF IInv, DeadUnlinked
  <2> QED
    BY <1>1, <2>2, NotRunning
<1>9. \A u \in J : u \notin RunningTasks(gyros)
    BY <1>1, ListIdsFacts, NotRunning DEF J
<1>10. moved \subseteq Tasks
    BY <1>1 DEF moved, J
<1>11. OneLeaves(t, moved)
    BY <1>4, <1>5, <1>6, <1>9 DEF OneLeaves, moved
<1>12. Moves(moved)
    BY <1>7, <1>8, <1>9 DEF Moves, Excused, moved
<1> QED
    BY <1>1, <1>4, <1>5, <1>6, <1>10, <1>11, <1>12 DEF StaysOn

\* The new task goes to the end of its queue, and was in none before.
LEMMA CreateTurns ==
    ASSUME IInv, NEW t \in AppTasks, NEW p \in Priorities, gyros_task_create(t, p)
    PROVE  StaysOn
<1> DEFINE a == [gyros EXCEPT !.joinable[t] = TRUE,
                              !.base_priority[t] = p,
                              !.priority[t] = p,
                              !.lists[t] = <<>>]
           b == add_task_to_list(a, t, Running)
<1>1. t \in Tasks /\ ~Live(t) /\ KernelOK(gyros) /\ gyros.main_list[t] = NoList
    BY DEF gyros_task_create, AppTasks, IInv, DeadUnlinked
<1>2. /\ KernelOKWithout(a, t) /\ a.lists = gyros.lists /\ a.current = gyros.current
      /\ a.timeouts = gyros.timeouts /\ a.pendsv = gyros.pendsv
      /\ \A u \in Tasks \ {t} : a.priority[u] = gyros.priority[u]
    BY InitialisedOK
<1>3. gyros' = b \/ gyros' = gyros__cond_reschedule(b)
    BY DEF gyros_task_create
<1> HIDE DEF a
<1>4. /\ KernelOK(b) /\ SameButLists(a, b) /\ b.timeouts = a.timeouts
      /\ RequeuedAll(a, b, {t}) \/ RequeuedAll(a, b, {})
  <2>1. Running \in ListIds
    BY ListIdsFacts
  <2> QED
    BY <1>1, <1>2, <2>1, AddTaskToListOK, AddRequeues
<1> HIDE DEF b
<1>5. t \notin RunningTasks(gyros)
    BY <1>1, ListIdsFacts, NotRunning
<1>6. RequeuedAll(gyros, a, {})
  <2>1. gyros.lists[Running] \in Seq(Tasks)
    BY <1>1, RunningSeq
  <2>2. \A u \in Elements(gyros.lists[Running]) : a.priority[u] = gyros.priority[u]
    BY <1>2, <1>5, <2>1, ElementsOfSeq DEF RunningTasks
  <2> QED
    BY <1>2, <2>1, <2>2, LevelsSame
<1>7. /\ gyros'.lists = b.lists /\ gyros'.priority = b.priority /\ gyros'.current = b.current
      /\ gyros'.timeouts = b.timeouts /\ (b.pendsv => gyros'.pendsv)
    BY <1>3, <1>4, RescheduleLists
<1>8. \E moved \in SUBSET {t} : RequeuedAll(gyros, gyros', moved)
  <2>1. PICK m \in SUBSET {t} : RequeuedAll(a, b, m)
    BY <1>4
  <2>2. gyros.lists[Running] \in Seq(Tasks)
    BY <1>1, RunningSeq
  <2>3. RequeuedAll(gyros, b, {} \cup m)
    BY ONLY <1>6, <2>1, <2>2, RequeuedAllTwice
  <2>4. {} \cup m = m
    OBVIOUS
  <2>5. RequeuedAll(gyros, b, m)
    BY <2>3, <2>4
  <2>6. RequeuedAll(gyros, gyros', m)
    BY <1>7, <2>5, LevelsFollow
  <2> QED
    BY <2>6
<1>9. PICK moved \in SUBSET {t} : RequeuedAll(gyros, gyros', moved)
    BY <1>8
<1>10. OneLeaves(t, moved)
    BY <1>2, <1>4, <1>5, <1>7 DEF OneLeaves
<1>11. Moves(moved)
    BY <1>5, <1>9 DEF Moves, Excused
<1> QED
    BY <1>1, <1>2, <1>4, <1>7, <1>10, <1>11 DEF StaysOn, SameButLists

\* gyros_start puts the idle task into its queue.
LEMMA StartTurns ==
    ASSUME IInv, gyros_start
    PROVE  /\ \E moved \in SUBSET Tasks :
                  Moves(moved) /\ \A u \in RunningTasks(gyros) : u \notin moved
           /\ gyros.current = NoTask /\ gyros'.current = Idle /\ gyros'.pendsv
           /\ gyros'.timeouts = gyros.timeouts
<1> DEFINE a == add_task_to_list(gyros, Idle, Running)
           b == [a EXCEPT !.current = Idle]
<1>1. gyros.current = NoTask /\ ~Live(Idle) /\ Idle \in Tasks /\ KernelOK(gyros)
    BY DEF gyros_start, IInv, IdleReady, Live, KernelAssumption
<1>2. gyros.main_list[Idle] = NoList /\ Idle \notin Elements(gyros.timeouts)
    BY <1>1 DEF IInv, DeadUnlinked
<1>3. KernelOKWithout(gyros, Idle)
    BY <1>1, <1>2, ListIdsFacts DEF KernelOK, KernelOKWithout, Unlinked, LinkedRight
<1>4. /\ KernelOK(a) /\ a.timeouts = gyros.timeouts
      /\ RequeuedAll(gyros, a, {Idle}) \/ RequeuedAll(gyros, a, {})
  <2>1. Running \in ListIds
    BY ListIdsFacts
  <2> QED
    BY <1>1, <1>3, <2>1, AddTaskToListOK, AddRequeues
<1>5. gyros' = [b EXCEPT !.pendsv = TRUE]
    BY DEF gyros_start, gyros__reschedule
<1> HIDE DEF a
<1>6. /\ gyros'.lists = a.lists /\ gyros'.priority = a.priority
      /\ gyros'.current = Idle /\ gyros'.pendsv /\ gyros'.timeouts = a.timeouts
    BY <1>4, <1>5 DEF KernelOK, KernelStates
<1>7. Idle \notin RunningTasks(gyros)
    BY <1>1, <1>2, ListIdsFacts, NotRunning
<1>8. \E moved \in SUBSET {Idle} : RequeuedAll(gyros, gyros', moved)
    BY <1>4, <1>6, LevelsFollow
<1> QED
    BY <1>1, <1>4, <1>6, <1>7, <1>8 DEF Moves, Excused

\* The context switch only changes who is current.
LEMMA SwitchTurns ==
    ASSUME IInv, ContextSwitch
    PROVE  /\ gyros'.lists = gyros.lists /\ gyros'.priority = gyros.priority
           /\ gyros'.current = Head(gyros.lists[Running]) /\ gyros'.pendsv = FALSE
           /\ gyros'.timeouts = gyros.timeouts
    BY DEF ContextSwitch, PendSV_Handler, IInv, KernelOK, KernelStates

\* Every step is one of these.
LEMMA NextTurns ==
    ASSUME IInv, IInv', [Next]_vars
    PROVE  \/ StaysOn
           \/ gyros_start
           \/ ContextSwitch
<1>1. CASE gyros_yield
  <2>1. gyros.current \in Tasks
    BY <1>1, TaskCallsFacts DEF gyros_yield, AppTasks
  <2>2. Excused(gyros.current)
    BY <1>1 DEF Excused
  <2>3. gyros' = gyros__cond_reschedule(gyros__task_move(gyros, gyros.current, Running))
    BY <1>1 DEF gyros_yield
  <2> QED
    BY <2>1, <2>2, <2>3, MoveTurns
<1>2. CASE Tick
    BY <1>2, TickTurns
<1>3. ASSUME NEW t \in AppTasks, LifeStep(t)
      PROVE  StaysOn
    BY <1>3, CreateTurns, FinishTurns DEF LifeStep
<1>4. ASSUME NEW t \in AppTasks, ScheduleStep(t)
      PROVE  StaysOn
  <2>1. CASE gyros_task_suspend(t)
    BY <2>1, SuspendTurns
  <2>2. CASE gyros_task_resume(t)
    <3>1. t \in Tasks /\ Excused(t)
      BY <2>2 DEF Excused, AppTasks
    <3>2. gyros' = gyros__cond_reschedule(gyros__task_move(gyros, t, Running))
      BY <2>2 DEF gyros_task_resume
    <3> QED
      BY <3>1, <3>2, MoveTurns
  <2>3. CASE \E p \in Priorities : gyros_task_set_priority(t, p)
    BY <2>3, SetPriorityTurns
  <2> QED
    BY <1>4, <2>1, <2>2, <2>3 DEF ScheduleStep
<1>5. ASSUME NEW t \in AppTasks, BlockStep(t)
      PROVE  StaysOn
  <2>1. ASSUME NEW delay \in 0..MaxDelay PROVE Deadline(delay) \in Time
    <3>1. gyros.now + delay \in Int
      BY DEF IInv, KernelOK, KernelStates, Time, TaskAssumption, KernelAssumption
    <3> QED
      BY <3>1, TimeFacts DEF Deadline
  <2>2. CASE \E delay \in 0..MaxDelay : gyros_sleep_until(t, Deadline(delay))
    BY <2>1, <2>2, SleepTurns
  <2>3. CASE SleepReturn(t) \/ JoinUntilReturn(t)
    BY <2>3, ReturnTurns
  <2>4. CASE \E u \in AppTasks : gyros_task_join(t, u)
    <3>1. Executing(t)
      BY <2>4, TaskCallsFacts DEF gyros_task_join
    <3> QED
      BY <2>4, <3>1, JoinLoopTurns DEF gyros_task_join
  <2>5. CASE JoinWoken(t)
    <3>1. Executing(t) /\ pc[t] = "join" /\ JoinLoop(t, target[t])
      BY <2>5 DEF JoinWoken
    <3>2. target[t] \in AppTasks
      BY <3>1 DEF IInv, JoinsOthers, AppTasks
    <3> QED
      BY <3>1, <3>2, JoinLoopTurns
  <2>6. CASE \E u \in AppTasks, delay \in 0..MaxDelay :
                 gyros_task_join_until(t, u, Deadline(delay))
    BY <2>1, <2>6, JoinUntilTurns
  <2> QED
    BY <1>5, <2>2, <2>3, <2>4, <2>5, <2>6 DEF BlockStep
<1>6. CASE UNCHANGED vars
    BY <1>6, QuietMoves DEF vars
<1> QED
    BY <1>1, <1>2, <1>3, <1>4, <1>5, <1>6 DEF Next

\* A node that is not in the second part is preceded in the first one.
LEMMA PrecedesConcat ==
    ASSUME NEW T, NEW a \in Seq(T), NEW r \in Seq(T), NEW x, NEW y,
           Precedes(a \o r, x, y), y \notin Elements(r)
    PROVE  Precedes(a, x, y)
<1> DEFINE c == a \o r
<1>1. /\ Len(a) \in Nat /\ Len(r) \in Nat /\ Len(c) = Len(a) + Len(r)
      /\ \A i \in 1..Len(a) : c[i] = a[i]
      /\ \A i \in 1..Len(c) : i > Len(a) => i - Len(a) \in 1..Len(r) /\ c[i] = r[i - Len(a)]
    OBVIOUS
<1>2. PICK i, j \in 1..Len(c) : i < j /\ c[i] = x /\ c[j] = y
    BY DEF Precedes
<1>3. r \in Seq(T) /\ \A n \in 1..Len(r) : r[n] \in Elements(r)
    BY DEF Elements, ToSet
<1> HIDE DEF c
<1>4. j <= Len(a)
    BY <1>1, <1>2, <1>3
<1>5. i \in 1..Len(a) /\ j \in 1..Len(a)
    BY <1>1, <1>2, <1>4
<1> QED
    BY <1>1, <1>2, <1>5 DEF Precedes

\* A task that stays in its queue is behind the same tasks as before.
LEMMA RequeuedKeepsTurn ==
    ASSUME NEW k, KernelOK(k), NEW n, KernelOK(n), NEW moved, RequeuedAll(k, n, moved),
           NEW t \in Tasks \ moved, NEW u \in Tasks, n.priority[u] = n.priority[t],
           Precedes(n.lists[Running], u, t)
    PROVE  Precedes(k.lists[Running], u, t)
<1> DEFINE p == n.priority[t]
           s == k.lists[Running]
           z == n.lists[Running]
           A == {x \in Tasks : k.priority[x] = p}
           B == {x \in Tasks : n.priority[x] = p}
           a == Keep(s, A)
           b == Keep(z, B)
           N == Tasks \ moved
           q == Keep(a, N)
<1>1. s \in Seq(Tasks) /\ z \in Seq(Tasks)
    BY RunningSeq
<1>2. p \in Priorities \cup {0}
    BY DEF KernelOK, KernelStates
<1>3. Requeued(a, b, moved)
    BY <1>2 DEF RequeuedAll, Level
<1>4. PICK r \in Seq(Tasks) : b = q \o r /\ Elements(r) \subseteq moved
    BY <1>3 DEF Requeued
<1>5. u \in B /\ t \in B /\ t \notin moved
    OBVIOUS
<1>6. Precedes(z, u, t)
    OBVIOUS
<1> HIDE DEF p, s, z, A, B, N
<1>7. Precedes(b, u, t)
    BY <1>1, <1>5, <1>6, KeepPrecedes
<1>8. a \in Seq(Tasks)
    BY <1>1, KeepMembers
<1> HIDE DEF a, b
<1>9. q \in Seq(Tasks)
    BY <1>8, KeepMembers
<1>10. Precedes(q, u, t)
  <2> HIDE DEF q
  <2>1. Precedes(q \o r, u, t) /\ t \notin Elements(r)
    BY <1>4, <1>5, <1>7
  <2> QED
    BY ONLY <1>4, <1>9, <2>1, PrecedesConcat
<1>11. Precedes(a, u, t)
    BY <1>8, <1>10, KeepPrecedes
<1>12. Precedes(s, u, t)
    BY <1>1, <1>11, KeepPrecedes DEF a
<1> QED
    BY <1>12 DEF s

\* No step makes a task lose its turn but for the two calls and its timeout.
LEMMA StepKeepsTurns ==
    ASSUME IInv, IInv', [Next]_vars, NEW t \in Tasks, NEW u \in Tasks, LosesTurn(t, u)
    PROVE  \/ gyros_yield /\ t = gyros.current
           \/ gyros_task_resume(t)
           \/ Tick /\ t \in Elements(gyros.timeouts)
<1>1. PICK moved \in SUBSET Tasks : Moves(moved)
  <2>1. CASE ContextSwitch
    BY <2>1, SwitchTurns, NobodyMoves
  <2> QED
    BY <2>1, NextTurns, StartTurns DEF StaysOn
<1> SUFFICES ASSUME t \notin moved PROVE FALSE
    BY <1>1 DEF Moves, Excused, LosesTurn, RunningTasks
<1> DEFINE k == gyros
           n == gyros'
<1>2. /\ KernelOK(k) /\ KernelOK(n) /\ RequeuedAll(k, n, moved)
      /\ t \in Tasks \ moved /\ n.priority[u] = n.priority[t]
      /\ Precedes(n.lists[Running], u, t)
    BY <1>1 DEF IInv, Moves, LosesTurn
<1>3. ~Precedes(k.lists[Running], u, t)
    BY DEF LosesTurn
<1> HIDE DEF k, n
<1>4. Precedes(k.lists[Running], u, t)
    BY ONLY <1>2, u \in Tasks, RequeuedKeepsTurn
<1> QED
    BY <1>3, <1>4

\* A runnable task keeps its turn among the tasks of its priority unless it
\* yields, is resumed while it runs, or a timeout that it has kept is reached
\* (include/gyros/task.h).
THEOREM TurnsAlwaysKept == Spec => TurnsKept
<1>1. IInv /\ IInv' /\ [Next]_vars =>
          [\A t, u \in Tasks : LosesTurn(t, u) =>
               \/ gyros_yield /\ t = gyros.current
               \/ gyros_task_resume(t)
               \/ Tick /\ t \in Elements(gyros.timeouts)]_vars
    BY StepKeepsTurns
<1> QED
    BY <1>1, IInvHolds, PTL DEF Spec, TurnsKept

-----------------------------------------------------------------------------
(* The queues of PriorityQueues.                                           *)

\* The first node of the list is the first one of the highest queue.
LEMMA HeadOfLevels ==
    ASSUME NEW k, KernelOK(k), k.lists[Running] # <<>>,
           NEW occupied, occupied = {p \in Priorities \cup {0} : Level(k, p) # <<>>}
    PROVE  LET m == CHOOSE p \in occupied : \A q \in occupied : p >= q
           IN  m \in occupied /\ Head(Level(k, m)) = Head(k.lists[Running])
<1> DEFINE s == k.lists[Running]
           h == Head(s)
           g == k.priority[h]
           m == CHOOSE p \in occupied : \A q \in occupied : p >= q
<1>1. s \in Seq(Tasks) /\ s # <<>> /\ Falling(s, k.priority)
    BY RunningSeq DEF KernelOK, ListsOK
<1>2. h \in Tasks /\ h = s[1]
    BY <1>1
<1>3. k.priority \in [Tasks -> Priorities \cup {0}] /\ Priorities \cup {0} \subseteq Int
    BY DEF KernelOK, KernelStates, KernelAssumption
<1>4. g \in Priorities \cup {0}
    BY <1>2, <1>3
<1> HIDE DEF s, h, g
<1>5. Level(k, g) # <<>> /\ Head(Level(k, g)) = h
  <2> DEFINE A == {t \in Tasks : k.priority[t] = g}
  <2>1. Head(s) \in A
    BY <1>2 DEF h, g
  <2> HIDE DEF A
  <2>2. Keep(s, A) # <<>> /\ Head(Keep(s, A)) = Head(s)
    BY <1>1, <2>1, KeepHead
  <2> QED
    BY <2>2 DEF Level, A, s, h
<1>6. ASSUME NEW p \in occupied PROVE p <= g
  <2> DEFINE A == {t \in Tasks : k.priority[t] = p}
             a == Keep(s, A)
  <2>1. p \in Priorities \cup {0} /\ a # <<>>
    BY DEF Level, s
  <2>2. a \in Seq(Tasks) /\ Elements(a) = Elements(s) \cap A
    <3> HIDE DEF A
    <3> QED
      BY <1>1, KeepMembers
  <2>3. PICK x : x \in Elements(a)
    <3> HIDE DEF a
    <3> QED
      BY <2>1, <2>2, ElementsOfSeq
  <2>4. x \in Elements(s) /\ x \in Tasks /\ k.priority[x] = p
    BY <2>2, <2>3
  <2>5. PICK i \in 1..Len(s) : s[i] = x
    BY <1>1, <2>4 DEF Elements, ToSet
  <2>6. CASE i = 1
    BY <1>2, <1>3, <2>4, <2>5, <2>6 DEF g
  <2>7. CASE i # 1
    <3>1. 1 \in 1..Len(s) /\ 1 < i
      BY <1>1, <2>5, <2>7
    <3>2. k.priority[s[1]] >= k.priority[s[i]]
      BY <2>5, <3>1, <1>1 DEF Falling
    <3> QED
      BY <1>2, <1>3, <1>4, <2>1, <2>4, <2>5, <3>2 DEF g
  <2> QED
    BY <2>6, <2>7
<1>7. g \in occupied /\ occupied \subseteq Int
    BY <1>3, <1>4, <1>5
<1>8. \A q \in occupied : g >= q
    BY <1>6, <1>7
<1>9. m \in occupied /\ \A q \in occupied : m >= q
    BY <1>7, <1>8
<1>10. m = g
    BY <1>6, <1>7, <1>9
<1> QED
    BY <1>5, <1>9, <1>10 DEF s, h

\* The abstract specification keeps nodes the same way.
LEMMA QueuesKeep == \A s, nodes : Queues!Keep(s, nodes) = Keep(s, nodes)
    BY DEF Queues!Keep, Keep

\* A queue of the kernel is requeued as the abstract specification allows; of
\* the tasks that leave their places only those in the queue matter.
LEMMA QueuesRequeue ==
    ASSUME NEW a \in Seq(Tasks), NEW b, NEW moved, Requeued(a, b, moved),
           NEW gone, \A u \in Elements(a) : u \in moved <=> u \in gone
    PROVE  Queues!IsPrefix(Queues!Keep(a, Queues!ToSet(a) \ gone), b)
<1> DEFINE A == Elements(a) \ gone
           N == Tasks \ moved
           q == Keep(a, A)
<1>1. PICK r \in Seq(Tasks) : b = Keep(a, N) \o r
    BY DEF Requeued
<1>2. Elements(a) \subseteq Tasks
    BY ElementsOfSeq
<1>3. \A x \in Elements(a) : x \in A <=> x \in N
    BY <1>2
<1> HIDE DEF N
<1>4. q = Keep(a, N) /\ q \in Seq(Tasks)
  <2> HIDE DEF A
  <2> QED
    BY <1>3, KeepSame, KeepMembers
<1>5. b = q \o r
    BY <1>1, <1>4
<1>6. Queues!ToSet(a) \ gone = A
    BY DEF Queues!ToSet, Elements, ToSet
<1>7. Queues!Keep(a, Queues!ToSet(a) \ gone) = q
    BY <1>6, QueuesKeep
<1> HIDE DEF q, A
<1>8. Queues!IsPrefix(q, b)
  <2>1. Len(q) <= Len(b)
    BY <1>4, <1>5
  <2>2. SubSeq(q, 1, Len(q)) = q
    BY <1>4
  <2>3. SubSeq(b, 1, Len(q)) = q
    BY <1>4, <1>5
  <2> QED
    BY <2>1, <2>2, <2>3 DEF Queues!IsPrefix
<1> QED
    BY <1>7, <1>8

\* No task is in a queue twice, or in the queues of two priorities.
LEMMA QueuesDistinct ==
    ASSUME NEW k, KernelOK(k), NEW p \in Priorities \cup {0}
    PROVE  /\ Queues!Distinct(Level(k, p))
           /\ \A q \in Priorities \cup {0} :
                  p < q => Queues!ToSet(Level(k, p)) \cap Queues!ToSet(Level(k, q)) = {}
<1> DEFINE z == k.lists[Running]
           On(q) == {t \in Tasks : k.priority[t] = q}
<1>1. z \in Seq(Tasks) /\ Distinct(z)
    BY RunningSeq DEF KernelOK, ListsOK
<1>2. \A q : Level(k, q) = Keep(z, On(q))
    BY DEF Level
<1>3. /\ Priorities \cup {0} \subseteq Int
      /\ \A q, r \in Priorities \cup {0} : q < r => On(q) \cap On(r) = {}
    BY DEF KernelAssumption
<1> HIDE DEF z, On
<1>4. Distinct(Level(k, p))
    BY <1>1, <1>2, KeepDistinct
<1>5. \A q : Elements(Level(k, q)) = Elements(z) \cap On(q)
    BY <1>1, <1>2, KeepMembers
<1>6. \A q : Queues!ToSet(Level(k, q)) = Elements(Level(k, q))
    BY DEF Queues!ToSet, Elements, ToSet
<1>7. Queues!Distinct(Level(k, p))
    BY <1>4 DEF Queues!Distinct, Distinct
<1> QED
    BY <1>3, <1>5, <1>6, <1>7

\* The tasks in the queues are the running ones.
RunnableMeansRunning == Queues!Runnable = RunningTasks(gyros)

LEMMA RunnableOfQueues == IInv => RunnableMeansRunning
<1> SUFFICES ASSUME IInv PROVE Queues!Runnable = RunningTasks(gyros)
    BY DEF RunnableMeansRunning
<1> DEFINE z == gyros.lists[Running]
           P == Priorities \cup {0}
           On(q) == {t \in Tasks : gyros.priority[t] = q}
           queue == [p \in P |-> Keep(z, On(p))]
<1>1. Queues!Runnable = UNION {Queues!ToSet(queue[p]) : p \in P}
    BY DEF Queues!Runnable
<1>2. z \in Seq(Tasks) /\ RunningTasks(gyros) = Elements(z)
    BY RunningSeq DEF IInv, RunningTasks
<1>3. \A t \in Tasks : gyros.priority[t] \in P /\ t \in On(gyros.priority[t])
    BY DEF IInv, KernelOK, KernelStates
<1>4. Elements(z) \subseteq Tasks
    BY <1>2, ElementsOfSeq
<1> HIDE DEF z, On
<1>5. \A p \in P : Queues!ToSet(queue[p]) = Elements(z) \cap On(p)
  <2>1. \A p \in P : Elements(Keep(z, On(p))) = Elements(z) \cap On(p)
    BY <1>2, KeepMembers
  <2>2. \A s : Queues!ToSet(s) = Elements(s)
    BY DEF Queues!ToSet, Elements, ToSet
  <2> QED
    BY <2>1, <2>2
<1> HIDE DEF queue, P
<1>6. UNION {Queues!ToSet(queue[p]) : p \in P} = Elements(z)
    BY <1>3, <1>4, <1>5
<1> QED
    BY <1>1, <1>2, <1>6

\* The first task of the highest queue is the head of the list.
FirstRight ==
    gyros.current # NoTask => Queues!First = Head(gyros.lists[Running])

LEMMA FirstOfQueues == IInv => FirstRight
<1> SUFFICES ASSUME IInv, gyros.current # NoTask
             PROVE  Queues!First = Head(gyros.lists[Running])
    BY DEF FirstRight
<1> DEFINE occupied == {p \in Priorities \cup {0} : Level(gyros, p) # <<>>}
           m == CHOOSE p \in occupied : \A q \in occupied : p >= q
<1>1. gyros.lists[Running] # <<>> /\ KernelOK(gyros)
    BY RunningNotEmpty DEF IInv, IdleReady, KernelAssumption
<1>2. m \in occupied /\ Head(Level(gyros, m)) = Head(gyros.lists[Running])
  <2> DEFINE k == gyros
  <2>1. KernelOK(k) /\ k.lists[Running] # <<>>
    BY <1>1
  <2>2. occupied = {p \in Priorities \cup {0} : Level(k, p) # <<>>}
    OBVIOUS
  <2> HIDE DEF k, occupied
  <2>3. m \in occupied /\ Head(Level(k, m)) = Head(k.lists[Running])
    BY <2>1, <2>2, HeadOfLevels
  <2> QED
    BY <2>3 DEF k
<1> DEFINE queue == [p \in Priorities \cup {0} |->
                        Keep(gyros.lists[Running], {t \in Tasks : gyros.priority[t] = p})]
<1>3. \A p \in Priorities \cup {0} : queue[p] = Level(gyros, p)
    BY DEF Level
<1>4. occupied = {p \in Priorities \cup {0} : queue[p] # <<>>}
    BY <1>3
<1>5. Queues!Occupied = {p \in Priorities \cup {0} : queue[p] # <<>>}
    BY DEF Queues!Occupied
<1>6. Queues!First = Head(queue[CHOOSE p \in Queues!Occupied :
                                    \A q \in Queues!Occupied : p >= q])
    BY DEF Queues!First, Queues!Max
<1>7. m \in Priorities \cup {0}
    BY <1>2
<1> HIDE DEF queue, occupied
<1>8. Queues!First = Head(queue[m])
    BY <1>4, <1>5, <1>6
<1> QED
    BY <1>2, <1>3, <1>7, <1>8

\* The queues after a step.
LEMMA QueuesMove ==
    ASSUME IInv, IInv', NEW moved, Moves(moved),
           NEW gone, \A u \in RunningTasks(gyros) : u \in moved <=> u \in gone
    PROVE  Queues!Requeue(gone)
<1> DEFINE P == Priorities \cup {0}
           queue == [p \in P |->
                        Keep(gyros.lists[Running], {t \in Tasks : gyros.priority[t] = p})]
           k == gyros
           n == gyros'
<1>1. \A p \in P : queue[p] = Level(k, p) /\ queue'[p] = Level(n, p)
    BY DEF Level
<1>2. KernelOK(k) /\ KernelOK(n) /\ RequeuedAll(k, n, moved)
    BY DEF IInv, Moves
<1>3. \A u \in Elements(k.lists[Running]) : u \in moved <=> u \in gone
    BY DEF RunningTasks
<1> HIDE DEF k, n
<1>4. ASSUME NEW p \in P
      PROVE  Queues!IsPrefix(Queues!Keep(Level(k, p), Queues!ToSet(Level(k, p)) \ gone),
                             Level(n, p))
  <2>1. Requeued(Level(k, p), Level(n, p), moved)
    BY <1>2 DEF RequeuedAll
  <2>2. Level(k, p) \in Seq(Tasks)
    BY <1>2, RunningSeq, LevelType
  <2>3. Elements(Level(k, p)) \subseteq Elements(k.lists[Running])
    BY <1>2, RunningSeq, KeepMembers DEF Level
  <2>4. \A u \in Elements(Level(k, p)) : u \in moved <=> u \in gone
    BY <1>3, <2>3
  <2> QED
    BY <2>1, <2>2, <2>4, QueuesRequeue
<1>5. \A p \in P :
          /\ Queues!Distinct(Level(n, p))
          /\ \A q \in P :
                 p < q => Queues!ToSet(Level(n, p)) \cap Queues!ToSet(Level(n, q)) = {}
    BY <1>2, QueuesDistinct
<1>6. \A p \in P :
          /\ Queues!IsPrefix(Queues!Keep(queue[p], Queues!ToSet(queue[p]) \ gone), queue'[p])
          /\ Queues!Distinct(queue'[p])
  <2> HIDE DEF queue
  <2> QED
    BY <1>1, <1>4, <1>5
<1>7. \A p, q \in P :
          p < q => Queues!ToSet(queue'[p]) \cap Queues!ToSet(queue'[q]) = {}
  <2> HIDE DEF queue
  <2> QED
    BY <1>1, <1>5
<1> QED
    BY <1>6, <1>7 DEF Queues!Requeue

\* No task is running at reset.
LEMMA InitQueues == Init => Queues!Init
<1> SUFFICES ASSUME Init PROVE Queues!Init
    OBVIOUS
<1>1. /\ gyros.current = NoTask /\ gyros.pendsv = FALSE /\ gyros.lists[Running] = <<>>
      /\ Elements(gyros.timeouts) = {}
    BY ListIdsFacts DEF Init, KernelInit, Elements, ToSet
<1>2. \A nodes : Keep(<<>>, nodes) = <<>>
    BY KeepEmpty
<1> QED
    BY <1>1, <1>2 DEF Queues!Init

\* A step of the current task or of an interrupt handler, seen in the queues.
LEMMA StaysOnQueues ==
    ASSUME IInv, IInv', RunnableMeansRunning, RunnableMeansRunning', StaysOn
    PROVE  Queues!Next
<1>1. PICK moved \in SUBSET Tasks :
          /\ Moves(moved)
          /\ \/ TimeoutsReached(moved)
             \/ \E t \in Tasks \cup {NoTask} : OneLeaves(t, moved)
    BY DEF StaysOn
<1>2. gyros'.current = gyros.current /\ (gyros.pendsv => gyros'.pendsv)
    BY DEF StaysOn
<1>3. CASE TimeoutsReached(moved)
  <2>1. Queues!Requeue(moved)
    BY <1>1, QueuesMove
  <2>2. /\ moved \in (SUBSET Elements(gyros.timeouts)) \ {{}}
        /\ Elements(gyros'.timeouts) = Elements(gyros.timeouts) \ moved
        /\ gyros'.pendsv
    BY <1>3 DEF TimeoutsReached
  <2>3. Queues!Timeouts(moved)
    BY <1>2, <2>1, <2>2 DEF Queues!Timeouts
  <2> QED
    BY <2>2, <2>3 DEF Queues!Next
<1>4. ASSUME NEW t \in Tasks \cup {NoTask}, OneLeaves(t, moved)
      PROVE  Queues!Next
  <2>1. Queues!Requeue({t})
    BY <1>1, <1>4, QueuesMove DEF OneLeaves
  <2>2. gyros.current # NoTask /\ gyros.current \notin RunningTasks(gyros') => gyros'.pendsv
    <3>1. SUFFICES ASSUME gyros.current # NoTask, ~gyros'.pendsv
                   PROVE  gyros.current \in RunningTasks(gyros')
      OBVIOUS
    <3>2. gyros'.current \in Tasks /\ KernelOK(gyros')
      BY <1>2, <3>1 DEF IInv, KernelOK, KernelStates
    <3>3. gyros'.main_list[gyros'.current] = Running
      BY <1>2, <3>1 DEF IInv, CurrentRuns
    <3> QED
      BY <1>2, <3>2, <3>3, ListIdsFacts DEF KernelOK, LinkedRight, RunningTasks
  <2>3. Queues!GoesOn
    BY <1>2, <2>2 DEF Queues!GoesOn, RunnableMeansRunning
  <2>4. Elements(gyros'.timeouts) \subseteq
            IF t \in Queues!Runnable'
            THEN Elements(gyros.timeouts)
            ELSE Elements(gyros.timeouts) \cup {t}
    BY <1>4 DEF OneLeaves, RunnableMeansRunning
  <2>5. Queues!Change(t)
    BY <2>1, <2>3, <2>4 DEF Queues!Change
  <2> QED
    BY <2>5 DEF Queues!Next
<1> QED
    BY <1>1, <1>3, <1>4

\* Every step of the kernel is one of the abstract specification, or none.
LEMMA StepQueues ==
    ASSUME IInv, IInv', FirstRight, RunnableMeansRunning, RunnableMeansRunning',
           [Next]_vars
    PROVE  [Queues!Next]_(Queues!vars)
<1>1. CASE StaysOn
    BY <1>1, StaysOnQueues
<1>2. CASE gyros_start
  <2>1. PICK moved \in SUBSET Tasks :
            Moves(moved) /\ \A u \in RunningTasks(gyros) : u \notin moved
    BY <1>2, StartTurns
  <2>2. Queues!Requeue({})
    BY <2>1, QueuesMove
  <2>3. /\ gyros.current = NoTask /\ gyros'.current = Idle /\ gyros'.pendsv
        /\ Elements(gyros'.timeouts) = Elements(gyros.timeouts)
    BY <1>2, StartTurns
  <2>4. Idle \in Queues!Runnable'
    <3>1. gyros'.main_list[Idle] = Running /\ KernelOK(gyros') /\ Idle \in Tasks
      BY <2>3 DEF IInv, IdleReady, KernelAssumption
    <3> QED
      BY <3>1, ListIdsFacts DEF KernelOK, LinkedRight, RunningTasks, RunnableMeansRunning
  <2>5. Queues!Start
    BY <2>2, <2>3, <2>4 DEF Queues!Start
  <2> QED
    BY <2>5 DEF Queues!Next
<1>3. CASE ContextSwitch
  <2> DEFINE queue == [p \in Priorities \cup {0} |->
                          Keep(gyros.lists[Running], {t \in Tasks : gyros.priority[t] = p})]
  <2>1. /\ gyros'.lists = gyros.lists /\ gyros'.priority = gyros.priority
        /\ gyros'.current = Head(gyros.lists[Running]) /\ gyros'.pendsv = FALSE
        /\ Elements(gyros'.timeouts) = Elements(gyros.timeouts)
    BY <1>3, SwitchTurns
  <2>2. gyros.pendsv /\ gyros.current # NoTask
    BY <1>3 DEF ContextSwitch, IInv, IdleReady
  <2>3. gyros'.current = Queues!First
    BY <2>1, <2>2 DEF FirstRight
  <2>4. queue' = queue
    BY <2>1
  <2>5. Queues!Switch
    BY <2>1, <2>2, <2>3, <2>4 DEF Queues!Switch
  <2> QED
    BY <2>5 DEF Queues!Next
<1> QED
    BY <1>1, <1>2, <1>3, NextTurns

\* The single sorted list and PendSV implement one queue for each priority,
\* first in first out.
THEOREM KernelImplementsQueues == Spec => ImplementsQueues
<1>1. IInv /\ IInv' /\ FirstRight /\ RunnableMeansRunning /\ RunnableMeansRunning'
          /\ [Next]_vars => [Queues!Next]_(Queues!vars)
    BY StepQueues
<1> QED
    BY <1>1, IInvHolds, FirstOfQueues, RunnableOfQueues, InitQueues, PTL
       DEF Spec, ImplementsQueues, Queues!Spec
=============================================================================
