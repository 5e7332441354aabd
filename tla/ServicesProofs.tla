--------------------------- MODULE ServicesProofs ---------------------------
(***************************************************************************)
(* What the steps of GyrosServices do to a kernel state that is scheduled  *)
(* as it should be, for any number of tasks: the facts that the proofs     *)
(* about the synchronisation objects have in common.                       *)
(***************************************************************************)
EXTENDS GyrosServices, GyrosKernelProofs, FiniteSetTheorems

USE KernelAssumption

\* The idle task can always run, and a task on the timeout list waits for an
\* object.
Sound(k) ==
    /\ KernelOK(k)
    /\ k.current \in Tasks
    /\ k.main_list[Idle] = Running
    /\ \A t \in Elements(k.timeouts) : k.main_list[t] \in Objects

\* The first running task is current, or a switch to it is pending.
ScheduleOK(k) ==
    /\ Sound(k)
    /\ k.pendsv \/ Head(k.lists[Running]) = k.current

\* The fields that neither a list operation nor a reschedule changes.
SameTasks(k, n) ==
    /\ n.current = k.current /\ n.now = k.now
    /\ n.timeout = k.timeout /\ n.timed_out = k.timed_out
    /\ n.priority = k.priority /\ n.base_priority = k.base_priority
    /\ n.joinable = k.joinable

\* t has been taken to list l (or to none), and that is all.
Moved(k, n, t, l) ==
    /\ Sound(n) /\ SameTasks(k, n)
    /\ n.main_list = [k.main_list EXCEPT ![t] = l]

LEMMA ListNames ==
    /\ Running \in ListIds /\ Objects \subseteq ListIds /\ Tasks \subseteq ListIds
    /\ NoList \notin ListIds /\ Running \notin Objects /\ Running # NoList
    /\ Objects \cap Tasks = {} /\ Idle \in Tasks /\ NoTask \notin Tasks
    /\ AppTasks \subseteq Tasks /\ Idle \notin AppTasks
    BY DEF ListIds, AppTasks

LEMMA Priorities0 ==
    ASSUME NEW k, KernelOK(k)
    PROVE  /\ k.priority \in [Tasks -> Priorities \cup {0}]
           /\ k.base_priority \in [Tasks -> Priorities \cup {0}]
           /\ \A t \in Tasks : k.priority[t] \in Nat /\ k.base_priority[t] \in Nat
<1>1. Priorities \cup {0} \subseteq Nat
    OBVIOUS
<1> QED
    BY <1>1 DEF KernelOK, KernelStates

LEMMA LaterIsTime ==
    ASSUME NEW k, KernelOK(k), NEW delay \in Nat
    PROVE  (k.now + delay) % TimeRange \in Time
<1>1. k.now \in Nat /\ TimeRange \in Nat /\ TimeRange > 0
    BY DEF KernelOK, KernelStates, Time
<1>2. k.now + delay \in Nat
    BY <1>1
<1>3. \A n \in Nat : n % TimeRange \in 0..TimeRange - 1
    BY <1>1
<1> QED
    BY <1>2, <1>3 DEF Time

\* The tasks in a list are those whose main list it is.
LEMMA WaitersAre ==
    ASSUME NEW k, KernelOK(k), NEW l \in ListIds
    PROVE  Elements(k.lists[l]) = {t \in Tasks : k.main_list[t] = l}
<1>1. k.lists[l] \in Seq(Tasks)
    BY DEF KernelOK, KernelStates
<1>2. Elements(k.lists[l]) \subseteq Tasks
    BY <1>1, ElementsOfSeq
<1> QED
    BY <1>2 DEF KernelOK, LinkedRight

\* The first task of a list has the highest priority of all in it.
LEMMA FirstIsHighest ==
    ASSUME NEW k, KernelOK(k), NEW l \in ListIds, k.lists[l] # <<>>
    PROVE  /\ Head(k.lists[l]) \in Tasks
           /\ k.main_list[Head(k.lists[l])] = l
           /\ \A t \in Tasks : k.main_list[t] = l =>
                  k.priority[t] <= k.priority[Head(k.lists[l])]
<1> DEFINE s == k.lists[l]
<1>1. s \in Seq(Tasks) /\ s # <<>> /\ Falling(s, k.priority)
    BY DEF KernelOK, KernelStates, ListsOK
<1>2. Elements(s) = {t \in Tasks : k.main_list[t] = l}
    BY WaitersAre
<1> HIDE DEF s
<1>3. Head(s) = s[1] /\ 1 \in 1..Len(s) /\ s[1] \in Elements(s)
    BY <1>1, ElementsOfSeq
<1>4. \A t \in Tasks : k.priority[t] \in Nat
    BY Priorities0
<1>5. ASSUME NEW t \in Elements(s)
      PROVE  k.priority[t] <= k.priority[s[1]]
  <2>1. PICK i \in 1..Len(s) : s[i] = t
      BY <1>1 DEF Elements, ToSet
  <2>2. CASE i = 1
      BY <1>2, <1>3, <1>4, <2>1, <2>2
  <2>3. CASE i # 1
    <3>1. 1 < i
        BY <1>1, <2>3
    <3> QED
        BY <1>1, <1>3, <2>1, <3>1 DEF Falling
  <2> QED
      BY <2>2, <2>3
<1> QED
    BY <1>2, <1>3, <1>5 DEF s

\* A task that executes is runnable, has the highest priority of those that
\* are, and waits for no timeout.
LEMMA CurrentIsHighest ==
    ASSUME NEW k, ScheduleOK(k), ~k.pendsv
    PROVE  /\ k.main_list[k.current] = Running
           /\ k.current \notin Elements(k.timeouts)
           /\ \A t \in Tasks : k.main_list[t] = Running =>
                  k.priority[t] <= k.priority[k.current]
<1>1. KernelOK(k) /\ Idle \in Tasks /\ k.main_list[Idle] = Running
    BY DEF ScheduleOK, Sound
<1>2. k.lists[Running] # <<>>
    BY <1>1, RunningNotEmpty
<1>3. Head(k.lists[Running]) = k.current
    BY DEF ScheduleOK
<1>4. Running \in ListIds
    BY ListNames
<1>5. /\ k.main_list[k.current] = Running
      /\ \A t \in Tasks : k.main_list[t] = Running => k.priority[t] <= k.priority[k.current]
    BY <1>1, <1>2, <1>3, <1>4, FirstIsHighest
<1>6. Running \notin Objects
    BY ListNames
<1> QED
    BY <1>5, <1>6 DEF ScheduleOK, Sound

-----------------------------------------------------------------------------
(* List operations on sound states.                                        *)

\* A move to an object's list, or to the running tasks if no timeout is left.
LEMMA MoveSound ==
    ASSUME NEW k, Sound(k), NEW t \in Tasks, NEW l \in Objects \cup {Running},
           l = Running \/ t # Idle, l = Running => t \notin Elements(k.timeouts)
    PROVE  /\ Moved(k, gyros__task_move(k, t, l), t, l)
           /\ gyros__task_move(k, t, l).timeouts = k.timeouts
           /\ gyros__task_move(k, t, l).pendsv = k.pendsv
<1> DEFINE n == gyros__task_move(k, t, l)
<1>1. KernelOK(k) /\ l \in ListIds
    BY ListNames DEF Sound
<1>2. /\ KernelOK(n) /\ SameButLists(k, n)
      /\ n.main_list = [k.main_list EXCEPT ![t] = l]
      /\ n.timeouts = k.timeouts
    BY <1>1, TaskMoveOK
<1> HIDE DEF n
<1>3. k.main_list \in [Tasks -> ListIds \cup {NoList}]
    BY <1>1 DEF KernelOK, KernelStates
<1>4. n.main_list[Idle] = Running
    BY <1>2, <1>3 DEF Sound
<1>5. Elements(n.timeouts) \subseteq Tasks
  <2>1. n.timeouts \in Seq(Tasks)
      BY <1>2 DEF KernelOK, KernelStates
  <2> QED
      BY <2>1, ElementsOfSeq
<1>6. \A u \in Elements(n.timeouts) : n.main_list[u] \in Objects
    BY <1>2, <1>3, <1>5 DEF Sound
<1>7. Sound(n)
    BY <1>2, <1>4, <1>6 DEF Sound, SameButLists
<1> QED
    BY <1>2, <1>7 DEF Moved, SameTasks, SameButLists, n

\* A task leaves the timeout list.
LEMMA RemoveTimeoutSound ==
    ASSUME NEW k, Sound(k), NEW t
    PROVE  /\ Sound(RemoveTimeout(k, t)) /\ SameTasks(k, RemoveTimeout(k, t))
           /\ RemoveTimeout(k, t).main_list = k.main_list
           /\ RemoveTimeout(k, t).lists = k.lists
           /\ Elements(RemoveTimeout(k, t).timeouts) = Elements(k.timeouts) \ {t}
           /\ RemoveTimeout(k, t).pendsv = k.pendsv
<1> DEFINE n == RemoveTimeout(k, t)
<1>1. KernelOK(k)
    BY DEF Sound
<1>2. /\ KernelOK(n) /\ SameButLists(k, n) /\ n.lists = k.lists
      /\ n.main_list = k.main_list /\ Elements(n.timeouts) = Elements(k.timeouts) \ {t}
    BY <1>1, RemoveTimeoutOK
<1> HIDE DEF n
<1>3. Sound(n)
    BY <1>2 DEF Sound, SameButLists
<1>4. SameTasks(k, n) /\ n.pendsv = k.pendsv
    BY <1>2 DEF SameTasks, SameButLists
<1> QED
    BY <1>2, <1>3, <1>4 DEF n

\* gyros__task_wake.
LEMMA WakeSound ==
    ASSUME NEW k, Sound(k), NEW t \in Tasks
    PROVE  /\ Moved(k, gyros__task_wake(k, t), t, Running)
           /\ Elements(gyros__task_wake(k, t).timeouts) = Elements(k.timeouts) \ {t}
           /\ gyros__task_wake(k, t).pendsv = k.pendsv
<1> DEFINE r == RemoveTimeout(k, t)
           n == gyros__task_move(r, t, Running)
<1>1. /\ Sound(r) /\ SameTasks(k, r) /\ r.main_list = k.main_list
      /\ Elements(r.timeouts) = Elements(k.timeouts) \ {t} /\ r.pendsv = k.pendsv
    BY RemoveTimeoutSound
<1> HIDE DEF r
<1>2. Moved(r, n, t, Running) /\ n.timeouts = r.timeouts /\ n.pendsv = r.pendsv
    BY <1>1, MoveSound
<1>3. gyros__task_wake(k, t) = n
    BY DEF gyros__task_wake, r
<1> HIDE DEF n
<1> QED
    BY <1>1, <1>2, <1>3 DEF Moved, SameTasks

\* A task suspends itself.
LEMMA SuspendSound ==
    ASSUME NEW k, Sound(k), NEW t \in AppTasks
    PROVE  LET n == RemoveTimeout(gyros__task_suspend(k, t), t)
           IN  /\ Moved(k, n, t, NoList)
               /\ Elements(n.timeouts) = Elements(k.timeouts) \ {t}
<1> DEFINE a == gyros__task_suspend(k, t)
           n == RemoveTimeout(a, t)
<1>1. t \in Tasks /\ t # Idle /\ KernelOK(k)
    BY ListNames DEF Sound
<1>2. /\ KernelOK(a) /\ SameButLists(k, a)
      /\ a.main_list = [k.main_list EXCEPT ![t] = NoList]
      /\ a.timeouts = k.timeouts
    BY <1>1, TaskSuspendOK
<1> HIDE DEF a
<1>3. /\ KernelOK(n) /\ SameButLists(a, n) /\ n.main_list = a.main_list
      /\ Elements(n.timeouts) = Elements(a.timeouts) \ {t}
    BY <1>2, RemoveTimeoutOK
<1> HIDE DEF n
<1>4. k.main_list \in [Tasks -> ListIds \cup {NoList}]
    BY <1>1 DEF KernelOK, KernelStates
<1>5. Elements(k.timeouts) \subseteq Tasks
  <2>1. k.timeouts \in Seq(Tasks)
      BY <1>1 DEF KernelOK, KernelStates
  <2> QED
      BY <2>1, ElementsOfSeq
<1>6. /\ n.main_list[Idle] = Running
      /\ \A u \in Elements(n.timeouts) : n.main_list[u] \in Objects
    BY <1>1, <1>2, <1>3, <1>4, <1>5 DEF Sound
<1>7. Sound(n)
    BY <1>2, <1>3, <1>6 DEF Sound, SameButLists
<1>8. Moved(k, n, t, NoList) /\ Elements(n.timeouts) = Elements(k.timeouts) \ {t}
    BY <1>2, <1>3, <1>7 DEF Moved, SameTasks, SameButLists
<1> QED
    BY <1>8 DEF n, a

\* A new priority, of a task that may be linked anywhere.
LEMMA SetPrioritySound ==
    ASSUME NEW k, Sound(k), NEW t \in Tasks, NEW p \in Priorities \cup {0}
    PROVE  LET n == gyros__set_priority(k, t, p)
           IN  /\ Sound(n)
               /\ n.main_list = k.main_list /\ n.timeouts = k.timeouts
               /\ n.current = k.current /\ n.pendsv = k.pendsv
               /\ n.base_priority = k.base_priority
               /\ n.priority[t] = p
               /\ \A x \in Tasks \ {t} : n.priority[x] = k.priority[x]
    BY SetPriorityOK DEF Sound

-----------------------------------------------------------------------------
(* Rescheduling.                                                           *)

\* n is k after a reschedule, conditional or not.
Scheduled(k, n) ==
    /\ ScheduleOK(n) /\ SameTasks(k, n)
    /\ n.main_list = k.main_list /\ n.timeouts = k.timeouts /\ n.lists = k.lists
    /\ k.pendsv => n.pendsv

LEMMA RescheduleSound ==
    ASSUME NEW k, Sound(k)
    PROVE  /\ Scheduled(k, gyros__reschedule(k)) /\ gyros__reschedule(k).pendsv
           /\ Scheduled(k, gyros__cond_reschedule(k))
<1>1. /\ [k EXCEPT !.pendsv = TRUE].pendsv
      /\ SameTasks(k, [k EXCEPT !.pendsv = TRUE])
      /\ [k EXCEPT !.pendsv = TRUE].main_list = k.main_list
      /\ [k EXCEPT !.pendsv = TRUE].timeouts = k.timeouts
      /\ [k EXCEPT !.pendsv = TRUE].lists = k.lists
    BY DEF Sound, KernelOK, KernelStates, SameTasks
<1>2. Scheduled(k, gyros__reschedule(k)) /\ gyros__reschedule(k).pendsv
  <2> DEFINE n == gyros__reschedule(k)
  <2>1. KernelOK(n) /\ n = [k EXCEPT !.pendsv = TRUE]
      BY RescheduleOK DEF Sound
  <2>2. /\ n.pendsv /\ SameTasks(k, n)
        /\ n.main_list = k.main_list /\ n.timeouts = k.timeouts /\ n.lists = k.lists
      BY <1>1, <2>1
  <2> HIDE DEF n
  <2>3. Sound(n)
      BY <2>1, <2>2 DEF Sound, SameTasks
  <2> QED
      BY <2>2, <2>3 DEF Scheduled, ScheduleOK, n
<1>3. CASE Head(k.lists[Running]) # k.current
    BY <1>2, <1>3 DEF gyros__cond_reschedule
<1>4. CASE Head(k.lists[Running]) = k.current
  <2>1. gyros__cond_reschedule(k) = k
      BY <1>4 DEF gyros__cond_reschedule
  <2>2. Scheduled(k, k)
      BY <1>4 DEF Scheduled, ScheduleOK, SameTasks
  <2> QED
      BY <1>2, <2>1, <2>2
<1> QED
    BY <1>2, <1>3, <1>4

-----------------------------------------------------------------------------
(* The steps.                                                              *)

\* Every task is in each of the orders, once.
LEMMA OrdersComplete ==
    ASSUME NEW order \in Orders
    PROVE  /\ order \in Seq(Tasks) /\ Distinct(order) /\ Elements(order) = Tasks
           /\ Falling(order, BasePriority)
<1> DEFINE n == Cardinality(Tasks)
<1>1. n \in Nat /\ IsFiniteSet(Tasks)
    BY ServicesAssumption, FS_CardinalityType
<1>2. /\ order \in [1..n -> Tasks]
      /\ \A i, j \in 1..n : i # j => order[i] # order[j]
      /\ \A i, j \in 1..n : i < j => BasePriority[order[i]] >= BasePriority[order[j]]
    BY DEF Orders, SetToSeqs
<1> HIDE DEF n
<1>3. order \in Seq(Tasks) /\ Len(order) = n
    BY <1>1, <1>2
<1>4. order \in Injection(1..n, Tasks)
    BY <1>2 DEF Injection, IsInjective
<1>5. IsFiniteSet(1..n) /\ Cardinality(1..n) = n
    BY <1>1, FS_Interval
<1>6. order \in Surjection(1..n, Tasks)
    BY <1>1, <1>4, <1>5, FS_Injection DEF n
<1>7. \A t \in Tasks : \E i \in 1..n : order[i] = t
    BY <1>6 DEF Surjection
<1> QED
    BY <1>2, <1>3, <1>7 DEF Distinct, Elements, ToSet, Falling


\* The state in which the first task is about to run.
LEMMA StartedSound ==
    ASSUME NEW k \in Started
    PROVE  /\ ScheduleOK(k)
           /\ k.main_list = [t \in Tasks |-> Running]
           /\ k.priority = BasePriority /\ k.base_priority = BasePriority
           /\ k.timeouts = <<>>
<1>1. PICK order \in Orders :
          k = [KernelInit EXCEPT !.priority = BasePriority,
                                 !.base_priority = BasePriority,
                                 !.joinable = [t \in Tasks |-> t # Idle],
                                 !.main_list = [t \in Tasks |-> Running],
                                 !.lists[Running] = order,
                                 !.current = Idle,
                                 !.pendsv = TRUE]
    BY DEF Started
<1>2. order \in Seq(Tasks) /\ Distinct(order) /\ Elements(order) = Tasks
    BY OrdersComplete
<1>3. Falling(order, BasePriority)
    BY OrdersComplete
<1>4. /\ k \in KernelStates
      /\ k.main_list = [t \in Tasks |-> Running]
      /\ k.lists = [l \in ListIds |-> IF l = Running THEN order ELSE <<>>]
      /\ k.priority = BasePriority /\ k.base_priority = BasePriority
      /\ k.timeouts = <<>> /\ k.current = Idle /\ k.pendsv
  <2>1. /\ DOMAIN k = DOMAIN KernelInit
        /\ k.main_list = [t \in Tasks |-> Running]
        /\ k.lists = [[l \in ListIds |-> <<>>] EXCEPT ![Running] = order]
        /\ k.priority = BasePriority /\ k.base_priority = BasePriority
        /\ k.timeouts = <<>> /\ k.current = Idle /\ k.pendsv = TRUE
        /\ k.joinable = [t \in Tasks |-> t # Idle]
        /\ k.timeout = [t \in Tasks |-> 0] /\ k.timed_out = [t \in Tasks |-> FALSE]
        /\ k.now = 0
      BY <1>1 DEF KernelInit
  <2>2. k = [current |-> k.current, lists |-> k.lists, main_list |-> k.main_list,
             timeouts |-> k.timeouts, timeout |-> k.timeout, timed_out |-> k.timed_out,
             priority |-> k.priority, base_priority |-> k.base_priority,
             joinable |-> k.joinable, pendsv |-> k.pendsv, now |-> k.now]
      BY <1>1 DEF KernelInit
  <2>3. 0 \in Time
      BY DEF Time
  <2>4. k.lists = [l \in ListIds |-> IF l = Running THEN order ELSE <<>>]
      BY <2>1, ListNames
  <2>5. k.lists \in [ListIds -> Seq(Tasks)]
      BY <1>2, <2>4
  <2>6. /\ k.main_list \in [Tasks -> ListIds \cup {NoList}]
        /\ k.timeouts \in Seq(Tasks)
        /\ k.current \in Tasks \cup {NoTask} /\ k.now \in Time
        /\ k.timeout \in [Tasks -> Time]
        /\ k.timed_out \in [Tasks -> BOOLEAN] /\ k.joinable \in [Tasks -> BOOLEAN]
        /\ k.pendsv \in BOOLEAN
    <3>1. k.joinable \in [Tasks -> BOOLEAN] /\ k.timed_out \in [Tasks -> BOOLEAN]
      <4>1. k.joinable = [t \in Tasks |-> t # Idle] /\ k.timed_out = [t \in Tasks |-> FALSE]
          BY <2>1
      <4>2. [t \in Tasks |-> t # Idle] \in [Tasks -> BOOLEAN]
          OBVIOUS
      <4>3. [t \in Tasks |-> FALSE] \in [Tasks -> BOOLEAN]
          OBVIOUS
      <4> QED
          BY ONLY <4>1, <4>2, <4>3
    <3>2. /\ k.main_list \in [Tasks -> ListIds \cup {NoList}]
          /\ k.timeouts \in Seq(Tasks)
          /\ k.current \in Tasks \cup {NoTask} /\ k.now \in Time
        BY <2>1, <2>3, ListNames
    <3>3. k.timeout \in [Tasks -> Time] /\ k.pendsv \in BOOLEAN
        BY <2>1, <2>3
    <3> QED
        BY <3>1, <3>2, <3>3
  <2>7. BasePriority \in [Tasks -> Priorities \cup {0}]
      BY ServicesAssumption
  <2>8. k.priority \in [Tasks -> Priorities \cup {0}] /\ k.base_priority = k.priority
      BY <2>1, <2>7
  <2>9. k \in KernelStates
      BY <2>2, <2>5, <2>6, <2>8 DEF KernelStates
  <2> QED
      BY <2>1, <2>4, <2>9
<1>5. Elements(<<>>) = {}
    BY DEF Elements, ToSet
<1>6. ListsOK(k)
    BY <1>2, <1>3, <1>4 DEF ListsOK, Distinct, Falling
<1>7. \A t \in Tasks : LinkedRight(k, t)
    BY <1>2, <1>4, <1>5 DEF LinkedRight
<1>8. Distinct(k.timeouts)
    BY <1>4 DEF Distinct
<1> QED
    BY <1>4, <1>5, <1>6, <1>7, <1>8, ListNames DEF ScheduleOK, Sound, KernelOK

\* The switch makes the first running task the current one.
LEMMA SwitchSound ==
    ASSUME NEW k, Sound(k)
    PROVE  LET n == PendSV_Handler(k)
           IN  /\ ScheduleOK(n)
               /\ n = [k EXCEPT !.current = Head(k.lists[Running]), !.pendsv = FALSE]
               /\ n.main_list = k.main_list /\ n.timeouts = k.timeouts /\ n.lists = k.lists
               /\ n.priority = k.priority /\ n.base_priority = k.base_priority
<1> DEFINE n == PendSV_Handler(k)
           h == Head(k.lists[Running])
<1>1. KernelOK(k) /\ h \in Tasks
    BY RunningNotEmpty, ListNames DEF Sound
<1> HIDE DEF h
<1>2. n = [k EXCEPT !.current = h, !.pendsv = FALSE]
    BY DEF PendSV_Handler, h
<1>3. /\ n \in KernelStates /\ n.current = h /\ n.pendsv = FALSE
      /\ n.main_list = k.main_list /\ n.timeouts = k.timeouts /\ n.lists = k.lists
      /\ n.priority = k.priority /\ n.base_priority = k.base_priority
    BY <1>1, <1>2 DEF KernelOK, KernelStates
<1> HIDE DEF n
<1>4. KernelOK(n)
    BY <1>1, <1>3 DEF KernelOK, ListsOK, LinkedRight
<1>5. ScheduleOK(n)
    BY <1>1, <1>3, <1>4 DEF ScheduleOK, Sound, h
<1>6. n = [k EXCEPT !.current = Head(k.lists[Running]), !.pendsv = FALSE]
    BY <1>2 DEF h
<1> QED
    BY <1>3, <1>5, <1>6 DEF n

\* The timer interrupt takes tasks that waited with a timeout to the running
\* ones.
Ticked(k, n) ==
    /\ n.current = k.current /\ (k.pendsv => n.pendsv)
    /\ n.priority = k.priority /\ n.base_priority = k.base_priority
    /\ \A u \in Tasks :
           \/ n.main_list[u] = k.main_list[u] /\ n.timed_out[u] = k.timed_out[u]
           \/ /\ n.main_list[u] = Running /\ n.timed_out[u]
              /\ k.main_list[u] \in Objects
              /\ u \in Elements(k.timeouts) /\ u \notin Elements(n.timeouts)
    /\ Elements(n.timeouts) \subseteq Elements(k.timeouts)
    /\ n.timeout = k.timeout

LEMMA TickKeeps ==
    ASSUME NEW k, Sound(k), NEW now \in Time
    PROVE  LET n == gyros__tick(k, now)
           IN  Sound(n) /\ Ticked(k, n) /\ (ScheduleOK(k) => ScheduleOK(n))
<1> DEFINE n == gyros__tick(k, now)
<1>1. KernelOK(k)
    BY DEF Sound
<1>2. /\ KernelOK(n) /\ n.current = k.current
      /\ n.priority = k.priority /\ n.base_priority = k.base_priority
      /\ \A u \in Tasks :
             \/ n.main_list[u] = k.main_list[u] /\ n.timed_out[u] = k.timed_out[u]
             \/ /\ n.main_list[u] = Running /\ n.timed_out[u]
                /\ u \in Elements(k.timeouts) /\ u \notin Elements(n.timeouts)
      /\ Elements(n.timeouts) \subseteq Elements(k.timeouts)
      /\ n.timeout = k.timeout
      /\ n.pendsv \/ (n.lists = k.lists /\ n.pendsv = k.pendsv)
    BY <1>1, TickOK
<1> HIDE DEF n
<1>3. Elements(k.timeouts) \subseteq Tasks
  <2>1. k.timeouts \in Seq(Tasks)
      BY <1>1 DEF KernelOK, KernelStates
  <2> QED
      BY <2>1, ElementsOfSeq
<1>4. \A u \in Elements(k.timeouts) : k.main_list[u] \in Objects
    BY DEF Sound
<1>5. n.main_list[Idle] = Running
    BY <1>2, ListNames DEF Sound
<1>6. Sound(n)
    BY <1>2, <1>3, <1>4, <1>5 DEF Sound
<1>7. ScheduleOK(k) => ScheduleOK(n)
    BY <1>2, <1>6 DEF ScheduleOK
<1>8. Ticked(k, n)
    BY <1>2, <1>4 DEF Ticked
<1> QED
    BY <1>6, <1>7, <1>8 DEF n

LEMMA TickSound ==
    ASSUME NEW k, ScheduleOK(k), NEW now \in Time
    PROVE  LET n == gyros__tick(k, now)
           IN  /\ ScheduleOK(n)
               /\ n.current = k.current
               /\ n.priority = k.priority /\ n.base_priority = k.base_priority
               /\ \A u \in Tasks :
                      \/ n.main_list[u] = k.main_list[u] /\ n.timed_out[u] = k.timed_out[u]
                      \/ /\ n.main_list[u] = Running /\ n.timed_out[u]
                         /\ k.main_list[u] \in Objects
                         /\ u \in Elements(k.timeouts) /\ u \notin Elements(n.timeouts)
               /\ Elements(n.timeouts) \subseteq Elements(k.timeouts)
               /\ n.timeout = k.timeout
<1>1. Sound(k)
    BY DEF ScheduleOK
<1>2. LET n == gyros__tick(k, now)
      IN  Sound(n) /\ Ticked(k, n) /\ (ScheduleOK(k) => ScheduleOK(n))
    BY <1>1, TickKeeps
<1> QED
    BY <1>2 DEF Ticked

\* The task waits in l.
LEMMA WaitSound ==
    ASSUME NEW k, Sound(k), k.current # Idle, NEW l \in Objects
    PROVE  LET n == Wait(k, l)
           IN  /\ Moved(k, n, k.current, l) /\ ScheduleOK(n)
               /\ n.timeouts = k.timeouts /\ n.pendsv
<1> DEFINE t == k.current
           m == gyros__task_move(k, t, l)
<1>1. t \in Tasks /\ l # Running
    BY ListNames DEF Sound
<1>2. Moved(k, m, t, l) /\ m.timeouts = k.timeouts
    BY <1>1, MoveSound
<1>3. Wait(k, l) = gyros__reschedule(m)
    BY DEF Wait
<1> HIDE DEF m
<1>4. Scheduled(m, gyros__reschedule(m)) /\ gyros__reschedule(m).pendsv
    BY <1>2, RescheduleSound DEF Moved
<1> QED
    BY <1>2, <1>3, <1>4 DEF Moved, Scheduled, ScheduleOK, SameTasks

\* The task waits in l for at most the given time.
TimedWait(k, n, l, timeout) ==
    LET t == k.current
    IN  /\ ScheduleOK(n) /\ n.pendsv
        /\ n.current = t /\ n.now = k.now
        /\ n.priority = k.priority /\ n.base_priority = k.base_priority
        /\ n.joinable = k.joinable
        /\ n.main_list = [k.main_list EXCEPT ![t] = l]
        /\ n.timeout = [k.timeout EXCEPT ![t] = timeout]
        /\ n.timed_out = [k.timed_out EXCEPT ![t] = FALSE]
        /\ Elements(n.timeouts) = Elements(k.timeouts) \cup {t}

LEMMA WaitUntilSound ==
    ASSUME NEW k, Sound(k), k.current # Idle, k.main_list[k.current] = Running,
           NEW l \in Objects, NEW timeout \in Time
    PROVE  /\ TimedWait(k, WaitUntil(k, l, timeout), l, timeout)
           /\ Wait(gyros__task_set_timeout(k, timeout), l) = WaitUntil(k, l, timeout)
<1> DEFINE t == k.current
           a == gyros__task_set_timeout(k, timeout)
           b == gyros__task_move(a, t, l)
           n == gyros__reschedule(b)
<1>1. /\ KernelOK(k) /\ t \in Tasks /\ t \notin Elements(k.timeouts) /\ l \in ListIds
    BY ListNames DEF Sound
<1>2. /\ KernelOK(a)
      /\ a.main_list = k.main_list /\ a.current = t /\ a.now = k.now
      /\ a.priority = k.priority /\ a.base_priority = k.base_priority
      /\ a.joinable = k.joinable
      /\ a.timeout = [k.timeout EXCEPT ![t] = timeout]
      /\ a.timed_out = [k.timed_out EXCEPT ![t] = FALSE]
      /\ Elements(a.timeouts) = Elements(k.timeouts) \cup {t}
    BY <1>1, SetTimeoutOK
<1>3. WaitUntil(k, l, timeout) = n
    BY DEF WaitUntil
<1>4. Wait(a, l) = n
    BY <1>2 DEF Wait
<1> HIDE DEF a
<1>5. /\ KernelOK(b) /\ SameButLists(a, b)
      /\ b.main_list = [a.main_list EXCEPT ![t] = l]
      /\ b.timeouts = a.timeouts
    BY <1>1, <1>2, TaskMoveOK
<1> HIDE DEF b
<1>6. k.main_list \in [Tasks -> ListIds \cup {NoList}]
    BY <1>1 DEF KernelOK, KernelStates
<1>7. Elements(k.timeouts) \subseteq Tasks
  <2>1. k.timeouts \in Seq(Tasks)
      BY <1>1 DEF KernelOK, KernelStates
  <2> QED
      BY <2>1, ElementsOfSeq
<1>8. /\ b.main_list[Idle] = Running
      /\ \A u \in Elements(b.timeouts) : b.main_list[u] \in Objects
    BY <1>1, <1>2, <1>5, <1>6, <1>7, ListNames DEF Sound
<1>9. Sound(b)
    BY <1>1, <1>2, <1>5, <1>8 DEF Sound, SameButLists
<1>10. Scheduled(b, n) /\ n.pendsv
    BY <1>9, RescheduleSound
<1> HIDE DEF n
<1>11. TimedWait(k, n, l, timeout)
    BY <1>2, <1>5, <1>10 DEF TimedWait, Scheduled, SameTasks, SameButLists
<1> QED
    BY <1>3, <1>4, <1>11 DEF a

\* A call with a timeout forgets it when it returns.
Forgotten(k, n, t) ==
    /\ Sound(n) /\ (ScheduleOK(k) => ScheduleOK(n))
    /\ n.current = k.current /\ n.pendsv = k.pendsv /\ n.now = k.now
    /\ n.priority = k.priority /\ n.base_priority = k.base_priority
    /\ n.joinable = k.joinable
    /\ n.main_list = k.main_list /\ n.lists = k.lists /\ n.timeouts = k.timeouts
    /\ n.timeout = [k.timeout EXCEPT ![t] = 0]
    /\ n.timed_out = [k.timed_out EXCEPT ![t] = FALSE]

LEMMA ForgetSound ==
    ASSUME NEW k, Sound(k), NEW t \in Tasks
    PROVE  Forgotten(k, ForgetTimeout(k, t), t)
<1> DEFINE n == ForgetTimeout(k, t)
<1>1. 0 \in Time
    BY DEF Time
<1>2. /\ n.current = k.current /\ n.pendsv = k.pendsv /\ n.now = k.now
      /\ n.priority = k.priority /\ n.base_priority = k.base_priority
      /\ n.joinable = k.joinable
      /\ n.main_list = k.main_list /\ n.lists = k.lists /\ n.timeouts = k.timeouts
      /\ n.timeout = [k.timeout EXCEPT ![t] = 0]
      /\ n.timed_out = [k.timed_out EXCEPT ![t] = FALSE]
    BY DEF ForgetTimeout, Sound, KernelOK, KernelStates
<1>3. n \in KernelStates
    BY <1>1 DEF ForgetTimeout, Sound, KernelOK, KernelStates
<1> HIDE DEF n
<1>4. KernelOK(n)
    BY <1>2, <1>3 DEF Sound, KernelOK, ListsOK, LinkedRight
<1> QED
    BY <1>2, <1>4 DEF Forgotten, Sound, ScheduleOK, n

\* All tasks in l are woken.
AllWoken(k, n, l) ==
    /\ Sound(n) /\ SameTasks(k, n)
    /\ \A u \in Tasks : n.main_list[u] = IF k.main_list[u] = l THEN Running ELSE k.main_list[u]
    /\ Elements(n.timeouts) = {u \in Elements(k.timeouts) : k.main_list[u] # l}

LEMMA WakeAllSound ==
    ASSUME NEW k, Sound(k), NEW l \in Objects
    PROVE  AllWoken(k, WakeAllFromTail(k, l), l)
<1> DEFINE n == WakeAllFromTail(k, l)
<1>1. KernelOK(k) /\ l \in ListIds
    BY ListNames DEF Sound
<1>2. /\ KernelOK(n) /\ SameButLists(k, n)
      /\ \A u \in Tasks : n.main_list[u] = IF k.main_list[u] = l THEN Running ELSE k.main_list[u]
      /\ Elements(n.timeouts) = Elements(k.timeouts) \ Elements(k.lists[l])
    BY <1>1, WakeAllOK
<1> HIDE DEF n
<1>3. Elements(k.lists[l]) = {u \in Tasks : k.main_list[u] = l}
    BY <1>1, WaitersAre
<1>4. Elements(k.timeouts) \subseteq Tasks
  <2>1. k.timeouts \in Seq(Tasks)
      BY <1>1 DEF KernelOK, KernelStates
  <2> QED
      BY <2>1, ElementsOfSeq
<1>5. Elements(n.timeouts) = {u \in Elements(k.timeouts) : k.main_list[u] # l}
    BY <1>2, <1>3, <1>4
<1>6. Sound(n)
    BY <1>1, <1>2, <1>4, <1>5 DEF Sound, SameButLists
<1>7. SameTasks(k, n)
    BY <1>2 DEF SameTasks, SameButLists
<1> QED
    BY <1>2, <1>5, <1>6, <1>7 DEF AllWoken, n

\* The first task in l is woken, if there is one.
FirstWoken(k, n, l) ==
    /\ Sound(n) /\ (ScheduleOK(k) => ScheduleOK(n)) /\ SameTasks(k, n)
    /\ k.pendsv => n.pendsv
    /\ \/ n = k /\ \A x \in Tasks : k.main_list[x] # l
       \/ \E u \in Tasks :
              /\ k.main_list[u] = l
              /\ n.main_list = [k.main_list EXCEPT ![u] = Running]
              /\ Elements(n.timeouts) = Elements(k.timeouts) \ {u}
              /\ \A x \in Tasks : k.main_list[x] = l => k.priority[x] <= k.priority[u]

LEMMA WakeFirstSound ==
    ASSUME NEW k, Sound(k), NEW l \in Objects
    PROVE  FirstWoken(k, WakeFirst(k, l), l)
<1> DEFINE u == Head(k.lists[l])
           w == gyros__task_wake(k, u)
           n == gyros__cond_reschedule(w)
<1>1. KernelOK(k) /\ l \in ListIds
    BY ListNames DEF Sound
<1>2. CASE k.lists[l] = <<>>
  <2>1. WakeFirst(k, l) = k
      BY <1>2 DEF WakeFirst
  <2>2. Elements(k.lists[l]) = {x \in Tasks : k.main_list[x] = l}
      BY <1>1, WaitersAre
  <2>3. Elements(k.lists[l]) = {}
      BY <1>2 DEF Elements, ToSet
  <2> QED
      BY <2>1, <2>2, <2>3 DEF FirstWoken, SameTasks
<1>3. CASE k.lists[l] # <<>>
  <2>1. WakeFirst(k, l) = n
      BY <1>3 DEF WakeFirst
  <2>2. /\ u \in Tasks /\ k.main_list[u] = l
        /\ \A x \in Tasks : k.main_list[x] = l => k.priority[x] <= k.priority[u]
      BY <1>1, <1>3, FirstIsHighest
  <2> HIDE DEF u
  <2>3. /\ Moved(k, w, u, Running) /\ w.pendsv = k.pendsv
        /\ Elements(w.timeouts) = Elements(k.timeouts) \ {u}
      BY <2>2, WakeSound
  <2> HIDE DEF w
  <2>4. Scheduled(w, n)
      BY <2>3, RescheduleSound DEF Moved
  <2> HIDE DEF n
  <2>5. /\ n.main_list = [k.main_list EXCEPT ![u] = Running]
        /\ Elements(n.timeouts) = Elements(k.timeouts) \ {u}
        /\ ScheduleOK(n) /\ Sound(n) /\ SameTasks(k, n) /\ (k.pendsv => n.pendsv)
      BY <2>3, <2>4 DEF Moved, Scheduled, SameTasks, ScheduleOK
  <2> QED
      BY <2>1, <2>2, <2>5 DEF FirstWoken
<1> QED
    BY <1>2, <1>3

-----------------------------------------------------------------------------
(* Counting tasks.                                                         *)

\* n things have a task of their own in S.
EnoughFor(n, S) == S \subseteq Tasks /\ n \in Nat /\ n <= Cardinality(S)

LEMMA FiniteTasks ==
    ASSUME NEW S \in SUBSET Tasks
    PROVE  IsFiniteSet(S) /\ Cardinality(S) \in Nat
    BY FS_Subset, FS_CardinalityType, ServicesAssumption

LEMMA EnoughIsMore ==
    ASSUME NEW n, NEW S, EnoughFor(n, S), NEW T \in SUBSET Tasks, S \subseteq T,
           NEW m \in Nat, m <= n
    PROVE  EnoughFor(m, T)
<1>1. /\ IsFiniteSet(T) /\ Cardinality(S) <= Cardinality(T)
      /\ Cardinality(S) \in Nat /\ Cardinality(T) \in Nat
    BY FiniteTasks, FS_Subset DEF EnoughFor
<1> QED
    BY <1>1 DEF EnoughFor

LEMMA OneMore ==
    ASSUME NEW n, NEW S, EnoughFor(n, S), NEW T \in SUBSET Tasks, S \subseteq T,
           NEW u \in T, u \notin S
    PROVE  EnoughFor(n + 1, T)
<1>1. /\ IsFiniteSet(S) /\ Cardinality(S) \in Nat /\ S \cup {u} \in SUBSET Tasks
    BY FiniteTasks DEF EnoughFor
<1>2. Cardinality(S \cup {u}) = Cardinality(S) + 1
    BY <1>1, FS_AddElement
<1>3. EnoughFor(n + 1, S \cup {u})
    BY <1>1, <1>2 DEF EnoughFor
<1> QED
    BY <1>3, EnoughIsMore DEF EnoughFor

LEMMA OneLess ==
    ASSUME NEW n, NEW S, EnoughFor(n, S), n # 0, NEW T \in SUBSET Tasks,
           NEW t, S \ {t} \subseteq T
    PROVE  EnoughFor(n - 1, T)
<1>1. /\ IsFiniteSet(S) /\ Cardinality(S) \in Nat /\ S \ {t} \in SUBSET Tasks
      /\ Cardinality(S \ {t}) \in Nat
    BY FiniteTasks DEF EnoughFor
<1>2. Cardinality(S \ {t}) >= Cardinality(S) - 1
  <2>1. CASE t \in S
    <3>1. Cardinality(S \ {t}) = Cardinality(S) - 1
        BY ONLY <1>1, <2>1, FS_RemoveElement
    <3> QED
        BY ONLY <1>1, <3>1
  <2>2. CASE t \notin S
    <3>1. S \ {t} = S
        BY ONLY <2>2
    <3>2. Cardinality(S \ {t}) = Cardinality(S)
        BY ONLY <3>1
    <3> QED
        BY ONLY <1>1, <3>2
  <2> QED
      BY <2>1, <2>2
<1>3. EnoughFor(n - 1, S \ {t})
    BY <1>1, <1>2 DEF EnoughFor
<1> QED
    BY <1>3, EnoughIsMore DEF EnoughFor

=============================================================================
