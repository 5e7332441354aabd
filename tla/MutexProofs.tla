---------------------------- MODULE MutexProofs ----------------------------
(***************************************************************************)
(* Mutexes and what they are used for, for any number of tasks, mutexes    *)
(* and conditions, with the ldrex / strex fast path and without it: they   *)
(* exclude, no wake-up is lost, an inherited priority is given back, and   *)
(* with one mutex at a time it reaches the owner; a wait for a condition   *)
(* variable loses no signal; the iteration over the tasks is never upset.  *)
(*                                                                         *)
(* Exclusion (LockInv): a task that has locked a mutex is its owner, and a *)
(* task becomes the owner only of a mutex that has none.  On the slow path *)
(* this is one step.  On the fast path the owner is loaded in one step and *)
(* stored in another one, and StoreIsSafe says why nothing can have come   *)
(* between: every switch to another task clears the exclusive monitor.     *)
(*                                                                         *)
(* Wake-ups (WaitInv): whoever is in the list of a mutex is in the loop of *)
(* the lock, and a fast unlock that can still succeed finds nobody there   *)
(* (UnlockSafe), so that a mutex becomes free with its list empty or one   *)
(* of the list woken.  A priority that differs from the base priority      *)
(* belongs to an owner that somebody waits for (InheritsForWaiter).        *)
(*                                                                         *)
(* Inheritance (PriorityInv): an owner is at least as high as all in the   *)
(* list; the next owner is the one the unlock has woken, the highest, or a *)
(* task that was already running and so is no lower (WokenHighest).        *)
(*                                                                         *)
(* Condition variables (CondInv) join LockInv to where each task sleeps    *)
(* (AtCond): whoever is in the list of a condition is in a wait for it,    *)
(* and only those may have a timeout.  So a wait returns with the mutex    *)
(* and with the result it was woken with, and no signal is lost between    *)
(* the unlock of the mutex and the list.                                   *)
(*                                                                         *)
(* Iteration (IterInv): only a task that has locked iterate_mutex takes a  *)
(* task off the list.  DoingLocks says that whoever has entered one of     *)
(* these functions is either still in gyros_mutex_lock or has the mutex,   *)
(* so LockInv keeps it from everybody else; a task that is created comes   *)
(* last, which spoils no prefix (Listings).                                *)
(*                                                                         *)
(* Iteration and priorities (ServedInv): an exit hands iterate_mutex over  *)
(* without having anything to give back, and a deletion takes from the     *)
(* list of the mutex none that its owner has inherited from, provided that *)
(* nobody deletes a task of a higher priority (RanksRespected).            *)
(***************************************************************************)
EXTENDS MutexProperties, CondProperties, Iterate, ServicesProofs

InCall == {"ldrex", "strex", "slow"}

\* Where else a task may be; the last two in modules Iterate and CondVar only.
Outside == {"task", "rest", "finished", "cond"}

LockTypes ==
    /\ pc \in [Tasks -> InCall \cup Outside]
    /\ owner \in [Mutexes -> AppTasks \cup {NoTask}]
    /\ call \in [Tasks -> {"none", "try_lock", "lock", "unlock"}]
    /\ wants \in [Tasks -> Mutexes \cup {NoMutex}]
    /\ holds \in [Tasks -> SUBSET Mutexes]
    /\ monitor \in BOOLEAN
    /\ "current" \in DOMAIN gyros

HoldersOwn == \A t \in AppTasks : \A m \in holds[t] : owner[m] = t

CallersWant ==
    \A t \in AppTasks : pc[t] \in InCall =>
        call[t] # "none" /\ wants[t] \in Mutexes /\ wants[t] \notin holds[t]

UnlockersOwn ==
    \A t \in AppTasks : pc[t] \in InCall /\ call[t] = "unlock" =>
        owner[wants[t]] = t /\ wants[t] \notin holds[t]

StoreIsSafe ==
    \A t \in AppTasks :
        /\ pc[t] = "strex" /\ call[t] # "unlock"
        /\ monitor /\ gyros.current = t
        => owner[wants[t]] = NoTask

LockInv == LockTypes /\ HoldersOwn /\ CallersWant /\ UnlockersOwn /\ StoreIsSafe

-----------------------------------------------------------------------------
(* Only a context switch changes the current task.                         *)

SameCurrent(k, n) ==
    "current" \in DOMAIN k => "current" \in DOMAIN n /\ n.current = k.current

LEMMA SuspendSameCurrent ==
    ASSUME NEW k, NEW t
    PROVE  SameCurrent(k, gyros__task_suspend(k, t))
    BY DEF SameCurrent, gyros__task_suspend, UnlinkMain

LEMMA MoveSameCurrent ==
    ASSUME NEW k, NEW t, NEW l
    PROVE  SameCurrent(k, gyros__task_move(k, t, l))
<1>1. SameCurrent(k, UnlinkMain(k, t))
    BY DEF SameCurrent, UnlinkMain
<1>2. ASSUME NEW n PROVE SameCurrent(n, add_task_to_list(n, t, l))
    BY DEF SameCurrent, add_task_to_list
<1> QED
    BY <1>1, <1>2 DEF SameCurrent, gyros__task_move

LEMMA RemoveTimeoutSameCurrent ==
    ASSUME NEW k, NEW t
    PROVE  SameCurrent(k, RemoveTimeout(k, t))
    BY DEF SameCurrent, RemoveTimeout

LEMMA WakeSameCurrent ==
    ASSUME NEW k, NEW t
    PROVE  SameCurrent(k, gyros__task_wake(k, t))
    BY MoveSameCurrent, RemoveTimeoutSameCurrent DEF SameCurrent, gyros__task_wake

LEMMA RescheduleSameCurrent ==
    ASSUME NEW k
    PROVE  SameCurrent(k, gyros__reschedule(k)) /\ SameCurrent(k, gyros__cond_reschedule(k))
    BY DEF SameCurrent, gyros__reschedule, gyros__cond_reschedule

LEMMA SetPrioritySameCurrent ==
    ASSUME NEW k, NEW t, NEW p
    PROVE  SameCurrent(k, gyros__set_priority(k, t, p))
<1> DEFINE n == [k EXCEPT !.priority[t] = p]
<1>1. SameCurrent(k, n)
    BY DEF SameCurrent
<1>2. SameCurrent(n, gyros__task_move(n, t, n.main_list[t]))
    BY MoveSameCurrent
<1> QED
    BY <1>1, <1>2 DEF SameCurrent, gyros__set_priority

LEMMA UnlockSameCurrent ==
    ASSUME NEW k, NEW m, NEW reschedule
    PROVE  SameCurrent(k, UnlockSlow(k, m, reschedule))
<1> DEFINE t == k.current
           n == [k EXCEPT !.priority[t] = k.base_priority[t]]
           d == Disinherit(k)
           w == gyros__task_wake(d, Head(d.lists[m]))
<1>1. SameCurrent(k, n)
    BY DEF SameCurrent
<1>2. SameCurrent(n, gyros__task_move(n, t, k.main_list[t]))
    BY MoveSameCurrent
<1>3. SameCurrent(k, d)
    BY <1>1, <1>2 DEF SameCurrent, Disinherit
<1>4. SameCurrent(d, w)
    BY WakeSameCurrent
<1>5. SameCurrent(w, gyros__cond_reschedule(w))
    BY RescheduleSameCurrent
<1>6. UnlockSlow(k, m, reschedule) \in {d, w, gyros__cond_reschedule(w)}
    BY DEF UnlockSlow
<1> HIDE DEF d, w
<1> QED
    BY <1>3, <1>4, <1>5, <1>6 DEF SameCurrent

LEMMA LockSameCurrent ==
    ASSUME NEW k, NEW m, NEW t
    PROVE  SameCurrent(k, gyros__reschedule(Inherit(gyros__task_move(k, t, m), m)))
<1> DEFINE n == gyros__task_move(k, t, m)
           i == Inherit(n, m)
<1>1. SameCurrent(k, n)
    BY MoveSameCurrent
<1>2. SameCurrent(n, i)
    BY SetPrioritySameCurrent DEF Inherit, SameCurrent
<1>3. SameCurrent(i, gyros__reschedule(i))
    BY RescheduleSameCurrent
<1>4. SameCurrent(k, gyros__reschedule(i))
  <2> HIDE DEF n, i
  <2> QED
      BY <1>1, <1>2, <1>3 DEF SameCurrent
<1> QED
    BY <1>4

-----------------------------------------------------------------------------
(* Every step keeps the invariant.                                         *)

\* The kernel state is the only thing that changes, and not the current task.
OnlyKernel ==
    /\ SameCurrent(gyros, gyros')
    /\ UNCHANGED <<owner, call, wants, holds>>
    /\ monitor' \in BOOLEAN /\ (monitor' => monitor)

LEMMA OnlyKernelInv ==
    ASSUME LockInv, OnlyKernel, NEW t, NEW where,
           \/ UNCHANGED pc
           \/ /\ where \in Outside
              /\ pc' = [pc EXCEPT ![t] = where]
    PROVE  LockInv'
<1>1. LockTypes'
    BY DEF LockInv, LockTypes, OnlyKernel, SameCurrent
<1>2. \A u \in AppTasks : pc'[u] \in InCall => pc'[u] = pc[u]
    BY DEF LockInv, LockTypes, InCall, Outside, AppTasks
<1>3. HoldersOwn' /\ CallersWant' /\ UnlockersOwn'
    BY <1>2 DEF LockInv, HoldersOwn, CallersWant, UnlockersOwn, OnlyKernel
<1>4. gyros'.current = gyros.current
    BY DEF OnlyKernel, SameCurrent, LockInv, LockTypes
<1>5. StoreIsSafe'
    BY <1>2, <1>4 DEF LockInv, StoreIsSafe, OnlyKernel, InCall, Outside
<1> QED
    BY <1>1, <1>3, <1>5 DEF LockInv

\* A task calls a mutex function.
LEMMA EnterInv ==
    ASSUME LockInv, NEW t \in AppTasks, NEW m \in Mutexes,
           NEW function \in {"try_lock", "lock", "unlock"},
           Enter(t, function, m),
           IF function = "unlock"
           THEN m \in holds[t] /\ holds' = [holds EXCEPT ![t] = @ \ {m}]
           ELSE m \notin holds[t] /\ UNCHANGED holds,
           UNCHANGED <<gyros, owner, monitor>>
    PROVE  LockInv'
<1>1. /\ pc' = [pc EXCEPT ![t] = pc'[t]] /\ pc'[t] \in {"ldrex", "slow"}
      /\ call' = [call EXCEPT ![t] = function]
      /\ wants' = [wants EXCEPT ![t] = m]
    BY DEF Enter, Goto, LockInv, LockTypes, AppTasks
<1>2. holds' \in [Tasks -> SUBSET Mutexes]
    BY DEF LockInv, LockTypes
<1>3. LockTypes'
    BY <1>1, <1>2 DEF LockInv, LockTypes, InCall, Outside, AppTasks
<1>4. \A u \in AppTasks : holds'[u] \subseteq holds[u]
    BY DEF LockInv, LockTypes, AppTasks
<1>5. HoldersOwn'
    BY <1>4 DEF LockInv, HoldersOwn
<1>6. CallersWant'
  <2>1. m \notin holds'[t]
      BY DEF LockInv, LockTypes, AppTasks
  <2> QED
      BY <1>1, <1>4, <2>1 DEF LockInv, LockTypes, CallersWant, AppTasks
<1>7. UnlockersOwn'
  <2>1. ASSUME NEW u \in AppTasks, pc'[u] \in InCall, call'[u] = "unlock"
        PROVE  owner'[wants'[u]] = u /\ wants'[u] \notin holds'[u]
    <3>1. CASE u = t
      <4>1. function = "unlock" /\ wants'[u] = m
          BY <1>1, <2>1, <3>1 DEF LockInv, LockTypes, AppTasks
      <4>2. owner[m] = t /\ m \notin holds'[t]
          BY <4>1 DEF LockInv, LockTypes, HoldersOwn, AppTasks
      <4> QED
          BY <3>1, <4>1, <4>2
    <3>2. CASE u # t
      <4>1. pc[u] = pc'[u] /\ call[u] = call'[u] /\ wants[u] = wants'[u]
          BY <1>1, <3>2 DEF LockInv, LockTypes, AppTasks
      <4> QED
          BY <1>4, <2>1, <4>1 DEF LockInv, UnlockersOwn
    <3> QED
        BY <3>1, <3>2
  <2> QED
      BY <2>1 DEF UnlockersOwn
<1>8. StoreIsSafe'
    BY <1>1 DEF LockInv, LockTypes, StoreIsSafe, AppTasks
<1> QED
    BY <1>3, <1>5, <1>6, <1>7, <1>8 DEF LockInv

\* A task moves from one place in the mutex code to another one.
LEMMA PlaceInv ==
    ASSUME LockInv, NEW t \in AppTasks, NEW where \in InCall,
           Executing(t), pc[t] \in InCall, Goto(t, where),
           UNCHANGED <<gyros, owner, call, wants, holds>>,
           monitor' \in BOOLEAN,
           where = "strex" /\ call[t] # "unlock" /\ monitor' => owner[wants[t]] = NoTask
    PROVE  LockInv'
<1>1. pc' = [pc EXCEPT ![t] = where]
    BY DEF Goto
<1>2. LockTypes'
    BY <1>1 DEF LockInv, LockTypes, AppTasks
<1>3. \A u \in AppTasks : u # t => pc'[u] = pc[u]
    BY <1>1 DEF LockInv, LockTypes, AppTasks
<1>4. HoldersOwn' /\ CallersWant' /\ UnlockersOwn'
    BY <1>3 DEF LockInv, HoldersOwn, CallersWant, UnlockersOwn
<1>5. StoreIsSafe'
  <2>1. pc'[t] = where
      BY <1>1 DEF LockInv, LockTypes, AppTasks
  <2>2. \A u \in AppTasks : gyros'.current = u => u = t
      BY DEF Executing
  <2> QED
      BY <2>1, <2>2 DEF StoreIsSafe
<1> QED
    BY <1>2, <1>4, <1>5 DEF LockInv

\* A mutex function returns; if it changes the owner of the mutex, it either
\* takes a free one or gives up its own.
LEMMA LeaveInv ==
    ASSUME LockInv, NEW t \in AppTasks, NEW locked \in SUBSET Mutexes,
           Executing(t), pc[t] \in InCall, Leave(t, locked),
           SameCurrent(gyros, gyros'), monitor' \in BOOLEAN,
           \/ locked = {} /\ UNCHANGED owner
           \/ /\ locked = {} /\ call[t] = "unlock"
              /\ owner' = [owner EXCEPT ![wants[t]] = NoTask]
           \/ /\ locked = {wants[t]} /\ owner[wants[t]] = NoTask
              /\ owner' = [owner EXCEPT ![wants[t]] = t]
    PROVE  LockInv'
<1> DEFINE m == wants[t]
<1>1. m \in Mutexes /\ NoTask \notin AppTasks /\ t \in Tasks
    BY KernelAssumption DEF LockInv, CallersWant, AppTasks
<1>2. /\ pc' = [pc EXCEPT ![t] = "task"]
      /\ call' = [call EXCEPT ![t] = "none"]
      /\ wants' = [wants EXCEPT ![t] = NoMutex]
      /\ holds' = [holds EXCEPT ![t] = @ \cup locked]
    BY DEF Leave, Goto
<1>3. owner' \in [Mutexes -> AppTasks \cup {NoTask}]
    BY <1>1 DEF LockInv, LockTypes
<1>4. LockTypes'
    BY <1>2, <1>3 DEF LockInv, LockTypes, SameCurrent, Outside
<1>5. \A u \in AppTasks : u # t =>
          /\ pc'[u] = pc[u] /\ call'[u] = call[u]
          /\ wants'[u] = wants[u] /\ holds'[u] = holds[u]
    BY <1>2 DEF LockInv, LockTypes, AppTasks
<1>6. pc'[t] = "task" /\ holds'[t] = holds[t] \cup locked
    BY <1>1, <1>2 DEF LockInv, LockTypes
<1>7. \A n \in Mutexes : n # m => owner'[n] = owner[n]
    BY <1>1 DEF LockInv, LockTypes
<1>8. \A u \in AppTasks : u # t /\ owner[m] = u => owner'[m] = u
    BY <1>1 DEF LockInv, LockTypes, UnlockersOwn
<1>9. HoldersOwn'
  <2>1. ASSUME NEW u \in AppTasks, NEW n \in Mutexes, n \in holds'[u]
        PROVE  owner'[n] = u
    <3>1. CASE u # t
        BY <1>5, <1>7, <1>8, <2>1, <3>1 DEF LockInv, HoldersOwn
    <3>2. CASE u = t /\ n \in locked
        BY <1>1, <3>2 DEF LockInv, LockTypes
    <3>3. CASE u = t /\ n \notin locked
      <4>1. n \in holds[t] /\ owner[n] = t
          BY <1>6, <2>1, <3>3 DEF LockInv, HoldersOwn
      <4>2. n = m => UNCHANGED owner
          BY <1>1, <4>1 DEF LockInv, UnlockersOwn
      <4> QED
          BY <1>7, <3>3, <4>1, <4>2
    <3> QED
        BY <3>1, <3>2, <3>3
  <2>2. \A u \in AppTasks : holds'[u] \subseteq Mutexes
      BY <1>4 DEF LockTypes, AppTasks
  <2> QED
      BY <2>1, <2>2 DEF HoldersOwn
<1>10. CallersWant'
    BY <1>5, <1>6 DEF LockInv, CallersWant, InCall, Outside
<1>11. UnlockersOwn'
  <2>1. ASSUME NEW u \in AppTasks, pc'[u] \in InCall, call'[u] = "unlock"
        PROVE  owner'[wants'[u]] = u /\ wants'[u] \notin holds'[u]
    <3>1. u # t
        BY <1>6, <2>1 DEF InCall, Outside
    <3>2. wants[u] \in Mutexes /\ owner[wants[u]] = u /\ wants[u] \notin holds[u]
        BY <1>5, <2>1, <3>1 DEF LockInv, CallersWant, UnlockersOwn
    <3> QED
        BY <1>5, <1>7, <1>8, <3>1, <3>2
  <2> QED
      BY <2>1 DEF UnlockersOwn
<1>12. StoreIsSafe'
  <2>1. \A u \in AppTasks : gyros'.current = u => u = t
      BY DEF Executing, SameCurrent, LockInv, LockTypes
  <2> QED
      BY <1>6, <2>1 DEF StoreIsSafe
<1> QED
    BY <1>4, <1>9, <1>10, <1>11, <1>12 DEF LockInv

LEMMA StepInv ==
    ASSUME LockInv, NEW t \in AppTasks, MutexStep(t)
    PROVE  LockInv'
<1> DEFINE m == wants[t]
<1>0. /\ t \in Tasks /\ monitor \in BOOLEAN
      /\ call[t] \in {"none", "try_lock", "lock", "unlock"}
    BY DEF AppTasks, LockInv, LockTypes
<1>1. CASE gyros_ldrex_p(t)
  <2> DEFINE where == IF IF call[t] = "unlock" THEN Waiters(m) = {} ELSE owner[m] = NoTask
                      THEN "strex" ELSE "slow"
  <2>1. /\ Executing(t) /\ pc[t] \in InCall /\ Goto(t, where) /\ monitor' \in BOOLEAN
        /\ UNCHANGED <<gyros, owner, call, wants, holds>>
      BY <1>1 DEF gyros_ldrex_p, Continues, InCall, Outside
  <2>2. where \in InCall
      BY DEF InCall, Outside
  <2>3. where = "strex" /\ call[t] # "unlock" => owner[m] = NoTask
      OBVIOUS
  <2> HIDE DEF where
  <2> QED
      BY <2>1, <2>2, <2>3, PlaceInv
<1>2. CASE gyros_strex_p(t)
  <2>1. Executing(t) /\ pc[t] \in InCall /\ monitor' \in BOOLEAN /\ UNCHANGED gyros
      BY <1>2 DEF gyros_strex_p, Continues, InCall, Outside
  <2>2. CASE monitor
    <3>1. Store(t)
        BY <1>2, <2>2 DEF gyros_strex_p
    <3>2. CASE call[t] = "unlock"
        BY <2>1, <3>1, <3>2, LeaveInv DEF Store, SameCurrent
    <3>3. CASE call[t] # "unlock"
      <4>1. owner[m] = NoTask /\ m \in Mutexes
          BY <1>2, <2>1, <2>2, <3>3
             DEF LockInv, StoreIsSafe, CallersWant, gyros_strex_p, Continues, Executing
      <4> QED
          BY <2>1, <3>1, <3>3, <4>1, LeaveInv DEF Store, SameCurrent
    <3> QED
        BY <3>2, <3>3
  <2>3. CASE ~monitor
    <3>1. Goto(t, "ldrex") /\ UNCHANGED <<owner, call, wants, holds>>
        BY <1>2, <2>3 DEF gyros_strex_p
    <3> QED
        BY <2>1, <3>1, PlaceInv DEF InCall, Outside
  <2> QED
      BY <2>2, <2>3
<1>3. CASE gyros__mutex_try_lock_slow(t)
  <2>1. Executing(t) /\ pc[t] \in InCall /\ monitor' \in BOOLEAN /\ UNCHANGED gyros
      BY <1>0, <1>3 DEF gyros__mutex_try_lock_slow, Inside, Continues, InCall, Outside
  <2>2. m \in Mutexes
      BY <2>1 DEF LockInv, CallersWant
  <2>3. CASE owner[m] = NoTask
      BY <1>3, <2>1, <2>2, <2>3, LeaveInv DEF gyros__mutex_try_lock_slow, SameCurrent
  <2>4. CASE owner[m] # NoTask
      BY <1>3, <2>1, <2>4, LeaveInv DEF gyros__mutex_try_lock_slow, SameCurrent
  <2> QED
      BY <2>3, <2>4
<1>4. CASE gyros__mutex_lock_slow(t)
  <2>1. Executing(t) /\ pc[t] \in InCall /\ UNCHANGED monitor
      BY <1>4 DEF gyros__mutex_lock_slow, Inside, Continues, InCall, Outside
  <2>2. m \in Mutexes
      BY <2>1 DEF LockInv, CallersWant
  <2>3. CASE owner[m] = NoTask
      BY <1>0, <1>4, <2>1, <2>2, <2>3, LeaveInv DEF gyros__mutex_lock_slow, SameCurrent
  <2>4. CASE owner[m] # NoTask
    <3>1. /\ gyros' = gyros__reschedule(Inherit(gyros__task_move(gyros, t, m), m))
          /\ UNCHANGED <<pc, owner, call, wants, holds>>
        BY <1>4, <2>4 DEF gyros__mutex_lock_slow
    <3>2. OnlyKernel
        BY <1>0, <2>1, <3>1, LockSameCurrent DEF OnlyKernel
    <3> QED
        BY <3>1, <3>2, OnlyKernelInv
  <2> QED
      BY <2>3, <2>4
<1>5. CASE gyros__mutex_unlock_slow(t)
  <2>1. /\ Executing(t) /\ pc[t] \in InCall /\ UNCHANGED monitor
        /\ call[t] = "unlock" /\ Leave(t, {})
        /\ owner' = [owner EXCEPT ![m] = NoTask]
        /\ gyros' = UnlockSlow(gyros, m, TRUE)
      BY <1>5 DEF gyros__mutex_unlock_slow, Inside, Continues, InCall, Outside
  <2>2. SameCurrent(gyros, gyros')
      BY <2>1, UnlockSameCurrent
  <2> QED
      BY <1>0, <2>1, <2>2, LeaveInv
<1> QED
    BY <1>1, <1>2, <1>3, <1>4, <1>5 DEF MutexStep

LEMMA SurroundingsInv ==
    ASSUME LockInv, NEW t \in AppTasks,
           \/ MutexRest(t)
           \/ MutexResume(t)
           \/ \E p \in NewPriorities : gyros_task_set_priority(t, p)
    PROVE  LockInv'
<1>0. monitor \in BOOLEAN
    BY DEF LockInv, LockTypes
<1>1. CASE MutexRest(t)
  <2>1. /\ gyros' = gyros__reschedule(RemoveTimeout(gyros__task_suspend(gyros, t), t))
        /\ UNCHANGED mutexVars /\ pc' = [pc EXCEPT ![t] = "rest"]
      BY <1>1 DEF MutexRest, Rest, Goto
  <2>2. SameCurrent(gyros, gyros')
      BY <2>1, SuspendSameCurrent, RemoveTimeoutSameCurrent, RescheduleSameCurrent
         DEF SameCurrent
  <2>3. OnlyKernel
      BY <1>0, <2>1, <2>2 DEF OnlyKernel, mutexVars
  <2> QED
      BY <2>1, <2>3, OnlyKernelInv DEF Outside
<1>2. CASE MutexResume(t)
  <2>1. /\ gyros' = gyros__cond_reschedule(gyros__task_move(gyros, t, Running))
        /\ monitor' = FALSE /\ UNCHANGED <<owner, call, wants, holds>>
        /\ pc' = [pc EXCEPT ![t] = "task"]
      BY <1>2 DEF MutexResume, Resume, Goto
  <2>2. SameCurrent(gyros, gyros')
      BY <2>1, MoveSameCurrent, RescheduleSameCurrent DEF SameCurrent
  <2>3. OnlyKernel
      BY <2>1, <2>2 DEF OnlyKernel
  <2> QED
      BY <2>1, <2>3, OnlyKernelInv DEF Outside
<1>3. ASSUME NEW p \in NewPriorities, gyros_task_set_priority(t, p)
      PROVE  LockInv'
  <2> DEFINE based == [gyros EXCEPT !.base_priority[t] = p]
  <2>1. /\ gyros' \in {based, gyros__cond_reschedule(gyros__set_priority(based, t, p))}
        /\ monitor' = FALSE /\ UNCHANGED <<pc, owner, call, wants, holds>>
      BY <1>3 DEF gyros_task_set_priority
  <2>2. SameCurrent(gyros, based)
      BY DEF SameCurrent
  <2>3. SameCurrent(gyros, gyros')
    <3> HIDE DEF based
    <3> QED
        BY <2>1, <2>2, SetPrioritySameCurrent, RescheduleSameCurrent DEF SameCurrent
  <2>4. OnlyKernel
      BY <2>1, <2>3 DEF OnlyKernel
  <2> QED
      BY <2>1, <2>4, OnlyKernelInv
<1> QED
    BY <1>1, <1>2, <1>3

\* After a switch the monitor is clear, so no pending store can succeed.
LEMMA SwitchInv ==
    ASSUME LockInv, MutexSwitch
    PROVE  LockInv'
<1>1. /\ gyros' = [gyros EXCEPT !.current = Head(gyros.lists[Running]), !.pendsv = FALSE]
      /\ monitor' = FALSE /\ UNCHANGED <<pc, owner, call, wants, holds>>
    BY DEF MutexSwitch, ContextSwitch, PendSV_Handler
<1>2. LockTypes'
    BY <1>1 DEF LockInv, LockTypes
<1>3. StoreIsSafe'
    BY <1>1 DEF StoreIsSafe
<1> QED
    BY <1>1, <1>2, <1>3 DEF LockInv, HoldersOwn, CallersWant, UnlockersOwn

LEMMA LockInvInit == MutexInit => LockInv
<1> SUFFICES ASSUME MutexInit PROVE LockInv
    OBVIOUS
<1>1. "current" \in DOMAIN gyros
    BY DEF MutexInit, Started, KernelInit
<1>2. LockTypes
    BY <1>1 DEF MutexInit, LockTypes, Outside
<1> QED
    BY <1>2 DEF MutexInit, LockInv, HoldersOwn, CallersWant, UnlockersOwn, StoreIsSafe,
                InCall, Outside, AppTasks

LEMMA LockInvNext == LockInv /\ [MutexNext]_vars => LockInv'
<1> SUFFICES ASSUME LockInv, [MutexNext]_vars PROVE LockInv'
    OBVIOUS
<1>1. CASE MutexSwitch
    BY <1>1, SwitchInv
<1>2. CASE Interrupt
    BY <1>2 DEF Interrupt, LockInv, LockTypes, HoldersOwn, CallersWant, UnlockersOwn, StoreIsSafe
<1>3. ASSUME NEW t \in AppTasks, NEW m \in Mutexes,
             \/ gyros_mutex_try_lock(t, m)
             \/ gyros_mutex_lock(t, m)
             \/ gyros_mutex_unlock(t, m)
      PROVE  LockInv'
    BY <1>3, EnterInv DEF gyros_mutex_try_lock, gyros_mutex_lock, gyros_mutex_unlock
<1>4. ASSUME NEW t \in AppTasks, MutexStep(t)
      PROVE  LockInv'
    BY <1>4, StepInv
<1>5. ASSUME NEW t \in AppTasks,
             \/ MutexRest(t)
             \/ MutexResume(t)
             \/ \E p \in NewPriorities : gyros_task_set_priority(t, p)
      PROVE  LockInv'
    BY <1>5, SurroundingsInv
<1>6. CASE UNCHANGED vars
    BY <1>6 DEF vars, mutexVars, LockInv, LockTypes, HoldersOwn, CallersWant,
                UnlockersOwn, StoreIsSafe
<1> QED
    BY <1>1, <1>2, <1>3, <1>4, <1>5, <1>6, Zenon DEF MutexNext

\* Who holds a mutex owns it, and a store that can succeed finds it free.
THEOREM LockInvHolds == Spec => []LockInv
    BY LockInvInit, LockInvNext, PTL DEF Spec

\* No two tasks have locked the same mutex.
THEOREM MutexesExclude == Spec => []MutualExclusion
<1>1. LockInv => MutualExclusion
    BY DEF LockInv, LockTypes, HoldersOwn, MutualExclusion, AppTasks
<1> QED
    BY <1>1, LockInvHolds, PTL

-----------------------------------------------------------------------------
(* What the slow functions do to the kernel state.                         *)

USE KernelAssumption, MutexAssumption

NoTimeouts(k) == Elements(k.timeouts) = {}

\* The part of a lock that blocks: t waits for m, and o, the owner of m, has
\* at least its priority.
BlockedBehind(k, n, t, m, o) ==
    /\ ScheduleOK(n) /\ NoTimeouts(n) /\ n.pendsv
    /\ n.current = k.current /\ n.base_priority = k.base_priority
    /\ n.main_list = [k.main_list EXCEPT ![t] = m]
    /\ \A x \in Tasks \ {o} : n.priority[x] = k.priority[x]
    /\ n.priority[o] >= k.priority[o] /\ n.priority[o] >= k.priority[t]
    /\ n.priority[o] # k.priority[o] => k.priority[o] < k.priority[t]

LEMMA LockSound ==
    ASSUME NEW k, Sound(k), NoTimeouts(k), NEW t \in AppTasks, k.current = t,
           NEW m \in Mutexes, owner[m] \in Tasks
    PROVE  BlockedBehind(k, gyros__reschedule(Inherit(gyros__task_move(k, t, m), m)),
                         t, m, owner[m])
<1> DEFINE o == owner[m]
           a == gyros__task_move(k, t, m)
           b == Inherit(a, m)
           n == gyros__reschedule(b)
<1>1. Moved(k, a, t, m) /\ a.timeouts = k.timeouts
  <2>1. t \in Tasks /\ t # Idle /\ m \in Objects /\ m # Running
      BY ListNames
  <2> QED
      BY <2>1, MoveSound
<1> HIDE DEF a
<1>2. /\ Sound(a) /\ a.current = t /\ a.priority = k.priority
      /\ a.base_priority = k.base_priority
      /\ a.main_list = [k.main_list EXCEPT ![t] = m]
    BY <1>1 DEF Moved, SameTasks
<1>3. \A x \in Tasks : a.priority[x] \in Nat /\ a.priority[x] \in Priorities \cup {0}
    BY <1>2, Priorities0 DEF Sound
<1>4. /\ Sound(b) /\ b.main_list = a.main_list /\ b.timeouts = a.timeouts
      /\ b.current = t /\ b.base_priority = a.base_priority
      /\ \A x \in Tasks \ {o} : b.priority[x] = a.priority[x]
      /\ b.priority[o] >= a.priority[o] /\ b.priority[o] >= a.priority[t]
      /\ b.priority[o] # a.priority[o] => a.priority[o] < a.priority[t]
  <2>1. t \in Tasks /\ o \in Tasks
      BY ListNames
  <2>2. CASE a.priority[o] < a.priority[t]
    <3>1. b = gyros__set_priority(a, o, a.priority[t])
        BY <1>2, <2>2 DEF Inherit
    <3> DEFINE q == a.priority[t]
    <3>2. q \in Priorities \cup {0} /\ Sound(a)
        BY <1>2, <1>3, <2>1
    <3> HIDE DEF q, b, o
    <3>4. LET c == gyros__set_priority(a, o, q)
          IN  /\ Sound(c)
              /\ c.main_list = a.main_list /\ c.timeouts = a.timeouts
              /\ c.current = a.current /\ c.pendsv = a.pendsv
              /\ c.base_priority = a.base_priority
              /\ c.priority[o] = q
              /\ \A x \in Tasks \ {o} : c.priority[x] = a.priority[x]
        BY <2>1, <3>2, SetPrioritySound
    <3>3. /\ Sound(b) /\ b.main_list = a.main_list /\ b.timeouts = a.timeouts
          /\ b.current = a.current /\ b.base_priority = a.base_priority
          /\ b.priority[o] = a.priority[t]
          /\ \A x \in Tasks \ {o} : b.priority[x] = a.priority[x]
        BY <3>1, <3>4 DEF q
    <3> QED
        BY <1>2, <1>3, <2>1, <2>2, <3>3
  <2>3. CASE ~(a.priority[o] < a.priority[t])
    <3>1. b = a
        BY <1>2, <2>3 DEF Inherit
    <3> QED
        BY <1>2, <1>3, <2>1, <2>3, <3>1
  <2> QED
      BY <2>2, <2>3
<1> HIDE DEF b
<1>5. Scheduled(b, n) /\ n.pendsv
    BY <1>4, RescheduleSound
<1> HIDE DEF n
<1>6. BlockedBehind(k, n, t, m, o)
    BY <1>1, <1>2, <1>4, <1>5 DEF BlockedBehind, Scheduled, SameTasks, NoTimeouts
<1> QED
    BY <1>6 DEF n, b, a

\* The task that waits for m and has the highest priority is woken, if there
\* is one, and t has its own priority.
Released(k, n, t, m) ==
    /\ Sound(n) /\ NoTimeouts(n)
    /\ n.current = k.current /\ n.base_priority = k.base_priority
    /\ n.priority[t] = k.base_priority[t]
    /\ \A x \in Tasks \ {t} : n.priority[x] = k.priority[x]
    /\ \/ /\ n.main_list = k.main_list
          /\ \A x \in Tasks : k.main_list[x] # m
       \/ \E u \in Tasks :
              /\ k.main_list[u] = m
              /\ n.main_list = [k.main_list EXCEPT ![u] = Running]
              /\ \A x \in Tasks : k.main_list[x] = m => k.priority[x] <= k.priority[u]

LEMMA DisinheritSound ==
    ASSUME NEW k, Sound(k), k.main_list[k.current] = Running
    PROVE  LET n == Disinherit(k)
               t == k.current
           IN  /\ Sound(n) /\ n.timeouts = k.timeouts
               /\ n.main_list = k.main_list
               /\ n.current = k.current /\ n.base_priority = k.base_priority
               /\ n.priority[t] = k.base_priority[t]
               /\ \A x \in Tasks \ {t} : n.priority[x] = k.priority[x]
               /\ n = k \/ k.priority[t] # k.base_priority[t]
<1> DEFINE t == k.current
           p == k.base_priority[t]
<1>1. t \in Tasks /\ p \in Priorities \cup {0}
    BY Priorities0 DEF Sound
<1>2. CASE k.priority[t] = p
    BY <1>2 DEF Disinherit
<1>3. CASE k.priority[t] # p
  <2>1. [k EXCEPT !.priority[t] = p].main_list[t] = Running
      BY DEF Sound, KernelOK, KernelStates
  <2>2. Running # NoList
      OBVIOUS
  <2>3. Disinherit(k) = gyros__set_priority(k, t, p)
      BY <1>3, <2>1, <2>2 DEF Disinherit, gyros__set_priority
  <2> HIDE DEF p
  <2>4. LET n == gyros__set_priority(k, t, p)
        IN  /\ Sound(n)
            /\ n.main_list = k.main_list /\ n.timeouts = k.timeouts
            /\ n.current = k.current /\ n.pendsv = k.pendsv
            /\ n.base_priority = k.base_priority
            /\ n.priority[t] = p
            /\ \A x \in Tasks \ {t} : n.priority[x] = k.priority[x]
      BY <1>1, SetPrioritySound
  <2> QED
      BY <1>3, <2>3, <2>4 DEF p
<1> QED
    BY <1>2, <1>3

LEMMA UnlockSound ==
    ASSUME NEW k, Sound(k), NoTimeouts(k), k.main_list[k.current] = Running,
           NEW m \in Mutexes
    PROVE  /\ Released(k, UnlockSlow(k, m, TRUE), k.current, m)
           /\ \/ ScheduleOK(UnlockSlow(k, m, TRUE))
              \/ /\ \A x \in Tasks : k.main_list[x] # m
                 /\ \/ k.priority[k.current] # k.base_priority[k.current]
                    \/ UnlockSlow(k, m, TRUE) = k
<1> DEFINE t == k.current
           d == Disinherit(k)
           u == Head(d.lists[m])
           w == gyros__task_wake(d, u)
           n == gyros__cond_reschedule(w)
<1>1. /\ Sound(d) /\ d.timeouts = k.timeouts /\ d.main_list = k.main_list
      /\ d.current = t /\ d.base_priority = k.base_priority
      /\ d.priority[t] = k.base_priority[t]
      /\ \A x \in Tasks \ {t} : d.priority[x] = k.priority[x]
      /\ d = k \/ k.priority[t] # k.base_priority[t]
    BY DisinheritSound
<1>2. UnlockSlow(k, m, TRUE) = IF d.lists[m] = <<>> THEN d ELSE n
    BY DEF UnlockSlow
<1> HIDE DEF d
<1>3. KernelOK(d) /\ m \in ListIds /\ m # Running
    BY <1>1, ListNames DEF Sound
<1>4. Elements(d.lists[m]) = {x \in Tasks : k.main_list[x] = m}
    BY <1>1, <1>3, WaitersAre
<1>5. CASE d.lists[m] = <<>>
  <2>1. Elements(d.lists[m]) = {}
      BY <1>5 DEF Elements, ToSet
  <2>2. \A x \in Tasks : k.main_list[x] # m
      BY <1>4, <2>1
  <2> QED
      BY <1>1, <1>2, <1>5, <2>2 DEF Released, NoTimeouts
<1>6. CASE d.lists[m] # <<>>
  <2>1. /\ u \in Tasks /\ d.main_list[u] = m
        /\ \A x \in Tasks : d.main_list[x] = m => d.priority[x] <= d.priority[u]
      BY <1>3, <1>6, FirstIsHighest
  <2>2. \A x \in Tasks : k.main_list[x] = m => x # t /\ d.priority[x] = k.priority[x]
      BY <1>1, <1>3
  <2> HIDE DEF u
  <2>3. /\ Moved(d, w, u, Running)
        /\ Elements(w.timeouts) = Elements(d.timeouts) \ {u}
      BY <1>1, <2>1, WakeSound
  <2> HIDE DEF w
  <2>4. Scheduled(w, n)
      BY <2>3, RescheduleSound DEF Moved
  <2> HIDE DEF n
  <2>5. /\ n.main_list = [k.main_list EXCEPT ![u] = Running]
        /\ n.priority = d.priority /\ n.base_priority = k.base_priority
        /\ n.current = t /\ Sound(n) /\ ScheduleOK(n)
      BY <1>1, <2>3, <2>4 DEF Moved, Scheduled, ScheduleOK, SameTasks
  <2>6. NoTimeouts(n)
      BY <1>1, <2>3, <2>4 DEF NoTimeouts, Scheduled
  <2>7. k.main_list[u] = m /\ \A x \in Tasks : k.main_list[x] = m => k.priority[x] <= k.priority[u]
      BY <1>1, <2>1, <2>2
  <2>8. Released(k, n, t, m)
      BY <1>1, <2>1, <2>5, <2>6, <2>7 DEF Released
  <2> QED
      BY <1>2, <1>6, <2>5, <2>8
<1> QED
    BY <1>5, <1>6

-----------------------------------------------------------------------------
(* No lost wake-up, and priorities that are given back.  The tasks in the  *)
(* list of a mutex are in the loop of gyros__mutex_lock_slow; UnlockSafe   *)
(* is to the fast unlock what StoreIsSafe is to the fast lock.             *)

CurrentRuns == gyros.pendsv \/ Runs(gyros.current)

WaitersLock ==
    \A t \in AppTasks : gyros.main_list[t] \in Mutexes =>
        pc[t] = "slow" /\ call[t] = "lock" /\ wants[t] = gyros.main_list[t]

UnlockSafe ==
    \A t \in AppTasks :
        /\ pc[t] = "strex" /\ call[t] = "unlock"
        /\ monitor /\ gyros.current = t
        => Waiters(wants[t]) = {}

\* Whoever has another priority than its own owns a mutex that is waited for.
InheritsForWaiter ==
    \A t \in AppTasks : gyros.priority[t] # gyros.base_priority[t] =>
        \E m \in Mutexes : owner[m] = t /\ Waiters(m) # {}

WaitInv ==
    /\ Sound(gyros) /\ NoTimeouts(gyros) /\ CurrentRuns
    /\ WaitersLock /\ UnlockSafe /\ NoLostWakeup /\ InheritsForWaiter

\* t is where it was.
Stays(t) == pc'[t] = pc[t] /\ call'[t] = call[t] /\ wants'[t] = wants[t]

LEMMA MutexNames ==
    /\ Mutexes \subseteq ListIds /\ Mutexes \subseteq Objects
    /\ Running \notin Mutexes /\ NoList \notin Mutexes
    /\ AppTasks \subseteq Tasks /\ Idle \notin AppTasks /\ Idle \in Tasks
    /\ NoTask \notin Tasks /\ NoTask \notin AppTasks
    BY ListNames

LEMMA MutexWaiters ==
    ASSUME NEW k, Sound(k), NEW m \in Mutexes
    PROVE  /\ Elements(k.lists[m]) = {t \in Tasks : k.main_list[t] = m}
           /\ Elements(k.lists[m]) \subseteq AppTasks
<1>1. Elements(k.lists[m]) = {t \in Tasks : k.main_list[t] = m}
    BY WaitersAre, MutexNames DEF Sound
<1>2. k.main_list[Idle] # m
    BY MutexNames DEF Sound
<1> QED
    BY <1>1, <1>2 DEF AppTasks

\* A task that executes is runnable.
LEMMA ExecutingRuns ==
    ASSUME WaitInv, NEW t \in AppTasks, Executing(t)
    PROVE  /\ gyros.main_list[t] = Running /\ gyros.current = t /\ t \in Tasks
           /\ \A m \in Mutexes : gyros.main_list[t] # m
    BY MutexNames DEF WaitInv, CurrentRuns, Runs, Executing

\* A step of t that leaves the kernel state alone, and the owner of every
\* mutex that is waited for; t has not been woken for one that stays free.
LEMMA SameKernelWait ==
    ASSUME WaitInv, NEW t \in AppTasks, Executing(t), UNCHANGED gyros,
           \A u \in AppTasks \ {t} : Stays(u),
           pc'[t] = "strex" /\ call'[t] = "unlock" /\ monitor' => Waiters(wants'[t]) = {},
           \A m \in Mutexes : Waiters(m) # {} /\ owner[m] # NoTask => owner'[m] = owner[m],
           \A m \in Mutexes : owner[m] = NoTask /\ owner'[m] = NoTask => ~Woken(t, m)
    PROVE  WaitInv'
<1>1. \A m \in Mutexes : Waiters(m)' = Waiters(m)
    BY DEF Waiters
<1>2. Sound(gyros)' /\ NoTimeouts(gyros)' /\ CurrentRuns'
    BY DEF WaitInv, CurrentRuns, Runs
<1>3. WaitersLock'
    BY ExecutingRuns DEF WaitInv, WaitersLock, Stays
<1>4. UnlockSafe'
    BY DEF UnlockSafe, Executing, Waiters
<1>5. NoLostWakeup'
  <2> SUFFICES ASSUME NEW m \in Mutexes, owner'[m] = NoTask, Waiters(m) # {}
               PROVE  \E u \in AppTasks : Woken(u, m)'
      BY <1>1 DEF NoLostWakeup
  <2>1. owner[m] = NoTask
      OBVIOUS
  <2>2. PICK u \in AppTasks : Woken(u, m)
      BY <2>1 DEF WaitInv, NoLostWakeup
  <2>3. u # t
      BY <2>1, <2>2
  <2> QED
      BY <2>2, <2>3 DEF Woken, Stays, Runs
<1>6. InheritsForWaiter'
  <2> SUFFICES ASSUME NEW u \in AppTasks, gyros.priority[u] # gyros.base_priority[u]
               PROVE  \E m \in Mutexes : owner'[m] = u /\ Waiters(m) # {}
      BY <1>1 DEF InheritsForWaiter
  <2>1. PICK m \in Mutexes : owner[m] = u /\ Waiters(m) # {}
      BY DEF WaitInv, InheritsForWaiter
  <2> QED
      BY <2>1, MutexNames
<1> QED
    BY <1>2, <1>3, <1>4, <1>5, <1>6 DEF WaitInv

\* A mutex function returns without a kernel operation.
LEMMA LeaveWait ==
    ASSUME LockInv, WaitInv, NEW t \in AppTasks, NEW locked,
           Executing(t), pc[t] \in InCall, Leave(t, locked), UNCHANGED gyros,
           \/ UNCHANGED owner /\ call[t] # "lock"
           \/ /\ Waiters(wants[t]) = {} /\ call[t] = "unlock"
              /\ owner' = [owner EXCEPT ![wants[t]] = NoTask]
           \/ /\ owner[wants[t]] = NoTask
              /\ owner' = [owner EXCEPT ![wants[t]] = t]
    PROVE  WaitInv'
<1> DEFINE m == wants[t]
<1>1. m \in Mutexes /\ t # NoTask /\ t \in Tasks
    BY MutexNames DEF LockInv, CallersWant
<1>2. /\ \A u \in AppTasks \ {t} : Stays(u)
      /\ pc'[t] = "task"
    BY <1>1, MutexNames DEF Leave, Goto, Stays, LockInv, LockTypes
<1>3. \A n \in Mutexes : n # m => owner'[n] = owner[n]
    BY <1>1 DEF LockInv, LockTypes
<1>4. owner'[m] = t \/ call[t] # "lock"
    BY <1>1 DEF LockInv, LockTypes
<1>5. \A n \in Mutexes : Waiters(n) # {} /\ owner[n] # NoTask => owner'[n] = owner[n]
    BY <1>1, <1>3
<1>6. \A n \in Mutexes : Woken(t, n) => n = m /\ call[t] = "lock"
    BY DEF Woken
<1>7. \A n \in Mutexes : owner[n] = NoTask /\ owner'[n] = NoTask => ~Woken(t, n)
    BY <1>1, <1>4, <1>6
<1> QED
    BY <1>2, <1>5, <1>7, SameKernelWait

LEMMA EnterWait ==
    ASSUME LockInv, WaitInv, NEW t \in AppTasks, NEW m \in Mutexes, NEW function,
           Calls(t), Enter(t, function, m), UNCHANGED <<gyros, owner>>
    PROVE  WaitInv'
<1>1. Executing(t) /\ t \in Tasks /\ \A n \in Mutexes : ~Woken(t, n)
    BY MutexNames DEF Calls, Woken
<1>2. /\ \A u \in AppTasks \ {t} : Stays(u)
      /\ pc'[t] # "strex"
    BY <1>1, MutexNames DEF Enter, Goto, Stays, LockInv, LockTypes
<1> QED
    BY <1>1, <1>2, SameKernelWait

\* The load of the fast path finds what it expects or not.
LEMMA LoadWait ==
    ASSUME LockInv, WaitInv, NEW t \in AppTasks, gyros_ldrex_p(t)
    PROVE  WaitInv'
<1>1. /\ Executing(t) /\ t \in Tasks /\ \A n \in Mutexes : ~Woken(t, n)
      /\ UNCHANGED <<gyros, owner, call, wants>>
    BY MutexNames DEF gyros_ldrex_p, Continues, Woken
<1>2. \E where : pc' = [pc EXCEPT ![t] = where]
    BY DEF gyros_ldrex_p, Goto
<1>3. \A u \in AppTasks \ {t} : Stays(u)
    BY <1>1, <1>2, MutexNames DEF Stays, LockInv, LockTypes
<1>4. pc'[t] = "strex" /\ call'[t] = "unlock" => Waiters(wants'[t]) = {}
    BY <1>1 DEF gyros_ldrex_p, Goto, LockInv, LockTypes
<1> QED
    BY <1>1, <1>3, <1>4, SameKernelWait

LEMMA StoreWait ==
    ASSUME LockInv, WaitInv, NEW t \in AppTasks, gyros_strex_p(t)
    PROVE  WaitInv'
<1> DEFINE m == wants[t]
<1>1. Executing(t) /\ pc[t] = "strex" /\ pc[t] \in InCall /\ t \in Tasks /\ UNCHANGED gyros
    BY MutexNames DEF gyros_strex_p, Continues, InCall
<1>2. CASE monitor
  <2>1. Store(t) /\ gyros.current = t
      BY <1>1, <1>2 DEF gyros_strex_p, Executing
  <2>2. CASE call[t] = "unlock"
    <3>1. Waiters(m) = {}
        BY <1>1, <1>2, <2>1, <2>2 DEF WaitInv, UnlockSafe
    <3>2. Leave(t, {}) /\ owner' = [owner EXCEPT ![m] = NoTask]
        BY <2>1, <2>2 DEF Store
    <3> QED
        BY <1>1, <2>2, <3>1, <3>2, LeaveWait
  <2>3. CASE call[t] # "unlock"
    <3>1. owner[m] = NoTask
        BY <1>1, <1>2, <2>1, <2>3 DEF LockInv, StoreIsSafe
    <3>2. Leave(t, {m}) /\ owner' = [owner EXCEPT ![m] = t]
        BY <2>1, <2>3 DEF Store
    <3> QED
        BY <1>1, <3>1, <3>2, LeaveWait
  <2> QED
      BY <2>2, <2>3
<1>3. CASE ~monitor
  <2>1. pc' = [pc EXCEPT ![t] = "ldrex"] /\ UNCHANGED <<owner, call, wants>>
      BY <1>3 DEF gyros_strex_p, Goto
  <2>2. pc'[t] = "ldrex" /\ \A u \in AppTasks \ {t} : Stays(u)
      BY <1>1, <2>1, MutexNames DEF Stays, LockInv, LockTypes
  <2>3. \A n \in Mutexes : ~Woken(t, n)
      BY <1>1 DEF Woken
  <2> QED
      BY <1>1, <2>1, <2>2, <2>3, SameKernelWait
<1> QED
    BY <1>2, <1>3 DEF LockInv, LockTypes

LEMMA TryLockWait ==
    ASSUME LockInv, WaitInv, NEW t \in AppTasks, gyros__mutex_try_lock_slow(t)
    PROVE  WaitInv'
<1>1. /\ Executing(t) /\ pc[t] \in InCall /\ call[t] = "try_lock" /\ UNCHANGED gyros
      /\ \/ /\ owner[wants[t]] = NoTask
            /\ owner' = [owner EXCEPT ![wants[t]] = t] /\ Leave(t, {wants[t]})
         \/ UNCHANGED owner /\ Leave(t, {})
    BY DEF gyros__mutex_try_lock_slow, Inside, Continues, InCall
<1> QED
    BY <1>1, LeaveWait

-----------------------------------------------------------------------------
(* The steps that change the kernel state.                                 *)

LEMMA LockWait ==
    ASSUME LockInv, WaitInv, NEW t \in AppTasks, gyros__mutex_lock_slow(t)
    PROVE  WaitInv'
<1> DEFINE m == wants[t]
           o == owner[m]
<1>1. /\ Executing(t) /\ pc[t] \in InCall /\ pc[t] = "slow" /\ call[t] = "lock"
      /\ gyros.current = t /\ gyros.main_list[t] = Running
    BY ExecutingRuns DEF gyros__mutex_lock_slow, Inside, Continues, InCall
<1>2. m \in Mutexes /\ t \in Tasks
    BY <1>1, MutexNames DEF LockInv, CallersWant
<1>3. CASE o = NoTask
  <2>1. Leave(t, {m}) /\ owner' = [owner EXCEPT ![m] = t] /\ UNCHANGED gyros
      BY <1>3 DEF gyros__mutex_lock_slow
  <2> QED
      BY <1>1, <1>3, <2>1, LeaveWait
<1>4. CASE o # NoTask
  <2>1. o \in AppTasks /\ o \in Tasks
      BY <1>2, <1>4, MutexNames DEF LockInv, LockTypes
  <2>2. /\ gyros' = gyros__reschedule(Inherit(gyros__task_move(gyros, t, m), m))
        /\ UNCHANGED <<pc, owner, call, wants, monitor>>
      BY <1>4 DEF gyros__mutex_lock_slow
  <2>3. BlockedBehind(gyros, gyros', t, m, o)
      BY <1>1, <1>2, <2>1, <2>2, LockSound DEF WaitInv
  <2> HIDE DEF m, o
  <2>4. /\ Sound(gyros') /\ NoTimeouts(gyros') /\ gyros'.pendsv
        /\ gyros'.current = t /\ gyros'.base_priority = gyros.base_priority
        /\ \A x \in Tasks \ {o} : gyros'.priority[x] = gyros.priority[x]
      BY <1>1, <2>3 DEF BlockedBehind, ScheduleOK
  <2>5. gyros'.main_list[t] = m /\ \A x \in Tasks \ {t} : gyros'.main_list[x] = gyros.main_list[x]
      BY <1>2, <2>3 DEF BlockedBehind, WaitInv, Sound, KernelOK, KernelStates
  <2>6. \A n \in Mutexes : /\ Waiters(n) = {x \in Tasks : gyros.main_list[x] = n}
                           /\ Waiters(n)' = {x \in Tasks : gyros'.main_list[x] = n}
      BY <2>4, MutexWaiters DEF WaitInv, Waiters
  <2>7. ASSUME NEW n \in Mutexes, n # m PROVE Waiters(n)' = Waiters(n)
    <3>1. \A x \in Tasks : gyros'.main_list[x] = n <=> gyros.main_list[x] = n
        BY <1>1, <2>5, <2>7, MutexNames
    <3> QED
        BY <2>6, <3>1
  <2>8. \A n \in Mutexes : n = m => t \in Waiters(n)'
      BY <1>2, <2>5, <2>6
  <2>9. CurrentRuns'
      BY <2>4 DEF CurrentRuns
  <2>10. WaitersLock'
    <3> SUFFICES ASSUME NEW u \in AppTasks, gyros'.main_list[u] \in Mutexes
                 PROVE  pc[u] = "slow" /\ call[u] = "lock" /\ wants[u] = gyros'.main_list[u]
        BY <2>2 DEF WaitersLock
    <3>1. CASE u = t
        BY <1>1, <2>5, <3>1 DEF m
    <3>2. CASE u # t
      <4>1. gyros.main_list[u] = gyros'.main_list[u]
          BY <2>5, <3>2, MutexNames
      <4> QED
          BY <4>1 DEF WaitInv, WaitersLock
    <3> QED
        BY <3>1, <3>2
  <2>11. UnlockSafe'
      BY <1>1, <2>2, <2>4 DEF UnlockSafe
  <2>12. NoLostWakeup'
    <3> SUFFICES ASSUME NEW n \in Mutexes, owner[n] = NoTask, Waiters(n)' # {}
                 PROVE  \E u \in AppTasks : Woken(u, n)'
        BY <2>2 DEF NoLostWakeup
    <3>1. n # m /\ Waiters(n) # {}
        BY <1>4, <2>7 DEF o
    <3>2. PICK u \in AppTasks : Woken(u, n)
        BY <3>1 DEF WaitInv, NoLostWakeup
    <3>3. u # t /\ u \in Tasks
        BY <3>1, <3>2, MutexNames DEF Woken, m
    <3> QED
        BY <2>2, <2>5, <3>2, <3>3 DEF Woken, Runs
  <2>13. InheritsForWaiter'
    <3> SUFFICES ASSUME NEW u \in AppTasks, gyros'.priority[u] # gyros'.base_priority[u]
                 PROVE  \E n \in Mutexes : owner[n] = u /\ Waiters(n)' # {}
        BY <2>2 DEF InheritsForWaiter
    <3>1. CASE u = o
        BY <1>2, <2>8, <3>1 DEF o
    <3>2. CASE u # o
      <4>1. gyros.priority[u] # gyros.base_priority[u]
          BY <2>4, <3>2, MutexNames
      <4>2. PICK n \in Mutexes : owner[n] = u /\ Waiters(n) # {}
          BY <4>1 DEF WaitInv, InheritsForWaiter
      <4> QED
          BY <2>7, <2>8, <4>2
    <3> QED
        BY <3>1, <3>2
  <2> QED
      BY <2>4, <2>9, <2>10, <2>11, <2>12, <2>13 DEF WaitInv
<1> QED
    BY <1>3, <1>4

LEMMA UnlockWait ==
    ASSUME LockInv, WaitInv, NEW t \in AppTasks, gyros__mutex_unlock_slow(t)
    PROVE  WaitInv'
<1> DEFINE m == wants[t]
<1>1. /\ Executing(t) /\ pc[t] \in InCall /\ call[t] = "unlock"
      /\ gyros.current = t /\ gyros.main_list[t] = Running
      /\ \A n \in Mutexes : ~Woken(t, n)
    BY ExecutingRuns DEF gyros__mutex_unlock_slow, Inside, Continues, InCall, Woken
<1>2. m \in Mutexes /\ t \in Tasks /\ owner[m] = t
    BY <1>1, MutexNames DEF LockInv, CallersWant, UnlockersOwn
<1>3. /\ gyros' = UnlockSlow(gyros, m, TRUE)
      /\ owner' = [owner EXCEPT ![m] = NoTask]
      /\ pc' = [pc EXCEPT ![t] = "task"]
      /\ \A u \in AppTasks \ {t} : Stays(u)
    BY <1>2, MutexNames DEF gyros__mutex_unlock_slow, Leave, Goto, Stays, LockInv, LockTypes
<1>4. Released(gyros, gyros', t, m)
    BY <1>1, <1>2, <1>3, UnlockSound DEF WaitInv
<1>5. /\ owner'[m] = NoTask /\ \A n \in Mutexes : n # m => owner'[n] = owner[n]
      /\ pc'[t] = "task"
    BY <1>2, <1>3 DEF LockInv, LockTypes
<1> HIDE DEF m
<1>6. /\ Sound(gyros') /\ NoTimeouts(gyros')
      /\ gyros'.current = t /\ gyros'.base_priority = gyros.base_priority
      /\ gyros'.priority[t] = gyros'.base_priority[t]
      /\ \A x \in Tasks \ {t} : gyros'.priority[x] = gyros.priority[x]
    BY <1>1, <1>4 DEF Released
<1>7. \A n \in Mutexes : /\ Waiters(n) = {x \in Tasks : gyros.main_list[x] = n}
                         /\ Waiters(n)' = {x \in Tasks : gyros'.main_list[x] = n}
    BY <1>6, MutexWaiters DEF WaitInv, Waiters
<1>8. \A x \in Tasks : gyros'.main_list[x] = gyros.main_list[x]
                       \/ (gyros.main_list[x] = m /\ gyros'.main_list[x] = Running)
  <2>1. gyros.main_list \in [Tasks -> ListIds \cup {NoList}]
      BY DEF WaitInv, Sound, KernelOK, KernelStates
  <2>2. \/ gyros'.main_list = gyros.main_list
        \/ \E u \in Tasks : /\ gyros.main_list[u] = m
                            /\ gyros'.main_list = [gyros.main_list EXCEPT ![u] = Running]
      BY <1>4 DEF Released
  <2> QED
      BY <2>1, <2>2
<1>9. ASSUME NEW n \in Mutexes, n # m PROVE Waiters(n)' = Waiters(n)
  <2>1. \A x \in Tasks : gyros'.main_list[x] = n <=> gyros.main_list[x] = n
      BY <1>8, <1>9, MutexNames
  <2> QED
      BY <1>7, <2>1
<1>10. CurrentRuns'
    BY <1>1, <1>2, <1>6, <1>8 DEF CurrentRuns, Runs
<1>11. WaitersLock'
  <2> SUFFICES ASSUME NEW u \in AppTasks, gyros'.main_list[u] \in Mutexes
               PROVE  pc'[u] = "slow" /\ call'[u] = "lock" /\ wants'[u] = gyros'.main_list[u]
      BY DEF WaitersLock
  <2>1. gyros'.main_list[u] = gyros.main_list[u] /\ u # t
      BY <1>1, <1>8, MutexNames
  <2> QED
      BY <1>3, <2>1 DEF WaitInv, WaitersLock, Stays
<1>12. UnlockSafe'
    BY <1>5, <1>6 DEF UnlockSafe
<1>13. NoLostWakeup'
  <2> SUFFICES ASSUME NEW n \in Mutexes, owner'[n] = NoTask, Waiters(n)' # {}
               PROVE  \E u \in AppTasks : Woken(u, n)'
      BY DEF NoLostWakeup
  <2>1. CASE n # m
    <3>1. PICK u \in AppTasks : Woken(u, n)
        BY <1>5, <1>9, <2>1 DEF WaitInv, NoLostWakeup
    <3>2. u # t /\ u \in Tasks /\ gyros.main_list[u] = Running
        BY <1>1, <3>1, MutexNames DEF Woken, Runs
    <3> QED
        BY <1>2, <1>3, <1>8, <3>1, <3>2, MutexNames DEF Woken, Runs, Stays
  <2>2. CASE n = m
    <3>1. PICK x \in Tasks : gyros'.main_list[x] = m
        BY <1>7, <2>2
    <3>2. gyros.main_list[x] = m
        BY <1>2, <1>8, <3>1, MutexNames
    <3>3. PICK u \in Tasks : /\ gyros.main_list[u] = m
                             /\ gyros'.main_list = [gyros.main_list EXCEPT ![u] = Running]
        BY <1>4, <3>2 DEF Released
    <3>4. gyros'.main_list[u] = Running
        BY <3>3 DEF WaitInv, Sound, KernelOK, KernelStates
    <3>5. u \in AppTasks /\ u # t
        BY <1>1, <1>2, <3>3, MutexNames DEF AppTasks, WaitInv, Sound
    <3>6. pc[u] = "slow" /\ call[u] = "lock" /\ wants[u] = m
        BY <1>2, <3>3, <3>5 DEF WaitInv, WaitersLock
    <3> QED
        BY <1>3, <2>2, <3>4, <3>5, <3>6 DEF Woken, Runs, Stays
  <2> QED
      BY <2>1, <2>2
<1>14. InheritsForWaiter'
  <2> SUFFICES ASSUME NEW u \in AppTasks, gyros'.priority[u] # gyros'.base_priority[u]
               PROVE  \E n \in Mutexes : owner'[n] = u /\ Waiters(n)' # {}
      BY DEF InheritsForWaiter
  <2>1. u # t /\ gyros.priority[u] # gyros.base_priority[u]
      BY <1>6, MutexNames
  <2>2. PICK n \in Mutexes : owner[n] = u /\ Waiters(n) # {}
      BY <2>1 DEF WaitInv, InheritsForWaiter
  <2>3. n # m
      BY <1>2, <2>1, <2>2
  <2> QED
      BY <1>5, <1>9, <2>2, <2>3
<1> QED
    BY <1>6, <1>10, <1>11, <1>12, <1>13, <1>14 DEF WaitInv

\* What the surroundings do with t: no owner changes, and nobody is taken to a
\* mutex or away from one.
Around(t) ==
    /\ Sound(gyros') /\ NoTimeouts(gyros') /\ CurrentRuns'
    /\ ScheduleOK(gyros) => ScheduleOK(gyros')
    /\ gyros'.current = gyros.current
    /\ \A u \in AppTasks \ {t} : pc'[u] = pc[u]
    /\ (pc[t] \notin InCall /\ pc'[t] \notin InCall) \/ pc'[t] = pc[t]
    /\ UNCHANGED <<owner, call, wants, holds>> /\ (monitor' => monitor)
    /\ \A x \in Tasks : \/ gyros'.main_list[x] = gyros.main_list[x]
                        \/ /\ gyros.main_list[x] \notin Mutexes
                           /\ gyros'.main_list[x] \notin Mutexes
                           /\ x = t /\ pc[t] \notin InCall
    /\ \A x \in Tasks :
           \/ gyros'.priority[x] = gyros.priority[x]
           \/ x = t /\ (PriorityOfUsers \/ (holds[t] = {} /\ call[t] = "none"))
    /\ \A x \in AppTasks : gyros'.priority[x] # gyros'.base_priority[x] =>
           /\ gyros.priority[x] # gyros.base_priority[x]
           /\ gyros'.base_priority[x] = gyros.base_priority[x]
    /\ \A x \in AppTasks : \/ gyros'.base_priority[x] = gyros.base_priority[x]
                           \/ gyros'.base_priority[x] \in {BasePriority[x]} \cup NewPriorities
    /\ \A x \in AppTasks : pc'[x] = "finished" =>
           pc[x] = "finished" /\ gyros'.main_list[x] = gyros.main_list[x]

LEMMA AroundWait ==
    ASSUME LockInv, WaitInv, NEW t \in AppTasks, Around(t)
    PROVE  WaitInv'
<1>0. /\ Sound(gyros') /\ NoTimeouts(gyros') /\ CurrentRuns'
      /\ gyros'.current = gyros.current
      /\ \A u \in AppTasks \ {t} : Stays(u)
      /\ (pc[t] \notin InCall /\ pc'[t] \notin InCall) \/ Stays(t)
      /\ UNCHANGED owner /\ (monitor' => monitor)
      /\ \A x \in Tasks : \/ gyros'.main_list[x] = gyros.main_list[x]
                          \/ /\ gyros.main_list[x] \notin Mutexes
                             /\ gyros'.main_list[x] \notin Mutexes
                             /\ x = t /\ pc[t] \notin InCall
      /\ \A x \in AppTasks : gyros'.priority[x] # gyros'.base_priority[x] =>
             gyros.priority[x] # gyros.base_priority[x]
    BY DEF Around, Stays
<1>1. \A n \in Mutexes : /\ Waiters(n) = {x \in Tasks : gyros.main_list[x] = n}
                         /\ Waiters(n)' = {x \in Tasks : gyros'.main_list[x] = n}
    BY <1>0, MutexWaiters DEF WaitInv, Waiters
<1>2. ASSUME NEW n \in Mutexes PROVE Waiters(n)' = Waiters(n)
  <2>1. \A x \in Tasks : gyros'.main_list[x] = n <=> gyros.main_list[x] = n
      BY <1>0
  <2>2. {x \in Tasks : gyros'.main_list[x] = n} = {x \in Tasks : gyros.main_list[x] = n}
      BY ONLY <2>1, Zenon
  <2> QED
      BY ONLY <1>1, <2>2, n \in Mutexes, Zenon
<1>3. \A u \in AppTasks : pc[u] \in InCall \/ pc'[u] \in InCall =>
          Stays(u) /\ gyros'.main_list[u] = gyros.main_list[u]
    BY <1>0, MutexNames DEF Stays
<1>4. WaitersLock'
  <2> SUFFICES ASSUME NEW u \in AppTasks, gyros'.main_list[u] \in Mutexes
               PROVE  pc'[u] = "slow" /\ call'[u] = "lock" /\ wants'[u] = gyros'.main_list[u]
      BY DEF WaitersLock
  <2>1. gyros'.main_list[u] = gyros.main_list[u]
      BY <1>0, MutexNames
  <2>2. pc[u] = "slow" /\ call[u] = "lock" /\ wants[u] = gyros.main_list[u]
      BY <2>1 DEF WaitInv, WaitersLock
  <2> QED
      BY <1>3, <2>1, <2>2 DEF InCall, Stays
<1>5. UnlockSafe'
  <2> SUFFICES ASSUME NEW u \in AppTasks, pc'[u] = "strex", call'[u] = "unlock",
                      monitor', gyros'.current = u
               PROVE  Waiters(wants[u])' = {} /\ wants'[u] = wants[u]
      BY DEF UnlockSafe
  <2>1. Stays(u)
      BY <1>3 DEF InCall
  <2>2. Waiters(wants[u]) = {} /\ wants[u] \in Mutexes
      BY <1>0, <2>1 DEF WaitInv, UnlockSafe, Stays, LockInv, CallersWant, InCall
  <2>3. \A n \in Mutexes : Waiters(n) = {} => Waiters(n)' = {}
      BY <1>2
  <2> QED
      BY <1>0, <2>1, <2>2, <2>3 DEF Stays
<1>6. NoLostWakeup'
  <2> SUFFICES ASSUME NEW n \in Mutexes, owner[n] = NoTask, Waiters(n) # {}
               PROVE  \E u \in AppTasks : Woken(u, n)'
      BY <1>0, <1>2 DEF NoLostWakeup
  <2>1. PICK u \in AppTasks : Woken(u, n)
      BY DEF WaitInv, NoLostWakeup
  <2> QED
      BY <1>3, <2>1 DEF Woken, Runs, Stays, InCall
<1>7. InheritsForWaiter'
    BY <1>0, <1>2 DEF WaitInv, InheritsForWaiter
<1> QED
    BY <1>0, <1>4, <1>5, <1>6, <1>7 DEF WaitInv

LEMMA RestAround ==
    ASSUME LockInv, WaitInv, NEW t \in AppTasks, MutexRest(t)
    PROVE  Around(t)
<1> DEFINE a == RemoveTimeout(gyros__task_suspend(gyros, t), t)
<1>1. /\ Executing(t) /\ pc[t] = "task" /\ t \in Tasks
      /\ gyros.current = t /\ gyros.main_list[t] = Running
    BY ExecutingRuns DEF MutexRest, Rest, Calls
<1>2. /\ gyros' = gyros__reschedule(a) /\ pc' = [pc EXCEPT ![t] = "rest"]
      /\ UNCHANGED <<owner, call, wants, holds, monitor>>
    BY DEF MutexRest, Rest, Goto, mutexVars
<1>3. Moved(gyros, a, t, NoList) /\ Elements(a.timeouts) = Elements(gyros.timeouts) \ {t}
    BY SuspendSound DEF WaitInv
<1> HIDE DEF a
<1>4. Scheduled(a, gyros') /\ gyros'.pendsv
    BY <1>2, <1>3, RescheduleSound DEF Moved
<1>5. /\ Sound(gyros') /\ NoTimeouts(gyros') /\ gyros'.current = gyros.current
      /\ gyros'.main_list = [gyros.main_list EXCEPT ![t] = NoList]
      /\ gyros'.priority = gyros.priority /\ gyros'.base_priority = gyros.base_priority
    BY <1>3, <1>4 DEF Moved, Scheduled, ScheduleOK, SameTasks, NoTimeouts, WaitInv
<1>6. CurrentRuns'
    BY <1>4 DEF CurrentRuns
<1>7. /\ pc[t] \notin InCall /\ pc'[t] \notin InCall
      /\ \A u \in AppTasks \ {t} : Stays(u)
    BY <1>1, <1>2, MutexNames DEF LockInv, LockTypes, InCall, Stays
<1>8. /\ gyros'.main_list[t] = NoList
      /\ \A x \in Tasks \ {t} : gyros'.main_list[x] = gyros.main_list[x]
    BY <1>1, <1>5 DEF WaitInv, Sound, KernelOK, KernelStates
<1>9. pc'[t] # "finished"
    BY <1>1, <1>2 DEF LockInv, LockTypes
<1> QED
    BY <1>1, <1>2, <1>4, <1>5, <1>6, <1>7, <1>8, <1>9, MutexNames
       DEF Around, Scheduled, Stays, mutexVars

LEMMA ResumeAround ==
    ASSUME LockInv, WaitInv, NEW t \in AppTasks, MutexResume(t)
    PROVE  Around(t)
<1> DEFINE a == gyros__task_move(gyros, t, Running)
<1>1. /\ gyros' = gyros__cond_reschedule(a) /\ pc' = [pc EXCEPT ![t] = "task"]
      /\ UNCHANGED <<owner, call, wants, holds>> /\ ~monitor'
      /\ pc[t] = "rest" /\ t \in Tasks
    BY MutexNames DEF MutexResume, Resume, Goto
<1>2. Moved(gyros, a, t, Running) /\ a.timeouts = gyros.timeouts /\ a.pendsv = gyros.pendsv
    BY <1>1, MoveSound DEF WaitInv, NoTimeouts
<1> HIDE DEF a
<1>3. Scheduled(a, gyros')
    BY <1>1, <1>2, RescheduleSound DEF Moved
<1>4. /\ Sound(gyros') /\ NoTimeouts(gyros') /\ gyros'.current = gyros.current
      /\ gyros'.main_list = [gyros.main_list EXCEPT ![t] = Running]
      /\ gyros'.priority = gyros.priority /\ gyros'.base_priority = gyros.base_priority
      /\ gyros.pendsv => gyros'.pendsv
    BY <1>2, <1>3 DEF Moved, Scheduled, ScheduleOK, SameTasks, NoTimeouts, WaitInv
<1>5. /\ gyros'.main_list[t] = Running
      /\ \A x \in Tasks \ {t} : gyros'.main_list[x] = gyros.main_list[x]
    BY <1>1, <1>4 DEF WaitInv, Sound, KernelOK, KernelStates
<1>6. CurrentRuns'
    BY <1>4, <1>5 DEF WaitInv, Sound, CurrentRuns, Runs
<1>7. /\ pc[t] \notin InCall /\ pc'[t] \notin InCall
      /\ \A u \in AppTasks \ {t} : Stays(u)
    BY <1>1, MutexNames DEF LockInv, LockTypes, InCall, Stays
<1>8. gyros.main_list[t] \notin Mutexes
    BY <1>1 DEF WaitInv, WaitersLock
<1>9. pc'[t] # "finished"
    BY <1>1 DEF LockInv, LockTypes
<1> QED
    BY <1>1, <1>3, <1>4, <1>5, <1>6, <1>7, <1>8, <1>9, MutexNames DEF Around, Scheduled, Stays

LEMMA SetPriorityAround ==
    ASSUME LockInv, WaitInv, NEW t \in AppTasks, NEW p \in NewPriorities,
           gyros_task_set_priority(t, p)
    PROVE  Around(t)
<1> DEFINE a == [gyros EXCEPT !.base_priority[t] = p]
           b == gyros__set_priority(a, t, p)
<1>1. /\ gyros' = IF gyros.priority[t] = p THEN a ELSE gyros__cond_reschedule(b)
      /\ UNCHANGED <<pc, owner, call, wants, holds>> /\ ~monitor'
      /\ t \in Tasks /\ p \in Priorities \cup {0}
    BY MutexNames DEF gyros_task_set_priority
<1>2. /\ Sound(a) /\ a.timeouts = gyros.timeouts /\ a.main_list = gyros.main_list
      /\ a.current = gyros.current /\ a.pendsv = gyros.pendsv
      /\ a.priority = gyros.priority /\ a.lists = gyros.lists
      /\ a.base_priority = [gyros.base_priority EXCEPT ![t] = p]
  <2>1. /\ a \in KernelStates
        /\ a.timeouts = gyros.timeouts /\ a.main_list = gyros.main_list
        /\ a.lists = gyros.lists
        /\ a.current = gyros.current /\ a.pendsv = gyros.pendsv
        /\ a.priority = gyros.priority
        /\ a.base_priority = [gyros.base_priority EXCEPT ![t] = p]
      BY <1>1 DEF WaitInv, Sound, KernelOK, KernelStates
  <2> HIDE DEF a
  <2>2. KernelOK(a)
      BY <2>1 DEF WaitInv, Sound, KernelOK, ListsOK, LinkedRight
  <2> QED
      BY <2>1, <2>2 DEF WaitInv, Sound
<1> HIDE DEF a
<1>3. LET c == gyros__set_priority(a, t, p)
      IN  /\ Sound(c)
          /\ c.main_list = a.main_list /\ c.timeouts = a.timeouts
          /\ c.current = a.current /\ c.pendsv = a.pendsv
          /\ c.base_priority = a.base_priority
          /\ c.priority[t] = p
          /\ \A x \in Tasks \ {t} : c.priority[x] = a.priority[x]
  <2>1. Sound(a) /\ t \in Tasks /\ p \in Priorities \cup {0}
      BY <1>1, <1>2
  <2> QED
      BY <2>1, SetPrioritySound
<1>4. /\ Sound(b) /\ b.main_list = a.main_list /\ b.timeouts = a.timeouts
      /\ b.current = a.current /\ b.pendsv = a.pendsv
      /\ b.base_priority = a.base_priority
      /\ b.priority[t] = p
      /\ \A x \in Tasks \ {t} : b.priority[x] = a.priority[x]
    BY <1>3
<1> HIDE DEF b
<1>5. Scheduled(b, gyros__cond_reschedule(b))
    BY <1>4, RescheduleSound
<1>6. /\ Sound(gyros') /\ NoTimeouts(gyros') /\ gyros'.current = gyros.current
      /\ gyros'.main_list = gyros.main_list
      /\ gyros'.base_priority = a.base_priority
      /\ gyros'.priority[t] = p
      /\ \A x \in Tasks \ {t} : gyros'.priority[x] = gyros.priority[x]
      /\ gyros.pendsv => gyros'.pendsv
    BY <1>1, <1>2, <1>4, <1>5 DEF Scheduled, ScheduleOK, SameTasks, NoTimeouts, WaitInv
<1>7. /\ gyros'.base_priority[t] = p
      /\ \A x \in Tasks \ {t} : gyros'.base_priority[x] = gyros.base_priority[x]
    BY <1>1, <1>2, <1>6 DEF WaitInv, Sound, KernelOK, KernelStates
<1>8. CurrentRuns'
    BY <1>6 DEF WaitInv, CurrentRuns, Runs
<1>9. \A x \in AppTasks : gyros'.priority[x] # gyros'.base_priority[x] =>
          /\ gyros.priority[x] # gyros.base_priority[x]
          /\ gyros'.base_priority[x] = gyros.base_priority[x]
    BY <1>6, <1>7, MutexNames
<1>10. \A x \in AppTasks : gyros'.base_priority[x] \in {gyros.base_priority[x]} \cup NewPriorities
    BY <1>7, MutexNames
<1>11. ScheduleOK(gyros) => ScheduleOK(gyros')
  <2>1. CASE gyros' = a
      BY <1>2, <2>1 DEF ScheduleOK
  <2>2. CASE gyros' = gyros__cond_reschedule(b)
      BY <1>5, <2>2 DEF Scheduled
  <2> QED
      BY <1>1, <2>1, <2>2
<1>12. PriorityOfUsers \/ (holds[t] = {} /\ call[t] = "none")
    BY DEF gyros_task_set_priority
<1> QED
    BY <1>1, <1>6, <1>8, <1>9, <1>10, <1>11, <1>12, MutexNames DEF Around

LEMMA SwitchWait ==
    ASSUME WaitInv, MutexSwitch
    PROVE  WaitInv'
<1>1. /\ gyros' = PendSV_Handler(gyros) /\ ~monitor'
      /\ UNCHANGED <<pc, owner, call, wants>>
    BY DEF MutexSwitch, ContextSwitch
<1>2. /\ Sound(gyros') /\ gyros'.timeouts = gyros.timeouts
      /\ gyros'.main_list = gyros.main_list /\ gyros'.lists = gyros.lists
      /\ gyros'.priority = gyros.priority /\ gyros'.base_priority = gyros.base_priority
      /\ ScheduleOK(gyros') /\ ~gyros'.pendsv
  <2>1. gyros' = [gyros EXCEPT !.current = Head(gyros.lists[Running]), !.pendsv = FALSE]
      BY <1>1, SwitchSound DEF WaitInv
  <2>2. ~gyros'.pendsv
      BY <2>1 DEF WaitInv, Sound, KernelOK, KernelStates
  <2> QED
      BY <1>1, <2>2, SwitchSound DEF WaitInv, ScheduleOK
<1>3. CurrentRuns'
    BY <1>2, CurrentIsHighest DEF CurrentRuns, Runs
<1>4. \A n : Waiters(n)' = Waiters(n)
    BY <1>2 DEF Waiters
<1>5. WaitersLock' /\ UnlockSafe' /\ InheritsForWaiter'
    BY <1>1, <1>2, <1>4 DEF WaitInv, WaitersLock, UnlockSafe, InheritsForWaiter
<1>6. NoLostWakeup'
    BY <1>1, <1>2, <1>4 DEF WaitInv, NoLostWakeup, Woken, Runs
<1> QED
    BY <1>2, <1>3, <1>5, <1>6 DEF WaitInv, NoTimeouts

LEMMA WaitInvInit == MutexInit => WaitInv
<1> SUFFICES ASSUME MutexInit PROVE WaitInv
    OBVIOUS
<1>1. /\ ScheduleOK(gyros)
      /\ gyros.main_list = [t \in Tasks |-> Running]
      /\ gyros.priority = BasePriority /\ gyros.base_priority = BasePriority
      /\ gyros.timeouts = <<>>
    BY StartedSound DEF MutexInit
<1>2. Sound(gyros) /\ NoTimeouts(gyros)
    BY <1>1 DEF ScheduleOK, NoTimeouts, Elements, ToSet
<1>3. CurrentRuns
    BY <1>1 DEF CurrentRuns, Runs, ScheduleOK, Sound
<1>4. \A t \in AppTasks : gyros.main_list[t] = Running
    BY <1>1, MutexNames
<1>5. WaitersLock
    BY <1>4, MutexNames DEF WaitersLock
<1>6. \A m \in Mutexes : Waiters(m) = {}
    BY <1>1, <1>2, MutexWaiters, MutexNames DEF Waiters
<1>7. UnlockSafe /\ NoLostWakeup
    BY <1>6, MutexNames DEF UnlockSafe, NoLostWakeup, MutexInit
<1>8. InheritsForWaiter
    BY <1>1 DEF InheritsForWaiter
<1> QED
    BY <1>2, <1>3, <1>5, <1>7, <1>8 DEF WaitInv

LEMMA WaitInvNext == LockInv /\ WaitInv /\ [MutexNext]_vars => WaitInv'
<1> SUFFICES ASSUME LockInv, WaitInv, [MutexNext]_vars PROVE WaitInv'
    OBVIOUS
<1>1. CASE MutexSwitch
    BY <1>1, SwitchWait
<1>2. CASE Interrupt \/ UNCHANGED vars
  <2>1. UNCHANGED <<gyros, pc, owner, call, wants>> /\ (monitor' => monitor)
      BY <1>2 DEF Interrupt, vars, mutexVars
  <2>2. \A m : Waiters(m)' = Waiters(m)
      BY <2>1 DEF Waiters
  <2> QED
      BY <2>1, <2>2 DEF WaitInv, CurrentRuns, Runs, WaitersLock, UnlockSafe,
                        NoLostWakeup, Woken, InheritsForWaiter
<1>3. ASSUME NEW t \in AppTasks, NEW m \in Mutexes,
             \/ gyros_mutex_try_lock(t, m)
             \/ gyros_mutex_lock(t, m)
             \/ gyros_mutex_unlock(t, m)
      PROVE  WaitInv'
    BY <1>3, EnterWait DEF gyros_mutex_try_lock, gyros_mutex_lock, gyros_mutex_unlock
<1>4. ASSUME NEW t \in AppTasks, MutexStep(t)
      PROVE  WaitInv'
    BY <1>4, LoadWait, StoreWait, TryLockWait, LockWait, UnlockWait DEF MutexStep
<1>5. ASSUME NEW t \in AppTasks,
             \/ MutexRest(t)
             \/ MutexResume(t)
             \/ \E p \in NewPriorities : gyros_task_set_priority(t, p)
      PROVE  WaitInv'
    BY <1>5, RestAround, ResumeAround, SetPriorityAround, AroundWait
<1> QED
    BY <1>1, <1>2, <1>3, <1>4, <1>5, Zenon DEF MutexNext

\* The lists of the kernel are right, the tasks in a mutex's list are in the
\* loop of the lock, and neither a wake-up nor an inherited priority is lost
\* track of.
THEOREM WaitInvHolds == Spec => [](LockInv /\ WaitInv)
    BY LockInvInit, LockInvNext, WaitInvInit, WaitInvNext, PTL DEF Spec

\* A mutex that becomes free, through the fast path or the slow one, has one
\* of the tasks that wait for it woken.
THEOREM NoWakeupLost == Spec => []NoLostWakeup
<1>1. WaitInv => NoLostWakeup
    BY DEF WaitInv
<1> QED
    BY <1>1, WaitInvHolds, PTL

\* A task that owns no mutex has its own priority, also after another task
\* has changed that while it had inherited one.
THEOREM PrioritiesRestored == Spec => []PriorityRestored
<1>1. WaitInv => PriorityRestored
    BY DEF WaitInv, InheritsForWaiter, PriorityRestored
<1> QED
    BY <1>1, WaitInvHolds, PTL

-----------------------------------------------------------------------------
(* Priority inheritance.  gyros__mutex_unlock_slow gives back the whole of *)
(* an inherited priority, which is right as long as a task does not call a *)
(* mutex function while it has another mutex.                              *)

OneAtATime == \A t \in AppTasks : pc[t] \in InCall => holds[t] = {}

Unlocks(t, m) == pc[t] \in InCall /\ call[t] = "unlock" /\ wants[t] = m

Has(t, m) == m \in holds[t] \/ Unlocks(t, m)

OwnersHave == \A m \in Mutexes : owner[m] # NoTask => Has(owner[m], m)

OwnsOne == \A m, n \in Mutexes : owner[m] # NoTask /\ owner[n] = owner[m] => n = m

\* The task that an unlock has woken has the highest priority of those that
\* wanted the mutex.
WokenHighest ==
    \A m \in Mutexes : owner[m] = NoTask =>
        \A t \in Waiters(m) :
            \E u \in AppTasks : Woken(u, m) /\ gyros.priority[t] <= gyros.priority[u]

PriorityInv ==
    /\ ScheduleOK(gyros) /\ OwnersHave /\ OwnsOne
    /\ OwnerInherits /\ WokenHighest

\* t is where it was and has what it had.
Keeps(t) == Stays(t) /\ holds'[t] = holds[t]

\* An owner is in no mutex function but the unlock.
LEMMA OwnersOutside ==
    ASSUME LockInv, WaitInv, PriorityInv, OneAtATime, NEW m \in Mutexes, owner[m] # NoTask
    PROVE  /\ owner[m] \in AppTasks
           /\ pc[owner[m]] \in InCall => Unlocks(owner[m], m)
           /\ \A n \in Mutexes : gyros.main_list[owner[m]] # n /\ ~Woken(owner[m], n)
<1> DEFINE t == owner[m]
<1>1. t \in AppTasks
    BY DEF LockInv, LockTypes
<1>2. pc[t] \in InCall => Unlocks(t, m)
    BY <1>1 DEF PriorityInv, OwnersHave, Has, OneAtATime
<1>3. \A n \in Mutexes : gyros.main_list[t] # n
    BY <1>1, <1>2 DEF WaitInv, WaitersLock, Unlocks, InCall
<1>4. \A n \in Mutexes : ~Woken(t, n)
    BY <1>2 DEF Woken, Unlocks, InCall
<1> QED
    BY <1>1, <1>2, <1>3, <1>4

\* Who is in a call of lock or try_lock owns nothing.
LEMMA LockersOwnNothing ==
    ASSUME PriorityInv, OneAtATime, NEW t \in AppTasks,
           pc[t] \in InCall, call[t] # "unlock"
    PROVE  \A m \in Mutexes : owner[m] # t
<1>1. holds[t] = {} /\ t # NoTask
    BY MutexNames DEF OneAtATime
<1> QED
    BY <1>1 DEF PriorityInv, OwnersHave, Has, Unlocks

\* Nobody that runs precedes a task that executes, so a task that takes a free
\* mutex has at least the priority of those that wait for it.
LEMMA TakerIsHighest ==
    ASSUME PriorityInv, NEW t \in AppTasks, Executing(t),
           NEW m \in Mutexes, owner[m] = NoTask, NEW w \in Waiters(m), Sound(gyros)
    PROVE  gyros.priority[w] <= gyros.priority[t]
<1>1. PICK u \in AppTasks : Woken(u, m) /\ gyros.priority[w] <= gyros.priority[u]
    BY DEF PriorityInv, WokenHighest
<1>2. gyros.priority[u] <= gyros.priority[t]
    BY <1>1, MutexNames, CurrentIsHighest DEF PriorityInv, Executing, Woken, Runs
<1>3. w \in Tasks
    BY MutexWaiters DEF Waiters
<1>4. gyros.priority[w] \in Nat /\ gyros.priority[u] \in Nat /\ gyros.priority[t] \in Nat
    BY <1>3, MutexNames, Priorities0 DEF Sound
<1> QED
    BY <1>1, <1>2, <1>4

\* A step of t that leaves the kernel state and the owners alone.
LEMMA PlacePriority ==
    ASSUME LockInv, PriorityInv, NEW t \in AppTasks, UNCHANGED <<gyros, owner>>,
           \A u \in AppTasks \ {t} : Keeps(u),
           \A m \in Mutexes : ~Woken(t, m) /\ (Has(t, m) => Has(t, m)')
    PROVE  PriorityInv'
<1>1. \A m : Waiters(m)' = Waiters(m)
    BY DEF Waiters
<1>2. ScheduleOK(gyros') /\ OwnsOne' /\ OwnerInherits'
    BY <1>1 DEF PriorityInv, OwnsOne, OwnerInherits
<1>3. OwnersHave'
  <2> SUFFICES ASSUME NEW m \in Mutexes, owner[m] # NoTask
               PROVE  Has(owner[m], m)'
      BY DEF OwnersHave
  <2>1. Has(owner[m], m) /\ owner[m] \in AppTasks
      BY DEF PriorityInv, OwnersHave, LockInv, LockTypes
  <2> QED
      BY <2>1 DEF Has, Unlocks, Keeps, Stays
<1>4. WokenHighest'
  <2> SUFFICES ASSUME NEW m \in Mutexes, owner[m] = NoTask, NEW w \in Waiters(m)
               PROVE  \E u \in AppTasks : Woken(u, m)' /\ gyros.priority[w] <= gyros.priority[u]
      BY <1>1 DEF WokenHighest
  <2>1. PICK u \in AppTasks : Woken(u, m) /\ gyros.priority[w] <= gyros.priority[u]
      BY DEF PriorityInv, WokenHighest
  <2> QED
      BY <2>1 DEF Woken, Runs, Keeps, Stays
<1> QED
    BY <1>2, <1>3, <1>4 DEF PriorityInv

\* A mutex function returns without a kernel operation.
LEMMA LeavePriority ==
    ASSUME LockInv, WaitInv, PriorityInv, OneAtATime, NEW t \in AppTasks, NEW locked,
           Executing(t), pc[t] \in InCall, Leave(t, locked), UNCHANGED gyros,
           \/ UNCHANGED owner /\ call[t] = "try_lock"
           \/ /\ Waiters(wants[t]) = {} /\ call[t] = "unlock"
              /\ owner' = [owner EXCEPT ![wants[t]] = NoTask]
           \/ /\ owner[wants[t]] = NoTask /\ locked = {wants[t]} /\ call[t] # "unlock"
              /\ owner' = [owner EXCEPT ![wants[t]] = t]
    PROVE  PriorityInv'
<1> DEFINE m == wants[t]
<1>1. m \in Mutexes /\ t # NoTask /\ t \in Tasks
    BY MutexNames DEF LockInv, CallersWant
<1>2. /\ \A u \in AppTasks \ {t} : Keeps(u)
      /\ pc'[t] = "task" /\ holds'[t] = holds[t] \cup locked
    BY <1>1, MutexNames DEF Leave, Goto, Keeps, Stays, LockInv, LockTypes
<1>3. CASE UNCHANGED owner /\ call[t] = "try_lock"
  <2>1. \A n \in Mutexes : ~Woken(t, n) /\ (Has(t, n) => Has(t, n)')
      BY <1>2, <1>3 DEF Woken, Has, Unlocks
  <2> QED
      BY <1>2, <1>3, <2>1, PlacePriority
<1>4. CASE call[t] = "unlock" /\ Waiters(m) = {} /\ owner' = [owner EXCEPT ![m] = NoTask]
  <2> HIDE DEF m
  <2>1. /\ owner'[m] = NoTask /\ \A n \in Mutexes : n # m => owner'[n] = owner[n]
        /\ owner[m] = t
      BY <1>1, <1>4 DEF LockInv, LockTypes, UnlockersOwn, m
  <2>2. \A n : Waiters(n)' = Waiters(n)
      BY DEF Waiters
  <2>3. \A n \in Mutexes : owner'[n] # NoTask => owner[n] = owner'[n] /\ owner[n] # t /\ n # m
      BY <1>1, <2>1 DEF PriorityInv, OwnsOne
  <2>4. OwnersHave'
    <3> SUFFICES ASSUME NEW n \in Mutexes, NEW u, owner'[n] = u, u # NoTask
                 PROVE  Has(u, n)'
        BY DEF OwnersHave
    <3>1. Has(u, n) /\ u \in AppTasks /\ u # t
        BY <2>3 DEF PriorityInv, OwnersHave, LockInv, LockTypes
    <3> QED
        BY <1>2, <3>1 DEF Has, Unlocks, Keeps, Stays
  <2>5. ScheduleOK(gyros') /\ OwnsOne' /\ OwnerInherits'
      BY <2>2, <2>3 DEF PriorityInv, OwnsOne, OwnerInherits
  <2>6. WokenHighest'
    <3> SUFFICES ASSUME NEW n \in Mutexes, owner'[n] = NoTask, NEW w \in Waiters(n)
                 PROVE  \E u \in AppTasks : Woken(u, n)' /\ gyros.priority[w] <= gyros.priority[u]
        BY <2>2 DEF WokenHighest
    <3>1. owner[n] = NoTask
        BY <1>4, <2>1
    <3>2. PICK u \in AppTasks : Woken(u, n) /\ gyros.priority[w] <= gyros.priority[u]
        BY <3>1 DEF PriorityInv, WokenHighest
    <3>3. u # t
        BY <1>4, <3>2 DEF Woken
    <3> QED
        BY <1>2, <3>2, <3>3 DEF Woken, Runs, Keeps, Stays
  <2> QED
      BY <2>4, <2>5, <2>6 DEF PriorityInv
<1>5. CASE /\ owner[m] = NoTask /\ locked = {m} /\ call[t] # "unlock"
           /\ owner' = [owner EXCEPT ![m] = t]
  <2>1. \A n \in Mutexes : owner[n] # t
      BY <1>5, LockersOwnNothing
  <2>2. m \in holds'[t]
      BY <1>2, <1>5
  <2>3. \A n \in Mutexes : Woken(t, n) => n = m
      BY DEF Woken
  <2>4. owner[m] = NoTask
      BY <1>5
  <2> HIDE DEF m
  <2>5. owner'[m] = t /\ \A n \in Mutexes : n # m => owner'[n] = owner[n]
      BY <1>1, <1>5 DEF LockInv, LockTypes
  <2>6. \A n : Waiters(n)' = Waiters(n)
      BY DEF Waiters
  <2>7. OwnersHave'
    <3> SUFFICES ASSUME NEW n \in Mutexes, NEW u, owner'[n] = u, u # NoTask
                 PROVE  Has(u, n)'
        BY DEF OwnersHave
    <3>1. CASE n = m
        BY <2>2, <2>5, <3>1 DEF Has
    <3>2. CASE n # m
      <4>1. Has(u, n) /\ u \in AppTasks /\ u # t
          BY <2>1, <2>5, <3>2 DEF PriorityInv, OwnersHave, LockInv, LockTypes
      <4> QED
          BY <1>2, <4>1 DEF Has, Unlocks, Keeps, Stays
    <3> QED
        BY <3>1, <3>2
  <2>8. ScheduleOK(gyros') /\ OwnsOne'
      BY <1>1, <2>1, <2>5 DEF PriorityInv, OwnsOne
  <2>9. OwnerInherits'
    <3> SUFFICES ASSUME NEW n \in Mutexes, owner'[n] # NoTask, NEW w \in Waiters(n)
                 PROVE  gyros.priority[w] <= gyros.priority[owner'[n]]
        BY <2>6 DEF OwnerInherits
    <3>1. CASE n = m
        BY <1>1, <2>4, <2>5, <3>1, TakerIsHighest DEF WaitInv
    <3>2. CASE n # m
        BY <2>5, <3>2 DEF PriorityInv, OwnerInherits
    <3> QED
        BY <3>1, <3>2
  <2>10. WokenHighest'
    <3> SUFFICES ASSUME NEW n \in Mutexes, owner'[n] = NoTask, NEW w \in Waiters(n)
                 PROVE  \E u \in AppTasks : Woken(u, n)' /\ gyros.priority[w] <= gyros.priority[u]
        BY <2>6 DEF WokenHighest
    <3>1. n # m /\ owner[n] = NoTask
        BY <1>1, <2>5
    <3>2. PICK u \in AppTasks : Woken(u, n) /\ gyros.priority[w] <= gyros.priority[u]
        BY <3>1 DEF PriorityInv, WokenHighest
    <3>3. u # t
        BY <2>3, <3>1, <3>2
    <3> QED
        BY <1>2, <3>2, <3>3 DEF Woken, Runs, Keeps, Stays
  <2> QED
      BY <2>7, <2>8, <2>9, <2>10 DEF PriorityInv
<1> QED
    BY <1>3, <1>4, <1>5

\* The loop of the lock finds an owner, and hands it the priority.
LEMMA BlockPriority ==
    ASSUME LockInv, WaitInv, PriorityInv, OneAtATime,
           NEW t \in AppTasks, gyros__mutex_lock_slow(t), owner[wants[t]] # NoTask
    PROVE  PriorityInv'
<1> DEFINE m == wants[t]
           o == owner[m]
<1>1. /\ Executing(t) /\ pc[t] \in InCall /\ call[t] = "lock"
      /\ gyros.current = t /\ gyros.main_list[t] = Running
    BY ExecutingRuns DEF gyros__mutex_lock_slow, Inside, Continues, InCall
<1>2. /\ m \in Mutexes /\ t \in Tasks /\ \A n \in Mutexes : owner[n] # t
    BY <1>1, MutexNames, LockersOwnNothing DEF LockInv, CallersWant
<1>3. /\ o \in AppTasks /\ o \in Tasks /\ o # t
      /\ \A n \in Mutexes : gyros.main_list[o] # n /\ ~Woken(o, n)
    BY <1>2, MutexNames, OwnersOutside
<1>4. /\ gyros' = gyros__reschedule(Inherit(gyros__task_move(gyros, t, m), m))
      /\ UNCHANGED <<pc, owner, call, wants, holds>>
    BY DEF gyros__mutex_lock_slow
<1>5. BlockedBehind(gyros, gyros', t, m, o)
    BY <1>1, <1>2, <1>3, <1>4, LockSound DEF WaitInv
<1>6. \A n \in Mutexes : Woken(t, n) => n = m
    BY DEF Woken
<1>7. o = owner[m] /\ o # NoTask
    OBVIOUS
<1> HIDE DEF m, o
<1>8. /\ ScheduleOK(gyros') /\ Sound(gyros')
      /\ \A x \in Tasks \ {o} : gyros'.priority[x] = gyros.priority[x]
      /\ gyros'.priority[o] >= gyros.priority[o] /\ gyros'.priority[o] >= gyros.priority[t]
    BY <1>5 DEF BlockedBehind, ScheduleOK
<1>9. gyros'.main_list[t] = m /\ \A x \in Tasks \ {t} : gyros'.main_list[x] = gyros.main_list[x]
    BY <1>2, <1>5 DEF BlockedBehind, WaitInv, Sound, KernelOK, KernelStates
<1>10. \A n \in Mutexes : /\ Waiters(n) = {x \in Tasks : gyros.main_list[x] = n}
                          /\ Waiters(n)' = {x \in Tasks : gyros'.main_list[x] = n}
    BY <1>8, MutexWaiters DEF WaitInv, Waiters
<1>11. \A x \in Tasks : /\ gyros.priority[x] \in Nat /\ gyros'.priority[x] \in Nat
                        /\ gyros'.priority[x] >= gyros.priority[x]
  <2>1. \A x \in Tasks : gyros.priority[x] \in Nat /\ gyros'.priority[x] \in Nat
      BY <1>8, Priorities0 DEF Sound, WaitInv
  <2> QED
      BY <1>3, <1>8, <2>1
\* Nobody that waits afterwards has got another priority.
<1>12. \A n \in Mutexes, w \in Tasks : gyros'.main_list[w] = n =>
           /\ gyros'.priority[w] = gyros.priority[w]
           /\ gyros.main_list[w] = n \/ (n = m /\ w = t)
    BY <1>3, <1>8, <1>9
<1>13. OwnersHave' /\ OwnsOne'
    BY <1>4 DEF PriorityInv, OwnersHave, OwnsOne, Has, Unlocks
<1>14. OwnerInherits'
  <2> SUFFICES ASSUME NEW n \in Mutexes, owner[n] # NoTask,
                      NEW w \in Tasks, gyros'.main_list[w] = n
               PROVE  gyros'.priority[w] <= gyros'.priority[owner[n]]
      BY <1>4, <1>10 DEF OwnerInherits
  <2>1. owner[n] \in Tasks
      BY MutexNames DEF LockInv, LockTypes
  <2>2. CASE gyros.main_list[w] = n
    <3>1. gyros.priority[w] <= gyros.priority[owner[n]]
        BY <1>10, <2>2 DEF PriorityInv, OwnerInherits
    <3> QED
        BY <1>11, <1>12, <2>1, <3>1
  <2>3. CASE n = m /\ w = t
      BY <1>7, <1>8, <1>11, <1>12, <2>1, <2>3
  <2> QED
      BY <1>12, <2>2, <2>3
<1>15. WokenHighest'
  <2> SUFFICES ASSUME NEW n \in Mutexes, owner[n] = NoTask,
                      NEW w \in Tasks, gyros'.main_list[w] = n
               PROVE  \E u \in AppTasks : Woken(u, n)' /\ gyros'.priority[w] <= gyros'.priority[u]
      BY <1>4, <1>10 DEF WokenHighest
  <2>1. n # m /\ gyros.main_list[w] = n
      BY <1>7, <1>12
  <2>2. PICK u \in AppTasks : Woken(u, n) /\ gyros.priority[w] <= gyros.priority[u]
      BY <1>10, <2>1 DEF PriorityInv, WokenHighest
  <2>3. u # t /\ u \in Tasks
      BY <1>6, <2>1, <2>2, MutexNames
  <2>4. Woken(u, n)'
      BY <1>4, <1>9, <2>2, <2>3 DEF Woken, Runs
  <2> QED
      BY <1>11, <1>12, <2>2, <2>3, <2>4
<1> QED
    BY <1>8, <1>13, <1>14, <1>15 DEF PriorityInv

\* The slow unlock: whom it wakes has the highest priority of all that wait,
\* and if it wakes nobody, the task had not inherited anything.
LEMMA UnlockPriority ==
    ASSUME LockInv, WaitInv, PriorityInv, OneAtATime,
           NEW t \in AppTasks, gyros__mutex_unlock_slow(t)
    PROVE  PriorityInv'
<1> DEFINE m == wants[t]
<1>1. /\ Executing(t) /\ pc[t] \in InCall /\ call[t] = "unlock"
      /\ gyros.current = t /\ gyros.main_list[t] = Running
      /\ \A n \in Mutexes : ~Woken(t, n)
    BY ExecutingRuns DEF gyros__mutex_unlock_slow, Inside, Continues, InCall, Woken
<1>2. m \in Mutexes /\ t \in Tasks /\ owner[m] = t /\ t # NoTask
    BY <1>1, MutexNames DEF LockInv, CallersWant, UnlockersOwn
<1>3. /\ gyros' = UnlockSlow(gyros, m, TRUE)
      /\ owner' = [owner EXCEPT ![m] = NoTask]
      /\ \A u \in AppTasks \ {t} : Keeps(u)
    BY <1>2, MutexNames DEF gyros__mutex_unlock_slow, Leave, Goto, Keeps, Stays,
                            LockInv, LockTypes
<1>4. Released(gyros, gyros', t, m)
    BY <1>1, <1>2, <1>3, UnlockSound DEF WaitInv
<1>5. \/ ScheduleOK(gyros')
      \/ /\ \A x \in Tasks : gyros.main_list[x] # m
         /\ gyros.priority[t] # gyros.base_priority[t] \/ gyros' = gyros
    BY <1>1, <1>2, <1>3, UnlockSound DEF WaitInv
<1>6. owner'[m] = NoTask /\ \A n \in Mutexes : n # m => owner'[n] = owner[n]
    BY <1>2, <1>3 DEF LockInv, LockTypes
<1> HIDE DEF m
<1>7. /\ Sound(gyros')
      /\ \A x \in Tasks \ {t} : gyros'.priority[x] = gyros.priority[x]
    BY <1>4 DEF Released
<1>8. \A n \in Mutexes : /\ Waiters(n) = {x \in Tasks : gyros.main_list[x] = n}
                         /\ Waiters(n)' = {x \in Tasks : gyros'.main_list[x] = n}
    BY <1>7, MutexWaiters DEF WaitInv, Waiters
<1>9. \A n \in Mutexes : owner'[n] # NoTask => owner[n] = owner'[n] /\ owner[n] # t /\ n # m
    BY <1>2, <1>6 DEF PriorityInv, OwnsOne
<1>10. ScheduleOK(gyros')
  <2>1. ASSUME \A x \in Tasks : gyros.main_list[x] # m
        PROVE  gyros.priority[t] = gyros.base_priority[t]
    <3>1. Waiters(m) = {}
        BY <1>2, <1>8, <2>1
    <3>2. \A n \in Mutexes : owner[n] = t => n = m
        BY <1>2 DEF PriorityInv, OwnsOne
    <3> QED
        BY <3>1, <3>2 DEF WaitInv, InheritsForWaiter
  <2> QED
      BY <1>5, <2>1 DEF PriorityInv
<1>11. \A x \in Tasks : gyros'.main_list[x] = gyros.main_list[x]
                        \/ (gyros.main_list[x] = m /\ gyros'.main_list[x] = Running)
  <2>1. gyros.main_list \in [Tasks -> ListIds \cup {NoList}]
      BY DEF WaitInv, Sound, KernelOK, KernelStates
  <2>2. \/ gyros'.main_list = gyros.main_list
        \/ \E u \in Tasks : /\ gyros.main_list[u] = m
                            /\ gyros'.main_list = [gyros.main_list EXCEPT ![u] = Running]
      BY <1>4 DEF Released
  <2> QED
      BY <2>1, <2>2
<1>12. \A n \in Mutexes, w \in Tasks : gyros'.main_list[w] = n =>
           gyros'.priority[w] = gyros.priority[w] /\ gyros.main_list[w] = n
    BY <1>1, <1>2, <1>7, <1>11, MutexNames
<1>13. OwnersHave'
  <2> SUFFICES ASSUME NEW n \in Mutexes, NEW u, owner'[n] = u, u # NoTask
               PROVE  Has(u, n)'
      BY DEF OwnersHave
  <2>1. Has(u, n) /\ u \in AppTasks /\ u # t
      BY <1>9 DEF PriorityInv, OwnersHave, LockInv, LockTypes
  <2> QED
      BY <1>3, <2>1 DEF Has, Unlocks, Keeps, Stays
<1>14. OwnsOne'
    BY <1>9 DEF PriorityInv, OwnsOne
<1>15. OwnerInherits'
  <2> SUFFICES ASSUME NEW n \in Mutexes, owner'[n] # NoTask,
                      NEW w \in Tasks, gyros'.main_list[w] = n
               PROVE  gyros'.priority[w] <= gyros'.priority[owner[n]]
      BY <1>8, <1>9 DEF OwnerInherits
  <2>1. owner[n] # NoTask /\ owner[n] \in Tasks /\ owner[n] # t
      BY <1>9, MutexNames DEF LockInv, LockTypes
  <2>2. gyros.priority[w] <= gyros.priority[owner[n]]
      BY <1>8, <1>12, <2>1 DEF PriorityInv, OwnerInherits
  <2> QED
      BY <1>7, <1>12, <2>1, <2>2
<1>16. WokenHighest'
  <2> SUFFICES ASSUME NEW n \in Mutexes, owner'[n] = NoTask,
                      NEW w \in Tasks, gyros'.main_list[w] = n
               PROVE  \E u \in AppTasks : Woken(u, n)' /\ gyros'.priority[w] <= gyros'.priority[u]
      BY <1>8 DEF WokenHighest
  <2>1. gyros.main_list[w] = n /\ gyros'.priority[w] = gyros.priority[w]
      BY <1>12
  <2>2. CASE n # m
    <3>1. PICK u \in AppTasks : Woken(u, n) /\ gyros.priority[w] <= gyros.priority[u]
        BY <1>6, <1>8, <2>1, <2>2 DEF PriorityInv, WokenHighest
    <3>2. u # t /\ u \in Tasks /\ gyros.main_list[u] = Running
        BY <1>1, <3>1, MutexNames DEF Woken, Runs
    <3>3. gyros'.main_list[u] = Running /\ gyros'.priority[u] = gyros.priority[u]
        BY <1>7, <1>11, <3>2
    <3> QED
        BY <1>3, <2>1, <3>1, <3>2, <3>3 DEF Woken, Runs, Keeps, Stays
  <2>3. CASE n = m
    <3>1. PICK u \in Tasks :
              /\ gyros.main_list[u] = m
              /\ gyros'.main_list = [gyros.main_list EXCEPT ![u] = Running]
              /\ \A x \in Tasks : gyros.main_list[x] = m =>
                     gyros.priority[x] <= gyros.priority[u]
        BY <1>4, <2>1, <2>3 DEF Released
    <3>2. gyros'.main_list[u] = Running
        BY <3>1 DEF WaitInv, Sound, KernelOK, KernelStates
    <3>3. u \in AppTasks /\ u # t
        BY <1>1, <1>2, <3>1, MutexNames DEF AppTasks, WaitInv, Sound
    <3>4. pc[u] = "slow" /\ call[u] = "lock" /\ wants[u] = m
        BY <1>2, <3>1, <3>3 DEF WaitInv, WaitersLock
    <3>5. gyros.priority[w] <= gyros.priority[u] /\ gyros'.priority[u] = gyros.priority[u]
        BY <1>7, <2>1, <2>3, <3>1, <3>3
    <3> QED
        BY <1>3, <2>1, <2>3, <3>2, <3>3, <3>4, <3>5 DEF Woken, Runs, Keeps, Stays
  <2> QED
      BY <2>2, <2>3
<1> QED
    BY <1>10, <1>13, <1>14, <1>15, <1>16 DEF PriorityInv

\* Another priority is set only for a task that neither has nor wants a mutex.
LEMMA AroundPriority ==
    ASSUME LockInv, WaitInv, PriorityInv, ~PriorityOfUsers, NEW t \in AppTasks, Around(t)
    PROVE  PriorityInv'
<1>1. /\ Sound(gyros') /\ ScheduleOK(gyros')
      /\ UNCHANGED <<owner, call, wants, holds>>
      /\ \A u \in AppTasks : pc[u] \in InCall \/ pc'[u] \in InCall => pc'[u] = pc[u]
      /\ \A x \in Tasks : \/ gyros'.main_list[x] = gyros.main_list[x]
                          \/ /\ gyros.main_list[x] \notin Mutexes
                             /\ gyros'.main_list[x] \notin Mutexes
                             /\ x = t /\ pc[t] \notin InCall
      /\ \A x \in Tasks : \/ gyros'.priority[x] = gyros.priority[x]
                          \/ x = t /\ holds[t] = {} /\ call[t] = "none"
    BY DEF Around, PriorityInv
<1>2. \A n \in Mutexes : /\ Waiters(n) = {x \in Tasks : gyros.main_list[x] = n}
                         /\ Waiters(n)' = {x \in Tasks : gyros'.main_list[x] = n}
    BY <1>1, MutexWaiters DEF WaitInv, Waiters
<1>3. \A n \in Mutexes, w \in Tasks : gyros'.main_list[w] = n =>
          gyros'.priority[w] = gyros.priority[w] /\ gyros.main_list[w] = n
  <2> SUFFICES ASSUME NEW n \in Mutexes, NEW w \in Tasks, gyros'.main_list[w] = n
               PROVE  gyros'.priority[w] = gyros.priority[w] /\ gyros.main_list[w] = n
      OBVIOUS
  <2>1. gyros.main_list[w] = n
      BY <1>1
  <2>2. w = t => call[w] = "lock"
      BY <2>1 DEF WaitInv, WaitersLock
  <2> QED
      BY <1>1, <2>1, <2>2
<1>4. OwnersHave' /\ OwnsOne'
  <2>1. OwnsOne'
      BY <1>1 DEF PriorityInv, OwnsOne
  <2>2. ASSUME NEW n \in Mutexes, NEW u, owner'[n] = u, u # NoTask
        PROVE  Has(u, n)'
    <3>1. Has(u, n) /\ u \in AppTasks
        BY <1>1, <2>2 DEF PriorityInv, OwnersHave, LockInv, LockTypes
    <3> QED
        BY <1>1, <3>1 DEF Has, Unlocks
  <2> QED
      BY <2>1, <2>2 DEF OwnersHave
<1>5. OwnerInherits'
  <2> SUFFICES ASSUME NEW n \in Mutexes, owner[n] # NoTask,
                      NEW w \in Tasks, gyros'.main_list[w] = n
               PROVE  gyros'.priority[w] <= gyros'.priority[owner[n]]
      BY <1>1, <1>2 DEF OwnerInherits
  <2>1. owner[n] \in AppTasks /\ owner[n] \in Tasks /\ Has(owner[n], n)
      BY MutexNames DEF LockInv, LockTypes, PriorityInv, OwnersHave
  <2>2. gyros'.priority[owner[n]] = gyros.priority[owner[n]]
      BY <1>1, <2>1 DEF Has, Unlocks
  <2>3. gyros.priority[w] <= gyros.priority[owner[n]]
      BY <1>2, <1>3 DEF PriorityInv, OwnerInherits
  <2> QED
      BY <1>3, <2>2, <2>3
<1>6. WokenHighest'
  <2> SUFFICES ASSUME NEW n \in Mutexes, owner[n] = NoTask,
                      NEW w \in Tasks, gyros'.main_list[w] = n
               PROVE  \E u \in AppTasks : Woken(u, n)' /\ gyros'.priority[w] <= gyros'.priority[u]
      BY <1>1, <1>2 DEF WokenHighest
  <2>1. PICK u \in AppTasks : Woken(u, n) /\ gyros.priority[w] <= gyros.priority[u]
      BY <1>2, <1>3 DEF PriorityInv, WokenHighest
  <2>2. pc'[u] = pc[u] /\ gyros'.priority[u] = gyros.priority[u] /\ gyros'.main_list[u] = gyros.main_list[u]
      BY <1>1, <2>1, MutexNames DEF Woken, InCall
  <2> QED
      BY <1>1, <1>3, <2>1, <2>2 DEF Woken, Runs
<1> QED
    BY <1>1, <1>4, <1>5, <1>6 DEF PriorityInv

LEMMA SwitchPriority ==
    ASSUME WaitInv, PriorityInv, MutexSwitch
    PROVE  PriorityInv'
<1>1. gyros' = PendSV_Handler(gyros) /\ UNCHANGED <<pc, owner, call, wants, holds>>
    BY DEF MutexSwitch, ContextSwitch
<1>2. /\ ScheduleOK(gyros') /\ gyros'.main_list = gyros.main_list
      /\ gyros'.lists = gyros.lists /\ gyros'.priority = gyros.priority
    BY <1>1, SwitchSound DEF WaitInv
<1>3. \A n : Waiters(n)' = Waiters(n)
    BY <1>2 DEF Waiters
<1> QED
    BY <1>1, <1>2, <1>3 DEF PriorityInv, OwnersHave, OwnsOne, Has, Unlocks,
                            OwnerInherits, WokenHighest, Woken, Runs

LEMMA StepPriority ==
    ASSUME LockInv, WaitInv, PriorityInv, OneAtATime, NEW t \in AppTasks, MutexStep(t)
    PROVE  PriorityInv'
<1>0. /\ t \in Tasks /\ pc[t] \in InCall => wants[t] \in Mutexes
      /\ monitor \in BOOLEAN
    BY MutexNames DEF LockInv, LockTypes, CallersWant
<1>1. ASSUME NEW where \in {"ldrex", "strex", "slow"}, Executing(t),
             pc[t] \in {"ldrex", "strex"}, Goto(t, where),
             UNCHANGED <<gyros, owner, call, wants, holds>>
      PROVE  PriorityInv'
  <2>1. /\ \A u \in AppTasks \ {t} : Keeps(u)
        /\ pc'[t] \in InCall /\ pc[t] \in InCall
      BY <1>0, <1>1, MutexNames DEF Goto, Keeps, Stays, LockInv, LockTypes, InCall
  <2>2. \A m \in Mutexes : ~Woken(t, m) /\ (Has(t, m) => Has(t, m)')
      BY <1>1, <2>1 DEF Woken, Has, Unlocks
  <2> QED
      BY <1>1, <2>1, <2>2, PlacePriority
<1>2. CASE gyros_ldrex_p(t)
    BY <1>1, <1>2 DEF gyros_ldrex_p, Continues
<1>3. CASE gyros_strex_p(t)
  <2>1. Executing(t) /\ pc[t] = "strex" /\ pc[t] \in InCall /\ UNCHANGED gyros
      BY <1>3 DEF gyros_strex_p, Continues, InCall
  <2>2. CASE monitor
    <3>1. Store(t) /\ gyros.current = t
        BY <1>3, <2>1, <2>2 DEF gyros_strex_p, Executing
    <3>2. CASE call[t] = "unlock"
      <4>1. Waiters(wants[t]) = {}
          BY <2>1, <2>2, <3>1, <3>2 DEF WaitInv, UnlockSafe
      <4>2. Leave(t, {}) /\ owner' = [owner EXCEPT ![wants[t]] = NoTask]
          BY <3>1, <3>2 DEF Store
      <4> QED
          BY <2>1, <3>2, <4>1, <4>2, LeavePriority
    <3>3. CASE call[t] # "unlock"
      <4>1. owner[wants[t]] = NoTask
          BY <2>1, <2>2, <3>1, <3>3 DEF LockInv, StoreIsSafe
      <4>2. Leave(t, {wants[t]}) /\ owner' = [owner EXCEPT ![wants[t]] = t]
          BY <3>1, <3>3 DEF Store
      <4> QED
          BY <2>1, <3>3, <4>1, <4>2, LeavePriority
    <3> QED
        BY <3>2, <3>3
  <2>3. CASE ~monitor
      BY <1>1, <1>3, <2>1, <2>3 DEF gyros_strex_p
  <2> QED
      BY <1>0, <2>2, <2>3
<1>4. CASE gyros__mutex_try_lock_slow(t)
  <2>1. /\ Executing(t) /\ pc[t] \in InCall /\ call[t] = "try_lock" /\ UNCHANGED gyros
        /\ \/ /\ owner[wants[t]] = NoTask
              /\ owner' = [owner EXCEPT ![wants[t]] = t] /\ Leave(t, {wants[t]})
           \/ UNCHANGED owner /\ Leave(t, {})
      BY <1>4 DEF gyros__mutex_try_lock_slow, Inside, Continues, InCall
  <2> QED
      BY <2>1, LeavePriority
<1>5. CASE gyros__mutex_lock_slow(t)
  <2>1. Executing(t) /\ pc[t] \in InCall /\ call[t] = "lock"
      BY <1>5 DEF gyros__mutex_lock_slow, Inside, Continues, InCall
  <2>2. CASE owner[wants[t]] = NoTask
    <3>1. /\ Leave(t, {wants[t]}) /\ UNCHANGED gyros
          /\ owner' = [owner EXCEPT ![wants[t]] = t]
        BY <1>5, <2>2 DEF gyros__mutex_lock_slow
    <3> QED
        BY <2>1, <2>2, <3>1, LeavePriority
  <2> QED
      BY <1>5, <2>2, BlockPriority
<1>6. CASE gyros__mutex_unlock_slow(t)
    BY <1>6, UnlockPriority
<1> QED
    BY <1>2, <1>3, <1>4, <1>5, <1>6 DEF MutexStep

LEMMA EnterPriority ==
    ASSUME LockInv, PriorityInv, NEW t \in AppTasks, NEW m \in Mutexes,
           \/ gyros_mutex_try_lock(t, m)
           \/ gyros_mutex_lock(t, m)
           \/ gyros_mutex_unlock(t, m)
    PROVE  PriorityInv'
<1>1. PICK function \in {"try_lock", "lock", "unlock"} :
          /\ Calls(t) /\ Enter(t, function, m) /\ UNCHANGED <<gyros, owner>>
          /\ \/ UNCHANGED holds
             \/ function = "unlock" /\ holds' = [holds EXCEPT ![t] = @ \ {m}]
    BY DEF gyros_mutex_try_lock, gyros_mutex_lock, gyros_mutex_unlock
<1>2. /\ t \in Tasks /\ pc[t] = "task"
      /\ pc' = [pc EXCEPT ![t] = pc'[t]] /\ pc'[t] \in InCall
      /\ call' = [call EXCEPT ![t] = function]
      /\ wants' = [wants EXCEPT ![t] = m]
    BY <1>1, MutexNames DEF Calls, Enter, Goto, LockInv, LockTypes, InCall
<1>3. \A u \in AppTasks \ {t} : Keeps(u)
    BY <1>1, <1>2, MutexNames DEF Keeps, Stays, LockInv, LockTypes
<1>4. ASSUME NEW n \in Mutexes PROVE ~Woken(t, n) /\ (Has(t, n) => Has(t, n)')
  <2>1. ~Woken(t, n) /\ (Has(t, n) => n \in holds[t])
      BY <1>2 DEF Woken, Has, Unlocks, InCall
  <2>2. n \in holds[t] => n \in holds'[t] \/ (n = m /\ function = "unlock")
      BY <1>1, <1>2 DEF LockInv, LockTypes
  <2>3. call'[t] = function /\ wants'[t] = m
      BY <1>2 DEF LockInv, LockTypes
  <2> QED
      BY <1>2, <2>1, <2>2, <2>3 DEF Has, Unlocks
<1> QED
    BY <1>1, <1>3, <1>4, PlacePriority

LEMMA PriorityInvInit == MutexInit => PriorityInv
<1> SUFFICES ASSUME MutexInit PROVE PriorityInv
    OBVIOUS
<1>1. ScheduleOK(gyros) /\ gyros.main_list = [t \in Tasks |-> Running]
    BY StartedSound DEF MutexInit
<1>2. Sound(gyros) /\ \A t \in Tasks : gyros.main_list[t] = Running
    BY <1>1 DEF ScheduleOK
<1>3. \A m \in Mutexes : Waiters(m) = {} /\ owner[m] = NoTask
    BY <1>2, MutexWaiters, MutexNames DEF Waiters, MutexInit
<1> QED
    BY <1>1, <1>3 DEF PriorityInv, OwnersHave, OwnsOne, OwnerInherits, WokenHighest

LEMMA PriorityInvNext ==
    ~PriorityOfUsers /\ LockInv /\ WaitInv /\ OneAtATime /\ PriorityInv /\ [MutexNext]_vars
        => PriorityInv'
<1> SUFFICES ASSUME ~PriorityOfUsers, LockInv, WaitInv, OneAtATime, PriorityInv,
                    [MutexNext]_vars
             PROVE  PriorityInv'
    OBVIOUS
<1>1. CASE MutexSwitch
    BY <1>1, SwitchPriority
<1>2. CASE Interrupt \/ UNCHANGED vars
  <2>1. UNCHANGED <<gyros, pc, owner, call, wants, holds>>
      BY <1>2 DEF Interrupt, vars, mutexVars
  <2>2. \A m : Waiters(m)' = Waiters(m)
      BY <2>1 DEF Waiters
  <2> QED
      BY <2>1, <2>2 DEF PriorityInv, OwnersHave, OwnsOne, Has, Unlocks,
                        OwnerInherits, WokenHighest, Woken, Runs
<1>3. ASSUME NEW t \in AppTasks, NEW m \in Mutexes,
             \/ gyros_mutex_try_lock(t, m)
             \/ gyros_mutex_lock(t, m)
             \/ gyros_mutex_unlock(t, m)
      PROVE  PriorityInv'
    BY <1>3, EnterPriority
<1>4. ASSUME NEW t \in AppTasks, MutexStep(t)
      PROVE  PriorityInv'
    BY <1>4, StepPriority
<1>5. ASSUME NEW t \in AppTasks,
             \/ MutexRest(t)
             \/ MutexResume(t)
             \/ \E p \in NewPriorities : gyros_task_set_priority(t, p)
      PROVE  PriorityInv'
    BY <1>5, RestAround, ResumeAround, SetPriorityAround, AroundPriority
<1> QED
    BY <1>1, <1>2, <1>3, <1>4, <1>5, Zenon DEF MutexNext

LEMMA NoInversion == LockInv /\ PriorityInv => NoPriorityInversion
<1> SUFFICES ASSUME LockInv, PriorityInv, NEW m \in Mutexes, NEW t \in AppTasks,
                    t \in Waiters(m), owner[m] # NoTask, Runs(owner[m]), ~gyros.pendsv
             PROVE  gyros.priority[t] <= gyros.priority[gyros.current]
    BY DEF NoPriorityInversion
<1>1. owner[m] \in Tasks /\ t \in Tasks /\ gyros.current \in Tasks
    BY MutexNames DEF LockInv, LockTypes, PriorityInv, ScheduleOK, Sound
<1>2. gyros.priority[t] <= gyros.priority[owner[m]]
    BY DEF PriorityInv, OwnerInherits
<1>3. gyros.priority[owner[m]] <= gyros.priority[gyros.current]
    BY <1>1, CurrentIsHighest DEF PriorityInv, Runs
<1>4. \A x \in Tasks : gyros.priority[x] \in Nat
    BY Priorities0 DEF PriorityInv, ScheduleOK, Sound
<1> QED
    BY <1>1, <1>2, <1>3, <1>4

\* As long as no task calls a mutex function while it has another mutex, the
\* owner of each mutex has the priority of all that wait for it, and nobody of
\* less executes while the owner can run.
THEOREM PriorityInherited ==
    ASSUME ~PriorityOfUsers
    PROVE  Spec /\ []OneAtATime => [](OwnerInherits /\ NoPriorityInversion)
<1>1. PriorityInv => OwnerInherits
    BY DEF PriorityInv
<1>2. LockInv /\ WaitInv /\ OneAtATime /\ PriorityInv /\ [MutexNext]_vars => PriorityInv'
    BY PriorityInvNext
<1> QED
    BY <1>1, <1>2, LockInvInit, LockInvNext, WaitInvInit, WaitInvNext,
       PriorityInvInit, NoInversion, PTL DEF Spec

\* With a single mutex that is so whatever the tasks do.
THEOREM OneMutexInherits ==
    ASSUME ~PriorityOfUsers, \A m, n \in Mutexes : m = n
    PROVE  Spec => [](OwnerInherits /\ NoPriorityInversion)
<1>1. LockInv => OneAtATime
    BY MutexNames DEF LockInv, LockTypes, CallersWant, OneAtATime
<1> QED
    BY <1>1, LockInvHolds, PriorityInherited, PTL

-----------------------------------------------------------------------------
(* Condition variables.                                                    *)

USE CondAssumption

CondTypes ==
    /\ cond \in [Tasks -> Conds \cup {NoList}]
    /\ owes \subseteq AppTasks

AtCond(t) ==
    /\ gyros.main_list[t] \in Conds => cond[t] = gyros.main_list[t] /\ pc[t] = "cond"
    /\ pc[t] = "cond" => wants[t] \in Mutexes /\ wants[t] \notin holds[t]
    /\ t \in Elements(gyros.timeouts) => gyros.main_list[t] \in Conds

CondInv ==
    /\ Sound(gyros) /\ CurrentRuns
    /\ LockInv
    /\ CondTypes
    /\ \A t \in AppTasks : AtCond(t)

LEMMA CondNames ==
    /\ Conds \subseteq Objects /\ Conds \subseteq ListIds
    /\ Running \notin Conds /\ NoList \notin Conds /\ \A m \in Mutexes : m \notin Conds
    BY ListNames

LEMMA SleepersAre ==
    ASSUME NEW k, Sound(k), NEW c \in Conds
    PROVE  /\ Elements(k.lists[c]) = {t \in AppTasks : k.main_list[t] = c}
<1>1. Elements(k.lists[c]) = {t \in Tasks : k.main_list[t] = c}
    BY WaitersAre, CondNames DEF Sound
<1>2. k.main_list[Idle] # c
    BY CondNames DEF Sound
<1> QED
    BY <1>1, <1>2 DEF AppTasks

\* A task that executes is in no list but that of the running ones.
LEMMA ExecutingAwake ==
    ASSUME CondInv, NEW t \in AppTasks, Executing(t)
    PROVE  /\ gyros.current = t /\ gyros.main_list[t] = Running
           /\ t \notin Elements(gyros.timeouts) /\ t \in Tasks /\ t # Idle
<1>1. gyros.current = t /\ gyros.main_list[t] = Running
    BY DEF CondInv, CurrentRuns, Runs, Executing
<1> QED
    BY <1>1, CondNames, MutexNames DEF CondInv, AtCond

\* What a step does to the tasks other than t, and where t is after it.
CondKeeps(t) ==
    /\ Sound(gyros') /\ CurrentRuns'
    /\ LockInv'
    /\ CondTypes'
    /\ \A u \in AppTasks \ {t} :
           /\ pc'[u] = pc[u] /\ wants'[u] = wants[u] /\ holds'[u] = holds[u]
           /\ cond'[u] = cond[u]
           /\ gyros'.main_list[u] \in Conds => gyros'.main_list[u] = gyros.main_list[u]
           /\ u \in Elements(gyros'.timeouts) =>
                  u \in Elements(gyros.timeouts) /\ gyros'.main_list[u] = gyros.main_list[u]
    /\ t \in AppTasks => AtCond(t)'
    /\ \A u \in AppTasks :
           \/ gyros'.timed_out[u] = gyros.timed_out[u]
           \/ u \in Elements(gyros.timeouts)
           \/ u = t /\ (~Waiting(t) \/ cond'[t] # cond[t])

LEMMA CondKeepsInv ==
    ASSUME CondInv, NEW t \in Tasks, CondKeeps(t)
    PROVE  CondInv'
<1>1. ASSUME NEW u \in AppTasks PROVE AtCond(u)'
  <2>1. CASE u = t
      BY <2>1 DEF CondKeeps
  <2>2. CASE u # t
    <3>1. /\ pc'[u] = pc[u] /\ wants'[u] = wants[u] /\ holds'[u] = holds[u]
          /\ cond'[u] = cond[u]
          /\ gyros'.main_list[u] \in Conds => gyros'.main_list[u] = gyros.main_list[u]
          /\ u \in Elements(gyros'.timeouts) =>
                 u \in Elements(gyros.timeouts) /\ gyros'.main_list[u] = gyros.main_list[u]
        BY <2>2 DEF CondKeeps
    <3>2. AtCond(u)
        BY DEF CondInv
    <3> QED
        BY <3>1, <3>2 DEF AtCond
  <2> QED
      BY <2>1, <2>2
<1> QED
    BY <1>1 DEF CondKeeps, CondInv

\* The result of a wait changes only while the task is in the list.
LEMMA KeepsResults ==
    ASSUME CondInv, NEW t \in Tasks, CondKeeps(t), NEW u \in AppTasks,
           Waiting(u), u \notin Waiters(cond[u]), cond'[u] = cond[u]
    PROVE  gyros'.timed_out[u] = gyros.timed_out[u]
<1>1. ASSUME u \in Elements(gyros.timeouts) PROVE FALSE
  <2>1. gyros.main_list[u] \in Conds /\ cond[u] = gyros.main_list[u]
      BY <1>1 DEF CondInv, AtCond
  <2>2. Waiters(cond[u]) = {x \in AppTasks : gyros.main_list[x] = cond[u]}
      BY <2>1, SleepersAre DEF CondInv, Waiters
  <2> QED
      BY <2>1, <2>2
<1> QED
    BY <1>1 DEF CondKeeps

\* A step that sets no flag and takes no task into the list of a condition or
\* out of a wait loses no signal.
LEMMA KeepsSignals ==
    ASSUME CondInv, NoLostSignal, NEW t \in Tasks, CondKeeps(t), ready' => ready,
           owes' = owes,
           t \in AppTasks => cond'[t] = cond[t] /\ gyros'.main_list[t] \notin Conds
    PROVE  NoLostSignal'
<1> SUFFICES ASSUME NEW c \in Conds, ready', Waiters(c)' # {}, owes' = {}
             PROVE  \E x \in AppTasks : cond'[x] = c /\ x \notin Waiters(c)'
    BY DEF NoLostSignal
<1>1. Sound(gyros) /\ Sound(gyros')
    BY DEF CondInv, CondKeeps
<1>2. Waiters(c) = {x \in AppTasks : gyros.main_list[x] = c}
    BY <1>1, SleepersAre DEF Waiters
<1>3. Elements(gyros'.lists[c]) = {x \in AppTasks : gyros'.main_list[x] = c}
    BY <1>1, SleepersAre
<1>4. Waiters(c)' = {x \in AppTasks : gyros'.main_list[x] = c}
    BY <1>3 DEF Waiters
<1>5. Waiters(c) # {}
    BY <1>2, <1>4 DEF CondKeeps
<1>6. PICK x \in AppTasks : cond[x] = c /\ x \notin Waiters(c)
    BY <1>5 DEF NoLostSignal
<1>7. cond'[x] = c /\ gyros'.main_list[x] # c
    BY <1>2, <1>6 DEF CondKeeps
<1> QED
    BY <1>4, <1>7

-----------------------------------------------------------------------------
(* What the mutex code does to a kernel state in which other tasks may     *)
(* have timeouts.                                                          *)

\* At most one task is woken, and it waited for m.
Unlocked(k, n, m) ==
    /\ KernelOK(n) /\ n.current = k.current /\ n.timed_out = k.timed_out
    /\ k.pendsv => n.pendsv
    /\ \/ n.main_list = k.main_list /\ n.timeouts = k.timeouts
       \/ \E u \in Tasks :
              /\ k.main_list[u] = m
              /\ n.main_list = [k.main_list EXCEPT ![u] = Running]
              /\ Elements(n.timeouts) = Elements(k.timeouts) \ {u}

LEMMA UnlockCalm ==
    ASSUME NEW k, KernelOK(k), k.current \in Tasks, k.main_list[k.current] = Running,
           NEW m \in Mutexes, NEW reschedule \in BOOLEAN
    PROVE  Unlocked(k, UnlockSlow(k, m, reschedule), m)
<1> DEFINE t == k.current
           p == k.base_priority[t]
           d == Disinherit(k)
           u == Head(d.lists[m])
           w == gyros__task_wake(d, u)
           n == UnlockSlow(k, m, reschedule)
<1>1. /\ KernelOK(d) /\ d.current = t /\ d.timed_out = k.timed_out /\ d.pendsv = k.pendsv
      /\ d.main_list = k.main_list /\ d.timeouts = k.timeouts
  <2>1. CASE k.priority[t] = p
      BY <2>1 DEF Disinherit
  <2>2. CASE k.priority[t] # p
    <3>1. p \in Priorities \cup {0}
      <4>1. k.base_priority \in [Tasks -> Priorities \cup {0}]
          BY Priorities0
      <4> QED
          BY ONLY <4>1, k.current \in Tasks
    <3>2. [k EXCEPT !.priority[t] = p].main_list[t] = Running /\ Running # NoList
        BY DEF KernelOK, KernelStates
    <3>3. d = gyros__set_priority(k, t, p)
        BY <2>2, <3>2 DEF Disinherit, gyros__set_priority
    <3> HIDE DEF p
    <3>4. LET c == gyros__set_priority(k, t, p)
          IN  /\ KernelOK(c) /\ c.current = k.current /\ c.timed_out = k.timed_out
              /\ c.pendsv = k.pendsv /\ c.main_list = k.main_list /\ c.timeouts = k.timeouts
        BY <3>1, SetPriorityOK
    <3> QED
        BY <3>3, <3>4
  <2> QED
      BY <2>1, <2>2
<1> HIDE DEF d
<1>2. n = IF d.lists[m] = <<>> THEN d
          ELSE IF reschedule THEN gyros__cond_reschedule(w) ELSE w
    BY DEF UnlockSlow, d
<1>3. CASE d.lists[m] = <<>>
    BY <1>1, <1>2, <1>3 DEF Unlocked
<1>4. CASE d.lists[m] # <<>>
  <2>1. u \in Tasks /\ d.main_list[u] = m
      BY <1>1, <1>4, FirstIsHighest, MutexNames
  <2> HIDE DEF u
  <2>2. /\ KernelOK(w) /\ SameButLists(d, w)
        /\ w.main_list = [d.main_list EXCEPT ![u] = Running]
        /\ Elements(w.timeouts) = Elements(d.timeouts) \ {u}
      BY <1>1, <2>1, TaskWakeOK
  <2> HIDE DEF w
  <2> DEFINE v == gyros__cond_reschedule(w)
  <2>3. KernelOK(v) /\ (v = w \/ v = [w EXCEPT !.pendsv = TRUE])
      BY <2>2, CondRescheduleOK
  <2>4. /\ v.current = w.current /\ v.timed_out = w.timed_out /\ (w.pendsv => v.pendsv)
        /\ v.main_list = w.main_list /\ v.timeouts = w.timeouts
    <3>1. w \in KernelStates
        BY <2>2 DEF KernelOK
    <3>2. v = w \/ v = [w EXCEPT !.pendsv = TRUE]
        BY <2>3
    <3> HIDE DEF v
    <3>3. CASE v = w
        BY <3>3
    <3>4. CASE v = [w EXCEPT !.pendsv = TRUE]
        BY ONLY <3>1, <3>4 DEF KernelStates
    <3> QED
        BY <3>2, <3>3, <3>4
  <2> HIDE DEF v
  <2>5. n = v \/ n = w
      BY <1>2, <1>4 DEF v
  <2>6. /\ KernelOK(n) /\ n.current = k.current /\ n.timed_out = k.timed_out
        /\ k.pendsv => n.pendsv
      BY <1>1, <2>2, <2>3, <2>4, <2>5 DEF SameButLists
  <2>7. /\ k.main_list[u] = m
        /\ n.main_list = [k.main_list EXCEPT ![u] = Running]
        /\ Elements(n.timeouts) = Elements(k.timeouts) \ {u}
      BY <1>1, <2>1, <2>2, <2>4, <2>5
  <2> QED
      BY <2>1, <2>6, <2>7 DEF Unlocked
<1> QED
    BY <1>3, <1>4

\* An unlock of the current task leaves the rest as it should be.
LEMMA UnlockedSound ==
    ASSUME NEW k, Sound(k), NEW m \in Mutexes, NEW n, Unlocked(k, n, m)
    PROVE  /\ Sound(n)
           /\ \A u \in Tasks : \/ n.main_list[u] = k.main_list[u]
                               \/ /\ n.main_list[u] = Running /\ k.main_list[u] = m
                                  /\ u \notin Elements(n.timeouts)
           /\ Elements(n.timeouts) \subseteq Elements(k.timeouts)
<1>1. k.main_list \in [Tasks -> ListIds \cup {NoList}] /\ KernelOK(n)
    BY DEF Sound, KernelOK, KernelStates, Unlocked
<1>2. /\ \A u \in Tasks : \/ n.main_list[u] = k.main_list[u]
                          \/ /\ n.main_list[u] = Running /\ k.main_list[u] = m
                             /\ u \notin Elements(n.timeouts)
      /\ Elements(n.timeouts) \subseteq Elements(k.timeouts)
    BY <1>1 DEF Unlocked
<1>3. Elements(n.timeouts) \subseteq Tasks
  <2>1. n.timeouts \in Seq(Tasks)
      BY <1>1 DEF KernelOK, KernelStates
  <2> QED
      BY <2>1, ElementsOfSeq
<1> QED
    BY <1>1, <1>2, <1>3, MutexNames DEF Sound, Unlocked

\* t waits for m.
AsleepFor(k, n, t, m) ==
    /\ Sound(n) /\ n.pendsv
    /\ n.current = k.current /\ n.timed_out = k.timed_out
    /\ n.main_list = [k.main_list EXCEPT ![t] = m]
    /\ n.timeouts = k.timeouts

LEMMA LockCalm ==
    ASSUME NEW k, Sound(k), NEW t \in AppTasks, k.current = t, k.main_list[t] = Running,
           NEW m \in Mutexes, owner[m] \in Tasks
    PROVE  AsleepFor(k, gyros__reschedule(Inherit(gyros__task_move(k, t, m), m)), t, m)
<1> DEFINE o == owner[m]
           a == gyros__task_move(k, t, m)
           b == Inherit(a, m)
           n == gyros__reschedule(b)
<1>1. Moved(k, a, t, m) /\ a.timeouts = k.timeouts
  <2>1. t \in Tasks /\ t # Idle /\ m \in Objects /\ m # Running
      BY ListNames
  <2> QED
      BY <2>1, MoveSound
<1> HIDE DEF a
<1>2. /\ Sound(a) /\ a.current = t /\ a.timed_out = k.timed_out
      /\ a.main_list = [k.main_list EXCEPT ![t] = m]
    BY <1>1 DEF Moved, SameTasks
<1>3. /\ Sound(b) /\ b.main_list = a.main_list /\ b.timeouts = a.timeouts
      /\ b.current = t /\ b.timed_out = a.timed_out
  <2> DEFINE q == a.priority[t]
  <2>1. q \in Priorities \cup {0} /\ KernelOK(a)
    <3>1. KernelOK(a) /\ t \in Tasks
        BY <1>2, MutexNames DEF Sound
    <3>2. a.priority \in [Tasks -> Priorities \cup {0}]
        BY <3>1, Priorities0
    <3> QED
        BY ONLY <3>1, <3>2
  <2>2. b = a \/ b = gyros__set_priority(a, o, q)
      BY <1>2 DEF Inherit
  <2> HIDE DEF q, o, b
  <2>3. LET c == gyros__set_priority(a, o, q)
        IN  /\ KernelOK(c) /\ c.current = a.current /\ c.timed_out = a.timed_out
            /\ c.main_list = a.main_list /\ c.timeouts = a.timeouts
    <3>1. o \in Tasks
        BY DEF o
    <3> QED
        BY <2>1, <3>1, SetPriorityOK
  <2> QED
      BY <1>2, <2>2, <2>3 DEF Sound
<1> HIDE DEF b
<1>4. Scheduled(b, n) /\ n.pendsv
    BY <1>3, RescheduleSound
<1> HIDE DEF n
<1>5. AsleepFor(k, n, t, m)
    BY <1>1, <1>2, <1>3, <1>4 DEF AsleepFor, Scheduled, ScheduleOK, SameTasks
<1> QED
    BY <1>5 DEF n, b, a

\* t has given m up and waits for c.
GivenUp(k, n, t, c) ==
    /\ Sound(n) /\ n.pendsv /\ n.current = k.current
    /\ n.main_list[t] = c
    /\ \A u \in Tasks \ {t} :
           /\ \/ n.main_list[u] = k.main_list[u]
              \/ /\ n.main_list[u] = Running
                 /\ u \notin Elements(n.timeouts)
           /\ n.timed_out[u] = k.timed_out[u]
           /\ u \in Elements(n.timeouts) => u \in Elements(k.timeouts)

LEMMA GiveUpCalm ==
    ASSUME NEW k, Sound(k), NEW t \in AppTasks, k.current = t, k.main_list[t] = Running,
           NEW m \in Mutexes, NEW c \in Conds, NEW a,
           a = k \/ \E timeout \in Time : a = gyros__task_set_timeout(k, timeout)
    PROVE  GivenUp(k, Wait(UnlockSlow(a, m, FALSE), c), t, c)
<1> DEFINE u == UnlockSlow(a, m, FALSE)
           w == gyros__task_move(u, t, c)
           n == gyros__reschedule(w)
<1>1. /\ KernelOK(k) /\ t \in Tasks /\ t # Idle /\ c \in ListIds /\ c \in Objects
      /\ t \notin Elements(k.timeouts)
    BY MutexNames, CondNames DEF Sound
<1>2. /\ KernelOK(a) /\ a.current = t /\ a.main_list = k.main_list
      /\ \A x \in Tasks \ {t} : a.timed_out[x] = k.timed_out[x]
      /\ Elements(a.timeouts) \subseteq Elements(k.timeouts) \cup {t}
  <2>1. CASE a = k
      BY <1>1, <2>1
  <2>2. ASSUME NEW timeout \in Time, a = gyros__task_set_timeout(k, timeout)
        PROVE  /\ KernelOK(a) /\ a.current = t /\ a.main_list = k.main_list
               /\ \A x \in Tasks \ {t} : a.timed_out[x] = k.timed_out[x]
               /\ Elements(a.timeouts) \subseteq Elements(k.timeouts) \cup {t}
    <3>1. LET b == gyros__task_set_timeout(k, timeout)
          IN  /\ KernelOK(b) /\ b.current = k.current /\ b.main_list = k.main_list
              /\ b.timed_out = [k.timed_out EXCEPT ![k.current] = FALSE]
              /\ Elements(b.timeouts) = Elements(k.timeouts) \cup {k.current}
        BY <1>1, SetTimeoutOK
    <3>2. k.timed_out \in [Tasks -> BOOLEAN]
        BY <1>1 DEF KernelOK, KernelStates
    <3> QED
        BY <2>2, <3>1, <3>2
  <2> QED
      BY <2>1, <2>2
<1>3. Unlocked(a, u, m)
    BY <1>1, <1>2, UnlockCalm
<1> HIDE DEF u
<1>4. k.main_list \in [Tasks -> ListIds \cup {NoList}]
    BY <1>1 DEF KernelOK, KernelStates
<1>5. /\ KernelOK(u) /\ u.current = t
      /\ \A x \in Tasks : \/ u.main_list[x] = k.main_list[x]
                          \/ u.main_list[x] = Running /\ x \notin Elements(u.timeouts)
      /\ \A x \in Tasks \ {t} : u.timed_out[x] = k.timed_out[x]
      /\ Elements(u.timeouts) \subseteq Elements(k.timeouts) \cup {t}
  <2>1. /\ KernelOK(u) /\ u.current = t /\ u.timed_out = a.timed_out
      BY <1>2, <1>3 DEF Unlocked
  <2>2. CASE u.main_list = a.main_list /\ u.timeouts = a.timeouts
      BY <1>2, <2>1, <2>2
  <2>3. ASSUME NEW y \in Tasks, u.main_list = [a.main_list EXCEPT ![y] = Running],
               Elements(u.timeouts) = Elements(a.timeouts) \ {y}
        PROVE  /\ \A x \in Tasks : \/ u.main_list[x] = k.main_list[x]
                                   \/ u.main_list[x] = Running /\ x \notin Elements(u.timeouts)
               /\ Elements(u.timeouts) \subseteq Elements(k.timeouts) \cup {t}
    <3>1. u.main_list = [k.main_list EXCEPT ![y] = Running]
        BY <1>2, <2>3
    <3>2. DOMAIN k.main_list = Tasks
        BY <1>4
    <3>3. \A x \in Tasks : u.main_list[x] = IF x = y THEN Running ELSE k.main_list[x]
        BY <3>1, <3>2
    <3>4. y \notin Elements(u.timeouts)
        BY <2>3
    <3>5. Elements(u.timeouts) \subseteq Elements(k.timeouts) \cup {t}
        BY <1>2, <2>3
    <3> QED
        BY <3>3, <3>4, <3>5
  <2>4. \/ u.main_list = a.main_list /\ u.timeouts = a.timeouts
        \/ \E y \in Tasks : /\ u.main_list = [a.main_list EXCEPT ![y] = Running]
                            /\ Elements(u.timeouts) = Elements(a.timeouts) \ {y}
      BY <1>3 DEF Unlocked
  <2> QED
      BY <1>2, <2>1, <2>2, <2>3, <2>4
<1>6. /\ KernelOK(w) /\ SameButLists(u, w)
      /\ w.main_list = [u.main_list EXCEPT ![t] = c] /\ w.timeouts = u.timeouts
    BY <1>1, <1>5, TaskMoveOK
<1>7. Wait(u, c) = n
    BY <1>5 DEF Wait
<1> HIDE DEF w
<1>8. KernelOK(n) /\ n = [w EXCEPT !.pendsv = TRUE]
    BY <1>6, RescheduleOK
<1>9. /\ n.pendsv /\ n.current = w.current /\ n.timed_out = w.timed_out
      /\ n.main_list = w.main_list /\ n.timeouts = w.timeouts
    BY <1>6, <1>8 DEF KernelOK, KernelStates
<1> HIDE DEF n
<1>10. u.main_list \in [Tasks -> ListIds \cup {NoList}]
    BY <1>5 DEF KernelOK, KernelStates
<1>11. n.main_list[t] = c /\ \A x \in Tasks \ {t} : n.main_list[x] = u.main_list[x]
    BY <1>1, <1>6, <1>9, <1>10
<1>12. Elements(n.timeouts) \subseteq Tasks
  <2>1. n.timeouts \in Seq(Tasks)
      BY <1>8 DEF KernelOK, KernelStates
  <2> QED
      BY <2>1, ElementsOfSeq
<1>13. \A x \in Tasks \ {t} :
          /\ \/ n.main_list[x] = k.main_list[x]
             \/ n.main_list[x] = Running /\ x \notin Elements(n.timeouts)
          /\ n.timed_out[x] = k.timed_out[x]
          /\ x \in Elements(n.timeouts) => x \in Elements(k.timeouts)
    BY <1>5, <1>6, <1>9, <1>11 DEF SameButLists
<1>14. n.current = t
    BY <1>5, <1>6, <1>9 DEF SameButLists
<1>15. Sound(n)
  <2>1. n.main_list[Idle] = Running
      BY <1>1, <1>13, MutexNames DEF Sound
  <2>2. ASSUME NEW x \in Elements(n.timeouts) PROVE n.main_list[x] \in Objects
    <3>1. x \in Tasks
        BY <1>12
    <3>2. CASE x = t
        BY <1>1, <1>11, <3>2
    <3>3. CASE x # t
        BY <1>13, <3>1, <3>3 DEF Sound
    <3> QED
        BY <3>2, <3>3
  <2> QED
      BY <1>1, <1>8, <1>14, <2>1, <2>2 DEF Sound
<1>16. GivenUp(k, n, t, c)
    BY <1>9, <1>11, <1>13, <1>14, <1>15 DEF GivenUp
<1> QED
    BY <1>7, <1>16 DEF u

-----------------------------------------------------------------------------
(* The steps.                                                              *)

LEMMA CondTypesHere ==
    ASSUME CondInv
    PROVE  /\ Sound(gyros) /\ KernelOK(gyros) /\ LockTypes /\ CondTypes
           /\ DOMAIN pc = Tasks /\ DOMAIN wants = Tasks /\ DOMAIN holds = Tasks
           /\ DOMAIN call = Tasks /\ DOMAIN cond = Tasks
           /\ DOMAIN gyros.main_list = Tasks /\ gyros.main_list[Idle] = Running
           /\ monitor \in BOOLEAN
    BY DEF CondInv, LockInv, LockTypes, CondTypes, Sound, KernelOK, KernelStates

\* A step that leaves the kernel state alone.
LEMMA QuietKeeps ==
    ASSUME CondInv, NEW t \in AppTasks, gyros' = gyros, LockInv', CondTypes',
           Executing(t), cond' = cond, pc'[t] # "cond",
           \A u \in AppTasks \ {t} :
               pc'[u] = pc[u] /\ wants'[u] = wants[u] /\ holds'[u] = holds[u]
    PROVE  CondKeeps(t) /\ gyros'.main_list[t] \notin Conds
<1>1. gyros.main_list[t] = Running /\ t \notin Elements(gyros.timeouts)
    BY ExecutingAwake
<1>2. AtCond(t)'
    BY <1>1, CondNames DEF AtCond
<1>3. CurrentRuns' /\ Sound(gyros')
    BY DEF CondInv, CurrentRuns, Runs
<1> QED
    BY <1>1, <1>2, <1>3, CondNames DEF CondKeeps

\* A mutex function is called, or left, or goes on.
LEMMA StepIsLocal ==
    ASSUME CondInv, NEW t \in AppTasks, MutexStep(t)
    PROVE  /\ Executing(t)
           /\ pc'[t] # "cond"
           /\ \A u \in AppTasks \ {t} :
                  pc'[u] = pc[u] /\ wants'[u] = wants[u] /\ holds'[u] = holds[u]
<1>1. Executing(t)
    BY DEF MutexStep, gyros_ldrex_p, gyros_strex_p, gyros__mutex_try_lock_slow,
       gyros__mutex_lock_slow, gyros__mutex_unlock_slow, Inside, Continues
<1>2. pc[t] # "cond"
    BY DEF MutexStep, gyros_ldrex_p, gyros_strex_p, gyros__mutex_try_lock_slow,
       gyros__mutex_lock_slow, gyros__mutex_unlock_slow, Inside, Continues
<1>3. t \in Tasks /\ DOMAIN pc = Tasks /\ DOMAIN wants = Tasks /\ DOMAIN holds = Tasks
    BY CondTypesHere, MutexNames
<1>4. ASSUME NEW locked, Leave(t, locked)
      PROVE  /\ pc'[t] # "cond"
             /\ \A u \in AppTasks \ {t} :
                    pc'[u] = pc[u] /\ wants'[u] = wants[u] /\ holds'[u] = holds[u]
    BY <1>3, <1>4, MutexNames DEF Leave, Goto
<1>5. ASSUME NEW where, where # "cond", Goto(t, where) \/ UNCHANGED pc, UNCHANGED <<wants, holds>>
      PROVE  /\ pc'[t] # "cond"
             /\ \A u \in AppTasks \ {t} :
                    pc'[u] = pc[u] /\ wants'[u] = wants[u] /\ holds'[u] = holds[u]
    BY <1>2, <1>3, <1>5, MutexNames DEF Goto
<1>6. CASE gyros_ldrex_p(t)
  <2>1. Goto(t, "strex") \/ Goto(t, "slow")
      BY <1>6 DEF gyros_ldrex_p
  <2> QED
      BY <1>1, <1>5, <1>6, <2>1 DEF gyros_ldrex_p
<1>7. CASE gyros_strex_p(t)
    BY <1>1, <1>4, <1>5, <1>7 DEF gyros_strex_p, Store
<1>8. CASE gyros__mutex_try_lock_slow(t)
    BY <1>1, <1>4, <1>8 DEF gyros__mutex_try_lock_slow
<1>9. CASE gyros__mutex_lock_slow(t)
  <2>1. (\E locked : Leave(t, locked)) \/ UNCHANGED <<pc, wants, holds>>
      BY <1>9 DEF gyros__mutex_lock_slow
  <2> QED
      BY <1>1, <1>4, <1>5, <2>1
<1>10. CASE gyros__mutex_unlock_slow(t)
    BY <1>1, <1>4, <1>10 DEF gyros__mutex_unlock_slow
<1> QED
    BY <1>6, <1>7, <1>8, <1>9, <1>10 DEF MutexStep

LEMMA StepCondKeeps ==
    ASSUME CondInv, NEW t \in AppTasks, MutexStep(t), cond' = cond, owes' = owes
    PROVE  CondKeeps(t) /\ gyros'.main_list[t] \notin Conds
<1>1. /\ Executing(t) /\ pc'[t] # "cond"
      /\ \A u \in AppTasks \ {t} :
             pc'[u] = pc[u] /\ wants'[u] = wants[u] /\ holds'[u] = holds[u]
    BY StepIsLocal
<1>2. LockInv' /\ CondTypes'
    BY StepInv, CondTypesHere DEF CondInv, CondTypes
<1>3. /\ gyros.current = t /\ gyros.main_list[t] = Running
      /\ t \notin Elements(gyros.timeouts) /\ t \in Tasks
    BY <1>1, ExecutingAwake
<1>4. CASE gyros' = gyros
    BY <1>1, <1>2, <1>4, QuietKeeps
<1>5. ASSUME NEW m \in Mutexes, AsleepFor(gyros, gyros', t, m)
      PROVE  CondKeeps(t) /\ gyros'.main_list[t] \notin Conds
  <2>1. /\ Sound(gyros') /\ CurrentRuns' /\ gyros'.timed_out = gyros.timed_out
        /\ gyros'.timeouts = gyros.timeouts /\ gyros'.main_list[t] = m
        /\ \A u \in AppTasks \ {t} : gyros'.main_list[u] = gyros.main_list[u]
      BY <1>3, <1>5, CondTypesHere, MutexNames DEF AsleepFor, CurrentRuns
  <2>2. AtCond(t)' /\ m \notin Conds
      BY <1>1, <1>3, <2>1, CondNames DEF AtCond
  <2> QED
      BY <1>1, <1>2, <2>1, <2>2 DEF CondKeeps
<1>6. ASSUME NEW m \in Mutexes, Unlocked(gyros, gyros', m)
      PROVE  CondKeeps(t) /\ gyros'.main_list[t] \notin Conds
  <2>1. /\ Sound(gyros')
        /\ \A u \in Tasks : \/ gyros'.main_list[u] = gyros.main_list[u]
                            \/ /\ gyros'.main_list[u] = Running /\ gyros.main_list[u] = m
                               /\ u \notin Elements(gyros'.timeouts)
        /\ Elements(gyros'.timeouts) \subseteq Elements(gyros.timeouts)
      BY <1>6, UnlockedSound, CondTypesHere
  <2>2. gyros'.main_list[t] = Running /\ gyros'.timed_out = gyros.timed_out
      BY <1>3, <1>6, <2>1 DEF Unlocked
  <2>3. CurrentRuns'
      BY <1>3, <1>6, <2>2 DEF CurrentRuns, Runs, Unlocked
  <2>4. AtCond(t)'
      BY <1>1, <1>3, <2>1, <2>2, CondNames DEF AtCond
  <2> QED
      BY <1>1, <1>2, <2>1, <2>2, <2>3, <2>4, CondNames, MutexNames DEF CondKeeps
<1>7. /\ pc[t] \in InCall => wants[t] \in Mutexes
      /\ owner \in [Mutexes -> AppTasks \cup {NoTask}]
    BY DEF CondInv, LockInv, LockTypes, CallersWant
<1>8. CASE gyros__mutex_lock_slow(t) /\ gyros' # gyros
  <2> DEFINE m == wants[t]
  <2>1. /\ m \in Mutexes /\ owner[m] # NoTask
        /\ gyros' = gyros__reschedule(Inherit(gyros__task_move(gyros, t, m), m))
      BY <1>7, <1>8 DEF gyros__mutex_lock_slow, Inside, Continues, InCall
  <2>2. owner[m] \in Tasks
      BY <1>7, <2>1, MutexNames
  <2> HIDE DEF m
  <2>3. AsleepFor(gyros, gyros', t, m)
      BY <1>3, <2>1, <2>2, LockCalm, CondTypesHere
  <2> QED
      BY <1>5, <2>1, <2>3
<1>9. CASE gyros__mutex_unlock_slow(t)
  <2> DEFINE m == wants[t]
  <2>1. m \in Mutexes /\ gyros' = UnlockSlow(gyros, m, TRUE)
      BY <1>7, <1>9 DEF gyros__mutex_unlock_slow, Inside, Continues, InCall
  <2> HIDE DEF m
  <2>2. Unlocked(gyros, gyros', m)
      BY <1>3, <2>1, UnlockCalm, CondTypesHere
  <2> QED
      BY <1>6, <2>1, <2>2
<1>10. CASE gyros_ldrex_p(t) \/ gyros_strex_p(t) \/ gyros__mutex_try_lock_slow(t)
    BY <1>4, <1>10 DEF gyros_ldrex_p, gyros_strex_p, gyros__mutex_try_lock_slow
<1> QED
    BY <1>4, <1>8, <1>9, <1>10 DEF MutexStep

\* A task enters a mutex function, from its own code or from a wait.
LEMMA EnterCondKeeps ==
    ASSUME CondInv, NEW t \in AppTasks, Executing(t), NEW m \in Mutexes,
           NEW function \in {"try_lock", "lock", "unlock"}, Enter(t, function, m),
           IF function = "unlock"
           THEN m \in holds[t] /\ holds' = [holds EXCEPT ![t] = @ \ {m}]
           ELSE m \notin holds[t] /\ UNCHANGED holds,
           UNCHANGED <<gyros, owner, monitor>>, cond' = cond, owes' = owes
    PROVE  CondKeeps(t) /\ gyros'.main_list[t] \notin Conds
<1>1. LockInv'
    BY EnterInv DEF CondInv
<1>2. CondTypes'
    BY CondTypesHere DEF CondTypes
<1>3. /\ pc'[t] # "cond"
      /\ \A u \in AppTasks \ {t} :
             pc'[u] = pc[u] /\ wants'[u] = wants[u] /\ holds'[u] = holds[u]
    BY CondTypesHere, MutexNames DEF Enter, Goto
<1> QED
    BY <1>1, <1>2, <1>3, QuietKeeps

-----------------------------------------------------------------------------
(* What each step does.                                                    *)

OneCondition == \A c, d \in Conds : c = d

\* A step of t keeps the invariant and loses no signal.
Advances(t) ==
    /\ CondKeeps(t)
    /\ OneCondition /\ NoLostSignal => NoLostSignal'

LEMMA ScheduledRuns ==
    ASSUME ScheduleOK(gyros')
    PROVE  Sound(gyros') /\ CurrentRuns'
<1>1. ASSUME ~gyros'.pendsv PROVE gyros'.main_list[gyros'.current] = Running
    BY <1>1, CurrentIsHighest
<1> QED
    BY <1>1 DEF ScheduleOK, CurrentRuns, Runs

\* The switch to another task.
LEMMA SwitchAdvances ==
    ASSUME CondInv, SwitchStep
    PROVE  Advances(Idle)
<1> DEFINE n == PendSV_Handler(gyros)
<1>1. Sound(gyros) /\ gyros' = n
    BY CondTypesHere DEF SwitchStep, CondSwitch, MutexSwitch, ContextSwitch
<1>2. /\ ScheduleOK(n)
      /\ n = [gyros EXCEPT !.current = Head(gyros.lists[Running]), !.pendsv = FALSE]
      /\ n.main_list = gyros.main_list /\ n.timeouts = gyros.timeouts
    BY <1>1, SwitchSound
<1>3. n.timed_out = gyros.timed_out
    BY <1>2
<1> HIDE DEF n
<1>4. Sound(gyros') /\ CurrentRuns'
    BY <1>1, <1>2, ScheduledRuns
<1>5. LockInv'
    BY SwitchInv DEF CondInv, SwitchStep, CondSwitch
<1>6. /\ UNCHANGED <<pc, wants, holds, cond, ready, owes>>
    BY DEF SwitchStep, CondSwitch, MutexSwitch, ContextSwitch, condVars
<1>7. CondTypes'
    BY <1>6, CondTypesHere DEF CondTypes
<1>8. CondKeeps(Idle)
    BY <1>1, <1>2, <1>3, <1>4, <1>5, <1>6, <1>7, MutexNames DEF CondKeeps
<1> QED
    BY <1>6, <1>8, KeepsSignals, MutexNames DEF Advances

\* The timer interrupt.
LEMMA TickAdvances ==
    ASSUME CondInv, TickStep
    PROVE  Advances(Idle)
<1> DEFINE now == (gyros.now + 1) % TimeRange
<1>1. Sound(gyros) /\ KernelOK(gyros) /\ gyros' = gyros__tick(gyros, now)
    BY CondTypesHere DEF TickStep, CondTick, Tick
<1>2. now \in Time
    BY <1>1, LaterIsTime
<1> HIDE DEF now
<1>3. Sound(gyros') /\ Ticked(gyros, gyros')
    BY <1>1, <1>2, TickKeeps
<1>4. /\ UNCHANGED <<pc, owner, call, wants, holds, cond, ready, owes>>
      /\ monitor' = FALSE
    BY DEF TickStep, CondTick, Tick, condVars
<1>5. LockInv'
  <2>1. SameCurrent(gyros, gyros')
      BY <1>3 DEF Ticked, SameCurrent, Sound, KernelOK, KernelStates
  <2>2. OnlyKernel
      BY <1>4, <2>1 DEF OnlyKernel
  <2> QED
      BY <1>4, <2>2, OnlyKernelInv DEF CondInv
<1>6. CondTypes'
    BY <1>4, CondTypesHere DEF CondTypes
<1>7. CurrentRuns'
  <2>1. gyros.current \in Tasks
      BY <1>1 DEF Sound
  <2> QED
      BY <1>3, <2>1 DEF CondInv, CurrentRuns, Runs, Ticked
<1>8. \A u \in AppTasks :
          /\ gyros'.main_list[u] \in Conds => gyros'.main_list[u] = gyros.main_list[u]
          /\ u \in Elements(gyros'.timeouts) =>
                 u \in Elements(gyros.timeouts) /\ gyros'.main_list[u] = gyros.main_list[u]
          /\ \/ gyros'.timed_out[u] = gyros.timed_out[u]
             \/ u \in Elements(gyros.timeouts)
    BY <1>3, CondNames, MutexNames DEF Ticked
<1>9. CondKeeps(Idle)
    BY <1>3, <1>4, <1>5, <1>6, <1>7, <1>8, MutexNames DEF CondKeeps
<1> QED
    BY <1>4, <1>9, KeepsSignals, MutexNames DEF Advances

\* A task suspends itself.
LEMMA RestAdvances ==
    ASSUME CondInv, NEW t \in AppTasks, RestStep(t)
    PROVE  Advances(t)
<1> DEFINE a == RemoveTimeout(gyros__task_suspend(gyros, t), t)
<1>1. /\ Executing(t) /\ gyros' = gyros__reschedule(a)
      /\ UNCHANGED <<wants, holds, cond, ready, owes>>
      /\ pc' = [pc EXCEPT ![t] = "rest"]
    BY DEF RestStep, MutexRest, Rest, Calls, Goto, mutexVars, condVars
<1>2. Moved(gyros, a, t, NoList) /\ Elements(a.timeouts) = Elements(gyros.timeouts) \ {t}
    BY SuspendSound, CondTypesHere
<1> HIDE DEF a
<1>3. Scheduled(a, gyros')
    BY <1>1, <1>2, RescheduleSound DEF Moved
<1>4. Sound(gyros') /\ CurrentRuns'
    BY <1>3, ScheduledRuns DEF Scheduled
<1>5. LockInv'
    BY SurroundingsInv DEF CondInv, RestStep
<1>6. CondTypes'
    BY <1>1, CondTypesHere DEF CondTypes
<1>7. /\ gyros'.main_list = [gyros.main_list EXCEPT ![t] = NoList]
      /\ gyros'.timed_out = gyros.timed_out
      /\ Elements(gyros'.timeouts) = Elements(gyros.timeouts) \ {t}
    BY <1>2, <1>3 DEF Moved, Scheduled, SameTasks
<1>8. t \in Tasks /\ gyros'.main_list[t] = NoList /\ pc'[t] = "rest"
    BY <1>1, <1>7, CondTypesHere, MutexNames
<1>9. AtCond(t)'
    BY <1>7, <1>8, CondNames DEF AtCond
<1>10. \A u \in AppTasks \ {t} :
           pc'[u] = pc[u] /\ gyros'.main_list[u] = gyros.main_list[u]
    BY <1>1, <1>7, CondTypesHere, MutexNames
<1>11. CondKeeps(t)
    BY <1>1, <1>4, <1>5, <1>6, <1>7, <1>9, <1>10 DEF CondKeeps
<1> QED
    BY <1>1, <1>8, <1>11, KeepsSignals, CondNames DEF Advances

\* It is resumed.
LEMMA ResumeAdvances ==
    ASSUME CondInv, NEW t \in AppTasks, ResumeStep(t)
    PROVE  Advances(t)
<1> DEFINE a == gyros__task_move(gyros, t, Running)
<1>1. /\ pc[t] = "rest" /\ gyros' = gyros__cond_reschedule(a)
      /\ UNCHANGED <<wants, holds, cond, ready, owes>>
      /\ pc' = [pc EXCEPT ![t] = "task"]
    BY DEF ResumeStep, MutexResume, Resume, Goto, mutexVars, condVars
<1>2. t \notin Elements(gyros.timeouts) /\ t \in Tasks
    BY <1>1, MutexNames DEF CondInv, AtCond
<1>3. Moved(gyros, a, t, Running) /\ a.timeouts = gyros.timeouts
    BY <1>2, MoveSound, CondTypesHere
<1> HIDE DEF a
<1>4. Scheduled(a, gyros')
    BY <1>1, <1>3, RescheduleSound DEF Moved
<1>5. Sound(gyros') /\ CurrentRuns'
    BY <1>4, ScheduledRuns DEF Scheduled
<1>6. LockInv'
    BY SurroundingsInv DEF CondInv, ResumeStep
<1>7. CondTypes'
    BY <1>1, CondTypesHere DEF CondTypes
<1>8. /\ gyros'.main_list = [gyros.main_list EXCEPT ![t] = Running]
      /\ gyros'.timed_out = gyros.timed_out
      /\ gyros'.timeouts = gyros.timeouts
    BY <1>3, <1>4 DEF Moved, Scheduled, SameTasks
<1>9. gyros'.main_list[t] = Running /\ pc'[t] = "task"
    BY <1>1, <1>2, <1>8, CondTypesHere
<1>10. AtCond(t)'
    BY <1>2, <1>8, <1>9, CondNames DEF AtCond
<1>11. \A u \in AppTasks \ {t} :
           pc'[u] = pc[u] /\ gyros'.main_list[u] = gyros.main_list[u]
    BY <1>1, <1>8, CondTypesHere, MutexNames
<1>12. CondKeeps(t)
    BY <1>1, <1>5, <1>6, <1>7, <1>8, <1>10, <1>11 DEF CondKeeps
<1> QED
    BY <1>1, <1>2, <1>9, <1>12, KeepsSignals, CondNames DEF Advances

\* It calls a mutex function of its own accord.
LEMMA LockAdvances ==
    ASSUME CondInv, NEW t \in AppTasks, LockStep(t)
    PROVE  Advances(t)
<1>1. PICK m \in Mutexes : gyros_mutex_lock(t, m) \/ gyros_mutex_unlock(t, m)
    BY DEF LockStep
<1>2. UNCHANGED <<cond, ready, owes>> /\ Executing(t)
    BY <1>1 DEF LockStep, condVars, gyros_mutex_lock, gyros_mutex_unlock, Calls
<1>3. CASE gyros_mutex_lock(t, m)
  <2>1. /\ m \notin holds[t] /\ Enter(t, "lock", m) /\ UNCHANGED holds
        /\ UNCHANGED <<gyros, owner, monitor>>
      BY <1>3 DEF gyros_mutex_lock
  <2>2. CondKeeps(t) /\ gyros'.main_list[t] \notin Conds
      BY <1>2, <2>1, EnterCondKeeps
  <2> QED
      BY <1>2, <2>2, KeepsSignals, MutexNames DEF Advances
<1>4. CASE gyros_mutex_unlock(t, m)
  <2>1. /\ m \in holds[t] /\ Enter(t, "unlock", m) /\ holds' = [holds EXCEPT ![t] = @ \ {m}]
        /\ UNCHANGED <<gyros, owner, monitor>>
      BY <1>4 DEF gyros_mutex_unlock
  <2>2. CondKeeps(t) /\ gyros'.main_list[t] \notin Conds
      BY <1>2, <2>1, EnterCondKeeps
  <2> QED
      BY <1>2, <2>2, KeepsSignals, MutexNames DEF Advances
<1> QED
    BY <1>1, <1>3, <1>4

\* It goes on in a mutex function, or calls it from a wait it has been woken in.
LEMMA InsideAdvances ==
    ASSUME CondInv, NEW t \in AppTasks, InsideStep(t)
    PROVE  Advances(t)
<1>1. CASE MutexStep(t) /\ UNCHANGED condVars
  <2>1. UNCHANGED <<cond, ready, owes>>
      BY <1>1 DEF InsideStep, condVars
  <2>2. CondKeeps(t) /\ gyros'.main_list[t] \notin Conds
      BY <1>1, <2>1, StepCondKeeps
  <2> QED
      BY <2>1, <2>2, KeepsSignals, MutexNames DEF Advances
<1>2. CASE CondWoken(t)
  <2>1. /\ Executing(t) /\ pc[t] = "cond" /\ Enter(t, "lock", wants[t])
        /\ UNCHANGED <<gyros, owner, holds, monitor, cond, ready, owes>>
      BY <1>2 DEF CondWoken, Continues, InsideStep, condVars
  <2>2. wants[t] \in Mutexes /\ wants[t] \notin holds[t]
      BY <2>1 DEF CondInv, AtCond
  <2>3. CondKeeps(t) /\ gyros'.main_list[t] \notin Conds
      BY <2>1, <2>2, EnterCondKeeps
  <2> QED
      BY <2>1, <2>3, KeepsSignals, MutexNames DEF Advances
<1> QED
    BY <1>1, <1>2 DEF InsideStep, CondStep

\* It sets the flag, and owes a signal.
LEMMA ProduceAdvances ==
    ASSUME CondInv, NEW t \in AppTasks, NEW m \in Mutexes, Produce(t, m)
    PROVE  Advances(t)
<1>1. /\ Executing(t) /\ pc[t] = "task" /\ owes' = owes \cup {t}
      /\ UNCHANGED <<gyros, pc, owner, call, wants, holds, monitor, cond>>
    BY DEF Produce, Calls, mutexVars, condVars
<1>2. LockInv'
    BY <1>1 DEF CondInv, LockInv, LockTypes, HoldersOwn, CallersWant, UnlockersOwn, StoreIsSafe
<1>3. CondTypes'
    BY <1>1, CondTypesHere DEF CondTypes
<1>4. CondKeeps(t)
    BY <1>1, <1>2, <1>3, QuietKeeps
<1>5. NoLostSignal'
    BY <1>1 DEF NoLostSignal
<1> QED
    BY <1>4, <1>5 DEF Advances

\* The wait returns.
LEMMA ReturnAdvances ==
    ASSUME CondInv, NEW t \in AppTasks, ReturnStep(t)
    PROVE  Advances(t)
<1>1. /\ Executing(t) /\ pc[t] = "task" /\ Waiting(t)
      /\ gyros' = ForgetTimeout(gyros, t) /\ cond' = [cond EXCEPT ![t] = NoList]
      /\ UNCHANGED <<pc, owner, call, wants, holds, monitor, owes>> /\ ready' = FALSE
    BY DEF ReturnStep, CondReturn, Calls, mutexVars
<1>2. /\ gyros.main_list[t] = Running /\ t \notin Elements(gyros.timeouts) /\ t \in Tasks
    BY <1>1, ExecutingAwake
<1>3. Forgotten(gyros, gyros', t)
    BY <1>1, <1>2, ForgetSound, CondTypesHere
<1>4. LockInv'
  <2>1. SameCurrent(gyros, gyros') /\ monitor \in BOOLEAN
      BY <1>3, CondTypesHere DEF Forgotten, SameCurrent, Sound, KernelOK, KernelStates
  <2>2. OnlyKernel
      BY <1>1, <2>1 DEF OnlyKernel
  <2> QED
      BY <1>1, <2>2, OnlyKernelInv DEF CondInv
<1>5. CondTypes' /\ cond'[t] = NoList /\ \A u \in AppTasks \ {t} : cond'[u] = cond[u]
    BY <1>1, <1>2, CondTypesHere, MutexNames DEF CondTypes
<1>6. AtCond(t)'
    BY <1>1, <1>2, <1>3, CondNames DEF AtCond, Forgotten
<1>7. \A u \in AppTasks \ {t} : gyros'.timed_out[u] = gyros.timed_out[u]
  <2>1. DOMAIN gyros.timed_out = Tasks
      BY CondTypesHere DEF KernelOK, KernelStates
  <2> QED
      BY <1>3, <2>1, MutexNames DEF Forgotten
<1>8. CurrentRuns' /\ Sound(gyros')
    BY <1>3 DEF CondInv, CurrentRuns, Runs, Forgotten
<1>9. CondKeeps(t)
    BY <1>1, <1>3, <1>4, <1>5, <1>6, <1>7, <1>8 DEF CondKeeps, Waiting, Forgotten
<1>10. NoLostSignal'
    BY <1>1 DEF NoLostSignal
<1> QED
    BY <1>9, <1>10 DEF Advances

\* Tasks that sleep in c are woken, one at least if there are any.
Signalled(k, n, c) ==
    /\ Sound(n) /\ n.current = k.current /\ n.timed_out = k.timed_out
    /\ \A u \in Tasks :
           \/ n.main_list[u] = k.main_list[u]
           \/ /\ n.main_list[u] = Running /\ k.main_list[u] = c
              /\ u \notin Elements(n.timeouts)
    /\ Elements(n.timeouts) \subseteq Elements(k.timeouts)
    /\ \/ \A u \in Tasks : k.main_list[u] # c
       \/ \E u \in Tasks : k.main_list[u] = c /\ n.main_list[u] = Running

LEMMA SignalOne ==
    ASSUME NEW k, Sound(k), NEW c \in Conds
    PROVE  Signalled(k, WakeFirst(k, c), c)
<1> DEFINE n == WakeFirst(k, c)
<1>1. FirstWoken(k, n, c)
    BY WakeFirstSound, CondNames
<1> SUFFICES Signalled(k, n, c)
    OBVIOUS
<1> HIDE DEF n
<1>2. DOMAIN k.main_list = Tasks
    BY DEF Sound, KernelOK, KernelStates
<1>3. CASE n = k /\ \A x \in Tasks : k.main_list[x] # c
  <2>1. n = k /\ Elements(n.timeouts) \subseteq Elements(k.timeouts)
      BY <1>3
  <2> QED
      BY <1>3, <2>1 DEF Signalled
<1>4. ASSUME NEW u \in Tasks, k.main_list[u] = c,
             n.main_list = [k.main_list EXCEPT ![u] = Running],
             Elements(n.timeouts) = Elements(k.timeouts) \ {u}
      PROVE  Signalled(k, n, c)
  <2>1. \A x \in Tasks : n.main_list[x] = IF x = u THEN Running ELSE k.main_list[x]
      BY <1>2, <1>4
  <2>2. \A x \in Tasks :
           \/ n.main_list[x] = k.main_list[x]
           \/ /\ n.main_list[x] = Running /\ k.main_list[x] = c
              /\ x \notin Elements(n.timeouts)
      BY <1>4, <2>1
  <2>3. n.main_list[u] = Running
      BY <2>1
  <2>4. Elements(n.timeouts) \subseteq Elements(k.timeouts)
      BY <1>4
  <2>5. Sound(n) /\ n.current = k.current /\ n.timed_out = k.timed_out
      BY <1>1 DEF FirstWoken, SameTasks
  <2> QED
      BY <1>4, <2>2, <2>3, <2>4, <2>5 DEF Signalled
<1> QED
    BY <1>1, <1>3, <1>4 DEF FirstWoken

LEMMA SignalAll ==
    ASSUME NEW k, Sound(k), NEW c \in Conds
    PROVE  Signalled(k, gyros__cond_reschedule(WakeAllFromTail(k, c)), c)
<1> DEFINE w == WakeAllFromTail(k, c)
           n == gyros__cond_reschedule(w)
<1>1. AllWoken(k, w, c)
    BY WakeAllSound, CondNames
<1> HIDE DEF w
<1>2. Scheduled(w, n)
    BY <1>1, RescheduleSound DEF AllWoken
<1> HIDE DEF n
<1>3. /\ Sound(n) /\ n.current = k.current /\ n.timed_out = k.timed_out
      /\ \A u \in Tasks : n.main_list[u] = IF k.main_list[u] = c THEN Running ELSE k.main_list[u]
      /\ Elements(n.timeouts) = {u \in Elements(k.timeouts) : k.main_list[u] # c}
    BY <1>1, <1>2 DEF AllWoken, Scheduled, ScheduleOK, SameTasks
<1>4. Signalled(k, n, c)
    BY <1>3 DEF Signalled
<1> QED
    BY <1>4 DEF n, w

\* It signals a condition.
LEMMA SignalAdvances ==
    ASSUME CondInv, NEW t \in AppTasks, SignalStep(t)
    PROVE  Advances(t)
<1>1. PICK c \in Conds : gyros_cond_signal_one(t, c) \/ gyros_cond_signal_all(t, c)
    BY DEF SignalStep
<1>2. /\ Executing(t) /\ pc[t] = "task" /\ owes' \subseteq owes
      /\ UNCHANGED <<pc, owner, call, wants, holds, monitor, cond, ready>>
    BY <1>1 DEF SignalStep, gyros_cond_signal_one, gyros_cond_signal_all, CondCalls, Calls,
                mutexVars, condVars
<1>3. Sound(gyros) /\ Elements(gyros.lists[c]) = {u \in AppTasks : gyros.main_list[u] = c}
    BY CondTypesHere, SleepersAre
<1>4. Signalled(gyros, gyros', c)
  <2>1. CASE gyros' = WakeFirst(gyros, c)
      BY <1>3, <2>1, SignalOne
  <2>2. CASE gyros' = gyros__cond_reschedule(WakeAllFromTail(gyros, c))
      BY <1>3, <2>2, SignalAll
  <2>3. CASE gyros' = gyros /\ Waiters(c) = {}
    <3>1. \A u \in Tasks : gyros.main_list[u] # c
        BY <1>3, <2>3, CondTypesHere, CondNames DEF Waiters, AppTasks
    <3> QED
        BY <1>3, <2>3, <3>1 DEF Signalled
  <2> QED
      BY <1>1, <2>1, <2>2, <2>3 DEF gyros_cond_signal_one, gyros_cond_signal_all
<1>5. /\ gyros.main_list[t] = Running /\ t \notin Elements(gyros.timeouts) /\ t \in Tasks
      /\ gyros.current = t
    BY <1>2, ExecutingAwake
<1>6. LockInv'
  <2>1. SameCurrent(gyros, gyros') /\ monitor \in BOOLEAN
      BY <1>4, CondTypesHere DEF Signalled, SameCurrent, Sound, KernelOK, KernelStates
  <2>2. OnlyKernel
      BY <1>2, <2>1 DEF OnlyKernel
  <2> QED
      BY <1>2, <2>2, OnlyKernelInv DEF CondInv
<1>7. CondTypes'
    BY <1>2, CondTypesHere DEF CondTypes
<1>8. gyros'.main_list[t] = Running
    BY <1>4, <1>5 DEF Signalled
<1>9. CurrentRuns' /\ Sound(gyros')
    BY <1>4, <1>5, <1>8 DEF CurrentRuns, Runs, Signalled
<1>10. AtCond(t)'
    BY <1>2, <1>4, <1>5, <1>8, CondNames DEF AtCond, Signalled
<1>11. \A u \in AppTasks :
          /\ gyros'.main_list[u] \in Conds => gyros'.main_list[u] = gyros.main_list[u]
          /\ u \in Elements(gyros'.timeouts) =>
                 u \in Elements(gyros.timeouts) /\ gyros'.main_list[u] = gyros.main_list[u]
          /\ gyros'.timed_out[u] = gyros.timed_out[u]
    BY <1>4, CondNames, MutexNames DEF Signalled
<1>12. CondKeeps(t)
    BY <1>2, <1>6, <1>7, <1>9, <1>10, <1>11 DEF CondKeeps
<1>13. ASSUME OneCondition PROVE NoLostSignal'
  <2> SUFFICES ASSUME NEW d \in Conds, Waiters(d)' # {}
               PROVE  \E x \in AppTasks : cond'[x] = d /\ x \notin Waiters(d)'
      BY DEF NoLostSignal
  <2>1. d = c
      BY <1>13 DEF OneCondition
  <2>2. Elements(gyros'.lists[c]) = {u \in AppTasks : gyros'.main_list[u] = c}
      BY <1>9, SleepersAre
  <2>3. Waiters(d)' = {u \in AppTasks : gyros'.main_list[u] = c}
      BY <2>1, <2>2 DEF Waiters
  <2>4. \E u \in Tasks : gyros.main_list[u] = c
      BY <1>11, <2>3, MutexNames
  <2>5. PICK u \in Tasks : gyros.main_list[u] = c /\ gyros'.main_list[u] = Running
      BY <1>4, <2>4 DEF Signalled
  <2>6. u \in AppTasks
      BY <2>5, CondTypesHere, CondNames DEF AppTasks
  <2>7. cond[u] = c
      BY <2>5, <2>6 DEF CondInv, AtCond
  <2> QED
      BY <1>2, <2>1, <2>3, <2>5, <2>6, <2>7, CondNames
<1> QED
    BY <1>12, <1>13 DEF Advances

\* It gives the mutex up and waits for c; k is the kernel state it starts from.
LEMMA ReleaseKeeps ==
    ASSUME CondInv, NEW t \in AppTasks, CondCalls(t), NEW c \in Conds,
           NEW m \in Mutexes, m \in holds[t], NEW k,
           k = gyros \/ \E timeout \in Time : k = gyros__task_set_timeout(gyros, timeout),
           ReleaseAndWait(k, t, c, m), owes' = owes
    PROVE  CondKeeps(t)
<1>1. /\ gyros.current = t /\ gyros.main_list[t] = Running
      /\ t \notin Elements(gyros.timeouts) /\ t \in Tasks
    BY ExecutingAwake DEF CondCalls, Calls
<1>2. GivenUp(gyros, gyros', t, c)
    BY <1>1, GiveUpCalm, CondTypesHere DEF ReleaseAndWait
<1>3. /\ owner' = [owner EXCEPT ![m] = NoTask] /\ holds' = [holds EXCEPT ![t] = @ \ {m}]
      /\ wants' = [wants EXCEPT ![t] = m] /\ cond' = [cond EXCEPT ![t] = c]
      /\ pc' = [pc EXCEPT ![t] = "cond"] /\ UNCHANGED <<call, monitor>>
    BY DEF ReleaseAndWait, Goto
<1>4. /\ pc'[t] = "cond" /\ wants'[t] = m /\ holds'[t] = holds[t] \ {m} /\ cond'[t] = c
      /\ \A u \in AppTasks \ {t} :
             /\ pc'[u] = pc[u] /\ wants'[u] = wants[u] /\ holds'[u] = holds[u]
             /\ cond'[u] = cond[u]
    BY <1>1, <1>3, CondTypesHere, MutexNames
<1>5. LockInv'
  <2>1. owner[m] = t
      BY DEF CondInv, LockInv, HoldersOwn
  <2>2. \A n \in Mutexes \ {m} : owner'[n] = owner[n]
      BY <1>3, CondTypesHere DEF LockTypes
  <2>3. LockTypes'
    <3>1. "current" \in DOMAIN gyros'
        BY <1>2 DEF GivenUp, Sound, KernelOK, KernelStates
    <3>2. wants' \in [Tasks -> Mutexes \cup {NoMutex}] /\ holds' \in [Tasks -> SUBSET Mutexes]
        BY <1>1, <1>3, CondTypesHere DEF LockTypes
    <3>3. pc' \in [Tasks -> InCall \cup Outside]
        BY <1>1, <1>3, CondTypesHere DEF LockTypes, Outside
    <3>4. owner' \in [Mutexes -> AppTasks \cup {NoTask}]
        BY <1>3, CondTypesHere DEF LockTypes
    <3> QED
        BY <1>3, <3>1, <3>2, <3>3, <3>4, CondTypesHere DEF LockTypes
  <2>4. ASSUME NEW u \in AppTasks, NEW n \in holds'[u] PROVE owner'[n] = u
    <3>1. n \in holds[u] /\ n \in Mutexes /\ owner[n] = u
        BY <1>4, <2>4, CondTypesHere, MutexNames DEF CondInv, LockInv, HoldersOwn, LockTypes
    <3>2. n # m
        BY <1>4, <2>1, <2>4, <3>1
    <3> QED
        BY <2>2, <3>1, <3>2
  <2>5. pc'[t] \notin InCall
      BY <1>4 DEF InCall
  <2>6. CallersWant'
      BY <1>3, <1>4, <2>5 DEF CondInv, LockInv, CallersWant
  <2>7. ASSUME NEW u \in AppTasks, pc'[u] \in InCall, call'[u] = "unlock"
        PROVE  owner'[wants'[u]] = u /\ wants'[u] \notin holds'[u]
    <3>1. u # t /\ pc[u] \in InCall /\ call[u] = "unlock"
        BY <1>3, <1>4, <2>5, <2>7
    <3>2. owner[wants[u]] = u /\ wants[u] \in Mutexes /\ wants[u] \notin holds[u]
        BY <3>1 DEF CondInv, LockInv, UnlockersOwn, CallersWant
    <3> QED
        BY <1>4, <2>1, <2>2, <3>1, <3>2
  <2>8. StoreIsSafe'
    <3>1. gyros'.current = t
        BY <1>1, <1>2 DEF GivenUp
    <3> QED
        BY <1>4, <3>1 DEF StoreIsSafe
  <2> QED
      BY <2>3, <2>4, <2>6, <2>7, <2>8 DEF LockInv, HoldersOwn, UnlockersOwn
<1>6. CondTypes'
    BY <1>1, <1>3, CondTypesHere DEF CondTypes
<1>7. Sound(gyros') /\ CurrentRuns'
    BY <1>2 DEF GivenUp, CurrentRuns
<1>8. AtCond(t)'
    BY <1>2, <1>4 DEF AtCond, GivenUp
<1>9. \A u \in AppTasks \ {t} :
          /\ gyros'.main_list[u] \in Conds => gyros'.main_list[u] = gyros.main_list[u]
          /\ u \in Elements(gyros'.timeouts) =>
                 u \in Elements(gyros.timeouts) /\ gyros'.main_list[u] = gyros.main_list[u]
          /\ gyros'.timed_out[u] = gyros.timed_out[u]
    BY <1>2, CondNames, MutexNames DEF GivenUp
<1>10. ~Waiting(t)
    BY DEF CondCalls
<1> QED
    BY <1>4, <1>5, <1>6, <1>7, <1>8, <1>9, <1>10 DEF CondKeeps

LEMMA WaitAdvances ==
    ASSUME CondInv, NEW t \in AppTasks, NEW m \in Mutexes, WaitStep(t, m)
    PROVE  Advances(t)
<1>1. ~ready' /\ owes' = owes
    BY DEF WaitStep
<1>2. NoLostSignal'
    BY <1>1 DEF NoLostSignal
<1>3. PICK c \in Conds :
          \/ gyros_cond_wait(t, c, m)
          \/ \E delay \in 0..MaxDelay : gyros_cond_wait_until(t, c, m, Deadline(delay))
    BY DEF WaitStep
<1>4. CASE gyros_cond_wait(t, c, m)
  <2>1. CondCalls(t) /\ m \in holds[t] /\ ReleaseAndWait(gyros, t, c, m)
      BY <1>4 DEF gyros_cond_wait
  <2>2. CondKeeps(t)
      BY <1>1, <2>1, ReleaseKeeps
  <2> QED
      BY <1>2, <2>2 DEF Advances
<1>5. ASSUME NEW delay \in 0..MaxDelay, gyros_cond_wait_until(t, c, m, Deadline(delay))
      PROVE  Advances(t)
  <2> DEFINE timeout == Deadline(delay)
             k == gyros__task_set_timeout(gyros, timeout)
  <2>1. timeout \in Time
      BY CondTypesHere, ServicesAssumption, LaterIsTime DEF Deadline
  <2>2. CASE TimeoutReached(gyros, timeout)
    <3>1. /\ Executing(t) /\ pc[t] = "task"
          /\ UNCHANGED <<gyros, pc, owner, call, wants, holds, monitor, cond>>
        BY <1>5, <2>2 DEF gyros_cond_wait_until, CondCalls, Calls, mutexVars, condVars
    <3>2. LockInv'
        BY <3>1 DEF CondInv, LockInv, LockTypes, HoldersOwn, CallersWant, UnlockersOwn, StoreIsSafe
    <3>3. CondTypes'
        BY <1>1, <3>1, CondTypesHere DEF CondTypes
    <3>4. CondKeeps(t)
        BY <3>1, <3>2, <3>3, QuietKeeps
    <3> QED
        BY <1>2, <3>4 DEF Advances
  <2>3. CASE ~TimeoutReached(gyros, timeout)
    <3>1. CondCalls(t) /\ m \in holds[t] /\ ReleaseAndWait(k, t, c, m)
        BY <1>5, <2>3 DEF gyros_cond_wait_until
    <3>2. \E late \in Time : k = gyros__task_set_timeout(gyros, late)
        BY <2>1
    <3> HIDE DEF k
    <3>3. CondKeeps(t)
        BY <1>1, <3>1, <3>2, ReleaseKeeps
    <3> QED
        BY <1>2, <3>3 DEF Advances
  <2> QED
      BY <2>2, <2>3
<1> QED
    BY <1>3, <1>4, <1>5

-----------------------------------------------------------------------------
(* The theorems.                                                           *)

LEMMA CondInvInit == CondStart => CondInv /\ NoLostSignal
<1> SUFFICES ASSUME CondStart PROVE CondInv /\ NoLostSignal
    OBVIOUS
<1>1. /\ gyros \in Started /\ MutexInit /\ pc = [t \in Tasks |-> "task"]
      /\ cond = [t \in Tasks |-> NoList] /\ ~ready /\ owes = {}
    BY DEF CondStart, CondInit, MutexInit
<1>2. /\ ScheduleOK(gyros) /\ gyros.main_list = [t \in Tasks |-> Running]
      /\ gyros.timeouts = <<>>
    BY <1>1, StartedSound
<1>3. ASSUME ~gyros.pendsv PROVE gyros.main_list[gyros.current] = Running
    BY <1>2, <1>3, CurrentIsHighest
<1>4. Sound(gyros) /\ CurrentRuns
    BY <1>2, <1>3 DEF ScheduleOK, CurrentRuns, Runs
<1>5. LockInv
    BY <1>1, LockInvInit
<1>6. CondTypes
    BY <1>1 DEF CondTypes
<1>7. Elements(gyros.timeouts) = {}
    BY <1>2 DEF Elements, ToSet
<1>8. \A t \in AppTasks : AtCond(t)
    BY <1>1, <1>2, <1>7, CondNames, MutexNames DEF AtCond
<1> QED
    BY <1>1, <1>4, <1>5, <1>6, <1>8 DEF CondInv, NoLostSignal

LEMMA CondNextAdvances ==
    ASSUME CondInv, CondNext
    PROVE  \E t \in Tasks : Advances(t)
<1>1. CASE SwitchStep
    BY <1>1, SwitchAdvances, MutexNames
<1>2. CASE TickStep
    BY <1>2, TickAdvances, MutexNames
<1>3. ASSUME NEW t \in AppTasks,
             LockStep(t) \/ RestStep(t) \/ ResumeStep(t) \/ SignalStep(t)
                 \/ ReturnStep(t) \/ InsideStep(t)
      PROVE  Advances(t)
    BY <1>3, LockAdvances, RestAdvances, ResumeAdvances, SignalAdvances, ReturnAdvances,
       InsideAdvances
<1>4. ASSUME NEW t \in AppTasks, NEW m \in Mutexes, WaitStep(t, m) \/ Produce(t, m)
      PROVE  Advances(t)
    BY <1>4, WaitAdvances, ProduceAdvances
<1>5. AppTasks \subseteq Tasks
    BY MutexNames
<1> QED
    BY ONLY CondNext, <1>1, <1>2, <1>3, <1>4, <1>5, Zenon DEF CondNext

LEMMA CondInvNext ==
    ASSUME CondInv, [CondNext]_condAll
    PROVE  /\ CondInv'
           /\ OneCondition /\ NoLostSignal => NoLostSignal'
<1>1. CASE CondNext
  <2>1. PICK t \in Tasks : Advances(t)
      BY <1>1, CondNextAdvances
  <2>2. CondInv'
      BY <2>1, CondKeepsInv DEF Advances
  <2> QED
      BY <2>1, <2>2 DEF Advances
<1>2. CASE UNCHANGED condAll
  <2>1. /\ UNCHANGED <<gyros, pc, owner, call, wants, holds, monitor, cond, ready, owes>>
      BY <1>2 DEF condAll, mutexVars, condVars
  <2>2. LockInv'
      BY <2>1 DEF CondInv, LockInv, LockTypes, HoldersOwn, CallersWant, UnlockersOwn, StoreIsSafe
  <2>3. (Sound(gyros) /\ CurrentRuns /\ CondTypes /\ \A t \in AppTasks : AtCond(t))'
      BY <2>1 DEF CondInv, CurrentRuns, Runs, CondTypes, AtCond
  <2>4. NoLostSignal => NoLostSignal'
      BY <2>1 DEF NoLostSignal, Waiters
  <2> QED
      BY <2>2, <2>3, <2>4 DEF CondInv
<1> QED
    BY <1>1, <1>2

\* Whoever sleeps in the list of a condition is in a wait for it and will ask
\* for the mutex it gave up, and no other task has a timeout.
THEOREM CondInvHolds == CondSpec => []CondInv
<1>1. CondStart => CondInv
    BY CondInvInit
<1>2. CondInv /\ [CondNext]_condAll => CondInv'
    BY CondInvNext
<1> QED
    BY <1>1, <1>2, PTL DEF CondSpec

\* What a task takes for locked it owns, when a wait returns as at any time.
THEOREM WaitsReturnLocked == CondSpec => []LockedAfterWait
<1>1. CondInv => LockedAfterWait
    BY DEF CondInv, LockInv, HoldersOwn, LockedAfterWait
<1> QED
    BY <1>1, CondInvHolds, PTL

\* A wait that has been signalled or has timed out keeps its result.
THEOREM ResultsStand == CondSpec => ResultStands
<1> DEFINE Stands ==
        \A t \in AppTasks :
            /\ Waiting(t) /\ t \notin Waiters(cond[t])
            /\ cond'[t] = cond[t]
            => gyros'.timed_out[t] = gyros.timed_out[t]
<1>1. CondInv /\ [CondNext]_condAll => [Stands]_condAll
  <2> SUFFICES ASSUME CondInv, CondNext PROVE Stands
      OBVIOUS
  <2>1. PICK t \in Tasks : CondKeeps(t)
      BY CondNextAdvances DEF Advances
  <2> QED
      BY <2>1, KeepsResults
<1> QED
    BY <1>1, CondInvHolds, PTL DEF CondSpec, ResultStands

\* With one condition variable, which every signal is for, none is lost.
THEOREM NoSignalLost ==
    ASSUME \A c, d \in Conds : c = d
    PROVE  CondSpec => []NoLostSignal
<1>1. CondStart => CondInv /\ NoLostSignal
    BY CondInvInit
<1>2. CondInv /\ NoLostSignal /\ [CondNext]_condAll => (CondInv /\ NoLostSignal)'
    BY CondInvNext DEF OneCondition
<1> QED
    BY <1>1, <1>2, PTL DEF CondSpec

-----------------------------------------------------------------------------
(* The iteration over the list of tasks: nobody joins here, so the end of  *)
(* a task wakes nobody.                                                    *)

USE ServicesAssumption, IterateAssumption

Unjoined(k) ==
    /\ {"current", "lists", "main_list"} \subseteq DOMAIN k
    /\ Tasks \subseteq DOMAIN k.lists /\ Tasks \subseteq DOMAIN k.main_list
    /\ \A t \in Tasks : k.lists[t] = <<>> /\ k.main_list[t] \notin Tasks

StaysUnjoined(k, n) == Unjoined(k) => Unjoined(n)

LEMMA ListRemoveEmpty ==
    ASSUME NEW t
    PROVE  ListRemove(<<>>, t) = <<>>
    BY DEF ListRemove, RemoveFirst

LEMMA UnlinkUnjoined ==
    ASSUME NEW k, NEW t
    PROVE  StaysUnjoined(k, UnlinkMain(k, t))
<1> SUFFICES ASSUME Unjoined(k) PROVE Unjoined(UnlinkMain(k, t))
    BY DEF StaysUnjoined
<1> DEFINE n == UnlinkMain(k, t)
<1>1. /\ DOMAIN n = DOMAIN k /\ n.main_list = k.main_list
      /\ n.lists = [l \in ListIds |-> ListRemove(k.lists[l], t)]
    BY DEF UnlinkMain, Unjoined
<1> HIDE DEF n
<1>2. ASSUME NEW u \in Tasks PROVE n.lists[u] = <<>>
  <2>1. u \in ListIds /\ k.lists[u] = <<>>
      BY DEF ListIds, Unjoined
  <2> QED
      BY <1>1, <2>1, ListRemoveEmpty
<1>3. DOMAIN n.lists = ListIds /\ Tasks \subseteq ListIds
    BY <1>1 DEF ListIds
<1>4. \A u \in Tasks : n.main_list[u] \notin Tasks
    BY <1>1 DEF Unjoined
<1>5. Tasks \subseteq DOMAIN n.lists
    BY <1>3
<1>6. {"current", "lists", "main_list"} \subseteq DOMAIN n /\ Tasks \subseteq DOMAIN n.main_list
    BY <1>1 DEF Unjoined
<1>7. Unjoined(n)
    BY <1>2, <1>4, <1>5, <1>6 DEF Unjoined
<1> QED
    BY <1>7 DEF n

LEMMA AddUnjoined ==
    ASSUME NEW k, NEW t, NEW l, l \notin Tasks
    PROVE  StaysUnjoined(k, add_task_to_list(k, t, l))
<1> SUFFICES ASSUME Unjoined(k) PROVE Unjoined(add_task_to_list(k, t, l))
    BY DEF StaysUnjoined
<1> DEFINE n == add_task_to_list(k, t, l)
           s == ListInsertBefore(k.lists[l], FirstPosition(k.lists[l],
                    {i \in 1..Len(k.lists[l]) : k.priority[t] > k.priority[k.lists[l][i]]}), t)
<1>1. /\ DOMAIN n = DOMAIN k
      /\ n.lists = [k.lists EXCEPT ![l] = s]
      /\ n.main_list = [k.main_list EXCEPT ![t] = l]
    BY DEF add_task_to_list, Unjoined
<1> HIDE DEF n, s
<1>2. Unjoined(n)
    BY <1>1 DEF Unjoined
<1> QED
    BY <1>2 DEF n

LEMMA MoveUnjoined ==
    ASSUME NEW k, NEW t, NEW l, l \notin Tasks
    PROVE  StaysUnjoined(k, gyros__task_move(k, t, l))
    BY UnlinkUnjoined, AddUnjoined DEF StaysUnjoined, gyros__task_move

LEMMA SuspendUnjoined ==
    ASSUME NEW k, NEW t
    PROVE  StaysUnjoined(k, gyros__task_suspend(k, t))
<1>1. ASSUME NEW n, Unjoined(n)
      PROVE  Unjoined([n EXCEPT !.main_list[t] = NoList])
    BY <1>1, KernelAssumption DEF Unjoined
<1> QED
    BY <1>1, UnlinkUnjoined DEF StaysUnjoined, gyros__task_suspend

LEMMA RemoveTimeoutUnjoined ==
    ASSUME NEW k, NEW t
    PROVE  StaysUnjoined(k, RemoveTimeout(k, t))
    BY DEF StaysUnjoined, Unjoined, RemoveTimeout

LEMMA WakeUnjoined ==
    ASSUME NEW k, NEW t
    PROVE  StaysUnjoined(k, gyros__task_wake(k, t))
<1>1. Running \notin Tasks
    BY KernelAssumption
<1> QED
    BY <1>1, RemoveTimeoutUnjoined, MoveUnjoined DEF StaysUnjoined, gyros__task_wake

LEMMA RescheduleUnjoined ==
    ASSUME NEW k
    PROVE  /\ StaysUnjoined(k, gyros__reschedule(k))
           /\ StaysUnjoined(k, gyros__cond_reschedule(k))
    BY DEF StaysUnjoined, Unjoined, gyros__reschedule, gyros__cond_reschedule

LEMMA SetPriorityUnjoined ==
    ASSUME NEW k, NEW t \in Tasks, NEW p
    PROVE  StaysUnjoined(k, gyros__set_priority(k, t, p))
<1> SUFFICES ASSUME Unjoined(k) PROVE Unjoined(gyros__set_priority(k, t, p))
    BY DEF StaysUnjoined
<1> DEFINE n == [k EXCEPT !.priority[t] = p]
<1>1. Unjoined(n) /\ n.main_list[t] \notin Tasks
    BY DEF Unjoined
<1>2. gyros__set_priority(k, t, p) \in {n, gyros__task_move(n, t, n.main_list[t])}
    BY DEF gyros__set_priority
<1> HIDE DEF n
<1> QED
    BY <1>1, <1>2, MoveUnjoined DEF StaysUnjoined

LEMMA UnlockUnjoined ==
    ASSUME NEW k, k.current \in Tasks, NEW m, NEW reschedule
    PROVE  StaysUnjoined(k, UnlockSlow(k, m, reschedule))
<1> SUFFICES ASSUME Unjoined(k) PROVE Unjoined(UnlockSlow(k, m, reschedule))
    BY DEF StaysUnjoined
<1> DEFINE t == k.current
           n == [k EXCEPT !.priority[t] = k.base_priority[t]]
           d == Disinherit(k)
           w == gyros__task_wake(d, Head(d.lists[m]))
<1>1. Unjoined(n) /\ k.main_list[t] \notin Tasks
    BY DEF Unjoined
<1>2. d \in {k, gyros__task_move(n, t, k.main_list[t])}
    BY DEF Disinherit
<1>3. Unjoined(d)
  <2> HIDE DEF n, d
  <2> QED
      BY <1>1, <1>2, MoveUnjoined DEF StaysUnjoined
<1>4. UnlockSlow(k, m, reschedule) \in {d, w, gyros__cond_reschedule(w)}
    BY DEF UnlockSlow
<1> HIDE DEF d
<1>5. Unjoined(w)
    BY <1>3, WakeUnjoined DEF StaysUnjoined
<1> HIDE DEF w
<1> QED
    BY <1>3, <1>4, <1>5, RescheduleUnjoined DEF StaysUnjoined

LEMMA LockUnjoined ==
    ASSUME NEW k, NEW m, m \notin Tasks, owner[m] \in Tasks, NEW t
    PROVE  StaysUnjoined(k, gyros__reschedule(Inherit(gyros__task_move(k, t, m), m)))
<1> DEFINE n == gyros__task_move(k, t, m)
           i == Inherit(n, m)
<1>1. StaysUnjoined(k, n)
    BY MoveUnjoined
<1> HIDE DEF n
<1>2. StaysUnjoined(n, i)
    BY SetPriorityUnjoined DEF Inherit, StaysUnjoined
<1> HIDE DEF i
<1>3. StaysUnjoined(i, gyros__reschedule(i))
    BY RescheduleUnjoined
<1>4. StaysUnjoined(k, gyros__reschedule(i))
    BY <1>1, <1>2, <1>3 DEF StaysUnjoined
<1> QED
    BY <1>4 DEF i, n

\* The end of a task, the current one or another, wakes nobody: it is a removal from the task's
\* lists, after which nothing may join it.
LEMMA FinishedForm ==
    ASSUME NEW k, NEW t \in Tasks, Unjoined(k)
    PROVE  /\ Unjoined(Finished(k, t)) /\ Finished(k, t).current = k.current
           /\ LET b == RemoveTimeout(gyros__task_suspend(k, t), t)
              IN  Finished(k, t) = ForgetTimeout([b EXCEPT !.joinable[t] = FALSE], t)
<1> DEFINE a == gyros__task_suspend(k, t)
           b == RemoveTimeout(a, t)
           c == [b EXCEPT !.joinable[t] = FALSE]
<1>1. Unjoined(a) /\ a.current = k.current
    BY SuspendUnjoined, SuspendSameCurrent DEF StaysUnjoined, SameCurrent, Unjoined
<1> HIDE DEF a
<1>2. Unjoined(b) /\ b.current = k.current
    BY <1>1, RemoveTimeoutUnjoined, RemoveTimeoutSameCurrent
       DEF StaysUnjoined, SameCurrent, Unjoined
<1> HIDE DEF b
<1>3. Unjoined(c) /\ c.current = k.current
    BY <1>2 DEF Unjoined
<1> HIDE DEF c
<1>4. gyros__task_finish(k, t) = WakeSeq(c, Reverse(c.lists[t]))
    BY DEF gyros__task_finish, WakeAllFromTail, a, b, c
<1>5. Reverse(c.lists[t]) = <<>>
    BY <1>3 DEF Reverse, Unjoined
<1>6. WakeSeq(c, <<>>) = c
  <2>1. <<>> \in Seq(Tasks) /\ Len(<<>>) = 0
      OBVIOUS
  <2>2. PICK f : WakeRun(f, c, <<>>, 0) /\ WakeSeq(c, <<>>) = f[0]
      BY <2>1, WakeSeqUnfolds
  <2> QED
      BY <2>2 DEF WakeRun
<1>7. Finished(k, t) = ForgetTimeout(c, t)
    BY <1>4, <1>5, <1>6 DEF Finished
<1>8. Unjoined(Finished(k, t)) /\ Finished(k, t).current = k.current
    BY <1>3, <1>7 DEF ForgetTimeout, Unjoined
<1> QED
    BY <1>7, <1>8 DEF a, b, c

LEMMA FinishedUnjoined ==
    ASSUME NEW k, NEW t \in Tasks, Unjoined(k)
    PROVE  Unjoined(Finished(k, t)) /\ Finished(k, t).current = k.current
BY FinishedForm

-----------------------------------------------------------------------------
(* What a step of the mutexes does.                                        *)

LEMMA MutexUnjoined ==
    ASSUME LockInv, Unjoined(gyros), MutexNext
    PROVE  Unjoined(gyros')
<1>0. Running \notin Tasks /\ Mutexes \cap Tasks = {}
    BY KernelAssumption
<1>1. CASE MutexSwitch
    BY <1>1 DEF MutexSwitch, ContextSwitch, PendSV_Handler, Unjoined
<1>2. CASE Interrupt
    BY <1>2 DEF Interrupt
<1>3. ASSUME NEW t \in AppTasks, NEW m \in Mutexes,
             \/ gyros_mutex_try_lock(t, m)
             \/ gyros_mutex_lock(t, m)
             \/ gyros_mutex_unlock(t, m)
      PROVE  UNCHANGED gyros
    BY <1>3 DEF gyros_mutex_try_lock, gyros_mutex_lock, gyros_mutex_unlock
<1>4. ASSUME NEW t \in AppTasks, MutexStep(t)
      PROVE  Unjoined(gyros')
  <2> DEFINE m == wants[t]
  <2>1. CASE gyros_ldrex_p(t) \/ gyros_strex_p(t) \/ gyros__mutex_try_lock_slow(t)
      BY <2>1 DEF gyros_ldrex_p, gyros_strex_p, gyros__mutex_try_lock_slow
  <2>2. CASE gyros__mutex_lock_slow(t)
    <3>1. CASE owner[m] = NoTask
        BY <2>2, <3>1 DEF gyros__mutex_lock_slow
    <3>2. CASE owner[m] # NoTask
      <4>1. m \in Mutexes
          BY <2>2 DEF gyros__mutex_lock_slow, Inside, Continues, InCall, LockInv, CallersWant
      <4>2. m \notin Tasks /\ owner[m] \in Tasks
          BY <1>0, <3>2, <4>1 DEF LockInv, LockTypes, AppTasks
      <4>3. gyros' = gyros__reschedule(Inherit(gyros__task_move(gyros, t, m), m))
          BY <2>2, <3>2 DEF gyros__mutex_lock_slow
      <4> QED
          BY <4>2, <4>3, LockUnjoined DEF StaysUnjoined
    <3> QED
        BY <3>1, <3>2
  <2>3. CASE gyros__mutex_unlock_slow(t)
    <3>1. gyros.current \in Tasks /\ gyros' = UnlockSlow(gyros, m, TRUE)
        BY <2>3 DEF gyros__mutex_unlock_slow, Inside, Continues, Executing, AppTasks
    <3> QED
        BY <3>1, UnlockUnjoined DEF StaysUnjoined
  <2> QED
      BY <1>4, <2>1, <2>2, <2>3 DEF MutexStep
<1>5. ASSUME NEW t \in AppTasks, MutexRest(t)
      PROVE  Unjoined(gyros')
  <2>1. gyros' = gyros__reschedule(RemoveTimeout(gyros__task_suspend(gyros, t), t))
      BY <1>5 DEF MutexRest, Rest
  <2> QED
      BY <2>1, SuspendUnjoined, RemoveTimeoutUnjoined, RescheduleUnjoined DEF StaysUnjoined
<1>6. ASSUME NEW t \in AppTasks, MutexResume(t)
      PROVE  Unjoined(gyros')
  <2>1. gyros' = gyros__cond_reschedule(gyros__task_move(gyros, t, Running))
      BY <1>6 DEF MutexResume, Resume
  <2> QED
      BY <1>0, <2>1, MoveUnjoined, RescheduleUnjoined DEF StaysUnjoined
<1>7. ASSUME NEW t \in AppTasks, NEW p \in NewPriorities, gyros_task_set_priority(t, p)
      PROVE  Unjoined(gyros')
  <2> DEFINE based == [gyros EXCEPT !.base_priority[t] = p]
  <2>1. gyros' \in {based, gyros__cond_reschedule(gyros__set_priority(based, t, p))}
      BY <1>7 DEF gyros_task_set_priority
  <2>2. Unjoined(based) /\ t \in Tasks
      BY DEF Unjoined, AppTasks
  <2> HIDE DEF based
  <2> QED
      BY <2>1, <2>2, SetPriorityUnjoined, RescheduleUnjoined DEF StaysUnjoined
<1> QED
    BY <1>1, <1>2, <1>3, <1>4, <1>5, <1>6, <1>7, Zenon DEF MutexNext

Still(t) ==
    /\ pc'[t] = pc[t] /\ call'[t] = call[t]
    /\ wants'[t] = wants[t] /\ holds'[t] = holds[t]

\* What happens to one task: nothing; it calls something, is resumed, goes on
\* in a mutex function, or returns from it.
Moves(t) ==
    \/ Still(t)
    \/ Executing(t) /\ pc[t] = "task" /\ pc'[t] # "finished"
    \/ pc[t] = "rest" /\ pc'[t] = "task" /\ holds'[t] = holds[t]
    \/ pc[t] \in InCall /\ pc'[t] \in InCall /\ call'[t] = call[t] /\ wants'[t] = wants[t]
    \/ /\ pc[t] \in InCall /\ pc'[t] = "task"
       /\ call[t] = "lock" => wants[t] \in holds'[t]

LEMMA StepMoves ==
    ASSUME LockInv, NEW u \in AppTasks, MutexStep(u), NEW t \in AppTasks
    PROVE  Moves(t)
<1>0. u \in Tasks /\ t \in Tasks /\ LockTypes
    BY DEF AppTasks, LockInv
<1>1. ASSUME NEW locked, Leave(u, locked), call[u] = "lock" => locked = {wants[u]},
             pc[u] \in InCall
      PROVE  Moves(t)
  <2>1. /\ pc' = [pc EXCEPT ![u] = "task"]
        /\ call' = [call EXCEPT ![u] = "none"]
        /\ wants' = [wants EXCEPT ![u] = NoMutex]
        /\ holds' = [holds EXCEPT ![u] = @ \cup locked]
      BY <1>1 DEF Leave, Goto
  <2>2. CASE t # u
      BY <1>0, <2>1, <2>2 DEF Moves, Still, LockTypes
  <2>3. CASE t = u
    <3>1. pc'[t] = "task" /\ holds'[t] = holds[t] \cup locked
        BY <1>0, <2>1, <2>3 DEF LockTypes
    <3> QED
        BY <1>1, <2>3, <3>1 DEF Moves
  <2> QED
      BY <2>2, <2>3
<1>2. ASSUME NEW where \in InCall, Goto(u, where), UNCHANGED <<call, wants, holds>>,
             pc[u] \in InCall
      PROVE  Moves(t)
    BY <1>0, <1>2 DEF Goto, Moves, Still, LockTypes
<1>3. CASE gyros_ldrex_p(u)
    BY <1>2, <1>3 DEF gyros_ldrex_p, Continues, InCall
<1>4. CASE gyros_strex_p(u)
  <2>1. pc[u] \in InCall
      BY <1>4 DEF gyros_strex_p, Continues, InCall
  <2>2. CASE monitor
    <3>1. Leave(u, IF call[u] = "unlock" THEN {} ELSE {wants[u]})
        BY <1>4, <2>2 DEF gyros_strex_p, Store
    <3> QED
        BY <1>1, <2>1, <3>1
  <2>3. CASE ~monitor
      BY <1>2, <1>4, <2>1, <2>3 DEF gyros_strex_p, InCall
  <2> QED
      BY <2>2, <2>3
<1>5. CASE gyros__mutex_try_lock_slow(u)
  <2>1. pc[u] \in InCall /\ call[u] = "try_lock" /\ \E locked : Leave(u, locked)
      BY <1>5 DEF gyros__mutex_try_lock_slow, Inside, Continues, InCall
  <2> QED
      BY <1>1, <2>1
<1>6. CASE gyros__mutex_lock_slow(u)
  <2>1. pc[u] \in InCall
      BY <1>6 DEF gyros__mutex_lock_slow, Inside, Continues, InCall
  <2>2. \/ Leave(u, {wants[u]})
        \/ UNCHANGED <<pc, call, wants, holds>>
      BY <1>6 DEF gyros__mutex_lock_slow
  <2> QED
      BY <1>1, <2>1, <2>2 DEF Moves, Still
<1>7. CASE gyros__mutex_unlock_slow(u)
  <2>1. pc[u] \in InCall /\ call[u] = "unlock" /\ Leave(u, {})
      BY <1>7 DEF gyros__mutex_unlock_slow, Inside, Continues, InCall
  <2> QED
      BY <1>1, <2>1
<1> QED
    BY <1>3, <1>4, <1>5, <1>6, <1>7 DEF MutexStep

LEMMA MutexMoves ==
    ASSUME LockInv, MutexNext, NEW t \in AppTasks
    PROVE  Moves(t)
<1>0. t \in Tasks /\ LockTypes
    BY DEF AppTasks, LockInv
<1>1. CASE MutexSwitch \/ Interrupt
    BY <1>1 DEF MutexSwitch, ContextSwitch, Interrupt, Moves, Still
<1>2. ASSUME NEW u \in AppTasks, NEW m \in Mutexes,
             \/ gyros_mutex_try_lock(u, m)
             \/ gyros_mutex_lock(u, m)
             \/ gyros_mutex_unlock(u, m)
      PROVE  Moves(t)
  <2>1. /\ Calls(u)
        /\ \E function : Enter(u, function, m)
        /\ UNCHANGED holds \/ holds' = [holds EXCEPT ![u] = @ \ {m}]
      BY <1>2, Zenon DEF gyros_mutex_try_lock, gyros_mutex_lock, gyros_mutex_unlock
  <2>2. PICK function : Enter(u, function, m)
      BY <2>1
  <2>3. /\ pc' \in {[pc EXCEPT ![u] = "ldrex"], [pc EXCEPT ![u] = "slow"]}
        /\ call' = [call EXCEPT ![u] = function]
        /\ wants' = [wants EXCEPT ![u] = m]
      BY <2>2 DEF Enter, Goto
  <2> QED
      BY <1>0, <2>1, <2>3 DEF Moves, Still, Calls, LockTypes, AppTasks
<1>3. ASSUME NEW u \in AppTasks, MutexStep(u)
      PROVE  Moves(t)
    BY <1>3, StepMoves
<1>4. ASSUME NEW u \in AppTasks, MutexRest(u) \/ MutexResume(u)
      PROVE  Moves(t)
    BY <1>0, <1>4 DEF MutexRest, MutexResume, Rest, Resume, Goto, mutexVars, Moves, Still,
                      Calls, LockTypes, AppTasks
<1>5. ASSUME NEW u \in AppTasks, NEW p \in NewPriorities, gyros_task_set_priority(u, p)
      PROVE  Moves(t)
    BY <1>5 DEF gyros_task_set_priority, Moves, Still
<1> QED
    BY <1>1, <1>2, <1>3, <1>4, <1>5, Zenon DEF MutexNext

-----------------------------------------------------------------------------
(* Prefixes, node by node.                                                 *)

LEMMA PrefixByElements ==
    ASSUME NEW T, NEW r \in Seq(T), NEW s \in Seq(T)
    PROVE  IsPrefix(r, s) <=> Len(r) <= Len(s) /\ \A i \in 1..Len(r) : r[i] = s[i]
<1>1. SubSeq(r, 1, Len(r)) = r
    OBVIOUS
<1>2. ASSUME Len(r) <= Len(s)
      PROVE  /\ SubSeq(s, 1, Len(r)) \in Seq(T)
             /\ Len(SubSeq(s, 1, Len(r))) = Len(r)
             /\ \A i \in 1..Len(r) : SubSeq(s, 1, Len(r))[i] = s[i]
    BY <1>2, SubSeqProperties
<1>3. ASSUME NEW q \in Seq(T), Len(q) = Len(r), \A i \in 1..Len(r) : r[i] = q[i]
      PROVE  r = q
    BY <1>3
<1> QED
    BY <1>1, <1>2, <1>3 DEF IsPrefix

LEMMA EmptyIsPrefix ==
    ASSUME NEW T, NEW s \in Seq(T)
    PROVE  IsPrefix(<<>>, s)
<1>1. <<>> \in Seq(T) /\ Len(<<>>) = 0 /\ 0 <= Len(s)
    OBVIOUS
<1>2. \A i \in 1..Len(<<>>) : <<>>[i] = s[i]
    BY <1>1
<1> QED
    BY <1>1, <1>2, PrefixByElements

LEMMA ListAppendProperties ==
    ASSUME NEW T, NEW s \in Seq(T), Distinct(s), NEW x \in T, x \notin Elements(s)
    PROVE  /\ Append(s, x) \in Seq(T) /\ Distinct(Append(s, x))
           /\ Elements(Append(s, x)) = Elements(s) \cup {x}
           /\ \A r \in Seq(T) : IsPrefix(r, s) => IsPrefix(r, Append(s, x))
<1> DEFINE n == Append(s, x)
<1>1. /\ n \in Seq(T) /\ Len(n) = Len(s) + 1 /\ n[Len(s) + 1] = x
      /\ \A i \in 1..Len(s) : n[i] = s[i]
    OBVIOUS
<1>2. \A i \in 1..Len(s) : s[i] # x
    BY DEF Elements, ToSet
<1> HIDE DEF n
<1>3. Distinct(n)
    BY <1>1, <1>2 DEF Distinct
<1>4. Elements(n) = Elements(s) \cup {x}
    BY <1>1 DEF Elements, ToSet
<1>5. ASSUME NEW r \in Seq(T), IsPrefix(r, s)
      PROVE  IsPrefix(r, n)
  <2>1. Len(r) \in Nat /\ Len(s) \in Nat
      OBVIOUS
  <2>2. Len(r) <= Len(s) /\ \A i \in 1..Len(r) : r[i] = s[i]
      BY <1>5, PrefixByElements
  <2>3. \A i \in 1..Len(r) : i \in 1..Len(s)
      BY <2>1, <2>2
  <2>4. Len(r) <= Len(n) /\ \A i \in 1..Len(r) : r[i] = n[i]
      BY <1>1, <2>1, <2>2, <2>3
  <2> QED
      BY <1>1, <2>4, PrefixByElements
<1> QED
    BY <1>1, <1>3, <1>4, <1>5 DEF n

-----------------------------------------------------------------------------
(* The invariant.                                                          *)

IterTypes ==
    /\ tasks \in Seq(Tasks) /\ Distinct(tasks)
    /\ doing \in [Tasks -> {"none", "iterate", "exit", "delete", "unlock"}]
    /\ victim \in [Tasks -> AppTasks \cup {NoTask}]
    /\ listed \in [Tasks -> Seq(Tasks)]

\* t is still to get the mutex, or has it.
Locking(t) == pc[t] \in InCall /\ call[t] = "lock" /\ wants[t] = iterate_mutex
HasMutex(t) == pc[t] \in {"task", "rest"} /\ iterate_mutex \in holds[t]

Present(t) == t \in Elements(tasks) <=> pc[t] # "finished"

DoingLocks(t) == doing[t] # "none" => Locking(t) \/ HasMutex(t)

Listing(t) ==
    /\ IsPrefix(listed[t], tasks)
    /\ listed[t] # <<>> => doing[t] = "iterate" /\ HasMutex(t)

Victim(t) == doing[t] = "delete" => victim[t] \in AppTasks \ {t}

TaskInv(t) == Present(t) /\ DoingLocks(t) /\ Listing(t) /\ Victim(t)

IterInv ==
    /\ LockInv /\ Unjoined(gyros) /\ IterTypes
    /\ \A t \in AppTasks : TaskInv(t)

\* A task that nothing happens to.
LEMMA TaskStays ==
    ASSUME NEW t, TaskInv(t), Still(t), tasks' = tasks,
           doing'[t] = doing[t], victim'[t] = victim[t], listed'[t] = listed[t]
    PROVE  TaskInv(t)'
    BY DEF TaskInv, Present, DoingLocks, Listing, Victim, Locking, HasMutex, Still

LEMMA OwnInv ==
    ASSUME IterInv, OwnStep
    PROVE  IterInv'
<1>1. LockInv /\ MutexNext /\ UNCHANGED iterateVars
    BY DEF IterInv, OwnStep
<1>2. LockInv' /\ Unjoined(gyros')
    BY <1>1, LockInvNext, MutexUnjoined DEF IterInv
<1>3. IterTypes'
    BY <1>1 DEF IterInv, IterTypes, iterateVars
<1>4. ASSUME NEW t \in AppTasks
      PROVE  TaskInv(t)'
  <2>1. TaskInv(t) /\ Moves(t)
      BY <1>1, MutexMoves DEF IterInv
  <2>2. pc'[t] # "finished" <=> pc[t] # "finished"
      BY <2>1 DEF Moves, Still, InCall
  <2>3. doing[t] # "none" => Locking(t)' \/ HasMutex(t)'
    <3> SUFFICES ASSUME doing[t] # "none"
                 PROVE  Locking(t)' \/ HasMutex(t)'
        OBVIOUS
    <3>1. Executing(t) /\ pc[t] = "task" => pc'[t] \in {"task", "rest"} /\ holds'[t] = holds[t]
        BY DEF OwnStep
    <3>2. Locking(t) \/ HasMutex(t)
        BY <2>1 DEF TaskInv, DoingLocks
    <3> QED
        BY <2>1, <3>1, <3>2 DEF Moves, Still, Locking, HasMutex, InCall
  <2>4. HasMutex(t) /\ doing[t] # "none" => HasMutex(t)'
    <3>1. Executing(t) /\ pc[t] = "task" /\ doing[t] # "none" =>
              pc'[t] \in {"task", "rest"} /\ holds'[t] = holds[t]
        BY DEF OwnStep
    <3> QED
        BY <2>1, <3>1 DEF Moves, Still, HasMutex, InCall
  <2> QED
      BY <1>1, <2>1, <2>2, <2>3, <2>4
         DEF TaskInv, Present, DoingLocks, Listing, Victim, iterateVars
<1> QED
    BY <1>2, <1>3, <1>4 DEF IterInv

\* A task calls gyros_mutex_lock for one of the purposes.
LEMMA LockForInv ==
    ASSUME IterInv, NEW t \in AppTasks, NEW purpose \in {"iterate", "exit", "delete"},
           LockFor(t, purpose), UNCHANGED <<tasks, listed>>,
           IF purpose = "delete"
           THEN \E u \in AppTasks : u # t /\ victim' = [victim EXCEPT ![t] = u]
           ELSE UNCHANGED victim
    PROVE  IterInv'
<1>1. /\ Calls(t) /\ gyros_mutex_lock(t, iterate_mutex) /\ doing[t] = "none"
      /\ doing' = [doing EXCEPT ![t] = purpose]
    BY DEF LockFor, gyros_mutex_lock
<1>2. MutexNext /\ LockInv
    BY <1>1 DEF MutexNext, IterInv
<1>3. LockInv' /\ Unjoined(gyros')
    BY <1>2, LockInvNext, MutexUnjoined DEF IterInv
<1>4. IterTypes'
  <2>1. IterTypes
      BY DEF IterInv
  <2>2. doing' \in [Tasks -> {"none", "iterate", "exit", "delete", "unlock"}]
      BY <1>1, <2>1 DEF IterTypes
  <2>3. victim' \in [Tasks -> AppTasks \cup {NoTask}]
      BY <2>1 DEF IterTypes
  <2> QED
      BY <2>1, <2>2, <2>3 DEF IterTypes
<1>5. /\ pc' \in {[pc EXCEPT ![t] = "ldrex"], [pc EXCEPT ![t] = "slow"]}
      /\ call' = [call EXCEPT ![t] = "lock"]
      /\ wants' = [wants EXCEPT ![t] = iterate_mutex] /\ UNCHANGED holds
    BY <1>1 DEF gyros_mutex_lock, Enter, Goto
<1>6. LockTypes /\ IterTypes /\ t \in Tasks
    BY DEF IterInv, LockInv, AppTasks
<1>7. ASSUME NEW u \in AppTasks, u # t
      PROVE  TaskInv(u)'
  <2>1. Still(u) /\ doing'[u] = doing[u] /\ victim'[u] = victim[u] /\ TaskInv(u)
      BY <1>1, <1>5, <1>6, <1>7 DEF Still, LockTypes, IterTypes, AppTasks, IterInv
  <2> QED
      BY <2>1, TaskStays
<1>8. TaskInv(t)'
  <2>1. TaskInv(t) /\ listed[t] = <<>> /\ pc[t] = "task"
      BY <1>1 DEF IterInv, TaskInv, Listing, Calls
  <2>2. /\ pc'[t] \in InCall /\ call'[t] = "lock" /\ wants'[t] = iterate_mutex
        /\ doing'[t] = purpose
      BY <1>1, <1>5, <1>6 DEF LockTypes, IterTypes, InCall
  <2>3. purpose = "delete" => victim'[t] \in AppTasks \ {t}
      BY <1>6 DEF IterTypes
  <2> QED
      BY <2>1, <2>2, <2>3
         DEF TaskInv, Present, DoingLocks, Listing, Victim, Locking, InCall
<1> QED
    BY <1>3, <1>4, <1>7, <1>8 DEF IterInv

\* gyros_task_iterate returns a task.
LEMMA ListingInv ==
    ASSUME IterInv, NEW t \in AppTasks, Locked(t, "iterate"),
           NEW r \in Seq(Tasks), IsPrefix(r, tasks), listed' = [listed EXCEPT ![t] = r],
           UNCHANGED <<gyros, pc, mutexVars, tasks, doing, victim>>
    PROVE  IterInv'
<1>1. LockTypes /\ IterTypes /\ t \in Tasks /\ TaskInv(t)
    BY DEF IterInv, LockInv, AppTasks
<1>2. LockInv' /\ Unjoined(gyros')
    BY DEF IterInv, LockInv, LockTypes, HoldersOwn, CallersWant, UnlockersOwn, StoreIsSafe,
           mutexVars
<1>3. IterTypes'
    BY <1>1 DEF IterTypes
<1>4. ASSUME NEW u \in AppTasks, u # t
      PROVE  TaskInv(u)'
  <2>1. Still(u) /\ listed'[u] = listed[u] /\ TaskInv(u)
      BY <1>1, <1>4 DEF Still, IterTypes, AppTasks, mutexVars, IterInv
  <2> QED
      BY <2>1, TaskStays
<1>5. TaskInv(t)'
  <2>1. listed'[t] = r /\ doing[t] = "iterate" /\ HasMutex(t)
      BY <1>1 DEF IterTypes, Locked, Calls, TaskInv, DoingLocks, Locking, InCall
  <2> QED
      BY <1>1, <2>1 DEF TaskInv, Present, DoingLocks, Listing, Victim, HasMutex, mutexVars
<1> QED
    BY <1>2, <1>3, <1>4, <1>5 DEF IterInv

LEMMA FirstInv ==
    ASSUME IterInv, NEW t \in AppTasks, IterateFirst(t)
    PROVE  IterInv'
<1> DEFINE r == <<Head(tasks)>>
<1>1. tasks \in Seq(Tasks) /\ TaskInv(t) /\ Locked(t, "iterate")
    BY DEF IterInv, IterTypes, IterateFirst
<1>2. tasks # <<>>
    BY <1>1 DEF TaskInv, Present, Locked, Calls, Elements, ToSet
<1>3. r \in Seq(Tasks) /\ Len(r) = 1 /\ r[1] = tasks[1] /\ 1 <= Len(tasks)
    BY <1>1, <1>2
<1>4. IsPrefix(r, tasks)
  <2> HIDE DEF r
  <2>1. Len(r) <= Len(tasks) /\ \A i \in 1..Len(r) : r[i] = tasks[i]
      BY <1>3
  <2> QED
      BY <1>1, <1>3, <2>1, PrefixByElements
<1>5. listed' = [listed EXCEPT ![t] = r]
    BY DEF IterateFirst
<1> HIDE DEF r
<1> QED
    BY <1>1, <1>3, <1>4, <1>5, ListingInv DEF IterateFirst

LEMMA NextInv ==
    ASSUME IterInv, NEW t \in AppTasks, IterateNext(t)
    PROVE  IterInv'
<1> DEFINE s == listed[t]
           n == Len(s)
           r == Append(s, NextOf(Previous(t)))
<1>1. /\ tasks \in Seq(Tasks) /\ Distinct(tasks) /\ s \in Seq(Tasks)
      /\ IsPrefix(s, tasks) /\ Locked(t, "iterate") /\ s # <<>>
      /\ Previous(t) # Last(tasks)
    BY DEF IterInv, IterTypes, TaskInv, Listing, IterateNext, AppTasks
<1>2. /\ n \in Nat /\ n >= 1 /\ n <= Len(tasks)
      /\ \A i \in 1..n : s[i] = tasks[i]
    BY <1>1, PrefixByElements
<1>3. Previous(t) = tasks[n] /\ Last(tasks) = tasks[Len(tasks)]
    BY <1>2 DEF Previous, Last
<1>4. n < Len(tasks)
    BY <1>1, <1>2, <1>3
<1>5. \A i \in DOMAIN tasks : tasks[i] = Previous(t) <=> i = n
    BY <1>1, <1>2, <1>3 DEF Distinct
<1>6. Previous(t) \in Elements(tasks)
    BY <1>1, <1>2, <1>3 DEF Elements, ToSet
<1>7. n \in DOMAIN tasks
    BY <1>1, <1>2
<1>8. (CHOOSE i \in DOMAIN tasks : tasks[i] = Previous(t)) = n
    BY <1>5, <1>7
<1>9. NextOf(Previous(t)) = tasks[1 + n] /\ tasks[1 + n] \in Tasks
  <2>1. NextOf(Previous(t)) = tasks[1 + CHOOSE i \in DOMAIN tasks : tasks[i] = Previous(t)]
      BY <1>6, Zenon DEF NextOf
  <2>2. tasks[1 + n] \in Tasks
      BY <1>1, <1>2, <1>4
  <2> QED
      BY <1>8, <2>1, <2>2, Zenon
<1>10. /\ r \in Seq(Tasks) /\ Len(r) = n + 1
       /\ \A i \in 1..n : r[i] = s[i]
       /\ r[n + 1] = tasks[n + 1]
    BY <1>1, <1>2, <1>9
<1>11. listed' = [listed EXCEPT ![t] = r]
    BY DEF IterateNext
<1> HIDE DEF r, n, s
<1>12. IsPrefix(r, tasks)
  <2>1. \A i \in 1..Len(r) : r[i] = tasks[i]
      BY <1>2, <1>10
  <2>2. Len(r) <= Len(tasks)
      BY <1>1, <1>2, <1>4, <1>10
  <2> QED
      BY <1>1, <1>10, <2>1, <2>2, PrefixByElements
<1> QED
    BY <1>1, <1>10, <1>11, <1>12, ListingInv DEF IterateNext

\* A task that has done what it locked the mutex for unlocks it.
LEMMA UnlockInv ==
    ASSUME IterInv, NEW t \in AppTasks, IterateEnd(t) \/ DeleteUnlock(t)
    PROVE  IterInv'
<1>1. /\ Calls(t) /\ gyros_mutex_unlock(t, iterate_mutex)
      /\ doing' = [doing EXCEPT ![t] = "none"] /\ UNCHANGED <<tasks, victim>>
    BY DEF IterateEnd, DeleteUnlock, gyros_mutex_unlock
<1>2. MutexNext /\ LockInv
    BY <1>1 DEF MutexNext, IterInv
<1>3. LockInv' /\ Unjoined(gyros')
    BY <1>2, LockInvNext, MutexUnjoined DEF IterInv
<1>4. LockTypes /\ IterTypes /\ t \in Tasks
    BY DEF IterInv, LockInv, AppTasks
<1>5. listed' = [listed EXCEPT ![t] = <<>>]
  <2>1. CASE IterateEnd(t)
      BY <2>1 DEF IterateEnd
  <2>2. CASE DeleteUnlock(t)
    <3>1. listed[t] = <<>> /\ UNCHANGED listed
        BY <2>2 DEF DeleteUnlock, Locked, IterInv, TaskInv, Listing
    <3> QED
        BY <1>4, <3>1 DEF IterTypes
  <2> QED
      BY <2>1, <2>2
<1>6. IterTypes'
  <2>1. <<>> \in Seq(Tasks)
      OBVIOUS
  <2> QED
      BY <1>1, <1>4, <1>5, <2>1 DEF IterTypes
<1>7. /\ pc' \in {[pc EXCEPT ![t] = "ldrex"], [pc EXCEPT ![t] = "slow"]}
      /\ call' = [call EXCEPT ![t] = "unlock"]
      /\ wants' = [wants EXCEPT ![t] = iterate_mutex]
      /\ holds' = [holds EXCEPT ![t] = @ \ {iterate_mutex}]
    BY <1>1 DEF gyros_mutex_unlock, Enter, Goto
<1>8. ASSUME NEW u \in AppTasks, u # t
      PROVE  TaskInv(u)'
  <2>1. /\ Still(u) /\ doing'[u] = doing[u] /\ victim'[u] = victim[u]
        /\ listed'[u] = listed[u] /\ TaskInv(u)
      BY <1>1, <1>4, <1>5, <1>7, <1>8 DEF Still, LockTypes, IterTypes, AppTasks, IterInv
  <2> QED
      BY <1>1, <2>1, TaskStays
<1>9. TaskInv(t)'
  <2>1. TaskInv(t) /\ pc[t] = "task"
      BY <1>1 DEF IterInv, Calls
  <2>2. pc'[t] # "finished" /\ doing'[t] = "none" /\ listed'[t] = <<>>
      BY <1>1, <1>4, <1>5, <1>7 DEF LockTypes, IterTypes
  <2>3. IsPrefix(<<>>, tasks)
      BY <1>4, EmptyIsPrefix DEF IterTypes
  <2> QED
      BY <1>1, <2>1, <2>2, <2>3 DEF TaskInv, Present, DoingLocks, Listing, Victim
<1> QED
    BY <1>3, <1>6, <1>8, <1>9 DEF IterInv

-----------------------------------------------------------------------------
(* Tasks come and go.                                                      *)

LEMMA CreateInv ==
    ASSUME IterInv, NEW t \in AppTasks, gyros_task_create(t)
    PROVE  IterInv'
<1> DEFINE created == [gyros EXCEPT !.joinable[t] = TRUE,
                                    !.base_priority[t] = BasePriority[t],
                                    !.priority[t] = BasePriority[t]]
<1>1. /\ pc[t] = "finished" /\ pc' = [pc EXCEPT ![t] = "task"]
      /\ gyros' = gyros__cond_reschedule(add_task_to_list(created, t, Running))
      /\ tasks' = Append(tasks, t) /\ monitor' = FALSE
      /\ UNCHANGED <<owner, call, wants, holds, doing, victim, listed>>
    BY DEF gyros_task_create, Goto
<1>2. LockTypes /\ IterTypes /\ t \in Tasks /\ TaskInv(t) /\ Unjoined(gyros)
    BY DEF IterInv, LockInv, AppTasks
<1>3. Unjoined(created) /\ created.current = gyros.current
    BY <1>2 DEF Unjoined
<1> HIDE DEF created
<1>4. Unjoined(gyros')
  <2>1. Running \notin Tasks
      BY KernelAssumption
  <2> QED
      BY <1>1, <1>3, <2>1, AddUnjoined, RescheduleUnjoined DEF StaysUnjoined
<1>5. LockInv'
  <2>1. SameCurrent(created, add_task_to_list(created, t, Running))
      BY DEF SameCurrent, add_task_to_list
  <2>2. SameCurrent(gyros, gyros')
      BY <1>1, <1>3, <2>1, RescheduleSameCurrent DEF SameCurrent, Unjoined
  <2>3. OnlyKernel
      BY <1>1, <2>2 DEF OnlyKernel
  <2> QED
      BY <1>1, <2>3, OnlyKernelInv DEF Outside, IterInv
<1>6. t \notin Elements(tasks)
    BY <1>1, <1>2 DEF TaskInv, Present
<1>7. /\ tasks' \in Seq(Tasks) /\ Distinct(tasks')
      /\ Elements(tasks') = Elements(tasks) \cup {t}
      /\ \A r \in Seq(Tasks) : IsPrefix(r, tasks) => IsPrefix(r, tasks')
    BY <1>1, <1>2, <1>6, ListAppendProperties DEF IterTypes
<1>8. IterTypes'
    BY <1>1, <1>2, <1>7 DEF IterTypes
<1>9. ASSUME NEW u \in AppTasks
      PROVE  TaskInv(u)'
  <2>1. TaskInv(u) /\ listed[u] \in Seq(Tasks)
      BY <1>2 DEF IterInv, IterTypes, AppTasks
  <2>2. IsPrefix(listed'[u], tasks')
      BY <1>1, <1>7, <2>1 DEF TaskInv, Listing
  <2>3. CASE u # t
    <3>1. pc'[u] = pc[u] /\ (u \in Elements(tasks') <=> u \in Elements(tasks))
        BY <1>1, <1>2, <1>7, <2>3 DEF LockTypes, AppTasks
    <3> QED
        BY <1>1, <2>1, <2>2, <3>1
           DEF TaskInv, Present, DoingLocks, Listing, Victim, Locking, HasMutex
  <2>4. CASE u = t
    <3>1. doing[t] = "none"
        BY <1>1, <1>2 DEF TaskInv, DoingLocks, Locking, HasMutex, InCall
    <3>2. pc'[t] = "task" /\ t \in Elements(tasks')
        BY <1>1, <1>2, <1>7 DEF LockTypes
    <3> QED
        BY <1>1, <2>1, <2>2, <2>4, <3>1, <3>2
           DEF TaskInv, Present, DoingLocks, Listing, Victim
  <2> QED
      BY <2>3, <2>4
<1> QED
    BY <1>4, <1>5, <1>8, <1>9 DEF IterInv

\* What the end of u leaves of the locks: nothing of its own.
LEMMA GoneLocks ==
    ASSUME LockInv, NEW u \in AppTasks, Gone(u), SameCurrent(gyros, gyros'),
           UNCHANGED monitor,
           \/ UNCHANGED owner
           \/ iterate_mutex \in holds[u] /\ owner' = [owner EXCEPT ![iterate_mutex] = NoTask]
    PROVE  LockInv'
<1>1. /\ pc' = [pc EXCEPT ![u] = "finished"]
      /\ call' = [call EXCEPT ![u] = "none"]
      /\ wants' = [wants EXCEPT ![u] = NoMutex]
      /\ holds' = [holds EXCEPT ![u] = {}]
    BY DEF Gone, Goto
<1>2. LockTypes /\ u \in Tasks
    BY DEF LockInv, AppTasks
<1>3. LockTypes'
    BY <1>1, <1>2 DEF LockTypes, SameCurrent, Outside
<1>4. /\ pc'[u] = "finished" /\ holds'[u] = {}
      /\ \A t \in AppTasks : t # u => Still(t)
    BY <1>1, <1>2 DEF LockTypes, AppTasks, Still
<1>5. \A t \in AppTasks, m \in Mutexes : t # u /\ owner[m] = t => owner'[m] = t
    BY <1>2 DEF LockInv, HoldersOwn, LockTypes
<1>6. \A m \in Mutexes : owner[m] = NoTask => owner'[m] = NoTask
    BY <1>2 DEF LockTypes
<1>7. HoldersOwn'
  <2>1. ASSUME NEW t \in AppTasks, NEW m \in holds'[t]
        PROVE  owner'[m] = t
    <3>1. t # u
        BY <1>4, <2>1
    <3>2. m \in holds[t] /\ m \in Mutexes
        BY <1>2, <1>4, <3>1 DEF Still, LockTypes, AppTasks
    <3> QED
        BY <1>5, <3>1, <3>2 DEF LockInv, HoldersOwn
  <2> QED
      BY <2>1 DEF HoldersOwn
<1>8. CallersWant'
    BY <1>4 DEF LockInv, CallersWant, Still, InCall
<1>9. UnlockersOwn'
  <2>1. ASSUME NEW t \in AppTasks, pc'[t] \in InCall, call'[t] = "unlock"
        PROVE  owner'[wants'[t]] = t /\ wants'[t] \notin holds'[t]
    <3>1. t # u
        BY <1>4, <2>1 DEF InCall
    <3>2. wants[t] \in Mutexes /\ owner[wants[t]] = t /\ wants[t] \notin holds[t]
        BY <1>4, <2>1, <3>1 DEF LockInv, CallersWant, UnlockersOwn, Still
    <3> QED
        BY <1>4, <1>5, <3>1, <3>2 DEF Still
  <2> QED
      BY <2>1 DEF UnlockersOwn
<1>10. StoreIsSafe'
  <2>1. gyros'.current = gyros.current
      BY <1>2 DEF SameCurrent, LockTypes
  <2>2. ASSUME NEW t \in AppTasks, pc'[t] = "strex", call'[t] # "unlock",
               monitor', gyros'.current = t
        PROVE  owner'[wants'[t]] = NoTask
    <3>1. t # u
        BY <1>4, <2>2
    <3>2. wants[t] \in Mutexes /\ owner[wants[t]] = NoTask
        BY <1>4, <2>1, <2>2, <3>1 DEF LockInv, CallersWant, StoreIsSafe, Still, InCall
    <3> QED
        BY <1>4, <1>6, <3>1, <3>2 DEF Still
  <2> QED
      BY <2>2 DEF StoreIsSafe
<1> QED
    BY <1>3, <1>7, <1>8, <1>9, <1>10 DEF LockInv

\* Nobody else lists the tasks meanwhile, so what has been listed stands.
LEMMA GoneTasks ==
    ASSUME IterInv, LockInv', Unjoined(gyros'),
           NEW t \in AppTasks, HasMutex(t), doing[t] \in {"exit", "delete"},
           NEW u \in AppTasks, Gone(u), NEW next \in {"none", "unlock"},
           u = t => next = "none",
           doing' = [doing EXCEPT ![t] = next, ![u] = "none"],
           victim' \in [Tasks -> AppTasks \cup {NoTask}],
           \A v \in AppTasks : v \notin {t, u} => victim'[v] = victim[v]
    PROVE  IterInv'
<1>1. LockTypes /\ IterTypes /\ t \in Tasks /\ u \in Tasks
    BY DEF IterInv, LockInv, AppTasks
<1>2. /\ pc' = [pc EXCEPT ![u] = "finished"]
      /\ call' = [call EXCEPT ![u] = "none"]
      /\ wants' = [wants EXCEPT ![u] = NoMutex]
      /\ holds' = [holds EXCEPT ![u] = {}]
      /\ listed' = [listed EXCEPT ![u] = <<>>]
      /\ tasks' = ListRemove(tasks, u)
    BY DEF Gone, Goto
<1>3. /\ tasks' \in Seq(Tasks) /\ Distinct(tasks')
      /\ Elements(tasks') = Elements(tasks) \ {u}
    BY <1>1, <1>2, ListRemoveProperties DEF IterTypes
<1>4. \A v \in AppTasks : v # u => Still(v) /\ listed'[v] = listed[v]
    BY <1>1, <1>2 DEF LockTypes, IterTypes, Still, AppTasks
<1>5. IterTypes'
  <2>1. <<>> \in Seq(Tasks)
      OBVIOUS
  <2> QED
      BY <1>1, <1>2, <1>3, <2>1 DEF IterTypes
<1>6. \A v \in AppTasks : listed[v] = <<>>
  <2>1. ASSUME NEW v \in AppTasks, listed[v] # <<>>
        PROVE  FALSE
    <3>1. doing[v] = "iterate" /\ HasMutex(v)
        BY <2>1 DEF IterInv, TaskInv, Listing
    <3>2. v # t
        BY <3>1
    <3> QED
        BY <3>1, <3>2 DEF HasMutex, IterInv, LockInv, HoldersOwn
  <2> QED
      BY <2>1
<1>7. IsPrefix(<<>>, tasks')
    BY <1>3, EmptyIsPrefix
<1>8. ASSUME NEW v \in AppTasks
      PROVE  TaskInv(v)'
  <2>1. TaskInv(v) /\ v \in Tasks
      BY DEF IterInv, AppTasks
  <2>2. listed'[v] = <<>>
      BY <1>1, <1>2, <1>6, <2>1 DEF IterTypes
  <2>3. Present(v)'
    <3>1. CASE v = u
      <4>1. pc'[v] = "finished" /\ v \notin Elements(tasks')
          BY <1>1, <1>2, <1>3, <3>1 DEF LockTypes
      <4> QED
          BY <4>1 DEF Present
    <3>2. CASE v # u
      <4>1. pc'[v] = pc[v] /\ (v \in Elements(tasks') <=> v \in Elements(tasks))
          BY <1>3, <1>4, <3>2 DEF Still
      <4> QED
          BY <2>1, <4>1 DEF TaskInv, Present
    <3> QED
        BY <3>1, <3>2
  <2>4. DoingLocks(v)' /\ Victim(v)'
    <3>1. CASE v = u
      <4>1. doing'[v] = "none"
          BY <1>1, <3>1 DEF IterTypes
      <4> QED
          BY <4>1 DEF DoingLocks, Victim
    <3>2. CASE v # u /\ v = t
      <4>1. doing'[v] \in {"none", "unlock"} /\ HasMutex(v)'
          BY <1>1, <1>4, <3>2 DEF IterTypes, HasMutex, Still
      <4> QED
          BY <4>1 DEF DoingLocks, Victim
    <3>3. CASE v # u /\ v # t
      <4>1. doing'[v] = doing[v] /\ victim'[v] = victim[v] /\ Still(v)
          BY <1>1, <1>4, <2>1, <3>3 DEF IterTypes
      <4> QED
          BY <2>1, <4>1 DEF TaskInv, DoingLocks, Victim, Locking, HasMutex, Still
    <3> QED
        BY <3>1, <3>2, <3>3
  <2> QED
      BY <1>7, <2>2, <2>3, <2>4 DEF TaskInv, Listing
<1> QED
    BY <1>5, <1>8 DEF IterInv

LEMMA ExitFinishInv ==
    ASSUME IterInv, NEW t \in AppTasks, ExitFinish(t)
    PROVE  IterInv'
<1> DEFINE n == Finished(gyros, t)
           w == UnlockSlow(n, iterate_mutex, FALSE)
<1>1. /\ Calls(t) /\ doing[t] = "exit" /\ Gone(t) /\ UNCHANGED <<monitor, victim>>
      /\ gyros' = gyros__reschedule(w)
      /\ owner' = [owner EXCEPT ![iterate_mutex] = NoTask]
      /\ doing' = [doing EXCEPT ![t] = "none"]
    BY DEF ExitFinish, Locked
<1>2. /\ LockInv /\ LockTypes /\ IterTypes /\ Unjoined(gyros) /\ t \in Tasks
      /\ gyros.current = t /\ pc[t] = "task"
    BY <1>1 DEF IterInv, LockInv, AppTasks, Calls, Executing
<1>3. HasMutex(t)
    BY <1>1, <1>2 DEF IterInv, TaskInv, DoingLocks, Locking, InCall
<1>4. Unjoined(n) /\ n.current = t
    BY <1>2, FinishedUnjoined
<1> HIDE DEF n
<1>5. Unjoined(w) /\ w.current = t
  <2>1. StaysUnjoined(n, w)
      BY <1>2, <1>4, UnlockUnjoined
  <2>2. SameCurrent(n, w)
      BY UnlockSameCurrent
  <2> HIDE DEF w
  <2> QED
      BY <1>4, <2>1, <2>2 DEF StaysUnjoined, SameCurrent, Unjoined
<1> HIDE DEF w
<1>6. Unjoined(gyros') /\ SameCurrent(gyros, gyros')
    BY <1>1, <1>2, <1>5, RescheduleUnjoined, RescheduleSameCurrent
       DEF StaysUnjoined, SameCurrent, Unjoined
<1>7. LockInv'
    BY <1>1, <1>2, <1>3, <1>6, GoneLocks DEF HasMutex
<1>8. doing' = [doing EXCEPT ![t] = "none", ![t] = "none"]
    BY <1>1, <1>2 DEF IterTypes
<1>9. victim' \in [Tasks -> AppTasks \cup {NoTask}]
    BY <1>1, <1>2 DEF IterTypes
<1> QED
    BY <1>1, <1>3, <1>6, <1>7, <1>8, <1>9, GoneTasks

LEMMA DeleteFinishInv ==
    ASSUME IterInv, NEW t \in AppTasks, DeleteFinish(t)
    PROVE  IterInv'
<1> DEFINE u == victim[t]
<1>1. /\ Calls(t) /\ doing[t] = "delete" /\ Gone(u) /\ UNCHANGED <<owner, monitor>>
      /\ gyros' = Finished(gyros, u)
      /\ doing' = [doing EXCEPT ![t] = "unlock", ![u] = "none"]
      /\ victim' = [victim EXCEPT ![t] = NoTask, ![u] = NoTask]
    BY DEF DeleteFinish, Locked
<1>2. /\ LockInv /\ LockTypes /\ IterTypes /\ Unjoined(gyros) /\ t \in Tasks
      /\ pc[t] = "task"
    BY <1>1 DEF IterInv, LockInv, AppTasks, Calls
<1>3. u \in AppTasks /\ u # t /\ u \in Tasks
    BY <1>1 DEF IterInv, TaskInv, Victim, AppTasks
<1>4. HasMutex(t)
    BY <1>1, <1>2 DEF IterInv, TaskInv, DoingLocks, Locking, InCall
<1> HIDE DEF u
<1>5. Unjoined(gyros') /\ SameCurrent(gyros, gyros')
  <2>1. Unjoined(Finished(gyros, u)) /\ Finished(gyros, u).current = gyros.current
      BY <1>2, <1>3, FinishedUnjoined
  <2> QED
      BY <1>1, <2>1 DEF SameCurrent, Unjoined
<1>6. LockInv'
  <2>1. SameCurrent(gyros, gyros') /\ UNCHANGED monitor /\ UNCHANGED owner
      BY <1>1, <1>5
  <2> QED
      BY ONLY <1>1, <1>2, <1>3, <2>1, GoneLocks
<1>7. /\ victim' \in [Tasks -> AppTasks \cup {NoTask}]
      /\ \A v \in AppTasks : v \notin {t, u} => victim'[v] = victim[v]
    BY <1>1, <1>2 DEF IterTypes, AppTasks
<1> QED
    BY <1>1, <1>3, <1>4, <1>5, <1>6, <1>7, GoneTasks

LEMMA IterNext == IterInv /\ [IterateNextStep]_iterateAll => IterInv'
<1> SUFFICES ASSUME IterInv, [IterateNextStep]_iterateAll PROVE IterInv'
    OBVIOUS
<1>1. CASE OwnStep
    BY <1>1, OwnInv
<1>2. ASSUME NEW t \in AppTasks, gyros_task_iterate(t)
      PROVE  IterInv'
    BY <1>2, LockForInv DEF gyros_task_iterate
<1>3. ASSUME NEW t \in AppTasks, gyros__task_exit(t)
      PROVE  IterInv'
    BY <1>3, LockForInv DEF gyros__task_exit
<1>4. ASSUME NEW t \in AppTasks, NEW u \in AppTasks, gyros_task_delete(t, u)
      PROVE  IterInv'
  <2>1. /\ LockFor(t, "delete") /\ UNCHANGED <<tasks, listed>>
        /\ u # t /\ victim' = [victim EXCEPT ![t] = u]
      BY <1>4 DEF gyros_task_delete
  <2> QED
      BY <2>1, LockForInv
<1>5. ASSUME NEW t \in AppTasks,
             \/ IterateFirst(t) \/ IterateNext(t) \/ IterateEnd(t)
             \/ gyros_task_create(t) \/ ExitFinish(t)
             \/ DeleteFinish(t) \/ DeleteUnlock(t)
      PROVE  IterInv'
    BY <1>5, FirstInv, NextInv, UnlockInv, CreateInv, ExitFinishInv, DeleteFinishInv
<1>6. CASE UNCHANGED iterateAll
  <2>1. UNCHANGED vars /\ UNCHANGED iterateVars
      BY <1>6 DEF iterateAll
  <2>2. LockInv'
      BY <2>1, LockInvNext DEF IterInv
  <2>3. UNCHANGED <<gyros, pc, call, wants, holds>>
      BY <2>1 DEF vars, mutexVars
  <2>4. \A t \in AppTasks : TaskInv(t)'
      BY <2>1, <2>3, TaskStays DEF IterInv, Still, iterateVars
  <2> QED
      BY <2>1, <2>2, <2>3, <2>4 DEF IterInv, IterTypes, iterateVars
<1> QED
    BY <1>1, <1>2, <1>3, <1>4, <1>5, <1>6, Zenon DEF IterateNextStep, IterateStep

-----------------------------------------------------------------------------
(* The beginning.                                                          *)

LEMMA IterInit == IterateInit => IterInv
<1> SUFFICES ASSUME IterateInit PROVE IterInv
    OBVIOUS
<1>1. PICK order \in Orders :
          gyros = [KernelInit EXCEPT !.priority = BasePriority,
                                     !.base_priority = BasePriority,
                                     !.joinable = [t \in Tasks |-> t # Idle],
                                     !.main_list = [t \in Tasks |-> Running],
                                     !.lists[Running] = order,
                                     !.current = Idle,
                                     !.pendsv = TRUE]
    BY DEF IterateInit, MutexInit, Started
<1>2. /\ gyros.main_list = [t \in Tasks |-> Running]
      /\ gyros.lists = [[l \in ListIds |-> <<>>] EXCEPT ![Running] = order]
      /\ {"current", "lists", "main_list"} \subseteq DOMAIN gyros
    BY <1>1 DEF KernelInit
<1>3. Running \notin Tasks /\ Running \in ListIds /\ Tasks \subseteq ListIds
    BY KernelAssumption DEF ListIds
<1>4. Unjoined(gyros) /\ gyros.lists[Running] = order
    BY <1>2, <1>3 DEF Unjoined
<1> DEFINE s == ListRemove(order, Idle)
<1>5. order \in Seq(Tasks) /\ Distinct(order) /\ Elements(order) = Tasks
    BY OrdersComplete
<1>6. s \in Seq(Tasks) /\ Distinct(s) /\ Elements(s) = Tasks \ {Idle}
    BY <1>5, ListRemoveProperties
<1>7. tasks = ListInsertBefore(s, 1, Idle)
  <2>1. tasks = <<Idle>> \o s
      BY <1>4 DEF IterateInit
  <2> HIDE DEF s
  <2>2. SubSeq(s, 1, 1 - 1) = <<>> /\ SubSeq(s, 1, Len(s)) = s
      BY <1>6
  <2> QED
      BY <1>6, <2>1, <2>2 DEF ListInsertBefore, InsertAt
<1> HIDE DEF s
<1>8. tasks \in Seq(Tasks) /\ Distinct(tasks) /\ Elements(tasks) = Tasks
  <2>1. Idle \in Tasks /\ 1 \in 1..Len(s) + 1 /\ Idle \notin Elements(s)
      BY <1>6, KernelAssumption
  <2>2. tasks \in Seq(Tasks) /\ Distinct(tasks) /\ Elements(tasks) = Elements(s) \cup {Idle}
      BY <1>6, <1>7, <2>1, ListInsertProperties
  <2> QED
      BY <1>6, <2>1, <2>2
<1>9. /\ doing = [t \in Tasks |-> "none"] /\ listed = [t \in Tasks |-> <<>>]
      /\ victim = [t \in Tasks |-> NoTask] /\ pc = [t \in Tasks |-> "task"]
    BY DEF IterateInit, MutexInit
<1>10. IterTypes
  <2>1. <<>> \in Seq(Tasks)
      OBVIOUS
  <2> QED
      BY <1>8, <1>9, <2>1 DEF IterTypes
<1>11. ASSUME NEW t \in AppTasks PROVE TaskInv(t)
  <2>1. IsPrefix(<<>>, tasks)
      BY <1>8, EmptyIsPrefix
  <2> QED
      BY <1>8, <1>9, <2>1 DEF TaskInv, Present, DoingLocks, Listing, Victim, AppTasks
<1>12. LockInv
    BY LockInvInit DEF IterateInit
<1> QED
    BY <1>4, <1>10, <1>11, <1>12 DEF IterInv

\* Whoever lists, ends or deletes tasks has iterate_mutex or is in the call
\* that locks it (iterate.c:36, task.c:85, delete.c:34), and the list has
\* exactly the tasks that exist.
THEOREM IterInvHolds == IterateSpec => []IterInv
    BY IterInit, IterNext, PTL DEF IterateSpec

\* What gyros_task_iterate has returned (iterate.c:45-49) are at any time the
\* first tasks of the list, whoever exits, is deleted or created meanwhile.
THEOREM ListingAlwaysStands == IterateSpec => []ListingStands
<1>1. IterInv => ListingStands
    BY DEF IterInv, TaskInv, Listing, ListingStands
<1> QED
    BY <1>1, IterInvHolds, PTL

\* No two tasks have locked the same mutex, although tasks that exit unlock
\* the iteration's in task.c:98 and tasks are deleted inside mutex functions.
THEOREM IterationExcludes == IterateSpec => []MutualExclusion
<1>1. IterInv => MutualExclusion
    BY DEF IterInv, LockInv, LockTypes, HoldersOwn, MutualExclusion, AppTasks
<1> QED
    BY <1>1, IterInvHolds, PTL

-----------------------------------------------------------------------------
(* Priorities when tasks exit and are deleted.  The mutex of the iteration *)
(* is the only one; a task that exits gives back no inherited priority, as *)
(* one that has inherited a priority gets no further (ExitFinish), and one *)
(* that deletes a task must not have inherited from just that one.         *)

OneMutex == Mutexes = {iterate_mutex}

\* An inherited priority comes from a task that still waits, and whose own
\* priority is higher than that of the owner.
InheritsFromWaiter ==
    \A t \in AppTasks : gyros.priority[t] # gyros.base_priority[t] =>
        /\ owner[iterate_mutex] = t
        /\ \E w \in Waiters(iterate_mutex) :
               gyros.base_priority[w] > gyros.base_priority[t]

\* Nothing is left of a task that is gone.
GoneOut ==
    \A t \in AppTasks : pc[t] = "finished" =>
        gyros.main_list[t] = NoList /\ call[t] = "none" /\ holds[t] = {}

RankInv == InheritsFromWaiter /\ GoneOut

\* What an application has to see to: a task deletes none that has a higher base
\* priority than itself.
RanksRespected ==
    \A t \in AppTasks :
        Locked(t, "delete") => gyros.base_priority[victim[t]] <= gyros.base_priority[t]

LEMMA TheMutex ==
    ASSUME OneMutex
    PROVE  /\ iterate_mutex \in Mutexes /\ iterate_mutex \in Objects
           /\ iterate_mutex # Running /\ iterate_mutex # NoList
           /\ \A m \in Mutexes : m = iterate_mutex
    BY MutexNames DEF OneMutex

\* Who waits for the mutex is in its loop, and runs with its own priority.
LEMMA WaitersOwnPriority ==
    ASSUME OneMutex, LockInv, WaitInv, PriorityInv, RankInv, NEW w \in Waiters(iterate_mutex)
    PROVE  /\ w \in AppTasks /\ w \in Tasks /\ gyros.main_list[w] = iterate_mutex
           /\ pc[w] = "slow" /\ call[w] = "lock" /\ wants[w] = iterate_mutex
           /\ owner[iterate_mutex] # w
           /\ gyros.priority[w] = gyros.base_priority[w]
<1>1. w \in AppTasks /\ w \in Tasks /\ gyros.main_list[w] = iterate_mutex
    BY TheMutex, MutexNames, MutexWaiters DEF WaitInv, Waiters
<1>2. pc[w] = "slow" /\ call[w] = "lock" /\ wants[w] = iterate_mutex
    BY <1>1, TheMutex DEF WaitInv, WaitersLock
<1>3. holds[w] = {}
    BY <1>1, <1>2, TheMutex, MutexNames DEF LockInv, LockTypes, CallersWant, InCall
<1>4. owner[iterate_mutex] # w
    BY <1>1, <1>2, <1>3, TheMutex, MutexNames DEF PriorityInv, OwnersHave, Has, Unlocks
<1> QED
    BY <1>1, <1>2, <1>4 DEF RankInv, InheritsFromWaiter

\* Kernel states and owners as before, but for a mutex that nobody waits for.
LEMMA QuietRanks ==
    ASSUME InheritsFromWaiter, UNCHANGED gyros,
           \/ owner'[iterate_mutex] = owner[iterate_mutex]
           \/ owner[iterate_mutex] = NoTask \/ Waiters(iterate_mutex) = {}
    PROVE  InheritsFromWaiter'
<1>1. Waiters(iterate_mutex)' = Waiters(iterate_mutex)
    BY DEF Waiters
<1> QED
    BY <1>1, MutexNames DEF InheritsFromWaiter

\* A task that blocks may leave its own priority to the owner.
LEMMA BlockRanks ==
    ASSUME OneMutex, LockInv, WaitInv, PriorityInv, RankInv,
           NEW t \in AppTasks, gyros__mutex_lock_slow(t), owner[wants[t]] # NoTask
    PROVE  /\ InheritsFromWaiter'
           /\ gyros'.base_priority = gyros.base_priority
           /\ \A x \in Tasks \ {t} : gyros'.main_list[x] = gyros.main_list[x]
           /\ pc[t] = "slow"
<1> DEFINE m == wants[t]
           o == owner[m]
<1>0. OneAtATime
    BY MutexNames, TheMutex DEF LockInv, LockTypes, CallersWant, OneAtATime
<1>1. /\ Executing(t) /\ pc[t] \in InCall /\ call[t] = "lock" /\ pc[t] = "slow"
      /\ gyros.current = t /\ gyros.main_list[t] = Running
    BY ExecutingRuns DEF gyros__mutex_lock_slow, Inside, Continues, InCall
<1>2. /\ m \in Mutexes /\ m = iterate_mutex
      /\ t \in Tasks /\ \A n \in Mutexes : owner[n] # t
    BY <1>0, <1>1, MutexNames, TheMutex, LockersOwnNothing DEF LockInv, CallersWant
<1>3. o \in AppTasks /\ o \in Tasks /\ o # t
    BY <1>2, MutexNames DEF LockInv, LockTypes
<1>4. /\ gyros' = gyros__reschedule(Inherit(gyros__task_move(gyros, t, m), m))
      /\ UNCHANGED <<pc, owner, call, wants, holds>>
    BY DEF gyros__mutex_lock_slow
<1>5. BlockedBehind(gyros, gyros', t, m, o)
    BY <1>1, <1>2, <1>3, <1>4, LockSound DEF WaitInv
<1>6. o = owner[iterate_mutex] /\ o # NoTask
    BY <1>2
<1> HIDE DEF m, o
<1>7. /\ Sound(gyros') /\ gyros'.base_priority = gyros.base_priority
      /\ \A x \in Tasks \ {o} : gyros'.priority[x] = gyros.priority[x]
      /\ gyros'.priority[o] # gyros.priority[o] => gyros.priority[o] < gyros.priority[t]
    BY <1>5 DEF BlockedBehind, ScheduleOK
<1>8. gyros'.main_list[t] = m /\ \A x \in Tasks \ {t} : gyros'.main_list[x] = gyros.main_list[x]
    BY <1>2, <1>5 DEF BlockedBehind, WaitInv, Sound, KernelOK, KernelStates
<1>9. \A n \in Mutexes : /\ Waiters(n) = {x \in Tasks : gyros.main_list[x] = n}
                         /\ Waiters(n)' = {x \in Tasks : gyros'.main_list[x] = n}
    BY <1>7, MutexWaiters DEF WaitInv, Waiters
<1>10. /\ t \in Waiters(iterate_mutex)'
       /\ Waiters(iterate_mutex) \subseteq Waiters(iterate_mutex)'
    BY <1>1, <1>2, <1>8, <1>9, MutexNames
<1>11. gyros.priority[t] = gyros.base_priority[t]
    BY <1>2, TheMutex DEF RankInv, InheritsFromWaiter
<1>12. ASSUME NEW x \in AppTasks, gyros'.priority[x] # gyros'.base_priority[x]
       PROVE  /\ owner[iterate_mutex] = x
              /\ \E w \in Waiters(iterate_mutex)' :
                     gyros.base_priority[w] > gyros.base_priority[x]
  <2>1. CASE gyros.priority[x] # gyros.base_priority[x]
      BY <1>2, <1>10, <2>1 DEF RankInv, InheritsFromWaiter
  <2>2. CASE gyros.priority[x] = gyros.base_priority[x]
    <3>1. x = o
        BY <1>7, <1>12, <2>2, MutexNames
    <3>2. gyros.base_priority[o] < gyros.base_priority[t]
        BY <1>7, <1>11, <1>12, <2>2, <3>1
    <3>3. gyros.base_priority[o] \in Nat /\ gyros.base_priority[t] \in Nat
        BY <1>2, <1>3, Priorities0 DEF WaitInv, Sound
    <3> QED
        BY <1>2, <1>6, <1>10, <3>1, <3>2, <3>3
  <2> QED
      BY <2>1, <2>2
<1>13. InheritsFromWaiter'
    BY <1>4, <1>7, <1>12 DEF InheritsFromWaiter
<1> QED
    BY <1>1, <1>7, <1>8, <1>13

\* With the mutex the task gives up what it has inherited; nobody else has
\* inherited anything.
LEMMA UnlockRanks ==
    ASSUME OneMutex, LockInv, WaitInv, RankInv, NEW t \in AppTasks, gyros__mutex_unlock_slow(t)
    PROVE  /\ InheritsFromWaiter'
           /\ gyros'.base_priority = gyros.base_priority
           /\ \A x \in AppTasks : \/ gyros'.main_list[x] = gyros.main_list[x]
                                  \/ pc[x] = "slow"
<1> DEFINE m == wants[t]
<1>1. /\ Executing(t) /\ pc[t] \in InCall /\ call[t] = "unlock"
      /\ gyros.current = t /\ gyros.main_list[t] = Running
    BY ExecutingRuns DEF gyros__mutex_unlock_slow, Inside, Continues, InCall
<1>2. m \in Mutexes /\ m = iterate_mutex /\ t \in Tasks /\ owner[m] = t
    BY <1>1, MutexNames, TheMutex DEF LockInv, CallersWant, UnlockersOwn
<1>3. gyros' = UnlockSlow(gyros, m, TRUE)
    BY DEF gyros__mutex_unlock_slow
<1>4. Released(gyros, gyros', t, m)
    BY <1>1, <1>2, <1>3, UnlockSound DEF WaitInv
<1> HIDE DEF m
<1>5. /\ gyros'.base_priority = gyros.base_priority
      /\ gyros'.priority[t] = gyros.base_priority[t]
      /\ \A x \in Tasks \ {t} : gyros'.priority[x] = gyros.priority[x]
    BY <1>4 DEF Released
<1>6. \A x \in AppTasks : gyros'.priority[x] = gyros'.base_priority[x]
    BY <1>2, <1>5, MutexNames DEF RankInv, InheritsFromWaiter
<1>7. \A x \in Tasks : gyros'.main_list[x] = gyros.main_list[x] \/ gyros.main_list[x] = m
  <2>1. gyros.main_list \in [Tasks -> ListIds \cup {NoList}]
      BY DEF WaitInv, Sound, KernelOK, KernelStates
  <2> QED
      BY <1>4, <2>1 DEF Released
<1>8. \A x \in AppTasks : gyros.main_list[x] = m => pc[x] = "slow"
    BY <1>2 DEF WaitInv, WaitersLock
<1> QED
    BY <1>5, <1>6, <1>7, <1>8, MutexNames DEF InheritsFromWaiter

\* A base priority changes only to one the task was created with or was given.
Rebased ==
    \A x \in AppTasks : \/ gyros'.base_priority[x] = gyros.base_priority[x]
                        \/ gyros'.base_priority[x] \in {BasePriority[x]} \cup NewPriorities

\* The surroundings change neither the priority of a task that waits nor who
\* waits.
LEMMA AroundRanks ==
    ASSUME OneMutex, LockInv, WaitInv, PriorityInv, RankInv, ~PriorityOfUsers,
           NEW t \in AppTasks, Around(t)
    PROVE  RankInv' /\ Rebased
<1>1. /\ Sound(gyros') /\ UNCHANGED <<owner, call, wants, holds>>
      /\ \A x \in Tasks : \/ gyros'.main_list[x] = gyros.main_list[x]
                          \/ gyros.main_list[x] \notin Mutexes
      /\ \A x \in Tasks : \/ gyros'.priority[x] = gyros.priority[x]
                          \/ x = t /\ call[t] = "none"
      /\ \A x \in AppTasks : gyros'.priority[x] # gyros'.base_priority[x] =>
             /\ gyros.priority[x] # gyros.base_priority[x]
             /\ gyros'.base_priority[x] = gyros.base_priority[x]
      /\ \A x \in AppTasks : pc'[x] = "finished" =>
             pc[x] = "finished" /\ gyros'.main_list[x] = gyros.main_list[x]
      /\ Rebased
    BY DEF Around, Rebased
<1>2. \A n \in Mutexes : Waiters(n)' = {x \in Tasks : gyros'.main_list[x] = n}
    BY <1>1, MutexWaiters DEF Waiters
<1>3. ASSUME NEW w \in Waiters(iterate_mutex)
      PROVE  w \in Waiters(iterate_mutex)' /\ gyros'.base_priority[w] = gyros.base_priority[w]
  <2>1. /\ w \in AppTasks /\ w \in Tasks /\ gyros.main_list[w] = iterate_mutex
        /\ call[w] = "lock" /\ gyros.priority[w] = gyros.base_priority[w]
      BY WaitersOwnPriority
  <2>2. gyros'.main_list[w] = iterate_mutex /\ gyros'.priority[w] = gyros.priority[w]
      BY <1>1, <2>1, TheMutex
  <2> QED
      BY <1>1, <1>2, <2>1, <2>2, TheMutex
<1>4. InheritsFromWaiter'
    BY <1>1, <1>3 DEF RankInv, InheritsFromWaiter
<1>5. GoneOut'
    BY <1>1 DEF RankInv, GoneOut
<1> QED
    BY <1>1, <1>4, <1>5 DEF RankInv

\* Who becomes the owner, or stops being it without the slow unlock, leaves
\* nobody waiting.
LEMMA QuietStep ==
    ASSUME OneMutex, LockInv, WaitInv, NEW t \in AppTasks, MutexStep(t)
    PROVE  \/ gyros__mutex_unlock_slow(t)
           \/ gyros__mutex_lock_slow(t) /\ owner[wants[t]] # NoTask
           \/ /\ UNCHANGED gyros
              /\ \/ owner'[iterate_mutex] = owner[iterate_mutex]
                 \/ owner[iterate_mutex] = NoTask \/ Waiters(iterate_mutex) = {}
<1>0. pc[t] \in InCall => wants[t] = iterate_mutex
    BY TheMutex DEF LockInv, CallersWant
<1>1. CASE gyros_ldrex_p(t)
    BY <1>1 DEF gyros_ldrex_p
<1>2. CASE gyros_strex_p(t)
  <2>1. pc[t] = "strex" /\ wants[t] = iterate_mutex /\ UNCHANGED gyros /\ gyros.current = t
      BY <1>0, <1>2 DEF gyros_strex_p, Continues, InCall, Executing
  <2>2. CASE monitor
    <3>1. CASE call[t] = "unlock"
        BY <2>1, <2>2, <3>1 DEF WaitInv, UnlockSafe
    <3>2. CASE call[t] # "unlock"
        BY <2>1, <2>2, <3>2 DEF LockInv, StoreIsSafe
    <3> QED
        BY <2>1, <3>1, <3>2
  <2>3. CASE ~monitor
      BY <1>2, <2>1, <2>3 DEF gyros_strex_p
  <2> QED
      BY <2>2, <2>3
<1>3. CASE gyros__mutex_try_lock_slow(t)
  <2>1. wants[t] = iterate_mutex
      BY <1>0, <1>3 DEF gyros__mutex_try_lock_slow, Inside, Continues, InCall
  <2> QED
      BY <1>3, <2>1 DEF gyros__mutex_try_lock_slow
<1>4. CASE gyros__mutex_lock_slow(t)
  <2>1. wants[t] = iterate_mutex
      BY <1>0, <1>4 DEF gyros__mutex_lock_slow, Inside, Continues, InCall
  <2> QED
      BY <1>4, <2>1 DEF gyros__mutex_lock_slow
<1>5. CASE gyros__mutex_unlock_slow(t)
    BY <1>5
<1> QED
    BY <1>1, <1>2, <1>3, <1>4, <1>5 DEF MutexStep

LEMMA MutexRanks ==
    ASSUME OneMutex, ~PriorityOfUsers, LockInv, WaitInv, PriorityInv, RankInv, MutexNext
    PROVE  RankInv' /\ Rebased
<1> DEFINE Quiet == /\ InheritsFromWaiter' /\ gyros'.base_priority = gyros.base_priority
                    /\ \A x \in AppTasks : \/ gyros'.main_list[x] = gyros.main_list[x]
                                           \/ pc[x] # "finished"
<1>1. ASSUME Quiet PROVE RankInv' /\ Rebased
  <2>1. ASSUME NEW x \in AppTasks, pc'[x] = "finished"
        PROVE  gyros'.main_list[x] = NoList /\ call'[x] = "none" /\ holds'[x] = {}
    <3>1. Moves(x)
        BY MutexMoves
    <3>2. Still(x) /\ pc[x] = "finished"
        BY <2>1, <3>1 DEF Moves, Still, InCall
    <3> QED
        BY <1>1, <3>2 DEF Still, RankInv, GoneOut
  <2> QED
      BY <1>1, <2>1 DEF RankInv, GoneOut, Rebased
<1>2. CASE MutexSwitch
  <2>1. gyros' = PendSV_Handler(gyros) /\ UNCHANGED owner
      BY <1>2 DEF MutexSwitch, ContextSwitch
  <2>2. /\ gyros'.main_list = gyros.main_list /\ gyros'.lists = gyros.lists
        /\ gyros'.priority = gyros.priority /\ gyros'.base_priority = gyros.base_priority
      BY <2>1, SwitchSound DEF WaitInv
  <2>3. Waiters(iterate_mutex)' = Waiters(iterate_mutex)
      BY <2>2 DEF Waiters
  <2> QED
      BY <1>1, <2>1, <2>2, <2>3 DEF RankInv, InheritsFromWaiter
<1>3. CASE Interrupt
  <2>1. Quiet
      BY <1>3, QuietRanks DEF Interrupt, RankInv
  <2> QED
      BY <1>1, <2>1
<1>4. ASSUME NEW t \in AppTasks, NEW m \in Mutexes,
             \/ gyros_mutex_try_lock(t, m)
             \/ gyros_mutex_lock(t, m)
             \/ gyros_mutex_unlock(t, m)
      PROVE  RankInv' /\ Rebased
  <2>1. UNCHANGED <<gyros, owner>>
      BY <1>4 DEF gyros_mutex_try_lock, gyros_mutex_lock, gyros_mutex_unlock
  <2>2. Quiet
      BY <2>1, QuietRanks DEF RankInv
  <2> QED
      BY <1>1, <2>2
<1>5. ASSUME NEW t \in AppTasks, MutexStep(t)
      PROVE  RankInv' /\ Rebased
  <2>1. CASE gyros__mutex_unlock_slow(t)
      BY <1>1, <2>1, UnlockRanks
  <2>2. CASE gyros__mutex_lock_slow(t) /\ owner[wants[t]] # NoTask
    <3>1. Quiet
        BY <2>2, BlockRanks, MutexNames
    <3> QED
        BY <1>1, <3>1
  <2>3. CASE /\ UNCHANGED gyros
             /\ \/ owner'[iterate_mutex] = owner[iterate_mutex]
                \/ owner[iterate_mutex] = NoTask \/ Waiters(iterate_mutex) = {}
    <3>1. Quiet
        BY <2>3, QuietRanks DEF RankInv
    <3> QED
        BY <1>1, <3>1
  <2> QED
      BY <1>5, <2>1, <2>2, <2>3, QuietStep
<1>6. ASSUME NEW t \in AppTasks,
             \/ MutexRest(t)
             \/ MutexResume(t)
             \/ \E p \in NewPriorities : gyros_task_set_priority(t, p)
      PROVE  RankInv' /\ Rebased
    BY <1>6, RestAround, ResumeAround, SetPriorityAround, AroundRanks
<1> QED
    BY <1>2, <1>3, <1>4, <1>5, <1>6, Zenon DEF MutexNext

-----------------------------------------------------------------------------
(* The end of a task.                                                      *)

\* n is k without t.
Ended(k, n, t) ==
    /\ Sound(n) /\ NoTimeouts(n) /\ n.current = k.current /\ n.pendsv = k.pendsv
    /\ n.priority = k.priority /\ n.base_priority = k.base_priority
    /\ n.main_list = [k.main_list EXCEPT ![t] = NoList]

\* The rest of a task structure is of no consequence to the lists.
LEMMA FieldsSound ==
    ASSUME NEW k, Sound(k), NEW t \in Tasks
    PROVE  LET n == ForgetTimeout([k EXCEPT !.joinable[t] = FALSE], t)
           IN  /\ Sound(n) /\ n.current = k.current /\ n.pendsv = k.pendsv
               /\ n.priority = k.priority /\ n.base_priority = k.base_priority
               /\ n.main_list = k.main_list /\ n.timeouts = k.timeouts /\ n.lists = k.lists
<1> DEFINE c == [k EXCEPT !.joinable[t] = FALSE]
           n == ForgetTimeout(c, t)
<1>1. /\ c \in KernelStates /\ c.current = k.current /\ c.pendsv = k.pendsv
      /\ c.priority = k.priority /\ c.base_priority = k.base_priority
      /\ c.main_list = k.main_list /\ c.timeouts = k.timeouts /\ c.lists = k.lists
    BY DEF Sound, KernelOK, KernelStates
<1>2. n = [c EXCEPT !.timeout[t] = 0, !.timed_out[t] = FALSE]
    BY DEF ForgetTimeout
<1>3. 0 \in Time
    BY DEF Time
<1> HIDE DEF c, n
<1>4. /\ n \in KernelStates /\ n.current = c.current /\ n.pendsv = c.pendsv
      /\ n.priority = c.priority /\ n.base_priority = c.base_priority
      /\ n.main_list = c.main_list /\ n.timeouts = c.timeouts /\ n.lists = c.lists
    BY <1>1, <1>2, <1>3 DEF KernelStates
<1>5. /\ n.current = k.current /\ n.pendsv = k.pendsv
      /\ n.priority = k.priority /\ n.base_priority = k.base_priority
      /\ n.main_list = k.main_list /\ n.timeouts = k.timeouts /\ n.lists = k.lists
    BY ONLY <1>1, <1>4, Zenon
<1>6. KernelOK(n)
    BY <1>4, <1>5 DEF Sound, KernelOK, ListsOK, LinkedRight
<1>7. Sound(n)
    BY <1>5, <1>6 DEF Sound
<1> QED
    BY <1>5, <1>7 DEF n, c

LEMMA FinishedSound ==
    ASSUME NEW k, Sound(k), NoTimeouts(k), Unjoined(k), NEW t \in AppTasks
    PROVE  /\ Ended(k, Finished(k, t), t)
           /\ ScheduleOK(k) /\ k.current # t => ScheduleOK(Finished(k, t))
<1> DEFINE a == gyros__task_suspend(k, t)
           b == RemoveTimeout(a, t)
           n == Finished(k, t)
<1>1. t \in Tasks /\ t # Idle /\ KernelOK(k)
    BY MutexNames DEF Sound
<1>2. Moved(k, b, t, NoList) /\ Elements(b.timeouts) = Elements(k.timeouts) \ {t}
    BY SuspendSound
<1>3. KernelOK(a) /\ SameButLists(k, a)
    BY <1>1, TaskSuspendOK
<1>4. b.lists = a.lists /\ SameButLists(a, b)
    BY <1>3, RemoveTimeoutOK
<1>5. n = ForgetTimeout([b EXCEPT !.joinable[t] = FALSE], t)
    BY <1>1, FinishedForm
<1>6. ScheduleOK(k) /\ k.current # t =>
          b.pendsv \/ Head(b.lists[Running]) = b.current
  <2> SUFFICES ASSUME ScheduleOK(k), k.current # t, ~k.pendsv
               PROVE  Head(b.lists[Running]) = b.current
      BY <1>3, <1>4 DEF SameButLists
  <2>1. k.lists[Running] # <<>>
      BY <1>1, MutexNames, RunningNotEmpty DEF Sound
  <2>2. Head(k.lists[Running]) = k.current
      BY DEF ScheduleOK
  <2>3. Head(a.lists[Running]) = k.current
      BY <1>1, <2>1, <2>2, FirstRunningStays
  <2> QED
      BY <1>3, <1>4, <2>3 DEF SameButLists
<1>7. b.pendsv = k.pendsv
    BY <1>3, <1>4 DEF SameButLists
<1> HIDE DEF a, b, n
<1>8. Sound(b)
    BY <1>2 DEF Moved
<1>9. /\ Sound(n) /\ n.current = b.current /\ n.pendsv = b.pendsv
      /\ n.priority = b.priority /\ n.base_priority = b.base_priority
      /\ n.main_list = b.main_list /\ n.timeouts = b.timeouts /\ n.lists = b.lists
    BY <1>1, <1>5, <1>8, FieldsSound
<1>10. Ended(k, n, t)
    BY <1>2, <1>7, <1>9 DEF Ended, Moved, SameTasks, NoTimeouts
<1>11. ScheduleOK(k) /\ k.current # t => ScheduleOK(n)
    BY <1>6, <1>9 DEF ScheduleOK
<1> QED
    BY <1>10, <1>11 DEF n

\* A task that is created again starts with the priority it is created with,
\* and has no part in the mutexes.
LEMMA CreateAround ==
    ASSUME LockInv, WaitInv, GoneOut, NEW t \in AppTasks, gyros_task_create(t)
    PROVE  Around(t)
<1> DEFINE p == BasePriority[t]
           a == [gyros EXCEPT !.joinable[t] = TRUE,
                              !.base_priority[t] = p,
                              !.priority[t] = p]
           b == add_task_to_list(a, t, Running)
<1>1. /\ pc[t] = "finished" /\ pc' = [pc EXCEPT ![t] = "task"]
      /\ gyros' = gyros__cond_reschedule(b) /\ ~monitor'
      /\ UNCHANGED <<owner, call, wants, holds>>
      /\ t \in Tasks /\ p \in Priorities \cup {0}
    BY MutexNames DEF gyros_task_create, Goto
<1>2. /\ gyros.main_list[t] = NoList /\ call[t] = "none" /\ holds[t] = {}
      /\ KernelOK(gyros)
    BY <1>1 DEF GoneOut, WaitInv, Sound
<1>3. /\ a \in KernelStates /\ a.lists = gyros.lists /\ a.main_list = gyros.main_list
      /\ a.timeouts = gyros.timeouts /\ a.current = gyros.current
      /\ a.pendsv = gyros.pendsv
      /\ a.base_priority = [gyros.base_priority EXCEPT ![t] = p]
      /\ a.priority = [gyros.priority EXCEPT ![t] = p]
    BY <1>1, <1>2 DEF KernelOK, KernelStates
<1> HIDE DEF a, p
<1>4. /\ a.priority[t] = p /\ a.base_priority[t] = p
      /\ \A x \in Tasks \ {t} : /\ a.priority[x] = gyros.priority[x]
                                /\ a.base_priority[x] = gyros.base_priority[x]
    BY <1>1, <1>2, <1>3 DEF KernelOK, KernelStates
<1>5. Unlinked(a, t)
    BY <1>1, <1>2, <1>3, MutexNames, ListNames DEF Unlinked, KernelOK, LinkedRight
<1>6. ListsOK(a)
  <2> SUFFICES ASSUME NEW l \in ListIds
               PROVE  Distinct(a.lists[l]) /\ Falling(a.lists[l], a.priority)
      BY DEF ListsOK
  <2>1. /\ gyros.lists[l] \in Seq(Tasks) /\ Distinct(gyros.lists[l])
        /\ Falling(gyros.lists[l], gyros.priority)
      BY <1>2 DEF KernelOK, KernelStates, ListsOK
  <2>2. t \notin Elements(gyros.lists[l]) /\ Elements(gyros.lists[l]) \subseteq Tasks
      BY <1>3, <1>5, <2>1, ElementsOfSeq DEF Unlinked
  <2>3. \A x \in Elements(gyros.lists[l]) : gyros.priority[x] = a.priority[x]
      BY <1>4, <2>2
  <2>4. Falling(gyros.lists[l], a.priority)
      BY <2>1, <2>3, FallingSameKeys
  <2> QED
      BY <1>3, <2>1, <2>4
<1>7. KernelOKWithout(a, t)
    BY <1>2, <1>3, <1>5, <1>6 DEF KernelOKWithout, KernelOK, LinkedRight
<1>8. /\ KernelOK(b) /\ SameButLists(a, b)
      /\ b.main_list = [a.main_list EXCEPT ![t] = Running]
      /\ b.timeouts = a.timeouts
    BY <1>1, <1>7, ListNames, AddTaskToListOK
<1> HIDE DEF b
<1>9. NoTimeouts(b)
    BY <1>3, <1>8 DEF WaitInv, NoTimeouts
<1>10. b.main_list[t] = Running /\ \A x \in Tasks \ {t} : b.main_list[x] = gyros.main_list[x]
    BY <1>1, <1>2, <1>3, <1>8 DEF KernelOK, KernelStates
<1>11. Sound(b)
    BY <1>1, <1>3, <1>8, <1>9, <1>10, MutexNames DEF WaitInv, Sound, SameButLists, NoTimeouts
<1>12. Scheduled(b, gyros__cond_reschedule(b))
    BY <1>11, RescheduleSound
<1>13. /\ Sound(gyros') /\ NoTimeouts(gyros') /\ ScheduleOK(gyros')
       /\ gyros'.current = gyros.current /\ (gyros.pendsv => gyros'.pendsv)
       /\ gyros'.priority = a.priority /\ gyros'.base_priority = a.base_priority
       /\ gyros'.main_list = b.main_list
    BY <1>1, <1>3, <1>8, <1>9, <1>12
       DEF Scheduled, ScheduleOK, SameTasks, SameButLists, NoTimeouts
<1>14. CurrentRuns'
    BY <1>10, <1>13 DEF WaitInv, Sound, CurrentRuns, Runs
<1>15. /\ pc'[t] = "task" /\ \A u \in AppTasks \ {t} : pc'[u] = pc[u]
    BY <1>1, MutexNames DEF LockInv, LockTypes
<1>16. pc[t] \notin InCall /\ pc'[t] \notin InCall
    BY <1>1, <1>15 DEF InCall
<1>17. \A x \in Tasks \ {t} : /\ gyros'.main_list[x] = gyros.main_list[x]
                              /\ gyros'.priority[x] = gyros.priority[x]
                              /\ gyros'.base_priority[x] = gyros.base_priority[x]
    BY <1>4, <1>10, <1>13
<1>18. /\ gyros'.main_list[t] = Running /\ gyros'.priority[t] = BasePriority[t]
       /\ gyros'.base_priority[t] = BasePriority[t]
    BY <1>4, <1>10, <1>13 DEF p
<1>19. \A x \in AppTasks : pc'[x] = "finished" =>
           pc[x] = "finished" /\ gyros'.main_list[x] = gyros.main_list[x]
    BY <1>15, <1>17, MutexNames
<1> QED
    BY <1>1, <1>2, <1>13, <1>14, <1>15, <1>16, <1>17, <1>18, <1>19, MutexNames DEF Around

\* The slow unlock of a task that has inherited nothing, wherever it is linked.
LEMMA ReleaseSound ==
    ASSUME NEW k, Sound(k), NoTimeouts(k), NEW m \in Mutexes,
           k.priority[k.current] = k.base_priority[k.current]
    PROVE  Released(k, UnlockSlow(k, m, FALSE), k.current, m)
<1> DEFINE u == Head(k.lists[m])
           w == gyros__task_wake(k, u)
<1>1. UnlockSlow(k, m, FALSE) = IF k.lists[m] = <<>> THEN k ELSE w
    BY DEF UnlockSlow, Disinherit
<1>2. KernelOK(k) /\ m \in ListIds
    BY ListNames DEF Sound
<1>3. CASE k.lists[m] = <<>>
  <2>1. Elements(k.lists[m]) = {x \in Tasks : k.main_list[x] = m}
      BY <1>2, WaitersAre
  <2>2. Elements(k.lists[m]) = {}
      BY <1>3 DEF Elements, ToSet
  <2> QED
      BY <1>1, <1>3, <2>1, <2>2 DEF Released
<1>4. CASE k.lists[m] # <<>>
  <2>1. /\ u \in Tasks /\ k.main_list[u] = m
        /\ \A x \in Tasks : k.main_list[x] = m => k.priority[x] <= k.priority[u]
      BY <1>2, <1>4, FirstIsHighest
  <2> HIDE DEF u
  <2>2. /\ Moved(k, w, u, Running)
        /\ Elements(w.timeouts) = Elements(k.timeouts) \ {u}
      BY <2>1, WakeSound
  <2> HIDE DEF w
  <2> QED
      BY <1>1, <1>4, <2>1, <2>2 DEF Released, Moved, SameTasks, NoTimeouts
<1> QED
    BY <1>3, <1>4

\* What is said of a task that is gone, of the others, and of their priorities
\* when t ends; the others are where they were.
LEMMA GoneRanks ==
    ASSUME LockInv, GoneOut, NEW t \in AppTasks, Gone(t), gyros'.main_list[t] = NoList,
           \A x \in AppTasks \ {t} : gyros.main_list[x] = NoList => gyros'.main_list[x] = NoList
    PROVE  /\ GoneOut' /\ pc'[t] = "finished" /\ call'[t] = "none" /\ holds'[t] = {}
           /\ \A x \in AppTasks \ {t} : Still(x)
<1>1. /\ pc' = [pc EXCEPT ![t] = "finished"] /\ call' = [call EXCEPT ![t] = "none"]
      /\ wants' = [wants EXCEPT ![t] = NoMutex] /\ holds' = [holds EXCEPT ![t] = {}]
    BY DEF Gone, Goto
<1>2. /\ pc'[t] = "finished" /\ call'[t] = "none" /\ holds'[t] = {}
      /\ \A x \in AppTasks \ {t} : Still(x)
    BY <1>1, MutexNames DEF LockInv, LockTypes, Still
<1> QED
    BY <1>2 DEF GoneOut, Still

\* An exit wakes the task of the highest priority that waits for the mutex.
LEMMA ExitServes ==
    ASSUME OneMutex, IterInv, WaitInv, PriorityInv, RankInv,
           NEW t \in AppTasks, ExitFinish(t)
    PROVE  WaitInv' /\ PriorityInv' /\ RankInv' /\ Rebased
<1> DEFINE m == iterate_mutex
           n == Finished(gyros, t)
           w == UnlockSlow(n, m, FALSE)
<1>1. /\ Calls(t) /\ Locked(t, "exit") /\ doing[t] = "exit" /\ Gone(t) /\ UNCHANGED monitor
      /\ gyros' = gyros__reschedule(w)
      /\ owner' = [owner EXCEPT ![m] = NoTask]
    BY DEF ExitFinish, Locked
<1>2. /\ LockInv /\ Unjoined(gyros) /\ Sound(gyros) /\ NoTimeouts(gyros)
      /\ t \in Tasks /\ gyros.current = t /\ pc[t] = "task" /\ m \in Mutexes
    BY <1>1, MutexNames, TheMutex DEF IterInv, WaitInv, Calls, Executing
<1>3. m \in holds[t] /\ owner[m] = t
    BY <1>1, <1>2 DEF IterInv, TaskInv, DoingLocks, Locking, HasMutex, InCall, LockInv, HoldersOwn
<1>4. \A x \in AppTasks : gyros.priority[x] = gyros.base_priority[x]
  <2> SUFFICES ASSUME NEW x \in AppTasks, gyros.priority[x] # gyros.base_priority[x]
               PROVE  FALSE
      OBVIOUS
  <2>1. x = t
      BY <1>3 DEF RankInv, InheritsFromWaiter
  <2> QED
      BY <2>1 DEF ExitFinish
<1>5. Ended(gyros, n, t)
    BY <1>2, FinishedSound
<1> HIDE DEF n
<1>6. /\ Sound(n) /\ NoTimeouts(n) /\ n.current = t
      /\ n.priority = gyros.priority /\ n.base_priority = gyros.base_priority
    BY <1>2, <1>5 DEF Ended
<1>7. n.main_list[t] = NoList /\ \A x \in Tasks \ {t} : n.main_list[x] = gyros.main_list[x]
    BY <1>2, <1>5 DEF Ended, Sound, KernelOK, KernelStates
<1> HIDE DEF m
<1>8. Released(n, w, t, m)
  <2>1. m \in Mutexes /\ n.priority[n.current] = n.base_priority[n.current]
      BY <1>2, <1>4, <1>6
  <2> QED
      BY ONLY <1>6, <2>1, ReleaseSound
<1> HIDE DEF w
<1>9. Scheduled(w, gyros') /\ gyros'.pendsv
    BY <1>1, <1>8, RescheduleSound DEF Released
<1>10. /\ Sound(gyros') /\ ScheduleOK(gyros') /\ NoTimeouts(gyros') /\ gyros'.current = t
       /\ gyros'.base_priority = gyros.base_priority
       /\ gyros'.main_list = w.main_list
       /\ \A x \in Tasks : gyros'.priority[x] = gyros.priority[x]
    BY <1>2, <1>4, <1>6, <1>8, <1>9
       DEF Scheduled, ScheduleOK, SameTasks, Released, NoTimeouts
<1>11. \/ /\ \A x \in Tasks : gyros'.main_list[x] = n.main_list[x]
          /\ \A x \in Tasks : n.main_list[x] # m
       \/ \E u \in Tasks :
              /\ n.main_list[u] = m /\ gyros'.main_list[u] = Running
              /\ \A x \in Tasks \ {u} : gyros'.main_list[x] = n.main_list[x]
              /\ \A x \in Tasks : n.main_list[x] = m => n.priority[x] <= n.priority[u]
  <2>1. n.main_list \in [Tasks -> ListIds \cup {NoList}]
      BY <1>6 DEF Sound, KernelOK, KernelStates
  <2>2. CASE w.main_list = n.main_list /\ \A x \in Tasks : n.main_list[x] # m
      BY <1>10, <2>2
  <2>3. ASSUME NEW u \in Tasks, n.main_list[u] = m,
               w.main_list = [n.main_list EXCEPT ![u] = Running],
               \A x \in Tasks : n.main_list[x] = m => n.priority[x] <= n.priority[u]
        PROVE  /\ gyros'.main_list[u] = Running
               /\ \A x \in Tasks \ {u} : gyros'.main_list[x] = n.main_list[x]
      BY <1>10, <2>1, <2>3
  <2>4. \/ w.main_list = n.main_list /\ \A x \in Tasks : n.main_list[x] # m
        \/ \E u \in Tasks :
               /\ n.main_list[u] = m
               /\ w.main_list = [n.main_list EXCEPT ![u] = Running]
               /\ \A x \in Tasks : n.main_list[x] = m => n.priority[x] <= n.priority[u]
      BY <1>8 DEF Released
  <2> QED
      BY <2>2, <2>3, <2>4, Zenon
<1>12. m # NoList /\ m # Running /\ NoList # Running /\ \A k \in Mutexes : k = m
    BY TheMutex, MutexNames, ListNames DEF m
<1>13. gyros'.main_list[t] = NoList
    BY <1>2, <1>7, <1>11, <1>12
<1>14. \A x \in Tasks \ {t} : \/ gyros'.main_list[x] = gyros.main_list[x]
                              \/ gyros.main_list[x] = m /\ gyros'.main_list[x] = Running
    BY <1>7, <1>11
<1>15. /\ GoneOut' /\ pc'[t] = "finished" /\ call'[t] = "none" /\ holds'[t] = {}
       /\ \A x \in AppTasks \ {t} : Still(x)
  <2>1. \A x \in AppTasks \ {t} : gyros.main_list[x] = NoList => gyros'.main_list[x] = NoList
      BY <1>12, <1>14, MutexNames
  <2> QED
      BY <1>1, <1>2, <1>13, <2>1, GoneRanks DEF RankInv
<1>16. \A k \in Mutexes : Waiters(k)' = {x \in Tasks : gyros'.main_list[x] = k}
    BY <1>10, MutexWaiters DEF Waiters
<1>17. \A x \in AppTasks : gyros'.priority[x] = gyros'.base_priority[x]
    BY <1>4, <1>10, MutexNames
<1>18. WaitersLock'
  <2> SUFFICES ASSUME NEW x \in AppTasks, gyros'.main_list[x] \in Mutexes
               PROVE  pc'[x] = "slow" /\ call'[x] = "lock" /\ wants'[x] = gyros'.main_list[x]
      BY DEF WaitersLock
  <2>1. x # t /\ gyros'.main_list[x] = gyros.main_list[x]
      BY <1>13, <1>14, MutexNames
  <2> QED
      BY <1>15, <2>1 DEF WaitInv, WaitersLock, Still
<1>19. ASSUME NEW x \in Tasks, gyros'.main_list[x] = m
       PROVE  \E u \in AppTasks : Woken(u, m)' /\ gyros'.priority[x] <= gyros'.priority[u]
  <2>1. n.main_list[x] = m
      BY <1>11, <1>12, <1>19
  <2>2. PICK u \in Tasks : /\ n.main_list[u] = m /\ gyros'.main_list[u] = Running
                           /\ n.priority[x] <= n.priority[u]
      BY <1>11, <2>1
  <2>3. u # t /\ gyros.main_list[u] = m
      BY <1>7, <1>12, <2>2
  <2>4. u \in AppTasks
      BY <1>2, <1>12, <2>3, MutexNames DEF Sound, AppTasks
  <2>5. pc[u] = "slow" /\ call[u] = "lock" /\ wants[u] = m
      BY <1>2, <2>3, <2>4 DEF WaitInv, WaitersLock
  <2>6. Woken(u, m)'
      BY <1>15, <2>2, <2>3, <2>4, <2>5 DEF Woken, Runs, Still, m
  <2> QED
      BY <1>6, <1>10, <2>2, <2>4, <2>6
<1>20. owner'[m] = NoTask
    BY <1>1, <1>2 DEF LockInv, LockTypes
<1>21. NoLostWakeup' /\ WokenHighest'
    BY <1>12, <1>16, <1>19 DEF NoLostWakeup, WokenHighest, m
<1>22. WaitInv'
  <2>1. UnlockSafe'
      BY <1>10, <1>15 DEF UnlockSafe
  <2>2. CurrentRuns' /\ InheritsForWaiter'
      BY <1>9, <1>17 DEF CurrentRuns, InheritsForWaiter
  <2> QED
      BY <1>10, <1>18, <1>21, <2>1, <2>2 DEF WaitInv
<1>23. PriorityInv'
  <2>1. OwnersHave' /\ OwnsOne' /\ OwnerInherits'
      BY <1>12, <1>20 DEF OwnersHave, OwnsOne, OwnerInherits
  <2> QED
      BY <1>10, <1>21, <2>1 DEF PriorityInv
<1> QED
    BY <1>10, <1>15, <1>17, <1>22, <1>23 DEF RankInv, InheritsFromWaiter, Rebased

\* A task that is deleted leaves the mutex, its owner and those who wait for
\* it with the priorities they had.
LEMMA DeleteServes ==
    ASSUME OneMutex, RanksRespected, IterInv, WaitInv, PriorityInv, RankInv,
           NEW t \in AppTasks, DeleteFinish(t)
    PROVE  WaitInv' /\ PriorityInv' /\ RankInv' /\ Rebased
<1> DEFINE m == iterate_mutex
           u == victim[t]
<1>1. /\ Calls(t) /\ Locked(t, "delete") /\ doing[t] = "delete" /\ Gone(u)
      /\ gyros' = Finished(gyros, u) /\ UNCHANGED <<owner, monitor>>
    BY DEF DeleteFinish, Locked
<1>2. /\ LockInv /\ Unjoined(gyros) /\ Sound(gyros) /\ NoTimeouts(gyros) /\ ScheduleOK(gyros)
      /\ t \in Tasks /\ gyros.current = t /\ pc[t] = "task" /\ m \in Mutexes
      /\ gyros.main_list[t] = Running
    BY <1>1, MutexNames, TheMutex, ExecutingRuns
       DEF IterInv, WaitInv, PriorityInv, Calls, Executing
<1>3. m \in holds[t] /\ owner[m] = t /\ t # NoTask
    BY <1>1, <1>2, MutexNames
       DEF IterInv, TaskInv, DoingLocks, Locking, HasMutex, InCall, LockInv, HoldersOwn
<1>4. u \in AppTasks /\ u # t /\ u \in Tasks
    BY <1>1, MutexNames DEF IterInv, TaskInv, Victim
<1>5. gyros.base_priority[u] <= gyros.base_priority[t]
    BY <1>1 DEF RanksRespected
<1> HIDE DEF u
<1>6. Ended(gyros, gyros', u) /\ ScheduleOK(gyros')
    BY <1>1, <1>2, <1>4, FinishedSound
<1>7. /\ Sound(gyros') /\ NoTimeouts(gyros') /\ gyros'.current = t
      /\ gyros'.priority = gyros.priority /\ gyros'.base_priority = gyros.base_priority
    BY <1>2, <1>6 DEF Ended
<1>8. /\ gyros'.main_list[u] = NoList
      /\ \A x \in Tasks \ {u} : gyros'.main_list[x] = gyros.main_list[x]
    BY <1>2, <1>4, <1>6 DEF Ended, Sound, KernelOK, KernelStates
<1>9. /\ GoneOut' /\ pc'[u] = "finished" /\ \A x \in AppTasks \ {u} : Still(x)
  <2>1. \A x \in AppTasks \ {u} : gyros.main_list[x] = NoList => gyros'.main_list[x] = NoList
      BY <1>8, MutexNames
  <2> QED
      BY <1>1, <1>2, <1>4, <1>8, <2>1, GoneRanks DEF RankInv
<1>10. \A k \in Mutexes : /\ Waiters(k) = {x \in Tasks : gyros.main_list[x] = k}
                          /\ Waiters(k)' = {x \in Tasks : gyros'.main_list[x] = k}
    BY <1>2, <1>7, MutexWaiters DEF Waiters
<1>11. m # NoList /\ \A k \in Mutexes : k = m
    BY TheMutex DEF m
<1>12. Waiters(m)' = Waiters(m) \ {u}
  <2>1. \A x \in Tasks : gyros'.main_list[x] = m <=> gyros.main_list[x] = m /\ x # u
      BY <1>8, <1>11
  <2>2. {x \in Tasks : gyros'.main_list[x] = m} = {x \in Tasks : gyros.main_list[x] = m} \ {u}
      BY ONLY <2>1
  <2> QED
      BY <1>2, <1>10, <2>2
<1>13. InheritsFromWaiter'
  <2> SUFFICES ASSUME NEW x \in AppTasks, gyros.priority[x] # gyros.base_priority[x]
               PROVE  /\ owner[m] = x
                      /\ \E w \in Waiters(m)' : gyros.base_priority[w] > gyros.base_priority[x]
      BY <1>1, <1>7 DEF InheritsFromWaiter
  <2>1. PICK w \in Waiters(m) : x = t /\ gyros.base_priority[w] > gyros.base_priority[x]
      BY <1>3 DEF RankInv, InheritsFromWaiter
  <2>2. w \in Tasks
      BY <1>2, WaitersOwnPriority
  <2>3. gyros.base_priority[w] \in Nat /\ gyros.base_priority[t] \in Nat
      BY <1>2, <2>2, Priorities0 DEF Sound
  <2>4. w # u
      BY <1>5, <2>1, <2>3
  <2> QED
      BY <1>3, <1>12, <2>1, <2>4
<1>14. WaitersLock'
  <2> SUFFICES ASSUME NEW x \in AppTasks, gyros'.main_list[x] \in Mutexes
               PROVE  pc'[x] = "slow" /\ call'[x] = "lock" /\ wants'[x] = gyros'.main_list[x]
      BY DEF WaitersLock
  <2>1. x # u /\ gyros'.main_list[x] = gyros.main_list[x]
      BY <1>8, MutexNames
  <2> QED
      BY <1>9, <2>1 DEF WaitInv, WaitersLock, Still
<1>15. owner'[m] = t /\ holds'[t] = holds[t] /\ pc'[t] = "task"
    BY <1>1, <1>2, <1>3, <1>4, <1>9 DEF Still
<1>16. WaitInv'
  <2>1. UnlockSafe'
      BY <1>7, <1>15 DEF UnlockSafe
  <2>2. CurrentRuns'
      BY <1>2, <1>4, <1>7, <1>8 DEF CurrentRuns, Runs
  <2>3. InheritsForWaiter'
      BY <1>2, <1>13 DEF InheritsFromWaiter, InheritsForWaiter, m
  <2>4. NoLostWakeup'
      BY <1>3, <1>11, <1>15 DEF NoLostWakeup
  <2> QED
      BY <1>7, <1>14, <2>1, <2>2, <2>3, <2>4 DEF WaitInv
<1>17. PriorityInv'
  <2>1. OwnersHave' /\ OwnsOne' /\ WokenHighest'
      BY <1>3, <1>11, <1>15 DEF OwnersHave, OwnsOne, WokenHighest, Has
  <2>2. OwnerInherits'
      BY <1>1, <1>2, <1>7, <1>11, <1>12 DEF PriorityInv, OwnerInherits
  <2> QED
      BY <1>6, <2>1, <2>2 DEF PriorityInv
<1> QED
    BY <1>7, <1>9, <1>13, <1>16, <1>17 DEF RankInv, Rebased

-----------------------------------------------------------------------------
(* Every step of the composition.                                          *)

Served == WaitInv /\ PriorityInv /\ RankInv

ServedInv == IterInv /\ Served

LEMMA MutexServes ==
    ASSUME OneMutex, ~PriorityOfUsers, LockInv, Served, MutexNext
    PROVE  Served' /\ Rebased
<1>1. WaitInv /\ PriorityInv /\ RankInv
    BY DEF Served
<1>2. OneAtATime
    BY MutexNames, TheMutex DEF LockInv, LockTypes, CallersWant, OneAtATime
<1>3. WaitInv'
    BY <1>1, WaitInvNext
<1>4. PriorityInv'
    BY <1>1, <1>2, PriorityInvNext
<1>5. RankInv' /\ Rebased
    BY <1>1, MutexRanks
<1> QED
    BY <1>3, <1>4, <1>5 DEF Served

LEMMA ServedStays ==
    ASSUME LockInv, Served, UNCHANGED <<gyros, pc, mutexVars>>
    PROVE  Served' /\ Rebased
<1>1. UNCHANGED <<gyros, pc, owner, call, wants, holds, monitor>>
    BY DEF mutexVars
<1>2. \A m : Waiters(m)' = Waiters(m)
    BY <1>1 DEF Waiters
<1>3. WaitInv'
    BY <1>1, <1>2 DEF Served, WaitInv, CurrentRuns, Runs, WaitersLock, UnlockSafe,
                      NoLostWakeup, Woken, InheritsForWaiter
<1>4. PriorityInv'
    BY <1>1, <1>2 DEF Served, PriorityInv, OwnersHave, OwnsOne, Has, Unlocks,
                      OwnerInherits, WokenHighest, Woken, Runs
<1>5. RankInv' /\ Rebased
    BY <1>1, <1>2 DEF Served, RankInv, InheritsFromWaiter, GoneOut, Rebased
<1> QED
    BY <1>3, <1>4, <1>5 DEF Served

LEMMA ServedNext ==
    ASSUME OneMutex, ~PriorityOfUsers, RanksRespected, ServedInv, IterateNextStep
    PROVE  Served' /\ Rebased
<1>1. IterInv /\ LockInv /\ WaitInv /\ PriorityInv /\ RankInv /\ Served
    BY DEF ServedInv, Served, IterInv
<1>2. ASSUME MutexNext PROVE Served' /\ Rebased
    BY <1>1, <1>2, MutexServes
<1>3. ASSUME NEW t \in AppTasks,
             \/ \E purpose : LockFor(t, purpose)
             \/ IterateEnd(t) \/ DeleteUnlock(t)
      PROVE  MutexNext
  <2>1. gyros_mutex_lock(t, iterate_mutex) \/ gyros_mutex_unlock(t, iterate_mutex)
      BY <1>3 DEF LockFor, IterateEnd, DeleteUnlock
  <2> QED
      BY <2>1 DEF MutexNext
<1>4. ASSUME NEW t \in AppTasks,
             \/ gyros_task_iterate(t) \/ gyros__task_exit(t)
             \/ \E u \in AppTasks : gyros_task_delete(t, u)
      PROVE  \E purpose : LockFor(t, purpose)
    BY <1>4 DEF gyros_task_iterate, gyros__task_exit, gyros_task_delete
<1>5. ASSUME NEW t \in AppTasks, gyros_task_create(t)
      PROVE  Served' /\ Rebased
  <2>1. Around(t)
      BY <1>1, <1>5, CreateAround DEF RankInv
  <2> QED
      BY <1>1, <2>1, AroundWait, AroundPriority, AroundRanks DEF Served
<1>6. ASSUME NEW t \in AppTasks, ExitFinish(t)
      PROVE  Served' /\ Rebased
    BY <1>1, <1>6, ExitServes DEF Served
<1>7. ASSUME NEW t \in AppTasks, DeleteFinish(t)
      PROVE  Served' /\ Rebased
    BY <1>1, <1>7, DeleteServes DEF Served
<1>8. ASSUME NEW t \in AppTasks, IterateFirst(t) \/ IterateNext(t)
      PROVE  Served' /\ Rebased
  <2>1. UNCHANGED <<gyros, pc, mutexVars>>
      BY <1>8 DEF IterateFirst, IterateNext
  <2> QED
      BY <1>1, <2>1, ServedStays
<1>9. CASE OwnStep
    BY <1>2, <1>9 DEF OwnStep
<1> QED
    BY <1>2, <1>3, <1>4, <1>5, <1>6, <1>7, <1>8, <1>9, Zenon
       DEF IterateNextStep, IterateStep

LEMMA ServedInit == IterateInit => ServedInv
<1> SUFFICES ASSUME IterateInit PROVE ServedInv
    OBVIOUS
<1>1. IterInv /\ MutexInit
    BY IterInit DEF IterateInit
<1>2. WaitInv /\ PriorityInv
    BY <1>1, WaitInvInit, PriorityInvInit
<1>3. gyros.priority = BasePriority /\ gyros.base_priority = BasePriority
    BY <1>1, StartedSound DEF MutexInit
<1>4. \A t \in AppTasks : pc[t] = "task"
    BY <1>1, MutexNames DEF MutexInit
<1>5. RankInv
    BY <1>3, <1>4 DEF RankInv, InheritsFromWaiter, GoneOut
<1> QED
    BY <1>1, <1>2, <1>5 DEF ServedInv, Served

LEMMA ServedInvNext ==
    ASSUME OneMutex, ~PriorityOfUsers
    PROVE  RanksRespected /\ ServedInv /\ [IterateNextStep]_iterateAll
               => ServedInv' /\ Rebased
<1> SUFFICES ASSUME RanksRespected, ServedInv, [IterateNextStep]_iterateAll
             PROVE  ServedInv' /\ Rebased
    OBVIOUS
<1>1. IterInv'
    BY IterNext DEF ServedInv
<1>2. CASE IterateNextStep
    BY <1>1, <1>2, ServedNext DEF ServedInv
<1>3. CASE UNCHANGED iterateAll
  <2>1. UNCHANGED <<gyros, pc, mutexVars>> /\ LockInv
      BY <1>3 DEF iterateAll, vars, ServedInv, IterInv
  <2> QED
      BY <1>1, <2>1, ServedStays DEF ServedInv
<1> QED
    BY <1>2, <1>3

\* Where the ranks are respected, exits and deletions neither lose a wake-up
\* nor leave a priority inherited, whoever exits: task.c:98 hands iterate_mutex to the first
\* that waits although the task that had it is in no list any more, and
\* delete.c:58 takes a task out of the mutex's list while another owns it.
THEOREM IterationServes ==
    ASSUME OneMutex, ~PriorityOfUsers
    PROVE  IterateSpec /\ []RanksRespected =>
               [](NoLostWakeup /\ PriorityRestored /\ OwnerInherits /\ NoPriorityInversion)
<1>1. RanksRespected /\ ServedInv /\ [IterateNextStep]_iterateAll => ServedInv'
    BY ServedInvNext
<1>2. ServedInv => NoLostWakeup /\ PriorityRestored /\ OwnerInherits /\ NoPriorityInversion
  <2> SUFFICES ASSUME ServedInv
               PROVE  NoLostWakeup /\ PriorityRestored /\ OwnerInherits /\ NoPriorityInversion
      OBVIOUS
  <2>1. LockInv /\ WaitInv /\ PriorityInv
      BY DEF ServedInv, Served, IterInv
  <2>2. PriorityRestored
      BY <2>1 DEF WaitInv, InheritsForWaiter, PriorityRestored
  <2> QED
      BY <2>1, <2>2, NoInversion DEF WaitInv, PriorityInv
<1> QED
    BY <1>1, <1>2, ServedInit, PTL DEF IterateSpec

-----------------------------------------------------------------------------
(* Constants that make an application respect the ranks.                   *)

\* The base priorities a task may ever have.
Ranks(t) == {BasePriority[t]} \cup NewPriorities

\* No new priority puts a task above one that was created with as high a
\* priority or a higher one, and no task deletes one created with a higher one.
FixedRanks ==
    /\ ~DeleteHigher
    /\ \A t, u \in AppTasks : t # u /\ BasePriority[u] <= BasePriority[t] =>
           \A p \in Ranks(t), q \in Ranks(u) : q <= p

\* Who deletes whom, and has which base priority.
RankedInv ==
    \A t \in AppTasks :
        /\ gyros.base_priority[t] \in Ranks(t)
        /\ doing[t] = "delete" => BasePriority[victim[t]] <= BasePriority[t]

LEMMA RankedRespected ==
    ASSUME FixedRanks, ServedInv, RankedInv
    PROVE  RanksRespected
<1>1. /\ \A x \in Tasks : gyros.base_priority[x] \in Nat
      /\ IterInv
    BY Priorities0 DEF ServedInv, Served, WaitInv, Sound
<1>2. ASSUME NEW t \in AppTasks, Locked(t, "delete")
      PROVE  gyros.base_priority[victim[t]] <= gyros.base_priority[t]
  <2>1. victim[t] \in AppTasks /\ victim[t] # t
      BY <1>1, <1>2 DEF Locked, IterInv, TaskInv, Victim
  <2>2. BasePriority[victim[t]] <= BasePriority[t]
      BY <1>2 DEF Locked, RankedInv
  <2> QED
      BY <2>1, <2>2 DEF FixedRanks, RankedInv
<1> QED
    BY <1>2 DEF RanksRespected

\* The task that deletes goes on doing so, or it has just begun.
LEMMA DeletingNext ==
    ASSUME ~DeleteHigher, IterInv, NEW t \in AppTasks, [IterateNextStep]_iterateAll,
           doing'[t] = "delete"
    PROVE  \/ doing[t] = "delete" /\ victim'[t] = victim[t]
           \/ BasePriority[victim'[t]] <= BasePriority[t]
<1> DEFINE Same == UNCHANGED <<doing, victim>>
<1>0. IterTypes /\ t \in Tasks
    BY MutexNames DEF IterInv
<1>1. ASSUME NEW x \in AppTasks, NEW to \in {"none", "iterate", "exit"},
             doing' = [doing EXCEPT ![x] = to], UNCHANGED victim
      PROVE  doing[t] = "delete" /\ victim'[t] = victim[t]
    BY <1>0, <1>1 DEF IterTypes
<1>2. CASE Same
    BY <1>2
<1>3. CASE OwnStep \/ UNCHANGED iterateAll
    BY <1>3 DEF OwnStep, iterateAll, iterateVars
<1>4. ASSUME NEW x \in AppTasks, IterateFirst(x) \/ IterateNext(x) \/ gyros_task_create(x)
      PROVE  Same
    BY <1>4 DEF IterateFirst, IterateNext, gyros_task_create
<1>5. ASSUME NEW x \in AppTasks,
             \/ gyros_task_iterate(x) \/ IterateEnd(x) \/ gyros__task_exit(x)
             \/ ExitFinish(x) \/ DeleteUnlock(x)
      PROVE  /\ UNCHANGED victim
             /\ \E to \in {"none", "iterate", "exit"} : doing' = [doing EXCEPT ![x] = to]
    BY <1>5 DEF gyros_task_iterate, LockFor, IterateEnd, gyros__task_exit,
              ExitFinish, DeleteUnlock
<1>6. ASSUME NEW x \in AppTasks, NEW u \in AppTasks, gyros_task_delete(x, u)
      PROVE  \/ doing[t] = "delete" /\ victim'[t] = victim[t]
             \/ BasePriority[victim'[t]] <= BasePriority[t]
  <2>1. /\ BasePriority[u] <= BasePriority[x] /\ doing' = [doing EXCEPT ![x] = "delete"]
        /\ victim' = [victim EXCEPT ![x] = u]
      BY <1>6 DEF gyros_task_delete, LockFor
  <2> QED
      BY <1>0, <2>1 DEF IterTypes
<1>7. ASSUME NEW x \in AppTasks, DeleteFinish(x)
      PROVE  doing[t] = "delete" /\ victim'[t] = victim[t]
  <2>1. /\ doing' = [doing EXCEPT ![x] = "unlock", ![victim[x]] = "none"]
        /\ victim' = [victim EXCEPT ![x] = NoTask, ![victim[x]] = NoTask]
      BY <1>7 DEF DeleteFinish
  <2> QED
      BY <1>0, <2>1 DEF IterTypes
<1>8. ASSUME NEW x \in AppTasks, IterateStep(x)
      PROVE  \/ doing[t] = "delete" /\ victim'[t] = victim[t]
             \/ BasePriority[victim'[t]] <= BasePriority[t]
    BY <1>1, <1>2, <1>4, <1>5, <1>6, <1>7, <1>8 DEF IterateStep
<1> QED
    BY <1>3, <1>8 DEF IterateNextStep

LEMMA RankedNext ==
    ASSUME OneMutex, ~PriorityOfUsers, FixedRanks
    PROVE  ServedInv /\ RankedInv /\ [IterateNextStep]_iterateAll => ServedInv' /\ RankedInv'
<1> SUFFICES ASSUME ServedInv, RankedInv, [IterateNextStep]_iterateAll
             PROVE  ServedInv' /\ RankedInv'
    OBVIOUS
<1>1. ServedInv' /\ Rebased
    BY RankedRespected, ServedInvNext
<1>2. IterInv /\ ~DeleteHigher
    BY DEF ServedInv, FixedRanks
<1>3. ASSUME NEW t \in AppTasks
      PROVE  /\ gyros'.base_priority[t] \in Ranks(t)
             /\ doing'[t] = "delete" => BasePriority[victim'[t]] <= BasePriority[t]
  <2>1. gyros'.base_priority[t] \in Ranks(t)
      BY <1>1 DEF Rebased, RankedInv, Ranks
  <2> QED
      BY <1>2, <2>1, DeletingNext DEF RankedInv
<1> QED
    BY <1>1, <1>3 DEF RankedInv

LEMMA RankedInit == IterateInit => RankedInv
<1> SUFFICES ASSUME IterateInit PROVE RankedInv
    OBVIOUS
<1>1. gyros.base_priority = BasePriority
    BY StartedSound DEF IterateInit, MutexInit
<1>2. \A t \in AppTasks : doing[t] = "none"
    BY MutexNames DEF IterateInit
<1> QED
    BY <1>1, <1>2 DEF RankedInv, Ranks

\* An application whose tasks keep the order of their priorities, and delete
\* none created above them, is such a one.
THEOREM RanksKept ==
    ASSUME OneMutex, ~PriorityOfUsers, FixedRanks
    PROVE  IterateSpec => []RanksRespected
<1>1. ServedInv /\ RankedInv /\ [IterateNextStep]_iterateAll => ServedInv' /\ RankedInv'
    BY RankedNext
<1>2. ServedInv /\ RankedInv => RanksRespected
    BY RankedRespected
<1> QED
    BY <1>1, <1>2, ServedInit, RankedInit, PTL DEF IterateSpec

\* In it neither exits nor deletions, wherever they fall, lose a wake-up, keep
\* a priority inherited or let a lower task run before one that waits.
THEOREM IterationServesRanked ==
    ASSUME OneMutex, ~PriorityOfUsers, FixedRanks
    PROVE  IterateSpec =>
               [](NoLostWakeup /\ PriorityRestored /\ OwnerInherits /\ NoPriorityInversion)
    BY RanksKept, IterationServes, PTL
=============================================================================
