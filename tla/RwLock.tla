-------------------------------- MODULE RwLock --------------------------------
(***************************************************************************)
(* Reader/writer locks: src/rwlock.c.                                      *)
(*                                                                         *)
(* Readers queue behind waiting writers.  The unlock that finds a writer   *)
(* waiting makes it the writer at once, before it runs; readers are woken  *)
(* together and look at the lock again.                                    *)
(***************************************************************************)
EXTENDS GyrosServices

CONSTANTS
    rd_task_list,   \* rwlock->rd_task_list
    wr_task_list    \* rwlock->wr_task_list

ASSUME RwAssumption ==
    /\ {rd_task_list, wr_task_list} \subseteq Objects
    /\ rd_task_list # wr_task_list

VARIABLES
    writer,    \* rwlock->writer
    readers,   \* rwlock->readers
    mode       \* how each task has locked it, as its own code sees it

rwVars == <<writer, readers, mode>>

RwInit ==
    /\ gyros \in Started
    /\ pc = [t \in Tasks |-> "task"]
    /\ writer = NoTask
    /\ readers = 0
    /\ mode = [t \in Tasks |-> "none"]

ReadBlocked == writer # NoTask \/ Waiters(wr_task_list) # {}

\* The lock may be taken from a writer that has been handed it.
Faulty_WriteBlocked(t) == readers > 0

WriteBlocked(t) == writer \notin {NoTask, t} \/ readers > 0

RwReturn(k, t) ==
    /\ gyros' = ForgetTimeout(k, t)
    /\ Goto(t, "task")

ReadLocked(t) ==
    /\ readers' = readers + 1
    /\ mode' = [mode EXCEPT ![t] = "read"]
    /\ RwReturn(gyros, t)
    /\ UNCHANGED writer

WriteLocked(t) ==
    /\ writer' = t
    /\ mode' = [mode EXCEPT ![t] = "write"]
    /\ RwReturn(gyros, t)
    /\ UNCHANGED readers

\* A call with a timeout returns false.
Fails(t) == RwReturn(gyros, t) /\ UNCHANGED rwVars

\* t waits in l; k is the kernel state it starts from.
RwBlockIn(k, t, l, call) ==
    /\ gyros' = Wait(k, l)
    /\ Goto(t, call)
    /\ UNCHANGED rwVars

\* The locks are not recursive: only a task that holds none calls for one.
LockCalls(t) == Calls(t) /\ mode[t] = "none"

-----------------------------------------------------------------------------
\* A failed try changes nothing.
gyros_rwlock_try_rdlock(t) == LockCalls(t) /\ ~ReadBlocked /\ ReadLocked(t)
gyros_rwlock_try_wrlock(t) == LockCalls(t) /\ ~WriteBlocked(t) /\ WriteLocked(t)

\* One turn of the while loops without a timeout.
ReadLoop(t) ==
    IF ReadBlocked THEN RwBlockIn(gyros, t, rd_task_list, "rdlock") ELSE ReadLocked(t)

WriteLoop(t) ==
    IF WriteBlocked(t) THEN RwBlockIn(gyros, t, wr_task_list, "wrlock") ELSE WriteLocked(t)

gyros_rwlock_rdlock(t) == LockCalls(t) /\ ReadLoop(t)
gyros_rwlock_wrlock(t) == LockCalls(t) /\ WriteLoop(t)

ReadWoken(t) == Continues(t, "rdlock") /\ ReadLoop(t)
WriteWoken(t) == Continues(t, "wrlock") /\ WriteLoop(t)

\* One turn of the while loops with a timeout.
ReadLoopUntil(t, timeout) ==
    IF ~ReadBlocked THEN ReadLocked(t)
    ELSE IF TimeoutReached(gyros, timeout) THEN Fails(t)
    ELSE RwBlockIn(gyros__task_set_timeout(gyros, timeout), t, rd_task_list, "rdlock_until")

WriteLoopUntil(t, timeout) ==
    IF ~WriteBlocked(t) THEN WriteLocked(t)
    ELSE IF TimeoutReached(gyros, timeout) THEN Fails(t)
    ELSE RwBlockIn(gyros__task_set_timeout(gyros, timeout), t, wr_task_list, "wrlock_until")

gyros_rwlock_rdlock_until(t, timeout) == LockCalls(t) /\ ReadLoopUntil(t, timeout)
gyros_rwlock_wrlock_until(t, timeout) == LockCalls(t) /\ WriteLoopUntil(t, timeout)

\* timed_out is looked at first; the timeout is the one of the call.
ReadUntilWoken(t) ==
    /\ Continues(t, "rdlock_until")
    /\ IF gyros.timed_out[t] THEN Fails(t) ELSE ReadLoopUntil(t, gyros.timeout[t])

WriteUntilWoken(t) ==
    /\ Continues(t, "wrlock_until")
    /\ IF gyros.timed_out[t] THEN Fails(t) ELSE WriteLoopUntil(t, gyros.timeout[t])

-----------------------------------------------------------------------------
\* The readers that are left when the holder has let go.
LeftReaders == IF writer # NoTask THEN readers ELSE readers - 1

\* The lock goes on to the first writer that waits.
HandsOver == Waiters(wr_task_list) # {} /\ LeftReaders = 0

FirstWriter == Head(gyros.lists[wr_task_list])

\* The woken writer is left to set the field itself.
Faulty_NextWriter == NoTask

NextWriter == IF HandsOver THEN FirstWriter ELSE NoTask

\* Only the first reader is woken.
Faulty_WakeNext ==
    IF HandsOver THEN WakeFirst(gyros, wr_task_list)
    ELSE IF Waiters(wr_task_list) = {} THEN WakeFirst(gyros, rd_task_list)
    ELSE gyros

\* No reader is woken while a writer waits.
WakeNext ==
    gyros__cond_reschedule(
        IF HandsOver THEN gyros__task_wake(gyros, FirstWriter)
        ELSE IF Waiters(wr_task_list) = {} THEN WakeAllFromTail(gyros, rd_task_list)
        ELSE gyros)

gyros_rwlock_unlock(t) ==
    /\ Calls(t) /\ mode[t] # "none"
    /\ mode' = [mode EXCEPT ![t] = "none"]
    /\ readers' = LeftReaders
    /\ writer' = NextWriter
    /\ gyros' = WakeNext
    /\ UNCHANGED pc

-----------------------------------------------------------------------------
\* What t does in a call after a wake-up.
RwStep(t) == ReadWoken(t) \/ WriteWoken(t) \/ ReadUntilWoken(t) \/ WriteUntilWoken(t)

RwRest(t) == Rest(t) /\ UNCHANGED rwVars
RwResume(t) == Resume(t) /\ UNCHANGED rwVars
RwTick == Tick /\ UNCHANGED rwVars
RwSwitch == ContextSwitch /\ UNCHANGED rwVars

RwNext ==
    \/ RwTick
    \/ RwSwitch
    \/ \E t \in AppTasks :
        \/ gyros_rwlock_try_rdlock(t)
        \/ gyros_rwlock_try_wrlock(t)
        \/ gyros_rwlock_rdlock(t)
        \/ gyros_rwlock_wrlock(t)
        \/ \E delay \in 0..MaxDelay :
            \/ gyros_rwlock_rdlock_until(t, Deadline(delay))
            \/ gyros_rwlock_wrlock_until(t, Deadline(delay))
        \/ gyros_rwlock_unlock(t)
        \/ RwStep(t)
        \/ RwRest(t)
        \/ RwResume(t)
=============================================================================
