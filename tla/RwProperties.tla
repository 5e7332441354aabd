---------------------------- MODULE RwProperties ----------------------------
(***************************************************************************)
(* Reader/writer locks on their own, and their correctness properties.     *)
(***************************************************************************)
EXTENDS RwLock

rwAll == <<gyros, pc, rwVars>>

RwSpec == RwInit /\ [][RwNext]_rwAll

\* "A read/write lock (rwlock) allows multiple read locks simultaneously, but
\* write locks are exclusive, locking out all other readers and writers"
\* (rwlock.h:38), although the one field writer also stands for a task that has
\* not run since it was handed the lock.
RwExclusion ==
    \A t, u \in AppTasks : t # u /\ mode[t] = "write" => mode[u] = "none"

\* The lock is never handed to a task that will not take it: the writer has
\* locked it, or has been woken in its call and not timed out, however its
\* timeout, the unlock and the switch to it fall together.
HandedOver ==
    \A t \in AppTasks : writer = t =>
        \/ mode[t] = "write"
        \/ pc[t] \in {"wrlock", "wrlock_until"} /\ Runs(t) /\ ~gyros.timed_out[t]

\* Nobody sleeps at a lock that is free, writers that gave up included.
NoSleeperAtFreeLock ==
    writer = NoTask /\ readers = 0 => Waiters(rd_task_list) \cup Waiters(wr_task_list) = {}

\* Readers keep out while a writer waits, and until it has run once it has been
\* handed the lock (rwlock.c:330: "to prevent any readers from sneaking in
\* before the writer has had a chance to set it itself").
ReadersKeepOut ==
    [][(\E t \in AppTasks : pc[t] \in {"wrlock", "wrlock_until"} /\ ~gyros.timed_out[t])
           => readers' <= readers]_rwAll
=============================================================================
