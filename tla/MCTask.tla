------------------------------- MODULE MCTask -------------------------------
(* Instances of TaskManagement for TLC. *)
EXTENDS TaskProperties, TLC

CONSTANTS t1, t2, t3

NoObjects == {}
Two == {t1, t2, Idle}
Three == {t1, t2, t3, Idle}
Symmetry == Permutations(AppTasks)

TwoLevels == {1, 2}

LifeCalls == {"task_create", "task_exit", "task_delete"}
PriorityCalls == {"task_suspend", "task_resume", "task_set_priority"}
ScheduleCalls == LifeCalls \cup PriorityCalls \cup {"yield", "task_join"}
TimedCalls ==
    LifeCalls \cup PriorityCalls \cup {"yield", "sleep_until", "task_join_until"}

\* Three tasks that never wait with a timeout,
Scheduling ==
    [tasks |-> 3, calls |-> ScheduleCalls,
     isr_calls |-> {"task_resume", "task_set_priority"}]

\* two tasks that do,
Sleeping == [tasks |-> 2, calls |-> TimedCalls, isr_calls |-> {"task_resume"}]

\* and two that interrupt handlers suspend, too.
Interrupted == [tasks |-> 2, calls |-> ScheduleCalls, isr_calls |-> PriorityCalls]

AllApplications == {Scheduling, Sleeping, Interrupted}
Finishing == {[tasks |-> 2, calls |-> LifeCalls \cup {"task_join_until"}, isr_calls |-> {}]}
=============================================================================
