------------------------------ MODULE MCTimers ------------------------------
(* Instances of Timers for TLC. *)
EXTENDS TimerProperties, TLC

CONSTANTS t1, t2, i1, i2, a

Two == {t1, t2, Idle}
TwoTimers == {i1, i2}
OneAlarm == {a}
Levels == {1, 2}
Rising == t1 :> 1 @@ t2 :> 2 @@ Idle :> 0

\* Two timers and a task that sleeps; two tasks that wait for an alarm or
\* sleep; a timer that sets and resets the alarm a task waits for.
Three ==
    { [tasks |-> {t2}, timers |-> {i1, i2}, alarms |-> {}],
      [tasks |-> {t1, t2}, timers |-> {}, alarms |-> {a}],
      [tasks |-> {t2}, timers |-> {i1}, alarms |-> {a}] }

Once == {0, 1}
=============================================================================
