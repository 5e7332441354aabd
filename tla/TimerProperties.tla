-------------------------- MODULE TimerProperties --------------------------
(***************************************************************************)
(* Correctness properties of timers, alarm clocks and sleep.               *)
(***************************************************************************)
EXTENDS Timers

\* After each timer interrupt no task is left waiting for a time that has been
\* reached, in whatever order timeouts were queued by sleeps and by alarms
\* that were set while tasks waited for them (alarm_clock.c:94-115).
NoOverdueTimeout ==
    \A t \in Elements(gyros.timeouts) :
        gyros_time_compare(gyros.timeout[t], gyros.now) > 0

\* timed_out is set only by an interrupt at or after the time waited for.
TimesOutOnlyWhenReached ==
    [][\A t \in Tasks : ~gyros.timed_out[t] /\ gyros'.timed_out[t] =>
           /\ t \in Elements(gyros.timeouts)
           /\ gyros_time_compare(gyros'.now, gyros.timeout[t]) >= 0]_vars

\* A task that waits for an alarm waits for the time of the last set, whenever
\* it came and however often the alarm was set and reset in between; while
\* the alarm is not armed it waits for no time at all.
WaitersFollowAlarm ==
    \A a \in Alarms : \A t \in Waiters(a) :
        /\ alarm[a].armed <=> t \in Elements(gyros.timeouts)
        /\ alarm[a].armed => gyros.timeout[t] = alarm[a].wakeup_time

\* A wait for an alarm ends only when the alarm is armed and its time, as it
\* is set then, has been reached ("Wait for the alarm clock to reach the set
\* time", alarm_clock.h:97).
WaitEndsAtAlarm ==
    [][\A a \in Alarms : \A t \in Waiters(a) :
           t \in Elements(gyros'.lists[a])
           \/ /\ alarm'[a].armed
              /\ gyros_time_compare(alarm'[a].wakeup_time, gyros'.now) <= 0]_vars

\* A callback starts a timer, perhaps its own, whose time has been reached.
StartsReached ==
    /\ tick = "callback"
    /\ \E i \in app.timers, delay \in -MaxLate .. 0, period \in Periods :
           gyros_timer_start(i, Deadline(delay), period)

\* The one way for callbacks to keep gyros__tick in its loop (timeout.c:109):
\* they start timers whose time has been reached again and again.
CallbacksNeverDone == []<><<StartsReached>>_vars

\* Whatever else callbacks start, stop and set, the timer interrupt returns: it
\* catches up with a periodic timer and does not run the same period twice
\* (timeout.c:109).
TickReturns == CallbacksNeverDone \/ []<>(tick = "none")

\* Every sleep is ended by the clock, unless callbacks never let it advance
\* (timeout.c:95).
TimeoutFires ==
    \/ CallbacksNeverDone
    \/ \A t \in AppTasks :
           pc[t] = "sleep" /\ t \in Elements(gyros.timeouts) ~> t \notin Elements(gyros.timeouts)

\* The sorted list of timers implements the service timer.h describes, also
\* when callbacks start and stop timers while gyros__tick walks the list.
Service == INSTANCE TimerService WITH
    Off <- TimeRange,
    due <- [i \in AllTimers |->
               IF i \in Elements(timers) THEN timer[i].timeout ELSE TimeRange],
    period <- [i \in AllTimers |-> timer[i].period],
    calling <- calling,
    now <- gyros.now,
    Compare <- gyros_time_compare

ImplementsTimers == Service!Spec
=============================================================================
