------------------------------- MODULE Timers -------------------------------
(***************************************************************************)
(* Everything that waits for the clock: software timers (src/timer.c and   *)
(* the second half of gyros__tick), alarm clocks (src/alarm_clock.c) and   *)
(* sleeping tasks, in the surroundings of GyrosServices.                   *)
(*                                                                         *)
(* gyros__tick runs with interrupts disabled, but it calls back into the   *)
(* application: a callback may start and stop timers, the one that calls   *)
(* it among them, and set and reset alarms, any number of times.  So the   *)
(* interrupt is not one step here.  It wakes the tasks, then takes one     *)
(* timer after the other off the list ("walk") and runs its callback       *)
(* ("callback"); nothing else runs before it has ended.                    *)
(*                                                                         *)
(* Functions that do not block may be called by tasks, by other interrupt  *)
(* handlers and by callbacks; what they do is the same.                    *)
(***************************************************************************)
EXTENDS GyrosServices

CONSTANTS
    AllTimers,  \* timer structures
    NoTimer,    \* no callback is running
    Alarms,     \* an alarm clock names its task_list
    Applications, \* which tasks, timers and alarms an application may use
    Periods,    \* periods timers are started with; 0 is a one-shot timer
    MaxLate     \* how far in the past a timer may be started

ASSUME TimersAssumption ==
    /\ NoTimer \notin AllTimers
    /\ Alarms \subseteq Objects
    \* The idle task uses nothing.
    /\ Applications \subseteq [tasks : SUBSET (Tasks \ {Idle}), timers : SUBSET AllTimers,
                               alarms : SUBSET Alarms]
    /\ Periods \subseteq 0..MaxDelay
    /\ MaxLate \in Nat /\ MaxLate < TimeRange \div 2

VARIABLES
    app,      \* the application, which never changes
    timers,   \* _gyros.timers
    timer,    \* the fields of each timer
    alarm,    \* the fields of each alarm clock
    tick,     \* what gyros__tick is doing: "none", "walk" or "callback"
    calling   \* the timer whose callback is running

timerVars == <<timers, timer>>
tickVars == <<app, tick, calling>>
vars == <<gyros, pc, app, timers, timer, alarm, tick, calling>>

\* The fields of a timer that is not linked are written before they are read
\* again; so are those of an alarm clock that is not armed.
Unset == [timeout |-> 0, period |-> 0]
Unarmed == [armed |-> FALSE, wakeup_time |-> 0]

Init ==
    /\ gyros \in Started
    /\ pc = [t \in Tasks |-> "task"]
    /\ app \in Applications
    /\ timers = <<>>
    /\ timer = [i \in AllTimers |-> Unset]
    /\ alarm = [a \in Alarms |-> Unarmed]
    /\ tick = "none"
    /\ calling = NoTimer

\* The application runs: a task, an interrupt handler or a callback.
ApplicationRuns == tick # "walk"

-----------------------------------------------------------------------------
(* Software timers.                                                        *)

\* At the end of the list instead of in the order of time.
Faulty_gyros__timer_schedule(list, fields, i) == Append(list, i)

\* Behind every timer that is not later.
gyros__timer_schedule(list, fields, i) ==
    LET later == {p \in 1..Len(list) :
                     gyros_time_compare(fields[i].timeout, fields[list[p]].timeout) < 0}
    IN  ListInsertBefore(list, FirstPosition(list, later), i)

gyros_timer_start(i, time, period) ==
    LET started == [timer EXCEPT ![i] = [timeout |-> time, period |-> period]]
    IN  /\ ApplicationRuns
        /\ timer' = started
        /\ timers' = gyros__timer_schedule(ListRemove(timers, i), started, i)
        /\ UNCHANGED <<gyros, pc, alarm, tickVars>>

gyros_timer_stop(i) ==
    /\ ApplicationRuns
    /\ timers' = ListRemove(timers, i)
    /\ timer' = [timer EXCEPT ![i] = Unset]
    /\ UNCHANGED <<gyros, pc, alarm, tickVars>>

\* The first timer is due.
Due == timers # <<>> /\ gyros_time_compare(gyros.now, timer[Head(timers)].timeout) >= 0

\* A periodic timer is not moved to its next period.
Faulty_gyros__tick_timer ==
    /\ tick = "walk" /\ tick' = "callback" /\ Due
    /\ LET i == Head(timers)
       IN  /\ IF timer[i].period = 0
              THEN timers' = Tail(timers) /\ timer' = [timer EXCEPT ![i] = Unset]
              ELSE UNCHANGED timerVars
           /\ calling' = i
    /\ UNCHANGED <<gyros, pc, app, alarm>>

\* The first due timer is taken off the list, is queued again if it is
\* periodic, and only then is its callback called.
gyros__tick_timer ==
    /\ tick = "walk" /\ tick' = "callback" /\ Due
    /\ LET i == Head(timers)
           next == [timer EXCEPT ![i].timeout = (@ + timer[i].period) % TimeRange]
       IN  /\ IF timer[i].period = 0
              THEN timers' = Tail(timers) /\ timer' = [timer EXCEPT ![i] = Unset]
              ELSE timers' = gyros__timer_schedule(Tail(timers), next, i) /\ timer' = next
           /\ calling' = i
    /\ UNCHANGED <<gyros, pc, app, alarm>>

\* timer->callback returns.
CallbackReturn ==
    /\ tick = "callback"
    /\ tick' = "walk" /\ calling' = NoTimer
    /\ UNCHANGED <<gyros, pc, app, timerVars, alarm>>

-----------------------------------------------------------------------------
(* Alarm clocks.                                                           *)

\* Returns at once when the alarm is armed and its time has been reached.
gyros_alarm_clock_wait(t, a) ==
    /\ tick = "none" /\ Calls(t)
    /\ IF ~alarm[a].armed
       THEN gyros' = Wait(gyros, a) /\ Goto(t, "alarm")
       ELSE IF TimeoutReached(gyros, alarm[a].wakeup_time)
       THEN UNCHANGED <<gyros, pc>>
       ELSE gyros' = WaitUntil(gyros, a, alarm[a].wakeup_time) /\ Goto(t, "alarm")
    /\ UNCHANGED <<timerVars, alarm, tickVars>>

AlarmReturn(t) ==
    /\ tick = "none" /\ Continues(t, "alarm")
    /\ gyros' = ForgetTimeout(gyros, t)
    /\ Goto(t, "task")
    /\ UNCHANGED <<timerVars, alarm, tickVars>>

\* gyros__list_remove of one node after the other.
ListRemoveAll(list, nodes) ==
    LET left[n \in 0..Len(nodes)] ==
            IF n = 0 THEN list ELSE ListRemove(left[n - 1], nodes[n])
    IN  left[Len(nodes)]

\* The timeout list without the tasks that wait for a.
WithoutWaiters(k, a) == ListRemoveAll(k.timeouts, k.lists[a])

\* All that wait for a are queued for the new time, the last one first.
Retime(k, a, time) ==
    LET waiters == Elements(k.lists[a])
        others == WithoutWaiters(k, a)
        later == {p \in 1..Len(others) : gyros_time_compare(time, k.timeout[others[p]]) < 0}
        position == FirstPosition(others, later)
    IN  [k EXCEPT !.timeouts = SubSeq(others, 1, position - 1) \o Reverse(k.lists[a])
                                  \o SubSeq(others, position, Len(others)),
                  !.timeout = [t \in Tasks |-> IF t \in waiters THEN time ELSE @[t]],
                  !.timed_out = [t \in Tasks |-> t \notin waiters /\ @[t]]]

\* Those that wait already keep the time they wait for.
Faulty_gyros_alarm_clock_set(a, time) ==
    /\ ApplicationRuns
    /\ alarm' = [alarm EXCEPT ![a] = [armed |-> TRUE, wakeup_time |-> time]]
    /\ UNCHANGED <<gyros, pc, timerVars, tickVars>>

\* Tasks that wait already wait for the new time, or are woken by it.
gyros_alarm_clock_set(a, time) ==
    /\ ApplicationRuns
    /\ alarm' = [alarm EXCEPT ![a] = [armed |-> TRUE, wakeup_time |-> time]]
    /\ gyros' = IF gyros.lists[a] = <<>>
                THEN gyros
                ELSE IF TimeoutReached(gyros, time)
                THEN gyros__cond_reschedule(WakeSeq(gyros, gyros.lists[a]))
                ELSE Retime(gyros, a, time)
    /\ UNCHANGED <<pc, timerVars, tickVars>>

\* The tasks that wait already keep waiting for the old time.
Faulty_gyros_alarm_clock_reset(a) ==
    /\ ApplicationRuns
    /\ alarm' = [alarm EXCEPT ![a] = Unarmed]
    /\ UNCHANGED <<gyros, pc, timerVars, tickVars>>

\* Tasks that wait already wait for the alarm to be set again.
gyros_alarm_clock_reset(a) ==
    /\ ApplicationRuns
    /\ alarm' = [alarm EXCEPT ![a] = Unarmed]
    /\ gyros' = IF alarm[a].armed
                THEN [gyros EXCEPT !.timeouts = WithoutWaiters(gyros, a)]
                ELSE gyros
    /\ UNCHANGED <<pc, timerVars, tickVars>>

-----------------------------------------------------------------------------
(* Sleeping tasks, and the interrupt.                                      *)

gyros_sleep_until(t, timeout) ==
    /\ tick = "none" /\ Calls(t)
    /\ ~TimeoutReached(gyros, timeout)
    /\ gyros' = gyros__reschedule(gyros__task_suspend(
                    gyros__task_set_timeout(gyros, timeout), t))
    /\ Goto(t, "sleep")
    /\ UNCHANGED <<timerVars, alarm, tickVars>>

SleepReturn(t) ==
    /\ tick = "none" /\ Continues(t, "sleep")
    /\ gyros' = ForgetTimeout(gyros, t)
    /\ Goto(t, "task")
    /\ UNCHANGED <<timerVars, alarm, tickVars>>

\* The timer interrupt counts one tick and gyros__tick wakes the tasks.
TickBegin ==
    /\ tick = "none" /\ tick' = "walk"
    /\ Tick
    /\ UNCHANGED <<app, timerVars, alarm, calling>>

\* No timer is due any more, and the interrupt returns.
TickEnd ==
    /\ tick = "walk" /\ ~Due
    /\ tick' = "none"
    /\ UNCHANGED <<gyros, pc, app, timerVars, alarm, calling>>

TimersSwitch ==
    /\ tick = "none"
    /\ ContextSwitch
    /\ UNCHANGED <<timerVars, alarm, tickVars>>

TickStep == gyros__tick_timer \/ CallbackReturn \/ TickEnd

\* Delays of timers and alarms.  Nobody is kept from starting a timer whose
\* time has been reached, a callback as little as a task: gyros__tick then calls
\* it before it returns.
Delays == -MaxLate .. MaxDelay

TaskStep(t) ==
    \/ \E delay \in 1..MaxDelay : gyros_sleep_until(t, Deadline(delay))
    \/ SleepReturn(t)
    \/ \E a \in app.alarms : gyros_alarm_clock_wait(t, a)
    \/ AlarmReturn(t)

Next ==
    \/ TickBegin
    \/ TickStep
    \/ TimersSwitch
    \/ \E t \in app.tasks : TaskStep(t)
    \/ \E i \in app.timers :
        \/ \E delay \in Delays, period \in Periods :
               gyros_timer_start(i, Deadline(delay), period)
        \/ gyros_timer_stop(i)
    \/ \E a \in app.alarms :
        \/ \E delay \in Delays : gyros_alarm_clock_set(a, Deadline(delay))
        \/ gyros_alarm_clock_reset(a)

\* The timer keeps interrupting (only TickBegin takes this step; stated of tick
\* alone, it is quick to check), its handler makes progress and a callback
\* returns.
TimerInterrupts == tick = "none" /\ tick' = "walk"

Spec == Init /\ [][Next]_vars /\ WF_tick(TimerInterrupts) /\ WF_vars(TickStep)
=============================================================================
