------------------------------ MODULE DynTick ------------------------------
(***************************************************************************)
(* The tickless timer: gyros__dyntick_update (src/timeout.c) and the       *)
(* gyros__dyntick_suspend, gyros__dyntick_set and gyros_time of the ports. *)
(* A free-running hardware counter of few bits is extended to the width of *)
(* gyros_abstime_t in software, and its compare register is set so that    *)
(* the timer interrupt comes at the first timeout.                         *)
(*                                                                         *)
(* Disabling interrupts does not stop the counter: it may advance between  *)
(* any two accesses to its registers, so each access is a step.  The       *)
(* kernel's lists are reduced to the times that are queued in them.        *)
(***************************************************************************)
EXTENDS Integers, FiniteSets

CONSTANTS
    TimeRange,     \* values of gyros_abstime_t
    MAX_PERIOD,    \* half the range of the hardware counter
    Near,          \* the distance (MAX_PERIOD / 4) from which a match is checked
    Latency,       \* most ticks an interrupt or a critical section takes
    MaxDelay,      \* longest timeout
    Periods,       \* periods of timers; 0 is a one-shot timer
    Room           \* times that are queued in each list

CounterRange == 2 * MAX_PERIOD

ASSUME DynTickAssumption ==
    /\ MAX_PERIOD \in Nat /\ Near \in 1..MAX_PERIOD
    /\ TimeRange \in Nat /\ TimeRange % CounterRange = 0
    /\ Latency \in 1 .. Near - 1
    \* Near is MAX_PERIOD / 4 or less in every port.
    /\ 3 * Latency < MAX_PERIOD
    /\ MaxDelay \in Nat /\ MaxDelay + 3 * Latency < TimeRange \div 2
    /\ Periods \subseteq 0..MaxDelay
    /\ Room \in Nat

VARIABLES
    \* hardware
    time,      \* the true time; the counter shows it modulo CounterRange
    compare,   \* the compare register
    pending,   \* the timer interrupt is pending
    rearms,    \* the port forces an interrupt by setting compare again
    \* the port
    time_hi,   \* s_time_hi
    last_lo,   \* s_last_time_lo
    \* the kernel
    queue,     \* the times in _gyros.timeouts and _gyros.timers
    at,        \* where the program is
    now,       \* the argument of gyros__dyntick_update
    tick,      \* the argument of gyros__tick, or None outside of it
    spent      \* ticks that have passed with interrupts disabled

portVars == <<time_hi, last_lo>>
vars == <<time, compare, pending, rearms, portVars, queue, at, now, tick, spent>>

Time == 0 .. TimeRange - 1
Lists == {"timeouts", "timers"}
None == -1

counter == time % CounterRange

\* gyros_time_compare(time1, time2)
Compare(time1, time2) ==
    ((time1 - time2 + TimeRange \div 2) % TimeRange) - TimeRange \div 2

Later(delay) == (time + delay) % TimeRange

Init ==
    /\ time = 0 /\ compare = MAX_PERIOD /\ pending = FALSE
    /\ rearms \in BOOLEAN
    /\ time_hi = 0 /\ last_lo = 0
    /\ queue = [l \in Lists |-> {}]
    /\ at = "idle" /\ now = 0 /\ tick = None /\ spent = 0

-----------------------------------------------------------------------------
\* A task runs, with interrupts enabled.
TaskRuns == at = "idle" /\ ~pending

\* The counter advances.  An interrupt that is pending is taken, and one that
\* is disabled is enabled, before Latency ticks have passed.
Advance ==
    /\ TaskRuns \/ spent < Latency
    /\ time' = Later(1)
    /\ pending' = (pending \/ time' % CounterRange = compare)
    /\ spent' = IF TaskRuns THEN 0 ELSE spent + 1
    /\ UNCHANGED <<compare, rearms, portVars, queue, at, now, tick>>

\* s_time_hi after the counter has been read.
NextHigh ==
    IF counter < last_lo
    THEN (time_hi + 1) % (TimeRange \div CounterRange)
    ELSE time_hi

\* The value gyros_time returns now.
gyros_time == NextHigh * CounterRange + counter

\* What gyros_time leaves behind.
ReadClock ==
    /\ time_hi' = NextHigh
    /\ last_lo' = counter

Reached(d, t) == Compare(d, t) <= 0

-----------------------------------------------------------------------------
(* Calls by tasks, by other interrupt handlers and by timer callbacks.     *)

\* A task runs, or a callback called by gyros__tick.
Runs == TaskRuns \/ at = "walk"

\* The program reads the time.
Read ==
    /\ Runs
    /\ ReadClock
    /\ UNCHANGED <<time, compare, pending, rearms, queue, at, now, tick, spent>>

Start == IF TaskRuns THEN spent' = 0 ELSE UNCHANGED spent

\* A timeout or timer is queued and gyros__dyntick_update is called.
Queue(l, d) ==
    /\ Cardinality(queue[l]) < Room
    /\ ReadClock
    /\ queue' = [queue EXCEPT ![l] = @ \cup {d}]
    /\ now' = gyros_time
    /\ at' = "set"
    /\ Start
    /\ UNCHANGED <<time, compare, pending, rearms, tick>>

\* Nothing is queued for a time that has been reached.
gyros__task_set_timeout(d) ==
    /\ TaskRuns
    /\ ~Reached(d, gyros_time)
    /\ Queue("timeouts", d)

gyros_timer_start(d) ==
    /\ Runs
    /\ Queue("timers", d)

\* A timer is stopped or a task woken: compare keeps its value.
Forget(l, d) ==
    /\ Runs
    /\ d \in queue[l]
    /\ queue' = [queue EXCEPT ![l] = @ \ {d}]
    /\ UNCHANGED <<time, compare, pending, rearms, portVars, at, now, tick, spent>>

\* An alarm clock is reset while tasks wait for it.
gyros_alarm_clock_reset(d) ==
    /\ Runs
    /\ d \in queue["timeouts"]
    /\ queue' = [queue EXCEPT !["timeouts"] = @ \ {d}]
    /\ ReadClock
    /\ now' = gyros_time
    /\ at' = "set"
    /\ Start
    /\ UNCHANGED <<time, compare, pending, rearms, tick>>

-----------------------------------------------------------------------------
(* gyros__dyntick_update and gyros__dyntick_set.                           *)

Queued == queue["timeouts"] \cup queue["timers"]

\* The time at the head of one list or the other.  (Times half the range apart
\* have no order.)
Earliest == {d \in Queued : \A e \in Queued : Compare(d, e) <= 0}
First == CHOOSE d \in Queued : Earliest # {} => d \in Earliest

\* gyros__dyntick_update is left: to the callback or the task that has
\* called it, or to the interrupted task.
Leave == at' = IF tick # None THEN "walk" ELSE "idle"

\* compare is set: far ahead, or to the first time.
Far == Queued = {} \/ Compare(First, now) >= MAX_PERIOD

\* compare is set to the first time however far away it is.
Faulty_gyros__dyntick_set ==
    /\ at = "set"
    /\ compare' = IF Queued = {} THEN (last_lo + MAX_PERIOD) % CounterRange
                                 ELSE First % CounterRange
    /\ IF Queued # {} /\ Compare(First, now) < Near THEN at' = "check" ELSE Leave
    /\ UNCHANGED <<time, pending, rearms, portVars, queue, now, tick, spent>>

gyros__dyntick_set ==
    /\ at = "set"
    /\ compare' = (IF Far THEN last_lo + MAX_PERIOD ELSE First) % CounterRange
    /\ IF ~Far /\ Compare(First, now) < Near THEN at' = "check" ELSE Leave
    /\ UNCHANGED <<time, pending, rearms, portVars, queue, now, tick, spent>>

\* The signed difference of two values of the counter.
CounterDiff(a, b) == ((a - b + MAX_PERIOD) % CounterRange) - MAX_PERIOD

\* Nobody looks whether the counter has passed compare.
Faulty_Check ==
    /\ at = "check"
    /\ Leave
    /\ UNCHANGED <<time, compare, pending, rearms, portVars, queue, now, tick, spent>>

\* If the counter has passed compare already the interrupt is forced.
Check ==
    /\ at = "check"
    /\ LET passed == CounterDiff(compare, counter) <= 0
       IN  IF passed /\ rearms
           THEN at' = "force" /\ UNCHANGED pending
           ELSE pending' = (pending \/ passed) /\ Leave
    /\ UNCHANGED <<time, compare, rearms, portVars, queue, now, tick, spent>>

\* compare is set two ticks after the counter, which may have advanced by one
\* since it was read.
ForceInterrupt ==
    /\ at = "force"
    /\ \E passed \in 0..1 : compare' = (counter + 2 - passed) % CounterRange
    /\ Leave
    /\ UNCHANGED <<time, pending, rearms, portVars, queue, now, tick, spent>>

-----------------------------------------------------------------------------
(* The timer interrupt.                                                    *)

\* The interrupt is taken, its flag is cleared,
TIMER_ISR ==
    /\ at = "idle" /\ pending
    /\ pending' = FALSE /\ at' = "tick" /\ spent' = 0
    /\ UNCHANGED <<time, compare, rearms, portVars, queue, now, tick>>

\* and gyros__tick wakes the tasks whose time has been reached.
gyros__tick ==
    /\ at = "tick"
    /\ ReadClock
    /\ tick' = gyros_time
    /\ queue' = [queue EXCEPT !["timeouts"] = {d \in @ : ~Reached(d, gyros_time)}]
    /\ at' = "walk"
    /\ UNCHANGED <<time, compare, pending, rearms, now, spent>>

\* A timer whose time has been reached is taken off the list or moved on by
\* its period; its callback may make the calls above.
gyros__tick_timer ==
    /\ at = "walk"
    /\ \E d \in queue["timers"], period \in Periods :
        /\ Reached(d, tick)
        /\ queue' = [queue EXCEPT !["timers"] =
               (@ \ {d}) \cup (IF period = 0 THEN {} ELSE {(d + period) % TimeRange})]
    /\ UNCHANGED <<time, compare, pending, rearms, portVars, at, now, tick, spent>>

\* No timer is left to call: gyros__dyntick_update is called with the time the
\* interrupt has begun with.
TickEnd ==
    /\ at = "walk"
    /\ \A d \in queue["timers"] : ~Reached(d, tick)
    /\ now' = tick /\ tick' = None
    /\ at' = "set"
    /\ UNCHANGED <<time, compare, pending, rearms, portVars, queue, spent>>

Next ==
    \/ Advance
    \/ Read
    \/ \E delay \in 1..MaxDelay : gyros__task_set_timeout(Later(delay))
    \/ \E delay \in 0..MaxDelay : gyros_timer_start(Later(delay))
    \/ \E l \in Lists, d \in Queued : Forget(l, d)
    \/ \E d \in Queued : gyros_alarm_clock_reset(d)
    \/ gyros__dyntick_set \/ Check \/ ForceInterrupt
    \/ TIMER_ISR \/ gyros__tick \/ gyros__tick_timer \/ TickEnd

Spec == Init /\ [][Next]_vars

-----------------------------------------------------------------------------
\* gyros_time never misses a wrap of the counter: called at any moment it
\* returns the true time, as long as interrupts stay within Latency.
ClockAccurate == gyros_time = time

\* However the counter runs on between the reading of the clock, the writing
\* of compare and the check, and whatever callbacks do meanwhile, nothing stays
\* queued for longer after its time than a critical section, the interrupt and
\* its handler take.  (Ports that set compare again to force the interrupt
\* put it off each time something is queued meanwhile.)
NeverOverdue ==
    ~rearms => \A d \in Queued : Compare(time, d) <= 3 * Latency
=============================================================================
