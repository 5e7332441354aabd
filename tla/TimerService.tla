---------------------------- MODULE TimerService ----------------------------
(***************************************************************************)
(* What timer.h promises of timers, without lists: a timer that has been   *)
(* set calls back once its time has come, in the order of the times, once  *)
(* or once per period, and not after it has been stopped.                  *)
(***************************************************************************)
EXTENDS Integers

CONSTANTS
    AllTimers, NoTimer,
    Off,           \* the time of a timer that is not set
    TimeRange,     \* values of the clock
    Compare(_, _)  \* order of two clock values

VARIABLES
    due,      \* when each timer calls back next
    period,   \* its period, 0 if it calls back once
    calling,  \* the timer whose callback is running
    now       \* the clock

vars == <<due, period, calling, now>>

Time == 0 .. TimeRange - 1

Init ==
    /\ due = [i \in AllTimers |-> Off]
    /\ period = [i \in AllTimers |-> 0]
    /\ calling = NoTimer
    /\ now = 0

\* The timers other than i keep their times.
Others(i) ==
    /\ \A j \in AllTimers \ {i} : due'[j] = due[j] /\ period'[j] = period[j]
    /\ UNCHANGED <<calling, now>>

Set(i) == due'[i] \in Time /\ period'[i] \in Time /\ Others(i)

Clear(i) == due'[i] = Off /\ Others(i)

\* Of the timers that are due the earliest one calls back.
Call(i) ==
    /\ calling = NoTimer
    /\ due[i] # Off /\ Compare(due[i], now) <= 0
    /\ \A j \in AllTimers : due[j] = Off \/ Compare(due[i], due[j]) <= 0
    /\ calling' = i
    /\ \/ period[i] = 0 /\ due'[i] = Off
       \/ period[i] # 0 /\ due'[i] = (due[i] + period[i]) % TimeRange
    /\ \A j \in AllTimers \ {i} : due'[j] = due[j]
    /\ UNCHANGED <<period, now>>

Return ==
    /\ calling # NoTimer /\ calling' = NoTimer
    /\ UNCHANGED <<due, period, now>>

Advance ==
    /\ calling = NoTimer
    /\ now' = (now + 1) % TimeRange
    /\ UNCHANGED <<due, period, calling>>

Next ==
    \/ \E i \in AllTimers : Set(i) \/ Clear(i) \/ Call(i)
    \/ Return
    \/ Advance

Spec == Init /\ [][Next]_vars
=============================================================================
