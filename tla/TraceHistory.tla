---------------------------- MODULE TraceHistory ----------------------------
(***************************************************************************)
(* What the trace log promises: it shows the latest events, oldest first,  *)
(* as many as it has room for; events are added at the end, one at a time  *)
(* or several in a report.  While tracing is off the log may be turned, so *)
(* that another event is the oldest one, and it may be cleared.            *)
(*                                                                         *)
(* A clear takes time.  It may take any event that it comes across, also   *)
(* one that was added meanwhile.  If nothing but clears has touched the    *)
(* log since it began, the log is empty when it ends.                      *)
(***************************************************************************)
EXTENDS Sequences, Integers

CONSTANTS
    Size,      \* events there is room for
    Events,    \* what can be recorded
    Reports,   \* what can be recorded in a row, and the ends of that
    NoEvent,
    Clears     \* who may clear the log

VARIABLES
    history, on,
    clearing,  \* the clears under way
    alone      \* those of them during which nothing but clears touched the log

vars == <<history, clearing, alone>>

Blank == [i \in 1..Size |-> NoEvent]

\* The last Size events of a sequence.
Latest(events) == SubSeq(events, Len(events) - Size + 1, Len(events))

Record(old, new) == new[Size] \in Events /\ new = Latest(Append(old, new[Size]))

\* Of a report that is longer than the log, only the end is seen.
Report(old, new) ==
    \E n \in 1..Size :
        LET report == SubSeq(new, Size - n + 1, Size)
        IN  report \in Reports /\ new = Latest(old \o report)

\* What was the i-th event becomes the oldest one.
Turned(old, new) ==
    \E i \in 2..Size : new = SubSeq(old, i, Size) \o SubSeq(old, 1, i - 1)

\* The history before and after a step; on changes as it likes.
Add ==
    /\ \E old \in {history}, new \in {history'} : Record(old, new) \/ Report(old, new)
    /\ alone' = {}
    /\ UNCHANGED clearing

Turn ==
    /\ ~on
    /\ \E old \in {history}, new \in {history'} : Turned(old, new)
    /\ alone' = {}
    /\ UNCHANGED clearing

BeginClear(c) ==
    /\ ~on /\ c \notin clearing
    /\ clearing' = clearing \cup {c} /\ alone' = alone \cup {c}
    /\ UNCHANGED history

Erase ==
    /\ clearing # {}
    /\ \E i \in 1..Size : history' = [history EXCEPT ![i] = NoEvent]
    /\ UNCHANGED <<clearing, alone>>

EndClear(c) ==
    /\ c \in clearing
    /\ clearing' = clearing \ {c} /\ alone' = alone \ {c}
    /\ IF c \in alone
       THEN history' = Blank
       ELSE \E old \in {history}, new \in {history'} : new = old \/ Turned(old, new)

Next == Add \/ Turn \/ Erase \/ \E c \in Clears : BeginClear(c) \/ EndClear(c)

Spec ==
    /\ history = Blank /\ clearing = {} /\ alone = {}
    /\ [][Next]_vars
=============================================================================
