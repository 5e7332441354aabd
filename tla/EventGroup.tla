------------------------------ MODULE EventGroup ------------------------------
(***************************************************************************)
(* Event groups: src/event_group.c.                                        *)
(*                                                                         *)
(* Setting an event that was not set wakes every waiting task, whatever it *)
(* waits for.  Each looks at the events again and takes what it waits for, *)
(* so a task may find that another one has been faster.                    *)
(***************************************************************************)
EXTENDS GyrosServices

CONSTANTS
    Groups,     \* an event group names its task_list
    Events,     \* the bits of the unsigned type
    Requests    \* what tasks wait for: records of wait_events and wait_all

ASSUME EventAssumption ==
    /\ Groups \subseteq Objects
    /\ Requests \subseteq [wait_events : SUBSET Events, wait_all : BOOLEAN]

VARIABLES
    events,   \* e->events
    group,    \* the event group a task is in a call for
    request   \* what it waits for

eventVars == <<events, group, request>>

NoRequest == [wait_events |-> {}, wait_all |-> FALSE]

EventInit ==
    /\ gyros \in Started
    /\ pc = [t \in Tasks |-> "task"]
    /\ events = [e \in Groups |-> {}]
    /\ group = [t \in Tasks |-> NoList]
    /\ request = [t \in Tasks |-> NoRequest]

event_match(r, set) ==
    IF r.wait_all THEN r.wait_events \subseteq set ELSE r.wait_events \cap set # {}

\* The call of t blocks on e; k is the kernel state it starts from.
EventBlock(k, t, e, r, call) ==
    /\ gyros' = Wait(k, e)
    /\ Goto(t, call)
    /\ group' = [group EXCEPT ![t] = e]
    /\ request' = [request EXCEPT ![t] = r]
    /\ UNCHANGED events

EventReturn(t) ==
    /\ gyros' = ForgetTimeout(gyros, t)
    /\ Goto(t, "task")
    /\ group' = [group EXCEPT ![t] = NoList]
    /\ request' = [request EXCEPT ![t] = NoRequest]

\* The task takes all the events it waits for that are set.
EventTake(t, e, r) ==
    /\ events' = [events EXCEPT ![e] = @ \ r.wait_events]
    /\ EventReturn(t)

-----------------------------------------------------------------------------
\* One turn of "while (!event_match(...))".
GetLoop(t, e, r) ==
    IF event_match(r, events[e])
    THEN EventTake(t, e, r)
    ELSE EventBlock(gyros, t, e, r, "event_group_get")

gyros_event_group_get(t, e, r) == Calls(t) /\ GetLoop(t, e, r)

GetWoken(t) == Continues(t, "event_group_get") /\ GetLoop(t, group[t], request[t])

gyros_event_group_get_until(t, e, r, timeout) ==
    /\ Calls(t)
    /\ IF event_match(r, events[e])
       THEN EventTake(t, e, r)
       ELSE IF TimeoutReached(gyros, timeout)
       THEN UNCHANGED <<gyros, pc, eventVars>>
       ELSE EventBlock(gyros__task_set_timeout(gyros, timeout), t, e, r, "event_group_get_until")

\* After the wake-up there is no second turn: true if the events match now,
GetUntilTakes(t) ==
    /\ Continues(t, "event_group_get_until")
    /\ event_match(request[t], events[group[t]])
    /\ EventTake(t, group[t], request[t])

\* and false otherwise.
GetUntilFails(t) ==
    /\ Continues(t, "event_group_get_until")
    /\ ~event_match(request[t], events[group[t]])
    /\ EventReturn(t)
    /\ UNCHANGED events

-----------------------------------------------------------------------------
\* Only the first task is woken.
Faulty_gyros_event_group_set(e, set) ==
    /\ events' = [events EXCEPT ![e] = @ \cup set]
    /\ gyros' = IF set \subseteq events[e] THEN gyros ELSE WakeFirst(gyros, e)
    /\ UNCHANGED <<pc, group, request>>

\* By a task or by an interrupt handler, as is clearing.
gyros_event_group_set(e, set) ==
    /\ events' = [events EXCEPT ![e] = @ \cup set]
    /\ gyros' = IF set \subseteq events[e]
                THEN gyros
                ELSE gyros__cond_reschedule(WakeAllFromTail(gyros, e))
    /\ UNCHANGED <<pc, group, request>>

gyros_event_group_clear(e, set) ==
    /\ events' = [events EXCEPT ![e] = @ \ set]
    /\ UNCHANGED <<gyros, pc, group, request>>

-----------------------------------------------------------------------------
\* What t does in a call after a wake-up.
EventStep(t) == GetWoken(t) \/ GetUntilTakes(t) \/ GetUntilFails(t)

\* The calls; time, switches and rest are those of the application.
EventNext ==
    \/ \E e \in Groups, set \in SUBSET Events :
        \/ gyros_event_group_set(e, set)
        \/ gyros_event_group_clear(e, set)
    \/ \E t \in AppTasks :
        \/ \E e \in Groups, r \in Requests :
            \/ gyros_event_group_get(t, e, r)
            \/ \E delay \in 0..MaxDelay : gyros_event_group_get_until(t, e, r, Deadline(delay))
        \/ EventStep(t)
=============================================================================
