------------------------- MODULE MessagingProperties -------------------------
(***************************************************************************)
(* An application whose tasks use an event group and a message queue side  *)
(* by side, and the correctness properties of both.                        *)
(***************************************************************************)
EXTENDS EventGroup, MessageQueue

\* Each structure has a list of its own.
ASSUME MessagingAssumption == mq \notin Groups

messagingAll == <<gyros, pc, eventVars, msg_list>>

MessagingInit == EventInit /\ MqInit

MessagingSurroundings ==
    /\ Tick \/ ContextSwitch \/ \E t \in AppTasks : Rest(t) \/ Resume(t)
    /\ UNCHANGED <<eventVars, msg_list>>

MessagingNext ==
    \/ MessagingSurroundings
    \/ EventNext /\ UNCHANGED msg_list
    \/ MqNext /\ UNCHANGED eventVars

MessagingSpec == MessagingInit /\ [][MessagingNext]_messagingAll

\* No task sleeps for events that are set, although a set wakes nobody unless
\* an event is new (event_group.c:150), events are taken and cleared between
\* the wake-up of a task and its next look at them, and it may go back to sleep.
NoMatchingSleeper ==
    \A e \in Groups : \A t \in Waiters(e) : ~event_match(request[t], events[e])

\* Tasks that have been woken in a call to receive and have not looked again.
MqWokenReceivers ==
    {t \in AppTasks : pc[t] \in {"mq_receive", "mq_receive_until"} /\ Runs(t)}

\* Whenever tasks sleep in gyros_mq_receive, every message in the queue has a
\* woken task of its own that is going to look for it: a send that wakes a task
\* (mq.c:60) while another one is on its way must not count on that one, and a
\* task that comes late because of its timeout takes a message all the same.
MessagesHaveReceivers ==
    Waiters(mq) # {} => Len(msg_list) <= Cardinality(MqWokenReceivers)

\* Not so (README, Disagreements): "True if an event was set, or false if timeout was reached"
\* (event_group.h:122): a call that has slept fails only at its timeout.
GetFailsOnlyWhenReached ==
    [][\A t \in AppTasks : GetUntilFails(t) => gyros.timed_out[t]]_messagingAll
=============================================================================
