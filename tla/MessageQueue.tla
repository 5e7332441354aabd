----------------------------- MODULE MessageQueue -----------------------------
(***************************************************************************)
(* Message queues: src/mq.c.                                               *)
(*                                                                         *)
(* The messages belong to the application, which lends them to the queue:  *)
(* they are linked in it, so one message is in one queue at most once.     *)
(***************************************************************************)
EXTENDS GyrosServices

CONSTANTS
    mq,         \* names mq->task_list
    Messages    \* structures that begin with a gyros_mq_msghdr_t

ASSUME MqAssumption == mq \in Objects

VARIABLES msg_list    \* mq->msg_list

MqInit ==
    /\ gyros \in Started
    /\ pc = [t \in Tasks |-> "task"]
    /\ msg_list = <<>>

MqBlock(k, t, call) ==
    /\ gyros' = Wait(k, mq)
    /\ Goto(t, call)
    /\ UNCHANGED msg_list

MqReturn(t) == gyros' = ForgetTimeout(gyros, t) /\ Goto(t, "task")

\* A receiver is woken only for the first message.
Faulty_gyros_mq_send(msg) ==
    /\ msg \notin Elements(msg_list)
    /\ msg_list' = Append(msg_list, msg)
    /\ gyros' = IF msg_list = <<>> THEN WakeFirst(gyros, mq) ELSE gyros
    /\ UNCHANGED pc

\* By a task or by an interrupt handler; the message is not in the queue.
gyros_mq_send(msg) ==
    /\ msg \notin Elements(msg_list)
    /\ msg_list' = Append(msg_list, msg)
    /\ gyros' = WakeFirst(gyros, mq)
    /\ UNCHANGED pc

\* msghdr leaves the list.
TakeMessage == msg_list # <<>> /\ msg_list' = Tail(msg_list)

\* One turn of "while (gyros__list_empty(&mq->msg_list))".
MqReceiveLoop(t) ==
    IF msg_list = <<>>
    THEN MqBlock(gyros, t, "mq_receive")
    ELSE MqReturn(t) /\ TakeMessage

gyros_mq_receive(t) == Calls(t) /\ MqReceiveLoop(t)

MqReceiveWoken(t) == Continues(t, "mq_receive") /\ MqReceiveLoop(t)

\* An interrupt handler does not wait: NULL changes nothing.
MqReceiveInInterrupt == TakeMessage /\ UNCHANGED <<gyros, pc>>

gyros_mq_receive_until(t, timeout) ==
    /\ Calls(t)
    /\ IF msg_list # <<>>
       THEN TakeMessage /\ UNCHANGED <<gyros, pc>>
       ELSE IF TimeoutReached(gyros, timeout)
       THEN UNCHANGED <<gyros, pc, msg_list>>
       ELSE MqBlock(gyros__task_set_timeout(gyros, timeout), t, "mq_receive_until")

\* After the wake-up there is no second wait: NULL if there is no message.
MqReceiveUntilWoken(t) ==
    /\ Continues(t, "mq_receive_until")
    /\ MqReturn(t)
    /\ IF msg_list = <<>> THEN UNCHANGED msg_list ELSE TakeMessage

\* What t does in a call after a wake-up.
MqStep(t) == MqReceiveWoken(t) \/ MqReceiveUntilWoken(t)

\* The calls; time, switches and rest are those of the application.
MqNext ==
    \/ \E msg \in Messages : gyros_mq_send(msg)
    \/ MqReceiveInInterrupt
    \/ \E t \in AppTasks :
        \/ gyros_mq_receive(t)
        \/ \E delay \in 0..MaxDelay : gyros_mq_receive_until(t, Deadline(delay))
        \/ MqStep(t)
=============================================================================
