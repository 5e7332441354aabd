---------------------------- MODULE StaticQueue ----------------------------
(***************************************************************************)
(* The static message queue, a ring buffer of copied messages: src/smq.c.  *)
(*                                                                         *)
(* Tasks that wait for a message and tasks that wait for room share one    *)
(* task_list, and only a send wakes anybody.                               *)
(***************************************************************************)
EXTENDS GyrosServices

CONSTANTS
    smq,        \* names the task_list
    total,      \* smq->total
    Message,    \* contents of messages
    NoMessage,
    Blocking    \* gyros_smq_send may be called with block set

ASSUME SmqAssumption ==
    /\ smq \in Objects
    /\ total \in Nat \ {0}
    /\ NoMessage \notin Message
    /\ Blocking \in BOOLEAN

VARIABLES
    memory,      \* smq->memory, in messages
    used,        \* smq->used
    read_pos,    \* smq->read_pos
    write_pos,   \* smq->write_pos
    sending,     \* the message a task is sending
    delivered    \* the message that was received last

ringVars == <<memory, used, read_pos, write_pos>>
smqVars == <<ringVars, sending, delivered>>

SmqInit ==
    /\ gyros \in Started
    /\ pc = [t \in Tasks |-> "task"]
    /\ memory = [i \in 0..total - 1 |-> NoMessage]
    /\ used = 0 /\ read_pos = 0 /\ write_pos = 0
    /\ sending = [t \in Tasks |-> NoMessage]
    /\ delivered = NoMessage

\* if (++pos == smq->total) pos = 0
NextPos(pos) == IF pos + 1 = total THEN 0 ELSE pos + 1

\* The message is copied in.
Put(msg) ==
    /\ memory' = [memory EXCEPT ![write_pos] = msg]
    /\ write_pos' = NextPos(write_pos)
    /\ used' = used + 1
    /\ UNCHANGED <<read_pos, delivered>>

\* The message that was sent last comes first.
Faulty_Take ==
    /\ delivered' = memory[(write_pos + total - 1) % total]
    /\ write_pos' = (write_pos + total - 1) % total
    /\ used' = used - 1
    /\ UNCHANGED <<memory, read_pos>>

\* The message is copied out.
Take ==
    /\ delivered' = memory[read_pos]
    /\ read_pos' = NextPos(read_pos)
    /\ used' = used - 1
    /\ UNCHANGED <<memory, write_pos>>

\* The call of t blocks; k is the kernel state it starts from.
BlockIn(k, t, call, msg) ==
    /\ gyros' = Wait(k, smq)
    /\ Goto(t, call)
    /\ sending' = [sending EXCEPT ![t] = msg]
    /\ UNCHANGED <<ringVars, delivered>>

\* The call of t returns; k is the kernel state it has got to.
Return(k, t) ==
    /\ gyros' = ForgetTimeout(k, t)
    /\ Goto(t, "task")
    /\ sending' = [sending EXCEPT ![t] = NoMessage]

-----------------------------------------------------------------------------
\* A receiver is woken only if the queue was empty.
Faulty_gyros_smq_send(msg) ==
    /\ used < total
    /\ Put(msg)
    /\ gyros' = IF used = 0 THEN WakeFirst(gyros, smq) ELSE gyros
    /\ UNCHANGED <<pc, sending>>

\* With block unset, or from an interrupt handler; if the queue is full the
\* call fails and changes nothing.
gyros_smq_send(msg) ==
    /\ used < total
    /\ Put(msg)
    /\ gyros' = WakeFirst(gyros, smq)
    /\ UNCHANGED <<pc, sending>>

\* One turn of "while (smq->used >= smq->total)" with block set.
SendLoop(t, msg) ==
    IF used >= total
    THEN BlockIn(gyros, t, "smq_send", msg)
    ELSE Put(msg) /\ Return(WakeFirst(gyros, smq), t)

SendBlocking(t, msg) == Blocking /\ Calls(t) /\ SendLoop(t, msg)

SendWoken(t) == Continues(t, "smq_send") /\ SendLoop(t, sending[t])

\* By an interrupt handler; an empty queue is left alone.
ReceiveInInterrupt ==
    /\ used > 0
    /\ Take
    /\ UNCHANGED <<gyros, pc, sending>>

\* One turn of "while (smq->used == 0)".
ReceiveLoop(t) ==
    IF used = 0
    THEN BlockIn(gyros, t, "smq_receive", NoMessage)
    ELSE Take /\ Return(gyros, t)

gyros_smq_receive(t) == Calls(t) /\ ReceiveLoop(t)

ReceiveWoken(t) == Continues(t, "smq_receive") /\ ReceiveLoop(t)

gyros_smq_receive_until(t, timeout) ==
    /\ Calls(t)
    /\ IF used > 0
       THEN Take /\ Return(gyros, t)
       ELSE IF TimeoutReached(gyros, timeout)
       THEN UNCHANGED <<gyros, pc, smqVars>>
       ELSE BlockIn(gyros__task_set_timeout(gyros, timeout), t, "smq_receive_until", NoMessage)

\* Returns false if there is no message now, whatever woke it.
ReceiveUntilWoken(t) ==
    /\ Continues(t, "smq_receive_until")
    /\ Return(gyros, t)
    /\ IF used = 0 THEN UNCHANGED <<ringVars, delivered>> ELSE Take

SmqStep(t) == SendWoken(t) \/ ReceiveWoken(t) \/ ReceiveUntilWoken(t)

SmqRest(t) == Rest(t) /\ UNCHANGED smqVars
SmqResume(t) == Resume(t) /\ UNCHANGED smqVars
SmqTick == Tick /\ UNCHANGED smqVars
SmqSwitch == ContextSwitch /\ UNCHANGED smqVars

SmqNext ==
    \/ SmqTick
    \/ SmqSwitch
    \/ ReceiveInInterrupt
    \/ \E msg \in Message : gyros_smq_send(msg)
    \/ \E t \in AppTasks :
        \/ \E msg \in Message : SendBlocking(t, msg)
        \/ gyros_smq_receive(t)
        \/ \E delay \in 0..MaxDelay : gyros_smq_receive_until(t, Deadline(delay))
        \/ SmqStep(t)
        \/ SmqRest(t)
        \/ SmqResume(t)
=============================================================================
