--------------------------- MODULE SmqProperties ---------------------------
(***************************************************************************)
(* The static message queue on its own, and its correctness properties.    *)
(***************************************************************************)
EXTENDS StaticQueue

VARIABLE sender_slept   \* some sender has waited in the list for room

vars == <<gyros, pc, smqVars, sender_slept>>

Init == SmqInit /\ sender_slept = FALSE

Next ==
    /\ SmqNext
    /\ sender_slept' = (sender_slept \/ \E t \in AppTasks : pc'[t] = "smq_send")

Spec == Init /\ [][Next]_vars

\* The place of the i-th message in the ring.
Slot(i) == LET p == read_pos + i - 1 IN IF p < total THEN p ELSE p - total

\* The messages in the ring, oldest first.
Ring == [i \in 1..used |-> memory[Slot(i)]]

Fifo == INSTANCE BoundedFifo WITH queue <- Ring, Capacity <- total

\* The ring buffer is a bounded FIFO of messages: whatever the callers and
\* wherever the positions wrap, messages come out once and in order, and none
\* is overwritten before it has come out.
ImplementsFifo == Fifo!Spec

\* Tasks that have been woken in a call for a message and have not looked.
WokenReceivers ==
    {t \in AppTasks : pc[t] \in {"smq_receive", "smq_receive_until"} /\ Runs(t)}

\* Whenever tasks wait for a message, every message in the queue has a woken
\* receiver of its own: no message lies there while a receiver sleeps.  That is
\* so until a sender has slept in the same list, for a send may have woken the
\* sender in place of a receiver.
MessagesNotStranded ==
    ~sender_slept /\ Waiters(smq) # {} => used <= Cardinality(WokenReceivers)

\* Not so (README, Disagreements): a sender sleeps only while there is no room (smq.h:100: "True to block if
\* there is no room in the queue").
SenderSleepsOnlyWhenFull ==
    \A t \in AppTasks : t \in Waiters(smq) /\ pc[t] = "smq_send" => used = total
=============================================================================
