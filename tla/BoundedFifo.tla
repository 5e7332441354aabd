---------------------------- MODULE BoundedFifo ----------------------------
(***************************************************************************)
(* What a static message queue promises: messages come out in the order in *)
(* which they went in, each once, and there are never more inside than the *)
(* queue has room for.                                                     *)
(***************************************************************************)
EXTENDS Sequences, Naturals

CONSTANTS Message, Capacity

VARIABLES
    queue,      \* the messages inside
    delivered   \* the message that came out last

Init == queue = <<>> /\ delivered \notin Message

Put(msg) ==
    /\ Len(queue) < Capacity
    /\ queue' = Append(queue, msg)
    /\ UNCHANGED delivered

Get ==
    /\ queue # <<>>
    /\ delivered' = Head(queue)
    /\ queue' = Tail(queue)

Next == Get \/ \E msg \in Message : Put(msg)

Spec == Init /\ [][Next]_<<queue, delivered>>
=============================================================================
