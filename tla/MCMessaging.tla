----------------------------- MODULE MCMessaging -----------------------------
(* Instances of EventGroup and MessageQueue for TLC. *)
EXTENDS MessagingProperties, TLC

CONSTANTS t1, t2, grp, queue, bit0, bit1, m1, m2

Two == {t1, t2, Idle}
OneGroup == {grp}
Both == {grp, queue}
TwoMessages == {m1, m2}
MessagesAlike == Permutations(TwoMessages)
Levels == 1..2
Bits == {bit0, bit1}

TwoPriorities == t1 :> 1 @@ t2 :> 2 @@ Idle :> 0

\* Either of two events, both of them, and one of them.
Either == [wait_events |-> Bits, wait_all |-> FALSE]
AllOf == [wait_events |-> Bits, wait_all |-> TRUE]
JustOne == [wait_events |-> {bit0}, wait_all |-> FALSE]
ThreeRequests == {Either, AllOf, JustOne}
=============================================================================
