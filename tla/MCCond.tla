------------------------------- MODULE MCCond -------------------------------
(* Instances of CondVar for TLC. *)
EXTENDS CondProperties, TLC

CONSTANTS t1, t2, t3, a, c

Two == {t1, t2, Idle}
Three == {t1, t2, t3, Idle}
OneMutex == {a}
OneCond == {c}
Both == {a, c}
Levels == 1..2

TwoPriorities == t1 :> 1 @@ t2 :> 2 @@ Idle :> 0
TwoLow == t1 :> 1 @@ t2 :> 1 @@ t3 :> 2 @@ Idle :> 0

None == {}
=============================================================================
