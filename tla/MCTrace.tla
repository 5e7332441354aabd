------------------------------ MODULE MCTrace ------------------------------
(* Instances of Trace for TLC. *)
EXTENDS Trace, TLC

CONSTANTS t1, t2

Two == {t1, t2, Idle}
NoObjects == {}
Levels == 1..2

TwoPriorities == t1 :> 1 @@ t2 :> 2 @@ Idle :> 0
=============================================================================
