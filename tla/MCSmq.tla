------------------------------- MODULE MCSmq -------------------------------
(* Instances of StaticQueue for TLC. *)
EXTENDS SmqProperties, TLC

CONSTANTS t1, t2, t3, q, x, y

Two == {t1, t2, Idle}
Three == {t1, t2, t3, Idle}
OneQueue == {q}
Messages == {x, y}
OneMessage == {x}
Levels == 1..2

TwoPriorities == t1 :> 1 @@ t2 :> 2 @@ Idle :> 0
TwoLow == t1 :> 1 @@ t2 :> 1 @@ t3 :> 2 @@ Idle :> 0
=============================================================================
