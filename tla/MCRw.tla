-------------------------------- MODULE MCRw --------------------------------
(* Instances of RwLock for TLC. *)
EXTENDS RwProperties, TLC

CONSTANTS t1, t2, t3, rd, wr

Three == {t1, t2, t3, Idle}
BothLists == {rd, wr}
Levels == 1..2

TwoLow == t1 :> 1 @@ t2 :> 1 @@ t3 :> 2 @@ Idle :> 0
=============================================================================
