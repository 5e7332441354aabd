------------------------------ MODULE MCMutex ------------------------------
(* Instances of Mutex and Iterate for TLC. *)
EXTENDS Iterate, TLC

CONSTANTS t1, t2, t3, a

Three == {t1, t2, t3, Idle}
OneMutex == {a}
Levels == 1..3

Rising == t1 :> 1 @@ t2 :> 2 @@ t3 :> 3 @@ Idle :> 0

None == {}
Middle == {2}
=============================================================================
