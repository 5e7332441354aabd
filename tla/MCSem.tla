------------------------------- MODULE MCSem -------------------------------
(* Instances of Semaphore for TLC. *)
EXTENDS Semaphore, TLC

CONSTANTS t1, t2, t3, s

Two == {t1, t2, Idle}
Three == {t1, t2, t3, Idle}
OneSem == {s}
Levels == 1..2

TwoPriorities == t1 :> 1 @@ t2 :> 2 @@ Idle :> 0
TwoHigh == t1 :> 1 @@ t2 :> 2 @@ t3 :> 2 @@ Idle :> 0

\* UINT_MAX is small.
Counting == s :> 2
Binary == s :> 1
Empty == s :> 0
=============================================================================
