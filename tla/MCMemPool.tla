----------------------------- MODULE MCMemPool -----------------------------
(* Instances of MemPool for TLC. *)
EXTENDS MemPool

\* Two slots; the second is rounded up.
OneAndThree == <<2, 3>>
=============================================================================
