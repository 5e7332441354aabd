------------------------------- MODULE Zones -------------------------------
(***************************************************************************)
(* What mempool.h promises: an allocated zone is a piece of the memory     *)
(* area that overlaps with no other until it is freed.                     *)
(***************************************************************************)
EXTENDS Integers

CONSTANT MemorySize
VARIABLE zones   \* the zones that are allocated

Zone == [first : 0..MemorySize, size : 0..MemorySize]

Disjoint(z, w) == z.first + z.size <= w.first \/ w.first + w.size <= z.first

Init == zones = {}

Allocate(z) ==
    /\ z.first + z.size <= MemorySize
    /\ \A w \in zones : Disjoint(z, w)
    /\ zones' = zones \cup {z}

Free(z) == z \in zones /\ zones' = zones \ {z}

Next == \E z \in Zone : Allocate(z) \/ Free(z)

Spec == Init /\ [][Next]_zones
=============================================================================
