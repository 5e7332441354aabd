------------------------------ MODULE MemPool ------------------------------
(***************************************************************************)
(* The memory pool of src/mempool.c.  The memory area begins with the      *)
(* control block and the slots; behind them blocks are carved off the      *)
(* unused rest one after the other, each a header of one word and the zone *)
(* that is handed out, and never given back to it: a block that is freed   *)
(* goes to the free list of its slot.                                      *)
(*                                                                         *)
(* The header is a union: the slot while the block is allocated, the link  *)
(* while it is in a free list.  Free lists are sequences, the head first.  *)
(* gyros_free reads the slot before it disables interrupts, so it is two   *)
(* steps; the step in between leaves the processor to others.              *)
(***************************************************************************)
EXTENDS GyrosList

CONSTANTS
    BlockSizes,   \* the argument block_sizes of gyros_mempool_init
    MemorySize,   \* its argument memory_size
    ControlSize,  \* sizeof(gyros_mempool_t)
    SlotSize,     \* sizeof(slot_t)
    Word,         \* sizeof(void*), which is sizeof(bh_t)
    Link,         \* a header that is a link
    None          \* no slot, or a zone that is not allocated

Slots == 1..Len(BlockSizes)

\* The memory in front of the first block.
ctl_size == ControlSize + Len(BlockSizes) * SlotSize

\* With less memory gyros_mempool_init returns NULL.
ASSUME MemPoolAssumption ==
    /\ BlockSizes \in Seq(Nat)
    /\ ControlSize \in Nat /\ SlotSize \in Nat /\ Word \in Nat \ {0}
    /\ MemorySize \in Nat /\ ctl_size <= MemorySize
    /\ Link \notin Slots /\ None \notin Slots /\ None \notin Nat

VARIABLES
    unused_bytes,   \* the size of the rest
    next_bh,        \* where it begins
    free_list,      \* of each slot
    header,         \* the header of each block
    freeing,        \* the blocks gyros_free has read the slot of, and the slot
    allocated,      \* the size that was asked for of each zone that is in use
    made_for        \* the slot each block was carved for

\* The last two are no state of the code: they remember its history.

vars == <<unused_bytes, next_bh, free_list, header, freeing, allocated, made_for>>

Address == 0..MemorySize

\* The size of a block's zone is a multiple of the word.
block_size(i) == ((BlockSizes[i] + Word - 1) \div Word) * Word

Init ==
    /\ unused_bytes = MemorySize - ctl_size
    /\ next_bh = ctl_size
    /\ free_list = [i \in Slots |-> <<>>]
    /\ header = [a \in Address |-> None]
    /\ freeing = [a \in Address |-> None]
    /\ allocated = [a \in Address |-> None]
    /\ made_for = [a \in Address |-> None]

\* The slot a zone of that size is taken from: the first that is large enough.
Fits(i, size) ==
    /\ size <= block_size(i)
    /\ \A j \in Slots : j < i => size > block_size(j)

\* The block a of slot i is handed out.
HandOut(a, i, size) ==
    /\ header' = [header EXCEPT ![a] = i]
    /\ allocated' = [allocated EXCEPT ![a] = size]
    /\ UNCHANGED freeing

\* The header is not counted.
Faulty_usage(i) == block_size(i)

\* What a block takes up.
usage(i) == Word + block_size(i)

\* gyros_try_alloc: a free block of the slot is used again,
Reuse(i, size) ==
    /\ Fits(i, size) /\ free_list[i] # <<>>
    /\ free_list' = [free_list EXCEPT ![i] = Tail(@)]
    /\ HandOut(Head(free_list[i]), i, size)
    /\ UNCHANGED <<unused_bytes, next_bh, made_for>>

\* or one is carved off the rest.  If neither can be done it returns NULL, also
\* when larger blocks are free.
Carve(i, size) ==
    /\ Fits(i, size) /\ free_list[i] = <<>> /\ usage(i) <= unused_bytes
    /\ unused_bytes' = unused_bytes - usage(i)
    /\ next_bh' = next_bh + usage(i)
    /\ made_for' = [made_for EXCEPT ![next_bh] = i]
    /\ HandOut(next_bh, i, size)
    /\ UNCHANGED free_list

\* gyros_free reads the header of a zone,
FreeBegin(a) ==
    /\ allocated[a] # None
    /\ freeing' = [freeing EXCEPT ![a] = header[a]]
    /\ allocated' = [allocated EXCEPT ![a] = None]
    /\ UNCHANGED <<unused_bytes, next_bh, free_list, header, made_for>>

\* The block goes to the first slot, whatever slot it was carved for.
Faulty_FreeEnd(a) ==
    /\ freeing[a] # None
    /\ free_list' = [free_list EXCEPT ![1] = <<a>> \o @]
    /\ header' = [header EXCEPT ![a] = Link]
    /\ freeing' = [freeing EXCEPT ![a] = None]
    /\ UNCHANGED <<unused_bytes, next_bh, allocated, made_for>>

\* and with interrupts disabled puts the block in front of the list.
FreeEnd(a) ==
    /\ freeing[a] # None
    /\ free_list' = [free_list EXCEPT ![freeing[a]] = <<a>> \o @]
    /\ header' = [header EXCEPT ![a] = Link]
    /\ freeing' = [freeing EXCEPT ![a] = None]
    /\ UNCHANGED <<unused_bytes, next_bh, allocated, made_for>>

Next ==
    \/ \E i \in Slots, size \in 0..MemorySize : Reuse(i, size) \/ Carve(i, size)
    \/ \E a \in Address : FreeBegin(a) \/ FreeEnd(a)

Spec == Init /\ [][Next]_vars

-----------------------------------------------------------------------------
(* Correctness properties.                                                 *)

\* The blocks that have been carved.
Blocks == {a \in Address : made_for[a] # None}

Free(a, i) == a \in Elements(free_list[i])

TypeOK ==
    /\ unused_bytes \in Nat /\ next_bh \in Nat
    /\ free_list \in [Slots -> Seq(Address)]
    /\ header \in [Address -> Slots \cup {Link, None}]
    /\ freeing \in [Address -> Slots \cup {None}]
    /\ allocated \in [Address -> Nat \cup {None}]
    /\ made_for \in [Address -> Slots \cup {None}]

\* The blocks lie one behind the other between the slots and the unused rest.
Tiled ==
    /\ ctl_size <= next_bh /\ next_bh + unused_bytes = MemorySize
    /\ \A a \in Blocks : ctl_size <= a /\ a + usage(made_for[a]) <= next_bh
    /\ \A a, b \in Blocks : a < b => a + usage(made_for[a]) <= b

Unlisted(a) == \A i \in Slots : ~Free(a, i)

\* A block is linked once, in the list of the slot it was made for.
FreeLists ==
    /\ \A i \in Slots : Distinct(free_list[i])
    /\ \A a \in Address, i \in Slots : Free(a, i) => made_for[a] = i

\* A zone is as large as was asked for, and is nowhere else.
InUse ==
    \A a \in Address : allocated[a] # None =>
        /\ made_for[a] \in Slots /\ header[a] = made_for[a]
        /\ allocated[a] <= block_size(made_for[a])
        /\ freeing[a] = None /\ Unlisted(a)

\* A block on its way back goes to the slot it was made for.
OnTheWay ==
    \A a \in Address : freeing[a] # None => freeing[a] = made_for[a] /\ Unlisted(a)

\* No block gets lost.
NoneLost ==
    \A a \in Blocks : allocated[a] # None \/ freeing[a] # None \/ Free(a, made_for[a])

\* The pool is tiled with blocks and no block is lost, however allocations and
\* the two halves of gyros_free are interleaved (mempool.h: "blocks can both be
\* allocated and freed from interrupts").
PoolConsistent == TypeOK /\ Tiled /\ FreeLists /\ InUse /\ OnTheWay /\ NoneLost

\* The zones in use, each behind the header of its block.
ZonesInUse ==
    {[first |-> a + Word, size |-> allocated[a]] : a \in {b \in Address : allocated[b] # None}}

\* The pool only hands out zones that overlap with no other zone, and only
\* gyros_free takes them back.  (That none lies over the pool's own control
\* block is in PoolConsistent: the blocks begin behind it.)
Z == INSTANCE Zones WITH zones <- ZonesInUse

ImplementsZones == Z!Spec
=============================================================================
