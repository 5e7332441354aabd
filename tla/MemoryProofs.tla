---------------------------- MODULE MemoryProofs ----------------------------
(***************************************************************************)
(* The two components that manage memory of their own: the memory pool     *)
(* stays consistent and implements Zones, for any block sizes, any memory  *)
(* and any number of blocks; the trace log tells of the context switches   *)
(* as they were made and implements TraceHistory, for any tasks and any    *)
(* size of the log.                                                        *)
(*                                                                         *)
(* PoolConsistent is inductive as it stands: a new block begins where no   *)
(* block is because the others end before it (Tiled), and a block taken    *)
(* off a free list is in use by nobody because no block is in two places   *)
(* (InUse, OnTheWay).                                                      *)
(*                                                                         *)
(* Of the log, Ring shows the entries oldest first.  Every step leaves it  *)
(* alone, writes at its end (Effect), turns it, or erases one entry of it. *)
(* ChainInv is inductive because nothing that the context hook has looked  *)
(* at changes before the switch is made (HookInv): the entry it fills in   *)
(* is about the task the last one led to.  ClearInv says how far a clear   *)
(* has got that nothing has disturbed.                                     *)
(***************************************************************************)
EXTENDS MemPool, Trace, ServicesProofs, SequenceTheorems


-----------------------------------------------------------------------------
(* Free lists.                                                             *)

LEMMA PopProperties ==
    ASSUME NEW T, NEW s \in Seq(T), s # <<>>, Distinct(s)
    PROVE  /\ Head(s) \in Elements(s) /\ Head(s) \in T
           /\ Tail(s) \in Seq(T) /\ Distinct(Tail(s))
           /\ Elements(Tail(s)) = Elements(s) \ {Head(s)}
<1>1. Len(s) \in Nat /\ Len(s) > 0 /\ Head(s) = s[1]
    OBVIOUS
<1>2. /\ Tail(s) \in Seq(T) /\ Len(Tail(s)) = Len(s) - 1
      /\ \A i \in 1 .. Len(s) - 1 : Tail(s)[i] = s[i + 1]
    BY <1>1
<1>3. Distinct(Tail(s))
    BY <1>1, <1>2 DEF Distinct
<1>4. \A x : x \in Elements(Tail(s)) <=> x \in Elements(s) \ {Head(s)}
  <2>1. ASSUME NEW x, x \in Elements(Tail(s))
        PROVE  x \in Elements(s) /\ x # Head(s)
    <3>1. PICK i \in 1 .. Len(s) - 1 : x = Tail(s)[i]
        BY <2>1, <1>2 DEF Elements, ToSet
    <3>2. x = s[i + 1] /\ i + 1 \in 1..Len(s) /\ 1 < i + 1
        BY <3>1, <1>1, <1>2
    <3> QED
        BY <3>2, <1>1 DEF Elements, ToSet, Distinct
  <2>2. ASSUME NEW x, x \in Elements(s), x # Head(s)
        PROVE  x \in Elements(Tail(s))
    <3>1. PICK i \in 1..Len(s) : x = s[i]
        BY <2>2 DEF Elements, ToSet
    <3>2. i - 1 \in 1 .. Len(s) - 1 /\ Tail(s)[i - 1] = s[i]
        BY <3>1, <2>2, <1>1, <1>2
    <3>3. i - 1 \in DOMAIN Tail(s) /\ Tail(s)[i - 1] = x
        BY <3>1, <3>2, <1>2
    <3> QED
        BY <3>3 DEF Elements, ToSet
  <2> QED
      BY <2>1, <2>2
<1>5. Head(s) \in Elements(s) /\ Head(s) \in T
    BY <1>1 DEF Elements, ToSet
<1> QED
    BY <1>2, <1>3, <1>4, <1>5

LEMMA PushProperties ==
    ASSUME NEW T, NEW s \in Seq(T), Distinct(s), NEW a \in T, a \notin Elements(s)
    PROVE  /\ <<a>> \o s \in Seq(T) /\ Distinct(<<a>> \o s)
           /\ Elements(<<a>> \o s) = Elements(s) \cup {a}
<1> DEFINE r == <<a>> \o s
<1>1. /\ r \in Seq(T) /\ Len(r) = Len(s) + 1 /\ Len(s) \in Nat
      /\ r[1] = a /\ \A i \in 1..Len(s) : r[i + 1] = s[i]
    OBVIOUS
<1>2. \A i \in 2 .. Len(s) + 1 : i - 1 \in 1..Len(s) /\ r[i] = s[i - 1]
  <2>1. ASSUME NEW i \in 2 .. Len(s) + 1
        PROVE  i - 1 \in 1..Len(s) /\ r[i] = s[i - 1]
    <3>1. i - 1 \in 1..Len(s) /\ (i - 1) + 1 = i
        BY <1>1
    <3> QED
        BY <3>1, <1>1
  <2> QED
      BY <2>1
<1> HIDE DEF r
<1>3. \A i \in 1..Len(s) : s[i] # a
    BY DEF Elements, ToSet
<1>4. Distinct(r)
  <2>1. ASSUME NEW i \in 1..Len(r), NEW j \in 1..Len(r), i < j
        PROVE  r[i] # r[j]
    <3>1. j \in 2 .. Len(s) + 1
        BY <1>1, <2>1
    <3>2. CASE i = 1
        BY <3>1, <3>2, <1>1, <1>2, <1>3
    <3>3. CASE i # 1
      <4>1. i \in 2 .. Len(s) + 1 /\ i - 1 < j - 1
          BY <3>1, <3>3, <1>1, <2>1
      <4> QED
          BY <4>1, <3>1, <1>2 DEF Distinct
    <3> QED
        BY <3>2, <3>3
  <2> QED
      BY <2>1 DEF Distinct
<1>5. \A x : x \in Elements(r) <=> x \in Elements(s) \cup {a}
  <2>1. ASSUME NEW x, x \in Elements(r)
        PROVE  x \in Elements(s) \/ x = a
    <3>1. PICK i \in 1 .. Len(s) + 1 : x = r[i]
        BY <2>1, <1>1 DEF Elements, ToSet
    <3>2. CASE i = 1
        BY <3>1, <3>2, <1>1
    <3>3. CASE i # 1
      <4>1. i \in 2 .. Len(s) + 1
          BY <3>3, <3>1, <1>1
      <4> QED
          BY <4>1, <3>1, <1>2 DEF Elements, ToSet
    <3> QED
        BY <3>2, <3>3
  <2>2. a \in Elements(r)
      BY <1>1 DEF Elements, ToSet
  <2>3. ASSUME NEW x, x \in Elements(s)
        PROVE  x \in Elements(r)
    <3>1. PICK i \in 1..Len(s) : x = s[i]
        BY <2>3 DEF Elements, ToSet
    <3>2. i + 1 \in 1..Len(r) /\ r[i + 1] = x
        BY <3>1, <1>1
    <3> QED
        BY <3>2 DEF Elements, ToSet
  <2> QED
      BY <2>1, <2>2, <2>3
<1> QED
    BY <1>1, <1>4, <1>5 DEF r

-----------------------------------------------------------------------------
(* Sizes.                                                                  *)

LEMMA RoundUpIsNat ==
    ASSUME NEW b \in Nat
    PROVE  ((b + Word - 1) \div Word) * Word \in Nat
<1>1. Word \in Nat /\ Word > 0 /\ b + Word - 1 \in Nat
    BY MemPoolAssumption
<1>2. (b + Word - 1) \div Word \in Nat
    BY <1>1
<1> QED
    BY <1>1, <1>2

LEMMA SizeTypes ==
    ASSUME NEW i \in Slots
    PROVE  /\ block_size(i) \in Nat
           /\ usage(i) \in Nat /\ usage(i) > 0
           /\ usage(i) = Word + block_size(i) /\ Word \in Nat
<1>1. BlockSizes[i] \in Nat
    BY MemPoolAssumption DEF Slots
<1>2. block_size(i) \in Nat
    BY <1>1, RoundUpIsNat DEF block_size
<1>3. Word \in Nat /\ Word > 0
    BY MemPoolAssumption
<1> QED
    BY <1>2, <1>3 DEF usage

LEMMA MemoryTypes ==
    /\ ctl_size \in Nat /\ MemorySize \in Nat /\ ctl_size <= MemorySize
    /\ None \notin Slots /\ Link \notin Slots /\ None \notin Nat
<1>1. Len(BlockSizes) \in Nat
    BY MemPoolAssumption
<1>2. Len(BlockSizes) * SlotSize \in Nat
    BY <1>1, MemPoolAssumption
<1> QED
    BY <1>2, MemPoolAssumption DEF ctl_size

\* gyros_mempool_init rounds the sizes up: no zone is smaller than the size
\* its slot was initialised with, and all are multiples of the word
\* (mempool.c:53-54).
THEOREM BlocksLargeEnough ==
    \A i \in Slots : block_size(i) >= BlockSizes[i] /\ block_size(i) % Word = 0
<1> SUFFICES ASSUME NEW i \in Slots
             PROVE  block_size(i) >= BlockSizes[i] /\ block_size(i) % Word = 0
    OBVIOUS
<1>1. BlockSizes[i] \in Nat
    BY MemPoolAssumption DEF Slots
<1>2. \A b \in Nat : /\ ((b + Word - 1) \div Word) * Word >= b
                     /\ (((b + Word - 1) \div Word) * Word) % Word = 0
    BY MemPoolAssumption
<1> QED
    BY <1>1, <1>2 DEF block_size

LEMMA FitsSize ==
    ASSUME NEW i \in Slots, NEW size \in 0..MemorySize, Fits(i, size)
    PROVE  size \in Nat /\ size <= block_size(i)
    BY MemoryTypes DEF Fits

-----------------------------------------------------------------------------
(* The invariant.                                                          *)

LEMMA InitConsistent == Init => PoolConsistent
<1> SUFFICES ASSUME Init PROVE PoolConsistent
    OBVIOUS
<1>1. TypeOK
    BY MemoryTypes DEF Init, TypeOK
<1>2. Blocks = {}
    BY DEF Init, Blocks
<1>3. Tiled
    BY <1>2, MemoryTypes DEF Init, Tiled
<1>4. \A i \in Slots : free_list[i] = <<>> /\ Elements(free_list[i]) = {}
    BY DEF Init, Elements, ToSet
<1>5. FreeLists
    BY <1>4 DEF FreeLists, Free, Distinct
<1>6. InUse /\ OnTheWay /\ NoneLost
    BY <1>2 DEF Init, InUse, OnTheWay, NoneLost
<1> QED
    BY <1>1, <1>3, <1>5, <1>6 DEF PoolConsistent

LEMMA ReuseConsistent ==
    ASSUME PoolConsistent, NEW i \in Slots, NEW size \in 0..MemorySize, Reuse(i, size)
    PROVE  PoolConsistent'
<1> DEFINE a == Head(free_list[i])
<1> USE DEF PoolConsistent
<1>1. free_list[i] \in Seq(Address) /\ free_list[i] # <<>> /\ Distinct(free_list[i])
    BY DEF TypeOK, Reuse, FreeLists
<1>2. /\ a \in Elements(free_list[i]) /\ a \in Address
      /\ Tail(free_list[i]) \in Seq(Address) /\ Distinct(Tail(free_list[i]))
      /\ Elements(Tail(free_list[i])) = Elements(free_list[i]) \ {a}
    BY <1>1, PopProperties
<1> HIDE DEF a
<1>3. /\ free_list' = [free_list EXCEPT ![i] = Tail(free_list[i])]
      /\ header' = [header EXCEPT ![a] = i]
      /\ allocated' = [allocated EXCEPT ![a] = size]
      /\ UNCHANGED <<unused_bytes, next_bh, made_for, freeing>>
    BY DEF Reuse, HandOut, a
<1>4. size \in Nat /\ size <= block_size(i)
    BY FitsSize DEF Reuse
<1>5. made_for[a] = i /\ allocated[a] = None /\ freeing[a] = None
    BY <1>2 DEF FreeLists, InUse, OnTheWay, Unlisted, Free
<1>6. TypeOK'
    BY <1>2, <1>3, <1>4 DEF TypeOK
<1>7. Tiled'
  <2>1. Blocks' = Blocks
      BY <1>3 DEF Blocks
  <2> QED
      BY <2>1, <1>3 DEF Tiled
<1>8. \A j \in Slots : Elements(free_list'[j]) = Elements(free_list[j]) \ {a}
  <2>1. \A j \in Slots : j # i => free_list'[j] = free_list[j] /\ ~Free(a, j)
      BY <1>2, <1>3, <1>5 DEF TypeOK, FreeLists
  <2>2. free_list'[i] = Tail(free_list[i])
      BY <1>3 DEF TypeOK
  <2> QED
      BY <2>1, <2>2, <1>2 DEF Free
<1>9. \A b \in Address, j \in Slots : Free(b, j)' <=> Free(b, j) /\ b # a
    BY <1>8 DEF Free
<1>10. /\ header'[a] = i /\ allocated'[a] = size /\ size # None
       /\ \A b \in Address \ {a} : header'[b] = header[b] /\ allocated'[b] = allocated[b]
    BY <1>2, <1>3, <1>4, MemoryTypes DEF TypeOK
<1>11. FreeLists'
  <2>1. \A j \in Slots : Distinct(free_list'[j])
      BY <1>2, <1>3 DEF TypeOK, FreeLists
  <2> QED
      BY <2>1, <1>3, <1>9 DEF FreeLists
<1>12. InUse'
  <2>1. ASSUME NEW b \in Address, allocated'[b] # None
        PROVE  /\ made_for'[b] \in Slots /\ header'[b] = made_for'[b]
               /\ allocated'[b] <= block_size(made_for'[b])
               /\ freeing'[b] = None /\ Unlisted(b)'
    <3>1. CASE b = a
        BY <3>1, <1>3, <1>4, <1>5, <1>9, <1>10 DEF Unlisted
    <3>2. CASE b # a
        BY <3>2, <2>1, <1>3, <1>9, <1>10 DEF InUse, Unlisted
    <3> QED
        BY <3>1, <3>2
  <2> QED
      BY <2>1 DEF InUse
<1>13. OnTheWay'
    BY <1>3, <1>9 DEF OnTheWay, Unlisted
<1>14. NoneLost'
  <2>1. \A b \in Blocks : b \in Address /\ made_for[b] \in Slots
      BY DEF Blocks, TypeOK
  <2> QED
      BY <2>1, <1>3, <1>7, <1>9, <1>10 DEF NoneLost, Blocks
<1> QED
    BY <1>6, <1>7, <1>11, <1>12, <1>13, <1>14

LEMMA BlocksBelow ==
    ASSUME PoolConsistent, NEW b \in Blocks
    PROVE  b < next_bh /\ made_for[b] \in Slots
<1> USE DEF PoolConsistent
<1>1. b \in Address /\ made_for[b] \in Slots
    BY DEF Blocks, TypeOK
<1>2. usage(made_for[b]) \in Nat /\ usage(made_for[b]) > 0
    BY <1>1, SizeTypes
<1>3. b + usage(made_for[b]) <= next_bh
    BY DEF Tiled
<1> QED
    BY <1>1, <1>2, <1>3, MemoryTypes DEF Address, TypeOK

\* A new block begins where no block is.
LEMMA NewBlock ==
    ASSUME PoolConsistent
    PROVE  /\ next_bh \in Address /\ next_bh >= ctl_size
           /\ made_for[next_bh] = None /\ allocated[next_bh] = None
<1>1. next_bh \in Address /\ next_bh >= ctl_size
  <2>1. next_bh \in Nat /\ unused_bytes \in Nat /\ next_bh + unused_bytes = MemorySize
      BY DEF PoolConsistent, TypeOK, Tiled
  <2>2. next_bh >= ctl_size
      BY DEF PoolConsistent, Tiled
  <2> QED
      BY <2>1, <2>2, MemoryTypes DEF Address
<1>2. next_bh \notin Blocks
    BY <1>1, BlocksBelow, MemoryTypes DEF Address
<1>3. made_for[next_bh] = None
    BY <1>1, <1>2 DEF Blocks
<1> QED
    BY <1>1, <1>3, MemoryTypes DEF PoolConsistent, InUse

LEMMA CarveConsistent ==
    ASSUME PoolConsistent, NEW i \in Slots, NEW size \in 0..MemorySize, Carve(i, size)
    PROVE  PoolConsistent'
<1> USE DEF PoolConsistent
<1>1. /\ unused_bytes' = unused_bytes - usage(i)
      /\ next_bh' = next_bh + usage(i)
      /\ made_for' = [made_for EXCEPT ![next_bh] = i]
      /\ header' = [header EXCEPT ![next_bh] = i]
      /\ allocated' = [allocated EXCEPT ![next_bh] = size]
      /\ UNCHANGED <<free_list, freeing>>
      /\ usage(i) <= unused_bytes
    BY DEF Carve, HandOut
<1>2. size \in Nat /\ size <= block_size(i) /\ size # None
    BY FitsSize, MemoryTypes DEF Carve
<1>3. usage(i) \in Nat /\ usage(i) > 0
    BY SizeTypes
<1>4. next_bh \in Address /\ next_bh >= ctl_size /\ made_for[next_bh] = None
    BY NewBlock
<1>5. \A b \in Blocks : b < next_bh /\ made_for[b] \in Slots
    BY BlocksBelow
<1>6. made_for[next_bh] = None
    BY <1>4
<1>7. Blocks' = Blocks \cup {next_bh}
    BY <1>1, <1>4, MemoryTypes DEF Blocks, TypeOK
<1>8. TypeOK'
    BY <1>1, <1>2, <1>3, <1>4 DEF TypeOK
<1>9. Tiled'
  <2>1. /\ ctl_size <= next_bh' /\ next_bh' + unused_bytes' = MemorySize
    <3>1. /\ next_bh \in Nat /\ unused_bytes \in Nat /\ ctl_size \in Nat
          /\ ctl_size <= next_bh /\ next_bh + unused_bytes = MemorySize
        BY MemoryTypes DEF Tiled, TypeOK
    <3>2. next_bh' = next_bh + usage(i) /\ unused_bytes' = unused_bytes - usage(i)
        BY <1>1
    <3> HIDE DEF PoolConsistent
    <3> QED
        BY <3>1, <3>2, <1>3
  <2>2. ASSUME NEW b \in Blocks'
        PROVE  ctl_size <= b /\ b + usage(made_for'[b]) <= next_bh'
    <3>1. CASE b = next_bh
        BY <3>1, <1>1, <1>3, <1>4 DEF TypeOK
    <3>2. CASE b # next_bh
      <4>1. b \in Blocks /\ made_for'[b] = made_for[b]
          BY <3>2, <1>1, <1>7 DEF TypeOK
      <4>2. ctl_size <= b /\ b + usage(made_for[b]) <= next_bh
          BY <4>1 DEF Tiled
      <4>3. usage(made_for[b]) \in Nat /\ b \in Nat /\ next_bh \in Nat
          BY <4>1, <1>5, SizeTypes, MemoryTypes DEF Blocks, Address, TypeOK
      <4> QED
          BY <4>1, <4>2, <4>3, <1>1, <1>3
    <3> QED
        BY <3>1, <3>2
  <2>3. ASSUME NEW b \in Blocks', NEW c \in Blocks', b < c
        PROVE  b + usage(made_for'[b]) <= c
    <3>1. b # next_bh
        BY <2>3, <1>4, <1>5, <1>7, MemoryTypes DEF Address, Blocks
    <3>2. b \in Blocks /\ made_for'[b] = made_for[b]
        BY <3>1, <1>1, <1>7 DEF TypeOK
    <3>3. CASE c = next_bh
        BY <3>2, <3>3 DEF Tiled
    <3>4. CASE c # next_bh
        BY <3>2, <3>4, <2>3, <1>7 DEF Tiled
    <3> QED
        BY <3>3, <3>4
  <2> QED
      BY <2>1, <2>2, <2>3 DEF Tiled
<1>10. /\ header'[next_bh] = i /\ allocated'[next_bh] = size /\ made_for'[next_bh] = i
       /\ \A b \in Address \ {next_bh} :
              /\ header'[b] = header[b] /\ allocated'[b] = allocated[b]
              /\ made_for'[b] = made_for[b]
    BY <1>1, <1>4 DEF TypeOK
<1>11. /\ freeing[next_bh] = None /\ Unlisted(next_bh)
    BY <1>4, <1>6, MemoryTypes DEF OnTheWay, FreeLists, Unlisted
<1>12. \A b \in Address, j \in Slots : Free(b, j)' <=> Free(b, j)
    BY <1>1 DEF Free
<1>13. FreeLists'
    BY <1>1, <1>10, <1>11, <1>12 DEF FreeLists, Unlisted
<1>14. InUse'
  <2>1. ASSUME NEW b \in Address, allocated'[b] # None
        PROVE  /\ made_for'[b] \in Slots /\ header'[b] = made_for'[b]
               /\ allocated'[b] <= block_size(made_for'[b])
               /\ freeing'[b] = None /\ Unlisted(b)'
    <3>1. CASE b = next_bh
        BY <3>1, <1>1, <1>2, <1>10, <1>11, <1>12 DEF Unlisted
    <3>2. CASE b # next_bh
        BY <3>2, <2>1, <1>1, <1>10, <1>12 DEF InUse, Unlisted
    <3> QED
        BY <3>1, <3>2
  <2> QED
      BY <2>1 DEF InUse
<1>15. OnTheWay'
    BY <1>1, <1>10, <1>11, <1>12 DEF OnTheWay, Unlisted
<1>16. NoneLost'
    BY <1>1, <1>2, <1>5, <1>7, <1>10, <1>12 DEF NoneLost, Blocks
<1> QED
    BY <1>8, <1>9, <1>13, <1>14, <1>15, <1>16

LEMMA FreeBeginConsistent ==
    ASSUME PoolConsistent, NEW a \in Address, FreeBegin(a)
    PROVE  PoolConsistent'
<1> USE DEF PoolConsistent
<1>1. /\ allocated[a] # None
      /\ freeing' = [freeing EXCEPT ![a] = header[a]]
      /\ allocated' = [allocated EXCEPT ![a] = None]
      /\ UNCHANGED <<unused_bytes, next_bh, free_list, header, made_for>>
    BY DEF FreeBegin
<1>2. header[a] \in Slots /\ header[a] = made_for[a] /\ Unlisted(a)
    BY <1>1 DEF InUse
<1>3. /\ freeing'[a] = made_for[a] /\ freeing'[a] # None /\ allocated'[a] = None
      /\ \A b \in Address \ {a} : freeing'[b] = freeing[b] /\ allocated'[b] = allocated[b]
    BY <1>1, <1>2, MemoryTypes DEF TypeOK
<1>4. Blocks' = Blocks /\ \A b \in Address, j \in Slots : Free(b, j)' <=> Free(b, j)
    BY <1>1 DEF Blocks, Free
<1>5. TypeOK'
    BY <1>1, <1>2 DEF TypeOK
<1>6. Tiled'
    BY <1>1, <1>4 DEF Tiled
<1>7. FreeLists'
    BY <1>1, <1>4 DEF FreeLists
<1>8. InUse'
    BY <1>1, <1>3, <1>4 DEF InUse, Unlisted
<1>9. OnTheWay'
    BY <1>1, <1>2, <1>3, <1>4 DEF OnTheWay, Unlisted
<1>10. NoneLost'
  <2>1. \A b \in Blocks : b \in Address /\ made_for[b] \in Slots
      BY DEF Blocks, TypeOK
  <2> QED
      BY <2>1, <1>1, <1>3, <1>4 DEF NoneLost
<1> QED
    BY <1>5, <1>6, <1>7, <1>8, <1>9, <1>10

LEMMA FreeEndConsistent ==
    ASSUME PoolConsistent, NEW a \in Address, FreeEnd(a)
    PROVE  PoolConsistent'
<1> DEFINE i == freeing[a]
<1> USE DEF PoolConsistent
<1>1. i = made_for[a] /\ i \in Slots /\ Unlisted(a) /\ i # None
    BY DEF FreeEnd, OnTheWay, TypeOK
<1>2. allocated[a] = None
    BY <1>1 DEF InUse
<1>3. /\ free_list' = [free_list EXCEPT ![i] = <<a>> \o free_list[i]]
      /\ header' = [header EXCEPT ![a] = Link]
      /\ freeing' = [freeing EXCEPT ![a] = None]
      /\ UNCHANGED <<unused_bytes, next_bh, allocated, made_for>>
    BY DEF FreeEnd
<1> HIDE DEF i
<1>4. /\ <<a>> \o free_list[i] \in Seq(Address) /\ Distinct(<<a>> \o free_list[i])
      /\ Elements(<<a>> \o free_list[i]) = Elements(free_list[i]) \cup {a}
  <2>1. free_list[i] \in Seq(Address) /\ Distinct(free_list[i]) /\ a \notin Elements(free_list[i])
      BY <1>1 DEF TypeOK, FreeLists, Unlisted, Free
  <2> QED
      BY <2>1, PushProperties
<1>5. /\ free_list'[i] = <<a>> \o free_list[i]
      /\ \A j \in Slots : j # i => free_list'[j] = free_list[j]
    BY <1>1, <1>3 DEF TypeOK
<1>6. \A b \in Address, j \in Slots : Free(b, j)' <=> Free(b, j) \/ (b = a /\ j = i)
    BY <1>4, <1>5 DEF Free
<1>7. /\ freeing'[a] = None /\ \A b \in Address \ {a} : freeing'[b] = freeing[b] /\ header'[b] = header[b]
    BY <1>3 DEF TypeOK
<1>8. Blocks' = Blocks
    BY <1>3 DEF Blocks
<1>9. TypeOK'
    BY <1>1, <1>3, <1>4 DEF TypeOK
<1>10. Tiled'
    BY <1>3, <1>8 DEF Tiled
<1>11. FreeLists'
    BY <1>1, <1>3, <1>4, <1>5, <1>6 DEF FreeLists
<1>12. InUse'
    BY <1>2, <1>3, <1>6, <1>7 DEF InUse, Unlisted
<1>13. OnTheWay'
    BY <1>3, <1>6, <1>7 DEF OnTheWay, Unlisted
<1>14. NoneLost'
  <2>1. \A b \in Blocks : b \in Address /\ made_for[b] \in Slots
      BY DEF Blocks, TypeOK
  <2> QED
      BY <2>1, <1>1, <1>3, <1>6, <1>7, <1>8 DEF NoneLost
<1> QED
    BY <1>9, <1>10, <1>11, <1>12, <1>13, <1>14

LEMMA NextConsistent == PoolConsistent /\ [Next]_vars => PoolConsistent'
<1> SUFFICES ASSUME PoolConsistent, [Next]_vars PROVE PoolConsistent'
    OBVIOUS
<1>1. ASSUME NEW i \in Slots, NEW size \in 0..MemorySize, Reuse(i, size)
      PROVE  PoolConsistent'
    BY <1>1, ReuseConsistent
<1>2. ASSUME NEW i \in Slots, NEW size \in 0..MemorySize, Carve(i, size)
      PROVE  PoolConsistent'
    BY <1>2, CarveConsistent
<1>3. ASSUME NEW a \in Address, FreeBegin(a)
      PROVE  PoolConsistent'
    BY <1>3, FreeBeginConsistent
<1>4. ASSUME NEW a \in Address, FreeEnd(a)
      PROVE  PoolConsistent'
    BY <1>4, FreeEndConsistent
<1>5. CASE UNCHANGED vars
    BY <1>5 DEF vars, PoolConsistent, TypeOK, Tiled, FreeLists, InUse, OnTheWay, NoneLost,
                Blocks, Free, Unlisted
<1> QED
    BY <1>1, <1>2, <1>3, <1>4, <1>5 DEF Next

\* The pool is tiled with blocks and no block is lost or in two places, for
\* any block sizes and any interleaving of allocations and frees
\* (mempool.c:63-131).
THEOREM PoolAlwaysConsistent == Spec => []PoolConsistent
    BY InitConsistent, NextConsistent, PTL DEF Spec

-----------------------------------------------------------------------------
(* The refinement.                                                         *)

InUseAt == {a \in Address : allocated[a] # None}

ZoneAt(a) == [first |-> a + Word, size |-> allocated[a]]

\* The zones in use are the images of their blocks.
LEMMA ZonesAreImages == ZonesInUse = {ZoneAt(a) : a \in InUseAt}
    BY DEF ZonesInUse, ZoneAt, InUseAt

\* A zone lies within its block.
LEMMA ZoneInBlock ==
    ASSUME PoolConsistent, NEW a \in InUseAt
    PROVE  /\ a \in Blocks /\ a \in Nat /\ Word \in Nat /\ allocated[a] \in Nat
           /\ usage(made_for[a]) \in Nat
           /\ a + Word + allocated[a] <= a + usage(made_for[a])
           /\ a + usage(made_for[a]) <= MemorySize
<1> USE DEF PoolConsistent
<1>1. /\ a \in Address /\ allocated[a] \in Nat /\ made_for[a] \in Slots
      /\ allocated[a] <= block_size(made_for[a])
    BY DEF InUseAt, InUse, TypeOK
<1>2. a \in Blocks
    BY <1>1, MemoryTypes DEF Blocks
<1>3. /\ usage(made_for[a]) = Word + block_size(made_for[a]) /\ Word \in Nat
      /\ block_size(made_for[a]) \in Nat /\ usage(made_for[a]) \in Nat
    BY <1>1, SizeTypes
<1>4. /\ a + usage(made_for[a]) <= next_bh /\ next_bh + unused_bytes = MemorySize
      /\ next_bh \in Nat /\ unused_bytes \in Nat /\ a \in Nat
  <2>1. next_bh \in Nat /\ unused_bytes \in Nat
      BY DEF TypeOK
  <2>2. next_bh + unused_bytes = MemorySize /\ a + usage(made_for[a]) <= next_bh
      BY <1>2 DEF Tiled
  <2>3. a \in Nat
      BY <1>1, MemoryTypes DEF Address
  <2> QED
      BY <2>1, <2>2, <2>3
<1> QED
    BY <1>1, <1>2, <1>3, <1>4, MemoryTypes

\* Zones of different blocks do not overlap.
LEMMA ZonesDisjoint ==
    ASSUME PoolConsistent, NEW a \in InUseAt, NEW b \in InUseAt, a # b
    PROVE  Z!Disjoint(ZoneAt(a), ZoneAt(b)) /\ ZoneAt(a).first # ZoneAt(b).first
<1>1. /\ a \in Blocks /\ a \in Nat /\ Word \in Nat /\ allocated[a] \in Nat
      /\ usage(made_for[a]) \in Nat
      /\ a + Word + allocated[a] <= a + usage(made_for[a])
    BY ZoneInBlock
<1>2. /\ b \in Blocks /\ b \in Nat /\ allocated[b] \in Nat
      /\ usage(made_for[b]) \in Nat
      /\ b + Word + allocated[b] <= b + usage(made_for[b])
    BY ZoneInBlock
<1>3. /\ a < b => a + usage(made_for[a]) <= b
      /\ b < a => b + usage(made_for[b]) <= a
    BY <1>1, <1>2 DEF PoolConsistent, Tiled
<1>4. (a + Word) + allocated[a] <= b + Word \/ (b + Word) + allocated[b] <= a + Word
    BY <1>1, <1>2, <1>3
<1>5. a + Word # b + Word
    BY <1>1, <1>2
<1> QED
    BY <1>4, <1>5 DEF Z!Disjoint, ZoneAt

AllInBlocks ==
    \A a \in InUseAt :
        a \in Nat /\ Word \in Nat /\ a + Word + allocated[a] <= MemorySize

AllApart ==
    \A a, b \in InUseAt :
        a # b => Z!Disjoint(ZoneAt(a), ZoneAt(b)) /\ ZoneAt(a).first # ZoneAt(b).first

LEMMA ZonesFit == PoolConsistent => AllInBlocks
<1> SUFFICES ASSUME PoolConsistent, NEW a \in InUseAt
             PROVE  a \in Nat /\ Word \in Nat /\ a + Word + allocated[a] <= MemorySize
    BY DEF AllInBlocks
<1> QED
    BY ZoneInBlock, MemoryTypes

LEMMA ZonesApart == PoolConsistent => AllApart
    BY ZonesDisjoint DEF AllApart

\* Handing out a block allocates a zone.
LEMMA HandOutAllocates ==
    ASSUME PoolConsistent, PoolConsistent', NEW a \in Address, NEW size \in Nat,
           allocated[a] = None, allocated' = [allocated EXCEPT ![a] = size]
    PROVE  Z!Next
<1> DEFINE z == [first |-> a + Word, size |-> size]
<1>1. size # None
    BY MemoryTypes
<1>2. allocated'[a] = size /\ \A b \in Address : b # a => allocated'[b] = allocated[b]
    BY DEF PoolConsistent, TypeOK
<1>3. InUseAt' = InUseAt \cup {a} /\ a \notin InUseAt
    BY <1>1, <1>2 DEF InUseAt
<1>4. ZoneAt(a)' = z /\ \A b \in InUseAt : ZoneAt(b)' = ZoneAt(b) /\ b # a
    BY <1>2, <1>3 DEF ZoneAt, InUseAt
<1>5. ZonesInUse' = ZonesInUse \cup {z}
  <2>1. ZonesInUse' = {ZoneAt(b)' : b \in InUseAt'}
      BY DEF ZonesInUse, ZoneAt, InUseAt
  <2> QED
      BY <2>1, <1>3, <1>4, ZonesAreImages
<1>6. AllInBlocks' /\ AllApart'
    BY ZonesFit, ZonesApart, PTL
<1>7. /\ a \in Nat /\ Word \in Nat /\ MemorySize \in Nat
      /\ a + Word + size <= MemorySize
    BY <1>2, <1>3, <1>6, MemoryTypes DEF AllInBlocks
<1>8. z \in Z!Zone /\ z.first + z.size <= MemorySize
    BY <1>7 DEF Z!Zone
<1>9. \A w \in ZonesInUse : Z!Disjoint(z, w)
  <2>1. ASSUME NEW b \in InUseAt
        PROVE  Z!Disjoint(z, ZoneAt(b))
    <3>1. a # b /\ a \in InUseAt' /\ b \in InUseAt'
        BY <1>3, <1>4
    <3>2. ZoneAt(b)' = ZoneAt(b) /\ ZoneAt(a)' = z
        BY <1>4
    <3>3. Z!Disjoint(ZoneAt(a), ZoneAt(b))'
        BY <1>6, <3>1 DEF AllApart
    <3> QED
        BY <3>2, <3>3 DEF Z!Disjoint
  <2> QED
      BY <2>1, ZonesAreImages
<1> QED
    BY <1>5, <1>8, <1>9 DEF Z!Next, Z!Allocate

\* gyros_free gives up the zone.
LEMMA FreeBeginFrees ==
    ASSUME PoolConsistent, NEW a \in Address, FreeBegin(a)
    PROVE  Z!Next
<1>1. /\ a \in InUseAt /\ allocated' = [allocated EXCEPT ![a] = None]
      /\ allocated \in [Address -> Nat \cup {None}]
    BY DEF FreeBegin, InUseAt, PoolConsistent, TypeOK
<1>2. InUseAt' = InUseAt \ {a} /\ \A b \in InUseAt' : ZoneAt(b)' = ZoneAt(b)
    BY <1>1 DEF InUseAt, ZoneAt
<1>3. \A b \in InUseAt : b # a => ZoneAt(b) # ZoneAt(a)
    BY <1>1, ZonesApart DEF AllApart
<1>4. ZonesInUse' = ZonesInUse \ {ZoneAt(a)}
  <2>1. ZonesInUse' = {ZoneAt(b)' : b \in InUseAt'}
      BY DEF ZonesInUse, ZoneAt, InUseAt
  <2> QED
      BY <2>1, <1>1, <1>2, <1>3, ZonesAreImages
<1>5. ZoneAt(a) \in ZonesInUse
    BY <1>1, ZonesAreImages
<1>6. ZoneAt(a) \in Z!Zone
  <2>1. /\ a \in Nat /\ Word \in Nat /\ allocated[a] \in Nat
        /\ a + Word + allocated[a] <= MemorySize /\ MemorySize \in Nat
      BY <1>1, ZonesFit, ZoneInBlock, MemoryTypes DEF AllInBlocks
  <2> QED
      BY <2>1 DEF ZoneAt, Z!Zone
<1> QED
    BY <1>4, <1>5, <1>6 DEF Z!Next, Z!Free

LEMMA InitRefines == Init => Z!Init
<1> SUFFICES ASSUME Init PROVE Z!Init
    OBVIOUS
<1>1. \A a \in Address : allocated[a] = None
    BY DEF Init
<1> QED
    BY <1>1 DEF ZonesInUse, Z!Init

LEMMA StepRefines ==
    PoolConsistent /\ PoolConsistent' /\ [Next]_vars => [Z!Next]_ZonesInUse
<1> SUFFICES ASSUME PoolConsistent, PoolConsistent', [Next]_vars
             PROVE  Z!Next \/ UNCHANGED ZonesInUse
    OBVIOUS
<1>1. ASSUME NEW i \in Slots, NEW size \in 0..MemorySize, Reuse(i, size)
      PROVE  Z!Next
  <2>1. /\ size \in Nat /\ allocated' = [allocated EXCEPT ![Head(free_list[i])] = size]
        /\ free_list[i] \in Seq(Address) /\ free_list[i] # <<>> /\ Distinct(free_list[i])
      BY <1>1, MemoryTypes DEF Reuse, HandOut, PoolConsistent, TypeOK, FreeLists
  <2>2. Head(free_list[i]) \in Address /\ Head(free_list[i]) \in Elements(free_list[i])
      BY <2>1, PopProperties
  <2>3. allocated[Head(free_list[i])] = None
      BY <2>2 DEF PoolConsistent, InUse, Unlisted, Free
  <2> QED
      BY <2>1, <2>2, <2>3, HandOutAllocates
<1>2. ASSUME NEW i \in Slots, NEW size \in 0..MemorySize, Carve(i, size)
      PROVE  Z!Next
  <2>1. size \in Nat /\ allocated' = [allocated EXCEPT ![next_bh] = size]
      BY <1>2, MemoryTypes DEF Carve, HandOut
  <2>2. next_bh \in Address /\ allocated[next_bh] = None
      BY <1>2, NewBlock
  <2> QED
      BY <2>1, <2>2, HandOutAllocates
<1>3. ASSUME NEW a \in Address, FreeBegin(a)
      PROVE  Z!Next
    BY <1>3, FreeBeginFrees
<1>4. ASSUME NEW a \in Address, FreeEnd(a)
      PROVE  UNCHANGED ZonesInUse
    BY <1>4 DEF FreeEnd, ZonesInUse
<1>5. CASE UNCHANGED vars
    BY <1>5 DEF vars, ZonesInUse
<1> QED
    BY <1>1, <1>2, <1>3, <1>4, <1>5 DEF Next

\* Whatever is allocated and freed in whatever order, the pool hands out zones
\* that do not overlap with each other.
THEOREM PoolImplementsZones == Spec => ImplementsZones
    BY PoolAlwaysConsistent, InitRefines, StepRefines, PTL
       DEF Spec, ImplementsZones, Z!Spec

-----------------------------------------------------------------------------
(* The log as a ring.                                                      *)

Memory == 0..LogSize - 1

\* Where the i-th oldest entry is when the next one goes to end.
At(end, i) == IF end + i - 1 < LogSize THEN end + i - 1 ELSE end + i - 1 - LogSize

Ring(memory, end) == [i \in 1..LogSize |-> memory[At(end, i)]]

\* One more entry: the oldest one is lost.
Shift(shown, entry) == [i \in 1..LogSize |-> IF i < LogSize THEN shown[i + 1] ELSE entry]

LEMMA LogSizeIs == LogSize \in Nat /\ LogSize > 0
    BY TraceAssumption

LEMMA AtIs ==
    ASSUME NEW end \in Memory, NEW i \in 1..LogSize
    PROVE  At(end, i) \in Memory
<1>1. LogSize \in Nat /\ end \in 0..LogSize - 1 /\ i \in 1..LogSize
    BY LogSizeIs DEF Memory
<1>2. At(end, i) \in 0..LogSize - 1
    BY ONLY <1>1 DEF At
<1> QED
    BY <1>2 DEF Memory

\* The i-th position gyros_trace_iterate returns.
Back(end, i) == IF end - i >= 0 THEN end - i ELSE end - i + LogSize

\* gyros_trace_iterate goes back from the end to the end.
LEMMA ListingIs ==
    ASSUME NEW end \in Memory, NEW i \in 1..LogSize
    PROVE  Listing(end)[i] = Back(end, i)
<1> DEFINE p == Listing(end)
           f == [j \in 1..LogSize |-> Back(end, j)]
           Follows(q) == q = [j \in 1..LogSize |->
                                 gyros_trace_iterate(end, IF j = 1 THEN -1 ELSE q[j - 1])]
<1>1. LogSize \in Nat /\ LogSize > 0 /\ end \in 0..LogSize - 1
    BY LogSizeIs DEF Memory
<1>2. gyros_trace_iterate(end, -1) = Back(end, 1)
    BY <1>1 DEF gyros_trace_iterate, Back
<1>3. ASSUME NEW j \in 1..LogSize, j # 1
      PROVE  gyros_trace_iterate(end, Back(end, j - 1)) = Back(end, j)
    BY <1>1, <1>3 DEF gyros_trace_iterate, Back
<1>4. Follows(f)
  <2>1. ASSUME NEW j \in 1..LogSize
        PROVE  f[j] = gyros_trace_iterate(end, IF j = 1 THEN -1 ELSE f[j - 1])
    <3>1. CASE j = 1
        BY <1>2, <3>1
    <3>2. CASE j # 1
      <4>1. j - 1 \in 1..LogSize
          BY <1>1, <3>2
      <4>2. f[j - 1] = Back(end, j - 1)
          BY <4>1
      <4> QED
          BY <1>3, <3>2, <4>2
    <3> QED
        BY <3>1, <3>2
  <2> HIDE DEF f
  <2>2. f = [j \in 1..LogSize |-> f[j]]
      BY DEF f
  <2> QED
      BY <2>1, <2>2
<1>5. p = CHOOSE q : Follows(q)
    BY DEF Listing
<1>6. Follows(p)
  <2> HIDE DEF Follows
  <2> QED
      BY <1>4, <1>5
<1> HIDE DEF p
<1>7. ASSUME NEW j \in 1..LogSize
      PROVE  p[j] = gyros_trace_iterate(end, IF j = 1 THEN -1 ELSE p[j - 1])
    BY <1>6
<1> DEFINE S == {n \in Nat : n \in 1..LogSize => p[n] = Back(end, n)}
<1>8. 0 \in S
    OBVIOUS
<1>9. ASSUME NEW n \in Nat, n \in S PROVE n + 1 \in S
  <2> SUFFICES ASSUME n + 1 \in 1..LogSize PROVE p[n + 1] = Back(end, n + 1)
      OBVIOUS
  <2>1. CASE n = 0
      BY <1>2, <1>7, <2>1
  <2>2. CASE n # 0
    <3>1. n \in 1..LogSize /\ (n + 1) - 1 = n /\ n + 1 # 1
        BY <1>1, <2>2
    <3>2. p[n] = Back(end, n)
        BY <1>9, <3>1
    <3>3. p[n + 1] = gyros_trace_iterate(end, p[n])
        BY <1>7, <3>1
    <3>4. gyros_trace_iterate(end, Back(end, (n + 1) - 1)) = Back(end, n + 1)
        BY <1>3, <3>1
    <3> QED
        BY <3>1, <3>2, <3>3, <3>4
  <2> QED
      BY <2>1, <2>2
<1>10. Nat \subseteq S
  <2> HIDE DEF S
  <2> QED
      BY <1>8, <1>9, SetInduction
<1>11. p[i] = Back(end, i)
    BY <1>1, <1>10
<1> QED
    BY <1>11 DEF p

LEMMA ShowIs ==
    ASSUME NEW memory, DOMAIN memory = Memory, NEW end \in Memory
    PROVE  Show(memory, end) = Ring(memory, end)
<1>1. LogSize \in Nat /\ LogSize > 0 /\ end \in 0..LogSize - 1
    BY LogSizeIs DEF Memory
<1>2. ASSUME NEW i \in 1..LogSize
      PROVE  Listing(end)[LogSize + 1 - i] = At(end, i) /\ At(end, i) \in DOMAIN memory
  <2>1. LogSize + 1 - i \in 1..LogSize
      BY <1>1
  <2>2. Listing(end)[LogSize + 1 - i] = Back(end, LogSize + 1 - i)
      BY <2>1, ListingIs
  <2>3. Back(end, LogSize + 1 - i) = At(end, i)
      BY <1>1 DEF Back, At
  <2> QED
      BY <2>2, <2>3, AtIs
<1> QED
    BY <1>2 DEF Show, Ring

LEMMA WrappedIs ==
    ASSUME NEW end \in Memory
    PROVE  Wrapped(end + 1) \in Memory
<1>1. LogSize \in Nat /\ LogSize > 0 /\ end \in 0..LogSize - 1
    BY LogSizeIs DEF Memory
<1>2. Wrapped(end + 1) \in 0..LogSize - 1
    BY ONLY <1>1 DEF Wrapped
<1> QED
    BY <1>2 DEF Memory

\* An entry that is written where the ring ends is the newest one.
LEMMA RingShifts ==
    ASSUME NEW memory, DOMAIN memory = Memory, NEW end \in Memory, NEW entry
    PROVE  Ring([memory EXCEPT ![end] = entry], Wrapped(end + 1))
               = Shift(Ring(memory, end), entry)
<1> DEFINE next == Wrapped(end + 1)
           new == [memory EXCEPT ![end] = entry]
<1>1. LogSize \in Nat /\ LogSize > 0 /\ end \in 0..LogSize - 1
    BY LogSizeIs DEF Memory
<1>2. next = IF end + 1 = LogSize THEN 0 ELSE end + 1
    BY DEF Wrapped
<1>3. next \in Memory
    BY WrappedIs
<1> HIDE DEF next
<1>4. ASSUME NEW i \in 1..LogSize
      PROVE  new[At(next, i)] = IF i < LogSize THEN memory[At(end, i + 1)] ELSE entry
  <2>1. At(next, i) \in Memory
      BY <1>3, AtIs
  <2>2. i < LogSize => At(next, i) = At(end, i + 1) /\ At(next, i) # end
      BY <1>1, <1>2 DEF At
  <2>3. ~(i < LogSize) => At(next, i) = end
      BY <1>1, <1>2 DEF At
  <2> QED
      BY <2>1, <2>2, <2>3
<1>5. \A i \in 1..LogSize : i < LogSize => i + 1 \in 1..LogSize
    BY <1>1
<1> HIDE DEF new
<1>6. Ring(new, next) = Shift(Ring(memory, end), entry)
    BY <1>4, <1>5 DEF Ring, Shift
<1> QED
    BY <1>6 DEF new, next

\* new is old with n more entries.
Follows(old, new, n) ==
    \A i \in 1..LogSize : i + n <= LogSize => new[i] = old[i + n]

LEMMA ShiftFollows ==
    ASSUME NEW ring, NEW entry
    PROVE  /\ Follows(ring, Shift(ring, entry), 1)
           /\ Shift(ring, entry)[LogSize] = entry
<1>1. LogSize \in Nat /\ LogSize > 0
    BY LogSizeIs
<1>2. LogSize \in 1..LogSize /\ ~(LogSize < LogSize)
    BY <1>1
<1>3. \A i \in 1..LogSize : i + 1 <= LogSize => i < LogSize
    BY <1>1
<1> QED
    BY <1>2, <1>3 DEF Follows, Shift

-----------------------------------------------------------------------------
(* Chains of context switches.                                             *)

Breaks(kind) == kind \in {"TRACE", "CONTEXT"}

\* No entry between the i-th and the j-th one breaks a chain.
Whole(ring, i, j) == \A k \in i + 1..j - 1 : ~Breaks(ring[k].kind)

Chained(ring) ==
    \A i \in 1..LogSize : \A j \in i + 1..LogSize :
        ring[i].kind = "CONTEXT" /\ ring[j].kind = "CONTEXT" /\ Whole(ring, i, j)
            => ring[j].task = ring[i].info

\* The last switch that is known to be the last one was to t.
LeadsTo(ring, t) ==
    \A i \in 1..LogSize :
        ring[i].kind = "CONTEXT" /\ Whole(ring, i, LogSize + 1) => ring[i].info = t

\* Entries of other kinds than those two keep both.
LEMMA PlainEntries ==
    ASSUME NEW old, NEW new, NEW n \in Nat, Follows(old, new, n),
           \A i \in 1..LogSize : i + n > LogSize => ~Breaks(new[i].kind)
    PROVE  /\ Chained(old) => Chained(new)
           /\ \A t : LeadsTo(old, t) => LeadsTo(new, t)
<1>1. LogSize \in Nat /\ LogSize > 0
    BY LogSizeIs
<1>2. ASSUME NEW i \in 1..LogSize, new[i].kind = "CONTEXT"
      PROVE  i + n \in 1..LogSize /\ new[i] = old[i + n]
  <2>1. i + n <= LogSize
      BY <1>1, <1>2 DEF Breaks
  <2> QED
      BY <1>1, <2>1 DEF Follows
<1>3. ASSUME NEW i \in 1..LogSize, i + n \in 1..LogSize,
             NEW j \in i + 1..LogSize + 1, Whole(new, i, j), NEW k \in i + n + 1..j + n - 1,
             k <= LogSize
      PROVE  ~Breaks(old[k].kind)
  <2>1. k - n \in i + 1..j - 1 /\ k - n \in 1..LogSize /\ (k - n) + n = k
      BY <1>1, <1>3
  <2>2. ~Breaks(new[k - n].kind)
      BY <1>3, <2>1 DEF Whole
  <2>3. new[k - n] = old[(k - n) + n]
      BY <1>3, <2>1 DEF Follows
  <2> QED
      BY <2>1, <2>2, <2>3
<1>4. ASSUME Chained(old), NEW i \in 1..LogSize, NEW j \in i + 1..LogSize,
             new[i].kind = "CONTEXT", new[j].kind = "CONTEXT", Whole(new, i, j)
      PROVE  new[j].task = new[i].info
  <2>1. j \in 1..LogSize /\ j \in i + 1..LogSize + 1
      BY <1>1
  <2>2. i + n \in 1..LogSize /\ new[i] = old[i + n]
      BY <1>2, <1>4
  <2>3. j + n \in 1..LogSize /\ new[j] = old[j + n]
      BY <1>2, <1>4, <2>1
  <2>4. j + n \in (i + n) + 1..LogSize
      BY <1>1, <2>2, <2>3
  <2>5. Whole(old, i + n, j + n)
    <3> SUFFICES ASSUME NEW k \in (i + n) + 1..(j + n) - 1 PROVE ~Breaks(old[k].kind)
        BY DEF Whole
    <3>1. k \in i + n + 1..j + n - 1 /\ k <= LogSize
        BY <1>1, <2>3
    <3> QED
        BY <1>3, <1>4, <2>1, <2>2, <3>1
  <2> QED
      BY <1>4, <2>2, <2>3, <2>4, <2>5 DEF Chained
<1>5. ASSUME NEW t, LeadsTo(old, t), NEW i \in 1..LogSize,
             new[i].kind = "CONTEXT", Whole(new, i, LogSize + 1)
      PROVE  new[i].info = t
  <2>1. LogSize + 1 \in i + 1..LogSize + 1
      BY <1>1
  <2>2. i + n \in 1..LogSize /\ new[i] = old[i + n]
      BY <1>2, <1>5
  <2>3. Whole(old, i + n, LogSize + 1)
    <3> SUFFICES ASSUME NEW k \in (i + n) + 1..(LogSize + 1) - 1 PROVE ~Breaks(old[k].kind)
        BY DEF Whole
    <3>1. k \in i + n + 1..(LogSize + 1) + n - 1 /\ k <= LogSize
        BY <1>1, <2>2
    <3> QED
        BY <1>3, <1>5, <2>1, <2>2, <3>1
  <2> QED
      BY <1>5, <2>2, <2>3 DEF LeadsTo
<1> QED
    BY <1>4, <1>5 DEF Chained, LeadsTo

\* With one entry more, what is whole before the new entry was whole.
LEMMA WholeBefore ==
    ASSUME NEW ring, NEW entry, NEW i \in 1..LogSize, NEW j \in i + 1..LogSize,
           Whole(Shift(ring, entry), i, j)
    PROVE  /\ i + 1 \in 1..LogSize /\ Shift(ring, entry)[i] = ring[i + 1]
           /\ Whole(ring, i + 1, j + 1)
<1> DEFINE new == Shift(ring, entry)
<1>1. LogSize \in Nat /\ LogSize > 0
    BY LogSizeIs
<1>2. \A k \in 1..LogSize : new[k] = IF k < LogSize THEN ring[k + 1] ELSE entry
    BY DEF Shift
<1>3. i + 1 \in 1..LogSize /\ i < LogSize
    BY <1>1
<1>4. ASSUME NEW k \in i + 1 + 1..j + 1 - 1 PROVE ~Breaks(ring[k].kind)
  <2>1. k - 1 \in i + 1..j - 1 /\ k - 1 \in 1..LogSize /\ k - 1 < LogSize /\ (k - 1) + 1 = k
      BY <1>1
  <2>2. ~Breaks(new[k - 1].kind)
      BY <2>1 DEF Whole
  <2>3. new[k - 1] = ring[k]
      BY <1>2, <2>1
  <2> QED
      BY <2>2, <2>3
<1> QED
    BY <1>2, <1>3, <1>4 DEF Whole

\* An entry that breaks the chain ends what is whole up to the end.
LEMMA NotWhole ==
    ASSUME NEW ring, NEW i \in 1..LogSize, i # LogSize, Breaks(ring[LogSize].kind)
    PROVE  ~Whole(ring, i, LogSize + 1)
<1>1. LogSize \in i + 1..(LogSize + 1) - 1
    BY LogSizeIs
<1> QED
    BY <1>1 DEF Whole

\* An entry that turns tracing on or off begins a new chain.
LEMMA TraceEntry ==
    ASSUME NEW ring, NEW entry, entry.kind = "TRACE"
    PROVE  /\ Chained(ring) => Chained(Shift(ring, entry))
           /\ \A t : LeadsTo(Shift(ring, entry), t)
<1> DEFINE new == Shift(ring, entry)
<1>1. LogSize \in Nat /\ LogSize > 0
    BY LogSizeIs
<1>2. new[LogSize] = entry /\ Breaks("TRACE")
    BY ShiftFollows DEF Breaks
<1>3. ASSUME Chained(ring), NEW i \in 1..LogSize, NEW j \in i + 1..LogSize,
             new[i].kind = "CONTEXT", new[j].kind = "CONTEXT", Whole(new, i, j)
      PROVE  new[j].task = new[i].info
  <2>1. i + 1 \in 1..LogSize /\ new[i] = ring[i + 1] /\ Whole(ring, i + 1, j + 1)
      BY <1>3, WholeBefore
  <2>2. j # LogSize
      BY <1>2, <1>3
  <2>3. j \in 1..LogSize /\ j + 1 \in (i + 1) + 1..LogSize /\ j < LogSize
      BY <1>1, <2>2
  <2>4. new[j] = ring[j + 1]
      BY <2>3 DEF Shift
  <2> QED
      BY <1>3, <2>1, <2>3, <2>4 DEF Chained
<1>4. ASSUME NEW i \in 1..LogSize, new[i].kind = "CONTEXT"
      PROVE  ~Whole(new, i, LogSize + 1)
    BY <1>2, <1>4, NotWhole
<1> QED
    BY <1>3, <1>4 DEF Chained, LeadsTo

\* An entry for a switch away from the task the chain leads to extends it.
LEMMA ContextEntry ==
    ASSUME NEW ring, NEW entry, entry.kind = "CONTEXT", LeadsTo(ring, entry.task)
    PROVE  /\ Chained(ring) => Chained(Shift(ring, entry))
           /\ LeadsTo(Shift(ring, entry), entry.info)
<1> DEFINE new == Shift(ring, entry)
<1>1. LogSize \in Nat /\ LogSize > 0
    BY LogSizeIs
<1>2. new[LogSize] = entry /\ Breaks("CONTEXT")
    BY ShiftFollows DEF Breaks
<1>3. ASSUME Chained(ring), NEW i \in 1..LogSize, NEW j \in i + 1..LogSize,
             new[i].kind = "CONTEXT", new[j].kind = "CONTEXT", Whole(new, i, j)
      PROVE  new[j].task = new[i].info
  <2>1. i + 1 \in 1..LogSize /\ new[i] = ring[i + 1] /\ Whole(ring, i + 1, j + 1)
      BY <1>3, WholeBefore
  <2>2. CASE j = LogSize
      BY <1>2, <1>3, <2>1, <2>2 DEF LeadsTo
  <2>3. CASE j # LogSize
    <3>1. j \in 1..LogSize /\ j + 1 \in (i + 1) + 1..LogSize /\ j < LogSize
        BY <1>1, <2>3
    <3>2. new[j] = ring[j + 1]
        BY <3>1 DEF Shift
    <3> QED
        BY <1>3, <2>1, <3>1, <3>2 DEF Chained
  <2> QED
      BY <2>2, <2>3
<1>4. ASSUME NEW i \in 1..LogSize, new[i].kind = "CONTEXT", Whole(new, i, LogSize + 1)
      PROVE  new[i].info = entry.info
  <2>1. i = LogSize
      BY <1>2, <1>4, NotWhole
  <2> QED
      BY <1>2, <2>1
<1> QED
    BY <1>3, <1>4 DEF Chained, LeadsTo

-----------------------------------------------------------------------------
(* alloc_trace.                                                            *)

LogOK(state) ==
    /\ state.log \in [Memory -> Entries]
    /\ state.pos \in Memory
    /\ state.enabled \in Settings

RingOf(state) == Ring(state.log, state.pos)

LEMMA CountedIs ==
    ASSUME NEW e \in Settings
    PROVE  Counted(e) \in Settings /\ (Counted(e) # 0 => e # 0)
<1>1. MaxWhen \in Nat
    BY TraceAssumption
<1> QED
    BY <1>1 DEF Counted, Settings

LEMMA AllocIs ==
    ASSUME NEW state, LogOK(state), NEW entry \in Entries
    PROVE  LET new == alloc_trace(state, entry)
           IN  /\ LogOK(new)
               /\ RingOf(new) = Shift(RingOf(state), entry)
               /\ new.enabled # 0 => state.enabled # 0
<1> DEFINE new == alloc_trace(state, entry)
           memory == state.log
           end == state.pos
<1>1. /\ memory \in [Memory -> Entries] /\ DOMAIN memory = Memory
      /\ end \in Memory /\ state.enabled \in Settings
    BY DEF LogOK
<1>2. /\ new.log = [memory EXCEPT ![end] = entry] /\ new.pos = Wrapped(end + 1)
      /\ new.enabled = Counted(state.enabled)
    BY DEF alloc_trace
<1> HIDE DEF new, memory, end
<1>3. Ring([memory EXCEPT ![end] = entry], Wrapped(end + 1)) = Shift(Ring(memory, end), entry)
    BY <1>1, RingShifts
<1>4. Wrapped(end + 1) \in Memory
    BY <1>1, WrappedIs
<1>5. Counted(state.enabled) \in Settings /\ (Counted(state.enabled) # 0 => state.enabled # 0)
    BY <1>1, CountedIs
<1>6. new.log \in [Memory -> Entries]
    BY <1>1, <1>2
<1>7. LogOK(new)
    BY <1>2, <1>4, <1>5, <1>6 DEF LogOK
<1>8. RingOf(new) = Shift(RingOf(state), entry)
    BY <1>2, <1>3 DEF RingOf, memory, end
<1> QED
    BY <1>2, <1>5, <1>7, <1>8 DEF new

\* The states that AllocAll goes through.
AllocRun(f, state, entries, n) ==
    f = [i \in 0..n |-> IF i = 0 THEN state ELSE alloc_trace(f[i - 1], entries[i])]

LEMMA AllocRunExists ==
    ASSUME NEW state, NEW entries
    PROVE  \A n \in Nat : \E f : AllocRun(f, state, entries, n)
<1> DEFINE S == {n \in Nat : \E f : AllocRun(f, state, entries, n)}
<1>1. 0 \in S
  <2>1. AllocRun([i \in 0..0 |-> state], state, entries, 0)
      BY DEF AllocRun
  <2> QED
      BY <2>1
<1>2. ASSUME NEW n \in Nat, n \in S PROVE n + 1 \in S
  <2>1. PICK f : AllocRun(f, state, entries, n)
      BY <1>2
  <2> DEFINE g == [i \in 0..n + 1 |->
                       IF i = n + 1 THEN alloc_trace(f[n], entries[n + 1]) ELSE f[i]]
             h == [i \in 0..n + 1 |->
                       IF i = 0 THEN state ELSE alloc_trace(g[i - 1], entries[i])]
  <2>2. ASSUME NEW i \in 0..n + 1 PROVE g[i] = h[i]
    <3>1. CASE i = n + 1
        BY <3>1
    <3>2. CASE i # n + 1 /\ i = 0
        BY <2>1, <3>2 DEF AllocRun
    <3>3. CASE i # n + 1 /\ i # 0
      <4>1. i \in 0..n /\ i - 1 \in 0..n /\ i - 1 # n + 1
          BY <3>3
      <4>2. g[i] = f[i] /\ g[i - 1] = f[i - 1]
          BY <4>1, <3>3
      <4>3. f[i] = alloc_trace(f[i - 1], entries[i])
          BY <2>1, <3>3, <4>1 DEF AllocRun
      <4> QED
          BY <3>3, <4>2, <4>3
    <3> QED
        BY <3>1, <3>2, <3>3
  <2>3. g = h
      BY <2>2
  <2>4. AllocRun(g, state, entries, n + 1)
      BY <2>3 DEF AllocRun
  <2> QED
      BY <2>4
<1>3. Nat \subseteq S
  <2> HIDE DEF S
  <2> QED
      BY <1>1, <1>2, SetInduction
<1> QED
    BY <1>3

\* What the log shows after n entries in a row.
Extended(old, new, entries, n) ==
    /\ Follows(old, new, n)
    /\ \A i \in 1..LogSize : i + n > LogSize => new[i] = entries[i + n - LogSize]

LEMMA AllocAllIs ==
    ASSUME NEW state, LogOK(state), NEW entries \in Seq(Entries)
    PROVE  LET new == AllocAll(state, entries)
           IN  /\ LogOK(new)
               /\ Extended(RingOf(state), RingOf(new), entries, Len(entries))
               /\ new.enabled # 0 => state.enabled # 0
<1> DEFINE f == CHOOSE g : AllocRun(g, state, entries, Len(entries))
           old == RingOf(state)
<1>1. AllocRun(f, state, entries, Len(entries))
  <2>1. Len(entries) \in Nat
      OBVIOUS
  <2> QED
      BY <2>1, AllocRunExists
<1>2. AllocAll(state, entries) = f[Len(entries)]
    BY DEF AllocAll, AllocRun
<1> HIDE DEF f
<1> DEFINE P(n) == /\ LogOK(f[n])
                   /\ Extended(old, RingOf(f[n]), entries, n)
                   /\ f[n].enabled # 0 => state.enabled # 0
           S == {n \in Nat : n <= Len(entries) => P(n)}
<1>3. f[0] = state
    BY <1>1 DEF AllocRun
<1>4. ASSUME NEW n \in Nat, n + 1 <= Len(entries)
      PROVE  f[n + 1] = alloc_trace(f[n], entries[n + 1])
  <2>1. n + 1 \in 0..Len(entries) /\ n + 1 # 0 /\ (n + 1) - 1 = n
      BY <1>4
  <2>2. f[n + 1] = alloc_trace(f[(n + 1) - 1], entries[n + 1])
      BY <1>1, <2>1 DEF AllocRun
  <2> QED
      BY <2>1, <2>2
<1>5. P(0)
  <2>1. LogSize \in Nat /\ \A i \in 1..LogSize : i + 0 = i /\ i <= LogSize /\ ~(i > LogSize)
      BY LogSizeIs
  <2> HIDE DEF old
  <2>2. Extended(old, old, entries, 0)
      BY <2>1 DEF Extended, Follows
  <2> QED
      BY <1>3, <2>2 DEF old
<1>6. ASSUME NEW n \in Nat, n + 1 <= Len(entries), P(n) PROVE P(n + 1)
  <2> DEFINE a == f[n]
             x == entries[n + 1]
             b == f[n + 1]
             m == n + 1
  <2>1. /\ LogOK(a) /\ Extended(old, RingOf(a), entries, n)
        /\ a.enabled # 0 => state.enabled # 0
      BY <1>6
  <2>2. b = alloc_trace(a, x)
      BY <1>4, <1>6
  <2>3. x \in Entries
      BY <1>6
  <2> HIDE DEF a, x, b
  <2>4. /\ LogOK(b) /\ RingOf(b) = Shift(RingOf(a), x)
        /\ b.enabled # 0 => a.enabled # 0
      BY <2>1, <2>2, <2>3, AllocIs
  <2>5. ASSUME NEW i \in 1..LogSize
        PROVE  /\ i + m <= LogSize => RingOf(b)[i] = old[i + m]
               /\ i + m > LogSize => RingOf(b)[i] = entries[i + m - LogSize]
    <3>1. LogSize \in Nat /\ n \in Nat
        BY LogSizeIs
    <3>2. CASE i < LogSize
      <4>1. PICK q \in Int : q = (i + 1) + n /\ q = i + m
          BY <3>1
      <4>2. RingOf(b)[i] = RingOf(a)[i + 1] /\ i + 1 \in 1..LogSize
          BY <2>4, <3>1, <3>2 DEF Shift
      <4>3. /\ q <= LogSize => RingOf(a)[i + 1] = old[q]
            /\ q > LogSize => RingOf(a)[i + 1] = entries[q - LogSize]
          BY <2>1, <3>1, <4>1, <4>2 DEF Extended, Follows
      <4> HIDE DEF old
      <4> QED
          BY <3>1, <4>1, <4>2, <4>3
    <3>3. CASE ~(i < LogSize)
      <4>1. RingOf(b)[i] = x
          BY <2>4, <3>3 DEF Shift
      <4>2. i = LogSize /\ ~(i + m <= LogSize) /\ i + m - LogSize = n + 1
          BY <3>1, <3>3
      <4> QED
          BY <4>1, <4>2 DEF x
    <3> QED
        BY <3>2, <3>3
  <2>6. Extended(old, RingOf(b), entries, m)
      BY <2>5 DEF Extended, Follows
  <2>7. b.enabled # 0 => state.enabled # 0
      BY <2>1, <2>4
  <2> QED
      BY <2>4, <2>6, <2>7 DEF b
<1> HIDE DEF P
<1>7. \A n \in Nat : n \in S => n + 1 \in S
  <2> SUFFICES ASSUME NEW n \in Nat, n \in S, n + 1 <= Len(entries) PROVE P(n + 1)
      OBVIOUS
  <2>1. n <= Len(entries)
      OBVIOUS
  <2> QED
      BY <1>6, <2>1
<1>8. Nat \subseteq S
  <2>1. 0 \in S
      BY <1>5
  <2> HIDE DEF S
  <2> QED
      BY <1>7, <2>1, SetInduction
<1>9. Len(entries) \in Nat /\ Len(entries) <= Len(entries)
    OBVIOUS
<1>10. P(Len(entries))
    BY <1>8, <1>9
<1> QED
    BY <1>2, <1>10 DEF P

-----------------------------------------------------------------------------
(* The inductive invariant.                                                *)

\* The log as it is to everybody but the context hook.
Counts == [log |-> log, pos |-> End, enabled |-> enabled]

\* The task that executes when the step the hook is in is over.
Standing == IF hook.step = "switch" THEN Head(gyros.lists[Running]) ELSE gyros.current

KernelInv == Sound(gyros) /\ Elements(gyros.timeouts) = {}

HookStates ==
    [step : {"none", "trace", "fill", "switch"}, next : Tasks \cup {NoTask}, slot : Memory]

\* From the hook to the switch nothing changes what the hook has looked at.
HookInv ==
    /\ hook \in HookStates
    /\ hook.step # "none" => gyros.pendsv
    /\ hook.step \in {"trace", "fill"} =>
           hook.next = Head(gyros.lists[Running]) /\ enabled # 0

LogInv ==
    /\ LogOK(Counts)
    /\ when \in [Tasks -> 0..MaxWhen]
    /\ hook.step = "fill" => pos = hook.slot + 1

TraceInv == KernelInv /\ HookInv /\ LogInv

Places == {"task", "rest", "trace_off", "trace_string", "trace_clear"}

\* A clear that nothing has disturbed has emptied what is behind its loop.
ClearInv ==
    /\ pc \in [Tasks -> Places]
    /\ loop \in [Tasks -> 0..LogSize]
    /\ LoopShared => \A t, u \in Tasks : loop[t] = loop[u]
    /\ alone \subseteq Tasks
    /\ \A t \in alone, p \in Memory : p < loop[t] => log[p] = Empty
    /\ Clearing # {} => torn

\* While tracing is on, the last switch in the log led to the task that stands.
ChainInv ==
    ~torn =>
        /\ Chained(RingOf(Counts))
        /\ enabled # 0 => LeadsTo(RingOf(Counts), Standing)

-----------------------------------------------------------------------------
(* What the steps do to the log.                                           *)

Keeps == enabled' # 0 => Standing' = Standing /\ enabled # 0

Writes(entry) == RingOf(Counts)' = Shift(RingOf(Counts), entry)

Listed(t, order) == [i \in 1..Len(order) |-> Entry("STRING", t, order[i])]

\* What happens to the log when it is neither cleared nor turned.
Effect ==
    \/ log' = log /\ End' = End /\ Keeps
    \/ \E entry \in Events : ~Breaks(entry.kind) /\ Writes(entry) /\ Keeps
    \/ \E entry \in Events : entry.kind = "TRACE" /\ Writes(entry)
    \/ \E entry \in Events :
           /\ entry.kind = "CONTEXT" /\ Writes(entry)
           /\ enabled # 0 /\ entry.task = Standing /\ entry.info = Standing'
    \/ \E t \in Tasks, order \in Seq(Tasks) :
           /\ Distinct(order) /\ order # <<>> /\ Keeps
           /\ Extended(RingOf(Counts), RingOf(Counts)', Listed(t, order), Len(order))

\* Nobody but the context hook is in the middle of an entry.
LEMMA CountsIs ==
    ASSUME hook.step # "fill"
    PROVE  Counts = State
    BY DEF Counts, State, End

LEMMA ExecutingIs ==
    ASSUME TraceInv, NEW t \in AppTasks, Executing(t)
    PROVE  hook.step = "none" /\ gyros.current = t /\ t \in Tasks
    BY ListNames DEF TraceInv, HookInv, Executing

LEMMA EntryIs ==
    /\ \A t \in Tasks, s \in Settings : Entry("TRACE", t, s) \in Events
    /\ \A t \in Tasks, info \in Tasks \cup {Text} : Entry("STRING", t, info) \in Events
    /\ Entry("IRQ", NoTask, 0) \in Events
    /\ \A t, u \in Tasks : Entry("CONTEXT", t, u) \in Events
    /\ Events \subseteq Entries /\ Empty \in Entries
    /\ \A kind, t, info : Entry(kind, t, info).kind = kind /\ Entry(kind, t, info).task = t
                          /\ Entry(kind, t, info).info = info
<1>1. \A kind, t, info : /\ Entry(kind, t, info).kind = kind /\ Entry(kind, t, info).task = t
                         /\ Entry(kind, t, info).info = info
    BY DEF Entry
<1>2. Empty.kind = "EMPTY"
    BY <1>1 DEF Empty
<1>3. /\ \A t \in Tasks, s \in Settings : Entry("TRACE", t, s) \in Entries
      /\ \A t \in Tasks, info \in Tasks \cup {Text} : Entry("STRING", t, info) \in Entries
      /\ Entry("IRQ", NoTask, 0) \in Entries
      /\ \A t, u \in Tasks : Entry("CONTEXT", t, u) \in Entries
      /\ Empty \in Entries
    BY DEF Entries
<1>4. \A e \in Entries : e.kind # "EMPTY" => e \in Events
    BY <1>2 DEF Events
<1> HIDE DEF Empty
<1>5. \A kind, t, info : kind # "EMPTY" /\ Entry(kind, t, info) \in Entries
                         => Entry(kind, t, info) \in Events
    BY <1>1, <1>4
<1>6. Events \subseteq Entries
    BY DEF Events
<1> QED
    BY <1>1, <1>3, <1>5, <1>6

LEMMA HookValues ==
    /\ NoHook \in HookStates /\ NoHook.step = "none"
    /\ [NoHook EXCEPT !.step = "switch"] \in HookStates
    /\ [NoHook EXCEPT !.step = "switch"].step = "switch"
    /\ \A t \in Tasks :
           /\ [NoHook EXCEPT !.step = "trace", !.next = t] \in HookStates
           /\ [NoHook EXCEPT !.step = "trace", !.next = t].step = "trace"
           /\ [NoHook EXCEPT !.step = "trace", !.next = t].next = t
    /\ \A h \in HookStates, p \in Memory :
           /\ [h EXCEPT !.step = "fill", !.slot = p] \in HookStates
           /\ [h EXCEPT !.step = "fill", !.slot = p].step = "fill"
           /\ [h EXCEPT !.step = "fill", !.slot = p].slot = p
           /\ [h EXCEPT !.step = "fill", !.slot = p].next = h.next
<1>1. 0 \in Memory
    BY LogSizeIs DEF Memory
<1> QED
    BY <1>1 DEF NoHook, HookStates

\* A log without entries says nothing of switches.
LEMMA EmptyRing ==
    ASSUME NEW memory, NEW end \in Memory, \A p \in Memory : memory[p] = Empty
    PROVE  /\ Ring(memory, end) = [i \in 1..LogSize |-> Empty]
           /\ Chained(Ring(memory, end))
           /\ \A t : LeadsTo(Ring(memory, end), t)
<1> DEFINE ring == Ring(memory, end)
<1>1. \A i \in 1..LogSize : memory[At(end, i)] = Empty
    BY AtIs
<1>2. ring = [i \in 1..LogSize |-> Empty]
    BY <1>1 DEF Ring
<1>3. Empty.kind = "EMPTY"
    BY DEF Empty, Entry
<1> HIDE DEF ring
<1>4. \A i \in 1..LogSize : ring[i].kind = "EMPTY"
    BY <1>2, <1>3
<1>5. Chained(ring) /\ \A t : LeadsTo(ring, t)
    BY <1>4 DEF Chained, LeadsTo
<1> QED
    BY <1>2, <1>5 DEF ring

LEMMA InitTrace == TraceStart => TraceInv /\ ClearInv /\ ChainInv
<1> SUFFICES ASSUME TraceStart PROVE TraceInv /\ ClearInv /\ ChainInv
    OBVIOUS
<1> USE DEF TraceStart, TraceInit
<1>1. LogSize \in Nat /\ LogSize > 0 /\ MaxWhen \in Nat
    BY TraceAssumption
<1>2. KernelInv
  <2>1. Elements(<<>>) = {}
      BY DEF Elements, ToSet
  <2> QED
      BY <2>1, StartedSound DEF KernelInv, ScheduleOK
<1>3. hook.step = "none" /\ HookInv
    BY HookValues DEF HookInv
<1>4. Counts = [log |-> log, pos |-> 0, enabled |-> 0]
    BY <1>3 DEF Counts, End
<1>5. log \in [Memory -> Entries] /\ 0 \in Memory /\ 0 \in Settings
    BY <1>1, EntryIs DEF Memory, Settings
<1>6. LogInv
    BY <1>1, <1>3, <1>4, <1>5 DEF LogInv, LogOK
<1>7. ChainInv
  <2>1. \A p \in Memory : log[p] = Empty
      BY DEF Memory
  <2>2. RingOf(Counts) = Ring(log, 0)
      BY <1>4 DEF RingOf
  <2> QED
      BY <1>5, <2>1, <2>2, EmptyRing DEF ChainInv
<1>8. ClearInv
  <2>1. Clearing = {}
      BY DEF Clearing
  <2> QED
      BY <1>1, <2>1 DEF ClearInv, Places
<1> QED
    BY <1>2, <1>3, <1>6, <1>7, <1>8 DEF TraceInv

\* A step that is not the hook's, between two switches.
LEMMA Unhooked ==
    ASSUME TraceInv, hook.step = "none", hook' = hook, gyros'.current = gyros.current
    PROVE  /\ HookInv' /\ Standing' = Standing
           /\ Counts = State /\ Counts' = State'
           /\ LogOK(State)
           /\ LogOK(State') /\ when' \in [Tasks -> 0..MaxWhen] => LogInv'
<1>1. Counts = State /\ Counts' = State'
    BY DEF Counts, State, End
<1>2. HookInv' /\ Standing' = Standing
    BY DEF TraceInv, HookInv, Standing
<1> QED
    BY <1>1, <1>2 DEF TraceInv, LogInv

\* One entry is written.
LEMMA Wrote ==
    ASSUME LogOK(State), Counts = State, Counts' = State', NEW entry \in Events,
           Becomes(alloc_trace(State, entry))
    PROVE  LogOK(State') /\ Writes(entry) /\ (enabled' # 0 => enabled # 0)
<1>1. State' = alloc_trace(State, entry)
    BY DEF State, Becomes, alloc_trace
<1>2. entry \in Entries
    BY EntryIs
<1> DEFINE new == alloc_trace(State, entry)
<1>3. LogOK(new) /\ RingOf(new) = Shift(RingOf(State), entry) /\ (new.enabled # 0 => State.enabled # 0)
    BY <1>2, AllocIs
<1> HIDE DEF new
<1>4. LogOK(State') /\ RingOf(State)' = Shift(RingOf(State), entry)
    BY <1>1, <1>3 DEF new, RingOf
<1>5. enabled' # 0 => enabled # 0
  <2>1. new.enabled = enabled' /\ State.enabled = enabled
      BY DEF new, Becomes, State
  <2> QED
      BY <1>3, <2>1
<1>6. RingOf(Counts) = RingOf(State) /\ RingOf(Counts)' = RingOf(State)'
    BY DEF RingOf
<1> QED
    BY <1>4, <1>5, <1>6 DEF Writes

\* One entry is written, and then it is said whether the log goes on.
LEMMA WroteSetting ==
    ASSUME LogOK(State), Counts = State, Counts' = State', NEW entry \in Events,
           NEW setting \in Settings,
           Becomes([alloc_trace(State, entry) EXCEPT !.enabled = setting])
    PROVE  LogOK(State') /\ Writes(entry)
<1> DEFINE new == alloc_trace(State, entry)
<1>1. entry \in Entries
    BY EntryIs
<1>2. LogOK(new) /\ RingOf(new) = Shift(RingOf(State), entry)
    BY <1>1, AllocIs
<1>3. log' = new.log /\ pos' = new.pos /\ enabled' = setting
    BY DEF Becomes, alloc_trace
<1> HIDE DEF new
<1>4. State'.log = new.log /\ State'.pos = new.pos /\ State'.enabled = setting
    BY <1>3 DEF State
<1>5. LogOK(State')
    BY <1>2, <1>4 DEF LogOK
<1>6. RingOf(State)' = RingOf(new)
    BY <1>4 DEF RingOf
<1>7. RingOf(Counts) = RingOf(State) /\ RingOf(Counts)' = RingOf(State)'
    BY DEF RingOf
<1> QED
    BY <1>2, <1>5, <1>6, <1>7 DEF Writes

\* The log is left alone.
LEMMA LeftAlone ==
    ASSUME LogOK(State), Counts = State, Counts' = State', UNCHANGED <<log, pos, enabled>>
    PROVE  LogOK(State') /\ log' = log /\ End' = End /\ (enabled' # 0 => enabled # 0)
<1>1. State' = State
    BY DEF State
<1>2. Counts.pos = State.pos /\ Counts'.pos = State'.pos
    OBVIOUS
<1>3. End' = End
    BY <1>2 DEF Counts, State
<1> QED
    BY <1>1, <1>3

\* The calls of a task.
LEMMA CallsStep ==
    ASSUME TraceInv, NEW t \in AppTasks, TraceCall(t)
    PROVE  TraceInv' /\ Effect
<1>1. Executing(t)
    BY DEF TraceCall, gyros_trace_on, gyros_trace_off, TraceOff, gyros_trace_string, TraceString,
           gyros_trace_running_tasks, Calls, Continues
<1>2. hook.step = "none" /\ gyros.current = t /\ t \in Tasks
    BY <1>1, ExecutingIs
<1>3. hook' = hook /\ gyros' = gyros
    BY DEF TraceCall, gyros_trace_on, gyros_trace_off, TraceOff, gyros_trace_string, TraceString,
           gyros_trace_running_tasks, traceVars
<1>4. KernelInv'
    BY <1>3 DEF TraceInv, KernelInv
<1>5. /\ HookInv' /\ Standing' = Standing /\ Counts = State /\ Counts' = State'
      /\ LogOK(State)
      /\ LogOK(State') /\ when' \in [Tasks -> 0..MaxWhen] => LogInv'
    BY <1>2, <1>3, Unhooked
<1>6. MaxWhen \in Nat /\ when \in [Tasks -> 0..MaxWhen]
    BY TraceAssumption DEF TraceInv, LogInv
<1>7. SUFFICES LogOK(State') /\ when' \in [Tasks -> 0..MaxWhen] /\ Effect
    BY <1>4, <1>5 DEF TraceInv
<1>8. CASE gyros_trace_on(t)
  <2> DEFINE entry == Entry("TRACE", gyros.current, 1)
  <2>1. 1 \in Settings
      BY <1>6 DEF Settings
  <2>2. entry \in Events /\ entry.kind = "TRACE"
      BY <1>2, <2>1, EntryIs
  <2>3. Becomes([alloc_trace(State, entry) EXCEPT !.enabled = 1]) /\ when' = when
      BY <1>8 DEF gyros_trace_on, TraceByTask
  <2> HIDE DEF entry
  <2>4. LogOK(State') /\ Writes(entry)
      BY <1>5, <2>1, <2>2, <2>3, WroteSetting
  <2> QED
      BY <1>6, <2>2, <2>3, <2>4 DEF Effect
<1>9. ASSUME NEW n \in 0..MaxWhen, gyros_trace_off(t, n)
      PROVE  LogOK(State') /\ when' \in [Tasks -> 0..MaxWhen] /\ Effect
  <2>1. UNCHANGED <<log, pos, enabled>> /\ when' = [when EXCEPT ![t] = n]
      BY <1>9 DEF gyros_trace_off, logVars
  <2>2. LogOK(State') /\ log' = log /\ End' = End /\ (enabled' # 0 => enabled # 0)
      BY <1>5, <2>1, LeftAlone
  <2> QED
      BY <1>5, <1>6, <2>1, <2>2 DEF Effect, Keeps
<1>10. CASE TraceOff(t)
  <2> DEFINE s == -when[t]
             entry == Entry("TRACE", gyros.current, s)
  <2>1. s \in Settings
      BY <1>2, <1>6 DEF Settings
  <2>2. entry \in Events /\ entry.kind = "TRACE"
      BY <1>2, <2>1, EntryIs
  <2>3. /\ Becomes([alloc_trace(State, entry) EXCEPT !.enabled = s])
        /\ when' = [when EXCEPT ![t] = 0]
      BY <1>10 DEF TraceOff, TraceByTask
  <2> HIDE DEF entry, s
  <2>4. LogOK(State') /\ Writes(entry)
      BY <1>5, <2>1, <2>2, <2>3, WroteSetting
  <2>5. when' \in [Tasks -> 0..MaxWhen]
    <3>1. 0 \in 0..MaxWhen
        BY <1>6
    <3> QED
        BY <1>6, <2>3, <3>1
  <2> QED
      BY <2>2, <2>4, <2>5 DEF Effect
<1>11. CASE gyros_trace_string(t)
  <2>1. UNCHANGED <<log, pos, enabled>> /\ when' = when
      BY <1>11 DEF gyros_trace_string, traceVars, logVars
  <2>2. LogOK(State') /\ log' = log /\ End' = End /\ (enabled' # 0 => enabled # 0)
      BY <1>5, <2>1, LeftAlone
  <2> QED
      BY <1>5, <1>6, <2>1, <2>2 DEF Effect, Keeps
<1>12. CASE TraceString(t)
  <2> DEFINE entry == Entry("STRING", gyros.current, Text)
  <2>1. entry \in Events /\ ~Breaks(entry.kind)
      BY <1>2, EntryIs DEF Breaks
  <2>2. Becomes(alloc_trace(State, entry)) /\ when' = when
      BY <1>12 DEF TraceString, TraceByTask
  <2> HIDE DEF entry
  <2>3. LogOK(State') /\ Writes(entry) /\ (enabled' # 0 => enabled # 0)
      BY <1>5, <2>1, <2>2, Wrote
  <2> QED
      BY <1>5, <1>6, <2>1, <2>2, <2>3 DEF Effect, Keeps
<1>13. CASE gyros_trace_running_tasks(t)
  <2> DEFINE order == gyros.lists[Running]
             new == AllocAll(State, RunningEntries)
  <2>1. order \in Seq(Tasks) /\ Distinct(order) /\ order # <<>>
    <3>1. KernelOK(gyros) /\ gyros.main_list[Idle] = Running
        BY DEF TraceInv, KernelInv, Sound
    <3>2. order # <<>>
        BY <3>1, RunningNotEmpty, ListNames
    <3> QED
        BY <3>1, <3>2, ListNames DEF KernelOK, KernelStates, ListsOK
  <2>2. RunningEntries = Listed(t, order)
      BY <1>2 DEF RunningEntries, Listed
  <2> HIDE DEF order
  <2>3. Listed(t, order) \in Seq(Entries) /\ Len(Listed(t, order)) = Len(order)
    <3>1. \A i \in 1..Len(order) : order[i] \in Tasks
        BY <2>1
    <3>2. \A i \in 1..Len(order) : Entry("STRING", t, order[i]) \in Entries
        BY <1>2, <3>1, EntryIs
    <3>3. Len(order) \in Nat
        BY <2>1
    <3> QED
        BY <3>2, <3>3 DEF Listed
  <2>4. /\ LogOK(new) /\ Extended(RingOf(State), RingOf(new), Listed(t, order), Len(order))
        /\ new.enabled # 0 => State.enabled # 0
      BY <1>5, <2>2, <2>3, AllocAllIs
  <2>5. log' = new.log /\ pos' = new.pos /\ enabled' = new.enabled /\ when' = when
      BY <1>13 DEF gyros_trace_running_tasks, Becomes
  <2> HIDE DEF new
  <2>6. LogOK(State') /\ RingOf(State)' = RingOf(new)
      BY <2>4, <2>5 DEF State, LogOK, RingOf
  <2>7. enabled' # 0 => enabled # 0
      BY <2>4, <2>5 DEF State
  <2>8. RingOf(Counts) = RingOf(State) /\ RingOf(Counts)' = RingOf(State)'
      BY <1>5 DEF RingOf
  <2> QED
      BY <1>2, <1>5, <1>6, <2>1, <2>4, <2>5, <2>6, <2>7, <2>8 DEF Effect, Keeps
<1> QED
    BY <1>8, <1>9, <1>10, <1>11, <1>12, <1>13 DEF TraceCall

\* Interrupts, and a task that suspends itself.
LEMMA OthersStep ==
    ASSUME TraceInv, HookAtomic,
           \/ \E t \in AppTasks : TraceRest(t) \/ TraceResume(t)
           \/ Interrupt
    PROVE  TraceInv' /\ Effect
<1>0. KernelInv /\ Sound(gyros)
    BY DEF TraceInv, KernelInv
<1>1. ASSUME NEW t \in AppTasks, TraceRest(t) PROVE TraceInv' /\ Effect
  <2> DEFINE n == RemoveTimeout(gyros__task_suspend(gyros, t), t)
  <2>1. Rest(t) /\ UNCHANGED <<log, pos, enabled, when, hook>>
      BY <1>1 DEF TraceRest, traceVars, logVars
  <2>2. hook.step = "none"
      BY <1>1, <2>1, ExecutingIs DEF Rest, Calls
  <2>3. Moved(gyros, n, t, NoList) /\ Elements(n.timeouts) = Elements(gyros.timeouts) \ {t}
      BY <1>0, <1>1, SuspendSound
  <2>4. gyros' = gyros__reschedule(n)
      BY <2>1 DEF Rest
  <2> HIDE DEF n
  <2>5. Scheduled(n, gyros')
      BY <2>3, <2>4, RescheduleSound DEF Moved
  <2>6. KernelInv' /\ gyros'.current = gyros.current
      BY <1>0, <2>3, <2>5 DEF KernelInv, Scheduled, ScheduleOK, Moved, SameTasks
  <2>7. /\ HookInv' /\ Standing' = Standing /\ Counts = State /\ Counts' = State'
        /\ LogOK(State)
        /\ LogOK(State') /\ when' \in [Tasks -> 0..MaxWhen] => LogInv'
      BY <2>1, <2>2, <2>6, Unhooked
  <2>8. LogOK(State') /\ log' = log /\ End' = End /\ (enabled' # 0 => enabled # 0)
      BY <2>1, <2>7, LeftAlone
  <2> QED
      BY <2>1, <2>6, <2>7, <2>8 DEF Effect, Keeps, TraceInv, LogInv
<1>2. ASSUME gyros__irq_hook, Interruptible, hook' = hook, when' = when, KernelInv',
             gyros'.current = gyros.current
      PROVE  TraceInv' /\ Effect
  <2>1. hook.step = "none"
      BY <1>2 DEF Interruptible
  <2>2. /\ HookInv' /\ Standing' = Standing /\ Counts = State /\ Counts' = State'
        /\ LogOK(State)
        /\ LogOK(State') /\ when' \in [Tasks -> 0..MaxWhen] => LogInv'
      BY <1>2, <2>1, Unhooked
  <2>3. CASE enabled = 0
    <3>1. UNCHANGED <<log, pos, enabled>>
        BY <1>2, <2>3 DEF gyros__irq_hook, logVars
    <3>2. LogOK(State') /\ log' = log /\ End' = End /\ (enabled' # 0 => enabled # 0)
        BY <2>2, <3>1, LeftAlone
    <3> QED
        BY <1>2, <2>2, <3>2 DEF Effect, Keeps, TraceInv, LogInv
  <2>4. CASE enabled # 0
    <3> DEFINE entry == Entry("IRQ", NoTask, 0)
    <3>1. entry \in Events /\ ~Breaks(entry.kind)
        BY EntryIs DEF Breaks
    <3>2. Becomes(alloc_trace(State, entry))
        BY <1>2, <2>4 DEF gyros__irq_hook
    <3> HIDE DEF entry
    <3>3. LogOK(State') /\ Writes(entry) /\ (enabled' # 0 => enabled # 0)
        BY <2>2, <3>1, <3>2, Wrote
    <3> QED
        BY <1>2, <2>2, <3>1, <3>3 DEF Effect, Keeps, TraceInv, LogInv
  <2> QED
      BY <2>3, <2>4
<1>3. ASSUME NEW t \in AppTasks, TraceResume(t) PROVE TraceInv' /\ Effect
  <2> DEFINE n == gyros__task_move(gyros, t, Running)
  <2>1. /\ Interruptible /\ gyros__irq_hook /\ hook' = hook /\ when' = when
        /\ gyros' = gyros__cond_reschedule(n)
      BY <1>3 DEF TraceResume, Resume
  <2>2. Moved(gyros, n, t, Running) /\ n.timeouts = gyros.timeouts
    <3>1. t \in Tasks /\ t # Idle /\ Running \in Objects \cup {Running}
        BY ListNames
    <3>2. t \notin Elements(gyros.timeouts)
        BY DEF TraceInv, KernelInv
    <3> QED
        BY <1>0, <3>1, <3>2, MoveSound
  <2> HIDE DEF n
  <2>3. Scheduled(n, gyros')
      BY <2>1, <2>2, RescheduleSound DEF Moved
  <2>4. KernelInv' /\ gyros'.current = gyros.current
      BY <1>0, <2>2, <2>3 DEF KernelInv, Scheduled, ScheduleOK, Moved, SameTasks
  <2> QED
      BY <1>2, <2>1, <2>4
<1>4. CASE Interrupt
  <2>1. /\ Interruptible /\ gyros__irq_hook /\ hook' = hook /\ when' = when
        /\ gyros' = gyros
      BY <1>4 DEF Interrupt
  <2>2. KernelInv' /\ gyros'.current = gyros.current
      BY <1>0, <2>1 DEF KernelInv
  <2> QED
      BY <1>2, <2>1, <2>2
<1> QED
    BY <1>1, <1>3, <1>4

\* Clearing and seeking.
LEMMA ClearStep ==
    ASSUME TraceInv, ClearInv,
           \/ \E t \in AppTasks : gyros_trace_clear(t) \/ ClearEntry(t) \/ ClearReturn(t)
           \/ \E p \in Memory : gyros_trace_seek(p)
    PROVE  TraceInv' /\ hook.step = "none" /\ End = pos /\ End' = pos'
<1>1. PICK t \in AppTasks : Executing(t)
    BY DEF gyros_trace_clear, ClearEntry, ClearReturn, gyros_trace_seek, Calls, Continues
<1>2. hook.step = "none"
    BY <1>1, ExecutingIs
<1>3. hook' = hook /\ gyros' = gyros /\ when' = when /\ enabled' = enabled
    BY DEF gyros_trace_clear, ClearEntry, ClearReturn, gyros_trace_seek, logVars
<1>4. KernelInv'
    BY <1>3 DEF TraceInv, KernelInv
<1>5. /\ HookInv' /\ Counts = State /\ Counts' = State' /\ LogOK(State)
      /\ LogOK(State') /\ when' \in [Tasks -> 0..MaxWhen] => LogInv'
    BY <1>2, <1>3, Unhooked
<1>6. when' \in [Tasks -> 0..MaxWhen]
    BY <1>3 DEF TraceInv, LogInv
<1>7. State'.log = log' /\ State'.pos = pos' /\ State'.enabled = enabled
    BY <1>3 DEF State
<1>8. log \in [Memory -> Entries] /\ pos \in Memory /\ enabled \in Settings
    BY <1>5 DEF LogOK, State
<1>9. log' \in [Memory -> Entries] /\ pos' \in Memory
  <2>1. 0 \in Memory
      BY LogSizeIs DEF Memory
  <2>2. ASSUME NEW u \in AppTasks, gyros_trace_clear(u) \/ ClearReturn(u)
        PROVE  log' \in [Memory -> Entries] /\ pos' \in Memory
      BY <1>8, <2>1, <2>2 DEF gyros_trace_clear, ClearReturn, logVars
  <2>3. ASSUME NEW u \in AppTasks, ClearEntry(u)
        PROVE  log' \in [Memory -> Entries] /\ pos' \in Memory
      BY <1>8, <2>3, EntryIs DEF ClearEntry
  <2>4. ASSUME NEW p \in Memory, gyros_trace_seek(p)
        PROVE  log' \in [Memory -> Entries] /\ pos' \in Memory
      BY <1>8, <2>4 DEF gyros_trace_seek
  <2> QED
      BY <2>2, <2>3, <2>4
<1>10. LogOK(State')
    BY <1>7, <1>8, <1>9 DEF LogOK
<1> QED
    BY <1>2, <1>3, <1>4, <1>5, <1>6, <1>10 DEF TraceInv, End

LEMMA SameEnd ==
    ASSUME Counts' = Counts
    PROVE  End' = End
<1>1. Counts'.pos = Counts.pos
    OBVIOUS
<1> QED
    BY <1>1 DEF Counts

\* The exception that switches tasks.
LEMMA HookStep ==
    ASSUME TraceInv, gyros__context_hook \/ HookAllocates \/ HookFills \/ TraceSwitch
    PROVE  TraceInv' /\ Effect
<1> DEFINE next == Head(gyros.lists[Running])
<1>0. /\ KernelInv /\ Sound(gyros) /\ gyros.current \in Tasks
      /\ hook \in HookStates /\ hook.step \in {"none", "trace", "fill", "switch"}
      /\ LogOK(Counts) /\ when \in [Tasks -> 0..MaxWhen]
    BY DEF TraceInv, KernelInv, HookInv, HookStates, LogInv, Sound
<1>1. next \in Tasks
    BY <1>0, RunningNotEmpty, ListNames DEF Sound
<1> HIDE DEF next
<1>2. CASE gyros__context_hook
  <2>1. /\ gyros.pendsv /\ hook.step = "none"
        /\ UNCHANGED <<gyros, pc, log, pos, enabled, when>>
        /\ hook' = IF next = gyros.current \/ enabled = 0
                   THEN [NoHook EXCEPT !.step = "switch"]
                   ELSE [NoHook EXCEPT !.step = "trace", !.next = next]
      BY <1>2 DEF gyros__context_hook, next, logVars
  <2>2. \/ hook'.step = "switch" /\ (next = gyros.current \/ enabled = 0)
        \/ hook'.step = "trace" /\ hook'.next = next /\ enabled # 0
    <3>1. /\ [NoHook EXCEPT !.step = "switch"].step = "switch"
          /\ [NoHook EXCEPT !.step = "trace", !.next = next].step = "trace"
          /\ [NoHook EXCEPT !.step = "trace", !.next = next].next = next
        BY <1>1, HookValues
    <3> QED
        BY <2>1, <3>1
  <2>3. Counts' = Counts
      BY <2>1, <2>2 DEF Counts, End
  <2>4. KernelInv' /\ LogInv'
      BY <1>0, <2>1, <2>2, <2>3 DEF KernelInv, LogInv, LogOK
  <2>5. HookInv'
    <3>1. hook' \in HookStates
        BY <1>1, <2>1, HookValues
    <3> QED
        BY <2>1, <2>2, <3>1 DEF HookInv, next
  <2>6. Keeps
      BY <2>1, <2>2 DEF Keeps, Standing, next
  <2> QED
      BY <2>1, <2>3, <2>4, <2>5, <2>6, SameEnd DEF TraceInv, Effect
<1>3. CASE HookAllocates
  <2>1. /\ hook.step = "trace" /\ pos' = pos + 1
        /\ hook' = [hook EXCEPT !.step = "fill", !.slot = pos]
        /\ UNCHANGED <<gyros, pc, log, enabled, when>>
      BY <1>3 DEF HookAllocates
  <2>2. /\ hook' \in HookStates
        /\ hook'.step = "fill" /\ hook'.slot = pos /\ hook'.next = hook.next
    <3>1. pos \in Memory
        BY <1>0, <2>1 DEF LogOK, Counts, End
    <3>2. /\ [hook EXCEPT !.step = "fill", !.slot = pos] \in HookStates
          /\ [hook EXCEPT !.step = "fill", !.slot = pos].step = "fill"
          /\ [hook EXCEPT !.step = "fill", !.slot = pos].slot = pos
          /\ [hook EXCEPT !.step = "fill", !.slot = pos].next = hook.next
        BY <1>0, <3>1, HookValues
    <3> QED
        BY <2>1, <3>2
  <2>3. Counts' = Counts
      BY <2>1, <2>2 DEF Counts, End
  <2>4. KernelInv' /\ HookInv' /\ LogInv'
      BY <1>0, <2>1, <2>2, <2>3 DEF TraceInv, KernelInv, HookInv, LogInv, LogOK
  <2>5. Keeps
      BY <2>1, <2>2 DEF Keeps, Standing
  <2> QED
      BY <2>1, <2>3, <2>4, <2>5, SameEnd DEF TraceInv, Effect
<1>4. CASE HookFills
  <2> DEFINE entry == Entry("CONTEXT", gyros.current, hook.next)
             slot == hook.slot
  <2>1. /\ hook.step = "fill" /\ enabled' = Counted(enabled) /\ pos' = Wrapped(pos)
        /\ log' = [log EXCEPT ![slot] = entry]
        /\ hook' = [NoHook EXCEPT !.step = "switch"]
        /\ UNCHANGED <<gyros, pc, when>>
      BY <1>4 DEF HookFills
  <2>2. hook' \in HookStates /\ hook'.step = "switch"
      BY <2>1, HookValues
  <2>3. pos = slot + 1 /\ hook.next = next /\ enabled # 0 /\ gyros.pendsv
      BY <2>1 DEF TraceInv, LogInv, HookInv, next
  <2>4. Counts = [log |-> log, pos |-> slot, enabled |-> enabled]
      BY <2>1 DEF Counts, End
  <2>5. Counts' = [log |-> log', pos |-> pos', enabled |-> enabled']
      BY <2>2 DEF Counts, End
  <2>6. entry \in Events /\ entry.kind = "CONTEXT" /\ entry.task = gyros.current /\ entry.info = next
      BY <1>0, <1>1, <2>3, EntryIs
  <2> HIDE DEF entry, slot
  <2>7. Counts' = alloc_trace(Counts, entry)
      BY <2>1, <2>3, <2>4, <2>5 DEF alloc_trace
  <2>8. entry \in Entries
      BY <2>6, EntryIs
  <2> DEFINE new == alloc_trace(Counts, entry)
  <2>9. LogOK(new) /\ RingOf(new) = Shift(RingOf(Counts), entry)
      BY <1>0, <2>8, AllocIs
  <2> HIDE DEF new
  <2>10. Counts' = new
      BY <2>7 DEF new
  <2>11. LogOK(Counts') /\ Writes(entry)
      BY <2>9, <2>10 DEF Writes, RingOf
  <2>12. KernelInv' /\ HookInv'
      BY <1>0, <2>1, <2>2, <2>3 DEF KernelInv, HookInv
  <2>13. LogInv'
      BY <1>0, <2>1, <2>2, <2>11 DEF LogInv
  <2>14. Standing = gyros.current /\ Standing' = next
      BY <2>1, <2>2 DEF Standing, next
  <2> QED
      BY <2>3, <2>6, <2>11, <2>12, <2>13, <2>14 DEF TraceInv, Effect
<1>5. CASE TraceSwitch
  <2>1. /\ hook.step = "switch" /\ gyros' = PendSV_Handler(gyros) /\ hook' = NoHook
        /\ UNCHANGED <<log, pos, enabled, when>>
      BY <1>5 DEF TraceSwitch, ContextSwitch, logVars
  <2>2. hook' \in HookStates /\ hook'.step = "none"
      BY <2>1, HookValues
  <2>3. /\ Sound(gyros') /\ gyros'.timeouts = gyros.timeouts /\ gyros'.current = next
    <3>1. /\ ScheduleOK(PendSV_Handler(gyros)) /\ PendSV_Handler(gyros).timeouts = gyros.timeouts
        BY <1>0, SwitchSound
    <3>2. PendSV_Handler(gyros).current = next
        BY <1>0 DEF PendSV_Handler, next, Sound, KernelOK, KernelStates
    <3> QED
        BY <2>1, <3>1, <3>2 DEF ScheduleOK
  <2>4. Counts' = Counts
      BY <2>1, <2>2 DEF Counts, End
  <2>5. KernelInv' /\ HookInv' /\ LogInv'
      BY <1>0, <2>1, <2>2, <2>3, <2>4 DEF KernelInv, HookInv, LogInv, LogOK
  <2>6. Keeps
      BY <2>1, <2>2, <2>3 DEF Keeps, Standing, next
  <2> QED
      BY <2>1, <2>4, <2>5, <2>6, SameEnd DEF TraceInv, Effect
<1> QED
    BY <1>2, <1>3, <1>4, <1>5

\* Everything but clearing and seeking.
LEMMA EventStep ==
    ASSUME TraceInv, HookAtomic, TraceEvent
    PROVE  TraceInv' /\ Effect
<1>1. ASSUME NEW t \in AppTasks, TraceCall(t) PROVE TraceInv' /\ Effect
    BY <1>1, CallsStep
<1>2. CASE (\E t \in AppTasks : TraceRest(t) \/ TraceResume(t)) \/ Interrupt
    BY <1>2, OthersStep
<1>3. CASE gyros__context_hook \/ HookAllocates \/ HookFills \/ TraceSwitch
    BY <1>3, HookStep
<1> QED
    BY <1>1, <1>2, <1>3 DEF TraceEvent

LEMMA StutterTrace ==
    ASSUME UNCHANGED traceAll
    PROVE  /\ TraceInv => TraceInv'
           /\ ClearInv => ClearInv'
           /\ ChainInv => ChainInv'
           /\ log' = log /\ End' = End /\ Clearing' = Clearing /\ alone' = alone
<1>1. UNCHANGED <<gyros, pc, log, pos, enabled, when, hook, loop, torn, alone>>
    BY DEF traceAll, traceVars, logVars
<1>2. End' = End /\ Clearing' = Clearing
    BY <1>1 DEF End, Clearing
<1> QED
    BY <1>1, <1>2 DEF TraceInv, KernelInv, HookInv, LogInv, LogOK, ClearInv, ChainInv, RingOf,
                      Counts, Standing

\* Nothing but clears moves their loops, and nothing else makes one begin or end.
LEMMA EventKeepsClears ==
    ASSUME ClearInv, TraceEvent
    PROVE  loop' = loop /\ pc' \in [Tasks -> Places] /\ Clearing' = Clearing
<1>1. loop' = loop
    BY DEF TraceEvent, TraceCall, gyros_trace_on, gyros_trace_off, TraceOff, gyros_trace_string,
           TraceString, gyros_trace_running_tasks, TraceRest, TraceResume, Interrupt,
           gyros__context_hook, HookAllocates, HookFills, TraceSwitch, traceVars
<1>2. \/ pc' = pc
      \/ \E t \in AppTasks :
             /\ pc[t] \in {"task", "rest", "trace_off", "trace_string"}
             /\ \E place \in {"task", "rest", "trace_off", "trace_string"} : Goto(t, place)
    BY DEF TraceEvent, TraceCall, gyros_trace_on, gyros_trace_off, TraceOff, gyros_trace_string,
           TraceString, gyros_trace_running_tasks, TraceRest, TraceResume, Interrupt,
           gyros__context_hook, HookAllocates, HookFills, TraceSwitch, traceVars,
           Calls, Continues, Rest, Resume, ContextSwitch
<1>3. pc \in [Tasks -> Places]
    BY DEF ClearInv
<1>4. CASE pc' = pc
    BY <1>1, <1>3, <1>4 DEF Clearing
<1>5. ASSUME NEW t \in AppTasks, pc[t] \in {"task", "rest", "trace_off", "trace_string"},
             NEW place \in {"task", "rest", "trace_off", "trace_string"}, Goto(t, place)
      PROVE  pc' \in [Tasks -> Places] /\ Clearing' = Clearing
  <2>1. t \in Tasks /\ pc' = [pc EXCEPT ![t] = place]
      BY <1>5, ListNames DEF Goto
  <2>2. \A u \in Tasks : pc'[u] = "trace_clear" <=> pc[u] = "trace_clear"
      BY <1>3, <1>5, <2>1
  <2> QED
      BY <1>3, <1>5, <2>1, <2>2 DEF Clearing, Places
<1> QED
    BY <1>1, <1>2, <1>4, <1>5

\* Clears, one entry after the other.
LEMMA ClearsKept ==
    ASSUME TraceInv, ClearInv, HookAtomic, TraceNext
    PROVE  ClearInv'
<1>0. /\ pc \in [Tasks -> Places] /\ loop \in [Tasks -> 0..LogSize]
      /\ LoopShared => \A t, u \in Tasks : loop[t] = loop[u]
      /\ alone \subseteq Tasks
      /\ \A t \in alone, p \in Memory : p < loop[t] => log[p] = Empty
      /\ Clearing # {} => torn
      /\ LogSize \in Nat /\ AppTasks \subseteq Tasks
      /\ log \in [Memory -> Entries]
  <2>1. log \in [Memory -> Entries]
      BY DEF TraceInv, LogInv, LogOK, Counts
  <2> QED
      BY <2>1, LogSizeIs, ListNames DEF ClearInv
<1>1. ASSUME Touches, loop' = loop, pc' \in [Tasks -> Places], Clearing' # {} => torn'
      PROVE  ClearInv'
  <2>1. alone' = {} \/ (alone' = alone /\ log' = log)
      BY <1>1 DEF Touches
  <2> QED
      BY <1>0, <1>1, <2>1 DEF ClearInv
<1>2. CASE TraceEvent /\ Touches /\ UNCHANGED torn
    BY <1>0, <1>1, <1>2, EventKeepsClears
<1>3. ASSUME NEW p \in Memory, gyros_trace_seek(p), Touches, torn' = TRUE
      PROVE  ClearInv'
  <2>1. loop' = loop /\ pc' = pc
      BY <1>3 DEF gyros_trace_seek
  <2> QED
      BY <1>0, <1>1, <1>3, <2>1
<1>4. ASSUME NEW t \in AppTasks, gyros_trace_clear(t), alone' = alone \cup {t}, torn' = TRUE
      PROVE  ClearInv'
  <2>1. /\ log' = log /\ pc' = [pc EXCEPT ![t] = "trace_clear"]
        /\ loop' = [u \in Tasks |-> IF LoopShared \/ u = t THEN 0 ELSE loop[u]]
      BY <1>4 DEF gyros_trace_clear, Goto, LoopBecomes, logVars
  <2>2. loop' \in [Tasks -> 0..LogSize] /\ pc' \in [Tasks -> Places]
      BY <1>0, <2>1 DEF Places
  <2>3. ASSUME NEW u \in alone', NEW p \in Memory, p < loop'[u] PROVE log'[p] = Empty
    <3>1. p >= 0
        BY DEF Memory
    <3>2. ~LoopShared /\ u # t /\ u \in alone /\ loop'[u] = loop[u]
        BY <1>0, <1>4, <2>1, <2>3, <3>1 DEF Memory
    <3> QED
        BY <1>0, <2>1, <2>3, <3>2
  <2> QED
      BY <1>0, <1>4, <2>1, <2>2, <2>3 DEF ClearInv
<1>5. ASSUME NEW t \in AppTasks, ClearEntry(t), UNCHANGED <<torn, alone>>
      PROVE  ClearInv'
  <2>1. /\ pc' = pc /\ loop[t] < LogSize /\ log' = [log EXCEPT ![loop[t]] = Empty]
        /\ loop' = [u \in Tasks |-> IF LoopShared \/ u = t THEN loop[t] + 1 ELSE loop[u]]
      BY <1>5 DEF ClearEntry, LoopBecomes
  <2>2. loop' \in [Tasks -> 0..LogSize] /\ Clearing' = Clearing
      BY <1>0, <2>1 DEF Clearing
  <2>3. ASSUME NEW u \in alone, NEW p \in Memory, p < loop'[u] PROVE log'[p] = Empty
    <3>1. CASE p = loop[t]
        BY <1>0, <2>1, <3>1
    <3>2. CASE p # loop[t]
      <4>1. p < loop[u]
          BY <1>0, <2>1, <2>3, <3>2 DEF Memory
      <4> QED
          BY <1>0, <2>1, <3>2, <4>1
    <3> QED
        BY <3>1, <3>2
  <2> QED
      BY <1>0, <1>5, <2>1, <2>2, <2>3 DEF ClearInv
<1>6. ASSUME NEW t \in AppTasks, ClearReturn(t), alone' = alone \ {t},
             torn' = (t \notin alone \/ Clearing' # {})
      PROVE  ClearInv'
  <2>1. log' = log /\ loop' = loop /\ pc' = [pc EXCEPT ![t] = "task"]
      BY <1>6 DEF ClearReturn, Goto
  <2> QED
      BY <1>0, <1>6, <2>1 DEF ClearInv, Places
<1> QED
    BY <1>2, <1>3, <1>4, <1>5, <1>6 DEF TraceNext, Memory

\* The chain holds through every step.
LEMMA ChainStep ==
    ASSUME TraceInv, ClearInv, ChainInv, HookAtomic, TraceNext
    PROVE  ChainInv'
<1> DEFINE old == RingOf(Counts)
           new == RingOf(Counts)'
<1>1. SUFFICES ASSUME ~torn'
               PROVE  Chained(new) /\ (enabled' # 0 => LeadsTo(new, Standing'))
    BY DEF ChainInv
<1>2. \A t \in AppTasks : pc[t] = "trace_clear" => torn
  <2>1. \A t \in AppTasks : t \in Tasks
      BY ListNames
  <2> QED
      BY <2>1 DEF ClearInv, Clearing
<1>3. \/ TraceEvent /\ ~torn
      \/ \E t \in AppTasks : ClearReturn(t) /\ t \in alone
    BY <1>1, <1>2 DEF TraceNext, ClearEntry, Continues
<1>4. ASSUME NEW t \in AppTasks, ClearReturn(t), t \in alone
      PROVE  Chained(new) /\ (enabled' # 0 => LeadsTo(new, Standing'))
  <2>1. End' = 0 /\ log' = log /\ loop[t] = LogSize
      BY <1>4, ClearStep DEF ClearReturn
  <2>2. 0 \in Memory /\ \A p \in Memory : p < LogSize
      BY LogSizeIs DEF Memory
  <2>3. \A p \in Memory : log[p] = Empty
      BY <1>4, <2>1, <2>2 DEF ClearInv
  <2>4. new = Ring(log, 0)
      BY <2>1 DEF RingOf, Counts
  <2> QED
      BY <2>2, <2>3, <2>4, EmptyRing
<1>5. CASE TraceEvent /\ ~torn
  <2>1. /\ Chained(old) /\ (enabled # 0 => LeadsTo(old, Standing))
        /\ Effect
      BY <1>5, EventStep DEF ChainInv
  <2>2. CASE log' = log /\ End' = End /\ Keeps
    <3>1. new = old
        BY <2>2 DEF RingOf, Counts
    <3> QED
        BY <2>1, <2>2, <3>1 DEF Keeps
  <2>3. ASSUME NEW entry \in Events, ~Breaks(entry.kind), Writes(entry), Keeps
        PROVE  Chained(new) /\ (enabled' # 0 => LeadsTo(new, Standing'))
    <3>1. new = Shift(old, entry)
        BY <2>3 DEF Writes
    <3> HIDE DEF new, old
    <3>2. Follows(old, new, 1) /\ new[LogSize] = entry
        BY <3>1, ShiftFollows
    <3>3. \A i \in 1..LogSize : i + 1 > LogSize => ~Breaks(new[i].kind)
      <4>1. \A i \in 1..LogSize : i + 1 > LogSize => i = LogSize
          BY LogSizeIs
      <4> QED
          BY <2>3, <3>2, <4>1
    <3>4. 1 \in Nat
        OBVIOUS
    <3>5. /\ Chained(old) => Chained(new)
          /\ \A t : LeadsTo(old, t) => LeadsTo(new, t)
        BY <3>2, <3>3, <3>4, PlainEntries
    <3> QED
        BY <2>1, <2>3, <3>5 DEF Keeps
  <2>4. ASSUME NEW entry \in Events, entry.kind = "TRACE", Writes(entry)
        PROVE  Chained(new) /\ (enabled' # 0 => LeadsTo(new, Standing'))
    <3>1. new = Shift(old, entry)
        BY <2>4 DEF Writes
    <3> HIDE DEF new, old
    <3>2. /\ Chained(old) => Chained(Shift(old, entry))
          /\ \A t : LeadsTo(Shift(old, entry), t)
        BY <2>4, TraceEntry
    <3> QED
        BY <2>1, <3>1, <3>2
  <2>5. ASSUME NEW entry \in Events, entry.kind = "CONTEXT", Writes(entry), enabled # 0,
               entry.task = Standing, entry.info = Standing'
        PROVE  Chained(new) /\ (enabled' # 0 => LeadsTo(new, Standing'))
    <3>1. new = Shift(old, entry)
        BY <2>5 DEF Writes
    <3> HIDE DEF new, old
    <3>2. LeadsTo(old, entry.task)
        BY <2>1, <2>5
    <3>3. /\ Chained(old) => Chained(Shift(old, entry))
          /\ LeadsTo(Shift(old, entry), entry.info)
        BY <2>5, <3>2, ContextEntry
    <3> QED
        BY <2>1, <2>5, <3>1, <3>3
  <2>6. ASSUME NEW t \in Tasks, NEW order \in Seq(Tasks), Keeps,
               Extended(old, new, Listed(t, order), Len(order))
        PROVE  Chained(new) /\ (enabled' # 0 => LeadsTo(new, Standing'))
    <3> HIDE DEF new, old
    <3> DEFINE n == Len(order)
               entries == Listed(t, order)
    <3>1. n \in Nat
        OBVIOUS
    <3>2. Follows(old, new, n)
        BY <2>6 DEF Extended
    <3>3. ASSUME NEW i \in 1..LogSize, i + n > LogSize PROVE ~Breaks(new[i].kind)
      <4>1. new[i] = entries[i + n - LogSize]
          BY <2>6, <3>3 DEF Extended
      <4>2. i + n - LogSize \in 1..n
          BY <3>1, <3>3, LogSizeIs
      <4>3. \A j \in 1..n : entries[j] = Entry("STRING", t, order[j])
          BY DEF Listed
      <4> HIDE DEF entries
      <4>4. new[i] = Entry("STRING", t, order[i + n - LogSize])
          BY <4>1, <4>2, <4>3
      <4> QED
          BY <4>4 DEF Entry, Breaks
    <3> HIDE DEF n, entries
    <3>4. /\ Chained(old) => Chained(new)
          /\ \A u : LeadsTo(old, u) => LeadsTo(new, u)
        BY <3>1, <3>2, <3>3, PlainEntries
    <3> QED
        BY <2>1, <2>6, <3>4 DEF Keeps
  <2> QED
      BY <2>1, <2>2, <2>3, <2>4, <2>5, <2>6 DEF Effect
<1> QED
    BY <1>3, <1>4, <1>5

\* What is shown is the ring.
LEMMA ShownIs ==
    ASSUME NEW memory \in [Memory -> Entries], NEW end \in Memory
    PROVE  /\ Show(memory, end) = Ring(memory, end)
           /\ Ring(memory, end) \in [1..LogSize -> Entries]
<1>1. DOMAIN memory = Memory
    OBVIOUS
<1>2. Show(memory, end) = Ring(memory, end)
    BY <1>1, ShowIs
<1>3. \A i \in 1..LogSize : memory[At(end, i)] \in Entries
    BY AtIs
<1> QED
    BY <1>2, <1>3 DEF Ring

LEMMA ShownIsRing ==
    ASSUME LogOK(Counts)
    PROVE  Shown = RingOf(Counts) /\ Shown \in [1..LogSize -> Entries]
<1>1. log \in [Memory -> Entries] /\ End \in Memory
    BY DEF LogOK, Counts
<1>2. Show(log, End) = Ring(log, End) /\ Ring(log, End) \in [1..LogSize -> Entries]
    BY <1>1, ShownIs
<1> QED
    BY <1>2 DEF Shown, RingOf, Counts

LEMMA ChainIsShown ==
    ASSUME TraceInv, ChainInv
    PROVE  SwitchesChain
<1>1. Shown = RingOf(Counts)
    BY ShownIsRing DEF TraceInv, LogInv
<1>2. SUFFICES ASSUME NEW i \in 1..LogSize, Shown[i].kind = "CONTEXT", ~torn
               PROVE  /\ \A j \in i + 1..LogSize :
                             Switch(j) /\ Unbroken(i, j) => Shown[j].task = Shown[i].info
                      /\ Unbroken(i, LogSize + 1) /\ enabled # 0 /\ hook.step = "none"
                             => gyros.current = Shown[i].info
    BY DEF SwitchesChain, Switch
<1>3. Chained(Shown) /\ (enabled # 0 => LeadsTo(Shown, Standing))
    BY <1>1, <1>2 DEF ChainInv
<1>4. \A j : Unbroken(i, j) => Whole(Shown, i, j)
    BY DEF Unbroken, Whole, Breaks
<1>5. ASSUME NEW j \in i + 1..LogSize, Switch(j), Unbroken(i, j)
      PROVE  Shown[j].task = Shown[i].info
    BY <1>2, <1>3, <1>4, <1>5 DEF Chained, Switch
<1>6. ASSUME Unbroken(i, LogSize + 1), enabled # 0, hook.step = "none"
      PROVE  gyros.current = Shown[i].info
  <2>1. Standing = gyros.current
      BY <1>6 DEF Standing
  <2>2. Whole(Shown, i, LogSize + 1)
      BY <1>4, <1>6
  <2> QED
      BY <1>2, <1>3, <1>6, <2>1, <2>2 DEF LeadsTo
<1> QED
    BY <1>5, <1>6

TraceAllInv == TraceInv /\ ClearInv /\ ChainInv

LEMMA TraceStepKeeps ==
    ASSUME TraceInv, ClearInv, HookAtomic, TraceNext
    PROVE  TraceInv'
    BY EventStep, ClearStep DEF TraceNext, Memory

LEMMA TraceInductive ==
    ASSUME HookAtomic
    PROVE  TraceAllInv /\ [TraceNext]_traceAll => TraceAllInv'
<1> SUFFICES ASSUME TraceInv, ClearInv, ChainInv, [TraceNext]_traceAll
             PROVE  TraceInv' /\ ClearInv' /\ ChainInv'
    BY DEF TraceAllInv
<1>1. CASE TraceNext
    BY <1>1, TraceStepKeeps, ClearsKept, ChainStep
<1>2. CASE UNCHANGED traceAll
    BY <1>2, StutterTrace
<1> QED
    BY <1>1, <1>2

\* Where the exception that switches tasks is not interrupted, the entries of
\* the log tell of the switches as they were made, one after the other: for
\* any tasks, any size of the log and any setting (src/trace.c:154, src/hooks.c).
THEOREM SwitchesAreChained ==
    ASSUME HookAtomic
    PROVE  TraceSpec => []SwitchesChain
<1>1. TraceAllInv /\ [TraceNext]_traceAll => TraceAllInv'
    BY TraceInductive
<1>2. TraceAllInv => SwitchesChain
    BY ChainIsShown DEF TraceAllInv
<1>3. TraceStart => TraceAllInv
    BY InitTrace DEF TraceAllInv
<1> QED
    BY <1>1, <1>2, <1>3, PTL DEF TraceSpec

-----------------------------------------------------------------------------
(* The log implements the history.                                         *)

Rings == [1..LogSize -> Entries]

LEMMA RingsAre ==
    ASSUME NEW ring \in Rings
    PROVE  ring \in Seq(Entries) /\ Len(ring) = LogSize
    BY LogSizeIs DEF Rings

\* The end of one sequence of entries after another.
LEMMA LatestIs ==
    ASSUME NEW old \in Rings, NEW last \in Seq(Entries), NEW new \in Rings,
           Len(last) <= LogSize, Extended(old, new, last, Len(last))
    PROVE  new = SubSeq(old \o last, Len(old \o last) - LogSize + 1, Len(old \o last))
<1> DEFINE all == old \o last
           n == Len(last)
           end == SubSeq(all, Len(all) - LogSize + 1, Len(all))
<1>1. LogSize \in Nat /\ LogSize > 0 /\ n \in Nat /\ Len(old) = LogSize /\ old \in Seq(Entries)
    BY LogSizeIs, RingsAre
<1>2. /\ all \in Seq(Entries) /\ Len(all) = LogSize + n
      /\ \A i \in 1..LogSize + n : all[i] = IF i <= LogSize THEN old[i] ELSE last[i - LogSize]
    BY <1>1, ConcatProperties
<1> HIDE DEF all, n
<1>3. Len(all) - LogSize + 1 = n + 1 /\ n + 1 \in Int /\ Len(all) \in Int
    BY <1>1, <1>2
<1>4. \A i \in n + 1..Len(all) : all[i] \in Entries
  <2>1. \A i \in n + 1..Len(all) : i \in 1..Len(all)
      BY <1>1, <1>2
  <2> QED
      BY <1>2, <2>1
<1>5. /\ SubSeq(all, n + 1, Len(all)) \in Seq(Entries)
      /\ Len(SubSeq(all, n + 1, Len(all))) = IF n + 1 <= Len(all) THEN Len(all) - (n + 1) + 1 ELSE 0
      /\ \A i \in 1..Len(all) - (n + 1) + 1 : SubSeq(all, n + 1, Len(all))[i] = all[n + 1 + i - 1]
    BY <1>3, <1>4, SubSeqProperties
<1>6. end = SubSeq(all, n + 1, Len(all))
    BY <1>3
<1> HIDE DEF end
<1>7. end \in Seq(Entries) /\ Len(end) = LogSize
    BY <1>1, <1>2, <1>5, <1>6
<1>8. ASSUME NEW i \in 1..LogSize PROVE end[i] = new[i]
  <2>1. i \in 1..Len(all) - (n + 1) + 1 /\ n + 1 + i - 1 = i + n /\ i + n \in 1..LogSize + n
      BY <1>1, <1>2
  <2>2. end[i] = all[i + n]
      BY <1>5, <1>6, <2>1
  <2>3. CASE i + n <= LogSize
    <3>1. new[i] = old[i + n]
        BY <2>3 DEF Extended, Follows, n
    <3>2. all[i + n] = old[i + n]
        BY <1>2, <2>1, <2>3
    <3> QED
        BY <2>2, <3>1, <3>2
  <2>4. CASE i + n > LogSize
    <3>1. new[i] = last[i + n - LogSize]
        BY <2>4 DEF Extended, n
    <3>2. all[i + n] = last[i + n - LogSize]
        BY <1>1, <1>2, <2>1, <2>4
    <3> QED
        BY <2>2, <3>1, <3>2
  <2> QED
      BY <1>1, <2>3, <2>4
<1>9. new \in Seq(Entries) /\ Len(new) = LogSize
    BY RingsAre
<1>10. end = new
    BY <1>7, <1>8, <1>9
<1> QED
    BY <1>10 DEF end, all

LEMMA RecordIs ==
    ASSUME NEW old \in Rings, NEW new \in Rings, NEW entry \in Events,
           new = Shift(old, entry)
    PROVE  History!Record(old, new)
<1> DEFINE last == <<entry>>
<1>1. LogSize \in Nat /\ LogSize > 0 /\ LogSize \in 1..LogSize
    BY LogSizeIs
<1>2. Follows(old, new, 1) /\ new[LogSize] = entry
    BY ShiftFollows
<1>3. last \in Seq(Entries) /\ Len(last) = 1 /\ last[1] = entry
    BY EntryIs
<1>4. Extended(old, new, last, 1)
  <2>1. \A i \in 1..LogSize : i + 1 > LogSize => i = LogSize /\ i + 1 - LogSize = 1
      BY <1>1
  <2> QED
      BY <1>2, <1>3, <2>1 DEF Extended
<1> HIDE DEF last
<1>5. new = SubSeq(old \o last, Len(old \o last) - LogSize + 1, Len(old \o last))
  <2>1. Len(last) <= LogSize /\ Extended(old, new, last, Len(last))
      BY <1>1, <1>3, <1>4
  <2> QED
      BY <1>3, <2>1, LatestIs
<1>6. old \o last = Append(old, new[LogSize])
  <2>1. old \in Seq(Entries) /\ entry \in Entries
      BY RingsAre, EntryIs
  <2> QED
      BY <1>2, <2>1, AppendIsConcat DEF last
<1> QED
    BY <1>2, <1>5, <1>6 DEF History!Record, History!Latest

\* Different tasks, in some order.
LEMMA OrderIs ==
    ASSUME NEW n \in Nat, NEW order \in [1..n -> Tasks],
           \A i, j \in 1..n : i # j => order[i] # order[j]
    PROVE  order \in UNION {SetToSeqs(s) : s \in SUBSET Tasks}
<1> DEFINE S == {order[i] : i \in 1..n}
<1>1. S \in SUBSET Tasks
    OBVIOUS
<1>2. order \in Bijection(1..n, S)
    BY DEF Bijection, Injection, IsInjective, Surjection
<1>3. IsFiniteSet(1..n) /\ Cardinality(1..n) = n
    BY FS_Interval
<1> HIDE DEF S
<1>4. Cardinality(S) = n
  <2>1. ExistsBijection(1..n, S)
      BY <1>2 DEF ExistsBijection
  <2> DEFINE D == 1..n
  <2>2. IsFiniteSet(D) /\ ExistsBijection(D, S) /\ Cardinality(D) = n
      BY <1>3, <2>1
  <2> HIDE DEF D
  <2> QED
      BY <2>2, FS_Bijection
<1>5. order \in [1..n -> S]
    BY <1>2 DEF Bijection, Injection
<1>6. order \in SetToSeqs(S)
    BY <1>4, <1>5 DEF SetToSeqs
<1> QED
    BY <1>1, <1>6

LEMMA ReportIs ==
    ASSUME NEW old \in Rings, NEW new \in Rings, NEW t \in Tasks, NEW order \in Seq(Tasks),
           Distinct(order), order # <<>>,
           Extended(old, new, Listed(t, order), Len(order))
    PROVE  History!Report(old, new)
<1>0. PICK m \in Nat : m = Len(order) /\ m > 0
    OBVIOUS
<1>1. LogSize \in Nat /\ LogSize > 0 /\ m \in Nat /\ m > 0
    BY <1>0, LogSizeIs
<1>2. PICK n \in 1..LogSize : n = (IF m <= LogSize THEN m ELSE LogSize)
    BY <1>1
<1>3. n <= m /\ (n = m \/ n = LogSize) /\ n \in Nat
    BY <1>1, <1>2
<1> DEFINE at(i) == order[m - n + i]
           last == [i \in 1..n |-> at(i)]
           report == SubSeq(new, LogSize - n + 1, LogSize)
<1>4. /\ last \in [1..n -> Tasks] /\ Len(last) = n
      /\ \A i, j \in 1..n : i # j => last[i] # last[j]
  <2>1. \A i \in 1..n : m - n + i \in 1..Len(order)
      BY <1>0, <1>1, <1>3
  <2>2. \A i, j \in 1..n : i # j => m - n + i # m - n + j
      BY <1>1, <1>3
  <2>3. \A i \in 1..n : at(i) \in Tasks
    <3>1. \A k \in 1..Len(order) : order[k] \in Tasks
        OBVIOUS
    <3> QED
        BY <2>1, <3>1
  <2>4. \A i, j \in 1..n : i # j => at(i) # at(j)
    <3>1. \A a, b \in 1..Len(order) : a # b => order[a] # order[b]
        BY DEF Distinct
    <3> QED
        BY <2>1, <2>2, <3>1
  <2> HIDE DEF at
  <2> QED
      BY <1>3, <2>3, <2>4
<1>5. Listed(t, last) \in Listings
  <2>1. last \in UNION {SetToSeqs(s) : s \in SUBSET Tasks}
    <3> HIDE DEF last
    <3> QED
        BY <1>3, <1>4, OrderIs
  <2> HIDE DEF last
  <2> QED
      BY <2>1 DEF Listings, Listed
<1>6. \A i \in 1..LogSize : new[i] \in Entries
    BY DEF Rings
<1>7. /\ report \in Seq(Entries) /\ Len(report) = n
      /\ \A i \in 1..n : report[i] = new[LogSize - n + i]
  <2>1. \A i \in LogSize - n + 1..LogSize : i \in 1..LogSize
      BY <1>1, <1>2
  <2>2. \A i \in LogSize - n + 1..LogSize : new[i] \in Entries
      BY <1>6, <2>1
  <2>3. LogSize - n + 1 \in Int /\ LogSize \in Int
      BY <1>1, <1>3
  <2> DEFINE a == LogSize - n + 1
  <2>4. /\ SubSeq(new, a, LogSize) \in Seq(Entries)
        /\ Len(SubSeq(new, a, LogSize)) = IF a <= LogSize THEN LogSize - a + 1 ELSE 0
        /\ \A i \in 1..LogSize - a + 1 : SubSeq(new, a, LogSize)[i] = new[a + i - 1]
    <3>1. a \in Int /\ \A i \in a..LogSize : new[i] \in Entries
        BY <2>2, <2>3
    <3> HIDE DEF a
    <3> QED
        BY <2>3, <3>1, SubSeqProperties
  <2>5. a <= LogSize /\ LogSize - a + 1 = n /\ \A i \in 1..n : a + i - 1 = LogSize - n + i
      BY <1>1, <1>2
  <2> HIDE DEF a
  <2>6. /\ SubSeq(new, a, LogSize) \in Seq(Entries) /\ Len(SubSeq(new, a, LogSize)) = n
        /\ \A i \in 1..n : SubSeq(new, a, LogSize)[i] = new[LogSize - n + i]
      BY <2>4, <2>5
  <2> QED
      BY <2>6 DEF a
<1> HIDE DEF report
<1>8. report = Listed(t, last)
  <2>1. ASSUME NEW i \in 1..n PROVE report[i] = Listed(t, last)[i]
    <3>1. /\ LogSize - n + i \in 1..LogSize /\ (LogSize - n + i) + m > LogSize
          /\ (LogSize - n + i) + m - LogSize = m - n + i /\ m - n + i \in 1..m
      <4>1. i \in 1..n
          OBVIOUS
      <4> QED
          BY ONLY <1>1, <1>2, <1>3, <4>1
    <3> DEFINE j == LogSize - n + i
    <3>2. new[j] = Listed(t, order)[j + m - LogSize]
        BY <1>0, <3>1 DEF Extended
    <3>3. new[j] = Entry("STRING", t, order[m - n + i])
        BY <1>0, <3>1, <3>2 DEF Listed
    <3>4. Listed(t, last)[i] = Entry("STRING", t, order[m - n + i])
        BY <1>4 DEF Listed
    <3> QED
        BY <1>7, <3>3, <3>4
  <2>2. Listed(t, last) \in Seq(Entries) /\ Len(Listed(t, last)) = n
    <3> HIDE DEF last
    <3>1. \A i \in 1..n : Entry("STRING", t, last[i]) \in Entries
        BY <1>4, EntryIs
    <3> QED
        BY <1>3, <1>4, <3>1 DEF Listed
  <2> DEFINE listed == Listed(t, last)
  <2> HIDE DEF listed
  <2>3. listed \in Seq(Entries) /\ Len(listed) = n /\ \A i \in 1..n : report[i] = listed[i]
      BY <2>1, <2>2 DEF listed
  <2>4. report = listed
      BY <1>3, <1>7, <2>3
  <2> QED
      BY <2>4 DEF listed
<1>9. Extended(old, new, report, Len(report))
  <2>1. ASSUME NEW i \in 1..LogSize, i + n <= LogSize PROVE new[i] = old[i + n]
    <3>1. n = m
        BY <1>1, <1>2, <1>3, <2>1
    <3> QED
        BY <1>0, <2>1, <3>1 DEF Extended, Follows
  <2>2. ASSUME NEW i \in 1..LogSize, i + n > LogSize PROVE new[i] = report[i + n - LogSize]
    <3>1. i + n - LogSize \in 1..n /\ LogSize - n + (i + n - LogSize) = i
      <4>1. i \in 1..LogSize
          OBVIOUS
      <4> QED
          BY ONLY <1>1, <1>3, <1>2, <2>2, <4>1
    <3> QED
        BY <1>7, <3>1
  <2> QED
      BY <1>7, <2>1, <2>2 DEF Extended, Follows
<1>10. new = SubSeq(old \o report, Len(old \o report) - LogSize + 1, Len(old \o report))
  <2>1. Len(report) <= LogSize
      BY <1>2, <1>7
  <2> QED
      BY <1>7, <1>9, <2>1, LatestIs
<1> QED
    BY <1>2, <1>5, <1>8, <1>10 DEF History!Report, History!Latest, report

\* The ring from another position is the same ring, turned.
LEMMA TurnIs ==
    ASSUME NEW memory \in [Memory -> Entries], NEW end \in Memory, NEW p \in Memory, p # end
    PROVE  \E i \in 2..LogSize :
               Ring(memory, p) = SubSeq(Ring(memory, end), i, LogSize)
                                     \o SubSeq(Ring(memory, end), 1, i - 1)
<1> DEFINE old == Ring(memory, end)
           new == Ring(memory, p)
<1>1. LogSize \in Nat /\ LogSize > 0 /\ end \in 0..LogSize - 1 /\ p \in 0..LogSize - 1
    BY LogSizeIs DEF Memory
<1>2. PICK i \in 2..LogSize : i = (IF p > end THEN p - end + 1 ELSE p - end + 1 + LogSize)
  <2> DEFINE j == IF p > end THEN p - end + 1 ELSE p - end + 1 + LogSize
  <2>1. p # end
      OBVIOUS
  <2>2. j \in 2..LogSize
      BY ONLY <1>1, <2>1
  <2> HIDE DEF j
  <2>3. \E i \in 2..LogSize : i = j
      BY <2>2
  <2> QED
      BY <2>3 DEF j
<1>3. /\ old \in [1..LogSize -> Entries] /\ new \in [1..LogSize -> Entries]
      /\ \A k \in 1..LogSize : old[k] = memory[At(end, k)] /\ new[k] = memory[At(p, k)]
    BY ShownIs DEF Ring
<1> HIDE DEF old, new
<1>4. i \in Nat /\ i >= 2 /\ i <= LogSize
    BY <1>1, <1>2
<1> DEFINE a == SubSeq(old, i, LogSize)
           b == SubSeq(old, 1, i - 1)
<1>5. /\ a \in Seq(Entries) /\ Len(a) = LogSize - i + 1
      /\ \A k \in 1..LogSize - i + 1 : a[k] = old[i + k - 1]
  <2>1. \A k \in i..LogSize : k \in 1..LogSize
      BY <1>1, <1>4
  <2>2. \A k \in i..LogSize : old[k] \in Entries
      BY <1>3, <2>1
  <2>3. i \in Int /\ LogSize \in Int /\ i <= LogSize
      BY <1>1, <1>4
  <2> QED
      BY <2>2, <2>3, SubSeqProperties
<1>6. /\ b \in Seq(Entries) /\ Len(b) = i - 1
      /\ \A k \in 1..i - 1 : b[k] = old[k]
  <2> DEFINE j == i - 1
  <2>1. j \in Int /\ 1 \in Int /\ 1 <= j /\ j - 1 + 1 = j
      BY <1>4
  <2>2. \A k \in 1..j : k \in 1..LogSize
      BY <1>1, <1>4
  <2>3. \A k \in 1..j : old[k] \in Entries
      BY <1>3, <2>2
  <2> HIDE DEF j
  <2>4. /\ SubSeq(old, 1, j) \in Seq(Entries) /\ Len(SubSeq(old, 1, j)) = IF 1 <= j THEN j - 1 + 1 ELSE 0
        /\ \A k \in 1..j - 1 + 1 : SubSeq(old, 1, j)[k] = old[1 + k - 1]
      BY <2>1, <2>3, SubSeqProperties
  <2>5. \A k \in 1..j : 1 + k - 1 = k
      BY <2>1
  <2> QED
      BY <2>1, <2>4, <2>5 DEF j
<1> HIDE DEF a, b
<1>7. /\ a \o b \in Seq(Entries) /\ Len(a \o b) = Len(a) + Len(b)
      /\ \A k \in 1..Len(a) + Len(b) : (a \o b)[k] = IF k <= Len(a) THEN a[k] ELSE b[k - Len(a)]
    BY <1>5, <1>6, ConcatProperties
<1> DEFINE c == a \o b
<1>8. Len(c) = LogSize /\ Len(a) + Len(b) = LogSize
    BY <1>1, <1>4, <1>5, <1>6, <1>7
<1>9. ASSUME NEW k \in 1..LogSize PROVE c[k] = new[k]
  <2>1. CASE k <= LogSize - i + 1
    <3>1. k \in 1..LogSize - i + 1 /\ i + k - 1 \in 1..LogSize
        BY <1>1, <1>4, <2>1
    <3>2. At(end, i + k - 1) = At(p, k)
      <4>1. k \in 1..LogSize
          OBVIOUS
      <4> QED
          BY ONLY <1>1, <1>2, <2>1, <4>1 DEF At
    <3>3. c[k] = a[k]
        BY <1>5, <1>7, <1>8, <2>1
    <3>4. a[k] = old[i + k - 1]
        BY <1>5, <3>1
    <3>5. old[i + k - 1] = memory[At(end, i + k - 1)] /\ new[k] = memory[At(p, k)]
        BY <1>3, <3>1
    <3> QED
        BY <3>2, <3>3, <3>4, <3>5
  <2>2. CASE ~(k <= LogSize - i + 1)
    <3> DEFINE j == k - (LogSize - i + 1)
    <3>1. j \in 1..i - 1 /\ j \in 1..LogSize
        BY <1>1, <1>4, <2>2
    <3>2. At(end, j) = At(p, k)
      <4>1. k \in 1..LogSize
          OBVIOUS
      <4> QED
          BY ONLY <1>1, <1>2, <2>2, <4>1 DEF At
    <3>3. c[k] = b[j]
        BY <1>5, <1>7, <1>8, <2>2
    <3> HIDE DEF j
    <3>4. b[j] = old[j]
        BY <1>6, <3>1
    <3>5. old[j] = memory[At(end, j)] /\ new[k] = memory[At(p, k)]
        BY <1>3, <3>1
    <3> QED
        BY <3>2, <3>3, <3>4, <3>5
  <2> QED
      BY <2>1, <2>2
<1>10. c = new
  <2>1. c \in Seq(Entries) /\ Len(c) = LogSize
      BY <1>7, <1>8
  <2>2. new \in Seq(Entries) /\ Len(new) = LogSize
      BY <1>1, <1>3
  <2> HIDE DEF c
  <2> QED
      BY <1>9, <2>1, <2>2
<1> QED
    BY <1>2, <1>10 DEF a, b, c, old, new

\* Where an entry of the memory is shown.
LEMMA EraseIs ==
    ASSUME NEW memory \in [Memory -> Entries], NEW end \in Memory, NEW p \in Memory
    PROVE  \E i \in 1..LogSize :
               Ring([memory EXCEPT ![p] = Empty], end) = [Ring(memory, end) EXCEPT ![i] = Empty]
<1>1. LogSize \in Nat /\ LogSize > 0 /\ end \in 0..LogSize - 1 /\ p \in 0..LogSize - 1
    BY LogSizeIs DEF Memory
<1> DEFINE place == IF p >= end THEN p - end + 1 ELSE p - end + 1 + LogSize
<1>2. place \in 1..LogSize
    BY ONLY <1>1
<1>3. \A k \in 1..LogSize : At(end, k) = p <=> k = place
    BY ONLY <1>1 DEF At
<1> HIDE DEF place
<1> DEFINE erased == [memory EXCEPT ![p] = Empty]
<1>4. \A k \in 1..LogSize : erased[At(end, k)] = IF k = place THEN Empty ELSE memory[At(end, k)]
    BY <1>3, AtIs
<1> HIDE DEF erased
<1>5. Ring(erased, end) = [Ring(memory, end) EXCEPT ![place] = Empty]
    BY <1>4 DEF Ring
<1> QED
    BY <1>2, <1>5 DEF erased

LEMMA RingIsShown ==
    ASSUME TraceInv, TraceInv'
    PROVE  /\ Shown = Ring(log, End) /\ Shown \in Rings /\ Shown = RingOf(Counts)
           /\ Shown' = Ring(log', End') /\ Shown' \in Rings /\ Shown' = RingOf(Counts)'
           /\ log \in [Memory -> Entries] /\ End \in Memory
           /\ log' \in [Memory -> Entries] /\ End' \in Memory
<1>1. log \in [Memory -> Entries] /\ End \in Memory
    BY DEF TraceInv, LogInv, LogOK, Counts
<1>2. log' \in [Memory -> Entries] /\ End' \in Memory
    BY DEF TraceInv, LogInv, LogOK, Counts
<1>3. Show(log, End) = Ring(log, End) /\ Ring(log, End) \in Rings
    BY <1>1, ShownIs DEF Rings
<1>4. Show(log', End') = Ring(log', End') /\ Ring(log', End') \in Rings
    BY <1>2, ShownIs DEF Rings
<1> QED
    BY <1>1, <1>2, <1>3, <1>4 DEF Shown, RingOf, Counts

\* What is not a clear is added to the history.
LEMMA EventHistory ==
    ASSUME TraceInv, TraceInv', ClearInv, TraceEvent, Effect, Touches
    PROVE  [History!Next]_(History!vars)
<1> DEFINE old == Shown
           new == Shown'
<1>1. old \in Rings /\ new \in Rings /\ old = RingOf(Counts) /\ new = RingOf(Counts)'
    BY RingIsShown
<1>2. Clearing' = Clearing
    BY EventKeepsClears
<1>3. CASE log' = log /\ End' = End
  <2>1. new = old /\ alone' = alone
      BY <1>3, RingIsShown DEF Touches
  <2> QED
      BY <1>2, <2>1 DEF History!vars
<1>4. CASE ~(log' = log /\ End' = End)
  <2>1. alone' = {}
      BY <1>4 DEF Touches
  <2>2. SUFFICES History!Record(old, new) \/ History!Report(old, new)
      BY <1>2, <2>1 DEF History!Next, History!Add
  <2>3. ASSUME NEW entry \in Events, Writes(entry) PROVE History!Record(old, new)
    <3>1. new = Shift(old, entry)
        BY <1>1, <2>3 DEF Writes
    <3>2. old \in Rings /\ new \in Rings
        BY <1>1
    <3> HIDE DEF old, new
    <3> QED
        BY <3>1, <3>2, RecordIs
  <2>4. ASSUME NEW t \in Tasks, NEW order \in Seq(Tasks), Distinct(order), order # <<>>,
               Extended(RingOf(Counts), RingOf(Counts)', Listed(t, order), Len(order))
        PROVE  History!Report(old, new)
    <3>1. Extended(old, new, Listed(t, order), Len(order)) /\ old \in Rings /\ new \in Rings
        BY <1>1, <2>4
    <3> HIDE DEF old, new
    <3> QED
        BY <2>4, <3>1, ReportIs
  <2> HIDE DEF old, new
  <2> QED
      BY <1>4, <2>3, <2>4 DEF Effect
<1> QED
    BY <1>3, <1>4

\* Another entry becomes the oldest one, or not.
LEMMA TurnHistory ==
    ASSUME TraceInv, TraceInv', log' = log
    PROVE  /\ End' = End => Shown' = Shown
           /\ End' # End => History!Turned(Shown, Shown')
<1>1. /\ Shown = Ring(log, End) /\ Shown' = Ring(log, End')
      /\ log \in [Memory -> Entries] /\ End \in Memory /\ End' \in Memory
    BY RingIsShown
<1>2. CASE End' # End
  <2>1. \E i \in 2..LogSize :
            Ring(log, End') = SubSeq(Ring(log, End), i, LogSize)
                                  \o SubSeq(Ring(log, End), 1, i - 1)
      BY <1>1, <1>2, TurnIs
  <2> QED
      BY <1>1, <2>1 DEF History!Turned
<1> QED
    BY <1>1, <1>2

\* Every step is one of the history.
LEMMA HistoryStep ==
    ASSUME TraceInv, ClearInv, HookAtomic, [TraceNext]_traceAll
    PROVE  [History!Next]_(History!vars)
<1>0. TraceInv'
    BY TraceStepKeeps, StutterTrace
<1>1. /\ Shown = Ring(log, End) /\ Shown' = Ring(log', End')
      /\ log \in [Memory -> Entries] /\ End \in Memory /\ End' \in Memory
    BY <1>0, RingIsShown
<1>2. pc \in [Tasks -> Places] /\ loop \in [Tasks -> 0..LogSize] /\ AppTasks \subseteq Tasks
    BY ListNames DEF ClearInv
<1>3. CASE UNCHANGED traceAll
    BY <1>1, <1>3, StutterTrace DEF History!vars
<1>4. CASE TraceEvent /\ Touches
    BY <1>0, <1>4, EventStep, EventHistory
<1>5. ASSUME NEW p \in Memory, gyros_trace_seek(p), Touches
      PROVE  [History!Next]_(History!vars)
  <2>1. log' = log /\ pc' = pc /\ enabled = 0
      BY <1>5 DEF gyros_trace_seek
  <2>2. Clearing' = Clearing
      BY <2>1 DEF Clearing
  <2>3. CASE End' = End
      BY <1>0, <1>5, <2>1, <2>2, <2>3, TurnHistory DEF Touches, History!vars
  <2>4. CASE End' # End
    <3>1. alone' = {} /\ History!Turned(Shown, Shown')
        BY <1>0, <1>5, <2>1, <2>4, TurnHistory DEF Touches
    <3> QED
        BY <2>1, <2>2, <3>1 DEF History!Turn, History!Next
  <2> QED
      BY <2>3, <2>4
<1>6. ASSUME NEW t \in AppTasks, gyros_trace_clear(t), alone' = alone \cup {t}
      PROVE  History!Next
  <2>1. /\ log' = log /\ pos' = pos /\ pc[t] = "task" /\ enabled = 0 /\ t \in Tasks
        /\ pc' = [pc EXCEPT ![t] = "trace_clear"]
      BY <1>2, <1>6 DEF gyros_trace_clear, Calls, Goto, logVars
  <2>2. t \notin Clearing /\ Clearing' = Clearing \cup {t}
      BY <1>2, <2>1 DEF Clearing
  <2>3. Shown' = Shown
      BY <1>0, <1>6, <2>1, ClearStep, TurnHistory
  <2>4. History!BeginClear(t)
      BY <1>6, <2>1, <2>2, <2>3 DEF History!BeginClear
  <2> QED
      BY <2>1, <2>4 DEF History!Next
<1>7. ASSUME NEW t \in AppTasks, ClearEntry(t), alone' = alone
      PROVE  History!Next
  <2>1. /\ log' = [log EXCEPT ![loop[t]] = Empty] /\ pos' = pos /\ pc' = pc
        /\ pc[t] = "trace_clear" /\ loop[t] < LogSize /\ t \in Tasks
      BY <1>2, <1>7 DEF ClearEntry, Continues
  <2>2. Clearing' = Clearing /\ Clearing # {}
      BY <2>1 DEF Clearing
  <2>3. loop[t] \in Memory /\ End' = End
      BY <1>2, <1>7, <2>1, ClearStep, LogSizeIs DEF Memory
  <2>4. \E i \in 1..LogSize : Shown' = [Shown EXCEPT ![i] = Empty]
    <3>1. \E i \in 1..LogSize :
              Ring([log EXCEPT ![loop[t]] = Empty], End) = [Ring(log, End) EXCEPT ![i] = Empty]
        BY <1>1, <2>3, EraseIs
    <3>2. Shown' = Ring([log EXCEPT ![loop[t]] = Empty], End)
        BY <1>1, <2>1, <2>3
    <3> QED
        BY <1>1, <3>1, <3>2
  <2>5. History!Erase
      BY <1>7, <2>2, <2>4 DEF History!Erase
  <2> QED
      BY <2>5 DEF History!Next
<1>8. ASSUME NEW t \in AppTasks, ClearReturn(t), alone' = alone \ {t}
      PROVE  History!Next
  <2>1. /\ log' = log /\ pc' = [pc EXCEPT ![t] = "task"] /\ loop[t] = LogSize
        /\ pc[t] = "trace_clear" /\ t \in Tasks
      BY <1>2, <1>8 DEF ClearReturn, Continues, Goto
  <2>2. t \in Clearing /\ Clearing' = Clearing \ {t}
      BY <1>2, <2>1 DEF Clearing
  <2>3. t \in alone => Shown' = History!Blank
    <3>1. \A p \in Memory : p < LogSize
        BY LogSizeIs DEF Memory
    <3>2. t \in alone => \A p \in Memory : log[p] = Empty
        BY <2>1, <3>1 DEF ClearInv
    <3>3. t \in alone => Ring(log, End') = [i \in 1..LogSize |-> Empty]
        BY <1>1, <3>2, EmptyRing
    <3> QED
        BY <1>1, <2>1, <3>3 DEF History!Blank
  <2>4. Shown' = Shown \/ History!Turned(Shown, Shown')
      BY <1>0, <2>1, TurnHistory
  <2>5. History!EndClear(t)
      BY <1>8, <2>2, <2>3, <2>4 DEF History!EndClear
  <2> QED
      BY <2>1, <2>5 DEF History!Next
<1> QED
    BY <1>3, <1>4, <1>5, <1>6, <1>7, <1>8 DEF TraceNext, Memory

LEMMA InitHistory == TraceStart => Shown = History!Blank /\ Clearing = {} /\ alone = {}
<1> SUFFICES ASSUME TraceStart PROVE Shown = History!Blank /\ Clearing = {} /\ alone = {}
    OBVIOUS
<1>1. TraceInv
    BY InitTrace
<1>2. Shown = Ring(log, End) /\ End \in Memory
    BY <1>1, ShownIsRing DEF TraceInv, LogInv, LogOK, RingOf, Counts
<1>3. \A p \in Memory : log[p] = Empty
    BY DEF TraceStart, TraceInit, Memory
<1>4. Shown = History!Blank
    BY <1>2, <1>3, EmptyRing DEF History!Blank
<1>5. Clearing = {} /\ alone = {}
    BY DEF TraceStart, TraceInit, Clearing
<1> QED
    BY <1>4, <1>5

\* Where the exception that switches tasks is not interrupted, whoever goes
\* through the log is shown the last events, in the order in which they
\* happened, also while tasks are clearing it, with or without a common loop
\* variable: for any tasks and any size of the log (src/trace.c).
THEOREM TraceRefined ==
    ASSUME HookAtomic
    PROVE  TraceSpec => ImplementsHistory
<1>1. TraceAllInv /\ [TraceNext]_traceAll => TraceAllInv'
    BY TraceInductive
<1>2. TraceAllInv /\ [TraceNext]_traceAll => [History!Next]_(History!vars)
    BY HistoryStep DEF TraceAllInv
<1>3. TraceStart => TraceAllInv
    BY InitTrace DEF TraceAllInv
<1> QED
    BY <1>1, <1>2, <1>3, InitHistory, PTL DEF TraceSpec, ImplementsHistory, History!Spec

=============================================================================
