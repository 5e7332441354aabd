------------------------- MODULE GyrosKernelProofs -------------------------
(***************************************************************************)
(* What the list operators do to lists of any length, and what each        *)
(* internal kernel function preserves, for every kernel state: the lists   *)
(* stay duplicate-free and sorted, and agree with main_list.               *)
(***************************************************************************)
EXTENDS GyrosKernel, SequenceTheorems, WellFoundedInduction, TLAPS

\* A non-empty set of numbers has a least element, and Min returns it.
LEMMA MinOfNat ==
    ASSUME NEW S, S \subseteq Nat, S # {}
    PROVE  /\ Min(S) \in S
           /\ \A x \in S : Min(S) <= x
<1>1. \E x \in S : \A y \in S : ~(<<y, x>> \in OpToRel(<, Nat))
    BY NatLessThanWellFounded, WFMin
<1>2. ASSUME NEW x \in Nat, NEW y \in Nat, y < x
      PROVE  <<y, x>> \in OpToRel(<, Nat)
  <2>1. <<y, x>> \in Nat \X Nat
    OBVIOUS
  <2>2. <<y, x>>[1] = y /\ <<y, x>>[2] = x
    OBVIOUS
  <2> QED
    BY <1>2, <2>1, <2>2, Zenon DEF OpToRel
<1>3. \E x \in S : \A y \in S : ~(y < x)
    BY <1>1, <1>2, Zenon
<1>4. \E x \in S : \A y \in S : x <= y
    BY <1>3
<1> QED
    BY <1>4 DEF Min

\* Taking a node out keeps the order of the others.
LEMMA RemoveAtProperties ==
    ASSUME NEW T, NEW s \in Seq(T), NEW i \in 1..Len(s)
    PROVE  /\ RemoveAt(s, i) \in Seq(T)
           /\ Len(RemoveAt(s, i)) = Len(s) - 1
           /\ \A j \in 1..Len(s) - 1 :
                  RemoveAt(s, i)[j] = IF j < i THEN s[j] ELSE s[j + 1]
<1> DEFINE front == SubSeq(s, 1, i - 1)
           back == SubSeq(s, i + 1, Len(s))
<1>1. /\ front \in Seq(T) /\ Len(front) = i - 1
      /\ \A j \in 1..i - 1 : front[j] = s[j]
    BY SubSeqProperties
<1>2. /\ back \in Seq(T) /\ Len(back) = Len(s) - i
      /\ \A j \in 1..Len(s) - i : back[j] = s[i + j]
    BY SubSeqProperties
<1> HIDE DEF front, back
<1>3. /\ front \o back \in Seq(T)
      /\ Len(front \o back) = Len(s) - 1
      /\ \A j \in 1..Len(s) - 1 :
             (front \o back)[j] = IF j <= i - 1 THEN front[j] ELSE back[j - (i - 1)]
    BY <1>1, <1>2, ConcatProperties
<1>4. ASSUME NEW j \in 1..Len(s) - 1
      PROVE  (front \o back)[j] = IF j < i THEN s[j] ELSE s[j + 1]
  <2>1. CASE j < i
    BY <1>1, <1>3, <2>1
  <2>2. CASE ~(j < i)
    <3>1. j - (i - 1) \in 1..Len(s) - i /\ i + (j - (i - 1)) = j + 1
        BY <2>2
    <3> QED
        BY <1>2, <1>3, <2>2, <3>1
  <2> QED
    BY <2>1, <2>2
<1>5. RemoveAt(s, i) = front \o back
    BY DEF RemoveAt, front, back
<1> QED
    BY <1>3, <1>4, <1>5

\* Putting a node in keeps the order of the others.
LEMMA InsertAtProperties ==
    ASSUME NEW T, NEW s \in Seq(T), NEW i \in 1..Len(s) + 1, NEW e \in T
    PROVE  /\ InsertAt(s, i, e) \in Seq(T)
           /\ Len(InsertAt(s, i, e)) = Len(s) + 1
           /\ \A j \in 1..Len(s) + 1 :
                  InsertAt(s, i, e)[j] = IF j < i THEN s[j]
                                         ELSE IF j = i THEN e ELSE s[j - 1]
<1> DEFINE front == SubSeq(s, 1, i - 1)
           back == SubSeq(s, i, Len(s))
<1>1. /\ front \in Seq(T) /\ Len(front) = i - 1
      /\ \A j \in 1..i - 1 : front[j] = s[j]
    BY SubSeqProperties
<1>2. /\ back \in Seq(T) /\ Len(back) = Len(s) - i + 1
      /\ \A j \in 1..Len(s) - i + 1 : back[j] = s[i + j - 1]
    BY SubSeqProperties
<1>3. InsertAt(s, i, e) = front \o <<e>> \o back
    BY DEF InsertAt
<1> HIDE DEF front, back
<1> QED
    BY <1>1, <1>2, <1>3

-----------------------------------------------------------------------------
\* gyros__list_remove takes exactly the node out of a list, wherever it is,
\* and the list stays duplicate-free and ordered.
LEMMA ListRemoveProperties ==
    ASSUME NEW T, NEW s \in Seq(T), Distinct(s), NEW x
    PROVE  /\ ListRemove(s, x) \in Seq(T)
           /\ Distinct(ListRemove(s, x))
           /\ Elements(ListRemove(s, x)) = Elements(s) \ {x}
           /\ \A key : Falling(s, key) => Falling(ListRemove(s, x), key)
<1>1. CASE ~(\E i \in 1..Len(s) : s[i] = x)
  <2>1. ListRemove(s, x) = s
    BY <1>1 DEF ListRemove, RemoveFirst
  <2>2. x \notin Elements(s)
    BY <1>1 DEF Elements, ToSet
  <2> QED
    BY <2>1, <2>2
<1>2. CASE \E i \in 1..Len(s) : s[i] = x
  <2> DEFINE hits == {i \in 1..Len(s) : s[i] = x}
             p == Min(hits)
             r == RemoveAt(s, p)
  <2>1. p \in hits
    <3>1. hits \subseteq Nat /\ hits # {}
      BY <1>2
    <3> HIDE DEF hits
    <3> QED
      BY <3>1, MinOfNat
  <2>2. p \in 1..Len(s) /\ s[p] = x
    BY <2>1
  <2>3. ListRemove(s, x) = r
    BY <1>2 DEF ListRemove, RemoveFirst, SelectInSeq
  <2> HIDE DEF hits, p
  <2>4. /\ r \in Seq(T)
        /\ Len(r) = Len(s) - 1
        /\ \A j \in 1..Len(s) - 1 : r[j] = IF j < p THEN s[j] ELSE s[j + 1]
    BY <2>2, RemoveAtProperties
  <2> HIDE DEF r
  <2> DEFINE old == [j \in 1..Len(s) - 1 |-> IF j < p THEN j ELSE j + 1]
  <2>8. \A j \in 1..Len(r) : old[j] \in 1..Len(s) /\ old[j] # p /\ r[j] = s[old[j]]
    BY <2>2, <2>4
  <2>9. \A i, j \in 1..Len(r) : i < j => old[i] < old[j]
    BY <2>2, <2>4
  <2> HIDE DEF old
  <2>5. Distinct(r)
    <3> SUFFICES ASSUME NEW i \in 1..Len(r), NEW j \in 1..Len(r), i < j
                 PROVE  r[i] # r[j]
      BY DEF Distinct
    <3>1. s[old[i]] # s[old[j]]
      BY <2>8, <2>9 DEF Distinct
    <3> QED
      BY <2>8, <3>1
  <2>6. Elements(r) = Elements(s) \ {x}
    <3>1. ASSUME NEW y \in Elements(r) PROVE y \in Elements(s) \ {x}
      <4>1. PICK j \in 1..Len(r) : r[j] = y
        BY <2>4, <3>1 DEF Elements, ToSet
      <4>2. old[j] < p \/ p < old[j]
        BY <2>2, <2>8
      <4>3. s[old[j]] # s[p]
        BY <2>2, <2>8, <4>2 DEF Distinct
      <4> QED
        BY <2>2, <2>8, <4>1, <4>3 DEF Elements, ToSet
    <3>2. ASSUME NEW y \in Elements(s) \ {x} PROVE y \in Elements(r)
      <4>1. PICK i \in 1..Len(s) : s[i] = y
        BY <3>2 DEF Elements, ToSet
      <4>2. CASE i < p
        BY <2>2, <2>4, <4>1, <4>2 DEF Elements, ToSet
      <4>3. CASE i > p
        <5>1. i - 1 \in 1..Len(r) /\ r[i - 1] = y
          BY <2>2, <2>4, <4>1, <4>3
        <5> QED
          BY <5>1, <2>4 DEF Elements, ToSet
      <4>4. i # p
        BY <2>2, <3>2, <4>1
      <4> QED
        BY <2>2, <4>2, <4>3, <4>4
    <3> QED
      BY <3>1, <3>2
  <2>7. ASSUME NEW key, Falling(s, key) PROVE Falling(r, key)
    BY <2>4, <2>7, <2>8, <2>9 DEF Falling
  <2> QED
    BY <2>3, <2>5, <2>4, <2>6, <2>7
<1> QED
    BY <1>1, <1>2

\* Removing another node leaves the head where it is.
LEMMA ListRemoveHead ==
    ASSUME NEW T, NEW s \in Seq(T), s # <<>>, NEW x, s[1] # x
    PROVE  ListRemove(s, x) # <<>> /\ Head(ListRemove(s, x)) = s[1]
<1>1. CASE ~(\E i \in 1..Len(s) : s[i] = x)
    BY <1>1 DEF ListRemove, RemoveFirst
<1>2. CASE \E i \in 1..Len(s) : s[i] = x
  <2> DEFINE hits == {i \in 1..Len(s) : s[i] = x}
             p == Min(hits)
             r == RemoveAt(s, p)
  <2>1. p \in hits
    <3>1. hits \subseteq Nat /\ hits # {}
      BY <1>2
    <3> HIDE DEF hits
    <3> QED
      BY <3>1, MinOfNat
  <2>2. p \in 1..Len(s) /\ p # 1
    BY <2>1
  <2>3. ListRemove(s, x) = r
    BY <1>2 DEF ListRemove, RemoveFirst, SelectInSeq
  <2> HIDE DEF hits, p
  <2>4. /\ r \in Seq(T)
        /\ Len(r) = Len(s) - 1
        /\ \A j \in 1..Len(s) - 1 : r[j] = IF j < p THEN s[j] ELSE s[j + 1]
    BY <2>2, RemoveAtProperties
  <2> HIDE DEF r
  <2>5. r[1] = s[1] /\ Len(r) > 0
    BY <2>2, <2>4
  <2> QED
    BY <2>3, <2>4, <2>5
<1> QED
    BY <1>1, <1>2

\* gyros__list_insert_before adds exactly the new node to a list it is not in.
LEMMA ListInsertProperties ==
    ASSUME NEW T, NEW s \in Seq(T), Distinct(s), NEW x \in T, x \notin Elements(s),
           NEW i \in 1..Len(s) + 1
    PROVE  /\ ListInsertBefore(s, i, x) \in Seq(T)
           /\ Distinct(ListInsertBefore(s, i, x))
           /\ Elements(ListInsertBefore(s, i, x)) = Elements(s) \cup {x}
<1> DEFINE r == ListInsertBefore(s, i, x)
<1>1. /\ r \in Seq(T)
      /\ Len(r) = Len(s) + 1
      /\ \A j \in 1..Len(s) + 1 :
             r[j] = IF j < i THEN s[j] ELSE IF j = i THEN x ELSE s[j - 1]
    BY InsertAtProperties DEF ListInsertBefore
<1>2. \A j \in 1..Len(s) : s[j] # x
    BY DEF Elements, ToSet
<1> HIDE DEF r
<1>3. Distinct(r)
  <2> SUFFICES ASSUME NEW a \in 1..Len(r), NEW b \in 1..Len(r), a < b
               PROVE  r[a] # r[b]
    BY <1>1 DEF Distinct
  <2> DEFINE old(j) == IF j < i THEN j ELSE j - 1
  <2>1. CASE a = i
    <3>1. r[a] = x /\ r[b] = s[b - 1] /\ b - 1 \in 1..Len(s)
      BY <1>1, <2>1
    <3> QED
      BY <1>2, <3>1
  <2>2. CASE b = i
    <3>1. r[b] = x /\ r[a] = s[a] /\ a \in 1..Len(s)
      BY <1>1, <2>2
    <3> QED
      BY <1>2, <3>1
  <2>3. CASE a # i /\ b # i
    <3>1. /\ r[a] = s[old(a)] /\ old(a) \in 1..Len(s)
          /\ r[b] = s[old(b)] /\ old(b) \in 1..Len(s)
          /\ old(a) < old(b)
      BY <1>1, <2>3
    <3> HIDE DEF old
    <3> QED
      BY <3>1 DEF Distinct
  <2> QED
    BY <2>1, <2>2, <2>3
<1>4. Elements(r) = Elements(s) \cup {x}
  <2>1. ASSUME NEW y \in Elements(r) PROVE y \in Elements(s) \cup {x}
    BY <1>1, <2>1 DEF Elements, ToSet
  <2>2. x \in Elements(r)
    BY <1>1 DEF Elements, ToSet
  <2>3. ASSUME NEW y \in Elements(s) PROVE y \in Elements(r)
    <3>1. PICK j \in 1..Len(s) : s[j] = y
      BY <2>3 DEF Elements, ToSet
    <3>2. CASE j < i
      BY <1>1, <3>1, <3>2 DEF Elements, ToSet
    <3>3. CASE ~(j < i)
      <4>1. j + 1 \in 1..Len(r) /\ r[j + 1] = y
        BY <1>1, <3>1, <3>3
      <4> QED
        BY <4>1, <1>1 DEF Elements, ToSet
    <3> QED
      BY <3>2, <3>3
  <2> QED
    BY <2>1, <2>2, <2>3
<1> QED
    BY <1>1, <1>3, <1>4 DEF r

\* The loop that looks for a position stops within the list or at its head.
LEMMA FirstPositionProperties ==
    ASSUME NEW T, NEW s \in Seq(T), NEW hits, hits \subseteq 1..Len(s)
    PROVE  /\ FirstPosition(s, hits) \in 1..Len(s) + 1
           /\ \A j \in hits : FirstPosition(s, hits) <= j
           /\ FirstPosition(s, hits) # Len(s) + 1 => FirstPosition(s, hits) \in hits
<1>1. CASE hits = {}
    BY <1>1 DEF FirstPosition
<1>2. CASE hits # {}
  <2>1. hits \subseteq Nat
    OBVIOUS
  <2>2. Min(hits) \in hits /\ \A x \in hits : Min(hits) <= x
    BY <1>2, <2>1, MinOfNat
  <2>3. FirstPosition(s, hits) = Min(hits)
    BY <1>2 DEF FirstPosition
  <2>4. Min(hits) \in 1..Len(s)
    BY <2>2
  <2> QED
    BY <2>2, <2>3, <2>4
<1> QED
    BY <1>1, <1>2

\* Inserting before the first node with a smaller key keeps the keys falling.
LEMMA InsertKeepsFalling ==
    ASSUME NEW T, NEW s \in Seq(T), NEW x \in T, NEW key \in [T -> Int],
           Falling(s, key)
    PROVE  LET lower == {i \in 1..Len(s) : key[x] > key[s[i]]}
           IN  Falling(ListInsertBefore(s, FirstPosition(s, lower), x), key)
<1> DEFINE lower == {i \in 1..Len(s) : key[x] > key[s[i]]}
           p == FirstPosition(s, lower)
           r == ListInsertBefore(s, p, x)
<1>1. /\ p \in 1..Len(s) + 1
      /\ \A j \in lower : p <= j
      /\ p # Len(s) + 1 => p \in lower
    BY FirstPositionProperties
<1>2. \A j \in 1..Len(s) : j < p => key[s[j]] >= key[x]
    BY <1>1
<1>3. \A j \in 1..Len(s) : j >= p => key[x] >= key[s[j]]
  <2> SUFFICES ASSUME NEW j \in 1..Len(s), j >= p PROVE key[x] >= key[s[j]]
    OBVIOUS
  <2>1. p \in 1..Len(s) /\ key[x] > key[s[p]]
    BY <1>1
  <2>2. key[s[p]] >= key[s[j]]
    BY <2>1 DEF Falling
  <2> QED
    BY <2>1, <2>2
<1> HIDE DEF lower, p
<1>4. /\ r \in Seq(T)
      /\ Len(r) = Len(s) + 1
      /\ \A j \in 1..Len(s) + 1 :
             r[j] = IF j < p THEN s[j] ELSE IF j = p THEN x ELSE s[j - 1]
    BY <1>1, InsertAtProperties DEF ListInsertBefore
<1> HIDE DEF r
<1>5. Falling(r, key)
  <2> SUFFICES ASSUME NEW a \in 1..Len(r), NEW b \in 1..Len(r), a < b
               PROVE  key[r[a]] >= key[r[b]]
    BY <1>4 DEF Falling
  <2> DEFINE old(j) == IF j < p THEN j ELSE j - 1
  <2>1. CASE a = p
    <3>1. r[a] = x /\ r[b] = s[b - 1] /\ b - 1 \in 1..Len(s) /\ b - 1 >= p
      BY <1>1, <1>4, <2>1
    <3> QED
      BY <1>3, <3>1
  <2>2. CASE b = p
    <3>1. r[b] = x /\ r[a] = s[a] /\ a \in 1..Len(s) /\ a < p
      BY <1>1, <1>4, <2>2
    <3> QED
      BY <1>2, <3>1
  <2>3. CASE a # p /\ b # p
    <3>1. /\ r[a] = s[old(a)] /\ old(a) \in 1..Len(s)
          /\ r[b] = s[old(b)] /\ old(b) \in 1..Len(s)
          /\ old(a) < old(b)
      <4>1. /\ Len(s) \in Nat /\ p \in Int
            /\ a \in 1..Len(s) + 1 /\ b \in 1..Len(s) + 1
        BY <1>1, <1>4
      <4>2. /\ old(a) \in 1..Len(s) /\ old(b) \in 1..Len(s)
            /\ old(a) < old(b)
        BY <1>1, <2>3, <4>1
      <4>3. r[a] = s[old(a)] /\ r[b] = s[old(b)]
        BY <1>4, <2>3, <4>1
      <4> QED
        BY <4>2, <4>3
    <3> HIDE DEF old
    <3> QED
      BY <3>1 DEF Falling
  <2> QED
    BY <2>1, <2>2, <2>3
<1> QED
    BY <1>5 DEF r, p, lower

-----------------------------------------------------------------------------
\* Induction over the natural numbers, for a set instead of a predicate.
LEMMA SetInduction ==
    ASSUME NEW S, 0 \in S, \A n \in Nat : n \in S => n + 1 \in S
    PROVE  Nat \subseteq S
<1> DEFINE C == Nat \ S
<1> SUFFICES ASSUME C # {} PROVE FALSE
    OBVIOUS
<1>1. C \subseteq Nat
    OBVIOUS
<1> DEFINE m == Min(C)
<1>2. m \in C /\ \A x \in C : m <= x
  <2> HIDE DEF C
  <2> QED
    BY <1>1, MinOfNat
<1> HIDE DEF m
<1>3. m # 0 /\ m \in Nat
    BY <1>2
<1>4. m - 1 \in Nat /\ m - 1 \notin C
    BY <1>2, <1>3
<1>5. m - 1 \in S
    BY <1>4
<1> QED
    BY <1>2, <1>3, <1>4, <1>5

LEMMA ElementsOfSeq ==
    ASSUME NEW T, NEW s \in Seq(T)
    PROVE  /\ Elements(s) \subseteq T
           /\ s # <<>> => s[1] \in Elements(s) /\ Head(s) = s[1]
           /\ \A x \in Elements(s) : s # <<>>
    BY DEF Elements, ToSet

-----------------------------------------------------------------------------
(* The nodes of a list that are kept, and who precedes whom.               *)

\* Concatenation is associative.  IsConcat names a concatenation, so that the
\* fact can be cited without its terms being expanded.
IsConcat(c, a, b) == c = a \o b

LEMMA ConcatThree ==
    ASSUME NEW T, NEW a \in Seq(T), NEW b \in Seq(T), NEW c \in Seq(T),
           NEW d, NEW e, NEW f, IsConcat(d, a, b), IsConcat(e, b, c), IsConcat(f, d, c)
    PROVE  IsConcat(f, a, e)
<1>1. (a \o b) \o c = a \o (b \o c)
  <2>1. a \in Seq(T) /\ b \in Seq(T) /\ c \in Seq(T)
    OBVIOUS
  <2> QED
    BY ONLY <2>1
<1> QED
    BY ONLY IsConcat(d, a, b), IsConcat(e, b, c), IsConcat(f, d, c), <1>1, Zenon
       DEF IsConcat

\* f computes Keep(s, nodes) for the first n nodes of s.
KeepRun(f, s, nodes, n) ==
    f = [i \in 0..n |-> IF i = 0 THEN <<>>
                        ELSE IF s[i] \in nodes THEN Append(f[i - 1], s[i])
                        ELSE f[i - 1]]

\* The recursive function in Keep exists, by induction over its argument.
LEMMA KeepRunExists ==
    ASSUME NEW s, NEW nodes
    PROVE  \A n \in Nat : \E f : KeepRun(f, s, nodes, n)
<1> DEFINE S == {n \in Nat : \E f : KeepRun(f, s, nodes, n)}
           Step(e, i) == IF s[i] \in nodes THEN Append(e, s[i]) ELSE e
<1>1. 0 \in S
  <2>1. KeepRun([i \in 0..0 |-> <<>>], s, nodes, 0)
    BY DEF KeepRun
  <2> QED
    BY <2>1
<1>2. ASSUME NEW n \in Nat, n \in S PROVE n + 1 \in S
  <2>1. PICK f : f = [i \in 0..n |-> IF i = 0 THEN <<>> ELSE Step(f[i - 1], i)]
    BY <1>2 DEF KeepRun
  <2> HIDE DEF Step
  <2> DEFINE g == [i \in 0..n + 1 |-> IF i = n + 1 THEN Step(f[n], n + 1) ELSE f[i]]
             h == [i \in 0..n + 1 |-> IF i = 0 THEN <<>> ELSE Step(g[i - 1], i)]
  <2>2. ASSUME NEW i \in 0..n + 1 PROVE g[i] = h[i]
    <3>1. CASE i = n + 1
      BY <3>1
    <3>2. CASE i # n + 1 /\ i = 0
      BY <2>1, <3>2
    <3>3. CASE i # n + 1 /\ i # 0
      <4>1. i \in 0..n /\ i - 1 \in 0..n /\ i - 1 # n + 1
        BY <3>3
      <4>2. g[i] = f[i] /\ g[i - 1] = f[i - 1]
        BY <4>1, <3>3
      <4>3. f[i] = Step(f[i - 1], i)
        BY <2>1, <3>3, <4>1
      <4> QED
        BY <3>3, <4>2, <4>3
    <3> QED
      BY <3>1, <3>2, <3>3
  <2>3. g = h
    BY <2>2
  <2>4. g = [i \in 0..n + 1 |-> IF i = 0 THEN <<>> ELSE Step(g[i - 1], i)]
    BY <2>3
  <2>5. KeepRun(g, s, nodes, n + 1)
    BY <2>4 DEF KeepRun, Step
  <2> QED
    BY <2>5
<1>3. Nat \subseteq S
  <2> HIDE DEF S
  <2> QED
    BY <1>1, <1>2, SetInduction
<1> QED
    BY <1>3

\* Keep(s, nodes) node by node.
LEMMA KeepUnfolds ==
    ASSUME NEW s, Len(s) \in Nat, NEW nodes
    PROVE  \E f : /\ f[0] = <<>>
                  /\ \A i \in 1..Len(s) : f[i] =
                         IF s[i] \in nodes THEN Append(f[i - 1], s[i]) ELSE f[i - 1]
                  /\ Keep(s, nodes) = f[Len(s)]
<1> DEFINE f == CHOOSE g : KeepRun(g, s, nodes, Len(s))
<1>1. KeepRun(f, s, nodes, Len(s))
    BY KeepRunExists
<1>2. Keep(s, nodes) = f[Len(s)]
    BY DEF Keep, KeepRun
<1> HIDE DEF f
<1>3. f[0] = <<>>
    BY <1>1 DEF KeepRun
<1>4. ASSUME NEW i \in 1..Len(s)
      PROVE  f[i] = IF s[i] \in nodes THEN Append(f[i - 1], s[i]) ELSE f[i - 1]
  <2>1. i \in 0..Len(s) /\ i # 0
    OBVIOUS
  <2>2. f[i] = IF i = 0 THEN <<>>
               ELSE IF s[i] \in nodes THEN Append(f[i - 1], s[i]) ELSE f[i - 1]
    BY <1>1, <2>1, Zenon DEF KeepRun
  <2> QED
    BY <2>1, <2>2, Zenon
<1> QED
    BY <1>2, <1>3, <1>4

\* Keep, one node after the other.
LEMMA KeepAppend ==
    ASSUME NEW T, NEW s \in Seq(T), NEW x \in T, NEW nodes
    PROVE  Keep(Append(s, x), nodes) =
               IF x \in nodes THEN Append(Keep(s, nodes), x) ELSE Keep(s, nodes)
<1> DEFINE a == Append(s, x)
           m == Len(s)
<1>1. m \in Nat /\ Len(a) = m + 1 /\ a[m + 1] = x /\ \A i \in 1..m : a[i] = s[i]
    OBVIOUS
<1> HIDE DEF a
<1>2. PICK f : /\ f[0] = <<>>
               /\ \A i \in 1..m : f[i] =
                      IF s[i] \in nodes THEN Append(f[i - 1], s[i]) ELSE f[i - 1]
               /\ Keep(s, nodes) = f[m]
    BY <1>1, KeepUnfolds
<1>3. PICK g : /\ g[0] = <<>>
               /\ \A i \in 1..m + 1 : g[i] =
                      IF a[i] \in nodes THEN Append(g[i - 1], a[i]) ELSE g[i - 1]
               /\ Keep(a, nodes) = g[m + 1]
  <2>1. Len(a) \in Nat /\ Len(a) = m + 1
    BY <1>1
  <2>2. PICK g : /\ g[0] = <<>>
                 /\ \A i \in 1..Len(a) : g[i] =
                        IF a[i] \in nodes THEN Append(g[i - 1], a[i]) ELSE g[i - 1]
                 /\ Keep(a, nodes) = g[Len(a)]
    BY <2>1, KeepUnfolds
  <2> QED
    BY <2>1, <2>2
<1> HIDE DEF m
<1> DEFINE S == {n \in Nat : n <= m => g[n] = f[n]}
<1>4. 0 \in S
    BY <1>2, <1>3
<1>5. ASSUME NEW n \in Nat, n \in S PROVE n + 1 \in S
  <2> SUFFICES ASSUME n + 1 <= m PROVE g[n + 1] = f[n + 1]
    OBVIOUS
  <2>1. n + 1 \in 1..m /\ n + 1 \in 1..m + 1 /\ (n + 1) - 1 = n /\ g[n] = f[n]
    BY <1>1, <1>5
  <2>2. a[n + 1] = s[n + 1]
    BY <1>1, <2>1
  <2> QED
    BY <1>2, <1>3, <2>1, <2>2
<1>6. g[m] = f[m]
  <2> HIDE DEF S
  <2>1. Nat \subseteq S
    BY <1>4, <1>5, SetInduction
  <2> QED
    BY <1>1, <2>1 DEF S
<1>7. m + 1 \in 1..m + 1 /\ (m + 1) - 1 = m
    BY <1>1
<1>8. g[m + 1] = IF x \in nodes THEN Append(g[m], x) ELSE g[m]
    BY <1>1, <1>3, <1>7
<1> QED
    BY <1>2, <1>3, <1>6, <1>8 DEF a

\* Nothing is kept of an empty list.
LEMMA KeepEmpty ==
    ASSUME NEW nodes
    PROVE  Keep(<<>>, nodes) = <<>>
<1>1. Len(<<>>) = 0
    OBVIOUS
<1>2. PICK f : f[0] = <<>> /\ Keep(<<>>, nodes) = f[Len(<<>>)]
    BY <1>1, KeepUnfolds
<1> QED
    BY <1>1, <1>2

\* Induction over the length of a sequence, for a set instead of a predicate.
LEMMA AppendInduction ==
    ASSUME NEW T, NEW P, <<>> \in P,
           \A s \in Seq(T), x \in T : s \in P => Append(s, x) \in P
    PROVE  Seq(T) \subseteq P
<1> DEFINE S == {n \in Nat : \A s \in Seq(T) : Len(s) = n => s \in P}
<1>1. 0 \in S
  <2>1. \A s \in Seq(T) : Len(s) = 0 => s = <<>>
    OBVIOUS
  <2> QED
    BY <2>1
<1>2. ASSUME NEW n \in Nat, n \in S PROVE n + 1 \in S
  <2> SUFFICES ASSUME NEW s \in Seq(T), Len(s) = n + 1 PROVE s \in P
    OBVIOUS
  <2> DEFINE f == SubSeq(s, 1, n)
             x == s[n + 1]
  <2>1. x \in T
    OBVIOUS
  <2>2. f \in Seq(T) /\ Len(f) = n /\ \A i \in 1..n : f[i] = s[i]
    OBVIOUS
  <2> HIDE DEF f
  <2>3. Append(f, x) = s
    BY <2>1, <2>2
  <2>4. f \in P
    BY <1>2, <2>2
  <2> QED
    BY <2>1, <2>2, <2>3, <2>4
<1>3. Nat \subseteq S
  <2> HIDE DEF S
  <2> QED
    BY <1>1, <1>2, SetInduction
<1> QED
    BY <1>3

\* One node more.
LEMMA ElementsAppend ==
    ASSUME NEW T, NEW s \in Seq(T), NEW x \in T
    PROVE  Elements(Append(s, x)) = Elements(s) \cup {x}
<1> DEFINE a == Append(s, x)
<1>1. /\ a \in Seq(T) /\ Len(a) = Len(s) + 1 /\ a[Len(s) + 1] = x
      /\ \A i \in 1..Len(s) : a[i] = s[i]
    OBVIOUS
<1>2. Len(s) \in Nat
    OBVIOUS
<1> HIDE DEF a
<1>3. ASSUME NEW y \in Elements(a) PROVE y \in Elements(s) \cup {x}
  <2>1. PICK i \in 1..Len(s) + 1 : a[i] = y
    BY <1>1, <1>3 DEF Elements, ToSet
  <2> QED
    BY <1>1, <1>2, <2>1 DEF Elements, ToSet
<1>4. ASSUME NEW y \in Elements(s) PROVE y \in Elements(a)
  <2>1. PICK i \in 1..Len(s) : s[i] = y
    BY <1>4 DEF Elements, ToSet
  <2>2. i \in 1..Len(a) /\ a[i] = y
    BY <1>1, <1>2, <2>1
  <2> QED
    BY <2>2 DEF Elements, ToSet
<1>5. x \in Elements(a)
  <2>1. Len(s) + 1 \in 1..Len(a)
    BY <1>1, <1>2
  <2> QED
    BY <1>1, <2>1 DEF Elements, ToSet
<1> QED
    BY <1>3, <1>4, <1>5 DEF a

LEMMA ElementsEmpty == Elements(<<>>) = {}
    BY DEF Elements, ToSet

\* x stands before y after a node has been appended.
LEMMA PrecedesAppend ==
    ASSUME NEW T, NEW s \in Seq(T), NEW z \in T, NEW x, NEW y
    PROVE  Precedes(Append(s, z), x, y) <=>
               Precedes(s, x, y) \/ (y = z /\ x \in Elements(s))
<1> DEFINE a == Append(s, z)
           m == Len(s)
<1>1. m \in Nat /\ Len(a) = m + 1 /\ a[m + 1] = z /\ \A i \in 1..m : a[i] = s[i]
    OBVIOUS
<1> HIDE DEF a, m
<1>2. ASSUME Precedes(a, x, y)
      PROVE  Precedes(s, x, y) \/ (y = z /\ x \in Elements(s))
  <2>1. PICK i \in 1..m + 1, j \in 1..m + 1 : i < j /\ a[i] = x /\ a[j] = y
    BY <1>1, <1>2 DEF Precedes
  <2>2. i \in 1..m /\ s[i] = x
    BY <1>1, <2>1
  <2>3. CASE j = m + 1
    BY <1>1, <2>1, <2>2, <2>3 DEF Elements, ToSet, m
  <2>4. CASE j # m + 1
    <3>1. j \in 1..m /\ s[j] = y
      BY <1>1, <2>1, <2>4
    <3> QED
      BY <2>1, <2>2, <3>1 DEF Precedes, m
  <2> QED
    BY <2>3, <2>4
<1>3. ASSUME Precedes(s, x, y) PROVE Precedes(a, x, y)
  <2>1. PICK i \in 1..m, j \in 1..m : i < j /\ s[i] = x /\ s[j] = y
    BY <1>3 DEF Precedes, m
  <2>2. i \in 1..Len(a) /\ j \in 1..Len(a) /\ a[i] = x /\ a[j] = y
    BY <1>1, <2>1
  <2> QED
    BY <2>1, <2>2 DEF Precedes
<1>4. ASSUME y = z, x \in Elements(s) PROVE Precedes(a, x, y)
  <2>1. PICK i \in 1..m : s[i] = x
    BY <1>4 DEF Elements, ToSet, m
  <2>2. i \in 1..Len(a) /\ m + 1 \in 1..Len(a) /\ i < m + 1 /\ a[i] = x
    BY <1>1, <2>1
  <2> QED
    BY <1>1, <1>4, <2>2 DEF Precedes
<1> QED
    BY <1>2, <1>3, <1>4 DEF a

\* Keep keeps the nodes it is told to and no others.
LEMMA KeepMembers ==
    ASSUME NEW T, NEW s \in Seq(T), NEW nodes
    PROVE  /\ Keep(s, nodes) \in Seq(T)
           /\ Elements(Keep(s, nodes)) = Elements(s) \cap nodes
<1> DEFINE P == {r \in Seq(T) : /\ Keep(r, nodes) \in Seq(T)
                                /\ Elements(Keep(r, nodes)) = Elements(r) \cap nodes}
<1>1. <<>> \in P
  <2>1. Keep(<<>>, nodes) = <<>> /\ <<>> \in Seq(T)
    BY KeepEmpty
  <2>2. Elements(<<>>) = {}
    BY ElementsEmpty
  <2> QED
    BY <2>1, <2>2
<1>2. ASSUME NEW r \in Seq(T), NEW x \in T, r \in P PROVE Append(r, x) \in P
  <2> DEFINE q == Keep(r, nodes)
             a == Append(r, x)
             k == Keep(a, nodes)
  <2>1. q \in Seq(T) /\ Elements(q) = Elements(r) \cap nodes
    BY <1>2
  <2>2. k = IF x \in nodes THEN Append(q, x) ELSE q
    BY KeepAppend
  <2>3. a \in Seq(T) /\ Elements(a) = Elements(r) \cup {x}
    BY ElementsAppend
  <2> HIDE DEF a, k, q
  <2>4. Append(q, x) \in Seq(T) /\ Elements(Append(q, x)) = Elements(q) \cup {x}
    BY <2>1, ElementsAppend
  <2>5. k \in Seq(T) /\ Elements(k) = Elements(a) \cap nodes
    BY <2>1, <2>2, <2>3, <2>4
  <2>6. a \in P
    BY <2>3, <2>5 DEF k
  <2> QED
    BY <2>6 DEF a
<1>3. Seq(T) \subseteq P
  <2> HIDE DEF P
  <2> QED
    BY <1>1, <1>2, AppendInduction
<1> QED
    BY <1>3

\* Keep works on each part of a list.
LEMMA KeepConcat ==
    ASSUME NEW T, NEW a \in Seq(T), NEW b \in Seq(T), NEW nodes
    PROVE  Keep(a \o b, nodes) = Keep(a, nodes) \o Keep(b, nodes)
<1> DEFINE P == {r \in Seq(T) : Keep(a \o r, nodes) = Keep(a, nodes) \o Keep(r, nodes)}
           k == Keep(a, nodes)
<1>0. k \in Seq(T)
    BY KeepMembers
<1>1. <<>> \in P
  <2> HIDE DEF k
  <2>1. k \o <<>> = k /\ a \o <<>> = a
    BY <1>0, ConcatEmptySeq
  <2>2. Keep(<<>>, nodes) = <<>> /\ <<>> \in Seq(T)
    BY KeepEmpty
  <2> QED
    BY <2>1, <2>2 DEF k
<1>2. ASSUME NEW r \in Seq(T), NEW x \in T, r \in P PROVE Append(r, x) \in P
  <2> DEFINE q == Keep(r, nodes)
             c == a \o r
             d == Append(r, x)
  <2>1. q \in Seq(T)
    BY KeepMembers
  <2>2. Keep(c, nodes) = k \o q
    BY <1>2
  <2>3. c \in Seq(T)
    OBVIOUS
  <2>4. a \o d = Append(c, x)
    OBVIOUS
  <2>5. Keep(d, nodes) = IF x \in nodes THEN Append(q, x) ELSE q
    BY KeepAppend
  <2>9. d \in Seq(T)
    OBVIOUS
  <2> HIDE DEF c, d, q, k
  <2>6. Keep(Append(c, x), nodes) =
            IF x \in nodes THEN Append(Keep(c, nodes), x) ELSE Keep(c, nodes)
    BY <2>3, KeepAppend
  <2>7. Append(k \o q, x) = k \o Append(q, x)
    <3> DEFINE one == <<x>>
    <3>1. k \in Seq(T) /\ q \in Seq(T) /\ k \o q \in Seq(T) /\ one \in Seq(T)
      BY <1>0, <2>1 DEF k
    <3>2. Append(k \o q, x) = (k \o q) \o <<x>>
      BY <3>1, AppendIsConcat
    <3>3. Append(q, x) = q \o <<x>>
      BY <2>1, AppendIsConcat
    <3>4. (k \o q) \o one = k \o (q \o one)
      <4> DEFINE u == k \o q
                 v == q \o one
                 w == u \o one
      <4>1. IsConcat(u, k, q) /\ IsConcat(v, q, one) /\ IsConcat(w, u, one)
        BY DEF IsConcat
      <4> HIDE DEF one, u, v, w
      <4>2. IsConcat(w, k, v)
        BY ONLY <3>1, <4>1, ConcatThree
      <4> QED
        BY <4>2 DEF IsConcat, u, v, w
    <3> QED
      BY <3>2, <3>3, <3>4
  <2>8. Keep(a \o d, nodes) = k \o Keep(d, nodes)
    BY <2>2, <2>4, <2>5, <2>6, <2>7
  <2> QED
    BY <2>8, <2>9 DEF d, k
<1>3. Seq(T) \subseteq P
  <2> HIDE DEF P
  <2> QED
    BY <1>1, <1>2, AppendInduction
<1> QED
    BY <1>3

\* Only the nodes of the list matter.
LEMMA KeepSame ==
    ASSUME NEW T, NEW s \in Seq(T), NEW nodes, NEW others,
           \A x \in Elements(s) : x \in nodes <=> x \in others
    PROVE  Keep(s, nodes) = Keep(s, others)
<1> DEFINE P == {r \in Seq(T) :
                    (\A x \in Elements(r) : x \in nodes <=> x \in others)
                        => Keep(r, nodes) = Keep(r, others)}
<1>1. <<>> \in P
    BY KeepEmpty
<1>2. ASSUME NEW r \in Seq(T), NEW x \in T, r \in P PROVE Append(r, x) \in P
  <2> DEFINE d == Append(r, x)
  <2>1. d \in Seq(T) /\ Elements(d) = Elements(r) \cup {x}
    BY ElementsAppend
  <2>2. /\ Keep(d, nodes) = IF x \in nodes THEN Append(Keep(r, nodes), x) ELSE Keep(r, nodes)
        /\ Keep(d, others) = IF x \in others THEN Append(Keep(r, others), x) ELSE Keep(r, others)
    BY KeepAppend
  <2> HIDE DEF d
  <2>3. (\A y \in Elements(d) : y \in nodes <=> y \in others)
            => Keep(d, nodes) = Keep(d, others)
    BY <1>2, <2>1, <2>2
  <2> QED
    BY <2>1, <2>3 DEF d
<1>3. Seq(T) \subseteq P
  <2> HIDE DEF P
  <2> QED
    BY <1>1, <1>2, AppendInduction
<1> QED
    BY <1>3

\* Keeping every node changes nothing.
LEMMA KeepAll ==
    ASSUME NEW T, NEW s \in Seq(T), NEW nodes, Elements(s) \subseteq nodes
    PROVE  Keep(s, nodes) = s
<1> DEFINE P == {r \in Seq(T) : Elements(r) \subseteq nodes => Keep(r, nodes) = r}
<1>1. <<>> \in P
    BY KeepEmpty
<1>2. ASSUME NEW r \in Seq(T), NEW x \in T, r \in P PROVE Append(r, x) \in P
  <2> DEFINE d == Append(r, x)
  <2>1. d \in Seq(T) /\ Elements(d) = Elements(r) \cup {x}
    BY ElementsAppend
  <2>2. Keep(d, nodes) = IF x \in nodes THEN Append(Keep(r, nodes), x) ELSE Keep(r, nodes)
    BY KeepAppend
  <2>3. Elements(d) \subseteq nodes => Keep(d, nodes) = d
    BY <1>2, <2>1, <2>2
  <2> QED
    BY <2>1, <2>3
<1>3. Seq(T) \subseteq P
  <2> HIDE DEF P
  <2> QED
    BY <1>1, <1>2, AppendInduction
<1> QED
    BY <1>3

\* Keeping no node leaves nothing.
LEMMA KeepNone ==
    ASSUME NEW T, NEW s \in Seq(T), NEW nodes, Elements(s) \cap nodes = {}
    PROVE  Keep(s, nodes) = <<>>
<1>1. Keep(s, nodes) \in Seq(T) /\ Elements(Keep(s, nodes)) = {}
    BY KeepMembers
<1> QED
    BY <1>1, ElementsOfSeq

\* Keeping some of what was kept is keeping what is in both sets.
LEMMA KeepTwice ==
    ASSUME NEW T, NEW s \in Seq(T), NEW nodes, NEW others
    PROVE  Keep(Keep(s, nodes), others) = Keep(s, nodes \cap others)
<1> DEFINE both == nodes \cap others
           P == {r \in Seq(T) : Keep(Keep(r, nodes), others) = Keep(r, both)}
<1>1. <<>> \in P
    BY KeepEmpty
<1>2. ASSUME NEW r \in Seq(T), NEW x \in T, r \in P PROVE Append(r, x) \in P
  <2> DEFINE d == Append(r, x)
             q == Keep(r, nodes)
  <2>1. d \in Seq(T) /\ q \in Seq(T)
    BY KeepMembers
  <2>2. Keep(q, others) = Keep(r, both)
    BY <1>2
  <2>3. /\ Keep(d, nodes) = IF x \in nodes THEN Append(q, x) ELSE q
        /\ Keep(d, both) = IF x \in both THEN Append(Keep(r, both), x) ELSE Keep(r, both)
    BY KeepAppend
  <2> HIDE DEF d, q
  <2>4. Keep(Append(q, x), others) =
            IF x \in others THEN Append(Keep(q, others), x) ELSE Keep(q, others)
    BY <2>1, KeepAppend
  <2>5. Keep(Keep(d, nodes), others) = Keep(d, both)
    <3>1. CASE x \in nodes
      <4>1. Keep(d, nodes) = Append(q, x) /\ (x \in both <=> x \in others)
        BY <2>3, <3>1
      <4> HIDE DEF both
      <4>2. CASE x \in others
        BY <2>2, <2>3, <2>4, <4>1, <4>2, Zenon
      <4>3. CASE x \notin others
        BY <2>2, <2>3, <2>4, <4>1, <4>3, Zenon
      <4> QED
        BY <4>2, <4>3
    <3>2. CASE x \notin nodes
      BY <2>2, <2>3, <3>2
    <3> QED
      BY <3>1, <3>2
  <2> QED
    BY <2>1, <2>5 DEF d
<1>3. Seq(T) \subseteq P
  <2> HIDE DEF P
  <2> QED
    BY <1>1, <1>2, AppendInduction
<1> QED
    BY <1>3

\* A list of one node.
LEMMA KeepOne ==
    ASSUME NEW T, NEW x \in T, NEW nodes
    PROVE  Keep(<<x>>, nodes) = IF x \in nodes THEN <<x>> ELSE <<>>
<1>1. <<x>> = Append(<<>>, x) /\ <<>> \in Seq(T)
    OBVIOUS
<1>2. Keep(Append(<<>>, x), nodes) =
          IF x \in nodes THEN Append(Keep(<<>>, nodes), x) ELSE Keep(<<>>, nodes)
    BY <1>1, KeepAppend
<1> QED
    BY <1>1, <1>2, KeepEmpty

\* The first node stays the first one.
LEMMA KeepHead ==
    ASSUME NEW T, NEW s \in Seq(T), s # <<>>, NEW nodes, Head(s) \in nodes
    PROVE  Keep(s, nodes) # <<>> /\ Head(Keep(s, nodes)) = Head(s)
<1> DEFINE h == Head(s)
           t == Tail(s)
<1>1. h \in T /\ t \in Seq(T) /\ s = <<h>> \o t
    OBVIOUS
<1> HIDE DEF h, t
<1>2. Keep(<<h>>, nodes) = <<h>> /\ <<h>> \in Seq(T)
    BY <1>1, KeepOne DEF h
<1>3. Keep(s, nodes) = <<h>> \o Keep(t, nodes)
  <2> DEFINE o == <<h>>
  <2>1. o \in Seq(T) /\ Keep(o, nodes) = o /\ s = o \o t
    BY <1>1, <1>2
  <2> HIDE DEF o
  <2>2. Keep(o \o t, nodes) = Keep(o, nodes) \o Keep(t, nodes)
    BY <1>1, <2>1, KeepConcat
  <2> QED
    BY <2>1, <2>2 DEF o
<1>4. Keep(t, nodes) \in Seq(T)
    BY <1>1, KeepMembers
<1> DEFINE q == Keep(t, nodes)
<1>5. q \in Seq(T)
    BY <1>4
<1> HIDE DEF q
<1>6. <<h>> \o q # <<>> /\ Head(<<h>> \o q) = h
    BY <1>1, <1>5
<1> QED
    BY <1>3, <1>6 DEF q, h

\* Nodes that are kept keep their order.
LEMMA KeepPrecedes ==
    ASSUME NEW T, NEW s \in Seq(T), NEW nodes, NEW x, NEW y
    PROVE  Precedes(Keep(s, nodes), x, y) <=>
               Precedes(s, x, y) /\ x \in nodes /\ y \in nodes
<1> DEFINE P == {r \in Seq(T) : Precedes(Keep(r, nodes), x, y) <=>
                                    Precedes(r, x, y) /\ x \in nodes /\ y \in nodes}
<1>1. <<>> \in P
  <2>1. ~Precedes(<<>>, x, y)
    BY DEF Precedes
  <2> QED
    BY <2>1, KeepEmpty
<1>2. ASSUME NEW r \in Seq(T), NEW z \in T, r \in P PROVE Append(r, z) \in P
  <2> DEFINE d == Append(r, z)
             q == Keep(r, nodes)
  <2>1. d \in Seq(T) /\ q \in Seq(T) /\ Elements(q) = Elements(r) \cap nodes
    BY KeepMembers
  <2>2. Precedes(q, x, y) <=> Precedes(r, x, y) /\ x \in nodes /\ y \in nodes
    BY <1>2
  <2>3. Keep(d, nodes) = IF z \in nodes THEN Append(q, z) ELSE q
    BY KeepAppend
  <2>4. Precedes(d, x, y) <=> Precedes(r, x, y) \/ (y = z /\ x \in Elements(r))
    BY PrecedesAppend
  <2> HIDE DEF d, q
  <2>5. Precedes(Append(q, z), x, y) <=> Precedes(q, x, y) \/ (y = z /\ x \in Elements(q))
    BY <2>1, PrecedesAppend
  <2>6. Precedes(Keep(d, nodes), x, y) <=>
            Precedes(d, x, y) /\ x \in nodes /\ y \in nodes
    <3>1. CASE z \in nodes
      BY <2>1, <2>2, <2>3, <2>4, <2>5, <3>1
    <3>2. CASE z \notin nodes
      BY <2>1, <2>2, <2>3, <2>4, <3>2
    <3> QED
      BY <3>1, <3>2
  <2> QED
    BY <2>1, <2>6 DEF d
<1>3. Seq(T) \subseteq P
  <2> HIDE DEF P
  <2> QED
    BY <1>1, <1>2, AppendInduction
<1> QED
    BY <1>3

\* A list is duplicate-free exactly when no node stands before itself.
LEMMA DistinctPrecedes ==
    ASSUME NEW s
    PROVE  Distinct(s) <=> \A x : ~Precedes(s, x, x)
    BY DEF Distinct, Precedes

\* No node is linked twice after Keep if none was before.
LEMMA KeepDistinct ==
    ASSUME NEW T, NEW s \in Seq(T), Distinct(s), NEW nodes
    PROVE  Distinct(Keep(s, nodes))
    BY KeepPrecedes, DistinctPrecedes

\* The nodes of a list made of two.
LEMMA ElementsConcat ==
    ASSUME NEW T, NEW a \in Seq(T), NEW b \in Seq(T)
    PROVE  Elements(a \o b) = Elements(a) \cup Elements(b)
<1> DEFINE c == a \o b
<1>1. /\ Len(a) \in Nat /\ Len(b) \in Nat /\ Len(c) = Len(a) + Len(b)
      /\ DOMAIN a = 1..Len(a) /\ DOMAIN b = 1..Len(b) /\ DOMAIN c = 1..Len(c)
    OBVIOUS
<1>2. \A i \in 1..Len(c) : c[i] = IF i <= Len(a) THEN a[i] ELSE b[i - Len(a)]
    OBVIOUS
<1> HIDE DEF c
<1>3. ASSUME NEW y \in Elements(c) PROVE y \in Elements(a) \cup Elements(b)
  <2>1. PICK i \in 1..Len(c) : c[i] = y
    BY <1>1, <1>3 DEF Elements, ToSet
  <2>2. CASE i <= Len(a)
    BY <1>1, <1>2, <2>1, <2>2 DEF Elements, ToSet
  <2>3. CASE ~(i <= Len(a))
    <3>1. i - Len(a) \in 1..Len(b) /\ b[i - Len(a)] = y
      BY <1>1, <1>2, <2>1, <2>3
    <3> QED
      BY <1>1, <3>1 DEF Elements, ToSet
  <2> QED
    BY <2>2, <2>3
<1>4. ASSUME NEW y \in Elements(a) PROVE y \in Elements(c)
  <2>1. PICK i \in 1..Len(a) : a[i] = y
    BY <1>1, <1>4 DEF Elements, ToSet
  <2>2. i \in 1..Len(c) /\ c[i] = y
    BY <1>1, <1>2, <2>1
  <2> QED
    BY <1>1, <2>2 DEF Elements, ToSet
<1>5. ASSUME NEW y \in Elements(b) PROVE y \in Elements(c)
  <2>1. PICK i \in 1..Len(b) : b[i] = y
    BY <1>1, <1>5 DEF Elements, ToSet
  <2>2. i + Len(a) \in 1..Len(c) /\ ~(i + Len(a) <= Len(a)) /\ (i + Len(a)) - Len(a) = i
    BY <1>1, <2>1
  <2>3. c[i + Len(a)] = y
    BY <1>2, <2>1, <2>2
  <2> QED
    BY <1>1, <2>2, <2>3 DEF Elements, ToSet
<1> QED
    BY <1>3, <1>4, <1>5 DEF c

\* Reverse changes the order only.
LEMMA ReverseElements ==
    ASSUME NEW T, NEW s \in Seq(T)
    PROVE  Reverse(s) \in Seq(T) /\ Elements(Reverse(s)) = Elements(s)
<1> DEFINE r == Reverse(s)
<1>2. r \in Seq(T) /\ Len(r) = Len(s)
      /\ \A i \in 1..Len(s) : r[i] = s[Len(s) - i + 1]
    BY DEF Reverse
<1> HIDE DEF r
<1>3. ASSUME NEW x \in Elements(r) PROVE x \in Elements(s)
  <2>1. PICK i \in 1..Len(s) : r[i] = x
    BY <1>2, <1>3 DEF Elements, ToSet
  <2>2. Len(s) - i + 1 \in 1..Len(s)
    OBVIOUS
  <2>3. s[Len(s) - i + 1] = x
    BY <1>2, <2>1
  <2> QED
    BY <2>2, <2>3 DEF Elements, ToSet
<1>4. ASSUME NEW x \in Elements(s) PROVE x \in Elements(r)
  <2>1. PICK i \in 1..Len(s) : s[i] = x
    BY <1>4 DEF Elements, ToSet
  <2>2. Len(s) - i + 1 \in 1..Len(s) /\ Len(s) - (Len(s) - i + 1) + 1 = i
    OBVIOUS
  <2>3. r[Len(s) - i + 1] = x
    BY <1>2, <2>1, <2>2
  <2> QED
    BY <1>2, <2>2, <2>3 DEF Elements, ToSet
<1> QED
    BY <1>2, <1>3, <1>4 DEF r

\* A list before and from a position, and around it.
LEMMA SplitAt ==
    ASSUME NEW T, NEW s \in Seq(T), NEW p \in 1..Len(s) + 1
    PROVE  s = SubSeq(s, 1, p - 1) \o SubSeq(s, p, Len(s))
<1>1. 1 \in 1..Len(s) + 1 /\ p - 1 \in 1 - 1..Len(s) /\ Len(s) \in p - 1..Len(s)
    OBVIOUS
<1> DEFINE k == p - 1
<1>2. k \in 1 - 1..Len(s) /\ Len(s) \in k..Len(s) /\ k + 1 = p
    BY <1>1
<1> HIDE DEF k
<1>3. SubSeq(s, 1, k) \o SubSeq(s, k + 1, Len(s)) = SubSeq(s, 1, Len(s))
    BY <1>1, <1>2, ConcatAdjacentSubSeq
<1>4. SubSeq(s, 1, Len(s)) = s
    OBVIOUS
<1> QED
    BY <1>2, <1>3, <1>4 DEF k

LEMMA SplitAround ==
    ASSUME NEW T, NEW s \in Seq(T), NEW p \in 1..Len(s)
    PROVE  s = SubSeq(s, 1, p - 1) \o (<<s[p]>> \o SubSeq(s, p + 1, Len(s)))
<1>1. s = SubSeq(s, 1, p - 1) \o SubSeq(s, p, Len(s))
    BY SplitAt
<1>2. p \in 1..Len(s) + 1 /\ p \in p - 1..Len(s) /\ Len(s) \in p..Len(s)
    OBVIOUS
<1>3. SubSeq(s, p, p) \o SubSeq(s, p + 1, Len(s)) = SubSeq(s, p, Len(s))
    BY <1>2, ConcatAdjacentSubSeq
<1>4. SubSeq(s, p, p) = <<s[p]>>
  <2> DEFINE q == SubSeq(s, p, p)
  <2>3. q \in Seq(T) /\ Len(q) = 1 /\ q[1] = s[p]
    BY SubSeqProperties
  <2> HIDE DEF q
  <2>4. q = <<s[p]>>
    BY <2>3
  <2> QED
    BY <2>4 DEF q
<1> QED
    BY <1>1, <1>3, <1>4

\* gyros__list_remove keeps all nodes but one.
LEMMA ListRemoveKeeps ==
    ASSUME NEW T, NEW s \in Seq(T), Distinct(s), NEW x
    PROVE  ListRemove(s, x) = Keep(s, T \ {x})
<1>0. Elements(s) \subseteq T
    BY ElementsOfSeq
<1>1. CASE ~(\E i \in 1..Len(s) : s[i] = x)
  <2>1. ListRemove(s, x) = s
    BY <1>1 DEF ListRemove, RemoveFirst
  <2>2. Elements(s) \subseteq T \ {x}
    BY <1>0, <1>1 DEF Elements, ToSet
  <2>3. Keep(s, T \ {x}) = s
    BY <2>2, KeepAll
  <2> QED
    BY <2>1, <2>3
<1>2. CASE \E i \in 1..Len(s) : s[i] = x
  <2> DEFINE hits == {i \in 1..Len(s) : s[i] = x}
             p == Min(hits)
  <2>1. p \in hits
    <3>1. hits \subseteq Nat /\ hits # {}
      BY <1>2
    <3> HIDE DEF hits
    <3> QED
      BY <3>1, MinOfNat
  <2>2. p \in 1..Len(s) /\ s[p] = x
    BY <2>1
  <2>3. ListRemove(s, x) = RemoveAt(s, p)
    BY <1>2 DEF ListRemove, RemoveFirst, SelectInSeq
  <2> HIDE DEF hits, p
  <2> DEFINE front == SubSeq(s, 1, p - 1)
             back == SubSeq(s, p + 1, Len(s))
  <2> DEFINE one == <<x>>
  <2>4. RemoveAt(s, p) = front \o back
    BY DEF RemoveAt
  <2>5. /\ front \in Seq(T) /\ Len(front) = p - 1
        /\ \A j \in 1..p - 1 : front[j] = s[j]
    BY <2>2, SubSeqProperties
  <2>6. /\ back \in Seq(T) /\ Len(back) = Len(s) - p
        /\ \A j \in 1..Len(s) - p : back[j] = s[p + j]
    BY <2>2, SubSeqProperties
  <2>7. x \in T /\ one \in Seq(T)
    BY <2>2
  <2>8. s = front \o (one \o back)
    BY <2>2, SplitAround
  <2>9. x \notin Elements(front) /\ x \notin Elements(back)
    <3>1. ASSUME NEW j \in 1..Len(front) PROVE front[j] # x
      <4>1. j \in 1..Len(s) /\ j < p /\ front[j] = s[j]
        BY <2>2, <2>5
      <4> QED
        BY <2>2, <4>1 DEF Distinct
    <3>2. ASSUME NEW j \in 1..Len(back) PROVE back[j] # x
      <4>1. p + j \in 1..Len(s) /\ p < p + j /\ back[j] = s[p + j]
        BY <2>2, <2>6
      <4> QED
        BY <2>2, <4>1 DEF Distinct
    <3> QED
      <4> HIDE DEF front, back, one
      <4>1. DOMAIN front = 1..Len(front) /\ DOMAIN back = 1..Len(back)
        BY <2>5, <2>6
      <4> QED
        BY <3>1, <3>2, <4>1 DEF Elements, ToSet
  <2> HIDE DEF front, back
  <2> DEFINE N == T \ {x}
  <2>10. Elements(front) \subseteq N /\ Elements(back) \subseteq N /\ x \notin N
    BY <2>5, <2>6, <2>9, ElementsOfSeq
  <2> HIDE DEF N
  <2>11. Keep(front, N) = front /\ Keep(back, N) = back /\ Keep(one, N) = <<>>
    BY <2>5, <2>6, <2>7, <2>10, KeepAll, KeepOne
  <2> HIDE DEF one
  <2>12. Keep(one \o back, N) = Keep(one, N) \o Keep(back, N)
    BY <2>6, <2>7, KeepConcat
  <2>13. <<>> \o back = back /\ one \o back \in Seq(T)
    BY <2>6, <2>7, ConcatEmptySeq, ConcatProperties
  <2> DEFINE rest == one \o back
  <2>14. rest \in Seq(T) /\ Keep(rest, N) = back
    BY <2>11, <2>12, <2>13
  <2> HIDE DEF rest
  <2>17. front \in Seq(T) /\ rest \in Seq(T)
    BY <2>5, <2>14
  <2>15. Keep(front \o rest, N) = Keep(front, N) \o Keep(rest, N)
    BY ONLY <2>17, KeepConcat
  <2>16. Keep(s, N) = front \o back
    BY <2>8, <2>11, <2>14, <2>15 DEF rest
  <2> QED
    BY <2>3, <2>4, <2>16 DEF N
<1> QED
    BY <1>1, <1>2

-----------------------------------------------------------------------------
(* Kernel states.                                                          *)

USE KernelAssumption

\* Every list is duplicate-free and ordered by falling priority.
ListsOK(k) ==
    \A l \in ListIds : Distinct(k.lists[l]) /\ Falling(k.lists[l], k.priority)

\* The main list of t is the one it is linked in, and the only one.
LinkedRight(k, t) ==
    \A l \in ListIds : t \in Elements(k.lists[l]) <=> k.main_list[t] = l

\* t is linked in no list.
Unlinked(k, t) == \A l \in ListIds : t \notin Elements(k.lists[l])

KernelOK(k) ==
    /\ k \in KernelStates
    /\ Distinct(k.timeouts)
    /\ ListsOK(k)
    /\ \A t \in Tasks : LinkedRight(k, t)

\* As KernelOK, for a state in which t has just been unlinked.
KernelOKWithout(k, t) ==
    /\ k \in KernelStates
    /\ Distinct(k.timeouts)
    /\ ListsOK(k)
    /\ Unlinked(k, t)
    /\ \A u \in Tasks \ {t} : LinkedRight(k, u)

\* The fields that no list operation changes.
SameButLists(k, n) ==
    /\ n.current = k.current /\ n.pendsv = k.pendsv /\ n.now = k.now
    /\ n.timeout = k.timeout /\ n.timed_out = k.timed_out
    /\ n.priority = k.priority /\ n.base_priority = k.base_priority
    /\ n.joinable = k.joinable

\* The order of a list depends on the keys of its own nodes only.
LEMMA FallingSameKeys ==
    ASSUME NEW T, NEW s \in Seq(T), NEW key1, NEW key2,
           \A x \in Elements(s) : key1[x] = key2[x], Falling(s, key1)
    PROVE  Falling(s, key2)
<1>1. \A i \in 1..Len(s) : key1[s[i]] = key2[s[i]]
    BY DEF Elements, ToSet
<1> QED
    BY <1>1 DEF Falling

\* gyros__list_remove(&task->main_list_node)
LEMMA UnlinkMainOK ==
    ASSUME NEW k, KernelOK(k), NEW t \in Tasks
    PROVE  /\ KernelOKWithout(UnlinkMain(k, t), t)
           /\ SameButLists(k, UnlinkMain(k, t))
           /\ UnlinkMain(k, t).main_list = k.main_list
           /\ UnlinkMain(k, t).timeouts = k.timeouts
<1> DEFINE n == UnlinkMain(k, t)
<1>1. \A l \in ListIds :
          /\ n.lists[l] \in Seq(Tasks)
          /\ Distinct(n.lists[l])
          /\ Elements(n.lists[l]) = Elements(k.lists[l]) \ {t}
          /\ Falling(n.lists[l], k.priority)
  <2> SUFFICES ASSUME NEW l \in ListIds
               PROVE  /\ n.lists[l] \in Seq(Tasks)
                      /\ Distinct(n.lists[l])
                      /\ Elements(n.lists[l]) = Elements(k.lists[l]) \ {t}
                      /\ Falling(n.lists[l], k.priority)
    OBVIOUS
  <2>1. n.lists[l] = ListRemove(k.lists[l], t)
    BY DEF UnlinkMain, KernelOK, KernelStates
  <2>2. k.lists[l] \in Seq(Tasks) /\ Distinct(k.lists[l]) /\ Falling(k.lists[l], k.priority)
    BY DEF KernelOK, ListsOK, KernelStates
  <2> QED
    BY <2>1, <2>2, ListRemoveProperties
<1>2. n.lists \in [ListIds -> Seq(Tasks)]
    BY <1>1 DEF UnlinkMain, KernelOK, KernelStates
<1>3. n = [k EXCEPT !.lists = n.lists]
    BY DEF UnlinkMain, KernelOK, KernelStates
<1>4. /\ n \in KernelStates /\ SameButLists(k, n)
      /\ n.main_list = k.main_list /\ n.timeouts = k.timeouts
    BY <1>2, <1>3 DEF KernelOK, KernelStates, SameButLists
<1> HIDE DEF n
<1>5. KernelOKWithout(n, t)
  <2>1. ListsOK(n)
    BY <1>1, <1>4 DEF ListsOK, SameButLists
  <2>2. Unlinked(n, t)
    BY <1>1 DEF Unlinked
  <2>3. \A u \in Tasks \ {t} : LinkedRight(n, u)
    <3> SUFFICES ASSUME NEW u \in Tasks \ {t}, NEW l \in ListIds
                 PROVE  u \in Elements(n.lists[l]) <=> n.main_list[u] = l
      BY DEF LinkedRight
    <3>1. u \in Elements(k.lists[l]) <=> k.main_list[u] = l
      BY DEF KernelOK, LinkedRight
    <3> QED
      BY <1>1, <1>4, <3>1
  <2>4. Distinct(n.timeouts)
    BY <1>4 DEF KernelOK
  <2> QED
    BY <1>4, <2>1, <2>2, <2>3, <2>4 DEF KernelOKWithout
<1> QED
    BY <1>4, <1>5 DEF n

\* add_task_to_list, for a task that is in no list.
LEMMA AddTaskToListOK ==
    ASSUME NEW k, NEW t \in Tasks, KernelOKWithout(k, t), NEW l \in ListIds
    PROVE  /\ KernelOK(add_task_to_list(k, t, l))
           /\ SameButLists(k, add_task_to_list(k, t, l))
           /\ add_task_to_list(k, t, l).main_list = [k.main_list EXCEPT ![t] = l]
           /\ add_task_to_list(k, t, l).timeouts = k.timeouts
<1> DEFINE n == add_task_to_list(k, t, l)
           s == k.lists[l]
           lower == {i \in 1..Len(s) : k.priority[t] > k.priority[s[i]]}
           p == FirstPosition(s, lower)
           new == ListInsertBefore(s, p, t)
<1>1. /\ s \in Seq(Tasks) /\ Distinct(s) /\ Falling(s, k.priority)
      /\ t \notin Elements(s)
    BY DEF KernelOKWithout, ListsOK, Unlinked, KernelStates
<1>2. k.priority \in [Tasks -> Int]
  <2>1. k.priority \in [Tasks -> Priorities \cup {0}]
    BY DEF KernelOKWithout, KernelStates
  <2>2. Priorities \cup {0} \subseteq Int
    BY DEF KernelAssumption
  <2> QED
    BY <2>1, <2>2
<1>3. p \in 1..Len(s) + 1
    BY <1>1, FirstPositionProperties
<1>4. Falling(new, k.priority)
  <2> DEFINE key == k.priority
  <2> HIDE DEF s
  <2>1. key \in [Tasks -> Int] /\ Falling(s, key)
    BY <1>1, <1>2
  <2>2. LET below == {i \in 1..Len(s) : key[t] > key[s[i]]}
        IN  Falling(ListInsertBefore(s, FirstPosition(s, below), t), key)
    <3> HIDE DEF key
    <3> QED
      BY <1>1, <2>1, InsertKeepsFalling
  <2> QED
    BY <2>2
<1>5. new \in Seq(Tasks) /\ Distinct(new) /\ Elements(new) = Elements(s) \cup {t}
  <2> HIDE DEF s, p
  <2> QED
    BY <1>1, <1>3, ListInsertProperties
<1>6. n = [k EXCEPT !.lists[l] = new, !.main_list[t] = l]
    BY DEF add_task_to_list
<1> HIDE DEF new, p, lower, n
<1>7. n \in KernelStates
    BY <1>5, <1>6 DEF KernelOKWithout, KernelStates
<1>8. /\ n.lists = [k.lists EXCEPT ![l] = new]
      /\ n.main_list = [k.main_list EXCEPT ![t] = l]
      /\ n.timeouts = k.timeouts
      /\ SameButLists(k, n)
    BY <1>6 DEF KernelOKWithout, KernelStates, SameButLists
<1>9. ListsOK(n)
    BY <1>4, <1>5, <1>8 DEF KernelOKWithout, ListsOK, KernelStates, SameButLists
<1>10. ASSUME NEW u \in Tasks PROVE LinkedRight(n, u)
  <2> SUFFICES ASSUME NEW m \in ListIds
               PROVE  u \in Elements(n.lists[m]) <=> n.main_list[u] = m
    BY DEF LinkedRight
  <2>1. n.lists[m] = IF m = l THEN new ELSE k.lists[m]
    BY <1>8 DEF KernelOKWithout, KernelStates
  <2>2. n.main_list[u] = IF u = t THEN l ELSE k.main_list[u]
    BY <1>8 DEF KernelOKWithout, KernelStates
  <2> QED
    BY <2>1, <2>2, <1>5 DEF KernelOKWithout, Unlinked, LinkedRight
<1> QED
    BY <1>7, <1>8, <1>9, <1>10 DEF KernelOK, KernelOKWithout, n

-----------------------------------------------------------------------------
\* gyros__task_suspend leaves t in no list, and the others where they were.
LEMMA TaskSuspendOK ==
    ASSUME NEW k, KernelOK(k), NEW t \in Tasks
    PROVE  /\ KernelOK(gyros__task_suspend(k, t))
           /\ SameButLists(k, gyros__task_suspend(k, t))
           /\ gyros__task_suspend(k, t).main_list = [k.main_list EXCEPT ![t] = NoList]
           /\ gyros__task_suspend(k, t).timeouts = k.timeouts
<1> DEFINE u == UnlinkMain(k, t)
           n == gyros__task_suspend(k, t)
<1>1. /\ KernelOKWithout(u, t) /\ SameButLists(k, u)
      /\ u.main_list = k.main_list /\ u.timeouts = k.timeouts
    BY UnlinkMainOK
<1>2. n = [u EXCEPT !.main_list[t] = NoList]
    BY DEF gyros__task_suspend
<1> HIDE DEF u, n
<1>3. /\ n \in KernelStates
      /\ n.lists = u.lists /\ n.timeouts = u.timeouts
      /\ n.main_list = [u.main_list EXCEPT ![t] = NoList]
      /\ SameButLists(u, n)
    BY <1>1, <1>2 DEF KernelOKWithout, KernelStates, SameButLists
<1>4. ListsOK(n)
    BY <1>1, <1>3 DEF KernelOKWithout, ListsOK, SameButLists
<1>5. ASSUME NEW v \in Tasks PROVE LinkedRight(n, v)
  <2>1. CASE v = t
    <3>1. n.main_list[t] = NoList
      BY <1>1, <1>3 DEF KernelOKWithout, KernelStates
    <3> QED
      BY <1>1, <1>3, <2>1, <3>1 DEF KernelOKWithout, Unlinked, LinkedRight, ListIds, KernelAssumption
  <2>2. CASE v # t
    <3>1. n.main_list[v] = u.main_list[v] /\ LinkedRight(u, v)
      BY <1>1, <1>3, <2>2 DEF KernelOKWithout, KernelStates
    <3> QED
      BY <1>3, <3>1 DEF LinkedRight
  <2> QED
    BY <2>1, <2>2
<1>6. KernelOK(n) /\ SameButLists(k, n)
    BY <1>1, <1>3, <1>4, <1>5 DEF KernelOK, KernelOKWithout, SameButLists
<1> QED
    BY <1>1, <1>3, <1>6 DEF n

\* gyros__task_move puts t into list l alone.
LEMMA TaskMoveOK ==
    ASSUME NEW k, KernelOK(k), NEW t \in Tasks, NEW l \in ListIds
    PROVE  /\ KernelOK(gyros__task_move(k, t, l))
           /\ SameButLists(k, gyros__task_move(k, t, l))
           /\ gyros__task_move(k, t, l).main_list = [k.main_list EXCEPT ![t] = l]
           /\ gyros__task_move(k, t, l).timeouts = k.timeouts
<1> DEFINE u == UnlinkMain(k, t)
<1>1. /\ KernelOKWithout(u, t) /\ SameButLists(k, u)
      /\ u.main_list = k.main_list /\ u.timeouts = k.timeouts
    BY UnlinkMainOK
<1> HIDE DEF u
<1>2. /\ KernelOK(add_task_to_list(u, t, l))
      /\ SameButLists(u, add_task_to_list(u, t, l))
      /\ add_task_to_list(u, t, l).main_list = [u.main_list EXCEPT ![t] = l]
      /\ add_task_to_list(u, t, l).timeouts = u.timeouts
    BY <1>1, AddTaskToListOK
<1>3. gyros__task_move(k, t, l) = add_task_to_list(u, t, l)
    BY DEF gyros__task_move, u
<1> QED
    BY <1>1, <1>2, <1>3 DEF SameButLists

\* Taking a task off the timeout list leaves the main lists alone.
LEMMA RemoveTimeoutOK ==
    ASSUME NEW k, KernelOK(k), NEW t
    PROVE  /\ KernelOK(RemoveTimeout(k, t))
           /\ SameButLists(k, RemoveTimeout(k, t))
           /\ RemoveTimeout(k, t).lists = k.lists
           /\ RemoveTimeout(k, t).main_list = k.main_list
           /\ Elements(RemoveTimeout(k, t).timeouts) = Elements(k.timeouts) \ {t}
<1> DEFINE n == RemoveTimeout(k, t)
           s == ListRemove(k.timeouts, t)
<1>1. k.timeouts \in Seq(Tasks) /\ Distinct(k.timeouts)
    BY DEF KernelOK, KernelStates
<1>2. s \in Seq(Tasks) /\ Distinct(s) /\ Elements(s) = Elements(k.timeouts) \ {t}
    BY <1>1, ListRemoveProperties
<1>3. n = [k EXCEPT !.timeouts = s]
    BY DEF RemoveTimeout
<1> HIDE DEF n, s
<1>4. /\ n \in KernelStates /\ n.timeouts = s /\ n.lists = k.lists
      /\ n.main_list = k.main_list /\ SameButLists(k, n)
    BY <1>2, <1>3 DEF KernelOK, KernelStates, SameButLists
<1>5. ListsOK(n) /\ \A u \in Tasks : LinkedRight(n, u)
    BY <1>4 DEF KernelOK, ListsOK, LinkedRight, SameButLists
<1> QED
    BY <1>2, <1>4, <1>5 DEF KernelOK, n

\* gyros__task_wake makes t runnable and takes it off the timeout list.
LEMMA TaskWakeOK ==
    ASSUME NEW k, KernelOK(k), NEW t \in Tasks
    PROVE  /\ KernelOK(gyros__task_wake(k, t))
           /\ SameButLists(k, gyros__task_wake(k, t))
           /\ gyros__task_wake(k, t).main_list = [k.main_list EXCEPT ![t] = Running]
           /\ Elements(gyros__task_wake(k, t).timeouts) = Elements(k.timeouts) \ {t}
<1> DEFINE u == RemoveTimeout(k, t)
<1>1. /\ KernelOK(u) /\ SameButLists(k, u) /\ u.main_list = k.main_list
      /\ Elements(u.timeouts) = Elements(k.timeouts) \ {t}
    BY RemoveTimeoutOK
<1> HIDE DEF u
<1>2. Running \in ListIds
    BY DEF ListIds
<1>3. /\ KernelOK(gyros__task_move(u, t, Running))
      /\ SameButLists(u, gyros__task_move(u, t, Running))
      /\ gyros__task_move(u, t, Running).main_list = [u.main_list EXCEPT ![t] = Running]
      /\ gyros__task_move(u, t, Running).timeouts = u.timeouts
    BY <1>1, <1>2, TaskMoveOK
<1>4. gyros__task_wake(k, t) = gyros__task_move(u, t, Running)
    BY DEF gyros__task_wake, u
<1> QED
    BY <1>1, <1>3, <1>4 DEF SameButLists

\* gyros__set_priority keeps the lists sorted by the new priorities.
LEMMA SetPriorityOK ==
    ASSUME NEW k, KernelOK(k), NEW t \in Tasks, NEW p \in Priorities \cup {0}
    PROVE  LET n == gyros__set_priority(k, t, p)
           IN  /\ KernelOK(n)
               /\ n.main_list = k.main_list
               /\ n.timeouts = k.timeouts
               /\ n.current = k.current
               /\ n.pendsv = k.pendsv /\ n.timed_out = k.timed_out
               /\ n.joinable = k.joinable
               /\ n.base_priority = k.base_priority
               /\ n.priority[t] = p
               /\ \A x \in Tasks \ {t} : n.priority[x] = k.priority[x]
<1> DEFINE c == [k EXCEPT !.priority[t] = p]
           u == UnlinkMain(k, t)
           v == UnlinkMain(c, t)
           l == k.main_list[t]
<1>1. /\ KernelOKWithout(u, t) /\ SameButLists(k, u)
      /\ u.main_list = k.main_list /\ u.timeouts = k.timeouts
    BY UnlinkMainOK
<1>2. /\ c \in KernelStates /\ c.lists = k.lists /\ c.main_list = k.main_list
      /\ c.timeouts = k.timeouts /\ c.current = k.current /\ c.pendsv = k.pendsv
      /\ c.joinable = k.joinable /\ c.base_priority = k.base_priority
      /\ c.timed_out = k.timed_out
      /\ c.priority = [k.priority EXCEPT ![t] = p]
    BY DEF KernelOK, KernelStates
<1>3. /\ v.lists = u.lists /\ v.main_list = c.main_list /\ v.timeouts = c.timeouts
      /\ SameButLists(c, v)
    BY <1>2 DEF UnlinkMain, SameButLists, KernelStates, KernelOK
<1>4. v = [c EXCEPT !.lists = u.lists]
    BY <1>2 DEF UnlinkMain, KernelStates, KernelOK
<1> HIDE DEF c, u, v, l
<1>5. v \in KernelStates
    BY <1>1, <1>2, <1>4 DEF KernelOKWithout, KernelStates
<1>10. c.priority[t] = p /\ \A x \in Tasks \ {t} : c.priority[x] = k.priority[x]
    BY <1>2 DEF KernelOK, KernelStates
<1>6. ListsOK(v)
  <2> SUFFICES ASSUME NEW m \in ListIds
               PROVE  Distinct(v.lists[m]) /\ Falling(v.lists[m], v.priority)
    BY DEF ListsOK
  <2>1. /\ u.lists[m] \in Seq(Tasks) /\ Distinct(u.lists[m])
        /\ Falling(u.lists[m], u.priority) /\ t \notin Elements(u.lists[m])
    BY <1>1 DEF KernelOKWithout, KernelStates, ListsOK, Unlinked
  <2>2. \A x \in Elements(u.lists[m]) : u.priority[x] = v.priority[x]
    <3>1. Elements(u.lists[m]) \subseteq Tasks
      BY <2>1, ElementsOfSeq
    <3>2. u.priority = k.priority /\ v.priority = [k.priority EXCEPT ![t] = p]
      BY <1>1, <1>2, <1>3 DEF SameButLists
    <3>3. k.priority \in [Tasks -> Priorities \cup {0}]
      BY DEF KernelOK, KernelStates
    <3> QED
      BY <2>1, <3>1, <3>2, <3>3
  <2>3. Falling(u.lists[m], v.priority)
    BY <2>1, <2>2, FallingSameKeys
  <2> QED
    BY <2>1, <2>3, <1>3
<1>7. KernelOKWithout(v, t)
  <2>1. Unlinked(v, t) /\ \A w \in Tasks \ {t} : LinkedRight(v, w)
    BY <1>1, <1>2, <1>3 DEF KernelOKWithout, Unlinked, LinkedRight
  <2> QED
    BY <1>1, <1>2, <1>3, <1>5, <1>6, <2>1 DEF KernelOKWithout
<1>8. CASE l = NoList
  <2>1. gyros__set_priority(k, t, p) = c
    BY <1>2, <1>8 DEF gyros__set_priority, c, l
  <2>2. \A m \in ListIds : k.lists[m] \in Seq(Tasks) /\ t \notin Elements(k.lists[m])
    BY <1>8 DEF KernelOK, LinkedRight, KernelStates, l, ListIds, KernelAssumption
  <2>3. ListsOK(c)
    <3> SUFFICES ASSUME NEW m \in ListIds
                 PROVE  Distinct(c.lists[m]) /\ Falling(c.lists[m], c.priority)
      BY DEF ListsOK
    <3>1. Elements(k.lists[m]) \subseteq Tasks
      BY <2>2, ElementsOfSeq
    <3>2. \A x \in Elements(k.lists[m]) : k.priority[x] = c.priority[x]
      BY <1>2, <2>2, <3>1 DEF KernelOK, KernelStates
    <3>3. Distinct(k.lists[m]) /\ Falling(k.lists[m], k.priority)
      BY DEF KernelOK, ListsOK
    <3>4. k.lists[m] \in Seq(Tasks)
      BY <2>2
    <3>5. Falling(k.lists[m], c.priority)
      BY <3>2, <3>3, <3>4, FallingSameKeys
    <3> QED
      BY <1>2, <3>3, <3>5
  <2>4. KernelOK(c)
    BY <1>2, <2>3 DEF KernelOK, LinkedRight
  <2> QED
    BY <1>2, <1>10, <2>1, <2>4
<1>9. CASE l # NoList
  <2>1. l \in ListIds
    BY <1>9 DEF l, KernelOK, KernelStates
  <2>2. gyros__set_priority(k, t, p) = add_task_to_list(v, t, l)
    BY <1>2, <1>9 DEF gyros__set_priority, gyros__task_move, c, l, v
  <2>3. /\ KernelOK(add_task_to_list(v, t, l))
        /\ SameButLists(v, add_task_to_list(v, t, l))
        /\ add_task_to_list(v, t, l).main_list = [v.main_list EXCEPT ![t] = l]
        /\ add_task_to_list(v, t, l).timeouts = v.timeouts
    BY <1>7, <2>1, AddTaskToListOK
  <2>4. [v.main_list EXCEPT ![t] = l] = k.main_list
    BY <1>2, <1>3 DEF KernelOK, KernelStates, l
  <2> QED
    BY <1>2, <1>3, <1>10, <2>2, <2>3, <2>4 DEF SameButLists
<1> QED
    BY <1>8, <1>9

-----------------------------------------------------------------------------
\* f is the run of WakeSeq over the first n tasks, starting in state k.
WakeRun(f, k, tasks, n) ==
    f = [i \in 0..n |-> IF i = 0 THEN k ELSE gyros__task_wake(f[i - 1], tasks[i])]

LEMMA WakeRunExists ==
    ASSUME NEW k, NEW tasks
    PROVE  \A n \in Nat : \E f : WakeRun(f, k, tasks, n)
<1> DEFINE S == {n \in Nat : \E f : WakeRun(f, k, tasks, n)}
<1>1. 0 \in S
  <2>1. WakeRun([i \in 0..0 |-> k], k, tasks, 0)
    BY DEF WakeRun
  <2> QED
    BY <2>1
<1>2. ASSUME NEW n \in Nat, n \in S PROVE n + 1 \in S
  <2>1. PICK f : WakeRun(f, k, tasks, n)
    BY <1>2
  <2> DEFINE g == [i \in 0..n + 1 |->
                       IF i = n + 1 THEN gyros__task_wake(f[n], tasks[n + 1]) ELSE f[i]]
             h == [i \in 0..n + 1 |->
                       IF i = 0 THEN k ELSE gyros__task_wake(g[i - 1], tasks[i])]
  <2>2. ASSUME NEW i \in 0..n + 1 PROVE g[i] = h[i]
    <3>1. CASE i = n + 1
      BY <3>1
    <3>2. CASE i # n + 1 /\ i = 0
      BY <2>1, <3>2 DEF WakeRun
    <3>3. CASE i # n + 1 /\ i # 0
      <4>1. i \in 0..n /\ i - 1 \in 0..n /\ i - 1 # n + 1
        BY <3>3
      <4>2. g[i] = f[i] /\ g[i - 1] = f[i - 1]
        BY <4>1, <3>3
      <4>3. f[i] = gyros__task_wake(f[i - 1], tasks[i])
        BY <2>1, <3>3, <4>1 DEF WakeRun
      <4> QED
        BY <3>3, <4>2, <4>3
    <3> QED
      BY <3>1, <3>2, <3>3
  <2>3. g = h
    BY <2>2
  <2>4. WakeRun(g, k, tasks, n + 1)
    BY <2>3 DEF WakeRun
  <2> QED
    BY <2>4
<1>3. Nat \subseteq S
  <2> HIDE DEF S
  <2> QED
    BY <1>1, <1>2, SetInduction
<1> QED
    BY <1>3

LEMMA WakeSeqUnfolds ==
    ASSUME NEW k, NEW tasks \in Seq(Tasks)
    PROVE  \E f : /\ WakeRun(f, k, tasks, Len(tasks))
                  /\ WakeSeq(k, tasks) = f[Len(tasks)]
<1> DEFINE f == CHOOSE g : WakeRun(g, k, tasks, Len(tasks))
<1>1. WakeRun(f, k, tasks, Len(tasks))
  <2>1. Len(tasks) \in Nat
    OBVIOUS
  <2> QED
    BY <2>1, WakeRunExists
<1>2. WakeSeq(k, tasks) = f[Len(tasks)]
    BY DEF WakeSeq, WakeRun
<1> QED
    BY <1>1, <1>2

\* The first n tasks of a sequence.
FirstOf(tasks, n) == {tasks[i] : i \in 1..n}

\* Waking a sequence of tasks makes exactly those runnable, and takes them
\* off the timeout list; everything else is left alone.
LEMMA WakeSeqOK ==
    ASSUME NEW k, KernelOK(k), NEW tasks \in Seq(Tasks)
    PROVE  /\ KernelOK(WakeSeq(k, tasks))
           /\ SameButLists(k, WakeSeq(k, tasks))
           /\ \A u \in Tasks : WakeSeq(k, tasks).main_list[u] =
                  IF u \in Elements(tasks) THEN Running ELSE k.main_list[u]
           /\ Elements(WakeSeq(k, tasks).timeouts) = Elements(k.timeouts) \ Elements(tasks)
<1>1. PICK f : /\ WakeRun(f, k, tasks, Len(tasks))
               /\ WakeSeq(k, tasks) = f[Len(tasks)]
    BY WakeSeqUnfolds
<1> DEFINE P(n) == /\ KernelOK(f[n])
                   /\ SameButLists(k, f[n])
                   /\ \A u \in Tasks : f[n].main_list[u] =
                          IF u \in FirstOf(tasks, n) THEN Running ELSE k.main_list[u]
                   /\ Elements(f[n].timeouts) = Elements(k.timeouts) \ FirstOf(tasks, n)
           S == {n \in Nat : n <= Len(tasks) => P(n)}
<1>2. f[0] = k /\ \A n \in Nat : n + 1 <= Len(tasks) =>
                      f[n + 1] = gyros__task_wake(f[n], tasks[n + 1])
  <2>1. f[0] = k
    BY <1>1 DEF WakeRun
  <2>2. ASSUME NEW n \in Nat, n + 1 <= Len(tasks)
        PROVE  f[n + 1] = gyros__task_wake(f[n], tasks[n + 1])
    <3>1. n + 1 \in 0..Len(tasks) /\ n + 1 # 0 /\ (n + 1) - 1 = n
      BY <2>2
    <3>2. f[n + 1] = gyros__task_wake(f[(n + 1) - 1], tasks[n + 1])
      BY <1>1, <3>1 DEF WakeRun
    <3> QED
      BY <3>1, <3>2
  <2> QED
    BY <2>1, <2>2
<1>3. P(0)
  <2>1. FirstOf(tasks, 0) = {}
    BY DEF FirstOf
  <2> QED
    BY <1>2, <2>1 DEF SameButLists
<1>4. ASSUME NEW n \in Nat, n + 1 <= Len(tasks), P(n) PROVE P(n + 1)
  <2> DEFINE t == tasks[n + 1]
  <2>1. t \in Tasks
    BY <1>4
  <2>2. FirstOf(tasks, n + 1) = FirstOf(tasks, n) \cup {t}
    BY DEF FirstOf
  <2>3. f[n + 1] = gyros__task_wake(f[n], t)
    BY <1>2, <1>4
  <2> HIDE DEF t
  <2>4. /\ KernelOK(f[n + 1])
        /\ SameButLists(f[n], f[n + 1])
        /\ f[n + 1].main_list = [f[n].main_list EXCEPT ![t] = Running]
        /\ Elements(f[n + 1].timeouts) = Elements(f[n].timeouts) \ {t}
    <3>1. KernelOK(f[n])
      BY <1>4
    <3> HIDE DEF P
    <3> DEFINE a == f[n]
    <3>2. KernelOK(a)
      BY <3>1
    <3> HIDE DEF a
    <3>3. /\ KernelOK(gyros__task_wake(a, t))
          /\ SameButLists(a, gyros__task_wake(a, t))
          /\ gyros__task_wake(a, t).main_list = [a.main_list EXCEPT ![t] = Running]
          /\ Elements(gyros__task_wake(a, t).timeouts) = Elements(a.timeouts) \ {t}
      BY <2>1, <3>2, TaskWakeOK
    <3>4. f[n + 1] = gyros__task_wake(a, t)
      BY <2>3 DEF a
    <3> QED
      BY <3>3, <3>4 DEF a
  <2>5. SameButLists(k, f[n + 1])
    BY <1>4, <2>4 DEF SameButLists
  <2>6. f[n].main_list \in [Tasks -> ListIds \cup {NoList}]
    BY <1>4 DEF KernelOK, KernelStates
  <2>7. ASSUME NEW u \in Tasks
        PROVE  f[n + 1].main_list[u] =
                   IF u \in FirstOf(tasks, n + 1) THEN Running ELSE k.main_list[u]
    BY <1>4, <2>2, <2>4, <2>6
  <2>8. Elements(f[n + 1].timeouts) = Elements(k.timeouts) \ FirstOf(tasks, n + 1)
    BY <1>4, <2>2, <2>4
  <2> QED
    BY <2>4, <2>5, <2>7, <2>8
<1> HIDE DEF P
<1>5. Nat \subseteq S
  <2>1. 0 \in S
    BY <1>3
  <2>2. ASSUME NEW n \in Nat, n \in S PROVE n + 1 \in S
    BY <1>4, <2>2
  <2> HIDE DEF S
  <2> QED
    BY <2>1, <2>2, SetInduction
<1>6. P(Len(tasks))
  <2>1. Len(tasks) \in S
    BY <1>5
  <2> QED
    BY <2>1
<1>7. FirstOf(tasks, Len(tasks)) = Elements(tasks)
    BY DEF FirstOf, Elements, ToSet
<1> QED
    BY <1>1, <1>6, <1>7 DEF P

\* A task that is woken leaves the timeout list; the others stay in order.
LEMMA WakeTimeouts ==
    ASSUME NEW k, KernelOK(k), NEW t \in Tasks
    PROVE  gyros__task_wake(k, t).timeouts = ListRemove(k.timeouts, t)
<1> DEFINE r == RemoveTimeout(k, t)
<1>1. KernelOK(r)
    BY RemoveTimeoutOK
<1>2. r.timeouts = ListRemove(k.timeouts, t)
    BY DEF RemoveTimeout, KernelOK, KernelStates
<1> HIDE DEF r
<1>3. gyros__task_move(r, t, Running).timeouts = r.timeouts
    BY <1>1, TaskMoveOK DEF ListIds
<1> QED
    BY <1>2, <1>3 DEF gyros__task_wake, r

LEMMA WakeSeqFalling ==
    ASSUME NEW k, KernelOK(k), NEW tasks \in Seq(Tasks), NEW key, Falling(k.timeouts, key)
    PROVE  Falling(WakeSeq(k, tasks).timeouts, key)
<1>1. PICK f : /\ WakeRun(f, k, tasks, Len(tasks))
               /\ WakeSeq(k, tasks) = f[Len(tasks)]
    BY WakeSeqUnfolds
<1> DEFINE P(n) == KernelOK(f[n]) /\ Falling(f[n].timeouts, key)
           S == {n \in Nat : n <= Len(tasks) => P(n)}
<1>2. f[0] = k
    BY <1>1 DEF WakeRun
<1>3. ASSUME NEW n \in Nat, n + 1 <= Len(tasks)
      PROVE  f[n + 1] = gyros__task_wake(f[n], tasks[n + 1])
  <2>1. n + 1 \in 0..Len(tasks) /\ n + 1 # 0 /\ (n + 1) - 1 = n
      BY <1>3
  <2>2. f[n + 1] = gyros__task_wake(f[(n + 1) - 1], tasks[n + 1])
      BY <1>1, <2>1 DEF WakeRun
  <2> QED
      BY <2>1, <2>2
<1>4. ASSUME NEW n \in Nat, n + 1 <= Len(tasks), P(n) PROVE P(n + 1)
  <2> DEFINE a == f[n]
             t == tasks[n + 1]
  <2>1. KernelOK(a) /\ Falling(a.timeouts, key) /\ t \in Tasks
      BY <1>4
  <2>2. f[n + 1] = gyros__task_wake(a, t)
      BY <1>3, <1>4
  <2> HIDE DEF a, t
  <2>3. KernelOK(gyros__task_wake(a, t))
      BY <2>1, TaskWakeOK
  <2>4. gyros__task_wake(a, t).timeouts = ListRemove(a.timeouts, t)
      BY <2>1, WakeTimeouts
  <2>5. a.timeouts \in Seq(Tasks) /\ Distinct(a.timeouts)
      BY <2>1 DEF KernelOK, KernelStates
  <2>6. Falling(ListRemove(a.timeouts, t), key)
      BY <2>1, <2>5, ListRemoveProperties
  <2> QED
      BY <2>2, <2>3, <2>4, <2>6
<1> HIDE DEF P
<1>5. 0 \in S
  <2>1. P(0)
      BY <1>2 DEF P
  <2> QED
      BY <2>1
<1>6. ASSUME NEW n \in Nat, n \in S PROVE n + 1 \in S
    BY <1>4, <1>6
<1>7. Len(tasks) \in S
  <2> HIDE DEF S
  <2>1. Nat \subseteq S
      BY <1>5, <1>6, SetInduction
  <2> QED
      BY <2>1
<1>8. P(Len(tasks))
    BY <1>7
<1> QED
    BY <1>1, <1>8 DEF P

\* A waiter of list l is woken by WakeAllFromTail, and nobody else.
LEMMA WakeAllOK ==
    ASSUME NEW k, KernelOK(k), NEW l \in ListIds
    PROVE  /\ KernelOK(WakeAllFromTail(k, l))
           /\ SameButLists(k, WakeAllFromTail(k, l))
           /\ \A u \in Tasks : WakeAllFromTail(k, l).main_list[u] =
                  IF k.main_list[u] = l THEN Running ELSE k.main_list[u]
           /\ Elements(WakeAllFromTail(k, l).timeouts)
                = Elements(k.timeouts) \ Elements(k.lists[l])
<1> DEFINE s == k.lists[l]
           r == Reverse(s)
<1>1. s \in Seq(Tasks)
    BY DEF KernelOK, KernelStates
<1> HIDE DEF s
<1>2. r \in Seq(Tasks) /\ Len(r) = Len(s)
      /\ \A i \in 1..Len(s) : r[i] = s[Len(s) - i + 1]
    BY <1>1 DEF Reverse
<1> HIDE DEF r
<1>3. Elements(r) = Elements(s)
  <2>1. ASSUME NEW x \in Elements(r) PROVE x \in Elements(s)
    <3>1. PICK i \in 1..Len(s) : r[i] = x
      BY <1>2, <2>1 DEF Elements, ToSet
    <3>2. Len(s) - i + 1 \in 1..Len(s)
      BY <1>1
    <3>3. s[Len(s) - i + 1] = x
      BY <1>2, <3>1
    <3> QED
      BY <1>1, <3>2, <3>3 DEF Elements, ToSet
  <2>2. ASSUME NEW x \in Elements(s) PROVE x \in Elements(r)
    <3>1. PICK i \in 1..Len(s) : s[i] = x
      BY <1>1, <2>2 DEF Elements, ToSet
    <3>2. Len(s) - i + 1 \in 1..Len(s) /\ Len(s) - (Len(s) - i + 1) + 1 = i
      BY <1>1
    <3>3. r[Len(s) - i + 1] = x
      BY <1>2, <3>1, <3>2
    <3> QED
      BY <1>2, <3>2, <3>3 DEF Elements, ToSet
  <2> QED
    BY <2>1, <2>2
<1>4. \A u \in Tasks : u \in Elements(s) <=> k.main_list[u] = l
    BY DEF KernelOK, LinkedRight, s
<1>5. WakeAllFromTail(k, l) = WakeSeq(k, r)
    BY DEF WakeAllFromTail, r, s
<1>6. /\ KernelOK(WakeSeq(k, r)) /\ SameButLists(k, WakeSeq(k, r))
      /\ \A u \in Tasks : WakeSeq(k, r).main_list[u] =
             IF u \in Elements(r) THEN Running ELSE k.main_list[u]
      /\ Elements(WakeSeq(k, r).timeouts) = Elements(k.timeouts) \ Elements(r)
    BY <1>2, WakeSeqOK
<1>7. Elements(k.lists[l]) = Elements(r)
    BY <1>3 DEF s
<1> QED
    BY <1>3, <1>4, <1>5, <1>6, <1>7

-----------------------------------------------------------------------------
\* Removing a task that is not the first running one leaves the first one.
LEMMA FirstRunningStays ==
    ASSUME NEW k, KernelOK(k), NEW t \in Tasks,
           k.lists[Running] # <<>>, Head(k.lists[Running]) # t
    PROVE  /\ gyros__task_suspend(k, t).lists[Running] # <<>>
           /\ Head(gyros__task_suspend(k, t).lists[Running]) = Head(k.lists[Running])
<1> DEFINE s == k.lists[Running]
<1>1. s \in Seq(Tasks) /\ Running \in ListIds
    BY DEF KernelOK, KernelStates, ListIds
<1>2. gyros__task_suspend(k, t).lists[Running] = ListRemove(s, t)
    BY <1>1 DEF gyros__task_suspend, UnlinkMain, KernelOK, KernelStates
<1>3. Head(s) = s[1]
    BY <1>1
<1> QED
    BY <1>1, <1>2, <1>3, ListRemoveHead

\* A runnable task keeps the list of running tasks from being empty.
LEMMA RunningNotEmpty ==
    ASSUME NEW k, KernelOK(k), NEW t \in Tasks, k.main_list[t] = Running
    PROVE  k.lists[Running] # <<>> /\ Head(k.lists[Running]) \in Tasks
<1>1. Running \in ListIds /\ k.lists[Running] \in Seq(Tasks)
    BY DEF KernelOK, KernelStates, ListIds
<1>2. t \in Elements(k.lists[Running])
    BY <1>1 DEF KernelOK, LinkedRight
<1> QED
    BY <1>1, <1>2, ElementsOfSeq

\* gyros__reschedule and the context switch keep the lists as they are.
LEMMA RescheduleOK ==
    ASSUME NEW k, KernelOK(k)
    PROVE  /\ KernelOK(gyros__reschedule(k))
           /\ gyros__reschedule(k) = [k EXCEPT !.pendsv = TRUE]
    BY DEF gyros__reschedule, KernelOK, KernelStates, ListsOK, LinkedRight

\* After gyros__cond_reschedule the first running task is current, or a switch
\* to it has been requested.
LEMMA CondRescheduleOK ==
    ASSUME NEW k, KernelOK(k)
    PROVE  LET n == gyros__cond_reschedule(k)
           IN  /\ KernelOK(n)
               /\ n = k \/ n = [k EXCEPT !.pendsv = TRUE]
               /\ n.pendsv \/ Head(n.lists[Running]) = n.current
<1>1. CASE Head(k.lists[Running]) # k.current
  <2>1. gyros__cond_reschedule(k) = gyros__reschedule(k)
    BY <1>1 DEF gyros__cond_reschedule
  <2>2. [k EXCEPT !.pendsv = TRUE].pendsv
    BY DEF KernelOK, KernelStates
  <2> QED
    BY <2>1, <2>2, RescheduleOK
<1>2. CASE Head(k.lists[Running]) = k.current
    BY <1>2 DEF gyros__cond_reschedule
<1> QED
    BY <1>1, <1>2

\* n differs from k as a finished t demands: t is unlinked everywhere and
\* those who waited to join it run.
FinishedRight(k, n, t) ==
    /\ KernelOK(n)
    /\ n.current = k.current /\ n.pendsv = k.pendsv
    /\ ~n.joinable[t]
    /\ \A u \in Tasks \ {t} : n.joinable[u] = k.joinable[u]
    /\ n.main_list[t] = NoList
    /\ \A u \in Tasks \ {t} :
           \/ k.main_list[u] = t /\ n.main_list[u] = Running
           \/ k.main_list[u] # t /\ n.main_list[u] = k.main_list[u]
    /\ Elements(n.timeouts) \subseteq Elements(k.timeouts) \ {t}
    /\ \A u \in Tasks \ {t} : k.main_list[u] = t => u \notin Elements(n.timeouts)

LEMMA TaskFinishOK ==
    ASSUME NEW k, KernelOK(k), NEW t \in Tasks, k.main_list[t] # t
    PROVE  FinishedRight(k, gyros__task_finish(k, t), t)
<1> DEFINE a == gyros__task_suspend(k, t)
           b == RemoveTimeout(a, t)
           c == [b EXCEPT !.joinable[t] = FALSE]
           n == WakeAllFromTail(c, t)
<1>1. /\ KernelOK(a) /\ SameButLists(k, a) /\ a.timeouts = k.timeouts
      /\ a.main_list = [k.main_list EXCEPT ![t] = NoList]
    BY TaskSuspendOK
<1> HIDE DEF a
<1>2. /\ KernelOK(b) /\ SameButLists(a, b) /\ b.main_list = a.main_list
      /\ Elements(b.timeouts) = Elements(k.timeouts) \ {t}
    BY <1>1, RemoveTimeoutOK
<1> HIDE DEF b
<1>3. /\ KernelOK(c)
      /\ c.current = b.current /\ c.pendsv = b.pendsv /\ c.now = b.now
      /\ c.priority = b.priority
      /\ c.joinable = [b.joinable EXCEPT ![t] = FALSE]
      /\ c.main_list = b.main_list /\ c.timeouts = b.timeouts /\ c.lists = b.lists
    BY <1>2 DEF KernelOK, KernelStates, ListsOK, LinkedRight
<1>4. gyros__task_finish(k, t) = n
    BY DEF gyros__task_finish, a, b
<1> HIDE DEF c
<1>5. t \in ListIds /\ t # NoList
    BY DEF ListIds, KernelAssumption
<1>6. /\ KernelOK(n) /\ SameButLists(c, n)
      /\ \A u \in Tasks : n.main_list[u] =
             IF c.main_list[u] = t THEN Running ELSE c.main_list[u]
      /\ Elements(n.timeouts) = Elements(c.timeouts) \ Elements(c.lists[t])
  <2>1. KernelOK(c) /\ t \in ListIds
    BY <1>3, <1>5
  <2> QED
    BY <2>1, WakeAllOK
<1> HIDE DEF n
<1>7. /\ c.main_list[t] = NoList
      /\ \A u \in Tasks \ {t} : c.main_list[u] = k.main_list[u]
    BY <1>1, <1>2, <1>3 DEF KernelOK, KernelStates
<1>8. \A u \in Tasks \ {t} : k.main_list[u] = t => u \in Elements(c.lists[t])
    BY <1>3, <1>5, <1>7 DEF KernelOK, LinkedRight
<1>9. ~n.joinable[t] /\ \A u \in Tasks \ {t} : n.joinable[u] = k.joinable[u]
    BY <1>1, <1>2, <1>3, <1>6 DEF SameButLists, KernelOK, KernelStates
<1> QED
    BY <1>1, <1>2, <1>3, <1>4, <1>5, <1>6, <1>7, <1>8, <1>9 DEF SameButLists, FinishedRight

\* gyros__task_set_timeout queues the current task, once, and nothing else.
LEMMA SetTimeoutOK ==
    ASSUME NEW k, KernelOK(k), NEW timeout \in Time,
           k.current \in Tasks, k.current \notin Elements(k.timeouts)
    PROVE  LET n == gyros__task_set_timeout(k, timeout)
           IN  /\ KernelOK(n)
               /\ n.lists = k.lists /\ n.main_list = k.main_list
               /\ n.current = k.current /\ n.pendsv = k.pendsv /\ n.now = k.now
               /\ n.priority = k.priority /\ n.base_priority = k.base_priority
               /\ n.joinable = k.joinable
               /\ n.timeout = [k.timeout EXCEPT ![k.current] = timeout]
               /\ n.timed_out = [k.timed_out EXCEPT ![k.current] = FALSE]
               /\ Elements(n.timeouts) = Elements(k.timeouts) \cup {k.current}
<1> DEFINE later == {i \in 1..Len(k.timeouts) :
                        gyros_time_compare(timeout, k.timeout[k.timeouts[i]]) < 0}
           p == FirstPosition(k.timeouts, later)
           s == ListInsertBefore(k.timeouts, p, k.current)
           n == gyros__task_set_timeout(k, timeout)
<1>1. k.timeouts \in Seq(Tasks) /\ Distinct(k.timeouts)
    BY DEF KernelOK, KernelStates
<1>2. n = [k EXCEPT !.timeouts = s, !.timeout[k.current] = timeout,
                    !.timed_out[k.current] = FALSE]
    BY DEF gyros__task_set_timeout
<1>3. later \subseteq 1..Len(k.timeouts)
    OBVIOUS
<1> HIDE DEF later, n
<1>4. p \in 1..Len(k.timeouts) + 1
    BY <1>1, <1>3, FirstPositionProperties
<1> HIDE DEF p
<1>5. /\ s \in Seq(Tasks) /\ Distinct(s)
      /\ Elements(s) = Elements(k.timeouts) \cup {k.current}
    BY <1>1, <1>4, ListInsertProperties
<1> HIDE DEF s
<1>6. /\ n \in KernelStates /\ n.timeouts = s
      /\ n.lists = k.lists /\ n.main_list = k.main_list
      /\ n.current = k.current /\ n.pendsv = k.pendsv /\ n.now = k.now
      /\ n.priority = k.priority /\ n.base_priority = k.base_priority
      /\ n.joinable = k.joinable
      /\ n.timeout = [k.timeout EXCEPT ![k.current] = timeout]
      /\ n.timed_out = [k.timed_out EXCEPT ![k.current] = FALSE]
  <2>1. /\ n.timeouts = s
        /\ n.lists = k.lists /\ n.main_list = k.main_list
        /\ n.current = k.current /\ n.pendsv = k.pendsv /\ n.now = k.now
        /\ n.priority = k.priority /\ n.base_priority = k.base_priority
        /\ n.joinable = k.joinable
        /\ n.timeout = [k.timeout EXCEPT ![k.current] = timeout]
        /\ n.timed_out = [k.timed_out EXCEPT ![k.current] = FALSE]
      BY <1>2 DEF KernelOK, KernelStates
  <2>2. n \in KernelStates
      BY <1>2, <1>5 DEF KernelOK, KernelStates
  <2> QED
      BY <2>1, <2>2
<1>7. ListsOK(n) /\ \A t \in Tasks : LinkedRight(n, t)
    BY <1>6 DEF KernelOK, ListsOK, LinkedRight
<1> QED
    BY <1>5, <1>6, <1>7 DEF KernelOK, n

\* n is k after gyros__tick has woken the tasks of e.
TickedTo(k, n, e, now) ==
    /\ KernelOK(n) /\ n.now = now
    /\ n.current = k.current /\ n.timeout = k.timeout
    /\ n.priority = k.priority /\ n.joinable = k.joinable
    /\ n.base_priority = k.base_priority
    /\ e \in Seq(Tasks) /\ Elements(e) \subseteq Elements(k.timeouts)
    /\ \A u \in Tasks :
           IF u \in Elements(e)
           THEN n.main_list[u] = Running /\ n.timed_out[u]
           ELSE n.main_list[u] = k.main_list[u] /\ n.timed_out[u] = k.timed_out[u]
    /\ Elements(n.timeouts) = Elements(k.timeouts) \ Elements(e)
    /\ \A key : Falling(k.timeouts, key) => Falling(n.timeouts, key)
    /\ n.pendsv \/ (n.lists = k.lists /\ n.pendsv = k.pendsv)

\* The timer interrupt wakes the tasks of ExpiredTimeouts, and no others.
LEMMA TickDetails ==
    ASSUME NEW k, KernelOK(k), NEW now \in Time
    PROVE  TickedTo(k, gyros__tick(k, now), ExpiredTimeouts(k, now), now)
<1> DEFINE future == {i \in 1..Len(k.timeouts) :
                         gyros_time_compare(now, k.timeout[k.timeouts[i]]) < 0}
           p == FirstPosition(k.timeouts, future)
           expired == SubSeq(k.timeouts, 1, p - 1)
           a == [k EXCEPT
                    !.now = now,
                    !.timed_out = [t \in Tasks |-> t \in Elements(expired) \/ @[t]]]
           b == WakeSeq(a, expired)
<1>1. k.timeouts \in Seq(Tasks)
    BY DEF KernelOK, KernelStates
<1>2. future \subseteq 1..Len(k.timeouts)
    OBVIOUS
<1>3. /\ gyros__tick(k, now) = IF expired = <<>> THEN b ELSE gyros__reschedule(b)
      /\ ExpiredTimeouts(k, now) = expired
    BY DEF gyros__tick, ExpiredTimeouts
<1> HIDE DEF future
<1>4. p \in 1..Len(k.timeouts) + 1
    BY <1>1, <1>2, FirstPositionProperties
<1> HIDE DEF p
<1>5. expired \in Seq(Tasks) /\ Elements(expired) \subseteq Elements(k.timeouts)
  <2>1. /\ expired \in Seq(Tasks) /\ Len(expired) = p - 1
        /\ \A i \in 1..p - 1 : expired[i] = k.timeouts[i]
    BY <1>1, <1>4, SubSeqProperties
  <2> HIDE DEF expired
  <2> QED
    BY <1>1, <1>4, <2>1 DEF Elements, ToSet
<1> HIDE DEF expired
<1>6. /\ KernelOK(a)
      /\ a.current = k.current /\ a.pendsv = k.pendsv /\ a.lists = k.lists
      /\ a.priority = k.priority /\ a.joinable = k.joinable
      /\ a.base_priority = k.base_priority
      /\ a.main_list = k.main_list /\ a.timeouts = k.timeouts
      /\ a.timeout = k.timeout /\ a.now = now
      /\ \A u \in Tasks : IF u \in Elements(expired) THEN a.timed_out[u]
                          ELSE a.timed_out[u] = k.timed_out[u]
  <2>1. /\ a \in KernelStates
        /\ a.current = k.current /\ a.pendsv = k.pendsv /\ a.lists = k.lists
        /\ a.priority = k.priority /\ a.joinable = k.joinable
        /\ a.base_priority = k.base_priority
        /\ a.main_list = k.main_list /\ a.timeouts = k.timeouts
        /\ a.timeout = k.timeout /\ a.now = now
    BY DEF KernelOK, KernelStates
  <2>3. \A u \in Tasks : IF u \in Elements(expired) THEN a.timed_out[u]
                        ELSE a.timed_out[u] = k.timed_out[u]
    <3>1. a.timed_out = [u \in Tasks |-> u \in Elements(expired) \/ k.timed_out[u]]
        BY DEF KernelOK, KernelStates
    <3>2. \A u \in Tasks : a.timed_out[u] = (u \in Elements(expired) \/ k.timed_out[u])
        BY <3>1, Zenon
    <3>3. \A u \in Tasks : k.timed_out[u] \in BOOLEAN
      <4>1. k.timed_out \in [Tasks -> BOOLEAN]
          BY DEF KernelOK, KernelStates
      <4> QED
          BY <4>1, Zenon
    <3>4. ASSUME NEW u \in Tasks, u \in Elements(expired) PROVE a.timed_out[u]
        BY <3>2, <3>4, Zenon
    <3>5. ASSUME NEW u \in Tasks, u \notin Elements(expired)
          PROVE  a.timed_out[u] = k.timed_out[u]
        BY <3>2, <3>3, <3>5
    <3> QED
        BY <3>4, <3>5, Zenon
  <2> HIDE DEF a
  <2>2. ListsOK(a) /\ \A t \in Tasks : LinkedRight(a, t)
    BY <2>1 DEF KernelOK, ListsOK, LinkedRight
  <2> QED
    BY <2>1, <2>2, <2>3 DEF KernelOK
<1> HIDE DEF a
<1>7. /\ KernelOK(b) /\ SameButLists(a, b)
      /\ \A u \in Tasks : b.main_list[u] =
             IF u \in Elements(expired) THEN Running ELSE a.main_list[u]
      /\ Elements(b.timeouts) = Elements(a.timeouts) \ Elements(expired)
      /\ \A key : Falling(a.timeouts, key) => Falling(b.timeouts, key)
  <2>1. KernelOK(a)
    BY <1>6
  <2>2. ASSUME NEW key, Falling(a.timeouts, key) PROVE Falling(b.timeouts, key)
    BY <1>5, <2>1, <2>2, WakeSeqFalling
  <2> QED
    BY <1>5, <2>1, <2>2, WakeSeqOK
<1>8. CASE expired = <<>>
  <2>1. PICK f : /\ WakeRun(f, a, expired, Len(expired))
                 /\ WakeSeq(a, expired) = f[Len(expired)]
    BY <1>5, WakeSeqUnfolds
  <2>2. b = a
    BY <1>8, <2>1 DEF WakeRun
  <2>3. Elements(expired) = {}
    BY <1>8 DEF Elements, ToSet
  <2>4. gyros__tick(k, now) = a
    BY <1>3, <1>8, <2>2
  <2> HIDE DEF b
  <2>5. TickedTo(k, a, expired, now)
    BY <1>5, <1>6, <2>3 DEF TickedTo
  <2> QED
    BY <1>3, <2>4, <2>5
<1>9. CASE expired # <<>>
  <2> HIDE DEF b
  <2>1. KernelOK(gyros__reschedule(b)) /\ gyros__reschedule(b) = [b EXCEPT !.pendsv = TRUE]
    BY <1>7, RescheduleOK
  <2> DEFINE n == gyros__reschedule(b)
  <2>2. /\ n.pendsv /\ n.current = b.current /\ n.priority = b.priority
        /\ n.joinable = b.joinable /\ n.main_list = b.main_list
        /\ n.base_priority = b.base_priority
        /\ n.timeouts = b.timeouts /\ n.now = b.now
        /\ n.timeout = b.timeout /\ n.timed_out = b.timed_out
    BY <1>7, <2>1 DEF KernelOK, KernelStates
  <2>3. gyros__tick(k, now) = n
    BY <1>3, <1>9
  <2>4. KernelOK(n)
    BY <2>1
  <2> HIDE DEF n
  <2>5. /\ n.now = now /\ n.current = k.current /\ n.timeout = k.timeout
        /\ n.priority = k.priority /\ n.joinable = k.joinable
        /\ n.base_priority = k.base_priority
    BY <1>6, <1>7, <2>2 DEF SameButLists
  <2>6. \A u \in Tasks :
            IF u \in Elements(expired)
            THEN n.main_list[u] = Running /\ n.timed_out[u]
            ELSE n.main_list[u] = k.main_list[u] /\ n.timed_out[u] = k.timed_out[u]
    <3>1. n.timed_out = a.timed_out
        BY <1>7, <2>2 DEF SameButLists
    <3>2. \A u \in Tasks : n.main_list[u] =
              IF u \in Elements(expired) THEN Running ELSE k.main_list[u]
        BY <1>6, <1>7, <2>2
    <3> QED
        BY <1>6, <3>1, <3>2, Zenon
  <2>7. /\ Elements(n.timeouts) = Elements(k.timeouts) \ Elements(expired)
        /\ \A key : Falling(k.timeouts, key) => Falling(n.timeouts, key)
    BY <1>6, <1>7, <2>2
  <2>8. TickedTo(k, n, expired, now)
    BY <1>5, <2>2, <2>4, <2>5, <2>6, <2>7 DEF TickedTo
  <2> QED
    BY <1>3, <2>3, <2>8
<1> QED
    BY <1>8, <1>9

\* The timer interrupt wakes tasks that waited for a timeout, no others, and
\* requests a context switch when it woke one.
LEMMA TickOK ==
    ASSUME NEW k, KernelOK(k), NEW now \in Time
    PROVE  LET n == gyros__tick(k, now)
           IN  /\ KernelOK(n)
               /\ n.current = k.current
               /\ n.priority = k.priority /\ n.joinable = k.joinable
               /\ n.base_priority = k.base_priority
               /\ \A u \in Tasks :
                      \/ n.main_list[u] = k.main_list[u] /\ n.timed_out[u] = k.timed_out[u]
                      \/ /\ n.main_list[u] = Running /\ n.timed_out[u]
                         /\ u \in Elements(k.timeouts) /\ u \notin Elements(n.timeouts)
               /\ Elements(n.timeouts) \subseteq Elements(k.timeouts)
               /\ n.timeout = k.timeout
               /\ n.pendsv \/ (n.lists = k.lists /\ n.pendsv = k.pendsv)
<1> DEFINE n == gyros__tick(k, now)
           e == ExpiredTimeouts(k, now)
<1>1. TickedTo(k, n, e, now)
    BY TickDetails
<1> HIDE DEF n, e
<1>2. \A u \in Tasks :
          \/ n.main_list[u] = k.main_list[u] /\ n.timed_out[u] = k.timed_out[u]
          \/ /\ n.main_list[u] = Running /\ n.timed_out[u]
             /\ u \in Elements(k.timeouts) /\ u \notin Elements(n.timeouts)
    BY <1>1, Zenon DEF TickedTo
<1>3. Elements(n.timeouts) \subseteq Elements(k.timeouts)
    BY <1>1 DEF TickedTo
<1> QED
    BY <1>1, <1>2, <1>3 DEF n, TickedTo

\* If nobody waits to join t, finishing another task than the first running
\* one leaves the first one where it is.
LEMMA FinishUnjoined ==
    ASSUME NEW k, KernelOK(k), NEW t \in Tasks, k.lists[t] = <<>>,
           k.lists[Running] # <<>>, Head(k.lists[Running]) # t
    PROVE  Head(gyros__task_finish(k, t).lists[Running]) = Head(k.lists[Running])
<1> DEFINE a == gyros__task_suspend(k, t)
           b == RemoveTimeout(a, t)
           c == [b EXCEPT !.joinable[t] = FALSE]
<1>1. KernelOK(a) /\ Head(a.lists[Running]) = Head(k.lists[Running])
    BY TaskSuspendOK, FirstRunningStays
<1>2. t \in ListIds /\ Running \in ListIds
    BY DEF ListIds, KernelAssumption
<1>3. a.lists[t] = <<>>
  <2>1. a.lists[t] = ListRemove(k.lists[t], t)
    BY <1>2 DEF a, gyros__task_suspend, UnlinkMain, KernelOK, KernelStates
  <2>2. ListRemove(<<>>, t) = <<>>
    BY DEF ListRemove, RemoveFirst
  <2> QED
    BY <2>1, <2>2
<1>4. KernelOK(b) /\ b.lists = a.lists
    BY <1>1, RemoveTimeoutOK
<1> HIDE DEF a, b
<1>5. c.lists = a.lists
    BY <1>4 DEF KernelOK, KernelStates
<1>6. gyros__task_finish(k, t) = WakeSeq(c, Reverse(c.lists[t]))
    BY DEF gyros__task_finish, WakeAllFromTail, a, b
<1>7. Reverse(c.lists[t]) = <<>>
    BY <1>3, <1>5 DEF Reverse
<1> HIDE DEF c
<1>8. WakeSeq(c, <<>>) = c
  <2>1. <<>> \in Seq(Tasks) /\ Len(<<>>) = 0
    OBVIOUS
  <2>2. PICK f : WakeRun(f, c, <<>>, 0) /\ WakeSeq(c, <<>>) = f[0]
    BY <2>1, WakeSeqUnfolds
  <2> QED
    BY <2>2 DEF WakeRun
<1> QED
    BY <1>1, <1>5, <1>6, <1>7, <1>8

-----------------------------------------------------------------------------
(* The running tasks of each priority, seen as a queue of their own.       *)

\* The running tasks of priority p, in the order of the list.
Level(k, p) == Keep(k.lists[Running], {t \in Tasks : k.priority[t] = p})

\* From list a to list b, only tasks in moved leave their places, and those
\* that join the list or come back to it go to its end.
Requeued(a, b, moved) ==
    \E r \in Seq(Tasks) :
        b = Keep(a, Tasks \ moved) \o r /\ Elements(r) \subseteq moved

\* The same for the running tasks of every priority.
RequeuedAll(k, n, moved) ==
    \A p \in Priorities \cup {0} : Requeued(Level(k, p), Level(n, p), moved)

\* A level is a list of tasks.
LEMMA LevelType ==
    ASSUME NEW k, k.lists[Running] \in Seq(Tasks), NEW p
    PROVE  Level(k, p) \in Seq(Tasks)
    BY KeepMembers DEF Level

\* A list that stays as it is has been requeued with nobody moving.
LEMMA RequeuedSame ==
    ASSUME NEW a \in Seq(Tasks)
    PROVE  Requeued(a, a, {})
<1>1. <<>> \in Seq(Tasks) /\ Elements(<<>>) = {}
    BY ElementsEmpty
<1>2. Elements(a) \subseteq Tasks \ {}
    BY ElementsOfSeq
<1>3. Keep(a, Tasks \ {}) = a
    BY <1>2, KeepAll
<1>4. a \o <<>> = a
    BY ConcatEmptySeq
<1> QED
    BY <1>1, <1>3, <1>4 DEF Requeued

\* Two steps in a row move those whom either moves.
LEMMA RequeuedTwice ==
    ASSUME NEW a \in Seq(Tasks), NEW b, NEW c, NEW M, NEW N,
           Requeued(a, b, M), Requeued(b, c, N)
    PROVE  Requeued(a, c, M \cup N)
<1>1. PICK r \in Seq(Tasks) : b = Keep(a, Tasks \ M) \o r /\ Elements(r) \subseteq M
    BY DEF Requeued
<1>2. PICK q \in Seq(Tasks) : c = Keep(b, Tasks \ N) \o q /\ Elements(q) \subseteq N
    BY DEF Requeued
<1> DEFINE X == Tasks \ M
           Y == Tasks \ N
           Z == Tasks \ (M \cup N)
           f == Keep(a, X)
           g == Keep(r, Y)
           h == Keep(a, Z)
<1>3. X \cap Y = Z
    OBVIOUS
<1>4. Keep(f, Y) = h
    BY <1>3, KeepTwice
<1>5. f \in Seq(Tasks) /\ g \in Seq(Tasks) /\ h \in Seq(Tasks)
    BY KeepMembers
<1>6. Elements(g) \subseteq M
    BY <1>1, KeepMembers
<1>10. b = f \o r /\ c = Keep(b, Y) \o q
    BY <1>1, <1>2
<1> HIDE DEF X, Y, f, g
<1>14. f \in Seq(Tasks) /\ r \in Seq(Tasks) /\ q \in Seq(Tasks)
    BY <1>1, <1>2, <1>5
<1>7. Keep(f \o r, Y) = Keep(f, Y) \o g
    BY ONLY <1>14, KeepConcat DEF g
<1> HIDE DEF h
<1>8. c = (h \o g) \o q
    BY <1>4, <1>7, <1>10
<1>15. h \in Seq(Tasks) /\ g \in Seq(Tasks) /\ q \in Seq(Tasks)
    BY <1>5, <1>14
<1> HIDE DEF Z
<1>9. (h \o g) \o q = h \o (g \o q)
  <2> DEFINE u == h \o g
             v == g \o q
             w == u \o q
  <2>1. IsConcat(u, h, g) /\ IsConcat(v, g, q) /\ IsConcat(w, u, q)
    BY DEF IsConcat
  <2> HIDE DEF u, v, w
  <2>2. IsConcat(w, h, v)
    BY ONLY <1>15, <2>1, ConcatThree
  <2> QED
    BY <2>2 DEF IsConcat, u, v, w
<1>11. g \o q \in Seq(Tasks)
    BY <1>5
<1>12. Elements(g \o q) \subseteq M \cup N
    BY <1>2, <1>5, <1>6, ElementsConcat
<1>13. c = h \o (g \o q)
    BY <1>8, <1>9
<1> QED
    BY <1>11, <1>12, <1>13 DEF Requeued, h, Z

\* The same at every priority.
LEMMA RequeuedAllTwice ==
    ASSUME NEW k, k.lists[Running] \in Seq(Tasks), NEW m, NEW n, NEW M, NEW N,
           RequeuedAll(k, m, M), RequeuedAll(m, n, N)
    PROVE  RequeuedAll(k, n, M \cup N)
<1> SUFFICES ASSUME NEW p \in Priorities \cup {0}
             PROVE  Requeued(Level(k, p), Level(n, p), M \cup N)
    BY DEF RequeuedAll
<1> DEFINE a == Level(k, p)
           b == Level(m, p)
           c == Level(n, p)
<1>1. a \in Seq(Tasks)
    BY LevelType
<1>2. Requeued(a, b, M) /\ Requeued(b, c, N)
    BY DEF RequeuedAll
<1> HIDE DEF a, b, c
<1>3. Requeued(a, c, M \cup N)
    BY <1>1, <1>2, RequeuedTwice
<1> QED
    BY <1>3 DEF a, c

\* The list and the priorities of its tasks stay as they are.
LEMMA LevelsSame ==
    ASSUME NEW k, k.lists[Running] \in Seq(Tasks), NEW n,
           n.lists[Running] = k.lists[Running],
           \A t \in Elements(k.lists[Running]) : n.priority[t] = k.priority[t]
    PROVE  /\ \A p : Level(n, p) = Level(k, p)
           /\ RequeuedAll(k, n, {})
<1>1. ASSUME NEW p PROVE Level(n, p) = Level(k, p)
  <2> DEFINE s == k.lists[Running]
             A == {t \in Tasks : n.priority[t] = p}
             B == {t \in Tasks : k.priority[t] = p}
  <2>1. \A t \in Elements(s) : t \in A <=> t \in B
    BY ElementsOfSeq
  <2>2. s \in Seq(Tasks)
    OBVIOUS
  <2>3. Level(n, p) = Keep(s, A) /\ Level(k, p) = Keep(s, B)
    BY DEF Level
  <2> HIDE DEF s, A, B
  <2>4. Keep(s, A) = Keep(s, B)
    BY <2>1, <2>2, KeepSame
  <2> QED
    BY <2>3, <2>4
<1>2. RequeuedAll(k, n, {})
  <2> SUFFICES ASSUME NEW p \in Priorities \cup {0}
               PROVE  Requeued(Level(k, p), Level(n, p), {})
    BY DEF RequeuedAll
  <2> QED
    BY <1>1, LevelType, RequeuedSame
<1> QED
    BY <1>1, <1>2

\* A task that is unlinked leaves its queue, and the others stay.
LEMMA UnlinkRequeues ==
    ASSUME NEW k, KernelOK(k), NEW x \in Tasks
    PROVE  RequeuedAll(k, UnlinkMain(k, x), {x})
<1> DEFINE n == UnlinkMain(k, x)
           s == k.lists[Running]
           N == Tasks \ {x}
<1>1. s \in Seq(Tasks) /\ Distinct(s) /\ Running \in ListIds
    BY DEF KernelOK, KernelStates, ListsOK, ListIds
<1>2. n.lists[Running] = ListRemove(s, x)
    BY <1>1 DEF UnlinkMain, KernelOK, KernelStates
<1>3. n.priority = k.priority
    BY UnlinkMainOK DEF SameButLists
<1>4. ListRemove(s, x) = Keep(s, N)
    BY <1>1, ListRemoveKeeps
<1> HIDE DEF n
<1> SUFFICES ASSUME NEW p \in Priorities \cup {0}
             PROVE  Requeued(Level(k, p), Level(n, p), {x})
    BY DEF RequeuedAll, n
<1> DEFINE A == {t \in Tasks : k.priority[t] = p}
           a == Keep(s, A)
<1>5. Level(k, p) = a /\ Level(n, p) = Keep(Keep(s, N), A)
    BY <1>2, <1>3, <1>4 DEF Level
<1> HIDE DEF s, A, N
<1>6. Keep(Keep(s, N), A) = Keep(s, N \cap A) /\ Keep(a, N) = Keep(s, A \cap N)
    BY <1>1, KeepTwice
<1>7. N \cap A = A \cap N
    OBVIOUS
<1>8. Level(n, p) = Keep(a, N) /\ Keep(a, N) \in Seq(Tasks)
    BY <1>1, <1>5, <1>6, <1>7, KeepMembers
<1>9. Keep(a, N) \o <<>> = Keep(a, N)
    BY <1>8, ConcatEmptySeq
<1>10. <<>> \in Seq(Tasks) /\ Elements(<<>>) \subseteq {x}
    BY ElementsEmpty
<1> QED
    BY <1>5, <1>8, <1>9, <1>10 DEF Requeued, N

\* What is inserted before the first task of a lower priority goes to the end
\* of those of its own.
LEMMA InsertRequeues ==
    ASSUME NEW s \in Seq(Tasks), NEW x \in Tasks, x \notin Elements(s),
           NEW key \in [Tasks -> Int], Falling(s, key), NEW p
    PROVE  LET lower == {i \in 1..Len(s) : key[x] > key[s[i]]}
               new == ListInsertBefore(s, FirstPosition(s, lower), x)
               A == {t \in Tasks : key[t] = p}
           IN  Requeued(Keep(s, A), Keep(new, A), {x})
<1> DEFINE lower == {i \in 1..Len(s) : key[x] > key[s[i]]}
           i == FirstPosition(s, lower)
           new == ListInsertBefore(s, i, x)
           A == {t \in Tasks : key[t] = p}
           front == SubSeq(s, 1, i - 1)
           back == SubSeq(s, i, Len(s))
           one == <<x>>
           N == Tasks \ {x}
<1>1. /\ i \in 1..Len(s) + 1
      /\ i # Len(s) + 1 => i \in lower
    BY FirstPositionProperties
<1>2. \A j \in 1..Len(s) : j >= i => key[x] > key[s[j]]
  <2> SUFFICES ASSUME NEW j \in 1..Len(s), j >= i PROVE key[x] > key[s[j]]
    OBVIOUS
  <2>1. i \in 1..Len(s) /\ key[x] > key[s[i]]
    BY <1>1
  <2>2. key[s[i]] >= key[s[j]]
    BY <2>1 DEF Falling
  <2> HIDE DEF i, lower
  <2>3. key[x] \in Int /\ key[s[i]] \in Int /\ key[s[j]] \in Int
    BY <2>1
  <2> QED
    BY <2>1, <2>2, <2>3
<1> HIDE DEF lower
<1>3. new = (front \o one) \o back
    BY DEF ListInsertBefore, InsertAt
<1> HIDE DEF i, new
<1>4. s = front \o back
    BY <1>1, SplitAt
<1>5. /\ front \in Seq(Tasks) /\ back \in Seq(Tasks)
      /\ Len(back) = Len(s) - i + 1
      /\ \A j \in 1..Len(s) - i + 1 : back[j] = s[i + j - 1]
    BY <1>1, SubSeqProperties
<1> HIDE DEF front, back
<1>6. \A t \in Elements(back) : key[x] > key[t]
  <2> SUFFICES ASSUME NEW j \in 1..Len(back) PROVE key[x] > key[back[j]]
    BY <1>5 DEF Elements, ToSet
  <2>1. i + j - 1 \in 1..Len(s) /\ i + j - 1 >= i /\ back[j] = s[i + j - 1]
    BY <1>1, <1>5
  <2> QED
    BY <1>2, <2>1
<1>7. one \in Seq(Tasks) /\ front \o one \in Seq(Tasks)
    BY <1>5
<1> DEFINE f == Keep(front, A)
           b == Keep(back, A)
           o == Keep(one, A)
           old == Keep(s, A)
<1>8. f \in Seq(Tasks) /\ b \in Seq(Tasks) /\ old \in Seq(Tasks)
      /\ Elements(old) \subseteq N
  <2>1. Elements(old) \subseteq Elements(s) /\ Elements(s) \subseteq N
    BY KeepMembers, ElementsOfSeq
  <2> QED
    BY <1>5, <2>1, KeepMembers
<1>9. old = f \o b
  <2>2. front \in Seq(Tasks) /\ back \in Seq(Tasks)
    BY <1>5
  <2>1. Keep(front \o back, A) = Keep(front, A) \o Keep(back, A)
    <3> HIDE DEF A
    <3> QED
      BY ONLY <2>2, KeepConcat
  <2> QED
    BY <1>4, <2>1
<1>10. Keep(new, A) = (f \o o) \o b
  <2> HIDE DEF A, one
  <2> DEFINE lead == front \o one
  <2>1. front \in Seq(Tasks) /\ one \in Seq(Tasks)
    BY <1>5, <1>7
  <2>2. Keep(lead, A) = Keep(front, A) \o Keep(one, A)
    BY ONLY <2>1, KeepConcat
  <2>3. lead \in Seq(Tasks) /\ back \in Seq(Tasks)
    BY <1>5, <1>7
  <2> HIDE DEF lead
  <2>4. Keep(lead \o back, A) = Keep(lead, A) \o Keep(back, A)
    BY ONLY <2>3, KeepConcat
  <2> QED
    BY <1>3, <2>2, <2>4 DEF lead
<1>11. Keep(old, N) = old
  <2> HIDE DEF old, N
  <2> QED
    BY <1>8, KeepAll
<1>12. o = IF x \in A THEN <<x>> ELSE <<>>
    BY KeepOne
<1>13. CASE key[x] = p
  <2>1. x \in A /\ Elements(back) \cap A = {}
    <3>1. \A t \in Elements(back) : t \in Tasks /\ key[t] # key[x]
      BY <1>5, <1>6, ElementsOfSeq
    <3> QED
      BY <1>13, <3>1
  <2>2. b = <<>>
    <3> HIDE DEF A
    <3> QED
      BY <1>5, <2>1, KeepNone
  <2>3. o = one
    BY <1>12, <2>1
  <2> HIDE DEF one, o, b, f, old, A, N
  <2>4. f \o <<>> = f /\ (f \o one) \o <<>> = f \o one
    <3>1. f \in Seq(Tasks) /\ f \o one \in Seq(Tasks)
      BY <1>7, <1>8
    <3> QED
      BY <3>1, ConcatEmptySeq
  <2>5. Keep(new, A) = Keep(old, N) \o one
    BY <1>9, <1>10, <1>11, <2>2, <2>3, <2>4
  <2>6. Elements(one) \subseteq {x}
    BY DEF Elements, ToSet, one
  <2> QED
    BY <1>7, <2>5, <2>6 DEF Requeued, old, A, N, new, i, lower
<1>14. CASE key[x] # p
  <2>1. o = <<>>
    BY <1>12, <1>14
  <2> HIDE DEF one, o, b, f, old, A, N
  <2>2. f \o <<>> = f /\ old \o <<>> = old
    BY <1>8, ConcatEmptySeq
  <2>3. Keep(new, A) = Keep(old, N) \o <<>>
    BY <1>9, <1>10, <1>11, <2>1, <2>2
  <2>4. <<>> \in Seq(Tasks) /\ Elements(<<>>) \subseteq {x}
    BY ElementsEmpty
  <2> QED
    BY <2>3, <2>4 DEF Requeued, old, A, N, new, i, lower
<1> QED
    BY <1>13, <1>14

\* The list of running tasks is a sequence of tasks.
LEMMA RunningSeq ==
    ASSUME NEW k, KernelOK(k)
    PROVE  k.lists[Running] \in Seq(Tasks) /\ Running \in ListIds
    BY DEF KernelOK, KernelStates, ListIds

\* A task that enters the list of running tasks goes to the end of those of
\* its priority; one that enters another list does not touch it.
LEMMA AddRequeues ==
    ASSUME NEW k, NEW x \in Tasks, KernelOKWithout(k, x), NEW l \in ListIds
    PROVE  \/ RequeuedAll(k, add_task_to_list(k, x, l), {x})
           \/ RequeuedAll(k, add_task_to_list(k, x, l), {})
<1> DEFINE n == add_task_to_list(k, x, l)
           s == k.lists[Running]
<1>1. /\ s \in Seq(Tasks) /\ Falling(s, k.priority) /\ x \notin Elements(s)
      /\ Running \in ListIds
    BY DEF KernelOKWithout, ListsOK, Unlinked, KernelStates, ListIds
<1>2. k.priority \in [Tasks -> Int]
  <2>1. k.priority \in [Tasks -> Priorities \cup {0}]
    BY DEF KernelOKWithout, KernelStates
  <2>2. Priorities \cup {0} \subseteq Int
    BY DEF KernelAssumption
  <2> QED
    BY <2>1, <2>2
<1>3. n.priority = k.priority
    BY AddTaskToListOK DEF SameButLists
<1>4. CASE l = Running
  <2> DEFINE key == k.priority
             lower == {i \in 1..Len(s) : key[x] > key[s[i]]}
             new == ListInsertBefore(s, FirstPosition(s, lower), x)
  <2>1. n.lists[Running] = new
    BY <1>1, <1>4 DEF add_task_to_list, KernelOKWithout, KernelStates
  <2> SUFFICES ASSUME NEW p \in Priorities \cup {0}
               PROVE  Requeued(Level(k, p), Level(n, p), {x})
    BY DEF RequeuedAll
  <2> DEFINE A == {t \in Tasks : key[t] = p}
  <2>2. Level(k, p) = Keep(s, A) /\ Level(n, p) = Keep(new, A)
    BY <1>3, <2>1 DEF Level
  <2>4. key \in [Tasks -> Int] /\ Falling(s, key)
    BY <1>1, <1>2
  <2> HIDE DEF s, n, key
  <2>5. s \in Seq(Tasks) /\ x \notin Elements(s)
    BY <1>1 DEF s
  <2>3. Requeued(Keep(s, A), Keep(new, A), {x})
    BY ONLY <2>4, <2>5, x \in Tasks, InsertRequeues
  <2> QED
    BY <2>2, <2>3
<1>5. CASE l # Running
  <2>1. n.lists[Running] = s
    BY <1>1, <1>5 DEF add_task_to_list, KernelOKWithout, KernelStates
  <2> HIDE DEF n
  <2>2. RequeuedAll(k, n, {})
    BY <1>1, <1>3, <2>1, LevelsSame
  <2> QED
    BY <2>2 DEF n
<1> QED
    BY <1>4, <1>5

LEMMA MoveRequeues ==
    ASSUME NEW k, KernelOK(k), NEW x \in Tasks, NEW l \in ListIds
    PROVE  RequeuedAll(k, gyros__task_move(k, x, l), {x})
<1> DEFINE u == UnlinkMain(k, x)
           n == add_task_to_list(u, x, l)
<1>1. KernelOKWithout(u, x) /\ RequeuedAll(k, u, {x})
    BY UnlinkMainOK, UnlinkRequeues
<1>2. gyros__task_move(k, x, l) = n
    BY DEF gyros__task_move
<1> HIDE DEF u
<1>3. RequeuedAll(u, n, {x}) \/ RequeuedAll(u, n, {})
    BY <1>1, AddRequeues
<1> HIDE DEF n
<1>4. k.lists[Running] \in Seq(Tasks)
    BY RunningSeq
<1>5. RequeuedAll(k, n, {x} \cup {x}) \/ RequeuedAll(k, n, {x} \cup {})
    BY <1>1, <1>3, <1>4, RequeuedAllTwice
<1>6. {x} \cup {x} = {x} /\ {x} \cup {} = {x}
    OBVIOUS
<1> QED
    BY <1>2, <1>5, <1>6

LEMMA SuspendRequeues ==
    ASSUME NEW k, KernelOK(k), NEW x \in Tasks
    PROVE  RequeuedAll(k, gyros__task_suspend(k, x), {x})
<1> DEFINE u == UnlinkMain(k, x)
           n == gyros__task_suspend(k, x)
<1>1. KernelOKWithout(u, x) /\ RequeuedAll(k, u, {x}) /\ SameButLists(k, u)
    BY UnlinkMainOK, UnlinkRequeues
<1>2. n = [u EXCEPT !.main_list[x] = NoList]
    BY DEF gyros__task_suspend
<1> HIDE DEF u, n
<1>3. n.lists = u.lists /\ n.priority = u.priority
    BY <1>1, <1>2 DEF KernelOKWithout, KernelStates
<1>4. \A p : Level(n, p) = Level(u, p)
    BY <1>3 DEF Level
<1>5. RequeuedAll(k, n, {x})
    BY <1>1, <1>4 DEF RequeuedAll
<1> QED
    BY <1>5 DEF n

LEMMA WakeRequeues ==
    ASSUME NEW k, KernelOK(k), NEW x \in Tasks
    PROVE  RequeuedAll(k, gyros__task_wake(k, x), {x})
<1> DEFINE r == RemoveTimeout(k, x)
           n == gyros__task_move(r, x, Running)
<1>1. KernelOK(r) /\ r.lists = k.lists /\ r.priority = k.priority
    BY RemoveTimeoutOK DEF SameButLists
<1>2. gyros__task_wake(k, x) = n
    BY DEF gyros__task_wake
<1> HIDE DEF r
<1>3. RequeuedAll(r, n, {x})
    BY <1>1, RunningSeq, MoveRequeues
<1> HIDE DEF n
<1>4. \A p : Level(r, p) = Level(k, p)
    BY <1>1 DEF Level
<1> QED
    BY <1>2, <1>3, <1>4 DEF RequeuedAll

\* Waking a sequence of tasks moves those and no others.
LEMMA WakeSeqRequeues ==
    ASSUME NEW k, KernelOK(k), NEW tasks \in Seq(Tasks)
    PROVE  RequeuedAll(k, WakeSeq(k, tasks), Elements(tasks))
<1>1. PICK f : /\ WakeRun(f, k, tasks, Len(tasks))
               /\ WakeSeq(k, tasks) = f[Len(tasks)]
    BY WakeSeqUnfolds
<1> DEFINE P(n) == KernelOK(f[n]) /\ RequeuedAll(k, f[n], FirstOf(tasks, n))
           S == {n \in Nat : n <= Len(tasks) => P(n)}
<1>2. f[0] = k
    BY <1>1 DEF WakeRun
<1>3. ASSUME NEW n \in Nat, n + 1 <= Len(tasks)
      PROVE  f[n + 1] = gyros__task_wake(f[n], tasks[n + 1])
  <2>1. n + 1 \in 0..Len(tasks) /\ n + 1 # 0 /\ (n + 1) - 1 = n
      BY <1>3
  <2>2. f[n + 1] = gyros__task_wake(f[(n + 1) - 1], tasks[n + 1])
      BY <1>1, <2>1 DEF WakeRun
  <2> QED
      BY <2>1, <2>2
<1>4. ASSUME NEW n \in Nat, n + 1 <= Len(tasks), P(n) PROVE P(n + 1)
  <2> DEFINE a == f[n]
             b == f[n + 1]
             t == tasks[n + 1]
             M == FirstOf(tasks, n)
  <2>1. KernelOK(a) /\ RequeuedAll(k, a, M) /\ t \in Tasks
      BY <1>4
  <2>2. b = gyros__task_wake(a, t)
      BY <1>3, <1>4
  <2>3. FirstOf(tasks, n + 1) = M \cup {t}
      BY DEF FirstOf
  <2> HIDE DEF a, b, t, M
  <2>4. KernelOK(b) /\ RequeuedAll(a, b, {t})
      BY <2>1, <2>2, TaskWakeOK, WakeRequeues
  <2>5. k.lists[Running] \in Seq(Tasks)
      BY RunningSeq
  <2>6. RequeuedAll(k, b, M \cup {t})
      BY <2>1, <2>4, <2>5, RequeuedAllTwice
  <2> QED
      BY <2>3, <2>4, <2>6 DEF b
<1> HIDE DEF P
<1>5. 0 \in S
  <2>1. FirstOf(tasks, 0) = {}
      BY DEF FirstOf
  <2>2. RequeuedAll(k, k, {})
      BY RunningSeq, LevelsSame
  <2>3. P(0)
      BY <1>2, <2>1, <2>2 DEF P
  <2> QED
      BY <2>3
<1>6. ASSUME NEW n \in Nat, n \in S PROVE n + 1 \in S
    BY <1>4, <1>6
<1>7. Len(tasks) \in S
  <2> HIDE DEF S
  <2>1. Nat \subseteq S
      BY <1>5, <1>6, SetInduction
  <2> QED
      BY <2>1
<1>8. P(Len(tasks))
    BY <1>7
<1>9. FirstOf(tasks, Len(tasks)) = Elements(tasks)
    BY DEF FirstOf, Elements, ToSet
<1> QED
    BY <1>1, <1>8, <1>9 DEF P

\* A task whose priority changes goes to the end of those of its new priority.
LEMMA SetPriorityRequeues ==
    ASSUME NEW k, KernelOK(k), NEW x \in Tasks, NEW p \in Priorities \cup {0}
    PROVE  RequeuedAll(k, gyros__set_priority(k, x, p), {x})
<1> DEFINE c == [k EXCEPT !.priority[x] = p]
           u == UnlinkMain(k, x)
           v == UnlinkMain(c, x)
           l == k.main_list[x]
           n == gyros__set_priority(k, x, p)
<1>1. /\ KernelOKWithout(u, x) /\ SameButLists(k, u) /\ u.main_list = k.main_list
      /\ u.timeouts = k.timeouts /\ RequeuedAll(k, u, {x})
    BY UnlinkMainOK, UnlinkRequeues
<1>2. /\ c \in KernelStates /\ c.lists = k.lists /\ c.main_list = k.main_list
      /\ c.timeouts = k.timeouts
      /\ c.priority = [k.priority EXCEPT ![x] = p]
    BY DEF KernelOK, KernelStates
<1>3. /\ v = [c EXCEPT !.lists = u.lists] /\ v.lists = u.lists
      /\ v.main_list = k.main_list /\ v.priority = c.priority
      /\ v.timeouts = k.timeouts
    BY <1>2 DEF UnlinkMain, KernelStates, KernelOK
<1>4. n = IF l = NoList THEN c ELSE add_task_to_list(v, x, l)
    BY <1>2 DEF gyros__set_priority, gyros__task_move
<1> HIDE DEF c, u, v, n
<1>5. v \in KernelStates
    BY <1>1, <1>2, <1>3 DEF KernelOKWithout, KernelStates
<1>6. \A t \in Tasks \ {x} : c.priority[t] = k.priority[t]
    BY <1>2 DEF KernelOK, KernelStates
<1>7. ASSUME NEW m \in ListIds
      PROVE  /\ u.lists[m] \in Seq(Tasks) /\ Distinct(u.lists[m])
             /\ \A t \in Elements(u.lists[m]) : v.priority[t] = u.priority[t]
             /\ Falling(u.lists[m], v.priority)
  <2>1. /\ u.lists[m] \in Seq(Tasks) /\ Distinct(u.lists[m])
        /\ Falling(u.lists[m], u.priority) /\ x \notin Elements(u.lists[m])
    BY <1>1 DEF KernelOKWithout, KernelStates, ListsOK, Unlinked
  <2>2. Elements(u.lists[m]) \subseteq Tasks
    BY <2>1, ElementsOfSeq
  <2>3. \A t \in Elements(u.lists[m]) : v.priority[t] = u.priority[t]
    BY <1>1, <1>3, <1>6, <2>1, <2>2 DEF SameButLists
  <2>4. Falling(u.lists[m], v.priority)
    BY <2>1, <2>3, FallingSameKeys
  <2> QED
    BY <2>1, <2>3, <2>4
<1>8. KernelOKWithout(v, x)
  <2>1. ListsOK(v)
    BY <1>3, <1>7 DEF ListsOK
  <2>2. Unlinked(v, x) /\ \A w \in Tasks \ {x} : LinkedRight(v, w)
    BY <1>1, <1>3 DEF KernelOKWithout, Unlinked, LinkedRight
  <2> QED
    BY <1>1, <1>3, <1>5, <2>1, <2>2 DEF KernelOKWithout
<1>9. k.lists[Running] \in Seq(Tasks) /\ Running \in ListIds
    BY RunningSeq
<1>10. RequeuedAll(k, v, {x})
  <2>1. RequeuedAll(u, v, {})
    BY <1>3, <1>7, <1>9, LevelsSame
  <2>2. RequeuedAll(k, v, {x} \cup {})
    BY <1>1, <1>9, <2>1, RequeuedAllTwice
  <2>3. {x} \cup {} = {x}
    OBVIOUS
  <2> QED
    BY <2>2, <2>3
<1>11. CASE l = NoList
  <2>1. x \notin Elements(k.lists[Running])
    BY <1>9, <1>11 DEF KernelOK, LinkedRight, KernelAssumption, ListIds
  <2>2. k.lists[Running] = Keep(k.lists[Running], Tasks \ {x})
    <3>1. Elements(k.lists[Running]) \subseteq Tasks \ {x}
      BY <1>9, <2>1, ElementsOfSeq
    <3> QED
      BY <1>9, <3>1, KeepAll
  <2>3. c.lists[Running] = u.lists[Running]
    <3>1. u.lists[Running] = ListRemove(k.lists[Running], x)
      BY <1>9 DEF u, UnlinkMain, KernelOK, KernelStates
    <3>2. Distinct(k.lists[Running])
      BY <1>9 DEF KernelOK, ListsOK
    <3>3. ListRemove(k.lists[Running], x) = Keep(k.lists[Running], Tasks \ {x})
      BY <1>9, <3>2, ListRemoveKeeps
    <3> QED
      BY <1>2, <2>2, <3>1, <3>3
  <2>4. \A q : Level(c, q) = Level(v, q)
    BY <1>3, <2>3 DEF Level
  <2>5. RequeuedAll(k, c, {x})
    BY <1>10, <2>4 DEF RequeuedAll
  <2> QED
    BY <1>4, <1>11, <2>5 DEF n
<1>12. CASE l # NoList
  <2>1. l \in ListIds
    BY <1>12 DEF KernelOK, KernelStates
  <2> HIDE DEF l
  <2> DEFINE w == add_task_to_list(v, x, l)
  <2>2. RequeuedAll(v, w, {x}) \/ RequeuedAll(v, w, {})
    BY <1>8, <2>1, AddRequeues
  <2> HIDE DEF w
  <2>3. RequeuedAll(k, w, {x} \cup {x}) \/ RequeuedAll(k, w, {x} \cup {})
    BY <1>9, <1>10, <2>2, RequeuedAllTwice
  <2>4. {x} \cup {x} = {x} /\ {x} \cup {} = {x}
    OBVIOUS
  <2> QED
    BY <1>4, <1>12, <2>3, <2>4 DEF n, w
<1> QED
    BY <1>11, <1>12

\* A task that finishes leaves; those that waited to join it go to the end.
LEMMA FinishRequeues ==
    ASSUME NEW k, KernelOK(k), NEW x \in Tasks
    PROVE  RequeuedAll(k, gyros__task_finish(k, x),
                       {x} \cup {t \in Tasks : k.main_list[t] = x})
<1> DEFINE a == gyros__task_suspend(k, x)
           b == RemoveTimeout(a, x)
           c == [b EXCEPT !.joinable[x] = FALSE]
           s == c.lists[x]
           n == WakeSeq(c, Reverse(s))
           J == {t \in Tasks : k.main_list[t] = x}
<1>1. /\ KernelOK(a) /\ SameButLists(k, a) /\ RequeuedAll(k, a, {x})
      /\ a.main_list = [k.main_list EXCEPT ![x] = NoList]
    BY TaskSuspendOK, SuspendRequeues
<1>2. gyros__task_finish(k, x) = n
    BY DEF gyros__task_finish, WakeAllFromTail
<1> HIDE DEF a
<1>3. KernelOK(b) /\ b.lists = a.lists /\ b.priority = a.priority
      /\ b.main_list = a.main_list
    BY <1>1, RemoveTimeoutOK DEF SameButLists
<1> HIDE DEF b
<1>4. /\ KernelOK(c) /\ c.lists = b.lists /\ c.priority = b.priority
      /\ c.main_list = b.main_list
    BY <1>3 DEF KernelOK, KernelStates, ListsOK, LinkedRight
<1> HIDE DEF c
<1>5. RequeuedAll(k, c, {x})
  <2>1. \A p : Level(c, p) = Level(a, p)
    BY <1>3, <1>4 DEF Level
  <2> QED
    BY <1>1, <2>1 DEF RequeuedAll
<1>6. s \in Seq(Tasks) /\ Elements(s) \subseteq J /\ x \in ListIds
  <2>1. x \in ListIds /\ x # NoList
    BY DEF ListIds, KernelAssumption
  <2>2. s \in Seq(Tasks)
    BY <1>4, <2>1 DEF KernelOK, KernelStates
  <2>3. ASSUME NEW t \in Elements(s) PROVE t \in J
    <3>1. t \in Tasks
      BY <2>2, ElementsOfSeq
    <3>2. c.main_list[t] = x
      BY <1>4, <2>1, <3>1 DEF KernelOK, LinkedRight
    <3> QED
      BY <1>1, <1>3, <1>4, <2>1, <3>1, <3>2 DEF KernelOK, KernelStates
  <2> QED
    BY <2>1, <2>2, <2>3
<1>7. J \subseteq Elements(s) \cup {x}
  <2> SUFFICES ASSUME NEW t \in J, t # x PROVE t \in Elements(s)
    OBVIOUS
  <2>1. c.main_list[t] = x
    BY <1>1, <1>3, <1>4 DEF KernelOK, KernelStates
  <2> QED
    BY <1>4, <1>6, <2>1 DEF KernelOK, LinkedRight
<1> HIDE DEF s, J
<1>8. Reverse(s) \in Seq(Tasks) /\ Elements(Reverse(s)) = Elements(s)
    BY <1>6, ReverseElements
<1> DEFINE r == Reverse(s)
<1>9. r \in Seq(Tasks) /\ Elements(r) = Elements(s)
    BY <1>8
<1> HIDE DEF r
<1>10. RequeuedAll(c, WakeSeq(c, r), Elements(r))
    BY <1>4, <1>9, WakeSeqRequeues
<1>11. k.lists[Running] \in Seq(Tasks)
    BY RunningSeq
<1> DEFINE w == WakeSeq(c, r)
<1>12. RequeuedAll(c, w, Elements(r))
    BY <1>10
<1>13. n = w
    BY DEF r
<1> HIDE DEF w, n
<1>14. RequeuedAll(k, w, {x} \cup Elements(r))
    BY <1>5, <1>11, <1>12, RequeuedAllTwice
<1>15. {x} \cup Elements(r) = {x} \cup J
    BY <1>6, <1>7, <1>9
<1> QED
    BY <1>2, <1>13, <1>14, <1>15 DEF J

\* The timer interrupt moves tasks that waited for a timeout, no others.
LEMMA TickRequeues ==
    ASSUME NEW k, KernelOK(k), NEW now \in Time
    PROVE  LET n == gyros__tick(k, now)
               expired == Elements(ExpiredTimeouts(k, now))
           IN  RequeuedAll(k, n, expired) /\ (expired # {} => n.pendsv)
<1> DEFINE e == ExpiredTimeouts(k, now)
           a == [k EXCEPT
                    !.now = now,
                    !.timed_out = [t \in Tasks |-> t \in Elements(e) \/ @[t]]]
           b == WakeSeq(a, e)
           n == gyros__tick(k, now)
<1>1. e \in Seq(Tasks) /\ Elements(e) \subseteq Elements(k.timeouts)
    BY TickDetails DEF TickedTo
<1>2. n = IF e = <<>> THEN b ELSE gyros__reschedule(b)
    BY DEF gyros__tick
<1> HIDE DEF e, n
<1>3. KernelOK(a) /\ a.lists = k.lists /\ a.priority = k.priority
  <2>1. /\ a \in KernelStates /\ a.lists = k.lists /\ a.priority = k.priority
        /\ a.main_list = k.main_list /\ a.timeouts = k.timeouts
    BY DEF KernelOK, KernelStates
  <2> HIDE DEF a
  <2> QED
    BY <2>1 DEF KernelOK, ListsOK, LinkedRight
<1> HIDE DEF a
<1>4. KernelOK(b) /\ RequeuedAll(a, b, Elements(e))
    BY <1>1, <1>3, WakeSeqOK, WakeSeqRequeues
<1> HIDE DEF b
<1>5. n.lists = b.lists /\ n.priority = b.priority
    BY <1>2, <1>4 DEF gyros__reschedule, KernelOK, KernelStates
<1>6. /\ \A p : Level(n, p) = Level(b, p)
      /\ \A p : Level(a, p) = Level(k, p)
    BY <1>3, <1>5 DEF Level
<1>7. RequeuedAll(k, n, Elements(e))
    BY <1>4, <1>6 DEF RequeuedAll
<1>8. Elements(e) # {} => n.pendsv
  <2>1. Elements(<<>>) = {}
    BY DEF Elements, ToSet
  <2> QED
    BY <1>2, <1>4, <2>1 DEF gyros__reschedule, KernelOK, KernelStates
<1> QED
    BY <1>7, <1>8 DEF n, e
=============================================================================
