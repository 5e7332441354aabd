----------------------------- MODULE TimerProofs -----------------------------
(***************************************************************************)
(* Timers, alarm clocks and sleep, for any number of tasks, timers and     *)
(* alarms and any range of the clock.                                      *)
(*                                                                         *)
(* The clock wraps, so two times have an order only as seen from a third   *)
(* one.  The invariant therefore measures every timeout from the present:  *)
(* a queued one is ahead by less than half the range, and the list is      *)
(* sorted by how far ahead its timeouts are.                               *)
(*                                                                         *)
(* The list of timers is sorted in the same way, but its times may also be *)
(* past.  It implements TimerService as long as all times an application   *)
(* uses are less than half the range apart: gyros_time_compare orders no   *)
(* others.                                                                 *)
(***************************************************************************)
EXTENDS TimerProperties, ServicesProofs

USE KernelAssumption

Half == TimeRange \div 2

-----------------------------------------------------------------------------
(* Times.                                                                  *)

LEMMA Halves ==
    /\ TimeRange \in Nat /\ Half \in Nat /\ Half >= 2 /\ TimeRange = Half + Half
<1>1. TimeRange \in Nat /\ TimeRange >= 4 /\ TimeRange % 2 = 0
    OBVIOUS
<1>2. TimeRange = 2 * (TimeRange \div 2) + (TimeRange % 2)
    BY ONLY <1>1
<1>3. Half \in Nat
    BY ONLY <1>1 DEF Half
<1> QED
    BY ONLY <1>1, <1>2, <1>3 DEF Half

\* The signed difference of two times.
LEMMA CompareIs ==
    ASSUME NEW a \in Time, NEW b \in Time
    PROVE  gyros_time_compare(a, b) =
               IF a - b >= Half THEN a - b - TimeRange
               ELSE IF a - b < -Half THEN a - b + TimeRange
               ELSE a - b
<1>1. /\ TimeRange \in Nat /\ Half \in Nat /\ Half >= 2 /\ TimeRange = Half + Half
    BY Halves
<1>2. a \in 0..TimeRange - 1 /\ b \in 0..TimeRange - 1
    BY DEF Time
<1> DEFINE x == a - b
           d == x % TimeRange
<1>3. x \in Int /\ x < TimeRange /\ x > -TimeRange
    BY ONLY <1>1, <1>2
<1>4. gyros_time_compare(a, b) = IF d < Half THEN d ELSE d - TimeRange
    BY DEF gyros_time_compare, Half
<1> HIDE DEF x
<1>5. d = IF x >= 0 THEN x ELSE x + TimeRange
    BY ONLY <1>1, <1>3
<1> HIDE DEF d
<1>6. gyros_time_compare(a, b) = IF x >= Half THEN x - TimeRange
                                 ELSE IF x < -Half THEN x + TimeRange ELSE x
    BY ONLY <1>1, <1>3, <1>4, <1>5
<1> QED
    BY <1>6 DEF x

\* How far time a is ahead of time b.
LEMMA CompareType ==
    ASSUME NEW a \in Time, NEW b \in Time
    PROVE  gyros_time_compare(a, b) \in -Half .. Half - 1
<1>1. a \in 0..TimeRange - 1 /\ b \in 0..TimeRange - 1
    BY DEF Time
<1> QED
    BY <1>1, CompareIs, Halves

\* Two times that are ahead of now compare as they are ahead.
LEMMA CompareAhead ==
    ASSUME NEW a \in Time, NEW b \in Time, NEW now \in Time,
           gyros_time_compare(a, now) >= 0, gyros_time_compare(b, now) >= 0
    PROVE  gyros_time_compare(a, b) = gyros_time_compare(a, now) - gyros_time_compare(b, now)
<1>1. /\ a \in 0..TimeRange - 1 /\ b \in 0..TimeRange - 1 /\ now \in 0..TimeRange - 1
    BY DEF Time
<1>2. /\ TimeRange \in Nat /\ Half \in Nat /\ Half >= 2 /\ TimeRange = Half + Half
    BY Halves
<1> DEFINE x == gyros_time_compare(a, now)
           y == gyros_time_compare(b, now)
           z == gyros_time_compare(a, b)
<1>3. x = IF a - now >= Half THEN a - now - TimeRange
          ELSE IF a - now < -Half THEN a - now + TimeRange ELSE a - now
    BY CompareIs
<1>4. y = IF b - now >= Half THEN b - now - TimeRange
          ELSE IF b - now < -Half THEN b - now + TimeRange ELSE b - now
    BY CompareIs
<1>5. z = IF a - b >= Half THEN a - b - TimeRange
          ELSE IF a - b < -Half THEN a - b + TimeRange ELSE a - b
    BY CompareIs
<1>6. x >= 0 /\ y >= 0
    OBVIOUS
<1> HIDE DEF x, y, z
<1>7. z = x - y
    BY ONLY <1>1, <1>2, <1>3, <1>4, <1>5, <1>6
<1> QED
    BY <1>7 DEF x, y, z

\* Comparing the other way round turns the sign, except half the range away.
LEMMA CompareTurned ==
    ASSUME NEW a \in Time, NEW b \in Time
    PROVE  /\ gyros_time_compare(a, b) # -Half =>
                  gyros_time_compare(b, a) = -gyros_time_compare(a, b)
           /\ gyros_time_compare(b, a) >= 0 => gyros_time_compare(a, b) <= 0
<1>1. /\ a \in 0..TimeRange - 1 /\ b \in 0..TimeRange - 1
    BY DEF Time
<1>2. /\ TimeRange \in Nat /\ Half \in Nat /\ Half >= 2 /\ TimeRange = Half + Half
    BY Halves
<1> DEFINE x == gyros_time_compare(a, b)
           y == gyros_time_compare(b, a)
<1>3. x = IF a - b >= Half THEN a - b - TimeRange
          ELSE IF a - b < -Half THEN a - b + TimeRange ELSE a - b
    BY CompareIs
<1>4. y = IF b - a >= Half THEN b - a - TimeRange
          ELSE IF b - a < -Half THEN b - a + TimeRange ELSE b - a
    BY CompareIs
<1> HIDE DEF x, y
<1>5. (x # -Half => y = -x) /\ (y >= 0 => x <= 0)
    BY ONLY <1>1, <1>2, <1>3, <1>4
<1> QED
    BY <1>5 DEF x, y

\* The next clock value.
Next1(now) == (now + 1) % TimeRange

\* One tick later a time is one tick less ahead.
LEMMA CompareTicked ==
    ASSUME NEW a \in Time, NEW now \in Time
    PROVE  /\ Next1(now) \in Time
           /\ gyros_time_compare(a, now) # -Half =>
                  gyros_time_compare(a, Next1(now)) = gyros_time_compare(a, now) - 1
<1>1. /\ a \in 0..TimeRange - 1 /\ now \in 0..TimeRange - 1
    BY DEF Time
<1>2. /\ TimeRange \in Nat /\ Half \in Nat /\ Half >= 2 /\ TimeRange = Half + Half
    BY Halves
<1> DEFINE m == Next1(now)
           u == now + 1
<1>3. m = IF now = TimeRange - 1 THEN 0 ELSE now + 1
  <2>1. CASE now = TimeRange - 1
    <3>1. u = TimeRange
        BY ONLY <1>1, <1>2, <2>1
    <3> HIDE DEF u
    <3>2. u % TimeRange = 0
        BY ONLY <1>2, <3>1
    <3> QED
        BY ONLY <2>1, <3>2 DEF m, Next1, u
  <2>2. CASE now # TimeRange - 1
    <3>1. u \in 0..TimeRange - 1
        BY ONLY <1>1, <1>2, <2>2
    <3> HIDE DEF u
    <3>2. u % TimeRange = u
        BY ONLY <1>2, <3>1
    <3> QED
        BY ONLY <2>2, <3>2 DEF m, Next1, u
  <2> QED
      BY <2>1, <2>2
<1>4. m \in 0..TimeRange - 1
    BY ONLY <1>1, <1>2, <1>3
<1> DEFINE x == gyros_time_compare(a, now)
           y == gyros_time_compare(a, m)
<1>5. x = IF a - now >= Half THEN a - now - TimeRange
          ELSE IF a - now < -Half THEN a - now + TimeRange ELSE a - now
    BY CompareIs
<1> HIDE DEF m
<1>6. m \in Time
    BY <1>4 DEF Time
<1>7. y = IF a - m >= Half THEN a - m - TimeRange
          ELSE IF a - m < -Half THEN a - m + TimeRange ELSE a - m
    BY <1>6, CompareIs
<1> HIDE DEF x, y
<1>8. x # -Half => y = x - 1
    BY ONLY <1>1, <1>2, <1>3, <1>4, <1>5, <1>7
<1> QED
    BY <1>6, <1>8 DEF x, y, m

-----------------------------------------------------------------------------
(* The timeout list.                                                       *)

\* How far ahead the timeout of each task is; and as a key that falls.
Ahead(k) == [t \in Tasks |-> gyros_time_compare(k.timeout[t], k.now)]
Urgency(k) == [t \in Tasks |-> -gyros_time_compare(k.timeout[t], k.now)]

\* Queued timeouts are in the future, the first one first.
InOrder(k) ==
    /\ \A t \in Elements(k.timeouts) : Ahead(k)[t] > 0
    /\ Falling(k.timeouts, Urgency(k))

LEMMA TimesTyped ==
    ASSUME NEW k, KernelOK(k)
    PROVE  /\ k.timeouts \in Seq(Tasks) /\ Distinct(k.timeouts)
           /\ Elements(k.timeouts) \subseteq Tasks
           /\ k.now \in Time /\ \A t \in Tasks : k.timeout[t] \in Time
           /\ \A t \in Tasks : /\ Ahead(k)[t] = gyros_time_compare(k.timeout[t], k.now)
                               /\ Ahead(k)[t] \in -Half .. Half - 1
                               /\ Ahead(k)[t] \in Int
                               /\ Urgency(k)[t] = -Ahead(k)[t]
           /\ Urgency(k) \in [Tasks -> Int]
<1>1. /\ k.timeouts \in Seq(Tasks) /\ Distinct(k.timeouts)
      /\ k.now \in Time /\ k.timeout \in [Tasks -> Time]
    BY DEF KernelOK, KernelStates
<1>2. Elements(k.timeouts) \subseteq Tasks
    BY <1>1, ElementsOfSeq
<1>3. \A t \in Tasks : k.timeout[t] \in Time
    BY <1>1
<1>4. ASSUME NEW t \in Tasks
      PROVE  /\ Ahead(k)[t] = gyros_time_compare(k.timeout[t], k.now)
             /\ Ahead(k)[t] \in -Half .. Half - 1
             /\ Ahead(k)[t] \in Int
             /\ Urgency(k)[t] = -Ahead(k)[t]
             /\ Urgency(k)[t] \in Int
  <2>1. gyros_time_compare(k.timeout[t], k.now) \in -Half .. Half - 1
      BY <1>1, <1>3, CompareType
  <2> QED
      BY <2>1, Halves DEF Ahead, Urgency
<1>5. Urgency(k) \in [Tasks -> Int]
    BY <1>4 DEF Urgency
<1> QED
    BY <1>1, <1>2, <1>3, <1>4, <1>5

\* The order is that of the timeouts and the clock alone.
LEMMA SameUrgency ==
    ASSUME NEW k, NEW n, n.timeout = k.timeout, n.now = k.now
    PROVE  Ahead(n) = Ahead(k) /\ Urgency(n) = Urgency(k)
    BY DEF Ahead, Urgency

\* Waking tasks keeps the order, and leaves only timeouts that were queued.
LEMMA WakeSeqInOrder ==
    ASSUME NEW k, KernelOK(k), InOrder(k), NEW tasks \in Seq(Tasks)
    PROVE  InOrder(WakeSeq(k, tasks))
<1> DEFINE n == WakeSeq(k, tasks)
<1>1. /\ SameButLists(k, n) /\ Elements(n.timeouts) = Elements(k.timeouts) \ Elements(tasks)
    BY WakeSeqOK
<1>2. Falling(n.timeouts, Urgency(k))
    BY WakeSeqFalling DEF InOrder
<1> HIDE DEF n
<1>3. Ahead(n) = Ahead(k) /\ Urgency(n) = Urgency(k)
    BY <1>1, SameUrgency DEF SameButLists
<1>4. InOrder(n)
    BY <1>1, <1>2, <1>3 DEF InOrder
<1> QED
    BY <1>4 DEF n

\* f is the run of ListRemoveAll over the first n nodes.
RemoveRun(f, list, nodes, n) ==
    f = [i \in 0..n |-> IF i = 0 THEN list ELSE ListRemove(f[i - 1], nodes[i])]

LEMMA RemoveRunExists ==
    ASSUME NEW list, NEW nodes
    PROVE  \A n \in Nat : \E f : RemoveRun(f, list, nodes, n)
<1> DEFINE S == {n \in Nat : \E f : RemoveRun(f, list, nodes, n)}
<1>1. 0 \in S
  <2>1. RemoveRun([i \in 0..0 |-> list], list, nodes, 0)
      BY DEF RemoveRun
  <2> QED
      BY <2>1
<1>2. ASSUME NEW n \in Nat, n \in S PROVE n + 1 \in S
  <2>1. PICK f : RemoveRun(f, list, nodes, n)
      BY <1>2
  <2> DEFINE g == [i \in 0..n + 1 |->
                       IF i = n + 1 THEN ListRemove(f[n], nodes[n + 1]) ELSE f[i]]
             h == [i \in 0..n + 1 |->
                       IF i = 0 THEN list ELSE ListRemove(g[i - 1], nodes[i])]
  <2>2. ASSUME NEW i \in 0..n + 1 PROVE g[i] = h[i]
    <3>1. CASE i = n + 1
        BY <3>1
    <3>2. CASE i # n + 1 /\ i = 0
        BY <2>1, <3>2 DEF RemoveRun
    <3>3. CASE i # n + 1 /\ i # 0
      <4>1. i \in 0..n /\ i - 1 \in 0..n /\ i - 1 # n + 1
          BY <3>3
      <4>2. g[i] = f[i] /\ g[i - 1] = f[i - 1]
          BY <4>1, <3>3
      <4>3. f[i] = ListRemove(f[i - 1], nodes[i])
          BY <2>1, <3>3, <4>1 DEF RemoveRun
      <4> QED
          BY <3>3, <4>2, <4>3
    <3> QED
        BY <3>1, <3>2, <3>3
  <2>3. g = h
      BY <2>2
  <2>4. RemoveRun(g, list, nodes, n + 1)
      BY <2>3 DEF RemoveRun
  <2> QED
      BY <2>4
<1>3. Nat \subseteq S
  <2> HIDE DEF S
  <2> QED
      BY <1>1, <1>2, SetInduction
<1> QED
    BY <1>3

\* The nodes leave the list, and the others stay in order.
LEMMA ListRemoveAllProperties ==
    ASSUME NEW T, NEW list \in Seq(T), Distinct(list), NEW nodes \in Seq(T)
    PROVE  /\ ListRemoveAll(list, nodes) \in Seq(T)
           /\ Distinct(ListRemoveAll(list, nodes))
           /\ Elements(ListRemoveAll(list, nodes)) = Elements(list) \ Elements(nodes)
           /\ \A key : Falling(list, key) => Falling(ListRemoveAll(list, nodes), key)
<1> DEFINE f == CHOOSE g : RemoveRun(g, list, nodes, Len(nodes))
<1>1. RemoveRun(f, list, nodes, Len(nodes))
  <2>1. Len(nodes) \in Nat
      OBVIOUS
  <2> QED
      BY <2>1, RemoveRunExists
<1>2. ListRemoveAll(list, nodes) = f[Len(nodes)]
    BY DEF ListRemoveAll, RemoveRun
<1> HIDE DEF f
<1> DEFINE P(n) == /\ f[n] \in Seq(T) /\ Distinct(f[n])
                   /\ Elements(f[n]) = Elements(list) \ FirstOf(nodes, n)
                   /\ \A key : Falling(list, key) => Falling(f[n], key)
           S == {n \in Nat : n <= Len(nodes) => P(n)}
<1>3. f[0] = list
    BY <1>1 DEF RemoveRun
<1>4. ASSUME NEW n \in Nat, n + 1 <= Len(nodes)
      PROVE  f[n + 1] = ListRemove(f[n], nodes[n + 1])
  <2>1. n + 1 \in 0..Len(nodes) /\ n + 1 # 0 /\ (n + 1) - 1 = n
      BY <1>4
  <2>2. f[n + 1] = ListRemove(f[(n + 1) - 1], nodes[n + 1])
      BY <1>1, <2>1 DEF RemoveRun
  <2> QED
      BY <2>1, <2>2
<1>5. ASSUME NEW n \in Nat, n + 1 <= Len(nodes), P(n) PROVE P(n + 1)
  <2> DEFINE a == f[n]
             x == nodes[n + 1]
  <2>1. /\ a \in Seq(T) /\ Distinct(a)
        /\ Elements(a) = Elements(list) \ FirstOf(nodes, n)
        /\ \A key : Falling(list, key) => Falling(a, key)
      BY <1>5
  <2>2. f[n + 1] = ListRemove(a, x)
      BY <1>4, <1>5
  <2>3. FirstOf(nodes, n + 1) = FirstOf(nodes, n) \cup {x}
      BY DEF FirstOf
  <2> HIDE DEF a, x
  <2>4. /\ ListRemove(a, x) \in Seq(T) /\ Distinct(ListRemove(a, x))
        /\ Elements(ListRemove(a, x)) = Elements(a) \ {x}
        /\ \A key : Falling(a, key) => Falling(ListRemove(a, x), key)
      BY <2>1, ListRemoveProperties
  <2>5. Elements(ListRemove(a, x)) = Elements(list) \ FirstOf(nodes, n + 1)
      BY <2>1, <2>3, <2>4
  <2>6. \A key : Falling(list, key) => Falling(ListRemove(a, x), key)
      BY <2>1, <2>4
  <2> QED
      BY <2>2, <2>4, <2>5, <2>6
<1>6. P(0)
  <2>1. FirstOf(nodes, 0) = {}
      BY DEF FirstOf
  <2> QED
      BY <1>3, <2>1
<1>7. FirstOf(nodes, Len(nodes)) = Elements(nodes)
    BY DEF FirstOf, Elements, ToSet
<1> HIDE DEF P
<1>8. Len(nodes) \in S
  <2>1. 0 \in S
      BY <1>6
  <2>2. ASSUME NEW n \in Nat, n \in S PROVE n + 1 \in S
      BY <1>5, <2>2
  <2> HIDE DEF S
  <2>3. Nat \subseteq S
      BY <2>1, <2>2, SetInduction
  <2> QED
      BY <2>3
<1>9. P(Len(nodes))
    BY <1>8
<1> QED
    BY <1>2, <1>7, <1>9 DEF P

\* w is linked into s, from position p on.
Splice(s, p, w) == SubSeq(s, 1, p - 1) \o w \o SubSeq(s, p, Len(s))

LEMMA SpliceIs ==
    ASSUME NEW T, NEW s \in Seq(T), NEW w \in Seq(T), NEW p \in 1..Len(s) + 1
    PROVE  /\ Splice(s, p, w) \in Seq(T)
           /\ Len(Splice(s, p, w)) = Len(s) + Len(w)
           /\ \A i \in 1..Len(s) + Len(w) :
                  Splice(s, p, w)[i] = IF i < p THEN s[i]
                                       ELSE IF i < p + Len(w) THEN w[i - p + 1]
                                       ELSE s[i - Len(w)]
<1> DEFINE m == Len(s)
           n == Len(w)
           front == SubSeq(s, 1, p - 1)
           back == SubSeq(s, p, m)
           r == Splice(s, p, w)
<1>1. m \in Nat /\ n \in Nat
    OBVIOUS
<1>3. p \in 1..m + 1
    OBVIOUS
<1>4. /\ front \in Seq(T) /\ Len(front) = p - 1
      /\ \A i \in 1..p - 1 : front[i] = s[i]
    BY SubSeqProperties
<1>5. /\ back \in Seq(T) /\ Len(back) = m - p + 1
      /\ \A i \in 1..m - p + 1 : back[i] = s[p + i - 1]
    BY SubSeqProperties
<1>6. r = front \o w \o back
    BY DEF Splice
<1> HIDE DEF front, back, r
<1>7. /\ r \in Seq(T) /\ Len(r) = m + n
      /\ \A i \in 1..m + n : r[i] = IF i < p THEN s[i]
                                    ELSE IF i < p + n THEN w[i - p + 1]
                                    ELSE s[i - n]
  <2> DEFINE fw == front \o w
  <2>1. /\ fw \in Seq(T) /\ Len(fw) = p - 1 + n
        /\ \A i \in 1..p - 1 + n : fw[i] = IF i < p THEN front[i] ELSE w[i - p + 1]
    <3>1. fw \in Seq(T) /\ Len(fw) = Len(front) + n
        BY <1>4, ConcatProperties
    <3>2. ASSUME NEW i \in 1..p - 1 + n, i < p PROVE fw[i] = front[i]
        BY <1>1, <1>3, <1>4, <3>2
    <3>3. ASSUME NEW i \in 1..p - 1 + n, ~(i < p) PROVE fw[i] = w[i - p + 1]
      <4>1. i \in Len(front) + 1..Len(front) + Len(w) /\ i - Len(front) = i - p + 1
          BY <1>1, <1>3, <1>4, <3>3
      <4>2. fw[i] = w[i - Len(front)]
          BY <1>1, <1>4, <4>1
      <4> QED
          BY <4>1, <4>2
    <3> QED
        BY <1>4, <3>1, <3>2, <3>3
  <2>2. r = fw \o back
      BY <1>6
  <2> HIDE DEF fw
  <2>5. r \in Seq(T) /\ Len(r) = Len(fw) + Len(back)
      BY <1>5, <2>1, <2>2, ConcatProperties
  <2>3. r \in Seq(T) /\ Len(r) = m + n
      BY <1>1, <1>3, <1>5, <2>1, <2>5
  <2>4. ASSUME NEW i \in 1..m + n
        PROVE  r[i] = IF i < p THEN s[i] ELSE IF i < p + n THEN w[i - p + 1] ELSE s[i - n]
    <3>1. CASE i < p + n
      <4>1. i \in 1..Len(fw) /\ r[i] = fw[i]
          BY <1>1, <1>3, <1>5, <2>1, <2>2, <3>1
      <4> QED
          BY <1>1, <1>3, <1>4, <2>1, <3>1, <4>1
    <3>2. CASE ~(i < p + n)
      <4> DEFINE j == i - (p - 1 + n)
      <4>1. j \in 1..Len(back) /\ r[i] = back[j]
          BY <1>1, <1>3, <1>5, <2>1, <2>2, <3>2
      <4>2. p + j - 1 = i - n
          BY <1>1, <1>3
      <4>3. back[j] = s[i - n]
          BY <1>5, <4>1, <4>2
      <4> QED
          BY <1>1, <1>3, <3>2, <4>1, <4>3
    <3> QED
        BY <3>1, <3>2
  <2> QED
      BY <2>3, <2>4
<1> QED
    BY <1>7 DEF r

\* What r is, when it is such a splice: the steps below need nothing else.
IsSplice(r, s, p, w, T) ==
    /\ s \in Seq(T) /\ w \in Seq(T) /\ p \in 1..Len(s) + 1
    /\ r \in Seq(T) /\ Len(r) = Len(s) + Len(w)
    /\ \A i \in 1..Len(s) + Len(w) :
           r[i] = IF i < p THEN s[i]
                  ELSE IF i < p + Len(w) THEN w[i - p + 1] ELSE s[i - Len(w)]

LEMMA SpliceProperties ==
    ASSUME NEW T, NEW r, NEW s, NEW p, NEW w, IsSplice(r, s, p, w, T),
           Distinct(s), Distinct(w), Elements(s) \cap Elements(w) = {}
    PROVE  Distinct(r) /\ Elements(r) = Elements(s) \cup Elements(w)
<1> DEFINE m == Len(s)
           n == Len(w)
<1>1. m \in Nat /\ n \in Nat /\ s \in Seq(T) /\ w \in Seq(T)
    BY DEF IsSplice
<1>3. p \in 1..m + 1
    BY DEF IsSplice
<1>7. /\ r \in Seq(T) /\ Len(r) = m + n
      /\ \A i \in 1..m + n : r[i] = IF i < p THEN s[i]
                                    ELSE IF i < p + n THEN w[i - p + 1]
                                    ELSE s[i - n]
    BY DEF IsSplice
<1>8. /\ \A i \in 1..m : s[i] \in Elements(s) /\ s[i] \in T
      /\ \A i \in 1..n : w[i] \in Elements(w) /\ w[i] \in T
    BY <1>1 DEF Elements, ToSet
<1>9. Distinct(r)
  <2> SUFFICES ASSUME NEW i \in 1..m + n, NEW j \in 1..m + n, i < j
               PROVE  r[i] # r[j]
      BY <1>7, Zenon DEF Distinct
  <2>1. CASE i < p /\ (j < p \/ ~(j < p + n))
    <3>1. PICK l \in 1..m : i < l /\ r[j] = s[l]
      <4>1. CASE j < p
          BY <1>1, <1>3, <1>7, <4>1
      <4>2. CASE ~(j < p) /\ ~(j < p + n)
        <5>1. j - n \in 1..m /\ i < j - n
            BY <1>1, <1>3, <2>1, <4>2
        <5> QED
            BY <1>7, <4>2, <5>1
      <4> QED
          BY <2>1, <4>1, <4>2
    <3>2. i \in 1..m /\ r[i] = s[i]
        BY <1>1, <1>3, <1>7, <2>1
    <3> QED
        BY <3>1, <3>2 DEF Distinct
  <2>2. CASE i < p /\ ~(j < p) /\ j < p + n
    <3>1. i \in 1..m /\ j - p + 1 \in 1..n
        BY <1>1, <1>3, <2>2
    <3> QED
        BY <1>7, <1>8, <2>2, <3>1
  <2>3. CASE ~(i < p) /\ i < p + n /\ j < p + n
    <3>1. i - p + 1 \in 1..n /\ j - p + 1 \in 1..n /\ i - p + 1 < j - p + 1 /\ ~(j < p)
        BY <1>1, <1>3, <2>3
    <3>2. w[i - p + 1] # w[j - p + 1]
        BY <3>1 DEF Distinct
    <3> QED
        BY <1>7, <2>3, <3>1, <3>2
  <2>4. CASE ~(i < p) /\ i < p + n /\ ~(j < p + n)
    <3>1. i - p + 1 \in 1..n /\ j - n \in 1..m /\ ~(j < p)
        BY <1>1, <1>3, <2>4
    <3> QED
        BY <1>7, <1>8, <2>4, <3>1
  <2>5. CASE ~(i < p) /\ ~(i < p + n)
    <3>1. i - n \in 1..m /\ j - n \in 1..m /\ i - n < j - n /\ ~(j < p) /\ ~(j < p + n)
        BY <1>1, <1>3, <2>5
    <3>2. s[i - n] # s[j - n]
        BY <3>1 DEF Distinct
    <3> QED
        BY <1>7, <2>5, <3>1, <3>2
  <2> QED
      BY <1>1, <1>3, <2>1, <2>2, <2>3, <2>4, <2>5
<1>10. Elements(r) = Elements(s) \cup Elements(w)
  <2>1. ASSUME NEW x \in Elements(r) PROVE x \in Elements(s) \cup Elements(w)
    <3>1. PICK i \in 1..m + n : r[i] = x
        BY <1>7, <2>1 DEF Elements, ToSet
    <3>2. CASE i < p
        BY <1>1, <1>3, <1>7, <1>8, <3>1, <3>2
    <3>3. CASE ~(i < p) /\ i < p + n
      <4>1. i - p + 1 \in 1..n
          BY <1>1, <1>3, <3>3
      <4> QED
          BY <1>7, <1>8, <3>1, <3>3, <4>1
    <3>4. CASE ~(i < p) /\ ~(i < p + n)
      <4>1. i - n \in 1..m
          BY <1>1, <1>3, <3>4
      <4> QED
          BY <1>7, <1>8, <3>1, <3>4, <4>1
    <3> QED
        BY <3>2, <3>3, <3>4
  <2>2. \A i \in 1..m + n : r[i] \in Elements(r)
      BY <1>7 DEF Elements, ToSet
  <2>3. ASSUME NEW x \in Elements(s) PROVE x \in Elements(r)
    <3>1. PICK i \in 1..m : s[i] = x
        BY <2>3 DEF Elements, ToSet
    <3>2. CASE i < p
        BY <1>1, <1>3, <1>7, <2>2, <3>1, <3>2
    <3>3. CASE ~(i < p)
      <4>1. i + n \in 1..m + n /\ ~(i + n < p) /\ ~(i + n < p + n) /\ (i + n) - n = i
          BY <1>1, <1>3, <3>3
      <4>2. r[i + n] = s[i]
          BY <1>7, <4>1
      <4> QED
          BY <2>2, <3>1, <4>1, <4>2
    <3> QED
        BY <3>2, <3>3
  <2>4. ASSUME NEW x \in Elements(w) PROVE x \in Elements(r)
    <3>1. PICK i \in 1..n : w[i] = x
        BY <2>4 DEF Elements, ToSet
    <3>2. /\ i + p - 1 \in 1..m + n /\ ~(i + p - 1 < p) /\ i + p - 1 < p + n
          /\ (i + p - 1) - p + 1 = i
        BY <1>1, <1>3
    <3>3. r[i + p - 1] = w[i]
        BY <1>7, <3>2
    <3> QED
        BY <2>2, <3>1, <3>2, <3>3
  <2> QED
      BY <2>1, <2>3, <2>4
<1> QED
    BY <1>9, <1>10

\* Nodes of one key, put behind those whose key is not lower, keep the order.
LEMMA SpliceKeepsFalling ==
    ASSUME NEW T, NEW r, NEW s, NEW p, NEW w, IsSplice(r, s, p, w, T),
           NEW key \in [T -> Int], Falling(s, key), NEW c \in Int,
           \A i \in 1..Len(s) : i < p => ~(c > key[s[i]]),
           p \in 1..Len(s) => c > key[s[p]],
           NEW key2, \A x \in Elements(s) : key2[x] = key[x],
           \A x \in Elements(w) : key2[x] = c
    PROVE  Falling(r, key2)
<1> DEFINE m == Len(s)
           n == Len(w)
<1>1. m \in Nat /\ n \in Nat /\ s \in Seq(T) /\ w \in Seq(T)
    BY DEF IsSplice
<1>3. p \in 1..m + 1
    BY DEF IsSplice
<1>7. /\ r \in Seq(T) /\ Len(r) = m + n
      /\ \A i \in 1..m + n : r[i] = IF i < p THEN s[i]
                                    ELSE IF i < p + n THEN w[i - p + 1]
                                    ELSE s[i - n]
    BY DEF IsSplice
<1>8. /\ \A i \in 1..m : s[i] \in Elements(s) /\ s[i] \in T
      /\ \A i \in 1..n : w[i] \in Elements(w) /\ w[i] \in T
    BY <1>1 DEF Elements, ToSet
<1>11. Falling(r, key2)
  <2>1. \A i \in 1..m : key2[s[i]] = key[s[i]] /\ key[s[i]] \in Int
      BY <1>8
  <2>2. \A i \in 1..n : key2[w[i]] = c
      BY <1>8
  <2>3. \A i \in 1..m : i < p => key[s[i]] >= c
    <3> SUFFICES ASSUME NEW i \in 1..m, i < p PROVE key[s[i]] >= c
        OBVIOUS
    <3>1. ~(c > key[s[i]])
        OBVIOUS
    <3> QED
        BY <2>1, <3>1
  <2>4. \A i, j \in 1..m : i < j => key[s[i]] >= key[s[j]]
      BY DEF Falling
  <2>5. \A i \in 1..m : ~(i < p) => c >= key[s[i]]
    <3> SUFFICES ASSUME NEW i \in 1..m, ~(i < p) PROVE c >= key[s[i]]
        OBVIOUS
    <3>1. p \in 1..m
        BY <1>1, <1>3
    <3>2. c > key[s[p]]
        BY <3>1
    <3>3. key[s[p]] >= key[s[i]]
      <4>1. CASE i = p
          BY <2>1, <4>1
      <4>2. CASE i # p
          BY <2>4, <3>1, <4>2
      <4> QED
          BY <4>1, <4>2
    <3> QED
        BY <2>1, <3>1, <3>2, <3>3
  <2> SUFFICES ASSUME NEW i \in 1..m + n, NEW j \in 1..m + n, i < j
               PROVE  key2[r[i]] >= key2[r[j]]
      BY <1>7 DEF Falling
  <2> HIDE DEF m, n
  <2>0. i \in 1..m + n /\ j \in 1..m + n /\ i < j
      OBVIOUS
  <2>6. CASE i < p /\ j < p
    <3>1. i \in 1..m /\ j \in 1..m
        BY ONLY <1>1, <1>3, <2>0, <2>6
    <3>2. key2[r[i]] = key[s[i]] /\ key2[r[j]] = key[s[j]]
        BY <1>7, <2>1, <2>6, <3>1
    <3> QED
        BY <2>4, <3>1, <3>2
  <2>7. CASE i < p /\ ~(j < p) /\ j < p + n
    <3>1. i \in 1..m /\ j - p + 1 \in 1..n
        BY ONLY <1>1, <1>3, <2>0, <2>7
    <3>2. key2[r[i]] = key[s[i]] /\ key2[r[j]] = c
        BY <1>7, <2>1, <2>2, <2>7, <3>1
    <3> QED
        BY <2>3, <2>7, <3>1, <3>2
  <2>8. CASE i < p /\ ~(j < p) /\ ~(j < p + n)
    <3>1. i \in 1..m /\ j - n \in 1..m /\ i < j - n
        BY ONLY <1>1, <1>3, <2>0, <2>8
    <3>2. key2[r[i]] = key[s[i]] /\ key2[r[j]] = key[s[j - n]]
        BY <1>7, <2>1, <2>8, <3>1
    <3> QED
        BY <2>4, <3>1, <3>2
  <2>9. CASE ~(i < p) /\ i < p + n /\ j < p + n
    <3>1. i - p + 1 \in 1..n /\ j - p + 1 \in 1..n /\ ~(j < p)
        BY ONLY <1>1, <1>3, <2>0, <2>9
    <3>3. r[i] = w[i - p + 1] /\ r[j] = w[j - p + 1]
        BY <1>7, <2>9, <3>1
    <3>2. key2[r[i]] = c /\ key2[r[j]] = c
        BY <2>2, <3>1, <3>3
    <3> QED
        BY <3>2
  <2>10. CASE ~(i < p) /\ i < p + n /\ ~(j < p + n)
    <3>1. i - p + 1 \in 1..n /\ j - n \in 1..m /\ ~(j < p) /\ ~(j - n < p)
        BY ONLY <1>1, <1>3, <2>0, <2>10
    <3>3. r[i] = w[i - p + 1] /\ r[j] = s[j - n]
        BY <1>7, <2>10, <3>1
    <3>2. key2[r[i]] = c /\ key2[r[j]] = key[s[j - n]]
        BY <2>1, <2>2, <3>1, <3>3
    <3> QED
        BY <2>5, <3>1, <3>2
  <2>11. CASE ~(i < p) /\ ~(i < p + n)
    <3>1. i - n \in 1..m /\ j - n \in 1..m /\ i - n < j - n /\ ~(j < p) /\ ~(j < p + n)
        BY ONLY <1>1, <1>3, <2>0, <2>11
    <3>2. key2[r[i]] = key[s[i - n]] /\ key2[r[j]] = key[s[j - n]]
        BY <1>7, <2>1, <2>11, <3>1
    <3> QED
        BY <2>4, <3>1, <3>2
  <2> QED
      BY <1>1, <1>3, <2>6, <2>7, <2>8, <2>9, <2>10, <2>11
<1> QED
    BY <1>11

-----------------------------------------------------------------------------
(* Operations on the timeout list.                                         *)

\* A timeout that lies ahead goes behind the queued ones that are not later.
LEMMA SetTimeoutInOrder ==
    ASSUME NEW k, KernelOK(k), InOrder(k), NEW timeout \in Time,
           k.current \in Tasks, k.current \notin Elements(k.timeouts),
           ~TimeoutReached(k, timeout)
    PROVE  InOrder(gyros__task_set_timeout(k, timeout))
<1> DEFINE c == k.current
           s == k.timeouts
           n == gyros__task_set_timeout(k, timeout)
           later == {i \in 1..Len(s) : gyros_time_compare(timeout, k.timeout[s[i]]) < 0}
           lower == {i \in 1..Len(s) : Urgency(n)[c] > Urgency(n)[s[i]]}
<1>1. /\ KernelOK(n) /\ n.now = k.now
      /\ n.timeout = [k.timeout EXCEPT ![c] = timeout]
      /\ Elements(n.timeouts) = Elements(s) \cup {c}
    BY SetTimeoutOK
<1>2. n.timeouts = ListInsertBefore(s, FirstPosition(s, later), c)
    BY DEF gyros__task_set_timeout, KernelOK, KernelStates
<1> HIDE DEF n
<1>3. /\ s \in Seq(Tasks) /\ Elements(s) \subseteq Tasks /\ c \in Tasks /\ c \notin Elements(s)
      /\ k.timeout \in [Tasks -> Time] /\ k.now \in Time
    BY TimesTyped DEF KernelOK, KernelStates
<1>4. \A t \in Tasks : /\ Ahead(k)[t] = gyros_time_compare(k.timeout[t], k.now)
                       /\ Ahead(k)[t] \in Int /\ Urgency(k)[t] = -Ahead(k)[t]
                       /\ Ahead(n)[t] = gyros_time_compare(n.timeout[t], n.now)
                       /\ Ahead(n)[t] \in Int /\ Urgency(n)[t] = -Ahead(n)[t]
    BY <1>1, TimesTyped
<1>5. \A t \in Elements(s) : Ahead(n)[t] = Ahead(k)[t] /\ Urgency(n)[t] = Urgency(k)[t]
    BY <1>1, <1>3, <1>4
<1>6. Ahead(n)[c] = gyros_time_compare(timeout, k.now) /\ Ahead(n)[c] > 0
  <2>1. n.timeout[c] = timeout
      BY <1>1, <1>3
  <2>2. gyros_time_compare(timeout, k.now) \in Int
      BY <1>1, <1>3, <1>4, <2>1
  <2> QED
      BY <1>1, <1>3, <1>4, <2>1, <2>2 DEF TimeoutReached
<1>7. later = lower
  <2>1. ASSUME NEW i \in 1..Len(s)
        PROVE  gyros_time_compare(timeout, k.timeout[s[i]]) < 0
                   <=> Urgency(n)[c] > Urgency(n)[s[i]]
    <3>1. s[i] \in Elements(s) /\ s[i] \in Tasks
        BY <1>3 DEF Elements, ToSet
    <3> DEFINE b == k.timeout[s[i]]
    <3>2. b \in Time /\ gyros_time_compare(b, k.now) = Ahead(k)[s[i]]
        BY <1>3, <1>4, <3>1
    <3>3. Ahead(k)[s[i]] > 0
        BY <3>1 DEF InOrder
    <3> HIDE DEF b
    <3>4. gyros_time_compare(timeout, b)
              = gyros_time_compare(timeout, k.now) - gyros_time_compare(b, k.now)
      <4>1. gyros_time_compare(timeout, k.now) >= 0 /\ gyros_time_compare(b, k.now) >= 0
          BY <1>3, <1>4, <1>6, <3>1, <3>2, <3>3
      <4> QED
          BY <1>3, <3>2, <4>1, CompareAhead
    <3>5. gyros_time_compare(timeout, b) = Ahead(n)[c] - Ahead(n)[s[i]]
        BY <1>5, <1>6, <3>1, <3>2, <3>4
    <3>6. Ahead(n)[c] \in Int /\ Ahead(n)[s[i]] \in Int
          /\ Urgency(n)[c] = -Ahead(n)[c] /\ Urgency(n)[s[i]] = -Ahead(n)[s[i]]
        BY <1>3, <1>4, <3>1
    <3>7. gyros_time_compare(timeout, b) < 0 <=> Urgency(n)[c] > Urgency(n)[s[i]]
        BY <3>5, <3>6
    <3> QED
        BY <3>7 DEF b
  <2> QED
      BY <2>1
<1>8. Falling(s, Urgency(n))
    BY <1>3, <1>5, FallingSameKeys DEF InOrder
<1>9. Urgency(n) \in [Tasks -> Int]
    BY <1>1, TimesTyped
<1>10. Falling(ListInsertBefore(s, FirstPosition(s, lower), c), Urgency(n))
    BY <1>3, <1>8, <1>9, InsertKeepsFalling
<1>11. \A t \in Elements(n.timeouts) : Ahead(n)[t] > 0
    BY <1>1, <1>5, <1>6 DEF InOrder
<1>12. InOrder(n)
    BY <1>2, <1>7, <1>10, <1>11 DEF InOrder
<1> QED
    BY <1>12 DEF n

\* What the timer interrupt does: the tasks whose timeout has been reached
\* are those it wakes, and all of them.
Woken(k, n) ==
    \A u \in Tasks :
        \/ /\ n.main_list[u] = k.main_list[u] /\ n.timed_out[u] = k.timed_out[u]
           /\ u \in Elements(n.timeouts) <=> u \in Elements(k.timeouts)
        \/ /\ n.main_list[u] = Running /\ n.timed_out[u]
           /\ u \in Elements(k.timeouts) /\ u \notin Elements(n.timeouts)
           /\ gyros_time_compare(n.now, k.timeout[u]) >= 0

\* The tasks at the front of a list that is in order are those whose timeout
\* has been reached.
LEMMA ExpiredAre ==
    ASSUME NEW k, KernelOK(k), InOrder(k)
    PROVE  LET e == ExpiredTimeouts(k, Next1(k.now))
           IN  /\ e \in Seq(Tasks) /\ Elements(e) \subseteq Elements(k.timeouts)
               /\ \A t \in Elements(k.timeouts) :
                      /\ gyros_time_compare(k.timeout[t], Next1(k.now)) = Ahead(k)[t] - 1
                      /\ t \in Elements(e) <=> Ahead(k)[t] = 1
                      /\ t \in Elements(e) =>
                             gyros_time_compare(Next1(k.now), k.timeout[t]) >= 0
<1> DEFINE now == Next1(k.now)
           s == k.timeouts
           future == {i \in 1..Len(s) : gyros_time_compare(now, k.timeout[s[i]]) < 0}
           p == FirstPosition(s, future)
           e == SubSeq(s, 1, p - 1)
<1>1. /\ s \in Seq(Tasks) /\ Distinct(s) /\ Elements(s) \subseteq Tasks
      /\ k.now \in Time /\ \A t \in Tasks : k.timeout[t] \in Time
      /\ \A t \in Tasks : /\ Ahead(k)[t] = gyros_time_compare(k.timeout[t], k.now)
                          /\ Ahead(k)[t] \in Int /\ Ahead(k)[t] \in -Half .. Half - 1
                          /\ Urgency(k)[t] = -Ahead(k)[t]
    BY TimesTyped
<1>2. now \in Time
    BY <1>1, CompareTicked
<1>3. ASSUME NEW t \in Elements(s)
      PROVE  /\ gyros_time_compare(k.timeout[t], now) = Ahead(k)[t] - 1
             /\ gyros_time_compare(now, k.timeout[t]) = 1 - Ahead(k)[t]
             /\ Ahead(k)[t] \in Int /\ Ahead(k)[t] >= 1
  <2> DEFINE b == k.timeout[t]
  <2>1. t \in Tasks /\ b \in Time
      BY <1>1
  <2>2. Ahead(k)[t] > 0 /\ Ahead(k)[t] \in Int /\ gyros_time_compare(b, k.now) = Ahead(k)[t]
      BY <1>1, <2>1 DEF InOrder
  <2> HIDE DEF b
  <2>3. gyros_time_compare(b, k.now) # -Half
      BY <2>2, Halves
  <2>4. gyros_time_compare(b, now) = gyros_time_compare(b, k.now) - 1
      BY <1>1, <2>1, <2>3, CompareTicked
  <2> HIDE DEF now
  <2>5. gyros_time_compare(b, now) # -Half
      BY <2>2, <2>4, Halves
  <2>6. gyros_time_compare(now, b) = -gyros_time_compare(b, now)
      BY <1>2, <2>1, <2>5, CompareTurned
  <2> QED
      BY <2>2, <2>4, <2>6 DEF b
<1>4. ExpiredTimeouts(k, now) = e
    BY DEF ExpiredTimeouts
<1> HIDE DEF now
<1>5. \A i \in 1..Len(s) : /\ s[i] \in Elements(s)
                           /\ i \in future <=> Ahead(k)[s[i]] # 1
  <2> SUFFICES ASSUME NEW i \in 1..Len(s)
               PROVE  s[i] \in Elements(s) /\ (i \in future <=> Ahead(k)[s[i]] # 1)
      OBVIOUS
  <2>1. s[i] \in Elements(s)
      BY <1>1 DEF Elements, ToSet
  <2>2. i \in future <=> gyros_time_compare(now, k.timeout[s[i]]) < 0
      OBVIOUS
  <2> HIDE DEF future
  <2> QED
      BY <1>3, <2>1, <2>2
<1>6. /\ p \in 1..Len(s) + 1 /\ \A j \in future : p <= j
      /\ p # Len(s) + 1 => p \in future
  <2>1. future \subseteq 1..Len(s)
      OBVIOUS
  <2> HIDE DEF future
  <2> QED
      BY <1>1, <2>1, FirstPositionProperties
<1> HIDE DEF future, p
<1>7. /\ e \in Seq(Tasks) /\ Len(e) = p - 1 /\ \A i \in 1..p - 1 : e[i] = s[i]
    BY <1>1, <1>6, SubSeqProperties
<1> HIDE DEF e
<1>8. \A i \in 1..Len(s) : i < p => Ahead(k)[s[i]] = 1
  <2> SUFFICES ASSUME NEW i \in 1..Len(s), i < p PROVE Ahead(k)[s[i]] = 1
      OBVIOUS
  <2>1. i \notin future
      BY <1>1, <1>6
  <2> QED
      BY <1>5, <2>1
<1>9. \A i \in 1..Len(s) : ~(i < p) => Ahead(k)[s[i]] # 1
  <2> SUFFICES ASSUME NEW i \in 1..Len(s), ~(i < p) PROVE Ahead(k)[s[i]] # 1
      OBVIOUS
  <2>1. p \in 1..Len(s) /\ p \in future
      BY <1>1, <1>6
  <2>2. Ahead(k)[s[p]] # 1
      BY <1>5, <2>1
  <2>3. CASE i = p
      BY <2>2, <2>3
  <2>4. CASE i # p
    <3>1. Urgency(k)[s[p]] >= Urgency(k)[s[i]]
        BY <1>1, <2>1, <2>4 DEF InOrder, Falling
    <3>2. s[p] \in Elements(s) /\ s[i] \in Elements(s)
        BY <1>5, <2>1
    <3>3. /\ Ahead(k)[s[p]] \in Int /\ Ahead(k)[s[p]] >= 1 /\ Ahead(k)[s[i]] \in Int
          /\ Urgency(k)[s[p]] = -Ahead(k)[s[p]] /\ Urgency(k)[s[i]] = -Ahead(k)[s[i]]
        BY <1>1, <1>3, <3>2
    <3> QED
        BY <2>2, <3>1, <3>3
  <2> QED
      BY <2>3, <2>4
<1>10. Elements(e) = {s[i] : i \in 1..p - 1}
    BY <1>7 DEF Elements, ToSet
<1>11. ASSUME NEW t \in Elements(s) PROVE t \in Elements(e) <=> Ahead(k)[t] = 1
  <2>1. PICK i \in 1..Len(s) : s[i] = t
      BY <1>1 DEF Elements, ToSet
  <2>2. CASE i < p
    <3>1. i \in 1..p - 1
        BY <1>6, <2>2
    <3> QED
        BY <1>8, <1>10, <2>1, <2>2, <3>1
  <2>3. CASE ~(i < p)
    <3>1. Ahead(k)[t] # 1
        BY <1>9, <2>1, <2>3
    <3>2. t \notin Elements(e)
      <4> SUFFICES ASSUME NEW j \in 1..p - 1, s[j] = t PROVE FALSE
          BY <1>10
      <4>1. j \in 1..Len(s) /\ j < p
          BY <1>1, <1>6
      <4> QED
          BY <1>8, <3>1, <4>1
    <3> QED
        BY <3>1, <3>2
  <2> QED
      BY <2>2, <2>3
<1>12. Elements(e) \subseteq Elements(s)
  <2>1. \A i \in 1..p - 1 : i \in 1..Len(s)
      BY <1>1, <1>6
  <2> QED
      BY <1>5, <1>10, <2>1
<1>13. /\ e \in Seq(Tasks) /\ Elements(e) \subseteq Elements(s)
       /\ \A t \in Elements(s) :
              /\ gyros_time_compare(k.timeout[t], now) = Ahead(k)[t] - 1
              /\ t \in Elements(e) <=> Ahead(k)[t] = 1
              /\ t \in Elements(e) => gyros_time_compare(now, k.timeout[t]) >= 0
    BY <1>3, <1>7, <1>11, <1>12
<1> QED
    BY <1>4, <1>13 DEF now

-----------------------------------------------------------------------------
(* What each operation does to a kernel state whose timeout list is in     *)
(* order.                                                                  *)

\* The timeout list is in order, nobody in it can run, and the current task,
\* unless a switch is pending, and the idle task can.
ClockOK(k) ==
    /\ KernelOK(k) /\ InOrder(k)
    /\ k.current \in Tasks /\ k.main_list[Idle] = Running
    /\ k.pendsv \/ k.main_list[k.current] = Running
    /\ \A t \in Elements(k.timeouts) : k.main_list[t] # Running

LEMMA StartedClock ==
    ASSUME NEW k \in Started
    PROVE  ClockOK(k) /\ \A t \in Tasks : k.main_list[t] = Running
<1>1. /\ ScheduleOK(k) /\ k.main_list = [t \in Tasks |-> Running] /\ k.timeouts = <<>>
    BY StartedSound
<1>2. Elements(<<>>) = {} /\ Falling(<<>>, Urgency(k))
    BY DEF Elements, ToSet, Falling
<1> QED
    BY <1>1, <1>2, ListNames DEF ClockOK, InOrder, ScheduleOK, Sound

\* Only the current task and the processor change.
LEMMA SwitchClock ==
    ASSUME NEW k, ClockOK(k)
    PROVE  LET n == PendSV_Handler(k)
           IN  /\ ClockOK(n)
               /\ n.main_list = k.main_list /\ n.lists = k.lists
               /\ n.timeouts = k.timeouts /\ n.timeout = k.timeout
               /\ n.timed_out = k.timed_out /\ n.now = k.now
<1> DEFINE n == PendSV_Handler(k)
           h == Head(k.lists[Running])
<1>1. KernelOK(k) /\ Running \in ListIds /\ k.lists[Running] # <<>>
    BY RunningNotEmpty, ListNames DEF ClockOK
<1>2. h \in Tasks /\ k.main_list[h] = Running
    BY <1>1, FirstIsHighest
<1> HIDE DEF h
<1>3. n = [k EXCEPT !.current = h, !.pendsv = FALSE]
    BY DEF PendSV_Handler, h
<1>4. /\ n \in KernelStates /\ n.current = h /\ n.pendsv = FALSE
      /\ n.main_list = k.main_list /\ n.lists = k.lists
      /\ n.timeouts = k.timeouts /\ n.timeout = k.timeout
      /\ n.timed_out = k.timed_out /\ n.now = k.now
      /\ n.priority = k.priority
    BY <1>1, <1>2, <1>3 DEF KernelOK, KernelStates
<1> HIDE DEF n
<1>5. KernelOK(n)
    BY <1>1, <1>4 DEF KernelOK, ListsOK, LinkedRight
<1>6. InOrder(n)
    BY <1>4, SameUrgency DEF ClockOK, InOrder
<1>7. ClockOK(n)
    BY <1>2, <1>4, <1>5, <1>6 DEF ClockOK
<1> QED
    BY <1>4, <1>7 DEF n

\* One tick.
LEMMA TickClock ==
    ASSUME NEW k, ClockOK(k)
    PROVE  LET n == gyros__tick(k, Next1(k.now))
           IN  /\ ClockOK(n) /\ Woken(k, n)
               /\ n.timeout = k.timeout /\ n.now = Next1(k.now)
<1> DEFINE now == Next1(k.now)
           n == gyros__tick(k, now)
           e == ExpiredTimeouts(k, now)
<1>1. KernelOK(k) /\ InOrder(k) /\ now \in Time
  <2>1. KernelOK(k) /\ InOrder(k) /\ k.now \in Time
      BY TimesTyped DEF ClockOK
  <2>2. TimeRange - 1 \in Time
      BY DEF Time
  <2> QED
      BY <2>1, <2>2, CompareTicked
<1>2. /\ Elements(e) \subseteq Elements(k.timeouts)
      /\ \A t \in Elements(k.timeouts) :
             /\ gyros_time_compare(k.timeout[t], now) = Ahead(k)[t] - 1
             /\ t \in Elements(e) <=> Ahead(k)[t] = 1
             /\ t \in Elements(e) => gyros_time_compare(now, k.timeout[t]) >= 0
    BY <1>1, ExpiredAre
<1> HIDE DEF now
<1>3. TickedTo(k, n, e, now)
    BY <1>1, TickDetails
<1> HIDE DEF n, e
<1>4. /\ k.timeouts \in Seq(Tasks) /\ Elements(k.timeouts) \subseteq Tasks
      /\ \A t \in Tasks : Ahead(k)[t] \in Int /\ Urgency(k)[t] = -Ahead(k)[t]
    BY <1>1, TimesTyped
<1>5. /\ KernelOK(n) /\ n.now = now /\ n.timeout = k.timeout /\ n.current = k.current
      /\ Elements(n.timeouts) = Elements(k.timeouts) \ Elements(e)
      /\ Falling(n.timeouts, Urgency(k))
      /\ n.pendsv \/ (n.lists = k.lists /\ n.pendsv = k.pendsv)
    BY <1>1, <1>3 DEF TickedTo, InOrder
<1>6. /\ n.timeouts \in Seq(Tasks)
      /\ \A t \in Tasks : /\ Ahead(n)[t] = gyros_time_compare(k.timeout[t], now)
                          /\ Ahead(n)[t] \in Int /\ Urgency(n)[t] = -Ahead(n)[t]
    BY <1>5, TimesTyped
<1>7. \A t \in Elements(n.timeouts) :
          /\ t \in Tasks /\ Ahead(n)[t] = Ahead(k)[t] - 1 /\ Ahead(k)[t] # 1 /\ Ahead(k)[t] > 0
    BY <1>1, <1>2, <1>4, <1>5, <1>6 DEF InOrder
<1>8. Falling(n.timeouts, Urgency(n))
  <2>1. \A i \in 1..Len(n.timeouts) : n.timeouts[i] \in Elements(n.timeouts)
      BY <1>6 DEF Elements, ToSet
  <2> SUFFICES ASSUME NEW i \in 1..Len(n.timeouts), NEW j \in 1..Len(n.timeouts), i < j
               PROVE  Urgency(n)[n.timeouts[i]] >= Urgency(n)[n.timeouts[j]]
      BY DEF Falling
  <2> DEFINE x == n.timeouts[i]
             y == n.timeouts[j]
  <2>2. Urgency(k)[x] >= Urgency(k)[y]
      BY <1>5 DEF Falling
  <2>3. x \in Elements(n.timeouts) /\ y \in Elements(n.timeouts)
      BY <2>1
  <2> HIDE DEF x, y
  <2>4. /\ Urgency(k)[x] = -Ahead(k)[x] /\ Urgency(k)[y] = -Ahead(k)[y]
        /\ Urgency(n)[x] = -Ahead(n)[x] /\ Urgency(n)[y] = -Ahead(n)[y]
        /\ Ahead(n)[x] = Ahead(k)[x] - 1 /\ Ahead(n)[y] = Ahead(k)[y] - 1
        /\ Ahead(k)[x] \in Int /\ Ahead(k)[y] \in Int
      BY <1>4, <1>6, <1>7, <2>3
  <2>5. Urgency(n)[x] >= Urgency(n)[y]
      BY <2>2, <2>4
  <2> QED
      BY <2>5 DEF x, y
<1>9. InOrder(n)
  <2>1. \A t \in Elements(n.timeouts) : Ahead(n)[t] > 0
    <3> SUFFICES ASSUME NEW t \in Elements(n.timeouts) PROVE Ahead(n)[t] > 0
        OBVIOUS
    <3>1. Ahead(n)[t] = Ahead(k)[t] - 1 /\ Ahead(k)[t] # 1 /\ Ahead(k)[t] > 0 /\ Ahead(k)[t] \in Int
        BY <1>4, <1>7
    <3> QED
        BY <3>1
  <2> QED
      BY <1>8, <2>1 DEF InOrder
<1>10. \A u \in Tasks :
           IF u \in Elements(e)
           THEN n.main_list[u] = Running /\ n.timed_out[u]
           ELSE n.main_list[u] = k.main_list[u] /\ n.timed_out[u] = k.timed_out[u]
    BY <1>3, Zenon DEF TickedTo
<1>11. Woken(k, n)
  <2> SUFFICES ASSUME NEW u \in Tasks
               PROVE  \/ /\ n.main_list[u] = k.main_list[u] /\ n.timed_out[u] = k.timed_out[u]
                         /\ u \in Elements(n.timeouts) <=> u \in Elements(k.timeouts)
                      \/ /\ n.main_list[u] = Running /\ n.timed_out[u]
                         /\ u \in Elements(k.timeouts) /\ u \notin Elements(n.timeouts)
                         /\ gyros_time_compare(n.now, k.timeout[u]) >= 0
      BY Zenon DEF Woken
  <2>1. CASE u \in Elements(e)
    <3>1. u \in Elements(k.timeouts) /\ u \notin Elements(n.timeouts)
        BY <1>2, <1>5, <2>1
    <3>2. gyros_time_compare(n.now, k.timeout[u]) >= 0
        BY <1>2, <1>5, <2>1
    <3> QED
        BY <1>10, <2>1, <3>1, <3>2, Zenon
  <2>2. CASE u \notin Elements(e)
    <3>1. u \in Elements(n.timeouts) <=> u \in Elements(k.timeouts)
        BY <1>5, <2>2
    <3> QED
        BY <1>10, <2>2, <3>1, Zenon
  <2> QED
      BY <2>1, <2>2
<1>12. ClockOK(n)
  <2>1. n.main_list[Idle] = Running
      BY <1>10, ListNames DEF ClockOK
  <2>2. n.pendsv \/ n.main_list[n.current] = Running
      BY <1>5, <1>10 DEF ClockOK
  <2>3. \A t \in Elements(n.timeouts) : n.main_list[t] # Running
      BY <1>4, <1>5, <1>10 DEF ClockOK
  <2> QED
      BY <1>5, <1>9, <2>1, <2>2, <2>3 DEF ClockOK
<1> QED
    BY <1>5, <1>11, <1>12 DEF n, now

\* b is a after its current task has gone to list l, or to none.
Blocked(a, b, l) ==
    /\ ClockOK(b) /\ b.pendsv /\ b.current = a.current
    /\ b.main_list = [a.main_list EXCEPT ![a.current] = l]
    /\ b.timeouts = a.timeouts /\ b.timeout = a.timeout
    /\ b.timed_out = a.timed_out /\ b.now = a.now

LEMMA BlockClock ==
    ASSUME NEW a, KernelOK(a), InOrder(a), a.main_list[Idle] = Running,
           a.current \in Tasks, a.current # Idle,
           \A u \in Elements(a.timeouts) \ {a.current} : a.main_list[u] # Running,
           NEW l, l # Running,
           NEW b, KernelOK(b), SameButLists(a, b), b.timeouts = a.timeouts,
           b.main_list = [a.main_list EXCEPT ![a.current] = l]
    PROVE  Blocked(a, gyros__reschedule(b), l)
<1> DEFINE n == gyros__reschedule(b)
<1>1. KernelOK(n) /\ n = [b EXCEPT !.pendsv = TRUE]
    BY RescheduleOK
<1>2. /\ n.pendsv /\ n.current = b.current /\ n.main_list = b.main_list
      /\ n.timeouts = b.timeouts /\ n.timeout = b.timeout
      /\ n.timed_out = b.timed_out /\ n.now = b.now
    BY <1>1 DEF KernelOK, KernelStates
<1> HIDE DEF n
<1>3. a.main_list \in [Tasks -> ListIds \cup {NoList}]
    BY DEF KernelOK, KernelStates
<1>4. Elements(a.timeouts) \subseteq Tasks
    BY TimesTyped
<1>5. n.main_list[Idle] = Running /\ \A u \in Elements(n.timeouts) : n.main_list[u] # Running
    BY <1>2, <1>3, <1>4, ListNames
<1>6. InOrder(n)
    BY <1>2, SameUrgency DEF InOrder, SameButLists
<1>7. Blocked(a, n, l)
    BY <1>1, <1>2, <1>5, <1>6 DEF Blocked, ClockOK, SameButLists
<1> QED
    BY <1>7 DEF n

\* The current task waits for an object.
LEMMA WaitClock ==
    ASSUME NEW k, ClockOK(k), k.current # Idle, ~k.pendsv, NEW l \in Objects
    PROVE  Blocked(k, Wait(k, l), l)
<1> DEFINE b == gyros__task_move(k, k.current, l)
<1>1. KernelOK(k) /\ k.current \in Tasks /\ l \in ListIds /\ l # Running
    BY ListNames DEF ClockOK
<1>2. /\ KernelOK(b) /\ SameButLists(k, b) /\ b.timeouts = k.timeouts
      /\ b.main_list = [k.main_list EXCEPT ![k.current] = l]
    BY <1>1, TaskMoveOK
<1>3. Wait(k, l) = gyros__reschedule(b)
    BY DEF Wait
<1> HIDE DEF b
<1>4. Blocked(k, gyros__reschedule(b), l)
    BY <1>1, <1>2, BlockClock DEF ClockOK
<1> QED
    BY <1>3, <1>4

\* The current task has a timeout now, and is about to block.
LEMMA TimeoutClock ==
    ASSUME NEW k, ClockOK(k), k.current # Idle, ~k.pendsv, NEW timeout \in Time,
           ~TimeoutReached(k, timeout)
    PROVE  LET a == gyros__task_set_timeout(k, timeout)
           IN  /\ KernelOK(a) /\ InOrder(a) /\ a.main_list = k.main_list
               /\ a.current = k.current /\ a.now = k.now
               /\ a.main_list[Idle] = Running /\ a.current \in Tasks /\ a.current # Idle
               /\ \A u \in Elements(a.timeouts) \ {a.current} : a.main_list[u] # Running
               /\ a.timeout = [k.timeout EXCEPT ![k.current] = timeout]
               /\ a.timed_out = [k.timed_out EXCEPT ![k.current] = FALSE]
               /\ Elements(a.timeouts) = Elements(k.timeouts) \cup {k.current}
<1>1. /\ KernelOK(k) /\ InOrder(k) /\ k.current \in Tasks
      /\ k.current \notin Elements(k.timeouts)
    BY DEF ClockOK
<1> DEFINE a == gyros__task_set_timeout(k, timeout)
<1>2. /\ KernelOK(a) /\ a.main_list = k.main_list
      /\ a.current = k.current /\ a.now = k.now
      /\ a.timeout = [k.timeout EXCEPT ![k.current] = timeout]
      /\ a.timed_out = [k.timed_out EXCEPT ![k.current] = FALSE]
      /\ Elements(a.timeouts) = Elements(k.timeouts) \cup {k.current}
    BY <1>1, SetTimeoutOK
<1>3. InOrder(a)
    BY <1>1, SetTimeoutInOrder
<1> HIDE DEF a
<1>4. /\ a.main_list[Idle] = Running /\ a.current \in Tasks /\ a.current # Idle
      /\ \A u \in Elements(a.timeouts) \ {a.current} : a.main_list[u] # Running
    BY <1>1, <1>2 DEF ClockOK
<1> QED
    BY <1>2, <1>3, <1>4 DEF a

\* n is k after its current task has gone to list l, or to none, until a time.
BlockedUntil(k, n, l, timeout) ==
    /\ ClockOK(n) /\ n.pendsv /\ n.current = k.current /\ n.now = k.now
    /\ n.main_list = [k.main_list EXCEPT ![k.current] = l]
    /\ n.timeout = [k.timeout EXCEPT ![k.current] = timeout]
    /\ n.timed_out = [k.timed_out EXCEPT ![k.current] = FALSE]
    /\ Elements(n.timeouts) = Elements(k.timeouts) \cup {k.current}

LEMMA WaitUntilClock ==
    ASSUME NEW k, ClockOK(k), k.current # Idle, ~k.pendsv, NEW timeout \in Time,
           ~TimeoutReached(k, timeout), NEW l \in Objects
    PROVE  BlockedUntil(k, WaitUntil(k, l, timeout), l, timeout)
<1> DEFINE a == gyros__task_set_timeout(k, timeout)
           b == gyros__task_move(a, k.current, l)
<1>1. /\ KernelOK(a) /\ InOrder(a) /\ a.main_list = k.main_list
      /\ a.current = k.current /\ a.now = k.now
      /\ a.main_list[Idle] = Running /\ a.current \in Tasks /\ a.current # Idle
      /\ \A u \in Elements(a.timeouts) \ {a.current} : a.main_list[u] # Running
      /\ a.timeout = [k.timeout EXCEPT ![k.current] = timeout]
      /\ a.timed_out = [k.timed_out EXCEPT ![k.current] = FALSE]
      /\ Elements(a.timeouts) = Elements(k.timeouts) \cup {k.current}
    BY TimeoutClock
<1>2. WaitUntil(k, l, timeout) = gyros__reschedule(b) /\ l \in ListIds /\ l # Running
    BY ListNames DEF WaitUntil
<1> HIDE DEF a
<1>3. /\ KernelOK(b) /\ SameButLists(a, b) /\ b.timeouts = a.timeouts
      /\ b.main_list = [a.main_list EXCEPT ![a.current] = l]
    BY <1>1, <1>2, TaskMoveOK
<1> HIDE DEF b
<1>4. Blocked(a, gyros__reschedule(b), l)
    BY <1>1, <1>2, <1>3, BlockClock
<1> QED
    BY <1>1, <1>2, <1>4 DEF Blocked, BlockedUntil

LEMMA SleepClock ==
    ASSUME NEW k, ClockOK(k), k.current # Idle, ~k.pendsv, NEW timeout \in Time,
           ~TimeoutReached(k, timeout)
    PROVE  BlockedUntil(k, gyros__reschedule(gyros__task_suspend(
                               gyros__task_set_timeout(k, timeout), k.current)),
                        NoList, timeout)
<1> DEFINE a == gyros__task_set_timeout(k, timeout)
           b == gyros__task_suspend(a, k.current)
<1>1. /\ KernelOK(a) /\ InOrder(a) /\ a.main_list = k.main_list
      /\ a.current = k.current /\ a.now = k.now
      /\ a.main_list[Idle] = Running /\ a.current \in Tasks /\ a.current # Idle
      /\ \A u \in Elements(a.timeouts) \ {a.current} : a.main_list[u] # Running
      /\ a.timeout = [k.timeout EXCEPT ![k.current] = timeout]
      /\ a.timed_out = [k.timed_out EXCEPT ![k.current] = FALSE]
      /\ Elements(a.timeouts) = Elements(k.timeouts) \cup {k.current}
    BY TimeoutClock
<1>2. NoList # Running
    BY ListNames
<1> HIDE DEF a
<1>3. /\ KernelOK(b) /\ SameButLists(a, b) /\ b.timeouts = a.timeouts
      /\ b.main_list = [a.main_list EXCEPT ![a.current] = NoList]
    BY <1>1, TaskSuspendOK
<1> HIDE DEF b
<1>4. Blocked(a, gyros__reschedule(b), NoList)
    BY <1>1, <1>2, <1>3, BlockClock
<1>5. BlockedUntil(k, gyros__reschedule(b), NoList, timeout)
    BY <1>1, <1>4 DEF Blocked, BlockedUntil
<1> QED
    BY <1>5 DEF a, b

\* A task that is not queued forgets its timeout.
LEMMA ForgetClock ==
    ASSUME NEW k, ClockOK(k), NEW t \in Tasks, t \notin Elements(k.timeouts)
    PROVE  LET n == ForgetTimeout(k, t)
           IN  /\ ClockOK(n) /\ n.now = k.now
               /\ n.main_list = k.main_list /\ n.lists = k.lists /\ n.timeouts = k.timeouts
               /\ n.timeout = [k.timeout EXCEPT ![t] = 0]
               /\ n.timed_out = [k.timed_out EXCEPT ![t] = FALSE]
<1> DEFINE n == ForgetTimeout(k, t)
<1>1. 0 \in Time
    BY DEF Time
<1>2. /\ n \in KernelStates /\ n.current = k.current /\ n.pendsv = k.pendsv
      /\ n.now = k.now /\ n.priority = k.priority
      /\ n.main_list = k.main_list /\ n.lists = k.lists /\ n.timeouts = k.timeouts
      /\ n.timeout = [k.timeout EXCEPT ![t] = 0]
      /\ n.timed_out = [k.timed_out EXCEPT ![t] = FALSE]
  <2>1. /\ n.current = k.current /\ n.pendsv = k.pendsv
        /\ n.now = k.now /\ n.priority = k.priority
        /\ n.main_list = k.main_list /\ n.lists = k.lists /\ n.timeouts = k.timeouts
        /\ n.timeout = [k.timeout EXCEPT ![t] = 0]
        /\ n.timed_out = [k.timed_out EXCEPT ![t] = FALSE]
      BY DEF ForgetTimeout, ClockOK, KernelOK, KernelStates
  <2>2. n \in KernelStates
      BY <1>1 DEF ForgetTimeout, ClockOK, KernelOK, KernelStates
  <2> QED
      BY <2>1, <2>2
<1> HIDE DEF n
<1>3. KernelOK(n)
    BY <1>2 DEF ClockOK, KernelOK, ListsOK, LinkedRight
<1>4. KernelOK(k) /\ InOrder(k) /\ k.timeout \in [Tasks -> Time]
    BY DEF ClockOK, KernelOK, KernelStates
<1>5. k.timeouts \in Seq(Tasks) /\ Elements(k.timeouts) \subseteq Tasks
    BY <1>4, TimesTyped
<1>6. ASSUME NEW u \in Elements(k.timeouts)
      PROVE  Ahead(n)[u] = Ahead(k)[u] /\ Urgency(n)[u] = Urgency(k)[u]
  <2>1. u \in Tasks /\ n.timeout[u] = k.timeout[u]
      BY <1>2, <1>4, <1>5
  <2> QED
      BY <1>2, <2>1 DEF Ahead, Urgency
<1>7. Falling(n.timeouts, Urgency(n))
    BY <1>2, <1>4, <1>5, <1>6, FallingSameKeys DEF InOrder
<1>8. InOrder(n)
    BY <1>2, <1>4, <1>6, <1>7 DEF InOrder
<1>9. ClockOK(n)
    BY <1>2, <1>3, <1>8 DEF ClockOK
<1> QED
    BY <1>2, <1>9 DEF n

\* All that wait for l are woken.
Released(k, n, l) ==
    /\ ClockOK(n) /\ n.now = k.now
    /\ n.timeout = k.timeout /\ n.timed_out = k.timed_out
    /\ \A u \in Tasks : n.main_list[u] = IF k.main_list[u] = l THEN Running ELSE k.main_list[u]
    /\ Elements(n.timeouts) = Elements(k.timeouts) \ Elements(k.lists[l])

LEMMA ReleaseClock ==
    ASSUME NEW k, ClockOK(k), NEW l \in Objects
    PROVE  Released(k, gyros__cond_reschedule(WakeSeq(k, k.lists[l])), l)
<1> DEFINE b == WakeSeq(k, k.lists[l])
           n == gyros__cond_reschedule(b)
<1>1. KernelOK(k) /\ InOrder(k) /\ l \in ListIds /\ l # Running
    BY ListNames DEF ClockOK
<1>2. k.lists[l] \in Seq(Tasks)
    BY <1>1 DEF KernelOK, KernelStates
<1>3. /\ KernelOK(b) /\ SameButLists(k, b)
      /\ \A u \in Tasks : b.main_list[u] =
             IF u \in Elements(k.lists[l]) THEN Running ELSE k.main_list[u]
      /\ Elements(b.timeouts) = Elements(k.timeouts) \ Elements(k.lists[l])
    BY <1>1, <1>2, WakeSeqOK
<1>4. InOrder(b)
    BY <1>1, <1>2, WakeSeqInOrder
<1> HIDE DEF b
<1>5. KernelOK(n) /\ (n = b \/ n = [b EXCEPT !.pendsv = TRUE])
    BY <1>3, CondRescheduleOK
<1>6. /\ n.current = b.current /\ n.main_list = b.main_list /\ n.now = b.now
      /\ n.timeouts = b.timeouts /\ n.timeout = b.timeout /\ n.timed_out = b.timed_out
      /\ b.pendsv => n.pendsv
    BY <1>3, <1>5 DEF KernelOK, KernelStates
<1> HIDE DEF n
<1>7. \A u \in Tasks : u \in Elements(k.lists[l]) <=> k.main_list[u] = l
    BY <1>1, WaitersAre
<1>8. Elements(k.timeouts) \subseteq Tasks
    BY <1>1, TimesTyped
<1>9. InOrder(n)
    BY <1>4, <1>6, SameUrgency DEF InOrder
<1>10. \A u \in Tasks : n.main_list[u] = IF k.main_list[u] = l THEN Running ELSE k.main_list[u]
    BY <1>3, <1>6, <1>7
<1>11. /\ n.current \in Tasks /\ n.main_list[Idle] = Running
       /\ n.pendsv \/ n.main_list[n.current] = Running
       /\ \A u \in Elements(n.timeouts) : n.main_list[u] # Running
  <2>1. n.current = k.current /\ (k.pendsv => n.pendsv)
      BY <1>3, <1>6 DEF SameButLists
  <2>2. n.current \in Tasks /\ n.main_list[Idle] = Running
      BY <1>10, <2>1, ListNames DEF ClockOK
  <2>3. n.pendsv \/ n.main_list[n.current] = Running
      BY <1>10, <2>1 DEF ClockOK
  <2>4. \A u \in Elements(n.timeouts) : n.main_list[u] # Running
      BY <1>3, <1>6, <1>7, <1>8, <1>10 DEF ClockOK
  <2> QED
      BY <2>2, <2>3, <2>4
<1>12. ClockOK(n)
    BY <1>5, <1>9, <1>11 DEF ClockOK
<1>13. Released(k, n, l)
    BY <1>3, <1>6, <1>10, <1>12 DEF Released, SameButLists
<1> QED
    BY <1>13 DEF n, b

\* All that wait for l leave the timeout list.
LEMMA WithoutWaitersOK ==
    ASSUME NEW k, KernelOK(k), InOrder(k), NEW l \in Objects
    PROVE  /\ WithoutWaiters(k, l) \in Seq(Tasks) /\ Distinct(WithoutWaiters(k, l))
           /\ Elements(WithoutWaiters(k, l)) = Elements(k.timeouts) \ Elements(k.lists[l])
           /\ Falling(WithoutWaiters(k, l), Urgency(k))
<1>1. k.timeouts \in Seq(Tasks) /\ Distinct(k.timeouts) /\ k.lists[l] \in Seq(Tasks)
    BY ListNames DEF KernelOK, KernelStates
<1>2. Falling(k.timeouts, Urgency(k))
    BY DEF InOrder
<1> QED
    BY <1>1, <1>2, ListRemoveAllProperties DEF WithoutWaiters

LEMMA UntimeClock ==
    ASSUME NEW k, ClockOK(k), NEW l \in Objects
    PROVE  LET n == [k EXCEPT !.timeouts = WithoutWaiters(k, l)]
           IN  /\ ClockOK(n) /\ n.now = k.now
               /\ n.main_list = k.main_list /\ n.lists = k.lists
               /\ n.timeout = k.timeout /\ n.timed_out = k.timed_out
               /\ Elements(n.timeouts) = Elements(k.timeouts) \ Elements(k.lists[l])
<1> DEFINE w == WithoutWaiters(k, l)
           n == [k EXCEPT !.timeouts = w]
<1>1. KernelOK(k) /\ InOrder(k)
    BY DEF ClockOK
<1>2. /\ w \in Seq(Tasks) /\ Distinct(w)
      /\ Elements(w) = Elements(k.timeouts) \ Elements(k.lists[l])
      /\ Falling(w, Urgency(k))
    BY <1>1, WithoutWaitersOK
<1> HIDE DEF w
<1>3. /\ n \in KernelStates /\ n.timeouts = w
      /\ n.current = k.current /\ n.pendsv = k.pendsv /\ n.now = k.now
      /\ n.main_list = k.main_list /\ n.lists = k.lists /\ n.priority = k.priority
      /\ n.timeout = k.timeout /\ n.timed_out = k.timed_out
    BY <1>1, <1>2 DEF KernelOK, KernelStates
<1> HIDE DEF n
<1>4. KernelOK(n)
    BY <1>1, <1>2, <1>3 DEF KernelOK, ListsOK, LinkedRight
<1>5. InOrder(n)
    BY <1>1, <1>2, <1>3, SameUrgency DEF InOrder
<1>6. ClockOK(n)
    BY <1>2, <1>3, <1>4, <1>5 DEF ClockOK
<1> QED
    BY <1>2, <1>3, <1>6 DEF n, w

\* The nodes of a list, in reverse order.
LEMMA ReverseOK ==
    ASSUME NEW T, NEW s \in Seq(T), Distinct(s)
    PROVE  /\ Reverse(s) \in Seq(T) /\ Distinct(Reverse(s))
           /\ Elements(Reverse(s)) = Elements(s)
<1> DEFINE r == Reverse(s)
<1>1. /\ r \in Seq(T) /\ Len(r) = Len(s)
      /\ \A i \in 1..Len(s) : r[i] = s[Len(s) - i + 1]
    BY DEF Reverse
<1> HIDE DEF r
<1>2. Distinct(r)
  <2> SUFFICES ASSUME NEW i \in 1..Len(s), NEW j \in 1..Len(s), i < j
               PROVE  r[i] # r[j]
      BY <1>1, Zenon DEF Distinct
  <2>1. /\ Len(s) - i + 1 \in 1..Len(s) /\ Len(s) - j + 1 \in 1..Len(s)
        /\ Len(s) - j + 1 < Len(s) - i + 1
      OBVIOUS
  <2>2. s[Len(s) - j + 1] # s[Len(s) - i + 1]
      BY <2>1 DEF Distinct
  <2> QED
      BY <1>1, <2>2
<1>3. ASSUME NEW x \in Elements(r) PROVE x \in Elements(s)
  <2>1. PICK i \in 1..Len(s) : r[i] = x
      BY <1>1, <1>3 DEF Elements, ToSet
  <2>2. Len(s) - i + 1 \in 1..Len(s)
      OBVIOUS
  <2>3. s[Len(s) - i + 1] = x
      BY <1>1, <2>1
  <2> QED
      BY <2>2, <2>3 DEF Elements, ToSet
<1>4. ASSUME NEW x \in Elements(s) PROVE x \in Elements(r)
  <2>1. PICK i \in 1..Len(s) : s[i] = x
      BY <1>4 DEF Elements, ToSet
  <2>2. Len(s) - i + 1 \in 1..Len(s) /\ Len(s) - (Len(s) - i + 1) + 1 = i
      OBVIOUS
  <2>3. r[Len(s) - i + 1] = x
      BY <1>1, <2>1, <2>2
  <2> QED
      BY <1>1, <2>2, <2>3 DEF Elements, ToSet
<1> QED
    BY <1>1, <1>2, <1>3, <1>4 DEF r

\* All that wait for l wait for a new time.
Retimed(k, n, l, time) ==
    /\ ClockOK(n) /\ n.now = k.now
    /\ n.main_list = k.main_list /\ n.lists = k.lists
    /\ Elements(n.timeouts) = Elements(k.timeouts) \cup Elements(k.lists[l])
    /\ \A t \in Tasks :
           IF t \in Elements(k.lists[l])
           THEN n.timeout[t] = time /\ ~n.timed_out[t]
           ELSE n.timeout[t] = k.timeout[t] /\ n.timed_out[t] = k.timed_out[t]

LEMMA RetimeClock ==
    ASSUME NEW k, ClockOK(k), NEW l \in Objects, NEW time \in Time,
           ~TimeoutReached(k, time)
    PROVE  Retimed(k, Retime(k, l, time), l, time)
<1> DEFINE n == Retime(k, l, time)
           w == k.lists[l]
           W == Elements(w)
           o == WithoutWaiters(k, l)
           later == {p \in 1..Len(o) : gyros_time_compare(time, k.timeout[o[p]]) < 0}
           p == FirstPosition(o, later)
           rw == Reverse(w)
           r == Splice(o, p, rw)
<1>1. /\ KernelOK(k) /\ InOrder(k) /\ k.now \in Time /\ k.timeout \in [Tasks -> Time]
      /\ k.timed_out \in [Tasks -> BOOLEAN]
    BY DEF ClockOK, KernelOK, KernelStates
<1>2. /\ o \in Seq(Tasks) /\ Distinct(o)
      /\ Elements(o) = Elements(k.timeouts) \ W
      /\ Falling(o, Urgency(k))
    BY <1>1, WithoutWaitersOK
<1>3. w \in Seq(Tasks) /\ Distinct(w) /\ W \subseteq Tasks
      /\ \A t \in Tasks : t \in W <=> k.main_list[t] = l
  <2>1. w \in Seq(Tasks) /\ Distinct(w) /\ l \in ListIds
      BY <1>1, ListNames DEF KernelOK, KernelStates, ListsOK
  <2> QED
      BY <1>1, <2>1, ElementsOfSeq, WaitersAre
<1>4. n = [k EXCEPT !.timeouts = r,
                    !.timeout = [t \in Tasks |-> IF t \in W THEN time ELSE @[t]],
                    !.timed_out = [t \in Tasks |-> t \notin W /\ @[t]]]
    BY DEF Retime, Splice
<1> HIDE DEF n, o, w
<1>5. /\ p \in 1..Len(o) + 1 /\ \A j \in later : p <= j
      /\ p # Len(o) + 1 => p \in later
  <2>1. later \subseteq 1..Len(o)
      OBVIOUS
  <2> HIDE DEF later
  <2> QED
      BY <1>2, <2>1, FirstPositionProperties
<1>6. rw \in Seq(Tasks) /\ Distinct(rw) /\ Elements(rw) = W
    BY <1>3, ReverseOK
<1> HIDE DEF p, rw
<1>7. IsSplice(r, o, p, rw, Tasks)
    BY <1>2, <1>5, <1>6, SpliceIs DEF IsSplice
<1> HIDE DEF r, W
<1>8. r \in Seq(Tasks) /\ Distinct(r) /\ Elements(r) = Elements(k.timeouts) \cup W
  <2>1. Elements(o) \cap Elements(rw) = {} /\ r \in Seq(Tasks)
      BY <1>2, <1>6, <1>7 DEF IsSplice
  <2>2. Distinct(r) /\ Elements(r) = Elements(o) \cup Elements(rw)
      BY <1>2, <1>6, <1>7, <2>1, SpliceProperties
  <2> QED
      BY <1>2, <1>6, <2>1, <2>2
<1>9. /\ n.timeouts = r /\ n.current = k.current /\ n.pendsv = k.pendsv /\ n.now = k.now
      /\ n.main_list = k.main_list /\ n.lists = k.lists /\ n.priority = k.priority
      /\ n.timeout = [t \in Tasks |-> IF t \in W THEN time ELSE k.timeout[t]]
      /\ n.timed_out = [t \in Tasks |-> t \notin W /\ k.timed_out[t]]
    BY <1>1, <1>4 DEF KernelOK, KernelStates
<1>10. n \in KernelStates
  <2>1. [t \in Tasks |-> IF t \in W THEN time ELSE k.timeout[t]] \in [Tasks -> Time]
      BY <1>1
  <2>2. [t \in Tasks |-> t \notin W /\ k.timed_out[t]] \in [Tasks -> BOOLEAN]
      BY <1>1, Zenon
  <2>3. n = [k EXCEPT !.timeouts = r, !.timeout = n.timeout, !.timed_out = n.timed_out]
      BY <1>1, <1>4 DEF KernelOK, KernelStates
  <2>4. n.timeout \in [Tasks -> Time] /\ n.timed_out \in [Tasks -> BOOLEAN]
      BY <1>9, <2>1, <2>2
  <2> QED
      BY <1>1, <1>8, <2>3, <2>4 DEF KernelOK, KernelStates
<1>11. KernelOK(n)
    BY <1>1, <1>8, <1>9, <1>10 DEF KernelOK, ListsOK, LinkedRight
<1>12. \A t \in Tasks :
           /\ Ahead(k)[t] = gyros_time_compare(k.timeout[t], k.now)
           /\ Ahead(k)[t] \in Int /\ Urgency(k)[t] = -Ahead(k)[t]
           /\ Ahead(n)[t] = gyros_time_compare(n.timeout[t], n.now)
           /\ Ahead(n)[t] \in Int /\ Urgency(n)[t] = -Ahead(n)[t]
           /\ n.timeout[t] = IF t \in W THEN time ELSE k.timeout[t]
    BY <1>1, <1>9, <1>11, TimesTyped
<1> DEFINE d == gyros_time_compare(time, k.now)
<1>13. d \in Int /\ d > 0
  <2>1. d \in Int
      BY <1>1, CompareType, Halves
  <2> QED
      BY <2>1 DEF TimeoutReached
<1>14. \A t \in Tasks : Ahead(n)[t] = IF t \in W THEN d ELSE Ahead(k)[t]
    BY <1>9, <1>12
<1>15. ASSUME NEW i \in 1..Len(o)
       PROVE  gyros_time_compare(time, k.timeout[o[i]]) < 0 <=> -d > Urgency(k)[o[i]]
  <2> DEFINE u == o[i]
             b == k.timeout[u]
  <2>1. u \in Tasks /\ u \in Elements(k.timeouts)
      BY <1>2 DEF Elements, ToSet
  <2> HIDE DEF u
  <2>2. b \in Time /\ gyros_time_compare(b, k.now) = Ahead(k)[u] /\ Ahead(k)[u] > 0
      BY <1>1, <1>12, <2>1 DEF InOrder
  <2> HIDE DEF b
  <2>3. gyros_time_compare(b, k.now) >= 0 /\ d >= 0
      BY <1>12, <1>13, <2>1, <2>2
  <2>4. gyros_time_compare(time, b) = d - gyros_time_compare(b, k.now)
      BY <1>1, <2>2, <2>3, CompareAhead
  <2>5. gyros_time_compare(time, b) < 0 <=> -d > Urgency(k)[u]
    <3> HIDE DEF d
    <3>1. Ahead(k)[u] \in Int /\ Urgency(k)[u] = -Ahead(k)[u]
        BY <1>12, <2>1
    <3> QED
        BY <1>13, <2>2, <2>4, <3>1
  <2> QED
      BY <2>5 DEF b, u
<1> HIDE DEF d
<1>16. Falling(r, Urgency(n))
  <2> DEFINE c == -d
  <2>1. Urgency(k) \in [Tasks -> Int] /\ c \in Int
      BY <1>1, <1>13, TimesTyped
  <2>2. \A i \in 1..Len(o) : i < p => ~(c > Urgency(k)[o[i]])
    <3> SUFFICES ASSUME NEW i \in 1..Len(o), i < p PROVE ~(c > Urgency(k)[o[i]])
        OBVIOUS
    <3>1. i \notin later
        BY <1>2, <1>5
    <3>2. ~(gyros_time_compare(time, k.timeout[o[i]]) < 0)
        BY <3>1
    <3> QED
        BY <1>15, <3>2
  <2>3. p \in 1..Len(o) => c > Urgency(k)[o[p]]
    <3> SUFFICES ASSUME p \in 1..Len(o) PROVE c > Urgency(k)[o[p]]
        OBVIOUS
    <3>1. p \in later
        BY <1>2, <1>5
    <3>2. gyros_time_compare(time, k.timeout[o[p]]) < 0
        BY <3>1
    <3> QED
        BY <1>15, <3>2
  <2>4. \A x \in Elements(o) : Urgency(n)[x] = Urgency(k)[x]
    <3> SUFFICES ASSUME NEW x \in Elements(o) PROVE Urgency(n)[x] = Urgency(k)[x]
        OBVIOUS
    <3>1. x \in Tasks /\ x \notin W
        BY <1>1, <1>2, TimesTyped
    <3> QED
        BY <1>12, <1>14, <3>1
  <2>5. \A x \in Elements(rw) : Urgency(n)[x] = c
    <3> SUFFICES ASSUME NEW x \in Elements(rw) PROVE Urgency(n)[x] = c
        OBVIOUS
    <3>1. x \in Tasks /\ x \in W
        BY <1>3, <1>6
    <3> QED
        BY <1>12, <1>14, <3>1
  <2> HIDE DEF c, later
  <2> QED
      BY <1>2, <1>7, <2>1, <2>2, <2>3, <2>4, <2>5, SpliceKeepsFalling
<1>17. InOrder(n)
  <2>1. Elements(k.timeouts) \subseteq Tasks
      BY <1>1, TimesTyped
  <2>2. \A t \in Elements(n.timeouts) : Ahead(n)[t] > 0
      BY <1>1, <1>3, <1>8, <1>9, <1>13, <1>14, <2>1 DEF InOrder
  <2> QED
      BY <1>9, <1>16, <2>2 DEF InOrder
<1>18. \A t \in Elements(n.timeouts) : n.main_list[t] # Running
    BY <1>3, <1>8, <1>9, ListNames DEF ClockOK
<1>19. ClockOK(n)
    BY <1>9, <1>11, <1>17, <1>18 DEF ClockOK
<1>20. ASSUME NEW t \in Tasks
       PROVE  IF t \in W
              THEN n.timeout[t] = time /\ ~n.timed_out[t]
              ELSE n.timeout[t] = k.timeout[t] /\ n.timed_out[t] = k.timed_out[t]
  <2>1. n.timed_out[t] = (t \notin W /\ k.timed_out[t])
      BY <1>9, Zenon
  <2>2. k.timed_out[t] \in BOOLEAN
      BY <1>1, Zenon
  <2> QED
      BY <1>12, <2>1, <2>2
<1>21. Retimed(k, n, l, time)
    BY <1>8, <1>9, <1>19, <1>20 DEF Retimed, W, w
<1> QED
    BY <1>21 DEF n

-----------------------------------------------------------------------------
(* What the steps keep, as relations between kernel states and alarms.     *)

AlarmStates == [Alarms -> [armed : BOOLEAN, wakeup_time : Time]]

\* WaitersFollowAlarm, of a kernel state and the alarms.
FollowOK(k, al) ==
    \A a \in Alarms : \A t \in Tasks : k.main_list[t] = a =>
        /\ al[a].armed <=> t \in Elements(k.timeouts)
        /\ al[a].armed => k.timeout[t] = al[a].wakeup_time

\* The steps of TimesOutOnlyWhenReached and of WaitEndsAtAlarm.
TimesOutOK(k, n) ==
    \A t \in Tasks : ~k.timed_out[t] /\ n.timed_out[t] =>
        t \in Elements(k.timeouts) /\ gyros_time_compare(n.now, k.timeout[t]) >= 0

EndsOK(k, n, al) ==
    \A a \in Alarms : \A t \in Tasks : k.main_list[t] = a =>
        \/ n.main_list[t] = a
        \/ al[a].armed /\ gyros_time_compare(al[a].wakeup_time, n.now) <= 0

StepOK(k, n, al) ==
    /\ ClockOK(n) /\ FollowOK(n, al)
    /\ TimesOutOK(k, n) /\ EndsOK(k, n, al)

\* The alarms are lists of their own.
LEMMA AlarmNames ==
    /\ Alarms \subseteq Objects /\ Running \notin Alarms /\ NoList \notin Alarms
    /\ \A A \in Applications : /\ A.tasks \subseteq Tasks /\ Idle \notin A.tasks
                               /\ A.alarms \subseteq Alarms /\ A.timers \subseteq AllTimers
<1>1. Alarms \subseteq Objects
    BY TimersAssumption
<1>2. Running \notin Alarms /\ NoList \notin Alarms
    BY <1>1, ListNames DEF ListIds
<1>3. ASSUME NEW A \in Applications
      PROVE  /\ A.tasks \subseteq Tasks /\ Idle \notin A.tasks
             /\ A.alarms \subseteq Alarms /\ A.timers \subseteq AllTimers
  <2>1. A \in [tasks : SUBSET (Tasks \ {Idle}), timers : SUBSET AllTimers,
               alarms : SUBSET Alarms]
      BY TimersAssumption
  <2> QED
      BY <2>1
<1> QED
    BY <1>1, <1>2, <1>3

LEMMA DeadlineIsTime ==
    ASSUME NEW now \in Time, NEW delay \in Int
    PROVE  (now + delay) % TimeRange \in Time
<1>1. TimeRange \in Nat /\ TimeRange > 0 /\ now \in Int
    BY DEF Time
<1> DEFINE x == now + delay
<1>2. x \in Int
    BY <1>1
<1> HIDE DEF x
<1>3. x % TimeRange \in 0..TimeRange - 1
    BY <1>1, <1>2
<1> QED
    BY <1>3 DEF x, Time

\* Nothing of what the properties look at changes.
LEMMA StepSame ==
    ASSUME NEW k, NEW n, NEW al, ClockOK(n), FollowOK(k, al),
           n.main_list = k.main_list, n.timed_out = k.timed_out,
           n.timeout = k.timeout, n.timeouts = k.timeouts
    PROVE  StepOK(k, n, al)
    BY DEF StepOK, FollowOK, TimesOutOK, EndsOK

LEMMA StepTick ==
    ASSUME NEW k, ClockOK(k), NEW al \in AlarmStates, FollowOK(k, al)
    PROVE  StepOK(k, gyros__tick(k, Next1(k.now)), al)
<1> DEFINE n == gyros__tick(k, Next1(k.now))
<1>1. ClockOK(n) /\ Woken(k, n) /\ n.timeout = k.timeout
    BY TickClock
<1> HIDE DEF n
<1>2. Running \notin Alarms
    BY AlarmNames
<1>3. /\ n.now \in Time /\ \A t \in Tasks : k.timeout[t] \in Time
      /\ \A t \in Tasks : k.timed_out[t] \in BOOLEAN
    BY <1>1 DEF ClockOK, KernelOK, KernelStates
<1>4. FollowOK(n, al)
  <2> SUFFICES ASSUME NEW a \in Alarms, NEW t \in Tasks, n.main_list[t] = a
               PROVE  /\ al[a].armed <=> t \in Elements(n.timeouts)
                      /\ al[a].armed => n.timeout[t] = al[a].wakeup_time
      BY DEF FollowOK
  <2>1. n.main_list[t] = k.main_list[t] /\ (t \in Elements(n.timeouts) <=> t \in Elements(k.timeouts))
      BY <1>1, <1>2 DEF Woken
  <2> QED
      BY <1>1, <2>1 DEF FollowOK
<1>5. TimesOutOK(k, n)
  <2> SUFFICES ASSUME NEW t \in Tasks, ~k.timed_out[t], n.timed_out[t]
               PROVE  t \in Elements(k.timeouts) /\ gyros_time_compare(n.now, k.timeout[t]) >= 0
      BY DEF TimesOutOK
  <2>1. n.timed_out[t] # k.timed_out[t]
      OBVIOUS
  <2> QED
      BY <1>1, <2>1, Zenon DEF Woken
<1>6. EndsOK(k, n, al)
  <2> SUFFICES ASSUME NEW a \in Alarms, NEW t \in Tasks, k.main_list[t] = a,
                      n.main_list[t] # a
               PROVE  al[a].armed /\ gyros_time_compare(al[a].wakeup_time, n.now) <= 0
      BY DEF EndsOK
  <2>1. t \in Elements(k.timeouts) /\ gyros_time_compare(n.now, k.timeout[t]) >= 0
      BY <1>1 DEF Woken
  <2>2. al[a].armed /\ k.timeout[t] = al[a].wakeup_time
      BY <2>1 DEF FollowOK
  <2>3. k.timeout[t] \in Time
      BY <1>3
  <2>4. gyros_time_compare(k.timeout[t], n.now) <= 0
      BY <1>3, <2>1, <2>3, CompareTurned
  <2> QED
      BY <2>2, <2>4
<1>7. StepOK(k, n, al)
    BY <1>1, <1>4, <1>5, <1>6 DEF StepOK
<1> QED
    BY <1>7 DEF n

\* The current task waits for an alarm that is not armed,
LEMMA StepWait ==
    ASSUME NEW k, ClockOK(k), k.current # Idle, ~k.pendsv, NEW al \in AlarmStates,
           FollowOK(k, al), NEW a \in Alarms, ~al[a].armed
    PROVE  StepOK(k, Wait(k, a), al) /\ Wait(k, a).now = k.now
<1> DEFINE n == Wait(k, a)
           c == k.current
<1>1. a \in Objects /\ Running \notin Alarms
    BY AlarmNames
<1>2. Blocked(k, n, a)
    BY <1>1, WaitClock
<1> HIDE DEF n
<1>3. /\ c \in Tasks /\ k.main_list[c] = Running /\ c \notin Elements(k.timeouts)
      /\ k.main_list \in [Tasks -> ListIds \cup {NoList}]
    BY DEF ClockOK, KernelOK, KernelStates
<1>4. /\ n.main_list[c] = a
      /\ \A t \in Tasks \ {c} : n.main_list[t] = k.main_list[t]
      /\ n.timeouts = k.timeouts /\ n.timeout = k.timeout /\ n.timed_out = k.timed_out
    BY <1>2, <1>3 DEF Blocked
<1>5. FollowOK(n, al)
    BY <1>3, <1>4 DEF FollowOK
<1>6. TimesOutOK(k, n) /\ EndsOK(k, n, al)
    BY <1>1, <1>3, <1>4 DEF TimesOutOK, EndsOK
<1>7. StepOK(k, n, al) /\ n.now = k.now
    BY <1>2, <1>5, <1>6 DEF StepOK, Blocked
<1> QED
    BY <1>7 DEF n

\* for one that is, or sleeps.
LEMMA StepUntil ==
    ASSUME NEW k, ClockOK(k), k.current # Idle, ~k.pendsv, NEW al \in AlarmStates,
           FollowOK(k, al), NEW l, NEW time, NEW n, BlockedUntil(k, n, l, time),
           l \in Alarms => al[l].armed /\ al[l].wakeup_time = time
    PROVE  StepOK(k, n, al) /\ n.now = k.now
<1> DEFINE c == k.current
<1>1. Running \notin Alarms
    BY AlarmNames
<1>2. /\ c \in Tasks /\ k.main_list[c] = Running
      /\ k.main_list \in [Tasks -> ListIds \cup {NoList}]
      /\ k.timeout \in [Tasks -> Time] /\ k.timed_out \in [Tasks -> BOOLEAN]
    BY DEF ClockOK, KernelOK, KernelStates
<1>3. /\ n.main_list[c] = l /\ n.timeout[c] = time
      /\ \A t \in Tasks \ {c} : n.main_list[t] = k.main_list[t] /\ n.timeout[t] = k.timeout[t]
      /\ Elements(n.timeouts) = Elements(k.timeouts) \cup {c}
    BY <1>2 DEF BlockedUntil
<1>4. \A t \in Tasks : n.timed_out[t] => k.timed_out[t]
  <2>1. n.timed_out = [k.timed_out EXCEPT ![c] = FALSE]
      BY DEF BlockedUntil
  <2> QED
      BY <1>2, <2>1
<1>5. FollowOK(n, al)
  <2> SUFFICES ASSUME NEW a \in Alarms, NEW t \in Tasks, n.main_list[t] = a
               PROVE  /\ al[a].armed <=> t \in Elements(n.timeouts)
                      /\ al[a].armed => n.timeout[t] = al[a].wakeup_time
      BY DEF FollowOK
  <2>1. CASE t = c
      BY <1>3, <2>1
  <2>2. CASE t # c
      BY <1>3, <2>2 DEF FollowOK
  <2> QED
      BY <2>1, <2>2
<1>6. TimesOutOK(k, n)
    BY <1>4, Zenon DEF TimesOutOK
<1>7. EndsOK(k, n, al)
    BY <1>1, <1>2, <1>3 DEF EndsOK
<1> QED
    BY <1>5, <1>6, <1>7 DEF StepOK, BlockedUntil

\* A task that can run returns from a call and forgets its timeout.
LEMMA StepForget ==
    ASSUME NEW k, ClockOK(k), ~k.pendsv, NEW al \in AlarmStates, FollowOK(k, al)
    PROVE  /\ StepOK(k, ForgetTimeout(k, k.current), al)
           /\ ForgetTimeout(k, k.current).now = k.now
<1> DEFINE n == ForgetTimeout(k, k.current)
           c == k.current
<1>1. /\ c \in Tasks /\ k.main_list[c] = Running /\ c \notin Elements(k.timeouts)
      /\ k.timeout \in [Tasks -> Time] /\ k.timed_out \in [Tasks -> BOOLEAN]
    BY DEF ClockOK, KernelOK, KernelStates
<1>2. /\ ClockOK(n) /\ n.main_list = k.main_list /\ n.timeouts = k.timeouts
      /\ n.now = k.now
      /\ n.timeout = [k.timeout EXCEPT ![c] = 0]
      /\ n.timed_out = [k.timed_out EXCEPT ![c] = FALSE]
    BY <1>1, ForgetClock
<1> HIDE DEF n
<1>3. Running \notin Alarms
    BY AlarmNames
<1>4. FollowOK(n, al)
  <2> SUFFICES ASSUME NEW a \in Alarms, NEW t \in Tasks, n.main_list[t] = a
               PROVE  /\ al[a].armed <=> t \in Elements(n.timeouts)
                      /\ al[a].armed => n.timeout[t] = al[a].wakeup_time
      BY DEF FollowOK
  <2>1. t # c /\ n.timeout[t] = k.timeout[t]
      BY <1>1, <1>2, <1>3
  <2> QED
      BY <1>2, <2>1 DEF FollowOK
<1>5. \A t \in Tasks : n.timed_out[t] => k.timed_out[t]
    BY <1>1, <1>2
<1>6. TimesOutOK(k, n)
    BY <1>5, Zenon DEF TimesOutOK
<1>7. EndsOK(k, n, al)
    BY <1>2 DEF EndsOK
<1>8. StepOK(k, n, al) /\ n.now = k.now
    BY <1>2, <1>4, <1>6, <1>7 DEF StepOK
<1> QED
    BY <1>8 DEF n

\* The state after gyros_alarm_clock_set and gyros_alarm_clock_reset.
AfterSet(k, a, time) ==
    IF k.lists[a] = <<>>
    THEN k
    ELSE IF TimeoutReached(k, time)
    THEN gyros__cond_reschedule(WakeSeq(k, k.lists[a]))
    ELSE Retime(k, a, time)

AfterReset(k, a, al) ==
    IF al[a].armed THEN [k EXCEPT !.timeouts = WithoutWaiters(k, a)] ELSE k

LEMMA StepSet ==
    ASSUME NEW k, ClockOK(k), NEW al \in AlarmStates, FollowOK(k, al),
           NEW a \in Alarms, NEW time \in Time
    PROVE  /\ StepOK(k, AfterSet(k, a, time),
                     [al EXCEPT ![a] = [armed |-> TRUE, wakeup_time |-> time]])
           /\ AfterSet(k, a, time).now = k.now
<1> DEFINE al2 == [al EXCEPT ![a] = [armed |-> TRUE, wakeup_time |-> time]]
           n == AfterSet(k, a, time)
<1>1. a \in Objects /\ Running \notin Alarms /\ a \in ListIds /\ a # Running
    BY AlarmNames, ListNames
<1>2. /\ al2[a].armed /\ al2[a].wakeup_time = time
      /\ \A b \in Alarms \ {a} : al2[b] = al[b]
    BY DEF AlarmStates
<1> HIDE DEF al2
<1>3. KernelOK(k) /\ \A t \in Tasks : t \in Elements(k.lists[a]) <=> k.main_list[t] = a
    BY <1>1, WaitersAre DEF ClockOK
<1>4. CASE k.lists[a] = <<>>
  <2>1. n = k /\ Elements(k.lists[a]) = {}
      BY <1>4 DEF AfterSet, Elements, ToSet
  <2>2. FollowOK(k, al2)
      BY <1>2, <1>3, <2>1 DEF FollowOK
  <2> QED
      BY <2>1, <2>2, StepSame DEF al2
<1>5. CASE k.lists[a] # <<>> /\ TimeoutReached(k, time)
  <2>1. n = gyros__cond_reschedule(WakeSeq(k, k.lists[a]))
      BY <1>5 DEF AfterSet
  <2> HIDE DEF n
  <2>2. Released(k, n, a)
      BY <1>1, <2>1, ReleaseClock
  <2>3. FollowOK(n, al2)
    <3> SUFFICES ASSUME NEW b \in Alarms, NEW t \in Tasks, n.main_list[t] = b
                 PROVE  /\ al2[b].armed <=> t \in Elements(n.timeouts)
                        /\ al2[b].armed => n.timeout[t] = al2[b].wakeup_time
        BY DEF FollowOK
    <3>1. k.main_list[t] = b /\ b # a /\ t \notin Elements(k.lists[a])
        BY <1>1, <1>3, <2>2 DEF Released
    <3> QED
        BY <1>2, <2>2, <3>1 DEF FollowOK, Released
  <2>4. EndsOK(k, n, al2)
    <3> SUFFICES ASSUME NEW b \in Alarms, NEW t \in Tasks, k.main_list[t] = b,
                        n.main_list[t] # b
                 PROVE  al2[b].armed /\ gyros_time_compare(al2[b].wakeup_time, n.now) <= 0
        BY DEF EndsOK
    <3>1. b = a /\ n.now = k.now
        BY <2>2 DEF Released
    <3> QED
        BY <1>2, <1>5, <3>1 DEF TimeoutReached
  <2>5. TimesOutOK(k, n)
      BY <2>2 DEF Released, TimesOutOK
  <2>6. StepOK(k, n, al2) /\ n.now = k.now
      BY <2>2, <2>3, <2>4, <2>5 DEF StepOK, Released
  <2> QED
      BY <2>6 DEF n, al2
<1>6. CASE k.lists[a] # <<>> /\ ~TimeoutReached(k, time)
  <2>1. n = Retime(k, a, time)
      BY <1>6 DEF AfterSet
  <2> HIDE DEF n
  <2>2. Retimed(k, n, a, time)
      BY <1>1, <1>6, <2>1, RetimeClock
  <2>3. FollowOK(n, al2)
    <3> SUFFICES ASSUME NEW b \in Alarms, NEW t \in Tasks, n.main_list[t] = b
                 PROVE  /\ al2[b].armed <=> t \in Elements(n.timeouts)
                        /\ al2[b].armed => n.timeout[t] = al2[b].wakeup_time
        BY DEF FollowOK
    <3>1. k.main_list[t] = b
        BY <2>2 DEF Retimed
    <3>2. CASE b = a
        BY <1>2, <1>3, <2>2, <3>1, <3>2 DEF Retimed
    <3>3. CASE b # a
      <4>1. /\ t \notin Elements(k.lists[a]) /\ al2[b] = al[b]
            /\ t \in Elements(n.timeouts) <=> t \in Elements(k.timeouts)
            /\ n.timeout[t] = k.timeout[t]
          BY <1>2, <1>3, <2>2, <3>1, <3>3 DEF Retimed
      <4> QED
          BY <3>1, <4>1 DEF FollowOK
    <3> QED
        BY <3>2, <3>3
  <2>4. EndsOK(k, n, al2)
      BY <2>2 DEF EndsOK, Retimed
  <2>5. \A t \in Tasks : n.timed_out[t] => k.timed_out[t]
    <3> SUFFICES ASSUME NEW t \in Tasks, n.timed_out[t] PROVE k.timed_out[t]
        OBVIOUS
    <3>1. n.timed_out[t] = k.timed_out[t]
        BY <2>2 DEF Retimed
    <3> QED
        BY <3>1
  <2>6. TimesOutOK(k, n)
      BY <2>5, Zenon DEF TimesOutOK
  <2>7. StepOK(k, n, al2) /\ n.now = k.now
      BY <2>2, <2>3, <2>4, <2>6 DEF StepOK, Retimed
  <2> QED
      BY <2>7 DEF n, al2
<1> QED
    BY <1>4, <1>5, <1>6

LEMMA StepReset ==
    ASSUME NEW k, ClockOK(k), NEW al \in AlarmStates, FollowOK(k, al), NEW a \in Alarms
    PROVE  /\ StepOK(k, AfterReset(k, a, al), [al EXCEPT ![a] = Unarmed])
           /\ AfterReset(k, a, al).now = k.now
<1> DEFINE al2 == [al EXCEPT ![a] = Unarmed]
           n == AfterReset(k, a, al)
<1>1. a \in Objects /\ a \in ListIds
    BY AlarmNames, ListNames
<1>2. ~al2[a].armed /\ \A b \in Alarms \ {a} : al2[b] = al[b]
    BY DEF AlarmStates, Unarmed
<1> HIDE DEF al2
<1>3. KernelOK(k) /\ \A t \in Tasks : t \in Elements(k.lists[a]) <=> k.main_list[t] = a
    BY <1>1, WaitersAre DEF ClockOK
<1>4. CASE ~al[a].armed
  <2>1. n = k
      BY <1>4 DEF AfterReset
  <2>2. FollowOK(k, al2)
      BY <1>2, <1>4 DEF FollowOK
  <2> QED
      BY <2>1, <2>2, StepSame DEF al2
<1>5. CASE al[a].armed
  <2>1. n = [k EXCEPT !.timeouts = WithoutWaiters(k, a)]
      BY <1>5 DEF AfterReset
  <2> HIDE DEF n
  <2>2. /\ ClockOK(n) /\ n.main_list = k.main_list /\ n.now = k.now
        /\ n.timeout = k.timeout /\ n.timed_out = k.timed_out
        /\ Elements(n.timeouts) = Elements(k.timeouts) \ Elements(k.lists[a])
      BY <1>1, <2>1, UntimeClock
  <2>3. FollowOK(n, al2)
    <3> SUFFICES ASSUME NEW b \in Alarms, NEW t \in Tasks, n.main_list[t] = b
                 PROVE  /\ al2[b].armed <=> t \in Elements(n.timeouts)
                        /\ al2[b].armed => n.timeout[t] = al2[b].wakeup_time
        BY DEF FollowOK
    <3>1. CASE b = a
        BY <1>2, <1>3, <2>2, <3>1
    <3>2. CASE b # a
      <4>1. /\ t \notin Elements(k.lists[a]) /\ al2[b] = al[b] /\ k.main_list[t] = b
            /\ t \in Elements(n.timeouts) <=> t \in Elements(k.timeouts)
            /\ n.timeout[t] = k.timeout[t]
          BY <1>2, <1>3, <2>2, <3>2
      <4> QED
          BY <4>1 DEF FollowOK
    <3> QED
        BY <3>1, <3>2
  <2>4. EndsOK(k, n, al2) /\ TimesOutOK(k, n)
      BY <2>2 DEF EndsOK, TimesOutOK
  <2>5. StepOK(k, n, al2) /\ n.now = k.now
      BY <2>2, <2>3, <2>4 DEF StepOK
  <2> QED
      BY <2>5 DEF n, al2
<1> QED
    BY <1>4, <1>5

-----------------------------------------------------------------------------
(* The invariant and the theorems.                                         *)

TimersInv ==
    /\ ClockOK(gyros) /\ FollowOK(gyros, alarm)
    /\ alarm \in AlarmStates /\ app \in Applications

LEMMA InitTimers == Init => TimersInv
<1> SUFFICES ASSUME Init PROVE TimersInv
    OBVIOUS
<1>1. ClockOK(gyros) /\ \A t \in Tasks : gyros.main_list[t] = Running
    BY StartedClock DEF Init
<1>2. FollowOK(gyros, alarm)
    BY <1>1, AlarmNames DEF FollowOK
<1>3. alarm \in AlarmStates
    BY DEF Init, AlarmStates, Unarmed, Time
<1> QED
    BY <1>1, <1>2, <1>3 DEF Init, TimersInv

\* What a step does to the kernel and to the alarms.
Stepped ==
    /\ StepOK(gyros, gyros', alarm') /\ alarm' \in AlarmStates /\ app' = app
    /\ gyros'.now = gyros.now \/ TickBegin

LEMMA TaskSteps ==
    ASSUME TimersInv, NEW t \in app.tasks, TaskStep(t)
    PROVE  Stepped
<1>1. /\ ClockOK(gyros) /\ FollowOK(gyros, alarm) /\ alarm \in AlarmStates
      /\ t \in Tasks /\ t # Idle /\ app.alarms \subseteq Alarms
    BY AlarmNames DEF TimersInv
<1>2. gyros.now \in Time /\ NoList \notin Alarms /\ Alarms \subseteq Objects
    BY <1>1, TimesTyped, AlarmNames DEF ClockOK
<1>3. ASSUME NEW delay \in 1..MaxDelay, gyros_sleep_until(t, Deadline(delay))
      PROVE  Stepped
  <2> DEFINE time == Deadline(delay)
             n == gyros__reschedule(gyros__task_suspend(
                      gyros__task_set_timeout(gyros, time), gyros.current))
  <2>1. /\ gyros.current = t /\ ~gyros.pendsv /\ ~TimeoutReached(gyros, time)
        /\ gyros' = n /\ alarm' = alarm /\ app' = app
      BY <1>3 DEF gyros_sleep_until, Calls, Executing, tickVars
  <2>2. time \in Time
      BY <1>2, DeadlineIsTime DEF Deadline
  <2> HIDE DEF time
  <2>3. BlockedUntil(gyros, n, NoList, time)
      BY <1>1, <2>1, <2>2, SleepClock
  <2> HIDE DEF n
  <2>4. StepOK(gyros, n, alarm) /\ n.now = gyros.now
      BY <1>1, <1>2, <2>1, <2>3, StepUntil
  <2> QED
      BY <1>1, <2>1, <2>4 DEF Stepped
<1>4. ASSUME SleepReturn(t) \/ AlarmReturn(t) PROVE Stepped
  <2>1. /\ gyros.current = t /\ ~gyros.pendsv
        /\ gyros' = ForgetTimeout(gyros, gyros.current) /\ alarm' = alarm /\ app' = app
      BY <1>4 DEF SleepReturn, AlarmReturn, Continues, Executing, tickVars
  <2>2. /\ StepOK(gyros, ForgetTimeout(gyros, gyros.current), alarm)
        /\ ForgetTimeout(gyros, gyros.current).now = gyros.now
      BY <1>1, <2>1, StepForget
  <2> QED
      BY <1>1, <2>1, <2>2 DEF Stepped
<1>5. ASSUME NEW a \in app.alarms, gyros_alarm_clock_wait(t, a) PROVE Stepped
  <2>1. /\ gyros.current = t /\ ~gyros.pendsv /\ alarm' = alarm /\ app' = app
        /\ a \in Alarms /\ a \in Objects
      BY <1>1, <1>2, <1>5 DEF gyros_alarm_clock_wait, Calls, Executing, tickVars
  <2>2. CASE ~alarm[a].armed
    <3>1. gyros' = Wait(gyros, a)
        BY <1>5, <2>2 DEF gyros_alarm_clock_wait
    <3>2. StepOK(gyros, Wait(gyros, a), alarm) /\ Wait(gyros, a).now = gyros.now
        BY <1>1, <2>1, <2>2, StepWait
    <3> QED
        BY <1>1, <2>1, <3>1, <3>2 DEF Stepped
  <2>3. CASE alarm[a].armed /\ TimeoutReached(gyros, alarm[a].wakeup_time)
    <3>1. gyros' = gyros
        BY <1>5, <2>3 DEF gyros_alarm_clock_wait
    <3>2. StepOK(gyros, gyros, alarm)
        BY <1>1, StepSame
    <3> QED
        BY <1>1, <2>1, <3>1, <3>2 DEF Stepped
  <2>4. CASE alarm[a].armed /\ ~TimeoutReached(gyros, alarm[a].wakeup_time)
    <3> DEFINE time == alarm[a].wakeup_time
               n == WaitUntil(gyros, a, time)
    <3>1. gyros' = n
        BY <1>5, <2>4 DEF gyros_alarm_clock_wait
    <3>2. time \in Time
        BY <1>1, <2>1 DEF AlarmStates
    <3>3. BlockedUntil(gyros, n, a, time)
      <4> HIDE DEF time
      <4>1. ~TimeoutReached(gyros, time)
          BY <2>4 DEF time
      <4> QED
          BY <1>1, <2>1, <3>2, <4>1, WaitUntilClock
    <3> HIDE DEF n
    <3>4. StepOK(gyros, n, alarm) /\ n.now = gyros.now
        BY <1>1, <2>1, <2>4, <3>3, StepUntil
    <3> QED
        BY <1>1, <2>1, <3>1, <3>4 DEF Stepped
  <2> QED
      BY <2>2, <2>3, <2>4
<1> QED
    BY <1>3, <1>4, <1>5 DEF TaskStep

LEMMA AlarmSteps ==
    ASSUME TimersInv, NEW a \in app.alarms,
           \/ \E delay \in Delays : gyros_alarm_clock_set(a, Deadline(delay))
           \/ gyros_alarm_clock_reset(a)
    PROVE  Stepped
<1>1. /\ ClockOK(gyros) /\ FollowOK(gyros, alarm) /\ alarm \in AlarmStates
      /\ a \in Alarms
    BY AlarmNames DEF TimersInv
<1>2. gyros.now \in Time
    BY <1>1, TimesTyped DEF ClockOK
<1>3. ASSUME NEW delay \in Delays, gyros_alarm_clock_set(a, Deadline(delay))
      PROVE  Stepped
  <2> DEFINE time == Deadline(delay)
             al2 == [alarm EXCEPT ![a] = [armed |-> TRUE, wakeup_time |-> time]]
  <2>1. gyros' = AfterSet(gyros, a, time) /\ alarm' = al2 /\ app' = app
      BY <1>3 DEF gyros_alarm_clock_set, AfterSet, tickVars
  <2>2. delay \in Int
      BY ServicesAssumption, TimersAssumption DEF Delays
  <2>3. time \in Time
      BY <1>2, <2>2, DeadlineIsTime DEF Deadline
  <2> HIDE DEF time
  <2>4. /\ StepOK(gyros, AfterSet(gyros, a, time), al2)
        /\ AfterSet(gyros, a, time).now = gyros.now
      BY <1>1, <2>3, StepSet
  <2>5. al2 \in AlarmStates
      BY <1>1, <2>3 DEF AlarmStates
  <2> QED
      BY <2>1, <2>4, <2>5 DEF Stepped
<1>4. ASSUME gyros_alarm_clock_reset(a) PROVE Stepped
  <2>1. /\ gyros' = AfterReset(gyros, a, alarm) /\ app' = app
        /\ alarm' = [alarm EXCEPT ![a] = Unarmed]
      BY <1>4 DEF gyros_alarm_clock_reset, AfterReset, tickVars
  <2>2. /\ StepOK(gyros, AfterReset(gyros, a, alarm), [alarm EXCEPT ![a] = Unarmed])
        /\ AfterReset(gyros, a, alarm).now = gyros.now
      BY <1>1, StepReset
  <2>3. [alarm EXCEPT ![a] = Unarmed] \in AlarmStates
      BY <1>1 DEF AlarmStates, Unarmed, Time
  <2> QED
      BY <2>1, <2>2, <2>3 DEF Stepped
<1> QED
    BY <1>3, <1>4

\* Every step does to the kernel and the alarms what the properties allow.
LEMMA EveryStep ==
    ASSUME TimersInv, [Next]_vars
    PROVE  Stepped
<1>1. ClockOK(gyros) /\ FollowOK(gyros, alarm) /\ alarm \in AlarmStates
    BY DEF TimersInv
<1>2. ASSUME gyros' = gyros, alarm' = alarm, app' = app PROVE Stepped
  <2>1. StepOK(gyros, gyros, alarm)
      BY <1>1, StepSame
  <2> QED
      BY <1>1, <1>2, <2>1 DEF Stepped
<1>3. CASE TickBegin
  <2>1. /\ gyros' = gyros__tick(gyros, Next1(gyros.now)) /\ alarm' = alarm /\ app' = app
      BY <1>3 DEF TickBegin, Tick, Next1
  <2>2. StepOK(gyros, gyros__tick(gyros, Next1(gyros.now)), alarm)
      BY <1>1, StepTick
  <2> QED
      BY <1>1, <1>3, <2>1, <2>2 DEF Stepped
<1>4. CASE TickStep
    BY <1>2, <1>4 DEF TickStep, gyros__tick_timer, CallbackReturn, TickEnd
<1>5. CASE TimersSwitch
  <2>1. gyros' = PendSV_Handler(gyros) /\ alarm' = alarm /\ app' = app
      BY <1>5 DEF TimersSwitch, ContextSwitch, tickVars
  <2> DEFINE n == PendSV_Handler(gyros)
  <2>2. /\ ClockOK(n) /\ n.main_list = gyros.main_list
        /\ n.timeouts = gyros.timeouts /\ n.timeout = gyros.timeout
        /\ n.timed_out = gyros.timed_out /\ n.now = gyros.now
      BY <1>1, SwitchClock
  <2> HIDE DEF n
  <2>3. StepOK(gyros, n, alarm)
      BY <1>1, <2>2, StepSame
  <2> QED
      BY <1>1, <2>1, <2>2, <2>3 DEF Stepped, n
<1>6. CASE \E t \in app.tasks : TaskStep(t)
    BY <1>6, TaskSteps
<1>7. CASE \E i \in app.timers :
               \/ \E delay \in Delays, period \in Periods :
                      gyros_timer_start(i, Deadline(delay), period)
               \/ gyros_timer_stop(i)
    BY <1>2, <1>7 DEF gyros_timer_start, gyros_timer_stop, tickVars
<1>8. CASE \E a \in app.alarms :
               \/ \E delay \in Delays : gyros_alarm_clock_set(a, Deadline(delay))
               \/ gyros_alarm_clock_reset(a)
    BY <1>8, AlarmSteps
<1>9. CASE UNCHANGED vars
    BY <1>2, <1>9 DEF vars
<1> QED
    BY <1>3, <1>4, <1>5, <1>6, <1>7, <1>8, <1>9 DEF Next

LEMMA NextTimers == TimersInv /\ [Next]_vars => TimersInv'
<1> SUFFICES ASSUME TimersInv, [Next]_vars PROVE TimersInv'
    OBVIOUS
<1>1. Stepped
    BY EveryStep
<1> QED
    BY <1>1 DEF Stepped, StepOK, TimersInv

\* Every queued timeout is ahead by less than half the range, the timeout list
\* is sorted, and who waits for an alarm waits for its time or for none.
THEOREM TimersInvariant == Spec => []TimersInv
<1> QED
    BY InitTimers, NextTimers, PTL DEF Spec

\* No task waits for a time that has been reached: the timeout list is sorted
\* by how far ahead its timeouts are, also across a wrap of the clock and
\* across every set and reset of an alarm (NoOverdueTimeout).
THEOREM TimeoutsAhead == Spec => []NoOverdueTimeout
<1>1. TimersInv => NoOverdueTimeout
  <2> SUFFICES ASSUME TimersInv, NEW t \in Elements(gyros.timeouts)
               PROVE  gyros_time_compare(gyros.timeout[t], gyros.now) > 0
      BY DEF NoOverdueTimeout
  <2>1. KernelOK(gyros) /\ InOrder(gyros)
      BY DEF TimersInv, ClockOK
  <2>2. t \in Tasks /\ Ahead(gyros)[t] > 0
      BY <2>1, TimesTyped DEF InOrder
  <2> QED
      BY <2>1, <2>2, TimesTyped
<1> QED
    BY <1>1, TimersInvariant, PTL

\* Who waits for an alarm waits for the time it is set to, or for none
\* (WaitersFollowAlarm).
THEOREM AlarmsFollowed == Spec => []WaitersFollowAlarm
<1>1. TimersInv => WaitersFollowAlarm
  <2> SUFFICES ASSUME TimersInv, NEW a \in Alarms, NEW t \in Waiters(a)
               PROVE  /\ alarm[a].armed <=> t \in Elements(gyros.timeouts)
                      /\ alarm[a].armed => gyros.timeout[t] = alarm[a].wakeup_time
      BY DEF WaitersFollowAlarm
  <2>1. KernelOK(gyros) /\ a \in ListIds
      BY AlarmNames, ListNames DEF TimersInv, ClockOK
  <2>2. t \in Tasks /\ gyros.main_list[t] = a
      BY <2>1, WaitersAre DEF Waiters
  <2> QED
      BY <2>2 DEF TimersInv, FollowOK
<1> QED
    BY <1>1, TimersInvariant, PTL

\* Only an interrupt at or after the time waited for sets timed_out
\* (TimesOutOnlyWhenReached).
THEOREM TimeoutsReached == Spec => TimesOutOnlyWhenReached
<1>1. TimersInv /\ [Next]_vars =>
          [\A t \in Tasks : ~gyros.timed_out[t] /\ gyros'.timed_out[t] =>
              /\ t \in Elements(gyros.timeouts)
              /\ gyros_time_compare(gyros'.now, gyros.timeout[t]) >= 0]_vars
  <2> SUFFICES ASSUME TimersInv, [Next]_vars
               PROVE  \A t \in Tasks : ~gyros.timed_out[t] /\ gyros'.timed_out[t] =>
                          /\ t \in Elements(gyros.timeouts)
                          /\ gyros_time_compare(gyros'.now, gyros.timeout[t]) >= 0
      OBVIOUS
  <2>1. TimesOutOK(gyros, gyros')
      BY EveryStep DEF Stepped, StepOK
  <2> QED
      BY <2>1, Zenon DEF TimesOutOK
<1> QED
    BY <1>1, TimersInvariant, PTL DEF Spec, TimesOutOnlyWhenReached

\* A wait for an alarm ends when the time it is set to has been reached, and
\* not before (WaitEndsAtAlarm).
THEOREM AlarmWaitsEnd == Spec => WaitEndsAtAlarm
<1>1. TimersInv /\ TimersInv' /\ [Next]_vars =>
          [\A a \in Alarms : \A t \in Waiters(a) :
              t \in Elements(gyros'.lists[a])
              \/ /\ alarm'[a].armed
                 /\ gyros_time_compare(alarm'[a].wakeup_time, gyros'.now) <= 0]_vars
  <2> SUFFICES ASSUME TimersInv, TimersInv', [Next]_vars, NEW a \in Alarms,
                      NEW t \in Waiters(a), t \notin Elements(gyros'.lists[a])
               PROVE  /\ alarm'[a].armed
                      /\ gyros_time_compare(alarm'[a].wakeup_time, gyros'.now) <= 0
      OBVIOUS
  <2>1. EndsOK(gyros, gyros', alarm')
      BY EveryStep DEF Stepped, StepOK
  <2>2. KernelOK(gyros) /\ KernelOK(gyros') /\ a \in ListIds
      BY AlarmNames, ListNames DEF TimersInv, ClockOK
  <2>3. t \in Tasks /\ gyros.main_list[t] = a
      BY <2>2, WaitersAre DEF Waiters
  <2>4. gyros'.main_list[t] # a
      BY <2>2, <2>3, WaitersAre
  <2> QED
      BY <2>1, <2>3, <2>4 DEF EndsOK
<1> QED
    BY <1>1, TimersInvariant, PTL DEF Spec, WaitEndsAtAlarm

-----------------------------------------------------------------------------
(* Software timers.  The list is sorted as long as all times in it are     *)
(* less than half the range of the clock apart.                            *)

\* Two times less than half the range apart, as seen from a third one.
LEMMA CompareNear ==
    ASSUME NEW a \in Time, NEW b \in Time, NEW now \in Time,
           gyros_time_compare(a, now) - gyros_time_compare(b, now) < Half,
           gyros_time_compare(b, now) - gyros_time_compare(a, now) < Half
    PROVE  gyros_time_compare(a, b) = gyros_time_compare(a, now) - gyros_time_compare(b, now)
<1>1. /\ a \in 0..TimeRange - 1 /\ b \in 0..TimeRange - 1 /\ now \in 0..TimeRange - 1
    BY DEF Time
<1>2. /\ TimeRange \in Nat /\ Half \in Nat /\ Half >= 2 /\ TimeRange = Half + Half
    BY Halves
<1> DEFINE x == gyros_time_compare(a, now)
           y == gyros_time_compare(b, now)
           z == gyros_time_compare(a, b)
<1>3. x = IF a - now >= Half THEN a - now - TimeRange
          ELSE IF a - now < -Half THEN a - now + TimeRange ELSE a - now
    BY CompareIs
<1>4. y = IF b - now >= Half THEN b - now - TimeRange
          ELSE IF b - now < -Half THEN b - now + TimeRange ELSE b - now
    BY CompareIs
<1>5. z = IF a - b >= Half THEN a - b - TimeRange
          ELSE IF a - b < -Half THEN a - b + TimeRange ELSE a - b
    BY CompareIs
<1>6. x - y < Half /\ y - x < Half
    OBVIOUS
<1> HIDE DEF x, y, z
<1>7. z = x - y
    BY ONLY <1>1, <1>2, <1>3, <1>4, <1>5, <1>6
<1> QED
    BY <1>7 DEF x, y, z

\* A time p ticks later is p ticks further ahead, unless that is half the
\* range or more.
LEMMA CompareLater ==
    ASSUME NEW a \in Time, NEW now \in Time, NEW p \in Int, p < Half, p > -Half,
           NEW u, u = (a + p) % TimeRange,
           gyros_time_compare(a, now) + p < Half, gyros_time_compare(a, now) + p > -Half
    PROVE  u \in Time /\ gyros_time_compare(u, now) = gyros_time_compare(a, now) + p
<1>1. /\ a \in 0..TimeRange - 1 /\ now \in 0..TimeRange - 1
    BY DEF Time
<1>2. /\ TimeRange \in Nat /\ Half \in Nat /\ Half >= 2 /\ TimeRange = Half + Half
    BY Halves
<1> DEFINE v == a + p
           x == gyros_time_compare(a, now)
           z == gyros_time_compare(u, now)
<1>3. v \in Int /\ v > -TimeRange /\ v < TimeRange + TimeRange /\ u = v % TimeRange
    BY <1>1, <1>2
<1> HIDE DEF v
<1>4. u = IF v < 0 THEN v + TimeRange ELSE IF v < TimeRange THEN v ELSE v - TimeRange
    BY ONLY <1>2, <1>3
<1>5. u \in 0..TimeRange - 1
    BY ONLY <1>2, <1>3, <1>4
<1>6. u \in Time
    BY <1>5 DEF Time
<1>7. x = IF a - now >= Half THEN a - now - TimeRange
          ELSE IF a - now < -Half THEN a - now + TimeRange ELSE a - now
    BY CompareIs
<1>8. z = IF u - now >= Half THEN u - now - TimeRange
          ELSE IF u - now < -Half THEN u - now + TimeRange ELSE u - now
    BY <1>6, CompareIs
<1>9. x + p < Half /\ x + p > -Half /\ p \in Int /\ v = a + p
    BY DEF v
<1> HIDE DEF x, z
<1>10. z = x + p
    BY ONLY <1>1, <1>2, <1>4, <1>5, <1>7, <1>8, <1>9
<1> QED
    BY <1>6, <1>10 DEF x, z

TimerFields == [AllTimers -> [timeout : Time, period : 0..MaxDelay]]

\* How far ahead the time of each timer is; and as a key that falls.
Lead(fields, now) == [i \in AllTimers |-> gyros_time_compare(fields[i].timeout, now)]
Rush(fields, now) == [i \in AllTimers |-> -gyros_time_compare(fields[i].timeout, now)]

\* The list is sorted, and its times are from lo to hi ticks ahead.
Sorted(list, fields, now, lo, hi) ==
    /\ list \in Seq(AllTimers) /\ Distinct(list)
    /\ fields \in TimerFields /\ now \in Time
    /\ \A i \in Elements(list) : lo <= Lead(fields, now)[i] /\ Lead(fields, now)[i] <= hi
    /\ Falling(list, Rush(fields, now))

LEMMA LeadTyped ==
    ASSUME NEW fields \in TimerFields, NEW now \in Time
    PROVE  /\ \A i \in AllTimers :
                  /\ fields[i].timeout \in Time
                  /\ Lead(fields, now)[i] = gyros_time_compare(fields[i].timeout, now)
                  /\ Lead(fields, now)[i] \in Int
                  /\ Lead(fields, now)[i] \in -Half .. Half - 1
                  /\ Rush(fields, now)[i] = -Lead(fields, now)[i]
           /\ Rush(fields, now) \in [AllTimers -> Int]
<1>1. ASSUME NEW i \in AllTimers
      PROVE  /\ fields[i].timeout \in Time
             /\ Lead(fields, now)[i] = gyros_time_compare(fields[i].timeout, now)
             /\ Lead(fields, now)[i] \in Int
             /\ Lead(fields, now)[i] \in -Half .. Half - 1
             /\ Rush(fields, now)[i] = -Lead(fields, now)[i]
             /\ Rush(fields, now)[i] \in Int
  <2>1. fields[i].timeout \in Time
      BY DEF TimerFields
  <2>2. gyros_time_compare(fields[i].timeout, now) \in -Half .. Half - 1
      BY <2>1, CompareType
  <2> QED
      BY <2>1, <2>2, Halves DEF Lead, Rush
<1>2. Rush(fields, now) \in [AllTimers -> Int]
    BY <1>1 DEF Rush
<1> QED
    BY <1>1, <1>2

\* The order is that of the fields of the timers in the list.
LEMMA SortedSame ==
    ASSUME NEW list, NEW fields, NEW now, NEW lo, NEW hi,
           Sorted(list, fields, now, lo, hi),
           NEW fields2 \in TimerFields,
           \A i \in Elements(list) : fields2[i].timeout = fields[i].timeout
    PROVE  Sorted(list, fields2, now, lo, hi)
<1>1. list \in Seq(AllTimers) /\ Elements(list) \subseteq AllTimers
    BY ElementsOfSeq DEF Sorted
<1>2. \A i \in Elements(list) : /\ Lead(fields2, now)[i] = Lead(fields, now)[i]
                                /\ Rush(fields2, now)[i] = Rush(fields, now)[i]
    BY <1>1 DEF Lead, Rush
<1>3. Falling(list, Rush(fields2, now))
    BY <1>1, <1>2, FallingSameKeys DEF Sorted
<1> QED
    BY <1>2, <1>3 DEF Sorted

LEMMA SortedRemove ==
    ASSUME NEW list, NEW fields, NEW now, NEW lo, NEW hi,
           Sorted(list, fields, now, lo, hi), NEW i
    PROVE  /\ Sorted(ListRemove(list, i), fields, now, lo, hi)
           /\ Elements(ListRemove(list, i)) = Elements(list) \ {i}
<1> DEFINE r == ListRemove(list, i)
<1>1. list \in Seq(AllTimers) /\ Distinct(list) /\ Falling(list, Rush(fields, now))
    BY DEF Sorted
<1>2. /\ r \in Seq(AllTimers) /\ Distinct(r) /\ Elements(r) = Elements(list) \ {i}
      /\ Falling(r, Rush(fields, now))
    BY <1>1, ListRemoveProperties
<1> HIDE DEF r
<1>3. Sorted(r, fields, now, lo, hi)
    BY <1>2 DEF Sorted
<1> QED
    BY <1>2, <1>3 DEF r

LEMMA SortedTail ==
    ASSUME NEW list, NEW fields, NEW now, NEW lo, NEW hi,
           Sorted(list, fields, now, lo, hi), list # <<>>
    PROVE  /\ Head(list) \in Elements(list) /\ Head(list) \in AllTimers
           /\ \A i \in Elements(list) :
                  Rush(fields, now)[Head(list)] >= Rush(fields, now)[i]
           /\ Sorted(Tail(list), fields, now, lo, hi)
           /\ Elements(Tail(list)) = Elements(list) \ {Head(list)}
<1> DEFINE r == Tail(list)
           h == Head(list)
           key == Rush(fields, now)
<1>1. list \in Seq(AllTimers) /\ Distinct(list) /\ Falling(list, key)
    BY DEF Sorted
<1>2. h = list[1] /\ h \in Elements(list) /\ h \in AllTimers
    BY <1>1, ElementsOfSeq
<1>3. /\ r \in Seq(AllTimers) /\ Len(r) = Len(list) - 1
      /\ \A j \in 1..Len(r) : r[j] = list[j + 1] /\ j + 1 \in 1..Len(list)
    BY <1>1
<1> HIDE DEF r, h
<1>4. Elements(r) = Elements(list) \ {h}
  <2>1. ASSUME NEW x \in Elements(r) PROVE x \in Elements(list) \ {h}
    <3>1. PICK j \in 1..Len(r) : r[j] = x
        BY <1>3, <2>1 DEF Elements, ToSet
    <3>2. x = list[j + 1] /\ j + 1 \in 1..Len(list) /\ 1 < j + 1 /\ 1 \in 1..Len(list)
        BY <1>1, <1>3, <3>1
    <3>3. x # h
        BY <1>1, <1>2, <3>2 DEF Distinct
    <3> QED
        BY <3>2, <3>3 DEF Elements, ToSet
  <2>2. ASSUME NEW x \in Elements(list), x # h PROVE x \in Elements(r)
    <3>1. PICK j \in 1..Len(list) : list[j] = x
        BY <2>2 DEF Elements, ToSet
    <3>2. j # 1
        BY <1>2, <2>2, <3>1
    <3>3. j - 1 \in 1..Len(r) /\ (j - 1) + 1 = j
        BY <1>1, <1>3, <3>2
    <3>4. r[j - 1] = x
        BY <1>3, <3>1, <3>3
    <3> QED
        BY <1>3, <3>3, <3>4 DEF Elements, ToSet
  <2> QED
      BY <2>1, <2>2
<1>5. Distinct(r)
  <2> SUFFICES ASSUME NEW i \in 1..Len(r), NEW j \in 1..Len(r), i < j PROVE r[i] # r[j]
      BY Zenon DEF Distinct
  <2>1. i + 1 \in 1..Len(list) /\ j + 1 \in 1..Len(list) /\ i + 1 < j + 1
      BY <1>1, <1>3
  <2>2. list[i + 1] # list[j + 1]
      BY <1>1, <2>1 DEF Distinct
  <2> QED
      BY <1>3, <2>2
<1>6. Falling(r, key)
  <2> SUFFICES ASSUME NEW i \in 1..Len(r), NEW j \in 1..Len(r), i < j
               PROVE  key[r[i]] >= key[r[j]]
      BY Zenon DEF Falling
  <2>1. i + 1 \in 1..Len(list) /\ j + 1 \in 1..Len(list) /\ i + 1 < j + 1
      BY <1>1, <1>3
  <2>2. key[list[i + 1]] >= key[list[j + 1]]
      BY <1>1, <2>1 DEF Falling
  <2> QED
      BY <1>3, <2>2
<1>7. \A x \in Elements(list) : key[h] >= key[x]
  <2> SUFFICES ASSUME NEW x \in Elements(list) PROVE key[h] >= key[x]
      OBVIOUS
  <2>1. PICK j \in 1..Len(list) : list[j] = x
      BY DEF Elements, ToSet
  <2>2. key[h] \in Int
      BY <1>2, LeadTyped DEF Sorted
  <2>3. CASE j = 1
      BY <1>2, <2>1, <2>2, <2>3
  <2>4. CASE j # 1
    <3>1. 1 \in 1..Len(list) /\ 1 < j
        BY <1>1, <2>4
    <3>2. key[list[1]] >= key[list[j]]
        BY <1>1, <3>1 DEF Falling
    <3> QED
        BY <1>2, <2>1, <3>2
  <2> QED
      BY <2>3, <2>4
<1>8. Sorted(r, fields, now, lo, hi)
    BY <1>3, <1>4, <1>5, <1>6 DEF Sorted
<1> QED
    BY <1>2, <1>4, <1>7, <1>8 DEF r, h

\* gyros__timer_schedule puts a timer where it belongs.
LEMMA SortedSchedule ==
    ASSUME NEW list, NEW fields, NEW now, NEW lo \in Int, NEW hi \in Int,
           Sorted(list, fields, now, lo, hi), hi - lo < Half,
           NEW i \in AllTimers, i \notin Elements(list),
           lo <= Lead(fields, now)[i], Lead(fields, now)[i] <= hi
    PROVE  /\ Sorted(gyros__timer_schedule(list, fields, i), fields, now, lo, hi)
           /\ Elements(gyros__timer_schedule(list, fields, i)) = Elements(list) \cup {i}
<1> DEFINE later == {p \in 1..Len(list) :
                        gyros_time_compare(fields[i].timeout, fields[list[p]].timeout) < 0}
           key == Rush(fields, now)
           lower == {p \in 1..Len(list) : key[i] > key[list[p]]}
           r == ListInsertBefore(list, FirstPosition(list, later), i)
<1>1. /\ list \in Seq(AllTimers) /\ Distinct(list) /\ Falling(list, key)
      /\ fields \in TimerFields /\ now \in Time /\ Half \in Nat
      /\ \A j \in Elements(list) : lo <= Lead(fields, now)[j] /\ Lead(fields, now)[j] <= hi
    BY Halves DEF Sorted
<1>2. gyros__timer_schedule(list, fields, i) = r
    BY DEF gyros__timer_schedule
<1>3. /\ \A j \in AllTimers :
             /\ fields[j].timeout \in Time
             /\ Lead(fields, now)[j] = gyros_time_compare(fields[j].timeout, now)
             /\ Lead(fields, now)[j] \in Int
             /\ key[j] = -Lead(fields, now)[j]
      /\ key \in [AllTimers -> Int]
    BY <1>1, LeadTyped
<1> HIDE DEF key
<1>4. later = lower
  <2> SUFFICES ASSUME NEW p \in 1..Len(list)
               PROVE  gyros_time_compare(fields[i].timeout, fields[list[p]].timeout) < 0
                          <=> key[i] > key[list[p]]
      OBVIOUS
  <2> DEFINE j == list[p]
             a == fields[i].timeout
             b == fields[j].timeout
             x == Lead(fields, now)[i]
             y == Lead(fields, now)[j]
  <2>1. j \in Elements(list) /\ j \in AllTimers
      BY <1>1 DEF Elements, ToSet
  <2> HIDE DEF j
  <2>2. /\ a \in Time /\ b \in Time
        /\ gyros_time_compare(a, now) = x /\ gyros_time_compare(b, now) = y
        /\ x \in Int /\ y \in Int /\ key[i] = -x /\ key[j] = -y
        /\ lo <= x /\ x <= hi /\ lo <= y /\ y <= hi
      BY <1>1, <1>3, <2>1
  <2> HIDE DEF a, b, x, y
  <2>3. gyros_time_compare(a, b) = x - y
    <3>1. x - y < Half /\ y - x < Half
        BY <1>1, <2>2
    <3>2. /\ gyros_time_compare(a, now) - gyros_time_compare(b, now) < Half
          /\ gyros_time_compare(b, now) - gyros_time_compare(a, now) < Half
        BY <2>2, <3>1
    <3>3. gyros_time_compare(a, b) = gyros_time_compare(a, now) - gyros_time_compare(b, now)
        BY <1>1, <2>2, <3>2, CompareNear
    <3> QED
        BY <2>2, <3>3
  <2>4. gyros_time_compare(a, b) < 0 <=> key[i] > key[j]
      BY <2>2, <2>3
  <2> QED
      BY <2>4 DEF a, b, j
<1>5. Falling(r, key)
  <2>1. Falling(ListInsertBefore(list, FirstPosition(list, lower), i), key)
      BY <1>1, <1>3, InsertKeepsFalling
  <2> QED
      BY <1>4, <2>1
<1>6. FirstPosition(list, later) \in 1..Len(list) + 1
  <2>1. later \subseteq 1..Len(list)
      OBVIOUS
  <2> HIDE DEF later
  <2> QED
      BY <1>1, <2>1, FirstPositionProperties
<1> HIDE DEF later
<1>7. /\ r \in Seq(AllTimers) /\ Distinct(r) /\ Elements(r) = Elements(list) \cup {i}
    BY <1>1, <1>6, ListInsertProperties
<1> HIDE DEF r
<1>8. Sorted(r, fields, now, lo, hi)
    BY <1>1, <1>5, <1>7 DEF Sorted, key
<1> QED
    BY <1>2, <1>7, <1>8

\* One tick later all times are one tick less ahead.
LEMMA SortedTick ==
    ASSUME NEW list, NEW fields, NEW now, NEW lo \in Int, NEW hi \in Int,
           Sorted(list, fields, now, lo, hi), lo > -Half
    PROVE  Sorted(list, fields, Next1(now), lo - 1, hi - 1)
<1> DEFINE m == Next1(now)
<1>1. /\ list \in Seq(AllTimers) /\ Elements(list) \subseteq AllTimers
      /\ fields \in TimerFields /\ now \in Time /\ Half \in Nat
    BY Halves, ElementsOfSeq DEF Sorted
<1>2. m \in Time
  <2>1. \A a \in Time : m \in Time
      BY <1>1, CompareTicked
  <2> QED
      BY <1>1, <2>1
<1>3. ASSUME NEW i \in Elements(list)
      PROVE  /\ Lead(fields, m)[i] = Lead(fields, now)[i] - 1
             /\ Lead(fields, now)[i] \in Int
             /\ Rush(fields, m)[i] = Rush(fields, now)[i] + 1
             /\ Rush(fields, now)[i] \in Int
             /\ lo <= Lead(fields, now)[i] /\ Lead(fields, now)[i] <= hi
  <2> DEFINE a == fields[i].timeout
             x == Lead(fields, now)[i]
  <2>1. /\ i \in AllTimers /\ a \in Time /\ x = gyros_time_compare(a, now) /\ x \in Int
        /\ Rush(fields, now)[i] = -x
        /\ Lead(fields, m)[i] = gyros_time_compare(a, m)
        /\ Rush(fields, m)[i] = -Lead(fields, m)[i]
      BY <1>1, <1>2, LeadTyped
  <2>2. lo <= x /\ x <= hi
      BY DEF Sorted
  <2> HIDE DEF a, x, m
  <2>3. gyros_time_compare(a, now) # -Half
      BY <1>1, <2>1, <2>2
  <2>4. gyros_time_compare(a, m) = gyros_time_compare(a, now) - 1
      BY <1>1, <2>1, <2>3, CompareTicked DEF m
  <2>5. Lead(fields, m)[i] = x - 1 /\ Rush(fields, m)[i] = Rush(fields, now)[i] + 1
      BY <2>1, <2>4
  <2> QED
      BY <2>1, <2>2, <2>5 DEF x
<1> HIDE DEF m
<1>4. Falling(list, Rush(fields, m))
  <2> SUFFICES ASSUME NEW i \in 1..Len(list), NEW j \in 1..Len(list), i < j
               PROVE  Rush(fields, m)[list[i]] >= Rush(fields, m)[list[j]]
      BY DEF Falling
  <2> DEFINE u == list[i]
             v == list[j]
  <2>1. u \in Elements(list) /\ v \in Elements(list)
      BY <1>1 DEF Elements, ToSet
  <2>2. Rush(fields, now)[u] >= Rush(fields, now)[v]
      BY DEF Sorted, Falling
  <2> HIDE DEF u, v
  <2>3. /\ Rush(fields, m)[u] = Rush(fields, now)[u] + 1 /\ Rush(fields, now)[u] \in Int
        /\ Rush(fields, m)[v] = Rush(fields, now)[v] + 1 /\ Rush(fields, now)[v] \in Int
      BY <1>3, <2>1
  <2>4. Rush(fields, m)[u] >= Rush(fields, m)[v]
      BY <2>2, <2>3
  <2> QED
      BY <2>4 DEF u, v
<1>5. \A i \in Elements(list) : lo - 1 <= Lead(fields, m)[i] /\ Lead(fields, m)[i] <= hi - 1
    BY <1>3
<1>6. Sorted(list, fields, m, lo - 1, hi - 1)
    BY <1>2, <1>4, <1>5 DEF Sorted
<1> QED
    BY <1>6 DEF m

LEMMA SortedWider ==
    ASSUME NEW list, NEW fields, NEW now, NEW lo \in Int, NEW hi \in Int,
           Sorted(list, fields, now, lo, hi),
           NEW lo2 \in Int, NEW hi2 \in Int, lo2 <= lo, hi <= hi2
    PROVE  Sorted(list, fields, now, lo2, hi2)
<1>1. list \in Seq(AllTimers) /\ Elements(list) \subseteq AllTimers
    BY ElementsOfSeq DEF Sorted
<1>2. ASSUME NEW i \in Elements(list)
      PROVE  lo2 <= Lead(fields, now)[i] /\ Lead(fields, now)[i] <= hi2
  <2>1. lo <= Lead(fields, now)[i] /\ Lead(fields, now)[i] <= hi
      BY DEF Sorted
  <2>2. Lead(fields, now)[i] \in Int
      BY <1>1, LeadTyped DEF Sorted
  <2> QED
      BY <2>1, <2>2
<1> QED
    BY <1>2 DEF Sorted

\* A timer whose time is set is put where its new time belongs.
LEMMA SortedMoved ==
    ASSUME NEW r, NEW fields, NEW now, NEW lo \in Int, NEW hi \in Int,
           Sorted(r, fields, now, lo, hi), hi - lo < Half,
           NEW i \in AllTimers, i \notin Elements(r),
           NEW fields2 \in TimerFields,
           \A j \in AllTimers \ {i} : fields2[j] = fields[j],
           lo <= Lead(fields2, now)[i], Lead(fields2, now)[i] <= hi
    PROVE  /\ Sorted(gyros__timer_schedule(r, fields2, i), fields2, now, lo, hi)
           /\ Elements(gyros__timer_schedule(r, fields2, i)) = Elements(r) \cup {i}
<1>1. Elements(r) \subseteq AllTimers
    BY ElementsOfSeq DEF Sorted
<1>2. \A j \in Elements(r) : fields2[j].timeout = fields[j].timeout
    BY <1>1
<1>3. Sorted(r, fields2, now, lo, hi)
    BY <1>2, SortedSame
<1> QED
    BY <1>3, SortedSchedule

\* A timer that is started, at time delay ticks from now.
LEMMA SortedStart ==
    ASSUME NEW list, NEW fields, NEW now, NEW lo \in Int, NEW hi \in Int,
           Sorted(list, fields, now, lo, hi), hi - lo < Half, lo > -Half, hi < Half,
           NEW i \in AllTimers, NEW delay \in lo..hi,
           NEW time, time = (now + delay) % TimeRange,
           NEW fields2 \in TimerFields, fields2[i].timeout = time,
           \A j \in AllTimers \ {i} : fields2[j] = fields[j]
    PROVE  /\ Sorted(gyros__timer_schedule(ListRemove(list, i), fields2, i),
                     fields2, now, lo, hi)
           /\ Elements(gyros__timer_schedule(ListRemove(list, i), fields2, i)) =
                  Elements(list) \cup {i}
<1> DEFINE r == ListRemove(list, i)
<1>1. now \in Time /\ Half \in Nat /\ delay \in Int /\ lo <= delay /\ delay <= hi
    BY Halves DEF Sorted
<1>2. gyros_time_compare(now, now) = 0
    BY <1>1, CompareIs, Halves DEF Time
<1>3. gyros_time_compare(time, now) = delay
  <2>1. /\ delay < Half /\ delay > -Half
        /\ gyros_time_compare(now, now) + delay < Half
        /\ gyros_time_compare(now, now) + delay > -Half
      BY <1>1, <1>2
  <2>2. gyros_time_compare(time, now) = gyros_time_compare(now, now) + delay
      BY <1>1, <2>1, CompareLater
  <2> QED
      BY <1>1, <1>2, <2>2
<1>4. Lead(fields2, now)[i] = delay
    BY <1>3 DEF Lead
<1>5. Sorted(r, fields, now, lo, hi) /\ Elements(r) = Elements(list) \ {i}
    BY SortedRemove
<1> HIDE DEF r
<1>6. i \notin Elements(r) /\ lo <= Lead(fields2, now)[i] /\ Lead(fields2, now)[i] <= hi
    BY <1>1, <1>4, <1>5
<1>7. /\ Sorted(gyros__timer_schedule(r, fields2, i), fields2, now, lo, hi)
      /\ Elements(gyros__timer_schedule(r, fields2, i)) = Elements(r) \cup {i}
    BY <1>5, <1>6, SortedMoved
<1>8. Elements(r) \cup {i} = Elements(list) \cup {i}
    BY <1>5
<1> QED
    BY <1>7, <1>8 DEF r

\* A periodic timer that is due is queued for its next period.
LEMMA SortedReload ==
    ASSUME NEW list, NEW fields, NEW now, NEW lo \in Int, NEW hi \in Int,
           Sorted(list, fields, now, lo, hi), hi - lo < Half, lo > -Half, hi < Half,
           list # <<>>, hi = MaxDelay,
           NEW i, i = Head(list), fields[i].period # 0, Lead(fields, now)[i] <= 0,
           NEW fields2 \in TimerFields,
           fields2[i].timeout = (fields[i].timeout + fields[i].period) % TimeRange,
           \A j \in AllTimers \ {i} : fields2[j] = fields[j]
    PROVE  /\ Sorted(gyros__timer_schedule(Tail(list), fields2, i), fields2, now, lo, hi)
           /\ Elements(gyros__timer_schedule(Tail(list), fields2, i)) = Elements(list)
<1> DEFINE r == Tail(list)
           a == fields[i].timeout
           p == fields[i].period
           u == fields2[i].timeout
           x == Lead(fields, now)[i]
<1>1. /\ fields \in TimerFields /\ now \in Time /\ Half \in Nat
      /\ \A j \in Elements(list) : lo <= Lead(fields, now)[j]
    BY Halves DEF Sorted
<1>2. /\ i \in Elements(list) /\ i \in AllTimers
      /\ Sorted(r, fields, now, lo, hi) /\ Elements(r) = Elements(list) \ {i}
    BY SortedTail
<1>3. /\ a \in Time /\ p \in Int /\ p > 0 /\ p <= MaxDelay
      /\ x = gyros_time_compare(a, now) /\ x \in Int /\ lo <= x /\ x <= 0
      /\ u = (a + p) % TimeRange
  <2>1. p \in 0..MaxDelay /\ a \in Time /\ p # 0 /\ MaxDelay \in Nat
      BY <1>1, <1>2, ServicesAssumption DEF TimerFields
  <2>2. x = gyros_time_compare(a, now) /\ x \in Int
      BY <1>1, <1>2, LeadTyped
  <2> QED
      BY <1>1, <1>2, <2>1, <2>2
<1>4. Lead(fields2, now)[i] = gyros_time_compare(u, now)
    BY <1>2 DEF Lead
<1> HIDE DEF r, a, p, u, x
<1>5. gyros_time_compare(u, now) = x + p
  <2>1. /\ p < Half /\ p > -Half
        /\ gyros_time_compare(a, now) + p < Half /\ gyros_time_compare(a, now) + p > -Half
      BY <1>1, <1>3
  <2>2. gyros_time_compare(u, now) = gyros_time_compare(a, now) + p
      BY <1>1, <1>3, <2>1, CompareLater
  <2> QED
      BY <1>3, <2>2
<1>6. i \notin Elements(r) /\ lo <= Lead(fields2, now)[i] /\ Lead(fields2, now)[i] <= hi
    BY <1>2, <1>3, <1>4, <1>5
<1>7. /\ Sorted(gyros__timer_schedule(r, fields2, i), fields2, now, lo, hi)
      /\ Elements(gyros__timer_schedule(r, fields2, i)) = Elements(r) \cup {i}
    BY <1>2, <1>6, SortedMoved
<1>8. Elements(r) \cup {i} = Elements(list)
    BY <1>2
<1> QED
    BY <1>7, <1>8 DEF r
-----------------------------------------------------------------------------
(* The refinement.                                                         *)

Earliest == -MaxLate - 1

\* The times of all timers that are set are less than half the range apart.
Narrow == MaxLate + 1 + MaxDelay < Half

\* Between interrupts no timer is later than the latest start; one more tick
\* may pass before the interrupt has called it.
QueueInv ==
    /\ Sorted(timers, timer, gyros.now, Earliest, MaxDelay)
    /\ tick = "none" => \A i \in Elements(timers) : -MaxLate <= Lead(timer, gyros.now)[i]
    /\ tick \in {"none", "walk", "callback"}
    /\ calling \in AllTimers \cup {NoTimer}
    /\ calling = NoTimer <=> tick # "callback"

LEMMA Bounds ==
    ASSUME Narrow
    PROVE  /\ MaxLate \in Int /\ MaxDelay \in Int /\ Earliest \in Int /\ Half \in Int
           /\ -MaxLate \in Int /\ MaxLate >= 0 /\ MaxDelay >= 0
           /\ Earliest + 1 = -MaxLate /\ Earliest < 0
           /\ MaxDelay - Earliest < Half /\ MaxDelay + MaxLate < Half
           /\ Earliest > -Half /\ -MaxLate > -Half /\ MaxDelay < Half
<1>1. MaxLate \in Nat /\ MaxDelay \in Nat /\ Half \in Nat /\ MaxLate + 1 + MaxDelay < Half
    BY Halves, TimersAssumption, ServicesAssumption DEF Narrow
<1> QED
    BY ONLY <1>1 DEF Earliest

LEMMA InitQueue == Init => QueueInv
<1> SUFFICES ASSUME Init PROVE QueueInv
    OBVIOUS
<1>1. timers = <<>> /\ Elements(<<>>) = {} /\ tick = "none" /\ calling = NoTimer
    BY DEF Init, Elements, ToSet
<1>2. timer \in TimerFields /\ gyros.now \in Time
  <2>1. 0 \in Time /\ 0 \in 0..MaxDelay
      BY ServicesAssumption DEF Time
  <2> QED
      BY <2>1 DEF Init, Unset, TimerFields, Started, KernelInit
<1>3. Distinct(<<>>) /\ Falling(<<>>, Rush(timer, gyros.now)) /\ <<>> \in Seq(AllTimers)
    BY DEF Distinct, Falling
<1>4. Sorted(timers, timer, gyros.now, Earliest, MaxDelay)
    BY <1>1, <1>2, <1>3 DEF Sorted
<1> QED
    BY <1>1, <1>4 DEF QueueInv

\* What a step does to the timers.
Served == QueueInv' /\ [Service!Next]_(Service!vars)

\* When each timer of the service calls back next.
Dues(list, fields) ==
    [i \in AllTimers |-> IF i \in Elements(list) THEN fields[i].timeout ELSE TimeRange]

LEMMA NothingServed ==
    ASSUME QueueInv, gyros'.now = gyros.now, tick' = tick,
           timers' = timers, timer' = timer, calling' = calling
    PROVE  Served
<1>1. QueueInv'
    BY DEF QueueInv
<1>2. UNCHANGED Service!vars
    BY DEF Service!vars
<1> QED
    BY <1>1, <1>2 DEF Served

\* The clock advances.
LEMMA TickBeginServed ==
    ASSUME Narrow, TimersInv, QueueInv, TickBegin
    PROVE  Served
<1>1. /\ tick = "none" /\ tick' = "walk" /\ calling' = calling
      /\ timers' = timers /\ timer' = timer /\ gyros'.now = Next1(gyros.now)
  <2>1. gyros' = gyros__tick(gyros, Next1(gyros.now))
      BY DEF TickBegin, Tick, Next1
  <2>2. gyros__tick(gyros, Next1(gyros.now)).now = Next1(gyros.now)
      BY TickClock DEF TimersInv
  <2> QED
      BY <2>1, <2>2 DEF TickBegin, timerVars
<1>2. Sorted(timers, timer, Next1(gyros.now), Earliest, MaxDelay)
  <2>1. Sorted(timers, timer, gyros.now, -MaxLate, MaxDelay)
      BY <1>1 DEF QueueInv, Sorted
  <2>2. Sorted(timers, timer, Next1(gyros.now), -MaxLate - 1, MaxDelay - 1)
      BY <2>1, Bounds, SortedTick
  <2>3. -MaxLate - 1 = Earliest /\ MaxDelay - 1 \in Int /\ MaxDelay - 1 <= MaxDelay
      BY Bounds
  <2> QED
      BY <2>2, <2>3, Bounds, SortedWider
<1>3. QueueInv'
    BY <1>1, <1>2 DEF QueueInv
<1>4. Service!Advance
    BY <1>1 DEF QueueInv, Service!Advance, Next1
<1> QED
    BY <1>3, <1>4 DEF Served, Service!Next

\* No timer is due any more: all times are ahead.
LEMMA TickEndServed ==
    ASSUME Narrow, QueueInv, TickEnd
    PROVE  Served
<1>1. /\ tick = "walk" /\ tick' = "none" /\ calling' = calling /\ ~Due
      /\ timers' = timers /\ timer' = timer /\ gyros' = gyros
    BY DEF TickEnd, timerVars
<1>2. Sorted(timers, timer, gyros.now, Earliest, MaxDelay)
    BY DEF QueueInv
<1>3. ASSUME NEW i \in Elements(timers) PROVE -MaxLate <= Lead(timer, gyros.now)[i]
  <2> DEFINE h == Head(timers)
             a == timer[h].timeout
             x == Lead(timer, gyros.now)[h]
             y == Lead(timer, gyros.now)[i]
  <2>1. timers # <<>>
      BY <1>3 DEF Elements, ToSet
  <2>2. /\ h \in Elements(timers) /\ h \in AllTimers
        /\ Rush(timer, gyros.now)[h] >= Rush(timer, gyros.now)[i]
      BY <1>2, <2>1, SortedTail
  <2>3. /\ timer \in TimerFields /\ gyros.now \in Time /\ i \in AllTimers
        /\ Earliest <= x
      BY <1>2, <2>2, ElementsOfSeq DEF Sorted
  <2>4. /\ a \in Time /\ x = gyros_time_compare(a, gyros.now) /\ x \in Int /\ y \in Int
        /\ -x >= -y
      BY <2>2, <2>3, LeadTyped
  <2>5. ~(gyros_time_compare(gyros.now, a) >= 0)
      BY <1>1, <2>1 DEF Due
  <2> HIDE DEF h, a, x, y
  <2>6. gyros_time_compare(a, gyros.now) # -Half
      BY <2>3, <2>4, Bounds
  <2>7. gyros_time_compare(gyros.now, a) = -gyros_time_compare(a, gyros.now)
      BY <2>3, <2>4, <2>6, CompareTurned
  <2>8. x > 0
      BY <2>4, <2>5, <2>7
  <2>9. -MaxLate <= y
      BY <2>4, <2>8, Bounds
  <2> QED
      BY <2>9 DEF y
<1>4. QueueInv'
    BY <1>1, <1>2, <1>3 DEF QueueInv
<1>5. UNCHANGED Service!vars
    BY <1>1 DEF Service!vars
<1> QED
    BY <1>4, <1>5 DEF Served

LEMMA ReturnServed ==
    ASSUME QueueInv, CallbackReturn
    PROVE  Served
<1>1. /\ tick = "callback" /\ tick' = "walk" /\ calling' = NoTimer /\ calling # NoTimer
      /\ timers' = timers /\ timer' = timer /\ gyros' = gyros
    BY DEF QueueInv, CallbackReturn, timerVars
<1>2. QueueInv'
    BY <1>1 DEF QueueInv
<1>3. Service!Return
    BY <1>1 DEF Service!Return
<1> QED
    BY <1>2, <1>3 DEF Served, Service!Next

LEMMA StopServed ==
    ASSUME QueueInv, NEW i \in AllTimers, gyros_timer_stop(i)
    PROVE  Served
<1>1. /\ timers' = ListRemove(timers, i) /\ timer' = [timer EXCEPT ![i] = Unset]
      /\ gyros' = gyros /\ tick' = tick /\ calling' = calling
    BY DEF gyros_timer_stop, tickVars
<1> DEFINE now == gyros.now
<1>2. Sorted(timers, timer, now, Earliest, MaxDelay)
    BY DEF QueueInv
<1>3. /\ Sorted(timers', timer, now, Earliest, MaxDelay)
      /\ Elements(timers') = Elements(timers) \ {i}
    BY <1>1, <1>2, SortedRemove
<1>4. /\ timer' \in TimerFields /\ timer'[i] = Unset
      /\ \A j \in AllTimers \ {i} : timer'[j] = timer[j]
      /\ Elements(timers) \subseteq AllTimers
  <2>1. timer \in TimerFields /\ Elements(timers) \subseteq AllTimers
      BY <1>2, ElementsOfSeq DEF Sorted
  <2>2. Unset \in [timeout : Time, period : 0..MaxDelay]
      BY ServicesAssumption DEF Unset, Time
  <2> QED
      BY <1>1, <2>1, <2>2 DEF TimerFields
<1>5. Sorted(timers', timer', now, Earliest, MaxDelay)
  <2>1. \A j \in Elements(timers') : timer'[j].timeout = timer[j].timeout
      BY <1>3, <1>4
  <2> QED
      BY <1>3, <1>4, <2>1, SortedSame
<1>6. \A j \in Elements(timers') : Lead(timer', now)[j] = Lead(timer, now)[j]
    BY <1>3, <1>4 DEF Lead
<1>7. QueueInv'
    BY <1>1, <1>3, <1>5, <1>6 DEF QueueInv
<1>8. Service!Clear(i)
    BY <1>1, <1>3, <1>4 DEF Service!Clear, Service!Others
<1> QED
    BY <1>7, <1>8 DEF Served, Service!Next

LEMMA StartServed ==
    ASSUME Narrow, QueueInv, NEW i \in AllTimers, NEW delay \in Delays, NEW period \in Periods,
           gyros_timer_start(i, Deadline(delay), period)
    PROVE  Served
<1> DEFINE now == gyros.now
           time == (now + delay) % TimeRange
           lo == IF tick = "none" THEN -MaxLate ELSE Earliest
<1>1. /\ timer' = [timer EXCEPT ![i] = [timeout |-> time, period |-> period]]
      /\ timers' = gyros__timer_schedule(ListRemove(timers, i), timer', i)
      /\ gyros' = gyros /\ tick' = tick /\ calling' = calling /\ tick # "walk"
    BY DEF gyros_timer_start, ApplicationRuns, tickVars, Deadline
<1>2. /\ Sorted(timers, timer, now, lo, MaxDelay) /\ lo \in Int /\ MaxDelay - lo < Half
      /\ lo > -Half /\ delay \in lo..MaxDelay /\ Earliest <= lo
  <2>1. CASE tick = "none"
    <3>1. Sorted(timers, timer, now, -MaxLate, MaxDelay)
        BY <2>1 DEF QueueInv, Sorted
    <3>2. delay \in -MaxLate..MaxDelay
        BY DEF Delays
    <3> QED
        BY <2>1, <3>1, <3>2, Bounds
  <2>2. CASE tick # "none"
    <3>1. delay \in -MaxLate..MaxDelay
        BY DEF Delays
    <3>2. delay \in Earliest..MaxDelay
        BY <3>1, TimersAssumption DEF Earliest
    <3> QED
        BY <2>2, <3>2, Bounds DEF QueueInv
  <2> QED
      BY <2>1, <2>2
<1> HIDE DEF lo
<1>3. /\ timer \in TimerFields /\ now \in Time /\ time \in Time
      /\ period \in 0..MaxDelay /\ period \in Time
      /\ MaxDelay < Half /\ MaxDelay \in Int
  <2>1. timer \in TimerFields /\ now \in Time /\ delay \in Int
      BY <1>2 DEF Sorted
  <2>2. time \in Time
      BY <2>1, DeadlineIsTime
  <2>3. period \in 0..MaxDelay
      BY TimersAssumption
  <2>4. period \in Time
      BY <2>3, Bounds, Halves DEF Time
  <2> QED
      BY <2>1, <2>2, <2>3, <2>4, Bounds
<1>4. /\ timer' \in TimerFields /\ timer'[i].timeout = time /\ timer'[i].period = period
      /\ \A j \in AllTimers \ {i} : timer'[j] = timer[j]
    BY <1>1, <1>3 DEF TimerFields
<1>5. /\ Sorted(timers', timer', now, lo, MaxDelay)
      /\ Elements(timers') = Elements(timers) \cup {i}
  <2> DEFINE fields2 == timer'
             u == time
  <2>1. u = (now + delay) % TimeRange
      OBVIOUS
  <2>2. /\ fields2 \in TimerFields /\ fields2[i].timeout = u
        /\ \A j \in AllTimers \ {i} : fields2[j] = timer[j]
      BY <1>4
  <2> HIDE DEF fields2, u
  <2>3. /\ Sorted(gyros__timer_schedule(ListRemove(timers, i), fields2, i),
                  fields2, now, lo, MaxDelay)
        /\ Elements(gyros__timer_schedule(ListRemove(timers, i), fields2, i)) =
               Elements(timers) \cup {i}
      BY <1>2, <1>3, <2>1, <2>2, SortedStart
  <2> QED
      BY <1>1, <2>3 DEF fields2
<1>6. QueueInv'
  <2>1. Sorted(timers', timer', now, Earliest, MaxDelay)
      BY <1>2, <1>5, Bounds, SortedWider
  <2>2. tick = "none" => \A j \in Elements(timers') : -MaxLate <= Lead(timer', now)[j]
      BY <1>5 DEF Sorted, lo
  <2> QED
      BY <1>1, <2>1, <2>2 DEF QueueInv
<1>7. Service!Set(i)
  <2>1. \A j \in AllTimers \ {i} :
            /\ j \in Elements(timers') <=> j \in Elements(timers)
            /\ timer'[j] = timer[j]
      BY <1>4, <1>5
  <2>2. Service!Others(i)
    <3>1. ASSUME NEW j \in AllTimers \ {i}
          PROVE  /\ Dues(timers, timer)'[j] = Dues(timers, timer)[j]
                 /\ timer'[j].period = timer[j].period
        BY <2>1 DEF Dues
    <3>2. calling' = calling /\ gyros'.now = gyros.now
        BY <1>1
    <3> QED
        BY <3>1, <3>2 DEF Service!Others, Dues
  <2>3. time \in 0..TimeRange - 1 /\ period \in 0..TimeRange - 1
      BY <1>3 DEF Time
  <2>4. i \in Elements(timers')
      BY <1>5
  <2> QED
      BY <1>4, <2>2, <2>3, <2>4 DEF Service!Set, Service!Time
<1> QED
    BY <1>6, <1>7 DEF Served, Service!Next

\* Of the timers that are due the first in the list is the earliest.
LEMMA CallServed ==
    ASSUME Narrow, QueueInv, gyros__tick_timer
    PROVE  Served
<1>0. Head(timers) \in AllTimers
    BY SortedTail DEF QueueInv, gyros__tick_timer, Due
<1> SUFFICES ASSUME NEW i \in AllTimers, i = Head(timers) PROVE Served
    BY <1>0
<1> DEFINE now == gyros.now
           next == [timer EXCEPT ![i].timeout = (@ + timer[i].period) % TimeRange]
<1>1. /\ tick = "walk" /\ tick' = "callback" /\ calling' = i /\ calling = NoTimer
      /\ gyros' = gyros /\ timers # <<>>
      /\ gyros_time_compare(now, timer[i].timeout) >= 0
    BY DEF gyros__tick_timer, Due, QueueInv
<1>2. \/ timer[i].period = 0 /\ timers' = Tail(timers) /\ timer' = [timer EXCEPT ![i] = Unset]
      \/ /\ timer[i].period # 0 /\ timer' = next
         /\ timers' = gyros__timer_schedule(Tail(timers), next, i)
    BY DEF gyros__tick_timer
<1>3. Sorted(timers, timer, now, Earliest, MaxDelay)
    BY DEF QueueInv
<1>4. /\ i \in Elements(timers) /\ i \in AllTimers
      /\ \A j \in Elements(timers) : Rush(timer, now)[i] >= Rush(timer, now)[j]
      /\ Sorted(Tail(timers), timer, now, Earliest, MaxDelay)
      /\ Elements(Tail(timers)) = Elements(timers) \ {i}
    BY <1>1, <1>3, SortedTail
<1>5. /\ timer \in TimerFields /\ now \in Time /\ Elements(timers) \subseteq AllTimers
      /\ timer[i].timeout \in Time /\ timer[i].period \in 0..MaxDelay
    BY <1>3, <1>4, ElementsOfSeq DEF Sorted, TimerFields
<1>6. gyros_time_compare(timer[i].timeout, now) <= 0
    BY <1>1, <1>5, CompareTurned
<1>7. ASSUME NEW j \in Elements(timers)
      PROVE  gyros_time_compare(timer[i].timeout, timer[j].timeout) <= 0
  <2> DEFINE a == timer[i].timeout
             b == timer[j].timeout
             x == Lead(timer, now)[i]
             y == Lead(timer, now)[j]
  <2>1. /\ a \in Time /\ b \in Time
        /\ x = gyros_time_compare(a, now) /\ y = gyros_time_compare(b, now)
        /\ x \in Int /\ y \in Int /\ -x >= -y
      BY <1>4, <1>5, LeadTyped
  <2>2. Earliest <= x /\ x <= MaxDelay /\ Earliest <= y /\ y <= MaxDelay
      BY <1>3, <1>4 DEF Sorted
  <2> HIDE DEF a, b, x, y
  <2>3. x - y < Half /\ y - x < Half
      BY <2>1, <2>2, Bounds
  <2>4. /\ gyros_time_compare(a, now) - gyros_time_compare(b, now) < Half
        /\ gyros_time_compare(b, now) - gyros_time_compare(a, now) < Half
      BY <2>1, <2>3
  <2>5. gyros_time_compare(a, b) = gyros_time_compare(a, now) - gyros_time_compare(b, now)
      BY <1>5, <2>1, <2>4, CompareNear
  <2>6. gyros_time_compare(a, b) <= 0
      BY <2>1, <2>5
  <2> QED
      BY <2>6 DEF a, b
<1>8. TimeRange \notin Time
    BY Halves DEF Time
<1>9. CASE timer[i].period = 0
  <2>1. timers' = Tail(timers) /\ timer' = [timer EXCEPT ![i] = Unset]
      BY <1>2, <1>9
  <2>2. /\ timer' \in TimerFields /\ timer'[i].period = 0
        /\ \A j \in AllTimers \ {i} : timer'[j] = timer[j]
    <3>1. Unset \in [timeout : Time, period : 0..MaxDelay] /\ Unset.period = 0
        BY ServicesAssumption, Halves DEF Unset, Time
    <3> QED
        BY <1>4, <1>5, <2>1, <3>1 DEF TimerFields
  <2>3. Elements(timers') = Elements(timers) \ {i}
      BY <1>4, <2>1
  <2>4. Sorted(timers', timer', now, Earliest, MaxDelay)
    <3>1. \A j \in Elements(timers') : timer'[j].timeout = timer[j].timeout
        BY <1>5, <2>2, <2>3
    <3>2. Sorted(timers', timer, now, Earliest, MaxDelay)
        BY <1>4, <2>1
    <3> QED
        BY <2>2, <3>1, <3>2, SortedSame
  <2>5. QueueInv'
      BY <1>1, <1>4, <2>4, TimersAssumption DEF QueueInv
  <2>6. Service!Call(i)
      BY <1>1, <1>4, <1>5, <1>6, <1>7, <1>8, <1>9, <2>2, <2>3 DEF Service!Call
  <2> QED
      BY <1>4, <2>5, <2>6 DEF Served, Service!Next
<1>10. CASE timer[i].period # 0
  <2>1. timers' = gyros__timer_schedule(Tail(timers), timer', i) /\ timer' = next
      BY <1>2, <1>10
  <2> DEFINE u == (timer[i].timeout + timer[i].period) % TimeRange
  <2>2. u \in Time
      BY <1>5, DeadlineIsTime
  <2>3. /\ next \in TimerFields /\ next[i].timeout = u /\ next[i].period = timer[i].period
        /\ \A j \in AllTimers \ {i} : next[j] = timer[j]
    <3> DEFINE new == [timer[i] EXCEPT !.timeout = u]
    <3>1. timer[i] \in [timeout : Time, period : 0..MaxDelay]
        BY <1>4, <1>5 DEF TimerFields
    <3>2. new \in [timeout : Time, period : 0..MaxDelay] /\ new.timeout = u
          /\ new.period = timer[i].period
        BY <2>2, <3>1
    <3>3. next = [timer EXCEPT ![i] = new]
        OBVIOUS
    <3> HIDE DEF next, new, u
    <3> QED
        BY <1>5, <3>2, <3>3 DEF TimerFields
  <2> HIDE DEF next
  <2>4. /\ timer' \in TimerFields /\ timer'[i].timeout = u
        /\ timer'[i].period = timer[i].period
        /\ \A j \in AllTimers \ {i} : timer'[j] = timer[j]
      BY <2>1, <2>3
  <2>5. Sorted(timers', timer', now, Earliest, MaxDelay) /\ Elements(timers') = Elements(timers)
    <3> DEFINE fields2 == timer'
               lo == Earliest
    <3>1. /\ fields2 \in TimerFields
          /\ fields2[i].timeout = (timer[i].timeout + timer[i].period) % TimeRange
          /\ \A j \in AllTimers \ {i} : fields2[j] = timer[j]
        BY <2>4
    <3>2. i = Head(timers) /\ timer[i].period # 0 /\ Lead(timer, now)[i] <= 0
        BY <1>4, <1>6, <1>10 DEF Lead
    <3>3. /\ lo \in Int /\ MaxDelay \in Int /\ MaxDelay - lo < Half /\ lo > -Half
          /\ MaxDelay < Half /\ Sorted(timers, timer, now, lo, MaxDelay)
        BY <1>3, Bounds
    <3> HIDE DEF fields2, lo
    <3>4. /\ Sorted(gyros__timer_schedule(Tail(timers), fields2, i), fields2,
                    now, lo, MaxDelay)
          /\ Elements(gyros__timer_schedule(Tail(timers), fields2, i)) = Elements(timers)
        BY <1>1, <3>1, <3>2, <3>3, SortedReload
    <3> QED
        BY <2>1, <3>4 DEF fields2, lo
  <2>6. QueueInv'
      BY <1>1, <1>4, <2>5, TimersAssumption DEF QueueInv
  <2>7. Service!Call(i)
      BY <1>1, <1>4, <1>5, <1>6, <1>7, <1>8, <1>10, <2>4, <2>5 DEF Service!Call
  <2> QED
      BY <1>4, <2>6, <2>7 DEF Served, Service!Next
<1> QED
    BY <1>9, <1>10

LEMMA EveryStepServed ==
    ASSUME Narrow, TimersInv, QueueInv, [Next]_vars
    PROVE  Served
<1>1. gyros'.now = gyros.now \/ TickBegin
    BY EveryStep DEF Stepped
<1>2. CASE TickBegin
    BY <1>2, TickBeginServed
<1>3. CASE TickStep
    BY <1>3, CallServed, ReturnServed, TickEndServed DEF TickStep
<1>4. CASE \E i \in app.timers :
               \/ \E delay \in Delays, period \in Periods :
                      gyros_timer_start(i, Deadline(delay), period)
               \/ gyros_timer_stop(i)
  <2>1. app.timers \subseteq AllTimers
      BY AlarmNames DEF TimersInv
  <2> QED
      BY <1>4, <2>1, StartServed, StopServed
<1>5. ASSUME tick' = tick, timers' = timers, timer' = timer, calling' = calling
      PROVE  Served
    BY <1>1, <1>2, <1>5, NothingServed
<1>6. CASE TimersSwitch
    BY <1>5, <1>6 DEF TimersSwitch, timerVars, tickVars
<1>7. CASE \E t \in app.tasks : TaskStep(t)
    BY <1>5, <1>7 DEF TaskStep, gyros_sleep_until, SleepReturn, gyros_alarm_clock_wait,
                      AlarmReturn, timerVars, tickVars
<1>8. CASE \E a \in app.alarms :
               \/ \E delay \in Delays : gyros_alarm_clock_set(a, Deadline(delay))
               \/ gyros_alarm_clock_reset(a)
    BY <1>5, <1>8 DEF gyros_alarm_clock_set, gyros_alarm_clock_reset, timerVars, tickVars
<1>9. CASE UNCHANGED vars
    BY <1>5, <1>9 DEF vars
<1> QED
    BY <1>2, <1>3, <1>4, <1>6, <1>7, <1>8, <1>9 DEF Next

\* The sorted list of timers implements the service timer.h describes
\* (ImplementsTimers).  gyros_time_compare orders two times only if they are
\* less than half the range of the clock apart, so the delays, the periods and
\* the lateness an application uses must fit into half the range.
THEOREM TimersRefined ==
    ASSUME MaxLate + 1 + MaxDelay < TimeRange \div 2
    PROVE  Spec => ImplementsTimers
<1>1. Narrow
    BY DEF Narrow, Half
<1>2. Init => Service!Init
  <2> SUFFICES ASSUME Init PROVE Service!Init
      OBVIOUS
  <2>1. timers = <<>> /\ Elements(<<>>) = {}
      BY DEF Init, Elements, ToSet
  <2>2. /\ [i \in AllTimers |-> IF i \in Elements(timers) THEN timer[i].timeout ELSE TimeRange]
               = [i \in AllTimers |-> TimeRange]
        /\ [i \in AllTimers |-> timer[i].period] = [i \in AllTimers |-> 0]
      BY <2>1 DEF Init, Unset
  <2>3. gyros.now = 0 /\ calling = NoTimer
      BY DEF Init, Started, KernelInit
  <2> QED
      BY <2>2, <2>3 DEF Service!Init
<1>3. TimersInv /\ QueueInv /\ [Next]_vars => QueueInv' /\ [Service!Next]_(Service!vars)
    BY <1>1, EveryStepServed DEF Served
<1> QED
    BY <1>2, <1>3, InitQueue, TimersInvariant, PTL DEF Spec, ImplementsTimers, Service!Spec

=============================================================================
