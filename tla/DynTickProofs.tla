--------------------------- MODULE DynTickProofs ---------------------------
(***************************************************************************)
(* The tickless timer misses no wrap of its counter and lets nothing wait  *)
(* long after its time, for every range of clock and counter.              *)
(***************************************************************************)
EXTENDS DynTick, WellFoundedInduction, TLAPS

LEMMA DivisionFacts ==
    ASSUME NEW a \in Int, NEW m \in Nat \ {0}
    PROVE  a \div m \in Int /\ a % m \in 0..m - 1 /\ a = m * (a \div m) + (a % m)
    OBVIOUS

\* A quotient and a remainder that fit are the ones of the division.
LEMMA DivisionUnique ==
    ASSUME NEW m \in Nat \ {0}, NEW q \in Int, NEW r \in 0..m - 1
    PROVE  (q * m + r) % m = r /\ (q * m + r) \div m = q
<1> DEFINE a == q * m + r
           b == a \div m
           c == a % m
<1>1. a \in Int /\ b \in Int /\ c \in 0..m - 1 /\ a = m * b + c
    OBVIOUS
<1> HIDE DEF a, b, c
<1>2. a = q * m + r
    BY DEF a
<1>3. m * (b - q) = r - c
    BY <1>1, <1>2
<1>4. CASE b > q
  <2>1. m * (b - q) >= m
    BY <1>1, <1>4
  <2> QED
    BY <1>1, <1>3, <2>1
<1>5. CASE b < q
  <2>1. m * (b - q) <= -m
    BY <1>1, <1>5
  <2> QED
    BY <1>1, <1>3, <2>1
<1>6. CASE b = q
    BY <1>1, <1>2, <1>6 DEF a, b, c
<1> QED
    BY <1>1, <1>4, <1>5, <1>6

\* The remainder of a number not far outside of the range.
LEMMA Wrap ==
    ASSUME NEW m \in Nat \ {0}, NEW x \in -m .. 2 * m - 1
    PROVE  /\ x < 0 => x % m = x + m
           /\ x \in 0..m - 1 => x % m = x
           /\ x >= m => x % m = x - m
<1>1. CASE x < 0
    BY <1>1, DivisionUnique, x = (-1) * m + (x + m)
<1>2. CASE x \in 0..m - 1
    BY <1>2, DivisionUnique, x = 0 * m + x
<1>3. CASE x >= m
    BY <1>3, DivisionUnique, x = 1 * m + (x - m)
<1> QED
    BY <1>1, <1>2, <1>3

\* A remainder may be taken early.
LEMMA AddToRemainder ==
    ASSUME NEW a \in Int, NEW y \in Int, NEW m \in Nat \ {0}
    PROVE  ((a % m) + y) % m = (a + y) % m
<1> DEFINE q == a \div m
           c == a % m
           p == (c + y) \div m
           r == (c + y) % m
<1>1. q \in Int /\ c \in Int /\ a = m * q + c
    BY DivisionFacts
<1>2. p \in Int /\ r \in 0..m - 1 /\ c + y = m * p + r
    BY <1>1, DivisionFacts
<1> HIDE DEF q, c, p, r
<1>3. a + y = (q + p) * m + r
    BY <1>1, <1>2
<1>4. q + p \in Int
    BY <1>1, <1>2
<1>5. (a + y) % m = r
    BY <1>2, <1>3, <1>4, DivisionUnique
<1> QED
    BY <1>5 DEF r, c

LEMMA DifferenceOfRemainders ==
    ASSUME NEW a \in Int, NEW b \in Int, NEW m \in Nat \ {0}
    PROVE  ((a % m) - (b % m)) % m = (a - b) % m
<1>1. PICK c \in Int : c = a % m
  <2>1. a % m \in Int
    BY DivisionFacts
  <2> QED
    BY <2>1, Zenon
<1>2. PICK q \in Int, r \in Int : r = b % m /\ b = m * q + r
  <2>1. b \div m \in Int /\ b % m \in Int /\ b = m * (b \div m) + (b % m)
    BY DivisionFacts
  <2> QED
    BY <2>1
<1>3. PICK y \in Int : y = -r
    BY <1>2
<1>4. ((a % m) + y) % m = (a + y) % m
    BY AddToRemainder
<1>5. c - r = c + y
    BY <1>1, <1>2, <1>3
<1>6. PICK u \in Int, p \in Int, s \in 0..m - 1 : u = a - b /\ s = u % m /\ u = m * p + s
  <2>1. PICK u \in Int : u = a - b
    OBVIOUS
  <2>2. u \div m \in Int /\ u % m \in 0..m - 1 /\ u = m * (u \div m) + (u % m)
    BY DivisionFacts
  <2> QED
    BY <2>1, <2>2
<1>7. PICK v \in Int, n \in Int : v = a + y /\ n = p + q /\ v = n * m + s
    BY <1>2, <1>3, <1>6
<1>8. v % m = s
  <2>1. (n * m + s) % m = s
    BY DivisionUnique
  <2> QED
    BY <1>7, <2>1, Zenon
<1> QED
    BY <1>1, <1>2, <1>4, <1>5, <1>6, <1>7, <1>8

-----------------------------------------------------------------------------
(* The clock and the counter.                                              *)

Half == TimeRange \div 2
Rounds == TimeRange \div CounterRange

\* The clock counts whole rounds of the counter.
LEMMA RoundsFill ==
    /\ CounterRange \in Nat \ {0} /\ TimeRange \in Nat \ {0}
    /\ Rounds \in Nat \ {0} /\ TimeRange = Rounds * CounterRange
<1>1. /\ MAX_PERIOD \in Nat \ {0} /\ CounterRange \in Nat \ {0}
      /\ TimeRange \in Nat /\ TimeRange % CounterRange = 0
    BY DynTickAssumption DEF CounterRange
<1>2. Rounds \in Int /\ TimeRange = Rounds * CounterRange
    BY <1>1 DEF Rounds
<1>3. TimeRange # 0
    BY DynTickAssumption
<1>4. Rounds > 0
    BY <1>1, <1>2, <1>3
<1> QED
    BY <1>1, <1>2, <1>3, <1>4

LEMMA Ranges ==
    /\ MAX_PERIOD \in Nat \ {0} /\ CounterRange \in Nat \ {0}
    /\ TimeRange \in Nat \ {0} /\ Rounds \in Nat \ {0}
    /\ CounterRange = 2 * MAX_PERIOD
    /\ Half \in Nat \ {0} /\ TimeRange = 2 * Half
    /\ CounterRange <= TimeRange
    /\ Latency \in Nat \ {0} /\ Near \in Nat /\ Latency < Near /\ Near <= MAX_PERIOD
    /\ 3 * Latency < MAX_PERIOD
    /\ MaxDelay \in Nat /\ MaxDelay + 3 * Latency < Half
<1>1. /\ MAX_PERIOD \in Nat \ {0} /\ CounterRange = 2 * MAX_PERIOD
      /\ Latency \in Nat \ {0} /\ Near \in Nat /\ Latency < Near /\ Near <= MAX_PERIOD
      /\ 3 * Latency < MAX_PERIOD /\ MaxDelay \in Nat
      /\ MaxDelay + 3 * Latency < Half
    BY DynTickAssumption DEF CounterRange, Half
<1>2. TimeRange = 2 * Half /\ Half \in Int
  <2>1. TimeRange = (Rounds * MAX_PERIOD) * 2 + 0
    BY <1>1, RoundsFill
  <2>2. Rounds * MAX_PERIOD \in Int
    BY <1>1, RoundsFill
  <2>3. TimeRange \div 2 = Rounds * MAX_PERIOD
    BY <2>1, <2>2, DivisionUnique
  <2> QED
    BY <2>1, <2>2, <2>3 DEF Half
<1>3. CounterRange <= TimeRange
  <2>1. (Rounds - 1) * CounterRange >= 0
    BY RoundsFill
  <2> QED
    BY RoundsFill, <2>1
<1>4. Half > 0
    BY <1>1, <1>2
<1> QED
    BY <1>1, <1>2, <1>3, <1>4, RoundsFill

\* As many whole rounds as fit before the clock wraps.
LEMMA WholeRounds ==
    ASSUME NEW h \in 0..Rounds - 1
    PROVE  /\ h * CounterRange \in Nat
           /\ h * CounterRange + CounterRange <= TimeRange
           /\ (h + 1) * CounterRange = h * CounterRange + CounterRange
           /\ h + 1 = Rounds => h * CounterRange + CounterRange = TimeRange
<1>1. (Rounds - 1 - h) * CounterRange >= 0
    BY RoundsFill
<1>2. (Rounds - 1 - h) * CounterRange = Rounds * CounterRange - CounterRange - h * CounterRange
    BY RoundsFill
<1>3. h * CounterRange \in Nat
    BY RoundsFill
<1>4. (h + 1) * CounterRange = h * CounterRange + CounterRange
    BY RoundsFill
<1> QED
    BY <1>1, <1>2, <1>3, <1>4, RoundsFill

\* The counter shows the clock, also where that wraps.
LEMMA CounterOfClock ==
    ASSUME NEW a \in Int
    PROVE  (a % TimeRange) % CounterRange = a % CounterRange
<1> DEFINE q == a \div TimeRange
           c == a % TimeRange
           p == c \div CounterRange
           r == c % CounterRange
<1>0. CounterRange \in Nat \ {0} /\ TimeRange \in Nat \ {0} /\ Rounds \in Nat
    BY RoundsFill
<1>1. q \in Int /\ c \in Int /\ a = TimeRange * q + c
    BY <1>0, DivisionFacts
<1>2. p \in Int /\ r \in 0..CounterRange - 1 /\ c = CounterRange * p + r
    BY <1>0, <1>1, DivisionFacts
<1> HIDE DEF q, c, p, r
<1>3. a = (Rounds * q + p) * CounterRange + r
    BY <1>0, <1>1, <1>2, RoundsFill
<1>4. Rounds * q + p \in Int
    BY <1>0, <1>1, <1>2
<1>5. a % CounterRange = r
    BY <1>0, <1>2, <1>3, <1>4, DivisionUnique
<1> QED
    BY <1>5 DEF r, c

LEMMA CounterMoves ==
    ASSUME NEW t \in Int, NEW x \in Int
    PROVE  ((t + x) % TimeRange) % CounterRange = ((t % CounterRange) + x) % CounterRange
<1>1. ((t + x) % TimeRange) % CounterRange = (t + x) % CounterRange
    BY CounterOfClock
<1> QED
    BY <1>1, Ranges, AddToRemainder

\* The remainders of a number that is near the range.
LEMMA WrapTime ==
    ASSUME NEW x \in -TimeRange .. 2 * TimeRange - 1
    PROVE  /\ x < 0 => x % TimeRange = x + TimeRange
           /\ x \in 0..TimeRange - 1 => x % TimeRange = x
           /\ x >= TimeRange => x % TimeRange = x - TimeRange
    BY Ranges, Wrap

LEMMA WrapCounter ==
    ASSUME NEW x \in -CounterRange .. 2 * CounterRange - 1
    PROVE  /\ x < 0 => x % CounterRange = x + CounterRange
           /\ x \in 0..CounterRange - 1 => x % CounterRange = x
           /\ x >= CounterRange => x % CounterRange = x - CounterRange
    BY Ranges, Wrap

\* A signed difference of two times says how to get from one to the other.
LEMMA CompareBack ==
    ASSUME NEW a \in Time, NEW b \in Time
    PROVE  /\ Compare(a, b) \in -Half .. Half - 1
           /\ a = (b + Compare(a, b)) % TimeRange
<1>0. a \in Int /\ b \in Int /\ Half \in Int /\ TimeRange \in Nat \ {0} /\ TimeRange = 2 * Half
    BY Ranges DEF Time
<1> DEFINE z == (a - b + Half) % TimeRange
<1>1. z \in 0..TimeRange - 1
    BY <1>0, DivisionFacts
<1>2. Compare(a, b) = z - Half
    BY DEF Compare, Half
<1>3. PICK u \in Int, y \in Int : u = a - b + Half /\ y = b - Half
    BY <1>0
<1>4. (z + y) % TimeRange = (u + y) % TimeRange
    BY <1>0, <1>3, AddToRemainder
<1> HIDE DEF z
<1>6. u + y = a /\ z + y = b + Compare(a, b)
    BY <1>0, <1>1, <1>2, <1>3
<1>5. a % TimeRange = a
    BY <1>0, WrapTime DEF Time
<1> QED
    BY <1>0, <1>1, <1>2, <1>4, <1>5, <1>6

LEMMA CompareOf ==
    ASSUME NEW b \in Time, NEW x \in -Half .. Half - 1
    PROVE  Compare((b + x) % TimeRange, b) = x
<1>0. b \in Int /\ x \in Int /\ Half \in Int /\ TimeRange \in Nat \ {0} /\ TimeRange = 2 * Half
    BY Ranges DEF Time
<1>1. PICK u \in Int, y \in Int : u = b + x /\ y = Half - b
    BY <1>0
<1>2. ((u % TimeRange) + y) % TimeRange = (u + y) % TimeRange
    BY <1>0, AddToRemainder
<1>3. u + y = x + Half
    BY <1>0, <1>1
<1>4. (x + Half) % TimeRange = x + Half
    BY <1>0, WrapTime
<1>5. PICK v \in Int : v = u % TimeRange
  <2>1. u % TimeRange \in Int
    BY <1>0, DivisionFacts
  <2> QED
    BY <2>1, Zenon
<1>6. Compare(v, b) = ((v - b + Half) % TimeRange) - Half
    BY DEF Compare, Half
<1>7. v - b + Half = v + y
    BY <1>0, <1>1
<1>8. Compare(v, b) = x
    BY <1>0, <1>2, <1>3, <1>4, <1>5, <1>6, <1>7
<1> QED
    BY <1>1, <1>5, <1>8

\* The ticks from one time to another.
Ticks(from, to) == (to - from) % TimeRange

LEMMA TicksBack ==
    ASSUME NEW a \in Time, NEW b \in Time
    PROVE  /\ Ticks(a, b) \in 0..TimeRange - 1
           /\ b = (a + Ticks(a, b)) % TimeRange
<1>0. a \in Int /\ b \in Int /\ TimeRange \in Nat \ {0}
    BY Ranges DEF Time
<1>1. PICK u \in Int : u = b - a
    BY <1>0
<1>2. Ticks(a, b) = u % TimeRange
    BY <1>1 DEF Ticks
<1>3. u % TimeRange \in 0..TimeRange - 1
    BY <1>0, DivisionFacts
<1>4. ((u % TimeRange) + a) % TimeRange = (u + a) % TimeRange
    BY <1>0, AddToRemainder
<1>5. u + a = b
    BY <1>0, <1>1
<1>6. b % TimeRange = b
    BY <1>0, WrapTime DEF Time
<1>7. (u % TimeRange) + a = a + (u % TimeRange)
    BY <1>0, <1>3
<1> QED
    BY <1>2, <1>3, <1>4, <1>5, <1>6, <1>7

LEMMA TicksOf ==
    ASSUME NEW a \in Time, NEW x \in Int
    PROVE  Ticks(a, (a + x) % TimeRange) = x % TimeRange
<1>0. a \in Int /\ TimeRange \in Nat \ {0}
    BY Ranges DEF Time
<1>1. PICK u \in Int, y \in Int : u = a + x /\ y = -a
    BY <1>0
<1>2. ((u % TimeRange) + y) % TimeRange = (u + y) % TimeRange
    BY <1>0, AddToRemainder
<1>3. u + y = x
    BY <1>0, <1>1
<1>4. u % TimeRange \in Int
    BY <1>0, DivisionFacts
<1>5. (u % TimeRange) - a = (u % TimeRange) + y
    BY <1>0, <1>1, <1>4
<1> QED
    BY <1>1, <1>2, <1>3, <1>5 DEF Ticks

\* One tick later.
LEMMA OneTick ==
    ASSUME NEW a \in Time, NEW b \in Time, Ticks(a, b) < TimeRange - 1
    PROVE  Ticks(a, (b + 1) % TimeRange) = Ticks(a, b) + 1
<1>0. a \in Int /\ b \in Int /\ TimeRange \in Nat \ {0}
    BY Ranges DEF Time
<1>1. PICK g \in 0..TimeRange - 1 : g = Ticks(a, b) /\ b = (a + g) % TimeRange
    BY TicksBack
<1>2. PICK u \in Int, y \in Int : u = a + g /\ y = 1
    BY <1>0
<1>3. ((u % TimeRange) + y) % TimeRange = (u + y) % TimeRange
    BY <1>0, AddToRemainder
<1>4. u + y = a + (g + 1)
    BY <1>0, <1>2
<1>5. (b + 1) % TimeRange = (a + (g + 1)) % TimeRange
    BY <1>1, <1>2, <1>3, <1>4
<1>6. Ticks(a, (a + (g + 1)) % TimeRange) = (g + 1) % TimeRange
    BY TicksOf
<1>7. (g + 1) % TimeRange = g + 1
    BY <1>0, <1>1, WrapTime
<1> QED
    BY <1>1, <1>5, <1>6, <1>7

-----------------------------------------------------------------------------
(* The clock that the program keeps.                                       *)

Setting == {"set", "check", "force"}

TypeOK ==
    /\ time \in Time /\ compare \in 0..CounterRange - 1
    /\ pending \in BOOLEAN /\ rearms \in BOOLEAN
    /\ time_hi \in 0..Rounds - 1 /\ last_lo \in 0..CounterRange - 1
    /\ queue \in [Lists -> SUBSET Time]
    /\ at \in {"idle", "tick", "walk"} \cup Setting
    /\ now \in Time /\ tick \in Time \cup {None} /\ spent \in 0..Latency
    /\ at \in {"idle", "tick"} => tick = None
    /\ at = "walk" => tick # None
    /\ at = "force" => rearms

\* What gyros_time has returned last.
LastRead == time_hi * CounterRange + last_lo

\* How long ago that was.
Unread == Ticks(LastRead, time)

\* How far the counter is from the next match.
Ahead == (compare - counter) % CounterRange

\* A match or an interrupt that is pending comes before the counter has gone
\* round since the clock was read.
ClockInv ==
    /\ TaskRuns => Ahead \in 1..MAX_PERIOD /\ Unread + Ahead <= MAX_PERIOD + Latency
    /\ at = "idle" /\ pending => Unread <= MAX_PERIOD + Latency + spent
    /\ at = "tick" => Unread <= MAX_PERIOD + 2 * Latency + spent
    /\ at \in {"walk"} \cup Setting => Unread <= spent
    /\ at \in Setting => Ticks(now, time) <= spent
    /\ tick # None => Ticks(tick, time) <= spent

LEMMA LastReadIsTime ==
    ASSUME NEW h \in 0..Rounds - 1, NEW l \in 0..CounterRange - 1
    PROVE  h * CounterRange + l \in Time /\ (h * CounterRange + l) % CounterRange = l
<1>1. h * CounterRange \in Nat /\ h * CounterRange + CounterRange <= TimeRange
    BY WholeRounds
<1>2. (h * CounterRange + l) % CounterRange = l
    BY Ranges, DivisionUnique
<1> QED
    BY <1>1, <1>2, Ranges DEF Time

\* Less than one round after it has been read, the clock is known from what
\* has been read then and from the counter.
LEMMA ClockFromCounter ==
    ASSUME NEW h \in 0..Rounds - 1, NEW l \in 0..CounterRange - 1, NEW t \in Time,
           Ticks(h * CounterRange + l, t) < CounterRange
    PROVE  /\ t % CounterRange < l => ((h + 1) % Rounds) * CounterRange + (t % CounterRange) = t
           /\ t % CounterRange >= l => h * CounterRange + (t % CounterRange) = t
<1>0. /\ CounterRange \in Nat \ {0} /\ TimeRange \in Nat \ {0} /\ Rounds \in Nat \ {0}
      /\ CounterRange <= TimeRange /\ t \in 0..TimeRange - 1
    BY Ranges DEF Time
<1>1. PICK r \in Nat :
        /\ r = h * CounterRange /\ (h + 1) * CounterRange = r + CounterRange
        /\ r + CounterRange <= TimeRange
        /\ h + 1 = Rounds => r + CounterRange = TimeRange
    BY WholeRounds
<1>2. r + CounterRange <= TimeRange /\ (h + 1 = Rounds => r + CounterRange = TimeRange)
    BY <1>1
<1>3. PICK R \in Time : R = r + l /\ R = h * CounterRange + l /\ R % CounterRange = l
  <2>1. h * CounterRange + l \in Time /\ (h * CounterRange + l) % CounterRange = l
    BY LastReadIsTime
  <2>2. h * CounterRange + l = r + l
    BY <1>1
  <2> QED
    BY <2>1, <2>2, Zenon
<1>4. R = r + l /\ R \in Int
  <2>1. R = r + l
    BY <1>3
  <2> QED
    BY <1>0, <2>1
<1>5. PICK e \in 0..TimeRange - 1 : e = Ticks(R, t) /\ t = (R + e) % TimeRange
    BY TicksBack
<1>6. e < CounterRange
    BY <1>3, <1>5
<1>7. PICK y \in 0 .. 2 * CounterRange - 1 : y = l + e
    BY <1>0, <1>6
<1>8. PICK s \in 0 .. 2 * TimeRange - 1 : s = R + e
    BY <1>0, <1>2, <1>4, <1>6
<1>9. PICK c \in Int : c = t % CounterRange /\ c = y % CounterRange
  <2>1. t % CounterRange = (l + e) % CounterRange
    BY <1>3, <1>4, <1>5, CounterMoves
  <2>2. y % CounterRange \in Int
    BY <1>0, DivisionFacts
  <2> QED
    BY <1>7, <2>1, <2>2
<1>10. c = (IF y < CounterRange THEN y ELSE y - CounterRange)
  <2>1. y \in -CounterRange .. 2 * CounterRange - 1
    BY <1>0
  <2> QED
    BY <1>0, <1>9, <2>1, WrapCounter
<1>11. t = (IF s < TimeRange THEN s ELSE s - TimeRange)
  <2>1. s \in -TimeRange .. 2 * TimeRange - 1 /\ t = s % TimeRange
    BY <1>0, <1>5, <1>8
  <2> QED
    BY <1>0, <2>1, WrapTime
<1>12. CASE y < CounterRange
  <2>1. c >= l /\ r + c = t
    BY <1>0, <1>2, <1>4, <1>7, <1>8, <1>10, <1>11, <1>12
  <2> QED
    BY <1>0, <1>1, <1>9, <2>1
<1>13. CASE y >= CounterRange
  <2>1. c = y - CounterRange /\ c < l
    BY <1>0, <1>6, <1>7, <1>10, <1>13
  <2>2. CASE h + 1 < Rounds
    <3>1. PICK n \in 0..Rounds - 1 : n = h + 1
        BY <1>0, <2>2
    <3>2. n % Rounds = n
      <4>1. n \in -Rounds .. 2 * Rounds - 1
        BY <1>0
      <4> QED
        BY <1>0, <4>1, Wrap
    <3>3. n * CounterRange + CounterRange <= TimeRange /\ n * CounterRange = r + CounterRange
        BY <1>1, <3>1, WholeRounds
    <3>4. r + CounterRange + CounterRange <= TimeRange
        BY <3>3
    <3>5. t = r + CounterRange + c
        BY <1>0, <1>4, <1>7, <1>8, <1>11, <2>1, <3>4
    <3> QED
        BY <1>0, <1>9, <2>1, <3>1, <3>2, <3>3, <3>5
  <2>3. CASE h + 1 = Rounds
    <3>1. (h + 1) % Rounds = 0
      <4>1. Rounds \in -Rounds .. 2 * Rounds - 1
        BY <1>0
      <4>2. Rounds % Rounds = 0
        BY <1>0, <4>1, Wrap
      <4> QED
        BY <2>3, <4>2
    <3>2. t = c
        BY <1>0, <1>2, <1>4, <1>7, <1>8, <1>11, <1>13, <2>1, <2>3
    <3> QED
        BY <1>0, <1>9, <2>1, <3>1, <3>2
  <2> QED
    BY <1>0, <2>2, <2>3
<1> QED
    BY <1>0, <1>7, <1>12, <1>13

\* As long as the counter has not gone round, gyros_time returns the time.
LEMMA ReadsRight ==
    ASSUME TypeOK, Unread < CounterRange
    PROVE  gyros_time = time /\ NextHigh \in 0..Rounds - 1 /\ counter \in 0..CounterRange - 1
<1>0. /\ time \in Time /\ time_hi \in 0..Rounds - 1 /\ last_lo \in 0..CounterRange - 1
      /\ CounterRange \in Nat \ {0} /\ Rounds \in Nat \ {0} /\ time \in Int
    BY Ranges DEF TypeOK, Time
<1>1. counter \in 0..CounterRange - 1
    BY <1>0, DivisionFacts DEF counter
<1>2. NextHigh \in 0..Rounds - 1
  <2>1. PICK n \in Int : n = time_hi + 1
    BY <1>0
  <2>2. n % Rounds \in 0..Rounds - 1
    BY <1>0, DivisionFacts
  <2> QED
    BY <1>0, <2>1, <2>2 DEF NextHigh, Rounds
<1>3. gyros_time = time
  <2>1. Ticks(time_hi * CounterRange + last_lo, time) < CounterRange
    BY DEF Unread, LastRead
  <2>2. /\ counter < last_lo => ((time_hi + 1) % Rounds) * CounterRange + counter = time
        /\ counter >= last_lo => time_hi * CounterRange + counter = time
    BY <1>0, <2>1, ClockFromCounter DEF counter
  <2> QED
    BY <1>0, <1>1, <2>2 DEF gyros_time, NextHigh, Rounds
<1> QED
    BY <1>1, <1>2, <1>3

\* The distance from one place of the counter to another.
LEMMA GapOf ==
    ASSUME NEW p \in 0..CounterRange - 1, NEW c \in 0..CounterRange - 1
    PROVE  /\ (p - c) % CounterRange \in 0..CounterRange - 1
           /\ p >= c => (p - c) % CounterRange = p - c
           /\ p < c => (p - c) % CounterRange = p - c + CounterRange
<1>1. CounterRange \in Nat \ {0}
    BY Ranges
<1>2. PICK x \in -CounterRange .. 2 * CounterRange - 1 : x = p - c
    BY <1>1
<1>3. /\ x < 0 => x % CounterRange = x + CounterRange
      /\ x >= 0 => x % CounterRange = x
    BY <1>1, <1>2, WrapCounter
<1> QED
    BY <1>1, <1>2, <1>3

\* The counter comes one step nearer.
LEMMA GapTick ==
    ASSUME NEW p \in 0..CounterRange - 1, NEW c \in 0..CounterRange - 1,
           (p - c) % CounterRange > 0
    PROVE  /\ (p - ((c + 1) % CounterRange)) % CounterRange = ((p - c) % CounterRange) - 1
           /\ (c + 1) % CounterRange = p <=> (p - c) % CounterRange = 1
<1>1. CounterRange \in Nat \ {0}
    BY Ranges
<1>2. PICK n \in 0..CounterRange - 1 :
        /\ n = (c + 1) % CounterRange
        /\ n = IF c + 1 = CounterRange THEN 0 ELSE c + 1
  <2>1. PICK x \in -CounterRange .. 2 * CounterRange - 1 : x = c + 1
    BY <1>1
  <2>2. /\ x \in 0..CounterRange - 1 => x % CounterRange = x
        /\ x >= CounterRange => x % CounterRange = x - CounterRange
    BY WrapCounter
  <2> QED
    BY <1>1, <2>1, <2>2
<1>3. PICK g \in Int : /\ g = (p - c) % CounterRange
                       /\ g = IF p >= c THEN p - c ELSE p - c + CounterRange
    BY <1>1, GapOf
<1>4. PICK h \in Int : /\ h = (p - n) % CounterRange
                       /\ h = IF p >= n THEN p - n ELSE p - n + CounterRange
    BY <1>1, GapOf
<1>5. g > 0
    BY <1>3
<1>6. h = g - 1 /\ (n = p <=> g = 1)
    BY <1>1, <1>2, <1>3, <1>4, <1>5
<1> QED
    BY <1>2, <1>3, <1>4, <1>6, Zenon

\* From y ticks to x ticks after the place b.
LEMMA GapBetween ==
    ASSUME NEW b \in Int, NEW x \in Int, NEW y \in Int
    PROVE  (((b + x) % CounterRange) - ((b + y) % CounterRange)) % CounterRange = (x - y) % CounterRange
<1>1. PICK u \in Int, v \in Int : u = b + x /\ v = b + y
    OBVIOUS
<1>2. ((u % CounterRange) - (v % CounterRange)) % CounterRange = (u - v) % CounterRange
    BY Ranges, DifferenceOfRemainders
<1>3. u - v = x - y
    BY <1>1
<1> QED
    BY <1>1, <1>2, <1>3

LEMMA CounterDiffOf ==
    ASSUME NEW p \in 0..CounterRange - 1, NEW c \in 0..CounterRange - 1, CounterDiff(p, c) > 0
    PROVE  (p - c) % CounterRange \in 1..MAX_PERIOD
<1>1. CounterRange \in Nat \ {0} /\ MAX_PERIOD \in Nat \ {0} /\ CounterRange = 2 * MAX_PERIOD
    BY Ranges
<1>2. PICK x \in -CounterRange .. 2 * CounterRange - 1 : x = p - c + MAX_PERIOD
    BY <1>1
<1>3. /\ x < 0 => x % CounterRange = x + CounterRange
      /\ x \in 0..CounterRange - 1 => x % CounterRange = x
      /\ x >= CounterRange => x % CounterRange = x - CounterRange
    BY WrapCounter
<1>4. x % CounterRange > MAX_PERIOD
  <2>1. PICK d \in Int : d = x % CounterRange
    BY <1>1, <1>2, <1>3
  <2>2. d - MAX_PERIOD > 0
    BY <1>2, <2>1 DEF CounterDiff
  <2> QED
    BY <1>1, <2>1, <2>2
<1> QED
    BY <1>1, <1>2, <1>3, <1>4, GapOf

-----------------------------------------------------------------------------
(* Each step keeps the clock.                                              *)

\* No interrupt is put off for so long that the counter could have gone round.
LEMMA UnreadSmall ==
    ASSUME TypeOK, ClockInv
    PROVE  /\ Unread \in Nat /\ Unread < CounterRange
           /\ TaskRuns \/ spent < Latency => Unread < CounterRange - 1
<1>1. LastRead \in Time /\ time \in Time
    BY LastReadIsTime DEF TypeOK, LastRead
<1>2. Unread \in Nat /\ spent \in 0..Latency /\ at \in {"idle", "tick", "walk"} \cup Setting
      /\ pending \in BOOLEAN
    BY <1>1, TicksBack, Ranges DEF Unread, TypeOK
<1>3. \/ TaskRuns /\ Ahead \in 1..MAX_PERIOD /\ Unread + Ahead <= MAX_PERIOD + Latency
      \/ ~TaskRuns /\ Unread <= MAX_PERIOD + 2 * Latency + spent
    BY <1>2, Ranges DEF ClockInv, TaskRuns
<1> QED
    BY <1>2, <1>3, Ranges

\* What stays as it is when the program reads the clock.
LEMMA ReadClockOK ==
    ASSUME TypeOK, ClockInv, ReadClock, time' = time
    PROVE  /\ gyros_time = time
           /\ time_hi' \in 0..Rounds - 1 /\ last_lo' \in 0..CounterRange - 1
           /\ Unread' = 0
<1>1. gyros_time = time /\ NextHigh \in 0..Rounds - 1 /\ counter \in 0..CounterRange - 1
    BY UnreadSmall, ReadsRight
<1>2. time_hi' = NextHigh /\ last_lo' = counter
    BY DEF ReadClock
<1>3. LastRead' = time'
    BY <1>1, <1>2 DEF LastRead, gyros_time
<1>4. Ticks(time, time) = 0
  <2>1. time \in Int /\ TimeRange \in Nat \ {0}
    BY Ranges DEF TypeOK, Time
  <2>2. time - time = 0 /\ 0 \in -TimeRange .. 2 * TimeRange - 1 /\ 0 \in 0..TimeRange - 1
    BY <2>1
  <2>3. 0 % TimeRange = 0
    BY <2>2, WrapTime
  <2> QED
    BY <2>2, <2>3 DEF Ticks
<1> QED
    BY <1>1, <1>2, <1>3, <1>4 DEF Unread

LEMMA AdvanceKeepsClock ==
    ASSUME TypeOK, ClockInv, Advance
    PROVE  TypeOK' /\ ClockInv'
<1>0. /\ TimeRange \in Nat \ {0} /\ CounterRange \in Nat \ {0} /\ Latency \in Nat \ {0} 
      /\ MAX_PERIOD \in Nat /\ CounterRange <= TimeRange /\ CounterRange = 2 * MAX_PERIOD
      /\ 3 * Latency < MAX_PERIOD
    BY Ranges
<1>1. time \in Time /\ LastRead \in Time /\ time \in Int
    BY <1>0, LastReadIsTime DEF TypeOK, LastRead, Time
<1>2. time' \in Time
  <2>1. PICK n \in Int : n = time + 1
    BY <1>1
  <2>2. n % TimeRange \in 0..TimeRange - 1
    BY <1>0, DivisionFacts
  <2> QED
    BY <2>1, <2>2 DEF Advance, Later, Time
<1>3. counter \in 0..CounterRange - 1 /\ counter' = (counter + 1) % CounterRange
  <2>1. counter \in 0..CounterRange - 1
    BY <1>0, <1>1, DivisionFacts DEF counter
  <2>2. ((time + 1) % TimeRange) % CounterRange = ((time % CounterRange) + 1) % CounterRange
    BY <1>1, CounterMoves
  <2> QED
    BY <2>1, <2>2 DEF Advance, Later, counter
<1>4. TypeOK'
    BY <1>0, <1>2 DEF TypeOK, Advance, portVars, TaskRuns
<1>5. Unread' = Unread + 1 /\ Unread \in Nat /\ Unread < CounterRange - 1
  <2>1. Unread \in Nat /\ Unread < CounterRange - 1
    BY UnreadSmall DEF Advance
  <2>2. Ticks(LastRead, (time + 1) % TimeRange) = Ticks(LastRead, time) + 1
    BY <1>0, <1>1, <2>1, OneTick DEF Unread
  <2> QED
    BY <2>1, <2>2 DEF Unread, Advance, Later, LastRead, portVars
<1>6. ASSUME NEW t \in Time, Ticks(t, time) <= spent, spent < Latency, ~TaskRuns
      PROVE  Ticks(t, time') <= spent'
  <2>1. Ticks(t, time) \in 0..TimeRange - 1 /\ spent \in 0..Latency
    BY <1>1, TicksBack DEF TypeOK
  <2>2. Ticks(t, time) < TimeRange - 1
    BY <1>0, <1>6, <2>1
  <2>3. Ticks(t, (time + 1) % TimeRange) = Ticks(t, time) + 1
    BY <1>1, <2>2, OneTick
  <2> QED
    BY <1>6, <2>1, <2>3 DEF Advance, Later
<1>7. Ahead > 0 => Ahead' = Ahead - 1 /\ (time' % CounterRange = compare <=> Ahead = 1)
  <2>1. compare \in 0..CounterRange - 1
    BY DEF TypeOK
  <2>2. Ahead > 0 => /\ (compare - ((counter + 1) % CounterRange)) % CounterRange = Ahead - 1
                     /\ (counter + 1) % CounterRange = compare <=> Ahead = 1
    BY <1>3, <2>1, GapTick DEF Ahead
  <2> QED
    BY <1>3, <2>2 DEF Ahead, Advance, counter
<1>8. /\ compare' = compare /\ at' = at /\ now' = now /\ tick' = tick
      /\ pending' = (pending \/ time' % CounterRange = compare)
      /\ spent' = (IF TaskRuns THEN 0 ELSE spent + 1) /\ (TaskRuns \/ spent < Latency)
    BY DEF Advance
<1>9. /\ at \in {"idle", "tick", "walk"} \cup Setting /\ pending \in BOOLEAN /\ spent \in 0..Latency
      /\ now \in Time /\ (tick # None => tick \in Time)
      /\ (at = "idle" => tick = None)
    BY DEF TypeOK
<1>10. CASE TaskRuns
  <2>1. Ahead \in 1..MAX_PERIOD /\ Unread + Ahead <= MAX_PERIOD + Latency
    BY <1>10 DEF ClockInv
  <2>2. at' = "idle" /\ tick' = None /\ spent' = 0 /\ Ahead' = Ahead - 1
    BY <1>7, <1>8, <1>9, <1>10, <2>1 DEF TaskRuns
  <2>3. (Ahead = 1 => pending') /\ (pending' => Ahead = 1)
    <3>1. Ahead > 0
        BY <1>0, <2>1
    <3> QED
        BY <1>7, <1>8, <1>10, <3>1, Zenon DEF TaskRuns
  <2>4. TaskRuns' => Ahead' \in 1..MAX_PERIOD /\ Unread' + Ahead' <= MAX_PERIOD + Latency
    BY <1>0, <1>5, <2>1, <2>2, <2>3 DEF TaskRuns
  <2>5. pending' => Unread' <= MAX_PERIOD + Latency + spent'
    BY <1>0, <1>5, <2>1, <2>2, <2>3
  <2> QED
    BY <1>4, <2>2, <2>4, <2>5 DEF ClockInv, Setting
<1>11. CASE ~TaskRuns
  <2>1. spent' = spent + 1 /\ spent < Latency
    BY <1>8, <1>11
  <2>2. ~TaskRuns'
    BY <1>8, <1>9, <1>11 DEF TaskRuns
  <2>3. at' = "idle" /\ pending' => Unread' <= MAX_PERIOD + Latency + spent'
    BY <1>0, <1>5, <1>8, <1>9, <1>11, <2>1 DEF ClockInv, TaskRuns
  <2>4. at' = "tick" => Unread' <= MAX_PERIOD + 2 * Latency + spent'
    BY <1>0, <1>5, <1>8, <1>9, <2>1 DEF ClockInv
  <2>5. at' \in {"walk"} \cup Setting => Unread' <= spent'
    BY <1>0, <1>5, <1>8, <1>9, <2>1 DEF ClockInv
  <2>6. at' \in Setting => Ticks(now', time') <= spent'
    BY <1>6, <1>8, <1>9, <1>11, <2>1 DEF ClockInv
  <2>7. tick' # None => Ticks(tick', time') <= spent'
    BY <1>6, <1>8, <1>9, <1>11, <2>1 DEF ClockInv
  <2> QED
    BY <1>4, <2>2, <2>3, <2>4, <2>5, <2>6, <2>7 DEF ClockInv
<1> QED
    BY <1>10, <1>11

\* A head is one of the times that are queued.
LEMMA FirstIsQueued ==
    ASSUME Queued # {}
    PROVE  First \in Queued
<1>1. \E d \in Queued : Earliest # {} => d \in Earliest
    BY DEF Earliest
<1> QED
    BY <1>1 DEF First

\* The clock is read and gyros__dyntick_update called.
Updates ==
    /\ Runs /\ ReadClock /\ now' = gyros_time /\ at' = "set" /\ Start
    /\ queue' \in [Lists -> SUBSET Time]
    /\ UNCHANGED <<time, compare, pending, rearms, tick>>

LEMMA LaterIsTime ==
    ASSUME TypeOK, NEW delay \in Int
    PROVE  Later(delay) \in Time
<1>1. PICK n \in Int : n = time + delay
    BY Ranges DEF TypeOK, Time
<1>2. n % TimeRange \in 0..TimeRange - 1
    BY Ranges, DivisionFacts
<1> QED
    BY <1>1, <1>2 DEF Later, Time

LEMMA QueueUpdates ==
    ASSUME TypeOK, NEW l \in Lists, NEW d \in Time, Runs, Queue(l, d)
    PROVE  Updates
<1>1. queue' = [queue EXCEPT ![l] = @ \cup {d}]
    BY DEF Queue
<1>2. queue' \in [Lists -> SUBSET Time]
    BY <1>1 DEF TypeOK
<1> QED
    BY <1>2 DEF Updates, Queue

LEMMA ResetUpdates ==
    ASSUME TypeOK, NEW d, gyros_alarm_clock_reset(d)
    PROVE  Updates
<1>1. queue' = [queue EXCEPT !["timeouts"] = @ \ {d}] /\ "timeouts" \in Lists
    BY DEF gyros_alarm_clock_reset, Lists
<1>2. queue' \in [Lists -> SUBSET Time]
    BY <1>1 DEF TypeOK
<1> QED
    BY <1>2 DEF Updates, gyros_alarm_clock_reset

LEMMA NoTicks ==
    ASSUME NEW t \in Time
    PROVE  Ticks(t, t) = 0
<1>1. t \in Int /\ TimeRange \in Nat \ {0}
    BY Ranges DEF Time
<1>2. t - t = 0 /\ 0 \in -TimeRange .. 2 * TimeRange - 1 /\ 0 \in 0..TimeRange - 1
    BY <1>1
<1>3. 0 % TimeRange = 0
    BY <1>2, WrapTime
<1> QED
    BY <1>2, <1>3 DEF Ticks

LEMMA UpdatesKeepClock ==
    ASSUME TypeOK, ClockInv, Updates
    PROVE  TypeOK' /\ ClockInv'
<1>1. /\ gyros_time = time /\ time_hi' \in 0..Rounds - 1 /\ last_lo' \in 0..CounterRange - 1
      /\ Unread' = 0
    BY ReadClockOK DEF Updates
<1>2. spent' \in 0..Latency /\ spent' \in Nat /\ (tick # None => spent' = spent)
    BY Ranges DEF Updates, Start, TypeOK, TaskRuns
<1>3. TypeOK'
    BY <1>1, <1>2 DEF TypeOK, Updates, Setting
<1>4. Ticks(now', time') = 0
    BY <1>1, NoTicks DEF Updates, TypeOK
<1>5. tick' # None => Ticks(tick', time') <= spent'
    BY <1>2 DEF Updates, ClockInv
<1> QED
    BY <1>1, <1>2, <1>3, <1>4, <1>5 DEF ClockInv, Updates, TaskRuns, Setting

LEMMA ReadKeepsClock ==
    ASSUME TypeOK, ClockInv, Read
    PROVE  TypeOK' /\ ClockInv'
<1>1. /\ time_hi' \in 0..Rounds - 1 /\ last_lo' \in 0..CounterRange - 1 /\ Unread' = 0
    BY ReadClockOK DEF Read
<1>2. TypeOK'
    BY <1>1 DEF TypeOK, Read
<1>3. Ahead' = Ahead
    BY DEF Read, Ahead, counter
<1>4. UNCHANGED <<time, pending, at, now, tick, spent>> /\ Runs
    BY DEF Read
<1>5. Unread \in Nat /\ spent \in Nat
    BY UnreadSmall, Ranges DEF TypeOK
<1>6. TaskRuns' => Ahead' \in 1..MAX_PERIOD /\ Unread' + Ahead' <= MAX_PERIOD + Latency
    BY <1>1, <1>3, <1>4, <1>5, Ranges DEF ClockInv, TaskRuns
<1> QED
    BY <1>1, <1>2, <1>4, <1>5, <1>6 DEF ClockInv, Runs, TaskRuns, Setting

LEMMA DyntickSetKeepsClock ==
    ASSUME TypeOK, ClockInv, gyros__dyntick_set
    PROVE  TypeOK' /\ ClockInv'
<1>0. /\ CounterRange \in Nat \ {0} /\ CounterRange = 2 * MAX_PERIOD /\ MAX_PERIOD \in Nat
      /\ Latency \in Nat /\ Near \in Nat /\ Latency < Near /\ Near <= MAX_PERIOD /\ TimeRange \in Nat
    BY Ranges
<1>1. Queued # {} => First \in Time
    BY FirstIsQueued DEF Queued, TypeOK, Lists
<1>2. compare' \in 0..CounterRange - 1
  <2>1. PICK n \in Int : compare' = n % CounterRange
    <3>1. (IF Far THEN last_lo + MAX_PERIOD ELSE First) \in Int
        BY <1>0, <1>1 DEF Far, TypeOK, Time
    <3> QED
        BY <3>1, Zenon DEF gyros__dyntick_set
  <2> QED
    BY <1>0, <2>1, DivisionFacts
<1>3. /\ UNCHANGED <<time, pending, rearms, portVars, queue, now, tick, spent>>
      /\ at = "set" /\ at' \in {"check", "walk", "idle"}
      /\ at' = "walk" => tick # None
      /\ at' = "idle" => tick = None
    BY DEF gyros__dyntick_set, Leave
<1>4. TypeOK'
    BY <1>2, <1>3 DEF TypeOK, Setting, portVars
<1>5. Unread' = Unread /\ Unread \in Nat /\ Unread <= spent /\ spent \in 0..Latency
    BY <1>3, UnreadSmall DEF Unread, LastRead, portVars, ClockInv, Setting, TypeOK
<1>6. ASSUME TaskRuns'
      PROVE  Ahead' \in 1..MAX_PERIOD
  <2>0. at' = "idle" /\ counter' = counter
    BY <1>3, <1>6 DEF TaskRuns, counter
  <2>1. CASE Far
    <3>1. PICK e \in Int : e = Unread /\ time = (LastRead + e) % TimeRange /\ e <= Latency /\ e \in Nat
      <4>1. LastRead \in Time /\ time \in Time
        BY LastReadIsTime DEF LastRead, TypeOK
      <4>2. Unread \in Int /\ time = (LastRead + Unread) % TimeRange
        BY <1>5, <4>1, TicksBack DEF Unread
      <4> QED
        BY <1>0, <1>5, <4>2
    <3>2. counter = (last_lo + e) % CounterRange
      <4>1. PICK r \in Int : r = LastRead /\ r % CounterRange = last_lo
        BY LastReadIsTime, <1>0 DEF LastRead, TypeOK, Time
      <4>2. ((r + e) % TimeRange) % CounterRange = ((r % CounterRange) + e) % CounterRange
        BY CounterMoves
      <4> QED
        BY <3>1, <4>1, <4>2 DEF counter
    <3>3. compare' = (last_lo + MAX_PERIOD) % CounterRange
        BY <2>1 DEF gyros__dyntick_set
    <3>4. Ahead' = (MAX_PERIOD - e) % CounterRange
      <4>1. last_lo \in Int /\ MAX_PERIOD \in Int
        BY <1>0 DEF TypeOK
      <4>2. (((last_lo + MAX_PERIOD) % CounterRange) - ((last_lo + e) % CounterRange)) % CounterRange
                = (MAX_PERIOD - e) % CounterRange
        BY <4>1, GapBetween
      <4>3. Ahead' = (compare' - counter') % CounterRange
        BY DEF Ahead
      <4> QED
        BY <2>0, <3>2, <3>3, <4>2, <4>3
    <3>5. PICK x \in -CounterRange .. 2 * CounterRange - 1 : x = MAX_PERIOD - e /\ x \in 1..MAX_PERIOD
        BY <1>0, <3>1
    <3>6. x % CounterRange = x
        BY <1>0, <3>5, WrapCounter
    <3> QED
        BY <3>4, <3>5, <3>6
  <2>2. CASE ~Far
    <3>1. First \in Time /\ now \in Time /\ time \in Time /\ tick = None
        BY <1>1, <1>3, <2>0, <2>2 DEF Far, TypeOK
    <3>2. PICK x \in Int : x = Compare(First, now) /\ First = (now + x) % TimeRange
      <4>1. Compare(First, now) \in Int /\ First = (now + Compare(First, now)) % TimeRange
        BY <1>0, <3>1, CompareBack, Ranges
      <4> QED
        BY <4>1, Zenon
    <3>3. x < MAX_PERIOD /\ x >= Near
      <4>1. Compare(First, now) < MAX_PERIOD /\ ~(Compare(First, now) < Near)
        BY <1>0, <2>0, <2>2, <3>2 DEF Far, gyros__dyntick_set
      <4> QED
        BY <1>0, <3>2, <4>1
    <3>4. PICK e \in Nat : e = Ticks(now, time) /\ time = (now + e) % TimeRange
      <4>1. Ticks(now, time) \in Nat /\ time = (now + Ticks(now, time)) % TimeRange
        BY <1>0, <3>1, TicksBack
      <4> QED
        BY <4>1, Zenon
    <3>5. e <= Latency
        BY <1>0, <1>3, <1>5, <3>4 DEF ClockInv, Setting
    <3>6. PICK b \in Int : b = now % CounterRange
      <4>1. now % CounterRange \in Int
        BY <1>0, <3>1, DivisionFacts DEF Time
      <4> QED
        BY <4>1, Zenon
    <3>7. counter = (b + e) % CounterRange /\ compare' = (b + x) % CounterRange
      <4>1. now \in Int
        BY <1>0, <3>1 DEF Time
      <4>2. ((now + e) % TimeRange) % CounterRange = ((now % CounterRange) + e) % CounterRange
        BY <4>1, CounterMoves
      <4>3. ((now + x) % TimeRange) % CounterRange = ((now % CounterRange) + x) % CounterRange
        BY <4>1, CounterMoves
      <4>4. compare' = First % CounterRange
        BY <2>2 DEF gyros__dyntick_set
      <4> QED
        BY <3>2, <3>4, <3>6, <4>2, <4>3, <4>4 DEF counter
    <3>8. Ahead' = (x - e) % CounterRange
      <4>1. (((b + x) % CounterRange) - ((b + e) % CounterRange)) % CounterRange = (x - e) % CounterRange
        BY GapBetween
      <4>2. Ahead' = (compare' - counter') % CounterRange
        BY DEF Ahead
      <4> QED
        BY <2>0, <3>7, <4>1, <4>2
    <3>9. PICK y \in -CounterRange .. 2 * CounterRange - 1 : y = x - e /\ y \in 1..MAX_PERIOD
        BY <1>0, <3>3, <3>4, <3>5
    <3>10. y % CounterRange = y
        BY <1>0, <3>9, WrapCounter
    <3> QED
        BY <3>8, <3>9, <3>10
  <2> QED
    BY <2>1, <2>2
<1>7. TaskRuns' => Ahead' \in 1..MAX_PERIOD /\ Unread' + Ahead' <= MAX_PERIOD + Latency
    BY <1>0, <1>5, <1>6
<1>8. /\ at' = "idle" /\ pending' => Unread' <= MAX_PERIOD + Latency + spent'
      /\ at' = "tick" => Unread' <= MAX_PERIOD + 2 * Latency + spent'
      /\ at' \in {"walk"} \cup Setting => Unread' <= spent'
    BY <1>0, <1>3, <1>5
<1>9. /\ at' \in Setting => Ticks(now', time') <= spent'
      /\ tick' # None => Ticks(tick', time') <= spent'
    BY <1>3 DEF ClockInv, Setting
<1> QED
    BY <1>4, <1>7, <1>8, <1>9 DEF ClockInv

LEMMA CheckKeepsClock ==
    ASSUME TypeOK, ClockInv, Check
    PROVE  TypeOK' /\ ClockInv'
<1>0. /\ CounterRange \in Nat \ {0} /\ MAX_PERIOD \in Nat /\ Latency \in Nat
    BY Ranges
<1>1. /\ UNCHANGED <<time, compare, rearms, portVars, queue, now, tick, spent>> /\ at = "check"
      /\ at' \in {"force", "walk", "idle"}
      /\ at' = "walk" => tick # None
      /\ at' = "idle" => tick = None
      /\ at' = "force" => rearms
    BY DEF Check, Leave
<1>2. pending' \in BOOLEAN
  <2>1. pending' = pending \/ pending' = (pending \/ CounterDiff(compare, counter) <= 0)
    BY DEF Check
  <2> QED
    BY <2>1, Zenon DEF TypeOK
<1>3. TypeOK'
    BY <1>1, <1>2 DEF TypeOK, Setting, portVars
<1>4. Unread' = Unread /\ Unread \in Nat /\ Unread <= spent /\ spent \in 0..Latency
    BY <1>1, UnreadSmall DEF Unread, LastRead, portVars, ClockInv, Setting, TypeOK
<1>5. ASSUME TaskRuns'
      PROVE  Ahead' \in 1..MAX_PERIOD
  <2>1. ~(CounterDiff(compare, counter) <= 0)
    BY <1>5, Zenon DEF Check, TaskRuns, Leave
  <2>2. counter \in 0..CounterRange - 1 /\ compare \in 0..CounterRange - 1
    BY UnreadSmall, ReadsRight DEF TypeOK
  <2>3. CounterDiff(compare, counter) \in Int
    <3>1. PICK n \in Int : n = compare - counter + MAX_PERIOD
        BY <1>0, <2>2
    <3>2. n % CounterRange \in Int
        BY <1>0, DivisionFacts
    <3> QED
        BY <1>0, <3>1, <3>2 DEF CounterDiff
  <2>4. CounterDiff(compare, counter) > 0
    BY <2>1, <2>3
  <2>5. (compare - counter) % CounterRange \in 1..MAX_PERIOD
    BY <2>2, <2>4, CounterDiffOf
  <2> QED
    BY <1>1, <2>5 DEF Ahead, counter
<1>6. TaskRuns' => Ahead' \in 1..MAX_PERIOD /\ Unread' + Ahead' <= MAX_PERIOD + Latency
    BY <1>0, <1>4, <1>5
<1>7. /\ at' = "idle" /\ pending' => Unread' <= MAX_PERIOD + Latency + spent'
      /\ at' = "tick" => Unread' <= MAX_PERIOD + 2 * Latency + spent'
      /\ at' \in {"walk"} \cup Setting => Unread' <= spent'
    BY <1>0, <1>1, <1>4
<1>8. /\ at' \in Setting => Ticks(now', time') <= spent'
      /\ tick' # None => Ticks(tick', time') <= spent'
    BY <1>1 DEF ClockInv, Setting
<1> QED
    BY <1>3, <1>6, <1>7, <1>8 DEF ClockInv

LEMMA ForceKeepsClock ==
    ASSUME TypeOK, ClockInv, ForceInterrupt
    PROVE  TypeOK' /\ ClockInv'
<1>0. /\ CounterRange \in Nat \ {0} /\ MAX_PERIOD \in Nat /\ Latency \in Nat \ {0}
      /\ 3 * Latency < MAX_PERIOD /\ CounterRange = 2 * MAX_PERIOD
    BY Ranges
<1>1. /\ UNCHANGED <<time, pending, rearms, portVars, queue, now, tick, spent>> /\ at = "force"
      /\ at' \in {"walk", "idle"}
      /\ at' = "walk" => tick # None
      /\ at' = "idle" => tick = None
    BY DEF ForceInterrupt, Leave
<1>2. counter \in 0..CounterRange - 1 /\ counter' = counter
    BY <1>1, UnreadSmall, ReadsRight DEF counter
<1>3. PICK x \in 1..2 : compare' = (counter + x) % CounterRange
  <2>1. PICK passed \in 0..1 : compare' = (counter + 2 - passed) % CounterRange
    BY DEF ForceInterrupt
  <2>2. 2 - passed \in 1..2 /\ counter + (2 - passed) = counter + 2 - passed
    BY <1>0, <1>2
  <2> QED
    BY <2>1, <2>2
<1>4. compare' \in 0..CounterRange - 1
  <2>1. PICK n \in Int : n = counter + x
    BY <1>0, <1>2
  <2>2. n % CounterRange \in 0..CounterRange - 1
    BY <1>0, DivisionFacts
  <2> QED
    BY <1>3, <2>1, <2>2
<1>5. TypeOK'
    BY <1>1, <1>4 DEF TypeOK, portVars
<1>6. Unread' = Unread /\ Unread \in Nat /\ Unread <= spent /\ spent \in 0..Latency
    BY <1>1, UnreadSmall DEF Unread, LastRead, portVars, ClockInv, Setting, TypeOK
<1>7. Ahead' \in 1..MAX_PERIOD
  <2>1. counter \in Int /\ x \in Int /\ 0 \in Int /\ counter + 0 = counter
    BY <1>0, <1>2
  <2>2. (((counter + x) % CounterRange) - ((counter + 0) % CounterRange)) % CounterRange = (x - 0) % CounterRange
    BY <2>1, GapBetween
  <2>3. counter % CounterRange = counter
    <3>1. counter \in -CounterRange .. 2 * CounterRange - 1
        BY <1>0, <1>2
    <3> QED
        BY <1>2, <3>1, WrapCounter
  <2>4. x \in -CounterRange .. 2 * CounterRange - 1 /\ x \in 0..CounterRange - 1 /\ x - 0 = x
    BY <1>0
  <2>5. x % CounterRange = x
    BY <2>4, WrapCounter
  <2>6. Ahead' = (compare' - counter') % CounterRange
    BY DEF Ahead
  <2>7. Ahead' = x
    BY <1>2, <1>3, <2>1, <2>2, <2>3, <2>4, <2>5, <2>6
  <2> QED
    BY <1>0, <2>7
<1>8. TaskRuns' => Ahead' \in 1..MAX_PERIOD /\ Unread' + Ahead' <= MAX_PERIOD + Latency
  <2>1. Unread' \in 0..Latency
    BY <1>0, <1>6
  <2>2. \A u \in 0..Latency, a \in 1..MAX_PERIOD : u + a <= MAX_PERIOD + Latency
    BY <1>0
  <2> QED
    BY <1>7, <2>1, <2>2
<1>9. /\ at' = "idle" /\ pending' => Unread' <= MAX_PERIOD + Latency + spent'
      /\ at' = "tick" => Unread' <= MAX_PERIOD + 2 * Latency + spent'
      /\ at' \in {"walk"} \cup Setting => Unread' <= spent'
    BY <1>0, <1>1, <1>6
<1>10. /\ at' \in Setting => Ticks(now', time') <= spent'
       /\ tick' # None => Ticks(tick', time') <= spent'
    BY <1>1 DEF ClockInv, Setting
<1> QED
    BY <1>5, <1>8, <1>9, <1>10 DEF ClockInv

LEMMA InterruptKeepsClock ==
    ASSUME TypeOK, ClockInv, TIMER_ISR \/ gyros__tick \/ TickEnd
    PROVE  TypeOK' /\ ClockInv'
<1>0. Latency \in Nat /\ MAX_PERIOD \in Nat /\ Unread \in Nat /\ spent \in 0..Latency
    BY Ranges, UnreadSmall DEF TypeOK
<1>1. CASE TIMER_ISR
  <2>1. Unread <= MAX_PERIOD + Latency + spent
    BY <1>1 DEF TIMER_ISR, ClockInv
  <2>2. at' = "tick" /\ tick' = None /\ spent' = 0 /\ Unread' = Unread
    BY <1>1 DEF TIMER_ISR, TypeOK, Unread, LastRead, portVars
  <2>3. spent' \in 0..Latency /\ pending' \in BOOLEAN /\ tick' \in Time \cup {None}
    <3>1. 0 \in 0..Latency
        BY <1>0
    <3> QED
        BY <1>1, <2>2, <3>1 DEF TIMER_ISR
  <2>4. UNCHANGED <<time, compare, rearms, time_hi, last_lo, queue, now>>
    BY <1>1 DEF TIMER_ISR, portVars
  <2>5. TypeOK'
    BY <2>2, <2>3, <2>4 DEF TypeOK, Setting
  <2> QED
    BY <1>0, <2>1, <2>2, <2>5 DEF ClockInv, TaskRuns, Setting
<1>2. CASE gyros__tick
  <2>1. /\ gyros_time = time /\ time_hi' \in 0..Rounds - 1 /\ last_lo' \in 0..CounterRange - 1
        /\ Unread' = 0 /\ tick' = time /\ at' = "walk"
    BY <1>2, ReadClockOK DEF gyros__tick
  <2>2. queue' \in [Lists -> SUBSET Time]
    <3>1. queue' = [queue EXCEPT !["timeouts"] = {d \in @ : ~Reached(d, gyros_time)}] /\ "timeouts" \in Lists
        BY <1>2 DEF gyros__tick, Lists
    <3> QED
        BY <3>1 DEF TypeOK
  <2>3. time # None /\ time \in Time
    BY DEF TypeOK, None, Time
  <2>4. TypeOK'
    BY <1>2, <2>1, <2>2, <2>3 DEF gyros__tick, TypeOK
  <2>5. Ticks(tick', time') = 0
    BY <1>2, <2>1, <2>3, NoTicks DEF gyros__tick
  <2> QED
    BY <1>0, <1>2, <2>1, <2>4, <2>5 DEF ClockInv, TaskRuns, Setting, gyros__tick
<1>3. CASE TickEnd
  <2>1. /\ UNCHANGED <<time, compare, pending, rearms, portVars, queue, spent>>
        /\ at = "walk" /\ at' = "set" /\ now' = tick /\ tick' = None /\ tick # None
    BY <1>3 DEF TickEnd, TypeOK
  <2>2. TypeOK'
    BY <2>1 DEF TypeOK, portVars, Setting
  <2>3. Unread' <= spent' /\ Ticks(now', time') <= spent'
    BY <2>1 DEF ClockInv, Unread, LastRead, portVars
  <2> QED
    BY <2>1, <2>2, <2>3 DEF ClockInv, TaskRuns, Setting
<1> QED
    BY <1>1, <1>2, <1>3

\* What happens to the lists alone.
LEMMA QueuesKeepClock ==
    ASSUME TypeOK, ClockInv, queue' \in [Lists -> SUBSET Time],
           UNCHANGED <<time, compare, pending, rearms, portVars, at, now, tick, spent>>
    PROVE  TypeOK' /\ ClockInv'
<1>1. TypeOK'
    BY DEF TypeOK, portVars
<1> QED
    BY <1>1 DEF ClockInv, TaskRuns, Ahead, counter, Unread, LastRead, portVars

LEMMA ClockStarts == Init => TypeOK /\ ClockInv
<1> SUFFICES ASSUME Init PROVE TypeOK /\ ClockInv
    OBVIOUS
<1>0. /\ CounterRange \in Nat \ {0} /\ MAX_PERIOD \in Nat \ {0} /\ Latency \in Nat
      /\ CounterRange = 2 * MAX_PERIOD /\ Rounds \in Nat \ {0} /\ TimeRange \in Nat \ {0}
      /\ CounterRange <= TimeRange
    BY Ranges
<1>1. 0 \in Time /\ 0 \in 0..Rounds - 1
    BY <1>0 DEF Time
<1>2. TypeOK
  <2>1. MAX_PERIOD \in 0..CounterRange - 1 /\ 0 \in 0..CounterRange - 1 /\ 0 \in 0..Latency
    BY <1>0
  <2> QED
    BY <1>1, <2>1 DEF Init, TypeOK
<1>3. LastRead = time
    BY <1>0 DEF Init, LastRead
<1>4. Unread = 0
    BY <1>1, <1>3, NoTicks DEF Unread, Init
<1>5. Ahead = MAX_PERIOD
  <2>1. counter = 0
    <3>1. 0 \in -CounterRange .. 2 * CounterRange - 1 /\ 0 \in 0..CounterRange - 1
        BY <1>0
    <3> QED
        BY <3>1, WrapCounter DEF counter, Init
  <2>2. MAX_PERIOD \in 0..CounterRange - 1 /\ MAX_PERIOD >= 0 /\ MAX_PERIOD - 0 = MAX_PERIOD /\ 0 \in 0..CounterRange - 1
    BY <1>0
  <2>3. (MAX_PERIOD - 0) % CounterRange = MAX_PERIOD - 0
    BY <2>2, GapOf
  <2> QED
    BY <2>1, <2>2, <2>3 DEF Ahead, Init
<1> QED
    BY <1>0, <1>2, <1>4, <1>5 DEF ClockInv, Init, Setting

LEMMA ClockStep ==
    ASSUME TypeOK, ClockInv, [Next]_vars
    PROVE  TypeOK' /\ ClockInv'
<1>1. CASE Advance
    BY <1>1, AdvanceKeepsClock
<1>2. CASE Read
    BY <1>2, ReadKeepsClock
<1>3. ASSUME NEW delay \in 1..MaxDelay, gyros__task_set_timeout(Later(delay))
      PROVE  TypeOK' /\ ClockInv'
  <2>1. Later(delay) \in Time /\ "timeouts" \in Lists /\ Runs /\ Queue("timeouts", Later(delay))
    BY <1>3, LaterIsTime DEF gyros__task_set_timeout, Runs, Lists
  <2>2. Updates
    BY <2>1, QueueUpdates
  <2> QED
    BY <2>2, UpdatesKeepClock
<1>4. ASSUME NEW delay \in 0..MaxDelay, gyros_timer_start(Later(delay))
      PROVE  TypeOK' /\ ClockInv'
  <2>1. Later(delay) \in Time /\ "timers" \in Lists /\ Runs /\ Queue("timers", Later(delay))
    BY <1>4, LaterIsTime DEF gyros_timer_start, Runs, Lists
  <2>2. Updates
    BY <2>1, QueueUpdates
  <2> QED
    BY <2>2, UpdatesKeepClock
<1>5. ASSUME NEW l \in Lists, NEW d \in Queued, Forget(l, d)
      PROVE  TypeOK' /\ ClockInv'
  <2>1. queue' = [queue EXCEPT ![l] = @ \ {d}]
    BY <1>5 DEF Forget
  <2>2. queue' \in [Lists -> SUBSET Time]
    BY <2>1 DEF TypeOK
  <2> QED
    BY <1>5, <2>2, QueuesKeepClock DEF Forget
<1>6. ASSUME NEW d \in Queued, gyros_alarm_clock_reset(d)
      PROVE  TypeOK' /\ ClockInv'
    BY <1>6, ResetUpdates, UpdatesKeepClock
<1>7. CASE gyros__dyntick_set
    BY <1>7, DyntickSetKeepsClock
<1>8. CASE Check
    BY <1>8, CheckKeepsClock
<1>9. CASE ForceInterrupt
    BY <1>9, ForceKeepsClock
<1>10. CASE TIMER_ISR \/ gyros__tick \/ TickEnd
    BY <1>10, InterruptKeepsClock
<1>11. CASE gyros__tick_timer
  <2>1. PICK d \in queue["timers"], period \in Periods :
            queue' = [queue EXCEPT !["timers"] =
               (@ \ {d}) \cup (IF period = 0 THEN {} ELSE {(d + period) % TimeRange})]
    BY <1>11 DEF gyros__tick_timer
  <2>2. (d + period) % TimeRange \in Time
    <3>1. PICK n \in Int : n = d + period
        BY Ranges, DynTickAssumption DEF TypeOK, Time, Lists
    <3>2. n % TimeRange \in 0..TimeRange - 1
        BY Ranges, DivisionFacts
    <3> QED
        BY <3>1, <3>2 DEF Time
  <2>3. "timers" \in Lists
    BY DEF Lists
  <2>4. queue' \in [Lists -> SUBSET Time]
    BY <2>1, <2>2, <2>3 DEF TypeOK
  <2> QED
    BY <1>11, <2>4, QueuesKeepClock DEF gyros__tick_timer
<1>12. CASE UNCHANGED vars
  <2>1. queue' \in [Lists -> SUBSET Time]
    BY <1>12 DEF vars, TypeOK
  <2> QED
    BY <1>12, <2>1, QueuesKeepClock DEF vars
<1> QED
    BY <1>1, <1>2, <1>3, <1>4, <1>5, <1>6, <1>7, <1>8, <1>9, <1>10, <1>11, <1>12 DEF Next

\* A match or a pending interrupt always comes before the counter has gone
\* round since the clock was read (gyros__dyntick_set, gyros_time).
THEOREM ClockAlwaysRead == Spec => [](TypeOK /\ ClockInv)
<1>1. Init => TypeOK /\ ClockInv
    BY ClockStarts
<1>2. TypeOK /\ ClockInv /\ [Next]_vars => TypeOK' /\ ClockInv'
    BY ClockStep
<1> QED
    BY <1>1, <1>2, PTL DEF Spec

\* gyros_time never misses a wrap of the counter.
THEOREM ClockAlwaysAccurate == Spec => []ClockAccurate
<1>1. TypeOK /\ ClockInv => ClockAccurate
    BY UnreadSmall, ReadsRight DEF ClockAccurate
<1> QED
    BY <1>1, ClockAlwaysRead, PTL

-----------------------------------------------------------------------------
(* Nothing stays queued for long after its time.                           *)

\* How long it is until d; negative when d has passed.
Remaining(d) == Compare(d, time)

\* What is queued is not long ago: while a task runs the next match is late
\* for it by no more than a handler has taken, a pending interrupt by the
\* ticks that have been spent since, and the handler that comes then by those
\* that it takes itself.
InTime(d) ==
    /\ Remaining(d) <= MaxDelay
    /\ TaskRuns => Ahead <= Remaining(d) + Latency
    /\ at # "tick" /\ tick = None => Remaining(d) + Latency + spent >= 0
    /\ Remaining(d) + 2 * Latency + spent >= 0

\* compare has been set to the earliest time, which is near.
AtEarliest ==
    \E f \in Queued : /\ compare = f % CounterRange /\ Remaining(f) <= Near
                      /\ \A d \in Queued : Remaining(f) <= Remaining(d)

QueuesInv ==
    /\ tick # None => \A d \in queue["timeouts"] : Compare(d, tick) > 0
    /\ ~rearms => /\ \A d \in Queued : InTime(d)
                  /\ at = "check" => AtEarliest

\* Differences of times that are near each other add up.
LEMMA CompareChain ==
    ASSUME NEW a \in Time, NEW b \in Time, NEW c \in Time,
           Compare(a, b) - Compare(c, b) \in -Half .. Half - 1
    PROVE  Compare(a, c) = Compare(a, b) - Compare(c, b)
<1>0. Half \in Nat \ {0} /\ TimeRange \in Nat \ {0} /\ a \in Int /\ b \in Int /\ c \in Int
    BY Ranges DEF Time
<1>1. PICK x \in Int : x = Compare(a, b) /\ a = (b + x) % TimeRange
  <2>1. Compare(a, b) \in Int /\ a = (b + Compare(a, b)) % TimeRange
    BY <1>0, CompareBack
  <2> QED
    BY <2>1, Zenon
<1>2. PICK y \in Int : y = Compare(c, b) /\ c = (b + y) % TimeRange
  <2>1. Compare(c, b) \in Int /\ c = (b + Compare(c, b)) % TimeRange
    BY <1>0, CompareBack
  <2> QED
    BY <2>1, Zenon
<1>3. PICK z \in -Half .. Half - 1 : z = x - y
    BY <1>1, <1>2
<1>4. PICK u \in Int : u = b + y
    BY <1>0
<1>5. ((u % TimeRange) + z) % TimeRange = (u + z) % TimeRange
  <2>1. z \in Int
    BY <1>0
  <2> QED
    BY <1>0, <2>1, AddToRemainder
<1>6. u + z = b + x
    BY <1>0, <1>3, <1>4
<1>7. a = (c + z) % TimeRange
    BY <1>1, <1>2, <1>4, <1>5, <1>6
<1>8. Compare((c + z) % TimeRange, c) = z
    BY CompareOf
<1> QED
    BY <1>1, <1>2, <1>3, <1>7, <1>8

\* Times that are queued can be compared with each other and the clock.
LEMMA CompareNear ==
    ASSUME NEW a \in Time, NEW b \in Time, NEW c \in Time,
           Compare(a, b) \in -3 * Latency .. MaxDelay, Compare(c, b) \in -3 * Latency .. MaxDelay
    PROVE  Compare(a, c) = Compare(a, b) - Compare(c, b)
<1>1. Compare(a, b) - Compare(c, b) \in -Half .. Half - 1
    BY Ranges
<1> QED
    BY <1>1, CompareChain

LEMMA CompareTicks ==
    ASSUME NEW a \in Time, NEW b \in Time, Ticks(a, b) <= Latency
    PROVE  Compare(a, b) = -Ticks(a, b) /\ Ticks(a, b) \in 0..Latency
<1>0. Latency \in Nat /\ Half \in Nat /\ TimeRange \in Nat \ {0} /\ 3 * Latency < Half /\ a \in Int /\ MaxDelay \in Nat
    BY Ranges DEF Time
<1>1. PICK s \in 0..Latency : s = Ticks(a, b) /\ b = (a + s) % TimeRange
  <2>1. Ticks(a, b) \in 0..Latency /\ b = (a + Ticks(a, b)) % TimeRange
    BY <1>0, TicksBack
  <2> QED
    BY <2>1, Zenon
<1>2. s \in -Half .. Half - 1 /\ 0 \in -Half .. Half - 1 /\ 0 - s \in -Half .. Half - 1
    BY <1>0
<1>3. Compare(b, a) = s
    BY <1>1, <1>2, CompareOf
<1>4. Compare(a, a) = 0
  <2>1. a + 0 = a /\ a % TimeRange = a
    BY <1>0, WrapTime DEF Time
  <2>2. Compare((a + 0) % TimeRange, a) = 0
    BY <1>2, CompareOf
  <2> QED
    BY <2>1, <2>2
<1>5. Compare(a, b) = Compare(a, a) - Compare(b, a)
    BY <1>2, <1>3, <1>4, CompareChain
<1> QED
    BY <1>1, <1>3, <1>4, <1>5

\* How far the counter is from the place of a time.
LEMMA GapTo ==
    ASSUME NEW t \in Time, NEW f \in Time, NEW x \in -CounterRange + 1 .. CounterRange - 1,
           Compare(f, t) = x
    PROVE  ((f % CounterRange) - (t % CounterRange)) % CounterRange
               = IF x >= 0 THEN x ELSE x + CounterRange
<1>0. CounterRange \in Nat \ {0} /\ TimeRange \in Nat \ {0} /\ t \in Int /\ x \in Int
    BY Ranges DEF Time
<1>1. f = (t + x) % TimeRange
    BY <1>0, CompareBack
<1>2. PICK c \in Int : c = t % CounterRange
  <2>1. t % CounterRange \in Int
    BY <1>0, DivisionFacts
  <2> QED
    BY <2>1, Zenon
<1>3. f % CounterRange = (c + x) % CounterRange
  <2>1. ((t + x) % TimeRange) % CounterRange = ((t % CounterRange) + x) % CounterRange
    BY <1>0, CounterMoves
  <2> QED
    BY <1>1, <1>2, <2>1
<1>4. c % CounterRange = c
  <2>1. c \in 0..CounterRange - 1
    BY <1>0, <1>2, DivisionFacts
  <2>2. c \in -CounterRange .. 2 * CounterRange - 1
    BY <1>0, <2>1
  <2> QED
    BY <2>1, <2>2, WrapCounter
<1>5. /\ (((c + x) % CounterRange) - ((c + 0) % CounterRange)) % CounterRange = (x - 0) % CounterRange
      /\ c + 0 = c /\ x - 0 = x
  <2>1. x \in Int /\ 0 \in Int /\ c \in Int
    BY <1>0
  <2>2. (((c + x) % CounterRange) - ((c + 0) % CounterRange)) % CounterRange = (x - 0) % CounterRange
    BY <2>1, GapBetween
  <2>3. c + 0 = c /\ x - 0 = x
    BY <2>1
  <2> QED
    BY <2>2, <2>3
<1>6. ((f % CounterRange) - (t % CounterRange)) % CounterRange = x % CounterRange
    BY <1>2, <1>3, <1>4, <1>5
<1>7. x \in -CounterRange .. 2 * CounterRange - 1
    BY <1>0
<1> QED
    BY <1>0, <1>6, <1>7, WrapCounter

\* A match that is set for a time and still to come comes at that time.
LEMMA MatchAtTime ==
    ASSUME NEW t \in Time, NEW f \in Time, Compare(f, t) \in -3 * Latency .. MAX_PERIOD,
           ((f % CounterRange) - (t % CounterRange)) % CounterRange \in 1..MAX_PERIOD
    PROVE  Compare(f, t) = ((f % CounterRange) - (t % CounterRange)) % CounterRange
<1>1. /\ CounterRange \in Nat /\ CounterRange = 2 * MAX_PERIOD /\ MAX_PERIOD \in Nat
      /\ Latency \in Nat /\ 3 * Latency < MAX_PERIOD
    BY Ranges
<1>2. PICK x \in -CounterRange + 1 .. CounterRange - 1 : x = Compare(f, t)
    BY <1>1
<1>3. ((f % CounterRange) - (t % CounterRange)) % CounterRange
          = IF x >= 0 THEN x ELSE x + CounterRange
    BY <1>2, GapTo
<1> QED
    BY <1>1, <1>2, <1>3

\* What the invariant says of every time that is queued.
LEMMA RemainingOf ==
    ASSUME TypeOK, QueuesInv, ~rearms, NEW d \in Queued
    PROVE  d \in Time /\ Remaining(d) \in -3 * Latency .. MaxDelay /\ InTime(d)
<1>1. d \in Time /\ time \in Time /\ spent \in 0..Latency
    BY DEF TypeOK, Queued, Lists
<1>2. Remaining(d) \in Int
    BY <1>1, CompareBack, Ranges DEF Remaining
<1>3. InTime(d)
    BY DEF QueuesInv
<1> QED
    BY <1>1, <1>2, <1>3, Ranges DEF InTime

\* How long it is until d, seen from a tick or an update that has begun.
LEMMA RemainingFrom ==
    ASSUME TypeOK, NEW d \in Time, Remaining(d) \in -3 * Latency .. MaxDelay,
           NEW t \in Time, Ticks(t, time) <= spent
    PROVE  /\ Compare(d, t) = Remaining(d) + Ticks(t, time)
           /\ Ticks(t, time) \in Nat
<1>1. time \in Time /\ spent \in 0..Latency /\ Latency \in Nat /\ MaxDelay \in Nat
    BY Ranges DEF TypeOK
<1>2. Ticks(t, time) \in Nat
    BY <1>1, TicksBack, Ranges
<1>3. Ticks(t, time) <= Latency
    BY <1>1, <1>2
<1>4. Compare(t, time) = -Ticks(t, time)
    BY <1>1, <1>3, CompareTicks
<1>5. Compare(t, time) \in -3 * Latency .. MaxDelay
    BY <1>1, <1>2, <1>3, <1>4
<1>6. Compare(d, t) = Compare(d, time) - Compare(t, time)
    BY <1>1, <1>5, CompareNear DEF Remaining
<1> QED
    BY <1>1, <1>2, <1>4, <1>6 DEF Remaining

LEMMA LeastOf ==
    ASSUME NEW S, S \subseteq Nat, S # {}
    PROVE  \E n \in S : \A m \in S : n <= m
<1>1. \E n \in S : \A m \in S : ~(<<m, n>> \in OpToRel(<, Nat))
    BY NatLessThanWellFounded, WFMin
<1>2. ASSUME NEW n \in Nat, NEW m \in Nat, m < n
      PROVE  <<m, n>> \in OpToRel(<, Nat)
  <2>1. <<m, n>> \in Nat \X Nat /\ <<m, n>>[1] = m /\ <<m, n>>[2] = n
    OBVIOUS
  <2> QED
    BY <1>2, <2>1, Zenon DEF OpToRel
<1>3. \E n \in S : \A m \in S : ~(m < n)
    BY <1>1, <1>2, Zenon
<1> QED
    BY <1>3

\* The head of one list or the other is the earliest time.
LEMMA FirstIsEarliest ==
    ASSUME TypeOK, QueuesInv, ~rearms, Queued # {}
    PROVE  First \in Queued /\ \A d \in Queued : Remaining(First) <= Remaining(d)
<1>0. Latency \in Nat /\ MaxDelay \in Nat /\ time \in Time
    BY Ranges DEF TypeOK
<1>1. \A d \in Queued : d \in Time /\ Remaining(d) \in -3 * Latency .. MaxDelay
    BY RemainingOf
<1>2. \A d, e \in Queued : Compare(d, e) = Remaining(d) - Remaining(e)
    BY <1>0, <1>1, CompareNear DEF Remaining
<1>3. PICK f \in Queued : \A d \in Queued : Remaining(f) <= Remaining(d)
  <2> DEFINE S == {Remaining(d) + 3 * Latency : d \in Queued}
  <2>1. S \subseteq Nat /\ S # {}
    BY <1>0, <1>1
  <2>2. PICK n \in S : \A m \in S : n <= m
    BY <2>1, LeastOf
  <2>3. PICK f \in Queued : n = Remaining(f) + 3 * Latency
    BY <2>2
  <2>4. \A d \in Queued : Remaining(f) + 3 * Latency <= Remaining(d) + 3 * Latency
    BY <2>2, <2>3
  <2> QED
    BY <1>0, <1>1, <2>4
<1>4. Earliest # {}
  <2>1. \A e \in Queued : Compare(f, e) <= 0
    BY <1>1, <1>2, <1>3
  <2> QED
    BY <2>1 DEF Earliest
<1>5. First \in Earliest
  <2>1. \E d \in Queued : Earliest # {} => d \in Earliest
    BY <1>4 DEF Earliest
  <2> QED
    BY <1>4, <2>1 DEF First
<1>6. First \in Queued /\ \A d \in Queued : Compare(First, d) <= 0
    BY <1>5 DEF Earliest
<1> QED
    BY <1>1, <1>2, <1>6

-----------------------------------------------------------------------------
(* Each step keeps what is queued in time.                                 *)

LEMMA AdvanceKeepsQueues ==
    ASSUME TypeOK, ClockInv, QueuesInv, Advance
    PROVE  QueuesInv'
<1>0. /\ Latency \in Nat \ {0} /\ MaxDelay \in Nat /\ Half \in Nat /\ MaxDelay + 3 * Latency < Half
      /\ time \in Time /\ spent \in 0..Latency
    BY Ranges DEF TypeOK
<1>1. /\ time' = Later(1) /\ spent' = (IF TaskRuns THEN 0 ELSE spent + 1)
      /\ pending \in BOOLEAN /\ pending' = (pending \/ time' % CounterRange = compare)
      /\ UNCHANGED <<compare, rearms, portVars, queue, at, now, tick>>
    BY DEF Advance, TypeOK
<1>2. time' \in Time /\ Compare(time', time) = 1
  <2>1. 1 \in Int /\ 1 \in -Half .. Half - 1
    BY <1>0
  <2>2. Later(1) \in Time
    BY <2>1, LaterIsTime
  <2>3. Compare((time + 1) % TimeRange, time) = 1
    BY <1>0, <2>1, CompareOf
  <2> QED
    BY <1>1, <2>2, <2>3 DEF Later
<1>3. ASSUME NEW d \in Time, Remaining(d) \in -3 * Latency .. MaxDelay
      PROVE  Compare(d, time') = Remaining(d) - 1
  <2>1. Compare(d, time) - 1 \in -Half .. Half - 1
    BY <1>0, <1>3 DEF Remaining
  <2> QED
    BY <1>0, <1>2, <2>1, CompareChain DEF Remaining
<1>4. tick' # None => \A d \in queue'["timeouts"] : Compare(d, tick') > 0
    BY <1>1 DEF QueuesInv
<1>5. TaskRuns' => TaskRuns
    BY <1>1 DEF TaskRuns
<1>6. TaskRuns => Ahead' = Ahead - 1 /\ Ahead \in 1..MAX_PERIOD
  <2> SUFFICES ASSUME TaskRuns PROVE Ahead' = Ahead - 1 /\ Ahead \in 1..MAX_PERIOD
    OBVIOUS
  <2>1. Ahead \in 1..MAX_PERIOD /\ compare \in 0..CounterRange - 1 /\ Ahead > 0
    BY Ranges DEF ClockInv, TypeOK
  <2>2. counter \in 0..CounterRange - 1
    BY UnreadSmall, ReadsRight
  <2>3. counter' = (counter + 1) % CounterRange
    <3>1. time \in Int /\ 1 \in Int
        BY <1>0, Ranges DEF Time
    <3>2. ((time + 1) % TimeRange) % CounterRange = ((time % CounterRange) + 1) % CounterRange
        BY <3>1, CounterMoves
    <3> QED
        BY <1>1, <3>2 DEF Later, counter
  <2>4. (compare - ((counter + 1) % CounterRange)) % CounterRange = ((compare - counter) % CounterRange) - 1
    BY <2>1, <2>2, GapTick DEF Ahead
  <2> QED
    BY <1>1, <2>1, <2>3, <2>4 DEF Ahead
<1>7. ASSUME ~rearms, NEW d \in Queued
      PROVE  /\ Remaining(d)' = Remaining(d) - 1 /\ Remaining(d) \in Int
             /\ InTime(d)'
  <2>1. d \in Time /\ Remaining(d) \in -3 * Latency .. MaxDelay /\ InTime(d)
    BY <1>7, RemainingOf
  <2>2. Remaining(d)' = Remaining(d) - 1 /\ Remaining(d) \in Int
    BY <1>0, <1>3, <2>1 DEF Remaining
  <2>3. CASE TaskRuns
    <3>1. spent' = 0 /\ Ahead' = Ahead - 1 /\ Ahead \in Int /\ Ahead >= 1 /\ Ahead <= Remaining(d) + Latency
        BY <1>1, <1>6, <2>1, <2>3, Ranges DEF InTime
    <3>2. /\ Remaining(d)' <= MaxDelay
          /\ Ahead' <= Remaining(d)' + Latency
          /\ Remaining(d)' + Latency + spent' >= 0
          /\ Remaining(d)' + 2 * Latency + spent' >= 0
        BY <1>0, <2>1, <2>2, <3>1
    <3> QED
        BY <2>2, <3>2 DEF InTime
  <2>4. CASE ~TaskRuns
    <3>1. spent' = spent + 1 /\ ~TaskRuns'
        BY <1>1, <1>5, <2>4
    <3>2. /\ Remaining(d)' <= MaxDelay
          /\ at' # "tick" /\ tick' = None => Remaining(d)' + Latency + spent' >= 0
          /\ Remaining(d)' + 2 * Latency + spent' >= 0
        BY <1>0, <1>1, <2>1, <2>2, <3>1 DEF InTime
    <3> QED
        BY <2>2, <3>1, <3>2 DEF InTime
  <2> QED
    BY <2>2, <2>3, <2>4
<1>8. Queued' = Queued
    BY <1>1 DEF Queued
<1>9. ASSUME ~rearms, at = "check"
      PROVE  AtEarliest'
  <2>1. PICK f \in Queued : /\ compare = f % CounterRange /\ Remaining(f) <= Near
                            /\ \A d \in Queued : Remaining(f) <= Remaining(d)
    BY <1>9 DEF QueuesInv, AtEarliest
  <2>2. Remaining(f)' <= Near /\ \A d \in Queued : Remaining(f)' <= Remaining(d)'
    BY <1>7, <1>9, <2>1, Ranges
  <2>3. compare' = f % CounterRange /\ f \in Queued'
    BY <1>1, <1>8, <2>1
  <2> QED
    BY <1>8, <2>2, <2>3 DEF AtEarliest
<1>10. /\ \A d \in Queued' : ~rearms' => InTime(d)'
       /\ ~rearms' /\ at' = "check" => AtEarliest'
    BY <1>1, <1>7, <1>8, <1>9
<1> QED
    BY <1>4, <1>10 DEF QueuesInv

\* Reading the clock changes nothing else, and taking times off the lists
\* leaves the others as they were.
LEMMA ShrinkingKeepsQueues ==
    ASSUME TypeOK, QueuesInv, Runs,
           \A l \in Lists : queue'[l] \subseteq queue[l],
           UNCHANGED <<time, compare, pending, rearms, at, tick, spent>>
    PROVE  QueuesInv'
<1>1. Queued' \subseteq Queued /\ queue'["timeouts"] \subseteq queue["timeouts"]
    BY DEF Queued, Lists
<1>2. at' # "check"
    BY DEF Runs, TaskRuns
<1>3. ASSUME ~rearms, NEW d \in Queued'
      PROVE  InTime(d)'
  <2>1. InTime(d)
    BY <1>1, <1>3 DEF QueuesInv
  <2> QED
    BY <2>1 DEF InTime, Remaining, TaskRuns, Ahead, counter
<1> QED
    BY <1>1, <1>2, <1>3 DEF QueuesInv

\* What a call queues is not late, and calls that are made when the time has
\* been read queue no timeout.
LEMMA UpdatesKeepQueues ==
    ASSUME TypeOK, ClockInv, QueuesInv, Updates,
           tick # None => queue'["timeouts"] \subseteq queue["timeouts"],
           \A d \in Queued' : d \in Queued \/ Remaining(d) \in 0..MaxDelay
    PROVE  QueuesInv'
<1>0. Latency \in Nat /\ spent \in 0..Latency /\ MaxDelay \in Nat
    BY Ranges DEF TypeOK
<1>1. /\ Runs /\ at' = "set" /\ UNCHANGED <<time, compare, pending, rearms, tick>>
      /\ spent' = (IF TaskRuns THEN 0 ELSE spent)
      /\ ~TaskRuns' /\ at' # "check" /\ at' # "tick"
    BY DEF Updates, Start, TaskRuns
<1>2. TaskRuns \/ tick # None
    BY <1>1 DEF Runs, TypeOK
<1>3. ASSUME ~rearms, NEW d \in Queued'
      PROVE  InTime(d)'
  <2>1. CASE d \in Queued
    <3>1. InTime(d) /\ Remaining(d) \in Int
        BY <1>0, <1>3, <2>1, RemainingOf
    <3>2. CASE TaskRuns
      <4>1. Ahead \in Nat /\ Ahead <= Remaining(d) + Latency
        BY <3>1, <3>2, Ranges DEF InTime, ClockInv
      <4>2. Remaining(d)' = Remaining(d) /\ spent' = 0
        BY <1>1, <3>2 DEF Remaining
      <4> QED
        BY <1>0, <1>1, <3>1, <4>1, <4>2 DEF InTime
    <3>3. CASE ~TaskRuns
      <4>1. Remaining(d)' = Remaining(d) /\ spent' = spent /\ tick' # None
        BY <1>1, <1>2, <3>3 DEF Remaining
      <4> QED
        BY <1>1, <3>1, <4>1 DEF InTime
    <3> QED
        BY <3>2, <3>3
  <2>2. CASE Remaining(d) \in 0..MaxDelay
    <3>1. Remaining(d)' = Remaining(d) /\ spent' \in Nat
        BY <1>0, <1>1 DEF Remaining
    <3> QED
        BY <1>0, <1>1, <2>2, <3>1 DEF InTime
  <2> QED
    BY <1>3, <2>1, <2>2
<1>4. tick' # None => \A d \in queue'["timeouts"] : Compare(d, tick') > 0
    BY <1>1 DEF QueuesInv
<1> QED
    BY <1>1, <1>3, <1>4 DEF QueuesInv

\* What is queued with a delay is that far away.
LEMMA RemainingLater ==
    ASSUME TypeOK, NEW delay \in 0..MaxDelay
    PROVE  Remaining(Later(delay)) = delay
<1>1. time \in Time /\ delay \in -Half .. Half - 1
    BY Ranges DEF TypeOK
<1>2. Compare((time + delay) % TimeRange, time) = delay
    BY <1>1, CompareOf
<1> QED
    BY <1>2 DEF Remaining, Later

LEMMA QueueKeepsQueues ==
    ASSUME TypeOK, ClockInv, QueuesInv, NEW l \in Lists, NEW delay \in 0..MaxDelay, Runs,
           l = "timeouts" => TaskRuns, Queue(l, Later(delay))
    PROVE  QueuesInv'
<1>1. delay \in Int /\ Later(delay) \in Time
    BY LaterIsTime, Ranges
<1>2. Updates
    BY <1>1, QueueUpdates
<1>3. queue' = [queue EXCEPT ![l] = @ \cup {Later(delay)}] /\ queue \in [Lists -> SUBSET Time]
    BY DEF Queue, TypeOK
<1>4. \A d \in Queued' : d \in Queued \/ d = Later(delay)
    BY <1>3 DEF Queued, Lists
<1>5. \A d \in Queued' : d \in Queued \/ Remaining(d) \in 0..MaxDelay
    BY <1>4, RemainingLater
<1>6. tick # None => queue'["timeouts"] = queue["timeouts"]
  <2>1. tick # None => l # "timeouts"
    BY DEF TypeOK, TaskRuns
  <2> QED
    BY <1>3, <2>1 DEF Lists
<1> QED
    BY <1>2, <1>5, <1>6, UpdatesKeepQueues

LEMMA ResetKeepsQueues ==
    ASSUME TypeOK, ClockInv, QueuesInv, NEW d, gyros_alarm_clock_reset(d)
    PROVE  QueuesInv'
<1>1. Updates
    BY ResetUpdates
<1>2. queue' = [queue EXCEPT !["timeouts"] = @ \ {d}] /\ queue \in [Lists -> SUBSET Time]
    BY DEF gyros_alarm_clock_reset, TypeOK
<1>3. Queued' \subseteq Queued /\ queue'["timeouts"] \subseteq queue["timeouts"]
    BY <1>2 DEF Queued, Lists
<1> QED
    BY <1>1, <1>3, UpdatesKeepQueues

\* A pending interrupt is taken late by the ticks that have been spent, and
\* its handler reads the clock anew.
LEMMA IsrKeepsQueues ==
    ASSUME TypeOK, ClockInv, QueuesInv, TIMER_ISR
    PROVE  QueuesInv'
<1>0. Latency \in Nat /\ spent \in 0..Latency
    BY Ranges DEF TypeOK
<1>1. /\ at = "idle" /\ at' = "tick" /\ spent' = 0 /\ tick = None
      /\ UNCHANGED <<time, rearms, queue, tick>>
    BY DEF TIMER_ISR, TypeOK
<1>2. Queued' = Queued
    BY <1>1 DEF Queued
<1>3. ASSUME ~rearms, NEW d \in Queued
      PROVE  InTime(d)'
  <2>1. InTime(d) /\ Remaining(d) \in Int
    BY <1>0, <1>3, RemainingOf
  <2>2. Remaining(d)' = Remaining(d) /\ ~TaskRuns'
    BY <1>1 DEF Remaining, TaskRuns
  <2> QED
    BY <1>0, <1>1, <2>1, <2>2 DEF InTime
<1> QED
    BY <1>1, <1>2, <1>3 DEF QueuesInv

\* gyros__tick takes off the timeouts that have been reached.
LEMMA TickKeepsQueues ==
    ASSUME TypeOK, ClockInv, QueuesInv, gyros__tick
    PROVE  QueuesInv'
<1>0. gyros_time = time /\ time \in Time /\ time # None
    BY UnreadSmall, ReadsRight DEF TypeOK, Time, None
<1>1. /\ at = "tick" /\ at' = "walk" /\ tick' = time
      /\ queue' = [queue EXCEPT !["timeouts"] = {d \in @ : ~Reached(d, time)}]
      /\ UNCHANGED <<time, compare, pending, rearms, now, spent>>
    BY <1>0 DEF gyros__tick
<1>2. queue \in [Lists -> SUBSET Time]
    BY DEF TypeOK
<1>3. queue'["timeouts"] = {d \in queue["timeouts"] : ~Reached(d, time)} /\ Queued' \subseteq Queued
    BY <1>1, <1>2 DEF Queued, Lists
<1>4. \A d \in queue'["timeouts"] : Compare(d, tick') > 0
  <2> SUFFICES ASSUME NEW d \in queue'["timeouts"] PROVE Compare(d, time) > 0
    BY <1>1
  <2>1. d \in Time /\ ~(Compare(d, time) <= 0)
    BY <1>2, <1>3 DEF Reached, Lists
  <2>2. Compare(d, time) \in Int
    BY <1>0, <2>1, CompareBack, Ranges
  <2> QED
    BY <2>1, <2>2
<1>5. ASSUME ~rearms, NEW d \in Queued'
      PROVE  InTime(d)'
  <2>1. InTime(d)
    BY <1>3, <1>5 DEF QueuesInv
  <2>2. Remaining(d)' = Remaining(d) /\ ~TaskRuns' /\ tick' # None
    BY <1>0, <1>1 DEF Remaining, TaskRuns
  <2> QED
    BY <1>1, <2>1, <2>2 DEF InTime
<1> QED
    BY <1>1, <1>4, <1>5 DEF QueuesInv

\* A timer that has been reached is moved on by no more than the longest delay.
LEMMA TickTimerKeepsQueues ==
    ASSUME TypeOK, ClockInv, QueuesInv, gyros__tick_timer
    PROVE  QueuesInv'
<1>0. /\ Latency \in Nat /\ MaxDelay \in Nat /\ Half \in Nat /\ MaxDelay + 3 * Latency < Half
      /\ time \in Time /\ time \in Int /\ TimeRange \in Nat \ {0}
    BY Ranges DEF TypeOK, Time
<1>1. /\ at = "walk" /\ tick # None /\ tick \in Time /\ Ticks(tick, time) <= spent /\ ~TaskRuns'
      /\ UNCHANGED <<time, compare, pending, rearms, at, now, tick, spent>>
    BY DEF gyros__tick_timer, TypeOK, ClockInv, TaskRuns
<1>2. PICK d \in queue["timers"], period \in Periods :
        /\ Reached(d, tick)
        /\ queue' = [queue EXCEPT !["timers"] =
               (@ \ {d}) \cup (IF period = 0 THEN {} ELSE {(d + period) % TimeRange})]
    BY DEF gyros__tick_timer
<1>3. period \in 0..MaxDelay /\ period \in Int
    BY DynTickAssumption
<1>4. queue \in [Lists -> SUBSET Time]
    BY DEF TypeOK
<1>5. /\ queue'["timeouts"] = queue["timeouts"]
      /\ \A e \in Queued' : e \in Queued \/ e = (d + period) % TimeRange
    BY <1>2, <1>4 DEF Queued, Lists
<1>6. ASSUME ~rearms
      PROVE  InTime((d + period) % TimeRange)'
  <2>1. d \in Time /\ d \in Queued /\ d \in Int
    BY <1>0, <1>4 DEF Queued, Lists, Time
  <2>2. PICK r \in Int : r = Remaining(d) /\ r \in -3 * Latency .. MaxDelay
    <3>1. Remaining(d) \in Int /\ Remaining(d) \in -3 * Latency .. MaxDelay
        BY <1>0, <1>6, <2>1, RemainingOf
    <3> QED
        BY <3>1, Zenon
  <2>3. r <= 0
    <3>1. Compare(d, tick) = Remaining(d) + Ticks(tick, time) /\ Ticks(tick, time) \in Nat
        BY <1>1, <2>1, <2>2, RemainingFrom
    <3> QED
        BY <1>2, <2>2, <3>1 DEF Reached
  <2>4. d = (time + r) % TimeRange
    BY <1>0, <2>1, <2>2, CompareBack DEF Remaining
  <2>5. PICK u \in Int : u = time + r
    BY <1>0, <2>2
  <2>6. ((u % TimeRange) + period) % TimeRange = (u + period) % TimeRange
    BY <1>0, <1>3, AddToRemainder
  <2>7. PICK x \in -Half .. Half - 1 : x = r + period /\ x <= MaxDelay /\ x >= r /\ x \in Int
    BY <1>0, <1>3, <2>2, <2>3
  <2>8. u + period = time + x
    BY <1>0, <1>3, <2>2, <2>5, <2>7
  <2>9. (d + period) % TimeRange = (time + x) % TimeRange
    BY <2>4, <2>5, <2>6, <2>8
  <2>10. Compare((time + x) % TimeRange, time) = x
    BY <1>0, CompareOf
  <2>11. Compare((d + period) % TimeRange, time') = x
    BY <1>1, <2>9, <2>10
  <2>12. r + 2 * Latency + spent >= 0 /\ spent \in Nat
    BY <1>0, <1>6, <2>1, <2>2, RemainingOf DEF InTime, TypeOK
  <2>13. x <= MaxDelay /\ x + 2 * Latency + spent' >= 0
    BY <1>0, <1>1, <2>2, <2>7, <2>12
  <2> QED
    BY <1>1, <2>11, <2>13 DEF InTime, Remaining
<1>7. ASSUME ~rearms, NEW e \in Queued
      PROVE  InTime(e)'
  <2>1. InTime(e)
    BY <1>7 DEF QueuesInv
  <2> QED
    BY <1>1, <2>1 DEF InTime, Remaining
<1>8. \A e \in Queued' : ~rearms' => InTime(e)'
    BY <1>1, <1>5, <1>6, <1>7
<1>9. tick' # None => \A e \in queue'["timeouts"] : Compare(e, tick') > 0
    BY <1>1, <1>5 DEF QueuesInv
<1> QED
    BY <1>1, <1>8, <1>9 DEF QueuesInv

\* When gyros__tick returns nothing is queued that had been reached when it
\* began.
LEMMA TickEndKeepsQueues ==
    ASSUME TypeOK, ClockInv, QueuesInv, TickEnd
    PROVE  QueuesInv'
<1>0. Latency \in Nat /\ spent \in 0..Latency /\ MaxDelay \in Nat
    BY Ranges DEF TypeOK
<1>1. /\ at = "walk" /\ at' = "set" /\ tick' = None /\ tick # None /\ tick \in Time
      /\ Ticks(tick, time) <= spent
      /\ UNCHANGED <<time, compare, pending, rearms, queue, spent>>
      /\ \A d \in queue["timers"] : ~Reached(d, tick)
    BY DEF TickEnd, TypeOK, ClockInv
<1>2. Queued' = Queued
    BY <1>1 DEF Queued
<1>3. ASSUME ~rearms, NEW d \in Queued
      PROVE  InTime(d)'
  <2>1. d \in Time /\ InTime(d) /\ Remaining(d) \in -3 * Latency .. MaxDelay
    BY <1>3, RemainingOf
  <2>2. Compare(d, tick) = Remaining(d) + Ticks(tick, time) /\ Ticks(tick, time) \in Nat
    BY <1>1, <2>1, RemainingFrom
  <2>3. Compare(d, tick) > 0
    <3>1. d \in queue["timeouts"] => Compare(d, tick) > 0
        BY <1>1 DEF QueuesInv
    <3>2. d \in queue["timers"] => ~(Compare(d, tick) <= 0)
        BY <1>1 DEF Reached
    <3>3. Compare(d, tick) \in Int
        BY <1>0, <2>1, <2>2
    <3> QED
        BY <3>1, <3>2, <3>3 DEF Queued
  <2>4. Remaining(d) + Latency + spent >= 0
    BY <1>0, <1>1, <2>1, <2>2, <2>3
  <2>5. Remaining(d)' = Remaining(d) /\ ~TaskRuns'
    BY <1>1 DEF Remaining, TaskRuns
  <2> QED
    BY <1>0, <1>1, <2>1, <2>4, <2>5 DEF InTime
<1> QED
    BY <1>1, <1>2, <1>3 DEF QueuesInv

\* compare is set for the earliest time, or less far ahead.
LEMMA DyntickSetKeepsQueues ==
    ASSUME TypeOK, ClockInv, QueuesInv, gyros__dyntick_set, TypeOK', ClockInv'
    PROVE  QueuesInv'
<1>0. /\ Latency \in Nat /\ spent \in 0..Latency /\ MaxDelay \in Nat /\ MAX_PERIOD \in Nat
      /\ Near \in Nat /\ Near <= MAX_PERIOD /\ time \in Time
    BY Ranges DEF TypeOK
<1>1. /\ UNCHANGED <<time, pending, rearms, queue, now, tick, spent>>
      /\ at = "set" /\ at' \in {"check", "walk", "idle"}
      /\ compare' = (IF Far THEN last_lo + MAX_PERIOD ELSE First) % CounterRange
      /\ at' = "check" => ~Far /\ Compare(First, now) < Near
      /\ now \in Time /\ Ticks(now, time) <= spent
    BY DEF gyros__dyntick_set, Leave, TypeOK, ClockInv, Setting
<1>2. Queued' = Queued /\ counter' = counter
    BY <1>1 DEF Queued, counter
<1>3. tick' # None => \A d \in queue'["timeouts"] : Compare(d, tick') > 0
    BY <1>1 DEF QueuesInv
<1>4. CASE rearms
    BY <1>1, <1>3, <1>4 DEF QueuesInv
<1>5. CASE ~rearms /\ Queued = {}
  <2>1. at' # "check"
    BY <1>1, <1>5 DEF Far
  <2> QED
    BY <1>1, <1>2, <1>3, <1>5, <2>1 DEF QueuesInv
<1>6. CASE ~rearms /\ Queued # {}
  <2>1. First \in Queued /\ \A d \in Queued : Remaining(First) <= Remaining(d)
    BY <1>6, FirstIsEarliest
  <2>2. First \in Time /\ Remaining(First) \in -3 * Latency .. MaxDelay
    BY <1>6, <2>1, RemainingOf
  <2>3. /\ Compare(First, now) = Remaining(First) + Ticks(now, time)
        /\ Ticks(now, time) \in 0..Latency /\ Remaining(First) \in Int
    BY <1>0, <1>1, <2>2, RemainingFrom
  <2>4. TaskRuns' => Ahead' <= Remaining(First) + Latency
    <3> SUFFICES ASSUME TaskRuns' PROVE Ahead' <= Remaining(First) + Latency
        OBVIOUS
    <3>1. Ahead' \in 1..MAX_PERIOD
        BY DEF ClockInv
    <3>2. CASE Far
      <4>1. Compare(First, now) >= MAX_PERIOD
        BY <1>6, <3>2 DEF Far
      <4> QED
        BY <1>0, <2>3, <3>1, <4>1
    <3>3. CASE ~Far
      <4>1. Compare(First, now) < MAX_PERIOD
        BY <1>0, <1>6, <2>3, <3>3 DEF Far
      <4>2. Compare(First, time) \in -3 * Latency .. MAX_PERIOD
        BY <1>0, <2>2, <2>3, <4>1 DEF Remaining
      <4>3. Ahead' = ((First % CounterRange) - (time % CounterRange)) % CounterRange
        BY <1>1, <1>2, <3>3 DEF Ahead, counter
      <4>4. Compare(First, time) = Ahead'
        BY <1>0, <2>2, <3>1, <4>2, <4>3, MatchAtTime
      <4>5. Ahead' = Remaining(First) /\ Remaining(First) + 0 <= Remaining(First) + Latency
        BY <1>0, <2>3, <4>4 DEF Remaining
      <4> QED
        BY <2>3, <4>5
    <3> QED
        BY <3>2, <3>3
  <2>5. ASSUME NEW d \in Queued
        PROVE  InTime(d)'
    <3>1. InTime(d) /\ Remaining(d) \in Int /\ Remaining(First) <= Remaining(d)
        BY <1>0, <1>6, <2>1, RemainingOf
    <3>2. Remaining(d)' = Remaining(d)
        BY <1>1 DEF Remaining
    <3>3. TaskRuns' => Ahead' <= Remaining(d) + Latency
      <4>1. TaskRuns' => Ahead' \in Int
        BY Ranges DEF ClockInv
      <4> QED
        BY <1>0, <2>3, <2>4, <3>1, <4>1
    <3> QED
        BY <1>1, <3>1, <3>2, <3>3 DEF InTime
  <2>6. at' = "check" => AtEarliest'
    <3> SUFFICES ASSUME at' = "check" PROVE AtEarliest'
        OBVIOUS
    <3>1. compare' = First % CounterRange /\ Compare(First, now) < Near
        BY <1>1
    <3>2. Remaining(First) <= Near
        BY <1>0, <2>3, <3>1
    <3>3. \A d : Remaining(d)' = Remaining(d)
        BY <1>1 DEF Remaining
    <3> QED
        BY <1>2, <2>1, <3>1, <3>2, <3>3 DEF AtEarliest
  <2> QED
    BY <1>1, <1>2, <1>3, <2>5, <2>6 DEF QueuesInv
<1> QED
    BY <1>4, <1>5, <1>6

\* A match that the counter has passed already is not waited for.
LEMMA CheckKeepsQueues ==
    ASSUME TypeOK, ClockInv, QueuesInv, Check, TypeOK', ClockInv'
    PROVE  QueuesInv'
<1>0. /\ Latency \in Nat /\ MaxDelay \in Nat /\ MAX_PERIOD \in Nat
      /\ Near \in Nat /\ Near <= MAX_PERIOD /\ time \in Time
    BY Ranges DEF TypeOK
<1>1. /\ UNCHANGED <<time, compare, rearms, queue, now, tick, spent>>
      /\ at = "check" /\ at' \in {"force", "walk", "idle"}
    BY DEF Check, Leave
<1>2. Queued' = Queued /\ Ahead' = Ahead
    BY <1>1 DEF Queued, Ahead, counter
<1>3. tick' # None => \A d \in queue'["timeouts"] : Compare(d, tick') > 0
    BY <1>1 DEF QueuesInv
<1>4. ASSUME ~rearms, NEW d \in Queued
      PROVE  InTime(d)'
  <2>1. InTime(d) /\ Remaining(d) \in Int
    BY <1>0, <1>4, RemainingOf
  <2>2. Remaining(d)' = Remaining(d)
    BY <1>1 DEF Remaining
  <2>3. TaskRuns' => Ahead' <= Remaining(d) + Latency
    <3> SUFFICES ASSUME TaskRuns' PROVE Ahead' <= Remaining(d) + Latency
        OBVIOUS
    <3>1. PICK f \in Queued : /\ compare = f % CounterRange /\ Remaining(f) <= Near
                              /\ \A e \in Queued : Remaining(f) <= Remaining(e)
        BY <1>1, <1>4 DEF QueuesInv, AtEarliest
    <3>2. f \in Time /\ Remaining(f) \in Int /\ Remaining(f) \in -3 * Latency .. MAX_PERIOD
        BY <1>0, <1>4, <3>1, RemainingOf
    <3>3. Ahead' \in 1..MAX_PERIOD
        BY DEF ClockInv
    <3>4. Ahead' = ((f % CounterRange) - (time % CounterRange)) % CounterRange
        BY <1>2, <3>1 DEF Ahead, counter
    <3>5. Compare(f, time) = Ahead'
        BY <1>0, <3>2, <3>3, <3>4, MatchAtTime DEF Remaining
    <3>6. Remaining(f) = Ahead' /\ Remaining(f) <= Remaining(d)
        BY <1>4, <3>1, <3>5 DEF Remaining
    <3> QED
        BY <1>0, <2>1, <3>2, <3>6
  <2> QED
    BY <1>1, <2>1, <2>2, <2>3 DEF InTime
<1> QED
    BY <1>1, <1>2, <1>3, <1>4 DEF QueuesInv

LEMMA QueuesStep ==
    ASSUME TypeOK, ClockInv, QueuesInv, [Next]_vars, TypeOK', ClockInv'
    PROVE  QueuesInv'
<1>1. CASE Advance
    BY <1>1, AdvanceKeepsQueues
<1>2. CASE Read
    BY <1>2, ShrinkingKeepsQueues DEF Read
<1>3. ASSUME NEW delay \in 1..MaxDelay, gyros__task_set_timeout(Later(delay))
      PROVE  QueuesInv'
  <2>1. /\ delay \in 0..MaxDelay /\ "timeouts" \in Lists /\ Runs /\ TaskRuns
        /\ Queue("timeouts", Later(delay))
    BY <1>3, Ranges DEF gyros__task_set_timeout, Runs, Lists
  <2> QED
    BY <2>1, QueueKeepsQueues
<1>4. ASSUME NEW delay \in 0..MaxDelay, gyros_timer_start(Later(delay))
      PROVE  QueuesInv'
  <2>1. "timers" \in Lists /\ Runs /\ Queue("timers", Later(delay))
    BY <1>4 DEF gyros_timer_start, Lists
  <2> QED
    BY <2>1, QueueKeepsQueues
<1>5. ASSUME NEW l \in Lists, NEW d \in Queued, Forget(l, d)
      PROVE  QueuesInv'
  <2>1. queue' = [queue EXCEPT ![l] = @ \ {d}] /\ queue \in [Lists -> SUBSET Time]
    BY <1>5 DEF Forget, TypeOK
  <2>2. \A k \in Lists : queue'[k] \subseteq queue[k]
    BY <2>1
  <2> QED
    BY <1>5, <2>2, ShrinkingKeepsQueues DEF Forget
<1>6. ASSUME NEW d \in Queued, gyros_alarm_clock_reset(d)
      PROVE  QueuesInv'
    BY <1>6, ResetKeepsQueues
<1>7. CASE gyros__dyntick_set
    BY <1>7, DyntickSetKeepsQueues
<1>8. CASE Check
    BY <1>8, CheckKeepsQueues
<1>9. CASE ForceInterrupt
  <2>1. rearms' /\ UNCHANGED <<queue, tick>>
    BY <1>9 DEF ForceInterrupt, TypeOK
  <2> QED
    BY <2>1 DEF QueuesInv
<1>10. CASE TIMER_ISR
    BY <1>10, IsrKeepsQueues
<1>11. CASE gyros__tick
    BY <1>11, TickKeepsQueues
<1>12. CASE gyros__tick_timer
    BY <1>12, TickTimerKeepsQueues
<1>13. CASE TickEnd
    BY <1>13, TickEndKeepsQueues
<1>14. CASE UNCHANGED vars
    BY <1>14 DEF vars, QueuesInv, AtEarliest, Queued, InTime, Remaining, TaskRuns, Ahead, counter
<1> QED
    BY <1>1, <1>2, <1>3, <1>4, <1>5, <1>6, <1>7, <1>8, <1>9, <1>10, <1>11, <1>12, <1>13, <1>14 DEF Next

\* However the counter runs on while compare is set, nothing is queued for
\* longer after its time than a critical section, the interrupt and its handler
\* take (gyros__dyntick_update, gyros__dyntick_set), unless the port forces the
\* interrupt by setting compare again.
THEOREM NothingOverdue == Spec => []NeverOverdue
<1>1. Init => TypeOK /\ ClockInv /\ QueuesInv
  <2>1. Init => QueuesInv
    BY DEF Init, QueuesInv, Queued, Lists
  <2> QED
    BY <2>1, ClockStarts
<1>2. TypeOK /\ ClockInv /\ QueuesInv /\ [Next]_vars => (TypeOK /\ ClockInv /\ QueuesInv)'
    BY ClockStep, QueuesStep
<1>3. TypeOK /\ ClockInv /\ QueuesInv => NeverOverdue
  <2> SUFFICES ASSUME TypeOK, ClockInv, QueuesInv, ~rearms, NEW d \in Queued
               PROVE  Compare(time, d) <= 3 * Latency
    BY DEF NeverOverdue
  <2>1. d \in Time /\ Remaining(d) \in -3 * Latency .. MaxDelay /\ time \in Time
    BY RemainingOf DEF TypeOK
  <2>2. Compare(time, time) = 0
    BY <2>1, NoTicks, CompareTicks, Ranges
  <2>3. Compare(time, time) \in -3 * Latency .. MaxDelay
    BY <2>2, Ranges
  <2>4. Compare(time, d) = Compare(time, time) - Compare(d, time)
    BY <2>1, <2>3, CompareNear DEF Remaining
  <2> QED
    BY <2>1, <2>2, <2>4, Ranges DEF Remaining
<1> QED
    BY <1>1, <1>2, <1>3, PTL DEF Spec
=============================================================================
