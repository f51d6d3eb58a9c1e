---------------------------- MODULE DatesProofs -----------------------------
(***************************************************************************)
(* Proofs about Dates, for any day, week and month, any zone whose clocks  *)
(* change twice and not at midnight, and any instant: the midnights divide *)
(* time into the local dates, and the pages' ranges begin and end at       *)
(* midnights and leave no gap.                                             *)
(***************************************************************************)
EXTENDS Dates, TLAPS

-----------------------------------------------------------------------------
(* Arithmetic                                                              *)

LEMMA Quotient ==
  ASSUME NEW a \in Int, NEW n \in Nat, n > 0
  PROVE  /\ a \div n \in Int
         /\ n * (a \div n) <= a /\ a < n * (a \div n) + n
  OBVIOUS

LEMMA Products ==
  ASSUME NEW a \in Int, NEW b \in Int, NEW n \in Nat, n > 0
  PROVE  /\ a * n \in Int /\ b * n \in Int
         /\ a * n = n * a
         /\ (a + b) * n = a * n + b * n
         /\ (a + 1) * n = a * n + n
         /\ a <= b => a * n <= b * n
         /\ a < b => a * n + n <= b * n
  OBVIOUS

LEMMA Remainder ==
  ASSUME NEW a \in Int, NEW n \in Nat, n > 0
  PROVE  a % n \in 0..(n - 1) /\ (a + n) % n = a % n
<1> DEFINE q == a \div n  p == (a + n) \div n  r == a % n  z == (a + n) % n
<1>1. q \in Int /\ r \in 0..(n - 1) /\ a = (n * q) + r
  OBVIOUS
<1>2. p \in Int /\ z \in 0..(n - 1) /\ a + n = (n * p) + z
  OBVIOUS
<1> HIDE DEF q, p, r, z
<1>3. n * (q + 1) = n * q + n /\ n * (p + 1) = n * p + n
  BY <1>1, <1>2
<1>4. CASE p < q + 1
  <2>1. n * (p + 1) <= n * (q + 1)
    BY <1>1, <1>2, <1>4, Products
  <2> QED BY <1>1, <1>2, <1>3, <2>1
<1>5. CASE q + 1 < p
  <2>1. n * (q + 1) + n <= n * p
    BY <1>1, <1>2, <1>5, Products
  <2> QED BY <1>1, <1>2, <1>3, <2>1
<1>6. CASE p = q + 1
  BY <1>1, <1>2, <1>3, <1>6
<1>7. r \in 0..(n - 1) /\ z = r
  BY <1>1, <1>2, <1>4, <1>5, <1>6
<1> QED BY <1>7 DEF r, z

-----------------------------------------------------------------------------
(* The zone                                                                *)

LEMMA HourValue == Hour \in Nat /\ 0 < Hour /\ Hour < DayLen /\ DayLen \in Nat
  BY CalendarAssumption DEF Hour

LEMMA WallValue ==
  ASSUME NEW t \in Int
  PROVE  /\ Wall[t] \in Int
         /\ SummerStart <= t /\ t < SummerEnd => Wall[t] = t + Standard + Hour
         /\ t < SummerStart \/ SummerEnd <= t => Wall[t] = t + Standard
  BY ZoneAssumption, HourValue DEF Wall

(* A local time that occurs, and is not one that occurs twice, is that of  *)
(* one instant; what is shown before is before it.                         *)
LEMMA Regular ==
  ASSUME NEW w \in Int,
         w < SummerStart + Standard \/ SummerStart + Standard + Hour <= w,
         w < SummerEnd + Standard \/ SummerEnd + Standard + Hour <= w
  PROVE  /\ FromWall[w] \in Int
         /\ Wall[FromWall[w]] = w
         /\ \A t \in Int : FromWall[w] <= t <=> w <= Wall[t]
<1> DEFINE guess == w - Offset(w)
           u == IF Period(guess) = Period(w) THEN guess ELSE w - Offset(guess)
<1>1. FromWall[w] = u
  BY DEF FromWall
<1>2. Offset(w) \in Int /\ guess \in Int /\ Offset(guess) \in Int /\ u \in Int
  BY WallValue DEF Offset
<1>3. /\ Standard \in Int /\ SummerStart \in Int /\ SummerEnd \in Int
      /\ Standard < SummerEnd - SummerStart - Hour
      /\ -Standard < SummerEnd - SummerStart - Hour
      /\ Hour \in Nat /\ 0 < Hour
  BY ZoneAssumption, HourValue
<1>4. Wall[u] = w
  BY <1>2, <1>3, WallValue DEF Offset, Period
<1>5. ASSUME NEW t \in Int
      PROVE  u <= t <=> w <= Wall[t]
  <2> HIDE DEF u
  <2> QED BY <1>2, <1>3, <1>4, <1>5, WallValue
<1> QED BY <1>1, <1>2, <1>4, <1>5

-----------------------------------------------------------------------------
(* Days                                                                    *)

(* No midnight is skipped or occurs twice.                                 *)
LEMMA Midnights ==
  ASSUME NEW d \in Int
  PROVE  /\ Midnight(d) \in Int
         /\ Wall[Midnight(d)] = d * DayLen
         /\ \A t \in Int : Midnight(d) <= t <=> d * DayLen <= Wall[t]
<1> DEFINE w == d * DayLen
<1>1. DayLen \in Nat /\ DayLen > 0 /\ ForwardDay \in Int /\ BackDay \in Int
  BY HourValue, ZoneAssumption
<1>2. w \in Int
  BY <1>1
<1>3. w <= ForwardDay * DayLen \/ (ForwardDay + 1) * DayLen <= w
  <2>1. CASE d <= ForwardDay
    BY <1>1, <2>1, Products
  <2>2. CASE ForwardDay + 1 <= d
    <3>1. ForwardDay + 1 \in Int
      BY <1>1
    <3> QED BY <1>1, <2>2, <3>1, Products
  <2> QED BY <1>1, <2>1, <2>2
<1>4. w <= BackDay * DayLen \/ (BackDay + 1) * DayLen <= w
  <2>1. CASE d <= BackDay
    BY <1>1, <2>1, Products
  <2>2. CASE BackDay + 1 <= d
    <3>1. BackDay + 1 \in Int
      BY <1>1
    <3> QED BY <1>1, <2>2, <3>1, Products
  <2> QED BY <1>1, <2>1, <2>2
<1>5. /\ ForwardDay * DayLen \in Int /\ (ForwardDay + 1) * DayLen \in Int
      /\ BackDay * DayLen \in Int /\ (BackDay + 1) * DayLen \in Int
  BY <1>1
<1>6. /\ w < SummerStart + Standard \/ SummerStart + Standard + Hour <= w
      /\ w < SummerEnd + Standard \/ SummerEnd + Standard + Hour <= w
  <2> HIDE DEF w
  <2> QED BY <1>2, <1>3, <1>4, <1>5, ZoneAssumption, HourValue
<1> HIDE DEF w
<1>7. FromWall[w] \in Int /\ Wall[FromWall[w]] = w
      /\ \A t \in Int : FromWall[w] <= t <=> w <= Wall[t]
  BY <1>2, <1>6, Regular
<1> QED BY <1>7 DEF Midnight, w

(* An instant has a date on or after d from the midnight of d on.          *)
THEOREM DaysBeginAtMidnight ==
  ASSUME NEW d \in Int, NEW t \in Int
  PROVE  /\ Day(t) \in Int
         /\ Midnight(d) <= t <=> d <= Day(t)
<1> DEFINE w == Wall[t]  e == Day(t)
<1>1. w \in Int /\ DayLen \in Nat /\ DayLen > 0
  BY WallValue, HourValue
<1>2. e \in Int /\ DayLen * e <= w /\ w < DayLen * e + DayLen
  BY <1>1, Quotient DEF Day
<1>3. Midnight(d) <= t <=> d * DayLen <= w
  BY Midnights
<1> HIDE DEF w, e
<1>4. e * DayLen = DayLen * e /\ e * DayLen \in Int /\ d * DayLen \in Int
  BY <1>1, <1>2, Products
<1>5. CASE d <= e
  <2>1. d * DayLen <= e * DayLen
    BY <1>1, <1>2, <1>5, Products
  <2> QED BY <1>1, <1>2, <1>3, <1>4, <1>5, <2>1 DEF e
<1>6. CASE e < d
  <2>1. e * DayLen + DayLen <= d * DayLen
    BY <1>1, <1>2, <1>6, Products
  <2> QED BY <1>1, <1>2, <1>3, <1>4, <1>6, <2>1 DEF e
<1> QED BY <1>2, <1>5, <1>6 DEF e

(* The date of a midnight is its own; the midnights are in order.          *)
COROLLARY MidnightsInOrder ==
  ASSUME NEW d \in Int, NEW e \in Int
  PROVE  /\ Day(Midnight(d)) = d
         /\ d < e <=> Midnight(d) < Midnight(e)
<1>1. Midnight(d) \in Int /\ Midnight(e) \in Int
  BY Midnights
<1>2. Day(Midnight(d)) \in Int /\ d <= Day(Midnight(d))
  BY <1>1, DaysBeginAtMidnight
<1>3. Wall[Midnight(d)] = d * DayLen /\ DayLen \in Nat /\ DayLen > 0
  BY Midnights, HourValue
<1>4. d + 1 \in Int /\ Midnight(d + 1) \in Int
      /\ (Midnight(d + 1) <= Midnight(d) <=> (d + 1) * DayLen <= d * DayLen)
  BY <1>1, <1>3, Midnights
<1>5. ~(d + 1 <= Day(Midnight(d)))
  BY <1>1, <1>3, <1>4, DaysBeginAtMidnight, Products
<1>6. Day(Midnight(d)) = d
  BY <1>2, <1>5
<1>7. Midnight(e) <= Midnight(d) <=> e <= d
  BY <1>1, <1>6, DaysBeginAtMidnight
<1> QED BY <1>1, <1>6, <1>7

(* AddDate from a midnight leads to a midnight.                            *)
LEMMA MidnightsApart ==
  ASSUME NEW d \in Int, NEW n \in Int
  PROVE  AddDays(Midnight(d), n) = Midnight(d + n)
<1>1. DayLen \in Nat /\ DayLen > 0
  BY HourValue
<1>2. Wall[Midnight(d)] + n * DayLen = (d + n) * DayLen
  BY <1>1, Midnights, Products
<1> QED BY <1>2 DEF AddDays, Midnight

-----------------------------------------------------------------------------
(* Months                                                                  *)

(* A date is in one month.                                                 *)
LEMMA MonthKnown ==
  ASSUME NEW d \in Int, NEW m \in 0..(Months - 1),
         MonthStart[m] <= d, d < MonthStart[m + 1]
  PROVE  MonthOf[d] = m
<1> DEFINE k == MonthOf[d]
<1>1. k \in 0..(Months - 1) /\ MonthStart[k] <= d /\ d < MonthStart[k + 1]
  BY DEF MonthOf
<1>2. Months \in Nat /\ MonthStart \in [0..Months -> Int]
      /\ \A i, j \in 0..Months : i < j => MonthStart[i] < MonthStart[j]
  BY CalendarAssumption
<1> HIDE DEF k
<1>3. k \in 0..Months /\ k + 1 \in 0..Months /\ m \in 0..Months /\ m + 1 \in 0..Months
  BY <1>1, <1>2
<1>4. ~(k + 1 <= m)
  <2>1. k + 1 < m => MonthStart[k + 1] < MonthStart[m]
    BY <1>2, <1>3
  <2> QED BY <1>1, <1>2, <1>3, <2>1
<1>5. ~(m + 1 <= k)
  <2>1. m + 1 < k => MonthStart[m + 1] < MonthStart[k]
    BY <1>2, <1>3
  <2> QED BY <1>1, <1>2, <1>3, <2>1
<1>6. k = m
  BY <1>1, <1>4, <1>5
<1> QED BY <1>6 DEF k
=============================================================================
