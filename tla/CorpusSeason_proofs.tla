------------------------ MODULE CorpusSeason_proofs -------------------------
(* Proofs about CorpusSeason and Portfolio.                                  *)
(*                                                                           *)
(* The engine's calendar is the civil one on every day there is: CivilDate   *)
(* reckons in years that begin in March, in eras of 400 of them, and a day   *)
(* has one such reckoning (Unique), which moves on as the wall calendar does *)
(* (Successor).                                                              *)
(*                                                                           *)
(* What is stored of a portfolio is what it means: to sort without           *)
(* repetitions depends on a set alone (SortedDistinctSorts) where an order   *)
(* leaves no tie, which the comparator of cards does not (CardsInOrder).     *)
EXTENDS CorpusSeason, FiniteSetTheorems, SequenceTheorems, TLAPS

(* The first day of a year of the era, and of a month of the year.           *)
YearStart(y) == 365 * y + y \div 4 - y \div 100
MonthStart(m) == (153 * m + 2) \div 5
YearLength(y) == IF Leap(y + 1) THEN 366 ELSE 365

(* The day that many days after the beginning of some era.                   *)
Reckoned(n, era, y, m, d) ==
  /\ era \in Int /\ y \in Int /\ 0 <= y /\ y <= 399 /\ m \in 0 .. 11
  /\ d \in Int /\ 1 <= d
  /\ d <= IF m = 11 THEN YearLength(y) - 337 ELSE MonthStart(m + 1) - MonthStart(m)
  /\ n = 146097 * era + YearStart(y) + MonthStart(m) + d - 1

CivilYear(era, y, m) == IF m < 10 THEN era * 400 + y ELSE era * 400 + y + 1
CivilMonth(m) == IF m < 10 THEN m + 3 ELSE m - 9
-----------------------------------------------------------------------------
LEMMA YearLengths ==
  ASSUME NEW y \in Int, 0 <= y, y <= 399
  PROVE  /\ y < 399 => YearStart(y + 1) = YearStart(y) + YearLength(y)
         /\ y = 399 => YearStart(y) + YearLength(y) = 146097
         /\ YearStart(y) \in Int
         /\ YearLength(y) = 365 \/ YearLength(y) = 366
BY SMTT(60) DEF YearStart, YearLength, Leap

LEMMA YearsInOrder ==
  ASSUME NEW y \in Int, 0 <= y, NEW z \in Int, z <= 399, y < z
  PROVE  YearStart(y) + YearLength(y) <= YearStart(z)
BY SMTT(60) DEF YearStart, YearLength, Leap

LEMMA MonthStarts ==
  /\ MonthStart(0) = 0 /\ MonthStart(1) = 31 /\ MonthStart(2) = 61 /\ MonthStart(3) = 92 /\ MonthStart(4) = 122
  /\ MonthStart(5) = 153 /\ MonthStart(6) = 184 /\ MonthStart(7) = 214 /\ MonthStart(8) = 245 /\ MonthStart(9) = 275
  /\ MonthStart(10) = 306 /\ MonthStart(11) = 337 /\ MonthStart(12) = 367
BY DEF MonthStart

LEMMA MonthIsRight ==
  ASSUME NEW k \in Int, 0 <= k, k <= 365, NEW m, m = (5 * k + 2) \div 153
  PROVE  /\ m \in Int /\ 0 <= m /\ m <= 11
         /\ MonthStart(m) <= k /\ k < MonthStart(m + 1) /\ MonthStart(m) \in Int
BY SMTT(60) DEF MonthStart

(* The year of a day of the era, by quotients that are off by one at most.   *)
LEMMA YearOfQuotients ==
  ASSUME NEW day \in Int, 0 <= day, day <= 146096,
         NEW a \in Int, 1460 * a <= day, day < 1460 * a + 1460,
         NEW b \in Int, 36524 * b <= day, day < 36524 * b + 36524,
         NEW c \in Int, 146096 * c <= day, day < 146096 * c + 146096,
         NEW y \in Int, 365 * y <= day - a + b - c, day - a + b - c < 365 * y + 365,
         NEW p \in Int, 4 * p <= y, y < 4 * p + 4,
         NEW q \in Int, 100 * q <= y, y < 100 * q + 100,
         NEW r \in Int, 4 * r <= y + 1, y + 1 < 4 * r + 4,
         NEW s \in Int, 100 * s <= y + 1, y + 1 < 100 * s + 100
  PROVE  /\ 0 <= y /\ y <= 399
         /\ 365 * y + p - q <= day
         /\ day < 365 * (y + 1) + r - s \/ (y = 399 /\ day = 146096)
BY SMTT(60)

YearAt(day) == (day - day \div 1460 + day \div 36524 - day \div 146096) \div 365

LEMMA YearIsRight ==
  ASSUME NEW day \in Int, 0 <= day, day < 146097,
         NEW y, y = YearAt(day)
  PROVE  /\ y \in Int /\ 0 <= y /\ y <= 399
         /\ YearStart(y) <= day /\ day < YearStart(y) + YearLength(y)
<1>1. day <= 146096
  OBVIOUS
<1>2. PICK a, b, c \in Int :
        /\ a = day \div 1460 /\ 1460 * a <= day /\ day < 1460 * a + 1460
        /\ b = day \div 36524 /\ 36524 * b <= day /\ day < 36524 * b + 36524
        /\ c = day \div 146096 /\ 146096 * c <= day /\ day < 146096 * c + 146096
  BY <1>1
<1>3. PICK x \in Int : x = day - a + b - c /\ y = x \div 365
  BY <1>1, <1>2 DEF YearAt
<1>4. y \in Int /\ 365 * y <= x /\ x < 365 * y + 365
  BY <1>3
<1>5. PICK p, q, r, s \in Int :
        /\ p = y \div 4 /\ 4 * p <= y /\ y < 4 * p + 4
        /\ q = y \div 100 /\ 100 * q <= y /\ y < 100 * q + 100
        /\ r = (y + 1) \div 4 /\ 4 * r <= y + 1 /\ y + 1 < 4 * r + 4
        /\ s = (y + 1) \div 100 /\ 100 * s <= y + 1 /\ y + 1 < 100 * s + 100
  <2>1. y \in Int
    BY <1>4
  <2>2. y \div 4 \in Int /\ 4 * (y \div 4) <= y /\ y < 4 * (y \div 4) + 4
    BY ONLY <2>1
  <2>3. y \div 100 \in Int /\ 100 * (y \div 100) <= y /\ y < 100 * (y \div 100) + 100
    BY ONLY <2>1
  <2>4. (y + 1) \div 4 \in Int /\ 4 * ((y + 1) \div 4) <= y + 1 /\ y + 1 < 4 * ((y + 1) \div 4) + 4
    BY ONLY <2>1
  <2>5. /\ (y + 1) \div 100 \in Int
        /\ 100 * ((y + 1) \div 100) <= y + 1 /\ y + 1 < 100 * ((y + 1) \div 100) + 100
    BY ONLY <2>1
  <2> QED
    BY ONLY <2>2, <2>3, <2>4, <2>5, Zenon
<1>6. /\ 0 <= y /\ y <= 399
      /\ 365 * y + p - q <= day
      /\ day < 365 * (y + 1) + r - s \/ (y = 399 /\ day = 146096)
  BY <1>1, <1>2, <1>3, <1>4, <1>5, YearOfQuotients
<1>7. YearStart(y) = 365 * y + p - q /\ YearStart(y + 1) = 365 * (y + 1) + r - s
  BY <1>4, <1>5 DEF YearStart
<1>8. /\ y < 399 => YearStart(y + 1) = YearStart(y) + YearLength(y)
      /\ y = 399 => YearStart(y) + YearLength(y) = 146097
      /\ YearLength(y) = 365 \/ YearLength(y) = 366
  BY <1>4, <1>6, YearLengths
<1>9. YearStart(y) <= day /\ day < YearStart(y) + YearLength(y)
  <2>1. CASE y = 399
    BY <1>1, <1>4, <1>6, <1>7, <1>8, <2>1
  <2>2. CASE y < 399
    BY <1>4, <1>6, <1>7, <1>8, <2>2
  <2> QED
    BY <1>4, <1>6, <2>1, <2>2
<1> QED
  BY <1>4, <1>6, <1>9

(* CivilDate, unfolded quantity by quantity.                                 *)
DateOf(era, y, m, d) ==
  IF m < 10 THEN (era * 400 + y) * 10000 + (m + 3) * 100 + d
  ELSE (era * 400 + y + 1) * 10000 + (m - 9) * 100 + d
OfMonth(era, y, k, m) == DateOf(era, y, m, k - MonthStart(m) + 1)
OfYear(era, y, k) == OfMonth(era, y, k, (5 * k + 2) \div 153)
OfEra(era, day, y) == OfYear(era, y, day - YearStart(y))

(* What CivilDate computes is a reckoning ...                                *)
Reckons(n) ==
  \E era, y, m, d \in Int :
    /\ Reckoned(n + 719468, era, y, m, d)
    /\ CivilDate(n) = CivilYear(era, y, m) * 10000 + CivilMonth(m) * 100 + d

LEMMA CivilDateReckons ==
  ASSUME NEW n \in Int
  PROVE  Reckons(n)
<1>1. PICK era, day \in Int :
        /\ era = (n + 719468) \div 146097 /\ day = (n + 719468) % 146097
        /\ 0 <= day /\ day < 146097 /\ n + 719468 = 146097 * era + day
  OBVIOUS
<1>2. PICK y \in Int : /\ y = YearAt(day) /\ 0 <= y /\ y <= 399
                       /\ YearStart(y) <= day /\ day < YearStart(y) + YearLength(y)
  BY <1>1, YearIsRight
<1>3. YearStart(y) \in Int /\ (YearLength(y) = 365 \/ YearLength(y) = 366)
  BY <1>2, YearLengths
<1>4. PICK k \in Int : k = day - YearStart(y) /\ 0 <= k /\ k < YearLength(y)
  BY <1>1, <1>2, <1>3
<1>5. PICK m \in Int : /\ m = (5 * k + 2) \div 153 /\ 0 <= m /\ m <= 11
                       /\ MonthStart(m) <= k /\ k < MonthStart(m + 1)
  <2>1. k <= 365
    BY <1>3, <1>4
  <2> QED
    BY <1>4, <2>1, MonthIsRight
<1>6. m \in 0 .. 11 /\ MonthStart(m) \in Int /\ MonthStart(m + 1) \in Int /\ (m = 11 => MonthStart(m) = 337)
  BY <1>5, MonthStarts
<1>7. PICK d \in Int : d = k - MonthStart(m) + 1
  BY <1>4, <1>6
<1>8. Reckoned(n + 719468, era, y, m, d)
  <2>1. 1 <= d /\ n + 719468 = 146097 * era + YearStart(y) + MonthStart(m) + d - 1
    BY <1>1, <1>3, <1>4, <1>5, <1>6, <1>7
  <2>2. (m = 11 => d <= YearLength(y) - 337) /\ d <= MonthStart(m + 1) - MonthStart(m)
    BY <1>3, <1>4, <1>5, <1>6, <1>7
  <2> QED
    BY <1>1, <1>2, <1>6, <1>7, <2>1, <2>2 DEF Reckoned
<1>9. CivilDate(n) = CivilYear(era, y, m) * 10000 + CivilMonth(m) * 100 + d
  <2>1. CivilDate(n) = OfEra(era, day, y)
    <3>1. CivilDate(n) =
          OfEra((n + 719468) \div 146097, (n + 719468) % 146097, YearAt((n + 719468) % 146097))
      BY DEF CivilDate, OfEra, OfYear, OfMonth, DateOf, YearAt, YearStart, MonthStart
    <3> QED
      BY ONLY <1>1, <1>2, <3>1
  <2>2. OfEra(era, day, y) = OfYear(era, y, k)
    BY <1>4 DEF OfEra
  <2>3. OfYear(era, y, k) = OfMonth(era, y, k, m)
    BY <1>5 DEF OfYear
  <2>4. OfMonth(era, y, k, m) = DateOf(era, y, m, d)
    BY <1>7 DEF OfMonth
  <2>5. DateOf(era, y, m, d) = CivilYear(era, y, m) * 10000 + CivilMonth(m) * 100 + d
    BY <1>1, <1>2, <1>6, <1>7 DEF DateOf, CivilYear, CivilMonth
  <2> QED
    BY ONLY <2>1, <2>2, <2>3, <2>4, <2>5
<1> QED
  BY <1>1, <1>2, <1>5, <1>7, <1>8, <1>9 DEF Reckons

(* ... and a day has only one.                                               *)
LEMMA WithinYear ==
  ASSUME NEW n, NEW era, NEW y, NEW m, NEW d, Reckoned(n, era, y, m, d)
  PROVE  /\ MonthStart(m) + d - 1 \in Int /\ 0 <= MonthStart(m) + d - 1 /\ MonthStart(m) + d - 1 < YearLength(y)
         /\ n = 146097 * era + YearStart(y) + (MonthStart(m) + d - 1)
<1>1. era \in Int /\ y \in Int /\ 0 <= y /\ y <= 399 /\ m \in 0 .. 11 /\ d \in Int /\ 1 <= d
  BY DEF Reckoned
<1>2. YearStart(y) \in Int /\ (YearLength(y) = 365 \/ YearLength(y) = 366)
  BY <1>1, YearLengths
<1>3. /\ MonthStart(m) \in Int /\ 0 <= MonthStart(m) /\ MonthStart(m + 1) \in Int
      /\ (m = 11 => MonthStart(m) = 337) /\ (m # 11 => MonthStart(m + 1) <= 337)
  BY <1>1, MonthStarts
<1>4. (m = 11 => d <= YearLength(y) - 337) /\ (m # 11 => d <= MonthStart(m + 1) - MonthStart(m))
  BY DEF Reckoned
<1>5. n = 146097 * era + YearStart(y) + MonthStart(m) + d - 1
  BY DEF Reckoned
<1> QED
  BY <1>1, <1>2, <1>3, <1>4, <1>5

LEMMA YearWithinEra ==
  ASSUME NEW y \in Int, 0 <= y, y <= 399
  PROVE  0 <= YearStart(y) /\ YearStart(y) + YearLength(y) <= 146097
<1>1. YearStart(0) = 0 /\ (YearLength(0) = 365 \/ YearLength(0) = 366) /\ YearStart(399) + YearLength(399) = 146097
      /\ (YearLength(399) = 365 \/ YearLength(399) = 366) /\ YearStart(399) \in Int
  BY YearLengths DEF YearStart
<1>2. YearStart(y) \in Int /\ (YearLength(y) = 365 \/ YearLength(y) = 366)
  BY YearLengths
<1>3. (y # 0 => YearStart(0) + YearLength(0) <= YearStart(y)) /\ (y # 399 => YearStart(y) + YearLength(y) <= YearStart(399))
  BY YearsInOrder
<1> QED
  BY <1>1, <1>2, <1>3

LEMMA MonthUnique ==
  ASSUME NEW y, NEW m \in 0 .. 11, NEW d \in Int, 1 <= d,
         d <= IF m = 11 THEN YearLength(y) - 337 ELSE MonthStart(m + 1) - MonthStart(m),
         NEW q \in 0 .. 11, NEW e \in Int, 1 <= e,
         e <= IF q = 11 THEN YearLength(y) - 337 ELSE MonthStart(q + 1) - MonthStart(q),
         MonthStart(m) + d - 1 = MonthStart(q) + e - 1
  PROVE  m = q /\ d = e
<1>1. \A i, j \in 0 .. 11 : i < j => MonthStart(i + 1) <= MonthStart(j)
  BY MonthStarts
<1>2. (m < q => d <= MonthStart(m + 1) - MonthStart(m)) /\ (q < m => e <= MonthStart(q + 1) - MonthStart(q))
  OBVIOUS
<1>3. ~(m < q)
  <2> SUFFICES ASSUME m < q PROVE FALSE
    OBVIOUS
  <2>1. MonthStart(m + 1) <= MonthStart(q) /\ d <= MonthStart(m + 1) - MonthStart(m)
    BY <1>1, <1>2
  <2>2. MonthStart(m) \in Int /\ MonthStart(m + 1) \in Int /\ MonthStart(q) \in Int
    BY MonthStarts
  <2> QED
    BY <2>1, <2>2
<1>4. ~(q < m)
  <2> SUFFICES ASSUME q < m PROVE FALSE
    OBVIOUS
  <2>1. MonthStart(q + 1) <= MonthStart(m) /\ e <= MonthStart(q + 1) - MonthStart(q)
    BY <1>1, <1>2
  <2>2. MonthStart(q) \in Int /\ MonthStart(q + 1) \in Int /\ MonthStart(m) \in Int
    BY MonthStarts
  <2> QED
    BY <2>1, <2>2
<1>5. m = q
  BY <1>3, <1>4
<1>6. MonthStart(m) \in Int
  BY MonthStarts
<1> QED
  BY <1>5, <1>6

LEMMA Unique ==
  ASSUME NEW n, NEW era, NEW y, NEW m, NEW d, Reckoned(n, era, y, m, d),
         NEW age, NEW z, NEW q, NEW e, Reckoned(n, age, z, q, e)
  PROVE  era = age /\ y = z /\ m = q /\ d = e
<1>1. PICK k \in Int : /\ k = MonthStart(m) + d - 1 /\ 0 <= k /\ k < YearLength(y)
                       /\ n = 146097 * era + YearStart(y) + k
  BY WithinYear
<1>2. PICK l \in Int : /\ l = MonthStart(q) + e - 1 /\ 0 <= l /\ l < YearLength(z)
                       /\ n = 146097 * age + YearStart(z) + l
  BY WithinYear
<1>3. /\ era \in Int /\ y \in Int /\ 0 <= y /\ y <= 399 /\ m \in 0 .. 11 /\ d \in Int
      /\ age \in Int /\ z \in Int /\ 0 <= z /\ z <= 399 /\ q \in 0 .. 11 /\ e \in Int
  BY DEF Reckoned
<1>4. PICK s, t, u, v \in Int :
        /\ s = YearStart(y) /\ u = YearLength(y) /\ 0 <= s /\ s + u <= 146097
        /\ t = YearStart(z) /\ v = YearLength(z) /\ 0 <= t /\ t + v <= 146097
        /\ (y < z => s + u <= t) /\ (z < y => t + v <= s)
  <2>1. YearStart(y) \in Int /\ YearLength(y) \in Int /\ 0 <= YearStart(y) /\ YearStart(y) + YearLength(y) <= 146097
    BY <1>3, YearLengths, YearWithinEra
  <2>2. YearStart(z) \in Int /\ YearLength(z) \in Int /\ 0 <= YearStart(z) /\ YearStart(z) + YearLength(z) <= 146097
    BY <1>3, YearLengths, YearWithinEra
  <2>3. (y < z => YearStart(y) + YearLength(y) <= YearStart(z)) /\ (z < y => YearStart(z) + YearLength(z) <= YearStart(y))
    BY <1>3, YearsInOrder
  <2> QED
    BY <2>1, <2>2, <2>3
<1>5. /\ 0 <= k /\ k < u /\ n = 146097 * era + s + k
      /\ 0 <= l /\ l < v /\ n = 146097 * age + t + l
  BY <1>1, <1>2, <1>4
<1>6. era = age
  BY <1>3, <1>4, <1>5
<1>7. y = z /\ k = l
  BY <1>3, <1>4, <1>5, <1>6
<1>8. m = q /\ d = e
  <2>1. /\ 1 <= d /\ d <= IF m = 11 THEN YearLength(y) - 337 ELSE MonthStart(m + 1) - MonthStart(m)
        /\ 1 <= e /\ e <= IF q = 11 THEN YearLength(y) - 337 ELSE MonthStart(q + 1) - MonthStart(q)
    BY <1>7 DEF Reckoned
  <2>2. MonthStart(m) + d - 1 = MonthStart(q) + e - 1
    BY <1>1, <1>2, <1>7
  <2> QED
    BY ONLY <1>3, <2>1, <2>2, MonthUnique
<1> QED
  BY <1>6, <1>7, <1>8

(* A reckoned month is as long as people say.                                *)
LEMMA LeapYears ==
  ASSUME NEW era \in Int, NEW y \in Int
  PROVE  Leap(era * 400 + y) <=> Leap(y)
<1>1. /\ (era * 400 + y) % 4 = y % 4
      /\ (era * 400 + y) % 100 = y % 100
      /\ (era * 400 + y) % 400 = y % 400
  OBVIOUS
<1> QED
  BY <1>1 DEF Leap

LEMMA MonthLengths ==
  ASSUME NEW era \in Int, NEW y \in Int, NEW m \in 0 .. 11
  PROVE  LastOf(CivilMonth(m), CivilYear(era, y, m))
         = IF m = 11 THEN YearLength(y) - 337 ELSE MonthStart(m + 1) - MonthStart(m)
<1>1. CASE m = 11
  <2>1. CivilMonth(m) = 2 /\ CivilYear(era, y, m) = era * 400 + (y + 1)
    BY <1>1 DEF CivilMonth, CivilYear
  <2>2. Leap(CivilYear(era, y, m)) <=> Leap(y + 1)
    <3>1. y + 1 \in Int
      OBVIOUS
    <3>2. Leap(era * 400 + (y + 1)) <=> Leap(y + 1)
      BY <3>1, LeapYears, Zenon
    <3> QED
      BY ONLY <2>1, <3>2
  <2>3. LastOf(CivilMonth(m), CivilYear(era, y, m)) = IF Leap(y + 1) THEN 29 ELSE 28
    BY <2>1, <2>2 DEF LastOf
  <2> QED
    BY <1>1, <2>3 DEF YearLength
<1>2. CASE m # 11
  <2>1. CivilMonth(m) # 2
    BY <1>2 DEF CivilMonth
  <2>2. LastOf(CivilMonth(m), CivilYear(era, y, m)) = IF CivilMonth(m) \in {4, 6, 9, 11} THEN 30 ELSE 31
    BY <2>1 DEF LastOf
  <2>3. MonthStart(m + 1) - MonthStart(m) = IF CivilMonth(m) \in {4, 6, 9, 11} THEN 30 ELSE 31
    BY <1>2, MonthStarts DEF CivilMonth
  <2> QED
    BY <1>2, <2>2, <2>3
<1> QED
  BY <1>1, <1>2

(* The reckoning of the next day.                                            *)
LEMMA Successor ==
  ASSUME NEW n, NEW era, NEW y, NEW m, NEW d, Reckoned(n, era, y, m, d)
  PROVE  LET last == LastOf(CivilMonth(m), CivilYear(era, y, m))
         IN  /\ last \in Int /\ 28 <= last /\ last <= 31 /\ d <= last
             /\ IF d < last THEN Reckoned(n + 1, era, y, m, d + 1)
                ELSE IF m < 11 THEN Reckoned(n + 1, era, y, m + 1, 1)
                ELSE IF y < 399 THEN Reckoned(n + 1, era, y + 1, 0, 1)
                ELSE Reckoned(n + 1, era + 1, 0, 0, 1)
<1>1. /\ era \in Int /\ y \in Int /\ 0 <= y /\ y <= 399 /\ m \in 0 .. 11 /\ d \in Int /\ 1 <= d
      /\ n = 146097 * era + YearStart(y) + MonthStart(m) + d - 1
  BY DEF Reckoned
<1>2. PICK last : last = LastOf(CivilMonth(m), CivilYear(era, y, m))
  OBVIOUS
<1>3. last = IF m = 11 THEN YearLength(y) - 337 ELSE MonthStart(m + 1) - MonthStart(m)
  BY <1>1, <1>2, MonthLengths
<1>4. d <= last
  BY <1>3 DEF Reckoned
<1>5. /\ YearStart(y) \in Int /\ (YearLength(y) = 365 \/ YearLength(y) = 366)
      /\ (y < 399 => YearStart(y + 1) = YearStart(y) + YearLength(y))
      /\ (y = 399 => YearStart(y) + YearLength(y) = 146097)
  BY <1>1, YearLengths
<1>6. /\ MonthStart(m) \in Int /\ MonthStart(m + 1) \in Int /\ MonthStart(11) = 337 /\ MonthStart(0) = 0 /\ MonthStart(1) = 31
      /\ 28 <= MonthStart(m + 1) - MonthStart(m) /\ MonthStart(m + 1) - MonthStart(m) <= 31
  BY <1>1, MonthStarts
<1>7. last \in Int /\ 28 <= last /\ last <= 31
  BY <1>3, <1>5, <1>6
<1>8. CASE d < last
  <2>1. n + 1 = 146097 * era + YearStart(y) + MonthStart(m) + (d + 1) - 1
    BY <1>1, <1>5, <1>6
  <2>2. d + 1 \in Int /\ 1 <= d + 1 /\ d + 1 <= last
    BY <1>1, <1>7, <1>8
  <2>3. Reckoned(n + 1, era, y, m, d + 1)
    BY <1>1, <1>3, <2>1, <2>2 DEF Reckoned
  <2> QED
    BY <1>2, <1>4, <1>7, <1>8, <2>3
<1>9. CASE d = last /\ m < 11
  <2>1. last = MonthStart(m + 1) - MonthStart(m)
    BY <1>3, <1>9
  <2>2. n + 1 = 146097 * era + YearStart(y) + MonthStart(m + 1) + 1 - 1
    BY <1>1, <1>5, <1>6, <1>9, <2>1
  <2>3. m + 1 \in 0 .. 11
    BY <1>1, <1>9
  <2>4. 1 <= IF m + 1 = 11 THEN YearLength(y) - 337 ELSE MonthStart(m + 1 + 1) - MonthStart(m + 1)
    BY <1>5, <2>3, MonthStarts
  <2>5. Reckoned(n + 1, era, y, m + 1, 1)
    BY <1>1, <2>2, <2>3, <2>4 DEF Reckoned
  <2> QED
    BY <1>2, <1>4, <1>7, <1>9, <2>5
<1>10. CASE d = last /\ m = 11
  <2>1. n + 1 = 146097 * era + (YearStart(y) + YearLength(y))
    BY <1>1, <1>3, <1>5, <1>6, <1>10
  <2>2. 1 <= MonthStart(0 + 1) - MonthStart(0) /\ MonthStart(0) = 0
    BY <1>6
  <2>3. CASE y < 399
    <3>1. n + 1 = 146097 * era + YearStart(y + 1) + MonthStart(0) + 1 - 1
      BY <1>1, <1>5, <2>1, <2>2, <2>3
    <3>2. Reckoned(n + 1, era, y + 1, 0, 1)
      BY <1>1, <2>2, <2>3, <3>1 DEF Reckoned
    <3> QED
      BY <1>2, <1>4, <1>7, <1>10, <2>3, <3>2
  <2>4. CASE y = 399
    <3>1. n + 1 = 146097 * (era + 1) + YearStart(0) + MonthStart(0) + 1 - 1
      BY <1>1, <1>5, <2>1, <2>2, <2>4 DEF YearStart
    <3>2. Reckoned(n + 1, era + 1, 0, 0, 1)
      BY <1>1, <2>2, <3>1 DEF Reckoned
    <3> QED
      BY <1>2, <1>4, <1>7, <1>10, <2>4, <3>2
  <2> QED
    BY <1>1, <2>3, <2>4
<1> QED
  BY <1>1, <1>4, <1>7, <1>8, <1>9, <1>10

(* The date of the next day is the next on the wall calendar.                *)
LEMMA NextDate ==
  ASSUME NEW n \in Int, NEW year \in Int, NEW month \in Int, 1 <= month, month <= 12,
         NEW day \in Int, 1 <= day, day <= 31,
         CivilDate(n) = year * 10000 + month * 100 + day
  PROVE  /\ day <= 31 /\ LastOf(month, year) \in Int /\ LastOf(month, year) <= 31
         /\ CivilDate(n + 1) =
              IF day < LastOf(month, year) THEN year * 10000 + month * 100 + (day + 1)
              ELSE IF month < 12 THEN year * 10000 + (month + 1) * 100 + 1
              ELSE (year + 1) * 10000 + 100 + 1
<1>1. PICK era, y, m, d \in Int :
        /\ Reckoned(n + 719468, era, y, m, d)
        /\ CivilDate(n) = CivilYear(era, y, m) * 10000 + CivilMonth(m) * 100 + d
  BY CivilDateReckons DEF Reckons
<1>2. PICK age, z, q, e \in Int :
        /\ Reckoned(n + 1 + 719468, age, z, q, e)
        /\ CivilDate(n + 1) = CivilYear(age, z, q) * 10000 + CivilMonth(q) * 100 + e
  <2>1. n + 1 \in Int
    OBVIOUS
  <2>2. Reckons(n + 1)
    BY <2>1, CivilDateReckons
  <2> QED
    BY <2>2 DEF Reckons
<1>3. PICK last \in Int :
        /\ last = LastOf(CivilMonth(m), CivilYear(era, y, m)) /\ last <= 31 /\ d <= last
        /\ IF d < last THEN Reckoned(n + 1 + 719468, era, y, m, d + 1)
           ELSE IF m < 11 THEN Reckoned(n + 1 + 719468, era, y, m + 1, 1)
           ELSE IF y < 399 THEN Reckoned(n + 1 + 719468, era, y + 1, 0, 1)
           ELSE Reckoned(n + 1 + 719468, era + 1, 0, 0, 1)
  <2>1. PICK c : c = n + 719468 /\ c + 1 = n + 1 + 719468
    OBVIOUS
  <2>2. Reckoned(c, era, y, m, d)
    BY <1>1, <2>1
  <2>3. PICK last : last = LastOf(CivilMonth(m), CivilYear(era, y, m))
    OBVIOUS
  <2>4. /\ last \in Int /\ 28 <= last /\ last <= 31 /\ d <= last
        /\ IF d < last THEN Reckoned(c + 1, era, y, m, d + 1)
           ELSE IF m < 11 THEN Reckoned(c + 1, era, y, m + 1, 1)
           ELSE IF y < 399 THEN Reckoned(c + 1, era, y + 1, 0, 1)
           ELSE Reckoned(c + 1, era + 1, 0, 0, 1)
    BY ONLY <2>2, <2>3, Successor
  <2> QED
    BY ONLY <2>1, <2>3, <2>4
<1>4. /\ y \in Int /\ 0 <= y /\ y <= 399 /\ m \in 0 .. 11 /\ 1 <= d
      /\ CivilYear(era, y, m) \in Int /\ CivilMonth(m) \in Int
      /\ 1 <= CivilMonth(m) /\ CivilMonth(m) <= 12
  BY <1>1 DEF Reckoned, CivilYear, CivilMonth
<1>5. CivilYear(era, y, m) = year /\ CivilMonth(m) = month /\ d = day
  <2>1. PICK s, t \in Int : s = CivilYear(era, y, m) /\ t = CivilMonth(m)
    BY <1>4
  <2>2. year * 10000 + month * 100 + day = s * 10000 + t * 100 + d
    BY <1>1, <2>1
  <2>3. 1 <= t /\ t <= 12 /\ 1 <= d /\ d <= 31
    BY <1>3, <1>4, <2>1
  <2>4. s = year
    BY ONLY <2>2, <2>3, year \in Int, month \in Int, 1 <= month, month <= 12,
            day \in Int, 1 <= day, day <= 31, s \in Int, t \in Int, d \in Int
  <2>5. t = month
    BY ONLY <2>2, <2>3, <2>4, month \in Int, 1 <= month, month <= 12,
            day \in Int, 1 <= day, day <= 31, year \in Int, t \in Int, d \in Int
  <2> QED
    BY <2>1, <2>2, <2>4, <2>5
<1>6. CASE d < last
  <2>1. age = era /\ z = y /\ q = m /\ e = d + 1
    BY <1>2, <1>3, <1>6, Unique
  <2> QED
    BY <1>2, <1>3, <1>5, <1>6, <2>1
<1>7. CASE ~(d < last) /\ m < 11
  <2>1. age = era /\ z = y /\ q = m + 1 /\ e = 1
    BY <1>2, <1>3, <1>7, Unique
  <2>2. /\ month < 12 => CivilYear(era, y, m + 1) = year /\ CivilMonth(m + 1) = month + 1
        /\ ~(month < 12) => CivilYear(era, y, m + 1) = year + 1 /\ CivilMonth(m + 1) = 1
    BY <1>4, <1>5, <1>7 DEF CivilYear, CivilMonth
  <2> QED
    BY <1>2, <1>3, <1>5, <1>7, <2>1, <2>2
<1>8. CASE ~(d < last) /\ m = 11
  <2>1. e = 1 /\ q = 0 /\ age * 400 + z = era * 400 + y + 1
    <3>1. CASE y < 399
      <4>1. age = era /\ z = y + 1 /\ q = 0 /\ e = 1
        BY <1>2, <1>3, <1>8, <3>1, Unique
      <4> QED
        BY <1>4, <4>1
    <3>2. CASE y = 399
      <4>1. age = era + 1 /\ z = 0 /\ q = 0 /\ e = 1
        BY <1>2, <1>3, <1>8, <3>2, Unique
      <4> QED
        BY <3>2, <4>1
    <3> QED
      BY <1>4, <3>1, <3>2
  <2>2. CivilYear(age, z, q) = year /\ CivilMonth(q) = 3 /\ month = 2
    BY <1>4, <1>5, <1>8, <2>1 DEF CivilYear, CivilMonth
  <2> QED
    BY <1>2, <1>3, <1>5, <1>8, <2>1, <2>2
<1> QED
  BY <1>4, <1>6, <1>7, <1>8
-----------------------------------------------------------------------------
(* The wall calendar, once set right, stays right.                           *)
LEMMA RightFields ==
  ASSUME NEW c, SetRight(c)
  PROVE  /\ c.year \in Int
         /\ c.month \in Int /\ 1 <= c.month /\ c.month <= 12
         /\ c.day \in Int /\ 1 <= c.day /\ c.day <= 31
         /\ c.weekday \in Int /\ 0 <= c.weekday /\ c.weekday <= 6
         /\ c.second = 0 \/ c.second = 86399
         /\ c.instant \in Int
<1>1. c \in [year : Int, month : 1 .. 12, day : 1 .. 31, weekday : 0 .. 6, second : {0, 86399},
             instant : Int]
  BY DEF SetRight
<1>2. /\ c.year \in Int /\ c.month \in 1 .. 12 /\ c.day \in 1 .. 31 /\ c.weekday \in 0 .. 6
      /\ c.second \in {0, 86399} /\ c.instant \in Int
  BY ONLY <1>1
<1> QED
  BY ONLY <1>2

(* Setting every field anew, given its place in the type.                    *)
LEMMA SetFields ==
  ASSUME NEW c, NEW y \in Int, NEW m \in Int, 1 <= m, m <= 12, NEW d \in Int, 1 <= d, d <= 31,
         NEW w \in Int, 0 <= w, w <= 6, NEW s, s = 0 \/ s = 86399, NEW i \in Int,
         c = [year |-> y, month |-> m, day |-> d, weekday |-> w, second |-> s, instant |-> i],
         CivilDate(DayOf(i - LimaOffset)) = y * 10000 + m * 100 + d,
         (DayOf(i - LimaOffset) + 4) % 7 = w, (i - LimaOffset) % 86400 = s
  PROVE  SetRight(c)
<1>1. m \in 1 .. 12 /\ d \in 1 .. 31 /\ w \in 0 .. 6 /\ s \in {0, 86399}
  OBVIOUS
<1>2. c \in [year : Int, month : 1 .. 12, day : 1 .. 31, weekday : 0 .. 6, second : {0, 86399},
             instant : Int]
  BY <1>1
<1>3. Date(c) = y * 10000 + m * 100 + d
  BY DEF Date
<1>4. c.instant = i /\ c.weekday = w /\ c.second = s
  OBVIOUS
<1> QED
  BY <1>2, <1>3, <1>4 DEF SetRight, LimaDate, LimaWeekday

(* The fields of the wall calendar a step later.                             *)
LEMMA LaterFields ==
  ASSUME NEW y, NEW m, NEW d, NEW w, NEW s, NEW i, NEW c,
         c = [year |-> y, month |-> m, day |-> d, weekday |-> w, second |-> s, instant |-> i],
         NEW x, x = 86399, NEW k, k = i + 86399,
         NEW v, v = (w + 1) % 7, NEW j, j = i + 1, NEW e, e = d + 1, NEW q, q = m + 1, NEW z, z = y + 1
  PROVE  /\ s = 0 => Later(c) =
              [year |-> y, month |-> m, day |-> d, weekday |-> w, second |-> x, instant |-> k]
         /\ s # 0 /\ d < LastOf(m, y) => Later(c) =
              [year |-> y, month |-> m, day |-> e, weekday |-> v, second |-> 0, instant |-> j]
         /\ s # 0 /\ ~(d < LastOf(m, y)) /\ m < 12 => Later(c) =
              [year |-> y, month |-> q, day |-> 1, weekday |-> v, second |-> 0, instant |-> j]
         /\ s # 0 /\ ~(d < LastOf(m, y)) /\ ~(m < 12) => Later(c) =
              [year |-> z, month |-> 1, day |-> 1, weekday |-> v, second |-> 0, instant |-> j]
<1>1. c.second = s /\ c.day = d /\ c.month = m /\ c.year = y /\ c.instant = i /\ c.weekday = w
  OBVIOUS
<1>2. PICK a : a = [c EXCEPT !.second = x]
  BY ONLY Zenon
<1>3. a = [year |-> y, month |-> m, day |-> d, weekday |-> w, second |-> x, instant |-> i]
  BY <1>2
<1>4. [a EXCEPT !.instant = k] = [year |-> y, month |-> m, day |-> d, weekday |-> w, second |-> x, instant |-> k]
  BY ONLY <1>3
<1>5. PICK b : b = [c EXCEPT !.second = 0]
  BY ONLY Zenon
<1>6. b = [year |-> y, month |-> m, day |-> d, weekday |-> w, second |-> 0, instant |-> i]
  BY <1>5
<1>7. PICK f : f = [b EXCEPT !.instant = j]
  BY ONLY Zenon
<1>8. f = [year |-> y, month |-> m, day |-> d, weekday |-> w, second |-> 0, instant |-> j]
  BY ONLY <1>6, <1>7
<1>9. PICK tomorrow : tomorrow = [f EXCEPT !.weekday = v]
  BY ONLY Zenon
<1>10. tomorrow = [year |-> y, month |-> m, day |-> d, weekday |-> v, second |-> 0, instant |-> j]
  BY ONLY <1>8, <1>9
<1>11. tomorrow.day = d /\ tomorrow.month = m /\ tomorrow.year = y
  BY ONLY <1>10
<1>12. [tomorrow EXCEPT !.day = e] = [year |-> y, month |-> m, day |-> e, weekday |-> v, second |-> 0, instant |-> j]
  BY ONLY <1>10
<1>13. PICK g : g = [tomorrow EXCEPT !.day = 1]
  BY ONLY Zenon
<1>14. g = [year |-> y, month |-> m, day |-> 1, weekday |-> v, second |-> 0, instant |-> j]
  BY ONLY <1>10, <1>13
<1>15. [g EXCEPT !.month = q] = [year |-> y, month |-> q, day |-> 1, weekday |-> v, second |-> 0, instant |-> j]
  BY ONLY <1>14
<1>16. PICK h : h = [g EXCEPT !.month = 1]
  BY ONLY Zenon
<1>17. h = [year |-> y, month |-> 1, day |-> 1, weekday |-> v, second |-> 0, instant |-> j]
  BY ONLY <1>14, <1>16
<1>18. [h EXCEPT !.year = z] = [year |-> z, month |-> 1, day |-> 1, weekday |-> v, second |-> 0, instant |-> j]
  BY ONLY <1>17
<1>19. Later(c) = IF s = 0 THEN [a EXCEPT !.instant = k] ELSE NextDay(c)
  BY <1>1, <1>2 DEF Later
<1>20. NextDay(c) =
         IF d < LastOf(m, y) THEN [tomorrow EXCEPT !.day = e]
         ELSE IF m < 12 THEN [g EXCEPT !.month = q]
         ELSE [h EXCEPT !.year = z]
  <2>1. tomorrow = [c EXCEPT !.second = 0, !.instant = @ + 1, !.weekday = (@ + 1) % 7]
    BY ONLY <1>1, <1>5, <1>7, <1>9, v = (w + 1) % 7, j = i + 1
  <2>2. NextDay(c) =
          IF d < LastOf(m, y) THEN [tomorrow EXCEPT !.day = @ + 1]
          ELSE IF m < 12 THEN [tomorrow EXCEPT !.day = 1, !.month = @ + 1]
          ELSE [tomorrow EXCEPT !.day = 1, !.month = 1, !.year = @ + 1]
    BY ONLY <1>1, <2>1 DEF NextDay
  <2> QED
    BY ONLY <1>11, <1>13, <1>16, <2>2, e = d + 1, q = m + 1, z = y + 1
<1> QED
  BY ONLY <1>4, <1>12, <1>15, <1>18, <1>19, <1>20

LEMMA StaysRight ==
  ASSUME NEW c, SetRight(c)
  PROVE  SetRight(Later(c))
<1>1. PICK y, m, d, w, s, i :
        /\ c = [year |-> y, month |-> m, day |-> d, weekday |-> w, second |-> s, instant |-> i]
        /\ y = c.year /\ m = c.month /\ d = c.day /\ w = c.weekday /\ s = c.second /\ i = c.instant
  <2>1. c \in [year : Int, month : 1 .. 12, day : 1 .. 31, weekday : 0 .. 6, second : {0, 86399},
               instant : Int]
    BY DEF SetRight
  <2>2. c = [year |-> c.year, month |-> c.month, day |-> c.day, weekday |-> c.weekday,
             second |-> c.second, instant |-> c.instant]
    BY ONLY <2>1
  <2> QED
    BY ONLY <2>2, Zenon
<1>2. /\ y \in Int /\ m \in Int /\ 1 <= m /\ m <= 12 /\ d \in Int /\ 1 <= d /\ d <= 31
      /\ w \in Int /\ 0 <= w /\ w <= 6 /\ (s = 0 \/ s = 86399) /\ i \in Int
  BY ONLY <1>1, SetRight(c), RightFields
<1>3. PICK n \in Int : n = DayOf(i - LimaOffset) /\ i - LimaOffset = 86400 * n + s
  <2>1. (i - LimaOffset) % 86400 = s
    BY <1>1 DEF SetRight
  <2>2. LimaOffset = 18000
    BY DEF LimaOffset
  <2> QED
    BY <1>2, <2>1, <2>2 DEF DayOf
<1>4. CivilDate(n) = y * 10000 + m * 100 + d /\ (n + 4) % 7 = w
  <2>1. LimaDate(i) = Date(c) /\ LimaWeekday(i) = w
    BY <1>1 DEF SetRight
  <2>2. Date(c) = y * 10000 + m * 100 + d
    BY <1>1 DEF Date
  <2> QED
    BY <1>3, <2>1, <2>2 DEF LimaDate, LimaWeekday
<1>5. PICK x, k, v, j, e, q, z \in Int :
        /\ x = 86399 /\ k = i + 86399 /\ v = (w + 1) % 7 /\ 0 <= v /\ v <= 6
        /\ j = i + 1 /\ e = d + 1 /\ q = m + 1 /\ z = y + 1
  BY <1>2
<1>6. /\ s = 0 => Later(c) =
           [year |-> y, month |-> m, day |-> d, weekday |-> w, second |-> x, instant |-> k]
      /\ s # 0 /\ d < LastOf(m, y) => Later(c) =
           [year |-> y, month |-> m, day |-> e, weekday |-> v, second |-> 0, instant |-> j]
      /\ s # 0 /\ ~(d < LastOf(m, y)) /\ m < 12 => Later(c) =
           [year |-> y, month |-> q, day |-> 1, weekday |-> v, second |-> 0, instant |-> j]
      /\ s # 0 /\ ~(d < LastOf(m, y)) /\ ~(m < 12) => Later(c) =
           [year |-> z, month |-> 1, day |-> 1, weekday |-> v, second |-> 0, instant |-> j]
  BY ONLY <1>1, <1>5, LaterFields
<1>7. CASE s = 0
  <2>1. PICK u \in Int : u = k - LimaOffset /\ u = 86400 * n + 86399
    BY <1>2, <1>3, <1>5, <1>7 DEF LimaOffset
  <2>2. u \div 86400 = n /\ u % 86400 = 86399
    BY ONLY <2>1, n \in Int
  <2>3. DayOf(k - LimaOffset) = n /\ (k - LimaOffset) % 86400 = x
    BY ONLY <1>5, <2>1, <2>2 DEF DayOf
  <2>4. /\ CivilDate(DayOf(k - LimaOffset)) = y * 10000 + m * 100 + d
        /\ (DayOf(k - LimaOffset) + 4) % 7 = w
    BY ONLY <1>4, <2>3
  <2>5. Later(c) = [year |-> y, month |-> m, day |-> d, weekday |-> w, second |-> x, instant |-> k]
    BY ONLY <1>6, <1>7
  <2> QED
    BY <1>2, <1>5, <2>3, <2>4, <2>5, SetFields
<1>8. CASE s = 86399
  <2>1. PICK u \in Int : u = j - LimaOffset /\ u = 86400 * (n + 1)
    <3>1. PICK o \in Int : o = LimaOffset
      BY DEF LimaOffset
    <3>2. j - o = 86400 * (n + 1) /\ j - o \in Int
      BY <1>2, <1>3, <1>5, <1>8, <3>1
    <3> QED
      BY ONLY <3>1, <3>2
  <2>2. u \div 86400 = n + 1 /\ u % 86400 = 0
    BY ONLY <2>1, n \in Int
  <2>3. DayOf(j - LimaOffset) = n + 1 /\ (j - LimaOffset) % 86400 = 0
    BY ONLY <2>1, <2>2 DEF DayOf
  <2>4. PICK last \in Int :
          /\ last = LastOf(m, y) /\ last <= 31
          /\ CivilDate(n + 1) =
               IF d < last THEN y * 10000 + m * 100 + (d + 1)
               ELSE IF m < 12 THEN y * 10000 + (m + 1) * 100 + 1
               ELSE (y + 1) * 10000 + 100 + 1
    BY <1>2, <1>4, NextDate
  <2>5. CivilDate(DayOf(j - LimaOffset)) = CivilDate(n + 1)
    BY ONLY <2>3
  <2>6. (DayOf(j - LimaOffset) + 4) % 7 = v
    <3>1. (n + 1 + 4) % 7 = v
      BY <1>2, <1>4, <1>5
    <3> QED
      BY ONLY <2>3, <3>1
  <2>7. s # 0
    BY <1>8
  <2>8. CASE d < last
    <3>1. 1 <= e /\ e <= 31 /\ CivilDate(n + 1) = y * 10000 + m * 100 + e
      BY <1>2, <1>5, <2>4, <2>8
    <3> QED
      BY <1>2, <1>5, <1>6, <2>3, <2>4, <2>5, <2>6, <2>7, <2>8, <3>1, SetFields
  <2>9. CASE ~(d < last) /\ m < 12
    <3>1. 1 <= q /\ q <= 12 /\ CivilDate(n + 1) = y * 10000 + q * 100 + 1
      BY <1>2, <1>5, <2>4, <2>9
    <3>2. PICK o \in Int : o = 1 /\ 1 <= o /\ o <= 31
      OBVIOUS
    <3>3. CivilDate(DayOf(j - LimaOffset)) = y * 10000 + q * 100 + o
      BY ONLY <2>5, <3>1, <3>2
    <3>4. Later(c) = [year |-> y, month |-> q, day |-> o, weekday |-> v, second |-> 0, instant |-> j]
      BY ONLY <1>6, <2>4, <2>7, <2>9, <3>2
    <3> QED
      BY <1>2, <1>5, <2>3, <2>6, <3>1, <3>2, <3>3, <3>4, SetFields
  <2>10. CASE ~(d < last) /\ ~(m < 12)
    <3>1. PICK a, o \in Int : a = 1 /\ 1 <= a /\ a <= 12 /\ o = 1 /\ 1 <= o /\ o <= 31
      OBVIOUS
    <3>2. CivilDate(DayOf(j - LimaOffset)) = z * 10000 + a * 100 + o
      BY <1>2, <1>5, <2>4, <2>5, <2>10, <3>1
    <3>3. Later(c) = [year |-> z, month |-> a, day |-> o, weekday |-> v, second |-> 0, instant |-> j]
      BY ONLY <1>6, <2>4, <2>7, <2>10, <3>1
    <3>4. /\ a \in Int /\ o \in Int /\ 1 <= a /\ a <= 12 /\ 1 <= o /\ o <= 31
          /\ z \in Int /\ v \in Int /\ 0 <= v /\ v <= 6 /\ j \in Int
      BY <1>5, <3>1
    <3> QED
      BY ONLY <2>3, <2>6, <3>2, <3>3, <3>4, SetFields
  <2> QED
    BY <2>8, <2>9, <2>10
<1> QED
  BY <1>2, <1>7, <1>8

(* The years that are decided are those of the fixture's dates.              *)
LEMMA CoverageIsTwoYears ==
  ASSUME NEW c, SetRight(c)
  PROVE  WithinCoverage(c.instant) <=> c.year \in {2026, 2027}
<1>1. PICK y, m, d \in Int :
        /\ y = c.year /\ m = c.month /\ d = c.day
        /\ 1 <= m /\ m <= 12 /\ 1 <= d /\ d <= 31
  BY RightFields
<1>2. LimaLocalDateOf(c.instant) = y * 10000 + m * 100 + d
  BY <1>1 DEF SetRight, LimaDate, LimaLocalDateOf, Date
<1>3. PICK date \in Int :
        /\ date = y * 10000 + m * 100 + d
        /\ WithinCoverage(c.instant) <=> 20260101 <= date /\ date <= 20271231
  BY <1>1, <1>2, SMTT(60) DEF WithinCoverage, CoverageV1
<1>4. 20260101 <= date /\ date <= 20271231 <=> y = 2026 \/ y = 2027
  BY <1>1, <1>3, SMTT(60)
<1>5. WithinCoverage(c.instant) <=> y = 2026 \/ y = 2027
  BY <1>3, <1>4, SMTT(60)
<1>6. c.year \in {2026, 2027} <=> y = 2026 \/ y = 2027
  BY ONLY <1>1
<1> QED
  BY ONLY <1>5, <1>6
-----------------------------------------------------------------------------
(* Sets, sorted.                                                             *)
Below(x, S, before) == {y \in S : <<y, x>> \in before}

StrictOrder(before, S) ==
  /\ \A x \in S : <<x, x>> \notin before
  /\ \A x, y, z \in S : <<x, y>> \in before /\ <<y, z>> \in before => <<x, z>> \in before
  /\ \A x, y \in S : x # y => <<x, y>> \in before \/ <<y, x>> \in before

LEMMA LowerRank ==
  ASSUME NEW S, IsFiniteSet(S), NEW before, StrictOrder(before, S),
         NEW x \in S, NEW y \in S, <<x, y>> \in before
  PROVE  Cardinality(Below(x, S, before)) < Cardinality(Below(y, S, before))
<1>1. PICK lower, upper : lower = Below(x, S, before) /\ upper = Below(y, S, before)
  OBVIOUS
<1>2. lower \subseteq upper /\ x \in upper /\ x \notin lower
  BY <1>1 DEF StrictOrder, Below
<1>3. IsFiniteSet(upper)
  <2>1. upper \in SUBSET S
    BY <1>1 DEF Below
  <2> QED
    BY <2>1, FS_Subset
<1>4. /\ IsFiniteSet(lower)
      /\ Cardinality(lower) <= Cardinality(upper) /\ Cardinality(lower) # Cardinality(upper)
  <2>1. lower \in SUBSET upper /\ lower # upper
    BY <1>2
  <2> QED
    BY <1>3, <2>1, FS_Subset
<1>5. Cardinality(lower) \in Nat /\ Cardinality(upper) \in Nat
  BY <1>3, <1>4, FS_CardinalityType
<1> QED
  BY <1>1, <1>4, <1>5

LEMMA Ranks ==
  ASSUME NEW S, IsFiniteSet(S), NEW before, StrictOrder(before, S)
  PROVE  /\ Cardinality(S) \in Nat
         /\ \A x \in S : Cardinality(Below(x, S, before)) \in 0 .. Cardinality(S) - 1
         /\ \A x, y \in S : Cardinality(Below(x, S, before)) = Cardinality(Below(y, S, before)) => x = y
         /\ \A n \in 0 .. Cardinality(S) - 1 : \E x \in S : Cardinality(Below(x, S, before)) = n
<1>1. PICK c \in Nat : c = Cardinality(S)
  BY FS_CardinalityType
<1>2. ASSUME NEW x \in S PROVE Cardinality(Below(x, S, before)) \in 0 .. c - 1
  <2>1. Below(x, S, before) \in SUBSET (S \ {x})
    BY DEF StrictOrder, Below
  <2>2. IsFiniteSet(S \ {x}) /\ Cardinality(S \ {x}) = c - 1
    BY <1>1, FS_RemoveElement
  <2>3. /\ IsFiniteSet(Below(x, S, before))
        /\ Cardinality(Below(x, S, before)) <= Cardinality(S \ {x})
    BY <2>1, <2>2, FS_Subset
  <2>4. Cardinality(Below(x, S, before)) \in Nat
    BY <2>3, FS_CardinalityType
  <2> QED
    BY <2>2, <2>3, <2>4
<1>3. ASSUME NEW x \in S, NEW y \in S,
             Cardinality(Below(x, S, before)) = Cardinality(Below(y, S, before))
      PROVE  x = y
  <2>1. Cardinality(Below(x, S, before)) \in Int
    BY <1>2
  <2>2. /\ <<x, y>> \in before => Cardinality(Below(x, S, before)) < Cardinality(Below(y, S, before))
        /\ <<y, x>> \in before => Cardinality(Below(y, S, before)) < Cardinality(Below(x, S, before))
    BY LowerRank
  <2>3. <<x, y>> \notin before /\ <<y, x>> \notin before
    BY <1>3, <2>1, <2>2
  <2> QED
    BY <2>3 DEF StrictOrder
<1>4. PICK f : f = [x \in S |-> Cardinality(Below(x, S, before))]
  OBVIOUS
<1>5. f \in Injection(S, 0 .. c - 1)
  BY <1>2, <1>3, <1>4 DEF Injection, IsInjective
<1>6. IsFiniteSet(0 .. c - 1) /\ Cardinality(0 .. c - 1) = c
  <2>1. c - 1 \in Int /\ (0 > c - 1 <=> c = 0)
    BY <1>1
  <2>2. IsFiniteSet(0 .. c - 1) /\ Cardinality(0 .. c - 1) = IF 0 > c - 1 THEN 0 ELSE c - 1 - 0 + 1
    BY <2>1, FS_Interval
  <2> QED
    BY <2>1, <2>2
<1>7. f \in Surjection(S, 0 .. c - 1)
  BY <1>1, <1>5, <1>6, FS_Injection
<1>8. \A n \in 0 .. c - 1 : \E x \in S : f[x] = n
  BY <1>7 DEF Surjection
<1> QED
  BY <1>1, <1>2, <1>3, <1>4, <1>8

Sorted(S, before) ==
  [n \in 1 .. Cardinality(S) |-> CHOOSE x \in S : Cardinality(Below(x, S, before)) = n - 1]

LEMMA SortedKeeps ==
  ASSUME NEW S, IsFiniteSet(S), NEW before, StrictOrder(before, S)
  PROVE  Sorted(S, before) \in Seq(S) /\ ToSet(Sorted(S, before)) = S
<1>1. PICK s, c : s = Sorted(S, before) /\ c = Cardinality(S) /\ c \in Nat
  BY Ranks
<1>2. ASSUME NEW n \in 1 .. c PROVE s[n] \in S /\ Cardinality(Below(s[n], S, before)) = n - 1
  <2>1. s[n] = CHOOSE x \in S : Cardinality(Below(x, S, before)) = n - 1
    BY <1>1 DEF Sorted
  <2>2. n - 1 \in 0 .. c - 1
    BY <1>1
  <2>3. \E x \in S : Cardinality(Below(x, S, before)) = n - 1
    BY <1>1, <2>2, Ranks
  <2> QED
    BY <2>1, <2>3
<1>3. s = [n \in 1 .. c |-> s[n]] /\ DOMAIN s = 1 .. c
  BY <1>1 DEF Sorted
<1>4. s \in Seq(S)
  BY <1>1, <1>2, <1>3
<1>5. ASSUME NEW x \in S PROVE \E n \in 1 .. c : s[n] = x
  <2>1. PICK n \in Int : n = Cardinality(Below(x, S, before)) + 1 /\ n \in 1 .. c
    BY <1>1, Ranks
  <2>2. s[n] \in S /\ Cardinality(Below(s[n], S, before)) = Cardinality(Below(x, S, before))
    <3>1. Cardinality(Below(x, S, before)) \in Int
      BY <1>1, Ranks
    <3> QED
      BY <1>2, <2>1, <3>1
  <2>3. s[n] = x
    BY <2>2, Ranks
  <2> QED
    BY <2>1, <2>3
<1>6. ToSet(s) = S
  BY <1>2, <1>3, <1>5 DEF ToSet
<1> QED
  BY <1>1, <1>4, <1>6

(* The first element of a set of numbers.                                    *)
LEMMA LeastExists ==
  ASSUME NEW N \in SUBSET Nat, N # {}
  PROVE  \E n \in N : \A m \in N : n <= m
<1>1. PICK n \in N : \A m \in N : ~(<<m, n>> \in OpToRel(<, Nat))
  BY NatLessThanWellFounded, WFMin
<1>2. ASSUME NEW m \in N PROVE n <= m
  <2>1. m \in Nat /\ n \in Nat
    OBVIOUS
  <2>2. ~(m < n)
    <3> SUFFICES ASSUME m < n PROVE FALSE
      OBVIOUS
    <3>1. <<m, n>> \in OpToRel(<, Nat)
      BY <2>1, Zenon DEF OpToRel
    <3> QED
      BY <1>1, <3>1
  <2> QED
    BY <2>1, <2>2
<1> QED
  BY <1>2

LEMMA PlacesAreValues ==
  ASSUME NEW V, NEW s \in Seq(V), NEW places, places = FirstPlaces(s)
  PROVE  /\ IsFiniteSet(places) /\ places \in SUBSET Nat
         /\ \A i \in places : i \in DOMAIN s /\ s[i] \in ToSet(s)
         /\ \A i, j \in places : s[i] = s[j] => i = j
         /\ \A x \in ToSet(s) : \E i \in places : s[i] = x
<1>1. DOMAIN s = 1 .. Len(s) /\ Len(s) \in Nat
  BY LenProperties
<1>2. places \in SUBSET (1 .. Len(s))
  BY <1>1 DEF FirstPlaces
<1>3. IsFiniteSet(places)
  <2>1. IsFiniteSet(1 .. Len(s))
    BY <1>1, FS_Interval
  <2> QED
    BY <1>2, <2>1, FS_Subset
<1>4. ASSUME NEW i \in places, NEW j \in places, s[i] = s[j]
      PROVE  i = j
  <2>1. i \in Nat /\ j \in Nat /\ 1 <= i /\ 1 <= j
    BY <1>1, <1>2
  <2>2. (j < i => s[j] # s[i]) /\ (i < j => s[i] # s[j])
    BY <2>1 DEF FirstPlaces
  <2> QED
    BY <1>4, <2>1, <2>2
<1>5. ASSUME NEW x \in ToSet(s)
      PROVE  \E i \in places : s[i] = x
  <2>1. PICK N : N = {i \in DOMAIN s : s[i] = x}
    OBVIOUS
  <2>2. N \in SUBSET Nat /\ N # {}
    BY <1>1, <2>1 DEF ToSet
  <2>3. PICK n \in N : \A m \in N : n <= m
    BY <2>2, LeastExists
  <2>4. n \in 1 .. Len(s) /\ s[n] = x
    BY <1>1, <2>1
  <2>5. \A j \in 1 .. n - 1 : s[j] # s[n]
    <3> SUFFICES ASSUME NEW j \in 1 .. n - 1, s[j] = s[n] PROVE FALSE
      OBVIOUS
    <3>1. j \in N
      BY <1>1, <2>1, <2>4
    <3> QED
      BY <2>3, <2>4, <3>1
  <2> QED
    BY <1>1, <2>4, <2>5 DEF FirstPlaces
<1> QED
  BY <1>1, <1>2, <1>3, <1>4, <1>5 DEF ToSet

AheadOf(s, before, i) ==
  {j \in FirstPlaces(s) : <<s[j], s[i]>> \in before \/ (<<s[i], s[j]>> \notin before /\ j < i)}

(* Sorting a sequence without its repetitions is sorting the set it is of.   *)
LEMMA SortedDistinctSorts ==
  ASSUME NEW V, NEW s \in Seq(V), NEW before, StrictOrder(before, ToSet(s))
  PROVE  IsFiniteSet(ToSet(s)) /\ SortedDistinct(s, before) = Sorted(ToSet(s), before)
<1>1. PICK places, S : places = FirstPlaces(s) /\ S = ToSet(s)
  OBVIOUS
<1>2. /\ IsFiniteSet(places) /\ places \in SUBSET Nat
      /\ \A i \in places : i \in DOMAIN s /\ s[i] \in S
      /\ \A i, j \in places : s[i] = s[j] => i = j
      /\ \A x \in S : \E i \in places : s[i] = x
  BY <1>1, PlacesAreValues
<1>3. IsFiniteSet(S) /\ Cardinality(S) = Cardinality(places)
  <2>1. PICK f : f = [i \in places |-> s[i]]
    OBVIOUS
  <2>2. f \in Bijection(places, S)
    BY <1>2, <2>1 DEF Bijection, Injection, IsInjective, Surjection
  <2> QED
    BY <1>2, <2>2, FS_Bijection DEF ExistsBijection
<1>4. ASSUME NEW i \in places
      PROVE  Cardinality(AheadOf(s, before, i)) = Cardinality(Below(s[i], S, before))
  <2>1. PICK ahead, below : ahead = AheadOf(s, before, i) /\ below = Below(s[i], S, before)
    OBVIOUS
  <2>2. ahead = {j \in places : <<s[j], s[i]>> \in before}
    <3>1. ASSUME NEW j \in places PROVE j \in ahead <=> <<s[j], s[i]>> \in before
      <4>1. s[j] # s[i] => <<s[j], s[i]>> \in before \/ <<s[i], s[j]>> \in before
        BY <1>1, <1>2 DEF StrictOrder
      <4>2. i \in Nat /\ j \in Nat /\ (s[j] = s[i] => ~(j < i))
        BY <1>2
      <4> QED
        BY <1>1, <2>1, <4>1, <4>2 DEF AheadOf
    <3>2. ahead \subseteq places
      BY <1>1, <2>1 DEF AheadOf
    <3> QED
      BY <3>1, <3>2
  <2>3. IsFiniteSet(ahead)
    <3>1. ahead \in SUBSET places
      BY <2>2
    <3> QED
      BY <1>2, <3>1, FS_Subset
  <2>4. PICK f : f = [j \in ahead |-> s[j]]
    OBVIOUS
  <2>5. f \in Bijection(ahead, below)
    <3>1. \A x : x \in below <=> x \in S /\ <<x, s[i]>> \in before
      BY <2>1 DEF Below
    <3>2. f \in Injection(ahead, below)
      <4>1. \A j \in ahead : j \in places /\ s[j] \in below
        BY <1>2, <2>2, <3>1
      <4>2. f \in [ahead -> below] /\ DOMAIN f = ahead
        BY <2>4, <4>1
      <4>3. \A j, k \in ahead : f[j] = f[k] => j = k
        BY <1>2, <2>4, <4>1
      <4> QED
        BY <4>2, <4>3 DEF Injection, IsInjective
    <3>3. f \in Surjection(ahead, below)
      BY <1>2, <2>2, <2>4, <3>1 DEF Surjection
    <3> QED
      BY <3>2, <3>3 DEF Bijection
  <2> QED
    BY <2>1, <2>3, <2>5, FS_Bijection DEF ExistsBijection
<1>5. ASSUME NEW n \in 1 .. Cardinality(S)
      PROVE  s[CHOOSE i \in places : Cardinality(AheadOf(s, before, i)) = n - 1]
             = CHOOSE x \in S : Cardinality(Below(x, S, before)) = n - 1
  <2>1. PICK k : k = CHOOSE i \in places : Cardinality(AheadOf(s, before, i)) = n - 1
    OBVIOUS
  <2>2. PICK y : y = CHOOSE x \in S : Cardinality(Below(x, S, before)) = n - 1
    OBVIOUS
  <2>3. \E x \in S : Cardinality(Below(x, S, before)) = n - 1
    <3>1. n - 1 \in 0 .. Cardinality(S) - 1
      BY <1>1, <1>3, Ranks
    <3> QED
      BY <1>1, <1>3, <3>1, Ranks
  <2>4. y \in S /\ Cardinality(Below(y, S, before)) = n - 1
    BY <2>2, <2>3
  <2>5. PICK i \in places : s[i] = y
    BY <1>2, <2>4
  <2>6. Cardinality(AheadOf(s, before, i)) = n - 1
    BY <1>4, <2>4, <2>5
  <2>7. k \in places /\ Cardinality(AheadOf(s, before, k)) = n - 1
    BY <2>1, <2>6
  <2>8. s[k] \in S /\ Cardinality(Below(s[k], S, before)) = Cardinality(Below(y, S, before))
    BY <1>2, <1>4, <2>4, <2>7
  <2>9. s[k] = y
    BY <1>1, <1>3, <2>4, <2>8, Ranks
  <2> QED
    BY <2>1, <2>2, <2>9
<1>6. SortedDistinct(s, before) =
        [n \in 1 .. Cardinality(places) |->
           s[CHOOSE i \in places : Cardinality(AheadOf(s, before, i)) = n - 1]]
  BY <1>1 DEF SortedDistinct, AheadOf
<1> QED
  BY <1>1, <1>3, <1>5, <1>6 DEF Sorted
-----------------------------------------------------------------------------
(* Ranks tell tokens apart.                                                  *)
LEMMA RankOfToken ==
  /\ Len(Alphabet) \in Nat
  /\ \A x \in {None} \cup Tokens : Rank(x) \in Nat /\ Rank(x) <= Len(Alphabet)
  /\ \A x, y \in {None} \cup Tokens : Rank(x) = Rank(y) => x = y
<1>1. Len(Alphabet) \in Nat /\ DOMAIN Alphabet = 1 .. Len(Alphabet)
  BY AlphabetAssumption, LenProperties
<1>2. ASSUME NEW x \in Tokens
      PROVE  Rank(x) \in 1 .. Len(Alphabet) /\ Alphabet[Rank(x)] = x
  <2>1. x # None /\ \E i \in DOMAIN Alphabet : Alphabet[i] = x
    BY AlphabetAssumption DEF Tokens, ToSet
  <2> QED
    BY <1>1, <2>1 DEF Rank
<1>3. Rank(None) = 0
  BY DEF Rank
<1>4. ASSUME NEW x \in {None} \cup Tokens, NEW y \in {None} \cup Tokens, Rank(x) = Rank(y)
      PROVE  x = y
  <2>1. (x = None => Rank(x) = 0) /\ (x # None => Rank(x) # 0 /\ Alphabet[Rank(x)] = x)
    BY <1>1, <1>2, <1>3
  <2>2. (y = None => Rank(y) = 0) /\ (y # None => Rank(y) # 0 /\ Alphabet[Rank(y)] = y)
    BY <1>1, <1>2, <1>3
  <2> QED
    BY <1>4, <2>1, <2>2
<1> QED
  BY <1>1, <1>2, <1>3, <1>4

(* The cards in canonical form.                                              *)
CanonicalCards ==
  [family : Tokens, network : {None} \cup Tokens, tier : {None} \cup Tokens,
   memberships : {None} \cup (Seq(Tokens) \ {<<>>})]

RanksOf(m) == IF m = None THEN <<>> ELSE [k \in DOMAIN m |-> Rank(m[k])]

LEMMA RanksOfMemberships ==
  ASSUME NEW m \in {None} \cup (Seq(Tokens) \ {<<>>})
  PROVE  /\ RanksOf(m) \in Seq(Nat)
         /\ \A k \in 1 .. Len(RanksOf(m)) : RanksOf(m)[k] <= Len(Alphabet)
<1>1. CASE m = None
  <2>1. RanksOf(m) = <<>>
    BY <1>1 DEF RanksOf
  <2> QED
    BY <2>1
<1>2. CASE m # None
  <2>1. m \in Seq(Tokens) /\ DOMAIN m = 1 .. Len(m) /\ Len(m) \in Nat
    BY <1>2, LenProperties
  <2>2. \A k \in 1 .. Len(m) : m[k] \in Tokens
    BY <2>1, ElementOfSeq
  <2>3. \A k \in 1 .. Len(m) : Rank(m[k]) \in Nat /\ Rank(m[k]) <= Len(Alphabet)
    BY <2>2, RankOfToken
  <2>4. RanksOf(m) = [k \in 1 .. Len(m) |-> Rank(m[k])]
    BY <1>2, <2>1 DEF RanksOf
  <2>5. RanksOf(m) \in Seq(Nat) /\ Len(RanksOf(m)) = Len(m)
    BY <2>1, <2>3, <2>4
  <2> QED
    BY <2>3, <2>4, <2>5
<1> QED
  BY <1>1, <1>2

LEMMA MembershipsOfRanks ==
  ASSUME NEW m \in {None} \cup (Seq(Tokens) \ {<<>>}), NEW q \in {None} \cup (Seq(Tokens) \ {<<>>}),
         RanksOf(m) = RanksOf(q)
  PROVE  m = q
<1>1. ASSUME NEW p \in {None} \cup (Seq(Tokens) \ {<<>>}), p # None
      PROVE  /\ p \in Seq(Tokens) /\ Len(p) \in Nat /\ Len(p) # 0
             /\ Len(RanksOf(p)) = Len(p)
             /\ \A k \in 1 .. Len(p) : p[k] \in Tokens /\ RanksOf(p)[k] = Rank(p[k])
  <2>1. p \in Seq(Tokens) /\ DOMAIN p = 1 .. Len(p) /\ Len(p) \in Nat
    BY <1>1, LenProperties
  <2>2. RanksOf(p) = [k \in 1 .. Len(p) |-> Rank(p[k])]
    BY <1>1, <2>1 DEF RanksOf
  <2>3. \A k \in 1 .. Len(p) : p[k] \in Tokens
    BY <2>1, ElementOfSeq
  <2>4. Len(p) # 0
    BY <1>1, <2>1, EmptySeq
  <2> QED
    BY <2>1, <2>2, <2>3, <2>4
<1>2. RanksOf(None) = <<>> /\ Len(<<>>) = 0
  BY DEF RanksOf
<1>3. CASE m = None \/ q = None
  BY <1>1, <1>2, <1>3
<1>4. CASE m # None /\ q # None
  <2>1. Len(m) = Len(q) /\ m \in Seq(Tokens) /\ q \in Seq(Tokens)
    BY <1>1, <1>4
  <2>2. \A k \in 1 .. Len(m) : m[k] = q[k]
    BY <1>1, <1>4, <2>1, RankOfToken
  <2> QED
    BY <2>1, <2>2, SeqEqual
<1> QED
  BY <1>3, <1>4

(* The tuple that cards are compared by, place by place.                     *)
TupleIs(t, i, r) ==
  /\ t \in Seq(Nat) /\ r \in Seq(Nat) /\ Len(t) = Len(r) + 4
  /\ t[1] = Rank(i.family) /\ t[2] = Rank(i.network) /\ t[3] = Rank(i.tier)
  /\ \A k \in 1 .. Len(r) : t[k + 3] = r[k]
  /\ t[Len(r) + 4] = Len(Alphabet) + 1
  /\ \A k \in 1 .. Len(r) + 3 : t[k] <= Len(Alphabet)

LEMMA TuplePlaces ==
  ASSUME NEW i \in CanonicalCards, NEW r, r = RanksOf(i.memberships), NEW t, t = InstrumentSortTuple(i)
  PROVE  TupleIs(t, i, r)
<1>1. /\ i.family \in {None} \cup Tokens /\ i.network \in {None} \cup Tokens
      /\ i.tier \in {None} \cup Tokens /\ i.memberships \in {None} \cup (Seq(Tokens) \ {<<>>})
  BY DEF CanonicalCards
<1>2. PICK x, y, z, L \in Nat :
        /\ x = Rank(i.family) /\ y = Rank(i.network) /\ z = Rank(i.tier) /\ L = Len(Alphabet)
        /\ x <= L /\ y <= L /\ z <= L
  BY <1>1, RankOfToken
<1>3. r \in Seq(Nat) /\ Len(r) \in Nat /\ \A k \in 1 .. Len(r) : r[k] \in Nat /\ r[k] <= L
  BY <1>1, <1>2, RanksOfMemberships, LenProperties, ElementOfSeq
<1>4. t = <<x, y, z>> \o (r \o <<L + 1>>)
  BY <1>2 DEF InstrumentSortTuple, CanonicalMembershipsSerialized, RanksOf
<1>5. PICK h, e : h = <<x, y, z>> /\ e = <<L + 1>>
  OBVIOUS
<1>6. /\ h \in Seq(Nat) /\ Len(h) = 3 /\ h[1] = x /\ h[2] = y /\ h[3] = z
      /\ e \in Seq(Nat) /\ Len(e) = 1 /\ e[1] = L + 1
  BY <1>2, <1>5
<1>7. PICK u : u = r \o e
  OBVIOUS
<1>8. /\ u \in Seq(Nat) /\ Len(u) = Len(r) + 1
      /\ \A k \in 1 .. Len(r) + 1 : u[k] = IF k <= Len(r) THEN r[k] ELSE e[k - Len(r)]
  <2>1. /\ r \o e \in Seq(Nat) /\ Len(r \o e) = Len(r) + Len(e)
        /\ \A k \in 1 .. Len(r) + Len(e) : (r \o e)[k] = IF k <= Len(r) THEN r[k] ELSE e[k - Len(r)]
    BY <1>3, <1>6, ConcatProperties
  <2> QED
    BY ONLY <1>6, <1>7, <2>1
<1>9. /\ t \in Seq(Nat) /\ Len(t) = 3 + (Len(r) + 1)
      /\ \A k \in 1 .. 3 + (Len(r) + 1) : t[k] = IF k <= 3 THEN h[k] ELSE u[k - 3]
  BY <1>4, <1>5, <1>6, <1>7, <1>8, ConcatProperties
<1>10. t[1] = x /\ t[2] = y /\ t[3] = z
  <2>1. /\ 1 \in 1 .. 3 + (Len(r) + 1) /\ 2 \in 1 .. 3 + (Len(r) + 1) /\ 3 \in 1 .. 3 + (Len(r) + 1)
        /\ 1 <= 3 /\ 2 <= 3 /\ 3 <= 3
    BY <1>3
  <2> QED
    BY ONLY <1>6, <1>9, <2>1
<1>11. ASSUME NEW k \in 1 .. Len(r) PROVE t[k + 3] = r[k]
  <2>1. /\ k \in Int /\ k + 3 \in 1 .. 3 + (Len(r) + 1) /\ ~(k + 3 <= 3) /\ k + 3 - 3 = k
        /\ k \in 1 .. Len(r) + 1 /\ k <= Len(r)
    BY <1>3
  <2>2. t[k + 3] = u[k + 3 - 3] /\ u[k] = r[k]
    BY ONLY <1>8, <1>9, <2>1
  <2> QED
    BY ONLY <2>1, <2>2
<1>12. t[Len(r) + 4] = L + 1
  <2>1. /\ Len(r) + 4 \in 1 .. 3 + (Len(r) + 1) /\ ~(Len(r) + 4 <= 3) /\ Len(r) + 4 - 3 = Len(r) + 1
        /\ Len(r) + 1 \in 1 .. Len(r) + 1 /\ ~(Len(r) + 1 <= Len(r)) /\ Len(r) + 1 - Len(r) = 1
    BY <1>3
  <2>2. t[Len(r) + 4] = u[Len(r) + 1]
    BY <1>9, <2>1
  <2> QED
    BY <1>6, <1>8, <2>1, <2>2
<1>13. ASSUME NEW k \in 1 .. Len(r) + 3 PROVE t[k] <= L
  <2>1. CASE k <= 3
    <3>1. k = 1 \/ k = 2 \/ k = 3
      BY <1>3, <2>1
    <3> QED
      BY <1>2, <1>10, <3>1
  <2>2. CASE ~(k <= 3)
    <3>1. k - 3 \in 1 .. Len(r) /\ k = (k - 3) + 3
      BY <1>3, <2>2
    <3> QED
      BY <1>3, <1>11, <3>1
  <2> QED
    BY <2>1, <2>2
<1> QED
  BY <1>2, <1>3, <1>9, <1>10, <1>11, <1>12, <1>13 DEF TupleIs
-----------------------------------------------------------------------------
(* Tuples that only end with a number above all their others.                *)
Terminated(t, n) ==
  /\ t \in Seq(Nat) /\ n \in Nat /\ Len(t) = n + 1
  /\ t[n + 1] = Len(Alphabet) + 1
  /\ \A k \in 1 .. n : t[k] <= Len(Alphabet)

LEMMA TerminatedPlaces ==
  ASSUME NEW t, NEW n, Terminated(t, n)
  PROVE  /\ n \in Nat /\ DOMAIN t = 1 .. n + 1
         /\ \A k \in 1 .. n + 1 : t[k] \in Nat
  BY LenProperties, ElementOfSeq DEF Terminated

(* Of two that differ one comes first.                                       *)
LEMMA LexicographicTotal ==
  ASSUME NEW a, NEW m, Terminated(a, m), NEW b, NEW n, Terminated(b, n), a # b
  PROVE  LexicographicallyBefore(a, b) \/ LexicographicallyBefore(b, a)
<1>1. /\ m \in Nat /\ DOMAIN a = 1 .. m + 1 /\ \A k \in 1 .. m + 1 : a[k] \in Nat
      /\ n \in Nat /\ DOMAIN b = 1 .. n + 1 /\ \A k \in 1 .. n + 1 : b[k] \in Nat
  BY TerminatedPlaces
<1>2. PICK L \in Nat : L = Len(Alphabet)
  BY RankOfToken
<1>3. /\ a[m + 1] = L + 1 /\ \A k \in 1 .. m : a[k] <= L
      /\ b[n + 1] = L + 1 /\ \A k \in 1 .. n : b[k] <= L
  BY <1>2 DEF Terminated
<1>4. PICK D : D = {k \in (1 .. m + 1) \cap (1 .. n + 1) : a[k] # b[k]}
  OBVIOUS
<1>5. D # {}
  <2> SUFFICES ASSUME D = {} PROVE FALSE
    OBVIOUS
  <2>1. \A k \in (1 .. m + 1) \cap (1 .. n + 1) : a[k] = b[k]
    BY <1>4
  <2>2. ~(m < n)
    <3> SUFFICES ASSUME m < n PROVE FALSE
      OBVIOUS
    <3>1. m + 1 \in (1 .. m + 1) \cap (1 .. n + 1) /\ m + 1 \in 1 .. n
      BY <1>1
    <3> QED
      BY <1>2, <1>3, <2>1, <3>1
  <2>3. ~(n < m)
    <3> SUFFICES ASSUME n < m PROVE FALSE
      OBVIOUS
    <3>1. n + 1 \in (1 .. m + 1) \cap (1 .. n + 1) /\ n + 1 \in 1 .. m
      BY <1>1
    <3> QED
      BY <1>2, <1>3, <2>1, <3>1
  <2>4. m = n
    BY <1>1, <2>2, <2>3
  <2>5. a \in Seq(Nat) /\ b \in Seq(Nat) /\ Len(a) = m + 1 /\ Len(b) = m + 1
    BY <2>4 DEF Terminated
  <2>6. \A k \in 1 .. Len(a) : a[k] = b[k]
    BY <2>1, <2>4, <2>5
  <2> QED
    BY <2>5, <2>6, SeqEqual
<1>6. PICK k \in D : \A j \in D : k <= j
  <2>1. D \in SUBSET Nat
    BY <1>1, <1>4
  <2> QED
    BY <1>5, <2>1, LeastExists
<1>7. k \in DOMAIN a \cap DOMAIN b /\ a[k] \in Nat /\ b[k] \in Nat /\ a[k] # b[k] /\ k \in Nat
  BY <1>1, <1>4
<1>8. \A j \in 1 .. k - 1 : a[j] = b[j]
  <2> SUFFICES ASSUME NEW j \in 1 .. k - 1, a[j] # b[j] PROVE FALSE
    OBVIOUS
  <2>1. k \in 1 .. m + 1 /\ k \in 1 .. n + 1
    BY <1>1, <1>7
  <2>2. j \in 1 .. m + 1 /\ j \in 1 .. n + 1 /\ ~(k <= j)
    BY <1>1, <2>1
  <2>3. j \in D
    BY <1>4, <2>2
  <2> QED
    BY <1>6, <2>2, <2>3
<1>9. a[k] < b[k] \/ b[k] < a[k]
  BY <1>7
<1> QED
  BY <1>7, <1>8, <1>9 DEF LexicographicallyBefore

LEMMA LexicographicIrreflexive ==
  ASSUME NEW a, NEW m, Terminated(a, m)
  PROVE  ~LexicographicallyBefore(a, a)
  BY TerminatedPlaces DEF LexicographicallyBefore

LEMMA LexicographicTransitive ==
  ASSUME NEW a, NEW m, Terminated(a, m), NEW b, NEW n, Terminated(b, n), NEW c, NEW l, Terminated(c, l),
         LexicographicallyBefore(a, b), LexicographicallyBefore(b, c)
  PROVE  LexicographicallyBefore(a, c)
<1>1. /\ m \in Nat /\ DOMAIN a = 1 .. m + 1 /\ \A k \in 1 .. m + 1 : a[k] \in Nat
      /\ n \in Nat /\ DOMAIN b = 1 .. n + 1 /\ \A k \in 1 .. n + 1 : b[k] \in Nat
      /\ l \in Nat /\ DOMAIN c = 1 .. l + 1 /\ \A k \in 1 .. l + 1 : c[k] \in Nat
  BY TerminatedPlaces
<1>2. PICK i \in (1 .. m + 1) \cap (1 .. n + 1) : a[i] < b[i] /\ \A k \in 1 .. i - 1 : a[k] = b[k]
  BY <1>1 DEF LexicographicallyBefore
<1>3. PICK j \in (1 .. n + 1) \cap (1 .. l + 1) : b[j] < c[j] /\ \A k \in 1 .. j - 1 : b[k] = c[k]
  BY <1>1 DEF LexicographicallyBefore
<1>4. /\ i \in Nat /\ 1 <= i /\ i <= m + 1 /\ i <= n + 1
      /\ j \in Nat /\ 1 <= j /\ j <= n + 1 /\ j <= l + 1
  BY <1>1
<1>5. CASE i <= j
  <2>1. i \in DOMAIN a \cap DOMAIN c /\ a[i] \in Nat /\ b[i] \in Nat /\ c[i] \in Nat
    BY <1>1, <1>4, <1>5
  <2>2. b[i] <= c[i]
    <3>1. CASE i = j
      BY <1>3, <2>1, <3>1
    <3>2. CASE i < j
      <4>1. i \in 1 .. j - 1
        BY <1>4, <3>2
      <4> QED
        BY <1>3, <2>1, <4>1
    <3> QED
      BY <1>4, <1>5, <3>1, <3>2
  <2>3. a[i] < c[i]
    BY <1>2, <2>1, <2>2
  <2>4. \A k \in 1 .. i - 1 : a[k] = c[k]
    <3> SUFFICES ASSUME NEW k \in 1 .. i - 1 PROVE a[k] = c[k]
      OBVIOUS
    <3>1. k \in 1 .. j - 1
      BY <1>4, <1>5
    <3> QED
      BY <1>2, <1>3, <3>1
  <2> QED
    BY <2>1, <2>3, <2>4 DEF LexicographicallyBefore
<1>6. CASE j < i
  <2>1. j \in DOMAIN a \cap DOMAIN c /\ j \in 1 .. i - 1
    BY <1>1, <1>4, <1>6
  <2>2. a[j] < c[j]
    BY <1>2, <1>3, <2>1
  <2>3. \A k \in 1 .. j - 1 : a[k] = c[k]
    <3> SUFFICES ASSUME NEW k \in 1 .. j - 1 PROVE a[k] = c[k]
      OBVIOUS
    <3>1. k \in 1 .. i - 1
      BY <1>4, <1>6
    <3> QED
      BY <1>2, <1>3, <3>1
  <2> QED
    BY <2>1, <2>2, <2>3 DEF LexicographicallyBefore
<1> QED
  BY <1>4, <1>5, <1>6

(* The tuple of a card ends so, and stands for the card.                     *)
LEMMA TupleTerminated ==
  ASSUME NEW i \in CanonicalCards
  PROVE  \E n \in Nat : Terminated(InstrumentSortTuple(i), n)
<1>1. PICK r, t : r = RanksOf(i.memberships) /\ t = InstrumentSortTuple(i)
  OBVIOUS
<1>2. /\ t \in Seq(Nat) /\ r \in Seq(Nat) /\ Len(t) = Len(r) + 4
      /\ t[Len(r) + 4] = Len(Alphabet) + 1
      /\ \A k \in 1 .. Len(r) + 3 : t[k] <= Len(Alphabet)
  BY <1>1, TuplePlaces DEF TupleIs
<1>3. PICK n \in Nat : n = Len(r) + 3 /\ n + 1 = Len(r) + 4
  BY <1>2, LenProperties
<1>4. Terminated(t, n)
  BY ONLY <1>2, <1>3 DEF Terminated
<1> QED
  BY <1>1, <1>4

LEMMA TupleInjective ==
  ASSUME NEW i \in CanonicalCards, NEW j \in CanonicalCards,
         InstrumentSortTuple(i) = InstrumentSortTuple(j)
  PROVE  i = j
<1>1. PICK r, q, t : /\ r = RanksOf(i.memberships) /\ q = RanksOf(j.memberships)
                     /\ t = InstrumentSortTuple(i) /\ t = InstrumentSortTuple(j)
  OBVIOUS
<1>2. TupleIs(t, i, r) /\ TupleIs(t, j, q)
  BY <1>1, TuplePlaces
<1>3. /\ r \in Seq(Nat) /\ Len(t) = Len(r) + 4 /\ q \in Seq(Nat) /\ Len(t) = Len(q) + 4
      /\ Rank(i.family) = Rank(j.family) /\ Rank(i.network) = Rank(j.network)
      /\ Rank(i.tier) = Rank(j.tier)
      /\ \A k \in 1 .. Len(r) : t[k + 3] = r[k]
      /\ \A k \in 1 .. Len(q) : t[k + 3] = q[k]
  BY <1>2, Zenon DEF TupleIs
<1>4. r = q
  <2>1. Len(r) \in Nat /\ Len(q) \in Nat
    BY <1>3, LenProperties
  <2>2. Len(r) = Len(q)
    BY <1>3, <2>1
  <2>3. \A k \in 1 .. Len(r) : r[k] = q[k]
    BY <1>3, <2>2
  <2> QED
    BY <1>3, <2>2, <2>3, SeqEqual
<1>5. /\ i.family \in {None} \cup Tokens /\ i.network \in {None} \cup Tokens
      /\ i.tier \in {None} \cup Tokens /\ i.memberships \in {None} \cup (Seq(Tokens) \ {<<>>})
      /\ j.family \in {None} \cup Tokens /\ j.network \in {None} \cup Tokens
      /\ j.tier \in {None} \cup Tokens /\ j.memberships \in {None} \cup (Seq(Tokens) \ {<<>>})
  BY DEF CanonicalCards
<1>6. i.family = j.family /\ i.network = j.network /\ i.tier = j.tier
  BY <1>3, <1>5, RankOfToken
<1>7. i.memberships = j.memberships
  BY <1>1, <1>4, <1>5, MembershipsOfRanks
<1>8. /\ i = [family |-> i.family, network |-> i.network, tier |-> i.tier, memberships |-> i.memberships]
      /\ j = [family |-> j.family, network |-> j.network, tier |-> j.tier, memberships |-> j.memberships]
  BY DEF CanonicalCards
<1> QED
  BY ONLY <1>6, <1>7, <1>8

(* The comparator ties only what is the same card.                           *)
LEMMA CardsInOrder ==
  ASSUME NEW S \in SUBSET CanonicalCards
  PROVE  StrictOrder({p \in S \X S : CompareInstrument(p[1], p[2])}, S)
<1>1. PICK before : before = {p \in S \X S : CompareInstrument(p[1], p[2])}
  OBVIOUS
<1>2. \A x, y \in S : <<x, y>> \in before <=> CompareInstrument(x, y)
  BY <1>1
<1>3. \A x \in S : ~CompareInstrument(x, x)
  BY TupleTerminated, LexicographicIrreflexive DEF CompareInstrument
<1>4. ASSUME NEW x \in S, NEW y \in S, NEW z \in S, CompareInstrument(x, y), CompareInstrument(y, z)
      PROVE  CompareInstrument(x, z)
  <2>1. PICK m, n, l : /\ Terminated(InstrumentSortTuple(x), m) /\ Terminated(InstrumentSortTuple(y), n)
                       /\ Terminated(InstrumentSortTuple(z), l)
    BY TupleTerminated
  <2> QED
    BY <1>4, <2>1, LexicographicTransitive DEF CompareInstrument
<1>5. ASSUME NEW x \in S, NEW y \in S, x # y
      PROVE  CompareInstrument(x, y) \/ CompareInstrument(y, x)
  <2>1. PICK m, n : Terminated(InstrumentSortTuple(x), m) /\ Terminated(InstrumentSortTuple(y), n)
    BY TupleTerminated
  <2>2. InstrumentSortTuple(x) # InstrumentSortTuple(y)
    BY <1>5, TupleInjective
  <2> QED
    BY <2>1, <2>2, LexicographicTotal DEF CompareInstrument
<1>6. StrictOrder(before, S)
  BY <1>2, <1>3, <1>4, <1>5 DEF StrictOrder
<1> QED
  BY <1>1, <1>6

LEMMA TokensInOrder ==
  ASSUME NEW S \in SUBSET Tokens
  PROVE  StrictOrder({p \in S \X S : Rank(p[1]) < Rank(p[2])}, S)
<1>1. PICK before : before = {p \in S \X S : Rank(p[1]) < Rank(p[2])}
  OBVIOUS
<1>2. \A x, y \in S : <<x, y>> \in before <=> Rank(x) < Rank(y)
  BY <1>1
<1>3. /\ \A x \in S : Rank(x) \in Nat
      /\ \A x, y \in S : Rank(x) = Rank(y) => x = y
  BY RankOfToken
<1>4. /\ \A x \in S : ~(Rank(x) < Rank(x))
      /\ \A x, y, z \in S : Rank(x) < Rank(y) /\ Rank(y) < Rank(z) => Rank(x) < Rank(z)
      /\ \A x, y \in S : x # y => Rank(x) < Rank(y) \/ Rank(y) < Rank(x)
  BY <1>3
<1>5. StrictOrder(before, S)
  BY <1>2, <1>4 DEF StrictOrder
<1> QED
  BY <1>1, <1>5
-----------------------------------------------------------------------------
TokenOrder(T) == {p \in T \X T : Rank(p[1]) < Rank(p[2])}
CanonicalList(T) == IF T = {} THEN None ELSE Sorted(T, TokenOrder(T))

(* A list in canonical form has its tokens, and no other list has the same.  *)
LEMMA CanonicalListKeeps ==
  ASSUME NEW T \in SUBSET Tokens, IsFiniteSet(T)
  PROVE  /\ CanonicalList(T) \in {None} \cup (Seq(Tokens) \ {<<>>})
         /\ T = IF CanonicalList(T) = None THEN {} ELSE ToSet(CanonicalList(T))
<1>1. CASE T = {}
  BY <1>1 DEF CanonicalList
<1>2. CASE T # {}
  <2>1. PICK s : s = Sorted(T, TokenOrder(T)) /\ s = CanonicalList(T)
    BY <1>2 DEF CanonicalList
  <2>2. s \in Seq(T) /\ ToSet(s) = T
    BY <2>1, TokensInOrder, SortedKeeps DEF TokenOrder
  <2>3. s # <<>>
    BY <1>2, <2>2 DEF ToSet
  <2>4. s \in Seq(Tokens)
    BY <2>2, SeqMonotonic
  <2>5. s # None
    BY <2>4, AlphabetAssumption
  <2> QED
    BY <2>1, <2>2, <2>3, <2>4, <2>5
<1> QED
  BY <1>1, <1>2

FilledTexts(texts) == texts \in {None} \cup Seq(Texts) /\ (texts # None => Filled(ToSet(texts)))
TokensOf(texts) == IF texts = None THEN {} ELSE {x.token : x \in ToSet(texts)}

(* Memberships are normalized to what depends on their tokens only.          *)
LEMMA MembershipsByTokens ==
  ASSUME NEW texts, FilledTexts(texts)
  PROVE  /\ TokensOf(texts) \in SUBSET Tokens /\ IsFiniteSet(TokensOf(texts))
         /\ NormalizeMemberships(texts) = CanonicalList(TokensOf(texts))
<1>1. CASE texts = None
  <2>1. TokensOf(texts) = {}
    BY <1>1 DEF TokensOf
  <2> QED
    BY <1>1, <2>1, FS_EmptySet DEF NormalizeMemberships, CanonicalList
<1>2. CASE texts # None
  <2>1. texts \in Seq(Texts) /\ DOMAIN texts = 1 .. Len(texts) /\ Len(texts) \in Nat
    BY <1>2, LenProperties DEF FilledTexts
  <2>2. \A k \in 1 .. Len(texts) : texts[k] \in Texts /\ texts[k].token # None
    BY <1>2, <2>1, ElementOfSeq DEF FilledTexts, Filled, ToSet
  <2>3. \A k \in 1 .. Len(texts) : texts[k].token \in Tokens
    BY <2>2 DEF Texts
  <2>4. PICK s : s = [k \in 1 .. Len(texts) |-> texts[k].token]
    OBVIOUS
  <2>5. s \in Seq(Tokens) /\ DOMAIN s = 1 .. Len(texts)
    BY <2>1, <2>3, <2>4
  <2>6. ToSet(s) = TokensOf(texts)
    BY <1>2, <2>1, <2>4, <2>5 DEF ToSet, TokensOf
  <2>7. ToSet(s) \in SUBSET Tokens
    BY <2>3, <2>4, <2>5 DEF ToSet
  <2>8. StrictOrder(TokenOrder(ToSet(s)), ToSet(s))
    BY <2>7, TokensInOrder DEF TokenOrder
  <2>9. IsFiniteSet(ToSet(s)) /\ SortedDistinct(s, TokenOrder(ToSet(s))) = Sorted(ToSet(s), TokenOrder(ToSet(s)))
    BY <2>5, <2>8, SortedDistinctSorts
  <2>10. CASE texts = <<>>
    <3>1. TokensOf(texts) = {}
      BY <2>10, <2>6 DEF TokensOf, ToSet
    <3> QED
      BY <2>6, <2>9, <2>10, <3>1 DEF NormalizeMemberships, CanonicalList
  <2>11. CASE texts # <<>>
    <3>1. TokensOf(texts) # {}
      <4>1. 1 \in 1 .. Len(texts)
        BY <2>1, <2>11, EmptySeq
      <4> QED
        BY <2>4, <2>5, <2>6, <4>1 DEF ToSet
    <3>2. NormalizeMemberships(texts) = SortedDistinct(s, TokenOrder(ToSet(s)))
      BY <1>2, <2>1, <2>4, <2>11 DEF NormalizeMemberships, TokenOrder
    <3> QED
      BY <2>6, <2>7, <2>9, <3>1, <3>2 DEF CanonicalList
  <2> QED
    BY <2>10, <2>11
<1> QED
  BY <1>1, <1>2

MeaningOfCard(i) == <<i.family, i.network, {x.token : x \in TierOf(i)}, {x.token : x \in MembershipsOf(i)}>>
FilledCard(i) == WrittenCard(i) /\ Filled(TierOf(i) \cup MembershipsOf(i))

LEMMA FilledFields ==
  ASSUME NEW i, FilledCard(i)
  PROVE  /\ i.family \in Tokens /\ i.network \in {None} \cup Tokens
         /\ i.tier \in {None} \cup Texts /\ (i.tier # None => i.tier.token \in Tokens)
         /\ FilledTexts(i.memberships)
         /\ {x.token : x \in TierOf(i)} = IF i.tier = None THEN {} ELSE {i.tier.token}
         /\ {x.token : x \in MembershipsOf(i)} = TokensOf(i.memberships)
<1>1. /\ i.family \in Tokens /\ i.network \in {None} \cup Tokens
      /\ i.tier \in {None} \cup Texts /\ i.memberships \in {None} \cup Seq(Texts)
  BY DEF FilledCard, WrittenCard
<1>2. \A x \in TierOf(i) \cup MembershipsOf(i) : x.token # None
  BY DEF FilledCard, Filled
<1>3. TierOf(i) = IF i.tier = None THEN {} ELSE {i.tier}
  BY DEF TierOf, When
<1>4. i.tier # None => i.tier.token \in Tokens
  BY <1>1, <1>2, <1>3 DEF Texts
<1>5. FilledTexts(i.memberships)
  BY <1>1, <1>2 DEF FilledTexts, MembershipsOf, Filled
<1> QED
  BY <1>1, <1>3, <1>4, <1>5 DEF MembershipsOf, TokensOf

(* A card in canonical form stands for what it means.                        *)
LEMMA CardByMeaning ==
  ASSUME NEW i, FilledCard(i)
  PROVE  /\ NormalizeInstrument(i) \in CanonicalCards
         /\ \A j : FilledCard(j) =>
              (NormalizeInstrument(i) = NormalizeInstrument(j) <=> MeaningOfCard(i) = MeaningOfCard(j))
<1>1. ASSUME NEW k, FilledCard(k)
      PROVE  /\ NormalizeInstrument(k) \in CanonicalCards
             /\ NormalizeInstrument(k) =
                  [family |-> k.family, network |-> k.network,
                   tier |-> IF k.tier = None THEN None ELSE k.tier.token,
                   memberships |-> CanonicalList(TokensOf(k.memberships))]
             /\ MeaningOfCard(k) = <<k.family, k.network, IF k.tier = None THEN {} ELSE {k.tier.token},
                                     TokensOf(k.memberships)>>
             /\ TokensOf(k.memberships) \in SUBSET Tokens /\ IsFiniteSet(TokensOf(k.memberships))
             /\ k.tier # None => k.tier.token # None
  <2>1. /\ k.family \in Tokens /\ k.network \in {None} \cup Tokens
        /\ (k.tier # None => k.tier.token \in Tokens) /\ FilledTexts(k.memberships)
    BY <1>1, FilledFields
  <2>2. /\ TokensOf(k.memberships) \in SUBSET Tokens /\ IsFiniteSet(TokensOf(k.memberships))
        /\ NormalizeMemberships(k.memberships) = CanonicalList(TokensOf(k.memberships))
    BY <2>1, MembershipsByTokens
  <2>3. CanonicalList(TokensOf(k.memberships)) \in {None} \cup (Seq(Tokens) \ {<<>>})
    BY <2>2, CanonicalListKeeps
  <2>4. NormalizeInstrument(k) =
          [family |-> k.family, network |-> k.network,
           tier |-> IF k.tier = None THEN None ELSE k.tier.token,
           memberships |-> CanonicalList(TokensOf(k.memberships))]
    BY <2>2 DEF NormalizeInstrument
  <2>5. NormalizeInstrument(k) \in CanonicalCards
    BY <2>1, <2>3, <2>4 DEF CanonicalCards
  <2>6. MeaningOfCard(k) = <<k.family, k.network, IF k.tier = None THEN {} ELSE {k.tier.token},
                             TokensOf(k.memberships)>>
    BY <1>1, FilledFields DEF MeaningOfCard
  <2>7. k.tier # None => k.tier.token # None
    BY <2>1, AlphabetAssumption
  <2> QED
    BY <2>2, <2>4, <2>5, <2>6, <2>7
<1>2. ASSUME NEW j, FilledCard(j)
      PROVE  NormalizeInstrument(i) = NormalizeInstrument(j) <=> MeaningOfCard(i) = MeaningOfCard(j)
  <2>1. PICK t, u, T, U : /\ t = IF i.tier = None THEN None ELSE i.tier.token
                          /\ u = IF j.tier = None THEN None ELSE j.tier.token
                          /\ T = TokensOf(i.memberships) /\ U = TokensOf(j.memberships)
    OBVIOUS
  <2>2. /\ T \in SUBSET Tokens /\ IsFiniteSet(T) /\ U \in SUBSET Tokens /\ IsFiniteSet(U)
        /\ (i.tier = None <=> t = None) /\ (j.tier = None <=> u = None)
    BY <1>1, <1>2, <2>1
  <2>3. CanonicalList(T) = CanonicalList(U) => T = U
    BY <2>2, CanonicalListKeeps
  <2>4. NormalizeInstrument(i) = NormalizeInstrument(j) <=>
          i.family = j.family /\ i.network = j.network /\ t = u /\ CanonicalList(T) = CanonicalList(U)
    BY <1>1, <1>2, <2>1
  <2>5. PICK tier, other : /\ tier = IF i.tier = None THEN {} ELSE {i.tier.token}
                           /\ other = IF j.tier = None THEN {} ELSE {j.tier.token}
    OBVIOUS
  <2>6. tier = other <=> t = u
    BY <2>1, <2>2, <2>5
  <2>7. MeaningOfCard(i) = MeaningOfCard(j) <=>
          i.family = j.family /\ i.network = j.network /\ tier = other /\ T = U
    BY <1>1, <1>2, <2>1, <2>5
  <2> QED
    BY <2>3, <2>4, <2>6, <2>7
<1> QED
  BY <1>1, <1>2
-----------------------------------------------------------------------------
(* The cards of a portfolio are normalized to what depends on which they are.*)
CardOrder(S) == {p \in S \X S : CompareInstrument(p[1], p[2])}
NormalizedCards(cards) ==
  LET normal == [n \in DOMAIN cards |-> NormalizeInstrument(cards[n])]
  IN SortedDistinct(normal, CardOrder(ToSet(normal)))
FilledCards(cards) == (\E W : cards \in Seq(W)) /\ \A i \in ToSet(cards) : FilledCard(i)
NormalOf(cards) == {NormalizeInstrument(i) : i \in ToSet(cards)}

LEMMA CardsBySet ==
  ASSUME NEW cards, FilledCards(cards)
  PROVE  /\ NormalOf(cards) \in SUBSET CanonicalCards /\ IsFiniteSet(NormalOf(cards))
         /\ NormalizedCards(cards) = Sorted(NormalOf(cards), CardOrder(NormalOf(cards)))
         /\ NormalizedCards(cards) \in Seq(CanonicalCards)
         /\ ToSet(NormalizedCards(cards)) = NormalOf(cards)
<1>1. PICK W : cards \in Seq(W)
  BY DEF FilledCards
<1>2. DOMAIN cards = 1 .. Len(cards) /\ Len(cards) \in Nat
  BY <1>1, LenProperties
<1>3. PICK normal : normal = [n \in DOMAIN cards |-> NormalizeInstrument(cards[n])]
  OBVIOUS
<1>4. \A n \in 1 .. Len(cards) : NormalizeInstrument(cards[n]) \in CanonicalCards
  BY <1>2, CardByMeaning DEF FilledCards, ToSet
<1>5. normal \in Seq(CanonicalCards) /\ DOMAIN normal = DOMAIN cards
  BY <1>2, <1>3, <1>4
<1>6. ToSet(normal) = NormalOf(cards) /\ NormalOf(cards) \in SUBSET CanonicalCards
  <2>1. ToSet(normal) = NormalOf(cards)
    BY <1>3 DEF ToSet, NormalOf
  <2>2. NormalOf(cards) \subseteq CanonicalCards
    BY CardByMeaning DEF FilledCards, NormalOf
  <2> QED
    BY <2>1, <2>2
<1>7. StrictOrder(CardOrder(NormalOf(cards)), NormalOf(cards))
  BY <1>6, CardsInOrder DEF CardOrder
<1>8. /\ IsFiniteSet(NormalOf(cards))
      /\ SortedDistinct(normal, CardOrder(NormalOf(cards))) = Sorted(NormalOf(cards), CardOrder(NormalOf(cards)))
  BY <1>5, <1>6, <1>7, SortedDistinctSorts
<1>9. NormalizedCards(cards) = SortedDistinct(normal, CardOrder(NormalOf(cards)))
  BY <1>3, <1>6 DEF NormalizedCards
<1>10. /\ Sorted(NormalOf(cards), CardOrder(NormalOf(cards))) \in Seq(NormalOf(cards))
       /\ ToSet(Sorted(NormalOf(cards), CardOrder(NormalOf(cards)))) = NormalOf(cards)
  BY <1>7, <1>8, SortedKeeps
<1>11. Sorted(NormalOf(cards), CardOrder(NormalOf(cards))) \in Seq(CanonicalCards)
  BY <1>6, <1>10, SeqMonotonic
<1> QED
  BY <1>6, <1>8, <1>9, <1>10, <1>11

MeaningOfCards(cards) == {MeaningOfCard(i) : i \in ToSet(cards)}

LEMMA CardsByMeaning ==
  ASSUME NEW cards, FilledCards(cards), NEW other, FilledCards(other)
  PROVE  NormalizedCards(cards) = NormalizedCards(other) <=> MeaningOfCards(cards) = MeaningOfCards(other)
<1>1. \A i \in ToSet(cards), j \in ToSet(other) :
        NormalizeInstrument(i) = NormalizeInstrument(j) <=> MeaningOfCard(i) = MeaningOfCard(j)
  BY CardByMeaning DEF FilledCards
<1>2. NormalOf(cards) = NormalOf(other) <=> MeaningOfCards(cards) = MeaningOfCards(other)
  <2>1. ASSUME NormalOf(cards) = NormalOf(other) PROVE MeaningOfCards(cards) = MeaningOfCards(other)
    <3>1. ASSUME NEW i \in ToSet(cards) PROVE MeaningOfCard(i) \in MeaningOfCards(other)
      <4>1. PICK j \in ToSet(other) : NormalizeInstrument(i) = NormalizeInstrument(j)
        BY <2>1 DEF NormalOf
      <4> QED
        BY <1>1, <4>1 DEF MeaningOfCards
    <3>2. ASSUME NEW j \in ToSet(other) PROVE MeaningOfCard(j) \in MeaningOfCards(cards)
      <4>1. PICK i \in ToSet(cards) : NormalizeInstrument(i) = NormalizeInstrument(j)
        BY <2>1 DEF NormalOf
      <4> QED
        BY <1>1, <4>1 DEF MeaningOfCards
    <3> QED
      BY <3>1, <3>2 DEF MeaningOfCards
  <2>2. ASSUME MeaningOfCards(cards) = MeaningOfCards(other) PROVE NormalOf(cards) = NormalOf(other)
    <3>1. ASSUME NEW i \in ToSet(cards) PROVE NormalizeInstrument(i) \in NormalOf(other)
      <4>1. PICK j \in ToSet(other) : MeaningOfCard(i) = MeaningOfCard(j)
        BY <2>2 DEF MeaningOfCards
      <4> QED
        BY <1>1, <4>1 DEF NormalOf
    <3>2. ASSUME NEW j \in ToSet(other) PROVE NormalizeInstrument(j) \in NormalOf(cards)
      <4>1. PICK i \in ToSet(cards) : MeaningOfCard(i) = MeaningOfCard(j)
        BY <2>2 DEF MeaningOfCards
      <4> QED
        BY <1>1, <4>1 DEF NormalOf
    <3> QED
      BY <3>1, <3>2 DEF NormalOf
  <2> QED
    BY <2>1, <2>2
<1>3. NormalizedCards(cards) = NormalizedCards(other) <=> NormalOf(cards) = NormalOf(other)
  <2>1. /\ ToSet(NormalizedCards(cards)) = NormalOf(cards)
        /\ NormalizedCards(cards) = Sorted(NormalOf(cards), CardOrder(NormalOf(cards)))
    BY CardsBySet
  <2>2. /\ ToSet(NormalizedCards(other)) = NormalOf(other)
        /\ NormalizedCards(other) = Sorted(NormalOf(other), CardOrder(NormalOf(other)))
    BY CardsBySet
  <2> QED
    BY ONLY <2>1, <2>2
<1> QED
  BY <1>2, <1>3

(* A card in canonical form, read back, is a card as it may be written, and  *)
(* means what was written.                                                   *)
ReadTexts(list) == IF list = None THEN None ELSE [k \in DOMAIN list |-> Text(list[k])]
ReadCard(i) ==
  [i EXCEPT !.tier = IF @ = None THEN None ELSE Text(@),
            !.memberships = IF @ = None THEN None ELSE [k \in DOMAIN @ |-> Text(@[k])]]

LEMMA ReadCardFields ==
  ASSUME NEW c \in CanonicalCards
  PROVE  ReadCard(c) = [family |-> c.family, network |-> c.network,
                        tier |-> IF c.tier = None THEN None ELSE Text(c.tier),
                        memberships |-> ReadTexts(c.memberships)]
<1>1. c = [family |-> c.family, network |-> c.network, tier |-> c.tier, memberships |-> c.memberships]
  BY DEF CanonicalCards
<1>2. PICK f, n, t, m : /\ c = [family |-> f, network |-> n, tier |-> t, memberships |-> m]
                        /\ f = c.family /\ n = c.network /\ t = c.tier /\ m = c.memberships
  BY ONLY <1>1, Zenon
<1>3. PICK u, v : u = (IF t = None THEN None ELSE Text(t)) /\ v = ReadTexts(m)
  OBVIOUS
<1>4. PICK a : a = [c EXCEPT !.tier = u]
  BY ONLY Zenon
<1>5. a = [family |-> f, network |-> n, tier |-> u, memberships |-> m]
  BY ONLY <1>2, <1>4
<1>6. [a EXCEPT !.memberships = v] = [family |-> f, network |-> n, tier |-> u, memberships |-> v]
  BY ONLY <1>5
<1>7. ReadCard(c) = [a EXCEPT !.memberships = v]
  BY ONLY <1>2, <1>3, <1>4 DEF ReadCard, ReadTexts
<1> QED
  BY ONLY <1>2, <1>3, <1>6, <1>7

LEMMA ReadTextsBack ==
  ASSUME NEW T \in SUBSET Tokens, IsFiniteSet(T)
  PROVE  /\ FilledTexts(ReadTexts(CanonicalList(T)))
         /\ TokensOf(ReadTexts(CanonicalList(T))) = T
<1>1. PICK s : s = CanonicalList(T)
  OBVIOUS
<1>2. s \in {None} \cup (Seq(Tokens) \ {<<>>}) /\ T = IF s = None THEN {} ELSE ToSet(s)
  BY <1>1, CanonicalListKeeps
<1>3. CASE s = None
  BY <1>1, <1>2, <1>3 DEF ReadTexts, FilledTexts, TokensOf
<1>4. CASE s # None
  <2>1. s \in Seq(Tokens) /\ DOMAIN s = 1 .. Len(s) /\ Len(s) \in Nat /\ ToSet(s) = T
    BY <1>2, <1>4, LenProperties
  <2>2. \A k \in 1 .. Len(s) : s[k] \in Tokens /\ s[k] # None
    BY <2>1, ElementOfSeq, AlphabetAssumption
  <2>3. PICK r : r = [k \in 1 .. Len(s) |-> Text(s[k])]
    OBVIOUS
  <2>4. \A k \in 1 .. Len(s) : Text(s[k]) \in Texts /\ Text(s[k]).token = s[k]
    BY <2>2 DEF Text, Texts
  <2>5. r \in Seq(Texts) /\ DOMAIN r = 1 .. Len(s)
    BY <2>1, <2>3, <2>4
  <2>6. r # None
    BY <2>5, AlphabetAssumption
  <2>7. r = ReadTexts(s)
    BY <1>4, <2>1, <2>3 DEF ReadTexts
  <2>8. \A k \in 1 .. Len(s) : r[k].token = s[k]
    BY <2>3, <2>4
  <2>9. {x.token : x \in ToSet(r)} = ToSet(s)
    BY <2>1, <2>5, <2>8 DEF ToSet
  <2>10. Filled(ToSet(r))
    BY <2>2, <2>5, <2>8 DEF Filled, ToSet
  <2> QED
    BY <1>1, <2>1, <2>5, <2>6, <2>7, <2>9, <2>10 DEF FilledTexts, TokensOf
<1> QED
  BY <1>3, <1>4

LEMMA CardReadBack ==
  ASSUME NEW i, FilledCard(i)
  PROVE  /\ FilledCard(ReadCard(NormalizeInstrument(i)))
         /\ NormalizeInstrument(ReadCard(NormalizeInstrument(i))) = NormalizeInstrument(i)
<1>1. /\ i.family \in Tokens /\ i.network \in {None} \cup Tokens
      /\ (i.tier # None => i.tier.token \in Tokens) /\ FilledTexts(i.memberships)
      /\ {x.token : x \in TierOf(i)} = IF i.tier = None THEN {} ELSE {i.tier.token}
      /\ {x.token : x \in MembershipsOf(i)} = TokensOf(i.memberships)
  BY FilledFields
<1>2. PICK c, T, t : /\ c = NormalizeInstrument(i) /\ T = TokensOf(i.memberships)
                     /\ t = IF i.tier = None THEN None ELSE i.tier.token
  OBVIOUS
<1>3. T \in SUBSET Tokens /\ IsFiniteSet(T) /\ NormalizeMemberships(i.memberships) = CanonicalList(T)
  BY <1>1, <1>2, MembershipsByTokens
<1>4. /\ c \in CanonicalCards
      /\ c = [family |-> i.family, network |-> i.network, tier |-> t, memberships |-> CanonicalList(T)]
  <2>1. c \in CanonicalCards
    BY <1>2, CardByMeaning
  <2> QED
    BY <1>2, <1>3, <2>1 DEF NormalizeInstrument
<1>5. t \in {None} \cup Tokens /\ (i.tier # None => t # None)
  BY <1>1, <1>2, AlphabetAssumption
<1>6. PICK r : r = ReadCard(c)
  OBVIOUS
<1>7. r = [family |-> i.family, network |-> i.network,
           tier |-> IF t = None THEN None ELSE Text(t), memberships |-> ReadTexts(CanonicalList(T))]
  BY <1>4, <1>6, ReadCardFields
<1>8. FilledTexts(ReadTexts(CanonicalList(T))) /\ TokensOf(ReadTexts(CanonicalList(T))) = T
  BY <1>3, ReadTextsBack
<1>9. t # None => Text(t) \in Texts /\ Text(t) # None /\ Text(t).token = t
  <2>1. t # None => Text(t) \in Texts
    BY <1>5 DEF Text, Texts
  <2>2. Text(t).token = t
    BY DEF Text
  <2> QED
    BY <2>1, <2>2, AlphabetAssumption
<1>10. FilledCard(r)
  <2>1. WrittenCard(r)
    BY <1>1, <1>7, <1>8, <1>9 DEF WrittenCard, FilledTexts
  <2>2. TierOf(r) = IF t = None THEN {} ELSE {Text(t)}
    BY <1>7, <1>9 DEF TierOf, When
  <2>3. Filled(TierOf(r))
    BY <1>9, <2>2 DEF Filled
  <2>4. Filled(MembershipsOf(r))
    BY <1>7, <1>8 DEF Filled, FilledTexts, MembershipsOf
  <2> QED
    BY <2>1, <2>3, <2>4 DEF FilledCard, Filled
<1>11. MeaningOfCard(r) = MeaningOfCard(i)
  <2>1. /\ {x.token : x \in TierOf(r)} = IF r.tier = None THEN {} ELSE {r.tier.token}
        /\ {x.token : x \in MembershipsOf(r)} = TokensOf(r.memberships)
    BY <1>10, FilledFields
  <2>2. TokensOf(r.memberships) = T /\ r.family = i.family /\ r.network = i.network
    BY <1>7, <1>8
  <2>3. r.tier = IF t = None THEN None ELSE Text(t)
    BY <1>7
  <2>4. (IF r.tier = None THEN {} ELSE {r.tier.token}) = IF i.tier = None THEN {} ELSE {i.tier.token}
    BY <1>2, <1>5, <1>9, <2>3
  <2> QED
    BY ONLY <1>1, <1>2, <2>1, <2>2, <2>4 DEF MeaningOfCard
<1> QED
  BY <1>2, <1>6, <1>10, <1>11, CardByMeaning

(* So are all the cards of a portfolio.                                      *)
LEMMA CardsReadBack ==
  ASSUME NEW cards, FilledCards(cards), NEW form, form = NormalizedCards(cards)
  PROVE  NormalizedCards([n \in DOMAIN form |-> ReadCard(form[n])]) = form
<1>1. form \in Seq(CanonicalCards) /\ ToSet(form) = NormalOf(cards)
  BY CardsBySet
<1>2. DOMAIN form = 1 .. Len(form) /\ Len(form) \in Nat
  BY <1>1, LenProperties
<1>3. PICK read : read = [n \in 1 .. Len(form) |-> ReadCard(form[n])]
  OBVIOUS
<1>4. \A c \in ToSet(form) : FilledCard(ReadCard(c)) /\ NormalizeInstrument(ReadCard(c)) = c
  BY <1>1, CardReadBack DEF NormalOf, FilledCards
<1>5. ToSet(read) = {ReadCard(c) : c \in ToSet(form)}
  BY <1>2, <1>3 DEF ToSet
<1>6. FilledCards(read)
  <2>1. read \in Seq(ToSet(read))
    BY <1>2, <1>3 DEF ToSet
  <2> QED
    BY <1>4, <1>5, <2>1 DEF FilledCards
<1>7. NormalOf(read) = NormalOf(cards)
  <2>1. NormalOf(read) = {NormalizeInstrument(ReadCard(c)) : c \in ToSet(form)}
    BY <1>5 DEF NormalOf
  <2>2. {NormalizeInstrument(ReadCard(c)) : c \in ToSet(form)} = ToSet(form)
    BY <1>4
  <2> QED
    BY <1>1, <2>1, <2>2
<1>8. /\ NormalizedCards(read) = Sorted(NormalOf(read), CardOrder(NormalOf(read)))
      /\ form = Sorted(NormalOf(cards), CardOrder(NormalOf(cards)))
  BY <1>6, CardsBySet
<1> QED
  BY <1>2, <1>3, <1>7, <1>8
-----------------------------------------------------------------------------
Answers == {"YES", "NO", "UNKNOWN"}
PairsOf(map) == {<<x.token, map[x]>> : x \in KeysOf(map)}
KeyTokens(map) == {x.token : x \in KeysOf(map)}

(* A map in canonical form is None, or a function from the tokens of keys.   *)
LEMMA TriMapIs ==
  ASSUME NEW map, WrittenMap(map), ~KeysCollide(map)
  PROVE  /\ NormalizeTriMap(map) = None <=> KeyTokens(map) = {}
         /\ KeyTokens(map) # {} =>
              /\ NormalizeTriMap(map) \in [KeyTokens(map) -> Answers]
              /\ \A x \in KeysOf(map) : NormalizeTriMap(map)[x.token] = map[x]
<1>1. CASE KeysOf(map) = {}
  BY <1>1 DEF KeysOf, KeyTokens, NormalizeTriMap
<1>2. CASE KeysOf(map) # {}
  <2>1. map # None /\ KeysOf(map) = DOMAIN map /\ DOMAIN map # {} /\ KeyTokens(map) # {}
    BY <1>2 DEF KeysOf, KeyTokens
  <2>2. /\ map \in [DOMAIN map -> Answers]
        /\ None \notin [KeyTokens(map) -> Answers]
    BY <2>1 DEF WrittenMap, Answers, KeyTokens
  <2>3. \A x, y \in DOMAIN map : x.token = y.token => x = y
    BY <2>1 DEF KeysCollide
  <2>4. PICK f : f = [key \in KeyTokens(map) |-> map[CHOOSE x \in DOMAIN map : x.token = key]]
    OBVIOUS
  <2>5. NormalizeTriMap(map) = f
    BY <2>1, <2>4 DEF NormalizeTriMap, KeyTokens
  <2>6. \A x \in DOMAIN map : x.token \in KeyTokens(map) /\ f[x.token] = map[x]
    <3> SUFFICES ASSUME NEW x \in DOMAIN map PROVE x.token \in KeyTokens(map) /\ f[x.token] = map[x]
      OBVIOUS
    <3>1. x.token \in KeyTokens(map)
      BY <2>1 DEF KeyTokens
    <3>2. PICK y : y = CHOOSE z \in DOMAIN map : z.token = x.token
      OBVIOUS
    <3>3. y \in DOMAIN map /\ y.token = x.token
      BY <3>2
    <3> QED
      BY <2>3, <2>4, <3>1, <3>2, <3>3
  <2>7. f \in [KeyTokens(map) -> Answers]
    <3>1. \A key \in KeyTokens(map) : f[key] \in Answers
      BY <2>1, <2>2, <2>6 DEF KeyTokens
    <3> QED
      BY <2>4, <3>1
  <2> QED
    BY <2>1, <2>2, <2>5, <2>6, <2>7
<1> QED
  BY <1>1, <1>2

LEMMA PairsAre ==
  ASSUME NEW map, WrittenMap(map), ~KeysCollide(map)
  PROVE  /\ NormalizeTriMap(map) = None <=> PairsOf(map) = {}
         /\ NormalizeTriMap(map) # None =>
              /\ NormalizeTriMap(map) \in [KeyTokens(map) -> Answers]
              /\ KeyTokens(map) = {p[1] : p \in PairsOf(map)}
              /\ PairsOf(map) = {<<key, NormalizeTriMap(map)[key]>> : key \in KeyTokens(map)}
<1>1. PICK f : f = NormalizeTriMap(map)
  OBVIOUS
<1>2. /\ f = None <=> KeyTokens(map) = {}
      /\ KeyTokens(map) # {} =>
           /\ f \in [KeyTokens(map) -> Answers]
           /\ \A x \in KeysOf(map) : f[x.token] = map[x]
  BY <1>1, TriMapIs
<1>3. KeyTokens(map) = {} <=> PairsOf(map) = {}
  BY DEF KeyTokens, PairsOf
<1>4. KeyTokens(map) = {p[1] : p \in PairsOf(map)}
  <2>1. \A x \in KeysOf(map) : <<x.token, map[x]>>[1] = x.token
    OBVIOUS
  <2>2. \A x \in KeysOf(map) : x.token \in {p[1] : p \in PairsOf(map)}
    BY <2>1 DEF PairsOf
  <2>3. \A p \in PairsOf(map) : p[1] \in KeyTokens(map)
    BY <2>1 DEF PairsOf, KeyTokens
  <2> QED
    BY <2>2, <2>3 DEF KeyTokens
<1>5. f # None => PairsOf(map) = {<<key, f[key]>> : key \in KeyTokens(map)}
  <2> SUFFICES ASSUME f # None PROVE PairsOf(map) = {<<key, f[key]>> : key \in KeyTokens(map)}
    OBVIOUS
  <2>1. \A x \in KeysOf(map) : f[x.token] = map[x]
    BY <1>2
  <2>2. PairsOf(map) = {<<x.token, f[x.token]>> : x \in KeysOf(map)}
    BY <2>1 DEF PairsOf
  <2> QED
    BY <2>2 DEF KeyTokens
<1> QED
  BY <1>1, <1>2, <1>3, <1>4, <1>5

(* It stands for the pairs of keys and answers.                              *)
LEMMA MapByMeaning ==
  ASSUME NEW map, WrittenMap(map), ~KeysCollide(map), NEW other, WrittenMap(other), ~KeysCollide(other)
  PROVE  NormalizeTriMap(map) = NormalizeTriMap(other) <=> PairsOf(map) = PairsOf(other)
<1>1. PICK f, g, K, L : /\ f = NormalizeTriMap(map) /\ g = NormalizeTriMap(other)
                        /\ K = KeyTokens(map) /\ L = KeyTokens(other)
  OBVIOUS
<1>2. /\ f = None <=> PairsOf(map) = {}
      /\ f # None => /\ f \in [K -> Answers] /\ K = {p[1] : p \in PairsOf(map)}
                     /\ PairsOf(map) = {<<key, f[key]>> : key \in K}
  BY <1>1, PairsAre
<1>3. /\ g = None <=> PairsOf(other) = {}
      /\ g # None => /\ g \in [L -> Answers] /\ L = {p[1] : p \in PairsOf(other)}
                     /\ PairsOf(other) = {<<key, g[key]>> : key \in L}
  BY <1>1, PairsAre
<1>4. ASSUME f = g PROVE PairsOf(map) = PairsOf(other)
  <2>1. CASE f = None
    BY <1>2, <1>3, <1>4, <2>1
  <2>2. CASE f # None
    <3>1. K = L
      BY <1>2, <1>3, <1>4, <2>2
    <3> QED
      BY <1>2, <1>3, <1>4, <2>2, <3>1
  <2> QED
    BY <2>1, <2>2
<1>5. ASSUME PairsOf(map) = PairsOf(other) PROVE f = g
  <2>1. CASE f = None
    BY <1>2, <1>3, <1>5, <2>1
  <2>2. CASE f # None
    <3>1. g # None /\ K = L
      BY <1>2, <1>3, <1>5, <2>2
    <3>2. f \in [K -> Answers] /\ g \in [K -> Answers]
      BY <1>2, <1>3, <2>2, <3>1
    <3>3. \A key \in K : f[key] = g[key]
      <4> SUFFICES ASSUME NEW key \in K PROVE f[key] = g[key]
        OBVIOUS
      <4>1. <<key, f[key]>> \in {<<k, g[k]>> : k \in K}
        BY <1>2, <1>3, <1>5, <2>2, <3>1
      <4> QED
        BY <4>1
    <3> QED
      BY <3>2, <3>3
  <2> QED
    BY <2>1, <2>2
<1> QED
  BY <1>1, <1>4, <1>5

LEMMA MapReadBack ==
  ASSUME NEW map, WrittenMap(map), ~KeysCollide(map)
  PROVE  NormalizeTriMap(Keyed(NormalizeTriMap(map))) = NormalizeTriMap(map)
<1>1. PICK f, K : f = NormalizeTriMap(map) /\ K = KeyTokens(map)
  OBVIOUS
<1>2. (f = None <=> K = {}) /\ (K # {} => f \in [K -> Answers])
  BY <1>1, TriMapIs
<1>3. CASE f = None
  BY <1>1, <1>3 DEF Keyed, NormalizeTriMap
<1>4. CASE f # None
  <2>1. K # {} /\ f \in [K -> Answers] /\ DOMAIN f = K
    BY <1>2, <1>4
  <2>2. PICK g, T : T = {Text(key) : key \in K} /\ g = [text \in T |-> f[text.token]]
    OBVIOUS
  <2>3. Keyed(f) = g
    BY <1>4, <2>1, <2>2 DEF Keyed
  <2>4. \A key \in K : Text(key) \in T /\ Text(key).token = key
    BY <2>2 DEF Text
  <2>5. \A x \in T : x.token \in K /\ x = Text(x.token)
    BY <2>2 DEF Text
  <2>6. g \in [T -> Answers] /\ T # {} /\ DOMAIN g = T
    BY <2>1, <2>2, <2>4, <2>5
  <2>7. g # None
    <3>1. map # None
      BY <1>1, <2>1 DEF KeyTokens, KeysOf
    <3>2. None \notin [T -> Answers]
      BY <1>1, <2>2, <3>1 DEF WrittenMap, Answers, KeyTokens, KeysOf
    <3> QED
      BY <2>6, <3>2
  <2>8. {x.token : x \in DOMAIN g} = K
    BY <2>4, <2>5, <2>6
  <2>9. NormalizeTriMap(g) = [key \in K |-> g[CHOOSE x \in DOMAIN g : x.token = key]]
    BY <2>6, <2>7, <2>8 DEF NormalizeTriMap
  <2>10. \A key \in K : g[CHOOSE x \in DOMAIN g : x.token = key] = f[key]
    <3> SUFFICES ASSUME NEW key \in K PROVE g[CHOOSE x \in DOMAIN g : x.token = key] = f[key]
      OBVIOUS
    <3>1. PICK y : y = CHOOSE x \in DOMAIN g : x.token = key
      OBVIOUS
    <3>2. y \in T /\ y.token = key
      BY <2>4, <2>6, <3>1
    <3> QED
      BY <2>2, <3>1, <3>2
  <2>11. NormalizeTriMap(g) = f
    BY <2>1, <2>9, <2>10
  <2> QED
    BY <1>1, <2>3, <2>11
<1> QED
  BY <1>3, <1>4

(* What is accepted.                                                         *)
AcceptableDraft(w) ==
  /\ w = [instruments |-> w.instruments, privateStates |-> w.privateStates, declarations |-> w.declarations]
  /\ FilledCards(w.instruments)
  /\ WrittenMap(w.privateStates) /\ ~KeysCollide(w.privateStates)
  /\ WrittenMap(w.declarations) /\ ~KeysCollide(w.declarations)

LEMMA NormalizedFields ==
  ASSUME NEW w
  PROVE  NormalizeEligibilityPortfolio(w) =
           [instruments |-> NormalizedCards(w.instruments),
            privateStates |-> NormalizeTriMap(w.privateStates),
            declarations |-> NormalizeTriMap(w.declarations)]
BY DEF NormalizeEligibilityPortfolio, NormalizedCards, CardOrder

(* A portfolio in canonical form stands for what was meant.                  *)
MeaningOfDraft(w) ==
  [cards |-> MeaningOfCards(w.instruments), private |-> PairsOf(w.privateStates),
   declared |-> PairsOf(w.declarations)]

LEMMA PortfolioByMeaning ==
  ASSUME NEW w, AcceptableDraft(w), NEW v, AcceptableDraft(v)
  PROVE  NormalizeEligibilityPortfolio(w) = NormalizeEligibilityPortfolio(v)
         <=> MeaningOfDraft(w) = MeaningOfDraft(v)
<1>1. /\ NormalizedCards(w.instruments) = NormalizedCards(v.instruments)
           <=> MeaningOfCards(w.instruments) = MeaningOfCards(v.instruments)
      /\ NormalizeTriMap(w.privateStates) = NormalizeTriMap(v.privateStates)
           <=> PairsOf(w.privateStates) = PairsOf(v.privateStates)
      /\ NormalizeTriMap(w.declarations) = NormalizeTriMap(v.declarations)
           <=> PairsOf(w.declarations) = PairsOf(v.declarations)
  BY CardsByMeaning, MapByMeaning DEF AcceptableDraft
<1>2. NormalizeEligibilityPortfolio(w) = NormalizeEligibilityPortfolio(v) <=>
        /\ NormalizedCards(w.instruments) = NormalizedCards(v.instruments)
        /\ NormalizeTriMap(w.privateStates) = NormalizeTriMap(v.privateStates)
        /\ NormalizeTriMap(w.declarations) = NormalizeTriMap(v.declarations)
  BY ONLY NormalizedFields
<1>3. MeaningOfDraft(w) = MeaningOfDraft(v) <=>
        /\ MeaningOfCards(w.instruments) = MeaningOfCards(v.instruments)
        /\ PairsOf(w.privateStates) = PairsOf(v.privateStates)
        /\ PairsOf(w.declarations) = PairsOf(v.declarations)
  BY ONLY DEF MeaningOfDraft
<1> QED
  BY ONLY <1>1, <1>2, <1>3

LEMMA PortfolioReadBack ==
  ASSUME NEW w, AcceptableDraft(w), NEW form, form = NormalizeEligibilityPortfolio(w)
  PROVE  NormalizeEligibilityPortfolio(ReadBack(form)) = form
<1>1. PICK cards, private, declared :
        /\ cards = NormalizedCards(w.instruments)
        /\ private = NormalizeTriMap(w.privateStates) /\ declared = NormalizeTriMap(w.declarations)
  OBVIOUS
<1>2. form = [instruments |-> cards, privateStates |-> private, declarations |-> declared]
  BY ONLY <1>1, form = NormalizeEligibilityPortfolio(w), NormalizedFields
<1>3. PICK r : r = ReadBack(form)
  OBVIOUS
<1>4. r = [instruments |-> [n \in DOMAIN cards |-> ReadCard(cards[n])],
           privateStates |-> Keyed(private), declarations |-> Keyed(declared)]
  BY ONLY <1>2, <1>3 DEF ReadBack, ReadCard
<1>5. NormalizedCards([n \in DOMAIN cards |-> ReadCard(cards[n])]) = cards
  BY <1>1, CardsReadBack DEF AcceptableDraft
<1>6. NormalizeTriMap(Keyed(private)) = private /\ NormalizeTriMap(Keyed(declared)) = declared
  BY <1>1, MapReadBack DEF AcceptableDraft
<1>7. NormalizeEligibilityPortfolio(r) =
        [instruments |-> NormalizedCards(r.instruments),
         privateStates |-> NormalizeTriMap(r.privateStates),
         declarations |-> NormalizeTriMap(r.declarations)]
  BY NormalizedFields
<1> QED
  BY ONLY <1>2, <1>3, <1>4, <1>5, <1>6, <1>7
-----------------------------------------------------------------------------
(* What every state keeps: the calendar right, the decisions those of what   *)
(* is stored and of the time it is.                                          *)
SeasonInv ==
  /\ scene \in Scenes
  /\ SetRight(calendar)
  /\ evaluation = Attempts(stored, calendar.instant)

LEMMA SeasonInductive == Spec => []SeasonInv
<1>1. Init => SeasonInv
  BY ScenesAssumption DEF Init, Beginnings, SeasonInv
<1>2. SeasonInv /\ [Next]_vars => SeasonInv'
  <2> SUFFICES ASSUME SeasonInv, [Next]_vars PROVE SeasonInv'
    OBVIOUS
  <2>1. \A p, t : scene' = scene => Attempts(p, t)' = Attempts(p, t)
    BY DEF Attempts
  <2>2. CASE Tick
    <3>1. SetRight(calendar)'
      BY <2>2, StaysRight DEF SeasonInv, Tick, TimePasses
    <3> QED
      BY <2>2, <3>1 DEF SeasonInv, Tick, Attempts
  <2>3. ASSUME NEW written, Write(written) PROVE SeasonInv'
    BY <2>3 DEF SeasonInv, Write, Attempts
  <2>4. CASE AddCard \/ DropCard \/ ExchangeCards \/ RewriteCard \/ RewritePrivateStates
             \/ RewriteDeclarations
    BY <2>3, <2>4, Zenon
       DEF AddCard, DropCard, ExchangeCards, RewriteCard, RewritePrivateStates, RewriteDeclarations
  <2>5. CASE UNCHANGED vars
    BY <2>5 DEF SeasonInv, vars, Attempts
  <2> QED
    BY <2>2, <2>4, <2>5 DEF Next
<1> QED
  BY <1>1, <1>2, PTL DEF Spec

(* The engine's calendar agrees with the wall calendar for as long as one    *)
(* wants to count, in every year there is, if it does so where the scene     *)
(* begins; and exactly the purchases of the fixture's two years are decided  *)
(* (time.ts and study-intent-decision.ts).                                   *)
THEOREM CalendarRight == Spec => []CalendarIsCivil
<1>1. SeasonInv => CalendarIsCivil
  <2> SUFFICES ASSUME SeasonInv PROVE CalendarIsCivil
    OBVIOUS
  <2>1. SetRight(calendar)
    BY DEF SeasonInv
  <2>2. /\ LimaDate(calendar.instant) = Date(calendar)
        /\ LimaWeekday(calendar.instant) = calendar.weekday
        /\ LimaTime(calendar.instant) = calendar.second \div 60
    BY <2>1 DEF SetRight, LimaTime
  <2>3. DOMAIN evaluation = {x \in scene.asked : WithinCoverage(calendar.instant)}
    BY DEF SeasonInv, Attempts
  <2>4. DOMAIN evaluation = IF calendar.year \in {2026, 2027} THEN scene.asked ELSE {}
    BY <2>1, <2>3, CoverageIsTwoYears
  <2> QED
    BY <2>2, <2>4 DEF CalendarIsCivil
<1> QED
  BY <1>1, SeasonInductive, PTL
-----------------------------------------------------------------------------
(* The error that compareNormalizedEligibilityInstrumentV1 keeps for cards   *)
(* that tie without being the same is never raised: whatever the tokens and  *)
(* their order by code points, different cards have different tuples, and    *)
(* one of the two comes first (eligibility-portfolio.ts, lines 132 to 148).  *)
THEOREM ComparatorTellsCardsApart ==
  ASSUME NEW i \in CanonicalCards, NEW j \in CanonicalCards
  PROVE  /\ InstrumentSortTuple(i) = InstrumentSortTuple(j) <=> i = j
         /\ i = j <=> ~CompareInstrument(i, j) /\ ~CompareInstrument(j, i)
         /\ ~(CompareInstrument(i, j) /\ CompareInstrument(j, i))
<1>1. PICK S : S = {i, j}
  OBVIOUS
<1>2. PICK before : before = {p \in S \X S : CompareInstrument(p[1], p[2])}
  OBVIOUS
<1>3. \A x, y \in S : <<x, y>> \in before <=> CompareInstrument(x, y)
  BY <1>2
<1>4. StrictOrder(before, S)
  BY <1>1, <1>2, CardsInOrder
<1>5. /\ ~CompareInstrument(i, i)
      /\ i # j => CompareInstrument(i, j) \/ CompareInstrument(j, i)
      /\ ~(CompareInstrument(i, j) /\ CompareInstrument(j, i))
  BY <1>1, <1>3, <1>4 DEF StrictOrder
<1> QED
  BY <1>5, TupleInjective

(* A draft is refused, or can be told by what it means.                      *)
LEMMA DraftIsWritten ==
  ASSUME NEW s \in Scenes, NEW w \in Drafts, Acceptable(w)
  PROVE  AcceptableDraft(w)
<1>1. PICK W : W = Cards \cup UNION {ToSet(x.draft.instruments) : x \in Scenes}
  OBVIOUS
<1>2. /\ w.instruments \in Seq(W)
      /\ w.privateStates \in PrivateMaps \cup {x.draft.privateStates : x \in Scenes}
      /\ w.declarations \in DeclarationMaps \cup {x.draft.declarations : x \in Scenes}
      /\ w = [instruments |-> w.instruments, privateStates |-> w.privateStates,
              declarations |-> w.declarations]
  BY <1>1 DEF Drafts
<1>3. \A i \in W : WrittenCard(i)
  BY <1>1, DraftsAssumption
<1>4. \A i \in ToSet(w.instruments) : i \in W
  BY <1>2, LenProperties, ElementOfSeq DEF ToSet
<1>5. FilledCards(w.instruments)
  BY <1>2, <1>3, <1>4 DEF FilledCards, FilledCard, Acceptable
<1>6. WrittenMap(w.privateStates) /\ WrittenMap(w.declarations)
  BY <1>2, DraftsAssumption
<1> QED
  BY <1>2, <1>5, <1>6 DEF AcceptableDraft, Acceptable

(* What is stored is the canonical form of a portfolio that was accepted, of *)
(* the last one unless that was refused; and while time passes nothing is    *)
(* written.                                                                  *)
PortfolioInv ==
  /\ scene \in Scenes /\ Acceptable(scene.draft)
  /\ scene.calendar.instant \in Int /\ calendar.instant \in Int
  /\ scene.calendar.instant <= calendar.instant
  /\ Passing => draft = scene.draft
  /\ draft \in Drafts
  /\ \E w \in Drafts : Acceptable(w) /\ stored = NormalizeEligibilityPortfolio(w)
  /\ Acceptable(draft) => stored = NormalizeEligibilityPortfolio(draft)

LEMMA WritingKeepsPortfolio ==
  ASSUME PortfolioInv, ~Passing, NEW written \in Drafts, Write(written)
  PROVE  PortfolioInv'
<1>1. ~Passing'
  BY DEF Passing, Write
<1>2. scene' = scene /\ calendar' = calendar /\ draft' = written
  BY DEF Write
<1>3. stored' = IF Acceptable(written) THEN NormalizeEligibilityPortfolio(written) ELSE stored
  BY DEF Write
<1>4. \E w \in Drafts : Acceptable(w) /\ stored' = NormalizeEligibilityPortfolio(w)
  BY <1>3 DEF PortfolioInv
<1>5. Acceptable(draft') => stored' = NormalizeEligibilityPortfolio(draft')
  BY <1>2, <1>3
<1> QED
  BY <1>1, <1>2, <1>4, <1>5 DEF PortfolioInv

LEMMA CardsAreWritten ==
  ASSUME NEW W, NEW s \in Seq(W)
  PROVE  /\ \A i \in W : Append(s, i) \in Seq(W)
         /\ s # <<>> => Front(s) \in Seq(W)
         /\ Len(s) > 1 => <<s[2], s[1]>> \o SubSeq(s, 3, Len(s)) \in Seq(W)
         /\ \A n \in DOMAIN s, i \in W : [s EXCEPT ![n] = i] \in Seq(W)
<1>1. Len(s) \in Nat /\ DOMAIN s = 1 .. Len(s) /\ \A k \in 1 .. Len(s) : s[k] \in W
  BY LenProperties, ElementOfSeq
<1>2. \A i \in W : Append(s, i) \in Seq(W)
  BY AppendProperties
<1>3. s # <<>> => Front(s) \in Seq(W)
  <2>1. s # <<>> => 1 \in 1 .. Len(s) + 1 /\ Len(s) - 1 \in 0 .. Len(s)
    BY <1>1, EmptySeq
  <2> QED
    BY <1>1, <2>1 DEF Front
<1>4. Len(s) > 1 => <<s[2], s[1]>> \o SubSeq(s, 3, Len(s)) \in Seq(W)
  <2> SUFFICES ASSUME Len(s) > 1 PROVE <<s[2], s[1]>> \o SubSeq(s, 3, Len(s)) \in Seq(W)
    OBVIOUS
  <2>1. <<s[2], s[1]>> \in Seq(W)
    BY <1>1
  <2>2. SubSeq(s, 3, Len(s)) \in Seq(W)
    BY <1>1
  <2> QED
    BY <2>1, <2>2, ConcatProperties
<1>5. \A n \in DOMAIN s, i \in W : [s EXCEPT ![n] = i] \in Seq(W)
  BY ExceptSeq
<1> QED
  BY <1>2, <1>3, <1>4, <1>5

LEMMA LaterIsLater ==
  ASSUME NEW c, SetRight(c)
  PROVE  Later(c).instant \in Int /\ c.instant <= Later(c).instant
<1>1. PICK y, m, d, w, s, i :
        /\ c = [year |-> y, month |-> m, day |-> d, weekday |-> w, second |-> s, instant |-> i]
        /\ i \in Int
  <2>1. c = [year |-> c.year, month |-> c.month, day |-> c.day, weekday |-> c.weekday,
             second |-> c.second, instant |-> c.instant]
    BY DEF SetRight
  <2>2. c.instant \in Int
    BY RightFields
  <2> QED
    BY ONLY <2>1, <2>2, Zenon
<1>2. PICK x, v, e, q, z : x = 86399 /\ v = (w + 1) % 7 /\ e = d + 1 /\ q = m + 1 /\ z = y + 1
  OBVIOUS
<1>3. PICK k, j \in Int : k = i + 86399 /\ j = i + 1 /\ i <= k /\ i <= j
  BY <1>1
<1>4. Later(c).instant = k \/ Later(c).instant = j
  <2>1. \/ Later(c) = [year |-> y, month |-> m, day |-> d, weekday |-> w, second |-> x, instant |-> k]
        \/ Later(c) = [year |-> y, month |-> m, day |-> e, weekday |-> v, second |-> 0, instant |-> j]
        \/ Later(c) = [year |-> y, month |-> q, day |-> 1, weekday |-> v, second |-> 0, instant |-> j]
        \/ Later(c) = [year |-> z, month |-> 1, day |-> 1, weekday |-> v, second |-> 0, instant |-> j]
    BY ONLY <1>1, <1>2, <1>3, LaterFields
  <2> QED
    BY ONLY <2>1
<1>5. c.instant = i
  BY ONLY <1>1
<1> QED
  BY ONLY <1>3, <1>4, <1>5

LEMMA PartsAreWritten ==
  ASSUME NEW d \in Drafts, NEW W, W = Cards \cup UNION {ToSet(x.draft.instruments) : x \in Scenes}
  PROVE  /\ d.instruments \in Seq(W)
         /\ \A s \in Seq(W) : [d EXCEPT !.instruments = s] \in Drafts
         /\ \A m \in PrivateMaps : [d EXCEPT !.privateStates = m] \in Drafts
         /\ \A m \in DeclarationMaps : [d EXCEPT !.declarations = m] \in Drafts
  BY DEF Drafts

(* Whatever is written is a draft.                                           *)
LEMMA WrittenIsDraft ==
  ASSUME draft \in Drafts,
         AddCard \/ DropCard \/ ExchangeCards \/ RewriteCard \/ RewritePrivateStates \/ RewriteDeclarations
  PROVE  ~Passing /\ \E written \in Drafts : Write(written)
<1>1. PICK W, s : /\ W = Cards \cup UNION {ToSet(x.draft.instruments) : x \in Scenes}
                  /\ s = draft.instruments /\ s \in Seq(W)
  BY PartsAreWritten
<1>2. /\ \A r \in Seq(W) : [draft EXCEPT !.instruments = r] \in Drafts
      /\ \A m \in PrivateMaps : [draft EXCEPT !.privateStates = m] \in Drafts
      /\ \A m \in DeclarationMaps : [draft EXCEPT !.declarations = m] \in Drafts
  BY <1>1, PartsAreWritten
<1>3. CASE AddCard
  <2>1. PICK i \in Cards : Write([draft EXCEPT !.instruments = Append(@, i)])
    BY <1>3 DEF AddCard
  <2>2. Append(s, i) \in Seq(W)
    BY <1>1, CardsAreWritten
  <2> QED
    BY <1>1, <1>2, <1>3, <2>1, <2>2 DEF AddCard
<1>4. CASE DropCard
  <2>1. Front(s) \in Seq(W)
    BY <1>1, <1>4, CardsAreWritten DEF DropCard
  <2> QED
    BY <1>1, <1>2, <1>4, <2>1 DEF DropCard
<1>5. CASE ExchangeCards
  <2>1. <<s[2], s[1]>> \o SubSeq(s, 3, Len(s)) \in Seq(W)
    BY <1>1, <1>5, CardsAreWritten DEF ExchangeCards
  <2> QED
    BY <1>1, <1>2, <1>5, <2>1 DEF ExchangeCards
<1>6. CASE RewriteCard
  <2>1. PICK n \in DOMAIN s, i \in Cards : Write([draft EXCEPT !.instruments[n] = i])
    BY <1>1, <1>6 DEF RewriteCard
  <2>2. [s EXCEPT ![n] = i] \in Seq(W)
    BY <1>1, CardsAreWritten
  <2> QED
    BY <1>1, <1>2, <1>6, <2>1, <2>2 DEF RewriteCard
<1>7. CASE RewritePrivateStates
  BY <1>2, <1>7 DEF RewritePrivateStates
<1>8. CASE RewriteDeclarations
  BY <1>2, <1>8 DEF RewriteDeclarations
<1> QED
  BY <1>3, <1>4, <1>5, <1>6, <1>7, <1>8

LEMMA TimeKeepsPortfolio ==
  ASSUME PortfolioInv, SetRight(calendar), Tick
  PROVE  PortfolioInv' /\ Passing
<1>1. /\ scene' = scene /\ draft' = draft /\ stored' = stored /\ calendar' = Later(calendar)
      /\ calendar.instant < scene.until
  BY DEF Tick, TimePasses
<1>2. calendar'.instant \in Int /\ calendar.instant <= calendar'.instant
  BY <1>1, LaterIsLater
<1>3. scene.until \in Int
  BY ScenesAssumption DEF PortfolioInv
<1>4. Passing
  BY <1>1, <1>3 DEF PortfolioInv, Passing
<1>5. scene.calendar.instant <= calendar'.instant
  BY <1>2 DEF PortfolioInv
<1> QED
  BY <1>1, <1>2, <1>4, <1>5 DEF PortfolioInv, Passing

LEMMA PortfolioInductive == Spec => []PortfolioInv
<1>1. Init => PortfolioInv
  <2> SUFFICES ASSUME Init PROVE PortfolioInv
    OBVIOUS
  <2>1. scene \in Scenes /\ Acceptable(scene.draft) /\ draft = scene.draft /\ calendar = scene.calendar
        /\ stored = NormalizeEligibilityPortfolio(scene.draft)
    BY DEF Init, Beginnings
  <2>2. draft \in Drafts
    BY <2>1, DraftsAssumption
  <2>3. calendar.instant \in Int
    BY <2>1, ScenesAssumption DEF SetRight
  <2> QED
    BY <2>1, <2>2, <2>3 DEF PortfolioInv
<1>2. PortfolioInv /\ SeasonInv /\ [Next]_vars => PortfolioInv'
  <2> SUFFICES ASSUME PortfolioInv, SeasonInv, [Next]_vars PROVE PortfolioInv'
    OBVIOUS
  <2>1. CASE Tick
    BY <2>1, TimeKeepsPortfolio DEF SeasonInv
  <2>2. CASE AddCard \/ DropCard \/ ExchangeCards \/ RewriteCard \/ RewritePrivateStates
             \/ RewriteDeclarations
    <3>1. draft \in Drafts
      BY DEF PortfolioInv
    <3> QED
      BY <2>2, <3>1, WrittenIsDraft, WritingKeepsPortfolio
  <2>3. CASE UNCHANGED vars
    BY <2>3 DEF PortfolioInv, Passing, vars
  <2> QED
    BY <2>1, <2>2, <2>3 DEF Next
<1> QED
  BY <1>1, <1>2, SeasonInductive, PTL DEF Spec

(* What is stored stands for what was meant, whatever can be written and     *)
(* however tokens are spelled and ordered: of two portfolios accepted in a   *)
(* row the canonical forms are the same exactly when they mean the same,     *)
(* reading one back and normalizing it again changes nothing, and what is    *)
(* refused leaves what is stored and every decision as they were             *)
(* (eligibility-portfolio.ts, study-intent-decision.ts).                     *)
THEOREM RewritingInvisible == Spec => RewritingIsInvisible
<1> DEFINE Kept == NormalizeEligibilityPortfolio(ReadBack(stored')) = stored'
           Alike == Acceptable(draft) /\ Acceptable(draft') =>
                      (stored = stored' <=> Meaning(draft) = Meaning(draft'))
           Refused == ~Acceptable(draft') => stored' = stored /\ evaluation' = evaluation
<1>1. ASSUME PortfolioInv, PortfolioInv', SeasonInv, SeasonInv', [Next]_vars
      PROVE  Kept /\ Alike /\ Refused
  <2>1. scene \in Scenes /\ scene' \in Scenes
    BY <1>1 DEF PortfolioInv
  <2>2. Kept
    <3>1. PICK w \in Drafts : Acceptable(w) /\ stored' = NormalizeEligibilityPortfolio(w)
      BY <1>1 DEF PortfolioInv
    <3>2. AcceptableDraft(w)
      BY <2>1, <3>1, DraftIsWritten
    <3> QED
      BY <3>1, <3>2, PortfolioReadBack
  <2>3. ASSUME Acceptable(draft), Acceptable(draft')
        PROVE  stored = stored' <=> Meaning(draft) = Meaning(draft')
    <3>1. /\ draft \in Drafts /\ draft' \in Drafts
          /\ stored = NormalizeEligibilityPortfolio(draft)
          /\ stored' = NormalizeEligibilityPortfolio(draft')
      BY <1>1, <2>3 DEF PortfolioInv
    <3>2. AcceptableDraft(draft) /\ AcceptableDraft(draft')
      BY <2>1, <2>3, <3>1, DraftIsWritten
    <3>3. \A w : Meaning(w) = MeaningOfDraft(w)
      BY DEF Meaning, MeaningOfDraft, MeaningOfCards, MeaningOfCard, PairsOf
    <3> QED
      BY <3>1, <3>2, <3>3, PortfolioByMeaning
  <2>4. ASSUME ~Acceptable(draft')
        PROVE  stored' = stored /\ evaluation' = evaluation
    <3>1. ASSUME Tick PROVE FALSE
      <4>1. Passing
        BY <1>1, <3>1, TimeKeepsPortfolio DEF SeasonInv
      <4> QED
        BY <1>1, <2>4, <3>1, <4>1 DEF PortfolioInv, Tick
    <3>2. ASSUME NEW written, Write(written) PROVE stored' = stored /\ evaluation' = evaluation
      <4>1. stored' = stored /\ scene' = scene /\ calendar' = calendar
        BY <2>4, <3>2 DEF Write
      <4> QED
        BY <1>1, <4>1 DEF SeasonInv, Attempts
    <3>3. CASE AddCard \/ DropCard \/ ExchangeCards \/ RewriteCard \/ RewritePrivateStates
               \/ RewriteDeclarations
      BY <1>1, <3>2, <3>3, WrittenIsDraft DEF PortfolioInv
    <3>4. CASE UNCHANGED vars
      BY <3>4 DEF vars
    <3> QED
      BY <1>1, <3>1, <3>3, <3>4 DEF Next
  <2> QED
    BY <2>2, <2>3, <2>4
<1>2. PortfolioInv /\ PortfolioInv' /\ SeasonInv /\ SeasonInv' /\ [Next]_vars
        => [Kept /\ Alike /\ Refused]_vars
  BY <1>1
<1>3. Spec => [][Kept /\ Alike /\ Refused]_vars
  BY <1>2, PortfolioInductive, SeasonInductive, PTL DEF Spec
<1> QED
  BY <1>3, PTL DEF RewritingIsInvisible, Kept, Alike, Refused
=============================================================================
