----------------------------- MODULE LineProofs -----------------------------
(***************************************************************************)
(* Proofs about Line: the text of a line.                                   *)
(***************************************************************************)
EXTENDS Line, Lemmas, SequenceTheorems, FiniteSetTheorems, TLAPS

(* Division.                                                                *)

\* Quotient and remainder are unique, also of a negative number.
LEMMA DivisionUnique ==
  ASSUME NEW a \in Int, NEW b \in Nat \ {0}, NEW q \in Int, NEW r \in Int,
         0 <= r, r < b, a = q * b + r
  PROVE  a \div b = q /\ a % b = r
<1> DEFINE p == a \div b
           s == a % b
<1>1. p \in Int /\ s \in Int /\ 0 <= s /\ s < b /\ a = b * p + s
  BY SMT
<1> HIDE DEF p, s
<1>2. b * (p - q) = r - s
  BY <1>1, SMT
<1>3. ~(p - q >= 1)
  <2> SUFFICES ASSUME p - q >= 1 PROVE FALSE
    OBVIOUS
  <2>1. b * (p - q) >= b
    BY <1>1, SMT
  <2> QED BY <1>1, <1>2, <2>1, SMT
<1>4. ~(p - q <= -1)
  <2> SUFFICES ASSUME p - q <= -1 PROVE FALSE
    OBVIOUS
  <2>1. b * (p - q) <= -b
    BY <1>1, SMT
  <2> QED BY <1>1, <1>2, <2>1, SMT
<1>5. p = q
  BY <1>1, <1>3, <1>4, SMT
<1>6. s = r
  BY <1>1, <1>2, <1>5, SMT
<1> QED BY <1>5, <1>6 DEF p, s

\* A product with a positive factor keeps the order.
LEMMA Scaled ==
  ASSUME NEW a \in Int, NEW b \in Int, NEW n \in Nat \ {0}, 0 <= a, a < b
  PROVE  a * n \in Int /\ b * n \in Int /\ 0 <= a * n /\ a * n < b * n
<1>1. a * n \in Int /\ b * n \in Int /\ 0 <= a * n
  BY SMT
<1>2. (b - a) * n > 0
  BY SMT
<1>3. (b - a) * n = b * n - a * n
  BY SMT
<1> QED BY <1>1, <1>2, <1>3, SMT

-----------------------------------------------------------------------------
(* The civil date.                                                          *)

\* A year of the era, which begins in March, that ends with a 29th of February.
LongYear(y) == y % 4 = 3 /\ (y % 100 # 99 \/ y = 399)

\* The days of the era before its y-th year.
YearStart(y) == 365 * y + y \div 4 - y \div 100

\* YearOfEra finds the year that a day of the era lies in.
LEMMA DayInEra == ASSUME NEW d \in Int, 0 <= d, d <= 146096
  PROVE  LET y == YearOfEra(d)
             k == d - YearStart(y)
         IN y \in Int /\ 0 <= y /\ y <= 399 /\ k \in Int /\ 0 <= k /\ k <= 365 /\ (k = 365 => LongYear(y))
BY SMTT(60) DEF YearOfEra, YearStart, LongYear

\* And the only such year.
LEMMA YearOfDay == ASSUME NEW y \in Int, 0 <= y, y <= 399, NEW k \in Int, 0 <= k, k <= 365, k = 365 => LongYear(y)
 PROVE YearOfEra(YearStart(y) + k) = y
BY SMTT(60) DEF YearOfEra, YearStart, LongYear

\* A year of the era has 365 days, or 366.
LEMMA YearAfter == ASSUME NEW y \in Int, 0 <= y, y < 399
 PROVE YearStart(y + 1) = YearStart(y) + 365 + (IF LongYear(y) THEN 1 ELSE 0)
BY SMTT(60) DEF YearStart, LongYear

\* The era of a day counted from 0000-03-01, as the code divides.
EraOf(z) == Quot(IF z >= 0 THEN z ELSE z - 146096, 146097)

\* The correction for negative days makes it a division that rounds down.
LEMMA EraQuotient == ASSUME NEW z \in Int PROVE EraOf(z) = z \div 146097
BY SMT DEF EraOf, Quot

\* Day n is day k of the y-th year of era e.
DayAt(n, e, y, k) ==
  /\ e \in Int /\ y \in Int /\ k \in Int /\ 0 <= y /\ y <= 399 /\ 0 <= k /\ k <= 365
  /\ k = 365 => LongYear(y)
  /\ n + 719468 = 146097 * e + (YearStart(y) + k)

\* The months from March on, as civil_from_days counts them.
MarchMonth(k) == (5 * k + 2) \div 153

Month(k) == IF MarchMonth(k) < 10 THEN MarchMonth(k) + 3 ELSE MarchMonth(k) - 9

\* The date of day k of the y-th year of era e.
Civil(e, y, k) ==
  [year  |-> y + e * 400 + (IF Month(k) <= 2 THEN 1 ELSE 0),
   month |-> Month(k),
   day   |-> k - (153 * MarchMonth(k) + 2) \div 5 + 1]

\* What civil_from_days computes of such a day.
LEMMA CivilOf ==
  ASSUME NEW n \in Int, NEW e, NEW y, NEW k, DayAt(n, e, y, k)
  PROVE civil_from_days(n) = Civil(e, y, k)
<1> DEFINE d == YearStart(y) + k
           z == n + 719468
           E == EraOf(z)
           D == z - E * 146097
           Year(X) == X - (365 * YearOfEra(X) + YearOfEra(X) \div 4 - YearOfEra(X) \div 100)
           R(a, b, c) ==
             LET mp  == (5 * c + 2) \div 153
                 m   == IF mp < 10 THEN mp + 3 ELSE mp - 9
             IN [year  |-> b + a * 400 + (IF m <= 2 THEN 1 ELSE 0), month |-> m,
                 day   |-> c - (153 * mp + 2) \div 5 + 1]
<1>0. /\ e \in Int /\ y \in Int /\ k \in Int /\ 0 <= y /\ y <= 399 /\ 0 <= k /\ k <= 365
      /\ k = 365 => LongYear(y)
      /\ n + 719468 = 146097 * e + (YearStart(y) + k)
  BY DEF DayAt
<1>1. d \in Int /\ 0 <= d /\ d <= 146096
  BY <1>0, SMT DEF YearStart, LongYear
<1>2. z \in Int /\ z = 146097 * e + d
  BY <1>0, <1>1, SMT
<1>3. YearOfEra(d) = y /\ Year(d) = k
  <2>1. YearOfEra(d) = y
    BY <1>0, YearOfDay, SMT
  <2>2. d - (365 * y + y \div 4 - y \div 100) = k
    BY <1>0, SMT DEF YearStart
  <2> HIDE DEF d
  <2> QED BY <2>1, <2>2, SMT
<1>4. civil_from_days(n) = R(E, YearOfEra(D), Year(D))
  BY SMT DEF civil_from_days, EraOf
<1>5. R(e, y, k) = Civil(e, y, k)
  BY SMT DEF Civil, Month, MarchMonth
<1> HIDE DEF d, z
<1>6. E = e
  <2>1. z \div 146097 = e
    BY <1>0, <1>1, <1>2, SMT
  <2> QED BY <1>2, <2>1, EraQuotient
<1> HIDE DEF E
<1>7. D = d
  BY <1>0, <1>1, <1>2, <1>6, SMT
<1> HIDE DEF D, Year, R
<1> QED BY <1>3, <1>4, <1>5, <1>6, <1>7, SMT

\* A long year of the era is a leap year of the calendar.
LEMMA LeapYear ==
  ASSUME NEW e \in Int, NEW y \in Int, 0 <= y, y <= 399
  PROVE  Leap(y + e * 400 + 1) <=> LongYear(y)
BY SMT DEF Leap, LongYear

\* The days of the year before the month of day k.
MonthStart(k) == (153 * MarchMonth(k) + 2) \div 5

\* From a day of the year to the next: in the same month, before its end, or
\* from the last day of a month to the first of the next.
LEMMA MonthFacts ==
  ASSUME NEW k \in Int, 0 <= k, k <= 364
  PROVE  /\ MarchMonth(k) \in Int /\ 0 <= MarchMonth(k) /\ MarchMonth(k) <= 11
         /\ MonthStart(k) \in Int
         /\ \/ /\ MarchMonth(k + 1) = MarchMonth(k)
               /\ MarchMonth(k) \in {0, 2, 4, 5, 7, 9, 10} => k - MonthStart(k) + 1 < 31
               /\ MarchMonth(k) \in {1, 3, 6, 8} => k - MonthStart(k) + 1 < 30
               /\ MarchMonth(k) = 11 => k - MonthStart(k) = k - 337
            \/ /\ MarchMonth(k + 1) = MarchMonth(k) + 1 /\ MarchMonth(k) # 11
               /\ MonthStart(k + 1) = k + 1
               /\ MarchMonth(k) \in {0, 2, 4, 5, 7, 9, 10} => k - MonthStart(k) + 1 = 31
               /\ MarchMonth(k) \in {1, 3, 6, 8} => k - MonthStart(k) + 1 = 30
BY SMT DEF MarchMonth, MonthStart

\* The day after, within a year that begins in March.
LEMMA NextInYear ==
  ASSUME NEW e \in Int, NEW y \in Int, 0 <= y, y <= 399, NEW k \in Int, 0 <= k, k <= 364, k = 364 => LongYear(y)
  PROVE Civil(e, y, k + 1) = Tomorrow(Civil(e, y, k))
<1>1. PICK m \in Int : m = MarchMonth(k) /\ 0 <= m /\ m <= 11
  BY MonthFacts, SMT
<1>2. PICK s \in Int : s = MonthStart(k)
  BY MonthFacts, SMT
<1> DEFINE mo == IF m < 10 THEN m + 3 ELSE m - 9
           yr == y + e * 400 + (IF mo <= 2 THEN 1 ELSE 0)
           c == [year |-> yr, month |-> mo, day |-> k - s + 1]
<1>3. Civil(e, y, k) = c
  BY <1>1, <1>2, SMT DEF Civil, Month, MonthStart
<1>4. mo \in Int /\ yr \in Int /\ 1 <= mo /\ mo <= 12
  BY <1>1, SMT
<1>5. m = 11 => (Leap(yr) <=> LongYear(y)) /\ mo = 2
  BY <1>1, LeapYear, SMT
<1>6. MonthLength(c) = IF mo = 2 THEN IF Leap(yr) THEN 29 ELSE 28
                       ELSE IF mo \in {4, 6, 9, 11} THEN 30 ELSE 31
  BY SMT DEF MonthLength
<1>7. CASE MarchMonth(k + 1) = m
  <2>1. Civil(e, y, k + 1) = [year |-> yr, month |-> mo, day |-> k - s + 2]
    <3>1. MonthStart(k + 1) = s
      BY <1>2, <1>7, <1>1, SMT DEF MonthStart
    <3>2. (k + 1) - s + 1 = k - s + 2
      BY SMT
    <3> QED BY <1>7, <3>1, <3>2, SMT DEF Civil, Month, MonthStart
  <2>2. k - s + 1 < MonthLength(c)
    <3>1. /\ m \in {0, 2, 4, 5, 7, 9, 10} => k - s + 1 < 31
          /\ m \in {1, 3, 6, 8} => k - s + 1 < 30
          /\ m = 11 => k - s = k - 337
      BY <1>1, <1>2, <1>7, MonthFacts, SMT
    <3> HIDE DEF yr, c
    <3>2. CASE m = 11
      BY <1>5, <1>6, <3>1, <3>2, SMT
    <3>3. CASE m # 11
      BY <1>1, <1>6, <3>1, <3>3, SMT
    <3> QED BY <3>2, <3>3
  <2> HIDE DEF yr, mo
  <2>3. Tomorrow(c) = [c EXCEPT !.day = @ + 1]
    BY <2>2, SMT DEF Tomorrow
  <2>4. (k - s + 1) + 1 = k - s + 2
    BY SMT
  <2> QED BY <1>3, <2>1, <2>3, <2>4, SMT
<1>8. CASE MarchMonth(k + 1) # m
  <2>1. /\ MarchMonth(k + 1) = m + 1 /\ m # 11 /\ MonthStart(k + 1) = k + 1
        /\ m \in {0, 2, 4, 5, 7, 9, 10} => k - s + 1 = 31
        /\ m \in {1, 3, 6, 8} => k - s + 1 = 30
    BY <1>1, <1>2, <1>8, MonthFacts, SMT
  <2>2. MonthLength(c) = k - s + 1
    <3> HIDE DEF yr, c
    <3> QED BY <1>1, <1>6, <2>1, SMT
  <2>3. Civil(e, y, k + 1) = IF mo < 12 THEN [year |-> yr, month |-> mo + 1, day |-> 1]
                             ELSE [year |-> yr + 1, month |-> 1, day |-> 1]
    <3>1. Civil(e, y, k + 1) =
            [year  |-> y + e * 400 + (IF (IF m + 1 < 10 THEN (m + 1) + 3 ELSE (m + 1) - 9) <= 2 THEN 1 ELSE 0),
             month |-> IF m + 1 < 10 THEN (m + 1) + 3 ELSE (m + 1) - 9, day |-> (k + 1) - (k + 1) + 1]
      BY <2>1, SMT DEF Civil, Month, MonthStart
    <3> QED BY <1>1, <2>1, <3>1, SMT
  <2>4. ~(c.day < MonthLength(c))
    BY <2>2, SMT
  <2>5. Tomorrow(c) = IF mo < 12 THEN [year |-> yr, month |-> mo + 1, day |-> 1]
                      ELSE [year |-> yr + 1, month |-> 1, day |-> 1]
    <3>1. Tomorrow(c) = IF c.month < 12 THEN [year |-> c.year, month |-> c.month + 1, day |-> 1]
                        ELSE [year |-> c.year + 1, month |-> 1, day |-> 1]
      <4> HIDE DEF c
      <4> QED BY <2>4, SMT DEF Tomorrow
    <3> HIDE DEF yr, mo
    <3>2. c.month = mo /\ c.year = yr
      BY SMT
    <3> HIDE DEF c
    <3> QED BY <3>1, <3>2
  <2> QED BY <1>3, <2>3, <2>5
<1> QED BY <1>7, <1>8

\* Every day lies somewhere.
LEMMA EveryDay ==
  ASSUME NEW n \in Int
  PROVE  \E e, y, k : DayAt(n, e, y, k)
<1> DEFINE z == n + 719468
           e == z \div 146097
           d == z % 146097
           y == YearOfEra(d)
           k == d - YearStart(y)
<1>1. e \in Int /\ d \in Int /\ 0 <= d /\ d <= 146096 /\ z = 146097 * e + d
  BY SMT
<1> HIDE DEF e, d
<1>2. y \in Int /\ 0 <= y /\ y <= 399 /\ k \in Int /\ 0 <= k /\ k <= 365 /\ (k = 365 => LongYear(y))
  BY <1>1, DayInEra, SMT
<1> HIDE DEF y
<1>3. YearStart(y) \in Int
  BY <1>2, SMT DEF YearStart
<1>4. z = 146097 * e + (YearStart(y) + k)
  BY <1>1, <1>2, <1>3, SMT
<1> HIDE DEF k
<1>5. DayAt(n, e, y, k)
  BY <1>1, <1>2, <1>4, SMT DEF DayAt
<1> QED BY <1>5

\* civil_from_days is the Gregorian calendar: on every day, before 1970 too,
\* the next day's date is the one that month lengths and leap years say.
THEOREM CivilIsCalendar ==
  ASSUME NEW n \in Int
  PROVE  civil_from_days(n + 1) = Tomorrow(civil_from_days(n))
<1>a. PICK e, y, k : DayAt(n, e, y, k)
  BY EveryDay
<1>1. /\ e \in Int /\ y \in Int /\ k \in Int /\ 0 <= y /\ y <= 399 /\ 0 <= k /\ k <= 365
      /\ k = 365 => LongYear(y)
      /\ n + 719468 = 146097 * e + (YearStart(y) + k)
  BY <1>a DEF DayAt
<1>2. civil_from_days(n) = Civil(e, y, k)
  BY <1>a, CivilOf
<1>0. YearStart(y) \in Int
  BY <1>1, SMT DEF YearStart
<1>3. CASE k < 364 \/ (k = 364 /\ LongYear(y))
  <2>1. civil_from_days(n + 1) = Civil(e, y, k + 1)
    <3>1. (n + 1) + 719468 = 146097 * e + (YearStart(y) + (k + 1))
      BY <1>0, <1>1, SMT
    <3>2. k + 1 <= 365 /\ (k + 1 = 365 => LongYear(y)) /\ k + 1 \in Int /\ 0 <= k + 1 /\ n + 1 \in Int
      BY <1>1, <1>3, SMT
    <3>3. DayAt(n + 1, e, y, k + 1)
      BY <1>1, <3>1, <3>2, SMT DEF DayAt
    <3> QED BY <3>2, <3>3, CivilOf
  <2>2. Civil(e, y, k + 1) = Tomorrow(Civil(e, y, k))
    BY <1>1, <1>3, NextInYear, SMT
  <2> QED BY <1>2, <2>1, <2>2
<1>4. CASE ~(k < 364 \/ (k = 364 /\ LongYear(y)))
  <2>1. k = IF LongYear(y) THEN 365 ELSE 364
    BY <1>1, <1>4, SMT
  <2>2. PICK f, x \in Int : x + f * 400 = (y + e * 400) + 1 /\ DayAt(n + 1, f, x, 0)
    <3>1. CASE y < 399
      <4>1. y + 1 \in Int /\ 0 <= y + 1 /\ y + 1 <= 399 /\ (y + 1) + e * 400 = (y + e * 400) + 1
        BY <1>1, <3>1, SMT
      <4>2. YearStart(y + 1) = YearStart(y) + (k + 1)
        BY <1>0, <1>1, <2>1, <3>1, YearAfter, SMT
      <4>3. (n + 1) + 719468 = 146097 * e + ((YearStart(y) + (k + 1)) + 0)
        BY <1>0, <1>1, SMT
      <4>4. DayAt(n + 1, e, y + 1, 0)
        BY <1>1, <4>1, <4>2, <4>3, SMT DEF DayAt
      <4> QED BY <1>1, <4>1, <4>4
    <3>2. CASE y = 399
      <4>1. k = 365
        BY <2>1, <3>2, SMT DEF LongYear
      <4>2. YearStart(399) = 145731 /\ YearStart(0) = 0
        BY SMT DEF YearStart
      <4>3. (n + 1) + 719468 = 146097 * (e + 1) + (YearStart(0) + 0)
        BY <1>1, <3>2, <4>1, <4>2, SMT
      <4>4. 0 + (e + 1) * 400 = (y + e * 400) + 1
        BY <1>1, <3>2, SMT
      <4>5. e + 1 \in Int /\ DayAt(n + 1, e + 1, 0, 0)
        BY <1>1, <4>3, SMT DEF DayAt
      <4> QED BY <4>4, <4>5
    <3> QED BY <1>1, <3>1, <3>2, SMT
  <2>3. civil_from_days(n + 1) = Civil(f, x, 0)
    <3>1. n + 1 \in Int
      BY SMT
    <3> QED BY <2>2, <3>1, CivilOf
  <2>4. Civil(f, x, 0) = [year |-> (y + e * 400) + 1, month |-> 3, day |-> 1]
    <3>1. x + f * 400 + 0 = (y + e * 400) + 1
      BY <2>2, SMT
    <3> QED BY <3>1, SMT DEF Civil, Month, MarchMonth
  <2>5. Civil(e, y, k) = [year |-> (y + e * 400) + 1, month |-> 2, day |-> IF LongYear(y) THEN 29 ELSE 28]
    BY <2>1, SMT DEF Civil, Month, MarchMonth
  <2>6. Leap((y + e * 400) + 1) <=> LongYear(y)
    BY <1>1, LeapYear, SMT
  <2> DEFINE c == [year |-> (y + e * 400) + 1, month |-> 2, day |-> IF LongYear(y) THEN 29 ELSE 28]
  <2>7. MonthLength(c) = c.day
    BY <2>6, SMT DEF MonthLength
  <2>8. Tomorrow(c) = [year |-> (y + e * 400) + 1, month |-> 3, day |-> 1]
    <3>1. c.day = c.day /\ c.month = 2 /\ ~(c.day < MonthLength(c))
      BY <2>7, SMT
    <3>2. c.year = (y + e * 400) + 1 /\ c.month + 1 = 3
      BY SMT
    <3> HIDE DEF c
    <3>3. Tomorrow(c) = [year |-> c.year, month |-> c.month + 1, day |-> 1]
      BY <3>1, SMT DEF Tomorrow
    <3> QED BY <3>2, <3>3
  <2> QED BY <1>2, <2>3, <2>4, <2>5, <2>8
<1> QED BY <1>3, <1>4

\* The years that four digits can show.
LEMMA CivilYear ==
  ASSUME NEW n \in Int, 0 <= n, n <= LastShownDay
  PROVE  civil_from_days(n).year \in Int /\ 0 <= civil_from_days(n).year /\ civil_from_days(n).year <= 9999
<1>a. PICK e, y, k : DayAt(n, e, y, k)
  BY EveryDay
<1>1. /\ e \in Int /\ y \in Int /\ k \in Int /\ 0 <= y /\ y <= 399 /\ 0 <= k /\ k <= 365
      /\ k = 365 => LongYear(y)
      /\ n + 719468 = 146097 * e + (YearStart(y) + k)
  BY <1>a DEF DayAt
<1>2. civil_from_days(n) = Civil(e, y, k)
  BY <1>a, CivilOf
<1>3. Civil(e, y, k).year = y + e * 400 + (IF Month(k) <= 2 THEN 1 ELSE 0)
  BY SMT DEF Civil
<1>4. /\ y + e * 400 + (IF Month(k) <= 2 THEN 1 ELSE 0) \in Int
      /\ 0 <= y + e * 400 + (IF Month(k) <= 2 THEN 1 ELSE 0)
      /\ y + e * 400 + (IF Month(k) <= 2 THEN 1 ELSE 0) <= 9999
  BY <1>1, SMT DEF Month, MarchMonth, YearStart, LongYear, LastShownDay
<1> QED BY <1>2, <1>3, <1>4

\* Where the days of Line begin.
LEMMA SecondDay == civil_from_days(1) = [year |-> 1970, month |-> 1, day |-> 2]
<1>1. DayAt(1, 4, 369, 307)
  BY SMT DEF DayAt, YearStart, LongYear
<1>2. civil_from_days(1) = Civil(4, 369, 307)
  BY <1>1, CivilOf, SMT
<1> QED BY <1>2, SMT DEF Civil, Month, MarchMonth

-----------------------------------------------------------------------------
(* The clock.                                                               *)

\* The units of time are positive.
LEMMA TimeFacts ==
  /\ NANOS_PER_SEC \in Nat \ {0} /\ SecsPerMinute \in Nat \ {0} /\ MinutesPerHour \in Nat \ {0}
  /\ HoursPerDay \in Nat \ {0} /\ CounterMod \in Nat \ {0}
  /\ SecsPerHour \in Nat \ {0} /\ SECS_PER_DAY \in Nat \ {0}
<1>1. /\ NANOS_PER_SEC \in Nat \ {0} /\ SecsPerMinute \in Nat \ {0} /\ MinutesPerHour \in Nat \ {0}
      /\ HoursPerDay \in Nat \ {0} /\ CounterMod \in Nat \ {0}
  BY TimeAssumption
<1>2. SecsPerHour \in Nat \ {0}
  BY <1>1, SMT DEF SecsPerHour
<1>3. SECS_PER_DAY \in Nat \ {0}
  BY <1>1, <1>2, SMT DEF SECS_PER_DAY
<1> QED BY <1>1, <1>2, <1>3

\* time_from_ns takes a time of day apart into the fields it was made of.
LEMMA TimeOfDay ==
  ASSUME NEW h \in Nat, NEW m \in Nat, NEW s \in Nat, m < MinutesPerHour, s < SecsPerMinute,
         NEW ns \in Nat, ns < NANOS_PER_SEC
  PROVE  time_from_ns(((h * SecsPerHour + m * SecsPerMinute) + s) * NANOS_PER_SEC + ns) =
           [hour |-> h, min |-> m, sec |-> s, nanos |-> ns]
<1> DEFINE t == (h * SecsPerHour + m * SecsPerMinute) + s
           u == m * SecsPerMinute + s
           x == t * NANOS_PER_SEC + ns
           v == h * MinutesPerHour + m
<1>1. t \in Nat /\ u \in Nat /\ t = h * SecsPerHour + u
  BY TimeFacts, SMT
<1>2. u < SecsPerHour
  <2>1. m * SecsPerMinute + SecsPerMinute <= MinutesPerHour * SecsPerMinute
    <3>1. (MinutesPerHour - (m + 1)) * SecsPerMinute >= 0
      BY TimeFacts, SMT
    <3> QED BY <3>1, TimeFacts, SMT
  <2> QED BY <2>1, TimeFacts, SMT DEF SecsPerHour
<1>3. x \in Int /\ x = t * NANOS_PER_SEC + ns
  BY <1>1, TimeFacts, SMT
<1>4. t = v * SecsPerMinute + s
  BY TimeFacts, SMT DEF SecsPerHour
<1>5. v \in Int
  BY TimeFacts, SMT
<1> HIDE DEF t, u, v, x
<1>6. x \div NANOS_PER_SEC = t /\ x % NANOS_PER_SEC = ns
  BY <1>1, <1>3, TimeFacts, DivisionUnique
<1>7. t \div SecsPerHour = h /\ t % SecsPerHour = u
  BY <1>1, <1>2, TimeFacts, DivisionUnique
<1>8. u \div SecsPerMinute = m
  <2>1. u = m * SecsPerMinute + s
    BY DEF u
  <2> QED BY <1>1, <2>1, TimeFacts, DivisionUnique
<1>9. t % SecsPerMinute = s
  <2>1. t \in Int
    BY <1>1
  <2> QED BY <2>1, <1>4, <1>5, TimeFacts, DivisionUnique
<1>10. time_from_ns(x) = [hour |-> h, min |-> m, sec |-> s, nanos |-> ns]
  BY <1>6, <1>7, <1>8, <1>9 DEF time_from_ns
<1> QED BY <1>10 DEF x, t

\* format_iso8601 shows the date and the time of the local clock, on any day, at
\* any second of it, whatever the offset; of the year the last four digits.
THEOREM LocalDate ==
  ASSUME NEW n \in Int, NEW s \in Nat, s < SECS_PER_DAY, NEW tz \in Int
  PROVE  /\ format_iso8601(((n * SECS_PER_DAY + s) - tz) * NANOS_PER_SEC, tz).date =
              [civil_from_days(n) EXCEPT !.year = @ % 10000]
         /\ format_iso8601(((n * SECS_PER_DAY + s) - tz) * NANOS_PER_SEC, tz).time =
              time_from_ns(s * NANOS_PER_SEC)
<1> DEFINE ns == ((n * SECS_PER_DAY + s) - tz) * NANOS_PER_SEC
           local == ns + tz * NANOS_PER_SEC
           day == NANOS_PER_SEC * SECS_PER_DAY
           w == s * NANOS_PER_SEC
<1>1. w \in Int /\ 0 <= w /\ w < day /\ day \in Nat \ {0}
  <2>1. w \in Int /\ 0 <= w /\ w < SECS_PER_DAY * NANOS_PER_SEC
    BY TimeFacts, Scaled
  <2>2. day = SECS_PER_DAY * NANOS_PER_SEC /\ day \in Nat \ {0}
    BY TimeFacts, SMT
  <2> QED BY <2>1, <2>2
<1>2. local \in Int /\ local = n * day + w
  <2>1. local \in Int
    BY TimeFacts, SMT
  <2>2. ns = (n * SECS_PER_DAY + s) * NANOS_PER_SEC - tz * NANOS_PER_SEC
    BY TimeFacts, SMT
  <2>3. (n * SECS_PER_DAY + s) * NANOS_PER_SEC = (n * SECS_PER_DAY) * NANOS_PER_SEC + w
    BY TimeFacts, SMT
  <2>4. (n * SECS_PER_DAY) * NANOS_PER_SEC = n * day
    BY TimeFacts, SMT
  <2>5. tz * NANOS_PER_SEC \in Int /\ n * day \in Int
    BY TimeFacts, SMT
  <2> HIDE DEF ns, w, day
  <2> QED BY <1>1, <2>1, <2>2, <2>3, <2>4, <2>5, TimeFacts, SMT
<1> HIDE DEF local, w, day
<1>3. local \div day = n /\ local % day = w
  BY <1>1, <1>2, DivisionUnique
<1>4. /\ format_iso8601(ns, tz).date = [civil_from_days(local \div day) EXCEPT !.year = @ % 10000]
      /\ format_iso8601(ns, tz).time = time_from_ns(local % day)
  BY SMT DEF format_iso8601, local, day
<1> QED BY <1>3, <1>4 DEF w

\* The suffix of an offset of h hours and m minutes to either side.
LEMMA ZoneFields ==
  ASSUME NEW ns \in Int, NEW h \in Nat, NEW m \in Nat, NEW s \in Nat,
         m < MinutesPerHour, s < SecsPerMinute,
         NEW a, a = (h * SecsPerHour + m * SecsPerMinute) + s, a # 0
  PROVE  /\ format_iso8601(ns, 0).zone = <<"Z">>
         /\ format_iso8601(ns, a).zone = <<"+", h, m>>
         /\ format_iso8601(ns, 0 - a).zone = <<"-", h, m>>
<1> DEFINE u == m * SecsPerMinute + s
<1>1. a \in Nat /\ u \in Nat /\ a = h * SecsPerHour + u
  BY TimeFacts, SMT
<1>2. u < SecsPerHour
  <2>1. m * SecsPerMinute + SecsPerMinute <= MinutesPerHour * SecsPerMinute
    <3>1. (MinutesPerHour - (m + 1)) * SecsPerMinute >= 0
      BY TimeFacts, SMT
    <3> QED BY <3>1, TimeFacts, SMT
  <2> QED BY <2>1, TimeFacts, SMT DEF SecsPerHour
<1> HIDE DEF u
<1>3. a \div SecsPerHour = h /\ a % SecsPerHour = u
  BY <1>1, <1>2, TimeFacts, DivisionUnique
<1>4. u \div SecsPerMinute = m
  <2>1. u = m * SecsPerMinute + s
    BY DEF u
  <2> QED BY <1>1, <2>1, TimeFacts, DivisionUnique
<1>5. format_iso8601(ns, 0).zone = <<"Z">>
  BY SMT DEF format_iso8601
<1>6. format_iso8601(ns, a).zone = <<"+", a \div SecsPerHour, (a % SecsPerHour) \div SecsPerMinute>>
  <2>1. ~(a < 0) /\ a # 0
    BY <1>1
  <2> QED BY <2>1 DEF format_iso8601
<1>7. format_iso8601(ns, 0 - a).zone = <<"-", a \div SecsPerHour, (a % SecsPerHour) \div SecsPerMinute>>
  <2>1. 0 - a < 0 /\ 0 - a # 0 /\ 0 - (0 - a) = a
    BY <1>1
  <2> DEFINE b == 0 - a
  <2> HIDE DEF b
  <2>2. b < 0 /\ b # 0 /\ 0 - b = a
    BY <2>1 DEF b
  <2>3. format_iso8601(ns, b).zone = <<"-", a \div SecsPerHour, (a % SecsPerHour) \div SecsPerMinute>>
    BY <2>2 DEF format_iso8601
  <2> QED BY <2>3 DEF b
<1> QED BY <1>3, <1>4, <1>5, <1>6, <1>7

\* t ticks after the base c the stamp is the time of t ticks after w.
TicksMean(c, t, w, f) ==
  ticks_to_ns((c + t) % CounterMod, calibrate(f, w, c)) =
    (t * NANOS_PER_SEC) \div (IF f = 0 THEN NANOS_PER_SEC ELSE f) + w

\* ticks_to_ns counts the ticks since the calibration, also when the counter
\* has wrapped in between.
LEMMA TicksSinceBase ==
  ASSUME NEW c \in Nat, NEW t \in Nat, t < CounterMod, NEW w \in Int, NEW f \in Nat
  PROVE  TicksMean(c, t, w, f)
<1> DEFINE q == (c + t) \div CounterMod
           r == (c + t) % CounterMod
<1>1. q \in Int /\ r \in Int /\ c + t = CounterMod * q + r
  BY TimeFacts, SMT
<1> HIDE DEF q, r
<1>2. (r - c) % CounterMod = t
  <2>1. r - c = (0 - q) * CounterMod + t
    BY <1>1, TimeFacts, SMT
  <2>2. r - c \in Int /\ 0 - q \in Int
    BY <1>1
  <2> DEFINE a == r - c
             p == 0 - q
  <2> HIDE DEF a, p
  <2>3. a = p * CounterMod + t /\ a \in Int /\ p \in Int
    BY <2>1, <2>2 DEF a, p
  <2>4. a % CounterMod = t
    BY <2>3, TimeFacts, DivisionUnique
  <2> QED BY <2>4 DEF a
<1>3. ticks_to_ns(r, calibrate(f, w, c)) =
        (((r - c) % CounterMod) * NANOS_PER_SEC) \div (IF f = 0 THEN NANOS_PER_SEC ELSE f) + w
  BY SMT DEF ticks_to_ns, calibrate, FALLBACK_COUNTER_HZ
<1> QED BY <1>2, <1>3 DEF r, TicksMean

\* A frequency measured over one second.
LEMMA Measured ==
  ASSUME NEW f \in Nat
  PROVE  counter_frequency(<<0, 0, 0>>, f, NANOS_PER_SEC) = f
<1>1. (f * NANOS_PER_SEC) \div NANOS_PER_SEC = f
  <2> DEFINE a == f * NANOS_PER_SEC
  <2>1. a \in Int /\ a = f * NANOS_PER_SEC + 0
    BY TimeFacts, SMT
  <2> HIDE DEF a
  <2>2. a \div NANOS_PER_SEC = f
    BY <2>1, TimeFacts, DivisionUnique
  <2> QED BY <2>2 DEF a
<1>2. ~(NANOS_PER_SEC < 1)
  BY TimeFacts
<1>3. tsc_freq_from_cpuid(0, 0, 0) = 0
  BY DEF tsc_freq_from_cpuid
<1> QED BY <1>1, <1>2, <1>3 DEF counter_frequency, timing_calibrate_frequency

\* A stamp taken twenty seconds after the calibration, 3 ticks before the
\* counter wraps, with a counter that is as fast as the nanoseconds, one that
\* ticks once a second, and one twice as fast.
LEMMA TicksToNow ==
  ASSUME NEW now \in Int, NEW f \in {0, 1, 2 * NANOS_PER_SEC}
  PROVE  LET perNs == IF f = 0 THEN <<1, 1>> ELSE <<f, NANOS_PER_SEC>>
             since == 20 * NANOS_PER_SEC
             calib == calibrate(counter_frequency(<<0, 0, 0>>, f, NANOS_PER_SEC), now - since, CounterMod - 3)
             tick  == (CounterMod - 3 + (since * perNs[1]) \div perNs[2]) % CounterMod
         IN  ticks_to_ns(tick, calib) = now
<1> DEFINE N == NANOS_PER_SEC
           since == 20 * N
           perNs == IF f = 0 THEN <<1, 1>> ELSE <<f, N>>
           t == (since * perNs[1]) \div perNs[2]
           D == IF f = 0 THEN N ELSE f
           c == CounterMod - 3
           w == now - since
<1>1. N \in Nat \ {0} /\ f \in Nat /\ c \in Nat /\ w \in Int /\ 40 * N < CounterMod /\ since \in Nat
  BY TimeFacts, LineAssumption, SMT
<1>2. counter_frequency(<<0, 0, 0>>, f, NANOS_PER_SEC) = f
  BY <1>1, Measured
<1>3. t \in Nat /\ t < CounterMod /\ (t * N) \div D = since
  <2>1. CASE f = 0
    <3>1. perNs[1] = 1 /\ perNs[2] = 1 /\ D = N
      BY <2>1
    <3>2. t = since
      BY <1>1, <3>1, SMT
    <3>3. (since * N) \div N = since
      <4> DEFINE a == since * N
      <4>1. a \in Int /\ a = since * N + 0
        BY <1>1, SMT
      <4> HIDE DEF a, N, since
      <4>2. a \div N = since
        BY <1>1, <4>1, DivisionUnique
      <4> QED BY <4>2 DEF a
    <3>4. since < CounterMod
      BY <1>1, TimeFacts, SMT
    <3> QED BY <1>1, <3>1, <3>2, <3>3, <3>4
  <2>2. CASE f = 1
    <3>1. perNs[1] = 1 /\ perNs[2] = N /\ D = 1
      BY <2>2
    <3>2. since * 1 = since /\ since \div N = 20
      <4>1. since = 20 * N + 0 /\ since \in Int
        BY <1>1
      <4> HIDE DEF since, N
      <4> QED BY <1>1, <4>1, DivisionUnique
    <3>3. t = 20
      BY <3>1, <3>2
    <3>4. 20 < CounterMod
      BY <1>1, TimeFacts, SMT
    <3>5. (20 * N) \div 1 = since
      BY <1>1, SMT
    <3> QED BY <3>1, <3>3, <3>4, <3>5
  <2>3. CASE f = 2 * N /\ f # 0
    <3>1. perNs[1] = 2 * N /\ perNs[2] = N /\ D = 2 * N
      BY <2>3
    <3>2. (since * (2 * N)) \div N = 40 * N
      <4> DEFINE a == since * (2 * N)
                 q == 40 * N
      <4>1. a \in Int /\ q \in Int /\ a = q * N + 0
        BY <1>1, SMT
      <4> HIDE DEF a, q, N
      <4>2. a \div N = q
        BY <1>1, <4>1, DivisionUnique
      <4> QED BY <4>2 DEF a, q
    <3>3. t = 40 * N
      BY <3>1, <3>2
    <3>4. ((40 * N) * N) \div (2 * N) = since
      <4> DEFINE a == (40 * N) * N
                 b == 2 * N
      <4>1. a \in Int /\ b \in Nat \ {0} /\ a = since * b + 0
        BY <1>1, SMT
      <4> HIDE DEF a, b, since
      <4>2. a \div b = since
        BY <1>1, <4>1, DivisionUnique
      <4> QED BY <4>2 DEF a, b
    <3> QED BY <1>1, <3>1, <3>3, <3>4
  <2> QED BY <1>1, <2>1, <2>2, <2>3
<1>4. ticks_to_ns((c + t) % CounterMod, calibrate(f, w, c)) = (t * N) \div D + w
  <2>1. f \in Nat /\ c \in Nat /\ w \in Int /\ t \in Nat /\ t < CounterMod
    BY <1>1, <1>3
  <2> HIDE DEF t, c, w, D, N
  <2>2. ticks_to_ns((c + t) % CounterMod, calibrate(f, w, c))
          = (t * NANOS_PER_SEC) \div (IF f = 0 THEN NANOS_PER_SEC ELSE f) + w
    <3>1. TicksMean(c, t, w, f)
      BY <2>1, TicksSinceBase, Zenon
    <3> QED BY <3>1, Zenon DEF TicksMean
  <2> QED BY <2>2 DEF D, N
<1>5. since + w = now
  BY <1>1
<1>6. ticks_to_ns((c + t) % CounterMod, calibrate(f, w, c)) = now
  BY <1>3, <1>4, <1>5
<1> QED BY <1>2, <1>6

\* The time that StampShowsLocalTime stamps and converts.
Stamped(n, tz, sec) ==
      LET freq  == CASE n % 3 = 0 -> 0 [] n % 3 = 1 -> 1 [] OTHER -> 2 * NANOS_PER_SEC
          perNs == IF freq = 0 THEN <<1, 1>> ELSE <<freq, NANOS_PER_SEC>>
          now   == (n * SECS_PER_DAY + sec - tz) * NANOS_PER_SEC
          since == 20 * NANOS_PER_SEC
          calib == calibrate(counter_frequency(<<0, 0, 0>>, freq, NANOS_PER_SEC), now - since, CounterMod - 3)
          tick  == (CounterMod - 3 + (since * perNs[1]) \div perNs[2]) % CounterMod
      IN ticks_to_ns(tick, calib)

\* It is the time at which the record was stamped.
LEMMA StampedIsNow ==
  ASSUME NEW n \in Nat, NEW tz \in Int, NEW sec \in Int
  PROVE  Stamped(n, tz, sec) = ((n * SECS_PER_DAY + sec) - tz) * NANOS_PER_SEC
<1> DEFINE freq == CASE n % 3 = 0 -> 0 [] n % 3 = 1 -> 1 [] OTHER -> 2 * NANOS_PER_SEC
           now  == (n * SECS_PER_DAY + sec - tz) * NANOS_PER_SEC
<1>1. freq \in {0, 1, 2 * NANOS_PER_SEC}
  BY SMT
<1>2. now \in Int /\ now = ((n * SECS_PER_DAY + sec) - tz) * NANOS_PER_SEC
  <2>1. n * SECS_PER_DAY \in Int
    BY TimeFacts, SMT
  <2>2. n * SECS_PER_DAY + sec - tz = (n * SECS_PER_DAY + sec) - tz
    BY <2>1, SMT
  <2>3. now \in Int
    BY TimeFacts, <2>1, SMT
  <2> QED BY <2>2, <2>3
<1> HIDE DEF freq, now
<1>3. LET perNs == IF freq = 0 THEN <<1, 1>> ELSE <<freq, NANOS_PER_SEC>>
          since == 20 * NANOS_PER_SEC
          calib == calibrate(counter_frequency(<<0, 0, 0>>, freq, NANOS_PER_SEC), now - since, CounterMod - 3)
          tick  == (CounterMod - 3 + (since * perNs[1]) \div perNs[2]) % CounterMod
      IN  ticks_to_ns(tick, calib) = now
  BY <1>1, <1>2, TicksToNow, Zenon
<1>4. Stamped(n, tz, sec) = now
  BY <1>3, Zenon DEF Stamped, freq, now
<1> QED BY <1>2, <1>4

\* The text that StampShowsLocalTime expects.
Shown(d, tz, sec) ==
  [date |-> d,
   time |-> [hour |-> IF sec = 0 THEN 0 ELSE HoursPerDay - 1,
             min  |-> IF sec = 0 THEN 0 ELSE MinutesPerHour - 1,
             sec  |-> IF sec = 0 THEN 0 ELSE SecsPerMinute - 1, nanos |-> 0],
   zone |-> IF tz = 0 THEN <<"Z">> ELSE IF tz > 0 THEN <<"+", 5, 1>> ELSE <<"-", 3, 0>>]

\* What a line shows of it.
LEMMA ShownTime ==
  ASSUME NEW n \in Int, 0 <= n, n <= LastShownDay,
         NEW tz \in {0, 5 * SecsPerHour + SecsPerMinute, 0 - 3 * SecsPerHour},
         NEW sec \in {0, SECS_PER_DAY - 1}
  PROVE  format_iso8601(((n * SECS_PER_DAY + sec) - tz) * NANOS_PER_SEC, tz) =
           Shown(civil_from_days(n), tz, sec)
<1> DEFINE ns == ((n * SECS_PER_DAY + sec) - tz) * NANOS_PER_SEC
           out == format_iso8601(ns, tz)
<1>1. sec \in Nat /\ sec < SECS_PER_DAY /\ tz \in Int /\ ns \in Int
  BY TimeFacts, SMT
<1>2. out = [date |-> out.date, time |-> out.time, zone |-> out.zone]
  BY SMT DEF format_iso8601
<1>3. out.date = [civil_from_days(n) EXCEPT !.year = @ % 10000] /\ out.time = time_from_ns(sec * NANOS_PER_SEC)
  BY <1>1, LocalDate, SMT
<1>4. [civil_from_days(n) EXCEPT !.year = @ % 10000] = civil_from_days(n)
  <2> DEFINE c == civil_from_days(n)
  <2>1. c.year \in Int /\ 0 <= c.year /\ c.year <= 9999
    BY CivilYear, SMT
  <2>2. c = [year |-> c.year, month |-> c.month, day |-> c.day]
    BY SMT DEF civil_from_days
  <2> HIDE DEF c
  <2>3. c.year % 10000 = c.year
    BY <2>1, SMT
  <2>4. [c EXCEPT !.year = @ % 10000] = c
    BY <2>2, <2>3, SMT
  <2> QED BY <2>4 DEF c
<1>5. time_from_ns(sec * NANOS_PER_SEC) =
        [hour |-> IF sec = 0 THEN 0 ELSE HoursPerDay - 1, min  |-> IF sec = 0 THEN 0 ELSE MinutesPerHour - 1,
         sec  |-> IF sec = 0 THEN 0 ELSE SecsPerMinute - 1, nanos |-> 0]
  <2>1. CASE sec = 0
    <3>1. time_from_ns(((0 * SecsPerHour + 0 * SecsPerMinute) + 0) * NANOS_PER_SEC + 0) =
            [hour |-> 0, min |-> 0, sec |-> 0, nanos |-> 0]
      BY TimeFacts, TimeOfDay, SMT
    <3>2. ((0 * SecsPerHour + 0 * SecsPerMinute) + 0) * NANOS_PER_SEC + 0 = sec * NANOS_PER_SEC
      BY <2>1, TimeFacts, SMT
    <3> QED BY <2>1, <3>1, <3>2
  <2>2. CASE sec # 0
    <3> DEFINE h == HoursPerDay - 1
               m == MinutesPerHour - 1
               s == SecsPerMinute - 1
               x == ((h * SecsPerHour + m * SecsPerMinute) + s) * NANOS_PER_SEC + 0
    <3>1. h \in Nat /\ m \in Nat /\ s \in Nat /\ m < MinutesPerHour /\ s < SecsPerMinute
          /\ 0 < NANOS_PER_SEC
      BY TimeFacts, SMT
    <3>2. (h * SecsPerHour + m * SecsPerMinute) + s = sec
      <4>1. h * SecsPerHour = HoursPerDay * SecsPerHour - SecsPerHour
        BY TimeFacts, SMT
      <4>2. m * SecsPerMinute = MinutesPerHour * SecsPerMinute - SecsPerMinute
        BY TimeFacts, SMT
      <4>3. /\ HoursPerDay * SecsPerHour = SECS_PER_DAY
            /\ MinutesPerHour * SecsPerMinute = SecsPerHour
        BY TimeFacts, SMT DEF SECS_PER_DAY, SecsPerHour
      <4> QED BY <2>2, <4>1, <4>2, <4>3, TimeFacts, SMT
    <3>3. x = sec * NANOS_PER_SEC
      BY <1>1, <3>2, TimeFacts, SMT
    <3>4. time_from_ns(x) = [hour |-> h, min |-> m, sec |-> s, nanos |-> 0]
      <4> HIDE DEF h, m, s
      <4> QED BY <3>1, TimeOfDay
    <3> HIDE DEF x
    <3> QED BY <2>2, <3>3, <3>4
  <2> QED BY <2>1, <2>2
<1>6. out.zone = IF tz = 0 THEN <<"Z">> ELSE IF tz > 0 THEN <<"+", 5, 1>> ELSE <<"-", 3, 0>>
  <2> HIDE DEF ns
  <2> DEFINE a == (5 * SecsPerHour + 1 * SecsPerMinute) + 0
             b == (3 * SecsPerHour + 0 * SecsPerMinute) + 0
  <2>0. /\ a \in Int /\ a > 0 /\ a = 5 * SecsPerHour + SecsPerMinute
        /\ b \in Int /\ b > 0 /\ 0 - b = 0 - 3 * SecsPerHour
    BY TimeFacts, SMT
  <2>3. 1 < MinutesPerHour /\ 0 < MinutesPerHour /\ 0 < SecsPerMinute
    BY TimeFacts, LineAssumption
  <2>1. format_iso8601(ns, 0).zone = <<"Z">> /\ format_iso8601(ns, a).zone = <<"+", 5, 1>>
    <3>1. a = (5 * SecsPerHour + 1 * SecsPerMinute) + 0 /\ a # 0
      BY <2>0
    <3> HIDE DEF a
    <3> QED BY <1>1, <2>3, <3>1, ZoneFields
  <2>2. format_iso8601(ns, 0 - b).zone = <<"-", 3, 0>>
    <3>1. b = (3 * SecsPerHour + 0 * SecsPerMinute) + 0 /\ b # 0
      BY <2>0
    <3> HIDE DEF b
    <3> QED BY <1>1, <2>3, <3>1, ZoneFields
  <2> HIDE DEF a, b
  <2>4. CASE tz = 0
    BY <2>1, <2>4
  <2>5. CASE tz = 5 * SecsPerHour + SecsPerMinute
    <3>1. tz = a /\ tz # 0 /\ tz > 0
      BY <2>0, <2>5
    <3> QED BY <2>1, <3>1
  <2>6. CASE tz = 0 - 3 * SecsPerHour
    <3>1. tz = 0 - b /\ tz # 0 /\ ~(tz > 0)
      BY <2>0, <2>6
    <3> QED BY <2>2, <3>1
  <2> QED BY <2>4, <2>5, <2>6
<1> HIDE DEF out
<1> DEFINE D == out.date
           T == out.time
           Z == out.zone
<1> HIDE DEF D, T, Z
<1>8. out = [date |-> D, time |-> T, zone |-> Z]
  BY <1>2 DEF D, T, Z
<1>9. /\ D = civil_from_days(n)
      /\ T = [hour |-> IF sec = 0 THEN 0 ELSE HoursPerDay - 1, min  |-> IF sec = 0 THEN 0 ELSE MinutesPerHour - 1,
              sec  |-> IF sec = 0 THEN 0 ELSE SecsPerMinute - 1, nanos |-> 0]
      /\ Z = IF tz = 0 THEN <<"Z">> ELSE IF tz > 0 THEN <<"+", 5, 1>> ELSE <<"-", 3, 0>>
  BY <1>3, <1>4, <1>5, <1>6 DEF D, T, Z
<1>7. out = Shown(civil_from_days(n), tz, sec)
  BY <1>8, <1>9, Zenon DEF Shown
<1> QED BY <1>7 DEF out, ns

-----------------------------------------------------------------------------
(* The days of Line.                                                        *)

\* The calendar's date is what civil_from_days computes.
DayInv ==
  part = "day" =>
    /\ input \in Int /\ 1 <= input /\ (input = 1 \/ input <= LastDay)
    /\ date = civil_from_days(input)

\* It does in the beginning.
LEMMA DayInvInit == LineInit => DayInv
<1> SUFFICES ASSUME LineInit, part = "day" PROVE DayInv
  BY DEF DayInv
<1>1. input = 1 /\ date = [year |-> 1970, month |-> 1, day |-> 2]
  BY DEF LineInit
<1>2. date = civil_from_days(1)
  BY <1>1, SecondDay, SMT
<1> QED BY <1>1, <1>2, SMT DEF DayInv

\* Each step keeps it so: the code's arithmetic advances as the calendar does.
LEMMA DayInvStep == DayInv /\ [LineNext]_lineVars => DayInv'
<1> SUFFICES ASSUME DayInv, [LineNext]_lineVars, part' = "day" PROVE DayInv'
  BY DEF DayInv
<1>1. CASE NextDay
  <2>1. /\ input \in Int /\ 1 <= input /\ date = civil_from_days(input)
        /\ input < LastDay /\ input' = input + 1 /\ date' = Tomorrow(date)
    BY <1>1, Zenon DEF DayInv, NextDay
  <2>2. LastDay \in Nat
    BY LineAssumption
  <2>3. input + 1 \in Int /\ 1 <= input + 1 /\ input + 1 <= LastDay
    BY <2>1, <2>2
  <2>4. civil_from_days(input + 1) = Tomorrow(civil_from_days(input))
    BY <2>1, CivilIsCalendar
  <2> QED BY <2>1, <2>3, <2>4, Zenon DEF DayInv
<1>2. CASE GrowFmt \/ GrowSpec \/ GrowPattern \/ GrowCall \/ GrowFlags \/ PickInteger
  <2>1. part # "day" /\ part' = part
    BY <1>2, Zenon DEF GrowFmt, GrowSpec, GrowPattern, GrowCall, GrowFlags, PickInteger, Grow
  <2> QED BY <2>1
<1>3. CASE UNCHANGED lineVars
  BY <1>3, Zenon DEF lineVars, DayInv
<1> QED BY <1>1, <1>2, <1>3, Zenon DEF LineNext

\* The run's property, for every unit of time and counter range and on every
\* day that four digits of a year can show: at the first and the last second of
\* the day, at three offsets and three frequencies, a line shows the local date
\* and time at which its record was stamped (ticks_to_ns, civil_from_days,
\* format_iso8601).  LocalDate and TicksSinceBase hold for any of these.
THEOREM LineShowsLocalTime == LineSpec => []StampShowsLocalTime
<1>1. DayInv => StampShowsLocalTime
  <2> SUFFICES ASSUME DayInv, part = "day",
                      NEW tz \in {0, 5 * SecsPerHour + SecsPerMinute, 0 - 3 * SecsPerHour},
                      NEW sec \in {0, SECS_PER_DAY - 1}
               PROVE  format_iso8601(Stamped(input, tz, sec), tz) = Shown(date, tz, sec)
    BY Zenon DEF StampShowsLocalTime, Stamped, Shown
  <2>1. input \in Int /\ 0 <= input /\ input <= LastShownDay /\ input \in Nat /\ date = civil_from_days(input)
    <3>1. input \in Int /\ 1 <= input /\ (input = 1 \/ input <= LastDay) /\ date = civil_from_days(input)
      BY DEF DayInv
    <3>2. LastDay \in Nat /\ LastDay <= LastShownDay
      BY LineAssumption, Zenon
    <3> QED BY <3>1, <3>2, SMT DEF LastShownDay
  <2>2. tz \in Int /\ sec \in Int
    BY TimeFacts, SMT
  <2>3. Stamped(input, tz, sec) = ((input * SECS_PER_DAY + sec) - tz) * NANOS_PER_SEC
    BY <2>1, <2>2, StampedIsNow
  <2>4. format_iso8601(((input * SECS_PER_DAY + sec) - tz) * NANOS_PER_SEC, tz)
          = Shown(civil_from_days(input), tz, sec)
    BY <2>1, ShownTime, Zenon
  <2> QED BY <2>1, <2>3, <2>4, Zenon
<1> QED BY <1>1, DayInvInit, DayInvStep, PTL DEF LineSpec

-----------------------------------------------------------------------------
(* Bytes.                                                                   *)

\* What a byte counts for is positive, and the next counts ByteBase times more.
LEMMA WeightDef ==
  /\ \A k \in 0 .. 8 : Weight[k] \in Nat \ {0}
  /\ Weight[0] = 1 /\ \A k \in 1 .. 8 : Weight[k] = ByteBase * Weight[k - 1]
<1> DEFINE V == Nat \ {0}
           D(f) == f = [k \in 0 .. 8 |-> IF k = 0 THEN 1 ELSE ByteBase * f[k - 1]]
           step == [p \in (1 .. 8) \X V |-> ByteBase * p[2]]
<1>1. \A i \in 1 .. 8, v \in V : step[<<i, v>>] = ByteBase * v /\ step[<<i, v>>] \in V
  <2> TAKE i \in 1 .. 8, v \in V
  <2>1. ByteBase * v \in V
    BY ByteAssumption, SMT
  <2> QED BY <2>1
<1> HIDE DEF step
<1>2. 8 \in Nat /\ 1 \in V
  OBVIOUS
<1>3. PICK f : Recursive(f, 8, V, 1, step)
  <2> HIDE DEF V
  <2> QED BY <1>1, <1>2, Recursion
<1>6. D(f)
  <2>1. f \in [0 .. 8 -> V] /\ f[0] = 1 /\ \A i \in 1 .. 8 : f[i] = step[<<i, f[i - 1]>>]
    BY <1>3 DEF Recursive
  <2>2. \A i \in 1 .. 8 : i - 1 \in 0 .. 8
    OBVIOUS
  <2> HIDE DEF V
  <2> QED BY <1>1, <2>1, <2>2
<1>8. D(Weight)
  <2>1. Weight = CHOOSE g : D(g)
    BY Zenon DEF Weight
  <2> QED BY <1>6, <2>1, Zenon
<1>9. /\ Weight = [i \in 0 .. 8 |-> Weight[i]] /\ Weight[0] = 1
      /\ \A i \in 1 .. 8 : Weight[i] = ByteBase * Weight[i - 1]
  <2> HIDE DEF V
  <2>1. \A i \in 1 .. 8 : i \in 0 .. 8 /\ i # 0
    OBVIOUS
  <2>2. 0 \in 0 .. 8
    OBVIOUS
  <2> QED BY <1>8, <2>1, <2>2
<1>10. Recursive(Weight, 8, V, 1, step)
  <2> HIDE DEF V, D
  <2>1. \A i \in 1 .. 8 : Weight[i - 1] \in V => Weight[i] = step[<<i, Weight[i - 1]>>]
    BY <1>1, <1>9
  <2> QED BY <1>1, <1>2, <1>9, <2>1, Recursed
<1> QED BY <1>9, <1>10 DEF Recursive

\* What is assumed of a byte.
LEMMA ByteFacts ==
  /\ ByteBase \in Nat /\ ByteBase > 11 /\ ByteBase % 2 = 0
  /\ ByteBase \div 2 \in Nat /\ ByteBase = 2 * (ByteBase \div 2)
BY ByteAssumption, SMT

\* A product of naturals is one.
LEMMA Product == \A a, b, v \in Nat : a * b \in Nat /\ v + a * b \in Nat
BY SMT

\* Division by a product, in two steps.
LEMMA DivisionTwice ==
  ASSUME NEW y \in Int, NEW w \in Nat \ {0}, NEW B \in Nat \ {0}
  PROVE  /\ y \div (B * w) = (y \div w) \div B
         /\ y % (B * w) = (y % w) + ((y \div w) % B) * w
<1> DEFINE q == y \div w
           r == y % w
           p == q \div B
           d == q % B
           m == B * w
           s == r + d * w
<1>1. q \in Int /\ r \in Int /\ 0 <= r /\ r < w /\ y = w * q + r
  BY SMT
<1> HIDE DEF q, r
<1>2. p \in Int /\ d \in Int /\ 0 <= d /\ d < B /\ q = B * p + d
  BY <1>1, SMT
<1> HIDE DEF p, d
<1>3. m \in Nat \ {0} /\ s \in Int
  BY <1>1, <1>2, SMT
<1>4. 0 <= s /\ s < m
  <2>1. (B - 1 - d) * w >= 0 /\ d * w >= 0 /\ d * w \in Int
    BY <1>1, <1>2, SMT
  <2>2. (B - 1 - d) * w = B * w - w - d * w
    BY <1>1, <1>2, SMT
  <2> QED BY <1>1, <2>1, <2>2, SMT
<1>5. y = p * m + s
  <2>1. w * q = w * (B * p) + w * d
    BY <1>1, <1>2, SMT
  <2>2. w * (B * p) = p * m /\ w * d = d * w
    BY <1>1, <1>2, SMT
  <2>3. p * m \in Int /\ d * w \in Int
    BY <1>2, <1>3, SMT
  <2> HIDE DEF m
  <2> QED BY <1>1, <2>1, <2>2, <2>3, SMT
<1> HIDE DEF m, s
<1>6. y \div m = p /\ y % m = s
  BY <1>2, <1>3, <1>4, <1>5, DivisionUnique
<1> QED BY <1>6 DEF m, s, p, d, q, r

\* s adds up the bytes b as from_le_bytes does.
FromLEPrefixes(b, n, s) ==
  /\ s \in [0 .. n -> Nat] /\ s[0] = 0
  /\ \A i \in 1 .. n : s[i] = s[i - 1] + b[i] * Weight[i - 1]

\* from_le_bytes is such a sum.
LEMMA FromLESums ==
  ASSUME NEW n \in 0 .. 8, NEW b \in [1 .. n -> Nat]
  PROVE  \E s : FromLEPrefixes(b, n, s) /\ FromLE(b) = s[n]
<1> DEFINE D(f) == f = [i \in 0 .. Len(b) |-> IF i = 0 THEN 0 ELSE f[i - 1] + b[i] * Weight[i - 1]]
           step == [p \in (1 .. n) \X Nat |-> p[2] + b[p[1]] * Weight[p[1] - 1]]
<1>0. Len(b) = n /\ n \in Nat
  OBVIOUS
<1>1. \A i \in 1 .. n, v \in Nat : step[<<i, v>>] = v + b[i] * Weight[i - 1] /\ step[<<i, v>>] \in Nat
  <2> TAKE i \in 1 .. n, v \in Nat
  <2>1. i - 1 \in 0 .. 8
    OBVIOUS
  <2>2. b[i] \in Nat /\ Weight[i - 1] \in Nat
    BY <2>1, WeightDef
  <2>3. v + b[i] * Weight[i - 1] \in Nat
    BY <2>2, Product
  <2> QED BY <2>3
<1> HIDE DEF step
<1>3. PICK f : Recursive(f, n, Nat, 0, step)
  BY <1>0, <1>1, Recursion
<1>6. D(f)
  <2>1. f \in [0 .. n -> Nat] /\ f[0] = 0 /\ \A i \in 1 .. n : f[i] = step[<<i, f[i - 1]>>]
    BY <1>3 DEF Recursive
  <2>2. \A i \in 1 .. n : i - 1 \in 0 .. n
    OBVIOUS
  <2>3. \A i \in 1 .. n : f[i] = f[i - 1] + b[i] * Weight[i - 1]
    BY <1>1, <2>1, <2>2
  <2>4. \A i \in 0 .. n : f[i] = IF i = 0 THEN 0 ELSE f[i - 1] + b[i] * Weight[i - 1]
    <3> TAKE i \in 0 .. n
    <3>1. i = 0 \/ i \in 1 .. n
      BY <1>0
    <3> QED BY <2>1, <2>3, <3>1, Zenon
  <2>5. f = [i \in 0 .. n |-> f[i]]
    BY <2>1
  <2> QED BY <1>0, <2>4, <2>5, Zenon
<1> DEFINE g == CHOOSE h : D(h)
<1>7. D(g)
  BY <1>6, Zenon
<1>8. FromLE(b) = g[n]
  BY <1>0, Zenon DEF FromLE
<1> HIDE DEF g
<1>9. /\ g = [i \in 0 .. n |-> g[i]] /\ g[0] = 0
      /\ \A i \in 1 .. n : g[i] = g[i - 1] + b[i] * Weight[i - 1]
  <2>1. \A i \in 1 .. n : i \in 0 .. n /\ i # 0
    OBVIOUS
  <2>2. 0 \in 0 .. n
    OBVIOUS
  <2> QED BY <1>0, <1>7, <2>1, <2>2
<1>10. Recursive(g, n, Nat, 0, step)
  <2> HIDE DEF D
  <2>1. \A i \in 1 .. n : g[i - 1] \in Nat => g[i] = step[<<i, g[i - 1]>>]
    BY <1>1, <1>9
  <2>2. 0 \in Nat
    OBVIOUS
  <2> QED BY <1>0, <1>1, <1>9, <2>1, <2>2, Recursed
<1>11. FromLEPrefixes(b, n, g)
  BY <1>9, <1>10 DEF Recursive, FromLEPrefixes
<1> QED BY <1>8, <1>11

\* The values of a byte.
Bytes == 0 .. ByteBase - 1

\* to_le_bytes of a number that is not negative: n bytes, each what is left of
\* the number after the bytes before it.
LEMMA ToLEBytes ==
  ASSUME NEW y \in Nat, NEW n \in 0 .. 8
  PROVE  /\ ToLE(y, n) \in [1 .. n -> Bytes] /\ ToLE(y, n) \in Seq(Bytes) /\ Len(ToLE(y, n)) = n
         /\ \A i \in 1 .. n : ToLE(y, n)[i] = (y \div Weight[i - 1]) % ByteBase
<1>1. ToLE(y, n) = [i \in 1 .. n |-> (y \div Weight[i - 1]) % ByteBase]
  BY DEF ToLE
<1>2. \A i \in 1 .. n : (y \div Weight[i - 1]) % ByteBase \in Bytes
  <2> TAKE i \in 1 .. n
  <2>1. Weight[i - 1] \in Nat \ {0}
    BY WeightDef
  <2>2. y \div Weight[i - 1] \in Int
    BY <2>1, SMT
  <2> QED BY <2>2, ByteFacts, SMT DEF Bytes
<1>3. ToLE(y, n) \in [1 .. n -> Bytes]
  BY <1>1, <1>2
<1> QED BY <1>1, <1>3

\* from_le_bytes undoes to_le_bytes, up to what n bytes can hold.
LEMMA UnsignedRoundTrip ==
  ASSUME NEW y \in Nat, NEW n \in 0 .. 8
  PROVE  FromLE(ToLE(y, n)) = y % Weight[n]
<1> DEFINE b == ToLE(y, n)
<1>1. b \in [1 .. n -> Nat] /\ \A i \in 1 .. n : b[i] = (y \div Weight[i - 1]) % ByteBase
  <2>1. b \in [1 .. n -> Bytes] /\ \A i \in 1 .. n : b[i] = (y \div Weight[i - 1]) % ByteBase
    BY ToLEBytes, Zenon
  <2>2. Bytes \subseteq Nat
    BY ByteFacts DEF Bytes
  <2> HIDE DEF b
  <2> QED BY <2>1, <2>2
<1> HIDE DEF b
<1>2. PICK s : FromLEPrefixes(b, n, s) /\ FromLE(b) = s[n]
  BY <1>1, FromLESums
<1>3. /\ s \in [0 .. n -> Nat] /\ s[0] = 0
      /\ \A i \in 1 .. n : s[i] = s[i - 1] + b[i] * Weight[i - 1]
  BY <1>2 DEF FromLEPrefixes
<1> DEFINE T == {i \in 0 .. n : s[i] = y % Weight[i]}
<1>4. 0 \in T
  <2>1. y % 1 = 0 /\ 0 \in 0 .. n
    BY SMT
  <2>2. Weight[0] = 1
    BY WeightDef
  <2> QED BY <1>3, <2>1, <2>2
<1>5. ASSUME NEW m \in T, m < n PROVE m + 1 \in T
  <2>1. m + 1 \in 1 .. n /\ m + 1 \in 1 .. 8 /\ (m + 1) - 1 = m /\ m \in 0 .. 8
    BY <1>5
  <2>2. Weight[m + 1] = ByteBase * Weight[m] /\ Weight[m] \in Nat \ {0}
    BY <2>1, WeightDef
  <2>3. s[m + 1] = (y % Weight[m]) + ((y \div Weight[m]) % ByteBase) * Weight[m]
    BY <1>1, <1>3, <2>1
  <2>4. ByteBase \in Nat \ {0}
    BY ByteFacts
  <2>5. y % (ByteBase * Weight[m]) = (y % Weight[m]) + ((y \div Weight[m]) % ByteBase) * Weight[m]
    <3> DEFINE w == Weight[m]
    <3>1. w \in Nat \ {0}
      BY <2>2
    <3> HIDE DEF w
    <3>2. y % (ByteBase * w) = (y % w) + ((y \div w) % ByteBase) * w
      <4>1. y \in Int
        OBVIOUS
      <4> QED BY <2>4, <3>1, <4>1, DivisionTwice, Zenon
    <3> QED BY <3>2 DEF w
  <2> QED BY <2>1, <2>2, <2>3, <2>5
<1>6. T = 0 .. n
  <2> HIDE DEF T
  <2>1. T \in SUBSET (0 .. n)
    BY DEF T
  <2> QED BY <1>4, <1>5, <2>1, Induction
<1>7. n \in T
  BY <1>6
<1> QED BY <1>2, <1>7 DEF b

\* A byte is a number.
LEMMA ByteNat == Bytes \subseteq Nat
BY ByteFacts DEF Bytes

\* Bytes are a sequence of numbers.
LEMMA ByteSeq == ASSUME NEW x \in Seq(Bytes) PROVE x \in Seq(Nat)
<1>1. x \in [1 .. Len(x) -> Bytes] /\ Len(x) \in Nat
  OBVIOUS
<1>2. x \in [1 .. Len(x) -> Nat]
  BY <1>1, ByteNat
<1> QED BY <1>1, <1>2

\* A number below w is its own remainder.
LEMMA Fits ==
  ASSUME NEW y \in Nat, NEW w \in Nat \ {0}, y < w
  PROVE  y % w = y
<1>1. y \in Int /\ 0 \in Int /\ y = 0 * w + y
  BY SMT
<1> QED BY <1>1, DivisionUnique, SMT

\* From here on the top byte of a negative number.
Half == ByteBase \div 2

\* The top byte of the lower half of an integer's range.
LEMMA TopByte ==
  ASSUME NEW y \in Nat, NEW w \in Nat \ {0}, y < Half * w
  PROVE  (y \div w) % ByteBase < Half /\ y < ByteBase * w
<1> DEFINE q == y \div w
<1>1. q \in Int /\ 0 <= q /\ q * w <= y
  BY SMT
<1> HIDE DEF q
<1>2. Half \in Nat /\ ByteBase = 2 * Half /\ ByteBase \in Nat \ {0}
  BY ByteFacts DEF Half
<1>3. q < Half
  <2> SUFFICES ASSUME q >= Half PROVE FALSE
    BY <1>1, <1>2
  <2>1. (q - Half) * w >= 0
    BY <1>1, <1>2, SMT
  <2>2. (q - Half) * w = q * w - Half * w
    BY <1>1, <1>2, SMT
  <2>3. q * w \in Int /\ Half * w \in Int
    BY <1>1, <1>2, SMT
  <2> QED BY <1>1, <2>1, <2>2, <2>3, SMT
<1>4. q % ByteBase = q
  BY <1>1, <1>2, <1>3, Fits
<1>5. y < ByteBase * w
  <2>1. ByteBase * w = Half * w + Half * w /\ Half * w \in Nat
    BY <1>2, SMT
  <2> QED BY <2>1, SMT
<1> QED BY <1>3, <1>4, <1>5 DEF q

\* The complement of bytes is bytes, and undoes itself.
LEMMA ComplementBytes ==
  ASSUME NEW n \in 1 .. 8, NEW b \in [1 .. n -> Bytes]
  PROVE  /\ Complement(b) \in [1 .. n -> Bytes] /\ Complement(Complement(b)) = b
         /\ Complement(b)[n] = ByteBase - 1 - b[n]
<1>1. Complement(b) = [i \in 1 .. n |-> ByteBase - 1 - b[i]]
  BY DEF Complement
<1>2. \A i \in 1 .. n : b[i] \in Bytes
  OBVIOUS
<1>3. \A i \in 1 .. n : ByteBase - 1 - b[i] \in Bytes /\ ByteBase - 1 - (ByteBase - 1 - b[i]) = b[i]
  BY <1>2, ByteFacts DEF Bytes
<1>4. Complement(b) \in [1 .. n -> Bytes]
  BY <1>1, <1>3
<1>5. Complement(Complement(b)) = [i \in 1 .. n |-> ByteBase - 1 - Complement(b)[i]]
  BY <1>4 DEF Complement
<1>6. Complement(Complement(b)) = [i \in 1 .. n |-> b[i]]
  BY <1>1, <1>3, <1>5
<1> QED BY <1>1, <1>4, <1>6

\* A signed integer reads back from its two's complement.
LEMMA SignedRoundTrip ==
  ASSUME NEW n \in 1 .. 8, NEW v \in Int,
         0 - Half * Weight[n - 1] <= v, v < Half * Weight[n - 1]
  PROVE  /\ ToLE(v, n) \in [1 .. n -> Bytes] /\ FromLESigned(ToLE(v, n)) = v
<1> DEFINE w == Weight[n - 1]
           U(x) == [i \in 1 .. n |-> (x \div Weight[i - 1]) % ByteBase]
<1>1. w \in Nat \ {0} /\ n - 1 \in 0 .. 8 /\ n \in 0 .. 8
  BY WeightDef
<1>2. Weight[n] = ByteBase * w /\ Weight[n] \in Nat \ {0}
  BY WeightDef
<1>3. ASSUME NEW y \in Nat, y < Half * w
      PROVE  /\ ToLE(y, n) \in [1 .. n -> Bytes] /\ ToLE(y, n)[n] < Half /\ FromLE(ToLE(y, n)) = y
             /\ ToLE(y, n) = U(y)
  <2>1. ToLE(y, n) \in [1 .. n -> Bytes] /\ ToLE(y, n)[n] = (y \div w) % ByteBase
    <3>1. ToLE(y, n) \in [1 .. n -> Bytes] /\ \A i \in 1 .. n : ToLE(y, n)[i] = (y \div Weight[i - 1]) % ByteBase
      BY <1>1, ToLEBytes, Zenon
    <3>2. n \in 1 .. n
      OBVIOUS
    <3> QED BY <3>1, <3>2, Zenon
  <2> HIDE DEF w
  <2>2. (y \div w) % ByteBase < Half /\ y < Weight[n]
    BY <1>1, <1>2, <1>3, TopByte
  <2>3. FromLE(ToLE(y, n)) = y % Weight[n]
    BY <1>1, UnsignedRoundTrip
  <2>4. y % Weight[n] = y
    BY <1>2, <2>2, Fits
  <2>5. ToLE(y, n) = U(y)
    BY DEF ToLE
  <2> QED BY <2>1, <2>2, <2>3, <2>4, <2>5
<1>4. Half \in Nat /\ ByteBase = 2 * Half /\ ByteBase \in Nat
  BY ByteFacts DEF Half
<1>5. \A b : b \in [1 .. n -> Bytes] => Len(b) = n
  OBVIOUS
<1> HIDE DEF U
<1>6. CASE v >= 0
  <2>1. v \in Nat
    BY <1>6
  <2>2. ToLE(v, n) \in [1 .. n -> Bytes] /\ ToLE(v, n)[n] < Half /\ FromLE(ToLE(v, n)) = v
    BY <1>3, <2>1
  <2>3. Len(ToLE(v, n)) = n
    BY <1>5, <2>2
  <2> QED BY <2>2, <2>3 DEF FromLESigned, Half
<1>7. CASE v < 0
  <2> DEFINE y == 0 - v - 1
             b == Complement(ToLE(y, n))
  <2>1. y \in Nat /\ y < Half * w /\ 0 - y - 1 = v /\ ~(v >= 0)
    <3>1. Half * w \in Int
      BY <1>1, <1>4, SMT
    <3> HIDE DEF w
    <3>2. 0 - Half * w <= v
      BY DEF w
    <3> QED BY <1>7, <3>1, <3>2, SMT
  <2>2. ToLE(v, n) = Complement(U(y))
    BY <2>1, Zenon DEF ToLE, U
  <2> HIDE DEF y
  <2>3. /\ ToLE(y, n) \in [1 .. n -> Bytes] /\ ToLE(y, n)[n] < Half /\ FromLE(ToLE(y, n)) = y
        /\ ToLE(y, n) = U(y)
    BY <1>3, <2>1
  <2>4. ToLE(v, n) = b
    BY <2>2, <2>3
  <2>5. b \in [1 .. n -> Bytes] /\ Complement(b) = ToLE(y, n) /\ b[n] = ByteBase - 1 - ToLE(y, n)[n]
    BY <2>3, ComplementBytes
  <2> HIDE DEF b
  <2>6. ~(b[n] < Half)
    <3>1. ToLE(y, n)[n] \in Int
      <4>1. n \in 1 .. n
        OBVIOUS
      <4>2. ToLE(y, n)[n] \in Bytes
        BY <2>3, <4>1
      <4>3. \A z \in Bytes : z \in Int
        BY ByteFacts DEF Bytes
      <4> QED BY <4>2, <4>3, Zenon
    <3> QED BY <1>4, <2>3, <2>5, <3>1
  <2>7. FromLESigned(b) = 0 - y - 1
    BY <1>5, <2>3, <2>5, <2>6 DEF FromLESigned, Half
  <2> QED BY <2>1, <2>4, <2>5, <2>7
<1> QED BY <1>6, <1>7

-----------------------------------------------------------------------------
(* What stands where in a record.                                           *)

\* The sequence x stands in r after its first `at` elements.
Holds(r, at, x) ==
  at + Len(x) <= Len(r) /\ \A i \in 1 .. Len(x) : r[at + i] = x[i]

\* A sequence stands in itself.
LEMMA HoldsSelf ==
  ASSUME NEW r \in Seq(Nat)
  PROVE  Holds(r, 0, r)
BY DEF Holds

\* Two sequences in a row stand where they stand.
LEMMA HoldsConcat ==
  ASSUME NEW r \in Seq(Nat), NEW at \in Nat, NEW x \in Seq(Nat), NEW y \in Seq(Nat), Holds(r, at, x \o y)
  PROVE  Holds(r, at, x) /\ Holds(r, at + Len(x), y)
<1> DEFINE z == x \o y
<1>1. /\ z \in Seq(Nat) /\ Len(z) = Len(x) + Len(y)
      /\ \A i \in 1 .. Len(z) : z[i] = IF i <= Len(x) THEN x[i] ELSE y[i - Len(x)]
  BY ConcatProperties
<1>2. at + Len(z) <= Len(r) /\ \A i \in 1 .. Len(z) : r[at + i] = z[i]
  BY DEF Holds
<1> HIDE DEF z
<1>0. Len(x) \in Nat /\ Len(y) \in Nat /\ Len(r) \in Nat
  OBVIOUS
<1>3. at + Len(x) <= Len(r) /\ (at + Len(x)) + Len(y) <= Len(r)
  BY <1>0, <1>1, <1>2
<1>4. \A i \in 1 .. Len(x) : r[at + i] = x[i]
  <2> TAKE i \in 1 .. Len(x)
  <2>1. i \in 1 .. Len(z) /\ i <= Len(x)
    BY <1>0, <1>1
  <2> QED BY <1>1, <1>2, <2>1
<1>5. \A i \in 1 .. Len(y) : r[(at + Len(x)) + i] = y[i]
  <2> TAKE i \in 1 .. Len(y)
  <2>1. Len(x) + i \in 1 .. Len(z) /\ ~(Len(x) + i <= Len(x)) /\ (Len(x) + i) - Len(x) = i
        /\ (at + Len(x)) + i = at + (Len(x) + i)
    BY <1>0, <1>1
  <2>2. z[Len(x) + i] = y[i] /\ r[at + (Len(x) + i)] = z[Len(x) + i]
    BY <1>1, <1>2, <2>1
  <2> QED BY <2>1, <2>2
<1> QED BY <1>3, <1>4, <1>5 DEF Holds

\* What stands in x stands in whatever x stands in.
LEMMA HoldsWithin ==
  ASSUME NEW r \in Seq(Nat), NEW at \in Nat, NEW x \in Seq(Nat), NEW k \in Nat, NEW y \in Seq(Nat),
         Holds(r, at, x), Holds(x, k, y)
  PROVE  Holds(r, at + k, y)
<1>0. Len(x) \in Nat /\ Len(y) \in Nat /\ Len(r) \in Nat
  OBVIOUS
<1>1. at + Len(x) <= Len(r) /\ \A i \in 1 .. Len(x) : r[at + i] = x[i]
  BY DEF Holds
<1>2. k + Len(y) <= Len(x) /\ \A i \in 1 .. Len(y) : x[k + i] = y[i]
  BY DEF Holds
<1>3. \A i \in 1 .. Len(y) : r[(at + k) + i] = y[i]
  <2> TAKE i \in 1 .. Len(y)
  <2>1. k + i \in 1 .. Len(x) /\ (at + k) + i = at + (k + i)
    BY <1>0, <1>2
  <2> QED BY <1>1, <1>2, <2>1
<1>4. (at + k) + Len(y) <= Len(r)
  BY <1>0, <1>1, <1>2
<1> QED BY <1>3, <1>4 DEF Holds

\* SubSeq takes it out again.
LEMMA HoldsSub ==
  ASSUME NEW r \in Seq(Nat), NEW at \in Nat, NEW x \in Seq(Nat), Holds(r, at, x)
  PROVE  SubSeq(r, at + 1, at + Len(x)) = x
<1> DEFINE s == SubSeq(r, at + 1, at + Len(x))
<1>0. Len(x) \in Nat /\ Len(r) \in Nat
  OBVIOUS
<1>1. at + Len(x) <= Len(r) /\ \A i \in 1 .. Len(x) : r[at + i] = x[i]
  BY DEF Holds
<1>2. /\ s \in Seq(Nat) /\ Len(s) = Len(x)
      /\ \A i \in 1 .. Len(x) : s[i] = r[at + i]
  <2> DEFINE a == at + 1
             b == at + Len(x)
  <2>1. a \in Int /\ b \in Int /\ 1 <= a /\ b <= Len(r) /\ b - a + 1 = Len(x)
        /\ (IF a <= b THEN b - a + 1 ELSE 0) = Len(x)
    BY <1>0, <1>1
  <2>2. \A i \in 1 .. Len(x) : a + i - 1 = at + i
    BY <1>0
  <2>3. \A i \in a .. b : r[i] \in Nat
    BY <1>0, <2>1
  <2> HIDE DEF a, b
  <2>4. /\ SubSeq(r, a, b) \in Seq(Nat) /\ Len(SubSeq(r, a, b)) = IF a <= b THEN b - a + 1 ELSE 0
        /\ \A i \in 1 .. b - a + 1 : SubSeq(r, a, b)[i] = r[a + i - 1]
    BY <2>1, <2>3, SubSeqProperties
  <2>5. s = SubSeq(r, a, b)
    BY DEF a, b
  <2> QED BY <2>1, <2>2, <2>4, <2>5
<1> HIDE DEF s
<1>3. s = x
  BY <1>0, <1>1, <1>2, SeqEqual
<1> QED BY <1>3 DEF s

\* The smaller of two numbers.
LEMMA MinOf ==
  ASSUME NEW a \in Int, NEW b \in Int, a <= b
  PROVE  Min({a, b}) = a
<1> DEFINE D(x) == x \in {a, b} /\ \A y \in {a, b} : x <= y
<1>1. D(a) /\ \A x : D(x) => x = a
  BY SMT
<1>2. Min({a, b}) = CHOOSE x \in {a, b} : \A y \in {a, b} : x <= y
  BY DEF Min
<1> QED BY <1>1, <1>2, Zenon

\* The cursor reads the number that stands there, and goes past it.
LEMMA ReadHeld ==
  ASSUME NEW r \in Seq(Nat), NEW at \in Nat, NEW n \in 0 .. 8, NEW y \in Nat, Holds(r, at, ToLE(y, n))
  PROVE  ReadNum(r, at, n) = y % Weight[n] /\ AfterNum(r, at, n) = at + n
<1> DEFINE x == ToLE(y, n)
<1>1. x \in Seq(Bytes) /\ Len(x) = n /\ FromLE(x) = y % Weight[n]
  BY ToLEBytes, UnsignedRoundTrip
<1>2. x \in Seq(Nat)
  BY <1>1, ByteSeq
<1> HIDE DEF x
<1>3. SubSeq(r, at + 1, at + n) = x /\ at + n <= Len(r)
  <2>1. Holds(r, at, x)
    BY DEF x
  <2> QED BY <1>1, <1>2, <2>1, HoldsSub DEF Holds
<1>4. ~(at + n > Len(r))
  BY <1>3
<1>5. ReadNum(r, at, n) = FromLE(SubSeq(r, at + 1, at + n)) /\ AfterNum(r, at, n) = at + n
  <2>1. ReadNum(r, at, n) = FromLE(SubSeq(r, at + 1, at + n))
    BY <1>4, Zenon DEF ReadNum
  <2>2. AfterNum(r, at, n) = at + n
    BY <1>4, Zenon DEF AfterNum
  <2> QED BY <2>1, <2>2
<1> QED BY <1>1, <1>3, <1>5, Zenon

\* And the bytes that stand there.
LEMMA BytesHeld ==
  ASSUME NEW r \in Seq(Nat), NEW at \in Nat, NEW x \in Seq(Nat), Holds(r, at, x)
  PROVE  ReadBytes(r, at, Len(x)) = x /\ AfterBytes(r, at, Len(x)) = at + Len(x)
<1>1. at + Len(x) <= Len(r) /\ at + Len(x) \in Int /\ Len(r) \in Int
  BY DEF Holds
<1>2. AfterBytes(r, at, Len(x)) = at + Len(x)
  BY <1>1, MinOf DEF AfterBytes
<1> QED BY <1>2, HoldsSub DEF ReadBytes

-----------------------------------------------------------------------------
(* Arguments.                                                               *)

\* The tags, as numbers.
LEMMA TagValues ==
  /\ TAG.U64 = 0 /\ TAG.I64 = 1 /\ TAG.F64 = 2 /\ TAG.U32 = 3 /\ TAG.I32 = 4 /\ TAG.F32 = 5
  /\ TAG.U16 = 6 /\ TAG.I16 = 7 /\ TAG.U8 = 8 /\ TAG.I8 = 9 /\ TAG.BOOL = 10 /\ TAG.STR = 11
  /\ SignedTags = {1, 4, 7, 9}
BY DEF TAG, SignedTags

\* The drain's table of payload sizes agrees with the sizes the encoders name.
LEMMA SizesAgree ==
  ASSUME NEW t \in 0 .. 10
  PROVE  /\ FIXED_SIZES[t + 1] = PrimitiveSize(t) /\ PrimitiveSize(t) \in 1 .. 8
<1>1. PrimitiveSize(t) = IF t \in {0, 1, 2} THEN 8 ELSE IF t \in {3, 4, 5} THEN 4 ELSE IF t \in {6, 7} THEN 2 ELSE 1
  BY TagValues DEF PrimitiveSize
<1> QED BY <1>1 DEF FIXED_SIZES

\* A u16 is two bytes.
LEMMA U16Facts == Weight[1] = ByteBase /\ Weight[2] = ByteBase * ByteBase /\ U16Max + 1 = Weight[2] /\ U16Max \in Nat
<1>1. Weight[1] = ByteBase * Weight[0] /\ Weight[0] = 1 /\ Weight[2] = ByteBase * Weight[1]
  <2>1. 1 \in 1 .. 8 /\ 2 \in 1 .. 8 /\ 1 - 1 = 0 /\ 2 - 1 = 1
    OBVIOUS
  <2> QED BY <2>1, WeightDef
<1>2. ByteBase * 1 = ByteBase /\ ByteBase * ByteBase \in Nat /\ ByteBase * ByteBase > 0
  BY ByteFacts, SMT
<1> QED BY <1>1, <1>2 DEF U16Max

\* An argument of one of the types, in its range.
ArgOK(a) ==
  /\ a = [tag |-> a.tag, v |-> a.v]
  /\ \/ a.tag = 11 /\ a.v \in Seq(Bytes)
     \/ a.tag = 10 /\ a.v \in BOOLEAN
     \/ a.tag \in {0, 2, 3, 5, 6, 8} /\ a.v \in Nat /\ a.v < Weight[PrimitiveSize(a.tag)]
     \/ /\ a.tag \in {1, 4, 7, 9} /\ a.v \in Int
        /\ 0 - Half * Weight[PrimitiveSize(a.tag) - 1] <= a.v /\ a.v < Half * Weight[PrimitiveSize(a.tag) - 1]

\* The bytes of a string: its length and its text.
LEMMA EncodeStr ==
  ASSUME NEW v \in Seq(Bytes)
  PROVE  LET a == [tag |-> 11, v |-> v]
         IN /\ encode(a) = ToLE(Len(v) % (U16Max + 1), 2) \o v /\ encode(a) \in Seq(Bytes)
            /\ Len(encode(a)) = 2 + Len(v) /\ encoded_size(a) = 2 + Len(v)
<1> DEFINE a == [tag |-> 11, v |-> v]
           m == Len(v) % (U16Max + 1)
<1>1. a.tag = 11 /\ a.v = v
  OBVIOUS
<1>2. m \in Nat
  BY U16Facts, WeightDef, SMT
<1> HIDE DEF m
<1>3. ToLE(m, 2) \in Seq(Bytes) /\ Len(ToLE(m, 2)) = 2
  <2>1. 2 \in 0 .. 8
    OBVIOUS
  <2> QED BY <1>2, <2>1, ToLEBytes, Zenon
<1>4. encode(a) = ToLE(m, 2) \o v
  BY <1>1, TagValues DEF encode, m, STR_LEN_PREFIX
<1>5. encoded_size(a) = 2 + Len(v)
  BY <1>1, TagValues DEF encoded_size, STR_LEN_PREFIX
<1>6. ToLE(m, 2) \o v \in Seq(Bytes) /\ Len(ToLE(m, 2) \o v) = 2 + Len(v)
  <2> DEFINE x == ToLE(m, 2)
  <2> HIDE DEF x
  <2>1. x \in Seq(Bytes) /\ Len(x) = 2
    BY <1>3 DEF x
  <2>2. x \o v \in Seq(Bytes) /\ Len(x \o v) = 2 + Len(v)
    <3>1. x \o v \in Seq(Bytes) /\ Len(x \o v) = Len(x) + Len(v)
      BY <2>1, ConcatProperties, Zenon
    <3> QED BY <2>1, <3>1
  <2> QED BY <2>2 DEF x
<1> QED BY <1>4, <1>5, <1>6 DEF m

\* The bytes of a number.
LEMMA EncodeOther ==
  ASSUME NEW t \in 0 .. 9, NEW v, ToLE(v, PrimitiveSize(t)) \in [1 .. PrimitiveSize(t) -> Bytes]
  PROVE  LET a == [tag |-> t, v |-> v]
         IN /\ encode(a) = ToLE(v, PrimitiveSize(t)) /\ encode(a) \in Seq(Bytes)
            /\ Len(encode(a)) = PrimitiveSize(t) /\ encoded_size(a) = PrimitiveSize(t)
<1> DEFINE a == [tag |-> t, v |-> v]
           n == PrimitiveSize(t)
<1>1. a.tag = t /\ a.v = v /\ t # 10 /\ t # 11 /\ n \in Nat
  BY SizesAgree
<1> HIDE DEF a, n
<1>2. encode(a) = ToLE(v, n) /\ encoded_size(a) = n
  BY <1>1, TagValues DEF encode, encoded_size, n
<1>3. ToLE(v, n) \in [1 .. n -> Bytes]
  BY DEF n
<1>4. ToLE(v, n) \in Seq(Bytes) /\ Len(ToLE(v, n)) = n
  <2> DEFINE x == ToLE(v, n)
  <2> HIDE DEF x
  <2>1. x \in [1 .. n -> Bytes]
    BY <1>3 DEF x
  <2>2. x \in Seq(Bytes) /\ Len(x) = n
    BY <1>1, <2>1
  <2> QED BY <2>2 DEF x
<1> QED BY <1>2, <1>4 DEF a, n

\* The byte of a Boolean.
LEMMA EncodeBool ==
  ASSUME NEW v \in BOOLEAN
  PROVE  LET a == [tag |-> 10, v |-> v]
         IN /\ encode(a) = <<IF v THEN 1 ELSE 0>> /\ encode(a) \in Seq(Bytes)
            /\ Len(encode(a)) = 1 /\ encoded_size(a) = 1
<1> DEFINE a == [tag |-> 10, v |-> v]
<1>1. a.tag = 10 /\ a.v = v
  OBVIOUS
<1>2. encode(a) = <<IF v THEN 1 ELSE 0>>
  BY <1>1, TagValues DEF encode
<1>3. encoded_size(a) = 1
  BY <1>1, TagValues DEF encoded_size, PrimitiveSize
<1>4. (IF v THEN 1 ELSE 0) \in Bytes
  BY ByteFacts DEF Bytes
<1> DEFINE e == IF v THEN 1 ELSE 0
<1> HIDE DEF e
<1>5. e \in Bytes
  BY <1>4 DEF e
<1>6. <<e>> \in Seq(Bytes) /\ Len(<<e>>) = 1
  BY <1>5
<1> QED BY <1>2, <1>3, <1>6, Zenon DEF e

\* Every number of a type has its bytes, also a negative one.
LEMMA NumberBytes ==
  ASSUME NEW a, ArgOK(a), a.tag \in 0 .. 9
  PROVE  ToLE(a.v, PrimitiveSize(a.tag)) \in [1 .. PrimitiveSize(a.tag) -> Bytes]
<1>1. PrimitiveSize(a.tag) \in 1 .. 8 /\ PrimitiveSize(a.tag) \in 0 .. 8
  BY SizesAgree
<1>2. CASE a.v \in Nat
  BY <1>1, <1>2, ToLEBytes
<1>3. CASE /\ a.tag \in {1, 4, 7, 9} /\ a.v \in Int
           /\ 0 - Half * Weight[PrimitiveSize(a.tag) - 1] <= a.v /\ a.v < Half * Weight[PrimitiveSize(a.tag) - 1]
  BY <1>1, <1>3, SignedRoundTrip
<1> QED BY <1>2, <1>3 DEF ArgOK

\* encode writes as many bytes as encoded_size promises.
LEMMA EncodeFacts ==
  ASSUME NEW a, ArgOK(a)
  PROVE  /\ encode(a) \in Seq(Bytes) /\ Len(encode(a)) = encoded_size(a) /\ a.tag \in 0 .. 11
         /\ encoded_size(a) \in Nat
         /\ a.tag = 11 => encoded_size(a) = 2 + Len(a.v) /\ a.v \in Seq(Bytes)
<1>1. CASE a.tag = 11
  <2>1. a = [tag |-> 11, v |-> a.v] /\ a.v \in Seq(Bytes)
    BY <1>1 DEF ArgOK
  <2>2. Len(a.v) \in Nat
    BY <2>1
  <2> QED BY <1>1, <2>1, <2>2, EncodeStr
<1>2. CASE a.tag = 10
  <2>1. a = [tag |-> 10, v |-> a.v] /\ a.v \in BOOLEAN
    BY <1>2 DEF ArgOK
  <2>2. encode(a) \in Seq(Bytes) /\ Len(encode(a)) = 1 /\ encoded_size(a) = 1
    BY <2>1, EncodeBool, Zenon
  <2> QED BY <1>2, <2>2
<1>3. CASE a.tag \in 0 .. 9
  <2>1. a = [tag |-> a.tag, v |-> a.v]
    BY DEF ArgOK
  <2>2. PrimitiveSize(a.tag) \in 1 .. 8
    BY <1>3, SizesAgree
  <2>3. ToLE(a.v, PrimitiveSize(a.tag)) \in [1 .. PrimitiveSize(a.tag) -> Bytes]
    BY <1>3, NumberBytes
  <2> QED BY <1>3, <2>1, <2>2, <2>3, EncodeOther
<1> QED BY <1>1, <1>2, <1>3 DEF ArgOK

\* A tag is a byte.
LEMMA TagByte ==
  ASSUME NEW a, ArgOK(a)
  PROVE  a.tag \in Bytes
<1> DEFINE t == a.tag
<1>1. t \in 0 .. 11
  BY EncodeFacts
<1> HIDE DEF t
<1>2. t \in Bytes
  BY <1>1, ByteFacts DEF Bytes
<1> QED BY <1>2 DEF t

\* What format_arg has when it has read the argument a up to the position at.
Decoded(a, at) == [known |-> TRUE, panic |-> FALSE, arg |-> a, at |-> at]

\* The drain decodes an argument whose encoding stands at the cursor, and stops
\* right after it.
LEMMA DecodeHeld ==
  ASSUME NEW a, ArgOK(a), a.tag = 11 => Len(a.v) <= U16Max,
         NEW r \in Seq(Nat), NEW at \in Nat, Holds(r, at, encode(a))
  PROVE  DecodeArg(a.tag, r, at) = Decoded(a, at + Len(encode(a)))
<1>0. a = [tag |-> a.tag, v |-> a.v]
  BY DEF ArgOK
<1>1. CASE a.tag = 11
  <2> DEFINE v == a.v
             n == Len(v)
  <2>1. a = [tag |-> 11, v |-> v] /\ v \in Seq(Bytes) /\ v \in Seq(Nat) /\ n \in Nat
    BY <1>0, <1>1, ByteSeq DEF ArgOK
  <2>2. n % (U16Max + 1) = n /\ Weight[2] = U16Max + 1 /\ U16Max + 1 \in Nat \ {0}
    <3>1. U16Max + 1 \in Nat \ {0} /\ n < U16Max + 1 /\ Weight[2] = U16Max + 1
      BY <1>1, <2>1, U16Facts
    <3> HIDE DEF n
    <3> QED BY <2>1, <3>1, Fits
  <2>3. encode(a) = ToLE(n, 2) \o v /\ Len(encode(a)) = 2 + n
    BY <2>1, <2>2, EncodeStr
  <2>4. ToLE(n, 2) \in Seq(Nat) /\ Len(ToLE(n, 2)) = 2
    <3>1. 2 \in 0 .. 8
      OBVIOUS
    <3> QED BY <2>1, <3>1, ToLEBytes, ByteSeq, Zenon
  <2> HIDE DEF n
  <2>5. Holds(r, at, ToLE(n, 2)) /\ Holds(r, at + 2, v)
    <3> DEFINE x == ToLE(n, 2)
    <3> HIDE DEF v, x
    <3>1. Holds(r, at, x \o v) /\ x \in Seq(Nat) /\ v \in Seq(Nat) /\ Len(x) = 2
      BY <2>1, <2>3, <2>4 DEF x
    <3>2. Holds(r, at, x) /\ Holds(r, at + 2, v)
      BY <3>1, HoldsConcat
    <3> QED BY <3>2 DEF x
  <2>6. ReadNum(r, at, 2) = n /\ AfterNum(r, at, 2) = at + 2
    BY <2>1, <2>2, <2>5, ReadHeld
  <2>7. ReadBytes(r, at + 2, n) = v /\ AfterBytes(r, at + 2, n) = (at + 2) + n
    <3> HIDE DEF v
    <3>1. n = Len(v)
      BY DEF n, v
    <3> QED BY <2>1, <2>5, <3>1, BytesHeld
  <2>8. DecodeArg(11, r, at) = Decoded([tag |-> 11, v |-> ReadBytes(r, AfterNum(r, at, 2), ReadNum(r, at, 2))],
                                       AfterBytes(r, AfterNum(r, at, 2), ReadNum(r, at, 2)))
    BY TagValues DEF DecodeArg, Decoded, STR_LEN_PREFIX
  <2>9. (at + 2) + n = at + (2 + n)
    BY <2>1
  <2> HIDE DEF v
  <2> QED BY <1>1, <2>1, <2>3, <2>6, <2>7, <2>8, <2>9
<1>2. CASE a.tag # 11
  <2> DEFINE t == a.tag
             n == PrimitiveSize(t)
             x == encode(a)
             V == CASE t = 10 -> x[1] # 0 [] t \in {1, 4, 7, 9} -> FromLESigned(x) [] OTHER -> FromLE(x)
  <2>1. t \in 0 .. 10
    BY <1>2, EncodeFacts
  <2>2. FIXED_SIZES[t + 1] = n /\ n \in 1 .. 8
    BY <2>1, SizesAgree
  <2>3. x \in Seq(Nat) /\ Len(x) = n
    <3>1. encode(a) \in Seq(Bytes) /\ Len(encode(a)) = encoded_size(a)
      BY EncodeFacts
    <3>2. encoded_size(a) = n
      BY <1>2, TagValues DEF encoded_size
    <3> QED BY <3>1, <3>2, ByteSeq
  <2> HIDE DEF t, n, x
  <2>4. ReadBytes(r, at, n) = x
    <3>1. Holds(r, at, x)
      BY DEF x
    <3> QED BY <2>3, <3>1, BytesHeld
  <2>5. DecodeArg(t, r, at) = Decoded([tag |-> t, v |-> V], at + n)
    <3>1. ~(t >= TAG_COUNT) /\ t # 11
      BY <2>1 DEF TAG_COUNT
    <3>2. Len(ReadBytes(r, at, FIXED_SIZES[t + 1])) = PrimitiveSize(t)
      BY <2>2, <2>3, <2>4 DEF n
    <3> QED BY <2>2, <2>4, <3>1, <3>2, TagValues, Zenon DEF DecodeArg, Decoded
  <2>6. V = a.v
    <3>1. CASE t = 10
      <4>1. a = [tag |-> 10, v |-> a.v] /\ a.v \in BOOLEAN
        BY <1>0, <3>1 DEF ArgOK, t
      <4>2. x = <<IF a.v THEN 1 ELSE 0>>
        BY <4>1, EncodeBool DEF x
      <4>3. CASE a.v = TRUE
        <5>1. x[1] = 1
          BY <4>2, <4>3
        <5>2. (x[1] # 0) = TRUE
          BY <5>1
        <5>3. t \notin {1, 4, 7, 9}
          BY <3>1
        <5>4. V = (x[1] # 0)
          BY <3>1, <5>3, Zenon
        <5> QED BY <4>3, <5>2, <5>4, Zenon
      <4>4. CASE a.v = FALSE
        <5>1. x[1] = 0
          BY <4>2, <4>4
        <5>2. (x[1] # 0) = FALSE
          BY <5>1
        <5>3. t \notin {1, 4, 7, 9}
          BY <3>1
        <5>4. V = (x[1] # 0)
          BY <3>1, <5>3, Zenon
        <5> QED BY <4>4, <5>2, <5>4, Zenon
      <4> QED BY <4>1, <4>3, <4>4
    <3>2. CASE t \in 0 .. 9
      <4>1. x = ToLE(a.v, n)
        <5>1. ToLE(a.v, PrimitiveSize(a.tag)) \in [1 .. PrimitiveSize(a.tag) -> Bytes] /\ a.tag \in 0 .. 9
          BY <3>2, NumberBytes DEF t
        <5>2. encode([tag |-> a.tag, v |-> a.v]) = ToLE(a.v, PrimitiveSize(a.tag))
          BY <5>1, EncodeOther
        <5> QED BY <1>0, <5>2 DEF x, n, t
      <4>2. CASE t \in {1, 4, 7, 9}
        <5>1. a.v \in Int /\ 0 - Half * Weight[n - 1] <= a.v /\ a.v < Half * Weight[n - 1]
          BY <4>2 DEF ArgOK, t, n
        <5>2. FromLESigned(x) = a.v
          BY <2>2, <4>1, <5>1, SignedRoundTrip
        <5>3. t # 10
          BY <3>2
        <5> QED BY <4>2, <5>2, <5>3
      <4>3. CASE t \notin {1, 4, 7, 9}
        <5>1. a.v \in Nat /\ a.v < Weight[n] /\ n \in 0 .. 8
          BY <2>2, <3>2, <4>3 DEF ArgOK, t, n
        <5>2. FromLE(x) = a.v % Weight[n]
          BY <4>1, <5>1, UnsignedRoundTrip
        <5>3. a.v % Weight[n] = a.v
          BY <5>1, WeightDef, Fits
        <5>4. t # 10
          BY <3>2
        <5> QED BY <4>3, <5>2, <5>3, <5>4
      <4> QED BY <4>2, <4>3
    <3> QED BY <2>1, <3>1, <3>2
  <2> HIDE DEF V
  <2> QED BY <1>0, <2>3, <2>5, <2>6 DEF t, x
<1> QED BY <1>1, <1>2

\* p cuts the payloads of args into prefixes.
PayloadPrefixes(args, n, p) ==
  /\ p \in [0 .. n -> Seq(Bytes)] /\ p[0] = <<>>
  /\ \A i \in 1 .. n : p[i] = p[i - 1] \o encode(args[i])

\* There is such a cut.
LEMMA PayloadParts ==
  ASSUME NEW S, NEW args \in Seq(S), \A i \in 1 .. Len(args) : ArgOK(args[i])
  PROVE  \E p : PayloadPrefixes(args, Len(args), p) /\ Payload(args) = p[Len(args)]
<1> DEFINE n == Len(args)
           V == Seq(Bytes)
           D(f) == f = [i \in 0 .. n |-> IF i = 0 THEN <<>> ELSE f[i - 1] \o encode(args[i])]
           step == [q \in (1 .. n) \X V |-> q[2] \o encode(args[q[1]])]
<1>0. n \in Nat /\ <<>> \in V
  OBVIOUS
<1>1. \A i \in 1 .. n, v \in V : step[<<i, v>>] = v \o encode(args[i]) /\ step[<<i, v>>] \in V
  <2> TAKE i \in 1 .. n, v \in V
  <2>1. encode(args[i]) \in Seq(Bytes)
    BY EncodeFacts
  <2>2. v \o encode(args[i]) \in V
    BY <2>1, ConcatProperties, Zenon
  <2> HIDE DEF V
  <2> QED BY <2>2
<1> HIDE DEF step, V, n
<1>3. PICK f : Recursive(f, n, V, <<>>, step)
  BY <1>0, <1>1, Recursion
<1>6. D(f)
  <2>1. f \in [0 .. n -> V] /\ f[0] = <<>> /\ \A i \in 1 .. n : f[i] = step[<<i, f[i - 1]>>]
    BY <1>3 DEF Recursive
  <2>2. \A i \in 1 .. n : i - 1 \in 0 .. n
    BY <1>0
  <2>3. \A i \in 1 .. n : f[i] = f[i - 1] \o encode(args[i])
    BY <1>1, <2>1, <2>2
  <2>4. \A i \in 0 .. n : f[i] = IF i = 0 THEN <<>> ELSE f[i - 1] \o encode(args[i])
    <3> TAKE i \in 0 .. n
    <3>1. CASE i = 0
      BY <2>1, <3>1
    <3>2. CASE i # 0
      <4>1. i \in 1 .. n
        BY <1>0, <3>2
      <4> QED BY <2>3, <3>2, <4>1
    <3> QED BY <3>1, <3>2
  <2>5. f = [i \in 0 .. n |-> f[i]]
    BY <2>1
  <2> QED BY <2>4, <2>5, Zenon
<1> DEFINE g == CHOOSE h : D(h)
<1>7. D(g)
  BY <1>6, Zenon
<1>8. Payload(args) = g[n]
  BY Zenon DEF Payload, n
<1> HIDE DEF g
<1>9. /\ g = [i \in 0 .. n |-> g[i]] /\ g[0] = <<>>
      /\ \A i \in 1 .. n : g[i] = g[i - 1] \o encode(args[i])
  <2>1. \A i \in 1 .. n : i \in 0 .. n /\ i # 0
    BY <1>0
  <2>2. 0 \in 0 .. n
    BY <1>0
  <2> QED BY <1>7, <2>1, <2>2
<1>10. Recursive(g, n, V, <<>>, step)
  <2> HIDE DEF D
  <2>1. \A i \in 1 .. n : g[i - 1] \in V => g[i] = step[<<i, g[i - 1]>>]
    BY <1>1, <1>9
  <2> QED BY <1>0, <1>1, <1>9, <2>1, Recursed
<1>11. PayloadPrefixes(args, n, g)
  BY <1>9, <1>10 DEF Recursive, PayloadPrefixes, V
<1> QED BY <1>8, <1>11 DEF n

\* args_encoded_size is the length of the payloads.
LEMMA PayloadSize ==
  ASSUME NEW S, NEW args \in Seq(S), \A i \in 1 .. Len(args) : ArgOK(args[i])
  PROVE  /\ Payload(args) \in Seq(Bytes) /\ args_encoded_size(args) = Len(Payload(args))
<1> DEFINE n == Len(args)
           D(f) == f = [i \in 0 .. n |-> IF i = 0 THEN 0 ELSE f[i - 1] + encoded_size(args[i])]
<1>0. n \in Nat /\ n \in 0 .. n
  OBVIOUS
<1>1. PICK p : PayloadPrefixes(args, n, p) /\ Payload(args) = p[n]
  BY PayloadParts
<1>2. /\ p \in [0 .. n -> Seq(Bytes)] /\ p[0] = <<>>
      /\ \A i \in 1 .. n : p[i] = p[i - 1] \o encode(args[i])
  BY <1>1 DEF PayloadPrefixes
<1>3. \A i \in 1 .. n : Len(p[i]) = Len(p[i - 1]) + encoded_size(args[i])
  <2> TAKE i \in 1 .. n
  <2>1. encode(args[i]) \in Seq(Bytes) /\ Len(encode(args[i])) = encoded_size(args[i])
    BY EncodeFacts
  <2>2. p[i - 1] \in Seq(Bytes)
    BY <1>2
  <2>3. Len(p[i - 1] \o encode(args[i])) = Len(p[i - 1]) + Len(encode(args[i]))
    BY <2>1, <2>2, ConcatProperties, Zenon
  <2> QED BY <1>2, <2>1, <2>3
<1> DEFINE f == [i \in 0 .. n |-> Len(p[i])]
<1> HIDE DEF n
<1>4. D(f)
  <2>1. \A i \in 0 .. n : f[i] = IF i = 0 THEN 0 ELSE f[i - 1] + encoded_size(args[i])
    <3> TAKE i \in 0 .. n
    <3>1. CASE i = 0
      BY <1>2, <3>1
    <3>2. CASE i # 0
      <4>1. i \in 1 .. n /\ i - 1 \in 0 .. n
        BY <1>0, <3>2
      <4>2. f[i] = Len(p[i]) /\ f[i - 1] = Len(p[i - 1])
        BY <4>1
      <4> QED BY <1>3, <3>2, <4>1, <4>2
    <3> QED BY <3>1, <3>2
  <2>2. f = [i \in 0 .. n |-> f[i]]
    OBVIOUS
  <2> HIDE DEF f
  <2> QED BY <2>1, <2>2, Zenon
<1> HIDE DEF f
<1> DEFINE g == CHOOSE h : D(h)
<1>5. D(g)
  BY <1>4, Zenon
<1>6. args_encoded_size(args) = g[n]
  BY Zenon DEF args_encoded_size, n
<1> HIDE DEF g
<1>7. g[0] = 0 /\ \A i \in 1 .. n : g[i] = g[i - 1] + encoded_size(args[i])
  <2>1. \A i \in 1 .. n : i \in 0 .. n /\ i # 0
    BY <1>0
  <2>2. 0 \in 0 .. n
    BY <1>0
  <2> QED BY <1>5, <2>1, <2>2
<1> HIDE DEF D
<1> DEFINE T == {i \in 0 .. n : g[i] = Len(p[i])}
<1>8. 0 \in T
  BY <1>0, <1>2, <1>7
<1>9. ASSUME NEW m \in T, m < n PROVE m + 1 \in T
  <2>1. m + 1 \in 1 .. n /\ m + 1 \in 0 .. n /\ (m + 1) - 1 = m
    BY <1>0, <1>9
  <2> QED BY <1>3, <1>7, <2>1
<1>10. T = 0 .. n
  <2> HIDE DEF T
  <2>1. T \in SUBSET (0 .. n)
    BY DEF T
  <2> QED BY <1>0, <1>8, <1>9, <2>1, Induction
<1>11. g[n] = Len(p[n])
  BY <1>0, <1>10
<1> QED BY <1>0, <1>1, <1>2, <1>6, <1>11 DEF n

\* In a record that holds the payloads, each encoding stands after its prefix.
LEMMA PrefixesHeld ==
  ASSUME NEW S, NEW args \in Seq(S), \A i \in 1 .. Len(args) : ArgOK(args[i]),
         NEW p, PayloadPrefixes(args, Len(args), p),
         NEW r \in Seq(Nat), NEW at \in Nat, Holds(r, at, p[Len(args)])
  PROVE  \A i \in 1 .. Len(args) : Holds(r, at + Len(p[i - 1]), encode(args[i]))
<1> DEFINE n == Len(args)
           T == {j \in 0 .. n : Holds(r, at, p[n - j])}
<1>0. n \in Nat
  OBVIOUS
<1>2. /\ p \in [0 .. n -> Seq(Bytes)]
      /\ \A i \in 1 .. n : p[i] = p[i - 1] \o encode(args[i])
  BY DEF PayloadPrefixes
<1> HIDE DEF n
<1>3. ASSUME NEW i \in 1 .. n, Holds(r, at, p[i])
      PROVE  Holds(r, at, p[i - 1]) /\ Holds(r, at + Len(p[i - 1]), encode(args[i]))
  <2>1. encode(args[i]) \in Seq(Nat)
    BY EncodeFacts, ByteSeq DEF n
  <2>2. i - 1 \in 0 .. n
    BY <1>0
  <2>3. p[i - 1] \in Seq(Nat)
    BY <1>2, <2>2, ByteSeq
  <2>4. Holds(r, at, p[i - 1] \o encode(args[i]))
    BY <1>2, <1>3
  <2> DEFINE x == p[i - 1]
             y == encode(args[i])
  <2> HIDE DEF x, y
  <2>5. Holds(r, at, x) /\ Holds(r, at + Len(x), y)
    <3>1. x \in Seq(Nat) /\ y \in Seq(Nat) /\ Holds(r, at, x \o y)
      BY <2>1, <2>3, <2>4 DEF x, y
    <3> QED BY <3>1, HoldsConcat
  <2> QED BY <2>5 DEF x, y
<1>4. 0 \in T
  <2>1. n - 0 = n /\ 0 \in 0 .. n
    BY <1>0
  <2>2. Holds(r, at, p[n])
    BY DEF n
  <2> QED BY <2>1, <2>2
<1>5. ASSUME NEW m \in T, m < n PROVE m + 1 \in T
  <2>1. m + 1 \in 0 .. n /\ n - m \in 1 .. n /\ (n - m) - 1 = n - (m + 1) /\ Holds(r, at, p[n - m])
    BY <1>0, <1>5
  <2>2. Holds(r, at, p[(n - m) - 1])
    BY <1>3, <2>1
  <2> QED BY <2>1, <2>2
<1>6. T = 0 .. n
  <2> HIDE DEF T
  <2>1. T \in SUBSET (0 .. n)
    BY DEF T
  <2> QED BY <1>0, <1>4, <1>5, <2>1, Induction
<1>7. \A i \in 1 .. n : Holds(r, at, p[i])
  <2> TAKE i \in 1 .. n
  <2>1. n - i \in 0 .. n /\ n - (n - i) = i
    BY <1>0
  <2> QED BY <1>6, <2>1
<1> QED BY <1>3, <1>7 DEF n

\* Where the payloads fit a u16, the length of every string does.
LEMMA StringsFit ==
  ASSUME NEW S, NEW args \in Seq(S), \A i \in 1 .. Len(args) : ArgOK(args[i]),
         Len(Payload(args)) <= U16Max
  PROVE  \A i \in 1 .. Len(args) : args[i].tag = 11 => Len(args[i].v) <= U16Max
<1> TAKE i \in 1 .. Len(args)
<1>1. PICK p : PayloadPrefixes(args, Len(args), p) /\ Payload(args) = p[Len(args)]
  BY PayloadParts
<1> DEFINE r == Payload(args)
           x == encode(args[i])
<1>2. r \in Seq(Nat) /\ Len(r) <= U16Max
  BY PayloadSize, ByteSeq
<1> HIDE DEF r
<1>3. Holds(r, 0, r)
  BY <1>2, HoldsSelf
<1>4. Holds(r, 0, p[Len(args)])
  BY <1>1, <1>3 DEF r
<1>5. Holds(r, 0 + Len(p[i - 1]), x)
  BY <1>1, <1>2, <1>4, PrefixesHeld
<1>6. Len(p[i - 1]) \in Nat
  BY <1>1 DEF PayloadPrefixes
<1>7. ArgOK(args[i])
  OBVIOUS
<1>8. x \in Seq(Bytes) /\ Len(x) = encoded_size(args[i])
      /\ (args[i].tag = 11 => encoded_size(args[i]) = 2 + Len(args[i].v) /\ args[i].v \in Seq(Bytes))
  BY <1>7, EncodeFacts
<1> HIDE DEF x
<1>9. Len(x) <= Len(r) /\ Len(x) \in Nat /\ Len(r) \in Nat
  BY <1>2, <1>5, <1>6, <1>8 DEF Holds
<1>10. args[i].tag = 11 => Len(args[i].v) \in Nat
  BY <1>8
<1> QED BY <1>2, <1>8, <1>9, <1>10, U16Facts

\* The tags of a call.
TagsOf(args) == [i \in DOMAIN args |-> args[i].tag]

\* The cursor decodes the arguments one after the other, from `at` to `end`; it
\* stands at q[i] after the first i.
Chained(args, r, at, end, q) ==
  /\ q[0] = at /\ q[Len(args)] = end
  /\ \A i \in 1 .. Len(args) : DecodeArg(args[i].tag, r, q[i - 1]) = Decoded(args[i], q[i])

\* It does so where their payloads stand.
LEMMA ArgsChained ==
  ASSUME NEW S, NEW args \in Seq(S), \A i \in 1 .. Len(args) : ArgOK(args[i]),
         \A i \in 1 .. Len(args) : args[i].tag = 11 => Len(args[i].v) <= U16Max,
         NEW r \in Seq(Nat), NEW at \in Nat, Holds(r, at, Payload(args))
  PROVE  \E q : Chained(args, r, at, at + Len(Payload(args)), q)
<1> DEFINE n == Len(args)
<1>0. n \in Nat /\ n \in 0 .. n /\ 0 \in 0 .. n
  OBVIOUS
<1>2. PICK p : PayloadPrefixes(args, n, p) /\ Payload(args) = p[n]
  BY PayloadParts
<1>3. /\ p \in [0 .. n -> Seq(Bytes)] /\ p[0] = <<>>
      /\ \A i \in 1 .. n : p[i] = p[i - 1] \o encode(args[i])
  BY <1>2 DEF PayloadPrefixes
<1>4. \A i \in 1 .. n : Holds(r, at + Len(p[i - 1]), encode(args[i]))
  BY <1>2, PrefixesHeld
<1>5. \A i \in 1 .. n : DecodeArg(args[i].tag, r, at + Len(p[i - 1])) = Decoded(args[i], at + Len(p[i]))
  <2> TAKE i \in 1 .. n
  <2> DEFINE k == at + Len(p[i - 1])
  <2>1. i - 1 \in 0 .. n /\ p[i - 1] \in Seq(Bytes)
    <3>1. i - 1 \in 0 .. n
      BY <1>0
    <3> QED BY <1>3, <3>1, Zenon
  <2>2. k \in Nat
    BY <2>1
  <2>3. ArgOK(args[i]) /\ (args[i].tag = 11 => Len(args[i].v) <= U16Max)
    OBVIOUS
  <2>4. Holds(r, k, encode(args[i]))
    BY <1>4
  <2> HIDE DEF k
  <2>5. DecodeArg(args[i].tag, r, k) = Decoded(args[i], k + Len(encode(args[i])))
    BY <2>2, <2>3, <2>4, DecodeHeld
  <2>6. k + Len(encode(args[i])) = at + Len(p[i])
    <3>1. encode(args[i]) \in Seq(Bytes) /\ Len(encode(args[i])) \in Nat
      BY <2>3, EncodeFacts
    <3>2. Len(p[i - 1] \o encode(args[i])) = Len(p[i - 1]) + Len(encode(args[i]))
      BY <2>1, <3>1, ConcatProperties, Zenon
    <3> DEFINE a == Len(p[i - 1])
               b == Len(encode(args[i]))
               c == Len(p[i])
    <3>3. c = a + b
      BY <1>3, <3>2, Zenon
    <3>4. a \in Nat
      BY <2>1
    <3>5. b \in Nat
      BY <3>1
    <3> HIDE DEF a, b, c
    <3>6. (at + a) + b = at + c
      BY <3>3, <3>4, <3>5
    <3> QED BY <3>6 DEF k, a, b, c
  <2> QED BY <2>5, <2>6 DEF k
<1> DEFINE q == [i \in 0 .. n |-> at + Len(p[i])]
<1>6. q[0] = at /\ q[n] = at + Len(Payload(args))
  <2>1. q[0] = at + Len(p[0]) /\ q[n] = at + Len(p[n])
    BY <1>0, Zenon
  <2>2. Len(<<>>) = 0 /\ at + 0 = at
    OBVIOUS
  <2> HIDE DEF q
  <2> QED BY <1>2, <1>3, <2>1, <2>2, Zenon
<1>7. \A i \in 1 .. n : q[i] = at + Len(p[i]) /\ q[i - 1] = at + Len(p[i - 1])
  <2>1. \A i \in 1 .. n : i \in 0 .. n /\ i - 1 \in 0 .. n
    BY <1>0
  <2> QED BY <2>1, Zenon
<1> HIDE DEF q
<1>8. Chained(args, r, at, at + Len(Payload(args)), q)
  BY <1>5, <1>6, <1>7, Zenon DEF Chained
<1> QED BY <1>8

\* They read back to the arguments of the call.
LEMMA ArgsReadBack ==
  ASSUME NEW S, NEW args \in Seq(S), NEW r, NEW at, NEW end, NEW q, Chained(args, r, at, end, q)
  PROVE  ReadBack(TagsOf(args), r, at) = [args |-> args, at |-> end, panic |-> FALSE]
<1> DEFINE n == Len(args)
           tags == TagsOf(args)
           Next1(st, i) ==
             LET d == DecodeArg(tags[i], r, st.at)
             IN IF st.panic \/ d.panic \/ ~d.known THEN [st EXCEPT !.panic = TRUE]
                ELSE [args |-> Append(st.args, d.arg), at |-> d.at, panic |-> FALSE]
           base == [args |-> <<>>, at |-> at, panic |-> FALSE]
           D(f) == f = [i \in 0 .. n |-> IF i = 0 THEN base ELSE Next1(f[i - 1], i)]
<1>0. n \in Nat /\ n \in 0 .. n
  OBVIOUS
<1>1. Len(tags) = n /\ \A i \in 1 .. n : tags[i] = args[i].tag
  BY DEF TagsOf
<1> DEFINE first(i) == [j \in 1 .. i |-> args[j]]
           state(i) == [args |-> first(i), at |-> q[i], panic |-> FALSE]
<1>2. q[0] = at /\ q[n] = end
  BY Zenon DEF Chained
<1>5. \A i \in 1 .. n : DecodeArg(tags[i], r, q[i - 1]) = Decoded(args[i], q[i])
  BY <1>1, Zenon DEF Chained
<1> HIDE DEF tags, n
<1>6. \A i \in 1 .. n : Append(first(i - 1), args[i]) = first(i)
  <2> TAKE i \in 1 .. n
  <2>1. first(i - 1) \in Seq(S) /\ Len(first(i - 1)) = i - 1 /\ first(i) \in Seq(S) /\ Len(first(i)) = i
    BY <1>0 DEF n
  <2> DEFINE a == first(i - 1)
             b == first(i)
             c == Append(a, args[i])
  <2>2. /\ c \in Seq(S) /\ Len(c) = i /\ c[i] = args[i] /\ \A j \in 1 .. i - 1 : c[j] = a[j]
    <3>1. args[i] \in S /\ (i - 1) + 1 = i
      BY <1>0 DEF n
    <3> HIDE DEF a
    <3>2. a \in Seq(S) /\ Len(a) = i - 1
      BY <2>1 DEF a
    <3> QED BY <3>1, <3>2, AppendProperties
  <2>3. \A j \in 1 .. i : c[j] = b[j]
    <3> TAKE j \in 1 .. i
    <3>1. b[j] = args[j]
      OBVIOUS
    <3>2. CASE j = i
      BY <2>2, <3>1, <3>2
    <3>3. CASE j # i
      <4>1. j \in 1 .. i - 1
        BY <1>0, <3>3
      <4>2. a[j] = args[j]
        BY <4>1
      <4> HIDE DEF a, b, c
      <4> QED BY <2>2, <3>1, <4>1, <4>2
    <3> HIDE DEF b, c
    <3> QED BY <3>2, <3>3
  <2> HIDE DEF b, c
  <2>4. b \in Seq(S) /\ Len(b) = i
    BY <2>1 DEF b
  <2>5. c = b
    BY <2>2, <2>3, <2>4, SeqEqual
  <2> QED BY <2>5 DEF c, b
<1>7. \A i \in 1 .. n : Next1(state(i - 1), i) = state(i)
  <2> TAKE i \in 1 .. n
  <2>1. DecodeArg(tags[i], r, q[i - 1]) = Decoded(args[i], q[i])
    BY <1>5
  <2>2. Append(first(i - 1), args[i]) = first(i)
    BY <1>6
  <2> HIDE DEF first
  <2> DEFINE st == state(i - 1)
             d == DecodeArg(tags[i], r, st.at)
  <2>3. st.at = q[i - 1] /\ st.panic = FALSE /\ st.args = first(i - 1)
    OBVIOUS
  <2>4. d = Decoded(args[i], q[i])
    BY <2>1, <2>3, Zenon
  <2>5. d.panic = FALSE /\ d.known = TRUE /\ d.arg = args[i] /\ d.at = q[i]
    BY <2>4 DEF Decoded
  <2> HIDE DEF d, st
  <2>6. Next1(st, i) = [args |-> Append(st.args, d.arg), at |-> d.at, panic |-> FALSE]
    BY <2>3, <2>5, Zenon DEF d
  <2>7. Next1(st, i) = [args |-> first(i), at |-> q[i], panic |-> FALSE]
    BY <2>2, <2>3, <2>5, <2>6, Zenon
  <2> QED BY <2>7, Zenon DEF st
<1>8. state(0) = base
  <2>1. first(0) = <<>>
    OBVIOUS
  <2> HIDE DEF first
  <2> QED BY <1>2, <2>1, Zenon
<1> HIDE DEF state, Next1, base
<1> DEFINE f == [i \in 0 .. n |-> state(i)]
<1>9. D(f)
  <2>1. \A i \in 0 .. n : f[i] = IF i = 0 THEN base ELSE Next1(f[i - 1], i)
    <3> TAKE i \in 0 .. n
    <3>1. CASE i = 0
      BY <1>8, <3>1
    <3>2. CASE i # 0
      <4>1. i \in 1 .. n /\ i - 1 \in 0 .. n
        BY <1>0, <3>2
      <4>2. f[i] = state(i) /\ f[i - 1] = state(i - 1)
        BY <4>1
      <4> QED BY <1>7, <3>2, <4>1, <4>2
    <3> QED BY <3>1, <3>2
  <2>2. f = [i \in 0 .. n |-> f[i]]
    OBVIOUS
  <2> HIDE DEF f
  <2> QED BY <2>1, <2>2, Zenon
<1> HIDE DEF f
<1> DEFINE g == CHOOSE h : D(h)
<1>10. D(g)
  BY <1>9, Zenon
<1>11. ReadBack(tags, r, at) = g[n]
  BY <1>1, Zenon DEF ReadBack, Next1, base
<1> HIDE DEF g
<1>12. g[0] = base /\ \A i \in 1 .. n : g[i] = Next1(g[i - 1], i)
  <2>1. \A i \in 1 .. n : i \in 0 .. n /\ i # 0
    BY <1>0
  <2>2. 0 \in 0 .. n
    BY <1>0
  <2> QED BY <1>10, <2>1, <2>2
<1> HIDE DEF D
<1> DEFINE T == {i \in 0 .. n : g[i] = state(i)}
<1>13. 0 \in T
  BY <1>0, <1>8, <1>12
<1>14. ASSUME NEW m \in T, m < n PROVE m + 1 \in T
  <2>1. m + 1 \in 1 .. n /\ m + 1 \in 0 .. n /\ (m + 1) - 1 = m /\ g[m] = state(m)
    BY <1>0, <1>14
  <2> QED BY <1>7, <1>12, <2>1
<1>15. T = 0 .. n
  <2> HIDE DEF T
  <2>1. T \in SUBSET (0 .. n)
    BY DEF T
  <2> QED BY <1>0, <1>13, <1>14, <2>1, Induction
<1>16. g[n] = state(n)
  BY <1>0, <1>15
<1>17. first(n) = args
  BY DEF n
<1> HIDE DEF first
<1>18. state(n) = [args |-> args, at |-> end, panic |-> FALSE]
  BY <1>2, <1>17 DEF state
<1> QED BY <1>11, <1>16, <1>18 DEF tags

-----------------------------------------------------------------------------
(* Headers.                                                                 *)

\* The first word x of a header in bytes of B values: version and record type,
\* then two bytes T of a size, a byte l of a level, and flags f; w and z are
\* what the third and the fifth byte count for.
WordOf(x, B, w, z, T, l, f) ==
  /\ B \in Nat /\ B > 11 /\ w = B * B /\ z = w * w
  /\ T \in Nat /\ T < w /\ l \in Nat /\ l < B /\ f \in Nat
  /\ x = (f * B + l) * z + (T * w + (2 + B))

\* The parts of that word, taken out again.
LEMMA WordParts ==
  ASSUME NEW x, NEW B, NEW w, NEW z, NEW T, NEW l, NEW f, WordOf(x, B, w, z, T, l, f)
  PROVE  /\ x \in Nat /\ (x \div w) % w = T /\ (x \div z) % B = l /\ x \div (B * z) = f
<1>0. /\ B \in Nat /\ B > 11 /\ w = B * B /\ z = w * w
      /\ T \in Nat /\ T < w /\ l \in Nat /\ l < B /\ f \in Nat
      /\ x = (f * B + l) * z + (T * w + (2 + B))
  BY DEF WordOf
<1> USE <1>0
<1> DEFINE c == 2 + B
           u == f * B + l
           v == T * w + c
           s == u * w + T
<1>1. w \in Nat \ {0} /\ c \in Nat /\ c < w /\ B \in Nat \ {0}
  <2>1. (B - 12) * B >= 0
    BY SMT
  <2>2. (B - 12) * B = B * B - 12 * B
    BY SMT
  <2>3. B * B \in Nat
    BY SMT
  <2> QED BY <2>1, <2>2, <2>3
<1>2. z \in Nat \ {0} /\ u \in Nat /\ T * w \in Nat /\ v \in Nat /\ v < z
  <2>1. z \in Nat \ {0} /\ T * w \in Nat /\ u \in Nat
    <3>1. z \in Nat \ {0}
      BY <1>1, SMT
    <3>2. T * w \in Nat
      BY <1>1, SMT
    <3> QED BY <3>1, <3>2, Product
  <2>2. (w - 1 - T) * w >= 0
    BY <1>1, SMT
  <2>3. (w - 1 - T) * w = w * w - w - T * w
    BY <1>1, SMT
  <2> HIDE DEF c
  <2> QED BY <1>1, <2>1, <2>2, <2>3
<1>3. x = u * z + v /\ x \in Nat
  <2>1. u * z \in Nat
    BY <1>2, SMT
  <2> HIDE DEF u, v
  <2>2. x = u * z + v
    BY DEF u, v, c
  <2> QED BY <1>2, <2>1, <2>2
<1>4. x = s * w + c /\ s \in Nat
  <2>1. u * z = (u * w) * w
    BY <1>1, <1>2, SMT
  <2>2. u * w \in Nat
    BY <1>1, <1>2, SMT
  <2>3. (u * w + T) * w = (u * w) * w + T * w
    BY <1>1, <2>2, SMT
  <2>4. (u * w) * w \in Nat
    BY <1>1, <2>2, SMT
  <2> HIDE DEF u, c
  <2> QED BY <1>1, <1>2, <1>3, <2>1, <2>2, <2>3, <2>4
<1> HIDE <1>0 DEF u, v, c, s
<1>5. x \div z = u
  <2>1. x \in Int /\ u \in Int /\ v \in Int /\ 0 <= v /\ v < z /\ z \in Nat \ {0} /\ x = u * z + v
    BY <1>2, <1>3
  <2> QED BY <2>1, DivisionUnique, Zenon
<1>6. u % B = l /\ u \div B = f
  <2>1. u = f * B + l
    BY DEF u
  <2>2. u \in Int /\ f \in Int /\ l \in Int /\ 0 <= l /\ l < B /\ B \in Nat \ {0}
    BY <1>0, <1>1, <1>2
  <2> QED BY <2>1, <2>2, DivisionUnique, Zenon
<1>7. x \div w = s
  <2>1. x \in Int /\ s \in Int /\ c \in Int /\ 0 <= c /\ c < w /\ w \in Nat \ {0} /\ x = s * w + c
    BY <1>1, <1>3, <1>4
  <2> QED BY <2>1, DivisionUnique, Zenon
<1>8. s % w = T
  <2>1. s = u * w + T
    BY DEF s
  <2>2. s \in Int /\ u \in Int /\ T \in Int /\ 0 <= T /\ T < w /\ w \in Nat \ {0}
    BY <1>0, <1>1, <1>2, <1>4
  <2> QED BY <2>1, <2>2, DivisionUnique, Zenon
<1>9. x \div (B * z) = f
  <2>1. x \in Int
    BY <1>3
  <2>2. x \div (B * z) = (x \div z) \div B
    <3>1. B \in Nat \ {0} /\ z \in Nat \ {0}
      BY <1>1, <1>2
    <3> QED BY <2>1, <3>1, DivisionTwice, Zenon
  <2> QED BY <1>5, <1>6, <2>2
<1> QED BY <1>3, <1>5, <1>6, <1>7, <1>8, <1>9

\* What the bytes at the offsets of the header count for.
LEMMA Weights ==
  /\ Weight[1] = ByteBase /\ Weight[2] = ByteBase * ByteBase
  /\ Weight[4] = Weight[2] * Weight[2] /\ Weight[5] = ByteBase * Weight[4]
<1>1. /\ 2 \in 1 .. 8 /\ 3 \in 1 .. 8 /\ 4 \in 1 .. 8 /\ 5 \in 1 .. 8
      /\ 3 - 1 = 2 /\ 4 - 1 = 3 /\ 5 - 1 = 4
  OBVIOUS
<1>2. Weight[3] = ByteBase * Weight[2] /\ Weight[4] = ByteBase * Weight[3] /\ Weight[5] = ByteBase * Weight[4]
  BY <1>1, WeightDef
<1>3. ByteBase * (ByteBase * (ByteBase * ByteBase)) = (ByteBase * ByteBase) * (ByteBase * ByteBase)
  BY ByteFacts, SMT
<1> QED BY <1>2, <1>3, U16Facts

\* A byte is more than a tag, and two are more than the numbers of the samples.
LEMMA WeightLarge == \A k \in 1 .. 8 : Weight[k] > 11 /\ (k > 1 => Weight[k] > 143)
<1> DEFINE T == {k \in 0 .. 7 : Weight[k + 1] > 11 /\ (k > 0 => Weight[k + 1] > 143)}
<1>1. 0 \in T
  BY U16Facts, ByteFacts
<1>2. ASSUME NEW m \in T, m < 7 PROVE m + 1 \in T
  <2> DEFINE w == Weight[m + 1]
  <2>1. m + 1 \in 0 .. 7 /\ w \in Nat /\ w > 11 /\ (m + 1) + 1 \in 1 .. 8 /\ ((m + 1) + 1) - 1 = m + 1
    BY <1>2, WeightDef
  <2>2. Weight[(m + 1) + 1] = ByteBase * w
    BY <2>1, WeightDef
  <2>3. ByteBase * w > 143
    <3> HIDE DEF w
    <3>1. (ByteBase - 12) * (w - 12) >= 0
      BY <2>1, ByteFacts, SMT
    <3>2. (ByteBase - 12) * (w - 12) = ByteBase * w - 12 * w - 12 * ByteBase + 144
      BY <2>1, ByteFacts, SMT
    <3>3. ByteBase * w \in Int
      BY <2>1, ByteFacts, SMT
    <3> QED BY <2>1, <3>1, <3>2, <3>3, ByteFacts
  <2>4. ByteBase * w > 11
    BY <2>1, <2>3, ByteFacts, SMT
  <2> QED BY <2>1, <2>2, <2>3, <2>4
<1>3. T = 0 .. 7
  <2> HIDE DEF T
  <2>1. T \in SUBSET (0 .. 7) /\ 7 \in Nat
    BY DEF T
  <2> QED BY <1>1, <1>2, <2>1, Induction
<1> TAKE k \in 1 .. 8
<1>4. k - 1 \in 0 .. 7 /\ (k - 1) + 1 = k
  OBVIOUS
<1>5. Weight[(k - 1) + 1] > 11 /\ (k - 1 > 0 => Weight[(k - 1) + 1] > 143)
  BY <1>3, <1>4
<1> QED BY <1>4, <1>5

\* What that says of the samples.
LEMMA WeightSamples ==
  /\ Weight[8] > 143 /\ Weight[4] > 143 /\ Weight[2] > 143
  /\ Weight[8] \in Nat /\ Weight[4] \in Nat /\ Weight[2] \in Nat
<1>1. /\ 8 \in 1 .. 8 /\ 4 \in 1 .. 8 /\ 2 \in 1 .. 8 /\ 8 > 1 /\ 4 > 1 /\ 2 > 1
      /\ 8 \in 0 .. 8 /\ 4 \in 0 .. 8 /\ 2 \in 0 .. 8
  OBVIOUS
<1>2. Weight[8] > 143 /\ Weight[4] > 143 /\ Weight[2] > 143
  BY <1>1, WeightLarge, Zenon
<1>3. Weight[8] \in Nat \ {0} /\ Weight[4] \in Nat \ {0} /\ Weight[2] \in Nat \ {0}
  BY <1>1, WeightDef, Zenon
<1> QED BY <1>2, <1>3

\* One or two bytes inside a word are the bytes of a part of it.
LEMMA SubWord ==
  ASSUME NEW x \in Nat, NEW k \in 0 .. 7, NEW m \in 1 .. 2, k + m <= 8
  PROVE  /\ x \div Weight[k] \in Nat /\ Holds(ToLE(x, 8), k, ToLE(x \div Weight[k], m))
<1> DEFINE w == Weight[k]
           y == x \div w
<1>1. w \in Nat \ {0}
  BY WeightDef
<1>2. y \in Nat
  BY <1>1, SMT
<1>3. 8 \in 0 .. 8 /\ m \in 0 .. 8
  OBVIOUS
<1>4. Len(ToLE(x, 8)) = 8 /\ \A i \in 1 .. 8 : ToLE(x, 8)[i] = (x \div Weight[i - 1]) % ByteBase
  BY <1>3, ToLEBytes, Zenon
<1> HIDE DEF y
<1>5. Len(ToLE(y, m)) = m /\ \A i \in 1 .. m : ToLE(y, m)[i] = (y \div Weight[i - 1]) % ByteBase
  BY <1>2, <1>3, ToLEBytes, Zenon
<1>6. ASSUME NEW i \in 1 .. m PROVE x \div Weight[(k + i) - 1] = y \div Weight[i - 1]
  <2>1. CASE i = 1
    <3>1. (k + i) - 1 = k /\ i - 1 = 0 /\ Weight[0] = 1
      BY <2>1, WeightDef
    <3>2. y \div 1 = y
      BY <1>2, SMT
    <3> QED BY <3>1, <3>2 DEF y
  <2>2. CASE i = 2
    <3>1. (k + i) - 1 = k + 1 /\ i - 1 = 1 /\ k + 1 \in 1 .. 8 /\ (k + 1) - 1 = k
      BY <2>2
    <3>2. Weight[k + 1] = ByteBase * w /\ Weight[1] = ByteBase
      BY <3>1, WeightDef, U16Facts
    <3>3. x \in Int /\ ByteBase \in Nat \ {0}
      BY ByteFacts
    <3> HIDE DEF w
    <3>4. x \div (ByteBase * w) = (x \div w) \div ByteBase
      BY <1>1, <3>3, DivisionTwice, Zenon
    <3> QED BY <3>1, <3>2, <3>4 DEF y
  <2> QED BY <2>1, <2>2
<1>7. \A i \in 1 .. m : ToLE(x, 8)[k + i] = ToLE(y, m)[i]
  <2> TAKE i \in 1 .. m
  <2>1. k + i \in 1 .. 8
    OBVIOUS
  <2>2. ToLE(x, 8)[k + i] = (x \div Weight[(k + i) - 1]) % ByteBase
    BY <1>4, <2>1, Zenon
  <2> QED BY <1>5, <1>6, <2>2, Zenon
<1>8. Holds(ToLE(x, 8), k, ToLE(y, m))
  BY <1>4, <1>5, <1>7 DEF Holds
<1> QED BY <1>2, <1>8 DEF y

\* What the drain and the captured record read of a header.
HeaderRead(r, level, ts, flags, total) ==
  /\ ReadNum(r, 5, 2) = flags /\ ReadNum(r, 4, 1) = level /\ ReadNum(r, 8, 8) = ts
  /\ ReadNum(r, 2, 2) = total % (U16Max + 1)

\* A header reads back, the size cut to a u16.
LEMMA HeaderHeld ==
  ASSUME NEW level \in 1 .. 5, NEW ts \in Nat, ts < Weight[8], NEW flags \in 0 .. 31, NEW total \in Nat
  PROVE  /\ Header(level, ts, flags, total) \in Seq(Bytes) /\ Len(Header(level, ts, flags, total)) = 16
         /\ \A r \in Seq(Nat) :
              Holds(r, 0, Header(level, ts, flags, total)) => HeaderRead(r, level, ts, flags, total)
<1> DEFINE B == ByteBase
           w == Weight[2]
           z == Weight[4]
           T == total % (U16Max + 1)
           x == VERSION + LOG_RECORD * Weight[1] + T * Weight[2] + level * Weight[4] + flags * Weight[5]
           a == ToLE(x, 8)
           b == ToLE(ts, 8)
           H == Header(level, ts, flags, total)
<1>1. H = a \o b
  BY DEF Header
<1>2. /\ B \in Nat /\ B > 11 /\ w = B * B /\ z = w * w /\ Weight[1] = B /\ Weight[5] = B * z
      /\ w \in Nat \ {0} /\ z \in Nat \ {0} /\ w > 143 /\ U16Max + 1 = w
  <2>1. 2 \in 1 .. 8 /\ 4 \in 1 .. 8 /\ 2 \in 0 .. 8 /\ 4 \in 0 .. 8 /\ 2 > 1
    OBVIOUS
  <2>2. w \in Nat \ {0} /\ z \in Nat \ {0} /\ w > 143
    BY <2>1, WeightDef, WeightLarge
  <2> QED BY <2>2, Weights, ByteFacts, U16Facts
<1>3. T \in Nat /\ T < w
  BY <1>2, SMT
<1> HIDE DEF w, z, T
<1>4. x = (flags * B + level) * z + (T * w + (2 + B))
  <2>1. x = 2 + 1 * B + T * w + level * z + flags * (B * z)
    BY <1>2 DEF VERSION, LOG_RECORD, T, w, z
  <2>2. (flags * B + level) * z = (flags * B) * z + level * z
    BY <1>2, SMT
  <2>3. (flags * B) * z = flags * (B * z)
    BY <1>2, SMT
  <2>4. T * w \in Nat /\ level * z \in Nat /\ flags * (B * z) \in Nat
    <3>1. B * z \in Nat
      BY <1>2, Product
    <3> QED BY <1>2, <1>3, <3>1, Product
  <2> HIDE DEF x
  <2> QED BY <1>2, <2>1, <2>2, <2>3, <2>4
<1> HIDE DEF x
<1>5. x \in Nat /\ (x \div w) % w = T /\ (x \div z) % B = level /\ x \div (B * z) = flags
  <2>1. level \in Nat /\ level < B /\ flags \in Nat
    BY <1>2
  <2>2. B \in Nat /\ B > 11 /\ w = B * B /\ z = w * w
    BY <1>2
  <2> HIDE DEF B
  <2>3. WordOf(x, B, w, z, T, level, flags)
    BY <1>3, <1>4, <2>1, <2>2, Zenon DEF WordOf
  <2> QED BY <2>3, WordParts, Zenon
<1>6. a \in Seq(Bytes) /\ Len(a) = 8 /\ b \in Seq(Bytes) /\ Len(b) = 8
  <2>1. 8 \in 0 .. 8
    OBVIOUS
  <2> QED BY <1>5, <2>1, ToLEBytes, Zenon
<1>7. H \in Seq(Bytes) /\ Len(H) = 16
  <2> HIDE DEF a, b, H
  <2>1. a \o b \in Seq(Bytes) /\ Len(a \o b) = Len(a) + Len(b)
    BY <1>6, ConcatProperties, Zenon
  <2> QED BY <1>1, <1>6, <2>1
<1>8. ASSUME NEW r \in Seq(Nat), Holds(r, 0, H)
      PROVE  HeaderRead(r, level, ts, flags, total)
  <2>1. a \in Seq(Nat) /\ b \in Seq(Nat)
    BY <1>6, ByteSeq
  <2>2. Holds(r, 0, a) /\ Holds(r, 8, b)
    <3> HIDE DEF a, b, H
    <3>1. Holds(r, 0, a \o b) /\ 0 \in Nat /\ 0 + Len(a) = 8
      BY <1>1, <1>6, <1>8
    <3>2. Holds(r, 0, a) /\ Holds(r, 0 + Len(a), b)
      BY <2>1, <3>1, HoldsConcat, Zenon
    <3> QED BY <3>1, <3>2
  <2>3. ASSUME NEW k \in 0 .. 7, NEW m \in 1 .. 2, k + m <= 8
        PROVE  ReadNum(r, k, m) = (x \div Weight[k]) % Weight[m]
    <3>1. x \div Weight[k] \in Nat /\ Holds(a, k, ToLE(x \div Weight[k], m))
      BY <1>5, <2>3, SubWord
    <3> DEFINE y == x \div Weight[k]
               c == ToLE(y, m)
    <3>2. k \in Nat /\ m \in 0 .. 8 /\ 0 \in Nat /\ 0 + k = k
      OBVIOUS
    <3> HIDE DEF y, a
    <3>3. c \in Seq(Nat)
      BY <3>1, <3>2, ToLEBytes, ByteSeq, Zenon DEF y
    <3>4. Holds(r, 0 + k, c)
      <4>1. Holds(a, k, c)
        BY <3>1 DEF y
      <4> HIDE DEF c
      <4> QED BY <2>1, <2>2, <3>2, <3>3, <4>1, HoldsWithin, Zenon
    <3>5. ReadNum(r, k, m) = y % Weight[m]
      BY <3>1, <3>2, <3>4, ReadHeld DEF y
    <3> QED BY <3>5 DEF y
  <2>4. ReadNum(r, 5, 2) = (x \div Weight[5]) % Weight[2] /\ ReadNum(r, 4, 1) = (x \div Weight[4]) % Weight[1]
        /\ ReadNum(r, 2, 2) = (x \div Weight[2]) % Weight[2]
    BY <2>3
  <2>5. flags % w = flags
    <3>1. w \in Nat \ {0} /\ flags \in Nat /\ flags < w
      BY <1>2
    <3> QED BY <3>1, Fits, Zenon
  <2>6. ReadNum(r, 8, 8) = ts
    <3>1. 8 \in 0 .. 8 /\ 8 \in Nat
      OBVIOUS
    <3>2. ReadNum(r, 8, 8) = ts % Weight[8]
      BY <2>2, <3>1, ReadHeld, Zenon
    <3>3. ts % Weight[8] = ts
      BY <3>1, WeightDef, Fits
    <3> QED BY <3>2, <3>3
  <2> QED BY <1>2, <1>5, <2>4, <2>5, <2>6, Zenon DEF HeaderRead, w, z, T
<1> QED BY <1>7, <1>8

-----------------------------------------------------------------------------
(* Records.                                                                 *)

\* The source section of an older writer.
SourceSection(on, file, line) ==
  IF on THEN ToLE(file, 8) \o ToLE(0, 2) \o ToLE(line, 4) ELSE <<>>

\* Its thread section.
ThreadSection(on, thread, name) ==
  IF on THEN ToLE(thread, 8) \o ToLE(Len(name), 2) \o name ELSE <<>>

\* A section of one number.
WordSection(on, v, n) == IF on THEN ToLE(v, n) ELSE <<>>

\* What the cursor reads of these sections at a position.
WordAt(r, at, v, n) ==
  ReadNum(r, at, n) = v /\ AfterNum(r, at, n) = at + n /\ AfterBytes(r, at, n) = at + n

\* A source: file, skipped length, line.
SourceAt(r, at, file, line) ==
  /\ ReadNum(r, at, 8) = file /\ AfterNum(r, at, 8) = at + 8
  /\ AfterNum(r, at + 8, 2) = at + 10
  /\ ReadNum(r, at + 10, 4) = line /\ AfterNum(r, at + 10, 4) = at + 14

\* A thread: its id, and a name after its length.
ThreadAt(r, at, thread, name) ==
  /\ ReadNum(r, at, 8) = thread /\ AfterNum(r, at, 8) = at + 8
  /\ ReadNum(r, at + 8, 2) = Len(name) /\ AfterNum(r, at + 8, 2) = at + 10
  /\ ReadBytes(r, at + 10, Len(name)) = name
  /\ AfterBytes(r, at + 10, Len(name)) = at + (10 + Len(name))

\* A number that fits its bytes reads back.
LEMMA WordRead ==
  ASSUME NEW y \in Nat, NEW n \in 1 .. 8, y < Weight[n]
  PROVE  /\ ToLE(y, n) \in Seq(Nat) /\ ToLE(y, n) \in Seq(Bytes) /\ Len(ToLE(y, n)) = n
         /\ \A r \in Seq(Nat), at \in Nat :
              Holds(r, at, ToLE(y, n)) =>
                /\ ReadNum(r, at, n) = y /\ AfterNum(r, at, n) = at + n /\ AfterBytes(r, at, n) = at + n
<1>1. n \in 0 .. 8 /\ Weight[n] \in Nat \ {0}
  BY WeightDef
<1>2. ToLE(y, n) \in Seq(Bytes) /\ Len(ToLE(y, n)) = n
  BY <1>1, ToLEBytes, Zenon
<1>3. ToLE(y, n) \in Seq(Nat)
  BY <1>2, ByteSeq
<1>4. ASSUME NEW r \in Seq(Nat), NEW at \in Nat, Holds(r, at, ToLE(y, n))
      PROVE  ReadNum(r, at, n) = y /\ AfterNum(r, at, n) = at + n /\ AfterBytes(r, at, n) = at + n
  <2>1. ReadNum(r, at, n) = y % Weight[n] /\ AfterNum(r, at, n) = at + n
    BY <1>1, <1>4, ReadHeld, Zenon
  <2>2. y % Weight[n] = y
    BY <1>1, Fits, Zenon
  <2>3. AfterBytes(r, at, n) = at + n
    BY <1>2, <1>3, <1>4, BytesHeld
  <2> QED BY <2>1, <2>2, <2>3
<1> QED BY <1>2, <1>3, <1>4

\* A source section reads back.
LEMMA SourceHeld ==
  ASSUME NEW on \in BOOLEAN, NEW file \in Nat, file < Weight[8], NEW line \in Nat, line < Weight[4]
  PROVE  /\ SourceSection(on, file, line) \in Seq(Bytes)
         /\ Len(SourceSection(on, file, line)) = IF on THEN 14 ELSE 0
         /\ \A r \in Seq(Nat), at \in Nat :
              on /\ Holds(r, at, SourceSection(on, file, line)) => SourceAt(r, at, file, line)
<1> DEFINE a == ToLE(file, 8)
           b == ToLE(0, 2)
           c == ToLE(line, 4)
<1>1. 8 \in 1 .. 8 /\ 2 \in 1 .. 8 /\ 4 \in 1 .. 8 /\ 0 \in Nat /\ 0 < Weight[2]
  <2>1. 2 \in 1 .. 8
    OBVIOUS
  <2>2. Weight[2] > 11 /\ Weight[2] \in Nat
    BY <2>1, WeightLarge, WeightDef
  <2> QED BY <2>1, <2>2
<1>2. a \in Seq(Nat) /\ b \in Seq(Nat) /\ c \in Seq(Nat) /\ Len(a) = 8 /\ Len(b) = 2 /\ Len(c) = 4
      /\ a \in Seq(Bytes) /\ b \in Seq(Bytes) /\ c \in Seq(Bytes)
  BY <1>1, WordRead, Zenon
<1>3. CASE ~on
  BY <1>3 DEF SourceSection
<1>4. CASE on
  <2> HIDE DEF a, b, c
  <2>1. SourceSection(on, file, line) = (a \o b) \o c
    BY <1>4, Zenon DEF SourceSection, a, b, c
  <2>2. a \o b \in Seq(Bytes) /\ Len(a \o b) = Len(a) + Len(b) /\ a \o b \in Seq(Nat)
    BY <1>2, ConcatProperties, Zenon
  <2>3. Len(a \o b) = 10
    BY <1>2, <2>2
  <2> DEFINE ab == a \o b
  <2> HIDE DEF ab
  <2>4. ab \in Seq(Bytes) /\ ab \in Seq(Nat) /\ Len(ab) = 10
    BY <2>2, <2>3 DEF ab
  <2>5. ab \o c \in Seq(Bytes) /\ Len(ab \o c) = Len(ab) + Len(c)
    BY <1>2, <2>4, ConcatProperties, Zenon
  <2>6. SourceSection(on, file, line) = ab \o c
    BY <2>1 DEF ab
  <2>7. ASSUME NEW r \in Seq(Nat), NEW at \in Nat, Holds(r, at, ab \o c)
        PROVE  SourceAt(r, at, file, line)
    <3>1. Holds(r, at, ab) /\ Holds(r, at + Len(ab), c)
      BY <1>2, <2>4, <2>7, HoldsConcat, Zenon
    <3>2. Holds(r, at, a) /\ Holds(r, at + Len(a), b)
      BY <1>2, <3>1, HoldsConcat, Zenon DEF ab
    <3>3. at + 8 \in Nat /\ at + 10 \in Nat /\ (at + 8) + 2 = at + 10 /\ (at + 10) + 4 = at + 14
      OBVIOUS
    <3>4. Holds(r, at + 8, b) /\ Holds(r, at + 10, c)
      BY <1>2, <2>4, <3>1, <3>2
    <3>5. ReadNum(r, at, 8) = file /\ AfterNum(r, at, 8) = at + 8
      BY <1>1, <3>2, WordRead DEF a
    <3>6. AfterNum(r, at + 8, 2) = (at + 8) + 2
      BY <1>1, <3>3, <3>4, WordRead DEF b
    <3>7. ReadNum(r, at + 10, 4) = line /\ AfterNum(r, at + 10, 4) = (at + 10) + 4
      BY <1>1, <3>3, <3>4, WordRead DEF c
    <3> QED BY <3>3, <3>5, <3>6, <3>7 DEF SourceAt
  <2>8. Len(ab \o c) = 14
    BY <1>2, <2>4, <2>5
  <2> QED BY <1>4, <2>5, <2>6, <2>7, <2>8
<1> QED BY <1>3, <1>4

\* A thread section reads back.
LEMMA ThreadHeld ==
  ASSUME NEW on \in BOOLEAN, NEW thread \in Nat, thread < Weight[8],
         NEW name \in Seq(Bytes), Len(name) <= U16Max
  PROVE  /\ ThreadSection(on, thread, name) \in Seq(Bytes)
         /\ Len(ThreadSection(on, thread, name)) = IF on THEN 10 + Len(name) ELSE 0
         /\ \A r \in Seq(Nat), at \in Nat :
              on /\ Holds(r, at, ThreadSection(on, thread, name)) => ThreadAt(r, at, thread, name)
<1> DEFINE a == ToLE(thread, 8)
           b == ToLE(Len(name), 2)
           n == Len(name)
<1>1. 8 \in 1 .. 8 /\ 2 \in 1 .. 8 /\ n \in Nat /\ n < Weight[2] /\ name \in Seq(Nat)
  BY U16Facts, ByteSeq
<1>2. a \in Seq(Nat) /\ b \in Seq(Nat) /\ Len(a) = 8 /\ Len(b) = 2
      /\ a \in Seq(Bytes) /\ b \in Seq(Bytes)
  BY <1>1, WordRead, Zenon
<1>3. CASE ~on
  BY <1>3 DEF ThreadSection
<1>4. CASE on
  <2> HIDE DEF a, b, n
  <2>1. ThreadSection(on, thread, name) = (a \o b) \o name
    BY <1>4, Zenon DEF ThreadSection, a, b
  <2>2. a \o b \in Seq(Bytes) /\ Len(a \o b) = Len(a) + Len(b) /\ a \o b \in Seq(Nat)
    BY <1>2, ConcatProperties, Zenon
  <2>3. Len(a \o b) = 10
    BY <1>2, <2>2
  <2> DEFINE ab == a \o b
  <2> HIDE DEF ab
  <2>4. ab \in Seq(Bytes) /\ ab \in Seq(Nat) /\ Len(ab) = 10
    BY <2>2, <2>3 DEF ab
  <2>5. ab \o name \in Seq(Bytes) /\ Len(ab \o name) = Len(ab) + Len(name)
    BY <1>2, <2>4, ConcatProperties, Zenon
  <2>6. ThreadSection(on, thread, name) = ab \o name
    BY <2>1 DEF ab
  <2>7. ASSUME NEW r \in Seq(Nat), NEW at \in Nat, Holds(r, at, ab \o name)
        PROVE  ThreadAt(r, at, thread, name)
    <3>1. Holds(r, at, ab) /\ Holds(r, at + Len(ab), name)
      BY <1>1, <2>4, <2>7, HoldsConcat, Zenon
    <3>2. Holds(r, at, a) /\ Holds(r, at + Len(a), b)
      BY <1>2, <3>1, HoldsConcat, Zenon DEF ab
    <3>3. at + 8 \in Nat /\ at + 10 \in Nat /\ (at + 8) + 2 = at + 10 /\ (at + 10) + n = at + (10 + n)
      BY <1>1
    <3>4. Holds(r, at + 8, b) /\ Holds(r, at + 10, name)
      BY <1>2, <2>4, <3>1, <3>2
    <3>5. ReadNum(r, at, 8) = thread /\ AfterNum(r, at, 8) = at + 8
      BY <1>1, <3>2, WordRead DEF a
    <3>6. ReadNum(r, at + 8, 2) = n /\ AfterNum(r, at + 8, 2) = (at + 8) + 2
      BY <1>1, <3>3, <3>4, WordRead DEF b, n
    <3>7. ReadBytes(r, at + 10, n) = name /\ AfterBytes(r, at + 10, n) = (at + 10) + n
      BY <1>1, <3>3, <3>4, BytesHeld, Zenon DEF n
    <3> QED BY <3>3, <3>5, <3>6, <3>7 DEF ThreadAt, n
  <2>8. Len(ab \o name) = 10 + n
    BY <1>1, <2>4, <2>5 DEF n
  <2> QED BY <1>4, <2>5, <2>6, <2>7, <2>8 DEF n
<1> QED BY <1>3, <1>4

\* A section of one number reads back.
LEMMA WordSectionHeld ==
  ASSUME NEW on \in BOOLEAN, NEW v \in Nat, NEW n \in 1 .. 8, v < Weight[n]
  PROVE  /\ WordSection(on, v, n) \in Seq(Bytes) /\ Len(WordSection(on, v, n)) = IF on THEN n ELSE 0
         /\ \A r \in Seq(Nat), at \in Nat :
              on /\ Holds(r, at, WordSection(on, v, n)) => WordAt(r, at, v, n)
<1>1. CASE ~on
  BY <1>1 DEF WordSection
<1>2. CASE on
  BY <1>2, WordRead DEF WordSection, WordAt
<1> QED BY <1>1, <1>2

\* Two runs of bytes in a row.
LEMMA Joined ==
  ASSUME NEW x \in Seq(Bytes), NEW y \in Seq(Bytes)
  PROVE  /\ x \o y \in Seq(Bytes) /\ Len(x) \in Nat /\ Len(y) \in Nat /\ Len(x \o y) \in Nat
         /\ Len(x \o y) = Len(x) + Len(y)
         /\ \A r \in Seq(Nat), at \in Nat :
              Holds(r, at, x \o y) => Holds(r, at, x) /\ Holds(r, at + Len(x), y) /\ at + Len(x) \in Nat
<1>1. x \o y \in Seq(Bytes) /\ Len(x \o y) = Len(x) + Len(y)
  BY ConcatProperties, Zenon
<1>2. x \in Seq(Nat) /\ y \in Seq(Nat) /\ Len(x) \in Nat /\ Len(y) \in Nat
  BY ByteSeq
<1>3. ASSUME NEW r \in Seq(Nat), NEW at \in Nat, Holds(r, at, x \o y)
      PROVE  Holds(r, at, x) /\ Holds(r, at + Len(x), y) /\ at + Len(x) \in Nat
  <2>1. Holds(r, at, x) /\ Holds(r, at + Len(x), y)
    BY <1>2, <1>3, HoldsConcat, Zenon
  <2>2. at + Len(x) \in Nat
    BY <1>2
  <2> QED BY <2>1, <2>2
<1>4. Len(x) + Len(y) \in Nat
  BY <1>2
<1> QED BY <1>1, <1>2, <1>3, <1>4, Zenon

\* The argument count is one byte.
LEMMA CountByte ==
  ASSUME NEW n \in Nat, n < ByteBase
  PROVE  <<n>> = ToLE(n, 1) /\ n < Weight[1] /\ <<n>> \in Seq(Bytes) /\ Len(<<n>>) = 1
<1>1. 1 \in 0 .. 8 /\ 1 \in 1 .. 1 /\ 1 - 1 = 0 /\ Weight[0] = 1 /\ Weight[1] = ByteBase
  BY WeightDef, U16Facts
<1>2. Len(ToLE(n, 1)) = 1 /\ ToLE(n, 1) \in Seq(Bytes) /\ ToLE(n, 1)[1] = (n \div 1) % ByteBase
  <2>1. /\ Len(ToLE(n, 1)) = 1 /\ ToLE(n, 1) \in Seq(Bytes)
        /\ \A i \in 1 .. 1 : ToLE(n, 1)[i] = (n \div Weight[i - 1]) % ByteBase
    BY <1>1, ToLEBytes, Zenon
  <2> QED BY <1>1, <2>1, Zenon
<1>3. n \div 1 = n
  BY SMT
<1>4. n % ByteBase = n
  BY Fits, ByteFacts
<1>5. ToLE(n, 1) = <<n>>
  BY <1>2, <1>3, <1>4
<1> QED BY <1>1, <1>2, <1>5

\* A record, part after part.
Record(level, ts, flags, total, site, file, line, thread, name, args) ==
  Header(level, ts, flags, total)
    \o (IF Has(flags, FLAG_SITE) THEN ToLE(site, 8) ELSE <<>>)
    \o LegacySections(flags, file, line, thread, name)
    \o <<Len(args)>> \o write_args(args)

\* The arguments of a call whose record fits.
CallArgs(args) ==
  /\ args \in Seq({args[i] : i \in DOMAIN args}) /\ Len(args) < ByteBase
  /\ \A i \in 1 .. Len(args) : ArgOK(args[i]) /\ (args[i].tag = 11 => Len(args[i].v) <= U16Max)

\* write_args writes a byte for each tag, and then the payloads.
LEMMA WrittenArgs ==
  ASSUME NEW args, CallArgs(args)
  PROVE  /\ Len(args) \in Nat /\ TagsOf(args) \in Seq(Bytes) /\ Len(TagsOf(args)) = Len(args)
         /\ Payload(args) \in Seq(Bytes) /\ write_args(args) = TagsOf(args) \o Payload(args)
<1>1. args \in Seq({args[i] : i \in DOMAIN args}) /\ \A i \in 1 .. Len(args) : ArgOK(args[i])
  BY DEF CallArgs
<1>2. Len(args) \in Nat /\ DOMAIN args = 1 .. Len(args)
  BY <1>1
<1>3. \A i \in 1 .. Len(args) : args[i].tag \in Bytes
  BY <1>1, TagByte
<1>4. TagsOf(args) \in [1 .. Len(args) -> Bytes]
  BY <1>2, <1>3 DEF TagsOf
<1>5. TagsOf(args) \in Seq(Bytes) /\ Len(TagsOf(args)) = Len(args)
  BY <1>2, <1>4
<1>6. Payload(args) \in Seq(Bytes)
  BY <1>1, PayloadSize
<1>7. write_args(args) = TagsOf(args) \o Payload(args)
  BY DEF write_args, TagsOf
<1> QED BY <1>2, <1>5, <1>6, <1>7

\* p is where the parts of a record start: the site, the sections of older
\* writers, the argument count, and the tags.
LaidOut(r, flags, site, file, line, thread, name, args, p) ==
  /\ p \in [1 .. 7 -> Nat]
  /\ p[1] = 16 /\ p[2] = p[1] + (IF Has(flags, FLAG_SITE) THEN 8 ELSE 0)
  /\ p[3] = p[2] + (IF Has(flags, FLAG_SOURCE) THEN 14 ELSE 0)
  /\ p[4] = p[3] + (IF Has(flags, FLAG_THREAD) THEN 10 + Len(name) ELSE 0)
  /\ p[5] = p[4] + (IF Has(flags, FLAG_PROCESS) THEN 4 ELSE 0)
  /\ p[6] = p[5] + (IF Has(flags, FLAG_COMPLEX) THEN 8 ELSE 0)
  /\ p[7] = p[6] + 1 /\ Len(r) = p[7] + Len(args) + Len(Payload(args))
  /\ Holds(r, p[1], WordSection(Has(flags, FLAG_SITE), site, 8))
  /\ Holds(r, p[2], SourceSection(Has(flags, FLAG_SOURCE), file, line))
  /\ Holds(r, p[3], ThreadSection(Has(flags, FLAG_THREAD), thread, name))
  /\ Holds(r, p[4], WordSection(Has(flags, FLAG_PROCESS), 1, 4))
  /\ Holds(r, p[5], WordSection(Has(flags, FLAG_COMPLEX), 1, 8))
  /\ Holds(r, p[6], <<Len(args)>>) /\ Holds(r, p[7], TagsOf(args))
  /\ Holds(r, p[7] + Len(args), Payload(args))

\* What the sections hold fits its fields.
FieldsFit(site, file, line, thread, name) ==
  /\ site \in Nat /\ site < Weight[8] /\ file \in Nat /\ file < Weight[8]
  /\ line \in Nat /\ line < Weight[4] /\ thread \in Nat /\ thread < Weight[8]
  /\ name \in Seq(Bytes) /\ Len(name) <= U16Max

\* A record has its parts at these positions, whatever its flags.
LEMMA RecordLaidOut ==
  ASSUME NEW level \in 1 .. 5, NEW ts \in Nat, ts < Weight[8], NEW flags \in 0 .. 31, NEW total \in Nat,
         NEW site, NEW file, NEW line, NEW thread, NEW name, FieldsFit(site, file, line, thread, name),
         NEW args, CallArgs(args)
  PROVE  LET r == Record(level, ts, flags, total, site, file, line, thread, name, args)
         IN /\ r \in Seq(Nat) /\ Holds(r, 0, Header(level, ts, flags, total))
            /\ \E p : LaidOut(r, flags, site, file, line, thread, name, args, p)
<1> DEFINE H == Header(level, ts, flags, total)
           A == WordSection(Has(flags, FLAG_SITE), site, 8)
           S == SourceSection(Has(flags, FLAG_SOURCE), file, line)
           T == ThreadSection(Has(flags, FLAG_THREAD), thread, name)
           P == WordSection(Has(flags, FLAG_PROCESS), 1, 4)
           C == WordSection(Has(flags, FLAG_COMPLEX), 1, 8)
           N == <<Len(args)>>
           G == TagsOf(args)
           Y == Payload(args)
           r == Record(level, ts, flags, total, site, file, line, thread, name, args)
<1>1. r = ((((H \o A) \o (((S \o T) \o P) \o C)) \o N) \o (G \o Y))
  BY WrittenArgs DEF Record, LegacySections, WordSection, SourceSection, ThreadSection
<1>2. H \in Seq(Bytes) /\ Len(H) = 16
  BY HeaderHeld
<1>3. A \in Seq(Bytes) /\ Len(A) = IF Has(flags, FLAG_SITE) THEN 8 ELSE 0
  <2>1. Has(flags, FLAG_SITE) \in BOOLEAN /\ 8 \in 1 .. 8
    BY DEF Has
  <2> QED BY <2>1, WordSectionHeld DEF FieldsFit
<1>4. S \in Seq(Bytes) /\ Len(S) = IF Has(flags, FLAG_SOURCE) THEN 14 ELSE 0
  <2>1. Has(flags, FLAG_SOURCE) \in BOOLEAN
    BY DEF Has
  <2> QED BY <2>1, SourceHeld DEF FieldsFit
<1>5. T \in Seq(Bytes) /\ Len(T) = IF Has(flags, FLAG_THREAD) THEN 10 + Len(name) ELSE 0
  <2>1. Has(flags, FLAG_THREAD) \in BOOLEAN
    BY DEF Has
  <2> QED BY <2>1, ThreadHeld DEF FieldsFit
<1>6. P \in Seq(Bytes) /\ Len(P) = IF Has(flags, FLAG_PROCESS) THEN 4 ELSE 0
  <2>1. Has(flags, FLAG_PROCESS) \in BOOLEAN /\ 4 \in 1 .. 8 /\ 1 \in Nat /\ 1 < Weight[4]
    BY WeightSamples DEF Has
  <2> QED BY <2>1, WordSectionHeld
<1>7. C \in Seq(Bytes) /\ Len(C) = IF Has(flags, FLAG_COMPLEX) THEN 8 ELSE 0
  <2>1. Has(flags, FLAG_COMPLEX) \in BOOLEAN /\ 8 \in 1 .. 8 /\ 1 \in Nat /\ 1 < Weight[8]
    BY WeightSamples DEF Has
  <2> QED BY <2>1, WordSectionHeld
<1>8. N \in Seq(Bytes) /\ Len(N) = 1 /\ G \in Seq(Bytes) /\ Len(G) = Len(args) /\ Y \in Seq(Bytes)
      /\ Len(args) \in Nat
  BY WrittenArgs, CountByte DEF CallArgs
<1> HIDE DEF H, A, S, T, P, C, N, G, Y, r
<1> DEFINE HA == H \o A
           ST == S \o T
           STP == ST \o P
           L == STP \o C
           HAL == HA \o L
           X == HAL \o N
           W == G \o Y
<1>9. /\ HA \in Seq(Bytes) /\ ST \in Seq(Bytes)
  BY <1>2, <1>3, <1>4, <1>5, Joined, Zenon
<1>10. STP \in Seq(Bytes)
  <2> HIDE DEF ST
  <2> QED BY <1>6, <1>9, Joined, Zenon
<1>11. L \in Seq(Bytes)
  <2> HIDE DEF STP
  <2> QED BY <1>7, <1>10, Joined, Zenon
<1>12. HAL \in Seq(Bytes)
  <2> HIDE DEF HA, L
  <2> QED BY <1>9, <1>11, Joined, Zenon
<1>13. X \in Seq(Bytes) /\ W \in Seq(Bytes)
  <2> HIDE DEF HAL
  <2> QED BY <1>8, <1>12, Joined, Zenon
<1>14. r = X \o W /\ r \in Seq(Bytes) /\ r \in Seq(Nat)
  <2>1. r = X \o W
    BY <1>1, Zenon
  <2> HIDE DEF X, W
  <2>2. X \o W \in Seq(Bytes)
    BY <1>13, Joined, Zenon
  <2> QED BY <2>1, <2>2, ByteSeq
<1>15. /\ Len(HA) = Len(H) + Len(A) /\ Len(ST) = Len(S) + Len(T) /\ Len(W) = Len(G) + Len(Y)
  BY <1>2, <1>3, <1>4, <1>5, <1>8, Joined, Zenon
<1>16. Len(STP) = Len(ST) + Len(P)
  <2> HIDE DEF ST
  <2> QED BY <1>6, <1>9, Joined, Zenon
<1>17. Len(L) = Len(STP) + Len(C)
  <2> HIDE DEF STP
  <2> QED BY <1>7, <1>10, Joined, Zenon
<1>18. Len(HAL) = Len(HA) + Len(L)
  <2> HIDE DEF HA, L
  <2> QED BY <1>9, <1>11, Joined, Zenon
<1>19. Len(X) = Len(HAL) + Len(N)
  <2> HIDE DEF HAL
  <2> QED BY <1>8, <1>12, Joined, Zenon
<1>20. Len(r) = Len(X) + Len(W)
  <2> HIDE DEF X, W
  <2> QED BY <1>13, <1>14, Joined, Zenon
<1>21. 0 \in Nat /\ Len(H) \in Nat /\ Len(A) \in Nat /\ Len(S) \in Nat /\ Len(T) \in Nat /\ Len(P) \in Nat
       /\ Len(C) \in Nat /\ Len(N) \in Nat /\ Len(G) \in Nat /\ Len(Y) \in Nat
  BY <1>2, <1>3, <1>4, <1>5, <1>6, <1>7, <1>8
<1> DEFINE a2 == Len(H) + Len(A)
           a3 == a2 + Len(S)
           a4 == a3 + Len(T)
           a5 == a4 + Len(P)
           a6 == a5 + Len(C)
           a7 == a6 + Len(N)
<1>22. a2 \in Nat /\ a3 \in Nat /\ a4 \in Nat /\ a5 \in Nat /\ a6 \in Nat /\ a7 \in Nat
  BY <1>21
<1>23. /\ Len(HA) = a2 /\ Len(HAL) = a6 /\ Len(X) = a7 /\ 0 + Len(HA) = a2 /\ 0 + Len(HAL) = a6
       /\ 0 + Len(X) = a7 /\ a2 + Len(STP) = a5 /\ a2 + Len(ST) = a4 /\ 0 + Len(H) = 16
       /\ Len(r) = a7 + Len(G) + Len(Y)
  <2> HIDE DEF HA, ST, STP, L, HAL, X, W
  <2> QED BY <1>2, <1>15, <1>16, <1>17, <1>18, <1>19, <1>20, <1>21
<1> HIDE DEF a2, a3, a4, a5, a6, a7
<1>24. Holds(r, 0, X) /\ Holds(r, a7, W)
  <2>1. Holds(r, 0, X \o W)
    BY <1>14, HoldsSelf
  <2> HIDE DEF X, W
  <2>2. Holds(r, 0, X) /\ Holds(r, 0 + Len(X), W)
    BY <1>13, <1>14, <1>21, <2>1, Joined
  <2> QED BY <1>23, <2>2
<1>25. Holds(r, a7, G) /\ Holds(r, a7 + Len(G), Y)
  <2>1. G \in Seq(Bytes) /\ Y \in Seq(Bytes) /\ r \in Seq(Nat) /\ a7 \in Nat /\ Holds(r, a7, G \o Y)
    BY <1>8, <1>14, <1>22, <1>24
  <2> QED BY <2>1, Joined
<1>26. Holds(r, 0, HAL) /\ Holds(r, a6, N)
  <2> HIDE DEF HAL
  <2>2. Holds(r, 0, HAL) /\ Holds(r, 0 + Len(HAL), N)
    <3>1. HAL \in Seq(Bytes) /\ N \in Seq(Bytes) /\ r \in Seq(Nat) /\ 0 \in Nat /\ Holds(r, 0, HAL \o N)
      BY <1>8, <1>12, <1>14, <1>24
    <3> QED BY <3>1, Joined
  <2> QED BY <1>23, <2>2
<1>27. Holds(r, 0, HA) /\ Holds(r, a2, L)
  <2> HIDE DEF HA, L
  <2>2. Holds(r, 0, HA) /\ Holds(r, 0 + Len(HA), L)
    BY <1>9, <1>11, <1>14, <1>21, <1>26, Joined
  <2> QED BY <1>23, <2>2
<1>28. Holds(r, 0, H) /\ Holds(r, 16, A)
  <2>2. Holds(r, 0, H) /\ Holds(r, 0 + Len(H), A)
    BY <1>2, <1>3, <1>14, <1>21, <1>27, Joined
  <2> QED BY <1>23, <2>2
<1>29. Holds(r, a2, STP) /\ Holds(r, a5, C)
  <2> HIDE DEF STP
  <2>2. Holds(r, a2, STP) /\ Holds(r, a2 + Len(STP), C)
    BY <1>7, <1>10, <1>14, <1>22, <1>27, Joined
  <2> QED BY <1>23, <2>2
<1>30. Holds(r, a2, ST) /\ Holds(r, a4, P)
  <2> HIDE DEF ST
  <2>2. Holds(r, a2, ST) /\ Holds(r, a2 + Len(ST), P)
    BY <1>6, <1>9, <1>14, <1>22, <1>29, Joined
  <2> QED BY <1>23, <2>2
<1>31. Holds(r, a2, S) /\ Holds(r, a3, T)
  <2>1. S \in Seq(Bytes) /\ T \in Seq(Bytes) /\ r \in Seq(Nat) /\ a2 \in Nat /\ Holds(r, a2, S \o T)
    BY <1>4, <1>5, <1>14, <1>22, <1>30
  <2>2. Holds(r, a2, S) /\ Holds(r, a2 + Len(S), T)
    BY <2>1, Joined
  <2> QED BY <2>2 DEF a3
<1> DEFINE p == <<16, a2, a3, a4, a5, a6, a7>>
<1>32. /\ p \in [1 .. 7 -> Nat] /\ p[1] = 16 /\ p[2] = a2 /\ p[3] = a3 /\ p[4] = a4 /\ p[5] = a5
       /\ p[6] = a6 /\ p[7] = a7
  BY <1>22
<1> HIDE DEF p
<1>33. /\ a2 = 16 + (IF Has(flags, FLAG_SITE) THEN 8 ELSE 0)
       /\ a3 = a2 + (IF Has(flags, FLAG_SOURCE) THEN 14 ELSE 0)
       /\ a4 = a3 + (IF Has(flags, FLAG_THREAD) THEN 10 + Len(name) ELSE 0)
       /\ a5 = a4 + (IF Has(flags, FLAG_PROCESS) THEN 4 ELSE 0)
       /\ a6 = a5 + (IF Has(flags, FLAG_COMPLEX) THEN 8 ELSE 0)
       /\ a7 = a6 + 1 /\ Len(r) = a7 + Len(args) + Len(Y)
  BY <1>2, <1>3, <1>4, <1>5, <1>6, <1>7, <1>8, <1>23, Zenon DEF a2, a3, a4, a5, a6, a7
<1>34. LaidOut(r, flags, site, file, line, thread, name, args, p)
  <2>1. Holds(r, a7 + Len(args), Y)
    BY <1>8, <1>25
  <2> QED BY <1>24, <1>25, <1>26, <1>28, <1>29, <1>30, <1>31, <1>32, <1>33, <2>1, Zenon
         DEF LaidOut, A, S, T, P, C, N, G, Y
<1> QED BY <1>14, <1>28, <1>34 DEF r, H

\* What the drain must make of a record before its arguments.
DecodedHeader(level, ts, flags, site, file, line, thread, name, tags, at) ==
  [level  |-> level, ts |-> ts,
   site   |-> IF Has(flags, FLAG_SITE) THEN <<site>> ELSE <<>>,
   source |-> IF Has(flags, FLAG_SOURCE) THEN <<[file |-> file, line |-> line]>> ELSE <<>>,
   thread |-> IF Has(flags, FLAG_THREAD) THEN <<[id |-> thread, name |-> name]>> ELSE <<>>,
   tags   |-> tags, at |-> at]

\* r is the record of a call, laid out at the positions p.
RecordAt(r, level, ts, flags, total, site, file, line, thread, name, args, p) ==
  /\ level \in 1 .. 5 /\ flags \in 0 .. 31 /\ FieldsFit(site, file, line, thread, name)
  /\ CallArgs(args) /\ r \in Seq(Nat) /\ HeaderRead(r, level, ts, flags, total)
  /\ LaidOut(r, flags, site, file, line, thread, name, args, p)

\* decode_and_format finds every section that the flags announce, and the tags,
\* at the position where the writer put them.
LEMMA HeaderDecodes ==
  ASSUME NEW r, NEW level, NEW ts, NEW flags, NEW total, NEW site, NEW file, NEW line, NEW thread, NEW name,
         NEW args, NEW p, RecordAt(r, level, ts, flags, total, site, file, line, thread, name, args, p)
  PROVE  DecodeHeader(r) = DecodedHeader(level, ts, flags, site, file, line, thread, name,
                                         TagsOf(args), p[7] + Len(args))
<1>0. /\ level \in 1 .. 5 /\ flags \in 0 .. 31 /\ FieldsFit(site, file, line, thread, name)
      /\ CallArgs(args) /\ r \in Seq(Nat) /\ HeaderRead(r, level, ts, flags, total)
      /\ LaidOut(r, flags, site, file, line, thread, name, args, p)
  BY DEF RecordAt
<1> USE <1>0
<1> DEFINE fl == ReadNum(r, 5, 2)
           On(flag, at, n)   == IF Has(fl, flag) THEN n ELSE at
           Section(flag, s)  == IF Has(fl, flag) THEN <<s>> ELSE <<>>
           q2 == On(FLAG_SITE, HEADER_SIZE, AfterNum(r, HEADER_SIZE, 8))
           qf == AfterNum(r, AfterNum(r, q2, 8), 2)
           q3 == On(FLAG_SOURCE, q2, AfterNum(r, qf, 4))
           qi == AfterNum(r, q3, 8)
           qn == AfterNum(r, qi, 2)
           q4 == On(FLAG_THREAD, q3, AfterBytes(r, qn, ReadNum(r, qi, 2)))
           q5 == On(FLAG_PROCESS, q4, AfterBytes(r, q4, 4))
           q6 == On(FLAG_COMPLEX, q5, AfterBytes(r, q5, 8))
           q7 == AfterNum(r, q6, 1)
<1>1. DecodeHeader(r) =
        [level  |-> LevelOf(ReadNum(r, 4, 1)), ts |-> ReadNum(r, 8, 8),
         site   |-> Section(FLAG_SITE, ReadNum(r, HEADER_SIZE, 8)),
         source |-> Section(FLAG_SOURCE, [file |-> ReadNum(r, q2, 8), line |-> ReadNum(r, qf, 4)]),
         thread |-> Section(FLAG_THREAD, [id   |-> ReadNum(r, q3, 8),
                                          name |-> ReadBytes(r, qn, ReadNum(r, qi, 2))]),
         tags   |-> ReadBytes(r, q7, ReadNum(r, q6, 1)),
         at     |-> AfterBytes(r, q7, ReadNum(r, q6, 1))]
  BY Zenon DEF DecodeHeader
<1>2. fl = flags /\ ReadNum(r, 4, 1) = level /\ ReadNum(r, 8, 8) = ts
  BY DEF HeaderRead
<1>3. LevelOf(level) = level
  BY DEF LevelOf, Levels
<1> HIDE DEF q2, qf, q3, qi, qn, q4, q5, q6, q7, fl
<1>4. /\ p[1] \in Nat /\ p[2] \in Nat /\ p[3] \in Nat /\ p[4] \in Nat /\ p[5] \in Nat /\ p[6] \in Nat /\ p[7] \in Nat
      /\ p[1] = 16
  <2>1. p \in [1 .. 7 -> Nat] /\ p[1] = 16
    BY DEF LaidOut
  <2> QED BY <2>1
<1>5. /\ Has(flags, FLAG_SITE) \in BOOLEAN /\ Has(flags, FLAG_SOURCE) \in BOOLEAN
      /\ Has(flags, FLAG_THREAD) \in BOOLEAN /\ Has(flags, FLAG_PROCESS) \in BOOLEAN
      /\ Has(flags, FLAG_COMPLEX) \in BOOLEAN
  BY DEF Has
<1>6. /\ q2 = p[2]
      /\ Has(flags, FLAG_SITE) => ReadNum(r, HEADER_SIZE, 8) = site
  <2>1. HEADER_SIZE = 16 /\ 8 \in 1 .. 8
    BY DEF HEADER_SIZE
  <2>2. q2 = IF Has(flags, FLAG_SITE) THEN AfterNum(r, 16, 8) ELSE 16
    BY <1>2, <2>1 DEF q2
  <2>3. /\ p[2] = p[1] + (IF Has(flags, FLAG_SITE) THEN 8 ELSE 0)
        /\ Holds(r, 16, WordSection(Has(flags, FLAG_SITE), site, 8))
    BY DEF LaidOut
  <2>4. CASE Has(flags, FLAG_SITE)
    <3>1. ReadNum(r, 16, 8) = site /\ AfterNum(r, 16, 8) = 16 + 8
      <4>1. site \in Nat /\ site < Weight[8] /\ 16 \in Nat
        BY DEF FieldsFit
      <4>2. WordAt(r, 16, site, 8)
        BY <1>5, <2>1, <2>3, <2>4, <4>1, WordSectionHeld, Zenon
      <4> QED BY <4>2 DEF WordAt
    <3> QED BY <1>4, <2>1, <2>2, <2>3, <2>4, <3>1
  <2>5. CASE ~Has(flags, FLAG_SITE)
    BY <1>4, <2>2, <2>3, <2>5
  <2> QED BY <2>4, <2>5
<1>7. /\ q3 = p[3]
      /\ Has(flags, FLAG_SOURCE) => ReadNum(r, q2, 8) = file /\ ReadNum(r, qf, 4) = line
  <2>1. q3 = IF Has(flags, FLAG_SOURCE) THEN AfterNum(r, qf, 4) ELSE p[2]
    BY <1>2, <1>6 DEF q3
  <2>2. /\ p[3] = p[2] + (IF Has(flags, FLAG_SOURCE) THEN 14 ELSE 0)
        /\ Holds(r, p[2], SourceSection(Has(flags, FLAG_SOURCE), file, line))
    BY DEF LaidOut
  <2>3. CASE Has(flags, FLAG_SOURCE)
    <3>1. /\ ReadNum(r, p[2], 8) = file /\ AfterNum(r, p[2], 8) = p[2] + 8
          /\ AfterNum(r, p[2] + 8, 2) = p[2] + 10
          /\ ReadNum(r, p[2] + 10, 4) = line /\ AfterNum(r, p[2] + 10, 4) = p[2] + 14
      <4>1. file \in Nat /\ file < Weight[8] /\ line \in Nat /\ line < Weight[4]
        BY DEF FieldsFit
      <4>2. SourceAt(r, p[2], file, line)
        BY <1>4, <1>5, <2>2, <2>3, <4>1, SourceHeld, Zenon
      <4> QED BY <4>2, Zenon DEF SourceAt
    <3>2. qf = p[2] + 10
      BY <1>6, <3>1 DEF qf
    <3> QED BY <1>6, <2>1, <2>2, <2>3, <3>1, <3>2
  <2>4. CASE ~Has(flags, FLAG_SOURCE)
    BY <1>4, <2>1, <2>2, <2>4
  <2> QED BY <2>3, <2>4
<1>8. /\ q4 = p[4]
      /\ Has(flags, FLAG_THREAD) => ReadNum(r, q3, 8) = thread /\ ReadBytes(r, qn, ReadNum(r, qi, 2)) = name
  <2>1. q4 = IF Has(flags, FLAG_THREAD) THEN AfterBytes(r, qn, ReadNum(r, qi, 2)) ELSE p[3]
    BY <1>2, <1>7 DEF q4
  <2>2. /\ p[4] = p[3] + (IF Has(flags, FLAG_THREAD) THEN 10 + Len(name) ELSE 0)
        /\ Holds(r, p[3], ThreadSection(Has(flags, FLAG_THREAD), thread, name))
    BY DEF LaidOut
  <2>3. CASE Has(flags, FLAG_THREAD)
    <3>1. /\ ReadNum(r, p[3], 8) = thread /\ AfterNum(r, p[3], 8) = p[3] + 8
          /\ ReadNum(r, p[3] + 8, 2) = Len(name) /\ AfterNum(r, p[3] + 8, 2) = p[3] + 10
          /\ ReadBytes(r, p[3] + 10, Len(name)) = name
          /\ AfterBytes(r, p[3] + 10, Len(name)) = p[3] + (10 + Len(name))
      <4>1. thread \in Nat /\ thread < Weight[8] /\ name \in Seq(Bytes) /\ Len(name) <= U16Max
        BY DEF FieldsFit
      <4>2. ThreadAt(r, p[3], thread, name)
        BY <1>4, <1>5, <2>2, <2>3, <4>1, ThreadHeld, Zenon
      <4> QED BY <4>2, Zenon DEF ThreadAt
    <3>2. qi = p[3] + 8
      BY <1>7, <3>1 DEF qi
    <3>3. qn = p[3] + 10
      BY <3>1, <3>2 DEF qn
    <3> QED BY <1>7, <2>1, <2>2, <2>3, <3>1, <3>2, <3>3, Zenon
  <2>4. CASE ~Has(flags, FLAG_THREAD)
    BY <1>4, <2>1, <2>2, <2>4
  <2> QED BY <2>3, <2>4
<1>9. q5 = p[5]
  <2>1. q5 = IF Has(flags, FLAG_PROCESS) THEN AfterBytes(r, p[4], 4) ELSE p[4]
    BY <1>2, <1>8 DEF q5
  <2>2. /\ p[5] = p[4] + (IF Has(flags, FLAG_PROCESS) THEN 4 ELSE 0)
        /\ Holds(r, p[4], WordSection(Has(flags, FLAG_PROCESS), 1, 4))
    BY DEF LaidOut
  <2>3. CASE Has(flags, FLAG_PROCESS)
    <3>1. 4 \in 1 .. 8 /\ 1 \in Nat /\ 1 < Weight[4]
      BY WeightSamples
    <3>2. WordAt(r, p[4], 1, 4)
      BY <1>4, <1>5, <2>2, <2>3, <3>1, WordSectionHeld, Zenon
    <3>3. AfterBytes(r, p[4], 4) = p[4] + 4
      BY <3>2, Zenon DEF WordAt
    <3> QED BY <2>1, <2>2, <2>3, <3>3
  <2>4. CASE ~Has(flags, FLAG_PROCESS)
    BY <1>4, <2>1, <2>2, <2>4
  <2> QED BY <2>3, <2>4
<1>10. q6 = p[6]
  <2>1. q6 = IF Has(flags, FLAG_COMPLEX) THEN AfterBytes(r, p[5], 8) ELSE p[5]
    BY <1>2, <1>9 DEF q6
  <2>2. /\ p[6] = p[5] + (IF Has(flags, FLAG_COMPLEX) THEN 8 ELSE 0)
        /\ Holds(r, p[5], WordSection(Has(flags, FLAG_COMPLEX), 1, 8))
    BY DEF LaidOut
  <2>3. CASE Has(flags, FLAG_COMPLEX)
    <3>1. 8 \in 1 .. 8 /\ 1 \in Nat /\ 1 < Weight[8]
      BY WeightSamples
    <3>2. WordAt(r, p[5], 1, 8)
      BY <1>4, <1>5, <2>2, <2>3, <3>1, WordSectionHeld, Zenon
    <3>3. AfterBytes(r, p[5], 8) = p[5] + 8
      BY <3>2, Zenon DEF WordAt
    <3> QED BY <2>1, <2>2, <2>3, <3>3
  <2>4. CASE ~Has(flags, FLAG_COMPLEX)
    BY <1>4, <2>1, <2>2, <2>4
  <2> QED BY <2>3, <2>4
<1>11. /\ ReadNum(r, q6, 1) = Len(args) /\ q7 = p[7]
  <2>1. Holds(r, p[6], <<Len(args)>>) /\ p[7] = p[6] + 1
    BY DEF LaidOut
  <2>2. Len(args) \in Nat /\ Len(args) < ByteBase /\ 1 \in 1 .. 8
    BY WrittenArgs DEF CallArgs
  <2>3. Holds(r, p[6], ToLE(Len(args), 1)) /\ Len(args) < Weight[1]
    BY <2>1, <2>2, CountByte
  <2>4. ReadNum(r, p[6], 1) = Len(args) /\ AfterNum(r, p[6], 1) = p[6] + 1
    <3>1. \A at \in Nat :
            Holds(r, at, ToLE(Len(args), 1)) => ReadNum(r, at, 1) = Len(args) /\ AfterNum(r, at, 1) = at + 1
      BY <2>2, <2>3, WordRead
    <3> QED BY <1>4, <2>3, <3>1, Zenon
  <2> QED BY <1>10, <2>1, <2>4 DEF q7
<1>12. /\ ReadBytes(r, q7, ReadNum(r, q6, 1)) = TagsOf(args)
       /\ AfterBytes(r, q7, ReadNum(r, q6, 1)) = p[7] + Len(args)
  <2>1. Holds(r, p[7], TagsOf(args))
    BY DEF LaidOut
  <2>2. TagsOf(args) \in Seq(Nat) /\ Len(TagsOf(args)) = Len(args)
    BY WrittenArgs, ByteSeq
  <2>3. ReadBytes(r, p[7], Len(TagsOf(args))) = TagsOf(args)
        /\ AfterBytes(r, p[7], Len(TagsOf(args))) = p[7] + Len(TagsOf(args))
    BY <1>4, <2>1, <2>2, BytesHeld, Zenon
  <2> QED BY <1>11, <2>2, <2>3
<1>13. Section(FLAG_SITE, ReadNum(r, HEADER_SIZE, 8)) = IF Has(flags, FLAG_SITE) THEN <<site>> ELSE <<>>
  BY <1>2, <1>6, Zenon
<1>14. Section(FLAG_SOURCE, [file |-> ReadNum(r, q2, 8), line |-> ReadNum(r, qf, 4)])
         = IF Has(flags, FLAG_SOURCE) THEN <<[file |-> file, line |-> line]>> ELSE <<>>
  BY <1>2, <1>7
<1>15. Section(FLAG_THREAD, [id |-> ReadNum(r, q3, 8), name |-> ReadBytes(r, qn, ReadNum(r, qi, 2))])
         = IF Has(flags, FLAG_THREAD) THEN <<[id |-> thread, name |-> name]>> ELSE <<>>
  BY <1>2, <1>8
<1>16. LevelOf(ReadNum(r, 4, 1)) = level /\ ReadNum(r, 8, 8) = ts
  BY <1>2, <1>3
<1> HIDE DEF Section
<1> QED BY <1>1, <1>12, <1>13, <1>14, <1>15, <1>16 DEF DecodedHeader

\* r is a record written with the given fields.
Written(r, level, ts, flags, total, site, file, line, thread, name, args) ==
  /\ level \in 1 .. 5 /\ ts \in Nat /\ ts < Weight[8] /\ flags \in 0 .. 31 /\ total \in Nat
  /\ FieldsFit(site, file, line, thread, name) /\ CallArgs(args)
  /\ r = Record(level, ts, flags, total, site, file, line, thread, name, args)

\* The drain's cursor finds in r what was written before the arguments, and then,
\* from `at` on, the arguments to the end of r.
Understood(r, at, level, ts, flags, total, site, file, line, thread, name, args) ==
  /\ DecodeHeader(r) = DecodedHeader(level, ts, flags, site, file, line, thread, name, TagsOf(args), at)
  /\ HeaderRead(r, level, ts, flags, total)
  /\ \E q : Chained(args, r, at, Len(r), q)

\* It does so in every record, with any of the sections of older writers.
LEMMA RecordChained ==
  ASSUME NEW r, NEW level, NEW ts, NEW flags, NEW total, NEW site, NEW file, NEW line, NEW thread, NEW name,
         NEW args, Written(r, level, ts, flags, total, site, file, line, thread, name, args)
  PROVE  \E at \in Nat : Understood(r, at, level, ts, flags, total, site, file, line, thread, name, args)
<1>0. /\ level \in 1 .. 5 /\ ts \in Nat /\ ts < Weight[8] /\ flags \in 0 .. 31 /\ total \in Nat
      /\ FieldsFit(site, file, line, thread, name) /\ CallArgs(args)
      /\ r = Record(level, ts, flags, total, site, file, line, thread, name, args)
  BY DEF Written
<1> USE <1>0
<1>1. /\ r \in Seq(Nat) /\ Holds(r, 0, Header(level, ts, flags, total))
      /\ \E p : LaidOut(r, flags, site, file, line, thread, name, args, p)
  BY RecordLaidOut
<1>2. HeaderRead(r, level, ts, flags, total)
  BY <1>1, HeaderHeld
<1>3. PICK p : LaidOut(r, flags, site, file, line, thread, name, args, p)
  BY <1>1
<1> DEFINE at == p[7] + Len(args)
<1>4. DecodeHeader(r) = DecodedHeader(level, ts, flags, site, file, line, thread, name, TagsOf(args), at)
  <2>1. r \in Seq(Nat) /\ HeaderRead(r, level, ts, flags, total)
    BY <1>1, <1>2
  <2> HIDE DEF at
  <2>2. DecodeHeader(r) = DecodedHeader(level, ts, flags, site, file, line, thread, name, TagsOf(args),
                                        p[7] + Len(args))
    <3>1. RecordAt(r, level, ts, flags, total, site, file, line, thread, name, args, p)
      BY <1>3, <2>1, Zenon DEF RecordAt
    <3> QED BY <3>1, HeaderDecodes, Zenon
  <2> QED BY <2>2 DEF at
<1>5. /\ at \in Nat /\ Len(r) = at + Len(Payload(args)) /\ Holds(r, at, Payload(args))
  <2>1. /\ p \in [1 .. 7 -> Nat] /\ Len(r) = p[7] + Len(args) + Len(Payload(args))
        /\ Holds(r, p[7] + Len(args), Payload(args))
    BY <1>3 DEF LaidOut
  <2>2. Len(args) \in Nat /\ Len(Payload(args)) \in Nat
    BY WrittenArgs
  <2>3. p[7] \in Nat
    BY <2>1
  <2>4. at \in Nat
    BY <2>2, <2>3
  <2> HIDE DEF at
  <2>5. Len(r) = at + Len(Payload(args)) /\ Holds(r, at, Payload(args))
    BY <2>1 DEF at
  <2> QED BY <2>4, <2>5
<1>6. PICK q : Chained(args, r, at, Len(r), q)
  <2>1. /\ args \in Seq({args[i] : i \in DOMAIN args})
        /\ \A i \in 1 .. Len(args) : ArgOK(args[i])
        /\ \A i \in 1 .. Len(args) : args[i].tag = 11 => Len(args[i].v) <= U16Max
    BY DEF CallArgs
  <2> HIDE DEF at
  <2> QED BY <1>1, <1>5, <2>1, ArgsChained, Zenon
<1>7. Understood(r, at, level, ts, flags, total, site, file, line, thread, name, args)
  <2> HIDE DEF at
  <2> QED BY <1>2, <1>4, <1>6, Zenon DEF Understood
<1> QED BY <1>5, <1>7, Zenon

\* A record of any level, stamp, site and arguments within the ranges of their
\* types, with any of the sections of older writers, comes back from the
\* drain's cursor as it was written, the cursor stopping at its end
\* (encode.rs, decode_and_format).
THEOREM RecordDecodes ==
  ASSUME NEW r, NEW level, NEW ts, NEW flags, NEW total, NEW site, NEW file, NEW line, NEW thread, NEW name,
         NEW args, Written(r, level, ts, flags, total, site, file, line, thread, name, args)
  PROVE  \E at \in Nat :
           /\ DecodeHeader(r) = DecodedHeader(level, ts, flags, site, file, line, thread, name, TagsOf(args), at)
           /\ ReadBack(TagsOf(args), r, at) = [args |-> args, at |-> Len(r), panic |-> FALSE]
           /\ HeaderRead(r, level, ts, flags, total)
<1>1. PICK at \in Nat :
         /\ DecodeHeader(r) = DecodedHeader(level, ts, flags, site, file, line, thread, name, TagsOf(args), at)
         /\ HeaderRead(r, level, ts, flags, total)
         /\ \E q : Chained(args, r, at, Len(r), q)
  <2>1. \E at \in Nat : Understood(r, at, level, ts, flags, total, site, file, line, thread, name, args)
    BY RecordChained, Zenon
  <2> QED BY <2>1, Zenon DEF Understood
<1>2. PICK q : Chained(args, r, at, Len(r), q)
  BY <1>1
<1>3. args \in Seq({args[i] : i \in DOMAIN args})
  <2>1. CallArgs(args)
    BY Zenon DEF Written
  <2> QED BY <2>1 DEF CallArgs
<1>4. ReadBack(TagsOf(args), r, at) = [args |-> args, at |-> Len(r), panic |-> FALSE]
  BY <1>2, <1>3, ArgsReadBack, Zenon
<1> QED BY <1>1, <1>4, Zenon

-----------------------------------------------------------------------------
(* The calls of Line.                                                       *)

\* The arguments that Line calls with are in the ranges of their types.
LEMMA SampleArgs == \A a \in ArgValues : ArgOK(a)
<1>1. ASSUME NEW v \in BOOLEAN PROVE ArgOK([tag |-> 10, v |-> v])
  BY TagValues DEF ArgOK
<1>2. ASSUME NEW t \in {0, 2, 3, 5, 6, 8}, NEW v \in {0, 1, Bits(t) - 1} PROVE ArgOK([tag |-> t, v |-> v])
  <2>1. PrimitiveSize(t) \in 1 .. 8
    BY SizesAgree
  <2>2. Weight[PrimitiveSize(t)] \in Nat /\ Weight[PrimitiveSize(t)] > 11
    BY <2>1, WeightLarge, WeightDef
  <2>3. v \in Nat /\ v < Weight[PrimitiveSize(t)]
    BY <2>2 DEF Bits
  <2> QED BY <2>3, TagValues DEF ArgOK
<1>3. ASSUME NEW t \in {1, 4, 7, 9}, NEW v \in {0 - Bits(t) \div 2, 0 - 1, Bits(t) \div 2 - 1}
      PROVE  ArgOK([tag |-> t, v |-> v])
  <2> DEFINE n == PrimitiveSize(t)
             h == Half * Weight[n - 1]
  <2>1. n \in 1 .. 8 /\ n - 1 \in 0 .. 8
    <3>1. n \in 1 .. 8
      BY SizesAgree
    <3> HIDE DEF n
    <3> QED BY <3>1
  <2>2. Weight[n] = ByteBase * Weight[n - 1] /\ Weight[n - 1] \in Nat \ {0}
    BY <2>1, WeightDef
  <2>3. Half \in Nat \ {0} /\ ByteBase = 2 * Half
    BY ByteFacts DEF Half
  <2>4. h \in Nat /\ h >= 1 /\ Weight[n] = 2 * h
    <3> DEFINE w == Weight[n - 1]
    <3>1. w \in Nat \ {0} /\ Weight[n] = (2 * Half) * w
      BY <2>2, <2>3
    <3> HIDE DEF w
    <3>2. Half * w \in Nat \ {0} /\ (2 * Half) * w = 2 * (Half * w)
      BY <2>3, <3>1, SMT
    <3> QED BY <3>1, <3>2 DEF w
  <2>5. Bits(t) = 2 * h
    BY <2>4 DEF Bits
  <2> HIDE DEF h
  <2>6. v \in Int /\ 0 - h <= v /\ v < h
    BY <2>4, <2>5
  <2> QED BY <2>6, TagValues DEF ArgOK, h
<1>4. ASSUME NEW k \in Nat PROVE ArgOK([tag |-> 11, v |-> Copies(k % ByteBase, k)])
  <2>1. k % ByteBase \in Bytes
    <3>1. k % ByteBase \in 0 .. ByteBase - 1
      BY ByteFacts, SMT
    <3> QED BY <3>1 DEF Bytes
  <2>2. Copies(k % ByteBase, k) \in Seq(Bytes)
    BY <2>1 DEF Copies
  <2> QED BY <2>2 DEF ArgOK
<1>5. U16Max - 29 \in Nat /\ MAX_RECORD_SIZE = U16Max /\ BASE_RECORD_SIZE = 25
  <2>1. Weight[2] > 143 /\ Weight[2] \in Nat
    <3>1. 2 \in 1 .. 8 /\ 2 > 1 /\ 2 \in 0 .. 8
      OBVIOUS
    <3> QED BY <3>1, WeightLarge, WeightDef
  <2> QED BY <2>1, U16Facts DEF MAX_RECORD_SIZE, BASE_RECORD_SIZE, HEADER_SIZE
<1>6. StringSizes \subseteq Nat
  BY <1>5, U16Facts DEF StringSizes
<1> TAKE a \in ArgValues
<1>7. \/ \E v \in BOOLEAN : a = [tag |-> 10, v |-> v]
      \/ \E t \in {0, 2, 3, 5, 6, 8} : \E v \in {0, 1, Bits(t) - 1} : a = [tag |-> t, v |-> v]
      \/ \E t \in {1, 4, 7, 9} : \E v \in {0 - Bits(t) \div 2, 0 - 1, Bits(t) \div 2 - 1} : a = [tag |-> t, v |-> v]
      \/ \E k \in Nat : a = [tag |-> 11, v |-> Copies(k % ByteBase, k)]
  <2>1. a \in BoolValues \/ a \in UnsignedValues \/ a \in SignedValues \/ a \in StringValues
    BY DEF ArgValues
  <2>2. CASE a \in BoolValues
    BY <2>2, TagValues DEF BoolValues
  <2>3. CASE a \in UnsignedValues
    <3>1. PICK t \in {TAG.U64, TAG.F64, TAG.U32, TAG.F32, TAG.U16, TAG.U8} : a \in UnsignedEnds(t)
      BY <2>3, Zenon DEF UnsignedValues
    <3>2. t \in {0, 2, 3, 5, 6, 8}
      BY TagValues
    <3> QED BY <3>1, <3>2, Zenon DEF UnsignedEnds
  <2>4. CASE a \in SignedValues
    <3>1. PICK t \in SignedTags : a \in SignedEnds(t)
      BY <2>4, Zenon DEF SignedValues
    <3>2. t \in {1, 4, 7, 9}
      BY TagValues
    <3> QED BY <3>1, <3>2 DEF SignedEnds
  <2>5. CASE a \in StringValues
    <3>1. PICK n \in StringSizes : a = [tag |-> 11, v |-> Copies(n % ByteBase, n)]
      BY <2>5, TagValues DEF StringValues
    <3>2. n \in Nat
      BY <1>6
    <3> QED BY <3>1, <3>2
  <2> QED BY <2>1, <2>2, <2>3, <2>4, <2>5
<1> QED BY <1>1, <1>2, <1>3, <1>4, <1>7

\* An input of the part "call" is a list of sample arguments, no more than a
\* count byte can hold.
CallInv == part = "call" => input \in Seq(ArgValues) /\ Len(input) < ByteBase

\* It is in the beginning.
LEMMA CallInvInit == LineInit => CallInv
  BY ByteFacts DEF LineInit, CallInv

\* Each step keeps it so.
LEMMA CallInvStep == CallInv /\ [LineNext]_lineVars => CallInv'
<1> SUFFICES ASSUME CallInv, [LineNext]_lineVars, part' = "call"
             PROVE  input' \in Seq(ArgValues) /\ Len(input') < ByteBase
  BY DEF CallInv
<1>1. CASE UNCHANGED lineVars
  BY <1>1 DEF CallInv, lineVars
<1>2. ASSUME NEW c \in ArgValues, part = "call", input' = Append(input, c), Len(input) < ByteBase - 1
      PROVE  input' \in Seq(ArgValues) /\ Len(input') < ByteBase
  <2>1. input \in Seq(ArgValues)
    BY <1>2 DEF CallInv
  <2>2. Append(input, c) \in Seq(ArgValues) /\ Len(Append(input, c)) = Len(input) + 1
    BY <2>1, AppendProperties, Zenon
  <2>3. Len(input) \in Nat
    BY <2>1
  <2> QED BY <1>2, <2>2, <2>3, ByteFacts
<1>3. CASE GrowCall
  <2>1. PICK c \in ArgValues : input' = Append(input, c)
    BY <1>3 DEF GrowCall, Grow
  <2>2. part = "call" /\ Len(input) < MaxArgs
    BY <1>3 DEF GrowCall, Grow
  <2>3. Len(input) \in Nat
    BY <2>2 DEF CallInv
  <2>4. Len(input) < ByteBase - 1
    BY <2>2, <2>3, LineAssumption, ByteFacts
  <2> QED BY <1>2, <2>1, <2>2, <2>4
<1>4. CASE GrowFlags
  <2>1. TrueArg \in ArgValues
    <3>1. \E v \in BOOLEAN : TrueArg = [tag |-> TAG.BOOL, v |-> v]
      <4>1. TRUE \in BOOLEAN /\ TrueArg = [tag |-> TAG.BOOL, v |-> TRUE]
        BY Zenon DEF TrueArg
      <4> QED BY <4>1, Zenon
    <3>2. TrueArg \in BoolValues
      BY <3>1, Zenon DEF BoolValues
    <3> QED BY <3>2, Zenon DEF ArgValues
  <2> QED BY <1>2, <1>4, <2>1 DEF GrowFlags
<1>5. CASE GrowFmt \/ GrowSpec \/ GrowPattern \/ PickInteger \/ NextDay
  BY <1>5 DEF GrowFmt, GrowSpec, GrowPattern, Grow, PickInteger, NextDay
<1> QED BY <1>1, <1>3, <1>4, <1>5 DEF LineNext

\* What a call leaves in the ring.
Called(level, ts, site, args) ==
  LET size == BASE_RECORD_SIZE + Len(write_args(args))
      r == ticklog_log(level, Trace, ts, site, args)
  IN /\ size \in Nat
     /\ size > U16Max => r = <<>>
     /\ size <= U16Max =>
          /\ CallArgs(args) /\ Len(r) = size
          /\ r = Record(level, ts, FLAG_SITE, size, site, 0, 0, 0, <<>>, args)

\* The record that a logging call leaves: as long as its header says, or none.
LEMMA CallRecord ==
  ASSUME NEW level \in 1 .. 5, NEW ts \in Nat, ts < Weight[8], NEW site \in Nat, site < Weight[8],
         NEW args \in Seq(ArgValues), Len(args) < ByteBase
  PROVE  Called(level, ts, site, args)
<1> DEFINE size == BASE_RECORD_SIZE + Len(write_args(args))
           n == Len(args)
           S == ToLE(site, 8)
           H == Header(level, ts, FLAG_SITE, size)
           W == write_args(args)
<1>1. n \in Nat /\ n % ByteBase = n
  <2>1. n \in Nat
    OBVIOUS
  <2> QED BY <2>1, Fits, ByteFacts
<1>2. \A i \in 1 .. n : ArgOK(args[i])
  BY SampleArgs
<1>3. /\ Payload(args) \in Seq(Bytes) /\ args_encoded_size(args) = Len(Payload(args))
  BY <1>2, PayloadSize
<1>4. /\ W \in Seq(Bytes) /\ Len(W) = n + Len(Payload(args))
  <2>1. TagsOf(args) \in Seq(Bytes) /\ Len(TagsOf(args)) = n
    <3>1. \A i \in 1 .. n : args[i].tag \in Bytes
      BY <1>2, TagByte
    <3>2. TagsOf(args) \in [1 .. n -> Bytes]
      BY <3>1 DEF TagsOf
    <3> QED BY <1>1, <3>2
  <2>2. W = TagsOf(args) \o Payload(args)
    BY DEF write_args, TagsOf
  <2> QED BY <1>3, <2>1, <2>2, Joined
<1>5. /\ BASE_RECORD_SIZE = 25 /\ Len(W) \in Nat /\ size \in Nat /\ Len(Payload(args)) \in Nat
      /\ size = BASE_RECORD_SIZE + (n % ByteBase) + args_encoded_size(args)
  BY <1>1, <1>3, <1>4 DEF BASE_RECORD_SIZE, HEADER_SIZE
<1>6. ticklog_log(level, Trace, ts, site, args) =
        IF size > U16Max THEN <<>> ELSE assemble(level, ts, FLAG_SITE, site, n, size, args)
  <2>1. ~(level > Trace) /\ (Oversize(size) <=> size > U16Max)
    BY DEF Trace, Oversize, MAX_RECORD_SIZE
  <2>2. ticklog_log(level, Trace, ts, site, args) =
          IF level > Trace \/ Oversize(size) THEN <<>> ELSE assemble(level, ts, FLAG_SITE, site, n, size, args)
    BY <1>1, <1>5, Zenon DEF ticklog_log
  <2> QED BY <2>1, <2>2, Zenon
<1>7. ASSUME size <= U16Max PROVE CallArgs(args)
  <2>1. Len(Payload(args)) <= U16Max
    BY <1>1, <1>4, <1>5, <1>7, U16Facts
  <2>2. \A i \in 1 .. n : args[i].tag = 11 => Len(args[i].v) <= U16Max
    BY <1>2, <2>1, StringsFit
  <2>3. args \in Seq({args[i] : i \in DOMAIN args})
    BY <1>1
  <2> QED BY <1>2, <2>2, <2>3 DEF CallArgs
<1>8. /\ Has(FLAG_SITE, FLAG_SITE) /\ ~Has(FLAG_SITE, FLAG_SOURCE) /\ ~Has(FLAG_SITE, FLAG_THREAD)
      /\ ~Has(FLAG_SITE, FLAG_PROCESS) /\ ~Has(FLAG_SITE, FLAG_COMPLEX)
  BY DEF Has, FLAG_SITE, FLAG_SOURCE, FLAG_THREAD, FLAG_PROCESS, FLAG_COMPLEX
<1>9. LegacySections(FLAG_SITE, 0, 0, 0, <<>>) = <<>>
  <2>1. <<>> \o <<>> = <<>>
    OBVIOUS
  <2> QED BY <1>8, <2>1 DEF LegacySections
<1>10. H \in Seq(Bytes) /\ Len(H) = 16
  <2>1. FLAG_SITE \in 0 .. 31
    BY DEF FLAG_SITE
  <2> HIDE DEF size
  <2> QED BY <1>5, <2>1, HeaderHeld
<1>11. S \in Seq(Bytes) /\ Len(S) = 8
  BY WordRead
<1>12. <<n>> \in Seq(Bytes) /\ Len(<<n>>) = 1
  BY <1>1, CountByte
<1>13. /\ assemble(level, ts, FLAG_SITE, site, n, size, args) = ((H \o S) \o <<n>>) \o W
       /\ Record(level, ts, FLAG_SITE, size, site, 0, 0, 0, <<>>, args) = (((H \o S) \o <<>>) \o <<n>>) \o W
  BY <1>8, <1>9, Zenon DEF assemble, Record
<1> HIDE DEF H, S, W
<1>14. H \o S \in Seq(Bytes) /\ Len(H \o S) = 24
  <2>1. H \o S \in Seq(Bytes) /\ Len(H \o S) = Len(H) + Len(S)
    BY <1>10, <1>11, ConcatProperties, Zenon
  <2> QED BY <1>10, <1>11, <2>1
<1>15. (H \o S) \o <<>> = H \o S
  BY <1>14
<1>16. (H \o S) \o <<n>> \in Seq(Bytes) /\ Len((H \o S) \o <<n>>) = 25
  <2> DEFINE HS == H \o S
  <2>1. HS \in Seq(Bytes) /\ Len(HS) = 24
    BY <1>14
  <2> HIDE DEF HS
  <2>2. HS \o <<n>> \in Seq(Bytes) /\ Len(HS \o <<n>>) = 25
    <3>1. HS \o <<n>> \in Seq(Bytes) /\ Len(HS \o <<n>>) = Len(HS) + Len(<<n>>)
      BY <1>12, <2>1, ConcatProperties, Zenon
    <3> QED BY <1>12, <2>1, <3>1
  <2> QED BY <2>2 DEF HS
<1>17. Len(((H \o S) \o <<n>>) \o W) = 25 + Len(W)
  <2> DEFINE X == (H \o S) \o <<n>>
  <2>1. X \in Seq(Bytes) /\ Len(X) = 25
    BY <1>16
  <2> HIDE DEF X
  <2>2. Len(X \o W) = 25 + Len(W)
    BY <1>4, <2>1, Joined
  <2> QED BY <2>2 DEF X
<1>18. size = 25 + Len(W)
  BY <1>5 DEF W
<1> HIDE DEF size
<1>19. ASSUME size <= U16Max
       PROVE  LET r == ticklog_log(level, Trace, ts, site, args)
              IN /\ CallArgs(args) /\ Len(r) = size
                 /\ r = Record(level, ts, FLAG_SITE, size, site, 0, 0, 0, <<>>, args)
  <2>1. ticklog_log(level, Trace, ts, site, args) = ((H \o S) \o <<n>>) \o W
    <3>1. ~(size > U16Max)
      BY <1>5, <1>19, U16Facts
    <3> QED BY <1>6, <1>13, <3>1, Zenon
  <2>2. Record(level, ts, FLAG_SITE, size, site, 0, 0, 0, <<>>, args) = ((H \o S) \o <<n>>) \o W
    BY <1>13, <1>15, Zenon
  <2>3. Len(ticklog_log(level, Trace, ts, site, args)) = size
    BY <1>17, <1>18, <2>1, Zenon
  <2> QED BY <1>7, <1>19, <2>1, <2>2, <2>3, Zenon
<1>20. size > U16Max => ticklog_log(level, Trace, ts, site, args) = <<>>
  BY <1>6, Zenon
<1> QED BY <1>5, <1>19, <1>20, Zenon DEF size, Called

\* So every call of Line comes back.
LEMMA CallsRoundTrip == CallInv => CallRoundTrip
<1> SUFFICES ASSUME CallInv, part = "call" PROVE CallRoundTrip
  BY DEF CallRoundTrip
<1> DEFINE size == BASE_RECORD_SIZE + Len(write_args(input))
           Comes(r, flags, level) ==
             LET h == DecodeHeader(r)
                 b == ReadBack(h.tags, r, h.at)
             IN /\ <<h.level, h.ts, h.site>> = <<level, 17, IF Has(flags, FLAG_SITE) THEN <<5>> ELSE <<>> >>
                /\ h.source = IF Has(flags, FLAG_SOURCE) THEN <<[file |-> 5, line |-> 9]>> ELSE <<>>
                /\ h.thread = IF Has(flags, FLAG_THREAD) THEN <<[id |-> 3, name |-> <<1, 2>>]>> ELSE <<>>
                /\ ~b.panic /\ b.args = input /\ b.at = Len(r)
           Call(level) == ticklog_log(level, Trace, 17, 5, input)
           Older(level, flags) ==
             Header(level, 17, flags, 0)
               \o (IF Has(flags, FLAG_SITE) THEN ToLE(5, 8) ELSE <<>>)
               \o LegacySections(flags, 5, 9, 3, <<1, 2>>)
               \o <<Len(input)>> \o write_args(input)
<1>1. input \in Seq(ArgValues) /\ Len(input) < ByteBase
  BY DEF CallInv
<1>2. /\ 17 \in Nat /\ 17 < Weight[8] /\ 5 \in Nat /\ 5 < Weight[8] /\ 9 \in Nat /\ 9 < Weight[4]
      /\ 3 \in Nat /\ 3 < Weight[8] /\ 0 \in Nat /\ 0 < Weight[8] /\ 0 < Weight[4]
  <2>1. 8 \in 1 .. 8 /\ 4 \in 1 .. 8 /\ 8 > 1 /\ 4 > 1
    OBVIOUS
  <2>2. Weight[8] > 143 /\ Weight[4] > 143 /\ Weight[8] \in Nat /\ Weight[4] \in Nat
    BY <2>1, WeightLarge, WeightDef
  <2> QED BY <2>2
<1>3. FieldsFit(5, 5, 9, 3, <<1, 2>>) /\ FieldsFit(5, 0, 0, 0, <<>>)
  <2>1. <<1, 2>> \in Seq(Bytes) /\ <<>> \in Seq(Bytes)
    BY ByteFacts DEF Bytes
  <2>2. Len(<<1, 2>>) = 2 /\ Len(<<>>) = 0 /\ 2 <= U16Max /\ 0 <= U16Max
    <3>1. 2 \in 1 .. 8 /\ 2 > 1
      OBVIOUS
    <3>2. Weight[2] > 143 /\ Weight[2] \in Nat
      BY <3>1, WeightLarge, WeightDef
    <3> QED BY <3>2, U16Facts
  <2> QED BY <1>2, <2>1, <2>2 DEF FieldsFit
<1>4. FLAG_SITE \in 0 .. 31 /\ ~Has(FLAG_SITE, FLAG_SOURCE) /\ ~Has(FLAG_SITE, FLAG_THREAD)
  BY DEF Has, FLAG_SITE, FLAG_SOURCE, FLAG_THREAD
<1>5. ASSUME NEW level \in {Error, Trace} PROVE level \in 1 .. 5
  BY DEF Error, Trace
<1>6. ASSUME NEW r, NEW level, NEW flags, NEW file, NEW line, NEW thread, NEW name, NEW at,
             DecodeHeader(r) = DecodedHeader(level, 17, flags, 5, file, line, thread, name, TagsOf(input), at),
             ReadBack(TagsOf(input), r, at) = [args |-> input, at |-> Len(r), panic |-> FALSE],
             Has(flags, FLAG_SOURCE) => file = 5 /\ line = 9,
             Has(flags, FLAG_THREAD) => thread = 3 /\ name = <<1, 2>>
      PROVE  Comes(r, flags, level)
  <2> DEFINE h == DecodeHeader(r)
             b == ReadBack(h.tags, r, h.at)
  <2>1. /\ h.level = level /\ h.ts = 17 /\ h.tags = TagsOf(input) /\ h.at = at
        /\ h.site = (IF Has(flags, FLAG_SITE) THEN <<5>> ELSE <<>>)
    BY <1>6 DEF DecodedHeader
  <2>2. h.source = IF Has(flags, FLAG_SOURCE) THEN <<[file |-> 5, line |-> 9]>> ELSE <<>>
    <3>1. h.source = IF Has(flags, FLAG_SOURCE) THEN <<[file |-> file, line |-> line]>> ELSE <<>>
      BY <1>6 DEF DecodedHeader
    <3> QED BY <1>6, <3>1, Zenon
  <2>3. h.thread = IF Has(flags, FLAG_THREAD) THEN <<[id |-> 3, name |-> <<1, 2>>]>> ELSE <<>>
    <3>1. h.thread = IF Has(flags, FLAG_THREAD) THEN <<[id |-> thread, name |-> name]>> ELSE <<>>
      BY <1>6 DEF DecodedHeader
    <3> QED BY <1>6, <3>1, Zenon
  <2>4. b = [args |-> input, at |-> Len(r), panic |-> FALSE]
    BY <1>6, <2>1, Zenon
  <2> HIDE DEF h
  <2>5. ~b.panic /\ b.args = input /\ b.at = Len(r)
    <3> HIDE DEF b
    <3> QED BY <2>4
  <2> QED BY <2>1, <2>2, <2>3, <2>5, Zenon DEF h
<1>7. ASSUME NEW level \in {Error, Trace}
      PROVE  /\ size \in Nat
             /\ size > U16Max => Call(level) = <<>>
             /\ size <= U16Max =>
                  /\ CallArgs(input) /\ Len(Call(level)) = size
                  /\ Call(level) = Record(level, 17, FLAG_SITE, size, 5, 0, 0, 0, <<>>, input)
  <2>1. Called(level, 17, 5, input)
    BY <1>1, <1>2, <1>5, CallRecord
  <2> QED BY <2>1, Zenon DEF Called
<1>8. ASSUME NEW level \in {Error, Trace}, size <= U16Max
      PROVE  /\ Len(Call(level)) = size /\ CapturedTotalSize(Call(level)) = size
             /\ CapturedFlags(Call(level)) = FLAG_SITE /\ CapturedTicks(Call(level)) = 17
             /\ Comes(Call(level), FLAG_SITE, level)
  <2> DEFINE r == Call(level)
             R == Record(level, 17, FLAG_SITE, size, 5, 0, 0, 0, <<>>, input)
  <2>1. size \in Nat /\ CallArgs(input) /\ Len(r) = size /\ r = R
    BY <1>7, <1>8, Zenon
  <2>2. level \in 1 .. 5 /\ 17 \in Nat /\ 17 < Weight[8] /\ FLAG_SITE \in 0 .. 31 /\ FieldsFit(5, 0, 0, 0, <<>>)
    BY <1>2, <1>3, <1>4, <1>5, Zenon
  <2> HIDE DEF size
  <2>3. PICK at \in Nat :
           /\ DecodeHeader(R) = DecodedHeader(level, 17, FLAG_SITE, 5, 0, 0, 0, <<>>, TagsOf(input), at)
           /\ ReadBack(TagsOf(input), R, at) = [args |-> input, at |-> Len(R), panic |-> FALSE]
           /\ HeaderRead(R, level, 17, FLAG_SITE, size)
    <3>1. Written(R, level, 17, FLAG_SITE, size, 5, 0, 0, 0, <<>>, input)
      BY <2>1, <2>2, Zenon DEF Written
    <3> HIDE DEF R
    <3> QED BY <3>1, RecordDecodes, Zenon
  <2> HIDE DEF r, R
  <2>4. Comes(r, FLAG_SITE, level)
    <3>1. /\ DecodeHeader(r) = DecodedHeader(level, 17, FLAG_SITE, 5, 0, 0, 0, <<>>, TagsOf(input), at)
          /\ ReadBack(TagsOf(input), r, at) = [args |-> input, at |-> Len(r), panic |-> FALSE]
      BY <2>1, <2>3, Zenon
    <3> HIDE DEF Comes
    <3> QED BY <1>4, <1>6, <3>1, Zenon
  <2>5. size % (U16Max + 1) = size
    <3>1. U16Max + 1 \in Nat \ {0} /\ size < U16Max + 1
      BY <1>8, <2>1, U16Facts
    <3> QED BY <2>1, <3>1, Fits, Zenon
  <2>6. CapturedTotalSize(r) = size /\ CapturedFlags(r) = FLAG_SITE /\ CapturedTicks(r) = 17
    BY <2>1, <2>3, <2>5, Zenon DEF HeaderRead, CapturedTotalSize, CapturedFlags, CapturedTicks
  <2> HIDE DEF Comes
  <2> QED BY <2>1, <2>4, <2>6 DEF r
<1>9. ASSUME NEW level \in {Error, Trace}, size <= U16Max, NEW flags \in 0 .. 31
      PROVE  Comes(Older(level, flags), flags, level)
  <2> DEFINE r == Older(level, flags)
  <2>1. CallArgs(input)
    BY <1>7, <1>9, Zenon
  <2>2. level \in 1 .. 5 /\ 17 \in Nat /\ 17 < Weight[8] /\ 0 \in Nat /\ FieldsFit(5, 5, 9, 3, <<1, 2>>)
    BY <1>2, <1>3, <1>5, Zenon
  <2>3. r = Record(level, 17, flags, 0, 5, 5, 9, 3, <<1, 2>>, input)
    BY Zenon DEF Record
  <2> HIDE DEF r
  <2>4. PICK at \in Nat :
           /\ DecodeHeader(r) = DecodedHeader(level, 17, flags, 5, 5, 9, 3, <<1, 2>>, TagsOf(input), at)
           /\ ReadBack(TagsOf(input), r, at) = [args |-> input, at |-> Len(r), panic |-> FALSE]
           /\ HeaderRead(r, level, 17, flags, 0)
    <3>1. Written(r, level, 17, flags, 0, 5, 5, 9, 3, <<1, 2>>, input)
      BY <2>1, <2>2, <2>3, Zenon DEF Written
    <3> QED BY <3>1, RecordDecodes, Zenon
  <2> HIDE DEF Comes
  <2>5. Comes(r, flags, level)
    BY <1>6, <2>4, Zenon
  <2> QED BY <2>5 DEF r
<1>10. \A level \in {Error, Trace} :
         IF size > U16Max THEN Call(level) = <<>>
         ELSE /\ Len(Call(level)) = size /\ CapturedTotalSize(Call(level)) = size
              /\ CapturedFlags(Call(level)) = FLAG_SITE /\ CapturedTicks(Call(level)) = 17
              /\ Comes(Call(level), FLAG_SITE, level)
              /\ Len(input) <= 1 => \A flags \in 0 .. 31 : Comes(Older(level, flags), flags, level)
  <2> TAKE level \in {Error, Trace}
  <2> HIDE DEF Comes, Call, Older
  <2>1. size \in Nat /\ (size > U16Max => Call(level) = <<>>)
    BY <1>7, Zenon
  <2>2. CASE size > U16Max
    BY <2>1, <2>2, Zenon
  <2>3. CASE ~(size > U16Max)
    <3>1. size <= U16Max
      <4> HIDE DEF size
      <4> QED BY <2>1, <2>3, U16Facts
    <3> QED BY <1>8, <1>9, <2>3, <3>1, Zenon
  <2> QED BY <2>2, <2>3
<1> QED BY <1>10, Zenon DEF CallRoundTrip

\* The run's property, for every size of a byte and every bound on the number of
\* arguments: a call that Line makes, whose record fits a u16, comes back from
\* the drain's cursor as it was made, with the cursor at the end of the record,
\* and one that does not fit leaves no record (dispatch, encode.rs,
\* decode_and_format).  RecordDecodes is about any record.
THEOREM LineCallsRoundTrip == LineSpec => []CallRoundTrip
<1>1. LineInit => CallInv
  BY CallInvInit
<1>2. CallInv /\ [LineNext]_lineVars => CallInv'
  BY CallInvStep
<1>3. CallInv => CallRoundTrip
  BY CallsRoundTrip
<1> QED BY <1>1, <1>2, <1>3, PTL DEF LineSpec

-----------------------------------------------------------------------------
(* Integers.                                                                *)

\* Taking the last digit off a number of two digits or more.
LEMMA Quotient ==
  ASSUME NEW x \in Nat, NEW b \in Nat, b > 1
  PROVE  \E q \in Nat, r \in 0 .. b - 1 :
           x \div b = q /\ x % b = r /\ x = b * q + r /\ (x >= b => q >= 1 /\ q < x)
<1> DEFINE q == x \div b
           r == x % b
<1>1. q \in Int /\ r \in Int /\ 0 <= r /\ r < b /\ x = b * q + r
  BY SMT
<1> HIDE DEF q, r
<1>2. q >= 0
  <2> SUFFICES ASSUME q <= -1 PROVE FALSE
    BY <1>1
  <2>1. b * (-1 - q) >= 0
    BY <1>1, SMT
  <2>2. b * (-1 - q) = -b - b * q
    BY <1>1, SMT
  <2> QED BY <1>1, <2>1, <2>2
<1>3. ASSUME x >= b PROVE q >= 1 /\ q < x
  <2>1. q >= 1
    <3> SUFFICES ASSUME q = 0 PROVE FALSE
      BY <1>1, <1>2
    <3>1. b * q = 0
      BY SMT
    <3> QED BY <1>1, <1>3, <3>1
  <2>2. (b - 2) * q >= 0
    BY <1>1, <2>1, SMT
  <2>3. (b - 2) * q = b * q - 2 * q
    BY <1>1, SMT
  <2>4. b * q \in Int
    BY <1>1, SMT
  <2> QED BY <1>1, <2>1, <2>2, <2>3, <2>4
<1>4. q \in Nat /\ r \in 0 .. b - 1 /\ x = b * q + r /\ (x >= b => q >= 1 /\ q < x)
  BY <1>1, <1>2, <1>3
<1>5. x \div b = q /\ x % b = r
  BY DEF q, r
<1> QED BY <1>4, <1>5, Zenon

\* f follows the recursion of DigitsIn up to n.
DigitsUpTo(f, n, b) ==
  f = [x \in 0 .. n |-> IF x < b THEN <<Digit(x)>> ELSE f[x \div b] \o <<Digit(x % b)>>]

\* There is such a function, so DigitsIn is one of its values.
LEMMA DigitsRecursion ==
  ASSUME NEW v \in Nat, NEW b \in Nat, b > 1
  PROVE  \E f : DigitsUpTo(f, v, b) /\ DigitsIn(v, b) = f[v]
<1> DEFINE T == {n \in 0 .. v : \E f : DigitsUpTo(f, n, b)}
<1>1. 0 \in T
  <2> DEFINE f == [x \in 0 .. 0 |-> <<Digit(0)>>]
  <2>1. f[0] = <<Digit(0)>>
    OBVIOUS
  <2>2. f = [x \in 0 .. 0 |-> IF x < b THEN <<Digit(x)>> ELSE f[x \div b] \o <<Digit(x % b)>>]
    <3>1. \A x \in 0 .. 0 : x = 0 /\ x < b
      OBVIOUS
    <3> HIDE DEF f
    <3>2. \A x \in 0 .. 0 : f[x] = IF x < b THEN <<Digit(x)>> ELSE f[x \div b] \o <<Digit(x % b)>>
      BY <2>1, <3>1, Zenon
    <3>3. f = [x \in 0 .. 0 |-> f[x]]
      BY DEF f
    <3> QED BY <3>2, <3>3, Zenon
  <2>3. DigitsUpTo(f, 0, b)
    BY <2>2, Zenon DEF DigitsUpTo
  <2> HIDE DEF f
  <2> QED BY <2>3
<1>2. ASSUME NEW m \in T, m < v PROVE m + 1 \in T
  <2>1. PICK f : DigitsUpTo(f, m, b)
    OBVIOUS
  <2>2. m \in Nat /\ m + 1 \in 0 .. v /\ m + 1 \in Nat
    BY <1>2
  <2> DEFINE k == m + 1
             Body(h, x) == IF x < b THEN <<Digit(x)>> ELSE h[x \div b] \o <<Digit(x % b)>>
             g == [x \in 0 .. k |-> IF x = k THEN Body(f, k) ELSE f[x]]
  <2>3. \A x \in 0 .. m : f[x] = Body(f, x)
    BY <2>1 DEF DigitsUpTo
  <2>4. \A x \in 0 .. k : x >= b => x \div b \in 0 .. m
    <3> TAKE x \in 0 .. k
    <3> HAVE x >= b
    <3>1. x \in Nat
      OBVIOUS
    <3>2. PICK q \in Nat, r \in 0 .. b - 1 :
            x \div b = q /\ x % b = r /\ x = b * q + r /\ (x >= b => q >= 1 /\ q < x)
      BY <3>1, Quotient, Zenon
    <3>3. q < x /\ x \div b = q
      BY <3>2, Zenon
    <3>4. q \in 0 .. m
      BY <2>2, <3>1, <3>3
    <3> QED BY <3>3, <3>4, Zenon
  <2>5. \A x \in 0 .. m : x \in 0 .. k /\ x # k
    BY <2>2
  <2>6. \A x \in 0 .. m : g[x] = f[x]
    BY <2>5
  <2>7. k \in 0 .. k /\ g[k] = Body(f, k)
    BY <2>2
  <2>8. g = [x \in 0 .. k |-> g[x]]
    OBVIOUS
  <2> HIDE DEF g
  <2>9. \A x \in 0 .. k : g[x] = Body(g, x)
    <3> TAKE x \in 0 .. k
    <3>1. Body(g, x) = Body(f, x)
      <4>1. CASE x < b
        BY <4>1, Zenon
      <4>2. CASE ~(x < b)
        <5>1. x \div b \in 0 .. m
          BY <2>2, <2>4, <4>2
        <5> QED BY <2>6, <5>1, Zenon
      <4> QED BY <4>1, <4>2
    <3>2. x = k \/ x \in 0 .. m
      BY <2>2
    <3> HIDE DEF Body
    <3> QED BY <2>3, <2>6, <2>7, <3>1, <3>2, Zenon
  <2>10. DigitsUpTo(g, k, b)
    BY <2>8, <2>9, Zenon DEF DigitsUpTo
  <2> QED BY <2>2, <2>10
<1>3. T = 0 .. v
  <2> HIDE DEF T
  <2>1. T \in SUBSET (0 .. v)
    BY DEF T
  <2> QED BY <1>1, <1>2, <2>1, Induction
<1>4. PICK f : DigitsUpTo(f, v, b)
  BY <1>3
<1> DEFINE D(h) == h = [x \in 0 .. v |-> IF x < b THEN <<Digit(x)>> ELSE h[x \div b] \o <<Digit(x % b)>>]
           g == CHOOSE h : D(h)
<1>5. D(f)
  BY <1>4, Zenon DEF DigitsUpTo
<1>6. D(g)
  BY <1>5, Zenon
<1>7. DigitsIn(v, b) = g[v]
  BY Zenon DEF DigitsIn
<1> HIDE DEF g
<1> QED BY <1>6, <1>7, Zenon DEF DigitsUpTo

\* The symbols of the digits below b.
DigitSet(b) == {Digit(k) : k \in 0 .. b - 1}

\* Different digits have different symbols.
LEMMA DigitsDiffer == \A j, k \in 0 .. 15 : Digit(j) = Digit(k) => j = k
<1>1. /\ Digit(0) = "0" /\ Digit(1) = "1" /\ Digit(2) = "2" /\ Digit(3) = "3" /\ Digit(4) = "4"
      /\ Digit(5) = "5" /\ Digit(6) = "6" /\ Digit(7) = "7" /\ Digit(8) = "8" /\ Digit(9) = "9"
      /\ Digit(10) = "a" /\ Digit(11) = "b" /\ Digit(12) = "c" /\ Digit(13) = "d" /\ Digit(14) = "e"
      /\ Digit(15) = "f"
  BY DEF Digit, DigitSymbols
<1> TAKE j, k \in 0 .. 15
<1>2. j \in {0, 1, 2, 3, 4, 5, 6, 7, 8, 9, 10, 11, 12, 13, 14, 15}
  OBVIOUS
<1>3. k \in {0, 1, 2, 3, 4, 5, 6, 7, 8, 9, 10, 11, 12, 13, 14, 15}
  OBVIOUS
<1> QED BY <1>1, <1>2, <1>3

\* And the value of a symbol is its digit.
LEMMA ValueOfDigit == \A k \in 0 .. 15 : Value(Digit(k)) = k
<1> TAKE k \in 0 .. 15
<1>1. \E n \in 0 .. 15 : Digit(n) = Digit(k)
  OBVIOUS
<1>2. Value(Digit(k)) \in 0 .. 15 /\ Digit(Value(Digit(k))) = Digit(k)
  BY <1>1, Zenon DEF Value
<1> QED BY <1>2, DigitsDiffer

\* The value of a digit is below the base.
LEMMA DigitValues ==
  ASSUME NEW b \in 2 .. 16, NEW c \in DigitSet(b)
  PROVE  Value(c) \in 0 .. b - 1 /\ Value(c) \in Nat
<1>1. PICK k \in 0 .. b - 1 : c = Digit(k)
  BY DEF DigitSet
<1>2. k \in 0 .. 15
  OBVIOUS
<1> QED BY <1>1, <1>2, ValueOfDigit

\* Zero is a digit of every base, and only the symbol of zero is "0".
LEMMA ZeroDigit ==
  ASSUME NEW b \in 2 .. 16
  PROVE  "0" \in DigitSet(b) /\ Value("0") = 0 /\ \A k \in 0 .. b - 1 : Digit(k) = "0" => k = 0
<1>1. Digit(0) = "0" /\ 0 \in 0 .. b - 1 /\ 0 \in 0 .. 15
  BY DEF Digit, DigitSymbols
<1>2. \A k \in 0 .. b - 1 : k \in 0 .. 15
  OBVIOUS
<1> QED BY <1>1, <1>2, ValueOfDigit, DigitsDiffer DEF DigitSet

\* num reads the digits s in base b from the left.
ReadsDigits(num, b, s) ==
  /\ num \in [0 .. Len(s) -> Nat] /\ num[0] = 0
  /\ \A i \in 1 .. Len(s) : num[i] = b * num[i - 1] + Value(s[i])

\* There is one such reading, and it ends with the number denoted.
LEMMA Denotes ==
  ASSUME NEW b \in 2 .. 16, NEW s \in Seq(DigitSet(b))
  PROVE  \E num : ReadsDigits(num, b, s) /\ Denoted(b, s) = num[Len(s)]
<1> DEFINE n == Len(s)
           D(f) == f = [i \in 0 .. n |-> IF i = 0 THEN 0 ELSE b * f[i - 1] + Value(s[i])]
           step == [p \in (1 .. n) \X Nat |-> b * p[2] + Value(s[p[1]])]
<1>0. n \in Nat /\ b \in Nat /\ n \in 0 .. n
  OBVIOUS
<1>1. \A i \in 1 .. n, v \in Nat : step[<<i, v>>] = b * v + Value(s[i]) /\ step[<<i, v>>] \in Nat
  <2> TAKE i \in 1 .. n, v \in Nat
  <2>0. s[i] \in DigitSet(b)
    OBVIOUS
  <2>1. Value(s[i]) \in Nat
    BY <2>0, DigitValues
  <2>2. Value(s[i]) + b * v \in Nat /\ b * v \in Nat
    BY <1>0, <2>1, Product
  <2>3. b * v + Value(s[i]) \in Nat
    BY <2>1, <2>2
  <2> QED BY <2>3
<1> HIDE DEF step, n
<1>3. PICK f : Recursive(f, n, Nat, 0, step)
  BY <1>0, <1>1, Recursion
<1>6. D(f)
  <2>1. f \in [0 .. n -> Nat] /\ f[0] = 0 /\ \A i \in 1 .. n : f[i] = step[<<i, f[i - 1]>>]
    BY <1>3 DEF Recursive
  <2>2. \A i \in 1 .. n : i - 1 \in 0 .. n
    BY <1>0
  <2>3. \A i \in 1 .. n : f[i] = b * f[i - 1] + Value(s[i])
    BY <1>1, <2>1, <2>2
  <2>4. \A i \in 0 .. n : f[i] = IF i = 0 THEN 0 ELSE b * f[i - 1] + Value(s[i])
    <3> TAKE i \in 0 .. n
    <3>1. i = 0 \/ (i # 0 /\ i \in 1 .. n)
      BY <1>0
    <3> QED BY <2>1, <2>3, <3>1, Zenon
  <2>5. f = [i \in 0 .. n |-> f[i]]
    BY <2>1
  <2> QED BY <2>4, <2>5, Zenon
<1> DEFINE g == CHOOSE h : D(h)
<1>7. D(g)
  BY <1>6, Zenon
<1>8. Denoted(b, s) = g[n]
  BY Zenon DEF Denoted, n
<1> HIDE DEF g
<1>9. /\ g = [i \in 0 .. n |-> g[i]] /\ g[0] = 0
      /\ \A i \in 1 .. n : g[i] = b * g[i - 1] + Value(s[i])
  <2>1. \A i \in 1 .. n : i \in 0 .. n /\ i # 0
    BY <1>0
  <2>2. 0 \in 0 .. n
    BY <1>0
  <2>3. \A i \in 0 .. n : g[i] = IF i = 0 THEN 0 ELSE b * g[i - 1] + Value(s[i])
    BY <1>7, Zenon
  <2>4. g = [i \in 0 .. n |-> g[i]]
    BY <1>7
  <2> QED BY <2>1, <2>2, <2>3, <2>4, Zenon
<1>10. \A i \in 1 .. n : g[i - 1] \in Nat => g[i] = step[<<i, g[i - 1]>>]
  BY <1>1, <1>9, Zenon
<1>11. Recursive(g, n, Nat, 0, step)
  BY <1>0, <1>1, <1>9, <1>10, Recursed
<1>12. g \in [0 .. n -> Nat]
  BY <1>11 DEF Recursive
<1>13. ReadsDigits(g, b, s)
  BY <1>9, <1>12 DEF ReadsDigits, n
<1> QED BY <1>8, <1>13 DEF n

\* f reads s and g reads t, whose first m digits are those of s after the k-th,
\* where f has read nothing but zeros.
BothRead(b, s, f, k, t, g, m) ==
  /\ b \in 2 .. 16 /\ s \in Seq(DigitSet(b)) /\ t \in Seq(DigitSet(b))
  /\ ReadsDigits(f, b, s) /\ ReadsDigits(g, b, t)
  /\ k \in Nat /\ m \in Nat /\ m + k <= Len(s) /\ m <= Len(t)
  /\ f[k] = 0 /\ \A i \in 1 .. m : s[k + i] = t[i]

\* Two readings of the same digits agree.
LEMMA ReadingsAgree ==
  ASSUME NEW b, NEW s, NEW t, NEW f, NEW g, NEW k, NEW m, BothRead(b, s, f, k, t, g, m)
  PROVE  f[k + m] = g[m]
<1>0. /\ b \in 2 .. 16 /\ s \in Seq(DigitSet(b)) /\ t \in Seq(DigitSet(b))
      /\ ReadsDigits(f, b, s) /\ ReadsDigits(g, b, t)
      /\ k \in Nat /\ m \in Nat /\ m + k <= Len(s) /\ m <= Len(t)
      /\ f[k] = 0 /\ \A i \in 1 .. m : s[k + i] = t[i]
  BY DEF BothRead
<1> USE <1>0
<1> DEFINE T == {i \in 0 .. m : f[k + i] = g[i]}
<1>1. 0 \in T
  <2>1. g[0] = 0 /\ k + 0 = k
    BY DEF ReadsDigits
  <2> QED BY <2>1
<1>2. ASSUME NEW i \in T, i < m PROVE i + 1 \in T
  <2>1. /\ i + 1 \in 1 .. m /\ i + 1 \in 0 .. m /\ (i + 1) - 1 = i /\ i + 1 \in 1 .. Len(t)
        /\ k + (i + 1) \in 1 .. Len(s) /\ (k + (i + 1)) - 1 = k + i /\ f[k + i] = g[i]
    BY <1>2
  <2>2. f[k + (i + 1)] = b * f[(k + (i + 1)) - 1] + Value(s[k + (i + 1)])
    BY <2>1, Zenon DEF ReadsDigits
  <2>3. g[i + 1] = b * g[(i + 1) - 1] + Value(t[i + 1])
    BY <2>1, Zenon DEF ReadsDigits
  <2>4. s[k + (i + 1)] = t[i + 1]
    BY <2>1, Zenon
  <2>5. f[k + (i + 1)] = g[i + 1]
    BY <2>1, <2>2, <2>3, <2>4, Zenon
  <2> QED BY <2>1, <2>5
<1>3. T = 0 .. m
  <2> HIDE DEF T
  <2>1. T \in SUBSET (0 .. m)
    BY DEF T
  <2> QED BY <1>1, <1>2, <2>1, Induction
<1>4. m \in T
  BY <1>3
<1> QED BY <1>4

\* A digit more.
LEMMA DenotedAppend ==
  ASSUME NEW b \in 2 .. 16, NEW s \in Seq(DigitSet(b)), NEW c \in DigitSet(b)
  PROVE  Denoted(b, s \o <<c>>) = b * Denoted(b, s) + Value(c)
<1> DEFINE t == s \o <<c>>
           n == Len(s)
<1>1. /\ t \in Seq(DigitSet(b)) /\ Len(t) = n + 1 /\ n \in Nat /\ t[n + 1] = c
      /\ \A i \in 1 .. n : t[0 + i] = s[i]
  <2>1. <<c>> \in Seq(DigitSet(b)) /\ Len(<<c>>) = 1
    OBVIOUS
  <2>2. t \in Seq(DigitSet(b)) /\ Len(t) = n + Len(<<c>>)
    BY <2>1, ConcatProperties, Zenon
  <2> QED BY <2>1, <2>2
<1> HIDE DEF t, n
<1>2. PICK f : ReadsDigits(f, b, t) /\ Denoted(b, t) = f[Len(t)]
  BY <1>1, Denotes
<1>3. PICK g : ReadsDigits(g, b, s) /\ Denoted(b, s) = g[Len(s)]
  BY Denotes
<1>4. f[0 + n] = g[n]
  <2>0. PICK k : k = 0
    OBVIOUS
  <2>1. f[k] = 0 /\ k \in Nat /\ n + k <= Len(t) /\ n <= Len(s) /\ \A i \in 1 .. n : t[k + i] = s[i]
    BY <1>1, <1>2, <2>0 DEF ReadsDigits, n
  <2>2. BothRead(b, t, f, k, s, g, n)
    BY <1>1, <1>2, <1>3, <2>1, Zenon DEF BothRead
  <2>3. f[k + n] = g[n]
    BY <2>2, ReadingsAgree
  <2> QED BY <2>0, <2>3
<1>5. n + 1 \in 1 .. Len(t) /\ (n + 1) - 1 = n /\ 0 + n = n
  BY <1>1
<1>6. f[n + 1] = b * f[(n + 1) - 1] + Value(t[n + 1])
  BY <1>2, <1>5, Zenon DEF ReadsDigits
<1>7. Denoted(b, t) = f[n + 1] /\ Denoted(b, s) = g[n]
  BY <1>1, <1>2, <1>3 DEF n
<1>8. f[(n + 1) - 1] = g[n] /\ t[n + 1] = c
  BY <1>1, <1>4, <1>5
<1> QED BY <1>6, <1>7, <1>8, Zenon DEF t

\* s writes x in base b without needless zeros.
IsNumeral(s, b, x) ==
  /\ s \in Seq(DigitSet(b)) /\ Len(s) >= 1 /\ Denoted(b, s) = x
  /\ s[1] = "0" => x = 0 /\ Len(s) = 1

\* No digits denote zero.
LEMMA DenotedNone == ASSUME NEW b \in 2 .. 16 PROVE Denoted(b, <<>>) = 0
<1> DEFINE e == <<>>
<1>1. e \in Seq(DigitSet(b)) /\ Len(e) = 0
  OBVIOUS
<1> HIDE DEF e
<1>2. PICK num : ReadsDigits(num, b, e) /\ Denoted(b, e) = num[Len(e)]
  BY <1>1, Denotes
<1>3. num[0] = 0
  BY <1>2 DEF ReadsDigits
<1> QED BY <1>1, <1>2, <1>3, Zenon DEF e

\* One digit is a numeral.
LEMMA OneDigit ==
  ASSUME NEW b \in 2 .. 16, NEW k \in 0 .. b - 1
  PROVE  IsNumeral(<<Digit(k)>>, b, k)
<1> DEFINE c == Digit(k)
           e == <<>>
<1>1. c \in DigitSet(b)
  BY DEF DigitSet
<1>2. k \in 0 .. 15 /\ b \in Nat /\ k \in Nat /\ b * 0 = 0
  OBVIOUS
<1>3. Value(c) = k
  BY <1>2, ValueOfDigit
<1>4. c = "0" => k = 0
  BY ZeroDigit
<1> HIDE DEF c
<1>5. e \in Seq(DigitSet(b)) /\ e \o <<c>> = <<c>> /\ <<c>> \in Seq(DigitSet(b)) /\ Len(<<c>>) = 1 /\ <<c>>[1] = c
  BY <1>1
<1>6. Denoted(b, e) = 0
  BY DenotedNone
<1> HIDE DEF e
<1>7. Denoted(b, e \o <<c>>) = b * Denoted(b, e) + Value(c)
  BY <1>1, <1>5, DenotedAppend
<1>8. b * Denoted(b, e) + Value(c) = b * 0 + k
  BY <1>3, <1>6, Zenon
<1>9. Denoted(b, <<c>>) = k
  <2>1. b * 0 + k = k
    BY <1>2
  <2> QED BY <1>5, <1>7, <1>8, <2>1, Zenon
<1>10. Len(<<c>>) >= 1
  BY <1>5
<1>11. IsNumeral(<<c>>, b, k)
  BY <1>4, <1>5, <1>9, <1>10, Zenon DEF IsNumeral
<1> QED BY <1>11 DEF c

\* A digit behind the numeral of a positive number makes a numeral.
LEMMA MoreDigits ==
  ASSUME NEW b \in 2 .. 16, NEW q \in Nat, q >= 1, NEW s, IsNumeral(s, b, q), NEW r \in 0 .. b - 1
  PROVE  IsNumeral(s \o <<Digit(r)>>, b, b * q + r)
<1> DEFINE c == Digit(r)
           t == s \o <<c>>
<1>1. c \in DigitSet(b)
  BY DEF DigitSet
<1>2. r \in 0 .. 15 /\ b \in Nat /\ r \in Nat
  OBVIOUS
<1>3. Value(c) = r
  BY <1>2, ValueOfDigit
<1> HIDE DEF c
<1>4. s \in Seq(DigitSet(b)) /\ Len(s) >= 1 /\ Denoted(b, s) = q /\ s[1] # "0"
  BY DEF IsNumeral
<1>5. t \in Seq(DigitSet(b)) /\ Len(t) = Len(s) + 1 /\ t[1] = s[1] /\ Len(t) >= 1
  BY <1>1, <1>4
<1>6. Denoted(b, t) = b * Denoted(b, s) + Value(c)
  BY <1>1, <1>4, DenotedAppend
<1> HIDE DEF t
<1>7. Denoted(b, t) = b * q + r
  BY <1>3, <1>4, <1>6, Zenon
<1>8. IsNumeral(t, b, b * q + r)
  BY <1>4, <1>5, <1>7, Zenon DEF IsNumeral
<1> QED BY <1>8 DEF t, c

\* What core::fmt writes of a number denotes it.
LEMMA DigitsDenote ==
  ASSUME NEW b \in 2 .. 16, NEW v \in Nat
  PROVE  IsNumeral(DigitsIn(v, b), b, v)
<1>0. b \in Nat /\ b > 1
  OBVIOUS
<1>1. PICK f : DigitsUpTo(f, v, b) /\ DigitsIn(v, b) = f[v]
  BY <1>0, DigitsRecursion
<1>2. \A x \in 0 .. v : f[x] = IF x < b THEN <<Digit(x)>> ELSE f[x \div b] \o <<Digit(x % b)>>
  BY <1>1, Zenon DEF DigitsUpTo
<1> DEFINE Good(x) == IsNumeral(f[x], b, x)
           T == {n \in 0 .. v : \A x \in 0 .. n : Good(x)}
<1>3. ASSUME NEW x \in 0 .. v, \A y \in 0 .. v : y < x => Good(y) PROVE Good(x)
  <2>0. x \in Nat
    OBVIOUS
  <2>1. CASE x < b
    <3>1. x \in 0 .. b - 1
      BY <1>0, <2>1
    <3>2. f[x] = <<Digit(x)>>
      BY <1>2, <2>1
    <3> QED BY <3>1, <3>2, OneDigit
  <2>2. CASE ~(x < b)
    <3>1. PICK q \in Nat, r \in 0 .. b - 1 :
            x \div b = q /\ x % b = r /\ x = b * q + r /\ (x >= b => q >= 1 /\ q < x)
      BY <1>0, <2>0, Quotient, Zenon
    <3>2. x >= b
      BY <1>0, <2>0, <2>2
    <3>3. q >= 1 /\ q < x /\ x = b * q + r
      BY <3>1, <3>2, Zenon
    <3>4. f[x] = f[q] \o <<Digit(r)>>
      BY <1>2, <2>2, <3>1, Zenon
    <3>5. q \in 0 .. v
      <4>1. q < x
        BY <3>3
      <4> QED BY <4>1
    <3>6. IsNumeral(f[q], b, q)
      BY <1>3, <3>3, <3>5, Zenon
    <3>7. IsNumeral(f[q] \o <<Digit(r)>>, b, b * q + r)
      BY <3>3, <3>6, MoreDigits, Zenon
    <3> QED BY <3>3, <3>4, <3>7, Zenon
  <2> QED BY <2>1, <2>2
<1> HIDE DEF Good
<1>4. 0 \in T
  <2>1. \A y \in 0 .. v : ~(y < 0)
    OBVIOUS
  <2>2. 0 \in 0 .. v /\ \A x \in 0 .. 0 : x = 0
    OBVIOUS
  <2>3. Good(0)
    BY <1>3, <2>1, <2>2, Zenon
  <2> QED BY <2>2, <2>3, Zenon
<1>5. ASSUME NEW m \in T, m < v PROVE m + 1 \in T
  <2>1. m \in 0 .. v /\ \A x \in 0 .. m : Good(x)
    BY Zenon
  <2>2. m + 1 \in 0 .. v
    BY <1>5, <2>1
  <2>3. \A y \in 0 .. v : y < m + 1 => y \in 0 .. m
    BY <2>1
  <2>4. Good(m + 1)
    BY <1>3, <2>1, <2>2, <2>3, Zenon
  <2>5. \A x \in 0 .. m + 1 : x = m + 1 \/ x \in 0 .. m
    BY <2>1
  <2>6. \A x \in 0 .. m + 1 : Good(x)
    BY <2>1, <2>4, <2>5, Zenon
  <2> QED BY <2>2, <2>6, Zenon
<1>6. T = 0 .. v
  <2> HIDE DEF T
  <2>1. T \in SUBSET (0 .. v)
    BY DEF T
  <2> QED BY <1>4, <1>5, <2>1, Induction
<1>7. v \in T /\ v \in 0 .. v
  BY <1>6
<1>8. Good(v)
  BY <1>7, Zenon
<1> QED BY <1>1, <1>8, Zenon DEF Good

\* Leading zeros change nothing.
LEMMA LeadingZeros ==
  ASSUME NEW b \in 2 .. 16, NEW s \in Seq(DigitSet(b)), NEW z \in Nat
  PROVE  Copies("0", z) \o s \in Seq(DigitSet(b)) /\ Denoted(b, Copies("0", z) \o s) = Denoted(b, s)
<1> DEFINE o == Copies("0", z)
           t == o \o s
<1>1. "0" \in DigitSet(b) /\ Value("0") = 0
  BY ZeroDigit
<1>2. o \in Seq(DigitSet(b)) /\ Len(o) = z /\ \A i \in 1 .. z : o[i] = "0"
  BY <1>1 DEF Copies
<1> HIDE DEF o
<1>3. t \in Seq(DigitSet(b)) /\ Len(t) = z + Len(s) /\ Len(s) \in Nat
  BY <1>2
<1>4. \A i \in 1 .. z : t[i] = "0"
  BY <1>2
<1>5. \A i \in 1 .. Len(s) : t[z + i] = s[i]
  BY <1>2
<1> HIDE DEF t
<1>6. PICK f : ReadsDigits(f, b, t) /\ Denoted(b, t) = f[Len(t)]
  BY <1>3, Denotes
<1>7. PICK g : ReadsDigits(g, b, s) /\ Denoted(b, s) = g[Len(s)]
  BY Denotes
<1> DEFINE T == {i \in 0 .. z : f[i] = 0}
<1>8. 0 \in T
  BY <1>6 DEF ReadsDigits
<1>9. ASSUME NEW m \in T, m < z PROVE m + 1 \in T
  <2>1. m \in Nat /\ m + 1 \in 0 .. z /\ m + 1 \in 1 .. z /\ m + 1 \in 1 .. Len(t) /\ (m + 1) - 1 = m
    BY <1>3, <1>9
  <2>2. f[m + 1] = b * f[(m + 1) - 1] + Value(t[m + 1])
    BY <1>6, <2>1, Zenon DEF ReadsDigits
  <2>3. f[(m + 1) - 1] = 0 /\ Value(t[m + 1]) = 0
    BY <1>1, <1>4, <2>1
  <2>4. f[m + 1] = b * 0 + 0
    BY <2>2, <2>3, Zenon
  <2>5. b * 0 + 0 = 0
    OBVIOUS
  <2> QED BY <2>1, <2>4, <2>5, Zenon
<1>10. T = 0 .. z
  <2> HIDE DEF T
  <2>1. T \in SUBSET (0 .. z)
    BY DEF T
  <2> QED BY <1>8, <1>9, <2>1, Induction
<1>11. f[z] = 0
  BY <1>10
<1>12. Len(s) + z <= Len(t) /\ Len(s) <= Len(s) /\ z + Len(s) = Len(t)
  BY <1>3
<1>13. BothRead(b, t, f, z, s, g, Len(s))
  BY <1>3, <1>5, <1>6, <1>7, <1>11, <1>12, Zenon DEF BothRead
<1>14. f[z + Len(s)] = g[Len(s)]
  BY <1>13, ReadingsAgree
<1> QED BY <1>3, <1>6, <1>7, <1>12, <1>14, Zenon DEF t, o

\* The larger of two numbers.
LEMMA MaxOf ==
  ASSUME NEW a \in Int, NEW b \in Int
  PROVE  Max({a, b}) = (IF a >= b THEN a ELSE b)
<1> DEFINE m == IF a >= b THEN a ELSE b
           P(x) == x \in {a, b} /\ \A y \in {a, b} : x >= y
<1>1. P(m)
  OBVIOUS
<1>2. \A x : P(x) => x = m
  OBVIOUS
<1>3. Max({a, b}) = CHOOSE x \in {a, b} : \A y \in {a, b} : x >= y
  BY DEF Max
<1> QED BY <1>1, <1>2, <1>3

\* Digits are among the symbols of digits.
LEMMA DigitSymbol ==
  ASSUME NEW b \in 2 .. 16 PROVE DigitSet(b) \subseteq Range(DigitSymbols)
<1> SUFFICES ASSUME NEW k \in 0 .. b - 1 PROVE Digit(k) \in Range(DigitSymbols)
  BY DEF DigitSet
<1>1. k + 1 \in 1 .. 16 /\ DOMAIN DigitSymbols = 1 .. 16
  BY DEF DigitSymbols
<1> HIDE DEF DigitSymbols
<1> QED BY <1>1 DEF Digit, Range

\* A run of copies.
LEMMA CopiesSeq ==
  ASSUME NEW S, NEW c \in S, NEW n \in Nat
  PROVE  Copies(c, n) \in Seq(S) /\ Len(Copies(c, n)) = n /\ \A i \in 1 .. n : Copies(c, n)[i] = c
BY DEF Copies

\* The symbols of two texts joined.
AreJoined(s, a, b) ==
  /\ Len(s) = Len(a) + Len(b)
  /\ \A i \in 1 .. Len(s) : s[i] = IF i <= Len(a) THEN a[i] ELSE b[i - Len(a)]

\* A concatenation is its two texts joined.
LEMMA JoinedTexts ==
  ASSUME NEW S, NEW a \in Seq(S), NEW b \in Seq(S)
  PROVE  a \o b \in Seq(S) /\ AreJoined(a \o b, a, b)
BY DEF AreJoined

\* out is h and t between l and m copies of c.
Framed(out, c, l, h, t, m) ==
  /\ Len(out) = l + Len(h) + Len(t) + m
  /\ \A i \in 1 .. l : out[i] = c
  /\ \A i \in 1 .. Len(h) : out[l + i] = h[i]
  /\ \A i \in 1 .. Len(t) : out[l + Len(h) + i] = t[i]
  /\ \A i \in 1 .. m : out[l + Len(h) + Len(t) + i] = c

PutTogether(S, out, c, l, h, o, d, m) ==
  /\ h \in Seq(S) /\ o \in Seq(S) /\ d \in Seq(S) /\ c \in S /\ l \in Nat /\ m \in Nat
  /\ out = Copies(c, l) \o (h \o o \o d) \o Copies(c, m)

\* Head, zeros and digits between two runs of padding are such a text.
LEMMA FramedText ==
  ASSUME NEW S, NEW out, NEW c, NEW l, NEW h, NEW o, NEW d, NEW m, PutTogether(S, out, c, l, h, o, d, m)
  PROVE  out \in Seq(S) /\ Framed(out, c, l, h, o \o d, m)
<1>b. /\ h \in Seq(S) /\ o \in Seq(S) /\ d \in Seq(S) /\ c \in S /\ l \in Nat /\ m \in Nat
      /\ out = Copies(c, l) \o (h \o o \o d) \o Copies(c, m)
  BY DEF PutTogether
<1> USE <1>b
<1> DEFINE p == Copies(c, l)
           r == Copies(c, m)
           t == o \o d
           x == h \o o
           y == x \o d
           u == p \o y
<1>a. out = u \o r
  OBVIOUS
<1>1. p \in Seq(S) /\ Len(p) = l /\ \A i \in 1 .. l : p[i] = c
  BY CopiesSeq
<1>2. r \in Seq(S) /\ Len(r) = m /\ \A i \in 1 .. m : r[i] = c
  BY CopiesSeq
<1> HIDE DEF p, r
<1>3. /\ t \in Seq(S) /\ Len(t) = Len(o) + Len(d)
      /\ \A i \in 1 .. Len(t) : t[i] = IF i <= Len(o) THEN o[i] ELSE d[i - Len(o)]
  OBVIOUS
<1>4. /\ x \in Seq(S) /\ Len(x) = Len(h) + Len(o)
      /\ \A i \in 1 .. Len(x) : x[i] = IF i <= Len(h) THEN h[i] ELSE o[i - Len(h)]
  OBVIOUS
<1> HIDE DEF x
<1>5. /\ y \in Seq(S) /\ Len(y) = Len(x) + Len(d)
      /\ \A i \in 1 .. Len(y) : y[i] = IF i <= Len(x) THEN x[i] ELSE d[i - Len(x)]
  <2>1. y \in Seq(S) /\ AreJoined(y, x, d)
    BY <1>4, JoinedTexts, Zenon
  <2> QED BY <2>1, Zenon DEF AreJoined
<1> HIDE DEF y
<1>6. /\ u \in Seq(S) /\ Len(u) = l + Len(y)
      /\ \A i \in 1 .. Len(u) : u[i] = IF i <= l THEN p[i] ELSE y[i - l]
  <2>1. u \in Seq(S) /\ AreJoined(u, p, y)
    BY <1>1, <1>5, JoinedTexts, Zenon
  <2> QED BY <1>1, <2>1, Zenon DEF AreJoined
<1> HIDE DEF u
<1>7. /\ out \in Seq(S) /\ Len(out) = Len(u) + m
      /\ \A i \in 1 .. Len(out) : out[i] = IF i <= Len(u) THEN u[i] ELSE r[i - Len(u)]
  <2>1. out \in Seq(S) /\ AreJoined(out, u, r)
    BY <1>2, <1>6, <1>a, JoinedTexts, Zenon
  <2> QED BY <1>2, <2>1, Zenon DEF AreJoined
<1> HIDE DEF t
<1>0. Len(h) \in Nat /\ Len(o) \in Nat /\ Len(d) \in Nat /\ l \in Nat /\ m \in Nat
  OBVIOUS
<1> HIDE <1>b
<1>8. Len(out) = l + Len(h) + Len(t) + m /\ Len(u) = l + Len(h) + Len(t) /\ Len(t) \in Nat
  BY <1>0, <1>3, <1>4, <1>5, <1>6, <1>7
<1>9. \A i \in 1 .. Len(t) : y[Len(h) + i] = t[i]
  <2> TAKE i \in 1 .. Len(t)
  <2>1. Len(h) + i \in 1 .. Len(y)
    BY <1>0, <1>3, <1>4, <1>5
  <2>2. CASE i <= Len(o)
    <3>1. Len(h) + i \in 1 .. Len(x) /\ Len(h) + i <= Len(x) /\ ~(Len(h) + i <= Len(h)) /\ (Len(h) + i) - Len(h) = i
      BY <1>0, <1>4, <2>2
    <3> QED BY <1>3, <1>4, <1>5, <2>1, <2>2, <3>1, Zenon
  <2>3. CASE ~(i <= Len(o))
    <3>1. ~(Len(h) + i <= Len(x)) /\ (Len(h) + i) - Len(x) = i - Len(o)
      BY <1>0, <1>4, <2>3
    <3> QED BY <1>3, <1>5, <2>1, <2>3, <3>1, Zenon
  <2> QED BY <2>2, <2>3
<1>10. \A i \in 1 .. Len(h) : y[i] = h[i]
  <2> TAKE i \in 1 .. Len(h)
  <2>1. i \in 1 .. Len(y) /\ i <= Len(x) /\ i \in 1 .. Len(x) /\ i <= Len(h)
    BY <1>0, <1>4, <1>5
  <2> QED BY <1>4, <1>5, <2>1, Zenon
<1>11. \A i \in 1 .. Len(y) : out[l + i] = y[i]
  <2> TAKE i \in 1 .. Len(y)
  <2>1. /\ l + i \in 1 .. Len(out) /\ l + i <= Len(u) /\ l + i \in 1 .. Len(u) /\ ~(l + i <= l)
        /\ (l + i) - l = i
    BY <1>0, <1>4, <1>5, <1>6, <1>7
  <2> QED BY <1>6, <1>7, <2>1, Zenon
<1>12. \A i \in 1 .. l : out[i] = c
  <2> TAKE i \in 1 .. l
  <2>1. i \in 1 .. Len(out) /\ i <= Len(u) /\ i \in 1 .. Len(u) /\ i <= l
    BY <1>0, <1>4, <1>5, <1>6, <1>7
  <2> QED BY <1>1, <1>6, <1>7, <2>1, Zenon
<1>13. \A i \in 1 .. m : out[l + Len(h) + Len(t) + i] = c
  <2> TAKE i \in 1 .. m
  <2>1. /\ l + Len(h) + Len(t) + i \in 1 .. Len(out) /\ ~(l + Len(h) + Len(t) + i <= Len(u))
        /\ (l + Len(h) + Len(t) + i) - Len(u) = i
    BY <1>0, <1>8
  <2> QED BY <1>2, <1>7, <2>1, Zenon
<1>14. \A i \in 1 .. Len(h) : out[l + i] = h[i]
  <2> TAKE i \in 1 .. Len(h)
  <2>1. i \in 1 .. Len(y)
    BY <1>0, <1>4, <1>5
  <2> QED BY <1>10, <1>11, <2>1, Zenon
<1>15. \A i \in 1 .. Len(t) : out[l + Len(h) + i] = t[i]
  <2> TAKE i \in 1 .. Len(t)
  <2>1. Len(h) + i \in 1 .. Len(y) /\ l + (Len(h) + i) = l + Len(h) + i
    BY <1>0, <1>3, <1>4, <1>5
  <2>2. out[l + (Len(h) + i)] = y[Len(h) + i]
    BY <1>11, <2>1, Zenon
  <2> QED BY <1>9, <2>1, <2>2, Zenon
<1>16. out \in Seq(S) /\ Framed(out, c, l, h, t, m)
  BY <1>7, <1>8, <1>12, <1>13, <1>14, <1>15, Zenon DEF Framed
<1> QED BY <1>16, Zenon DEF t

\* The parts of such a text.
Parted(out, c, l, h, t, m) ==
  LET n == Len(out) - l - m
      core == SubSeq(out, l + 1, l + n)
  IN /\ n = Len(h) + Len(t)
     /\ \A i \in (1 .. l) \cup (l + n + 1 .. Len(out)) : out[i] = c
     /\ SubSeq(core, 1, Len(h)) = h /\ SubSeq(core, Len(h) + 1, n) = t

\* The parts of such a text are where PaddedInteger looks for them.
LEMMA FramedParts ==
  ASSUME NEW S, NEW h \in Seq(S), NEW t \in Seq(S), NEW out \in Seq(S), NEW c, NEW l \in Nat, NEW m \in Nat,
         Framed(out, c, l, h, t, m)
  PROVE  Parted(out, c, l, h, t, m)
<1> DEFINE n == Len(out) - l - m
           core == SubSeq(out, l + 1, l + n)
           k == Len(h)
<1>0. k \in Nat /\ Len(t) \in Nat /\ Len(out) = l + k + Len(t) + m /\ n = k + Len(t) /\ n \in Nat
  BY DEF Framed
<1>1. \A i \in 1 .. l : out[i] = c
  BY DEF Framed
<1>2. \A i \in l + n + 1 .. Len(out) : out[i] = c
  <2> TAKE i \in l + n + 1 .. Len(out)
  <2> DEFINE j == i - (l + k + Len(t))
  <2>1. j \in 1 .. m /\ l + k + Len(t) + j = i
    BY <1>0
  <2> HIDE DEF j
  <2> QED BY <2>1, Zenon DEF Framed
<1>3. core \in Seq(S) /\ Len(core) = n /\ \A i \in 1 .. n : core[i] = out[l + i]
  BY <1>0
<1> HIDE DEF core, n
<1>4. SubSeq(core, 1, k) \in Seq(S) /\ Len(SubSeq(core, 1, k)) = k /\ \A i \in 1 .. k : SubSeq(core, 1, k)[i] = core[i]
  BY <1>0, <1>3
<1>5. /\ SubSeq(core, k + 1, n) \in Seq(S) /\ Len(SubSeq(core, k + 1, n)) = Len(t)
      /\ \A i \in 1 .. Len(t) : SubSeq(core, k + 1, n)[i] = core[k + i]
  BY <1>0, <1>3
<1>6. \A i \in 1 .. k : SubSeq(core, 1, k)[i] = h[i]
  <2> TAKE i \in 1 .. k
  <2>1. i \in 1 .. n
    BY <1>0
  <2> QED BY <1>3, <1>4, <2>1, Zenon DEF Framed
<1>7. \A i \in 1 .. Len(t) : SubSeq(core, k + 1, n)[i] = t[i]
  <2> TAKE i \in 1 .. Len(t)
  <2>1. k + i \in 1 .. n /\ l + (k + i) = l + k + i
    BY <1>0
  <2>2. core[k + i] = out[l + k + i]
    BY <1>3, <2>1, Zenon
  <2> QED BY <1>5, <2>2, Zenon DEF Framed
<1>8. SubSeq(core, 1, k) = h
  <2> DEFINE a == SubSeq(core, 1, k)
  <2>1. a \in Seq(S) /\ Len(a) = Len(h) /\ \A i \in 1 .. Len(h) : a[i] = h[i]
    BY <1>4, <1>6
  <2> HIDE DEF a
  <2>2. a = h
    BY <2>1, SeqEqual
  <2> QED BY <2>2 DEF a
<1>9. SubSeq(core, k + 1, n) = t
  <2> DEFINE a == SubSeq(core, k + 1, n)
  <2>1. a \in Seq(S) /\ Len(a) = Len(t) /\ \A i \in 1 .. Len(t) : a[i] = t[i]
    BY <1>5, <1>7
  <2> HIDE DEF a
  <2>2. a = t
    BY <2>1, SeqEqual
  <2> QED BY <2>2 DEF a
<1>10. \A i \in (1 .. l) \cup (l + n + 1 .. Len(out)) : out[i] = c
  BY <1>1, <1>2, Zenon DEF n
<1> QED BY <1>0, <1>8, <1>9, <1>10, Zenon DEF Parted, core, n

Aligns == {None, "Left", "Right", "Center"}

\* Every spec under which IntegerReadsBack is stated: any fill of F, any width
\* and precision.
SpecsOver(F) ==
  [fill : F, align : Aligns, zero_fill : BOOLEAN, width : Nat \cup {Unset},
   precision : Nat \cup {Unset}, alternate : BOOLEAN, type_char : {None, "x", "o", "b"}]

\* Every integer of every type of integer.
IntegerArgs ==
  {a \in [tag : {TAG.U64, TAG.U32, TAG.U16, TAG.U8} \cup SignedTags, v : Int] : a.tag \in SignedTags \/ a.v >= 0}

\* Where format_with_spec puts the padding.
Sided(spec, l, m) ==
  /\ spec.zero_fill /\ spec.align \in {None, "Right"} => m = 0
  /\ ~spec.zero_fill => CASE spec.align = "Right" -> m = 0
                          [] spec.align = "Center" -> m - l \in {0, 1}
                          [] OTHER -> l = 0

FillOf(spec) == IF spec.zero_fill THEN "0" ELSE spec.fill

IsPadded(out, s, spec, l, m) ==
  /\ out = Copies(FillOf(spec), l) \o s \o Copies(FillOf(spec), m)
  /\ l + m = Max({0, spec.width - Len(s)}) /\ Sided(spec, l, m)

\* format_with_spec pads to the width, on the sides the spec names.
LEMMA PaddingSides ==
  ASSUME NEW F, NEW spec \in SpecsOver(F), NEW S, NEW s \in Seq(S)
  PROVE  \E l, m \in Nat : IsPadded(format_with_spec(s, spec), s, spec, l, m)
<1> DEFINE c == IF spec.zero_fill THEN "0" ELSE spec.fill
           align == IF spec.zero_fill /\ spec.align = None THEN "Right" ELSE spec.align
           padding == Max({0, spec.width - Len(s)})
           left == CASE align = "Right" -> padding
                     [] align = "Center" -> padding \div 2
                     [] OTHER -> 0
<1>1. format_with_spec(s, spec) = Copies(c, left) \o s \o Copies(c, padding - left)
  BY Zenon DEF format_with_spec
<1>2. spec.width \in Int /\ Len(s) \in Nat /\ spec.align \in Aligns /\ spec.zero_fill \in BOOLEAN
  BY DEF SpecsOver, Unset
<1>3. padding \in Nat
  <2>1. 0 \in Int /\ spec.width - Len(s) \in Int
    BY <1>2
  <2>2. padding = IF 0 >= spec.width - Len(s) THEN 0 ELSE spec.width - Len(s)
    BY <2>1, MaxOf, Zenon
  <2> QED BY <2>1, <2>2
<1> HIDE DEF padding
<1>4. align \in Aligns /\ (~spec.zero_fill => align = spec.align)
      /\ (spec.zero_fill /\ spec.align \in {None, "Right"} => align = "Right")
  BY <1>2 DEF Aligns, None
<1> HIDE DEF align
<1>5. /\ left \in Nat /\ padding - left \in Nat /\ left + (padding - left) = padding
      /\ align = "Right" => padding - left = 0
      /\ align = "Center" => (padding - left) - left \in {0, 1}
      /\ align \notin {"Right", "Center"} => left = 0
  <2>1. CASE align = "Right"
    BY <1>3, <2>1
  <2>2. CASE align = "Center"
    <3>1. left = padding \div 2
      BY <2>2
    <3> QED BY <1>3, <2>2, <3>1
  <2>3. CASE align \notin {"Right", "Center"}
    BY <1>3, <2>3
  <2> QED BY <2>1, <2>2, <2>3, Zenon
<1> HIDE DEF left, c
<1> DEFINE right == padding - left
<1>6. right \in Nat /\ left + right = padding
  BY <1>5, Zenon
<1>7. spec.zero_fill /\ spec.align \in {None, "Right"} => right = 0
  BY <1>4, <1>5, Zenon
<1>8. ~spec.zero_fill => CASE spec.align = "Right" -> right = 0
                           [] spec.align = "Center" -> right - left \in {0, 1}
                           [] OTHER -> left = 0
  <2> SUFFICES ASSUME ~spec.zero_fill PROVE CASE spec.align = "Right" -> right = 0
                           [] spec.align = "Center" -> right - left \in {0, 1}
                           [] OTHER -> left = 0
    OBVIOUS
  <2>1. spec.align = align
    BY <1>4
  <2>2. align = "Right" => right = 0
    BY <1>5, Zenon
  <2>3. align = "Center" => right - left \in {0, 1}
    BY <1>5, Zenon
  <2>4. align \notin {"Right", "Center"} => left = 0
    BY <1>5, Zenon
  <2>5. "Right" # "Center"
    OBVIOUS
  <2> HIDE DEF right
  <2> QED BY <2>1, <2>2, <2>3, <2>4, <2>5
<1>9. format_with_spec(s, spec) = Copies(c, left) \o s \o Copies(c, right)
  BY <1>1 DEF c
<1> HIDE DEF right
<1>10. IsPadded(format_with_spec(s, spec), s, spec, left, right)
  BY <1>6, <1>7, <1>8, <1>9, Zenon DEF c, padding, FillOf, Sided, IsPadded
<1> QED BY <1>5, <1>6, <1>10, Zenon

\* Head, zeros and digits: what both formatters hand to format_with_spec.
LEMMA FormatsAs ==
  ASSUME NEW F, NEW spec \in SpecsOver(F), NEW arg \in IntegerArgs
  PROVE  /\ FormatValue(arg, spec) =
              format_with_spec(WithPrecision(IntegerHead(arg, spec),
                DigitsIn(Magnitude(arg.v), IntegerBase(arg, spec)), spec), spec)
         /\ IntegerBase(arg, spec) \in 2 .. 16 /\ Magnitude(arg.v) \in Nat
<1>1. arg.v \in Int /\ arg.tag \in {0, 3, 6, 8, 1, 4, 7, 9} /\ (arg.tag \in SignedTags \/ arg.v >= 0)
  BY TagValues DEF IntegerArgs
<1>2. spec.type_char \in {None, "x", "o", "b"} /\ spec.alternate \in BOOLEAN
  BY DEF SpecsOver
<1>3. Magnitude(arg.v) \in Nat
  BY <1>1 DEF Magnitude
<1>4. CASE arg.tag \in SignedTags
  <2>1. FormatValue(arg, spec) = format_signed_impl(arg.v, spec)
    <3>1. /\ arg.tag \in SignedTags /\ arg.tag \notin {TAG.F64, TAG.F32} /\ arg.tag # TAG.BOOL
          /\ arg.tag # TAG.STR
      BY <1>1, <1>4, TagValues
    <3> QED BY <3>1 DEF FormatValue
  <2>2. IntegerBase(arg, spec) = 10
    BY <1>4 DEF IntegerBase
  <2>3. IntegerHead(arg, spec) = IF arg.v < 0 THEN <<"-">> ELSE <<>>
    BY <1>4, Zenon DEF IntegerHead
  <2>4. FormatValue(arg, spec) =
          format_with_spec(WithPrecision(IntegerHead(arg, spec),
            DigitsIn(Magnitude(arg.v), IntegerBase(arg, spec)), spec), spec)
    BY <2>1, <2>2, <2>3, Zenon DEF format_signed_impl, Magnitude
  <2> QED BY <1>3, <2>2, <2>4
<1>5. CASE arg.tag \notin SignedTags
  <2>1. FormatValue(arg, spec) = format_unsigned_impl(arg.v, spec)
    <3>1. /\ arg.tag \notin SignedTags /\ arg.tag \notin {TAG.F64, TAG.F32} /\ arg.tag # TAG.BOOL
          /\ arg.tag # TAG.STR
      BY <1>1, <1>5, TagValues
    <3> QED BY <3>1 DEF FormatValue
  <2>2. Magnitude(arg.v) = arg.v /\ ~(arg.v < 0)
    BY <1>1, <1>5 DEF Magnitude
  <2>3. IntegerBase(arg, spec) = Radix(spec.type_char) /\ Radix(spec.type_char) \in 2 .. 16
    <3>1. IntegerBase(arg, spec) = CASE spec.type_char = "x" -> 16 [] spec.type_char = "o" -> 8
                                     [] spec.type_char = "b" -> 2 [] OTHER -> 10
      BY <1>5 DEF IntegerBase
    <3> QED BY <1>2, <3>1 DEF Radix, None
  <2>4. IntegerHead(arg, spec) = IF spec.alternate THEN Prefix(spec.type_char) ELSE <<>>
    <3>1. IntegerHead(arg, spec) = IF spec.alternate /\ spec.type_char # None THEN <<"0", spec.type_char>> ELSE <<>>
      BY <1>5, <2>2, Zenon DEF IntegerHead
    <3>2. Prefix(spec.type_char) = IF spec.type_char # None THEN <<"0", spec.type_char>> ELSE <<>>
      BY <1>2 DEF Prefix, None
    <3> QED BY <3>1, <3>2, Zenon
  <2>5. FormatValue(arg, spec) =
          format_with_spec(WithPrecision(IntegerHead(arg, spec),
            DigitsIn(Magnitude(arg.v), IntegerBase(arg, spec)), spec), spec)
    BY <2>1, <2>2, <2>3, <2>4, Zenon DEF format_unsigned_impl
  <2> QED BY <1>3, <2>3, <2>5
<1> QED BY <1>4, <1>5

\* The digits of a numeral behind zeros up to the precision.
LEMMA ZerosToPrecision ==
  ASSUME NEW F, NEW spec \in SpecsOver(F), NEW arg \in IntegerArgs, NEW d,
         IsNumeral(d, IntegerBase(arg, spec), Magnitude(arg.v)),
         IntegerBase(arg, spec) \in 2 .. 16
  PROVE  LET z == Max({0, spec.precision - Len(d)})
             t == Copies("0", z) \o d
         IN z \in Nat /\ t \in Seq(DigitSet(IntegerBase(arg, spec))) /\ Len(t) >= 1 /\ DigitsRead(t, arg, spec)
<1> DEFINE b == IntegerBase(arg, spec)
           x == Magnitude(arg.v)
           z == Max({0, spec.precision - Len(d)})
           t == Copies("0", z) \o d
           p == Max({1, spec.precision})
<1>0. b \in 2 .. 16 /\ IsNumeral(d, b, x)
  OBVIOUS
<1> HIDE DEF b, x
<1>1. d \in Seq(DigitSet(b)) /\ Len(d) >= 1 /\ Len(d) \in Nat /\ Denoted(b, d) = x /\ (d[1] = "0" => x = 0 /\ Len(d) = 1)
  BY <1>0 DEF IsNumeral
<1>2. spec.precision \in Int
  BY DEF SpecsOver, Unset
<1>3. z = (IF 0 >= spec.precision - Len(d) THEN 0 ELSE spec.precision - Len(d))
  <2>1. 0 \in Int /\ spec.precision - Len(d) \in Int
    BY <1>1, <1>2
  <2> QED BY <2>1, MaxOf, Zenon
<1>4. p = (IF 1 >= spec.precision THEN 1 ELSE spec.precision)
  <2>1. 1 \in Int
    OBVIOUS
  <2> QED BY <1>2, <2>1, MaxOf, Zenon
<1> HIDE DEF z, p
<1>5. z \in Nat
  BY <1>1, <1>2, <1>3
<1>6. t \in Seq(DigitSet(b)) /\ Denoted(b, t) = Denoted(b, d)
  BY <1>0, <1>1, <1>5, LeadingZeros
<1>7. "0" \in DigitSet(b)
  BY <1>0, ZeroDigit
<1>8. /\ Copies("0", z) \in Seq(DigitSet(b)) /\ Len(Copies("0", z)) = z
      /\ \A i \in 1 .. z : Copies("0", z)[i] = "0"
  BY <1>5, <1>7, CopiesSeq
<1>9. Len(t) = z + Len(d) /\ (z = 0 => t[1] = d[1])
  <2> DEFINE o == Copies("0", z)
  <2>1. t = o \o d /\ o \in Seq(DigitSet(b)) /\ Len(o) = z
    BY <1>8
  <2> HIDE DEF o, t
  <2>2. Len(t) = Len(o) + Len(d) /\ \A i \in 1 .. Len(t) : t[i] = IF i <= Len(o) THEN o[i] ELSE d[i - Len(o)]
    BY <1>1, <2>1, JoinedTexts, Zenon DEF AreJoined
  <2>3. Len(t) = z + Len(d)
    BY <2>1, <2>2
  <2>4. ASSUME z = 0 PROVE t[1] = d[1]
    <3>1. 1 \in 1 .. Len(t) /\ ~(1 <= Len(o)) /\ 1 - Len(o) = 1
      BY <1>1, <2>1, <2>3, <2>4
    <3>2. t[1] = d[1 - Len(o)]
      BY <2>2, <3>1, Zenon
    <3> QED BY <3>1, <3>2
  <2> QED BY <2>3, <2>4
<1> HIDE DEF t
<1>10. Len(t) >= p /\ Len(t) >= 1 /\ (t[1] = "0" => Len(t) = p)
  <2>1. Len(t) >= p /\ Len(t) >= 1
    BY <1>1, <1>2, <1>3, <1>4, <1>9
  <2>2. ASSUME t[1] = "0" PROVE Len(t) = p
    <3>1. CASE z = 0
      <4>1. Len(d) = 1
        BY <1>1, <1>9, <2>2, <3>1
      <4> QED BY <1>1, <1>2, <1>3, <1>4, <1>9, <3>1, <4>1
    <3>2. CASE z # 0
      BY <1>1, <1>2, <1>3, <1>4, <1>9, <3>2
    <3> QED BY <3>1, <3>2
  <2> QED BY <2>1, <2>2
<1>11. \A i \in DOMAIN t : t[i] \in Range(DigitSymbols)
  <2>1. DigitSet(b) \subseteq Range(DigitSymbols)
    BY <1>0, DigitSymbol
  <2>2. \A i \in DOMAIN t : t[i] \in DigitSet(b)
    BY <1>6
  <2> QED BY <2>1, <2>2, Zenon
<1>12. DigitsRead(t, arg, spec)
  BY <1>1, <1>6, <1>10, <1>11, Zenon DEF DigitsRead, b, x, p
<1> QED BY <1>5, <1>6, <1>10, <1>12, Zenon DEF t, z, b

\* For every type of integer, every value and every spec, the text of the
\* integer reads back; the zero flag, which pads before a sign or a prefix too,
\* where there is neither and the text is not set left or centred
\* (format_unsigned_impl, format_signed_impl, format_with_spec).
THEOREM IntegersReadBack ==
  ASSUME NEW F, NEW spec \in SpecsOver(F), NEW arg \in IntegerArgs
  PROVE  ReadsBack(arg, spec)
<1> DEFINE b == IntegerBase(arg, spec)
           h == IntegerHead(arg, spec)
           d == DigitsIn(Magnitude(arg.v), b)
           z == Max({0, spec.precision - Len(d)})
           o == Copies("0", z)
           t == o \o d
           body == h \o o \o d
           c == FillOf(spec)
           S == DigitSet(b) \cup {"-", "0", spec.type_char, c}
           out == FormatValue(arg, spec)
<1>1. out = format_with_spec(body, spec) /\ b \in 2 .. 16 /\ IsNumeral(d, b, Magnitude(arg.v))
  <2>1. /\ out = format_with_spec(WithPrecision(h, d, spec), spec)
        /\ b \in 2 .. 16 /\ Magnitude(arg.v) \in Nat
    BY FormatsAs
  <2>2. WithPrecision(h, d, spec) = body
    BY Zenon DEF WithPrecision
  <2>3. IsNumeral(d, b, Magnitude(arg.v))
    BY <2>1, DigitsDenote
  <2> QED BY <2>1, <2>2, <2>3, Zenon
<1>2. z \in Nat /\ t \in Seq(DigitSet(b)) /\ Len(t) >= 1 /\ DigitsRead(t, arg, spec)
  BY <1>1, ZerosToPrecision, Zenon
<1>3. d \in Seq(DigitSet(b))
  BY <1>1, Zenon DEF IsNumeral
<1>4. h \in Seq(S)
  <2>1. "-" \in S /\ "0" \in S /\ spec.type_char \in S
    BY Zenon
  <2>2. h \in {<<"-">>, <<"0", spec.type_char>>, <<>>}
    BY Zenon DEF IntegerHead
  <2> HIDE DEF S, h
  <2>3. <<>> \in Seq(S) /\ \A a, e \in S : <<a>> \in Seq(S) /\ <<a, e>> \in Seq(S)
    OBVIOUS
  <2> QED BY <2>1, <2>2, <2>3, Zenon
<1> HIDE DEF b, h, d, z, out, c
<1>5. d \in Seq(S) /\ t \in Seq(S) /\ o \in Seq(S) /\ c \in S
  <2>1. "0" \in S /\ c \in S /\ DigitSet(b) \subseteq S
    OBVIOUS
  <2>2. \A s \in Seq(DigitSet(b)) : s \in Seq(S)
    <3> HIDE DEF S
    <3> QED BY <2>1
  <2>3. o \in Seq(S)
    BY <1>2, <2>1, CopiesSeq
  <2> QED BY <1>2, <1>3, <2>1, <2>2, <2>3, Zenon
<1> HIDE DEF S, o
<1>6. body \in Seq(S)
  <2>1. h \o o \in Seq(S)
    BY <1>4, <1>5, JoinedTexts
  <2> QED BY <1>5, <2>1, JoinedTexts
<1>7. PICK l, m \in Nat : IsPadded(format_with_spec(body, spec), body, spec, l, m)
  <2> HIDE DEF body
  <2> QED BY <1>6, PaddingSides, Zenon
<1>8. out \in Seq(S) /\ Framed(out, c, l, h, t, m)
  <2>1. out = Copies(c, l) \o (h \o o \o d) \o Copies(c, m)
    BY <1>1, <1>7, Zenon DEF IsPadded, c
  <2>2. PutTogether(S, out, c, l, h, o, d, m)
    BY <1>4, <1>5, <2>1, Zenon DEF PutTogether
  <2> QED BY <2>2, FramedText, Zenon
<1> HIDE DEF body, t
<1>9. /\ Len(out) - l - m = Len(h) + Len(t) /\ Len(out) = l + Len(h) + Len(t) + m
      /\ Len(h) \in Nat /\ Len(t) \in Nat /\ Len(body) = Len(h) + Len(t)
  <2>1. Len(out) = l + Len(h) + Len(t) + m
    BY <1>8 DEF Framed
  <2>2. Len(h) \in Nat /\ Len(t) \in Nat /\ Len(o) \in Nat /\ Len(d) \in Nat
    BY <1>4, <1>5
  <2>3. Len(t) = Len(o) + Len(d)
    BY <1>5, JoinedTexts, Zenon DEF AreJoined, t
  <2>4. Len(body) = Len(h \o o) + Len(d) /\ Len(h \o o) = Len(h) + Len(o)
    <3>1. h \o o \in Seq(S) /\ AreJoined(h \o o, h, o)
      BY <1>4, <1>5, JoinedTexts, Zenon
    <3>2. AreJoined(body, h \o o, d)
      BY <1>5, <3>1, JoinedTexts, Zenon DEF body
    <3> QED BY <3>1, <3>2, Zenon DEF AreJoined
  <2> QED BY <2>1, <2>2, <2>3, <2>4
<1>10. PaddedInteger(out, l, m, c, arg, spec)
  <2> DEFINE n == Len(out) - l - m
             core == SubSeq(out, l + 1, l + n)
  <2>1. /\ n = Len(h) + Len(t)
        /\ \A i \in (1 .. l) \cup (l + n + 1 .. Len(out)) : out[i] = c
        /\ SubSeq(core, 1, Len(h)) = h /\ SubSeq(core, Len(h) + 1, n) = t
    <3>1. Parted(out, c, l, h, t, m)
      BY <1>4, <1>5, <1>8, FramedParts, Zenon
    <3> QED BY <3>1, Zenon DEF Parted
  <2>2. n > Len(h) /\ n \in Int
    BY <1>2, <1>9
  <2>3. Len(out) = Max({n, spec.width})
    <3>1. spec.width \in Int
      BY DEF SpecsOver, Unset
    <3>2. Max({n, spec.width}) = (IF n >= spec.width THEN n ELSE spec.width)
      BY <2>2, <3>1, MaxOf, Zenon
    <3>3. l + m = (IF 0 >= spec.width - Len(body) THEN 0 ELSE spec.width - Len(body))
      <4>1. 0 \in Int /\ spec.width - Len(body) \in Int
        BY <1>9, <3>1
      <4> QED BY <1>7, <4>1, MaxOf, Zenon DEF IsPadded
    <3> QED BY <1>9, <3>1, <3>2, <3>3
  <2>4. DigitsRead(SubSeq(core, Len(h) + 1, n), arg, spec)
    BY <1>2, <2>1, Zenon
  <2> QED BY <2>1, <2>2, <2>3, <2>4, Zenon DEF PaddedInteger, h
<1>11. l \in 0 .. Len(out) - 1 /\ m \in 0 .. Len(out) - 1 /\ l + m < Len(out)
  BY <1>2, <1>9
<1>12. CASE spec.zero_fill
  <2>1. c = "0"
    BY <1>12 DEF c, FillOf
  <2>2. ASSUME h = <<>>, spec.align \in {None, "Right"}
        PROVE  \E k \in 0 .. Len(out) - 1 : PaddedInteger(out, k, 0, "0", arg, spec)
    <3>1. m = 0
      BY <1>7, <1>12, <2>2, Zenon DEF IsPadded, Sided
    <3>2. PaddedInteger(out, l, 0, "0", arg, spec)
      BY <1>10, <2>1, <3>1, Zenon
    <3> QED BY <1>11, <3>2, Zenon
  <2> QED BY <1>12, <2>2, Zenon DEF ReadsBack, h, out
<1>13. CASE ~spec.zero_fill
  <2>1. c = spec.fill
    BY <1>13 DEF c, FillOf
  <2>2. PaddedInteger(out, l, m, spec.fill, arg, spec)
    BY <1>10, <2>1, Zenon
  <2>3. (CASE spec.align = "Right" -> m = 0
           [] spec.align = "Center" -> m - l \in {0, 1}
           [] OTHER -> l = 0)
    BY <1>7, <1>13, Zenon DEF IsPadded, Sided
  <2> QED BY <1>11, <1>13, <2>2, <2>3, Zenon DEF ReadsBack, out
<1>14. spec.zero_fill \in BOOLEAN
  BY DEF SpecsOver
<1> QED BY <1>12, <1>13

\* The value part holds one of the sample integers with one of the sample specs.
ValueInv ==
  part = "value" =>
    input = <<>> \/ \E a \in IntegerValues, spec \in IntegerSpecs : input = <<[arg |-> a, spec |-> spec]>>

\* It holds at first.
LEMMA ValueInvInit == LineInit => ValueInv
BY DEF LineInit, ValueInv

\* And each step keeps it so.
LEMMA ValueInvStep == ValueInv /\ [LineNext]_lineVars => ValueInv'
<1> SUFFICES ASSUME ValueInv, [LineNext]_lineVars PROVE ValueInv'
  OBVIOUS
<1>1. CASE UNCHANGED lineVars
  BY <1>1 DEF ValueInv, lineVars
<1>2. CASE GrowFmt \/ GrowSpec \/ GrowPattern \/ GrowCall
  BY <1>2 DEF GrowFmt, GrowSpec, GrowPattern, GrowCall, Grow, ValueInv
<1>3. CASE GrowFlags
  BY <1>3 DEF GrowFlags, ValueInv
<1>4. CASE PickInteger
  BY <1>4, Zenon DEF PickInteger, ValueInv
<1>5. CASE NextDay
  BY <1>5 DEF NextDay, ValueInv
<1> QED BY <1>1, <1>2, <1>3, <1>4, <1>5 DEF LineNext

\* The samples are integers and specs of the theorem above.
LEMMA SampleIntegers == IntegerValues \subseteq IntegerArgs /\ IntegerSpecs \subseteq SpecsOver({" ", "*"})
<1>1. ASSUME NEW a \in IntegerValues PROVE a \in IntegerArgs
  <2>1. TAG.U8 = 8 /\ TAG.I8 = 9 /\ SignedTags = {1, 4, 7, 9}
    BY TagValues
  <2>2. a.v \in Int /\ a = [tag |-> a.tag, v |-> a.v] /\ ((a.tag = TAG.U8 /\ a.v >= 0) \/ a.tag = TAG.I8)
    BY <2>1 DEF IntegerValues
  <2> QED BY <2>1, <2>2 DEF IntegerArgs
<1>2. ASSUME NEW s \in IntegerSpecs PROVE s \in SpecsOver({" ", "*"})
  <2>1. /\ s.fill \in {" ", "*"} /\ s.align \in Aligns /\ s.zero_fill \in BOOLEAN
        /\ s.alternate \in BOOLEAN /\ s.type_char \in {None, "x", "o", "b"}
    BY DEF IntegerSpecs, Aligns
  <2>2. s.width \in {Unset, 0, 2, 7} /\ s.precision \in {Unset, 0, 2, 4}
    BY DEF IntegerSpecs
  <2>3. s.width \in Nat \cup {Unset} /\ s.precision \in Nat \cup {Unset}
    BY <2>2
  <2>4. s = [fill |-> s.fill, align |-> s.align, zero_fill |-> s.zero_fill, width |-> s.width,
             precision |-> s.precision, alternate |-> s.alternate, type_char |-> s.type_char]
    BY DEF IntegerSpecs
  <2> QED BY <2>1, <2>3, <2>4 DEF SpecsOver
<1> QED BY <1>1, <1>2

\* The run's property, from the theorem above.
THEOREM LineIntegersReadBack == LineSpec => []IntegerReadsBack
<1>1. ValueInv => IntegerReadsBack
  <2> SUFFICES ASSUME ValueInv, part = "value", input # <<>>
               PROVE  ReadsBack(input[1].arg, input[1].spec)
    BY DEF IntegerReadsBack
  <2>1. PICK a \in IntegerValues, spec \in IntegerSpecs : input = <<[arg |-> a, spec |-> spec]>>
    BY DEF ValueInv
  <2>2. input[1].arg = a /\ input[1].spec = spec
    BY <2>1
  <2>3. a \in IntegerArgs /\ spec \in SpecsOver({" ", "*"})
    BY SampleIntegers, Zenon
  <2>4. ReadsBack(a, spec)
    BY <2>3, IntegersReadBack, Zenon
  <2> QED BY <2>2, <2>4, Zenon
<1> QED BY <1>1, ValueInvInit, ValueInvStep, PTL DEF LineSpec

-----------------------------------------------------------------------------
(* Specs.                                                                  *)

\* The closing brace of a placeholder.
Brace == "}"

\* Digits from i to just before j, and none at j.
StopsAt(s, i, j) ==
  /\ j \in i .. Len(s) + 1
  /\ \A k \in i .. j - 1 : s[k] \in Digits
  /\ j <= Len(s) => s[j] \notin Digits

\* There is one such place.
LEMMA StopsOnce ==
  ASSUME NEW s, Len(s) \in Nat, NEW i \in Nat, NEW j, NEW k, StopsAt(s, i, j), StopsAt(s, i, k)
  PROVE  j = k
<1>1. j \in Nat /\ k \in Nat /\ i <= j /\ i <= k /\ j <= Len(s) + 1 /\ k <= Len(s) + 1
  BY DEF StopsAt
<1>2. ASSUME j < k PROVE FALSE
  <2>1. j \in i .. k - 1 /\ j <= Len(s)
    BY <1>1, <1>2
  <2> QED BY <2>1, Zenon DEF StopsAt
<1>3. ASSUME k < j PROVE FALSE
  <2>1. k \in i .. j - 1 /\ k <= Len(s)
    BY <1>1, <1>3
  <2> QED BY <2>1, Zenon DEF StopsAt
<1> QED BY <1>1, <1>2, <1>3

\* The loop over digits ends there.
LEMMA SkipStops ==
  ASSUME NEW s, Len(s) \in Nat, NEW i \in 1 .. Len(s) + 1
  PROVE  StopsAt(s, i, SkipDigits(s, i)) /\ SkipDigits(s, i) \in Nat
<1> DEFINE e == Len(s) + 1
           A == {j \in i .. Len(s) : s[j] \notin Digits}
           T == A \cup {e}
<1>1. Max({i, e}) = e
  <2>1. i \in Int /\ e \in Int /\ (i >= e => i = e)
    OBVIOUS
  <2> HIDE DEF e
  <2>2. Max({i, e}) = IF i >= e THEN i ELSE e
    BY <2>1, MaxOf
  <2> QED BY <2>1, <2>2, Zenon
<1>2. SkipDigits(s, i) = Min(T)
  <2>1. SkipDigits(s, i) = Min(A \cup {Max({i, e})})
    BY Zenon DEF SkipDigits
  <2> QED BY <1>1, <2>1, Zenon
<1>3. T \subseteq Nat /\ T # {}
  OBVIOUS
<1>4. PICK m \in T : \A n \in T : m <= n
  <2> HIDE DEF T
  <2> QED BY <1>3, LeastNatural
<1>5. Min(T) = m
  <2> DEFINE D(x) == x \in T /\ \A y \in T : x <= y
  <2>1. \A x : D(x) => x = m
    <3> TAKE x
    <3> HAVE D(x)
    <3>1. x \in T /\ x <= m /\ m <= x
      BY <1>4, Zenon
    <3>2. x \in Nat /\ m \in Nat
      BY <1>3, <1>4, <3>1, Zenon
    <3> HIDE DEF T
    <3> QED BY <3>1, <3>2
  <2>2. D(m)
    BY <1>4, Zenon
  <2>3. Min(T) = CHOOSE x \in T : \A y \in T : x <= y
    BY Zenon DEF Min
  <2> HIDE DEF T
  <2> QED BY <2>1, <2>2, <2>3, Zenon
<1>6. m \in i .. e /\ m \in Nat
  BY <1>3, <1>4
<1>7. \A k \in i .. m - 1 : s[k] \in Digits
  <2> SUFFICES ASSUME NEW k \in i .. m - 1, s[k] \notin Digits PROVE FALSE
    OBVIOUS
  <2>1. k \in i .. Len(s) /\ ~(m <= k)
    BY <1>6
  <2>2. k \in T
    BY <2>1
  <2> QED BY <1>4, <2>1, <2>2, Zenon
<1>8. m <= Len(s) => s[m] \notin Digits
  <2> HAVE m <= Len(s)
  <2>1. m # e
    BY <1>6
  <2> QED BY <1>4, <2>1, Zenon
<1>9. StopsAt(s, i, m)
  BY <1>6, <1>7, <1>8, Zenon DEF StopsAt
<1> QED BY <1>2, <1>5, <1>6, <1>9, Zenon

\* text goes on after b with a closing brace, of which b has none.
Closed(b, text) ==
  /\ Len(b) \in Nat /\ Len(text) \in Nat /\ Len(b) < Len(text)
  /\ DOMAIN b = 1 .. Len(b) /\ DOMAIN text = 1 .. Len(text)
  /\ \A i \in 1 .. Len(b) : text[i] = b[i] /\ b[i] # Brace
  /\ text[Len(b) + 1] = Brace

\* Up to the brace a test of one symbol has the same outcome in both.
LEMMA AtClosed ==
  ASSUME NEW b, NEW text, Closed(b, text), NEW i \in 1 .. Len(b) + 1, NEW C, Brace \notin C
  PROVE  At(text, i, C) <=> At(b, i, C)
<1>0. Len(b) \in Nat /\ Len(text) \in Nat /\ Len(b) < Len(text)
  BY Zenon DEF Closed
<1>1. i \in DOMAIN text
  <2>1. i \in 1 .. Len(text)
    BY <1>0
  <2> QED BY <2>1, Zenon DEF Closed
<1>2. CASE i <= Len(b)
  <2>0. i \in 1 .. Len(b)
    BY <1>0, <1>2
  <2>1. i \in DOMAIN b /\ text[i] = b[i]
    BY <2>0, Zenon DEF Closed
  <2> QED BY <1>1, <2>1, Zenon DEF At
<1>3. CASE ~(i <= Len(b))
  <2>0. i \notin 1 .. Len(b) /\ i = Len(b) + 1
    BY <1>0, <1>3
  <2>1. i \notin DOMAIN b /\ text[i] = Brace
    BY <2>0, Zenon DEF Closed
  <2> QED BY <1>1, <2>1, Zenon DEF At
<1> QED BY <1>2, <1>3

\* The ten decimal digits.
LEMMA DigitsListed == Digits = {"0", "1", "2", "3", "4", "5", "6", "7", "8", "9"}
<1>1. \A i \in 1 .. 10 : i \in {1, 2, 3, 4, 5, 6, 7, 8, 9, 10}
  OBVIOUS
<1>2. {1, 2, 3, 4, 5, 6, 7, 8, 9, 10} \subseteq 1 .. 10
  OBVIOUS
<1>3. /\ DigitSymbols[1] = "0" /\ DigitSymbols[2] = "1" /\ DigitSymbols[3] = "2"
      /\ DigitSymbols[4] = "3" /\ DigitSymbols[5] = "4" /\ DigitSymbols[6] = "5"
      /\ DigitSymbols[7] = "6" /\ DigitSymbols[8] = "7" /\ DigitSymbols[9] = "8"
      /\ DigitSymbols[10] = "9"
  BY DEF DigitSymbols
<1> QED BY <1>1, <1>2, <1>3 DEF Digits

\* A closing brace is in none of the classes that the scanners test for.
LEMMA BraceClass ==
  /\ Brace \notin Digits /\ Brace \notin {"0"} /\ Brace \notin {"."} /\ Brace \notin {"#"}
  /\ DOMAIN AlignOf = {"<", ">", "^"} /\ Brace \notin DOMAIN AlignOf /\ Brace \notin TypeChars
<1>2. DOMAIN AlignOf = {"<", ">", "^"}
  BY DEF AlignOf
<1> QED BY <1>2, DigitsListed, Zenon DEF TypeChars, Brace

\* And so has the loop over digits.
LEMMA SkipClosed ==
  ASSUME NEW b, NEW text, Closed(b, text), NEW i \in 1 .. Len(b) + 1
  PROVE  SkipDigits(text, i) = SkipDigits(b, i) /\ SkipDigits(b, i) \in i .. Len(b) + 1
<1>0. Len(b) \in Nat /\ Len(text) \in Nat /\ Len(b) < Len(text) /\ i \in 1 .. Len(text) + 1 /\ i \in Nat
  <2>1. Len(b) \in Nat /\ Len(text) \in Nat /\ Len(b) < Len(text)
    BY Zenon DEF Closed
  <2> QED BY <2>1
<1> DEFINE j == SkipDigits(b, i)
<1>1. StopsAt(b, i, j) /\ j \in Nat
  BY <1>0, SkipStops
<1>2. StopsAt(text, i, SkipDigits(text, i))
  BY <1>0, SkipStops
<1> HIDE DEF j
<1>3. j \in i .. Len(b) + 1 /\ j \in i .. Len(text) + 1
  BY <1>0, <1>1 DEF StopsAt
<1>4. \A k \in i .. j - 1 : text[k] \in Digits
  <2> TAKE k \in i .. j - 1
  <2>1. k \in 1 .. Len(b)
    BY <1>0, <1>3
  <2> QED BY <1>1, <2>1, Zenon DEF StopsAt, Closed
<1>5. text[j] \notin Digits
  <2>1. CASE j <= Len(b)
    <3>1. j \in 1 .. Len(b)
      BY <1>0, <1>3, <2>1
    <3> QED BY <1>1, <2>1, <3>1, Zenon DEF StopsAt, Closed
  <2>2. CASE ~(j <= Len(b))
    <3>1. j = Len(b) + 1
      BY <1>0, <1>3, <2>2
    <3> QED BY <3>1, BraceClass, Zenon DEF Closed
  <2> QED BY <2>1, <2>2
<1>6. StopsAt(text, i, j)
  BY <1>3, <1>4, <1>5, Zenon DEF StopsAt
<1>7. SkipDigits(text, i) = j
  BY <1>0, <1>2, <1>6, StopsOnce
<1> QED BY <1>3, <1>7, Zenon DEF j

\* The spec at the start of text is the whole of b up to its type.
LEMMA TypeClosed ==
  ASSUME NEW b, NEW text, Closed(b, text), Len(b) >= 1
  PROVE  /\ ToType(text, 1) = ToType(b, 1)
         /\ ToType(b, 1) = Err \/ ToType(b, 1) \in 1 .. Len(b) + 1
<1>0. /\ Len(b) \in Nat /\ Len(text) \in Nat /\ Len(b) < Len(text) /\ 1 + 1 = 2
      /\ 1 \in 1 .. Len(b) + 1 /\ 1 + 1 <= Len(text) /\ 1 + 1 \in 1 .. Len(b) + 1
  <2>1. Len(b) \in Nat /\ Len(text) \in Nat /\ Len(b) < Len(text)
    BY Zenon DEF Closed
  <2> QED BY <2>1
<1> DEFINE Wide(s) == 1 + 1 <= Len(s) /\ is_align_char(s[1 + 1])
<1>1. Wide(text) <=> Wide(b)
  <2>1. CASE 1 + 1 <= Len(b)
    <3>1. 1 + 1 \in 1 .. Len(b)
      BY <1>0, <2>1
    <3>2. text[1 + 1] = b[1 + 1]
      BY <3>1, Zenon DEF Closed
    <3> QED BY <1>0, <2>1, <3>2, Zenon
  <2>2. CASE ~(1 + 1 <= Len(b))
    <3>1. 1 + 1 = Len(b) + 1
      BY <1>0, <2>2
    <3>2. text[1 + 1] = Brace
      BY <3>1, Zenon DEF Closed
    <3> QED BY <2>2, <3>2, BraceClass, Zenon DEF is_align_char
  <2> QED BY <2>1, <2>2
<1>2. text[1] = b[1]
  <2>1. 1 \in 1 .. Len(b)
    BY <1>0
  <2> QED BY <2>1, Zenon DEF Closed
<1> DEFINE a == AfterAlign(b, 1)
           z == AfterZero(b, a)
           w == SkipDigits(b, z)
           p == AfterPrecision(b, w)
<1>3. AfterAlign(text, 1) = a /\ a \in 1 .. Len(b) + 1
  <2>1. At(text, 1, DOMAIN AlignOf) <=> At(b, 1, DOMAIN AlignOf)
    BY <1>0, AtClosed, BraceClass
  <2>2. AfterAlign(text, 1) = IF Wide(text) THEN 1 + 2 ELSE IF At(text, 1, DOMAIN AlignOf) THEN 1 + 1 ELSE 1
    BY Zenon DEF AfterAlign
  <2>3. a = IF Wide(b) THEN 1 + 2 ELSE IF At(b, 1, DOMAIN AlignOf) THEN 1 + 1 ELSE 1
    BY Zenon DEF AfterAlign
  <2>4. Wide(b) => 1 + 2 \in 1 .. Len(b) + 1
    BY <1>0
  <2> HIDE DEF Wide
  <2> QED BY <1>0, <1>1, <2>1, <2>2, <2>3, <2>4, Zenon
<1> HIDE DEF a
<1>4. AfterZero(text, a) = z /\ z \in 1 .. Len(b) + 1
  <2>1. At(text, a, {"0"}) <=> At(b, a, {"0"})
    BY <1>3, AtClosed, BraceClass
  <2>2. At(b, a, {"0"}) => a + 1 \in 1 .. Len(b) + 1
    <3>1. At(b, a, {"0"}) => a \in 1 .. Len(b)
      BY Zenon DEF At, Closed
    <3> QED BY <1>0, <3>1
  <2> QED BY <1>3, <2>1, <2>2, Zenon DEF AfterZero
<1> HIDE DEF z
<1>5. SkipDigits(text, z) = w /\ w \in 1 .. Len(b) + 1
  <2>1. SkipDigits(text, z) = w /\ w \in z .. Len(b) + 1
    BY <1>4, SkipClosed
  <2> HIDE DEF w
  <2> QED BY <1>0, <1>4, <2>1
<1> HIDE DEF w
<1>6. AfterPrecision(text, w) = p /\ (p = Err \/ p \in 1 .. Len(b) + 1)
  <2>1. At(text, w, {"."}) <=> At(b, w, {"."})
    BY <1>5, AtClosed, BraceClass
  <2>2. CASE ~At(b, w, {"."})
    BY <1>5, <2>1, <2>2, Zenon DEF AfterPrecision
  <2>3. CASE At(b, w, {"."})
    <3>1. w \in 1 .. Len(b)
      BY <2>3, Zenon DEF At, Closed
    <3>2. w + 1 \in 1 .. Len(b) + 1
      BY <1>0, <3>1
    <3>3. At(text, w + 1, Digits) <=> At(b, w + 1, Digits)
      BY <3>2, AtClosed, BraceClass
    <3>4. SkipDigits(text, w + 1) = SkipDigits(b, w + 1) /\ SkipDigits(b, w + 1) \in w + 1 .. Len(b) + 1
      BY <3>2, SkipClosed
    <3> DEFINE q == SkipDigits(b, w + 1)
    <3>5. q \in 1 .. Len(b) + 1
      <4> HIDE DEF q
      <4>1. q \in w + 1 .. Len(b) + 1
        BY <3>4 DEF q
      <4> QED BY <1>0, <3>1, <4>1
    <3> QED BY <2>1, <2>3, <3>3, <3>4, <3>5, Zenon DEF AfterPrecision
  <2> QED BY <2>2, <2>3
<1> HIDE DEF p
<1> DEFINE Refused(s) == Wide(s) /\ ~is_valid_fill(s[1])
<1>7. ToType(text, 1) = IF Refused(text) THEN Err ELSE IF p = Err THEN Err ELSE AfterHash(text, p)
  BY <1>3, <1>4, <1>5, <1>6, Zenon DEF ToType
<1>8. ToType(b, 1) = IF Refused(b) THEN Err ELSE IF p = Err THEN Err ELSE AfterHash(b, p)
  BY Zenon DEF ToType, a, z, w, p
<1>9. Refused(text) <=> Refused(b)
  BY <1>1, <1>2, Zenon
<1> HIDE DEF Refused
<1>10. CASE p = Err
  BY <1>7, <1>8, <1>10, Zenon
<1>11. CASE p # Err
  <2>1. p \in 1 .. Len(b) + 1
    BY <1>6, <1>11, Zenon
  <2>2. At(text, p, {"#"}) <=> At(b, p, {"#"})
    BY <2>1, AtClosed, BraceClass
  <2>3. At(b, p, {"#"}) => p + 1 \in 1 .. Len(b) + 1
    <3>1. At(b, p, {"#"}) => p \in 1 .. Len(b)
      BY Zenon DEF At, Closed
    <3> QED BY <1>0, <3>1
  <2>4. AfterHash(text, p) = AfterHash(b, p) /\ AfterHash(b, p) \in 1 .. Len(b) + 1
    BY <2>1, <2>2, <2>3, Zenon DEF AfterHash
  <2> QED BY <1>7, <1>8, <1>9, <2>4, Zenon
<1> QED BY <1>10, <1>11

\* For every text without a closing brace and whatever follows the brace: the
\* macros' scanner (parse_spec_const) ends at the brace exactly when the
\* scanner of the line patterns (validate_spec_rt) accepts the text.
THEOREM ScannersAgree ==
  ASSUME NEW S, Brace \in S, NEW b \in Seq(S), \A i \in DOMAIN b : b[i] # Brace, NEW tail \in Seq(S)
  PROVE  parse_spec_const(b \o <<Brace>> \o tail, 1) = Len(b) + 1 <=> validate_spec_rt(b)
<1> DEFINE text == b \o <<Brace>> \o tail
           n == Len(b)
<1>1. Closed(b, text) /\ n \in Nat /\ Len(text) \in Nat /\ n < Len(text)
  <2> DEFINE c == b \o <<Brace>>
  <2>1. <<Brace>> \in Seq(S) /\ Len(<<Brace>>) = 1 /\ <<Brace>>[1] = Brace
    OBVIOUS
  <2>2. c \in Seq(S) /\ Len(c) = n + 1 /\ (\A i \in 1 .. n : c[i] = b[i]) /\ c[n + 1] = Brace
    BY <2>1
  <2> HIDE DEF c
  <2>3. /\ c \o tail \in Seq(S) /\ Len(c \o tail) = Len(c) + Len(tail)
        /\ \A i \in 1 .. Len(c) : (c \o tail)[i] = c[i]
    BY <2>2
  <2>4. /\ n \in Nat /\ Len(c \o tail) \in Nat /\ n < Len(c \o tail)
        /\ DOMAIN b = 1 .. Len(b) /\ DOMAIN (c \o tail) = 1 .. Len(c \o tail)
        /\ n + 1 \in 1 .. Len(c) /\ \A i \in 1 .. n : i \in 1 .. Len(c)
    BY <2>2, <2>3
  <2>5. Closed(b, c \o tail)
    BY <2>2, <2>3, <2>4, Zenon DEF Closed
  <2> QED BY <2>4, <2>5, Zenon DEF c
<1> HIDE DEF text
<1>2. CASE n = 0
  <2>1. parse_spec_const(text, 1) = 1
    <3>1. ~(1 > Len(text)) /\ n + 1 = 1
      BY <1>1, <1>2
    <3>2. text[1] = Brace
      BY <1>1, <3>1, Zenon DEF Closed
    <3> QED BY <3>1, <3>2, Zenon DEF parse_spec_const, Brace
  <2>2. validate_spec_rt(b)
    <3>1. DOMAIN b = {} /\ ~(1 + 1 <= Len(b)) /\ 1 \in 1 .. Len(b) + 1 /\ Len(b) + 1 = 1 /\ 1 > Len(b)
      BY <1>2
    <3>2. AfterAlign(b, 1) = 1
      BY <3>1, Zenon DEF AfterAlign, At
    <3>3. AfterZero(b, 1) = 1
      BY <3>1, Zenon DEF AfterZero, At
    <3>4. SkipDigits(b, 1) = 1
      <4>1. SkipDigits(b, 1) \in 1 .. Len(b) + 1
        BY <1>1, <3>1, SkipStops, Zenon DEF StopsAt
      <4> DEFINE w == SkipDigits(b, 1)
      <4> HIDE DEF w
      <4>2. w \in 1 .. 1
        BY <3>1, <4>1, Zenon DEF w
      <4> QED BY <4>2 DEF w
    <3>5. AfterPrecision(b, 1) = 1 /\ AfterHash(b, 1) = 1 /\ 1 # Err
      BY <3>1 DEF AfterPrecision, AfterHash, At, Err
    <3>6. ToType(b, 1) = 1
      BY <3>1, <3>2, <3>3, <3>4, <3>5, Zenon DEF ToType
    <3> QED BY <3>1, <3>5, <3>6, Zenon DEF validate_spec_rt
  <2> QED BY <1>2, <2>1, <2>2 DEF text
<1>3. CASE n # 0
  <2> DEFINE t == ToType(b, 1)
  <2>1. ToType(text, 1) = t /\ (t = Err \/ t \in 1 .. n + 1) /\ n >= 1 /\ n \in Nat
    <3>1. n >= 1 /\ n \in Nat
      BY <1>1, <1>3
    <3> QED BY <1>1, <3>1, TypeClosed
  <2>2. parse_spec_const(text, 1) = AfterType(text, t)
    <3>1. ~(1 > Len(text)) /\ 1 \in 1 .. n
      BY <1>1, <2>1
    <3>2. text[1] # Brace
      BY <1>1, <3>1, Zenon DEF Closed
    <3> QED BY <2>1, <3>1, <3>2, Zenon DEF parse_spec_const, Brace
  <2>3. validate_spec_rt(b) <=> t # Err /\ (t > n \/ (b[t] \in TypeChars /\ t = n))
    BY Zenon DEF validate_spec_rt
  <2> HIDE DEF t, n
  <2>4. CASE t = Err
    <3>1. AfterType(text, t) = Err /\ n + 1 # Err
      BY <2>1, <2>4 DEF AfterType, Err
    <3> QED BY <2>2, <2>3, <2>4, <3>1, Zenon DEF text, n
  <2>5. CASE t = n + 1
    <3>1. t # Err /\ t > n
      BY <2>1, <2>5 DEF Err
    <3>2. text[t] = Brace
      BY <1>1, <2>5, Zenon DEF Closed, n
    <3>3. AfterType(text, t) = t
      BY <3>1, <3>2, Zenon DEF AfterType, Brace
    <3> QED BY <2>2, <2>3, <2>5, <3>1, <3>3, Zenon DEF text, n
  <2>6. CASE t \in 1 .. n
    <3>1. t # Err /\ ~(t > n) /\ ~(t > Len(text)) /\ (t + 1 = n + 1 <=> t = n) /\ n + 1 # Err
      BY <1>1, <2>1, <2>6 DEF Err
    <3>2. text[t] = b[t] /\ text[t] # Brace
      BY <1>1, <2>6, Zenon DEF Closed, n
    <3>3. AfterType(text, t) = IF b[t] \in TypeChars THEN t + 1 ELSE Err
      BY <3>1, <3>2, Zenon DEF AfterType, Brace
    <3>4. AfterType(text, t) = n + 1 <=> b[t] \in TypeChars /\ t = n
      BY <3>1, <3>3, Zenon
    <3> QED BY <2>2, <2>3, <3>1, <3>4, Zenon DEF text, n
  <2>7. t = Err \/ t = n + 1 \/ t \in 1 .. n
    BY <2>1
  <2> QED BY <2>4, <2>5, <2>6, <2>7
<1> QED BY <1>2, <1>3

\* The smaller of two numbers, whichever it is.
LEMMA MinOfTwo ==
  ASSUME NEW a \in Int, NEW b \in Int
  PROVE  Min({a, b}) = (IF a <= b THEN a ELSE b)
<1>1. CASE a <= b
  BY <1>1, MinOf
<1>2. CASE ~(a <= b)
  <2>1. b <= a /\ {a, b} = {b, a}
    BY <1>2
  <2>2. Min({b, a}) = b
    BY <2>1, MinOf
  <2> QED BY <1>2, <2>1, <2>2, Zenon
<1> QED BY <1>1, <1>2

\* num reads decimal digits as a u16 that saturates.
SaturatedReading(num, s) ==
  /\ num[0] = 0
  /\ \A i \in 1 .. Len(s) : num[i] = Min({MaxWidth, Min({MaxWidth, 10 * num[i - 1]}) + Value(s[i])})

\* There is such a reading, and it ends with Saturated.
LEMMA SaturatedReads ==
  ASSUME NEW s \in Seq(DigitSet(10))
  PROVE  \E num : SaturatedReading(num, s) /\ Saturated(s) = num[Len(s)]
<1> DEFINE n == Len(s)
           D(f) == f = [i \in 0 .. n |-> IF i = 0 THEN 0 ELSE Min({MaxWidth, Min({MaxWidth, 10 * f[i - 1]}) + Value(s[i])})]
           step == [p \in (1 .. n) \X Nat |-> Min({MaxWidth, Min({MaxWidth, 10 * p[2]}) + Value(s[p[1]])})]
<1>0. n \in Nat /\ n \in 0 .. n /\ 10 \in 2 .. 16
  OBVIOUS
<1>u. MaxWidth \in Nat
  BY DEF MaxWidth
<1>1. \A i \in 1 .. n, v \in Nat :
        step[<<i, v>>] = Min({MaxWidth, Min({MaxWidth, 10 * v}) + Value(s[i])}) /\ step[<<i, v>>] \in Nat
  <2> TAKE i \in 1 .. n, v \in Nat
  <2>0. s[i] \in DigitSet(10)
    OBVIOUS
  <2>1. Value(s[i]) \in Nat
    BY <1>0, <2>0, DigitValues, Zenon
  <2> DEFINE u == Value(s[i])
             k == Min({MaxWidth, 10 * v})
  <2>2. k \in Nat
    BY <1>u, MinOfTwo
  <2>3. Min({MaxWidth, k + u}) \in Nat
    <3> HIDE DEF k, u
    <3>1. u \in Nat
      BY <2>1 DEF u
    <3> QED BY <1>u, <2>2, <3>1, MinOfTwo
  <2>4. step[<<i, v>>] = Min({MaxWidth, k + u})
    OBVIOUS
  <2> HIDE DEF step
  <2> QED BY <2>3, <2>4, Zenon
<1> HIDE DEF step, n
<1>3. PICK f : Recursive(f, n, Nat, 0, step)
  BY <1>0, <1>1, Recursion
<1>6. D(f)
  <2>1. f \in [0 .. n -> Nat] /\ f[0] = 0 /\ \A i \in 1 .. n : f[i] = step[<<i, f[i - 1]>>]
    BY <1>3 DEF Recursive
  <2>2. \A i \in 1 .. n : i - 1 \in 0 .. n
    BY <1>0
  <2>3. \A i \in 1 .. n : f[i] = Min({MaxWidth, Min({MaxWidth, 10 * f[i - 1]}) + Value(s[i])})
    <3> TAKE i \in 1 .. n
    <3>1. f[i - 1] \in Nat
      BY <2>1, <2>2
    <3> QED BY <1>1, <2>1, <3>1, Zenon
  <2>4. \A i \in 0 .. n : f[i] = IF i = 0 THEN 0 ELSE Min({MaxWidth, Min({MaxWidth, 10 * f[i - 1]}) + Value(s[i])})
    <3> TAKE i \in 0 .. n
    <3>1. i = 0 \/ (i # 0 /\ i \in 1 .. n)
      BY <1>0
    <3> QED BY <2>1, <2>3, <3>1, Zenon
  <2>5. f = [i \in 0 .. n |-> f[i]]
    BY <2>1
  <2> QED BY <2>4, <2>5, Zenon
<1> DEFINE g == CHOOSE h : D(h)
<1>7. D(g)
  BY <1>6, Zenon
<1>8. Saturated(s) = g[n]
  BY Zenon DEF Saturated, n
<1> HIDE DEF g
<1>9. g[0] = 0 /\ \A i \in 1 .. n : g[i] = Min({MaxWidth, Min({MaxWidth, 10 * g[i - 1]}) + Value(s[i])})
  <2>1. \A i \in 1 .. n : i \in 0 .. n /\ i # 0
    BY <1>0
  <2>2. 0 \in 0 .. n
    BY <1>0
  <2>3. \A i \in 0 .. n : g[i] = IF i = 0 THEN 0 ELSE Min({MaxWidth, Min({MaxWidth, 10 * g[i - 1]}) + Value(s[i])})
    BY <1>7, Zenon
  <2> QED BY <2>1, <2>2, <2>3, Zenon
<1> QED BY <1>8, <1>9, Zenon DEF SaturatedReading, n

\* The u16 of a run of digits is the number they denote, up to the largest u16.
LEMMA SaturatesAtEnd ==
  ASSUME NEW s \in Seq(DigitSet(10))
  PROVE  Saturated(s) = U16(s)
<1>0. Len(s) \in Nat /\ 10 \in 2 .. 16
  OBVIOUS
<1>u. MaxWidth \in Nat
  BY DEF MaxWidth
<1>1. PICK f : SaturatedReading(f, s) /\ Saturated(s) = f[Len(s)]
  BY SaturatedReads
<1>2. PICK g : ReadsDigits(g, 10, s) /\ Denoted(10, s) = g[Len(s)]
  BY <1>0, Denotes
<1> DEFINE n == Len(s)
           Cap(x) == IF MaxWidth <= x THEN MaxWidth ELSE x
           T == {i \in 0 .. n : f[i] = Cap(g[i])}
<1> HIDE DEF n
<1>3. n \in Nat
  BY <1>0 DEF n
<1>4. g \in [0 .. n -> Nat] /\ g[0] = 0 /\ \A i \in 1 .. n : g[i] = 10 * g[i - 1] + Value(s[i])
  BY <1>2, Zenon DEF ReadsDigits, n
<1>5. 0 \in T
  <2>1. f[0] = 0
    BY <1>1, Zenon DEF SaturatedReading
  <2> QED BY <1>3, <1>4, <1>u, <2>1
<1>6. ASSUME NEW m \in T, m < n PROVE m + 1 \in T
  <2>1. m \in Nat /\ m + 1 \in 0 .. n /\ m + 1 \in 1 .. n /\ (m + 1) - 1 = m /\ m \in 0 .. n
    BY <1>3, <1>6
  <2> DEFINE v == Value(s[m + 1])
             x == g[m]
             y == f[m]
  <2>2. v \in Nat
    <3>1. s[m + 1] \in DigitSet(10)
      BY <2>1 DEF n
    <3> QED BY <1>0, <3>1, DigitValues, Zenon
  <2>3. x \in Nat /\ y = Cap(x)
    BY <1>4, <2>1
  <2>4. g[m + 1] = 10 * g[(m + 1) - 1] + Value(s[m + 1])
    BY <1>4, <2>1, Zenon
  <2>5. f[m + 1] = Min({MaxWidth, Min({MaxWidth, 10 * f[(m + 1) - 1]}) + Value(s[m + 1])})
    BY <1>1, <2>1, Zenon DEF SaturatedReading, n
  <2>6. g[m + 1] = 10 * x + v /\ f[m + 1] = Min({MaxWidth, Min({MaxWidth, 10 * y}) + v})
    BY <2>1, <2>4, <2>5, Zenon
  <2> HIDE DEF v, x, y, T
  <2>7. y \in Nat /\ MaxWidth \in Int
    BY <1>u, <2>3
  <2>8. Min({MaxWidth, 10 * y}) = (IF MaxWidth <= 10 * y THEN MaxWidth ELSE 10 * y)
    BY <2>7, MinOfTwo
  <2> DEFINE k == Min({MaxWidth, 10 * y})
  <2> HIDE DEF k
  <2>9. k = (IF MaxWidth <= 10 * y THEN MaxWidth ELSE 10 * y) /\ k \in Int /\ k + v \in Int
    BY <2>2, <2>7, <2>8 DEF k
  <2>10. Min({MaxWidth, k + v}) = (IF MaxWidth <= k + v THEN MaxWidth ELSE k + v)
    BY <2>7, <2>9, MinOfTwo
  <2>11. f[m + 1] = Min({MaxWidth, k + v})
    BY <2>6, Zenon DEF k
  <2>12. f[m + 1] = Cap(10 * x + v)
    BY <2>2, <2>3, <2>9, <2>10, <2>11, <1>u
  <2>13. f[m + 1] = Cap(g[m + 1])
    BY <2>6, <2>12, Zenon
  <2> QED BY <2>1, <2>13, Zenon DEF T
<1>7. T = 0 .. n
  <2> HIDE DEF T
  <2>1. T \in SUBSET (0 .. n)
    BY DEF T
  <2> QED BY <1>3, <1>5, <1>6, <2>1, Induction
<1>8. f[n] = Cap(g[n]) /\ g[n] \in Nat
  <2>1. n \in 0 .. n
    BY <1>3
  <2>2. n \in T
    BY <1>7, <2>1, Zenon
  <2>3. g[n] \in Nat
    BY <1>4, <2>1
  <2> QED BY <2>2, <2>3, Zenon
<1>9. U16(s) = Min({MaxWidth, g[n]})
  BY <1>2, Zenon DEF U16, Number, n
<1>10. Min({MaxWidth, g[n]}) = Cap(g[n])
  <2> DEFINE x == g[n]
  <2> HIDE DEF x
  <2>1. x \in Nat
    BY <1>8 DEF x
  <2>2. Min({MaxWidth, x}) = Cap(x)
    BY <1>u, <2>1, MinOfTwo
  <2> QED BY <2>2 DEF x
<1> QED BY <1>1, <1>8, <1>9, <1>10, Zenon DEF n

\* What each part of a spec looks like in the text: the part ends before the
\* second position.
AlignCut(b, a) ==
  /\ a \in 1 .. 3 /\ a <= Len(b) + 1
  /\ a = 2 => b[1] = "<"
  /\ a = 3 => b[2] = "<" /\ b[1] \in SpecSymbols \ {"0", "#", "+"}

WidthCut(b, a, z, w) ==
  /\ z \in {a, a + 1} /\ w \in z .. Len(b) + 1
  /\ z = a + 1 => b[a] = "0"
  /\ \A k \in z .. w - 1 : b[k] \in Digits
  /\ z = a /\ w # z => b[z] # "0"

PrecisionCut(b, w, p) ==
  /\ p \in w .. Len(b) + 1
  /\ p # w => p > w + 1 /\ b[w] = "." /\ \A k \in w + 1 .. p - 1 : b[k] \in Digits

HashCut(b, p, h) ==
  /\ h \in {p, p + 1} /\ h <= Len(b) + 1
  /\ h = p + 1 => b[p] = "#"

TypeCut(b, h) == h = Len(b) + 1 \/ (h = Len(b) /\ b[h] = "x")

\* The text is the five parts one after the other.
Layout(b, a, z, w, p, h) ==
  /\ AlignCut(b, a) /\ WidthCut(b, a, z, w) /\ PrecisionCut(b, w, p)
  /\ HashCut(b, p, h) /\ TypeCut(b, h)

\* What may follow the alignment of a spec.
Rest == Digits \cup {".", "#", "x"}

\* The classes of symbols that tell the parts of a spec apart.
LEMMA SymbolClasses ==
  /\ "." \notin Digits /\ "#" \notin Digits /\ "x" \notin Digits /\ "0" \in Digits
  /\ "." # "#" /\ "." # "x" /\ "#" # "x"
  /\ \A c \in Rest : ~is_align_char(c)
  /\ is_align_char("<") /\ AlignOf["<"] = "Left" /\ "x" \in TypeChars
  /\ \A c \in SpecSymbols : is_align_char(c) => c = "<"
  /\ \A c \in SpecSymbols : c \in TypeChars => c = "x"
  /\ \A c \in SpecSymbols : is_valid_fill(c) <=> c \notin {"0", "#", "+"}
<1>1. DOMAIN AlignOf = {"<", ">", "^"}
  BY BraceClass
<1>2. AlignOf["<"] = "Left"
  BY DEF AlignOf
<1>3. /\ "." \notin Digits /\ "#" \notin Digits /\ "x" \notin Digits /\ "0" \in Digits
      /\ "." # "#" /\ "." # "x" /\ "#" # "x"
  BY DigitsListed, Zenon
<1>4. \A c \in Rest : ~is_align_char(c)
  BY <1>1, DigitsListed, Zenon DEF Rest, is_align_char
<1>5. is_align_char("<") /\ "x" \in TypeChars
  BY <1>1, Zenon DEF is_align_char, TypeChars
<1>6. \A c \in SpecSymbols : is_align_char(c) => c = "<"
  BY <1>1, Zenon DEF SpecSymbols, is_align_char
<1>7. \A c \in SpecSymbols : c \in TypeChars => c = "x"
  BY Zenon DEF SpecSymbols, TypeChars
<1>8. \A c \in SpecSymbols : is_valid_fill(c) <=> c \notin {"0", "#", "+"}
  BY Zenon DEF SpecSymbols, is_valid_fill
<1> QED BY <1>2, <1>3, <1>4, <1>5, <1>6, <1>7, <1>8, Zenon

\* The cuts are positions of the text, in order.
LEMMA LayoutOrder ==
  ASSUME NEW b, Len(b) \in Nat, NEW a, NEW z, NEW w, NEW p, NEW h, Layout(b, a, z, w, p, h)
  PROVE  /\ a \in Nat /\ z \in Nat /\ w \in Nat /\ p \in Nat /\ h \in Nat
         /\ 1 <= a /\ a <= z /\ z <= a + 1 /\ z <= w /\ w <= p /\ p <= h /\ h <= p + 1 /\ h <= Len(b) + 1
         /\ Len(b) <= h /\ a <= 3
<1>1. a \in 1 .. 3
  BY Zenon DEF Layout, AlignCut
<1>2. z \in {a, a + 1} /\ w \in z .. Len(b) + 1
  BY Zenon DEF Layout, WidthCut
<1>3. p \in w .. Len(b) + 1
  BY Zenon DEF Layout, PrecisionCut
<1>4. h \in {p, p + 1} /\ h <= Len(b) + 1
  BY Zenon DEF Layout, HashCut
<1>5. h = Len(b) + 1 \/ h = Len(b)
  BY Zenon DEF Layout, TypeCut
<1> QED BY <1>1, <1>2, <1>3, <1>4, <1>5

\* Behind each cut stands a symbol of a later part.
LEMMA LayoutNext ==
  ASSUME NEW b, Len(b) \in Nat, NEW a, NEW z, NEW w, NEW p, NEW h, Layout(b, a, z, w, p, h)
  PROVE  /\ h <= Len(b) => b[h] = "x"
         /\ p <= Len(b) => b[p] \in {"#", "x"}
         /\ w <= Len(b) => b[w] \in {".", "#", "x"}
         /\ \A i \in a .. Len(b) : b[i] \in Rest
<1>0. /\ a \in Nat /\ z \in Nat /\ w \in Nat /\ p \in Nat /\ h \in Nat
      /\ 1 <= a /\ a <= z /\ z <= a + 1 /\ z <= w /\ w <= p /\ p <= h /\ h <= p + 1 /\ h <= Len(b) + 1
      /\ Len(b) <= h
  BY LayoutOrder
<1>1. h <= Len(b) => b[h] = "x"
  <2>1. h <= Len(b) => h # Len(b) + 1
    BY <1>0
  <2> QED BY <2>1, Zenon DEF Layout, TypeCut
<1>2. p <= Len(b) => b[p] \in {"#", "x"}
  <2>1. h \in {p, p + 1} /\ (h = p + 1 => b[p] = "#")
    BY Zenon DEF Layout, HashCut
  <2> QED BY <1>1, <2>1, Zenon
<1>3. w <= Len(b) => b[w] \in {".", "#", "x"}
  <2>1. p # w => b[w] = "."
    BY Zenon DEF Layout, PrecisionCut
  <2> QED BY <1>2, <2>1, Zenon
<1>4. ASSUME NEW i \in a .. Len(b) PROVE b[i] \in Rest
  <2>1. CASE i < z
    <3>1. z = a + 1 /\ i = a
      BY <1>0, <2>1
    <3>2. b[i] = "0"
      BY <3>1, Zenon DEF Layout, WidthCut
    <3> QED BY <3>2, SymbolClasses, Zenon DEF Rest
  <2>2. CASE z <= i /\ i < w
    <3>1. i \in z .. w - 1
      BY <1>0, <2>2
    <3> QED BY <3>1, Zenon DEF Layout, WidthCut, Rest
  <2>3. CASE i = w
    <3>1. w <= Len(b)
      BY <2>3
    <3> QED BY <1>3, <2>3, <3>1, Zenon DEF Rest
  <2>4. CASE w < i /\ i < p
    <3>1. i \in w + 1 .. p - 1 /\ p # w
      BY <1>0, <2>4
    <3> QED BY <3>1, Zenon DEF Layout, PrecisionCut, Rest
  <2>5. CASE i = p
    <3>1. p <= Len(b)
      BY <2>5
    <3> QED BY <1>2, <2>5, <3>1, Zenon DEF Rest
  <2>6. CASE p < i
    <3>1. i = h /\ h <= Len(b)
      BY <1>0, <2>6
    <3> QED BY <1>1, <3>1, Zenon DEF Rest
  <2>7. i < z \/ (z <= i /\ i < w) \/ i = w \/ (w < i /\ i < p) \/ i = p \/ p < i
    BY <1>0
  <2> QED BY <2>1, <2>2, <2>3, <2>4, <2>5, <2>6, <2>7
<1> QED BY <1>1, <1>2, <1>3, <1>4

\* validate_spec_rt accepts a text that has a layout.
LEMMA LayoutAccepted ==
  ASSUME NEW b, Len(b) \in Nat, DOMAIN b = 1 .. Len(b),
         NEW a, NEW z, NEW w, NEW p, NEW h, Layout(b, a, z, w, p, h)
  PROVE  validate_spec_rt(b)
<1>0. /\ a \in Nat /\ z \in Nat /\ w \in Nat /\ p \in Nat /\ h \in Nat
      /\ 1 <= a /\ a <= z /\ z <= a + 1 /\ z <= w /\ w <= p /\ p <= h /\ h <= p + 1 /\ h <= Len(b) + 1
      /\ Len(b) <= h /\ a <= 3
  BY LayoutOrder
<1>1. /\ h <= Len(b) => b[h] = "x"
      /\ p <= Len(b) => b[p] \in {"#", "x"}
      /\ w <= Len(b) => b[w] \in {".", "#", "x"}
      /\ \A i \in a .. Len(b) : b[i] \in Rest
  BY LayoutNext
<1>2. AfterAlign(b, 1) = a /\ ~(1 + 1 <= Len(b) /\ is_align_char(b[1 + 1]) /\ ~is_valid_fill(b[1]))
  <2> DEFINE Wide == 1 + 1 <= Len(b) /\ is_align_char(b[1 + 1])
  <2>1. AfterAlign(b, 1) = IF Wide THEN 1 + 2 ELSE IF At(b, 1, DOMAIN AlignOf) THEN 1 + 1 ELSE 1
    BY Zenon DEF AfterAlign
  <2>2. 1 + 1 = 2 /\ 1 + 2 = 3 /\ a \in {1, 2, 3}
    BY <1>0
  <2>3. ASSUME a # 3 PROVE ~Wide
    <3>1. ASSUME 1 + 1 <= Len(b) PROVE 1 + 1 \in a .. Len(b)
      BY <1>0, <2>3, <3>1
    <3> QED BY <1>1, <3>1, SymbolClasses, Zenon
  <2>4. CASE a = 1
    <3>1. ~At(b, 1, DOMAIN AlignOf)
      <4>1. 1 \in DOMAIN b => 1 \in a .. Len(b)
        BY <2>4
      <4> QED BY <1>1, <4>1, SymbolClasses, Zenon DEF At, is_align_char
    <3>2. a # 3
      BY <2>4
    <3> QED BY <2>1, <2>3, <2>4, <3>1, <3>2, Zenon
  <2>5. CASE a = 2
    <3>1. 1 \in DOMAIN b /\ a # 3
      BY <1>0, <2>5
    <3>2. b[1] = "<"
      BY <2>5, Zenon DEF Layout, AlignCut
    <3>3. At(b, 1, DOMAIN AlignOf)
      BY <3>1, <3>2, SymbolClasses, Zenon DEF At, is_align_char
    <3> QED BY <2>1, <2>2, <2>3, <2>5, <3>1, <3>3, Zenon
  <2>6. CASE a = 3
    <3>1. 1 + 1 <= Len(b)
      BY <1>0, <2>6
    <3>2. b[2] = "<" /\ b[1] \in SpecSymbols \ {"0", "#", "+"}
      BY <2>6, Zenon DEF Layout, AlignCut
    <3>3. Wide /\ is_valid_fill(b[1])
      BY <2>2, <3>1, <3>2, SymbolClasses, Zenon
    <3> QED BY <2>1, <2>2, <2>6, <3>3, Zenon
  <2> QED BY <2>2, <2>4, <2>5, <2>6, Zenon
<1>3. AfterZero(b, a) = z
  <2>1. CASE z = a
    <3>1. ~At(b, a, {"0"})
      <4> SUFFICES ASSUME a \in DOMAIN b, b[a] = "0" PROVE FALSE
        BY Zenon DEF At
      <4>1. CASE w = z
        <5>1. w <= Len(b) /\ w = a
          BY <2>1, <4>1
        <5>2. b[w] \in {".", "#", "x"} /\ b[w] = "0"
          BY <1>1, <5>1, Zenon
        <5> QED BY <5>2, Zenon
      <4>2. CASE w # z
        BY <2>1, <4>2, Zenon DEF Layout, WidthCut
      <4> QED BY <4>1, <4>2
    <3> QED BY <2>1, <3>1, Zenon DEF AfterZero
  <2>2. CASE z = a + 1
    <3>1. a \in DOMAIN b
      BY <1>0, <2>2
    <3>2. b[a] = "0"
      BY <2>2, Zenon DEF Layout, WidthCut
    <3> QED BY <2>2, <3>1, <3>2, Zenon DEF AfterZero, At
  <2> QED BY <1>0, <2>1, <2>2
<1>4. SkipDigits(b, z) = w
  <2>0. z \in 1 .. Len(b) + 1
    BY <1>0
  <2>1. StopsAt(b, z, w)
    <3>1. w \in z .. Len(b) + 1
      BY <1>0
    <3>2. \A k \in z .. w - 1 : b[k] \in Digits
      BY Zenon DEF Layout, WidthCut
    <3>3. w <= Len(b) => b[w] \notin Digits
      BY <1>1, SymbolClasses, Zenon
    <3> QED BY <3>1, <3>2, <3>3, Zenon DEF StopsAt
  <2>2. StopsAt(b, z, SkipDigits(b, z))
    BY <2>0, SkipStops
  <2> QED BY <1>0, <2>1, <2>2, StopsOnce
<1>5. AfterPrecision(b, w) = p
  <2>1. CASE p = w
    <3>1. ~At(b, w, {"."})
      <4>1. w \in DOMAIN b => p <= Len(b)
        BY <1>0, <2>1
      <4> QED BY <1>1, <2>1, <4>1, SymbolClasses, Zenon DEF At
    <3> QED BY <2>1, <3>1, Zenon DEF AfterPrecision
  <2>2. CASE p # w
    <3>1. p > w + 1 /\ b[w] = "." /\ \A k \in w + 1 .. p - 1 : b[k] \in Digits
      BY <2>2, Zenon DEF Layout, PrecisionCut
    <3>2. w \in DOMAIN b /\ w + 1 \in DOMAIN b /\ w + 1 \in w + 1 .. p - 1 /\ w + 1 \in 1 .. Len(b) + 1 /\ w + 1 \in Nat
      <4>1. p > w + 1
        BY <3>1, Zenon
      <4> QED BY <1>0, <4>1
    <3>3. At(b, w, {"."}) /\ At(b, w + 1, Digits)
      BY <3>1, <3>2, Zenon DEF At
    <3>4. StopsAt(b, w + 1, p)
      <4>1. p \in w + 1 .. Len(b) + 1
        BY <1>0, <2>2
      <4>2. p <= Len(b) => b[p] \notin Digits
        BY <1>1, SymbolClasses, Zenon
      <4> QED BY <3>1, <4>1, <4>2, Zenon DEF StopsAt
    <3>5. StopsAt(b, w + 1, SkipDigits(b, w + 1))
      BY <3>2, SkipStops
    <3>6. SkipDigits(b, w + 1) = p
      BY <3>2, <3>4, <3>5, StopsOnce
    <3> QED BY <3>3, <3>6, Zenon DEF AfterPrecision
  <2> QED BY <2>1, <2>2
<1>6. AfterHash(b, p) = h
  <2>1. CASE h = p
    <3>1. p \in DOMAIN b => h <= Len(b)
      BY <1>0, <2>1
    <3> QED BY <1>1, <2>1, <3>1, SymbolClasses, Zenon DEF AfterHash, At
  <2>2. CASE h # p
    <3>1. h = p + 1 /\ p \in DOMAIN b
      BY <1>0, <2>2
    <3>2. b[p] = "#"
      BY <3>1, Zenon DEF Layout, HashCut
    <3> QED BY <3>1, <3>2, Zenon DEF AfterHash, At
  <2> QED BY <2>1, <2>2
<1>7. p # Err /\ h # Err
  BY <1>0 DEF Err
<1>8. ToType(b, 1) = h
  BY <1>2, <1>3, <1>4, <1>5, <1>6, <1>7, Zenon DEF ToType
<1>9. h > Len(b) \/ (b[h] \in TypeChars /\ h = Len(b))
  <2>1. h > Len(b) \/ (h <= Len(b) /\ h = Len(b))
    <3> DEFINE n == Len(b)
    <3>1. n \in Nat /\ h \in Nat /\ n <= h
      BY <1>0
    <3> HIDE DEF n
    <3>2. h > n \/ (h <= n /\ h = n)
      BY <3>1
    <3> QED BY <3>2, Zenon DEF n
  <2> QED BY <1>1, <2>1, SymbolClasses, Zenon
<1> QED BY <1>7, <1>8, <1>9, Zenon DEF validate_spec_rt

\* The positions of a text that validate_spec_rt accepts are a layout.
LEMMA AcceptedLayout ==
  ASSUME NEW b \in Seq(SpecSymbols), validate_spec_rt(b)
  PROVE  LET a == AfterAlign(b, 1)
             z == AfterZero(b, a)
             w == SkipDigits(b, z)
             p == AfterPrecision(b, w)
         IN p # Err /\ Layout(b, a, z, w, p, AfterHash(b, p))
<1> DEFINE n == Len(b)
           a == AfterAlign(b, 1)
           z == AfterZero(b, a)
           w == SkipDigits(b, z)
           p == AfterPrecision(b, w)
           h == AfterHash(b, p)
           Wide == 1 + 1 <= Len(b) /\ is_align_char(b[1 + 1])
<1>0. n \in Nat /\ DOMAIN b = 1 .. n /\ \A i \in 1 .. n : b[i] \in SpecSymbols
  OBVIOUS
<1>1. ToType(b, 1) = IF Wide /\ ~is_valid_fill(b[1]) THEN Err ELSE IF p = Err THEN Err ELSE h
  BY Zenon DEF ToType
<1>2. /\ ToType(b, 1) # Err
      /\ ToType(b, 1) > n \/ (b[ToType(b, 1)] \in TypeChars /\ ToType(b, 1) = n)
  BY Zenon DEF validate_spec_rt
<1>3. ~(Wide /\ ~is_valid_fill(b[1])) /\ p # Err /\ ToType(b, 1) = h
  <2> HIDE DEF Wide, p, h
  <2> QED BY <1>1, <1>2, Zenon
<1>4. a = IF Wide THEN 1 + 2 ELSE IF At(b, 1, DOMAIN AlignOf) THEN 1 + 1 ELSE 1
  BY Zenon DEF AfterAlign
<1> HIDE DEF n, a
<1>5. AlignCut(b, a) /\ a \in Nat /\ 1 <= a /\ a <= n + 1
  <2>1. CASE Wide
    <3>1. a = 3 /\ 1 \in 1 .. n /\ 2 \in 1 .. n /\ 1 + 1 = 2 /\ n \in Nat /\ 3 <= n + 1
      BY <1>0, <1>4, <2>1 DEF n
    <3>2. is_align_char(b[2]) /\ is_valid_fill(b[1])
      BY <1>3, <2>1, <3>1, Zenon
    <3>3. b[2] = "<" /\ b[1] \in SpecSymbols \ {"0", "#", "+"}
      BY <1>0, <3>1, <3>2, SymbolClasses, Zenon
    <3>4. a \in 1 .. 3 /\ a # 2 /\ a <= n + 1 /\ a \in Nat /\ 1 <= a
      BY <3>1
    <3> QED BY <3>3, <3>4, Zenon DEF AlignCut, n
  <2>2. CASE ~Wide /\ At(b, 1, DOMAIN AlignOf)
    <3>0. 1 \in 1 .. n
      BY <1>0, <2>2, Zenon DEF At
    <3>1. a = 2 /\ n \in Nat /\ 2 <= n + 1
      <4>1. a = 1 + 1
        BY <1>4, <2>2, Zenon
      <4> QED BY <1>0, <3>0, <4>1
    <3>2. b[1] = "<"
      BY <1>0, <2>2, <3>0, SymbolClasses, Zenon DEF At, is_align_char
    <3>4. a \in 1 .. 3 /\ a # 3 /\ a <= n + 1 /\ a \in Nat /\ 1 <= a
      BY <3>1
    <3> QED BY <3>2, <3>4, Zenon DEF AlignCut, n
  <2>3. CASE ~Wide /\ ~At(b, 1, DOMAIN AlignOf)
    <3>1. a = 1
      BY <1>4, <2>3, Zenon
    <3>2. a \in 1 .. 3 /\ a # 2 /\ a # 3 /\ a <= n + 1 /\ a \in Nat /\ 1 <= a
      BY <1>0, <3>1
    <3> QED BY <3>2, Zenon DEF AlignCut, n
  <2> QED BY <2>1, <2>2, <2>3, Zenon
<1>6. /\ z \in {a, a + 1} /\ z <= n + 1 /\ z \in Nat /\ 1 <= z
      /\ z = a + 1 => b[a] = "0"
      /\ z = a => ~(a \in 1 .. n /\ b[a] = "0")
  <2>0. a # a + 1
    BY <1>5
  <2>1. CASE At(b, a, {"0"})
    <3>1. z = a + 1 /\ a \in 1 .. n /\ b[a] = "0"
      BY <1>0, <2>1, Zenon DEF AfterZero, At
    <3>2. z <= n + 1 /\ z \in Nat /\ 1 <= z
      <4> HIDE DEF z
      <4> QED BY <1>0, <1>5, <3>1
    <3> QED BY <2>0, <3>1, <3>2, Zenon
  <2>2. CASE ~At(b, a, {"0"})
    <3>1. z = a
      BY <2>2, Zenon DEF AfterZero
    <3>2. ~(a \in 1 .. n /\ b[a] = "0")
      BY <1>0, <2>2, Zenon DEF At
    <3> QED BY <1>5, <2>0, <3>1, <3>2, Zenon
  <2> QED BY <2>1, <2>2
<1> HIDE DEF z
<1>7. StopsAt(b, z, w) /\ w \in Nat /\ z <= w /\ w <= n + 1
  <2>0. z \in 1 .. Len(b) + 1 /\ Len(b) \in Nat
    BY <1>0, <1>6 DEF n
  <2>1. StopsAt(b, z, w) /\ w \in Nat
    BY <2>0, SkipStops
  <2> HIDE DEF w
  <2>2. w \in z .. Len(b) + 1
    BY <2>1, Zenon DEF StopsAt
  <2> QED BY <1>6, <2>0, <2>1, <2>2 DEF n
<1> HIDE DEF w
<1>8. WidthCut(b, a, z, w)
  <2>1. w \in z .. Len(b) + 1 /\ \A k \in z .. w - 1 : b[k] \in Digits
    BY <1>7, Zenon DEF StopsAt
  <2>2. ASSUME z = a, w # z PROVE b[z] # "0"
    <3>1. a \in 1 .. n
      BY <1>0, <1>5, <1>7, <2>2
    <3> QED BY <1>6, <2>2, <3>1, Zenon
  <2> QED BY <1>6, <2>1, <2>2, Zenon DEF WidthCut
<1>9. PrecisionCut(b, w, p) /\ p \in Nat /\ p <= n + 1 /\ 1 <= p
  <2>1. CASE ~At(b, w, {"."})
    <3>1. p = w
      BY <2>1, Zenon DEF AfterPrecision
    <3>2. w \in w .. Len(b) + 1 /\ w \in Nat /\ w <= n + 1 /\ 1 <= w
      BY <1>0, <1>6, <1>7 DEF n
    <3> QED BY <3>1, <3>2, Zenon DEF PrecisionCut
  <2>2. CASE At(b, w, {"."})
    <3>1. w \in 1 .. n /\ b[w] = "."
      BY <1>0, <2>2, Zenon DEF At
    <3>2. At(b, w + 1, Digits) /\ p = SkipDigits(b, w + 1)
      BY <1>3, <2>2, Zenon DEF AfterPrecision
    <3>3. w + 1 \in 1 .. n /\ b[w + 1] \in Digits
      BY <1>0, <3>2, Zenon DEF At
    <3>4. w + 1 \in 1 .. Len(b) + 1 /\ Len(b) \in Nat /\ w \in Nat
      BY <1>0, <3>1 DEF n
    <3>5. StopsAt(b, w + 1, SkipDigits(b, w + 1)) /\ SkipDigits(b, w + 1) \in Nat
      BY <3>4, SkipStops
    <3>6. StopsAt(b, w + 1, p) /\ p \in Nat
      BY <3>2, <3>5, Zenon
    <3> HIDE DEF p
    <3>7. p \in w + 1 .. Len(b) + 1 /\ (\A k \in w + 1 .. p - 1 : b[k] \in Digits) /\ (p <= Len(b) => b[p] \notin Digits)
      BY <3>6, Zenon DEF StopsAt
    <3>8. p # w + 1
      <4> SUFFICES ASSUME p = w + 1 PROVE FALSE
        OBVIOUS
      <4>1. p <= Len(b)
        BY <3>3, <3>4 DEF n
      <4> QED BY <3>3, <3>7, <4>1, Zenon
    <3>9. p > w + 1 /\ p \in w .. Len(b) + 1 /\ p \in Nat /\ p <= n + 1 /\ 1 <= p
      <4>1. p \in w + 1 .. Len(b) + 1
        BY <3>7, Zenon
      <4> QED BY <3>4, <3>8, <4>1 DEF n
    <3> QED BY <3>1, <3>7, <3>9, Zenon DEF PrecisionCut
  <2> QED BY <2>1, <2>2
<1>10. HashCut(b, p, h) /\ h \in Nat /\ 1 <= h /\ h <= n + 1
  <2> HIDE DEF p
  <2>0. p # p + 1
    BY <1>9
  <2>1. CASE At(b, p, {"#"})
    <3>1. h = p + 1 /\ p \in 1 .. n /\ b[p] = "#"
      BY <1>0, <2>1, Zenon DEF AfterHash, At
    <3> HIDE DEF h
    <3>2. h <= n + 1 /\ h \in Nat /\ 1 <= h
      BY <1>0, <1>9, <3>1
    <3> QED BY <3>1, <3>2, Zenon DEF HashCut, n
  <2>2. CASE ~At(b, p, {"#"})
    <3>1. h = p
      BY <2>2, Zenon DEF AfterHash
    <3> QED BY <1>9, <2>0, <3>1, Zenon DEF HashCut, n
  <2> QED BY <2>1, <2>2
<1>11. TypeCut(b, h)
  <2>1. h > n \/ (b[h] \in TypeChars /\ h = n)
    BY <1>2, <1>3, Zenon
  <2> HIDE DEF h
  <2>2. CASE h > n
    <3>1. h = Len(b) + 1
      BY <1>0, <1>10, <2>2 DEF n
    <3> QED BY <3>1, Zenon DEF TypeCut
  <2>3. CASE b[h] \in TypeChars /\ h = n
    <3>1. h \in 1 .. n
      BY <1>0, <1>10, <2>3
    <3>2. b[h] = "x"
      BY <1>0, <2>3, <3>1, SymbolClasses, Zenon
    <3> QED BY <2>3, <3>2, Zenon DEF TypeCut, n
  <2> QED BY <2>1, <2>2, <2>3
<1> QED BY <1>3, <1>5, <1>8, <1>9, <1>10, <1>11, Zenon DEF Layout, a, z, w

\* s is the part of b from i to just before j.
IsSlice(s, b, i, j) ==
  /\ Len(s) = j - i
  /\ \A k \in 1 .. j - i : s[k] = b[i + k - 1]

\* What SubSeq cuts out.
LEMMA SliceOf ==
  ASSUME NEW S, NEW b \in Seq(S), NEW i \in 1 .. Len(b) + 1, NEW j \in i .. Len(b) + 1
  PROVE  SubSeq(b, i, j - 1) \in Seq(S) /\ IsSlice(SubSeq(b, i, j - 1), b, i, j)
<1>1. SubSeq(b, i, j - 1) \in Seq(S)
  OBVIOUS
<1>2. Len(SubSeq(b, i, j - 1)) = j - i
  OBVIOUS
<1>3. \A k \in 1 .. j - i : SubSeq(b, i, j - 1)[k] = b[i + k - 1]
  OBVIOUS
<1> QED BY <1>1, <1>2, <1>3, Zenon DEF IsSlice

\* Adjoining parts make one part.
LEMMA SlicesMeet ==
  ASSUME NEW S, NEW b \in Seq(S), NEW c \in 1 .. Len(b) + 1, NEW i \in c .. Len(b) + 1, NEW j \in i .. Len(b) + 1
  PROVE  SubSeq(b, c, i - 1) \o SubSeq(b, i, j - 1) = SubSeq(b, c, j - 1)
<1> DEFINE x == SubSeq(b, c, i - 1)
           y == SubSeq(b, i, j - 1)
           u == SubSeq(b, c, j - 1)
<1>0. i \in 1 .. Len(b) + 1 /\ j \in c .. Len(b) + 1 /\ i \in Nat /\ j \in Nat /\ c \in Nat /\ c <= i /\ i <= j
  OBVIOUS
<1>1. x \in Seq(S) /\ IsSlice(x, b, c, i)
  BY <1>0, SliceOf
<1>2. y \in Seq(S) /\ IsSlice(y, b, i, j)
  BY <1>0, SliceOf
<1>3. u \in Seq(S) /\ IsSlice(u, b, c, j)
  BY <1>0, SliceOf
<1> HIDE DEF x, y, u
<1>4. x \o y \in Seq(S) /\ AreJoined(x \o y, x, y)
  BY <1>1, <1>2, JoinedTexts
<1> DEFINE v == x \o y
<1> HIDE DEF v
<1>5. Len(x) = i - c /\ Len(y) = j - i /\ Len(u) = j - c
  BY <1>1, <1>2, <1>3, Zenon DEF IsSlice
<1>6. Len(v) = Len(u)
  <2>1. Len(v) = Len(x) + Len(y)
    BY <1>4, Zenon DEF AreJoined, v
  <2> QED BY <1>0, <1>5, <2>1
<1>7. ASSUME NEW k \in 1 .. Len(v) PROVE v[k] = u[k]
  <2>0. k \in 1 .. j - c /\ k \in Nat
    BY <1>0, <1>5, <1>6
  <2>1. u[k] = b[c + k - 1]
    BY <1>3, <2>0, Zenon DEF IsSlice
  <2>2. v[k] = IF k <= Len(x) THEN x[k] ELSE y[k - Len(x)]
    BY <1>4, <1>7, Zenon DEF AreJoined, v
  <2>3. CASE k <= Len(x)
    <3>1. k \in 1 .. i - c
      BY <1>0, <1>5, <2>0, <2>3
    <3>2. x[k] = b[c + k - 1]
      BY <1>1, <3>1, Zenon DEF IsSlice
    <3> QED BY <2>1, <2>2, <2>3, <3>2, Zenon
  <2>4. CASE ~(k <= Len(x))
    <3>1. k - Len(x) \in 1 .. j - i /\ i + (k - Len(x)) - 1 = c + k - 1
      BY <1>0, <1>5, <2>0, <2>4
    <3>2. y[k - Len(x)] = b[c + k - 1]
      BY <1>2, <3>1, Zenon DEF IsSlice
    <3> QED BY <2>1, <2>2, <2>4, <3>2, Zenon
  <2> QED BY <2>3, <2>4
<1>8. v = u
  BY <1>3, <1>4, <1>6, <1>7, SeqEqual DEF v
<1> QED BY <1>8, Zenon DEF v, x, y, u

\* A part of one symbol, and a part of none.
LEMMA ShortSlices ==
  ASSUME NEW S, NEW b \in Seq(S), NEW i \in 1 .. Len(b) + 1
  PROVE  /\ SubSeq(b, i, i - 1) = <<>>
         /\ i <= Len(b) => SubSeq(b, i, (i + 1) - 1) = <<b[i]>>
<1>1. SubSeq(b, i, i - 1) = <<>>
  OBVIOUS
<1>2. ASSUME i <= Len(b) PROVE SubSeq(b, i, (i + 1) - 1) = <<b[i]>>
  <2>1. i + 1 \in i .. Len(b) + 1 /\ 1 \in 1 .. (i + 1) - i /\ i + 1 - 1 = i /\ (i + 1) - i = 1 /\ i \in DOMAIN b
    BY <1>2
  <2> DEFINE s == SubSeq(b, i, (i + 1) - 1)
  <2>2. s \in Seq(S) /\ IsSlice(s, b, i, i + 1)
    BY <2>1, SliceOf
  <2> HIDE DEF s
  <2>3. Len(s) = 1 /\ s[1] = b[i]
    BY <2>1, <2>2, Zenon DEF IsSlice
  <2>4. s = <<b[i]>>
    BY <2>2, <2>3
  <2> QED BY <2>4, Zenon DEF s
<1> QED BY <1>1, <1>2

\* The parts of a text at its cuts, put together again.
Reassembled(b, a, w, p, h) ==
  SubSeq(b, 1, a - 1) \o SubSeq(b, a, w - 1) \o SubSeq(b, w, p - 1) \o SubSeq(b, p, h - 1)
    \o SubSeq(b, h, (Len(b) + 1) - 1) = b

\* They are the text.
LEMMA PartsJoin ==
  ASSUME NEW S, NEW b \in Seq(S), NEW a \in 1 .. Len(b) + 1, NEW w \in a .. Len(b) + 1,
         NEW p \in w .. Len(b) + 1, NEW h \in p .. Len(b) + 1
  PROVE  Reassembled(b, a, w, p, h)
<1> DEFINE n == Len(b)
<1>0. /\ n \in Nat /\ a \in 1 .. n + 1 /\ w \in 1 .. n + 1 /\ p \in 1 .. n + 1 /\ h \in 1 .. n + 1
      /\ 1 \in 1 .. n + 1 /\ n + 1 \in h .. n + 1 /\ h \in p .. n + 1 /\ p \in w .. n + 1 /\ w \in a .. n + 1
  OBVIOUS
<1>1. SubSeq(b, 1, a - 1) \o SubSeq(b, a, w - 1) = SubSeq(b, 1, w - 1)
  BY <1>0, SlicesMeet
<1>2. SubSeq(b, 1, w - 1) \o SubSeq(b, w, p - 1) = SubSeq(b, 1, p - 1)
  BY <1>0, SlicesMeet
<1>3. SubSeq(b, 1, p - 1) \o SubSeq(b, p, h - 1) = SubSeq(b, 1, h - 1)
  BY <1>0, SlicesMeet
<1>4. SubSeq(b, 1, h - 1) \o SubSeq(b, h, (n + 1) - 1) = SubSeq(b, 1, (n + 1) - 1)
  BY <1>0, SlicesMeet
<1>5. SubSeq(b, 1, (n + 1) - 1) = b
  <2>1. (n + 1) - 1 = n
    BY <1>0
  <2>2. SubSeq(b, 1, n) = b
    OBVIOUS
  <2> QED BY <2>1, <2>2, Zenon
<1> QED BY <1>1, <1>2, <1>3, <1>4, <1>5, Zenon DEF Reassembled

\* A run of digits cut out of a spec, and the number the code reads there.
LEMMA RunOf ==
  ASSUME NEW b \in Seq(SpecSymbols), Len(b) <= MaxSpec,
         NEW i \in 1 .. Len(b) + 1, NEW j \in i .. Len(b) + 1, i # j, \A k \in i .. j - 1 : b[k] \in Digits
  PROVE  LET run == SubSeq(b, i, j - 1)
         IN run \in DigitRuns /\ Saturated(run) = U16(run) /\ run[1] = b[i]
<1> DEFINE run == SubSeq(b, i, j - 1)
           m == j - i
           S == SpecSymbols \cap Digits
<1>0. m \in Nat /\ m > 0 /\ m <= MaxSpec /\ MaxSpec \in Nat /\ 1 \in 1 .. m /\ i + 1 - 1 = i
  <2>1. MaxSpec \in Nat
    BY LineAssumption
  <2> QED BY <2>1
<1>1. run \in Seq(SpecSymbols) /\ IsSlice(run, b, i, j)
  BY SliceOf
<1> HIDE DEF run
<1>2. Len(run) = m /\ \A k \in 1 .. m : run[k] = b[i + k - 1]
  BY <1>1, Zenon DEF IsSlice
<1>3. \A k \in 1 .. m : run[k] \in Digits /\ run[k] \in SpecSymbols
  <2> TAKE k \in 1 .. m
  <2>1. i + k - 1 \in i .. j - 1 /\ i + k - 1 \in DOMAIN b
    OBVIOUS
  <2> QED BY <1>2, <2>1
<1>4. run \in [1 .. m -> S]
  BY <1>1, <1>2, <1>3
<1>5. run \in DigitRuns
  <2>1. m \in 0 .. MaxSpec
    BY <1>0
  <2>2. run \in Words(S, MaxSpec)
    BY <1>4, <2>1, Zenon DEF Words
  <2>3. run # <<>>
    BY <1>0, <1>2
  <2> QED BY <2>2, <2>3, Zenon DEF DigitRuns
<1>6. Digits \subseteq DigitSet(10)
  <2>1. \A k \in 1 .. 10 : k - 1 \in 0 .. 10 - 1 /\ (k - 1) + 1 = k
    OBVIOUS
  <2>2. \A k \in 1 .. 10 : DigitSymbols[k] = Digit(k - 1)
    BY <2>1, Zenon DEF Digit
  <2> SUFFICES ASSUME NEW c \in Digits PROVE c \in DigitSet(10)
    OBVIOUS
  <2>3. PICK k \in 1 .. 10 : c = DigitSymbols[k]
    BY Zenon DEF Digits
  <2> QED BY <2>1, <2>2, <2>3, Zenon DEF DigitSet
<1>7. run \in Seq(DigitSet(10))
  <2>1. run \in [1 .. m -> DigitSet(10)]
    BY <1>4, <1>6
  <2> QED BY <1>0, <2>1
<1>8. Saturated(run) = U16(run)
  BY <1>7, SaturatesAtEnd
<1>9. run[1] = b[i]
  BY <1>0, <1>2, Zenon
<1> QED BY <1>5, <1>8, <1>9, Zenon DEF run

\* What parse_spec_body makes of each part of a layout.
AlignPart(b, a) ==
  [text |-> SubSeq(b, 1, a - 1), fill |-> IF a = 3 THEN b[1] ELSE " ",
   align |-> IF a = 1 THEN None ELSE AlignOf[b[a - 1]]]

WidthPart(b, a, z, w) ==
  [text |-> SubSeq(b, a, w - 1), zero_fill |-> z > a,
   width |-> IF w = z THEN Unset ELSE Saturated(SubSeq(b, z, w - 1))]

PrecisionPart(b, w, p) ==
  [text |-> SubSeq(b, w, p - 1),
   precision |-> IF p = w THEN Unset ELSE Saturated(SubSeq(b, w + 1, p - 1))]

HashPart(b, p, h) == [text |-> SubSeq(b, p, h - 1), alternate |-> h > p]

TypePart(b, h) ==
  [text |-> SubSeq(b, h, (Len(b) + 1) - 1),
   type_char |-> IF At(b, h, TypeChars) THEN b[h] ELSE None]

\* The alignment is one of the grammar.
LEMMA AlignPartListed ==
  ASSUME NEW b \in Seq(SpecSymbols), NEW a, AlignCut(b, a)
  PROVE  AlignPart(b, a) \in AlignParts
<1>0. a \in 1 .. 3 /\ a <= Len(b) + 1 /\ Len(b) \in Nat /\ 1 \in 1 .. Len(b) + 1
  BY DEF AlignCut
<1>1. CASE a = 1
  <2>1. a - 1 = 1 - 1 /\ a # 3
    BY <1>1
  <2>2. SubSeq(b, 1, a - 1) = <<>>
    BY <1>0, <2>1, ShortSlices
  <2>3. AlignPart(b, a) = [text |-> <<>>, fill |-> " ", align |-> None]
    BY <1>1, <2>1, <2>2, Zenon DEF AlignPart
  <2> QED BY <2>3, Zenon DEF AlignParts
<1>2. CASE a = 2
  <2>1. a = 1 + 1 /\ a # 3 /\ a # 1 /\ a - 1 = 1 /\ 1 <= Len(b)
    BY <1>0, <1>2
  <2>2. b[1] = "<"
    BY <1>2, Zenon DEF AlignCut
  <2>3. SubSeq(b, 1, (1 + 1) - 1) = <<b[1]>>
    BY <1>0, <2>1, ShortSlices
  <2>4. AlignPart(b, a) = [text |-> <<"<">>, fill |-> " ", align |-> "Left"]
    BY <2>1, <2>2, <2>3, SymbolClasses, Zenon DEF AlignPart
  <2> QED BY <2>4, Zenon DEF AlignParts
<1>3. CASE a = 3
  <2>1. a # 1 /\ a - 1 = 2 /\ 3 \in 1 .. Len(b) + 1
    BY <1>0, <1>3
  <2>2. b[2] = "<" /\ b[1] \in SpecSymbols \ {"0", "#", "+"}
    BY <1>3, Zenon DEF AlignCut
  <2> DEFINE s == SubSeq(b, 1, 3 - 1)
  <2>3. s \in Seq(SpecSymbols) /\ IsSlice(s, b, 1, 3)
    BY <1>0, <2>1, SliceOf
  <2>4. s = <<b[1], b[2]>>
    <3> HIDE DEF s
    <3>2. Len(s) = 3 - 1 /\ \A k \in 1 .. 3 - 1 : s[k] = b[1 + k - 1]
      BY <2>3, Zenon DEF IsSlice
    <3>3. s[1] = b[1] /\ s[2] = b[2]
      BY <3>2
    <3>4. Len(s) = 2
      BY <3>2
    <3> QED BY <2>3, <3>3, <3>4
  <2>5. AlignPart(b, a) = [text |-> <<b[1], "<">>, fill |-> b[1], align |-> "Left"]
    BY <1>3, <2>1, <2>2, <2>4, SymbolClasses, Zenon DEF AlignPart
  <2> QED BY <2>2, <2>5, Zenon DEF AlignParts
<1> QED BY <1>0, <1>1, <1>2, <1>3

\* The zero flag and the width are.
LEMMA WidthPartListed ==
  ASSUME NEW b \in Seq(SpecSymbols), Len(b) <= MaxSpec, NEW a \in 1 .. Len(b) + 1, NEW z, NEW w, WidthCut(b, a, z, w)
  PROVE  WidthPart(b, a, z, w) \in WidthParts
<1>0. /\ Len(b) \in Nat /\ a \in Nat /\ 1 <= a /\ z \in {a, a + 1} /\ w \in z .. Len(b) + 1
      /\ z = a + 1 => b[a] = "0"
      /\ z = a /\ w # z => b[z] # "0"
      /\ \A k \in z .. w - 1 : b[k] \in Digits
  <2>1. Len(b) \in Nat /\ a \in Nat /\ 1 <= a
    OBVIOUS
  <2> QED BY <2>1, Zenon DEF WidthCut
<1>1. z \in Nat /\ z \in 1 .. Len(b) + 1 /\ w \in Nat /\ (z = a + 1 => a <= Len(b)) /\ (z > a <=> z = a + 1) /\ (z = a => ~(z > a)) /\ z <= w
  <2>1. z \in {a, a + 1} /\ w \in z .. Len(b) + 1 /\ a \in Nat /\ 1 <= a /\ Len(b) \in Nat
    BY <1>0, Zenon
  <2> QED BY <2>1
<1> DEFINE run == SubSeq(b, z, w - 1)
<1>2. w # z => run \in DigitRuns /\ Saturated(run) = U16(run) /\ run[1] = b[z]
  <2> HAVE w # z
  <2>1. w \in z .. Len(b) + 1 /\ \A k \in z .. w - 1 : b[k] \in Digits
    BY <1>0, Zenon
  <2> QED BY <1>1, <2>1, RunOf
<1>3. CASE z = a /\ w = z
  <2>1. SubSeq(b, a, a - 1) = <<>>
    BY ShortSlices
  <2>2. WidthPart(b, a, z, w) = [text |-> <<>>, zero_fill |-> FALSE, width |-> Unset]
    <3>1. (z > a) = FALSE
      BY <1>1, <1>3
    <3> QED BY <1>3, <2>1, <3>1, Zenon DEF WidthPart
  <2> QED BY <2>2, Zenon DEF WidthParts
<1>4. CASE z = a /\ w # z
  <2>1. WidthPart(b, a, z, w) = [text |-> run, zero_fill |-> FALSE, width |-> U16(run)]
    <3>1. (z > a) = FALSE
      BY <1>1, <1>4
    <3> QED BY <1>2, <1>4, <3>1, Zenon DEF WidthPart
  <2>2. run \in {x \in DigitRuns : x[1] # "0"}
    BY <1>0, <1>2, <1>4, Zenon
  <2> HIDE DEF run
  <2> QED BY <2>1, <2>2, Zenon DEF WidthParts
<1>5. CASE z = a + 1 /\ w = z
  <2>1. SubSeq(b, a, (a + 1) - 1) = <<b[a]>>
    BY <1>1, <1>5, ShortSlices
  <2>2. WidthPart(b, a, z, w) = [text |-> <<"0">>, zero_fill |-> TRUE, width |-> Unset]
    BY <1>0, <1>1, <1>5, <2>1, Zenon DEF WidthPart
  <2> QED BY <2>2, Zenon DEF WidthParts
<1>6. CASE z = a + 1 /\ w # z
  <2>1. SubSeq(b, a, (a + 1) - 1) = <<b[a]>>
    BY <1>1, <1>6, ShortSlices
  <2> DEFINE s == SubSeq(b, a, w - 1)
  <2>2. s = <<"0">> \o run
    <3>1. a \in 1 .. Len(b) + 1 /\ z \in a .. Len(b) + 1 /\ w \in z .. Len(b) + 1
      BY <1>0, <1>1
    <3>2. SubSeq(b, a, z - 1) \o SubSeq(b, z, w - 1) = SubSeq(b, a, w - 1)
      BY <3>1, SlicesMeet
    <3> QED BY <1>0, <1>6, <2>1, <3>2, Zenon
  <2>3. WidthPart(b, a, z, w) = [text |-> <<"0">> \o run, zero_fill |-> TRUE, width |-> U16(run)]
    BY <1>1, <1>2, <1>6, <2>2, Zenon DEF WidthPart
  <2>4. run \in DigitRuns
    BY <1>2, <1>6, Zenon
  <2> HIDE DEF run
  <2> QED BY <2>3, <2>4, Zenon DEF WidthParts
<1> QED BY <1>0, <1>3, <1>4, <1>5, <1>6, Zenon

\* So is the precision.
LEMMA PrecisionPartListed ==
  ASSUME NEW b \in Seq(SpecSymbols), Len(b) <= MaxSpec, NEW w \in 1 .. Len(b) + 1, NEW p, PrecisionCut(b, w, p)
  PROVE  PrecisionPart(b, w, p) \in PrecisionParts
<1>0. p \in w .. Len(b) + 1 /\ Len(b) \in Nat
  BY DEF PrecisionCut
<1>1. CASE p = w
  <2>1. SubSeq(b, w, w - 1) = <<>>
    BY ShortSlices
  <2>2. PrecisionPart(b, w, p) = [text |-> <<>>, precision |-> Unset]
    BY <1>1, <2>1, Zenon DEF PrecisionPart
  <2> QED BY <2>2, Zenon DEF PrecisionParts
<1>2. CASE p # w
  <2>0. p > w + 1 /\ b[w] = "." /\ \A k \in w + 1 .. p - 1 : b[k] \in Digits
    BY <1>2, Zenon DEF PrecisionCut
  <2>1. w <= Len(b) /\ w + 1 \in 1 .. Len(b) + 1 /\ p \in w + 1 .. Len(b) + 1 /\ w + 1 # p /\ w + 1 \in w .. Len(b) + 1
    <3>1. p > w + 1
      BY <2>0, Zenon
    <3> QED BY <1>0, <3>1
  <2> DEFINE run == SubSeq(b, w + 1, p - 1)
  <2>2. run \in DigitRuns /\ Saturated(run) = U16(run)
    <3>1. \A k \in w + 1 .. p - 1 : b[k] \in Digits
      BY <2>0, Zenon
    <3> QED BY <2>1, <3>1, RunOf
  <2>3. SubSeq(b, w, (w + 1) - 1) = <<b[w]>>
    BY <2>1, ShortSlices
  <2>4. SubSeq(b, w, p - 1) = <<".">> \o run
    <3>1. SubSeq(b, w, (w + 1) - 1) \o SubSeq(b, w + 1, p - 1) = SubSeq(b, w, p - 1)
      BY <2>1, SlicesMeet
    <3> QED BY <2>0, <2>3, <3>1, Zenon
  <2>5. PrecisionPart(b, w, p) = [text |-> <<".">> \o run, precision |-> U16(run)]
    BY <1>2, <2>2, <2>4, Zenon DEF PrecisionPart
  <2> HIDE DEF run
  <2> QED BY <2>2, <2>5, Zenon DEF PrecisionParts
<1> QED BY <1>1, <1>2

\* So is the alternate form.
LEMMA HashPartListed ==
  ASSUME NEW b \in Seq(SpecSymbols), NEW p \in 1 .. Len(b) + 1, NEW h, HashCut(b, p, h)
  PROVE  HashPart(b, p, h) \in HashParts
<1>1. CASE h = p
  <2>1. SubSeq(b, p, p - 1) = <<>> /\ (p > p) = FALSE
    BY ShortSlices
  <2>2. HashPart(b, p, h) = [text |-> <<>>, alternate |-> FALSE]
    BY <1>1, <2>1, Zenon DEF HashPart
  <2> QED BY <2>2, Zenon DEF HashParts
<1>2. CASE h = p + 1
  <2>0. h <= Len(b) + 1 /\ b[p] = "#"
    BY <1>2, Zenon DEF HashCut
  <2>1. p <= Len(b) /\ h > p
    <3>1. h <= Len(b) + 1
      BY <2>0, Zenon
    <3> QED BY <1>2, <3>1
  <2>2. SubSeq(b, p, (p + 1) - 1) = <<b[p]>>
    BY <2>1, ShortSlices
  <2>3. HashPart(b, p, h) = [text |-> <<"#">>, alternate |-> TRUE]
    BY <1>2, <2>0, <2>1, <2>2, Zenon DEF HashPart
  <2> QED BY <2>3, Zenon DEF HashParts
<1> QED BY <1>1, <1>2, Zenon DEF HashCut

\* And the type.
LEMMA TypePartListed ==
  ASSUME NEW b \in Seq(SpecSymbols), NEW h \in 1 .. Len(b) + 1, TypeCut(b, h)
  PROVE  TypePart(b, h) \in TypeParts
<1>0. Len(b) \in Nat /\ DOMAIN b = 1 .. Len(b)
  OBVIOUS
<1>1. CASE h = Len(b) + 1
  <2>1. SubSeq(b, h, h - 1) = <<>> /\ h \notin DOMAIN b
    BY <1>1, ShortSlices
  <2>2. TypePart(b, h) = [text |-> <<>>, type_char |-> None]
    BY <1>1, <2>1, Zenon DEF TypePart, At
  <2> QED BY <2>2, Zenon DEF TypeParts
<1>2. CASE h = Len(b) /\ b[h] = "x"
  <2>1. SubSeq(b, h, (h + 1) - 1) = <<b[h]>> /\ h \in DOMAIN b
    <3>1. h <= Len(b) /\ h \in DOMAIN b
      BY <1>2
    <3> QED BY <3>1, ShortSlices
  <2>2. At(b, h, TypeChars)
    BY <1>2, <2>1, SymbolClasses, Zenon DEF At
  <2>3. TypePart(b, h) = [text |-> <<"x">>, type_char |-> "x"]
    BY <1>2, <2>1, <2>2, Zenon DEF TypePart
  <2> QED BY <2>3, Zenon DEF TypeParts
<1> QED BY <1>1, <1>2, Zenon DEF TypeCut

\* A text with a layout is in the grammar, with the meaning of its parts.
LEMMA LayoutInGrammar ==
  ASSUME NEW b \in Seq(SpecSymbols), Len(b) <= MaxSpec,
         NEW a, NEW z, NEW w, NEW p, NEW h, Layout(b, a, z, w, p, h)
  PROVE  <<b, [fill |-> AlignPart(b, a).fill, align |-> AlignPart(b, a).align,
               zero_fill |-> WidthPart(b, a, z, w).zero_fill, width |-> WidthPart(b, a, z, w).width,
               precision |-> PrecisionPart(b, w, p).precision, alternate |-> HashPart(b, p, h).alternate,
               type_char |-> TypePart(b, h).type_char]>> \in SpecGrammar
<1>0. /\ Len(b) \in Nat /\ a \in Nat /\ z \in Nat /\ w \in Nat /\ p \in Nat /\ h \in Nat
      /\ 1 <= a /\ a <= z /\ z <= w /\ w <= p /\ p <= h /\ h <= Len(b) + 1
  BY LayoutOrder
<1>1. /\ a \in 1 .. Len(b) + 1 /\ w \in 1 .. Len(b) + 1 /\ p \in 1 .. Len(b) + 1 /\ h \in 1 .. Len(b) + 1
      /\ w \in a .. Len(b) + 1 /\ p \in w .. Len(b) + 1 /\ h \in p .. Len(b) + 1
  BY <1>0
<1>2. AlignCut(b, a) /\ WidthCut(b, a, z, w) /\ PrecisionCut(b, w, p) /\ HashCut(b, p, h) /\ TypeCut(b, h)
  BY Zenon DEF Layout
<1>3. AlignPart(b, a) \in AlignParts
  BY <1>2, AlignPartListed
<1>4. WidthPart(b, a, z, w) \in WidthParts
  BY <1>1, <1>2, WidthPartListed
<1>5. PrecisionPart(b, w, p) \in PrecisionParts
  BY <1>1, <1>2, PrecisionPartListed
<1>6. HashPart(b, p, h) \in HashParts
  BY <1>1, <1>2, HashPartListed
<1>7. TypePart(b, h) \in TypeParts
  BY <1>1, <1>2, TypePartListed
<1> DEFINE q == [a |-> AlignPart(b, a), w |-> WidthPart(b, a, z, w), p |-> PrecisionPart(b, w, p),
                 h |-> HashPart(b, p, h), t |-> TypePart(b, h)]
           Q == [a : AlignParts, w : WidthParts, p : PrecisionParts, h : HashParts, t : TypeParts]
<1>8. q \in Q
  BY <1>3, <1>4, <1>5, <1>6, <1>7, Zenon
<1>9. SpecText(q) = b
  <2>1. SpecText(q) = SubSeq(b, 1, a - 1) \o SubSeq(b, a, w - 1) \o SubSeq(b, w, p - 1) \o SubSeq(b, p, h - 1)
                        \o SubSeq(b, h, (Len(b) + 1) - 1)
    BY Zenon DEF SpecText, AlignPart, WidthPart, PrecisionPart, HashPart, TypePart
  <2>2. Reassembled(b, a, w, p, h)
    BY <1>1, PartsJoin
  <2> QED BY <2>1, <2>2, Zenon DEF Reassembled
<1>10. SpecMeaning(q) =
         [fill |-> AlignPart(b, a).fill, align |-> AlignPart(b, a).align,
          zero_fill |-> WidthPart(b, a, z, w).zero_fill, width |-> WidthPart(b, a, z, w).width,
          precision |-> PrecisionPart(b, w, p).precision, alternate |-> HashPart(b, p, h).alternate,
          type_char |-> TypePart(b, h).type_char]
  BY Zenon DEF SpecMeaning
<1> HIDE DEF q
<1>11. q \in {r \in Q : Len(SpecText(r)) <= MaxSpec}
  BY <1>8, <1>9, Zenon
<1> QED BY <1>9, <1>10, <1>11, Zenon DEF SpecGrammar

\* The fields that parse_spec_body reads, by part.
LEMMA BodyParts ==
  ASSUME NEW b
  PROVE  LET a == AfterAlign(b, 1)
             z == AfterZero(b, a)
             w == SkipDigits(b, z)
             p == AfterPrecision(b, w)
             h == AfterHash(b, p)
         IN p # Err =>
              parse_spec_body(b) =
                [fill |-> AlignPart(b, a).fill, align |-> AlignPart(b, a).align,
                 zero_fill |-> WidthPart(b, a, z, w).zero_fill, width |-> WidthPart(b, a, z, w).width,
                 precision |-> PrecisionPart(b, w, p).precision, alternate |-> HashPart(b, p, h).alternate,
                 type_char |-> TypePart(b, h).type_char]
<1> DEFINE a == AfterAlign(b, 1)
           z == AfterZero(b, a)
           w == SkipDigits(b, z)
           p == AfterPrecision(b, w)
           h == AfterHash(b, p)
           o == IF At(b, w, {"."}) THEN SkipDigits(b, w + 1) ELSE w
           g == AfterHash(b, o)
<1> SUFFICES ASSUME p # Err
             PROVE  parse_spec_body(b) =
                      [fill |-> AlignPart(b, a).fill, align |-> AlignPart(b, a).align,
                       zero_fill |-> WidthPart(b, a, z, w).zero_fill, width |-> WidthPart(b, a, z, w).width,
                       precision |-> PrecisionPart(b, w, p).precision, alternate |-> HashPart(b, p, h).alternate,
                       type_char |-> TypePart(b, h).type_char]
  BY Zenon
<1>1. parse_spec_body(b) =
        [fill      |-> IF a = 3 THEN b[1] ELSE " ",
         align     |-> IF a = 1 THEN None ELSE AlignOf[b[a - 1]],
         zero_fill |-> z > a,
         width     |-> IF w = z THEN Unset ELSE Saturated(SubSeq(b, z, w - 1)),
         precision |-> IF o = w THEN Unset ELSE Saturated(SubSeq(b, w + 1, o - 1)),
         alternate |-> g > o,
         type_char |-> IF At(b, g, TypeChars) THEN b[g] ELSE None]
  BY Zenon DEF parse_spec_body
<1> HIDE DEF w
<1>2. p = o
  BY Zenon DEF AfterPrecision
<1>3. h = g
  BY <1>2, Zenon
<1> HIDE DEF a, z, p, h, o, g
<1>4. AlignPart(b, a).fill = (IF a = 3 THEN b[1] ELSE " ") /\ AlignPart(b, a).align = (IF a = 1 THEN None ELSE AlignOf[b[a - 1]])
  BY Zenon DEF AlignPart
<1>5. WidthPart(b, a, z, w).zero_fill = (z > a) /\ WidthPart(b, a, z, w).width = (IF w = z THEN Unset ELSE Saturated(SubSeq(b, z, w - 1)))
  BY Zenon DEF WidthPart
<1>6. PrecisionPart(b, w, p).precision = (IF p = w THEN Unset ELSE Saturated(SubSeq(b, w + 1, p - 1)))
  BY Zenon DEF PrecisionPart
<1>7. HashPart(b, p, h).alternate = (h > p) /\ TypePart(b, h).type_char = (IF At(b, h, TypeChars) THEN b[h] ELSE None)
  BY Zenon DEF HashPart, TypePart
<1> QED BY <1>1, <1>2, <1>3, <1>4, <1>5, <1>6, <1>7, Zenon

\* Two texts are the two parts of their concatenation.
LEMMA JoinedSlices ==
  ASSUME NEW S, NEW x \in Seq(S), NEW y \in Seq(S)
  PROVE  /\ x \o y \in Seq(S) /\ Len(x \o y) = Len(x) + Len(y)
         /\ IsSlice(x, x \o y, 1, 1 + Len(x))
         /\ IsSlice(y, x \o y, 1 + Len(x), 1 + Len(x) + Len(y))
<1> DEFINE v == x \o y
           m == Len(x)
           n == Len(y)
<1>1. v \in Seq(S) /\ AreJoined(v, x, y)
  BY JoinedTexts
<1>2. m \in Nat /\ n \in Nat
  OBVIOUS
<1> HIDE DEF v, m, n
<1>3. Len(v) = m + n /\ \A i \in 1 .. Len(v) : v[i] = IF i <= m THEN x[i] ELSE y[i - m]
  BY <1>1, Zenon DEF AreJoined, m, n
<1>4. \A k \in 1 .. (1 + m) - 1 : x[k] = v[1 + k - 1]
  <2> TAKE k \in 1 .. (1 + m) - 1
  <2>1. 1 + k - 1 = k /\ k \in 1 .. Len(v) /\ k <= m
    BY <1>2, <1>3
  <2> QED BY <1>3, <2>1, Zenon
<1>5. \A k \in 1 .. (1 + m + n) - (1 + m) : y[k] = v[(1 + m) + k - 1]
  <2> TAKE k \in 1 .. (1 + m + n) - (1 + m)
  <2>1. (1 + m) + k - 1 \in 1 .. Len(v) /\ ~((1 + m) + k - 1 <= m) /\ ((1 + m) + k - 1) - m = k
    BY <1>2, <1>3
  <2> QED BY <1>3, <2>1, Zenon
<1>6. m = (1 + m) - 1 /\ n = (1 + m + n) - (1 + m)
  BY <1>2
<1>7. IsSlice(x, v, 1, 1 + m) /\ IsSlice(y, v, 1 + m, 1 + m + n)
  BY <1>4, <1>5, <1>6, Zenon DEF IsSlice, m, n
<1> QED BY <1>1, <1>3, <1>7, Zenon DEF v, m, n

\* A part of a text is a part of what continues the text.
LEMMA SliceKept ==
  ASSUME NEW S, NEW x \in Seq(S), NEW y \in Seq(S), NEW s, NEW i \in Nat, NEW j \in Nat, 1 <= i, j <= 1 + Len(x),
         IsSlice(s, x, i, j)
  PROVE  IsSlice(s, x \o y, i, j)
<1> DEFINE v == x \o y
           m == Len(x)
<1>0. m \in Nat
  OBVIOUS
<1>1. IsSlice(x, v, 1, 1 + m)
  BY JoinedSlices
<1> HIDE DEF v, m
<1>2. \A k \in 1 .. (1 + m) - 1 : x[k] = v[1 + k - 1]
  BY <1>1, Zenon DEF IsSlice
<1>3. ASSUME NEW k \in 1 .. j - i PROVE s[k] = v[i + k - 1]
  <2>1. i + k - 1 \in 1 .. (1 + m) - 1 /\ 1 + (i + k - 1) - 1 = i + k - 1
    BY <1>0 DEF m
  <2>2. x[i + k - 1] = v[i + k - 1]
    BY <1>2, <2>1, Zenon
  <2>3. s[k] = x[i + k - 1]
    BY <1>3, Zenon DEF IsSlice
  <2> QED BY <2>2, <2>3, Zenon
<1> QED BY <1>3, Zenon DEF IsSlice, v

\* Five texts are the five parts of their concatenation.
FiveParts(b, A, W, P, H, T, a, w, p, h) ==
  /\ a = 1 + Len(A) /\ w = a + Len(W) /\ p = w + Len(P) /\ h = p + Len(H) /\ Len(b) + 1 = h + Len(T)
  /\ IsSlice(A, b, 1, a) /\ IsSlice(W, b, a, w) /\ IsSlice(P, b, w, p) /\ IsSlice(H, b, p, h)
  /\ IsSlice(T, b, h, Len(b) + 1)

\* Every concatenation of five texts has them as its parts.
LEMMA Spliced ==
  ASSUME NEW S, NEW A \in Seq(S), NEW W \in Seq(S), NEW P \in Seq(S), NEW H \in Seq(S), NEW T \in Seq(S)
  PROVE  /\ A \o W \o P \o H \o T \in Seq(S)
         /\ \E a, w, p, h \in Nat : FiveParts(A \o W \o P \o H \o T, A, W, P, H, T, a, w, p, h)
<1> DEFINE c == A \o W
           d == c \o P
           e == d \o H
           b == e \o T
           a == 1 + Len(A)
           w == a + Len(W)
           p == w + Len(P)
           h == p + Len(H)
<1>0. /\ Len(A) \in Nat /\ Len(W) \in Nat /\ Len(P) \in Nat /\ Len(H) \in Nat /\ Len(T) \in Nat
      /\ a \in Nat /\ w \in Nat /\ p \in Nat /\ h \in Nat /\ 1 \in Nat /\ 1 <= 1
      /\ 1 <= a /\ a <= w /\ w <= p /\ p <= h
  OBVIOUS
<1>1. c \in Seq(S) /\ Len(c) = Len(A) + Len(W) /\ IsSlice(A, c, 1, 1 + Len(A)) /\ IsSlice(W, c, 1 + Len(A), 1 + Len(A) + Len(W))
  BY JoinedSlices
<1>2. IsSlice(A, c, 1, a) /\ IsSlice(W, c, a, w) /\ w = 1 + Len(c)
  <2>1. w = 1 + Len(c)
    BY <1>0, <1>1
  <2> QED BY <1>1, <2>1, Zenon
<1> HIDE DEF c
<1>3. d \in Seq(S) /\ Len(d) = Len(c) + Len(P) /\ IsSlice(P, d, 1 + Len(c), 1 + Len(c) + Len(P))
  BY <1>1, JoinedSlices
<1>4. IsSlice(A, d, 1, a) /\ IsSlice(W, d, a, w) /\ IsSlice(P, d, w, p) /\ p = 1 + Len(d)
  <2>1. IsSlice(P, d, w, p)
    BY <1>2, <1>3, Zenon
  <2>2. IsSlice(A, d, 1, a)
    <3>1. a <= 1 + Len(c)
      BY <1>0, <1>2
    <3> HIDE DEF a
    <3> QED BY <1>0, <1>1, <1>2, <3>1, SliceKept
  <2>3. IsSlice(W, d, a, w)
    <3>1. w <= 1 + Len(c)
      BY <1>0, <1>2
    <3> HIDE DEF w, a
    <3> QED BY <1>0, <1>1, <1>2, <3>1, SliceKept
  <2>4. p = 1 + Len(d)
    <3>1. Len(c) \in Nat
      BY <1>1
    <3>2. w = 1 + Len(c) /\ Len(d) = Len(c) + Len(P)
      BY <1>2, <1>3, Zenon
    <3> HIDE DEF w, d
    <3> QED BY <1>0, <3>1, <3>2
  <2> QED BY <2>1, <2>2, <2>3, <2>4, Zenon
<1> HIDE DEF d, a, w, p, h
<1>5. e \in Seq(S) /\ Len(e) = Len(d) + Len(H) /\ IsSlice(H, e, 1 + Len(d), 1 + Len(d) + Len(H))
  BY <1>3, JoinedSlices
<1>6. IsSlice(A, e, 1, a) /\ IsSlice(W, e, a, w) /\ IsSlice(P, e, w, p) /\ IsSlice(H, e, p, h) /\ h = 1 + Len(e)
  <2>1. IsSlice(H, e, p, h)
    BY <1>4, <1>5, Zenon DEF h
  <2>2. a <= 1 + Len(d) /\ w <= 1 + Len(d) /\ p <= 1 + Len(d) /\ 1 <= w
    BY <1>0, <1>4
  <2>3. IsSlice(A, e, 1, a) /\ IsSlice(W, e, a, w) /\ IsSlice(P, e, w, p)
    BY <1>0, <1>3, <1>4, <2>2, SliceKept
  <2>4. h = 1 + Len(e)
    <3>1. Len(d) \in Nat
      BY <1>3
    <3>2. p = 1 + Len(d) /\ Len(e) = Len(d) + Len(H) /\ h = p + Len(H)
      BY <1>4, <1>5, Zenon DEF h
    <3> HIDE DEF e
    <3> QED BY <1>0, <3>1, <3>2
  <2> QED BY <2>1, <2>3, <2>4, Zenon
<1> HIDE DEF e
<1>7. b \in Seq(S) /\ Len(b) = Len(e) + Len(T) /\ IsSlice(T, b, 1 + Len(e), 1 + Len(e) + Len(T))
  BY <1>5, JoinedSlices
<1>8. IsSlice(A, b, 1, a) /\ IsSlice(W, b, a, w) /\ IsSlice(P, b, w, p) /\ IsSlice(H, b, p, h)
  <2>2. a <= 1 + Len(e) /\ w <= 1 + Len(e) /\ p <= 1 + Len(e) /\ h <= 1 + Len(e) /\ 1 <= w /\ 1 <= p
    BY <1>0, <1>6
  <2> QED BY <1>0, <1>5, <1>6, <2>2, SliceKept
<1> HIDE DEF b
<1>9. Len(b) + 1 = h + Len(T) /\ h + Len(T) = 1 + Len(e) + Len(T)
  <2>1. Len(e) \in Nat
    BY <1>5
  <2> QED BY <1>0, <1>6, <1>7, <2>1
<1>10. IsSlice(T, b, h, Len(b) + 1)
  BY <1>6, <1>7, <1>9, Zenon
<1>11. FiveParts(b, A, W, P, H, T, a, w, p, h)
  BY <1>8, <1>9, <1>10, Zenon DEF FiveParts, a, w, p, h
<1>12. b = A \o W \o P \o H \o T
  BY Zenon DEF b, c, d, e
<1>13. a \in Nat /\ w \in Nat /\ p \in Nat /\ h \in Nat
  BY <1>0, Zenon
<1> QED BY <1>7, <1>11, <1>12, <1>13, Zenon

\* The runs of the grammar.
LEMMA RunsListed ==
  ASSUME NEW r \in DigitRuns
  PROVE  r \in Seq(SpecSymbols) /\ Len(r) \in Nat /\ Len(r) > 0 /\ \A k \in 1 .. Len(r) : r[k] \in Digits
<1>1. PICK m \in 0 .. MaxSpec : r \in [1 .. m -> SpecSymbols \cap Digits]
  BY Zenon DEF DigitRuns, Words
<1>2. r # <<>>
  BY Zenon DEF DigitRuns
<1>3. m \in Nat
  BY LineAssumption
<1>4. r \in Seq(SpecSymbols \cap Digits) /\ Len(r) = m
  BY <1>1, <1>3
<1>5. r \in Seq(SpecSymbols) /\ \A k \in 1 .. Len(r) : r[k] \in Digits
  BY <1>1, <1>3, <1>4
<1>6. Len(r) > 0
  BY <1>2, <1>3, <1>4
<1> QED BY <1>3, <1>4, <1>5, <1>6

\* The texts of each part, and the cut a part makes in the text it is a part of.
LEMMA AlignCutOf ==
  ASSUME NEW r \in AlignParts
  PROVE  /\ r.text \in Seq(SpecSymbols)
         /\ \A b, a : Len(b) \in Nat /\ a = 1 + Len(r.text) /\ a <= Len(b) + 1 /\ IsSlice(r.text, b, 1, a) => AlignCut(b, a)
<1> DEFINE s == r.text
           Goal == \A b, a : Len(b) \in Nat /\ a = 1 + Len(s) /\ a <= Len(b) + 1 /\ IsSlice(s, b, 1, a) => AlignCut(b, a)
<1>0. "<" \in SpecSymbols
  BY Zenon DEF SpecSymbols
<1>1. CASE s = <<>>
  <2> HIDE DEF s
  <2>1. s \in Seq(SpecSymbols) /\ Len(s) = 0
    BY <1>1
  <2>2. ASSUME NEW b, NEW a, Len(b) \in Nat, a = 1 + Len(s), a <= Len(b) + 1 PROVE AlignCut(b, a)
    <3>1. a \in 1 .. 3 /\ a # 2 /\ a # 3 /\ a <= Len(b) + 1
      BY <2>1, <2>2
    <3> QED BY <3>1, Zenon DEF AlignCut
  <2> QED BY <2>1, <2>2, Zenon DEF s
<1>2. CASE s = <<"<">>
  <2> HIDE DEF s
  <2>1. s \in Seq(SpecSymbols) /\ Len(s) = 1 /\ s[1] = "<"
    BY <1>0, <1>2
  <2>2. ASSUME NEW b, NEW a, Len(b) \in Nat, a = 1 + Len(s), a <= Len(b) + 1, IsSlice(s, b, 1, a) PROVE AlignCut(b, a)
    <3>1. a \in 1 .. 3 /\ a # 3 /\ a <= Len(b) + 1 /\ 1 \in 1 .. a - 1 /\ 1 + 1 - 1 = 1
      BY <2>1, <2>2
    <3>2. s[1] = b[1]
      BY <2>2, <3>1, Zenon DEF IsSlice
    <3> QED BY <2>1, <3>1, <3>2, Zenon DEF AlignCut
  <2> QED BY <2>1, <2>2, Zenon DEF s
<1>3. CASE \E f \in SpecSymbols \ {"0", "#", "+"} : s = <<f, "<">>
  <2>0. PICK f \in SpecSymbols \ {"0", "#", "+"} : s = <<f, "<">>
    BY <1>3, Zenon
  <2> HIDE DEF s
  <2>9. f \in SpecSymbols
    BY Zenon
  <2>1. s \in Seq(SpecSymbols) /\ Len(s) = 2 /\ s[1] = f /\ s[2] = "<"
    BY <1>0, <2>0, <2>9
  <2>2. ASSUME NEW b, NEW a, Len(b) \in Nat, a = 1 + Len(s), a <= Len(b) + 1, IsSlice(s, b, 1, a) PROVE AlignCut(b, a)
    <3>1. a \in 1 .. 3 /\ a # 2 /\ a <= Len(b) + 1 /\ 1 \in 1 .. a - 1 /\ 2 \in 1 .. a - 1 /\ 1 + 1 - 1 = 1 /\ 1 + 2 - 1 = 2
      BY <2>1, <2>2
    <3>2. \A k \in 1 .. a - 1 : s[k] = b[1 + k - 1]
      BY <2>2, Zenon DEF IsSlice
    <3>3. b[1] = f /\ b[2] = "<"
      <4>1. s[1] = b[1 + 1 - 1] /\ s[2] = b[1 + 2 - 1]
        BY <3>1, <3>2, Zenon
      <4>2. s[1] = b[1] /\ s[2] = b[2]
        BY <4>1
      <4> QED BY <2>1, <4>2, Zenon
    <3> QED BY <3>1, <3>3, Zenon DEF AlignCut
  <2> QED BY <2>1, <2>2, Zenon DEF s
<1>4. s = <<>> \/ s = <<"<">> \/ \E f \in SpecSymbols \ {"0", "#", "+"} : s = <<f, "<">>
  <2>1. CASE r = [text |-> <<>>, fill |-> " ", align |-> None]
    BY <2>1
  <2>2. CASE r = [text |-> <<"<">>, fill |-> " ", align |-> "Left"]
    BY <2>2
  <2>3. ASSUME NEW f \in SpecSymbols \ {"0", "#", "+"}, r = [text |-> <<f, "<">>, fill |-> f, align |-> "Left"]
        PROVE  s = <<f, "<">>
    BY <2>3
  <2> HIDE DEF s
  <2> QED BY <2>1, <2>2, <2>3, Zenon DEF AlignParts
<1> QED BY <1>1, <1>2, <1>3, <1>4, Zenon

\* The zero flag and the width.
LEMMA WidthCutOf ==
  ASSUME NEW r \in WidthParts
  PROVE  /\ r.text \in Seq(SpecSymbols)
         /\ \A b, w : \A a \in Nat :
              Len(b) \in Nat /\ w = a + Len(r.text) /\ w <= Len(b) + 1 /\ IsSlice(r.text, b, a, w)
                => \E z : WidthCut(b, a, z, w)
<1> DEFINE s == r.text
<1>0. "0" \in SpecSymbols /\ <<"0">> \in Seq(SpecSymbols) /\ Len(<<"0">>) = 1 /\ <<"0">>[1] = "0"
  <2>1. "0" \in SpecSymbols
    BY Zenon DEF SpecSymbols
  <2> QED BY <2>1
<1>1. CASE s = <<>>
  <2> HIDE DEF s
  <2>1. s \in Seq(SpecSymbols) /\ Len(s) = 0
    BY <1>1
  <2>2. ASSUME NEW b, NEW w, NEW a \in Nat, Len(b) \in Nat, w = a + Len(s), w <= Len(b) + 1
        PROVE  WidthCut(b, a, a, w)
    <3>1. w = a /\ a # a + 1 /\ w \in a .. Len(b) + 1 /\ ~(\E k \in a .. w - 1 : TRUE)
      BY <2>1, <2>2
    <3> QED BY <3>1, Zenon DEF WidthCut
  <2> QED BY <2>1, <2>2, Zenon DEF s
<1>2. CASE s = <<"0">>
  <2> HIDE DEF s
  <2>1. s \in Seq(SpecSymbols) /\ Len(s) = 1 /\ s[1] = "0"
    BY <1>0, <1>2, Zenon
  <2>2. ASSUME NEW b, NEW w, NEW a \in Nat, Len(b) \in Nat, w = a + Len(s), w <= Len(b) + 1, IsSlice(s, b, a, w)
        PROVE  WidthCut(b, a, a + 1, w)
    <3>1. w = a + 1 /\ a # a + 1 /\ w \in a + 1 .. Len(b) + 1 /\ ~(\E k \in a + 1 .. w - 1 : TRUE) /\ 1 \in 1 .. w - a /\ a + 1 - 1 = a
      BY <2>1, <2>2
    <3>2. b[a] = "0"
      BY <2>1, <2>2, <3>1, Zenon DEF IsSlice
    <3> QED BY <3>1, <3>2, Zenon DEF WidthCut
  <2> QED BY <2>1, <2>2, Zenon DEF s
<1>3. CASE \E x \in DigitRuns : x[1] # "0" /\ s = x
  <2>0. s \in DigitRuns /\ s[1] # "0"
    BY <1>3, Zenon
  <2> HIDE DEF s
  <2>1. s \in Seq(SpecSymbols) /\ Len(s) \in Nat /\ Len(s) > 0 /\ \A k \in 1 .. Len(s) : s[k] \in Digits
    BY <2>0, RunsListed
  <2>2. ASSUME NEW b, NEW w, NEW a \in Nat, Len(b) \in Nat, w = a + Len(s), w <= Len(b) + 1, IsSlice(s, b, a, w)
        PROVE  WidthCut(b, a, a, w)
    <3>1. w \in a .. Len(b) + 1 /\ a # a + 1 /\ 1 \in 1 .. w - a /\ a + 1 - 1 = a /\ w - a = Len(s)
      BY <2>1, <2>2
    <3>2. b[a] # "0"
      BY <2>0, <2>2, <3>1, Zenon DEF IsSlice
    <3>3. ASSUME NEW k \in a .. w - 1 PROVE b[k] \in Digits
      <4>1. k - a + 1 \in 1 .. w - a /\ a + (k - a + 1) - 1 = k
        BY <2>1, <2>2
      <4>2. s[k - a + 1] = b[k]
        BY <2>2, <4>1, Zenon DEF IsSlice
      <4> QED BY <2>1, <3>1, <4>1, <4>2, Zenon
    <3> QED BY <3>1, <3>2, <3>3, Zenon DEF WidthCut
  <2> QED BY <2>1, <2>2, Zenon DEF s
<1>4. CASE \E x \in DigitRuns : s = <<"0">> \o x
  <2>0. PICK x \in DigitRuns : s = <<"0">> \o x
    BY <1>4, Zenon
  <2> HIDE DEF s
  <2>1. x \in Seq(SpecSymbols) /\ Len(x) \in Nat /\ Len(x) > 0 /\ \A k \in 1 .. Len(x) : x[k] \in Digits
    BY RunsListed
  <2>2. s \in Seq(SpecSymbols) /\ AreJoined(s, <<"0">>, x)
    BY <1>0, <2>0, <2>1, JoinedTexts
  <2>3. Len(s) = 1 + Len(x) /\ \A i \in 1 .. Len(s) : s[i] = IF i <= 1 THEN <<"0">>[i] ELSE x[i - 1]
    BY <1>0, <2>2, Zenon DEF AreJoined
  <2>4. ASSUME NEW b, NEW w, NEW a \in Nat, Len(b) \in Nat, w = a + Len(s), w <= Len(b) + 1, IsSlice(s, b, a, w)
        PROVE  WidthCut(b, a, a + 1, w)
    <3>1. w \in a + 1 .. Len(b) + 1 /\ a # a + 1 /\ 1 \in 1 .. w - a /\ 1 \in 1 .. Len(s) /\ 1 <= 1 /\ a + 1 - 1 = a /\ w - a = Len(s)
      BY <2>1, <2>3, <2>4
    <3>2. b[a] = "0"
      BY <1>0, <2>3, <2>4, <3>1, Zenon DEF IsSlice
    <3>3. ASSUME NEW k \in a + 1 .. w - 1 PROVE b[k] \in Digits
      <4>1. k - a + 1 \in 1 .. w - a /\ a + (k - a + 1) - 1 = k /\ k - a + 1 \in 1 .. Len(s) /\ ~(k - a + 1 <= 1)
            /\ (k - a + 1) - 1 \in 1 .. Len(x)
        BY <2>1, <2>3, <2>4
      <4>2. s[k - a + 1] = b[k]
        BY <2>4, <4>1, Zenon DEF IsSlice
      <4>3. s[k - a + 1] = x[(k - a + 1) - 1]
        BY <2>3, <4>1, Zenon
      <4> QED BY <2>1, <4>1, <4>2, <4>3, Zenon
    <3> QED BY <3>1, <3>2, <3>3, Zenon DEF WidthCut
  <2> QED BY <2>2, <2>4, Zenon DEF s
<1>5. s = <<>> \/ s = <<"0">> \/ (\E x \in DigitRuns : x[1] # "0" /\ s = x) \/ (\E x \in DigitRuns : s = <<"0">> \o x)
  <2>1. CASE r = [text |-> <<>>, zero_fill |-> FALSE, width |-> Unset]
    BY <2>1
  <2>2. CASE r = [text |-> <<"0">>, zero_fill |-> TRUE, width |-> Unset]
    BY <2>2
  <2>3. ASSUME NEW x, r = [text |-> x, zero_fill |-> FALSE, width |-> U16(x)] PROVE s = x
    BY <2>3
  <2>4. ASSUME NEW x, r = [text |-> <<"0">> \o x, zero_fill |-> TRUE, width |-> U16(x)] PROVE s = <<"0">> \o x
    BY <2>4
  <2> HIDE DEF s
  <2> QED BY <2>1, <2>2, <2>3, <2>4, Zenon DEF WidthParts
<1> QED BY <1>1, <1>2, <1>3, <1>4, <1>5, Zenon

\* The precision.
LEMMA PrecisionCutOf ==
  ASSUME NEW r \in PrecisionParts
  PROVE  /\ r.text \in Seq(SpecSymbols)
         /\ \A b, p : \A w \in Nat :
              Len(b) \in Nat /\ p = w + Len(r.text) /\ p <= Len(b) + 1 /\ IsSlice(r.text, b, w, p) => PrecisionCut(b, w, p)
<1> DEFINE s == r.text
<1>0. "." \in SpecSymbols /\ <<".">> \in Seq(SpecSymbols) /\ Len(<<".">>) = 1 /\ <<".">>[1] = "."
  <2>1. "." \in SpecSymbols
    BY Zenon DEF SpecSymbols
  <2> QED BY <2>1
<1>1. CASE s = <<>>
  <2> HIDE DEF s
  <2>1. s \in Seq(SpecSymbols) /\ Len(s) = 0
    BY <1>1
  <2>2. ASSUME NEW b, NEW p, NEW w \in Nat, Len(b) \in Nat, p = w + Len(s), p <= Len(b) + 1
        PROVE  PrecisionCut(b, w, p)
    <3>1. p = w /\ p \in w .. Len(b) + 1
      BY <2>1, <2>2
    <3> QED BY <3>1, Zenon DEF PrecisionCut
  <2> QED BY <2>1, <2>2, Zenon DEF s
<1>2. CASE \E x \in DigitRuns : s = <<".">> \o x
  <2>0. PICK x \in DigitRuns : s = <<".">> \o x
    BY <1>2, Zenon
  <2> HIDE DEF s
  <2>1. x \in Seq(SpecSymbols) /\ Len(x) \in Nat /\ Len(x) > 0 /\ \A k \in 1 .. Len(x) : x[k] \in Digits
    BY RunsListed
  <2>2. s \in Seq(SpecSymbols) /\ AreJoined(s, <<".">>, x)
    BY <1>0, <2>0, <2>1, JoinedTexts
  <2>3. Len(s) = 1 + Len(x) /\ \A i \in 1 .. Len(s) : s[i] = IF i <= 1 THEN <<".">>[i] ELSE x[i - 1]
    BY <1>0, <2>2, Zenon DEF AreJoined
  <2>4. ASSUME NEW b, NEW p, NEW w \in Nat, Len(b) \in Nat, p = w + Len(s), p <= Len(b) + 1, IsSlice(s, b, w, p)
        PROVE  PrecisionCut(b, w, p)
    <3>1. p \in w .. Len(b) + 1 /\ p > w + 1 /\ 1 \in 1 .. p - w /\ 1 \in 1 .. Len(s) /\ 1 <= 1 /\ w + 1 - 1 = w
      BY <2>1, <2>3, <2>4
    <3>2. b[w] = "."
      BY <1>0, <2>3, <2>4, <3>1, Zenon DEF IsSlice
    <3>3. ASSUME NEW k \in w + 1 .. p - 1 PROVE b[k] \in Digits
      <4>1. k - w + 1 \in 1 .. p - w /\ w + (k - w + 1) - 1 = k /\ k - w + 1 \in 1 .. Len(s) /\ ~(k - w + 1 <= 1)
            /\ (k - w + 1) - 1 \in 1 .. Len(x)
        BY <2>1, <2>3, <2>4
      <4>2. s[k - w + 1] = b[k]
        BY <2>4, <4>1, Zenon DEF IsSlice
      <4>3. s[k - w + 1] = x[(k - w + 1) - 1]
        BY <2>3, <4>1, Zenon
      <4> QED BY <2>1, <4>1, <4>2, <4>3, Zenon
    <3> QED BY <3>1, <3>2, <3>3, Zenon DEF PrecisionCut
  <2> QED BY <2>2, <2>4, Zenon DEF s
<1>3. s = <<>> \/ \E x \in DigitRuns : s = <<".">> \o x
  <2>1. CASE r = [text |-> <<>>, precision |-> Unset]
    BY <2>1
  <2>2. ASSUME NEW x, r = [text |-> <<".">> \o x, precision |-> U16(x)] PROVE s = <<".">> \o x
    BY <2>2
  <2> HIDE DEF s
  <2> QED BY <2>1, <2>2, Zenon DEF PrecisionParts
<1> QED BY <1>1, <1>2, <1>3, Zenon

\* The alternate form.
LEMMA HashCutOf ==
  ASSUME NEW r \in HashParts
  PROVE  /\ r.text \in Seq(SpecSymbols)
         /\ \A b, h : \A p \in Nat :
              Len(b) \in Nat /\ h = p + Len(r.text) /\ h <= Len(b) + 1 /\ IsSlice(r.text, b, p, h) => HashCut(b, p, h)
<1> DEFINE s == r.text
<1>0. "#" \in SpecSymbols
  BY Zenon DEF SpecSymbols
<1>1. CASE s = <<>>
  <2> HIDE DEF s
  <2>1. s \in Seq(SpecSymbols) /\ Len(s) = 0
    BY <1>1
  <2>2. ASSUME NEW b, NEW h, NEW p \in Nat, Len(b) \in Nat, h = p + Len(s), h <= Len(b) + 1
        PROVE  HashCut(b, p, h)
    <3>1. h = p /\ p # p + 1
      BY <2>1, <2>2
    <3> QED BY <2>2, <3>1, Zenon DEF HashCut
  <2> QED BY <2>1, <2>2, Zenon DEF s
<1>2. CASE s = <<"#">>
  <2> HIDE DEF s
  <2>1. s \in Seq(SpecSymbols) /\ Len(s) = 1 /\ s[1] = "#"
    BY <1>0, <1>2
  <2>2. ASSUME NEW b, NEW h, NEW p \in Nat, Len(b) \in Nat, h = p + Len(s), h <= Len(b) + 1, IsSlice(s, b, p, h)
        PROVE  HashCut(b, p, h)
    <3>1. h = p + 1 /\ 1 \in 1 .. h - p /\ p + 1 - 1 = p
      BY <2>1, <2>2
    <3>2. b[p] = "#"
      BY <2>1, <2>2, <3>1, Zenon DEF IsSlice
    <3> QED BY <2>2, <3>1, <3>2, Zenon DEF HashCut
  <2> QED BY <2>1, <2>2, Zenon DEF s
<1>3. s = <<>> \/ s = <<"#">>
  <2>1. CASE r = [text |-> <<>>, alternate |-> FALSE]
    BY <2>1
  <2>2. CASE r = [text |-> <<"#">>, alternate |-> TRUE]
    BY <2>2
  <2> HIDE DEF s
  <2> QED BY <2>1, <2>2, Zenon DEF HashParts
<1> QED BY <1>1, <1>2, <1>3, Zenon

\* The type.
LEMMA TypeCutOf ==
  ASSUME NEW r \in TypeParts
  PROVE  /\ r.text \in Seq(SpecSymbols)
         /\ \A b : \A h \in Nat :
              Len(b) \in Nat /\ Len(b) + 1 = h + Len(r.text) /\ IsSlice(r.text, b, h, Len(b) + 1) => TypeCut(b, h)
<1> DEFINE s == r.text
<1>0. "x" \in SpecSymbols
  BY Zenon DEF SpecSymbols
<1>1. CASE s = <<>>
  <2> HIDE DEF s
  <2>1. s \in Seq(SpecSymbols) /\ Len(s) = 0
    BY <1>1
  <2>2. ASSUME NEW b, NEW h \in Nat, Len(b) \in Nat, Len(b) + 1 = h + Len(s)
        PROVE  TypeCut(b, h)
    BY <2>1, <2>2 DEF TypeCut
  <2> QED BY <2>1, <2>2, Zenon DEF s
<1>2. CASE s = <<"x">>
  <2> HIDE DEF s
  <2>1. s \in Seq(SpecSymbols) /\ Len(s) = 1 /\ s[1] = "x"
    BY <1>0, <1>2
  <2>2. ASSUME NEW b, NEW h \in Nat, Len(b) \in Nat, Len(b) + 1 = h + Len(s), IsSlice(s, b, h, Len(b) + 1)
        PROVE  TypeCut(b, h)
    <3>1. h = Len(b) /\ 1 \in 1 .. (Len(b) + 1) - h /\ h + 1 - 1 = h
      BY <2>1, <2>2
    <3>2. b[h] = "x"
      BY <2>1, <2>2, <3>1, Zenon DEF IsSlice
    <3> QED BY <3>1, <3>2, Zenon DEF TypeCut
  <2> QED BY <2>1, <2>2, Zenon DEF s
<1>3. s = <<>> \/ s = <<"x">>
  <2>1. CASE r = [text |-> <<>>, type_char |-> None]
    BY <2>1
  <2>2. CASE r = [text |-> <<"x">>, type_char |-> "x"]
    BY <2>2
  <2> HIDE DEF s
  <2> QED BY <2>1, <2>2, Zenon DEF TypeParts
<1> QED BY <1>1, <1>2, <1>3, Zenon

\* A text of the grammar has a layout.
LEMMA GrammarLayout ==
  ASSUME NEW b \in SpecTexts
  PROVE  b \in Seq(SpecSymbols) /\ \E a, z, w, p, h : Layout(b, a, z, w, p, h)
<1> DEFINE Q == [a : AlignParts, w : WidthParts, p : PrecisionParts, h : HashParts, t : TypeParts]
<1>1. PICK g \in SpecGrammar : b = g[1]
  BY Zenon DEF SpecTexts
<1>2. PICK q \in Q : g = <<SpecText(q), SpecMeaning(q)>>
  BY Zenon DEF SpecGrammar
<1>3. b = SpecText(q)
  BY <1>1, <1>2
<1>4. q.a \in AlignParts /\ q.w \in WidthParts /\ q.p \in PrecisionParts /\ q.h \in HashParts /\ q.t \in TypeParts
  BY Zenon
<1> DEFINE A == q.a.text
           W == q.w.text
           P == q.p.text
           H == q.h.text
           T == q.t.text
<1>5. A \in Seq(SpecSymbols) /\ W \in Seq(SpecSymbols) /\ P \in Seq(SpecSymbols) /\ H \in Seq(SpecSymbols) /\ T \in Seq(SpecSymbols)
  BY <1>4, AlignCutOf, WidthCutOf, PrecisionCutOf, HashCutOf, TypeCutOf, Zenon
<1>6. b = A \o W \o P \o H \o T
  BY <1>3, Zenon DEF SpecText
<1>c. /\ \A a : Len(b) \in Nat /\ a = 1 + Len(A) /\ a <= Len(b) + 1 /\ IsSlice(A, b, 1, a) => AlignCut(b, a)
      /\ \A w : \A a \in Nat : Len(b) \in Nat /\ w = a + Len(W) /\ w <= Len(b) + 1 /\ IsSlice(W, b, a, w)
                                 => \E z : WidthCut(b, a, z, w)
      /\ \A p : \A w \in Nat : Len(b) \in Nat /\ p = w + Len(P) /\ p <= Len(b) + 1 /\ IsSlice(P, b, w, p)
                                 => PrecisionCut(b, w, p)
      /\ \A h : \A p \in Nat : Len(b) \in Nat /\ h = p + Len(H) /\ h <= Len(b) + 1 /\ IsSlice(H, b, p, h)
                                 => HashCut(b, p, h)
      /\ \A h \in Nat : Len(b) \in Nat /\ Len(b) + 1 = h + Len(T) /\ IsSlice(T, b, h, Len(b) + 1) => TypeCut(b, h)
  BY <1>4, AlignCutOf, WidthCutOf, PrecisionCutOf, HashCutOf, TypeCutOf, Zenon
<1> HIDE DEF A, W, P, H, T
<1>7. /\ b \in Seq(SpecSymbols)
      /\ \E a, w, p, h \in Nat : FiveParts(b, A, W, P, H, T, a, w, p, h)
  BY <1>5, <1>6, Spliced
<1>8. PICK a \in Nat, w \in Nat, p \in Nat, h \in Nat : FiveParts(b, A, W, P, H, T, a, w, p, h)
  BY <1>7, Zenon
<1>9. /\ a = 1 + Len(A) /\ w = a + Len(W) /\ p = w + Len(P) /\ h = p + Len(H) /\ Len(b) + 1 = h + Len(T)
      /\ IsSlice(A, b, 1, a) /\ IsSlice(W, b, a, w) /\ IsSlice(P, b, w, p) /\ IsSlice(H, b, p, h)
      /\ IsSlice(T, b, h, Len(b) + 1)
  BY <1>8, Zenon DEF FiveParts
<1>10. Len(b) \in Nat /\ a <= Len(b) + 1 /\ w <= Len(b) + 1 /\ p <= Len(b) + 1 /\ h <= Len(b) + 1
  <2>1. Len(W) \in Nat /\ Len(P) \in Nat /\ Len(H) \in Nat /\ Len(T) \in Nat /\ Len(b) \in Nat
    BY <1>5, <1>7
  <2>2. w = a + Len(W) /\ p = w + Len(P) /\ h = p + Len(H) /\ Len(b) + 1 = h + Len(T)
    BY <1>9, Zenon
  <2> QED BY <2>1, <2>2
<1>11. AlignCut(b, a) /\ PrecisionCut(b, w, p) /\ HashCut(b, p, h) /\ TypeCut(b, h)
  BY <1>9, <1>10, <1>c, Zenon
<1>12. PICK z : WidthCut(b, a, z, w)
  BY <1>9, <1>10, <1>c, Zenon
<1> QED BY <1>7, <1>11, <1>12, Zenon DEF Layout

\* For every text of the alphabet, up to the bound on its length: the scanner
\* of the line patterns (validate_spec_rt) accepts it exactly when it is in the
\* grammar, and parse_spec_body then reads the meaning the grammar gives it.
THEOREM GrammarScanned ==
  ASSUME NEW b \in Seq(SpecSymbols), Len(b) <= MaxSpec
  PROVE  /\ validate_spec_rt(b) <=> b \in SpecTexts
         /\ b \in SpecTexts => <<b, parse_spec_body(b)>> \in SpecGrammar
<1>1. ASSUME b \in SpecTexts PROVE validate_spec_rt(b)
  <2>1. PICK a, z, w, p, h : Layout(b, a, z, w, p, h)
    BY <1>1, GrammarLayout
  <2>2. Len(b) \in Nat /\ DOMAIN b = 1 .. Len(b)
    OBVIOUS
  <2> QED BY <2>1, <2>2, LayoutAccepted
<1>2. ASSUME validate_spec_rt(b) PROVE <<b, parse_spec_body(b)>> \in SpecGrammar
  <2> DEFINE a == AfterAlign(b, 1)
             z == AfterZero(b, a)
             w == SkipDigits(b, z)
             p == AfterPrecision(b, w)
             h == AfterHash(b, p)
             m == [fill |-> AlignPart(b, a).fill, align |-> AlignPart(b, a).align,
                   zero_fill |-> WidthPart(b, a, z, w).zero_fill, width |-> WidthPart(b, a, z, w).width,
                   precision |-> PrecisionPart(b, w, p).precision, alternate |-> HashPart(b, p, h).alternate,
                   type_char |-> TypePart(b, h).type_char]
  <2>1. p # Err /\ Layout(b, a, z, w, p, h)
    BY <1>2, AcceptedLayout, Zenon
  <2>2. parse_spec_body(b) = m
    BY <2>1, BodyParts, Zenon
  <2> HIDE DEF a, z, w, p, h
  <2>3. <<b, m>> \in SpecGrammar
    BY <2>1, LayoutInGrammar
  <2> QED BY <2>2, <2>3, Zenon
<1>3. ASSUME validate_spec_rt(b) PROVE b \in SpecTexts
  <2> DEFINE g == <<b, parse_spec_body(b)>>
  <2>1. g \in SpecGrammar
    BY <1>2, <1>3
  <2>2. b = g[1]
    OBVIOUS
  <2> HIDE DEF g
  <2> QED BY <2>1, <2>2, Zenon DEF SpecTexts
<1> QED BY <1>1, <1>2, <1>3

\* A spec under examination is a text of the alphabet within the bound.
SpecInv == part = "spec" => input \in Seq(SpecSymbols) /\ Len(input) <= MaxSpec

\* It is in the beginning.
LEMMA SpecInvInit == LineInit => SpecInv
<1> SUFFICES ASSUME LineInit, part = "spec" PROVE input \in Seq(SpecSymbols) /\ Len(input) <= MaxSpec
  BY DEF SpecInv
<1>1. input = <<>>
  BY DEF LineInit
<1>2. MaxSpec \in Nat
  BY LineAssumption
<1> QED BY <1>1, <1>2

\* Each step keeps it so.
LEMMA SpecInvStep == SpecInv /\ [LineNext]_lineVars => SpecInv'
<1> SUFFICES ASSUME SpecInv, [LineNext]_lineVars, part' = "spec"
             PROVE  input' \in Seq(SpecSymbols) /\ Len(input') <= MaxSpec
  BY DEF SpecInv
<1>0. MaxSpec \in Nat
  BY LineAssumption
<1>1. CASE UNCHANGED lineVars
  BY <1>1 DEF SpecInv, lineVars
<1>2. CASE GrowSpec
  <2>1. PICK c \in SpecSymbols : input' = Append(input, c)
    BY <1>2 DEF GrowSpec, Grow
  <2>2. part = "spec" /\ Len(input) < MaxSpec
    BY <1>2 DEF GrowSpec, Grow
  <2>3. input \in Seq(SpecSymbols)
    BY <2>2 DEF SpecInv
  <2>4. Append(input, c) \in Seq(SpecSymbols) /\ Len(Append(input, c)) = Len(input) + 1
    BY <2>3, AppendProperties, Zenon
  <2>5. Len(input) \in Nat
    BY <2>3
  <2> QED BY <1>0, <2>1, <2>2, <2>4, <2>5
<1>3. CASE GrowFmt \/ GrowPattern \/ GrowCall
  BY <1>3, Zenon DEF GrowFmt, GrowPattern, GrowCall, Grow
<1>4. CASE GrowFlags \/ PickInteger \/ NextDay
  BY <1>4, Zenon DEF GrowFlags, PickInteger, NextDay
<1> QED BY <1>1, <1>2, <1>3, <1>4, Zenon DEF LineNext

\* The run's property, from the two theorems above: the three scanners agree
\* with each other and with the grammar on every spec of the machine.
THEOREM LineSpecScannersAgree == LineSpec => []SpecScannersAgree
<1>1. SpecInv => SpecScannersAgree
  <2> SUFFICES ASSUME SpecInv, part = "spec" PROVE SpecScannersAgree
    BY Zenon DEF SpecScannersAgree
  <2> DEFINE S == SpecSymbols \cup {Brace}
             Tails == {<<>>, <<"<">>, <<"x", Brace>>}
  <2>1. input \in Seq(SpecSymbols) /\ Len(input) <= MaxSpec
    BY DEF SpecInv
  <2>2. Brace \in S /\ "<" \in S /\ "x" \in S
    BY Zenon DEF SpecSymbols
  <2>3. Brace \notin SpecSymbols
    BY Zenon DEF SpecSymbols, Brace
  <2>4. input \in Seq(S) /\ \A i \in DOMAIN input : input[i] # Brace
    BY <2>1, <2>3
  <2> HIDE DEF S
  <2>5. \A tail \in Tails : tail \in Seq(S)
    <3>1. <<>> \in Seq(S) /\ <<"<">> \in Seq(S) /\ <<"x", Brace>> \in Seq(S)
      BY <2>2
    <3> QED BY <3>1, Zenon
  <2>6. /\ validate_spec_rt(input) <=> input \in SpecTexts
        /\ input \in SpecTexts => <<input, parse_spec_body(input)>> \in SpecGrammar
    BY <2>1, GrammarScanned
  <2>7. ASSUME NEW tail \in Tails
        PROVE  parse_spec_const(input \o <<Brace>> \o tail, 1) = Len(input) + 1 <=> input \in SpecTexts
    <3>1. tail \in Seq(S)
      BY <2>5, <2>7, Zenon
    <3>2. parse_spec_const(input \o <<Brace>> \o tail, 1) = Len(input) + 1 <=> validate_spec_rt(input)
      BY <2>2, <2>4, <3>1, ScannersAgree
    <3> QED BY <2>6, <3>2, Zenon
  <2> QED BY <2>6, <2>7, Zenon DEF SpecScannersAgree, Brace
<1> QED BY <1>1, SpecInvInit, SpecInvStep, PTL DEF LineSpec

-----------------------------------------------------------------------------
(* Format strings.                                                          *)

\* The least of a set of positions, or the end of the text.
LEMMA LeastPosition ==
  ASSUME NEW n \in Nat, NEW i \in 1 .. n + 1, NEW A \in SUBSET (i .. n)
  PROVE  LET m == Min(A \cup {Max({i, n + 1})})
         IN m \in Nat /\ m \in i .. n + 1 /\ (m <= n => m \in A) /\ \A k \in i .. m - 1 : k \notin A
<1> DEFINE e == n + 1
           T == A \cup {e}
<1>1. Max({i, e}) = e
  <2>1. i \in Int /\ e \in Int /\ (i >= e => i = e)
    OBVIOUS
  <2> HIDE DEF e
  <2>2. Max({i, e}) = IF i >= e THEN i ELSE e
    BY <2>1, MaxOf
  <2> QED BY <2>1, <2>2, Zenon
<1>3. T \subseteq Nat /\ T # {}
  OBVIOUS
<1>4. PICK m \in T : \A k \in T : m <= k
  <2> HIDE DEF T
  <2> QED BY <1>3, LeastNatural
<1>5. Min(T) = m
  <2> DEFINE D(x) == x \in T /\ \A y \in T : x <= y
  <2>1. \A x : D(x) => x = m
    <3> TAKE x
    <3> HAVE D(x)
    <3>1. x \in T /\ x <= m /\ m <= x
      BY <1>4, Zenon
    <3>2. x \in Nat /\ m \in Nat
      BY <1>3, <1>4, <3>1, Zenon
    <3> HIDE DEF T
    <3> QED BY <3>1, <3>2
  <2>2. D(m)
    BY <1>4, Zenon
  <2>3. Min(T) = CHOOSE x \in T : \A y \in T : x <= y
    BY Zenon DEF Min
  <2> HIDE DEF T
  <2> QED BY <2>1, <2>2, <2>3, Zenon
<1>6. m \in i .. e /\ m \in Nat
  BY <1>3, <1>4
<1>7. \A k \in i .. m - 1 : k \notin A
  <2> SUFFICES ASSUME NEW k \in i .. m - 1, k \in A PROVE FALSE
    OBVIOUS
  <2>1. ~(m <= k)
    BY <1>6
  <2> QED BY <1>4, <2>1, Zenon
<1>8. m <= n => m \in A
  <2> HAVE m <= n
  <2>1. m # e
    BY <1>6
  <2> QED BY <1>4, <2>1, Zenon
<1> QED BY <1>1, <1>5, <1>6, <1>7, <1>8, Zenon

\* The first place from i on, if any, with a symbol of C.
FirstAt(s, i, C, j) ==
  /\ j \in i .. Len(s) + 1
  /\ \A k \in i .. j - 1 : s[k] \notin C
  /\ j <= Len(s) => s[j] \in C

\* A search ends there.
LEMMA FirstFound ==
  ASSUME NEW s, Len(s) \in Nat, NEW i \in 1 .. Len(s) + 1, NEW C
  PROVE  FirstAt(s, i, C, FirstOf(s, i, C)) /\ FirstOf(s, i, C) \in Nat
<1> DEFINE n == Len(s)
           A == {j \in i .. n : s[j] \in C}
           m == Min(A \cup {Max({i, n + 1})})
<1>1. m \in Nat /\ m \in i .. n + 1 /\ (m <= n => m \in A) /\ \A k \in i .. m - 1 : k \notin A
  <2>1. A \in SUBSET (i .. n)
    OBVIOUS
  <2> HIDE DEF A
  <2> QED BY <2>1, LeastPosition
<1>2. FirstOf(s, i, C) = m
  BY Zenon DEF FirstOf
<1> HIDE DEF m
<1>3. \A k \in i .. m - 1 : s[k] \notin C
  <2> TAKE k \in i .. m - 1
  <2>1. k \in i .. n
    BY <1>1
  <2> QED BY <1>1, <2>1, Zenon
<1>4. FirstAt(s, i, C, m)
  BY <1>1, <1>3, Zenon DEF FirstAt
<1> QED BY <1>1, <1>2, <1>4, Zenon

\* There is one such place.
LEMMA FirstOnce ==
  ASSUME NEW s, Len(s) \in Nat, NEW i \in Nat, NEW C, NEW j, NEW k, FirstAt(s, i, C, j), FirstAt(s, i, C, k)
  PROVE  j = k
<1>1. j \in Nat /\ k \in Nat /\ i <= j /\ i <= k /\ j <= Len(s) + 1 /\ k <= Len(s) + 1
  BY DEF FirstAt
<1>2. ASSUME j < k PROVE FALSE
  <2>1. j \in i .. k - 1 /\ j <= Len(s)
    BY <1>1, <1>2
  <2> QED BY <2>1, Zenon DEF FirstAt
<1>3. ASSUME k < j PROVE FALSE
  <2>1. k \in i .. j - 1 /\ k <= Len(s)
    BY <1>1, <1>3
  <2> QED BY <2>1, Zenon DEF FirstAt
<1> QED BY <1>1, <1>2, <1>3

\* No closing brace from i to just before j.
Free(s, i, j) == j \in i .. Len(s) + 1 /\ \A k \in i .. j - 1 : s[k] # Brace

\* One symbol more.
LEMMA FreeStep ==
  ASSUME NEW s, Len(s) \in Nat, DOMAIN s = 1 .. Len(s), NEW i \in Nat, NEW j, Free(s, i, j), j \in DOMAIN s, s[j] # Brace
  PROVE  Free(s, i, j + 1)
<1>0. j \in i .. Len(s) + 1
  BY Zenon DEF Free
<1>1. j + 1 \in i .. Len(s) + 1 /\ j \in Nat
  BY <1>0
<1>2. ASSUME NEW k \in i .. (j + 1) - 1 PROVE s[k] # Brace
  <2>1. k = j \/ k \in i .. j - 1
    BY <1>1
  <2> QED BY <2>1, Zenon DEF Free
<1> QED BY <1>1, <1>2, Zenon DEF Free

\* And a run of digits more.
LEMMA FreeDigits ==
  ASSUME NEW s, Len(s) \in Nat, DOMAIN s = 1 .. Len(s), NEW i \in Nat, 1 <= i, NEW j, Free(s, i, j)
  PROVE  Free(s, i, SkipDigits(s, j))
<1>0. j \in i .. Len(s) + 1
  BY Zenon DEF Free
<1>1. j \in 1 .. Len(s) + 1 /\ j \in Nat
  BY <1>0
<1> DEFINE w == SkipDigits(s, j)
<1>2. StopsAt(s, j, w) /\ w \in Nat
  BY <1>1, SkipStops
<1> HIDE DEF w
<1>3. w \in j .. Len(s) + 1 /\ \A k \in j .. w - 1 : s[k] \in Digits
  BY <1>2, Zenon DEF StopsAt
<1>4. w \in i .. Len(s) + 1
  BY <1>0, <1>1, <1>3
<1>5. ASSUME NEW k \in i .. w - 1 PROVE s[k] # Brace
  <2>1. k \in i .. j - 1 \/ k \in j .. w - 1
    BY <1>0, <1>1, <1>3
  <2> QED BY <1>3, <2>1, BraceClass, Zenon DEF Free
<1> QED BY <1>4, <1>5, Zenon DEF Free, w

\* parse_spec_const passes over no closing brace.
LEMMA SpecFree ==
  ASSUME NEW s, Len(s) \in Nat, DOMAIN s = 1 .. Len(s), NEW i \in Nat, 1 <= i, parse_spec_const(s, i) # Err
  PROVE  Free(s, i, parse_spec_const(s, i))
<1>0. i \in 1 .. Len(s) /\ ~(i > Len(s)) /\ i \in DOMAIN s
  <2>1. ~(i > Len(s))
    BY Zenon DEF parse_spec_const
  <2> QED BY <2>1
<1>1. Free(s, i, i)
  <2>1. i \in i .. Len(s) + 1 /\ ~(\E k \in i .. i - 1 : TRUE)
    BY <1>0
  <2> QED BY <2>1, Zenon DEF Free
<1>2. CASE s[i] = Brace
  <2>1. parse_spec_const(s, i) = i
    BY <1>0, <1>2, Zenon DEF parse_spec_const, Brace
  <2> QED BY <1>1, <2>1, Zenon
<1>3. CASE s[i] # Brace
  <2> DEFINE a == AfterAlign(s, i)
             z == AfterZero(s, a)
             w == SkipDigits(s, z)
             p == AfterPrecision(s, w)
             h == AfterHash(s, p)
             t == ToType(s, i)
  <2>1. parse_spec_const(s, i) = AfterType(s, t)
    BY <1>0, <1>3, Zenon DEF parse_spec_const, Brace
  <2>2. t # Err
    BY <2>1, Zenon DEF AfterType
  <2>3. p # Err /\ t = h
    <3>1. t = IF i + 1 <= Len(s) /\ is_align_char(s[i + 1]) /\ ~is_valid_fill(s[i]) THEN Err
              ELSE IF p = Err THEN Err ELSE h
      BY Zenon DEF ToType
    <3> HIDE DEF t, p, h
    <3> QED BY <2>2, <3>1, Zenon
  <2>4. Free(s, i, a)
    <3>1. Free(s, i, i + 1)
      BY <1>0, <1>1, <1>3, FreeStep
    <3>2. CASE i + 1 <= Len(s) /\ is_align_char(s[i + 1])
      <4>1. i + 1 \in DOMAIN s /\ (i + 1) + 1 = i + 2
        BY <1>0, <3>2
      <4>2. s[i + 1] # Brace
        BY <3>2, BraceClass, Zenon DEF is_align_char
      <4>3. Free(s, i, (i + 1) + 1)
        BY <3>1, <4>1, <4>2, FreeStep
      <4>4. a = i + 2
        BY <3>2, Zenon DEF AfterAlign
      <4> QED BY <4>1, <4>3, <4>4, Zenon
    <3>3. CASE ~(i + 1 <= Len(s) /\ is_align_char(s[i + 1]))
      <4>1. a = IF At(s, i, DOMAIN AlignOf) THEN i + 1 ELSE i
        BY <3>3, Zenon DEF AfterAlign
      <4> QED BY <1>1, <3>1, <4>1, Zenon
    <3> QED BY <3>2, <3>3
  <2> HIDE DEF a
  <2>5. Free(s, i, z)
    <3>1. CASE At(s, a, {"0"})
      <4>1. a \in DOMAIN s /\ s[a] # Brace /\ z = a + 1
        BY <3>1, BraceClass, Zenon DEF At, AfterZero
      <4>2. Free(s, i, a + 1)
        BY <2>4, <4>1, FreeStep
      <4> QED BY <4>1, <4>2, Zenon
    <3>2. CASE ~At(s, a, {"0"})
      BY <2>4, <3>2, Zenon DEF AfterZero
    <3> QED BY <3>1, <3>2
  <2> HIDE DEF z
  <2>6. Free(s, i, w)
    BY <2>5, FreeDigits
  <2> HIDE DEF w
  <2>7. Free(s, i, p)
    <3>1. CASE At(s, w, {"."})
      <4>1. w \in DOMAIN s /\ s[w] # Brace
        BY <3>1, BraceClass, Zenon DEF At
      <4>2. Free(s, i, w + 1)
        BY <2>6, <4>1, FreeStep
      <4>3. Free(s, i, SkipDigits(s, w + 1))
        BY <4>2, FreeDigits
      <4>4. p = SkipDigits(s, w + 1)
        BY <2>3, <3>1, Zenon DEF AfterPrecision
      <4> QED BY <4>3, <4>4, Zenon
    <3>2. CASE ~At(s, w, {"."})
      BY <2>6, <3>2, Zenon DEF AfterPrecision
    <3> QED BY <3>1, <3>2
  <2> HIDE DEF p
  <2>8. Free(s, i, t)
    <3>1. CASE At(s, p, {"#"})
      <4>1. p \in DOMAIN s /\ s[p] # Brace /\ h = p + 1
        BY <3>1, BraceClass, Zenon DEF At, AfterHash
      <4>2. Free(s, i, p + 1)
        BY <2>7, <4>1, FreeStep
      <4> QED BY <2>3, <4>1, <4>2, Zenon
    <3>2. CASE ~At(s, p, {"#"})
      BY <2>3, <2>7, <3>2, Zenon DEF AfterHash
    <3> QED BY <3>1, <3>2
  <2> HIDE DEF h, t
  <2>9. CASE t > Len(s) \/ s[t] = Brace
    BY <2>1, <2>2, <2>8, <2>9, Zenon DEF AfterType, Brace
  <2>10. CASE ~(t > Len(s)) /\ s[t] # Brace
    <3>1. t \in i .. Len(s) + 1
      BY <2>8, Zenon DEF Free
    <3>2. t \in DOMAIN s
      BY <2>10, <3>1
    <3>3. AfterType(s, t) = IF s[t] \in TypeChars THEN t + 1 ELSE Err
      BY <2>2, <2>10, Zenon DEF AfterType, Brace
    <3>4. AfterType(s, t) = t + 1
      BY <2>1, <3>3, Zenon
    <3>5. Free(s, i, t + 1)
      BY <2>8, <2>10, <3>2, FreeStep
    <3> QED BY <2>1, <3>4, <3>5, Zenon
  <2> QED BY <2>9, <2>10, Zenon
<1> QED BY <1>2, <1>3

\* step looks at the values after the one it computes only.
LooksAhead(step, N, V) ==
  \A i \in 1 .. N : \A f, g \in [1 .. N -> V] :
    (\A j \in i + 1 .. N : f[j] = g[j]) => step[<<i, f>>] = step[<<i, g>>]

\* step stays among the values.
Advances(step, N, V) == \A i \in 1 .. N : \A f \in [1 .. N -> V] : step[<<i, f>>] \in V

\* A recursion from the end of a text to its beginning defines a function.
LEMMA Descending ==
  ASSUME NEW N \in Nat, NEW V, NEW v0 \in V, NEW step,
         Advances(step, N, V), LooksAhead(step, N, V)
  PROVE  \E f \in [1 .. N -> V] : \A i \in 1 .. N : f[i] = step[<<i, f>>]
<1> DEFINE F == [1 .. N -> V]
           Solves(f, m) == \A i \in (N - m) + 1 .. N : f[i] = step[<<i, f>>]
           T == {m \in 0 .. N : \E f \in F : Solves(f, m)}
<1>1. 0 \in T
  <2> DEFINE f == [i \in 1 .. N |-> v0]
  <2>1. f \in F /\ 0 \in 0 .. N
    OBVIOUS
  <2> HIDE DEF f
  <2>2. Solves(f, 0)
    OBVIOUS
  <2> HIDE DEF Solves, F
  <2> QED BY <2>1, <2>2
<1>2. ASSUME NEW m \in T, m < N PROVE m + 1 \in T
  <2>1. PICK f \in F : Solves(f, m)
    OBVIOUS
  <2> DEFINE k == N - m
             g == [f EXCEPT ![k] = step[<<k, f>>]]
  <2>2. m \in Nat /\ k \in 1 .. N /\ m + 1 \in 0 .. N /\ (N - (m + 1)) + 1 = k
    BY <1>2
  <2>3. step[<<k, f>>] \in V
    BY <2>2 DEF Advances
  <2>4. g \in F /\ g[k] = step[<<k, f>>] /\ \A j \in 1 .. N : j # k => g[j] = f[j]
    <3> HIDE DEF k
    <3> QED BY <2>2, <2>3
  <2> HIDE DEF g
  <2>5. ASSUME NEW i \in k .. N PROVE g[i] = step[<<i, g>>]
    <3>1. i \in 1 .. N /\ \A j \in i + 1 .. N : j \in 1 .. N /\ j # k
      BY <2>2
    <3>2. step[<<i, g>>] = step[<<i, f>>]
      <4>1. \A j \in i + 1 .. N : f[j] = g[j]
        BY <2>4, <3>1, Zenon
      <4>2. f \in [1 .. N -> V] /\ g \in [1 .. N -> V]
        BY <2>4
      <4> QED BY <3>1, <4>1, <4>2, Zenon DEF LooksAhead
    <3>3. CASE i = k
      BY <2>4, <3>2, <3>3, Zenon
    <3>4. CASE i # k
      <4>1. i \in (N - m) + 1 .. N
        BY <2>2, <3>4
      <4> QED BY <2>1, <2>4, <3>1, <3>2, <3>4, <4>1, Zenon
    <3> QED BY <3>3, <3>4
  <2>6. Solves(g, m + 1)
    <3>1. (N - (m + 1)) + 1 .. N = k .. N
      BY <2>2
    <3> QED BY <2>5, <3>1, Zenon
  <2> HIDE DEF Solves, F
  <2> QED BY <2>2, <2>4, <2>6
<1>3. T = 0 .. N
  <2> HIDE DEF T
  <2>1. T \in SUBSET (0 .. N)
    BY DEF T
  <2> QED BY <1>1, <1>2, <2>1, Induction
<1>4. PICK f \in F : Solves(f, N)
  <2>0. N \in 0 .. N
    OBVIOUS
  <2>1. N \in T
    BY <1>3, <2>0, Zenon
  <2> QED BY <2>1
<1>5. \A i \in 1 .. N : i \in (N - N) + 1 .. N
  OBVIOUS
<1> QED BY <1>4, <1>5, Zenon

\* A function that stays in V when it does so further on stays in V.
LEMMA Descends ==
  ASSUME NEW N \in Nat, NEW V, NEW g, g = [i \in 1 .. N |-> g[i]],
         \A i \in 1 .. N : (\A j \in i + 1 .. N : g[j] \in V) => g[i] \in V
  PROVE  g \in [1 .. N -> V]
<1> DEFINE T == {m \in 0 .. N : \A i \in (N - m) + 1 .. N : g[i] \in V}
<1>1. 0 \in T
  OBVIOUS
<1>2. ASSUME NEW m \in T, m < N PROVE m + 1 \in T
  <2> DEFINE k == N - m
  <2>1. /\ m \in Nat /\ k \in 1 .. N /\ m + 1 \in 0 .. N /\ (N - (m + 1)) + 1 .. N = k .. N
        /\ \A i \in k .. N : i = k \/ i \in k + 1 .. N
    BY <1>2
  <2>2. \A i \in k + 1 .. N : g[i] \in V
    BY <1>2
  <2> HIDE DEF k
  <2>3. g[k] \in V
    BY <2>1, <2>2, Zenon
  <2>4. \A i \in (N - (m + 1)) + 1 .. N : g[i] \in V
    BY <2>1, <2>2, <2>3, Zenon
  <2> QED BY <2>1, <2>4
<1>3. T = 0 .. N
  <2> HIDE DEF T
  <2>1. T \in SUBSET (0 .. N)
    BY DEF T
  <2> QED BY <1>1, <1>2, <2>1, Induction
<1>4. \A i \in 1 .. N : g[i] \in V
  <2>1. N \in 0 .. N /\ \A i \in 1 .. N : i \in (N - N) + 1 .. N
    OBVIOUS
  <2>2. N \in T
    BY <1>3, <2>1, Zenon
  <2> QED BY <2>1, <2>2, Zenon
<1> QED BY <1>4

\* The piece of a format string that begins at i, and where the next begins.
PlaceOf(s, i) == Place("", parse_placeholder(SubSeq(s, i + 1, FirstOf(s, i + 1, {"}"}) - 1)).spec)

PieceOf(s, i) ==
  IF s[i] = "{" /\ At(s, i + 1, {"{"}) THEN Lit("{")
  ELSE IF s[i] = "{" THEN PlaceOf(s, i)
  ELSE IF s[i] = "}" THEN Lit(IF At(s, i + 1, {"}"}) THEN "}" ELSE LoneBrace)
  ELSE Lit(s[i])

NextPiece(s, i) ==
  IF s[i] = "{" /\ At(s, i + 1, {"{"}) THEN i + 2
  ELSE IF s[i] = "{" THEN Min({FirstOf(s, i + 1, {"}"}) + 1, Len(s) + 1})
  ELSE IF s[i] = "}" THEN i + 2
  ELSE i + 1

\* f cuts the rest of s into pieces, from each position on.
Cuts(s, f) ==
  /\ f \in [1 .. Len(s) + 2 -> Seq({PieceOf(s, i) : i \in 1 .. Len(s)})]
  /\ \A i \in 1 .. Len(s) + 2 :
       f[i] = IF i > Len(s) THEN <<>> ELSE <<PieceOf(s, i)>> \o f[NextPiece(s, i)]

\* The scan goes on.
LEMMA NextAfter ==
  ASSUME NEW s, Len(s) \in Nat, NEW i \in 1 .. Len(s)
  PROVE  NextPiece(s, i) \in i + 1 .. Len(s) + 2
<1>1. i + 1 \in i + 1 .. Len(s) + 2 /\ i + 2 \in i + 1 .. Len(s) + 2
  OBVIOUS
<1> DEFINE j == FirstOf(s, i + 1, {"}"})
<1>2. Min({j + 1, Len(s) + 1}) \in i + 1 .. Len(s) + 2
  <2>1. i + 1 \in 1 .. Len(s) + 1
    OBVIOUS
  <2>2. FirstAt(s, i + 1, {"}"}, j) /\ j \in Nat
    BY <2>1, FirstFound, Zenon
  <2> HIDE DEF j
  <2>3. j \in i + 1 .. Len(s) + 1
    BY <2>2, Zenon DEF FirstAt
  <2> DEFINE x == j + 1
             y == Len(s) + 1
  <2>4. x \in i + 2 .. Len(s) + 2 /\ y \in i + 1 .. Len(s) + 1 /\ x \in Int /\ y \in Int
    BY <2>3
  <2> HIDE DEF x, y
  <2>5. Min({x, y}) = IF x <= y THEN x ELSE y
    BY <2>4, MinOfTwo
  <2>6. Min({x, y}) \in i + 1 .. Len(s) + 2
    BY <2>4, <2>5
  <2> QED BY <2>6, Zenon DEF x, y
<1> QED BY <1>1, <1>2, Zenon DEF NextPiece

\* Pieces is such a cut.
LEMMA PiecesCut ==
  ASSUME NEW S, NEW s \in Seq(S)
  PROVE  \E f : Cuts(s, f) /\ Pieces(s) = f[1]
<1> DEFINE n == Len(s)
           N == n + 2
           U == {PieceOf(s, i) : i \in 1 .. n}
           V == Seq(U)
           F == [1 .. N -> V]
           Body(f, i) == IF i > n THEN <<>> ELSE <<PieceOf(s, i)>> \o f[NextPiece(s, i)]
           step == [x \in (1 .. N) \X F |-> Body(x[2], x[1])]
           D(f) == f = [i \in 1 .. N |-> Body(f, i)]
<1>0. n \in Nat /\ N \in Nat /\ <<>> \in V /\ 1 \in 1 .. N
  OBVIOUS
<1>1. \A i \in 1 .. N : \A f \in F : step[<<i, f>>] = Body(f, i)
  OBVIOUS
<1>2. ASSUME NEW i \in 1 .. N, i <= n PROVE NextPiece(s, i) \in i + 1 .. N /\ NextPiece(s, i) \in 1 .. N /\ PieceOf(s, i) \in U
  <2>1. i \in 1 .. n
    BY <1>0, <1>2
  <2>2. NextPiece(s, i) \in i + 1 .. N
    BY <1>0, <2>1, NextAfter
  <2> QED BY <1>0, <2>1, <2>2
<1> HIDE DEF n, N, U, step
<1>3. \A i \in 1 .. N : \A f \in F : step[<<i, f>>] \in V
  <2> TAKE i \in 1 .. N
  <2> TAKE f \in F
  <2>1. CASE i > n
    BY <1>0, <1>1, <2>1, Zenon
  <2>2. CASE ~(i > n)
    <3>1. i <= n
      BY <1>0, <2>2
    <3>2. <<PieceOf(s, i)>> \in V /\ f[NextPiece(s, i)] \in V
      BY <1>2, <3>1
    <3>3. <<PieceOf(s, i)>> \o f[NextPiece(s, i)] \in V
      <4> DEFINE x == <<PieceOf(s, i)>>
                 y == f[NextPiece(s, i)]
      <4> HIDE DEF x, y
      <4>1. x \in Seq(U) /\ y \in Seq(U)
        BY <3>2, Zenon DEF x, y
      <4>2. x \o y \in Seq(U)
        BY <4>1
      <4> QED BY <4>2, Zenon DEF x, y
    <3> QED BY <1>1, <2>2, <3>3, Zenon
  <2> QED BY <2>1, <2>2
<1>4. LooksAhead(step, N, V)
  <2> SUFFICES ASSUME NEW i \in 1 .. N, NEW f \in F, NEW g \in F, \A j \in i + 1 .. N : f[j] = g[j]
               PROVE  step[<<i, f>>] = step[<<i, g>>]
    BY Zenon DEF LooksAhead
  <2>1. CASE i > n
    BY <1>1, <2>1, Zenon
  <2>2. CASE ~(i > n)
    <3>1. i <= n
      BY <1>0, <2>2
    <3>2. f[NextPiece(s, i)] = g[NextPiece(s, i)]
      BY <1>2, <3>1, Zenon
    <3> QED BY <1>1, <3>2, Zenon
  <2> QED BY <2>1, <2>2
<1> HIDE DEF V
<1>5. PICK f \in F : \A i \in 1 .. N : f[i] = step[<<i, f>>]
  <2>1. N \in Nat /\ (\E e : e \in V) /\ Advances(step, N, V)
    BY <1>0, <1>3, Zenon DEF Advances
  <2>2. PICK e : e \in V
    BY <2>1
  <2>3. \E f \in [1 .. N -> V] : \A i \in 1 .. N : f[i] = step[<<i, f>>]
    BY <1>4, <2>1, <2>2, Descending
  <2> QED BY <2>3
<1>6. D(f)
  <2>1. \A i \in 1 .. N : f[i] = Body(f, i)
    BY <1>1, <1>5, Zenon
  <2>2. f = [i \in 1 .. N |-> f[i]]
    OBVIOUS
  <2> HIDE DEF Body
  <2> QED BY <2>1, <2>2, Zenon
<1> DEFINE g == CHOOSE h : D(h)
<1>7. D(g)
  BY <1>6, Zenon
<1>8. Pieces(s) = g[1]
  <2> DEFINE Code(h, i) ==
               IF i > n THEN <<>>
               ELSE IF s[i] = "{" /\ At(s, i + 1, {"{"}) THEN <<Lit("{")>> \o h[i + 2]
               ELSE IF s[i] = "{" THEN <<PlaceOf(s, i)>> \o h[Min({FirstOf(s, i + 1, {"}"}) + 1, n + 1})]
               ELSE IF s[i] = "}" THEN <<Lit(IF At(s, i + 1, {"}"}) THEN "}" ELSE LoneBrace)>> \o h[i + 2]
               ELSE <<Lit(s[i])>> \o h[i + 1]
  <2>1. Pieces(s) = (CHOOSE h : h = [i \in 1 .. N |-> Code(h, i)])[1]
    BY Zenon DEF Pieces, PlaceOf, n, N
  <2>2. \A h, i : Code(h, i) = Body(h, i)
    BY Zenon DEF PieceOf, NextPiece, n
  <2> HIDE DEF Code, Body
  <2>3. \A h : (h = [i \in 1 .. N |-> Code(h, i)]) <=> D(h)
    BY <2>2, Zenon
  <2> HIDE DEF D
  <2>4. (CHOOSE h : h = [i \in 1 .. N |-> Code(h, i)]) = g
    BY <2>3, Zenon
  <2> QED BY <2>1, <2>4, Zenon
<1> HIDE DEF g
<1>9. \A i \in 1 .. N : g[i] = Body(g, i)
  BY <1>7, Zenon
<1>10. g = [i \in 1 .. N |-> g[i]]
  <2> HIDE DEF Body
  <2> QED BY <1>7, <1>9, Zenon
<1>11. g \in F
  <2>1. ASSUME NEW i \in 1 .. N, \A j \in i + 1 .. N : g[j] \in V PROVE g[i] \in V
    <3>1. CASE i > n
      BY <1>0, <1>9, <3>1, Zenon
    <3>2. CASE ~(i > n)
      <4>1. i <= n
        BY <1>0, <3>2
      <4>2. g[NextPiece(s, i)] \in V /\ PieceOf(s, i) \in U
        BY <1>2, <2>1, <4>1, Zenon
      <4>3. <<PieceOf(s, i)>> \o g[NextPiece(s, i)] \in V
        <5> DEFINE x == <<PieceOf(s, i)>>
                   y == g[NextPiece(s, i)]
        <5>1. x \in Seq(U)
          BY <4>2
        <5> HIDE DEF x, y
        <5>2. y \in Seq(U)
          BY <4>2, Zenon DEF y, V
        <5>3. x \o y \in Seq(U)
          BY <5>1, <5>2
        <5> QED BY <5>3, Zenon DEF x, y, V
      <4> QED BY <1>9, <3>2, <4>3, Zenon
    <3> QED BY <3>1, <3>2
  <2>2. \A i \in 1 .. N : (\A j \in i + 1 .. N : g[j] \in V) => g[i] \in V
    BY <2>1, Zenon
  <2> QED BY <1>0, <1>10, <2>2, Descends, Zenon
<1> QED BY <1>8, <1>9, <1>11, Zenon DEF Cuts, n, N, U, V

\* Where validate_fmt sees the end of the placeholder that opens at i, and
\* whether it refuses it.
NameEnd(s, i) == FirstOf(s, i + 1, {":", "}"})

PlaceEnd(s, i) == IF At(s, NameEnd(s, i), {":"}) THEN parse_spec_const(s, NameEnd(s, i) + 1) ELSE NameEnd(s, i)

Refused(s, i) ==
  (NameEnd(s, i) > i + 1 /\ is_all_digits(SubSeq(s, i + 1, NameEnd(s, i) - 1)))
    \/ NameEnd(s, i) > Len(s) \/ PlaceEnd(s, i) = Err \/ ~At(s, PlaceEnd(s, i), {"}"})

\* A placeholder that is accepted ends at the first closing brace.
LEMMA PlaceCloses ==
  ASSUME NEW s, Len(s) \in Nat, DOMAIN s = 1 .. Len(s), NEW i \in 1 .. Len(s), ~Refused(s, i)
  PROVE  /\ PlaceEnd(s, i) \in i + 1 .. Len(s)
         /\ PlaceEnd(s, i) = FirstOf(s, i + 1, {"}"})
<1> DEFINE C == {":", "}"}
           c == NameEnd(s, i)
           e == PlaceEnd(s, i)
           j == FirstOf(s, i + 1, {"}"})
<1>0. i + 1 \in 1 .. Len(s) + 1 /\ i + 1 \in Nat
  OBVIOUS
<1>1. FirstAt(s, i + 1, C, c) /\ c \in Nat
  BY <1>0, FirstFound, Zenon DEF NameEnd
<1>2. FirstAt(s, i + 1, {"}"}, j)
  BY <1>0, FirstFound, Zenon
<1>3. e # Err /\ e \in DOMAIN s /\ s[e] = "}" /\ ~(c > Len(s))
  BY Zenon DEF Refused, At
<1>4. c \in i + 1 .. Len(s) + 1 /\ (\A k \in i + 1 .. c - 1 : s[k] # "}") /\ (c <= Len(s) => s[c] \in C)
  BY <1>1, Zenon DEF FirstAt
<1>e. e = IF At(s, c, {":"}) THEN parse_spec_const(s, c + 1) ELSE c
  BY Zenon DEF PlaceEnd
<1>n. e \in DOMAIN s /\ ~(c > Len(s)) /\ c \in i + 1 .. Len(s) + 1
  BY <1>3, <1>4
<1> HIDE DEF c, e, j
<1>5. c \in DOMAIN s /\ c <= Len(s) /\ c \in i + 1 .. Len(s)
  BY <1>n
<1>6. CASE At(s, c, {":"})
  <2>1. s[c] # "}" /\ e = parse_spec_const(s, c + 1)
    BY <1>6, <1>e, Zenon DEF At
  <2>2. c + 1 \in Nat /\ 1 <= c + 1
    BY <1>n
  <2>3. Free(s, c + 1, e)
    BY <1>3, <2>1, <2>2, SpecFree
  <2>4. e \in c + 1 .. Len(s) + 1 /\ \A k \in c + 1 .. e - 1 : s[k] # "}"
    BY <2>3, Zenon DEF Free, Brace
  <2>n. e \in c + 1 .. Len(s) + 1
    BY <2>4
  <2>5. e \in i + 1 .. Len(s) /\ e \in i + 1 .. Len(s) + 1 /\ \A k \in i + 1 .. e - 1 : k \in i + 1 .. c - 1 \/ k = c \/ k \in c + 1 .. e - 1
    BY <1>n, <2>n
  <2>6. \A k \in i + 1 .. e - 1 : s[k] \notin {"}"}
    BY <1>4, <2>1, <2>4, <2>5, Zenon
  <2>7. FirstAt(s, i + 1, {"}"}, e)
    BY <1>3, <2>5, <2>6, Zenon DEF FirstAt
  <2>8. e = j
    BY <1>0, <1>2, <2>7, FirstOnce
  <2> QED BY <2>5, <2>8, Zenon DEF e, j
<1>7. CASE ~At(s, c, {":"})
  <2>1. e = c
    BY <1>7, <1>e, Zenon
  <2>2. e \in i + 1 .. Len(s)
    BY <1>5, <2>1
  <2>3. \A k \in i + 1 .. e - 1 : s[k] \notin {"}"}
    BY <1>4, <2>1, Zenon
  <2>4. e \in i + 1 .. Len(s) + 1
    BY <1>4, <2>1, Zenon
  <2>5. FirstAt(s, i + 1, {"}"}, e)
    BY <1>3, <2>3, <2>4, Zenon DEF FirstAt
  <2>6. e = j
    BY <1>0, <1>2, <2>5, FirstOnce
  <2> QED BY <2>2, <2>6, Zenon DEF e, j
<1> QED BY <1>6, <1>7

\* A placeholder opens at i; what stands at i makes validate_fmt fail.
Opens(s, i) == s[i] = "{" /\ ~At(s, i + 1, {"{"})

Bad(s, i) ==
  \/ Opens(s, i) /\ Refused(s, i)
  \/ s[i] = "}" /\ ~At(s, i + 1, {"}"})

\* The number of placeholders from i on, if it is known further on.
CountOf(s, f, i) ==
  IF i > Len(s) THEN 0
  ELSE IF Bad(s, i) THEN Err
  ELSE IF ~Opens(s, i) THEN f[NextPiece(s, i)]
  ELSE IF f[NextPiece(s, i)] = Err THEN Err
  ELSE f[NextPiece(s, i)] + 1

\* f counts them from each position on.
Counts(s, f) ==
  /\ f \in [1 .. Len(s) + 1 -> Int]
  /\ \A i \in 1 .. Len(s) + 1 : f[i] = CountOf(s, f, i)

\* Where nothing is bad, the count and the cut go on at the same place.
LEMMA GoesOn ==
  ASSUME NEW s, Len(s) \in Nat, DOMAIN s = 1 .. Len(s), NEW i \in 1 .. Len(s), ~Bad(s, i)
  PROVE  /\ NextPiece(s, i) \in i + 1 .. Len(s) + 1
         /\ Opens(s, i) => NextPiece(s, i) = PlaceEnd(s, i) + 1
<1> DEFINE c == Brace
<1>0. i + 1 \in i + 1 .. Len(s) + 1 /\ (i + 1 \in DOMAIN s => i + 2 \in i + 1 .. Len(s) + 1)
  OBVIOUS
<1>1. CASE Opens(s, i)
  <2> DEFINE j == FirstOf(s, i + 1, {"}"})
             x == j + 1
             y == Len(s) + 1
  <2>1. ~Refused(s, i)
    BY <1>1, Zenon DEF Bad
  <2>2. PlaceEnd(s, i) \in i + 1 .. Len(s) /\ PlaceEnd(s, i) = j
    BY <2>1, PlaceCloses
  <2>3. NextPiece(s, i) = Min({x, y})
    BY <1>1, Zenon DEF NextPiece, Opens
  <2> HIDE DEF j
  <2>4. x \in Int /\ y \in Int /\ x <= y /\ x \in i + 1 .. Len(s) + 1 /\ x = PlaceEnd(s, i) + 1
    BY <2>2
  <2> HIDE DEF x, y
  <2>5. Min({x, y}) = x
    BY <2>4, MinOfTwo, Zenon
  <2> QED BY <2>3, <2>4, <2>5, Zenon
<1>2. CASE ~Opens(s, i)
  <2>1. NextPiece(s, i) = i + 1 \/ (NextPiece(s, i) = i + 2 /\ i + 1 \in DOMAIN s)
    BY <1>2, Zenon DEF Opens, Bad, NextPiece, At
  <2> QED BY <1>0, <1>2, <2>1, Zenon
<1> QED BY <1>1, <1>2

\* validate_fmt is such a count.
LEMMA FmtCounts ==
  ASSUME NEW S, NEW s \in Seq(S)
  PROVE  \E f : Counts(s, f) /\ validate_fmt(s) = f[1]
<1> DEFINE n == Len(s)
           N == n + 1
           F == [1 .. N -> Int]
           step == [x \in (1 .. N) \X F |-> CountOf(s, x[2], x[1])]
           D(f) == f = [i \in 1 .. N |-> CountOf(s, f, i)]
<1>0. n \in Nat /\ N \in Nat /\ 1 \in 1 .. N /\ DOMAIN s = 1 .. n /\ 0 \in Int /\ Err \in Int /\ \A k \in Int : k + 1 \in Int
  BY DEF Err
<1>1. \A i \in 1 .. N : \A f \in F : step[<<i, f>>] = CountOf(s, f, i)
  OBVIOUS
<1>2. ASSUME NEW i \in 1 .. N, i <= n, ~Bad(s, i)
      PROVE  NextPiece(s, i) \in i + 1 .. N /\ NextPiece(s, i) \in 1 .. N
  <2>1. i \in 1 .. n
    BY <1>0, <1>2
  <2>2. NextPiece(s, i) \in i + 1 .. N
    BY <1>0, <1>2, <2>1, GoesOn
  <2> QED BY <1>0, <2>1, <2>2
<1>3. \A i \in 1 .. N : (i > n) \/ i <= n
  BY <1>0
<1> HIDE DEF n, N, step
<1>4. ASSUME NEW i \in 1 .. N, NEW f, \A j \in i + 1 .. N : f[j] \in Int PROVE CountOf(s, f, i) \in Int
  <2>1. CASE i > n \/ Bad(s, i)
    BY <1>0, <2>1, Zenon DEF CountOf, n
  <2>2. CASE i <= n /\ ~Bad(s, i)
    <3>1. f[NextPiece(s, i)] \in Int
      BY <1>2, <1>4, <2>2, Zenon
    <3> QED BY <1>0, <3>1, Zenon DEF CountOf
  <2> QED BY <1>3, <2>1, <2>2, Zenon
<1>5. Advances(step, N, Int)
  <2> SUFFICES ASSUME NEW i \in 1 .. N, NEW f \in F PROVE step[<<i, f>>] \in Int
    BY Zenon DEF Advances
  <2>1. \A j \in i + 1 .. N : f[j] \in Int
    BY <1>0
  <2> QED BY <1>1, <1>4, <2>1, Zenon
<1>6. LooksAhead(step, N, Int)
  <2> SUFFICES ASSUME NEW i \in 1 .. N, NEW f \in F, NEW g \in F, \A j \in i + 1 .. N : f[j] = g[j]
               PROVE  step[<<i, f>>] = step[<<i, g>>]
    BY Zenon DEF LooksAhead
  <2>1. CASE i > n \/ Bad(s, i)
    BY <1>1, <2>1, Zenon DEF CountOf, n
  <2>2. CASE i <= n /\ ~Bad(s, i)
    <3>1. f[NextPiece(s, i)] = g[NextPiece(s, i)]
      BY <1>2, <2>2, Zenon
    <3> QED BY <1>1, <3>1, Zenon DEF CountOf
  <2> QED BY <1>3, <2>1, <2>2, Zenon
<1>7. PICK f \in F : \A i \in 1 .. N : f[i] = step[<<i, f>>]
  BY <1>0, <1>5, <1>6, Descending
<1>8. D(f)
  <2>1. \A i \in 1 .. N : f[i] = CountOf(s, f, i)
    BY <1>1, <1>7, Zenon
  <2>2. f = [i \in 1 .. N |-> f[i]]
    OBVIOUS
  <2> QED BY <2>1, <2>2, Zenon
<1> DEFINE g == CHOOSE h : D(h)
<1>9. D(g)
  BY <1>8, Zenon
<1>10. validate_fmt(s) = g[1]
  <2> DEFINE Code(h, i) ==
        IF i > n THEN 0
        ELSE IF s[i] = "{" THEN
          IF At(s, i + 1, {"{"}) THEN h[i + 2]
          ELSE IF Refused(s, i) THEN Err
          ELSE IF h[PlaceEnd(s, i) + 1] = Err THEN Err ELSE h[PlaceEnd(s, i) + 1] + 1
        ELSE IF s[i] = "}" THEN
          IF At(s, i + 1, {"}"}) THEN h[i + 2] ELSE Err
        ELSE h[i + 1]
  <2>1. validate_fmt(s) = (CHOOSE h : h = [i \in 1 .. N |-> Code(h, i)])[1]
    BY Zenon DEF validate_fmt, Refused, PlaceEnd, NameEnd, n, N
  <2>2. ASSUME NEW h, NEW i \in 1 .. N PROVE Code(h, i) = CountOf(s, h, i)
    <3>1. CASE i > n
      BY <3>1, Zenon DEF CountOf, n
    <3>2. CASE i <= n
      <4>0. i \in 1 .. n /\ ~(i > n)
        BY <1>0, <3>2 DEF N
      <4>1. CASE Opens(s, i)
        <5>1. Code(h, i) = IF Refused(s, i) THEN Err
                           ELSE IF h[PlaceEnd(s, i) + 1] = Err THEN Err ELSE h[PlaceEnd(s, i) + 1] + 1
          BY <4>0, <4>1, Zenon DEF Opens
        <5>2. Refused(s, i) => Bad(s, i)
          BY <4>1, Zenon DEF Bad
        <5>3. ~Refused(s, i) => ~Bad(s, i)
          <6>1. s[i] # "}"
            BY <4>1, Zenon DEF Opens
          <6> QED BY <6>1, Zenon DEF Bad
        <5>4. ~Bad(s, i) => NextPiece(s, i) = PlaceEnd(s, i) + 1
          BY <1>0, <4>0, <4>1, GoesOn DEF n
        <5> HIDE DEF Code
        <5> QED BY <4>0, <4>1, <5>1, <5>2, <5>3, <5>4, Zenon DEF CountOf, n
      <4>2. CASE ~Opens(s, i)
        <5>1. CASE s[i] = "{"
          BY <4>0, <4>2, <5>1, Zenon DEF Opens, Bad, NextPiece, CountOf, n
        <5>2. CASE s[i] = "}"
          BY <4>0, <4>2, <5>2, Zenon DEF Opens, Bad, NextPiece, CountOf, n
        <5>3. CASE s[i] # "{" /\ s[i] # "}"
          BY <4>0, <4>2, <5>3, Zenon DEF Opens, Bad, NextPiece, CountOf, n
        <5> QED BY <5>1, <5>2, <5>3, Zenon
      <4> QED BY <4>1, <4>2
    <3> QED BY <1>3, <3>1, <3>2, Zenon
  <2> HIDE DEF Code
  <2>3. \A h : [i \in 1 .. N |-> Code(h, i)] = [i \in 1 .. N |-> CountOf(s, h, i)]
    BY <2>2, Zenon
  <2>4. \A h : (h = [i \in 1 .. N |-> Code(h, i)]) <=> D(h)
    BY <2>3, Zenon
  <2> HIDE DEF D
  <2>5. (CHOOSE h : h = [i \in 1 .. N |-> Code(h, i)]) = g
    BY <2>4, Zenon
  <2> QED BY <2>1, <2>5, Zenon
<1> HIDE DEF g
<1>11. \A i \in 1 .. N : g[i] = CountOf(s, g, i)
  BY <1>9, Zenon
<1>12. g = [i \in 1 .. N |-> g[i]]
  BY <1>9, <1>11, Zenon
<1>13. g \in F
  <2>1. \A i \in 1 .. N : (\A j \in i + 1 .. N : g[j] \in Int) => g[i] \in Int
    BY <1>4, <1>11, Zenon
  <2> QED BY <1>0, <1>12, <2>1, Descends
<1> QED BY <1>10, <1>11, <1>13, Zenon DEF Counts, n, N

\* How many of the first i pieces are placeholders.
IsPlace(p) == p.kind = "place"

Placed(P, i) == Cardinality({k \in 1 .. i : IsPlace(P[k])})

\* One piece more.
LEMMA PlacedNext ==
  ASSUME NEW P, NEW i \in Nat
  PROVE  /\ Placed(P, 0) = 0 /\ Placed(P, i) \in Nat
         /\ Placed(P, i + 1) = Placed(P, i) + (IF IsPlace(P[i + 1]) THEN 1 ELSE 0)
<1> DEFINE A(j) == {k \in 1 .. j : IsPlace(P[k])}
<1>1. IsFiniteSet(A(i)) /\ A(0) = {}
  <2>1. IsFiniteSet(1 .. i) /\ A(i) \subseteq 1 .. i /\ A(0) = {}
    BY FS_Interval
  <2> QED BY <2>1, FS_Subset
<1>2. Cardinality(A(i)) \in Nat /\ Cardinality(A(0)) = 0
  BY <1>1, FS_CardinalityType, FS_EmptySet
<1>3. CASE IsPlace(P[i + 1])
  <2>1. A(i + 1) = A(i) \cup {i + 1} /\ i + 1 \notin A(i)
    BY <1>3
  <2> HIDE DEF A
  <2>2. Cardinality(A(i + 1)) = Cardinality(A(i)) + 1
    BY <1>1, <2>1, FS_AddElement
  <2> QED BY <1>2, <1>3, <2>2 DEF A, Placed
<1>4. CASE ~IsPlace(P[i + 1])
  <2>1. A(i + 1) = A(i)
    BY <1>4
  <2> HIDE DEF A
  <2> QED BY <1>2, <1>4, <2>1 DEF A, Placed
<1> QED BY <1>3, <1>4

\* P is Q with a piece before it.
Preceded(P, p, Q) ==
  /\ Len(Q) \in Nat /\ Len(P) = Len(Q) + 1 /\ P[1] = p
  /\ \A k \in 1 .. Len(Q) : P[k + 1] = Q[k]

\* The placeholders of a text with a piece before it.
LEMMA PlacedBefore ==
  ASSUME NEW P, NEW p, NEW Q, Preceded(P, p, Q)
  PROVE  Placed(P, Len(P)) = Placed(Q, Len(Q)) + (IF IsPlace(p) THEN 1 ELSE 0)
<1> DEFINE n == Len(Q)
           b == IF IsPlace(p) THEN 1 ELSE 0
           T == {m \in 0 .. n : Placed(P, m + 1) = Placed(Q, m) + b}
<1>0. n \in Nat /\ Len(P) = n + 1 /\ P[1] = p /\ b \in Nat /\ \A k \in 1 .. n : P[k + 1] = Q[k]
  BY DEF Preceded
<1> HIDE DEF n
<1>1. 0 \in T
  <2>1. Placed(P, 0) = 0 /\ Placed(Q, 0) = 0 /\ Placed(P, 0 + 1) = Placed(P, 0) + (IF IsPlace(P[0 + 1]) THEN 1 ELSE 0)
    BY PlacedNext
  <2>2. 0 + 1 = 1 /\ 0 \in 0 .. n
    BY <1>0
  <2>3. Placed(P, 0 + 1) = 0 + b
    BY <1>0, <2>1, <2>2
  <2> QED BY <2>1, <2>2, <2>3
<1>2. ASSUME NEW m \in T, m < n PROVE m + 1 \in T
  <2>0. m \in Nat /\ m + 1 \in Nat /\ m + 1 \in 1 .. n /\ m + 1 \in 0 .. n /\ Placed(P, m + 1) = Placed(Q, m) + b
    BY <1>0, <1>2
  <2>1. P[m + 1 + 1] = Q[m + 1]
    BY <1>0, <2>0
  <2> DEFINE d == IF IsPlace(Q[m + 1]) THEN 1 ELSE 0
  <2>2. /\ Placed(P, m + 1 + 1) = Placed(P, m + 1) + (IF IsPlace(P[m + 1 + 1]) THEN 1 ELSE 0)
        /\ Placed(Q, m + 1) = Placed(Q, m) + d /\ Placed(Q, m) \in Nat
    BY <2>0, PlacedNext
  <2>3. Placed(P, m + 1 + 1) = Placed(P, m + 1) + d /\ d \in Nat
    BY <2>1, <2>2
  <2> HIDE DEF d, b
  <2>4. Placed(P, m + 1 + 1) = Placed(Q, m + 1) + b
    BY <1>0, <2>0, <2>2, <2>3
  <2> QED BY <2>0, <2>4
<1>3. T = 0 .. n
  <2> HIDE DEF T
  <2>1. T \in SUBSET (0 .. n)
    BY DEF T
  <2> QED BY <1>0, <1>1, <1>2, <2>1, Induction
<1>4. n \in T
  <2>1. n \in 0 .. n
    BY <1>0
  <2> QED BY <1>3, <2>1, Zenon
<1> QED BY <1>0, <1>4, Zenon DEF n

\* A piece that is a placeholder or a symbol of s.
Sound(s, p) == IsPlace(p) \/ (p.kind = "lit" /\ \E j \in DOMAIN s : p = Lit(s[j]))

\* A sequence of such pieces, c of them placeholders.
WellCut(s, P, c) == (\A k \in 1 .. Len(P) : Sound(s, P[k])) /\ Placed(P, Len(P)) = c

\* Where nothing is bad, the piece is sound.
LEMMA SoundPiece ==
  ASSUME NEW s, Len(s) \in Nat, DOMAIN s = 1 .. Len(s), NEW i \in 1 .. Len(s), ~Bad(s, i)
  PROVE  Sound(s, PieceOf(s, i)) /\ (IsPlace(PieceOf(s, i)) <=> Opens(s, i))
<1>1. \A c : IsPlace(Lit(c)) = FALSE /\ Lit(c).kind = "lit"
  BY DEF IsPlace, Lit
<1>2. IsPlace(PlaceOf(s, i))
  BY DEF IsPlace, PlaceOf, Place
<1>3. CASE Opens(s, i)
  <2>1. PieceOf(s, i) = PlaceOf(s, i)
    BY <1>3, Zenon DEF Opens, PieceOf
  <2> QED BY <1>2, <1>3, <2>1, Zenon DEF Sound
<1>4. CASE ~Opens(s, i)
  <2>1. PieceOf(s, i) = Lit(s[i])
    <3>1. CASE s[i] = "{"
      BY <1>4, <3>1, Zenon DEF Opens, PieceOf
    <3>2. CASE s[i] = "}"
      <4>1. At(s, i + 1, {"}"}) /\ s[i] # "{"
        BY <3>2, Zenon DEF Bad
      <4> QED BY <3>2, <4>1, Zenon DEF PieceOf
    <3>3. CASE s[i] # "{" /\ s[i] # "}"
      BY <3>3, Zenon DEF PieceOf
    <3> QED BY <3>1, <3>2, <3>3, Zenon
  <2> QED BY <1>1, <1>4, <2>1, Zenon DEF Sound
<1> QED BY <1>3, <1>4

\* An accepted format string: interleave cuts it into as many placeholders as
\* validate_fmt counted, and every other piece is a symbol of the string, so
\* that no brace is left alone.
THEOREM FormatCut ==
  ASSUME NEW S, NEW s \in Seq(S), validate_fmt(s) # Err
  PROVE  WellCut(s, Pieces(s), validate_fmt(s)) /\ Len(Pieces(s)) \in Nat
<1> DEFINE n == Len(s)
           U == {PieceOf(s, i) : i \in 1 .. n}
<1>0. n \in Nat /\ DOMAIN s = 1 .. n
  OBVIOUS
<1>1. PICK f : Cuts(s, f) /\ Pieces(s) = f[1]
  BY PiecesCut
<1>2. PICK c : Counts(s, c) /\ validate_fmt(s) = c[1]
  BY FmtCounts
<1>3. /\ \A i \in 1 .. n + 2 : f[i] \in Seq(U)
      /\ \A i \in 1 .. n + 2 : f[i] = IF i > n THEN <<>> ELSE <<PieceOf(s, i)>> \o f[NextPiece(s, i)]
  <2>1. f \in [1 .. n + 2 -> Seq(U)]
    BY <1>1, Zenon DEF Cuts
  <2> HIDE DEF U
  <2>2. \A i \in 1 .. n + 2 : f[i] \in Seq(U)
    BY <2>1
  <2> QED BY <1>1, <2>2, Zenon DEF Cuts
<1>4. (\A i \in 1 .. n + 1 : c[i] \in Int) /\ \A i \in 1 .. n + 1 : c[i] = CountOf(s, c, i)
  <2>1. c \in [1 .. n + 1 -> Int]
    BY <1>2, Zenon DEF Counts
  <2>2. \A i \in 1 .. n + 1 : c[i] \in Int
    BY <2>1
  <2> QED BY <1>2, <2>2, Zenon DEF Counts
<1> HIDE DEF n, U
<1> DEFINE Right(i) == c[i] # Err => WellCut(s, f[i], c[i])
           T == {m \in 0 .. n : \A i \in (n + 1 - m) .. n + 1 : Right(i)}
<1>5. Right(n + 1)
  <2>1. n + 1 \in 1 .. n + 2 /\ n + 1 \in 1 .. n + 1 /\ n + 1 > n
    BY <1>0
  <2>2. f[n + 1] = <<>> /\ c[n + 1] = 0
    BY <1>3, <1>4, <2>1, Zenon DEF CountOf, n
  <2>3. Len(<<>>) = 0 /\ 1 .. 0 = {} /\ 0 \in Nat
    OBVIOUS
  <2>4. Placed(<<>>, 0) = 0
    BY <2>3, PlacedNext
  <2> QED BY <2>2, <2>3, <2>4, Zenon DEF WellCut
<1>6. ASSUME NEW i \in 1 .. n, \A j \in i + 1 .. n + 1 : Right(j) PROVE Right(i)
  <2> SUFFICES ASSUME c[i] # Err PROVE WellCut(s, f[i], c[i])
    OBVIOUS
  <2> DEFINE j == NextPiece(s, i)
             p == PieceOf(s, i)
             Q == f[j]
  <2>0. i \in 1 .. n + 1 /\ i \in 1 .. n + 2 /\ ~(i > n)
    BY <1>0
  <2>1. ~Bad(s, i) /\ c[i] = (IF ~Opens(s, i) THEN c[j] ELSE IF c[j] = Err THEN Err ELSE c[j] + 1)
    BY <1>4, <2>0, Zenon DEF CountOf, n
  <2>2. j \in i + 1 .. n + 1 /\ Sound(s, p) /\ (IsPlace(p) <=> Opens(s, i))
    BY <1>0, <2>1, GoesOn, SoundPiece, Zenon DEF n
  <2>3. j \in 1 .. n + 2 /\ j \in 1 .. n + 1
    BY <1>0, <2>2
  <2>4. c[j] # Err /\ WellCut(s, Q, c[j])
    BY <1>6, <2>1, <2>2, Zenon
  <2>5. c[i] = c[j] + (IF IsPlace(p) THEN 1 ELSE 0)
    <3>1. c[j] \in Int
      BY <1>4, <2>3, Zenon
    <3> HIDE DEF j, p
    <3> QED BY <2>1, <2>2, <2>4, <3>1
  <2>6. f[i] = <<p>> \o Q /\ Q \in Seq(U)
    BY <1>3, <2>0, <2>3, Zenon
  <2>7. p \in U
    BY DEF U, n
  <2> HIDE DEF j, p, Q
  <2>8. Preceded(f[i], p, Q)
    <3>1. Len(Q) \in Nat /\ Len(<<p>> \o Q) = Len(Q) + 1 /\ (<<p>> \o Q)[1] = p /\ \A k \in 1 .. Len(Q) : (<<p>> \o Q)[k + 1] = Q[k]
      BY <2>6, <2>7
    <3> QED BY <2>6, <3>1, Zenon DEF Preceded
  <2>9. Placed(f[i], Len(f[i])) = c[i]
    <3>1. Placed(f[i], Len(f[i])) = Placed(Q, Len(Q)) + (IF IsPlace(p) THEN 1 ELSE 0)
      BY <2>8, PlacedBefore
    <3> QED BY <2>4, <2>5, <3>1, Zenon DEF WellCut
  <2>10. \A k \in 1 .. Len(f[i]) : Sound(s, f[i][k])
    <3> TAKE k \in 1 .. Len(f[i])
    <3>1. Len(Q) \in Nat /\ Len(f[i]) = Len(Q) + 1
      BY <2>8, Zenon DEF Preceded
    <3>2. k = 1 \/ (k - 1 \in 1 .. Len(Q) /\ k = (k - 1) + 1)
      BY <3>1
    <3>3. CASE k = 1
      BY <2>2, <2>8, <3>3, Zenon DEF Preceded, p
    <3>4. CASE k - 1 \in 1 .. Len(Q) /\ k = (k - 1) + 1
      <4>1. f[i][k] = Q[k - 1]
        BY <2>8, <3>4, Zenon DEF Preceded
      <4> QED BY <2>4, <3>4, <4>1, Zenon DEF WellCut
    <3> QED BY <3>2, <3>3, <3>4, Zenon
  <2> QED BY <2>9, <2>10, Zenon DEF WellCut
<1> HIDE DEF Right
<1>7. T = 0 .. n
  <2>1. 0 \in T
    <3>1. 0 \in 0 .. n /\ \A i \in (n + 1 - 0) .. n + 1 : i = n + 1
      BY <1>0
    <3> QED BY <1>5, <3>1, Zenon
  <2>2. ASSUME NEW m \in T, m < n PROVE m + 1 \in T
    <3> DEFINE k == n - m
    <3>1. /\ m \in Nat /\ k \in 1 .. n /\ m + 1 \in 0 .. n /\ n + 1 - (m + 1) = k /\ n + 1 - m = k + 1
          /\ \A i \in k .. n + 1 : i = k \/ i \in k + 1 .. n + 1
      BY <1>0, <2>2
    <3>2. \A i \in k + 1 .. n + 1 : Right(i)
      BY <3>1, Zenon
    <3> HIDE DEF k
    <3>3. Right(k)
      BY <1>6, <3>1, <3>2, Zenon
    <3> QED BY <3>1, <3>2, <3>3, Zenon
  <2> HIDE DEF T
  <2>3. T \in SUBSET (0 .. n)
    BY DEF T
  <2> QED BY <1>0, <2>1, <2>2, <2>3, Induction
<1>8. Right(1)
  <2>1. n \in 0 .. n /\ 1 \in (n + 1 - n) .. n + 1
    BY <1>0
  <2>2. n \in T
    BY <1>7, <2>1, Zenon
  <2> QED BY <2>1, <2>2, Zenon
<1>9. Len(f[1]) \in Nat
  <2>1. 1 \in 1 .. n + 2
    BY <1>0
  <2>2. f[1] \in Seq(U)
    BY <1>3, <2>1, Zenon
  <2> QED BY <2>2
<1> QED BY <1>1, <1>2, <1>8, <1>9, Zenon DEF Right

\* The message that pieces and arguments make: symbols as they are, and the
\* k-th argument under the spec of the k-th placeholder.
MessageOf(P, args) ==
  LET out[i \in 0 .. Len(P)] ==
        IF i = 0 THEN <<>>
        ELSE IF IsPlace(P[i]) THEN out[i - 1] \o FormatValue(args[Placed(P, i)], P[i].spec)
        ELSE Append(out[i - 1], P[i].c)
  IN out[Len(P)]

\* f[i] is the message that the first i pieces make.
Spelled(P, args, f) ==
  /\ f[0] = <<>>
  /\ \A i \in 1 .. Len(P) :
       f[i] = IF IsPlace(P[i]) THEN f[i - 1] \o FormatValue(args[Placed(P, i)], P[i].spec)
              ELSE Append(f[i - 1], P[i].c)

\* The message is made piece by piece.
LEMMA MessageParts ==
  ASSUME NEW P, Len(P) \in Nat, NEW args
  PROVE  \E f : Spelled(P, args, f) /\ MessageOf(P, args) = f[Len(P)]
<1> DEFINE n == Len(P)
           Next1(v, i) == IF IsPlace(P[i]) THEN v \o FormatValue(args[Placed(P, i)], P[i].spec)
                          ELSE Append(v, P[i].c)
           Body(f, i) == IF i = 0 THEN <<>> ELSE Next1(f[i - 1], i)
           D(f, m) == f = [i \in 0 .. m |-> Body(f, i)]
           T == {m \in 0 .. n : \E f : D(f, m)}
<1>0. n \in Nat /\ n \in 0 .. n
  OBVIOUS
<1> HIDE DEF n
<1>1. MessageOf(P, args) = (CHOOSE f : D(f, n))[n]
  BY Zenon DEF MessageOf, n
<1> HIDE DEF Next1
<1>2. 0 \in T
  <2> DEFINE f == [i \in 0 .. 0 |-> <<>>]
  <2>1. 0 \in 0 .. n /\ \A i \in 0 .. 0 : i = 0
    BY <1>0
  <2>2. D(f, 0)
    BY <2>1, Zenon
  <2> QED BY <2>1, <2>2, Zenon
<1>3. ASSUME NEW m \in T, m < n PROVE m + 1 \in T
  <2>1. PICK f : D(f, m)
    OBVIOUS
  <2>2. m \in Nat /\ m + 1 \in 0 .. n
    BY <1>0, <1>3
  <2> DEFINE g == [i \in 0 .. m + 1 |-> IF i <= m THEN f[i] ELSE Next1(f[m], m + 1)]
  <2>3. \A i \in 0 .. m : f[i] = Body(f, i)
    BY <2>1, Zenon
  <2>4. ASSUME NEW i \in 0 .. m + 1 PROVE g[i] = Body(g, i)
    <3>1. CASE i = 0
      <4>1. 0 <= m /\ 0 \in 0 .. m /\ 0 \in 0 .. m + 1
        BY <2>2
      <4> QED BY <2>3, <3>1, <4>1, Zenon
    <3>2. CASE i # 0 /\ i <= m
      <4>1. i \in 0 .. m /\ i - 1 \in 0 .. m + 1 /\ i - 1 <= m
        BY <2>2, <3>2
      <4>2. g[i] = f[i] /\ g[i - 1] = f[i - 1]
        BY <3>2, <4>1, Zenon
      <4> QED BY <2>3, <3>2, <4>1, <4>2, Zenon
    <3>3. CASE i # 0 /\ ~(i <= m)
      <4>1. i = m + 1 /\ i - 1 = m /\ m <= m /\ m \in 0 .. m + 1
        BY <2>2, <3>3
      <4>2. g[i] = Next1(f[m], m + 1) /\ g[m] = f[m]
        BY <3>3, <4>1, Zenon
      <4> QED BY <3>3, <4>1, <4>2, Zenon
    <3> QED BY <3>1, <3>2, <3>3
  <2>5. g = [i \in 0 .. m + 1 |-> g[i]]
    BY Zenon
  <2> HIDE DEF g
  <2>6. D(g, m + 1)
    BY <2>4, <2>5, Zenon
  <2> QED BY <2>2, <2>6, Zenon
<1>4. T = 0 .. n
  <2> HIDE DEF T
  <2>1. T \in SUBSET (0 .. n)
    BY DEF T
  <2> QED BY <1>0, <1>2, <1>3, <2>1, Induction
<1>5. \E f : D(f, n)
  <2>1. n \in T
    BY <1>0, <1>4, Zenon
  <2> QED BY <2>1, Zenon
<1> DEFINE g == CHOOSE f : D(f, n)
<1>6. D(g, n)
  BY <1>5, Zenon
<1> HIDE DEF g
<1>7. \A i \in 0 .. n : g[i] = Body(g, i)
  BY <1>6, Zenon
<1>8. g[0] = <<>> /\ \A i \in 1 .. n : g[i] = Next1(g[i - 1], i)
  <2>1. 0 \in 0 .. n /\ \A i \in 1 .. n : i \in 0 .. n /\ i # 0
    BY <1>0
  <2> QED BY <1>7, <2>1, Zenon
<1>9. Spelled(P, args, g)
  BY <1>8, Zenon DEF Spelled, Next1, n
<1> QED BY <1>1, <1>9, Zenon DEF g, n

\* Placeholders so far are at most all placeholders.
LEMMA PlacedGrows ==
  ASSUME NEW P, NEW n \in Nat, NEW i \in 0 .. n
  PROVE  Placed(P, i) \in Nat /\ Placed(P, i) <= Placed(P, n)
<1> DEFINE A(j) == {k \in 1 .. j : IsPlace(P[k])}
<1>1. IsFiniteSet(A(n)) /\ A(i) \subseteq A(n)
  <2>1. IsFiniteSet(1 .. n) /\ A(n) \subseteq 1 .. n /\ A(i) \subseteq A(n)
    BY FS_Interval
  <2> QED BY <2>1, FS_Subset
<1> HIDE DEF A
<1>2. Cardinality(A(i)) <= Cardinality(A(n)) /\ IsFiniteSet(A(i))
  BY <1>1, FS_Subset
<1>3. Cardinality(A(i)) \in Nat
  BY <1>2, FS_CardinalityType
<1> QED BY <1>2, <1>3, Zenon DEF A, Placed

\* The state of interleave after the first i pieces: f is the message so far,
\* and q says where the cursor stands.
SpelledTo(P, f, q, i) ==
  [out |-> f[i], used |-> Placed(P, i), at |-> q[Placed(P, i)], parse_ok |-> TRUE, panic |-> FALSE]

\* A state of interleave with another text, and one with an argument more.
IsState(st, o, u, a, b, c) == st = [out |-> o, used |-> u, at |-> a, parse_ok |-> b, panic |-> c]

WithText(st, x) == [st EXCEPT !.out = x]

WithArg(st, x, k, w) == [st EXCEPT !.out = x, !.used = k, !.at = w]

\* What they are.
LEMMA Updated ==
  ASSUME NEW st, NEW o, NEW u, NEW a, NEW b, NEW c, IsState(st, o, u, a, b, c), NEW x, NEW k, NEW w
  PROVE  IsState(WithText(st, x), x, u, a, b, c) /\ IsState(WithArg(st, x, k, w), x, k, w, b, c)
<1> DEFINE s1 == [st EXCEPT !.out = x]
           s2 == [s1 EXCEPT !.used = k]
           s3 == [s2 EXCEPT !.at = w]
<1>1. IsState(s1, x, u, a, b, c)
  BY DEF IsState
<1>2. WithArg(st, x, k, w) = s3
  BY DEF WithArg
<1> HIDE DEF s1
<1>3. IsState(s2, x, k, a, b, c)
  BY <1>1 DEF IsState
<1> HIDE DEF s2
<1>4. IsState(s3, x, k, w, b, c)
  BY <1>3 DEF IsState
<1> HIDE DEF s3
<1> QED BY <1>1, <1>2, <1>4, Zenon DEF WithText, s1

\* interleave, where the arguments stand in the record and there are as many as
\* placeholders: it spells the message and reads to the last argument.
LEMMA InterleaveSpells ==
  ASSUME NEW fmt, NEW args, Len(args) \in Nat, DOMAIN args = 1 .. Len(args),
         Len(Pieces(fmt)) \in Nat, WellCut(fmt, Pieces(fmt), Len(args)),
         NEW r, NEW at, NEW end, NEW q, Chained(args, r, at, end, q)
  PROVE  interleave(fmt, TagsOf(args), r, at) =
           [out |-> MessageOf(Pieces(fmt), args), used |-> Len(args), at |-> end, parse_ok |-> TRUE, panic |-> FALSE]
<1> DEFINE P == Pieces(fmt)
           n == Len(P)
           c == Len(args)
           tags == TagsOf(args)
           Step(st, p) ==
             LET k == st.used + 1
                 d == DecodeArg(tags[k], r, st.at)
             IN IF st.panic THEN st
                ELSE IF p.kind = "lit" THEN [st EXCEPT !.out = Append(@, p.c)]
                ELSE IF k > Len(tags) THEN [st EXCEPT !.out = Append(@, MissingArg), !.used = k]
                ELSE IF ~st.parse_ok \/ ~d.known
                  THEN [st EXCEPT !.out = Append(@, UnknownTag), !.used = k, !.parse_ok = FALSE]
                ELSE IF d.panic THEN [st EXCEPT !.panic = TRUE]
                ELSE [st EXCEPT !.out = @ \o FormatValue(d.arg, p.spec), !.used = k, !.at = d.at]
           base == [out |-> <<>>, used |-> 0, at |-> at, parse_ok |-> TRUE, panic |-> FALSE]
           D(g) == g = [i \in 0 .. n |-> IF i = 0 THEN base ELSE Step(g[i - 1], P[i])]
<1>0. n \in Nat /\ n \in 0 .. n /\ 0 \in 0 .. n /\ c \in Nat
  OBVIOUS
<1>1. Len(tags) = c /\ \A k \in 1 .. c : tags[k] = args[k].tag
  BY DEF TagsOf
<1>2. interleave(fmt, tags, r, at) = (CHOOSE g : D(g))[n]
  BY Zenon DEF interleave, Loop
<1>3. PICK f : Spelled(P, args, f) /\ MessageOf(P, args) = f[n]
  BY MessageParts
<1> DEFINE state(i) == SpelledTo(P, f, q, i)
<1>4. Placed(P, n) = c /\ \A i \in 1 .. n : Sound(fmt, P[i])
  BY Zenon DEF WellCut
<1>5. Placed(P, 0) = 0
  BY <1>0, PlacedNext
<1>6. q[0] = at /\ q[c] = end /\ \A k \in 1 .. c : DecodeArg(tags[k], r, q[k - 1]) = Decoded(args[k], q[k])
  BY <1>1, Zenon DEF Chained
<1>7. state(0) = base
  BY <1>3, <1>5, <1>6, Zenon DEF SpelledTo, Spelled
<1> HIDE DEF P, n, c, tags
<1>8. ASSUME NEW i \in 1 .. n PROVE Step(state(i - 1), P[i]) = state(i)
  <2> DEFINE u == Placed(P, i - 1)
             st == state(i - 1)
             p == P[i]
             k == st.used + 1
             d == DecodeArg(tags[k], r, st.at)
  <2>1. i - 1 \in Nat /\ (i - 1) + 1 = i /\ i \in 0 .. n
    BY <1>0
  <2>2. u \in Nat /\ Placed(P, i) = u + (IF IsPlace(p) THEN 1 ELSE 0) /\ Placed(P, i) <= c
    <3>1. Placed(P, i - 1) \in Nat /\ Placed(P, (i - 1) + 1) = Placed(P, i - 1) + (IF IsPlace(P[(i - 1) + 1]) THEN 1 ELSE 0)
      BY <2>1, PlacedNext
    <3>2. Placed(P, i) <= Placed(P, n)
      BY <1>0, <2>1, PlacedGrows
    <3> QED BY <1>4, <2>1, <3>1, <3>2, Zenon
  <2>3. /\ st = [out |-> f[i - 1], used |-> u, at |-> q[u], parse_ok |-> TRUE, panic |-> FALSE]
        /\ st.panic = FALSE /\ st.parse_ok = TRUE /\ st.used = u /\ st.at = q[u] /\ st.out = f[i - 1]
    <3>1. st = [out |-> f[i - 1], used |-> u, at |-> q[u], parse_ok |-> TRUE, panic |-> FALSE]
      BY Zenon DEF SpelledTo
    <3> HIDE DEF st
    <3> QED BY <3>1
  <2>4. f[i] = IF IsPlace(p) THEN f[i - 1] \o FormatValue(args[Placed(P, i)], p.spec) ELSE Append(f[i - 1], p.c)
    BY <1>3, Zenon DEF Spelled, n
  <2>5. IsPlace(p) \/ p.kind = "lit"
    BY <1>4, Zenon DEF Sound
  <2>6. state(i) = [out |-> f[i], used |-> Placed(P, i), at |-> q[Placed(P, i)], parse_ok |-> TRUE, panic |-> FALSE]
    BY Zenon DEF SpelledTo
  <2> HIDE DEF st, p, u
  <2>7. CASE IsPlace(p)
    <3>1. p.kind # "lit"
      BY <2>7 DEF IsPlace
    <3>2. k = u + 1 /\ Placed(P, i) = k /\ k \in 1 .. c /\ k - 1 = u /\ ~(k > c)
      BY <1>0, <2>2, <2>3, <2>7
    <3>3. d = Decoded(args[k], q[k])
      BY <1>6, <2>3, <3>2, Zenon
    <3>4. d.known = TRUE /\ d.panic = FALSE /\ d.arg = args[k] /\ d.at = q[k]
      BY <3>3 DEF Decoded
    <3> HIDE DEF d, k
    <3>5. Step(st, p) = [st EXCEPT !.out = @ \o FormatValue(d.arg, p.spec), !.used = k, !.at = d.at]
      BY <1>1, <2>3, <3>1, <3>2, <3>4, Zenon DEF d, k
    <3> DEFINE v == f[i - 1] \o FormatValue(args[k], p.spec)
               w == q[k]
    <3>6. st.out \o FormatValue(d.arg, p.spec) = v
      BY <2>3, <3>4, Zenon
    <3>7. [st EXCEPT !.out = @ \o FormatValue(d.arg, p.spec), !.used = k, !.at = d.at] =
            [st EXCEPT !.out = v, !.used = k, !.at = w]
      BY <3>4, <3>6, Zenon
    <3> HIDE DEF v, w
    <3>8. [st EXCEPT !.out = v, !.used = k, !.at = w] =
            [out |-> v, used |-> k, at |-> w, parse_ok |-> TRUE, panic |-> FALSE]
      <4> DEFINE b == TRUE
                 e == FALSE
      <4> HIDE DEF b, e
      <4>1. IsState(st, f[i - 1], u, q[u], b, e)
        BY <2>3, Zenon DEF IsState, b, e
      <4>2. IsState(WithArg(st, v, k, w), v, k, w, b, e)
        BY <4>1, Updated, Zenon
      <4> QED BY <4>2, Zenon DEF IsState, WithArg, b, e
    <3>9. f[i] = v
      BY <2>4, <2>7, <3>2, Zenon DEF v
    <3> QED BY <2>6, <3>2, <3>5, <3>7, <3>8, <3>9, Zenon DEF w, st, p
  <2>8. CASE ~IsPlace(p)
    <3>1. p.kind = "lit" /\ Placed(P, i) = u /\ f[i] = Append(f[i - 1], p.c)
      BY <2>2, <2>4, <2>5, <2>8
    <3>2. Step(st, p) = [st EXCEPT !.out = Append(@, p.c)]
      BY <2>3, <3>1, Zenon
    <3> DEFINE v == Append(f[i - 1], p.c)
               w == q[u]
    <3>3. [st EXCEPT !.out = Append(@, p.c)] = [st EXCEPT !.out = v]
      BY <2>3, Zenon
    <3>4. st = [out |-> f[i - 1], used |-> u, at |-> w, parse_ok |-> TRUE, panic |-> FALSE]
      BY <2>3
    <3> HIDE DEF v, w
    <3>5. [st EXCEPT !.out = v] = [out |-> v, used |-> u, at |-> w, parse_ok |-> TRUE, panic |-> FALSE]
      <4> DEFINE b == TRUE
                 e == FALSE
      <4> HIDE DEF b, e
      <4>1. IsState(st, f[i - 1], u, w, b, e)
        BY <3>4, Zenon DEF IsState, b, e
      <4>2. IsState(WithText(st, v), v, u, w, b, e)
        BY <4>1, Updated, Zenon
      <4> QED BY <4>2, Zenon DEF IsState, WithText, b, e
    <3> QED BY <2>6, <3>1, <3>2, <3>3, <3>5, Zenon DEF v, w, st, p
  <2> QED BY <2>7, <2>8
<1> HIDE DEF Step, state, base
<1> DEFINE g0 == [i \in 0 .. n |-> state(i)]
<1>9. D(g0)
  <2>1. ASSUME NEW i \in 0 .. n PROVE g0[i] = IF i = 0 THEN base ELSE Step(g0[i - 1], P[i])
    <3>1. CASE i = 0
      BY <1>7, <3>1, Zenon
    <3>2. CASE i # 0
      <4>1. i \in 1 .. n /\ i - 1 \in 0 .. n
        BY <1>0, <3>2
      <4>2. g0[i] = state(i) /\ g0[i - 1] = state(i - 1)
        BY <4>1, Zenon
      <4> QED BY <1>8, <3>2, <4>1, <4>2, Zenon
    <3> QED BY <3>1, <3>2
  <2>2. g0 = [i \in 0 .. n |-> g0[i]]
    BY Zenon
  <2> HIDE DEF g0
  <2> QED BY <2>1, <2>2, Zenon
<1> HIDE DEF g0
<1> DEFINE g == CHOOSE h : D(h)
<1>10. D(g)
  BY <1>9, Zenon
<1> HIDE DEF g
<1>11. g[0] = base /\ \A i \in 1 .. n : g[i] = Step(g[i - 1], P[i])
  <2>1. \A i \in 1 .. n : i \in 0 .. n /\ i # 0
    BY <1>0
  <2> QED BY <1>0, <1>10, <2>1, Zenon
<1> HIDE DEF D
<1> DEFINE T == {i \in 0 .. n : g[i] = state(i)}
<1>12. 0 \in T
  BY <1>0, <1>7, <1>11, Zenon
<1>13. ASSUME NEW m \in T, m < n PROVE m + 1 \in T
  <2>1. m + 1 \in 1 .. n /\ m + 1 \in 0 .. n /\ (m + 1) - 1 = m
    BY <1>0, <1>13
  <2>2. g[m] = state(m)
    OBVIOUS
  <2> QED BY <1>8, <1>11, <2>1, <2>2, Zenon
<1>14. T = 0 .. n
  <2> HIDE DEF T
  <2>1. T \in SUBSET (0 .. n)
    BY DEF T
  <2> QED BY <1>0, <1>12, <1>13, <2>1, Induction
<1>15. g[n] = state(n)
  BY <1>0, <1>14, Zenon
<1>16. state(n) = [out |-> MessageOf(P, args), used |-> c, at |-> end, parse_ok |-> TRUE, panic |-> FALSE]
  BY <1>3, <1>4, <1>6, Zenon DEF state, SpelledTo, n
<1> QED BY <1>2, <1>15, <1>16, Zenon DEF g, tags, c, P

\* A call whose format string the macros accept for its arguments: from the
\* record of the call, with any of the sections of older writers, interleave
\* writes the symbols of the string and each argument under the spec of its
\* placeholder, uses every argument, stops at the end of the record, and meets
\* no missing argument, no unknown tag, no lone brace and no short slice.
THEOREM AcceptedCallsRender ==
  ASSUME NEW S, NEW fmt \in Seq(S), NEW args, check_fmt(fmt, Len(args)),
         NEW r, NEW level, NEW ts, NEW flags, NEW total, NEW site, NEW file, NEW line, NEW thread, NEW name,
         Written(r, level, ts, flags, total, site, file, line, thread, name, args)
  PROVE  /\ interleave(fmt, DecodeHeader(r).tags, r, DecodeHeader(r).at) =
              [out |-> MessageOf(Pieces(fmt), args), used |-> Len(args), at |-> Len(r),
               parse_ok |-> TRUE, panic |-> FALSE]
         /\ \A k \in 1 .. Len(Pieces(fmt)) : Sound(fmt, Pieces(fmt)[k])
<1>1. Len(args) \in Nat /\ DOMAIN args = 1 .. Len(args)
  <2>1. CallArgs(args)
    BY Zenon DEF Written
  <2>2. args \in Seq({args[i] : i \in DOMAIN args})
    BY <2>1 DEF CallArgs
  <2> QED BY <2>2
<1>2. validate_fmt(fmt) = Len(args) /\ validate_fmt(fmt) # Err
  <2>1. validate_fmt(fmt) = Len(args)
    BY Zenon DEF check_fmt
  <2>2. Len(args) # Err
    BY <1>1 DEF Err
  <2> QED BY <2>1, <2>2, Zenon
<1>3. WellCut(fmt, Pieces(fmt), Len(args)) /\ Len(Pieces(fmt)) \in Nat
  <2>1. WellCut(fmt, Pieces(fmt), validate_fmt(fmt)) /\ Len(Pieces(fmt)) \in Nat
    BY <1>2, FormatCut, Zenon
  <2> QED BY <1>2, <2>1, Zenon
<1>4. PICK at \in Nat :
         /\ DecodeHeader(r) = DecodedHeader(level, ts, flags, site, file, line, thread, name, TagsOf(args), at)
         /\ HeaderRead(r, level, ts, flags, total)
         /\ \E q : Chained(args, r, at, Len(r), q)
  <2>1. \E at \in Nat : Understood(r, at, level, ts, flags, total, site, file, line, thread, name, args)
    BY RecordChained, Zenon
  <2> QED BY <2>1, Zenon DEF Understood
<1>5. PICK q : Chained(args, r, at, Len(r), q)
  BY <1>4
<1>6. DecodeHeader(r).tags = TagsOf(args) /\ DecodeHeader(r).at = at
  BY <1>4 DEF DecodedHeader
<1>7. interleave(fmt, TagsOf(args), r, at) =
        [out |-> MessageOf(Pieces(fmt), args), used |-> Len(args), at |-> Len(r), parse_ok |-> TRUE, panic |-> FALSE]
  BY <1>1, <1>3, <1>5, InterleaveSpells, Zenon
<1> QED BY <1>3, <1>6, <1>7, Zenon DEF WellCut

-----------------------------------------------------------------------------
(* Line patterns: Template::parse and render_pattern.                       *)

\* The segments of a pattern from i on, if they are known further on.
NotParsed == [ok |-> FALSE, segments |-> <<>>]

Follow(seg, rest) == IF rest.ok THEN [ok |-> TRUE, segments |-> <<seg>> \o rest.segments] ELSE rest

ParsedAt(s, f, i, seen) ==
  IF i > Len(s) THEN [ok |-> TRUE, segments |-> <<>>]
  ELSE IF At(s, i, {"{", "}"}) /\ At(s, i + 1, {s[i]}) THEN Follow(Lit(s[i]), f[i + 2][seen])
  ELSE IF s[i] = "{" THEN
    IF PlaceAt(s, i, seen).close = Err THEN NotParsed
    ELSE Follow(PlaceAt(s, i, seen).seg,
                f[PlaceAt(s, i, seen).close + 1][seen \/ PlaceAt(s, i, seen).seg.field = "message"])
  ELSE IF s[i] = "}" THEN NotParsed
  ELSE Follow(Lit(s[i]), f[i + 1][seen])

\* f has them for each position.
Parses(s, f) == \A i \in 1 .. Len(s) + 1 : f[i] = [seen \in BOOLEAN |-> ParsedAt(s, f, i, seen)]

\* A placeholder that is accepted has a closing brace, and is not a second
\* message.
LEMMA PlaceAtCloses ==
  ASSUME NEW s, Len(s) \in Nat, NEW i \in 1 .. Len(s), NEW seen, PlaceAt(s, i, seen).close # Err
  PROVE  /\ PlaceAt(s, i, seen).close \in i + 1 .. Len(s)
         /\ PlaceAt(s, i, seen).seg.kind = "place"
         /\ PlaceAt(s, i, seen).seg.field = "message" => ~seen
<1> DEFINE c    == FirstOf(s, i + 1, {":", "}"})
           nm   == SubSeq(s, i + 1, c - 1)
           e    == FirstOf(s, c, {"}"})
           body == SubSeq(s, c + 1, e - 1)
           spec == IF s[c] = ":" THEN parse_spec_body(body) ELSE DefaultSpec
           Wrong == \/ e > Len(s) \/ Len(nm) # 1 \/ nm[1] \notin Fields
                    \/ nm[1] = "message" /\ ~MessageAllowed(s, c, seen)
                    \/ s[c] = ":" /\ (nm[1] = "timestamp" \/ ~validate_spec_rt(body))
           bad  == [close |-> Err, seg |-> Lit("")]
           good == [close |-> e, seg |-> Place(nm[1], spec)]
<1>1. PlaceAt(s, i, seen) = IF Wrong THEN bad ELSE good
  BY Zenon DEF PlaceAt
<1>2. bad.close = Err
  OBVIOUS
<1>3. ~Wrong /\ PlaceAt(s, i, seen) = good
  BY <1>1, <1>2, Zenon
<1>4. ~(e > Len(s)) /\ (nm[1] = "message" => MessageAllowed(s, c, seen))
  BY <1>3, Zenon
<1> HIDE DEF Wrong, bad
<1>5. e \in i + 1 .. Len(s)
  <2>1. i + 1 \in 1 .. Len(s) + 1
    OBVIOUS
  <2>2. FirstAt(s, i + 1, {":", "}"}, c) /\ c \in Nat
    BY <2>1, FirstFound, Zenon
  <2>3. c \in i + 1 .. Len(s) + 1
    BY <2>2, Zenon DEF FirstAt
  <2> HIDE DEF c
  <2>4. c \in 1 .. Len(s) + 1
    BY <2>3
  <2>5. FirstAt(s, c, {"}"}, e) /\ e \in Nat
    BY <2>4, FirstFound, Zenon
  <2>6. e \in c .. Len(s) + 1 /\ ~(e > Len(s))
    BY <1>4, <2>5, Zenon DEF FirstAt
  <2> HIDE DEF e
  <2> QED BY <2>3, <2>6
<1> HIDE DEF c, e, nm, spec
<1>6. good.close = e /\ good.seg.kind = "place" /\ good.seg.field = nm[1]
  BY DEF Place
<1>7. nm[1] = "message" => ~seen
  BY <1>4, Zenon DEF MessageAllowed
<1> QED BY <1>3, <1>5, <1>6, <1>7, Zenon

\* Template::parse is such a function.
LEMMA PatternParses ==
  ASSUME NEW S, NEW s \in Seq(S)
  PROVE  \E f : Parses(s, f) /\ Parse(s) = f[1][FALSE]
<1> DEFINE n == Len(s)
           N == n + 1
           Body(f, i) == [seen \in BOOLEAN |-> ParsedAt(s, f, i, seen)]
           D(f, m) == f = [i \in (N - m) + 1 .. N |-> Body(f, i)]
           T == {m \in 0 .. N : \E f : D(f, m)}
<1>0. n \in Nat /\ N \in Nat /\ N \in 0 .. N /\ DOMAIN s = 1 .. n
  OBVIOUS
<1>1. Parse(s) = (CHOOSE f : f = [i \in 1 .. N |-> Body(f, i)])[1][FALSE]
  BY Zenon DEF Parse, ParsedAt, Follow, NotParsed
<1>2. ASSUME NEW i \in 1 .. N, NEW f, NEW g, \A j \in i + 1 .. N : f[j] = g[j]
      PROVE  Body(f, i) = Body(g, i)
  <2>1. ASSUME NEW seen \in BOOLEAN PROVE ParsedAt(s, f, i, seen) = ParsedAt(s, g, i, seen)
    <3>1. CASE i > Len(s)
      BY <3>1, Zenon DEF ParsedAt
    <3>2. CASE ~(i > Len(s))
      <4>0. i \in 1 .. Len(s) /\ i + 1 \in i + 1 .. N /\ (i + 1 \in DOMAIN s => i + 2 \in i + 1 .. N)
        BY <1>0, <3>2
      <4>1. CASE At(s, i, {"{", "}"}) /\ At(s, i + 1, {s[i]})
        <5>1. f[i + 2] = g[i + 2]
          BY <1>2, <4>0, <4>1, Zenon DEF At
        <5> QED BY <3>2, <4>1, <5>1, Zenon DEF ParsedAt
      <4>2. CASE ~(At(s, i, {"{", "}"}) /\ At(s, i + 1, {s[i]})) /\ s[i] = "{"
        <5>1. CASE PlaceAt(s, i, seen).close = Err
          BY <3>2, <4>2, <5>1, Zenon DEF ParsedAt
        <5>2. CASE PlaceAt(s, i, seen).close # Err
          <6> DEFINE e == PlaceAt(s, i, seen).close
          <6>1. e \in i + 1 .. Len(s)
            BY <1>0, <4>0, <5>2, PlaceAtCloses
          <6> HIDE DEF e
          <6>2. e + 1 \in i + 1 .. N
            BY <1>0, <6>1
          <6>3. f[e + 1] = g[e + 1]
            BY <1>2, <6>2, Zenon
          <6> QED BY <3>2, <4>2, <5>2, <6>3, Zenon DEF ParsedAt, e
        <5> QED BY <5>1, <5>2
      <4>3. CASE ~(At(s, i, {"{", "}"}) /\ At(s, i + 1, {s[i]})) /\ s[i] # "{"
        <5>1. f[i + 1] = g[i + 1]
          BY <1>2, <4>0, Zenon
        <5> QED BY <3>2, <4>3, <5>1, Zenon DEF ParsedAt
      <4> QED BY <4>1, <4>2, <4>3, Zenon
    <3> QED BY <3>1, <3>2
  <2> QED BY <2>1, Zenon
<1> HIDE DEF Body, n, N
<1>3. 0 \in T
  <2> DEFINE f == [i \in (N - 0) + 1 .. N |-> 0]
  <2>1. 0 \in 0 .. N /\ \A i \in (N - 0) + 1 .. N : FALSE
    BY <1>0
  <2>2. D(f, 0)
    BY <2>1, Zenon
  <2> QED BY <2>1, <2>2, Zenon
<1>4. ASSUME NEW m \in T, m < N PROVE m + 1 \in T
  <2>1. PICK f : D(f, m)
    OBVIOUS
  <2> DEFINE k == N - m
             g == [i \in k .. N |-> IF i = k THEN Body(f, k) ELSE f[i]]
  <2>2. /\ m \in Nat /\ m + 1 \in 0 .. N /\ k \in 1 .. N /\ (N - (m + 1)) + 1 = k /\ k \in k .. N
        /\ \A i \in k .. N : i = k \/ i \in k + 1 .. N
        /\ \A i \in k .. N : i \in 1 .. N /\ \A j \in i + 1 .. N : j \in k .. N /\ j # k
    BY <1>0, <1>4
  <2>3. \A i \in k + 1 .. N : f[i] = Body(f, i)
    BY <2>1, Zenon
  <2> HIDE DEF k
  <2>4. ASSUME NEW i \in k .. N PROVE g[i] = Body(g, i)
    <3>1. \A j \in i + 1 .. N : g[j] = f[j]
      BY <2>2, Zenon
    <3>2. Body(g, i) = Body(f, i)
      BY <1>2, <2>2, <3>1, Zenon
    <3>3. g[i] = Body(f, i)
      <4>1. CASE i = k
        BY <2>2, <4>1, Zenon
      <4>2. CASE i # k
        BY <2>2, <2>3, <4>2, Zenon
      <4> QED BY <4>1, <4>2
    <3> QED BY <3>2, <3>3, Zenon
  <2>5. g = [i \in k .. N |-> g[i]]
    BY Zenon
  <2> HIDE DEF g
  <2>6. g = [i \in k .. N |-> Body(g, i)]
    BY <2>4, <2>5, Zenon
  <2>7. D(g, m + 1)
    BY <2>2, <2>6, Zenon
  <2> QED BY <2>2, <2>7, Zenon
<1>5. T = 0 .. N
  <2> HIDE DEF T
  <2>1. T \in SUBSET (0 .. N)
    BY DEF T
  <2> QED BY <1>0, <1>3, <1>4, <2>1, Induction
<1> DEFINE E(f) == f = [i \in 1 .. N |-> Body(f, i)]
<1>6. \E f : E(f)
  <2>1. N \in T /\ (N - N) + 1 = 1
    <3>1. (N - N) + 1 = 1
      BY <1>0
    <3> QED BY <1>0, <1>5, <3>1, Zenon
  <2> QED BY <2>1, Zenon
<1> DEFINE g == CHOOSE f : E(f)
<1>7. E(g)
  BY <1>6, Zenon
<1> HIDE DEF g
<1>8. Parses(s, g)
  BY <1>7, Zenon DEF Parses, Body, n, N
<1> QED BY <1>1, <1>8, Zenon DEF g

\* The segments of a pattern hold at most one message, and none when one was
\* seen before.
IsMessage(p) == p.kind # "lit" /\ p.field = "message"

OneMessage(P, seen) ==
  /\ \E U : P \in Seq(U)
  /\ \A k \in 1 .. Len(P) : IsMessage(P[k]) => ~seen /\ \A l \in 1 .. Len(P) : IsMessage(P[l]) => l = k

\* With a segment before it.
LEMMA OneMessageBefore ==
  ASSUME NEW p, NEW Q, NEW seen, NEW then, OneMessage(Q, then),
         IsMessage(p) => ~seen /\ then, seen => then
  PROVE  OneMessage(<<p>> \o Q, seen)
<1> DEFINE P == <<p>> \o Q
<1>1. PICK U : Q \in Seq(U)
  BY Zenon DEF OneMessage
<1>2. P \in Seq(U \cup {p}) /\ Preceded(P, p, Q)
  <2> DEFINE W == U \cup {p}
  <2>1. p \in W /\ \A x \in U : x \in W
    OBVIOUS
  <2> HIDE DEF W
  <2>2. <<p>> \in Seq(W) /\ Q \in Seq(W)
    BY <1>1, <2>1
  <2>3. /\ <<p>> \o Q \in Seq(W) /\ Len(Q) \in Nat /\ Len(<<p>> \o Q) = Len(Q) + 1 /\ (<<p>> \o Q)[1] = p
        /\ \A k \in 1 .. Len(Q) : (<<p>> \o Q)[k + 1] = Q[k]
    BY <2>2
  <2> QED BY <2>3, Zenon DEF Preceded, W
<1> HIDE DEF P
<1>3. Len(Q) \in Nat /\ Len(P) = Len(Q) + 1 /\ P[1] = p /\ \A k \in 1 .. Len(Q) : P[k + 1] = Q[k]
  BY <1>2, Zenon DEF Preceded
<1>4. \A k \in 1 .. Len(P) : k = 1 \/ (k - 1 \in 1 .. Len(Q) /\ k = (k - 1) + 1)
  BY <1>3
<1>5. \A k \in 1 .. Len(P) : (P[k] = p /\ k = 1) \/ (k - 1 \in 1 .. Len(Q) /\ P[k] = Q[k - 1])
  BY <1>3, <1>4, Zenon
<1>6. \A k \in 1 .. Len(Q) : IsMessage(Q[k]) => ~then /\ \A l \in 1 .. Len(Q) : IsMessage(Q[l]) => l = k
  BY Zenon DEF OneMessage
<1>7. ASSUME NEW k \in 1 .. Len(P), IsMessage(P[k]), NEW l \in 1 .. Len(P), IsMessage(P[l]) PROVE ~seen /\ l = k
  <2>1. CASE P[k] = p /\ k = 1
    <3>1. ~seen /\ then
      BY <1>7, <2>1, Zenon
    <3>2. l = 1
      BY <1>5, <1>6, <1>7, <3>1, Zenon
    <3> QED BY <2>1, <3>1, <3>2, Zenon
  <2>2. CASE k - 1 \in 1 .. Len(Q) /\ P[k] = Q[k - 1]
    <3>1. IsMessage(Q[k - 1]) /\ ~then
      BY <1>6, <1>7, <2>2, Zenon
    <3>2. ~seen /\ ~IsMessage(p)
      BY <3>1, Zenon
    <3>3. l - 1 \in 1 .. Len(Q) /\ IsMessage(Q[l - 1])
      BY <1>5, <1>7, <3>2, Zenon
    <3>4. l - 1 = k - 1
      BY <1>6, <2>2, <3>1, <3>3, Zenon
    <3>5. l = k
      BY <3>4
    <3> QED BY <3>2, <3>5, Zenon
  <2> QED BY <1>5, <2>1, <2>2, Zenon
<1>8. OneMessage(P, seen)
  BY <1>2, <1>7, Zenon DEF OneMessage
<1> QED BY <1>8, Zenon DEF P

\* A pattern that Template::parse accepts has at most one {message}.
THEOREM PatternMessageOnce ==
  ASSUME NEW S, NEW s \in Seq(S), Parse(s).ok
  PROVE  OneMessage(Parse(s).segments, FALSE)
<1> DEFINE n == Len(s)
<1>0. n \in Nat /\ DOMAIN s = 1 .. n
  OBVIOUS
<1>1. PICK f : Parses(s, f) /\ Parse(s) = f[1][FALSE]
  BY PatternParses
<1>2. \A i \in 1 .. n + 1 : \A seen \in BOOLEAN : f[i][seen] = ParsedAt(s, f, i, seen)
  <2>1. ASSUME NEW i \in 1 .. n + 1, NEW seen \in BOOLEAN PROVE f[i][seen] = ParsedAt(s, f, i, seen)
    <3>1. f[i] = [x \in BOOLEAN |-> ParsedAt(s, f, i, x)]
      BY <1>1, Zenon DEF Parses
    <3> QED BY <3>1, Zenon
  <2> QED BY <2>1, Zenon
<1> DEFINE Right(i) == \A seen \in BOOLEAN : f[i][seen].ok => OneMessage(f[i][seen].segments, seen)
           T == {m \in 0 .. n : \A i \in (n + 1 - m) .. n + 1 : Right(i)}
<1>3. \A c : ~IsMessage(Lit(c))
  BY DEF IsMessage, Lit
<1>4. ASSUME NEW seg, NEW rest, Follow(seg, rest).ok
      PROVE  rest.ok /\ Follow(seg, rest).segments = <<seg>> \o rest.segments
  <2>1. rest.ok
    BY <1>4, Zenon DEF Follow
  <2>2. Follow(seg, rest) = [ok |-> TRUE, segments |-> <<seg>> \o rest.segments]
    BY <2>1, Zenon DEF Follow
  <2>3. \A x : [ok |-> TRUE, segments |-> x].segments = x
    OBVIOUS
  <2> QED BY <2>1, <2>2, <2>3, Zenon
<1>5. ~NotParsed.ok
  BY DEF NotParsed
<1> HIDE DEF n
<1>6. Right(n + 1)
  <2>1. n + 1 \in 1 .. n + 1 /\ n + 1 > n
    BY <1>0
  <2> DEFINE v == [ok |-> TRUE, segments |-> <<>>]
  <2>2. v.segments = <<>> /\ Len(<<>>) = 0 /\ 1 .. 0 = {} /\ <<>> \in Seq({})
    OBVIOUS
  <2> HIDE DEF v
  <2>3. OneMessage(<<>>, TRUE) /\ OneMessage(<<>>, FALSE)
    BY <2>2, Zenon DEF OneMessage
  <2>4. ASSUME NEW seen \in BOOLEAN PROVE OneMessage(f[n + 1][seen].segments, seen)
    <3>1. f[n + 1][seen] = v
      BY <1>2, <2>1, Zenon DEF ParsedAt, n, v
    <3>2. OneMessage(<<>>, seen)
      BY <2>2, Zenon DEF OneMessage
    <3> QED BY <2>2, <3>1, <3>2, Zenon
  <2> QED BY <2>4, Zenon
<1>7. ASSUME NEW i \in 1 .. n, \A j \in i + 1 .. n + 1 : Right(j) PROVE Right(i)
  <2> SUFFICES ASSUME NEW seen \in BOOLEAN, f[i][seen].ok PROVE OneMessage(f[i][seen].segments, seen)
    OBVIOUS
  <2>0. /\ i \in 1 .. n + 1 /\ ~(i > n) /\ i + 1 \in i + 1 .. n + 1
        /\ (i + 1 \in DOMAIN s => i + 2 \in i + 1 .. n + 1)
    BY <1>0
  <2>1. f[i][seen] = ParsedAt(s, f, i, seen)
    BY <1>2, <2>0, Zenon
  <2>2. ASSUME NEW j \in i + 1 .. n + 1, f[i][seen] = Follow(Lit(s[i]), f[j][seen])
        PROVE  OneMessage(f[i][seen].segments, seen)
    <3>1. Follow(Lit(s[i]), f[j][seen]).ok
      BY <2>2, Zenon
    <3>2. f[j][seen].ok /\ Follow(Lit(s[i]), f[j][seen]).segments = <<Lit(s[i])>> \o f[j][seen].segments
      BY <1>4, <3>1
    <3>3. f[j][seen].ok /\ f[i][seen].segments = <<Lit(s[i])>> \o f[j][seen].segments
      BY <2>2, <3>2, Zenon
    <3>4. OneMessage(f[j][seen].segments, seen)
      BY <1>7, <3>3, Zenon
    <3>5. OneMessage(<<Lit(s[i])>> \o f[j][seen].segments, seen)
      BY <1>3, <3>4, OneMessageBefore, Zenon
    <3> QED BY <3>3, <3>5, Zenon
  <2>3. CASE At(s, i, {"{", "}"}) /\ At(s, i + 1, {s[i]})
    <3>1. f[i][seen] = Follow(Lit(s[i]), f[i + 2][seen])
      BY <2>0, <2>1, <2>3, Zenon DEF ParsedAt, n
    <3>2. i + 2 \in i + 1 .. n + 1
      BY <2>0, <2>3, Zenon DEF At
    <3> QED BY <2>2, <3>1, <3>2, Zenon
  <2>4. CASE ~(At(s, i, {"{", "}"}) /\ At(s, i + 1, {s[i]})) /\ s[i] = "{"
    <3> DEFINE p == PlaceAt(s, i, seen)
               now == seen \/ p.seg.field = "message"
               j == p.close + 1
    <3>1. f[i][seen] = IF p.close = Err THEN NotParsed ELSE Follow(p.seg, f[j][now])
      BY <2>0, <2>1, <2>4, Zenon DEF ParsedAt, n
    <3>2. p.close # Err /\ f[i][seen] = Follow(p.seg, f[j][now])
      BY <1>5, <3>1, Zenon
    <3>3. p.close \in i + 1 .. n /\ p.seg.kind = "place" /\ (p.seg.field = "message" => ~seen)
      BY <1>0, <3>2, PlaceAtCloses, Zenon DEF n
    <3>4. now \in BOOLEAN
      BY Zenon
    <3>5. IsMessage(p.seg) => ~seen /\ now
      BY <3>3, Zenon DEF IsMessage
    <3>6. seen => now
      BY Zenon
    <3> HIDE DEF p
    <3>7. j \in i + 1 .. n + 1
      BY <1>0, <3>3
    <3> HIDE DEF now, j
    <3>8. Follow(p.seg, f[j][now]).ok
      BY <3>2, Zenon
    <3>9. f[j][now].ok /\ Follow(p.seg, f[j][now]).segments = <<p.seg>> \o f[j][now].segments
      BY <1>4, <3>8
    <3>10. f[j][now].ok /\ f[i][seen].segments = <<p.seg>> \o f[j][now].segments
      BY <3>2, <3>9, Zenon
    <3>11. OneMessage(f[j][now].segments, now)
      BY <1>7, <3>4, <3>7, <3>10, Zenon
    <3>12. OneMessage(<<p.seg>> \o f[j][now].segments, seen)
      BY <3>5, <3>6, <3>11, OneMessageBefore, Zenon
    <3> QED BY <3>10, <3>12, Zenon
  <2>5. CASE ~(At(s, i, {"{", "}"}) /\ At(s, i + 1, {s[i]})) /\ s[i] # "{"
    <3>1. f[i][seen] = IF s[i] = "}" THEN NotParsed ELSE Follow(Lit(s[i]), f[i + 1][seen])
      BY <2>0, <2>1, <2>5, Zenon DEF ParsedAt, n
    <3>2. f[i][seen] = Follow(Lit(s[i]), f[i + 1][seen])
      BY <1>5, <3>1, Zenon
    <3> QED BY <2>0, <2>2, <3>2, Zenon
  <2> QED BY <2>3, <2>4, <2>5, Zenon
<1> HIDE DEF Right
<1>8. T = 0 .. n
  <2>1. 0 \in T
    <3>1. 0 \in 0 .. n /\ \A i \in (n + 1 - 0) .. n + 1 : i = n + 1
      BY <1>0
    <3> QED BY <1>6, <3>1, Zenon
  <2>2. ASSUME NEW m \in T, m < n PROVE m + 1 \in T
    <3> DEFINE k == n - m
    <3>1. /\ m \in Nat /\ k \in 1 .. n /\ m + 1 \in 0 .. n /\ n + 1 - (m + 1) = k /\ n + 1 - m = k + 1
          /\ \A i \in k .. n + 1 : i = k \/ i \in k + 1 .. n + 1
      BY <1>0, <2>2
    <3>2. \A i \in k + 1 .. n + 1 : Right(i)
      BY <3>1, Zenon
    <3> HIDE DEF k
    <3>3. Right(k)
      BY <1>7, <3>1, <3>2, Zenon
    <3> QED BY <3>1, <3>2, <3>3, Zenon
  <2> HIDE DEF T
  <2>3. T \in SUBSET (0 .. n)
    BY DEF T
  <2> QED BY <1>0, <2>1, <2>2, <2>3, Induction
<1>9. Right(1)
  <2>1. n \in 0 .. n /\ 1 \in (n + 1 - n) .. n + 1
    BY <1>0
  <2>2. n \in T
    BY <1>8, <2>1, Zenon
  <2> QED BY <2>1, <2>2, Zenon
<1> QED BY <1>1, <1>9, Zenon DEF Right

\* A state of render_pattern.
IsLine(st, o, a, b) == st = [out |-> o, at |-> a, panic |-> b]

HasLine(st, o, a, b) == st.out = o /\ st.at = a /\ st.panic = b

\* It has these fields, and keeps the others when text is added.
LEMMA LineFields ==
  ASSUME NEW st, NEW o, NEW a, NEW b, IsLine(st, o, a, b)
  PROVE  HasLine(st, o, a, b) /\ \A x : IsLine(WithText(st, x), x, a, b)
BY DEF IsLine, HasLine, WithText

\* The line that segments make when the message is `message`: f[i] is the line
\* after the first i of them.
LineBuilt(P, message, f) ==
  /\ f[0] = <<>>
  /\ \A i \in 1 .. Len(P) :
       \/ P[i].kind = "lit" /\ f[i] = Append(f[i - 1], P[i].c)
       \/ IsMessage(P[i]) /\ f[i] = f[i - 1] \o message
       \/ P[i].kind # "lit" /\ ~IsMessage(P[i]) /\ \E text : f[i] = f[i - 1] \o text

\* A message rendered in full, up to the end of its record.
MessageDone(m, message, end) == m.out = message /\ m.at = end /\ m.panic = FALSE

\* Does one of the first i segments hold the message?
MessageBy(P, i) == \E k \in 1 .. i : IsMessage(P[k])

\* Where the cursor stands after the first i segments.
CursorAt(P, i, at, end) == IF MessageBy(P, i) THEN end ELSE at

\* m is the line that the segments make, without a panic, from a cursor at
\* `at` where the message ends at `end`.
LineRendered(m, P, message, at, end) ==
  \E f : /\ LineBuilt(P, message, f)
         /\ m = [out |-> f[Len(P)], at |-> CursorAt(P, Len(P), at, end), panic |-> FALSE]

\* After one segment more.
LEMMA MessageByNext ==
  ASSUME NEW P, NEW seen, OneMessage(P, seen), NEW i \in 1 .. Len(P)
  PROVE  /\ IsMessage(P[i]) => ~MessageBy(P, i - 1) /\ MessageBy(P, i)
         /\ ~IsMessage(P[i]) => (MessageBy(P, i) <=> MessageBy(P, i - 1))
<1>1. Len(P) \in Nat
  <2>1. PICK U : P \in Seq(U)
    BY Zenon DEF OneMessage
  <2> QED BY <2>1
<1>2. /\ i \in 1 .. i /\ (\A k \in 1 .. i - 1 : k \in 1 .. Len(P) /\ k # i /\ k \in 1 .. i)
      /\ \A k \in 1 .. i : k = i \/ k \in 1 .. i - 1
  BY <1>1
<1>3. \A k \in 1 .. Len(P) : IsMessage(P[k]) => \A l \in 1 .. Len(P) : IsMessage(P[l]) => l = k
  BY Zenon DEF OneMessage
<1>4. IsMessage(P[i]) => ~MessageBy(P, i - 1) /\ MessageBy(P, i)
  BY <1>2, <1>3, Zenon DEF MessageBy
<1>5. ~IsMessage(P[i]) => (MessageBy(P, i) <=> MessageBy(P, i - 1))
  BY <1>2, Zenon DEF MessageBy
<1> QED BY <1>4, <1>5

\* render_pattern over the segments of an accepted pattern, where interleave
\* renders the message from the arguments' place to the end.
LEMMA PatternBuilds ==
  ASSUME NEW P, NEW seen, OneMessage(P, seen),
         NEW fmt, NEW source, NEW thread_id, NEW thread_name, NEW h, NEW r,
         NEW message, NEW end, MessageDone(interleave(fmt, h.tags, r, h.at), message, end)
  PROVE  LineRendered(render_pattern(P, fmt, source, thread_id, thread_name, h, r), P, message, h.at, end)
<1> DEFINE n == Len(P)
           Fixed(seg) ==
             CASE seg.field = "timestamp"   -> <<"timestamp">>
               [] seg.field = "level"       -> format_str(LevelName[h.level], seg.spec)
               [] seg.field = "file"        -> FlattenSeq([i \in DOMAIN source |->
                                                 format_str(source[i].file, seg.spec)])
               [] seg.field = "line"        -> FlattenSeq([i \in DOMAIN source |->
                                                 format_unsigned_impl(source[i].line, seg.spec)])
               [] seg.field = "thread_name" -> format_str(thread_name, seg.spec)
               [] seg.field = "thread_id"   ->
                    <<"ThreadId(">> \o format_unsigned_impl(thread_id, seg.spec) \o <<")">>
           Step(st, seg) ==
             IF st.panic THEN st
             ELSE IF seg.kind = "lit" THEN [st EXCEPT !.out = Append(@, seg.c)]
             ELSE IF seg.field # "message" THEN [st EXCEPT !.out = @ \o Fixed(seg)]
             ELSE LET m == interleave(fmt, h.tags, r, st.at)
                  IN [out |-> st.out \o m.out, at |-> m.at, panic |-> m.panic]
           base == [out |-> <<>>, at |-> h.at, panic |-> FALSE]
           Body(g, i) == IF i = 0 THEN base ELSE Step(g[i - 1], P[i])
           D(g, m) == g = [i \in 0 .. m |-> Body(g, i)]
<1>0. n \in Nat /\ n \in 0 .. n /\ 0 \in 0 .. n
  <2>1. PICK U : P \in Seq(U)
    BY Zenon DEF OneMessage
  <2> QED BY <2>1
<1>1. render_pattern(P, fmt, source, thread_id, thread_name, h, r) = (CHOOSE g : D(g, n))[n]
  BY Zenon DEF render_pattern, Loop
<1>2. ASSUME NEW st, st.panic = FALSE, NEW seg, seg.kind = "lit"
      PROVE  Step(st, seg) = WithText(st, Append(st.out, seg.c))
  BY <1>2, Zenon DEF WithText
<1>3. ASSUME NEW st, st.panic = FALSE, NEW seg, seg.kind # "lit", ~IsMessage(seg)
      PROVE  \E text : Step(st, seg) = WithText(st, st.out \o text)
  <2> DEFINE text == Fixed(seg)
  <2>1. seg.field # "message"
    BY <1>3, Zenon DEF IsMessage
  <2>2. Step(st, seg) = [st EXCEPT !.out = @ \o text]
    BY <1>3, <2>1, Zenon
  <2> HIDE DEF text, Step
  <2>3. Step(st, seg) = WithText(st, st.out \o text)
    BY <2>2, Zenon DEF WithText
  <2> QED BY <2>3, Zenon
<1>4. ASSUME NEW st, st.panic = FALSE, st.at = h.at, NEW seg, IsMessage(seg)
      PROVE  IsLine(Step(st, seg), st.out \o message, end, FALSE)
  <2> DEFINE m == interleave(fmt, h.tags, r, h.at)
  <2>1. seg.kind # "lit" /\ ~(seg.field # "message")
    BY <1>4, Zenon DEF IsMessage
  <2>2. Step(st, seg) = [out |-> st.out \o m.out, at |-> m.at, panic |-> m.panic]
    BY <1>4, <2>1, Zenon
  <2> HIDE DEF m, Step
  <2>4. m.out = message /\ m.at = end /\ m.panic = FALSE
    BY Zenon DEF m, MessageDone
  <2> QED BY <2>2, <2>4, Zenon DEF IsLine
<1> HIDE DEF n, Step
<1> DEFINE T == {m \in 0 .. n : \E g : D(g, m)}
<1>5. 0 \in T
  <2> DEFINE g == [i \in 0 .. 0 |-> base]
  <2>1. \A i \in 0 .. 0 : i = 0
    OBVIOUS
  <2> HIDE DEF base
  <2>2. D(g, 0)
    BY <2>1, Zenon
  <2> QED BY <1>0, <2>2, Zenon
<1> HIDE DEF base
<1>6. ASSUME NEW m \in T, m < n PROVE m + 1 \in T
  <2>1. PICK f : D(f, m)
    OBVIOUS
  <2>2. m \in Nat /\ m + 1 \in 0 .. n
    BY <1>0, <1>6
  <2> DEFINE g == [i \in 0 .. m + 1 |-> IF i <= m THEN f[i] ELSE Step(f[m], P[m + 1])]
  <2>3. \A i \in 0 .. m : f[i] = Body(f, i)
    BY <2>1, Zenon
  <2>4. ASSUME NEW i \in 0 .. m + 1 PROVE g[i] = Body(g, i)
    <3>1. CASE i = 0
      <4>1. 0 <= m /\ 0 \in 0 .. m /\ 0 \in 0 .. m + 1
        BY <2>2
      <4> QED BY <2>3, <3>1, <4>1, Zenon
    <3>2. CASE i # 0 /\ i <= m
      <4>1. i \in 0 .. m /\ i - 1 \in 0 .. m + 1 /\ i - 1 <= m
        BY <2>2, <3>2
      <4>2. g[i] = f[i] /\ g[i - 1] = f[i - 1]
        BY <3>2, <4>1, Zenon
      <4> QED BY <2>3, <3>2, <4>1, <4>2, Zenon
    <3>3. CASE i # 0 /\ ~(i <= m)
      <4>1. i = m + 1 /\ i - 1 = m /\ m <= m /\ m \in 0 .. m + 1
        BY <2>2, <3>3
      <4>2. g[i] = Step(f[m], P[m + 1]) /\ g[m] = f[m]
        BY <3>3, <4>1, Zenon
      <4> QED BY <3>3, <4>1, <4>2, Zenon
    <3> QED BY <3>1, <3>2, <3>3
  <2>5. g = [i \in 0 .. m + 1 |-> g[i]]
    BY Zenon
  <2> HIDE DEF g
  <2>6. D(g, m + 1)
    BY <2>4, <2>5, Zenon
  <2> QED BY <2>2, <2>6, Zenon
<1>7. T = 0 .. n
  <2> HIDE DEF T
  <2>1. T \in SUBSET (0 .. n)
    BY DEF T
  <2> QED BY <1>0, <1>5, <1>6, <2>1, Induction
<1>8. \E g : D(g, n)
  <2>1. n \in T
    BY <1>0, <1>7, Zenon
  <2> QED BY <2>1, Zenon
<1> DEFINE g == CHOOSE x : D(x, n)
<1>9. D(g, n)
  BY <1>8, Zenon
<1> HIDE DEF g
<1>10. g[0] = base /\ \A i \in 1 .. n : g[i] = Step(g[i - 1], P[i])
  <2>1. \A i \in 1 .. n : i \in 0 .. n /\ i # 0
    BY <1>0
  <2>2. \A i \in 0 .. n : g[i] = Body(g, i)
    BY <1>9, Zenon
  <2> QED BY <1>0, <2>1, <2>2, Zenon
<1> HIDE DEF D, T
<1> DEFINE no == FALSE
           f == [i \in 0 .. n |-> g[i].out]
           cur(i) == CursorAt(P, i, h.at, end)
           Built(i) ==
             \/ P[i].kind = "lit" /\ f[i] = Append(f[i - 1], P[i].c)
             \/ IsMessage(P[i]) /\ f[i] = f[i - 1] \o message
             \/ P[i].kind # "lit" /\ ~IsMessage(P[i]) /\ \E text : f[i] = f[i - 1] \o text
           Right(i) == IsLine(g[i], f[i], cur(i), no)
           V == {m \in 0 .. n : Right(m) /\ (m # 0 => Built(m))}
<1>11. Right(0) /\ f[0] = <<>>
  <2> HIDE DEF no
  <2>1. IsLine(base, <<>>, h.at, no)
    BY Zenon DEF base, IsLine, no
  <2>2. base.out = <<>>
    BY <2>1, LineFields, Zenon DEF HasLine
  <2>3. f[0] = <<>>
    BY <1>0, <1>10, <2>2, Zenon
  <2>4. ~MessageBy(P, 0)
    <3>1. \A k \in 1 .. 0 : FALSE
      OBVIOUS
    <3> QED BY <3>1, Zenon DEF MessageBy
  <2>5. cur(0) = h.at
    BY <2>4, Zenon DEF CursorAt
  <2> QED BY <1>10, <2>1, <2>3, <2>5, Zenon
<1>12. ASSUME NEW i \in 1 .. n, Right(i - 1) PROVE Right(i) /\ Built(i)
  <2> DEFINE st == g[i - 1]
             p == P[i]
             a == cur(i - 1)
             o == f[i - 1]
  <2>0. i \in 0 .. n /\ i - 1 \in 0 .. n
    BY <1>0
  <2>1. IsLine(st, o, a, no)
    BY <1>12, Zenon
  <2>2. f[i] = g[i].out /\ g[i] = Step(st, p)
    BY <1>10, <2>0, Zenon
  <2>3. /\ IsMessage(p) => ~MessageBy(P, i - 1) /\ MessageBy(P, i)
        /\ ~IsMessage(p) => (MessageBy(P, i) <=> MessageBy(P, i - 1))
    BY MessageByNext, Zenon DEF n
  <2> HIDE DEF no, f, st, p, o
  <2>4. st.out = o /\ st.at = a /\ st.panic = no /\ \A x : IsLine(WithText(st, x), x, a, no)
    <3>1. HasLine(st, o, a, no) /\ \A x : IsLine(WithText(st, x), x, a, no)
      BY <2>1, LineFields
    <3> QED BY <3>1, Zenon DEF HasLine
  <2>5. st.panic = FALSE
    BY <2>4, Zenon DEF no
  <2>6. ASSUME NEW x, IsLine(g[i], x, cur(i), no) PROVE f[i] = x /\ Right(i)
    <3>1. g[i].out = x
      <4>1. HasLine(g[i], x, cur(i), no)
        BY <2>6, LineFields
      <4> QED BY <4>1, Zenon DEF HasLine
    <3>2. f[i] = x
      BY <2>2, <3>1, Zenon
    <3> QED BY <2>6, <3>2, Zenon
  <2>7. CASE p.kind = "lit"
    <3>1. Step(st, p) = WithText(st, Append(o, p.c))
      BY <1>2, <2>4, <2>5, <2>7, Zenon
    <3>2. ~IsMessage(p)
      BY <2>7, Zenon DEF IsMessage
    <3>3. cur(i) = a
      BY <2>3, <3>2, Zenon DEF CursorAt
    <3>4. IsLine(g[i], Append(o, p.c), cur(i), no)
      BY <2>2, <2>4, <3>1, <3>3, Zenon
    <3>5. f[i] = Append(o, p.c) /\ Right(i)
      BY <2>6, <3>4
    <3> QED BY <2>7, <3>5, Zenon DEF p, o
  <2>8. CASE p.kind # "lit" /\ ~IsMessage(p)
    <3>1. PICK text : Step(st, p) = WithText(st, o \o text)
      BY <1>3, <2>4, <2>5, <2>8, Zenon
    <3>3. cur(i) = a
      BY <2>3, <2>8, Zenon DEF CursorAt
    <3>4. IsLine(g[i], o \o text, cur(i), no)
      BY <2>2, <2>4, <3>1, <3>3, Zenon
    <3>5. f[i] = o \o text /\ Right(i)
      BY <2>6, <3>4
    <3> QED BY <2>8, <3>5, Zenon DEF p, o
  <2>9. CASE IsMessage(p)
    <3>1. a = h.at /\ cur(i) = end
      BY <2>3, <2>9, Zenon DEF CursorAt
    <3>2. IsLine(Step(st, p), o \o message, end, no)
      <4>1. st.at = h.at
        BY <2>4, <3>1, Zenon
      <4>2. IsLine(Step(st, p), st.out \o message, end, FALSE)
        BY <1>4, <2>5, <2>9, <4>1
      <4> QED BY <2>4, <4>2, Zenon DEF no
    <3>3. IsLine(g[i], o \o message, cur(i), no)
      BY <2>2, <3>1, <3>2, Zenon
    <3>4. f[i] = o \o message /\ Right(i)
      BY <2>6, <3>3
    <3> QED BY <2>9, <3>4, Zenon DEF p, o
  <2> QED BY <2>7, <2>8, <2>9, Zenon DEF IsMessage
<1> HIDE DEF Right, Built, f, no
<1>13. V = 0 .. n
  <2>1. 0 \in V
    BY <1>0, <1>11, Zenon
  <2>2. ASSUME NEW m \in V, m < n PROVE m + 1 \in V
    <3>1. m + 1 \in 1 .. n /\ m + 1 \in 0 .. n /\ (m + 1) - 1 = m
      BY <1>0, <2>2
    <3>2. Right((m + 1) - 1)
      BY <3>1, Zenon
    <3> QED BY <1>12, <3>1, <3>2, Zenon
  <2> HIDE DEF V
  <2>3. V \in SUBSET (0 .. n)
    BY DEF V
  <2> QED BY <1>0, <2>1, <2>2, <2>3, Induction
<1>14. Right(n) /\ \A i \in 1 .. n : Built(i)
  <2>1. \A i \in 1 .. n : i \in 0 .. n /\ i # 0
    BY <1>0
  <2>2. \A m \in 0 .. n : Right(m) /\ (m # 0 => Built(m))
    BY <1>13, Zenon
  <2> QED BY <1>0, <2>1, <2>2, Zenon
<1>15. LineBuilt(P, message, f)
  BY <1>11, <1>14, Zenon DEF LineBuilt, Built, n
<1>16. render_pattern(P, fmt, source, thread_id, thread_name, h, r) =
         [out |-> f[n], at |-> CursorAt(P, n, h.at, end), panic |-> FALSE]
  BY <1>1, <1>14, Zenon DEF Right, IsLine, no, g
<1> QED BY <1>15, <1>16, Zenon DEF n, LineRendered

\* A call whose format string the macros accept, under a pattern that
\* Template::parse accepts: render_pattern does not panic; the line is the
\* pattern's literal symbols and fields in order, with the whole message where
\* {message} stands and nowhere else; and the cursor ends at the end of the
\* record, or has not moved when the pattern has no message.
THEOREM AcceptedPatternsRender ==
  ASSUME NEW S, NEW fmt \in Seq(S), NEW args, check_fmt(fmt, Len(args)),
         NEW r, NEW level, NEW ts, NEW flags, NEW total, NEW site, NEW file, NEW line, NEW thread, NEW name,
         Written(r, level, ts, flags, total, site, file, line, thread, name, args),
         NEW U, NEW pattern \in Seq(U), Parse(pattern).ok, NEW source, NEW thread_id, NEW thread_name
  PROVE  LineRendered(render_pattern(Parse(pattern).segments, fmt, source, thread_id, thread_name,
                                     DecodeHeader(r), r),
                      Parse(pattern).segments, MessageOf(Pieces(fmt), args), DecodeHeader(r).at, Len(r))
<1> DEFINE P == Parse(pattern).segments
           h == DecodeHeader(r)
           message == MessageOf(Pieces(fmt), args)
           m == interleave(fmt, h.tags, r, h.at)
<1>1. OneMessage(P, FALSE)
  BY PatternMessageOnce
<1>2. m = [out |-> message, used |-> Len(args), at |-> Len(r), parse_ok |-> TRUE, panic |-> FALSE]
  BY AcceptedCallsRender
<1> HIDE DEF P, h, message, m
<1>3. MessageDone(m, message, Len(r))
  BY <1>2 DEF MessageDone
<1>4. LineRendered(render_pattern(P, fmt, source, thread_id, thread_name, h, r), P, message, h.at, Len(r))
  BY <1>1, <1>3, PatternBuilds, Zenon DEF m
<1> QED BY <1>4, Zenon DEF P, h, message

=============================================================================
