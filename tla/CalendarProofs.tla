--------------------------- MODULE CalendarProofs ---------------------------
(***************************************************************************)
(* The calendar of ECMAScript, which is arithmetic on the number of the    *)
(* day, for every day from 1900 on: each day has one date, Date.UTC gives  *)
(* the day back, and a "today" put together from parts of three days is    *)
(* never later than the last of them.                                      *)
(***************************************************************************)
EXTENDS Calendar, TLAPS

-----------------------------------------------------------------------------
(* Years *)

\* 146097 days are 400 years.
LEMMA YearsOfAverageLength ==
  ASSUME NEW y \in Int
  PROVE  /\ DayFromYear(y) \in Int
         /\ 400 * DayFromYear(y) <= 146097 * (y - 1970) + 600
         /\ 400 * DayFromYear(y) >= 146097 * (y - 1970) - 620
BY DEF DayFromYear

LEMMA YearLength ==
  ASSUME NEW y \in Int
  PROVE  LeapDay(y) \in {0, 1} /\ DayFromYear(y + 1) = DayFromYear(y) + 365 + LeapDay(y)
BY DEF DayFromYear, LeapDay

LEMMA LeapDayRule ==
  ASSUME NEW y \in Int
  PROVE  LeapDay(y) = IF IsLeapYear(y) THEN 1 ELSE 0
BY DEF DayFromYear, LeapDay, IsLeapYear

LEMMA YearsInOrder ==
  ASSUME NEW x \in Int, NEW y \in Int, x < y
  PROVE  DayFromYear(x + 1) <= DayFromYear(y)
BY DEF DayFromYear

\* The days from 1900 on, the first year a reservation may have.
CalendarDays == {t \in Int : t >= DayFromYear(1900)}

LEMMA YearsBegin == DayFromYear(1900) = -25567 /\ DayFromYear(1970) = 0
BY DEF DayFromYear

LEMMA YearExists ==
  ASSUME NEW t \in Int
  PROVE  \E y \in Int : DayFromYear(y) <= t /\ t < DayFromYear(y + 1)
<1> DEFINE e == 1970 + ((400 * t) \div 146097)
<1>1. e \in Int /\ 146097 * (e - 1970) <= 400 * t /\ 400 * t < 146097 * (e - 1969)
  OBVIOUS
<1> HIDE DEF e
<1>2. e - 1 \in Int /\ e + 1 \in Int /\ e + 2 \in Int
  BY <1>1
<1>3. DayFromYear(e - 1) \in Int /\ DayFromYear(e) \in Int /\ DayFromYear(e + 1) \in Int
      /\ DayFromYear(e + 2) \in Int
  BY <1>1, <1>2, YearsOfAverageLength
<1>4. DayFromYear(e - 1) <= t
  <2>1. 400 * DayFromYear(e - 1) <= 146097 * (e - 1 - 1970) + 600
    BY <1>2, YearsOfAverageLength
  <2> QED
    BY <1>1, <1>3, <2>1
<1>5. t < DayFromYear(e + 2)
  <2>1. PICK y \in Int : y = e + 2
    BY <1>2
  <2>2. DayFromYear(y) \in Int /\ 400 * DayFromYear(y) >= 146097 * (y - 1970) - 620
    BY YearsOfAverageLength
  <2>3. t < DayFromYear(y)
    BY <1>1, <2>1, <2>2
  <2> QED
    BY <2>1, <2>3
<1>6. CASE t < DayFromYear(e)
  <2>1. (e - 1) + 1 = e
    BY <1>1
  <2> QED
    BY <1>2, <1>4, <1>6, <2>1
<1>7. CASE DayFromYear(e) <= t /\ t < DayFromYear(e + 1)
  BY <1>1, <1>7
<1>8. CASE DayFromYear(e + 1) <= t
  <2>1. (e + 1) + 1 = e + 2
    BY <1>1
  <2> QED
    BY <1>2, <1>5, <1>8, <2>1
<1> QED
  BY <1>3, <1>6, <1>7, <1>8

LEMMA YearUnique ==
  ASSUME NEW t \in Int, NEW x \in Int, NEW y \in Int,
         DayFromYear(x) <= t, t < DayFromYear(x + 1),
         DayFromYear(y) <= t, t < DayFromYear(y + 1)
  PROVE  x = y
<1>1. DayFromYear(x) \in Int /\ DayFromYear(y) \in Int
      /\ DayFromYear(x + 1) \in Int /\ DayFromYear(y + 1) \in Int
  BY YearsOfAverageLength
<1>2. ~(x < y) /\ ~(y < x)
  BY <1>1, YearsInOrder
<1> QED
  BY <1>2

\* The range YearOf searches holds the year.
LEMMA YearInRange ==
  ASSUME NEW t \in CalendarDays, NEW y \in Int, DayFromYear(y) <= t, t < DayFromYear(y + 1)
  PROVE  y \in (1968 + t \div 366)..(1972 + t \div 365)
<1>1. t \in Int /\ t >= -25567
  BY YearsBegin DEF CalendarDays
<1>2. DayFromYear(y) \in Int /\ DayFromYear(y + 1) \in Int
      /\ 400 * DayFromYear(y) >= 146097 * (y - 1970) - 620
      /\ 400 * DayFromYear(y + 1) <= 146097 * (y + 1 - 1970) + 600
  BY YearsOfAverageLength
<1>3. 1968 + t \div 366 <= y
  BY <1>1, <1>2
<1>4. y <= 1972 + t \div 365
  BY <1>1, <1>2
<1> QED
  BY <1>1, <1>3, <1>4

LEMMA YearIs ==
  ASSUME NEW t \in CalendarDays
  PROVE  /\ YearOf(t) \in Int /\ DayFromYear(YearOf(t)) <= t /\ t < DayFromYear(YearOf(t) + 1)
         /\ \A y \in Int : DayFromYear(y) <= t /\ t < DayFromYear(y + 1) => YearOf(t) = y
<1> DEFINE range == (1968 + t \div 366)..(1972 + t \div 365)
<1> DEFINE Fit(y) == DayFromYear(y) <= t /\ t < DayFromYear(y + 1)
<1>1. t \in Int
  BY DEF CalendarDays
<1>2. range \subseteq Int
  BY <1>1
<1>3. \E y \in range : Fit(y)
  BY <1>1, YearExists, YearInRange
<1>4. YearOf(t) = CHOOSE y \in range : Fit(y)
  BY DEF YearOf
<1> HIDE DEF range
<1>5. YearOf(t) \in range /\ Fit(YearOf(t))
  BY <1>3, <1>4
<1>6. \A y \in Int : Fit(y) => YearOf(t) = y
  BY <1>1, <1>2, <1>5, YearUnique
<1> QED
  BY <1>2, <1>5, <1>6

\* Of two days the later one is not in an earlier year.
LEMMA YearsGrow ==
  ASSUME NEW s \in CalendarDays, NEW t \in CalendarDays, s <= t
  PROVE  YearOf(s) <= YearOf(t)
<1> DEFINE x == YearOf(s)
<1> DEFINE y == YearOf(t)
<1>1. s \in Int /\ t \in Int /\ x \in Int /\ y \in Int /\ DayFromYear(x) <= s
      /\ t < DayFromYear(y + 1)
  BY YearIs DEF CalendarDays
<1>2. DayFromYear(x) \in Int /\ DayFromYear(y + 1) \in Int
  BY <1>1, YearsOfAverageLength
<1> HIDE DEF x, y
<1>3. ~(y < x)
  BY <1>1, <1>2, YearsInOrder
<1> QED
  BY <1>1, <1>3 DEF x, y

-----------------------------------------------------------------------------
(* Months *)

LEMMA MonthTable ==
  ASSUME NEW y \in Int
  PROVE  /\ LeapDay(y) \in {0, 1}
         /\ DaysBefore(y, 1) = 0 /\ DaysBefore(y, 2) = 31
         /\ DaysBefore(y, 3) = 59 + LeapDay(y) /\ DaysBefore(y, 4) = 90 + LeapDay(y)
         /\ DaysBefore(y, 5) = 120 + LeapDay(y) /\ DaysBefore(y, 6) = 151 + LeapDay(y)
         /\ DaysBefore(y, 7) = 181 + LeapDay(y) /\ DaysBefore(y, 8) = 212 + LeapDay(y)
         /\ DaysBefore(y, 9) = 243 + LeapDay(y) /\ DaysBefore(y, 10) = 273 + LeapDay(y)
         /\ DaysBefore(y, 11) = 304 + LeapDay(y) /\ DaysBefore(y, 12) = 334 + LeapDay(y)
         /\ DaysBefore(y, 13) = 365 + LeapDay(y)
<1>1. LeapDay(y) \in {0, 1}
  BY YearLength
<1> QED
  BY <1>1 DEF DaysBefore

Months == 1..12

LEMMA MonthCases ==
  ASSUME NEW m \in Months
  PROVE  /\ m \in Int
         /\ \/ m = 1 \/ m = 2 \/ m = 3 \/ m = 4 \/ m = 5 \/ m = 6 \/ m = 7 \/ m = 8
            \/ m = 9 \/ m = 10 \/ m = 11 \/ m = 12
BY DEF Months

LEMMA MonthLength ==
  ASSUME NEW y \in Int, NEW m \in Months
  PROVE  /\ DaysBefore(y, m) \in Nat
         /\ DaysBefore(y, m + 1) = DaysBefore(y, m) + DaysIn(y, m)
         /\ DaysIn(y, m) \in Nat /\ 28 <= DaysIn(y, m) /\ DaysIn(y, m) <= 31
         /\ DaysBefore(y, m + 1) <= 365 + LeapDay(y)
<1>1. LeapDay(y) = (IF IsLeapYear(y) THEN 1 ELSE 0)
  BY LeapDayRule
<1>2. /\ DaysIn(y, 1) = 31 /\ DaysIn(y, 2) = 28 + LeapDay(y) /\ DaysIn(y, 3) = 31
      /\ DaysIn(y, 4) = 30 /\ DaysIn(y, 5) = 31 /\ DaysIn(y, 6) = 30 /\ DaysIn(y, 7) = 31
      /\ DaysIn(y, 8) = 31 /\ DaysIn(y, 9) = 30 /\ DaysIn(y, 10) = 31 /\ DaysIn(y, 11) = 30
      /\ DaysIn(y, 12) = 31
  BY <1>1 DEF DaysIn
<1> QED
  BY <1>2, MonthCases, MonthTable

LEMMA MonthsInOrder ==
  ASSUME NEW y \in Int, NEW m \in Months, NEW n \in Months, m < n
  PROVE  DaysBefore(y, m + 1) <= DaysBefore(y, n)
<1>1. /\ m \in Int /\ n \in Int
      /\ \/ m = 1 \/ m = 2 \/ m = 3 \/ m = 4 \/ m = 5 \/ m = 6 \/ m = 7 \/ m = 8
         \/ m = 9 \/ m = 10 \/ m = 11 \/ m = 12
      /\ \/ n = 1 \/ n = 2 \/ n = 3 \/ n = 4 \/ n = 5 \/ n = 6 \/ n = 7 \/ n = 8
         \/ n = 9 \/ n = 10 \/ n = 11 \/ n = 12
  BY MonthCases
<1> QED
  BY <1>1, MonthTable

LEMMA DayInYearIs ==
  ASSUME NEW t \in CalendarDays
  PROVE  /\ YearOf(t) \in Int /\ DayInYear(t) \in 0..(364 + LeapDay(YearOf(t)))
         /\ t = DayFromYear(YearOf(t)) + DayInYear(t)
<1> DEFINE y == YearOf(t)
<1>1. t \in Int /\ y \in Int /\ DayFromYear(y) <= t /\ t < DayFromYear(y + 1)
  BY YearIs DEF CalendarDays
<1>2. DayFromYear(y) \in Int /\ LeapDay(y) \in {0, 1}
      /\ DayFromYear(y + 1) = DayFromYear(y) + 365 + LeapDay(y)
  BY <1>1, YearsOfAverageLength, YearLength
<1>3. DayInYear(t) = t - DayFromYear(y)
  BY DEF DayInYear
<1> HIDE DEF y
<1>4. DayInYear(t) \in 0..(364 + LeapDay(y)) /\ t = DayFromYear(y) + DayInYear(t)
  BY <1>1, <1>2, <1>3
<1> QED
  BY <1>1, <1>4 DEF y

LEMMA MonthIs ==
  ASSUME NEW t \in CalendarDays
  PROVE  LET y == YearOf(t)  n == DayInYear(t)  m == MonthOf(t) IN
         /\ m \in Months /\ DaysBefore(y, m) <= n /\ n < DaysBefore(y, m + 1)
         /\ \A k \in Months : DaysBefore(y, k) <= n /\ n < DaysBefore(y, k + 1) => m = k
<1> DEFINE y == YearOf(t)
<1> DEFINE n == DayInYear(t)
<1> DEFINE Fit(m) == DaysBefore(y, m) <= n /\ n < DaysBefore(y, m + 1)
<1>1. y \in Int /\ n \in 0..(364 + LeapDay(y))
  BY DayInYearIs
<1>2. MonthOf(t) = CHOOSE m \in Months : Fit(m)
  BY DEF MonthOf, Months
<1> HIDE DEF y, n
<1>3. \E m \in Months : Fit(m)
  <2>1. /\ LeapDay(y) \in {0, 1}
        /\ DaysBefore(y, 1) = 0 /\ DaysBefore(y, 2) = 31
        /\ DaysBefore(y, 3) = 59 + LeapDay(y) /\ DaysBefore(y, 4) = 90 + LeapDay(y)
        /\ DaysBefore(y, 5) = 120 + LeapDay(y) /\ DaysBefore(y, 6) = 151 + LeapDay(y)
        /\ DaysBefore(y, 7) = 181 + LeapDay(y) /\ DaysBefore(y, 8) = 212 + LeapDay(y)
        /\ DaysBefore(y, 9) = 243 + LeapDay(y) /\ DaysBefore(y, 10) = 273 + LeapDay(y)
        /\ DaysBefore(y, 11) = 304 + LeapDay(y) /\ DaysBefore(y, 12) = 334 + LeapDay(y)
        /\ DaysBefore(y, 13) = 365 + LeapDay(y)
    BY <1>1, MonthTable
  <2>2. /\ DaysBefore(y, 1 + 1) = DaysBefore(y, 2) /\ DaysBefore(y, 2 + 1) = DaysBefore(y, 3)
        /\ DaysBefore(y, 3 + 1) = DaysBefore(y, 4) /\ DaysBefore(y, 4 + 1) = DaysBefore(y, 5)
        /\ DaysBefore(y, 5 + 1) = DaysBefore(y, 6) /\ DaysBefore(y, 6 + 1) = DaysBefore(y, 7)
        /\ DaysBefore(y, 7 + 1) = DaysBefore(y, 8) /\ DaysBefore(y, 8 + 1) = DaysBefore(y, 9)
        /\ DaysBefore(y, 9 + 1) = DaysBefore(y, 10) /\ DaysBefore(y, 10 + 1) = DaysBefore(y, 11)
        /\ DaysBefore(y, 11 + 1) = DaysBefore(y, 12) /\ DaysBefore(y, 12 + 1) = DaysBefore(y, 13)
    OBVIOUS
  <2>3. n \in Int /\ 0 <= n /\ n < 365 + LeapDay(y)
    BY <1>1, <2>1
  <2>4. CASE n < DaysBefore(y, 7)
    <3>1. Fit(1) \/ Fit(2) \/ Fit(3) \/ Fit(4) \/ Fit(5) \/ Fit(6)
      BY <2>1, <2>2, <2>3, <2>4
    <3> QED
      BY <3>1 DEF Months
  <2>5. CASE n >= DaysBefore(y, 7)
    <3>1. Fit(7) \/ Fit(8) \/ Fit(9) \/ Fit(10) \/ Fit(11) \/ Fit(12)
      BY <2>1, <2>2, <2>3, <2>5
    <3> QED
      BY <3>1 DEF Months
  <2>6. n < DaysBefore(y, 7) \/ n >= DaysBefore(y, 7)
    BY <2>1, <2>3
  <2> QED
    BY <2>4, <2>5, <2>6
<1>4. MonthOf(t) \in Months /\ Fit(MonthOf(t))
  BY <1>2, <1>3
<1>5. \A k \in Months : Fit(k) => MonthOf(t) = k
  <2> SUFFICES ASSUME NEW k \in Months, Fit(k) PROVE MonthOf(t) = k
    OBVIOUS
  <2>1. PICK m \in Months : m = MonthOf(t) /\ Fit(m)
    BY <1>4
  <2>2. /\ m < k => DaysBefore(y, m + 1) <= DaysBefore(y, k)
        /\ k < m => DaysBefore(y, k + 1) <= DaysBefore(y, m)
    BY <1>1, MonthsInOrder
  <2>3. /\ DaysBefore(y, m) \in Nat /\ DaysBefore(y, m + 1) \in Nat
        /\ DaysBefore(y, k) \in Nat /\ DaysBefore(y, k + 1) \in Nat
    BY <1>1, MonthLength
  <2>4. ~(m < k) /\ ~(k < m) /\ m \in Int /\ k \in Int
    BY <1>1, <2>1, <2>2, <2>3, MonthCases
  <2> QED
    BY <2>1, <2>4
<1> QED
  BY <1>4, <1>5 DEF y, n

-----------------------------------------------------------------------------
(* Dates *)

LEMMA DateIs ==
  ASSUME NEW t \in CalendarDays
  PROVE  /\ YearOf(t) \in Int /\ YearOf(t) >= 1900 /\ MonthOf(t) \in Months
         /\ DateOf(t) \in Nat /\ 1 <= DateOf(t) /\ DateOf(t) <= DaysIn(YearOf(t), MonthOf(t))
         /\ DateUTC(YearOf(t), MonthOf(t), DateOf(t)) = t
<1> DEFINE y == YearOf(t)
<1> DEFINE m == MonthOf(t)
<1>1. y \in Int /\ t = DayFromYear(y) + DayInYear(t) /\ DayInYear(t) \in Int
  <2>1. LeapDay(y) \in {0, 1}
    BY DayInYearIs, YearLength
  <2> QED
    BY <2>1, DayInYearIs
<1>2. m \in Months /\ DaysBefore(y, m) <= DayInYear(t) /\ DayInYear(t) < DaysBefore(y, m + 1)
  BY MonthIs
<1>3. /\ DaysBefore(y, m) \in Nat /\ DaysIn(y, m) \in Nat
      /\ DaysBefore(y, m + 1) = DaysBefore(y, m) + DaysIn(y, m)
  BY <1>1, <1>2, MonthLength
<1>4. DateOf(t) = DayInYear(t) - DaysBefore(y, m) + 1
  BY DEF DateOf
<1>5. y >= 1900
  <2>1. t \in Int /\ t >= DayFromYear(1900) /\ t < DayFromYear(y + 1)
    BY YearIs DEF CalendarDays
  <2>2. DayFromYear(y + 1) \in Int /\ DayFromYear(1900) \in Int
    BY <1>1, YearsOfAverageLength
  <2>3. ~(y < 1900)
    BY <1>1, <2>1, <2>2, YearsInOrder
  <2> QED
    BY <1>1, <2>3
<1>6. DateUTC(y, m, DateOf(t)) = DayFromYear(y) + DaysBefore(y, m) + DateOf(t) - 1
  BY DEF DateUTC
<1>7. DayFromYear(y) \in Int
  BY <1>1, YearsOfAverageLength
<1> HIDE DEF y, m
<1>8. /\ DateOf(t) \in Nat /\ 1 <= DateOf(t) /\ DateOf(t) <= DaysIn(y, m)
      /\ DateUTC(y, m, DateOf(t)) = t
  BY <1>1, <1>2, <1>3, <1>4, <1>6, <1>7
<1> QED
  BY <1>1, <1>2, <1>5, <1>8 DEF y, m

LEMMA UTCIsADay ==
  ASSUME NEW y \in Int, y >= 1900, NEW m \in Months, NEW d \in Nat, d >= 1
  PROVE  DateUTC(y, m, d) \in CalendarDays
<1>1. DayFromYear(y) \in Int /\ DayFromYear(1900) = -25567 /\ DaysBefore(y, m) \in Nat
  BY YearsOfAverageLength, YearsBegin, MonthLength
<1>2. DayFromYear(1900) <= DayFromYear(y)
  <2>1. CASE y = 1900
    BY <1>1, <2>1
  <2>2. CASE y > 1900
    <3>1. DayFromYear(1900 + 1) <= DayFromYear(y)
      BY <2>2, YearsInOrder
    <3>2. DayFromYear(1900 + 1) = -25202
      BY DEF DayFromYear
    <3> QED
      BY <1>1, <3>1, <3>2
  <2> QED
    BY <2>1, <2>2
<1> QED
  BY <1>1, <1>2 DEF DateUTC, CalendarDays

\* A date of the calendar comes back from Date.UTC as it went in.
LEMMA RoundTrip ==
  ASSUME NEW y \in Int, y >= 1900, NEW m \in Months,
         NEW d \in Nat, 1 <= d, d <= DaysIn(y, m),
         NEW t, t = DateUTC(y, m, d)
  PROVE  t \in CalendarDays /\ YearOf(t) = y /\ MonthOf(t) = m /\ DateOf(t) = d
<1>1. /\ DaysBefore(y, m) \in Nat /\ DaysIn(y, m) \in Nat
      /\ DaysBefore(y, m + 1) = DaysBefore(y, m) + DaysIn(y, m)
      /\ DaysBefore(y, m + 1) <= 365 + LeapDay(y)
  BY MonthLength
<1>2. t \in CalendarDays /\ t \in Int
  BY UTCIsADay DEF CalendarDays
<1>3. DayFromYear(y) \in Int /\ LeapDay(y) \in {0, 1}
      /\ DayFromYear(y + 1) = DayFromYear(y) + 365 + LeapDay(y)
  BY YearsOfAverageLength, YearLength
<1>4. t = DayFromYear(y) + DaysBefore(y, m) + d - 1
  BY DEF DateUTC
<1>5. DayFromYear(y) <= t /\ t < DayFromYear(y + 1)
  BY <1>1, <1>2, <1>3, <1>4
<1>6. YearOf(t) = y
  BY <1>2, <1>5, YearIs
<1>7. DayInYear(t) = DaysBefore(y, m) + d - 1
  BY <1>1, <1>3, <1>4, <1>6 DEF DayInYear
<1>8. DaysBefore(y, m) <= DayInYear(t) /\ DayInYear(t) < DaysBefore(y, m + 1)
  BY <1>1, <1>7
<1>9. MonthOf(t) = m
  BY <1>2, <1>6, <1>8, MonthIs
<1>10. DateOf(t) = d
  BY <1>1, <1>6, <1>7, <1>9 DEF DateOf
<1> QED
  BY <1>2, <1>6, <1>9, <1>10

\* The days at which months begin are in the order of the months.
LEMMA MonthStartsInOrder ==
  ASSUME NEW x \in Int, NEW y \in Int, NEW m \in Months, NEW n \in Months,
         x < y \/ (x = y /\ m <= n)
  PROVE  /\ DayFromYear(x) \in Int /\ DayFromYear(y) \in Int
         /\ DaysBefore(x, m) \in Nat /\ DaysBefore(y, n) \in Nat
         /\ DayFromYear(x) + DaysBefore(x, m) <= DayFromYear(y) + DaysBefore(y, n)
<1>1. /\ DayFromYear(x) \in Int /\ DayFromYear(y) \in Int /\ DayFromYear(x + 1) \in Int
      /\ DaysBefore(x, m) \in Nat /\ DaysBefore(y, n) \in Nat /\ m \in Int /\ n \in Int
  <2>1. x + 1 \in Int
    OBVIOUS
  <2>2. DayFromYear(x) \in Int /\ DayFromYear(y) \in Int /\ DayFromYear(x + 1) \in Int
    BY <2>1, YearsOfAverageLength
  <2>3. DaysBefore(x, m) \in Nat /\ DaysBefore(y, n) \in Nat
    BY MonthLength
  <2> QED
    BY <2>2, <2>3, MonthCases
<1>2. /\ DaysBefore(x, m + 1) = DaysBefore(x, m) + DaysIn(x, m) /\ DaysIn(x, m) \in Nat
      /\ DaysBefore(x, m + 1) <= 365 + LeapDay(x)
  BY MonthLength
<1>3. CASE x < y
  <2>1. DayFromYear(x + 1) <= DayFromYear(y)
    BY <1>3, YearsInOrder
  <2>2. DayFromYear(x + 1) = DayFromYear(x) + 365 + LeapDay(x) /\ LeapDay(x) \in {0, 1}
    BY YearLength
  <2> QED
    BY <1>1, <1>2, <2>1, <2>2
<1>4. CASE x = y /\ m = n
  BY <1>1, <1>4
<1>5. CASE x = y /\ m < n
  <2>1. DaysBefore(x, m + 1) <= DaysBefore(x, n)
    BY <1>5, MonthsInOrder
  <2> QED
    BY <1>1, <1>2, <1>5, <2>1
<1> QED
  BY <1>1, <1>3, <1>4, <1>5

LEMMA MonthsGrow ==
  ASSUME NEW s \in CalendarDays, NEW t \in CalendarDays, s <= t, YearOf(s) = YearOf(t)
  PROVE  MonthOf(s) <= MonthOf(t)
<1>1. PICK y \in Int, m \in Months, n \in Months : y = YearOf(s) /\ m = MonthOf(s) /\ n = MonthOf(t)
  BY DateIs
<1>2. /\ DayInYear(s) \in Int /\ DayInYear(t) \in Int /\ DayInYear(s) <= DayInYear(t)
  <2>1. /\ DayFromYear(y) \in Int /\ s \in Int /\ t \in Int
        /\ DayInYear(s) = s - DayFromYear(y) /\ DayInYear(t) = t - DayFromYear(y)
    BY <1>1, YearsOfAverageLength DEF CalendarDays, DayInYear
  <2> QED
    BY <2>1
<1>3. DaysBefore(y, m) <= DayInYear(s) /\ DayInYear(t) < DaysBefore(y, n + 1)
  BY <1>1, MonthIs
<1>4. DaysBefore(y, m) \in Nat /\ DaysBefore(y, n + 1) \in Nat /\ m \in Int /\ n \in Int
  <2>1. DaysBefore(y, n) \in Nat /\ DaysIn(y, n) \in Nat
        /\ DaysBefore(y, n + 1) = DaysBefore(y, n) + DaysIn(y, n)
    BY MonthLength
  <2> QED
    BY <2>1, MonthLength, MonthCases
<1>5. ~(n < m)
  BY <1>2, <1>3, <1>4, MonthsInOrder
<1> QED
  BY <1>1, <1>4, <1>5

\* The "today" of three readings is not later than the day of the last one, and
\* is that day when no month ended in between.
LEMMA TodayIsNotAhead ==
  ASSUME NEW r \in CalendarDays, NEW s \in CalendarDays, NEW t \in CalendarDays, r <= s, s <= t
  PROVE  /\ DateUTC(YearOf(r), MonthOf(s), DateOf(t)) \in Int
         /\ DateUTC(YearOf(r), MonthOf(s), DateOf(t)) <= t
         /\ MonthOn(r) = MonthOn(t) => DateUTC(YearOf(r), MonthOf(s), DateOf(t)) = t
<1>1. PICK x \in Int, y \in Int, m \in Months, n \in Months, d \in Nat :
        x = YearOf(r) /\ y = YearOf(t) /\ m = MonthOf(s) /\ n = MonthOf(t) /\ d = DateOf(t)
  BY DateIs
<1>2. r \in Int /\ s \in Int /\ t \in Int /\ r <= t
  BY DEF CalendarDays
<1>3. x <= YearOf(s) /\ YearOf(s) <= y /\ YearOf(s) \in Int /\ x <= y
  <2>1. YearOf(s) \in Int
    BY DateIs
  <2> QED
    BY <1>1, <2>1, YearsGrow
<1>4. x < y \/ (x = y /\ m <= n)
  <2>1. CASE x = y
    <3>1. YearOf(s) = YearOf(t)
      BY <1>1, <1>3, <2>1
    <3> QED
      BY <1>1, <2>1, <3>1, MonthsGrow
  <2> QED
    BY <1>3, <2>1
<1>5. DayFromYear(x) \in Int /\ DayFromYear(y) \in Int
      /\ DaysBefore(x, m) \in Nat /\ DaysBefore(y, n) \in Nat
      /\ DayFromYear(x) + DaysBefore(x, m) <= DayFromYear(y) + DaysBefore(y, n)
  BY <1>4, MonthStartsInOrder
<1>6. DateUTC(x, m, d) = DayFromYear(x) + DaysBefore(x, m) + d - 1
      /\ t = DayFromYear(y) + DaysBefore(y, n) + d - 1
  BY <1>1, DateIs DEF DateUTC
<1>7. DateUTC(x, m, d) \in Int /\ DateUTC(x, m, d) <= t
  BY <1>2, <1>5, <1>6
<1>8. ASSUME MonthOn(r) = MonthOn(t) PROVE DateUTC(x, m, d) = t
  <2>1. x = y /\ MonthOf(r) = n
    BY <1>1, <1>8 DEF MonthOn
  <2>2. YearOf(r) = YearOf(s) /\ YearOf(s) = YearOf(t)
    BY <1>1, <1>3, <2>1
  <2>3. n <= m /\ m <= n
    BY <1>1, <2>1, <2>2, MonthsGrow
  <2>4. m = n
    BY <2>3, MonthCases
  <2> QED
    BY <1>6, <2>1, <2>4
<1> QED
  BY <1>1, <1>7, <1>8

LEMMA DayOfClock ==
  ASSUME NEW t \in Nat
  PROVE  t \in CalendarDays
BY YearsBegin DEF CalendarDays
=============================================================================
