----------------------- MODULE ReservationDateProofs -----------------------
(***************************************************************************)
(* The date of a reservation, for every date a request can carry and every *)
(* day a clock can show: from the calendar (module CalendarProofs) and the *)
(* three readings of the clock, of which the "today" they make up is never *)
(* later than the day of the last one.                                     *)
(***************************************************************************)
EXTENDS ReservationDate, CalendarProofs

-----------------------------------------------------------------------------
(* Dates *)

\* createReservationDate accepts the dates of the calendar, and no other.
LEMMA CalendarDates ==
  ASSUME NEW d \in [year : Nat, month : Nat, day : Nat]
  PROVE  IsReservationDate(d) <=> InCalendar(d)
<1>0. PICK y \in Int, m \in Int, n \in Nat : y = d.year /\ m = d.month /\ n = d.day
  OBVIOUS
<1>1. PICK t : y = d.year /\ m = d.month /\ n = d.day /\ t = DateUTC(y, m, n)
  BY <1>0
<1>2. /\ IsReservationDate(d) <=> /\ y \in 1900..2100 /\ m \in Months /\ n \in 1..31
                                 /\ YearOf(t) = y /\ MonthOf(t) = m /\ DateOf(t) = n
      /\ InCalendar(d) <=> y \in 1900..2100 /\ m \in Months /\ n \in 1..DaysIn(y, m)
  BY <1>1 DEF IsReservationDate, InCalendar, Months
<1>3. ASSUME IsReservationDate(d) PROVE InCalendar(d)
  <2>1. y >= 1900 /\ m \in Months /\ n >= 1
    BY <1>1, <1>2, <1>3
  <2>2. t \in CalendarDays
    BY <1>1, <2>1, UTCIsADay
  <2>3. DateOf(t) <= DaysIn(YearOf(t), MonthOf(t))
    BY <2>2, DateIs
  <2>4. n <= DaysIn(y, m) /\ DaysIn(y, m) \in Nat
    BY <1>1, <1>2, <1>3, <2>1, <2>3, MonthLength
  <2> QED
    BY <1>1, <1>2, <1>3, <2>1, <2>4
<1>4. ASSUME InCalendar(d) PROVE IsReservationDate(d)
  <2>1. y >= 1900 /\ m \in Months
    BY <1>1, <1>2, <1>4
  <2>2. DaysIn(y, m) \in Nat /\ DaysIn(y, m) <= 31
    BY <1>1, <2>1, MonthLength
  <2>3. n >= 1 /\ n <= DaysIn(y, m) /\ n \in 1..31
    <3>1. PICK k \in Nat : k = DaysIn(y, m) /\ k <= 31
      BY <2>2
    <3>2. n \in 1..k
      BY <1>2, <1>4, <3>1
    <3> QED
      BY <1>1, <3>1, <3>2
  <2>4. YearOf(t) = y /\ MonthOf(t) = m /\ DateOf(t) = n
    BY <1>1, <2>1, <2>3, RoundTrip
  <2> QED
    BY <1>2, <1>4, <2>1, <2>3, <2>4
<1> QED
  BY <1>3, <1>4

LEMMA LaterDate ==
  ASSUME NEW s \in CalendarDays, NEW t \in CalendarDays, s <= t
  PROVE  s = t \/ Earlier(DateOn(s), DateOn(t))
<1>1. /\ YearOf(s) \in Int /\ YearOf(t) \in Int /\ YearOf(s) <= YearOf(t)
      /\ MonthOf(s) \in Int /\ MonthOf(t) \in Int /\ DateOf(s) \in Int /\ DateOf(t) \in Int
  BY DateIs, YearsGrow, MonthCases
<1>2. CASE YearOf(s) = YearOf(t) /\ MonthOf(s) = MonthOf(t)
  <2>1. /\ DateOf(s) = s - DayFromYear(YearOf(s)) - DaysBefore(YearOf(s), MonthOf(s)) + 1
        /\ DateOf(t) = t - DayFromYear(YearOf(s)) - DaysBefore(YearOf(s), MonthOf(s)) + 1
    BY <1>2 DEF DateOf, DayInYear
  <2>2. PICK k \in Int, l \in Nat : /\ k = DayFromYear(YearOf(s))
                                    /\ l = DaysBefore(YearOf(s), MonthOf(s))
    BY DateIs, YearsOfAverageLength, MonthLength
  <2>3. s = t \/ DateOf(s) < DateOf(t)
    BY <2>1, <2>2 DEF CalendarDays
  <2> QED
    BY <1>2, <2>3 DEF Earlier, DateOn
<1>3. CASE YearOf(s) = YearOf(t) /\ MonthOf(s) # MonthOf(t)
  <2>1. MonthOf(s) < MonthOf(t)
    BY <1>1, <1>3, MonthsGrow
  <2> QED
    BY <1>3, <2>1 DEF Earlier, DateOn
<1>4. CASE YearOf(s) # YearOf(t)
  BY <1>1, <1>4 DEF Earlier, DateOn
<1> QED
  BY <1>2, <1>3, <1>4

\* Dates are in the order of their days.
LEMMA DatesInOrder ==
  ASSUME NEW s \in CalendarDays, NEW t \in CalendarDays
  PROVE  Earlier(DateOn(s), DateOn(t)) <=> s < t
<1>1. s \in Int /\ t \in Int
  BY DEF CalendarDays
<1>2. /\ DateOn(s).year \in Int /\ DateOn(s).month \in Int /\ DateOn(s).day \in Int
      /\ DateOn(t).year \in Int /\ DateOn(t).month \in Int /\ DateOn(t).day \in Int
  BY DateIs, MonthCases DEF DateOn
<1>3. ~(Earlier(DateOn(s), DateOn(t)) /\ Earlier(DateOn(t), DateOn(s)))
  BY <1>2 DEF Earlier
<1>4. ~Earlier(DateOn(s), DateOn(s))
  BY <1>2 DEF Earlier
<1> QED
  BY <1>1, <1>3, <1>4, LaterDate

\* A date of the calendar is the date of the day Date.UTC makes of it.
LEMMA DayOfDate ==
  ASSUME NEW d \in [year : Nat, month : Nat, day : Nat], InCalendar(d)
  PROVE  DateUTC(d.year, d.month, d.day) \in CalendarDays /\ DateOn(DateUTC(d.year, d.month, d.day)) = d
<1>0. PICK y \in Int, m \in Months, n \in Nat : y = d.year /\ m = d.month /\ n = d.day
  BY DEF InCalendar, Months
<1>1. PICK t : y = d.year /\ m = d.month /\ n = d.day /\ t = DateUTC(y, m, n)
  BY <1>0
<1>2. y >= 1900 /\ 1 <= n /\ n <= DaysIn(y, m)
  <2>1. DaysIn(y, m) \in Nat
    BY MonthLength
  <2>2. y \in 1900..2100 /\ n \in 1..DaysIn(y, m)
    BY <1>1 DEF InCalendar
  <2> QED
    BY <1>1, <2>1, <2>2
<1>3. t \in CalendarDays /\ YearOf(t) = y /\ MonthOf(t) = m /\ DateOf(t) = n
  BY <1>1, <1>2, RoundTrip
<1>4. DateOn(t) = d
  BY <1>1, <1>3 DEF DateOn
<1> QED
  BY <1>1, <1>3, <1>4

-----------------------------------------------------------------------------
(* The request *)

Reading == {"read1", "read2", "read3", "compare"}
Compared == {"in_past", "admitted"}

\* Where the request is, and what the parts of "today" are made of.
DateInv ==
  /\ clock \in Nat /\ firstRead \in Nat /\ lastRead \in Nat
  /\ firstRead <= lastRead /\ lastRead <= clock
  /\ at \in Reading \cup {"idle", "done"}
  /\ answer \in Compared \cup {"none", "invalid", "pending"}
  /\ date \in [year : Nat, month : Nat, day : Nat]
  /\ today \in [year : Int, month : Int, day : Int]
  /\ at \in Reading <=> answer = "pending"
  /\ at = "idle" <=> answer = "none"
  /\ answer = "invalid" => ~InCalendar(date)
  /\ answer \in Compared \cup {"pending"} => InCalendar(date)
  /\ at \in {"read2", "read3"} => today.year = YearOf(firstRead)
  /\ at = "read3" => today.month = MonthOf(lastRead)
  /\ at = "compare" \/ answer \in Compared =>
       /\ today.year = YearOf(firstRead) /\ today.day = DateOf(lastRead)
       /\ \E r \in firstRead..lastRead : today.month = MonthOf(r)
  /\ answer = "in_past" => RequestedUTC < TodayUTC
  /\ answer = "admitted" => ~(RequestedUTC < TodayUTC)

LEMMA DateInvInit == DateInit => DateInv
BY DateAssumption DEF DateInit, DateInv, Reading, Compared, NoDate

LEMMA ReceiveStep ==
  ASSUME DateInv, Receive
  PROVE  DateInv'
<1>1. PICK d \in InputDates :
        /\ date' = d
        /\ \/ IsReservationDate(d) /\ at' = "read1" /\ answer' = "pending"
           \/ ~IsReservationDate(d) /\ at' = "done" /\ answer' = "invalid"
  BY DEF Receive
<1>2. d \in [year : Nat, month : Nat, day : Nat]
  BY DateAssumption
<1>3. IsReservationDate(d) <=> InCalendar(d)
  BY <1>2, CalendarDates
<1>4. InCalendar(date)' <=> InCalendar(d)
  BY <1>1 DEF InCalendar
<1>5. today' = NoDate /\ firstRead' = clock /\ lastRead' = clock /\ clock' = clock /\ clock \in Nat
  BY DEF Receive, DateInv
<1> QED
  BY <1>1, <1>2, <1>3, <1>4, <1>5 DEF DateInv, Reading, Compared, NoDate

LEMMA ReadStep ==
  ASSUME DateInv, ReadParts
  PROVE  DateInv'
<1>1. /\ clock \in CalendarDays /\ firstRead \in CalendarDays /\ lastRead \in CalendarDays
      /\ clock \in Nat /\ firstRead \in Nat /\ lastRead \in Nat
      /\ firstRead <= lastRead /\ lastRead <= clock
      /\ at \in Reading /\ answer = "pending" /\ InCalendar(date)
      /\ today \in [year : Int, month : Int, day : Int]
  BY DayOfClock DEF DateInv, ReadParts, Read, Reading, Compared
<1>2. YearOf(clock) \in Int /\ MonthOf(clock) \in Int /\ DateOf(clock) \in Int
  BY <1>1, DateIs, MonthCases
<1>3. /\ clock' = clock /\ date' = date /\ answer' = answer /\ lastRead' = clock
      /\ InCalendar(date)' /\ date' \in [year : Nat, month : Nat, day : Nat]
  BY <1>1 DEF ReadParts, Read, InCalendar, DateInv
<1>4. CASE Read(1, "read1", "read2")
  <2>1. today' = [today EXCEPT !["year"] = YearOf(clock)] /\ firstRead' = clock /\ at' = "read2"
    BY <1>4 DEF Read, ReadingOrder, Now
  <2>2. today' \in [year : Int, month : Int, day : Int] /\ today'.year = YearOf(clock)
    BY <1>1, <1>2, <2>1
  <2> QED
    BY <1>1, <1>3, <2>1, <2>2 DEF DateInv, Reading, Compared
<1>5. CASE Read(2, "read2", "read3")
  <2>1. /\ today' = [today EXCEPT !["month"] = MonthOf(clock)]
        /\ firstRead' = firstRead /\ at = "read2" /\ at' = "read3"
    <3>1. ReadingOrder[2] = "month" /\ Now["month"] = MonthOf(clock)
      BY DEF ReadingOrder, Now
    <3> QED
      BY <1>5, <3>1 DEF Read
  <2>2. /\ today' \in [year : Int, month : Int, day : Int]
        /\ today'.month = MonthOf(clock) /\ today'.year = today.year
    BY <1>1, <1>2, <2>1
  <2>3. today.year = YearOf(firstRead) /\ firstRead <= clock
    BY <1>1, <2>1 DEF DateInv
  <2> QED
    BY <1>1, <1>3, <2>1, <2>2, <2>3 DEF DateInv, Reading, Compared
<1>6. CASE Read(3, "read3", "compare")
  <2>1. /\ today' = [today EXCEPT !["day"] = DateOf(clock)]
        /\ firstRead' = firstRead /\ at = "read3" /\ at' = "compare"
    <3>1. ReadingOrder[3] = "day" /\ Now["day"] = DateOf(clock)
      BY DEF ReadingOrder, Now
    <3> QED
      BY <1>6, <3>1 DEF Read
  <2>2. /\ today' \in [year : Int, month : Int, day : Int]
        /\ today'.day = DateOf(clock) /\ today'.month = today.month /\ today'.year = today.year
    BY <1>1, <1>2, <2>1
  <2>3. today.year = YearOf(firstRead) /\ today.month = MonthOf(lastRead)
    BY <2>1 DEF DateInv
  <2>4. lastRead \in firstRead..clock /\ firstRead <= clock
    BY <1>1
  <2> QED
    BY <1>1, <1>3, <2>1, <2>2, <2>3, <2>4 DEF DateInv, Reading, Compared
<1> QED
  BY <1>4, <1>5, <1>6 DEF ReadParts

LEMMA CompareStep ==
  ASSUME DateInv, Compare
  PROVE  DateInv'
<1>1. /\ clock' = clock /\ date' = date /\ today' = today
      /\ firstRead' = firstRead /\ lastRead' = lastRead /\ at = "compare" /\ at' = "done"
      /\ answer' = (IF RequestedUTC < TodayUTC THEN "in_past" ELSE "admitted")
  BY DEF Compare
<1>2. /\ RequestedUTC' = RequestedUTC /\ TodayUTC' = TodayUTC
      /\ InCalendar(date)' <=> InCalendar(date)
  BY <1>1 DEF RequestedUTC, TodayUTC, InCalendar
<1>3. answer = "pending" /\ InCalendar(date)
  BY <1>1 DEF DateInv, Reading, Compared
<1> QED
  BY <1>1, <1>2, <1>3 DEF DateInv, Reading, Compared

LEMMA AnswerStep ==
  ASSUME DateInv, Answer
  PROVE  DateInv'
BY DEF DateInv, Answer, Reading, Compared, NoDate

LEMMA MidnightStep ==
  ASSUME DateInv, Midnight
  PROVE  DateInv'
<1>1. /\ date' = date /\ at' = at /\ today' = today /\ firstRead' = firstRead
      /\ lastRead' = lastRead /\ answer' = answer /\ clock' = clock + 1
  BY DEF Midnight
<1>2. /\ RequestedUTC' = RequestedUTC /\ TodayUTC' = TodayUTC
      /\ InCalendar(date)' <=> InCalendar(date)
  BY <1>1 DEF RequestedUTC, TodayUTC, InCalendar
<1>3. clock' \in Nat /\ lastRead' <= clock'
  BY <1>1 DEF DateInv
<1> QED
  BY <1>1, <1>2, <1>3 DEF DateInv

LEMMA DateStutter ==
  ASSUME DateInv, UNCHANGED dateVars
  PROVE  DateInv'
<1>1. /\ date' = date /\ at' = at /\ today' = today /\ firstRead' = firstRead
      /\ lastRead' = lastRead /\ answer' = answer /\ clock' = clock
  BY DEF dateVars
<1>2. /\ RequestedUTC' = RequestedUTC /\ TodayUTC' = TodayUTC
      /\ InCalendar(date)' <=> InCalendar(date)
  BY <1>1 DEF RequestedUTC, TodayUTC, InCalendar
<1> QED
  BY <1>1, <1>2 DEF DateInv

\* What the three readings of isReservationDateInPast have put together holds
\* at every step, whenever the midnights fall.
THEOREM DateInvariant == DateSpec => []DateInv
<1>1. DateInv /\ [DateNext]_dateVars => DateInv'
  BY ReceiveStep, ReadStep, CompareStep, AnswerStep, MidnightStep, DateStutter DEF DateNext
<1> QED
  BY <1>1, DateInvInit, PTL DEF DateSpec

-----------------------------------------------------------------------------
(* What the answers mean *)

\* createReservationDate answers "invalid" to exactly the dates that the
\* calendar does not have.
THEOREM ValidDatesAreTheCalendars == DateSpec => []ValidIffCalendar
<1>1. DateInv => ValidIffCalendar
  BY DEF DateInv, ValidIffCalendar, Compared
<1> QED
  BY <1>1, DateInvariant, PTL

\* What Compare has compared.
LEMMA ComparedDays ==
  ASSUME DateInv, answer \in Compared
  PROVE  /\ firstRead \in CalendarDays /\ lastRead \in CalendarDays /\ firstRead <= lastRead
         /\ RequestedUTC \in CalendarDays /\ DateOn(RequestedUTC) = date
         /\ TodayUTC \in Int /\ TodayUTC <= lastRead
         /\ MonthOn(firstRead) = MonthOn(lastRead) => TodayUTC = lastRead
<1>1. /\ firstRead \in Nat /\ lastRead \in Nat /\ firstRead <= lastRead
      /\ InCalendar(date) /\ date \in [year : Nat, month : Nat, day : Nat]
      /\ today.year = YearOf(firstRead) /\ today.day = DateOf(lastRead)
      /\ \E r \in firstRead..lastRead : today.month = MonthOf(r)
  BY DEF DateInv
<1>2. PICK r \in firstRead..lastRead : today.month = MonthOf(r)
  BY <1>1
<1>3. r \in Nat /\ firstRead <= r /\ r <= lastRead
  BY <1>1, <1>2
<1>4. firstRead \in CalendarDays /\ lastRead \in CalendarDays /\ r \in CalendarDays
  BY <1>1, <1>3, DayOfClock
<1>5. TodayUTC = DateUTC(YearOf(firstRead), MonthOf(r), DateOf(lastRead))
  BY <1>1, <1>2 DEF TodayUTC
<1>6. /\ TodayUTC \in Int /\ TodayUTC <= lastRead
      /\ MonthOn(firstRead) = MonthOn(lastRead) => TodayUTC = lastRead
  BY <1>3, <1>4, <1>5, TodayIsNotAhead
<1>7. RequestedUTC \in CalendarDays /\ DateOn(RequestedUTC) = date
  BY <1>1, DayOfDate DEF RequestedUTC
<1> QED
  BY <1>1, <1>4, <1>6, <1>7

\* isReservationDateInPast never calls a date past that is not: the midnights
\* between its readings can only make "today" too early.
THEOREM NoDateRefusedWrongly == DateSpec => []NeverRefusedWrongly
<1>1. DateInv => NeverRefusedWrongly
  <2> SUFFICES ASSUME DateInv, answer = "in_past" PROVE Earlier(date, DateOn(lastRead))
    BY DEF NeverRefusedWrongly
  <2>1. /\ lastRead \in CalendarDays /\ RequestedUTC \in CalendarDays /\ DateOn(RequestedUTC) = date
        /\ TodayUTC \in Int /\ TodayUTC <= lastRead
    BY ComparedDays DEF Compared
  <2>2. RequestedUTC < lastRead
    BY <2>1 DEF DateInv, CalendarDays
  <2> QED
    BY <2>1, <2>2, DatesInOrder
<1> QED
  BY <1>1, DateInvariant, PTL

\* A date that was past at the first reading gets through only when a month
\* ended before the last one.
THEOREM PastAdmittedOnlyAtMonthEnd == DateSpec => []PastAdmittedOnlyTorn
<1>1. DateInv => PastAdmittedOnlyTorn
  <2> SUFFICES ASSUME DateInv, answer = "admitted", Earlier(date, DateOn(firstRead)),
                      MonthOn(firstRead) = MonthOn(lastRead)
               PROVE  FALSE
    BY DEF PastAdmittedOnlyTorn
  <2>1. /\ firstRead \in CalendarDays /\ firstRead <= lastRead /\ lastRead \in CalendarDays
        /\ RequestedUTC \in CalendarDays /\ DateOn(RequestedUTC) = date /\ TodayUTC = lastRead
    BY ComparedDays DEF Compared
  <2>2. RequestedUTC < firstRead
    BY <2>1, DatesInOrder
  <2>3. ~(RequestedUTC < TodayUTC)
    BY DEF DateInv
  <2> QED
    BY <2>1, <2>2, <2>3 DEF CalendarDays
<1> QED
  BY <1>1, DateInvariant, PTL
=============================================================================
