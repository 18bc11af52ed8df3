-------------------------- MODULE ReservationDate --------------------------
(***************************************************************************)
(* The date of a reservation: createReservationDate decides which dates    *)
(* there are, and isReservationDateInPast compares one with "today", which *)
(* it puts together from three readings of the clock (three new Date()).   *)
(* The clock is the number of the UTC day since 1970-01-01, and it may go  *)
(* on between two readings.                                                *)
(***************************************************************************)
EXTENDS Calendar

CONSTANTS InputDates,  \* the dates requests carry, calendar dates or not
          Clocks       \* the days the clock may show; bounds the run

\* The form YYYY-MM-DD has been tested; the clock shows a day of the Unix era.
ASSUME DateAssumption ==
  /\ InputDates \subseteq [year : Nat, month : Nat, day : Nat]
  /\ Clocks \subseteq Nat

VARIABLES clock,     \* the day now
          date,      \* the date of the request
          at,        \* the reading that is next, or what the request waits for
          today,     \* the parts of "today" read so far
          firstRead, \* the day on which the first part was read
          lastRead,  \* and the last one
          answer

dateVars == <<clock, date, at, today, firstRead, lastRead, answer>>

NoDate == [year |-> 0, month |-> 0, day |-> 0]

-----------------------------------------------------------------------------
DateInit ==
  /\ clock \in Clocks
  /\ date = NoDate
  /\ at = "idle"
  /\ today = NoDate
  /\ firstRead = clock
  /\ lastRead = clock
  /\ answer = "none"

\* Mutant: Date.UTC is trusted to refuse what is not in the calendar.
IsInRange(d) == d.year \in 1900..2100 /\ d.month \in 1..12 /\ d.day \in 1..31

\* createReservationDate, on numbers: the ranges first, then the date must
\* come back from Date.UTC as it went in.
IsReservationDate(d) ==
  /\ d.year \in 1900..2100 /\ d.month \in 1..12 /\ d.day \in 1..31
  /\ LET t == DateUTC(d.year, d.month, d.day)
     IN  YearOf(t) = d.year /\ MonthOf(t) = d.month /\ DateOf(t) = d.day

Receive ==
  /\ at = "idle"
  /\ \E d \in InputDates :
       /\ date' = d
       /\ \/ IsReservationDate(d) /\ at' = "read1" /\ answer' = "pending"
          \/ ~IsReservationDate(d) /\ at' = "done" /\ answer' = "invalid"
  /\ today' = NoDate
  /\ firstRead' = clock /\ lastRead' = clock
  /\ UNCHANGED clock

\* Mutant: the parts are read from the day to the year.
DayFirst == <<"day", "month", "year">>

\* The order in which the arguments of Date.UTC are evaluated.
ReadingOrder == <<"year", "month", "day">>

Now == [year |-> YearOf(clock), month |-> MonthOf(clock), day |-> DateOf(clock)]

Read(n, from, to) ==
  /\ at = from /\ at' = to
  /\ today' = [today EXCEPT ![ReadingOrder[n]] = Now[ReadingOrder[n]]]
  /\ firstRead' = IF n = 1 THEN clock ELSE firstRead
  /\ lastRead' = clock
  /\ UNCHANGED <<clock, date, answer>>

ReadParts == Read(1, "read1", "read2") \/ Read(2, "read2", "read3") \/ Read(3, "read3", "compare")

TodayUTC == DateUTC(today.year, today.month, today.day)

\* Mutant: the month of the request is handed over as it is written.
RequestedMonthLater == DateUTC(date.year, date.month + 1, date.day)

RequestedUTC == DateUTC(date.year, date.month, date.day)

Compare ==
  /\ at = "compare" /\ at' = "done"
  /\ answer' = IF RequestedUTC < TodayUTC THEN "in_past" ELSE "admitted"
  /\ UNCHANGED <<clock, date, today, firstRead, lastRead>>

\* The request is answered; nothing of it stays.
Answer ==
  /\ at = "done" /\ at' = "idle"
  /\ date' = NoDate /\ today' = NoDate /\ answer' = "none"
  /\ firstRead' = clock /\ lastRead' = clock
  /\ UNCHANGED clock

Midnight ==
  /\ clock + 1 \in Clocks
  /\ clock' = clock + 1
  /\ UNCHANGED <<date, at, today, firstRead, lastRead, answer>>

DateNext == Receive \/ ReadParts \/ Compare \/ Answer \/ Midnight

DateSpec == DateInit /\ [][DateNext]_dateVars

-----------------------------------------------------------------------------
(* Properties *)

InCalendar(d) ==
  d.year \in 1900..2100 /\ d.month \in 1..12 /\ d.day \in 1..DaysIn(d.year, d.month)

Earlier(c, d) ==
  \/ c.year < d.year
  \/ c.year = d.year /\ c.month < d.month
  \/ c.year = d.year /\ c.month = d.month /\ c.day < d.day

\* The date a day has.
DateOn(t) == [year |-> YearOf(t), month |-> MonthOf(t), day |-> DateOf(t)]

\* The round trip through Date.UTC refuses exactly the dates that the calendar,
\* by its leap year rule, does not have.
ValidIffCalendar == answer # "none" => (answer = "invalid" <=> ~InCalendar(date))

\* However the midnights fall between the three readings, a date is refused as
\* past only when it is: the "today" put together is never later than the day.
NeverRefusedWrongly == answer = "in_past" => Earlier(date, DateOn(lastRead))

\* A date that was past when the request was looked at is let through only when
\* a month ended between the first and the last reading.
PastAdmittedOnlyTorn ==
  answer = "admitted" /\ Earlier(date, DateOn(firstRead)) => MonthOn(firstRead) # MonthOn(lastRead)
=============================================================================
