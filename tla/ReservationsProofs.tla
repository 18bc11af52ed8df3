------------------------- MODULE ReservationsProofs -------------------------
(***************************************************************************)
(* Proofs about Reservations and Listings, for every set of slots, users,  *)
(* desks and ids and every number of days and faults.  IInv is inductive;  *)
(* it implies that nothing is ever booked twice, hence that the lists show *)
(* every desk once, and it is what the step simulation of the atomic       *)
(* service (module Booking) needs, from which follows what a step may do   *)
(* to the table.                                                           *)
(***************************************************************************)
EXTENDS Listings, CalendarProofs

USE DeskOfficeAssumption, OfficeInputsAssumption, DaysAssumption,
    NoOfficeAssumption, InputDaysAssumption

\* Turns the row type into facts about one row.
LEMMA ActiveRowType ==
  ASSUME TypeOK, NEW i \in Ids, ActiveRow(rows[i])
  PROVE  rows[i] \in Row
BY DEF TypeOK, ActiveRow

\* The day of a request is the number of a day.
LEMMA RequestDay == \A r \in CreateReq : r.day \in InputDays /\ r.day \in Nat
BY DEF CreateReq

\* The row an INSERT writes is a row, active, and has the request's keys.
LEMMA NewRowType ==
  ASSUME NEW r \in CreateReq, EffectiveOffice(r) = DeskOffice[r.desk]
  PROVE  /\ NewRow(r) \in Row
         /\ NewRow(r).status = "reserved"
         /\ NewRow(r).user = r.user
         /\ NewRow(r).desk = r.desk
         /\ NewRow(r).day = r.day
BY RequestDay DEF CreateReq, NewRow, Row

\* What was let through stays let through as days go by.
LEMMA NotPastStays ==
  ASSUME NEW day, NEW from \in Nat, NEW to \in Nat, NEW to2 \in Nat, to <= to2,
         NotPast(day, from, to)
  PROVE  NotPast(day, from, to2)
BY DEF NotPast

\* The "today" a handler compares with is not after the day, and what is not
\* before it had not passed when the request arrived, if no month has ended.
LEMMA TodayIsLate ==
  ASSUME TypeOK, HandlerInv, NEW s \in Slots, NEW now \in Todays(s)
  PROVE  /\ now \in Int /\ now <= today
         /\ \A day \in Nat : day >= now => NotPast(day, arrived[s], today)
<1>1. /\ arrived[s] \in Nat /\ since[s] \in Nat /\ today \in Nat
      /\ arrived[s] <= since[s] /\ since[s] <= today
  BY DEF TypeOK, HandlerInv, Days
<1>2. PICK y \in since[s]..today : \E m \in y..today : now = TodayFrom(y, m, today)
  BY DEF Todays
<1>3. PICK m \in y..today : now = TodayFrom(y, m, today)
  BY <1>2
<1>4. /\ y \in Nat /\ m \in Nat /\ arrived[s] <= y /\ y <= m /\ m <= today
  BY <1>1, <1>2, <1>3
<1>5. y \in CalendarDays /\ m \in CalendarDays /\ today \in CalendarDays
  BY <1>1, <1>4, DayOfClock
<1>6. /\ now \in Int /\ now <= today
      /\ MonthOn(y) = MonthOn(today) => now = today
  BY <1>4, <1>5, <1>3, TodayIsNotAhead DEF TodayFrom
<1>7. ASSUME NEW day \in Nat, day >= now PROVE NotPast(day, arrived[s], today)
  <2>1. CASE MonthOn(y) = MonthOn(today)
    <3>1. day >= arrived[s]
      BY <1>1, <1>4, <1>6, <1>7, <2>1
    <3> QED
      BY <3>1 DEF NotPast
  <2>2. CASE MonthOn(y) # MonthOn(today)
    <3>1. y \in arrived[s]..today /\ today \in arrived[s]..today
      BY <1>1, <1>4
    <3>2. \E t \in arrived[s]..today : MonthOn(t) # MonthOn(arrived[s])
      BY <2>2, <3>1
    <3> QED
      BY <3>2 DEF NotPast
  <2> QED
    BY <2>1, <2>2
<1> QED
  BY <1>6, <1>7

\* No reservation and no request at first.
LEMMA InitInv == Init => IInv
<1> SUFFICES ASSUME Init PROVE IInv
  OBVIOUS
<1>1. TypeOK
  BY DEF Init, TypeOK, Days, Outcomes, Pcs
<1>2. HandlerInv
  BY DEF Init, HandlerInv, CreatePcs, CancelPcs
<1>3. EntriesExclusive
  BY DEF Init, EntriesExclusive, HoldsUserEntry, HoldsDeskEntry
<1>4. NoDoubleBooking
  BY DEF Init, NoDoubleBooking, ActiveRow
<1>5. QED
  BY <1>1, <1>2, <1>3, <1>4 DEF IInv

\* Moves of one handler that change no row and no request: only the
\* properties of the slot that moves have to be re-established.
LEMMA QuietStep ==
  ASSUME IInv, NEW s \in Slots, NEW to \in Pcs, NEW o \in Outcomes,
         pc' = [pc EXCEPT ![s] = to],
         outcome' = [outcome EXCEPT ![s] = o],
         UNCHANGED <<rows, today, req, arrived>>,
         since' \in {since, [since EXCEPT ![s] = today]},
         to \in CreatePcs => pc[s] \in CreatePcs,
         to \in CancelPcs => pc[s] \in CancelPcs,
         to \in CreatePcs \ {"date", "rollback"} => NotPast(req[s].day, arrived[s], today),
         to \in {"cancelDate", "update"} => rows[req[s].id] # NoRow,
         to = "update" => NotPast(rows[req[s].id].day, arrived[s], today),
         o = "pending" <=> to \notin {"idle", "done", "rollback"},
         to = "rollback" => o \in {"error"} \cup Refusals,
         to \in {"insDesk", "commit"} =>
           /\ ~UserTaken(req[s]) /\ OfficeAgrees(s)
           /\ \A t \in Slots \ {s} : HoldsUserEntry(t) => ~SameUserDay(req[t], req[s]),
         to = "commit" =>
           /\ ~DeskTaken(req[s])
           /\ \A t \in Slots \ {s} : HoldsDeskEntry(t) => ~SameDeskDay(req[t], req[s])
  PROVE  IInv'
<1>1. TypeOK'
  BY DEF IInv, TypeOK
<1>2. HandlerInv'
  <2>1. \A t \in Slots : arrived[t] <= since'[t] /\ since'[t] <= today
    BY DEF IInv, TypeOK, HandlerInv, Days
  <2>2. \A t \in Slots \ {s} : pc'[t] = pc[t] /\ outcome'[t] = outcome[t]
    BY DEF IInv, TypeOK
  <2>3. pc'[s] = to /\ outcome'[s] = o
    BY DEF IInv, TypeOK
  <2> QED
    BY <2>1, <2>2, <2>3 DEF IInv, HandlerInv
<1>3. NoDoubleBooking'
  BY DEF IInv, NoDoubleBooking
<1>4. EntriesExclusive'
  <2>1. \A t \in Slots : pc'[t] = IF t = s THEN to ELSE pc[t]
    BY DEF IInv, TypeOK
  <2>2. /\ \A r : UserTaken(r)' = UserTaken(r) /\ DeskTaken(r)' = DeskTaken(r)
        /\ \A t : OfficeAgrees(t)' = OfficeAgrees(t)
    BY DEF UserTaken, DeskTaken, OfficeAgrees
  <2>3. /\ \A t \in Slots : HoldsUserEntry(t)' => ~UserTaken(req[t]) /\ OfficeAgrees(t)
        /\ \A t \in Slots : HoldsDeskEntry(t)' => ~DeskTaken(req[t])
    BY <2>1 DEF IInv, EntriesExclusive, HoldsUserEntry, HoldsDeskEntry
  <2>4. \A t, u \in Slots :
          t # u /\ HoldsUserEntry(t)' /\ HoldsUserEntry(u)' => ~SameUserDay(req[t], req[u])
    BY <2>1 DEF IInv, EntriesExclusive, HoldsUserEntry, SameUserDay
  <2>5. \A t, u \in Slots :
          t # u /\ HoldsDeskEntry(t)' /\ HoldsDeskEntry(u)' => ~SameDeskDay(req[t], req[u])
    BY <2>1 DEF IInv, EntriesExclusive, HoldsDeskEntry, SameDeskDay
  <2>6. QED
    BY <2>2, <2>3, <2>4, <2>5 DEF EntriesExclusive
<1>5. QED
  BY <1>1, <1>2, <1>3, <1>4 DEF IInv

\* A new request: the slot held nothing and holds nothing.
LEMMA ReceiveInv ==
  ASSUME IInv, NEW s \in Slots, Receive(s)
  PROVE  IInv'
<1>1. PICK to \in {"date", "find"}, r \in CreateReq \cup CancelReq :
        /\ to = "date" => r \in CreateReq
        /\ to = "find" => r \in CancelReq
        /\ req' = [req EXCEPT ![s] = r]
        /\ pc' = [pc EXCEPT ![s] = to]
        /\ outcome' = [outcome EXCEPT ![s] = "pending"]
        /\ arrived' = [arrived EXCEPT ![s] = today]
        /\ since' = [since EXCEPT ![s] = today]
        /\ UNCHANGED <<rows, today>>
  BY DEF Receive, Settle
<1>2. TypeOK'
  BY <1>1 DEF IInv, TypeOK, Pcs, CreatePcs, CancelPcs, Outcomes
<1>3. \A t \in Slots : /\ pc'[t] = IF t = s THEN to ELSE pc[t]
                       /\ t # s => req'[t] = req[t]
  BY <1>1 DEF IInv, TypeOK
<1>4. HandlerInv'
  BY <1>1, <1>3 DEF IInv, TypeOK, HandlerInv, CreatePcs, CancelPcs, Days
<1>5. EntriesExclusive'
  <2>1. \A t \in Slots : HoldsUserEntry(t)' => t # s /\ HoldsUserEntry(t)
    BY <1>3 DEF HoldsUserEntry
  <2>2. \A t \in Slots : HoldsDeskEntry(t)' => t # s /\ HoldsDeskEntry(t)
    BY <1>3 DEF HoldsDeskEntry
  <2>3. \A q : UserTaken(q)' = UserTaken(q) /\ DeskTaken(q)' = DeskTaken(q)
    BY <1>1 DEF UserTaken, DeskTaken
  <2>4. /\ \A t \in Slots : HoldsUserEntry(t)' => ~UserTaken(req[t]) /\ OfficeAgrees(t)
        /\ \A t \in Slots : HoldsDeskEntry(t)' => ~DeskTaken(req[t])
    BY <2>1, <2>2 DEF IInv, EntriesExclusive
  <2>5. \A t \in Slots : t # s => (OfficeAgrees(t)' = OfficeAgrees(t)
                                   /\ UserTaken(req[t])' = UserTaken(req[t])
                                   /\ DeskTaken(req[t])' = DeskTaken(req[t]))
    BY <1>1, <1>3 DEF OfficeAgrees, UserTaken, DeskTaken
  <2>6. QED
    BY <1>3, <2>1, <2>2, <2>4, <2>5 DEF IInv, EntriesExclusive
<1>6. NoDoubleBooking'
  BY <1>1 DEF IInv, NoDoubleBooking
<1>7. QED
  BY <1>2, <1>4, <1>5, <1>6 DEF IInv

\* COMMIT: the row takes the place of the entries its transaction held.
LEMMA CommitInv ==
  ASSUME IInv, NEW s \in Slots, NEW o \in {"ok", "error"},
         Settle(s, "commit", "done", o), AddRow(s),
         UNCHANGED <<today, req, arrived, since>>
  PROVE  IInv'
<1>1. PICK i \in Ids : rows[i] = NoRow /\ rows' = [rows EXCEPT ![i] = NewRow(req[s])]
  BY DEF AddRow
<1>2. req[s] \in CreateReq /\ HoldsUserEntry(s) /\ HoldsDeskEntry(s)
  BY DEF IInv, HandlerInv, Settle, CreatePcs, HoldsUserEntry, HoldsDeskEntry
<1>3. ~UserTaken(req[s]) /\ ~DeskTaken(req[s]) /\ OfficeAgrees(s)
  BY <1>2 DEF IInv, EntriesExclusive
<1>4. DEFINE n == NewRow(req[s])
<1>5. n \in Row /\ n.user = req[s].user /\ n.desk = req[s].desk /\ n.day = req[s].day
  BY <1>2, <1>3, NewRowType DEF OfficeAgrees
<1>6. \A j \in Ids : rows'[j] = IF j = i THEN n ELSE rows[j]
  BY <1>1 DEF IInv, TypeOK
<1>7. TypeOK'
  BY <1>1, <1>5 DEF IInv, TypeOK, Settle, Pcs, Outcomes
<1>8. \A t \in Slots : pc'[t] = IF t = s THEN "done" ELSE pc[t]
  BY DEF IInv, TypeOK, Settle
<1>9. HandlerInv'
  BY <1>1, <1>6, <1>8 DEF IInv, TypeOK, HandlerInv, Settle, CreatePcs, CancelPcs
<1>10. NoDoubleBooking'
  <2>1. \A j \in Ids \ {i} :
          ActiveRow(rows[j]) => ~SameUserDay(rows[j], n) /\ ~SameDeskDay(rows[j], n)
    BY <1>3, <1>5 DEF UserTaken, DeskTaken, SameUserDay, SameDeskDay
  <2>2. QED
    BY <1>6, <2>1 DEF IInv, NoDoubleBooking, SameUserDay, SameDeskDay
<1>11. EntriesExclusive'
  <2>1. \A t \in Slots : /\ HoldsUserEntry(t)' => t # s /\ HoldsUserEntry(t)
                         /\ HoldsDeskEntry(t)' => t # s /\ HoldsDeskEntry(t)
    BY <1>8 DEF HoldsUserEntry, HoldsDeskEntry
  <2>2. \A t \in Slots : HoldsUserEntry(t)' => ~UserTaken(req[t])'
    <3> SUFFICES ASSUME NEW t \in Slots, HoldsUserEntry(t)' PROVE ~UserTaken(req[t])'
      OBVIOUS
    <3>1. ~UserTaken(req[t]) /\ ~SameUserDay(req[s], req[t])
      BY <1>2, <2>1 DEF IInv, EntriesExclusive
    <3>2. ~SameUserDay(n, req[t])
      BY <3>1, <1>5 DEF SameUserDay
    <3>3. QED
      BY <3>1, <3>2, <1>6 DEF UserTaken
  <2>3. \A t \in Slots : HoldsDeskEntry(t)' => ~DeskTaken(req[t])'
    <3> SUFFICES ASSUME NEW t \in Slots, HoldsDeskEntry(t)' PROVE ~DeskTaken(req[t])'
      OBVIOUS
    <3>1. ~DeskTaken(req[t]) /\ ~SameDeskDay(req[s], req[t])
      BY <1>2, <2>1 DEF IInv, EntriesExclusive
    <3>2. ~SameDeskDay(n, req[t])
      BY <3>1, <1>5 DEF SameDeskDay
    <3>3. QED
      BY <3>1, <3>2, <1>6 DEF DeskTaken
  <2>4. \A t \in Slots : OfficeAgrees(t)' = OfficeAgrees(t)
    BY DEF OfficeAgrees
  <2>5. QED
    BY <2>1, <2>2, <2>3, <2>4 DEF IInv, EntriesExclusive
<1>12. QED
  BY <1>7, <1>9, <1>10, <1>11 DEF IInv

\* A cancellation only takes a row out of the two indexes.
LEMMA CancelInv ==
  ASSUME IInv, NEW s \in Slots, NEW o \in {"ok", "error"},
         Settle(s, "update", "done", o), Owned(req[s]), MarkCancelled(s),
         UNCHANGED <<today, req, arrived, since>>
  PROVE  IInv'
<1>1. req[s] \in CancelReq /\ req[s].id \in Ids
  BY DEF IInv, HandlerInv, Settle, CancelPcs, CancelReq
<1>2. DEFINE c == [rows[req[s].id] EXCEPT !.status = "cancelled"]
<1>3. \A j \in Ids : rows'[j] = IF j = req[s].id THEN c ELSE rows[j]
  BY <1>1 DEF IInv, TypeOK, MarkCancelled
<1>4. rows[req[s].id] \in Row
  BY <1>1, ActiveRowType DEF IInv, Owned
<1>5. /\ c \in Row
      /\ c.status = "cancelled"
      /\ c.day = rows[req[s].id].day
  BY <1>4 DEF Row
<1>6. TypeOK'
  BY <1>1, <1>5 DEF IInv, TypeOK, MarkCancelled, Settle, Pcs, Outcomes
<1>7. \A j \in Ids : ActiveRow(rows'[j]) => rows'[j] = rows[j] /\ ActiveRow(rows[j])
  BY <1>3, <1>5 DEF ActiveRow
<1>8. \A t \in Slots : pc'[t] = IF t = s THEN "done" ELSE pc[t]
  BY DEF IInv, TypeOK, Settle
<1>9. HandlerInv'
  <2>1. \A t \in Slots : pc'[t] \in {"cancelDate", "update"} =>
          /\ req[t].id \in Ids
          /\ rows'[req[t].id] # NoRow
          /\ rows'[req[t].id].day = rows[req[t].id].day
    <3> SUFFICES ASSUME NEW t \in Slots, pc'[t] \in {"cancelDate", "update"}
                 PROVE  /\ req[t].id \in Ids
                        /\ rows'[req[t].id] # NoRow
                        /\ rows'[req[t].id].day = rows[req[t].id].day
      OBVIOUS
    <3>1. req[t] \in CancelReq /\ rows[req[t].id] # NoRow
      BY <1>8 DEF IInv, HandlerInv, CancelPcs
    <3>2. QED
      BY <3>1, <1>3, <1>5, NoRowAssumption DEF CancelReq
  <2>2. QED
    BY <1>8, <2>1 DEF IInv, TypeOK, HandlerInv, Settle, CreatePcs, CancelPcs
<1>10. NoDoubleBooking'
  BY <1>7 DEF IInv, NoDoubleBooking
<1>11. EntriesExclusive'
  <2>1. \A t \in Slots : /\ HoldsUserEntry(t)' => HoldsUserEntry(t)
                         /\ HoldsDeskEntry(t)' => HoldsDeskEntry(t)
    BY <1>8 DEF HoldsUserEntry, HoldsDeskEntry
  <2>2. \A t \in Slots : /\ UserTaken(req[t])' => UserTaken(req[t])
                         /\ DeskTaken(req[t])' => DeskTaken(req[t])
    BY <1>7 DEF UserTaken, DeskTaken
  <2>3. \A t \in Slots : OfficeAgrees(t)' = OfficeAgrees(t)
    BY DEF OfficeAgrees
  <2>4. QED
    BY <2>1, <2>2, <2>3 DEF IInv, EntriesExclusive
<1>12. QED
  BY <1>6, <1>9, <1>10, <1>11 DEF IInv

\* Midnight UTC: only the clock moves.
LEMMA NewDayInv ==
  ASSUME IInv, NewDay
  PROVE  IInv'
<1>1. TypeOK'
  BY DEF IInv, TypeOK, NewDay, Days
<1>2. HandlerInv'
  <2>1. /\ today \in Nat /\ today' \in Nat /\ today <= today'
        /\ \A s \in Slots : arrived[s] \in Nat /\ since[s] \in Nat
    BY DEF IInv, TypeOK, NewDay, Days
  <2>2. ASSUME NEW s \in Slots, NEW day, NotPast(day, arrived[s], today)
        PROVE  NotPast(day, arrived[s], today')
    BY <2>1, <2>2, NotPastStays
  <2>3. UNCHANGED <<rows, req, outcome, arrived, since, pc>>
    BY DEF NewDay
  <2> QED
    BY <2>1, <2>2, <2>3 DEF IInv, HandlerInv
<1>3. EntriesExclusive' /\ NoDoubleBooking'
  BY DEF IInv, EntriesExclusive, NoDoubleBooking, NewDay, HoldsUserEntry,
         HoldsDeskEntry, UserTaken, DeskTaken, OfficeAgrees
<1>4. QED
  BY <1>1, <1>2, <1>3 DEF IInv


\* A handler that settles without touching a row ends holding nothing.
LEMMA SettleInv ==
  ASSUME IInv, NEW s \in Slots, NEW from, NEW to \in {"done", "rollback"},
         NEW o \in {"error"} \cup Refusals,
         Settle(s, from, to, o), to = "rollback" => from \in CreatePcs,
         UNCHANGED <<rows, today, req, arrived>>,
         since' \in {since, [since EXCEPT ![s] = today]}
  PROVE  IInv'
<1>1. to \in Pcs /\ o \in Outcomes /\ o # "pending"
  BY DEF Pcs, CreatePcs, Outcomes, Refusals
<1>2. to \in CreatePcs => pc[s] \in CreatePcs
  BY DEF Settle, CreatePcs
<1>3. to \notin CancelPcs
  BY DEF CancelPcs
<1>4. to \in CreatePcs \ {"date", "rollback"} => NotPast(req[s].day, arrived[s], today)
  BY DEF CreatePcs
<1>5. QED
  BY <1>1, <1>2, <1>3, <1>4, QuietStep DEF Settle

\* A handler that goes on has to bring what its next place requires.
LEMMA ProceedInv ==
  ASSUME IInv, NEW s \in Slots, NEW from, NEW to \in Pcs \ {"idle", "done", "rollback"},
         from \notin {"idle", "done", "rollback"},
         Proceed(s, from, to),
         UNCHANGED <<rows, today, req, arrived>>,
         since' \in {since, [since EXCEPT ![s] = today]},
         to \in CreatePcs => from \in CreatePcs /\ NotPast(req[s].day, arrived[s], today),
         to \in CancelPcs => from \in CancelPcs,
         to \in {"cancelDate", "update"} => rows[req[s].id] # NoRow,
         to = "update" => NotPast(rows[req[s].id].day, arrived[s], today),
         to \in {"insDesk", "commit"} =>
           /\ ~UserTaken(req[s]) /\ OfficeAgrees(s)
           /\ \A t \in Slots \ {s} : HoldsUserEntry(t) => ~SameUserDay(req[t], req[s]),
         to = "commit" =>
           /\ ~DeskTaken(req[s])
           /\ \A t \in Slots \ {s} : HoldsDeskEntry(t) => ~SameDeskDay(req[t], req[s])
  PROVE  IInv'
<1>1. pc[s] = from /\ pc' = [pc EXCEPT ![s] = to] /\ outcome' = outcome
  BY DEF Proceed
<1>2. outcome[s] = "pending" /\ outcome' = [outcome EXCEPT ![s] = "pending"]
  BY <1>1 DEF IInv, TypeOK, HandlerInv
<1>3. "pending" \in Outcomes
  BY DEF Outcomes
<1>4. QED
  BY <1>1, <1>2, <1>3, QuietStep

\* Every step of CreateReservationHandler preserves IInv.
LEMMA CreateStepInv ==
  ASSUME IInv, NEW s \in Slots, CreateStep(s)
  PROVE  IInv'
<1> DEFINE Same == UNCHANGED <<rows, today, req, arrived, since>>
<1>1. ASSUME NEW from \in CreatePcs, NEW to \in {"done", "rollback"},
             NEW o \in {"error"} \cup Refusals, Settle(s, from, to, o), Same
      PROVE  IInv'
  BY <1>1, SettleInv
<1>2. CASE CheckDate(s)
  <2>1. CASE Settle(s, "date", "done", "in_past")
    BY <1>1, <1>2, <2>1 DEF CheckDate, CreatePcs, Refusals
  <2>2. ASSUME NEW now \in Todays(s), Proceed(s, "date", "desk"), req[s].day >= now
        PROVE  IInv'
    <3>1. NotPast(req[s].day, arrived[s], today)
      <4>1. req[s].day \in Nat
        BY <2>2, RequestDay DEF IInv, HandlerInv, Proceed, CreatePcs
      <4>2. QED
        BY <4>1, <2>2, TodayIsLate DEF IInv
    <3>2. QED
      BY <1>2, <2>2, <3>1, ProceedInv DEF CheckDate, Pcs, CreatePcs, CancelPcs
  <2>3. QED
    BY <1>2, <2>1, <2>2 DEF CheckDate
<1>3. CASE LookUpDesk(s)
  <2>1. CASE Settle(s, "desk", "rollback", "desk_conflict")
    BY <1>1, <1>3, <2>1 DEF LookUpDesk, CreatePcs, Refusals
  <2>2. CASE Proceed(s, "desk", "user")
    <3>1. NotPast(req[s].day, arrived[s], today)
      BY <2>2 DEF IInv, HandlerInv, Proceed, CreatePcs
    <3>2. QED
      BY <1>3, <2>2, <3>1, ProceedInv DEF LookUpDesk, Pcs, CreatePcs, CancelPcs
  <2>3. QED
    BY <1>3, <2>1, <2>2 DEF LookUpDesk
<1>4. CASE LookUpUser(s)
  <2>1. CASE Settle(s, "user", "rollback", "user_conflict")
    BY <1>1, <1>4, <2>1 DEF LookUpUser, CreatePcs, Refusals
  <2>2. CASE Proceed(s, "user", "insUser")
    <3>1. NotPast(req[s].day, arrived[s], today)
      BY <2>2 DEF IInv, HandlerInv, Proceed, CreatePcs
    <3>2. QED
      BY <1>4, <2>2, <3>1, ProceedInv DEF LookUpUser, Pcs, CreatePcs, CancelPcs
  <2>3. QED
    BY <1>4, <2>1, <2>2 DEF LookUpUser
<1>5. CASE InsertUserEntry(s)
  <2>1. ASSUME NEW o \in {"error", "user_conflict"}, Settle(s, "insUser", "rollback", o)
        PROVE  IInv'
    BY <1>1, <1>5, <2>1 DEF InsertUserEntry, CreatePcs, Refusals
  <2>2. CASE /\ Proceed(s, "insUser", "insDesk")
             /\ OfficeAgrees(s) /\ ~UserEntryInDoubt(s) /\ ~UserTaken(req[s])
    <3>1. NotPast(req[s].day, arrived[s], today)
      BY <2>2 DEF IInv, HandlerInv, Proceed, CreatePcs
    <3>2. \A t \in Slots \ {s} : HoldsUserEntry(t) => ~SameUserDay(req[t], req[s])
      BY <2>2 DEF UserEntryInDoubt
    <3>3. QED
      BY <1>5, <2>2, <3>1, <3>2, ProceedInv DEF InsertUserEntry, Pcs, CreatePcs, CancelPcs
  <2>3. QED
    BY <1>5, <2>1, <2>2 DEF InsertUserEntry
<1>6. CASE InsertDeskEntry(s)
  <2>1. CASE Settle(s, "insDesk", "rollback", "desk_conflict")
    BY <1>1, <1>6, <2>1 DEF InsertDeskEntry, CreatePcs, Refusals
  <2>2. CASE Proceed(s, "insDesk", "commit") /\ ~DeskEntryInDoubt(s) /\ ~DeskTaken(req[s])
    <3>1. NotPast(req[s].day, arrived[s], today) /\ HoldsUserEntry(s)
      BY <2>2 DEF IInv, HandlerInv, Proceed, CreatePcs, HoldsUserEntry
    <3>2. /\ ~UserTaken(req[s]) /\ OfficeAgrees(s)
          /\ \A t \in Slots \ {s} : HoldsUserEntry(t) => ~SameUserDay(req[t], req[s])
      BY <3>1 DEF IInv, EntriesExclusive
    <3>3. \A t \in Slots \ {s} : HoldsDeskEntry(t) => ~SameDeskDay(req[t], req[s])
      BY <2>2 DEF DeskEntryInDoubt
    <3>4. QED
      BY <1>6, <2>2, <3>1, <3>2, <3>3, ProceedInv DEF InsertDeskEntry, Pcs, CreatePcs, CancelPcs
  <2>3. QED
    BY <1>6, <2>1, <2>2 DEF InsertDeskEntry
<1>7. CASE Commit(s)
  BY <1>7, CommitInv DEF Commit
<1>8. CASE Rollback(s)
  <2>1. /\ outcome[s] \in {"error"} \cup Refusals
        /\ Settle(s, "rollback", "done", outcome[s])
    BY <1>8 DEF Rollback, Proceed, Settle, IInv, TypeOK, HandlerInv
  <2>2. QED
    BY <1>1, <1>8, <2>1 DEF Rollback, CreatePcs
<1>9. QED
  BY <1>2, <1>3, <1>4, <1>5, <1>6, <1>7, <1>8 DEF CreateStep

\* Every step of CancelReservationHandler preserves IInv.
LEMMA CancelStepInv ==
  ASSUME IInv, NEW s \in Slots, CancelStep(s)
  PROVE  IInv'
<1>1. pc[s] \in CancelPcs => req[s] \in CancelReq
  BY DEF IInv, HandlerInv
<1>2. CASE FindActive(s)
  <2>1. CASE Settle(s, "find", "done", "not_found")
    BY <1>2, <2>1, SettleInv DEF FindActive, Refusals
  <2>2. CASE Proceed(s, "find", "cancelDate") /\ Owned(req[s])
    BY <1>2, <2>2, ProceedInv DEF FindActive, Owned, ActiveRow, Pcs, CreatePcs, CancelPcs
  <2>3. QED
    BY <1>2, <2>1, <2>2 DEF FindActive
<1>3. CASE CheckFoundDate(s)
  <2>1. CASE Settle(s, "cancelDate", "done", "in_past")
    BY <1>3, <2>1, SettleInv DEF CheckFoundDate, Refusals
  <2>2. ASSUME NEW now \in Todays(s), Proceed(s, "cancelDate", "update"),
               rows[req[s].id].day >= now
        PROVE  IInv'
    <3>1. rows[req[s].id] # NoRow /\ rows[req[s].id] \in Row
      BY <1>1, <2>2 DEF IInv, TypeOK, HandlerInv, Proceed, CancelPcs, CancelReq
    <3>2. NotPast(rows[req[s].id].day, arrived[s], today)
      <4>1. rows[req[s].id].day \in Nat
        BY <3>1 DEF Row
      <4>2. QED
        BY <4>1, <2>2, TodayIsLate DEF IInv
    <3>3. QED
      BY <1>3, <2>2, <3>1, <3>2, ProceedInv DEF CheckFoundDate, Pcs, CreatePcs, CancelPcs
  <2>3. QED
    BY <1>3, <2>1, <2>2 DEF CheckFoundDate
<1>4. CASE UpdateStatus(s)
  <2>1. CASE Settle(s, "update", "done", "ok") /\ Owned(req[s]) /\ MarkCancelled(s)
    BY <1>4, <2>1, CancelInv DEF UpdateStatus
  <2>2. CASE Settle(s, "update", "done", "not_found") /\ UNCHANGED rows
    BY <1>4, <2>2, SettleInv DEF UpdateStatus, Refusals
  <2>3. QED
    BY <1>4, <2>1, <2>2 DEF UpdateStatus
<1>5. QED
  BY <1>2, <1>3, <1>4 DEF CancelStep

\* A lost statement or answer preserves IInv.
LEMMA FaultInv ==
  ASSUME IInv, NEW s \in Slots, Fault(s)
  PROVE  IInv'
<1>1. PICK from \in DbPcs : Settle(s, from, "done", "error")
  BY DEF Fault
<1>2. CASE UNCHANGED rows
  BY <1>1, <1>2, SettleInv DEF Fault
<1>3. CASE pc[s] = "commit" /\ AddRow(s)
  BY <1>1, <1>3, CommitInv DEF Fault, Settle
<1>4. CASE pc[s] = "update" /\ Owned(req[s]) /\ MarkCancelled(s)
  BY <1>1, <1>4, CancelInv DEF Fault, Settle
<1>5. QED
  BY <1>2, <1>3, <1>4 DEF Fault

\* The strengthened invariant is inductive.
LEMMA NextInv == IInv /\ [Next]_vars => IInv'
<1> SUFFICES ASSUME IInv, [Next]_vars PROVE IInv'
  OBVIOUS
<1>1. CASE UNCHANGED vars
  BY <1>1 DEF vars, IInv, TypeOK, HandlerInv, EntriesExclusive, NoDoubleBooking,
              HoldsUserEntry, HoldsDeskEntry, UserTaken, DeskTaken, OfficeAgrees
<1>2. CASE NewDay
  BY <1>2, NewDayInv
<1>3. ASSUME NEW s \in Slots, Receive(s) \/ HandlerStep(s) \/ Fault(s)
      PROVE  IInv'
  BY <1>3, ReceiveInv, CreateStepInv, CancelStepInv, FaultInv DEF HandlerStep
<1>4. QED
  BY <1>1, <1>2, <1>3 DEF Next

\* IInv holds in every reachable state: what is known of each request by its
\* place, of the rows and of the entries that INSERTs under way hold.
THEOREM Invariance == Spec => []IInv
BY InitInv, NextInv, PTL DEF Spec

\* Every variable keeps its type, whatever races and whatever is lost.
THEOREM TypeCorrectness == Spec => []TypeOK
<1>1. IInv => TypeOK
  BY DEF IInv
<1>2. QED
  BY <1>1, Invariance, PTL

\* No desk and no user is ever booked twice for a day, for any number of
\* concurrent requests, users, desks and days, and any faults.
THEOREM NeverDoubleBooked == Spec => []NoDoubleBooking
<1>1. IInv => NoDoubleBooking
  BY DEF IInv
<1>2. QED
  BY <1>1, Invariance, PTL

-----------------------------------------------------------------------------
(* Cancellations: CancelledOnce, strengthened by what a cancelled row is.   *)

CancelTold(s) == pc[s] = "done" /\ outcome[s] = "ok" /\ req[s] \in CancelReq

CancelInvariant ==
  \A s \in Slots :
    CancelTold(s)
      => /\ rows[req[s].id] # NoRow /\ rows[req[s].id].status = "cancelled"
         /\ \A t \in Slots \ {s} : CancelTold(t) => req[t].id # req[s].id

\* No statement changes a row that is cancelled.
LEMMA CancelledStays ==
  ASSUME IInv, [Next]_vars, NEW i \in Ids, rows[i] # NoRow, rows[i].status = "cancelled"
  PROVE  rows'[i] = rows[i]
<1>1. CASE UNCHANGED rows
  BY <1>1
<1>2. ASSUME NEW s \in Slots, AddRow(s)
      PROVE  rows'[i] = rows[i]
  BY <1>2 DEF AddRow, IInv, TypeOK
<1>3. ASSUME NEW s \in Slots, Owned(req[s]), MarkCancelled(s)
      PROVE  rows'[i] = rows[i]
  BY <1>3 DEF Owned, ActiveRow, MarkCancelled, IInv, TypeOK
<1>4. ASSUME NEW s \in Slots, Receive(s) \/ HandlerStep(s) \/ Fault(s)
      PROVE  \/ UNCHANGED rows
             \/ AddRow(s)
             \/ Owned(req[s]) /\ MarkCancelled(s)
  BY <1>4 DEF Receive, HandlerStep, CreateStep, CancelStep, Fault, CheckDate, LookUpDesk,
              LookUpUser, InsertUserEntry, InsertDeskEntry, Commit, Rollback, FindActive,
              CheckFoundDate, UpdateStatus
<1>5. QED
  BY <1>1, <1>2, <1>3, <1>4 DEF Next, NewDay, vars

\* A step of one slot leaves what the others have been told alone.
LEMMA OthersUntouched ==
  ASSUME IInv, NEW s \in Slots, Receive(s) \/ HandlerStep(s) \/ Fault(s),
         NEW t \in Slots \ {s}
  PROVE  pc'[t] = pc[t] /\ outcome'[t] = outcome[t] /\ req'[t] = req[t]
BY DEF IInv, TypeOK, Receive, HandlerStep, CreateStep, CancelStep, Fault, CheckDate,
       LookUpDesk, LookUpUser, InsertUserEntry, InsertDeskEntry, Commit, Rollback,
       FindActive, CheckFoundDate, UpdateStatus, Proceed, Settle

\* A step that tells its slot of a success is the UPDATE of an active row.
LEMMA ToldByUpdate ==
  ASSUME IInv, NEW s \in Slots, Receive(s) \/ HandlerStep(s) \/ Fault(s), CancelTold(s)'
  PROVE  req'[s] = req[s] /\ req[s].id \in Ids /\ Owned(req[s]) /\ MarkCancelled(s)
<1>1. pc'[s] = "done" /\ outcome'[s] = "ok"
  BY DEF CancelTold
<1>2. \A from, to, o : Settle(s, from, to, o) => pc'[s] = to /\ outcome'[s] = o /\ pc[s] = from
  BY DEF Settle, IInv, TypeOK
<1>3. \A from, to : Proceed(s, from, to) => pc'[s] = to /\ outcome'[s] = outcome[s] /\ pc[s] = from
  BY DEF Proceed, IInv, TypeOK
<1>4. ~Receive(s)
  BY <1>1, <1>2 DEF Receive
<1>5. ~Fault(s)
  BY <1>1, <1>2 DEF Fault
<1>6. ~Rollback(s)
  BY <1>1, <1>3 DEF Rollback, IInv, HandlerInv, Refusals
<1>7. ~Commit(s)
  <2> SUFFICES ASSUME Commit(s) PROVE FALSE
    OBVIOUS
  <2>1. pc[s] = "commit" /\ req'[s] = req[s]
    BY <1>2 DEF Commit
  <2>2. req[s] \in CreateReq
    BY <2>1 DEF IInv, HandlerInv, CreatePcs
  <2>3. QED
    BY <2>1, <2>2 DEF CancelTold, CreateReq, CancelReq
<1>8. UpdateStatus(s)
  BY <1>1, <1>2, <1>3, <1>4, <1>5, <1>6, <1>7
  DEF HandlerStep, CreateStep, CancelStep, CheckDate, LookUpDesk, LookUpUser,
      InsertUserEntry, InsertDeskEntry, FindActive, CheckFoundDate
<1>9. QED
  BY <1>1, <1>2, <1>8 DEF UpdateStatus, CancelTold, CancelReq

\* Every step preserves CancelInvariant.
LEMMA CancelInvariantNext == IInv /\ CancelInvariant /\ [Next]_vars => CancelInvariant'
<1> SUFFICES ASSUME IInv, CancelInvariant, [Next]_vars
             PROVE  CancelInvariant'
  OBVIOUS
<1>1. CASE UNCHANGED <<rows, req, outcome, pc>>
  BY <1>1 DEF CancelInvariant, CancelTold
<1>2. ASSUME NEW s \in Slots, Receive(s) \/ HandlerStep(s) \/ Fault(s)
      PROVE  CancelInvariant'
  <2>1. \A t \in Slots \ {s} : /\ CancelTold(t)' <=> CancelTold(t)
                              /\ req'[t] = req[t]
    BY <1>2, OthersUntouched DEF CancelTold
  <2>2. \A t \in Slots \ {s} : CancelTold(t)
          => rows'[req[t].id] # NoRow /\ rows'[req[t].id].status = "cancelled"
    <3> SUFFICES ASSUME NEW t \in Slots \ {s}, CancelTold(t)
                 PROVE  rows'[req[t].id] # NoRow /\ rows'[req[t].id].status = "cancelled"
      OBVIOUS
    <3>1. req[t].id \in Ids
      BY DEF CancelTold, CancelReq
    <3>2. QED
      BY <3>1, CancelledStays DEF CancelInvariant
  <2>3. CASE ~CancelTold(s)'
    BY <2>1, <2>2, <2>3 DEF CancelInvariant
  <2>4. CASE CancelTold(s)'
    <3>1. req'[s] = req[s] /\ req[s].id \in Ids /\ Owned(req[s]) /\ MarkCancelled(s)
      BY <1>2, <2>4, ToldByUpdate
    <3>2. rows[req[s].id] \in Row /\ rows[req[s].id].status = "reserved"
      BY <3>1 DEF Owned, ActiveRow, IInv, TypeOK
    <3>3. /\ rows'[req[s].id] \in Row
          /\ rows'[req[s].id].status = "cancelled"
      BY <3>1, <3>2 DEF MarkCancelled, IInv, TypeOK, Row
    <3>4. \A t \in Slots \ {s} : CancelTold(t) => req[t].id # req[s].id
      BY <3>2 DEF CancelInvariant
    <3>5. QED
      BY <2>1, <2>2, <3>1, <3>3, <3>4, NoRowAssumption DEF CancelInvariant
  <2>5. QED
    BY <2>3, <2>4
<1>3. QED
  BY <1>1, <1>2 DEF Next, NewDay, vars

\* Of any number of DELETEs of one reservation at most one is told that it has
\* cancelled it, and then it is cancelled for good.
THEOREM CancelledAtMostOnce == Spec => []CancelledOnce
<1>1. Init => CancelInvariant
  BY DEF Init, CancelInvariant, CancelTold
<1>2. CancelInvariant => CancelledOnce
  BY DEF CancelInvariant, CancelledOnce, CancelTold
<1>3. QED
  BY <1>1, <1>2, CancelInvariantNext, Invariance, PTL DEF Spec

-----------------------------------------------------------------------------
(* Waiting and listing: consequences of the order of the two indexes and of *)
(* NoDoubleBooking.                                                          *)

\* No group of requests waits in a circle.
THEOREM NoCircularWait == Spec => []NoDeadlock
<1>1. NoDeadlock
  <2> SUFFICES ASSUME NEW G \in SUBSET Slots, G # {},
                      \A s \in G : \E t \in Slots : WaitsFor(s, t)
               PROVE  \E s \in G, t \in Slots \ G : WaitsFor(s, t)
    BY DEF NoDeadlock
  <2>1. \A t : pc[t] = "commit" => t \notin G
    BY DEF WaitsFor
  <2>2. ASSUME NEW s \in G, pc[s] = "insDesk"
        PROVE  \E t \in Slots \ G : WaitsFor(s, t)
    BY <2>1, <2>2 DEF WaitsFor, HoldsDeskEntry
  <2>3. PICK s \in G, t \in Slots : WaitsFor(s, t)
    OBVIOUS
  <2>4. CASE t \in G
    BY <2>1, <2>2, <2>3, <2>4 DEF WaitsFor, HoldsUserEntry, HoldsDeskEntry
  <2>5. QED
    BY <2>3, <2>4
<1>2. QED
  BY <1>1, PTL

\* Whatever the desk, a day pairs it with one reservation at most.
LEMMA OneJoined ==
  ASSUME NoDoubleBooking, NEW d \in Desks, NEW day \in InputDays
  PROVE  \A i, j \in JoinedRows(d, day) : i = j
BY DEF NoDoubleBooking, JoinedRows, SameDeskDay

\* A card of the listing is that of a free desk or that of a paired one.
LEMMA CardKinds ==
  ASSUME NEW u \in Users, NEW day \in InputDays, NEW c \in DeskList(u, day)
  PROVE  \E d \in Desks :
           /\ c.desk = d
           /\ \/ JoinedRows(d, day) = {} /\ c = FreeCard(d)
              \/ \E i \in JoinedRows(d, day) : c = Card(d, i, u)
<1>1. PICK d \in Desks : c \in DeskCards(d, u, day)
  BY DEF DeskList
<1>2. CASE JoinedRows(d, day) = {}
  <2>1. c = FreeCard(d)
    BY <1>1, <1>2 DEF DeskCards
  <2>2. FreeCard(d).desk = d
    BY DEF FreeCard
  <2>3. QED
    BY <1>2, <2>1, <2>2
<1>3. CASE JoinedRows(d, day) # {}
  <2>1. PICK i \in JoinedRows(d, day) : c = Card(d, i, u)
    BY <1>1, <1>3 DEF DeskCards
  <2>2. Card(d, i, u).desk = d
    BY DEF Card
  <2>3. QED
    BY <2>1, <2>2
<1>4. QED
  BY <1>2, <1>3

\* A card that is mine shows an active reservation of mine, and the other way
\* round.
LEMMA MineCards ==
  ASSUME TypeOK, NEW u \in Users, NEW day \in InputDays
  PROVE  /\ \A c \in MineOn(u, day) :
              /\ c.desk \in Desks /\ c.desk = rows[c.reservation].desk
              /\ c.reservation \in Ids /\ ActiveRow(rows[c.reservation])
              /\ rows[c.reservation].user = u /\ rows[c.reservation].day = day
              /\ c = Card(c.desk, c.reservation, u)
         /\ \A i \in Ids :
              ActiveRow(rows[i]) /\ rows[i].user = u /\ rows[i].day = day
                => \E c \in MineOn(u, day) : c.reservation = i
<1>1. ASSUME NEW c \in MineOn(u, day)
      PROVE  /\ c.desk \in Desks /\ c.desk = rows[c.reservation].desk
             /\ c.reservation \in Ids /\ ActiveRow(rows[c.reservation])
             /\ rows[c.reservation].user = u /\ rows[c.reservation].day = day
             /\ c = Card(c.desk, c.reservation, u)
  <2>1. c \in DeskList(u, day) /\ c.isMine
    BY DEF MineOn
  <2>2. PICK d \in Desks : /\ c.desk = d
                           /\ \/ JoinedRows(d, day) = {} /\ c = FreeCard(d)
                              \/ \E i \in JoinedRows(d, day) : c = Card(d, i, u)
    BY <2>1, CardKinds
  <2>3. ~FreeCard(d).isMine
    BY DEF FreeCard
  <2>4. PICK i \in JoinedRows(d, day) : c = Card(d, i, u)
    BY <2>1, <2>2, <2>3
  <2>5. Card(d, i, u).reservation = i /\ (Card(d, i, u).isMine <=> rows[i].user = u)
    BY DEF Card
  <2>6. i \in Ids /\ ActiveRow(rows[i]) /\ rows[i].day = day /\ rows[i].desk = d
    BY DEF JoinedRows
  <2>7. QED
    BY <2>1, <2>2, <2>4, <2>5, <2>6
<1>2. ASSUME NEW i \in Ids, ActiveRow(rows[i]), rows[i].user = u, rows[i].day = day
      PROVE  \E c \in MineOn(u, day) : c.reservation = i
  <2>1. rows[i].desk \in Desks
    BY <1>2, ActiveRowType DEF Row
  <2>2. i \in JoinedRows(rows[i].desk, day)
    BY <1>2 DEF JoinedRows
  <2>3. Card(rows[i].desk, i, u) \in DeskList(u, day)
    BY <2>1, <2>2 DEF DeskList, DeskCards
  <2>4. Card(rows[i].desk, i, u).reservation = i /\ Card(rows[i].desk, i, u).isMine
    BY <1>2 DEF Card
  <2>5. QED
    BY <2>3, <2>4 DEF MineOn
<1>3. QED
  BY <1>1, <1>2

\* No desk is shown twice or left out, and nobody is shown two desks as his own.
THEOREM DesksShownOnce == Spec => []OneCardPerDesk
<1>1. IInv => OneCardPerDesk
  <2> SUFFICES ASSUME IInv, NEW u \in Users, NEW day \in InputDays
               PROVE  /\ \A d \in Desks : \E c \in DeskList(u, day) : c.desk = d
                      /\ \A c1, c2 \in DeskList(u, day) : c1.desk = c2.desk => c1 = c2
                      /\ \A c1, c2 \in MineOn(u, day) : c1 = c2
    BY DEF OneCardPerDesk
  <2>1. ASSUME NEW d \in Desks PROVE \E c \in DeskList(u, day) : c.desk = d
    <3>1. CASE JoinedRows(d, day) = {}
      <4>1. FreeCard(d) \in DeskList(u, day)
        BY <3>1 DEF DeskList, DeskCards
      <4>2. FreeCard(d).desk = d
        BY DEF FreeCard
      <4>3. QED
        BY <4>1, <4>2
    <3>2. ASSUME NEW i \in JoinedRows(d, day) PROVE \E c \in DeskList(u, day) : c.desk = d
      <4>1. Card(d, i, u) \in DeskList(u, day)
        BY <3>2 DEF DeskList, DeskCards
      <4>2. Card(d, i, u).desk = d
        BY DEF Card
      <4>3. QED
        BY <4>1, <4>2
    <3>3. QED
      BY <3>1, <3>2
  <2>2. ASSUME NEW c1 \in DeskList(u, day), NEW c2 \in DeskList(u, day), c1.desk = c2.desk
        PROVE  c1 = c2
    <3> DEFINE d == c1.desk
    <3>1. /\ d \in Desks
          /\ \/ JoinedRows(d, day) = {} /\ c1 = FreeCard(d)
             \/ \E i \in JoinedRows(d, day) : c1 = Card(d, i, u)
      BY CardKinds
    <3>2. \/ JoinedRows(d, day) = {} /\ c2 = FreeCard(d)
          \/ \E i \in JoinedRows(d, day) : c2 = Card(d, i, u)
      BY <2>2, CardKinds
    <3>3. \A i, j \in JoinedRows(d, day) : i = j
      BY <3>1, OneJoined DEF IInv
    <3>4. QED
      BY <3>1, <3>2, <3>3
  <2>3. ASSUME NEW c1 \in MineOn(u, day), NEW c2 \in MineOn(u, day)
        PROVE  c1 = c2
    <3>1. c1.reservation = c2.reservation
      BY MineCards DEF IInv, NoDoubleBooking, SameUserDay
    <3>2. c1.desk = c2.desk
      BY <3>1, MineCards DEF IInv
    <3>3. QED
      BY <3>1, <3>2, MineCards DEF IInv
  <2>4. QED
    BY <2>1, <2>2, <2>3
<1>2. QED
  BY <1>1, Invariance, PTL

\* The desks shown as mine, if they have a name, are the active reservations of
\* my list, and DELETE would find the reservation of each one shown.
THEOREM ListsAlwaysAgree == Spec => []ListsAgree
<1>1. IInv => ListsAgree
  <2> SUFFICES ASSUME IInv, NEW u \in Users, NEW day \in InputDays
               PROVE  /\ {c.reservation : c \in {c \in MineOn(u, day) : c.desk \notin NamelessDesks}}
                            = {i \in MyList(u) : rows[i].day = day}
                      /\ \A c \in MineOn(u, day) : Owned([user |-> u, id |-> c.reservation])
    BY DEF ListsAgree
  <2> DEFINE Named == {c \in MineOn(u, day) : c.desk \notin NamelessDesks}
  <2>1. \A i \in Ids : i \in MyList(u) <=> /\ ActiveRow(rows[i]) /\ rows[i].user = u
                                          /\ rows[i].desk \notin NamelessDesks
    BY DEF MyList, MyRows, IsRecordRow, ActiveRow, IInv, TypeOK, Row
  <2>2. MyList(u) \subseteq Ids
    BY DEF MyList, MyRows
  <2>3. {c.reservation : c \in Named} = {i \in MyList(u) : rows[i].day = day}
    <3>1. \A c \in Named : c.reservation \in MyList(u) /\ rows[c.reservation].day = day
      BY <2>1, MineCards DEF IInv
    <3>2. ASSUME NEW i \in MyList(u), rows[i].day = day
          PROVE  \E c \in Named : c.reservation = i
      <4>1. PICK c \in MineOn(u, day) : c.reservation = i
        BY <2>1, <2>2, <3>2, MineCards DEF IInv
      <4>2. c.desk = rows[i].desk
        BY <4>1, MineCards DEF IInv
      <4> QED
        BY <2>1, <2>2, <4>1, <4>2
    <3> QED
      BY <3>1, <3>2
  <2>4. \A c \in MineOn(u, day) : Owned([user |-> u, id |-> c.reservation])
    BY MineCards DEF IInv, Owned
  <2>5. QED
    BY <2>3, <2>4
<1>2. QED
  BY <1>1, Invariance, PTL

-----------------------------------------------------------------------------
(* Every step of a handler is a step of the atomic service or a stutter.   *)

\* The service's instance of the data definitions is the handlers' own.
LEMMA SameData ==
  /\ B!CreateReq = CreateReq /\ B!CancelReq = CancelReq /\ B!Refusals = Refusals
  /\ \A r : B!NewRow(r) = NewRow(r) /\ B!EffectiveOffice(r) = EffectiveOffice(r)
  /\ \A r : /\ B!DeskTaken(r) <=> DeskTaken(r)
            /\ B!UserTaken(r) <=> UserTaken(r)
            /\ B!Owned(r) <=> Owned(r)
BY DEF B!CreateReq, CreateReq, B!CancelReq, CancelReq, B!Refusals, Refusals,
       B!NewRow, NewRow, B!EffectiveOffice, EffectiveOffice,
       B!DeskTaken, DeskTaken, B!UserTaken, UserTaken, B!Owned, Owned,
       B!ActiveRow, ActiveRow, B!SameDeskDay, SameDeskDay, B!SameUserDay, SameUserDay

\* And so is its calendar.
LEMMA SameCalendar == \A day, from, to : B!NotPast(day, from, to) <=> NotPast(day, from, to)
<1>1. \A t : B!YearOf(t) = YearOf(t)
  BY DEF B!YearOf, YearOf, B!DayFromYear, DayFromYear
<1>2. \A t : B!MonthOf(t) = MonthOf(t)
  BY DEF B!MonthOf, MonthOf, B!DaysBefore, DaysBefore, B!LeapDay, LeapDay, B!DayInYear,
         DayInYear, B!YearOf, YearOf, B!DayFromYear, DayFromYear
<1> QED
  BY <1>1, <1>2 DEF B!NotPast, NotPast, B!MonthOn, MonthOn

\* The arrival of a request is a Submit of Booking.
LEMMA ReceiveSimulated ==
  ASSUME IInv, NEW s \in Slots, Receive(s)
  PROVE  B!Submit(s)
BY SameData DEF Receive, Settle, B!Submit, IInv, HandlerInv

\* A handler that goes on, and one that passes on a refusal, changes nothing
\* that the service shows.
LEMMA ProceedSimulated ==
  ASSUME NEW s \in Slots, NEW from, NEW to, Proceed(s, from, to),
         UNCHANGED <<rows, today, req, arrived>>
  PROVE  UNCHANGED B!vars
BY DEF Proceed, B!vars

\* An answer that changes no row is a Decide of Booking.
LEMMA SettleSimulated ==
  ASSUME IInv, NEW s \in Slots, NEW from, NEW to, NEW o,
         from \notin {"idle", "done", "rollback"},
         Settle(s, from, to, o),
         UNCHANGED <<today, req, arrived>>
  PROVE  B!Decide(s, o)
BY DEF Settle, B!Decide, IInv, HandlerInv

\* The COMMIT of an INSERT is a Reserve of Booking, its answer lost or not.
LEMMA CommitSimulated ==
  ASSUME IInv, NEW s \in Slots, NEW o \in {"ok", "error"},
         Settle(s, "commit", "done", o), AddRow(s), UNCHANGED <<today, req, arrived>>
  PROVE  B!Reserve(s)
<1>1. req[s] \in CreateReq /\ NotPast(req[s].day, arrived[s], today)
  BY DEF IInv, HandlerInv, Settle, CreatePcs
<1>2. OfficeAgrees(s) /\ ~DeskTaken(req[s]) /\ ~UserTaken(req[s])
  BY DEF IInv, EntriesExclusive, HoldsUserEntry, HoldsDeskEntry, Settle
<1>3. B!Decide(s, o)
  BY SettleSimulated
<1>4. QED
  BY <1>1, <1>2, <1>3, SameData, SameCalendar DEF B!Reserve, OfficeAgrees, AddRow

\* The UPDATE of a cancellation is a Cancel of Booking, its answer lost or not.
LEMMA CancelSimulated ==
  ASSUME IInv, NEW s \in Slots, NEW o \in {"ok", "error"},
         Settle(s, "update", "done", o), Owned(req[s]), MarkCancelled(s),
         UNCHANGED <<today, req, arrived>>
  PROVE  B!Cancel(s)
<1>1. req[s] \in CancelReq /\ NotPast(rows[req[s].id].day, arrived[s], today)
  BY DEF IInv, HandlerInv, Settle, CancelPcs
<1>2. B!Decide(s, o)
  BY SettleSimulated
<1>3. QED
  BY <1>1, <1>2, SameData, SameCalendar DEF B!Cancel, MarkCancelled

\* A statement that fails is a Decide of Booking, or changes nothing it shows.
LEMMA FailSimulated ==
  ASSUME IInv, NEW s \in Slots, NEW from \in DbPcs, NEW to,
         Settle(s, from, to, "error"), UNCHANGED <<rows, today, req, arrived>>
  PROVE  [B!Next]_(B!vars)
<1>1. outcome[s] \in {"pending", "error"} \cup Refusals
  BY DEF IInv, HandlerInv, Settle, DbPcs
<1>2. CASE outcome[s] = "error"
  BY <1>2 DEF Settle, IInv, TypeOK, B!vars
<1>3. CASE outcome[s] # "error"
  BY <1>1, <1>3, SameData DEF Settle, B!Fail, B!Next
<1>4. QED
  BY <1>2, <1>3

\* Every step of a creation is a step of Booking or a stutter.
LEMMA CreateStepSimulated ==
  ASSUME IInv, NEW s \in Slots, CreateStep(s)
  PROVE  [B!Next]_(B!vars)
<1> USE SettleSimulated, ProceedSimulated
<1>1. pc[s] \in CreatePcs => req[s] \in CreateReq
  BY DEF IInv, HandlerInv
<1>2. CASE CheckDate(s)
  <2>1. ASSUME NEW now \in Todays(s), Settle(s, "date", "done", "in_past"), req[s].day < now
        PROVE  B!Next
    <3>1. B!Decide(s, "in_past") /\ req[s] \in CreateReq
      BY <1>1, <1>2, <2>1 DEF CheckDate, Settle, CreatePcs
    <3>2. req[s].day < today
      BY <2>1, <3>1, TodayIsLate, RequestDay DEF IInv, TypeOK, Days
    <3>3. QED
      BY <1>2, <3>1, <3>2, SameData DEF CheckDate, B!Refuse, B!Next
  <2>2. QED
    BY <1>2, <2>1 DEF CheckDate
<1>3. ASSUME NEW from \in {"desk", "insDesk"}, DeskTaken(req[s]),
             Settle(s, from, "rollback", "desk_conflict"),
             UNCHANGED <<rows, today, req, arrived>>
      PROVE  B!Next
  <2>1. B!Decide(s, "desk_conflict") /\ req[s] \in CreateReq
    BY <1>1, <1>3 DEF Settle, CreatePcs
  <2>2. QED
    BY <1>3, <2>1, SameData DEF B!Refuse, B!Next
<1>4. ASSUME NEW from \in {"user", "insUser"}, UserTaken(req[s]),
             Settle(s, from, "rollback", "user_conflict"),
             UNCHANGED <<rows, today, req, arrived>>
      PROVE  B!Next
  <2>1. B!Decide(s, "user_conflict") /\ req[s] \in CreateReq
    BY <1>1, <1>4 DEF Settle, CreatePcs
  <2>2. QED
    BY <1>4, <2>1, SameData DEF B!Refuse, B!Next
<1>5. CASE LookUpDesk(s)
  BY <1>3, <1>5 DEF LookUpDesk
<1>6. CASE LookUpUser(s)
  BY <1>4, <1>6 DEF LookUpUser
<1>7. CASE InsertUserEntry(s)
  <2>1. CASE Settle(s, "insUser", "rollback", "error")
    BY <1>7, <2>1, FailSimulated DEF InsertUserEntry, DbPcs
  <2>2. QED
    BY <1>4, <1>7, <2>1 DEF InsertUserEntry
<1>8. CASE InsertDeskEntry(s)
  BY <1>3, <1>8 DEF InsertDeskEntry
<1>9. CASE Commit(s)
  BY <1>9, CommitSimulated DEF Commit, B!Next
<1>10. CASE Rollback(s)
  BY <1>10 DEF Rollback
<1>11. QED
  BY <1>2, <1>5, <1>6, <1>7, <1>8, <1>9, <1>10 DEF CreateStep

\* Every step of a cancellation is a step of Booking or a stutter.
LEMMA CancelStepSimulated ==
  ASSUME IInv, NEW s \in Slots, CancelStep(s)
  PROVE  [B!Next]_(B!vars)
<1> USE SettleSimulated, ProceedSimulated
<1>1. pc[s] \in CancelPcs => req[s] \in CancelReq
  BY DEF IInv, HandlerInv
<1>2. ASSUME NEW from \in {"find", "update"}, ~Owned(req[s]),
             Settle(s, from, "done", "not_found"),
             UNCHANGED <<rows, today, req, arrived>>
      PROVE  B!Next
  <2>1. B!Decide(s, "not_found") /\ req[s] \in CancelReq
    BY <1>1, <1>2 DEF Settle, CancelPcs
  <2>2. QED
    BY <1>2, <2>1, SameData DEF B!Refuse, B!Next
<1>3. CASE FindActive(s)
  BY <1>2, <1>3 DEF FindActive
<1>4. CASE CheckFoundDate(s)
  <2>1. ASSUME NEW now \in Todays(s), Settle(s, "cancelDate", "done", "in_past"),
               rows[req[s].id].day < now
        PROVE  B!Next
    <3>1. B!Decide(s, "in_past") /\ req[s] \in CancelReq /\ rows[req[s].id] # NoRow
      BY <1>1, <1>4, <2>1 DEF CheckFoundDate, Settle, CancelPcs, IInv, HandlerInv
    <3>2. rows[req[s].id].day < today
      <4>1. rows[req[s].id].day \in Nat
        BY <3>1 DEF IInv, TypeOK, Row, CancelReq
      <4> QED
        BY <2>1, <4>1, TodayIsLate DEF IInv, TypeOK, Days
    <3>3. QED
      BY <1>4, <3>1, <3>2, SameData DEF CheckFoundDate, B!Refuse, B!Next
  <2>2. QED
    BY <1>4, <2>1 DEF CheckFoundDate
<1>5. CASE UpdateStatus(s)
  <2>1. CASE Settle(s, "update", "done", "ok") /\ Owned(req[s]) /\ MarkCancelled(s)
    BY <1>5, <2>1, CancelSimulated DEF UpdateStatus, B!Next
  <2>2. QED
    BY <1>2, <1>5, <2>1 DEF UpdateStatus
<1>6. QED
  BY <1>3, <1>4, <1>5 DEF CancelStep

\* A fault is a stutter, or the step whose answer was lost.
LEMMA FaultSimulated ==
  ASSUME IInv, NEW s \in Slots, Fault(s)
  PROVE  [B!Next]_(B!vars)
<1>1. PICK from \in DbPcs : Settle(s, from, "done", "error")
  BY DEF Fault
<1>2. CASE UNCHANGED rows
  BY <1>1, <1>2, FailSimulated DEF Fault
<1>3. CASE pc[s] = "commit" /\ AddRow(s)
  BY <1>1, <1>3, CommitSimulated DEF Fault, Settle, B!Next
<1>4. CASE pc[s] = "update" /\ Owned(req[s]) /\ MarkCancelled(s)
  BY <1>1, <1>4, CancelSimulated DEF Fault, Settle, B!Next
<1>5. QED
  BY <1>2, <1>3, <1>4 DEF Fault

\* Every step is a step of Booking, or a stutter.
LEMMA NextSimulated == IInv /\ [Next]_vars => [B!Next]_(B!vars)
<1> SUFFICES ASSUME IInv, [Next]_vars PROVE [B!Next]_(B!vars)
  OBVIOUS
<1>1. CASE UNCHANGED vars
  BY <1>1 DEF vars, B!vars
<1>2. CASE NewDay
  BY <1>2 DEF NewDay, B!NewDay, B!Next
<1>3. ASSUME NEW s \in Slots, Receive(s) \/ HandlerStep(s) \/ Fault(s)
      PROVE  [B!Next]_(B!vars)
  BY <1>3, ReceiveSimulated, CreateStepSimulated, CancelStepSimulated,
     FaultSimulated DEF HandlerStep, B!Next
<1>4. QED
  BY <1>1, <1>2, <1>3 DEF Next

\* The endpoints, statement by statement, behave as if every request had been
\* decided atomically: each answer is true at the moment it is settled.
THEOREM Refinement == Spec => ImplementsBooking
<1>1. Init => B!Init
  BY DEF Init, B!Init
<1>2. QED
  BY <1>1, NextSimulated, Invariance, PTL DEF Spec, B!Spec, ImplementsBooking

-----------------------------------------------------------------------------
(* What a step may do to the table *)

\* A row appears or changes only in the step that settles a request for it.
RowsChangeOnRequest ==
  \A i \in Ids : rows'[i] # rows[i] =>
    \E s \in Slots :
      /\ outcome[s] = "pending" /\ outcome'[s] \in {"ok", "error"}
      /\ \/ /\ req[s] \in CreateReq /\ NotPast(req[s].day, arrived[s], today)
            /\ rows[i] = NoRow /\ rows'[i] = NewRow(req[s])
         \/ /\ req[s] \in CancelReq /\ req[s].id = i /\ NotPast(rows[i].day, arrived[s], today)
            /\ ActiveRow(rows[i]) /\ rows[i].user = req[s].user
            /\ rows'[i] = [rows[i] EXCEPT !.status = "cancelled"]

\* Booking writes rows in two of its steps.
LEMMA BookingWrites ==
  ASSUME IInv, [B!Next]_(B!vars)
  PROVE  RowsChangeOnRequest
<1> SUFFICES ASSUME NEW i \in Ids, rows'[i] # rows[i]
             PROVE  \E s \in Slots :
                      /\ outcome[s] = "pending" /\ outcome'[s] \in {"ok", "error"}
                      /\ \/ /\ req[s] \in CreateReq /\ NotPast(req[s].day, arrived[s], today)
                            /\ rows[i] = NoRow /\ rows'[i] = NewRow(req[s])
                         \/ /\ req[s] \in CancelReq /\ req[s].id = i /\ NotPast(rows[i].day, arrived[s], today)
                            /\ ActiveRow(rows[i]) /\ rows[i].user = req[s].user
                            /\ rows'[i] = [rows[i] EXCEPT !.status = "cancelled"]
  BY DEF RowsChangeOnRequest
<1>1. rows \in [Ids -> Row \cup {NoRow}] /\ outcome \in [Slots -> Outcomes]
  BY DEF IInv, TypeOK
<1>2. PICK s \in Slots : B!Reserve(s) \/ B!Cancel(s)
  BY DEF B!Next, B!vars, B!Submit, B!Refuse, B!Fail, B!NewDay, B!Decide
<1>3. outcome[s] = "pending" /\ outcome'[s] \in {"ok", "error"}
  BY <1>1, <1>2 DEF B!Reserve, B!Cancel, B!Decide
<1>4. CASE B!Reserve(s)
  <2>1. PICK k \in Ids : rows[k] = NoRow /\ rows' = [rows EXCEPT ![k] = NewRow(req[s])]
    BY <1>4, SameData DEF B!Reserve
  <2>2. i = k
    BY <1>1, <2>1
  <2>3. req[s] \in CreateReq /\ NotPast(req[s].day, arrived[s], today)
    BY <1>4, SameData, SameCalendar DEF B!Reserve
  <2>4. rows'[i] = NewRow(req[s])
    BY <1>1, <2>1, <2>2
  <2> QED
    BY <1>3, <2>1, <2>2, <2>3, <2>4
<1>5. CASE B!Cancel(s)
  <2>1. /\ req[s] \in CancelReq /\ NotPast(rows[req[s].id].day, arrived[s], today)
        /\ ActiveRow(rows[req[s].id]) /\ rows[req[s].id].user = req[s].user
        /\ rows' = [rows EXCEPT ![req[s].id].status = "cancelled"]
    BY <1>5, SameData, SameCalendar DEF B!Cancel, Owned
  <2>2. req[s].id = i
    BY <1>1, <2>1
  <2>3. rows'[i] = [rows[i] EXCEPT !.status = "cancelled"]
    BY <1>1, <2>1, <2>2
  <2> QED
    BY <1>3, <2>1, <2>2, <2>3
<1> QED
  BY <1>2, <1>4, <1>5

\* The table is a record: no statement removes a row, takes a cancellation back or
\* moves a reservation; a row comes from a create, and is cancelled by its owner, for a
\* day that had not passed when the request arrived, unless a month has ended since.
THEOREM TableIsARecord == Spec => [][RowsChangeOnRequest]_vars
<1>1. IInv /\ [Next]_vars => [RowsChangeOnRequest]_vars
  BY NextSimulated, BookingWrites
<1> QED
  BY <1>1, Invariance, PTL DEF Spec
=============================================================================
