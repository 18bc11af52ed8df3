-------------------------- MODULE ReservationData --------------------------
(***************************************************************************)
(* The data the reservation modules share: the parameters, the rows of the *)
(* table "reservations" and the requests of its HTTP interface.            *)
(*                                                                         *)
(* A row carries what the code and the two partial unique indexes tell     *)
(* apart: owner, desk, day, office and status.  A day is the number of a   *)
(* UTC day (module Calendar).                                              *)
(***************************************************************************)
EXTENDS Calendar, FiniteSets

CONSTANTS Slots,        \* requests the server can have in flight at once
          Users,        \* authenticated users
          Desks,        \* rows of "desks"
          Offices,      \* rows of "offices"
          DeskOffice,   \* desks.office_id
          NoOffice,     \* office_id left out of the request
          OfficeInputs, \* the office_id values the requests carry
          Ids,          \* reservation ids; bounds the rows ever inserted
          FirstDay,     \* the day on which the run begins
          LastDay,      \* bounds the days that pass
          InputDays,    \* the days requests ask for
          NoRow,        \* an id not in use
          NoReq         \* a slot that has not served a request yet

ASSUME DeskOfficeAssumption == DeskOffice \in [Desks -> Offices]
ASSUME OfficeInputsAssumption == OfficeInputs \subseteq Offices \cup {NoOffice}
ASSUME DaysAssumption == FirstDay \in Nat /\ LastDay \in Nat /\ FirstDay <= LastDay
ASSUME NoOfficeAssumption == NoOffice \notin Offices

ASSUME InputDaysAssumption == InputDays \subseteq Nat

\* The days the clock shows.
Days == FirstDay..LastDay

\* "checked_in" and "no_show" are legal in the schema but no code writes them.
Row == [user: Users, desk: Desks, day: InputDays, office: Offices,
        status: {"reserved", "cancelled"}]

ASSUME NoRowAssumption == NoRow \notin Row

\* POST /reservations and DELETE /reservations/:id.
CreateReq == [op: {"create"}, user: Users, desk: Desks, day: InputDays,
              office: OfficeInputs]
CancelReq == [op: {"cancel"}, user: Users, id: Ids]

\* What the client is told.  "error" is any answer that is not one of the
\* handler's own: a lost connection, a failed statement, a raised exception.
Refusals == {"desk_conflict", "user_conflict", "in_past", "not_found"}
Outcomes == {"none", "pending", "ok", "error"} \cup Refusals

SameUserDay(a, b) == a.user = b.user /\ a.day = b.day
SameDeskDay(a, b) == a.desk = b.desk /\ a.day = b.day

\* The predicate of both partial unique indexes and of every lookup.
ActiveRow(row) == row # NoRow /\ row.status = "reserved"

\* What the comparison of a day with "today" ensures for a request that arrived on
\* day from, now that it is day to: the day was not past, unless a month has ended
\* meanwhile, when the "today" put together may be too early (TodayFrom).
NotPast(day, from, to) ==
  day >= from \/ \E t \in from..to : MonthOn(t) # MonthOn(from)

\* office_id after the trigger that runs before each insert.
EffectiveOffice(r) == IF r.office = NoOffice THEN DeskOffice[r.desk] ELSE r.office

NewRow(r) == [user |-> r.user, desk |-> r.desk, day |-> r.day,
              office |-> EffectiveOffice(r), status |-> "reserved"]
=============================================================================
