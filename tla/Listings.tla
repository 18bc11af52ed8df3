------------------------------ MODULE Listings ------------------------------
(***************************************************************************)
(* The two read endpoints, each one SELECT over the committed rows:        *)
(* GET /reservations/me (PgReservationQueryRepository.listForUser) and     *)
(* GET /desks?date= (PgDeskRepository.listForDate).  A statement sees one  *)
(* snapshot, so that each is an operator over the state; what may go wrong *)
(* is in the join, in the filters and in the row guards, for every state   *)
(* the racing commands of Reservations can produce.                        *)
(***************************************************************************)
EXTENDS Reservations

CONSTANT NamelessDesks  \* the desks whose name is null

ASSUME NamelessDesksAssumption == NamelessDesks \subseteq Desks

-----------------------------------------------------------------------------
(* GET /reservations/me *)

\* Mutant: the list forgets "where r.user_id = $1".
AnyRows(u) == {i \in Ids : rows[i] # NoRow}

\* What the statement returns: it has no condition on the status.
MyRows(u) == {i \in Ids : rows[i] # NoRow /\ rows[i].user = u}

\* isReservationRecordRow wants cancelled_at to be a string or null, and the
\* driver turns the column, a timestamptz, into a Date; and it wants the name of
\* the desk, which the schema does not require, to be a string.
IsRecordRow(row) == row.status # "cancelled" /\ row.desk \notin NamelessDesks

\* toReservationRecordRows leaves out the rows the guard refuses.
MyList(u) == {i \in MyRows(u) : IsRecordRow(rows[i])}

-----------------------------------------------------------------------------
(* GET /desks?date= *)

\* Mutant: the join forgets the condition on the status.
JoinAnyStatus(d, day) ==
  {i \in Ids : rows[i] # NoRow /\ rows[i].desk = d /\ rows[i].day = day}

\* The reservations the left join pairs with a desk.
JoinedRows(d, day) ==
  {i \in Ids : ActiveRow(rows[i]) /\ rows[i].desk = d /\ rows[i].day = day}

\* A desk that no row is paired with appears once, with nulls.
FreeCard(d) == [desk |-> d, isReserved |-> FALSE, isMine |-> FALSE]

Card(d, i, u) ==
  [desk |-> d, isReserved |-> TRUE, isMine |-> rows[i].user = u, reservation |-> i]

DeskCards(d, u, day) ==
  IF JoinedRows(d, day) = {} THEN {FreeCard(d)}
  ELSE {Card(d, i, u) : i \in JoinedRows(d, day)}

DeskList(u, day) == UNION {DeskCards(d, u, day) : d \in Desks}

MineOn(u, day) == {c \in DeskList(u, day) : c.isMine}

-----------------------------------------------------------------------------
(* Properties *)

\* The left join yields one card for each desk: whatever has raced, no desk is
\* shown twice, and nobody sees two desks of one day as his own.
OneCardPerDesk ==
  \A u \in Users, day \in InputDays :
    /\ \A d \in Desks : \E c \in DeskList(u, day) : c.desk = d
    /\ \A c1, c2 \in DeskList(u, day) : c1.desk = c2.desk => c1 = c2
    /\ \A c1, c2 \in MineOn(u, day) : c1 = c2

\* The two lists tell one story: of the desks that have a name, those shown as
\* mine for a day are those of my list for that day; each desk shown as mine,
\* with a name or without, has a reservation that DELETE would find as mine.
ListsAgree ==
  \A u \in Users, day \in InputDays :
    /\ {c.reservation : c \in {c \in MineOn(u, day) : c.desk \notin NamelessDesks}}
         = {i \in MyList(u) : rows[i].day = day}
    /\ \A c \in MineOn(u, day) : Owned([user |-> u, id |-> c.reservation])

\* "cancelled_at": the history of a user shows every reservation, the cancelled
\* ones with the time of their cancellation.
HistoryComplete == \A u \in Users : MyList(u) = MyRows(u)
=============================================================================
