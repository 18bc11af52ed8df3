\* Two requests at a time of two users for two desks of one office, and
\* two days of three: the clock shows January 31 and February 1 of 2024, requests
\* are for the day before the two or for the second, so that there are past days and
\* a month ends; any number of faults.
SPECIFICATION Spec
CONSTANTS
  Slots = {s1, s2}
  Users = {u1, u2}
  Desks = {d1, d2}
  Offices = {o1, o2}
  DeskOffice <- OneOffice
  NoOffice = NoOffice
  OfficeInputs = {NoOffice, o2}
  Ids = {r1, r2}
  FirstDay = 19753
  LastDay = 19754
  InputDays = {19752, 19754}
  NamelessDesks = {d2}
  NoRow = NoRow
  NoReq = NoReq
SYMMETRY Symmetry
INVARIANTS
  IInv
  NoDoubleBooking
  CancelledOnce
  NoDeadlock
  OneCardPerDesk
  ListsAgree
PROPERTIES
  ImplementsBooking
