\* A reservation that was cancelled is missing from its user's history.
SPECIFICATION Spec
CONSTANTS
  Slots = {s1}
  Users = {u1, u2}
  Desks = {d1}
  Offices = {o1}
  DeskOffice <- OneOffice
  NoOffice = NoOffice
  OfficeInputs = {NoOffice}
  Ids = {r1, r2}
  FirstDay = 19753
  LastDay = 19753
  InputDays = {19753}
  NamelessDesks = {}
  NoRow = NoRow
  NoReq = NoReq
INVARIANTS
  HistoryComplete
