\* The rate limiter, the date of a reservation and the migrations, side by side.
SPECIFICATION ServerSpec
CONSTANTS
  Keys = {k1, k2}
  MaxAttempts = 2
  WindowMs = 3
  NoBucket = NoBucket
  LastMs = 8
  MaxRestarts = 1
  Migrators = {m1, m2}
  Files = {1, 2, 3}
  InputDates <- SomeDates
  Clocks <- SomeDays
INVARIANTS
  LimiterInv
  WindowBound
  LockoutEnds
  ValidIffCalendar
  NeverRefusedWrongly
  PastAdmittedOnlyTorn
  MigratedInOrder
  DoneMeansMigrated
