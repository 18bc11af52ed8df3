------------------------------ MODULE MCServer ------------------------------
(***************************************************************************)
(* A small instance for TLC of three parts that share no state: the rate   *)
(* limiter, the date of a reservation and the migrations.  A behaviour is  *)
(* one of one part, the others stay as they began.                         *)
(***************************************************************************)
EXTENDS RecoveryRateLimiter, ReservationDate, Migrations

VARIABLE part

\* The end of a year, of a February with its 29th and of one without.
SomeDays == 19721..19724 \cup 19780..19783 \cup 19415..19417

\* Dates around those days and around the limits of the calendar's rules.
SomeDates ==
  [year : {1899, 1900, 2000, 2023, 2024, 2100, 2101},
   month : {0, 1, 2, 3, 4, 12, 13},
   day : {0, 1, 2, 28, 29, 30, 31, 32}]

ServerVars == <<part, limiterVars, dateVars, migrationVars>>

ServerInit ==
  /\ Init /\ DateInit /\ MigrateInit
  /\ \/ part \in {"limiter", "migrations"} /\ clock = 19721
     \/ part = "date"

ServerNext ==
  \/ /\ part = "limiter" /\ Next
     /\ UNCHANGED <<part, dateVars, migrationVars>>
  \/ /\ part = "date" /\ DateNext
     /\ UNCHANGED <<part, limiterVars, migrationVars>>
  \/ /\ part = "migrations" /\ MigrateNext
     /\ UNCHANGED <<part, limiterVars, dateVars>>

ServerSpec == ServerInit /\ [][ServerNext]_ServerVars
=============================================================================
