-------------------------- MODULE MCReservations --------------------------
(* Small instances of Reservations and Listings for TLC. *)
EXTENDS Listings, TLC

\* Every desk in one office.
OneOffice == [d \in Desks |-> CHOOSE o \in Offices : TRUE]

\* Users, ids and slots are interchangeable; desks are not, one may lack a name.
Symmetry == Permutations(Users) \cup Permutations(Ids) \cup Permutations(Slots)
=============================================================================
