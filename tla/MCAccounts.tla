----------------------------- MODULE MCAccounts -----------------------------
(* Small instances of Accounts for TLC. *)
EXTENDS Accounts, TLC

Symmetry == Permutations(Slots) \cup Permutations(Emails) \cup Permutations(Passwords)
=============================================================================
