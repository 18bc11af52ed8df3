----------------------------- MODULE MCSessions -----------------------------
(* Small instances of Sessions for TLC. *)
EXTENDS Sessions, TLC

Symmetry == Permutations(Slots) \cup Permutations(Passwords)

\* With every request answered the run may stop; stopping earlier, with a
\* handler waiting for a lock that nobody releases, is reported as a deadlock.
Quiescent ==
  /\ received = MaxRequests
  /\ \A s \in Slots : pc[s] \in {"idle", "done"}
  /\ UNCHANGED vars

MCSpec == Init /\ [][Next \/ Quiescent]_vars
=============================================================================
