------------------------------ MODULE Booking ------------------------------
(***************************************************************************)
(* What the reservation service promises, with each request decided in one *)
(* atomic step.  A reservation is granted only when neither the desk nor   *)
(* the user has another active one for the day; a refusal is given only    *)
(* when its reason is true at the moment of the decision; a request that   *)
(* fails half-way is reported as an error, whether or not it took effect.  *)
(***************************************************************************)
EXTENDS ReservationData

VARIABLES rows,     \* committed reservations
          today,    \* the day the clock shows
          req,      \* the request each slot serves
          outcome,  \* and what has been decided about it
          arrived   \* the day on which it arrived

vars == <<rows, today, req, outcome, arrived>>

Init ==
  /\ rows = [i \in Ids |-> NoRow]
  /\ today = FirstDay
  /\ req = [s \in Slots |-> NoReq]
  /\ outcome = [s \in Slots |-> "none"]
  /\ arrived = [s \in Slots |-> FirstDay]

Submit(s) ==
  /\ outcome[s] # "pending"
  /\ \E r \in CreateReq \cup CancelReq : req' = [req EXCEPT ![s] = r]
  /\ outcome' = [outcome EXCEPT ![s] = "pending"]
  /\ arrived' = [arrived EXCEPT ![s] = today]
  /\ UNCHANGED <<rows, today>>

Decide(s, o) ==
  /\ outcome[s] = "pending"
  /\ outcome' = [outcome EXCEPT ![s] = o]
  /\ UNCHANGED <<today, req, arrived>>

DeskTaken(r) == \E i \in Ids : ActiveRow(rows[i]) /\ SameDeskDay(rows[i], r)
UserTaken(r) == \E i \in Ids : ActiveRow(rows[i]) /\ SameUserDay(rows[i], r)
Owned(r) == ActiveRow(rows[r.id]) /\ rows[r.id].user = r.user

Reserve(s) ==
  /\ req[s] \in CreateReq
  /\ NotPast(req[s].day, arrived[s], today)
  /\ EffectiveOffice(req[s]) = DeskOffice[req[s].desk]
  /\ ~DeskTaken(req[s]) /\ ~UserTaken(req[s])
  /\ \E o \in {"ok", "error"} : Decide(s, o)
  /\ \E i \in Ids : rows[i] = NoRow /\ rows' = [rows EXCEPT ![i] = NewRow(req[s])]

Cancel(s) ==
  /\ req[s] \in CancelReq
  /\ Owned(req[s])
  /\ NotPast(rows[req[s].id].day, arrived[s], today)
  /\ \E o \in {"ok", "error"} : Decide(s, o)
  /\ rows' = [rows EXCEPT ![req[s].id].status = "cancelled"]

Refuse(s) ==
  /\ \/ req[s] \in CreateReq /\ DeskTaken(req[s]) /\ Decide(s, "desk_conflict")
     \/ req[s] \in CreateReq /\ UserTaken(req[s]) /\ Decide(s, "user_conflict")
     \/ req[s] \in CreateReq /\ req[s].day < today /\ Decide(s, "in_past")
     \/ req[s] \in CancelReq /\ ~Owned(req[s]) /\ Decide(s, "not_found")
     \/ /\ req[s] \in CancelReq /\ rows[req[s].id] # NoRow
        /\ rows[req[s].id].day < today
        /\ Decide(s, "in_past")
  /\ UNCHANGED rows

\* An undecided request, or a refused one whose answer is lost on the way.
Fail(s) ==
  /\ outcome[s] \in {"pending"} \cup Refusals
  /\ outcome' = [outcome EXCEPT ![s] = "error"]
  /\ UNCHANGED <<rows, today, req, arrived>>

NewDay ==
  /\ today < LastDay
  /\ today' = today + 1
  /\ UNCHANGED <<rows, req, outcome, arrived>>

Next ==
  \/ \E s \in Slots : Submit(s) \/ Reserve(s) \/ Cancel(s) \/ Refuse(s) \/ Fail(s)
  \/ NewDay

Spec == Init /\ [][Next]_vars
=============================================================================
