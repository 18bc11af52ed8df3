---------------------------- MODULE Reservations ----------------------------
(***************************************************************************)
(* The reservation endpoints as they run: CreateReservationHandler inside  *)
(* one READ COMMITTED transaction (BEGIN, two lookups, one INSERT, COMMIT) *)
(* and CancelReservationHandler as two autocommit statements, many         *)
(* requests at once against one PostgreSQL database.                       *)
(*                                                                         *)
(* The INSERT enters its row into ux_res_active_user_day first and into    *)
(* ux_res_active_desk_day second (the order in which the indexes were      *)
(* created).  At each index it waits while a conflicting row of a          *)
(* transaction still in progress is there, and fails when a committed one  *)
(* is.  An uncommitted row is therefore its slot's request, and pc[s] says *)
(* which index entries it holds; rows[] is what is committed.              *)
(***************************************************************************)
EXTENDS ReservationData

VARIABLES rows, today, req, outcome, arrived,
          since,   \* the day on which each slot's handler was last resumed
          pc       \* where it is

vars == <<rows, today, req, outcome, arrived, since, pc>>

\* "date" .. "commit" serve a create, "find" .. "update" a cancel.
CreatePcs == {"date", "desk", "user", "insUser", "insDesk", "commit", "rollback"}
CancelPcs == {"find", "cancelDate", "update"}
Pcs == {"idle", "done"} \cup CreatePcs \cup CancelPcs

\* The pcs at which a statement is under way that the database may fail.
DbPcs == {"desk", "user", "insUser", "insDesk", "commit", "rollback", "find", "update"}

HoldsUserEntry(s) == pc[s] \in {"insDesk", "commit"}

\* Mutant: the lookup of the desk shares its entry, the INSERT needs it alone.
HoldsDeskEntryEarly(s) == pc[s] \in {"insUser", "commit"}

HoldsDeskEntry(s) == pc[s] = "commit"

-----------------------------------------------------------------------------
Init ==
  /\ rows = [i \in Ids |-> NoRow]
  /\ today = FirstDay
  /\ req = [s \in Slots |-> NoReq]
  /\ outcome = [s \in Slots |-> "none"]
  /\ arrived = [s \in Slots |-> FirstDay]
  /\ since = [s \in Slots |-> FirstDay]
  /\ pc = [s \in Slots |-> "idle"]

\* The handler of slot s goes on, or settles what it will answer.
Proceed(s, from, to) ==
  pc[s] = from /\ pc' = [pc EXCEPT ![s] = to] /\ UNCHANGED outcome
Settle(s, from, to, o) ==
  pc[s] = from /\ pc' = [pc EXCEPT ![s] = to] /\ outcome' = [outcome EXCEPT ![s] = o]

\* Every unused id may be needed by a create in flight: Ids bounds the rows.
IdLeft == Cardinality({t \in Slots : pc[t] \in CreatePcs})
            < Cardinality({i \in Ids : rows[i] = NoRow})

Receive(s) ==
  /\ \E from \in {"idle", "done"} :
       \/ /\ Settle(s, from, "date", "pending") /\ IdLeft
          /\ \E r \in CreateReq : req' = [req EXCEPT ![s] = r]
       \/ /\ Settle(s, from, "find", "pending")
          /\ \E r \in CancelReq : req' = [req EXCEPT ![s] = r]
  /\ arrived' = [arrived EXCEPT ![s] = today]
  /\ since' = [since EXCEPT ![s] = today]
  /\ UNCHANGED <<rows, today>>

-----------------------------------------------------------------------------
(* POST /reservations *)

\* isReservationDateInPast reads the clock three times, for the year, the month
\* and the day of the month, and a midnight may fall between two of them.  The
\* step is taken at the last reading; nothing else happens between them.
TodayFrom(y, m, d) == DateUTC(YearOf(y), MonthOf(m), DateOf(d))

Todays(s) == UNION {{TodayFrom(y, m, today) : m \in y..today} : y \in since[s]..today}

\* The date is compared with the clock before the transaction begins.
CheckDate(s) ==
  /\ \E now \in Todays(s) :
       \/ Settle(s, "date", "done", "in_past") /\ req[s].day < now
       \/ Proceed(s, "date", "desk") /\ req[s].day >= now
  /\ UNCHANGED <<rows, today, req, arrived, since>>

\* A lookup sees the rows committed when its statement begins.
DeskTaken(r) == \E i \in Ids : ActiveRow(rows[i]) /\ SameDeskDay(rows[i], r)
UserTaken(r) == \E i \in Ids : ActiveRow(rows[i]) /\ SameUserDay(rows[i], r)

LookUpDesk(s) ==
  /\ \/ Settle(s, "desk", "rollback", "desk_conflict") /\ DeskTaken(req[s])
     \/ Proceed(s, "desk", "user") /\ ~DeskTaken(req[s])
  /\ UNCHANGED <<rows, today, req, arrived, since>>

LookUpUser(s) ==
  /\ \/ Settle(s, "user", "rollback", "user_conflict") /\ UserTaken(req[s])
     \/ Proceed(s, "user", "insUser") /\ ~UserTaken(req[s])
  /\ UNCHANGED <<rows, today, req, arrived, since>>

UserEntryInDoubt(s) ==
  \E t \in Slots \ {s} : HoldsUserEntry(t) /\ SameUserDay(req[t], req[s])

\* Mutant: the index ignores the rows of transactions in progress.
DeskEntryIgnored(s) == FALSE

DeskEntryInDoubt(s) ==
  \E t \in Slots \ {s} : HoldsDeskEntry(t) /\ SameDeskDay(req[t], req[s])

OfficeAgrees(s) == EffectiveOffice(req[s]) = DeskOffice[req[s].desk]

\* INSERT, first half: the office trigger, then the user/day index.
InsertUserEntry(s) ==
  /\ \/ Settle(s, "insUser", "rollback", "error") /\ ~OfficeAgrees(s)
     \/ /\ Settle(s, "insUser", "rollback", "user_conflict")
        /\ OfficeAgrees(s) /\ ~UserEntryInDoubt(s) /\ UserTaken(req[s])
     \/ /\ Proceed(s, "insUser", "insDesk")
        /\ OfficeAgrees(s) /\ ~UserEntryInDoubt(s) /\ ~UserTaken(req[s])
  /\ UNCHANGED <<rows, today, req, arrived, since>>

\* Mutant: ux_res_active_desk_day was never created.
InsertWithoutDeskIndex(s) ==
  /\ Proceed(s, "insDesk", "commit")
  /\ UNCHANGED <<rows, today, req, arrived, since>>

\* INSERT, second half: the desk/day index.  A failed statement aborts the
\* transaction and with it the entry of the first half.
InsertDeskEntry(s) ==
  /\ \/ /\ Settle(s, "insDesk", "rollback", "desk_conflict")
        /\ ~DeskEntryInDoubt(s) /\ DeskTaken(req[s])
     \/ /\ Proceed(s, "insDesk", "commit")
        /\ ~DeskEntryInDoubt(s) /\ ~DeskTaken(req[s])
  /\ UNCHANGED <<rows, today, req, arrived, since>>

AddRow(s) == \E i \in Ids : rows[i] = NoRow /\ rows' = [rows EXCEPT ![i] = NewRow(req[s])]

Commit(s) ==
  /\ Settle(s, "commit", "done", "ok")
  /\ AddRow(s)
  /\ UNCHANGED <<today, req, arrived, since>>

Rollback(s) ==
  /\ Proceed(s, "rollback", "done")
  /\ UNCHANGED <<rows, today, req, arrived, since>>

-----------------------------------------------------------------------------
(* DELETE /reservations/:id *)

\* Mutant: the statements forget "and user_id = $2".
OwnedByAnyone(r) == ActiveRow(rows[r.id])

Owned(r) == ActiveRow(rows[r.id]) /\ rows[r.id].user = r.user

FindActive(s) ==
  /\ \/ Settle(s, "find", "done", "not_found") /\ ~Owned(req[s])
     \/ Proceed(s, "find", "cancelDate") /\ Owned(req[s])
  /\ since' = [since EXCEPT ![s] = today]
  /\ UNCHANGED <<rows, today, req, arrived>>

\* The day read by FindActive; no statement ever changes the day of a row.
CheckFoundDate(s) ==
  /\ \E now \in Todays(s) :
       \/ Settle(s, "cancelDate", "done", "in_past") /\ rows[req[s].id].day < now
       \/ Proceed(s, "cancelDate", "update") /\ rows[req[s].id].day >= now
  /\ UNCHANGED <<rows, today, req, arrived, since>>

MarkCancelled(s) == rows' = [rows EXCEPT ![req[s].id].status = "cancelled"]

\* Mutant: the UPDATE trusts what the lookup found.
UpdateUnguarded(s) ==
  /\ Settle(s, "update", "done", "ok") /\ MarkCancelled(s)
  /\ UNCHANGED <<today, req, arrived, since>>

\* The UPDATE repeats the owner and status tests and reports a row or none.
UpdateStatus(s) ==
  /\ \/ Settle(s, "update", "done", "ok") /\ Owned(req[s]) /\ MarkCancelled(s)
     \/ Settle(s, "update", "done", "not_found") /\ ~Owned(req[s]) /\ UNCHANGED rows
  /\ UNCHANGED <<today, req, arrived, since>>

-----------------------------------------------------------------------------
(* Faults and the clock *)

\* The statement or its answer is lost: the request ends with an error, and
\* a COMMIT or an UPDATE may or may not have taken effect.  A server crash
\* is the fault of every slot.
Fault(s) ==
  /\ \E from \in DbPcs : Settle(s, from, "done", "error")
  /\ \/ UNCHANGED rows
     \/ pc[s] = "commit" /\ AddRow(s)
     \/ pc[s] = "update" /\ Owned(req[s]) /\ MarkCancelled(s)
  /\ UNCHANGED <<today, req, arrived, since>>

NewDay ==
  /\ today < LastDay
  /\ today' = today + 1
  /\ UNCHANGED <<rows, req, outcome, arrived, since, pc>>

-----------------------------------------------------------------------------
CreateStep(s) ==
  \/ CheckDate(s)
  \/ LookUpDesk(s)
  \/ LookUpUser(s)
  \/ InsertUserEntry(s)
  \/ InsertDeskEntry(s)
  \/ Commit(s)
  \/ Rollback(s)

CancelStep(s) ==
  \/ FindActive(s)
  \/ CheckFoundDate(s)
  \/ UpdateStatus(s)

HandlerStep(s) == CreateStep(s) \/ CancelStep(s)

Next ==
  \/ \E s \in Slots : Receive(s) \/ HandlerStep(s) \/ Fault(s)
  \/ NewDay

Spec == Init /\ [][Next]_vars

-----------------------------------------------------------------------------
(* Properties *)

TypeOK ==
  /\ rows \in [Ids -> Row \cup {NoRow}]
  /\ today \in Days
  /\ req \in [Slots -> CreateReq \cup CancelReq \cup {NoReq}]
  /\ outcome \in [Slots -> Outcomes]
  /\ arrived \in [Slots -> Days]
  /\ since \in [Slots -> Days]
  /\ pc \in [Slots -> Pcs]

\* However many creates race between their lookups and their INSERTs, no two
\* committed reservations that are active share a desk and a day, and no user
\* has two for one day (the lookups alone do not ensure it).
NoDoubleBooking ==
  \A i, j \in Ids :
    i # j /\ ActiveRow(rows[i]) /\ ActiveRow(rows[j])
      => ~SameDeskDay(rows[i], rows[j]) /\ ~SameUserDay(rows[i], rows[j])

\* Why it holds: the index entries of transactions in progress exclude each
\* other and every committed active row, so that COMMIT cannot fail.
EntriesExclusive ==
  /\ \A s \in Slots : HoldsUserEntry(s) => ~UserTaken(req[s]) /\ OfficeAgrees(s)
  /\ \A s \in Slots : HoldsDeskEntry(s) => ~DeskTaken(req[s])
  /\ \A s, t \in Slots :
       s # t /\ HoldsUserEntry(s) /\ HoldsUserEntry(t) => ~SameUserDay(req[s], req[t])
  /\ \A s, t \in Slots :
       s # t /\ HoldsDeskEntry(s) /\ HoldsDeskEntry(t) => ~SameDeskDay(req[s], req[t])

\* What each place of a handler knows of its request and of its answer.
HandlerInv ==
  \A s \in Slots :
    /\ pc[s] \in CreatePcs => req[s] \in CreateReq
    /\ pc[s] \in CancelPcs => req[s] \in CancelReq
    /\ pc[s] \in CreatePcs \ {"date", "rollback"} =>
         NotPast(req[s].day, arrived[s], today)
    /\ pc[s] \in {"cancelDate", "update"} => rows[req[s].id] # NoRow
    /\ pc[s] = "update" => NotPast(rows[req[s].id].day, arrived[s], today)
    /\ outcome[s] = "pending" <=> pc[s] \notin {"idle", "done", "rollback"}
    /\ pc[s] = "rollback" => outcome[s] \in {"error"} \cup Refusals
    /\ arrived[s] <= since[s] /\ since[s] <= today

IInv == TypeOK /\ HandlerInv /\ EntriesExclusive /\ NoDoubleBooking

\* Of two DELETEs of one reservation at most one is told that it cancelled it,
\* and then the reservation is cancelled, whatever the others were told.
CancelledOnce ==
  \A s \in Slots :
    pc[s] = "done" /\ outcome[s] = "ok" /\ req[s] \in CancelReq
      => /\ rows[req[s].id].status = "cancelled"
         /\ \A t \in Slots \ {s} :
              pc[t] = "done" /\ outcome[t] = "ok" /\ req[t] \in CancelReq
                => req[t].id # req[s].id

\* A request that waits at an index, and which of the others it waits for.
WaitsFor(s, t) ==
  /\ s # t
  /\ \/ /\ pc[s] = "insUser" /\ OfficeAgrees(s)
        /\ HoldsUserEntry(t) /\ SameUserDay(req[t], req[s])
     \/ /\ pc[s] = "insDesk"
        /\ HoldsDeskEntry(t) /\ SameDeskDay(req[t], req[s])

\* Two INSERTs never wait for each other, nor any number in a circle: every
\* group of requests in which each waits is waiting for one outside the group
\* (it holds because all enter the two indexes in one order).
NoDeadlock ==
  \A G \in SUBSET Slots :
    G # {} /\ (\A s \in G : \E t \in Slots : WaitsFor(s, t))
      => \E s \in G, t \in Slots \ G : WaitsFor(s, t)

\* The atomic service: every answer is justified at the moment the handler
\* settles it, and rows appear and are cancelled as the answers say.
B == INSTANCE Booking
ImplementsBooking == B!Spec
=============================================================================
