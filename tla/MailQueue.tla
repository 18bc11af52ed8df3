----------------------------- MODULE MailQueue -----------------------------
(***************************************************************************)
(* What the outbox promises to whoever enqueues a mail, without workers,   *)
(* locks, timers or a mail server: a queued mail is taken by one worker at *)
(* a time, in batches; while it is taken it is handed over at most once,   *)
(* and it comes back queued or sent with one more try on its account.  A   *)
(* sent mail is never touched again.  Faults lose mails only by the batch, *)
(* and a mail lost that way stays stranded.                                *)
(***************************************************************************)
EXTENDS Naturals, FiniteSets

CONSTANTS Mails, BatchSize, MaxAttempts, MaxFaults

VARIABLES phase,   \* where each mail is
          tries,   \* the attempts on its account
          copies,  \* copies handed over, by mail
          faults

queue == <<phase, tries, copies, faults>>

Phases == {"absent", "queued", "taken", "sent", "stranded"}

Init ==
  /\ phase = [m \in Mails |-> "absent"]
  /\ tries = [m \in Mails |-> 0]
  /\ copies = [m \in Mails |-> 0]
  /\ faults = 0

Enqueue(m) ==
  /\ phase[m] = "absent"
  /\ phase' = [phase EXCEPT ![m] = "queued"]
  /\ UNCHANGED <<tries, copies, faults>>

Batch(S) == S # {} /\ Cardinality(S) <= BatchSize

Claimed(S, to) ==
  /\ Batch(S)
  /\ \A m \in S : phase[m] = "queued" /\ tries[m] < MaxAttempts
  /\ phase' = [m \in Mails |-> IF m \in S THEN to ELSE phase[m]]

Take(S) == Claimed(S, "taken") /\ UNCHANGED <<tries, copies, faults>>

\* One copy for each try.
HandOver(m) ==
  /\ phase[m] = "taken" /\ copies[m] <= tries[m]
  /\ copies' = [copies EXCEPT ![m] = @ + 1]

Deliver(m) == HandOver(m) /\ UNCHANGED <<phase, tries, faults>>

Return(m) ==
  /\ phase[m] = "taken"
  /\ phase' \in {[phase EXCEPT ![m] = p] : p \in {"queued", "sent"}}
  /\ tries' = [tries EXCEPT ![m] = @ + 1]
  /\ UNCHANGED <<copies, faults>>

-----------------------------------------------------------------------------
OneFault == faults < MaxFaults /\ faults' = faults + 1

\* The worker, or what it was told, is lost, but no mail with it.
Harmless ==
  /\ OneFault
  /\ UNCHANGED <<phase, tries>>
  /\ UNCHANGED copies \/ \E m \in Mails : HandOver(m)

\* Mails claimed for a worker that never hears of it.
LoseClaim(S) == OneFault /\ Claimed(S, "stranded") /\ UNCHANGED <<tries, copies>>

\* A worker gives up its batch: all of it is stranded but the mail it has
\* just recorded, if any.
LoseBatch(S) ==
  /\ OneFault
  /\ Batch(S)
  /\ \A m \in S : phase[m] = "taken"
  /\ \E R \in SUBSET S :
       /\ Cardinality(R) <= 1
       /\ \E p \in {"queued", "sent"} :
            phase' = [m \in Mails |-> IF m \in R THEN p
                                      ELSE IF m \in S THEN "stranded" ELSE phase[m]]
       /\ tries' = [m \in Mails |-> IF m \in R THEN tries[m] + 1 ELSE tries[m]]
  /\ UNCHANGED copies

Next ==
  \/ \E m \in Mails : Enqueue(m) \/ Deliver(m) \/ Return(m)
  \/ \E S \in SUBSET Mails : Take(S) \/ LoseClaim(S) \/ LoseBatch(S)
  \/ Harmless

Spec == Init /\ [][Next]_queue
=============================================================================
