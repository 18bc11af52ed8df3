---------------------------- MODULE EmailOutbox ----------------------------
(***************************************************************************)
(* The table email_outbox and the worker processes that drain it: a claim  *)
(* in one transaction (FOR UPDATE SKIP LOCKED), then, mail by mail, a send *)
(* over SMTP and an autocommit UPDATE that records how it went.            *)
(*                                                                         *)
(* Mail m is the m-th row by created_at.  Time is what the worker sees of  *)
(* it: wait[m] is how long next_retry_at still lies ahead, and Tick lets   *)
(* one unit pass for every row.  A fault is a lost statement, a lost       *)
(* answer or a crash; a send that the mail server refuses is not a fault.  *)
(***************************************************************************)
EXTENDS Integers, FiniteSets

CONSTANTS Workers,      \* worker processes
          MaxMails,     \* bounds the rows ever enqueued
          BatchSize,    \* OUTBOX_BATCH_SIZE
          MaxAttempts,  \* OUTBOX_MAX_ATTEMPTS
          BackoffBase,  \* OUTBOX_BACKOFF_BASE_MS, in ticks
          BackoffMax,   \* OUTBOX_BACKOFF_MAX_MS, in ticks
          EmailModes,   \* the values of EMAIL_MODE considered
          Signalled,    \* the workers that SIGINT or SIGTERM may reach
          MaxFaults     \* bounds the faults

ASSUME SizesAssumption ==
  /\ MaxMails \in Nat \ {0} /\ BatchSize \in Nat \ {0} /\ MaxAttempts \in Nat \ {0}
  /\ BackoffBase \in Nat /\ BackoffMax \in Nat /\ MaxFaults \in Nat
ASSUME ModesAssumption == EmailModes \subseteq {"fake", "smtp"} /\ Signalled \subseteq Workers

Mails == 1..MaxMails
NoMail == 0

VARIABLES status, attempts, wait,  \* the table, by mail
          queued,                  \* rows inserted so far
          deliveries,              \* copies the mail server took, by mail
          pc,                      \* where each worker's loop is
          batch,                   \* rows it has claimed and not yet marked
          cur, try,                \* the row at hand and its nextAttempts
          running,                 \* cleared by a signal
          faults,
          emailMode                \* EMAIL_MODE, fixed by the configuration

table == <<status, attempts, wait, queued>>
vars == <<status, attempts, wait, queued, deliveries, pc, batch, cur, try, running, faults,
          emailMode>>

Statuses == {"absent", "pending", "processing", "sent", "failed"}
Pcs == {"sleep", "claiming", "batch", "sending", "marking", "failing", "down"}

-----------------------------------------------------------------------------
Init ==
  /\ status = [m \in Mails |-> "absent"]
  /\ attempts = [m \in Mails |-> 0]
  /\ wait = [m \in Mails |-> 0]
  /\ queued = 0
  /\ deliveries = [m \in Mails |-> 0]
  /\ pc = [w \in Workers |-> "sleep"]
  /\ batch = [w \in Workers |-> {}]
  /\ cur = [w \in Workers |-> NoMail]
  /\ try = [w \in Workers |-> 0]
  /\ running = [w \in Workers |-> TRUE]
  /\ faults = 0
  /\ emailMode \in EmailModes

\* PgEmailOutbox.enqueue: next_retry_at is now().
Enqueue ==
  /\ queued < MaxMails
  /\ queued' = queued + 1
  /\ status' = [status EXCEPT ![queued + 1] = "pending"]
  /\ UNCHANGED <<attempts, wait, deliveries, pc, batch, cur, try, running, faults, emailMode>>

Tick ==
  /\ \E m \in Mails : wait[m] > 0
  /\ wait' = [m \in Mails |-> IF wait[m] > 0 THEN wait[m] - 1 ELSE 0]
  /\ UNCHANGED <<status, attempts, queued, deliveries, pc, batch, cur, try, running,
                 faults, emailMode>>

PowerOfTwo[n \in 0..MaxAttempts] == IF n = 0 THEN 1 ELSE 2 * PowerOfTwo[n - 1]

\* computeBackoffMs; attempts is never 0 when it is called.
Backoff(n) ==
  LET delay == BackoffBase * PowerOfTwo[IF n > 0 THEN n - 1 ELSE 0]
  IN  IF delay < BackoffMax THEN delay ELSE BackoffMax

-----------------------------------------------------------------------------
(* claimBatch *)

\* Mutant: no SKIP LOCKED, and no waiting either.
LockedIgnored == {}

\* Rows locked by a claim still in progress are skipped.
Locked == UNION {batch[v] : v \in {u \in Workers : pc[u] = "claiming"}}

\* Mutant: the claim forgets to bound the attempts.
ClaimableForEver ==
  {m \in Mails : status[m] \in {"pending", "failed"} /\ wait[m] = 0 /\ m \notin Locked}

\* Mutant: the claim takes rows that another worker is processing.
ClaimableProcessing ==
  {m \in Mails : /\ status[m] \in {"pending", "failed", "processing"}
                 /\ wait[m] = 0 /\ attempts[m] < MaxAttempts /\ m \notin Locked}

\* Mutant: the claim takes new rows only.
ClaimableOnce ==
  {m \in Mails : status[m] = "pending" /\ wait[m] = 0 /\ m \notin Locked}

Claimable ==
  {m \in Mails : /\ status[m] \in {"pending", "failed"}
                 /\ wait[m] = 0
                 /\ attempts[m] < MaxAttempts
                 /\ m \notin Locked}

\* The first BatchSize rows of S by created_at.
Oldest(S) == {m \in S : Cardinality({n \in S : n < m}) < BatchSize}

\* A poll that finds nothing goes back to sleep and changes nothing.
ClaimSelect(w) ==
  /\ pc[w] = "sleep" /\ running[w]
  /\ Claimable # {}
  /\ batch' = [batch EXCEPT ![w] = Oldest(Claimable)]
  /\ pc' = [pc EXCEPT ![w] = "claiming"]
  /\ UNCHANGED <<table, deliveries, cur, try, running, faults, emailMode>>

MarkProcessing(w) ==
  /\ status' = [m \in Mails |-> IF m \in batch[w] THEN "processing" ELSE status[m]]
  /\ wait' = [m \in Mails |-> IF m \in batch[w] THEN 0 ELSE wait[m]]

\* The worker forgets its batch and its place in it.
Abandon(w, to) ==
  /\ batch' = [batch EXCEPT ![w] = {}]
  /\ cur' = [cur EXCEPT ![w] = NoMail]
  /\ try' = [try EXCEPT ![w] = 0]
  /\ pc' = [pc EXCEPT ![w] = to]

ClaimCommit(w) ==
  /\ pc[w] = "claiming"
  /\ MarkProcessing(w)
  /\ pc' = [pc EXCEPT ![w] = "batch"]
  /\ UNCHANGED <<attempts, queued, deliveries, batch, cur, try, running, faults, emailMode>>

-----------------------------------------------------------------------------
(* processBatch and processOne *)

\* RETURNING promises no order: the batch is worked off in any.
TakeRow(w) ==
  /\ pc[w] = "batch"
  /\ \E m \in batch[w] : /\ cur' = [cur EXCEPT ![w] = m]
                         /\ try' = [try EXCEPT ![w] = attempts[m] + 1]
  /\ pc' = [pc EXCEPT ![w] = IF emailMode = "fake" THEN "marking" ELSE "sending"]
  /\ UNCHANGED <<table, deliveries, batch, running, faults, emailMode>>

\* Mutant: the promise of sendEmail is not awaited.
SendUnawaited(w) ==
  /\ pc[w] = "sending"
  /\ deliveries' \in {deliveries, [deliveries EXCEPT ![cur[w]] = @ + 1]}
  /\ pc' = [pc EXCEPT ![w] = "marking"]
  /\ UNCHANGED <<table, batch, cur, try, running, faults, emailMode>>

Send(w) ==
  /\ pc[w] = "sending"
  /\ \/ /\ deliveries' = [deliveries EXCEPT ![cur[w]] = @ + 1]
        /\ pc' = [pc EXCEPT ![w] = "marking"]
     \/ /\ pc' = [pc EXCEPT ![w] = "failing"]
        /\ UNCHANGED deliveries
  /\ UNCHANGED <<table, batch, cur, try, running, faults, emailMode>>

\* Mutant: markSent forgets "attempts = $2".
RecordSentUncounted(w) ==
  /\ status' = [status EXCEPT ![cur[w]] = "sent"]
  /\ UNCHANGED <<attempts, wait, queued>>

\* The UPDATEs of markSent and markFailed test nothing but the id.
RecordSent(w) ==
  /\ status' = [status EXCEPT ![cur[w]] = "sent"]
  /\ attempts' = [attempts EXCEPT ![cur[w]] = try[w]]
  /\ UNCHANGED <<wait, queued>>

\* Mutant: markFailed forgets "attempts = $2".
RecordFailedUncounted(w) ==
  /\ status' = [status EXCEPT ![cur[w]] = "failed"]
  /\ wait' = [wait EXCEPT ![cur[w]] = Backoff(try[w])]
  /\ UNCHANGED <<attempts, queued>>

RecordFailed(w) ==
  /\ status' = [status EXCEPT ![cur[w]] = "failed"]
  /\ attempts' = [attempts EXCEPT ![cur[w]] = try[w]]
  /\ wait' = [wait EXCEPT ![cur[w]] = Backoff(try[w])]
  /\ UNCHANGED queued

Drop(w) ==
  /\ batch' = [batch EXCEPT ![w] = @ \ {cur[w]}]
  /\ cur' = [cur EXCEPT ![w] = NoMail]
  /\ try' = [try EXCEPT ![w] = 0]

Mark(w) ==
  /\ \/ pc[w] = "marking" /\ RecordSent(w)
     \/ pc[w] = "failing" /\ RecordFailed(w)
  /\ Drop(w)
  /\ pc' = [pc EXCEPT ![w] = "batch"]
  /\ UNCHANGED <<deliveries, running, faults, emailMode>>

\* The end of the batch, and of the loop once a signal has cleared running.
EndBatch(w) ==
  /\ pc[w] = "batch" /\ batch[w] = {}
  /\ pc' = [pc EXCEPT ![w] = "sleep"]
  /\ UNCHANGED <<table, deliveries, batch, cur, try, running, faults, emailMode>>

\* Mutant: the signal ends the process at once.
ExitAtOnce(w) ==
  /\ pc[w] # "down" /\ ~running[w]
  /\ Abandon(w, "down")
  /\ UNCHANGED <<table, deliveries, running, faults, emailMode>>

Exit(w) ==
  /\ pc[w] = "sleep" /\ ~running[w]
  /\ pc' = [pc EXCEPT ![w] = "down"]
  /\ UNCHANGED <<table, deliveries, batch, cur, try, running, faults, emailMode>>

-----------------------------------------------------------------------------
(* Signals, faults and restarts *)

Signal(w) ==
  /\ w \in Signalled /\ pc[w] # "down" /\ running[w]
  /\ running' = [running EXCEPT ![w] = FALSE]
  /\ UNCHANGED <<table, deliveries, pc, batch, cur, try, faults, emailMode>>

OneFault == faults < MaxFaults /\ faults' = faults + 1

\* The claim fails and is rolled back, or commits and the answer is lost.
ClaimLost(w) ==
  /\ OneFault
  /\ pc[w] = "claiming"
  /\ \/ UNCHANGED <<status, wait>>
     \/ MarkProcessing(w)
  /\ Abandon(w, "sleep")
  /\ UNCHANGED <<attempts, queued, deliveries, running, emailMode>>

\* The mail server takes the mail and the worker does not hear of it.
SendAnswerLost(w) ==
  /\ OneFault
  /\ pc[w] = "sending"
  /\ deliveries' = [deliveries EXCEPT ![cur[w]] = @ + 1]
  /\ pc' = [pc EXCEPT ![w] = "failing"]
  /\ UNCHANGED <<table, batch, cur, try, running, emailMode>>

\* markSent throws, applied or not: processBatch calls markFailed.
MarkSentLost(w) ==
  /\ OneFault
  /\ pc[w] = "marking"
  /\ RecordSent(w) \/ UNCHANGED table
  /\ pc' = [pc EXCEPT ![w] = "failing"]
  /\ UNCHANGED <<deliveries, batch, cur, try, running, emailMode>>

\* markFailed throws, applied or not: the rest of the batch is given up.
MarkFailedLost(w) ==
  /\ OneFault
  /\ pc[w] = "failing"
  /\ RecordFailed(w) \/ UNCHANGED table
  /\ Abandon(w, "sleep")
  /\ UNCHANGED <<deliveries, running, emailMode>>

\* A crash at any point; the database rolls back an open claim.
Crash(w) ==
  /\ OneFault
  /\ pc[w] # "down"
  /\ Abandon(w, "down")
  /\ UNCHANGED <<table, deliveries, running, emailMode>>

Restart(w) ==
  /\ pc[w] = "down"
  /\ pc' = [pc EXCEPT ![w] = "sleep"]
  /\ running' = [running EXCEPT ![w] = TRUE]
  /\ UNCHANGED <<table, deliveries, batch, cur, try, faults, emailMode>>

-----------------------------------------------------------------------------
Work(w) ==
  \/ ClaimSelect(w)
  \/ ClaimCommit(w)
  \/ TakeRow(w)
  \/ Send(w)
  \/ Mark(w)
  \/ EndBatch(w)
  \/ Exit(w)

Trouble(w) ==
  \/ Signal(w)
  \/ ClaimLost(w)
  \/ SendAnswerLost(w)
  \/ MarkSentLost(w)
  \/ MarkFailedLost(w)
  \/ Crash(w)

Next ==
  \/ Enqueue
  \/ Tick
  \/ \E w \in Workers : Work(w) \/ Trouble(w) \/ Restart(w)

Spec == Init /\ [][Next]_vars

\* A worker's loop goes on while the process runs, and time passes.
Fairness ==
  /\ WF_vars(Tick)
  /\ \A w \in Workers : WF_vars(Work(w))
FairSpec == Spec /\ Fairness

\* Moreover somebody starts every worker that has gone down again.
RestartSpec == FairSpec /\ \A w \in Workers : WF_vars(Restart(w))

-----------------------------------------------------------------------------
(* Properties *)

TypeOK ==
  /\ status \in [Mails -> Statuses]
  /\ attempts \in [Mails -> 0..MaxAttempts]
  /\ wait \in [Mails -> Nat]
  /\ queued \in 0..MaxMails
  /\ deliveries \in [Mails -> Nat]
  /\ pc \in [Workers -> Pcs]
  /\ batch \in [Workers -> SUBSET Mails]
  /\ cur \in [Workers -> Mails \cup {NoMail}]
  /\ try \in [Workers -> 0..MaxAttempts]
  /\ running \in [Workers -> BOOLEAN]
  /\ faults \in 0..MaxFaults
  /\ emailMode \in EmailModes

\* Two workers never have one row in hand, and a claimed row stays marked
\* "processing" until its own worker marks it, although the marks themselves
\* test nothing but the id.
OneOwner ==
  /\ \A v, w \in Workers : v # w => batch[v] \cap batch[w] = {}
  /\ \A w \in Workers : pc[w] \in {"batch", "sending", "marking"} =>
       \A m \in batch[w] : status[m] = "processing"

\* However often sends fail and workers crash, the mail server is never handed
\* a mail more than MaxAttempts times, and each handing-over but the one under
\* way is accounted for in attempts.
AttemptsBoundDeliveries ==
  \A m \in Mails :
    /\ deliveries[m] <= MaxAttempts
    /\ deliveries[m] > attempts[m] => status[m] = "processing"

\* The copies of a mail that were followed by another one.
Surplus == UNION {{m} \X (1..(deliveries[m] - 1)) : m \in Mails}

\* A recipient gets a second copy only through a lost answer: the surplus
\* copies over all mails are at most the faults that happened.
DuplicatesBounded == Cardinality(Surplus) <= faults

\* A row marked "processing" that no worker works on any more.
Stranded == {m \in Mails : status[m] = "processing" /\ \A w \in Workers : m \notin batch[w]}

\* Only faults strand rows, each at most one batch: a signal strands none.
StrandedBounded == Cardinality(Stranded) <= faults * BatchSize

\* "Sent" is written for a mail the mail server took, and for no other; in fake
\* mode, for mails that never leave.
SentWasDelivered ==
  \A m \in Mails : status[m] = "sent" => (deliveries[m] > 0 <=> emailMode = "smtp")

Settled(m) == status[m] = "sent" \/ (status[m] = "failed" /\ attempts[m] = MaxAttempts)

\* Every mail enqueued ends as sent or has used up its attempts, whatever the
\* mail server refuses: no mail starves behind the retries of others.  Only a
\* fault can make an exception of it, and no mail but those it strands, as long
\* as some worker is left.
EveryMailSettled ==
  \A m \in Mails :
    status[m] # "absent"
      ~> Settled(m) \/ m \in Stranded \/ \A w \in Workers : pc[w] = "down"

InHand(m) == \E w \in Workers : pc[w] # "claiming" /\ m \in batch[w]

\* A mail is taken from the COMMIT of its claim until its worker lets go of it,
\* whatever its row says meanwhile (markSent may have been applied unheard).
PhaseOf(m) ==
  CASE InHand(m) -> "taken"
    [] ~InHand(m) /\ status[m] = "processing" -> "stranded"
    [] ~InHand(m) /\ status[m] \in {"pending", "failed"} -> "queued"
    [] ~InHand(m) /\ status[m] \in {"absent", "sent"} -> status[m]
MailPhase == [m \in Mails |-> PhaseOf(m)]

\* A try counts once the worker lets go.
MailTries ==
  [m \in Mails |-> IF InHand(m) /\ status[m] # "processing" THEN attempts[m] - 1 ELSE attempts[m]]

Queue == INSTANCE MailQueue WITH phase <- MailPhase, tries <- MailTries, copies <- deliveries

\* The outbox is a queue from which each mail is taken by one worker at a time,
\* handed over at most once per try and never again once it is sent; a fault
\* loses at most one batch, and nothing takes a lost mail up again.
ImplementsMailQueue == Queue!Spec

\* "A worker processes the queue and retries": nothing stays in the queue for
\* ever when every worker that goes down is started again.
RetriedAfterFault == \A m \in Mails : status[m] # "absent" ~> Settled(m)
=============================================================================
