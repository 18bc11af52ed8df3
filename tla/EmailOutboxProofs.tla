------------------------- MODULE EmailOutboxProofs -------------------------
(***************************************************************************)
(* Ownership, the bound on deliveries and the truth of "sent", what the    *)
(* faults cost, and the queue that table and workers implement, for any    *)
(* number of workers, mails, attempts and faults. OutboxInv says what the  *)
(* rows in each worker's batch look like at each place of its loop; a step *)
(* of a worker touches its own rows only. FaultInv counts: a fault strands *)
(* one batch at most and hides one delivery at most. wait, which only      *)
(* delays claims, has a part in the types alone.                           *)
(***************************************************************************)
EXTENDS EmailOutbox, FiniteSetTheorems, TLAPS

Types ==
  /\ status \in [Mails -> Statuses]
  /\ attempts \in [Mails -> 0..MaxAttempts]
  /\ queued \in 0..MaxMails
  /\ deliveries \in [Mails -> Nat]
  /\ pc \in [Workers -> Pcs]
  /\ batch \in [Workers -> SUBSET Mails]
  /\ cur \in [Workers -> Mails \cup {NoMail}]
  /\ try \in [Workers -> 0..MaxAttempts]
  /\ emailMode \in {"fake", "smtp"}

\* A row in the hands of a worker that has not come to it yet.
Waiting(m) == attempts[m] < MaxAttempts /\ deliveries[m] <= attempts[m]
Open(m) == status[m] = "processing" /\ Waiting(m)

AtMail == {"sending", "marking", "failing"}

\* The row at hand.
CurInv(w) ==
  /\ cur[w] \in batch[w]
  /\ try[w] \in 1..MaxAttempts
  /\ pc[w] = "sending" =>
       Open(cur[w]) /\ attempts[cur[w]] = try[w] - 1 /\ emailMode = "smtp"
  /\ pc[w] = "marking" =>
       /\ status[cur[w]] = "processing" /\ attempts[cur[w]] = try[w] - 1
       /\ deliveries[cur[w]] <= try[w]
       /\ emailMode = "smtp" => deliveries[cur[w]] > 0
  /\ pc[w] = "failing" =>
       /\ deliveries[cur[w]] <= try[w]
       /\ \/ status[cur[w]] = "processing" /\ attempts[cur[w]] = try[w] - 1
          \/ status[cur[w]] = "sent" /\ attempts[cur[w]] = try[w]

WorkerInv(w) ==
  /\ pc[w] \in {"sleep", "down"} => batch[w] = {}
  /\ pc[w] = "claiming" =>
       \A m \in batch[w] : status[m] \in {"pending", "failed"} /\ Waiting(m)
  /\ pc[w] = "batch" => \A m \in batch[w] : Open(m)
  /\ pc[w] \in AtMail => CurInv(w) /\ \A m \in batch[w] \ {cur[w]} : Open(m)

MailInv(m) ==
  /\ m > queued => status[m] = "absent"
  /\ status[m] = "processing" => attempts[m] < MaxAttempts /\ deliveries[m] <= attempts[m] + 1
  /\ status[m] # "processing" => deliveries[m] <= attempts[m]
  /\ emailMode = "fake" => deliveries[m] = 0
  /\ status[m] = "sent" /\ emailMode = "smtp" => deliveries[m] > 0

Exclusive == \A v, w \in Workers : v # w => batch[v] \cap batch[w] = {}

OutboxInv ==
  /\ Types
  /\ \A w \in Workers : WorkerInv(w)
  /\ \A m \in Mails : MailInv(m)
  /\ Exclusive

\* The copy that a mail is due in any case: its worker has heard of it, or its
\* row says so.
Settling(m) ==
  \/ \E w \in Workers : pc[w] = "marking" /\ cur[w] = m
  \/ status[m] = "sent" /\ ~ \E w \in Workers : pc[w] = "failing" /\ cur[w] = m

\* The copies that somebody who counts would put down to a fault.
Unheard(m) == IF Settling(m) THEN deliveries[m] - 1 ELSE deliveries[m]
UnheardCopies == {c \in Mails \X (1..MaxAttempts) : c[2] <= Unheard(c[1])}

\* What a fault may cost: one batch and one copy.
FaultInv ==
  /\ faults \in 0..MaxFaults
  /\ \A w \in Workers : Cardinality(batch[w]) <= BatchSize
  /\ Cardinality(Stranded) <= faults * BatchSize
  /\ Cardinality(UnheardCopies) <= faults

USE SizesAssumption

-----------------------------------------------------------------------------
\* An empty outbox and idle workers.
LEMMA InitOutbox == Init => OutboxInv
<1> SUFFICES ASSUME Init PROVE OutboxInv
  OBVIOUS
<1>1. Types
  BY ModesAssumption DEF Init, Types, Statuses, Pcs
<1>2. \A w \in Workers : WorkerInv(w)
  BY DEF Init, WorkerInv, AtMail
<1>3. \A m \in Mails : MailInv(m)
  BY DEF Init, MailInv
<1>4. Exclusive
  BY DEF Init, Exclusive
<1> QED
  BY <1>1, <1>2, <1>3, <1>4 DEF OutboxInv

\* A worker that changes nothing but its own place and the rows of its batch
\* has to answer for nothing else.
LEMMA OwnRowsOnly ==
  ASSUME OutboxInv, NEW w \in Workers, Types',
         UNCHANGED <<queued, emailMode>>,
         \A v \in Workers \ {w} : /\ pc'[v] = pc[v] /\ batch'[v] = batch[v]
                                  /\ cur'[v] = cur[v] /\ try'[v] = try[v],
         batch'[w] \subseteq batch[w],
         \A m \in Mails \ batch[w] : /\ status'[m] = status[m] /\ attempts'[m] = attempts[m]
                                     /\ deliveries'[m] = deliveries[m],
         WorkerInv(w)',
         \A m \in batch[w] : MailInv(m)'
  PROVE  OutboxInv'
<1>1. ASSUME NEW v \in Workers PROVE WorkerInv(v)'
  <2>1. CASE v = w
    BY <2>1
  <2>2. CASE v # w
    <3>1. \A m \in batch[v] : m \in Mails \ batch[w]
      BY <2>2 DEF OutboxInv, Exclusive, Types
    <3>2. \A m \in batch[v] : /\ status'[m] = status[m] /\ attempts'[m] = attempts[m]
                              /\ deliveries'[m] = deliveries[m]
      BY <3>1
    <3>3. /\ pc'[v] = pc[v] /\ batch'[v] = batch[v] /\ cur'[v] = cur[v] /\ try'[v] = try[v]
          /\ emailMode' = emailMode
      BY <2>2
    <3>4. WorkerInv(v)
      BY DEF OutboxInv
    <3>5. pc[v] \in AtMail => CurInv(v)'
      BY <3>2, <3>3, <3>4 DEF WorkerInv, CurInv, Open, Waiting
    <3> QED
      BY <3>2, <3>3, <3>4, <3>5 DEF WorkerInv, Open, Waiting
  <2> QED
    BY <2>1, <2>2
<1>2. ASSUME NEW m \in Mails PROVE MailInv(m)'
  <2>1. CASE m \in batch[w]
    BY <2>1
  <2>2. CASE m \notin batch[w]
    BY <2>2 DEF OutboxInv, MailInv
  <2> QED
    BY <2>1, <2>2
<1>3. Exclusive'
  BY DEF OutboxInv, Exclusive
<1> QED
  BY <1>1, <1>2, <1>3 DEF OutboxInv

\* A step that moves the worker's place and no row.
LEMMA PlaceOnly ==
  ASSUME OutboxInv, NEW w \in Workers, NEW to \in Pcs,
         pc' = [pc EXCEPT ![w] = to],
         cur' \in [Workers -> Mails \cup {NoMail}], try' \in [Workers -> 0..MaxAttempts],
         \A v \in Workers \ {w} : cur'[v] = cur[v] /\ try'[v] = try[v],
         UNCHANGED <<status, attempts, queued, deliveries, batch, emailMode>>,
         WorkerInv(w)'
  PROVE  OutboxInv'
<1>1. Types'
  BY DEF OutboxInv, Types
<1>2. \A m \in batch[w] : MailInv(m)'
  BY DEF OutboxInv, Types, MailInv
<1> QED
  BY <1>1, <1>2, OwnRowsOnly DEF OutboxInv, Types

\* A worker that gives up its batch leaves no trace but in the rows.
LEMMA GivenUp ==
  ASSUME OutboxInv, NEW w \in Workers, NEW to \in {"sleep", "down"}, Abandon(w, to),
         UNCHANGED <<queued, emailMode>>,
         status' \in [Mails -> Statuses], attempts' \in [Mails -> 0..MaxAttempts],
         deliveries' \in [Mails -> Nat],
         \A m \in Mails \ batch[w] : /\ status'[m] = status[m] /\ attempts'[m] = attempts[m]
                                     /\ deliveries'[m] = deliveries[m],
         \A m \in batch[w] : MailInv(m)'
  PROVE  OutboxInv'
<1>1. Types'
  BY DEF OutboxInv, Types, Abandon, Pcs
<1>2. WorkerInv(w)'
  BY DEF OutboxInv, Types, Abandon, WorkerInv, AtMail
<1> QED
  BY <1>1, <1>2, OwnRowsOnly DEF OutboxInv, Types, Abandon

-----------------------------------------------------------------------------
\* A new row is pending and in nobody's hands.
LEMMA EnqueueOutbox == ASSUME OutboxInv, Enqueue PROVE OutboxInv'
<1> DEFINE n == queued + 1
<1>1. n \in Mails /\ n \in Nat /\ queued \in Nat
  BY DEF OutboxInv, Types, Enqueue, Mails
<1>2. status[n] = "absent"
  BY <1>1 DEF OutboxInv, MailInv
<1>3. Types'
  BY <1>1 DEF OutboxInv, Types, Enqueue, Mails, Statuses
<1>4. ASSUME NEW w \in Workers PROVE WorkerInv(w)'
  <2>1. WorkerInv(w) /\ pc[w] \in Pcs /\ batch[w] \subseteq Mails
    BY DEF OutboxInv, Types
  <2>2. n \notin batch[w]
    BY <1>2, <2>1 DEF WorkerInv, CurInv, Open, AtMail, Pcs
  <2>3. \A m \in batch[w] : status'[m] = status[m]
    BY <2>1, <2>2 DEF OutboxInv, Types, Enqueue
  <2>4. pc[w] \in AtMail => CurInv(w)'
    BY <2>1, <2>3 DEF Enqueue, WorkerInv, CurInv, Open, Waiting
  <2> QED
    BY <2>1, <2>3, <2>4 DEF Enqueue, WorkerInv, Open, Waiting
<1>5. ASSUME NEW m \in Mails PROVE MailInv(m)'
  <2>1. CASE m = n
    BY <1>1, <1>2, <2>1 DEF OutboxInv, Types, MailInv, Enqueue, Mails
  <2>2. CASE m # n
    BY <1>1, <2>2 DEF OutboxInv, Types, MailInv, Enqueue, Mails
  <2> QED
    BY <2>1, <2>2
<1>6. Exclusive'
  BY DEF OutboxInv, Exclusive, Enqueue
<1> QED
  BY <1>3, <1>4, <1>5, <1>6 DEF OutboxInv

\* FOR UPDATE SKIP LOCKED: what is claimed is in no other hands.
LEMMA ClaimSelectOutbox ==
  ASSUME OutboxInv, NEW w \in Workers, ClaimSelect(w)
  PROVE  OutboxInv'
<1> DEFINE S == Oldest(Claimable)
<1>1. S \subseteq Claimable /\ Claimable \subseteq Mails
  BY DEF Oldest, Claimable
<1>2. batch' = [batch EXCEPT ![w] = S] /\ pc' = [pc EXCEPT ![w] = "claiming"]
      /\ UNCHANGED <<status, attempts, queued, deliveries, cur, try, emailMode>>
  BY DEF ClaimSelect, table
<1> HIDE DEF S
<1>3. \A m \in S : status[m] \in {"pending", "failed"} /\ Waiting(m) /\ m \notin Locked
  <2> SUFFICES ASSUME NEW m \in S
               PROVE  status[m] \in {"pending", "failed"} /\ Waiting(m) /\ m \notin Locked
    OBVIOUS
  <2>1. m \in Mails /\ status[m] \in {"pending", "failed"} /\ attempts[m] < MaxAttempts
        /\ m \notin Locked
    BY <1>1 DEF Claimable
  <2>2. deliveries[m] <= attempts[m]
    BY <2>1 DEF OutboxInv, MailInv
  <2> QED
    BY <2>1, <2>2 DEF Waiting
<1>4. ASSUME NEW v \in Workers, v # w PROVE batch[v] \cap S = {}
  <2> SUFFICES ASSUME NEW m \in S, m \in batch[v] PROVE FALSE
    OBVIOUS
  <2>1. status[m] \in {"pending", "failed"} /\ m \notin Locked
    BY <1>3
  <2>2. pc[v] # "claiming"
    BY <2>1 DEF Locked
  <2>3. WorkerInv(v) /\ pc[v] \in Pcs
    BY DEF OutboxInv, Types
  <2> QED
    BY <2>1, <2>2, <2>3 DEF WorkerInv, CurInv, Open, AtMail, Pcs
<1>5. Types'
  BY <1>1, <1>2 DEF OutboxInv, Types, Pcs, S
<1>6. ASSUME NEW v \in Workers PROVE WorkerInv(v)'
  <2>1. CASE v = w
    <3>1. pc'[w] = "claiming" /\ batch'[w] = S
      BY <1>2 DEF OutboxInv, Types
    <3> QED
      BY <1>2, <1>3, <2>1, <3>1 DEF WorkerInv, Waiting, AtMail
  <2>2. CASE v # w
    <3>1. WorkerInv(v) /\ pc'[v] = pc[v] /\ batch'[v] = batch[v]
      BY <1>2, <2>2 DEF OutboxInv, Types
    <3> QED
      BY <1>2, <3>1 DEF WorkerInv, CurInv, Open, Waiting
  <2> QED
    BY <2>1, <2>2
<1>7. \A m \in Mails : MailInv(m)'
  BY <1>2 DEF OutboxInv, MailInv
<1>8. Exclusive'
  BY <1>2, <1>4 DEF OutboxInv, Types, Exclusive
<1> QED
  BY <1>5, <1>6, <1>7, <1>8 DEF OutboxInv

\* The rows of a claim, once it is committed.
LEMMA MarkedRows ==
  ASSUME OutboxInv, NEW w \in Workers, pc[w] = "claiming", MarkProcessing(w),
         UNCHANGED <<attempts, queued, deliveries, emailMode>>
  PROVE  /\ status' \in [Mails -> Statuses]
         /\ \A m \in Mails \ batch[w] : status'[m] = status[m]
         /\ \A m \in batch[w] : Open(m)' /\ MailInv(m)'
<1>1. batch[w] \subseteq Mails /\ \A m \in batch[w] :
        status[m] \in {"pending", "failed"} /\ Waiting(m) /\ MailInv(m)
  BY DEF OutboxInv, Types, WorkerInv
<1>2. status' \in [Mails -> Statuses] /\ \A m \in Mails \ batch[w] : status'[m] = status[m]
  BY DEF OutboxInv, Types, MarkProcessing, Statuses
<1>3. ASSUME NEW m \in batch[w] PROVE Open(m)' /\ MailInv(m)'
  <2>1. status'[m] = "processing"
    BY <1>1, <1>3 DEF MarkProcessing
  <2>2. attempts[m] \in Nat /\ deliveries[m] \in Nat /\ m \in Nat /\ queued \in Nat
    BY <1>1, <1>3 DEF OutboxInv, Types, Mails
  <2> QED
    BY <1>1, <1>3, <2>1, <2>2 DEF Open, Waiting, MailInv
<1> QED
  BY <1>2, <1>3

\* The claim commits: the batch is in the worker's memory.
LEMMA ClaimCommitOutbox ==
  ASSUME OutboxInv, NEW w \in Workers, ClaimCommit(w)
  PROVE  OutboxInv'
<1>1. /\ status' \in [Mails -> Statuses]
      /\ \A m \in Mails \ batch[w] : status'[m] = status[m]
      /\ \A m \in batch[w] : Open(m)' /\ MailInv(m)'
  BY MarkedRows DEF ClaimCommit
<1>2. Types'
  BY <1>1 DEF OutboxInv, Types, ClaimCommit, Pcs
<1>3. pc'[w] = "batch" /\ batch'[w] = batch[w]
  BY DEF OutboxInv, Types, ClaimCommit
<1>4. WorkerInv(w)'
  BY <1>1, <1>3 DEF WorkerInv, AtMail
<1> QED
  BY <1>1, <1>2, <1>4, OwnRowsOnly DEF OutboxInv, Types, ClaimCommit

\* The next row of the batch, in the order it was claimed.
LEMMA TakeRowOutbox ==
  ASSUME OutboxInv, NEW w \in Workers, TakeRow(w)
  PROVE  OutboxInv'
<1>1. PICK m \in batch[w] : /\ cur' = [cur EXCEPT ![w] = m]
                            /\ try' = [try EXCEPT ![w] = attempts[m] + 1]
  BY DEF TakeRow
<1>2. m \in Mails /\ Open(m) /\ attempts[m] \in Nat /\ attempts[m] + 1 \in 1..MaxAttempts
      /\ deliveries[m] \in Nat /\ pc[w] = "batch" /\ MailInv(m)
      /\ \A n \in batch[w] : Open(n)
  BY DEF OutboxInv, Types, WorkerInv, TakeRow, Open, Waiting
<1> DEFINE to == IF emailMode = "fake" THEN "marking" ELSE "sending"
<1>3. pc' = [pc EXCEPT ![w] = to] /\ to \in Pcs
      /\ UNCHANGED <<status, attempts, queued, deliveries, batch, emailMode>>
  BY DEF TakeRow, table, Pcs
<1>4. pc'[w] = to /\ cur'[w] = m /\ try'[w] = attempts[m] + 1 /\ batch'[w] = batch[w]
  BY <1>1, <1>2, <1>3 DEF OutboxInv, Types
<1>5. CurInv(w)'
  BY <1>2, <1>3, <1>4 DEF CurInv, Open, Waiting, OutboxInv, Types
<1>6. WorkerInv(w)'
  BY <1>2, <1>3, <1>4, <1>5 DEF WorkerInv, Open, Waiting
<1>7. /\ cur' \in [Workers -> Mails \cup {NoMail}] /\ try' \in [Workers -> 0..MaxAttempts]
      /\ \A v \in Workers \ {w} : cur'[v] = cur[v] /\ try'[v] = try[v]
  BY <1>1, <1>2 DEF OutboxInv, Types
<1> HIDE DEF to
<1> QED
  BY <1>3, <1>6, <1>7, PlaceOnly

\* A delivery is counted against the attempts of its row.
LEMMA SendOutbox ==
  ASSUME OutboxInv, NEW w \in Workers, pc[w] = "sending", NEW to \in {"marking", "failing"},
         pc' = [pc EXCEPT ![w] = to],
         \/ deliveries' = [deliveries EXCEPT ![cur[w]] = @ + 1]
         \/ to = "failing" /\ UNCHANGED deliveries,
         UNCHANGED <<status, attempts, queued, batch, cur, try, emailMode>>
  PROVE  OutboxInv'
<1> DEFINE m == cur[w]
<1>1. /\ m \in batch[w] /\ m \in Mails /\ try[w] \in 1..MaxAttempts
      /\ Open(m) /\ attempts[m] = try[w] - 1 /\ emailMode = "smtp"
      /\ \A n \in batch[w] \ {m} : Open(n)
      /\ deliveries[m] \in Nat /\ MailInv(m)
  BY DEF OutboxInv, Types, WorkerInv, CurInv, AtMail
<1>2. Types'
  BY <1>1 DEF OutboxInv, Types, Pcs
<1>3. \A n \in Mails \ {m} : deliveries'[n] = deliveries[n]
  BY <1>1 DEF OutboxInv, Types
<1>4. deliveries'[m] \in {deliveries[m], deliveries[m] + 1}
      /\ (to = "marking" => deliveries'[m] = deliveries[m] + 1)
  BY <1>1 DEF OutboxInv, Types
<1>5. pc'[w] = to
  BY DEF OutboxInv, Types
<1> HIDE DEF m
<1>6. CurInv(w)'
  BY <1>1, <1>4, <1>5 DEF CurInv, Open, Waiting, m
<1>7. \A n \in batch[w] \ {m} : Open(n)'
  BY <1>1, <1>3 DEF Open, Waiting, OutboxInv, Types
<1>8. WorkerInv(w)'
  BY <1>5, <1>6, <1>7 DEF WorkerInv, m
<1>9. ASSUME NEW n \in batch[w] PROVE MailInv(n)'
  <2>1. CASE n = m
    BY <1>1, <1>4, <2>1 DEF MailInv, Open, Waiting
  <2>2. CASE n # m
    BY <1>3, <2>2 DEF OutboxInv, Types, MailInv
  <2> QED
    BY <2>1, <2>2
<1>10. \A n \in Mails \ batch[w] : deliveries'[n] = deliveries[n]
  BY <1>1, <1>3
<1> QED
  BY <1>2, <1>8, <1>9, <1>10, OwnRowsOnly DEF OutboxInv, Types

\* What markSent and markFailed leave of the row at hand.
LEMMA RecordedRow ==
  ASSUME OutboxInv, NEW w \in Workers, NEW m, m = cur[w],
         \/ pc[w] = "marking" /\ RecordSent(w)
         \/ pc[w] = "failing" /\ RecordFailed(w),
         UNCHANGED <<deliveries, emailMode>>
  PROVE  /\ m \in batch[w] /\ m \in Mails
         /\ status' \in [Mails -> Statuses] /\ attempts' \in [Mails -> 0..MaxAttempts]
         /\ status'[m] = IF pc[w] = "marking" THEN "sent" ELSE "failed"
         /\ attempts'[m] = try[w]
         /\ \A n \in Mails \ {m} : status'[n] = status[n] /\ attempts'[n] = attempts[n]
         /\ MailInv(m)'
<1>1. /\ m \in batch[w] /\ m \in Mails /\ try[w] \in 1..MaxAttempts /\ deliveries[m] <= try[w]
      /\ pc[w] = "marking" /\ emailMode = "smtp" => deliveries[m] > 0
      /\ status[m] # "absent" /\ MailInv(m)
  BY DEF OutboxInv, Types, WorkerInv, CurInv, AtMail
<1>2. /\ status' \in [Mails -> Statuses] /\ attempts' \in [Mails -> 0..MaxAttempts]
      /\ status'[m] = IF pc[w] = "marking" THEN "sent" ELSE "failed"
      /\ attempts'[m] = try[w]
      /\ queued' = queued
      /\ \A n \in Mails \ {m} : status'[n] = status[n] /\ attempts'[n] = attempts[n]
  BY <1>1 DEF OutboxInv, Types, RecordSent, RecordFailed, Statuses
<1>3. MailInv(m)'
  BY <1>1, <1>2 DEF MailInv
<1> QED
  BY <1>1, <1>2, <1>3

\* The UPDATE that follows a delivery, or a failure of it.
LEMMA MarkOutbox ==
  ASSUME OutboxInv, NEW w \in Workers, Mark(w)
  PROVE  OutboxInv'
<1>0. PICK m : m = cur[w]
  OBVIOUS
<1>1. /\ m \in batch[w] /\ m \in Mails
      /\ status' \in [Mails -> Statuses] /\ attempts' \in [Mails -> 0..MaxAttempts]
      /\ \A n \in Mails \ {m} : status'[n] = status[n] /\ attempts'[n] = attempts[n]
      /\ MailInv(m)'
  BY <1>0, RecordedRow DEF Mark
<1>2. /\ pc' = [pc EXCEPT ![w] = "batch"] /\ batch' = [batch EXCEPT ![w] = @ \ {m}]
      /\ cur' = [cur EXCEPT ![w] = NoMail] /\ try' = [try EXCEPT ![w] = 0]
      /\ UNCHANGED <<queued, deliveries, emailMode>>
  BY <1>0 DEF Mark, Drop, RecordSent, RecordFailed
<1>3. Types'
  BY <1>1, <1>2 DEF OutboxInv, Types, Pcs
<1>4. pc[w] \in AtMail /\ pc'[w] = "batch" /\ batch'[w] = batch[w] \ {m}
  BY <1>2 DEF OutboxInv, Types, Mark, AtMail
<1>5. \A n \in batch[w] \ {m} : Open(n)
  BY <1>0, <1>4 DEF OutboxInv, WorkerInv
<1>6. \A n \in batch[w] \ {m} : Open(n)'
  BY <1>1, <1>2, <1>5 DEF OutboxInv, Types, Open, Waiting
<1>7. WorkerInv(w)'
  BY <1>4, <1>6 DEF WorkerInv, AtMail
<1>8. \A n \in batch[w] : MailInv(n)'
  BY <1>1, <1>2 DEF OutboxInv, Types, MailInv
<1>9. \A n \in Mails \ batch[w] : status'[n] = status[n] /\ attempts'[n] = attempts[n]
  BY <1>1
<1> QED
  BY <1>2, <1>3, <1>4, <1>7, <1>8, <1>9, OwnRowsOnly DEF OutboxInv, Types

-----------------------------------------------------------------------------
(* Faults *)

\* A claim fails, or commits and its rows stay in processing.
LEMMA ClaimLostOutbox ==
  ASSUME OutboxInv, NEW w \in Workers, ClaimLost(w)
  PROVE  OutboxInv'
<1>1. Abandon(w, "sleep") /\ UNCHANGED <<attempts, queued, deliveries, emailMode>>
  BY DEF ClaimLost
<1>2. CASE MarkProcessing(w)
  BY <1>1, <1>2, MarkedRows, GivenUp DEF ClaimLost, OutboxInv, Types
<1>3. CASE UNCHANGED status
  <2>1. \A m \in batch[w] : MailInv(m)'
    BY <1>1, <1>3 DEF OutboxInv, Types, MailInv
  <2> QED
    BY <1>1, <1>3, <2>1, GivenUp DEF OutboxInv, Types
<1> QED
  BY <1>2, <1>3 DEF ClaimLost

\* markSent throws, applied or not.
LEMMA MarkSentLostOutbox ==
  ASSUME OutboxInv, NEW w \in Workers, MarkSentLost(w)
  PROVE  OutboxInv'
<1>0. PICK m : m = cur[w]
  OBVIOUS
<1>1. /\ m \in batch[w] /\ m \in Mails /\ try[w] \in 1..MaxAttempts
      /\ deliveries[m] <= try[w]
      /\ status[m] = "processing" /\ attempts[m] = try[w] - 1
      /\ \A n \in batch[w] \ {m} : Open(n)
  BY <1>0 DEF OutboxInv, Types, WorkerInv, CurInv, AtMail, MarkSentLost
<1>2. /\ pc' = [pc EXCEPT ![w] = "failing"]
      /\ UNCHANGED <<queued, deliveries, batch, cur, try, emailMode>>
  BY DEF MarkSentLost, RecordSent, table
<1>3. /\ status' \in [Mails -> Statuses] /\ attempts' \in [Mails -> 0..MaxAttempts]
      /\ \A n \in Mails \ {m} : status'[n] = status[n] /\ attempts'[n] = attempts[n]
      /\ MailInv(m)'
      /\ \/ status'[m] = "processing" /\ attempts'[m] = try[w] - 1
         \/ status'[m] = "sent" /\ attempts'[m] = try[w]
  <2>1. CASE RecordSent(w)
    BY <1>0, <1>2, <2>1, RecordedRow DEF MarkSentLost
  <2>2. CASE UNCHANGED table
    BY <1>1, <1>2, <2>2 DEF OutboxInv, Types, MailInv, table
  <2> QED
    BY <2>1, <2>2 DEF MarkSentLost
<1>4. Types'
  BY <1>2, <1>3 DEF OutboxInv, Types, Pcs
<1>5. pc'[w] = "failing" /\ cur'[w] = m /\ try'[w] = try[w] /\ batch'[w] = batch[w]
  BY <1>0, <1>2 DEF OutboxInv, Types
<1>6. CurInv(w)'
  BY <1>1, <1>2, <1>3, <1>5 DEF CurInv
<1>7. \A n \in batch[w] \ {m} : Open(n)'
  BY <1>1, <1>2, <1>3 DEF OutboxInv, Types, Open, Waiting
<1>8. WorkerInv(w)'
  BY <1>5, <1>6, <1>7 DEF WorkerInv
<1>9. \A n \in batch[w] : MailInv(n)'
  BY <1>2, <1>3 DEF OutboxInv, Types, MailInv
<1>10. \A n \in Mails \ batch[w] : status'[n] = status[n] /\ attempts'[n] = attempts[n]
  BY <1>1, <1>3
<1> QED
  BY <1>2, <1>4, <1>8, <1>9, <1>10, OwnRowsOnly DEF OutboxInv, Types

\* The UPDATE that marks a failure fails, applied or not: the batch is given up.
LEMMA MarkFailedLostOutbox ==
  ASSUME OutboxInv, NEW w \in Workers, MarkFailedLost(w)
  PROVE  OutboxInv'
<1>0. PICK m : m = cur[w]
  OBVIOUS
<1>1. Abandon(w, "sleep") /\ UNCHANGED <<queued, deliveries, emailMode>>
  BY DEF MarkFailedLost, RecordFailed, table
<1>2. m \in batch[w] /\ m \in Mails
  BY <1>0 DEF OutboxInv, Types, WorkerInv, CurInv, AtMail, MarkFailedLost
<1>3. /\ status' \in [Mails -> Statuses] /\ attempts' \in [Mails -> 0..MaxAttempts]
      /\ \A n \in Mails \ {m} : status'[n] = status[n] /\ attempts'[n] = attempts[n]
      /\ MailInv(m)'
  <2>1. CASE RecordFailed(w)
    BY <1>0, <1>1, <2>1, RecordedRow DEF MarkFailedLost
  <2>2. CASE UNCHANGED table
    BY <1>1, <1>2, <2>2 DEF OutboxInv, Types, MailInv, table
  <2> QED
    BY <2>1, <2>2 DEF MarkFailedLost
<1>4. \A n \in batch[w] : MailInv(n)'
  BY <1>1, <1>3 DEF OutboxInv, Types, MailInv
<1>5. \A n \in Mails \ batch[w] : status'[n] = status[n] /\ attempts'[n] = attempts[n]
  BY <1>2, <1>3
<1> QED
  BY <1>1, <1>3, <1>4, <1>5, GivenUp DEF OutboxInv, Types

\* A worker dies: its batch stays in processing.
LEMMA CrashOutbox ==
  ASSUME OutboxInv, NEW w \in Workers, Crash(w)
  PROVE  OutboxInv'
<1>1. Abandon(w, "down") /\ UNCHANGED <<status, attempts, queued, deliveries, emailMode>>
  BY DEF Crash, table
<1>2. \A m \in batch[w] : MailInv(m)'
  BY <1>1 DEF OutboxInv, Types, MailInv
<1> QED
  BY <1>1, <1>2, GivenUp DEF OutboxInv, Types

-----------------------------------------------------------------------------
\* A worker that is between two batches changes its place only.
LEMMA IdleOutbox ==
  ASSUME OutboxInv, NEW w \in Workers, EndBatch(w) \/ Exit(w) \/ Restart(w)
  PROVE  OutboxInv'
<1>1. PICK to \in {"sleep", "down"} : pc' = [pc EXCEPT ![w] = to]
  BY DEF EndBatch, Exit, Restart
<1>2. UNCHANGED <<status, attempts, queued, deliveries, batch, cur, try, emailMode>>
  BY DEF EndBatch, Exit, Restart, table
<1>3. pc'[w] = to /\ batch'[w] = {}
  BY <1>1, <1>2 DEF OutboxInv, Types, WorkerInv, EndBatch, Exit, Restart
<1>4. WorkerInv(w)'
  BY <1>3 DEF WorkerInv, AtMail
<1> QED
  BY <1>1, <1>2, <1>4, PlaceOnly DEF OutboxInv, Types, Pcs

\* Every step of the outbox and its workers preserves OutboxInv.
LEMMA NextOutbox == OutboxInv /\ [Next]_vars => OutboxInv'
<1> SUFFICES ASSUME OutboxInv, [Next]_vars PROVE OutboxInv'
  OBVIOUS
<1>1. CASE Enqueue
  BY <1>1, EnqueueOutbox
<1>2. CASE UNCHANGED <<status, attempts, queued, deliveries, pc, batch, cur, try, emailMode>>
  BY <1>2 DEF OutboxInv, Types, WorkerInv, CurInv, MailInv, Exclusive, Open, Waiting
<1>3. CASE Tick \/ UNCHANGED vars
  BY <1>2, <1>3 DEF Tick, vars
<1>4. ASSUME NEW w \in Workers, Work(w) PROVE OutboxInv'
  <2>1. CASE ClaimSelect(w)
    BY <2>1, ClaimSelectOutbox
  <2>2. CASE ClaimCommit(w)
    BY <2>2, ClaimCommitOutbox
  <2>3. CASE TakeRow(w)
    BY <2>3, TakeRowOutbox
  <2>4. CASE Send(w)
    BY <2>4, SendOutbox DEF Send, table
  <2>5. CASE Mark(w)
    BY <2>5, MarkOutbox
  <2>6. CASE EndBatch(w) \/ Exit(w)
    BY <2>6, IdleOutbox
  <2> QED
    BY <1>4, <2>1, <2>2, <2>3, <2>4, <2>5, <2>6 DEF Work
<1>5. ASSUME NEW w \in Workers, Trouble(w) PROVE OutboxInv'
  <2>1. CASE Signal(w)
    BY <1>2, <2>1 DEF Signal, table
  <2>2. CASE ClaimLost(w)
    BY <2>2, ClaimLostOutbox
  <2>3. CASE SendAnswerLost(w)
    BY <2>3, SendOutbox DEF SendAnswerLost, table
  <2>4. CASE MarkSentLost(w)
    BY <2>4, MarkSentLostOutbox
  <2>5. CASE MarkFailedLost(w)
    BY <2>5, MarkFailedLostOutbox
  <2>6. CASE Crash(w)
    BY <2>6, CrashOutbox
  <2> QED
    BY <1>5, <2>1, <2>2, <2>3, <2>4, <2>5, <2>6 DEF Trouble
<1>6. ASSUME NEW w \in Workers, Restart(w) PROVE OutboxInv'
  BY <1>6, IdleOutbox
<1> QED
  BY <1>1, <1>3, <1>4, <1>5, <1>6 DEF Next

\* OutboxInv holds in every reachable state, whatever the workers, the crashes
\* of their processes and the answers that get lost.
THEOREM OutboxInvariance == Spec => []OutboxInv
  BY InitOutbox, NextOutbox, PTL DEF Spec

\* email-outbox-worker.ts, claimBatch: two workers never have one row in hand, and a
\* claimed row is marked by the worker that claimed it.
THEOREM RowsHaveOneOwner == Spec => []OneOwner
<1>1. OutboxInv => OneOwner
  <2> SUFFICES ASSUME OutboxInv PROVE OneOwner
    OBVIOUS
  <2>1. ASSUME NEW w \in Workers, pc[w] \in {"batch", "sending", "marking"}, NEW m \in batch[w]
        PROVE  status[m] = "processing"
    BY <2>1 DEF OutboxInv, WorkerInv, CurInv, Open, AtMail
  <2> QED
    BY <2>1 DEF OutboxInv, Exclusive, OneOwner
<1> QED
  BY <1>1, OutboxInvariance, PTL

\* email-outbox-worker.ts: the mail server is handed no mail more than MaxAttempts
\* times, and all copies but the one under way are accounted for.
THEOREM DeliveriesBounded == Spec => []AttemptsBoundDeliveries
<1>1. OutboxInv => AttemptsBoundDeliveries
  BY DEF OutboxInv, Types, MailInv, AttemptsBoundDeliveries
<1> QED
  BY <1>1, OutboxInvariance, PTL

\* email-outbox-worker.ts: a row says "sent" only if the mail server took the mail, or
\* in fake mode.
THEOREM SentIsTrue == Spec => []SentWasDelivered
<1>1. OutboxInv => SentWasDelivered
  BY DEF OutboxInv, Types, MailInv, SentWasDelivered
<1> QED
  BY <1>1, OutboxInvariance, PTL
-----------------------------------------------------------------------------
(* What faults cost *)

\* Sets of mails, and of copies, are finite.
LEMMA FiniteMails ==
  /\ IsFiniteSet(Mails)
  /\ \A S \in SUBSET Mails : IsFiniteSet(S) /\ Cardinality(S) \in Nat
<1>1. IsFiniteSet(Mails)
  BY FS_Interval DEF Mails
<1> QED
  BY <1>1, FS_Subset, FS_CardinalityType

LEMMA FiniteCopies ==
  \A C \in SUBSET (Mails \X (1..MaxAttempts)) : IsFiniteSet(C) /\ Cardinality(C) \in Nat
<1>1. IsFiniteSet(1..MaxAttempts)
  BY FS_Interval
<1>2. IsFiniteSet(Mails \X (1..MaxAttempts))
  BY <1>1, FiniteMails, FS_Product
<1> QED
  BY <1>2, FS_Subset, FS_CardinalityType

\* Every set of natural numbers has a least element.
LEMMA Least ==
  ASSUME NEW S \in SUBSET Nat, S # {}
  PROVE  \E n \in S : \A m \in S : n <= m
<1>1. PICK R : IsWellFoundedOn(R, Nat) /\ \A m, n \in Nat : m < n => <<m, n>> \in R
  <2>1. \A m, n \in Nat : m < n => <<m, n>> \in OpToRel(<, Nat)
    BY DEF OpToRel
  <2> QED
    BY <2>1, NatLessThanWellFounded
<1>2. S \subseteq Nat
  OBVIOUS
<1>3. IsWellFoundedOn(R, Nat)
  BY <1>1
<1>4. PICK n \in S : \A m \in S : ~(<<m, n>> \in R)
  BY <1>2, <1>3, WFMin
<1>5. ASSUME NEW m \in S PROVE n <= m
  <2>1. ~(m < n)
    BY <1>1, <1>2, <1>4, Zenon
  <2> QED
    BY <1>2, <2>1
<1> QED
  BY <1>5

\* The last of a set of mails.
LEMMA LastOf ==
  ASSUME NEW S \in SUBSET Mails, S # {}
  PROVE  \E m \in S : \A n \in S : n <= m
<1> DEFINE Left == {k \in Nat : MaxMails - k \in S}
<1>1. \A m \in S : m \in Nat /\ MaxMails - m \in Left /\ MaxMails - (MaxMails - m) = m
  BY DEF Mails
<1>2. Left # {} /\ Left \in SUBSET Nat
  BY <1>1
<1>3. PICK k \in Left : \A j \in Left : k <= j
  <2> HIDE DEF Left
  <2> QED
    BY <1>2, Least
<1>4. k \in Nat /\ MaxMails - k \in S
  OBVIOUS
<1>5. ASSUME NEW n \in S PROVE n <= MaxMails - k
  <2>1. k <= MaxMails - n
    BY <1>1, <1>3
  <2> QED
    BY <1>1, <1>4, <2>1
<1> QED
  BY <1>4, <1>5

\* claimBatch: LIMIT keeps a batch within BatchSize.
LEMMA OldestBounded ==
  ASSUME NEW S \in SUBSET Mails
  PROVE  Oldest(S) \in SUBSET Mails /\ Cardinality(Oldest(S)) <= BatchSize
<1> DEFINE T == Oldest(S)
<1>1. T \subseteq S /\ IsFiniteSet(T)
  BY FiniteMails DEF Oldest
<1>2. CASE T = {}
  BY <1>2, FS_EmptySet
<1>3. CASE T # {}
  <2>1. PICK m \in T : \A n \in T : n <= m
    BY <1>1, <1>3, LastOf
  <2> DEFINE Before == {n \in S : n < m}
  <2>2. Cardinality(Before) < BatchSize /\ IsFiniteSet(Before) /\ Cardinality(Before) \in Nat
    BY <1>1, FiniteMails DEF Oldest
  <2>3. T \ {m} \subseteq Before
    <3>1. T \subseteq S /\ m \in T
      BY <1>1
    <3>2. \A n \in S : n \in Nat
      BY DEF Mails
    <3> HIDE DEF T
    <3> QED
      BY <2>1, <3>1, <3>2
  <2>4. Cardinality(T \ {m}) <= Cardinality(Before)
    BY <2>2, <2>3, FS_Subset
  <2>5. Cardinality(T \ {m}) = Cardinality(T) - 1 /\ Cardinality(T) \in Nat
    BY <1>1, FS_RemoveElement, FS_CardinalityType
  <2>6. Cardinality(T) <= BatchSize
    <3> HIDE DEF T, Before
    <3> QED
      BY <2>2, <2>4, <2>5
  <2> QED
    BY <1>1, <2>6
<1> QED
  BY <1>1, <1>2, <1>3

\* Stranded mails and unheard copies can be counted.
LEMMA CountedSets ==
  ASSUME Types
  PROVE  /\ Stranded \in SUBSET Mails
         /\ UnheardCopies \in SUBSET (Mails \X (1..MaxAttempts))
  BY DEF Stranded, UnheardCopies

\* A step that is no fault strands no mail and leaves no copy unheard.
LEMMA CalmStep ==
  ASSUME FaultInv, Types, Types', UNCHANGED faults,
         \A w \in Workers : Cardinality(batch'[w]) <= BatchSize,
         \A m \in Mails : m \in Stranded' => m \in Stranded,
         \A m \in Mails : Unheard(m)' <= Unheard(m)
  PROVE  FaultInv'
<1>1. \A m \in Mails : Unheard(m) \in Int /\ Unheard(m)' \in Int
  BY DEF Types, Unheard
<1>2. UnheardCopies' \subseteq UnheardCopies /\ Stranded' \subseteq Stranded
  <2>1. Stranded' \subseteq Stranded
    BY DEF Stranded
  <2>2. UnheardCopies' \subseteq UnheardCopies
    BY <1>1 DEF UnheardCopies
  <2> QED
    BY <2>1, <2>2
<1>3. IsFiniteSet(UnheardCopies) /\ IsFiniteSet(Stranded)
      /\ Cardinality(UnheardCopies) \in Nat /\ Cardinality(Stranded) \in Nat
      /\ Cardinality(UnheardCopies') \in Nat /\ Cardinality(Stranded') \in Nat
  BY <1>2, CountedSets, FiniteMails, FiniteCopies
<1>4. Cardinality(UnheardCopies') <= Cardinality(UnheardCopies)
      /\ Cardinality(Stranded') <= Cardinality(Stranded)
  BY <1>2, <1>3, FS_Subset
<1>5. faults \in Nat /\ faults * BatchSize \in Nat
  BY DEF FaultInv
<1> QED
  BY <1>3, <1>4, <1>5 DEF FaultInv

\* A fault strands at most the batch of one worker and leaves at most one copy unheard.
LEMMA FaultStep ==
  ASSUME FaultInv, Types, Types', OneFault, NEW w \in Workers, NEW x \in Mails,
         \A v \in Workers : batch'[v] = batch[v] \/ batch'[v] = {},
         \A m \in Mails : m \in Stranded' => m \in Stranded \/ m \in batch[w],
         \A m \in Mails : Unheard(m)' <= Unheard(m) \/ (m = x /\ Unheard(m)' = Unheard(m) + 1)
  PROVE  FaultInv'
<1>1. \A m \in Mails : Unheard(m) \in Int /\ Unheard(m)' \in Int
  BY DEF Types, Unheard
<1> DEFINE c == <<x, Unheard(x) + 1>>
<1>2. UnheardCopies' \subseteq UnheardCopies \cup {c}
  BY <1>1 DEF UnheardCopies
<1>3. Stranded' \subseteq Stranded \cup batch[w]
  BY DEF Stranded
<1>4. /\ IsFiniteSet(UnheardCopies) /\ IsFiniteSet(Stranded) /\ IsFiniteSet(batch[w])
      /\ Cardinality(UnheardCopies) \in Nat /\ Cardinality(Stranded) \in Nat
      /\ Cardinality(UnheardCopies') \in Nat /\ Cardinality(Stranded') \in Nat
      /\ Cardinality(batch[w]) \in Nat
  <2>1. /\ Stranded \in SUBSET Mails /\ Stranded' \in SUBSET Mails
        /\ batch[w] \in SUBSET Mails
    BY <1>3, CountedSets DEF Types
  <2>2. /\ UnheardCopies \in SUBSET (Mails \X (1..MaxAttempts))
        /\ UnheardCopies' \in SUBSET (Mails \X (1..MaxAttempts))
    BY DEF UnheardCopies
  <2> QED
    BY <2>1, <2>2, FiniteMails, FiniteCopies
<1>5. Cardinality(UnheardCopies') <= Cardinality(UnheardCopies) + 1
  <2>1. /\ IsFiniteSet(UnheardCopies \cup {c})
        /\ Cardinality(UnheardCopies \cup {c}) \in Nat
        /\ Cardinality(UnheardCopies \cup {c}) <= Cardinality(UnheardCopies) + 1
    <3> HIDE DEF c
    <3>1. /\ IsFiniteSet(UnheardCopies \cup {c})
          /\ Cardinality(UnheardCopies \cup {c}) =
               IF c \in UnheardCopies THEN Cardinality(UnheardCopies)
               ELSE Cardinality(UnheardCopies) + 1
      BY <1>4, FS_AddElement
    <3> QED
      BY <1>4, <3>1
  <2>2. Cardinality(UnheardCopies') <= Cardinality(UnheardCopies \cup {c})
    BY <1>2, <2>1, FS_Subset
  <2> QED
    BY <1>4, <2>1, <2>2
<1>6. Cardinality(Stranded') <= Cardinality(Stranded) + Cardinality(batch[w])
  <2>1. /\ IsFiniteSet(Stranded \cup batch[w])
        /\ Cardinality(Stranded \cup batch[w]) \in Nat
        /\ Cardinality(Stranded \cup batch[w])
             = Cardinality(Stranded) + Cardinality(batch[w])
               - Cardinality(Stranded \cap batch[w])
        /\ Cardinality(Stranded \cap batch[w]) \in Nat
    BY <1>4, FS_Union, FS_Intersection, FS_CardinalityType
  <2>2. Cardinality(Stranded') <= Cardinality(Stranded \cup batch[w])
    BY <1>3, <2>1, FS_Subset
  <2> QED
    BY <1>4, <2>1, <2>2
<1>7. faults \in Nat /\ faults' = faults + 1 /\ faults' \in 0..MaxFaults
  BY DEF FaultInv, OneFault
<1>8. faults' * BatchSize = faults * BatchSize + BatchSize /\ faults * BatchSize \in Nat
  BY <1>7
<1>9. ASSUME NEW v \in Workers PROVE Cardinality(batch'[v]) <= BatchSize
  <2>1. CASE batch'[v] = batch[v]
    BY <2>1 DEF FaultInv
  <2>2. CASE batch'[v] = {}
    BY <2>2, FS_EmptySet
  <2> QED
    BY <2>1, <2>2
<1> QED
  BY <1>4, <1>5, <1>6, <1>7, <1>8, <1>9 DEF FaultInv

\* What every step of worker w leaves to the others.
OthersStay(w) ==
  \A v \in Workers \ {w} : pc'[v] = pc[v] /\ batch'[v] = batch[v] /\ cur'[v] = cur[v]

\* A worker that is at no mail, before the step, and not at a failure after it.
LEMMA SettlingIdle ==
  ASSUME NEW w \in Workers, NEW m \in Mails, OthersStay(w),
         pc[w] \notin {"marking", "failing"}, pc'[w] # "failing",
         status[m] = "sent" => status'[m] = "sent"
  PROVE  Settling(m) => Settling(m)'
<1>1. CASE \E v \in Workers : pc[v] = "marking" /\ cur[v] = m
  BY <1>1 DEF Settling, OthersStay
<1>2. CASE status[m] = "sent" /\ ~ \E v \in Workers : pc[v] = "failing" /\ cur[v] = m
  BY <1>2 DEF Settling, OthersStay
<1> QED
  BY <1>1, <1>2 DEF Settling

\* Which mails settle, as a worker at a mail goes on or stops.
LEMMA SettlingAtMail ==
  ASSUME OutboxInv, NEW w \in Workers, pc[w] \in AtMail, NEW m, m = cur[w], OthersStay(w),
         cur'[w] \in {m, NoMail},
         \A n \in Mails \ {m} : status'[n] = status[n]
  PROVE  /\ m \in Mails /\ m \in batch[w]
         /\ Settling(m) <=> pc[w] = "marking"
         /\ Settling(m)' <=> \/ pc'[w] = "marking" /\ cur'[w] = m
                             \/ status'[m] = "sent" /\ ~(pc'[w] = "failing" /\ cur'[w] = m)
         /\ \A n \in Mails \ {m} : Settling(n)' <=> Settling(n)
<1>1. m \in Mails /\ m \in batch[w] /\ CurInv(w)
  BY DEF OutboxInv, Types, WorkerInv, CurInv
<1>2. ASSUME NEW v \in Workers, v # w, pc[v] \in AtMail, cur[v] = m PROVE FALSE
  <2>1. m \in batch[v]
    BY <1>2 DEF OutboxInv, WorkerInv, CurInv
  <2> QED
    BY <1>1, <1>2, <2>1 DEF OutboxInv, Exclusive
<1>3. Settling(m) <=> pc[w] = "marking"
  <2>1. CASE pc[w] = "marking"
    BY <2>1 DEF Settling
  <2>2. CASE pc[w] = "failing"
    BY <1>2, <2>2 DEF Settling, AtMail
  <2>3. CASE pc[w] = "sending"
    BY <1>1, <1>2, <2>3 DEF Settling, AtMail, CurInv, Open
  <2> QED
    BY <2>1, <2>2, <2>3 DEF AtMail
<1>4. \A v \in Workers \ {w} :
        ~(pc'[v] = "marking" /\ cur'[v] = m) /\ ~(pc'[v] = "failing" /\ cur'[v] = m)
  BY <1>2 DEF OthersStay, AtMail
<1>5. Settling(m)' <=> \/ pc'[w] = "marking" /\ cur'[w] = m
                       \/ status'[m] = "sent" /\ ~(pc'[w] = "failing" /\ cur'[w] = m)
  BY <1>4 DEF Settling
<1>6. ASSUME NEW n \in Mails, n # m PROVE Settling(n)' <=> Settling(n)
  <2>1. cur[w] # n /\ cur'[w] # n /\ status'[n] = status[n]
    BY <1>6 DEF Mails, NoMail
  <2>2. \A v \in Workers : /\ pc'[v] = "marking" /\ cur'[v] = n <=> pc[v] = "marking" /\ cur[v] = n
                           /\ pc'[v] = "failing" /\ cur'[v] = n <=> pc[v] = "failing" /\ cur[v] = n
    BY <2>1 DEF OthersStay
  <2> QED
    BY <2>1, <2>2 DEF Settling
<1> QED
  BY <1>1, <1>3, <1>5, <1>6

\* A worker can strand nothing but rows of its batch.
LEMMA StrandedStep ==
  ASSUME NEW w \in Workers, OthersStay(w),
         \A m \in Mails \ batch[w] : status'[m] = status[m],
         NEW m \in Mails, m \in Stranded'
  PROVE  \/ m \in Stranded
         \/ m \in batch[w] /\ m \notin batch'[w] /\ status'[m] = "processing"
<1>1. status'[m] = "processing" /\ \A v \in Workers : m \notin batch'[v]
  BY DEF Stranded
<1>2. CASE m \in batch[w]
  BY <1>1, <1>2
<1>3. CASE m \notin batch[w]
  BY <1>1, <1>3 DEF Stranded, OthersStay
<1> QED
  BY <1>2, <1>3

\* What is unheard of a mail that keeps its copies, or goes on settling.
LEMMA UnheardStays ==
  ASSUME Types, Types', NEW m \in Mails, deliveries'[m] = deliveries[m],
         Settling(m) => Settling(m)'
  PROVE  Unheard(m)' <= Unheard(m)
  BY DEF Types, Unheard

LEMMA IdleCalm ==
  ASSUME OutboxInv, FaultInv, Types', NEW w \in Workers, OthersStay(w),
         pc[w] \notin {"marking", "failing"}, pc'[w] # "failing",
         UNCHANGED <<deliveries, faults>>,
         \A m \in Mails \ batch[w] : status'[m] = status[m],
         \A m \in Mails : status[m] = "sent" => status'[m] = "sent",
         batch[w] \subseteq batch'[w], Cardinality(batch'[w]) <= BatchSize
  PROVE  FaultInv'
<1>1. Types
  BY DEF OutboxInv
<1>2. \A m \in Mails : Unheard(m)' <= Unheard(m)
  BY <1>1, SettlingIdle, UnheardStays
<1>3. \A m \in Mails : m \in Stranded' => m \in Stranded
  BY StrandedStep
<1>4. \A v \in Workers : Cardinality(batch'[v]) <= BatchSize
  BY DEF FaultInv, OthersStay
<1> QED
  BY <1>1, <1>2, <1>3, <1>4, CalmStep

LEMMA IdleFaults ==
  ASSUME OutboxInv, FaultInv, Types', NEW w \in Workers,
         \/ ClaimSelect(w) \/ ClaimCommit(w) \/ TakeRow(w) \/ EndBatch(w) \/ Exit(w)
         \/ Restart(w)
  PROVE  FaultInv'
<1>1. Types /\ WorkerInv(w) /\ pc[w] \in Pcs
  BY DEF OutboxInv, Types
<1>2. CASE ClaimSelect(w)
  <2>1. batch[w] = {}
    BY <1>1, <1>2 DEF ClaimSelect, WorkerInv
  <2>2. Cardinality(Oldest(Claimable)) <= BatchSize
    BY OldestBounded DEF Claimable
  <2>3. batch'[w] = Oldest(Claimable) /\ pc[w] = "sleep" /\ pc'[w] = "claiming"
        /\ OthersStay(w) /\ UNCHANGED <<status, deliveries, faults>>
    BY <1>1, <1>2 DEF Types, ClaimSelect, OthersStay, table
  <2> QED
    BY <2>1, <2>2, <2>3, IdleCalm
<1>3. CASE ClaimCommit(w)
  <2>1. pc[w] = "claiming" /\ pc'[w] = "batch" /\ OthersStay(w)
        /\ UNCHANGED <<batch, deliveries, faults>>
    BY <1>1, <1>3 DEF Types, ClaimCommit, OthersStay
  <2>2. /\ \A m \in Mails \ batch[w] : status'[m] = status[m]
        /\ \A m \in Mails : status[m] = "sent" => status'[m] = "sent"
    BY <1>1, <1>3 DEF ClaimCommit, MarkProcessing, WorkerInv
  <2> QED
    BY <2>1, <2>2, IdleCalm DEF FaultInv
<1>4. CASE TakeRow(w)
  <2>1. pc[w] = "batch" /\ pc'[w] \in {"marking", "sending"} /\ OthersStay(w)
        /\ UNCHANGED <<status, batch, deliveries, faults>>
    BY <1>1, <1>4 DEF Types, TakeRow, OthersStay, table
  <2> QED
    BY <2>1, IdleCalm DEF FaultInv
<1>5. CASE EndBatch(w) \/ Exit(w) \/ Restart(w)
  <2>1. pc[w] \in {"batch", "sleep", "down"} /\ pc'[w] \in {"sleep", "down"} /\ OthersStay(w)
        /\ UNCHANGED <<status, batch, deliveries, faults>>
    BY <1>1, <1>5 DEF Types, EndBatch, Exit, Restart, OthersStay, table
  <2> QED
    BY <2>1, IdleCalm DEF FaultInv
<1> QED
  BY <1>2, <1>3, <1>4, <1>5

\* A new row is no copy, and stranded it is not either.
LEMMA EnqueueFaults ==
  ASSUME OutboxInv, FaultInv, Types', Enqueue
  PROVE  FaultInv'
<1>1. Types /\ queued + 1 \in Mails /\ status[queued + 1] = "absent"
  BY DEF OutboxInv, Types, MailInv, Enqueue, Mails
<1>2. \A m \in Mails : /\ status[m] = "sent" <=> status'[m] = "sent"
                       /\ status[m] = "processing" <=> status'[m] = "processing"
  BY <1>1 DEF Types, Enqueue
<1>3. \A m \in Mails : Unheard(m)' <= Unheard(m)
  BY <1>1, <1>2, UnheardStays DEF Settling, Enqueue
<1>4. \A m \in Mails : m \in Stranded' => m \in Stranded
  BY <1>2 DEF Stranded, Enqueue
<1> QED
  BY <1>1, <1>3, <1>4, CalmStep DEF FaultInv, Enqueue

\* The copy handed over is heard of when markSent is next; a row that is marked
\* settles for good, and a failure is no copy.
LEMMA SendFaults ==
  ASSUME OutboxInv, FaultInv, Types', NEW w \in Workers, Send(w)
  PROVE  FaultInv'
<1>0. PICK m : m = cur[w]
  OBVIOUS
<1>1. pc[w] = "sending" /\ OthersStay(w) /\ UNCHANGED <<status, batch, cur, faults>>
      /\ pc'[w] \in {"marking", "failing"}
  BY DEF OutboxInv, Types, Send, OthersStay, table
<1>2. /\ m \in Mails /\ ~Settling(m) /\ (Settling(m)' <=> pc'[w] = "marking")
      /\ \A n \in Mails \ {m} : Settling(n)' <=> Settling(n)
  <2>1. status[m] = "processing" /\ pc[w] \in AtMail
    BY <1>0, <1>1 DEF OutboxInv, WorkerInv, CurInv, Open, AtMail
  <2> QED
    BY <1>0, <1>1, <2>1, SettlingAtMail
<1>3. \A n \in Mails \ {m} : deliveries'[n] = deliveries[n]
  BY <1>0, <1>2 DEF OutboxInv, Types, Send
<1>4. \/ pc'[w] = "marking" /\ deliveries'[m] = deliveries[m] + 1
      \/ pc'[w] = "failing" /\ deliveries'[m] = deliveries[m]
  BY <1>0, <1>2 DEF OutboxInv, Types, Send
<1>5. \A n \in Mails : Unheard(n)' <= Unheard(n)
  BY <1>2, <1>3, <1>4 DEF OutboxInv, Types, Unheard
<1>6. \A n \in Mails : n \in Stranded' => n \in Stranded
  BY <1>1, StrandedStep
<1> QED
  BY <1>1, <1>5, <1>6, CalmStep DEF OutboxInv, FaultInv

LEMMA MarkFaults ==
  ASSUME OutboxInv, FaultInv, Types', NEW w \in Workers, Mark(w)
  PROVE  FaultInv'
<1>0. PICK m : m = cur[w]
  OBVIOUS
<1>1. /\ pc[w] \in {"marking", "failing"} /\ pc'[w] = "batch" /\ OthersStay(w)
      /\ UNCHANGED <<deliveries, faults>>
      /\ batch'[w] = batch[w] \ {m} /\ cur'[w] = NoMail
  BY <1>0 DEF OutboxInv, Types, Mark, Drop, OthersStay
<1>2. /\ status'[m] = IF pc[w] = "marking" THEN "sent" ELSE "failed"
      /\ \A n \in Mails \ {m} : status'[n] = status[n]
      /\ m \in Mails /\ m \in batch[w]
  BY <1>0, RecordedRow DEF Mark
<1>3. \A n \in Mails : Settling(n) => Settling(n)'
  BY <1>0, <1>1, <1>2, SettlingAtMail DEF AtMail
<1>4. \A n \in Mails : Unheard(n)' <= Unheard(n)
  BY <1>1, <1>3, UnheardStays DEF OutboxInv
<1>5. \A n \in Mails : n \in Stranded' => n \in Stranded
  BY <1>1, <1>2, StrandedStep
<1>6. Cardinality(batch'[w]) <= BatchSize
  <2>1. batch[w] \in SUBSET Mails /\ Cardinality(batch[w]) <= BatchSize
    BY DEF OutboxInv, Types, FaultInv
  <2>2. IsFiniteSet(batch[w]) /\ Cardinality(batch[w]) \in Nat
        /\ batch'[w] \in SUBSET batch[w] /\ Cardinality(batch'[w]) \in Nat
    BY <1>1, <2>1, FiniteMails
  <2>3. Cardinality(batch'[w]) <= Cardinality(batch[w])
    BY <2>2, FS_Subset
  <2> QED
    BY <2>1, <2>2, <2>3
<1>7. \A v \in Workers : Cardinality(batch'[v]) <= BatchSize
  BY <1>1, <1>6 DEF FaultInv, OthersStay
<1> QED
  BY <1>1, <1>4, <1>5, <1>7, CalmStep DEF OutboxInv

\* A fault of a worker that is at a mail: it may have handed the mail over, and
\* may not hear that it did.
LEMMA FaultAtMail ==
  ASSUME OutboxInv, FaultInv, Types', OneFault, NEW w \in Workers, pc[w] \in AtMail,
         NEW m, m = cur[w], OthersStay(w), cur'[w] \in {m, NoMail},
         batch'[w] = batch[w] \/ batch'[w] = {},
         \A n \in Mails \ {m} : status'[n] = status[n] /\ deliveries'[n] = deliveries[n],
         \/ deliveries'[m] = deliveries[m]
         \/ pc[w] = "sending" /\ deliveries'[m] = deliveries[m] + 1
  PROVE  FaultInv'
<1>1. /\ m \in Mails /\ m \in batch[w]
      /\ Settling(m) <=> pc[w] = "marking"
      /\ \A n \in Mails \ {m} : Settling(n)' <=> Settling(n)
  BY SettlingAtMail
<1>2. deliveries[m] \in Nat
  BY <1>1 DEF OutboxInv, Types
<1>3. Unheard(m)' <= Unheard(m) \/ Unheard(m)' = Unheard(m) + 1
  BY <1>1, <1>2 DEF Unheard
<1>4. \A n \in Mails \ {m} : Unheard(n)' <= Unheard(n)
  BY <1>1 DEF OutboxInv, Types, Unheard
<1>5. \A n \in Mails : Unheard(n)' <= Unheard(n) \/ (n = m /\ Unheard(n)' = Unheard(n) + 1)
  BY <1>3, <1>4
<1>6. \A n \in Mails : n \in Stranded' => n \in Stranded \/ n \in batch[w]
  BY <1>1, StrandedStep
<1>7. \A v \in Workers : batch'[v] = batch[v] \/ batch'[v] = {}
  BY DEF OthersStay
<1> QED
  BY <1>1, <1>5, <1>6, <1>7, FaultStep DEF OutboxInv

\* A fault of a worker that is at no mail.
LEMMA FaultElsewhere ==
  ASSUME OutboxInv, FaultInv, Types', OneFault, NEW w \in Workers, pc[w] \notin AtMail,
         NEW to \in {"sleep", "down"}, Abandon(w, to), UNCHANGED deliveries,
         \A m \in Mails \ batch[w] : status'[m] = status[m],
         \A m \in Mails : status[m] = "sent" => status'[m] = "sent"
  PROVE  FaultInv'
<1>1. OthersStay(w) /\ pc'[w] = to /\ batch'[w] = {}
  BY DEF OutboxInv, Types, Abandon, OthersStay
<1>2. \A m \in Mails : Unheard(m)' <= Unheard(m)
  BY <1>1, SettlingIdle, UnheardStays DEF AtMail, OutboxInv
<1>3. \A m \in Mails : m \in Stranded' => m \in Stranded \/ m \in batch[w]
  BY <1>1, StrandedStep
<1>4. \A v \in Workers : batch'[v] = batch[v] \/ batch'[v] = {}
  BY <1>1 DEF OthersStay
<1>5. 1 \in Mails
  BY DEF Mails
<1> QED
  BY <1>2, <1>3, <1>4, <1>5, FaultStep DEF OutboxInv

LEMMA TroubleFaults ==
  ASSUME OutboxInv, FaultInv, Types', NEW w \in Workers,
         \/ ClaimLost(w) \/ SendAnswerLost(w) \/ MarkSentLost(w) \/ MarkFailedLost(w)
         \/ Crash(w)
  PROVE  FaultInv'
<1>0. PICK m : m = cur[w]
  OBVIOUS
<1>1. Types /\ WorkerInv(w) /\ OneFault
  BY DEF OutboxInv, ClaimLost, SendAnswerLost, MarkSentLost, MarkFailedLost, Crash
<1>2. CASE ClaimLost(w)
  <2>1. /\ pc[w] = "claiming" /\ Abandon(w, "sleep") /\ UNCHANGED deliveries
        /\ \A n \in batch[w] : status[n] # "sent"
    BY <1>1, <1>2 DEF ClaimLost, WorkerInv
  <2>2. /\ \A n \in Mails \ batch[w] : status'[n] = status[n]
        /\ \A n \in Mails : status[n] = "sent" => status'[n] = "sent"
    BY <1>2, <2>1 DEF ClaimLost, MarkProcessing
  <2> QED
    BY <1>1, <2>1, <2>2, FaultElsewhere DEF AtMail
<1>3. CASE SendAnswerLost(w)
  <2>1. pc[w] = "sending" /\ OthersStay(w) /\ UNCHANGED <<status, batch, cur>>
    BY <1>1, <1>3 DEF Types, SendAnswerLost, OthersStay, table
  <2>2. m \in Mails
    BY <1>0, <1>1, <2>1 DEF Types, WorkerInv, CurInv, AtMail
  <2>3. /\ deliveries'[m] = deliveries[m] + 1
        /\ \A n \in Mails \ {m} : deliveries'[n] = deliveries[n]
    BY <1>0, <1>1, <1>3, <2>2 DEF Types, SendAnswerLost
  <2> QED
    BY <1>0, <1>1, <2>1, <2>3, FaultAtMail DEF AtMail
<1>4. CASE MarkSentLost(w)
  <2>1. pc[w] = "marking" /\ OthersStay(w) /\ UNCHANGED <<deliveries, batch, cur>>
    BY <1>1, <1>4 DEF Types, MarkSentLost, OthersStay
  <2>2. \A n \in Mails \ {m} : status'[n] = status[n]
    BY <1>0, <1>1, <1>4 DEF Types, MarkSentLost, RecordSent, table
  <2> QED
    BY <1>0, <1>1, <2>1, <2>2, FaultAtMail DEF AtMail
<1>5. CASE MarkFailedLost(w)
  <2>1. /\ pc[w] = "failing" /\ OthersStay(w) /\ UNCHANGED deliveries
        /\ batch'[w] = {} /\ cur'[w] = NoMail
    BY <1>1, <1>5 DEF Types, MarkFailedLost, Abandon, OthersStay
  <2>2. \A n \in Mails \ {m} : status'[n] = status[n]
    BY <1>0, <1>1, <1>5 DEF Types, MarkFailedLost, RecordFailed, table
  <2> QED
    BY <1>0, <1>1, <2>1, <2>2, FaultAtMail DEF AtMail
<1>6. CASE Crash(w)
  <2>1. Abandon(w, "down") /\ UNCHANGED <<status, deliveries>>
    BY <1>6 DEF Crash, table
  <2>2. CASE pc[w] \in AtMail
    <3>1. OthersStay(w) /\ batch'[w] = {} /\ cur'[w] = NoMail
      BY <1>1, <2>1 DEF Types, Abandon, OthersStay
    <3> QED
      BY <1>0, <1>1, <2>1, <2>2, <3>1, FaultAtMail
  <2>3. CASE pc[w] \notin AtMail
    BY <1>1, <2>1, <2>3, FaultElsewhere
  <2> QED
    BY <2>2, <2>3
<1> QED
  BY <1>2, <1>3, <1>4, <1>5, <1>6

LEMMA InitFaults == Init => FaultInv
<1> SUFFICES ASSUME Init PROVE FaultInv
  OBVIOUS
<1>1. Cardinality({}) = 0
  BY FS_EmptySet
<1>2. Stranded = {}
  BY DEF Init, Stranded
<1>3. UnheardCopies = {}
  BY DEF Init, UnheardCopies, Unheard, Settling
<1>4. \A w \in Workers : Cardinality(batch[w]) <= BatchSize
  BY <1>1 DEF Init
<1> QED
  BY <1>1, <1>2, <1>3, <1>4 DEF Init, FaultInv

\* Every step pays for what it strands and for what nobody hears of.
LEMMA NextFaults == OutboxInv /\ FaultInv /\ Types' /\ [Next]_vars => FaultInv'
<1> SUFFICES ASSUME OutboxInv, FaultInv, Types', [Next]_vars PROVE FaultInv'
  OBVIOUS
<1>1. CASE UNCHANGED <<status, deliveries, pc, batch, cur, faults>>
  BY <1>1 DEF FaultInv, Stranded, UnheardCopies, Unheard, Settling
<1>2. CASE Enqueue
  BY <1>2, EnqueueFaults
<1>3. CASE Tick \/ UNCHANGED vars
  BY <1>1, <1>3 DEF Tick, vars
<1>4. ASSUME NEW w \in Workers, Work(w) PROVE FaultInv'
  BY <1>4, IdleFaults, SendFaults, MarkFaults DEF Work
<1>5. ASSUME NEW w \in Workers, Trouble(w) PROVE FaultInv'
  <2>1. CASE Signal(w)
    BY <1>1, <2>1 DEF Signal, table
  <2> QED
    BY <1>5, <2>1, TroubleFaults DEF Trouble
<1>6. ASSUME NEW w \in Workers, Restart(w) PROVE FaultInv'
  BY <1>6, IdleFaults
<1> QED
  BY <1>2, <1>3, <1>4, <1>5, <1>6 DEF Next

\* FaultInv holds in every reachable state, however many faults there are.
THEOREM FaultsAccountedFor == Spec => []FaultInv
<1>1. OutboxInv' => Types'
  BY DEF OutboxInv
<1> QED
  BY <1>1, InitFaults, NextFaults, OutboxInvariance, PTL DEF Spec

\* email-outbox-worker.ts: only a fault leaves rows in processing that nobody works
\* on, and each fault no more than the batch of one worker; a signal leaves none.
THEOREM StrandedOnlyByFaults == Spec => []StrandedBounded
<1>1. FaultInv => StrandedBounded
  BY DEF FaultInv, StrandedBounded
<1> QED
  BY <1>1, FaultsAccountedFor, PTL

\* email-outbox-worker.ts: a mail is handed over again only after a fault kept the
\* worker from recording that it was: over all mails, one surplus copy per fault.
THEOREM SecondCopyOnlyByFault == Spec => []DuplicatesBounded
<1>1. OutboxInv /\ FaultInv => DuplicatesBounded
  <2> SUFFICES ASSUME OutboxInv, FaultInv PROVE DuplicatesBounded
    OBVIOUS
  <2>1. Surplus \subseteq UnheardCopies
    <3> SUFFICES ASSUME NEW m \in Mails, NEW k \in 1..(deliveries[m] - 1)
                 PROVE  <<m, k>> \in UnheardCopies
      BY DEF Surplus
    <3>1. deliveries[m] \in Nat /\ deliveries[m] <= MaxAttempts /\ MailInv(m)
      BY DEF OutboxInv, Types, MailInv
    <3>2. k \in 1..MaxAttempts /\ k <= Unheard(m)
      BY <3>1 DEF Unheard
    <3> QED
      BY <3>2 DEF UnheardCopies
  <2>2. UnheardCopies \in SUBSET (Mails \X (1..MaxAttempts))
    BY DEF UnheardCopies
  <2>3. IsFiniteSet(UnheardCopies) /\ Cardinality(UnheardCopies) \in Nat
        /\ Cardinality(Surplus) \in Nat
    BY <2>1, <2>2, FiniteCopies
  <2>4. Cardinality(Surplus) <= Cardinality(UnheardCopies)
    BY <2>1, <2>3, FS_Subset
  <2>5. faults \in Nat
    BY DEF FaultInv
  <2> QED
    BY <2>3, <2>4, <2>5 DEF FaultInv, DuplicatesBounded
<1> QED
  BY <1>1, OutboxInvariance, FaultsAccountedFor, PTL

-----------------------------------------------------------------------------
(* The outbox implements the queue *)

\* The queue counts as the outbox does.
LEMMA SameCount == \A S : Queue!Cardinality(S) = Cardinality(S)
  BY DEF Queue!Cardinality, Cardinality

\* What the queue sees of each mail.
LEMMA MailPhases ==
  ASSUME Types, NEW m \in Mails
  PROVE  /\ InHand(m) => MailPhase[m] = "taken"
         /\ ~InHand(m) /\ status[m] = "processing" => MailPhase[m] = "stranded"
         /\ ~InHand(m) /\ status[m] \in {"pending", "failed"} => MailPhase[m] = "queued"
         /\ ~InHand(m) /\ status[m] \in {"absent", "sent"} => MailPhase[m] = status[m]
         /\ InHand(m) /\ status[m] # "processing" => MailTries[m] = attempts[m] - 1
         /\ ~InHand(m) \/ status[m] = "processing" => MailTries[m] = attempts[m]
  BY DEF Types, Statuses, MailPhase, PhaseOf, MailTries

LEMMA MailPhasesNext ==
  ASSUME Types', NEW m \in Mails
  PROVE  /\ InHand(m)' => MailPhase'[m] = "taken"
         /\ ~InHand(m)' /\ status'[m] = "processing" => MailPhase'[m] = "stranded"
         /\ ~InHand(m)' /\ status'[m] \in {"pending", "failed"} => MailPhase'[m] = "queued"
         /\ ~InHand(m)' /\ status'[m] \in {"absent", "sent"} => MailPhase'[m] = status'[m]
         /\ InHand(m)' /\ status'[m] # "processing" => MailTries'[m] = attempts'[m] - 1
         /\ ~InHand(m)' \/ status'[m] = "processing" => MailTries'[m] = attempts'[m]
  BY DEF Types, Statuses, MailPhase, PhaseOf, MailTries

LEMMA MailFunctions ==
  /\ MailPhase = [m \in Mails |-> MailPhase[m]] /\ MailPhase' = [m \in Mails |-> MailPhase'[m]]
  /\ MailTries = [m \in Mails |-> MailTries[m]] /\ MailTries' = [m \in Mails |-> MailTries'[m]]
  BY Zenon DEF MailPhase, MailTries

\* A mail that no worker takes or lets go of, and whose row stays, looks the same.
LEMMA SameLook ==
  ASSUME Types, Types', NEW m \in Mails, InHand(m)' <=> InHand(m),
         status'[m] = status[m], attempts'[m] = attempts[m]
  PROVE  MailPhase'[m] = MailPhase[m] /\ MailTries'[m] = MailTries[m]
<1>1. status[m] \in Statuses
  BY DEF Types
<1> QED
  BY <1>1, MailPhases, MailPhasesNext DEF Statuses

LEMMA SameQueue ==
  ASSUME \A m \in Mails : MailPhase'[m] = MailPhase[m] /\ MailTries'[m] = MailTries[m]
  PROVE  MailPhase' = MailPhase /\ MailTries' = MailTries
  BY MailFunctions

\* A row is in the hands of the worker in whose batch it is, and of no other.
LEMMA HandsOf ==
  ASSUME OutboxInv, NEW w \in Workers, OthersStay(w), NEW m \in Mails
  PROVE  /\ m \in batch[w] => (InHand(m) <=> pc[w] # "claiming")
         /\ m \in batch[w] => (InHand(m)' <=> pc'[w] # "claiming" /\ m \in batch'[w])
         /\ m \notin batch[w] /\ m \notin batch'[w] => (InHand(m)' <=> InHand(m))
<1>1. m \in batch[w] => \A v \in Workers \ {w} : m \notin batch[v]
  BY DEF OutboxInv, Exclusive
<1>2. \A v \in Workers \ {w} : batch'[v] = batch[v] /\ pc'[v] = pc[v]
  BY DEF OthersStay
<1> QED
  BY <1>1, <1>2 DEF InHand

\* An absent mail is enqueued.
LEMMA EnqueueQueue ==
  ASSUME OutboxInv, Types', Enqueue
  PROVE  \E m \in Mails : Queue!Enqueue(m)
<1> DEFINE n == queued + 1
<1>1. n \in Mails /\ status[n] = "absent" /\ Types
  BY DEF OutboxInv, Types, MailInv, Enqueue, Mails
<1>2. ~InHand(n)
  <2>1. ASSUME NEW w \in Workers, n \in batch[w] PROVE FALSE
    <3>1. WorkerInv(w) /\ pc[w] \in Pcs
      BY DEF OutboxInv, Types
    <3> QED
      BY <1>1, <2>1, <3>1 DEF WorkerInv, CurInv, Open, AtMail, Pcs
  <2> QED
    BY <2>1 DEF InHand
<1>3. \A m \in Mails : InHand(m)' <=> InHand(m)
  BY DEF InHand, Enqueue
<1>4. status'[n] = "pending" /\ (\A m \in Mails \ {n} : status'[m] = status[m])
      /\ UNCHANGED <<attempts, deliveries, faults>>
  BY <1>1 DEF Types, Enqueue
<1> HIDE DEF n
<1>5. MailPhase[n] = "absent" /\ MailPhase'[n] = "queued" /\ MailTries'[n] = MailTries[n]
  BY <1>1, <1>2, <1>3, <1>4, MailPhases, MailPhasesNext
<1>6. \A m \in Mails \ {n} : MailPhase'[m] = MailPhase[m] /\ MailTries'[m] = MailTries[m]
  BY <1>1, <1>3, <1>4, SameLook
<1>7. MailPhase' = [MailPhase EXCEPT ![n] = "queued"] /\ MailTries' = MailTries
  BY <1>1, <1>5, <1>6, MailFunctions
<1> QED
  BY <1>1, <1>4, <1>5, <1>7 DEF Queue!Enqueue

\* The steps of a worker between its mails are invisible, but for the COMMIT of a claim.
LEMMA PlaceQueue ==
  ASSUME OutboxInv, Types', NEW w \in Workers, OthersStay(w),
         UNCHANGED <<status, attempts>>,
         \/ batch[w] = {} /\ (pc'[w] = "claiming" \/ batch'[w] = {})
         \/ batch'[w] = batch[w] /\ pc[w] # "claiming" /\ pc'[w] # "claiming"
  PROVE  MailPhase' = MailPhase /\ MailTries' = MailTries
<1>1. \A m \in Mails : InHand(m)' <=> InHand(m)
  BY DEF InHand, OthersStay
<1> QED
  BY <1>1, SameLook, SameQueue DEF OutboxInv

\* What a committed claim means for the queue, whether its worker hears of it
\* ("taken") or not ("stranded"); the batch may be empty.
LEMMA ClaimedRows ==
  ASSUME OutboxInv, FaultInv, Types', NEW w \in Workers, OthersStay(w), pc[w] = "claiming",
         MarkProcessing(w), UNCHANGED attempts, NEW to \in {"taken", "stranded"},
         \/ to = "taken" /\ pc'[w] = "batch" /\ batch'[w] = batch[w]
         \/ to = "stranded" /\ batch'[w] = {}
  PROVE  /\ MailTries' = MailTries
         /\ batch[w] = {} => MailPhase' = MailPhase
         /\ batch[w] # {} => batch[w] \in SUBSET Mails /\ Queue!Claimed(batch[w], to)
<1>1. Types /\ batch[w] \in SUBSET Mails /\ Cardinality(batch[w]) <= BatchSize
  BY DEF OutboxInv, Types, FaultInv
<1>2. ASSUME NEW m \in batch[w]
      PROVE  /\ MailPhase[m] = "queued" /\ MailTries[m] < MaxAttempts
             /\ MailPhase'[m] = to /\ MailTries'[m] = MailTries[m]
  <2>1. m \in Mails /\ status[m] \in {"pending", "failed"} /\ attempts[m] < MaxAttempts
    BY <1>1 DEF OutboxInv, WorkerInv, Waiting
  <2>2. status'[m] = "processing" /\ attempts'[m] = attempts[m]
    BY <2>1 DEF MarkProcessing
  <2>3. ~InHand(m) /\ (InHand(m)' <=> to = "taken")
    BY <2>1, HandsOf
  <2> QED
    BY <1>1, <2>1, <2>2, <2>3, MailPhases, MailPhasesNext
<1>3. ASSUME NEW m \in Mails, m \notin batch[w]
      PROVE  MailPhase'[m] = MailPhase[m] /\ MailTries'[m] = MailTries[m]
  <2>1. InHand(m)' <=> InHand(m)
    BY <1>3, HandsOf
  <2>2. status'[m] = status[m] /\ attempts'[m] = attempts[m]
    BY <1>3 DEF MarkProcessing
  <2> QED
    BY <1>1, <2>1, <2>2, SameLook
<1>4. MailTries' = MailTries
  BY <1>2, <1>3, MailFunctions
<1>5. MailPhase' = [m \in Mails |-> IF m \in batch[w] THEN to ELSE MailPhase[m]]
  BY <1>2, <1>3, MailFunctions
<1>6. batch[w] = {} => MailPhase' = MailPhase
  BY <1>3, SameQueue
<1> QED
  BY <1>1, <1>2, <1>4, <1>5, <1>6, SameCount DEF Queue!Claimed, Queue!Batch

\* The COMMIT of a claim takes the batch out of the queue.
LEMMA ClaimCommitQueue ==
  ASSUME OutboxInv, FaultInv, Types', NEW w \in Workers, ClaimCommit(w)
  PROVE  \/ UNCHANGED <<MailPhase, MailTries, deliveries, faults>>
         \/ \E S \in SUBSET Mails : Queue!Take(S)
<1>1. /\ pc[w] = "claiming" /\ pc'[w] = "batch" /\ batch'[w] = batch[w] /\ OthersStay(w)
      /\ MarkProcessing(w) /\ UNCHANGED <<attempts, deliveries, faults>>
  BY DEF OutboxInv, Types, ClaimCommit, OthersStay
<1>2. /\ MailTries' = MailTries
      /\ batch[w] = {} => MailPhase' = MailPhase
      /\ batch[w] # {} => batch[w] \in SUBSET Mails /\ Queue!Claimed(batch[w], "taken")
  BY <1>1, ClaimedRows
<1> QED
  BY <1>1, <1>2 DEF Queue!Take

\* The row at hand, as the queue sees it: its try is not on its account yet.
LEMMA RowAtHand ==
  ASSUME OutboxInv, NEW w \in Workers, pc[w] \in AtMail, NEW m, m = cur[w]
  PROVE  /\ m \in Mails /\ m \in batch[w] /\ InHand(m)
         /\ MailPhase[m] = "taken" /\ MailTries[m] = try[w] - 1
         /\ pc[w] = "sending" => deliveries[m] <= MailTries[m]
<1>1. Types /\ CurInv(w) /\ m \in Mails /\ m \in batch[w]
  BY DEF OutboxInv, Types, WorkerInv, CurInv
<1>2. InHand(m)
  BY <1>1 DEF InHand, AtMail
<1>3. \/ status[m] = "processing" /\ attempts[m] = try[w] - 1
      \/ status[m] = "sent" /\ attempts[m] = try[w]
  BY <1>1 DEF CurInv, Open, AtMail
<1>4. MailPhase[m] = "taken" /\ MailTries[m] = try[w] - 1
  BY <1>1, <1>2, <1>3, MailPhases
<1>5. pc[w] = "sending" => deliveries[m] <= attempts[m] /\ attempts[m] = try[w] - 1
  BY <1>1 DEF CurInv, Open, Waiting
<1> QED
  BY <1>1, <1>2, <1>4, <1>5

\* A mail that is sent is handed over, and stays in hand.
LEMMA HandOverQueue ==
  ASSUME OutboxInv, Types', NEW w \in Workers, pc[w] = "sending", OthersStay(w),
         pc'[w] \in AtMail, UNCHANGED <<status, attempts, batch>>,
         deliveries' = [deliveries EXCEPT ![cur[w]] = @ + 1]
  PROVE  UNCHANGED <<MailPhase, MailTries>> /\ \E m \in Mails : Queue!HandOver(m)
<1>1. MailPhase' = MailPhase /\ MailTries' = MailTries
  BY PlaceQueue DEF AtMail
<1>2. /\ cur[w] \in Mails /\ MailPhase[cur[w]] = "taken"
      /\ deliveries[cur[w]] <= MailTries[cur[w]]
  BY RowAtHand DEF AtMail
<1> QED
  BY <1>1, <1>2 DEF Queue!HandOver

LEMMA SendQueue ==
  ASSUME OutboxInv, Types', NEW w \in Workers, Send(w)
  PROVE  \/ UNCHANGED <<MailPhase, MailTries, deliveries, faults>>
         \/ \E m \in Mails : Queue!Deliver(m)
<1>1. /\ pc[w] = "sending" /\ OthersStay(w) /\ pc'[w] \in AtMail
      /\ UNCHANGED <<status, attempts, batch, faults>>
  BY DEF OutboxInv, Types, Send, OthersStay, AtMail, table
<1>2. CASE deliveries' = [deliveries EXCEPT ![cur[w]] = @ + 1]
  BY <1>1, <1>2, HandOverQueue DEF Queue!Deliver
<1>3. CASE UNCHANGED deliveries
  BY <1>1, <1>3, PlaceQueue DEF AtMail
<1> QED
  BY <1>2, <1>3 DEF Send

\* A mail that is marked goes back to the queue or is sent, with one more try.
LEMMA MarkQueue ==
  ASSUME OutboxInv, Types', NEW w \in Workers, Mark(w)
  PROVE  (\E m \in Mails : Queue!Return(m)) /\ UNCHANGED <<deliveries, faults>>
<1>0. PICK m : m = cur[w]
  OBVIOUS
<1>1. /\ pc[w] \in AtMail /\ pc'[w] = "batch" /\ batch'[w] = batch[w] \ {m}
      /\ OthersStay(w) /\ UNCHANGED <<deliveries, faults>>
  BY <1>0 DEF OutboxInv, Types, Mark, Drop, OthersStay, AtMail
<1>2. /\ m \in Mails /\ m \in batch[w] /\ status'[m] \in {"sent", "failed"}
      /\ attempts'[m] = try[w] /\ try[w] \in Nat
      /\ \A n \in Mails \ {m} : status'[n] = status[n] /\ attempts'[n] = attempts[n]
  <2>1. try[w] \in Nat
    BY DEF OutboxInv, Types
  <2> QED
    BY <1>0, <2>1, RecordedRow DEF Mark
<1>3. MailPhase[m] = "taken" /\ MailTries[m] = try[w] - 1
  BY <1>0, <1>1, RowAtHand
<1>4. ~InHand(m)'
  BY <1>1, <1>2, HandsOf
<1>5. MailPhase'[m] \in {"queued", "sent"} /\ MailTries'[m] = try[w]
  BY <1>2, <1>4, MailPhasesNext
<1>6. ASSUME NEW n \in Mails, n # m
      PROVE  MailPhase'[n] = MailPhase[n] /\ MailTries'[n] = MailTries[n]
  <2>1. InHand(n)' <=> InHand(n)
    BY <1>1, <1>6, HandsOf DEF AtMail
  <2> QED
    BY <1>2, <1>6, <2>1, SameLook DEF OutboxInv
<1>7. MailPhase' = [MailPhase EXCEPT ![m] = MailPhase'[m]]
  BY <1>2, <1>6, MailFunctions
<1>8. MailTries' = [MailTries EXCEPT ![m] = @ + 1]
  BY <1>2, <1>3, <1>5, <1>6, MailFunctions
<1>9. Queue!Return(m)
  BY <1>1, <1>3, <1>5, <1>7, <1>8 DEF Queue!Return
<1> QED
  BY <1>1, <1>2, <1>9

\* A worker at a mail, or between two, gives its batch up: whatever it had not
\* recorded is stranded.
LEMMA GivenUpQueue ==
  ASSUME OutboxInv, FaultInv, Types', OneFault, NEW w \in Workers, OthersStay(w),
         pc[w] # "claiming", batch'[w] = {}, UNCHANGED deliveries,
         NEW R \in SUBSET batch[w], NEW p \in {"queued", "sent"}, Cardinality(R) <= 1,
         \A m \in R : MailPhase'[m] = p /\ MailTries'[m] = MailTries[m] + 1,
         \A m \in batch[w] \ R : status[m] = "processing",
         \A m \in Mails \ R : status'[m] = status[m] /\ attempts'[m] = attempts[m]
  PROVE  Queue!Harmless \/ \E S \in SUBSET Mails : Queue!LoseBatch(S)
<1>1. Types /\ batch[w] \in SUBSET Mails /\ Cardinality(batch[w]) <= BatchSize
  BY DEF OutboxInv, Types, FaultInv
<1>2. \A m \in batch[w] : InHand(m) /\ ~InHand(m)'
  BY <1>1, HandsOf
<1>3. \A m \in batch[w] : MailPhase[m] = "taken"
  BY <1>1, <1>2, MailPhases
<1>4. \A m \in batch[w] \ R : MailPhase'[m] = "stranded" /\ MailTries'[m] = MailTries[m]
  <2> SUFFICES ASSUME NEW m \in batch[w] \ R
               PROVE  MailPhase'[m] = "stranded" /\ MailTries'[m] = MailTries[m]
    OBVIOUS
  <2>1. m \in Mails /\ status[m] = "processing" /\ status'[m] = "processing"
        /\ attempts'[m] = attempts[m]
    BY <1>1
  <2> QED
    BY <1>1, <1>2, <2>1, MailPhases, MailPhasesNext
<1>5. ASSUME NEW m \in Mails, m \notin batch[w]
      PROVE  MailPhase'[m] = MailPhase[m] /\ MailTries'[m] = MailTries[m]
  <2>1. InHand(m)' <=> InHand(m)
    BY <1>5, HandsOf
  <2> QED
    BY <1>1, <1>5, <2>1, SameLook
<1>6. CASE batch[w] = {}
  <2>1. MailPhase' = MailPhase /\ MailTries' = MailTries
    BY <1>5, <1>6, SameQueue
  <2> QED
    BY <2>1 DEF Queue!Harmless, Queue!OneFault, OneFault
<1>7. CASE batch[w] # {}
  <2>1. MailPhase' = [m \in Mails |-> IF m \in R THEN p
                                      ELSE IF m \in batch[w] THEN "stranded" ELSE MailPhase[m]]
    BY <1>1, <1>4, <1>5, MailFunctions
  <2>2. MailTries' = [m \in Mails |-> IF m \in R THEN MailTries[m] + 1 ELSE MailTries[m]]
    BY <1>1, <1>4, <1>5, MailFunctions
  <2>3. Queue!Batch(batch[w]) /\ Queue!Cardinality(R) <= 1
    BY <1>1, <1>7, SameCount DEF Queue!Batch
  <2>4. Queue!LoseBatch(batch[w])
    BY <1>3, <2>1, <2>2, <2>3 DEF Queue!LoseBatch, Queue!OneFault, OneFault
  <2> QED
    BY <1>1, <2>4
<1> QED
  BY <1>6, <1>7

\* The batch is given up and its rows stay as they are: a row that says "sent",
\* unheard, is sent; the others are stranded.
LEMMA LetGoQueue ==
  ASSUME OutboxInv, FaultInv, Types', OneFault, NEW w \in Workers, OthersStay(w),
         pc[w] # "claiming", batch'[w] = {}, UNCHANGED <<status, attempts, deliveries>>
  PROVE  Queue!Harmless \/ \E S \in SUBSET Mails : Queue!LoseBatch(S)
<1>0. PICK m : m = cur[w]
  OBVIOUS
<1>1. Types /\ WorkerInv(w) /\ pc[w] \in Pcs
  BY DEF OutboxInv, Types
<1>2. CASE pc[w] = "failing" /\ status[m] = "sent"
  <2>1. m \in Mails /\ m \in batch[w] /\ InHand(m) /\ attempts[m] = try[w] /\ try[w] \in Nat
        /\ \A n \in batch[w] \ {m} : status[n] = "processing"
    BY <1>0, <1>1, <1>2, RowAtHand DEF Types, WorkerInv, CurInv, Open, AtMail
  <2>2. ~InHand(m)'
    BY <2>1, HandsOf
  <2>3. MailPhase'[m] = "sent" /\ MailTries'[m] = MailTries[m] + 1
    <3>1. MailTries[m] = try[w] - 1
      BY <1>0, <1>2, RowAtHand DEF AtMail
    <3>2. MailPhase'[m] = "sent" /\ MailTries'[m] = try[w]
      BY <1>2, <2>1, <2>2, MailPhasesNext
    <3> QED
      BY <2>1, <3>1, <3>2
  <2>4. Cardinality({m}) <= 1 /\ {m} \in SUBSET batch[w]
    <3>1. Cardinality({m}) = 1
      BY FS_Singleton, Zenon
    <3> QED
      BY <2>1, <3>1
  <2> QED
    BY <2>1, <2>3, <2>4, GivenUpQueue
<1>3. CASE ~(pc[w] = "failing" /\ status[m] = "sent")
  <2>1. \A n \in batch[w] : status[n] = "processing"
    BY <1>0, <1>1, <1>3 DEF WorkerInv, CurInv, Open, AtMail, Pcs
  <2>2. Cardinality({}) <= 1
    BY FS_EmptySet
  <2> QED
    BY <2>1, <2>2, GivenUpQueue
<1> QED
  BY <1>2, <1>3

\* A claim that fails is as if it had never been made; one whose answer is lost
\* strands its rows.
LEMMA ClaimLostQueue ==
  ASSUME OutboxInv, FaultInv, Types', NEW w \in Workers, ClaimLost(w)
  PROVE  Queue!Harmless \/ \E S \in SUBSET Mails : Queue!LoseClaim(S)
<1>1. /\ pc[w] = "claiming" /\ pc'[w] = "sleep" /\ batch'[w] = {} /\ OthersStay(w)
      /\ OneFault /\ UNCHANGED <<attempts, deliveries>> /\ Types
  BY DEF OutboxInv, Types, ClaimLost, Abandon, OthersStay
<1>2. CASE UNCHANGED status
  <2>1. ASSUME NEW m \in Mails PROVE InHand(m)' <=> InHand(m)
    BY <1>1, HandsOf
  <2>2. MailPhase' = MailPhase /\ MailTries' = MailTries
    BY <1>1, <1>2, <2>1, SameLook, SameQueue
  <2> QED
    BY <1>1, <2>2 DEF Queue!Harmless, Queue!OneFault, OneFault
<1>3. CASE MarkProcessing(w)
  <2>1. /\ MailTries' = MailTries
        /\ batch[w] = {} => MailPhase' = MailPhase
        /\ batch[w] # {} => batch[w] \in SUBSET Mails /\ Queue!Claimed(batch[w], "stranded")
    BY <1>1, <1>3, ClaimedRows
  <2> QED
    BY <1>1, <2>1 DEF Queue!Harmless, Queue!LoseClaim, Queue!OneFault, OneFault
<1> QED
  BY <1>2, <1>3 DEF ClaimLost

\* Whether markSent was applied unheard does not show: the mail is in hand.
LEMMA MarkSentLostQueue ==
  ASSUME OutboxInv, Types', NEW w \in Workers, MarkSentLost(w)
  PROVE  Queue!Harmless
<1>0. PICK m : m = cur[w]
  OBVIOUS
<1>1. /\ pc[w] = "marking" /\ pc'[w] = "failing" /\ OthersStay(w)
      /\ OneFault /\ UNCHANGED <<deliveries, batch>> /\ Types
  BY DEF OutboxInv, Types, MarkSentLost, OthersStay
<1>2. /\ m \in Mails /\ m \in batch[w] /\ InHand(m) /\ status[m] = "processing"
      /\ attempts[m] = try[w] - 1 /\ try[w] \in Nat
      /\ MailPhase[m] = "taken" /\ MailTries[m] = try[w] - 1
  BY <1>0, <1>1, RowAtHand DEF OutboxInv, Types, WorkerInv, CurInv, AtMail
<1>3. /\ \A n \in Mails \ {m} : status'[n] = status[n] /\ attempts'[n] = attempts[n]
      /\ \/ status'[m] = "processing" /\ attempts'[m] = try[w] - 1
         \/ status'[m] = "sent" /\ attempts'[m] = try[w]
  BY <1>0, <1>1, <1>2 DEF Types, MarkSentLost, RecordSent, table
<1>4. \A n \in Mails : InHand(n)' <=> InHand(n)
  BY <1>1 DEF InHand, OthersStay
<1>5. MailPhase'[m] = MailPhase[m] /\ MailTries'[m] = MailTries[m]
  BY <1>2, <1>3, <1>4, MailPhasesNext
<1>6. MailPhase' = MailPhase /\ MailTries' = MailTries
  BY <1>1, <1>3, <1>4, <1>5, SameLook, SameQueue
<1> QED
  BY <1>1, <1>6 DEF Queue!Harmless, Queue!OneFault, OneFault

\* markFailed throws: if it was applied, the mail is back in the queue.
LEMMA MarkFailedLostQueue ==
  ASSUME OutboxInv, FaultInv, Types', NEW w \in Workers, MarkFailedLost(w)
  PROVE  Queue!Harmless \/ \E S \in SUBSET Mails : Queue!LoseBatch(S)
<1>0. PICK m : m = cur[w]
  OBVIOUS
<1>1. /\ pc[w] = "failing" /\ pc'[w] = "sleep" /\ batch'[w] = {} /\ OthersStay(w)
      /\ OneFault /\ UNCHANGED deliveries /\ Types
  BY DEF OutboxInv, Types, MarkFailedLost, Abandon, OthersStay
<1>2. CASE UNCHANGED table
  BY <1>1, <1>2, LetGoQueue DEF table
<1>3. CASE RecordFailed(w)
  <2>1. /\ m \in Mails /\ m \in batch[w] /\ InHand(m) /\ try[w] \in Nat
        /\ MailTries[m] = try[w] - 1
        /\ \A n \in batch[w] \ {m} : status[n] = "processing"
    BY <1>0, <1>1, RowAtHand DEF OutboxInv, Types, WorkerInv, Open, AtMail
  <2>2. /\ status'[m] = "failed" /\ attempts'[m] = try[w]
        /\ \A n \in Mails \ {m} : status'[n] = status[n] /\ attempts'[n] = attempts[n]
    BY <1>0, <1>1, <1>3, <2>1 DEF Types, RecordFailed
  <2>3. ~InHand(m)'
    BY <1>1, <2>1, HandsOf
  <2>4. MailPhase'[m] = "queued" /\ MailTries'[m] = MailTries[m] + 1
    <3>1. MailPhase'[m] = "queued" /\ MailTries'[m] = try[w]
      BY <2>1, <2>2, <2>3, MailPhasesNext
    <3> QED
      BY <2>1, <3>1
  <2>5. Cardinality({m}) <= 1 /\ {m} \in SUBSET batch[w]
    <3>1. Cardinality({m}) = 1
      BY FS_Singleton, Zenon
    <3> QED
      BY <2>1, <3>1
  <2> QED
    BY <1>1, <2>1, <2>2, <2>4, <2>5, GivenUpQueue
<1> QED
  BY <1>2, <1>3 DEF MarkFailedLost

\* A crash rolls an open claim back and strands what was in hand.
LEMMA CrashQueue ==
  ASSUME OutboxInv, FaultInv, Types', NEW w \in Workers, Crash(w)
  PROVE  Queue!Harmless \/ \E S \in SUBSET Mails : Queue!LoseBatch(S)
<1>1. /\ pc'[w] = "down" /\ batch'[w] = {} /\ OthersStay(w) /\ OneFault
      /\ UNCHANGED <<status, attempts, deliveries>> /\ Types
  BY DEF OutboxInv, Types, Crash, Abandon, OthersStay, table
<1>2. CASE pc[w] = "claiming"
  <2>1. ASSUME NEW m \in Mails PROVE InHand(m)' <=> InHand(m)
    BY <1>1, <1>2, HandsOf
  <2>2. MailPhase' = MailPhase /\ MailTries' = MailTries
    BY <1>1, <2>1, SameLook, SameQueue
  <2> QED
    BY <1>1, <2>2 DEF Queue!Harmless, Queue!OneFault, OneFault
<1>3. CASE pc[w] # "claiming"
  BY <1>1, <1>3, LetGoQueue
<1> QED
  BY <1>2, <1>3

LEMMA SendAnswerLostQueue ==
  ASSUME OutboxInv, Types', NEW w \in Workers, SendAnswerLost(w)
  PROVE  Queue!Harmless
<1>1. /\ pc[w] = "sending" /\ pc'[w] \in AtMail /\ OthersStay(w) /\ OneFault
      /\ UNCHANGED <<status, attempts, batch>>
      /\ deliveries' = [deliveries EXCEPT ![cur[w]] = @ + 1]
  BY DEF OutboxInv, Types, SendAnswerLost, OthersStay, AtMail, table
<1>2. UNCHANGED <<MailPhase, MailTries>> /\ \E m \in Mails : Queue!HandOver(m)
  BY <1>1, HandOverQueue
<1> QED
  BY <1>1, <1>2 DEF Queue!Harmless, Queue!OneFault, OneFault

\* The empty outbox is the empty queue.
LEMMA InitQueue == Init => Queue!Init
<1> SUFFICES ASSUME Init PROVE Queue!Init
  OBVIOUS
<1>1. OutboxInv /\ Types
  BY InitOutbox DEF OutboxInv
<1>2. \A m \in Mails : ~InHand(m) /\ status[m] = "absent" /\ attempts[m] = 0
  BY DEF Init, InHand
<1>3. \A m \in Mails : MailPhase[m] = "absent" /\ MailTries[m] = 0
  BY <1>1, <1>2, MailPhases
<1>4. MailPhase = [m \in Mails |-> "absent"] /\ MailTries = [m \in Mails |-> 0]
  BY <1>3, MailFunctions
<1> QED
  BY <1>4 DEF Init, Queue!Init

\* Every step of the outbox is one of the queue, or none.
LEMMA NextQueue ==
  OutboxInv /\ FaultInv /\ Types' /\ [Next]_vars => [Queue!Next]_(Queue!queue)
<1> SUFFICES ASSUME OutboxInv, FaultInv, Types', [Next]_vars
             PROVE  Queue!Next \/ UNCHANGED <<MailPhase, MailTries, deliveries, faults>>
  BY DEF Queue!queue
<1> DEFINE Goal == Queue!Next \/ UNCHANGED <<MailPhase, MailTries, deliveries, faults>>
<1>1. CASE UNCHANGED <<status, attempts, deliveries, pc, batch, faults>>
  <2>1. \A m \in Mails : InHand(m)' <=> InHand(m)
    BY <1>1 DEF InHand
  <2> QED
    BY <1>1, <2>1, SameLook, SameQueue DEF OutboxInv
<1>2. CASE Enqueue
  BY <1>2, EnqueueQueue DEF Queue!Next
<1>3. CASE Tick \/ UNCHANGED vars
  BY <1>1, <1>3 DEF Tick, vars
<1>4. ASSUME NEW w \in Workers, Work(w) \/ Restart(w) PROVE Goal
  <2>1. WorkerInv(w) /\ Types
    BY DEF OutboxInv
  <2>2. CASE ClaimSelect(w)
    <3>1. batch[w] = {} /\ pc'[w] = "claiming" /\ OthersStay(w)
          /\ UNCHANGED <<status, attempts, deliveries, faults>>
      BY <2>1, <2>2 DEF Types, WorkerInv, ClaimSelect, OthersStay, table
    <3> QED
      BY <3>1, PlaceQueue
  <2>3. CASE ClaimCommit(w)
    BY <2>3, ClaimCommitQueue DEF Queue!Next
  <2>4. CASE TakeRow(w) \/ EndBatch(w) \/ Exit(w) \/ Restart(w)
    <3>1. pc[w] # "claiming" /\ pc'[w] # "claiming" /\ batch'[w] = batch[w] /\ OthersStay(w)
          /\ UNCHANGED <<status, attempts, deliveries, faults>>
      BY <2>1, <2>4 DEF Types, TakeRow, EndBatch, Exit, Restart, OthersStay, table
    <3> QED
      BY <3>1, PlaceQueue
  <2>5. CASE Send(w)
    BY <2>5, SendQueue DEF Queue!Next
  <2>6. CASE Mark(w)
    BY <2>6, MarkQueue DEF Queue!Next
  <2> QED
    BY <1>4, <2>2, <2>3, <2>4, <2>5, <2>6 DEF Work
<1>5. ASSUME NEW w \in Workers, Trouble(w) PROVE Goal
  <2>1. CASE Signal(w)
    BY <1>1, <2>1 DEF Signal, table
  <2>2. CASE ClaimLost(w)
    BY <2>2, ClaimLostQueue DEF Queue!Next
  <2>3. CASE SendAnswerLost(w)
    BY <2>3, SendAnswerLostQueue DEF Queue!Next
  <2>4. CASE MarkSentLost(w)
    BY <2>4, MarkSentLostQueue DEF Queue!Next
  <2>5. CASE MarkFailedLost(w)
    BY <2>5, MarkFailedLostQueue DEF Queue!Next
  <2>6. CASE Crash(w)
    BY <2>6, CrashQueue DEF Queue!Next
  <2> QED
    BY <1>5, <2>1, <2>2, <2>3, <2>4, <2>5, <2>6 DEF Trouble
<1> QED
  BY <1>2, <1>3, <1>4, <1>5 DEF Next

\* email-outbox-worker.ts: table and workers keep the promise of MailQueue, for any
\* number of workers, mails and faults.
THEOREM OutboxIsAQueue == Spec => ImplementsMailQueue
<1>1. OutboxInv' => Types'
  BY DEF OutboxInv
<1>2. OutboxInv /\ FaultInv /\ OutboxInv' /\ [Next]_vars => [Queue!Next]_(Queue!queue)
  BY <1>1, NextQueue
<1> QED
  BY <1>2, InitQueue, OutboxInvariance, FaultsAccountedFor, PTL
     DEF Spec, ImplementsMailQueue, Queue!Spec

-----------------------------------------------------------------------------
(* What is settled *)

\* A mail sent, or stranded, stays what it is, and is not handed over again.
SettledMailsStay ==
  \A m \in Mails : MailPhase[m] \in {"sent", "stranded"} =>
    MailPhase'[m] = MailPhase[m] /\ deliveries'[m] = deliveries[m]

\* The queue works on queued and taken mails only.
LEMMA QueueLeavesSettled ==
  ASSUME OutboxInv, [Queue!Next]_(Queue!queue)
  PROVE  SettledMailsStay
<1> SUFFICES ASSUME NEW m \in Mails, MailPhase[m] \in {"sent", "stranded"}
             PROVE  MailPhase'[m] = MailPhase[m] /\ deliveries'[m] = deliveries[m]
  BY DEF SettledMailsStay
<1>1. DOMAIN MailPhase = Mails /\ DOMAIN deliveries = Mails
  BY DEF MailPhase, OutboxInv, Types
<1> DEFINE Kept == MailPhase'[m] = MailPhase[m] /\ deliveries'[m] = deliveries[m]
<1>2. CASE UNCHANGED Queue!queue
  BY <1>2 DEF Queue!queue
<1>3. ASSUME NEW k \in Mails, Queue!Enqueue(k) \/ Queue!Deliver(k) \/ Queue!Return(k)
      PROVE  Kept
  <2>1. CASE Queue!Enqueue(k)
    BY <1>1, <2>1 DEF Queue!Enqueue
  <2>2. CASE Queue!Deliver(k)
    BY <1>1, <2>2 DEF Queue!Deliver, Queue!HandOver
  <2>3. CASE Queue!Return(k)
    BY <1>1, <2>3 DEF Queue!Return
  <2> QED
    BY <1>3, <2>1, <2>2, <2>3
<1>4. ASSUME NEW S \in SUBSET Mails, Queue!Take(S) \/ Queue!LoseClaim(S) \/ Queue!LoseBatch(S)
      PROVE  Kept
  <2>1. CASE Queue!Take(S) \/ Queue!LoseClaim(S)
    BY <2>1 DEF Queue!Take, Queue!LoseClaim, Queue!Claimed
  <2>2. CASE Queue!LoseBatch(S)
    <3>1. m \notin S /\ deliveries' = deliveries
      BY <2>2 DEF Queue!LoseBatch
    <3>2. PICK R \in SUBSET S, p \in {"queued", "sent"} :
            MailPhase' = [k \in Mails |-> IF k \in R THEN p
                                          ELSE IF k \in S THEN "stranded" ELSE MailPhase[k]]
      BY <2>2 DEF Queue!LoseBatch
    <3> QED
      BY <3>1, <3>2
  <2> QED
    BY <1>4, <2>1, <2>2
<1>5. CASE Queue!Harmless
  BY <1>1, <1>5 DEF Queue!Harmless, Queue!HandOver
<1> QED
  BY <1>2, <1>3, <1>4, <1>5 DEF Queue!Next

\* email-outbox-worker.ts: once a worker has let go of a mail it has recorded as
\* sent, no worker, retry or crash sends it again; and no claim takes up what a
\* crash has left in processing.
THEOREM SettledMailsAreFinal == Spec => [][SettledMailsStay]_vars
<1>1. OutboxInv /\ FaultInv /\ OutboxInv' /\ [Next]_vars => [SettledMailsStay]_vars
  BY NextQueue, QueueLeavesSettled DEF OutboxInv
<1> QED
  BY <1>1, OutboxInvariance, FaultsAccountedFor, PTL DEF Spec

-----------------------------------------------------------------------------
(* Types *)

\* PowerOfTwo is the function its definition asks for: there is one.
LEMMA PowerOfTwoExists ==
  PowerOfTwo = [n \in 0..MaxAttempts |-> IF n = 0 THEN 1 ELSE 2 * PowerOfTwo[n - 1]]
<1> DEFINE Dom == 0..MaxAttempts
           UpTo(f, n) == \A k \in Dom : k <= n => f[k] = IF k = 0 THEN 1 ELSE 2 * f[k - 1]
           Bad == {n \in Nat : ~ \E f \in [Dom -> Nat] : UpTo(f, n)}
<1>1. Bad = {}
  <2> SUFFICES ASSUME Bad # {} PROVE FALSE
    OBVIOUS
  <2>1. PICK b \in Bad : \A n \in Bad : b <= n
    <3>1. Bad \in SUBSET Nat
      OBVIOUS
    <3> HIDE DEF Bad
    <3> QED
      BY <3>1, Least
  <2>2. b \in Nat /\ ~ \E f \in [Dom -> Nat] : UpTo(f, b)
    OBVIOUS
  <2>3. b # 0
    <3>1. [k \in Dom |-> 1] \in [Dom -> Nat] /\ UpTo([k \in Dom |-> 1], 0)
      OBVIOUS
    <3> QED
      BY <2>2, <3>1
  <2>4. PICK f \in [Dom -> Nat] : UpTo(f, b - 1)
    <3>1. b - 1 \in Nat /\ ~(b <= b - 1)
      BY <2>2, <2>3
    <3>2. b - 1 \notin Bad
      <4> HIDE DEF Bad
      <4> QED
        BY <2>1, <3>1
    <3> HIDE DEF UpTo, Dom
    <3> QED
      BY <3>1, <3>2
  <2>5. CASE b \in Dom
    <3> DEFINE g == [f EXCEPT ![b] = 2 * f[b - 1]]
    <3>0. b - 1 \in Dom /\ f[b - 1] \in Nat
      BY <2>2, <2>3, <2>5
    <3>1. g \in [Dom -> Nat] /\ g[b] = 2 * f[b - 1] /\ \A k \in Dom \ {b} : g[k] = f[k]
      <4> HIDE DEF Dom
      <4>1. 2 * f[b - 1] \in Nat
        BY <3>0
      <4> QED
        BY <2>5, <4>1
    <3> HIDE DEF g
    <3>2. ASSUME NEW k \in Dom, k <= b PROVE g[k] = IF k = 0 THEN 1 ELSE 2 * g[k - 1]
      <4>1. CASE k = b
        BY <2>3, <2>5, <3>0, <3>1, <4>1
      <4>2. CASE k # b
        <5>1. k <= b - 1 /\ k - 1 # b /\ (k # 0 => k - 1 \in Dom)
          BY <2>2, <3>2, <4>2
        <5>2. f[k] = IF k = 0 THEN 1 ELSE 2 * f[k - 1]
          BY <2>4, <5>1
        <5> QED
          BY <3>1, <4>2, <5>1, <5>2
      <4> QED
        BY <4>1, <4>2
    <3> QED
      BY <2>2, <3>1, <3>2 DEF UpTo
  <2>6. CASE b \notin Dom
    <3>1. UpTo(f, b)
      BY <2>2, <2>4, <2>6
    <3> QED
      BY <2>2, <3>1
  <2> QED
    BY <2>5, <2>6
<1>2. PICK f \in [Dom -> Nat] : UpTo(f, MaxAttempts)
  BY <1>1
<1>3. f = [n \in Dom |-> IF n = 0 THEN 1 ELSE 2 * f[n - 1]]
  BY <1>2
<1> QED
  BY <1>3 DEF PowerOfTwo

LEMMA PowerOfTwoType == ASSUME NEW n \in 0..MaxAttempts PROVE PowerOfTwo[n] \in Nat
<1> DEFINE Bad == {k \in Nat : k \in 0..MaxAttempts /\ PowerOfTwo[k] \notin Nat}
<1>1. \A k \in 0..MaxAttempts : PowerOfTwo[k] = IF k = 0 THEN 1 ELSE 2 * PowerOfTwo[k - 1]
  BY PowerOfTwoExists
<1>2. Bad = {}
  <2> SUFFICES ASSUME Bad # {} PROVE FALSE
    OBVIOUS
  <2>1. PICK b \in Bad : \A k \in Bad : b <= k
    <3>1. Bad \in SUBSET Nat
      OBVIOUS
    <3> HIDE DEF Bad
    <3> QED
      BY <3>1, Least
  <2>2. b \in Nat /\ b \in 0..MaxAttempts /\ PowerOfTwo[b] \notin Nat
    OBVIOUS
  <2>3. b # 0
    BY <1>1, <2>2
  <2>4. b - 1 \in 0..MaxAttempts /\ b - 1 \notin Bad
    BY <2>1, <2>2, <2>3
  <2>5. PowerOfTwo[b - 1] \in Nat
    BY <2>4
  <2> QED
    BY <1>1, <2>2, <2>3, <2>5
<1> QED
  BY <1>2

\* computeBackoffMs gives a delay.
LEMMA BackoffType == ASSUME NEW n \in 1..MaxAttempts PROVE Backoff(n) \in Nat
<1>1. n - 1 \in 0..MaxAttempts /\ n > 0
  OBVIOUS
<1>2. PowerOfTwo[n - 1] \in Nat
  BY <1>1, PowerOfTwoType
<1>3. BackoffBase * PowerOfTwo[n - 1] \in Nat
  BY <1>2
<1> QED
  BY <1>1, <1>3 DEF Backoff

\* email-outbox-worker.ts: every variable keeps its type; attempts and the try under
\* way never pass MaxAttempts.
THEOREM OutboxTypeCorrect == Spec => []TypeOK
<1> DEFINE Rest == /\ wait \in [Mails -> Nat] /\ running \in [Workers -> BOOLEAN]
                   /\ emailMode \in EmailModes
<1>1. Init => Rest
  BY DEF Init
<1>2. OutboxInv /\ Rest /\ [Next]_vars => Rest'
  <2> SUFFICES ASSUME OutboxInv, Rest, [Next]_vars PROVE Rest'
    OBVIOUS
  <2>1. ASSUME NEW w \in Workers, RecordFailed(w), pc[w] = "failing"
        PROVE  wait' \in [Mails -> Nat]
    <3>1. try[w] \in 1..MaxAttempts /\ cur[w] \in Mails
      BY <2>1 DEF OutboxInv, Types, WorkerInv, CurInv, AtMail
    <3>2. Backoff(try[w]) \in Nat
      BY <3>1, BackoffType
    <3> QED
      BY <2>1, <3>1, <3>2 DEF RecordFailed
  <2>2. CASE Enqueue \/ Tick \/ UNCHANGED vars
    BY <2>2 DEF Enqueue, Tick, vars
  <2>3. ASSUME NEW w \in Workers, Work(w) PROVE Rest'
    <3>1. CASE Mark(w)
      BY <2>1, <3>1 DEF Mark, RecordSent
    <3>2. CASE ClaimCommit(w)
      BY <3>2 DEF ClaimCommit, MarkProcessing
    <3>3. CASE ClaimSelect(w) \/ TakeRow(w) \/ Send(w) \/ EndBatch(w) \/ Exit(w)
      BY <3>3 DEF ClaimSelect, TakeRow, Send, EndBatch, Exit, table
    <3> QED
      BY <2>3, <3>1, <3>2, <3>3 DEF Work
  <2>4. ASSUME NEW w \in Workers, Trouble(w) PROVE Rest'
    <3>1. CASE MarkFailedLost(w)
      BY <2>1, <3>1 DEF MarkFailedLost, table
    <3>2. CASE ClaimLost(w)
      BY <3>2 DEF ClaimLost, MarkProcessing
    <3>3. CASE Signal(w) \/ SendAnswerLost(w) \/ MarkSentLost(w) \/ Crash(w)
      BY <3>3 DEF Signal, SendAnswerLost, MarkSentLost, Crash, RecordSent, table
    <3> QED
      BY <2>4, <3>1, <3>2, <3>3 DEF Trouble
  <2>5. ASSUME NEW w \in Workers, Restart(w) PROVE Rest'
    BY <2>5 DEF Restart, table
  <2> QED
    BY <2>2, <2>3, <2>4, <2>5 DEF Next
<1>3. OutboxInv /\ FaultInv /\ Rest => TypeOK
  BY DEF OutboxInv, Types, FaultInv, TypeOK
<1> QED
  BY <1>1, <1>2, <1>3, OutboxInvariance, FaultsAccountedFor, PTL DEF Spec
=============================================================================
