------------------------- MODULE ServerPartsProofs -------------------------
(***************************************************************************)
(* Proofs about two parts that share no state, each for every value of its *)
(* constants: the bounds of the rate limiter, and the order of migrations. *)
(***************************************************************************)
EXTENDS RecoveryRateLimiter, Migrations, TLAPS

-----------------------------------------------------------------------------
(* The rate limiter, for every set of keys, limit, window and bound of the *)
(* clock.  LimiterInv is inductive.                                        *)

\* What LimiterInv says of one key.
KeyInv(k) ==
  /\ buckets[k] \in Buckets \cup {NoBucket}
  /\ seen[k] \in Nat
  /\ refusedSince[k] \in Nat \cup {-1}
  /\ buckets[k] # NoBucket => buckets[k].resetAtMs <= nowMs + WindowMs
  /\ BucketBound(k)
  /\ seen[k] < 2 * MaxAttempts + forgotten
  /\ refusedSince[k] # -1 /\ buckets[k] # NoBucket
       => refusedSince[k] <= nowMs /\ buckets[k].resetAtMs <= refusedSince[k] + WindowMs

Shape ==
  /\ buckets = [k \in Keys |-> buckets[k]]
  /\ seen = [k \in Keys |-> seen[k]]
  /\ refusedSince = [k \in Keys |-> refusedSince[k]]
  /\ nowMs \in Nat /\ mark \in Nat /\ forgotten \in Nat
  /\ mark <= nowMs

\* LimiterInv, key by key.
LEMMA ByKey == LimiterInv <=> Shape /\ \A k \in Keys : KeyInv(k)
  BY DEF LimiterInv, TypeOK, WindowBound, KeyInv, Shape

\* ByKey, in the next state.
LEMMA ByKeyPrimed == LimiterInv' <=> Shape' /\ \A k \in Keys : KeyInv(k)'
  BY DEF LimiterInv, TypeOK, WindowBound, KeyInv, Shape, BucketBound

\* A bucket is a record of its two fields.
LEMMA BucketParts ==
  ASSUME NEW b \in Buckets
  PROVE  b.count \in 1..MaxAttempts /\ b.resetAtMs \in Nat /\ b # NoBucket
  BY NoBucketAssumption DEF Buckets

\* The bucket a first call opens.
LEMMA NewBucket ==
  ASSUME NEW n \in 1..MaxAttempts, NEW r \in Nat
  PROVE  [count |-> n, resetAtMs |-> r] \in Buckets
  BY DEF Buckets

\* A step that leaves a key alone keeps what is known of it.
LEMMA KeyUntouched ==
  ASSUME NEW k, KeyInv(k),
         buckets'[k] = buckets[k], seen'[k] = seen[k], refusedSince'[k] = refusedSince[k],
         UNCHANGED <<nowMs, mark, forgotten>>
  PROVE  KeyInv(k)'
  BY DEF KeyInv, BucketBound

-----------------------------------------------------------------------------
\* No bucket before the first call.
LEMMA InitInv == Init => LimiterInv
<1> SUFFICES ASSUME Init PROVE Shape /\ \A k \in Keys : KeyInv(k)
  BY ByKey
<1>1. Shape
  BY DEF Init, Shape
<1>2. ASSUME NEW k \in Keys PROVE KeyInv(k)
  <2>1. buckets[k] = NoBucket /\ seen[k] = 0 /\ refusedSince[k] = -1 /\ forgotten = 0
    BY DEF Init
  <2> QED
    BY <2>1, LimiterAssumption DEF KeyInv, BucketBound
<1> QED
  BY <1>1, <1>2

\* An admitted call: a bucket that is opened, or a call counted in the one in force.
LEMMA AdmitInv ==
  ASSUME LimiterInv, NEW k \in Keys, OpenBucket(k) \/ CountCall(k)
  PROVE  LimiterInv'
<1>1. Shape /\ \A j \in Keys : KeyInv(j)
  BY ByKey
<1>2. Shape'
  BY <1>1 DEF Shape, OpenBucket, CountCall, Admit
<1>3. ASSUME NEW j \in Keys, j # k PROVE KeyInv(j)'
  BY <1>1, <1>3, KeyUntouched DEF Shape, OpenBucket, CountCall, Admit
<1>4. KeyInv(k)'
  <2> USE LimiterAssumption
  <2>1. /\ seen'[k] = IF Observed THEN seen[k] + 1 ELSE seen[k]
        /\ refusedSince'[k] = -1 /\ UNCHANGED <<nowMs, mark, forgotten>>
    BY <1>1 DEF Shape, OpenBucket, CountCall, Admit
  <2>2. seen[k] \in Nat /\ nowMs \in Nat /\ mark \in Nat /\ forgotten \in Nat /\ mark <= nowMs
    BY <1>1 DEF KeyInv, Shape
  <2>3. CASE OpenBucket(k)
    <3>1. buckets'[k] = [count |-> 1, resetAtMs |-> nowMs + WindowMs]
      BY <1>1, <2>3 DEF Shape, OpenBucket
    <3>2. Observed => seen[k] < MaxAttempts + forgotten
      <4>1. CASE buckets[k] = NoBucket
        BY <1>1, <4>1 DEF KeyInv, BucketBound, Observed
      <4>2. CASE buckets[k] # NoBucket
        <5>1. buckets[k].count \in 1..MaxAttempts /\ buckets[k].resetAtMs \in Nat
          BY <1>1, <4>2, BucketParts DEF KeyInv
        <5>2. buckets[k].resetAtMs <= nowMs
          BY <2>2, <2>3, <4>2, <5>1 DEF OpenBucket, InForce
        <5> QED
          BY <1>1, <2>2, <4>2, <5>1, <5>2 DEF KeyInv, BucketBound, Observed
      <4> QED
        BY <4>1, <4>2
    <3>3. buckets'[k] \in Buckets
      BY <3>1, <2>2, NewBucket
    <3>4. /\ buckets'[k].count = 1 /\ buckets'[k].resetAtMs = nowMs + WindowMs
          /\ buckets'[k] # NoBucket
      BY <3>1, <3>3, NoBucketAssumption
    <3>5. seen'[k] \in Nat /\ seen'[k] < 2 * MaxAttempts + forgotten
      BY <1>1, <2>1, <2>2, <3>2 DEF KeyInv
    <3>6. BucketBound(k)'
      BY <2>1, <2>2, <3>2, <3>4 DEF BucketBound, Observed
    <3> QED
      BY <2>1, <2>2, <3>3, <3>4, <3>5, <3>6 DEF KeyInv
  <2>4. CASE CountCall(k)
    <3> DEFINE b == buckets[k]
    <3>1. b \in Buckets /\ b.count \in 1..MaxAttempts /\ b.resetAtMs \in Nat /\ b # NoBucket
      BY <1>1, <2>4, BucketParts DEF KeyInv, CountCall, InForce
    <3>2. buckets'[k] = [b EXCEPT !.count = @ + 1]
      BY <1>1, <2>4 DEF Shape, CountCall
    <3>3. b.count < MaxAttempts
      BY <2>4, <3>1 DEF CountCall, Exhausted
    <3>4. buckets'[k] \in Buckets /\ buckets'[k].count = b.count + 1
          /\ buckets'[k].resetAtMs = b.resetAtMs /\ buckets'[k] # NoBucket
      BY <3>1, <3>2, <3>3, NoBucketAssumption DEF Buckets
    <3>5. /\ b.resetAtMs <= nowMs + WindowMs
          /\ nowMs < mark + WindowMs =>
               IF b.resetAtMs < mark + WindowMs
               THEN seen[k] < b.count + forgotten
               ELSE seen[k] < MaxAttempts + forgotten + b.count
          /\ seen[k] < 2 * MaxAttempts + forgotten
      BY <1>1, <3>1 DEF KeyInv, BucketBound
    <3>6. seen'[k] \in Nat /\ seen'[k] < 2 * MaxAttempts + forgotten
      BY <2>1, <2>2, <3>1, <3>3, <3>5 DEF Observed
    <3>7. BucketBound(k)'
      BY <2>1, <2>2, <3>1, <3>4, <3>5 DEF BucketBound, Observed
    <3> QED
      BY <2>1, <2>2, <3>1, <3>4, <3>5, <3>6, <3>7 DEF KeyInv
  <2> QED
    BY <2>3, <2>4
<1> QED
  BY <1>2, <1>3, <1>4, ByKeyPrimed

\* A refusal leaves the bucket as it is.
LEMMA RefuseInv ==
  ASSUME LimiterInv, NEW k \in Keys, Refuse(k)
  PROVE  LimiterInv'
<1>1. Shape /\ \A j \in Keys : KeyInv(j)
  BY ByKey
<1>2. Shape'
  BY <1>1 DEF Shape, Refuse, NoteRefusal
<1>3. ASSUME NEW j \in Keys, j # k PROVE KeyInv(j)'
  BY <1>1, <1>3, KeyUntouched DEF Shape, Refuse, NoteRefusal
<1>4. KeyInv(k)'
  <2>1. buckets[k] # NoBucket /\ buckets[k].resetAtMs \in Nat
    BY <1>1, BucketParts DEF KeyInv, Refuse, InForce
  <2>2. /\ refusedSince'[k] = IF refusedSince[k] = -1 THEN nowMs ELSE refusedSince[k]
        /\ UNCHANGED <<buckets, nowMs, mark, seen, forgotten>>
    BY <1>1 DEF Shape, Refuse, NoteRefusal
  <2> QED
    BY <1>1, <2>1, <2>2, LimiterAssumption DEF KeyInv, BucketBound, Shape
<1> QED
  BY <1>2, <1>3, <1>4, ByKeyPrimed

\* Time passes; a bucket may run out.
LEMMA TickInv ==
  ASSUME LimiterInv, Tick
  PROVE  LimiterInv'
<1>1. Shape /\ \A j \in Keys : KeyInv(j)
  BY ByKey
<1>2. Shape'
  BY <1>1 DEF Shape, Tick
<1>3. ASSUME NEW k \in Keys PROVE KeyInv(k)'
  <2>1. buckets[k] # NoBucket => buckets[k].resetAtMs \in Nat
    BY <1>1, BucketParts DEF KeyInv
  <2> QED
    BY <1>1, <2>1, LimiterAssumption DEF KeyInv, BucketBound, Shape, Tick
<1> QED
  BY <1>2, <1>3, ByKeyPrimed

\* A restart forgets every bucket.
LEMMA RestartInv ==
  ASSUME LimiterInv, Restart
  PROVE  LimiterInv'
<1>1. Shape /\ \A j \in Keys : KeyInv(j)
  BY ByKey
<1>2. Shape'
  BY <1>1, LimiterAssumption DEF Shape, Restart
<1>3. ASSUME NEW k \in Keys PROVE KeyInv(k)'
  BY <1>1, LimiterAssumption DEF KeyInv, BucketBound, Shape, Restart
<1> QED
  BY <1>2, <1>3, ByKeyPrimed

\* The window in which calls are counted starts anew.
LEMMA ObserveInv ==
  ASSUME LimiterInv, Observe
  PROVE  LimiterInv'
<1>1. Shape /\ \A j \in Keys : KeyInv(j)
  BY ByKey
<1>2. Shape'
  BY <1>1 DEF Shape, Observe
<1>3. ASSUME NEW k \in Keys PROVE KeyInv(k)'
  <2>1. buckets[k] # NoBucket =>
          buckets[k].count \in 1..MaxAttempts /\ buckets[k].resetAtMs \in Nat
    BY <1>1, BucketParts DEF KeyInv
  <2> QED
    BY <1>1, <2>1, LimiterAssumption DEF KeyInv, BucketBound, Shape, Observe
<1> QED
  BY <1>2, <1>3, ByKeyPrimed

-----------------------------------------------------------------------------
\* LimiterInv holds in every reachable state: the bucket in force bounds what
\* an observer has seen admitted in a window that is still open.
THEOREM LimiterInvariance == Spec => []LimiterInv
<1>1. Init => LimiterInv
  BY InitInv
<1>2. LimiterInv /\ [Next]_limiterVars => LimiterInv'
  <2> SUFFICES ASSUME LimiterInv, [Next]_limiterVars PROVE LimiterInv'
    OBVIOUS
  <2>1. ASSUME NEW k \in Keys, OpenBucket(k) \/ CountCall(k) PROVE LimiterInv'
    BY <2>1, AdmitInv
  <2>2. ASSUME NEW k \in Keys, Refuse(k) PROVE LimiterInv'
    BY <2>2, RefuseInv
  <2>3. CASE Tick
    BY <2>3, TickInv
  <2>4. CASE Restart
    BY <2>4, RestartInv
  <2>5. CASE Observe
    BY <2>5, ObserveInv
  <2>6. CASE UNCHANGED limiterVars
    <3>1. Shape /\ \A j \in Keys : KeyInv(j)
      BY ByKey
    <3>2. Shape' /\ \A j \in Keys : KeyInv(j)'
      BY <2>6, <3>1, KeyUntouched DEF Shape, limiterVars
    <3> QED
      BY <3>2, ByKeyPrimed
  <2> QED
    BY <2>1, <2>2, <2>3, <2>4, <2>5, <2>6 DEF Next
<1> QED
  BY <1>1, <1>2, PTL DEF Spec

\* recovery-rate-limiter.ts: in any window of WindowMs a key is admitted fewer
\* than twice MaxAttempts times, restarts of the process apart.
THEOREM AdmissionsBounded == Spec => []WindowBound
<1>1. LimiterInv => WindowBound
  BY DEF LimiterInv
<1> QED
  BY <1>1, LimiterInvariance, PTL

\* recovery-rate-limiter.ts: a refused key is admitted again within one window
\* of its first refusal, however often it calls meanwhile.
THEOREM RefusalsEnd == Spec => []LockoutEnds
<1>1. LimiterInv => LockoutEnds
  <2> SUFFICES ASSUME LimiterInv, NEW k \in Keys, refusedSince[k] # -1, InForce(k)
               PROVE  nowMs < refusedSince[k] + WindowMs
    BY DEF LockoutEnds
  <2>1. buckets[k] \in Buckets /\ buckets[k].resetAtMs \in Nat /\ buckets[k].resetAtMs > nowMs
    BY BucketParts DEF LimiterInv, TypeOK, InForce
  <2>2. refusedSince[k] \in Nat /\ nowMs \in Nat
        /\ buckets[k].resetAtMs <= refusedSince[k] + WindowMs
    BY <2>1, NoBucketAssumption DEF LimiterInv, TypeOK
  <2> QED
    BY <2>1, <2>2, LimiterAssumption
<1> QED
  BY <1>1, LimiterInvariance, PTL

-----------------------------------------------------------------------------
(* The migrations keep their order and take effect once, for every set of  *)
(* processes and of files, numbered from 1 in the order of their names.    *)

Places == {"start", "next", "sql", "record", "commit", "rollback", "done", "failed"}
AtFile == {"sql", "record", "commit", "rollback"}

MigrationTypes ==
  /\ recorded \subseteq Files
  /\ effects \in [Files -> Nat]
  /\ place \in [Migrators -> Places]
  /\ applied \in [Migrators -> SUBSET Files]
  /\ file \in [Migrators -> Nat]

\* How far a process is: what it believes done is recorded, and so is every
\* file before the one at hand, which is recorded once and by one process.
Progress(p) ==
  /\ place[p] \in {"next"} \cup AtFile => applied[p] \subseteq recorded
  /\ place[p] = "next" => \A f \in Files : f <= file[p] => f \in recorded
  /\ place[p] \in AtFile => file[p] \in Files /\ \A f \in Files : f < file[p] => f \in recorded
  /\ place[p] = "commit" => file[p] \notin recorded
  /\ place[p] = "done" => recorded = Files

OneRecorder ==
  \A p, q \in Migrators :
    p # q /\ place[p] \in {"record", "commit"} /\ place[q] \in {"record", "commit"}
      => file[p] # file[q]

MigrationInv ==
  /\ MigrationTypes
  /\ MigratedInOrder
  /\ \A p \in Migrators : Progress(p)
  /\ OneRecorder

-----------------------------------------------------------------------------
\* Nothing is recorded before the first run.
LEMMA InitMigrations == ASSUME MigrateInit PROVE MigrationInv
<1>1. MigrationTypes
  BY DEF MigrateInit, MigrationTypes, Places
<1>2. MigratedInOrder
  BY DEF MigrateInit, MigratedInOrder
<1>3. (\A p \in Migrators : Progress(p)) /\ OneRecorder
  BY DEF MigrateInit, Progress, OneRecorder, AtFile
<1> QED
  BY <1>1, <1>2, <1>3 DEF MigrationInv

\* The steps of a process that commit nothing and reach no row lock.
LEMMA QuietStep ==
  ASSUME MigrationInv, NEW p \in Migrators, NEW to \in Places,
         place' = [place EXCEPT ![p] = to],
         UNCHANGED <<recorded, effects>>,
         applied' \in [Migrators -> SUBSET Files], file' \in [Migrators -> Nat],
         \A q \in Migrators \ {p} : applied'[q] = applied[q] /\ file'[q] = file[q],
         Progress(p)',
         to \in {"record", "commit"} =>
           \A q \in Migrators \ {p} :
             place[q] \in {"record", "commit"} => file[q] # file'[p]
  PROVE  MigrationInv'
<1>1. MigrationTypes'
  BY DEF MigrationInv, MigrationTypes
<1>2. MigratedInOrder'
  BY DEF MigrationInv, MigratedInOrder
<1>3. ASSUME NEW q \in Migrators PROVE Progress(q)'
  <2>1. CASE q = p
    BY <2>1
  <2>2. CASE q # p
    <3>1. place'[q] = place[q] /\ applied'[q] = applied[q] /\ file'[q] = file[q]
      BY <2>2 DEF MigrationInv, MigrationTypes
    <3> QED
      BY <3>1 DEF MigrationInv, Progress
  <2> QED
    BY <2>1, <2>2
<1>4. OneRecorder'
  BY DEF MigrationInv, MigrationTypes, OneRecorder
<1> QED
  BY <1>1, <1>2, <1>3, <1>4 DEF MigrationInv

\* COMMIT: the statements of the file at hand and its record take effect.
LEMMA CommitStep ==
  ASSUME MigrationInv, NEW p \in Migrators, NEW to \in {"next", "failed"},
         Go(p, "commit", to), CommitBoth(p)
  PROVE  MigrationInv'
<1> DEFINE f == file[p]
<1>1. /\ f \in Files /\ f \notin recorded /\ applied[p] \subseteq recorded
      /\ \A g \in Files : g < f => g \in recorded
  BY DEF MigrationInv, Progress, Go, AtFile
<1>2. recorded' = recorded \cup {f} /\ effects' = [effects EXCEPT ![f] = effects[f] + 1]
  BY DEF CommitBoth
<1>3. MigrationTypes'
  BY <1>1, <1>2 DEF MigrationInv, MigrationTypes, Go, CommitBoth, Places
<1>4. MigratedInOrder'
  <2> SUFFICES ASSUME NEW g \in Files
               PROVE  /\ effects'[g] = (IF g \in recorded' THEN 1 ELSE 0)
                      /\ g \in recorded' => \A h \in Files : h < g => h \in recorded'
    BY DEF MigratedInOrder
  <2>1. effects[g] = (IF g \in recorded THEN 1 ELSE 0)
    BY DEF MigrationInv, MigratedInOrder
  <2>2. effects'[g] = IF g = f THEN effects[g] + 1 ELSE effects[g]
    BY <1>2 DEF MigrationInv, MigrationTypes
  <2>3. effects'[g] = (IF g \in recorded' THEN 1 ELSE 0)
    BY <1>1, <1>2, <2>1, <2>2
  <2>4. g \in recorded' => \A h \in Files : h < g => h \in recorded'
    BY <1>1, <1>2 DEF MigrationInv, MigratedInOrder
  <2> QED
    BY <2>3, <2>4
<1>5. ASSUME NEW q \in Migrators PROVE Progress(q)'
  <2>1. CASE q = p
    <3>1. place'[q] = to /\ applied'[q] = applied[q] /\ file'[q] = f
      BY <2>1 DEF MigrationInv, MigrationTypes, Go, CommitBoth
    <3>2. \A g \in Files : g <= f => g \in recorded'
      <4> SUFFICES ASSUME NEW g \in Files, g <= f PROVE g \in recorded'
        OBVIOUS
      <4>1. g \in Nat /\ f \in Nat
        BY FilesAssumption, <1>1
      <4>2. g < f \/ g = f
        BY <4>1
      <4> QED
        BY <1>1, <1>2, <4>2
    <3> QED
      BY <1>1, <1>2, <2>1, <3>1, <3>2 DEF Progress, AtFile
  <2>2. CASE q # p
    <3>1. place'[q] = place[q] /\ applied'[q] = applied[q] /\ file'[q] = file[q]
      BY <2>2 DEF MigrationInv, MigrationTypes, Go, CommitBoth
    <3>2. place[q] = "commit" => file[q] # f
      BY <2>2 DEF MigrationInv, OneRecorder, Go
    <3>3. place[q] # "done"
      BY <1>1 DEF MigrationInv, Progress
    <3>4. Progress(q)
      BY DEF MigrationInv
    <3>5. place[q] = "commit" => file[q] \notin recorded'
      BY <1>2, <3>2, <3>4 DEF Progress
    <3>6. recorded \subseteq recorded'
      BY <1>2
    <3> HIDE DEF f
    <3> QED
      BY <3>1, <3>3, <3>4, <3>5, <3>6 DEF Progress
  <2> QED
    BY <2>1, <2>2
<1>6. OneRecorder'
  BY DEF MigrationInv, MigrationTypes, OneRecorder, Go, CommitBoth
<1> QED
  BY <1>3, <1>4, <1>5, <1>6 DEF MigrationInv

-----------------------------------------------------------------------------
\* Every step of a run, its failure and its end preserve MigrationInv.
LEMMA NextMigrations ==
  ASSUME MigrationInv, [MigrateNext]_migrationVars
  PROVE  MigrationInv'
<1>0. MigrationTypes /\ (\A p \in Migrators : Progress(p)) /\ OneRecorder
  BY DEF MigrationInv
<1>1. ASSUME NEW p \in Migrators, ReadApplied(p) PROVE MigrationInv'
  <2>1. place'[p] = "next" /\ applied'[p] = recorded /\ file'[p] = 0
    BY <1>0, <1>1 DEF MigrationTypes, ReadApplied, Go
  <2>2. Progress(p)'
    BY FilesAssumption, <1>0, <1>1, <2>1 DEF Progress, ReadApplied, AtFile
  <2> QED
    BY <1>0, <1>1, <2>2, QuietStep DEF MigrationTypes, ReadApplied, Go, Places
<1>2. ASSUME NEW p \in Migrators, BeginFile(p) PROVE MigrationInv'
  <2>1. PICK f \in Missing(p) : (\A g \in Missing(p) : f <= g) /\ file' = [file EXCEPT ![p] = f]
    BY <1>2 DEF BeginFile
  <2>2. f \in Files /\ f \in Nat
    BY FilesAssumption, <2>1 DEF Missing
  <2>3. \A g \in Files : g < f => g \in recorded
    <3> SUFFICES ASSUME NEW g \in Files, g < f PROVE g \in recorded
      OBVIOUS
    <3>1. g \in Nat /\ file[p] \in Nat
      BY FilesAssumption, <1>0 DEF MigrationTypes
    <3>2. g \notin Missing(p)
      BY <2>1, <2>2, <3>1
    <3>3. g \in applied[p] \/ g <= file[p]
      BY <3>1, <3>2 DEF Missing
    <3> QED
      BY <1>0, <1>2, <3>3 DEF Progress, BeginFile, Go
  <2>4. place'[p] = "sql" /\ file'[p] = f /\ applied'[p] = applied[p]
    BY <1>0, <1>2, <2>1 DEF MigrationTypes, BeginFile, Go
  <2>5. Progress(p)'
    BY <1>0, <1>2, <2>2, <2>3, <2>4 DEF Progress, BeginFile, Go, AtFile
  <2> QED
    BY <1>0, <1>2, <2>1, <2>2, <2>5, QuietStep DEF MigrationTypes, BeginFile, Go, Places
<1>3. ASSUME NEW p \in Migrators, EndLoop(p) PROVE MigrationInv'
  <2>1. \A f \in Files : f \in applied[p] \/ f <= file[p]
    BY FilesAssumption, <1>0, <1>3 DEF EndLoop, Missing, MigrationTypes
  <2>2. recorded = Files
    BY <1>0, <1>3, <2>1 DEF EndLoop, Go, Progress, MigrationTypes
  <2>3. Progress(p)'
    BY <1>0, <1>3, <2>2 DEF Progress, EndLoop, Go, AtFile, MigrationTypes
  <2> QED
    BY <1>0, <1>3, <2>3, QuietStep DEF MigrationTypes, EndLoop, Go, Places
<1>4. ASSUME NEW p \in Migrators, RunSql(p) PROVE MigrationInv'
  <2>1. Progress(p)'
    BY <1>0, <1>4 DEF Progress, RunSql, Go, AtFile, MigrationTypes
  <2>2. PICK to \in {"record", "rollback"} : Go(p, "sql", to)
    BY <1>4 DEF RunSql
  <2>3. \A q \in Migrators \ {p} : place[q] \in {"record", "commit"} => file[q] # file[p]
    BY <1>4 DEF RunSql, SqlLocked
  <2> QED
    BY <1>0, <1>4, <2>1, <2>2, <2>3, QuietStep DEF MigrationTypes, RunSql, Go, Places
<1>5. ASSUME NEW p \in Migrators, Record(p) PROVE MigrationInv'
  <2>1. Progress(p)'
    BY <1>0, <1>5 DEF Progress, Record, Go, AtFile, MigrationTypes
  <2>2. PICK to \in {"commit", "rollback"} : Go(p, "record", to)
    BY <1>5 DEF Record
  <2>3. \A q \in Migrators \ {p} : place[q] \in {"record", "commit"} => file[q] # file[p]
    BY <1>0, <2>2 DEF OneRecorder, Go
  <2> QED
    BY <1>0, <1>5, <2>1, <2>2, <2>3, QuietStep DEF MigrationTypes, Record, Go, Places
<1>6. ASSUME NEW p \in Migrators, Commit(p) PROVE MigrationInv'
  BY <1>6, CommitStep DEF Commit
<1>7. ASSUME NEW p \in Migrators, Rollback(p) PROVE MigrationInv'
  <2>1. Progress(p)'
    BY <1>0, <1>7 DEF Progress, Rollback, Go, AtFile, MigrationTypes
  <2> QED
    BY <1>0, <1>7, <2>1, QuietStep DEF MigrationTypes, Rollback, Go, Places
<1>8. ASSUME NEW p \in Migrators, Kill(p) PROVE MigrationInv'
  <2>1. CASE place[p] = "commit" /\ CommitBoth(p)
    BY <1>8, <2>1, CommitStep DEF Kill, Go
  <2>2. CASE UNCHANGED <<recorded, effects, applied, file>>
    <3>1. Progress(p)'
      BY <1>0, <1>8, <2>2 DEF Progress, Kill, Go, AtFile, MigrationTypes
    <3> QED
      BY <1>0, <1>8, <2>2, <3>1, QuietStep DEF MigrationTypes, Kill, Go, Places
  <2> QED
    BY <1>8, <2>1, <2>2 DEF Kill
<1>9. ASSUME NEW p \in Migrators, Deploy(p) PROVE MigrationInv'
  <2>1. Progress(p)'
    BY <1>0, <1>9 DEF Progress, Deploy, Go, AtFile, MigrationTypes
  <2> QED
    BY <1>0, <1>9, <2>1, QuietStep DEF MigrationTypes, Deploy, Go, Places
<1>10. CASE UNCHANGED migrationVars
  BY <1>10 DEF MigrationInv, MigrationTypes, MigratedInOrder, Progress, OneRecorder, migrationVars
<1> QED
  BY <1>1, <1>2, <1>3, <1>4, <1>5, <1>6, <1>7, <1>8, <1>9, <1>10 DEF MigrateNext

\* migrate.ts: whatever is killed and whoever else migrates, every file takes
\* effect once and after all the files before it.
THEOREM OrderKept == MigrateSpec => []MigratedInOrder
<1>1. MigrateInit => MigrationInv
  BY InitMigrations
<1>2. MigrationInv /\ [MigrateNext]_migrationVars => MigrationInv'
  BY NextMigrations
<1>3. MigrationInv => MigratedInOrder
  BY DEF MigrationInv
<1> QED
  BY <1>1, <1>2, <1>3, PTL DEF MigrateSpec

\* migrate.ts: a process that ends well leaves a schema that is complete.
THEOREM CompleteWhenDone == MigrateSpec => []DoneMeansMigrated
<1>1. MigrateInit => MigrationInv
  BY InitMigrations
<1>2. MigrationInv /\ [MigrateNext]_migrationVars => MigrationInv'
  BY NextMigrations
<1>3. MigrationInv => DoneMeansMigrated
  BY DEF MigrationInv, Progress, DoneMeansMigrated
<1> QED
  BY <1>1, <1>2, <1>3, PTL DEF MigrateSpec
=============================================================================
