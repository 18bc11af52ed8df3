------------------------ MODULE RecoveryRateLimiter ------------------------
(***************************************************************************)
(* The limiter of POST /auth/forgot-password and POST /auth/reset-password *)
(* (two instances, keyed by the hash of the address or of the token): a    *)
(* fixed window for each key in the memory of one process.  consume() runs *)
(* to its end on the one thread of the process, so it is one step.         *)
(*                                                                         *)
(* mark, seen, forgotten and refusedSince only observe: an observer starts *)
(* to count at a moment of his choice, and his window ends WindowMs later. *)
(* The clock is taken not to be set back while the process runs.           *)
(***************************************************************************)
EXTENDS Integers

CONSTANTS Keys,        \* hashed identifiers
          MaxAttempts, \* admitted calls of a key for each bucket
          WindowMs,    \* what a bucket lasts
          NoBucket,    \* a key the map does not hold
          LastMs,      \* bounds the clock
          MaxRestarts  \* bounds the restarts an observer sees

ASSUME LimiterAssumption ==
  /\ MaxAttempts \in Nat \ {0}
  /\ WindowMs \in Nat \ {0}
  /\ LastMs \in Nat
  /\ MaxRestarts \in Nat

Buckets == [count : 1..MaxAttempts, resetAtMs : Nat]

ASSUME NoBucketAssumption == NoBucket \notin Buckets

VARIABLES buckets,      \* the map
          nowMs,        \* Date.now()
          mark,         \* when the observer began to count
          seen,         \* calls admitted since then, within his window
          forgotten,    \* MaxAttempts for each restart of the process since then
          refusedSince  \* the first refusal after the last admission, or -1

limiterVars == <<buckets, nowMs, mark, seen, forgotten, refusedSince>>

Init ==
  /\ buckets = [k \in Keys |-> NoBucket]
  /\ nowMs = 0
  /\ mark = 0
  /\ seen = [k \in Keys |-> 0]
  /\ forgotten = 0
  /\ refusedSince = [k \in Keys |-> -1]

-----------------------------------------------------------------------------
(* consume(key) *)

InForce(k) == buckets[k] # NoBucket /\ buckets[k].resetAtMs > nowMs

\* Mutant: the limit is passed once.
Exceeded(k) == buckets[k].count > MaxAttempts

Exhausted(k) == buckets[k].count >= MaxAttempts

Observed == nowMs < mark + WindowMs

Admit(k) ==
  /\ seen' = [seen EXCEPT ![k] = IF Observed THEN @ + 1 ELSE @]
  /\ refusedSince' = [refusedSince EXCEPT ![k] = -1]
  /\ UNCHANGED <<nowMs, mark, forgotten>>

\* Mutant: the call that opens a bucket is not counted.
OpenEmptyBucket(k) ==
  /\ ~InForce(k)
  /\ buckets' = [buckets EXCEPT ![k] = [count |-> 0, resetAtMs |-> nowMs + WindowMs]]
  /\ Admit(k)

OpenBucket(k) ==
  /\ ~InForce(k)
  /\ buckets' = [buckets EXCEPT ![k] = [count |-> 1, resetAtMs |-> nowMs + WindowMs]]
  /\ Admit(k)

CountCall(k) ==
  /\ InForce(k) /\ ~Exhausted(k)
  /\ buckets' = [buckets EXCEPT ![k].count = @ + 1]
  /\ Admit(k)

NoteRefusal(k) ==
  /\ refusedSince' = [refusedSince EXCEPT ![k] = IF @ = -1 THEN nowMs ELSE @]
  /\ UNCHANGED <<nowMs, mark, seen, forgotten>>

\* Mutant: a refused call opens the window anew.
RefuseAndExtend(k) ==
  /\ InForce(k) /\ Exhausted(k)
  /\ buckets' = [buckets EXCEPT ![k].resetAtMs = nowMs + WindowMs]
  /\ NoteRefusal(k)

Refuse(k) ==
  /\ InForce(k) /\ Exhausted(k)
  /\ NoteRefusal(k)
  /\ UNCHANGED buckets

-----------------------------------------------------------------------------
(* The clock, the process and the observer *)

Tick ==
  /\ nowMs < LastMs
  /\ nowMs' = nowMs + 1
  /\ UNCHANGED <<buckets, mark, seen, forgotten, refusedSince>>

\* The map lives in memory: a restart forgets it.
Restart ==
  /\ forgotten < MaxRestarts * MaxAttempts
  /\ forgotten' = forgotten + MaxAttempts
  /\ buckets' = [k \in Keys |-> NoBucket]
  /\ UNCHANGED <<nowMs, mark, seen, refusedSince>>

Observe ==
  /\ mark' = nowMs
  /\ seen' = [k \in Keys |-> 0]
  /\ forgotten' = 0
  /\ UNCHANGED <<buckets, nowMs, refusedSince>>

Next ==
  \/ \E k \in Keys : OpenBucket(k) \/ CountCall(k) \/ Refuse(k)
  \/ Tick
  \/ Restart
  \/ Observe

Spec == Init /\ [][Next]_limiterVars

-----------------------------------------------------------------------------
(* Properties *)

TypeOK ==
  /\ buckets \in [Keys -> Buckets \cup {NoBucket}]
  /\ nowMs \in Nat /\ mark \in Nat /\ forgotten \in Nat
  /\ seen \in [Keys -> Nat]
  /\ refusedSince \in [Keys -> Nat \cup {-1}]

\* In any WindowMs in a row a key is admitted fewer than twice MaxAttempts
\* times, since a bucket opened before the window has admitted one call before
\* it; every restart of the process adds MaxAttempts more.
WindowBound == \A k \in Keys : seen[k] < 2 * MaxAttempts + forgotten

\* A key that keeps calling while it is refused is admitted again within one
\* window of its first refusal: refusals do not feed the lockout.
LockoutEnds ==
  \A k \in Keys :
    refusedSince[k] # -1 /\ InForce(k) => nowMs < refusedSince[k] + WindowMs

\* Why they hold.  What is seen in a window that is still open is bounded by
\* the bucket in force: one that began before the window had a call before it,
\* one that began in it cannot end in it.
BucketBound(k) ==
  nowMs < mark + WindowMs =>
    IF buckets[k] = NoBucket THEN seen[k] < MaxAttempts + forgotten
    ELSE IF buckets[k].resetAtMs < mark + WindowMs
         THEN seen[k] < buckets[k].count + forgotten
         ELSE seen[k] < MaxAttempts + forgotten + buckets[k].count

LimiterInv ==
  /\ TypeOK
  /\ mark <= nowMs
  /\ \A k \in Keys : buckets[k] # NoBucket => buckets[k].resetAtMs <= nowMs + WindowMs
  /\ \A k \in Keys : BucketBound(k)
  /\ WindowBound
  /\ \A k \in Keys :
       refusedSince[k] # -1 /\ buckets[k] # NoBucket
         => refusedSince[k] <= nowMs /\ buckets[k].resetAtMs <= refusedSince[k] + WindowMs
=============================================================================
