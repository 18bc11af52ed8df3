--------------------------- MODULE SessionsProofs ---------------------------
(***************************************************************************)
(* Rotation, redemption and revocation, for any number of requests, tokens *)
(* and faults and whatever the times to live.  SessionsInv is inductive:   *)
(* what is known of each request by its place (SlotInv), of the tokens and *)
(* resets (GlobalInv), and that a reset is in the hands of one transaction *)
(* from its consumption to the COMMIT (OneRedeemer).                       *)
(***************************************************************************)
EXTENDS Sessions, TLAPS

Requests == LoginReq \cup RefreshReq \cup ChangeReq \cup ResetReq \cup RegisterReq

\* Which request can be at which place.
RequestFits(s) ==
  /\ pc[s] # "idle" => req[s] \in Requests
  /\ pc[s] = "find" => req[s].kind = "login"
  /\ pc[s] = "sign" => req[s].kind \in {"login", "refresh"}
  /\ pc[s] \in {"blacklist", "validAfter"} => req[s].kind \in {"refresh", "change"}
  /\ pc[s] = "revoke" => req[s].kind = "refresh"
  /\ pc[s] = "current" => req[s].kind = "change"
  /\ pc[s] \in {"begin", "update"} => req[s].kind \in {"change", "reset"}
  /\ pc[s] = "overwrite" => req[s].kind = "register"
  /\ pc[s] = "commit" => req[s].kind \in {"change", "reset", "register"}
  /\ pc[s] \in {"reset", "consume"} => req[s].kind = "reset"

Redeeming(s) == pc[s] \in {"update", "commit"} /\ req[s].kind = "reset"

\* Request s has the reset to itself, or has been told that it redeemed it.
Holding(s) == Redeeming(s) \/ (outcome[s] = "ok" /\ req[s].kind = "reset")

LateInv(s) ==
  /\ pc[s] # "idle" /\ req[s].kind \in {"refresh", "change"}
  /\ req[s].type = "refresh" /\ req[s].pair \in spent
  /\ \/ pc[s] = "blacklist"
     \/ pc[s] = "done" /\ outcome[s] # "ok"
     \/ Expired(req[s].pair, "refresh")

SlotInv(s) ==
  /\ RequestFits(s)
  /\ pc[s] # "done" => outcome[s] # "ok"
  /\ pc[s] # "idle" /\ req[s].kind \in {"refresh", "change"} => req[s].pair \in Signed
  /\ pc[s] = "sign" /\ req[s].kind = "refresh" => req[s].pair \in spent
  /\ Redeeming(s) => req[s].reset \notin consumed
  /\ outcome[s] = "ok" /\ req[s].kind = "reset" => req[s].reset \in consumed
  /\ arrived[s] <= now
  /\ pc[s] \in {"reset", "consume", "update", "overwrite", "commit"} => arrived[s] <= started[s]
  /\ s \in late => LateInv(s)

GlobalInv ==
  /\ spent \subseteq Signed
  /\ \A p \in spent : p \in blacklist \/ Expired(p, "refresh")
  /\ RotatedIsSpent
  /\ \A r \in Resets : redeemed[r] <= 1 /\ (r \notin consumed => redeemed[r] = 0)

OneRedeemer ==
  \A s, t \in Slots : s # t /\ Holding(s) /\ Holding(t) => req[s].reset # req[t].reset

SessionsInv ==
  /\ TypeOK
  /\ \A s \in Slots : SlotInv(s)
  /\ GlobalInv
  /\ OneRedeemer

USE TimesAssumption, BoundsAssumption

-----------------------------------------------------------------------------
(* Requests and tokens *)

\* What a request is made of, by its kind.
LEMMA RequestParts ==
  ASSUME NEW r \in Requests
  PROVE  /\ r.kind \in {"login", "refresh", "change", "reset", "register"}
         /\ r.kind = "login" <=> r \in LoginReq
         /\ r.kind = "refresh" <=> r \in RefreshReq
         /\ r.kind = "change" <=> r \in ChangeReq
         /\ r.kind = "reset" <=> r \in ResetReq
         /\ r.kind \in {"refresh", "change"} => r.pair \in Pairs /\ r.type \in TokenTypes
         /\ r.kind = "refresh" => r.type = "refresh"
         /\ r.kind = "reset" => r.reset \in Resets
         /\ r.kind \in {"change", "reset", "register"} => r.password \in Passwords
<1>1. CASE r \in LoginReq
  BY <1>1 DEF LoginReq, RefreshReq, ChangeReq, ResetReq, RegisterReq
<1>2. CASE r \in RefreshReq
  BY <1>2 DEF LoginReq, RefreshReq, ChangeReq, ResetReq, RegisterReq, TokenTypes
<1>3. CASE r \in ChangeReq
  BY <1>3 DEF LoginReq, RefreshReq, ChangeReq, ResetReq, RegisterReq
<1>4. CASE r \in ResetReq
  BY <1>4 DEF LoginReq, RefreshReq, ChangeReq, ResetReq, RegisterReq
<1>5. CASE r \in RegisterReq
  BY <1>5 DEF LoginReq, RefreshReq, ChangeReq, ResetReq, RegisterReq
<1> QED
  BY <1>1, <1>2, <1>3, <1>4, <1>5 DEF Requests

\* Whole seconds: rounding down takes less than one of them.
LEMMA RoundedDown ==
  ASSUME NEW n \in Nat
  PROVE  n - (n % Second) \in Int /\ n - (n % Second) <= n /\ n < n - (n % Second) + Second
<1>1. n % Second \in 0..(Second - 1)
  OBVIOUS
<1> QED
  BY <1>1

\* A time rounded down to its second.
LEMMA IssuedAtIsInt ==
  ASSUME TypeOK, NEW p \in Signed
  PROVE  /\ pair[p].at \in Nat /\ IssuedAt(p) \in Int
         /\ IssuedAt(p) <= pair[p].at /\ pair[p].at < IssuedAt(p) + Second
<1>1. pair[p].at \in Nat
  BY DEF TypeOK, Signed, Ticks
<1> QED
  BY <1>1, RoundedDown DEF IssuedAt

-----------------------------------------------------------------------------
(* Types *)

\* The types, at first and by every step.
LEMMA InitTypes == Init => TypeOK
  BY DEF Init, TypeOK, Null, Ticks, Pcs, RegisterPcs

\* A request arrives.
LEMMA ArriveTypes ==
  ASSUME SessionsInv, NEW s \in Slots, NEW r \in Requests, NEW to \in Pcs,
         NEW o \in {"pending", "unauthorized"}, Arrive(s, r, to, o), late' \in SUBSET Slots
  PROVE  TypeOK'
<1>1. TypeOK
  BY DEF SessionsInv
<1>2. /\ pc' \in [Slots -> Pcs] /\ req' \in [Slots -> Requests \cup {NoReq}]
      /\ outcome' \in [Slots -> {"none", "pending", "ok", "unauthorized", "expired", "used",
                                 "error"}]
      /\ started' \in [Slots -> Ticks] /\ arrived' \in [Slots -> Ticks]
      /\ received' \in 0..MaxRequests
      /\ UNCHANGED <<now, users, recovery, revocation, pair, faults>>
  BY <1>1 DEF TypeOK, Arrive, Requests, Ticks
<1> QED
  BY <1>1, <1>2 DEF TypeOK, users, recovery, revocation, Requests

\* Any of the requests arrives.
LEMMA ReceiveTypes ==
  ASSUME SessionsInv, NEW s \in Slots, Receive(s)
  PROVE  TypeOK'
<1>1. late \in SUBSET Slots
  BY DEF SessionsInv, TypeOK
<1>2. CASE ReceiveLogin(s)
  <2>1. PICK r \in LoginReq : Arrive(s, r, "find", "pending")
    BY <1>2 DEF ReceiveLogin
  <2> QED
    BY <1>1, <1>2, <2>1, ArriveTypes DEF ReceiveLogin, Requests, Pcs, LoginPcs
<1>3. CASE ReceiveToken(s)
  <2>1. PICK r \in RefreshReq \cup ChangeReq :
          /\ Arrive(s, r, "blacklist", "pending") \/ Arrive(s, r, "done", "unauthorized")
          /\ late' = IF r.type = "refresh" /\ r.pair \in spent THEN late \cup {s}
                     ELSE late \ {s}
    BY <1>3 DEF ReceiveToken
  <2>2. late' \in SUBSET Slots
    BY <1>1, <2>1
  <2> QED
    BY <2>1, <2>2, ArriveTypes DEF Requests, Pcs, RefreshPcs, TokenPcs
<1>4. CASE ReceiveReset(s)
  <2>1. PICK r \in ResetReq : Arrive(s, r, "begin", "pending")
    BY <1>4 DEF ReceiveReset
  <2> QED
    BY <1>1, <1>4, <2>1, ArriveTypes DEF ReceiveReset, Requests, Pcs, ResetPcs
<1> QED
  BY <1>2, <1>3, <1>4 DEF Receive

\* The steps that change nothing but the place and the outcome of a request.
PlainStep(s) ==
  \/ FindAuthData(s) \/ CheckRevoked(s) \/ CheckIssuedAfter(s) \/ CheckCurrent(s)
  \/ FindReset(s) \/ ConsumeReset(s) \/ UpdatePassword(s) \/ UpdateCredentials(s)

\* A step that touches its own slot only.
LEMMA PlainTypes ==
  ASSUME SessionsInv, NEW s \in Slots, PlainStep(s)
  PROVE  TypeOK'
<1>1. TypeOK
  BY DEF SessionsInv
<1>2. /\ pc' \in [Slots -> Pcs]
      /\ outcome' \in [Slots -> {"none", "pending", "ok", "unauthorized", "expired", "used",
                                 "error"}]
  BY <1>1 DEF PlainStep, TypeOK, Pcs, LoginPcs, RefreshPcs, TokenPcs, ChangePcs, ResetPcs,
       RegisterPcs, Proceed, Settle, FindAuthData, CheckRevoked, CheckIssuedAfter, CheckCurrent,
       FindReset, ConsumeReset, UpdatePassword, UpdateCredentials
<1>3. UNCHANGED <<now, users, recovery, revocation, pair, req, started, history, faults>>
  BY DEF PlainStep, FindAuthData, CheckRevoked, CheckIssuedAfter, CheckCurrent, FindReset,
       ConsumeReset, UpdatePassword, UpdateCredentials
<1> QED
  BY <1>1, <1>2, <1>3 DEF TypeOK, users, recovery, revocation, history

\* A pair of tokens is signed.
LEMMA SignTypes ==
  ASSUME TypeOK, NEW parent \in Pairs \cup {NoPair}, Sign(parent)
  PROVE  /\ pair' \in [Pairs -> [at : Ticks, parent : Pairs \cup {NoPair}] \cup {NoPair}]
         /\ \A p \in Signed : pair'[p] = pair[p]
         /\ \A p \in Pairs \ Signed : pair'[p] = NoPair \/ pair'[p].parent = parent
  BY DEF TypeOK, Sign, Signed

\* Any step of a handler.
LEMMA StepTypes ==
  ASSUME SessionsInv, NEW s \in Slots,
         IssueForUser(s) \/ IssueRotated(s) \/ RevokeUsed(s) \/ Begin(s)
  PROVE  TypeOK'
<1>1. TypeOK /\ RequestFits(s)
  BY DEF SessionsInv, SlotInv
<1>2. /\ pc' \in [Slots -> Pcs]
      /\ outcome' \in [Slots -> {"none", "pending", "ok", "unauthorized", "expired", "used",
                                 "error"}]
  BY <1>1 DEF TypeOK, Pcs, LoginPcs, RefreshPcs, TokenPcs, ChangePcs, ResetPcs,
       RegisterPcs, Proceed, Settle, IssueForUser, IssueRotated, RevokeUsed, Begin
<1>3. CASE IssueForUser(s)
  BY <1>1, <1>2, <1>3, SignTypes DEF IssueForUser, TypeOK, users, recovery, revocation, history
<1>4. CASE IssueRotated(s)
  <2>1. req[s].pair \in Pairs
    BY <1>1, <1>4, RequestParts DEF RequestFits, IssueRotated, Settle
  <2> QED
    BY <1>1, <1>2, <1>4, <2>1, SignTypes
    DEF IssueRotated, TypeOK, users, recovery, revocation, history
<1>5. CASE RevokeUsed(s)
  <2>1. req[s].pair \in Pairs
    BY <1>1, <1>5, RequestParts DEF RequestFits, RevokeUsed, Proceed
  <2> QED
    BY <1>1, <1>2, <1>5, <2>1 DEF RevokeUsed, RecordRevoked, TypeOK, users, recovery, history
<1>6. CASE Begin(s)
  BY <1>1, <1>2, <1>6 DEF Begin, TypeOK, users, recovery, revocation, history
<1> QED
  BY <1>3, <1>4, <1>5, <1>6

\* What a COMMIT writes.
LEMMA ApplyTypes ==
  ASSUME SessionsInv, NEW s \in Slots, pc[s] = "commit", Apply(s)
  PROVE  /\ password' \in Passwords /\ validAfter' \in Ticks
         /\ consumed' \in SUBSET Resets /\ redeemed' \in [Resets -> Nat]
<1>1. TypeOK /\ req[s] \in Requests /\ req[s].kind \in {"change", "reset", "register"}
  BY DEF SessionsInv, SlotInv, RequestFits
<1>2. password' \in Passwords /\ validAfter' \in Ticks
  BY <1>1, RequestParts DEF Apply, TypeOK
<1>3. CASE req[s].kind = "reset"
  <2>1. req[s].reset \in Resets
    BY <1>1, <1>3, RequestParts
  <2> QED
    BY <1>1, <1>2, <1>3, <2>1 DEF Apply, ApplyReset, TypeOK
<1>4. CASE req[s].kind # "reset"
  BY <1>1, <1>2, <1>4 DEF Apply, ApplyReset, TypeOK
<1> QED
  BY <1>1, <1>3, <1>4

\* A COMMIT.
LEMMA CommitTypes ==
  ASSUME SessionsInv, NEW s \in Slots, Commit(s)
  PROVE  TypeOK'
<1>1. TypeOK /\ pc[s] = "commit" /\ Apply(s)
  BY DEF SessionsInv, Commit, Settle
<1>2. /\ pc' \in [Slots -> Pcs]
      /\ outcome' \in [Slots -> {"none", "pending", "ok", "unauthorized", "expired", "used",
                                 "error"}]
  BY <1>1 DEF TypeOK, Pcs, Commit, Settle
<1> QED
  BY <1>1, <1>2, ApplyTypes DEF Commit, TypeOK, revocation, history

\* A statement or an answer is lost.
LEMMA FaultTypes ==
  ASSUME SessionsInv, NEW s \in Slots, Fault(s)
  PROVE  TypeOK'
<1>1. TypeOK
  BY DEF SessionsInv
<1>2. /\ pc' \in [Slots -> Pcs] /\ faults' \in 0..MaxFaults
      /\ outcome' \in [Slots -> {"none", "pending", "ok", "unauthorized", "expired", "used",
                                 "error"}]
      /\ UNCHANGED <<now, resets, pair, req, started, history>>
  BY <1>1 DEF TypeOK, Pcs, Fault, Settle
<1>3. CASE UNCHANGED <<users, consumed, redeemed, revocation>>
  BY <1>1, <1>2, <1>3 DEF TypeOK, users, revocation, history
<1>4. CASE pc[s] = "revoke" /\ RecordRevoked(s) /\ UNCHANGED <<users, consumed, redeemed>>
  <2>1. req[s].pair \in Pairs
    BY <1>4, RequestParts DEF SessionsInv, SlotInv, RequestFits
  <2> QED
    BY <1>1, <1>2, <1>4, <2>1 DEF TypeOK, RecordRevoked, users, history
<1>5. CASE pc[s] = "commit" /\ Apply(s) /\ UNCHANGED revocation
  BY <1>1, <1>2, <1>5, ApplyTypes DEF TypeOK, revocation, history
<1> QED
  BY <1>3, <1>4, <1>5 DEF Fault

\* Time, expiry, cleanup and stuttering.
LEMMA OtherTypes ==
  ASSUME TypeOK, RequestReset \/ CleanupExpired \/ Tick \/ UNCHANGED vars
  PROVE  TypeOK'
<1>1. CASE RequestReset
  <2>1. PICK r \in Resets : resets' = [resets EXCEPT ![r] = now + ResetTtl]
    BY <1>1 DEF RequestReset
  <2>2. now + ResetTtl \in 0..(LastTick + ResetTtl)
    BY DEF TypeOK, Ticks
  <2> QED
    BY <1>1, <2>1, <2>2 DEF TypeOK, RequestReset, users, revocation, history
<1>2. CASE CleanupExpired
  BY <1>2 DEF TypeOK, CleanupExpired, users, recovery, history
<1>3. CASE Tick
  BY <1>3 DEF TypeOK, Tick, users, recovery, revocation, history, Ticks
<1>4. CASE UNCHANGED vars
  BY <1>4 DEF TypeOK, vars, users, recovery, revocation, history
<1> QED
  BY <1>1, <1>2, <1>3, <1>4

-----------------------------------------------------------------------------
(* What a step leaves of the other requests *)

\* What has expired stays so.
LEMMA ExpiredStays ==
  ASSUME TypeOK, NEW p \in Signed, pair'[p] = pair[p], now' \in Nat, now <= now',
         Expired(p, "refresh")
  PROVE  Expired(p, "refresh")'
<1>1. IssuedAt(p) \in Int /\ now \in Nat
  BY IssuedAtIsInt DEF TypeOK, Ticks
<1>2. IssuedAt(p)' = IssuedAt(p)
  BY DEF IssuedAt
<1> QED
  BY <1>1, <1>2 DEF Expired, Ttl

\* A step of another request leaves what is known of this one.
LEMMA SlotKept ==
  ASSUME TypeOK, NEW t \in Slots, SlotInv(t),
         pc'[t] = pc[t], req'[t] = req[t], outcome'[t] = outcome[t],
         started'[t] = started[t], arrived'[t] = arrived[t], t \in late' => t \in late,
         now' \in Nat, now <= now', spent \subseteq Signed, spent \subseteq spent',
         \A p \in Signed : pair'[p] = pair[p],
         consumed \subseteq consumed', Redeeming(t) => req[t].reset \notin consumed'
  PROVE  SlotInv(t)'
<1>1. Signed \subseteq Signed'
  BY DEF Signed
<1>2. RequestFits(t)' /\ (Redeeming(t)' <=> Redeeming(t))
  BY DEF SlotInv, RequestFits, Redeeming
<1>3. t \in late' => LateInv(t)'
  <2> SUFFICES ASSUME t \in late PROVE LateInv(t)'
    OBVIOUS
  <2>1. LateInv(t)
    BY DEF SlotInv
  <2>2. Expired(req[t].pair, "refresh") => Expired(req[t].pair, "refresh")'
    BY <2>1, ExpiredStays DEF LateInv
  <2> QED
    BY <2>1, <2>2 DEF LateInv
<1>4. arrived'[t] <= now'
  BY DEF SlotInv, TypeOK, Ticks
<1> QED
  BY <1>1, <1>2, <1>3, <1>4 DEF SlotInv

\* A step of request s that only adds to spent and consumed has to answer for
\* its own place, for the tokens and resets, and for nobody else's reset.
LEMMA StepOf ==
  ASSUME SessionsInv, TypeOK', NEW s \in Slots,
         \A t \in Slots \ {s} :
           /\ pc'[t] = pc[t] /\ req'[t] = req[t] /\ outcome'[t] = outcome[t]
           /\ started'[t] = started[t] /\ arrived'[t] = arrived[t]
           /\ t \in late' => t \in late,
         now' = now, spent \subseteq spent', \A p \in Signed : pair'[p] = pair[p],
         consumed \subseteq consumed',
         \A t \in Slots \ {s} : Redeeming(t) => req[t].reset \notin consumed',
         \A t \in Slots \ {s} : Holding(t) /\ Holding(s)' => req[t].reset # req'[s].reset,
         SlotInv(s)', GlobalInv'
  PROVE  SessionsInv'
<1>1. TypeOK /\ spent \subseteq Signed /\ now \in Nat
  BY DEF SessionsInv, GlobalInv, TypeOK, Ticks
<1>2. ASSUME NEW t \in Slots PROVE SlotInv(t)'
  <2>1. CASE t = s
    BY <2>1
  <2>2. CASE t # s
    <3>1. SlotInv(t)
      BY DEF SessionsInv
    <3> QED
      BY <1>1, <2>2, <3>1, SlotKept
  <2> QED
    BY <2>1, <2>2
<1>3. OneRedeemer'
  BY DEF SessionsInv, OneRedeemer, Holding, Redeeming
<1> QED
  BY <1>2, <1>3 DEF SessionsInv

\* The same for a step that changes the place and the outcome of s only.
LEMMA PlaceOf ==
  ASSUME SessionsInv, TypeOK', NEW s \in Slots, NEW to, NEW o,
         pc' = [pc EXCEPT ![s] = to], outcome' = [outcome EXCEPT ![s] = o],
         UNCHANGED <<now, users, recovery, revocation, pair, req, started, history>>,
         Holding(s)' /\ ~Holding(s) =>
           \A t \in Slots \ {s} : Holding(t) => req[t].reset # req[s].reset,
         SlotInv(s)'
  PROVE  SessionsInv'
<1>1. \A t \in Slots \ {s} : pc'[t] = pc[t] /\ outcome'[t] = outcome[t]
  BY DEF SessionsInv, TypeOK
<1>2. GlobalInv'
  BY DEF SessionsInv, GlobalInv, RotatedIsSpent, Signed, Expired, IssuedAt, recovery, revocation
<1>3. \A t \in Slots \ {s} : Redeeming(t) => req[t].reset \notin consumed'
  BY DEF SessionsInv, SlotInv, recovery
<1>4. \A t \in Slots \ {s} : Holding(t) /\ Holding(s)' => req[t].reset # req'[s].reset
  BY DEF SessionsInv, OneRedeemer
<1> QED
  BY <1>1, <1>2, <1>3, <1>4, StepOf DEF SessionsInv, TypeOK, recovery, revocation, history

-----------------------------------------------------------------------------
(* The steps *)

\* No session before the first login.
LEMMA InitSessions == Init => SessionsInv
<1> SUFFICES ASSUME Init PROVE SessionsInv
  OBVIOUS
<1>1. TypeOK
  BY InitTypes
<1>2. ASSUME NEW s \in Slots PROVE SlotInv(s)
  <2>1. /\ pc[s] = IF req[s] = NoReq THEN "idle" ELSE "overwrite"
        /\ outcome[s] = IF req[s] = NoReq THEN "none" ELSE "pending"
        /\ arrived[s] = 0 /\ started[s] = 0 /\ now = 0 /\ late = {}
    BY DEF Init
  <2>2. CASE req[s] = NoReq
    BY <2>1, <2>2 DEF SlotInv, RequestFits, Redeeming
  <2>3. CASE req[s] # NoReq
    <3>1. req[s] \in RegisterReq
      BY <2>3 DEF Init
    <3>2. req[s] \in Requests /\ req[s].kind = "register"
      BY <3>1 DEF Requests, RegisterReq
    <3> QED
      BY <2>1, <2>3, <3>2 DEF SlotInv, RequestFits, Redeeming
  <2> QED
    BY <2>2, <2>3
<1>3. GlobalInv
  BY DEF Init, GlobalInv, RotatedIsSpent, Signed
<1>4. OneRedeemer
  BY DEF Init, OneRedeemer, Holding, Redeeming
<1> QED
  BY <1>1, <1>2, <1>3, <1>4 DEF SessionsInv

\* Where a plain step leads.
Moves(s) ==
  \/ pc[s] = "find" /\ pc'[s] = "sign"
  \/ pc[s] = "blacklist" /\ pc'[s] = "validAfter" /\ ~Blacklisted(req[s])
  \/ pc[s] = "validAfter" /\ pc'[s] = IF req[s].kind = "refresh" THEN "revoke" ELSE "current"
  \/ pc[s] = "current" /\ pc'[s] = "begin"
  \/ pc[s] = "reset" /\ pc'[s] = "consume"
  \/ pc[s] = "consume" /\ pc'[s] = "update" /\ req[s].reset \notin consumed /\ ~ResetLocked(s)
  \/ pc[s] = "update" /\ pc'[s] = "commit"
  \/ pc[s] = "overwrite" /\ pc'[s] = "commit"

\* A handler goes on to its next statement.
LEMMA ProceedParts ==
  ASSUME TypeOK, NEW s \in Slots, NEW from, NEW to, Proceed(s, from, to)
  PROVE  /\ pc[s] = from /\ pc'[s] = to /\ pc' = [pc EXCEPT ![s] = to]
         /\ outcome'[s] = outcome[s] /\ outcome' = [outcome EXCEPT ![s] = outcome[s]]
  BY DEF TypeOK, Proceed

\* A handler answers.
LEMMA SettleParts ==
  ASSUME TypeOK, NEW s \in Slots, NEW from, NEW o, Settle(s, from, o)
  PROVE  /\ pc[s] = from /\ pc'[s] = "done" /\ pc' = [pc EXCEPT ![s] = "done"]
         /\ outcome'[s] = o /\ outcome' = [outcome EXCEPT ![s] = o]
  BY DEF TypeOK, Settle

\* What a step that touches its own slot only makes of its place.
LEMMA PlainMoves ==
  ASSUME TypeOK, NEW s \in Slots, PlainStep(s)
  PROVE  \/ Moves(s) /\ \E to : Proceed(s, pc[s], to)
         \/ \E o \in {"unauthorized", "expired", "used"} :
              Settle(s, pc[s], o) /\ pc[s] \notin {"idle", "done"}
<1> USE ProceedParts, SettleParts
<1>1. CASE FindAuthData(s)
  BY <1>1 DEF FindAuthData, Moves, Proceed, Settle
<1>2. CASE CheckRevoked(s)
  BY <1>2 DEF CheckRevoked, Moves, Proceed, Settle
<1>3. CASE CheckIssuedAfter(s)
  <2>1. CASE Ended(req[s].pair)
    BY <1>3, <2>1 DEF CheckIssuedAfter, Settle
  <2>2. PICK to : to = IF req[s].kind = "refresh" THEN "revoke" ELSE "current"
    OBVIOUS
  <2>3. CASE Proceed(s, "validAfter", to)
    <3>1. pc[s] = "validAfter" /\ pc'[s] = to
      BY <2>3
    <3> QED
      BY <2>2, <2>3, <3>1 DEF Moves
  <2> QED
    BY <1>3, <2>1, <2>2, <2>3 DEF CheckIssuedAfter
<1>4. CASE CheckCurrent(s)
  BY <1>4 DEF CheckCurrent, Moves, Proceed, Settle
<1>5. CASE FindReset(s)
  <2>1. CASE Proceed(s, "reset", "consume")
    BY <2>1 DEF Moves, Proceed
  <2>2. CASE Settle(s, "reset", "expired") \/ Settle(s, "reset", "used")
    BY <2>2 DEF Settle
  <2> QED
    BY <1>5, <2>1, <2>2 DEF FindReset
<1>6. CASE ConsumeReset(s)
  BY <1>6 DEF ConsumeReset, Moves, Proceed, Settle
<1>7. CASE UpdatePassword(s)
  <2>1. Proceed(s, "update", "commit")
    BY <1>7 DEF UpdatePassword
  <2>2. pc[s] = "update" /\ pc'[s] = "commit"
    BY <2>1
  <2> QED
    BY <2>1, <2>2 DEF Moves
<1>8. CASE UpdateCredentials(s)
  <2>1. Proceed(s, "overwrite", "commit")
    BY <1>8 DEF UpdateCredentials
  <2>2. pc[s] = "overwrite" /\ pc'[s] = "commit"
    BY <2>1
  <2> QED
    BY <2>1, <2>2 DEF Moves
<1> QED
  BY <1>1, <1>2, <1>3, <1>4, <1>5, <1>6, <1>7, <1>8 DEF PlainStep

\* Such a step preserves SessionsInv.
LEMMA PlainSessions ==
  ASSUME SessionsInv, NEW s \in Slots, PlainStep(s)
  PROVE  SessionsInv'
<1>0. TypeOK /\ SlotInv(s) /\ GlobalInv /\ TypeOK'
  BY PlainTypes DEF SessionsInv
<1>1. UNCHANGED <<now, users, recovery, revocation, pair, req, started, history>>
  BY DEF PlainStep, FindAuthData, CheckRevoked, CheckIssuedAfter, CheckCurrent, FindReset,
       ConsumeReset, UpdatePassword, UpdateCredentials
<1>2. /\ UNCHANGED <<now, consumed, blacklist, spent, pair, req, started, arrived, late>>
      /\ Signed' = Signed
      /\ Expired(req[s].pair, "refresh")' <=> Expired(req[s].pair, "refresh")
  BY <1>1 DEF recovery, revocation, history, Signed, Expired, IssuedAt
<1>3. CASE Moves(s) /\ \E to : Proceed(s, pc[s], to)
  <2>1. PICK to : Proceed(s, pc[s], to)
    BY <1>3
  <2>2. /\ pc' = [pc EXCEPT ![s] = to] /\ outcome' = [outcome EXCEPT ![s] = outcome[s]]
        /\ pc'[s] = to /\ outcome'[s] = outcome[s]
    BY <1>0, <2>1, ProceedParts
  <2>3. RequestFits(s)'
    BY <1>0, <1>2, <1>3, RequestParts DEF SlotInv, RequestFits, Moves
  <2>4. Redeeming(s)' => req[s].reset \notin consumed /\
          (~Redeeming(s) => \A t \in Slots \ {s} : Redeeming(t) => req[t].reset # req[s].reset)
    <3>1. CASE pc[s] = "overwrite"
      BY <1>0, <1>2, <3>1 DEF SlotInv, RequestFits, Redeeming
    <3>2. CASE pc[s] # "overwrite"
      BY <1>0, <1>2, <1>3, <3>2 DEF SlotInv, Redeeming, Moves, ResetLocked
    <3> QED
      BY <3>1, <3>2
  <2>5a. Redeeming(s)' =>
           \A t \in Slots :
              outcome[t] = "ok" /\ req[t].kind = "reset" => req[t].reset # req[s].reset
    BY <2>4 DEF SessionsInv, SlotInv
  <2>5. s \in late => LateInv(s)'
    <3> SUFFICES ASSUME s \in late PROVE LateInv(s)'
      OBVIOUS
    <3>1. LateInv(s) /\ pc'[s] # "idle"
      BY <1>0, <1>3 DEF SlotInv, Moves
    <3>2. pc[s] # "done" /\ (pc[s] = "blacklist" => ~Blacklisted(req[s]))
      BY <1>3 DEF Moves
    <3>3. Expired(req[s].pair, "refresh")
      BY <1>0, <3>1, <3>2 DEF LateInv, GlobalInv, Blacklisted
    <3> QED
      BY <1>2, <3>1, <3>3 DEF LateInv
  <2>6. /\ pc'[s] # "done" /\ outcome[s] # "ok"
        /\ pc'[s] = "sign" => req[s].kind # "refresh"
        /\ pc'[s] \in {"reset", "consume", "update", "overwrite", "commit"}
             => arrived[s] <= started[s]
    BY <1>0, <1>3 DEF SlotInv, RequestFits, Moves
  <2>7. req[s].kind \in {"refresh", "change"} => req[s].pair \in Signed
    BY <1>0, <1>3 DEF SlotInv, Moves
  <2>8. SlotInv(s)'
    BY <1>0, <1>2, <2>2, <2>3, <2>4, <2>5, <2>6, <2>7 DEF SlotInv
  <2>9. Holding(s)' /\ ~Holding(s) =>
          \A t \in Slots \ {s} : Holding(t) => req[t].reset # req[s].reset
    BY <1>2, <2>2, <2>4, <2>5a, <2>6 DEF Holding
  <2> QED
    BY <1>0, <1>1, <2>2, <2>8, <2>9, PlaceOf
<1>4. ASSUME NEW o \in {"unauthorized", "expired", "used"},
             Settle(s, pc[s], o), pc[s] \notin {"idle", "done"}
      PROVE  SessionsInv'
  <2>1. /\ pc' = [pc EXCEPT ![s] = "done"] /\ outcome' = [outcome EXCEPT ![s] = o]
        /\ pc'[s] = "done" /\ outcome'[s] = o
    BY <1>0, <1>4, SettleParts
  <2>2. SlotInv(s)'
    BY <1>0, <1>2, <1>4, <2>1 DEF SlotInv, RequestFits, Redeeming, LateInv
  <2>3. ~Holding(s)'
    BY <2>1 DEF Holding, Redeeming
  <2> QED
    BY <1>0, <1>1, <2>1, <2>2, <2>3, PlaceOf
<1> QED
  BY <1>0, <1>3, <1>4, PlainMoves

\* A request that arrives preserves SessionsInv.
LEMMA ArriveSessions ==
  ASSUME SessionsInv, NEW s \in Slots, NEW r \in Requests, NEW to, NEW o, Arrive(s, r, to, o),
         \/ to = "find" /\ o = "pending" /\ r.kind = "login"
         \/ to = "blacklist" /\ o = "pending" /\ r.kind \in {"refresh", "change"}
         \/ to = "done" /\ o = "unauthorized" /\ r.kind \in {"refresh", "change"}
         \/ to = "begin" /\ o = "pending" /\ r.kind = "reset",
         r.kind \in {"refresh", "change"} => r.pair \in Signed,
         late' \in {late \cup {s}, late \ {s}},
         s \in late' => r.kind \in {"refresh", "change"} /\ r.type = "refresh" /\ r.pair \in spent
  PROVE  SessionsInv'
<1>0. TypeOK /\ SlotInv(s) /\ GlobalInv
  BY DEF SessionsInv
<1>1. TypeOK'
  <2>1. to \in Pcs /\ o \in {"pending", "unauthorized"} /\ late' \in SUBSET Slots
    BY <1>0 DEF TypeOK, Pcs, LoginPcs, RefreshPcs, TokenPcs, ResetPcs
  <2> QED
    BY <2>1, ArriveTypes
<1>2. UNCHANGED <<now, password, validAfter, resets, consumed, redeemed, blacklist, spent, pair>>
  BY DEF Arrive, users, recovery, revocation
<1>3. /\ pc'[s] = to /\ req'[s] = r /\ outcome'[s] = o
      /\ arrived'[s] = IF r.kind \in {"change", "reset"} THEN now ELSE 0
  BY <1>0 DEF Arrive, TypeOK
<1>4. SlotInv(s)'
  <2>1. RequestFits(s)'
    BY <1>3 DEF RequestFits
  <2>2. arrived'[s] <= now'
    BY <1>0, <1>2, <1>3 DEF TypeOK, Ticks
  <2>3. Signed' = Signed
    BY <1>2 DEF Signed
  <2>4. s \in late' => LateInv(s)'
    BY <1>2, <1>3 DEF LateInv
  <2> QED
    BY <1>2, <1>3, <2>1, <2>2, <2>3, <2>4 DEF SlotInv, Redeeming
<1>5. GlobalInv'
  BY <1>0, <1>2 DEF GlobalInv, RotatedIsSpent, Signed, Expired, IssuedAt
<1>6. \A t \in Slots \ {s} :
        /\ pc'[t] = pc[t] /\ req'[t] = req[t] /\ outcome'[t] = outcome[t]
        /\ started'[t] = started[t] /\ arrived'[t] = arrived[t]
        /\ t \in late' => t \in late
  BY <1>0 DEF Arrive, TypeOK
<1>7. ~Holding(s)'
  BY <1>3 DEF Holding, Redeeming
<1>8. \A t \in Slots \ {s} : Redeeming(t) => req[t].reset \notin consumed'
  BY <1>2 DEF SessionsInv, SlotInv
<1> QED
  BY <1>1, <1>2, <1>4, <1>5, <1>6, <1>7, <1>8, StepOf

\* Any of the requests that arrive does.
LEMMA ReceiveSessions ==
  ASSUME SessionsInv, NEW s \in Slots, Receive(s)
  PROVE  SessionsInv'
<1>1. CASE ReceiveLogin(s)
  <2>1. PICK r \in LoginReq : Arrive(s, r, "find", "pending")
    BY <1>1 DEF ReceiveLogin
  <2>2. r \in Requests /\ r.kind = "login"
    BY DEF Requests, LoginReq
  <2>3. late' = late \ {s}
    BY <1>1 DEF ReceiveLogin
  <2> QED
    BY <2>1, <2>2, <2>3, ArriveSessions
<1>2. CASE ReceiveToken(s)
  <2>1. PICK r \in RefreshReq \cup ChangeReq :
          /\ r.pair \in Signed
          /\ \/ Arrive(s, r, "blacklist", "pending")
             \/ Arrive(s, r, "done", "unauthorized")
          /\ late' = IF r.type = "refresh" /\ r.pair \in spent THEN late \cup {s} ELSE late \ {s}
    BY <1>2 DEF ReceiveToken
  <2>2. r \in Requests /\ r.kind \in {"refresh", "change"}
    BY DEF Requests, RefreshReq, ChangeReq
  <2>3. /\ late' \in {late \cup {s}, late \ {s}}
        /\ s \in late' => r.type = "refresh" /\ r.pair \in spent
    BY <2>1
  <2> QED
    BY <2>1, <2>2, <2>3, ArriveSessions
<1>3. CASE ReceiveReset(s)
  <2>1. PICK r \in ResetReq : Arrive(s, r, "begin", "pending")
    BY <1>3 DEF ReceiveReset
  <2>2. r \in Requests /\ r.kind = "reset"
    BY DEF Requests, ResetReq
  <2>3. late' = late \ {s}
    BY <1>3 DEF ReceiveReset
  <2> QED
    BY <2>1, <2>2, <2>3, ArriveSessions
<1> QED
  BY <1>1, <1>2, <1>3 DEF Receive

\* New tokens, of a login or for a refresh token that is spent.
LEMMA SignSessions ==
  ASSUME SessionsInv, NEW s \in Slots, IssueForUser(s) \/ IssueRotated(s)
  PROVE  SessionsInv'
<1>0. TypeOK /\ SlotInv(s) /\ GlobalInv /\ TypeOK'
  BY StepTypes DEF SessionsInv
<1>1. PICK parent \in Pairs \cup {NoPair} :
        Sign(parent) /\ (parent # NoPair => parent \in spent)
  <2>1. CASE IssueForUser(s)
    BY <2>1 DEF IssueForUser
  <2>2. CASE IssueRotated(s)
    BY <1>0, <2>2 DEF IssueRotated, SlotInv, GlobalInv, Signed, Settle
  <2> QED
    BY <2>1, <2>2
<1>2. /\ \A p \in Signed : pair'[p] = pair[p]
      /\ \A p \in Pairs \ Signed : pair'[p] = NoPair \/ pair'[p].parent = parent
  BY <1>0, <1>1, SignTypes
<1>3. /\ UNCHANGED <<now, users, recovery, revocation, req, started, history>>
      /\ Settle(s, "sign", "ok")
  BY DEF IssueForUser, IssueRotated
<1>4. /\ pc[s] = "sign" /\ pc'[s] = "done" /\ outcome'[s] = "ok"
      /\ \A t \in Slots \ {s} : pc'[t] = pc[t] /\ outcome'[t] = outcome[t]
  BY <1>0, <1>3, SettleParts DEF TypeOK
<1>5. UNCHANGED <<now, consumed, redeemed, blacklist, spent, req, started, arrived, late>>
  BY <1>3 DEF users, recovery, revocation, history
<1>6. Signed \subseteq Signed'
  BY <1>2 DEF Signed
<1>7. \A p \in Signed : Expired(p, "refresh")' = Expired(p, "refresh")
  BY <1>2, <1>5 DEF Expired, IssuedAt
<1>8. GlobalInv'
  <2>1. RotatedIsSpent'
    <3> SUFFICES ASSUME NEW p \in Signed', pair'[p].parent # NoPair
                 PROVE  pair'[p].parent \in spent
      BY <1>5 DEF RotatedIsSpent
    <3>1. CASE p \in Signed
      BY <1>0, <1>2, <3>1 DEF GlobalInv, RotatedIsSpent
    <3>2. CASE p \notin Signed
      BY <1>1, <1>2, <3>2 DEF Signed
    <3> QED
      BY <3>1, <3>2
  <2> QED
    BY <1>0, <1>5, <1>6, <1>7, <2>1 DEF GlobalInv
<1>9. req[s].kind \in {"login", "refresh"} /\ req[s] \in Requests
  BY <1>0, <1>4 DEF SlotInv, RequestFits
<1>10. s \in late => LateInv(s)'
  <2> SUFFICES ASSUME s \in late PROVE LateInv(s)'
    OBVIOUS
  <2>1. LateInv(s) /\ req[s].pair \in Signed
    BY <1>0 DEF SlotInv, LateInv, GlobalInv
  <2>2. Expired(req[s].pair, "refresh")
    BY <1>4, <2>1 DEF LateInv
  <2> QED
    BY <1>4, <1>5, <1>7, <2>1, <2>2 DEF LateInv
<1>11. SlotInv(s)'
  BY <1>0, <1>4, <1>5, <1>6, <1>9, <1>10 DEF SlotInv, RequestFits, Redeeming
<1>12. ~Holding(s)'
  BY <1>4, <1>5, <1>9 DEF Holding, Redeeming
<1>13. \A t \in Slots \ {s} : Redeeming(t) => req[t].reset \notin consumed'
  BY <1>5 DEF SessionsInv, SlotInv
<1> QED
  BY <1>0, <1>2, <1>4, <1>5, <1>8, <1>11, <1>12, <1>13, StepOf

\* A revocation leaves what is known of pairs and resets.
LEMMA RevokedGlobals ==
  ASSUME SessionsInv, NEW s \in Slots, pc[s] = "revoke", RecordRevoked(s),
         UNCHANGED <<now, pair, consumed, redeemed>>
  PROVE  GlobalInv' /\ spent \subseteq spent' /\ req[s].pair \in spent'
<1>1. GlobalInv /\ req[s].pair \in Signed
  BY DEF SessionsInv, SlotInv, RequestFits
<1>2. blacklist' = blacklist \cup {req[s].pair} /\ spent' = spent \cup {req[s].pair}
  BY DEF RecordRevoked
<1>3. Signed' = Signed /\ \A p \in Signed : Expired(p, "refresh")' = Expired(p, "refresh")
  BY DEF Signed, Expired, IssuedAt
<1>4. RotatedIsSpent'
  BY <1>1, <1>2, <1>3 DEF GlobalInv, RotatedIsSpent
<1> QED
  BY <1>1, <1>2, <1>3, <1>4 DEF GlobalInv

\* So does the COMMIT of a change of password.
LEMMA AppliedGlobals ==
  ASSUME SessionsInv, NEW s \in Slots, pc[s] = "commit", Apply(s),
         UNCHANGED <<now, pair, blacklist, spent>>
  PROVE  /\ GlobalInv' /\ consumed \subseteq consumed'
         /\ req[s].kind = "reset" => req[s].reset \in consumed'
         /\ \A t \in Slots \ {s} : Redeeming(t) => req[t].reset \notin consumed'
<1>1. /\ TypeOK /\ GlobalInv /\ SlotInv(s)
      /\ req[s] \in Requests /\ req[s].kind \in {"change", "reset", "register"}
  BY DEF SessionsInv, SlotInv, RequestFits
<1>2. RotatedIsSpent' /\ spent' \subseteq Signed'
      /\ \A p \in spent' : p \in blacklist' \/ Expired(p, "refresh")'
  BY <1>1 DEF GlobalInv, RotatedIsSpent, Signed, Expired, IssuedAt
<1>3. \A t \in Slots : Redeeming(t) => req[t].reset \notin consumed
  BY DEF SessionsInv, SlotInv
<1>4. CASE req[s].kind # "reset"
  BY <1>1, <1>2, <1>3, <1>4 DEF Apply, ApplyReset, GlobalInv
<1>5. CASE req[s].kind = "reset"
  <2> DEFINE r == req[s].reset
  <2>1. consumed' = consumed \cup {r} /\ redeemed' = [redeemed EXCEPT ![r] = @ + 1]
    BY <1>5 DEF Apply, ApplyReset
  <2>2. r \in Resets /\ Redeeming(s) /\ r \notin consumed
    BY <1>1, <1>3, <1>5, RequestParts DEF Redeeming
  <2>3. \A q \in Resets : redeemed'[q] <= 1 /\ (q \notin consumed' => redeemed'[q] = 0)
    BY <1>1, <2>1, <2>2 DEF GlobalInv, TypeOK
  <2>4. \A t \in Slots \ {s} : Redeeming(t) => req[t].reset # r
    BY <2>2 DEF SessionsInv, OneRedeemer, Holding
  <2> QED
    BY <1>2, <1>3, <2>1, <2>3, <2>4 DEF GlobalInv
<1> QED
  BY <1>1, <1>4, <1>5

\* The UPDATE that spends a refresh token.
LEMMA RevokeSessions ==
  ASSUME SessionsInv, NEW s \in Slots, RevokeUsed(s)
  PROVE  SessionsInv'
<1>0. TypeOK /\ SlotInv(s) /\ TypeOK'
  BY StepTypes DEF SessionsInv
<1>1. /\ UNCHANGED <<now, users, recovery, pair, req, started, history>>
      /\ Proceed(s, "revoke", "sign") /\ RecordRevoked(s)
  BY DEF RevokeUsed
<1>2. /\ pc[s] = "revoke" /\ pc'[s] = "sign" /\ outcome'[s] = outcome[s]
      /\ \A t \in Slots \ {s} : pc'[t] = pc[t] /\ outcome'[t] = outcome[t]
  BY <1>0, <1>1, ProceedParts DEF TypeOK
<1>3. UNCHANGED <<now, consumed, redeemed, pair, req, started, arrived, late>>
  BY <1>1 DEF users, recovery, history
<1>4. GlobalInv' /\ spent \subseteq spent' /\ req[s].pair \in spent'
  BY <1>1, <1>2, <1>3, RevokedGlobals
<1>5. req[s].kind = "refresh" /\ req[s] \in Requests /\ req[s].pair \in Signed
  BY <1>0, <1>2 DEF SlotInv, RequestFits
<1>6. s \in late => LateInv(s)'
  BY <1>0, <1>2, <1>3, <1>4 DEF SlotInv, LateInv, Expired, IssuedAt
<1>7. SlotInv(s)'
  BY <1>0, <1>2, <1>3, <1>4, <1>5, <1>6 DEF SlotInv, RequestFits, Redeeming, Signed
<1>8. ~Holding(s)'
  BY <1>2, <1>3, <1>5 DEF Holding, Redeeming
<1>9. \A t \in Slots \ {s} : Redeeming(t) => req[t].reset \notin consumed'
  BY <1>3 DEF SessionsInv, SlotInv
<1> QED
  BY <1>0, <1>2, <1>3, <1>4, <1>7, <1>8, <1>9, StepOf

\* A transaction begins.
LEMMA BeginSessions ==
  ASSUME SessionsInv, NEW s \in Slots, Begin(s)
  PROVE  SessionsInv'
<1>0. TypeOK /\ SlotInv(s) /\ GlobalInv /\ TypeOK'
  BY StepTypes DEF SessionsInv
<1>1. PICK to : to = IF req[s].kind = "reset" THEN "reset" ELSE "update"
  OBVIOUS
<1>2. /\ UNCHANGED <<now, users, recovery, revocation, pair, req, history>>
      /\ Proceed(s, "begin", to) /\ started' = [started EXCEPT ![s] = now]
  BY <1>1 DEF Begin
<1>3. /\ pc[s] = "begin" /\ pc'[s] = to /\ outcome'[s] = outcome[s] /\ started'[s] = now
      /\ \A t \in Slots \ {s} :
            pc'[t] = pc[t] /\ outcome'[t] = outcome[t] /\ started'[t] = started[t]
  BY <1>0, <1>2, ProceedParts DEF TypeOK
<1>4. UNCHANGED <<now, consumed, redeemed, blacklist, spent, pair, req, arrived, late>>
  BY <1>2 DEF users, recovery, revocation, history
<1>5. Signed' = Signed /\ \A p : Expired(p, "refresh")' = Expired(p, "refresh")
  BY <1>4 DEF Signed, Expired, IssuedAt
<1>6. GlobalInv'
  BY <1>0, <1>4, <1>5 DEF GlobalInv, RotatedIsSpent
<1>7. req[s].kind \in {"change", "reset"} /\ req[s] \in Requests
  BY <1>0, <1>3 DEF SlotInv, RequestFits
<1>8. s \in late => LateInv(s)'
  BY <1>0, <1>1, <1>3, <1>4, <1>5 DEF SlotInv, LateInv
<1>9. SlotInv(s)'
  BY <1>0, <1>1, <1>3, <1>4, <1>5, <1>7, <1>8 DEF SlotInv, RequestFits, Redeeming
<1>10. ~Holding(s)'
  BY <1>0, <1>1, <1>3, <1>4, <1>7 DEF SlotInv, Holding, Redeeming
<1>11. \A t \in Slots \ {s} : Redeeming(t) => req[t].reset \notin consumed'
  BY <1>4 DEF SessionsInv, SlotInv
<1> QED
  BY <1>0, <1>3, <1>4, <1>6, <1>9, <1>10, <1>11, StepOf

\* The end of a request by a COMMIT or by a fault.
LEMMA EndSessions ==
  ASSUME SessionsInv, TypeOK', NEW s \in Slots, NEW o \in {"ok", "error"},
         pc[s] \notin {"idle", "done"}, Settle(s, pc[s], o),
         UNCHANGED <<now, pair, req, started, history>>,
         o = "ok" => pc[s] = "commit" /\ (req[s].kind = "reset" => req[s].reset \in consumed'),
         spent \subseteq spent', consumed \subseteq consumed', GlobalInv',
         \A t \in Slots \ {s} : Redeeming(t) => req[t].reset \notin consumed'
  PROVE  SessionsInv'
<1>0. TypeOK /\ SlotInv(s) /\ GlobalInv
  BY DEF SessionsInv
<1>1. /\ pc'[s] = "done" /\ outcome'[s] = o
      /\ \A t \in Slots \ {s} : pc'[t] = pc[t] /\ outcome'[t] = outcome[t]
  BY <1>0, SettleParts DEF TypeOK
<1>2. UNCHANGED <<arrived, late>> /\ Signed' = Signed
      /\ \A p : Expired(p, "refresh")' = Expired(p, "refresh")
  BY DEF history, Signed, Expired, IssuedAt
<1>3. o = "ok" => req[s].kind \in {"change", "reset", "register"}
  BY <1>0 DEF SlotInv, RequestFits
<1>4. s \in late => LateInv(s)'
  <2> SUFFICES ASSUME s \in late PROVE LateInv(s)'
    OBVIOUS
  <2>1. LateInv(s)
    BY <1>0 DEF SlotInv
  <2>2. CASE o = "error"
    BY <1>1, <1>2, <2>1, <2>2 DEF LateInv
  <2>3. CASE o = "ok"
    BY <1>1, <1>2, <2>1, <2>3 DEF LateInv
  <2> QED
    BY <2>2, <2>3
<1>5. SlotInv(s)'
  BY <1>0, <1>1, <1>2, <1>4 DEF SlotInv, RequestFits, Redeeming
<1>6. \A t \in Slots \ {s} : Holding(t) /\ Holding(s)' => req[t].reset # req'[s].reset
  <2> SUFFICES ASSUME NEW t \in Slots \ {s}, Holding(t), Holding(s)'
               PROVE  req[t].reset # req[s].reset
    OBVIOUS
  <2>1. o = "ok" /\ req[s].kind = "reset"
    BY <1>1 DEF Holding, Redeeming
  <2>2. Holding(s)
    BY <2>1 DEF Holding, Redeeming
  <2> QED
    BY <2>2 DEF SessionsInv, OneRedeemer
<1> QED
  BY <1>1, <1>2, <1>5, <1>6, StepOf

\* A COMMIT preserves SessionsInv.
LEMMA CommitSessions ==
  ASSUME SessionsInv, NEW s \in Slots, Commit(s)
  PROVE  SessionsInv'
<1>1. /\ pc[s] = "commit" /\ Settle(s, pc[s], "ok") /\ Apply(s)
      /\ UNCHANGED <<now, resets, revocation, pair, req, started, history>>
  BY DEF Commit, Settle
<1>2. /\ GlobalInv' /\ consumed \subseteq consumed'
      /\ req[s].kind = "reset" => req[s].reset \in consumed'
      /\ \A t \in Slots \ {s} : Redeeming(t) => req[t].reset \notin consumed'
  BY <1>1, AppliedGlobals DEF revocation
<1>3. spent \subseteq spent'
  BY <1>1 DEF revocation
<1> QED
  BY <1>1, <1>2, <1>3, CommitTypes, EndSessions

\* A lost statement, COMMIT or answer preserves SessionsInv.
LEMMA FaultSessions ==
  ASSUME SessionsInv, NEW s \in Slots, Fault(s)
  PROVE  SessionsInv'
<1>1. /\ pc[s] \notin {"idle", "done"} /\ Settle(s, pc[s], "error")
      /\ UNCHANGED <<now, resets, pair, req, started, history>>
  BY DEF Fault, Settle, DbPcs
<1>2. \A t \in Slots : Redeeming(t) => req[t].reset \notin consumed
  BY DEF SessionsInv, SlotInv
<1>3. CASE UNCHANGED <<users, consumed, redeemed, revocation>>
  <2>1. GlobalInv'
    BY <1>1, <1>3 DEF SessionsInv, GlobalInv, RotatedIsSpent, Signed, Expired, IssuedAt, revocation
  <2>2. spent \subseteq spent' /\ consumed \subseteq consumed'
    BY <1>3 DEF revocation
  <2> QED
    BY <1>1, <1>2, <1>3, <2>1, <2>2, FaultTypes, EndSessions
<1>4. CASE pc[s] = "revoke" /\ RecordRevoked(s) /\ UNCHANGED <<users, consumed, redeemed>>
  BY <1>1, <1>2, <1>4, RevokedGlobals, FaultTypes, EndSessions
<1>5. CASE pc[s] = "commit" /\ Apply(s) /\ UNCHANGED revocation
  BY <1>1, <1>5, AppliedGlobals, FaultTypes, EndSessions DEF revocation
<1> QED
  BY <1>3, <1>4, <1>5 DEF Fault

\* Mailed resets, the clean-up of the blacklist and the clock.
LEMMA OtherSessions ==
  ASSUME SessionsInv, RequestReset \/ CleanupExpired \/ Tick \/ UNCHANGED vars
  PROVE  SessionsInv'
<1>0. TypeOK /\ GlobalInv /\ TypeOK' /\ now \in Nat /\ now' \in Nat
  BY OtherTypes DEF SessionsInv, TypeOK, Ticks
<1>1. /\ UNCHANGED <<consumed, redeemed, spent, pair, pc, req, outcome, started, arrived, late>>
      /\ now <= now'
  BY <1>0 DEF RequestReset, CleanupExpired, Tick, vars, users, recovery, revocation, history
<1>2. ASSUME NEW s \in Slots PROVE SlotInv(s)'
  <2>1. SlotInv(s) /\ (Redeeming(s) => req[s].reset \notin consumed')
    BY <1>1 DEF SessionsInv, SlotInv
  <2> QED
    BY <1>0, <1>1, <2>1, SlotKept DEF GlobalInv
<1>3. GlobalInv'
  <2>1. Signed' = Signed
    BY <1>1 DEF Signed
  <2>2. \A p \in Signed : Expired(p, "refresh") => Expired(p, "refresh")'
    BY <1>0, <1>1, ExpiredStays
  <2>3. ASSUME NEW p \in spent, p \in blacklist PROVE p \in blacklist' \/ Expired(p, "refresh")'
    <3>1. CASE CleanupExpired
      <4>1. p \in Signed /\ IssuedAt(p) \in Int
        BY <1>0, IssuedAtIsInt DEF GlobalInv
      <4>2. p \in blacklist' \/ IssuedAt(p) + RefreshTtl < now
        BY <1>0, <2>3, <3>1, <4>1 DEF CleanupExpired
      <4>3. CASE IssuedAt(p) + RefreshTtl < now
        <5>1. Expired(p, "refresh")
          BY <1>0, <4>1, <4>3 DEF Expired, Ttl
        <5> QED
          BY <2>2, <4>1, <5>1
      <4> QED
        BY <4>2, <4>3
    <3>2. CASE RequestReset \/ Tick \/ UNCHANGED vars
      BY <2>3, <3>2 DEF RequestReset, Tick, vars, revocation
    <3> QED
      BY <3>1, <3>2
  <2>4. RotatedIsSpent'
    BY <1>0, <1>1, <2>1 DEF GlobalInv, RotatedIsSpent
  <2> QED
    BY <1>0, <1>1, <2>1, <2>2, <2>3, <2>4 DEF GlobalInv
<1>4. OneRedeemer'
  BY <1>1 DEF SessionsInv, OneRedeemer, Holding, Redeeming
<1> QED
  BY <1>0, <1>2, <1>3, <1>4 DEF SessionsInv

\* Every step preserves SessionsInv.
LEMMA NextSessions == SessionsInv /\ [Next]_vars => SessionsInv'
<1> SUFFICES ASSUME SessionsInv, [Next]_vars PROVE SessionsInv'
  OBVIOUS
<1>1. ASSUME NEW s \in Slots, Receive(s) PROVE SessionsInv'
  BY <1>1, ReceiveSessions
<1>2. ASSUME NEW s \in Slots, HandlerStep(s) PROVE SessionsInv'
  <2>1. CASE PlainStep(s)
    BY <2>1, PlainSessions
  <2>2. CASE IssueForUser(s) \/ IssueRotated(s)
    BY <2>2, SignSessions
  <2>3. CASE RevokeUsed(s)
    BY <2>3, RevokeSessions
  <2>4. CASE Begin(s)
    BY <2>4, BeginSessions
  <2>5. CASE Commit(s)
    BY <2>5, CommitSessions
  <2> QED
    BY <1>2, <2>1, <2>2, <2>3, <2>4, <2>5 DEF HandlerStep, PlainStep
<1>3. ASSUME NEW s \in Slots, Fault(s) PROVE SessionsInv'
  BY <1>3, FaultSessions
<1>4. CASE RequestReset \/ CleanupExpired \/ Tick \/ UNCHANGED vars
  BY <1>4, OtherSessions
<1> QED
  BY <1>1, <1>2, <1>3, <1>4 DEF Next

-----------------------------------------------------------------------------
\* SessionsInv holds in every reachable state: what is known of each request by
\* its place, of pairs, revocations and resets, and who holds which lock.
THEOREM SessionsInvariance == Spec => []SessionsInv
  BY InitSessions, NextSessions, PTL DEF Spec

\* Every variable of Sessions keeps its type.
THEOREM SessionTypes == Spec => []TypeOK
<1>1. SessionsInv => TypeOK
  BY DEF SessionsInv
<1> QED
  BY <1>1, SessionsInvariance, PTL

\* auth-session-lifecycle.service.ts, refresh: new tokens exist only for a
\* refresh token that is spent already.
THEOREM RotationSpends == Spec => []RotatedIsSpent
<1>1. SessionsInv => RotatedIsSpent
  BY DEF SessionsInv, GlobalInv
<1> QED
  BY <1>1, SessionsInvariance, PTL

\* reset-password.handler.ts: however many requests redeem a reset at the same
\* time, one at most changes the password and is told so.
THEOREM RedeemedAtMostOnce == Spec => []ResetRedeemedOnce
<1>1. SessionsInv => ResetRedeemedOnce
  <2> SUFFICES ASSUME SessionsInv PROVE ResetRedeemedOnce
    OBVIOUS
  <2>1. \A r \in Resets : redeemed[r] <= 1
    BY DEF SessionsInv, GlobalInv
  <2>2. ASSUME NEW s \in Slots, outcome[s] = "ok", req[s] \in ResetReq PROVE Holding(s)
    BY <2>2 DEF Holding, ResetReq
  <2> QED
    BY <2>1, <2>2 DEF SessionsInv, OneRedeemer, ResetRedeemedOnce
<1> QED
  BY <1>1, SessionsInvariance, PTL

\* pg-token-revocation-repository.ts and verifyRefreshToken: a refresh token
\* spent before a request arrived is of no use to it, clean-up or not.
THEOREM SpentIsRefused == Spec => []SpentTokenRefused
<1>1. SessionsInv => SpentTokenRefused
  <2> SUFFICES ASSUME SessionsInv, NEW s \in late
               PROVE  \/ pc[s] = "blacklist"
                      \/ pc[s] = "done" /\ outcome[s] # "ok"
                      \/ Expired(req[s].pair, "refresh")
    BY DEF SpentTokenRefused
  <2> QED
    BY DEF SessionsInv, TypeOK, SlotInv, LateInv
<1> QED
  BY <1>1, SessionsInvariance, PTL

\* jwt-token.service.ts, assertIssuedAfterTokenValidAfter: rounding iat down to
\* a second never lets a token through that was signed before token_valid_after.
THEOREM RoundingIsSafe == Spec => []EndedToTheSecond
<1>1. SessionsInv => EndedToTheSecond
  <2> SUFFICES ASSUME SessionsInv, NEW p \in Signed
               PROVE  /\ pair[p].at < validAfter => Ended(p)
                      /\ pair[p].at >= validAfter + Second => ~Ended(p)
    BY DEF EndedToTheSecond
  <2>1. TypeOK /\ validAfter \in Nat
    BY DEF SessionsInv, TypeOK, Ticks
  <2> QED
    BY <2>1, IssuedAtIsInt DEF Ended
<1> QED
  BY <1>1, SessionsInvariance, PTL

\* change-password.handler.ts and reset-password.handler.ts: a change that says
\* "ok" has replaced the password and ended whatever was signed before it arrived.
THEOREM ChangesEndSessions == Spec => ChangeEndsSessions
<1> DEFINE Ends ==
      \A s \in Slots :
        outcome'[s] = "ok" /\ outcome[s] # "ok" /\ req[s].kind \in {"change", "reset"}
          => /\ password' = req[s].password
             /\ \A p \in Signed : pair[p].at < arrived[s] => Ended(p)'
<1>1. SessionsInv /\ [Next]_vars => [Ends]_vars
  <2> SUFFICES ASSUME SessionsInv, Next, NEW s \in Slots,
                      outcome'[s] = "ok", outcome[s] # "ok", req[s].kind \in {"change", "reset"}
               PROVE  /\ password' = req[s].password
                      /\ \A p \in Signed : pair[p].at < arrived[s] => Ended(p)'
    OBVIOUS
  <2>0. TypeOK /\ SlotInv(s)
    BY DEF SessionsInv
  <2>1. Commit(s)
    <3>1. PICK t \in Slots : Receive(t) \/ HandlerStep(t) \/ Fault(t)
      BY DEF Next, RequestReset, CleanupExpired, Tick
    <3>2. t = s
      <4>1. \A o : outcome' = [outcome EXCEPT ![t] = o] => t = s
        BY <2>0 DEF TypeOK
      <4>2. CASE Receive(t)
        BY <4>1, <4>2 DEF Receive, ReceiveLogin, ReceiveToken, ReceiveReset, Arrive
      <4>3. CASE HandlerStep(t)
        BY <4>1, <4>3 DEF HandlerStep, Proceed, Settle, FindAuthData, IssueForUser, CheckRevoked,
             CheckIssuedAfter, RevokeUsed, IssueRotated, CheckCurrent, Begin, FindReset,
             ConsumeReset, UpdatePassword, UpdateCredentials, Commit
      <4>4. CASE Fault(t)
        BY <4>1, <4>4 DEF Fault, Settle
      <4> QED
        BY <3>1, <4>2, <4>3, <4>4
    <3>3. ~Receive(s)
      BY <2>0 DEF Receive, ReceiveLogin, ReceiveToken, ReceiveReset, Arrive, TypeOK
    <3>4. ~Fault(s)
      BY <2>0 DEF Fault, Settle, TypeOK
    <3>5. ~PlainStep(s)
      <4> SUFFICES ASSUME PlainStep(s) PROVE FALSE
        OBVIOUS
      <4>1. \A to : Proceed(s, pc[s], to) => outcome'[s] = outcome[s]
        BY <2>0, ProceedParts
      <4>2. \A o : Settle(s, pc[s], o) => outcome'[s] = o
        BY <2>0, SettleParts
      <4> QED
        BY <2>0, <4>1, <4>2, PlainMoves
    <3>6. ~IssueForUser(s) /\ ~IssueRotated(s)
      BY DEF IssueForUser, IssueRotated
    <3>7. ~RevokeUsed(s) /\ ~Begin(s)
      BY <2>0 DEF RevokeUsed, Begin, Proceed
    <3> QED
      BY <3>1, <3>2, <3>3, <3>4, <3>5, <3>6, <3>7 DEF HandlerStep, PlainStep
  <2>2. /\ password' = req[s].password /\ validAfter' = started[s] /\ pair' = pair
        /\ arrived[s] <= started[s]
    BY <2>0, <2>1 DEF Commit, Apply, Settle, SlotInv
  <2>3. ASSUME NEW p \in Signed, pair[p].at < arrived[s] PROVE Ended(p)'
    <3>1. IssuedAt(p)' = IssuedAt(p)
      BY <2>2 DEF IssuedAt
    <3>2. IssuedAt(p) \in Int /\ IssuedAt(p) <= pair[p].at /\ pair[p].at \in Nat
          /\ arrived[s] \in Nat /\ started[s] \in Nat
      BY <2>0, IssuedAtIsInt DEF TypeOK, Ticks
    <3> QED
      BY <2>2, <2>3, <3>1, <3>2 DEF Ended
  <2> QED
    BY <2>2, <2>3
<1>2. Spec => [][Ends]_vars
  BY <1>1, SessionsInvariance, PTL DEF Spec
<1> QED
  BY <1>2 DEF ChangeEndsSessions

\* The row of users has three writers, each at its COMMIT: a change and a reset,
\* which set password and time together and end what was signed before the request
\* arrived (the reset is consumed with it), and a late registration, which sets
\* the password and leaves the time, and with it every session, as it was.
PasswordRowWrites ==
  users' # users =>
    \E s \in Slots :
      /\ pc[s] = "commit" /\ pc'[s] = "done"
      /\ password' = req[s].password
      /\ \/ /\ req[s].kind = "change" /\ req[s].pair \in Signed
            /\ \A p \in Signed : pair[p].at < arrived[s] => Ended(p)'
         \/ /\ req[s].kind = "reset" /\ req[s].reset \in consumed' \ consumed
            /\ \A p \in Signed : pair[p].at < arrived[s] => Ended(p)'
         \/ /\ req[s].kind = "register" /\ validAfter' = validAfter
            /\ \A p \in Signed : Ended(p)' <=> Ended(p)

\* change-password.handler.ts, pg-password-reset-repository.ts and
\* pg-user-repository.ts, updateCredentials: nothing else touches the password or
\* the time, and a COMMIT whose answer is lost does as much as any other.
THEOREM PasswordRowIsGuarded == Spec => [][PasswordRowWrites]_vars
<1>1. ASSUME SessionsInv, [Next]_vars PROVE PasswordRowWrites
  <2> SUFFICES ASSUME users' # users PROVE PasswordRowWrites
    BY DEF PasswordRowWrites
  <2>1. PICK s \in Slots : Commit(s) \/ (Fault(s) /\ pc[s] = "commit" /\ Apply(s))
    BY <1>1 DEF Next, vars, Receive, ReceiveLogin, ReceiveToken, ReceiveReset, Arrive, HandlerStep,
                FindAuthData, IssueForUser, CheckRevoked, CheckIssuedAfter, RevokeUsed,
                IssueRotated, CheckCurrent, Begin, FindReset, ConsumeReset, UpdatePassword,
                UpdateCredentials, Fault, RequestReset, CleanupExpired, Tick, users
  <2>2. TypeOK /\ SlotInv(s)
    BY <1>1 DEF SessionsInv
  <2>3. /\ pc[s] = "commit" /\ pc'[s] = "done" /\ Apply(s) /\ pair' = pair
        /\ arrived[s] <= started[s]
    BY <2>1, <2>2 DEF Commit, Fault, Settle, SlotInv, TypeOK
  <2>4. /\ password' = req[s].password
        /\ req[s].kind \in {"change", "reset"} => validAfter' = started[s]
        /\ req[s].kind \in {"change", "reset", "register"}
    BY <2>3 DEF Apply
  <2>5. \A p \in Signed : IssuedAt(p)' = IssuedAt(p)
    BY <2>3 DEF IssuedAt
  <2>6. ASSUME req[s].kind \in {"change", "reset"}, NEW p \in Signed, pair[p].at < arrived[s]
        PROVE  Ended(p)'
    <3>1. IssuedAt(p) <= pair[p].at /\ IssuedAt(p) \in Int /\ pair[p].at \in Int
      BY <2>2, IssuedAtIsInt
    <3>2. arrived[s] \in Int /\ started[s] \in Int
      BY <2>2 DEF TypeOK, Ticks
    <3> QED
      BY <2>3, <2>4, <2>5, <2>6, <3>1, <3>2 DEF Ended
  <2>7. CASE req[s].kind = "change"
    <3>1. req[s].pair \in Signed
      BY <2>2, <2>3, <2>7 DEF SlotInv
    <3> QED
      BY <2>3, <2>4, <2>6, <2>7, <3>1 DEF PasswordRowWrites
  <2>8. CASE req[s].kind = "reset"
    <3>1. req[s].reset \in consumed' \ consumed
      BY <2>2, <2>3, <2>8 DEF SlotInv, Redeeming, Apply, ApplyReset
    <3> QED
      BY <2>3, <2>4, <2>6, <2>8, <3>1 DEF PasswordRowWrites
  <2>9. CASE req[s].kind = "register"
    <3>1. validAfter' = validAfter
      BY <2>3, <2>9 DEF Apply
    <3> QED
      BY <2>3, <2>4, <2>5, <2>9, <3>1 DEF PasswordRowWrites, Ended
  <2> QED
    BY <2>4, <2>7, <2>8, <2>9
<1>2. SessionsInv /\ [Next]_vars => [PasswordRowWrites]_vars
  BY <1>1
<1> QED
  BY <1>2, SessionsInvariance, PTL DEF Spec
=============================================================================
