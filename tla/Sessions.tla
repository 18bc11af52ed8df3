------------------------------ MODULE Sessions ------------------------------
(***************************************************************************)
(* The sessions of one confirmed account: login, the rotation of refresh   *)
(* tokens, the check every protected endpoint makes of its token, and the  *)
(* two ways to change the password, each of which ends the sessions that   *)
(* exist.  The password has a third writer: a registration that found the  *)
(* account before it was confirmed, and is late (RegisterHandler).  A      *)
(* request is a sequence of database statements; the requests of Slots     *)
(* interleave statement by statement.                                      *)
(*                                                                         *)
(* Tokens are stateless: nothing records them but the caller.  pair[p] is  *)
(* the p-th access and refresh token signed together; the database keeps   *)
(* only the refresh tokens already used (blacklist) and the time before    *)
(* which every token is void (validAfter).  A JWT's times are whole        *)
(* seconds, the database's are not: a second has Second ticks.             *)
(***************************************************************************)
EXTENDS Integers, FiniteSets

CONSTANTS Slots,      \* requests that may be in progress at once
          Passwords,
          Second,     \* ticks per second
          AccessTtl, RefreshTtl, ResetTtl,  \* in ticks
          MaxPairs,   \* bounds the tokens ever signed
          MaxRequests,  \* bounds the requests ever received
          MaxResets,  \* bounds the password resets ever asked for
          LastTick,   \* bounds the clock
          MaxFaults,  \* bounds the statements and answers that get lost
          NoReq, NoPair

ASSUME TimesAssumption ==
  /\ Second \in Nat \ {0} /\ LastTick \in Nat
  /\ AccessTtl \in Nat /\ RefreshTtl \in Nat /\ ResetTtl \in Nat
ASSUME BoundsAssumption == MaxPairs \in Nat /\ MaxResets \in Nat
                           /\ MaxRequests \in Nat /\ MaxFaults \in Nat

Ticks == 0..LastTick
Pairs == 1..MaxPairs
Resets == 1..MaxResets

VARIABLES now,
          password, validAfter,  \* the row of users
          resets,     \* password_resets: expires_at of each row inserted
          consumed,   \* those with a consumed_at
          blacklist,  \* token_revocation: the refresh tokens recorded there
          pair,       \* the tokens signed
          pc, req, outcome,  \* the requests, by slot
          started,    \* now() of the transaction of each slot
          arrived,    \* when the request for a new password in each slot arrived
          late,       \* slots whose refresh token was spent by then
          spent,      \* refresh tokens ever revoked
          redeemed,   \* password changes committed, by reset
          received,   \* requests so far
          faults

users == <<password, validAfter>>
recovery == <<resets, consumed, redeemed>>
revocation == <<blacklist, spent>>
history == <<arrived, late, received>>
vars == <<now, users, recovery, revocation, pair, pc, req, outcome, started, history, faults>>

\* A null token_valid_after voids no token, and neither does the time 0.
Null == 0

TokenTypes == {"access", "refresh"}
LoginReq == [kind : {"login"}, password : Passwords]
RefreshReq == [kind : {"refresh"}, type : {"refresh"}, pair : Pairs]
ChangeReq == [kind : {"change"}, type : TokenTypes, pair : Pairs,
              current : Passwords, password : Passwords]
ResetReq == [kind : {"reset"}, reset : Resets, password : Passwords]

\* A registration of the address of this account that is already past
\* findByEmail, for which the account was not confirmed.
RegisterReq == [kind : {"register"}, password : Passwords]

LoginPcs == {"find", "sign"}
TokenPcs == {"blacklist", "validAfter"}
RefreshPcs == TokenPcs \cup {"revoke", "sign"}
ChangePcs == TokenPcs \cup {"current", "begin", "update", "commit"}
ResetPcs == {"begin", "reset", "consume", "update", "commit"}
RegisterPcs == {"overwrite", "commit"}
Pcs == {"idle", "done"} \cup LoginPcs \cup RefreshPcs \cup ChangePcs \cup ResetPcs
         \cup RegisterPcs

-----------------------------------------------------------------------------
(* Tokens *)

\* Mutant: iat is rounded up.
IssuedAtCeil(p) == ((pair[p].at + Second - 1) \div Second) * Second

\* The claim iat, back in ticks: the clock when it was signed, rounded down.
IssuedAt(p) == pair[p].at - (pair[p].at % Second)

Ttl(type) == IF type = "access" THEN AccessTtl ELSE RefreshTtl
Expired(p, type) == IssuedAt(p) + Ttl(type) <= now

\* assertIssuedAfterTokenValidAfter, and the same test in requireAuth.
Ended(p) == IssuedAt(p) < validAfter

\* Only refresh tokens are ever revoked: an access token has a jti of its own.
Blacklisted(r) == r.type = "refresh" /\ r.pair \in blacklist

Signed == {p \in Pairs : pair[p] # NoPair}

\* createAccessToken and createRefreshToken, for the next unused pair.
Sign(parent) ==
  \E p \in Pairs \ Signed :
    /\ \A q \in Pairs \ Signed : p <= q
    /\ pair' = [pair EXCEPT ![p] = [at |-> now, parent |-> parent]]

-----------------------------------------------------------------------------
\* The account has just been confirmed; there may be late registrations of it.
Init ==
  /\ now = 0
  /\ password \in Passwords
  /\ validAfter = Null
  /\ resets = [r \in Resets |-> Null]
  /\ consumed = {}
  /\ blacklist = {}
  /\ pair = [p \in Pairs |-> NoPair]
  /\ req \in [Slots -> RegisterReq \cup {NoReq}]
  /\ pc = [s \in Slots |-> IF req[s] = NoReq THEN "idle" ELSE "overwrite"]
  /\ outcome = [s \in Slots |-> IF req[s] = NoReq THEN "none" ELSE "pending"]
  /\ started = [s \in Slots |-> 0]
  /\ arrived = [s \in Slots |-> 0]
  /\ late = {}
  /\ spent = {}
  /\ redeemed = [r \in Resets |-> 0]
  /\ received \in 0..MaxRequests /\ received = Cardinality({s \in Slots : req[s] # NoReq})
  /\ faults = 0

Proceed(s, from, to) ==
  pc[s] = from /\ pc' = [pc EXCEPT ![s] = to] /\ UNCHANGED outcome
Settle(s, from, o) ==
  pc[s] = from /\ pc' = [pc EXCEPT ![s] = "done"] /\ outcome' = [outcome EXCEPT ![s] = o]

\* Each sign needs a pair: MaxPairs bounds the logins and the refreshes.
PairLeft ==
  Cardinality({s \in Slots : pc[s] \notin {"idle", "done"} /\ req[s].kind \in {"login", "refresh"}})
    < Cardinality(Pairs \ Signed)

Arrive(s, r, to, o) ==
  /\ pc[s] \in {"idle", "done"}
  /\ r.kind \in {"login", "refresh"} => PairLeft
  /\ req' = [req EXCEPT ![s] = r]
  /\ pc' = [pc EXCEPT ![s] = to]
  /\ outcome' = [outcome EXCEPT ![s] = o]
  /\ started' = [started EXCEPT ![s] = 0]
  /\ arrived' = [arrived EXCEPT ![s] = IF r.kind \in {"change", "reset"} THEN now ELSE 0]
  /\ received < MaxRequests /\ received' = received + 1
  /\ UNCHANGED <<now, users, recovery, revocation, pair, faults>>

\* POST /auth/login.
ReceiveLogin(s) ==
  /\ \E r \in LoginReq : Arrive(s, r, "find", "pending")
  /\ late' = late \ {s}

\* A request that brings a token: jwtVerify looks at the expiry at once.
ReceiveToken(s) ==
  \E r \in RefreshReq \cup ChangeReq :
    /\ r.pair \in Signed
    /\ \/ Arrive(s, r, "blacklist", "pending") /\ ~Expired(r.pair, r.type)
       \/ Arrive(s, r, "done", "unauthorized") /\ Expired(r.pair, r.type)
    /\ late' = IF r.type = "refresh" /\ r.pair \in spent THEN late \cup {s} ELSE late \ {s}

\* POST /auth/reset-password, with a token that was mailed.
ReceiveReset(s) ==
  /\ \E r \in ResetReq : resets[r.reset] # Null /\ Arrive(s, r, "begin", "pending")
  /\ late' = late \ {s}

-----------------------------------------------------------------------------
(* Login *)

\* findAuthData, and the comparison with what it found.
FindAuthData(s) ==
  /\ \/ Proceed(s, "find", "sign") /\ req[s].password = password
     \/ Settle(s, "find", "unauthorized") /\ req[s].password # password
  /\ UNCHANGED <<now, users, recovery, revocation, pair, req, started, history, faults>>

IssueForUser(s) ==
  /\ Settle(s, "sign", "ok")
  /\ req[s].kind = "login"
  /\ Sign(NoPair)
  /\ UNCHANGED <<now, users, recovery, revocation, req, started, history, faults>>

-----------------------------------------------------------------------------
(* verifyRefreshToken, and requireAuth for every protected endpoint *)

CheckRevoked(s) ==
  /\ \/ Proceed(s, "blacklist", "validAfter") /\ ~Blacklisted(req[s])
     \/ Settle(s, "blacklist", "unauthorized") /\ Blacklisted(req[s])
  /\ UNCHANGED <<now, users, recovery, revocation, pair, req, started, history, faults>>

CheckIssuedAfter(s) ==
  /\ \/ Settle(s, "validAfter", "unauthorized") /\ Ended(req[s].pair)
     \/ Proceed(s, "validAfter", IF req[s].kind = "refresh" THEN "revoke" ELSE "current")
          /\ ~Ended(req[s].pair)
  /\ UNCHANGED <<now, users, recovery, revocation, pair, req, started, history, faults>>

-----------------------------------------------------------------------------
(* POST /auth/refresh *)

RecordRevoked(s) ==
  /\ blacklist' = blacklist \cup {req[s].pair}
  /\ spent' = spent \cup {req[s].pair}

\* Mutant: the promise of revoke is not awaited.
RevokeUnawaited(s) ==
  /\ Proceed(s, "revoke", "sign")
  /\ RecordRevoked(s) \/ UNCHANGED revocation
  /\ UNCHANGED <<now, users, recovery, pair, req, started, history, faults>>

\* INSERT ... ON CONFLICT DO NOTHING: whether the row is new is not asked.
RevokeUsed(s) ==
  /\ Proceed(s, "revoke", "sign")
  /\ RecordRevoked(s)
  /\ UNCHANGED <<now, users, recovery, pair, req, started, history, faults>>

IssueRotated(s) ==
  /\ Settle(s, "sign", "ok")
  /\ req[s].kind = "refresh"
  /\ Sign(req[s].pair)
  /\ UNCHANGED <<now, users, recovery, revocation, req, started, history, faults>>

\* Mutant: rows are deleted by the life of an access token.
CleanupByAccessTtl ==
  /\ blacklist' = {p \in blacklist : IssuedAt(p) + AccessTtl >= now}
  /\ blacklist' # blacklist
  /\ UNCHANGED <<now, users, recovery, spent, pair, pc, req, outcome, started, history, faults>>

\* cleanupExpired: expires_at is the refresh token's own.
CleanupExpired ==
  /\ blacklist' = {p \in blacklist : IssuedAt(p) + RefreshTtl >= now}
  /\ blacklist' # blacklist
  /\ UNCHANGED <<now, users, recovery, spent, pair, pc, req, outcome, started, history, faults>>

-----------------------------------------------------------------------------
(* POST /auth/change-password and POST /auth/reset-password *)

\* findById, and the comparison with what it found.
CheckCurrent(s) ==
  /\ \/ Proceed(s, "current", "begin") /\ req[s].current = password
     \/ Settle(s, "current", "unauthorized") /\ req[s].current # password
  /\ UNCHANGED <<now, users, recovery, revocation, pair, req, started, history, faults>>

\* BEGIN fixes what now() will say in the whole transaction.
Begin(s) ==
  /\ Proceed(s, "begin", IF req[s].kind = "reset" THEN "reset" ELSE "update")
  /\ started' = [started EXCEPT ![s] = now]
  /\ UNCHANGED <<now, users, recovery, revocation, pair, req, history, faults>>

\* The row by its token's hash.  An early return commits an empty transaction.
FindReset(s) ==
  LET r == req[s].reset
  IN  /\ \/ Settle(s, "reset", "expired") /\ resets[r] <= now
         \/ Settle(s, "reset", "used") /\ resets[r] > now /\ r \in consumed
         \/ Proceed(s, "reset", "consume") /\ resets[r] > now /\ r \notin consumed
      /\ UNCHANGED <<now, users, recovery, revocation, pair, req, started, history, faults>>

\* The reset row is locked by a transaction that has consumed it.
ResetLocked(s) ==
  \E t \in Slots \ {s} :
    pc[t] \in {"update", "commit"} /\ req[t].kind = "reset" /\ req[t].reset = req[s].reset

\* Mutant: the UPDATE trusts what FindReset saw.
ConsumeUnguarded(s) ==
  /\ Proceed(s, "consume", "update")
  /\ ~ResetLocked(s)
  /\ UNCHANGED <<now, users, recovery, revocation, pair, req, started, history, faults>>

\* The UPDATE waits for the row and tests consumed_at and expires_at again.
ConsumeReset(s) ==
  LET open == req[s].reset \notin consumed /\ resets[req[s].reset] > started[s]
  IN  /\ \/ Proceed(s, "consume", "update") /\ open
         \/ Settle(s, "consume", "used") /\ ~open
      /\ ~ResetLocked(s)
      /\ UNCHANGED <<now, users, recovery, revocation, pair, req, started, history, faults>>

\* The UPDATE of users waits for the row; pc = "commit" says who holds it.
UpdatePassword(s) ==
  /\ \A t \in Slots : pc[t] # "commit"
  /\ Proceed(s, "update", "commit")
  /\ UNCHANGED <<now, users, recovery, revocation, pair, req, started, history, faults>>

\* The UPDATE of a late registration waits as well, and asks for the id only.
UpdateCredentials(s) ==
  /\ \A t \in Slots : pc[t] # "commit"
  /\ Proceed(s, "overwrite", "commit")
  /\ UNCHANGED <<now, users, recovery, revocation, pair, req, started, history, faults>>

ApplyReset(s) ==
  /\ req[s].kind = "reset"
  /\ consumed' = consumed \cup {req[s].reset}
  /\ redeemed' = [redeemed EXCEPT ![req[s].reset] = @ + 1]

\* Mutant: the UPDATE leaves token_valid_after alone.
KeepSessions(s) ==
  /\ password' = req[s].password
  /\ UNCHANGED validAfter
  /\ \/ ApplyReset(s)
     \/ req[s].kind # "reset" /\ UNCHANGED <<consumed, redeemed>>

\* What the transaction of slot s makes durable.
Apply(s) ==
  /\ password' = req[s].password
  /\ \/ req[s].kind \in {"change", "reset"} /\ validAfter' = started[s]
     \/ req[s].kind = "register" /\ UNCHANGED validAfter
  /\ \/ ApplyReset(s)
     \/ req[s].kind # "reset" /\ UNCHANGED <<consumed, redeemed>>

Commit(s) ==
  /\ Settle(s, "commit", "ok")
  /\ Apply(s)
  /\ UNCHANGED <<now, resets, revocation, pair, req, started, history, faults>>

-----------------------------------------------------------------------------
(* Mailed resets, faults and the clock *)

\* Mutant: the time to live is read in the wrong unit.
RequestResetInSeconds ==
  /\ \E r \in Resets :
       /\ resets[r] = Null /\ \A q \in Resets : q < r => resets[q] # Null
       /\ resets' = [resets EXCEPT ![r] = now + ResetTtl * Second]
  /\ UNCHANGED <<now, users, consumed, redeemed, revocation, pair, pc, req, outcome,
                 started, history, faults>>

\* POST /auth/forgot-password, as far as password_resets sees it.
RequestReset ==
  /\ \E r \in Resets :
       /\ resets[r] = Null /\ \A q \in Resets : q < r => resets[q] # Null
       /\ resets' = [resets EXCEPT ![r] = now + ResetTtl]
  /\ UNCHANGED <<now, users, consumed, redeemed, revocation, pair, pc, req, outcome,
                 started, history, faults>>

DbPcs == {"find", "blacklist", "validAfter", "revoke", "current", "begin", "reset",
          "consume", "update", "overwrite", "commit"}

\* A statement or its answer is lost; the request ends, a transaction is
\* rolled back, and an INSERT or a COMMIT may have taken effect all the same.
Fault(s) ==
  /\ faults < MaxFaults
  /\ faults' = faults + 1
  /\ \E from \in DbPcs : Settle(s, from, "error")
  /\ \/ UNCHANGED <<users, consumed, redeemed, revocation>>
     \/ pc[s] = "revoke" /\ RecordRevoked(s) /\ UNCHANGED <<users, consumed, redeemed>>
     \/ pc[s] = "commit" /\ Apply(s) /\ UNCHANGED revocation
  /\ UNCHANGED <<now, resets, pair, req, started, history>>

Tick ==
  /\ now < LastTick
  /\ now' = now + 1
  /\ UNCHANGED <<users, recovery, revocation, pair, pc, req, outcome, started, history, faults>>

-----------------------------------------------------------------------------
Receive(s) == ReceiveLogin(s) \/ ReceiveToken(s) \/ ReceiveReset(s)

HandlerStep(s) ==
  \/ FindAuthData(s)
  \/ IssueForUser(s)
  \/ CheckRevoked(s)
  \/ CheckIssuedAfter(s)
  \/ RevokeUsed(s)
  \/ IssueRotated(s)
  \/ CheckCurrent(s)
  \/ Begin(s)
  \/ FindReset(s)
  \/ ConsumeReset(s)
  \/ UpdatePassword(s)
  \/ UpdateCredentials(s)
  \/ Commit(s)

Next ==
  \/ \E s \in Slots : Receive(s) \/ HandlerStep(s) \/ Fault(s)
  \/ RequestReset
  \/ CleanupExpired
  \/ Tick

Spec == Init /\ [][Next]_vars

-----------------------------------------------------------------------------
(* Properties *)

TypeOK ==
  /\ now \in Ticks
  /\ password \in Passwords
  /\ validAfter \in Ticks
  /\ resets \in [Resets -> 0..(LastTick + ResetTtl)]
  /\ consumed \in SUBSET Resets
  /\ blacklist \in SUBSET Pairs
  /\ pair \in [Pairs -> [at : Ticks, parent : Pairs \cup {NoPair}] \cup {NoPair}]
  /\ pc \in [Slots -> Pcs]
  /\ req \in [Slots -> LoginReq \cup RefreshReq \cup ChangeReq \cup ResetReq
                       \cup RegisterReq \cup {NoReq}]
  /\ outcome \in [Slots -> {"none", "pending", "ok", "unauthorized", "expired", "used", "error"}]
  /\ started \in [Slots -> Ticks]
  /\ arrived \in [Slots -> Ticks]
  /\ late \in SUBSET Slots
  /\ spent \in SUBSET Pairs
  /\ redeemed \in [Resets -> Nat]
  /\ received \in 0..MaxRequests
  /\ faults \in 0..MaxFaults

\* A refresh token that was spent when a request arrived gets that request
\* nowhere, neither to new tokens nor past requireAuth, however long ago it was
\* spent and however often the blacklist has been cleaned up since.  The one
\* exception is a token that expires, and is cleaned up, while the request is
\* between the test of its expiry and the lookup in the blacklist.
SpentTokenRefused ==
  \A s \in late :
    \/ pc[s] = "blacklist"
    \/ pc[s] = "done" /\ outcome[s] # "ok"
    \/ Expired(req[s].pair, "refresh")

\* New tokens exist only for a refresh token that is spent already: no fault
\* between the two leaves a session with two live refresh tokens.
RotatedIsSpent ==
  \A p \in Signed : pair[p].parent # NoPair => pair[p].parent \in spent

\* A reset token changes the password once at most, whatever number of
\* requests redeem it at the same time and whichever answers get lost.
ResetRedeemedOnce ==
  /\ \A r \in Resets : redeemed[r] <= 1
  /\ \A s, t \in Slots :
       /\ s # t /\ req[s] \in ResetReq /\ req[t] \in ResetReq /\ req[s].reset = req[t].reset
       => ~(outcome[s] = "ok" /\ outcome[t] = "ok")

\* Whole seconds in iat err on one side only: a token signed before the time in
\* token_valid_after is refused, and one signed a second later is not.
EndedToTheSecond ==
  \A p \in Signed :
    /\ pair[p].at < validAfter => Ended(p)
    /\ pair[p].at >= validAfter + Second => ~Ended(p)

\* A change or reset that says "ok" has replaced the password in that step, and
\* leaves refused whatever token was signed before its request arrived.
ChangeEndsSessions ==
  [][\A s \in Slots :
       outcome'[s] = "ok" /\ outcome[s] # "ok" /\ req[s].kind \in {"change", "reset"}
         => /\ password' = req[s].password
            /\ \A p \in Signed : pair[p].at < arrived[s] => Ended(p)']_vars

\* "After reset-password and change-password the previous sessions and tokens
\* are invalidated": a token refused for that reason stays refused.
EndedStaysEnded == [][\A p \in Signed : Ended(p) => Ended(p)']_vars
=============================================================================
