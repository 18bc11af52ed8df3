------------------------------ MODULE Accounts ------------------------------
(***************************************************************************)
(* Registration, confirmation by mail and the request for a password       *)
(* reset, over a pool of poolMax connections.  A transaction holds its     *)
(* connection from connect to release; every query outside a transaction   *)
(* takes another one.  RegisterHandler enqueues its mail through the pool  *)
(* while its own transaction is open: the outbox row commits on its own.   *)
(*                                                                         *)
(* What a transaction has written but not committed is its slot's writes   *)
(* and token; users, token and consumed are what is committed.             *)
(***************************************************************************)
EXTENDS Naturals, FiniteSets

CONSTANTS Slots,      \* requests that may be in progress at once
          Emails,     \* addresses the policy and createEmail admit
          Passwords,
          PoolSizes,  \* the values of DB_POOL_MAX considered
          MaxTokens,  \* bounds the tokens ever generated
          MaxFaults,  \* bounds the statements and answers that get lost
          NoUser, NoToken, NoReq

ASSUME PoolAssumption == PoolSizes \subseteq Nat \ {0} /\ IsFiniteSet(Slots)
ASSUME BoundsAssumption == MaxTokens \in Nat /\ MaxFaults \in Nat

Tokens == 1..MaxTokens
UserRows == [password : Passwords, confirmed : BOOLEAN]
TokenRows == [email : Emails, kind : {"register", "forgot"}]

ASSUME NullsAssumption == NoUser \notin UserRows /\ NoToken \notin TokenRows \cup Nat

VARIABLES users,     \* rows of users, by their unique email
          token,     \* rows of email_verifications and password_resets
          consumed,  \* those with a consumed_at
          expired,   \* those whose expires_at has passed
          outbox,    \* the type of the mail in email_outbox, by token
          generated, \* tokens generated so far
          poolMax,   \* DB_POOL_MAX, fixed by the configuration
          free,      \* idle connections of the pool
          pc, req, outcome,  \* the requests, by slot
          tok,       \* the token each slot has generated
          writes,    \* what the transaction of each slot does to its users row
          confirmations,  \* answers "confirmed", by email
          faults

db == <<users, token, consumed, expired>>
mail == <<outbox, generated>>
vars == <<users, token, consumed, expired, outbox, generated, poolMax, free, pc, req, outcome, tok,
          writes, confirmations, faults>>

RegisterReq == [kind : {"register"}, email : Emails, password : Passwords]
ConfirmReq == [kind : {"confirm"}, token : Tokens]
ForgotReq == [kind : {"forgot"}, email : Emails]

RegisterPcs == {"connect", "find", "insert", "update", "verification", "enqueue", "commit"}
ConfirmPcs == {"connect", "lookup", "consume", "confirm", "commit", "keep"}
ForgotPcs == {"findUser", "connect", "resetRow", "commit", "enqueue"}
Pcs == {"idle", "done"} \cup RegisterPcs \cup ConfirmPcs \cup ForgotPcs

MailTypes == {"email_confirmation", "password_reset"}
MailType(s) == IF req[s].kind = "register" THEN "email_confirmation" ELSE "password_reset"

\* A forgot-password request enqueues after its transaction, a registration in it.
InTransaction(s) ==
  \/ pc[s] \in {"find", "insert", "update", "verification", "lookup", "consume", "confirm",
                "resetRow", "commit", "keep"}
  \/ pc[s] = "enqueue" /\ req[s].kind = "register"

-----------------------------------------------------------------------------
Init ==
  /\ users = [e \in Emails |-> NoUser]
  /\ token = [t \in Tokens |-> NoToken]
  /\ consumed = {}
  /\ expired = {}
  /\ outbox = [t \in Tokens |-> "absent"]
  /\ generated = 0
  /\ poolMax \in PoolSizes
  /\ free = poolMax
  /\ pc = [s \in Slots |-> "idle"]
  /\ req = [s \in Slots |-> NoReq]
  /\ outcome = [s \in Slots |-> "none"]
  /\ tok = [s \in Slots |-> NoToken]
  /\ writes = [s \in Slots |-> "nothing"]
  /\ confirmations = [e \in Emails |-> 0]
  /\ faults = 0

Proceed(s, from, to) ==
  pc[s] = from /\ pc' = [pc EXCEPT ![s] = to] /\ UNCHANGED outcome
Settle(s, from, o) ==
  pc[s] = from /\ pc' = [pc EXCEPT ![s] = "done"] /\ outcome' = [outcome EXCEPT ![s] = o]

\* Mutant: no finally around the release.
ReleaseOnCommit(s) ==
  /\ free' = IF outcome'[s] = "error" THEN free ELSE free + 1
  /\ writes' = [writes EXCEPT ![s] = "nothing"]

\* Mutant: released by the callback and by the finally.
ReleaseTwice(s) ==
  /\ free' = free + 2
  /\ writes' = [writes EXCEPT ![s] = "nothing"]

\* The end of a transaction, committed or rolled back: its writes are
\* settled, its locks gone and its connection is idle again.
Release(s) ==
  /\ free' = free + 1
  /\ writes' = [writes EXCEPT ![s] = "nothing"]

\* Tokens that the requests in progress may still generate.
Generating(s) ==
  /\ pc[s] \in {"connect", "find", "insert", "update", "verification", "findUser", "resetRow"}
  /\ req[s].kind \in {"register", "forgot"}
TokenLeft == Cardinality({s \in Slots : Generating(s)}) < MaxTokens - generated

Arrive(s, r, to) ==
  /\ pc[s] \in {"idle", "done"}
  /\ r.kind \in {"register", "forgot"} => TokenLeft
  /\ req' = [req EXCEPT ![s] = r]
  /\ pc' = [pc EXCEPT ![s] = to]
  /\ outcome' = [outcome EXCEPT ![s] = "pending"]
  /\ tok' = [tok EXCEPT ![s] = NoToken]
  /\ UNCHANGED <<db, mail, free, writes, confirmations, faults, poolMax>>

\* The link in a mail is followed at any time after the mail was enqueued.
Receive(s) ==
  \/ \E r \in RegisterReq : Arrive(s, r, "connect")
  \/ \E r \in ConfirmReq : outbox[r.token] = "email_confirmation" /\ Arrive(s, r, "connect")
  \/ \E r \in ForgotReq : Arrive(s, r, "findUser")

\* runInTransaction: pool.connect waits while no connection is idle, then BEGIN.
Connect(s) ==
  /\ Proceed(s, "connect", CASE req[s].kind = "register" -> "find"
                             [] req[s].kind = "confirm" -> "lookup"
                             [] req[s].kind = "forgot" -> "resetRow")
  /\ free > 0 /\ free' = free - 1
  /\ UNCHANGED <<db, mail, req, tok, writes, confirmations, faults, poolMax>>

-----------------------------------------------------------------------------
(* POST /auth/register *)

Email(s) == IF req[s].kind = "confirm" THEN token[req[s].token].email ELSE req[s].email

\* Another transaction has written the users row of slot s and not yet ended.
RowLocked(s) ==
  \E t \in Slots \ {s} : writes[t] # "nothing" /\ Email(t) = Email(s)

FindUser(s) ==
  /\ \/ Proceed(s, "find", "insert") /\ users[req[s].email] = NoUser /\ UNCHANGED <<free, writes>>
     \/ /\ Proceed(s, "find", "update")
        /\ users[req[s].email] # NoUser /\ ~users[req[s].email].confirmed
        /\ UNCHANGED <<free, writes>>
     \/ /\ Settle(s, "find", "already_confirmed")
        /\ users[req[s].email] # NoUser /\ users[req[s].email].confirmed
        /\ Release(s)
  /\ UNCHANGED <<db, mail, req, tok, confirmations, faults, poolMax>>

\* The unique index on email: wait for an insert in progress, fail on a row.
InsertUser(s) ==
  /\ \/ /\ Proceed(s, "insert", "verification")
        /\ users[req[s].email] = NoUser
        /\ writes' = [writes EXCEPT ![s] = "row"] /\ UNCHANGED free
     \/ /\ Settle(s, "insert", "error")
        /\ users[req[s].email] # NoUser
        /\ Release(s)
  /\ ~RowLocked(s)
  /\ UNCHANGED <<db, mail, req, tok, confirmations, faults, poolMax>>

\* The UPDATE names the row by its id and tests nothing else.
UpdateCredentials(s) ==
  /\ Proceed(s, "update", "verification")
  /\ ~RowLocked(s)
  /\ writes' = [writes EXCEPT ![s] = "row"]
  /\ UNCHANGED <<db, mail, free, req, tok, confirmations, faults, poolMax>>

Generate(s) ==
  /\ generated' = generated + 1
  /\ tok' = [tok EXCEPT ![s] = generated + 1]

CreateVerification(s) ==
  /\ Proceed(s, "verification", "enqueue")
  /\ Generate(s)
  /\ UNCHANGED <<db, outbox, free, req, writes, confirmations, faults, poolMax>>

AddMail(s) == outbox' = [outbox EXCEPT ![tok[s]] = MailType(s)]

\* Mutant: the promise of enqueue is not awaited.
EnqueueUnawaited(s) ==
  /\ \/ Proceed(s, "enqueue", "commit") /\ req[s].kind = "register"
     \/ Settle(s, "enqueue", "ok") /\ req[s].kind = "forgot"
  /\ AddMail(s) \/ UNCHANGED outbox
  /\ UNCHANGED <<db, generated, free, req, tok, writes, confirmations, faults, poolMax>>

\* emailOutbox.enqueue: an INSERT of its own, on a connection of its own.
Enqueue(s) ==
  /\ \/ Proceed(s, "enqueue", "commit") /\ req[s].kind = "register"
     \/ Settle(s, "enqueue", "ok") /\ req[s].kind = "forgot"
  /\ free > 0
  /\ AddMail(s)
  /\ UNCHANGED <<db, generated, free, req, tok, writes, confirmations, faults, poolMax>>

TokenRow(s) == [email |-> req[s].email, kind |-> req[s].kind]

CommitRegister(s) ==
  LET e == req[s].email
      stays == users[e] # NoUser /\ users[e].confirmed
  IN  /\ users' = [users EXCEPT ![e] = [password |-> req[s].password, confirmed |-> stays]]
      /\ token' = [token EXCEPT ![tok[s]] = TokenRow(s)]
      /\ UNCHANGED <<consumed, confirmations>>

-----------------------------------------------------------------------------
(* GET /auth/confirm *)

\* The token's row joined with its user's.
LookUpToken(s) ==
  LET t == req[s].token
      known == token[t] # NoToken /\ token[t].kind = "register"
      open == t \notin consumed /\ ~users[token[t].email].confirmed
  IN  /\ \/ Settle(s, "lookup", "invalid_token") /\ ~known /\ Release(s)
         \/ Settle(s, "lookup", "expired") /\ known /\ t \in expired /\ Release(s)
         \/ /\ Settle(s, "lookup", "already_confirmed")
            /\ known /\ t \notin expired /\ ~open
            /\ Release(s)
         \/ /\ Proceed(s, "lookup", "consume")
            /\ known /\ t \notin expired /\ open
            /\ UNCHANGED <<free, writes>>
      /\ UNCHANGED <<db, mail, req, tok, confirmations, faults, poolMax>>

\* Another transaction has consumed the token and not yet ended.
TokenLocked(s) ==
  \E t \in Slots \ {s} :
    req[t] \in ConfirmReq /\ pc[t] \in {"confirm", "commit", "keep"} /\ req[t].token = req[s].token

\* The UPDATE waits for the token's row, then tests consumed_at again.  Its
\* other test, expires_at > now(), looks back to the transaction's BEGIN: what
\* LookUpToken found in time passes it.
ConsumeToken(s) ==
  LET open == req[s].token \notin consumed
  IN  /\ \/ Proceed(s, "consume", "confirm") /\ open /\ UNCHANGED <<free, writes>>
         \/ Settle(s, "consume", "already_confirmed") /\ ~open /\ Release(s)
      /\ ~TokenLocked(s)
      /\ UNCHANGED <<db, mail, req, tok, confirmations, faults, poolMax>>

\* Mutant: the second UPDATE does not ask for "confirmed_at is null".
ConfirmAnyUser(s) ==
  /\ Proceed(s, "confirm", "commit")
  /\ ~RowLocked(s)
  /\ writes' = [writes EXCEPT ![s] = "row"]
  /\ UNCHANGED <<db, mail, free, req, tok, confirmations, faults, poolMax>>

\* The UPDATE of users waits for its row, and may find it confirmed already, by
\* another token.
ConfirmUser(s) ==
  /\ \/ /\ Proceed(s, "confirm", "commit")
        /\ ~users[Email(s)].confirmed
        /\ writes' = [writes EXCEPT ![s] = "row"]
     \/ Proceed(s, "confirm", "keep") /\ users[Email(s)].confirmed /\ UNCHANGED writes
  /\ ~RowLocked(s)
  /\ UNCHANGED <<db, mail, free, req, tok, confirmations, faults, poolMax>>

\* What the COMMIT makes durable of a confirmation that came too late.
KeepConsumed(s) ==
  /\ consumed' = consumed \cup {req[s].token}
  /\ UNCHANGED <<users, token, confirmations>>

CommitConsumed(s) ==
  /\ Settle(s, "keep", "already_confirmed")
  /\ KeepConsumed(s)
  /\ Release(s)
  /\ UNCHANGED <<expired, mail, req, tok, faults, poolMax>>

CommitConfirm(s) ==
  /\ users' = [users EXCEPT ![Email(s)].confirmed = TRUE]
  /\ consumed' = consumed \cup {req[s].token}
  /\ confirmations' = [confirmations EXCEPT ![Email(s)] = @ + 1]
  /\ UNCHANGED token

-----------------------------------------------------------------------------
(* POST /auth/forgot-password *)

\* The answer is the same whether or not there is such an account.
FindForgetful(s) ==
  /\ \/ Settle(s, "findUser", "ok") /\ users[req[s].email] = NoUser
     \/ Proceed(s, "findUser", "connect") /\ users[req[s].email] # NoUser
  /\ free > 0
  /\ UNCHANGED <<db, mail, free, req, tok, writes, confirmations, faults, poolMax>>

\* Mutant: the mail is enqueued inside the transaction, as in a registration.
CreateResetAndMail(s) ==
  /\ Proceed(s, "resetRow", "commit")
  /\ Generate(s)
  /\ outbox' = [outbox EXCEPT ![generated + 1] = "password_reset"]
  /\ UNCHANGED <<db, free, req, writes, confirmations, faults, poolMax>>

CreateReset(s) ==
  /\ Proceed(s, "resetRow", "commit")
  /\ Generate(s)
  /\ UNCHANGED <<db, outbox, free, req, writes, confirmations, faults, poolMax>>

CommitReset(s) ==
  /\ token' = [token EXCEPT ![tok[s]] = TokenRow(s)]
  /\ UNCHANGED <<users, consumed, confirmations>>

-----------------------------------------------------------------------------
\* What the transaction of slot s makes durable.
Apply(s) ==
  \/ req[s].kind = "register" /\ CommitRegister(s)
  \/ req[s].kind = "confirm" /\ CommitConfirm(s)
  \/ req[s].kind = "forgot" /\ CommitReset(s)

Commit(s) ==
  /\ \/ Settle(s, "commit", "ok") /\ req[s].kind \in {"register", "confirm"}
     \/ Proceed(s, "commit", "enqueue") /\ req[s].kind = "forgot"
  /\ Apply(s)
  /\ Release(s)
  /\ UNCHANGED <<expired, mail, req, tok, faults, poolMax>>

\* Slot s has a statement under way; outside a transaction, as for BEGIN, it
\* waits for a connection first.
StatementUnderWay(s) ==
  /\ pc[s] \notin {"idle", "done"}
  /\ pc[s] \in {"connect", "enqueue", "findUser"} => free > 0

\* A statement or its answer is lost: the transaction is rolled back and its
\* connection released, but a COMMIT or the autocommit INSERT of the mail may
\* have taken effect.  A connect or a BEGIN that fails leaves nothing behind.
Fault(s) ==
  /\ faults < MaxFaults
  /\ faults' = faults + 1
  /\ StatementUnderWay(s)
  /\ Settle(s, pc[s], "error")
  /\ IF InTransaction(s) THEN Release(s) ELSE UNCHANGED <<free, writes>>
  /\ \/ UNCHANGED <<users, token, consumed, confirmations, outbox>>
     \/ pc[s] = "commit" /\ Apply(s) /\ UNCHANGED outbox
     \/ pc[s] = "keep" /\ KeepConsumed(s) /\ UNCHANGED outbox
     \/ /\ pc[s] = "enqueue" /\ AddMail(s)
        /\ UNCHANGED <<users, token, consumed, confirmations>>
  /\ UNCHANGED <<expired, generated, req, tok, poolMax>>

\* The time of a token runs out.
Expire ==
  /\ \E t \in Tokens : token[t] # NoToken /\ t \notin expired /\ expired' = expired \cup {t}
  /\ UNCHANGED <<users, token, consumed, mail, free, pc, req, outcome, tok, writes,
                 confirmations, faults, poolMax>>

HandlerStep(s) ==
  \/ Connect(s)
  \/ FindUser(s)
  \/ InsertUser(s)
  \/ UpdateCredentials(s)
  \/ CreateVerification(s)
  \/ Enqueue(s)
  \/ LookUpToken(s)
  \/ ConsumeToken(s)
  \/ ConfirmUser(s)
  \/ CommitConsumed(s)
  \/ FindForgetful(s)
  \/ CreateReset(s)
  \/ Commit(s)

Next ==
  \/ \E s \in Slots : Receive(s) \/ HandlerStep(s) \/ Fault(s)
  \/ Expire

Spec == Init /\ [][Next]_vars

\* The pool and the database's lock queues serve their waiters in order, so a
\* step that is possible again and again is taken.
FairSpec == Spec /\ \A s \in Slots : SF_vars(HandlerStep(s))

-----------------------------------------------------------------------------
(* Properties *)

TypeOK ==
  /\ users \in [Emails -> UserRows \cup {NoUser}]
  /\ token \in [Tokens -> TokenRows \cup {NoToken}]
  /\ consumed \in SUBSET Tokens
  /\ expired \in SUBSET Tokens
  /\ outbox \in [Tokens -> MailTypes \cup {"absent"}]
  /\ generated \in 0..MaxTokens
  /\ poolMax \in PoolSizes
  /\ free \in 0..poolMax
  /\ pc \in [Slots -> Pcs]
  /\ req \in [Slots -> RegisterReq \cup ConfirmReq \cup ForgotReq \cup {NoReq}]
  /\ outcome \in [Slots -> {"none", "pending", "ok", "already_confirmed", "invalid_token",
                             "expired", "error"}]
  /\ tok \in [Slots -> Tokens \cup {NoToken}]
  /\ writes \in [Slots -> {"nothing", "row"}]
  /\ confirmations \in [Emails -> Nat]
  /\ faults \in 0..MaxFaults

\* Whatever path a handler leaves a transaction by, its connection goes back:
\* every connection is idle or held by a transaction in progress.
PoolBalanced == free + Cardinality({s \in Slots : InTransaction(s)}) = poolMax

\* Of all the links mailed to one address, followed at the same time or one
\* after the other, one is told that it confirmed the account.
ConfirmedOnce ==
  \A e \in Emails :
    /\ confirmations[e] <= 1
    /\ confirmations[e] = 1 => users[e] # NoUser /\ users[e].confirmed

\* Every confirmation token in the database was mailed, and a caller that was
\* answered "ok" finds the token and the mail of its request there.
TokenIsMailed ==
  /\ \A t \in Tokens :
       token[t] # NoToken /\ token[t].kind = "register" => outbox[t] = "email_confirmation"
  /\ \A s \in Slots : outcome[s] = "ok" /\ tok[s] # NoToken =>
       token[tok[s]] # NoToken /\ outbox[tok[s]] = MailType(s)

\* A reset is never mailed before its row can be found.
MailedResetExists ==
  \A t \in Tokens : outbox[t] = "password_reset" => token[t] # NoToken /\ token[t].kind = "forgot"

\* A registration holds one connection and waits for a second.  Over a pool
\* larger than the number of requests every request is answered all the same;
\* over a smaller one the registrations may all wait for each other.
EveryRequestAnswered ==
  \A s \in Slots :
    poolMax > Cardinality(Slots) /\ pc[s] \notin {"idle", "done"} ~> pc[s] = "done"

\* "Email requests are part of the same DB transaction": when a request has
\* been answered, its token and its mail are both there or neither is.
MailIsTransactional ==
  \A s \in Slots : pc[s] = "done" /\ tok[s] # NoToken =>
    (outbox[tok[s]] # "absent" <=> token[tok[s]] # NoToken)

\* "Registration ignored": once confirmed, an account keeps its credentials,
\* whatever registrations for its address are under way.
ConfirmedIsLeftAlone ==
  [][\A e \in Emails : users[e] # NoUser /\ users[e].confirmed => users'[e] = users[e]]_vars
=============================================================================
