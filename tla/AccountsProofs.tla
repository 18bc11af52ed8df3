--------------------------- MODULE AccountsProofs ---------------------------
(***************************************************************************)
(* The pool, the confirmation and the mails of Accounts, for any number of *)
(* requests, addresses, tokens and faults and pools of any size.           *)
(* AccountsInv is inductive: what is known of each request by its place    *)
(* (SlotInv), of rows and mails (GlobalInv), that no two requests have one *)
(* token or one users row (Exclusive), and the accounts of the pool and of *)
(* the tokens left (PoolBalanced, Budget).                                 *)
(***************************************************************************)
EXTENDS Accounts, FiniteSetTheorems, TLAPS

Requests == RegisterReq \cup ConfirmReq \cup ForgotReq
Outcomes == {"none", "pending", "ok", "already_confirmed", "invalid_token", "expired", "error"}

\* TypeOK but for the two counters, which PoolBalanced and Budget bound.
Types ==
  /\ users \in [Emails -> UserRows \cup {NoUser}]
  /\ token \in [Tokens -> TokenRows \cup {NoToken}]
  /\ consumed \in SUBSET Tokens
  /\ expired \in SUBSET Tokens
  /\ outbox \in [Tokens -> MailTypes \cup {"absent"}]
  /\ generated \in Nat
  /\ poolMax \in PoolSizes
  /\ free \in Nat
  /\ pc \in [Slots -> Pcs]
  /\ req \in [Slots -> Requests \cup {NoReq}]
  /\ outcome \in [Slots -> Outcomes]
  /\ tok \in [Slots -> Tokens \cup {NoToken}]
  /\ writes \in [Slots -> {"nothing", "row"}]
  /\ confirmations \in [Emails -> Nat]
  /\ faults \in 0..MaxFaults

\* Which request can be at which place.
RequestFits(s) ==
  /\ pc[s] # "idle" => req[s] \in Requests
  /\ pc[s] \in {"find", "insert", "update", "verification"} => req[s].kind = "register"
  /\ pc[s] \in {"lookup", "consume", "confirm", "keep"} => req[s].kind = "confirm"
  /\ pc[s] \in {"findUser", "resetRow"} => req[s].kind = "forgot"
  /\ pc[s] = "enqueue" => req[s].kind \in {"register", "forgot"}

\* What becomes of the token a request has generated.
TokenInv(s) ==
  /\ tok[s] # NoToken => tok[s] <= generated
  /\ Generating(s) \/ (pc[s] # "idle" /\ req[s].kind = "confirm") => tok[s] = NoToken
  /\ pc[s] \in {"enqueue", "commit"} /\ req[s].kind \in {"register", "forgot"} => tok[s] # NoToken
  /\ pc[s] \in {"enqueue", "commit"} /\ req[s].kind = "register" => token[tok[s]] = NoToken
  /\ pc[s] = "commit" /\ req[s].kind = "register" => outbox[tok[s]] = "email_confirmation"
  /\ pc[s] = "commit" /\ req[s].kind = "forgot" =>
       token[tok[s]] = NoToken /\ outbox[tok[s]] = "absent"
  /\ pc[s] = "enqueue" /\ req[s].kind = "forgot" =>
       token[tok[s]] # NoToken /\ token[tok[s]].kind = "forgot"
  /\ outcome[s] = "ok" /\ tok[s] # NoToken =>
       token[tok[s]] # NoToken /\ outbox[tok[s]] = MailType(s)

\* Who has written a users row, and what a confirmation knows of its own.
WriteInv(s) ==
  /\ writes[s] # "nothing" =>
       \/ pc[s] \in {"verification", "enqueue", "commit"} /\ req[s].kind = "register"
       \/ pc[s] = "commit" /\ req[s].kind = "confirm"
  /\ pc[s] \in {"verification", "enqueue", "commit"} /\ req[s].kind = "register" =>
       writes[s] # "nothing"
  /\ pc[s] \in {"consume", "confirm", "commit"} /\ req[s].kind = "confirm" =>
       token[req[s].token] # NoToken /\ token[req[s].token].kind = "register"
  /\ pc[s] = "commit" /\ req[s].kind = "confirm" =>
       writes[s] # "nothing" /\ ~users[Email(s)].confirmed

SlotInv(s) ==
  /\ RequestFits(s)
  /\ pc[s] # "done" => outcome[s] # "ok"
  /\ TokenInv(s)
  /\ WriteInv(s)

GlobalInv ==
  /\ \A t \in Tokens :
       /\ t > generated => token[t] = NoToken /\ outbox[t] = "absent"
       /\ token[t] # NoToken /\ token[t].kind = "register" =>
            outbox[t] = "email_confirmation" /\ users[token[t].email] # NoUser
  /\ MailedResetExists
  /\ ConfirmedOnce

Exclusive ==
  \A s, t \in Slots : s # t =>
    /\ tok[s] # NoToken /\ tok[t] # NoToken => tok[s] # tok[t]
    /\ writes[s] # "nothing" /\ writes[t] # "nothing" => Email(s) # Email(t)

Generators == {s \in Slots : Generating(s)}
Budget == Cardinality(Generators) <= MaxTokens - generated

AccountsInv ==
  /\ Types
  /\ \A s \in Slots : SlotInv(s)
  /\ GlobalInv
  /\ Exclusive
  /\ PoolBalanced
  /\ Budget

USE PoolAssumption, BoundsAssumption, NullsAssumption

-----------------------------------------------------------------------------
(* Requests, counters *)

\* What a request is made of, by its kind.
LEMMA RequestParts ==
  ASSUME NEW r \in Requests
  PROVE  /\ r.kind \in {"register", "confirm", "forgot"}
         /\ r.kind \in {"register", "forgot"} => r.email \in Emails
         /\ r.kind = "register" => r.password \in Passwords
         /\ r.kind = "confirm" => r.token \in Tokens
         /\ r \in ConfirmReq <=> r.kind = "confirm"
<1>1. CASE r \in RegisterReq
  BY <1>1 DEF RegisterReq, ConfirmReq
<1>2. CASE r \in ConfirmReq
  BY <1>2 DEF ConfirmReq
<1>3. CASE r \in ForgotReq
  BY <1>3 DEF ForgotReq, ConfirmReq
<1> QED
  BY <1>1, <1>2, <1>3 DEF Requests

\* A handler goes on to its next statement.
LEMMA ProceedParts ==
  ASSUME Types, NEW s \in Slots, NEW from, NEW to, Proceed(s, from, to)
  PROVE  /\ pc[s] = from /\ pc'[s] = to /\ outcome'[s] = outcome[s]
         /\ \A t \in Slots \ {s} : pc'[t] = pc[t] /\ outcome'[t] = outcome[t]
         /\ outcome' \in [Slots -> Outcomes] /\ (to \in Pcs => pc' \in [Slots -> Pcs])
  BY DEF Types, Proceed

\* A handler answers.
LEMMA SettleParts ==
  ASSUME Types, NEW s \in Slots, NEW from, NEW o, Settle(s, from, o)
  PROVE  /\ pc[s] = from /\ pc'[s] = "done" /\ outcome'[s] = o
         /\ \A t \in Slots \ {s} : pc'[t] = pc[t] /\ outcome'[t] = outcome[t]
         /\ pc' \in [Slots -> Pcs] /\ (o \in Outcomes => outcome' \in [Slots -> Outcomes])
  BY DEF Types, Settle, Pcs

Holders == {s \in Slots : InTransaction(s)}

\* One request enters or leaves a transaction, or none does.
LEMMA PoolStep ==
  ASSUME Types, PoolBalanced, NEW s \in Slots, UNCHANGED poolMax,
         \A t \in Slots \ {s} : pc'[t] = pc[t] /\ req'[t] = req[t],
         \/ (InTransaction(s)' <=> InTransaction(s)) /\ free' = free
         \/ InTransaction(s) /\ ~InTransaction(s)' /\ free' = free + 1
         \/ ~InTransaction(s) /\ InTransaction(s)' /\ free > 0 /\ free' = free - 1
  PROVE  free' \in Nat /\ PoolBalanced'
<1>1. /\ IsFiniteSet(Holders) /\ Cardinality(Holders) \in Nat
      /\ free \in Nat /\ poolMax \in Nat
      /\ free + Cardinality(Holders) = poolMax
  BY FS_Subset, FS_CardinalityType DEF Holders, PoolBalanced, Types
<1>2. \A t \in Slots \ {s} : InTransaction(t)' <=> InTransaction(t)
  BY DEF InTransaction
<1>3. CASE (InTransaction(s)' <=> InTransaction(s)) /\ free' = free
  <2>1. Holders' = Holders
    BY <1>2, <1>3 DEF Holders
  <2> QED
    BY <1>1, <1>3, <2>1 DEF PoolBalanced, Holders
<1>4. CASE InTransaction(s) /\ ~InTransaction(s)' /\ free' = free + 1
  <2>1. Holders' = Holders \ {s} /\ s \in Holders
    BY <1>2, <1>4 DEF Holders
  <2>2. Cardinality(Holders') = Cardinality(Holders) - 1
    BY <1>1, <2>1, FS_RemoveElement
  <2> QED
    BY <1>1, <1>4, <2>2 DEF PoolBalanced, Holders
<1>5. CASE ~InTransaction(s) /\ InTransaction(s)' /\ free > 0 /\ free' = free - 1
  <2>1. Holders' = Holders \cup {s} /\ s \notin Holders
    BY <1>2, <1>5 DEF Holders
  <2>2. Cardinality(Holders') = Cardinality(Holders) + 1
    BY <1>1, <2>1, FS_AddElement
  <2> QED
    BY <1>1, <1>5, <2>2 DEF PoolBalanced, Holders
<1> QED
  BY <1>3, <1>4, <1>5

\* One request generates its token, gives up doing so, or has just arrived.
LEMMA BudgetStep ==
  ASSUME Types, Budget, NEW s \in Slots,
         \A t \in Slots \ {s} : pc'[t] = pc[t] /\ req'[t] = req[t],
         \/ (Generating(s)' => Generating(s)) /\ generated' = generated
         \/ Generating(s) /\ ~Generating(s)' /\ generated' = generated + 1
         \/ TokenLeft /\ generated' = generated
  PROVE  Budget'
<1>1. /\ IsFiniteSet(Generators) /\ Cardinality(Generators) \in Nat
      /\ generated \in Nat /\ Cardinality(Generators) <= MaxTokens - generated
  BY FS_Subset, FS_CardinalityType DEF Generators, Budget, Types
<1>2. \A t \in Slots \ {s} : Generating(t)' <=> Generating(t)
  BY DEF Generating
<1>3. CASE (Generating(s)' => Generating(s)) /\ generated' = generated
  <2>1. Generators' \subseteq Generators
    BY <1>2, <1>3 DEF Generators
  <2>2. Cardinality(Generators') \in Nat /\ Cardinality(Generators') <= Cardinality(Generators)
    BY <1>1, <2>1, FS_Subset, FS_CardinalityType
  <2> QED
    BY <1>1, <1>3, <2>2 DEF Budget
<1>4. CASE Generating(s) /\ ~Generating(s)' /\ generated' = generated + 1
  <2>1. Generators' = Generators \ {s} /\ s \in Generators
    BY <1>2, <1>4 DEF Generators
  <2>2. Cardinality(Generators') = Cardinality(Generators) - 1
    BY <1>1, <2>1, FS_RemoveElement
  <2> QED
    BY <1>1, <1>4, <2>2 DEF Budget
<1>5. CASE TokenLeft /\ generated' = generated
  <2>1. Generators' \subseteq Generators \cup {s}
    BY <1>2 DEF Generators
  <2>2. /\ IsFiniteSet(Generators \cup {s})
        /\ Cardinality(Generators \cup {s}) <= Cardinality(Generators) + 1
        /\ Cardinality(Generators \cup {s}) \in Nat
    <3>1. /\ IsFiniteSet(Generators \cup {s})
          /\ Cardinality(Generators \cup {s}) =
               IF s \in Generators THEN Cardinality(Generators) ELSE Cardinality(Generators) + 1
      BY <1>1, FS_AddElement
    <3> QED
      BY <1>1, <3>1
  <2>3. Cardinality(Generators') \in Nat
        /\ Cardinality(Generators') <= Cardinality(Generators \cup {s})
    BY <2>1, <2>2, FS_Subset, FS_CardinalityType
  <2> QED
    BY <1>1, <1>5, <2>2, <2>3 DEF Budget, TokenLeft, Generators
<1> QED
  BY <1>3, <1>4, <1>5

\* Whoever has still to generate a token finds one left.
LEMMA TokenIsLeft ==
  ASSUME Types, Budget, NEW s \in Slots, Generating(s)
  PROVE  generated + 1 \in Tokens
<1>1. s \in Generators /\ IsFiniteSet(Generators)
  BY FS_Subset DEF Generators
<1>2. Cardinality(Generators) \in Nat /\ Cardinality(Generators) # 0
  BY <1>1, FS_CardinalityType, FS_EmptySet
<1> QED
  BY <1>2 DEF Budget, Types, Tokens

-----------------------------------------------------------------------------
(* What a step leaves of the other requests *)

\* A step of another request leaves what is known of this one.
LEMMA SlotKept ==
  ASSUME Types, Types', NEW t \in Slots, SlotInv(t),
         pc'[t] = pc[t], req'[t] = req[t], outcome'[t] = outcome[t], tok'[t] = tok[t],
         writes'[t] = writes[t], generated <= generated',
         \A x \in Tokens : token[x] # NoToken => token'[x] = token[x],
         tok[t] # NoToken => token'[tok[t]] = token[tok[t]] /\ outbox'[tok[t]] = outbox[tok[t]],
         writes[t] # "nothing" => users'[Email(t)] = users[Email(t)]
  PROVE  SlotInv(t)'
<1>1. RequestFits(t)' /\ (Generating(t)' <=> Generating(t)) /\ MailType(t)' = MailType(t)
  BY DEF SlotInv, RequestFits, Generating, MailType
<1>2. TokenInv(t)'
  <2>1. tok[t] # NoToken => tok[t] <= generated'
    BY DEF SlotInv, TokenInv, Types, Tokens
  <2> QED
    BY <1>1, <2>1 DEF SlotInv, TokenInv
<1>3. WriteInv(t)'
  <2>1. pc[t] \in {"consume", "confirm", "commit"} /\ req[t].kind = "confirm" =>
          /\ token'[req[t].token] = token[req[t].token] /\ token[req[t].token] # NoToken
          /\ token[req[t].token].kind = "register" /\ Email(t)' = Email(t)
    BY RequestParts DEF SlotInv, WriteInv, RequestFits, Email
  <2> QED
    BY <2>1 DEF SlotInv, WriteInv
<1> QED
  BY <1>1, <1>2, <1>3 DEF SlotInv

\* The address of a request that has written a users row stays what it is.
LEMMA EmailKept ==
  ASSUME Types, NEW t \in Slots, SlotInv(t), writes[t] # "nothing",
         req'[t] = req[t], \A x \in Tokens : token[x] # NoToken => token'[x] = token[x]
  PROVE  Email(t)' = Email(t) /\ Email(t) \in Emails
<1>1. req[t] \in Requests
  BY DEF SlotInv, WriteInv, RequestFits
<1>2. CASE req[t].kind = "register"
  BY <1>1, <1>2, RequestParts DEF Email
<1>3. CASE req[t].kind = "confirm"
  BY <1>1, <1>3, RequestParts DEF SlotInv, WriteInv, Email, Types, TokenRows
<1> QED
  BY <1>2, <1>3 DEF SlotInv, WriteInv

\* A step of request s answers for its own place, for rows and mails, and for
\* what the others hold: their tokens and the users rows they have written.
LEMMA StepOf ==
  ASSUME AccountsInv, Types', NEW s \in Slots, UNCHANGED poolMax,
         \A t \in Slots \ {s} :
           /\ pc'[t] = pc[t] /\ req'[t] = req[t] /\ outcome'[t] = outcome[t]
           /\ tok'[t] = tok[t] /\ writes'[t] = writes[t],
         \A x \in Tokens : token[x] # NoToken => token'[x] = token[x],
         \A t \in Slots \ {s} :
           /\ tok[t] # NoToken => token'[tok[t]] = token[tok[t]] /\ outbox'[tok[t]] = outbox[tok[t]]
           /\ writes[t] # "nothing" => users'[Email(t)] = users[Email(t)]
           /\ tok[t] # NoToken /\ tok'[s] # NoToken => tok[t] # tok'[s]
           /\ writes[t] # "nothing" /\ writes'[s] # "nothing" => Email(t) # Email(s)',
         \/ (InTransaction(s)' <=> InTransaction(s)) /\ free' = free
         \/ InTransaction(s) /\ ~InTransaction(s)' /\ free' = free + 1
         \/ ~InTransaction(s) /\ InTransaction(s)' /\ free > 0 /\ free' = free - 1,
         \/ (Generating(s)' => Generating(s)) /\ generated' = generated
         \/ Generating(s) /\ ~Generating(s)' /\ generated' = generated + 1
         \/ TokenLeft /\ generated' = generated,
         SlotInv(s)', GlobalInv'
  PROVE  AccountsInv'
<1>1. ASSUME NEW t \in Slots PROVE SlotInv(t)'
  <2>1. CASE t = s
    BY <2>1
  <2>2. CASE t # s
    <3>1. generated <= generated'
      BY DEF AccountsInv, Types
    <3> QED
      BY <2>2, <3>1, SlotKept DEF AccountsInv
  <2> QED
    BY <2>1, <2>2
<1>2. Exclusive'
  <2> SUFFICES ASSUME NEW t \in Slots, NEW u \in Slots, t # u
               PROVE  /\ tok'[t] # NoToken /\ tok'[u] # NoToken => tok'[t] # tok'[u]
                      /\ writes'[t] # "nothing" /\ writes'[u] # "nothing" => Email(t)' # Email(u)'
    BY DEF Exclusive
  <2>1. \A v \in Slots \ {s} : writes'[v] # "nothing" => Email(v)' = Email(v)
    BY EmailKept DEF AccountsInv
  <2>2. CASE t = s
    BY <2>1, <2>2
  <2>3. CASE u = s
    BY <2>1, <2>3
  <2>4. CASE t # s /\ u # s
    BY <2>1, <2>4 DEF AccountsInv, Exclusive
  <2> QED
    BY <2>2, <2>3, <2>4
<1>3. PoolBalanced'
  BY PoolStep DEF AccountsInv
<1>4. Budget'
  BY BudgetStep DEF AccountsInv
<1> QED
  BY <1>1, <1>2, <1>3, <1>4 DEF AccountsInv

\* The same for a step that reads, or writes what only its COMMIT makes visible.
LEMMA LocalStep ==
  ASSUME AccountsInv, Types', NEW s \in Slots,
         UNCHANGED <<users, token, outbox, generated, confirmations, poolMax>>,
         \A t \in Slots \ {s} :
           /\ pc'[t] = pc[t] /\ req'[t] = req[t] /\ outcome'[t] = outcome[t]
           /\ tok'[t] = tok[t] /\ writes'[t] = writes[t],
         tok'[s] # NoToken => tok'[s] = tok[s],
         writes'[s] # "nothing" =>
           \A t \in Slots \ {s} : writes[t] # "nothing" => Email(t) # Email(s)',
         \/ (InTransaction(s)' <=> InTransaction(s)) /\ free' = free
         \/ InTransaction(s) /\ ~InTransaction(s)' /\ free' = free + 1
         \/ ~InTransaction(s) /\ InTransaction(s)' /\ free > 0 /\ free' = free - 1,
         (Generating(s)' => Generating(s)) \/ TokenLeft,
         SlotInv(s)'
  PROVE  AccountsInv'
<1>1. GlobalInv'
  BY DEF AccountsInv, GlobalInv, MailedResetExists, ConfirmedOnce
<1>2. \A t \in Slots \ {s} : tok[t] # NoToken /\ tok'[s] # NoToken => tok[t] # tok'[s]
  BY DEF AccountsInv, Exclusive
<1> QED
  BY <1>1, <1>2, StepOf

-----------------------------------------------------------------------------
(* The actions, one lemma each *)

\* Nothing is in progress at first and the whole pool is idle.
LEMMA InitAccounts == Init => AccountsInv
<1> SUFFICES ASSUME Init PROVE AccountsInv
  OBVIOUS
<1>1. Types
  BY DEF Init, Types, Pcs, Outcomes
<1>2. ASSUME NEW s \in Slots PROVE SlotInv(s)
  BY DEF Init, SlotInv, RequestFits, TokenInv, WriteInv, Generating
<1>3. GlobalInv
  BY DEF Init, GlobalInv, MailedResetExists, ConfirmedOnce
<1>4. Exclusive
  BY DEF Init, Exclusive
<1>5. PoolBalanced
  <2>1. {s \in Slots : InTransaction(s)} = {}
    BY DEF Init, InTransaction
  <2> QED
    BY <2>1, FS_EmptySet DEF Init, PoolBalanced
<1>6. Budget
  <2>1. Generators = {}
    BY DEF Init, Generators, Generating
  <2> QED
    BY <2>1, FS_EmptySet DEF Init, Budget
<1> QED
  BY <1>1, <1>2, <1>3, <1>4, <1>5, <1>6 DEF AccountsInv

\* A handler that gives up leaves its transaction by the finally that releases.
LEMMA GivesUp ==
  ASSUME AccountsInv, NEW s \in Slots, NEW from, NEW o \in Outcomes \ {"ok"},
         InTransaction(s), Settle(s, from, o), Release(s),
         UNCHANGED <<users, token, outbox, generated, confirmations, poolMax, req, tok, expired>>,
         consumed' \in SUBSET Tokens, faults' \in 0..MaxFaults
  PROVE  AccountsInv'
<1>1. Types /\ SlotInv(s)
  BY DEF AccountsInv
<1>2. /\ pc'[s] = "done" /\ outcome'[s] = o /\ writes'[s] = "nothing"
      /\ pc' \in [Slots -> Pcs] /\ outcome' \in [Slots -> Outcomes]
      /\ \A t \in Slots \ {s} :
           pc'[t] = pc[t] /\ outcome'[t] = outcome[t] /\ writes'[t] = writes[t]
  BY <1>1, SettleParts DEF Release, Types
<1>3. Types'
  BY <1>1, <1>2 DEF Types, Release
<1>4. pc[s] # "idle" /\ ~InTransaction(s)' /\ ~Generating(s)'
  BY <1>2 DEF InTransaction, Generating
<1>5. SlotInv(s)'
  BY <1>1, <1>2, <1>4 DEF SlotInv, RequestFits, TokenInv, WriteInv
<1> QED
  BY <1>2, <1>3, <1>4, <1>5, LocalStep DEF Release

\* A new request has generated nothing and holds nothing.
LEMMA Receives ==
  ASSUME AccountsInv, NEW s \in Slots, Receive(s)
  PROVE  AccountsInv'
<1>1. PICK r \in Requests, to \in {"connect", "findUser"} :
        Arrive(s, r, to) /\ (to = "findUser" => r.kind = "forgot")
  BY DEF Receive, Requests, ForgotReq
<1>2. Types /\ SlotInv(s)
  BY DEF AccountsInv
<1>3. /\ pc[s] \in {"idle", "done"} /\ pc'[s] = to /\ outcome'[s] = "pending"
      /\ req'[s] = r /\ tok'[s] = NoToken
      /\ \A t \in Slots \ {s} :
           pc'[t] = pc[t] /\ req'[t] = req[t] /\ outcome'[t] = outcome[t] /\ tok'[t] = tok[t]
  BY <1>1, <1>2 DEF Arrive, Types
<1>4. UNCHANGED <<users, token, consumed, expired, outbox, generated, free, writes,
                  confirmations, faults, poolMax>>
  BY <1>1 DEF Arrive, db, mail
<1>5. Types'
  BY <1>1, <1>2, <1>4 DEF Arrive, Types, Pcs, RegisterPcs, ForgotPcs, Outcomes
<1>6. writes'[s] = "nothing" /\ ~InTransaction(s) /\ ~InTransaction(s)'
  BY <1>1, <1>2, <1>3, <1>4 DEF SlotInv, WriteInv, InTransaction, Types
<1>7. SlotInv(s)'
  BY <1>1, <1>3, <1>6 DEF SlotInv, RequestFits, TokenInv, WriteInv
<1>8. (Generating(s)' => Generating(s)) \/ TokenLeft
  BY <1>1, <1>3 DEF Arrive, Generating
<1> QED
  BY <1>3, <1>4, <1>5, <1>6, <1>7, <1>8, LocalStep

\* A transaction begins on a connection that was idle.
LEMMA Connects ==
  ASSUME AccountsInv, NEW s \in Slots, Connect(s)
  PROVE  AccountsInv'
<1>1. Types /\ SlotInv(s)
  BY DEF AccountsInv
<1>2. PICK to \in {"find", "lookup", "resetRow"} :
        /\ Proceed(s, "connect", to)
        /\ to = "find" <=> req[s].kind = "register"
        /\ to = "lookup" <=> req[s].kind = "confirm"
        /\ to = "resetRow" <=> req[s].kind = "forgot"
  <2>1. pc[s] = "connect" /\ req[s] \in Requests
    BY <1>1 DEF Connect, Proceed, SlotInv, RequestFits
  <2> QED
    BY <2>1, RequestParts DEF Connect
<1>3. /\ pc[s] = "connect" /\ pc'[s] = to /\ outcome' = outcome
      /\ pc' \in [Slots -> Pcs] /\ \A t \in Slots \ {s} : pc'[t] = pc[t]
  BY <1>1, <1>2, ProceedParts DEF Proceed, Pcs, RegisterPcs, ConfirmPcs, ForgotPcs
<1>4. /\ UNCHANGED <<users, token, consumed, expired, outbox, generated, req, tok, writes,
                     confirmations, faults, poolMax>>
      /\ free > 0 /\ free' = free - 1
  BY DEF Connect, db, mail
<1>5. Types'
  BY <1>1, <1>3, <1>4 DEF Types
<1>6. ~InTransaction(s) /\ InTransaction(s)' /\ (Generating(s)' => Generating(s))
  BY <1>2, <1>3, <1>4 DEF InTransaction, Generating
<1>7. SlotInv(s)'
  <2>1. req[s] \in Requests /\ outcome[s] # "ok"
    BY <1>1, <1>3 DEF SlotInv, RequestFits
  <2>2. RequestFits(s)' /\ WriteInv(s)'
    BY <1>1, <1>2, <1>3, <1>4, <2>1 DEF SlotInv, RequestFits, WriteInv
  <2>3. TokenInv(s)'
    BY <1>1, <1>2, <1>3, <1>4, <1>6, <2>1 DEF SlotInv, TokenInv
  <2> QED
    BY <1>3, <2>1, <2>2, <2>3 DEF SlotInv
<1>8. writes'[s] = "nothing"
  BY <1>1, <1>3, <1>4 DEF SlotInv, WriteInv, Types
<1> QED
  BY <1>3, <1>4, <1>5, <1>6, <1>7, <1>8, LocalStep

\* A step inside a transaction that neither writes a users row nor generates.
LEMMA GoesOn ==
  ASSUME AccountsInv, NEW s \in Slots, NEW from, NEW to \in Pcs, Proceed(s, from, to),
         UNCHANGED <<users, token, consumed, expired, outbox, generated, free, req, tok, writes,
                     confirmations, faults, poolMax>>,
         InTransaction(s)' <=> InTransaction(s), Generating(s)' => Generating(s),
         SlotInv(s)'
  PROVE  AccountsInv'
<1>1. Types
  BY DEF AccountsInv
<1>2. pc' \in [Slots -> Pcs] /\ outcome' = outcome /\ \A t \in Slots \ {s} : pc'[t] = pc[t]
  BY <1>1, ProceedParts DEF Proceed
<1>3. Types'
  BY <1>1, <1>2 DEF Types
<1>4. \A t \in Slots \ {s} :
        writes[s] # "nothing" /\ writes[t] # "nothing" => Email(t) # Email(s)'
  BY DEF AccountsInv, Exclusive, Email
<1> QED
  BY <1>2, <1>3, <1>4, LocalStep

\* What a registration finds under its address.
LEMMA FindsUser ==
  ASSUME AccountsInv, NEW s \in Slots, FindUser(s)
  PROVE  AccountsInv'
<1>1. Types /\ SlotInv(s)
  BY DEF AccountsInv
<1>2. CASE Settle(s, "find", "already_confirmed") /\ Release(s)
  <2>1. InTransaction(s) /\ faults' \in 0..MaxFaults /\ consumed' \in SUBSET Tokens
    BY <1>1, <1>2 DEF Settle, InTransaction, FindUser, db, Types
  <2> QED
    BY <1>2, <2>1, GivesUp DEF FindUser, db, mail, Outcomes
<1>3. ASSUME NEW to \in {"insert", "update"}, Proceed(s, "find", to), UNCHANGED <<free, writes>>
      PROVE  AccountsInv'
  <2>1. pc[s] = "find" /\ pc'[s] = to /\ outcome'[s] = outcome[s] /\ to \in Pcs
    BY <1>1, <1>3, ProceedParts DEF Pcs, RegisterPcs
  <2>2. UNCHANGED <<users, token, consumed, expired, outbox, generated, free, req, tok, writes,
                    confirmations, faults, poolMax>>
    BY <1>3 DEF FindUser, db, mail
  <2>3. (InTransaction(s)' <=> InTransaction(s)) /\ (Generating(s)' => Generating(s))
    BY <2>1, <2>2 DEF InTransaction, Generating
  <2>4. SlotInv(s)'
    <3>1. RequestFits(s)' /\ WriteInv(s)' /\ outcome'[s] # "ok"
      BY <1>1, <2>1, <2>2 DEF SlotInv, RequestFits, WriteInv
    <3>2. TokenInv(s)'
      BY <1>1, <2>1, <2>2, <2>3, <3>1 DEF SlotInv, TokenInv
    <3> QED
      BY <3>1, <3>2 DEF SlotInv
  <2> QED
    BY <1>3, <2>1, <2>2, <2>3, <2>4, GoesOn
<1> QED
  BY <1>2, <1>3 DEF FindUser

\* A users row is written by one transaction at a time.
LEMMA WritesRow ==
  ASSUME AccountsInv, NEW s \in Slots, NEW from \in {"insert", "update"},
         Proceed(s, from, "verification"), writes' = [writes EXCEPT ![s] = "row"],
         ~RowLocked(s),
         UNCHANGED <<users, token, consumed, expired, outbox, generated, free, req, tok,
                     confirmations, faults, poolMax>>
  PROVE  AccountsInv'
<1>1. Types /\ SlotInv(s)
  BY DEF AccountsInv
<1>2. /\ pc[s] = from /\ pc'[s] = "verification" /\ outcome' = outcome /\ "verification" \in Pcs
      /\ pc' \in [Slots -> Pcs] /\ \A t \in Slots \ {s} : pc'[t] = pc[t]
  BY <1>1, ProceedParts DEF Proceed, Pcs, RegisterPcs
<1>3. writes'[s] = "row" /\ \A t \in Slots \ {s} : writes'[t] = writes[t]
  BY <1>1 DEF Types
<1>4. Types'
  BY <1>1, <1>2 DEF Types
<1>5. (InTransaction(s)' <=> InTransaction(s)) /\ (Generating(s)' => Generating(s))
  BY <1>2 DEF InTransaction, Generating
<1>6. SlotInv(s)'
  <2>1. RequestFits(s)' /\ WriteInv(s)' /\ outcome'[s] # "ok"
    BY <1>1, <1>2, <1>3 DEF SlotInv, RequestFits, WriteInv
  <2>2. TokenInv(s)'
    BY <1>1, <1>2, <1>5, <2>1 DEF SlotInv, TokenInv
  <2> QED
    BY <2>1, <2>2 DEF SlotInv
<1>7. \A t \in Slots \ {s} : writes[t] # "nothing" => Email(t) # Email(s)'
  BY DEF RowLocked, Email
<1> QED
  BY <1>2, <1>3, <1>4, <1>5, <1>6, <1>7, LocalStep

\* INSERT INTO users: the unique index refuses a second row.
LEMMA InsertsUser ==
  ASSUME AccountsInv, NEW s \in Slots, InsertUser(s)
  PROVE  AccountsInv'
<1>1. Types
  BY DEF AccountsInv
<1>2. CASE Settle(s, "insert", "error") /\ Release(s)
  <2>1. InTransaction(s) /\ faults' \in 0..MaxFaults /\ consumed' \in SUBSET Tokens
    BY <1>1, <1>2 DEF Settle, InTransaction, InsertUser, db, Types
  <2> QED
    BY <1>2, <2>1, GivesUp DEF InsertUser, db, mail, Outcomes
<1>3. CASE Proceed(s, "insert", "verification")
           /\ writes' = [writes EXCEPT ![s] = "row"] /\ UNCHANGED free
  BY <1>3, WritesRow DEF InsertUser, db, mail
<1> QED
  BY <1>2, <1>3 DEF InsertUser

\* UPDATE of an account not yet confirmed.
LEMMA UpdatesCredentials ==
  ASSUME AccountsInv, NEW s \in Slots, UpdateCredentials(s)
  PROVE  AccountsInv'
  BY WritesRow DEF UpdateCredentials, db, mail

\* A token is generated for the one request that stores it.
LEMMA Generates ==
  ASSUME AccountsInv, NEW s \in Slots, NEW from, NEW to, Proceed(s, from, to), Generate(s),
         \/ from = "verification" /\ to = "enqueue"
         \/ from = "resetRow" /\ to = "commit",
         UNCHANGED <<users, token, consumed, expired, outbox, free, req, writes,
                     confirmations, faults, poolMax>>
  PROVE  AccountsInv'
<1>1. Types /\ SlotInv(s) /\ GlobalInv
  BY DEF AccountsInv
<1>2. /\ pc[s] = from /\ pc'[s] = to /\ outcome' = outcome /\ to \in Pcs
      /\ pc' \in [Slots -> Pcs] /\ \A t \in Slots \ {s} : pc'[t] = pc[t]
  BY <1>1, ProceedParts DEF Proceed, Pcs, RegisterPcs, ForgotPcs
<1>3. /\ req[s].kind = (IF from = "verification" THEN "register" ELSE "forgot")
      /\ req[s] \in Requests /\ outcome[s] # "ok"
  BY <1>1, <1>2 DEF SlotInv, RequestFits
<1>4. Generating(s) /\ ~Generating(s)' /\ InTransaction(s) /\ InTransaction(s)'
  BY <1>2, <1>3 DEF Generating, InTransaction
<1>5. generated + 1 \in Tokens /\ generated \in Nat
  BY <1>1, <1>4, TokenIsLeft DEF AccountsInv, Types
<1>6. /\ tok'[s] = generated + 1 /\ generated' = generated + 1 /\ tok'[s] # NoToken
      /\ \A t \in Slots \ {s} : tok'[t] = tok[t]
  BY <1>1, <1>5 DEF Generate, Types
<1>7. Types'
  BY <1>1, <1>2, <1>5 DEF Types, Generate
<1>8. token[generated + 1] = NoToken /\ outbox[generated + 1] = "absent"
  BY <1>1, <1>5 DEF GlobalInv
<1>9. SlotInv(s)'
  <2>1. RequestFits(s)' /\ WriteInv(s)' /\ outcome'[s] # "ok"
    BY <1>1, <1>2, <1>3 DEF SlotInv, RequestFits, WriteInv
  <2>2. TokenInv(s)'
    BY <1>1, <1>2, <1>3, <1>4, <1>5, <1>6, <1>8, <2>1 DEF TokenInv
  <2> QED
    BY <1>2, <2>1, <2>2 DEF SlotInv
<1>10. GlobalInv'
  <2>1. \A t \in Tokens : t > generated' => t > generated
    BY <1>5, <1>6 DEF Tokens
  <2> QED
    BY <1>1, <2>1 DEF GlobalInv, MailedResetExists, ConfirmedOnce
<1>11. ASSUME NEW t \in Slots \ {s}
       PROVE  /\ tok[t] # NoToken => tok[t] # tok'[s]
              /\ writes[t] # "nothing" /\ writes'[s] # "nothing" => Email(t) # Email(s)'
  <2>1. tok[t] # NoToken => tok[t] <= generated /\ tok[t] \in Nat
    BY DEF AccountsInv, SlotInv, TokenInv, Types, Tokens
  <2>2. writes[t] # "nothing" /\ writes[s] # "nothing" => Email(t) # Email(s)
    BY DEF AccountsInv, Exclusive
  <2> QED
    BY <1>5, <1>6, <2>1, <2>2 DEF Email
<1> QED
  BY <1>2, <1>4, <1>6, <1>7, <1>9, <1>10, <1>11, StepOf

\* A registration stores its confirmation token.
LEMMA CreatesVerification ==
  ASSUME AccountsInv, NEW s \in Slots, CreateVerification(s)
  PROVE  AccountsInv'
  BY Generates DEF CreateVerification, db

\* A forgot-password request stores its reset token.
LEMMA CreatesReset ==
  ASSUME AccountsInv, NEW s \in Slots, CreateReset(s)
  PROVE  AccountsInv'
  BY Generates DEF CreateReset, db

\* The mail of a token: no other request has that token, and a reset has its row.
LEMMA MailAdded ==
  ASSUME AccountsInv, NEW s \in Slots, pc[s] = "enqueue", AddMail(s),
         UNCHANGED <<users, token, generated, confirmations>>
  PROVE  /\ tok[s] \in Tokens /\ outbox'[tok[s]] = MailType(s)
         /\ outbox' \in [Tokens -> MailTypes \cup {"absent"}]
         /\ \A t \in Slots \ {s} : tok[t] # NoToken => outbox'[tok[t]] = outbox[tok[t]]
         /\ GlobalInv'
<1>1. Types /\ SlotInv(s) /\ GlobalInv
  BY DEF AccountsInv
<1>2. req[s].kind \in {"register", "forgot"} /\ tok[s] \in Tokens /\ tok[s] <= generated
  BY <1>1 DEF SlotInv, RequestFits, TokenInv, Types
<1>3. /\ outbox'[tok[s]] = MailType(s) /\ MailType(s) \in MailTypes
      /\ \A x \in Tokens \ {tok[s]} : outbox'[x] = outbox[x]
      /\ outbox' \in [Tokens -> MailTypes \cup {"absent"}]
  BY <1>1, <1>2 DEF AddMail, Types, MailType, MailTypes
<1>4. \A t \in Slots \ {s} : tok[t] # NoToken => tok[t] \in Tokens \ {tok[s]}
  BY <1>1, <1>2 DEF AccountsInv, Exclusive, Types
<1>5. CASE req[s].kind = "register"
  <2>1. token[tok[s]] = NoToken /\ MailType(s) = "email_confirmation"
    BY <1>1, <1>5 DEF SlotInv, TokenInv, MailType
  <2>2. ~(tok[s] > generated)
    BY <1>1, <1>2 DEF Types, Tokens
  <2> QED
    BY <1>1, <1>2, <1>3, <1>4, <2>1, <2>2 DEF GlobalInv, MailedResetExists, ConfirmedOnce
<1>6. CASE req[s].kind = "forgot"
  <2>1. token[tok[s]] # NoToken /\ token[tok[s]].kind = "forgot"
    BY <1>1, <1>6 DEF SlotInv, TokenInv
  <2>2. ~(tok[s] > generated)
    BY <1>1, <1>2 DEF Types, Tokens
  <2> QED
    BY <1>1, <1>2, <1>3, <1>4, <2>1, <2>2 DEF GlobalInv, MailedResetExists, ConfirmedOnce
<1> QED
  BY <1>2, <1>5, <1>6

\* The INSERT of the mail, inside a registration or after a reset's COMMIT.
LEMMA Enqueues ==
  ASSUME AccountsInv, NEW s \in Slots, Enqueue(s)
  PROVE  AccountsInv'
<1>1. Types /\ SlotInv(s)
  BY DEF AccountsInv
<1>2. UNCHANGED <<users, token, consumed, expired, generated, free, req, tok, writes,
                  confirmations, faults, poolMax>>
  BY DEF Enqueue, db
<1>3. pc[s] = "enqueue" /\ AddMail(s)
  BY DEF Enqueue, Proceed, Settle
<1>4. /\ tok[s] \in Tokens /\ tok[s] # NoToken /\ outbox'[tok[s]] = MailType(s)
      /\ outbox' \in [Tokens -> MailTypes \cup {"absent"}]
      /\ \A t \in Slots \ {s} : tok[t] # NoToken => outbox'[tok[t]] = outbox[tok[t]]
      /\ GlobalInv'
  BY <1>2, <1>3, MailAdded DEF Tokens
<1>5. ASSUME NEW t \in Slots \ {s}
      PROVE  /\ tok[t] # NoToken => tok[t] # tok'[s]
             /\ writes[t] # "nothing" /\ writes[s] # "nothing" => Email(t) # Email(s)'
  BY <1>2, <1>4 DEF AccountsInv, Exclusive, Email
<1>6. MailType(s)' = MailType(s) /\ req[s] \in Requests
  BY <1>1, <1>2, <1>3 DEF MailType, SlotInv, RequestFits
<1>7. CASE Proceed(s, "enqueue", "commit") /\ req[s].kind = "register"
  <2>1. /\ pc'[s] = "commit" /\ outcome' = outcome
        /\ pc' \in [Slots -> Pcs] /\ \A t \in Slots \ {s} : pc'[t] = pc[t]
    BY <1>1, <1>7, ProceedParts DEF Proceed, Pcs, RegisterPcs
  <2>2. Types'
    BY <1>1, <1>2, <1>4, <2>1 DEF Types
  <2>3. InTransaction(s) /\ InTransaction(s)' /\ ~Generating(s)'
    BY <1>2, <1>3, <1>7, <2>1 DEF InTransaction, Generating
  <2>4. SlotInv(s)'
    <3>1. RequestFits(s)' /\ WriteInv(s)' /\ outcome'[s] # "ok"
      BY <1>1, <1>2, <1>3, <1>6, <1>7, <2>1 DEF SlotInv, RequestFits, WriteInv
    <3>2. TokenInv(s)'
      BY <1>1, <1>2, <1>3, <1>4, <1>7, <2>1, <2>3, <3>1 DEF SlotInv, TokenInv, MailType
    <3> QED
      BY <2>1, <3>1, <3>2 DEF SlotInv
  <2> QED
    BY <1>2, <1>4, <1>5, <2>1, <2>2, <2>3, <2>4, StepOf
<1>8. CASE Settle(s, "enqueue", "ok") /\ req[s].kind = "forgot"
  <2>1. /\ pc'[s] = "done" /\ outcome'[s] = "ok" /\ outcome' \in [Slots -> Outcomes]
        /\ pc' \in [Slots -> Pcs]
        /\ \A t \in Slots \ {s} : pc'[t] = pc[t] /\ outcome'[t] = outcome[t]
    BY <1>1, <1>8, SettleParts DEF Outcomes
  <2>2. Types'
    BY <1>1, <1>2, <1>4, <2>1 DEF Types
  <2>3. ~InTransaction(s) /\ ~InTransaction(s)' /\ ~Generating(s)' /\ writes[s] = "nothing"
    BY <1>1, <1>2, <1>3, <1>8, <2>1 DEF InTransaction, Generating, SlotInv, WriteInv
  <2>4. SlotInv(s)'
    <3>1. RequestFits(s)' /\ WriteInv(s)'
      BY <1>1, <1>2, <1>3, <1>6, <1>8, <2>1, <2>3 DEF SlotInv, RequestFits, WriteInv
    <3>2. TokenInv(s)'
      BY <1>1, <1>2, <1>3, <1>4, <1>6, <1>8, <2>1, <2>3 DEF SlotInv, TokenInv
    <3> QED
      BY <2>1, <3>1, <3>2 DEF SlotInv
  <2> QED
    BY <1>2, <1>4, <1>5, <2>1, <2>2, <2>3, <2>4, StepOf
<1> QED
  BY <1>7, <1>8 DEF Enqueue

\* What a confirmation finds under its token.
LEMMA LooksUpToken ==
  ASSUME AccountsInv, NEW s \in Slots, LookUpToken(s)
  PROVE  AccountsInv'
<1>1. Types /\ SlotInv(s)
  BY DEF AccountsInv
<1>2. ASSUME NEW o \in {"invalid_token", "expired", "already_confirmed"},
             Settle(s, "lookup", o), Release(s)
      PROVE  AccountsInv'
  <2>1. InTransaction(s) /\ faults' \in 0..MaxFaults /\ consumed' \in SUBSET Tokens
    BY <1>1, <1>2 DEF Settle, InTransaction, LookUpToken, db, Types
  <2>2. o \in Outcomes \ {"ok"}
    BY DEF Outcomes
  <2> QED
    BY <1>2, <2>1, <2>2, GivesUp DEF LookUpToken, db, mail
<1>3. ASSUME Proceed(s, "lookup", "consume"), UNCHANGED <<free, writes>>,
             token[req[s].token] # NoToken, token[req[s].token].kind = "register"
      PROVE  AccountsInv'
  <2>1. pc[s] = "lookup" /\ pc'[s] = "consume" /\ outcome'[s] = outcome[s] /\ "consume" \in Pcs
    BY <1>1, <1>3, ProceedParts DEF Pcs, ConfirmPcs
  <2>2. UNCHANGED <<users, token, consumed, expired, outbox, generated, free, req, tok, writes,
                    confirmations, faults, poolMax>>
    BY <1>3 DEF LookUpToken, db, mail
  <2>3. (InTransaction(s)' <=> InTransaction(s)) /\ (Generating(s)' => Generating(s))
    BY <2>1, <2>2 DEF InTransaction, Generating
  <2>4. SlotInv(s)'
    <3>1. RequestFits(s)' /\ WriteInv(s)' /\ outcome'[s] # "ok"
      BY <1>1, <1>3, <2>1, <2>2 DEF SlotInv, RequestFits, WriteInv
    <3>2. TokenInv(s)'
      BY <1>1, <2>1, <2>2, <2>3, <3>1 DEF SlotInv, TokenInv
    <3> QED
      BY <2>1, <3>1, <3>2 DEF SlotInv
  <2> QED
    BY <1>3, <2>1, <2>2, <2>3, <2>4, GoesOn
<1> QED
  BY <1>2, <1>3 DEF LookUpToken

\* The first UPDATE of a confirmation waits for the token's row and tests it.
LEMMA ConsumesToken ==
  ASSUME AccountsInv, NEW s \in Slots, ConsumeToken(s)
  PROVE  AccountsInv'
<1>1. Types /\ SlotInv(s)
  BY DEF AccountsInv
<1>2. CASE Settle(s, "consume", "already_confirmed") /\ Release(s)
  <2>1. InTransaction(s) /\ faults' \in 0..MaxFaults /\ consumed' \in SUBSET Tokens
    BY <1>1, <1>2 DEF Settle, InTransaction, ConsumeToken, db, Types
  <2> QED
    BY <1>2, <2>1, GivesUp DEF ConsumeToken, db, mail, Outcomes
<1>3. CASE Proceed(s, "consume", "confirm") /\ UNCHANGED <<free, writes>>
  <2>1. /\ pc[s] = "consume" /\ pc'[s] = "confirm" /\ outcome'[s] = outcome[s]
        /\ "confirm" \in Pcs
    BY <1>1, <1>3, ProceedParts DEF Pcs, ConfirmPcs
  <2>2. UNCHANGED <<users, token, consumed, expired, outbox, generated, free, req, tok, writes,
                    confirmations, faults, poolMax>>
    BY <1>3 DEF ConsumeToken, db, mail
  <2>3. (InTransaction(s)' <=> InTransaction(s)) /\ (Generating(s)' => Generating(s))
    BY <2>1, <2>2 DEF InTransaction, Generating
  <2>4. SlotInv(s)'
    <3>1. RequestFits(s)' /\ WriteInv(s)' /\ outcome'[s] # "ok"
      BY <1>1, <2>1, <2>2 DEF SlotInv, RequestFits, WriteInv
    <3>2. TokenInv(s)'
      BY <1>1, <2>1, <2>2, <2>3, <3>1 DEF SlotInv, TokenInv
    <3> QED
      BY <2>1, <3>1, <3>2 DEF SlotInv
  <2> QED
    BY <1>3, <2>1, <2>2, <2>3, <2>4, GoesOn
<1> QED
  BY <1>2, <1>3 DEF ConsumeToken

\* The second UPDATE of a confirmation waits for the users row and tests it.
LEMMA ConfirmsUser ==
  ASSUME AccountsInv, NEW s \in Slots, ConfirmUser(s)
  PROVE  AccountsInv'
<1>1. Types /\ SlotInv(s)
  BY DEF AccountsInv
<1>2. UNCHANGED <<users, token, consumed, expired, outbox, generated, free, req, tok,
                  confirmations, faults, poolMax>>
  BY DEF ConfirmUser, db, mail
<1>3. CASE Proceed(s, "confirm", "keep") /\ UNCHANGED writes
  <2>1. /\ pc[s] = "confirm" /\ pc'[s] = "keep" /\ outcome'[s] = outcome[s]
        /\ "keep" \in Pcs
    BY <1>1, <1>3, ProceedParts DEF Pcs, ConfirmPcs
  <2>2. (InTransaction(s)' <=> InTransaction(s)) /\ (Generating(s)' => Generating(s))
    BY <1>2, <2>1 DEF InTransaction, Generating
  <2>3. SlotInv(s)'
    <3>1. RequestFits(s)' /\ WriteInv(s)' /\ outcome'[s] # "ok"
      BY <1>1, <1>2, <1>3, <2>1 DEF SlotInv, RequestFits, WriteInv
    <3>2. TokenInv(s)'
      BY <1>1, <1>2, <2>1, <2>2, <3>1 DEF SlotInv, TokenInv
    <3> QED
      BY <2>1, <3>1, <3>2 DEF SlotInv
  <2> QED
    BY <1>2, <1>3, <2>1, <2>2, <2>3, GoesOn
<1>4. CASE /\ Proceed(s, "confirm", "commit") /\ ~users[Email(s)].confirmed
           /\ writes' = [writes EXCEPT ![s] = "row"]
  <2>1. /\ pc[s] = "confirm" /\ pc'[s] = "commit" /\ outcome' = outcome /\ "commit" \in Pcs
        /\ pc' \in [Slots -> Pcs] /\ \A t \in Slots \ {s} : pc'[t] = pc[t]
    BY <1>1, <1>4, ProceedParts DEF Proceed, Pcs, RegisterPcs
  <2>2. writes'[s] = "row" /\ \A t \in Slots \ {s} : writes'[t] = writes[t]
    BY <1>1, <1>4 DEF Types
  <2>3. Types'
    BY <1>1, <1>2, <1>4, <2>1 DEF Types
  <2>4. /\ req[s] \in Requests /\ req[s].kind = "confirm"
        /\ (InTransaction(s)' <=> InTransaction(s)) /\ (Generating(s)' => Generating(s))
    BY <1>1, <1>2, <2>1 DEF SlotInv, RequestFits, InTransaction, Generating
  <2>5. Email(s)' = Email(s)
    BY <1>2 DEF Email
  <2>6. SlotInv(s)'
    <3>1. RequestFits(s)' /\ WriteInv(s)' /\ outcome'[s] # "ok"
      BY <1>1, <1>2, <1>4, <2>1, <2>2, <2>4, <2>5 DEF SlotInv, RequestFits, WriteInv
    <3>2. TokenInv(s)'
      BY <1>1, <1>2, <2>1, <2>4, <3>1 DEF SlotInv, TokenInv
    <3> QED
      BY <2>1, <3>1, <3>2 DEF SlotInv
  <2>7. \A t \in Slots \ {s} : writes[t] # "nothing" => Email(t) # Email(s)'
    BY <2>5 DEF ConfirmUser, RowLocked
  <2> QED
    BY <1>2, <2>1, <2>2, <2>3, <2>4, <2>6, <2>7, LocalStep
<1> QED
  BY <1>3, <1>4 DEF ConfirmUser

\* The COMMIT of a confirmation that came too late keeps its token consumed.
LEMMA CommitsConsumed ==
  ASSUME AccountsInv, NEW s \in Slots, CommitConsumed(s)
  PROVE  AccountsInv'
<1>1. Types /\ SlotInv(s)
  BY DEF AccountsInv
<1>2. pc[s] = "keep" /\ req[s] \in Requests /\ req[s].kind = "confirm"
  BY <1>1 DEF CommitConsumed, Settle, SlotInv, RequestFits
<1>3. InTransaction(s) /\ faults' \in 0..MaxFaults /\ consumed' \in SUBSET Tokens
  BY <1>1, <1>2, RequestParts DEF InTransaction, CommitConsumed, KeepConsumed, Types
<1> QED
  BY <1>3, GivesUp DEF CommitConsumed, KeepConsumed, mail, Outcomes

\* A forgot-password request that finds no account is answered all the same.
LEMMA FindsForgetful ==
  ASSUME AccountsInv, NEW s \in Slots, FindForgetful(s)
  PROVE  AccountsInv'
<1>1. Types /\ SlotInv(s)
  BY DEF AccountsInv
<1>2. UNCHANGED <<users, token, consumed, expired, outbox, generated, free, req, tok, writes,
                  confirmations, faults, poolMax>>
  BY DEF FindForgetful, db, mail
<1>3. pc[s] = "findUser" /\ req[s] \in Requests /\ req[s].kind = "forgot"
  BY <1>1 DEF FindForgetful, Proceed, Settle, SlotInv, RequestFits
<1>4. ~InTransaction(s) /\ Generating(s) /\ tok[s] = NoToken /\ writes[s] = "nothing"
  BY <1>1, <1>3 DEF InTransaction, Generating, SlotInv, TokenInv, WriteInv, Types
<1>5. CASE Settle(s, "findUser", "ok")
  <2>1. /\ pc'[s] = "done" /\ pc' \in [Slots -> Pcs] /\ outcome' \in [Slots -> Outcomes]
        /\ \A t \in Slots \ {s} : pc'[t] = pc[t] /\ outcome'[t] = outcome[t]
    BY <1>1, <1>5, SettleParts DEF Outcomes
  <2>2. Types'
    BY <1>1, <1>2, <2>1 DEF Types
  <2>3. ~InTransaction(s)' /\ ~Generating(s)'
    BY <2>1 DEF InTransaction, Generating
  <2>4. SlotInv(s)'
    BY <1>2, <1>3, <1>4, <2>1 DEF SlotInv, RequestFits, TokenInv, WriteInv
  <2> QED
    BY <1>2, <1>4, <2>1, <2>2, <2>3, <2>4, LocalStep
<1>6. CASE Proceed(s, "findUser", "connect")
  <2>1. pc'[s] = "connect" /\ outcome'[s] = outcome[s] /\ "connect" \in Pcs
    BY <1>1, <1>6, ProceedParts DEF Pcs, RegisterPcs
  <2>2. ~InTransaction(s)'
    BY <2>1 DEF InTransaction
  <2>3. SlotInv(s)'
    BY <1>1, <1>2, <1>3, <1>4, <2>1 DEF SlotInv, RequestFits, TokenInv, WriteInv
  <2> QED
    BY <1>2, <1>4, <1>6, <2>1, <2>2, <2>3, GoesOn
<1> QED
  BY <1>5, <1>6 DEF FindForgetful

\* What a COMMIT makes visible concerns its own token and its own users row,
\* which no other transaction has written.
LEMMA Applied ==
  ASSUME AccountsInv, NEW s \in Slots, pc[s] = "commit", Apply(s),
         UNCHANGED <<outbox, generated>>
  PROVE  /\ users' \in [Emails -> UserRows \cup {NoUser}]
         /\ token' \in [Tokens -> TokenRows \cup {NoToken}]
         /\ consumed' \in SUBSET Tokens /\ confirmations' \in [Emails -> Nat]
         /\ \A x \in Tokens : token[x] # NoToken => token'[x] = token[x]
         /\ \A t \in Slots \ {s} :
              /\ tok[t] # NoToken => token'[tok[t]] = token[tok[t]]
              /\ writes[t] # "nothing" => users'[Email(t)] = users[Email(t)]
         /\ req[s].kind \in {"register", "forgot"} =>
              token'[tok[s]] # NoToken /\ token'[tok[s]].kind = req[s].kind
         /\ GlobalInv'
<1>1. Types /\ SlotInv(s) /\ GlobalInv /\ req[s] \in Requests
  BY DEF AccountsInv, SlotInv, RequestFits
<1>2. ASSUME req[s].kind \in {"register", "forgot"}, token' = [token EXCEPT ![tok[s]] = TokenRow(s)]
      PROVE  /\ tok[s] \in Tokens /\ ~(tok[s] > generated) /\ token[tok[s]] = NoToken
             /\ TokenRow(s) \in TokenRows /\ TokenRow(s) # NoToken
             /\ TokenRow(s).kind = req[s].kind /\ TokenRow(s).email = req[s].email
             /\ token' \in [Tokens -> TokenRows \cup {NoToken}]
             /\ token'[tok[s]] = TokenRow(s)
             /\ \A x \in Tokens \ {tok[s]} : token'[x] = token[x]
             /\ \A t \in Slots \ {s} : tok[t] # NoToken => tok[t] \in Tokens \ {tok[s]}
  <2>1. tok[s] \in Tokens /\ ~(tok[s] > generated) /\ token[tok[s]] = NoToken
    BY <1>1, <1>2 DEF SlotInv, TokenInv, Types, Tokens
  <2>2. /\ TokenRow(s) \in TokenRows /\ TokenRow(s) # NoToken
        /\ TokenRow(s).kind = req[s].kind /\ TokenRow(s).email = req[s].email
    BY <1>1, <1>2, RequestParts DEF TokenRow, TokenRows
  <2>3. \A t \in Slots \ {s} : tok[t] # NoToken => tok[t] \in Tokens \ {tok[s]}
    BY <1>1, <2>1 DEF AccountsInv, Exclusive, Types, Tokens
  <2> QED
    BY <1>1, <1>2, <2>1, <2>2, <2>3 DEF Types
<1>3. CASE req[s].kind = "register" /\ CommitRegister(s)
  <2> DEFINE e == req[s].email
             stays == users[e] # NoUser /\ users[e].confirmed
             row == [password |-> req[s].password, confirmed |-> stays]
  <2>1. /\ e \in Emails /\ row \in UserRows /\ row # NoUser
        /\ stays => row.confirmed
    <3>1. e \in Emails /\ req[s].password \in Passwords
      BY <1>1, <1>3, RequestParts
    <3>2. stays \in BOOLEAN
      OBVIOUS
    <3>3. row \in UserRows
      BY <3>1, <3>2 DEF UserRows
    <3> QED
      BY <3>1, <3>3
  <2>2. /\ users' = [users EXCEPT ![e] = row] /\ token' = [token EXCEPT ![tok[s]] = TokenRow(s)]
        /\ UNCHANGED <<consumed, confirmations>>
    BY <1>3 DEF CommitRegister
  <2> HIDE DEF row
  <2>3. /\ users' \in [Emails -> UserRows \cup {NoUser}] /\ users'[e] = row
        /\ \A x \in Emails \ {e} : users'[x] = users[x]
    BY <1>1, <2>1, <2>2 DEF Types
  <2>4. \A t \in Slots \ {s} : writes[t] # "nothing" => Email(t) \in Emails \ {e}
    <3>1. writes[s] # "nothing" /\ Email(s) = e
      BY <1>1, <1>3 DEF SlotInv, WriteInv, Email
    <3>2. \A t \in Slots \ {s} : writes[t] # "nothing" => Email(t) # e
      BY <3>1 DEF AccountsInv, Exclusive
    <3>3. \A t \in Slots : writes[t] # "nothing" => Email(t) \in Emails
      <4> SUFFICES ASSUME NEW t \in Slots, writes[t] # "nothing" PROVE Email(t) \in Emails
        OBVIOUS
      <4>1. req[t] \in Requests /\ SlotInv(t)
        BY DEF AccountsInv, SlotInv, WriteInv, RequestFits
      <4>2. CASE req[t].kind = "register"
        BY <4>1, <4>2, RequestParts DEF Email
      <4>3. CASE req[t].kind = "confirm"
        BY <1>1, <4>1, <4>3, RequestParts DEF SlotInv, WriteInv, Email, Types, TokenRows
      <4> QED
        BY <4>1, <4>2, <4>3 DEF SlotInv, WriteInv
    <3> QED
      BY <3>2, <3>3
  <2>5. outbox[tok[s]] = "email_confirmation"
    BY <1>1, <1>3 DEF SlotInv, TokenInv
  <2>6. GlobalInv'
    <3>1. ASSUME NEW t \in Tokens
          PROVE  /\ t > generated => token'[t] = NoToken /\ outbox[t] = "absent"
                 /\ token'[t] # NoToken /\ token'[t].kind = "register" =>
                      outbox[t] = "email_confirmation" /\ users'[token'[t].email] # NoUser
      <4>1. CASE t = tok[s]
        BY <1>2, <1>3, <2>1, <2>2, <2>3, <2>5, <4>1
      <4>2. CASE t # tok[s]
        <5>1. token'[t] = token[t] /\ (token[t] # NoToken => token[t].email \in Emails)
          BY <1>1, <1>2, <1>3, <2>2, <4>2 DEF Types, TokenRows
        <5> QED
          BY <1>1, <2>1, <2>3, <5>1 DEF GlobalInv
      <4> QED
        BY <4>1, <4>2
    <3>2. MailedResetExists'
      BY <1>1, <1>2, <1>3, <2>2, <2>5 DEF GlobalInv, MailedResetExists
    <3>3. ConfirmedOnce'
      BY <1>1, <2>1, <2>2, <2>3 DEF GlobalInv, ConfirmedOnce
    <3> QED
      BY <3>1, <3>2, <3>3 DEF GlobalInv
  <2> QED
    BY <1>1, <1>2, <1>3, <2>2, <2>3, <2>4, <2>6 DEF Types
<1>4. CASE req[s].kind = "confirm" /\ CommitConfirm(s)
  <2> DEFINE e == Email(s)
             k == req[s].token
  <2>1. /\ k \in Tokens /\ token[k] # NoToken /\ token[k].kind = "register" /\ e = token[k].email
        /\ writes[s] # "nothing" /\ ~users[e].confirmed
    BY <1>1, <1>4, RequestParts DEF SlotInv, WriteInv, Email
  <2>2. e \in Emails /\ users[e] \in UserRows
    BY <1>1, <2>1 DEF GlobalInv, Types, TokenRows
  <2>3. /\ users' = [users EXCEPT ![e].confirmed = TRUE] /\ consumed' = consumed \cup {k}
        /\ confirmations' = [confirmations EXCEPT ![e] = @ + 1] /\ token' = token
    BY <1>4 DEF CommitConfirm
  <2>4. [users[e] EXCEPT !.confirmed = TRUE] \in UserRows
        /\ [users[e] EXCEPT !.confirmed = TRUE].confirmed = TRUE
    BY <2>2 DEF UserRows
  <2> HIDE DEF e, k
  <2>5. /\ users' \in [Emails -> UserRows \cup {NoUser}]
        /\ users'[e] # NoUser /\ users'[e].confirmed
        /\ \A x \in Emails \ {e} : users'[x] = users[x]
    BY <1>1, <2>2, <2>3, <2>4 DEF Types
  <2>6. \A t \in Slots \ {s} : writes[t] # "nothing" => Email(t) # e
    BY <2>1 DEF AccountsInv, Exclusive, e
  <2>7. \A t \in Slots \ {s} : writes[t] # "nothing" => users'[Email(t)] = users[Email(t)]
    <3> SUFFICES ASSUME NEW t \in Slots \ {s}, writes[t] # "nothing"
                 PROVE  users'[Email(t)] = users[Email(t)]
      OBVIOUS
    <3>1. req[t] \in Requests /\ SlotInv(t)
      BY DEF AccountsInv, SlotInv, WriteInv, RequestFits
    <3>2. CASE req[t].kind = "register"
      BY <2>5, <2>6, <3>1, <3>2, RequestParts DEF Email
    <3>3. CASE req[t].kind = "confirm"
      <4>1. Email(t) \in Emails
        BY <1>1, <3>1, <3>3, RequestParts DEF SlotInv, WriteInv, Email, Types, TokenRows
      <4> QED
        BY <2>5, <2>6, <4>1
    <3> QED
      BY <3>1, <3>2, <3>3 DEF SlotInv, WriteInv
  <2>8. confirmations[e] = 0 /\ confirmations'[e] = 1 /\ confirmations' \in [Emails -> Nat]
        /\ \A x \in Emails \ {e} : confirmations'[x] = confirmations[x]
    <3>1. confirmations[e] \in Nat /\ confirmations[e] <= 1 /\ confirmations[e] # 1
      BY <1>1, <2>1, <2>2 DEF GlobalInv, ConfirmedOnce, Types
    <3> QED
      BY <1>1, <2>2, <2>3, <3>1 DEF Types
  <2>9. GlobalInv'
    <3>1. \A t \in Tokens : token[t] # NoToken => token[t].email \in Emails
      BY <1>1 DEF Types, TokenRows
    <3>2. MailedResetExists'
      BY <1>1, <2>3 DEF GlobalInv, MailedResetExists
    <3>3. ConfirmedOnce'
      BY <1>1, <2>5, <2>8 DEF GlobalInv, ConfirmedOnce
    <3> QED
      BY <1>1, <2>3, <2>5, <3>1, <3>2, <3>3 DEF GlobalInv
  <2> QED
    BY <1>1, <1>4, <2>1, <2>3, <2>5, <2>7, <2>8, <2>9 DEF Types
<1>5. CASE req[s].kind = "forgot" /\ CommitReset(s)
  <2>1. /\ token' = [token EXCEPT ![tok[s]] = TokenRow(s)]
        /\ UNCHANGED <<users, consumed, confirmations>>
    BY <1>5 DEF CommitReset
  <2>2. GlobalInv'
    <3>1. ASSUME NEW t \in Tokens
          PROVE  /\ t > generated => token'[t] = NoToken /\ outbox[t] = "absent"
                 /\ token'[t] # NoToken /\ token'[t].kind = "register" =>
                      outbox[t] = "email_confirmation" /\ users[token'[t].email] # NoUser
      BY <1>1, <1>2, <1>5, <2>1 DEF GlobalInv
    <3>2. MailedResetExists'
      BY <1>1, <1>2, <1>5, <2>1 DEF GlobalInv, MailedResetExists
    <3>3. ConfirmedOnce'
      BY <1>1, <2>1 DEF GlobalInv, ConfirmedOnce
    <3> QED
      BY <2>1, <3>1, <3>2, <3>3 DEF GlobalInv
  <2> QED
    BY <1>1, <1>2, <1>5, <2>1, <2>2 DEF Types
<1> QED
  BY <1>3, <1>4, <1>5 DEF Apply

\* The end of a transaction that commits.
LEMMA Commits ==
  ASSUME AccountsInv, NEW s \in Slots, Commit(s)
  PROVE  AccountsInv'
<1>1. Types /\ SlotInv(s)
  BY DEF AccountsInv
<1>2. /\ UNCHANGED <<expired, outbox, generated, req, tok, faults, poolMax>>
      /\ pc[s] = "commit" /\ Apply(s) /\ Release(s)
  BY DEF Commit, mail, Proceed, Settle
<1>3. PICK to \in {"done", "enqueue"} :
        /\ to = "done" => Settle(s, "commit", "ok") /\ req[s].kind \in {"register", "confirm"}
        /\ to = "enqueue" => Proceed(s, "commit", "enqueue") /\ req[s].kind = "forgot"
  BY DEF Commit
<1>4. /\ pc'[s] = to /\ pc' \in [Slots -> Pcs] /\ outcome' \in [Slots -> Outcomes]
      /\ outcome'[s] = (IF to = "done" THEN "ok" ELSE outcome[s])
      /\ \A t \in Slots \ {s} : pc'[t] = pc[t] /\ outcome'[t] = outcome[t]
  <2>1. CASE to = "done"
    BY <1>1, <1>3, <2>1, SettleParts DEF Outcomes
  <2>2. CASE to = "enqueue"
    BY <1>1, <1>3, <2>2, ProceedParts DEF Pcs, RegisterPcs
  <2> QED
    BY <2>1, <2>2
<1>5. /\ free' = free + 1 /\ writes'[s] = "nothing" /\ writes' \in [Slots -> {"nothing", "row"}]
      /\ \A t \in Slots \ {s} : writes'[t] = writes[t]
  BY <1>1, <1>2 DEF Release, Types
<1>6. /\ users' \in [Emails -> UserRows \cup {NoUser}]
      /\ token' \in [Tokens -> TokenRows \cup {NoToken}]
      /\ consumed' \in SUBSET Tokens /\ confirmations' \in [Emails -> Nat]
      /\ \A x \in Tokens : token[x] # NoToken => token'[x] = token[x]
      /\ \A t \in Slots \ {s} :
           /\ tok[t] # NoToken => token'[tok[t]] = token[tok[t]]
           /\ writes[t] # "nothing" => users'[Email(t)] = users[Email(t)]
      /\ req[s].kind \in {"register", "forgot"} =>
           token'[tok[s]] # NoToken /\ token'[tok[s]].kind = req[s].kind
      /\ GlobalInv'
  BY <1>2, Applied
<1>7. Types'
  BY <1>1, <1>2, <1>4, <1>5, <1>6 DEF Types
<1>8. InTransaction(s) /\ ~InTransaction(s)' /\ ~Generating(s)'
  BY <1>2, <1>3, <1>4 DEF InTransaction, Generating
<1>9. SlotInv(s)'
  <2>1. req[s] \in Requests /\ outcome[s] # "ok"
    BY <1>1, <1>2 DEF SlotInv, RequestFits
  <2>2. RequestFits(s)' /\ WriteInv(s)' /\ (pc'[s] # "done" => outcome'[s] # "ok")
    BY <1>2, <1>3, <1>4, <1>5, <2>1 DEF RequestFits, WriteInv
  <2>3. CASE to = "done"
    <3>1. TokenInv(s)'
      BY <1>1, <1>2, <1>3, <1>4, <1>6, <1>8, <2>3 DEF SlotInv, TokenInv, MailType
    <3> QED
      BY <2>2, <3>1 DEF SlotInv
  <2>4. CASE to = "enqueue"
    <3>1. TokenInv(s)'
      BY <1>1, <1>2, <1>3, <1>4, <1>6, <1>8, <2>1, <2>4 DEF SlotInv, TokenInv
    <3> QED
      BY <2>2, <3>1 DEF SlotInv
  <2> QED
    BY <2>3, <2>4
<1>10. \A t \in Slots \ {s} : tok[t] # NoToken /\ tok'[s] # NoToken => tok[t] # tok'[s]
  BY <1>2 DEF AccountsInv, Exclusive
<1> QED
  BY <1>2, <1>4, <1>5, <1>6, <1>7, <1>8, <1>9, <1>10, StepOf

\* A statement fails; a COMMIT or an enqueue may have taken effect all the same.
LEMMA Fails ==
  ASSUME AccountsInv, NEW s \in Slots, Fault(s)
  PROVE  AccountsInv'
<1>1. Types /\ SlotInv(s) /\ GlobalInv
  BY DEF AccountsInv
<1>2. /\ UNCHANGED <<expired, generated, req, tok, poolMax>> /\ faults' \in 0..MaxFaults
      /\ Settle(s, pc[s], "error") /\ pc[s] \notin {"idle", "done"}
  BY <1>1 DEF Fault, StatementUnderWay, Types
<1>3. /\ pc'[s] = "done" /\ outcome'[s] = "error"
      /\ pc' \in [Slots -> Pcs] /\ outcome' \in [Slots -> Outcomes]
      /\ \A t \in Slots \ {s} : pc'[t] = pc[t] /\ outcome'[t] = outcome[t]
  BY <1>1, <1>2, SettleParts DEF Outcomes
<1>4. ~InTransaction(s)' /\ ~Generating(s)'
  BY <1>3 DEF InTransaction, Generating
<1>5. /\ writes' \in [Slots -> {"nothing", "row"}] /\ writes'[s] = "nothing"
      /\ \A t \in Slots \ {s} : writes'[t] = writes[t]
      /\ free' = (IF InTransaction(s) THEN free + 1 ELSE free)
  <2>1. CASE InTransaction(s)
    BY <1>1, <2>1 DEF Fault, Release, Types
  <2>2. CASE ~InTransaction(s)
    <3>1. UNCHANGED <<free, writes>>
      BY <2>2 DEF Fault
    <3>2. writes[s] = "nothing"
      BY <1>1, <2>2 DEF InTransaction, SlotInv, WriteInv, Types
    <3> QED
      BY <1>1, <2>2, <3>1, <3>2 DEF Types
  <2> QED
    BY <2>1, <2>2
<1>6. /\ users' \in [Emails -> UserRows \cup {NoUser}]
      /\ token' \in [Tokens -> TokenRows \cup {NoToken}]
      /\ consumed' \in SUBSET Tokens /\ confirmations' \in [Emails -> Nat]
      /\ outbox' \in [Tokens -> MailTypes \cup {"absent"}]
      /\ \A x \in Tokens : token[x] # NoToken => token'[x] = token[x]
      /\ \A t \in Slots \ {s} :
           /\ tok[t] # NoToken => token'[tok[t]] = token[tok[t]] /\ outbox'[tok[t]] = outbox[tok[t]]
           /\ writes[t] # "nothing" => users'[Email(t)] = users[Email(t)]
      /\ GlobalInv'
  <2>1. CASE UNCHANGED <<users, token, consumed, confirmations, outbox>>
    BY <1>1, <1>2, <2>1 DEF Types, GlobalInv, MailedResetExists, ConfirmedOnce
  <2>2. CASE pc[s] = "commit" /\ Apply(s) /\ UNCHANGED outbox
    BY <1>1, <1>2, <2>2, Applied DEF Types
  <2>3. CASE pc[s] = "enqueue" /\ AddMail(s) /\ UNCHANGED <<users, token, consumed, confirmations>>
    BY <1>1, <1>2, <2>3, MailAdded DEF Types
  <2>4. CASE pc[s] = "keep" /\ KeepConsumed(s) /\ UNCHANGED outbox
    <3>1. req[s] \in Requests /\ req[s].kind = "confirm"
      BY <1>1, <2>4 DEF SlotInv, RequestFits
    <3>2. UNCHANGED <<users, token, confirmations, outbox, generated>>
      BY <1>2, <2>4 DEF KeepConsumed
    <3>3. consumed' \in SUBSET Tokens
      BY <1>1, <2>4, <3>1, RequestParts DEF KeepConsumed, Types
    <3> QED
      BY <1>1, <3>2, <3>3 DEF Types, GlobalInv, MailedResetExists, ConfirmedOnce
  <2> QED
    BY <2>1, <2>2, <2>3, <2>4 DEF Fault
<1>7. Types'
  BY <1>1, <1>2, <1>3, <1>5, <1>6 DEF Types
<1>8. SlotInv(s)'
  BY <1>1, <1>2, <1>3, <1>4, <1>5 DEF SlotInv, RequestFits, TokenInv, WriteInv
<1>9. \A t \in Slots \ {s} : tok[t] # NoToken /\ tok'[s] # NoToken => tok[t] # tok'[s]
  BY <1>2 DEF AccountsInv, Exclusive
<1> QED
  BY <1>2, <1>3, <1>4, <1>5, <1>6, <1>7, <1>8, <1>9, StepOf

\* Nothing but expired changes, or nothing at all.
LEMMA Rests ==
  ASSUME AccountsInv, Expire \/ UNCHANGED vars
  PROVE  AccountsInv'
<1>1. /\ UNCHANGED <<users, token, consumed, outbox, generated, poolMax, free, pc, req, outcome,
                     tok, writes, confirmations, faults>>
      /\ expired' \in SUBSET Tokens
  BY DEF AccountsInv, Types, Expire, mail, vars
<1>2. Types'
  BY <1>1 DEF AccountsInv, Types
<1>3. ASSUME NEW s \in Slots PROVE SlotInv(s)'
  BY <1>1 DEF AccountsInv, SlotInv, RequestFits, TokenInv, WriteInv, Generating, MailType, Email
<1>4. GlobalInv' /\ Exclusive'
  BY <1>1 DEF AccountsInv, GlobalInv, MailedResetExists, ConfirmedOnce, Exclusive, Email
<1>5. PoolBalanced' /\ Budget'
  BY <1>1 DEF AccountsInv, PoolBalanced, InTransaction, Budget, Generators, Generating
<1> QED
  BY <1>2, <1>3, <1>4, <1>5 DEF AccountsInv

-----------------------------------------------------------------------------
(* The theorems *)

\* AccountsInv holds in every reachable state, whatever requests arrive, wait
\* for connections and rows, fail and commit in whatever order.
THEOREM AccountsInvariance == Spec => []AccountsInv
<1>1. AccountsInv /\ [Next]_vars => AccountsInv'
  <2> SUFFICES ASSUME AccountsInv, [Next]_vars PROVE AccountsInv'
    OBVIOUS
  <2>1. ASSUME NEW s \in Slots, Receive(s) \/ HandlerStep(s) \/ Fault(s) PROVE AccountsInv'
    BY <2>1, Receives, Connects, FindsUser, InsertsUser, UpdatesCredentials, CreatesVerification,
       Enqueues, LooksUpToken, ConsumesToken, ConfirmsUser, CommitsConsumed, FindsForgetful,
       CreatesReset, Commits, Fails DEF HandlerStep
  <2> QED
    BY <2>1, Rests DEF Next
<1> QED
  BY <1>1, InitAccounts, PTL DEF Spec

\* Every variable keeps its type: the pool never has more idle connections
\* than DB_POOL_MAX and no more tokens are generated than were admitted.
THEOREM AccountTypes == Spec => []TypeOK
<1>1. AccountsInv => TypeOK
  <2> SUFFICES ASSUME AccountsInv PROVE TypeOK
    OBVIOUS
  <2>1. /\ Cardinality(Generators) \in Nat /\ Cardinality(Holders) \in Nat
    BY FS_Subset, FS_CardinalityType DEF Generators, Holders
  <2>2. generated \in 0..MaxTokens
    BY <2>1 DEF AccountsInv, Budget, Types
  <2>3. free \in 0..poolMax
    BY <2>1 DEF AccountsInv, PoolBalanced, Holders, Types
  <2> QED
    BY <2>2, <2>3 DEF AccountsInv, Types, TypeOK, Requests, Outcomes
<1> QED
  BY <1>1, AccountsInvariance, PTL

\* runInTransaction's finally: on every path out of a handler, an error of the
\* COMMIT included, the connection goes back to the pool exactly once.
THEOREM ConnectionsReturn == Spec => []PoolBalanced
  BY AccountsInvariance, PTL DEF AccountsInv

\* confirmEmailByTokenHash: however many links an address was mailed, and
\* however they are followed, one answer says that it confirmed the account.
THEOREM ConfirmedAtMostOnce == Spec => []ConfirmedOnce
  BY AccountsInvariance, PTL DEF AccountsInv, GlobalInv

\* RegisterHandler awaits enqueue before its COMMIT: a confirmation token that
\* can be found was mailed, and "ok" means that row and mail are both there.
THEOREM TokensAreMailed == Spec => []TokenIsMailed
<1>1. AccountsInv => TokenIsMailed
  BY DEF AccountsInv, GlobalInv, TokenIsMailed, SlotInv, TokenInv
<1> QED
  BY <1>1, AccountsInvariance, PTL

\* ForgotPasswordHandler enqueues after its transaction: no link is mailed
\* before the row it needs is committed.
THEOREM ResetsExist == Spec => []MailedResetExists
  BY AccountsInvariance, PTL DEF AccountsInv, GlobalInv

-----------------------------------------------------------------------------
(* What confirms an account *)

Confirmed(e) == users[e] # NoUser /\ users[e].confirmed

\* A token of e that was mailed to e.
MailedTo(t, e) ==
  /\ token[t] = [email |-> e, kind |-> "register"]
  /\ outbox[t] = "email_confirmation"

\* Accounts are not lost, and one is confirmed by a mailed token only.
ConfirmedByMail ==
  \A e \in Emails :
    /\ users[e] # NoUser => users'[e] # NoUser
    /\ Confirmed(e) => Confirmed(e)'
    /\ ~Confirmed(e) /\ Confirmed(e)' => \E t \in Tokens : MailedTo(t, e) /\ t \in consumed'

LEMMA AppliedByMail ==
  ASSUME AccountsInv, NEW s \in Slots, pc[s] = "commit", Apply(s)
  PROVE  ConfirmedByMail
<1>1. /\ users \in [Emails -> UserRows \cup {NoUser}]
      /\ token \in [Tokens -> TokenRows \cup {NoToken}]
      /\ req[s] \in Requests
  BY DEF AccountsInv, Types, SlotInv, RequestFits
<1>2. CASE req[s].kind = "register"
  <2>1. CommitRegister(s) /\ req[s].email \in Emails /\ req[s].password \in Passwords
    BY <1>1, <1>2, RequestParts DEF Apply
  <2>2. PICK stays \in BOOLEAN :
          /\ stays = Confirmed(req[s].email)
          /\ users' = [users EXCEPT ![req[s].email] =
                         [password |-> req[s].password, confirmed |-> stays]]
    BY <2>1 DEF CommitRegister, Confirmed
  <2>3. \A e \in Emails :
          /\ e # req[s].email => users'[e] = users[e]
          /\ e = req[s].email => users'[e] \in UserRows /\ users'[e].confirmed = Confirmed(e)
    BY <1>1, <2>1, <2>2 DEF UserRows
  <2> QED
    BY <2>3 DEF ConfirmedByMail, Confirmed
<1>3. CASE req[s].kind = "confirm"
  <2>1. /\ CommitConfirm(s) /\ req[s].token \in Tokens
        /\ token[req[s].token] # NoToken /\ token[req[s].token].kind = "register"
    BY <1>1, <1>3, RequestParts DEF Apply, AccountsInv, SlotInv, WriteInv
  <2>2. PICK t \in Tokens, x \in Emails : t = req[s].token /\ x = token[t].email /\ x = Email(s)
    BY <1>1, <1>3, <2>1 DEF Email, TokenRows
  <2>3. MailedTo(t, x) /\ t \in consumed' /\ users[x] # NoUser
    BY <1>1, <2>1, <2>2 DEF MailedTo, TokenRows, AccountsInv, GlobalInv, CommitConfirm
  <2>4. users' = [users EXCEPT ![x].confirmed = TRUE]
    BY <2>1, <2>2 DEF CommitConfirm
  <2>5. \A e \in Emails :
          /\ e # x => users'[e] = users[e]
          /\ e = x => users'[e] \in UserRows
    BY <1>1, <2>3, <2>4 DEF UserRows
  <2>6. users'[x].confirmed
    BY <1>1, <2>3, <2>4 DEF UserRows
  <2> QED
    BY <2>2, <2>3, <2>5, <2>6 DEF ConfirmedByMail, Confirmed
<1>4. CASE req[s].kind = "forgot"
  <2>1. users' = users
    BY <1>1, <1>4, RequestParts DEF Apply, CommitReset
  <2> QED
    BY <2>1 DEF ConfirmedByMail, Confirmed
<1> QED
  BY <1>1, <1>2, <1>3, <1>4, RequestParts

\* confirmEmailByTokenHash, and the UPDATE of a registration: an account is
\* confirmed only by a request with a token that was mailed to its address, in the transaction that
\* consumes the token, and no registration or reset takes that back.
THEOREM AccountsConfirmedByMail == Spec => [][ConfirmedByMail]_vars
<1>1. ASSUME AccountsInv, [Next]_vars PROVE [ConfirmedByMail]_vars
  <2>1. CASE UNCHANGED users
    BY <2>1 DEF ConfirmedByMail, Confirmed
  <2>2. ASSUME NEW s \in Slots, pc[s] = "commit", Apply(s) PROVE ConfirmedByMail
    BY <1>1, <2>2, AppliedByMail
  <2>3. UNCHANGED users \/ \E s \in Slots : pc[s] = "commit" /\ Apply(s)
    BY <1>1 DEF Next, Expire, Receive, Arrive, HandlerStep, Connect, FindUser, InsertUser,
                UpdateCredentials, CreateVerification, Enqueue, LookUpToken, ConsumeToken,
                ConfirmUser, CommitConsumed, KeepConsumed, FindForgetful, CreateReset, Commit, Fault,
                Settle, Proceed, db, vars
  <2> QED
    BY <2>1, <2>2, <2>3
<1> QED
  BY <1>1, AccountsInvariance, PTL DEF Spec
=============================================================================
