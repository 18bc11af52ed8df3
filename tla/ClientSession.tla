--------------------------- MODULE ClientSession ---------------------------
(***************************************************************************)
(* The session as the web client keeps it: one tab, its localStorage, the  *)
(* event handlers that may be suspended at an await at the same time, and  *)
(* the requests they have under way.  A request answered 401 makes the     *)
(* client exchange the stored refresh token for a new pair and repeat the  *)
(* request once.                                                           *)
(*                                                                         *)
(* A step is one run of the event loop: an event, or the arrival of one    *)
(* answer, up to the next await.  What the server does for a request is a  *)
(* step of its own before the answer arrives.  Pairs of tokens are         *)
(* numbered in the order in which the server signs them; an access token   *)
(* expires, a refresh token is spent when it is exchanged (Sessions), and  *)
(* a change of the password ends every pair signed so far.                 *)
(***************************************************************************)
EXTENDS Naturals

CONSTANTS Handlers,   \* event handlers that can be suspended at once
          MaxPairs,   \* bounds the pairs signed; further requests get 429
          MaxFaults   \* bounds lost answers, refusals of good tokens, reloads

ASSUME MaxPairsAssumption == MaxPairs \in Nat \ {0}
ASSUME MaxFaultsAssumption == MaxFaults \in Nat

NoPair == 0
Pairs == 1..MaxPairs
Calls == Handlers \X {1, 2}

VARIABLES
  \* the tab
  stored,     \* the two tokens in localStorage
  ui,         \* state.token
  cards,      \* are the desks, with their buttons, on the screen?
  controls,   \* the buttons that are enabled
  op,         \* the handler run in each slot
  call,       \* the requests of each handler
  overtaken,  \* were requests under way when the tokens were last cleared?
  \* the server
  signed, spent, expired, epoch,
  faults

tab == <<stored, ui, cards, controls, op, call, overtaken>>
server == <<signed, spent, expired, epoch>>
vars == <<tab, server, faults>>

Buttons == {"submit", "logout"}   \* "submit" stands for every form and for Refresh
NoTokens == [access |-> NoPair, refresh |-> NoPair]
Both(p) == [access |-> p, refresh |-> p]

Kinds == {"startup", "login", "load", "act", "change", "form", "logout"}
Op(kind, at, p) == [kind |-> kind, at |-> at, pair |-> p]
NoOp == Op("none", "none", NoPair)

\* What a request is for: "api" stands for the endpoints behind requireAuth,
\* "form" for registration and the two recovery forms; "renew" is the exchange
\* at start-up.
Jobs == {"login", "verify", "renew", "api", "change", "form", "logout"}

\* shouldSkipAutoRefresh; POST /auth/logout is never answered 401.
SkipAutoRefresh == Jobs \ {"api", "change"}

-----------------------------------------------------------------------------
(* Requests *)

\* What the server makes of a token at this moment.
AccessGood(p) == p > epoch /\ p \notin expired
RefreshGood(p) == p > epoch /\ p \notin spent

Good(job, leg, p) ==
  IF job = "renew" \/ leg = "refresh" THEN RefreshGood(p)
  ELSE job \in {"login", "form", "logout"} \/ AccessGood(p)

\* What the client gets back: the pair signed, and whether the server acted.
Answer(status, new, ran) == [status |-> status, new |-> new, ran |-> ran]
NoAnswer == Answer("none", NoPair, FALSE)

\* A request on its way.  A token only ever turns bad, so the server, which
\* tests it at some moment before it answers, may take it for good if it was
\* good when sent, and for bad if it is bad by the time the answer is there.
Request(job, leg, p) ==
  [at |-> "sent", job |-> job, leg |-> leg, pair |-> p, good |-> Good(job, leg, p),
   answer |-> NoAnswer, ran |-> FALSE]

NoCall == [at |-> "idle", job |-> "logout", leg |-> "first", pair |-> NoPair, good |-> FALSE,
           answer |-> NoAnswer, ran |-> FALSE]

\* Of the two requests of one refreshData it does not matter which goes first
\* while they are in the same state.
Due(c) == c[2] = 1 \/ call[<<c[1], 1>>] # call[c]

\* authHeaders: the stored token goes before that of the caller.
Header(st, u) == IF st.access # NoPair THEN st.access ELSE u

-----------------------------------------------------------------------------
(* The server, as the client sees it *)

Signs(c) == call[c].job \in {"login", "renew"} \/ call[c].leg = "refresh"

Reply(c, a) ==
  call' = [call EXCEPT ![c].at = "answered", ![c].good = FALSE, ![c].answer = a]

\* Login and both kinds of exchange: the used token is spent, a pair signed.
SignPair(c, status) ==
  /\ call[c].good /\ Signs(c) /\ signed < MaxPairs
  /\ signed' = signed + 1
  /\ spent' = IF call[c].job = "login" THEN spent ELSE spent \cup {call[c].pair}
  /\ Reply(c, Answer(status, signed + 1, TRUE))
  /\ UNCHANGED <<expired, epoch>>

\* A change of the password, and a reset among the forms, ends every pair.
EndSessions(c, status) ==
  /\ call[c].good /\ call[c].job \in {"change", "form"} /\ ~Signs(c)
  /\ epoch' = signed
  /\ Reply(c, Answer(status, NoPair, TRUE))
  /\ UNCHANGED <<signed, spent, expired>>

Serve(c) ==
  /\ call[c].at = "sent" /\ Due(c)
  /\ SignPair(c, "ok") \/ EndSessions(c, "ok")
  /\ UNCHANGED <<stored, ui, cards, controls, op, overtaken, faults>>

\* The answers that leave no trace on the server may be given at any time: 401
\* for a bad token or a wrong current password; 400, 404, 409 and wrong
\* credentials; 429 when the bound on the pairs is reached.
PlainAnswers(c) ==
  {a \in {Answer("ok", NoPair, TRUE), Answer("unauthorized", NoPair, FALSE),
          Answer("refused", NoPair, FALSE)} :
     \/ /\ a.status = "ok" /\ call[c].good /\ ~Signs(c)
        /\ call[c].job \in {"verify", "api", "form", "logout"}
     \/ /\ a.status = "unauthorized"
        /\ \/ ~Good(call[c].job, call[c].leg, call[c].pair)
           \/ call[c].job = "change" /\ call[c].good /\ ~Signs(c)
     \/ a.status = "refused" /\ call[c].good /\ call[c].job # "verify" /\ ~Signs(c)
     \/ a.status = "refused" /\ call[c].job = "login"
     \/ a.status = "refused" /\ Signs(c) /\ signed = MaxPairs}

Answers(c) ==
  CASE call[c].at = "answered" -> {call[c].answer}
    [] call[c].at = "sent" -> PlainAnswers(c)
    [] OTHER -> {}

\* The endpoints that look at a token in the database: requireAuth, verify and
\* both kinds of exchange.  When the database fails them they answer 401.
Guarded(c) == call[c].job \in {"api", "change", "verify"} \/ (Signs(c) /\ call[c].job # "login")

\* What may be answered, or lost, when something fails on the way; 429 and 500
\* are refusals.  An endpoint behind requireAuth answers 401 before it acts, and
\* may have acted (its COMMIT got through) when it answers 500.
FaultAnswers(c) ==
  LET acts == call[c].good /\ call[c].job \in {"verify", "api", "form", "logout"} /\ ~Signs(c) IN
  {Answer(status, NoPair, FALSE) : status \in {"refused", "lost"}}
    \cup {Answer(status, NoPair, acts) : status \in {"refused", "lost"}}
    \cup {a \in {Answer("unauthorized", NoPair, FALSE)} : Guarded(c)}

\* The used token is recorded as spent, and then no pair is signed for it.
SpendInVain(c) ==
  /\ call[c].good /\ Signs(c) /\ call[c].job # "login"
  /\ spent' = spent \cup {call[c].pair}
  /\ \E status \in {"unauthorized", "lost"} : Reply(c, Answer(status, NoPair, FALSE))
  /\ UNCHANGED <<signed, expired, epoch>>

\* The answer is lost (fetch rejects), before or after the server acted; or the
\* server fails, before or after it acted, and says so; or a limit is reached.
Fault(c) ==
  /\ call[c].at = "sent" /\ Due(c) /\ faults < MaxFaults
  /\ faults' = faults + 1
  /\ \/ SignPair(c, "lost")
     \/ EndSessions(c, "lost") \/ EndSessions(c, "refused")
     \/ SpendInVain(c)
     \/ (\E a \in FaultAnswers(c) : Reply(c, a)) /\ UNCHANGED server
  /\ UNCHANGED <<stored, ui, cards, controls, op, overtaken>>

\* A token nobody holds any more may as well stay good.
Held(p) == p \in {ui, stored.access} \/ \E c \in Calls : p \in {call[c].pair, call[c].answer.new}

Expire(p) ==
  /\ Held(p) /\ AccessGood(p)
  /\ expired' = expired \cup {p}
  /\ UNCHANGED <<tab, signed, spent, epoch, faults>>

-----------------------------------------------------------------------------
(* The screen *)

LogoutIf(u) == IF u = NoPair THEN {} ELSE {"logout"}
Unlocked(u) == {"submit"} \cup LogoutIf(u)                   \* setLoading(false)
Painted(u) == (controls \ {"logout"}) \cup LogoutIf(u)       \* updateAuthUI

\* Mutant: no "finally": a handler that fails leaves the screen locked.
EndsOnSuccess(h, u, ok) ==
  /\ op' = [op EXCEPT ![h] = NoOp]
  /\ controls' = IF op[h].kind = "startup" \/ ~ok THEN controls ELSE Unlocked(u)

\* The handler is done; that of the start-up has no lock to give back.
Ends(h, u, ok) ==
  /\ op' = [op EXCEPT ![h] = NoOp]
  /\ controls' = IF op[h].kind = "startup" THEN controls ELSE Unlocked(u)

\* refreshData, called with call c of the handler just answered: two requests
\* at once, or nothing when nobody is logged in (any more).
RefreshData(c, st, u) ==
  LET h == c[1] IN
  IF u = NoPair THEN Ends(h, u, TRUE) /\ call' = [call EXCEPT ![c] = NoCall]
  ELSE /\ op' = [op EXCEPT ![h].at = "load"]
       /\ call' = [d \in Calls |-> IF d[1] = h THEN Request("api", "first", Header(st, u))
                                   ELSE call[d]]
       /\ controls' = IF op[h].kind \in {"login", "startup"} THEN Painted(u) ELSE controls

-----------------------------------------------------------------------------
(* Answers *)

Drop(c) == call' = [call EXCEPT ![c] = NoCall]
Resend(c, leg, p, ran) ==
  call' = [call EXCEPT ![c] = [Request(@.job, leg, p) EXCEPT !.ran = call[c].ran \/ ran]]

\* Mutant: any failure is retried, not only a 401.
MayRefreshAfterFailure(c, a) ==
  /\ call[c].leg = "first" /\ a.status # "ok"
  /\ call[c].job \notin SkipAutoRefresh
  /\ stored.refresh # NoPair

\* The first answer 401 to a request that may be repeated.
MayRefresh(c, a) ==
  /\ call[c].leg = "first" /\ a.status = "unauthorized"
  /\ call[c].job \notin SkipAutoRefresh
  /\ stored.refresh # NoPair

TryRefresh(c, a) ==
  /\ MayRefresh(c, a)
  /\ Resend(c, "refresh", stored.refresh, a.ran)
  /\ UNCHANGED <<stored, ui, cards, controls, op, overtaken>>

\* Mutant: the new refresh token is not stored.
PersistAccess(p) == stored' = [stored EXCEPT !.access = p]

PersistTokens(p) == stored' = Both(p)

\* The request is repeated, once, with the token just stored.
Retry(c, a) ==
  /\ call[c].leg = "refresh" /\ a.status = "ok"
  /\ PersistTokens(a.new)
  /\ Resend(c, "second", a.new, FALSE)
  /\ UNCHANGED <<ui, cards, controls, op, overtaken>>

\* The operation of handler c[1] has its result.  Promise.all rejects with the
\* first failure; the other request then goes on and nobody waits for it.
Conclude(c, ok) ==
  LET h == c[1]  done == \A d \in Calls : d # c /\ d[1] = h => call[d] = NoCall IN
  \/ op[h].at = "load" /\ ok /\ ~done /\ Drop(c) /\ UNCHANGED <<op, controls, cards>>
  \/ /\ op[h].at = "load" /\ (ok => done)
     /\ Drop(c) /\ Ends(h, ui, TRUE)
     /\ cards' = IF ok THEN ui # NoPair ELSE cards
  \/ op[h].at = "none" /\ Drop(c) /\ UNCHANGED <<op, controls, cards>>
  \/ op[h].kind \in {"change", "form"} /\ Drop(c) /\ Ends(h, ui, ok) /\ UNCHANGED cards
  \/ /\ op[h].kind = "act" /\ op[h].at = "post" /\ UNCHANGED cards
     /\ \/ ok /\ RefreshData(c, stored, ui)
        \/ ~ok /\ Drop(c) /\ Ends(h, ui, ok)

\* clearAuth, the tokens removed, the screen painted; a logout unlocks it too.
ClearSession(c) ==
  /\ ui' = NoPair /\ stored' = NoTokens /\ cards' = FALSE
  /\ overtaken' = (\E d \in Calls \ {c} : call[d] # NoCall)
  /\ Drop(c) /\ op' = [op EXCEPT ![c[1]] = NoOp]
  /\ controls' = IF op[c[1]].kind = "startup" THEN Painted(NoPair) ELSE Unlocked(NoPair)

SignIn(c, p, st) ==
  /\ ui' = p /\ stored' = st
  /\ RefreshData(c, st, p)
  /\ UNCHANGED <<cards, overtaken>>

LoginAnswered(c, a, ok) ==
  /\ op[c[1]].kind = "login" /\ op[c[1]].at = "post"
  /\ \/ ok /\ SignIn(c, a.new, Both(a.new))
     \/ ~ok /\ Drop(c) /\ Ends(c[1], ui, ok) /\ UNCHANGED <<ui, stored, cards, overtaken>>

\* Mutant: the refresh token stays behind.
ClearAccessOnly(c) ==
  /\ op[c[1]].kind = "logout"
  /\ ui' = NoPair /\ PersistAccess(NoPair) /\ cards' = FALSE
  /\ overtaken' = (\E d \in Calls \ {c} : call[d] # NoCall)
  /\ Drop(c) /\ Ends(c[1], NoPair, TRUE)

LogoutAnswered(c) == op[c[1]].kind = "logout" /\ ClearSession(c)

\* The page has just been loaded: the stored access token is verified; if that
\* fails the refresh token found at the start is exchanged, and the new access
\* token verified in turn.
Continue(c, at, job, p) ==
  /\ op' = [op EXCEPT ![c[1]].at = at, ![c[1]].pair = p]
  /\ call' = [call EXCEPT ![c] = Request(job, "first", p)]
  /\ UNCHANGED <<ui, cards, controls, overtaken>>

StartupAnswered(c, a, ok) ==
  LET o == op[c[1]] IN
  /\ o.kind = "startup"
  /\ \/ o.at \in {"verify", "reverify"} /\ ok /\ SignIn(c, o.pair, stored)
     \/ o.at = "verify" /\ ~ok /\ Continue(c, "renew", "renew", o.pair) /\ UNCHANGED stored
     \/ o.at = "renew" /\ ok /\ PersistTokens(a.new) /\ Continue(c, "reverify", "verify", a.new)
     \/ o.at \in {"renew", "reverify"} /\ ~ok /\ ClearSession(c)

\* Any other answer settles the request.
Settle(c, a) ==
  LET ok == a.status = "ok" IN
  /\ call[c].leg # "refresh" /\ ~MayRefresh(c, a)
  /\ \/ Conclude(c, ok) /\ UNCHANGED <<ui, stored, overtaken>>
     \/ LoginAnswered(c, a, ok)
     \/ LogoutAnswered(c)
     \/ StartupAnswered(c, a, ok)

\* Mutant: the answer of a refused exchange is stored unread, as "undefined".
RefreshFailedUnread(c, a) ==
  /\ call[c].leg = "refresh" /\ a.status # "ok"
  /\ stored' = IF a.status = "lost" THEN stored ELSE Both(MaxPairs + 1)
  /\ Conclude(c, FALSE)
  /\ UNCHANGED <<ui, overtaken>>

\* An exchange refused clears the stored tokens, whatever they are by now; one
\* whose answer is lost does not.  The request fails in either case.
RefreshFailed(c, a) ==
  /\ call[c].leg = "refresh" /\ a.status # "ok"
  /\ stored' = IF a.status = "lost" THEN stored ELSE NoTokens
  /\ Conclude(c, FALSE)
  /\ UNCHANGED <<ui, overtaken>>

Deliver(c) ==
  /\ Due(c)
  /\ \E a \in Answers(c) :
       TryRefresh(c, a) \/ Retry(c, a) \/ RefreshFailed(c, a) \/ Settle(c, a)
  /\ UNCHANGED <<server, faults>>

-----------------------------------------------------------------------------
(* The user *)

\* A slot is free when its handler is done and its requests are answered; the
\* slots are alike, so that one free slot is as good as another.
FreeSlots == {h \in Handlers : op[h] = NoOp /\ \A d \in Calls : d[1] = h => call[d] = NoCall}
Free(h) == h \in FreeSlots /\ h = (CHOOSE x \in FreeSlots : TRUE)

\* An event handler locks the screen and sends its request.
Begin(h, kind, job) ==
  /\ Free(h)
  /\ op' = [op EXCEPT ![h] = Op(kind, "post", NoPair)]
  /\ call' = [call EXCEPT ![<<h, 1>>] = Request(job, "first", Header(stored, ui))]
  /\ controls' = {}
  /\ UNCHANGED <<stored, ui, cards, overtaken, server, faults>>

Login(h) == "submit" \in controls /\ ui = NoPair /\ Begin(h, "login", "login")
SendForm(h) == "submit" \in controls /\ ui = NoPair /\ Begin(h, "form", "form")
ChangePassword(h) == "submit" \in controls /\ ui # NoPair /\ Begin(h, "change", "change")
Logout(h) == "logout" \in controls /\ Begin(h, "logout", "logout")

\* A desk's button reserves or cancels.  No lock disables it.
Act(h) == cards /\ Begin(h, "act", "api")

\* The Refresh button, and the date field, which no lock disables.  With nobody
\* logged in there is nothing to wait for and the screen is unlocked at once.
Load(h) ==
  /\ Free(h)
  /\ \/ /\ ui # NoPair /\ controls' = {}
        /\ op' = [op EXCEPT ![h] = Op("load", "load", NoPair)]
        /\ call' = [d \in Calls |-> IF d[1] = h
                                    THEN Request("api", "first", Header(stored, ui))
                                    ELSE call[d]]
     \/ ui = NoPair /\ controls' = Unlocked(ui) /\ UNCHANGED <<op, call>>
  /\ UNCHANGED <<stored, ui, cards, overtaken, server, faults>>

\* The tab is opened on what localStorage holds.
Open(st) ==
  LET h == CHOOSE x \in Handlers : TRUE IN
  [ui |-> st.access, controls |-> {"submit"} \cup LogoutIf(st.access),
   op |-> [x \in Handlers |-> IF x = h /\ st.access # NoPair
                              THEN Op("startup", "verify", st.access) ELSE NoOp],
   call |-> [d \in Calls |-> IF d = <<h, 1>> /\ st.access # NoPair
                             THEN Request("verify", "first", st.access) ELSE NoCall]]

\* The page is loaded again, and what was under way forgotten.
Reload ==
  /\ faults < MaxFaults
  /\ faults' = faults + 1
  /\ LET o == Open(stored) IN
     ui' = o.ui /\ controls' = o.controls /\ op' = o.op /\ call' = o.call
  /\ cards' = FALSE /\ overtaken' = FALSE
  /\ UNCHANGED <<stored, server>>

Init ==
  /\ signed = 1 /\ spent = {} /\ expired = {} /\ epoch = 0 /\ faults = 0
  /\ stored \in {NoTokens, Both(1)}
  /\ cards = FALSE /\ overtaken = FALSE
  /\ LET o == Open(stored) IN
     ui = o.ui /\ controls = o.controls /\ op = o.op /\ call = o.call

-----------------------------------------------------------------------------
Event(h) ==
  Login(h) \/ SendForm(h) \/ ChangePassword(h) \/ Logout(h) \/ Act(h) \/ Load(h)

Next ==
  \/ \E h \in Handlers : Event(h)
  \/ \E c \in Calls : Serve(c) \/ Deliver(c) \/ Fault(c)
  \/ \E p \in Pairs : Expire(p)
  \/ Reload

Spec == Init /\ [][Next]_vars

-----------------------------------------------------------------------------
(* Properties *)

CallType ==
  [at : {"idle", "sent", "answered"}, job : Jobs, leg : {"first", "refresh", "second"},
   pair : 0..MaxPairs, good : BOOLEAN, ran : BOOLEAN,
   answer : [status : {"none", "ok", "unauthorized", "refused", "lost"},
             new : 0..MaxPairs, ran : BOOLEAN]]

OpType ==
  [kind : Kinds, at : {"post", "load", "verify", "renew", "reverify"}, pair : 0..MaxPairs]

TypeOK ==
  /\ stored \in [access : 0..signed, refresh : 0..signed]
  /\ ui \in 0..signed
  /\ controls \subseteq Buttons
  /\ cards \in BOOLEAN /\ overtaken \in BOOLEAN
  /\ op \in [Handlers -> OpType \cup {NoOp}]
  /\ call \in [Calls -> CallType]
  /\ signed \in Pairs /\ epoch \in 0..signed
  /\ spent \subseteq 1..signed /\ expired \subseteq 1..signed
  /\ faults \in 0..MaxFaults

\* The stored tokens are always a pair the server signed together, and their
\* refresh token is spent only while the answer with its successor is still on
\* its way: the client never settles on a token it has already exchanged.
StoredPairUsable ==
  /\ stored.access = stored.refresh
  /\ stored.refresh \in spent /\ faults = 0
       => \E c \in Calls : call[c].pair = stored.refresh /\ call[c].answer.new # NoPair

\* A request the server has carried out is never sent again: with renewal and
\* retry, a reservation, cancellation or password change asked for once happens
\* once at most, answers lost or not.
CarriedOutOnce == \A c \in Calls : call[c].leg = "second" => ~call[c].ran

\* After a logout, or a session that could not be restored, no token comes back
\* into localStorage while the screen shows nobody logged in, unless a request
\* of that session was still under way.
LogoutIsClean == ui = NoPair /\ stored # NoTokens => overtaken

\* The lock of the screen is always somebody's: while the buttons are disabled a
\* handler is under way that will enable them, however its requests end.
LockIsHeld == "submit" \notin controls => \E h \in Handlers : op[h].kind \notin {"none", "startup"}

\* "Modo normal: renovacion automatica de sesion": with no fault and no change
\* of the password, a tab that shows a session and waits for nothing holds a
\* refresh token with which the session can be renewed.
SessionRenewable ==
  LET settled == ui # NoPair /\ \A c \in Calls : call[c] = NoCall
      calm == faults = 0 /\ epoch = 0 /\ signed < MaxPairs
  IN settled /\ calm => RefreshGood(stored.refresh)
=============================================================================
