------------------------ MODULE ClientSessionProofs ------------------------
(***************************************************************************)
(* The tokens the web client stores, the lock of its screen and its        *)
(* retries, for any number of suspended handlers, pairs and faults.        *)
(* ClientInv says which requests each handler waits for, and that a pair   *)
(* signed by the server is nobody's until its answer arrives: that is why  *)
(* a refresh token just stored cannot have been spent.                     *)
(***************************************************************************)
EXTENDS ClientSession, TLAPS

Legs == {"first", "refresh", "second"}
Known == 0..signed

CallRecord ==
  [at : {"idle", "sent", "answered"}, job : Jobs, leg : Legs, pair : Known,
   good : BOOLEAN, answer : [status : {"none", "ok", "unauthorized", "refused", "lost"},
                             new : Known, ran : BOOLEAN], ran : BOOLEAN]

OpRecord ==
  [kind : Kinds \cup {"none"}, at : {"none", "post", "load", "verify", "renew", "reverify"},
   pair : Known]

Types ==
  /\ stored \in [access : Known, refresh : Known] /\ ui \in Known
  /\ controls \subseteq Buttons /\ cards \in BOOLEAN /\ overtaken \in BOOLEAN
  /\ op \in [Handlers -> OpRecord]
  /\ call \in [Calls -> CallRecord]
  /\ signed \in Pairs /\ epoch \in Known
  /\ spent \subseteq 1..signed /\ expired \subseteq 1..signed
  /\ faults \in 0..MaxFaults

\* A request, whatever the faults so far: nothing stands for no request, only a
\* request that may be repeated is, and only one that is signed for brings a pair.
Fits(r) ==
  LET signs == r.job \in {"login", "renew"} \/ r.leg = "refresh" IN
  /\ r \in CallRecord /\ ~r.ran
  /\ r.at = "idle" => r = NoCall
  /\ r.at # "answered" => r.answer = NoAnswer
  /\ r.at = "answered" => r.answer.status \in {"ok", "unauthorized", "refused", "lost"}
  /\ r.at = "answered" /\ r.answer.status = "unauthorized" => ~r.answer.ran
  /\ r.leg # "first" => r.job \in {"api", "change"}
  /\ r.answer.new # NoPair => signs
  /\ r.at = "answered" /\ signs /\ r.answer.status = "ok" => r.answer.new # NoPair
  /\ r.good /\ signs /\ r.job # "login" => r.pair # NoPair

CallInv(c) ==
  /\ Fits(call[c])
  /\ call[c].at = "answered" /\ faults = 0 => call[c].answer.status = "ok"

\* What the handlers that wait for one answer wait for.
JobOf(kind) == IF kind = "act" THEN "api" ELSE kind

Idle(h, i) == call[<<h, i>>] = NoCall

\* A handler and its requests.
SlotInv(h) ==
  /\ op[h].kind = "none" <=> op[h] = NoOp
  /\ op[h].at = "none" <=> op[h] = NoOp
  /\ op[h].at \in {"none", "load"} =>
       /\ Idle(h, 1) \/ call[<<h, 1>>].job = "api"
       /\ Idle(h, 2) \/ call[<<h, 2>>].job = "api"
  /\ op[h].at = "load" => op[h].kind \in {"login", "startup", "act", "load"}
  /\ op[h].at \notin {"none", "load"} => Idle(h, 2)
  /\ op[h].at = "post" =>
       /\ op[h].kind \in {"login", "form", "change", "logout", "act"}
       /\ call[<<h, 1>>].job = JobOf(op[h].kind)
  /\ op[h].at \in {"verify", "reverify"} =>
       op[h].kind = "startup" /\ call[<<h, 1>>].job = "verify"
  /\ op[h].at = "renew" => op[h].kind = "startup" /\ call[<<h, 1>>].job = "renew"
  /\ op[h].kind = "startup" => op[h].pair # NoPair

\* The pairs the tab has received so far.
Seen(p) ==
  \/ p \in {ui, stored.access, stored.refresh}
  \/ \E h \in Handlers : op[h].pair = p
  \/ \E d \in Calls : call[d].pair = p

\* A pair whose answer has not arrived is in nobody's hands.
FreshInv(c) ==
  LET n == call[c].answer.new IN
  n # NoPair => n \notin spent /\ ~Seen(n) /\ \A d \in Calls \ {c} : call[d].answer.new # n

\* With nobody logged in and nothing left over, no request can bring tokens.
QuietInv ==
  /\ cards => ui # NoPair
  /\ ui = NoPair /\ ~overtaken =>
       stored = NoTokens /\ \A c \in Calls : call[c].job \in {"login", "form", "logout"}

ClientInv ==
  /\ Types
  /\ \A c \in Calls : CallInv(c)
  /\ \A c \in Calls : FreshInv(c)
  /\ \A h \in Handlers : SlotInv(h)
  /\ QuietInv
  /\ StoredPairUsable
  /\ LockIsHeld

-----------------------------------------------------------------------------
(* Records and requests *)

LEMMA CallParts ==
  ASSUME NEW c \in Calls
  PROVE  /\ c[1] \in Handlers /\ c[2] \in {1, 2}
         /\ c = <<c[1], c[2]>> /\ (c = <<c[1], 1>> \/ c = <<c[1], 2>>)
BY DEF Calls

LEMMA SlotCalls ==
  ASSUME NEW h \in Handlers
  PROVE  /\ <<h, 1>> \in Calls /\ <<h, 2>> \in Calls
         /\ <<h, 1>> # <<h, 2>> /\ <<h, 1>>[1] = h /\ <<h, 2>>[1] = h
BY DEF Calls

LEMMA GoodIsBoolean ==
  ASSUME NEW job, NEW leg, NEW p
  PROVE  Good(job, leg, p) \in BOOLEAN
BY DEF Good, RefreshGood, AccessGood

LEMMA GoodIsSome ==
  ASSUME Types, NEW job, NEW leg, NEW p \in Known,
         job = "renew" \/ leg = "refresh", Good(job, leg, p)
  PROVE  p # NoPair
BY DEF Good, RefreshGood, Types, Known, NoPair, Pairs

LEMMA RequestFits ==
  ASSUME Types, NEW job \in Jobs, NEW leg \in Legs, NEW p \in Known,
         leg # "first" => job \in {"api", "change"}
  PROVE  /\ Fits(Request(job, leg, p))
         /\ Request(job, leg, p).job = job /\ Request(job, leg, p).pair = p
         /\ Request(job, leg, p).leg = leg
         /\ Request(job, leg, p).answer = NoAnswer /\ Request(job, leg, p).at = "sent"
<1> DEFINE r == Request(job, leg, p)
<1>1. /\ r.at = "sent" /\ r.job = job /\ r.leg = leg /\ r.pair = p /\ r.good = Good(job, leg, p)
      /\ r.answer = NoAnswer /\ r.ran = FALSE
  BY DEF Request
<1>2. NoAnswer \in [status : {"none", "ok", "unauthorized", "refused", "lost"},
                    new : Known, ran : BOOLEAN] /\ NoAnswer.new = NoPair
  BY DEF NoAnswer, Answer, Known, NoPair, Types, Pairs
<1>3. r \in CallRecord
  BY <1>2, GoodIsBoolean DEF CallRecord, Request
<1>4. (r.job = "renew" \/ r.leg = "refresh") /\ r.good => r.pair # NoPair
  BY <1>1, GoodIsSome
<1> HIDE DEF r
<1>5. Fits(r)
  BY <1>1, <1>2, <1>3, <1>4 DEF Fits
<1> QED
  BY <1>1, <1>5 DEF r

LEMMA NoCallFits ==
  ASSUME Types
  PROVE  /\ Fits(NoCall) /\ NoCall.job = "logout" /\ NoCall.pair = NoPair
         /\ NoCall.answer = NoAnswer /\ NoCall.at = "idle" /\ NoCall.leg = "first"
<1>1. NoAnswer \in [status : {"none", "ok", "unauthorized", "refused", "lost"},
                    new : Known, ran : BOOLEAN] /\ NoAnswer.new = NoPair
  BY DEF NoAnswer, Answer, Known, NoPair, Types, Pairs
<1>2. NoCall \in CallRecord
  BY <1>1 DEF NoCall, CallRecord, Jobs, Legs, Known, NoPair, Types, Pairs
<1> QED
  BY <1>1, <1>2 DEF NoCall, Fits

LEMMA NoAnswerNew == NoAnswer.new = NoPair /\ NoAnswer.ran = FALSE /\ NoAnswer.status = "none"
BY DEF NoAnswer, Answer

-----------------------------------------------------------------------------
(* A run of the event loop: the records of some requests are replaced. *)

CallsTo(U, r) == call' = [d \in Calls |-> IF d \in U THEN r ELSE call[d]]

LEMMA OneCallTo ==
  ASSUME Types, NEW c \in Calls, NEW r, call' = [call EXCEPT ![c] = r]
  PROVE  CallsTo({c}, r)
BY DEF CallsTo, Types

LEMMA CallsAfter ==
  ASSUME NEW U, NEW r, CallsTo(U, r), NEW d \in Calls
  PROVE  (d \in U => call'[d] = r) /\ (d \notin U => call'[d] = call[d])
BY DEF CallsTo

\* A pair the tab knows, or the one that has just arrived.
Old(p, k) == p = NoPair \/ p = k \/ Seen(p)

LEMMA FitsGrows ==
  ASSUME Types, signed' \in Nat, signed' >= signed, NEW r, Fits(r)
  PROVE  Fits(r)'
<1>1. signed \in Nat
  BY DEF Types, Pairs
<1>2. Known \subseteq Known'
  BY <1>1 DEF Known
<1>3. r \in CallRecord => r \in CallRecord'
  BY <1>2 DEF CallRecord
<1> QED
  BY <1>3 DEF Fits

\* What one run of the event loop may do with the tokens: store, show and send
\* pairs the tab has already seen, or the one in the answer just delivered.
LEMMA LoopStep ==
  ASSUME ClientInv, NEW U \in SUBSET Calls, NEW r, NEW k \in Known,
         UNCHANGED <<server, faults>>,
         CallsTo(U, r), Fits(r), r.answer = NoAnswer, Old(r.pair, k),
         k # NoPair => \E c \in U : call[c].answer.new = k,
         stored' \in [access : Known, refresh : Known], ui' \in Known,
         controls' \subseteq Buttons, cards' \in BOOLEAN, overtaken' \in BOOLEAN,
         op' \in [Handlers -> OpRecord],
         Old(ui', k), Old(stored'.refresh, k), stored'.access = stored'.refresh,
         \A g \in Handlers : Old(op'[g].pair, k),
         \A g \in Handlers : SlotInv(g)',
         QuietInv', LockIsHeld',
         faults = 0 => \/ stored'.refresh \notin spent
                       \/ stored' = stored /\ \A d \in U : call[d].answer.new = NoPair
  PROVE  ClientInv'
<1>0. /\ signed' = signed /\ spent' = spent /\ expired' = expired /\ epoch' = epoch
      /\ faults' = faults
  BY DEF server
<1>1. Types
  BY DEF ClientInv
<1>2. Known' = Known /\ CallRecord' = CallRecord /\ OpRecord' = OpRecord
  BY <1>0 DEF Known, CallRecord, OpRecord
<1>3. \A d \in Calls : Fits(call'[d])
  <2>1. \A d \in Calls : Fits(call[d])
    BY DEF ClientInv, CallInv
  <2> QED
    BY <2>1, CallsAfter
<1>4. Types'
  <2>1. call' \in [Calls -> CallRecord]
    BY <1>3 DEF CallsTo, Fits
  <2> QED
    BY <1>0, <1>1, <1>2, <2>1 DEF Types
<1>5. \A d \in Calls : CallInv(d)'
  <2> SUFFICES ASSUME NEW d \in Calls PROVE CallInv(d)'
    OBVIOUS
  <2>1. Fits(call[d])'
    <3>1. signed' \in Nat /\ signed' >= signed
      BY <1>0, <1>1 DEF Types, Pairs
    <3> QED
      BY <1>0, <1>2, <1>3 DEF Fits
  <2>2. r.at # "answered" \/ r.answer.status = "ok"
    BY NoAnswerNew DEF Fits
  <2>3. call'[d].at = "answered" /\ faults' = 0 => call'[d].answer.status = "ok"
    BY <1>0, <2>2, CallsAfter DEF ClientInv, CallInv
  <2> QED
    BY <2>1, <2>3 DEF CallInv
<1>6. \A d \in Calls : FreshInv(d)'
  <2> SUFFICES ASSUME NEW d \in Calls, call'[d].answer.new # NoPair PROVE FreshInv(d)'
    BY DEF FreshInv
  <2> DEFINE n == call[d].answer.new
  <2>1. d \notin U /\ call'[d] = call[d] /\ n # NoPair
    BY CallsAfter, NoAnswerNew
  <2>2. n \notin spent /\ ~Seen(n) /\ \A e \in Calls \ {d} : call[e].answer.new # n
    BY <2>1 DEF ClientInv, FreshInv
  <2>3. n # k
    BY <2>1, <2>2
  <2> HIDE DEF n
  <2>4. ~Old(n, k)
    BY <2>1, <2>2, <2>3 DEF Old, n
  <2>5. \A e \in Calls : call'[e].pair # n
    <3>1. \A e \in Calls : call[e].pair # n
      BY <2>2 DEF Seen
    <3> QED
      BY <3>1, <2>4, CallsAfter
  <2>6. \A e \in Calls \ {d} : call'[e].answer.new # n
    BY <2>1, <2>2, CallsAfter, NoAnswerNew DEF n
  <2>7. n \notin {ui', stored'.access, stored'.refresh} /\ \A g \in Handlers : op'[g].pair # n
    BY <2>4
  <2>8. call'[d].answer.new = n
    BY <2>1 DEF n
  <2> QED
    BY <1>0, <2>2, <2>5, <2>6, <2>7, <2>8 DEF FreshInv, Seen
<1>7. StoredPairUsable'
  <2> SUFFICES ASSUME stored'.refresh \in spent, faults = 0
               PROVE  \E c \in Calls : call'[c].pair = stored'.refresh
                                       /\ call'[c].answer.new # NoPair
    BY <1>0 DEF StoredPairUsable
  <2>1. PICK w \in Calls : call[w].pair = stored.refresh /\ call[w].answer.new # NoPair
    BY DEF ClientInv, StoredPairUsable
  <2> QED
    BY <2>1, CallsAfter
<1> QED
  BY <1>4, <1>5, <1>6, <1>7 DEF ClientInv

-----------------------------------------------------------------------------
(* A handler and its requests, after a run of the event loop *)

SlotOf(h) == {d \in Calls : d[1] = h}

LEMMA SlotOfCalls ==
  ASSUME NEW h \in Handlers
  PROVE  /\ SlotOf(h) \subseteq Calls /\ <<h, 1>> \in SlotOf(h) /\ <<h, 2>> \in SlotOf(h)
         /\ \A g \in Handlers \ {h} : <<g, 1>> \notin SlotOf(h) /\ <<g, 2>> \notin SlotOf(h)
         /\ \A c \in Calls : c[1] = h => c \in SlotOf(h) /\ c \in {<<h, 1>>, <<h, 2>>}
<1>1. SlotOf(h) \subseteq Calls /\ <<h, 1>> \in SlotOf(h) /\ <<h, 2>> \in SlotOf(h)
  BY SlotCalls DEF SlotOf
<1>2. \A g \in Handlers \ {h} : <<g, 1>> \notin SlotOf(h) /\ <<g, 2>> \notin SlotOf(h)
  BY SlotCalls DEF SlotOf
<1>3. \A c \in Calls : c[1] = h => c \in SlotOf(h) /\ c \in {<<h, 1>>, <<h, 2>>}
  BY CallParts DEF SlotOf
<1> QED
  BY <1>1, <1>2, <1>3

\* The other handlers, and their requests, are left alone.
LEMMA OtherSlots ==
  ASSUME ClientInv, NEW h \in Handlers, NEW U \in SUBSET SlotOf(h), NEW r, CallsTo(U, r),
         \A g \in Handlers \ {h} : op'[g] = op[g],
         SlotInv(h)'
  PROVE  \A g \in Handlers : SlotInv(g)'
<1> SUFFICES ASSUME NEW g \in Handlers, g # h PROVE SlotInv(g)'
  OBVIOUS
<1>1. <<g, 1>> \notin U /\ <<g, 2>> \notin U
  BY SlotOfCalls
<1>2. call'[<<g, 1>>] = call[<<g, 1>>] /\ call'[<<g, 2>>] = call[<<g, 2>>]
  BY <1>1, SlotCalls, CallsAfter
<1> QED
  BY <1>2 DEF ClientInv, SlotInv, Idle

\* Only the first request of a handler that is not loading gets an answer.
LEMMA FirstAnswered ==
  ASSUME ClientInv, NEW c \in Calls, call[c].at # "idle"
  PROVE  /\ op[c[1]].at \notin {"none", "load"} => c = <<c[1], 1>>
         /\ op[c[1]].at \in {"none", "load"} => call[c].job = "api"
         /\ c[1] \in Handlers /\ SlotInv(c[1])
         /\ c \in SlotOf(c[1]) /\ {c} \in SUBSET SlotOf(c[1])
<1>1. c[1] \in Handlers /\ (c = <<c[1], 1>> \/ c = <<c[1], 2>>)
  BY CallParts
<1>2. call[c] # NoCall
  BY DEF NoCall
<1>3. SlotInv(c[1])
  BY <1>1 DEF ClientInv
<1> QED
  BY <1>1, <1>2, <1>3, SlotOfCalls DEF SlotInv, Idle

LEMMA SlotCallsAfter ==
  ASSUME NEW h \in Handlers, NEW c \in Calls, c[1] = h, NEW r, CallsTo({c}, r)
  PROVE  /\ c = <<h, 1>> => call'[<<h, 1>>] = r /\ call'[<<h, 2>>] = call[<<h, 2>>]
         /\ c = <<h, 2>> => call'[<<h, 2>>] = r /\ call'[<<h, 1>>] = call[<<h, 1>>]
         /\ c = <<h, 1>> \/ c = <<h, 2>>
BY CallParts, SlotCalls, CallsAfter

LEMMA NoOpRecord ==
  ASSUME Types
  PROVE  NoOp \in OpRecord /\ NoOp.kind = "none" /\ NoOp.at = "none" /\ NoOp.pair = NoPair
BY DEF Types, NoOp, Op, OpRecord, Kinds, NoPair, Known, Pairs

\* One of the requests is over, and the handler with it or not.
LEMMA SlotDropped ==
  ASSUME ClientInv, NEW c \in Calls, call[c].at # "idle", CallsTo({c}, NoCall),
         op' = op, op[c[1]].at \in {"none", "load"}
  PROVE  \A g \in Handlers : SlotInv(g)'
<1> DEFINE h == c[1]
<1>1. h \in Handlers /\ SlotInv(h) /\ {c} \in SUBSET SlotOf(h)
  BY FirstAnswered
<1>2. SlotInv(h)'
  BY <1>1, SlotCallsAfter DEF SlotInv, Idle
<1> QED
  BY <1>1, <1>2, OtherSlots

LEMMA SlotEnded ==
  ASSUME ClientInv, NEW c \in Calls, call[c].at # "idle", CallsTo({c}, NoCall),
         op' = [op EXCEPT ![c[1]] = NoOp]
  PROVE  \A g \in Handlers : SlotInv(g)'
<1> DEFINE h == c[1]
<1>1. h \in Handlers /\ SlotInv(h) /\ {c} \in SUBSET SlotOf(h)
  BY FirstAnswered
<1>2. op'[h] = NoOp /\ \A g \in Handlers \ {h} : op'[g] = op[g]
  BY <1>1 DEF ClientInv, Types
<1>3. /\ Idle(h, 1)' \/ call'[<<h, 1>>].job = "api"
      /\ Idle(h, 2)' \/ call'[<<h, 2>>].job = "api"
  BY <1>1, FirstAnswered, SlotCallsAfter DEF SlotInv, Idle
<1>4. SlotInv(h)'
  BY <1>2, <1>3, NoOpRecord DEF SlotInv, ClientInv
<1> QED
  BY <1>1, <1>2, <1>4, OtherSlots

\* The request is sent again, or exchanged for a renewal.
LEMMA SlotResent ==
  ASSUME ClientInv, NEW c \in Calls, call[c].at # "idle", NEW r, CallsTo({c}, r),
         op' = op, r.job = call[c].job
  PROVE  \A g \in Handlers : SlotInv(g)'
<1> DEFINE h == c[1]
<1>1. h \in Handlers /\ SlotInv(h) /\ {c} \in SUBSET SlotOf(h)
  BY FirstAnswered
<1>2. SlotInv(h)'
  <2>1. CASE c = <<h, 1>>
    <3>1. call'[<<h, 1>>] = r /\ call'[<<h, 2>>] = call[<<h, 2>>]
      BY <1>1, <2>1, SlotCallsAfter
    <3>2. op[h].at \in {"none", "load"} => r.job = "api"
      BY FirstAnswered
    <3> QED
      BY <1>1, <2>1, <3>1, <3>2 DEF SlotInv, Idle
  <2>2. CASE c = <<h, 2>>
    <3>1. call'[<<h, 2>>] = r /\ call'[<<h, 1>>] = call[<<h, 1>>]
      BY <1>1, <2>2, SlotCallsAfter
    <3>2. op[h].at \in {"none", "load"} /\ r.job = "api"
      BY <1>1, <2>2, FirstAnswered, SlotCalls
    <3> QED
      BY <1>1, <3>1, <3>2 DEF SlotInv, Idle
  <2> QED
    BY <1>1, <2>1, <2>2, SlotCallsAfter
<1> QED
  BY <1>1, <1>2, OtherSlots

\* Both requests of a loading handler are sent.
LEMMA SlotLoading ==
  ASSUME ClientInv, NEW h \in Handlers, NEW r, CallsTo(SlotOf(h), r), r.job = "api",
         op'[h].at = "load", op'[h].kind \in {"login", "startup", "act", "load"},
         op'[h].kind = "startup" => op'[h].pair # NoPair,
         \A g \in Handlers \ {h} : op'[g] = op[g]
  PROVE  \A g \in Handlers : SlotInv(g)'
<1>1. call'[<<h, 1>>] = r /\ call'[<<h, 2>>] = r
  BY SlotCalls, SlotOfCalls, CallsAfter
<1>2. op'[h] # NoOp
  BY NoOpRecord DEF ClientInv
<1>3. SlotInv(h)'
  BY <1>1, <1>2 DEF SlotInv, Idle
<1> QED
  BY <1>3, OtherSlots

\* The start-up goes on with its next request.
LEMMA SlotContinued ==
  ASSUME ClientInv, NEW h \in Handlers, NEW r, CallsTo({<<h, 1>>}, r),
         op[h].at \notin {"none", "load"},
         op'[h].kind = "startup", op'[h].pair # NoPair,
         \/ op'[h].at = "renew" /\ r.job = "renew"
         \/ op'[h].at = "reverify" /\ r.job = "verify",
         \A g \in Handlers \ {h} : op'[g] = op[g]
  PROVE  \A g \in Handlers : SlotInv(g)'
<1>1. call'[<<h, 1>>] = r /\ call'[<<h, 2>>] = call[<<h, 2>>] /\ SlotInv(h)
  BY SlotCalls, CallsAfter DEF ClientInv
<1>2. op'[h] # NoOp
  BY NoOpRecord DEF ClientInv
<1>3. SlotInv(h)'
  BY <1>1, <1>2 DEF SlotInv, Idle
<1>4. {<<h, 1>>} \in SUBSET SlotOf(h)
  BY SlotOfCalls
<1> QED
  BY <1>3, <1>4, OtherSlots

\* An event handler starts in a free slot.
LEMMA SlotBegun ==
  ASSUME ClientInv, NEW h \in Handlers, NEW r, CallsTo({<<h, 1>>}, r), Idle(h, 2),
         op'[h].kind \in {"login", "form", "change", "logout", "act"},
         op'[h].at = "post", r.job = JobOf(op'[h].kind),
         \A g \in Handlers \ {h} : op'[g] = op[g]
  PROVE  \A g \in Handlers : SlotInv(g)'
<1>1. call'[<<h, 1>>] = r /\ call'[<<h, 2>>] = call[<<h, 2>>]
  BY SlotCalls, CallsAfter
<1>2. op'[h] # NoOp
  BY NoOpRecord DEF ClientInv
<1>3. SlotInv(h)'
  BY <1>1, <1>2 DEF SlotInv, Idle
<1>4. {<<h, 1>>} \in SUBSET SlotOf(h)
  BY SlotOfCalls
<1> QED
  BY <1>3, <1>4, OtherSlots

\* The lock of the screen stays somebody's while no handler but the start-up's
\* ends, and when one does that unlocks it.
LEMMA LockKept ==
  ASSUME LockIsHeld,
         "submit" \in controls => "submit" \in controls',
         \A g \in Handlers : op'[g].kind = op[g].kind \/ op[g].kind \in {"none", "startup"}
  PROVE  LockIsHeld'
BY DEF LockIsHeld

-----------------------------------------------------------------------------
(* An answer arrives. *)

AnswerRecord == [status : {"none", "ok", "unauthorized", "refused", "lost"},
                 new : Known, ran : BOOLEAN]

\* What the client may find in an answer to request c.
Arrives(c, a) ==
  /\ call[c].at # "idle"
  /\ a \in AnswerRecord
  /\ a.new = call[c].answer.new
  /\ a.new # NoPair => Signs(c)
  /\ a.status = "unauthorized" => ~a.ran
  /\ Signs(c) /\ a.status = "ok" => a.new # NoPair
  /\ faults = 0 => a.status # "lost" /\ (a.new # NoPair => a.status = "ok")

LEMMA AnswersArrive ==
  ASSUME ClientInv, NEW c \in Calls, NEW a \in Answers(c)
  PROVE  Arrives(c, a)
<1>1. Fits(call[c]) /\ CallInv(c)
  BY DEF ClientInv, CallInv
<1>2. call[c].answer \in AnswerRecord /\ call[c].at \in {"idle", "sent", "answered"}
  BY <1>1 DEF Fits, CallRecord, AnswerRecord
<1>3. CASE call[c].at = "answered"
  <2>1. a = call[c].answer
    BY <1>3 DEF Answers
  <2> QED
    BY <1>1, <1>2, <1>3, <2>1 DEF Arrives, CallInv, Fits, Signs
<1>4. CASE call[c].at = "sent"
  <2>1. a \in PlainAnswers(c) /\ call[c].answer.new = NoPair
    BY <1>1, <1>4, NoAnswerNew DEF Answers, Fits
  <2>2. /\ a \in {Answer("ok", NoPair, TRUE), Answer("unauthorized", NoPair, FALSE),
                  Answer("refused", NoPair, FALSE)}
        /\ a.status = "ok" => ~Signs(c)
    BY <2>1 DEF PlainAnswers, Answer
  <2>3. NoPair \in Known
    BY DEF ClientInv, Types, Known, NoPair, Pairs
  <2>4. /\ a \in AnswerRecord /\ a.new = NoPair /\ a.status # "lost"
        /\ a.status = "unauthorized" => ~a.ran
    <3>1. CASE a = Answer("ok", NoPair, TRUE)
      BY <3>1, <2>3 DEF Answer, AnswerRecord
    <3>2. CASE a = Answer("unauthorized", NoPair, FALSE)
      BY <3>2, <2>3 DEF Answer, AnswerRecord
    <3>3. CASE a = Answer("refused", NoPair, FALSE)
      BY <3>3, <2>3 DEF Answer, AnswerRecord
    <3> QED
      BY <2>2, <3>1, <3>2, <3>3
  <2> QED
    BY <1>4, <2>1, <2>2, <2>4 DEF Arrives
<1>5. CASE call[c].at = "idle"
  BY <1>5 DEF Answers
<1> QED
  BY <1>2, <1>3, <1>4, <1>5

\* The request answered is gone, whatever else the run of the event loop does:
\* what is left to show for LoopStep.
LEMMA DeliverStep ==
  ASSUME ClientInv, NEW c \in Calls, NEW a, Arrives(c, a),
         NEW U \in SUBSET Calls, NEW r, c \in U, \A d \in U \ {c} : call[d] = NoCall,
         UNCHANGED <<server, faults>>,
         CallsTo(U, r), Fits(r), r.answer = NoAnswer, Old(r.pair, a.new),
         \/ stored' = NoTokens
         \/ stored' = Both(a.new) /\ Signs(c) /\ a.status = "ok"
         \/ stored' = stored /\ (Signs(c) => a.status # "ok"),
         Old(ui', a.new),
         controls' \subseteq Buttons, cards' \in BOOLEAN, overtaken' \in BOOLEAN,
         op' \in [Handlers -> OpRecord],
         \A g \in Handlers : Old(op'[g].pair, a.new),
         \A g \in Handlers : SlotInv(g)',
         QuietInv', LockIsHeld'
  PROVE  ClientInv'
<1> DEFINE k == a.new
<1>1. Types /\ StoredPairUsable
  BY DEF ClientInv
<1>2. k \in Known /\ k = call[c].answer.new /\ (k # NoPair => Signs(c))
  BY DEF Arrives, AnswerRecord
<1>3. NoPair \in Known /\ NoPair \notin spent
  BY <1>1 DEF Types, Known, NoPair, Pairs
<1>4. stored'.access = stored'.refresh /\ stored'.refresh \in {stored.refresh, NoPair, k}
  BY <1>1 DEF StoredPairUsable, NoTokens, Both
<1>5. Old(stored'.refresh, k)
  BY <1>4 DEF Old, Seen
<1>6. stored' \in [access : Known, refresh : Known]
  BY <1>1, <1>2, <1>3 DEF Types, NoTokens, Both
<1>7. ui' \in Known
  <2>1. \A p : Seen(p) => p \in Known
    BY <1>1, CallParts DEF Seen, Types, OpRecord, CallRecord
  <2> QED
    BY <1>2, <1>3, <2>1 DEF Old
<1>8. faults = 0 => \/ stored'.refresh \notin spent
                    \/ stored' = stored /\ \A d \in U : call[d].answer.new = NoPair
  <2> SUFFICES ASSUME faults = 0, stored'.refresh \in spent
               PROVE  stored' = stored /\ \A d \in U : call[d].answer.new = NoPair
    OBVIOUS
  <2>1. k # NoPair => k \notin spent
    BY <1>2 DEF ClientInv, FreshInv
  <2>2. stored' # NoTokens
    BY <1>3 DEF NoTokens
  <2>3. stored' # Both(k)
    BY <1>3, <2>1 DEF Both
  <2>4. stored' = stored /\ (Signs(c) => a.status # "ok")
    BY <2>2, <2>3
  <2>5. k = NoPair
    BY <1>2, <2>4 DEF Arrives
  <2>6. \A d \in U \ {c} : call[d].answer.new = NoPair
    BY NoCallFits, <1>1, NoAnswerNew
  <2> QED
    BY <1>2, <2>4, <2>5, <2>6
<1>9. k # NoPair => \E d \in U : call[d].answer.new = k
  BY <1>2
<1> HIDE DEF k
<1> QED
  BY <1>2, <1>4, <1>5, <1>6, <1>7, <1>8, <1>9, LoopStep DEF k

LEMMA OldIsKnown ==
  ASSUME Types, NEW k \in Known, NEW p, Old(p, k)
  PROVE  p \in Known
<1>1. \A q : Seen(q) => q \in Known
  BY CallParts DEF Seen, Types, OpRecord, CallRecord
<1>2. NoPair \in Known
  BY DEF Types, Known, NoPair, Pairs
<1> QED
  BY <1>1, <1>2 DEF Old

LEMMA HeaderIsOld ==
  ASSUME NEW k, NEW st, NEW u, Old(st.access, k), Old(u, k)
  PROVE  Old(Header(st, u), k)
BY DEF Header

LEMMA OpsAreOld ==
  ASSUME NEW k, NEW g \in Handlers
  PROVE  Old(op[g].pair, k)
BY DEF Old, Seen

LEMMA TabIsOld ==
  ASSUME NEW k
  PROVE  /\ Old(ui, k) /\ Old(stored.access, k) /\ Old(stored.refresh, k)
         /\ Old(NoPair, k) /\ Old(k, k)
BY DEF Old, Seen

LEMMA QuietKept ==
  ASSUME ClientInv, NEW U \in SUBSET Calls, NEW r, CallsTo(U, r),
         ui' = ui, overtaken' = overtaken, cards' => cards \/ ui # NoPair,
         ui = NoPair /\ ~overtaken =>
           stored' \in {stored, NoTokens} /\ r.job \in {"login", "form", "logout"}
  PROVE  QuietInv'
<1>1. QuietInv
  BY DEF ClientInv
<1>2. \A d \in Calls : call'[d] = r \/ call'[d] = call[d]
  BY CallsAfter
<1> QED
  BY <1>1, <1>2 DEF QuietInv

\* A handler is over: that of the start-up may paint, any other unlocks the screen.
LEMMA OverEffect ==
  ASSUME ClientInv, NEW c \in Calls, call[c].at # "idle", NEW u, NEW k,
         Drop(c), op' = [op EXCEPT ![c[1]] = NoOp],
         op[c[1]].kind = "startup" => controls' \in {controls, Painted(u)},
         op[c[1]].kind # "startup" => controls' = Unlocked(u)
  PROVE  /\ CallsTo({c}, NoCall) /\ controls' \subseteq Buttons
         /\ op' \in [Handlers -> OpRecord]
         /\ \A g \in Handlers : Old(op'[g].pair, k)
         /\ \A g \in Handlers : SlotInv(g)'
         /\ LockIsHeld'
<1>1. Types /\ LockIsHeld
  BY DEF ClientInv
<1>2. CallsTo({c}, NoCall)
  BY <1>1, OneCallTo DEF Drop
<1>3. op' = [op EXCEPT ![c[1]] = NoOp] /\ c[1] \in Handlers
  BY CallParts
<1>4. op' \in [Handlers -> OpRecord] /\ \A g \in Handlers : op'[g] \in {op[g], NoOp}
  BY <1>1, <1>3, NoOpRecord DEF Types
<1>5. \A g \in Handlers : Old(op'[g].pair, k)
  BY <1>1, <1>4, NoOpRecord, OpsAreOld, TabIsOld
<1>6. \A g \in Handlers : SlotInv(g)'
  BY <1>2, <1>3, SlotEnded
<1>7. controls' \subseteq Buttons
  BY <1>1 DEF Types, Painted, Unlocked, LogoutIf, Buttons
<1>8. LockIsHeld'
  <2>1. CASE op[c[1]].kind = "startup"
    <3>1. "submit" \in controls => "submit" \in controls'
      BY <2>1 DEF Painted
    <3>2. \A g \in Handlers : op'[g].kind = op[g].kind \/ op[g].kind \in {"none", "startup"}
      BY <1>1, <1>3, <2>1 DEF Types
    <3> QED
      BY <1>1, <3>1, <3>2, LockKept
  <2>2. CASE op[c[1]].kind # "startup"
    BY <2>2 DEF Unlocked, LockIsHeld
  <2> QED
    BY <2>1, <2>2
<1> QED
  BY <1>2, <1>4, <1>5, <1>6, <1>7, <1>8

\* A handler ends with the answer to its request.
LEMMA EndEffect ==
  ASSUME ClientInv, NEW c \in Calls, call[c].at # "idle", NEW u, NEW ok, NEW k,
         Drop(c), Ends(c[1], u, ok)
  PROVE  /\ CallsTo({c}, NoCall) /\ controls' \subseteq Buttons
         /\ op' \in [Handlers -> OpRecord]
         /\ \A g \in Handlers : Old(op'[g].pair, k)
         /\ \A g \in Handlers : SlotInv(g)'
         /\ LockIsHeld'
BY OverEffect DEF Ends

\* A handler goes on to read the two lists again.
LEMMA LoadEffect ==
  ASSUME ClientInv, NEW c \in Calls, call[c].at # "idle", NEW st, NEW u, NEW k \in Known,
         RefreshData(c, st, u), u # NoPair, Old(u, k), Old(st.access, k),
         op[c[1]].kind \in {"login", "startup", "act"}, op[c[1]].at \notin {"none", "load"}
  PROVE  LET h == c[1]  r == Request("api", "first", Header(st, u)) IN
         /\ CallsTo(SlotOf(h), r) /\ c \in SlotOf(h) /\ \A d \in SlotOf(h) \ {c} : call[d] = NoCall
         /\ SlotOf(h) \in SUBSET Calls
         /\ Fits(r) /\ r.answer = NoAnswer /\ Old(r.pair, k) /\ r.job = "api"
         /\ controls' \subseteq Buttons
         /\ op' \in [Handlers -> OpRecord]
         /\ \A g \in Handlers : Old(op'[g].pair, k)
         /\ \A g \in Handlers : SlotInv(g)'
         /\ LockIsHeld'
<1> DEFINE h == c[1]
<1> DEFINE p == Header(st, u)
<1> DEFINE r == Request("api", "first", p)
<1>1. Types /\ LockIsHeld
  BY DEF ClientInv
<1>2. h \in Handlers /\ c = <<h, 1>> /\ Idle(h, 2) /\ c \in SlotOf(h) /\ SlotInv(h)
  BY FirstAnswered DEF SlotInv
<1>3. \A d \in SlotOf(h) \ {c} : call[d] = NoCall
  BY <1>2, SlotOfCalls DEF Idle, SlotOf
<1>4. /\ op' = [op EXCEPT ![h].at = "load"]
      /\ call' = [d \in Calls |-> IF d[1] = h THEN r ELSE call[d]]
      /\ controls' = IF op[h].kind \in {"login", "startup"} THEN Painted(u) ELSE controls
  BY DEF RefreshData
<1>5. CallsTo(SlotOf(h), r)
  BY <1>4 DEF CallsTo, SlotOf
<1>6. Old(p, k) /\ p \in Known
  BY <1>1, HeaderIsOld, OldIsKnown
<1>7. Fits(r) /\ r.answer = NoAnswer /\ r.pair = p /\ r.job = "api"
  BY <1>1, <1>6, RequestFits DEF Jobs, Legs
<1>8. /\ op'[h].at = "load" /\ op'[h].kind = op[h].kind /\ op'[h].pair = op[h].pair
      /\ \A g \in Handlers \ {h} : op'[g] = op[g]
  BY <1>1, <1>2, <1>4 DEF Types, OpRecord
<1>9. op' \in [Handlers -> OpRecord]
  BY <1>1, <1>2, <1>4 DEF Types, OpRecord
<1>10. \A g \in Handlers : Old(op'[g].pair, k)
  BY <1>8, OpsAreOld
<1> HIDE DEF r, p, h
<1>11. op[h].kind = "startup" => op[h].pair # NoPair
  BY <1>2 DEF SlotInv
<1>12. \A g \in Handlers : SlotInv(g)'
  <2>1. op'[h].kind \in {"login", "startup", "act", "load"}
    BY <1>8 DEF h
  <2> QED
    BY <1>2, <1>5, <1>7, <1>8, <1>11, <2>1, SlotLoading
<1>13. controls' \subseteq Buttons /\ ("submit" \in controls => "submit" \in controls')
  BY <1>1, <1>4 DEF Types, Painted, LogoutIf, Buttons
<1>14. LockIsHeld'
  BY <1>1, <1>8, <1>13, LockKept
<1>15. SlotOf(h) \in SUBSET Calls
  BY DEF SlotOf
<1> QED
  BY <1>2, <1>3, <1>5, <1>6, <1>7, <1>9, <1>10, <1>12, <1>13, <1>14, <1>15 DEF h, p, r

LEMMA DropEffect ==
  ASSUME ClientInv, NEW c \in Calls, NEW k, Drop(c), UNCHANGED <<op, controls>>
  PROVE  /\ CallsTo({c}, NoCall) /\ controls' \subseteq Buttons
         /\ op' \in [Handlers -> OpRecord]
         /\ \A g \in Handlers : Old(op'[g].pair, k)
         /\ LockIsHeld'
<1>1. Types /\ LockIsHeld
  BY DEF ClientInv
<1> QED
  BY <1>1, OneCallTo, OpsAreOld, LockKept DEF Drop, Types

\* An answer settles the operation it was for, or is one of several.
LEMMA ConcludeStep ==
  ASSUME ClientInv, NEW c \in Calls, NEW a, Arrives(c, a), NEW ok, Conclude(c, ok),
         UNCHANGED <<ui, overtaken, server, faults>>,
         \/ stored' = NoTokens
         \/ stored' = stored /\ (Signs(c) => a.status # "ok")
  PROVE  ClientInv'
<1> DEFINE h == c[1]
<1>1. Types /\ h \in Handlers /\ SlotInv(h) /\ call[c].at # "idle"
  BY FirstAnswered DEF ClientInv, Arrives
<1>2. /\ Fits(NoCall) /\ NoCall.answer = NoAnswer /\ NoCall.job = "logout"
      /\ Old(NoCall.pair, a.new)
  BY <1>1, NoCallFits, TabIsOld
<1>3. Old(ui', a.new) /\ cards \in BOOLEAN /\ overtaken' \in BOOLEAN /\ (cards => ui # NoPair)
  BY <1>1, TabIsOld DEF Types, ClientInv, QuietInv
<1>4. {c} \in SUBSET Calls /\ c \in {c} /\ \A d \in {c} \ {c} : call[d] = NoCall
  OBVIOUS
<1>5. stored' \in {stored, NoTokens}
  OBVIOUS
<1>6. CASE Drop(c) /\ UNCHANGED <<op, controls, cards>> /\ op[h].at \in {"none", "load"}
  <2>1. /\ CallsTo({c}, NoCall) /\ controls' \subseteq Buttons /\ op' \in [Handlers -> OpRecord]
        /\ \A g \in Handlers : Old(op'[g].pair, a.new)
        /\ LockIsHeld'
    BY <1>6, DropEffect
  <2>2. \A g \in Handlers : SlotInv(g)'
    BY <1>1, <1>6, <2>1, SlotDropped
  <2>3. QuietInv'
    BY <1>2, <1>3, <1>4, <1>5, <1>6, <2>1, QuietKept
  <2> QED
    BY <1>2, <1>3, <1>4, <1>6, <2>1, <2>2, <2>3, DeliverStep
<1>7. CASE /\ Drop(c) /\ \E b \in BOOLEAN : Ends(h, ui, b)
           /\ cards' \in BOOLEAN /\ (cards' => cards \/ ui # NoPair)
  <2>1. /\ CallsTo({c}, NoCall) /\ controls' \subseteq Buttons /\ op' \in [Handlers -> OpRecord]
        /\ \A g \in Handlers : Old(op'[g].pair, a.new)
        /\ \A g \in Handlers : SlotInv(g)'
        /\ LockIsHeld'
    BY <1>1, <1>7, EndEffect
  <2>2. QuietInv'
    BY <1>2, <1>3, <1>4, <1>5, <1>7, <2>1, QuietKept
  <2> QED
    BY <1>2, <1>3, <1>4, <1>7, <2>1, <2>2, DeliverStep
<1>8. CASE /\ op[h].kind = "act" /\ op[h].at = "post" /\ cards' = cards
           /\ ok /\ RefreshData(c, stored, ui)
  <2>1. CASE ui = NoPair
    <3>1. Drop(c) /\ Ends(h, ui, TRUE)
      BY <1>8, <2>1 DEF RefreshData, Drop
    <3> QED
      BY <1>3, <1>7, <1>8, <3>1
  <2>2. CASE ui # NoPair
    <3> DEFINE r == Request("api", "first", Header(stored, ui))
    <3>1. a.new \in Known
      BY DEF Arrives, AnswerRecord
    <3>2. /\ CallsTo(SlotOf(h), r) /\ c \in SlotOf(h) /\ \A d \in SlotOf(h) \ {c} : call[d] = NoCall
          /\ SlotOf(h) \in SUBSET Calls
          /\ Fits(r) /\ r.answer = NoAnswer /\ Old(r.pair, a.new) /\ r.job = "api"
          /\ controls' \subseteq Buttons
          /\ op' \in [Handlers -> OpRecord]
          /\ \A g \in Handlers : Old(op'[g].pair, a.new)
          /\ \A g \in Handlers : SlotInv(g)'
          /\ LockIsHeld'
      BY <1>1, <1>8, <2>2, <3>1, TabIsOld, LoadEffect
    <3> HIDE DEF r
    <3>3. QuietInv'
      BY <1>3, <1>8, <2>2, <3>2, QuietKept
    <3> QED
      BY <1>3, <1>8, <3>2, <3>3, DeliverStep
  <2> QED
    BY <2>1, <2>2
<1>9. \/ Drop(c) /\ UNCHANGED <<op, controls, cards>> /\ op[h].at \in {"none", "load"}
      \/ /\ Drop(c) /\ \E b \in BOOLEAN : Ends(h, ui, b)
         /\ cards' \in BOOLEAN /\ (cards' => cards \/ ui # NoPair)
      \/ /\ op[h].kind = "act" /\ op[h].at = "post" /\ cards' = cards
         /\ ok /\ RefreshData(c, stored, ui)
  <2> HIDE DEF h
  <2>1. \A b : Ends(h, ui, b) => Ends(h, ui, TRUE)
    BY DEF Ends
  <2> QED
    BY <1>3, <2>1 DEF Conclude, h
<1> HIDE DEF h
<1> QED
  BY <1>6, <1>7, <1>8, <1>9

\* The request is sent again with another token, or exchanged for its renewal.
LEMMA ResendEffect ==
  ASSUME ClientInv, NEW c \in Calls, NEW a, Arrives(c, a), NEW leg \in Legs, NEW p,
         Old(p, a.new), call[c].job \in {"api", "change"},
         Resend(c, leg, p, FALSE), UNCHANGED <<op, controls>>
  PROVE  LET r == Request(call[c].job, leg, p) IN
         /\ CallsTo({c}, r) /\ Fits(r) /\ r.answer = NoAnswer /\ Old(r.pair, a.new)
         /\ r.job \in {"api", "change"}
         /\ controls' \subseteq Buttons /\ op' \in [Handlers -> OpRecord]
         /\ \A g \in Handlers : Old(op'[g].pair, a.new)
         /\ \A g \in Handlers : SlotInv(g)'
         /\ LockIsHeld'
<1> DEFINE r == Request(call[c].job, leg, p)
<1>1. Types /\ LockIsHeld /\ Fits(call[c])
  BY DEF ClientInv, CallInv
<1>2. p \in Known
  BY <1>1, OldIsKnown DEF Arrives, AnswerRecord
<1>3. /\ Fits(r) /\ r.answer = NoAnswer /\ r.pair = p /\ r.job = call[c].job
  BY <1>1, <1>2, RequestFits DEF Jobs
<1>4. call' = [call EXCEPT ![c] = r]
  <2>1. call[c].ran \/ FALSE <=> FALSE
    BY <1>1 DEF Fits
  <2>2. [r EXCEPT !.ran = FALSE] = r
    <3>1. r \in CallRecord /\ r.ran = FALSE
      BY <1>3 DEF Fits, CallRecord, Request
    <3> HIDE DEF r
    <3> QED
      BY <3>1 DEF CallRecord
  <2>3. call' = [call EXCEPT ![c] = [r EXCEPT !.ran = call[c].ran \/ FALSE]]
    BY Zenon DEF Resend
  <2> HIDE DEF r
  <2>4. (call[c].ran \/ FALSE) = FALSE
    BY <2>1
  <2> QED
    BY <2>2, <2>3, <2>4
<1> HIDE DEF r
<1>5. CallsTo({c}, r)
  BY <1>1, <1>4, OneCallTo
<1>6. \A g \in Handlers : SlotInv(g)'
  BY <1>3, <1>5, SlotResent DEF Arrives
<1>7. LockIsHeld' /\ op' \in [Handlers -> OpRecord] /\ controls' \subseteq Buttons
  BY <1>1, LockKept DEF Types
<1> QED
  BY <1>3, <1>5, <1>6, <1>7, OpsAreOld DEF r

LEMMA TryRefreshStep ==
  ASSUME ClientInv, NEW c \in Calls, NEW a, Arrives(c, a), TryRefresh(c, a),
         UNCHANGED <<server, faults>>
  PROVE  ClientInv'
<1> DEFINE r == Request(call[c].job, "refresh", stored.refresh)
<1>1. Types /\ Fits(call[c]) /\ QuietInv
  BY DEF ClientInv, CallInv
<1>2. call[c].job \in {"api", "change"} /\ call[c].leg = "first" /\ a.status = "unauthorized"
  BY <1>1 DEF TryRefresh, MayRefresh, SkipAutoRefresh, Fits, CallRecord
<1>3. a.ran = FALSE /\ "refresh" \in Legs
  BY <1>2 DEF Arrives, AnswerRecord, Legs
<1>4. Resend(c, "refresh", stored.refresh, FALSE)
  BY <1>3 DEF TryRefresh
<1>5. UNCHANGED <<stored, ui, cards, controls, op, overtaken>>
  BY DEF TryRefresh
<1>6. /\ CallsTo({c}, r) /\ Fits(r) /\ r.answer = NoAnswer /\ Old(r.pair, a.new)
      /\ r.job \in {"api", "change"}
      /\ controls' \subseteq Buttons /\ op' \in [Handlers -> OpRecord]
      /\ \A g \in Handlers : Old(op'[g].pair, a.new)
      /\ \A g \in Handlers : SlotInv(g)'
      /\ LockIsHeld'
  BY <1>2, <1>3, <1>4, <1>5, TabIsOld, ResendEffect
<1> HIDE DEF r
<1>7. ui # NoPair \/ overtaken
  BY <1>1, <1>2 DEF QuietInv
<1>8. QuietInv'
  BY <1>1, <1>5, <1>7 DEF QuietInv
<1> QED
  BY <1>1, <1>2, <1>5, <1>6, <1>8, TabIsOld, DeliverStep DEF Types

LEMMA RetryStep ==
  ASSUME ClientInv, NEW c \in Calls, NEW a, Arrives(c, a), Retry(c, a),
         UNCHANGED <<server, faults>>
  PROVE  ClientInv'
<1> DEFINE r == Request(call[c].job, "second", a.new)
<1>1. Types /\ Fits(call[c]) /\ QuietInv
  BY DEF ClientInv, CallInv
<1>2. call[c].job \in {"api", "change"} /\ Signs(c) /\ "second" \in Legs
  BY <1>1 DEF Retry, Fits, Signs, Legs
<1>3. /\ UNCHANGED <<ui, cards, controls, op, overtaken>>
      /\ Resend(c, "second", a.new, FALSE) /\ stored' = Both(a.new) /\ a.status = "ok"
  BY DEF Retry, PersistTokens
<1>4. /\ CallsTo({c}, r) /\ Fits(r) /\ r.answer = NoAnswer /\ Old(r.pair, a.new)
      /\ r.job \in {"api", "change"}
      /\ controls' \subseteq Buttons /\ op' \in [Handlers -> OpRecord]
      /\ \A g \in Handlers : Old(op'[g].pair, a.new)
      /\ \A g \in Handlers : SlotInv(g)'
      /\ LockIsHeld'
  BY <1>2, <1>3, TabIsOld, ResendEffect
<1> HIDE DEF r
<1>5. ui # NoPair \/ overtaken
  BY <1>1, <1>2 DEF QuietInv
<1>6. QuietInv'
  BY <1>1, <1>3, <1>5 DEF QuietInv
<1> QED
  BY <1>1, <1>2, <1>3, <1>4, <1>6, TabIsOld, DeliverStep DEF Types

LEMMA RefreshFailedStep ==
  ASSUME ClientInv, NEW c \in Calls, NEW a, Arrives(c, a), RefreshFailed(c, a),
         UNCHANGED <<server, faults>>
  PROVE  ClientInv'
BY ConcludeStep DEF RefreshFailed

\* The session is over: its tokens are removed.
LEMMA ClearStep ==
  ASSUME ClientInv, NEW c \in Calls, NEW a, Arrives(c, a), ClearSession(c),
         UNCHANGED <<server, faults>>
  PROVE  ClientInv'
<1>1. Types
  BY DEF ClientInv
<1>2. /\ ui' = NoPair /\ stored' = NoTokens /\ cards' = FALSE
      /\ overtaken' = (\E d \in Calls \ {c} : call[d] # NoCall)
      /\ Drop(c) /\ op' = [op EXCEPT ![c[1]] = NoOp]
      /\ controls' = IF op[c[1]].kind = "startup" THEN Painted(NoPair) ELSE Unlocked(NoPair)
  BY DEF ClearSession
<1>3. /\ CallsTo({c}, NoCall) /\ controls' \subseteq Buttons /\ op' \in [Handlers -> OpRecord]
      /\ \A g \in Handlers : Old(op'[g].pair, a.new)
      /\ \A g \in Handlers : SlotInv(g)'
      /\ LockIsHeld'
  BY <1>2, OverEffect DEF Arrives
<1>4. QuietInv'
  <2> SUFFICES ASSUME ~overtaken', NEW d \in Calls
               PROVE  call'[d].job \in {"login", "form", "logout"}
    BY <1>2 DEF QuietInv
  <2>1. call'[d] = NoCall
    BY <1>2, <1>3, CallsAfter
  <2> QED
    BY <1>1, <2>1, NoCallFits
<1>5. {c} \in SUBSET Calls /\ c \in {c} /\ \A d \in {c} \ {c} : call[d] = NoCall
  OBVIOUS
<1>6. Old(ui', a.new) /\ Old(NoCall.pair, a.new) /\ cards' \in BOOLEAN /\ overtaken' \in BOOLEAN
  BY <1>1, <1>2, TabIsOld, NoCallFits
<1> QED
  BY <1>1, <1>2, <1>3, <1>4, <1>5, <1>6, NoCallFits, DeliverStep

LEMMA SignInStep ==
  ASSUME ClientInv, NEW c \in Calls, NEW a, Arrives(c, a), NEW p, NEW st, SignIn(c, p, st),
         p # NoPair, Old(p, a.new), Old(st.access, a.new),
         \/ st = Both(a.new) /\ Signs(c) /\ a.status = "ok"
         \/ st = stored /\ (Signs(c) => a.status # "ok"),
         op[c[1]].kind \in {"login", "startup"}, op[c[1]].at \notin {"none", "load"},
         UNCHANGED <<server, faults>>
  PROVE  ClientInv'
<1> DEFINE r == Request("api", "first", Header(st, p))
<1>1. ui' = p /\ stored' = st /\ RefreshData(c, st, p) /\ UNCHANGED <<cards, overtaken>>
  BY DEF SignIn
<1>2. a.new \in Known /\ call[c].at # "idle"
  BY DEF Arrives, AnswerRecord
<1>3. /\ CallsTo(SlotOf(c[1]), r) /\ c \in SlotOf(c[1])
      /\ \A d \in SlotOf(c[1]) \ {c} : call[d] = NoCall
      /\ SlotOf(c[1]) \in SUBSET Calls
      /\ Fits(r) /\ r.answer = NoAnswer /\ Old(r.pair, a.new) /\ r.job = "api"
      /\ controls' \subseteq Buttons
      /\ op' \in [Handlers -> OpRecord]
      /\ \A g \in Handlers : Old(op'[g].pair, a.new)
      /\ \A g \in Handlers : SlotInv(g)'
      /\ LockIsHeld'
  BY <1>1, <1>2, LoadEffect
<1> HIDE DEF r
<1>4. QuietInv'
  BY <1>1 DEF QuietInv
<1>5. Old(ui', a.new) /\ cards' \in BOOLEAN /\ overtaken' \in BOOLEAN
  BY <1>1 DEF ClientInv, Types
<1> QED
  BY <1>1, <1>3, <1>4, <1>5, DeliverStep

LEMMA LoginAnsweredStep ==
  ASSUME ClientInv, NEW c \in Calls, NEW a, Arrives(c, a), LoginAnswered(c, a, a.status = "ok"),
         call[c].leg # "refresh", UNCHANGED <<server, faults>>
  PROVE  ClientInv'
<1>1. Types /\ QuietInv /\ SlotInv(c[1]) /\ c = <<c[1], 1>>
  BY FirstAnswered DEF ClientInv, Arrives, LoginAnswered
<1>2. op[c[1]].kind = "login" /\ op[c[1]].at = "post" /\ call[c].job = "login" /\ Signs(c)
  BY <1>1 DEF LoginAnswered, SlotInv, JobOf, Signs
<1>3. CASE a.status = "ok" /\ SignIn(c, a.new, Both(a.new))
  <2>1. a.new # NoPair
    BY <1>2, <1>3 DEF Arrives
  <2>2. Both(a.new).access = a.new
    BY DEF Both
  <2> QED
    BY <1>2, <1>3, <2>1, <2>2, TabIsOld, SignInStep
<1>4. CASE /\ a.status # "ok" /\ Drop(c) /\ Ends(c[1], ui, a.status = "ok")
           /\ UNCHANGED <<ui, stored, cards, overtaken>>
  <2>1. /\ CallsTo({c}, NoCall) /\ controls' \subseteq Buttons /\ op' \in [Handlers -> OpRecord]
        /\ \A g \in Handlers : Old(op'[g].pair, a.new)
        /\ \A g \in Handlers : SlotInv(g)'
        /\ LockIsHeld'
    BY <1>4, EndEffect DEF Arrives
  <2>2. {c} \in SUBSET Calls /\ c \in {c} /\ \A d \in {c} \ {c} : call[d] = NoCall
    OBVIOUS
  <2>3. QuietInv'
    BY <1>1, <1>4, <2>1, <2>2, NoCallFits, QuietKept
  <2>4. /\ cards' \in BOOLEAN /\ overtaken' \in BOOLEAN
        /\ Old(ui', a.new) /\ Old(NoCall.pair, a.new) /\ Fits(NoCall) /\ NoCall.answer = NoAnswer
    BY <1>1, <1>4, NoCallFits, TabIsOld DEF Types
  <2> QED
    BY <1>4, <2>1, <2>2, <2>3, <2>4, DeliverStep
<1> QED
  BY <1>3, <1>4 DEF LoginAnswered

LEMMA ContinueStep ==
  ASSUME ClientInv, NEW c \in Calls, NEW a, Arrives(c, a), NEW at, NEW job, NEW p,
         op[c[1]].kind = "startup", op[c[1]].at \notin {"none", "load"},
         \/ at = "renew" /\ job = "renew"
         \/ at = "reverify" /\ job = "verify",
         p # NoPair, Old(p, a.new), Continue(c, at, job, p),
         \/ stored' = Both(a.new) /\ Signs(c) /\ a.status = "ok"
         \/ stored' = stored /\ (Signs(c) => a.status # "ok"),
         UNCHANGED <<server, faults>>
  PROVE  ClientInv'
<1> DEFINE h == c[1]
<1> DEFINE r == Request(job, "first", p)
<1>1. Types /\ QuietInv /\ LockIsHeld /\ SlotInv(h) /\ c = <<h, 1>> /\ h \in Handlers
  BY FirstAnswered DEF ClientInv, Arrives
<1>2. p \in Known
  BY <1>1, OldIsKnown DEF Arrives, AnswerRecord
<1>3. /\ op' = [op EXCEPT ![h].at = at, ![h].pair = p] /\ call' = [call EXCEPT ![c] = r]
      /\ UNCHANGED <<ui, cards, controls, overtaken>>
  BY DEF Continue
<1>4. Fits(r) /\ r.answer = NoAnswer /\ r.pair = p /\ r.job = job
  BY <1>1, <1>2, RequestFits DEF Jobs, Legs
<1>5. op[h] \in OpRecord
  BY <1>1 DEF Types
<1>6. /\ op'[h].at = at /\ op'[h].kind = "startup" /\ op'[h].pair = p
      /\ \A g \in Handlers \ {h} : op'[g] = op[g]
  BY <1>1, <1>3, <1>5 DEF Types, OpRecord
<1>7. op' \in [Handlers -> OpRecord]
  <2>1. op' = [op EXCEPT ![h] = [op[h] EXCEPT !.at = at, !.pair = p]]
    BY <1>1, <1>3 DEF Types
  <2>2. [op[h] EXCEPT !.at = at, !.pair = p] \in OpRecord
    BY <1>2, <1>5 DEF OpRecord
  <2> QED
    BY <1>1, <2>1, <2>2 DEF Types
<1> HIDE DEF r
<1>8. CallsTo({c}, r)
  BY <1>1, <1>3, OneCallTo
<1>9. \A g \in Handlers : SlotInv(g)'
  BY <1>1, <1>4, <1>6, <1>8, SlotContinued
<1>10. LockIsHeld'
  BY <1>1, <1>3, <1>6, LockKept
<1>11. \A g \in Handlers : Old(op'[g].pair, a.new)
  BY <1>6, OpsAreOld
<1>12. ui # NoPair \/ overtaken
  <2>1. call[c].job \notin {"login", "form", "logout"}
    BY <1>1 DEF SlotInv, Types, OpRecord
  <2> QED
    BY <1>1, <2>1 DEF QuietInv
<1>13. QuietInv'
  BY <1>1, <1>3, <1>12 DEF QuietInv
<1>14. {c} \in SUBSET Calls /\ c \in {c} /\ \A d \in {c} \ {c} : call[d] = NoCall
  OBVIOUS
<1>15. /\ cards' \in BOOLEAN /\ overtaken' \in BOOLEAN /\ controls' \subseteq Buttons
       /\ Old(ui', a.new) /\ Old(r.pair, a.new)
  BY <1>1, <1>3, <1>4, TabIsOld DEF Types
<1> QED
  BY <1>4, <1>7, <1>8, <1>9, <1>10, <1>11, <1>13, <1>14, <1>15, DeliverStep

LEMMA StartupAnsweredStep ==
  ASSUME ClientInv, NEW c \in Calls, NEW a, Arrives(c, a),
         StartupAnswered(c, a, a.status = "ok"),
         call[c].leg # "refresh", UNCHANGED <<server, faults>>
  PROVE  ClientInv'
<1> DEFINE o == op[c[1]]
<1>1. SlotInv(c[1]) /\ c[1] \in Handlers /\ o.kind = "startup" /\ o.pair # NoPair
  BY FirstAnswered DEF Arrives, StartupAnswered, SlotInv
<1>2. Old(o.pair, a.new) /\ Old(stored.access, a.new) /\ Old(a.new, a.new)
  BY <1>1, OpsAreOld, TabIsOld
<1>3. o.at \in {"verify", "reverify"} => ~Signs(c)
  <2>1. o.at \in {"verify", "reverify"} => c = <<c[1], 1>> /\ call[<<c[1], 1>>].job = "verify"
    BY <1>1, FirstAnswered DEF SlotInv, Arrives
  <2> QED
    BY <2>1 DEF Signs
<1>4. o.at = "renew" => Signs(c)
  <2>1. o.at = "renew" => c = <<c[1], 1>> /\ call[<<c[1], 1>>].job = "renew"
    BY <1>1, FirstAnswered DEF SlotInv, Arrives
  <2> QED
    BY <2>1 DEF Signs
<1>5. CASE o.at \in {"verify", "reverify"} /\ SignIn(c, o.pair, stored)
  <2>1. Signs(c) => a.status # "ok"
    BY <1>3, <1>5
  <2> QED
    BY <1>1, <1>2, <1>5, <2>1, SignInStep
<1>6. CASE o.at = "verify" /\ Continue(c, "renew", "renew", o.pair) /\ stored' = stored
  BY <1>1, <1>2, <1>3, <1>6, ContinueStep
<1>7. CASE /\ o.at = "renew" /\ a.status = "ok" /\ PersistTokens(a.new)
           /\ Continue(c, "reverify", "verify", a.new)
  <2>1. Signs(c) /\ a.new # NoPair
    BY <1>4, <1>7 DEF Arrives
  <2> QED
    BY <1>1, <1>2, <1>7, <2>1, ContinueStep DEF PersistTokens
<1>8. CASE ClearSession(c)
  BY <1>8, ClearStep
<1> QED
  BY <1>5, <1>6, <1>7, <1>8 DEF StartupAnswered

\* Any other answer settles the request.
LEMMA SettleStep ==
  ASSUME ClientInv, NEW c \in Calls, NEW a, Arrives(c, a), Settle(c, a),
         UNCHANGED <<server, faults>>
  PROVE  ClientInv'
<1>1. call[c].leg # "refresh"
  BY DEF Settle
<1>2. CASE Conclude(c, a.status = "ok") /\ UNCHANGED <<ui, stored, overtaken>>
  <2>1. Types /\ SlotInv(c[1]) /\ Fits(call[c]) /\ op[c[1]] \in OpRecord
    BY FirstAnswered DEF ClientInv, CallInv, Arrives, Types
  <2>2. Signs(c) => call[c].job \in {"login", "renew"}
    BY <1>1 DEF Signs
  <2>3. op[c[1]].kind \in {"change", "form", "act"} => call[c].job \notin {"login", "renew"}
    BY <2>1, FirstAnswered DEF SlotInv, JobOf, Arrives, OpRecord
  <2>4. op[c[1]].at \in {"none", "load"} => call[c].job \notin {"login", "renew"}
    BY FirstAnswered DEF Arrives
  <2>5. op[c[1]].kind \in {"change", "form", "act"} \/ op[c[1]].at \in {"none", "load"}
    BY <1>2 DEF Conclude
  <2>6. ~Signs(c)
    BY <2>2, <2>3, <2>4, <2>5
  <2> QED
    BY <1>2, <2>6, ConcludeStep
<1>3. CASE LoginAnswered(c, a, a.status = "ok")
  BY <1>1, <1>3, LoginAnsweredStep
<1>4. CASE LogoutAnswered(c)
  BY <1>4, ClearStep DEF LogoutAnswered
<1>5. CASE StartupAnswered(c, a, a.status = "ok")
  BY <1>1, <1>5, StartupAnsweredStep
<1> QED
  BY <1>2, <1>3, <1>4, <1>5 DEF Settle

LEMMA Delivered ==
  ASSUME ClientInv, NEW c \in Calls, Deliver(c)
  PROVE  ClientInv'
<1>1. UNCHANGED <<server, faults>>
  BY DEF Deliver
<1>2. PICK a \in Answers(c) :
        TryRefresh(c, a) \/ Retry(c, a) \/ RefreshFailed(c, a) \/ Settle(c, a)
  BY DEF Deliver
<1>3. Arrives(c, a)
  BY AnswersArrive
<1> QED
  BY <1>1, <1>2, <1>3, TryRefreshStep, RetryStep, RefreshFailedStep, SettleStep

-----------------------------------------------------------------------------
(* The user's events *)

LEMMA FreeSlot ==
  ASSUME NEW h \in Handlers, Free(h)
  PROVE  op[h] = NoOp /\ Idle(h, 1) /\ Idle(h, 2)
<1>1. h \in FreeSlots
  BY DEF Free
<1>2. op[h] = NoOp /\ \A d \in Calls : d[1] = h => call[d] = NoCall
  BY <1>1 DEF FreeSlots
<1> QED
  BY <1>2, SlotCalls DEF Idle

LEMMA BeginStep ==
  ASSUME ClientInv, NEW h \in Handlers, NEW kind, NEW job, Begin(h, kind, job),
         kind \in {"login", "form", "change", "logout", "act"}, job = JobOf(kind),
         ui # NoPair \/ job \in {"login", "form", "logout"}
  PROVE  ClientInv'
<1> DEFINE r == Request(job, "first", Header(stored, ui))
<1>1. Types /\ QuietInv /\ StoredPairUsable
  BY DEF ClientInv
<1>2. Idle(h, 1) /\ Idle(h, 2)
  BY FreeSlot DEF Begin
<1>3. /\ op' = [op EXCEPT ![h] = Op(kind, "post", NoPair)]
      /\ call' = [call EXCEPT ![<<h, 1>>] = r] /\ controls' = {}
      /\ UNCHANGED <<stored, ui, cards, overtaken, server, faults>>
  BY DEF Begin
<1>4. Old(Header(stored, ui), NoPair) /\ NoPair \in Known
  BY <1>1, HeaderIsOld, TabIsOld DEF Types, Known, Pairs, NoPair
<1>5. Header(stored, ui) \in Known
  BY <1>1, <1>4, OldIsKnown
<1>6. job \in Jobs
  BY DEF Jobs, JobOf
<1>7. Fits(r) /\ r.answer = NoAnswer /\ r.job = job /\ Old(r.pair, NoPair)
  BY <1>1, <1>4, <1>5, <1>6, RequestFits DEF Legs
<1>8. op' \in [Handlers -> OpRecord]
  BY <1>1, <1>3, <1>4 DEF Types, OpRecord, Op, Kinds
<1>9. /\ op'[h].kind = kind /\ op'[h].at = "post" /\ op'[h].pair = NoPair
      /\ \A g \in Handlers \ {h} : op'[g] = op[g]
  BY <1>1, <1>3 DEF Types, Op
<1> HIDE DEF r
<1>10. CallsTo({<<h, 1>>}, r) /\ {<<h, 1>>} \in SUBSET Calls
  BY <1>1, <1>3, SlotCalls, OneCallTo
<1>11. \A g \in Handlers : SlotInv(g)'
  BY <1>2, <1>7, <1>9, <1>10, SlotBegun
<1>12. \A g \in Handlers : Old(op'[g].pair, NoPair)
  BY <1>9, OpsAreOld, TabIsOld
<1>13. QuietInv'
  BY <1>1, <1>3, <1>7, <1>10, QuietKept
<1>14. LockIsHeld'
  BY <1>9 DEF LockIsHeld
<1>15. \A d \in {<<h, 1>>} : call[d].answer.new = NoPair
  BY <1>1, <1>2, NoCallFits, NoAnswerNew DEF Idle
<1>16. /\ stored' \in [access : Known, refresh : Known] /\ ui' \in Known
       /\ controls' \subseteq Buttons /\ cards' \in BOOLEAN /\ overtaken' \in BOOLEAN
       /\ Old(ui', NoPair) /\ Old(stored'.refresh, NoPair) /\ stored'.access = stored'.refresh
  BY <1>1, <1>3, TabIsOld DEF Types, StoredPairUsable
<1> QED
  BY <1>3, <1>4, <1>7, <1>8, <1>10, <1>11, <1>12, <1>13, <1>14, <1>15, <1>16, LoopStep

LEMMA LoadStep ==
  ASSUME ClientInv, NEW h \in Handlers, Load(h)
  PROVE  ClientInv'
<1> DEFINE p == Header(stored, ui)
<1> DEFINE r == Request("api", "first", p)
<1>1. Types /\ QuietInv /\ StoredPairUsable /\ LockIsHeld
  BY DEF ClientInv
<1>2. Idle(h, 1) /\ Idle(h, 2)
  BY FreeSlot DEF Load
<1>3. UNCHANGED <<stored, ui, cards, overtaken, server, faults>>
  BY DEF Load
<1>4. Old(p, NoPair) /\ NoPair \in Known
  BY <1>1, HeaderIsOld, TabIsOld DEF Types, Known, Pairs, NoPair
<1>5. p \in Known
  BY <1>1, <1>4, OldIsKnown
<1>6. /\ stored' \in [access : Known, refresh : Known] /\ ui' \in Known
      /\ cards' \in BOOLEAN /\ overtaken' \in BOOLEAN
      /\ Old(ui', NoPair) /\ Old(stored'.refresh, NoPair) /\ stored'.access = stored'.refresh
  BY <1>1, <1>3, TabIsOld DEF Types, StoredPairUsable
<1>7. CASE /\ ui # NoPair /\ controls' = {}
           /\ op' = [op EXCEPT ![h] = Op("load", "load", NoPair)]
           /\ call' = [d \in Calls |-> IF d[1] = h THEN r ELSE call[d]]
  <2>1. Fits(r) /\ r.answer = NoAnswer /\ r.job = "api" /\ Old(r.pair, NoPair)
    BY <1>1, <1>4, <1>5, RequestFits DEF Legs, Jobs
  <2>2. CallsTo(SlotOf(h), r) /\ SlotOf(h) \in SUBSET Calls
    BY <1>7 DEF CallsTo, SlotOf
  <2> HIDE DEF r
  <2>3. op' \in [Handlers -> OpRecord]
    BY <1>1, <1>4, <1>7 DEF Types, OpRecord, Op, Kinds
  <2>4. /\ op'[h].kind = "load" /\ op'[h].at = "load" /\ op'[h].pair = NoPair
        /\ \A g \in Handlers \ {h} : op'[g] = op[g]
    BY <1>1, <1>7 DEF Types, Op
  <2>5. \A g \in Handlers : SlotInv(g)'
    BY <2>1, <2>2, <2>4, SlotLoading
  <2>6. \A g \in Handlers : Old(op'[g].pair, NoPair)
    BY <2>4, OpsAreOld, TabIsOld
  <2>7. QuietInv'
    BY <1>1, <1>3, <1>7 DEF QuietInv
  <2>8. LockIsHeld'
    BY <2>4 DEF LockIsHeld
  <2>9. \A d \in SlotOf(h) : call[d].answer.new = NoPair
    <3>1. \A d \in SlotOf(h) : call[d] = NoCall
      BY <1>2, SlotOfCalls DEF Idle, SlotOf
    <3> QED
      BY <1>1, <3>1, NoCallFits, NoAnswerNew
  <2>10. controls' \subseteq Buttons
    BY <1>7
  <2> QED
    BY <1>3, <1>4, <1>6, <2>1, <2>2, <2>3, <2>5, <2>6, <2>7, <2>8, <2>9, <2>10, LoopStep
<1>8. CASE ui = NoPair /\ controls' = Unlocked(ui) /\ UNCHANGED <<op, call>>
  <2>1. CallsTo({}, NoCall)
    BY <1>1, <1>8 DEF CallsTo, Types
  <2>2. Fits(NoCall) /\ NoCall.answer = NoAnswer /\ Old(NoCall.pair, NoPair)
    BY <1>1, NoCallFits, TabIsOld
  <2>3. op' \in [Handlers -> OpRecord] /\ controls' \subseteq Buttons
    BY <1>1, <1>8 DEF Types, Unlocked, LogoutIf, Buttons
  <2>4. \A g \in Handlers : Old(op'[g].pair, NoPair)
    BY <1>8, OpsAreOld
  <2>5. \A g \in Handlers : SlotInv(g)'
    BY <1>8 DEF ClientInv, SlotInv, Idle
  <2>6. QuietInv'
    BY <1>1, <1>3, <1>8 DEF QuietInv
  <2>7. LockIsHeld'
    BY <1>8 DEF LockIsHeld, Unlocked
  <2>8. {} \in SUBSET Calls /\ \A d \in {} : call[d].answer.new = NoPair
    OBVIOUS
  <2> QED
    BY <1>3, <1>4, <1>6, <2>1, <2>2, <2>3, <2>4, <2>5, <2>6, <2>7, <2>8, LoopStep
<1> QED
  BY <1>7, <1>8 DEF Load

LEMMA EventStep ==
  ASSUME ClientInv, NEW h \in Handlers, Event(h)
  PROVE  ClientInv'
<1>1. CASE Login(h)
  BY <1>1, BeginStep DEF Login, JobOf
<1>2. CASE SendForm(h)
  BY <1>2, BeginStep DEF SendForm, JobOf
<1>3. CASE ChangePassword(h)
  BY <1>3, BeginStep DEF ChangePassword, JobOf
<1>4. CASE Logout(h)
  BY <1>4, BeginStep DEF Logout, JobOf
<1>5. CASE Act(h)
  <2>1. ui # NoPair
    BY <1>5 DEF Act, ClientInv, QuietInv
  <2> QED
    BY <1>5, <2>1, BeginStep DEF Act, JobOf
<1>6. CASE Load(h)
  BY <1>6, LoadStep
<1> QED
  BY <1>1, <1>2, <1>3, <1>4, <1>5, <1>6 DEF Event

-----------------------------------------------------------------------------
(* The server *)

\* A request is carried out, or fails on its way, and its answer sets out.
LEMMA ReplyStep ==
  ASSUME ClientInv, NEW c \in Calls, call[c].at = "sent", NEW a, Reply(c, a),
         UNCHANGED <<stored, ui, cards, controls, op, overtaken, expired>>,
         signed' \in Pairs, epoch' \in 0..signed',
         faults' \in 0..MaxFaults, faults' = 0 => faults = 0 /\ a.status = "ok",
         a.status \in {"ok", "unauthorized", "refused", "lost"}, a.ran \in BOOLEAN,
         a.status = "unauthorized" => ~a.ran,
         a = Answer(a.status, a.new, a.ran),
         \/ /\ a.new = NoPair /\ signed' = signed /\ spent' = spent
            /\ Signs(c) => a.status # "ok"
         \/ /\ a.new = NoPair /\ signed' = signed /\ a.status # "ok"
            /\ spent' = spent \cup {call[c].pair} /\ call[c].pair # NoPair
         \/ /\ a.new = signed + 1 /\ signed' = signed + 1 /\ Signs(c)
            /\ \/ spent' = spent
               \/ spent' = spent \cup {call[c].pair} /\ call[c].pair # NoPair
  PROVE  ClientInv'
<1> DEFINE n == a.new
<1>1. Types /\ Fits(call[c]) /\ call[c].answer = NoAnswer /\ call[c] # NoCall
  <2>1. Types /\ Fits(call[c])
    BY DEF ClientInv, CallInv
  <2> QED
    BY <2>1 DEF Fits, NoCall
<1>2. /\ signed \in Nat /\ signed' \in Nat /\ signed' >= signed
      /\ Known \subseteq Known' /\ n \in Known'
  BY <1>1 DEF Types, Pairs, Known, NoPair
<1>3. call' = [call EXCEPT ![c] = [call[c] EXCEPT !.at = "answered", !.good = FALSE, !.answer = a]]
  BY <1>1 DEF Reply, Types
<1>4. call[c] \in CallRecord /\ call \in [Calls -> CallRecord]
  BY <1>1 DEF Types
<1>5. \A d \in Calls \ {c} : call'[d] = call[d]
  BY <1>3, <1>4
<1>6. call'[c] = [call[c] EXCEPT !.at = "answered", !.good = FALSE, !.answer = a]
  BY <1>3, <1>4
<1>7. /\ call'[c].at = "answered" /\ call'[c].job = call[c].job /\ call'[c].leg = call[c].leg
      /\ call'[c].pair = call[c].pair /\ call'[c].good = FALSE /\ call'[c].answer = a
      /\ call'[c].ran = call[c].ran
  BY <1>4, <1>6 DEF CallRecord
<1>8. call'[c] \in CallRecord'
  <2>1. call[c].pair \in Known' /\ call[c].job \in Jobs /\ call[c].leg \in Legs
        /\ call[c].ran \in BOOLEAN
    BY <1>2, <1>4 DEF CallRecord
  <2>2. a \in [status : {"none", "ok", "unauthorized", "refused", "lost"},
               new : Known', ran : BOOLEAN]
    BY <1>2 DEF Answer
  <2>3. call'[c] = [at |-> "answered", job |-> call[c].job, leg |-> call[c].leg,
                    pair |-> call[c].pair, good |-> FALSE, answer |-> a, ran |-> call[c].ran]
    BY <1>4, <1>6 DEF CallRecord
  <2> QED
    BY <2>1, <2>2, <2>3 DEF CallRecord
<1>9. \A d \in Calls : Fits(call[d])'
  <2> SUFFICES ASSUME NEW d \in Calls PROVE Fits(call[d])'
    OBVIOUS
  <2>1. PICK r : r = call'[d]
    OBVIOUS
  <2>2. CASE d = c
    <3>1. /\ r.at = "answered" /\ r.job = call[c].job /\ r.leg = call[c].leg
          /\ r.good = FALSE /\ r.answer = a /\ r.ran = call[c].ran /\ r \in CallRecord'
      BY <1>7, <1>8, <2>1, <2>2
    <3>2. ~call[c].ran /\ (call[c].leg # "first" => call[c].job \in {"api", "change"})
      BY <1>1 DEF Fits
    <3>3. /\ a.new # NoPair => Signs(c)
          /\ Signs(c) /\ a.status = "ok" => a.new # NoPair
      BY <1>1, <1>2 DEF NoPair
    <3>4. Signs(c) <=> r.job \in {"login", "renew"} \/ r.leg = "refresh"
      BY <3>1 DEF Signs
    <3>5. Fits(r)'
      BY <3>1, <3>2, <3>3, <3>4 DEF Fits
    <3> QED
      BY <2>1, <3>5 DEF Fits, CallRecord, Known
  <2>3. CASE d # c
    <3>1. r = call[d]
      BY <1>5, <2>1, <2>3
    <3>2. Fits(r)
      BY <3>1 DEF ClientInv, CallInv
    <3>3. Fits(r)'
      BY <1>1, <1>2, <3>2, FitsGrows
    <3> QED
      BY <2>1, <3>3 DEF Fits, CallRecord, Known
  <2> QED
    BY <2>2, <2>3
<1>10. Types'
  <2>1. \A d \in Calls : call'[d] \in CallRecord'
    BY <1>9 DEF Fits
  <2>2. call' = [d \in Calls |-> call'[d]]
    BY <1>3, <1>4
  <2>3. call' \in [Calls -> CallRecord]'
    BY <2>1, <2>2
  <2>4. OpRecord \subseteq OpRecord'
    BY <1>2 DEF OpRecord
  <2>5. op' \in [Handlers -> OpRecord]'
    BY <1>1, <2>4 DEF Types
  <2>6. /\ stored' \in [access : Known, refresh : Known]' /\ ui' \in Known'
        /\ controls' \subseteq Buttons /\ cards' \in BOOLEAN /\ overtaken' \in BOOLEAN
    BY <1>1, <1>2 DEF Types
  <2>7. spent' \subseteq 1..signed' /\ expired' \subseteq 1..signed'
    <3>1. 1..signed \subseteq 1..signed'
      BY <1>2
    <3>2. call[c].pair # NoPair => call[c].pair \in 1..signed
      BY <1>2, <1>4 DEF CallRecord, Known, NoPair
    <3> QED
      BY <1>1, <3>1, <3>2 DEF Types
  <2>8. epoch' \in Known'
    BY DEF Known
  <2> QED
    BY <2>3, <2>5, <2>6, <2>7, <2>8 DEF Types
<1>11. \A d \in Calls : CallInv(d)'
  <2> SUFFICES ASSUME NEW d \in Calls, call'[d].at = "answered", faults' = 0
               PROVE  call'[d].answer.status = "ok"
    BY <1>9 DEF CallInv
  <2>1. CASE d = c
    BY <1>7, <2>1
  <2>2. CASE d # c
    BY <1>5, <2>2 DEF ClientInv, CallInv
  <2> QED
    BY <2>1, <2>2
<1>12. \A p : Seen(p)' => Seen(p) /\ p \in Known
  <2>1. \A p : Seen(p)' => Seen(p)
    <3>1. \A d \in Calls : call'[d].pair = call[d].pair
      BY <1>5, <1>7
    <3> QED
      BY <3>1 DEF Seen
  <2>2. \A p : Seen(p) => p \in Known
    <3>1. NoPair \in Known
      BY <1>2 DEF Known, NoPair
    <3> QED
      BY <1>1, <3>1, OldIsKnown DEF Old
  <2> QED
    BY <2>1, <2>2
<1>13. n # NoPair => n \notin Known
  BY <1>2 DEF Known
<1>14. \A d \in Calls : FreshInv(d)'
  <2> SUFFICES ASSUME NEW d \in Calls, call'[d].answer.new # NoPair PROVE FreshInv(d)'
    BY DEF FreshInv
  <2>0. PICK m : m = call'[d].answer.new
    OBVIOUS
  <2>1. CASE d = c
    <3>1. m = n /\ n \notin Known
      BY <1>7, <1>13, <2>0, <2>1
    <3>2. n \notin spent' /\ ~Seen(n)'
      <4>1. spent \subseteq Known /\ call[c].pair \in Known
        BY <1>1, <1>2, <1>4 DEF Types, Known, CallRecord
      <4>2. n \notin spent'
        BY <3>1, <4>1
      <4> QED
        BY <1>12, <3>1, <4>2
    <3>3. \A e \in Calls \ {c} : call'[e].answer.new # n
      <4>1. \A e \in Calls : call[e].answer.new \in Known
        BY <1>4 DEF CallRecord
      <4> QED
        BY <1>5, <3>1, <4>1
    <3> QED
      BY <2>0, <2>1, <3>1, <3>2, <3>3 DEF FreshInv, Seen
  <2>2. CASE d # c
    <3>1. m = call[d].answer.new /\ m # NoPair /\ m \in Known
      BY <1>4, <1>5, <2>0, <2>2 DEF CallRecord
    <3>2. m \notin spent /\ ~Seen(m) /\ \A e \in Calls \ {d} : call[e].answer.new # m
      BY <3>1 DEF ClientInv, FreshInv
    <3>3. m # call[c].pair
      BY <3>2 DEF Seen
    <3>4. m \notin spent' /\ ~Seen(m)'
      BY <1>12, <3>2, <3>3
    <3>5. \A e \in Calls \ {d} : call'[e].answer.new # m
      <4>1. n # m
        BY <1>13, <3>1
      <4> QED
        BY <1>5, <1>7, <3>2, <4>1
    <3> QED
      BY <2>0, <3>1, <3>4, <3>5 DEF FreshInv, Seen
  <2> QED
    BY <2>1, <2>2
<1>15. \A h \in Handlers : SlotInv(h)'
  <2> SUFFICES ASSUME NEW h \in Handlers PROVE SlotInv(h)'
    OBVIOUS
  <2>1. \A d \in Calls : call'[d].job = call[d].job /\ (call[d] = NoCall => call'[d] = NoCall)
    BY <1>1, <1>5, <1>7
  <2>2. /\ call'[<<h, 1>>].job = call[<<h, 1>>].job /\ call'[<<h, 2>>].job = call[<<h, 2>>].job
        /\ (Idle(h, 1) => Idle(h, 1)') /\ (Idle(h, 2) => Idle(h, 2)')
    BY <2>1, SlotCalls DEF Idle
  <2> QED
    BY <2>2 DEF ClientInv, SlotInv
<1>16. QuietInv' /\ LockIsHeld'
  <2>1. \A d \in Calls : call'[d].job = call[d].job
    BY <1>5, <1>7
  <2> QED
    BY <2>1 DEF ClientInv, QuietInv, LockIsHeld
<1>17. StoredPairUsable'
  <2> SUFFICES ASSUME stored.refresh \in spent', faults' = 0
               PROVE  \E d \in Calls : call'[d].pair = stored.refresh
                                       /\ call'[d].answer.new # NoPair
    BY DEF ClientInv, StoredPairUsable
  <2>1. CASE stored.refresh \in spent
    <3>1. PICK w \in Calls : call[w].pair = stored.refresh /\ call[w].answer.new # NoPair
      BY <2>1 DEF ClientInv, StoredPairUsable
    <3>2. w # c
      BY <1>1, <3>1, NoAnswerNew
    <3> QED
      BY <1>5, <3>1, <3>2
  <2>2. CASE stored.refresh \notin spent
    <3>1. stored.refresh = call[c].pair /\ n = signed + 1
      BY <2>2
    <3>2. call'[c].pair = stored.refresh /\ call'[c].answer.new # NoPair
      BY <1>2, <1>7, <3>1 DEF NoPair
    <3> QED
      BY <3>2
  <2> QED
    BY <2>1, <2>2
<1> QED
  BY <1>10, <1>11, <1>14, <1>15, <1>16, <1>17 DEF ClientInv

LEMMA SignPairStep ==
  ASSUME ClientInv, NEW c \in Calls, call[c].at = "sent", NEW status \in {"ok", "lost"},
         SignPair(c, status), UNCHANGED <<stored, ui, cards, controls, op, overtaken>>,
         faults' \in 0..MaxFaults, faults' = 0 => faults = 0 /\ status = "ok"
  PROVE  ClientInv'
<1> DEFINE a == Answer(status, signed + 1, TRUE)
<1>1. Types /\ Fits(call[c])
  BY DEF ClientInv, CallInv
<1>2. /\ call[c].good /\ Signs(c) /\ signed < MaxPairs /\ signed' = signed + 1
      /\ spent' = (IF call[c].job = "login" THEN spent ELSE spent \cup {call[c].pair})
      /\ Reply(c, a) /\ UNCHANGED <<expired, epoch>>
  BY DEF SignPair
<1>3. call[c].job # "login" => call[c].pair # NoPair
  BY <1>1, <1>2 DEF Fits, Signs
<1>4. a.status = status /\ a.new = signed + 1 /\ a.ran = TRUE /\ a = Answer(a.status, a.new, a.ran)
  BY DEF Answer
<1>5. signed' \in Pairs /\ epoch' \in 0..signed'
  BY <1>1, <1>2, MaxPairsAssumption DEF Types, Pairs, Known
<1>6. spent' = spent \/ (spent' = spent \cup {call[c].pair} /\ call[c].pair # NoPair)
  BY <1>2, <1>3
<1> HIDE DEF a
<1> QED
  BY <1>2, <1>4, <1>5, <1>6, ReplyStep

LEMMA PlainReplyStep ==
  ASSUME ClientInv, NEW c \in Calls, call[c].at = "sent",
         NEW status \in {"ok", "unauthorized", "refused", "lost"}, NEW ran \in BOOLEAN,
         Reply(c, Answer(status, NoPair, ran)), Signs(c) => status # "ok",
         status = "unauthorized" => ~ran,
         UNCHANGED <<stored, ui, cards, controls, op, overtaken, expired, signed, spent>>,
         epoch' \in {epoch, signed},
         faults' \in 0..MaxFaults, faults' = 0 => faults = 0 /\ status = "ok"
  PROVE  ClientInv'
<1> DEFINE a == Answer(status, NoPair, ran)
<1>1. Types
  BY DEF ClientInv
<1>2. a.status = status /\ a.new = NoPair /\ a.ran = ran /\ a = Answer(a.status, a.new, a.ran)
  BY DEF Answer
<1>3. signed' \in Pairs /\ epoch' \in 0..signed'
  BY <1>1 DEF Types, Pairs, Known
<1> HIDE DEF a
<1>4. Reply(c, a)
  BY DEF a
<1> QED
  BY <1>2, <1>3, <1>4, ReplyStep

\* A refresh token is spent and no pair is signed for it.
LEMMA SpendInVainStep ==
  ASSUME ClientInv, NEW c \in Calls, call[c].at = "sent", SpendInVain(c),
         UNCHANGED <<stored, ui, cards, controls, op, overtaken>>,
         faults' \in 0..MaxFaults, faults' # 0
  PROVE  ClientInv'
<1>1. Types /\ Fits(call[c])
  BY DEF ClientInv, CallInv
<1>2. PICK status \in {"unauthorized", "lost"} : Reply(c, Answer(status, NoPair, FALSE))
  BY DEF SpendInVain
<1>3. /\ call[c].good /\ Signs(c) /\ call[c].job # "login"
      /\ spent' = spent \cup {call[c].pair} /\ UNCHANGED <<signed, expired, epoch>>
  BY DEF SpendInVain
<1>4. call[c].pair # NoPair
  BY <1>1, <1>3 DEF Fits, Signs
<1>5. signed' \in Pairs /\ epoch' \in 0..signed'
  BY <1>1, <1>3 DEF Types, Pairs, Known
<1> DEFINE a == Answer(status, NoPair, FALSE)
<1>6. a.status = status /\ a.new = NoPair /\ a.ran = FALSE /\ a = Answer(a.status, a.new, a.ran)
  BY DEF Answer
<1>7. Reply(c, a)
  BY <1>2
<1> HIDE DEF a
<1> QED
  BY <1>3, <1>4, <1>5, <1>6, <1>7, ReplyStep

LEMMA ServeStep ==
  ASSUME ClientInv, NEW c \in Calls, Serve(c)
  PROVE  ClientInv'
<1>1. /\ call[c].at = "sent" /\ faults' = faults
      /\ UNCHANGED <<stored, ui, cards, controls, op, overtaken>>
  BY DEF Serve
<1>2. faults' \in 0..MaxFaults
  BY <1>1 DEF ClientInv, Types
<1>3. CASE SignPair(c, "ok")
  BY <1>1, <1>2, <1>3, SignPairStep
<1>4. CASE EndSessions(c, "ok")
  BY <1>1, <1>2, <1>4, PlainReplyStep DEF EndSessions
<1> QED
  BY <1>3, <1>4 DEF Serve

LEMMA FaultStep ==
  ASSUME ClientInv, NEW c \in Calls, Fault(c)
  PROVE  ClientInv'
<1>1. /\ call[c].at = "sent" /\ faults' = faults + 1 /\ faults < MaxFaults
      /\ UNCHANGED <<stored, ui, cards, controls, op, overtaken>>
  BY DEF Fault
<1>2. faults' \in 0..MaxFaults /\ faults' # 0
  BY <1>1, MaxFaultsAssumption DEF ClientInv, Types
<1>3. CASE SignPair(c, "lost")
  BY <1>1, <1>2, <1>3, SignPairStep
<1>4. CASE EndSessions(c, "lost") \/ EndSessions(c, "refused")
  BY <1>1, <1>2, <1>4, PlainReplyStep DEF EndSessions
<1>5. CASE SpendInVain(c)
  BY <1>1, <1>2, <1>5, SpendInVainStep
<1>6. CASE (\E a \in FaultAnswers(c) : Reply(c, a)) /\ UNCHANGED server
  <2>1. UNCHANGED <<signed, spent, expired, epoch>>
    BY <1>6 DEF server
  <2>2. PICK a \in FaultAnswers(c) : Reply(c, a)
    BY <1>6
  <2>3. \E status \in {"unauthorized", "refused", "lost"}, ran \in BOOLEAN :
          a = Answer(status, NoPair, ran) /\ (status = "unauthorized" => ~ran)
    <3> DEFINE acts ==
          call[c].good /\ call[c].job \in {"verify", "api", "form", "logout"} /\ ~Signs(c)
    <3>1. acts \in BOOLEAN
      BY Zenon
    <3>2. \/ \E status \in {"refused", "lost"} : a = Answer(status, NoPair, FALSE)
          \/ \E status \in {"refused", "lost"} : a = Answer(status, NoPair, acts)
          \/ a = Answer("unauthorized", NoPair, FALSE)
      BY <2>2 DEF FaultAnswers
    <3> QED
      BY <3>1, <3>2
  <2> QED
    BY <1>1, <1>2, <2>1, <2>2, <2>3, PlainReplyStep
<1> QED
  BY <1>3, <1>4, <1>5, <1>6 DEF Fault

LEMMA ExpireStep ==
  ASSUME ClientInv, NEW p \in Pairs, Expire(p)
  PROVE  ClientInv'
<1>1. Types
  BY DEF ClientInv
<1>2. Held(p) /\ expired' = expired \cup {p} /\ UNCHANGED <<tab, signed, spent, epoch, faults>>
  BY DEF Expire
<1>3. UNCHANGED <<stored, ui, cards, controls, op, call, overtaken, signed, spent, epoch, faults>>
  BY <1>2 DEF tab
<1>4. p \in Known
  BY <1>1, <1>2 DEF Held, Types, CallRecord
<1>5. expired' \subseteq 1..signed'
  BY <1>1, <1>2, <1>3, <1>4 DEF Types, Known, Pairs
<1>6. Known' = Known /\ CallRecord' = CallRecord /\ OpRecord' = OpRecord
  BY <1>3 DEF Known, CallRecord, OpRecord
<1>7. Types'
  BY <1>1, <1>3, <1>5, <1>6 DEF Types
<1>8. \A c \in Calls : CallInv(c)'
  BY <1>3, <1>6 DEF ClientInv, CallInv, Fits
<1>9. \A c \in Calls : FreshInv(c)'
  BY <1>3 DEF ClientInv, FreshInv, Seen
<1>10. \A h \in Handlers : SlotInv(h)'
  BY <1>3 DEF ClientInv, SlotInv, Idle
<1>11. QuietInv' /\ StoredPairUsable' /\ LockIsHeld'
  BY <1>3 DEF ClientInv, QuietInv, StoredPairUsable, LockIsHeld
<1> QED
  BY <1>7, <1>8, <1>9, <1>10, <1>11 DEF ClientInv

-----------------------------------------------------------------------------
(* The page is loaded. *)

\* What holds when a tab has just been opened.
Opened ==
  /\ LET o == Open(stored) IN
     ui = o.ui /\ controls = o.controls /\ op = o.op /\ call = o.call
  /\ cards = FALSE /\ overtaken = FALSE
  /\ stored \in [access : Known, refresh : Known] /\ stored.access = stored.refresh
  /\ signed \in Pairs /\ epoch \in Known /\ spent \subseteq 1..signed /\ expired \subseteq 1..signed
  /\ faults \in 0..MaxFaults
  /\ faults = 0 => stored.refresh \notin spent

LEMMA OpenedInv == Opened => ClientInv
<1> SUFFICES ASSUME Opened PROVE ClientInv
  OBVIOUS
<1> DEFINE p == stored.access
<1> DEFINE f == CHOOSE x \in Handlers : TRUE
<1> DEFINE o == Op("startup", "verify", p)
<1> DEFINE r == Request("verify", "first", p)
<1>1. /\ ui = p /\ controls = {"submit"} \cup LogoutIf(p)
      /\ op = [x \in Handlers |-> IF x = f /\ p # NoPair THEN o ELSE NoOp]
      /\ call = [d \in Calls |-> IF d = <<f, 1>> /\ p # NoPair THEN r ELSE NoCall]
  BY DEF Opened, Open
<1>2. NoPair \in Known /\ p \in Known /\ stored.refresh = p
  BY DEF Opened, Known, NoPair, Pairs
<1>3. o \in OpRecord /\ NoOp \in OpRecord
  BY <1>2 DEF OpRecord, Op, NoOp, Kinds
<1>4. NoAnswer \in [status : {"none", "ok", "unauthorized", "refused", "lost"},
                    new : Known, ran : BOOLEAN]
  BY <1>2 DEF NoAnswer, Answer
<1>5. r \in CallRecord /\ NoCall \in CallRecord
  BY <1>2, <1>4, GoodIsBoolean DEF CallRecord, Request, NoCall, Jobs, Legs
<1> HIDE DEF f
<1>6. Types
  <2>1. op \in [Handlers -> OpRecord] /\ call \in [Calls -> CallRecord]
    BY <1>1, <1>3, <1>5
  <2>2. controls \subseteq Buttons
    BY <1>1 DEF LogoutIf, Buttons
  <2> QED
    BY <1>1, <1>2, <2>1, <2>2 DEF Opened, Types
<1>7. /\ Fits(r) /\ Fits(NoCall) /\ r.job = "verify" /\ r.pair = p /\ NoCall.job = "logout"
      /\ r.answer = NoAnswer /\ NoCall.answer = NoAnswer /\ r.at = "sent" /\ NoCall.at = "idle"
  BY <1>2, <1>6, NoCallFits, RequestFits DEF Jobs, Legs
<1>8. /\ o.kind = "startup" /\ o.at = "verify" /\ o.pair = p /\ o # NoOp
      /\ NoOp.kind = "none" /\ NoOp.at = "none" /\ NoOp.pair = NoPair
  BY DEF Op, NoOp
<1> HIDE DEF r, o, p
<1>9. \A c \in Calls : call[c] \in {r, NoCall} /\ (p = NoPair => call[c] = NoCall)
  BY <1>1
<1>10. \A c \in Calls : CallInv(c) /\ FreshInv(c)
  BY <1>7, <1>9, NoAnswerNew DEF CallInv, FreshInv
<1>11. \A h \in Handlers : SlotInv(h)
  <2> SUFFICES ASSUME NEW h \in Handlers PROVE SlotInv(h)
    OBVIOUS
  <2>1. CASE h = f /\ p # NoPair
    <3>1. op[h] = o /\ call[<<h, 1>>] = r /\ call[<<h, 2>>] = NoCall
      BY <1>1, <2>1, SlotCalls
    <3> QED
      BY <1>7, <1>8, <2>1, <3>1 DEF SlotInv, Idle
  <2>2. CASE h # f \/ p = NoPair
    <3>1. op[h] = NoOp /\ call[<<h, 1>>] = NoCall /\ call[<<h, 2>>] = NoCall
      BY <1>1, <2>2, SlotCalls
    <3> QED
      BY <1>8, <3>1 DEF SlotInv, Idle
  <2> QED
    BY <2>1, <2>2
<1>12. QuietInv
  <2>1. p = NoPair => stored = NoTokens
    BY <1>2 DEF Opened, NoTokens, p
  <2> QED
    BY <1>1, <1>7, <1>9, <2>1 DEF QuietInv, Opened
<1>13. StoredPairUsable
  BY DEF Opened, StoredPairUsable
<1>14. LockIsHeld
  BY <1>1 DEF LockIsHeld
<1> QED
  BY <1>6, <1>10, <1>11, <1>12, <1>13, <1>14 DEF ClientInv

LEMMA OpenedInvNext == Opened' => ClientInv'
BY OpenedInv, PTL

LEMMA ReloadStep ==
  ASSUME ClientInv, Reload
  PROVE  ClientInv'
<1>1. Types /\ StoredPairUsable
  BY DEF ClientInv
<1>2. UNCHANGED <<stored, signed, spent, expired, epoch>>
  BY DEF Reload, server
<1>3. faults' \in 0..MaxFaults /\ faults' # 0
  BY <1>1, MaxFaultsAssumption DEF Reload, Types
<1>4. Known' = Known
  BY <1>2 DEF Known
<1>5. /\ stored' \in [access : Known, refresh : Known]' /\ stored'.access = stored'.refresh
      /\ signed' \in Pairs /\ epoch' \in Known' /\ spent' \subseteq 1..signed'
      /\ expired' \subseteq 1..signed'
  BY <1>1, <1>2, <1>4 DEF Types, StoredPairUsable
<1>6. \A p : Request("verify", "first", p)' = Request("verify", "first", p)
  BY <1>2 DEF Request, Good, AccessGood, RefreshGood
<1>7. Open(stored)' = Open(stored)
  BY <1>2, <1>6 DEF Open
<1>8. /\ ui' = Open(stored).ui /\ controls' = Open(stored).controls
      /\ op' = Open(stored).op /\ call' = Open(stored).call
      /\ cards' = FALSE /\ overtaken' = FALSE
  BY DEF Reload
<1> QED
  BY <1>3, <1>5, <1>7, <1>8, OpenedInvNext DEF Opened

-----------------------------------------------------------------------------
(* The invariant, and what follows from it *)

LEMMA ClientInit == Init => ClientInv
<1> SUFFICES ASSUME Init PROVE ClientInv
  OBVIOUS
<1>1. signed = 1 /\ spent = {} /\ expired = {} /\ epoch = 0 /\ faults = 0
      /\ stored \in {NoTokens, Both(1)} /\ cards = FALSE /\ overtaken = FALSE
  BY DEF Init
<1>2. Known = {0, 1} /\ signed \in Pairs /\ 0 \in 0..MaxFaults
  BY <1>1, MaxPairsAssumption, MaxFaultsAssumption DEF Known, Pairs
<1>3. stored \in [access : Known, refresh : Known] /\ stored.access = stored.refresh
  BY <1>1, <1>2 DEF NoTokens, Both, NoPair
<1>4. LET o == Open(stored) IN
      ui = o.ui /\ controls = o.controls /\ op = o.op /\ call = o.call
  BY DEF Init
<1>5. Opened
  BY <1>1, <1>2, <1>3, <1>4 DEF Opened
<1> QED
  BY <1>5, OpenedInv

LEMMA ClientStep == ClientInv /\ [Next]_vars => ClientInv'
<1> SUFFICES ASSUME ClientInv, [Next]_vars PROVE ClientInv'
  OBVIOUS
<1>1. CASE \E h \in Handlers : Event(h)
  BY <1>1, EventStep
<1>2. CASE \E c \in Calls : Serve(c) \/ Deliver(c) \/ Fault(c)
  BY <1>2, ServeStep, Delivered, FaultStep
<1>3. CASE \E p \in Pairs : Expire(p)
  BY <1>3, ExpireStep
<1>4. CASE Reload
  BY <1>4, ReloadStep
<1>5. CASE UNCHANGED vars
  <2>1. UNCHANGED <<stored, ui, cards, controls, op, call, overtaken>>
        /\ UNCHANGED <<signed, spent, expired, epoch, faults>>
    BY <1>5 DEF vars, tab, server
  <2>2. Types' /\ \A c \in Calls : CallInv(c)'
    BY <2>1 DEF ClientInv, Types, CallInv, Fits, CallRecord, OpRecord, Known
  <2>3. \A c \in Calls : FreshInv(c)'
    BY <2>1 DEF ClientInv, FreshInv, Seen
  <2>4. \A h \in Handlers : SlotInv(h)'
    BY <2>1 DEF ClientInv, SlotInv, Idle
  <2>5. QuietInv' /\ StoredPairUsable' /\ LockIsHeld'
    BY <2>1 DEF ClientInv, QuietInv, StoredPairUsable, LockIsHeld
  <2> QED
    BY <2>2, <2>3, <2>4, <2>5 DEF ClientInv
<1> QED
  BY <1>1, <1>2, <1>3, <1>4, <1>5 DEF Next

\* The inductive invariant: what each suspended handler of app.js waits for, and
\* that a pair signed by the server is nobody's until its answer arrives.
THEOREM ClientInvariant == Spec => []ClientInv
BY ClientInit, ClientStep, PTL DEF Spec

LEMMA ClientInvTypes == ClientInv => TypeOK
<1> SUFFICES ASSUME ClientInv PROVE TypeOK
  OBVIOUS
<1>1. Types /\ \A h \in Handlers : SlotInv(h)
  BY DEF ClientInv
<1>2. signed \in Nat /\ signed <= MaxPairs /\ Known \subseteq 0..MaxPairs
  BY <1>1, MaxPairsAssumption DEF Types, Pairs, Known
<1>3. CallRecord \subseteq CallType
  BY <1>2 DEF CallRecord, CallType, Legs
<1>4. \A h \in Handlers : op[h] \in OpType \cup {NoOp}
  <2> SUFFICES ASSUME NEW h \in Handlers, op[h] # NoOp PROVE op[h] \in OpType
    OBVIOUS
  <2>1. op[h].kind # "none" /\ op[h].at # "none" /\ op[h] \in OpRecord
    BY <1>1 DEF SlotInv, Types
  <2>2. op[h] = [kind |-> op[h].kind, at |-> op[h].at, pair |-> op[h].pair]
    BY <2>1 DEF OpRecord
  <2>3. /\ op[h].kind \in Kinds /\ op[h].pair \in 0..MaxPairs
        /\ op[h].at \in {"post", "load", "verify", "renew", "reverify"}
    BY <1>2, <2>1 DEF OpRecord
  <2> QED
    BY <2>2, <2>3 DEF OpType
<1>5. op \in [Handlers -> OpType \cup {NoOp}]
  BY <1>1, <1>4 DEF Types
<1>6. call \in [Calls -> CallType]
  BY <1>1, <1>3 DEF Types
<1> QED
  BY <1>1, <1>5, <1>6 DEF Types, TypeOK, Known

\* state, localStorage and the requests of app.js keep the types they start
\* with; the pairs the tab holds are ones the server has signed.
THEOREM ClientTypeCorrect == Spec => []TypeOK
BY ClientInvariant, ClientInvTypes, PTL

\* persistTokens stores both tokens of one answer: whatever handlers race, the
\* refresh token in localStorage is a spent one only while tryRefreshTokens, or
\* the exchange of bootstrapSession, waits for its successor.
THEOREM StoredPairStaysUsable == Spec => []StoredPairUsable
<1>1. ClientInv => StoredPairUsable
  BY DEF ClientInv
<1> QED
  BY <1>1, ClientInvariant, PTL

\* fetchWithAutoRefresh repeats a request after a 401 only: a request that the
\* server has carried out is not sent again, whichever answers are lost.
THEOREM RequestsCarriedOutOnce == Spec => []CarriedOutOnce
<1>1. ClientInv => CarriedOutOnce
  BY DEF ClientInv, CallInv, Fits, CarriedOutOnce
<1> QED
  BY <1>1, ClientInvariant, PTL

\* The logout handler and clearAuth leave no token behind, and none comes back
\* unless a request of the old session was under way.
THEOREM LogoutStaysClean == Spec => []LogoutIsClean
<1>1. ClientInv => LogoutIsClean
  BY DEF ClientInv, QuietInv, LogoutIsClean
<1> QED
  BY <1>1, ClientInvariant, PTL

\* setLoading(true) always has its setLoading(false) to come: somebody's
\* "finally" will enable the buttons again.
THEOREM LockIsSomebodys == Spec => []LockIsHeld
<1>1. ClientInv => LockIsHeld
  BY DEF ClientInv
<1> QED
  BY <1>1, ClientInvariant, PTL

-----------------------------------------------------------------------------
(* A property of steps *)

\* The refresh token a step stores has never been exchanged.
StoresUnspent ==
  stored' # stored /\ stored' # NoTokens => stored'.refresh \notin spent'

LEMMA DeliverStores ==
  ASSUME ClientInv, NEW c \in Calls, Deliver(c)
  PROVE  StoresUnspent
<1>1. spent' = spent
  BY DEF Deliver, server
<1>2. PICK a \in Answers(c) :
        TryRefresh(c, a) \/ Retry(c, a) \/ RefreshFailed(c, a) \/ Settle(c, a)
  BY DEF Deliver
<1>3. a.new = call[c].answer.new
  BY AnswersArrive DEF Arrives
<1>4. a.new \notin spent
  <2>1. NoPair \notin spent
    BY DEF ClientInv, Types, Known, NoPair, Pairs
  <2> QED
    BY <1>3, <2>1 DEF ClientInv, FreshInv
<1>5. stored' \in {stored, NoTokens, Both(a.new)}
  <2>1. CASE TryRefresh(c, a)
    BY <2>1 DEF TryRefresh
  <2>2. CASE Retry(c, a)
    BY <2>2 DEF Retry, PersistTokens
  <2>3. CASE RefreshFailed(c, a)
    BY <2>3 DEF RefreshFailed
  <2>4. CASE Settle(c, a)
    BY <2>4 DEF Settle, LoginAnswered, LogoutAnswered, StartupAnswered, SignIn, ClearSession,
                PersistTokens
  <2> QED
    BY <1>2, <2>1, <2>2, <2>3, <2>4
<1> QED
  BY <1>1, <1>4, <1>5 DEF StoresUnspent, Both

\* persistTokens is called with the tokens of an answer as it arrives, so that no
\* handler, however late, stores a refresh token already exchanged.
THEOREM StoredPairIsNew == Spec => [][StoresUnspent]_vars
<1>1. ClientInv /\ [Next]_vars => [StoresUnspent]_vars
  <2> SUFFICES ASSUME ClientInv, Next PROVE StoresUnspent
    OBVIOUS
  <2>1. CASE \E c \in Calls : Deliver(c)
    BY <2>1, DeliverStores
  <2>2. CASE ~ \E c \in Calls : Deliver(c)
    <3>1. stored' = stored
      BY <2>2 DEF Next, Event, Login, SendForm, ChangePassword, Logout, Act, Begin, Load,
                  Serve, Fault, Expire, tab, Reload
    <3> QED
      BY <3>1 DEF StoresUnspent
  <2> QED
    BY <2>1, <2>2
<1> QED
  BY <1>1, ClientInvariant, PTL DEF Spec
=============================================================================
