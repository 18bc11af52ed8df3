# Desk booking in TLA+

A verification project for the desk-booking application: a Fastify/TypeScript
HTTP server over PostgreSQL, a worker process that sends mail, and a small web
client. The models are written from the source under `src/`; every definition
that stands for code is listed with its lines in `PROJECT.json` ("map").

## 1. Inventory

| Component | State it keeps | Operations | Talks to |
|---|---|---|---|
| Reservations (`application/reservations`, `infrastructure/reservations`, migration 004) | table `reservations` with two partial unique indexes and an office trigger | `POST /reservations`, `DELETE /reservations/:id`, listing | database, through one transaction (create) or autocommit statements (cancel) |
| Reservation date (`domain/reservations/value-objects`) | none | validate `YYYY-MM-DD`, compare with today (UTC) | clock |
| E-mail outbox and worker (`workers/email-outbox-worker.ts`, `pg-email-outbox.ts`, `mailer.ts`) | table `email_outbox`; the batch in a worker's memory | enqueue; claim, send, mark; stop on a signal | database, SMTP server, one or more worker processes |
| Sessions and tokens (`jwt-token.service.ts`, `plugins/auth.ts`, `auth-session-lifecycle.service.ts`) | tables `token_revocation`, `users.token_valid_after`; the tokens themselves are with the client | login, refresh, check of a token, clean-up | database, clock |
| Password change and reset (`change-password`, `reset-password`, `pg-password-reset-repository.ts`, `pg-user-repository.ts`) | `users.password_hash`, `password_resets` | change, redeem a mailed reset; a late registration overwrites the password too | database; the first two end sessions |
| Accounts (`register`, `confirm-email`, `forgot-password`, `email-verification.service.ts`) | `users`, `email_verifications`, `password_resets` | register, confirm, ask for a reset | database, outbox |
| Pool and transactions (`plugins/db.ts`, `pg-transaction-manager.ts`) | idle connections | connect, BEGIN, COMMIT, ROLLBACK, release | every handler |
| Recovery rate limiter (`recovery-rate-limiter.ts`) | a window per identifier, in the memory of one process | consume | clock |
| Listings (`pg-reservation-query-repository.ts`, `pg-desk-repository.ts`) | none; read `reservations` | `GET /reservations/me`, `GET /desks` | database |
| Web client (`src/frontend/src`) | two tokens in `localStorage`, the state of the screen | event handlers, renewal on 401, start-up, logout | HTTP server |
| Migrations (`scripts/db/migrate.ts`) | table `schema_migrations` | run the missing files | database, other processes that migrate |
| Metrics, seeds, value objects, route limits, wiring | see section 8 | | |

Components interact through the database (rows, row locks, index entries), the
connection pool, the clock and the tokens a client carries from one request to
the next. There is no shared memory between requests but the pool, the rate
limiter and the metrics.

**What is hard.** Requests interleave at every `await`, that is at every SQL
statement, under READ COMMITTED; a check made by one statement may be stale at
the next one. A statement, a COMMIT or an answer of the SMTP server may be lost
after it took effect. Workers crash between claim and mark. Times come from two
places with two resolutions: whole seconds in a JWT, microseconds from
`now()`, which is the *start* of the transaction. The pool is bounded and
waits without a time limit. In the client, handlers overlap at every `await`,
and two requests answered 401 renew the session at once. `PROJECT.json`
("hazards") lists each at its line.

**What makes each component correct.**

- Reservations: no desk and no user is booked twice for a day; every answer is
  true at some moment between the request and the answer; of two cancellations
  one succeeds; no circle of waits; the two lists agree and are complete.
- Outbox: a claimed row has one owner; sends are bounded by the attempts;
  second copies only after a lost answer; every mail is settled; a signal
  loses nothing.
- Sessions: a spent refresh token is worth nothing; new tokens are signed only
  after the old one is spent; a reset is redeemed once; a new password ends
  the sessions before it, to the resolution of `iat`.
- Accounts: one confirmation; tokens in the database were mailed; connections
  go back; every request is answered while the pool is large enough.
- Date: exactly the dates of the calendar are accepted, none is refused as past
  that is not, and a past one is admitted only if a month ends while the clock is
  read.
- Rate limiter: a bound on any window, and an end to every lockout.
- Client: it never settles on a token it has used up; no request is carried out
  twice; nothing of a session survives its logout; no lock of the screen is
  left behind.
- Migrations: every file once and in order, whoever is killed.

## 2. Modules

| Module | Models | Uses |
|---|---|---|
| `Calendar`, `CalendarProofs` | the calendar of ECMAScript (`Date.UTC`, the `getUTC` methods) and the rule of the leap years | |
| `ReservationData` | rows, requests, the index predicates, the office trigger | `Calendar` |
| `Booking` | the abstract reservation service: each request decided in one step | `ReservationData` |
| `Reservations` | the endpoints, statement by statement | `ReservationData`; `B == INSTANCE Booking` |
| `Listings` | both read endpoints, over the state of `Reservations` | `Reservations` |
| `ReservationsProofs` | theorems about both | `Listings`, TLAPS |
| `MailQueue` | the abstract outbox: a queue without workers | |
| `EmailOutbox` | the table and any number of workers | `Queue == INSTANCE MailQueue` |
| `EmailOutboxProofs` | theorems about it | `EmailOutbox`, TLAPS |
| `Sessions`, `SessionsProofs` | one account's password, tokens and resets | |
| `Accounts`, `AccountsProofs` | register, confirm, forgot-password over a bounded pool | |
| `ReservationDate`, `ReservationDateProofs` | the calendar test and the comparison with today | `Calendar`, `CalendarProofs` |
| `RecoveryRateLimiter` | `consume`, the clock, restarts, an observer | |
| `Migrations` | several processes that run `migrate.ts` | |
| `ServerPartsProofs` | theorems about the last two | both, TLAPS |
| `ClientSession`, `ClientSessionProofs` | one tab of the web client and what the server answers it | |
| `MCReservations`, `MCEmailOutbox`, `MCSessions`, `MCAccounts`, `MCClientSession` | symmetry sets and derived constants for TLC | the module named |
| `MCServer` | date, rate limiter and migrations side by side, for one run | the three |

In the server's modules a slot is a request in flight. `pc[s]` is the statement
its handler has to execute next, `req[s]` what it was asked, `outcome[s]` what
it will answer. `Proceed` and `Settle` are the two ways a handler goes on. One
action is one database statement with the code up to the next `await`; a
transaction is the interval between two places of `pc`, and what it has written
but not committed is read off `pc` and `req`. `Fault(s)` loses the statement
slot `s` has under way or its answer: the request ends with an error, and a
COMMIT or an autocommit statement may have taken effect.

Definitions whose comment begins with "Mutant:" are wrong on purpose: each is a
plausible bug in the definition that follows it, and shows which property would
catch it. They are used by nothing else.

### Reservations

`rows` is the committed table. A create goes
`date, desk, user, insUser, insDesk, commit` (or `rollback`), a cancellation
`find, cancelDate, update`. The INSERT is two steps because PostgreSQL enters
the row into the unique indexes one after the other, in the order in which they
were created; a slot between the two holds a user/day entry, a slot at `commit`
both. At an index an INSERT waits for a transaction in progress that holds the
same key and fails on a committed one. The trigger that fills and compares
`office_id` runs before the first index.

A day is the number of a UTC day (`Calendar`), and `today` may change between any
two steps. The comparison with "today" (`CheckDate`, `CheckFoundDate`) follows
`isReservationDateInPast`: the year, the month and the day of the month are read
from the clock one after the other, so that midnights may fall between the
readings (`Todays`). `since[s]` is the day on which the handler was last resumed,
and the first reading is no earlier; the step stands for the last one. What the
comparison ensures is `NotPast`: the day was not past when the request arrived, or
a month has ended since. `Booking` promises that and no more. `ReservationDate`
looks at the same three readings one by one.

Inputs that the schemas reject are left out; so is an unknown desk id, which ends
in the same error as a wrong office. Faults are not bounded.

### Listings

Each endpoint is one SELECT, which sees one snapshot of the committed rows, so
each is an operator over `rows`: `MyList` with the row guard
(`isReservationRecordRow`), `DeskList` with the left join. `desks.name` may be
null (migration 004, line 105): the guard of the own list wants a name and drops
the row without one, that of the desk list admits null. `NamelessDesks` are the
desks without a name. Its properties are
invariants of everything the commands can do to the table.

### EmailOutbox and MailQueue

Rows are numbered by `created_at`; `wait[m]` is how far `next_retry_at` lies
ahead. A worker goes `sleep, claiming, batch, sending, marking | failing,
batch, ..., sleep`. Between `claiming` and its commit the rows are locked
(SKIP LOCKED). Faults: the claim or its COMMIT answer lost, an SMTP answer lost
after delivery, either mark lost (applied or not), a crash anywhere. `Restart`
is what a supervisor does. `emailMode` is `EMAIL_MODE`.

`MailQueue` says what is left of this for whoever enqueues a mail. In the
refinement a mail is *taken* from the COMMIT of its claim until its worker lets
go of it, whatever its row says meanwhile (`MailPhase`), and a try counts once
the worker lets go (`MailTries`).

### Sessions

One confirmed account, which may just have been confirmed: a registration of its
address that found it unconfirmed may still be on its way (`Init`), and its
UPDATE overwrites the password (`updateCredentials`), leaving `token_valid_after`
alone. `pair[p]` is an access and a refresh token signed
together, with the clock at that time; `IssuedAt` rounds to whole seconds as
`iat` does. `RefreshReq` brings a refresh token; a protected endpoint accepts
both types, as `requireAuth` does not look at the type. Changing and resetting
the password are transactions whose `now()` is fixed by `Begin`. `late`,
`spent`, `redeemed`, `arrived` are history: no action reads them.
`CleanupExpired` is `cleanupExpired`, which nothing calls at present but which
its comment and the procedure in migration 003 offer to a background job; the
run includes it.

### Accounts

`poolMax` is `DB_POOL_MAX` and `free` counts idle connections. A transaction
holds one from `connect` to its end; a query outside a transaction needs one for
its step. `Enqueue` needs a *second* one in a registration, because the outbox
is built over the pool (`auth.container.ts:59`), and its row is committed at
once. Row locks and the unique index on `email` make `InsertUser`,
`UpdateCredentials` and `ConfirmUser` wait. A confirmation that finds its user
confirmed by another link is answered so after the COMMIT of its consumed token
(`CommitConsumed`). `Fault` may hit every statement, BEGIN and both kinds of COMMIT
included. `Expire` is time passing for one token.

### ReservationDate

`IsReservationDate` is the test of `createReservationDate` on numbers: ranges,
then the way through `Date.UTC` and back, written from ECMAScript's definitions
(`DayFromYear`, `YearOf`, ...). The reference it is compared with,
`InCalendar`, is the leap year rule and the lengths of the months. "Today" is
put together from three readings (`ReadParts`) between which midnight may fall.
A request's date is any three natural numbers (`DateAssumption`): the pattern
has been tested before. The clock shows a day of the Unix era; a clock before
1970 is not considered. Any number of midnights may fall between two readings.

### RecoveryRateLimiter

`consume` has no `await`, so it is one step with three outcomes: `OpenBucket`,
`CountCall`, `Refuse`. An observer may begin to count at any moment (`Observe`);
what he sees in one window is what the bound is about. The callers are
`forgotPassword` and `resetPassword` of the controller; keys are the hashed
identifiers.

### Migrations

A process goes `start, next, sql, record, commit, next, ..., done`, or by
`rollback` to `failed`. `migrate.ts` sends BEGIN, the file, the record and
COMMIT through the pool; with one query at a time the one idle client serves
them all, and a query that fails takes its client with it, so that what it had
done is rolled back with the connection. They are therefore one transaction of
one process, and the locks of its DDL are what `SqlLocked` says.

### ClientSession

One tab. A step is an event, or the arrival of one answer, with the code up to
the next `await`; the server's part of a request (`Serve`) is a step before the
answer arrives, or part of `Deliver` when it leaves no trace there
(`PlainAnswers`). Pairs of tokens are numbered; `expired`, `spent` and `epoch`
(the last change of the password) are what the server would test, in the terms
of `Sessions`. Facts of the code that matter:

- A request answered 401 exchanges the refresh token stored *by then* and is
  sent again once. A wrong current password is answered 401 as well, so that
  the client renews the session and repeats the change.
- A refused exchange clears the stored tokens, whatever they are by then; an
  exchange whose answer is lost does not. `state.token` stays in either case,
  and `authHeaders` prefers the stored token to it.
- `setLoading` is a flag, not a counter. The overlay stops the mouse on the
  whole screen, not the keyboard; the buttons of the desks and the date field
  are not disabled. The start-up never locks the screen.
- Promise.all ends with the first failure; the other request goes on.

Reductions: `Free` uses one of the free slots, since they are alike; `Due`
orders the two requests of one `refreshData` while they are in the same state;
the answers of forms, of desks and of recovery are one kind of request each;
that a refresh token expires by itself is not a step (it is refused as a spent
one is).

`Fault` is what fails between the tab and the database. `requireAuth` answers 401
whatever fails in it, and so do `verify` and `refresh`: the client then renews the
session and sends the request again (`FaultAnswers`). Every such 401 is given
before the endpoint acts; a 500 or a lost answer may come after it has acted. A
refresh token may be recorded as spent with no pair signed for it (`SpendInVain`).

## 3. Runs

| Run | Question | Bounds |
|---|---|---|
| `Reservations_race` | the inductive invariant, double booking, cancellation, circles of waits, both lists, refinement of `Booking` | 2 slots, 2 users, 2 desks (1 nameless), 2 offices, 2 days of the clock and 2 of the requests, 2 rows, any number of faults |
| `Listings_cancelled` | refutes `HistoryComplete` | 1 slot |
| `EmailOutbox_faults` | six invariants, `EveryMailSettled`, refinement of `MailQueue` | 2 workers, 3 mails, batch 2, 2 attempts, 1 fault, one worker may be signalled, both modes |
| `EmailOutbox_retry` | refutes `RetriedAfterFault` | 1 worker, 1 mail, 1 fault |
| `Sessions_race` | types, four token invariants, `ChangeEndsSessions` | 2 slots, 2 passwords, 2 pairs, 1 reset, 3 requests (late registrations among them), half-second ticks 0 to 4, 1 fault |
| `Sessions_ended` | refutes `EndedStaysEnded` | 1 pair, 3 requests |
| `Accounts_race` | pool, confirmations, mails, `EveryRequestAnswered` | 2 slots, pools of 1, 2 and 3, 2 tokens, 1 fault |
| `Accounts_outbox` | refutes `MailIsTransactional` | 1 slot, 1 fault |
| `Accounts_alone` | refutes `ConfirmedIsLeftAlone` | 2 slots |
| `Client_race` | types and four invariants of the client | 2 handlers of 2 requests each, 2 pairs, 1 fault or reload |
| `Client_renewal` | refutes `SessionRenewable` | 1 handler, 4 pairs, no fault |
| `Server_parts` | rate limiter, date and migrations | 2 keys, limit 2, window 3, clock to 8, 1 restart; three ends of months and 392 dates; 2 processes, 3 files |

`Server_parts` is the disjoint union of three instances: the first state picks
one of them and the others never move.

**Why these bounds.** Every conflict in reservations is between two requests
over one key, and two desks, users and days let a request conflict on one key
and not on the other; the two days of the clock are the end of a month, the
requests are for the day before and for the second; one of the desks has no name.
A slot is used again and again, so that longer histories
build up in the rows. The theorems of section 5 cover more slots. One mail more
than a batch takes makes ordering and starvation visible, two attempts make
"failed, retried, given up" happen, and one fault is enough to lose every kind
of answer; the bounds of `DuplicatesBounded` and `StrandedBounded` are stated in
terms of `faults`. Two ticks per second separate a token signed earlier in the
same second from one signed before. The lives of the tokens (1, 2 and 3 ticks)
are short so that within five ticks an access token, a reset and a refresh token
expire in this order and the blacklist is cleaned up; only their order matters
to the code. Pools of one, two and three connections for two requests are too
small, just too small and large enough. Two handlers of the client are any two
that overlap, each with the two requests of `refreshData`; two pairs are one
renewal or login after the first, and `Client_renewal` has four. A window of 3
within a clock of 8 lets an observer's window overlap two buckets and lie within
one. The days of `Server_parts` are the end of a year and of a February with and
without its 29th; its dates lie around every limit of the test.

**Bounds that are not the code's**: `Ids`, `FirstDay`, `LastDay`, `InputDays`, `MaxFaults`, `MaxMails`,
`MaxPairs`, `MaxRequests`, `MaxResets`, `LastTick`, `MaxTokens`, `LastMs`,
`MaxRestarts`, `Clocks`, `InputDates`. Each is named where it is declared.

**Deadlock** is checked except in `Accounts_race` and `EmailOutbox_retry`.
`Accounts` really stops when all connections are held by registrations that wait
for another one (section 6); the one-worker instance of the outbox stops when
its mail is settled. `MCSessions` adds a stuttering step for the state in which
every request has been answered, so that stopping anywhere else is an error.

**Symmetry** is used for invariants, action properties and the safety
refinement of `Booking`, never for liveness.

## 4. Fairness

- `EmailOutbox!FairSpec`: weak fairness of each worker's loop and of time.
  `main` loops while it runs. Neither signals nor restarts are fair;
  `RestartSpec`, used for the refuted property only, adds restarts.
- `Accounts!FairSpec`: strong fairness of each handler. Other requests may take
  the connection or the row lock a handler waits for, again and again; the
  pool (a queue) and the lock manager serve their waiters in order, so a step
  that is possible infinitely often is taken.

The other specifications state none. For reservations the one thing a request
can wait for is another transaction at an index, and `NoDeadlock` says of every
state, for any number of requests, that no group of them waits in a circle; a
transaction at COMMIT waits for nobody. It is stronger than an `~>` under
fairness on a small instance, and it can be proved. The client has a time-out
for nothing: a request that is never answered keeps its handler for ever, which
is why the lock of the screen is an invariant (`LockIsHeld`) and not a promise
that it is released.

## 5. Proofs

Eight modules with theorems (the lemmas of `CalendarProofs` included), for every finite or infinite set of slots, users,
desks, offices, workers, passwords, keys, processes, handlers and dates and every
value of the bounds (the slots of `Accounts` and the mails of the outbox are
finite). Assumptions are those in the modules proved about: bounds are numbers,
null values are no rows, every desk has an office and requests name known
offices or none, the pool has a connection, files are numbered, dates are made
of natural numbers. Each proof has one lemma per action, or one for a group
of actions that leave the same variables alone, and rests on an inductive
invariant, which TLC has checked before it was proved.

- **Reservations.** `NoDoubleBooking` alone is not inductive: a COMMIT adds a
  row without looking, so it must be known that no other row or entry has the
  key. `EntriesExclusive` says that: index entries of transactions in progress
  exclude each other and every committed active row. It needs, in turn, that a
  slot at these places serves a create (`HandlerInv`) and `TypeOK`: `IInv` is
  their conjunction, and `Invariance` its theorem. `TypeCorrectness`,
  `NeverDoubleBooked` and `DesksShownOnce`, `ListsAlwaysAgree` (properties of
  every table that satisfies `IInv`) follow. `CancelledAtMostOnce` is inductive
  with it, because a cancelled row stays cancelled and the UPDATE tests the
  status. `NoCircularWait`: whoever waits at the desk index waits for a
  transaction at COMMIT, which waits for nobody, and whoever waits at the user
  index waits for one that is further on; so no group waits within itself.
  `HandlerInv` also carries `NotPast` from the comparison with "today" to the
  COMMIT: a "today" of three readings is no later than the day of the last, and
  is that day unless a month ends (`TodayIsNotAhead`, in `CalendarProofs`).
  `Refinement`: each step maps to a step of `Booking` or to a stutter under the
  identity on the shared variables. A request is decided where its outcome is
  settled: a refusal at the statement that gives its reason, a reservation at
  COMMIT, a cancellation at its UPDATE; `IInv` gives the guards of `Booking`
  there. Since `Booking` writes rows in two of its steps only, `TableIsARecord`
  follows: rows are added and cancelled by the request that asks for it, and are
  otherwise never touched.
- **EmailOutbox.** `OutboxInv` ties what a worker holds (`batch`, `cur`, `try`,
  `pc`) to the rows: a row in hand is `processing`, no two workers have one in
  hand, `try` is one more than its `attempts`, and copies exceed `attempts` only
  for the mail at hand. `RowsHaveOneOwner`, `DeliveriesBounded` and `SentIsTrue`
  are consequences. What the faults cost is a matter of counting, and
  `DuplicatesBounded` and `StrandedBounded` are not inductive: a copy sent again
  was hidden long before. `FaultInv` counts instead the copies beyond the one
  that a mail's worker or its row tells of (`UnheardCopies`); a fault adds one
  of these at most, or strands the batch of one worker, and any other step adds
  none. `SecondCopyOnlyByFault` follows because every surplus copy is matched
  with an unheard one. `OutboxIsAQueue` is the refinement: a mail joins
  the queue when it is enqueued, is taken at the COMMIT of a claim, gains a copy
  when it is sent, and is let go by a mark or a fault; everything else is a
  stutter. `OutboxInv` says that the mail taken is one the queue holds, and the
  counts give the bound on what a fault loses. `SettledMailsAreFinal` is read off
  the queue: its steps work on queued and taken mails only. `OutboxTypeCorrect`
  needs that powers of two are natural numbers, by induction from the least
  counterexample (lemma `Least`).
- **Sessions.** `SessionsInv` says for each place of a handler what the
  statements before it have established (the token is in the blacklist before a
  new pair is signed; the reset row is locked by one transaction between
  `ConsumeReset` and COMMIT), and that a spent token is in the blacklist until
  it expires. Six properties follow; `ChangesEndSessions` is a property of
  steps, and so is `PasswordRowIsGuarded`, which covers what the former does
  not: a COMMIT that takes effect while its answer is lost, and the password's
  third writer, a late registration, which leaves the time alone.
- **Accounts.** `AccountsInv` counts: idle connections and transactions are
  `poolMax`, tokens generated and still to be generated are within the bound; it
  says whose row lock is whose, and that the mail of a confirmation precedes its
  row and that of a reset follows it. Five properties follow, and
  `AccountsConfirmedByMail`: what a step may do to `confirmed_at`.
- **RecoveryRateLimiter** (in `ServerPartsProofs`). `LimiterInv`: what an observer has seen while his
  window is open is bounded by the bucket in force. A bucket that began before
  the window had a call before it, which is why the bound is *less than* twice
  the limit; one that began in it cannot end in it. `AdmissionsBounded` and
  `RefusalsEnd` follow.
- **Migrations** (in `ServerPartsProofs`). `MigrationInv`: what a process believes is recorded is
  recorded, so are all files before the one at hand, and one process at a time
  is between a file and its COMMIT. `OrderKept` and `CompleteWhenDone` follow.
- **ReservationDate.** Arithmetic first (`CalendarProofs`): 146097 days are 400 years, so that a
  year found by division is wrong by one at most (`YearExists`); one year and
  one month hold each day (`YearUnique`, `MonthIs`), `Date.UTC` gives the day
  back (`DateIs`, `RoundTrip`), and dates are in the order of their days
  (`DatesInOrder`). Hence `CalendarDates`: the round trip accepts the dates of
  the calendar and no other. `DateInv` says from which readings the parts of
  "today" come, the year from one no later than the month, the month from one no
  later than the day; `TodayIsNotAhead` turns this into a bound, and the three
  properties follow.
- **ClientSession.** `ClientInv` says, for each handler, which requests it waits
  for (`SlotInv`), what a request may be at each of its places (`Fits`), and
  that a pair the server has signed is in nobody's hands, stored, shown or
  carried, until its answer arrives (`FreshInv`). The last is what
  `StoredPairUsable` lacks by itself: a pair just stored cannot have been spent.
  `QuietInv` is the same for `LogoutIsClean`: with nobody logged in and nothing
  of the old session under way, no request can bring tokens. `LockIsHeld` needs
  that an empty slot has no request. `StoredPairIsNew` is a property of steps:
  whatever is stored is not spent at that moment.

**Only model-checked.** `EveryMailSettled` and `EveryRequestAnswered`: liveness
and ENABLED are beyond the prover. Every other property of a passing run is a
theorem. The six refuted properties of section 6 are of course none. Induction
is used over natural numbers only, through `Least`; the induction theorems of
the library take an operator as parameter, which the provers cannot instantiate.

## 6. What the checks show

Everything listed as passing holds, the races between lookups and INSERTs
included. Six statements of the repository do not hold:

1. **The list shows cancelled reservations** (`Listings_cancelled`): the driver
   returns `cancelled_at` as a Date, the row guard wants a string, and the row
   is dropped. What the list shows is right (`ListsAgree`); it is not complete.
2. **Retries of what was not sent** (`EmailOutbox_retry`): when the COMMIT of a
   claim takes effect and its answer is lost, the worker, alive, knows nothing of
   the rows; they stay `processing` and are never claimed again. A crash between
   claim and mark does the same. `StrandedBounded` shows that nothing but a fault
   does this, and at most a batch per fault.
3. **Ended sessions stay ended** (`Sessions_ended`): `token_valid_after = now()`
   may move backwards when two password changes overlap.
4. **Outbox in the same transaction** (`Accounts_outbox`): it is not. When the
   INSERT of the mail takes effect and its answer is lost, the registration is
   rolled back and the mail stays, with a link to a token that does not exist.
   `TokenIsMailed` is what does hold.
5. **Registration of a confirmed account is ignored** (`Accounts_alone`): not
   when the confirmation falls between the lookup and the UPDATE.
6. **Automatic renewal** (`Client_renewal`): two requests of one screen exchange
   one refresh token, and the refusal of the second clears the new pair.
   `StoredPairUsable` is what does hold.

Other observations, for which there is no run of their own:

- With a pool no larger than the requests in flight a registration may wait for
  ever: it holds a connection and a row lock and waits for a second connection
  to enqueue its mail, while another holds the last one and waits for the row or
  for a connection too. The pool has no time-out. `EveryRequestAnswered` states
  the bound under which it cannot happen.
- "Check desk conflict first" (`create-reservation.handler.ts:61`) is true of
  the lookups. In a race the indexes decide, and the user index is entered
  first: the conflict reported is then the user's although the desk is taken
  too.
- When a month ends between the readings of the clock that make up "today", it
  comes out weeks too early (up to a year, at the end of a year): a desk is granted
  for a day that was over, although `docs/backend/API.md` (line 212) says that an
  earlier date is refused. `Reservations` and `Booking` contain this, `NotPast` and
  `PastAdmittedOnlyTorn` say that it takes the end of a month, and
  `NeverRefusedWrongly` that no good date is refused.
- `GET /desks` tests its date with a pattern only; a date that is not in the
  calendar reaches PostgreSQL and is answered 500.
- A reservation of a desk without a name is shown by `GET /desks` and dropped by
  `GET /reservations/me`: `isReservationRecordRow` (line 66) wants a name, the
  schema does not (004, line 105), and `isDeskRow` admits null on purpose.
  `ListsAgree` is therefore about the desks that have one. No code writes a desk
  without a name.
- A handler that ends unlocks the screen while another may still be at work, and
  the start-up's answer after a logout puts back the tokens it had found.
- Two migration processes do no harm, but one of them fails.

## 7. Plan

Done: every component of section 1 with state; every safety property of a
passing run, and both refinements, as theorems. What could follow:

1. An abstract session service: a set of live sessions, of which a refresh
   replaces one and a new password ends all.
2. `Sessions` and `ClientSession` composed: the answers of the client's server
   as those that the handlers give.

## 8. Not modelled, and why

- Metrics: counters nothing in the program reads.
- Value objects for e-mail, password strength and the allowed domains: pure
  predicates on strings that unit tests cover; the models take admitted values.
  The entity classes `Desk` and `Reservation` are used by no handler.
- Process assembly (`app.ts`, `server.ts`, `env.ts`) and the route limits of
  `@fastify/rate-limit`: configuration. 429 is an answer in `ClientSession`.
- Seeds and the outbox report (`seed.ts`, `check-outbox.ts`): tools run by hand.
- Argon2, SHA-256, JWT signatures: a hash stands for its password, a token for
  itself; forging either is outside the models.
- Wording of mails, pages and HTTP responses, drawing, logging, the minimum
  response time of forgot-password.
- A system clock that is set back while the process runs.
- `checked_in` and `no_show`: legal in the schema, written by no code.
- Several tabs over one `localStorage`.
