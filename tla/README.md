# LoanTrack in TLA+

LoanTrack is a small loan-management service: borrowers ask for loans,
admins approve them, accounts accrue interest twice a month, payments and
imported histories bring the balance down, and webhooks tell other systems
about it. The backend (`src/backend/app`) is FastAPI over an asynchronous
SQLAlchemy session on PostgreSQL; the frontend (`src/frontend`) is a React
client of its API.

This directory holds TLA+ models of the parts of the system whose
correctness is not obvious, the TLC configurations that check them on small
instances, and TLAPS proofs of the results that should hold on every instance.
`PROJECT.json` lists the same things for tools: components, runs, the source
lines behind each definition, one plausible bug per property, hazards and
theorems.

## 1. How the system runs

* Every HTTP request is one database transaction: `get_db`
  (`core/database.py:40-49`) commits when the handler returns and rolls back
  when it raises. Isolation is PostgreSQL's READ COMMITTED; the reads take no
  locks (no `with_for_update` anywhere). `autoflush=False`: an UPDATE is sent
  at an explicit `flush()` or at the commit, and carries only the columns that
  changed since the row was loaded.
* The server runs `UVICORN_WORKERS` processes (default 2), and **each** of them
  starts both background loops of `main.py` (55-94): the webhook retry loop and
  the cycle-close scan. Nothing elects one of them.
* The process is restarted when it dies (`docker-compose.yml`, `restart:
  unless-stopped`). All state that matters is in the database.

* The browser keeps the access token in memory, per tab, and the refresh token
  in a cookie that all tabs share. Between browser and server there are an
  nginx proxy and a host that puts idle services to sleep, so the client sends
  requests again that may or may not have been carried out.

So four things make behaviours hard here: what a transaction read can be out
of date when it writes; two processes do the same work at the same time; a
batch that fails or is killed forgets what it has already sent out; and an
answer that is lost leaves the client guessing.

## 2. Inventory

| Component | State | Operations | Interacts with | What makes it correct | Modelled in |
|---|---|---|---|---|---|
| Cycle calendar (`interest_engine.py:19-125`) | none | next / nearest / following cycle, lists, due dates | used by engine, payments, scan | dates exist; no cycle skipped or repeated | `CycleCalendar`, abstracted by `Cycles` |
| Interest engine (`interest_engine.py:127-300`) | none | anchor, projection, current balance | accounts, payments, imports | every payment counted once; a settled cycle is not charged again | `Ledger` |
| Accounts (`accounts/`) | terms, status | create, patch, close, purge | purge cascades to payments and webhooks | status agrees with history | `PaymentLedger` |
| Payments (`payments/`) | rows with a stored snapshot | add, delete + recalculate | engine; sets the account's status | snapshots are what replay gives | `PaymentLedger` |
| Imports (`imports/`) | batches; payment rows | preview, commit (existing / create) | parsers, payments, accounts | recorded interest is kept; nothing falls between import and anchor; a payment is imported once | `Imports` (upload, preview, concurrent commits), `PaymentLedger` (what a commit does to an account) |
| Import parsers (`imports/parsers/`), CSV exports (`admin/router.py:272-460`, `core/csv_safety.py`) | what has been read so far | parse row by row; three exports | imports | no amount is lost without an error; an export reads back as it was | `ImportParsers` |
| Body limit (`core/body_limit.py`, `core/uploads.py`) | bytes seen, answered or not | streaming limit, size check | every upload | exactly what is too much is refused, and never handed on | `Imports` (the upload) |
| Loan requests (`loan_requests/`) | status of each request | create, cancel, open, review; admin delete | an approval opens an account | approval and account are one; no account from a deleted request | `LoanRequests` |
| Webhook delivery (`webhooks/service.py:80-160`) | event status and attempt count | retry loop | enqueued by services, deleted with its config | attempt limit, nothing given up early or reopened, retries end | `WebhookDelivery` |
| Cycle-close scan (`webhooks/service.py:160-260`) | notification rows | scan loop | accounts, engine, events | each close announced in order, at most once | `CycleScan`, promise in `ClosedCycles` |
| Webhook configuration | configs | create, rotate, delete | cascade to events | | deletion only, in the two models above |
| Sessions (`auth/`) | refresh-token rows, families | login, refresh, logout, password change | user administration, frontend client | a sign-out is complete; a token is exchanged once | `Sessions`, promise in `SessionLifecycle` |
| User administration (`admin/router.py:41-120`, `231-247`, `users/`) | users | create, change, delete | ends sessions; cascade to tokens | administrators cannot remove themselves; no deadlock for ever | `Sessions` |
| Frontend session client (`api/client.ts`, `api/coldStart.ts`, `stores/authStore.ts`) | access token, refresh in flight, retries of each call | call, resend, shared refresh, sign-out | auth endpoints, other tabs | a write is carried out once; tabs do not spend each other's cookie; every call comes back | `ApiClient` over `SessionLifecycle` |
| Attachments, audit log, pages, migrations, deployment | | | | | not modelled, see section 8 |

`PROJECT.json` lists every hazard with the line where it bites and the
properties that watch it, or the reason why none does yet.

## 3. Modules

```
CycleCalendar --INSTANCE--> Cycles <--EXTENDS-- Ledger <--EXTENDS-- PaymentLedger
      |                                                                 |
 MCCycleCalendar                                   MCPaymentLedger <- PaymentLedgerClaims
 CycleCalendarProofs                               PaymentLedgerProofs

LoanRequests         WebhookDelivery         CycleScan --INSTANCE--> ClosedCycles
 MCLoanRequests       MCWebhookDelivery       MCCycleScan
 LoanRequestsProofs   WebhookDeliveryProofs   CycleScanProofs

Sessions --INSTANCE--> SessionLifecycle <--INSTANCE-- ApiClient
 MCSessions                                            MCApiClient
 SessionsProofs                                        ApiClientProofs

ImportParsers <--EXTENDS-- Imports
                            MCImports
                            ImportsProofs
```

Definitions keep the names of the Python functions where there is one. In each
module the operators marked "Broken variant" are plausible bugs of that code;
no specification uses them. They document what each property can catch:
putting one in the place of the definition it follows makes TLC find the
property violated.

### CycleCalendar and Cycles

`CycleCalendar` is the month arithmetic of `interest_engine.py` on real dates;
its only state is a day that walks through a window of the calendar, so each
invariant is evaluated on every day of it. `Cycles` is the same interface over
numbered days and an arbitrary set of cycle days. `CalendarAgrees` says that
the two agree, which is what lets the ledger be modelled over the small
calendar of `Cycles`; it compares with the cycle dates of `Years`, so these have
to reach a year beyond both ends of the window (`YearsCover`).

### Ledger and PaymentLedger

`Ledger` holds the pure functions: `ledger_anchor`, `project_ledger`,
`compute_current_balance`, and `Replay`, which is the loop of
`recalculate_ledger`. Money is a whole number of cents; `RoundHalfUp` is the
rounding of `Decimal.quantize(ROUND_HALF_UP)`, and a rate is a number of
1/10000. `PaymentLedger` is one account: `account` (its row), `payments` and
`snap` (the payment rows, split into what was paid and the stored
`balance_before`, `interest`, `balance_after`), `today`. One action per
service operation, each a whole transaction:

| Action | Code |
|---|---|
| `CreateAccount`, `UpdateAccount`, `CloseAccount`, `PurgeAccount` | `AccountService` |
| `AddPayment` (automatic or manual date, status change included) | `PaymentService.add_payment` |
| `DeletePayment` (deletion **and** replay of every snapshot **and** status) | `delete_payment`, `recalculate_ledger` |
| `ImportExisting`, `ImportCreate` | `ImportService.commit` for the rows of one account |

Payments are queried with `ORDER BY payment_date` and nothing else, so rows of
one date come back in any order: every action takes an `order` from
`Chronological(payments)` instead of assuming one.

### LoanRequests

Each endpoint is a transaction in three steps: the read and the checks made on
it (`create_request`, `cancel_request`, `open_request`, `review_request`,
`delete_loan_request`), `Flush` (waits for the row's lock; an UPDATE of a row
that is gone fails), and `Commit`. `Rollback` stands for everything that can
fail in between: an approval without rate or cycle, a lost connection, a
process that dies. `NewStatus` is the ORM's rule that an unchanged column is
not written: a review that asks for the status it read leaves the row with
whatever somebody else has made of it.

### WebhookDelivery

A process loads the pending events without locking them (`Wake`), sends them
one after the other (`Deliver` and `Flush`, in any order, as the SELECT has no
ORDER BY), and commits the batch. Reading the config, checking the url and the
POST are one step; what the receiver did with a request that timed out is left
open. `StaleData` is SQLAlchemy's StaleDataError when an event has been deleted
under the batch; `Deadlock` is PostgreSQL aborting one of two batches that wait
for each other; `Crash` and `Restart` are the process. The history variables
`sends` and `refused` exist for the property `FailedWasTried` only.

### CycleScan and ClosedCycles

A scan loads the open accounts, then works on one savepoint per account
(`ScanAccount`, `Insert`, `AccountFails`) and commits them together. The unique
key on (account, cycle date) is the only thing between two processes: an insert
of a key that the other one holds uncommitted waits, and then fails or goes on.
`ClosedCycles` is what ADR-006 promises, without processes: announcements of an
account go in order, without a gap, at most once, and only for closed cycles.
`KeepsPromise` is the refinement, with `announced` mapped to the number of
notification rows; `NoGap` shows that this number says which rows there are.

### Sessions and SessionLifecycle

A request is a record in one of `Slots` slots that goes through the statements
of its transaction one by one; `at` is the next one. The checks before the
first write are the action the endpoint is named after (`login`, `refresh`,
`logout`, `update_self`, `update_user`, `delete_user`, `create_user`); then come

| Action | Statement |
|---|---|
| `ReadUser`, `Claim`, `Issue` | the rest of `AuthService.refresh`: the owner, the UPDATE that spends the token, the new row |
| `Sweep`, `Lock` | an UPDATE that revokes tokens: the rows it finds when it starts, and those that still match when it has their locks |
| `Touch` | the UPDATE of a user row (`update_last_login`, a changed password or flag) |
| `Insert`, `Drop`, `Cascade` | `create_user`; `delete_user` and the tokens that go by cascade |
| `Commit`, `Rollback` | `get_db`, and `_commit_then_reject` |

READ COMMITTED is in the guards: a statement reads the committed `status` and
`users`, and waits for the rows in other requests' `held` and for `lock`s on
user rows. `SessionLifecycle` has neither requests nor locks: a token is issued
into a session, exchanged at most once for one of the same session, and not
live again once it is not. `Sessions` implements it with `live` mapped to the
tokens that are not revoked; the token that has expired is one of them, as no
row is written when it expires.

### ApiClient

The browser's tabs, each with its calls (`call`), the one refresh they share
(`refresh`, the code's `inFlight`) and its access token; the cookie and the Web
Lock are shared by all tabs. `net` holds requests and answers on their way. A
request whose answer is lost (`LoseCall`, `LoseRefresh`) may still be served
later (`Abandoned`): that is what distinguishes a 502, a 504 or a dropped
connection ("gateway") from a 503 or a proxy's 429 ("unprocessed"). The server
side is `SessionLifecycle`: what the client relies on is what `Sessions` is
shown to implement. The history variables `ended` and `cut` say in which
sessions a sign-out happened or an answer was lost, for `RefusedForCause`.

### ImportParsers and Imports

`ImportParsers` has both parsers as functions of what has been read so far and
the next row, and the three exports. A cell is the value it stands for, a name
is the sequence of its characters (`Letters`), for `sanitize_cell`. `Imports` has the way
of a file: the body limit and the size check (`RefuseDeclared`, `Receive`,
`Truncated`, `Accept`), `preview` row by row (`ReadRow`, `EndOfFile`), and
commits of the batch, which work reference by reference (`commit`, `ImportRef`,
`EndCommit`) and may overlap. The file is either any rows of a small set, or an
export. The code parses the stored file again at the commit; as the parser is a
function of the file, `parsed` stands for both results.

## 4. Runs

All on two TLC workers; state counts are of distinct states.

| Run | What it asks | Instance | States |
|---|---|---|---|
| `calendar` | are the cycle primitives right on every real day | 1 Dec 2099 to 10 Jan 2105 | 1,867 |
| `ledger` | do account, payment and import operations keep history, snapshots and balance consistent | 3 payments, 5 days, 7 cycle days, 2 rates, 2 import files | 45,070 |
| `loan_requests` | two concurrent endpoints on two requests | limit 1, at most 2 accounts per request | 143,407 |
| `delivery` | two processes deliver two events of one config | 2 retries | 440,347 |
| `scan` | two processes scan two accounts for two cycles | either account may be faulty, the config live or absent | 213,428 |
| `sessions` | two requests at a time on sessions and users | 2 administrators, 1 of them signed in, 1 user to be created; 3 requests arrive | 173,247 |
| `client` | two tabs that share a cookie over a network that loses messages | two workloads of 3 calls, 1 resend, 3 tokens | 406,113 |
| `imports` | one import from the upload to the ledger, two commits at a time | files of 3 rows, or an export of 2 accounts | 175,460 |
| `claim_paid`, `claim_import`, `claim_active`, `claim_resend` | one documented claim each, violated | smaller instances, or that of the component | |

### What they show

* **calendar.** `NextCycleIsLeast` and `AdvanceIsSuccessor` together say that
  stepping through cycles skips and repeats none. The window has the
  non-leap year 2100, the leap year 2104, and so every kind of February and
  year end; the functions look at a month and the next one only, so a longer
  window has nothing new.
* **ledger.** No native payment lands between an import and its anchor
  (`NoPaymentInAnchorGap`): `add_payment` looks at the *last* import only and
  the importer at the *last* payment only, so this takes both and the order of
  operations. `LivePaymentsCountedOnce` and `SettledCycleNotChargedAgain` are
  about the boundaries of the periods; `DeletionLeavesConsistent`,
  `LiveSnapshotIsReplay` and `AppendKeepsConsistent` relate the snapshots
  stored live to those a recalculation gives; `ImportedInterestKept` says
  that imported interest is never recomputed; `AutoPaymentIsNew` that an
  automatic date settles no cycle twice.
  `BalanceDeterminedUnlessImportTie` has its exception for a reason: when an
  import shares its date with another payment, the row taken as the last
  import depends on the order of the query, and the balance shown with it.
  The unconditional `BalanceDetermined` is false. Bounds: three payments give
  an import before, between and after others; the seven cycle days have a tie,
  a day nearer to the earlier cycle and one nearer to the later.
* **loan_requests.** A request never shows as approved without its account
  (`ApprovedHasAccount`), an approval that a deletion has overtaken opens no
  account (`NoAccountFromDeleted`), and endpoints do not wait for each other
  for ever. Two requests and two transactions give every overtaking of one
  row; a third transaction would only queue behind a lock.
* **delivery.** The attempt count never exceeds the limit (`TypeOK`), although
  both processes count from what they loaded; an event is given up only after
  as many real requests as the limit (`FailedWasTried`), so a lost update loses
  attempts and never invents them; a settled event never goes back to pending;
  and the retries end. What the code does allow, and the model too: `failed`
  may overwrite `delivered`, a count may go back, an event may be sent more
  often than the limit. Two retries are the least for which the last attempt
  differs from the first.
* **scan.** The scan implements `ClosedCycles`, its rows have no gap, and every
  open account that is in order is caught up in the end, whatever other
  accounts and the other process do. Two cycles make a backlog, two accounts
  make lock orders that deadlock.

* **sessions.** When a request that ends sessions commits, nothing issued before
  it began can be spent any more (`SignOutIsComplete`), although an UPDATE under
  READ COMMITTED does not see rows that are inserted while it runs: what can
  survive is a token a sign-in or a rotation issued *meanwhile*. The two checks
  of `refresh` are made on rows that may be out of date; the claim is not, and
  `ImplementsLifecycle` shows that it is enough. Two administrators can remove
  each other at the same time; `LastAdminOnlyByRace` exempts that race and says
  that it is the only way to lose the last one. `delete_user` locks the user row before the
  tokens and everybody else the other way round, so there are deadlocks;
  `EveryRequestAnswered` says they are broken. Bounds: two requests make every
  race of two; the third arrives after one of them and finds its traces (a
  reuse, a deleted user).
* **client.** A write is carried out at most once, whatever is lost
  (`WriteAppliedOnce`). A refresh is refused only if the session was ended or an
  answer was lost before (`RefusedForCause`): calls of a tab share one refresh,
  and the lock keeps tabs apart. This needs the Web Locks API (`HasLocks`); the
  code goes on without it. Every call comes back (`EveryCallSettles`). Bounds:
  one resend instead of 14 is the least for which a call is resent and then
  given up; two calls of one tab share a refresh, the other tab has one of its
  own; three tokens are the first and two that replace it, and a refresh beyond
  them is lost on the way.
* **imports.** An upload is refused with 413 exactly if the file is too large,
  although the middleware counts the multipart framing and the cap on the file
  does not, and no more than the limit reaches the application
  (`OversizeRefused`).
  `EveryRowAccounted` compares the parser, which works row by row, with the sums
  over the file: every amount that can be read is in the payment of its
  reference and date, in the account its row is the first to disburse, or its
  row is reported, a second disbursement of a reference included. `RoundTrip` is
  "LoanTrack's own exports re-import unchanged" (`csv_safety.py:10`), with the
  exception below. A payment is imported once unless two commits of one batch
  overlap (`ImportedOnceUnlessOverlapping`); if they do, both insert it, since
  the batch's status is read without a lock. That race is exempted, so the
  property is about commits that fail or are repeated, not about it. Bounds:
  three rows make a group of three kinds of row, or two groups; sizes lie below,
  at and above the limits of file and body.

Deadlock checking is on for `scan`. It is off where the system really stops:
`calendar` (the window ends), `ledger` and the claims (the days and payment ids
run out), `loan_requests` (the ids run out), `delivery` (all events are
settled or gone), `sessions` (`MaxArrivals`), `client` (all calls are settled)
and `imports` (the file is refused).

### Documented claims that do not hold

| Run | Claim | What the code does |
|---|---|---|
| `claim_paid` | `accounts/service.py:305`: a paid account owes nothing | paid off inside a cycle, it is charged when the cycle closes and stays "paid" |
| `claim_import` | `interest_engine.py:174`, ADR-003: the recorded balance is correct | an import continues from the last row's snapshot, which ignores the other payments of its period |
| `claim_active` | `docs/architecture.md:59`: at most 3 active requests | two concurrent calls pass the check together |
| `claim_resend` | `api/coldStart.ts:49`: login and refresh are always safe to resend | a refresh that was carried out but whose answer was lost is sent again with the spent cookie, refused, and the user is signed out |

More differences are modelled as the code has them, without a run:

* `payments/service.py:258-260` says that a new rate does not rewrite old
  payments; deleting any payment replays the earlier ones, too, with the
  current rate (`DeletePayment`).
* `interest_engine.py:276` says that a payment comes off the balance at once; a
  manual payment dated before the disbursement is accepted and counted nowhere.
* `native_csv.py:7-8`, `legacy_ledger_csv.py:197-199` and `imports/schemas.py:32-33`
  say that payments without an account row can be mapped to an existing account;
  the commit looks up the mapping of account rows only, so all of them are
  errors (`Target`).
* A legacy file whose header has accents or capitals is recognised
  (`legacy_ledger_csv.py:92`) but its columns are read by their exact names, so
  every row is an error (`LegacyRow`), unless it is an amount's column alone that
  has an accent: then its cells are empty.
* `csv_safety.py:10` says that exports re-import unchanged; a name that itself
  begins with a quote and a formula sign loses the quote (`Quoted`).
* `imports/models.py:23` has a status "failed"; nothing sets it.

Not modelled: `connectionStore.waking` is not cleared by a call that fails after
a retry, and is cleared by any other call that succeeds; `restoreSession` is
called by tests only, although `docs/architecture.md:38` says that the page
refreshes its session when it loads; a refresh that is answered after the user
has signed out makes the tab authenticated again (`client.ts:107`).

`docs/architecture.md:108` says that an event whose config is deleted becomes
`failed`; it is deleted by cascade, and a batch that holds it is rolled back.
ADR-006 says that the exception of one account reverts the transaction of a
worker; the code has a savepoint per account, so only that account is left out.

## 5. Fairness

* `LoanRequests`: a handler that has started goes on (WF of `Commit`), and a
  row lock goes to those that wait for it in turn (SF of `Flush`; PostgreSQL
  queues lock requests). `Rollback` has no fairness: nothing relies on failure.
* `WebhookDelivery`, `CycleScan`: the loops are `while True` with a sleep and
  catch every exception (`main.py:55-83`), and a request ends by its answer or by
  `WEBHOOK_TIMEOUT_SECONDS`, hence WF of `Advance`; SF of `Flush` / `Insert`
  for the lock queue, as above. `CrashesEnd` says that from some time on no
  process is killed *in the middle of a batch*. It is needed: a batch that is
  killed each time never commits. `Deadlock` hands the victim's lock to the
  batch that waits for it, as the database does; if it did not, the victim
  could take the lock again for ever.
* `Sessions`: a request that can go on does, and row locks are granted in turn
  (SF of `Step` for each request); deadlocks are detected (WF of `Victim`). Nothing
  makes requests arrive, fail or expire.
* `ApiClient`: one WF for the whole of `Progress`: timers fire, a request ends
  in an answer or an error, and a free lock is granted. Which call is served
  first is left open, and the server need not process anything: a request that
  is never served fails in the end.
* No fairness on users, days or deletions. In `EveryCloseNotified` a status
  change excuses the scan, as the code scans open accounts only.

## 6. Proofs

Checked by TLAPS for every value of the constants that the named assumptions
allow. Every invariant and every action property of the runs has a theorem, and
so has each refinement; the runs show them on small instances, in the form in
which a counterexample could be read.

| Module | Theorem (property, where the name differs) | Rests on |
|---|---|---|
| `CycleCalendarProofs` | `DatesAlwaysExist` (`TypeOK`), `NextCycleAlwaysLeast`, `AdvanceAlwaysSuccessor` | `WindowAssumption` |
| | `CalendarAlwaysAgrees` (`CalendarAgrees`) | the same and `YearsCover`, which the run's module asserts of its instance |
| `PaymentLedgerProofs` | `LedgerTyped`, `LedgerAlwaysTyped` (`TypeOK`), `AnchorGapAlwaysClear`, `LivePaymentsAlwaysCountedOnce`, `SettledCycleNeverChargedAgain`, `BalanceAlwaysDetermined`, `AutoPaymentAlwaysNew`, `ImportedInterestAlwaysKept`, `DeletionAlwaysLeavesConsistent`, `LiveSnapshotAlwaysReplay`, `AppendAlwaysKeepsConsistent` | `CyclesAssumption`, `LedgerAssumption`, `CalendarCovers` |
| `LoanRequestsProofs` | `ApprovedAlwaysHasAccount`, `NeverAccountFromDeleted` | nothing |
| | `TypesAlways` (`TypeOK`, with the bound `MaxAccounts`) | `RequestsAssumption`: finitely many transactions |
| `WebhookDeliveryProofs` | `LimitAlways` (`TypeOK`), `FailedAlwaysTried`, `SettledStays` (`SettledNeverPending`) | `DeliveryAssumption` |
| `CycleScanProofs` | `TypesAlways`, `NeverGap`, `ScansKeepPromise` (the refinement of `ClosedCycles`) | `ScanAssumption` |
| `SessionsProofs` | `TypesAlways`, `SignOutAlwaysComplete`, `RequestsImplementLifecycle` (the refinement of `SessionLifecycle`), `OneLiveTokenPerSession`, `LastAdminAlwaysByRace` | `SessionsAssumption` |
| `ApiClientProofs` | `TypesAlways`, `WriteAlwaysAppliedOnce` | `ApiClientAssumption` |
| | `RefusedAlwaysForCause` | the same and `HasLocks`: without the Web Locks API it is false |
| `ImportsProofs` | `ImportsAlwaysTyped` (`TypeOK`), `OversizeAlwaysRefused`, `EveryRowAlwaysAccounted`, `ExportsAlwaysReadBack` (`RoundTrip`), `ImportedAlwaysOnce` | `ParsersAssumption`, `ImportsAssumption`, `FilesAssumption` |

Recursive definitions are within reach although the induction theorems of the
library are not: a set of natural numbers that has an element has a least one
(`LeastExists`), so the least index at which something fails has a predecessor
at which it does not. This is how a recursive function is shown to follow its
own recursion (the projection, the replay, the folds behind sums, the lists of
cycles) and how what holds at each step holds at all. Each proof module stands
alone, so these few lemmas are in several of them.

*The calendar.* Stepping is compared with counting. `CycleNumber` numbers the
cycle dates of all years so that `advance_cycle` adds one and `previous_cycle`
takes one away; this number and `toordinal` order them alike. So the loop of
`get_cycle_dates` runs through consecutive numbers, it ends, because the years
of the cycles do not stay below that of the last day, and the abstract list,
which picks the cycle with i cycles below it, is the same.

*The ledger, its history.* The inductive invariant is `HistoryTyped /\
NoPaymentInAnchorGap`. The step that matters is `AddPayment`: the code checks
the new date against the anchor of the last import in the order the query
returned. As that order is chronological and the nearest cycle is monotone in
the date, the last import has the latest anchor, so the check covers all
imports. For an import, its rows are not before the last payment, so no native
payment is after them. `CalendarCovers` says that each modelled day has a cycle
before it and two on or after it, which the real calendar has.

*The ledger, its balance.* A projection is a list of rows, one per cycle after
the anchor (`ProjectionFollowsCycles`), each chained from the one before. The
periods of the rows partition the payments up to the last cycle
(`PeriodsPartition`), and a sum over a union of disjoint sets is the sum of the
sums; with the pending payments this is `LivePaymentsCountedOnce`.

*The ledger, its snapshots.* A replay is determined by its order
(`ReplayUnique`), and it is typed, hence every stored amount is a whole number
of cents (`TypedInv`). A snapshot depends on the payments before its day only
(`NativeSnapshotLocal`), so what follows a payment leaves it alone. Two replays
are compared at the first row where they differ (`ReplaysAgree`): that gives
`ReplayIdempotent` for the recalculation after a deletion. A new row need not
be last in the order a query returns, as rows of one date tie; `SwapLast` shows
that exchanging two rows of one date changes nothing unless one is an import,
which is exactly where `ImportTie` draws the line.

*Loan requests.* `ApprovedHasAccount` is not inductive: a commit could approve
without opening an account if a transaction other than a review aimed at
"approved", or could bring a row back that was deleted. The invariant adds that
what a transaction will set follows from its endpoint (`TargetOfOp`), that only
the creator of a row works on one that is not there (`RowWasRead`), that
two transactions never hold one row (`LocksExclude`) and that a locked row is
still there (`LockedRowStays`). The last two depend on each other: only the
holder of the lock could delete the row. The bound on accounts needs that the
approvals of a request that have begun count before they commit
(`ApprovalsBounded`).

*Webhook delivery.* The invariant relates three places where an event's count
of attempts is kept: every count, in the table or in a running batch, belongs to
attempts that were made (`sends`), and what a batch has marked failed was tried
often enough or refused, unless the row is gone. A row that a batch has flushed
is locked, so it still exists when the batch commits.

*Cycle scan.* In the invariant the rows a scan has inserted for an account
continue the committed ones without a gap, and two scans never hold uncommitted
rows of one account, which is what the wait for the unique key achieves. So a
commit appends, one by one, what `ClosedCycles` announces; the proof takes the
cardinality of an interval from the library (`FS_Interval`).

*Sessions.* What has to be known of a sign-out is where each token of its user
is between the first row it looks at and its commit: revoked, locked by this
request, still to be waited for, or issued after the sign-out began. The other
parts of the invariant say that a request holds only rows that exist and that no
two hold the same one. `OneLiveTokenPerSession` is not proved about requests at
all: the steps of `SessionLifecycle` preserve it (`StepLInv`), and the refinement
carries it over. For the last administrator, a request that runs on behalf of an
administrator is about somebody else (`ActorsForeign`), and a commit changes one
row of users: if none is left, that administrator was gone before.

*The client.* The invariant says of each write that at most one request of it
is on its way; that while the call is new, waits to be resent or waits for a
refresh there is none and it has not been carried out; and that an unanswered
request means the same. A resend therefore only follows a symptom that excludes
an earlier execution, or a 401, which the server gives before it does anything.
Weakening `shouldRetryColdStart` breaks exactly this step.

*The shared cookie.* `CookieInv` has two parts. With the lock, one request for a
refresh at a time is awaited, and by the tab that holds it (`LockGood`). Of each
token it says whether it can still be exchanged or its session was ended or lost
an answer: the browser's cookie is of this kind, or the answer that replaces it
is on its way to the tab with the lock, and an answer brings a token nobody has
sent yet (`GivenOnce`). A refused cookie is therefore one of the second kind.

*Imports.* Five invariants, one per question. `UploadInv`: what was given to
the application is what arrived, or within the limit, and the one answer there
is says whether the file was too large.
`ReadingInv`: the rows of a file have the cells of its format, and what was read
is typed. `CommitInv`: without an overlap one commit runs, and what it still has
to insert is not in the ledger. `AccountInv`: after i rows of a legacy file
each group holds the sum of its i first rows' amounts, and every refused row is
reported; the sum over one row more is the old one plus its amount, or the old
one (`AmountGrows`), and the end of the file turns each group into one payment
or one error. Every reference lent to has its account (`Lent`), so a disbursement
that opens one is the first of its reference. `BackInv`: after i rows of an export what was read is what the
first i rows stand for, names included (`NameRestored`). `FilesAssumption` says
that cells are values of their kind and that every exported account has an id of
its own and a name that is not empty (`accounts/schemas.py:18`).

Only model-checked: the liveness properties (`EveryRequestAnswered` twice,
`RetriesEnd`, `EveryCloseNotified`, `EveryCallSettles`) with `CrashesEnd`, as
fairness and ENABLED are out of the prover's reach. The violated claims are
shown by their counterexamples.

## 7. Abstractions and bounds

* A row, an event or a user is a model value; amounts are a few small numbers of
  cents. Audit rows, webhooks fired by services and log lines are left out of the
  account, payment and request models.
* The operations of `PaymentLedger` are whole transactions on one account; two of
  them at a time are planned.
* In `Sessions` a user's sessions and flags are modelled, not the name, e-mail or
  loan accounts; passwords are right (a wrong one changes nothing). `MaxArrivals`
  and `MaxTokens` bound the requests, `Holders` who signs in.
* In `ApiClient` a read is served at any time and changes nothing; the sleeping
  host is the failure "unprocessed"; the pauses between resends take no time.
  A request commits when it is answered. Current versions of FastAPI leave
  `get_db`, and so commit, only *after* the answer has been sent; the model
  assumes that this takes less time than the client's next request. If it does
  not, a tab that waits for another's refresh can present a cookie that is not
  committed yet, be refused and sign the user out: this window is left out of
  `RefusedForCause`.
* In `Imports` an amount is a small number and a quantity of bytes one unit of
  64 KiB; "incomplete" stands for every mapping that is refused. The upload
  routes read the whole form before they answer, so the limit is passed before a
  response starts, and `Truncated` is one answer. Of the signs a formula may
  begin with, tab and line ends are left out; a name the parser makes up from
  the reference is `None`.
* `MaxAccounts` bounds how often one request is approved (the code does not),
  `MaxCycles` and `LastDay` bound the calendar, `sends` counts up to the limit.
* An import's file is the sequence, in date order, of rows its parser gives for
  the account.
* In `CycleScan` the webhook exists from the start or never, and may be deleted;
  an account that raises an exception does so in every scan.

## 8. Not modelled

Payment attachments (files nothing depends on), the audit log (append-only),
the text level of CSV files (quoting, encodings, number and date formats),
rate limits, configuration, logging, address and url checks, migrations and
seed data, the frontend pages, build and deployment.
`core/interest_engine.py` is an unused copy of the engine, and
`compute_payment_ledger_entry` is called from nowhere.

## 9. Plan

In this order:

1. `ConcurrentLedger`: the read and the write of `add_payment`, `delete_payment`
   and an import commit as separate steps (lost status, two automatic payments
   for one cycle). `Imports` has the double commit already.
2. `AccountOutbox`: account operations with the events they enqueue and the
   cascade of a purge, composed with `WebhookDelivery`.
3. Proofs for these two as they are written: that the ledger's consistency holds
   for histories without overlapping transactions, as a refinement of
   `PaymentLedger`, and that an account's events are in the order of its
   operations. For the present modules, invariants worth having beyond the runs'
   properties: every stored snapshot of a native payment is that of a replay
   since the last recalculation, and a bound on what a second batch commit adds.
