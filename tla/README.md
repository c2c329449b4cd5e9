# Specifications of the property management platform

These TLA+ modules model the parts of the platform (`src/apps/api`, Python, FastAPI,
PostgreSQL, Redis, Celery) where several people, jobs and outside systems change shared
state: the general ledger, payment orders and payment files, reversals that reach the bank
side through events, votes in owners' meetings, outgoing webhooks and idempotent calls. TLC
checks each on small instances; TLAPS proves the central results for every value of the
constants.

Paths below: `mhvp/` is `src/apps/api/src/mhvp/`, `versions/` is
`src/apps/api/alembic/versions/`. Rule numbers such as B04 or D37 are those the source
cites in its docstrings.

## 1. Inventory

### How the program runs

* Every HTTP request of a person is one database transaction (read committed), committed
  by the endpoint. Row locks (`SELECT ... FOR UPDATE`) are held to the commit. Row
  security separates the tenants, so that one tenant is one instance of each module.
* Celery workers run jobs that the beat starts, most of them every minute. Runs may
  overlap. A job is one transaction per tenant, or one per item where it calls an outside
  system in between.
* A domain event is a row written in the transaction of its cause. Jobs read events by
  a watermark.
* Redis keeps what must outlive a transaction but not the day: idempotency records,
  limits, locks of login.

### Components

| Component | State | Operations | Interacts with | What is hard | What makes it correct |
|---|---|---|---|---|---|
| General ledger: `mhvp/accounting/services.py`, `routers.py`, `models.py` | entries and lines, open items, settlements with dates, number counters, `locked_until` | write, change, delete, approve a draft; post; reverse; lock a period | payments and banking post and settle; dunning and reports read open items; triggers of `versions/0444` repeat the period guard | the period is read without a lock; plans are written long before they are applied; numbers under rollback; settlements are summed, not stored | items settled within their amount, reversal neutral (B03, B08), gapless numbers (B04), locked past (B07), ledger covers sub-ledger (B09), check by a second person |
| Payment orders and files: `mhvp/banking/payments.py`, `routers.py`, `bank_status.py`, `payment_run.py` | orders, approvals with snapshots, files, transactions and their bookings | create from invoice, change, approve, cancel, generate, download, submit, record an answer, import a report, execute, return, book by hand, reverse | ledger (settlement, reversal of invoice or payment), bank (files out, reports in) | answers read orders without a lock; late, repeated and partial answers; reversals in between; accounts are not persons | two persons approved what is sent (D35, D36), executed only by proof (D06, D37), returns match (D38), frozen after hand-over |
| Webhooks, from events to deliveries: `mhvp/core/webhooks.py`, `events.py`, `webhook_tasks.py` | watermark and switch of a subscription, delivery rows, events | enqueue run, create, pause, reactivate | event log | commit order differs from `occurred_at` order; overlapping runs; limit per run | no event left behind, each queued once |
| Webhooks, delivery: same files, `mhvp/platform/routers.py` | delivery row (status, attempts, lease), failure counter and switch of the subscription | claim, send, apply the outcome, redeliver, switch, delete, lease expiry | receiver (external) | no lock during the call; lost workers; late outcomes; redelivery in flight | bounded calls, one at a time, closed rows stay closed, every row closes |
| Idempotent calls: `mhvp/core/idempotency.py`, `request_identity.py` | one Redis record per key and actor | take, look, take again, run, answer, store, release | every endpoint | four accesses without a transaction; answer before record; failure after commit | changes once, true replays, one run at a time |
| Further accounting: `receivables.py`, `dunning.py`, `write_offs.py`, taxes, e-invoices | dunning runs, write-offs | dunning run, write-off with approval | ledger | a run over items that change | nothing dunned that is settled |
| Period lock per property: `mhvp/accounting/period_lock.py` | locks and release requests | lock, ask, release by a second person | ledger | overlapping locks compared without a lock | release by two persons only |
| Banking import, matching, direct debits, payouts, FinTS, EBICS | transactions, rules, mandates | import, suggest, book | payments, ledger | import of the same statement twice | booked once |
| Posting reversals: `mhvp/banking/events_consumer.py`, `review.py`, `learning.py`, `matching.py`, `runner.py` | watermark and task lock, bank transactions and what was posted for them, review items, rule with its counter | import, book, post by rule, reverse, correct, decide a review, activate or disable a rule; run of the job over events | event log, ledger, Redis | the event arrives late, the transaction may be booked again; the halves of a transfer arrive apart; the runner posts by rules it read before; lag instead of overlap; lock lost with Redis; one event fails | no bank movement booked twice, a reversed posting leaves no transaction settled, no reversal passed over, each counted once |
| Voting in owners' meetings: `mhvp/hoa/meetings.py`, `online_meeting.py`, `mhvp/portal/owner_meetings.py` | meeting with its closing, attendance, agenda item, votes, conflicts, resolutions | vote (manager, owner, proxy holder), decide a conflict, open and close voting, announce, defer, disrupt, close by two persons | portal | most requests read the meeting without a lock and write later | one vote of each source, no vote lost, the minutes stay as closed |
| Owners' associations, other: `mhvp/hoa/` | levies, reserves, audits, circular resolutions | charge, resolve | ledger (levies), portal | - | one share per unit |
| Billing and metering: `mhvp/billing/` | statements, readings | compute, confirm, send, correct | ledger, documents | mostly calculation | confirmed statements fixed |
| Communication: `mhvp/communication/` | outbox, letters, signatures | queue, dispatch, confirm | providers (external) | crash between send and record | sent once |
| Automation: `mhvp/automation/` | rules, runs, pending decisions | evaluate, decide, undo | event log, tickets | decision against a second run | one run per event, none before a decision |
| Assistant: `mhvp/ai/` | proposals | propose, confirm | all forms | - | changes nothing without a person |
| Authentication: `mhvp/core/auth/` | sessions, refresh tokens, second factor | login, rotate, revoke, reset | all | two rotations of one token | reuse ends the family, reset by two persons |
| Core: `mhvp/core/db`, release gates, numbering, tasks | gates, counters | open a gate, draw a number | all | - | atomic requests |
| Platform: `mhvp/platform/` | tenants, settings | administer | webhooks | - | - |
| Master data: contacts, properties, contracts, letting, handover | rows with history | forms | accounting, billing | changes over time | no overlapping contracts |
| Tickets and work orders: `mhvp/tickets/` | tickets, orders, deadlines | status changes | communication, portal | - | legal status paths |
| Documents: `mhvp/documents/` | files, registers | store, classify, sync | archive (external) | sync | - |
| Imports and migration: `mhvp/imports/` | staged rows | dry run, run | all | - | - |
| Integrations: `mhvp/integrations/` | tokens, mappings | sync | external | - | - |
| Portal: `mhvp/portal/` | - | forms | others | - | - |
| Workspace, data quality, privacy register | views, notices | read, retain | others | - | - |
| Web applications: `src/apps/web-*` | none of the domain | user interface | API | - | - |
| Infrastructure: `src/infra` | configuration | deploy | - | - | - |

`PROJECT.json` lists the same components with their status, and every hazard of this code
at the line where it bites, with the properties that cover it or the reason why none does.

## 2. Modules

| Module | Content | Proofs | TLC instances |
|---|---|---|---|
| `Ledger` | general ledger of one legal entity | `LedgerProofs`, with `Sums` | `MCLedger` |
| `Payments` | payment orders of one bank account | `PaymentsProofs`, with `Sums` | `MCPayments` |
| `OpenItems` | what the books promise about items and payments, without dates and settlement rows | (in `LedgerProofs` and `PaymentsProofs`) | (in `MCLedger`) |
| `WebhookEvents` | events to deliveries of one subscription | `WebhookEventsProofs` | `MCWebhookEvents` |
| `WebhookDelivery` | deliveries of one subscription | `WebhookDeliveryProofs` | `MCWebhookDelivery` |
| `Idempotency` | calls under one key of one actor | `IdempotencyProofs` | `MCIdempotency` |
| `OnceOnly` | what a caller is promised, without the record | (in `IdempotencyProofs`) | (in `MCIdempotency`) |
| `PostingReversals` | reversals of the postings of one rule | `PostingReversalsProofs` | `MCPostingReversals` |
| `OwnersMeeting` | one agenda item of one meeting | `OwnersMeetingProofs` | `MCOwnersMeeting` |
| `Sums` | lemmas about `SumFunction`, which both ledgers add rows with; models no code | in itself | - |

The modules meet at narrow places. `Payments` sees of the ledger what `Ledger` promises,
and `OpenItems` is this promise: a posting comes into force as a whole, whatever items it
raises and pays together; the rest of an item is its amount less what postings in force take
from it, and no posting takes more than the rest; a posting is taken back as a whole and only
while nothing in force pays what it raised. Both modules are proved to implement it, each with
its own reading of items and postings. `WebhookDelivery` starts from
a row in status pending (`enqueue`), which is what `WebhookEvents` puts into `delivered`;
the switch `active` is in both. `PostingReversals` has the journal entry as `Ledger`
leaves it (unused, posted, reversed) and what the bank side makes of its reversal.
`Idempotency` wraps any endpoint, which it sees only as "committed or not, answered or
not"; `OnceOnly` is what it implements.

A definition with the comment `mutant` stands beside the one it varies. Nothing else uses
it: put in the place of that definition it is a bug of the code, and the property that
`PROJECT.json` names with it breaks. This is how we know that a property depends on the
code and not on the form of the model.

### Ledger

State: `entry` (the row of a journal entry, with day and number of its reversal),
`settled` (per item and day the sum of the rows of `open_item_settlement` dated until
then, which is all the code reads of them), `counter` (`journal_number_counter`),
`lockedUntil`, and `inFlight` (postings between their period check and their commit).

| Action | Code |
|---|---|
| `CreateDraft`, `UpdateDraft`, `DeleteDraft` | drafts in `services.py` and `routers.py`; an update voids `approved_by`, keeps `created_by` |
| `ApproveDraft` | approval endpoint: not the creator |
| `PostStart` | `post` and the trigger of `versions/0444`: draft, open period, approval of an opening balance, number counter locked |
| `PostCommit`, `PostAbort` | `_apply_open_items`, number, commit; refusal, deadlock victim, crash |
| `Reverse` | `reverse`: own item unsettled, open period; settlements of the entry are undone |
| `LockPeriod` | lock endpoint, ledger row `FOR UPDATE` |

A request is one step because it holds its locks until it commits. Posting an existing
draft is the exception and has two steps. It reads `locked_until` without a lock, and the
foreign key of a freshly inserted counter row is the only thing that makes a period lock
wait for it. A reversal inserts an entry, whose foreign key locks the ledger row, and is
one step. An entry moves any number of personal accounts (`move`, per account the sum of its
lines), raises at most one item on each and settles what its plan names on any of them; an item
is named by its entry and its account. The impersonal lines balance the entry and no property
looks at them. `Kind` merges the item kinds that the code treats alike.

`OpenItems` knows neither days nor rows of settlements. `Ledger` instantiates it as `Items`:
the postings are the entries (`Standing`), an item has the amount its entry created on its
account (`Raised`), and an entry in force pays what its plan says (`Booked`). `PostCommit` is
then `Post`, with all items the entry raises and settles, `Reverse` is `TakeBack`, and all else
is invisible. `Payments` instantiates it with payables and bank transactions (`Document`): a
payable is its own posting, in force from the start; execution and booking by hand are the
`Post` of a transaction for a list of payables, return and reversal of a payment its
`TakeBack`, and the reversal of an invoice the `TakeBack` of the payable.

### Payments

State: `order` (with approvals that are not invalidated), `posting` (what each bank
transaction is booked to), `voided` (payables whose invoice was reversed), `file`, and
`request` (the request in flight on each file, with the status it read per order).

| Action | Code |
|---|---|
| `order_from_invoice`, `change_order`, `approve`, `cancel_order` | `payments.py`; approvals carry the snapshot (amount, IBAN), four eyes by person (e-mail, contact) and not by account, no platform administrators |
| `create_batch_start`, `create_batch_commit` | `create_batch` with `ensure_within_limits` of `payment_run.py`: own orders locked, the others of the day summed without a lock |
| `download_batch_file` | download |
| `submit_batch_start`, `submit_batch_commit` | `submit_batch`: reads orders without a row lock |
| `bank_status_start`, `record_acceptance`, `record_rejection`, `record_execution`, `record_return` | `bank_status` in `routers.py`, `record_execution` and `record_return` in `payments.py`; what an ORM session writes is what differs from what it read (`Write`) |
| `import_report` | `bank_status.py`: pain.002 and camt.054, orders locked |
| `book_payment`, `reverse_payment`, `reverse_invoice` | bookings and reversals outside the run; a booking settles any number of payables (`matching.book_payment`, the list of settlements), each within its rest and together within the debit; the reversal of an invoice cancels open orders and is refused while one is at the bank |
| `abort` | any rollback |

### WebhookEvents

State: `clock`, `occurred` and `committed` (start and commit of the transaction of an
event), `hook` (created, active, watermark), `delivered`, `run` (what a run has read).
`begin` and `emit` are the transactions of other components; `enqueue_read` and
`enqueue_deliveries` are the two halves of the function `enqueue_deliveries`, between
which another run may commit; `lose` is a lost run. `create_webhook` and `patch_webhook` are the
endpoints. `Since` and `Lookup` are the query: newest watermark less the overlap, at most
`Limit` events in the order of `occurred_at` and id, those with a delivery left out.

### WebhookDelivery

State: `row` (`webhook_delivery`), `hook` (exists, active, consecutive failures), `worker`
(step and memory of each run). `claim_delivery`/`claim_row` and `apply_outcome`/`apply`
are the two transactions of an attempt, each split where it has read the subscription
without a lock; `send_claimed` is the call, outside any transaction. `lease_ends` lets
`next_attempt_at` come. `redeliver`, `patch_webhook`, `delete_webhook` are the endpoints;
`redeliver` reads its row without a lock, and where it read a pending one writes only that it is
due, whatever became of the row since. `lose` is a lost worker. Times are reduced to whether they have come (`due`), since the code
compares them with now and with nothing else.

### Idempotency

State: `record` (the Redis record), `step`, `outcome`, `answer` per call, `effects` (calls
whose changes were committed). `send`, `load`, `retake`, `reload` are the four accesses
in the order of the middleware; `execute` the endpoint, `respond` the answer, which leaves
before `store` completes or releases the record; `abort` an exception. `fault` is a failing
access or a lost process, `expire` the end of the 24 hours. `repeats` and `blamed` are
history: releases after a commit, and the record a call was answered from.

`OnceOnly` says what a client may rely on and has no record: one run at a time (`Start`,
`Change`, `Answer`, `Error`), a key that is held from the change until it is given up
(`GiveUp`), refusals (`InProgress`, `Mismatch`, `Missed`) of calls that never changed
anything, and a `Replay` only of an answer that a run gave. `Idempotency` instantiates it
as `Once`: who is `running` is read off `step`, `changed` is `effects`, and the holder is the
owner of the record if its changes stand (`Holder`). `Missed` is the refusal the code gives
when its second look finds no record: a 422 for a call that is identical.

### PostingReversals

State: `bank` (status and entry of each transaction), `moves` (the transactions whose bank
accounts an entry moves, which is how the code finds out that the other half of a transfer is
booked already), `entry`, `reversal` (the database transaction that reverses an entry, and its
event), `review`, `example` (counter examples), `rule`, `runner` (the database transaction of
the runner: what it has chosen and posted), `watermark`, `lock` and `job` (the runs, with what
they will commit). `fate` is history: what became of each event.

| Action | Code |
|---|---|
| `Import` | `pair_transfer`: the second half of a transfer is linked even if the first is booked |
| `Book` | `matching.book_payment` for a person: both halves of a pair with one posting, or one half alone if the other is booked elsewhere (`booked_elsewhere`) and that posting does not move its bank account (`Bookable`, `Settled`, `Moved`) |
| `RunnerChoose`, `RunnerPost`, `RunnerRefuse`, `RunnerCommit`, `RunnerRollback` | `runner.py`: a transaction is locked and the active rules are read without a lock; it is posted later, the count of hits locking the rule; a refusal is rolled back to its savepoint; one database transaction for the run |
| `BeginReverse`, `CommitReverse`, `BeginCorrect`, `CommitCorrect`, `Rollback` | the reversal in the journal, and `review.correct`; the event is dated at the begin and seen at the commit |
| `Decide` | `review.decide` |
| `Activate`, `Disable` | the rule endpoints; `_rule` locks the row before its state is checked |
| `FirstRun`, `Start`, `StartUnlocked`, `Look`, `Handle`, `Fail`, `Finish` | `process_tenant` and `_on_entry_reversed` of `events_consumer.py`: the first run only sets the watermark; a run is one transaction with a savepoint per event. The lock may stay behind if Redis does not answer after the commit |
| `Kill`, `Expire` | a worker that ends in the middle; the time to live of the lock (`core/task_policy.py`) |

A run sees what was committed when it reads, and publishes its own changes at `Finish`; rows
it has written are locked until then, as are those of a correction and of the runner
(`BankFree`, `RuleFree`, `Blocked`). A rule disabled after the runner has read it is used once
more; `DisabledForGood` says that this is all.

### OwnersMeeting

State: `status` and `closing` of the meeting, `attendance`, `proxy`, the tenant rule `mode`,
the item with `window`, `result`, `vote`, `excluded`, `conflict` and `resolution`, and
`request` (what each request in flight has read). `accepted` is history: votes confirmed.

A request that locks what it reads is one step (`request_close`, `confirm_close`,
`withdraw_close`, the tenant rule, portal proxies). The others are a step that reads and
checks (`BeginRecord`, `BeginPortal`, `BeginResolve`, `BeginWindow`, `BeginAnnounce`,
`BeginPatch`, `BeginAttendance`, `BeginDisruption`) and one that writes (`Record`, `Portal`,
`Resolve`, `Window`, `Announce`, `Patch`, `Attend`, `Disrupt`), or fails (`Abort`). The
portal, the decision of a conflict and the voting window lock the item before they write and
read it again; they have read only the meeting too early. Choices and weights are left out:
a vote is known by its source, and a tally by the source counted for each unit.

## 3. Runs

Deadlock is checked in `Ledger`, `OwnersMeeting` and `PostingReversals`, where a person can
always do something more. In the others the system may really stop: the identifiers of
orders, files, events, calls and redeliveries are used up and everything is final; the
configurations say `CHECK_DEADLOCK FALSE`.

| Run | Instance | What it shows | States |
|---|---|---|---|
| `ledger` | 3 entries, 2 people, debtor and creditor account, 2 days in 2 fiscal years; an invoice that raises an item on both accounts, a credit, an opening balance, payments with rival plans on one or both accounts, an entry that raises one item and settles another | `SettledWithinItem`, `SettlementsExplained`, `ReversedIsNeutral`, `SubledgerWithinLedger`: the sub-ledger adds up, per account, through every order of posting and reversal, also where a plan names an item of the other account. `GaplessRegister`: numbers without gap through rollback. `OpeningBalanceChecked`. `LockedPeriodFrozen`: the past stays. `KeepsItems`: the ledger implements `OpenItems`. `TypeOK` | 63,605 |
| `ledger_period_lock_race` | as `ledger`, with simpler entries | violation: a posting lands in a period locked meanwhile (section 6) | - |
| `payments` | 1 payable of 2, 2 orders, 2 files, 3 people, 1 of them an administrator, a debit of 1, a credit of 1 | `TwoPersonsApproved`, `ExecutedByProof`, `CreditsMatchReturns`, `OrdersStayProper`, `FrozenAfterHandOver`, with two requests in flight; `TypeOK` | 1,838,354 |
| `payment_bookings` | 2 payables of 2, 1 order, 1 file, 2 people, 2 debits of 2, a credit of 2 | `PaidWithinPayable`: two debits, each enough for a payable, are booked in full or in parts to both, executed, returned, reversed and booked again while invoices are reversed | 90,940 |
| `webhook_events` | 3 events, 2 of them subscribed, 2 runs, limit 2, overlap 1, 1 lost run, 1 switch, clock to 3 | `NothingLeftBehind`, and `MatchingEventsAreQueued` under fairness, `TypeOK` | 469,699 |
| `webhook_events_limit` | 2 unsubscribed events and 1 subscribed, limit 2 | violation of `MatchingEventsAreQueued`: the lookup reads the same events for ever | - |
| `webhook_delivery` | 2 deliveries, 2 runs, 1 retry, switch-off after 1 failure, 1 redelivery each, 1 lost run, 1 switch | `CallsBounded`, `OneCallAtATime`, `ClosedStaysClosed`, and `PendingIsClosed` under fairness, `TypeOK` | 156,356 |
| `idempotency` | 4 calls, 3 of them alike, late errors, 1 fault, 1 expiry | `MadeOnce`, `ReplayIsTrue`, and `KeepsPromise`: the four accesses implement `OnceOnly`; `TypeOK` | 72,742 |
| `meeting` | 1 unit, 2 people, 2 requests in flight, 2 tenant rules | `EachSourceOnce`, `NoVoteLost`, `OnlyOverlapsBreak`, `ClosedIsFrozen`, `TypeOK` | 2,575,348 |
| `meeting_closed_reopens` | as `meeting` | violation of `ClosedStaysClosed` | - |
| `reversals` | a transfer pair whose second half comes later, 2 entries, 1 of the rule, 2 runs, lag 1, 1 event per run, 1 fault, clock to 3 | `NoSecondEffect`, `HandledIsUndone`, `NoneSkipped`, `CountedOnce`, `DisabledForGood`, and `EachReversalHandled` under fairness, `TypeOK` | 505,610 |
| `reversals_uncounted` | both entries of the rule, 1 of them without review | violation of `EveryReversalCounts` | - |

Why these bounds are enough to be of interest:

* Ledger: over-settlement needs an item, two payments and a reversal between them, one
  payment that also pays a second item; two days give one in and one after the lock, and
  two fiscal years let a reversal draw its number in another year than its entry. Two
  accounts are the fewest on which one posting raises two items, settles two, or does both.
* Payments: a second order for the rest needs a payable of 2 and a partial debit of 1; two
  files give two requests in flight; the checks of who approves are those of an
  administrator and of a repeated approval, while two accounts of one person, which enlarge
  the space beyond use, are left to the proofs, which hold for any `Person`. The credit and
  the debit give every kind of return. That payments exceed a payable needs two debits that do
  so together, and a booking over several payables needs two of those; approvals, which such
  a booking never looks at, are those of two people in that run.
* Webhook events: limit 2 is reached with 3 events; overlap and longest transaction of 1
  make events appear behind the watermark; two runs let the watermark go back.
* Webhook delivery: one retry is the smallest schedule with a last attempt that is not the
  first; two runs are needed for any race; the switch-off at the first failure reaches the
  other delivery. Runs that outlast their lease (`SlowWorkers`) enlarge the space beyond
  use and are left to the proofs, which hold for both values.
* Idempotency: the record released between two looks needs three calls; the fourth has
  another fingerprint.
* Meeting: units meet only in the announcement and the deferral, which read all their votes
  at once, so that one is enough; two requests give every overlap of
  a reader and a writer, the third vote, after the change of a rule, is cast in sequence.
* Reversals: two entries are the posting and its replacement, or the postings of two halves;
  one event per run makes the second run start behind the first; a half that comes later
  makes a posting that already moves its bank account. One fault is enough for a run without
  lock beside another, or a lock left behind; several are left to the proofs.

The bounds are constants: `MaxTime`, `MaxLost`, `MaxSwitches` (events), `MaxRedeliveries`,
`MaxLost`, `MaxSwitches` (deliveries), `MaxFaults`, `MaxExpired` (idempotency), `LastDay`
and `Input` (ledger), `LastMoment`, `Longest`, `MaxFaults` (reversals), `Request` (meeting);
in `Payments` the sets of identifiers bound everything. Numbers in the source that only
scale a behaviour are small: a limit of 1000 events becomes 2 or 1, an overlap of 15 minutes
1, six retries 1.

Symmetry is used for people, orders, files, requests and identical calls, in runs without
liveness properties only: no operator distinguishes their values.

### Fairness

* `WebhookEvents!FairSpec`: weak fairness of `enqueue_read(w)` and `enqueue_deliveries(w)`
  per run. The beat starts the job every minute, and a job has a time limit. Lost runs are
  bounded; with runs that are lost for ever nothing is promised.
* `WebhookDelivery!FairSpec`: weak fairness of the own step of each run (a call has a
  deadline, a transaction ends), of `lease_ends(d)` (time passes), and of the claim of each
  delivery by some run (the beat, and `SKIP LOCKED` with a bounded number of other rows).
* `PostingReversals!Spec`: weak fairness of `Tick` (time passes), of `Job` (the beat starts
  the job every minute, a run has a time limit, a lock left behind expires), of `Commit(e)`
  and `RunnerEnds` (a database transaction ends). Strong fairness of `Handle`: PostgreSQL
  grants a row lock in turn, so that a run that waits for a row which persons and the runner
  take again and again gets it. Faults are bounded by `MaxFaults`.
* No step of a person, of the bank or of a receiver is fair. `Ledger`, `Payments`,
  `Idempotency` and `OwnersMeeting` promise no progress, so they state no fairness.

## 4. Proofs

Every theorem holds for any value of the constants that the named assumptions of the
module admit (`LedgerAssumption`, `PaymentsAssumption`, ...): sets of identifiers are
finite, bounds are natural numbers, the null values are not identifiers. `tlapm` checks
every step; nothing is taken as given.

| Theorem | States | Argument |
|---|---|---|
| `LedgerProofs!SettlementsStayWithinItems` | `[]SettledWithinItem` | `SInv` below |
| `LedgerProofs!SettlementsAreExplained` | `[]SettlementsExplained` | `SInv` |
| `LedgerProofs!ReversalsAreNeutral` | `[]ReversedIsNeutral` | `SInv` |
| `LedgerProofs!SubledgerStaysWithinLedger` | `[]SubledgerWithinLedger` | follows from `SInv` in every state: the sum over items is the sum over payments |
| `LedgerProofs!RegisterIsGapless` | `[]GaplessRegister` | see below |
| `LedgerProofs!OpeningBalancesAreChecked` | `[]OpeningBalanceChecked` | `ChecksStand` |
| `LedgerProofs!PostedRowsAreImmutable` | `PostedImmutable` | only `Reverse` touches a posted row |
| `LedgerProofs!LockedPeriodsAreFrozen` | `LockedPeriodFrozen` | settlements are dated after the lock, or by a posting in flight |
| `LedgerProofs!ImplementsOpenItems` | `KeepsItems`, that is `Items!Spec` | step simulation (`ItemsInit`, `ItemsNext`) |
| `PaymentsProofs!ImplementsOpenItems` | `KeepsItems` of `Payments` | step simulation, with `Typed` |
| `PaymentsProofs!PaidStaysWithinPayable` | `[]PaidWithinPayable` | `BooksOK` below |
| `PaymentsProofs!HandedOverByTwoPersons` | `[]TwoPersonsApproved` | `IInv` below |
| `PaymentsProofs!HandedOverIsFrozen` | `FrozenAfterHandOver` | step classes |
| `PaymentsProofs!ExecutedOnlyByProof` | `[]ExecutedByProof` | `Standing` |
| `PaymentsProofs!OnlyStaleCommitsBreak` | `OrdersStayProper` | `Standing`, steps are `Kept` and `Tame` |
| `PaymentsProofs!CreditsCloseReturns` | `[]CreditsMatchReturns` | `Traced`, `Matched` |
| `WebhookEventsProofs!WatermarkCorrect` | `Longest <= Overlap => []NothingLeftBehind` | `IInv` below |
| `WebhookDeliveryProofs!CallsAreBounded` | `[]CallsBounded` | `RowsBounded` |
| `WebhookDeliveryProofs!CallsAreExclusive` | `[]OneCallAtATime` | `AttemptsDiffer`, `Alone` |
| `WebhookDeliveryProofs!ClosedRowsStayClosed` | `ClosedStaysClosed` | `LocksStand` |
| `IdempotencyProofs!OneCallRuns` | `[]OneRuns`: at most one call runs the endpoint | `Owned` |
| `IdempotencyProofs!ReplaysAreTrue` | `[]ReplayIsTrue` | `RecordStands`, `AnswersStand`, `ReplaysStand` |
| `IdempotencyProofs!ChangesAreMadeOnce` | `[]MadeOnce` | `Counted` |
| `IdempotencyProofs!ImplementsOnceOnly` | `KeepsPromise`, that is `Once!Spec` | step simulation (`PromiseInit`, `PromiseNext`) |
| `PostingReversalsProofs!OneEffect` | `[]NoSecondEffect` | `IInv` below |
| `PostingReversalsProofs!HandledUndone` | `[]HandledIsUndone` | `IInv` |
| `PostingReversalsProofs!PassedIsHandled` | `[]NoneSkipped` | `IInv` |
| `PostingReversalsProofs!CountedOnceWithTheLock` | `[]CountedOnce` | `CountInv` |
| `PostingReversalsProofs!DisabledStays` | `DisabledForGood` | lowering never raises a rule, and the runner chooses under an active one only |
| `OwnersMeetingProofs!VotesOnce` | `[]EachSourceOnce` | `ConflictsAreAboutVotes` |
| `OwnersMeetingProofs!VotesKept` | `[]NoVoteLost` | `ReadVotesStand` |
| `OwnersMeetingProofs!ProperUnlessOvertaken` | `OnlyOverlapsBreak` | per step |
| `OwnersMeetingProofs!ClosedUnlessBegunBefore` | `ClosedIsFrozen` | `Begun` |
| `TypeCorrect` of every proof module | `[]TypeOK` | one step per action; in `PaymentsProofs` together with `BooksOK`, since an order is written with the rest of its payable |

The inductive invariants, and why the properties are not inductive alone:

* **Ledger**: `IInv == TypeOK /\ RowsInOrder /\ ChecksStand /\ GaplessRegister`. A commit
  numbers an entry; that it enters the register once needs that what is in flight is a draft
  (`RowsInOrder`). A check is stable between `PostStart` and `PostCommit` because changes
  wait for the row in flight (`ChecksStand`). `RegisterExtended` is the one argument about
  numbers, used by posting and reversal.

  The settlements need `SInv == PlansStand /\ SettlementsExplained /\ SettledWithinItem /\
  ReversedIsNeutral`, none of which is inductive alone. `Reverse` sees only that the
  settlements of its own item add up to zero. That nobody in force settles it follows because
  they are the sum of the plans in force (`SettlementsExplained`), none of which is negative
  (`PaidAtMostSettled`); that the counter-settlements leave no other item below zero, because
  the plan of the reversed entry is one of these summands. `PlansStand` keeps what a commit
  checked of its plan: items exist, none is its own, and on every account it stays within the
  movement there. `SubledgerFollows` needs nothing further: per account, the settled
  amounts are summed by item, the plans by the entry that pays, and the two orders of summation agree
  (`SumByRowsOrColumns`).

  `ImplementsOpenItems` uses the same invariant. The rest that `OpenItems` computes from the
  plans in force is what the code computes from settlement rows (`RestIsRemaining`), so that a
  plan checked against these takes no more than rests (`PlanTakesRests`). `StepKinds` sorts all
  steps into quiet ones, which leave items and plans alone, postings (`PostCommitPosts`) and
  reversals (`ReverseTakesBack`). A plan may name several items, and a posting may raise and
  pay at once; an entry never settles an item of its own, which has no amount until then.
* **Payments**: `IInv == OrdersOK /\ RequestsOK`. The claim about orders at the bank rests
  on what an export in flight holds: approved orders with two persons, in no other export.
  Every step does one of three things to an order: leaves it the `Same`, answers it
  `AfterHandOver`, or prepares it `BeforeHandOver`. One lemma shows that steps of these
  kinds keep `IInv` and the frozen fields, and one lemma per action shows its kind.

  `Standing` is what execution by proof needs: a transaction an order names is booked and
  named by that order only; an order for a reversed payable that was not sent is worth
  nothing, so that no file takes it; an export in flight holds orders of standing payables.
  Every order is `Kept` by a step or is a new one; without a stale commit every step is also
  `Tame`: it brings no order back on its way.

  `Traced` says that an executed order is in the hands of one request, which knows its
  status, so that a return finds the order executed; `Matched` compares, for every amount,
  the credits used with the orders that came back. Only `record_return` adds to either, and
  to both at once.

  `Typed == OrdersTyped /\ BooksOK /\ FilesTyped`, with `IInv` and `Standing`, gives the types
  and `PaidWithinPayable` together: a new order is written with the rest of its payable, which
  is an amount only as long as no more is paid than there was (`RestIsAmount`), while every
  booking is held against that rest (`SettlesWithinPayable`) and a reversal takes away
  (`LessWithinPayable`). The transactions that pay a payable change with every booking, so that
  the sum is taken over all transactions with zero for the others (`Part`, `SettledIsSum`).

  `ImplementsOpenItems` follows the bookings: `BookingPosts`, `LeavingTakesBack`,
  `ReversalTakesBack`, on the documents of `MappedDocuments`. A return changes two transactions,
  of which only the debit had paid; the credit stays new to `OpenItems`.
* **WebhookEvents**: `IInv == TypeOK /\ Past /\ WatermarkCovers /\ RunsCover`. A run writes
  a watermark computed from what it read earlier, so that the invariant must speak of the
  watermarks runs may still write. An event that commits late is caught because its
  transaction is not older than the overlap (`Past`), an event beyond the limit because the
  lookup is in order (`FirstOfIsFirst`).
* **WebhookDelivery**: `LocksStand` (a row lock has one holder, on a pending row),
  `RowsBounded` (an attempt that is not under way leaves one in hand), `AttemptsDiffer` and
  `Alone` (with leases that outlast calls and without redelivery the caller is alone).
* **Idempotency**: `Owned` (who runs owns the record), `RecordStands`, `AnswersStand`,
  `ReplaysStand`, and `Counted`: commits are at most expiries plus repetitions, plus one
  while the record covers a commit.

  `ImplementsOnceOnly` adds `InOrder`: a call that has its answer ran or was told of a
  record, which is what maps every access to one step of `OnceOnly` or to a stutter.
* **PostingReversals**: `IInv` says that an event is visible exactly when its entry is
  reversed (`EventsTellTheTruth`), that nothing refers to an entry yet to come
  (`NothingAhead`), what each run has collected (`RunIsSound`: it will open only transactions
  whose entry is reversed, and all that carry what it handled), and that the position it will
  write passes only its own batch and what was dealt with before (`RunSkipsNothing`).
  `NoSecondEffect` and `NoneSkipped` are not inductive alone, since `Finish` and `RunnerCommit`
  write what was chosen earlier: what the runner will commit is unused and settles all of a
  pair that carries no posting in force (`RunnerIsSound`), an entry is carried within one pair
  (`CarriedTogether`), and no row is held by two of person, runner and job (`RowsApart`).

  `CountInv` holds until a run goes without the lock: at most one run is under way and holds
  the lock (`Apart`), what was counted lies behind the watermark (`CountedIsBehind`) and what
  a run has read lies ahead of it (`ReadsAhead`). What `Finish` counts was therefore never
  counted before, and the counter of the rule grows with the set it counts (`Counts`).
* **OwnersMeeting**: a vote that a request has read stands until it writes, for votes are
  never taken back (`ReadVotesStand`); a conflict is between the counted vote and another
  source (`ConflictsAreAboutVotes`); a request in flight has passed its checks on what it
  read (`Begun`).

* **Sums**: what a sum does when one summand changes, that it is at most another that is so
  term by term, or that rows and columns give the same total, is an induction over the
  summands. The induction theorems of the library take the property as an operator, which the
  provers cannot instantiate. `SubsetInduction` states it for a set of sets instead: if it
  failed for some set, there would be a smallest such set (`LeastNatural`, from the
  well-foundedness of the natural numbers), and the sets with one element less are in it.

Every invariant and every action property that a run checks has its theorem.
`PostedRowsAreImmutable` and `ImplementsOpenItems` of `PaymentsProofs` are proved and in no
run; TLC finds no counterexample to either in the instances of `ledger` and `payment_bookings`. The liveness
properties `MatchingEventsAreQueued`, `PendingIsClosed` and `EachReversalHandled` stay with
TLC: they rest on fairness and ENABLED, which the provers do not reason about.

## 5. What is left out, and where the abstractions are

* Ledger: charts of accounts, impersonal lines, VAT, notes, cost centres and the period
  lock per property. Amounts are small integers: the code works with exact decimals in
  numeric columns.
* Payments: payouts without invoice, cash discount, direct debits, the layout of pain
  files, the release gate G2 (taken as open: closed, no file is made). The daily limit is
  the guard of one file, as the source states it.
* Webhooks: signature, target checks, changes of URL and secret, notifications, the shares
  of the time budget between tenants, a change of the subscribed types.
* Idempotency: the digest of key and fingerprint is a value; keys are independent. Loss of
  data by Redis itself is not a step of the code.
* Reversals: proposals, learning of new rules, the levels of automation and the limits of the
  runner; one rule, whose postings are reviewed or not. Transactions that are ignored or in
  doubt are not told apart from open ones. One the runner passes over loses its lock at once,
  which allows more than the code. What a correction posts instead is a fresh entry.
* Meeting: agenda of several items, majorities and weights, invitation, lists and documents;
  confirmation of participation is taken as given; gate G4 is open.
* Row locks that wait for each other (a posting against a reversal of its receivable, a
  deletion against an outcome) are resolved by PostgreSQL, which aborts one transaction:
  the modules have the abort as a step and no lock graph.
* The components with status `not_modelled` are either in the plan of section 7 or are
  forms, documents, calculation or protocols of outside systems; `PROJECT.json` gives the
  reason of each.

## 6. Findings

Four statements of the repository do not hold; each has a run that shows it.

1. `ledger_period_lock_race`. `versions/0444_aj03_booking_guards.py:6` says that nothing is
   posted on or before `locked_until`. The trigger and `ensure_open_period` read the ledger
   row without a lock. A lock that commits between this read and the commit of the posting
   contains a new posting. The window is the duration of one transaction; `LockedPeriodFrozen`
   shows that nothing else gets in.
2. `webhook_events_limit`. Events of types without a subscription are never left out of the
   lookup. When as many as the limit lie within one overlap, as one import transaction can
   write them, every run reads them again and no later event is queued.
3. `meeting_closed_reopens`. `hoa/meetings.py:2601` says a closed meeting stays closed. A
   disruption, or an attendance, reads the meeting without a lock and writes the status when
   it commits; one that began before the closing was asked for reopens the meeting.
   `ClosedIsFrozen` shows that only requests begun before the closing do it.
4. `reversals_uncounted`. `docs/rules/M12-06-gelernte-bankregeln.md:41` says that each
   reversal of an automatic posting counts against its rule. The consumer finds the rule by
   the review item; a posting the sample has not drawn has none, and its reversal, even for
   an error of the automation, lowers nothing.

Further behaviour met while modelling that contradicts no statement of the source, or
only one that is open to interpretation:

* The state of an item as of an earlier day may be over-settled, since the day of a
  reversal and of a second payment can be chosen freely; the total never is.
* A person who changed an opening balance written by another may approve the own change:
  `created_by` is compared, not `updated_by`.
* `bank_status` and `submit_batch` (`banking/routers.py:3027`) read orders without a row lock
  and write their status later. A rejection by a status report in between, even one followed by
  the reversal of the invoice, is overwritten, and the order stands as handed over. Nothing is
  executed on it, since the payable has no rest (`PaidWithinPayable`); `OrdersStayProper` shows
  that this commit is the only step that does it.
* Two files generated at the same time may exceed the daily limit together.
* A redelivery while a call is under way drops the answer of that call. One that read the row
  before it was closed leaves it closed, although it was accepted.
* Two final failures at the same time may count as one.
* An identical call may get 409 after the first already has its answer. A second look that
  finds no record is answered as a mismatch (422), although the call is identical; two
  identical calls that fail one after the other suffice (`Missed` in `OnceOnly`).
* Redis away while a run is under way lets a second run count the same reversal again: the
  look for an earlier count takes no lock, and no index forbids a second one.
* An approved order stays exportable after its payable was settled by hand.

## 7. Plan

Done: `Ledger` and `Payments` with `OpenItems`, `WebhookEvents`, `WebhookDelivery`, `Idempotency` with
`OnceOnly`, `PostingReversals`, `OwnersMeeting`, with the theorems of section 4. In this order
next:

1. **Abstract specifications.** `PaymentPromise` (requested, approved by two, at the bank, paid
   or returned, per order) as what `Payments` implements: a property of a run first, then a
   step simulation theorem.
2. **`Sessions`** (`mhvp/core/auth`): rotation of refresh tokens with reuse detection,
   concurrent rotation, revocation; reset of the second factor by two persons. Properties:
   a used token never yields a session; reuse ends the family.
3. **`PeriodLock`** (`mhvp/accounting/period_lock.py`): release by two persons, overlapping
   locks, composed with the posting guard of `Ledger`.
4. **`Dispatch`** (`mhvp/communication`): outbox and postal dispatch with crashes between
   sending and recording.
5. **`Automation`** (`mhvp/automation`): runs and decisions on one event.
6. **Composition.** `WebhookEvents` with `WebhookDelivery` over one subscription
   (reactivation in both halves); `Ledger` with `Payments` over one payable, in place of
   the sums `Payments` keeps itself.

Theorems planned: the step simulation of 1.

Runs: one per new module, with at most two actors of each kind, one fault of each kind and
the smallest number at which a limit is reached.
