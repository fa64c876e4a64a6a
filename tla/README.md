# FinVault wallet backend: TLA+ models and proofs

FinVault is an e-wallet backend of TypeScript microservices. Money lives in
wallet-service; the other services reserve, capture, release and refund it
through wallet-service's internal HTTP interface, and tell each other what
happened through outbox tables, RabbitMQ and inboxes. This directory holds the
TLA+ models of that machinery, their model-checking instances and machine-checked
proofs about them. `PROJECT.json` maps every definition to the lines it models.

## 1. The system

| Component | State | Operations | Talks to |
|---|---|---|---|
| wallet-service | `Wallet`, `WalletHold`, `LedgerEntry`, `UserDailyUsage`, `WalletInbox`, `WalletOutboxEvent` | credit, debit, transfer, hold, extend, capture, release, refund, freeze, adjust; hold sweeper; KYC consumer; outbox drain; reconciliation queries | called by all money services; consumes user and merchant events |
| payment-service | `Payment` (status, workflow, lease), `OutboxEvent`, `UsedTransactionToken`, `TopupRequest`, `CashOutRequest` | checkout, confirm, cancel, refund; P2P recovery; expiry job; refund worker; top-up and cash-out with their recoveries | wallet-service, VNPay, a bank (mock), utilities and notification through events |
| utilities-service | `UtilityOrder`, inbox | create, settle, refund, recovery | payment-service, a provider |
| auth-service | `User`, `Session`, PIN counters, Redis QR records, outbox | register, login, refresh, PIN, QR login | user-service through events |
| user-service | `User` profile (version, tier), `user_outbox_events`, `StorageCleanup` | profile, KYC documents and review, tier changes, clean-up | wallet-service through events, object storage |
| merchant-service | merchants, outlets, API keys, outbox | register, review, update | wallet-service through events |
| notification-service | notifications, devices, inbox, socket tickets | consume, push, register a device | everybody's events |
| admin-service | audit log, reconciliation runs, anomalies | review KYC and merchants, reconcile, adjust | wallet-, user-, merchant-service |
| gateway | none but a rate window | route, authenticate | all |
| finvault-events | (library) queues, retry queues, dead letters | publish with confirmation, consume with retry and inbox | RabbitMQ |

What is hard in it, and what makes each part correct:

- **wallet-service.** Capture, release, expiry and the sweeper race for one hold;
  retried and replayed requests; usage booked on one day and returned on another.
  Correct: balances are what the ledger says, reservations are what the holds
  say, nobody is overdrawn, a hold is settled or freed once.
- **P2P payments.** Every operation is split in claim, wallet call and write; leases
  lapse, answers are lost, requests are executed late, workers die. Correct: the
  payment ends once, paid if and only if the payer's money moved.
- **Other payments.** The same races without leases: unlocked reads, unconditional
  writes. Correct: the wallet's hold decides; no verdict contradicts the money.
- **Refunds, cash-outs, top-ups.** A remote effect whose answer may be lost, retried by
  several workers. Correct: reported only if done, never forgotten, done once.
- **Utility orders.** A payment, then a provider, then perhaps a refund, each possibly
  unanswered. Correct: an order is fulfilled or its money returned.
- **Events.** At-least-once delivery in any order. Correct: written in order, not lost,
  harmless when duplicated.
- **Sessions, PIN, QR.** Counters and one-time records under concurrent requests.
- **Reconciliation.** Adjustments and runs whose answer is lost. Correct: what the rows say
  happened, and nothing is tried again while an earlier try may still take effect.
- **Documents.** Uploads, a review and two clean-ups. Correct: a document somebody can
  still refer to is not deleted.

## 2. Modules

| Module | Models | Instance | Proofs |
|---|---|---|---|
| `WalletLedger` | wallet-service: ledger, holds, limits, expiry | `MCWalletLedger` | `WalletLedgerProofs` |
| `WalletLedgerProps` | its properties and refinement mapping | `MCWalletLedger` | `WalletMoneyProofs` (sums, limits, `HoldContract`) |
| `HoldContract` | abstract: what a hold promises its callers | | |
| `WalletOutbox` | wallet-service: one outbox row and its drains; extends `Notifications` | `MCEvents` | `EventProofs` |
| `P2pPayment` | payment-service: one P2P payment, its workers, its hold | `MCTransfers`, `MCP2pPayment` | `P2pPaymentProofs` |
| `PaymentContract` | abstract: what a payment promises | | |
| `CheckoutPayment` | payment-service: one payment of another type | `MCCheckoutPayment` | `CheckoutPaymentProofs` |
| `RefundSaga` | payment-service: the refund of one payment | `MCOrders`, `MCRefundSaga` | `OrderProofs` |
| `CashOut` | payment-service: one cash-out and the bank | `MCTransfers` | `FundingProofs` |
| `Topup` | payment-service: one top-up paid at VNPay | `MCTransfers` | `FundingProofs` |
| `PaymentOutbox` | payment-service: one outbox row and its drains; extends `BrokerLink` | `MCTransfers`, `MCPaymentOutbox` | `FundingProofs` |
| `BrokerLink` | the publisher's connection, the same file in both services | with the two outboxes | |
| `UtilityOrder` | utilities-service: one order, its payment, its provider | `MCOrders`, `MCUtilityOrder` | `OrderProofs` |
| `Registration` | auth-service outbox, user-service and wallet-service consumers | `MCEvents` | `EventProofs` |
| `TierPropagation` | user-service outbox, RabbitMQ, finvault-events consumer, wallet inbox | `MCOrders`, `MCEvents` | `EventProofs` |
| `EventConsumer` | finvault-events: start, reconnection and stop of a consumer | `MCOrders` | `EventProofs` |
| `KycDocuments` | user-service: KYC submission, review, the two clean-ups | `MCEvents` | `BackOfficeProofs` |
| `Notifications` | notification-service: consumer of the older events, internal POST, inbox | `MCEvents` | |
| `FinanceNotices` | notification-service: consumer of finvault.events | `MCEvents` | `EventProofs` |
| `ReconciliationDesk` | admin-service: adjustments and reconciliation runs | `MCEvents` | `BackOfficeProofs` |

`WalletLedger` is the ground floor: the payment modules model the holds of one payment
each and take the answers wallet-service may give from it. `HoldContract` is the
interface between the two floors: `WalletLedger` is checked and proved to implement it,
and `P2pPayment`, `CashOut` and `CheckoutPayment` are proved to show a hold nothing
that it does not allow (section 5). `UtilityOrder` in turn knows of a payment what payment-service tells of it. The event modules each
follow one row or one event from the producer to the consumer.

Common to all: a database transaction is one action, and what a thread does
between two transactions or remote calls is a step of its own. Each thread has a
program counter (`pc`, `driver`, `hand`, `draining`, ...) and may die at any step.
A clean timeout, a transport error and a 5xx are one case where the code treats them
as one. A request whose caller has stopped waiting (`late`, `adrift`, `unclaimed`,
`overdue`) is executed at any later time or never.

### wallet-service

**WalletLedger.** Each transaction locks the wallets it
touches (`SELECT ... FOR UPDATE`) before it decides anything, so transactions on
one wallet do not interleave. The sweeper reads its candidates without a lock and
then works them off in a transaction each, so it is two actions, and holds may be
extended, captured or released in between. Retries are further occurrences of the
same action; a replay that changes nothing is a stuttering step. The clock is a
small counter of instants, grouped into days for the usage limits. The ledger is
the set of entries under its unique key (wallet, reference, type, amount), which
is what makes replays recognisable in the code too.

**WalletOutbox.** One row, which two instances may be working on at once, because the
rows are locked only while they are selected. A drain publishes, falls back to HTTP,
and marks the row or counts an attempt. A row is marked published after a 4xx too
(`refused`). At the other end `Notifications` retries three times, keeps dead letters,
and writes notification and inbox row in one transaction under the event's id.

### payment-service

**P2pPayment.** `pay`, `leased`, `hold` and `due` are the row's status, workflow and
idempotency state, its lease, the hold at the wallet and its deadline. `pc` is what
each worker (a request handler, the recovery loop, the expiry job) is about to do:
call the wallet, or write what it has been told.

**CheckoutPayment.** The same wallet, but no workflow and no lease: handlers read the
row, call the wallet and write the row whatever it has become. A checkout that failed
is retried under its key with a new hold, so `holds` has one hold per attempt and a
handler works on the one it has read. The `used_transaction_token` table only
refuses more confirmations and is left out.

**RefundSaga.** One successful payment: the request, the outbox row
`payment.refund_requested`, workers that claim it under a lease, the wallet's reversal
(idempotent under `refund_<payment>`), and the outcome. The payment is written
unconditionally, the outbox row only under the claim's lock token, as in the code.

**CashOut.** `order` is the row, `cashHold` the hold, `bank` the mock bank's row. A run of
`drive()` takes the lease, does what the workflow says (hold, extend, payout, query,
capture, release) and writes under its lease token, except where the code does not.
The bank is a table of the same database, so its calls are never late, but its verdict
comes later or is never asked for.

**Topup.** Callbacks (IPNs) and passes of the recovery job fail, claim and credit one
request. PROCESSING with a fresh `updatedAt` is the lease. `acks` are the codes VNPay has
had: it stops repeating after "00" or "02".

**PaymentOutbox.** One row of any other kind. A claim is a lease with a token; an envelope
goes to finvault.events, an event of the older kind, as rows of earlier versions are, to
RabbitMQ or over HTTP; the outcome of a refund goes nowhere; marks are conditional on the token.
`answer` remembers a 4xx of notification-service. `BrokerLink` is the singleton connection below it, with its
flags as the code keeps them: `isConnecting`, the timer, attempts that run on after
they were superseded, and connections whose late close resets the new one's state.

### utilities-service

**UtilityOrder.** Threads of requests, of the event consumer and of the sweep work on one
order without a lease: they create it, open its payment, learn of the payment by event or
by query, take it to the provider, and ask for the refund. The payment is external to the
service: a checkout whose answer is lost may still open it, and a second one under the same
key meets the first at work.

### The way of events

**Registration.** The outbox row written with an account, two workers of auth-service
with claims of 30 s, and both consumers of `user.registered`. user-service makes the profile in a
serializable transaction; wallet-service makes the wallet, and a tier change of the new profile may
reach it first. An event confirmed by the broker before a service has declared its queue never
reaches that service (`missed`): `mandatory` asks that one queue take the event, and
notification-service's takes it too, so it may be confirmed with neither of the two there.

**TierPropagation.** The outbox rows of one user, by version; publishers that claim them in
order under a lease; copies of messages in queue, consumer, retry queue; dead letters; the
inbox and the tier at the wallet. A publication or a retry copy whose confirmation
is lost may have landed. Before wallet-service has declared its queue (`declared`) nothing lands,
and notification-service's queue on the same key may have the version confirmed all the same
(`bypassed`, until it is published again and lands).

**EventConsumer.** The flags and promises of one consumer of the package, between its loop,
the broker's callbacks and `stop()`, which may be called while a connection is being made.

**FinanceNotices.** Two deliveries of one event; the inbox row and one notification per party
in one transaction, where a second delivery waits on the key of the first and is a
duplicate or takes over; names and sockets afterwards.

### user-service and admin-service

**KycDocuments.** A submission uploads, takes the advisory lock, checks the object and commits
the profile's new key together with the intent to delete the old one; the timer and the scan
delete under the same lock after they have looked whether somebody refers to the object. A
deletion may outlive the transaction that holds its lock (`late`).

**ReconciliationDesk.** An adjustment: the audit row, the row of the anomaly (created or
reclaimed from FAILED), the call, the two records. A run: the claim that refuses a second run
for a minute, the audit row, the report of the wallet, the records. No two of these are in one
transaction with the wallet.

## 3. Runs

Every run is an instance with the smallest sets in which the cases it is about
happen: a user and a merchant or two users besides the system wallets; as many
references as a retry and a clash need; workers enough that one holds a stale
view while another acts; two versions, so that there is an order to break.

| Run | Question | Bounds |
|---|---|---|
| `ledger_holds` | nobody is overdrawn, a settled hold was paid, expired holds are freed, `HoldContract` is implemented | a user and a merchant that hold each other's money, one hold and refund reference, one movement reference, amount 1, three instants, one sweeper that may crash |
| `ledger_users` | balance = ledger, double entry; reservations and usage agree with the holds across midnight and stale sweeps, and the limits hold for what was really spent; nothing expires early | two users without holds, two references, two tiers, three instants; or one user with two holds, one reference, two sweepers, four instants; amounts 1 and 2, two days |
| `transfers` | P2P payments implement `PaymentContract`, end once confirmed and are announced once; cash-outs follow the bank and settle; top-ups are credited only if paid and are approved in the end; outbox rows are SENT only if told, and done with in the end | two workers; two drivers; two callbacks and one recovery pass; two drains, two retries, one attempt to connect at a time |
| `checkout` | verdicts agree with each other and with the money; nothing with a hold stays PENDING | two handlers, two checkouts |
| `orders` | a refund is real, owed, and decided; an order tells the truth and proceeds; every tier change arrives; `stop()` settles and returns | three refund workers; three threads of an order, two refund attempts; one publisher, two versions, one copy, one retry; two connections |
| `events` | tier changes in order, not lost, harmless when duplicated; documents are kept; parties told together and once; rows tell the truth; a movement is notified once; a registration reaches both services | two publishers, two versions, two copies, one retry; two submissions, two clean-ups; two deliveries, two parties; two administrators, two runs; two drains, two copies, one retry; two auth workers, two copies, one retry |
| `refund_twice` (violation) | is a capture refunded at most once? | two refund references |
| `p2p_cancel_stuck` (violation) | does every payment end? | one worker |
| `checkout_retried` (violation) | can a retried checkout be confirmed? | one handler, two checkouts |
| `refund_overwritten` (violation) | is REFUNDED final? | two workers |
| `refund_untold` (violation) | is what is SENT told? | two drains |
| `order_rejected` (violation) | does a 4xx mean that no payment will be? | two threads |

`MCTransfers`, `MCOrders` and `MCEvents` hold several components in one
instance. They share no state, so a product of them would show nothing that each does not
show alone: a behaviour is one of any component while the others stay as they began (and the
connection of `PaymentOutbox` too, unless the row is one that is sent over it). The liveness properties
there are implications `XFairness => ...`, so that the fairness of one component does not
constrain the behaviours of another. In `MCEvents` the components also share two actors (as
publishers, clean-ups, administrators, drains, ...) and two things (as copies, submissions,
parties, ...). Every component treats its actors alike and its things alike, and all
properties of the run are safety properties, so exchanging them (`SYMMETRY`) is sound.
`ledger_users` holds two instances of one specification in the same way: a behaviour is one of two
users who move money or one of a single user with holds. Its properties are safety properties
that name no sweeper and no hold, and the holds share their refund reference, so both may be
exchanged.

Bounds that are part of the models rather than of the system: `MaxTime` (the clock
stops there; `ExpiredHoldsAreFreed` asks nothing of a deadline the clock cannot
pass), `MaxLifetime`, the reference sets (a reference may be reused, so the number
of calls is not bounded), `MaxCheckouts`, `Last` (versions), `Copies`, `Parcels` and `Wires`
(messages in flight at once), `Handlings` (deliveries), `Links`, `MaxAttempts` (attempts to
connect that run at once), and the limits the code has itself but higher: `MaxRetries` and
its kin, `MaxLegacyRetries`, `MaxRefundAttempts`.

A worker has no memory between operations but its program
counter, so a behaviour that needs n stale views needs n + 1 workers. Two give one
stale view and one that acts; the refund and the order have three, because a stale
worker, a crash and an overtaking one meet there. The safety theorems of section 5
cover every number. Two copies of a message suffice for duplicates; one suffices for
liveness, because copies do not help each other.

Each property of a passing run has a mutant in `PROJECT.json`: a plausible bug in a
mapped definition under which TLC finds that property violated.

### Fairness

Nothing is assumed of users: confirmations, cancellations and new requests are never
fair. What is assumed is what `setInterval`, `cron.schedule` and consumer supervision
provide under faults that are not permanent: weak fairness of what is
scheduled again for ever (clock, lapse of a lease, retry delay, start of a pass), and
strong fairness of the steps that recovery repeats, that is, a step possible
again and again is not lost every time to a crash, a timeout or a lapsed lease. In detail:

- `ledger_holds`: the clock advances, the sweep runs again and again and does not die every
  time just before the same hold.
- `P2pFairness`: deadlines pass, leases lapse, passes of the recovery loop and of the expiry job
  are made, and what a worker has begun goes on: it writes what it has been told, and every call is
  answered or, after 5 s, given up (wallet.client.ts:21). That one of
  several calls is answered is assumed of the hold, of the expiry job's release, and of what
  recovery repeats; a cancellation may for ever be given up.
- `RefundFairness`: the same for the claims and steps of the refund workers.
- `CashOutFairness`: also that the mock bank concludes what it has begun. An order whose
  payout threw before the bank had a row of it waits for ever (cashout.service.ts:293), and
  `CashOutSettles` says so.
- `TopupFairness`: of recovery passes only; VNPay need not call again.
- `PayOutFairness`: the job's claim, and each step under a valid claim; of a publication that
  it succeeds at some point, or that the marks of older events are written.
- `OrderFairness`: the sweeps and the provider's answers. It cannot be concluded that a provider that
  never heard of the order does: PROVIDER_PENDING then stays, and `PaidOrderProceeds` says so.
- `TierFairness`: a confirmed publication under a valid claim happens if it is possible again and
  again. Checked with one publisher and one copy, because several of each make the
  fairness conditions, one per copy, publisher and version, too many for TLC.
- `ConsumerFairness`: attempts to connect, handlers and the waits of `stop` come to an end.
- `checkout`: a handler goes on or dies.

## 4. What the violation runs show

Each is a disagreement of the code with a sentence of the repository, quoted in
`PROJECT.json` under `findings`; the counterexamples are short.

- `refund_twice`: a capture replayed after a refund puts the hold back to CAPTURED,
  and a second refund reference pays it back again.
- `p2p_cancel_stuck`: a worker that dies while cancelling a payment that has no hold
  yet leaves it PENDING: recovery does not know the workflow, and the expiry job
  skips payments whose hold the wallet cannot find.
  The worker's own call and its other passes go on in the counterexample: what is missing is a
  recovery of CANCEL_CALLING. With one that took such a payment up again the property would hold.
- `refund_untold`: the row `payment.refunded`, which is to tell the customer of his refund, is
  marked SENT with nothing sent.
- `checkout_retried`: a checkout retried after a failed hold answers with a payment
  that is FAILED and holds money: nothing can confirm, cancel or expire it.
- `refund_overwritten`: a refund worker whose lease has lapsed writes its old refusal
  over REFUNDED.
- `order_rejected`: an order whose checkout meets another one at work under the same key is
  told 409 and closes as rejected, while the other one opens the payment.

## 5. Proofs

TLAPS proves for all values of the constants (any number of wallets, references,
workers, drains, publishers, versions, copies and retries) what TLC checks on instances.
Each proof states an inductive invariant, one lemma per action or one step per action, and
combines them in a temporal step. The assumptions are the named ones on constants
(`NoDriverIsNoDriver`, `IpnsAreNoPasses`, ...), which TLC evaluates in the runs.

- **WalletLedgerProofs.** `TypeCorrect`, `Solvency`, `NoRevival`, `ExpiryNotEarly`,
  `LedgerIsDoubleEntry`, `CaptureIsPayment` (the last under `RefDiscipline`: callers keep
  the references of holds, refunds and movements apart. A capture under a reference that a
  debit has used is taken for a replay and pays nothing). Solvency
  rests on the guards being evaluated in the same transaction as the movement;
  double entry on both sides of a movement being looked up and written together.
- **WalletMoneyProofs.** `BalanceIsSum`; under `RefDiscipline` `ReservationsAreAccounted`,
  `PendingHoldsAreFreeable`, `LimitsHold`; with `OwnRefundRef` also `HoldsImplementContract`.
  The sums are the library's fold over sets. No induction rule is used: a law of sums that
  failed for some finite set would fail at a least subset (`MinimalSubset`, from
  well-foundedness of the strict subset order), and there one unfolding of the fold
  contradicts it. `SumMove` says what a sum does when one element comes, goes or changes,
  and every step of the wallet changes one hold or one movement (`StepEffect`); which of
  them counts for what follows from `CaptureSettles`. `LimitsHold` adds that the counters
  stay within a tier's limits (`CountersAreKept`), and carries this over to what the counters
  count. `PendingHoldsAreFreeable` needs no run of its own: it follows from
  `HoldsAreAccounted`, as a sum of amounts is at least each of them. The refinement of `HoldContract` needs more: a credit under a hold's refund
  reference is that hold's refund, in full, from the wallet it paid (`RefundsFit`). Without
  `OwnRefundRef` it fails, as the run `refund_twice` shows; payment-service obeys it by
  sending `refund_<payment id>` only (payment.service.ts:671).
- **P2pPaymentProofs.** `P2pTypeCorrect`, `SuccessIsHeardOnce`, `KeepsPaymentContract`: the
  payment implements `PaymentContract` step by step
  (initial states and each step map to one or a stutter). The
  invariant ties what a worker remembers (`paid`, `expired`, `failed`) to the
  hold: captured, or gone for good. `HoldIsAsPromised`: the hold as the payment sees it
  follows `HoldContract`, so the module invents no answer of the wallet that would undo an
  end. The module knows no amounts, so a hold is worth 1 here, as in the next two.
- **CheckoutPaymentProofs.** `CheckoutTypes`, `SuccessIsPaid`, `EndIsFreed`. Nothing about
  the row is stable here; the argument is that a captured or freed hold stays so,
  and that a handler remembers only what the wallet answered. `VerdictIsOne` follows from the
  last two and from no hold, handler or late request being ahead of the payment's own
  attempt: without a retry there is one hold, and it cannot be both captured and freed.
  `HoldsAreAsPromised`: each hold of the payment, also one that a retry has left behind,
  follows `HoldContract`.
- **OrderProofs.** Refunds: `RefundIsReal`, `RefundIsOwed`. The invariant adds that a worker in
  `done` has evidence of the reversal and that a lock token belongs to a
  PROCESSING row. Orders: `OrderIsTrue`. A thread of utilities-service may write a row it has not
  looked at since another wrote it; the invariant says what the row's status and what each
  thread's next step imply about the payment and the provider, and the steps keep it because
  what they imply is never undone (`Lasts`): a payment made, a refusal, a delivery, a refund.
  Composed: `OrdersTypeCorrect` and `OrdersPromises` are about `OrdersSpec`, the specification
  that the run checks; a behaviour of it is one of each component (`EachComponent`).
- **EventProofs.** Tier changes: `OutboxIsInOrder`, `NothingIsLost`, `TierNeverMovesBack`. The
  invariant of order speaks of versions that are out or in a publisher's hands: those are
  what a claim makes, and InTurn is needed exactly there. `NothingIsLost` excepts, by name, the
  versions confirmed before the wallet had a queue and not published since. A message handled by the
  consumer is in the inbox before it is acknowledged. Registrations: `NobodyIsForgotten`; a
  service once reached stays so, as a consumer lets go of a copy only when its work is done or
  the copy is among the dead letters. Stopping: `StopIsSettled`. Financial notices:
  `PartiesAreTold`; one transaction at a time holds the inbox row, and only the delivery that
  committed goes on to the sockets. The wallet's rows: `RowIsToldOnce`; what a drain is about
  to mark follows from what it has sent, and the inbox takes a notification once.
- **FundingProofs.** Top-up: `TopupTypeCorrect`, `OnlyPaidIsCredited`. What a callback or a pass
  is about to do follows from what VNPay and the wallet have said, both of which do not
  change again; so it does not matter who else has acted meanwhile. Cash-out:
  `CashOutTypeCorrect`, `OrderFollowsBank`. What a worker concludes follows from what it has heard
  whether it still has the lease or not, as the bank's verdict and the end of a hold are
  final. One conclusion does depend on the lease, that of a refused
  hold: a worker that still has it has it since the order was HOLDING, so the bank
  cannot have been asked. `CashHoldIsAsPromised`: the hold follows `HoldContract`.
  The outbox drain: `OutboxTypeCorrect`, `SentIsReallyTold`. What a drain is about to mark
  follows from what it has sent or heard, and that stays so when its claim is lost. The outcome of
  a refund is not in it: for that the sentence is false (`refund_untold`). Composed:
  `TransfersPromises`, for `TransfersSpec`.
- **BackOfficeProofs.** The desk: `DeskTypeCorrect`, `RowsAreTrue`. A claim keeps every other
  request away from the wallet as long as its outcome is open; what is about to be
  recorded follows from the answer. Of the runs: what is about to be written fits the report.
  Documents: `NoDocumentIsLost`. Whoever works on an object holds its lock, so what a
  submission is about to commit is there, and what a cleaner is about to remove is nobody's.
  Composed: `EventsTypeCorrect`, `EventsPromises`, for `EventsSpec`.

Every safety invariant, action property and refinement that a passing run checks is so
stated by a theorem. Only model-checked are the liveness properties (`ExpiredHoldsAreFreed`,
`PendingEnds`, `ConfirmedEnds`, `CashOutSettles`, `TopupIsApproved`, `RowIsDone`,
`RefundIsDecided`, `PaidOrderProceeds`, `ReachesWallet`, `StopReturns`): fairness and ENABLED
are outside the prover's reach.

What the proofs assume of the constants: that the sets of actors of different kinds are
disjoint and the null values not among them; that limits, counts and amounts are natural
numbers (`AmountAssumption`, `LimitAssumption`, `WalletAttempts`, ...); and that `Refs` is finite, as
the sums range over it (a database holds finitely many entries; how many is not bounded).

## 6. Not modelled

Status per component is in `PROJECT.json` under `components`.

- Sessions, PIN and transaction tokens, and QR login: authentication. Their guarantees are
  about secrecy and identity. The money modules take a confirmed request as a choice of the user.
- merchant-service: row operations of one transaction each; its outbox is the one of
  `TierPropagation` with a shorter lease.
- Proxies and stateless parts: gateway, finvault-internal-auth, the KYC and merchant actions of
  admin-service; scripts, database bootstrap, containers; the clean-up of used tokens.
- Devices, socket tickets, rendering, addresses, preferences, avatars, bills, list and
  detail reads, report formats.
- HTTP, validation, formatting of events, logging and dashboards. Money is an integer: the
  code's decimals have two places and are compared and added exactly.
- Database locks are taken as granted in the order asked: that two transactions may wait for
  each other (an adjustment and a transfer take wallets in different orders) is not modelled.

### What the models show of the code beside the properties

Behaviours that no document denies, which the properties therefore allow, and a reader
of the code should know:

- payment-service. A checkout left in PROCESSING is picked up by no job
  (payment.service.ts:423), one without a hold stays PENDING (payment-expiry.job.ts:52), and two
  checkouts of one payment may both be captured (payment.service.ts:294). A reversal executed
  late may follow REFUND_FAILED (refund.worker.ts:209). A cash-out captured after the hold's
  expiry ends as RECONCILE_HOLD_EXPIRED with the bank paid.
- Outboxes. The close handler of an old connection resets the state of a new one, and
  a channel's close alone schedules no reconnection. wallet-service marks a row published
  after a 4xx, and publishes without `mandatory` (rabbitmq.publisher.ts:119-123): a message for which
  no queue is bound is confirmed and gone. The model takes notification-service's queue as bound.
- Registration and tiers. An event confirmed before a queue was declared never reaches that service. The
  wallet's handler of a tier change (kyc.consumer.ts:38) does not compare versions: an older one
  overwrites a newer.
- finvault-events. A `stop()` that meets an attempt to connect leaves the new connection open,
  with a consumer whose messages stay unacknowledged.
- notification-service. The consumer of the older events is not restarted after its connection
  closes; an event without an id is not deduplicated.
- utilities-service. The recovery of an order whose checkout is still in flight closes it as
  FAILED, and it may be paid afterwards (recoveryService.ts:75); an event that comes before the
  payment's id is saved is consumed and forgotten, and only the sweep finds the payment; after
  the last refund attempt an order stays REFUND_REQUESTED. Any 4xx of the refund call, 401, 403
  or 429 of a payment that is still SUCCESS too, makes the order REFUND_FAILED
  (fulfillmentService.ts:21-29); `UtilityOrder` models the 4xx that a payment in REFUND_FAILED
  gives. The mock provider keeps its orders in memory, and forgets them when it restarts; the
  model's provider does not.
- user-service. The review reads the profile again (updateKycStatus), so it decides on documents
  the reviewer may not have seen.
- admin-service. An adjustment that is UNKNOWN or was left PENDING by a crash can never be
  tried again; an operator has to look.

## 7. Plan

1. `WalletLocks`: the order in which transactions of wallet-service lock wallets, and whether they
   can wait for each other.
2. A composition of `UtilityOrder` with `PaymentContract` in place of its own account of
   payment-service; the theorem that the order's payment is one that contract allows.
3. The outbox of merchant-service as an instance of `TierPropagation`.
