# swpt_payments: a formal model

`swpt_payments` is a micro-service that sells *formal offers*. A payee
announces an offer; a payer who knows its secret sends a *payment order*; the
service asks the accounts micro-service to *prepare* the transfers that the
order needs (the payment, and, for a currency swap, a reciprocal payment back to
the payer), and when all of them are prepared it commits them, writes a payment
proof, deletes the offer and aborts the other orders on it.

This directory holds TLA+ modules translated from the source, TLC
configurations that check them on small instances, and theorems that hold for
every value of the constants, checked by TLAPS. Paths below are relative to the
repository; `procedures.py`, `models.py`, ... are in `swpt_payments/`.

## Inventory

| Component | State | Operations | Status |
|---|---|---|---|
| Payment transactions (`procedures.py`) | tables `formal_offer`, `payment_order`, `payment_proof`, their sequences | create and cancel an offer, make an order, handle a prepared and a rejected transfer, flush orders, flush proofs | modelled |
| Tables and signals (`models.py`) | rows, primary keys, check constraints | - | modelled |
| Signal publication (`Signal` in `models.py`, `flask_signalbus`) | signal tables (an outbox) | insert in the transaction; publish and delete after it, or at the next flush | modelled |
| Message actors (`actors.py`) | the broker's queues | one per message type: handle it in one transaction, acknowledge it | modelled |
| Contract with clients (docstrings of `actors.py`, `models.py`) | what a payee and a payer can conclude | announce, submit, decline, pay, withdraw | modelled, abstract specification |
| Accounts service (external) | prepared and finalized transfers | prepare or reject, finalize | modelled from its messages |
| Payee's FO records (docstring of `create_formal_offer` in `actors.py`) | status of each announcement | announce, react to three signals, ask to cancel, delete | modelled, with the contract for the service |
| Row locks and isolation (`procedures.py`) | running transactions, FOR SHARE and FOR UPDATE locks, snapshots | each statement, commit, abort, retry | modelled |
| Flush trigger (`docker/trigger_supervisor_process.py`, `docker/supervisord.conf`) | time of the last start, states of the process and of the listener | react to ticks, start, fail, restart | modelled, with what it needs of supervisord |
| Command line (`cli.py`) | - | flush old orders, flush old proofs, `subscribe` | the deletions are modelled, the cutoff is left open; `subscribe` sets up the broker once |
| Web pages (`routes.py`) | - | read an offer, read a proof | not modelled: read-only |
| Set-up, migrations, entry point | - | - | not modelled: no behaviour of their own |

**How they interact.** Clients and the accounts service talk to the service
only by messages, which the broker delivers at least once and in any order. An
actor decodes its message and calls one `@atomic` procedure, which reads and
writes rows in one database transaction. A procedure talks back only by
inserting signal rows in the same transaction. After the commit, or at the
latest when `flask signalbus flush` runs (once a minute), the rows are published
and deleted.

**What is hard.** The same order is driven by messages of five kinds from three
parties, none of them ordered: the payee cancels while two payers compete, a
transfer is prepared for an order that has just been aborted, a request to
prepare a transfer is published twice and gives two transfers, a rejection
arrives after the same request has already succeeded. The process may stop
between publishing a signal and deleting its row, and between a transaction and
the acknowledgement of its message. Several workers run such transactions at the
same time: they wait for each other's locks, deadlock, and see what others have
committed since their last statement. `PROJECT.json` lists each of these hazards
with the line where it bites and the properties that would notice it.

**What makes each component correct.**

- *Transactions*: an order that is not final has an offer (otherwise `.one()` in
  `_execute_payment_order` raises for ever); an offer is settled once; an order
  has one outcome; money moves exactly as the successful payments say, and in
  both legs of a swap or in none; no assertion ever fails.
- *Outbox and actors*: repetition changes nothing; no transfer is asked to be
  both committed and dismissed; every order gets an outcome and every prepared
  transfer is finalized in the end.
- *Contract*: seen from outside, an offer goes from open to paid or canceled,
  an order from new (and pending) to paid or failed, and the orders that are
  pending when their offer closes fail with it.
- *FO records*: of the offers that repeated messages make for one announcement
  one can be paid, the others are canceled, and the record ends as its offer.
- *Locks*: a committed transaction looks like one step of the procedure; nobody
  waits for ever.
- *Trigger*: pending signals are flushed again and again.

## The modules

| Module | What it models |
|---|---|
| `Models` | constants, rows and signals of `models.py`; `SamePrimaryKey` says which signal rows cannot be pending together |
| `Signalbus` | the outbox and the broker: `Emit`, `FlushSignals`, `Consume` |
| `Payments` | the procedures of `procedures.py`, one operator each |
| `Accounts` | the accounts service, external |
| `PaymentSystem` | composes them with clients and the clock: `Init`, `Next`, `Spec`, `FairSpec` and the properties |
| `OfferContract` | the abstract specification |
| `ContractRefinement` | the refinement mapping: `KeepsContract` |
| `PaymentTransactions` | the procedures that handle messages, statement by statement, run by several workers with locks and an isolation level; everything else as in `PaymentSystem` |
| `PayeeClient` | the payee's FO records, with a service that is `OfferContract` |
| `FlushTrigger` | the event listener, the flush process and supervisord |
| `MCSwap`, `MCTerms`, `MCTransactions` | instances for TLC; `PayeeClient` and `FlushTrigger` need none |
| `PaymentSystem_proofs` | proof of the type invariant |
| `OfferSafety_proofs` | proofs of `UnfinalizedHasOffer` and `OfferSettledOnce` |
| `PaymentSteps_proofs` | lemmas only: the kinds of steps that all branches of all procedures fall into (`Step`, `NextSteps`) |
| `OrderSafety_proofs` | proofs of `RecordedIsKept`, `PaidAsAgreed`, `OnlyLateOrdersExpire` and `OneOutcomePerOrder` |
| `TransferSafety_proofs` | proofs of `AssertionsHold`, `ReciprocalComesLast`, `CommitXorDismiss`, `QuiescentIsSettled` and `MoneyMatchesPayments` |
| `Contract_proofs` | proof that `PaymentSystem` implements `OfferContract` (`KeepsContract`) |
| `PayeeClient_proofs` | proofs of `PaidOncePerAnnouncement` and `RecordsAreTrue` |

### State and code

| Variable | In the code |
|---|---|
| `offers[f]` | the row of `formal_offer` with `offer_id` f, or `None`; `expired` stands for comparing `valid_until_ts` with the clock, and turns true by the action `Expire` |
| `orders[k]` | the row of `payment_order` with key k; `terms` holds debtor and amount of both legs, `transfer` the two transfer numbers, `request` the `payment_coordinator_request_id`, `finalized` whether `finalized_at_ts` is set |
| `proofs` | the rows of `payment_proof` |
| `lastOffer`, `lastRequest` | the two sequences |
| `outbox` | the rows of the seven signal tables |
| `emitted` | history: all signal rows ever inserted |
| `queue` | messages the broker may still deliver, to the actors of this service and to the accounts service |
| `repeats` | how many repetitions have been used (a bound, see below) |
| `transfers`, `settled` | the accounts service: transfers prepared, transfers finalized |
| `issued` | the client requests that have been sent |

| Action | In the code |
|---|---|
| `Create`, `HandleCancel`, `HandleOrder`, `HandlePrepared`, `HandleRejected` | the five actors, each with its whole procedure and all that this calls |
| `AccountsPrepare`, `AccountsFinalize` | the accounts service |
| `Flush` | publish the rows of one signal model and delete them; with `deleted = FALSE` the process stops in between |
| `PurgeOrders`, `PurgeProofs` | the two `flush_*` procedures |
| `Issue`, `Expire` | clients, clock |

In `PaymentTransactions`, `tx[w]` is the transaction that worker w is in. Its
field `step` names the next statement:

| Step, action | In the code |
|---|---|
| `Begin` | the message arrives; for an order, the `exists()` query, which locks nothing |
| "find offer", `FindOffer` | the offer FOR SHARE in `make_payment_order`, FOR UPDATE in `cancel_formal_offer`; decides the outcome |
| "insert", `Insert` | `db.session.flush()` after the new order: waits for another transaction that inserts the same key, fails if that one commits |
| "find order", `FindOrder` | `_find_payment_order`, FOR UPDATE |
| "take offer", `TakeOffer` | `_execute_payment_order` locks the offer FOR UPDATE; `.one()` fails without a row |
| "find losers", "lock losers" | the query of `_abort_unfinalized_payment_orders`: the rows it finds, then their locks |
| "commit", `Commit` | all that the transaction writes becomes visible: the signals (`SignalRows`), the orders (`OrderRows`) and the rest (`Write`); fails while a signal row with one of its primary keys is pending |
| "pause", `Abort`, `Retry` | an error or a deadlock rolls back; `@retry_on_integrity_error`, `@atomic` and dramatiq try again |
| `Crash` | the worker stops; its transaction is rolled back and its message comes again |

Nobody but its own transaction sees a row that is not committed, so the writes are
made at the commit; their order inside the transaction shows only in the locks.
The losers are locked together: each is finalized by its own transaction or by
the one that closes the offer, so taking the locks one after the other adds no
outcome.

In `PayeeClient`, `record` holds the payee's records, `events` the signals that it
may still receive, `published` the offers whose secret it has given to payers,
`offer` and `order` the state of the contract. In `FlushTrigger`, `process` is the
state supervisord reports for `signalbus_flush`, `listener` what the script is
doing, and `sinceStart` the ticks since `last_started_at`.

A handler with `acknowledged = FALSE` commits its transaction but the broker
delivers the message again. A procedure that raises is rolled back: its action
is not enabled. In particular `Emit` is not enabled while a row with the same
primary key is pending, which the database answers with an `IntegrityError`; the
message is tried again.

All rows belong to one payee. `payee_creditor_id` is part of every key and of
every query, so two payees never share a row. Descriptions, notes, secrets of
proofs, proof numbers and creation times are left out, because no decision reads
them. A request carries a Boolean that says whether its sender knows the secret.

The definitions whose comment begins with "Mistake" are not part of the model.
Each is what a plausible slip would make of the definition below it; with the
slip in place TLC finds the property violated that `PROJECT.json` names, which
shows that the property depends on the code.

### Assumptions about the environment

- A payer never uses a payment order number twice for one offer (`Issue`): the
  number is part of the primary key, and the comment on the column
  `payer_payment_order_seqnum` makes it the payer's means to tell its orders
  apart.
- Rows are purged only when no message about them is on its way (`Outdated`):
  the comment on the table `payment_order` asks that finalized orders stay for
  at least a few days, for this reason. Without it a late message would place
  an order a second time, or dismiss a transfer that was committed. The assumption
  takes this hazard away, so no property is about it.
- The accounts service gives each transfer a number that is new for its debtor
  and sender. It may prepare a second transfer for a repeated request. It
  ignores a finalization of a transfer that is not (or no longer) prepared.
- Its messages about a request repeat what the request said. That they match
  the order which is found for them is not assumed: it is `AssertionsHold`.

## What the runs check

| Run | Instance | Properties |
|---|---|---|
| `swap` (`MCSwap.cfg`) | one swap offer, two competing payers, a cancellation, one repetition | `TypeOK`, `UnfinalizedHasOffer`, `OfferSettledOnce`, `CommitXorDismiss`, `MoneyMatchesPayments`, `ReciprocalComesLast`, `KeepsContract` |
| `redelivery` (`MCRedelivery.cfg`) | one swap offer, one payer, a cancellation, two repetitions, the outbox flushed at any time | `OneOutcomePerOrder`, `CommitXorDismiss`, `AssertionsHold`, `QuiescentIsSettled`, `RecordedIsKept` |
| `terms` (`MCTerms.cfg`) | one offer of one of three kinds (free, free with a reciprocal payment or priced, two debtors), a deadline, orders that fit or do not or come too late, a payee that pays itself | `MoneyMatchesPayments`, `PaidAsAgreed`, `OnlyLateOrdersExpire` |
| `progress` (`MCProgress.cfg`) | as `redelivery` with one repetition, with fairness | `OrdersGetOutcome`, `TransfersGetSettled` |
| `locks` (`MCLocks.cfg`) | three workers at READ COMMITTED, two payers who order for nothing or for one unit, a cancellation, crashes, one repetition | `UnfinalizedHasOffer`, `TransactionsAreAtomic` |
| `repeatable` (`MCRepeatable.cfg`) | two workers at REPEATABLE READ | `RedeliveryIsIgnored` |
| `retry` (`MCRetry.cfg`) | two workers at READ COMMITTED, two payers of whom one orders for nothing only, a cancellation, one repetition, the outbox flushed at any time, with fairness | `AllIsHandled` |
| `announcements` (`MCPayee.cfg`) | two announcements, three offers, two repetitions | `RecordsAreTrue`, `PaidOncePerAnnouncement`, `CancellationIsAnswered` |
| `trigger` (`MCTrigger.cfg`) | the interval of 60 seconds, six failures to spawn | `OnlyFatalStops` |
| `double_delivery` (`MCDoubleDelivery.cfg`) | as `repeatable`, at READ COMMITTED | `RedeliveryIsIgnored` is violated |
| `wide_number` (`MCWideNumber.cfg`) | as `progress`, the order number is wider than its column | `OrdersGetOutcome` is violated |
| `trigger_fatal` (`MCTriggerFatal.cfg`) | as `trigger` | `TriggersAtIntervals` is violated |

What they show: in these instances the service sells each offer at most once
and to one payer, moves the money of both legs or of none, never undoes a
transfer that it has committed, tells each payer one outcome and leaves nobody's
money locked, whichever way messages are delayed, reordered and repeated.

`locks` shows that this carries over to several workers that run the statements
of their transactions at the same time: what a transaction commits is a step of
`PaymentSystem`, with two exceptions that `TransactionsAreAtomic` names.
`InTime`: the clock is read when the offer is found, so an order that was in
time then is placed even if the offer expires before the commit; a harmless one.
`LateRefusal`: the first finding below, which costs "one outcome". `retry` shows
that waiting, deadlocks, failed inserts and signals whose key is pending come to an
end: a repeated order that is refused again fails at its commit until the first
refusal has been flushed. `announcements` shows that the payee's protocol
mends what the service leaves open, two offers for a repeated announcement.

`CHECK_DEADLOCK FALSE` is set except in the two runs of the trigger: when all
requests are handled and all rows flushed the system may rightly stop, and
`QuiescentIsSettled` says in which states. The trigger never stops.

### The isolation level

Nothing in the repository sets one, so that it is the default of the database,
READ COMMITTED for PostgreSQL. `Isolation` makes it a parameter, because the two
comments that rely on it ask for different things. "The trick" of
`_execute_payment_order` needs READ COMMITTED: a cancellation that has waited for
the offer must see the order that was inserted meanwhile, in a new statement. With
one snapshot for the whole transaction (the mistake `AlwaysFixed`) `locks` finds
an order that keeps being unfinalized without an offer, and `retry` that its
messages are never handled. The comment in `make_payment_order` on repeated
messages, on the other hand, holds at REPEATABLE READ only. The class that could set a level for the
application is the mixin of `flask_signalbus` that `extensions.py` puts into `db`; it
is not in the repository, which is why both levels are checked.

### Findings

- `double_delivery`: a repeated `make_payment_order` passes the `exists()` query
  (`procedures.py`, line 124) before the first delivery commits, waits for the
  offer at line 129, finds it deleted because the first delivery has paid it, and
  ends with PAY001: the payer is told of a success and of a failure. The comment
  at lines 120-123 says that such a message is ignored.
- `wide_number`: an order number that needs more than 32 bits passes the assertion
  of `make_payment_order` (64 bits) and fails at its columns in `models.py`
  (`db.Integer`) every time; the order has no outcome, which the docstring of the
  actor promises.
- `trigger_fatal`: after four failures to spawn it, the flush process is FATAL,
  a state in which the listener never starts it again; its usage text promises
  regular intervals. `OnlyFatalStops` shows that this is the only way to lose the
  flushes. The listener also asks for a start in the state BACKOFF, where
  supervisord has the process under way and answers with a fault; the listener
  ends and is restarted, without harm.

### Bounds

- `MaxOffers` = 1, `Seqnum` = {1} where the service itself runs: offers share
  nothing but the request numbers and the accounts, and an order number appears
  only as part of a key. `announcements` has three offers: one for each of two
  announcements and one too many, for either. The proofs need none of these bounds.
- `WideSeqnum`: the order numbers that do not fit into 32 bits; none except in
  `wide_number`.
- `Payer`: two payers are enough for every kind of competition (one wins, one
  loses); a third would lose in the same way. They are interchangeable in
  `MCSwap` and `MCTransactions`, hence the symmetry set; no definition chooses among payers.
- `TransferId` = {1, 2} for each debtor and sender: a repeated request does
  prepare a second transfer. When both numbers are used the accounts service can
  only reject.
- `MaxRepeats` bounds unacknowledged handling and double publication together.
  Two of them cover a message repeated twice and two different messages
  repeated; reordering and delay are not bounded.
- `Amount`: zero and one for a swap of one for one and in the runs of
  `PaymentTransactions`, where a payment of zero executes in the transaction that
  makes the order and a payment of one in a later one; zero, one and two in `terms`.
- `Worker`: two transactions are enough for a deadlock or a double insert; the
  third in `locks` lets two payers and the payee work on the offer at once.
  Workers are interchangeable, hence the symmetry set.
- `TransferId` = {1} in the runs of `PaymentTransactions`: a second transfer for
  one leg is the subject of `redelivery`.
- `MaxRepeats` in `PaymentTransactions` also bounds how often a message that one
  worker has is taken by another one (`RepeatsSuffice`). Aborts, retries and crashes are not bounded.
- `Interval` = 12 ticks of 5 seconds, as in `supervisord.conf`; `StartRetries` = 3,
  supervisord's default; `MaxFailures` = 6 allows a FATAL process, and as many
  failures again when it recovers before.
- `PromptOutbox` (runs `swap`, `terms`, `locks`, `repeatable`, `double_delivery`)
  has the rows that a step has inserted published and deleted next, one signal type
  after the other. A published message still waits in `queue` as long as it likes,
  so what is cut is the *double* waiting, a row that is published twice because the
  process stops before it deletes it, and the clash of a new row with a pending one. `redelivery`, `progress`, `retry` and `wide_number` have no such constraint.

### Fairness

`FairSpec` assumes weak fairness only. *Flush*, per signal model: rows are
flushed after each commit and by `flask signalbus flush`, which the supervisor
starts every 60 seconds. *Handling*, per actor: the broker delivers a message
until it is acknowledged, so handling some message of a kind with an
acknowledgement, when it stays possible, happens. No fairness is assumed of clients, of the
clock, of purges, nor between accepting and rejecting by the accounts service.

`FairTransactionsSpec` (run `retry`) has weak fairness of the flush, of the
accounts service, and per worker of taking a message, of the next statement or
commit (the broker keeps the message only while another worker has it too), of an abort (the database ends deadlocks) and of the end of a pause.
`Patience` adds that a worker does not end its pause while another one is in a
transaction: pauses grow with each retry, in the end beyond the time that
transactions take. Without it two workers may run into the same deadlock for
ever. No worker crashes in this run.

`PayeeSpec` has weak fairness of the delivery of signals and cancellations. Payers and the
payee need not do anything.

`TriggerSpec` assumes that time passes, processes run, and a flush ends. With it
`trigger` shows what the fairness of *Flush* rests on: the flush is started again
and again unless its process becomes FATAL.

## What is proved

Every safety property that the runs check of `PaymentSystem` and of
`PayeeClient` is a theorem, and so are the action properties and
the refinement `KeepsContract`. The theorems hold for any number of offers,
payers, debtors, amounts, transfers and repetitions.

| Theorem | Property | Inductive invariant |
|---|---|---|
| `TypeCorrect` | `TypeOK` | `TypeOK` |
| `UnfinalizedAlwaysHasOffer`, `OffersAreSettledOnce` | `UnfinalizedHasOffer`, `OfferSettledOnce` | `OfferInvariant` |
| `RecordedStays` | `RecordedIsKept` | `TypeOK` |
| `PaidOnlyAsAgreed` | `PaidAsAgreed` | `AgreementInvariant` |
| `DeadlinesHold` | `OnlyLateOrdersExpire` | `TypeOK` |
| `OrdersHaveOneOutcome` | `OneOutcomePerOrder` | `OutcomeInvariant` |
| `NoAssertionFails`, `ReciprocalAlwaysLast` | `AssertionsHold`, `ReciprocalComesLast` | `RequestInvariant` |
| `NeverBothWays` | `CommitXorDismiss` | `FinalizationInvariant` |
| `QuietMeansSettled` | `QuiescentIsSettled` | `ProgressInvariant` |
| `MoneyMatches` | `MoneyMatchesPayments` | `MoneyInvariant` |
| `ContractIsKept` | `KeepsContract` | those of types, agreement, outcomes and offers |
| `SoldOnce`, `RecordsTellTheTruth` | `PaidOncePerAnnouncement`, `RecordsAreTrue` | `PayeeInvariant` |

**Assumptions.** From the constants only the named assumptions
`BoundAssumption`, `AmountAssumption`, `RepeatAssumption`, `NoneAssumption`,
`EnvironmentAssumption` and, for the payee, `PayeeAssumption`, which TLC
evaluates in the runs. What the model assumes of clients, purges and the
accounts service (above) is part of its actions.

**The steps.** `PaymentSystem_proofs` has one lemma per row and procedure, which
says that it produces rows and signals of their types. The other proofs do not look into the
procedures one by one. `PaymentSteps_proofs` shows once that each step is of one
of a few kinds, among them a refusal, the end of an expired or rejected order, an order
that waits for its next transfer, an execution, a cancellation and the creation of an
offer, and what each kind does to the rows and signals
(`NextSteps`). An invariant is then proved kind by kind.

**Offers** (`OfferInvariant`). `UnfinalizedHasOffer` is "the trick" that the comment
in `_execute_payment_order` argues for, `OfferSettledOnce` what it is good for.
To them comes `OffersAreNumbered`: an offer that exists or was settled has a
number that was given out, so the number of a new offer has never been settled.
Every step except `Create` either leaves the offers alone or closes one
(`LeavesOffers`, `Closes`).

**Agreement** (`AgreementInvariant`). An offer keeps the terms it was announced
with, and an order the terms that it found in its offer and in the message that
was issued for it. The invariant follows the terms from the messages through the
rows to the signals. An order fits the very offer it is for as long as there is one
(`OrdersFitOffers`); a new offer has no orders yet, since requests are issued for
numbers that were given out (`IssuedAreNumbered`).

**Deadlines.** Each step in which an actor works on an order says whether it was in
time (`InTime`): recorded already, or the offer has not expired. So an order that
waits for a transfer or succeeds after the deadline was pending before
(`WorksInTime`), and PAY006 comes from one kind of step only (`ExpiryIsLate`).

**Outcomes** (`OutcomeInvariant`). An order has an outcome exactly when its row
is final (`FinalHasOutcome`). That alone is not inductive: a repeated message could make
a row for an order that has been refused without one. `DecidedIsOver` says why it
does not: such a message is hopeless, since its offer is gone or never
fitted. `IssuedIsHandled` says that no order is forgotten.

**Requests** (`RequestInvariant`). A request number tells order and leg. A message about
a transfer, however late, finds the order that has asked for it, with the debtor
and amount that it asked for, because rows keep their terms and their request
number; and a leg's transfer is asked for only when the legs before it are held.

**Finalizations** (`FinalizationInvariant`). Each finalization fits the order
that has asked for its transfer (`Fits`): it commits what the order has
recorded when the order is paid, and dismisses everything else, a second transfer
for a repeated request included. Two finalizations of one transfer therefore
agree.

**Progress** (`ProgressInvariant`). For each pending order there is a message
that carries the transfer it waits for, each finalization that was sent arrives, and
each transfer is released, or announced by a message, or held by a pending order.
When there are no messages, nothing is left to do. This is the safety half of
`OrdersGetOutcome` and `TransfersGetSettled`.

**Money** (`MoneyInvariant`). The committed transfers of each amount between two
accounts are as many as the legs of the successful payments. Only an execution changes either side, and it
adds one to both for each leg that moves money: the transfers are released for
the first time and the payment is new, by the invariants above. The invariant adds to the property
that both sets are finite, which counting needs.

**Contract** (`ContractInvariant`). One lemma per kind of step shows the step of
`OfferContract` that it is, or a stutter (`RefusingKeeps`, `ExpiringKeeps`,
`RejectingKeeps`, `AwaitingKeeps`, `ExecutingKeeps`, `CancelingKeeps`,
`CreatingKeeps`, `QuietKeeps`). Once a purge has deleted the row of an order, its status
is read from the signals.

**The payee's records** (`PayeeInvariant`). A secret is given away only for the
offer of a record, and of two published offers no announcement is the same
(`PublishedOnce`); who pays has to know a secret, so what is paid is published.
Inductive it becomes with three facts about time: an offer is not created before
its announcement has a record (`AnnouncedFirst`), none is canceled while the
payee waits for the first one (`AwaitedAreOpen`), and an open offer that is not
the one of its record has a signal or a cancellation under way
(`SuperfluousGo`). For `RecordsAreTrue`, `RecordsFollow` keeps with each record the
signal that will bring it up to date.

Each invariant was also run through TLC, as an invariant of a small instance,
before it was proved.

**Only model-checked.** The liveness properties (`OrdersGetOutcome`, `TransfersGetSettled`,
`AllIsHandled`, `CancellationIsAnswered`, `OnlyFatalStops`) stay with TLC, since liveness under fairness
and ENABLED are out of the prover's reach. So do, for now, the properties of
`PaymentTransactions` (`UnfinalizedHasOffer` with several workers,
`TransactionsAreAtomic`, `RedeliveryIsIgnored`), which need an invariant about locks;
see the plan. The theorems are about `PaymentSystem`, where a procedure is one
step; that the locks make it one is what the run `locks` checks, with the two
exceptions named there. There is no induction over data and no `RECURSIVE`
operator in the project.

## Not modelled

- The cutoff of `flush_payment_orders` and `flush_payment_proofs` (`cli.py`): which
  rows are old enough is left open, so that `PurgeOrders` takes any finalized
  order that no message is about. That `--days 0` is taken for a missing option
  (line 67) is listed as a hazard that no property covers: it is one expression, not
  a behaviour.
- The purges run in `PaymentSystem` only, not between the statements of
  `PaymentTransactions`: they delete rows that no message is about.
- The arrays of an offer's debtors and amounts: `options` is the set of their
  pairs. `_sanitize_amounts` changes nothing that `create_formal_offer` lets
  through, since the assertions there exclude NULL and negative amounts.
- The web pages of `routes.py` read one row, which never changes while it exists,
  and show it; that a cached page may show an offer that is gone is answered by
  PAY001 (`KeepsContract`, `OfferSettledOnce`).
- `subscribe`, configuration, migrations and shell scripts run once, before the
  behaviour that is modelled here.

## Plan

The components that have a behaviour are modelled, and the safety of the service
is proved as far as a procedure is one step. What is left is to prove the same of
several workers:

1. `UnfinalizedHasOffer` for `PaymentTransactions` at READ COMMITTED: an order that
   is about to be inserted holds a shared lock on its offer, or has found it
   closed; a transaction that closes an offer has it locked for update, and has
   found all its pending orders.
2. `RedeliveryIsIgnored` at REPEATABLE READ, from the snapshot of the transaction
   that handles the second delivery.
3. `TransactionsAreAtomic`, commit by commit: what a transaction writes is what the
   procedure does in the state of the commit.
