# ForgePay in TLA+

Specifications of ForgePay's payment service, its TLC instances and TLAPS proofs. Paths below are
relative to the repository; `service.py`, `repositories.py`, `main.py`, `models.py` are those of
`services/payment_service/app/` (`app/`, `app/infra/`).

## 1. The system

| Part | State it keeps | Operations | Hard behaviour | Correct when |
|---|---|---|---|---|
| Payment API (`main.py`, `service.py`) | `merchants`, `customers`, `accounts`, `payments`, `refunds` | create merchant / customer, fund, create, authorize, capture, cancel, refund | requests overlap; a balance is read in three queries; connections and answers get lost; callers retry | no overdraft, no double capture, refunds within the capture, lifecycle kept |
| Lifecycle and risk (`domain/payment.py`, `domain/risk.py`) | none | `transition`, `evaluate_risk` | `refund_payment` and a declined authorization set a status without `transition` | every status change is one `_ALLOWED` lists |
| Ledger (`domain/ledger.py`, `create_journal`, `ensure_ledger_account`) | `ledger_accounts`, `journals`, `journal_entries` | post a journal once per reference, create an account on demand | concurrent creation, duplicate references | entries agree with the payments |
| Idempotency (`claim_idempotency`, `complete_idempotency`) | `idempotency_records` | claim, replay, conflict | two claims race; the first rolls back | one key, one payment, one answer |
| Outbox publisher (`workers/outbox_publisher.py`) | `outbox_events` | rounds of at most 100 rows | several publishers, outages, lost acknowledgements, crash after sending | nothing hidden, everything published in the end |
| Event consumer and inbox (`workers/event_consumer.py`) | `processed_events`, Kafka offset, `webhook_deliveries` | decode, process, commit the offset | redelivery, crash between the two commits, undecodable or unprocessable events | one delivery per endpoint and event, no event skipped |
| Audit log (`append_audit`) | `audit_logs` | append | forgotten on some paths | every business operation is in it |
| Webhook endpoints and secrets (`register_webhook`, `rotate_webhook_secret`) | `webhook_endpoints`, `webhook_secrets` | register, rotate | concurrent rotations, rotation during a dispatch | one active secret, the latest |
| Webhook dispatcher and replay (`workers/webhook_dispatcher.py`, `main.py`) | `webhook_deliveries` | batches of 25, retry, dead letter, replay | several dispatchers, crash or lost answer after the POST, a rolled back batch | attempts bounded, no row in two batches, every delivery settles |
| Demo receiver (`services/webhook_receiver_demo/main.py`) | accepted secrets, received bodies | verify, accept, fail on demand | it learns a new secret late | the other end of the dispatcher |
| Ledger triggers (`alembic/versions/0001...`, `0002...`) | constraints | check constraints, deferred balance check, immutability | SQL sessions at READ COMMITTED | what is posted never changes |
| Reconciliation (`workers/reconciliation.py`) | a report | compare captures with journals | two reads of different times while payments are captured and refunded | no false alarm |
| Auth, encryption, thin services, observability, scripts | little or none | | | not modelled, see section 7 |

**How they interact.** A handler runs in one PostgreSQL transaction (`session.begin()` in `main.py`),
which writes the payment row, its journal, its outbox row, its audit row and its idempotency record
together. Publishers poll the outbox with `FOR UPDATE SKIP LOCKED` and send to one Kafka topic.
The consumers, of one Kafka group, read the topic, insert the inbox row and the delivery rows in one
transaction and commit the offset afterwards. The dispatchers poll the delivery rows, sign with the
endpoint's active secret and POST, inside one transaction per batch. Nothing but the
database and the topic is shared.

`PROJECT.json` lists every hazard with its line and the properties that cover it.

## 2. Modules

    PaymentDomain      lifecycle, risk, ledger lines, events        (no state)
      Payments         the API, one atomic step per operation       = the abstract specification
        PaymentsProofs theorems about Payments
        MCPayments     TLC instance
      PaymentTx        the API statement by statement               implements Payments
        PaymentTxLocks   its locks: the invariant, and what each statement keeps
        PaymentTxProofs  theorems about PaymentTx, the refinement among them
        MCPaymentTx    TLC instances, with a seeded database
    EventEffects       what the event path promises: the abstract specification
      EventEffectsProofs     a theorem about it
      EventPipeline    outbox -> publishers -> Kafka -> consumers    implements EventEffects
        EventPipelineProofs  theorems about it, the refinement among them
        MCEventPipeline      TLC instances
      WebhookDelivery  delivery rows -> dispatchers -> receiver      composed with EventEffects
        WebhookDeliveryProofs  theorems about WebhookDelivery
        MCWebhookDelivery    TLC instance
    JournalGuard       the ledger's constraints and triggers, SQL sessions, reconciliation
      JournalGuardProofs  theorems about it
      MCJournalGuard   TLC instances
    FoldProofs         lemmas on folds and sums over finite sets, for the proofs above

**Payments** is what a caller may rely on: each successful request is one step on the committed
database, and a refused one is no step. Variables are the tables, indexed by ids: `terms` holds the
immutable columns of a payment row (and is also what the request's fingerprint stands for), `debit`
and `credit` the sums of the entries of each ledger account, `posted` the journals' references.
A refund's journal refers to its own new row, never to anything else, so it is not in `posted`. The
individual entries and refund rows are summed up; every check the code makes is on those sums.

**PaymentTx** has one action per statement that can wait or read: `claim -> insert -> commit` for
create, `payment -> customer -> accounts -> debits -> credits -> cash -> other -> journal -> commit`
for capture, and so on, the label being `tx[c].pc`. `locks` holds row locks and uncommitted unique
keys; `Holders` is PostgreSQL's conflict rule for the modes used (`FOR UPDATE` against everything,
the `KEY SHARE` of a foreign key check against `FOR UPDATE`). A statement sees what was committed
before it (READ COMMITTED), and a transaction's own writes appear with its commit, computed from what
it *read*, so that a lost update would show. `Abort` is a crash or a broken connection at any
statement, `LoseAnswer` and `Retry` are the client's side. `Serial == INSTANCE Payments` with the
variables of the same name is the refinement mapping; `ImplementsSerial` is `Serial!Spec`.

Simplifications of `PaymentTx`: registrations are one step (no other request can name their rows
before they commit). In `LockPayment`, `KeyConflict`, `NotPermitted` and `NotFundable` the check
follows its lock in one step: no statement lies between them. The audit and outbox inserts cannot
wait and are part of the commit. `Decline` in `Payments` has no balance in its guard, because the
balance that was too low is the one the transaction saw; `DeclineIsJustified` states that part.

**EventPipeline** has its own outbox, rows numbered by `created_at` and committed in any order (the
timestamp is set before the commit). A publisher's round is `StartRound`, one send per row, and
`FinishRound`, which is the commit; a failed round leaves no trace but what is on the topic. When
`producer.start()` raises, the round ends before the query and changes nothing (not even the retry
counts, although `docs/architecture/failure-recovery.md` says the publisher increments them). Kafka is
external: one partition, one committed offset, which starts absent; then `auto_offset_reset`,
left at aiokafka's default `latest`, decides. Several consumers form the group; `owner` has the
partition. After a `Rebalance` the old owner still has a message in hand: it may insert the same inbox
row as the new one (`Claim` waits for an uncommitted insert, as `ON CONFLICT DO NOTHING` does), and its
commit of the offset is refused (`CommitFenced`).

**EventEffects** is what is left of all that for the rest of the service: an emitted event is handled at
most once, and handling it makes one delivery row per registered and subscribed endpoint.
`EventPipeline!Promise` instantiates it with the outbox, the inbox and the delivery rows
(`ImplementsEffects`); `WebhookDelivery` takes its first steps from it: `EmitEvent`, `HandleEvent` and
`RegisterWebhook` are steps of `Effects`, joined with what they do to delivery rows and secrets.

**WebhookDelivery** has one action per statement of `rotate_webhook_secret` that can wait or read
(`LockEndpoint`, `SelectActive`, `LockActive`, `CommitRotation`) and, for `dispatch_once`, `StartBatch`
(the query), `Sign` and a POST per row, and `FinishBatch` (the commit). The rows a batch settled are kept
in `batch[w].settled` until then, so that a rollback (`DispatcherDies`) loses them, while the receiver
keeps what it got. A POST ends in three ways: answered, never arrived, or arrived and its answer lost or
too late. Time is reduced to `due`: `next_attempt_at` is reached or not. The receiver is the repository's
demo: a route per endpoint, the secrets it was given, and what it accepted. The demo counts attempts per URL
path and keeps one set of secrets; `hits` and `trusted` are per endpoint, which is the same as long as endpoints
have paths of their own, since a signature verifies with the secret of its endpoint only. `unrecorded` is a history
variable: acceptances whose 2xx no transaction committed. A secret is its version; a signature is valid
exactly if the receiver has that version.

**JournalGuard** gives the check constraints and the triggers arbitrary DML to refuse: a session inserts
journals and entries, changes them, moves them and deletes them, and commits or rolls back, at READ
COMMITTED; the service captures and refunds meanwhile, each in one step, since nobody sees its rows
before the commit; `reconcile_once` reads payments in one statement and each journal in another. Refunds
are full ones here. `TRUNCATE` is no statement of a session: the triggers are row-level and do not see it, and
`tests/integration/helpers.py` empties the ledger with it.

## 3. Runs

| Run | Instance | What it shows |
|---|---|---|
| `payments` | 2 merchants, customers, payments, keys; amounts 1, 2; two currencies; levels 1 and 5; 138,330 states | all safety properties of the serial API |
| `tx_serial` | from empty, 2 clients, 5 requests, 1 retry each, all operations; 390,568 states | interleaved transactions implement `Payments`; declines are justified, also while money arrives; answers match the records; only refunds repeat |
| `tx_capture` | seeded: funds 3, two AUTHORIZED payments of 2; 3 clients, 4 requests; all operations but create; 118,099 states | stale reads, double capture, overdraft, refund races; no cycle of lock waits |
| `tx_liveness` | seeded; 2 clients, 3 requests, 1 retry, all operations, fairness | every request ends |
| `pipeline` | 2 events (one without `payment_id`), 2 publishers, 2 consumers, 1 fault, 1 rebalance, 1 undecodable message, fairness; 548,584 states | the pipeline implements `EventEffects`; nothing is hidden, skipped or sent twice without a fault; publication and processing in the end |
| `webhooks` | 1 endpoint, 2 events, 2 dispatchers, 2 rotations, 2 attempts, 1 fault, 1 replay, all routes, fairness; 579,584 states | attempts are bounded; one active secret; nothing accepted twice without a reason; every delivery settles |
| `journals` | 1 payment, 2 other journals, 4 entries, 2 sessions; 123,869 states | no `INSERT`, `UPDATE` or `DELETE` but the one below changes what was posted; the report raises no false alarm |
| `audit` | *violation* | cancellations, refunds and declined authorizations are not audited |
| `tx_refund_retry` | *violation* | a retried partial refund is applied twice |
| `pipeline_latest` | *violation* | what was published before the consumer's first start is never processed |
| `pipeline_poison` | *violation* | a `payment.cancelled` event stops the consumer for ever |
| `journals_moved` | *violation* | `UPDATE ... SET journal_id` takes an entry out of a posted journal |

`BacklogDrains` excuses events that lie behind one without `payment_id`; `EveryBacklogDrains` does not,
and fails in `pipeline_poison`: that difference is the finding. In the same way `journals` and
`journals_moved` differ in the statement sessions may use (`MovePosted`).

**Bounds and why they are enough.** The races need two transactions on one row or one customer, and a
third that changes the balance in between: three clients and two payments. A customer who can afford
one of two authorized payments (3 against 2 + 2), and a payment of 2 that can be refunded in halves or
at once, distinguish every comparison in the code. `HighAmount` is 2 in `payments` so that both
branches of the risk rule occur with both extreme levels. `MaxRequests`, `MaxRetries`, `MaxFaults`
`MaxRebalances`, `MaxReplays`, `MaxVersion` and `MaxInvalid` bound what callers and the environment do,
never what the code does. `BatchLimit` = 1 in `pipeline` is below the two events, so a round can leave rows
behind. In `webhooks`, `MaxAttempts` = 2 has a retry and a final failure, two events
let one delivery of a batch fail after the other was sent, and two rotations with versions up to 2 race for
the same version. One endpoint suffices there: endpoints share no state but a batch, which two events fill.
`journals` has the entries of a capture and its refund, or of one of them and of a session's two lines; a
session writes one entry per transaction (`MaxWrites`), and two sessions write a journal and its line in
different transactions. `create` is left out of `tx_capture` because its first wait, for its key, comes
while it holds nothing; `tx_serial` and `tx_liveness` have it. Identifiers are interchangeable, which
makes the symmetry sound; runs with liveness use none. `CHECK_DEADLOCK FALSE` everywhere because the
bounds let a finished system stop; waiting for ever is what `NoDeadlock` and `RequestsEnd` exclude.

**Seeded runs** start in a database `Payments` can reach (funded, created, authorized), so that all
requests go into the races instead of into the preparation; `StepsAreSerial` says of them what
`ImplementsSerial` says from the empty database.

**Fairness.** `PaymentTx!Fairness`: the server goes on executing the statements of an open transaction,
and a caller eventually reads its answer or gives up. Weak fairness covers lock waits because requests
are finitely many and `NoDeadlock` holds; nothing is assumed of retries or aborts. `EventPipeline!Fairness`: `run_forever`
repeats every second, Kafka comes back, and a dead consumer is started again. The last is an assumption
on the deployment (`docs/architecture/failure-recovery.md` speaks of "On restart"; `docker-compose.yml`
names no restart policy). `WebhookDelivery!Fairness`: `run_forever` begins a batch every second and goes
through it, a POST ends within the client's timeout, and time passes; after the one fault of the run a dispatcher
is still there, or was restarted; nothing is assumed of merchants,
rotations, replays or faults. No fairness is assumed of crashes, outages or rebalances, whose number is
bounded. A rotation that never commits does not stop a dispatcher, because signing takes no lock.

## 4. Properties worth knowing

* `BalanceReadIsSafe`: `available_balance` is not a snapshot, yet under the customer's lock it errs only
  downwards, because only funding and refunds, which add money, go on without that lock.
* `FundsStillThere`, `RowReadIsCurrent`: what a transaction decided on is still true when it commits.
* `BackstopIsSilent` with `CaptureJournalMatchesStatus`: the `PAYMENT_ALREADY_CAPTURED` branch is never
  needed.
* `SettledInAccountCurrency`: `create_payment` accepts a currency the customer has no account in; such a
  payment can be created, and declined or cancelled, but never moves money.
* `LedgerMatchesPayments`, `EventsReplayToRow`: ledger, outbox and payment rows tell the same story.
* `LifecycleRespected` includes that no payment is born `FAILED`: with five risk levels and one amount
  rule `evaluate_risk` cannot reach 0.85 for a create. (`CREATED`, which
  `docs/architecture/payment-lifecycle.md` starts from, is never stored.)
* `ImplementsEffects`: the whole of publishers, Kafka and consumers in one sentence of the database.
* `DuplicatesAreFaults`: Kafka is at-least-once here, but the code adds no copies of its own: two publishers
  never send one row, since `SKIP LOCKED` keeps their rounds apart; each copy after the first takes a lost
  acknowledgement, or a round rolled back after sending.
* `OneActiveSecret`: the lock on the endpoint makes the partial unique index a backstop, and an active
  secret is there whenever a dispatcher signs, although it looks without a lock.
* `AcceptedOnce`: duplicates have three sources, and two dispatchers with one row is none of them: a lost
  answer, a batch that rolled back after its POSTs, a replay (also of a delivery that had succeeded).
* `EveryDeliverySettles`: in spite of rollbacks that forget attempts. It settles, but may settle badly: a
  delivery signed with a secret its receiver does not know yet gets 401 and is a dead letter at once,
  or, on the demo's `/webhooks/forgepay`, which answers 200 to a bad signature, a success.
* `NoFalseAlarm`: the report looks at `CAPTURED` payments only, and those it saw keep their journal.
* `OnlyRefundsRepeat`: what the API does guarantee about retries, next to the refuted `AppliedAtMostOnce`.

Every property of a passing run has a mutant: an operator of the model, changed as a plausible bug
would change it, that makes TLC refute the property.

## 5. Proofs

Every safety invariant and action property that a passing run checks, and both refinements, are also
theorems: proved by TLAPS for all sets of merchants, customers, payments, keys, clients, publishers,
consumers, dispatchers, sessions and so on, and for all values of the bounds. The runs show them on small
instances, and keep what the prover cannot do. The assumptions on constants are the named `ASSUME`s of the
modules, which TLC evaluates for each instance:

| Assumption | Says | Because |
|---|---|---|
| `AmountAssumption` | amounts are positive | `Field(gt=0)` |
| `RiskLevelAssumption`, `HighAmountAssumption` | levels are 1..5, the threshold is a number | `domain/risk.py`, `schemas.py` |
| `NoneAssumption`, `RowAssumption`, and parts of the next | a missing row, message or owner is none of the real ones | NULL |
| `BoundsAssumption`, `ConstantsAssumption`, `DeliveryAssumption`, `GuardAssumption` | bounds are numbers, limits are positive | configuration |

`DeliveryAssumption` asks for `MaxVersion` >= 1, since a registration makes version 1 whatever the bound on
rotations. It asked for a natural number only until `WebhookTypes` could not be proved.

### Payments

`PaymentsProofs` proves `InvariantHolds` (`Spec => []IInv`), and from it `TypeCorrect`, `NeverOverdrawn`,
`AmountsAgree`, `SettlementStaysInCurrency`, `KeysIdentifyPayments`, `CapturedOnce`, and the action property
`LifecycleIsRespected`; then `LedgerAgrees` and `EventsReplay`.

*The argument.* `IInv` is the conjunction of the invariants with two parts that exist for the induction.
`RowsComplete` says that a row that exists has terms and a customer of its merchant: without it nothing
is known of the amount a capture moves. `CashInAccountCurrency` says that cash is held only in the
currency of the customer's account: a capture needs a positive balance in the payment's currency,
hence that currency is the account's, hence `SettledInAccountCurrency`. `NoOverdraft` needs the guard
of `Capture` and, for refunds, only that they add cash. `CapturedOnce` needs that no settled status
leads back, which is `Allowed`. Each conjunct has a lemma `...Step` with one step per action;
`CashLines`, `CashSums` and `CashEntriesAdded` reduce a journal to its effect on one cash account, and
`CreateIsNeverRejected` is the arithmetic of the risk score.

*The ledger's sums* (`LedgerAgrees`). `LedgerMatchesPayments` adds up all payments and customers of a
merchant in a currency, however many there are. `LedgerInv` names the summands: `Left` is what is left of
each payment, `Held` what each customer holds, `Owed` and `Funded` the two accounts of the merchant. A
step changes one summand (`HeldChange`, `LeftChange`), or adds one that is 0: a new customer, a new
payment. `FoldProofs` says what that does to a sum (`SumChange`, `SumAdd`), and `MerchantLines` what the journal does
to the two accounts: a capture moves its amount from `Held` to `Left` and to `Owed`, a refund moves it back,
funding adds it to `Held` and `Funded`. It needs `IInv`: only because money is taken in the currency of the
customer's account, and for the customer's merchant, are the two changes in the same sum.

*The events* (`EventsReplay`). `ReplayExists` shows that the recursive function behind `FoldLeft` exists,
`ReplayAppend` that a replay with one more event is the replay without it and a step of `AfterEvent`. Each
operation that emits is then a step of `AfterEvent` on the payment's row, and the others leave both alone.

### Concurrent handlers

`PaymentTxLocks` and `PaymentTxProofs` prove `TxInvariant` (`Spec => []TxInv`), and that every step of a
handler is one serial operation or none (`StepIsSerial`, by one lemma `...IsSerial` per operation). Hence
`StepsSerial` and `HandlersAreSerial`, the refinement, and the runs' invariants `TxTypes`, `NoLostUpdate`,
`BalanceReads`, `FundsStay`, `DeclinesAreJustified`, `BackstopStaysSilent`, `AnswersMatchRecords`,
`RetriesAreAbsorbed` and `LocksNeverCycle`.

*The argument.* `TxInv` has `Serial!IInv` for the committed tables, and for the transactions:

* `Exclusive`: conflicting locks have one holder. `LocksInOrder`: which labels a holder of each kind of row
  can be at; `LocksKept`: which locks each label relies on; `InControl`: what label, request and verdict say
  of one another.
* `RowCurrent`: past its lock, what the handler read of the payment is the committed row, and permits what
  it is about to do. Only a commit changes a payment row, and by `Exclusive` and `LocksKept` it is
  this handler's own (`CommitKeepsOthersRow`).
* `BalanceOK`: under the customer's lock a balance only grows (`MoneyOnlyArrives`: fundings and
  refunds are all that does not take that lock), so a balance read in pieces, debits before credits, is at
  most the present one and at least the one at the lock. It gives the guard of the serial `Capture`,
  `FundsStillThere`, and for a decline the shortage that justifies it.
* `CreateOK`: who holds an idempotency key finds no record under it until the commit; a replayed answer
  names the record. `FundOK`, `BackstopIsSilent`: the journal's reference is free when it is inserted.
  `EmptyWithoutRow`: a ledger account without a row has no entries, so creating it on demand loses none.
* `AppliedOnce`: what a request that was applied has left behind (`Applied`), which refuses it the second
  time, for everything but refunds.

A statement that does not commit changes no table (`Quiet`), so for it only the conjuncts about the
transaction itself are at stake (`CallKeeps...`); a commit is one serial operation, and must not disturb
what other transactions rely on (`CommitKeepsOthers...`). For `NoDeadlock`
the statements have a rank (`Rank`), and whoever holds a lock that a statement waits for is, by
`LocksInOrder`, at a statement of a higher rank: of a set of clients that wait for one another, the one at the
highest rank would wait for nobody in the set.

*What it carries over.* `Api == INSTANCE PaymentsProofs` makes the theorems of the serial API available for
the tables of the concurrent one: `NeverOverdrawnConcurrently`, `RefundsAddUp`, `OnePaymentPerKey`,
`SettledInCurrencyConcurrently`, `CapturedOnceConcurrently`, `LifecycleRespectedConcurrently`,
`LedgerAgreesConcurrently` and `EventsReplayConcurrently` say that they survive every interleaving, abort
and retry: everything that is proved of `Payments` is proved of the handlers.

*What it says of progress.* `RequestsEnd` itself stays with TLC. What can be proved of it is the safety
half: `LocksNeverCycle`; `StatementsComeToAnEnd`, that every statement ends its transaction or takes it to a
later of nine stages, so no handler loops and an attempt has at most nine statements; and
`LocksAreTwoPhase`, that a row lock is kept to the end of its transaction and not beyond, so that who waits
waits for a transaction that is still under way. That a statement with nobody to wait for can be executed
is `ENABLED`, and left to the run.

### The event path

`EventEffectsProofs` proves `RowsAreUnique`: under the promise there is never a second delivery row for an
endpoint and an event, nor one for an event not handled. `EventPipelineProofs` proves `PipelineInvariant`
(`Spec => []PipeInv`), from it `PipelineTypes`, `PublishedReachesTopic` and the action property
`OffsetNeverSkips`; `NoDuplicateWithoutFault`; and `PipelineImplementsEffects`, with which `RowsAreUnique` becomes
`PipelineRowsAreUnique`, a theorem about publishers, Kafka and consumers.

*The argument.* `PipeInv` adds to the types: `OnlyCommitted` (what is in a round, on the topic, in a hand or in
the inbox was committed, or is undecodable), `SentIsOnTopic` (also of a round that has not committed),
`ClaimsExclude` (an inbox row inserted and not committed is one consumer's, and not in the inbox) and
`OwnerCaughtUp` (the owner's position is at or beyond the offset, and everything between the two is processed,
undecodable or in its hand). Old owners are not in `OwnerCaughtUp`, which is why the refusal of their commits
(`CommitFenced`) matters. For the refinement, `ClaimsExclude` makes the commit of a consumer the one
`Handle` of its event, and `OnlyCommitted` gives `e \in emitted`; every other step is a stutter.

*Duplicates* (`NoDuplicateWithoutFault`). `DupInv` counts the copies of an event on the topic: `RoundsApart`
says that no row is in two rounds or in a round after its publication, and that a row still to be sent was
not sent in its round; `CopiesCounted` allows an event one copy while a round that sent it, committed or
not, counts, and one for each fault. A send adds a copy to a row that by `RoundsApart` did not count before;
a round that is rolled back, and an acknowledgement that is lost, cost a fault.

### Webhooks

`WebhookDeliveryProofs` proves for all sets of endpoints, events, dispatchers and rotations and all bounds,
under `DeliveryAssumption`:

* `SecretsRotate` (`OneActiveSecret`). *The argument.* `SecretInv` adds `RotatesRegistered`, `Exclusive`
  (two rotations never have the same endpoint: its lock) and `FoundIsActive` (what a rotation found is
  still what is active, which needs `Exclusive`): so the new version replaces all that was active.
* `AcceptancesAreCounted` (`AcceptedOnce`). *The argument.* `DeliveryInv` adds `Sorted` (a batch's rows are
  to do, in hand or settled, never two of them), `Apart` (no row is in two batches: `SKIP LOCKED`),
  `LockedAwait` (a row in a batch waits to be delivered: nobody else writes it), `RowsHandled` (the event
  path adds a row once) and `AcceptancesCounted`: each acceptance is a success, committed or about to be, or a
  replay of one, or unrecorded. A POST adds an acceptance to a row that by `LockedAwait` and `Apart` was
  not counted as a success; a commit keeps the count; a rollback moves it to `unrecorded`, a replay to
  `replays`.
* `RotationsRetireLatest`, from `SecretInv`: a rotation retires exactly the latest secret, and two rotations
  of one endpoint are never both past its lock. `SigningNeverRaises`: every row of a batch belongs to a registered
  endpoint (`RowsRegistered`, because the promise makes rows for registered endpoints only), which has one
  active secret, the latest; so `WEBHOOK_SECRET_NOT_FOUND` never rolls a batch back.
* `RowsOnlyAdvance` (the action property `RowsAdvance`): a delivery row is never dropped, its attempts grow one by
  one and are never taken back, and one that succeeded or was given up changes by a replay only. *The argument.*
  `SettledAhead`: what a batch has settled and not committed is its row as it is now with one more attempt,
  since `Apart` and `LockedAwait` keep everybody else from writing it.
* `WebhookTypes` (`TypeOK`, with the bound on attempts and on the size of a batch). *The argument.*
  `AttemptsLeft`: a row that waits, in the table or in a transaction's view, has an attempt left, since
  `Exhausted` makes the last failure final and a replay adds one; `BatchBound`: settling moves a row within
  its batch; `RoomToRotate`: the version a rotation will make is within the bound.
* `DeliveryKeepsPromise`: `WebhookDelivery` implements `EventEffects` with a row as one delivery.
  Together with `PipelineImplementsEffects` this is the seam of the event path: one side implements the promise,
  and the other uses no more than it and disturbs none of it. It needs `AttemptsLeft` and `LockedAwait`: a batch
  that commits writes only rows that exist, as rows that exist.

### The ledger's guard

`JournalGuardProofs` proves `GuardTypes` (`TypeOK`), and under `MovePosted = FALSE` (no session moves an
entry out of a posted journal, which the trigger would let it do: `journals_moved`) `PostedIsKept`
(`PostedStays`) and `ReportIsQuiet` (`NoFalseAlarm`).

*The argument.* `GuardInv` says that a payment's journals exist exactly as far as the payment has come
(`ServiceJournals`), hence are never `DRAFT`, and that no session has an uncommitted write to one of them
or to a line of one (`WritesForeign`): the triggers see the committed status of such a journal
(`PostingSeen`), refuse the statement at once, and a commit has nothing of it to write. The second part is
needed because a commit checks balances only. `Keeps` is what follows for a step. `ReportInv` adds that a
captured payment's journal has the two lines `create_journal` gave it and no other (`TwoLines`), and that
what the report saw as captured is not authorized any more (`SeenSettled`): its later sum is over those lines.

### Folds

`LedgerMatchesPayments`, `EventsReplayToRow` and `NoFalseAlarm` use `MapThenSumSet` and `FoldLeft`, which the community
modules define by a recursive function on the subsets of a set. The library's induction theorems take the
property as an operator, which these provers cannot instantiate. `FoldProofs` takes it as a set instead:
`LeastNumber` (a nonempty set of naturals has a least element, since `<` is well founded) and
`SubsetInduction` give a smallest counterexample. `FoldExists` and `FoldUnique` then say that the recursive
function is there and is the only one, `SumsSplit` that the order of summation does not matter, and
`SumEmpty`, `SumAdd`, `SumChange`, `SumSingle` are what the proofs above use.

### Model-checked only

* Liveness, which is out of the prover's reach: `RequestsEnd`, `EventuallyPublished`, `BacklogDrains` and
  `EveryDeliverySettles`, under the fairness of section 3.
* The violation runs: they need one counterexample.

## 6. Plan

Done: the models of section 2, the proof of every safety property and refinement they have, and the part of
the liveness arguments that is safety. Left, if the code goes on:

1. The same for the other liveness properties: measures that only faults, replays and new requests raise, for
   `BacklogDrains` and `EveryDeliverySettles` (`RowsOnlyAdvance` is the first half of the latter).
2. Shorter proofs where they are longer than their argument (`PaymentTxLocks`).
3. Whatever section 7 leaves out that gets a state of its own, before all the audit of the webhook operations.

## 7. Not modelled

Authentication and scopes are stateless checks before a handler. Hashing and encryption are pure
functions of libraries; a fingerprint is modelled as the terms it is computed from, a secret as its
version, and a signature as verifying with its own secret only. The 300 seconds of tolerance of a
signature's timestamp are left out, since it is made just before a POST that ends within 5 seconds. Of the
demo receiver, `/reset` and `/received` are left out; other receivers are not modelled. The two GET routes
read and change nothing. The audit entries of the webhook operations, and `last_error` of a delivery, which
nothing reads, are left out (a 5xx that is retried stores no `last_error`, although
`docs/architecture/failure-recovery.md` says the last error is stored). The currency check of the balance
trigger is left out: in the model a journal and its entries have one currency. That two sessions can
together unbalance a journal one of them made `POSTED`, after it was committed as `DRAFT`, is not stated as
a property: no code of the service commits a `DRAFT` journal. A `DELETE` of a `DRAFT` journal does nothing
(the trigger answers NEW, which is NULL), which no code depends on.
A retry inside aiokafka's producer, which can put a second copy of a message on the topic within one send, and a
message without a value, whose `AttributeError` the consumer does not catch, are left out: nothing in the code
sends the latter. The thin risk, ledger and webhook services answer a health probe and one pure function. Metrics, logs,
deployment and demo scripts have no part in the state. Amounts beyond a 32-bit column are refused by the
database with a rollback and are outside the models' amounts.
