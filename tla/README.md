# Verification of the imports platform

TLA+ models, model-checking runs and machine-checked proofs for the Go services
of this repository: `imports-api`, `imports-worker` and what they share
(PostgreSQL tables, a RabbitMQ queue, an HTTP integration behind a circuit
breaker). Everything is translated from the code under `src/`; file and line of
every definition are in `PROJECT.json` (`map`).

## 1. The system

```
 client --POST--> imports-api (2 replicas) --tx--> imports + outbox_events
                      |  publisher goroutine: claim, publish, confirm, mark
                      v
                  RabbitMQ lab.imports.process -> imports-worker (1 replica)
                      |                            |  StartProcessing
                      |                            |  IntegrationClient.Process
                      +-- lab.imports.dead_letter <-+  CompleteImport, ack / nack
                                                   |
                                      circuit breaker --> integration-simulator
```

| component | state it keeps | operations | talks to | what is hard | what makes it correct |
|---|---|---|---|---|---|
| create import (`httpapi/api.go`, `Store.CreateImport`) | rows of `imports`, `outbox_events` | one transaction per POST: insert or find, insert the event, commit | the database | concurrent requests with one key under READ COMMITTED; failures between the two inserts; retries after lost answers | one import and one event per key; agreeing answers; a retry is a replay |
| outbox publisher (`messaging/outbox.go`, `ClaimOutbox`, `MarkOutboxPublished`, `ReleaseOutbox`) | `published_at`, `locked_at`, `locked_by`; the batch in memory | claim 25 rows, publish and await the confirm, mark, release | database, RabbitMQ | several replicas, one-minute leases without fencing, errors of unknown effect, crash between confirm and mark, no reconnection | nothing is closed before RabbitMQ has it; a claim is exclusive until its publisher has lost the row; duplicates have a cause; every event is published |
| RabbitMQ adapter (`messaging/broker.go`) | one connection, one channel, a confirm stream | Publish, Consume, topology | RabbitMQ | nacks, confirms lost with the connection, nothing reopens it | Publish succeeds only on a positive confirm |
| worker (`processor/worker.go`, `cmd/worker/main.go`, `StartProcessing`, `CompleteImport`) | `imports.status`; deliveries of its channel | take, start, process, complete, ack or nack | RabbitMQ, database, integration | redelivery after a crash or a lost connection, two workers on one import, SIGTERM under a delivery, failing completions | no message is lost or acknowledged unprocessed; SUCCEEDED means processed; every message settles |
| integration client and breaker (`processor/integration.go`, `breaker.go`) | breaker state, failure count, `openedAt`, `probeInFlight` | Allow, Success, Failure; three attempts with pauses | the integration | late reports of earlier callers, cancellation in a pause, an orphaned probe | one probe at a time, always resolved; quiet while open; recovery |
| migrations (`Store.Migrate`) | `schema_migrations`, an advisory lock | lock, check, apply, register, unlock | database | replicas starting together, a lost session or a crash between any two statements, a lock that outlives its process | each file applied once, in order; nobody serves on a partial schema; every replica starts |
| simulator (`simulator/handler.go`) | a request counter | answer, fail, delay by source | HTTP | a counter shared by all callers decides who fails; answers lost after the work was done; late requests; restarts | repeated effects have a lost answer behind them; retries fail together only when others interfere |
| API startup and shutdown (`cmd/api/main.go`, `OpenWithRetry`, `ConnectWithRetry`) | pool, connection, server, requests in flight | open, ping, migrate, dial, serve, shut down | all | fifteen attempts that may fail at any point; `ListenAndServe` returns when Shutdown begins and the deferred calls run under the requests | failed attempts leave nothing open; a graceful end aborts no transaction; the replica is ready again |
| worker loop and what it reports (`Worker.Run`, `updateImportMetrics`) | two tickers, heartbeat, gauge | beat, count, take | Prometheus | one goroutine for all, statements without a deadline, `select` chooses at random, a tick channel holds one tick | the heartbeat alert does not accuse a living worker; the gauge catches up |
| configuration, other observability, telemetry, scripts | — | — | — | — | not modelled, see section 8 |

`PROJECT.json` lists every part with its status, and under `hazards` the places
in this code that tests hardly reach, each with the properties aimed at it.

## 2. Modules

| module | models | kind |
|---|---|---|
| `AtLeastOnce` | what the outbox promises (decision 0002): recorded, delivered at least once, closed after delivery | abstract |
| `Outbox` | the table, every replica's publisher, its AMQP connection, RabbitMQ's side of a publish | detailed |
| `OutboxProofs` | theorems about `Outbox` | proofs |
| `IdempotentCreate` | what POST promises (docs/api.md): one import per key, every success names it | abstract |
| `CreateImport` | the handler and its transaction, run by concurrent requests | detailed |
| `CreateImportProofs` | theorems about `CreateImport` | proofs |
| `CircuitBreaker` | the four fields of the breaker; `Allow`, `Success`, `Failure` as actions | component |
| `IntegrationClient` | `Process` of several callers over one `CircuitBreaker` | composition |
| `Simulator` | the integration-simulator, the links to it, late and lost requests, over `IntegrationClient` | composition |
| `SimulatorProofs` | theorems about `CircuitBreaker`, `IntegrationClient` and `Simulator` | proofs |
| `ImportWorker` | RabbitMQ's queues, the worker processes and their life, `imports.status` | detailed |
| `ImportWorkerProofs` | theorems about `ImportWorker` | proofs |
| `ImportLifecycle` | what the system promises of an import from end to end | abstract |
| `Pipeline` | `Outbox`, RabbitMQ and `ImportWorker` together, with one bound on faults for both | composition |
| `System` | `CreateImport` in front of `Pipeline`, over the same two tables | composition |
| `PipelineProofs` | theorems about `Pipeline` and `System` | proofs |
| `ApiService` | the life of an imports-api process: retries, serving, shutdown, the pool under its requests | detailed |
| `ApiServiceProofs` | theorems about `ApiService` | proofs |
| `WorkerLoop` | the select loop of the worker with its tickers, heartbeat and gauge | detailed |
| `WorkerLoopProofs` | theorems about `WorkerLoop` | proofs |
| `Migrations` | `Store.Migrate`, run by every starting process of the API and the worker | detailed |
| `MigrationsProofs` | theorems about `Migrations` | proofs |
| `MC*` | small instances; each `.cfg` names its run | runs |

Operators whose comment starts with "Variant" are mistakes a developer could
make in the definition that follows them. They are not part of any
specification; replacing the definition by its variant must break the property
it is paired with in `PROJECT.json` (`mutants`), which shows that the property
looks at that piece of code.

### How state and actions correspond to the code

*Outbox.* `stored`, `published`, `lockedBy` and `stale` are the columns of
`outbox_events` (`stale` is `locked_at < now() - interval '1 minute'`). Events
are numbered in `created_at` order. `pc`, `batch` and `current` are the control
point and the locals of `publishBatch`; `connected` is the channel. One action
per SQL statement, one for sending, one for the confirm, and one more wherever
the caller may see an error whose effect it cannot know (`ClaimLost`,
`MarkFails`; for a release the two outcomes are `ReleaseOutbox` and
`ReleaseFails`). `limbo` holds messages written to a connection that closed
before RabbitMQ read them: they may still be enqueued. Mark and release test no
owner, exactly like the statements. A claim takes one of `Claims(p)`: the oldest
claimable rows but for those that `SKIP LOCKED` passed over, which may be any when
another replica exists. `lapsed` and `unsure` are history for good; `overdue` and
`robbed` say of the batch in a publisher's hands which rows it has lost (its lease
ran out, or another publisher that had lost the row released it by its id) and are
forgotten with the row.

*CreateImport.* A request's control points are the statements of the
transaction. `snap` is the snapshot of the first statement: PostgreSQL takes it
when the statement starts (`StartStatement`), checks the unique index against
committed and uncommitted rows (`Insert` waits while `InProgress`), and answers
the second half of the `UNION ALL` from the snapshot (`FindExisting`,
`FindNothing`). An import is named by the request whose row it is, so that the
name cannot collide by construction: whether two of them share a key is the
question.

*CircuitBreaker and IntegrationClient.* One action per method, because the mutex
covers all of it. `age` counts ticks since `openedAt` and saturates at `OpenFor`,
the only thing `Allow` compares it with. `Process` is `Enter` or `Refused`, then
calls and pauses up to `MaxAttempts`; a pause ends by the timer (`Retry`) or by
the cancelled context (`Cancel`, which reports a failure).

*ImportWorker.* `ready`, `unacked`, `dlq`, `acked` are RabbitMQ's view of a
message, `held` what the client library has received and the loop has not taken
yet. A closed connection requeues everything unanswered while the worker goes on
with the delivery in its hands; its later ack or nack reaches nobody. Under a
cancelled context (`stopping`) statements fail of themselves, and the process
may be gone at any point: `main` does not wait for `Run`.

*Simulator.* It extends `IntegrationClient`: a call that succeeds or fails there
is here the end of a request that was counted (`Handle`), answered by its source
(`AnswerTo`), perhaps after the 800 ms of a slow one (`SlowEnds`), and whose answer
arrived (`GetAnswer`, `GetError`) or not (`GiveUpCall`). `odd` is the parity of the
shared counter, all the code looks at. `processed`, `lost`, `rejected`, `foreign`
and `shaken` are histories of the current Process of each caller and are
forgotten when it returns.

*Pipeline.* The publishers' `BrokerAccept` and `LateAccept` are the workers'
`Publish`: the one place where the components meet. Everything else of `Outbox`
is a step with the workers' variables unchanged and the reverse.

*System.* The requests of `CreateImport` are the imports of `Pipeline` (an import is
named by the request whose row it is), and `imports` of the one is `stored` of the
other. The two meet in the commit (`CommitImport`): `CommitCreated` or
`CommitInDoubt` is at once the `StoreEvent` the publishers see. `ClientSide` is every
other step of a request, `ServerSide` every other step of the pipeline.

*ApiService.* `pc` follows `main` through both retry loops, the migration, the
server and the deferred calls in their order (`closeBroker`, `closeStore`,
`waitPool`, `flush`). `phase` is where each request is: waiting for one of
`MaxConns` connections, in a transaction, writing its answer, or cut off. The
growing pauses between attempts have no length; that they can be interrupted by
a signal is modelled.

*WorkerLoop.* Time is discrete and urgent: it passes while `select` has nothing
ready, under `Process` up to `MaxBusy` (its attempts have timeouts), and without
any bound while the loop waits in one of `Calls`: `StartProcessing`,
`CompleteImport` and `CountImportsByStatus` run on a context without a deadline and
may wait for a connection of the pool too. `beatDue` and `countDue` are the ticker
channels with room for one tick. `passed` counts the deliveries chosen while a
heartbeat was due, `stalled` the time spent in `Calls` meanwhile.

*Migrations.* `registered` is `schema_migrations`; `applied` counts how often the
contents of a file took effect. A replica's control points are the statements of
`Migrate`; `seen` is how far its loop has come. The advisory lock belongs to a
session: it goes when the connection is lost (`LoseSession`), and stays with the
session of a dead process until the server notices (`Orphan`, `OrphanEnds`). Any
error of unknown effect may have committed (`EndInDoubt`). The repository has one
file today (`001_init.sql`); the loop is written for any number, so the run has
two, the least number with an order.

## 3. Runs

Runs that pass:

| run | instance | what it shows |
|---|---|---|
| `outbox_replicas` | 2 replicas, one of which may lose its connection, 2 events, batches of 2, 2 faults | all properties of the outbox, its refinement of `AtLeastOnce`, and publication of every event once no running replica is without its connection |
| `create_requests` | 3 requests, 2 keys, 2 faults | the safety of the create, its refinement of `IdempotentCreate`, and an answer for every request |
| `client_simulator` | 2 callers, threshold 2, 2 attempts, lab mode | one breaker and one simulator over links that are cut, a process that dies, late requests and SIGTERM: one probe at a time, never orphaned, never overtaken; repeated effects and worn-out retries have their causes; the breaker recovers |
| `worker_pair` | 2 workers, 1 import, 2 messages, 2 faults | races of two workers on one import: nothing settled unprocessed, nothing lost, second effects have a cause, every message settles |
| `system` | 2 requests with one key, 1 publisher, 1 worker, 2 faults | from the POST to the acknowledgement: retries repeat no effect at the integration, a stored import can always be found, refines `ImportLifecycle`, and settles |
| `service` | 3 requests, pool of 2, 3 attempts, 3 faults | retries leak nothing, only a kill aborts a transaction, the replica is ready again |
| `worker_loop` | 2 imports, periods 1 and 2, `Process` up to 2, alert after 4, 2 faults | a living worker is accused only if `select` passed its heartbeat over, or database calls stalled, for long enough; the gauge catches up |
| `migrations_startup` | 3 replicas, 2 files, 2 faults | files take effect once and in order, no replica serves on a partial schema or makes another fail, and all of them start |

Runs that refute something the repository says:

| run | what is said | what the code does |
|---|---|---|
| `create_race` | repeating tenant and key returns 200 (docs/api.md) | a request that started before the first one committed gets 500 |
| `outbox_reconnect` | a failure between commit and publication is recoverable (decision 0002) | a replica that lost its connection never gets it back; alone, it publishes nothing more |
| `worker_dlq` | a final failure ends in DEAD_LETTER and the dead-letter queue | a failing statement or a shutdown fills the queue and leaves the status |
| `api_drain` | graceful shutdown with a deadline of ten seconds (docs/architecture.md) | `main` returns as soon as Shutdown begins, under the requests it waits for |

What still holds next to each refutation is a property of a passing run:
`ErrorMeansRace` (the 500 has no other cause), `PublishedOnceConnected`,
`NoSilentLoss` and `EveryImportIsAccountedFor`, and `GracefulExitAbortsNothing`
(what is cut off is the answer, never the transaction: `pool.Close` waits).

### Bounds

- Two replicas, two workers or two callers are the smallest numbers with an
  actor that goes on while another is stale; a third adds no new pair (and the
  safety theorems of section 4 hold for any number). Two rows
  give a batch with a rest that stays locked after an error. One of the two
  publishers may lose its connection (`Flaky`); crashes and errors strike both.
  Three replicas
  migrate, so that two wait for the lock while a third fails with it.
- `MaxFaults` bounds errors, crashes, signals and lost connections together. Two
  are enough for a crash during the recovery from the first.
- `accepted`, `events` and `effects` count up to 2, read as "two or more": no
  property tells 2 from 3.
- `failures` counts up to `Threshold`: the code compares with `>=`.
- `OpenFor` is 2 ticks and `MaxTicks`, the longest `Process`, 1: the order of the
  two is what matters (see `TimingAssumption`).
- `MaxCopies` bounds how often the outbox publishes one event. In `system` it is
  publishers plus faults (3): each further copy of the one publisher takes a
  failure, and the worker does not look at a copy's number.
- `system` has two requests with one key, so one import is stored, and which of the
  two it is depends on the race and on faults (`MaxFaults` counts those of requests
  and servers together). Requests with different keys share nothing (see
  `create_requests`), and rows of different imports share nothing but the batch,
  which `outbox_replicas` covers with two events, and the prefetch. It has one
  publisher, which after a restart claims what it had locked before, like any other
  replica: what two of them do to each other is in `outbox_replicas`, and the safety
  theorems of section 4 hold for any number of them.
- `worker_loop`: what matters is the order of the periods, the longest `Process`
  and the alert's threshold, not seconds. `stalled` saturates at the threshold, where
  it explains an alert by itself. `MaxPassed` lets `passed` grow past
  the point where the premise of `AlertMeansStarved` holds.
- `service` has one request more than the pool has connections.

`CHECK_DEADLOCK FALSE` is set for `CreateImport` (every request is answered in
the end), `ImportWorker` (messages are finite and all are settled; run `worker_pair`) and `Migrations`
(nothing is left to do once all replicas are ready). The other runs check deadlock.

### Fairness

- `Outbox`: the ticker keeps calling `publishBatch` (weak fairness of
  `PublisherStep`), containers are restarted (`Start`; `restart:` in
  compose.yaml, the Deployment in Kubernetes), RabbitMQ answers a connected
  publisher (`BrokerAccept`), and a minute passes (`LeaseExpires`). Nothing is
  assumed of faults, of new events or of late messages. A claim that skips every
  row is a stutter, so the fairness of `PublisherStep` also has a claim that may
  take a row take one in the end: a replica's statements end, and with them their
  row locks.
- `CreateImport`: PostgreSQL executes statements it has been sent.
- `Simulator`: calls have a timeout, pauses a timer, handlers end, imports keep
  arriving, time passes. Links, deaths and SIGTERM are not fair; `Recovers` has as
  its premise that the simulator answers from some point on.
- `ImportWorker`: RabbitMQ delivers to a channel with room, the worker goes on,
  exits when its stream is closed, and is restarted.
- `Pipeline` and `System`: what `Outbox` and `ImportWorker` assume, and nothing else.
  Requests are not fair in `System`: what they stored settles without them.
- `ApiService`: `main` goes on, requests in flight end, and the runtime restarts a
  process that has ended. Dependencies, signals and new requests are not fair.
- `WorkerLoop`: time passes, every call comes back in the end (`Finish`; however
  long it takes: only the liveness of the gauge needs it, not the alert's safety),
  the process is restarted. The context and the tickers are strongly fair cases of
  `select`: Go chooses among the ready ones at random, so one that is ready
  infinitely often is chosen (with probability one). Of a delivery it is enough
  that one is taken when nothing else is ready.
- `Migrations`: containers are restarted and statements executed; PostgreSQL
  grants a lock in the order of the requests, so a replica that waits is not
  overtaken for ever (strong fairness of `Step`), and ends the session of a dead
  process (`OrphanEnds`).

`PublishedOnceConnected` has the premise that from some point on no running
replica is without its connection. It is not a fairness assumption: the code
does not provide it, which is what `outbox_reconnect` shows.

### Assumptions on constants

`TimingAssumption` (`MaxTicks < OpenFor`) is the deployed setting:
`PROCESSING_TIMEOUT` is 3s in compose.yaml and in the Kubernetes configuration, so a
`Process` lasts at most 3 × 3s + 0.2s + 0.4s = 9.6s, less than the 15s the
breaker stays open. With the default of config.go (5s) it could last 15.6s and
outlive the cooldown. This matters to `OneProbe` with several callers only; the
worker has one. `EventsAssumption`, `NumberedAssumption`: rows are numbered in the
order of `created_at`. `HistoryAssumption` of `WorkerLoop` says that the counter
`passed` of the model is not saturated before the alert could fire; it restricts
the bound `MaxPassed` of the model and nothing of the code. The other assumptions say that bounds are numbers and that
NULL is no value.

## 4. What is proved

The theorems hold for every value of the constants that satisfies the named
assumptions: any number of rows, replicas, requests, keys or callers, any limit
of a batch, any number of faults.

**Outbox** (`OutboxProofs`). `PublishedHasArrived`, `ClaimsAreExclusive`,
`DuplicatesHaveACause`, `PublishedStays`, and `OutboxImplementsAtLeastOnce`.
None of the properties is inductive. The invariant is

- `CurrentInBatch`: between two statements a publisher works on a row of its
  batch (with `TypeOK`, this is `Typing`);
- `OnlyStoredRows`: batches and late messages are rows of the table;
- `ConfirmedWasAccepted`: a confirm is received only for an event RabbitMQ has,
  which is what makes the mark safe even when another replica owns the row;
- `HolderOwnsRow`: until its lease runs out a claimed row is locked by its
  holder and unpublished. Mark and release test no owner, so this is the fact
  that keeps them from touching a row somebody else has claimed;
- `StaleHasLapsed`, `LimboIsUnsure`: the history variables cover their causes;
- `AcceptedIsOnItsWay`: an undisturbed event that RabbitMQ has is either
  published or still locked, and whoever holds it is past its publish. Hence it
  is not published a second time.

Leases have an invariant of their own, `LeaseInv`, because `lapsed` is about the past
and a claim is about the present. `FreshClaims`: a publisher that has not lost a row
of its batch holds its lock within the current lease, unless a late mark closed the
row. `PublishedIsUnlocked`, `LostIsInHand` and `RestingIsEmpty` are what a step needs
to keep it. From it follow `ClaimsAreExclusive` (two publishers have a row in hand
only if one of them has lost it, however often it lapsed before) and
`LocksAreRespected` (a lock within its lease is taken off by its holder or by a
publisher that has lost the row, by nobody else). Both exemptions are needed: a late
release by id frees a row another replica has just claimed, and a third claim then
overlaps it although its lease has not run out.

`BatchesStayLimited` is about `ORDER BY created_at LIMIT n`. A row's rank is the
number of older rows; ranks of different rows differ (`RankIsStrict`), so the taken
rows map one-to-one into `0..n-1` (`OldestIsLimited`). What one claim adds to the
locked rows is one batch at most; what earlier crashes abandoned may still be locked
beside it. Nothing is said of the order in which rows go: `SKIP LOCKED` lets a claim
take younger rows than one another statement has locked.

**Create** (`CreateImportProofs`). `KeysAreUnique`, `ImportsHaveOneEvent`,
`AnswersNeverDisagree`, `RetriesAreReplayed`, `ErrorsAreRaces`, `ImportsStay`, and
`HandlerImplementsIdempotentCreate`. The invariant extends uniqueness to rows
that are inserted and not committed (`OneRowPerKey`), says that such a row is its
writer's own (`WritesOwnRow`), that a replay holds the stored import of its key
(`FoundIsStored`, `AnswersNameTheImport`), and that a retry sent after a success
has that import in its snapshot (`LateSeesTheImport`), so that it can neither
insert nor find nothing. The refinement maps the owner of a key to the import
that has it; with one import per key the choice in `Owners` is none.
`OneRowPerKey` also gives `WaitsAreForOneWriter`: an insert waits for one transaction
at most, which is past its own wait, so requests never wait in a chain or a circle.
`SilentImportsHaveACause` bounds what a client may not know: an import it was not
told of comes from a commit in doubt of its own request. `CreateFeedsTheOutbox` is
the other side of `StoreEvent`: the tables change only by one new import with its
first event, which `Outbox` and `Pipeline` take for granted of their environment. The
refinement rests on two lemmas about `Owners`: it stays while the imports stay
(`OwnersStay`), and a new import changes it at its key alone (`OwnerIsAdded`).

**Breaker** (`SimulatorProofs`). `ProbeIsNeverOrphaned`, `OnlyOneProbe`,
`ProbeIsAlone` for any number of callers. The heart is `CooldownOutlastsProbe`:
if somebody else's failure opens the breaker while a probe is out, `openedAt` is
younger than the probe, and the probe ends before the cooldown does
(`TimingAssumption`). Only then is `ProbesAreOne` inductive. With the worker's
single caller: `SingleCallerIsQuiet`, `SingleCallerWaits`.

**Migrations** (`MigrationsProofs`). `MigratorsAreExclusive`,
`RegistryStaysExact`, `FilesStayInOrder`, `ReadyReplicasAreMigrated` and
`OnlyFaultsFail`, for any number of replicas, files and faults. `OneMigrator` is
inductive with the type. Everything else rests on it and on `LoopIsTruthful`:
what a loop is done with is registered, and the file being applied is not. Only
the holder of the lock changes the registry, so what a loop has seen stays true;
hence the registration never meets a registered file and Migrate fails only
because of a fault. `DoneIsMigrated` carries that fact past the unlock.
`SchemaMovesForward` puts it as a step: the registry grows by its first missing file,
by the commit of the one replica inside Migrate, or stays. `NobodyKeepsTheLock` is
the safety half of `EveryReplicaStarts`: no replica holds the lock outside Migrate.

**Simulator** (`SimulatorProofs`). `SimulatorImplementsClient`: with the simulator,
the links and late requests, the callers still behave as `IntegrationClient`
allows, so what is proved of the breaker carries over (`SimOnlyOneProbe`,
`SimProbeIsNeverOrphaned`, `SimProbeIsAlone`). `RepetitionsHaveACause` counts: work
done equals answers lost plus the answer in flight. `InterferenceIsNeeded` relates
the parity of the counter to what each caller has seen of it. `InterferenceIsCounted`
is the quantitative form: at the last attempt all `MaxAttempts` were rejections
(`AttemptsAreRejections`), each pair of rejections has a foreign request in between,
so others sent at least `MaxAttempts - 1`; the bound is reached. It follows that the
deployed worker, which is alone, gets flaky imports through
(`SingleCallerOutlastsFlaky`, for more than one attempt) and leaves the simulator
alone while the breaker is open (`SingleCallerSparesTheSimulator`).

**Worker** (`ImportWorkerProofs`), for any number of workers, imports and copies:
`NothingIsLost`, `SettlingIsConfirmed`, `EffectsHaveACause`. The invariant says where
messages are: `Places` (a message is in one place), `Hands` (what a worker has in
hand is unanswered on its channel, or its connection was lost and the message
taken back). `NoSilentLoss` itself is not inductive: the message that remains might
be the one a worker is about to acknowledge. `Findable` asks for an `Open` one, and
a worker that writes another status than SUCCEEDED has such a message in hand
(`MineIsOpen`). `OneEffect` does the same for effects: an import published once and
never requeued is in one worker's hands (`OneHand`) and, once confirmed, `Spent`:
nobody will call for it again. `MessagesAreConserved` adds `Somewhere` (no message
vanishes) and `InHandExactly` (RabbitMQ waits for exactly the answers a connected
worker has in hand to give). `SuccessIsFinal`: a row can only leave SUCCEEDED through
a worker that has a message of the import in hand, and for an undisturbed import
there is none left (`Spent`). `DisagreementHasACause`: without faults and second copies the
queues agree with the statuses; `Agrees` is the invariant, which also covers the
moments between the completion and the answer.

**Pipeline** (`PipelineProofs`). The composition keeps both invariants
(`ComponentsStep`): each step is a step of a component or leaves it alone, but for
the shared count of faults. `Copied` ties RabbitMQ's copies to the workers'
messages, `Committed` the workers' imports to the rows of the API. From these
follow `SecondEffectsHaveACause` and `SystemImplementsLifecycle`, the refinement
from end to end. `LoneWorkerLosesNothing` is for a single worker, as deployed (a rolling
update may briefly run two, which it does not cover): what RabbitMQ takes back from
it waits until it is done (`Kept`), so the exception that
`NoSilentLoss` needs for lost connections falls away. With several workers it does
not: a worker without connection may take a SUCCEEDED row back to PROCESSING after
another one acknowledged its message. The composition keeps what each part promises
(`PipeWorkersAreSafe`, `PipeOutboxIsSafe`, `PipeMessagesAreConserved`), and two results
appear only end to end: `SuccessIsFinalEndToEnd` traces a success taken back to a
lapsed lease, an unrecorded publish or a requeue, and `ResultsAreExactWithoutFaults`
says that without faults only a lapsed lease can repeat an effect or make a queue
disagree with a status.

**System** (also `PipelineProofs`). `SystemIsBothParts`: every behaviour of the system
is one of the create and one of the pipeline. The steps match because a commit
stores its own row, which the table did not have (`OwnRows`): that is the guard of
`StoreEvent`. So what is proved of either part holds of the system, and
`SystemImplementsLifecycleFromCreate` starts the refinement at the POST. Three results
need both parts. `RetriesNeverRepeatEffects`: two requests with one key cannot both
have an effect, because an effect belongs to a stored row (`Committed`) and rows with
one key are one (`OneRow`, which counts uncommitted rows too); a second effect of that
one import has its cause behind the commit. `EffectsAreAskedFor`: who has an effect was
accepted, and answered 201 unless its request failed in doubt (`Told`). `AnswersAreKept`:
with the deployed single worker, what a 201 or a replay named can be found until it
succeeds. The invariant of the requests (`RequestInv`) is the part of the create's
that these need, proved again for the instance `C`.

**Service** (`ApiServiceProofs`). `RetriesNeverLeak`, `GracefulExitsAbortNothing`, for
any number of requests, connections and attempts. The invariant says which of pool
and connection exist at each point of `main`, and that past `waitPool` no request
holds a connection. Hence `QueriesRunOnThePool`: transactions run on the one pool,
after the migration and before `pool.Close` returns. `PoolStaysLimited` counts them.

**Worker loop** (`WorkerLoopProofs`). `AlertNeedsStarvation` states `AlertMeansStarved`
for any periods, lengths of `Process` and thresholds. While no beat is due the
heartbeat is no older than the ticker (`FreshUntilDue`); once one is due it ages only
under the delivery in hand at that moment, under those chosen over it since, each at
most `MaxBusy` long in `Process`, and under database calls (`DueAgesByDeliveries`,
where `stalled` is that time). The count saturates at `MaxPassed`, hence
`HistoryAssumption`. `AlertMeansPassedOver` reads it backwards: if K longest deliveries
and stalls of D fit into what the alert tolerates, an alert means that K were chosen
over the heartbeat or that calls stalled for longer than D. With 10 s, 60 s and
`Process` of at most 10 s: five in a row if PostgreSQL answers at once, three if it
took up to 20 s. A single statement that is not answered for long enough raises the
alert with nothing passed over: no bound on it is in the code, and none is assumed.

**Only model-checked**: liveness (the proof system has no rules for fairness
here): `PublishedOnceConnected`, `EveryRequestAnswered`, `Recovers`, `MessageSettles`,
`EveryImportSettles`, `ServesAgain`, `GaugeCatchesUp`, `EveryReplicaStarts`. Every
safety property and every refinement a passing run checks is a theorem.

## 5. Abstractions worth knowing

- SKIP LOCKED locks row by row, so concurrent claims can interleave and a row under
  another statement's lock is skipped while younger ones are taken. The row locks
  themselves, held for one statement, are no variable: a claim may leave out any
  claimable rows whenever another replica exists, which allows more than PostgreSQL
  does. The effect of each statement is one step.
- `UPDATE ... RETURNING` has no order: a batch is published in any order.
- The publisher waits for one confirm at a time, so the confirm of the row in
  flight is part of its control point instead of a channel.
- The library that receives deliveries may drop or deliver what it holds when
  its connection closes: both happen in `ImportWorker`.
- The integration is either result of a call. Its delays matter only to the
  breaker's clock.
- A payload that cannot be decoded does not occur: the only writer of payloads
  and the only reader share the type.

## 6. Findings

The four violation runs of section 3. Each is one property that quotes the
repository; the trace is a few steps long and the code lines are in
`PROJECT.json`.

Met while modelling, and not the subject of a run:

- With the default `PROCESSING_TIMEOUT` of config.go (5 s) a Process may outlast the
  15 s the breaker stays open; the deployed 3 s do not (section 3, assumptions).
- Mark and release name the row by its id alone (store.go:291-303). A replica whose
  lease ran out and whose publish then fails frees a row another replica holds within
  a fresh lease, and a third claim takes it at once: two publishers then publish it
  although neither lease ran out. `robbed` records it; the copy is a duplicate the
  outbox permits.
- A statement has no deadline, so the heartbeat alert can accuse a worker that only
  waits for PostgreSQL or for the pool.
- `Broker.Healthy` looks at the connection and not at the channel. The models have
  one `connected` for both.

## 7. Plan

Done: the outbox, the create, the client with its breaker and the simulator, the
worker with its loop, the whole way of an import, startup and shutdown of the
API, the migrations, create and pipeline in one system, and the proofs of every
safety property the runs check.

Left: the backup verification script against a live database.

## 8. Not modelled

Configuration is read once; its values are constants here. Logging, tracing, the
HTTP middleware, correlation ids and metrics other than the heartbeat and the
status gauge are outputs no component reads. What `GetImport` and `ListImports`
return, validation patterns, JSON and SQL encodings are data: the reads appear in
`ApiService` as uses of a connection, a request in `CreateImport` is valid. The
worker's health handler keeps no state. Trace headers of messages are left out.
Dashboards, alert rules (but for the threshold of the heartbeat's), the alert
recorder, manifests and scripts are outside the program; the manifests are used
as facts (replicas, restarts, timeouts, probes). `verify-backup.sh` counts the
source after the dump was restored, while imports may keep arriving: that is a
hazard of an operator's tool, listed and not modelled.

## 9. Running

```
tlc -config MCOutbox_replicas.cfg MCOutbox
tlapm OutboxProofs.tla
```

and likewise for the other rows of section 3 and the other `*Proofs` modules.
`system` and `outbox_replicas` take up to two minutes on two cores, every other run
about one, every proof module a few seconds to a minute.
