# TrustGate: a TLA+ verification project

TrustGate is a marketplace in which requesters list tasks, executors bid with
collateral in an escrow, and a worker pays out when the requester confirms. This
directory holds TLA+ modules for its core, TLC configurations that check them on
small instances, and TLAPS proofs for every instance. `PROJECT.json` maps each
definition to the lines it models and lists runs, mutants, findings, hazards and
theorems. Paths below are relative to the repository.

## The system

| Component | State | Operations | Interacts through |
|---|---|---|---|
| `TaskController` (`src/controllers/taskController.ts`) | `tasks` | create, select, complete | repositories, escrow provider, outbox |
| `BidController` (`src/controllers/bidController.ts`) | `bids`, escrows | create | registry, escrow provider, auction, outbox |
| `AuctionService` (`src/services/auctionService.ts`) | `tasks`, `bids` | selectWinner | run by every bid and by the admin's select |
| `TimeoutService` (`src/services/timeoutService.ts`) | `tasks`, escrows | runOnce | cron every five minutes, and an admin route |
| `WorkerService` (`src/services/workerService.ts`) | `event_consumptions` | tick: relay, reclaim, poll, retry; two event handlers | Postgres, Redis stream, escrow provider, webhook |
| `OutboxService`, `OutboxPublisher` | `outbox_events`, the stream | emit, publishOnce | rows written by requests, read by the worker |
| `EventConsumer` | consumer group, pending list, `claiming` | pollOnce, autoClaimOnce, ack | Redis |
| Escrow provider (Trustless Work) | escrows | createEscrow, releaseMilestone, confiscate | HTTPS calls that may fail, lose the reply, or answer `success: false` |
| Escrow contract (`contracts/escrow`) | escrow states, nonce, token, balances | create_escrow, release_milestone, confiscate, claim_timeout | token contract, ledger clock |
| Registry contract (`contracts/registry`), `RegistryService`, `ExecutorController` | executors on the chain, `executors` | register_executor, register, `scripts/deploy-registry.ts` | RPC calls with retries; the contract's id in `.env`, read when a server starts; asked before a bid and before a payment |
| Signed requests, idempotency keys | nonces, counters, stored answers | issueNonce, signatureAuth, idempotency (a pass-through without Postgres) | in front of the request handlers |
| Results and webhook | `task_results` | publishResult, getResult, postJson | outbox event `result_published` |
| Listing fee (`config/mppCharge.ts`, `mppChargeService.ts`) | payments seen (in each instance's memory), idempotency keys | the gate of POST /tasks, chargeListingFee | MPP Charge on testnet and pubnet, a transfer signed by the server on the local network |
| Payment for a result (`config/x402.ts`, `x402PaymentService.ts`) | `initPromise` | the gate of GET result, payForResult | the facilitator and, where a `PolicyService` is given, the registry |
| USDC amounts (`utils/money.ts`, `listingFee.ts`) | none | parse, format, fee, shares | used wherever money is |
| Start-up (`server.ts`, `app.ts`, `db/migrate.ts`) | `schema_migrations`, schema | main, runMigrations, createApp, worker.start | replicas share Postgres and Redis |
| Frontend (`frontend/src`) | the timeline, the status shown, the panels | start, pollUntilSettled | HTTP calls, signed off the local network |

What is hard here. No request handler opens a transaction, so two handlers
interleave at every `await` and save whole rows they read long before. The same
process runs requests, the sweep and a worker and may die between any two
statements. Provider calls are not idempotent on our side. The pipeline has
three stores (Postgres rows, stream, pending list) that are updated one after the
other, and recovery depends on idle times and backoff.

What makes it correct: no final status without the provider's answer; collateral moves
only for cause, and a retry moves it again only as often as the attempts allow; the
auction is lost only to a better bid, and a winner stays; an event that was emitted is
processed, at most once per attempt; the contract can always pay what it has locked; a
nonce is spent once; a task is listed against its fee and a fee is not taken twice for one
key; whoever pays for a result gets it; racing replicas apply every migration once; an
executor with a row is on the chain; what the browser shows as done was done.

## Modules

| Module | Models |
|---|---|
| `Marketplace` | requests, auction, sweep and completion handler over tables, outbox and provider |
| `MarketplaceProofs` | theorems about `Marketplace` |
| `OutboxWorker` | relay, stream, consumer group, worker tick, `event_consumptions` |
| `EventDelivery` | what the pipeline promises for an event, implemented by `OutboxWorker` |
| `OutboxWorkerProofs` | theorems about `OutboxWorker`, and the refinement of `EventDelivery` |
| `EscrowContract` | the Soroban contract |
| `EscrowContractProofs` | theorems about `EscrowContract` |
| `RequestGate` | `/auth/nonce`, `signatureAuth`, `idempotency` |
| `RequestGateProofs` | theorems about `RequestGate` |
| `ResultWebhook` | `publishResult`, `handleResultPublished`, `postJson` with its retries |
| `ResultWebhookProofs` | theorems about `ResultWebhook` |
| `TaskFlow` | the browser's run, `api.ts`, and the server's side of its calls |
| `TaskFlowProofs` | theorems about `TaskFlow` |
| `Startup` | replicas: migrations, `createApp`, the consumer group, `listen` |
| `Registry` | the registry contract, its deploy script, `POST /executors/register` |
| `Deployment` | composes `Startup` and `Registry` through `.env` |
| `DeploymentProofs` | theorems about `Startup`, `Registry` and their composition |
| `Amounts` | parsing and formatting of USDC, the listing fee, the confiscation shares |
| `ListingFee` | `POST /tasks`: MPP gate, signature, key, both handlers |
| `ResultPayment` | the x402 gate, `payForResult`, `getResult` |
| `Payments` | composes `ListingFee` and `ResultPayment` at one server |
| `PaymentsProofs` | theorems about both routes and about `Amounts` |
| `MC*` | symmetry sets and sample prices for TLC |

### Marketplace

A handler is a process with a program counter `pc[p]` and a `job[p]` holding the
rows it has read; **each await is one action** and everything between two awaits
belongs to the earlier one. `Arrives` holds the first actions of the requests and
of the sweep, `Continue` the others, in the order of the code: `Create*`,
`Bid*`, `Select*` (shared by a bid and a select request), `Complete*`, `Sweep*`,
`Worker*`. `tasks` and `bids` are the tables (a task is its status, the only
column that changes), `escrow`, `released` and `confiscated` count what the
provider accepted, `outbox` and `completion` are the events, `consumption` the
rows of `event_consumptions`.

- Identifiers from `randomUUID` are the request that draws them. A completion
  event carries the task; its `escrowId` is only checked to be there.
- `Release` and `SweepConfiscate` succeed, are answered with `success: false`, fail, or
  (with `ReplyLost`) act and fail. Nobody reads `success` (`workerService.ts:94`,
  `taskController.ts:285`, `timeoutService.ts:46`), so the handler goes on as if the money
  had moved; `refused` is the history of such answers. `BidCreateEscrow` may likewise be
  answered without an escrow. `confiscated` counts accepted calls: with Trustless Work a
  call raises a dispute that is resolved elsewhere. Whether Trustless Work refuses a second
  release is not visible in this repository, and the mock does not: the model accepts it.
- `StatementFails` is an await that throws: 500 for a request, the end of a
  sweep, `markFailed` for the worker. `Restart` kills every handler and picks a new
  `EXECUTOR_DENYLIST`; with `UseOutbox = FALSE` (no Postgres) it empties the tables.
- `markSucceeded` may throw after it committed: the catch block then marks the row FAILED.
- `WorkerStart` delivers any event `tryStart` admits, once or again; how the
  pipeline gets there is `OutboxWorker`'s subject. Backoff only delays and is left
  out here, so the worker may start earlier than the code would.
- Requests refused before they read a table (400, 403, 503), the feed, presenters
  and read-only routes leave no trace. The registry lookup between the two reads of
  `BidFindTask` is folded into it: `Registered` does not change in a behaviour.
- The in-memory `findByTaskId` returns bids in the order of their first save;
  `IsWinningBid` leaves the order open in that mode.

### OutboxWorker

A worker is a record: await, phase of the tick (`publish`, `claim`, `poll`,
`retry`), rows and entries still to handle, and the `claiming` flag of its
consumer. The stream is the log of all entries, `first` the oldest that trimming
left, `delivered` the group's position, `pel` the pending entries. `retries` lists
the FAILED rows by `next_retry_at` and `due` counts those whose time has come, so
backoff is an order and no clock. `Throws` is an await that throws, before or after its
statement was committed (`DoneUnanswered`), and `Thrown` says where the code goes on (the
catch and finally blocks); so a `markSucceeded` that commits and throws is followed by
`markFailed`, and the event is run again. `Crash` loses the
process and its memory. Any subset of the pending live entries may be idle long
enough for `XAUTOCLAIM` (`AutoClaim`). One event type stands for the two that have
a handler; the handler takes effect or throws, possibly after taking effect.
`effects` and `dropped` are history variables: how often a handler took effect, and the
events whose worker was cut off where nothing brings them back (see `NeverForgotten` under
the disagreements; `OnItsOwn` is the case of a crash). The batch of 50 rows and the cursor of
`XAUTOCLAIM` are left out: both only postpone work to a later tick. `MaxFaults` and
`MaxEntries` are bounds of the model.

`EventDelivery` is the abstract specification, for any number of runners: an event is
absent, waiting, running or done; a runner begins it, sees it take effect, records success
or failure, falters or dies. An event is begun at most `Limit` times, takes effect at most
once each time, and is done only by a runner for whom it took effect. Success is **not**
final: `tryStart` admits PROCESSING rows, so two runners may have the same event, and one
that still works on it may report a failure after the other's success, or after its own
success of which it was not told. `OutboxWorker!Delivery` instantiates it: `state` and
`tries` are read off `event_consumptions`, the runners are the workers, and outbox rows,
stream, pending entries and ticks disappear. `ImplementsDelivery` is the abstract
specification as a property of the detailed one.

### EscrowContract

One action per entry point, enabled exactly when the transaction succeeds: a
failing one is rolled back by the host. `deposited` is a history variable: the
token each collateral came in, which the contract does not record. An escrow id
is `keccak(nonce, length of the address)`; all addresses have the same length, so
it is the nonce. Storage archival and the `ReleaseSigner` entry, which is written
and never read, are left out. The contract is not wired into the server yet
(`OurOwnEscrowContractClientStub` throws), so it is a module of its own.

### RequestGate

Redis is three sets of keys: `nonces` (issued by the server), `spent` (the client
nonces of `TG_ALLOW_CLIENT_NONCE`) and `counters`; `records` is `idempotency_keys`.
`Command` is what an await does to a store, so that `StatementFails` can throw
before or after it took effect. `CountUp` and `SetExpiry` are `incrWithTtl` for its three
callers. All the reasons for which a request is bad before Redis is asked are
`ArrivesBad`; a bad timestamp is not among them, because the clock matters. `Handle`
is a whole handler: it answers below 500 or not, and the connection may be gone, in
which case `finish` never fires. `Tick` is always enabled, also between the check of a
timestamp and the `GETDEL` or `SET NX` that uses the nonce; `stall` is a history variable
that counts the time that passed there. `Stamp` are the timestamps clients send. The two
nonce stores do not know of each other, so `NonceSpentOnce` is stated for each of them.

### ResultWebhook

Two kinds of processes: requests in `publishResult` and workers in `postJson`. The
pipeline between them is `OutboxWorker`'s subject: any event that `tryStart` admits
may be handled, by any worker, in any order. `Post` is one HTTP attempt; what the
partner took in is a history variable, and may be more than it acknowledged. The
status of the task changes under the request's feet (`TaskMoves`). `SetStatus` may commit
and throw (`MarkThrows`). Backoff and
`Retry-After` only delay. Without `RESULT_PUBLISHED_WEBHOOK_URL` the handler does
nothing, and without Postgres there is no outbox: both are left out.

### TaskFlow

`start` of `TaskFlow.tsx` is one sequence of awaits; **a stretch between two awaits is
one action**, since React renders nothing in between. `loading`, `steps`, `taskState`,
`result` and `error` are the states of the component, `wire` is the request in flight
and `waited` the time of the poll in sleeps. `Serve*` is the server's side of the
calls, reduced to what an answer depends on: a bid, a result and a completion are served in
steps, because what they have read may change before they save. `Auction*` is `selectWinner`
with one action per await, for the run's own bid and for rivals, and `auction` says where
each of the two is and which pending bids it has read; so a rival's auction may save the
run's SELECTED bid as REJECTED. Every call may be refused and every answer lost. The worker
and the sweep save what they have decided, whatever has happened meanwhile.
Off the local network `ServeCreate` never happens: the
MPP gate wants a payment and `api.ts` sends none, so these runs end with the error
panel. The amounts, the log and the clock of the run are left out.

### Startup, Registry, Deployment

`Startup` is `main`: read `.env`, read `schema_migrations`, run the files that are
missing in one transaction each, `createApp`, create the consumer group (on replicas
with the worker), listen. `schema` counts how often a file's SQL was committed. The
DDL of a file takes locks, so `RunSql` waits for another replica's transaction
(external behaviour of Postgres); the primary key of `schema_migrations` then makes the
second insert fail and the process ends. `Dies` is an error in `main` or a crash.
`MOCK_EXTERNALS`, which replaces the registry on the local network, is left out, as is
a start without Postgres.

`Registry` has the contract (`register_executor`, `is_registered`), the deploy script
as three awaits, and the request: on the local network the server submits the
transaction, elsewhere it looks the executor up. `registerExecutorFails` submits or not
and loses the reply; `Retry` is `withRetry`, for an error that may or may not look
transient. `Deployment` joins them: a replica keeps the contract id that was in `.env`
when it started (`Starts`), so a redeploy separates replicas, and a request dies with
its replica (`Fails`).

### Amounts, ListingFee, ResultPayment, Payments

A decimal is a record of its digits and its number of places, so parsing, formatting
and both roundings are arithmetic; a tie of `Math.round` on binary fractions may go
either way, so `Rounded` is a set. `price`, `network` and `paused` are chosen once.
`ListingFee` follows the order of `app.ts`: off the local network the payment gate comes
**before** the signature (401, 429, 503), the key (400 without one, 409 with one of another
request) and the pause. The server runs in `Instance` copies: `mppx` is the memoised promise
of each, kept whichever way it settles, and `spent` its gate's store, in memory; the
database is shared. Without one (`database`, on the local network only) the idempotency
middleware is a pass-through. `paid` are the payments requesters have made; `charged`,
`missed` and `listed` are history. On the local network `chargeListingFee` transfers,
`transferFails` is a transaction that is included and fails, which the code takes for a
transfer, and `chargeListingFeeFails` is a network error before or after the transfer,
retried. `signatureAuth` and the key's hash checks are `RequestGate`'s subject: here a
signature passes or does not, and `OthersStore` is the key of another request.
`ResultPayment` keeps `initPromise`, which is dropped when it fails. A reader in `policed`
has a `PolicyService` and knows the executor's key; the others pay unasked, as
`x402PaymentService.ts:49` has it. The x402 middleware settles after the handler, and only a
2xx; a process may end after the payment was settled and before the answer.
`Payments` composes the two at
one process; since they share nothing else, `route` says which of them a behaviour is
about.

## Runs

| Run | Expect | What it shows |
|---|---|---|
| `mp_race` | pass | one task, two bids, complete, sweep and worker, two handlers at a time, one failure or restart, lost replies, answers without success: settled statuses were answered, collateral moves for cause, redelivery releases at most once per attempt, losers are beaten by older bids (the amounts are equal here) and the winner survives overlapping auctions |
| `mp_live` | pass | no failure but refusals by the provider: when all handlers are through (`AtRest`) auctions are decided, statuses announced and escrows backed by bids; under `FairSpec` completions finish |
| `mp_memory` | pass | the mode without Postgres, where `complete` releases in the request, with a select request and two amounts: settled statuses were answered and losers are beaten by lower or older bids |
| `esc_solvent` | pass | one token: solvency, finality |
| `ow_kept` | pass | two workers, every await may throw before or after it took effect, crashes anywhere, three attempts: a relayed event is forgotten only where it was trimmed or `dropped`, effects are bounded by attempts, and the pipeline with both workers implements `EventDelivery` |
| `ow_one` | pass | one worker, every await may throw, crashes anywhere, pause allowed, under `FairSpec`: an event that is neither orphaned nor starved is settled |
| `rg_gate` | pass | one nonce request, two requests, both nonce settings, one fault, time passing at every await: a nonce passes once per store unless a request stalls too long, stored answers go to the same call only and stop further runs, limits end |
| `wh_nested` | pass | two publications, two workers, two faults: posts are bounded by the product of the retries, success means receipt, the last result is announced |
| `tf_run` | pass | two runs of the browser, both networks, with and without a worker, rival auctions interleaved with the run's own, refusals and lost answers: the timeline is in order, done means served, what is shown was reached, a result within the time limit means settled, every run ends |
| `dep_start` | pass | two replicas (one with a worker), two migrations, two runs of the deploy script, two registrations, a death and a failed call: migrations are applied once and before anybody listens, the group misses nothing, rows are on the chain and honoured, replicas listen in the end |
| `pay_fee` | pass | two creations at two instances, with and without a key and a database, five prices, both networks, two failures, a restart: tasks are paid for unless the transfer failed on the chain, a key is charged once unless something failed or overlapped, a fee taken lists a task or is followed by a named refusal, amounts are exact up to their roundings |
| `pay_read` | pass | two readers, with and without a policy, two failures, a restart, under `FairSpec`: readers pay for what they get, whoever asks a policy pays no unregistered executor, and results are obtained |

These twelve runs pass. Twelve more configurations, one for each promise of the documents
that the code does not keep, have a counterexample: they are listed under the disagreements.
A property is often a conjunction of named parts: `AtRest` of `AuctionSettles`,
`StatusAnnounced` and `CollateralHasBid`, `MigratedOnce` of `AppliedOnce` and
`ServesMigrated`, `AmountsAreRounded` of `FeeIsNearest` and `SharesNearlyAddUp`, and
`RowsAreHonoured` includes `RowIsOnChain`. The type
invariants of `Marketplace`, `EscrowContract` and `ResultWebhook` are theorems of their own; the
others are conjuncts of properties of their runs (`EffectsBounded`, `ReplayIsFaithful`,
`TimelineInOrder`, `MigratedOnce`, `RowsAreHonoured`, `TasksArePaid`,
`ReaderPaysForResult`).

**Bounds.** One task suffices for `Marketplace`: handlers of different tasks share
only the sweep's list and the worker, neither of which looks across tasks. Two
bids give overlapping auctions, decided by age in `mp_race` and `mp_live`, which have one amount, and by
amount and age in `mp_memory`, which has two; two
handlers in flight give every pairwise overlap (`MaxInFlight`), and a third waits
at its start. A select request runs the auction that every bid runs too; it is in
`mp_memory`. `MaxAttempts = 2` reaches success on retry and exhaustion. One fault
per behaviour (`MaxFaults`) is one crash or failed statement; refusals and lost
replies are not counted. In `OutboxWorker` two events, two workers and two to five
entries reach duplicates, redelivery and reordering; `ow_kept` has three attempts, because
with two a worker with a stale claim has always used up the last one; and its two workers
are what the refinement is about. In `EscrowContract` three
escrows of 7 units with shares 0, 7000, 9999, 10000 and 10001 basis points reach
the remainder, the overflow (`MaxI128` is 50000) and the refused share; the lock
lasts one ledger. In `RequestGate` two requests of two signers share one
idempotency key and one granted nonce; with timestamps of 1, a window of 1 and a nonce life of 2, `MaxTime = 3` has both edges
inside and lets a request stall past the life of a nonce, and the limits 1 and 2 are
passed. In `ResultWebhook`
two publications of different hashes meet two workers, each with two posts per
attempt and two attempts. In `TaskFlow` two runs show what the first leaves to the
second, and a time limit of two sleeps is met and passed. In `Deployment` two replicas
race for two files; two contracts and two runs of the script give a redeploy, one
retry a lost reply that is repeated. In `Payments` two requests share a key or do not,
one payment is offered twice, at one instance of the server or at both, `pay_read` has the
readers at one price, and `MCPrice` holds five prices: 0.0000099 and 0.00001
USDC on the two sides of the smallest fee, 12.345 with half a cent, 0.05, whose shares
are ties, and one with eight places, which is refused. `CHECK_DEADLOCK FALSE` is set where only a bound
(`MaxLedger`, `MaxEntries`, `MaxTime`) stops the system, or where every client has
had its answer.

**Fairness.** `Marketplace!FairSpec`: a started handler takes its next step (the
event loop runs what is ready and every await ends, in a value or an exception)
and the worker, which ticks every two seconds, starts what it may. Requests and
sweeps need not come. `OutboxWorker!FairSpec`: a dead process is started again, a
running one keeps ticking, time passes, and an entry that stays pending is at some
point idle for 30 s when the worker asks. The latter is strong fairness of
`AutoClaim` with all claimable entries, since the worker is at that await again
and again, not all the time. `TaskFlow!FairSpec`: a call is answered or fails and the
browser goes on; nothing is assumed of worker, sweep and rivals. `Deployment!FairSpec`:
a supervisor starts what has died and `main` goes on. `Payments!FairSpec`: promises
settle, and a reader that failed asks again; no request has to be made or served.

Two of these are assumptions about operation, not about the code: a replica that has died
is started by somebody (`docker-compose.yml` gives the app no restart policy), and a reader
that failed asks again. `RunEnds` takes every fetch of the browser to be answered or to
fail; `api.ts` sets no time limit of its own.

**Symmetry** is used in safety runs only; requests of a kind, events, workers, instances and
accounts are interchangeable.

### Disagreements between code and documents

Each of these configurations checks one promise, stated as a property, and TLC answers it
with a counterexample. Run them by hand (`tlc -config mp_two_winners.cfg MCMarketplace`);
they are not part of the runs above.

| Configuration, module | Promise, and where it is made | What the code does |
|---|---|---|
| `mp_lost_request`, `MCMarketplace` | `CompletionNeverLost`: "queued through the Outbox before the HTTP transaction commits", it "can't be lost" (`README.md:189-191`), "written in the same transaction as business state" (`README.md:651`), "inside the same Postgres transaction" (`docs/architecture.md:84`) | two statements (`taskController.ts:296`): a crash between them leaves a COMPLETING task that nothing completes |
| `mp_double_release`, `MCMarketplace` | `ReleasedOnce`: "nothing double-fires" (`README.md:16-17`), "effectively exactly-once per handler" (`README.md:192-194`, `:653`), a redelivered event returns "without re-executing effects" (`docs/adr/0001`, line 19) | the release comes before the save (`workerService.ts:94`); when the reply is lost the retry releases again. `ReleasesBounded` is what holds |
| `mp_two_winners`, `MCMarketplace` | `AtMostOneWinner`: "picks a winner" (`README.md:5`), "the first valid bid as the winner" (`bidController.ts:145`), "Lowest-bidder-wins" (`trust_bid (1).md:52`) | `auctionService.ts:31`: two auctions read the task OPEN and different bids, and each selects. `LosersAreBeaten` and `SelectedSurvives` are what holds |
| `mp_stale_expiry`, `MCMarketplace` | `ExpiredWasAssigned`: "any task still ASSIGNED past its deadline" (`timeoutService.ts:13-16`) | the sweep saves the rows it listed before (`timeoutService.ts:35`, `:62`): it expires a task that was completed meanwhile |
| `mp_unpaid`, `MCMarketplace` | `CompletedIsPaid`: "escrow releases on completion" (`README.md:31`) | `success` of the answer is not read (`workerService.ts:94`). `SettledWasAnswered` is what holds |
| `esc_two_tokens`, `MCEscrowContract` | `AlwaysClaimable`: `claim_timeout` is "permissionless after 14d of ledger", "100% to the requester" (`docs/adr/0002-on-chain-strategy-registry-immutable-escrow-saas.md:11`) | the token of the last `create_escrow` settles every escrow (`lib.rs:128`) |
| `ow_paused`, `MCOutboxWorker` | `PausedLosesNothing`: "resumes where it left off with zero data loss" (`.env.example:77-78`), "no event is lost" (`workerService.ts:290-291`) | a paused worker keeps relaying, and MAXLEN trims what nobody has read (`outboxPublisher.ts:31`) |
| `rg_two_stores`, `MCRequestGate` | `NonceOneTime`: "consumed with `GETDEL` (one-time)" (`README.md:649`), "nonces are one-time" (`README.md:525`) | what GETDEL took is unknown to the other store: with `TG_ALLOW_CLIENT_NONCE` the message passes once more (`signatureAuth.ts:186-196`) |
| `wh_late_result`, `MCResultWebhook` | `ResultsWhileAssigned`: 409 when "Task not ASSIGNED, or no selected bid." (`app.ts:734`) | the status is read awaits before the result is written (`executorResultController.ts:55`, `:86`) |
| `pay_unpaid`, `MCPayments` | `ListedIsPaid`: "Requester publishes a task (pays a 0.5% USDC listing fee via MPP)" (`README.md:552`) | a transfer that was included and failed counts as paid (`mppChargeService.ts:101`); `registryService.ts:78-79` does read the result |
| `pay_no_key`, `MCPayments` | `KeyRequired`: "`Idempotency-Key` is **required** for any state-mutating call." (`README.md:483`) | without Postgres the middleware is a pass-through (`app.ts:121`) |
| `pay_shares`, `MCPayments` | `SharesAreTheCollateral`: the funds are split "70% requester / 30% marketplace" (`trust_bid (1).md:98`) | each share is rounded to cents (`escrowService.ts:338-339`): 12.345 becomes 8.64 and 3.71 |

One more is visible in `TaskFlow` without a property: `README.md:522-524` has the client reuse
the timestamp that `/auth/nonce` returned and not its own clock, while `api.ts:41` signs with
`Date.now()`, so that signed calls of the frontend pass only when the two are the same
millisecond. And a comment that agrees with its code: `mppCharge.ts:106-109` says that several
instances let a payment pass several times, which `TasksArePaid` counts.

What the properties of the runs except, and why:

- `SettledWasAnswered` says that the provider answered, not that money moved, since the code
  does not look. It holds under every overlap, because a handler that saves a
  final status has had the answer itself.
- `LosersAreBeaten` and `SelectedSurvives` need distinct `createdAt` values
  (`SameMillisecond = FALSE`): with equal stamps and equal amounts two auctions may each
  reject the other's winner. Both are about Postgres: without it a restart empties the tables.
- `AtRest` is about behaviours in which nothing fails. A crash between the saves of an auction, or between
  COMPLETED and its event, or between an escrow and its bid, leaves what no code repairs.
- `NeverForgotten` has two exits. A trimmed entry (`n < first`): what is trimmed while
  consumption is paused is gone although its row is marked processed. And `dropped`: a row
  that is PROCESSING without a pending entry behind it is listed by nobody. That happens
  when `markFailed` throws and the finally block acknowledges what could not be recorded,
  when the process dies in the retry loop or `findById` throws there, and when it dies at
  work on an entry that a second worker, which was refused by `tryStart`, has acknowledged
  or is about to.
- `EventsAreSettled` speaks of a worker that is not paused for good and whose `claiming`
  flag does not stay set (it is set outside the try block, so an `XAUTOCLAIM` that throws
  leaves it), and has two more exits. `Orphaned`: a row was left
  PROCESSING with no entry of the stream to bring it back, and nobody lists it. `Starved`: FAILED rows that
  have used up their attempts stay due (`eventConsumptionRepository.ts:157` does not
  filter them) and can fill the list of 25.
- `NonceSpentOnce` admits one exception, for a client nonce: a request that was held up
  between the check of its timestamp and `SET NX` for longer than the nonce's life exceeds
  two windows. With 600 s and 2 x 300 s that is any time at all, at the very edge of the window.
- `LimitsLift` holds until something fails: a failure between INCR and EXPIRE leaves a
  counter that never ends. `LatestAnnounced` likewise: a failure between the upsert and
  the outbox insert leaves a result that nobody announces.
- `NoNewRuns` speaks of a stored answer: requests that overlap, or follow before the
  insert is done, all run the handler.
- `ShownHappened` excepts an ASSIGNED that was shown while the auction had failed, and
  a result after a poll that ran into its time limit: the panel then says "task
  settled" of a task that is COMPLETING. `DoneWasServed` says that a bid was SELECTED once,
  not that it still is.
- `PaidIsListed` excepts what is refused behind the gate on testnet and pubnet: the fee is
  paid, and the answer is 400, 401, 409, 429, 503 or a replay. `TasksArePaid` counts, for the
  fee, transfers that failed on the chain and, for a payment, instances and restarts.
  `ChargedOncePerKey` is about the local network with Postgres, counts failures (the transfer
  is retried) and excepts overlapping requests of one key.
- `ReaderPaysForResult` says of readers that ask a policy that they pay no unregistered
  executor. The others, as `x402PaymentService.test.ts:97-113` wants it, ask nobody.
- `RowIsOnChain` has no converse: when the reply of a registration is lost, the retry is
  told "already registered", the request ends in 409 and the executor has no row.
- `RowsAreHonoured` excepts a registry that was deployed anew: any error of the lookup makes
  the script deploy another, empty one, and from then on an executor with a row is unknown
  to the replicas that have started since. "Honoured" is the registry's answer: the denylist
  of a replica is another matter.
- `Solvency` needs one token, and payees other than the contract itself.

## Theorems

| Theorem | States |
|---|---|
| `MarketplaceProofs!Invariance` | the inductive invariant `IndInv` |
| `MarketplaceProofs!TypeCorrect` | `TypeOK` |
| `MarketplaceProofs!SettledStatusWasAnswered` | `SettledWasAnswered`, in both modes |
| `MarketplaceProofs!CollateralMovesForCause` | `SettlementJustified`, with the outbox |
| `MarketplaceProofs!AuctionInvariance`, `WinnerSurvives` | `SelectedSurvives`, with the outbox and distinct `createdAt` |
| `MarketplaceProofs!LosersTheorem` | `LosersAreBeaten`, with the outbox and distinct `createdAt`, whatever fails |
| `MarketplaceProofs!ReleasesWithinBudget` | `ReleasesBounded`, with the outbox |
| `MarketplaceProofs!RestTheorem` | `AtRest`, with the outbox, distinct `createdAt` and nothing failing, for any number of overlapping handlers |
| `OutboxWorkerProofs!EffectsTheorem` | `EffectsBounded`, with the type invariant |
| `OutboxWorkerProofs!ForgottenTheorem` | `NeverForgotten` |
| `OutboxWorkerProofs!DeliveryTheorem` | `ImplementsDelivery`, for any number of workers: the refinement of `EventDelivery` |
| `EscrowContractProofs!SplitIsExact` | the shares are non-negative and add up |
| `EscrowContractProofs!EscrowTypeCorrect` | `TypeOK`: no overdraft, no nonce reused |
| `EscrowContractProofs!EscrowSettlementFinal` | `SettlementFinal` |
| `EscrowContractProofs!ContractIsSolvent` | `Solvency`, for one token and payees other than the contract |
| `RequestGateProofs!NonceTheorem` | `NonceSpentOnce`, for any window and nonce life |
| `RequestGateProofs!ReplayTheorem` | `ReplayIsFaithful`, with the type invariant |
| `RequestGateProofs!LimitsTheorem` | `LimitsLift` |
| `RequestGateProofs!NoNewRunsTheorem` | `NoNewRuns` |
| `ResultWebhookProofs!WebhookTypeCorrect` | `TypeOK` |
| `ResultWebhookProofs!DeliveryIsReal` | `SucceededWasReceived` |
| `ResultWebhookProofs!LastResultIsAnnounced` | `LatestAnnounced` |
| `ResultWebhookProofs!PostsWithinBudget` | `PostsBounded` |
| `TaskFlowProofs!TimelineTheorem` | `TimelineInOrder`, with the type invariant |
| `TaskFlowProofs!ServedTheorem` | `DoneWasServed` |
| `TaskFlowProofs!ShownTheorem` | `ShownHappened` |
| `DeploymentProofs!MigratedTheorem` | `MigratedOnce` |
| `DeploymentProofs!GroupTheorem` | `GroupSeesAll` |
| `DeploymentProofs!HonouredTheorem` | `RowsAreHonoured` |
| `PaymentsProofs!TasksTheorem`, `PaidTheorem` | `TasksArePaid`, `PaidIsListed` |
| `PaymentsProofs!ChargedTheorem` | `ChargedOncePerKey`, for any number of requests of a key |
| `PaymentsProofs!ReaderTheorem` | `ReaderPaysForResult` |
| `PaymentsProofs!AmountsTheorem` | `AmountsAreRounded`, for every decimal price |

**Assumptions.** The theorems hold for every value of the constants that satisfies the
assumption of its module (`ConfigAssumption`, `WorkerAssumption`, `EscrowAssumption`,
`GateAssumption`, `WebhookAssumption`, `FlowAssumption`, `StartupAssumption`,
`RegistryAssumption`, `FeeAssumption`). They give the constants their types and keep the
names of different kinds of processes, and `None`, apart. Two say more: `GateAssumption` has
the clients' timestamps on the model's clock, and `FeeAssumption` has prices that are
decimals and finitely many instances. TLC evaluates them on every run. No other set is
assumed finite. The bounds of the runs are
parameters: a theorem holds for each of them, hence for behaviours with any finite number of
faults and any number of handlers, workers and requests. Where a theorem has a hypothesis of
its own (`UseOutbox`, distinct `createdAt`, one token, nothing failing), the property fails
without it, and the sections above say how.

**Marketplace.** None of the properties is inductive: a handler about to save
COMPLETED relies on a release several awaits ago. `IndInv` therefore adds
`HandlerInv`: for each program counter, what the handler relies on (`Relies`): a task
that was saved, a bid of that task that was chosen, a release or confiscation that
was answered, a completion request in the table. These facts hold whoever else runs,
because no step takes them back (`Frame`): rows are not deleted while Postgres is
there, a chosen bid is never PENDING again, counters only grow. `OnceInv` says a
request that is over does not start again, so that a bid's row is created once.
The proof has one step per action and under it one per conjunct the action can
disturb.

**Auctions.** Two overlapping auctions may each reject bids. `MarketplaceProofs` orders
bids by amount and then `createdAt` (`Before`), a total order when stamps are
distinct (`StampInv`). `WinnerInv` says that an auction's winner is before all the
bids it will still reject; so whenever a SELECTED bid is rejected by another
auction, that auction has itself selected a bid before it, which survives. `LosersAreBeaten`
rests on the same: an auction saves its winner before it rejects anybody (`Led`), and a winner
that is itself rejected later had a better one, so following the order up from a loser there
is always a SELECTED bid.

**Completions.** `RestTheorem` needs that a COMPLETING task has its event when nothing failed:
it becomes so by a request that emits next (`CompleterInv`), and only the two settled statuses
follow. For
`ReleasesBounded`, `BudgetInv` counts: the releases of an escrow and the handlers that
may still release it together are at most the attempts granted (`Admitted`), which
`tryStart` increases by one with every handler it starts. A lost reply, a failed save
and a restart take a handler out of the count and give no attempt back.

**At rest.** With overlap there is no telling what a handler finds. `RestInv` says that whatever
is not in order has a handler under way that will see to it: an OPEN task with a saved bid
has a bid handler before its auction's read, a sold task without a winner an auction
before its save, a settled status without its event a handler about to emit, collateral without a bid
a handler about to save one. `Knows` records what such a handler still holds to be true. A winner,
once there, stays by `WinnerKept`, the step of `WinnerSurvives`.

**Pipeline.** `EffectInv` is the same count for any handler: effects plus the workers
that may still take effect (`Starters`) are at most the attempts. `KeptInv` is what
`NeverForgotten` needs in each step: the event of every entry is settled, waits for a retry,
is at work, is dropped, or has an entry that brings it back, which is one that is unread,
trimmed, or pending with nobody about to acknowledge it (`BringsBack`). The last condition is
what a plain "pending" lacks to be inductive, and what showed that the property
held only because two attempts are few: with three, a worker can die at work on an entry
that another, turned away by `tryStart`, acknowledges. `RetryInv` has `retries` without
repetitions, so that a row is removed from it by one `RemoveAt`.

**Refinement.** `DeliveryTheorem` maps every step of every worker to a step of `EventDelivery`
or to none: an insertion, `tryStart`, the effect of a handler, the two outcomes, a throw and a
death are its actions; relay, stream and pending entries disappear. What a worker is at
(`Doing`) is its runner's state, so nothing has to be assumed of the others: a row may be
SUCCEEDED while a second worker is still at work on it. An await that throws after its statement
was committed is the step of the statement together with the way into the catch block.

**Contract.** `IndInv` is `TypeOK` and that a token is set once a nonce was used. A sum over
the escrows would need an induction over a set that the provers here cannot do; so
`TotalLocked` counts the units of the collaterals, each a pair of an escrow and a number
(`Units`). A new escrow adds a set of pairs that is disjoint from the others, a settlement
takes one away, and the two shares of a confiscation add up to it (`SplitIsExact`).

**Requests.** `NonceInv`: a nonce the server granted and `GETDEL` has taken is not in Redis
and never again, since a grant stores once; a client nonce that was spent is remembered
for its life, and a request that is past the check of its timestamp has been there for no
longer than its `stall` (`Fresh`), so the life ends before the timestamp does only when
somebody stalled. `RecordInv`: a stored answer is the one of
a request that is past its handler, with the same key, signer and call.

**Results and webhook.** `SucceededWasReceived` needs that a worker about to write
SUCCEEDED has had its 2xx (`SuccessEarned`), and the bound on retries that one who
sleeps has one left (`RetryLeft`). `LatestAnnounced` rests on the order upsert, read
back, emit: whoever wrote the row last has still to read it, and a request emits once,
as its last step (`EmittedAtEnd`). For `PostsBounded`, `Open` are the posts that calls
under way may still make, pairs again: posts made and posts open are together at most the
attempts granted times `MaxRetries + 1`.

**Browser.** `StageInv` gives the timeline that belongs to each place of the run, `AnswerInv`
says that a call answered with success has had its effect, and `ReachedInv` that an answer
carries a status the task had: the rest follows, whatever rival, worker and sweep do.

**Start-up and registry.** `LoopInv`: a replica has read only rows that are still there, and
the files before the one in hand are applied; `OneTransaction`: one of them at a time is
between its SQL and its commit. `GroupInv`: entries are added by workers that have created
the group, so it begins at 0. `RowInv` and `RequestInv`: a row, and a request about to save
one, rests on a registration in a contract that was in `.env`; if there was only one, it is
the one every replica asks.

**Payments.** Where a request stands says what it was charged and what became of it
(`LocalInv`, `GateInv`, `RequestInv`). `SpentInv` bounds the requests let through for one
payment by the lives of the stores it was shown to, and `MissedInv` those that went on without
a fee by the failures. `KeyInv`: of the fees paid under a key that no
two requests used at once, all but one are paid for by a failure or a restart, and that one
has its answer stored or a request that is about to store it. `ReaderInv` accounts for every settlement
beyond the one delivery with a failure or a restart. The theorem on amounts is arithmetic: division
with remainder, and that the number of places `formatUsdcStroopsToDecimal` keeps is the least
that loses nothing.

**Only model-checked.** Liveness under fairness (`CompletionFinishes`, `EventsAreSettled`,
`RunEnds`, `EventuallyListens`, `ResultObtained`) is beyond the prover. Every invariant and
every action property of the runs has a theorem, under the hypotheses in the table.
`SettledWasAnswered` is proved with and without Postgres, the other properties of
`Marketplace` with it. The promises of the documents are refuted by TLC; nothing is proved
of them.

## Plan

1. `LosersAreBeaten` and `ReleasesBounded` in memory mode, where a restart empties the tables.
2. `Marketplace` behind `RequestGate`: a client that repeats a request with its key.
3. `EscrowContract` with a token per escrow, once the contract records it.

## Not modelled

Wiring, presenters, OpenAPI and the parsing of the environment; metrics, logs and
health checks; the task feed, an in-process emitter whose errors are caught and on
which no state depends; the insides of the payment libraries (MPP Charge, x402) and of
the Stellar SDK wrappers; `createEscrowProvider`, which no code calls, and the stub it
returns; rendering, log and copy buttons of the frontend; the scripts other than
`deploy-registry.ts`, and the demo video. `PROJECT.json` lists each with its
reason.
