# Livora API in TLA+

A verification project for the Livora API service: a NestJS back end over
PostgreSQL (Prisma), Redis and BullMQ, with a Soroban token contract. Households
ask for their recyclables to be collected, centers offer tariffs, collectors
take the requests, verify a PIN at the door and bring batches to the centers;
tokens are paid on chain and spent in stores.

Source paths below are relative to the repository's `src/` unless they start
with `contracts/` or `prisma/`.

## Inventory

| Part | State | Operations | Hard behaviour | What makes it correct |
|---|---|---|---|---|
| Collection lifecycle (`collections/services/collection-lifecycle.service.ts`) | `collection_requests`: status, collector, center, guarantee, batch, stamps | create, accept, cancel, abandon, edit, no-show, reject on site, rate | every endpoint reads the row, awaits, and writes by primary key; nothing locks the row | no service without a center, no guarantee without a collector, no fine without a visit |
| Auctions (`collection-auction.service.ts`) | `acopio_bids`, center and rates of a request | submit, withdraw, select a bid; claim a request | two selections at once, bidding again, fallback after 15 minutes | one accepted bid; an auction ends |
| Guarantees and rewards (`collection-escrow.service.ts`, `strategies/reward`) | `escrowLocked`, on-chain balance, deposits | required guarantee, solvency check | check then write; unreadable balance reads as 0 | guarantees covered by the balance |
| Tracking (`collection-tracking.service.ts`) | EN_ROUTE/ARRIVED stamps, Redis `collection:active:<id>` | start route, telemetry, arrival | cached authorisation outlives the row it was read from | a route has a collector |
| PIN verification (`collection-verification.service.ts`, `pipeline/`) | Redis lock and attempts, `batches`, balances | verify: chain, two payments, batch, completion | lock with a TTL that a slow chain outlasts, payments before the completing UPDATE, failing calls | one verification at a time and one more per lock that ran out; completed means batched and paid once |
| Timeout worker (`workers/collections-timeout.worker.ts`) | rows returned by its queries | four scans a minute | writes by id from a stale result; crash between two writes | unclaimed, auctioned and arrived requests do not stay |
| Batches (`batches/`) | `batches`, disputes, consolidations | open, dispatch, receive, flag, dispute, reroute, consolidate, settle | two weighings at once; a job that is delivered again after its commit | the weight that reaches the stock was tolerated or approved, and reaches it once |
| Job processor (`blockchain/blockchain.processor.ts`) | BullMQ jobs, dead-letter queue | batch, mint, redemption, settlement and refund jobs | redelivery after a crash, retries after partial success | every job ends; what it repeats is accounted for |
| Soroban client and sequence manager (`blockchain/services/`) | channel-account leases, account locks, sequence numbers, transactions under way | build, simulate, send, poll, lease, lock | polling gives up before the transaction expires; leases and locks time out; several processes share the channels | what is reported done is applied; collisions have a cause; requests end |
| Contract (`contracts/ecotoken_registry`) | balances, allowances, nonces, batches, tariffs | transfer, mint, register batch, notarize, delegated transfer | split with remainders, signatures brought in any order | supply equals the balances; a batch is rewarded once; a signature is used once |
| Stores (`stores/services`) | redemptions, settlements, cached balances | QR, confirm, refund, expire; request, approve, pay, reject | commit then enqueue; double refund, double payment | one transfer per redemption; settlements covered |
| Deposits (`payments/`) | `payment_transactions`, mint jobs | session, gateway notification, mint, administrator's repetition | crossing and repeated notifications, crash between commit and enqueue, a failure that cannot be written | a charge is credited or left to somebody; a second mint has a cause |
| B2B, sales, inventory | stock, movements, transfers, certificates | request, accept, receive, sell, move | stale stock reads, checks outside the transaction, two deliveries | stock is what the movements say; no certificate without a dispatch |
| Sessions (`auth/services/session.service.ts`) | refresh tokens, the list of a user's tokens, failed logins | login, rotate, invalidate, reset and change passwords | token and list are written apart; the list runs out on its own | a living token is listed, or there is a known reason |
| Registration (`auth/services/otp.service.ts`) | seven keys of an address under two schemes | register, resend, verify | one command after another, expiry of each key | the account is made of the form its code was mailed for |
| RPC failover (`stellar-rpc-manager.service.ts`) | node status, cooldowns, breakers | ask, penalise, revive, emergency node | calls that come back in any order | the counters of a node agree |
| Idempotency (`common/interceptors`) | Redis markers and stored responses | intercept | marker expires under a running handler; a handler throws after its commit | a handler commits again only if its marker ran out or it threw after it had committed |
| Users, KYC, store profiles, devices (`users/`, `admin/`, `stores/stores.service.ts`, `notifications/`) | the row of a user and its cached copies, store profile and catalogue, applications, device tokens | update, cancel (ARCO), open and edit a profile, apply, decide, activate, register a device, push | copies on several servers, decisions written from old reads | a cancelled account stays out |
| Complaints, gamification | counter of the year, rewards of the week | file, reply, claim | transactions that race for the first number or abort | numbers without gaps and repetitions |
| Audit buffer, websockets, mail, storage, routing, metrics | none that others read | output and queries | failures are swallowed | not modelled |

The parts meet in three places: the database rows, which any endpoint may write;
Redis keys with time limits; and BullMQ jobs, which the worker process delivers
at least once.

## Modules

| Module | Contents |
|---|---|
| `CollectionRequests` | the lifecycle, auction, guarantee, tracking and verification services and the timeout worker, over one set of tables |
| `MCCollectionRequests` | values of the function-valued constants, and the symmetry sets |
| `MCFieldWork` | one instance of `CollectionRequests` in four plays |
| `CollectionRequestsProofs` | the inductive invariant and its consequences, proved with TLAPS |
| `StorePayments` | redemptions, refunds and settlements in the stores, the transfer jobs of `blockchain-queue`, and the contract's balances as far as these jobs see them |
| `MCStorePayments` | balances at the start, and the symmetry sets |
| `StorePaymentsProofs` | its inductive invariant and consequences, and what buyers can pay |
| `CenterInventory` | the stock of the centers, its Kardex, movements by hand |
| `CenterBatches` | extends it with the batches and the job that books them in |
| `CenterTrades` | extends that with purchase orders, direct dispatches and sales: the whole center |
| `CertifiedTrade` | what the trade promises, abstractly; `CenterTrades` implements it |
| `MCCenterTrades` | an instance of `CenterTrades` in six scenes |
| `CenterTradesProofs` | the inductive invariant of a center, its consequences, and that it implements `CertifiedTrade` |
| `EcoTokenRegistry` | the token contract, one action per entry point that writes |
| `TokenChain` | extends it with the Soroban client, the sequence manager and the network |
| `MCTokenChain` | an instance of `TokenChain` in two scenarios |
| `EcoTokenRegistryProofs` | what every entry point of the contract preserves |
| `TokenChainProofs` | extends it with the client's invariant and the theorems about both |
| `RpcPool`, `Deposits`, `IdempotentRequests`, `Accounts`, `Registration`, `Profiles`, `Community`, `PushDevices`, `Ratings` | one service each: RPC failover, deposits, the idempotency interceptor, logins and sessions, registration codes, users with KYC, ARCO and store profiles, complaints and rewards, devices and pushes, ratings of a collector |
| `MCServices` | these nine, each in its own parts of one run |
| `AccountsProofs` | the invariants of `Accounts` and `Registration`, proved |
| `ServicesProofs` | those of the seven other services, and all nine together |
| `FiniteSums` | lemmas about sums over finite sets, used in the proofs of stores, centers and contract |

### How `CollectionRequests` corresponds to the code

*State.* `req`, `bid` and `batch` are the tables (`prisma/schema.prisma`), with
status `"NONE"` for an identity that has not been handed out. `center` stands for
`assignedCenterId` together with `agreedRates`, which the code always writes
together. `pinLock`, `attempts` and `routeMeta` are the Redis keys
`lock:verify:pin:<id>`, `attempts:pin:<id>` and `collection:active:<id>`.
`balance` is a collector's balance on chain, `score` a household's reputation in
half stars. `credited` and `compensated` count payments (up to 2) and exist only
for the properties. `session` holds what a handler keeps in local variables
between two awaits; `queried` and `todo` are the worker's cycle.

*Steps.* An endpoint is an `async` function. Its first action (`Accept`,
`StartRoute`, `Verify`, ...) is the read and the checks on it; the actions named
`...Write`, `...Check`, `...Effects` are what follows each await at which the row
may have changed. A write is `update({ where: { id } })`: it replaces columns of
whatever the row holds by then (`Update`). Where the code's `WHERE` repeats a
check, so does the action (`EditWrite`, `VerifyComplete`). A call refused before
its first write changes nothing and is not a step. `selectBid` runs in a READ
COMMITTED transaction whose second read takes no lock, so that read
(`SelectCheck`) is a step of its own; its three writes are one step, because two
such transactions lock each other's bids.

*Verification.* `Verify` takes the lock. The chain either refuses, counts a wrong
PIN, refuses the weights after the PIN was right, or passes. `VerifyPay` covers
the outcomes of the two payments: the transfer is made or not, confirmed or not
(polling gives up before the transaction expires), the mint after an unconfirmed
transfer succeeds or not, the commission is paid or not. Any call may throw
(`VerifyThrows`); the `finally` deletes the lock key without looking at who owns
it. The lock lives 30 s and each of the payments may be polled for as long, so
`LockExpires` may come at any time; when it comes under a verification, `outlived`
counts it.

*Worker.* `Tick` is the cron guarded by `isRunning`; the four `Query` steps and
the row-by-row writes of the four scans interleave freely, as under
`Promise.allSettled`. Within a scan one row is finished before the next.

*Time.* `age` counts quarters of an hour since `createdAt` (an auction ends at 1,
a pending request expires at 2), `wait` five-minute spells since `updatedAt` of an
ACCEPTED row or `arrivedAt` of an ARRIVED one. The clock steps are independent of
everything else, so every order of a deadline and a late call is possible.

*Failures.* `HandlerCrashes` loses a continuation at any point, which is also what
an exception in an endpoint other than `verifyPin` does; `WorkerCrashes` loses the
rest of a cycle.

*Abstractions.* Materials are one total weight, a tariff one price, amounts
twentieths of the value so that 25 %, 5 % and 70 % are whole; rounding to cents
is not represented. Proposals carry the center's tariff. PINs, photos, addresses,
coordinates, notifications and socket events are left out. Every collector has an
approved KYC. `rateCollectionRequest` is in `Ratings`: no other endpoint reads
what it writes. `checkAuctionFallbacks` of two services has no caller.

*Constants.* `Calls` and `Scans` select the endpoints and scans of an instance.
`CompletionColumns` says whether the table has the columns that the completing
UPDATE sets (`tokensRewarded`, `blockchainTxHash`, `completedAt`: no schema and no
migration has them, so the UPDATE always fails as things are, see `paid_twice`);
`field` and `endings` set it, to show what holds once the columns are there, and
the theorems hold for both values. `MaxOutlived` bounds how often a lock runs out
under its holder.

### How `StorePayments` corresponds to the code

*State.* `red` and `settle` are the tables `redemption_transactions` and
`settlement_requests`. `session` holds the continuations of the handlers, as
above; its `seen` is an amount read earlier (what the buyer had spent when the
locks were taken, or the balance of the store). `job` is BullMQ's
`blockchain-queue`, by kind of transfer, row and copy number, because the code
gives jobs no id and may add several for one row. `chain` and `seq` are the
balances and the next nonce or sequence number in the contract, `mempool` and
`ledger` the transactions sent and applied. `lost` marks the rows whose handler
ended between its commit and `blockchainQueue.add`; only properties read it.

*Locks.* `confirmRedemption` is the one endpoint with `SELECT ... FOR UPDATE`: on
the buyer first, then on the code if it is still PENDING. `ConfirmLock` takes both
at once, since a handler that holds only the first reads nothing yet; they are
held while the session is at `balance` or `commit` (`InTransaction`). The expiry
worker's single UPDATE waits for them. Refunds and settlements lock nothing.

*Balances.* `getBalance` of the wallet service subtracts all that was ever spent
from the balance on chain, and takes a balance of 0, or a failed read, as a sign
to use the database (`Balance`, `OnChainReads`). No code creates a row of
`accounts`, so `cachedBalance` has nothing to change. Amounts are half tokens;
a donation and an insurance add 2 and 1 (`Extras`).

*Jobs.* An attempt reads the sequence number, sends, polls and stores the hash;
it can fail anywhere, and what was sent stays sent. `JobStalls` is a worker that
dies. External, modelled from how the code uses them: BullMQ (retries up to
`MaxAttempts`, a stalled job handed out once more, then failed), and the chain,
which applies a transaction when its number is next and the sender has the
tokens, or drops it.

*Left out.* An administrator's retry of a failed job (its `dlq-` job names are
not among those the processor handles), transfers between wallets, the connection
pool, the 24-hour expiry in the service, which nothing schedules, and the bank
account that a settlement request may update.

### How `CenterInventory`, `CenterBatches` and `CenterTrades` correspond to the code

*State.* `stock` is `inventory_items.quantityKg` of a center, `None` without the
row; `ins` and `outs` are the sums of its movements, `batch`, `lot`, `job` and
`order` the tables and the queue. The three modules share the handlers in flight
(`session`), since they meet on the row of the stock. One kind of material;
weights in whole kilograms.

*Steps.* `ReadFor...` is the read and the checks, `Write...` the write by id after
the await. Transactions at READ COMMITTED whose reads take no lock are split the
same way. `acceptTransfer` alone locks the stock row (`AcceptLock`,
`AcceptCommit`), and everything that writes the row waits for it (`Unlocked`).
A row that is not there cannot be locked: the fallback reads it again, by then it may
be there, and the sums, without a lock (`AcceptRead`, `AcceptSums`, `AcceptUnlocked`).
`StoreBatch` is the one transaction of the job, `AckJob` what follows it;
`AttemptFails` is an exception before its commit (what follows only emits events and
notifications whose errors are caught; a commit whose answer is lost is not modelled),
`WorkerDies` a worker that stops,
whose job BullMQ hands out again `MaxStalls` times. A job is added under the id of
its batch, so that a second weighing adds none.

*Refinement.* `CertifiedTrade` knows a shelf per center, dispatches without a
certificate, and certificates. `CenterTrades` maps the shelf to `ins - outs` and the
open dispatches to `dispatched - certified`; `CertifiedTradeSpec` says that every
step of the code is one of the five abstract ones or a stutter.

### How `EcoTokenRegistry` and `TokenChain` correspond to the code

*Contract.* An invocation either does all or panics, so every entry point is an
action guarded by the absence of a panic. `doubled`, `minted`, `receipts` and
`relayed` are history. `AnyoneInvokes` is any account of the ledger, not only the
service, and any amount, weight or tariff may be negative where the contract does not
ask: `Quot` divides as Rust does, and `Split` mints only positive shares, so a batch of
negative reward is recorded and mints nothing. The time to live of storage entries is
left out.

*Client.* A request goes through phases: a lease of a channel in its process
(`LeaseChannel`, or none after the wait, `LeaseTimesOut`), the locks in Redis
(`TakeLock`, `SkipLock`, `LockExpires`), reading the sequence number, simulation,
sending, polling. Every question goes to one of several nodes
(`executeWithFailover`): one that is behind gives an old number (`Build`) and simulates
on an old ledger (`Behind`), and a submission that is not answered in time is made again
at the next node (`SendTimesOut`, then `ResendTaken`, or turned away as used up). No
answer may come at all (`Unanswered`), or a refusal
(`SendTurnedAway`); polling may end before the ledger does (`PollFails`). A failed
request is made again by its queue or its user (`MaxTries`). The release of the lock
and that of the lease are one step. `registerBatchWeighed` is included although
nothing in `src/` calls it; `executeFeeBumpTransaction` is not.

*Network*, external: it admits one transaction of an account at a time and only
with the next number, applies it (`LedgerCloses`) or lets it lapse (`Expires`).

### How the services correspond to the code

* `RpcPool`: `executeWithFailover` with the circuit breaker that fires it; a call
  whose caller has been answered by the breaker goes on (`CallerLeaves`). Time is a
  clock of ticks.
* `Deposits`: `createSession`, `processIzipayIpn`, the job `izipay-mint-tokens` and
  `retryPaymentMint`. The gateway is external: it refuses a card or charges it once
  per order, and notifies until it is answered, in any order. A write of
  FAILED_BLOCKCHAIN can fail like the mint it reports, and BullMQ fails a job that has
  stalled `MaxStalls` times (its default is 1) when it stalls again.
* `IdempotentRequests`: the interceptor around a handler that commits, throws (before
  its commit or after) or never returns. Redis may not answer.
* `Accounts`: the credentials, the refresh tokens and the set that lists them.
  `EXPIRE` is merged with the `SADD` before it.
* `Registration`: one address; the seven keys and the commands that write them, each
  a step. The two GETs of a cooldown are one step. The fixed code of the reviewer's
  address is left out.
* `Profiles`: the row of a user, copies of it in the memory of each server and in
  Redis, and the handlers that write the row. `personal` is all that an ARCO
  cancellation anonymises, the store profile included; `profiled` says that a store has
  a profile, which the first look at it makes for accounts older than profiles. The
  places of a catalogue are written by id, like the other columns.
* `Community`: the transaction that numbers a complaint, with the row lock on the
  counter, and the claim of a weekly reward.
* `PushDevices`: device rows and `User.fcmToken`, pushes queued and run again.
* `Ratings`: a request's rating and its collector's reputation, the score as the sum
  that it and `totalRatings` stand for. Two ratings at once can overwrite each other's
  reputation; the score stays between one star and five.

## Runs

`tlc -config <run>.cfg <module>`. Seven runs pass:

| Run | Module | Instance | Shows |
|---|---|---|---|
| `field` | `MCFieldWork` | 1 request; 2 collectors, 2 centers, 2 handlers (3 verifications), 1 crash, 1 lock that runs out under its holder, each used in the play that needs it | `IInv`, `CenterAssigned`, `HoldHasOwner`, `VisitRecorded`, `AtMostOneAcceptedBid`, `CompletedInBatch`, `OneVerification`, `RecordsKept` |
| `endings` | `MCCollectionRequests` | the whole way of a donated request, 1 handler, 1 crash; three scans; `FairSpec` | `PendingEnds`, `AuctionEnds`, `ArrivedEnds`, `LockIsFreed` |
| `tills` | `MCStorePayments` | 2 codes, 2 buyers, one of whom can pay for a single code and one for both, the second with rewards that never reached the chain, 1 store, 2 handlers; 2 attempts per job | `IInv`, `ChargedOnce`, `BuyerSolvent`, `SaleIsFinal` |
| `orders` | `MCStorePayments` | 1 code, 1 settlement, every endpoint, 1 handler, 1 attempt per job and one redelivery; `FairSpec` | `HashIsProof`, `PaidIsOrdered`, `SaleIsProcessed` |
| `centers` | `MCCenterTrades` | 2 centers, 1 batch, 1 lot, 2 orders, 2 handlers, 1 crash, 1 redelivery | `TypeOK`, `ToleratedOrApproved`, `BookedOnce`, `StockIsKardex`, `JobEnds`, `DispatchIsCovered`, `CertifiedTradeSpec` |
| `chain` | `MCTokenChain` | 2 requests in 2 processes, one of them made again when it fails, with one channel or two, `RequestStep` fair; or 3 invocations by anyone | `LedgerConsistent`, `RewardIsMinted`, `SignatureOnce`, `CollisionHasCause`, `SuccessIsApplied`, `RequestsEnd` |
| `services` | `MCServices` | two or three clients of every service | `TypeOK`, `SecondMintHasCause`, `CreditDecided`, `RepeatHasCause`, `UnlistedHasCause`, `AccountOfItsCode`, `CancelledStaysOut`, `CorrelativesGapless` |

Five runs end in a counterexample, each to something a comment or a message of
the code says:

| Run | Property | What happens |
|---|---|---|
| `foreign_verifier` | `VerifierIsCollector` | c1's verification has passed the chain when the request becomes c2's (c2's acceptance had passed its checks before, or the scan released the request); c1 pays its household all the same |
| `paid_twice` | `PaidOnce` | the payment precedes the completion; when anything fails in between, and the UPDATE itself always does with the schema as it is, the next attempt pays again |
| `double_compensation` | `CompensatedOnce` | two reports of one no-show both pass, and both transfer 2 tokens |
| `stuck_accepted` | `AcceptedEnds` | a route starts after the inactivity scan released the request; once accepted again it has `enRouteAt` set, and the scan ignores it for ever |
| `unbacked` | `PaidForSales` | once a store's tokens have all been collected its balance on chain is 0, which reads as "use the database": the sum of its sales comes back, and is settled and paid a second time |

*Several situations in one run.* Four modules keep apart what is going on in a
behaviour, so that the state spaces of the situations add up instead of
multiplying; each is a restriction of the specification's `Next`, never an
extension of it. The first is an action constraint, and the run reports every
action of `Next`; in the other three the situation is a variable, chosen at the
start, and `tlc -coverage` reports the actions below `MCNext`: each is taken, and
so is each of their branches.

* `MCFieldWork` (the household whose request it is): contention of collectors,
  center, household and worker; a visit; a verification; an auction with two
  centers. Three verifications may meet, and once one has outlived its
  lock nothing else is started and nobody crashes; a batch is dispatched where there is
  one collector, no crash and no such lock. Time passes where the play is about a
  deadline, in a verification until there is a batch and in an auction until it is over, and the scans that would
  find nothing are over before anything else goes on.
* `MCCenterTrades` (`scene`): weighings; disputes, payment in cash and lots; exits
  by acceptance, delivery, direct dispatch and sale; movements by hand against
  them; the first two movements of a center, and an acceptance and a sale that meet the
  first; lots sold while their batches are
  received.
* `MCTokenChain` (`scenario`): the contract invoked by anyone, or five pairs of
  client requests that meet at a batch, at a sender's tokens or at a sender's number.
* `MCServices` (`part`): one service at a time. Passwords apart from sessions;
  copies of a row on two servers apart from the profile of a store on one, and from the
  decision of an application, in whose part an administrator also activates and
  suspends; complaints, replies and
  rewards apart; one code with every expiry, or two calls at once with that of the
  cooldowns. Registrations are followed as long as no call that stores a code meets
  another or dies (`calm`): a form and a code of two such calls can get mixed, and
  `AccountOfItsCode` speaks of the rest. In `deposits` a second order counts towards
  the daily limit and nobody repeats a mint; in `mintAgain` there is one order, paid
  and notified once, and an administrator.

*Bounds.* One request suffices for the races on a row, since the actions of
different requests share only a collector's balance and a household's score. Two
handlers give every pairwise race of endpoints, and the worker is a further actor;
`IInv` is proved for any number of them. Two
collectors and two centers are what a replacement needs. In the runs of
`CollectionRequests`, `MaxAttempts` is 1 instead of 5: the block differs only in how
many wrong PINs lead to it. `age` and `wait` stop at the largest deadline.
`MaxBalance` bounds the compensation a collector can receive.

In `tills` two codes and two handlers give both races that the locks are for, two
buyers at one code and one buyer at two; in `orders` the endpoints meet the jobs
one by one. `MaxOrders` is the number of copies of a job: 2 where a second order
of a sale would be an error. A third attempt adds nothing that the second and the
redelivery do not show. The jobs are worked on one at a time (`Concurrency`), the
chain and the handlers interleave with them freely.

In `centers` a batch of 10 kg is weighed as 10 or as 20, inside and outside the
tolerance; 40 kg at the start cover one exit of 20 kg but not every pair; `MaxIn`
stops the entries. One attempt and one stall show a repetition after the commit. In
`chain` amounts and loads are chosen so that shares leave a remainder and a tariff is
missing, or negative (amounts and tariffs are -1 or 2); the first request of a pair is made
again when it fails, against a second that is made once; sequence numbers need no bound
then. A node may answer with any number the account has had. In `services`, `FailureLimit` 2, `MaxFailures` 2, `MaxTries` 2 and
`MintAttempts` 2 stand for 3, 5, 5 and 5: one failure before the limit and one at it.
`MaxExpiries`, `MaxWrong`, `MaxCodes`, `MaxApplications` and `MaxTime`
bound what can happen without end. Three transactions race for a complaint's
number: the one that makes the counter, one that waits for it, one that comes after.

`BuyerSolvent` speaks of buyers without refunds and without repeated transfers: a
refund frees the spent amount before its tokens are back, and an attempt that does
not learn its outcome is followed by another transfer. A buyer whose balance is zero
or cannot be read is trusted for what the database counts (`Earned`), on chain or
not: transfers and forest rewards that were only recorded, deposits and rewards
whose mint failed. The property allows a buyer to owe that difference (`Unminted`)
beyond the tokens on chain and nothing else; in the instance one buyer has none and
the other buys a second time with it. Neither rewards nor mints come in meanwhile.

*Properties with a cause.* Where the code cannot keep a promise always, the
property says exactly when it does. Each cause is recorded by the step in which it
happens: a movement over a row that changed (`overrun`), a lock that ran out under its holder (`outlived`), an account used past its
lease or lock, or for which the nodes were out of step (`exposed`), notifications that crossed or a refusal that came late
(`overtaken`), a row that was left without word of its job, by a death, a failed write
or a second stall (`cutOff`), a marker that ran out (`expired`) or that a handler freed
which had committed (`torn`), a token taken off its list (`strays`). A repetition, a
collision or a loss without its cause is a violation.

*Symmetry* is used in safety runs only; users of one kind, handlers and row
identities are interchangeable there. In `services`, which checks liveness, the
parts ask instead that of two interchangeable clients the first is used first.

*Fairness.* `CollectionRequests`: handlers in flight are resumed, since Node's
event loop runs every settled promise; the cron fires every minute and its scans go
on; time passes and the lock's TTL ends. No client has to call anything, and crashes
are bounded by `MaxCrashes`. `StorePayments` assumes less: a live handler that has
committed a redemption goes on to add its job (`AddSale`), and the worker takes and
carries on jobs (`JobStep`). Nobody has to confirm or pay anything, and neither the
chain nor the process has to be reliable; a handler that ends at that point is the
exception `SaleIsProcessed` names. `CenterBatches`: the worker carries on jobs
(`Worker`), and need not survive. `TokenChain`: every wait of a request has a limit
in the code, so some step of it is taken (`RequestStep`); nothing is assumed of the
network. `Deposits`: the server handles what it has received and the worker its
jobs. `Profiles`: times to live run out, and a request that asked Redis or the
database is answered.

*Deadlock* is checked in the runs of `CollectionRequests`. In the others it is not:
an instance has finitely many codes, orders and requests, and when they are all
closed and their jobs finished nothing is left to do.

## Proofs

`CollectionRequestsProofs` proves, for every value of the constants allowed by
`ConfigurationOK` and `NoneIsNoId` (any number of requests, bids, batches, users
and handlers in flight):

| Theorem | Statement |
|---|---|
| `Inductive` | `Spec => []IInv` |
| `TypeCorrect`, `ServiceHasCenter`, `HoldsAreOwned`, `FinesFollowVisits`, `CompletionsAreBatched`, `OneWinner`, `LockExcludes` | the invariants of the runs |
| `NothingIsTakenBack` | `Spec => RecordsKept` |

The invariants of the runs are not inductive: `AcceptWrite` writes ACCEPTED
without looking at the center, so `CenterAssigned` survives only because the
handler saw a center earlier and nobody takes one away. `IInv` therefore adds
what each continuation relies on (`HandlerOK`), what each row of a scan relies on
(`TaskOK`), the shape of rows (`RowFacts`) and how many verifications the lock lets through
(`LockFacts`).
The argument is one of rely and guarantee: `TablesGrow` is what every step
guarantees to the others (rows, bids and batches stay, a row keeps a center and
the stamps of its visit), and `HandlerFrame` and `TaskFrame` show that it is all
a handler or a scan relies on. So each action is proved alone: one lemma
`...Replaces` per way of rewriting a row, then one case per action, and
`StepPreserves` puts the parts together. `LockFacts` is a count: the verifications in
flight are at most the key, if it is there, and the locks that ran out under their
holders. Deleting the key of another handler keeps the count, since the handler that
deletes it ends; so `OneVerification` follows without any assumption on how long a
verification takes.

### Stores

`StorePaymentsProofs` proves, for every value of the constants allowed by
`RowsApart`, `ParametersOK` and `RowsFinite`:

| Theorem | Statement |
|---|---|
| `Inductive` | `Spec => []IInv` |
| `CodesAreChargedOnce` | `Spec => []ChargedOnce` |
| `HashesAreProofs` | `Spec => []HashIsProof` |
| `PaidSettlementsAreOrdered` | `Spec => []PaidIsOrdered` |
| `SalesAreFinal` | `Spec => SaleIsFinal` |
| `BuyersStaySolvent` | `Spec => []BuyerSolvent` |

`ChargedOnce` rests on the locks: `IInv` adds that a code is PENDING as long as a
transaction holds it, that one session holds it, and that one session at most is
about to add its order, which has none yet (`LockFacts`); a session that writes by
id alone relies on rows never being taken back (`SessionOK`). `RowsMove` is the
guarantee that every step gives the others, and `SalesAreFinal` falls out of it.
`HashIsProof` needs that a confirmed job has a transaction in the ledger
(`ChainFacts`). `IInv` contains the types too (`Typed`), among them that nobody is
overdrawn.

`BuyersStaySolvent` has an invariant of its own over `IInv`, `SolvencyInv`. A buyer's
purchases and the chain change at different times, so two sums are kept: what the
buyer has on chain and what the applied sales took make up `Start` (`Taken`), and what
the buyer has spent never exceeds `Means`, the larger of `Start` and `Earned`. The second is decided from a sum read
before the commit; `PurchaseOK` says that this sum is still right, because the lock
of the buyer has one holder. Both hold for buyers who are `Settled`, without refunds and
repeated transfers; no step settles a buyer again.

### Centers

`CenterTradesProofs`, from `InventoryOK`, `BatchesOK` and `TradesOK`:

| Theorem | Statement |
|---|---|
| `CentersTypeOK` | `Spec => []TypeOK` |
| `CentersInductive` | `Spec => []CentersInv` |
| `CentersStockIsKardex` | `Spec => []StockIsKardex` |
| `CentersToleratedOrApproved` | `Spec => []ToleratedOrApproved` |
| `CentersBookedOnce` | `Spec => []BookedOnce` |
| `CentersDispatchIsCovered` | `Spec => DispatchIsCovered` |
| `CentersImplementCertifiedTrade` | `Spec => CertifiedTradeSpec` |

The parts of `CentersInv` follow a weight on its way. `WeightsOK`: what a handler is about to
queue and what a job carries was tolerated or approved, so that the job, which
looks at neither, books in nothing else. `BookingsOK` counts bookings against the
workers a job was given to; `BookedOnce` is the case of one. `LocksOK`: the two
checks of `acceptTransfer` still hold when it commits, since the row lock has
one holder; nothing else takes from the stock without a lock except a movement by
hand, which marks the center `overrun`. `UnguardedOK` is the same for the checks made
without a lock, unless the exits have grown since the row was read; entries only
help, and that a stock implies entries is `StockIsKardex`. `CertificatesOK` is a count: the
certificates, the handlers about to write one and the accepted orders, one of whose
deliveries may still be claimed, never exceed the dispatches. Most steps only move
a handler from one await to the next; `QuietOrDecisive` separates them (`QuietStep`)
from the few that write what the invariant is about, so that every part is proved for
these alone.

The refinement maps each step: a decisive step is a step of `CertifiedTrade` under
`Shelf` (what the movements leave) and `Undocumented` (dispatches without a
certificate), every other step is a stutter.

### Contract and client

`EcoTokenRegistryProofs` proves that every entry point preserves `LedgerInv`, and
`TokenChainProofs` what follows for the specification of both, from `RegistryOK` and
`ChainOK`:

| Theorem | Statement |
|---|---|
| `ChainInductive` | `Spec => []ChainInv` |
| `ChainLedgerConsistent` | `Spec => []LedgerConsistent` |
| `ChainRewardIsMinted` | `Spec => []RewardIsMinted` |
| `ChainSignatureOnce` | `Spec => []SignatureOnce` |
| `ChainCollisionHasCause` | `Spec => []CollisionHasCause` |
| `ChainSuccessIsApplied` | `Spec => []SuccessIsApplied` |

*Ledger.* That the supply is the sum of the balances is inductive. Its proof is in the
lemmas about sums: a payment adds to one account, and a list of payments, with
the same payee any number of times, adds the sum of its amounts. For a batch that
sum is the whole reward, the remainder of the division included, or nothing of a
negative one (`SplitIsReward`).
`RecordsOK` keeps what a batch was given on its record; `SignaturesOK` says that the
signatures used are those before the next nonce, each once.

*Client.* `CollisionHasCause` is a statement about who may use a number. For
an account that is not `exposed`, `LeasesOK` and
`LocksOK` say that it has one user, and `NumbersOK` that the number this user read is
still the next one and that no transaction but his is waiting. A second transaction
with the same number would contradict the latter. `MempoolOK` ties what waits on the network to the try it
was sent in, and so `OutcomesOK` and `SuccessIsApplied` to what was applied.

### Services

| Theorem | Module | Statement |
|---|---|---|
| `RepeatsHaveCauses` | `ServicesProofs` | `IdemSpec => []RepeatHasCause` |
| `CorrelativesAreGapless` | `ServicesProofs` | `CommunitySpec => []CorrelativesGapless` |
| `SecondMintsHaveCauses` | `ServicesProofs` | `DepositsSpec => []SecondMintHasCause` |
| `UnlistedTokensHaveCauses` | `AccountsProofs` | `AccountsSpec => []UnlistedHasCause` |
| `AccountsTyping` | `AccountsProofs` | `AccountsSpec => []AccountsTypeOK` |
| `AccountsOfTheirCodes` | `AccountsProofs` | `RegistrationSpec => []AccountOfItsCode` |
| `RegistrationTyping` | `AccountsProofs` | `RegistrationSpec => []RegistrationTypeOK` |
| `KeysTyping`, `CommunityTyping`, `DepositsTyping` | `ServicesProofs` | the same for `IdemTypeOK`, `CommunityTypeOK`, `DepositsTypeOK` |
| `PoolStaysConsistent` | `ServicesProofs` | `RpcSpec => []RpcTypeOK` |
| `ScoresStayFair` | `ServicesProofs` | `RatingsSpec => []RatingsTypeOK` |
| `PushesStayConsistent` | `ServicesProofs` | `PushSpec => []PushTypeOK` |
| `ProfilesTyping` | `ServicesProofs` | `ProfilesSpec => []ProfilesTypeOK` |
| `ServicesTyping` | `ServicesProofs` | the nine specifications together imply `[]TypeOK` |

Each is about the specification of its module, from the assumption of that module;
the parts of the run `services` are restrictions of it. The type invariants say more
than types where a counter or a list is bounded by what calls in flight can still do,
and this is where they had to be strengthened.

* `IdemInv` counts the handlers that were let through for a key, running ones included:
  no more than its marker, if it is there, the markers that ran out and those that
  handlers freed after they had committed.
* `FilingInv`: the committed counter, once it is there, is the last number, and the
  numbers given are all those up to it. A transaction has its number under the lock
  of the row, so it is the next one; a seed counted before is used only
  for a counter that is still not there.
* `DepositsInv`: unless an order is `overtaken`, one delivery at most has added its job
  or is about to, and none that has read the row as open goes on once it is completed.
* `SessionsInv`: the owner of a token that a handler carries is the member it acts for,
  and a token that a rotation dropped is not issued again; a list with a time to run
  out is not empty. `FailuresCounted` is what the type invariant of the module says of
  locked accounts.
* `CodesInv`: while registrations are `calm`, the call that stores a code is alone, and
  the keys of either scheme pair a form with a code that was generated for it, except
  where this call has written one of the two and is about to write the other. What a
  verification has read is such a pair too (`ReadItsPair`), whichever keys run out
  meanwhile.
* `RegistrationInv` adds `TriesBounded`: a counter of wrong codes and the calls that are
  about to raise it are together fewer than `MaxTries` and all calls, because a call
  compares only while the counter is below the limit. `ConsentOnce`: one call at most
  is between the account it made and its consent, and none before there is an account.
* `RpcInv`: a healthy node has fewer than `FailureLimit` failures and no cooldown, any
  other both, though calls return in any order to the node that they tried.
* `RatingsInv`: the totals lie between one and five stars per counted rating. An edit that
  goes on from old totals writes new ones of which the same is true.
* `DepositsInRange`: a job exists only once its call has added it, and one that has not
  failed has attempts left, so that none exceeds `MintAttempts`.
* `PushInv` relates the tokens that were refused to those the push was sent to;
  `CommunityInv` bounds the numbers by the complaints that can still be filed.
* `ProfilesInv`: a review that is about to observe an application has read a count that
  allowed it (`VisitOK`), so two that overlap write the same number.

### Sums

The models add with `MapThenSumSet`, which the community modules define by a recursive
function that picks one element after the other. `FiniteSums` proves what is
needed of it: a sum splits at any element and over disjoint sets, depends on the values
alone, changes by the difference where one value does, and is an integer. The induction
is not over a predicate: it is stated about a *set* of numbers, and from it about a set
of subsets (`InductionOnNat`, with the least element that `WFMin` gives), which
the provers can instantiate.

### Only model-checked

Liveness (`PendingEnds`, `AuctionEnds`, `ArrivedEnds`, `LockIsFreed`, `SaleIsProcessed`,
`JobEnds`, `RequestsEnd`, `CreditDecided`, and `CancelledStaysOut`, which says that
something is so from some time on): fairness and `ENABLED` are beyond this prover.
Every invariant and action property of the passing runs is stated by a theorem.

## Not modelled, and the plan

The modules of the plan are written, and their safety is proved. What is left:

1. what holds where the code does not keep its promise: that `PaidOnce`,
   `CompensatedOnce` and `VerifierIsCollector` fail for their known reason only, as
   properties with a cause;
2. an abstract specification of the payments in the stores (each purchase is ordered
   once and each settlement covered), which `StorePayments` would implement.

Not modelled: the promotion of a failed job
(`retryQueueJob`), whose `dlq-` names the processor does not handle;
`retryOutboxEvent`, since no code writes outbox rows; the reception PIN of a center,
which nothing compares; the prices of a company (`updatePriceList`); the rows that
`sendTransaction` leaves in the history of a wallet; the 24-hour expiry in the
redemption service, which nothing schedules; the connection pool; pushes to a topic.
In `Accounts` an account that is suspended and activated again is not followed, only
one that is cancelled. Left out for good: the audit log buffer, websockets, mail,
storage, routing, metrics and health (output or read-only), PDF and HTML rendering,
data-transfer objects and Swagger decorators.

## Seen while modelling

Not given a run. Collections: the assigned collector can cancel a request that has
ended (`collection-lifecycle.service.ts:131`); two creations of a household both pass
the check (`:611`); a failed mint still completes the request
(`collection-verification.service.ts:184`); the route key can be set after the
arrival deleted it (`collection-tracking.service.ts:103`); two acceptances of one
collector pass the solvency check before either guarantee is stored
(`collection-escrow.service.ts:85`); two ratings of one collector overwrite each
other's average (`collection-lifecycle.service.ts:282`).

Stores: two refunds of one redemption both order a transfer
(`store-redemptions.service.ts:309`); a rejection and a payment of one settlement
both pass (`store-settlements.service.ts:241`); APPROVED_PENDING_PAYMENT settlements
do not count as held (`store-settlements.service.ts:68`); once its transfers have
landed, what a buyer spent is subtracted twice from the balance
(`wallets.service.ts:68`).

Centers: a movement writes an absolute quantity from a stale read
(`inventory.service.ts:43`); a rerouted batch cannot be received any more
(`batch-consolidation.service.ts:108`, `batch-state-machine.ts:10`); the writes of a
batch's status by the job, the disputes and the consolidation do not ask the state
machine that the others ask.

Deposits: a charge is minted twice when two notifications cross, or when the refusal
of an earlier try is handled after the charge (`payments.service.ts:163`,
"Idempotencia: Si ya fue completada, responder OK"); the daily limit counts COMPLETED
deposits only (`:88`), so that several PENDING ones pass it together; an
administrator's repetition does not look for the jobs the order has, and writes
PENDING when its own may have ended (`admin-audit.service.ts:486`).

Chain: DUPLICATE and TRY_AGAIN_LATER count as failures though the transaction is
under way; a breaker that times out leaves the call running; a notarisation falls
back to `manageData` on any host error, one that says the batch is registered
already included; a channel that is neither owner nor worker makes every call of the
contract panic; a subsidised transfer is valid for 300 s and polled for 30;
two replicas share the channels but not the leases (`docker-compose.prod.yml:75`);
a transfer to oneself adds what it moves (`lib.rs:463`); the emergency node is the
one with the earliest cooldown, which may be a healthy node that has just failed, not
the one that rests (`stellar-rpc-manager.service.ts:403`).

Accounts: sessions can outlive "Invalidar todas las sesiones activas"
(`auth.service.ts:334`) when their token is not on the list yet, or no more; an
administrator's new password and the user's own in the profile invalidate none
(`users.service.ts:341`, `admin.service.ts:322`); personal data that a cancellation
removed is written again by an update or an application that was under way
(`users.service.ts:190`); consent is stored after the user, by a call that can fail
on its own (`auth.service.ts:92`); the former owner's `fcmToken` stays when a device
is given to another (`users.service.ts:499`, `notifications.service.ts:324`);
two decisions of one application overwrite each other (`admin-kyc.service.ts:190`).

Requests: a handler that throws after its commit frees its idempotency key
(`idempotency.interceptor.ts:106`), so that the repetition commits again; a form and a
code of two registrations of one address can be mixed between the commands at
`otp.service.ts:57` and `:58`.

Community: the weekly reward is checked and then created, so that two claims store
two, as COMPLETED and without a transfer (`gamification.service.ts:314`); a reply
writes `respondedAt` from an older read (`complaints.service.ts:326`).
