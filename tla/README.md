# A TLA+ verification of Agri-Fi

Agri-Fi finances agricultural trade deals. Investors put USDC into a deal, a
trader delivers the goods, and the escrow pays 98 % to the farmer
and 2 % to the platform. The money is on Stellar (accounts and a Soroban
contract), the record of it is in PostgreSQL, the work in between is done by
jobs taken from RabbitMQ, and Redis leases are meant to keep a job from being
done twice. Nothing spans these four systems, so every operation has a moment
when one of them knows something the others do not. This project is about
those moments.

The sources named below are under `src/`; `B` stands for `src/backend/src`.

## 1. Inventory

### Components that are modelled

| Component | State | Operations | Module |
|---|---|---|---|
| Escrow contract (`blockchain/contracts/escrow/src/lib.rs`) | contributions, `TotalFunded`, flags (`Released`, `Refunded`, `OperationInProgress`, `DeliveryApproved`), milestones, frozen contributors; the token's balances | initialize, fund, approve_delivery, submit_delivery_milestone, release, record_milestone, settle_escrow, freeze/unfreeze_contributor, refund_after_expiry, refund_all_after_expiry | `EscrowContract`, abstractly `EscrowLedger` |
| Escrow release (`B/escrow/escrow.consumer.ts`, `escrow.service.ts`) | deal status, `payment_distributions`, the Stellar account, messages | take a message, two leases, validate, pay, record, ack or nack, requeue, stop | `EscrowRelease` |
| Dead letters and manual retry (`payout-dead-letter.consumer.ts`, `escrow-dlq.service.ts`, `failed-payments.service.ts`, `backend/scripts/retry-dlq.ts`) | the dead-letter queue | alert, replay, retry | `EscrowRelease` |
| Importer milestone (`B/shipments/shipments.service.ts`) | `shipment_milestones`, deal status | recordMilestone for the milestone that ends delivery | `EscrowRelease` |
| Leases (`B/queue/idempotency.service.ts`) | Redis keys `processing` / `done` | check, claim, mark, release, expiry | `Leases` |
| Investments (`B/investments/investments.service.ts`) | `investments.status`, `trade_deals.total_invested`, deal status | createInvestment, confirmInvestment, requestCoolingOffCancel, fundEscrow with a signed transaction | `DealFunding` |
| `investment.fund` job (`B/queue/queue.processor.ts`) | investment status, payment, trade tokens | processInvestmentFund, await by await | `DealFunding` |
| Cancelling and closing (`B/trade-deals/trade-deals.service.ts`, `trade-deals-cron.service.ts`, GraphQL `cancelInvestment`) | deal status, investments | cancelDeal, closeUnderfundedDeal, refund sweep, withdrawal | `DealFunding` |
| Outbox (`B/outbox`) | rows of `outbox` | writeEvent, publishPending, emit, markProcessed, markFailed | `Outbox` |
| Payment batches (`B/stellar/stellar.service.ts` `releaseEscrow`, `submitWithFeeBumpRetry`; `escrow-release.service.ts`) | the running total of one call; sequence number, USDC and trustlines on the ledger | plan, build, submit, bump the fee, give up, commit; transactions applied late | `StellarRelease` |
| Farm campaign contract (`blockchain/contracts/farm_campaign/src/lib.rs`) | state of the raise, stakes, refundable shares, releases, disputes, its USDC | every entry point that changes state except `submit_dispute_evidence` | `FarmCampaign` |
| Soroban listener (`B/soroban/soroban-listener.service.ts`) | cursor per process, rows of `contract_disputes` | onModuleInit, pollContractEvents, the dispute events | `DisputeListener` |
| Secondary market (`B/investments/marketplace-settlement.service.ts`, `secondary-order-matching.service.ts`) | orders, last price | createOrder, cancelOrder, createSecondaryTrade, the matching sweep | `SecondaryMarket` |

### How they interact

* `publishDeal`, `fundEscrow` and `confirmInvestment` write their events
  (`deal.publish`, `investment.fund`, `deal.funded`) into the **outbox** within
  their database transaction; the outbox processor of every backend process
  sends them to RabbitMQ.
* `recordMilestone` emits `deal.delivered` directly, inside its transaction.
  The **escrow consumer** takes it, holds the lease `deal.delivered:<id>`, and
  calls `processDealDelivered`, which holds a second lease around the payment.
* A message that fails is nacked; the consumer reads the `x-death` count and
  after `ESCROW_MAX_DELIVERY_ATTEMPTS` sends it to the **dead-letter queue**,
  whose consumer alerts the operators; a script or an endpoint replays it.
* `investment.fund` is taken by `QueueProcessor`, which submits the investor's
  signed payment, transfers trade tokens and confirms the investment. A REST
  call can confirm the same investment; investor, trader and two cron jobs
  write the same rows without a common lock.
* The Soroban escrow contract is self-contained: it sees only its own storage
  and the token contract it calls.
* `processDealDelivered` calls `releaseEscrow` once per delivery attempt.
  `EscrowRelease` has that call as one payout, `StellarRelease` opens it up;
  `BatchedPayout` is the link: with one batch the call is all or nothing.
* The farm campaign contract emits its disputes as events; the listener of every
  backend process polls them and keeps a row per disputed milestone.
* The matching sweep of every backend process works on the same order rows and
  settles each fill with a contract call.

### What is hard, and what makes each part right

* **Contract.** Its transfers hand control to another contract and may trap. It
  is right if it always holds what it owes, pays out once and exactly, refunds
  everyone, and never pays a frozen contributor, in every order of calls.
* **Release.** A payment cannot be rolled back, and its record, its lease and
  its message are settled in separate steps. It is right if a payout is made
  once per delivery, is recorded when made, and no delivery is forgotten. The last
  does not hold, and the properties say which causes there are.
* **Funding.** Five writers read, wait and write back. It is right if the total
  is the sum of the confirmed investments, the deal is not overfunded, a
  confirmed investment is paid for, and a decision once taken (cancelled,
  funded, expired) is not undone by a late write.
* **Payment batches.** A submission that timed out can still be applied, and a
  repeated call starts from its first batch. It is right if one call pays a
  batch once and in order and nobody's share depends on a retry.
* **Farm campaign.** Two refund paths, three ways to pay the farmer and disputes
  share one balance. It is right if promised refunds are held, shares add up to
  the stroop, and a verdict stands.
* **Listener.** The cursor is in memory, batches are cut at 100 events, polls
  overlap and rows are saved whole. It is right if the projection never runs ahead
  of the contract and catches up with it.
* **Secondary market.** The sweep reads rows, waits for a contract and saves the
  rows it read, while others do the same. It is right if the book claims no
  unsettled fill, settles no order twice, and moves no stop by an old price.
* **Outbox.** Several processes claim rows; an emit and its mark are separate.
  It is right if exactly the committed events are sent, at least once, with few
  duplicates.

`PROJECT.json` lists the hazards line by line with the properties that watch
them, and every component that is not modelled with the reason.

## 2. Modules

### `EscrowContract`, `EscrowLedger`, `EscrowRefinement`, `MCEscrowContract`

One action per entry point. An invocation that moves USDC is split at its
transfers: the entry action makes the storage writes that come first and queues
the payments in `call.pay`; `Transfer` makes one; `Finish` is the code after the
last; `Abort` is a trap, which restores storage and balances from `call.saved`.
Between these steps every other entry point may be tried, so the flag
`operationInProgress` is really what keeps it out. `refund_all_after_expiry`
visits the investors in any order (`RefundAllVisit`) and works on local copies
(`call.loc`) that it writes back per investor, as the code does.
`DirectTransfer` sends tokens to the contract's address outside `fund`;
`donated` remembers them. `require_auth` is modelled by who calls.

`EscrowLedger` is the promise: deposit, refund of exactly what is held, one
payout of everything, all atomic. `EscrowRefinement` maps an invocation in
progress to the state in which it was entered, and to its result when it returns,
and states `ImplementsLedger`.

### `Leases`

The three-valued Redis key (absent, `processing`, `done`), with `check` and
`claim` as two separate operations as `IdempotencyService` has them. Extended by
`EscrowRelease` and `DealFunding`. Redis answers; its no-op mode without a
connection is not modelled.

### `EscrowRelease`, `MCEscrowRelease`

A message is in one place at a time, so `at[m]` is where it is and, while a
job has it, the job's next await. Jobs belong to any number of replicas; every
await is a step, and before any of them the process can die (`Crash`: the broker
redelivers), the call can fail, or a lease can expire under a live job. A failing
payment call may have paid (`ReleaseThrows`). `UpdateMilestone` emits the message
before its transaction commits and may lose it, since `client.emit` is not awaited.
Two questions are left open, so that every property of the module holds for either
answer. A requeue may raise the attempt number (`deaths`), which the consumer's
comments expect, or not, which is how RabbitMQ treats it (`Requeue`). A body may be
malformed, as every body is that `QueueService.emit` sealed, since `parsePayload`
reads plain JSON, or be read; a malformed one goes to the dead letters
(`ParsePayload`).

`forgotten` is history. It names how a delivery got out of everybody's hands:
`unsent` (the broker never had the message), `early` (a consumer read the deal before
the milestone committed, and marked it done) and `orphan` (a redelivery met the lease
of a dead job and was acknowledged as a duplicate).

### `DealFunding`, `MCDealFunding`

One open deal and its investments under READ COMMITTED: a statement sees what is
committed, a row locked by an open confirmation (`Locked`) makes a writer wait.
`call[i]` is the progress of `confirmInvestment`, `withdrawal` and `closing`
those of the operations that read an entity and `save()` it later. TypeORM's
`save` writes the columns that differ from a fresh read: a stale entity can put
back an old `total_invested`, and an entity with its list of investments unlinks
those created since, which the NOT NULL column refuses. `SchemaChecks` says
whether the CHECK constraints that the migrations create are in force; `Ops`
selects the operations of an instance.

### `Outbox`, `OutboxDelivery`, `MCOutbox`

`tx[e]` is the caller's transaction around `writeEvent`; `at[w]` and `batch[w]`
are one worker's `processOutbox`. The SELECT and the COMMIT of
`publishPending` are separate steps: between them other workers skip the rows and
updates of them wait; after the COMMIT nothing protects them. The emit can be
refused, or succeed without its confirmation; `markProcessed` is in the same
`try`, so its failure is counted as a failed publish; a failing `markFailed` ends
the tick.

`OutboxDelivery` is the promise to the callers: an event is published with the
caller's commit, delivered by each process at most once and once more per lapse,
settled after a delivery. `ImplementsDelivery` maps the committed rows, `sent`,
`processed` and `faults` to it; claims, locks and retries do not show.

### `StellarRelease`, `BatchedPayout`, `MCStellarRelease`

One worker at a time runs `releaseEscrow` (it holds the lease); `at` is its step.
`BuildTx` computes the shares of a batch as the code does, with the remainder for the
last investor taken from the running total `distributed`, a variable of the whole call
that every build adds to. A share is the floor of a product of doubles: it is the
rounded share plus a constant `Drift`, of at most a stroop and the same in every build.
A stroop is enough below 2^52 stroops, 450 million USDC, where the two rounding errors
of the expression add up to less than one. If the drift makes the shares exceed the
pool, the last transaction costs more than the escrow has. A transaction is applied if
it has the next sequence number, the escrow can pay it and every direct payment has its
trustline (`Valid`). A rejected fee builds it again; any other failure ends the call,
and the transaction may have been applied, be applied later (`ApplyLate`) or never be.
Trustlines are read once per call and may change (`ChangeTrust`). Money is in stroops; a
claimable balance counts as paid.

`BatchedPayout` is the release without transactions: a call pays each batch at most
once and after the one before it, a batch pays only its own investors, the last one
the platform, never more than is held; nothing is paid once the payout is recorded.
`ImplementsPayout` maps the ledger, the number of runs and `recorded` to it. With one
batch it is the payout that `EscrowRelease` takes as one step.

### `FarmCampaign`, `MCFarmCampaign`

One action per entry point; an invocation is atomic, since the host reverts a
failing one. `ApplyProportionalRefund` is the split of a closed raise:
rounded-down shares, then the residue one stroop at a time in the order of the map,
with the condition under which the code returns `InvalidAmount` (`CanSplit`).
`paidIn`, `paidBack` and `revenueIn` are history. `breaches` names the three events
the contract does not guard against, after which `ClaimsCovered` promises nothing:
`reopened` (pause and unpause of a campaign that was past its raise), `overpaid`
(partial releases plus milestones exceed the raise, and are paid from the surplus
that is owed to the investors) and `unfunded` (more revenue is distributed than
arrived). Each is needed: if any one of them is allowed, TLC finds more owed than
held.

### `DisputeListener`, `MCDisputeListener`

The chain is a list of events, one invocation per ledger, with the votes of
`FarmCampaign` reduced to one milestone and a fixed quorum. A poll is a process'
`pollContractEvents`: fetch, then per event read the row and save it; polls of one
process share a cursor, since the cron job does not wait for the last one. `owner`
says which process a poll belongs to. `PollThrows` is a failing call at any await,
`Restart` a new process, whose cursor is `Lookback` ledgers behind. `damaged`
remembers the four ways of losing events that `Converges` excludes: polls that
overlap, a batch cut at the limit, ledgers passed before the deal had its contract,
and a restart whose new cursor is past events that the old one had not reached.
The entry points of the contract have names of their own here (`DisputeRaised`,
`VoteCast`, ..., `ListenerSpec`), since the proofs extend both modules.
`GetEvents` returns the events from the cursor on, at most `Limit` of them, and the
poll later moves the cursor to the latest ledger whether or not that was all.

### `SecondaryMarket`, `MCSecondaryMarket`

`terms` are the columns of an order that never change, `row` those that do.
`sweep[r]` is the progress of one process' `runScheduledMatching` through
`matchOpenOrders` and `matchOrder`, with the row copies it holds; every query, save
and contract call is a step. So are the two halves of `createOrder`, the price check
(`CheckOrder`) and the save (`SaveOrder`), and the reads of the trigger sweep, the price
(`ReadPrice`) and the dormant stops (`FindStops`): a trade or a new stop can come
between. The call can fail, or settle without an answer
(`FillThrows`); a query or a save can throw (`MatchThrows`); a process can die.
The query for the makers of a taker names the sort direction twice, and PostgreSQL
refuses it: `QueryThrows`, which is all that the code as it is can do here.
`FindMakers` is the query without that slip, ordered by price and then by age; it and
the fills behind it are reached only if `SortAccepted` is set. The safety properties
are checked and proved with both outcomes, so that they hold for the code as it is
and stay meaningful once the query is repaired.
`crossed` remembers the stops that a price has reached since they were placed, or that
a price already in the hands of a sweep reaches when they are. Amounts and prices are
small integers; the tolerance `QTY_EPSILON` and the rounding to seven decimals are
left out.

### Proof modules

`EscrowContract_proofs`, `EscrowRelease_proofs`, `DealFunding_proofs`,
`Outbox_proofs`, `StellarRelease_proofs`, `FarmCampaign_proofs` (which also has the
proofs about `DisputeListener`, the projection of the campaign's disputes) and
`SecondaryMarket_proofs` each extend the module they are about. `SumLemmas` has what
they share about sums over finite sets. Section 4 says what they prove.

## 3. Runs

Passing runs (distinct states in brackets):

| Run | Shows |
|---|---|
| `escrow_contract` (585 thousand) | every entry point in any order, tried inside transfers, transfers that trap: `Solvency`, `InvestorsWhole`, `PayoutExact`, `BooksBalance`, `ReleaseFinal`, `BatchRefundComplete` and the refinement `ImplementsLedger` |
| `release_safety` (1.9 million) | a milestone that emits inside its transaction, an administrator's second message, a crash, two failures, one expiry per lease, one replay, a deal that can be paid, has invalid data or no investments: `ExclusivePayout`, `DoneMeansCommitted`, `CompletedMeansPaid`, `ExtraPayoutNeedsFault`, `LossNeedsCause`, `DeliveredIsReleased` |
| `funding_books` (3 thousand) | three investments, overlapping confirmations, rollbacks, cancellations: `TotalNeverOverstated`, `ExactUnlessOverlapping` |
| `funding_jobs` (2.7 million) | duplicate jobs, failures, a crash, an expiry, a deal cancelled or closed meanwhile: `ConfirmedIsBacked`, `FundingDecided`, `ExtraTokensNeedFault` |
| `funding_settles` (370 thousand) | trader, hourly jobs, investors and confirmations together, with failing calls: `ExpiredDrains`, `DeadStaysDead` |
| `outbox` (50 thousand) | two events, two processes, refused and unconfirmed emits, failing statements, crashes: `OncePerWorker`, `RowSettles` and the refinement `ImplementsDelivery` |
| `campaign` (2.5 million) | two investors with unequal stakes, two milestones, two arbitrators, all entry points: `ClaimsCovered`, `RaisedIsInvested`, `RefundsBounded`, `ClosingSucceeds`, `VerdictIsFinal` |
| `market` (1.1 million) | three orders, two processes, a cancellation or a direct trade, a failing call or a crash, the query refused or not: `SettledWithinSize`, `FilledIsSettled`, `DormantUntouched`, `TerminalIsFinal` |
| `stellar_release` (177 thousand) | three investors in two batches, three calls, refused fees, timeouts, late transactions, changing trustlines: `OncePerRun`, `SharesOfOneRun` and the refinement `ImplementsPayout` |
| `dispute_listener` (4.2 million) | two arbitrators, two polls of one process or of two, a fault at any await: `NeverAhead`, `Converges` |

In two runs TLC finds what the code does against what the repository says of it
(the quotations are in `PROJECT.json`, "findings"):

* `release_lost`, `NoSilentLoss`: the milestone commits although its message never
  reached the broker, and nobody looks at the delivered deal again. The run reports
  the shortest trace; the other two causes lead to the same state. A job dies with its
  lease and the redelivery is acked as a duplicate (`escrow.consumer.ts:209`); or a
  fast consumer reads the deal before the milestone commits, skips it and marks it
  done (`B/shipments/shipments.service.ts:154`). ADR-002:33 calls change and
  publication "strictly atomic", and ADR-002:35 says that failed messages are
  "captured in DLQ rather than lost silently". `LossNeedsCause` shows that there is no
  fourth cause.
* `funding_over`, `NeverOverfunded`: pending investments that fit one by one are
  confirmed beyond the value of the deal.

Every module also has a type invariant, `TypeOK`, except `DisputeListener`, whose
types are part of the proof's invariant. It is proved everywhere and checked by no
run, but can be added to any configuration. `RefundedOwnsNothing`,
`FrozenUnpaid`, `ProcessedWasSent`, `SentWasCommitted` and `BatchesInOrder` are
proved and therefore in no run; the last three follow from the refinements that are.

More disagreements show when a configuration above is changed as described:

* `MCEscrowRelease`, invariant `PaidOnce`: the database fails after Stellar has
  paid, the lease is released and the message retried (`escrow.service.ts:302`),
  and Stellar pays again; `docs/runbooks/escrow.md:229` promises "four strict
  defensive layers to guarantee that no deal or milestone can ever be released
  twice".
* `MCFundingJobs`, property `CancelHolds`: a cooling-off cancellation that
  succeeded is overwritten with `confirmed` (`B/queue/queue.processor.ts:425`),
  against the comment at `B/investments/investments.service.ts:510`.
* `MCFundingSettles`, `ExpiredDrains` without its last disjunct: a `cancelDeal` that
  read the deal before it expired makes it `canceled`, and the sweep for pending
  investments (`trade-deals-cron.service.ts:93`) looks at expired deals only.
* `MCFarmCampaign`, invariant `FailedIsCovered`: after delivery,
  `distribute_revenue` pays out revenue that never arrived from what the
  contract still holds, and `mark_failed` then promises refunds it cannot pay; the
  comment at `farm_campaign/src/lib.rs:884` says "never more than the contract can
  pay out".
* `MCFarmCampaign`, invariant `NothingStranded`: an investor takes the surplus share
  of `early_close`; when a dispute is later lost, the second split promises the
  rest of the stake, but the flag `Refunded` of the first claim makes every later
  one return without paying (`lib.rs:743`). The comment at line 1204 says that a
  lost dispute "turns whatever principal is still held in escrow into investor
  refunds". A share of the surplus that was not claimed before the second split is
  overwritten by it.
* `MCSecondaryMarket`, invariant `FokNeverRests`: `createOrder` calls
  `matchOrder(order.id)` (`marketplace-settlement.service.ts:401`), which looks the
  argument up as an `orderId`; a fill-or-kill order therefore rests on the book
  until a sweep comes to it at best, against the comment at line 306.
* `MCSecondaryMarket`, property `CrossedTrade` under `FairSpec`: it fails, since the
  makers' query is refused every time (`marketplace-settlement.service.ts:930`) and
  orders that cross rest for ever, against the comment at line 604 (a matching in
  "price-time priority"). For the same reason no fill-or-kill order is ever killed.
* `MCStellarRelease`, invariant `SharesPaid`: a transaction built again for its fee
  adds its shares to `distributedToInvestors` twice (`stellar.service.ts:1229`),
  and the last investor, who takes what is left, gets too little or nothing. That
  nobody else is affected, and that the escrow keeps the difference, is
  `SharesOfOneRun`.
* `MCEscrowRelease`, property `DeliveredIsHandled`, with one message, no fault and
  `Deals = {"invalid"}`: the attempt number of a requeued message stays 1
  (`escrow.consumer.ts:250`), and a release that keeps failing is retried for ever.
  The comment at line 193 says that "each nack+requeue increments it".
* `MCEscrowRelease`, `DeliveredIsReleased` without `alerted`: `emit` encrypts the body
  and `EscrowConsumer.parsePayload` (`escrow.consumer.ts:138`) reads it as JSON, so
  that every message ends in the dead letters.
* `MCFundingJobs`, `FundingDecided` without its antecedent fails: the redelivery
  meets the lease of the dead job (`B/queue/queue.processor.ts:370`).
* `MCFundingSettles`, property `OverdueCloses` with `SchemaChecks = TRUE`: it fails, and
  is in no run. The migrations
  create `trade_deals.status` with a CHECK that has neither `canceled` nor
  `expired`, and `investments.status` with one that has neither `cancelled` nor
  `refunded` (`1699900000002-CreateTradeDeals.ts:17`,
  `1699900000004-CreateInvestments.ts:16`), and no later migration changes them: every
  close throws, and the overdue deal stays open.
* `MCFundingBooks`, `ExactUnlessOverlapping` without its antecedent: of two
  overlapping confirmations the later writes a total without the other
  (`B/investments/investments.service.ts:372`), although `README.md:136` states
  the sum as an invariant. With `"fund"` in `Ops` the total is wrong without any
  overlap: the job never updates it (`B/queue/queue.processor.ts:425`), under a
  comment that says it does.
* `MCFundingSettles`, "a funded deal stays funded": `cancelDeal` saves an entity
  read before its clawback (`B/trade-deals/trade-deals.service.ts:988`) and can
  cancel a deal that became funded meanwhile.
* `MCEscrowRelease`, `Requests = {m1, m2}`, `milestones <= 1`: two calls that
  count before either commits store the importer milestone twice
  (`shipments.service.ts:91`), and the second can move a completed deal back to
  `delivered`. Once the `done` key has expired the deal is paid again, without any
  failed call or crash: `ExtraPayoutNeedsFault` then fails, which is why its theorem
  is about deals with at most one such milestone.
* `MCOutbox`, "two batches are disjoint": `publishPending` commits before its
  rows are published, so a second process claims the same ones, although the
  comment at `B/outbox/outbox.service.ts:105` calls the claim atomic. `OncePerWorker`
  says what is left of it.
* `MCOutbox`, "a committed event is eventually sent": a row out of retries is
  never selected again and `moveToDeadLetter` has no caller, while
  `docs/infrastructure/message-queue.md:21` says that events are never lost.
  `RowSettles` says what is left of it.
* `MCDisputeListener`, `Converges` without `damaged`: in particular the stale save of
  one of two polls drops a vote that neither reads again
  (`soroban-listener.service.ts:240`), and a restart in the middle of a replay
  leaves a row that `dispute_raised` has reset.

Reading the code for the models showed more, which no run is about:

* `releaseEscrow` never pays the farmer's wallet, which it is given, while
  `distributePayment` records a confirmed payment of 98 % to the farmer beside those
  to the investors (`escrow.service.ts:381`).
* The listener acts on the topics `approve`, `pause`, `mark_failed` and
  `distribute_revenue`; the farm campaign contract emits none of them.
* The event indexer reads `event.transactionHash`, the listener `event.txHash`, and
  the indexer's key lets a second event of the same transaction be taken for a
  duplicate.
* If the first ledger cannot be fetched, the listener's cursor starts at 0, which is
  outside what an RPC server keeps.
* In the campaign contract an address may be on the arbitrators' roster twice; the
  quorum then counts it twice although it votes once, so that only the deadline
  decides.

**Bounds.** Two investors are enough for the contract's interesting cases: one
paid while the other is in the middle of a batch, one frozen and one not, a
target reached by one, by both or not at all (`DealValue` 3, two units each); a
third account adds only symmetric cases. The clock has two values, before and
after the deadline, the only distinction the code makes. Two messages, jobs or
workers suffice for every pairwise race. Failures
and crashes are bounded one above what a single operation can absorb, so that
running out of attempts happens. In `funding_books` one investment is twice as
large as the others, so a deal can be filled by different subsets. Retries are 2
or 3 instead of 3 or 10: the limit is crossed in every run that has one. In
`outbox` a batch holds both events, so that a tick can give up the rest of its
batch; with `BatchSize = 1`, where the oldest row keeps the other waiting, the
same properties hold. In `campaign` the stakes
are 2 or 3 around a target of 3, so that every split leaves a residue, and histories
are followed past one breach but not two. In `stellar_release` the
tokens are 29, 42 and 29 of 100 and the pool has 100 stroops, where the doubles of the code
yield 28, 42 and 28; the second batch has one investor. In
`market` three orders are a taker and two makers, or a stop and the trade that arms
it. In `dispute_listener` the limit of a batch is smaller than the number of events.
Symmetry (of investors, milestones or arbitrators, which the code only compares) is
used in `escrow_contract`, `campaign` and `dispute_listener`, none of which checks
liveness.

**Stopping.** The contract's run checks deadlock. The others say
`CHECK_DEADLOCK FALSE`: with a finite number of messages, investments or events
the work comes to an end.

**Assumptions of passing runs.** The passing runs of `DealFunding` have
`SchemaChecks = FALSE`: a schema without the CHECK constraints of the migrations, in
which a deal can be closed at all. Under the constraints of the migrations no deal and
no investment becomes `canceled`, `expired`, `cancelled` or `refunded`, so that
`ExpiredDrains` and `DeadStaysDead` have no case. They also assume that
`investment.fund` messages reach the processor, see section 5. `market` has
`SortAccepted = TRUE`, which adds the behaviours after the makers' query to those in
which it is refused.

**Fairness.** Weak fairness of the next await of a job that has a message, of
the delivery of a queued message and of the dead-letter consumer: Node resolves
or rejects every promise and RabbitMQ delivers to a live consumer. Weak fairness
of the hourly and the per-second cron jobs and of the end of an open transaction.
None for the callers (investors, traders, operators), nor for faults. In
`Outbox` the marks are strongly fair, since PostgreSQL queues the waiters for a
row and SKIP LOCKED passes over a row with a waiter. `DeliveredIsReleased` is
checked with a crash, since it names what a crash leads to; the liveness of
`DealFunding` without crashes. A crashed process is restarted: its messages are
redelivered, and other replicas are fair in any case. `SecondaryMarket` is checked
without fairness.

## 4. Proofs

Every theorem holds for all values of the constants that satisfy the named
assumptions of the module it is about. These say what the code guarantees of its
parameters (the farmer and the platform are different accounts, `initialize` accepted its
arguments, percentages are at most 10000 basis points, a batch has at least one
investor) and that the sets which are added up over or counted are finite: accounts,
messages, investments and copies of their messages, milestones. Bounds on faults,
crashes and time are any naturals.

**`EscrowContract_proofs`**: `TypeOK`, `Solvency`, `InvestorsWhole`, `PayoutExact`,
`RefundedOwnsNothing`, `ReleaseFinal`, `FrozenUnpaid`, `BatchRefundComplete`,
`BooksBalance` and the refinement `ImplementsLedger`. No property is inductive alone.
Solvency during an invocation depends on what is still to be paid, so the invariant
ties the queued payments to the books (`PayInv`, `Books`), the flag to the existence
of an invocation (`FlagInv`), the saved state to what a trap must restore
(`SavedInv`) and the local copies of the batch refund to the part of the loop already
done (`LoopInv`). For the sum and the refinement it is extended (`RInv`): the stakes
add up to `TotalFunded`, none is negative, and an open invocation has changed nothing
but what its kind may change. Each step then maps to the deposit, refund or payout of
the ledger that its return completes, or to a stutter.

**`EscrowRelease_proofs`**: `TypeOK`, `ExclusivePayout`, `DoneMeansCommitted`,
`CompletedMeansPaid`, and, for deals with at most one importer milestone,
`ExtraPayoutNeedsFault` and `LossNeedsCause`. The invariant `IInv` says which steps of a
job hold each lease and
that the key then exists (`Exclusive`), that a job past the payment call has paid
(`PaidInv`), and that nobody is left who could undo the rows of a completed deal
(`ConfirmedInv`). A payout is charged to the fault that made it possible by an
account over all jobs (`PayoutInv`); it needs `milestones <= 1`, see section 3.
`LossNeedsCause` is proved with every operation and fault: as long as nothing was
forgotten and no lease ran out, some message or request is still on its way to
the delivered deal (`Waiting`), and what takes one out of the way leaves another, an
alert or a completed deal.

**`DealFunding_proofs`**: `TypeOK`, `DeadStaysDead`, `ConfirmedIsBacked`,
`TotalNeverOverstated`, `ExactUnlessOverlapping`, `ExtraTokensNeedFault` and
`FundingDecided`. `ConfirmedIsBacked` assumes that only the job confirms (`"confirm"
\notin Ops`; a bare REST confirmation checks no payment); `BackedInv` says of each await
of a job what it has done: payment before tokens before status. The two about the total
assume `BooksOps`: the job does not run, since it confirms without writing the deal, and
nothing takes a confirmed investment back, since that leaves the total behind (section
3). `BooksInv` relates the total, the confirmed investments and what every open
confirmation has read; reading less than is committed is what an overlap costs.
`ExtraTokensNeedFault` and `FundingDecided` hold with every operation in use: `FundInv`
counts transfers made and jobs that may still make one, per investment (`Load`), and a
lease that changes hands without a fault changes neither.

**`Outbox_proofs`**: `TypeOK`, `SentWasCommitted`, `ProcessedWasSent`,
`OncePerWorker` and the refinement `ImplementsDelivery`, for any number of events and
processes. `OncePerWorker` is not
inductive: a copy sent in excess of the faults must be accounted for by a row that is
processed or about to be marked (`Quota`), and a stale claim of a row that another
worker has meanwhile processed must not have been sent by its holder (`BatchQuota`).
That a worker has one current row needs distinct `created_at` (`Dated`); two rows of
the same microsecond are not modelled. The invariant says before each emit that
`OutboxDelivery` allows the delivery, and before each mark that there was one.

**`StellarRelease_proofs`**: `TypeOK`, `OncePerRun`, `BatchesInOrder`, `SharesOfOneRun`,
`Conserved` (the escrow holds the value of the deal less the fee and what investors
received) and the refinement `ImplementsPayout`, for every list of investors, batch
size, number of fee attempts and of calls. For the first two, what a call may still pay
and what an earlier one left in flight must be subtracted from the counts (`RunOK`,
`Counts`). The reason they hold is the sequence number: transactions in flight that can
still be applied have the next number (`Follows`), so after any payment none of them can
be, and from its second batch on a call is alone (`Alone`). The amounts are a second
invariant (`MoneyInv`): in the first call every batch that is done has settled its
shares, and the running total is the sum of the shares of the batches built so far, or
more, or all of the pool, once something was built again (`Totals`), so that what the
last investor gets is the remainder or less. The shares are whatever the doubles of the
code yield, within a stroop; if they exceed the pool, the escrow cannot pay the last
transaction, and the release is not recorded. For the refinement, the guards of a
payment are these invariants after the step; that nothing follows the recording needs
that after the last batch every transaction in flight has a sequence number that is
spent (`Spent`), and a transaction pays only its own batch (`OwnBatches`).

**`FarmCampaign_proofs`**: `TypeOK`, `VerdictIsFinal`, `RaisedIsInvested`,
`RefundsBounded`, `ClosingSucceeds` and `ClaimsCovered`, for any number of investors,
milestones, rosters, windows and amounts. A milestone with a dispute stays frozen or
becomes released, or the campaign is past the point where it could be active again
(`Closed`), so no second dispute replaces the record. The bound on refunds and the sum
of the stakes need each other (`BooksInv`). `ClosingSucceeds` is about the rounding:
the residue of a split is smaller than the number of investors who can take one
stroop more. For `ClaimsCovered` the balance must also hold the part of the raise the
farmer has not had and the revenue not yet distributed (`CoverInv`); these are what
the three breaches take away.

The same module extends `DisputeListener` and proves `NeverAhead` and `Converges` of
it, for any number of processes and polls, any list of events, limit and look-back.
Neither is inductive, because polls hold rows and events that they write later.
`ListenerInv` is the bound from above: the row, every copy of it and every event
fetched show nothing that is not among the events of the chain, a statement that only
becomes truer as the chain grows. `ReplayInv` is the bound from below, as long as no
event was lost in one of the four ways (`damaged`): the row shows at least the events
that every process has read (`Floor`), and a poll whose process had read `s` events
and which has `i` of them behind it leaves the row showing these `i`, if the other
processes have read the `s` too (`Reached`). An event never takes back what an earlier
one has shown, except the first, which resets the row (`Ordered`); a process that
replays the first has by its own cursor read nothing, so that nothing is lost. Two
polls at work at the same time are a damage (`Alone`). Each step of a poll moves its
place in the list by one event, so no induction over sequences is needed. When every
cursor is at the head and no poll is at work, the two bounds meet.

**`SecondaryMarket_proofs`**: `TypeOK`, `FilledIsSettled`, `DormantUntouched`,
`TerminalIsFinal` and `SettledWithinSize`, for any orders, prices and replicas, and for
both answers of PostgreSQL to the makers' query. A sweep writes back rows it has read
before, so `BookInv` is about the copies as much as about the rows: what a copy claims
was settled, and a copy that is armed belongs to a stop whose price was reached. The
last depends on the price a sweep holds while stops are placed (`PriceInv`): a stop that
it reaches is counted as reached. `SettledWithinSize` needs more, since a stale copy
makes its holder settle too much: while no fault and no overlap happened (`ExactInv`),
the one sweep that runs has exact copies, and only a cancellation can have written an
older row, which ends the order.

`SumLemmas` proves that a sum over a finite set does not depend on the order in which
it is folded, and what changing one term does to it. The induction is over the subsets
of the set and its predicate is itself a set of subsets, since the provers cannot
instantiate an operator.

**Only model-checked.** The liveness properties (`DeliveredIsReleased`,
`ExpiredDrains`, `RowSettles`), which the prover does not reach, since it knows neither
fairness nor `ENABLED`. Every other property of a passing run is stated by a theorem,
some under the hypotheses named above.

## 5. What is not modelled, and why

* **Amounts in the backend.** `EscrowRelease` counts whole payouts; splitting and
  rounding are in `StellarRelease`. The sequence-number cache of `StellarService` has
  no effect to model: `loadAccountCached` reads the live account with or without a
  cached number (`B/stellar/stellar.service.ts:558-576`).
* **Disputes.** Evidence is a list nothing reads back. A dispute raised again on the
  same milestone cannot happen (`VerdictIsFinal`), so `DisputeListener` has one.
* **The event indexer** copies events to a table that only queries read.
* **The settlement contract** of the secondary market, and the farm campaign's
  factory.
* **Routing after the outbox.** The outbox processor emits to the queue
  `outbox-processor` (`B/outbox/outbox.processor.ts:40`); nothing under `src/`
  consumes it, and `main.ts` connects no microservice for `QueueProcessor`.
  Likewise `QueueService.emit` sends to the main queue while the escrow consumer
  listens to the escrow queue. These are facts of configuration without
  behaviour to explore, so the modules start where a message is delivered.
* **Redis failures** and the no-op mode of the leases.
* **Retrying a failed payment** needs a FAILED row of `transaction_logs` with a
  deal id, which no code writes; `RetryFailedPayment` models the service as
  written, given such a row.
* **`admin.alert`** has no handler; the alert of a dead letter is the log and metric.
* **`fundEscrow` without a signed transaction** submits an unsigned one; the
  checks before `createInvestment`'s transaction (wallet, sanctions, annual cap,
  fees) only restrict who may invest; the investment event log is never read
  back; `expireDeal` and several status setters have no caller.
* **Concurrent duplicates of one confirmation**, the campaign path of closing a
  deal and the credits of the payments monitor.
* In the contract, storage rent, events and authorisation signatures.

The rest of the backend, the other contracts and the frontend are listed in
`PROJECT.json` with the reason, a directory by its main file.

## 6. Plan

Done, in this order: escrow contract with its ledger; release of the escrow;
funding of a deal; outbox; payment batches; farm campaign; secondary market; dispute
listener; proofs for each of the eight, of all their safety properties; abstract
specifications of the contract, the outbox and the batches, with their refinements.

Next, the most important first:

1. **Abstract specification** of `EscrowRelease`, "a payout per delivery", composed
   with `BatchedPayout`.
2. **Publication of a deal**: `publishDeal`, `deal.publish`, `deal.cleanup`,
   composed with `Outbox`.
3. **Shipment milestones** in full: order of the milestones and partial releases.
4. **Payments monitor**: cursor, replay and `creditInvestment`, composed with
   `DealFunding`.
5. **Revenue distributor** and the settlement contract of the market.

## 7. Running it

    tlc -config MCOutbox.cfg MCOutbox
    tlapm Outbox_proofs.tla

`PROJECT.json` names the module and configuration of every run, and for every
property a mutation of the model, one plausible mistake in the code, under which
TLC finds it violated.
