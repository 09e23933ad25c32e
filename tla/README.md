# A formal model of the gas auction bot

TLA+ modules, TLC configurations and TLAPS proofs for the bot in `src/`: a Rust
program (tokio) that watches an Ethereum mempool, looks for transactions worth
outbidding, and bids for them with a replacement ladder under a circuit breaker,
gas caps, an ROI floor and a daily spend limit.

Contents: [the system](#1-the-system), [the modules](#2-the-modules),
[how they fit together](#3-how-the-modules-fit-together),
[the runs](#4-what-the-runs-check), [fairness](#5-fairness),
[the proofs](#6-what-is-proved), [the disagreements found](#7-where-the-code-and-its-documentation-part),
[what is left out](#8-what-is-not-modelled), [the plan](#9-plan).

To repeat everything, in this directory:

    tlc -workers 2 -config MCExecutorThree.cfg MCExecutor     (and the other runs of section 4)
    tlapm ExecutorProofs.tla                                  (and the other modules of section 6)

Source paths below are relative to the repository; the Rust files are under
`src/src/`, named here without that prefix.

## 1. The system

    WebSocket node --> MempoolSubscriber --> main's select! loop --> worker pool
                       (two tasks, two         (refresh, Ctrl-C)      | permits
                        bounded channels)                             v
    RPC endpoints <--- ConnectionManager <---- every task       OpportunityDetector (Mutex)
                       (failover, backoff)                            |
    chain         <---------------------------------------- ReplacementExecutor (Mutex)
                                                             NonceManager, SafetyGuard

| component | state | operations | what makes it correct |
|---|---|---|---|
| **Replacement executor** `execution/replacement.rs` | `pending_submissions` (hash to attempts), the local variables of the monitoring loop | `execute_opportunity`, `submit_and_monitor`, `monitor_until_settled`, `attempt_replacement` | one bid tracked per opportunity; at most 1 + 3 bids, one nonce; every execution ends; reports match the chain |
| **Nonce manager** `execution/gas_auction.rs` | `next_nonce` | `sync_from_chain`, `allocate_nonce`, `release_nonce` | no gap, no nonce shared by two live bids, next nonce not used already |
| **Gas auction calculator** `execution/gas_auction.rs` | none | `calculate_replacement_gas_price`, `calculate_bump_from_current` | a bump is strictly higher, nothing passes the cap |
| **Safety guard** `execution/safety.rs` | `consecutive_failures`, `daily_spend_wei`, `spend_day_started` | `preflight_check`, `record_success/failure/spend` | nothing is sent with the breaker open; the limits mean what they say |
| **Transaction building** `execution/gas_auction.rs` | none | build, sign, encode | (a signed transaction is a record here) |
| **RPC provider pool** `blockchain/connection.rs` | per endpoint: failure counter, `backoff_until`, health gauge; `round_robin_index` | `attempt_providers` behind every RPC wrapper, `record_success`, `record_failure` | a call fails only if every endpoint did; a backoff ends; the gauge is right |
| **Mempool subscriber** `blockchain/mempool.rs` | connection state, two channels, LRU cache with TTL | `subscription_loop`, `process_pending_hashes`, `is_duplicate` | no duplicate let through early; the stream resumes if the node answers; nothing lost for good |
| **Transaction parsing** `blockchain/transaction.rs` | none | `parse_transaction`, ABI decoding, `wei_to_eth` | nothing that decodes is mistaken for something else; amounts that panic do no lasting harm |
| **Opportunity detector** `analysis/opportunity.rs` | bounded priority queue | `evaluate`, `classify_opportunity`, `enqueue` | the queue keeps its bound and its best score; what it finds pays for its gas |
| **Profitability, risk** `analysis/profitability.rs`, `analysis/risk_assessment.rs` | none used | estimates and scores | no profit where there is none |
| **Worker pool** `runtime/worker.rs` | semaphore, tasks, `active_workers` | `spawn_analysis`, `resolve_network_state`, `handle_opportunity` | permits balance, panics included; every transaction settles |
| **Network state cache** `runtime/network_cache.rs` | last state and its time | `get`, `update`, `snapshot` | there before anyone needs it; how stale it can be; it catches up with the chain |
| **Main loop and shutdown** `main.rs`, `runtime/shutdown.rs` | `select!`, refresh interval, shutdown flag | startup, loop, drain | it comes up on what is configured; refreshes are not starved; Ctrl-C is noticed; readiness is withdrawn |
| **Metrics and health server** `metrics/server.rs`, `metrics/collector.rs` | readiness flags, counters | `/health`, `/ready`, `/metrics` | readiness tells the truth |
| **Configuration** `config/settings.rs` | settings | `load_from_sources`, `deserialize_rpc_urls`, `validate` | its guarantees are the assumptions of the modules |
| **Logging, errors, value types** | none | | |

Interactions. Every RPC goes through one shared `ConnectionManager`. The
detector and the executor are each behind a tokio `Mutex` (first come, first
served): an execution holds the executor's for as long as it takes, up to a
minute and more, while the workers behind it keep their permits, so backpressure
reaches `main` inside a branch of its `select!`, and through the channel of the
mempool the two subscriber tasks and the WebSocket. The executor records its own
failures in the safety guard, and `handle_opportunity` records some again.

What is hard to test here: a send whose answer is lost though the transaction is
in the network; a receipt that appears between two polls, or for a superseded
hash; the deadline against the receipt; sequences of allocations, releases and
restarts; callers that interleave inside `record_success` and `record_failure`
of the pool; eviction against expiry in the LRU cache; everyone waiting behind
one execution; workers that fetch the network state together and overwrite each
other's; a start on endpoints of which some fail, lag, or are on another chain;
Ctrl-C at the wrong moment. `PROJECT.json` lists each of these at
its line ("hazards") with the properties that cover it.

## 2. The modules

**GasAuction** - the pricing arithmetic as integer operators. `Bump` is
`Percent::apply_to` with its truncation. A price above the maximum is an error,
not a clamp, as in the code.

**Executor** - the executor with its nonce manager and safety guard, as driven
by `worker::handle_opportunity`, against a chain.

| in the module | in the code |
|---|---|
| `pc` | the `.await` at which the executor is: `submit` and `resend` are inside `send_raw_transaction`, `receipt` and `recheck` inside the two receipt requests, `top` the head of the monitoring loop |
| `Execute`, `Refuse` | `execute_opportunity` up to its send: pricing, `preflight_check` (breaker, soft cap, ROI, day reset, daily limit), nonce, signature; or the error |
| `SubmitAccepted`, `SubmitFailed` | the two ends of `submit_and_monitor`'s send; a failed one releases the nonce and counts a failure. `LostSend`: the node may have the transaction all the same |
| `PollReceipt`, `Drop`, `Confirm`, `NoReceipt`, `ReceiptError`, `RecheckMined` | the branches of `monitor_until_settled`, in its order: deadline first, then receipt, sleep, second look |
| `Replace`, `ReplaceRefused`, `ReplaceAccepted`, `ReplaceFailed` | `attempt_replacement` and the update of `pending_submissions` |
| `Settle`, `WorkerFailures` | the end of `handle_opportunity`, which adds a failure for Dropped (and none for Rejected) |
| `Mine`, `DeadlinePasses`, `DayPasses`, `Restart` | the chain, the clock, the process |

A step runs from one `.await` to the next, which is all that can interleave:
one worker at a time holds the executor's `Mutex`. `status`, `sent` and
`dayConfirmed` are history. The chain may include any transaction that has
reached a node, superseded or not, whenever its nonce is next, and a receipt
request may fail to see it.

**BidLifecycle** - what the executor promises, with neither chain, nonces'
bookkeeping nor clock: opportunities one at a time, one nonce each, a first bid
and at most `MaxRaises` strictly higher ones, one final outcome. `Executor`
implements it (`Lifecycle == INSTANCE BidLifecycle WITH ...`): `active` is `opp`,
`bids` is `sent`, and `raises` is the `Raises` computed from
`pending_submissions` and the history of what was sent.

**ProviderPool** - `attempt_providers` of several callers over shared endpoints.
`Begin` is the wrapper's call with the round robin; `Skip`, `Request`, `GiveUp`
the loop; `Answer` and `FinishSuccess` the two halves of `record_success` around
its `.await`; `Fail` and `FinishFailure` those of `record_failure`. Time is
counted in initial backoffs.

**Mempool** - both tasks of the subscriber, at their `.await`s, with the two
bounded channels between node, tasks and `main`. `dedup` is the `LruCache`, most
recently used first, each entry with the age of its time stamp. `recency` and
`since` are history, and say the same from outside, without a cache. `attempt`
is the counter of the `ReconnectPolicy`, `delay` the delay it is in.

**Runtime** - `main`, the worker pool, the network cache and the queue. `main`
is at one `.await`; `stage[tx]` is where the worker of a transaction is;
`waiters` is the FIFO of the executor's `Mutex`, its holder first; `queue` is the
heap's scores in some order, and `Highest` the position `peek` sees. `signal` says
whether some `ctrl_c()` future exists that heard the signal.

**TransactionService** - what main and its workers promise, with neither cache,
refresh, detector nor permits: transactions are taken in the order in which they
came, at most `WorkerCount` at a time, executed one at a time in the order asked
for, and none is taken once the service drains. `Runtime` implements it
(`Service == INSTANCE TransactionService WITH ...`): `queued` is the transaction in
main's hands, which waits for its permit, before those of the channel (`Queued`),
`working` are the stages with a permit, `line` is `waiters`.

**Transaction**, **Profitability**, **RiskAssessment**, **Opportunity** - the
analysis of one transaction as operators, each module extending the one before:
`ParseTransaction` and the filter `Passes`; `GrossProfit`, `TotalCost` and
`RoiPercent`; `RiskScore`; and `Evaluate`, which gives "panic", "opportunity" or
"declined" for a transaction and the congestion of a block. Amounts are integers
in units of a fraction of an ether; `U256` saturates and `u128` overflows where
they do in the code, at widths that are constants. The `f64` steps of an
estimate become one integer fraction that is truncated once.

**Analysis** - where the network state an analysis uses comes from.

| in the module | in the code |
|---|---|
| `stage[t]` | the task's `.await`: `number` is `get_block_number`, `block` the two timed requests after it |
| `CacheHit`, `CacheMiss`, `Fetched`, `FetchFailed` | the branches of `resolve_network_state`: `get`, then a fetch and `update`, or `snapshot` |
| `RefreshTick`, `Refreshed`, `RefreshFailed` | the refresh branch of main's `select!` |
| `Panic`, `Declined`, `Found` | `evaluate` with the state resolved, by what `Opportunity!Evaluate` says |
| `Updated`, `Fresh` | `NetworkStateCache::update` and `get`: the age counts from the *store*, not from the fetch |

Each request goes to the next endpoint of the rotation, which may be behind the
chain: `NumberAnswered` is answered with any block from `Lag` blocks before the
head on. `read` is the age of a state since its block number was answered,
`missed` the block a worker found expired: both are history.

**Settings** - `Settings::load`: the four sources in the order of their
priority, the forms of `rpc_urls`, the widths of the integers, and `validate`
over values that may be NaN. **Startup** - `main` up to its loop, one step for
each `.await`: every RPC is a round of `attempt_providers` over the endpoints
(`start`, `offset`, `failures`, `backoff`), on the `settings` that the sources make
of the `world`, with the stages `chainId`, `nonce`,
`number`, `block`, `gasPrice` in the order in which main makes them. `Subscribe`
derives the URL of the WebSocket and has the two tasks of the subscriber spawned,
no more: when `/ready` turns 200 nothing need have connected yet. From there on
`process_pending_hashes` makes calls of its own (`OtherCall`).

**MCExecutor**, **MCRuntime**, **MCAnalysis**, **MCStartup** - the instances for
TLC. **ExecutorProofs** and the other modules ending in `Proofs` - the theorems.

## 3. How the modules fit together

`Executor` extends `GasAuction`, and implements `BidLifecycle`; `Runtime` implements
`TransactionService`; `Analysis` extends the four modules of the estimate, `Startup`
extends `Settings`. The others share
no variables, and meet where what one module assumes is what another one shows:

- `ExecutionEnds` of `Runtime` stands for a whole execution of `Executor`; that
  it comes is `ExecutionSettles`.
- `Consume` of `Mempool` is `Receive` of `Runtime`, that main gets back to it is
  part of `EveryTransactionSettles`; `Arrive` of `Runtime` is `Forward` of `Mempool`.
- a request in any module is a call of `ProviderPool`: it ends, in an answer or
  an error, and nothing more is assumed of it.
- `Startup` ends where `Runtime` begins: `GasPriceAnswered` is `StartUp`, each
  way into "exited" is `StartUpFails`. `StartsAsConfigured` is what the ASSUMEs of
  `GasAuction`, `Executor`, `ProviderPool`, `Runtime`, `Transaction`,
  `Profitability` and `RiskAssessment` ask of the settings.
- `Evaluate` of `Opportunity` is behind the constants `Score` and `Panicking` of
  `Runtime`, and behind `AdmittedAssumption` of `Executor`. That a score of 0 can
  stand for "declined" is the theorem `OpportunityScored`, that every opportunity
  meets the threshold on the gas of its replacement is `OpportunityPays`, and that
  `Analysis` may take its transactions as parsed ones is `ParsesToParsed`.
- `FoundPays` of `Analysis`, at any state of the network, is what
  `AdmittedAssumption` of `Executor` asks of an opportunity.
- `RefreshHappens` of `Runtime` is behind the fairness of main's refresh in
  `Analysis`.

## 4. What the runs check

| run | configuration | asks |
|---|---|---|
| `exec_three` | `MCExecutorThree` | with three opportunities in a row and a restart: `FailuresBounded`, `OffersWithinSoftCap`, `NoNonceGap`, `NonceNotShared`, `ConfirmedIsMined`, `NoSendWhileOpen`, `BreakerLatched` |
| `exec_ladder` | `MCExecutorLadder` | with the whole ladder of replacements: `TypeOK`, `BidsBounded`, `OneTrackedBid`, `WindsDown`, `ExecutionSettles`, `ImplementsLifecycle` |
| `provider_pool` | `MCProviderPool` | `TypeOK`, `FailoverComplete`, `CallsShrink`, `BackoffEnds` |
| `mempool` | `MCMempool` | `TypeOK`, `NoReadmission`, `StreamResumes`, `MissedIsRetried` |
| `runtime` | `MCRuntime` | `TypeOK`, `PermitsAccounted`, `ReadyMeansServing`, `BestScoreKept`, `EveryTransactionSettles`, `RefreshHappens`, `ImplementsService` |
| `analysis` | `MCAnalysis` | `TypeOK`, `StateAgeBounded`, `OwnFetchNotOlder`, `TokenTransfersDeclined`, `FoundPays`, `CacheCatchesUp` |
| `startup` | `MCStartup` | `TypeOK`, `StartsAsConfigured`, `ConfiguredChainOnly`, `ReadyAfterStartup`, `StartupSucceeds` |
| `exec_daily_spend`, `exec_roi`, `exec_drop`, `exec_nonce`, `runtime_ctrl_c` | | one statement of the documentation each, violated: section 7 |

What the passing properties say:

- `NoSendWhileOpen`: the breaker is read before the send's `.await`, and still
  holds after it. `BreakerLatched`: with the breaker open nothing is in flight
  whose success could reset it, so only a restart closes it.
  `FailuresBounded`: the double count passes the limit by one at most.
- `OffersWithinSoftCap`: no replacement bump ever passes the cap.
- `NoNonceGap`: whatever the order of allocations, releases, lost answers and
  restarts, each nonce below `next_nonce` has reached a node. `NonceNotShared`: a
  nonce is used again only after a rejection (or a restart).
- `BidsBounded`: a failed replacement send is not counted as an attempt and may
  have reached a node, and still there are at most four different bids, since the
  next one is computed from the same current price. `OneTrackedBid`: a replacement
  swaps the entry of `pending_submissions` and leaves none behind; only an execution
  that ends in an error (`?` in the loop) does, one entry at most.
- `ConfirmedIsMined`: of all the transactions sent for an opportunity, superseded,
  dropped, lost or left behind by a restart, the chain takes at most one, and
  exactly one if the opportunity is reported as confirmed.
- `ExecutionSettles`: no sequence of errors keeps the lock for good. `WindsDown`:
  an execution past its deadline ends within four steps, whatever its requests answer.
- `FailoverComplete`: endpoints enter and leave backoff while a call goes round
  them, and the call still tries each once. `CallsShrink`: nothing the other
  callers do puts the end of a call off. `BackoffEnds`: late writes of
  `backoff_until` do not prolong a backoff for good, however many calls go on.
- `NoReadmission`: a hash among the last `CacheCapacity` different ones, let
  through within the TTL, is not let through again: false for a cache that
  evicts in another order. `MissedIsRetried`: a hash whose fetch failed, and
  which is then a duplicate for the TTL, gets through if it keeps arriving.
- `StreamResumes`: neither the delays nor a full channel keep the subscription
  loop from its stream, if the node answers (`NodeAnswers`): an attempt to connect
  or to subscribe has no timeout (`mempool.rs:139`), so one that is never answered
  holds the loop for ever.
- `EveryTransactionSettles`: permits, the executor's lock and main's wait
  for a permit inside its loop never form a circle, and a worker that panics
  does not keep its permit. `RefreshHappens`: a flood of transactions does not
  starve the refresh. `ImplementsService`: a transaction is worked on by one
  worker, panics, the drain and a channel that fills while main waits for a permit
  included; nobody overtakes on the way to the executor.
  `BestScoreKept`: the full queue pops its *highest* score
  (`peek` and `pop` of a max-heap, under the name `lowest`), but only to push a
  higher one, and keeps its bound. No more than the one best score is kept: see
  section 7.
- `StateAgeBounded`: a state an analysis uses, unless the node failed to answer,
  is younger than the time to live of the cache *and* a fetch: the time of a
  slow fetch is not counted by the cache. (The age counts from the answer; the
  block answered may itself lag.) `OwnFetchNotOlder`: a worker that had to
  fetch uses what it fetched, and falls behind what it saw expire by no more than
  the endpoint that answered lags, though a slower one may have overwritten the
  cache with a still older block by then. `CacheCatchesUp`: such overwriting does
  not last. With a lag both allow the cache to move back: nothing in the code
  compares block numbers.
- `TokenTransfersDeclined`: with the shipped slippage tolerance (0.5 %, the rate
  of the estimated capture) no token transfer is ever an opportunity, at amounts
  where `U256` saturates and where the conversion panics as well.
  `FoundPays`: what is found returns `MinRoi` percent on the gas of its
  replacement, counted exactly, though amounts saturate, percentages are truncated
  and the price is bumped in between.
- `StartsAsConfigured`: whatever the sources say, the settings in force satisfy
  the assumptions of the other modules (NaN and negative bounds apart, section 7),
  and an emergency stop in the environment is not undone by a file.
  `ConfiguredChainOnly`: a start past the chain check is on the configured chain
  if the endpoints agree; only the endpoint that answered is checked, so with
  endpoints on different chains nothing of the kind holds.
  `ReadyAfterStartup`: `/ready` is 200 only when the network state is there, and
  the nonce if the bot may submit, whatever calls have failed on the way; it speaks
  of no WebSocket and of no endpoint's present health (section 7).
  `StartupSucceeds`: one endpoint that answers is enough,
  wherever it is, through the backoffs that earlier calls leave behind.

Bounds, and why they are enough:

- *Executor.* Bids start at 110 (a victim of 100, a bump of 10 %) or from
  the network floor. The soft cap is 165 for the ladder: after 110,
  121, 133, 146 it would let 160 through, so that only the count of attempts stops
  the ladder there, and after 120, 132, 145, 159 it refuses the next. It is 125
  for the three opportunities, which refuses the second replacement and the higher
  floor. Two failures open the breaker: with three opportunities it is met
  open, half-way and reset; two of them are enough for the ladder, where what
  counts happens within one. `MaxRestarts` is 1: a second restart begins where
  a first did, but for what is left in the pool. The daily limit of 221 refuses
  a third opportunity after two confirmations on one day; in `exec_daily_spend` it is
  300, above what any one submission costs (242) and below what two do (440), so
  that a counter of what was spent would hold it. The opportunities of `exec_three`
  are alike, and symmetric; no liveness is checked under symmetry.
- *ProviderPool.* Two endpoints are the least with a failover and two callers
  the least with a race; the counter stops at 3, where the gauge turns and
  the delay (1, then 2 units) has met its cap.
- *Mempool.* Three hashes over a cache of two, so that there is an eviction in
  every order, channels of one element, so that each of them is full, a TTL of
  two ticks, so that an entry is new, older and expired; delays double twice and
  meet a cap that is no power of two.
- *Runtime.* Two workers (one holds the executor, one waits, `main` waits
  for a permit), three transactions that come again without end: one that scores 1
  or 3 or is declined, as the network is, one that scores 2, one that panics. The
  queue holds two, the least for its highest and lowest to differ.
- *Analysis.* Two workers and main, so that three fetches overlap; three
  blocks and a lag of one, so that the cache can move back and forth between a calm
  block and congested ones that turn the risk threshold; a time to live
  and a fetch of one tick each, so that states expire while they are fetched.
  The transactions are on each side of every threshold: transfers of 0, an ordinary
  amount, the last amount whose capture converts and the first that panics, and
  the largest `U256`; cut-off calldata; swaps from nothing to more than the
  liquidity; a gas limit whose product with the price saturates; no
  target, no gas price, little value. `MaxBlock` bounds the chain.
- *Startup.* Each setting at its bounds and beyond, in the file, in a file that
  is missing and under another source; each form of `rpc_urls`; two endpoints
  with any chains, failures and lags; two or three of which only one is
  reliable, the last one included, with and without a wallet. Three endpoints
  are enough for a call to find the others in backoff and the good one last.

Deadlock is checked for `Mempool`, `ProviderPool` and `Analysis`, which never
stop. It is not for `Executor`, where everything may be executed and mined, and
for `Runtime` and `Startup`, which end.

Each property of a passing run has a mutant in `PROJECT.json`: a plausible bug
(a dropped guard, an attempt not counted, a lock not released) under which TLC
finds it violated.

## 5. Fairness

- *Executor*: weak fairness of `ExecutorStep` (every RPC is under
  `tokio::time::timeout` in `attempt_providers`, every sleep is finite) and of
  the clock's step to the deadline. Nothing is assumed of the chain: that
  anything is mined at all is not needed for `ExecutionSettles`.
- *ProviderPool*: weak fairness of each caller's steps (timeouts; the locks are
  held for one assignment) and of the clock. No call is required to be made.
- *Mempool*: weak fairness of the retry after a delay, of both sends into channels,
  of the second task (its requests are under timeouts), of main's receiving and of
  the clock. None of `Connected`, `Subscribed` and `ConnectionLost`, nor of their
  failures: connecting and subscribing have no timeout (`mempool.rs:139` and 144),
  so that an attempt which hangs is allowed, and what `StreamResumes` needs of the
  node is its hypothesis, `NodeAnswers`. Strong fairness of `Fetched(h)` is an
  assumption on the node: tried again and again, it succeeds at some time.
  Announcing is not fair: a silent node is allowed.
- *Runtime*: weak fairness of main and of each worker (the scheduler of tokio,
  timeouts, `ExecutionSettles`). Strong fairness of the branches of `select!`:
  it starts at a random branch, so one that is ready again and again is
  taken with probability one. The branches of a `biased` select! would not
  deserve it (that is a mutant). The `Mutex` needs no strong fairness: it is
  FIFO, and modelled as a sequence.
- *Analysis*: weak fairness of main (scheduler, timeouts); none of the workers.
  Strong fairness of main's `NumberAnswered` and `Refreshed` is an assumption on
  the node: of the refreshes that are made again and again, some succeed. Weak
  fairness would not do, as each request may fail instead of being answered.
- *Startup*: weak fairness of main's step, since each request is under a timeout. Of
  the endpoints nothing is assumed but what `world.reliable` says: those never
  fail. That backoffs end is not assumed either, and not needed.

## 6. What is proved

Eight modules ending in `Proofs` hold theorems for every value of the constants:
any finite sets of opportunities, callers, hashes and transactions, any number
of endpoints and workers, any capacities, limits and prices. Every safety and
action property that a passing run checks is one of them, and both refinements.
`AllFailedMeansNoneAsked` and `WebsocketIsFirst` have a theorem and no run of their
own; `QueueBounded` is part of `BestScoreKept`.

| module | its theorems: the property each states |
|---|---|
| `ExecutorProofs` | `TypeCorrect`: `TypeOK`; `FailuresStayBounded`: `FailuresBounded`; `OffersStayWithinSoftCap`: `OffersWithinSoftCap`; `NonceGapFree`: `NoNonceGap`; `NonceUnshared`: `NonceNotShared`; `BidTracked`: `OneTrackedBid`; `NothingSentWhileOpen`: `NoSendWhileOpen`; `BreakerStaysOpen`: `BreakerLatched`; `LateExecutionWindsDown`: `WindsDown`; `Refinement`: `ImplementsLifecycle` |
| `ExecutorCountProofs` | `BidsStayBounded`: `BidsBounded`; `ConfirmedHasOneMined`: `ConfirmedIsMined` |
| `ProviderPoolProofs` | `PoolTypeCorrect`: `TypeOK`; `CallsFailOver`: `FailoverComplete`; `AllFailedAskedNone`: `AllFailedMeansNoneAsked`; `CallsComeToAnEnd`: `CallsShrink` |
| `MempoolProofs` | `MempoolTypeCorrect`: `TypeOK`; `NoneReadmitted`: `NoReadmission` |
| `RuntimeProofs` | `RuntimeTypeCorrect`: `TypeOK`; `PermitsAddUp`: `PermitsAccounted`; `ReadyOnlyWhileServing`: `ReadyMeansServing`; `QueueStaysBounded`: `QueueBounded`; `BestScoreNeverLost`: `BestScoreKept`; `Refinement`: `ImplementsService` |
| `EstimateProofs` | about the estimate of one transaction: `ParsesToParsed`, `SwapEstimate`, `SwapGrossProfit`, `OpportunityPays`, `RiskInRange`, `OpportunityScored`, `OrdinaryNeverPanics` |
| `AnalysisProofs` | `AnalysisTypeCorrect`: `TypeOK`; `StateNeverTooOld`: `StateAgeBounded`; `OwnFetchStands`: `OwnFetchNotOlder`; `TransfersDeclined`: `TokenTransfersDeclined`; `OpportunitiesPay`: `FoundPays` |
| `StartupProofs` | `StartupTypeCorrect`: `TypeOK`; `SettingsAsAssumed`: `StartsAsConfigured`; `OneChainIsConfigured`: `ConfiguredChainOnly`; `ReadyIsComplete`: `ReadyAfterStartup`; `WebsocketStaysFirst`: `WebsocketIsFirst`, a fact that the documentation denies (section 7) |

Each module of a state machine has besides a theorem `Invariance`
(`CountInvariance` in `ExecutorCountProofs`) for its inductive invariant, from
which the others follow.

**Assumptions**, all named in the modules and evaluated by TLC on the instances:

- what `Settings::validate` guarantees, and types: `GasSettingsAssumption`,
  `ExecutorAssumption`, `PoolAssumption`, `MempoolAssumption`, `RuntimeAssumption`,
  `FilterAssumption`, `ProfitAssumption`, `RiskAssumption`;
- `NoTxAssumption`, `NaNAssumption`: null values that are nothing else;
- `AdmittedAssumption`: the detector hands over only what meets the threshold, which
  `OpportunityPays` proves of the detector;
- `BumpVisibleAssumption`: a bump of the minimum price is at least one unit; in
  wei, with the settings that are shipped, by a wide margin;
- `PowerAssumption` (of `ProviderPool` and of `Mempool`): the powers of two up to the
  bound of the exponent are natural numbers, which the provers do not know;
- `WidthAssumption`: the largest `U256` passes the largest amount that converts,
  as 2^256 passes 2^128 ether by far;
- `AnalysisAssumption`: the transactions are parsed ones that pass the filter;
- `WorldAssumption`: the value of a key has the type of that key.

**The arguments.** Hardly one of the properties is inductive. The invariants add:

*Executor.* `ControlInv`: what the executor holds at each `pc` - the one running
opportunity, a `signed` or `cur` transaction of it, and at `resend` that the
signed one is the bump of the current one. `TrackingInv`: exactly the current hash
of the running opportunity is tracked, with an attempt left wherever a replacement
may follow; without it `TypeOK` is not inductive (the attempts would pass three).
`EntriesInv`: an entry of an opportunity that does not run is of one that ended in
an error, with no second entry beside it.
`BreakerInv`: the breaker is *closed* during a whole execution, which is what
makes a check before an `.await` good after it: nobody else counts failures while
the lock is held. `BidInv`: the bids of the running opportunity share a nonce and
are no higher than the current one, but for the one computed from it, which a
lost answer may have left in the pool; this is why retried replacements add no
fifth bid, and why each new bid is strictly higher (with `BumpRaises`).
`NonceInv`: every nonce below the account's has been in the pool, and at `submit`
the nonce being sent is the last allocated, so a release takes back exactly that
one. The delicate step of the refinement is `ReplaceFailed` followed by `Replace`:
the same transaction is sent again, which has to be a stutter of `BidLifecycle`,
and is, because `Raises` looks at what was sent and not only at the counter.

`WindsDown`: only the head of the monitoring loop looks at the deadline, and still
a late execution has four steps left at most, one replacement among them. It needs
only that a deadline runs nowhere but in the loop (`DeadlineInv`), and the rank
`StepsLeft`.

*Executor, counting.* `MinedInv`: the chain has one transaction per nonce, hence
one of an opportunity, whose bids share theirs. `LadderInv`: of the bids of the
running opportunity, those up to the current price are at most one more than the
attempts its entry has counted. The bid that a lost answer left behind is above
that price, so it is not counted twice when it is sent again.

*ProviderPool.* `CallInv`: at offset n a call has failed on, or skipped, each of
the n endpoints from its start on, round the end of the list. Callers share the
endpoints, but what a call knows about them is its own, and that is why no
interleaving breaks the failover. For the same reason `StepsLeft` of a call is
lowered by each of its own steps and by no other: `CallsShrink`.

*Mempool.* `LruInv`: the cache *is* the first `CacheCapacity` of the hashes as an
observer lists them, most recent first, each with the time since it was let
through. `NoReadmission` speaks of the observer only and follows at once; the
work is in the steps that move an entry to the front or evict the last one.

*Runtime.* `InboxInv`: the channel holds each transaction once, at the stage
"inbox", so that no transaction has two workers and the permits add up.
`BestScoreNeverLost` rests on `GreatestElement`: a sequence of scores that is not
empty has a highest one, and it leaves only for a higher; that a full queue gives
one up for each it takes is `QueueStaysBounded`, at a bound of 0 as well. For the
refinement `LineInv` adds that the line for the executor holds each transaction
once, and exactly those at the stages of an execution. Each step of main or of a
worker is then a step of the service or a stutter: the receiving of a transaction
is one, as main's hands are still the head of `queued`, and its spawning is `Take`,
for which `PermitsAccounted` provides the free place.

*Analysis.* `AgeInv`: a state is stored at most a fetch old, and has aged since by no
more than the cache has counted. `BlockInv`: a worker that fetches is answered with a block
older by `Lag` at most than the one it missed, as the chain only grows and nobody
answers with a block from beyond its head. The two theorems
on estimates are about one transaction: `TransfersDeclined` from the bounds of
the truncating divisions, `OpportunitiesPay` from `OpportunityPays`.

*Estimates.* The operators are proved about directly, for every transaction and
every setting. `OpportunityPays` puts together that a saturated product is the
product where the conversion to ether does not panic, and that a truncated
percentage which reaches a whole bound does so before it is truncated.
`SwapGrossProfit`: up to a tolerance of 1.13 % the spread between the placeholder
quotes is at least the capture of a sandwich, and so is the gross profit.
`OrdinaryNeverPanics` says where panics are confined to: with a slippage tolerance
of at most 100 % (`validate` does not look at it), gross profit and
cost are no more than what is moved and burnt, so one that does not convert needs
an amount that does not. `RiskInRange` bounds the weighted sum of the four risks.

*Startup.* `FirstInv`: the call for the chain id asks the first endpoint first, and
the call for the nonce asks it last, so that it has failed at most twice before
the URL of the WebSocket is derived: for any number of endpoints, even one, it is
that of the first, healthy or not.
`ChainInv`: who answered the chain id is on the configured chain.
`GainInv`: what each stage has asked for is there; `SettingsInv`: main runs on
settings that `validate` accepted.

**Only model-checked:** liveness. `ExecutionSettles`, `BackoffEnds`, `StreamResumes`,
`MissedIsRetried`, `EveryTransactionSettles`, `RefreshHappens`, `CacheCatchesUp` and
`StartupSucceeds` need fairness and `ENABLED`, which the proof system does not handle.
Of `ExecutionSettles` and of the end of an RPC the safety half is proved: the ranks
of `WindsDown` and `CallsShrink`, which only fair steps are needed to bring to 0.

## 7. Where the code and its documentation part

Each of these is a run in which TLC exhibits the behaviour; `PROJECT.json`
quotes the line that says otherwise.

1. `exec_daily_spend`: `record_spend` is given gas units (`replacement.rs:206`)
   and adds them to a counter of wei, so the daily limit does not bind: a first
   confirmation that cost 220 is counted as 2, a second submission of 220 is let
   through, and 440 are spent under a limit of 300. A counter of wei would have
   refused the second.
2. `exec_roi`: the ROI floor is tested against the estimate the opportunity
   was detected with (`safety.rs:67`), not against the price that is offered.
3. `exec_drop`: the deadline is tested before the receipt, and only the newest
   hash is polled, so a submission with a mined transaction may end as
   dropped and count as a failure (`replacement.rs:189`).
4. `exec_nonce`: a send of which only the answer was lost gives its nonce back
   (`replacement.rs:152`); once it is mined `next_nonce` is a used nonce, and
   nothing reads the chain again.
5. `runtime_ctrl_c`: Ctrl-C while main is inside another branch of its
   `select!`, or heard in the same poll in which another branch is taken, is
   lost, for its listener is created by each `select!` (`main.rs:171`). A later
   Ctrl-C may be noticed.

Met on the way, without a run of their own:

- "Draining in-flight work" (`main.rs:172`) is a sleep of 10 s, though an execution
  monitors its transaction for up to 60 s and others wait for their turn behind
  it: what is in flight when it is over is killed with the process, and nobody
  raises or records that transaction any more (`Exit` of `Runtime`, `Restart` of
  `Executor`).
- A dropped submission is counted twice, by `monitor_until_settled`
  (`replacement.rs:191`) and by `handle_opportunity` (`worker.rs:164`), so the
  breaker opens after fewer failed submissions than configured (`README.md:217`);
  `FailuresBounded` is true to this.
- A success between the two halves of `record_failure` leaves the gauge at
  unhealthy with a failure counter of 0 (`connection.rs:528`); `gauge` in
  `ProviderPool` shows it.
- An endpoint is skipped after its first failure and not only after three
  (`docs/ARCHITECTURE.md:93`), reconnects are capped at 30 s and not 60 s
  (`docs/ARCHITECTURE.md:94`), and a price above the maximum is refused rather than
  clamped (`gas_auction.rs:94`).
- `websocket_url` is documented as that of the first healthy endpoint
  (`connection.rs:190`, `docs/ARCHITECTURE.md:10`); it is the first one's, dead or
  not, because no endpoint can have three failures when it is derived, and it is
  not derived again (theorem `WebsocketStaysFirst`).
- The counter of the reconnect policy is reset when a connection is made, before
  the subscription (`mempool.rs:141`), so the delays do not grow while a node takes
  connections and refuses subscriptions, though the backoff is said to be
  exponential (`docs/ARCHITECTURE.md:94`); and neither attempt has a timeout
  (`mempool.rs:139`), so one that hangs ends the stream for good.
- The queue compares a new score with what it calls its `lowest`, which is its
  highest (`opportunity.rs:165`): with room for more than one it does not hold the
  best `max_queue_size` scores.
- `/ready` goes on saying yes when every endpoint has become unhealthy, as
  `rpc_healthy` is computed once (`main.rs:86`), and says yes before, and without,
  any WebSocket connection.
- `/ready` is said to give 503 on a chain mismatch or without RPC
  (`README.md:178`); in `Startup` such a start ends the process instead.
- NaN passes every test of `validate` but that of `soft_gas_cap_ratio`, and so do
  gas price bounds below zero (`settings.rs:253`), though "validation runs at
  startup so bad values fail fast" (`README.md:96`).
- Workers that miss the cache together all fetch (`worker.rs:90`), though the cache
  "avoids redundant fetches within TTL window" (`docs/ARCHITECTURE.md:63`).
- When `evaluate` panics `active_workers` is not decremented (`worker.rs:75`); the
  permit is returned.
- Nothing calls `record_execution_outcome`, so the historical success rate of the
  risk score is a constant (`opportunity.rs:159`); nothing takes from the queue.
  With that rate no score is above 74 (`RiskInRange`), so a `max_risk_score` of 74
  or more, which `validate` accepts up to 100, turns the risk gate off.
- The quotes of a swap are placeholders (`profitability.rs:286`), so its estimated
  spread is a fixed share of the ether it sends (`SwapEstimate`), the same for every
  token and every state of the markets. For the same reason the sandwich class
  (`docs/ARCHITECTURE.md:52`) never occurs: the quotes always differ by more than
  0.3 %. Above a slippage tolerance of about 1.13 % what is classed as arbitrage is
  priced by the capture of a sandwich (`profitability.rs:150`, `SwapGrossProfit`).

## 8. What is not modelled

- *The chain*: reorganisations, eviction and replacement rules of the nodes' pools
  (a superseded transaction may be mined as long as its nonce is free), and the
  status of a receipt: the code does not read it, so a reverted transaction is a
  confirmed one here and there.
- *Executor*: signing errors (none for the in-memory wallet), the emergency stop
  after the start (nothing sets it then), slippage in the cost, block timings.
- *ProviderPool*: `race_providers` (not called by the program), request counters.
- *Mempool*: the error and end branches of main's receive, which no sender uses.
- *Runtime*: the gauge `active_workers`, the shutdown watch channel, which only
  the HTTP server reads, the length of the drain.
- *Estimates*: rounding inside the `f64` computations (one truncation remains),
  addresses, token ids, hashes; the `SuccessRateTracker`, which is never fed.
- *Startup*: reading of files and parsing of their syntax, opening of the log
  file, the keys that only logging uses.
- *Not at all*: HTTP parsing, counters and histograms, logging, error types.

## 9. Plan

Done, in this order: `GasAuction`, `Executor` with its runs, its invariant and
proofs, `BidLifecycle` and the refinement, `ProviderPool`, `Mempool`, `Runtime`;
then the estimates, `Analysis`, `Settings` and `Startup`, the reconnect delays in
`Mempool` and the panics in `Runtime`; then `TransactionService`, and the theorems
about the estimates.

Next, extending the model:

1. `Runtime` and `Executor` composed in one state space, in which the exit cuts an
   execution off with its transaction in the pool. Today the two meet in
   `ExecutionEnds`, `Exit` and `Restart`.
2. Blocks that are taken back, if the code ever waits for confirmations.

Next, proving: that `Startup` implements the first step of `Runtime`, as a
refinement like that of `BidLifecycle`; an abstract subscriber that `Mempool`
implements, in the terms of its observer (`recency`, `since`); and ranks like those
of `WindsDown` and `CallsShrink` for the calls of `Startup`.
