# Apex-Omega v6: specifications, model checking and proofs

Apex-Omega looks for arbitrage on Polygon, plans two "punches" per opportunity
(C1, the aggressor, and C2, the surgeon, which acts on the state C1 leaves
behind), simulates each on a fork, and sends them through an executor contract
that borrows the capital with a flash loan. This directory holds TLA+
specifications of the parts that decide, send, number, record and settle, the
TLC runs that check them on small instances, and theorems checked by TLAPS.
`PROJECT.json` is the index: components, runs, faulty variants, the map from
definitions to lines of the source, findings, hazards and theorems.

Paths below are relative to the repository root; `core/`, `strategies/`,
`execution/`, `dry_run/` stand for the directories of that name under
`python/apex_omega_core/`. `runtime/`, `_quarantine/` and `*.bak*` are snapshots
of older code and are not considered.

    tlc -workers 2 -config Router.cfg MCRouter.tla     # one run
    tlapm ContractInvoker_proofs.tla                   # one proof module

## 1. The system

| Component | State | Operations | Talks to |
|---|---|---|---|
| ContractInvoker (`core/contract_invoker.py`) | switches, key | `invoke`: simulate, read nonce, estimate gas, send, record, await the receipt, record | RPC node, ExecutionStateStore |
| ExecutionStateStore (`core/execution_state_store.py`) | a JSONL file | `append`, `list_recent` | invoker (writer), dashboard (reader) |
| Canonical pipeline (`execution/pre_execution_pipeline.py`) | local variables of one call | the canon flow over injected functions | its caller |
| ExecutionRouter with C1AggressorApex and C2SurgeonApex (`strategies/`) | one cycle | `process_discovery_pipeline`: plan, simulate, execute C1, reload, plan, simulate, execute C2 | invoker, fork simulator |
| ExecutionStatsAccumulator (`core/`) | window of outcomes | `record`, `record_from_invocation`, `get_stats` | results of invoke; the estimates of C1 and C2 |
| NonceLaneManager (`core/lane_manager.py`) | lanes with a nonce each, a cursor | `sync`, `reserve_lane`, `mark_submitted`, `release_lane` | RPC node, concurrent callers |
| C2TriggerSystem (`core/c2_trigger_system.py`) | none | `await_c1_receipt`, `decide_and_build` | RPC node |
| MempoolWatcher (`core/mev_mempool_watcher.py`) | ring of pending transactions, connection flags | `run`, `stop`, `get_state` | websocket node |
| PoolStateCache (`core/pool_state_cache.py`, `core/redis_state.py`) | memory entries, Redis records | `put`, `put_async`, `get_async` | Redis, other processes |
| DashboardCoordinator over the scanner surface (`core/dashboard_coordinator.py`, `core/scanner_surface.py`) | last summary per token | `run`: scan, summarise, ask C1, ask C2, broadcast | scanner, C1 and C2 services, dashboard |
| DryRunOrchestrator, BlockCycleIndex, DryRunLogger (`dry_run/`) | counters, block index, seven files | `start`, `run`, `run_cycle`, `stop` | callbacks, RealtimeBus |
| Dry-run server and runner (`dry_run/dry_run_dashboard_server.py`, `run_first20_dna_dry_run.py`) | `RUNNER_STATE`, processes | start a runner, wait for it, `build_status` | the logger's files |
| DNALoggingSystem (`logging/dna_card_logger.py`) | counters, three files | `log_c1_card`, `log_c2_card` | its threads |
| LiveDataFeeds (`core/live_data_feeds.py`) | cached snapshot and expiry, last good state of each feed | `poll_cached`, stale fallback | price feeds, dashboard requests |
| SSOT pipeline (`python/ssot_pipeline/`, `core/ssot_pipeline.py`, `rust/ssot_pipeline/`) | local variables of one run | rank sizes, audit, decide, batch, executor boundary | its caller |
| DualPunch (`strategies/dual_punch.py`) | local variables of one cycle | Punch 1, mutate, variants of Punch 2, strike rules | its caller |
| RouteGraph (`core/route_graph.py`) | tokens and pools | `enumerate_cycles` | scans |
| UltimateArbitrageExecutor (`contracts/`) | context of the loan, balances | `executeArbitrage`, callbacks, settlement | Balancer V2/V3, Aave V3, DEX targets |
| InstitutionalExecutor (`contracts/`) | callback lock, balances | `initAaveFlash`, `initBalancerFlash`, callbacks, `rescueToken` | Aave V3, Balancer, routers |

The rest is listed with its reason in `PROJECT.json` under `components` and in
section 6.

How they interact. The router calls the strategies, they call the invoker, and
the invoker is the only one of the three that reaches the node; every
invocation leaves events in the store, which the dashboard reads. The results
of invocations are fed into the statistics, whose estimates the strategies
multiply their profit with. The invoker does not take its nonce from the lane
manager: that module is a component of its own, and so are the trigger, the
watcher, the cache, the canonical pipeline, the finalizer, the dual punch and the
route search, whose only callers in the repository are tests, scripts and
module-level singletons. The dry run is a second world beside this one: it has no
invoker at all and writes files, which its server, another process, reads.

Behaviours that are hard, and what correctness means there:

* The chain moves on its own. A transaction is pending, mined with success,
  mined reverted, evicted or replaced, and the invoker only sees samples of
  that. What it returns and logs must not contradict the chain (no success that
  is not in a block, no outcome without a submission, no hash it did not send).
* RPC calls fail with or without effect, appends fail, processes die between
  any two steps. No leg may be sent twice or uncleared because of it.
* C2 acts on a state C1 changed; other actors change it as well. The plan of C2
  must rest on a state that includes C1, and both legs on a simulation of
  their own.
* Threads, coroutines and processes interleave: the lanes at their lock, the
  watcher, the cache and the coordinator at their awaits, the dry run around its
  lock, the feeds without one, the server and its runner over the same files.
* Files are written in pieces; a cut piece must cost no more than itself.
* A choice among sizes, variants or routes must not miss the one it is for, in
  whichever order they come.
* The contracts settle in the callback of a provider they do not control, with
  route steps they do not control.

## 2. Modules

| Module | Models | State | Actions |
|---|---|---|---|
| `ContractInvoker` | `invoke` and the account's transactions on the node and in blocks | pc, result, nonce, store, transactions, mined count | one per RPC call or record of `invoke`; `Mine`, `Evict` (external); `Crash` |
| `CanonFlow` | abstract: what every two-punch cycle promises | verdicts and executions of both legs | one per step of the flow |
| `CanonicalPipeline` | the last `canonical_execution_pipeline` (the one Python keeps of three) | pc, version of the market, versions C1 and C2 rest on, report, log | one per injected call; `Raises`; `MarketMoves` (external) |
| `ExecutionRouter` (extends `ContractInvoker`) | `process_discovery_pipeline` and both strategies | cycle stage, plans, verdicts, outcome of each leg | one per call; the invoker's and the chain's steps in between |
| `ExecutionStats` (extends `ContractInvoker`) | the accumulator fed from `invoke` | window | record, restart |
| `NonceLanes` | the lane manager, its callers, the pool | lane nonces, activity, cursor, pool | one per method |
| `C2Trigger` | `decide_and_build` and its poll | poll count, block, C1's transaction | poll, stages of the decision; blocks (external) |
| `StateStore` | the file as bytes, and one reader | file, bytes still to write; the size and the events the reader opened the file with, its position, carried piece and lines | byte-wise append, crash; `OpenRead`, one `ReadChunk` per turn of the loop, `EndRead`, with appends in between |
| `MempoolWatcher` | one event loop | connection stage, delay, ring, clock | one per await |
| `PoolStateCache` | two processes, one Redis | memory, record, calls under way | one per await |
| `ScannerSurface` | pure selection, summary, intake, recompute rule | none | operators |
| `DashboardCoordinator` (extends `ScannerSurface`) | the scan loop | stage, tokens left, summaries kept and shown | one per await |
| `DryRun` | orchestrator, index and logger | stage, counters, the files | one per callback, write or deletion; `Fail`; `Stop` of another thread |
| `DryRunServer` | the server, the runner processes, a status request | `active`, one record per process, counts of the files, the request | one per write of a runner and per file read; `Restart`; `Raise` |
| `LiveFeeds` | `poll_cached` of several requests, the fallback | clock, stage and answers of each request, cache and expiry | poll, one per feed's answer, the two stores, `Tick` |
| `DnaCardLog` | the logger under several threads | counter, three files, step and buffer of each thread | one per append, read, truncation and write |
| `SsotFinalizer` | one run of the finalizer, in Python or in Rust | sizes' profits, best, verdict, batch | one per size, audit, simulated execution, plan |
| `DualPunch` | `run_dual_punch_cycle` | parameters, variants evaluated, choice | one per evaluation; what raises |
| `RouteGraph` | `enumerate_cycles` | graph, stack of paths, results | one per path taken from the stack |
| `FlashLoan` | abstract: what a contract that trades on a flash loan promises | provider, operator, order | `Lend`, `Commit`, `Undo` |
| `FlashExecutor` | one asset of UltimateArbitrageExecutor, its owner and the provider | balances, context, stage of the transaction, saved balances | one per phase and per route step; `Revert` |
| `InstitutionalExecutor` | both entry points, two tokens | lock, balances, stage, payload step | one per check, step and settlement; revert; `rescueToken` |
| `Services` (extends `NonceLanes`, instantiates the trigger, the store, the watcher and the cache) | nothing of its own | `part`, which service a behaviour is about | the steps of that service |
| `Planning` (extends `CanonicalPipeline`, instantiates the finalizer, the punch and the graph) | nothing of its own | `part` | the steps of that part |
| `Dashboards` (extends `DashboardCoordinator`, instantiates the dry run, its server, the feeds and the card log) | nothing of its own | `part` | the steps of that part |

`MC*` modules only give values to constants; `MCContracts` also puts the two
contracts beside each other. `*_proofs` modules hold theorems.
A definition that stands before another one and carries its name with a suffix,
under a comment "(A fault: ...)", is a plausible bug: replacing the definition
by it makes the run that owns the property fail (`mutants` in `PROJECT.json`).

Composition: `ExecutionRouter` and `ExecutionStats` extend `ContractInvoker`, so
the code of the router runs over the real steps of `invoke` and a chain that
moves between them. `CanonicalPipeline` and `ExecutionRouter` are both shown to
implement `CanonFlow`, and both contracts `FlashLoan`, through `INSTANCE ... WITH`
(properties `RefinesCanonFlow`, `RefinesFlashLoan`, `InstitutionalRefines`).
`Services`, `Planning` and `Dashboards` put parts side by side that share no state in
the code: there is nothing for them to interleave with, so each behaviour is of the one
part that `part` names, and the states of the run are the sum of theirs. (A runner of
`DryRunServer` runs the orchestrator of `DryRun`; the server's module keeps of its
cycles the lines a status counts.)

Abstractions. A state of the market or a plan is the version number it was
computed from. Profit arithmetic, calldata, gas prices and ABI encodings are
reduced to the verdicts they lead to, and the verdicts are nondeterministic. A
JSON line is two bytes and an end of line. A pool's state is the number of its
block. A row of the scanner has a pool, two prices and a confidence; its age is
a choice made when the staleness guard looks at it. Flash fees and basis points
are computed with the contract's formula. A step of a route draws and pays any
amount, since its target is arbitrary code; providers lend what was asked, call
back once, and end the loan only when repaid. The pool mathematics of the finalizer
and of the punch are the net profit they arrive at, any integer, or `NaN` where the
Python mathematics have no number; probabilities are parts of `Scale`. Of a price
feed's answer the time is kept, of the dry run's files, where the server reads them,
the number of lines.

## 3. Runs

Passing runs.

| Run | What it shows | Bounds |
|---|---|---|
| `Router` | the router over the real invoker and a moving chain implements the canon flow; broadcasts are cleared in their own cycle, C2's on a state that counts C1's trade exactly when C1 is reported a success (`BroadcastsAreCleared`), and then the trade is mined (`MutatedViewIsMined`); a leg is sent once; a cycle ends although the chain owes it nothing (`CycleEnds`) | 2 cycles, 4 calls, 3 transactions, lost replies, failing appends, raising planners, crashes |
| `Stats` | results and log agree with the chain (`SuccessIsConfirmed`, `StoreAgreesWithChain`, `OutcomeFollowsSubmission`), a dry-run invoker never broadcasts, and with receipts awaited the estimate is never optimistic | 3 transactions, 3 calls, a window of 2, every switch setting; symmetric in the transactions |
| `Planning`, pipeline | implements the canon flow; C2's plan includes C1 (`C2PlannedOnPostC1`); the report agrees with what ran | 2 calls, 5 market versions |
| `Planning`, finalizer | the size chosen is worse than the best by no more than the gas in Python, and not at all in Rust; only a positive edge is approved (`BestWithinGas`) | 3 sizes, profits 0 to 3 and `NaN`, gas to 2, a batch of 2 |
| `Planning`, punch | asking the best variant alone misses no variant that passes the strike rules (`NoStrikeIsMissed`) | nets -1 to 3, a scale of 2, up to 3 variants, probabilities outside 0..1 |
| `Planning`, graph | every cycle within the hops is found, and once (`EachCycleOnce`) | every graph of 4 tokens, hops 0, 2, 3 and 5 |
| `Services`, lanes | no two lanes carry one nonce, under syncs and abandoned lanes at any time; undisturbed, nothing is replaced and no gap remains unowned | 3 lanes, nonces up to 5 |
| `Services`, trigger | C2 runs only after a successful C1 and on a state of its block or later | poll of 3, 4 blocks, RPC failures |
| `Services`, store | the chunked backward read is the end of the file as it was opened, whatever is appended meanwhile; a crash costs at most one finished event | 4 events, 2 crashes, chunks of 2 bytes |
| `Services`, watcher | the buffer is the window of the fresh transactions; a stop ends the task once it runs | ring of 2, clock to 3 |
| `Services`, cache | a process never goes back to an older state, unless its own put overtakes its read | 2 processes, 4 blocks |
| `Dashboards`, coordinator | C1 is asked with the best pair of confident rows; C1's layer agrees with the scanner's; the loop goes on whatever raises (`CoordinatorLoops`) | 2 tokens, 2 pools, 4 quotes a pool |
| `Dashboards`, dry run | a pair in the files has both its cards, whatever raises, unless a reset broke off behind the deletion of the card file, and then no cycle runs on what it left (`PairHasBothCards`); a cycle is counted once the row of its block lists every pair of it (`RowsListPairs`) | 2 runs of 2 cycles, 2 blocks, a stop at any time |
| `Dashboards`, server | asked while no runner lives, a run shown as completed has passed its gate (`CompletedPasses`) | 2 runners, limits 1 and 2, restarts at any time |
| `Dashboards`, feeds | what is called LIVE or STALE is as recent as that, whatever the order of the unlocked stores (`ServedIsRecent`) | 2 requests, 2 feeds, clock to 4 |
| `Dashboards`, card log | no block is credited with more cycles than it has pairs; one thread at a time loses none, as long as no write of its own raises (`BlockTotals`) | 2 threads, 2 blocks, 3 cards |
| `Flash` | either contract implements `FlashLoan`: a loan is undone, or the provider is repaid with its fee and the profit is there; what the contract held is retained (`ProfitIsRetained`) | 2 loans each, routes and payloads up to 2 steps, 3 gains, 2 fees |

The bounds are chosen so that the interesting case happens: three transactions
let one be replaced while another is mined and a third pending; a window of two
under three calls drops one; chunks of two bytes over records of three cut
lines at every place; three lanes wrap the cursor and two would not tell
"next" from "other"; four quotes contain a tie, both edges and a row without
confidence; two blocks are enough to leave one and come back; three sizes put the
best before, between and behind the others; four tokens have cycles of every length
from 2 to 4; the second runner either meets an orphan of the first or clears up after
a reset that was cut short. Counters
(`MaxCalls`, `MaxCycles`, `MaxVersion`, `MaxEvents`, `MaxNonce`, ...) appear in
guards only and every one is a constant named in its module. Because of them
the bounded runs stop, and their cfgs say `CHECK_DEADLOCK FALSE`. The runs of the
contracts are checked for deadlock.

Five history variables keep apart what a caller may expect from what it may not.
`disturbed` (lanes) is set when nonces are dealt out a second time or a lane is
released unsent. `skewed` (coordinator) holds the tokens whose last request to
C1 failed or was skipped, or whose cycle broke off behind C1's output: the
summary is kept or lost regardless, and only C1's next output mends it.
`overtaken` (cache) holds the processes whose `get_async` a put has overtaken.
`overlapped` (card log) is set once two calls have been under way at once. `muddled`
(server) is set when a runner is started beside one that a restart has forgotten, or
dies inside the reset of the files; a runner that begins its reset alone clears it.

Runs that end in a violation. Each checks one statement of the repository's own
text, quoted in `findings`, that the code does not keep:

| Run | The code |
|---|---|
| `InvokerNonce` | takes the nonce at the latest block, so a second call replaces a pending one |
| `RouterReal` | with the real strategies a cycle dies between C1 and C2: the reload asks a dataclass for `.get` (`MappingResults = FALSE`; the other runs use mappings, as the tests supply them) |
| `StatsReverts` | records a revert as never included |
| `FlashAave` | pays Aave twice |
| `SsotSize` | ranks the sizes by their profit after gas against the best profit before gas, and passes over a better one |
| `DnaCards` | rewrites the card file without the lock, and loses a card that another thread has appended |

Further deviations that the models have, seen while they were written, and that
the properties above are stated around:

* `core/contract_invoker.py:599`: a failing append of the confirmation turns
  success off with `executed_onchain` on; the accumulator counts a revert.
* `core/contract_invoker.py:615`: with `APEX_WAIT_RECEIPT=0` a transaction in the
  pool is returned as executed on chain (hence `mode.wait` in
  `EstimateNotOptimistic` and `SuccessIsConfirmed`).
* `strategies/execution_router.py:139,154`: C2 goes on with C1's transaction still
  pending after a receipt timeout (and is sent with the same nonce), and after a C1
  plan that aborted; `docs/SYSTEM_ARCHITECTURE_DEV_HANDBOOK.md:177` has C2 wait for
  C1's inclusion. `CanonFlow` counts the step of C1 as taken when it ended in any
  outcome; `BroadcastsAreCleared` says which state C2 acts on in each case.
* `execution/pre_execution_pipeline.py:655,744`: a missing validator counts as a
  pass (`Validator = FALSE`); a function that raises after C1 was executed takes
  the log entry of the executed leg with it.
* `core/lane_manager.py:43`: `sync` deals new nonces to lanes in use.
* `core/c2_trigger_system.py:39`: `timeout_blocks` counts polls.
* `core/execution_state_store.py:107`: the next event continues a torn line and
  is lost with it (hence "at most one for each crash").
* `core/mev_mempool_watcher.py:225,242,88`: a stop before the first step of `run`
  is overwritten (`stopped = "early"`); the delay doubles after clean disconnects;
  `pending_swap_count` counts every transaction.
* `core/pool_state_cache.py:95`: a put made while `get_async` awaits Redis is
  overwritten with the older record (`overtaken`).
* `core/dashboard_coordinator.py:223,250`: a broadcast that raises keeps a result
  of C1 from C2, and an exception of C2 outside four types ends the cycle.
* `core/scanner_surface.py:231`: prices are compared with the summary of the cycle
  before, so that a drift below the threshold in every cycle never asks C1 again
  (`LayersAgree` claims the prices for a threshold of 0, status and venues for any).
* `core/live_data_feeds.py:50,370,428`: :50 has a state served as STALE for the
  fallback's lifetime, but the snapshot that holds it is served for the cache's lifetime
  on top. :370 has a cached snapshot younger than `ttl_s`; a slow poll that stores its
  snapshot between the two stores of a later one leaves it under the later expiry.
  `ServedIsRecent` grants both: the two lifetimes added up, and a poll over the cache's.
* `strategies/dual_punch.py:463`: the alternate routes of Punch 2 are evaluated on the
  reserves found, not on the mutated ones that :459 speaks of.
* `dry_run/dry_run_dashboard_server.py:45`: a restarted server forgets a living
  runner and starts another over its files (`muddled`). `:136,169`: without a summary
  the limit is the number of pairs, so that an unfinished or partly rejected run shows
  its gate as passed. `:252`: the answer to a start is taken after the lock was
  released.
* `dry_run/dna_logger.py:272`: a reset deletes the card file first and the pair file
  next. When a deletion in between raises, `start` has left `_running` off: pairs
  without cards stay in the files, and so does the old summary, until a later reset
  goes through.
* `dry_run/block_cycle_index.py:63`: a block seen again is numbered from 1 again.
  `dry_run/dry_run_orchestrator.py:113,117`: a run with a rejected candidate returns
  still running; C2 is evaluated before C1's payload is built.
* `contracts/UltimateArbitrageExecutor.sol:795`: with minProfit and reserves 0 a
  loss is committed.

## 4. Fairness

Liveness is stated under weak fairness of the code's own steps only: the
interpreter or the event loop runs a started call on (`FairRouterSpec` for
`CycleEnds`; `FairDashboardsSpec` for `CoordinatorLoops`, fair to the coordinator's
steps, where whatever is awaited answers or raises). Nothing is asked of the chain: no transaction has to be mined and the
receipt wait ends by its timeout. The watcher (`ServicesSpec`) needs one assumption on
its environment, that a node it listens to sends a message, closes or breaks
at some time, because `stop` is only looked at then; `Tick` is fair because time
passes. No fairness is placed on `Stop`, faults or crashes.

## 5. Proofs

TLC covers small instances; these hold for every value of the constants that
satisfies the module's named ASSUME.

* `ContractInvoker_proofs`: `TypeCorrect`, `SuccessConfirmed`, `StoreSound`,
  `DryRunSafe`, for any set of transactions, calls, switches and faults. The
  inductive invariant is `IInv == TypeOK /\ InFlight /\ DryRunNeverBroadcasts /\
  SuccessIsConfirmed /\ StoreAgreesWithChain`. `InFlight` says what the program
  counter knows about the transaction in hand (between send and outcome it was
  accepted, and result has not claimed success); without it the step that turns a
  receipt into a result has nothing to rest on. Chain steps are handled once,
  by the fact that a mined transaction never changes. `OutcomeOnce` (the log settles
  no transaction twice or before its submission) has an invariant of its own,
  `LogInv`, which adds what the log says of the transaction in hand; it rests on one
  lemma about a sequence with an element appended.
* `ExecutionRouter_proofs`: `RouterTypeCorrect`, `RouterRefinement`, `Cleared`,
  `OneBroadcast`, `MutatedView`: every safety property of the `Router` run, for any
  number of cycles. A step of the composition is a step of the invoker or leaves its
  variables alone, so `IInv` carries over and `RInv == IInv /\ RouterTypeOK /\
  Progress /\ C1Mined` adds the stage of the cycle: which verdicts stand, and that a
  C1 believed successful is mined. `OneBroadcast` counts: `Budget` says that a leg
  that may still send has been sent fewer times than there were cycles.
  `RouterC2Justified` (of `C2RestsOnOutcome`) rests on `Progress` as well: C2 is handed to execution when the
  step of C1 is over, whatever came of it, on the state its outcome calls for, and
  behind both simulations. It claims no execution of C1, which the router does not ask.
* `ExecutionStats_proofs`: `EstimateSound`, over the `IInv` of the invoker. `StatsIInv`
  says that the window holds each hash once (`WindowDistinct`), that an outcome counted
  as included has succeeded in a block (`IncludedSucceeded`), and that a result about to
  be recorded is backed by the chain and not yet in the window (`ResultBacked`). The
  numerator of the estimate is then a count of different successful transactions.
* `Planning_proofs`: all eight properties of the `Planning` run. `PlanningTypes`; of the
  pipeline `PostC1Planning`, `ReportSound`, and, with a validator, `Refinement` (every
  step is a canon step or a stutter) and `C2Justified`, which follows from it;
  `PipelineIInv` ties the program counter to verdicts and versions. `SizeWithinGas`, for
  any sizes and any profits, `NaN` among them: `SsotIInv` says that the best so far is
  the best of those ranked to within the gas, and that a batch totals what it counted.
  `StrikeFound`: `PunchIInv` orders the variants evaluated by their EV. `RoutesComplete`,
  the functional correctness of the search on every finite graph: `GraphIInv` says that
  the stack holds simple paths of which none begins another, or begins a cycle
  found, and that every cycle within the hops is found or begins with a path on
  the stack (`NoneLost`), so that an empty stack leaves none.
* `Services_proofs`: for any number of lanes, `NoncesDistinct` and `NoncesUnbroken`.
  Lane i stays on `base + i` modulo the number of lanes (`LanesOnLattice`); two lanes on
  one nonce would differ by a multiple of the number of lanes and by less than it.
  For `SequenceUnbroken` the invariant `Held` says what the node's pool holds while
  the lanes are undisturbed: the nonces below `base`, and of each lane those it has
  passed. `ExecutesAfterC1`, for any poll and any number of blocks. `WindowIsFresh`, for
  a ring of any size: what was dropped was old or displaced by as many as fit.
  `CachesNeverOlder`, the action property of the cache, for any processes: nothing
  is newer than the chain, and a `get_async` under way found nothing and nothing was
  put since (`StillMissing`), which is why the record it brings cannot replace a newer
  one. `ReadIsWhole` and `LossBounded` of the store, for any chunk size and any number of
  events and crashes, with the reader at work while events are appended: `ReadSoFar` says
  that the pieces of the opened file are those of the bytes still to read, with the
  carried piece behind them, followed by the pieces already seen; a turn of the loop
  keeps it because splitting `a \o x` splits x first and hands its first piece on
  (`PiecesBehind`). `FileIntact` counts the events that no line of their own holds, and
  one more while the file ends in a torn line (`Behind`), against the crashes; the
  reader has of it what was true when it opened the file. What `Pieces` and `NonEmpty`
  compute is proved by an induction over the numbers, as in `Dashboards_proofs`.
  `ServicesTypes` for all five services.
* `Dashboards_proofs`: `IntakeBestPair` and `LayersAlwaysAgree` for any finite set of
  tokens, any pools and quotes (`CoordinatorIInv`: what each stage of the cycle knows of
  the summary in hand and of the one the output of C1 was computed for).
  `PairsHaveBothCards` and `RowsListAllPairs` of the dry run, for any number of runs,
  cycles and blocks, whatever raises (`DryIInv`: which numbers are in the card file, the
  pair file and the row of the block at each stage of a cycle, and which of the files are
  gone at each stage of a reset). `CompletedHavePassed` of the
  server, for any number of runners and restarts (`ServerIInv`). `ServedRecently` of the
  feeds, for any number of requests, feeds and lifetimes (`FeedsIInv`: every time
  kept or in hand lies between the clock and the lifetime it was admitted with).
  `BlockTotalsHold` of the card log, for any number of threads and lines however the
  rewrites overlap and tear the files: `Credited` says that no record, in the file or
  about to be written, counts a cycle that is still to count (`Left` sets those aside),
  and `Exact` that threads taking turns have the totals in the file or in the buffer of
  the one that rewrites it. What a rewrite keeps (`OthersKept`) is a recursion over the
  lines; the induction it needs is proved from the well-foundedness of the numbers, as a
  statement about a set of numbers (`NatInduct`).
  `DashboardsTypes` for all five.
* `FlashExecutor_proofs`: `TypeCorrect`, `Refinement` (every loan is one of
  `FlashLoan`), and `ProfitSound`, the last for a positive minProfit and a provider
  other than Aave; `FlashAave` shows what the second condition is for, and with
  nothing required a loss is committed. `Accounted` says, phase by phase, what has
  become of the balances since the transaction began.
* `InstitutionalExecutor_proofs`: `TypeCorrect` and `Refinement`, for every payload,
  with `InstitutionalAssumption` as hypothesis of the theorems. Its `Accounted` ties
  lock, stage and balances together in the same way.

Only model-checked: liveness (`CycleEnds`, `StopEnds`, `CoordinatorLoops`; TLAPS has
no ENABLED); and `InstitutionalRefines`, which is the refinement of `InstitutionalExecutor`
stated for the composed run (the theorem is in `InstitutionalExecutor_proofs`).

## 6. Not modelled, and the plan

The reasons stand with each component in `PROJECT.json`; in short:

* Floating point: AMM and slippage formulas, the search for a size inside a punch,
  the gas oracle's fill model, price impact and scoring. Their results are real
  numbers, and TLC and the provers have none; where a decision hangs on one, the
  model takes every value of a small set.
* Pure predicates and tables: execution gates and the dry-run guard, the lane
  scheduler, registries, data classes, ABI and calldata encoders, `intake.py`. They
  keep no state, and a model would be their transcription.
* One call and out: bundles and relays, discovery, the web routes of `app.py`, the
  registries and payload builders under `backend/` (`live_executor` builds a
  transaction and never sends one). What a relay makes of a bundle is not in the
  repository.
* `RealtimeBus`: a bounded history and a call of every subscriber under one lock. The
  lock is not reentrant (`dry_run/realtime_bus.py:133`), and no subscriber of the
  repository calls back.
* Single-threaded scripts: `python/dry_run.py`, the bots, the back-tester, the
  deployment and repair tools.
* Of modelled components: `simulate_only`, the envelope builders and the RPC
  resolution of the invoker; latency and liquidity statistics; Merkle proofs,
  allowances and the provider registry of UltimateArbitrageExecutor, whose Curve mode
  has no callback and never commits; contents of cards beyond their keys; writes that raise and
  `reset()` of the card log. A call whose write raises leaves a pair without its count,
  as one thread's own loss. `reset()` ("use with caution") is called by tests alone; a
  rewrite under way would put back what it deletes.

What could follow, most useful first: the server over the full `DryRun`
module instead of its counts; the events of `RealtimeBus` with a subscriber that
unsubscribes.
