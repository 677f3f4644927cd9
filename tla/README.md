# Verification of pi-chain-tools

TLA+ models of the stateful parts of pi-chain-tools (Gradience), the TLC runs
that check them on small instances and the proofs TLAPS checks about them. Paths
are relative to the root of the repository; `server.mjs` is
`apps/dashboard/server.mjs`.

## 1. Inventory

The repository is a library of blockchain tools for agents, a dashboard server
that moves real funds, one Solidity contract, and scripts around them. The
state that can go wrong is in a few places.

| Part | State it keeps | Operations | What is hard | What makes it correct |
|---|---|---|---|---|
| **NEAR rebalance** (`server.mjs` 8616-9426) | `REBALANCE_STATE` (active run, recent runs, cooldown, daily count), `REBALANCE_METRICS`, the account's balances on chain | withdraw, guard, swap, supply, roll back, reconcile | twelve awaits in a run; commands that time out after they took effect; failures half way; restarts | one run at a time, limits kept, counters add up, funds left behind leave a trace, the lock is released |
| **ACP job queue** (`server.mjs` 4919-5103) | `ACP_ASYNC_JOBS`, the worker flag, a copy in the metrics file | submit, run, retry, retry-batch, retry-retryable, dismiss, purge | the worker writes to a row others change; backoff; last in, first out; a crash at any point | attempts bounded, no repeated success, backoff respected, dismissed jobs rest, no lost wakeup |
| **Payments, entitlements, ACP gate** (`server.mjs` 4461-4917, 5427-5468, 10524-10792) | payments, entitlements, processed events, job history, daily count | create, confirm, webhook, purchase, execute | redelivered events; check before and consumption after an await; an older file after a restart | granted once, no use lost or made, no run repeated, daily limit kept |
| **Files of the dashboard** (`server.mjs` 1887-2187) | metrics, policy, marketplace | save without waiting, load at boot | writes that overlap or are cut off | what a restart reads is some earlier state |
| **BSC yield worker and executors** (`server.mjs` 3237-4412, 8787-8910, 9428-9592, 12618-12985) | `BSC_YIELD_WORKER`; the wallet on chain | start, stop, tick, execute; plan, swap, supply | ticks that overlap; the hold is read before and set after a trade; executors tried one after the other, each of which may throw after its transaction was taken | no trade begins within the minimum hold after one that went well; no request supplies more than it swapped or swaps past its target |
| **Monad, deBridge, PI-MCP** (`server.mjs` 1663-1862, 5252-5291, 7441-8600, 11387-11640) | the record of deposits, the delegations and their file, worker and execution state | deposit, submit, revoke, tick, claim | limits read before and recorded after the awaits; a fallback that deposits again; writes of a file that pass each other | caps and cooldown kept, what was revoked stays revoked |
| **EVM agent worker** (`src/chains/evm/tools/agent-worker.ts`) | map of workers, error counter, timer | start, stop, cycle | stop and start while a cycle is awaited; failed executions that do not count as errors | only the registered worker begins cycles, an ended one begins none, workers go on until they are stopped |
| **NEAR yield worker** (`src/chains/near/tools/yield-worker.ts`) | the same | the same; sends nothing | the same, and an early return for a paused worker | the same |
| **BscAutonomousStrategy** (`contracts/hyperliquid-autonomous/contracts/`) | cycle state, nonce, roles, pause | run a cycle, recover, configure, pause | a router that fails or calls back | nonces used once and in order, nothing runs when halted |
| **Autonomous cycle scripts** (`scripts/hyperliquid-autonomous-cycle.mjs` and its helpers) | a state file: live lock, replay table, last live time | guard and mark, execute, finalise | processes that share a file; a lock that expires; a crash between two writes | one live run, no replay, minimum interval, a lock left behind is taken over |
| **Workflow tools** (`src/chains/{sui,evm,solana,near,kaspa}/tools/*workflow.ts`) | sessions by run and the latest one, Polymarket's requote counters, NEAR's plans, Kaspa's expiring tokens | analysis, simulate, compose, execute | calls of one process interleave at every await and rewrite each other's session; tokens that outlive the process | nothing goes to mainnet unless exactly that was shown and confirmed; a plan is handed out once; requotes are limited |
| **Auto-migration, security watch, CI, evidence scripts** | little | one-shot | flock, retries | - |
| **Other chain tools, core, MCP, PI** (`src/`) | none | compose, read, send | data: encodings, addresses, amounts | - |

How they interact. An HTTP route submits a job to the **queue**; its worker calls
`executeAcpJob`, the **gate**, which looks at payments and entitlements and calls
`executeAction`, where the **rebalance** runs (or a BSC executor). The route
`job/execute` calls the gate without the queue. All of it is one Node process:
code between two awaits is atomic, and anything may run at an await. Queue and
history are carried over a restart by the metrics file, payments and entitlements
by the marketplace file, both saved best effort; `REBALANCE_STATE` and the day
counter of the gate are not saved. The modules compose along these calls by
abstraction: `AcpQueue` sees the gate as an outcome of `executeAcpJob`,
`Marketplace` sees `executeAction` as executed, planned or failed.

The position workers, the cycle script and the workflow tools run in processes of
their own: they share nothing with the dashboard but the chains. The three workers
are alternatives in one specification, and so are the seven workflow tools.

The hazards this list leads to are in `PROJECT.json`, each at its line, with the
properties that cover it or the reason why none does.

## 2. Modules

| Module | What it is |
|---|---|
| `RunRegistry` | abstract: one rebalance at a time, no second start of a run id that has ended |
| `Rebalance` | the saga of `executeAction`; implements `RunRegistry` |
| `RebalanceProofs` | theorems about `Rebalance` |
| `AcpQueue` | the queue, its worker, the operator's routes, the metrics file |
| `AcpQueueProofs` | theorems about `AcpQueue` |
| `Marketplace` | payments, webhooks, entitlements, the gate of `executeAcpJob` |
| `MarketplaceProofs` | theorems about `Marketplace` |
| `CycleLedger` | abstract: committed cycles in one numbered sequence that a failure halts |
| `AutonomousStrategy` | the contract, its roles, call-backs and reverts; implements `CycleLedger` |
| `AutonomousStrategyProofs` | theorems about `AutonomousStrategy` |
| `AutonomousCycle` | the cycle script's processes and the state file they share |
| `AutonomousCycleProofs` | theorems about `AutonomousCycle` |
| `WorkerRegistry` | what the two workers of the tool library share: the map, the objects, the timer, the end of a cycle |
| `AgentWorker`, `YieldWorker` | their programs on top of it |
| `BscYieldWorker` | the worker of the dashboard, which ticks by an interval |
| `Workers` | the three as one specification, with the properties |
| `WorkersProofs` | theorems about `Workers` |
| `ConfirmationGate` | abstract: nothing is sent to a guarded network but on a ticket that was announced and holds |
| `WorkflowSessions` | the session store, the tokens and the steps the workflow tools share |
| `SuiWorkflow`, `EvmWorkflow`, `PolymarketWorkflow`, `SolanaWorkflow`, `NearWorkflow`, `KaspaWorkflow` | each tool's own steps (`EvmWorkflow`: transfer and swap, and Venus) |
| `Workflow` | the tools as one specification; implements `ConfirmationGate` |
| `WorkflowProofs` | theorems about `Workflow` |
| `MorphoDeposits` | deposits on Monad: risk controls, executors, reconciliation, record |
| `DelegationGate` | the delegations in front of them, and the agent file |
| `BscExecution` | swaps and supplies on BSC: plan, swap, cascade of executors |
| `Executors` | the three as one specification |
| `ExecutorsProofs` | theorems about each of them and about `Executors` |
| `MCRebalance`, `MCAcpQueue`, `MCMarketplace`, `MCAutonomousStrategy`, `MCAutonomousCycle`, `MCWorkers`, `MCWorkflow`, `MCExecutors` | constants of the small instances |

Operators whose comment begins with *Fault* or *Mutant* are not part of the models:
each is a plausible bug, a changed copy of the operator after it. `PROJECT.json`
("mutants") names, for every property, a fault that breaks it, so each property
is known to depend on the code it is about.

### Rebalance

One action per stretch of code between two awaits of the run:

| Action | Code | Next await |
|---|---|---|
| `Begin` | runId, `beginRebalanceRun` | first snapshot |
| `ReadBefore` | arguments, `usdcBeforeRaw` | withdraw command |
| `Withdraw` | step 1 and its fallback over `RPC_ENDPOINTS` | quote |
| `QuoteAndGuards` | quote, `enforceRebalanceGuards` | swap command |
| `Swap` | step 2, or into the rollback | balance / rollback command |
| `Rollback`, `RollbackAlerted` | inner catch | alert / - |
| `ReadAfter` | `supplyOutRaw` | supply command |
| `Supply` | step 3 | last snapshot |
| `Reconcile` | metrics, `markRebalanceExecuted`, `endRebalanceRun` | - |

Every action may end in `Catch`, the outer catch of the transaction, which counts
the failure and ends the run in the same atomic step. A command's *report* (ok,
transient, other error) and whether the chain *applied* it are chosen
independently, except that a withdrawal that is reported ok was applied; the swap, the
supply and the rollback are transfers, which their receiver may refund while the
report is still ok.
`runNearCommandWithRpcFallback` sends again after a transient report, whatever the
chain did. `misreported` remembers that a report was false. The ledger is four
balances. USDt and USDC.e are counted apart: a swap delivers `minAmountOutRaw` (a
choice of `MinOuts`: the caller's, or a share of a quote at any rate) or more, up to
`MaxOut`, a bound of the model. A residual of up to 10 raw units, which the code
accepts, counts as 0. Amounts are at least 1, as `parsePositiveRaw` guarantees. Two
histories are kept for `CollateralAccounted`: `refunded`, the USDt of rollbacks
reported ok that Burrow refunded, and `promised`, the minimums of the successes.

### AcpQueue

A row is a job object; the worker keeps its reference while the queue changes.
`Wake` is `processAcpAsyncQueue` up to its await, called at the end of `Enqueue`,
`Requeued`, `Finish` and `Restart` as the code calls it. `Verdict` is what
happens after the await. `Save` is any of the unawaited `saveMetricsToDisk` calls
taking effect; `Restart` reads the file back, with running rows queued again.
`Lasting` are the jobs with targetChain bsc: their execution may wait for the receipt
of a transaction for ever, with the worker.

### Marketplace

`Update` is `applyPaymentStatusUpdate`, with the flag `paid` absent, true or
false. `Start` is `executeAcpJob` up to its await with all refusals in order;
`NotExecuted`, `Executed` and `Record` are what follows. `tally` records uses
bought and consumed and is saved with the market, so the accounting is about one
consistent past. `Overlap` tells whether jobs also come through `job/execute`;
`GrantsApart` whether entitlements are created in different milliseconds.

### AutonomousStrategy

Transactions are atomic, so one action is one external call, with one exception:
`runDeterministicCycle` gives control to the router. `RunDeterministicCycle` is
the function up to that call and pushes a frame; `RouterSucceeds`, `RouterFails`
and `RouterReverts` are what follows the router's answer and pop it. In between,
contracts (`Contract`, never an origin) may call any function of the contract
with whatever role they hold. A frame holds the storage its revert restores, and
`Committed` is the storage other transactions see: the one below all frames. The
state `Executed`, set and left within one stretch of code, is not visible and not
modelled, and neither are the other events, `transitionId` and the token
addresses. A route that does not match its hash, an amount of 0 and an overflow
of `lastExecutionAt + cooldownSeconds` revert, as every refusal does, and change
nothing. Roles other than the two may be granted but are never read.

### AutonomousCycle

A process is one invocation with `--mode live`; an invocation that is refused may
be repeated. `file` is the state file, `mem` the copy each process works on.
`Load`, `GuardAndMark`, `WriteMark`, `StartCommand`, `EndCommand`, `Report` and
`WriteFinal` are the way of a run that goes through; `Refuse` is the guard that
throws, `ExecRefused` a refusal of `hyperliquid-exec-safe.mjs` or a snapshot that
throws, `HoldBlocked` and `HoldReport` the early return outside the try block.
`WriteFinalFails` is a write that throws: in the try block the catch finalises the
same copy again, elsewhere the process ends with the lock held. `Crash` may come
anywhere after the mark. Time is kept as ages, because the code compares ages: no
clock has to be bounded. Histories (`raced`, `sinceOk`, `executed`, `forgotten`)
are read by properties only. `raced` becomes true when a process writes a mark from
a copy the file no longer equals: then the lock promises nothing, and the
properties say nothing. That this can happen is a hazard of the code, listed at line 432.

### Workers

`WorkerRegistry` has the steps both loops of the tool library have; `pc` is where a
cycle awaits. An object is started once and may be stopped, paused by errors or
replaced in the map while its cycle is under way; `CycleDone` and `CycleFails` are
the two ends of a cycle and arm the timer as the code does, by the object's own
status. `AgentActs`, `AgentBuilt`, `AgentSends` and `AgentSendsLast` are the
transactions of a cycle; none looks at the status. `AgentExecutionFails` is the
inner catch, after which the error counter is reset. `YieldPausedCycle` is the early
return. `BscYieldWorker` is one object whose ticks overlap; `tick` is where each
awaits. The decision whether to act is a choice: no property depends on prices.

### Workflow

A session is network, intent and what it holds (a token, a plan, a plan handed out).
A *ticket* stands for a token: the digest of run, network and intent; Kaspa's names
no run and expires. `announced` is the set of tickets whose token the caller was
shown, by analysis, by simulate or by the message of a refusal. A call that awaits is
a record of what it captured, with its phase: what it does afterwards uses that, not
the store. A call leaves out arguments that the code fills from a session, or names
them itself; both end in a run, a network and an intent, which the actions choose. A
call without a token is confirmed by the session (`SessionConfirmed`), where the
tool allows it. Differences between the tools, each in its module: which modes await,
what a failed simulation remembers, whether an execute writes the session, what the
guard is and whether it stands before or after an await. Networks are two, *mainnet*
(those where the tool asks for confirmation) and *testnet*.

`submitting` in `Workflow` maps a call between its guard and its return to its
ticket; under it every tool implements `ConfirmationGate`. Preparing calls of
Polymarket, Solana and Kaspa do not submit yet.

In `PolymarketWorkflow` each requote takes its own limit, one of `Limits` or none
(`requoteMaxAttempts` is optional); an intent of the model stands for all intents that
differ in it alone. `attempts` is the Map the code keeps, lost at a restart.
`placed[run][n]` counts the orders placed by requotes with a limit of at most n, through
restarts; `forgotten` counts the restarts that lost attempts of a run; `overlapped` holds
the runs where a requote once read the attempts while another had yet to write them,
for good: nothing is promised of those any more, and their orders are not counted further.

### MorphoDeposits

A request is *new*, *begun* (the risk controls passed), *prepared* (the balance was
read), *sent*, and then done, failed or, at a restart, lost. `BeginDeposit` and `Refuse`
are the synchronous start of the route, `Finish` all that follows the second balance
read without an await: the record, the reconciliation and the proof. `Fail` is a throw
at any await; with the SDK and its fallback on it leads to `ReadBalance` again, with
`path` native, and the first transaction may still be pending. `moved` is what has
left the account, and a balance is the value of `moved` when it was read. The record
`exec` holds its age instead of a time, the day and the amount used; `Save` is a write of the
metrics file by any other part of the server, because a deposit does not write it.
Histories say what the properties need to exempt: `overlapped` (a request was admitted
beside another), `adrift` (an attempt was given up whose transaction may still be
applied), `forgot` (a restart brought an older record back).

`answer.proven` is what the route puts into `boundaryProof`: it reads a field `ok` of
the reconciliation (line 12584), which is called `reconcileOk` (8220), so it is never true.

### DelegationGate

`Submit` and `Revoke` change the rows in memory and wait for `mkdir`; `TakeImage` is
the serialisation of the rows before `writeFile`; `Land` is the end of that write and
the answer. Requests that save for another reason (`SaveOther`) do the same. Nothing
orders the writes. `SaveFails` answers too, because the error is only logged, and may
leave a file that does not parse. `faulted` becomes true when a write fails, is cut
off, or lands after one whose image is younger.

### BscExecution

`Begin` is the plan (`Plan`) or a direct swap (`AskSwap`); `ReadBefore`, `SendSwap`,
`SwapRejected`, `FinishSwap`, `SwapFails` are `executeBscSwap`; `SendSupply`,
`FinishSupply`, `SupplyFails` the supply by the executors of `RouteOf`, one after
another until one does not throw; with the swap disabled (`SkipSwap`) the request goes
on with the quote. A broadcast that the node refuses for nonce or price was not
accepted, as ethers reports it; every other throw may follow an accepted transaction,
and leaves it as `stray`. One wallet plans, swaps and supplies. The quote is at any of
the `Rates` (`QuoteAt`), read anew for each swap; the swap delivers no less than the
quote less `Slippage` (`MinOut`), and no bound from above is taken from the code: it may
deliver more than the quote, by a `Windfall` that only keeps the run finite. The plan
counts both coins as equal, as the code does. The Venus executor's result has no `ok`
(`SupplyResult`), so the request that used it ends as failed.

`Executors` puts the three side by side, as `Workers` and `Workflow` do: they share no
state, so a behaviour is of one of them.

## 3. Runs

| Run | Question | Bounds |
|---|---|---|
| `Rebalance` | all of the properties of the saga | 3 calls, 2 of the same run id, amounts 2 and 3, swaps that deliver 2 or 3, 2 endpoints, time to 3, 2 days, 1 restart |
| `RebalanceSameRun` | is the lock one when a client repeats a run id at once? **No** | the same |
| `AcpQueue` | attempts, backoff, dead letters, dismissals and wakeups over the whole life of a job, and what a restart from any earlier file can do to them | 2 jobs with one id, one of them on bsc, 2 attempts, 1 retry, time to 2, 1 restart |
| `AcpQueueBackoff` | is a job taken when its backoff is over? **No** | 3 jobs, whose executions all end, no restart |
| `Marketplace` | all of the properties of the market | 1 payment, 1 event, 2 buyers, 3 jobs of which 2 are one run, 2 grants, 1 restart |
| `MarketplaceOverlap` | does the daily limit hold when jobs do not queue? **No** | the same, `Overlap` |
| `MarketplaceFailed` | does an update that says failed leave the payment unpaid? **No** | the same |
| `AutonomousStrategy` | all of the properties of the contract | 2 origins with the two roles, 1 contract, 2 cycle ids, 2 amounts, 2 risk configurations, nonces to 3, time to 4, depth 2 |
| `AutonomousCycle` | the lock, the replay table and the interval of the state file | 3 processes, 2 of one run-id, time to live, interval and run time 1, 1 row kept, 1 crash |
| `Workers` | each of the three workers through starts, stops and failures at any await | 3 objects on 2 accounts, 2 errors, 2 sends, 2 ticks, hold 2 |
| `Workflow` | are sends confirmed, whatever calls interleave? | 2 runs, 2 intents, 2 calls, requote limits 1, 2 and none on one run, 1 restart that loses attempts, any number of other restarts and expiries |
| `Executors` | deposits, delegations and BSC executions through throws, reverts, late writes and restarts | 2 deposits, a cap that one of them fills, cooldown 1, 2 days, 1 restart; 3 requests, 2 delegations, 1 row kept, 1 restart; 2 requests, prices 0.5 and 1.5, 1 refused broadcast, 3 cascades |

The four "No" are disagreements between code and `docs/near-dashboard.md`, quoted
in `PROJECT.json` under "findings".

What the properties of the passing runs say:

* `OneRebalanceInFlight`, `RegistryImplemented`: mutual exclusion, and the saga as
  an implementation of `RunRegistry` with the run ids in flight for `active` and
  `recentRuns` for `ended`. They assume that callers do not reuse a run id before
  its answer (`CallersSerialise`), which the code does not enforce.
* `DailyCapKept`, `CooldownKept`: limits whose test and update are awaits apart.
* `MetricsAddUp`: the counters agree with each other and with the runs in flight.
* `CollateralAccounted`: if no error was reported of what was applied and every run
  ended as a success or a rollback, no USDC.e is left in the wallet, nor USDt but what
  Burrow refunded of rollbacks (the code reports those as made and sees no more); the
  USDt taken is exactly what the successes swapped, and Burrow got at least their
  minimums. A swap that delivers more leaves no difference in the wallet.
* `LockReleased`: no failure leaks the lock: it is free again and again, so whichever
  run holds it ends.
* `AttemptsBounded`, `SuccessesAccounted`, `DeadLetterJustified`: what an execution
  or a dead letter may be due to; restarts and retries are counted, not excluded.
* `BackoffRespected`, `DismissedRests`: what the worker may not start.
* `ReadyTaken`: no lost wakeup, unless the worker waits for ever for the execution of a
  job on bsc. Jobs in a backoff are not covered: that is the finding of
  `AcpQueueBackoff`.
* `UsesAddUp`: conservation of uses over grants, consumption and restarts.
* `DailyLimitKept`, `DuplicateRunBlocked`: the gate, while only the queue's worker
  calls it.
* `GrantedOncePerOpening`, `RedeliveryHarmless`: no update, confirmation or
  redelivered event grants twice.
* `NotNested`: `Triggered` excludes a second cycle even for a router that calls back
  as the emergency role.
* `HaltsRecovered`: each failure but a halt in force has had one recovery.
* `CooldownKept`: for the cooldown in force when a cycle began; a call-back may
  change it before the cycle returns.
* `LedgerImplemented`: `Committed` behaves as `CycleLedger`.
* `UnracedLock`: without a race on the file, one process is live at a time across
  crashes, failed writes and expiry, and a run-id's command starts once while its row
  is kept. `IntervalKept`: under the same condition, no command within the interval
  after a recorded success, though several copies of that record are written.
* `LockExpires`: a lock left behind by a crash or a failed write is taken over.
* `OneWorkerPerAccount`, `WorkerSteps`: the stop tool reaches whatever can begin a
  cycle; an ended or replaced object never begins one, though it may be in one; no
  trade of the BSC worker begins within the hold after one that went well.
* `WorkersProgress`: a running worker goes on whatever its cycles run into; an ended
  one comes to rest for good.
* `ConfirmedOnly`: the refinement of `ConfirmationGate`, and the reason why it holds
  without a token, `SessionsShown`: a session is written only with what the caller
  was shown, whichever call wrote it last.
* `PlanHandedOutOnce`: for each simulation of its run. `RequotesBounded`: calls that
  ask for at most n attempts place at most n orders of a run, however their limits
  differ, and n more for each restart that lost the attempts, which are in memory only.
  A run whose requotes overlapped is exempt from then on: overlapping ones lose a count,
  and the code does nothing against it.
* `CapKept`, `DepositsApart`: the daily cap and the cooldown hold over midnight,
  failures, fallbacks and restarts as long as deposits came one at a time, no
  transaction was given up while it could still be applied, and no restart lost the
  record. Without any one of the three conditions TLC finds a day over its cap.
* `ReconcileHonest`: a success is reconciled exactly if nothing else was deposited
  between its balance reads; the first attempt of a fallback counts as something else.
* `RevocationHolds`, `DelegationHolds`: what was answered stays in force through
  restarts and other requests' writes, unless a write failed or landed late.
* `ExecutedBacked`: whatever runs beside it, *executed* is answered only by a request
  that native executors carried out if its swap and its supply were applied.
* `SupplyCovered`, `ReserveKept`: one at a time and with no transaction left behind, no
  cascade supplies more than the swap delivered, and no planned swap spends the USDT that
  its target leaves of what the wallet holds when the swap is applied. The share of USDC
  itself is not bounded by the target: at a price above one a swap overshoots it.

Why the bounds are enough for the cases to happen: a third call exists beside the two of
one run id, so that a run can meet a lock, a run id that has ended and a used-up limit;
two endpoints give one retry and its exhaustion; time 3 with a cooldown of 2 lets a run
start both before and after it; two days let a run cross midnight; with two attempts a
job can fail, wait its backoff of one tick and die in time 2; two grants let a payment
be granted by two routes or twice; the restart can fall anywhere and can read any file.
Histories with caps (`RecentCap`, `QueueCap`, `EventCap`, `HistoryCap`) are small
versions of 30, 200, 2000 and 50. `Marketplace` uses the symmetry of the two calls of
one run, and a view that forgets what no later step reads. In `AutonomousStrategy` three
nonces are a failure, its recovery and a cycle after it; depth 2 leaves room for the
nesting that `NotNested` excludes. In `AutonomousCycle` the third process stands for
another run beside the two of one run-id, one kept row makes it push their row out, and
with all times 1 every age can be below, at and (for the lock) above its threshold. In
`Workers` the account with two objects has one replaced while it is in a cycle; two
errors separate a failure from the pause. In `Workflow` two calls suffice for one to
rewrite what the other captured, two runs and intents for a session to be another's, and
the three phases of a requote fit in both calls; limits 1 and 2 let two calls of one run
differ, with a third requote past each, and one restart splits a run's orders. Calls are
symmetric; runs are not, as only one of them is Polymarket's. One intent plays both
special parts, as the two tools that know them are never together. In `Executors` the
two deposits together exceed the cap and the smaller one alone leaves room; three
requests are one that submits, one that revokes and one that saves an image from before;
one row makes a second delegation push out the first; of the two BSC requests one
supplies and one only trades, the wallet holds USDT for a planned swap beside a direct
one, prices 0.5 and 1.5 make a swap deliver less and more than it is paid, and the
cascades are SDK then native, native alone, and the command (the SDK alone fails as the
native one does). In `Rebalance` a swap can deliver less than its amount, all of it, or
more. The runs of the dashboard and of the script set `CHECK_DEADLOCK FALSE` because the
bounds make the models stop; the contract, the workers and the workflow tools can always
be called, and their runs check for deadlock. (A tick of the clock keeps the script's
run going, but it may stop all the same when every invocation is over.)

Fairness. `Rebalance`: weak fairness of the steps of each call, since `execFile` kills a
command after 120 s and HTTP requests end; none for the callers, the operator, the clock
or the restart. `AcpQueue`: weak fairness of the end of an execution that sends commands
(`FinishCommands`), for the same reason, and of the clock; none of the end of an
execution on bsc, whose `tx.wait` (3312, 3354) has no time-out. `AutonomousCycle`: weak
fairness of each process' steps, which are the synchronous code of a script whose
commands have time-outs, and of the clock; an invocation that was refused is repeated,
as the cron job does. `Workers`: weak fairness of the timer that is set and of what a
cycle awaits, since requests end or time out; none for start and stop. `Marketplace`,
`Workflow`, `AutonomousStrategy` and `Executors` have no liveness property and no
fairness: nothing in the code makes a provider, a caller or the emergency role act, and
the executors wait for a receipt without a time-out.

## 4. Proofs

`RebalanceProofs` proves, for all values of the constants that satisfy the named
assumptions of `Rebalance` (run ids exist for all calls, amounts, minimums and limits
are at least 1):

* `TypeCorrect`: `Spec => []TypeOK`. The types are proved in groups (`CallTypes`,
  `GuardTypes`, `LedgerTypes`), since a step touches few of them. That balances
  stay natural numbers is not mere typing: it depends on the chain's checks.
* `MutualExclusion`: `OneRebalanceInFlight`, if callers serialise. It is not
  inductive: a lock that does not name the run in flight would let a second start.
  `LockInv` adds that every call in flight holds the lock under its run id.
* `DailyCap` and `CooldownRespected`: `DailyCapKept` and `CooldownKept`, if callers
  serialise. `LimitInv` adds that a call past the guards still satisfies them,
  which holds through the awaits only because nobody else is in flight (`LockInv`)
  and the clock and the day do not run backwards.
* `MetricsCorrect`: `MetricsAddUp`, with no condition on the callers. Every step is one
  of four as far as the counters go: nothing, a rollback whose alert is under way, a
  failure, a success. `CountInv` adds that the calls in flight are finitely many, as
  they are counted.
* `RegistryCorrect`: the saga implements `RunRegistry`, if callers serialise. `RecentInv`
  says that `recentRuns` names each run once and no more than its cap, so that its length
  is the number of ids the registry remembers, also when it is full and drops one.
* `CollateralCorrect`: `CollateralAccounted`, if callers serialise. The property speaks
  of the saga at rest, so the invariant `BooksInv` keeps a book for the call in flight:
  for each place of the program, what of its own may be in the wallet beside refunds,
  what is gone from Burrow beside the amounts of the successes and what its swap has
  delivered, given that no error was false so far. The sum over successful runs is proved
  to grow by the run that ends, `promised` by its minimum.

`AcpQueueProofs` proves every property of its run but the liveness one, from
`QueueAssumption` alone. Rows in memory and rows in the file satisfy the same invariant
(`GoodRows`), because a restart puts one in the place of the other.

* `TypeCorrect`, `DeadLettersJustified`: `RowSound` says of each row what its status
  implies about attempts, error and backoff.
* `AttemptsAreBounded`: `AttemptsBounded` is not inductive, as a row may have attempts
  ahead of it. `Budgeted` adds to the starts of a row those it still has `Ahead` if the
  operator leaves it alone: what its attempts leave, and one for a row that waits with
  none left. A wakeup pays for its start out of them, a retry adds one at most, a
  restart starts them anew. `SuccessesAreAccounted` goes the same way (`Earned`, `Owed`).
* `BackoffsRespected`: until the first restart a row waits for the backoff of its own
  attempts (`Exact`); after one only `RowSound`'s one tick is sure.
* `DismissedRowsRest`: the worker takes rows that are queued, and none of the other steps
  makes a dismissed row one.

`MarketplaceProofs` proves every property of its run, from `MarketAssumption`:

* `TypeCorrect` and `GrantsAreOpened`: `Covered` adds that a payment which waits to be
  paid (again) has been opened once more than it granted, in memory and in the file.
* `RedeliveriesHarmless`: the processed events are listed once each and, with the
  confirmations, account for every grant (`Answered`). It assumes that events are finitely
  many, as they are counted.
* `DailyLimitHolds`, `DuplicatesBlocked`: one execution at a time is assumed (`~Overlap`:
  jobs come through the queue's one worker; with `Overlap` TLC refutes the first).
  `WithinLimit` says that an execution under way still has room in its day, `Recorded`
  that a run which was executed is in the history and no repetition is past the gate.
* `UsesAreKept`: also assumes that entitlements are created in different milliseconds
  (`GrantsApart`), as their ids are the time. `Entitled` says that each key has one row
  whose uses are those left, or none and nothing left; `Held` that the row an execution
  will consume is still there, under the same id and key, with a use.

`AutonomousStrategyProofs` proves every property of its run, for any accounts,
requests, risk configurations and bounds: `TypeCorrect`, `NoNesting`, `NonceOrder`,
`RecoveriesMatch`, `CooldownHolds` and `ImplementsLedger`. None but the first is
inductive, because a revert restores the storage saved in a frame, which the
properties do not speak of. `CycleInProgress` says what a call-back cannot have
changed since the frame was pushed (events, nonce, last execution; the saved state
was `Idle`) and that the request in the frame carries the next nonce; with it, all
are proved together as `IInv`. The refinement maps a returning cycle to `Run`, a
recovery to `Recover` and every other step to a stutter.

`AutonomousCycleProofs`, from `CycleAssumption` and `RunsShorterThanLock` (the
time-outs of the commands end a run before its lock), proves `TypeCorrect`,
`LockHolds` and `IntervalIsKept`. `LockInv` is needed because the lock is in the file
and the guard looks at a copy: it says that, without a race, a live run is the file's
active one, its lock is no older than the run (so it has not expired), its row is
there and the interval has passed; that a copy which is not stale is the file; and
that a mark under way from such a copy was decided when nobody was live. `SuccessKnown`
says that every success that will be written is known to be recent, `CommandInv` that a
command that was started left its row in the file.

`WorkersProofs` proves `TypeCorrect`, `OneWorker` and `StepsKept`. The steps of both
programs are shown to be steps of one loop (`LoopStep`: an object starts, some stop,
one begins, moves on in or ends a cycle), and the invariant is proved for that loop
once. It adds that an object that was not started has no trace (`NewIsFresh`), and for
the BSC worker that the time it keeps is the time since its last good trade.

`WorkflowProofs` proves `TypeCorrect`, `GateImplemented`, `SessionsAreShown`,
`HandedOutOnce` and `RequotesAreBounded`, from the assumptions on constants alone. The
invariant `Shown` says that what a session holds and what a call does after its guard
has been shown: the first is what lets a session confirm, the second what makes the
gate's ticket hold when a call submits after an await. `PlanInv` adds that a session
which still holds a plan has handed out nothing; `RequoteInv` that, in a run without an
overlap, at most one requote is between its read and its write, that it read the present
count and its limit allowed it, and that the orders of each limit are at most the present
attempts beyond those of the restarts.

`ExecutorsProofs` proves the three parts one by one, each as a specification of its own.
Of `MorphoDeposits`: `MorphoTypeCorrect`, `CapHolds`, `CooldownHolds` and `ReconcileExact`.
The cap is not inductive, as the amount is deposited long before it is recorded, perhaps
on another day. `MorphoQuiet` says that, undisturbed, at most one request is in flight,
that it still satisfies the controls it was admitted by, that only its present attempt
can be applied (`OnlyOwn`), and that what was deposited beyond the record is its own
deposit; when no request is in flight the record covers the day. `ReconcileExact` needs
that the difference of the two reads is the request's own deposit plus `foreign`.

Of `DelegationGate`: `RevocationsHold` and `DelegationsHold`.
Memory and file are read at different times, so the invariant (`GateKept`) speaks of both
and of the images in between: unless faulted, a revocation that was answered shows in the
rows, the file and every image that may still replace it without being late, and one
that is being saved in the rows, in its own image and in every later one.

Of `BscExecution`: `SwapsOnce` (no nonce retry makes a second swap),
`ExecutionIsBacked`, `SupplyIsCovered` and `ReserveIsKept`, for any balances, target,
drift, step, prices and slippage. `BscStaged` ties transactions to stages and holds
under any interleaving. `BscQuiet` says, undisturbed: one request at a time and no
pending transaction but its present one (`Alone`); a swap not yet applied has room below
its target in the wallet as it is (`Roomy`), which follows from the division by 10000
rounding down and, as the swap's amount leaves the USDT it was planned to leave
(`RoomLeaves`), gives `ReserveKept` whatever price the swap gets; and what was supplied
or is about to be is what the swap delivered (`Accounted`).

Of their composition: every step of `Executors` is a step of one part and leaves the
variables of the others alone (`PartsRun`), so its types (`TypeCorrect`) and all its
properties (`PromisesKept`) follow.

No run repeats a type invariant: TLAPS proves those of all modules with theorems.

Induction. The library's induction theorems take an operator, which the provers cannot
instantiate. Where a proof needs induction over numbers (the purge of a queue of any
length), it speaks of a set of numbers instead: a set that is not empty has a least
element (`LeastNumber`, from the library's `NatLessThanWellFounded` and `WFMin`), hence
a set that holds 0 and the successor of each of its numbers holds them all.

Only model-checked: liveness (`LockReleased`, `ReadyTaken`, `LockExpires`,
`WorkersProgress`), which needs fairness and ENABLED and so is out of the prover's
reach, and the properties the code violates (the runs that expect a violation). Every
safety invariant, action property and refinement of the passing runs is a theorem.

## 5. Not modelled

* Overlapping `writeFile` calls and files cut off half way; the policy file.
* Caps of 1000 and 500 rows on payments, entitlements and purchases, the counters
  of webhooks, signatures and provider formats.
* The dry-run path, jobs without a strategy, the amount and intent checks in
  detail (one refusal of `Start` stands for them).
* Clocks that go backwards, and `Date.now` identifiers that collide, except the
  entitlement ids (`GrantsApart`).
* In the workflow tools: how text becomes an intent and an intent a transaction, signed
  transactions the caller brings (the token does not cover them), the risk
  confirmations, read-only intents, the requote's cooldown and price drift (a refusal),
  and Kaspa's quick transfer, which makes its token in the call that uses it. A second
  execute of a confirmed run sends again: the code has no nonce and promises none.
* `decideLtvAction` and the yield decisions: arithmetic on prices.
* The dry run of the cycle script, which writes no state, and its proof files.
* Of the BSC executors: the markets and rates behind the plan, BNB as the input, quotes
  from several sources, artifacts and histories. Of Monad: the worker, which only ever
  holds, deBridge and PI-MCP (single calls of a command), the rewards claim, the names and
  identities of the agent.
* Overlapping deposits and BSC requests, and transactions left behind, are in the models,
  but the properties exempt them, as nothing in the code orders or recovers them.
* The read and execute tools of the chains: what they compute is encodings and
  addresses, which a state machine says nothing about. They are most of the lines of
  the repository.
* Everything else marked `not_modelled` in `PROJECT.json`, with its reason.

## 6. Plan

1. *Done:* `Rebalance` with `RunRegistry` and proofs; `AcpQueue`; `Marketplace`.
2. *Done:* `AutonomousStrategy` with `CycleLedger` and proofs of all its properties.
3. *Done:* `AutonomousCycle` with proofs of its safety properties.
4. *Done:* `Workers` (agent, NEAR yield and BSC yield worker) with proofs.
5. *Done:* `Workflow` with `ConfirmationGate` and proofs of all its properties.
6. *Done:* proofs of all safety properties of `Rebalance`, `AcpQueue` and `Marketplace`,
   and of the refinement of `RunRegistry`; proofs about the composition of `Executors`.
7. A composition of queue, gate and rebalance: a job that is retried after a crash
   meets the duplicate check and the run registry.
8. *Done:* `Executors` (Monad deposits, delegations, BSC executions) with proofs of all
   their properties.
9. A composition of the delegation gate with the deposits it admits; the Monad and
   deBridge workers, if they come to act.
