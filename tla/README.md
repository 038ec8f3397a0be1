# Verification of solscope

solscope is one process. It downloads a range of Solana blocks, schedules each
block's transactions to measure contention, infers trades, builds candles, keeps
everything in one SQLite file and serves it over HTTP. This directory holds TLA+
models of that program, the TLC configurations that check them on small
instances, and TLAPS proofs of the properties that matter most for all instances.

Every definition is translated from the source, and `PROJECT.json` says from which
lines. Paths below are relative to the repository (`src/ingest.rs` there is
`src/src/ingest.rs` in `PROJECT.json`).

## 1. The system

### Components, state and operations

| Component | State it keeps | Operations |
|---|---|---|
| `main.rs` `run` | where the run is, the writer's join handle | open, resolve the range, ingest, rebuild the candles, serve, shut down |
| `ingest.rs` `run` (feeder) | slots still to send | select the slots that are not completed, feed `slot_tx`, close it, join the workers |
| `ingest.rs` fetch workers (tokio tasks) | the slot in hand | take a slot, `get_block`, send the block to the analysers or a skipped/failed row to the writer |
| `ingest.rs` analysis workers (tokio tasks) | the block in hand | take a block, analyse it on the blocking pool (or in the task itself with `--analyze-on-runtime`), send the row; a panic is caught in the first case and ends the worker in the second |
| `ingest.rs` `writer_thread` | batch, deferred control message | batch up to `--batch-blocks`, commit, pause, rebuild, shut down; ends when a commit fails |
| `metrics.rs` | counters and two queue gauges | updated by all of the above, read by `/api/status` |
| `db.rs` | the tables of the file | `completed_slots`, `write_blocks`, `rebuild_candles`, the API's queries |
| `rpc.rs` | token bucket, retry state of each call | `acquire`, `call_once`, `call_retrying`, `get_block` |
| `contention.rs` | per account: last writer, last reader, statistics | `build`, `analyze` |
| `ohlcv.rs` | the candle being filled | `infer_trade`, `build_candles` |
| `model.rs` | none | `resolve`: lock lists and balances of a transaction |
| `db.rs` `ReadPool`, `api.rs` | idle connections, the requests that wait for one | `with`, the statements of each answer, `POST /api/debug/pause-writer` |
| `static/app.js` | the views drawn, whether the ingestion was running | poll the status, load contention, tokens, candles |

### How they interact

The feeder, the workers and the writer are joined by three bounded channels:
slots (twice the number of fetch workers), raw blocks
(`--fetch-channel-capacity`), writes (`--channel-capacity`). A full channel blocks
its sender: that is the backpressure. The API and `main` share the write channel
with the workers for control messages. Counters and gauges are shared atomics.
Across runs only the SQLite file is shared: a restarted run leaves out the slots
whose row is `done` or `skipped`, and fetches `failed` ones again. Nothing
prevents two processes from opening one file. All fetch workers share one token
bucket. The API reads through four connections of its own, outside any
transaction, while the writer commits; the page polls it every second.

### What is hard

- order: rows must be in front of the rebuild request that follows them in the
  write channel, and a control message must not overtake the batch it ends;
- channel closing: the pipeline drains because each stage drops its sender when
  the stage before it has closed, and an early return anywhere changes who is left;
- gauges that are incremented before a send and decremented after a receive, from
  several threads;
- a crash between a fetch and a commit, a restart over half a range, a panic while
  holding a slot, a commit or rebuild that fails;
- retries that share a bucket with first attempts and sleep without holding it;
- an answer made of five statements, each of which sees another state of the
  database, over a pool that any error path could leak a connection from;
- a page that decides once, from a flag set before the last commit, to load again;
- positions and counts in a message that say which account is written, and
  balances before and after that are all there is to tell a trade from the rest;
- a streaming scheduler that keeps two numbers per account in place of the
  conflict graph, and candles streamed in an order that only the sort guarantees.

`PROJECT.json` lists each of these at its line under `hazards`, with the properties
that would catch it going wrong.

### What makes each component correct

| Component | Correct when |
|---|---|
| pipeline, writer | a slot is in one place; a settled row is not written again; every slot of the range is accounted for; the rebuild sees every row; a blocked sender has a live receiver; runs and shutdowns end |
| metrics | gauges are ahead of what is queued and who is blocked only by what a consumer has just taken; counters agree with the rows |
| tables | rows exist exactly for `done` slots; only whole batches are visible; candles match trades once everybody is done |
| RPC client | rate bound over any window; retries bounded and spaced; failure only for a reason; null results as documented |
| contention | steps, depth, widths, delays and programs are those of the conflict graph |
| candles | one per key; equal to the definition by groups; long ones agree with short ones |
| transaction resolution | lock sets, programs and votes are what the sender meant |
| trade inference | a trade exactly when the transaction was an exchange, with its amounts; otherwise the true reason |
| read pool, API | a connection serves one request and comes back; answers are no older than their requests, and their parts never go back; requests are answered |
| dashboard | after a refresh it shows what is stored (it may not: section 4) |

## 2. Modules

| Module | Models | Checked by | Proved in |
|---|---|---|---|
| `SlotLedger` | abstract: the promise about `slots` and `candles` | as `LedgerSpec`, `LedgerWhileAlone` | `PipelineProofs`, `StoreProofs` |
| `Pipeline` | main, feeder, workers, writer, metrics, crashes and restarts | `MCPipeline` | `PipelineProofs` |
| `Contention` | `contention::build` and `analyze`, one transaction per step | `MCBlocks` | `ContentionProofs` |
| `Blocks` | messages, `resolve`, and the analysis of what it gives | `MCBlocks` | `ContentionProofs` |
| `Trades` | `infer_trade`, after any transaction | `MCTrades` | `TradesProofs` |
| `Candles` | `build_candles` and `rebuild_candles`, one trade per step | `MCCandles` | `CandlesProofs` |
| `RpcClient` | token bucket, retry loop, classification of answers | `MCRpcClient` | `RpcClientProofs` |
| `Store` | the statements of a batch and of a rebuild, per table; several processes over one file | `MCStore` | `StoreProofs` |
| `Serving` | `ReadPool`, the statements of each answer, a writer at work | `MCServing` | `ServingProofs` |
| `Dashboard` | the page, over `Pipeline` | `MCDashboard` | |
| `FiniteSums` | nothing: what a sum over a finite set comes to, for `Trades` and `Candles` | | itself |

How they fit together:

- `Pipeline` implements `SlotLedger` (`LedgerSpec`): a commit of a batch maps to
  `Record`, a successful rebuild to `Rebuild`, every other step stutters. `Store`,
  which is the same file seen statement by statement, implements it as well, with
  the slots' statuses for `db`, as long as processes come one after another
  (`LedgerWhileAlone`).
- `Serving` reads a `SlotLedger` and nothing else: what it shows holds for every
  writer that implements the ledger, hence for `Pipeline` and for `Store`.
- `Blocks` extends `Contention` and implements it (`AnalysedAsContention`): a
  behaviour of resolved messages is a behaviour of `Contention` over its lock sets,
  so `Contention`'s theorems are about messages too.
- `Dashboard` extends `Pipeline` with the page: its steps read the pipeline's
  counters and tables and change neither.

### Pipeline

An action is one step of one task or thread, cut where the code can be
interrupted: a receive, an await, a send on a channel that may be full, a commit.
A receive and the decrement of the gauge that follows it (`src/ingest.rs:206` and 209,
341 and 346, 350 and 352) are two steps, because `/api/status` and other workers may
read the gauge in between. Other metrics updates that the code makes between two such
points are part of one step: a worker counts the outcome of its slot and raises the
write gauge at once, and no property compares those two.
`main` is the program counter of `main::run` and of the `ingest::run` it awaits
(the feeder runs in that task). A block is its slot: a fetch answers with one of
*block*, *skipped*, *failed*, chosen freely, and the other modules say what an
analysis stores.

| Actor | Actions |
|---|---|
| main, feeder | `Start`, `StartServeOnly`, `RunFails`, `SelectRange`, `Feed`, `CloseSlots`, `FinishRun`, `SendRebuild`, `RebuildReturns`, `CtrlC`, `SendShutdown`, `Exit` |
| fetch worker | receive, fetch with its three answers, send to the analysers, send to the writer, stop |
| analysis worker | receive, leave the fetch gauge, analyse, panic, send to the writer, stop |
| writer | receive, extend the batch, leave the write gauge after either, commit or fail to, act on the deferred control message, pause, stop |
| outside | `Crash`, `ApiPause` |

Three details decide most of its properties. `ingest::run` keeps its own handle on
the receiving ends of the slot and raw-block channels, so a send from the feeder
never fails (`Feed`). A panic on the blocking pool is caught and loses the slot
(`lost`), but on the runtime it also ends the worker (`AnalyseOnRuntime`). A process
interrupted during ingestion just dies: ctrl-c is handled only once it serves.

### Contention

`analyze` runs `build` over the whole block and again, from scratch, without the
votes. The passes share nothing, so they advance together here and every state is
the analysis of the block so far: all blocks up to the bound are covered, prefixes
included. `ConflictRows` is the sorted and truncated list as the set it keeps.

### Blocks

What a sender means is a record: who pays, how each account is used, which programs
are called. `Message` is the wire format (external): the keys in their order, the
counts of the header, the addresses a lookup table gave, the positions of the
programs. `Resolve` is `RpcTransaction::resolve` with `combined_account_keys` and
`static_key_is_writable`. `ResolvedAsDeclared` asks for what was meant. A program
is never loaded from a table by the message that calls it, and never written; the
chain refuses such messages.

### Trades

The chain is external: the fee payer opens, closes and gives away token accounts,
wraps SOL, and moves tokens and SOL, in any order, or everything is undone and only
the fee is gone. `InferTrade` is given the balances before and after. History
variables say what the steps came to (`moved`, `paid`, `deposits`), and the
properties compare the two. Amounts are raw integers, as in the code until the
last line; prices and decimals are left out. Left out too: an account that another
party hands to the trader. The code looks up what such an account held before by
its index, whoever owned it (`src/ohlcv.rs:127`), and takes the rent in it for one
the trader paid; no document says what such a transaction should be.

### Serving

One thread of the blocking pool per request. `Ask` fetches and raises the counter
of the pool (kept modulo the number of connections), `TryLock` is one turn of the
round, `Lock` the wait after a full round. Statements run outside a transaction in
WAL mode: each sees what is committed when it starts (external). A statement may
fail; the handler then returns and drops its guard, except for the programs of a
contention answer, whose error reads as an empty list (`src/api.rs:361`). A poisoned
mutex would need a closure that panics, and none does.

### Dashboard

`requests` are under way and are answered and drawn in any order, as `pollStatus`
runs on a timer that waits for nothing. A view is the set of slots its figures come
from. Two more than `MaxAsks` may be under way, those a poll starts by itself.

### RpcClient

Time is counted in ticks and tokens in integer units: a tick refills `Rate`, a
token is `Cost`. The code computes with `f64` seconds. The model keeps the order of
its steps (refill, test, take or compute the wait, release the lock, sleep, ask
again) and drops rounding. The limiter gives nobody a turn: a woken worker may find
its token taken. That a worker is eventually served is therefore not claimed.

### Store

A table is the set of slots it has rows of, since a finalized block is the same on
every fetch. `write_block` is a step per block of the batch inside one transaction;
`draft` is what that transaction sees, `db` what is committed, and a process may
stop or fail between any two steps. A process may rebuild the candles while slots are
still to do, as after an analysis that panicked. SQLite is external: one writer at a time,
atomic commits, rollback of what is cut short.

### Candles

One rebuild. The trades are consumed in the order of the sort, once per interval.
A trade moves one token at its price, so the SOL it moves is its price and a
candle's token volume is its trade count.

## 3. Runs

| Run | Instance | What it shows |
|---|---|---|
| `pipeline_faults` | 3 slots, two overlapping ranges, 2 fetchers, 2 analysers on the runtime, raw capacity 1, write capacity 2, batches of 2, 2 runs, 1 pause; crash, panic, failing commit, failing rebuild | slots held once, settled rows untouched, gauges ahead of their queues only by what was just taken, slots conserved, the rebuild behind every row, refinement of the ledger: a dead writer or a killed process leaves a ledger the next run resumes from |
| `pipeline_progress` | 4 slots, 1 fetcher, 1 analyser, capacities 1, batches of 2, 1 pause; crash, panic, failing rebuild; `FairSpec` | a blocked sender has a live receiver; ingestion ends; shutdown ends; no deadlock |
| `pipeline_hang` (violation) | 5 slots, 1 fetcher, 2 analysers, capacities 1; failing commit | the feeder or a fetcher waits for ever after the writer has died |
| `contention` | blocks of up to 4 messages over 2 accounts used in every way and 2 programs, one row kept | messages resolve to what was meant; the streaming scheduler equals the conflict graph; `Blocks` implements `Contention` |
| `rpc_client` | 2 workers, Rate 1, Cost 2, Second 4, 3 attempts, 6 ticks | rate bound in every window, spacing and number of retries, failures explained |
| `rpc_null` (violation) | same shape, smaller | a null result marks the slot failed |
| `store_two` | 2 processes, 2 slots, batches of 2, 3 runs | with any interleaving: rows follow statuses, only whole batches, one writer; with one process at a time: a slot is settled by one batch of one run, no row outlives its slot, candles current when a run has served, refinement of the ledger |
| `candles` | 2 mints, 3 slots of 2 transactions, 3 trades, block times that rise, repeat, go back or are missing | candles equal their definition, one per key, 5-minute from 1-minute |
| `serving` | 3 requests of all kinds, 2 connections, 1 slot, 4 requests made; failing statements, restarts; fairness | one request per connection, answers fresh, parts in order, every request answered |
| `trades` | 7 token accounts of 2 mints and wrapped SOL, of the trader and a pool; 4 steps | a trade is an exchange with its amounts; exclusions tell the truth |
| `trades_transfer` (violation) | the same, 3 steps | a transfer into somebody's new account is taken for liquidity |
| `dashboard` (violation) | 2 slots, 1 fetcher, 1 analyser, capacities 1, 1 run, 2 requests | the page refreshes too early and never again |

### Why the bounds are enough

- *Pipeline.* A hazard needs two slots on different routes and a third behind them;
  two workers of a stage to race; channels that fill; a batch that is cut by size,
  by an empty channel and by a control message; a second run over a range that
  overlaps the first. With capacities of one, four slots fill every stage up to the
  feeder. `SlotCap` follows from the number of fetchers, as in the code.
  `MaxRuns` and `MaxPauses` bound restarts and calls of the pause endpoint.
- *Contention.* Four messages give chains of four, two parallel chains that
  meet, and each mix of readers and writers over an account; two accounts decide a
  delay by either or both and force the row cap to choose. What the run checks is
  proved for any number of both.
- *RpcClient.* A token costs two ticks, so a bucket may hold half a token. Four ticks a second give
  a burst of two tokens. Six ticks hold a burst, a wait and all three attempts.
  `TimeUp` stands for the end of the clock.
- *Store.* Two slots make batches of one and two and a batch that is half written;
  three runs make a failed slot, its retry, and a run after both. `NoMoreRuns` is
  the bound reached.
- *Serving.* Two connections and three requests make a round that fails, a wait,
  and a connection given back to another than the one that waits; with one slot a
  commit, its retry and a rebuild fall between any two of the five statements. The
  theorems hold for any number of each.
- *Trades.* Four steps open, fund, spend and close an account, or move two mints
  both ways. `Rent` is above `Dust`, as in the code, and both are hit exactly by the
  amounts and their sums; an amount equals the rent, so that a deposit can hide a
  payment. `Funds` covers every sequence of steps.
- *Dashboard.* The counterexample needs a row queued when the workers are joined and
  one poll before it is committed.
- *Candles.* Three trades fill one candle, split it over two, or put another mint
  between; slots with equal and decreasing times are included.

Symmetry (`WorkerSymmetry`, `ProcessSymmetry`) is declared only in safety runs, over
workers or processes that the specification never tells apart. Deadlock is checked
except where the model really may stop: `pipeline_faults` and `pipeline_hang`, where
a failed commit can hang the program; `trades` and `trades_transfer`, which end with
the answer; and `dashboard`.

### Fairness

`FairSpec` has weak fairness on the next step of main, of each fetcher, of each
analyser and of the writer. Tokio polls a woken task and the operating system
schedules a runnable thread, so a step that stays possible is taken; `get_block`
ends because attempts and timeouts are bounded, an analysis and a commit end, a
pause has a length. Nothing is assumed of crashes, faults, ctrl-c, pause calls or
of a process being started. Tokio's channels serve senders in turn, which is
stronger than what is assumed. `Serving`'s `Spec` has weak fairness on the
steps of each request: a thread of the blocking pool runs and a statement ends. A
mutex that is given back may go to anybody, so a request that waits for one
connection can be overtaken as often as new requests come; `MaxAsks` bounds that,
and `RequestsAnswered` claims no more than that nobody waits for a connection that
is never given back.

### Conditions in the properties

`RebuildFollowsEveryRow` leaves out slots whose analysis panicked, and those still in
the raw channel: with `--analyze-on-runtime` all analysers can panic, and nobody is
left to take them. `QueueGaugesExact` counts, besides what is queued and
who is blocked, the consumer that has received and not yet lowered the gauge; its write
gauge is claimed while the writer lives: a worker that could not send has counted its
block in, and nobody counts it out. `SettledOnce`, `CandlesCurrent`,
`NoRowOutlivesItsSlot` and `LedgerWhileAlone` are about processes that come one after
another (`alone`): see the end of section 4. `AnswersAreFresh` and `PartsNeverGoBack`
except the programs of an answer whose last statement failed.

## 4. Where the code and its documents differ

1. `pipeline_hang` (code). After a failed commit the writer returns
   (`src/ingest.rs:367`) and workers that then send return one by one. `ingest::run`
   holds `slot_rx` and `raw_rx` itself, so the feeder's `slot_tx.send(slot).await`
   (`src/ingest.rs:104`), or a fetcher's raw send, waits on a channel that nobody
   reads and never returns an error. `ingest_done` is never set. The comment at
   `src/ingest.rs:101-102` says a blocked feeder means "the workers are saturated".
2. `rpc_null` (documentation). `README.md:95` says a null result marks the slot
   skipped; the code parses it as a response without a result, and the slot fails
   (`src/rpc.rs:204`).
3. `trades_transfer` (documentation). `README.md:225` counts "transfers into new
   accounts" as `NoSolLeg`. The rent is taken out only for accounts the trader owns
   (`src/ohlcv.rs:157-159`): who opens the recipient's account and sends tokens to
   it gets `SameDirection`, liquidity.
4. `dashboard` (code). `static/app.js:76` says "Refresh the data views once ingestion
   finishes." The page loads in the one poll that sees `ingest_done` turn true,
   which `src/ingest.rs:117` sets when the workers are joined: the last rows may
   still be queued, and `src/main.rs:130` rebuilds the candles only then. The views
   miss them until the user reloads.

Observed while modelling, without a run of their own:

- *Two processes over one file*, which nothing prevents. `README.md:98-100` says that
  every per-slot table is cleared inside the transaction that rewrites a slot;
  `write_block` (`src/db.rs:277`) does not clear `contention`, and without `alone`
  TLC breaks `NoRowOutlivesItsSlot`: one process stores a slot, the other then fails
  to fetch it. `src/db.rs:402-404` says that candles are rebuilt from whatever the
  table now holds; the trades are read before the transaction begins
  (`src/db.rs:406`), and without `alone` TLC breaks `CandlesCurrent`.
- `README.md:224` puts "a wrap" under `WrapOrTransferOnly`. Wrapping cancels out in
  the code, and a wrap alone is `NoTokenMovement`.
- `README.md:225` says that tokens without a SOL leg still appear in `/api/tokens`;
  the query (`src/api.rs:402`) starts from the trades, which they have none of.
- An older answer that arrives late replaces what a newer one drew on the page.

## 5. Proofs

All theorems are of the form `Spec => ...` for every value of the constants that
satisfies the named assumptions of the module (finite sets of workers, positive
capacities, and so on). None assumes the bounds small. Every safety property that a
passing run checks is stated by a theorem.

| Theorem | States |
|---|---|
| `PipelineProofs!TypeCorrect` | types, and no channel above its capacity |
| `PipelineProofs!HeldOnce` | between the feeder and the commit a slot is in one place |
| `PipelineProofs!NotInFlightTwice` | no settled slot is in flight |
| `PipelineProofs!ImplementsLedger` | the pipeline implements the ledger, crashes and restarts included |
| `PipelineProofs!GaugesExact` | the gauges are what is queued, who is blocked and who has received and not yet counted it out, at every step |
| `PipelineProofs!SlotsAccountedFor` | the counters and what is in flight add up to the range |
| `PipelineProofs!RebuildAfterRows` | the answer to a rebuild comes after every row of the run |
| `PipelineProofs!BackpressureIsLive` | if commits succeed and no panic ends a worker, a blocked sender has a reader |
| `ContentionProofs!ContentionTypeCorrect` | a block of n transactions needs at most n steps |
| `ContentionProofs!EarliestSteps` | each transaction gets the earliest step its conflicts allow |
| `ContentionProofs!DepthIsTheCriticalPath` | the depth is the length of the longest chain of conflicts |
| `ContentionProofs!WidthsCountEveryTransaction` | the widths count each transaction once |
| `ContentionProofs!DelaysChargedRightly` | delays and programs of an account are those of the transactions it delayed |
| `ContentionProofs!RowsKeepTheHottest` | no account that is cut delayed more than one that is kept |
| `ContentionProofs!VotesNeverHelpAnyone` | the schedule without votes delays nothing and is no deeper |
| `ContentionProofs!ResolutionLosesNothing` | a message resolves to what its sender meant |
| `ContentionProofs!BlocksImplementContention` | the analysis of messages is the analysis of their transactions |
| `ContentionProofs!BlocksAreAnalysedRightly` | all of the above, for blocks of messages |
| `RpcClientProofs!RpcTypeCorrect` | types; the bucket is never overfilled or overdrawn |
| `RpcClientProofs!RateNeverExceeded` | no window sees more requests than burst plus refill |
| `RpcClientProofs!RetriesBackOff` | at most `MaxAttempts` requests per call, each after its back-off |
| `RpcClientProofs!NoFailureWithoutReason` | a call fails for an answer that says so or for lack of attempts |
| `StoreProofs!StoreTypeCorrect` | well-formed tables, one writer |
| `StoreProofs!RowsFollowStatuses` | transactions, conflicts and trades exist exactly for done slots |
| `StoreProofs!WholeBatchesOnly` | what is committed is what whole batches left |
| `StoreProofs!SettledByOneBatch` | alone: a slot is settled by one batch of one run |
| `StoreProofs!CandlesOfTheTrades` | alone: who serves after a rebuild has the candles of the trades |
| `StoreProofs!NoStaleContention` | alone: contention rows are those of done slots |
| `StoreProofs!LoneProcessesKeepLedger` | alone: statement by statement, the ledger is implemented |
| `ServingProofs!ServingTypeCorrect` | a connection runs the statements of one request and always comes back |
| `ServingProofs!FreshAnswers` | no answer is older than its request |
| `ServingProofs!PartsInOrder` | no part of an answer is older than the one before |
| `CandlesProofs!CandlesTypeCorrect` | well-formed candles |
| `CandlesProofs!OneCandlePerKey` | while block times follow slots, no two candles share a key |
| `CandlesProofs!StreamingIsByDefinition` | the candles stored are those of the definition, for any trades |
| `CandlesProofs!LongCandlesCoverShortOnes` | while block times follow slots, a long candle is what its short ones add up to |
| `TradesProofs!TradesAreTheExchanges` | a trade is an exchange, with its amounts |
| `TradesProofs!ReasonsAreTrue` | what is excluded is excluded for the reason given |

**Pipeline.** `SlotHeldOnce` alone is not inductive: it does not say that a worker in
`sendRaw` holds a slot and an idle one none, that a batch has been committed before the
writer turns to anything else, or that nothing is held when a range is selected. `IInv`
adds `TypeOK`, `WorkersConsistent` (a worker holds a slot exactly when it is busy, and
has an outcome when it sends one), `BatchConsistent` (the batch is empty unless the
writer is filling or committing it, and holds the block just received),
`InFlightNotCompleted` and `Quiet` (nothing is in flight until a range is selected).
Each action is then a lemma saying which places change: it moves one slot from one
place to another, or drops places, and lemmas about `Held` say that such a step keeps
the places apart. The refinement follows: a commit changes only rows of slots in
`pending`, and those are in flight, hence not settled.

The gauges and counters are sums over the places a slot can be. `Balance` states the
properties over named quantities (`Upstream`, `Downstream`, `InGauge`, `Verdicts`), each
the length of a queue or the number of workers at some point, and lemmas about
cardinalities say by how much a step of one worker changes each: every action moves one
unit from one to the next, and the counter follows. `Leaving` and `InHand` are the units
between a receive and its decrement: a receive moves a unit there from the queue and
leaves the gauge alone, the decrement takes it out of both.

`BackpressureIsLive` needs to know who is gone. `WorkLife` says that a run is joined
only when its workers are gone, that slots have then all been taken, and that the
shutdown request is the last message; `LastToLeave`, that analysers leave after the
fetchers and over an empty channel. Its two hypotheses are those under which the claim
is true: without the first, `pipeline_hang` is the counterexample; without the second,
all analysers can die on the runtime. `RebuildAfterRows` adds that the rebuild request
is behind every row in the channel (`RebuildLife`), and that a slot of the range without
a row is in flight or lost and the counters are the numbers of stored rows (`RunInv`):
when the answer is there, nothing is in flight any more.

**Contention.** The scheduler's two numbers per account are exact: `lastWriter[a]` is
the largest step of a writer of `a` so far, `maxReader[a]` that of a reader. With that
(`Scheduled`), `StepOf` is one more than the largest step of a conflicting predecessor.
For the votes, steps without them are bounded by steps with them, position by position,
because both schedules place the same transactions in the same order and `StepOf` is
monotone in the two numbers (`LocksNoLater`, `StepMonotone`). The invariant is the
conjunction of these with `TypeOK` and `VotesNeverHelp`.

The depth follows from the steps alone: along a chain of conflicts steps rise, so none
is longer than the depth, and a transaction at step k ends a chain of k, since it waited
for one at step k - 1. Widths and delays are counted by comparing the sets they are the
cardinalities of before and after one transaction (`AnalysisInv`). The accounts
blamed for a delay are those over which a transaction of the step before conflicts
(`CriticalAreInConflict`), so what an account is charged with is a fact of the block.

**Blocks.** A message is four lists of keys one after another, and then two lists from
lookup tables. The header gives three counts; from them `static_key_is_writable` must
find each key in the list it was put in. The lemmas are about a concatenation of four
lists of known lengths: which positions belong to which, and that distinct keys keep
them apart. `MessageInv` says that the last transaction is the resolution of the last
message; a step of `BlocksSpec` is then a step of `Contention`'s `Spec` over a block of
transactions, and every theorem about those carries over.

**RpcClient.** `RateRespected` talks about pairs of past requests; the bucket knows only
the present. `TokensAccounted` relates them: the tokens now in the bucket plus the cost
of every request since the i-th are at most capacity plus what was refilled since the
i-th. `RateInv` is the conjunction with the bucket's type. For the retries, `CallsInv`
says of each worker how many requests its call has made at each point of the loop, when
the last one was, and that a worker past its sleep is past the back-off; what other
workers do to the bucket touches none of it.

**Store.** `RowsFollowStatus` must also hold of the open transaction's `draft` while it
writes, and only one process may own it (`TransactionOwned`). `StoreInv` is both.
`TransactionInv` says what the draft is: `db` with the first blocks of the batch written
(`BatchInHand`), or with new candles (`CandlesInHand`); a commit therefore makes visible
a whole batch or none of it. What holds of processes that come one after another rests
on `LoneInv`: only one is up, its `todo` and its batch are of slots that nobody has
settled since it read them (`Fresh`), what the log calls settled still is (`LogStands`).
`FullInv` is all three, and the refinement follows from it.

**Serving.** The invariant is about the ledger as well as the requests: candles are made
of done slots (`CandlesOfDone`), and done is settled, so what is committed never
shrinks. Then what a request knew when it was made, and what it has seen, stays within
what is committed (`Current`), and the next statement sees at least that. `InRound` and
`Unread` say where in its round and its statements a request can be. Each action changes
one request, and does one of three things to the connections: keeps, takes or gives back
one; there is a lemma for each.

**Candles.** Two candles share a key only if a bucket is left and entered again.
`BuildInOrder` says that closed candles of an interval are in strictly increasing (mint,
bucket) order (`ClosedInOrder`) and that the open candle is the latest and not after any
trade still to come (`OpenIsLatest`). It is an invariant when block times do not
decrease with slots. That hypothesis is part of the property: block times come from the
chain, and the code does not enforce it.

That the candles are those of the definition needs no such hypothesis. `RunsInv` keeps,
as a witness, the trades each candle was made from: their open, close, extremes, sum and
count are the candle's (`Describes`), every trade seen has gone into one candle, and the
trades still to come are later than those seen. When the rebuild has succeeded no two
candles share a key, so the trades of a candle are all of its bucket (`TableDescribed`),
and a set of trades has one open, one close, one high. For the long candles, a long
bucket is a disjoint union of short ones (`NestedBuckets`) and sums and counts add up
over such a union (`SumOfParts`). This uses that one interval is a multiple of the other
(`WholeIntervals`); in the code they are 300 and 60 seconds.

**Trades.** The code sees balances before and after; the claim is about the steps in
between. `TradesInv` says after each step that what the trader holds more of each mint,
over all its accounts, is what the steps moved, and that what it has more of SOL, the
fee left out and the rent and wrapped SOL in its own accounts counted, is what came to
it less what it deposited in accounts of others (`BooksInv`). `OwnersInv` says whose an
account can be at either end, and `VerdictInv` what `inferred` may be. One step changes
one or two accounts, so the sums change by what it moved.

**Sums and induction.** The library's induction theorems take an operator as a
parameter, which the provers cannot instantiate. `FiniteSums` proves induction for a
*set* instead: a set of naturals that holds 0 and is closed under successor is all of
them, and a family of subsets closed under adding an element holds the finite set
itself. That is enough for what `SumFunctionOnSet` comes to, in whatever order its fold
takes the elements.

The strengthened invariants that are not themselves properties of a run were checked by
TLC first, on the instances of section 3 or smaller ones: `RunInv` with analyses on and
off the runtime, `FullInv` on two processes, `TradesInv` on three steps, `RunsInv` and
`TableInv` on two and three trades.

### What is only model-checked

- Liveness (`RunReturns`, `ExitCompletes`, `RequestsAnswered`): proofs about fairness
  and `ENABLED` are beyond the prover.
- Absence of deadlock, for the same reason.
- The counterexamples of section 4.

## 6. Not modelled, and why

- Peaks, commit times and row counts in the metrics: no decision depends on them.
- Parameter checks, `LIMIT`s and sums of the API's queries; choosing and drawing on
  the page.
- Configuration parsing, logging, examples and scripts.
- The HTTP client, SQLite and tokio: external, modelled by what the code relies on.
- Rounding of the bucket's `f64` arithmetic.
- Memory ordering of the counters: each is a single atomic, updated by
  read-modify-write, and no code derives one from another.

## 7. Plan

Every component that keeps state or decides something has its model, and every
safety property that a run checks has its theorem. What is left:

1. The page: what `Dashboard` shows is never more than was stored when it asked, and
   the type correctness of `Dashboard`, which its run only uses on the way to a
   counterexample.
2. `BackpressureIsLive` with analyses on the runtime, under the hypothesis that fewer
   panics occur than there are analysers.
3. The hazards that no property covers (`PROJECT.json`): the write gauge after the
   writer's death, what two processes over one file do to one another, a token an awakened
   worker never gets, and an account that changed hands.
