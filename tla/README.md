# CryptoSense: a verification development in TLA+

CryptoSense ingests Binance trades and order books, tweets, news and exchange
flows, aggregates them into five-minute buckets in TimescaleDB, detects anomalies
with an LSTM and lets a language model brief them. This directory holds TLA+
models of the parts in which threads, tasks, files and clocks interleave and of the
pure functions between the tables, the TLC configurations that check them, and
TLAPS proofs of their safety properties.
Paths below are relative to the repository.

## 1. The system

`main.py` starts one asyncio program. Its parts, their state and their
interactions:

| Part | State | Operations | Interacts with |
|---|---|---|---|
| Trade and order-book pipelines (`ws_trades_ingestion.py`, `ws_orderbook_ingestion.py`, `async_utils.run_pipeline_loop`) | a bounded queue, tasks for listener, processor and flusher, the shared stop event | receive, put, process, reconnect, fail fast, drain | sink (call), stop event (shared), `main` (cancellation) |
| `TimescaleSink`, `TradeAggregator`, `OrderbookAggregator` (`base_aggregator.py`) | open buckets per (symbol, bucket) under a lock, an executor of five threads | `add`, `maybe_flush`, `flush_all`, `_write` | pool (threads), hypertables |
| `SentimentAggregator` (`xquik_aggregator.py`) | open buckets, the watermark `_last_flushed_bucket` | `add`, `maybe_flush`, `flush_all`, one daemon thread per batch | pool, `tweet_sentiment_5m` |
| XQuik polling (`xquik_ingestion.py`) | the last seen event of each monitor, in memory | fast-forward, poll with paging, filter, score, add | HTTP, sentiment model, `SentimentAggregator` |
| News RSS (`news_rss_ingestion.py`, `news_rss_aggregator.py`) | the set of seen titles | fetch, score, upsert a running average | HTTP, pool |
| CEX flows (`cex_flow_ingestion.py`) | none between cycles | query both directions of each network, finalise the previous bucket | HTTP, pool |
| Anomaly engine (`anomaly_pipeline.py`) | none between cycles; models from the registry | load weights at start, infer the latest finalised bucket of each symbol | pool, `ModelRegistry` |
| LLM briefing (`llm_pipeline.py`) | none between cycles | wait for the expected bucket, compute the health score, brief, upsert | pool, Ollama |
| Retraining (`retraining_scheduler.py`, `retraining_service.py`, `scripts/train_anomaly_detector.py`) | version directories of weights, backup and temporary directories, `_retrain_lock` | train, replace the version, hot swap | pool, `ModelRegistry`, file system |
| `ModelRegistry` | a model and a scaler per symbol, a lock each | `register`, `hot_swap`, `get` | job's thread, engine |
| Database pool (`db.py`) | the global pool, its lock, a semaphore for the async wrappers | `get_pool`, `get_connection`, queries, `close_pool` | everything above |
| Teardown (`main.py`) | - | stop, cancel, gather, grace second, close the sink, stop the scheduler, close the pool | everything above |
| Web API, dashboard, JSONL sink, settings, stand-alone Bitquery tools, scripts | none the program depends on | read-only or pure I/O | - |

What is hard, and what makes each part correct:

- **Buckets.** Events, the timer and the shutdown flush take buckets while
  writer threads commit earlier ones. Correct: each event is in one place, in one
  row of its own bucket, none is dropped, memory does not grow, rows that nobody
  reopened are complete.
- **Shutdown.** A signal, a crash of any task and `main`'s cancellation race while
  the queue holds items. Correct: what was received is flushed, every crash stops
  the program, and every stop ends it.
- **Sentiment series.** The anomaly engine intersects tables, so each bucket
  needs a row of each symbol, with or without tweets. Correct: no gaps, no partial
  buckets, fallback rows never after real ones, no tweet lost or counted twice.
- **Pool.** It is created lazily by whichever thread comes first, closed by `main`
  while threads may still write. Correct: one open pool, connections bounded and
  returned, waiting jobs end.
- **Weights.** Two writers, crashes between renames, a loader and a hot swap.
  Correct: a version is whole, never lost by an ordinary error, and the engine
  works with a model and a scaler that belong together.
- **Tweet polling.** Any call fails, events arrive between two pages, the
  cancellation comes at any await. Correct: the cursor keeps events from being
  counted twice and never passes one unnoticed; no monitor goes on spending.
- **News.** Titles are remembered before their articles are scored and stored, in a
  memory that is cleared when it is full. Correct: an article is counted again only
  after that, none is skipped silently, and what stays in a feed is taken.
- **Cycles on the clock.** The CEX poller, the anomaly engine and the briefing sleep to
  a few seconds after the next five-minute boundary and meet in the database only.
  Their queries take any time, market rows come late or never, the process restarts.
  Correct: flow rows are final, a bucket is left out only for a reason, scores span
  no gaps, what was stored in time is used, no bucket is briefed twice, cycles end.
- **Numbers between the tables.** Limits of queries, look-ups by address, cuts by
  index over gaps, labels of one class, signs and clamps. Correct: a row says what
  happened in its bucket, training and engine cut the same windows, no threshold is
  better than the calibrated one, a better market never has a lower score.

`PROJECT.json` lists every hazard at its line, with the property that covers it
or the reason why none does.

## 2. The modules

| Module | Models | Composes or refines |
|---|---|---|
| `CandleLedger` | what a bucket aggregator promises: events seen, pending, and rows replaced by commits | abstract specification |
| `BucketAggregator` | `base_aggregator.py`, both subclasses, the executor and the hypertable | implements `CandleLedger` |
| `PipelineShutdown` | both Binance pipelines under `main._run_all` | several pipelines sharing one stop event and one sink |
| `SentimentAggregator` | `xquik_aggregator.py`, its flusher, endings and threads | - |
| `DbPool` | `db.py` with its threads and `close_pool` | - |
| `ModelArtifacts` | version directories, the two trainers, registry, loader and engine | three processes on one file system |
| `TweetCursor` | `xquik_ingestion.py`, from setting up the monitors to pausing them, over restarts | one coroutine against the XQuik API |
| `MarketClock` | the clock and the tables through which the three cycles below talk | extended by each of them |
| `CexFlowPoller`, `AnomalyEngine`, `LlmBriefing` | the loops of `cex_flow_ingestion.py`, `anomaly_pipeline.py`, `llm_pipeline.py` | one coroutine each |
| `AnalysisCycle` | the three on one clock and one database, over restarts | composes them |
| `NewsPolling` | `news_rss_ingestion.py` with its scorer and store | one coroutine against the feeds |
| `FlowRows` | the queries and the aggregation of `_poll_once` | pure |
| `TrainingWindows`, `Calibration` | windows, labels and ROC threshold of `retraining_service.py`; the engine's window | pure |
| `HealthScore` | `calculate_deterministic_health_score` with the payload's rounding | pure |
| `MarketRows` | candles, the news upsert, the weighted average | pure |
| `Algorithms` | one call of a pure function on one input | composes the pure modules |
| `MC...` | instances for TLC | extend the module they name |
| `NewsAndAlgorithmsProofs` | theorems about the poller of news and about every call of the pure functions | extends `NewsPolling`, `Algorithms` and `TLAPS` |
| `...Proofs` | theorems and their lemmas | extend the module they name and `TLAPS` |

Operators that follow an action and carry the comment "Fault" are plausible
mistakes in that piece of code (a dropped guard, a missing reset, a swapped
order). No action uses them; substituting one for the definition it sits before
shows that a property can fail.

### Conventions

- **Step.** On the event loop, a step is what runs between two awaits, since
  nothing else runs there meanwhile. In threads and processes, a step is an access
  to shared state: a global read without its lock, a rename, an `exists()`.
  Code under a lock is one step unless somebody looks in without the lock.
- **Data.** A row is the set of events it was computed from: count, sums,
  averages, high and low are functions of that set, and "complete" and "counted
  twice" are about the set. A model is the number of its training. Weights,
  scores and prices have no values.
- **Time.** Seconds for the trade buckets, whose arithmetic is modelled
  (`BucketStart`); whole buckets for sentiment, which compares starts of buckets
  only; days for version directories. Clocks never go back.
- **History variables** (`received`, `released`, `registered`, `lost`) only
  record what happened, for the properties.

### BucketAggregator

`buckets` is `_buckets`; `writes` lists the calls of `_write` that had rows, each
queued, running, committed or failed; `table` is the hypertable; `phase` follows
the pipeline (`running`, then `stopping` once its flusher is cancelled),
`TimescaleSink.close` (`closing`, `closed`) and the end of `asyncio.run` (`exited`).
`processor` is the task that calls `add`. It ends by `Drained`, by its own exception,
or not before `Exit`: `DrainAborted` is `main`'s cancellation after a listener's
crash, which leaves the loop coroutine before it joins the queue or cancels the
processor (`aborted`), so that `Add` goes on after `CloseSink`. Nothing makes `CloseSink`
happen: a pipeline may stay in `join`. `Add` is `add` to its end: accumulate,
then `maybe_flush` with the time of the event. `AddRaises` is the order-book
accumulator's `float()` outside its `try`: the bucket exists, nothing is counted,
nothing is flushed, and the processor is gone. `PeriodicFlush` is a turn of the flusher, `CloseSink` is
`flush_all` with its synchronous write. The executor's threads are `StartWrite`
(in submission order, at most `Workers` at once), `CommitWrite`, `FailWrite`.

### PipelineShutdown

Per pipeline: listener, queue length, processor, the loop coroutine's place
(`waiting`, `gather`, `join`, `done`), and how many items sit in open buckets;
`orch` is where `_run_all` is. Cancellation is a request that
takes effect at an await (`Cancel`, `CancelledWaiting`, `AbortDrain`). The
processor returns when the event is set and the queue is empty, exactly as its
`while` says. `CloseSink` flushes what is open at that moment.

One detail of asyncio matters: `_run_all` waits on the stop event before any
pipeline does, callbacks run in the order in which they were scheduled, so it
wakes first.

### SentimentAggregator

`Completed` is the loop over the buckets from the watermark to the current one,
with a fallback for each symbol without tweets; `Late` is the second scan, for
buckets behind the watermark; `Advance` moves the watermark. `FlushAll` runs only
if the stream returns from its loop; `Cancelled` is how the program ends it.

### DbPool

A job is one call of a query function in a thread. `get_pool` reads the global
three times without the lock (`CheckNone`, `CheckClosed`, `ReturnPool`) and takes
the lock otherwise (`LockedGet`). Guarded jobs hold a permit of the semaphore,
direct ones do not. `CloseAll` and `ForgetPool` are the two statements under the
lock in `close_pool`. `Fetching` are the jobs of `execute_query_fetch`, which commits
nothing. `putconn` on an open pool rolls an open transaction back before it forgets
the connection; `RollbackFails` is that rollback raising, which `get_connection` logs:
the connection stays among the used ones (`stuck`) until `closeall`. Cancelling the program's tasks releases the permits of
guarded jobs whose threads go on; the model has no guarded job begin after that.

### ModelArtifacts

`disk[d]` is the version directory of day `d`: nothing, or a model and a scaler,
each by the number of its training. A trainer goes through `exists`, `moveAway`,
`publish`, and `failed` for the handler; each is one access to the
directory that the other trainer shares. The temporary and backup directories
carry unique names and belong to their trainer. `SwapModel` and `SwapScaler` are
the two assignments in `register`, `Get` the engine's read; the loader resolves,
checks, reads the scaler, then the model.

### TweetCursor

The events of a monitor are numbered by capture, newest handed out first, as
`_poll_events` expects. `cursor` is `_last_seen_event_id`; `poll` holds the locals
of `_poll_events`: `new_events` is always a run of consecutive events, written as
the numbers above `below` up to `top`. `FetchPage` is a page with everything up
to the next await: the comparison with the cursor, the reasons to stop, the move
of the cursor, the filters. `FetchFails` is the handler, which returns what the
earlier pages brought. `ScoreAndAdd` is the inference and the adds, which have no
await between them; `ScoreFails(k)` is an exception after the events before `k`
were added, which ends the cycle for all coins. `todo` is what the current loop has
not come to; the order of the coins is left open. `Cancel` is `main`'s: before the
loop it ends the stream at once, inside it runs the finally clause. `Kill` and
`Restart` lose the cursors, which are in memory only.

### MarketClock, CexFlowPoller, AnomalyEngine, LlmBriefing, AnalysisCycle

`bucket` and `phase` are `now // 300` and `now % 300`. Each loop computes
`300 - now % 300` plus its padding, that is, sleeps until its offset in the *next*
bucket, so `wake` is `bucket + 1` at the moment the sleep begins; a sleeper may run
late by any amount. `rows` is the intersection of the three input tables as
`SQL_FETCH_LATEST` builds it, one element per bucket and symbol; the
aggregators add to it late, in any order, or never. `flows[b]` says whether the
poller stored a row for `b`, and whether that was before the engine's offset
(`prompt`). `scores` and `briefs` are the keys of the two result tables.

`CexPolling` fixes the target bucket when `_poll_once` begins; `CexStore` and
`CexNothing` are its end, whenever that is. `EngineFetch` is one symbol's query with the
checks for length and gaps; the flow row of its last bucket is read by the same
statement (`eng.flow`). `EngineStore` is inference and upsert, `EngineNext` the next
symbol or the sleep. `EngineFails` is an exception at a symbol (`Raised`), and
`EngineStartsOver` the loop after its handler, at the first symbol and without a sleep.
`LlmTurn` fixes the expected bucket, `Retry` is a turn of the retry loop with its
`else`, `LlmGetsSequence` the break. `Restart` ends all three coroutines and keeps
the tables. A symbol without a model is skipped by the engine; `NSymbols` counts
those that have one. Symbols are taken in the order of `TRACKED_SYMBOLS`.

### NewsPolling

`seen` is `_last_seen_titles`, `page` the articles of the answer that are still to be
looked at, `fresh` the list `new_articles`. `Take` is a turn of the loop over a
feed's items, `Remember` the add with the clearing after it, which forgets the new
title, too. `Prefill` ignores the limit and every failure, as the code does.
`Score` may lose articles one by one, `StoreFails` the batch. The order of the feeds
and of the items is left open.

### The pure modules

A transfer carries only what the aggregation tells apart: whether its addresses
are an exchange's and whether folding to lower case changes them, its bucket
relative to the target, whether its time can be read, its value, what its contract
and its name stand for. Answers are the newest `FlowLimit` of the transfers that
match. `Flow` is the reference: the value that crossed in the bucket.

A row of a training table is its bucket number and proxy label; `Runs` is the
reference for the windows. Scores in `Calibration` are even numbers, so that the
`+ 1e-5` of the code is `+ 1`; scores that are equal, whose order `argsort` does not
define, are not among the inputs. `HealthScore` counts in tenths and keeps the
two roundings that matter, those of error and threshold; `tanh` of the flow is an
input, as it is monotone. `MarketRows` keeps the news average as a fraction, so
that no rounding of floats is in the way.

## 3. The runs

| Run | Instance | Shows |
|---|---|---|
| `bucket` | 2 events of any kind, 2 symbols, windows of 2 s, 2 threads | one open bucket per symbol, complete rows, the refinement of `CandleLedger`, an event is settled or was left open by a shutdown |
| `shutdown` | 2 pipelines, 2 items each, queue of 1, any task may crash | clean pipelines lose nothing, a crash stops the program, a stop ends it unless a pipeline is stuck in `join` |
| `shutdown_hang` | no crash | `queue.join()` can wait for ever |
| `sentiment` | 2 tweets of any age, 2 symbols, 4 buckets, both endings | no gaps, fallbacks first, no tweet twice, complete rows, every full bucket in the table unless its batch failed |
| `pool` | 3 wrapper jobs, 1 writer thread, 2 permits, 2 connections | one open pool, no leak but by a failing rollback, wrappers alone never exhaust it, jobs end |
| `artifacts` | the job and the script, 2 days, 3 trainings | whole versions, no loss but by crashes and failing restores, engine and registry consistent, trainings end |
| `tweets` | 2 coins, 3 and 1 events, pages of 1, 2 pages a poll, any call may fail, kills and restarts | counted twice only after a failure, missed only where the code gives up, monitors paused, a cancelled stream ends |
| `flows` | poller and engine, 1 symbol, 4 buckets of 4 s, offsets 1, 2, 3, windows of 2, 1 restart | flow rows are final, gaps are explained, rows in time are used |
| `analysis` | engine and briefing, 2 symbols, 5 buckets without seconds, windows of 2, 2 tries | no score over a gap, no second brief, briefings end, what starves a symbol of the engine |
| `news` | 2 feeds, 2 titles in both, a memory of 1, everything may fail | counted twice only after the clearing, nothing skipped silently, news is taken |
| `algorithms` | every input of bounded sets, 100,000 calls | flow rows exact, windows agree, best threshold, monotone health score, rows add up |
| `flows_internal` | one Solana transfer between any two addresses | transfers between exchanges are counted |

The runs that expect a violation each check one sentence of the repository's
documentation or comments against the code; the finding in `PROJECT.json` quotes it.

### Bounds, and why they are enough

- *Two events or tweets.* Every safety property about them relates at most two
  (a late one and an on-time one, one that flushes the bucket of another). The
  proofs hold for any number.
- *Two symbols, three or four buckets.* One symbol's event flushes another's
  bucket; the boot's bucket, a full one, a late one and the current one all occur.
- *Two writer threads.* Two batches of one key can commit in both orders; a third
  thread adds no order of two. The proofs hold for any number.
- *A queue of one, two items.* The queue is full, the listener blocks in `put`, and
  an item comes after the processor's last look.
- *Three wrappers, two permits, two connections.* Permits run out, so do
  connections, and a wrapper waits; the writer thread comes on top, and so does a
  connection that a failing rollback keeps. Two wrappers read, one and the writer commit.
- *Three events, two pages of one.* The page limit is passed, the cursor is the
  first, the last and no event of a page, and events come between pages; the other
  coin waits behind a failing one. The proofs hold for any number of each.
- *Three trainings.* One version in place, two trainers replacing it in turn or at
  once; two days give the loader an older version.
- *Four buckets of four seconds, windows of two rows.* A cycle runs past none, one and
  two boundaries; rows before the start, a gap in the middle and a late row occur. The
  second of the padding is what `SettledFlowIsSeen` is about; the briefing does not
  depend on seconds, nor does what follows an exception, so `analysis` has none and takes
  two symbols instead: one that fails and one behind it. A row may be
  one bucket late (`MaxLag`). The proofs hold for any of these constants.
- *A memory of one title, two titles.* The memory is cleared on the second, with a
  feed still to be asked that carries the first.
- *Inputs of the pure functions.* Two transfers and a limit of one (a cut-off answer),
  tables of six buckets with any gaps and windows of one to three, four scores with any
  labels and lengths, markets on both sides of every branch, three trades, four
  articles, three weights below, within and above the limit.

`CHECK_DEADLOCK FALSE` is in every configuration but `Tweets.cfg` and `News.cfg`, whose
systems never stop, because the others may: all events received, the process exited,
all jobs done, the bounded clock at its end, the call returned.
What must not stop is stated as a liveness property instead.

### Fairness

- *Threads and the event loop run what is ready*: weak fairness on the steps of
  flushers, processors, loop coroutines, writer threads, jobs, trainers, and of an
  engine or a briefing that is awake. A statement ends, with a result or an exception; an
  HTTP call of the pollers ends by its client's timeout. The call of Ollama
  (`llm_pipeline.py`) has no timeout of its own: `BriefingEnds` assumes that it answers or
  raises.
- *Time passes* (`Tick`) where a timer is what makes progress.
- *What is asked again and again answers*: strong fairness on the answer of each feed
  (`NewsIsTaken`). The loop repeats a failed call without end; a feed that
  fails for ever refutes nothing but itself. Weak fairness would not do, since
  every failure in between disables the step. The engine has no such assumption: its
  queries may fail for ever, and `EngineRecovers` says what that costs.
- *Not that `main` ends*: the drain of a pipeline, and with it `flush_all`, has no fairness
  in `BucketAggregator`, because `queue.join()` may wait for ever (`shutdown_hang`).
- *No fairness* for the environment: events, signals, crashes, restarts, market rows,
  the clock of `AnalysisCycle`, the begin of a job or a training never have to happen.

Weak fairness is enough everywhere else: the only waits are for a lock or a
semaphore which no later step can take from a waiter for ever within the bound of
jobs, and those are checked as they are (`JobsEnd`, `TrainingsEnd`).

## 4. The proofs

Each `...Proofs` module shows that an invariant `Inv` is inductive: one lemma per
action, one step per conjunct that the action disturbs. The assumptions are those
that the component's modules state about their constants, and nothing else.
The type invariants, and some invariants that follow closely from others
(`NoDoubleCount`, `NothingDropped`, `OnlyAnAbortedDrainLeavesOpen`, `OnlyAListenerCrashLeavesOpenBuckets`,
`RowsAreOfFullBuckets`, `WatermarkAdvances`, `LiveModelWasReleased`,
`CursorNeverGoesBack`, the news poller's `MemoryIsBounded`), are proved and not model-checked any more.

| Module | Theorems | The invariant, and why the properties need it |
|---|---|---|
| `BucketAggregatorProofs` | `TypeCorrect`, `EventsInOwnBucket`, `EventsCountedOnce`, `EventsNotDropped`, `MemoryIsBounded`, `CloseFlushesUnlessAborted`, `OnTimeRowsComplete`, `AggregatorImplementsLedger` | Places of events; the table is the result of the committed batches; there is one synchronous batch, after which something is opened only by a processor that an aborted drain left behind; every open bucket was opened by an event, so an event of another bucket of the symbol flushes it. The refinement maps a commit or a failure to the ledger's, any other step to `Count` or a stutter. |
| `PipelineShutdownProofs` | `TypeCorrect`, `CleanPipelinesLoseNothing`, `OnlyListenerCrashesLoseData` | Where a loop stands determines what its listener and processor can be: a drain is aborted only after a crash, `join` returned only with an empty queue, teardown comes after every loop is done. |
| `SentimentAggregatorProofs` | `TypeCorrect`, `SeriesHasNoGaps`, `OnlyFullBuckets`, `FallbacksComeFirst`, `TweetsCountedOnce`, `TweetsNotDropped`, `OnTimeRowsComplete`, `WatermarkMonotone` | The watermark lags the clock, every submitted key is behind it, so a bucket completed now was never submitted before. |
| `DbPoolProofs` | `TypeCorrect`, `OneOpenPool`, `ConnectionsReturned`, `NeverTooManyConnections`, `WrappersNeverExhaust` | The life of the pools (the second only after `close_pool`), guarded jobs in flight at most the permits; a connection that is out belongs to a job that uses it or to one that is done and `stuck`; if a wrapper finds all of them out, fewer than the permits are in guarded hands, so more than the rest are with outsiders or lost, by counting. |
| `ModelArtifactsProofs` | `TypeCorrect`, `VersionsWhole`, `VersionsOnlyLostByCrashes`, `LiveWasReleased`, `EnginePairRegistered`, `LivePairOneDay` | A backup is a whole released version of its trainer's day; the registry's lock is held exactly between model and scaler, and nobody swaps while the program loads; the scaler in the loader's hand was released for the day it picked. |
| `TweetCursorProofs` | `TypeCorrect`, `CountedTwiceOnlyAfterFailure`, `CursorMonotone`, `NothingMissedUnknowingly`, `StopPausesMonitors` | What was added is behind the cursor or exposed by a failure; a poll that is under way has read full pages, all above the cursor, so its events are new; their number tells when the page limit was passed. |
| `AnalysisCycleProofs` | `TypeCorrect`, `ScoresAreOfRuns`, `FlowRowsFinal`, `FlowGapsExplained`, `SettledFlowsSeen`, `BriefedOnce` | One invariant per coroutine. Poller: a target lies before the current bucket and after every stored one, since a sleep always ends in a later bucket. Engine: the newest `SeqLen` rows without a gap between neighbours are a run, shown by counting down to the least counterexample; a row stored in time was there when a cycle that was put off reads it. Briefing: a bucket that is briefed now is at least the expected one of its turn, which is later than any bucket briefed in an earlier turn. |
| `NewsAndAlgorithmsProofs`, news | `NewsTypeCorrect`, `NoArticleTwice`, `NoTitleSkipped`, `NewsMemoryIsBounded` | What waits to be stored or is stored was remembered or forgotten, and what is both was forgotten (`TakenMeansSeen`): so a title that is new again was in a memory that was cleared. Before the first cycle only the backlog is remembered (`PrefillIsBacklog`), which the limit does not hold for. |
| `NewsAndAlgorithmsProofs`, calls | `FlowRowsAreExact`, `WindowsOfCallsAgree`, `CalibrationIsBest`, `HealthIsAlwaysMonotone`, `RowsAlwaysAddUp` | A call has typed arguments and returned what its function says (`CallInv`); what the function says is proved about the function, see below. |

### The pure functions, for inputs of any length

The functions of `FlowRows`, `TrainingWindows`, `Calibration`, `HealthScore` and
`MarketRows` are written with `FoldLeft`, which the community modules define by a function
on sets of positions that is chosen by its equation. Three steps lead from there
to what a function returns:

1. *Induction as a set.* `NatInductive` and `UpTo` state induction over the naturals, and over
   `0 .. n`, for the set of numbers with a property; they follow from the
   well-foundedness of `<` by the least counterexample, so no operator has to be instantiated.
2. *Folds by prefixes.* `FoldExists` and `FoldByPrefixes` show that a function with the fold's
   equation exists; so the chosen one has it, and the fold after the first
   `k + 1` elements is a step from the fold after the first `k`.
3. *An invariant of the loop*, per function, carried along the prefixes:
   - windows: `Cutting` relates the block under construction, the windows and labels cut so
     far and the runs found so far; a block is a maximal stretch without a gap, and a run
     ends at a row exactly if the stretch behind it is long enough;
   - flows: the sums of two sets of positions are compared term by term, and the counted
     positions are a part of those that crossed, or all of them;
   - threshold: there is no loop but an argument: any cut flags the first `k` samples for
     some `k`, since their positions are distinct, and `BestIndex` is best among these;
   - news and weights: the fraction is the mean, the weighted sum lies between the
     bounds, after every article or tweet;
   - candles: high, low, first time and open are characterised without the order (a greatest
     element, the element at the least time), and the net sum is invariant under
     a reordering, by taking one place after another out of both.

   The health score needs no loop: each of the six ways to be better is followed through
   signs, clamps and the change of weight at zero.

What these theorems assume of their inputs is `JobsAssumption`: types; rows in the order of
their buckets (the query sorts, the bucket is the key); scores of windows distinct
and even (the order of equal ones is not defined by `argsort`; even, as `+ 1e-5` is `+ 1`). The
properties themselves say the rest: networks other than Solana, a threshold that is
not rounded to zero, trades at distinct times.

### Only model-checked

Liveness (`EveryEventSettles`, `EveryBucketIsReported`, `CancelledStreamEnds`,
`CrashStopsEverything`, `ShutdownEndsUnlessJoinStuck`, `JobsEnd`, `TrainingsEnd`, `EngineRecovers`,
`BriefingEnds`, `NewsIsTaken`), as fairness and `ENABLED` are beyond the prover. Every
other property of a passing run is stated by a theorem.

## 5. What the models show of the code

Beyond the findings in `PROJECT.json`:

- The bucket discipline is sound: pop and accumulate under one lock, rows leave it
  exactly once. What goes wrong with late events is in the upsert, not there: a
  trade later than its bucket's flush replaces the complete row by one that counts
  the late trades only, while README.md:174 calls `trade_count` the number of
  distinct trades. `OnTimeRowIsComplete` says when a row is complete.
- README.md:107 says the semaphore matched to the pool prevents pool errors. It
  does so among the async wrappers (`OnlyOutsidersExhaust`); the threads that write
  buckets and the training use connections beside its permits.
- A `putconn` that raises on an open pool is only logged (`db.py:74`). psycopg2 rolls back
  before it forgets the connection, so when the connection is lost after a fetch or a failed
  statement and is not yet known to be closed, its place in the pool is used up until the
  program ends, and the ten permits meet nine connections. `NoLeak` and
  `OnlyOutsidersExhaust` name this as the only leak.
- A monitor whose fast-forward fails has its backlog scored (`TwiceOnlyAfterFailure`
  covers what a former run had counted). A cancellation, or a failing connection,
  before the loop leaves monitors active, and the docstring's cleanup by `DELETE`
  (xquik_ingestion.py:16) is a pause in the code.
- After a listener's crash its pipeline's drain is aborted by `main`'s
  cancellation and the processor outlives its pipeline; what it adds after the sink
  was closed is not flushed (`OnlyAnAbortedDrainLeavesOpen`). A processor's crash leaves items in the queue instead,
  and the loop in `join` until `main` cancels it.
- `main` reaches `flush_all` only when every pipeline's coroutine has ended
  (`main.py:144`). After `queue.join()` has hung, what sits in open buckets is never
  written; `EveryEventSettles` says so.
- A writer that asks for the pool after `close_pool` creates a second one that
  nobody closes (`db.py:51`); the process ends soon after.
- Replacing a version takes two renames; between them, and for good after a crash
  there, the day has none, although the README (line 112) speaks of an atomic
  write. The loader then takes the version of an older day.
- If the script replaces the directory of the day while the program loads it, the
  loader can pair the scaler of one training with the model of another of the same
  day, or end the engine's task by a `FileNotFoundError`.

- README.md:196 says of `tweet_count` "Total scored tweets matching keywords". A tweet
  polled after its bucket was flushed opens the bucket anew, and its row replaces the
  earlier one (`xquik_aggregator.py:279`): the count is that of the last batch. With the
  default poll interval of 300 s most buckets are split over two polls.
- The comment at `xquik_aggregator.py:278` has late tweets overwrite the fallback row. Each
  batch has a thread of its own with nothing to order them: the fallback may be
  committed last.
- A batch of sentiment rows that fails is logged and not tried again
  (`xquik_aggregator.py:298`), and the watermark has moved: the series keeps the gap, and the
  engine scores no window over it. `EveryBucketIsReported` exempts just that.
- `flush_all` of the tweets ("shutdown", `xquik_aggregator.py:194`) is not reached when
  `main` cancels the stream (`xquik_ingestion.py:533`): the open buckets are lost.
- `get_pool` reads the global three times without the lock (`db.py:43-44`) and may return
  `None`, or trip over it, when `close_pool` comes in between.
- `_poll_events` (docstring: "strictly new events") hands out the events of the earlier pages
  when a later one fails, and again in the next cycle (`xquik_ingestion.py:336`).
- A source weight of 0 is admitted by `_safe_weight` (`source_credibility.py:95`) and
  replaced by 1 in `SentimentAccumulator.add` (`source_weight or 1.0`,
  `xquik_aggregator.py:56`); `calculate_weighted_sentiment` keeps it.
- A flow query holds 500 transfers of ten minutes, newest first (`cex_flow_ingestion.py:74`):
  where more happen, those of the target bucket are cut off. A direction that fails
  writes a row with the other half only. `FlowRowIsExact` says when a row is exact.
- A poll that is still under way at the next boundary loses that boundary's bucket: the
  docstring's "no timing-drift gaps" holds only for polls shorter than the window less
  5 s (`FlowGapOnlyIfBusy`).
- The engine reads at 25 s and never again; a score may lack a flow or news row that came
  later. The briefing waits at most some 20 s from its 35 s on, so it cannot see a score
  of a slow cycle either.
- "12 consecutive buckets" (`llm_pipeline.py:157`) are the last 12 scores: buckets without
  a score are not noticed there. Only the window behind each score has no gaps.
- The calibrated threshold is meant with "at least" (ROC), the engine compares with
  "greater than" (`anomaly_pipeline.py:251`): the window that set the threshold is no
  anomaly itself. A threshold below 0.0000005 is rounded to 0 in the payload, the
  default takes its place, and the excess turns negative (`llm_pipeline.py:78-85`).
- Rows of the news are bucketed by two readings of the clock
  (`news_rss_aggregator.py:40`). `fromtimestamp` rounds to microseconds, which hides the
  difference unless the thread is interrupted between them; then the bucket is off the
  boundary, no earlier row is found by the upsert and none by the join of the engine.
- The engine has one `try` around all symbols (`anomaly_pipeline.py:317`): an exception
  starts the cycle over at the first one, without a pause. One that repeats at a symbol (or a
  failing database) keeps the engine going round at full speed, and no later symbol is
  scored meanwhile; `EngineRecovers` shows that nothing else starves a symbol. How fast
  the loop turns is not in the model.

## 6. What is not modelled

Parsing of messages and feeds, filters and scores of texts, the tables of addresses,
contracts and sources, the language model, moving averages, scaling, the z-scores of
the proxy labels and the training itself (pure or external computations); layout,
logging and configuration; the web API and the dashboard (read-only); the JSONL sink (used
without a database only); stand-alone tools that `main` does not start; weights
from before the version directories.

One piece of dashboard state is worth a module later: `last_seen_anomaly_time`
(`src/web/dashboard.py:1006`) is one value for all five coins, and a refresh looks only at
each coin's last row. By reading, a second coin's anomaly of an already sounded bucket, or one
scored after a newer row of its coin exists, is shown without the alert; no run here checks it.

## 7. Plan

Done: 1 `BucketAggregator` with `CandleLedger`, 2 `PipelineShutdown`,
3 `SentimentAggregator`, 4 `DbPool`, 5 `ModelArtifacts`, 6 `TweetCursor`,
7 `AnalysisCycle`, 8 `NewsPolling`, 9 the pure modules, each with its proofs.

Next, in this order:

10. `TweetFeed`: an abstract feed (each event delivered at most once, in order) that
    `TweetCursor` implements when no call fails, with the refinement proved in
    `TweetCursorProofs`; a ledger of articles, likewise, for `NewsPolling`.
11. Compositions: `PipelineShutdown` with `BucketAggregator` behind the sink
    (items instead of counts), `BucketAggregator` with `DbPool` (writers
    that find the pool exhausted lose their batch).
12. Equal scores of windows: what holds of the threshold whatever order `argsort`
    gives them.
