---------------------------- MODULE BucketAggregator ----------------------------
(***************************************************************************)
(* BaseTimeBucketAggregator with its two subclasses (trade candles and     *)
(* order-book averages), the five-thread executor that writes their rows,  *)
(* and the table the rows are upserted into.                               *)
(*                                                                         *)
(* A row is represented by the set of events it was computed from: count,  *)
(* volume, high, low and the averages are functions of that set.  Adding   *)
(* and flushing run on the event loop's thread with no await in between    *)
(* and under the aggregator's lock, so each is one step; the executor's    *)
(* threads interleave with everything.                                     *)
(***************************************************************************)
EXTENDS Naturals, Sequences, FiniteSets, Functions

CONSTANTS
  Symbols,   \* traded pairs
  Ids,       \* what tells two events apart; bounds how many are received
  Times,     \* event times, in whole seconds
  Clock,     \* readings of the host's clock, in whole seconds
  Window,    \* AGGREGATION_WINDOW_SECONDS
  Workers,   \* max_workers of _db_write_executor
  Kinds      \* what accumulating an event can do: see Kind

\* "count": the accumulator takes the event; "skip": an order-book snapshot
\* with an empty side, which leaves the count alone; "raise": a level whose
\* quantity is not a number, float() raises out of add.
Kind == {"count", "skip", "raise"}

ASSUME ConstantsAssumption ==
  /\ Times \subseteq Nat
  /\ Clock \subseteq Nat /\ 0 \in Clock
  /\ Window \in Nat \ {0}
  /\ Workers \in Nat \ {0}
  /\ Kinds \subseteq Kind

VARIABLES
  buckets,   \* _buckets: open (symbol, bucket) -> events accumulated
  writes,    \* every call of _write that had rows, in order of submission
  table,     \* the hypertable: (symbol, bucket) -> events its row stands for
  now,       \* time.time()
  phase,     \* how far the pipeline and the sink's shutdown have come
  processor, \* the task that calls add
  aborted,   \* the drain was skipped: the processor outlives its pipeline
  received   \* history: every event passed to add

vars == <<buckets, writes, table, now, phase, processor, aborted, received>>

pipeline == <<phase, processor, aborted>>

Events == [id : Ids, symbol : Symbols, time : Times, kind : Kinds]

BucketStart(t) == t - (t % Window)

Key(e) == <<e.symbol, BucketStart(e.time)>>

Keys == Symbols \X {BucketStart(t) : t \in Times}

Row == SUBSET Events

\* A partial function from keys to rows: open buckets, a batch, the table.
IsRows(r) == DOMAIN r \subseteq Keys /\ r \in [DOMAIN r -> Row]

NoRows == [k \in {} |-> {}]

\* A batch: never empty, and without empty rows.
IsWrite(w) ==
  /\ w = [rows |-> w.rows, state |-> w.state, sync |-> w.sync]
  /\ IsRows(w.rows)
  /\ DOMAIN w.rows # {}
  /\ \A k \in DOMAIN w.rows : w.rows[k] # {}
  /\ w.state \in {"queued", "running", "committed", "failed"}
  /\ w.sync \in BOOLEAN

Phase == {"running",   \* pipeline up, periodic flusher alive
          "stopping",  \* flusher cancelled, the processor still empties the queue
          "closing",   \* flush_all is writing, the event loop is blocked
          "closed",    \* flush_all has returned
          "exited"}    \* asyncio.run has cancelled what was left

Init ==
  /\ buckets = NoRows
  /\ writes = <<>>
  /\ table = NoRows
  /\ now = 0
  /\ phase = "running"
  /\ processor = "running"
  /\ aborted = FALSE
  /\ received = {}

-----------------------------------------------------------------------------
(* Accumulating and flushing.                                              *)

\* Fault: a fresh accumulator each time, the one in the dict is not looked up.
AccumulateFresh(b, e) ==
  [k \in DOMAIN b \union {Key(e)} |->
     IF k = Key(e) THEN {x \in {e} : x.kind = "count"} ELSE b[k]]

\* The bucket of e exists afterwards even if e was skipped or raised.
Accumulate(b, e) ==
  [k \in DOMAIN b \union {Key(e)} |->
     (IF k \in DOMAIN b THEN b[k] ELSE {})
       \union (IF k = Key(e) /\ e.kind = "count" THEN {e} ELSE {})]

ShouldFlush(row) == row # {}

\* Fault: one window too patient.
StaleKeysLate(b, t) == {k \in DOMAIN b : k[2] + Window < BucketStart(t)}

StaleKeys(b, t) == {k \in DOMAIN b : k[2] < BucketStart(t)}

\* The rows of the buckets in K worth writing; the others vanish with K.
RowsToWrite(b, K) == [k \in {x \in K : ShouldFlush(b[x])} |-> b[k]]

\* _write: nothing to do without rows, else a batch for the executor, or for
\* the calling thread when synchronous.
WriteRows(rows, synchronous) ==
  writes' = IF DOMAIN rows = {}
              THEN writes
              ELSE Append(writes,
                          [rows |-> rows,
                           state |-> IF synchronous THEN "running" ELSE "queued",
                           sync |-> synchronous])

Pop(b, K) == Restrict(b, DOMAIN b \ K)

MaybeFlush(b, t) ==
  /\ buckets' = Pop(b, StaleKeys(b, t))
  /\ WriteRows(RowsToWrite(b, StaleKeys(b, t)), FALSE)

\* Each symbol's stream delivers in order of event time; streams of different
\* symbols interleave freely, and the exchange's clock is not the host's.
Arrives(e) ==
  /\ \A f \in received : f.id # e.id
  /\ \A f \in received : f.symbol = e.symbol => f.time <= e.time
  /\ received' = received \union {e}

\* The processor's task can run, also after flush_all if it was left behind.
Processing == processor = "running" /\ phase \notin {"closing", "exited"}

Add(e) ==
  /\ Processing
  /\ e.kind # "raise"
  /\ Arrives(e)
  /\ MaybeFlush(Accumulate(buckets, e), e.time)
  /\ UNCHANGED <<table, now, pipeline>>

\* The exception leaves add before maybe_flush and ends the processor task.
AddRaises(e) ==
  /\ Processing
  /\ e.kind = "raise"
  /\ Arrives(e)
  /\ buckets' = Accumulate(buckets, e)
  /\ processor' = "gone"
  /\ UNCHANGED <<writes, table, now, phase, aborted>>

Tick(t) ==
  /\ t > now
  /\ now' = t
  /\ UNCHANGED <<buckets, writes, table, pipeline, received>>

\* Fault: the flusher passes seconds where milliseconds are expected.
PeriodicFlushEpoch ==
  /\ phase = "running"
  /\ MaybeFlush(buckets, 0)
  /\ UNCHANGED <<table, now, pipeline, received>>

\* One round of run_periodic_flusher, on the wall clock.
PeriodicFlush ==
  /\ phase = "running"
  /\ MaybeFlush(buckets, now)
  /\ UNCHANGED <<table, now, pipeline, received>>

\* The pipeline stops: the flusher is cancelled.
Stop ==
  /\ phase = "running"
  /\ phase' = "stopping"
  /\ UNCHANGED <<buckets, writes, table, now, processor, aborted, received>>

\* The queue is empty: the processor returns, or is cancelled after the join.
Drained ==
  /\ phase = "stopping"
  /\ processor = "running"
  /\ processor' = "gone"
  /\ UNCHANGED <<buckets, writes, table, now, phase, aborted, received>>

\* After a crash of the listener main's cancellation arrives while the pipeline
\* gathers its tasks: neither the queue nor the processor is waited for.
DrainAborted ==
  /\ phase = "stopping"
  /\ processor = "running" /\ ~aborted
  /\ aborted' = TRUE
  /\ UNCHANGED <<buckets, writes, table, now, phase, processor, received>>

\* The pipeline's task is done: TimescaleSink.close -> flush_all, which returns
\* at once without rows.
CloseSink ==
  LET rows == RowsToWrite(buckets, DOMAIN buckets) IN
  /\ phase = "stopping"
  /\ processor = "gone" \/ aborted
  /\ buckets' = NoRows
  /\ WriteRows(rows, TRUE)
  /\ phase' = IF DOMAIN rows = {} THEN "closed" ELSE "closing"
  /\ UNCHANGED <<table, now, processor, aborted, received>>

\* _run_all has returned: asyncio.run cancels a processor left behind.
Exit ==
  /\ phase = "closed"
  /\ phase' = "exited"
  /\ processor' = "gone"
  /\ UNCHANGED <<buckets, writes, table, now, aborted, received>>

-----------------------------------------------------------------------------
(* The executor's threads and the database.                                *)

\* Fault: the columns are added to the row in conflict.
UpsertAdd(t, rows) ==
  [k \in DOMAIN t \union DOMAIN rows |->
     (IF k \in DOMAIN t THEN t[k] ELSE {})
       \union (IF k \in DOMAIN rows THEN rows[k] ELSE {})]

\* ON CONFLICT (bucket, symbol) DO UPDATE SET every column = EXCLUDED.
Upsert(t, rows) ==
  [k \in DOMAIN t \union DOMAIN rows |->
     IF k \in DOMAIN rows THEN rows[k] ELSE t[k]]

Busy == {i \in DOMAIN writes : writes[i].state = "running" /\ ~writes[i].sync}

SetState(i, state) == writes' = [writes EXCEPT ![i].state = state]

\* A free worker takes the oldest batch of the executor's queue.
StartWrite(i) ==
  /\ writes[i].state = "queued"
  /\ \A j \in 1 .. i - 1 : writes[j].state # "queued"
  /\ Cardinality(Busy) < Workers
  /\ SetState(i, "running")
  /\ UNCHANGED <<buckets, table, now, pipeline, received>>

\* flush_all returns when its own batch is done.
Return(i) == phase' = IF writes[i].sync THEN "closed" ELSE phase

CommitWrite(i) ==
  /\ writes[i].state = "running"
  /\ SetState(i, "committed")
  /\ table' = Upsert(table, writes[i].rows)
  /\ Return(i)
  /\ UNCHANGED <<buckets, now, processor, aborted, received>>

\* Any exception is logged and swallowed: the rows are gone.
FailWrite(i) ==
  /\ writes[i].state = "running"
  /\ SetState(i, "failed")
  /\ Return(i)
  /\ UNCHANGED <<buckets, table, now, processor, aborted, received>>

Next ==
  \/ \E e \in Events : Add(e) \/ AddRaises(e)
  \/ \E t \in Clock : Tick(t)
  \/ PeriodicFlush
  \/ Stop \/ Drained \/ DrainAborted
  \/ CloseSink \/ Exit
  \/ \E i \in DOMAIN writes : StartWrite(i) \/ CommitWrite(i) \/ FailWrite(i)

Spec == Init /\ [][Next]_vars

\* The flusher loops for as long as the pipeline is up, threads make progress
\* and a statement either succeeds or raises; time passes.  Nothing says that the
\* drain ends: main may wait for ever before it closes the sink.
Fairness ==
  /\ WF_vars(\E t \in Clock : Tick(t))
  /\ WF_vars(PeriodicFlush)
  /\ WF_vars(\E i \in DOMAIN writes : StartWrite(i))
  /\ WF_vars(\E i \in DOMAIN writes : CommitWrite(i) \/ FailWrite(i))

FairSpec == Spec /\ Fairness

-----------------------------------------------------------------------------
(* Properties.                                                             *)

Countable == {e \in received : e.kind = "count"}

EventsOf(k) == {e \in Countable : Key(e) = k}

InRows(rows, e) == Key(e) \in DOMAIN rows /\ e \in rows[Key(e)]

Open(e) == InRows(buckets, e)

InWrite(i, e) == InRows(writes[i].rows, e)

Settled(e) == \E i \in DOMAIN writes :
                 InWrite(i, e) /\ writes[i].state \in {"committed", "failed"}

\* Types, and that _write never hands the database an empty batch or row.
TypeOK ==
  /\ IsRows(buckets)
  /\ writes \in Seq(Range(writes))
  /\ \A i \in DOMAIN writes : IsWrite(writes[i])
  /\ IsRows(table)
  /\ now \in Clock
  /\ phase \in Phase
  /\ processor \in {"running", "gone"}
  /\ aborted \in BOOLEAN
  /\ received \subseteq Events

\* An event sits only under its own (symbol, bucket), in memory, in a batch and
\* in the table (the key computed in add and the one in to_row agree).
OwnBucketOnly ==
  /\ \A k \in DOMAIN buckets : buckets[k] \subseteq EventsOf(k)
  /\ \A i \in DOMAIN writes : \A k \in DOMAIN writes[i].rows :
       writes[i].rows[k] \subseteq EventsOf(k)

\* No event reaches two rows, and none is both in a row and still open: the
\* timer, the later event and the shutdown flush never take the same bucket
\* (base_aggregator pops under the lock, flush_all clears under it).
NoDoubleCount ==
  /\ \A e \in Events, i \in DOMAIN writes : ~(InWrite(i, e) /\ Open(e))
  /\ \A e \in Events, i, j \in DOMAIN writes :
       InWrite(i, e) /\ InWrite(j, e) => i = j

\* No accumulated event disappears between memory and the executor: each is in
\* an open bucket or in a batch, whichever flush raced with which.
NothingDropped ==
  \A e \in Countable : Open(e) \/ \E i \in DOMAIN writes : InWrite(i, e)

\* While the processor runs, a symbol has at most one open bucket, however the
\* symbols' streams interleave with each other, with the timer and with
\* flush_all: what add keeps in memory does not grow with time.
OneOpenBucketPerSymbol ==
  processor = "running" =>
    \A k, l \in DOMAIN buckets : k[1] = l[1] => k = l

\* A row that was flushed once, and has not been reopened, stands for every
\* event of its bucket: only an event later than its bucket's flush can make a
\* row of the table incomplete.
OnTimeRowIsComplete ==
  \A k \in DOMAIN table :
    (/\ k \notin DOMAIN buckets
     /\ \A i, j \in DOMAIN writes :
          k \in DOMAIN writes[i].rows /\ k \in DOMAIN writes[j].rows => i = j)
    => table[k] = EventsOf(k)

\* After flush_all has returned (timescale_sink.close, main's step 3), something
\* is open only if the drain was aborted, and flush_all's own batches have been
\* executed: nothing is added once the drain is over, and main waits for it.
OnlyAnAbortedDrainLeavesOpen ==
  phase \in {"closed", "exited"} =>
    /\ DOMAIN buckets # {} => aborted
    /\ \A i \in DOMAIN writes : writes[i].sync => writes[i].state \in {"committed", "failed"}

\* The aggregator implements the ledger: whatever it does, an event is settled
\* at most once, by one batch, which replaces whole rows.
Ledger == INSTANCE CandleLedger WITH
  Events  <- {e \in Events : e.kind = "count"},
  KeyOf   <- Key,
  seen    <- Countable,
  pending <- {e \in Countable : ~Settled(e)}

ImplementsLedger == Ledger!Spec

\* While the pipeline is up the timer settles every event that counts, also when
\* no later one comes.  An event may stay open only once the flusher is cancelled:
\* main has not come to flush_all, and need not, or the event came after it.
\* Whatever a flush took is settled.
EveryEventSettles ==
  \A e \in Events : e \in Countable ~> Settled(e) \/ (phase # "running" /\ Open(e))
=============================================================================
