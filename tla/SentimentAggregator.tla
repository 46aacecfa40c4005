-------------------------- MODULE SentimentAggregator --------------------------
(***************************************************************************)
(* SentimentAggregator: tweet scores bucketed by (symbol, window), written *)
(* as a series without gaps, one thread per batch.                         *)
(*                                                                         *)
(* The code only ever compares starts of buckets, so time is counted in    *)
(* buckets.  A row is the set of tweets it was computed from, the empty    *)
(* set for the 0-tweet fallback.  add, the periodic flusher and flush_all  *)
(* run on the event loop's thread without an await, so each is one step;   *)
(* the writer threads interleave with everything and with each other.      *)
(***************************************************************************)
EXTENDS Naturals, Sequences, FiniteSets, Functions

CONSTANTS
  Symbols,   \* tracked_tokens: every symbol with a monitor is one of them
  Ids,       \* what tells two tweets apart; bounds how many are received
  Boot,      \* the bucket in which the program starts
  Clock,     \* buckets the host's clock can be in
  Endings    \* how the stream ends: see Ending

\* "cancelled": main cancels the stream's task, which is how the program stops;
\* "returned": the loop sees the stop event, as when nobody cancels the task.
Ending == {"cancelled", "returned"}

ASSUME ConstantsAssumption ==
  /\ Boot \in Nat
  /\ Clock \subseteq Nat /\ Boot \in Clock
  /\ Endings \subseteq Ending

VARIABLES
  buckets,       \* _buckets: open (symbol, bucket) -> tweets
  lastFlushed,   \* _last_flushed_bucket
  writes,        \* every call of _write that had rows, in order
  table,         \* tweet_sentiment_5m: (symbol, bucket) -> tweets of its row
  now,           \* bucket of time.time()
  phase,         \* "running", or how the stream ended
  received       \* history: every tweet passed to add

vars == <<buckets, lastFlushed, writes, table, now, phase, received>>

Tweets == [id : Ids, symbol : Symbols, bucket : Nat]

Key(w) == <<w.symbol, w.bucket>>

Keys == Symbols \X Nat

IsRows(r) == DOMAIN r \subseteq Keys /\ r \in [DOMAIN r -> SUBSET received]

NoRows == [k \in {} |-> {}]

IsWrite(w) ==
  /\ w = [rows |-> w.rows, state |-> w.state]
  /\ IsRows(w.rows)
  /\ DOMAIN w.rows # {}
  /\ w.state \in {"running", "committed", "failed"}

\* The bucket of the boot itself is incomplete.
FirstValid == Boot + 1

Init ==
  /\ buckets = NoRows
  /\ lastFlushed = Boot
  /\ writes = <<>>
  /\ table = NoRows
  /\ now = Boot
  /\ phase = "running"
  /\ received = {}

-----------------------------------------------------------------------------
(* Accumulating and flushing.                                              *)

\* Fault: the tweet replaces the accumulator of its bucket.
AccumulateFresh(b, w) ==
  [k \in DOMAIN b \union {Key(w)} |-> IF k = Key(w) THEN {w} ELSE b[k]]

Accumulate(b, w) ==
  [k \in DOMAIN b \union {Key(w)} |->
     (IF k \in DOMAIN b THEN b[k] ELSE {}) \union (IF k = Key(w) THEN {w} ELSE {})]

\* Fault: the first bucket after the watermark is left out.
CompletedSkipping(t) == Symbols \X (lastFlushed + 2 .. t - 1)

\* Fault: the current bucket is taken for complete.
CompletedEarly(t) == Symbols \X (lastFlushed + 1 .. t)

\* 1. Every tracked symbol in every bucket after the watermark that is over.
Completed(t) == Symbols \X {b \in lastFlushed + 1 .. t : b < t}

\* 2. Whatever else is open in a bucket that is over: late tweets.
Late(b, t) == {k \in DOMAIN b : FirstValid <= k[2] /\ k[2] < t} \ Completed(t)

\* A missing accumulator yields the fallback row.
RowsOf(b, K) == [k \in K |-> IF k \in DOMAIN b THEN b[k] ELSE {}]

\* Fault: late accumulations are read, not popped.
PopCompleted(b, t) == Restrict(b, {k \in DOMAIN b : k \notin Completed(t)})

\* Everything over is popped, what is not late or completed is discarded.
Pop(b, t) == Restrict(b, {k \in DOMAIN b : k[2] >= t})

Advance(t) == lastFlushed' = IF t > lastFlushed + 1 THEN t - 1 ELSE lastFlushed

\* _write: one daemon thread per batch.
WriteRows(rows, state) ==
  writes' = IF DOMAIN rows = {}
              THEN writes
              ELSE Append(writes, [rows |-> rows, state |-> state])

MaybeFlush(b, t) ==
  /\ WriteRows(RowsOf(b, Completed(t) \union Late(b, t)), "running")
  /\ Advance(t)
  /\ buckets' = Pop(b, t)

\* A poll delivers tweets of any age, but none from the future.
Arrives(w) ==
  /\ \A v \in received : v.id # w.id
  /\ w.bucket <= now
  /\ received' = received \union {w}

Add(w) ==
  /\ phase = "running"
  /\ Arrives(w)
  /\ MaybeFlush(Accumulate(buckets, w), w.bucket)
  /\ UNCHANGED <<table, now, phase>>

\* Fault: the flusher does nothing while no tweet is buffered.
PeriodicFlushIfBuffered ==
  /\ phase = "running"
  /\ DOMAIN buckets # {}
  /\ MaybeFlush(buckets, now)
  /\ UNCHANGED <<table, now, phase, received>>

\* One round of run_periodic_flusher.
PeriodicFlush ==
  /\ phase = "running"
  /\ MaybeFlush(buckets, now)
  /\ UNCHANGED <<table, now, phase, received>>

Tick(t) ==
  /\ t > now
  /\ now' = t
  /\ UNCHANGED <<buckets, lastFlushed, writes, table, phase, received>>

\* flush_all on the event loop's thread; the write, too, has no await.  (The
\* code compares with the instant of the boot, not with FirstValid: the same
\* unless the program boots in the very first microsecond of a bucket.)
FlushAll ==
  LET rows == RowsOf(buckets, {k \in DOMAIN buckets : FirstValid <= k[2]})
  IN
  /\ "returned" \in Endings
  /\ phase = "running"
  /\ phase' = "returned"
  /\ buckets' = NoRows
  /\ WriteRows(rows, "running")
  /\ UNCHANGED <<lastFlushed, table, now, received>>

\* A CancelledError leaves start_xquik_sentiment_stream past flush_all.
Cancelled ==
  /\ "cancelled" \in Endings
  /\ phase = "running"
  /\ phase' = "cancelled"
  /\ UNCHANGED <<buckets, lastFlushed, writes, table, now, received>>

-----------------------------------------------------------------------------
(* The writer threads and the database.                                    *)

\* ON CONFLICT (bucket, symbol) DO UPDATE SET every column = EXCLUDED.
Upsert(t, rows) ==
  [k \in DOMAIN t \union DOMAIN rows |->
     IF k \in DOMAIN rows THEN rows[k] ELSE t[k]]

SetState(i, state) == writes' = [writes EXCEPT ![i].state = state]

CommitWrite(i) ==
  /\ writes[i].state = "running"
  /\ SetState(i, "committed")
  /\ table' = Upsert(table, writes[i].rows)
  /\ UNCHANGED <<buckets, lastFlushed, now, phase, received>>

\* The statement raises, or the process ends with the daemon thread.
FailWrite(i) ==
  /\ writes[i].state = "running"
  /\ SetState(i, "failed")
  /\ UNCHANGED <<buckets, lastFlushed, table, now, phase, received>>

Next ==
  \/ \E w \in [id : Ids, symbol : Symbols, bucket : Clock] : Add(w)
  \/ PeriodicFlush
  \/ \E t \in Clock : Tick(t)
  \/ FlushAll
  \/ Cancelled
  \/ \E i \in DOMAIN writes : CommitWrite(i) \/ FailWrite(i)

Spec == Init /\ [][Next]_vars

\* The flusher loops while the stream is up; threads end; time passes.
Fairness ==
  /\ WF_vars(PeriodicFlush)
  /\ WF_vars(\E t \in Clock : Tick(t))
  /\ WF_vars(\E i \in DOMAIN writes : CommitWrite(i) \/ FailWrite(i))

FairSpec == Spec /\ Fairness
-----------------------------------------------------------------------------
(* Properties.                                                             *)

TypeOK ==
  /\ received \subseteq Tweets
  /\ IsRows(buckets)
  /\ lastFlushed \in Nat
  /\ writes \in Seq(Range(writes))
  /\ \A i \in DOMAIN writes : IsWrite(writes[i])
  /\ IsRows(table)
  /\ now \in Clock
  /\ phase \in {"running"} \union Ending

TweetsOf(k) == {w \in received : Key(w) = k}

InWrite(i, k) == k \in DOMAIN writes[i].rows

\* The series has no gaps: every tracked symbol was given a row in every bucket
\* from the first full one to the watermark, tweets or none (the anomaly
\* engine's INTERSECT skips a bucket that has no sentiment row).
GapFree ==
  \A s \in Symbols, b \in FirstValid .. lastFlushed :
    \E i \in DOMAIN writes : InWrite(i, <<s, b>>)

\* No row of the timer's stands for a bucket that is not over, none at all for
\* the bucket of the boot or earlier ones, which are incomplete.
RowsAreOfFullBuckets ==
  \A i \in DOMAIN writes : \A k \in DOMAIN writes[i].rows :
    /\ FirstValid <= k[2]
    /\ phase = "running" => k[2] < now

\* A fallback is only submitted when nothing was submitted for its key before:
\* no flush, late or not, is followed by the submission of a 0-tweet row.
FallbackComesFirst ==
  \A i, j \in DOMAIN writes : i < j =>
    \A k \in DOMAIN writes[i].rows \intersect DOMAIN writes[j].rows :
      writes[j].rows[k] # {}

InRows(rows, w) == Key(w) \in DOMAIN rows /\ w \in rows[Key(w)]

\* A tweet is submitted at most once, and is open no more when it has been.
NoTweetTwice ==
  \A w \in received :
    /\ \A i \in DOMAIN writes :
         InRows(writes[i].rows, w) => ~InRows(buckets, w)
    /\ \A i, j \in DOMAIN writes :
         InRows(writes[i].rows, w) /\ InRows(writes[j].rows, w) => i = j

\* A tweet of a full bucket is open or was submitted: late ones are found again,
\* whichever bucket came in between.
NothingDropped ==
  \A w \in received : FirstValid <= w.bucket =>
    InRows(buckets, w) \/ \E i \in DOMAIN writes : InRows(writes[i].rows, w)

\* A bucket that was submitted once, and is not open again, has all its tweets.
OnTimeRowIsComplete ==
  \A i \in DOMAIN writes : \A k \in DOMAIN writes[i].rows :
    (k \notin DOMAIN buckets /\ \A j \in DOMAIN writes : InWrite(j, k) => i = j)
    => writes[i].rows[k] = TweetsOf(k)

\* The watermark never goes back, whatever the age of a tweet.
WatermarkAdvances == [][lastFlushed' >= lastFlushed]_vars

\* As long as the stream is up, every symbol has a committed row for every full
\* bucket that ends, without a single tweet.  A batch that fails is the only
\* exception, and a gap for ever: the exception is logged, the watermark has moved
\* and nothing writes the fallback again.
EveryBucketIsReported ==
  \A s \in Symbols, b \in Clock :
    (FirstValid <= b /\ b < now) ~>
      \/ <<s, b>> \in DOMAIN table
      \/ \E i \in DOMAIN writes : InWrite(i, <<s, b>>) /\ writes[i].state = "failed"
      \/ phase # "running" /\ \A i \in DOMAIN writes : ~InWrite(i, <<s, b>>)
=============================================================================
