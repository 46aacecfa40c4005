------------------------------ MODULE MarketClock ------------------------------
(***************************************************************************)
(* What the three cycles on the five-minute clock share: the clock, and    *)
(* the tables of the database through which alone they talk to each other. *)
(* The database outlives the process.                                      *)
(*                                                                         *)
(* The clock is time.time() split into the bucket it is in and the seconds *)
(* since that bucket began, now // 300 and now % 300.                      *)
(***************************************************************************)
EXTENDS Integers, FiniteSets

CONSTANTS
  NSymbols,                          \* length of TRACKED_SYMBOLS
  Window,                            \* seconds of a bucket, 300
  CexOffset, EngineOffset, LlmOffset,\* seconds after the boundary: 5, 25, 35
  SeqLen,                            \* SEQ_LEN, 12
  FirstBucket,                       \* the bucket in which the program starts
  LastBucket,                        \* bounds the clock
  MaxLag                             \* bounds how late a row of the market is

ASSUME ClockAssumption ==
  /\ {NSymbols, Window, SeqLen} \subseteq Nat \ {0}
  /\ {CexOffset, EngineOffset, LlmOffset} \subseteq 0 .. Window - 1
  /\ {FirstBucket, LastBucket, MaxLag} \subseteq Nat
  /\ FirstBucket <= LastBucket

VARIABLES
  bucket, phase,  \* the clock
  rows,           \* <<bucket, symbol>> in all of trades, order book and tweets
  flows,          \* per bucket: what the CEX poller has made of it
  scores,         \* <<bucket, symbol>> in ai_anomalies_5m
  briefs          \* <<bucket, symbol>> in llm_health_scores

clock == <<bucket, phase>>

Symbols == 1 .. NSymbols

Buckets == 0 .. LastBucket

\* A flow row is there: stored before the engine's offset, or after it.
Stored == {"prompt", "late"}

\* A sleeper may run from this second of that bucket on, or any time later.
Reached(b, offset) == bucket > b \/ (bucket = b /\ phase >= offset)

Of(table, s) == {b \in Buckets : <<b, s>> \in table}

\* ORDER BY bucket DESC LIMIT n
Newest(n, S) == {b \in S : Cardinality({c \in S : c > b}) < n}

Last(S) == CHOOSE b \in S : \A c \in S : c <= b

ClockInit ==
  /\ bucket = FirstBucket
  /\ phase = 0
  /\ rows \in SUBSET {e \in Buckets \X Symbols : e[1] < FirstBucket - 1}
  /\ flows = [b \in Buckets |-> "unpolled"]
  /\ scores = {}
  /\ briefs = {}

Tick ==
  \/ phase + 1 < Window /\ phase' = phase + 1 /\ bucket' = bucket
  \/ phase + 1 = Window /\ phase' = 0 /\ bucket < LastBucket /\ bucket' = bucket + 1

\* The aggregators complete the row of a finished bucket, late or never.
MarketRow(b, s) ==
  /\ b < bucket
  /\ bucket <= b + MaxLag
  /\ <<b, s>> \notin rows
  /\ rows' = rows \union {<<b, s>>}
  /\ UNCHANGED <<clock, flows, scores, briefs>>
=============================================================================
