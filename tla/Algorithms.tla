------------------------------- MODULE Algorithms -------------------------------
(***************************************************************************)
(* The pure functions between the tables, each applied to every input of a *)
(* set: what a row, a window, a threshold and a health score are computed  *)
(* from.  A behaviour is one call.                                         *)
(***************************************************************************)
EXTENDS FlowRows, TrainingWindows, Calibration, HealthScore, MarketRows

CONSTANTS
  FlowJobs,         \* [network, symbol, transfers, answered]
  WindowJobs,       \* [rows, n]
  CalibrationJobs,  \* [scores, labels]
  HealthJobs,       \* [market]
  CandleJobs,       \* [trades]
  NewsJobs,         \* [scores]
  WeightJobs        \* [items]

ASSUME JobsAssumption ==
  /\ FlowJobs \subseteq [network : STRING, symbol : STRING, transfers : Seq(Transfer),
                          answered : SUBSET Directions]
  /\ WindowJobs \subseteq {j \in [rows : Seq([bucket : Int, label : Int]), n : Nat \ {0}] :
                             \A i \in 1 .. Len(j.rows) - 1 :
                               j.rows[i].bucket < j.rows[i + 1].bucket}
  /\ CalibrationJobs \subseteq {j \in [scores : Seq(Int), labels : Seq({0, 1})] :
                                  IsInjective(j.scores)
                                    /\ \A i \in DOMAIN j.scores : j.scores[i] % 2 = 0}
  /\ HealthJobs \subseteq [market : Market]
  /\ CandleJobs \subseteq [trades : Seq(Trade)]
  /\ NewsJobs \subseteq [scores : Seq(Int)]
  /\ WeightJobs \subseteq [items : Seq(Tweet)]

VARIABLES
  job,   \* the function and its arguments
  result \* what it returned

call == <<job, result>>

Pending == [of |-> "none"]

Jobs(of, inputs) == {[of |-> of, in |-> i] : i \in inputs}

AnyJob ==
  /\ result = Pending
  /\ \/ job \in Jobs("flow", FlowJobs)
     \/ job \in Jobs("windows", WindowJobs)
     \/ job \in Jobs("threshold", CalibrationJobs)
     \/ job \in Jobs("health", HealthJobs)
     \/ job \in Jobs("candle", CandleJobs)
     \/ job \in Jobs("news", NewsJobs)
     \/ job \in Jobs("weights", WeightJobs)

Call(of) == job.of = of /\ result = Pending /\ UNCHANGED job

Return(value) == result' = [of |-> job.of, value |-> value]

AggregateFlows ==
  /\ Call("flow")
  /\ Return(FlowRow(job.in.network, job.in.symbol, job.in.transfers, job.in.answered))

CutWindows ==
  /\ Call("windows")
  /\ Return([windows |-> slice_continuous_windows(job.in.rows, job.in.n),
             labels |-> align_labels_to_sequences(job.in.rows, job.in.n),
             latest |-> LatestWindow(job.in.rows, job.in.n)])

CalibrateThreshold ==
  Call("threshold") /\ Return(Calibrate(job.in.scores, job.in.labels))

ScoreHealth ==
  Call("health") /\ Return(calculate_deterministic_health_score(job.in.market))

BuildCandle == Call("candle") /\ Return(Candle(job.in.trades))

AddNews == Call("news") /\ Return(NewsRow(job.in.scores))

WeighTweets == Call("weights") /\ Return(calculate_weighted_sentiment(job.in.items))

AnyCall ==
        \/ AggregateFlows \/ CutWindows \/ CalibrateThreshold \/ ScoreHealth
        \/ BuildCandle \/ AddNews \/ WeighTweets

Calls == AnyJob /\ [][AnyCall]_call

-----------------------------------------------------------------------------
(* Properties.                                                             *)

\* On an EVM network a row of flows never says more than what crossed between
\* exchanges and the rest in its bucket, and says exactly that for a direction
\* that was answered, not cut off at the limit, and with readable times.
FlowRowIsExact ==
  result.of = "flow" /\ job.in.network # "solana" =>
    \A direction \in Directions :
      LET xs == job.in.transfers
          stored == IF direction = "inflow" THEN result.value.inflow ELSE result.value.outflow
          found == Matching(xs, direction)
      IN /\ stored <= Flow(job.in.symbol, xs, direction)
         /\ direction \in job.in.answered /\ Cardinality(found) <= FlowLimit
              /\ (\A i \in found : xs[i].timed)
            => stored = Flow(job.in.symbol, xs, direction)

\* "internal CEX-to-CEX": transfers between two exchanges make no row, on any
\* network.
NoInternalTransfer ==
  result.of = "flow"
    /\ (\A i \in DOMAIN job.in.transfers :
          job.in.transfers[i].from.cex /\ job.in.transfers[i].to.cex)
  => ~result.value.written

\* Over a table with gaps, training cuts exactly the runs of consecutive
\* buckets; every window has the label of its own last row; and the engine
\* scores just those windows that training would cut at the end of the table.
WindowsAgree ==
  result.of = "windows" =>
    LET rows == job.in.rows
        windows == result.value.windows
        latest == result.value.latest
        atEnd == {i \in DOMAIN windows : Last(windows[i]) = Last(rows)}
    IN /\ windows = Runs(rows, job.in.n)
       /\ result.value.labels =
            [i \in DOMAIN windows |-> Last(windows[i]).label]
       /\ IF latest = <<>> THEN atEnd = {} ELSE \E i \in atEnd : windows[i] = latest

\* No other cut of the training windows tells the labels apart better than the
\* calibrated threshold, with windows of one class only too.
ThresholdIsBest ==
  result.of = "threshold" /\ job.in.scores # <<>> =>
    LET samples == Samples(job.in.scores, job.in.labels)
        cuts == {samples[i].score : i \in DOMAIN samples}
    IN \A t \in cuts \union {c + 1 : c \in cuts} :
         Informedness(samples, t) <= Informedness(samples, result.value)

\* Markets that are a little better than m in one respect.
Better(m) ==
  {[m EXCEPT !.imbalance = @ + 1], [m EXCEPT !.news = @ + 1],
   [m EXCEPT !.tweets = @ + 1], [m EXCEPT !.flow = @ - 1],
   [m EXCEPT !.price = @ + 1], [m EXCEPT !.trade = @ + 1]}

\* Whatever gets better for a market never lowers its health score, through the
\* flags of an anomaly and the change of weight at zero too, unless the
\* threshold is so small that the payload rounds it away.
HealthIsMonotone ==
  result.of = "health" /\ Rounded(job.in.market.threshold) > 0 =>
    \A m \in Better(job.in.market) :
      result.value <= calculate_deterministic_health_score(m)

\* How events add up to a row does not depend on the order they come in, the
\* close of a candle apart: open is the price of the earliest trade.  A news row
\* is the mean of its articles, however many upserts made it.  Weights of any
\* kind keep the average of tweets within their scores.
RowsAddUp ==
  /\ result.of = "candle" =>
       LET trades == job.in.trades
           Orders == {o \in [DOMAIN trades -> DOMAIN trades] :
                        \A i, j \in DOMAIN trades : o[i] = o[j] => i = j}
           but(c) == IF c.count = 0 THEN c ELSE [c EXCEPT !.close = 0]
       IN (\A i, j \in DOMAIN trades : trades[i].time = trades[j].time => i = j)
          => \A o \in Orders :
               but(Candle([i \in DOMAIN trades |-> trades[o[i]]])) = but(result.value)
  /\ result.of = "news" =>
       LET row == result.value
       IN /\ row.count = Len(job.in.scores)
          /\ row.sum * row.count = row.over * SumOf(job.in.scores)
          /\ row.positive + row.negative + row.neutral = row.count
  /\ result.of = "weights" =>
       LET scores == {job.in.items[i].score : i \in DOMAIN job.in.items}
       IN /\ result.value.total >= 0
          /\ scores # {} =>
               /\ Min(scores) * result.value.total <= result.value.weighted
               /\ result.value.weighted <= Max(scores) * result.value.total
=============================================================================
