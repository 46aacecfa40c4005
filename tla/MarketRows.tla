------------------------------- MODULE MarketRows -------------------------------
(***************************************************************************)
(* How single events add up to a row: the trades of a candle, the articles *)
(* of a news row in the database, the tweets of a sentiment row.           *)
(***************************************************************************)
EXTENDS Integers, Sequences, SequencesExt

CONSTANT MaxWeight   \* MAX_DEFAULT_SOURCE_WEIGHT

ASSUME WeightAssumption == MaxWeight \in Nat

Trade == [price : Int, qty : Int, time : Int, maker : BOOLEAN]
Tweet == [score : Int, weight : Int]

\* CandleAccumulator.add: a trade has its time, price and quantity, and maker is
\* whether the buyer was the maker.
EmptyCandle == [count |-> 0]

AddTrade(c, x) ==
  IF c.count = 0
    THEN [count |-> 1, open |-> x.price, first |-> x.time, high |-> x.price,
          low |-> x.price, close |-> x.price, net |-> IF x.maker THEN -x.qty ELSE x.qty]
    ELSE [count |-> c.count + 1,
          open |-> IF x.time < c.first THEN x.price ELSE c.open,
          first |-> IF x.time < c.first THEN x.time ELSE c.first,
          high |-> IF x.price > c.high THEN x.price ELSE c.high,
          low |-> IF x.price < c.low THEN x.price ELSE c.low,
          close |-> x.price,
          net |-> c.net + IF x.maker THEN -x.qty ELSE x.qty]

Candle(trades) == FoldLeft(AddTrade, EmptyCandle, trades)

\* The upsert of news_sentiment_5m: a running average, kept as a fraction.  The
\* score of an article is in tenths.
EmptyNews == [sum |-> 0, over |-> 1, count |-> 0, positive |-> 0, negative |-> 0, neutral |-> 0]

\* Fault: the old average and the new score count the same.
UpsertHalf(row, score) ==
  [row EXCEPT !.sum = @ + score * row.over,
              !.over = IF row.count = 0 THEN @ ELSE 2 * @, !.count = @ + 1]

Upsert(row, score) ==
  [sum |-> row.sum * row.count + score * row.over,
   over |-> row.over * (row.count + 1),
   count |-> row.count + 1,
   positive |-> row.positive + IF score > 2 THEN 1 ELSE 0,
   negative |-> row.negative + IF score < -2 THEN 1 ELSE 0,
   neutral |-> row.neutral + IF -2 <= score /\ score <= 2 THEN 1 ELSE 0]

NewsRow(scores) == FoldLeft(Upsert, EmptyNews, scores)

\* The weights come from a configuration file.
SafeWeight(w) ==
  IF w < 0 THEN 0 ELSE IF w > MaxWeight THEN MaxWeight ELSE w

\* The average, as a fraction; 0 when nothing has a weight.
NoTweets == [weighted |-> 0, total |-> 0]

AddTweet(sum, x) ==
  [weighted |-> sum.weighted + x.score * SafeWeight(x.weight),
   total |-> sum.total + SafeWeight(x.weight)]

calculate_weighted_sentiment(items) == FoldLeft(AddTweet, NoTweets, items)
=============================================================================
