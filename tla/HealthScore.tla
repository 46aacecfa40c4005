------------------------------ MODULE HealthScore ------------------------------
(***************************************************************************)
(* The health score of a market, from the payload of its latest score.     *)
(* Imbalance, sentiments and the squashed flow are in tenths, errors and   *)
(* thresholds in tenths of the last place the payload keeps.               *)
(***************************************************************************)
EXTENDS Integers

CONSTANT FallbackThreshold   \* 0.008

Market == [imbalance : Int, news : Int, tweets : Int, flow : Int, price : Int, trade : Int,
           threshold : Int, mse : Int]

Sign(x) == IF x > 0 THEN 1 ELSE IF x < 0 THEN -1 ELSE 0

Least(a, b) == IF a < b THEN a ELSE b

\* round(x, 6) when the payload is written.
Rounded(x) == 10 * ((x + 5) \div 10)

\* 70% news, 30% tweets, in hundredths.
Blended(m) == 7 * m.news + 3 * m.tweets

\* Fault: what flows into the exchanges counts as good.
BaseScoreOfInflow(m) == 500 + 15 * m.imbalance + 2 * Blended(m) + 15 * m.flow

\* Parts 1 to 3, in tenths of a point; m.flow stands for 10 * tanh(flow).
BaseScore(m) == 500 + 15 * m.imbalance + 2 * Blended(m) - 15 * m.flow

\* The direction of an anomaly in tenths.
Direction(m) ==
  4 * Sign(m.price) + 3 * Sign(m.trade)
    + 3 * (IF Blended(m) > 10 THEN 1 ELSE IF Blended(m) < -10 THEN -1 ELSE 0)

Threshold(m) ==
  IF Rounded(m.threshold) <= 0 THEN FallbackThreshold ELSE Rounded(m.threshold)

\* min(25, 25 * (mse / threshold - 1)), times the threshold.
Magnitude(m) ==
  Least(25 * Threshold(m), 25 * (Rounded(m.mse) - Threshold(m)))

\* The score before clamping, in tenths of a point times twice the threshold.
RawScore(m) ==
  2 * Threshold(m) * BaseScore(m)
    + IF m.mse > m.threshold
        THEN Magnitude(m) * Direction(m) * (IF Direction(m) > 0 THEN 1 ELSE 2)
        ELSE 0

calculate_deterministic_health_score(m) ==
  LET scale == 20 * Threshold(m)
  IN IF RawScore(m) < 0 THEN 0 ELSE Least(100, RawScore(m) \div scale)
=============================================================================
