------------------------- MODULE MCSentimentAggregator -------------------------
(* SentimentAggregator for TLC: boot in bucket 1, two full buckets after it,
   and the one after those on the clock.                                   *)
EXTENDS SentimentAggregator

CONSTANTS btc, eth, w1, w2

MCSymbols == {btc, eth}
TwoIds    == {w1, w2}
MCClock   == 1 .. 4
AnyEnding == {"cancelled", "returned"}
=============================================================================
