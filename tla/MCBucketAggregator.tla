--------------------------- MODULE MCBucketAggregator ---------------------------
(* BucketAggregator for TLC: two symbols, windows of two seconds.           *)
EXTENDS BucketAggregator

CONSTANTS s1, s2, e1, e2

MCSymbols == {s1, s2}
TwoIds    == {e1, e2}

\* Two seconds of the first window, the first second of the second one.
MCTimes == 0 .. 2

\* The clock reaches the third window, so that both can become stale.
MCClock == {0, 2, 4}

Snapshots == {"count", "skip", "raise"}
=============================================================================
