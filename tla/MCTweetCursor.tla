----------------------------- MODULE MCTweetCursor -----------------------------
(* TweetCursor for TLC: pages of one event, at most two of them per poll.   *)
EXTENDS TweetCursor

CONSTANTS s1, s2

MCSymbols == {s1, s2}

\* The first coin can have more events than a poll takes.
MCEvents == [s \in MCSymbols |-> IF s = s1 THEN 3 ELSE 1]

\* An event of the first coin is a retweet.
MCFiltered == {<<s1, 2>>}
=============================================================================
