SPECIFICATION FairSpec
CONSTANTS
  btc = btc
  eth = eth
  w1 = w1
  w2 = w2
  Symbols <- MCSymbols
  Ids <- TwoIds
  Boot = 1
  Clock <- MCClock
  Endings <- AnyEnding
INVARIANTS GapFree FallbackComesFirst NoTweetTwice OnTimeRowIsComplete
PROPERTY EveryBucketIsReported
CHECK_DEADLOCK FALSE
