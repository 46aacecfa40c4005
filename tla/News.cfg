SPECIFICATION FairSpec
CONSTANTS
  Feeds = {f1, f2}
  Titles = {t1, t2}
  Limit = 1
  Faults = {"prefill", "fetch", "score", "store"}
INVARIANTS TwiceOnlyIfForgotten SeenMeansHandled
PROPERTIES NewsIsTaken
