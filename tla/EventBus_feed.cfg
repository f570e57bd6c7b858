SPECIFICATION FairSpec
CONSTANTS
  Handles = {1, 2}
  MaxAtOnce = 1
  MaxMsgs = 3
  BatchMax = 2
  MaxDepth = 1
  BackoffCap = 2
  CapLimit = 1
  MaxErrors = 2
  MaxCrashes = 1
INVARIANT QueuesAreHonest
PROPERTIES ImplementsFeed OnlyRoutedAreAcked FeedSettles
CHECK_DEADLOCK FALSE
