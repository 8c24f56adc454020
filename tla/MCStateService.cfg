SPECIFICATION FairSpec
CONSTANTS
  Lines <- MCLines
  RETRY_FLOOR = 1
  RETRY_CEILING = 2
  MaxLives = 2
  MaxSaid = 1
INVARIANTS AssertedOnlyWhileTold HeardIsServed RetryPaced
PROPERTIES NeverFlaps BusFollowsDaemon
CHECK_DEADLOCK FALSE
