SPECIFICATION FlyoutFairSpec
CONSTANTS
  MaxLives = 2
  MaxChanges = 1
  MaxJobs = 1
  MaxEvents = 3
  MaxWire = 1
INVARIANTS NoPreviousAccount
PROPERTIES DesktopFollows NeverStepsBack FlyoutSettles
CHECK_DEADLOCK FALSE
