SPECIFICATION FairSpec
CONSTANTS
  States <- MCStates
  Credentials = {"rejected"}
  Desktops <- MCDesktops
  MaxLives = 2
  MaxPublished = 2
  MaxWatchers = 1
  MaxClicks = 1
INVARIANTS IdleMeansDone HostInformed GoneAssertsNothing
PROPERTIES Settles RegisteredAgain
CHECK_DEADLOCK FALSE
