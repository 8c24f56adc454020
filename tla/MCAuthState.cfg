SPECIFICATION FairSpec
CONSTANTS
  Conns = {c1, c2}
  MaxWatchers = 1
  ErrorKinds = {}
  NoError = NoError
  Snapshots = {f1}
  NoSnapshot = NoSnapshot
  Requests <- WatchAndRestart
  SocketBuffer = 1
  NoConn = NoConn
  Nothing = Nothing
INVARIANTS ToldIsCurrent WatchersBounded
PROPERTIES FeedSpec SettledAdoption DeadWatcherCulled RestartHonoured EnrollmentNoticed
