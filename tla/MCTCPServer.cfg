SPECIFICATION FairSpec
CONSTANTS
  server = server
  detached = detached
  NoThread = NoThread
  Threads <- MCThreads
  Given <- MCGiven
  Ending <- MCEnding
  Stops = {server}
  MaxLive = 1
  Barrier = TRUE
  MaxConns = 2
  MaxStops = 2
INVARIANTS
  
  ListedOnceWhileRunning
  
  AtMostOneMoreAccepted
  HookAfterRun
PROPERTIES
  StopEndsServer
CHECK_DEADLOCK FALSE
