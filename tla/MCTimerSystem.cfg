SPECIFICATION FairSpec
CONSTANTS
  Timers = {t1, t2}
  DeleteOnCancel = {t1}
  NSig = 1
  MaxTime = 3
  MaxSched = 3
  MaxPosts = 1
  MaxCancelled = 2
  Delays <- MCDelays
CHECK_DEADLOCK FALSE

  
PROPERTIES
  FiresDueInOrder
  
  ScheduledFires
  MarkedIsHandled
