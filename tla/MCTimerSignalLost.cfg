SPECIFICATION FairSpec
CONSTANTS
  Timers = {t1}
  DeleteOnCancel = {}
  NSig = 1
  MaxTime = 2
  MaxSched = 1
  MaxPosts = 1
  MaxCancelled = 1
  Delays <- MCDelays
CHECK_DEADLOCK FALSE
PROPERTIES
  SignalHandledAtLeastOnce
