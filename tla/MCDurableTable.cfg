SPECIFICATION Spec
CONSTANTS
  small1 = small1
  small2 = small2
  small3 = small3
  large = large
  Keys = {k1, k2, k3, k4}
  Objects <- MCObjects
  NoObject = NoObject
  Size <- MCSize
  capacity_ = 2
  Threads = {t1, t2}
  NoThread = NoThread
  NoKey = NoKey
  OneUser = TRUE
SYMMETRY Symmetry
INVARIANTS
  CacheAgrees
  OverOnlyByLive
  NoAssertFails
  CachedIsStored
  UserHasLiveObject
