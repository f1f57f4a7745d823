SPECIFICATION Spec
CONSTANTS
  small1 = small1
  small2 = small2
  small3 = small3
  large = large
  Keys = {k1}
  Objects <- MCObjects
  NoObject = NoObject
  Size <- MCSize
  capacity_ = 2
  Threads = {t1, t2}
  NoThread = NoThread
  NoKey = NoKey
  OneUser = FALSE
SYMMETRY Symmetry
INVARIANTS
  NoAssertFails
