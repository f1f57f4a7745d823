SPECIFICATION TrySpec
CONSTANTS
  Threads = {t1, t2}
  NoThread = NoThread
  MaxDepth = 2
INVARIANTS
  FreeWhenNobodyHolds
