SPECIFICATION Spec
CONSTANTS
  short = short
  long = long
  Values <- MCValues
  Size <- MCSize
  Longest = 2
  Keys = {k1, k2}
  Files = {f1, f2}
  Threads = {t1, t2}
  NoFile = NoFile
  NoKey = NoKey
  max_ = 1
  ShortWrites = {0}
  BeDurable = {FALSE}
SYMMETRY Symmetry
INVARIANTS
  PinsAreUsers
  FdIsFile
  NoFdLeak
  GetReturnsLastPut
