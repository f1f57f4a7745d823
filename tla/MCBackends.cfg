SPECIFICATION Spec
CONSTANTS
  Clients = {c1, c2}
  Main = c1
  Workers = {w1, w2}
  NoClient = NoClient
  MaxRequests = 3
  RacingStart = FALSE
  Bytes = {1}
  MaxSize = 2
  MaxScopes = 1
  Inodes = {i1, i2, i3}
  NoInode = NoInode
  NoObject = NoObject
  Careless = {}
  Threads = {t1, t2}
  Drivers = {"sqlite", "mysql"}
  Limits = {0, 2}
  Puts = 2
  MaxTx = 4
  Risks = {}
  Base = 4
  Lengths = {0, 1, 4}
  Data = {0, 1}
  MaxCells = 14
  AppendsTorn = FALSE
  FreshBuffer = FALSE
  Negatives = 4
  Highest = 4
  Unsigned = FALSE
  Splits = FALSE
SYMMETRY Symmetry
INVARIANTS
  ReplyIsForRequest
  NoUseAfterReturn
  RequestIsNeverLost
  
  DescriptorAgrees
  CrashLeavesPrefix
  CleanMeansNothingLost
  
  

  
\* The clients have made their requests, or the process has ended.
CHECK_DEADLOCK FALSE
