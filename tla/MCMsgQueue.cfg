SPECIFICATION FairSpec
CONSTANTS
  Producers = {p1, p2}
  Consumers = {c1, c2}
  NoThread = NoThread
  MaxMsgs = 2
  PipeCap = 2
  ToBack = {p1}
CHECK_DEADLOCK FALSE
INVARIANTS
  TypeOK
  NoPanic
  BytesMatchQueue
  PerProducerOrder
PROPERTIES
  EveryMessageDelivered
