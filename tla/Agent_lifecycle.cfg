SPECIFICATION FairSpec
CONSTANTS
  process = process
  key1 = key1
  key2 = key2
  host1 = host1
  host2 = host2
  NoIdentity = NoIdentity
  Kind <- MCKind
  StartOrder <- MCOrder
  Config <- MCConfig
  MaxQueue = 2
  MaxEvents = 3
  QueueSize = 1
  MaxLaunches = 2
INVARIANTS DropsAreCounted LossesReported OneHost
CHECK_DEADLOCK FALSE
PROPERTY Reconnects
