SPECIFICATION FairSpec
CONSTANTS
  v1 = v1
  v2 = v2
  Routers <- MCRouters
  Links <- MCLinks
  Source <- MCSource
  Sink <- MCSink
  VCs <- MCVCs
  BufSize = 1
  WaitForTailCredit = TRUE
  Packets <- ReducePackets
  Backlog <- ReduceBacklog
INVARIANTS
  ReductionResult
PROPERTIES
  EverythingSettles
CHECK_DEADLOCK FALSE
