SPECIFICATION Spec
CONSTANTS
  v1 = v1
  v2 = v2
  Routers <- MCRouters
  Links <- MCLinks
  Source <- MCSource
  Sink <- MCSink
  VCs <- MCVCs
  BufSize = 2
  WaitForTailCredit = TRUE
  Packets <- FlowPackets
  Backlog <- FlowBacklog
SYMMETRY MCSymmetry
INVARIANTS
  ChannelsSound
  CreditsConserved
  SenderOwnsVC
