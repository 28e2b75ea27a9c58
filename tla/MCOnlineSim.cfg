SPECIFICATION FairSpec
CONSTANTS
  Nodes = {"n1", "n2"}
  Requests <- MCRequests
  MaxPackets = 3
  TimeLimit <- NoLimit
INVARIANTS
  BooksBalance
PROPERTIES
  ReadsWhenIdle
  StageReturns
