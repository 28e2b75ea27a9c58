SPECIFICATION Spec
CONSTANTS
  Workloads <- Reduce16
  SmallK = 3
  SmallRounds = 1
  MaxStep = 4
INVARIANTS
  ReductionExact
