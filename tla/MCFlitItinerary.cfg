SPECIFICATION Spec
CONSTANTS
  Workloads <- SoundWorkloads
  SmallK = 3
  SmallRounds = 1
  MaxStep = 4
INVARIANTS
  ToursSound
  ReductionExact
  BroadcastExact
