CONSTANTS
    P = 1009
    Runs <- Shapes
    Burst = 4
    NoCBase = 1000
    SRAMBase = 100000
    RoleRegion = 1600
    RowStride = 100
    Manifests <- OldAndNew
    Hints = {3, 200}
    Jobs <- Invocations
    ShapeOf <- BlockOf
    Factors <- OneFactor
    TotalLength = 18
    DimHint = 64
    GenWorkers = 2
    SimWorkers = 2
    KernelSteps <- CallsOf
    HandWritten <- Mistakes
    MaxStarts = 2
    MaxInterrupts = 1
    MaxFailures = 1
SPECIFICATION MCSpec
INVARIANTS
    ResultsExact
    DataKept
    TraceFaithful
    OffloadsAccounted
    SummaryRight
