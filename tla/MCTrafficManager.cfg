CONSTANT
    Configs <- Configurations
SPECIFICATION Spec
INVARIANTS
    FlowControlKept
    TransactionsExact
    WorkloadFaithful
PROPERTY
    SimulationEnds
