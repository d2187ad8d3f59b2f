\* Two callers in every environment, under fairness; a research model may
\* outlive its call.
CONSTANTS
    Callers = {c1, c2}
    Free = Free
    Environments <- Environs
    AgentOutlivesCall = TRUE
SPECIFICATION FairSpec
INVARIANTS
    OneJobOnGpu
    RetryIsTruthful
    OnlyWorkRaises
PROPERTIES
    EveryRequestEnds
    ImplementsLease
