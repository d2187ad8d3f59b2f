\* A research request whose id is malformed.
CONSTANTS
    Callers = {c1}
    Free = Free
    Environments <- Typical
    AgentOutlivesCall = FALSE
SPECIFICATION Spec
INVARIANT
    InvalidResearchIsReported
