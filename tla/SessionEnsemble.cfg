\* The detector ensemble with its judge: every failure of every model.
CONSTANTS
    Contract <- PackagedContract
    Group <- EnsembleGroup
    NoGroup = NoGroup
    Writes <- AdapterWrites
    Inputs <- EnsembleInputs
    BatchItems = 1
SPECIFICATION Spec
INVARIANTS
    OneModelAtATime
    OutputReferencesHold
    OnlyAcceptedResultsFlow
    StatusIsHonest
