\* The detector ensemble: what a failing judge leaves behind.
CONSTANTS
    Contract <- PackagedContract
    Group <- EnsembleGroup
    NoGroup = NoGroup
    Writes <- AdapterWrites
    Inputs <- EnsembleInputs
    BatchItems = 1
SPECIFICATION Spec
INVARIANT
    ModelFailureIsReported
