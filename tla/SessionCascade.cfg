\* Cascades, with a challenger and with a judge, and batches of one or two kinds of item.
CONSTANTS
    Contract <- PackagedContract
    Group <- CascadeGroup
    NoGroup = NoGroup
    Writes <- StrayWrites
    Inputs <- CascadeInputs
    BatchItems = 1
SPECIFICATION FairSpec
PROPERTIES
    SessionEnds
    ImplementsPromise
