\* Events with two media, and batches of two items under small limits.
CONSTANTS
    Assets = {a1, a2}
    Given <- SentAnchors
    NoAnchor = NoAnchor
    Items = {i1, i2}
    MaxFeatures = 3
    MaxProposals = 2
    MaxFacts = 2
    MaxItemFacts = 2
SPECIFICATION Spec
CHECK_DEADLOCK FALSE
INVARIANTS
    RefusedMediaLeaveNoTrace
    EveryMediumIsAccountedFor
    ProposalsAreDeterministic
    RefusedOnlyForItsSize
    StatusReflectsStages
    EveryAnnotationIsAnswered
