\* Two pods, two stacks, two models, a crash between any two steps.
CONSTANTS
    Pods = {p1, p2}
    more = more
    roma = roma
    small = small
    large = large
    Models = {more, roma}
    Spatial = {roma}
    Stacks = {small, large}
    Needs <- StackNeeds
    Configs <- Starts
    NoStack = NoStack
    Torn = Torn
    NoModel = NoModel
    Free = Free
    MaxCrashes = 1
SPECIFICATION FairSpec
INVARIANTS
    ManifestIsTrue
    MarkerIsTrue
    OnlySafePodsGoOn
    NoChildIsForgotten
PROPERTIES
    ImplementsSharedCache
    EveryBootEnds
