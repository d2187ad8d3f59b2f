\* Two stacks on one volume: another stack's manifest between check and marker.
CONSTANTS
    Pods = {p1, p2}
    more = more
    roma = roma
    small = small
    large = large
    Models = {more, roma}
    Spatial = {roma}
    Stacks = {small, large}
    Needs <- StackNeeds
    Configs <- Starts
    NoStack = NoStack
    Torn = Torn
    NoModel = NoModel
    Free = Free
    MaxCrashes = 0
SPECIFICATION Spec
INVARIANT
    OwnModelsAreSealed
