\* Two callers with a retry, three connections, three hypotheses, three records.
CONSTANTS
    Callers = {c1, c2}
    NoCaller = NoCaller
    Candidates = {e1}
    NoCandidate = NoCandidate
    Findings = {smoke, nothing}
    MaxCalls = 2
    Clients = {d1, d2, d3}
    Idle = Idle
    Hypotheses = {1, 2, 3}
    Satellite = {s1}
    History = {p1}
    Finds <- FewFinds
    Provided <- FewRecords
    MaxRecords = 3
    s1 = s1
    p1 = p1
    v = v
    k = k
    f = f
    o1 = o1
    o2 = o2
SPECIFICATION FairSpec
CHECK_DEADLOCK FALSE
INVARIANTS
    EvidenceIsNeverOverwritten
    ModelsAreReleased
    BundlesAreRanked
    MergeIsOrderFree
PROPERTIES
    EveryCallIsAnswered
