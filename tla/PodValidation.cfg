\* Two clients and two bundles, every way to boot; uploads may stall and
\* handle_job may hang.
CONSTANTS
    Clients = {c1, c2}
    Bundles = {b1, b2}
    NoBundle = NoBundle
    Free = Free
    REQUIRED_IMAGE_ROLES = {r1}
SPECIFICATION FairSpec
INVARIANTS
    FreshAnswers
    ResultIsFinal
PROPERTIES
    EveryRequestIsAnswered
    AcceptedSettles
    ImplementsOneShot
