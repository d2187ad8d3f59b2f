\* Three jobs and two HTTP threads: a submission can overtake another one
\* while a third job runs.
CONSTANTS
    Jobs = {j1, j2, j3}
    Clients = {c1, c2}
    Consumer = consumer
    NoJob = NoJob
    Free = Free
    MaxRestarts = 0
SYMMETRY Symmetry
SPECIFICATION Spec
INVARIANTS
    CancelledNeverRuns
    TerminalAnswerIsWhole
    ServedInOrder
