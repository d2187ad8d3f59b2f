\* Three jobs, one HTTP thread and a restart of the pod between any two steps, under thread
\* fairness only: handle_job may hang.
CONSTANTS
    Jobs = {j1, j2, j3}
    Clients = {c1}
    Consumer = consumer
    NoJob = NoJob
    Free = Free
    MaxRestarts = 1
SPECIFICATION FairSpec
INVARIANTS
    AtMostOnce
PROPERTIES
    ImplementsLifecycle
    EveryJobSettles
    EveryRequestIsAnswered
