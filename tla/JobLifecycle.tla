---------------------------- MODULE JobLifecycle ----------------------------
(***************************************************************************)
(* What the pod's job API promises the callers of POST /v1/jobs,           *)
(* GET /v1/jobs/<id> and POST /v1/jobs/<id>/cancel, with no threads, no    *)
(* lock and no queue: every job follows one life, at most one job is being *)
(* worked on, and the answer of a job appears together with its terminal   *)
(* status.  PodJobQueue implements this specification.                     *)
(***************************************************************************)
CONSTANT Jobs

VARIABLES
    phase,      \* [Jobs -> Phase]: what a caller is told about the job
    answer      \* [Jobs -> Answer]: the output that goes with a terminal phase

Phase == {"ABSENT", "IN_QUEUE", "IN_PROGRESS", "COMPLETED", "FAILED", "CANCELLED"}

Answer == {"none", "result", "failure"}

vars == <<phase, answer>>

Init == /\ phase = [j \in Jobs |-> "ABSENT"]
        /\ answer = [j \in Jobs |-> "none"]

Accept(j) == /\ phase[j] = "ABSENT"
             /\ phase' = [phase EXCEPT ![j] = "IN_QUEUE"]
             /\ UNCHANGED answer

Cancel(j) == /\ phase[j] = "IN_QUEUE"
             /\ phase' = [phase EXCEPT ![j] = "CANCELLED"]
             /\ UNCHANGED answer

\* Work is sequential: a job starts only when no other one is in progress.
Start(j) == /\ phase[j] = "IN_QUEUE"
            /\ \A k \in Jobs : phase[k] # "IN_PROGRESS"
            /\ phase' = [phase EXCEPT ![j] = "IN_PROGRESS"]
            /\ UNCHANGED answer

Finish(j) == /\ phase[j] = "IN_PROGRESS"
             /\ \/ /\ phase' = [phase EXCEPT ![j] = "COMPLETED"]
                   /\ answer' = [answer EXCEPT ![j] = "result"]
                \/ /\ phase' = [phase EXCEPT ![j] = "FAILED"]
                   /\ answer' = [answer EXCEPT ![j] = "failure"]

\* The pod restarts: its memory, and every job in it, is gone.
Forget == /\ phase' = [j \in Jobs |-> "ABSENT"]
          /\ answer' = [j \in Jobs |-> "none"]

Next == \/ \E j \in Jobs : Accept(j) \/ Cancel(j) \/ Start(j) \/ Finish(j)
        \/ Forget

Spec == Init /\ [][Next]_vars
=============================================================================
