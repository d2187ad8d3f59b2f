---------------------------- MODULE MCBootstrap ----------------------------
(* Bootstrap on one volume and two stacks, one of which has more models.   *)
EXTENDS Bootstrap

CONSTANTS more, roma, small, large

StackNeeds == [s \in {small, large} |->
                 IF s = small THEN {roma} ELSE {more, roma}]

\* A pod with its sandbox, a validation pod, and a worker that may not download.
Starts == {[stack |-> small, mode |-> "pod", research |-> TRUE, prefetch |-> TRUE],
           [stack |-> large, mode |-> "pod_validation", research |-> TRUE, prefetch |-> TRUE],
           [stack |-> large, mode |-> "serverless", research |-> FALSE, prefetch |-> FALSE]}
=============================================================================
