--------------------------- MODULE StageSequence ---------------------------
(***************************************************************************)
(* What a media session promises (the tests of session_runner.py name it): *)
(* the stages are settled in their order, each once and for good; a stage  *)
(* that did not succeed leaves the results of the earlier ones as they     *)
(* were, and what a stage that did adds comes from one of its candidates,  *)
(* never from two, or from a judge; the session returns when all stages    *)
(* are settled.  SessionRunner implements this specification.              *)
(***************************************************************************)
EXTENDS Naturals, Sequences

CONSTANTS Order, CandidatesOf(_), Results  \* the roles, their candidates, all results

VARIABLES
    settled,        \* [role, status] of every settled stage
    results,        \* the accumulated results
    phase           \* "running", "returned" or "raised"

vars == <<settled, results, phase>>

Init == /\ settled = <<>>
        /\ results \in Results
        /\ phase = "running"

SettleNext(status) ==
    /\ phase = "running"
    /\ Len(settled) < Len(Order)
    /\ LET role == Order[Len(settled) + 1] IN
         /\ settled' = Append(settled, [role |-> role, status |-> status])
         /\ results' \in Results
         /\ \/ results' = results
            \/ /\ status = "succeeded"
               /\ \E c \in CandidatesOf(role) : \A k \in DOMAIN results :
                    results'[k] \in {results[k], "none", c}
    /\ UNCHANGED phase

Return == /\ phase = "running"
          /\ Len(settled) = Len(Order)
          /\ phase' = "returned"
          /\ UNCHANGED <<settled, results>>

Raise == /\ phase = "running"
         /\ phase' = "raised"
         /\ UNCHANGED <<settled, results>>

Next == \/ \E status \in {"succeeded", "failed", "skipped"} : SettleNext(status)
        \/ Return
        \/ Raise

Spec == Init /\ [][Next]_vars
=============================================================================
