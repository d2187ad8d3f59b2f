----------------------------- MODULE Consensus -----------------------------
(***************************************************************************)
(* The consensus between the candidates of one stage, as session_runner.py *)
(* uses it (the package fireviewer_vision_runtime is not part of this      *)
(* repository).  How similar two outputs are is left open: an evaluation   *)
(* is any of the ones some similarity yields.                              *)
(***************************************************************************)
EXTENDS Naturals, FiniteSets

\* An evaluation: the decision, the candidate it selects, its first reason,
\* and whether the candidate may be used or a judge has to be asked.
Evaluation(decision, selected, reason, judge) ==
    [decision |-> decision, selected |-> selected, reason |-> reason,
     downstreamAllowed |-> selected # "none", requiresAdjudication |-> judge]

Accepted == {"pass", "repair", "adjudicated"}

NoEvaluation == Evaluation("abstain", "none", "none", FALSE)

\* Is the output too poor to be taken without a challenger?
candidate_requires_challenge(role, inputs, results) ==
    LET has(kind) == results[kind] # "none" IN
    CASE role = "asr" -> ~has("transcript")
      [] role = "fire_detection" -> "visual_input" \in inputs /\ ~has("detection_regions")
      [] role = "visual_grounding" -> has("selected_visual") /\ ~has("grounded_regions")
      [] role = "multimodal_extraction" ->
           /\ has("transcript") \/ has("detection_regions") \/ has("grounded_regions")
           /\ ~has("factual_observations") /\ ~has("literals")

\* The verdict on a selected candidate when so many agree, itself included.
Quorum(group, selected, agreeing) ==
    IF agreeing < group.minimumAgreeing
    THEN Evaluation(group.onDisagreement, "none", "candidate_disagreement", TRUE)
    ELSE Evaluation(IF selected.repaired THEN "repair" ELSE "pass", selected.id,
                    "agreement", FALSE)

\* The verdicts on one of the selected, with any number of the ranks agreeing.
Quorums(group, executions, selected, ranks) ==
    {Quorum(group, executions[c[1]], c[2]) : c \in selected \X (1 .. Cardinality(ranks))}

First(ranks) == {i \in ranks : \A n \in ranks : i <= n}
Admissible(role, inputs, executions, ranks) ==
    {i \in ranks : ~candidate_requires_challenge(role, inputs, executions[i].results)}

\* The possible evaluations; successful holds the ranks of the executions that
\* succeeded.  Two candidates of a quorum have the same mean score: the rank decides.
evaluate_consensus(role, group, inputs, executions, successful) ==
    LET admissible == Admissible(role, inputs, executions, successful)
        Blocked(reason) == {Evaluation(group.onDisagreement, "none", reason, FALSE)}
        alone == group.strategy = "single_with_rules" \/ Cardinality(successful) = 1
        relaxed == [group EXCEPT !.minimumAgreeing = 1]
    IN
    IF Cardinality(successful) < group.minimumSuccessful
    THEN Blocked("insufficient_successful_candidates")
    ELSE CASE group.strategy = "cascade" ->
                IF admissible = {} THEN Blocked("candidate_quality_insufficient")
                ELSE Quorums(group, executions, First(admissible), admissible)
           [] group.strategy # "cascade" /\ alone ->
                {Quorum(relaxed, executions[i], 1) : i \in First(successful)}
           [] OTHER ->
                Quorums(group, executions,
                        IF Cardinality(successful) = 2 THEN First(successful) ELSE successful,
                        successful)

\* A verdict: the candidate the judge selects, if any, and whether its
\* confidence reaches the threshold of the group.
apply_adjudication(group, verdict, candidates) ==
    IF verdict.confident /\ verdict.selected \in candidates
    THEN Evaluation("adjudicated", verdict.selected, "candidate_disagreement_adjudicated", FALSE)
    ELSE Evaluation(group.onDisagreement, "none", "adjudicator_abstained", FALSE)
=============================================================================
