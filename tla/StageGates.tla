----------------------------- MODULE StageGates -----------------------------
(***************************************************************************)
(* The gates around the stages of a media session (stage_gates.py): which  *)
(* capabilities a batch and its accumulated results offer, whether a stage *)
(* may start on them, and what its outcome is worth.  Pure operators; the  *)
(* packaged stage contracts are a parameter.                               *)
(***************************************************************************)
EXTENDS Naturals, FiniteSets

CONSTANT Contract   \* [Role -> ContractRecord], the packaged stage contracts

RoleOrder == <<"asr", "fire_detection", "visual_grounding", "multimodal_extraction">>
Role == {RoleOrder[i] : i \in DOMAIN RoleOrder}

\* What a batch contains, and what the results hold for it.  Places and times
\* ("literals") are results but no capability.
Input == {"audio_input", "visual_input", "text_input"}
Kind == {"transcript", "selected_visual", "detection_regions", "grounded_regions",
         "factual_observations", "literals"}
Capability == Input \cup (Kind \ {"literals"}) \cup {"explicit_abstention"}

ContractRecord ==
    [requiredAll : SUBSET Capability, requiredAny : SUBSET Capability,
     minimumOutputAny : SUBSET Capability, maxRepairAttempts : 0 .. 1, maxInputItems : Nat,
     failurePolicy : {"block", "continue_degraded", "human_review"},
     skipWhenNotApplicable : BOOLEAN]

ASSUME ContractAssumption == Contract \in [Role -> ContractRecord]

Decision == {"pass", "not_applicable", "abstain", "human_review",
             "failed_retryable", "failed_terminal"}

\* A gate record: the decision and its first reason code.
Gate(decision, reason) == [decision |-> decision, reason |-> reason]

\* The results say of each kind where it comes from; "none" if it is absent.
derive_capabilities(inputs, results) ==
    inputs \cup {k \in Kind \ {"literals"} : results[k] # "none"}

_missing_requirements(contract, capabilities) ==
    (contract.requiredAll \ capabilities)
      \cup (IF contract.requiredAny \cap capabilities = {} THEN contract.requiredAny ELSE {})

_is_not_applicable(role, capabilities) ==
    \/ role = "asr" /\ "audio_input" \notin capabilities
    \/ role \in {"fire_detection", "visual_grounding"} /\ "visual_input" \notin capabilities

preflight(role, capabilities, items) ==
    LET contract == Contract[role]
        tooMany == items > contract.maxInputItems
    IN
    CASE tooMany -> Gate("failed_terminal", "stage_input_limit_exceeded")
      [] ~tooMany /\ _missing_requirements(contract, capabilities) = {} ->
           Gate("pass", "requirements_satisfied")
      [] OTHER ->
           IF contract.skipWhenNotApplicable /\ _is_not_applicable(role, capabilities)
           THEN Gate("not_applicable", "no_applicable_input")
           ELSE Gate(CASE contract.failurePolicy = "human_review" -> "human_review"
                       [] contract.failurePolicy = "block" -> "failed_terminal"
                       [] OTHER -> "abstain",
                     "required_capability_missing")

\* exceeded: "wall_time" or "output", the limit a stage that succeeded is over.
postflight(role, before, after, status, error, exceeded) ==
    LET contract == Contract[role] IN
    CASE status = "failed" ->
           Gate(IF error = "model_runtime_error" THEN "failed_retryable" ELSE "failed_terminal",
                error)
      [] status = "skipped" ->
           IF error = "none" THEN Gate("not_applicable", "stage_skipped")
                             ELSE Gate("abstain", error)
      [] status = "succeeded" /\ exceeded = "wall_time" ->
           Gate("failed_retryable", "stage_wall_time_exceeded")
      [] status = "succeeded" /\ exceeded = "output" ->
           Gate("failed_terminal", "stage_output_limit_exceeded")
      [] OTHER ->
           IF (after \ before) \cap contract.minimumOutputAny # {}
           THEN Gate("pass", "minimum_output_satisfied")
           ELSE Gate(IF contract.failurePolicy = "human_review" THEN "human_review"
                                                                 ELSE "abstain",
                     "minimum_output_missing")

\* The decisions that make a batch incomplete.
Blocking == {"human_review", "failed_retryable", "failed_terminal"}
=============================================================================
