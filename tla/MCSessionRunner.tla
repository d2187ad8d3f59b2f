-------------------------- MODULE MCSessionRunner --------------------------
(* SessionRunner with the packaged stage contracts and small registries.   *)
EXTENDS SessionRunner

\* fireviewer_contracts/stage_contracts_data
Packaged(all, any, minimum, repairs, policy, skip) ==
    [requiredAll |-> all, requiredAny |-> any,
     minimumOutputAny |-> minimum \cup {"explicit_abstention"},
     maxRepairAttempts |-> repairs, maxInputItems |-> 32,
     failurePolicy |-> policy, skipWhenNotApplicable |-> skip]
PackagedContract ==
    [r \in Role |->
       CASE r = "asr" ->
              Packaged({"audio_input"}, {}, {"transcript"}, 0, "continue_degraded", TRUE)
         [] r = "fire_detection" ->
              Packaged({"visual_input"}, {}, {"selected_visual", "detection_regions"}, 0,
                       "continue_degraded", TRUE)
         [] r = "visual_grounding" ->
              Packaged({"selected_visual"}, {}, {"grounded_regions"}, 0,
                       "continue_degraded", TRUE)
         [] r = "multimodal_extraction" ->
              Packaged({}, {"transcript", "text_input", "selected_visual"},
                       {"factual_observations"}, 1, "human_review", FALSE)]

\* What the adapters are made for; the detector and the grounding model may
\* each replace the regions of the other.
AdapterWrites ==
    [r \in Role |-> CASE r = "asr" -> {"transcript"}
                      [] r = "fire_detection" ->
                           {"selected_visual", "detection_regions", "grounded_regions"}
                      [] r = "visual_grounding" -> {"detection_regions", "grounded_regions"}
                      [] r = "multimodal_extraction" -> {"factual_observations", "literals"}]

\* Adapters that write what is another role's: extractors that look for no
\* places or times, and replace the transcript.
StrayWrites ==
    [AdapterWrites EXCEPT !["multimodal_extraction"] = {"factual_observations", "transcript"}]

Single(id) ==
    [candidates |-> <<id>>, strategy |-> "single_with_rules", minimumSuccessful |-> 1,
     minimumAgreeing |-> 1, alwaysChallenge |-> FALSE, onDisagreement |-> "human_review",
     judge |-> "none"]
Detectors ==
    [candidates |-> <<"dfine", "rtdetr">>, strategy |-> "quorum", minimumSuccessful |-> 2,
     minimumAgreeing |-> 2, alwaysChallenge |-> FALSE, onDisagreement |-> "human_review",
     judge |-> "bonsai"]

\* The production registry without a speech model.
EnsembleGroup ==
    [r \in Role |-> CASE r = "asr" -> NoGroup
                      [] r = "fire_detection" -> Detectors
                      [] r = "visual_grounding" -> Single("florence")
                      [] r = "multimodal_extraction" -> Single("qwen")]
EnsembleInputs == {{"visual_input"}, {"audio_input", "visual_input"}}

\* A registry without a trained detector: a cascade of two speech models, one
\* model for grounding, and two extractors that must agree or be judged.
CascadeGroup ==
    [r \in Role |-> CASE r = "asr" ->
                           [Single("whisper") EXCEPT !.candidates = <<"whisper", "canary">>,
                                !.strategy = "cascade", !.onDisagreement = "abstain"]
                      [] r = "fire_detection" -> NoGroup
                      [] r = "visual_grounding" -> Single("florence")
                      [] r = "multimodal_extraction" ->
                           [Single("qwen") EXCEPT !.candidates = <<"qwen", "gemma">>,
                                !.strategy = "cascade", !.minimumAgreeing = 2,
                                !.judge = "bonsai"]]
CascadeInputs == {{"audio_input"}, {"text_input"}, {"visual_input", "text_input"}}
=============================================================================
