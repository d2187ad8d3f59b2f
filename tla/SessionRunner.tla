--------------------------- MODULE SessionRunner ---------------------------
(***************************************************************************)
(* One media session (SessionRunner.run_with_trace, session_runner.py):    *)
(* four stages in a fixed order, each behind its gates; in a stage the     *)
(* candidates of its model group run one after the other on the GPU, their *)
(* consensus, or a judge model, selects the output that goes downstream.   *)
(*                                                                         *)
(* A step ends where a model, or CUDA, may fail: load, inference, repair,  *)
(* verdict, synchronisation, release.  Of the results the model keeps, for *)
(* each kind of result, the candidate it comes from.                       *)
(***************************************************************************)
EXTENDS StageGates, Consensus, SequencesExt

CONSTANTS
    Group,          \* [Role -> GroupRecord or NoGroup], the model registry
    NoGroup,        \* no model is configured for the role
    Writes,         \* [Role -> SUBSET Kind], what the adapters of a role put into patches
    Inputs,         \* the sets of inputs a batch may offer
    BatchItems      \* the number of items in the batch

GroupRecord == [candidates : Seq(STRING), strategy : {"single_with_rules", "cascade", "quorum"},
                minimumSuccessful : Nat, minimumAgreeing : Nat, alwaysChallenge : BOOLEAN,
                onDisagreement : {"abstain", "human_review"}, judge : STRING]

Roles == {r \in Role : Group[r] # NoGroup}
Candidates(r) == {Group[r].candidates[i] : i \in DOMAIN Group[r].candidates}
Sources == UNION {Candidates(r) : r \in Roles}
Judges == {Group[r].judge : r \in Roles} \ {"none"}

\* What ModelGroupSpec.validate and the validation of a batch guarantee.
ASSUME RegistryAssumption ==
    /\ DOMAIN Group = Role
    /\ \A r \in Roles :
         LET g == Group[r]
             n == Len(g.candidates)
         IN  /\ g \in GroupRecord
             /\ n \in Nat \ {0}
             /\ IsInjective(g.candidates)
             /\ g.minimumSuccessful \in 1 .. n /\ g.minimumAgreeing \in 1 .. n
             /\ g.strategy = "single_with_rules" => n = 1
             /\ g.strategy = "quorum" => n >= 2
             /\ g.strategy = "quorum" \/ g.minimumAgreeing > 1 => g.judge # "none"
    /\ Inputs \subseteq (SUBSET Input) \ {{}}
    /\ BatchItems \in 1 .. 32

\* Whoever may run for a role.
Named(r) == Candidates(r) \cup ({Group[r].judge} \ {"none"})

\* The identifiers of candidates and judges begin with their role
\* ("{role}.primary"); in a group validate compares them.
ASSUME NamesAssumption ==
    /\ \A r, q \in Roles : r # q => Named(r) \cap Named(q) = {}
    /\ Sources \cap (Judges \cup {"none", "input"}) = {}

\* A patch may hold any kind of result, whatever the role: _merge asks for no
\* more than that it is there.  The regions of a result are one tuple
\* (pixel_regions), so who writes those of one kind replaces the other's too.
ASSUME WritesAssumption ==
    /\ Writes \in [Role -> SUBSET Kind]
    /\ \A r \in Role : "detection_regions" \in Writes[r] <=> "grounded_regions" \in Writes[r]

VARIABLES
    inputs, content,        \* the batch, and where each kind of result comes from
    stage, pc,              \* the stage in hand and the step it is at
    hand, executions,       \* the candidate (or judge) in hand, and the finished ones
    evaluation,             \* the consensus of the stage
    resident,               \* the models on the GPU
    stages,                 \* the settled stages: run, gates and trace of each
    candidateRuns, consensusResults, errors,
    output, cause           \* the batch's output, and why the session was aborted

stageVars  == <<stage, hand, executions, evaluation>>
reportVars == <<stages, candidateRuns, consensusResults, errors>>
vars == <<inputs, content, pc, stageVars, resident, reportVars, output, cause>>

role == RoleOrder[stage]
group == Group[role]
before == derive_capabilities(inputs, content)

\* The results a candidate may leave, the patches of all items together: of
\* each kind it writes, some of its own, none any more, or the old ones (no
\* patch, or one that carries them over).
Patched(candidate) ==
    {c \in [Kind -> {candidate, "none"} \cup {content[k] : k \in Kind}] :
        \A k \in Kind : IF k \in Writes[role] THEN c[k] \in {candidate, "none", content[k]}
                                              ELSE c[k] = content[k]}

\* Whether the output limit of a role can be exceeded: its kinds of result are
\* counted, whoever wrote them, and so are pictures a selection leaves out.
Countable(results) ==
    \E k \in Kind :
        /\ k \in CASE role = "asr" -> {"transcript"}
                   [] role = "fire_detection" -> {"selected_visual", "detection_regions"}
                   [] role = "visual_grounding" -> {"grounded_regions"}
                   [] role = "multimodal_extraction" -> {"factual_observations", "literals"}
        /\ \/ results[k] # "none"
           \/ k = "selected_visual" /\ "visual_input" \in inputs

\* _initial_result: pictures are selected for grounding until a detector says more.
InitialContent(in) ==
    [k \in Kind |-> IF k = "selected_visual" /\ "visual_input" \in in THEN "input" ELSE "none"]

NoVerdict == [selected |-> "none", confident |-> FALSE]
Fresh(id, results) ==
    [id |-> id, status |-> "failed", error |-> "none", repaired |-> FALSE,
     attempts |-> <<>>, results |-> results, answered |-> FALSE, verdict |-> NoVerdict]
Hand(id) == Fresh(id, content)
NoHand == Fresh("none", [k \in Kind |-> "none"])
NoOutput == [status |-> "none", retryable |-> FALSE]

Init == /\ inputs \in Inputs
        /\ content = InitialContent(inputs)
        /\ stage = 1
        /\ pc = "preflight"
        /\ hand = NoHand
        /\ executions = <<>>
        /\ evaluation = NoEvaluation
        /\ resident = {}
        /\ stages = <<>>
        /\ candidateRuns = <<>>
        /\ consensusResults = <<>>
        /\ errors = {}
        /\ output = NoOutput
        /\ cause = "none"
-----------------------------------------------------------------------------
(* The gate before a stage.                                                *)

\* A stage is settled; what was local to it is forgotten.
SettleStage(record) ==
    /\ stages' = Append(stages, record)
    /\ stage' = stage + 1
    /\ pc' = IF stage = Len(RoleOrder) THEN "finish" ELSE "preflight"
    /\ hand' = NoHand
    /\ executions' = <<>>
    /\ evaluation' = NoEvaluation

NoGate == Gate("none", "none")

Skipped(pre, post, error) ==
    [role |-> role, status |-> "skipped", run |-> [status |-> "skipped", model |-> "none", error |-> error],
     pre |-> pre, post |-> post, retryable |-> pre.decision = "failed_retryable", attempts |-> <<>>]

SkipStage ==
    /\ pc = "preflight"
    /\ LET pre == preflight(role, before, BatchItems)
           error == IF pre.decision = "not_applicable" THEN "none" ELSE pre.reason
       IN  /\ pre.decision # "pass"
           /\ errors' = IF error = "none" THEN errors ELSE errors \cup {<<role, error>>}
           /\ SettleStage(Skipped(pre, NoGate, error))
    /\ UNCHANGED <<inputs, content, resident, candidateRuns, consensusResults, output, cause>>

SkipUnconfigured ==
    /\ pc = "preflight"
    /\ group = NoGroup
    /\ LET pre == preflight(role, before, BatchItems)
           error == IF role = "fire_detection" THEN "checkpoint_not_configured"
                                               ELSE "model_not_configured"
       IN  /\ pre.decision = "pass"
           /\ errors' = errors \cup {<<role, error>>}
           /\ SettleStage(Skipped(pre, postflight(role, before, before, "skipped", error, "none"),
                                  error))
    /\ UNCHANGED <<inputs, content, resident, candidateRuns, consensusResults, output, cause>>

StartStage ==
    /\ pc = "preflight"
    /\ group # NoGroup
    /\ preflight(role, before, BatchItems).decision = "pass"
    /\ hand' = Hand(group.candidates[1])
    /\ pc' = "load"
    /\ UNCHANGED <<inputs, content, stage, executions, evaluation, resident, reportVars, output, cause>>
-----------------------------------------------------------------------------
(* _execute_candidate.                                                     *)

InHand == UNCHANGED <<inputs, content, stage, executions, evaluation, reportVars, output, cause>>

Fails(error) == hand' = [hand EXCEPT !.error = error]

Load == /\ pc = "load"
        /\ resident' = resident \cup {hand.id}
        /\ \/ UNCHANGED hand /\ pc' = "infer"
           \/ Fails("model_runtime_error") /\ pc' = "release"
        /\ InHand

\* The factory raises: it is asked before the try of _execute_candidate.
CreateFails == /\ pc = "load"
               /\ cause' = "create"
               /\ pc' = "finalize"
               /\ UNCHANGED <<inputs, content, stageVars, resident, reportVars, output>>

\* An inference (the first one or the correction) and the validation of its
\* patches: it succeeds, its output is invalid, or the runtime fails.
Tried(status) == Append(hand.attempts, status)
Inferred == \E results \in Patched(hand.id) :
                hand' = [hand EXCEPT !.status = "succeeded", !.results = results,
                                     !.attempts = Tried("succeeded"),
                                     !.repaired = pc = "repair"]
Failed(error) == hand' = [hand EXCEPT !.error = error, !.attempts = Tried("failed")]

\* Variant with a bug: the output is merged into the results of the batch at once.
Infer_inPlace == /\ pc = "infer"
                 /\ \/ Inferred /\ content' = hand'.results /\ pc' = "release"
                    \/ Failed("model_runtime_error") /\ UNCHANGED content /\ pc' = "release"
                    \/ /\ UNCHANGED content
                       /\ IF Contract[role].maxRepairAttempts < 1
                          THEN Failed("invalid_model_output") /\ pc' = "release"
                          ELSE Failed("none") /\ pc' = "repair"
                 /\ UNCHANGED <<inputs, stage, executions, evaluation, resident, reportVars, output, cause>>

Infer == /\ pc = "infer"
         /\ \/ Inferred /\ pc' = "release"
            \/ Failed("model_runtime_error") /\ pc' = "release"
            \/ IF Contract[role].maxRepairAttempts < 1
               THEN Failed("invalid_model_output") /\ pc' = "release"
               ELSE Failed("none") /\ pc' = "repair"
         /\ UNCHANGED resident
         /\ InHand

Repair == /\ pc = "repair"
          /\ \/ Inferred
             \/ \E error \in {"invalid_model_output", "model_runtime_error"} : Failed(error)
          /\ pc' = "release"
          /\ UNCHANGED resident
          /\ InHand

\* A cascade stops after a first candidate whose output needs no challenger.
CascadeStops ==
    /\ group.strategy = "cascade"
    /\ executions = <<>>
    /\ hand.status = "succeeded"
    /\ group.minimumSuccessful = 1 /\ group.minimumAgreeing = 1
    /\ ~group.alwaysChallenge
    /\ ~candidate_requires_challenge(role, inputs, hand.results)

CandidateRun(judge) == [id |-> hand.id, role |-> role, judge |-> judge, status |-> hand.status,
                        repaired |-> hand.repaired, error |-> hand.error]

\* Variant with a bug: a model that failed is not unloaded.
Release_onSuccess ==
    /\ pc = "release"
    /\ resident' = IF hand.status = "failed" THEN resident ELSE resident \ {hand.id}
    /\ executions' = Append(executions, hand)
    /\ candidateRuns' = Append(candidateRuns, CandidateRun(FALSE))
    /\ errors' = IF hand.status = "failed" THEN errors \cup {<<hand.id, hand.error>>} ELSE errors
    /\ IF CascadeStops \/ Len(executions) + 1 = Len(group.candidates)
       THEN hand' = NoHand /\ pc' = "consensus"
       ELSE hand' = Hand(group.candidates[Len(executions) + 2]) /\ pc' = "load"
    /\ UNCHANGED <<inputs, content, stage, evaluation, stages, consensusResults, output, cause>>

Release ==
    /\ pc = "release"
    /\ resident' = resident \ {hand.id}
    /\ executions' = Append(executions, hand)
    /\ candidateRuns' = Append(candidateRuns, CandidateRun(FALSE))
    /\ errors' = IF hand.status = "failed" THEN errors \cup {<<hand.id, hand.error>>} ELSE errors
    /\ IF CascadeStops \/ Len(executions) + 1 = Len(group.candidates)
       THEN hand' = NoHand /\ pc' = "consensus"
       ELSE hand' = Hand(group.candidates[Len(executions) + 2]) /\ pc' = "load"
    /\ UNCHANGED <<inputs, content, stage, evaluation, stages, consensusResults, output, cause>>

\* MemoryManager.release raises: nothing catches it in the session.
ReleaseFails == /\ pc \in {"release", "judge_release"}
                /\ \/ UNCHANGED resident
                   \/ resident' = resident \ {hand.id}
                /\ cause' = "release"
                /\ pc' = "finalize"
                /\ UNCHANGED <<inputs, content, stageVars, reportVars, output>>
-----------------------------------------------------------------------------
(* The consensus, and _execute_adjudicator.                                *)

\* The executions that succeeded, by rank, and their candidates.
Successful == {i \in DOMAIN executions : executions[i].status = "succeeded"}
SuccessfulIds == {executions[i].id : i \in Successful}

Evaluate == /\ pc = "consensus"
            /\ \E e \in evaluate_consensus(role, group, inputs, executions, Successful) :
                 /\ evaluation' = e
                 /\ IF e.requiresAdjudication
                    THEN pc' = "judge_load" /\ hand' = Hand(group.judge)
                    ELSE pc' = "settle" /\ UNCHANGED hand
            /\ UNCHANGED <<inputs, content, stage, executions, resident, reportVars, output, cause>>

\* The factory has no judge (then there is nothing to release), or loading fails.
JudgeLoad == /\ pc = "judge_load"
             /\ \/ Fails("model_runtime_error") /\ UNCHANGED resident /\ pc' = "judge_record"
                \/ /\ resident' = resident \cup {hand.id}
                   /\ \/ UNCHANGED hand /\ pc' = "judge"
                      \/ Fails("model_runtime_error") /\ pc' = "judge_release"
             /\ InHand

\* A verdict names one of the candidates it was shown, or none.
Verdict == [selected : SuccessfulIds \cup {"none"},
            confident : BOOLEAN]

\* The verdict is kept before CUDA is synchronised, and synchronising may fail.
Decided(repaired) == \E v \in Verdict :
                        hand' = [hand EXCEPT !.answered = TRUE, !.verdict = v, !.repaired = repaired]

Judge == /\ pc = "judge"
         /\ \/ Decided(FALSE) /\ pc' = "judge_synchronize"
            \/ UNCHANGED hand /\ pc' = "judge_correct"
            \/ Fails("model_runtime_error") /\ pc' = "judge_release"
         /\ UNCHANGED resident
         /\ InHand

\* Variant with a bug: an invalid verdict is corrected again and again.
JudgeCorrect_again == /\ pc = "judge_correct"
                      /\ \/ Decided(TRUE) /\ pc' = "judge_synchronize"
                         \/ UNCHANGED hand /\ pc' = "judge"
                         \/ Fails("model_runtime_error") /\ pc' = "judge_release"
                      /\ UNCHANGED resident
                      /\ InHand

JudgeCorrect == /\ pc = "judge_correct"
                /\ \/ Decided(TRUE) /\ pc' = "judge_synchronize"
                   \/ \E error \in {"invalid_model_output", "model_runtime_error"} :
                         Fails(error) /\ pc' = "judge_release"
                /\ UNCHANGED resident
                /\ InHand

JudgeSynchronize == /\ pc = "judge_synchronize"
                    /\ \/ hand' = [hand EXCEPT !.status = "succeeded"]
                       \/ Fails("model_runtime_error")
                    /\ pc' = "judge_release"
                    /\ UNCHANGED resident
                    /\ InHand

JudgeRelease == /\ pc = "judge_release"
                /\ resident' = resident \ {hand.id}
                /\ pc' = "judge_record"
                /\ UNCHANGED hand
                /\ InHand

\* The record of a run that is repaired and failed is refused by its contract
\* (WorkerModelCandidateRunV2); the ValidationError leaves the session.
JudgeRecordRefused == /\ pc = "judge_record"
                      /\ hand.repaired /\ hand.status = "failed"
                      /\ cause' = "judge_record"
                      /\ pc' = "finalize"
                      /\ UNCHANGED <<inputs, content, stageVars, resident, reportVars, output>>

JudgeRecord ==
    /\ pc = "judge_record"
    /\ ~(hand.repaired /\ hand.status = "failed")
    /\ candidateRuns' = Append(candidateRuns, CandidateRun(TRUE))
    /\ IF hand.answered
       THEN /\ evaluation' = apply_adjudication(group, hand.verdict, SuccessfulIds)
            /\ UNCHANGED errors
       ELSE /\ evaluation' = Evaluation(group.onDisagreement, "none", "adjudicator_failed", FALSE)
            /\ errors' = errors \cup {<<group.judge, hand.error>>}
    /\ pc' = "settle"
    /\ UNCHANGED <<inputs, content, stage, hand, executions, resident, stages, consensusResults,
                   output, cause>>
-----------------------------------------------------------------------------
(* The end of a stage and of the session.                                  *)

\* Variant with a bug: a blocked consensus shows the attempts of the first candidate.
Settle_attempts ==
    /\ pc = "settle"
    /\ \E exceeded \in {"none", "wall_time", "output"} :
         LET accepted == evaluation.downstreamAllowed
             rank == IF accepted
                     THEN CHOOSE i \in DOMAIN executions : executions[i].id = evaluation.selected
                     ELSE 1
             chosen == executions[rank]
             results == IF accepted THEN chosen.results ELSE content
             error == CASE accepted -> "none"
                        [] ~accepted /\ Successful = {} -> chosen.error
                        [] OTHER -> evaluation.reason
             status == IF accepted THEN "succeeded" ELSE "failed"
             post == postflight(role, before, derive_capabilities(inputs, results), status,
                                error, exceeded)
         IN  /\ ~accepted => exceeded = "none"
             /\ exceeded = "output" => Countable(results)
             /\ content' = results
             /\ consensusResults' = Append(consensusResults,
                  [role |-> role, ids |-> [n \in DOMAIN executions |-> executions[n].id],
                   decision |-> evaluation.decision, selected |-> evaluation.selected,
                   allowed |-> evaluation.downstreamAllowed, successful |-> Cardinality(Successful),
                   required |-> group.minimumSuccessful,
                   judge |-> IF hand.id = "none" THEN "none" ELSE group.judge])
             /\ errors' = errors
                  \cup (IF accepted THEN {} ELSE {<<role, evaluation.reason>>})
                  \cup (IF post.decision \in Blocking THEN {<<role, post.reason>>} ELSE {})
             /\ SettleStage(
                  [role |-> role, status |-> status,
                   run |-> [status |-> IF Successful = {} THEN chosen.status ELSE status,
                            model |-> chosen.id, error |-> error],
                   pre |-> preflight(role, before, BatchItems), post |-> post,
                   retryable |-> post.decision = "failed_retryable",
                   attempts |-> chosen.attempts])
    /\ UNCHANGED <<inputs, resident, candidateRuns, output, cause>>

\* Variant with a bug: the first candidate's results are used when there is no consensus.
Settle_rejected ==
    /\ pc = "settle"
    /\ \E exceeded \in {"none", "wall_time", "output"} :
         LET accepted == evaluation.downstreamAllowed
             rank == IF accepted
                     THEN CHOOSE i \in DOMAIN executions : executions[i].id = evaluation.selected
                     ELSE 1
             chosen == executions[rank]
             results == IF chosen.status = "succeeded" THEN chosen.results ELSE content
             error == CASE accepted -> "none"
                        [] ~accepted /\ Successful = {} -> chosen.error
                        [] OTHER -> evaluation.reason
             status == IF accepted THEN "succeeded" ELSE "failed"
             post == postflight(role, before, derive_capabilities(inputs, results), status,
                                error, exceeded)
         IN  /\ ~accepted => exceeded = "none"
             /\ exceeded = "output" => Countable(results)
             /\ content' = results
             /\ consensusResults' = Append(consensusResults,
                  [role |-> role, ids |-> [n \in DOMAIN executions |-> executions[n].id],
                   decision |-> evaluation.decision, selected |-> evaluation.selected,
                   allowed |-> evaluation.downstreamAllowed, successful |-> Cardinality(Successful),
                   required |-> group.minimumSuccessful,
                   judge |-> IF hand.id = "none" THEN "none" ELSE group.judge])
             /\ errors' = errors
                  \cup (IF accepted THEN {} ELSE {<<role, evaluation.reason>>})
                  \cup (IF post.decision \in Blocking THEN {<<role, post.reason>>} ELSE {})
             /\ SettleStage(
                  [role |-> role, status |-> status,
                   run |-> [status |-> IF Successful = {} THEN chosen.status ELSE status,
                            model |-> chosen.id, error |-> error],
                   pre |-> preflight(role, before, BatchItems), post |-> post,
                   retryable |-> post.decision = "failed_retryable",
                   attempts |-> IF accepted \/ Successful = {} THEN chosen.attempts ELSE <<>>])
    /\ UNCHANGED <<inputs, resident, candidateRuns, output, cause>>

\* With a selected candidate its results become the results of the batch.
\* Without one the first candidate stands for the stage, as a failure.
Settle ==
    /\ pc = "settle"
    /\ \E exceeded \in {"none", "wall_time", "output"} :
         LET accepted == evaluation.downstreamAllowed
             rank == IF accepted
                     THEN CHOOSE i \in DOMAIN executions : executions[i].id = evaluation.selected
                     ELSE 1
             chosen == executions[rank]
             results == IF accepted THEN chosen.results ELSE content
             error == CASE accepted -> "none"
                        [] ~accepted /\ Successful = {} -> chosen.error
                        [] OTHER -> evaluation.reason
             status == IF accepted THEN "succeeded" ELSE "failed"
             post == postflight(role, before, derive_capabilities(inputs, results), status,
                                error, exceeded)
         IN  /\ ~accepted => exceeded = "none"
             /\ exceeded = "output" => Countable(results)
             /\ content' = results
             /\ consensusResults' = Append(consensusResults,
                  [role |-> role, ids |-> [n \in DOMAIN executions |-> executions[n].id],
                   decision |-> evaluation.decision, selected |-> evaluation.selected,
                   allowed |-> evaluation.downstreamAllowed, successful |-> Cardinality(Successful),
                   required |-> group.minimumSuccessful,
                   judge |-> IF hand.id = "none" THEN "none" ELSE group.judge])
             /\ errors' = errors
                  \cup (IF accepted THEN {} ELSE {<<role, evaluation.reason>>})
                  \cup (IF post.decision \in Blocking THEN {<<role, post.reason>>} ELSE {})
             /\ SettleStage(
                  [role |-> role, status |-> status,
                   run |-> [status |-> IF Successful = {} THEN chosen.status ELSE status,
                            model |-> chosen.id, error |-> error],
                   pre |-> preflight(role, before, BatchItems), post |-> post,
                   retryable |-> post.decision = "failed_retryable",
                   attempts |-> IF accepted \/ Successful = {} THEN chosen.attempts ELSE <<>>])
    /\ UNCHANGED <<inputs, resident, candidateRuns, output, cause>>

Runs == {stages[i].run : i \in DOMAIN stages}
Gates == {stages[i].pre : i \in DOMAIN stages} \cup {stages[i].post : i \in DOMAIN stages}

\* Variant with a bug: the gates do not count.
Finish_noGates ==
    /\ pc = "finish"
    /\ LET failed == \E r \in Runs : r.status = "failed"
           succeeded == \E r \in Runs : r.status = "succeeded"
           incomplete == \E r \in Runs : r.status = "skipped" /\ r.error # "none"
       IN  output' = [status |-> CASE ~failed /\ ~incomplete -> "succeeded"
                                   [] (failed \/ incomplete) /\ (succeeded \/ incomplete) ->
                                        "partial_failure"
                                   [] OTHER -> "failed",
                      retryable |-> \E g \in Gates : g.decision = "failed_retryable"]
    /\ pc' = "finalize"
    /\ UNCHANGED <<inputs, content, stageVars, resident, reportVars, cause>>

Finish ==
    /\ pc = "finish"
    /\ LET failed == \E r \in Runs : r.status = "failed"
           succeeded == \E r \in Runs : r.status = "succeeded"
           incomplete == \/ \E r \in Runs : r.status = "skipped" /\ r.error # "none"
                         \/ \E g \in Gates : g.decision \in Blocking
       IN  output' = [status |-> CASE ~failed /\ ~incomplete -> "succeeded"
                                   [] (failed \/ incomplete) /\ (succeeded \/ incomplete) ->
                                        "partial_failure"
                                   [] OTHER -> "failed",
                      retryable |-> \E g \in Gates : g.decision = "failed_retryable"]
    /\ pc' = "finalize"
    /\ UNCHANGED <<inputs, content, stageVars, resident, reportVars, cause>>

\* MemoryManager.finalize_job, after a result and after an exception alike.
Finalize == /\ pc = "finalize"
            /\ \/ /\ pc' = IF cause = "none" THEN "returned" ELSE "raised"
                  /\ UNCHANGED cause
               \/ pc' = "raised" /\ cause' = "finalize"
            /\ UNCHANGED <<inputs, content, stageVars, resident, reportVars, output>>

Ended == pc \in {"returned", "raised"} /\ UNCHANGED vars

Next == \/ SkipStage \/ SkipUnconfigured \/ StartStage
        \/ CreateFails \/ Load \/ Infer \/ Repair \/ Release \/ ReleaseFails
        \/ Evaluate \/ JudgeLoad \/ Judge \/ JudgeCorrect \/ JudgeSynchronize
        \/ JudgeRelease \/ JudgeRecordRefused \/ JudgeRecord
        \/ Settle \/ Finish \/ Finalize \/ Ended

Spec == Init /\ [][Next]_vars

\* Every call of a model comes back, and the thread is scheduled.
FairSpec == Spec /\ WF_vars(Next /\ ~Ended)
-----------------------------------------------------------------------------
(* Properties.                                                             *)

RunStatus == {"succeeded", "failed", "skipped"}
Errors == {"none", "model_runtime_error", "invalid_model_output"}
Content == [Kind -> Sources \cup {"none", "input"}]
Steps == {"preflight", "load", "infer", "repair", "release", "consensus", "judge_load",
          "judge", "judge_correct", "judge_synchronize", "judge_release", "judge_record",
          "settle", "finish", "finalize", "returned", "raised"}
Seen == Sources \cup {"none"}
HandRecord == [id : Sources \cup Judges \cup {"none"}, status : RunStatus, error : Errors,
               repaired : BOOLEAN, attempts : Seq({"succeeded", "failed"}), results : Content,
               answered : BOOLEAN,
               verdict : [selected : Seen, confident : BOOLEAN]]

GateReason == {"stage_input_limit_exceeded", "requirements_satisfied", "no_applicable_input",
               "required_capability_missing", "stage_skipped", "stage_wall_time_exceeded",
               "stage_output_limit_exceeded", "minimum_output_satisfied",
               "minimum_output_missing", "checkpoint_not_configured", "model_not_configured"}
ConsensusReason == {"insufficient_successful_candidates", "candidate_quality_insufficient",
                    "candidate_disagreement", "agreement", "candidate_disagreement_adjudicated",
                    "adjudicator_abstained", "adjudicator_failed"}
Reason == GateReason \cup ConsensusReason \cup Errors
GateRecord == [decision : Decision \cup {"none"}, reason : Reason]
EvaluationRecord == [decision : Accepted \cup {"abstain", "human_review"}, selected : Seen,
                     reason : Reason, downstreamAllowed : BOOLEAN, requiresAdjudication : BOOLEAN]
StageRecord == [role : Role, status : RunStatus,
                run : [status : RunStatus, model : Seen, error : Reason],
                pre : GateRecord, post : GateRecord, retryable : BOOLEAN,
                attempts : Seq({"succeeded", "failed"})]

TypeOK ==
    /\ inputs \in Inputs
    /\ content \in Content
    /\ stage \in 1 .. Len(RoleOrder) + 1
    /\ pc \in Steps
    /\ hand \in HandRecord
    /\ executions \in Seq(HandRecord)
    /\ resident \in SUBSET (Sources \cup Judges)
    /\ evaluation \in EvaluationRecord
    /\ stages \in Seq(StageRecord)
    /\ output \in [status : {"none", "succeeded", "partial_failure", "failed"},
                   retryable : BOOLEAN]
    /\ cause \in {"none", "create", "release", "judge_record", "finalize"}

\* "The explicit release boundary between two GPU model families": never two
\* models at a time, and none is left behind by a session that returns.  What
\* stays resident after a release that failed is in an aborted session.
OneModelAtATime ==
    /\ Cardinality(resident) <= 1
    /\ resident # {} => resident = {hand.id}
    /\ pc \notin {"infer", "repair", "release", "judge", "judge_correct",
                  "judge_synchronize", "judge_release"} /\ cause = "none" => resident = {}

\* Downstream stages see the outputs of accepted candidates only: a result
\* comes from the candidate its stage's consensus selected, which succeeded.
\* And no candidate sees what another candidate of its stage has found.
OnlyAcceptedResultsFlow ==
    /\ \A k \in Kind : content[k] \notin {"none", "input"} =>
         \E c \in Range(consensusResults) :
            /\ c.allowed /\ c.selected = content[k]
            /\ \E r \in Range(candidateRuns) : r.id = c.selected /\ r.status = "succeeded"
    /\ \A e \in Range(executions) : \A k \in Kind :
         e.results[k] \in {content[k], "none", e.id}

\* What the contract of a version 2 output demands of its parts: traces in the
\* order of the stages, attempts that agree with their stage, and consensus,
\* runs and traces that refer to each other.
AttemptsAgree(s) ==
    LET n == Len(s.attempts) IN
    /\ s.status = "skipped" => n = 0
    /\ s.status = "succeeded" => n > 0 /\ s.attempts[n] = "succeeded"
    /\ s.status = "failed" /\ n > 0 => s.attempts[n] = "failed"
    /\ n = 2 => s.attempts[1] = "failed"
ConsensusAgrees(c, s) ==
    /\ s.role = c.role
    /\ c.allowed <=> s.status = "succeeded"
    /\ c.allowed <=> c.decision \in Accepted
    /\ c.allowed => c.selected \in Range(c.ids) /\ s.run.model = c.selected
    /\ c.successful <= Len(c.ids) /\ c.required <= Len(c.ids)
    /\ c.decision = "adjudicated" => c.judge # "none"
    /\ c.decision \in {"pass", "repair"} => c.judge = "none"
Covered(c) == Range(c.ids) \cup ({c.judge} \ {"none"})
OutputReferencesHold ==
    pc = "returned" =>
        /\ [i \in DOMAIN stages |-> stages[i].role] = RoleOrder
        /\ \A s \in Range(stages) : AttemptsAgree(s) /\ s.run.status = s.status
        /\ \A c \in Range(consensusResults) : \E s \in Range(stages) : ConsensusAgrees(c, s)
        /\ \A i, k \in DOMAIN candidateRuns : candidateRuns[i].id = candidateRuns[k].id => i = k
        /\ {r.id : r \in Range(candidateRuns)} = UNION {Covered(c) : c \in Range(consensusResults)}

\* The status of the batch tells the truth about its stages.  It is
\* "succeeded" only if every stage succeeded, or had nothing to do, and passed
\* its gate or abstained; anything less is explained by an error.  "failed" is
\* never said: a failed run leaves a gate that makes the batch incomplete.  A
\* batch to be retried is not a success, and some stage failed at run time or
\* took too long.
StatusIsHonest ==
    pc = "returned" =>
        /\ output.status = "succeeded" <=>
             \A s \in Range(stages) :
                \/ s.status = "succeeded" /\ s.post.decision \in {"pass", "abstain"}
                \/ s.status = "skipped" /\ s.pre.decision = "not_applicable"
        /\ output.status # "failed"
        /\ output.status # "succeeded" => errors # {}
        /\ output.retryable =>
             /\ output.status = "partial_failure"
             /\ \E s \in Range(stages) :
                   s.post.reason \in {"model_runtime_error", "stage_wall_time_exceeded"}

\* A disagreement is only ever brought to a judge the registry names.
JudgeIsConfigured == pc \in {"judge_load", "judge", "judge_record"} => hand.id \in Judges

\* The session implements the promise of StageSequence.
Promise == INSTANCE StageSequence WITH
    Order   <- RoleOrder,
    CandidatesOf <- Candidates,
    Results <- [Kind -> Sources \cup {"none", "input"}],
    settled <- [i \in DOMAIN stages |-> [role |-> stages[i].role, status |-> stages[i].status]],
    results <- content,
    phase   <- IF pc \in {"returned", "raised"} THEN pc ELSE "running"

ImplementsPromise == Promise!Spec

\* What makes the properties above inductive.
Executing == {"load", "infer", "repair", "release"}
Judging == {"judge_load", "judge", "judge_correct", "judge_synchronize", "judge_release",
            "judge_record"}
InStage == Executing \cup Judging \cup {"consensus", "settle"}

\* Where the session is: a stage in hand was admitted and has a group; only an
\* aborted session is finalised before its last stage.
Progress ==
    /\ pc \in InStage \cup {"preflight"} => stage \in DOMAIN RoleOrder
    /\ pc \in InStage => group # NoGroup /\ _missing_requirements(Contract[role], before) = {}
    /\ pc = "finish" \/ (pc \in {"finalize", "returned"} /\ cause = "none") =>
         stage = Len(RoleOrder) + 1
    /\ cause # "none" => pc \in {"finalize", "raised"}
    /\ Len(stages) = stage - 1
    /\ \A i \in DOMAIN stages : stages[i].role = RoleOrder[i]

\* The candidates run by rank, then the judge; each starts from the accepted
\* results and adds none but its own.
Private(r) == \A k \in Kind : r.results[k] \in {content[k], "none", r.id}
InTurn ==
    /\ pc = "preflight" => executions = <<>>
    /\ pc \in InStage =>
         /\ Len(executions) <= Len(group.candidates)
         /\ \A i \in DOMAIN executions :
              executions[i].id = group.candidates[i] /\ Private(executions[i])
    /\ pc \in InStage \ Executing => Len(executions) > 0
    /\ pc \in Executing =>
         /\ Len(executions) < Len(group.candidates)
         /\ hand.id = group.candidates[Len(executions) + 1]
         /\ Private(hand)
    /\ pc \in Judging => hand.id = group.judge /\ group.judge # "none"

\* The consensus selects a candidate that succeeded, or none.
Selects ==
    /\ evaluation.downstreamAllowed <=> evaluation.selected # "none"
    /\ pc \in Judging \cup {"settle"} => evaluation.selected \in SuccessfulIds \cup {"none"}

\* Only the model in hand is on the GPU, and only while it is used.
GPU ==
    /\ resident \subseteq {hand.id}
    /\ cause = "none" /\ pc \notin {"infer", "repair", "release", "judge", "judge_correct",
                                   "judge_synchronize", "judge_release"} => resident = {}

IInv == TypeOK /\ Progress /\ InTurn /\ Selects /\ GPU

\* If every call of a model comes back, the session ends.
SessionEnds == <>(pc \in {"returned", "raised"})

\* "A model failure preserves previous stage results": a session is aborted
\* only if an adapter cannot be made or GPU memory cannot be released, never by a
\* model that failed.
ModelFailureIsReported == cause \in {"none", "create", "release", "finalize"}
=============================================================================
