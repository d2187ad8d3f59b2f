------------------------ MODULE SessionRunner_proofs ------------------------
(***************************************************************************)
(* Proofs about SessionRunner, for every registry, every set of contracts  *)
(* and every batch: the inductive invariant IInv, the safety properties it *)
(* implies, the refinement of StageSequence, and that a session is finite. *)
(***************************************************************************)
EXTENDS SessionRunner, FiniteSetTheorems, TLAPS

\* The four roles and their order.
LEMMA Order ==
    /\ Len(RoleOrder) = 4 /\ DOMAIN RoleOrder = 1 .. 4
    /\ \A i \in 1 .. 4 : RoleOrder[i] \in Role
  BY DEF RoleOrder, Role

\* A registered group is a group record with at least one candidate.
LEMMA Registered ==
    ASSUME NEW r \in Role, Group[r] # NoGroup
    PROVE  /\ Group[r] \in GroupRecord
           /\ Len(Group[r].candidates) \in Nat \ {0}
           /\ \A i \in DOMAIN Group[r].candidates : Group[r].candidates[i] \in Sources
           /\ IsInjective(Group[r].candidates)
           /\ Group[r].minimumSuccessful \in 1 .. Len(Group[r].candidates)
           /\ Group[r].minimumAgreeing \in 1 .. Len(Group[r].candidates)
           /\ Group[r].judge # "none" => Group[r].judge \in Judges
           /\ Group[r].strategy = "quorum" \/ Group[r].minimumAgreeing > 1
                => Group[r].judge # "none"
  <1>1. r \in Roles
    BY DEF Roles
  <1>2. Candidates(r) \subseteq Sources
    BY <1>1 DEF Sources
  <1>3. Group[r].judge # "none" => Group[r].judge \in Judges
    BY <1>1 DEF Judges
  <1> QED
    BY <1>1, <1>2, <1>3, RegistryAssumption DEF Candidates

\* The name of no candidate is a reserved one.
LEMMA Names == "none" \notin Sources /\ "input" \notin Sources /\ Sources \cap Judges = {}
  BY NamesAssumption

-----------------------------------------------------------------------------
(* Types of what the actions are built from.                               *)

\* A gate of a known decision and reason is a gate record.
LEMMA GateType ==
    ASSUME NEW decision \in Decision, NEW reason \in Reason
    PROVE  Gate(decision, reason) \in GateRecord
  BY DEF Gate, GateRecord

\* The reasons of gates, errors and consensus are reasons of a record.
LEMMA Reasons == GateReason \subseteq Reason /\ Errors \subseteq Reason /\ ConsensusReason \subseteq Reason
  BY DEF Reason

\* The gates, whatever they decide, return gate records.
LEMMA PreflightType ==
    ASSUME NEW r \in Role, NEW capabilities, NEW items
    PROVE  preflight(r, capabilities, items) \in GateRecord
<1> DEFINE contract == Contract[r]
           policy == CASE contract.failurePolicy = "human_review" -> "human_review"
                       [] contract.failurePolicy = "block" -> "failed_terminal"
                       [] OTHER -> "abstain"
           missing == _missing_requirements(contract, capabilities)
           skip == contract.skipWhenNotApplicable /\ _is_not_applicable(r, capabilities)
<1>1. policy \in Decision
  BY DEF Decision
<1>2. {"pass", "not_applicable", "failed_terminal"} \subseteq Decision
  BY DEF Decision
<1>3. preflight(r, capabilities, items) \in
        {Gate("failed_terminal", "stage_input_limit_exceeded"),
         Gate("pass", "requirements_satisfied"), Gate("not_applicable", "no_applicable_input"),
         Gate(policy, "required_capability_missing")}
  <2>1. CASE items > contract.maxInputItems
    BY <2>1 DEF preflight
  <2>2. CASE ~(items > contract.maxInputItems) /\ missing = {}
    BY <2>2 DEF preflight
  <2>3. CASE ~(items > contract.maxInputItems) /\ missing # {} /\ skip
    BY <2>3 DEF preflight
  <2>4. CASE ~(items > contract.maxInputItems) /\ missing # {} /\ ~skip
    BY <2>4 DEF preflight
  <2> QED
    BY <2>1, <2>2, <2>3, <2>4
<1> HIDE DEF policy
<1>4. Gate("failed_terminal", "stage_input_limit_exceeded") \in GateRecord
  BY <1>2, GateType, Reasons DEF GateReason
<1>5. Gate("pass", "requirements_satisfied") \in GateRecord
  BY <1>2, GateType, Reasons DEF GateReason
<1>6. Gate("not_applicable", "no_applicable_input") \in GateRecord
  BY <1>2, GateType, Reasons DEF GateReason
<1>7. Gate(policy, "required_capability_missing") \in GateRecord
  BY <1>1, GateType, Reasons DEF GateReason
<1> QED
  BY <1>3, <1>4, <1>5, <1>6, <1>7

\* The gate after a stage is a gate record, whatever the run came to.
LEMMA PostflightType ==
    ASSUME NEW r \in Role, NEW b, NEW a, NEW status, NEW error \in Reason, NEW exceeded
    PROVE  postflight(r, b, a, status, error, exceeded) \in GateRecord
<1> DEFINE review == IF Contract[r].failurePolicy = "human_review" THEN "human_review"
                                                                   ELSE "abstain"
           failure == IF error = "model_runtime_error" THEN "failed_retryable"
                                                       ELSE "failed_terminal"
<1>1. review \in Decision /\ failure \in Decision
  BY DEF Decision
<1>2. {"pass", "not_applicable", "abstain", "failed_retryable", "failed_terminal"}
        \subseteq Decision
  BY DEF Decision
<1>3. postflight(r, b, a, status, error, exceeded) \in
        {Gate(failure, error), Gate("not_applicable", "stage_skipped"), Gate("abstain", error),
         Gate("failed_retryable", "stage_wall_time_exceeded"),
         Gate("failed_terminal", "stage_output_limit_exceeded"),
         Gate("pass", "minimum_output_satisfied"), Gate(review, "minimum_output_missing")}
  BY Zenon DEF postflight
<1> HIDE DEF review, failure
<1>4. Gate(failure, error) \in GateRecord /\ Gate("abstain", error) \in GateRecord
  BY <1>1, <1>2, GateType
<1>5. /\ Gate("not_applicable", "stage_skipped") \in GateRecord
      /\ Gate("failed_retryable", "stage_wall_time_exceeded") \in GateRecord
      /\ Gate("failed_terminal", "stage_output_limit_exceeded") \in GateRecord
      /\ Gate("pass", "minimum_output_satisfied") \in GateRecord
  BY <1>2, GateType, Reasons DEF GateReason
<1>6. Gate(review, "minimum_output_missing") \in GateRecord
  BY <1>1, GateType, Reasons DEF GateReason
<1> QED
  BY <1>3, <1>4, <1>5, <1>6

\* A stage passes its gate only with its requirements fulfilled.
LEMMA PassMeansFulfilled ==
    ASSUME NEW r, NEW capabilities, NEW items,
           preflight(r, capabilities, items).decision = "pass"
    PROVE  _missing_requirements(Contract[r], capabilities) = {}
  BY SMTT(20) DEF preflight, Gate

\* A model newly taken in hand, or none.
LEMMA FreshType ==
    ASSUME NEW id \in Sources \cup Judges \cup {"none"}, NEW results \in Content
    PROVE  /\ Fresh(id, results) \in HandRecord /\ Fresh(id, results).id = id
           /\ Fresh(id, results).results = results
  BY DEF Fresh, NoVerdict, HandRecord, Seen, RunStatus, Errors

\* A fresh candidate is a hand with no attempts.
LEMMA HandType ==
    ASSUME content \in Content, NEW id \in Sources \cup Judges
    PROVE  /\ Hand(id) \in HandRecord /\ Hand(id).id = id
           /\ Hand(id).results = content
  BY FreshType DEF Hand

\* No candidate in hand is a hand too.
LEMMA NoHandType == NoHand \in HandRecord /\ NoHand.id = "none"
  BY FreshType DEF NoHand, Content
-----------------------------------------------------------------------------
(* The consensus.                                                          *)

\* What evaluations the session is prepared for: a candidate is selected, of
\* these ids, exactly when it may be used, which is when the decision says so.
Sound(e, ids) ==
    /\ e \in EvaluationRecord
    /\ e.downstreamAllowed <=> e.selected # "none"
    /\ e.downstreamAllowed <=> e.decision \in Accepted
    /\ e.selected \in ids \cup {"none"}

\* A consensus that blocks its stage selects nobody.
LEMMA BlockedSound ==
    ASSUME NEW decision \in {"abstain", "human_review"}, NEW reason \in ConsensusReason,
           NEW judge \in BOOLEAN, NEW ids
    PROVE  /\ Sound(Evaluation(decision, "none", reason, judge), ids)
           /\ Evaluation(decision, "none", reason, judge).requiresAdjudication = judge
           /\ Evaluation(decision, "none", reason, judge).decision \notin Accepted
  BY Reasons DEF Evaluation, Sound, EvaluationRecord, Seen, Accepted

\* A consensus that accepts a candidate selects that one.
LEMMA SelectedSound ==
    ASSUME NEW decision \in Accepted, NEW id \in Sources, NEW reason \in ConsensusReason
    PROVE  /\ Sound(Evaluation(decision, id, reason, FALSE), {id})
           /\ Evaluation(decision, id, reason, FALSE).requiresAdjudication = FALSE
           /\ Evaluation(decision, id, reason, FALSE).decision = decision
  BY Reasons, Names DEF Evaluation, Sound, EvaluationRecord, Seen

\* A judge is asked only when too few candidates agree.
LEMMA QuorumSound ==
    ASSUME NEW g, g.onDisagreement \in {"abstain", "human_review"},
           NEW candidate, candidate.id \in Sources, NEW agreeing \in Int
    PROVE  LET e == Quorum(g, candidate, agreeing) IN
           /\ Sound(e, {candidate.id}) /\ e.decision # "adjudicated"
           /\ e.requiresAdjudication => agreeing < g.minimumAgreeing
<1>1. CASE agreeing < g.minimumAgreeing
  BY <1>1, BlockedSound, "candidate_disagreement" \in ConsensusReason
  DEF Quorum, ConsensusReason, Sound, Evaluation
<1>2. CASE ~(agreeing < g.minimumAgreeing)
  <2>1. Quorum(g, candidate, agreeing) =
          Evaluation(IF candidate.repaired THEN "repair" ELSE "pass", candidate.id,
                     "agreement", FALSE)
    BY <1>2 DEF Quorum
  <2>2. /\ (IF candidate.repaired THEN "repair" ELSE "pass") \in Accepted
        /\ (IF candidate.repaired THEN "repair" ELSE "pass") # "adjudicated"
    BY DEF Accepted
  <2>3. "agreement" \in ConsensusReason
    BY DEF ConsensusReason
  <2> QED
    BY <2>1, <2>2, <2>3, SelectedSound
<1> QED
  BY <1>1, <1>2

\* Where the candidates of a stage in hand come from.
LEMMA InHandFacts ==
    ASSUME IInv, pc \in InStage
    PROVE  /\ role \in Role /\ group # NoGroup /\ group = Group[role]
           /\ group \in GroupRecord
           /\ \A i \in DOMAIN executions : executions[i].id \in Sources
           /\ SuccessfulIds \subseteq Sources
<1>1. role \in Role /\ group # NoGroup /\ group = Group[role]
  BY Order DEF IInv, Progress, role, group
<1>2. \A i \in DOMAIN executions : executions[i].id \in Sources
  <2>1. /\ executions \in Seq(HandRecord) /\ Len(executions) <= Len(group.candidates)
        /\ \A i \in DOMAIN executions : executions[i].id = group.candidates[i]
    BY DEF IInv, TypeOK, InTurn
  <2>2. group.candidates \in Seq(STRING)
    BY <1>1, Registered DEF GroupRecord
  <2>3. \A i \in DOMAIN executions : i \in DOMAIN group.candidates
    BY <2>1, <2>2
  <2> QED
    BY <1>1, <2>1, <2>3, Registered
<1> QED
  BY <1>1, <1>2, Registered DEF SuccessfulIds, Successful

\* Every evaluation of the candidates is sound, and asks for a judge only
\* where the registry names one.
LEMMA EvaluateSound ==
    ASSUME IInv, pc = "consensus",
           NEW e \in evaluate_consensus(role, group, inputs, executions, Successful)
    PROVE  /\ Sound(e, SuccessfulIds) /\ e.decision # "adjudicated"
           /\ e.requiresAdjudication => group.judge # "none"
<1> DEFINE relaxed == [group EXCEPT !.minimumAgreeing = 1]
<1>1. pc \in InStage
  BY DEF InStage
<1>2. /\ group \in GroupRecord
      /\ \A i \in Successful : executions[i].id \in Sources /\ executions[i].id \in SuccessfulIds
  BY <1>1, InHandFacts DEF Successful, SuccessfulIds
<1>3. /\ group.minimumAgreeing \in Nat
      /\ group.minimumAgreeing > 1 => group.judge # "none"
  BY <1>1, InHandFacts, Registered DEF GroupRecord
<1>4. CASE \E reason \in ConsensusReason : e = Evaluation(group.onDisagreement, "none", reason, FALSE)
  <2>1. group.onDisagreement \in {"abstain", "human_review"}
    BY <1>2 DEF GroupRecord
  <2> QED
    BY <1>4, <2>1, BlockedSound DEF Accepted
<1>5. CASE \E i \in Successful, n \in Int : n >= 1 /\ e = Quorum(group, executions[i], n)
  <2>1. PICK i \in Successful, n \in Int : n >= 1 /\ e = Quorum(group, executions[i], n)
    BY <1>5
  <2>2. group.onDisagreement \in {"abstain", "human_review"}
    BY <1>2 DEF GroupRecord
  <2>3. /\ Sound(e, {executions[i].id}) /\ e.decision # "adjudicated"
        /\ e.requiresAdjudication => n < group.minimumAgreeing
    BY <1>2, <2>1, <2>2, QuorumSound
  <2> QED
    BY <1>2, <1>3, <2>1, <2>3 DEF Sound
<1>6. CASE \E i \in Successful : e = Quorum(relaxed, executions[i], 1)
  <2>1. PICK i \in Successful : e = Quorum(relaxed, executions[i], 1)
    BY <1>6
  <2>2. /\ relaxed.onDisagreement \in {"abstain", "human_review"}
        /\ relaxed.minimumAgreeing = 1
    BY <1>2 DEF GroupRecord
  <2> HIDE DEF relaxed
  <2>3. /\ Sound(e, {executions[i].id}) /\ e.decision # "adjudicated"
        /\ e.requiresAdjudication => 1 < relaxed.minimumAgreeing
    BY <1>2, <2>1, <2>2, QuorumSound
  <2> QED
    BY <1>2, <2>1, <2>2, <2>3 DEF Sound
<1>7. \/ \E reason \in ConsensusReason : e = Evaluation(group.onDisagreement, "none", reason, FALSE)
      \/ \E i \in Successful, n \in Int : n >= 1 /\ e = Quorum(group, executions[i], n)
      \/ \E i \in Successful : e = Quorum(relaxed, executions[i], 1)
  <2> DEFINE admissible == Admissible(role, inputs, executions, Successful)
             alone == group.strategy = "single_with_rules" \/ Cardinality(Successful) = 1
  <2>1. /\ First(admissible) \subseteq Successful /\ First(Successful) \subseteq Successful
    BY DEF First, Admissible
  <2>2. ASSUME NEW ranks, NEW selected \in SUBSET Successful,
               e \in Quorums(group, executions, selected, ranks)
        PROVE  \E i \in Successful, n \in Int : n >= 1 /\ e = Quorum(group, executions[i], n)
    BY <2>2 DEF Quorums
  <2>3. CASE Cardinality(Successful) < group.minimumSuccessful
    BY <2>3 DEF evaluate_consensus, ConsensusReason
  <2>4. CASE ~(Cardinality(Successful) < group.minimumSuccessful) /\ group.strategy = "cascade"
    <3>1. CASE admissible = {}
      BY <2>4, <3>1 DEF evaluate_consensus, ConsensusReason
    <3>2. CASE admissible # {}
      <4>1. e \in Quorums(group, executions, First(admissible), admissible)
        BY <2>4, <3>2 DEF evaluate_consensus
      <4> QED
        BY <2>1, <2>2, <4>1
    <3> QED
      BY <3>1, <3>2
  <2>5. CASE /\ ~(Cardinality(Successful) < group.minimumSuccessful)
             /\ group.strategy # "cascade" /\ alone
    <3>1. e \in {Quorum(relaxed, executions[i], 1) : i \in First(Successful)}
      BY <2>5 DEF evaluate_consensus
    <3> HIDE DEF relaxed
    <3> QED
      BY <2>1, <3>1
  <2>6. CASE /\ ~(Cardinality(Successful) < group.minimumSuccessful)
             /\ group.strategy # "cascade" /\ ~alone
    <3>1. \/ e \in Quorums(group, executions, First(Successful), Successful)
          \/ e \in Quorums(group, executions, Successful, Successful)
      BY <2>6 DEF evaluate_consensus
    <3> QED
      BY <2>1, <2>2, <3>1
  <2> QED
    BY <2>3, <2>4, <2>5, <2>6
<1> QED
  BY <1>4, <1>5, <1>6, <1>7

\* What a verdict makes of a disagreement is sound: a successful candidate or none.
LEMMA AdjudicateSound ==
    ASSUME IInv, pc = "judge_record"
    PROVE  LET e == apply_adjudication(group, hand.verdict, SuccessfulIds)
           IN  Sound(e, SuccessfulIds) /\ e.decision \notin {"pass", "repair"}
<1>1. pc \in InStage
  BY DEF InStage, Judging
<1>2. group.onDisagreement \in {"abstain", "human_review"} /\ SuccessfulIds \subseteq Sources
  BY <1>1, InHandFacts DEF GroupRecord
<1>3. CASE hand.verdict.confident /\ hand.verdict.selected \in SuccessfulIds
  <2> DEFINE e == Evaluation("adjudicated", hand.verdict.selected,
                             "candidate_disagreement_adjudicated", FALSE)
  <2>1. apply_adjudication(group, hand.verdict, SuccessfulIds) = e
    BY <1>3 DEF apply_adjudication
  <2>2. "adjudicated" \in Accepted
    BY DEF Accepted
  <2>3. "candidate_disagreement_adjudicated" \in ConsensusReason
    BY DEF ConsensusReason
  <2>4. hand.verdict.selected \in Sources
    BY <1>2, <1>3
  <2>5. Sound(e, {hand.verdict.selected}) /\ e.decision = "adjudicated"
    BY <2>2, <2>3, <2>4, SelectedSound
  <2> HIDE DEF e
  <2> QED
    BY <1>3, <2>1, <2>5 DEF Sound
<1>4. CASE ~(hand.verdict.confident /\ hand.verdict.selected \in SuccessfulIds)
  BY <1>2, <1>4, BlockedSound DEF apply_adjudication, ConsensusReason, Evaluation
<1> QED
  BY <1>3, <1>4
-----------------------------------------------------------------------------
(* The steps of a model in hand.                                           *)

\* While a stage runs, the model in hand is a candidate or a judge of the registry.
LEMMA HandNamed ==
    ASSUME IInv, pc \in Executing \cup Judging
    PROVE  hand.id \in Sources \cup Judges
<1>1. pc \in InStage
  BY DEF InStage
<1>2. CASE pc \in Executing
  <2>1. /\ hand.id = group.candidates[Len(executions) + 1]
        /\ Len(executions) \in Nat /\ Len(executions) < Len(group.candidates)
    BY <1>2 DEF IInv, InTurn, TypeOK
  <2>2. group.candidates \in Seq(STRING)
    BY <1>1, InHandFacts DEF GroupRecord
  <2>3. Len(executions) + 1 \in DOMAIN group.candidates
    BY <2>1, <2>2
  <2> QED
    BY <1>1, <2>1, <2>3, InHandFacts, Registered
<1>3. CASE pc \in Judging
  BY <1>1, <1>3, InHandFacts, Registered DEF IInv, InTurn
<1> QED
  BY <1>2, <1>3

\* What a step that changes no more than the model in hand has to respect.
LEMMA HeldKeeps ==
    ASSUME IInv, InHand, hand' \in HandRecord, hand'.id = hand.id,
           resident' \subseteq {hand.id},
           pc' \notin {"infer", "repair", "release", "judge", "judge_correct",
                       "judge_synchronize", "judge_release"} => resident' = {},
           \/ /\ pc \in Executing /\ pc' \in Executing
              /\ \A k \in Kind : hand'.results[k] \in {content[k], "none", hand'.id}
           \/ pc \in Judging /\ pc' \in Judging
    PROVE  IInv'
<1>1. /\ UNCHANGED <<inputs, content, stage, executions, evaluation, stages, output, cause>>
      /\ UNCHANGED <<role, group, before, Successful, SuccessfulIds>>
  BY DEF InHand, reportVars, role, group, before, Successful, SuccessfulIds
<1>2. pc \in InStage /\ pc' \in InStage
  BY DEF InStage
<1>3. TypeOK'
  <2>1. pc' \in Steps
    BY <1>2 DEF InStage, Executing, Judging, Steps
  <2>2. resident' \in SUBSET (Sources \cup Judges)
    BY HandNamed
  <2> QED
    BY <1>1, <2>1, <2>2 DEF IInv, TypeOK
<1>4. Progress'
  <2>1. cause = "none" /\ pc' \notin {"preflight", "finish", "finalize", "returned"}
    BY <1>2 DEF IInv, Progress, InStage, Executing, Judging
  <2> QED
    BY <1>1, <1>2, <2>1 DEF IInv, Progress
<1>5. InTurn'
  BY <1>1, <1>2 DEF IInv, InTurn, Private, InStage, Executing, Judging
<1>6. Selects'
  BY <1>1, <1>2 DEF IInv, Selects, Executing, Judging
<1>7. GPU'
  BY <1>1 DEF GPU
<1> QED
  BY <1>3, <1>4, <1>5, <1>6, <1>7 DEF IInv

\* No model is on the GPU at the steps where none is used.
LEMMA FreeGPU ==
    ASSUME IInv, pc \in InStage \cup {"preflight", "finish"}
    PROVE  /\ cause = "none" /\ resident \subseteq {hand.id}
           /\ pc \in {"preflight", "load", "consensus", "judge_load", "judge_record",
                      "settle", "finish"} => resident = {}
  BY DEF IInv, GPU, Progress, InStage, Executing, Judging

\* Loading a model, or failing to.
LEMMA LoadKeeps == ASSUME IInv, Load PROVE IInv'
<1>1. pc \in Executing /\ pc' \in Executing /\ hand \in HandRecord
  BY DEF Load, Executing, IInv, TypeOK
<1>2. hand' \in HandRecord /\ hand'.id = hand.id /\ hand'.results = hand.results
  BY <1>1 DEF Load, Fails, HandRecord, Errors
<1>3. resident' \subseteq {hand.id} /\ pc' \in {"infer", "release"}
  BY FreeGPU DEF Load, InStage, Executing
<1>4. \A k \in Kind : hand'.results[k] \in {content[k], "none", hand'.id}
  BY <1>1, <1>2 DEF IInv, InTurn, Private
<1> QED
  BY <1>1, <1>2, <1>3, <1>4, HeldKeeps DEF Load

\* What an inference leaves in hand.
LEMMA InferredType ==
    ASSUME IInv, pc \in {"infer", "repair"},
           Inferred \/ \E error \in Errors : Failed(error)
    PROVE  /\ hand' \in HandRecord /\ hand'.id = hand.id
           /\ \A k \in Kind : hand'.results[k] \in {content[k], "none", hand'.id}
<1>1. /\ hand \in HandRecord /\ content \in Content /\ hand.id \in Sources
      /\ \A k \in Kind : hand.results[k] \in {content[k], "none", hand.id}
  <2>1. pc \in Executing /\ pc \in InStage
    BY DEF Executing, InStage
  <2>2. hand \in HandRecord /\ content \in Content
    BY DEF IInv, TypeOK
  <2>3. \A k \in Kind : hand.results[k] \in {content[k], "none", hand.id}
    BY <2>1 DEF IInv, InTurn, Private
  <2>4. hand.id \in Sources
    <3>1. /\ hand.id = group.candidates[Len(executions) + 1]
          /\ Len(executions) \in Nat /\ Len(executions) < Len(group.candidates)
      BY <2>1 DEF IInv, InTurn, TypeOK
    <3>2. group.candidates \in Seq(STRING)
      BY <2>1, InHandFacts DEF GroupRecord
    <3>3. Len(executions) + 1 \in DOMAIN group.candidates
      BY <3>1, <3>2
    <3> QED
      BY <2>1, <3>1, <3>3, InHandFacts, Registered
  <2> QED
    BY <2>2, <2>3, <2>4
<1>2. \A status \in {"succeeded", "failed"} : Tried(status) \in Seq({"succeeded", "failed"})
  BY <1>1 DEF Tried, HandRecord
<1>3. CASE Inferred
  <2>1. PICK results \in Patched(hand.id) :
          hand' = [hand EXCEPT !.status = "succeeded", !.results = results,
                               !.attempts = Tried("succeeded"), !.repaired = pc = "repair"]
    BY <1>3 DEF Inferred
  <2>2. results \in Content
    <3>1. \A k \in Kind : content[k] \in Sources \cup {"none", "input"}
      BY <1>1 DEF Content
    <3>2. {content[k] : k \in Kind} \subseteq Sources \cup {"none", "input"}
      BY <3>1
    <3>3. results \in [Kind -> {hand.id, "none"} \cup {content[k] : k \in Kind}]
      BY DEF Patched
    <3> QED
      BY <1>1, <3>2, <3>3 DEF Content
  <2>3. \A k \in Kind : results[k] \in {content[k], "none", hand.id}
    BY DEF Patched
  <2>4. (pc = "repair") \in BOOLEAN
    OBVIOUS
  <2>5. hand' \in HandRecord
    BY <1>1, <1>2, <2>1, <2>2, <2>4 DEF HandRecord, RunStatus
  <2>6. hand'.id = hand.id /\ hand'.results = results
    BY <1>1, <2>1 DEF HandRecord
  <2> QED
    BY <2>3, <2>5, <2>6
<1>4. CASE \E error \in Errors : Failed(error)
  <2>1. PICK error \in Errors : Failed(error)
    BY <1>4
  <2>2. hand' \in HandRecord
    BY <1>1, <1>2, <2>1 DEF Failed, HandRecord
  <2>3. hand'.id = hand.id /\ hand'.results = hand.results
    BY <1>1, <2>1 DEF Failed, HandRecord
  <2> QED
    BY <1>1, <2>2, <2>3
<1> QED
  BY <1>3, <1>4

\* An inference and its correction.
LEMMA InferKeeps == ASSUME IInv, Infer \/ Repair PROVE IInv'
<1>1. /\ pc \in {"infer", "repair"} /\ pc' \in {"repair", "release"}
      /\ Inferred \/ \E error \in Errors : Failed(error)
      /\ resident' = resident
  BY DEF Infer, Repair, Errors
<1>2. resident \subseteq {hand.id}
  BY DEF IInv, GPU
<1> QED
  BY <1>1, <1>2, InferredType, HeldKeeps DEF Infer, Repair, Executing

\* The steps of the judge up to its record.
LEMMA JudgingKeeps ==
    ASSUME IInv, JudgeLoad \/ Judge \/ JudgeCorrect \/ JudgeSynchronize \/ JudgeRelease
    PROVE  IInv'
<1>1. pc \in Judging /\ pc' \in Judging /\ hand \in HandRecord /\ InHand
  BY DEF JudgeLoad, Judge, JudgeCorrect, JudgeSynchronize, JudgeRelease, Judging, IInv, TypeOK
<1>2. hand' \in HandRecord /\ hand'.id = hand.id
  <2>1. \/ UNCHANGED hand
        \/ \E error \in Errors : Fails(error)
        \/ \E repaired \in BOOLEAN : Decided(repaired)
        \/ hand' = [hand EXCEPT !.status = "succeeded"]
    BY DEF JudgeLoad, Judge, JudgeCorrect, JudgeSynchronize, JudgeRelease, Errors
  <2>2. CASE UNCHANGED hand
    BY <1>1, <2>2
  <2>3. CASE \E error \in Errors : Fails(error)
    BY <1>1, <2>3 DEF Fails, HandRecord
  <2>4. CASE \E repaired \in BOOLEAN : Decided(repaired)
    <3>1. PICK repaired \in BOOLEAN, v \in Verdict :
            hand' = [hand EXCEPT !.answered = TRUE, !.verdict = v, !.repaired = repaired]
      BY <2>4 DEF Decided
    <3>2. SuccessfulIds \subseteq Sources
      BY <1>1, InHandFacts DEF InStage
    <3>3. v \in [selected : Seen, confident : BOOLEAN]
      BY <3>2 DEF Verdict, Seen
    <3> QED
      BY <1>1, <3>1, <3>3 DEF HandRecord
  <2>5. CASE hand' = [hand EXCEPT !.status = "succeeded"]
    BY <1>1, <2>5 DEF HandRecord, RunStatus
  <2> QED
    BY <2>1, <2>2, <2>3, <2>4, <2>5
<1>3. resident' \subseteq {hand.id}
  BY <1>1, FreeGPU DEF JudgeLoad, Judge, JudgeCorrect, JudgeSynchronize, JudgeRelease, InStage
<1>4. pc' \notin {"infer", "repair", "release", "judge", "judge_correct",
                  "judge_synchronize", "judge_release"} => resident' = {}
  BY <1>1, FreeGPU DEF JudgeLoad, Judge, JudgeCorrect, JudgeSynchronize, JudgeRelease, InStage
<1> QED
  BY <1>1, <1>2, <1>3, <1>4, HeldKeeps
-----------------------------------------------------------------------------
(* The steps between the models of a stage.                                *)

\* A stage that passes its gate starts with its first candidate.
LEMMA StartStageKeeps == ASSUME IInv, StartStage PROVE IInv'
<1>1. /\ pc = "preflight" /\ pc' = "load" /\ group # NoGroup
      /\ hand' = Hand(group.candidates[1])
      /\ UNCHANGED <<inputs, content, stage, executions, evaluation, resident, stages, output, cause>>
      /\ UNCHANGED <<role, group, before, Successful, SuccessfulIds>>
  BY DEF StartStage, reportVars, role, group, before, Successful, SuccessfulIds
<1>2. executions = <<>> /\ role \in Role /\ group = Group[role]
  BY <1>1, Order DEF IInv, InTurn, Progress, role, group
<1>3. /\ group.candidates \in Seq(STRING) /\ Len(group.candidates) \in Nat \ {0}
      /\ group.candidates[1] \in Sources
  <2>1. group \in GroupRecord /\ Len(group.candidates) \in Nat \ {0}
        /\ \A i \in DOMAIN group.candidates : group.candidates[i] \in Sources
    BY <1>1, <1>2, Registered
  <2>2. group.candidates \in Seq(STRING)
    BY <2>1 DEF GroupRecord
  <2> QED
    BY <2>1, <2>2
<1>4. content \in Content
  BY DEF IInv, TypeOK
<1>5. /\ hand' \in HandRecord /\ hand'.id = group.candidates[1] /\ hand'.results = content
  BY <1>1, <1>3, <1>4, HandType
<1>6. TypeOK'
  BY <1>1, <1>5 DEF IInv, TypeOK, Steps
<1>7. Progress'
  <2>1. _missing_requirements(Contract[role], before) = {}
    BY PassMeansFulfilled DEF StartStage
  <2> QED
    BY <1>1, <2>1 DEF IInv, Progress, InStage, Executing, Judging
<1>8. InTurn'
  <2>1. Len(executions) = 0 /\ DOMAIN executions = {}
    BY <1>2
  <2> QED
    BY <1>1, <1>3, <1>5, <2>1 DEF InTurn, Private, InStage, Executing, Judging
<1>9. Selects'
  BY <1>1 DEF IInv, Selects, Judging
<1>10. GPU'
  BY <1>1, FreeGPU DEF GPU
<1> QED
  BY <1>6, <1>7, <1>8, <1>9, <1>10 DEF IInv

\* A candidate is released and the next one, or the consensus, follows.
LEMMA ReleaseKeeps == ASSUME IInv, Release PROVE IInv'
<1> DEFINE last == CascadeStops \/ Len(executions) + 1 = Len(group.candidates)
<1>1. /\ pc = "release" /\ pc \in InStage /\ pc \in Executing
      /\ executions' = Append(executions, hand) /\ resident' = resident \ {hand.id}
      /\ UNCHANGED <<inputs, content, stage, evaluation, stages, output, cause>>
      /\ UNCHANGED <<role, group, before>>
  BY DEF Release, role, group, before, InStage, Executing
<1>2. \/ last /\ hand' = NoHand /\ pc' = "consensus"
      \/ ~last /\ hand' = Hand(group.candidates[Len(executions) + 2]) /\ pc' = "load"
  BY DEF Release
<1> HIDE DEF last
<1>3. /\ executions \in Seq(HandRecord) /\ hand \in HandRecord /\ content \in Content
      /\ Len(executions) \in Nat /\ Len(executions) < Len(group.candidates)
      /\ hand.id = group.candidates[Len(executions) + 1] /\ Private(hand)
      /\ \A i \in DOMAIN executions :
            executions[i].id = group.candidates[i] /\ Private(executions[i])
  BY <1>1 DEF IInv, TypeOK, InTurn
<1>4. /\ group.candidates \in Seq(STRING)
      /\ \A i \in DOMAIN group.candidates : group.candidates[i] \in Sources
  BY <1>1, InHandFacts, Registered DEF GroupRecord
<1>5. /\ executions' \in Seq(HandRecord) /\ Len(executions') = Len(executions) + 1
      /\ \A i \in DOMAIN executions' :
            executions'[i] = IF i = Len(executions') THEN hand ELSE executions[i]
  BY <1>1, <1>3
<1>6. \A i \in DOMAIN executions' : executions'[i].id = group.candidates[i] /\ Private(executions'[i])
  BY <1>3, <1>5
<1>7. CASE last /\ hand' = NoHand /\ pc' = "consensus"
  <2>1. TypeOK'
    BY <1>1, <1>5, <1>7, NoHandType, FreeGPU DEF IInv, TypeOK, Steps
  <2>2. Progress'
    BY <1>1, <1>7 DEF IInv, Progress, InStage, Executing, Judging
  <2>3. InTurn'
    BY <1>1, <1>3, <1>5, <1>6, <1>7 DEF InTurn, Private, InStage, Executing, Judging
  <2>4. Selects'
    BY <1>1, <1>7 DEF IInv, Selects, Judging
  <2>5. GPU'
    BY <1>1, FreeGPU DEF GPU
  <2> QED
    BY <2>1, <2>2, <2>3, <2>4, <2>5 DEF IInv
<1>8. CASE /\ ~last /\ pc' = "load"
           /\ hand' = Hand(group.candidates[Len(executions) + 2])
  <2>1. Len(executions) + 2 \in DOMAIN group.candidates
    BY <1>3, <1>4, <1>8 DEF last
  <2>2. /\ hand' \in HandRecord /\ hand'.results = content
        /\ hand'.id = group.candidates[Len(executions) + 2]
    BY <1>3, <1>4, <1>8, <2>1, HandType
  <2>3. TypeOK'
    BY <1>1, <1>5, <1>8, <2>2, FreeGPU DEF IInv, TypeOK, Steps
  <2>4. Progress'
    BY <1>1, <1>8 DEF IInv, Progress, InStage, Executing, Judging
  <2>5. InTurn'
    BY <1>1, <1>3, <1>4, <1>5, <1>6, <1>8, <2>1, <2>2
    DEF InTurn, Private, InStage, Executing, Judging
  <2>6. Selects'
    BY <1>1, <1>8 DEF IInv, Selects, Judging
  <2>7. GPU'
    BY <1>1, FreeGPU DEF GPU
  <2> QED
    BY <2>3, <2>4, <2>5, <2>6, <2>7 DEF IInv
<1> QED
  BY <1>2, <1>7, <1>8

\* The consensus of the finished candidates.
LEMMA EvaluateKeeps == ASSUME IInv, Evaluate PROVE IInv'
<1>1. /\ pc = "consensus" /\ pc \in InStage
      /\ UNCHANGED <<inputs, content, stage, executions, resident, stages, output, cause>>
      /\ UNCHANGED <<role, group, before, Successful, SuccessfulIds>>
  BY DEF Evaluate, reportVars, role, group, before, Successful, SuccessfulIds, InStage
<1>2. PICK e \in evaluate_consensus(role, group, inputs, executions, Successful) :
        /\ evaluation' = e
        /\ IF e.requiresAdjudication
           THEN pc' = "judge_load" /\ hand' = Hand(group.judge)
           ELSE pc' = "settle" /\ UNCHANGED hand
  BY DEF Evaluate
<1>3. Sound(e, SuccessfulIds) /\ (e.requiresAdjudication => group.judge # "none")
  BY <1>1, EvaluateSound
<1>4. content \in Content /\ hand \in HandRecord
  BY DEF IInv, TypeOK
<1>5. \/ pc' = "settle" /\ UNCHANGED hand
      \/ /\ pc' = "judge_load" /\ hand' \in HandRecord /\ hand'.id = group.judge
         /\ group.judge # "none"
  BY <1>1, <1>2, <1>3, <1>4, InHandFacts, Registered, HandType
<1>6. TypeOK'
  BY <1>1, <1>2, <1>3, <1>4, <1>5 DEF IInv, TypeOK, Sound, Steps
<1>7. Progress'
  BY <1>1, <1>5 DEF IInv, Progress, InStage, Judging
<1>8. InTurn'
  BY <1>1, <1>5 DEF IInv, InTurn, Private, InStage, Executing, Judging
<1>9. Selects'
  BY <1>1, <1>2, <1>3 DEF Selects, Sound
<1>10. GPU'
  BY <1>1, FreeGPU DEF GPU
<1> QED
  BY <1>6, <1>7, <1>8, <1>9, <1>10 DEF IInv

\* What the judge decides, if it answered at all, is sound, and no consensus
\* of the candidates.
LEMMA JudgedSound ==
    ASSUME IInv, JudgeRecord
    PROVE  Sound(evaluation', SuccessfulIds) /\ evaluation'.decision \notin {"pass", "repair"}
<1>1. pc = "judge_record" /\ pc \in InStage
  BY DEF JudgeRecord, Judging, InStage
<1>2. CASE hand.answered
  BY <1>1, <1>2, AdjudicateSound DEF JudgeRecord
<1>3. CASE ~hand.answered
  <2>1. group.onDisagreement \in {"abstain", "human_review"}
    BY <1>1, InHandFacts DEF GroupRecord
  <2>2. evaluation' = Evaluation(group.onDisagreement, "none", "adjudicator_failed", FALSE)
    BY <1>3 DEF JudgeRecord
  <2> QED
    BY <2>1, <2>2, BlockedSound DEF ConsensusReason, Evaluation
<1> QED
  BY <1>2, <1>3

\* The record of the judge and what its verdict decides.
LEMMA JudgeRecordKeeps == ASSUME IInv, JudgeRecord PROVE IInv'
<1>1. /\ pc = "judge_record" /\ pc \in Judging /\ pc \in InStage /\ pc' = "settle"
      /\ UNCHANGED <<inputs, content, stage, hand, executions, resident, stages, output, cause>>
      /\ UNCHANGED <<role, group, before, Successful, SuccessfulIds>>
  BY DEF JudgeRecord, role, group, before, Successful, SuccessfulIds, Judging, InStage
<1>2. Sound(evaluation', SuccessfulIds)
  BY JudgedSound
<1>3. TypeOK'
  BY <1>1, <1>2 DEF IInv, TypeOK, Sound, Steps
<1>4. Progress'
  BY <1>1 DEF IInv, Progress, InStage, Judging
<1>5. InTurn'
  BY <1>1 DEF IInv, InTurn, Private, InStage, Executing, Judging
<1>6. Selects'
  BY <1>1, <1>2 DEF Selects, Sound
<1>7. GPU'
  BY <1>1, FreeGPU DEF GPU
<1> QED
  BY <1>3, <1>4, <1>5, <1>6, <1>7 DEF IInv
-----------------------------------------------------------------------------
(* The end of a stage, of a session, and of an aborted session.            *)

\* What a step that settles a stage has to respect.
LEMMA SettleKeeps ==
    ASSUME IInv, pc \in {"preflight", "settle"},
           NEW record \in StageRecord, record.role = role, SettleStage(record),
           content' \in Content, UNCHANGED <<inputs, resident, output, cause>>
    PROVE  IInv'
<1>1. /\ stage \in 1 .. 4 /\ cause = "none" /\ resident = {} /\ Len(stages) = stage - 1
      /\ stages \in Seq(StageRecord) /\ \A i \in DOMAIN stages : stages[i].role = RoleOrder[i]
  BY FreeGPU, Order DEF IInv, TypeOK, Progress, InStage
<1>2. /\ stages' = Append(stages, record) /\ stage' = stage + 1
      /\ pc' = IF stage = 4 THEN "finish" ELSE "preflight"
      /\ hand' = NoHand /\ executions' = <<>> /\ evaluation' = NoEvaluation
  BY Order DEF SettleStage
<1>3. evaluation' \in EvaluationRecord /\ evaluation'.selected = "none"
      /\ evaluation'.downstreamAllowed = FALSE
  BY <1>2, Reasons DEF NoEvaluation, Evaluation, EvaluationRecord, Seen, Errors
<1>4. stages' \in Seq(StageRecord) /\ Len(stages') = stage
  BY <1>1, <1>2
<1>5. TypeOK'
  BY <1>1, <1>2, <1>3, <1>4, NoHandType, Order DEF IInv, TypeOK, Steps
<1>6. \A i \in DOMAIN stages' : stages'[i].role = RoleOrder[i]
  BY <1>1, <1>2 DEF role
<1>7. Progress'
  BY <1>1, <1>2, <1>4, <1>6, Order DEF Progress, InStage, Executing, Judging
<1>8. InTurn'
  BY <1>2 DEF InTurn, InStage, Executing, Judging
<1>9. Selects'
  BY <1>2, <1>3 DEF Selects, Judging
<1>10. GPU'
  BY <1>1 DEF GPU
<1> QED
  BY <1>5, <1>7, <1>8, <1>9, <1>10 DEF IInv

\* A skipped stage leaves a stage record.
LEMMA SkippedType ==
    ASSUME NEW pre \in GateRecord, NEW post \in GateRecord, NEW error \in Reason, role \in Role
    PROVE  /\ Skipped(pre, post, error) \in StageRecord
           /\ Skipped(pre, post, error).role = role
           /\ Skipped(pre, post, error).status = "skipped"
  BY DEF Skipped, StageRecord, RunStatus, Seen

\* A stage is skipped, and nothing but the records changes.
LEMMA SkipFacts ==
    ASSUME IInv, SkipStage \/ SkipUnconfigured
    PROVE  /\ pc = "preflight" /\ role \in Role /\ content' \in Content
           /\ UNCHANGED <<inputs, content, resident, output, cause>>
           /\ \E record \in StageRecord :
                record.role = role /\ record.status = "skipped" /\ SettleStage(record)
<1>1. /\ pc = "preflight" /\ role \in Role /\ content' \in Content
      /\ UNCHANGED <<inputs, content, resident, output, cause>>
  BY Order DEF SkipStage, SkipUnconfigured, IInv, TypeOK, Progress, role
<1>2. \E record \in StageRecord :
        record.role = role /\ record.status = "skipped" /\ SettleStage(record)
  <2> DEFINE pre == preflight(role, before, BatchItems)
  <2>1. pre \in GateRecord
    BY <1>1, PreflightType
  <2> HIDE DEF pre
  <2>2. CASE SkipStage
    <3> DEFINE error == IF pre.decision = "not_applicable" THEN "none" ELSE pre.reason
    <3>1. error \in Reason
      BY <2>1, Reasons DEF GateRecord, Errors
    <3>2. NoGate \in GateRecord
      BY Reasons DEF NoGate, Gate, GateRecord, Errors
    <3>3. SettleStage(Skipped(pre, NoGate, error))
      BY <2>2 DEF SkipStage, pre
    <3> HIDE DEF error
    <3> QED
      BY <1>1, <2>1, <3>1, <3>2, <3>3, SkippedType
  <2>3. CASE SkipUnconfigured
    <3> DEFINE error == IF role = "fire_detection" THEN "checkpoint_not_configured"
                                                   ELSE "model_not_configured"
               post == postflight(role, before, before, "skipped", error, "none")
    <3>1. error \in Reason
      BY Reasons DEF GateReason
    <3>2. SettleStage(Skipped(pre, post, error))
      BY <2>3 DEF SkipUnconfigured, pre
    <3> HIDE DEF error
    <3>3. post \in GateRecord
      BY <1>1, <3>1, PostflightType
    <3> HIDE DEF post
    <3> QED
      BY <1>1, <2>1, <3>1, <3>2, <3>3, SkippedType
  <2> QED
    BY <2>2, <2>3
<1> QED
  BY <1>1, <1>2

\* A stage that is skipped, by its gate or for lack of a model.
LEMMA SkipStageKeeps == ASSUME IInv, SkipStage \/ SkipUnconfigured PROVE IInv'
  BY SkipFacts, SettleKeeps

\* The execution that stands for a stage about to be settled: the selected one,
\* if its results are accepted.
LEMMA Chosen ==
    ASSUME IInv, pc = "settle",
           NEW chosen,
           chosen = executions[IF evaluation.downstreamAllowed
                               THEN CHOOSE i \in DOMAIN executions :
                                       executions[i].id = evaluation.selected
                               ELSE 1]
    PROVE  /\ chosen \in HandRecord /\ chosen.id \in Sources /\ chosen.id \in Candidates(role)
           /\ \A k \in Kind : chosen.results[k] \in {content[k], "none", chosen.id}
<1>1. pc \in InStage
  BY DEF InStage
<1>2. /\ executions \in Seq(HandRecord) /\ Len(executions) > 0
      /\ \A i \in DOMAIN executions :
            /\ executions[i].id \in Sources /\ executions[i].id \in Candidates(role)
            /\ Private(executions[i])
  <2>1. /\ executions \in Seq(HandRecord) /\ Len(executions) > 0
        /\ Len(executions) <= Len(group.candidates)
        /\ \A i \in DOMAIN executions :
              executions[i].id = group.candidates[i] /\ Private(executions[i])
    BY <1>1 DEF IInv, TypeOK, InTurn, InStage, Executing
  <2>2. /\ group.candidates \in Seq(STRING) /\ group = Group[role]
        /\ \A i \in DOMAIN group.candidates : group.candidates[i] \in Sources
    BY <1>1, InHandFacts, Registered DEF GroupRecord
  <2>3. \A i \in DOMAIN executions : i \in DOMAIN group.candidates
    BY <2>1, <2>2
  <2> QED
    BY <2>1, <2>2, <2>3 DEF Candidates
<1>3. \E i \in DOMAIN executions : chosen = executions[i]
  <2>1. CASE evaluation.downstreamAllowed
    <3>1. evaluation.selected \in SuccessfulIds
      BY <2>1 DEF IInv, Selects
    <3>2. \E i \in DOMAIN executions : executions[i].id = evaluation.selected
      BY <3>1 DEF SuccessfulIds, Successful
    <3> QED
      BY <2>1, <3>2
  <2>2. CASE ~evaluation.downstreamAllowed
    BY <1>2, <2>2
  <2> QED
    BY <2>1, <2>2
<1> QED
  BY <1>2, <1>3 DEF Private

\* The accepted results stay, or a success adds those of one candidate.
Advances(status) ==
    \/ content' = content
    \/ /\ status = "succeeded"
       /\ \E c \in Candidates(role) : \A k \in Kind : content'[k] \in {content[k], "none", c}

\* A stage is settled as a success or a failure; only a success changes the
\* accepted results, and what it adds comes from one candidate.
LEMMA SettleFacts ==
    ASSUME IInv, Settle
    PROVE  /\ pc = "settle" /\ role \in Role /\ content' \in Content
           /\ UNCHANGED <<inputs, resident, output, cause>>
           /\ \E record \in StageRecord :
                /\ record.role = role /\ SettleStage(record)
                /\ record.status \in {"succeeded", "failed"}
                /\ Advances(record.status)
<1> DEFINE accepted == evaluation.downstreamAllowed
           chosen == executions[IF evaluation.downstreamAllowed
                                THEN CHOOSE i \in DOMAIN executions :
                                        executions[i].id = evaluation.selected
                                ELSE 1]
           results == IF accepted THEN chosen.results ELSE content
           error == CASE accepted -> "none"
                      [] ~accepted /\ Successful = {} -> chosen.error
                      [] OTHER -> evaluation.reason
           status == IF accepted THEN "succeeded" ELSE "failed"
           pre == preflight(role, before, BatchItems)
           post(exceeded) == postflight(role, before, derive_capabilities(inputs, results),
                                        status, error, exceeded)
           record(exceeded) ==
             [role |-> role, status |-> status,
              run |-> [status |-> IF Successful = {} THEN chosen.status ELSE status,
                       model |-> chosen.id, error |-> error],
              pre |-> pre, post |-> post(exceeded),
              retryable |-> post(exceeded).decision = "failed_retryable",
              attempts |-> IF accepted \/ Successful = {} THEN chosen.attempts ELSE <<>>]
<1>1. /\ pc = "settle" /\ content' = results /\ role \in Role /\ content \in Content
      /\ evaluation \in EvaluationRecord
      /\ UNCHANGED <<inputs, resident, output, cause>>
  BY Order DEF Settle, IInv, TypeOK, Progress, InStage, role
<1>2. PICK exceeded \in {"none", "wall_time", "output"} : SettleStage(record(exceeded))
  BY DEF Settle
<1>3. /\ chosen \in HandRecord /\ chosen.id \in Sources /\ chosen.id \in Candidates(role)
      /\ \A k \in Kind : chosen.results[k] \in {content[k], "none", chosen.id}
  BY <1>1, Chosen
<1> HIDE DEF chosen
<1>4. error \in Reason
  BY <1>1, <1>3, Reasons DEF HandRecord, EvaluationRecord, Errors
<1>5. results \in Content
  BY <1>1, <1>3 DEF HandRecord
<1> HIDE DEF error
<1>6. pre \in GateRecord /\ post(exceeded) \in GateRecord
  BY <1>1, <1>4, PreflightType, PostflightType
<1>7. (post(exceeded).decision = "failed_retryable") \in BOOLEAN
  OBVIOUS
<1>8. Advances(status)
  BY <1>1, <1>3 DEF Advances
<1>9. status \in {"succeeded", "failed"} /\ record(exceeded).status = status
      /\ record(exceeded).role = role
  OBVIOUS
<1> HIDE DEF pre, post, results
<1>10. record(exceeded) \in StageRecord
  <2>1. (IF accepted \/ Successful = {} THEN chosen.attempts ELSE <<>>)
          \in Seq({"succeeded", "failed"})
    BY <1>3 DEF HandRecord
  <2>2. [status |-> IF Successful = {} THEN chosen.status ELSE status,
         model |-> chosen.id, error |-> error]
          \in [status : RunStatus, model : Seen, error : Reason]
    BY <1>3, <1>4 DEF HandRecord, RunStatus, Seen
  <2> QED
    BY <1>1, <1>6, <1>7, <2>1, <2>2 DEF StageRecord, RunStatus
<1> HIDE DEF record
<1> QED
  BY <1>1, <1>2, <1>5, <1>8, <1>9, <1>10

\* A stage is settled with its gate and its trace.
LEMMA SettleStepKeeps == ASSUME IInv, Settle PROVE IInv'
  BY SettleFacts, SettleKeeps

\* An exception that leaves the session.
LEMMA AbortKeeps == ASSUME IInv, CreateFails \/ ReleaseFails \/ JudgeRecordRefused PROVE IInv'
<1>1. /\ pc \in InStage /\ pc' = "finalize" /\ cause' \in {"create", "release", "judge_record"}
      /\ resident' \subseteq resident
      /\ UNCHANGED <<inputs, content, stage, hand, executions, evaluation, stages, output>>
  BY DEF CreateFails, ReleaseFails, JudgeRecordRefused, stageVars, reportVars, InStage, Executing, Judging
<1>2. TypeOK' /\ Progress'
  BY <1>1 DEF IInv, TypeOK, Progress, Steps, InStage, Executing, Judging
<1>3. InTurn' /\ Selects' /\ GPU'
  BY <1>1 DEF IInv, InTurn, Selects, GPU, InStage, Executing, Judging
<1> QED
  BY <1>2, <1>3 DEF IInv

\* The output is made and the memory finalised.
LEMMA EndKeeps == ASSUME IInv, Finish \/ Finalize PROVE IInv'
<1>1. /\ \/ pc = "finish" /\ pc' = "finalize" /\ UNCHANGED cause
         \/ pc = "finalize" /\ pc' = "raised" /\ cause' \in {cause, "finalize"}
         \/ pc = "finalize" /\ pc' = "returned" /\ cause = "none" /\ UNCHANGED cause
      /\ UNCHANGED <<inputs, content, stage, hand, executions, evaluation, stages, resident>>
  BY DEF Finish, Finalize, stageVars, reportVars
<1>2. output' \in [status : {"none", "succeeded", "partial_failure", "failed"},
                   retryable : BOOLEAN]
  <2>1. CASE Finalize
    BY <2>1 DEF Finalize, IInv, TypeOK
  <2>2. CASE Finish
    <3>1. PICK st \in {"succeeded", "partial_failure", "failed"} :
            output' = [status |-> st,
                       retryable |-> \E g \in Gates : g.decision = "failed_retryable"]
      BY <2>2 DEF Finish
    <3>2. (\E g \in Gates : g.decision = "failed_retryable") \in BOOLEAN
      OBVIOUS
    <3> QED
      BY <3>1, <3>2
  <2> QED
    BY <2>1, <2>2
<1>3. TypeOK'
  BY <1>1, <1>2 DEF IInv, TypeOK, Steps
<1>4. Progress'
  BY <1>1 DEF IInv, Progress, InStage, Executing, Judging
<1>5. InTurn' /\ Selects' /\ GPU'
  BY <1>1, FreeGPU DEF IInv, InTurn, Selects, GPU, InStage, Executing, Judging
<1> QED
  BY <1>3, <1>4, <1>5 DEF IInv
-----------------------------------------------------------------------------
(* The theorems.                                                           *)

\* A session starts in the invariant.
LEMMA InitHolds == ASSUME Init PROVE IInv
<1>1. content \in Content
  BY DEF Init, InitialContent, Content
<1>2. evaluation \in EvaluationRecord /\ evaluation.selected = "none"
      /\ evaluation.downstreamAllowed = FALSE
  BY Reasons DEF Init, NoEvaluation, Evaluation, EvaluationRecord, Seen, Errors
<1>3. TypeOK
  BY <1>1, <1>2, NoHandType, Order DEF Init, TypeOK, Steps, NoOutput
<1>4. Progress
  BY Order DEF Init, Progress, InStage, Executing, Judging
<1>5. InTurn /\ Selects /\ GPU
  BY <1>2 DEF Init, InTurn, Selects, GPU, InStage, Executing, Judging
<1> QED
  BY <1>3, <1>4, <1>5 DEF IInv

\* Nothing changes.
LEMMA StutterKeeps == ASSUME IInv, UNCHANGED vars PROVE IInv'
<1>1. /\ UNCHANGED <<inputs, content, stage, pc, hand, executions, evaluation, resident,
                     stages, output, cause>>
      /\ UNCHANGED <<role, group, before, Successful, SuccessfulIds>>
  BY DEF vars, stageVars, reportVars, role, group, before, Successful, SuccessfulIds
<1>2. TypeOK' /\ Progress'
  BY <1>1 DEF IInv, TypeOK, Progress
<1>3. InTurn' /\ Selects' /\ GPU'
  BY <1>1 DEF IInv, InTurn, Private, Selects, GPU
<1> QED
  BY <1>2, <1>3 DEF IInv

\* The inductive invariant: where the session is, whose turn it is, what the
\* consensus selected and what is on the GPU, with the types.
THEOREM Invariance == Spec => []IInv
<1>1. Init => IInv
  BY InitHolds
<1>2. IInv /\ [Next]_vars => IInv'
  BY SkipStageKeeps, StartStageKeeps, LoadKeeps, InferKeeps, ReleaseKeeps, EvaluateKeeps,
     JudgingKeeps, JudgeRecordKeeps, AbortKeeps, SettleStepKeeps, EndKeeps, StutterKeeps
  DEF Next, Ended
<1> QED
  BY <1>1, <1>2, PTL DEF Spec

\* Types hold for every registry and every set of contracts.
THEOREM TypeCorrect == Spec => []TypeOK
<1>1. IInv => TypeOK
  BY DEF IInv
<1> QED
  BY <1>1, Invariance, PTL

\* "The explicit release boundary between two GPU model families"
\* (MemoryManager.release): never two models are on the GPU at a time.
THEOREM GpuIsExclusive == Spec => []OneModelAtATime
<1>1. IInv => OneModelAtATime
  <2> SUFFICES ASSUME IInv PROVE OneModelAtATime
    OBVIOUS
  <2>1. resident = {} \/ resident = {hand.id}
    BY DEF IInv, GPU
  <2>2. Cardinality(resident) <= 1
    <3>1. Cardinality({}) = 0 /\ Cardinality({hand.id}) = 1
      BY FS_EmptySet, FS_Singleton, Zenon
    <3>2. Cardinality(resident) \in {0, 1}
      BY <2>1, <3>1
    <3> QED
      BY <3>2
  <2> QED
    BY <2>1, <2>2 DEF OneModelAtATime, IInv, GPU
<1> QED
  BY <1>1, Invariance, PTL

\* The assertion of run_with_trace: whenever the consensus asks for a judge the
\* registry names one ("assert group.adjudicator is not None").
THEOREM JudgeExists == Spec => []JudgeIsConfigured
<1>1. IInv => JudgeIsConfigured
  <2> SUFFICES ASSUME IInv, pc \in {"judge_load", "judge", "judge_record"}
               PROVE  hand.id \in Judges
    BY DEF JudgeIsConfigured
  <2>1. pc \in Judging /\ pc \in InStage
    BY DEF Judging, InStage
  <2> QED
    BY <2>1, InHandFacts, Registered DEF IInv, InTurn
<1> QED
  BY <1>1, Invariance, PTL
-----------------------------------------------------------------------------
(* The refinement of StageSequence.                                        *)

Mapped == [i \in DOMAIN stages |-> [role |-> stages[i].role, status |-> stages[i].status]]
PhaseOf == IF pc \in {"returned", "raised"} THEN pc ELSE "running"

\* A step of the session that settles no stage and does not end it.
LEMMA Silent ==
    ASSUME UNCHANGED <<stages, content>>, PhaseOf' = PhaseOf
    PROVE  UNCHANGED Promise!vars
  BY DEF Promise!vars, PhaseOf

\* A step of the session that settles the next stage.
LEMMA Settles ==
    ASSUME IInv, IInv', pc \in {"preflight", "settle"}, NEW record \in StageRecord,
           record.role = role, SettleStage(record),
           Advances(record.status)
    PROVE  Promise!SettleNext(record.status)
<1>1. /\ stages \in Seq(StageRecord) /\ Len(stages) = stage - 1 /\ stage \in 1 .. 4
      /\ content \in Content /\ content' \in Content
  BY Order DEF IInv, TypeOK, Progress, InStage
<1>2. stages' = Append(stages, record) /\ PhaseOf = "running" /\ PhaseOf' = "running"
  BY DEF SettleStage, PhaseOf
<1>3. Len(Mapped) = stage - 1 /\ DOMAIN Mapped = 1 .. (stage - 1)
  BY <1>1 DEF Mapped
<1>4. Mapped' = Append(Mapped, [role |-> role, status |-> record.status])
  <2>1. Mapped' = [i \in 1 .. stage |->
                     [role |-> Append(stages, record)[i].role,
                      status |-> Append(stages, record)[i].status]]
    BY <1>1, <1>2 DEF Mapped
  <2>2. Append(Mapped, [role |-> role, status |-> record.status])
          = [i \in 1 .. stage |-> IF i = stage THEN [role |-> role, status |-> record.status]
                                  ELSE Mapped[i]]
    BY <1>1, <1>3
  <2>3. \A i \in 1 .. (stage - 1) :
           Mapped[i] = [role |-> stages[i].role, status |-> stages[i].status]
    BY <1>1 DEF Mapped
  <2>4. \A i \in 1 .. stage :
           Append(stages, record)[i] = IF i = stage THEN record ELSE stages[i]
    BY <1>1
  <2> QED
    BY <1>1, <2>1, <2>2, <2>3, <2>4
<1>5. DOMAIN content = Kind /\ content' \in [Kind -> Sources \cup {"none", "input"}]
  BY <1>1 DEF Content
<1>6. RoleOrder[Len(Mapped) + 1] = role
  BY <1>1, <1>3 DEF role
<1>7. Len(Mapped) < Len(RoleOrder)
  BY <1>1, <1>3, Order
<1> QED
  BY <1>2, <1>4, <1>5, <1>6, <1>7 DEF Promise!SettleNext, Advances, Mapped, PhaseOf

\* A session starts as StageSequence does.
LEMMA MapsInit == ASSUME Init PROVE Promise!Init
<1>1. content \in Content /\ DOMAIN stages = {} /\ PhaseOf = "running"
  BY DEF Init, InitialContent, Content, PhaseOf
<1>2. Mapped = <<>>
  BY <1>1 DEF Mapped
<1> QED
  BY <1>1, <1>2 DEF Promise!Init, Mapped, PhaseOf, Content

\* Every step of a session settles one stage, ends the session, or is none of StageSequence.
LEMMA MapsStep == ASSUME IInv, IInv', [Next]_vars PROVE [Promise!Next]_(Promise!vars)
<1>1. CASE SkipStage \/ SkipUnconfigured
  <2>1. /\ pc = "preflight" /\ UNCHANGED content
        /\ \E record \in StageRecord :
              record.role = role /\ record.status = "skipped" /\ SettleStage(record)
    BY <1>1, SkipFacts
  <2>2. Advances("skipped")
    BY <2>1 DEF Advances
  <2> QED
    BY <2>1, <2>2, Settles DEF Promise!Next
<1>2. CASE Settle
  BY <1>2, SettleFacts, Settles DEF Promise!Next
<1>3. CASE StartStage \/ CreateFails \/ Load \/ Infer \/ Repair \/ Release \/ ReleaseFails
  <2>1. UNCHANGED <<stages, content>> /\ PhaseOf' = PhaseOf
    BY <1>3 DEF StartStage, CreateFails, Load, Infer, Repair, Release, ReleaseFails, InHand, reportVars,
                PhaseOf
  <2> QED
    BY <2>1, Silent
<1>4. CASE \/ Evaluate \/ JudgeLoad \/ Judge \/ JudgeCorrect \/ JudgeSynchronize
           \/ JudgeRelease \/ JudgeRecordRefused \/ JudgeRecord \/ Finish
  <2>1. UNCHANGED <<stages, content>> /\ PhaseOf' = PhaseOf
    BY <1>4 DEF Evaluate, JudgeLoad, Judge, JudgeCorrect, JudgeSynchronize, JudgeRelease,
                JudgeRecordRefused, JudgeRecord, Finish, InHand, reportVars, PhaseOf
  <2> QED
    BY <2>1, Silent
<1>5. CASE Finalize
  <2>1. /\ pc = "finalize" /\ UNCHANGED <<stages, content>> /\ PhaseOf = "running"
        /\ \/ PhaseOf' = "raised"
           \/ PhaseOf' = "returned" /\ cause = "none"
    BY <1>5 DEF Finalize, reportVars, PhaseOf
  <2>2. UNCHANGED Mapped /\ Len(Mapped) = Len(stages)
    BY <2>1 DEF Mapped, IInv, TypeOK
  <2>3. cause = "none" => Len(stages) = Len(RoleOrder)
    BY <2>1, Order DEF IInv, Progress, TypeOK
  <2> QED
    BY <2>1, <2>2, <2>3 DEF Promise!Next, Promise!Return, Promise!Raise, Mapped, PhaseOf
<1>6. CASE Ended \/ UNCHANGED vars
  <2>1. UNCHANGED <<stages, content>> /\ PhaseOf' = PhaseOf
    BY <1>6 DEF Ended, vars, reportVars, PhaseOf
  <2> QED
    BY <2>1, Silent
<1> QED
  BY <1>1, <1>2, <1>3, <1>4, <1>5, <1>6 DEF Next

\* The session implements the promise: the stages settle in order, each once,
\* and only a stage that succeeded changes results, by those of one of its own
\* candidates, whatever kinds of result its adapters write.
THEOREM Implements == Spec => ImplementsPromise
<1>1. Init => Promise!Init
  BY MapsInit
<1>2. IInv /\ IInv' /\ [Next]_vars => [Promise!Next]_(Promise!vars)
  BY MapsStep
<1> QED
  BY <1>1, <1>2, Invariance, PTL DEF Spec, ImplementsPromise, Promise!Spec
-----------------------------------------------------------------------------
(* A session is finite.  That it ends if its models answer (SessionEnds) is *)
(* left to TLC; what can be proved of it, for every registry and batch, is  *)
(* that no step is ever repeated and that the consensus always decides.     *)

\* How far a stage is.
Position(step) ==
    CASE step = "preflight" -> 1          [] step = "load" -> 2
      [] step = "infer" -> 3              [] step = "repair" -> 4
      [] step = "release" -> 5            [] step = "consensus" -> 6
      [] step = "judge_load" -> 7         [] step = "judge" -> 8
      [] step = "judge_correct" -> 9      [] step = "judge_synchronize" -> 10
      [] step = "judge_release" -> 11     [] step = "judge_record" -> 12
      [] step = "settle" -> 13            [] step = "finish" -> 14
      [] step = "finalize" -> 15          [] OTHER -> 16

\* What is left to do: stages, candidates of the stage, steps of the candidate.
StagesLeft == Len(RoleOrder) + 1 - stage
CandidatesLeft == IF pc \in InStage \cup {"preflight"} /\ group # NoGroup
                  THEN Len(group.candidates) - Len(executions) ELSE 0
StepsLeft == 16 - Position(pc)

Nearer == \/ StagesLeft' < StagesLeft
          \/ StagesLeft' = StagesLeft /\ CandidatesLeft' < CandidatesLeft
          \/ UNCHANGED <<StagesLeft, CandidatesLeft>> /\ StepsLeft' < StepsLeft

LEMMA Positions ==
    /\ \A step \in Steps : Position(step) \in 1 .. 16
    /\ Position("preflight") = 1 /\ Position("load") = 2 /\ Position("infer") = 3
    /\ Position("repair") = 4 /\ Position("release") = 5 /\ Position("consensus") = 6
    /\ Position("judge_load") = 7 /\ Position("judge") = 8 /\ Position("judge_correct") = 9
    /\ Position("judge_synchronize") = 10 /\ Position("judge_release") = 11
    /\ Position("judge_record") = 12 /\ Position("settle") = 13 /\ Position("finish") = 14
    /\ Position("finalize") = 15 /\ Position("returned") = 16 /\ Position("raised") = 16
  BY DEF Position, Steps

\* There is never less than nothing left to do.
LEMMA SomethingLeft ==
    ASSUME IInv
    PROVE  StagesLeft \in Nat /\ CandidatesLeft \in Nat /\ StepsLeft \in Nat
<1>1. StagesLeft \in Nat
  BY Order DEF StagesLeft, IInv, TypeOK
<1>2. CandidatesLeft \in Nat
  <2> SUFFICES ASSUME pc \in InStage \cup {"preflight"}, group # NoGroup
               PROVE  Len(group.candidates) - Len(executions) \in Nat
    BY DEF CandidatesLeft
  <2>1. role \in Role /\ group = Group[role]
    BY Order DEF IInv, Progress, role, group
  <2>2. Len(group.candidates) \in Nat
    BY <2>1, Registered
  <2>3. Len(executions) \in Nat
    BY DEF IInv, TypeOK
  <2>4. pc = "preflight" => Len(executions) = 0
    BY DEF IInv, InTurn
  <2>5. pc \in InStage => Len(executions) <= Len(group.candidates)
    BY DEF IInv, InTurn
  <2> QED
    BY <2>2, <2>3, <2>4, <2>5
<1>3. StepsLeft \in Nat
  <2>1. pc \in Steps
    BY DEF IInv, TypeOK
  <2>2. Position(pc) \in 1 .. 16
    BY <2>1, Positions
  <2> QED
    BY <2>2 DEF StepsLeft
<1> QED
  BY <1>1, <1>2, <1>3

\* A step in which neither stage nor candidate changes goes on.
LEMMA GoesOn ==
    ASSUME IInv, IInv', UNCHANGED <<stage, executions>>,
           pc \in InStage \cup {"preflight"}, pc' \in InStage \/ pc' = "finalize",
           Position(pc) < Position(pc')
    PROVE  Nearer
<1>1. UNCHANGED StagesLeft /\ UNCHANGED group
  BY DEF StagesLeft, group, role
<1>2. CandidatesLeft \in Nat /\ StagesLeft \in Nat
  BY SomethingLeft
<1>3. StepsLeft' < StepsLeft
  <2>1. pc \in Steps /\ pc' \in Steps
    BY DEF IInv, TypeOK
  <2>2. Position(pc) \in 1 .. 16 /\ Position(pc') \in 1 .. 16
    BY <2>1, Positions
  <2> QED
    BY <2>2 DEF StepsLeft
<1>4. CASE pc' \in InStage
  <2>1. UNCHANGED CandidatesLeft
    BY <1>1, <1>4 DEF CandidatesLeft
  <2> QED
    BY <1>1, <1>3, <2>1 DEF Nearer
<1>5. CASE pc' = "finalize"
  <2>1. CandidatesLeft' = 0
    BY <1>5 DEF CandidatesLeft, InStage, Executing, Judging
  <2> QED
    BY <1>1, <1>2, <1>3, <2>1 DEF Nearer
<1> QED
  BY <1>4, <1>5

LEMMA StepsNearer == ASSUME IInv, IInv', [Next]_vars PROVE Nearer \/ UNCHANGED vars
<1> USE DEF InStage, Executing, Judging
<1>1. CASE SkipStage \/ SkipUnconfigured \/ Settle
  <2>1. stage' = stage + 1
    BY <1>1 DEF SkipStage, SkipUnconfigured, Settle, SettleStage
  <2> QED
    BY <2>1, Order DEF Nearer, StagesLeft, IInv, TypeOK
<1>2. CASE StartStage \/ Load \/ Infer \/ Repair
  <2>1. UNCHANGED <<stage, executions>>
    BY <1>2 DEF StartStage, Load, Infer, Repair, InHand
  <2>2. \/ pc = "preflight" /\ pc' = "load"
        \/ pc = "load" /\ pc' \in {"infer", "release"}
        \/ pc = "infer" /\ pc' \in {"repair", "release"}
        \/ pc = "repair" /\ pc' = "release"
    BY <1>2 DEF StartStage, Load, Infer, Repair
  <2> QED
    BY <2>1, <2>2, Positions, GoesOn
<1>3. CASE Release
  <2>1. /\ pc = "release" /\ UNCHANGED stage /\ executions' = Append(executions, hand)
        /\ pc' \in {"consensus", "load"}
    BY <1>3 DEF Release
  <2>2. UNCHANGED StagesLeft /\ UNCHANGED group
    BY <2>1 DEF StagesLeft, group, role
  <2>3. group # NoGroup /\ group = Group[role] /\ role \in Role
    BY <2>1, InHandFacts
  <2>4. Len(executions') = Len(executions) + 1 /\ Len(executions) \in Nat
    BY <2>1 DEF IInv, TypeOK
  <2>5. Len(group.candidates) \in Nat
    BY <2>3, Registered
  <2>6. CandidatesLeft' < CandidatesLeft
    BY <2>1, <2>2, <2>3, <2>4, <2>5 DEF CandidatesLeft
  <2> QED
    BY <2>2, <2>6 DEF Nearer
<1>4. CASE Evaluate \/ JudgeLoad \/ Judge \/ JudgeCorrect \/ JudgeSynchronize \/ JudgeRelease
           \/ JudgeRecord
  <2>1. UNCHANGED <<stage, executions>>
    BY <1>4 DEF Evaluate, JudgeLoad, Judge, JudgeCorrect, JudgeSynchronize, JudgeRelease,
                JudgeRecord, InHand
  <2>2. \/ pc = "consensus" /\ pc' \in {"judge_load", "settle"}
        \/ pc = "judge_load" /\ pc' \in {"judge", "judge_release", "judge_record"}
        \/ pc = "judge" /\ pc' \in {"judge_synchronize", "judge_correct", "judge_release"}
        \/ pc = "judge_correct" /\ pc' \in {"judge_synchronize", "judge_release"}
        \/ pc = "judge_synchronize" /\ pc' = "judge_release"
        \/ pc = "judge_release" /\ pc' = "judge_record"
        \/ pc = "judge_record" /\ pc' = "settle"
    BY <1>4 DEF Evaluate, JudgeLoad, Judge, JudgeCorrect, JudgeSynchronize, JudgeRelease,
                JudgeRecord
  <2> QED
    BY <2>1, <2>2, Positions, GoesOn
<1>5. CASE CreateFails \/ ReleaseFails \/ JudgeRecordRefused
  <2>1. UNCHANGED <<stage, executions>>
    BY <1>5 DEF CreateFails, ReleaseFails, JudgeRecordRefused, stageVars
  <2>2. pc \in {"load", "release", "judge_release", "judge_record"} /\ pc' = "finalize"
    BY <1>5 DEF CreateFails, ReleaseFails, JudgeRecordRefused
  <2> QED
    BY <2>1, <2>2, Positions, GoesOn
<1>6. CASE Finish \/ Finalize
  <2>1. UNCHANGED <<stage, executions>>
    BY <1>6 DEF Finish, Finalize, stageVars
  <2>2. \/ pc = "finish" /\ pc' = "finalize"
        \/ pc = "finalize" /\ pc' \in {"returned", "raised"}
    BY <1>6 DEF Finish, Finalize
  <2>3. UNCHANGED StagesLeft /\ CandidatesLeft = 0 /\ CandidatesLeft' = 0
    BY <2>1, <2>2 DEF StagesLeft, CandidatesLeft
  <2>4. StepsLeft' < StepsLeft
    BY <2>2, Positions DEF StepsLeft
  <2> QED
    BY <2>3, <2>4 DEF Nearer
<1>7. CASE Ended \/ UNCHANGED vars
  BY <1>7 DEF Ended
<1> QED
  BY <1>1, <1>2, <1>3, <1>4, <1>5, <1>6, <1>7 DEF Next

\* Every step brings the end of a session nearer, whichever models fail: a
\* candidate runs once, is repaired once, a verdict is corrected once.  What is
\* left, three numbers of which the first that differs counts, cannot decrease
\* for ever.
THEOREM SessionIsFinite ==
    Spec => /\ [](StagesLeft \in Nat /\ CandidatesLeft \in Nat /\ StepsLeft \in Nat)
            /\ [][Nearer]_vars
<1>1. IInv => StagesLeft \in Nat /\ CandidatesLeft \in Nat /\ StepsLeft \in Nat
  BY SomethingLeft
<1>2. IInv /\ IInv' /\ [Next]_vars => [Nearer]_vars
  BY StepsNearer
<1> QED
  BY <1>1, <1>2, Invariance, PTL DEF Spec

\* Ranks that are taken have a first one: each has a number of those before it,
\* and as many numbers as ranks are taken.
LEMMA FirstRank ==
    ASSUME NEW N \in Nat, NEW S \in SUBSET (1 .. N), S # {}
    PROVE  /\ First(S) # {} /\ First(S) \subseteq S
           /\ Cardinality(S) \in Nat \ {0}
<1> DEFINE Before(n) == {m \in S : m < n}
           K == Cardinality(S)
           counted == [n \in S |-> Cardinality(Before(n))]
<1>1. IsFiniteSet(S) /\ K \in Nat /\ K > 0
  <2>1. 1 \in Int /\ N \in Int
    OBVIOUS
  <2>2. IsFiniteSet(1 .. N)
    BY <2>1, FS_Interval
  <2>3. IsFiniteSet(S)
    BY <2>2, FS_Subset
  <2>4. K \in Nat
    BY <2>3, FS_CardinalityType
  <2>5. K # 0
    BY <2>3, FS_EmptySet
  <2> QED
    BY <2>3, <2>4, <2>5
<1>2. ASSUME NEW n \in S
      PROVE  /\ IsFiniteSet(Before(n)) /\ Cardinality(Before(n)) \in 0 .. K - 1
             /\ Before(n) \subseteq S
  <2>1. Before(n) \in SUBSET S /\ Before(n) # S
    OBVIOUS
  <2> HIDE DEF Before
  <2>2. IsFiniteSet(Before(n)) /\ Cardinality(Before(n)) <= K /\ Cardinality(Before(n)) # K
    BY <1>1, <2>1, FS_Subset
  <2>3. Cardinality(Before(n)) \in Nat
    BY <2>2, FS_CardinalityType
  <2> QED
    BY <1>1, <2>1, <2>2, <2>3
<1>3. ASSUME NEW m \in S, NEW n \in S, m < n
      PROVE  Cardinality(Before(m)) # Cardinality(Before(n))
  <2>1. S \subseteq Int
    OBVIOUS
  <2>2. Before(m) \in SUBSET Before(n)
    <3> SUFFICES ASSUME NEW k \in S, k < m PROVE k < n
      OBVIOUS
    <3> QED
      BY <1>3, <2>1
  <2>3. m \in Before(n) /\ m \notin Before(m)
    BY <1>3, <2>1
  <2> HIDE DEF Before
  <2>4. Before(m) # Before(n)
    BY <2>3
  <2> QED
    BY <1>2, <2>2, <2>4, FS_Subset
<1>4. counted \in Injection(S, 0 .. K - 1)
  <2>1. counted \in [S -> 0 .. K - 1]
    BY <1>2
  <2>2. \A m, n \in S : counted[m] = counted[n] => m = n
    BY <1>3
  <2> QED
    BY <2>1, <2>2 DEF Injection, IsInjective
<1>5. counted \in Surjection(S, 0 .. K - 1)
  <2>1. 0 \in Int /\ K - 1 \in Int
    BY <1>1
  <2>2. IsFiniteSet(0 .. K - 1) /\ Cardinality(0 .. K - 1) = K
    BY <1>1, <2>1, FS_Interval
  <2> HIDE DEF counted
  <2> QED
    BY <1>4, <2>2, FS_Injection
<1>6. PICK n \in S : counted[n] = 0
  <2>1. 0 \in 0 .. K - 1
    BY <1>1
  <2> HIDE DEF counted
  <2> QED
    BY <1>5, <2>1 DEF Surjection
<1>7. Before(n) = {}
  <2>1. Cardinality(Before(n)) = 0
    BY <1>6
  <2> HIDE DEF Before
  <2> QED
    BY <1>2, <2>1, FS_EmptySet
<1>8. n \in First(S)
  BY <1>7 DEF First
<1> QED
  BY <1>1, <1>8 DEF First

\* Whatever the candidates have come to, there is an evaluation of it.
LEMMA Decides ==
    ASSUME IInv, pc = "consensus"
    PROVE  evaluate_consensus(role, group, inputs, executions, Successful) # {}
<1> DEFINE admissible == Admissible(role, inputs, executions, Successful)
           alone == group.strategy = "single_with_rules" \/ Cardinality(Successful) = 1
           relaxed == [group EXCEPT !.minimumAgreeing = 1]
           few == Cardinality(Successful) < group.minimumSuccessful
<1>1. pc \in InStage
  BY DEF InStage
<1>2. group.minimumSuccessful \in Nat \ {0}
  BY <1>1, InHandFacts, Registered
<1>3. Len(executions) \in Nat /\ Successful \in SUBSET (1 .. Len(executions))
      /\ admissible \in SUBSET (1 .. Len(executions))
  BY DEF IInv, TypeOK, Successful, Admissible
<1>4. ASSUME NEW ranks, Cardinality(ranks) \in Nat \ {0}, NEW selected, selected # {}
      PROVE  Quorums(group, executions, selected, ranks) # {}
  <2>1. PICK i : i \in selected
    BY <1>4
  <2>2. 1 \in 1 .. Cardinality(ranks)
    BY <1>4
  <2>3. <<i, 1>> \in selected \X (1 .. Cardinality(ranks))
    BY <2>1, <2>2
  <2>4. Quorum(group, executions[<<i, 1>>[1]], <<i, 1>>[2])
          \in Quorums(group, executions, selected, ranks)
    BY <2>3, Zenon DEF Quorums
  <2> QED
    BY <2>4
<1>5. ~few => Successful # {}
  <2>1. Cardinality({}) = 0
    BY FS_EmptySet
  <2> QED
    BY <1>2, <2>1
<1>6. CASE few
  BY <1>6 DEF evaluate_consensus
<1>7. CASE ~few /\ group.strategy = "cascade"
  <2>1. CASE admissible = {}
    BY <1>7, <2>1 DEF evaluate_consensus
  <2>2. CASE admissible # {}
    <3>1. Quorums(group, executions, First(admissible), admissible) # {}
      BY <1>3, <1>4, <2>2, FirstRank
    <3> QED
      BY <1>7, <2>2, <3>1 DEF evaluate_consensus
  <2> QED
    BY <2>1, <2>2
<1>8. CASE ~few /\ group.strategy # "cascade" /\ alone
  <2>1. PICK i : i \in First(Successful)
    BY <1>3, <1>5, <1>8, FirstRank
  <2>2. Quorum(relaxed, executions[i], 1) \in {Quorum(relaxed, executions[k], 1) : k \in First(Successful)}
    BY <2>1
  <2>3. evaluate_consensus(role, group, inputs, executions, Successful) =
          {Quorum(relaxed, executions[k], 1) : k \in First(Successful)}
    BY <1>8 DEF evaluate_consensus
  <2> QED
    BY <2>2, <2>3
<1>9. CASE ~few /\ group.strategy # "cascade" /\ ~alone
  <2>1. /\ Quorums(group, executions, First(Successful), Successful) # {}
        /\ Quorums(group, executions, Successful, Successful) # {}
    BY <1>3, <1>4, <1>5, <1>9, FirstRank
  <2> QED
    BY <1>9, <2>1 DEF evaluate_consensus
<1> QED
  BY <1>6, <1>7, <1>8, <1>9

\* A session does not stop in the consensus, the one step whose outcome is
\* computed from what the candidates have come to: for every group that may be
\* registered, and whatever has failed, there is a decision.
THEOREM ConsensusDecides ==
    Spec => [](pc = "consensus" =>
                  evaluate_consensus(role, group, inputs, executions, Successful) # {})
<1>1. IInv => (pc = "consensus" =>
                 evaluate_consensus(role, group, inputs, executions, Successful) # {})
  BY Decides
<1> QED
  BY <1>1, Invariance, PTL
=============================================================================
