------------------------ MODULE SessionReport_proofs ------------------------
(***************************************************************************)
(* Proofs about what a session reports (SessionRunner): its candidate      *)
(* runs, consensus records, stages and status, for every registry, every   *)
(* set of contracts and every batch.  The invariant RInv below is          *)
(* inductive together with IInv of SessionRunner.                          *)
(***************************************************************************)
EXTENDS SessionRunner_proofs

Outcome == {"succeeded", "failed"}
RunRecord == [id : Sources \cup Judges, role : Role, judge : BOOLEAN, status : Outcome,
              repaired : BOOLEAN, error : Errors]
ConsensusRecord == [role : Role, ids : Seq(Sources),
                    decision : Accepted \cup {"abstain", "human_review"}, selected : Seen,
                    allowed : BOOLEAN, successful : Nat, required : Nat,
                    judge : Judges \cup {"none"}]

\* A stage in hand passed its gate, on what the batch still offers.
Admitted == pc \in InStage => preflight(role, before, BatchItems).decision = "pass"

\* What a trial of a candidate leaves in hand, and in the finished executions.
Tidy(e) == e.status \in Outcome /\ AttemptsAgree(e)
Trials ==
    /\ pc \in {"load", "infer"} => hand.attempts = <<>> /\ hand.status = "failed"
    /\ pc = "repair" => hand.attempts = <<"failed">> /\ hand.status = "failed"
    /\ pc = "release" => Tidy(hand)
    /\ pc \in Judging => hand.status \in Outcome
    /\ \A i \in DOMAIN executions : Tidy(executions[i])

\* The consensus speaks about enough candidates, and a judge is in hand
\* exactly if it was asked.
Considered ==
    /\ evaluation.downstreamAllowed <=> evaluation.decision \in Accepted
    /\ pc \in InStage \ Executing => group.minimumSuccessful <= Len(executions)
    /\ pc = "consensus" => hand.id = "none"
    /\ pc = "settle" =>
         /\ hand.id \in {"none", group.judge}
         /\ evaluation.decision = "adjudicated" => hand.id # "none"
         /\ evaluation.decision \in {"pass", "repair"} => hand.id = "none"

\* A result in hand, or in a finished execution, is new, absent or as accepted.
Derived(r) == \A k \in Kind : r.results[k] \in {content[k], "none", r.id}
Isolated ==
    /\ pc \in Executing => Derived(hand)
    /\ \A i \in DOMAIN executions : Derived(executions[i])

\* Every finished execution is on record.
Recorded(id, status) == \E r \in Range(candidateRuns) : r.id = id /\ r.status = status
AllRecorded == \A i \in DOMAIN executions : Recorded(executions[i].id, executions[i].status)

\* Every accepted result comes from a candidate that an accepting consensus selected.
Flowed == \A k \in Kind : content[k] \notin {"none", "input"} =>
            \E c \in Range(consensusResults) :
               c.allowed /\ c.selected = content[k] /\ Recorded(c.selected, "succeeded")

\* Who ran: the candidates and judges of the consensus records, and those of
\* the stage in hand; nobody twice.
RunIds == {r.id : r \in Range(candidateRuns)}
Reported == UNION {Covered(c) : c \in Range(consensusResults)}
StageIds == {executions[i].id : i \in DOMAIN executions}
JudgeIds == IF pc = "settle" THEN {hand.id} \ {"none"} ELSE {}
Earlier(id) == \E m \in 1 .. stage - 1 : RoleOrder[m] \in Roles /\ id \in Named(RoleOrder[m])
Once ==
    /\ \A i, k \in DOMAIN candidateRuns : candidateRuns[i].id = candidateRuns[k].id => i = k
    /\ RunIds = Reported \cup StageIds \cup JudgeIds
    /\ \A id \in Reported : Earlier(id)
    /\ pc \notin InStage /\ cause = "none" => executions = <<>>

\* Every consensus record agrees with the stage it belongs to.
Referred == \A c \in Range(consensusResults) : \E s \in Range(stages) : ConsensusAgrees(c, s)

\* What the record of a settled stage says of its gates and its run.
Fine(s) == \/ s.status = "succeeded" /\ s.post.decision \in {"pass", "abstain"}
           \/ s.status = "skipped" /\ s.pre.decision = "not_applicable"
Consistent(s) ==
    /\ AttemptsAgree(s) /\ s.run.status = s.status
    /\ s.pre.decision # "failed_retryable"
    /\ s.status = "succeeded" =>
         s.pre.decision = "pass" /\ s.post.decision \in Blocking \cup {"pass", "abstain"}
    /\ s.status = "failed" => s.pre.decision = "pass" /\ s.post.decision \in Blocking
    /\ s.status = "skipped" =>
         /\ s.post.decision \in {"none", "abstain"}
         /\ s.run.error = "none" <=> s.pre.decision = "not_applicable"
    /\ s.post.decision = "failed_retryable" =>
         s.post.reason \in {"model_runtime_error", "stage_wall_time_exceeded"}
Explained == \A s \in Range(stages) : Consistent(s) /\ (Fine(s) \/ errors # {})

\* What the status of the batch claims about its stages.
Honest ==
    /\ output.status = "succeeded" <=> \A s \in Range(stages) : Fine(s)
    /\ output.status # "failed"
    /\ output.status # "succeeded" => errors # {}
    /\ output.retryable =>
         /\ output.status = "partial_failure"
         /\ \E s \in Range(stages) :
               s.post.reason \in {"model_runtime_error", "stage_wall_time_exceeded"}
Answered == pc \in {"finalize", "returned"} /\ cause = "none" => Honest

RecordTypes == candidateRuns \in Seq(RunRecord) /\ consensusResults \in Seq(ConsensusRecord)

RInv == /\ RecordTypes /\ Admitted /\ Trials /\ Considered /\ Isolated /\ AllRecorded
        /\ Flowed /\ Once /\ Referred /\ Explained /\ Answered
-----------------------------------------------------------------------------
(* What the steps of a session share.                                      *)

\* The elements of a sequence with one more.
LEMMA RangeAppend ==
    ASSUME NEW S, NEW s \in Seq(S), NEW e \in S
    PROVE  Append(s, e) \in Seq(S) /\ Range(Append(s, e)) = Range(s) \cup {e}
<1>1. /\ Append(s, e) \in Seq(S) /\ DOMAIN Append(s, e) = 1 .. Len(s) + 1 /\ DOMAIN s = 1 .. Len(s)
      /\ \A i \in 1 .. Len(s) : Append(s, e)[i] = s[i]
      /\ Append(s, e)[Len(s) + 1] = e /\ Len(s) \in Nat
  OBVIOUS
<1>2. \A x \in Range(Append(s, e)) : x \in Range(s) \cup {e}
  BY <1>1 DEF Range
<1>3. \A x \in Range(s) \cup {e} : x \in Range(Append(s, e))
  <2>1. Len(s) + 1 \in DOMAIN Append(s, e) /\ \A i \in DOMAIN s : i \in DOMAIN Append(s, e)
    BY <1>1
  <2> QED
    BY <1>1, <2>1 DEF Range
<1> QED
  BY <1>1, <1>2, <1>3

\* What is on record stays so when only the model in hand changes.
LEMMA SameReport ==
    ASSUME UNCHANGED <<inputs, content, stage, executions, reportVars>>
    PROVE  /\ UNCHANGED <<role, group, before, RunIds, Reported, StageIds>>
           /\ RecordTypes' <=> RecordTypes
           /\ AllRecorded' <=> AllRecorded
           /\ Flowed' <=> Flowed
           /\ Referred' <=> Referred
           /\ Explained' <=> Explained
           /\ \A id : Earlier(id)' <=> Earlier(id)
  BY DEF reportVars, role, group, before, RunIds, Reported, StageIds, RecordTypes, AllRecorded,
         Recorded, Flowed, Referred, Explained, Earlier

\* What a step that changes no more than the model in hand has to respect.
LEMMA QuietKeeps ==
    ASSUME IInv, RInv, UNCHANGED <<inputs, content, stage, executions, evaluation, reportVars>>,
           UNCHANGED <<output, cause>>,
           pc' \in Executing \cup Judging, pc \in Executing \cup Judging \cup {"preflight"},
           pc = "preflight" => preflight(role, before, BatchItems).decision = "pass",
           pc' \in Judging => pc \in Judging,
           Trials', pc' \in Executing => Derived(hand)'
    PROVE  RInv'
<1>1. UNCHANGED <<role, group, before, RunIds, Reported, StageIds>>
  BY SameReport
<1>2. RecordTypes' /\ AllRecorded' /\ Flowed' /\ Referred' /\ Explained'
  BY SameReport DEF RInv
<1>3. Admitted'
  BY <1>1 DEF RInv, Admitted, InStage
<1>4. Considered'
  BY <1>1 DEF RInv, Considered, InStage, Executing, Judging
<1>5. Isolated'
  BY DEF RInv, Isolated, Derived
<1>6. Once'
  <2>1. JudgeIds = {} /\ JudgeIds' = {} /\ pc' \in InStage
    BY DEF JudgeIds, InStage, Executing, Judging
  <2>2. \A id \in Reported : Earlier(id)'
    BY SameReport DEF RInv, Once
  <2> QED
    BY <1>1, <2>1, <2>2 DEF RInv, Once, reportVars
<1>7. Answered'
  BY DEF Answered, Executing, Judging
<1> QED
  BY <1>2, <1>3, <1>4, <1>5, <1>6, <1>7 DEF RInv

\* An exception that leaves the session keeps what it has reported so far.
LEMMA AbortReports ==
    ASSUME IInv, RInv, CreateFails \/ ReleaseFails \/ JudgeRecordRefused
    PROVE  RInv'
<1>1. /\ pc \in Executing \cup Judging /\ pc' = "finalize" /\ cause' # "none"
      /\ UNCHANGED <<inputs, content, stage, hand, executions, evaluation, reportVars, output>>
  BY DEF CreateFails, ReleaseFails, JudgeRecordRefused, stageVars, Executing, Judging
<1>2. UNCHANGED <<role, group, before, RunIds, Reported, StageIds>>
  BY <1>1, SameReport
<1>3. RecordTypes' /\ AllRecorded' /\ Flowed' /\ Referred' /\ Explained'
  BY <1>1, SameReport DEF RInv
<1>4. Admitted' /\ Trials' /\ Considered' /\ Answered'
  BY <1>1 DEF RInv, Admitted, Trials, Considered, Answered, InStage, Executing, Judging
<1>5. Isolated'
  BY <1>1 DEF RInv, Isolated, Derived, Executing
<1>6. Once'
  <2>1. JudgeIds = {} /\ JudgeIds' = {}
    BY <1>1 DEF JudgeIds, Executing, Judging
  <2>2. \A id \in Reported : Earlier(id)'
    BY <1>1, SameReport DEF RInv, Once
  <2> QED
    BY <1>1, <1>2, <2>1, <2>2 DEF RInv, Once, reportVars
<1> QED
  BY <1>3, <1>4, <1>5, <1>6 DEF RInv
-----------------------------------------------------------------------------
(* The model in hand.                                                      *)

\* A model newly taken in hand has tried nothing.
LEMMA HandFacts ==
    ASSUME NEW id
    PROVE  /\ Hand(id).id = id /\ Hand(id).results = content
           /\ Hand(id).attempts = <<>> /\ Hand(id).status = "failed"
  BY DEF Hand, Fresh

\* The attempts of a candidate that was not, once or twice asked.
LEMMA TriedTidy ==
    ASSUME NEW e, e.status \in Outcome,
           \/ e.attempts = <<>> /\ e.status = "failed"
           \/ e.attempts = Append(<<>>, e.status)
           \/ e.attempts = Append(<<"failed">>, e.status)
    PROVE  Tidy(e)
<1> DEFINE n == Len(e.attempts)
<1>1. CASE e.attempts = <<>> /\ e.status = "failed"
  BY <1>1 DEF Tidy, AttemptsAgree
<1>2. CASE e.attempts = Append(<<>>, e.status)
  <2>1. n = 1 /\ e.attempts[1] = e.status
    BY <1>2
  <2> HIDE DEF n
  <2> QED
    BY <2>1 DEF n, Tidy, AttemptsAgree, Outcome
<1>3. CASE e.attempts = Append(<<"failed">>, e.status)
  <2>1. n = 2 /\ e.attempts[1] = "failed" /\ e.attempts[2] = e.status
    BY <1>3
  <2> HIDE DEF n
  <2> QED
    BY <2>1 DEF n, Tidy, AttemptsAgree, Outcome
<1> QED
  BY <1>1, <1>2, <1>3

\* A stage that passes its gate starts with its first candidate.
LEMMA StartStageReports == ASSUME IInv, RInv, StartStage PROVE RInv'
<1>1. /\ pc = "preflight" /\ pc' = "load" /\ hand' = Hand(group.candidates[1])
      /\ UNCHANGED <<inputs, content, stage, executions, evaluation, reportVars, output, cause>>
      /\ preflight(role, before, BatchItems).decision = "pass"
  BY DEF StartStage
<1>2. hand'.results = content /\ hand'.attempts = <<>> /\ hand'.status = "failed"
  BY <1>1, HandFacts
<1>3. Trials'
  BY <1>1, <1>2 DEF RInv, Trials, Judging
<1>4. Derived(hand)'
  BY <1>1, <1>2 DEF Derived
<1> QED
  BY <1>1, <1>3, <1>4, QuietKeeps DEF Executing, Judging

\* Loading a model.
LEMMA LoadReports == ASSUME IInv, RInv, Load PROVE RInv'
<1>1. /\ pc = "load" /\ pc' \in {"infer", "release"} /\ hand \in HandRecord
      /\ UNCHANGED <<inputs, content, stage, executions, evaluation, reportVars, output, cause>>
  BY DEF Load, InHand, IInv, TypeOK
<1>2. /\ hand'.results = hand.results /\ hand'.attempts = hand.attempts
      /\ hand'.status = hand.status /\ hand'.id = hand.id
  BY <1>1 DEF Load, Fails, HandRecord
<1>3. hand'.attempts = <<>> /\ hand'.status = "failed"
  BY <1>1, <1>2 DEF RInv, Trials
<1>4. Trials'
  BY <1>1, <1>3, TriedTidy DEF RInv, Trials, Judging, Outcome
<1>5. Derived(hand)'
  BY <1>1, <1>2 DEF RInv, Isolated, Derived, Executing
<1> QED
  BY <1>1, <1>4, <1>5, QuietKeeps DEF Executing, Judging

\* An inference, or its correction, is one more attempt, and leaves results of
\* the candidate, none, or the accepted ones.
LEMMA InferredFacts ==
    ASSUME IInv, RInv, pc \in {"infer", "repair"},
           Inferred \/ \E error : Failed(error)
    PROVE  /\ hand'.attempts = Append(hand.attempts, hand'.status)
           /\ hand'.status \in Outcome
           /\ (\E error : Failed(error)) => hand'.status = "failed"
           /\ \A k \in Kind : hand'.results[k] \in {content[k], "none", hand'.id}
<1>1. /\ hand \in HandRecord /\ hand.status = "failed"
      /\ \A k \in Kind : hand.results[k] \in {content[k], "none", hand.id}
  BY DEF IInv, TypeOK, RInv, Trials, Isolated, Derived, Executing
<1>2. ASSUME Inferred
      PROVE  /\ hand'.status \in Outcome /\ hand'.attempts = Append(hand.attempts, hand'.status)
             /\ \A k \in Kind : hand'.results[k] \in {content[k], "none", hand'.id}
  <2>1. PICK results \in Patched(hand.id) :
          hand' = [hand EXCEPT !.status = "succeeded", !.results = results,
                               !.attempts = Tried("succeeded"), !.repaired = pc = "repair"]
    BY <1>2 DEF Inferred
  <2>2. \A k \in Kind : results[k] \in {content[k], "none", hand.id}
    BY DEF Patched
  <2>3. /\ hand'.id = hand.id /\ hand'.status = "succeeded" /\ hand'.results = results
        /\ hand'.attempts = Append(hand.attempts, "succeeded")
    BY <1>1, <2>1 DEF HandRecord, Tried
  <2> QED
    BY <2>2, <2>3 DEF Outcome
<1>3. ASSUME NEW error, Failed(error)
      PROVE  /\ hand'.status = "failed" /\ hand'.attempts = Append(hand.attempts, hand'.status)
             /\ \A k \in Kind : hand'.results[k] \in {content[k], "none", hand'.id}
  <2>1. /\ hand'.id = hand.id /\ hand'.status = hand.status /\ hand'.results = hand.results
        /\ hand'.attempts = Append(hand.attempts, "failed")
    BY <1>1, <1>3 DEF HandRecord, Failed, Tried
  <2> QED
    BY <1>1, <2>1
<1> QED
  BY <1>2, <1>3 DEF Outcome

\* A first inference and the correction of an invalid output.
LEMMA InferReports == ASSUME IInv, RInv, Infer \/ Repair PROVE RInv'
<1>1. /\ pc \in {"infer", "repair"} /\ pc' \in {"repair", "release"}
      /\ pc' = "repair" => pc = "infer" /\ \E error : Failed(error)
      /\ Inferred \/ \E error : Failed(error)
      /\ UNCHANGED <<inputs, content, stage, executions, evaluation, reportVars, output, cause>>
  BY DEF Infer, Repair, InHand
<1>2. /\ hand'.attempts = Append(hand.attempts, hand'.status) /\ hand'.status \in Outcome
      /\ (\E error : Failed(error)) => hand'.status = "failed"
      /\ \A k \in Kind : hand'.results[k] \in {content[k], "none", hand'.id}
  BY <1>1, InferredFacts
<1>3. /\ pc = "infer" => hand.attempts = <<>>
      /\ pc = "repair" => hand.attempts = <<"failed">>
      /\ \A i \in DOMAIN executions : Tidy(executions[i])
  BY DEF RInv, Trials
<1>4. Trials'
  <2>1. CASE pc' = "repair"
    <3>1. hand'.status = "failed" /\ hand'.attempts = Append(<<>>, "failed")
      BY <1>1, <1>2, <1>3, <2>1
    <3>2. Append(<<>>, "failed") = <<"failed">>
      OBVIOUS
    <3> QED
      BY <1>1, <1>3, <2>1, <3>1, <3>2 DEF Trials, Judging
  <2>2. CASE pc' = "release"
    <3>1. Tidy(hand')
      BY <1>1, <1>2, <1>3, TriedTidy
    <3>2. Tidy(hand)'
      BY <3>1 DEF Tidy, AttemptsAgree
    <3> QED
      BY <1>1, <1>3, <2>2, <3>2 DEF Trials, Judging
  <2> QED
    BY <1>1, <2>1, <2>2
<1>5. Derived(hand)'
  BY <1>1, <1>2 DEF Derived
<1> QED
  BY <1>1, <1>4, <1>5, QuietKeeps DEF Executing, Judging

\* The steps of a judge up to its record.
LEMMA JudgingReports ==
    ASSUME IInv, RInv, JudgeLoad \/ Judge \/ JudgeCorrect \/ JudgeSynchronize \/ JudgeRelease
    PROVE  RInv'
<1>1. /\ pc \in Judging /\ pc' \in Judging /\ hand \in HandRecord
      /\ UNCHANGED <<inputs, content, stage, executions, evaluation, reportVars, output, cause>>
  BY DEF JudgeLoad, Judge, JudgeCorrect, JudgeSynchronize, JudgeRelease, Judging, InHand, IInv, TypeOK
<1>2. \/ UNCHANGED hand
      \/ \E error : Fails(error)
      \/ \E repaired : Decided(repaired)
      \/ hand' = [hand EXCEPT !.status = "succeeded"]
  BY DEF JudgeLoad, Judge, JudgeCorrect, JudgeSynchronize, JudgeRelease
<1>3. hand'.status \in {hand.status, "succeeded"}
  BY <1>1, <1>2 DEF HandRecord, Fails, Decided
<1>4. Trials'
  BY <1>1, <1>3 DEF RInv, Trials, Judging, Outcome
<1> QED
  BY <1>1, <1>4, QuietKeeps DEF Executing, Judging
-----------------------------------------------------------------------------
(* The consensus and the records of those who ran.                         *)

\* The consensus of the finished candidates.
LEMMA EvaluateReports == ASSUME IInv, RInv, Evaluate PROVE RInv'
<1>1. /\ pc = "consensus"
      /\ UNCHANGED <<inputs, content, stage, executions, reportVars, output, cause>>
      /\ UNCHANGED <<role, group, before, RunIds, Reported, StageIds>>
  BY SameReport DEF Evaluate
<1>2. PICK e \in evaluate_consensus(role, group, inputs, executions, Successful) :
        /\ evaluation' = e
        /\ IF e.requiresAdjudication
           THEN pc' = "judge_load" /\ hand' = Hand(group.judge)
           ELSE pc' = "settle" /\ UNCHANGED hand
  BY DEF Evaluate
<1>3. Sound(evaluation', SuccessfulIds) /\ evaluation'.decision # "adjudicated"
  BY <1>1, <1>2, EvaluateSound
<1>4. \/ pc' = "settle" /\ hand'.id = "none"
      \/ pc' = "judge_load" /\ hand'.status = "failed"
  BY <1>1, <1>2, HandFacts DEF RInv, Considered
<1>5. RecordTypes' /\ AllRecorded' /\ Flowed' /\ Referred' /\ Explained'
  BY <1>1, SameReport DEF RInv
<1>6. Admitted' /\ Answered'
  BY <1>1, <1>4 DEF RInv, Admitted, Answered, InStage
<1>7. Trials'
  BY <1>1, <1>4 DEF RInv, Trials, Judging, Outcome
<1>8. Considered'
  BY <1>1, <1>3, <1>4 DEF RInv, Considered, Sound, InStage, Executing, Judging
<1>9. Isolated'
  BY <1>1, <1>4 DEF RInv, Isolated, Derived, Executing
<1>10. Once'
  <2>1. JudgeIds = {} /\ JudgeIds' = {} /\ pc' \in InStage
    BY <1>1, <1>4 DEF JudgeIds, InStage, Judging
  <2>2. \A id \in Reported : Earlier(id)'
    BY <1>1, SameReport DEF RInv, Once
  <2> QED
    BY <1>1, <2>1, <2>2 DEF RInv, Once, reportVars
<1> QED
  BY <1>5, <1>6, <1>7, <1>8, <1>9, <1>10 DEF RInv

\* One more run on record, of someone who has not run before.
LEMMA RunAppended ==
    ASSUME IInv, RInv, UNCHANGED <<inputs, content, stage, stages, consensusResults>>,
           errors \subseteq errors', NEW run \in RunRecord, run.id \notin RunIds,
           candidateRuns' = Append(candidateRuns, run)
    PROVE  /\ RecordTypes' /\ Flowed' /\ Referred' /\ Explained'
           /\ \A i, k \in DOMAIN candidateRuns' : candidateRuns'[i].id = candidateRuns'[k].id => i = k
           /\ RunIds' = RunIds \cup {run.id} /\ Reported' = Reported
           /\ \A id \in Reported : Earlier(id)'
           /\ \A id, status : Recorded(id, status) => Recorded(id, status)'
           /\ \E r \in Range(candidateRuns') : r.id = run.id /\ r.status = run.status
<1>1. /\ candidateRuns' \in Seq(RunRecord) /\ Range(candidateRuns') = Range(candidateRuns) \cup {run}
      /\ candidateRuns \in Seq(RunRecord)
  BY RangeAppend DEF RInv, RecordTypes
<1>2. RecordTypes'
  BY <1>1 DEF RInv, RecordTypes
<1>3. /\ \A id, status : Recorded(id, status) => Recorded(id, status)'
      /\ \E r \in Range(candidateRuns') : r.id = run.id /\ r.status = run.status
  BY <1>1 DEF Recorded
<1>4. Flowed'
  BY <1>3 DEF RInv, Flowed
<1>5. Referred' /\ Explained'
  BY DEF RInv, Referred, Explained
<1>6. RunIds' = RunIds \cup {run.id} /\ Reported' = Reported
  BY <1>1 DEF RunIds, Reported
<1>7. \A id \in Reported : Earlier(id)'
  BY DEF RInv, Once, Earlier
<1>8. \A i, k \in DOMAIN candidateRuns' : candidateRuns'[i].id = candidateRuns'[k].id => i = k
  <2>1. /\ DOMAIN candidateRuns' = 1 .. Len(candidateRuns) + 1
        /\ DOMAIN candidateRuns = 1 .. Len(candidateRuns) /\ Len(candidateRuns) \in Nat
        /\ \A i \in DOMAIN candidateRuns : candidateRuns'[i] = candidateRuns[i]
        /\ candidateRuns'[Len(candidateRuns) + 1] = run
    BY <1>1
  <2>2. \A i \in DOMAIN candidateRuns : candidateRuns[i].id # run.id
    BY DEF RunIds, Range
  <2>3. \A i, k \in DOMAIN candidateRuns : candidateRuns[i].id = candidateRuns[k].id => i = k
    BY DEF RInv, Once
  <2> QED
    BY <2>1, <2>2, <2>3
<1> QED
  BY <1>2, <1>3, <1>4, <1>5, <1>6, <1>7, <1>8

\* Who runs in a stage has not been reported by an earlier one.
LEMMA NewInStage ==
    ASSUME IInv, RInv, pc \in InStage, NEW id \in Named(role)
    PROVE  id \notin Reported
<1>1. stage \in 1 .. 4 /\ role = RoleOrder[stage] /\ role \in Roles
  BY Order DEF IInv, Progress, InStage, role, group, Roles
<1>2. SUFFICES ASSUME NEW m \in 1 .. stage - 1, RoleOrder[m] \in Roles, id \in Named(RoleOrder[m])
               PROVE  FALSE
  BY DEF RInv, Once, Earlier
<1>3. RoleOrder[m] # role
  BY <1>1, Order DEF RoleOrder
<1> QED
  BY <1>1, <1>2, <1>3, NamesAssumption

\* The finished executions of a stage are its first candidates.
LEMMA InTurnFacts ==
    ASSUME IInv, pc \in InStage
    PROVE  /\ executions \in Seq(HandRecord) /\ hand \in HandRecord /\ content \in Content
           /\ group.candidates \in Seq(STRING) /\ IsInjective(group.candidates)
           /\ Len(executions) <= Len(group.candidates)
           /\ \A i \in DOMAIN executions :
                /\ executions[i].id = group.candidates[i] /\ i \in DOMAIN group.candidates
                /\ executions[i].id \in Candidates(role)
           /\ group = Group[role] /\ role \in Roles
           /\ group.minimumSuccessful \in 1 .. Len(group.candidates)
<1>1. group = Group[role] /\ role \in Roles
  BY InHandFacts DEF Roles
<1>2. /\ group.candidates \in Seq(STRING) /\ IsInjective(group.candidates)
      /\ group.minimumSuccessful \in 1 .. Len(group.candidates)
  BY <1>1, InHandFacts, Registered DEF GroupRecord
<1>3. /\ executions \in Seq(HandRecord) /\ hand \in HandRecord /\ content \in Content
      /\ Len(executions) <= Len(group.candidates)
      /\ \A i \in DOMAIN executions : executions[i].id = group.candidates[i]
  BY DEF IInv, TypeOK, InTurn
<1>4. \A i \in DOMAIN executions : i \in DOMAIN group.candidates
  BY <1>2, <1>3
<1> QED
  BY <1>1, <1>2, <1>3, <1>4 DEF Candidates

\* Whoever is in hand at the end of its run is on no record yet.
LEMMA NotYetRun ==
    ASSUME IInv, RInv, pc \in {"release", "judge_record"}
    PROVE  hand.id \in Sources \cup Judges /\ hand.id \notin RunIds
<1>1. pc \in InStage /\ pc \in Executing \cup Judging
  BY DEF InStage, Executing, Judging
<1>2. hand.id \in Sources \cup Judges
  BY <1>1, HandNamed
<1>3. hand.id \in Named(role)
  <2>1. CASE pc = "release"
    <3>1. /\ hand.id = group.candidates[Len(executions) + 1] /\ Len(executions) \in Nat
          /\ Len(executions) < Len(group.candidates)
      BY <2>1 DEF IInv, TypeOK, InTurn, Executing
    <3>2. Len(executions) + 1 \in DOMAIN group.candidates
      BY <1>1, <3>1, InTurnFacts
    <3> QED
      BY <1>1, <3>1, <3>2, InTurnFacts DEF Named, Candidates
  <2>2. CASE pc = "judge_record"
    BY <1>1, <2>2, InTurnFacts DEF IInv, InTurn, Judging, Named
  <2> QED
    BY <2>1, <2>2
<1>4. hand.id \notin StageIds
  <2> SUFFICES ASSUME NEW i \in DOMAIN executions, executions[i].id = hand.id
               PROVE  FALSE
    BY DEF StageIds
  <2>1. CASE pc = "release"
    <3>1. /\ hand.id = group.candidates[Len(executions) + 1] /\ Len(executions) \in Nat
          /\ Len(executions) < Len(group.candidates)
      BY <2>1 DEF IInv, TypeOK, InTurn, Executing
    <3>2. Len(executions) + 1 \in DOMAIN group.candidates
      BY <1>1, <3>1, InTurnFacts
    <3>3. i = Len(executions) + 1
      BY <1>1, <3>1, <3>2, InTurnFacts DEF IsInjective
    <3>4. i \in 1 .. Len(executions)
      BY <1>1, InTurnFacts
    <3> QED
      BY <3>1, <3>3, <3>4
  <2>2. CASE pc = "judge_record"
    <3>1. hand.id \in Judges
      BY <1>1, <2>2, InHandFacts, Registered DEF IInv, InTurn, Judging
    <3>2. executions[i].id \in Sources
      BY <1>1, InHandFacts
    <3> QED
      BY <3>1, <3>2, Names
  <2> QED
    BY <2>1, <2>2
<1>5. JudgeIds = {}
  BY DEF JudgeIds
<1>6. hand.id \notin Reported
  BY <1>1, <1>3, NewInStage
<1> QED
  BY <1>2, <1>4, <1>5, <1>6 DEF RInv, Once

\* A candidate is released and its run recorded.
LEMMA ReleaseReports == ASSUME IInv, RInv, Release PROVE RInv'
<1> DEFINE run == CandidateRun(FALSE)
           next == group.candidates[Len(executions) + 2]
<1>1. /\ pc = "release" /\ pc \in InStage /\ pc \in Executing
      /\ executions' = Append(executions, hand) /\ candidateRuns' = Append(candidateRuns, run)
      /\ errors \subseteq errors'
      /\ UNCHANGED <<inputs, content, stage, evaluation, stages, consensusResults, output, cause>>
      /\ UNCHANGED <<role, group, before>>
  BY DEF Release, role, group, before, InStage, Executing
<1>2. \/ /\ hand' = NoHand /\ pc' = "consensus"
         /\ CascadeStops \/ Len(executions) + 1 = Len(group.candidates)
      \/ hand' = Hand(next) /\ pc' = "load"
  BY DEF Release
<1>3. hand \in HandRecord /\ Tidy(hand) /\ Derived(hand)
  BY <1>1, InTurnFacts DEF RInv, Trials, Isolated
<1>4. hand.id \in Sources \cup Judges /\ hand.id \notin RunIds
  BY <1>1, NotYetRun
<1>5. run \in RunRecord /\ run.id = hand.id /\ run.status = hand.status
  BY <1>1, <1>3, <1>4, InHandFacts DEF CandidateRun, RunRecord, HandRecord, Tidy
<1> HIDE DEF run
<1>6. /\ RecordTypes' /\ Flowed' /\ Referred' /\ Explained'
      /\ \A i, k \in DOMAIN candidateRuns' : candidateRuns'[i].id = candidateRuns'[k].id => i = k
      /\ RunIds' = RunIds \cup {hand.id} /\ Reported' = Reported
      /\ \A id \in Reported : Earlier(id)'
      /\ \A id, status : Recorded(id, status) => Recorded(id, status)'
      /\ \E r \in Range(candidateRuns') : r.id = hand.id /\ r.status = hand.status
  BY <1>1, <1>4, <1>5, RunAppended
<1>7. /\ DOMAIN executions' = DOMAIN executions \cup {Len(executions) + 1}
      /\ Len(executions') = Len(executions) + 1 /\ Len(executions) \in Nat
      /\ \A i \in DOMAIN executions : executions'[i] = executions[i]
      /\ executions'[Len(executions) + 1] = hand
  BY <1>1, InTurnFacts
<1>8. Admitted' /\ Answered'
  BY <1>1, <1>2 DEF RInv, Admitted, Answered, InStage
<1>9. Trials'
  <2>1. \A i \in DOMAIN executions' : Tidy(executions'[i])
    BY <1>3, <1>7 DEF RInv, Trials
  <2>2. pc' = "load" => hand'.attempts = <<>> /\ hand'.status = "failed"
    BY <1>2, HandFacts
  <2>3. (\A i \in DOMAIN executions : Tidy(executions[i]))'
    BY <2>1 DEF Tidy, AttemptsAgree
  <2> QED
    BY <1>2, <2>2, <2>3 DEF Trials, Judging
<1>10. Considered'
  <2>1. pc' = "consensus" => hand'.id = "none" /\ group.minimumSuccessful <= Len(executions')
    <3>1. ASSUME CascadeStops PROVE group.minimumSuccessful = 1
      BY <3>1 DEF CascadeStops
    <3> QED
      BY <1>1, <1>2, <1>7, <3>1, InTurnFacts DEF NoHand, Fresh
  <2> QED
    BY <1>1, <1>2, <2>1 DEF RInv, Considered, InStage, Executing, Judging
<1>11. Isolated'
  <2>1. \A i \in DOMAIN executions' : Derived(executions'[i])
    BY <1>3, <1>7 DEF RInv, Isolated
  <2>2. pc' = "load" => hand'.results = content
    BY <1>2, HandFacts
  <2> QED
    BY <1>1, <1>2, <2>1, <2>2 DEF Isolated, Derived, Executing
<1>12. AllRecorded'
  <2> SUFFICES ASSUME NEW i \in DOMAIN executions'
               PROVE  \E r \in Range(candidateRuns') :
                         r.id = executions'[i].id /\ r.status = executions'[i].status
    BY DEF AllRecorded, Recorded
  <2>1. CASE i = Len(executions) + 1
    BY <1>6, <1>7, <2>1
  <2>2. CASE i \in DOMAIN executions
    <3>1. Recorded(executions[i].id, executions[i].status)
      BY <2>2 DEF RInv, AllRecorded
    <3>2. \A r \in Range(candidateRuns) : r \in Range(candidateRuns')
      BY <1>1, <1>5, RangeAppend DEF RInv, RecordTypes
    <3> QED
      BY <1>7, <2>2, <3>1, <3>2 DEF Recorded
  <2> QED
    BY <1>7, <2>1, <2>2
<1>13. Once'
  <2>1. StageIds' = StageIds \cup {hand.id}
    BY <1>7 DEF StageIds
  <2>2. JudgeIds = {} /\ JudgeIds' = {} /\ pc' \in InStage
    BY <1>1, <1>2 DEF JudgeIds, InStage, Executing
  <2> QED
    BY <1>6, <2>1, <2>2 DEF RInv, Once
<1> QED
  BY <1>6, <1>8, <1>9, <1>10, <1>11, <1>12, <1>13 DEF RInv

\* The run of a judge is recorded with what it decided.
LEMMA JudgeRecordReports == ASSUME IInv, RInv, JudgeRecord PROVE RInv'
<1> DEFINE run == CandidateRun(TRUE)
<1>1. /\ pc = "judge_record" /\ pc \in InStage /\ pc \in Judging /\ pc' = "settle"
      /\ candidateRuns' = Append(candidateRuns, run)
      /\ errors \subseteq errors'
      /\ UNCHANGED <<inputs, content, stage, hand, executions, stages, consensusResults,
                     output, cause>>
      /\ UNCHANGED <<role, group, before>>
  BY DEF JudgeRecord, role, group, before, InStage, Judging
<1>2. hand \in HandRecord /\ hand.status \in Outcome
  BY <1>1, InTurnFacts DEF RInv, Trials
<1>3. hand.id \in Sources \cup Judges /\ hand.id \notin RunIds
  BY <1>1, NotYetRun
<1>4. run \in RunRecord /\ run.id = hand.id
  BY <1>1, <1>2, <1>3, InHandFacts DEF CandidateRun, RunRecord, HandRecord
<1> HIDE DEF run
<1>5. /\ RecordTypes' /\ Flowed' /\ Referred' /\ Explained'
      /\ \A i, k \in DOMAIN candidateRuns' : candidateRuns'[i].id = candidateRuns'[k].id => i = k
      /\ RunIds' = RunIds \cup {hand.id} /\ Reported' = Reported
      /\ \A id \in Reported : Earlier(id)'
      /\ \A id, status : Recorded(id, status) => Recorded(id, status)'
  BY <1>1, <1>3, <1>4, RunAppended
<1>6. Admitted' /\ Answered' /\ Trials' /\ Isolated' /\ AllRecorded'
  BY <1>1, <1>5 DEF RInv, Admitted, Answered, Trials, Isolated, Derived, AllRecorded, InStage,
                    Executing, Judging
<1>7. Considered'
  <2>1. hand.id = group.judge /\ hand.id # "none"
    BY <1>1 DEF IInv, InTurn
  <2>2. /\ evaluation'.downstreamAllowed <=> evaluation'.decision \in Accepted
        /\ evaluation'.decision \notin {"pass", "repair"}
    BY JudgedSound DEF Sound
  <2> QED
    BY <1>1, <2>1, <2>2 DEF RInv, Considered, InStage, Executing, Judging
<1>8. Once'
  <2>1. StageIds' = StageIds /\ JudgeIds = {} /\ JudgeIds' = {hand.id} /\ pc' \in InStage
    BY <1>1 DEF StageIds, JudgeIds, InStage, IInv, InTurn
  <2> QED
    BY <1>5, <2>1 DEF RInv, Once
<1> QED
  BY <1>5, <1>6, <1>7, <1>8 DEF RInv
-----------------------------------------------------------------------------
(* A settled stage.                                                        *)

\* The gate before a stage always gives a reason and never asks for a retry.
LEMMA PreflightFacts ==
    ASSUME NEW r, NEW capabilities, NEW items
    PROVE  /\ preflight(r, capabilities, items).decision # "failed_retryable"
           /\ preflight(r, capabilities, items).reason # "none"
<1> DEFINE contract == Contract[r]
           policy == CASE contract.failurePolicy = "human_review" -> "human_review"
                       [] contract.failurePolicy = "block" -> "failed_terminal"
                       [] OTHER -> "abstain"
           missing == _missing_requirements(contract, capabilities)
           skip == contract.skipWhenNotApplicable /\ _is_not_applicable(r, capabilities)
<1>1. policy # "failed_retryable"
  OBVIOUS
<1>2. preflight(r, capabilities, items) \in
        {Gate("failed_terminal", "stage_input_limit_exceeded"),
         Gate("pass", "requirements_satisfied"), Gate("not_applicable", "no_applicable_input"),
         Gate(policy, "required_capability_missing")}
  <2>1. CASE items > contract.maxInputItems
    BY <2>1 DEF preflight
  <2>2. CASE ~(items > contract.maxInputItems) /\ missing = {}
    BY <2>2 DEF preflight
  <2>3. CASE ~(items > contract.maxInputItems) /\ missing # {} /\ skip
    BY <2>3 DEF preflight
  <2>4. CASE ~(items > contract.maxInputItems) /\ missing # {} /\ ~skip
    BY <2>4 DEF preflight
  <2> QED
    BY <2>1, <2>2, <2>3, <2>4
<1> HIDE DEF policy
<1> QED
  BY <1>1, <1>2 DEF Gate

\* What the gate after a stage says, by the status of the stage.
LEMMA PostflightFacts ==
    ASSUME NEW r, NEW b, NEW a, NEW error, NEW exceeded
    PROVE  /\ LET g == postflight(r, b, a, "skipped", error, exceeded) IN
              error # "none" => g.decision = "abstain"
           /\ LET g == postflight(r, b, a, "failed", error, exceeded) IN
              /\ g.decision \in Blocking
              /\ g.decision = "failed_retryable" => g.reason = "model_runtime_error"
           /\ LET g == postflight(r, b, a, "succeeded", error, exceeded) IN
              /\ g.decision \in Blocking \cup {"pass", "abstain"}
              /\ g.decision = "failed_retryable" => g.reason = "stage_wall_time_exceeded"
<1>1. error # "none" => postflight(r, b, a, "skipped", error, exceeded).decision = "abstain"
  BY DEF postflight, Gate
<1>2. LET g == postflight(r, b, a, "failed", error, exceeded) IN
        /\ g.decision \in Blocking
        /\ g.decision = "failed_retryable" => g.reason = "model_runtime_error"
  BY DEF postflight, Gate, Blocking
<1>3. LET g == postflight(r, b, a, "succeeded", error, exceeded) IN
        /\ g.decision \in Blocking \cup {"pass", "abstain"}
        /\ g.decision = "failed_retryable" => g.reason = "stage_wall_time_exceeded"
  BY DEF postflight, Gate, Blocking
<1> QED
  BY <1>1, <1>2, <1>3

\* What a step that settles a stage has to respect.
LEMMA SettledReports ==
    ASSUME IInv, RInv, pc \in {"preflight", "settle"},
           NEW record \in StageRecord, SettleStage(record),
           UNCHANGED candidateRuns, errors \subseteq errors',
           Consistent(record), Fine(record) \/ errors' # {},
           consensusResults' \in Seq(ConsensusRecord), Flowed', Referred',
           RunIds = Reported', \A id \in Reported' : Earlier(id)'
    PROVE  RInv'
<1>1. /\ stages' = Append(stages, record) /\ pc' \in {"preflight", "finish"}
      /\ executions' = <<>> /\ DOMAIN executions' = {} /\ evaluation' = NoEvaluation
      /\ stages \in Seq(StageRecord)
  BY DEF SettleStage, IInv, TypeOK
<1>2. RecordTypes'
  BY DEF RInv, RecordTypes
<1>3. Admitted' /\ Trials' /\ Isolated' /\ AllRecorded' /\ Answered'
  BY <1>1 DEF Admitted, Trials, Isolated, AllRecorded, Answered, InStage, Executing, Judging
<1>4. Considered'
  BY <1>1 DEF Considered, NoEvaluation, Evaluation, Accepted, InStage, Executing, Judging
<1>5. Once'
  <2>1. StageIds' = {} /\ JudgeIds' = {} /\ RunIds' = RunIds
    BY <1>1 DEF StageIds, JudgeIds, RunIds
  <2> QED
    BY <1>1, <2>1 DEF RInv, Once
<1>6. Explained'
  <2>1. Range(stages') = Range(stages) \cup {record}
    BY <1>1, RangeAppend
  <2>2. \A s \in Range(stages) : Consistent(s) /\ (Fine(s) \/ errors' # {})
    BY DEF RInv, Explained
  <2> QED
    BY <2>1, <2>2 DEF Explained
<1> QED
  BY <1>2, <1>3, <1>4, <1>5, <1>6 DEF RInv

\* A stage that is skipped has no attempts; unless it had nothing to do, an
\* error explains it.
LEMMA SkipReports == ASSUME IInv, RInv, SkipStage \/ SkipUnconfigured PROVE RInv'
<1> DEFINE pre == preflight(role, before, BatchItems)
<1>1. /\ pc = "preflight" /\ role \in Role
      /\ UNCHANGED <<inputs, content, candidateRuns, consensusResults>>
  BY SkipFacts DEF SkipStage, SkipUnconfigured
<1>2. pre.decision # "failed_retryable" /\ pre.reason # "none" /\ pre \in GateRecord
  BY <1>1, PreflightFacts, PreflightType
<1> HIDE DEF pre
<1>3. PICK post, error :
        /\ SettleStage(Skipped(pre, post, error))
        /\ error = "none" <=> pre.decision = "not_applicable"
        /\ post \in GateRecord /\ post.decision \in {"none", "abstain"} /\ error \in Reason
        /\ errors \subseteq errors' /\ (error # "none" => errors' # {})
  <2>1. CASE SkipStage
    <3> DEFINE e == IF pre.decision = "not_applicable" THEN "none" ELSE pre.reason
    <3>1. /\ SettleStage(Skipped(pre, NoGate, e))
          /\ errors' = IF e = "none" THEN errors ELSE errors \cup {<<role, e>>}
      BY <2>1 DEF SkipStage, pre
    <3>2. (e = "none" <=> pre.decision = "not_applicable") /\ e \in Reason
      BY <1>2, Reasons DEF GateRecord, Errors
    <3>3. NoGate.decision = "none" /\ NoGate \in GateRecord
      BY Reasons DEF NoGate, Gate, GateRecord, Errors
    <3> HIDE DEF e
    <3> QED
      BY <3>1, <3>2, <3>3
  <2>2. CASE SkipUnconfigured
    <3> DEFINE e == IF role = "fire_detection" THEN "checkpoint_not_configured"
                                               ELSE "model_not_configured"
               after == postflight(role, before, before, "skipped", e, "none")
    <3>1. /\ SettleStage(Skipped(pre, after, e)) /\ pre.decision = "pass"
          /\ errors' = errors \cup {<<role, e>>}
      BY <2>2 DEF SkipUnconfigured, pre
    <3>2. e # "none" /\ e \in Reason
      BY Reasons DEF GateReason
    <3> HIDE DEF e
    <3>3. after \in GateRecord /\ after.decision = "abstain"
      BY <1>1, <3>2, PostflightType, PostflightFacts
    <3> HIDE DEF after
    <3> QED
      BY <3>1, <3>2, <3>3
  <2> QED
    BY <2>1, <2>2
<1> DEFINE record == Skipped(pre, post, error)
<1>4. /\ record.status = "skipped" /\ record.run.status = "skipped" /\ record.run.error = error
      /\ record.pre = pre /\ record.post = post /\ record.attempts = <<>>
  BY DEF Skipped
<1>5. record \in StageRecord /\ SettleStage(record)
  BY <1>1, <1>2, <1>3, SkippedType
<1> HIDE DEF record
<1>6. Consistent(record) /\ (Fine(record) \/ errors' # {})
  <2>1. Len(record.attempts) = 0
    BY <1>4
  <2> QED
    BY <1>2, <1>3, <1>4, <2>1 DEF Consistent, Fine, AttemptsAgree
<1>7. Flowed'
  BY <1>1 DEF RInv, Flowed, Recorded
<1>8. Referred'
  <2>1. stages' = Append(stages, record) /\ stages \in Seq(StageRecord)
    BY <1>5 DEF SettleStage, IInv, TypeOK
  <2>2. Range(stages) \subseteq Range(stages')
    BY <1>5, <2>1, RangeAppend
  <2> QED
    BY <1>1, <2>2 DEF RInv, Referred
<1>9. Reported' = Reported /\ RunIds = Reported
  <2>1. StageIds = {} /\ JudgeIds = {}
    BY <1>1 DEF StageIds, JudgeIds, IInv, InTurn
  <2> QED
    BY <1>1, <2>1 DEF RInv, Once, Reported
<1>10. \A id \in Reported' : Earlier(id)'
  <2>1. stage' = stage + 1 /\ stage \in Nat
    BY <1>5 DEF SettleStage, IInv, TypeOK
  <2> QED
    BY <1>9, <2>1 DEF RInv, Once, Earlier
<1> QED
  BY <1>1, <1>3, <1>5, <1>6, <1>7, <1>8, <1>9, <1>10, SettledReports DEF RInv, RecordTypes

\* The execution that stands for a stage about to be settled is a finished one:
\* the selected one, which succeeded, or else the first.
LEMMA Standing ==
    ASSUME IInv, RInv, pc = "settle",
           NEW chosen,
           chosen = executions[IF evaluation.downstreamAllowed
                               THEN CHOOSE i \in DOMAIN executions :
                                       executions[i].id = evaluation.selected
                               ELSE 1]
    PROVE  /\ \E i \in DOMAIN executions : chosen = executions[i]
           /\ evaluation.downstreamAllowed =>
                chosen.id = evaluation.selected /\ chosen.status = "succeeded"
           /\ Successful = {} => ~evaluation.downstreamAllowed /\ chosen.status = "failed"
<1>1. pc \in InStage
  BY DEF InStage
<1>2. /\ executions \in Seq(HandRecord) /\ Len(executions) > 0
      /\ \A i, k \in DOMAIN executions : executions[i].id = executions[k].id => i = k
  <2>1. Len(executions) > 0
    BY <1>1 DEF IInv, InTurn, InStage, Executing
  <2> QED
    BY <1>1, <2>1, InTurnFacts DEF IsInjective
<1>3. CASE evaluation.downstreamAllowed
  <2>1. evaluation.selected \in SuccessfulIds
    BY <1>3 DEF IInv, Selects
  <2>2. PICK n \in DOMAIN executions :
          executions[n].id = evaluation.selected /\ executions[n].status = "succeeded"
    BY <2>1 DEF SuccessfulIds, Successful
  <2>3. (CHOOSE i \in DOMAIN executions : executions[i].id = evaluation.selected) = n
    BY <1>2, <2>2
  <2>4. Successful # {}
    BY <2>2 DEF Successful
  <2> QED
    BY <1>3, <2>2, <2>3, <2>4
<1>4. CASE ~evaluation.downstreamAllowed
  <2>1. 1 \in DOMAIN executions /\ chosen = executions[1]
    BY <1>2, <1>4
  <2>2. Successful = {} => chosen.status = "failed"
    BY <2>1 DEF Successful, RInv, Trials, Tidy, Outcome
  <2> QED
    BY <1>4, <2>1, <2>2
<1> QED
  BY <1>3, <1>4

\* The consensus record of a stage, and who is covered by it.
SettledConsensus ==
    [role |-> role, ids |-> [n \in DOMAIN executions |-> executions[n].id],
     decision |-> evaluation.decision, selected |-> evaluation.selected,
     allowed |-> evaluation.downstreamAllowed, successful |-> Cardinality(Successful),
     required |-> group.minimumSuccessful,
     judge |-> IF hand.id = "none" THEN "none" ELSE group.judge]

LEMMA ConsensusFacts ==
    ASSUME IInv, RInv, pc = "settle"
    PROVE  /\ SettledConsensus \in ConsensusRecord
           /\ Covered(SettledConsensus) = StageIds \cup JudgeIds
           /\ Len(SettledConsensus.ids) = Len(executions)
           /\ Cardinality(Successful) \in Nat /\ Cardinality(Successful) <= Len(executions)
           /\ StageIds \cup JudgeIds \subseteq Named(role)
<1> DEFINE ids == [n \in DOMAIN executions |-> executions[n].id]
           judge == IF hand.id = "none" THEN "none" ELSE group.judge
<1>1. pc \in InStage
  BY DEF InStage
<1>2. /\ executions \in Seq(HandRecord) /\ role \in Role /\ evaluation \in EvaluationRecord
      /\ \A i \in DOMAIN executions : executions[i].id \in Sources
  BY <1>1, InHandFacts, InTurnFacts DEF IInv, TypeOK
<1>3. ids \in Seq(Sources) /\ Len(ids) = Len(executions) /\ Range(ids) = StageIds
  <2>1. DOMAIN ids = 1 .. Len(executions) /\ Len(executions) \in Nat
    BY <1>2
  <2>2. ids \in Seq(Sources) /\ Len(ids) = Len(executions)
    BY <1>2, <2>1
  <2>3. Range(ids) = StageIds
    BY <1>2 DEF Range, StageIds
  <2> QED
    BY <2>2, <2>3
<1>4. judge = hand.id /\ judge \in Judges \cup {"none"} /\ JudgeIds = {judge} \ {"none"}
  <2>1. hand.id \in {"none", group.judge}
    BY DEF RInv, Considered
  <2>2. group.judge \in Judges \cup {"none"}
    BY <1>1, InHandFacts, Registered
  <2> QED
    BY <2>1, <2>2 DEF JudgeIds
<1>5. Cardinality(Successful) \in Nat /\ Cardinality(Successful) <= Len(executions)
  <2>1. Len(executions) \in Nat /\ Successful \subseteq 1 .. Len(executions)
    BY <1>2 DEF Successful
  <2>2. IsFiniteSet(1 .. Len(executions)) /\ Cardinality(1 .. Len(executions)) = Len(executions)
    BY <2>1, FS_Interval
  <2> QED
    BY <2>1, <2>2, FS_Subset, FS_CardinalityType
<1>6. group.minimumSuccessful \in Nat
  BY <1>1, InTurnFacts DEF GroupRecord
<1>7. SettledConsensus.ids = ids /\ SettledConsensus.judge = judge
  BY DEF SettledConsensus
<1>8. SettledConsensus \in ConsensusRecord
  BY <1>2, <1>3, <1>4, <1>5, <1>6 DEF SettledConsensus, ConsensusRecord, EvaluationRecord
<1>9. Covered(SettledConsensus) = StageIds \cup JudgeIds
  BY <1>3, <1>4, <1>7 DEF Covered
<1>10. StageIds \cup JudgeIds \subseteq Named(role)
  <2>1. StageIds \subseteq Candidates(role)
    BY <1>1, InTurnFacts DEF StageIds
  <2>2. JudgeIds \subseteq {Group[role].judge} \ {"none"}
    BY <1>1, <1>4, InTurnFacts DEF JudgeIds
  <2> QED
    BY <2>1, <2>2 DEF Named
<1> QED
  BY <1>3, <1>5, <1>7, <1>8, <1>9, <1>10

\* What the settling of a stage puts into its record.
LEMMA SettledRecord ==
    ASSUME IInv, RInv, Settle
    PROVE  \E record \in StageRecord :
             /\ SettleStage(record) /\ record.role = role
             /\ record.status = IF evaluation.downstreamAllowed THEN "succeeded" ELSE "failed"
             /\ evaluation.downstreamAllowed => record.run.model = evaluation.selected
             /\ Consistent(record)
             /\ errors \subseteq errors' /\ (Fine(record) \/ errors' # {})
<1> DEFINE accepted == evaluation.downstreamAllowed
           chosen == executions[IF evaluation.downstreamAllowed
                                THEN CHOOSE i \in DOMAIN executions :
                                        executions[i].id = evaluation.selected
                                ELSE 1]
           results == IF accepted THEN chosen.results ELSE content
           error == CASE accepted -> "none"
                      [] ~accepted /\ Successful = {} -> chosen.error
                      [] OTHER -> evaluation.reason
           status == IF accepted THEN "succeeded" ELSE "failed"
           pre == preflight(role, before, BatchItems)
           post(exceeded) == postflight(role, before, derive_capabilities(inputs, results),
                                        status, error, exceeded)
           record(exceeded) ==
             [role |-> role, status |-> status,
              run |-> [status |-> IF Successful = {} THEN chosen.status ELSE status,
                       model |-> chosen.id, error |-> error],
              pre |-> pre, post |-> post(exceeded),
              retryable |-> post(exceeded).decision = "failed_retryable",
              attempts |-> IF accepted \/ Successful = {} THEN chosen.attempts ELSE <<>>]
<1>1. /\ pc = "settle" /\ pc \in InStage /\ evaluation \in EvaluationRecord
      /\ accepted \in BOOLEAN /\ role \in Role
  BY Order DEF Settle, InStage, IInv, TypeOK, EvaluationRecord, Progress, role
<1>2. PICK exceeded \in {"none", "wall_time", "output"} :
        /\ SettleStage(record(exceeded))
        /\ errors' = errors
             \cup (IF accepted THEN {} ELSE {<<role, evaluation.reason>>})
             \cup (IF post(exceeded).decision \in Blocking
                   THEN {<<role, post(exceeded).reason>>} ELSE {})
  BY DEF Settle
<1>3. /\ \E i \in DOMAIN executions : chosen = executions[i]
      /\ accepted => chosen.id = evaluation.selected /\ chosen.status = "succeeded"
      /\ Successful = {} => ~accepted /\ chosen.status = "failed"
      /\ chosen \in HandRecord /\ chosen.id \in Sources
  <2>1. \E i \in DOMAIN executions : chosen = executions[i]
    <3>1. pc = "settle"
      BY <1>1
    <3>2. \E c : c = chosen /\ \E i \in DOMAIN executions : c = executions[i]
      BY <3>1, Standing
    <3> QED
      BY <3>2
  <2>2. accepted => chosen.id = evaluation.selected /\ chosen.status = "succeeded"
    BY <1>1, Standing
  <2>3. Successful = {} => ~accepted /\ chosen.status = "failed"
    BY <1>1, Standing
  <2>4. chosen \in HandRecord /\ chosen.id \in Sources
    BY <1>1, Chosen
  <2> QED
    BY <2>1, <2>2, <2>3, <2>4
<1>4. Tidy(chosen)
  BY <1>3 DEF RInv, Trials
<1> HIDE DEF chosen
<1>5. pre.decision = "pass" /\ pre \in GateRecord
  BY <1>1, PreflightType DEF RInv, Admitted
<1>6. error \in Reason
  BY <1>1, <1>3, Reasons DEF HandRecord, EvaluationRecord, Errors
<1> HIDE DEF pre, error, results
<1>7. /\ post(exceeded) \in GateRecord
      /\ ~accepted => /\ post(exceeded).decision \in Blocking
                      /\ post(exceeded).decision = "failed_retryable" =>
                           post(exceeded).reason = "model_runtime_error"
      /\ accepted => /\ post(exceeded).decision \in Blocking \cup {"pass", "abstain"}
                     /\ post(exceeded).decision = "failed_retryable" =>
                          post(exceeded).reason = "stage_wall_time_exceeded"
  BY <1>1, <1>6, PostflightType, PostflightFacts
<1>8. (post(exceeded).decision = "failed_retryable") \in BOOLEAN
  OBVIOUS
<1> HIDE DEF post
<1>9. record(exceeded) \in StageRecord
  <2>1. (IF accepted \/ Successful = {} THEN chosen.attempts ELSE <<>>)
          \in Seq({"succeeded", "failed"})
    BY <1>3 DEF HandRecord
  <2>2. [status |-> IF Successful = {} THEN chosen.status ELSE status,
         model |-> chosen.id, error |-> error]
          \in [status : RunStatus, model : Seen, error : Reason]
    BY <1>3, <1>6 DEF HandRecord, RunStatus, Seen
  <2> QED
    BY <1>1, <1>5, <1>7, <1>8, <2>1, <2>2 DEF StageRecord, RunStatus
<1>10. /\ record(exceeded).role = role /\ record(exceeded).status = status
       /\ record(exceeded).run.status = status /\ record(exceeded).run.model = chosen.id
       /\ record(exceeded).pre = pre /\ record(exceeded).post = post(exceeded)
       /\ record(exceeded).attempts =
            IF accepted \/ Successful = {} THEN chosen.attempts ELSE <<>>
  BY <1>3
<1> HIDE DEF record
<1>11. AttemptsAgree(record(exceeded))
  <2>1. CASE accepted \/ Successful = {}
    <3>1. record(exceeded).status = chosen.status /\ record(exceeded).attempts = chosen.attempts
      BY <1>3, <1>10, <2>1
    <3> QED
      BY <1>4, <3>1 DEF Tidy, AttemptsAgree
  <2>2. CASE ~(accepted \/ Successful = {})
    <3>1. record(exceeded).status = "failed" /\ Len(record(exceeded).attempts) = 0
      BY <1>10, <2>2
    <3> QED
      BY <3>1 DEF AttemptsAgree
  <2> QED
    BY <2>1, <2>2
<1>12. Consistent(record(exceeded))
  BY <1>5, <1>7, <1>10, <1>11 DEF Consistent
<1>13. errors \subseteq errors' /\ (Fine(record(exceeded)) \/ errors' # {})
  <2>1. ~accepted => <<role, evaluation.reason>> \in errors'
    BY <1>2
  <2>2. post(exceeded).decision \in Blocking => <<role, post(exceeded).reason>> \in errors'
    BY <1>2
  <2>3. Fine(record(exceeded)) \/ ~accepted \/ post(exceeded).decision \in Blocking
    BY <1>7, <1>10 DEF Fine
  <2>4. errors \subseteq errors'
    BY <1>2
  <2> QED
    BY <2>1, <2>2, <2>3, <2>4
<1> QED
  BY <1>2, <1>3, <1>9, <1>10, <1>12, <1>13

\* The accepted results after a stage come from candidates an accepting
\* consensus selected.
LEMMA SettledFlow ==
    ASSUME IInv, RInv, Settle,
           consensusResults' = Append(consensusResults, SettledConsensus)
    PROVE  Flowed'
<1> DEFINE chosen == executions[IF evaluation.downstreamAllowed
                                THEN CHOOSE i \in DOMAIN executions :
                                        executions[i].id = evaluation.selected
                                ELSE 1]
           c == SettledConsensus
<1>1. /\ pc = "settle"
      /\ content' = IF evaluation.downstreamAllowed THEN chosen.results ELSE content
      /\ UNCHANGED candidateRuns
  BY DEF Settle
<1>2. /\ \E i \in DOMAIN executions : chosen = executions[i]
      /\ evaluation.downstreamAllowed =>
           chosen.id = evaluation.selected /\ chosen.status = "succeeded"
  BY <1>1, Standing
<1>3. Derived(chosen) /\ Recorded(chosen.id, chosen.status)
  BY <1>2 DEF RInv, Isolated, AllRecorded
<1> HIDE DEF chosen
<1>4. Range(consensusResults') = Range(consensusResults) \cup {c}
  BY <1>1, ConsensusFacts, RangeAppend DEF RInv, RecordTypes
<1>5. /\ c.allowed = evaluation.downstreamAllowed /\ c.selected = evaluation.selected
  BY DEF SettledConsensus
<1> HIDE DEF c
<1>6. \A id, st : Recorded(id, st) => \E r \in Range(candidateRuns') : r.id = id /\ r.status = st
  BY <1>1 DEF Recorded
<1> SUFFICES ASSUME NEW k \in Kind, content'[k] \notin {"none", "input"}
             PROVE  \E d \in Range(consensusResults') :
                      /\ d.allowed /\ d.selected = content'[k]
                      /\ \E r \in Range(candidateRuns') : r.id = d.selected /\ r.status = "succeeded"
  BY DEF Flowed, Recorded
<1>7. CASE content'[k] = content[k]
  <2>1. PICK d \in Range(consensusResults) :
          d.allowed /\ d.selected = content[k] /\ Recorded(d.selected, "succeeded")
    BY <1>7 DEF RInv, Flowed
  <2> QED
    BY <1>4, <1>6, <1>7, <2>1
<1>8. CASE content'[k] # content[k]
  <2>1. evaluation.downstreamAllowed /\ content'[k] = chosen.results[k]
    BY <1>1, <1>8
  <2>2. content'[k] = chosen.id
    BY <1>2, <1>3, <1>8, <2>1 DEF Derived
  <2>3. Recorded(c.selected, "succeeded")
    BY <1>2, <1>3, <1>5, <2>1
  <2>4. c \in Range(consensusResults') /\ c.allowed
    BY <1>4, <1>5, <2>1
  <2>5. c.selected = content'[k]
    BY <1>2, <1>5, <2>1, <2>2
  <2> QED
    BY <1>6, <2>3, <2>4, <2>5
<1> QED
  BY <1>7, <1>8

\* A stage is settled with its consensus record, its gate and its trace.
LEMMA SettleReports == ASSUME IInv, RInv, Settle PROVE RInv'
<1>1. /\ pc = "settle" /\ pc \in InStage /\ UNCHANGED candidateRuns
      /\ consensusResults' = Append(consensusResults, SettledConsensus)
  BY DEF Settle, SettledConsensus, InStage
<1>2. PICK record \in StageRecord :
        /\ SettleStage(record) /\ record.role = role
        /\ record.status = IF evaluation.downstreamAllowed THEN "succeeded" ELSE "failed"
        /\ evaluation.downstreamAllowed => record.run.model = evaluation.selected
        /\ Consistent(record)
        /\ errors \subseteq errors' /\ (Fine(record) \/ errors' # {})
  BY SettledRecord
<1>3. /\ consensusResults' \in Seq(ConsensusRecord)
      /\ Range(consensusResults') = Range(consensusResults) \cup {SettledConsensus}
  BY <1>1, ConsensusFacts, RangeAppend DEF RInv, RecordTypes
<1>4. Flowed'
  BY <1>1, SettledFlow
<1>5. Referred'
  <2>1. Range(stages') = Range(stages) \cup {record}
    BY <1>2, RangeAppend DEF SettleStage, IInv, TypeOK
  <2>2. ConsensusAgrees(SettledConsensus, record)
    <3> DEFINE c == SettledConsensus
    <3>1. /\ c.role = role /\ c.allowed = evaluation.downstreamAllowed
          /\ c.decision = evaluation.decision /\ c.selected = evaluation.selected
          /\ c.ids = [n \in DOMAIN executions |-> executions[n].id]
          /\ c.successful = Cardinality(Successful) /\ c.required = group.minimumSuccessful
          /\ c.judge = IF hand.id = "none" THEN "none" ELSE group.judge
      BY DEF SettledConsensus
    <3>2. c.successful <= Len(c.ids) /\ c.required <= Len(c.ids)
      BY <1>1, <3>1, ConsensusFacts DEF RInv, Considered, InStage, Executing
    <3>3. c.allowed => c.selected \in Range(c.ids)
      BY <1>1, <3>1 DEF IInv, Selects, SuccessfulIds, Successful, Range
    <3>4. /\ c.decision = "adjudicated" => c.judge # "none"
          /\ c.decision \in {"pass", "repair"} => c.judge = "none"
      BY <1>1, <3>1 DEF RInv, Considered
    <3>5. c.allowed <=> c.decision \in Accepted
      BY <3>1 DEF RInv, Considered
    <3> HIDE DEF c
    <3> QED
      BY <1>2, <3>1, <3>2, <3>3, <3>4, <3>5 DEF ConsensusAgrees, c
  <2> QED
    BY <1>3, <2>1, <2>2 DEF RInv, Referred
<1>6. Reported' = RunIds
  BY <1>1, <1>3, ConsensusFacts DEF RInv, Once, Reported
<1>7. \A id \in Reported' : Earlier(id)'
  <2>1. stage' = stage + 1 /\ stage \in 1 .. 4 /\ role = RoleOrder[stage] /\ role \in Roles
    BY <1>1, <1>2, InTurnFacts, Order DEF SettleStage, IInv, Progress, role
  <2>2. \A id \in Reported : Earlier(id)'
    BY <2>1 DEF RInv, Once, Earlier
  <2>3. \A id \in StageIds \cup JudgeIds : Earlier(id)'
    BY <1>1, <2>1, ConsensusFacts DEF Earlier
  <2> QED
    BY <1>6, <2>2, <2>3 DEF RInv, Once
<1> QED
  BY <1>1, <1>2, <1>3, <1>4, <1>5, <1>6, <1>7, SettledReports
-----------------------------------------------------------------------------
(* The end of a session.                                                   *)

\* What a step changes that only ends the session: nothing on record.
LEMMA EndReports ==
    ASSUME IInv, RInv, pc \notin InStage, pc' \notin InStage,
           UNCHANGED <<inputs, content, stage, hand, executions, evaluation, reportVars>>,
           cause' = "none" => cause = "none",
           Answered'
    PROVE  RInv'
<1>1. UNCHANGED <<RunIds, Reported, StageIds>>
  BY SameReport
<1>2. RecordTypes' /\ AllRecorded' /\ Flowed' /\ Referred' /\ Explained'
  BY SameReport DEF RInv
<1>3. Admitted'
  BY DEF Admitted
<1>4. Trials' /\ Considered' /\ Isolated'
  BY DEF RInv, Trials, Considered, Isolated, Derived, InStage, Executing, Judging
<1>5. Once'
  <2>1. JudgeIds = {} /\ JudgeIds' = {}
    BY DEF JudgeIds, InStage
  <2>2. \A id \in Reported : Earlier(id)'
    BY SameReport DEF RInv, Once
  <2> QED
    BY <1>1, <2>1, <2>2 DEF RInv, Once, reportVars
<1> QED
  BY <1>2, <1>3, <1>4, <1>5 DEF RInv

\* The status is worked out from the settled stages.
LEMMA FinishHonest == ASSUME IInv, RInv, Finish PROVE Honest'
<1> DEFINE failed == \E r \in Runs : r.status = "failed"
           succeeded == \E r \in Runs : r.status = "succeeded"
           incomplete == \/ \E r \in Runs : r.status = "skipped" /\ r.error # "none"
                         \/ \E g \in Gates : g.decision \in Blocking
           retry == \E g \in Gates : g.decision = "failed_retryable"
<1>1. /\ output'.status = CASE ~failed /\ ~incomplete -> "succeeded"
                            [] (failed \/ incomplete) /\ (succeeded \/ incomplete) ->
                                 "partial_failure"
                            [] OTHER -> "failed"
      /\ output'.retryable <=> retry
      /\ UNCHANGED <<stages, errors>>
  BY DEF Finish, reportVars
<1>2. \A s \in Range(stages) : Consistent(s) /\ (Fine(s) \/ errors # {})
  BY DEF RInv, Explained
<1>3. \A s \in Range(stages) : s.run \in Runs /\ s.pre \in Gates /\ s.post \in Gates
  BY DEF Range, Runs, Gates
<1>4. /\ \A r \in Runs : \E s \in Range(stages) : r = s.run
      /\ \A g \in Gates : \E s \in Range(stages) : g = s.pre \/ g = s.post
  BY DEF Range, Runs, Gates
<1>5. \A s \in Range(stages) : s.status \in RunStatus
  <2>1. stages \in Seq(StageRecord)
    BY DEF IInv, TypeOK
  <2>2. \A s \in Range(stages) : s \in StageRecord
    BY <2>1 DEF Range
  <2> QED
    BY <2>2 DEF StageRecord
<1>6. failed => incomplete
  BY <1>2, <1>3, <1>4 DEF Consistent
<1>7. (~failed /\ ~incomplete) <=> \A s \in Range(stages) : Fine(s)
  <2>1. ASSUME ~failed, ~incomplete, NEW s \in Range(stages) PROVE Fine(s)
    BY <1>2, <1>3, <1>5, <2>1 DEF Consistent, Fine, RunStatus
  <2>2. ASSUME \A s \in Range(stages) : Fine(s) PROVE ~failed /\ ~incomplete
    <3>1. \A s \in Range(stages) :
             /\ s.run.status # "failed" /\ (s.run.status = "skipped" => s.run.error = "none")
             /\ s.pre.decision \notin Blocking /\ s.post.decision \notin Blocking
      BY <1>2, <2>2 DEF Consistent, Fine, Blocking
    <3> QED
      BY <1>4, <3>1
  <2> QED
    BY <2>1, <2>2
<1>8. retry => /\ incomplete
               /\ \E s \in Range(stages) :
                     s.post.reason \in {"model_runtime_error", "stage_wall_time_exceeded"}
  <2> SUFFICES ASSUME NEW g \in Gates, g.decision = "failed_retryable"
               PROVE  /\ incomplete
                      /\ \E s \in Range(stages) :
                            s.post.reason \in {"model_runtime_error", "stage_wall_time_exceeded"}
    OBVIOUS
  <2>1. incomplete
    BY DEF Blocking
  <2>2. PICK s \in Range(stages) : g = s.pre \/ g = s.post
    BY <1>4
  <2>3. s.post.reason \in {"model_runtime_error", "stage_wall_time_exceeded"}
    BY <1>2, <2>2 DEF Consistent
  <2> QED
    BY <2>1, <2>3
<1> HIDE DEF failed, succeeded, incomplete, retry
<1>9. output'.status = IF ~failed /\ ~incomplete THEN "succeeded" ELSE "partial_failure"
  BY <1>1, <1>6
<1>10. (output'.status = "succeeded") <=> \A s \in Range(stages) : Fine(s)
  BY <1>7, <1>9
<1>11. output'.status # "succeeded" => errors # {}
  BY <1>2, <1>10
<1> QED
  BY <1>1, <1>8, <1>9, <1>10, <1>11 DEF Honest

\* The output is made and the memory finalised.
LEMMA FinishReports == ASSUME IInv, RInv, Finish \/ Finalize PROVE RInv'
<1>1. /\ pc \in {"finish", "finalize"} /\ pc' \in {"finalize", "returned", "raised"}
      /\ UNCHANGED <<inputs, content, stage, hand, executions, evaluation, reportVars>>
      /\ cause' = "none" => cause = "none"
  BY DEF Finish, Finalize, stageVars
<1>2. Answered'
  <2>1. CASE Finish
    BY <2>1, FinishHonest DEF Answered
  <2>2. CASE Finalize
    <3>1. UNCHANGED <<stages, errors, output>> /\ pc = "finalize"
      BY <2>2 DEF Finalize, reportVars
    <3>2. Honest <=> Honest'
      BY <3>1 DEF Honest
    <3> QED
      BY <1>1, <3>1, <3>2 DEF RInv, Answered
  <2> QED
    BY <2>1, <2>2
<1> QED
  BY <1>1, <1>2, EndReports DEF InStage, Executing, Judging

\* Nothing changes.
LEMMA StutterReports == ASSUME RInv, UNCHANGED vars PROVE RInv'
<1>1. /\ UNCHANGED <<inputs, content, stage, pc, hand, executions, evaluation, resident,
                     reportVars, stages, errors, output, cause>>
  BY DEF vars, stageVars, reportVars
<1>2. UNCHANGED <<role, group, before, RunIds, Reported, StageIds, JudgeIds>>
  BY <1>1, SameReport DEF JudgeIds
<1>3. RecordTypes' /\ AllRecorded' /\ Flowed' /\ Referred' /\ Explained'
  BY <1>1, SameReport DEF RInv
<1>4. Admitted' /\ Trials' /\ Considered' /\ Isolated'
  BY <1>1, <1>2 DEF RInv, Admitted, Trials, Considered, Isolated, Derived
<1>5. Once'
  <2>1. \A id \in Reported : Earlier(id)'
    BY <1>1, SameReport DEF RInv, Once
  <2> QED
    BY <1>1, <1>2, <2>1 DEF RInv, Once, reportVars
<1>6. Answered'
  BY <1>1 DEF RInv, Answered, Honest
<1> QED
  BY <1>3, <1>4, <1>5, <1>6 DEF RInv

\* A session starts with nothing on record.
LEMMA InitReports == ASSUME Init PROVE RInv
<1>1. /\ executions = <<>> /\ candidateRuns = <<>> /\ consensusResults = <<>> /\ stages = <<>>
      /\ pc = "preflight" /\ stage = 1 /\ evaluation = NoEvaluation
      /\ \A k \in Kind : content[k] \in {"none", "input"}
  BY DEF Init, InitialContent
<1>2. /\ DOMAIN executions = {} /\ DOMAIN candidateRuns = {} /\ Range(candidateRuns) = {}
      /\ Range(consensusResults) = {} /\ Range(stages) = {}
  BY <1>1 DEF Range
<1>3. RecordTypes /\ Admitted /\ Trials /\ Isolated /\ AllRecorded /\ Flowed /\ Referred
      /\ Explained /\ Answered
  BY <1>1, <1>2 DEF RecordTypes, Admitted, Trials, Isolated, AllRecorded, Flowed, Referred,
                    Explained, Answered, InStage, Executing, Judging
<1>4. Considered
  BY <1>1 DEF Considered, NoEvaluation, Evaluation, Accepted, InStage, Executing, Judging
<1>5. Once
  BY <1>1, <1>2 DEF Once, RunIds, Reported, StageIds, JudgeIds
<1> QED
  BY <1>3, <1>4, <1>5 DEF RInv
-----------------------------------------------------------------------------
(* The theorems.                                                           *)

\* What a session has on record agrees with where it is, at every step.
THEOREM ReportInvariance == Spec => []RInv
<1>1. Init => RInv
  BY InitReports
<1>2. IInv /\ RInv /\ [Next]_vars => RInv'
  BY SkipReports, StartStageReports, LoadReports, InferReports, ReleaseReports, EvaluateReports,
     JudgingReports, JudgeRecordReports, AbortReports, SettleReports, FinishReports, StutterReports
  DEF Next, Ended
<1> QED
  BY <1>1, <1>2, Invariance, PTL DEF Spec

\* Downstream stages see the outputs of accepted candidates only, and no
\* candidate sees what another one of its stage has found: "result" in
\* run_with_trace is replaced after an accepting consensus only.
THEOREM FlowIsAccepted == Spec => []OnlyAcceptedResultsFlow
<1>1. RInv => OnlyAcceptedResultsFlow
  <2> SUFFICES ASSUME RInv PROVE OnlyAcceptedResultsFlow
    OBVIOUS
  <2>1. \A e \in Range(executions) : \A k \in Kind : e.results[k] \in {content[k], "none", e.id}
    BY DEF RInv, Isolated, Derived, Range
  <2> QED
    BY <2>1 DEF RInv, Flowed, Recorded, OnlyAcceptedResultsFlow
<1> QED
  BY <1>1, ReportInvariance, PTL

\* The output of a session that returns satisfies the contract that refers its
\* parts to each other (WorkerJobOutputV2): traces in the order of the stages,
\* attempts and statuses that agree, one record per run, and every run covered
\* by the consensus of its stage.
THEOREM ReferencesHold == Spec => []OutputReferencesHold
<1>1. IInv /\ RInv => OutputReferencesHold
  <2> SUFFICES ASSUME IInv, RInv, pc = "returned" PROVE OutputReferencesHold
    BY DEF OutputReferencesHold
  <2>1. cause = "none" /\ stage = 5 /\ Len(stages) = 4 /\ stages \in Seq(StageRecord)
    BY Order DEF IInv, Progress, TypeOK
  <2>2. [i \in DOMAIN stages |-> stages[i].role] = RoleOrder
    <3>1. DOMAIN stages = 1 .. 4 /\ \A i \in 1 .. 4 : stages[i].role = RoleOrder[i]
      BY <2>1 DEF IInv, Progress
    <3>2. RoleOrder = [i \in 1 .. 4 |-> RoleOrder[i]]
      BY DEF RoleOrder
    <3> QED
      BY <3>1, <3>2
  <2>3. executions = <<>> /\ StageIds = {} /\ JudgeIds = {}
    BY <2>1 DEF RInv, Once, StageIds, JudgeIds, InStage, Executing, Judging
  <2>4. \A s \in Range(stages) : AttemptsAgree(s) /\ s.run.status = s.status
    BY DEF RInv, Explained, Consistent
  <2>5. RunIds = Reported
    BY <2>3 DEF RInv, Once
  <2> QED
    BY <2>2, <2>4, <2>5 DEF OutputReferencesHold, RInv, Referred, Once, RunIds, Reported
<1> QED
  BY <1>1, Invariance, ReportInvariance, PTL

\* The status of the batch tells the truth about its stages (the end of
\* run_with_trace): a success has no failed, blocked or missing stage, "failed"
\* is never said, and a retry is only promised for a stage that failed at run time.
THEOREM StatusTellsTheTruth == Spec => []StatusIsHonest
<1>1. IInv /\ RInv => StatusIsHonest
  <2> SUFFICES ASSUME IInv, RInv, pc = "returned" PROVE StatusIsHonest
    BY DEF StatusIsHonest
  <2>1. Honest
    BY DEF IInv, Progress, RInv, Answered
  <2> QED
    BY <2>1 DEF Honest, Fine, StatusIsHonest
<1> QED
  BY <1>1, Invariance, ReportInvariance, PTL
=============================================================================
