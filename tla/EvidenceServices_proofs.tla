---------------------- MODULE EvidenceServices_proofs ----------------------
(***************************************************************************)
(* What the services promise about the state they keep, for any number of  *)
(* callers, events, retries and connections: no revision of the evidence   *)
(* is overwritten, and no model stays on the GPU behind its invocation.    *)
(* And what the two functions on evidence compute, for any number of       *)
(* hypotheses and of records: a ranked batch, and a merge without order.   *)
(***************************************************************************)
EXTENDS EvidenceServices, FiniteSetTheorems, TLAPS

(* The YOLO service. *)

Places == {"out", "body", "decode", "read", "locate", "lock", "run", "publish", "answered"}
YoloAnswers == {"none", "probed", "refused", "invalid", "failed", "done"}

CallType == [pc : Places, made : Nat, route : Routes \cup {"none"},
             candidate : Candidates \cup {NoCandidate}, seen : Nat,
             found : Findings \cup {"none"}, answer : YoloAnswers]
Entry == [on : Nat, seen : Nat, found : Findings \cup {"none"}]

YoloTypeOK == /\ calls \in [Callers -> CallType]
              /\ published \in [Candidates -> Seq(Entry)]

\* The n-th revision was made of the one before it.
Revisions == \A e \in Candidates : \A n \in 1 .. Len(published[e]) :
                 published[e][n].seen = n - 1 /\ published[e][n].on = n - 1

\* The revision right after the one a call read holds what the call found.
Stored(call) == /\ call.seen < Len(published[call.candidate])
                /\ published[call.candidate][call.seen + 1].found = call.found

\* A call that is on its way has a candidate and no answer; one for the
\* backend takes neither of the ways that end without it.
CallRight(c) ==
    /\ calls[c].pc \in Places \ {"out", "answered"} =>
         calls[c].candidate \in Candidates /\ calls[c].answer = "none"
    /\ calls[c].pc = "body" => calls[c].route \in Routes
    /\ calls[c].pc = "locate" => calls[c].route # "backend"
    /\ calls[c].answer = "done" /\ calls[c].route = "backend" =>
         calls[c].candidate \in Candidates /\ Stored(calls[c])

YoloInv == YoloTypeOK /\ Revisions /\ \A c \in Callers : CallRight(c)

LEMMA YoloStarts == NoCalls => YoloInv
<1> SUFFICES ASSUME NoCalls PROVE YoloInv
  OBVIOUS
<1>1. calls \in [Callers -> CallType]
  BY DEF NoCalls, CallType, Places, YoloAnswers
<1>2. published \in [Candidates -> Seq(Entry)]
  BY DEF NoCalls
<1>3. Revisions
  BY DEF NoCalls, Revisions
<1>4. \A c \in Callers : CallRight(c)
  BY DEF NoCalls, CallRight, Places
<1> QED
  BY <1>1, <1>2, <1>3, <1>4 DEF YoloInv, YoloTypeOK

\* What an answer and a step leave of a call.
LEMMA AnswerOfCall ==
    ASSUME YoloTypeOK, NEW c \in Callers, NEW answer \in YoloAnswers, Answers(c, answer)
    PROVE  /\ calls' \in [Callers -> CallType]
           /\ calls'[c].pc = "answered" /\ calls'[c].answer = answer
           /\ calls'[c].route = calls[c].route /\ calls'[c].seen = calls[c].seen
           /\ calls'[c].made = calls[c].made /\ calls'[c].found = calls[c].found
           /\ calls'[c].candidate = calls[c].candidate
           /\ \A d \in Callers \ {c} : calls'[d] = calls[d]
<1> DEFINE call == [calls[c] EXCEPT !.pc = "answered", !.answer = answer]
<1>1. calls[c] \in CallType /\ "answered" \in Places
  BY DEF YoloTypeOK, Places
<1>2. /\ call \in CallType
      /\ call.pc = "answered" /\ call.answer = answer /\ call.route = calls[c].route
      /\ call.seen = calls[c].seen /\ call.candidate = calls[c].candidate
      /\ call.made = calls[c].made /\ call.found = calls[c].found
  BY <1>1 DEF CallType
<1>3. calls' = [calls EXCEPT ![c] = call]
  BY DEF Answers
<1> HIDE DEF call
<1> QED
  BY <1>2, <1>3 DEF YoloTypeOK

LEMMA StepOfCall ==
    ASSUME YoloTypeOK, NEW c \in Callers, NEW pc \in Places, Goes(c, pc)
    PROVE  /\ calls' \in [Callers -> CallType]
           /\ calls'[c].pc = pc /\ calls'[c].answer = calls[c].answer
           /\ calls'[c].route = calls[c].route /\ calls'[c].seen = calls[c].seen
           /\ calls'[c].made = calls[c].made /\ calls'[c].found = calls[c].found
           /\ calls'[c].candidate = calls[c].candidate
           /\ \A d \in Callers \ {c} : calls'[d] = calls[d]
<1> DEFINE call == [calls[c] EXCEPT !.pc = pc]
<1>1. calls[c] \in CallType
  BY DEF YoloTypeOK
<1>2. /\ call \in CallType
      /\ call.pc = pc /\ call.answer = calls[c].answer /\ call.route = calls[c].route
      /\ call.seen = calls[c].seen /\ call.candidate = calls[c].candidate
      /\ call.made = calls[c].made /\ call.found = calls[c].found
  BY <1>1 DEF CallType
<1>3. calls' = [calls EXCEPT ![c] = call]
  BY DEF Goes
<1> HIDE DEF call
<1> QED
  BY <1>2, <1>3 DEF YoloTypeOK

\* A step that stores nothing: only the call that moves is to be looked at.
LEMMA OneCallMoves ==
    ASSUME YoloInv, NEW c \in Callers, UNCHANGED published,
           calls' \in [Callers -> CallType],
           \A d \in Callers \ {c} : calls'[d] = calls[d],
           CallRight(c)'
    PROVE  YoloInv'
<1>1. YoloTypeOK' /\ Revisions'
  BY DEF YoloInv, YoloTypeOK, Revisions
<1>2. ASSUME NEW d \in Callers \ {c} PROVE CallRight(d)'
  BY <1>2 DEF YoloInv, CallRight, Stored
<1> QED
  BY <1>1, <1>2 DEF YoloInv

LEMMA CallBegins ==
    ASSUME YoloInv, NEW c \in Callers, AnswerAtOnce(c) \/ Call(c)
    PROVE  YoloInv'
<1>1. PICK pc \in {"body", "answered"}, route \in Routes \cup {"none"},
           candidate \in Candidates \cup {NoCandidate},
           answer \in {"none", "probed", "refused"} :
        /\ Begins(c, pc, route, candidate, answer)
        /\ pc = "body" => candidate \in Candidates /\ route \in Routes /\ answer = "none"
  BY DEF AnswerAtOnce, Call
<1>2. UNCHANGED published
  BY DEF AnswerAtOnce, Call
<1>3. calls' \in [Callers -> CallType]
  BY <1>1 DEF Begins, YoloInv, YoloTypeOK, CallType, Places, YoloAnswers
<1>4. \A d \in Callers \ {c} : calls'[d] = calls[d]
  BY <1>1 DEF Begins, YoloInv, YoloTypeOK
<1>5. CallRight(c)'
  BY <1>1 DEF Begins, YoloInv, YoloTypeOK, CallRight, Places
<1> QED
  BY <1>2, <1>3, <1>4, <1>5, OneCallMoves

\* What a run leaves of a call whose observations go to the backend.
LEMMA RunOfCall ==
    ASSUME YoloTypeOK, NEW c \in Callers, Sees(c)
    PROVE  /\ calls' \in [Callers -> CallType]
           /\ \A d \in Callers \ {c} : calls'[d] = calls[d]
           /\ calls'[c].candidate = calls[c].candidate /\ calls'[c].route = calls[c].route
           /\ calls'[c].made = calls[c].made
           /\ \/ calls'[c].pc = "publish" /\ calls'[c].answer = calls[c].answer
              \/ calls'[c].pc = "answered" /\ calls[c].route # "backend"
<1>1. CASE Answers(c, "done") /\ calls[c].route # "backend"
  BY <1>1, AnswerOfCall DEF YoloAnswers
<1>2. ASSUME NEW found \in Findings,
             calls' = [calls EXCEPT ![c].pc = "publish", ![c].found = found]
      PROVE  /\ calls' \in [Callers -> CallType]
             /\ \A d \in Callers \ {c} : calls'[d] = calls[d]
             /\ calls'[c].candidate = calls[c].candidate /\ calls'[c].route = calls[c].route
             /\ calls'[c].made = calls[c].made
             /\ calls'[c].pc = "publish" /\ calls'[c].answer = calls[c].answer
  <2> DEFINE call == [calls[c] EXCEPT !.pc = "publish", !.found = found]
  <2>1. calls[c] \in CallType /\ "publish" \in Places
    BY DEF YoloTypeOK, Places
  <2>2. /\ call \in CallType /\ call.pc = "publish" /\ call.answer = calls[c].answer
        /\ call.candidate = calls[c].candidate /\ call.made = calls[c].made
        /\ call.route = calls[c].route
    BY <2>1 DEF CallType
  <2>3. calls' = [calls EXCEPT ![c] = call]
    BY <1>2
  <2> HIDE DEF call
  <2> QED
    BY <2>2, <2>3 DEF YoloTypeOK
<1> QED
  BY <1>1, <1>2 DEF Sees

LEMMA CallGoesOn ==
    ASSUME YoloInv, NEW c \in Callers,
           \/ BodyArrives(c) \/ Fails(c) \/ Decode(c) \/ ReadEvidence(c) \/ Locate(c)
           \/ Acquire(c) \/ Run(c)
    PROVE  YoloInv'
<1> USE DEF YoloInv, YoloTypeOK
<1>1. UNCHANGED published /\ calls[c] \in CallType
  BY DEF BodyArrives, Fails, Decode, ReadEvidence, Locate, Acquire, Run
<1>2. \/ \E pc \in Places \ {"out", "body", "answered"} :
           Goes(c, pc) /\ (pc = "locate" => calls[c].route # "backend")
      \/ \E answer \in YoloAnswers :
           Answers(c, answer) /\ (answer = "done" => calls[c].route # "backend")
      \/ ReadEvidence(c)
      \/ Sees(c)
  <2>1. ASSUME BodyArrives(c), Goes(c, FirstStep[calls[c].route])
        PROVE  \E pc \in Places \ {"out", "body", "answered"} :
                   Goes(c, pc) /\ (pc = "locate" => calls[c].route # "backend")
    <3>1. calls[c].route \in Routes
      BY <2>1 DEF BodyArrives, CallRight, Places
    <3>2. /\ FirstStep[calls[c].route] \in Places \ {"out", "body", "answered"}
          /\ FirstStep[calls[c].route] = "locate" => calls[c].route # "backend"
      BY <3>1 DEF FirstStep, Routes, Places
    <3> QED
      BY <2>1, <3>2
  <2>2. CASE Fails(c)
    BY <2>2 DEF Fails, YoloAnswers
  <2>3. CASE Decode(c)
    BY <2>3 DEF Decode, Places
  <2>4. CASE Locate(c)
    BY <2>4 DEF Locate, CallRight, YoloAnswers
  <2>5. CASE Acquire(c)
    BY <2>5 DEF Acquire, Places
  <2>6. CASE Run(c)
    BY <2>6 DEF Run, Places, YoloAnswers
  <2>7. CASE BodyArrives(c)
    BY <2>1, <2>7 DEF BodyArrives, YoloAnswers
  <2> QED
    BY <2>2, <2>3, <2>4, <2>5, <2>6, <2>7
<1>3. calls[c].pc \in Places \ {"out", "answered"}
  BY DEF BodyArrives, Fails, Decode, ReadEvidence, Locate, Acquire, Run, Places
<1>4. CASE ReadEvidence(c)
  <2>1. Revision(calls[c].candidate) \in Nat
    BY <1>3 DEF CallRight, Revision
  <2> DEFINE call == [calls[c] EXCEPT !.pc = "lock", !.seen = Revision(calls[c].candidate)]
  <2>2. /\ call \in CallType /\ call.pc = "lock" /\ call.answer = calls[c].answer
        /\ call.candidate = calls[c].candidate
    BY <1>1, <2>1 DEF CallType, Places
  <2>3. calls' = [calls EXCEPT ![c] = call]
    BY <1>4 DEF ReadEvidence
  <2> HIDE DEF call
  <2>4. /\ calls' \in [Callers -> CallType] /\ calls'[c] = call
        /\ \A d \in Callers \ {c} : calls'[d] = calls[d]
    BY <2>2, <2>3
  <2>5. CallRight(c)'
    BY <1>3, <2>2, <2>4 DEF CallRight, Places
  <2> QED
    BY <1>1, <2>4, <2>5, OneCallMoves
<1>7. CASE Sees(c)
  <2>1. CallRight(c)'
    BY <1>3, <1>7, RunOfCall DEF CallRight, Places
  <2> QED
    BY <1>1, <1>7, <2>1, OneCallMoves, RunOfCall
<1>5. ASSUME NEW pc \in Places \ {"out", "body", "answered"}, Goes(c, pc),
             pc = "locate" => calls[c].route # "backend"
      PROVE  YoloInv'
  <2>1. CallRight(c)'
    BY <1>3, <1>5, StepOfCall DEF CallRight
  <2> QED
    BY <1>1, <1>5, <2>1, OneCallMoves, StepOfCall
<1>6. ASSUME NEW answer \in YoloAnswers, Answers(c, answer),
             answer = "done" => calls[c].route # "backend"
      PROVE  YoloInv'
  <2>1. CallRight(c)'
    BY <1>3, <1>6, AnswerOfCall DEF CallRight, Places
  <2> QED
    BY <1>1, <1>6, <2>1, OneCallMoves, AnswerOfCall
<1> QED
  BY <1>2, <1>4, <1>5, <1>6, <1>7

\* What is stored is the next revision of the one it was seen in.
LEMMA CallPublishes ==
    ASSUME YoloInv, NEW c \in Callers, Publish(c)
    PROVE  YoloInv'
<1> DEFINE e == calls[c].candidate
<1>1. e \in Candidates /\ calls[c] \in CallType /\ calls[c].pc = "publish"
  BY DEF Publish, YoloInv, YoloTypeOK, CallRight, Places
<1>2. CASE UNCHANGED published /\ Answers(c, "failed")
  <2>1. "failed" \in YoloAnswers
    BY DEF YoloAnswers
  <2>2. CallRight(c)'
    BY <1>2, <2>1, AnswerOfCall DEF CallRight, YoloInv, Places
  <2> QED
    BY <1>2, <2>1, <2>2, OneCallMoves, AnswerOfCall DEF YoloInv
<1>4. CASE Known(c) /\ UNCHANGED published /\ Answers(c, "done")
  <2>1. PICK n \in 1 .. Len(published[e]) :
           published[e][n].on = calls[c].seen /\ published[e][n].found = calls[c].found
    BY <1>1, <1>4 DEF Known, Sent, YoloInv, YoloTypeOK
  <2>2. n = calls[c].seen + 1
    BY <1>1, <2>1 DEF YoloInv, YoloTypeOK, Revisions
  <2>3. Stored(calls[c])
    BY <1>1, <2>1, <2>2 DEF Stored, CallType, YoloInv, YoloTypeOK
  <2>4. "done" \in YoloAnswers
    BY DEF YoloAnswers
  <2>5. CallRight(c)'
    BY <1>1, <1>4, <2>3, <2>4, AnswerOfCall DEF CallRight, YoloInv, Places, Stored
  <2> QED
    BY <1>4, <2>4, <2>5, OneCallMoves, AnswerOfCall DEF YoloInv
<1>3. ASSUME NEW answer \in {"done", "failed"}, Answers(c, answer),
             Sent(c).on = Revision(e),
             published' = [published EXCEPT ![e] = Append(@, Sent(c))]
      PROVE  YoloInv'
  <2>1. /\ Sent(c) \in Entry
        /\ Sent(c) = [on |-> calls[c].seen, seen |-> calls[c].seen,
                       found |-> calls[c].found]
    BY <1>1 DEF Sent, Entry, CallType
  <2>2. calls[c].seen = Len(published[e])
    BY <1>3, <2>1 DEF Revision
  <2>3. published[e] \in Seq(Entry)
    BY <1>1 DEF YoloInv, YoloTypeOK
  <2>4. /\ published'[e] = Append(published[e], Sent(c))
        /\ \A f \in Candidates \ {e} : published'[f] = published[f]
        /\ DOMAIN published' = Candidates
    BY <1>1, <1>3 DEF YoloInv, YoloTypeOK
  <2>5. /\ published'[e] \in Seq(Entry)
        /\ Len(published'[e]) = Len(published[e]) + 1
        /\ \A n \in 1 .. Len(published[e]) : published'[e][n] = published[e][n]
        /\ published'[e][Len(published[e]) + 1] = Sent(c)
    BY <2>1, <2>3, <2>4
  <2>6. YoloTypeOK'
    <3>1. calls' \in [Callers -> CallType]
      BY <1>3, AnswerOfCall DEF YoloInv, YoloAnswers
    <3>2. published' \in [Candidates -> Seq(Entry)]
      BY <1>1, <1>3, <2>1, <2>3 DEF YoloInv, YoloTypeOK
    <3> QED
      BY <3>1, <3>2 DEF YoloTypeOK
  <2>7. Revisions'
    <3> SUFFICES ASSUME NEW f \in Candidates, NEW n \in 1 .. Len(published'[f])
                 PROVE  published'[f][n].seen = n - 1 /\ published'[f][n].on = n - 1
      BY DEF Revisions
    <3>1. CASE f # e
      BY <2>4, <3>1 DEF YoloInv, Revisions
    <3>3. CASE f = e /\ n \in 1 .. Len(published[e])
      BY <1>1, <2>5, <3>3 DEF YoloInv, Revisions
    <3>2. CASE f = e /\ n = Len(published[e]) + 1
      BY <2>1, <2>2, <2>3, <2>5, <3>2
    <3> QED
      BY <2>3, <2>5, <3>1, <3>2, <3>3
  <2>8. CallRight(c)'
    <3>2. /\ calls'[c].candidate = e /\ calls'[c].seen = calls[c].seen
          /\ calls'[c].pc = "answered" /\ calls'[c].found = calls[c].found
      BY <1>3, AnswerOfCall DEF YoloInv, YoloAnswers
    <3>3. /\ calls[c].seen < Len(published'[e])
          /\ published'[e][calls[c].seen + 1].found = calls[c].found
      BY <2>1, <2>2, <2>3, <2>5
    <3> QED
      BY <1>1, <3>2, <3>3 DEF CallRight, Stored, Places
  <2>9. ASSUME NEW d \in Callers \ {c} PROVE CallRight(d)'
    <3>1. calls'[d] = calls[d]
      BY <1>3 DEF Answers, YoloInv, YoloTypeOK
    <3>2. ASSUME calls[d].candidate \in Candidates, Stored(calls[d])
          PROVE  Stored(calls[d])'
      <4>1. calls[d].seen \in Nat
        BY DEF YoloInv, YoloTypeOK, CallType
      <4>2. CASE calls[d].candidate = e
        <5>1. /\ calls[d].seen + 1 \in 1 .. Len(published[e])
              /\ published[e][calls[d].seen + 1].found = calls[d].found
          BY <2>3, <3>2, <4>1, <4>2 DEF Stored
        <5>3. published'[e][calls[d].seen + 1] = published[e][calls[d].seen + 1]
          BY <2>5, <5>1
        <5>4. Len(published[e]) \in Nat
          BY <2>3
        <5>2. /\ calls[d].seen < Len(published'[e])
              /\ published'[e][calls[d].seen + 1].found = calls[d].found
          BY <2>5, <4>1, <5>1, <5>3, <5>4
        <5> QED
          BY <3>1, <4>2, <5>2 DEF Stored
      <4>3. CASE calls[d].candidate # e
        <5>1. published'[calls[d].candidate] = published[calls[d].candidate]
          BY <2>4, <3>2, <4>3
        <5> QED
          BY <3>1, <3>2, <5>1 DEF Stored
      <4> QED
        BY <4>2, <4>3
    <3> QED
      BY <3>1, <3>2 DEF YoloInv, CallRight, Stored
  <2> HIDE DEF e
  <2> QED
    BY <2>6, <2>7, <2>8, <2>9 DEF YoloInv
<1> QED
  BY <1>2, <1>3, <1>4 DEF Publish

LEMMA YoloStays == ASSUME YoloInv, YoloNext PROVE YoloInv'
<1>1. CASE Warmup
  BY <1>1 DEF Warmup, YoloInv, YoloTypeOK, Revisions, CallRight, Stored
<1>2. ASSUME NEW c \in Callers, AnswerAtOnce(c) \/ Call(c) \/ BodyArrives(c) \/ Serves(c)
      PROVE  YoloInv'
  BY <1>2, CallBegins, CallGoesOn, CallPublishes DEF Serves
<1> QED
  BY <1>1, <1>2 DEF YoloNext

\* How far a call is.
CallAt(pc) == CASE pc = "out" -> 0 [] pc = "body" -> 1 [] pc \in {"decode", "read", "locate"} -> 2
                [] pc = "lock" -> 3 [] pc = "run" -> 4 [] pc = "publish" -> 5 [] OTHER -> 6

\* A caller that takes a step begins another call, or its call gets further.
CallGetsFurther(c) ==
    \/ calls'[c].made = calls[c].made + 1
    \/ calls'[c].made = calls[c].made /\ CallAt(calls[c].pc) < CallAt(calls'[c].pc)

\* The lock belongs to the call that runs, and to none when none runs.
LockInv == \A c \in Callers : lock = c <=> calls[c].pc = "run"

\* One call moves at a time; it takes the lock, gives it back or has none.
LEMMA OneCall ==
    ASSUME YoloInv, NEW c \in Callers,
           AnswerAtOnce(c) \/ Call(c) \/ BodyArrives(c) \/ Serves(c)
    PROVE  /\ \A d \in Callers \ {c} : calls'[d] = calls[d]
           /\ CallGetsFurther(c)
           /\ \/ UNCHANGED lock /\ calls[c].pc # "run" /\ calls'[c].pc # "run"
              \/ lock = NoCaller /\ lock' = c /\ calls'[c].pc = "run"
              \/ lock' = NoCaller /\ calls[c].pc = "run" /\ calls'[c].pc # "run"
<1> USE DEF CallGetsFurther
<1>1. YoloTypeOK /\ calls[c] \in CallType
  BY DEF YoloInv, YoloTypeOK
<1>2. CASE AnswerAtOnce(c) \/ Call(c)
  <2>1. PICK pc \in {"body", "answered"}, route \in Routes \cup {"none"},
             candidate \in Candidates \cup {NoCandidate}, answer \in {"none", "probed", "refused"} :
          Begins(c, pc, route, candidate, answer)
    BY <1>2 DEF AnswerAtOnce, Call
  <2>2. UNCHANGED lock /\ calls[c].pc # "run"
    BY <1>2 DEF AnswerAtOnce, Call, MayCall
  <2>3. /\ \A d \in Callers \ {c} : calls'[d] = calls[d]
        /\ calls'[c].pc = pc /\ calls'[c].made = calls[c].made + 1
    BY <1>1, <2>1 DEF Begins, YoloTypeOK
  <2> QED
    BY <2>2, <2>3
<1>3. ASSUME NEW answer \in YoloAnswers, Answers(c, answer), calls[c].pc \in Places \ {"answered"},
             \/ UNCHANGED lock /\ calls[c].pc # "run"
             \/ lock' = NoCaller /\ calls[c].pc = "run"
      PROVE  /\ \A d \in Callers \ {c} : calls'[d] = calls[d]
             /\ CallGetsFurther(c)
             /\ calls'[c].pc = "answered"
  <2>1. /\ \A d \in Callers \ {c} : calls'[d] = calls[d]
        /\ calls'[c].pc = "answered" /\ calls'[c].made = calls[c].made
    BY <1>1, <1>3, AnswerOfCall
  <2>2. CallAt(calls[c].pc) < CallAt("answered")
    BY <1>3 DEF CallAt, Places
  <2> QED
    BY <2>1, <2>2
<1>4. ASSUME NEW pc \in Places, Goes(c, pc), CallAt(calls[c].pc) < CallAt(pc)
      PROVE  /\ \A d \in Callers \ {c} : calls'[d] = calls[d]
             /\ CallGetsFurther(c)
             /\ calls'[c].pc = pc
  BY <1>1, <1>4, StepOfCall
<1>5. CASE BodyArrives(c)
  <2>1. calls[c].pc = "body" /\ calls[c].route \in Routes /\ UNCHANGED lock
    BY <1>5 DEF BodyArrives, YoloInv, CallRight
  <2>2. /\ FirstStep[calls[c].route] \in {"lock", "decode", "read", "locate"}
    BY <2>1 DEF FirstStep, Routes
  <2>3. CallAt(calls[c].pc) < CallAt(FirstStep[calls[c].route])
    BY <2>1, <2>2 DEF CallAt
  <2>4. CASE Answers(c, "invalid")
    BY <1>3, <2>1, <2>4 DEF Places, YoloAnswers
  <2>5. CASE Goes(c, FirstStep[calls[c].route])
    BY <1>4, <2>1, <2>2, <2>3, <2>5 DEF Places
  <2> QED
    BY <1>5, <2>4, <2>5 DEF BodyArrives
<1>6. CASE Fails(c) \/ Locate(c)
  BY <1>3, <1>6 DEF Fails, Locate, Places, YoloAnswers
<1>7. CASE Decode(c)
  BY <1>4, <1>7 DEF Decode, Places, CallAt
<1>8. CASE ReadEvidence(c)
  <2> DEFINE call == [calls[c] EXCEPT !.pc = "lock", !.seen = Revision(calls[c].candidate)]
  <2>1. calls[c].pc = "read" /\ UNCHANGED lock /\ calls' = [calls EXCEPT ![c] = call]
    BY <1>8 DEF ReadEvidence
  <2>2. call.pc = "lock" /\ call.made = calls[c].made
    BY <1>1 DEF CallType
  <2> HIDE DEF call
  <2>3. calls'[c] = call /\ \A d \in Callers \ {c} : calls'[d] = calls[d]
    BY <1>1, <2>1 DEF YoloTypeOK
  <2> QED
    BY <2>1, <2>2, <2>3 DEF CallAt
<1>9. CASE Acquire(c)
  BY <1>4, <1>9 DEF Acquire, Places, CallAt
<1>10. CASE Run(c)
  <2>1. calls[c].pc = "run" /\ lock' = NoCaller
    BY <1>10 DEF Run
  <2>2. CASE Sees(c)
    BY <1>1, <2>1, <2>2, RunOfCall DEF CallAt
  <2>3. CASE Answers(c, "failed")
    BY <1>3, <2>1, <2>3 DEF Places, YoloAnswers
  <2> QED
    BY <1>10, <2>2, <2>3 DEF Run
<1>11. CASE Publish(c)
  <2>1. calls[c].pc = "publish" /\ UNCHANGED lock /\ (Answers(c, "done") \/ Answers(c, "failed"))
    BY <1>11 DEF Publish
  <2> QED
    BY <1>3, <2>1 DEF Places, YoloAnswers
<1> QED
  BY <1>2, <1>5, <1>6, <1>7, <1>8, <1>9, <1>10, <1>11 DEF Serves

LEMMA LockStays ==
    ASSUME YoloInv, LockInv, YoloNext
    PROVE  LockInv' /\ \A c \in Callers : UNCHANGED calls[c] \/ CallGetsFurther(c)
<1>1. CASE Warmup
  BY <1>1 DEF Warmup, LockInv
<1>2. ASSUME NEW c \in Callers, AnswerAtOnce(c) \/ Call(c) \/ BodyArrives(c) \/ Serves(c)
      PROVE  LockInv' /\ \A d \in Callers : UNCHANGED calls[d] \/ CallGetsFurther(d)
  <2>1. /\ \A d \in Callers \ {c} : calls'[d] = calls[d]
        /\ CallGetsFurther(c)
        /\ \/ UNCHANGED lock /\ calls[c].pc # "run" /\ calls'[c].pc # "run"
           \/ lock = NoCaller /\ lock' = c /\ calls'[c].pc = "run"
           \/ lock' = NoCaller /\ calls[c].pc = "run" /\ calls'[c].pc # "run"
    BY <1>2, OneCall
  <2>2. LockInv'
    BY <2>1, CallersAssumption DEF LockInv
  <2> QED
    BY <2>1, <2>2
<1> QED
  BY <1>1, <1>2 DEF YoloNext

-----------------------------------------------------------------------------
(* The geographic service. *)

\* A body is followed by the place named after its kind.
GeoPlaces == Kinds \cup {"out", "waiting", "body", "load", "infer", "unload", "answered"}
GeoAnswers == {"none", "ready", "refused", "invalid", "failed", "completed", "abstained"}
ConnectionType == [pc : GeoPlaces, kind : Kinds, answer : GeoAnswers]

\* A model that will be released belongs to the connection being served,
\* which is where unload comes next.
GeoInv == /\ connections \in [Clients -> ConnectionType]
          /\ held \subseteq Clients
          /\ \A c \in held \ unreleased :
               serving = c /\ connections[c].pc \in {"infer", "unload"}

LEMMA GeoStarts == NoConnections => GeoInv
  BY DEF NoConnections, GeoInv, ConnectionType, GeoPlaces, GeoAnswers, Kinds

\* What the three ways of a step leave of a connection.
LEMMA StepOfConnection ==
    ASSUME GeoInv, NEW c \in Clients, NEW pc \in GeoPlaces, NEW answer \in GeoAnswers,
           \/ Stays(c, pc)
           \/ Leaves(c, answer) /\ pc = "unload"
           \/ Ends(c, answer) /\ pc = "answered"
    PROVE  /\ connections' \in [Clients -> ConnectionType]
           /\ connections'[c].pc = pc
           /\ \A d \in Clients \ {c} : connections'[d] = connections[d]
<1>1. PICK said \in GeoAnswers :
        connections' = [connections EXCEPT ![c] = [connections[c] EXCEPT !.pc = pc, !.answer = said]]
  <2>1. CASE Stays(c, pc)
    <3>1. connections[c].answer \in GeoAnswers
      BY DEF GeoInv, ConnectionType
    <3>2. [connections[c] EXCEPT !.pc = pc] =
            [connections[c] EXCEPT !.pc = pc, !.answer = connections[c].answer]
      BY DEF GeoInv, ConnectionType
    <3> QED
      BY <2>1, <3>1, <3>2 DEF Stays
  <2>2. CASE ~Stays(c, pc)
    BY <2>2 DEF Leaves, Ends
  <2> QED
    BY <2>1, <2>2
<1> DEFINE connection == [connections[c] EXCEPT !.pc = pc, !.answer = said]
<1>2. connection \in ConnectionType /\ connection.pc = pc
  BY DEF GeoInv, ConnectionType
<1>3. connections' = [connections EXCEPT ![c] = connection]
  BY <1>1
<1> HIDE DEF connection
<1> QED
  BY <1>2, <1>3 DEF GeoInv

LEMMA GeoStays == ASSUME GeoInv, GeoNext PROVE GeoInv'
<1> USE DEF GeoPlaces, GeoAnswers, Kinds
<1>1. CASE Check
  BY <1>1 DEF Check, GeoInv
<1>2. ASSUME NEW c \in Clients, Connect(c) PROVE GeoInv'
  <2>1. PICK kind \in Kinds :
          connections' = [connections EXCEPT ![c] = [connections[c] EXCEPT !.pc = "waiting", !.kind = kind]]
    BY <1>2 DEF Connect
  <2> DEFINE connection == [connections[c] EXCEPT !.pc = "waiting", !.kind = kind]
  <2>2. connection \in ConnectionType
    BY DEF GeoInv, ConnectionType
  <2>3. connections' = [connections EXCEPT ![c] = connection]
    BY <2>1
  <2> HIDE DEF connection
  <2>4. /\ connections' \in [Clients -> ConnectionType]
        /\ \A d \in Clients \ {c} : connections'[d] = connections[d]
    BY <2>2, <2>3 DEF GeoInv
  <2>5. c \notin held \ unreleased
    BY <1>2 DEF Connect, GeoInv
  <2> QED
    BY <1>2, <2>4, <2>5 DEF Connect, GeoInv
<1>3. ASSUME NEW c \in Clients, NEW answer \in GeoAnswers, Ends(c, answer),
             serving \in {c, Idle}, c \notin held' \ unreleased', held' \subseteq held,
             unreleased \subseteq unreleased'
      PROVE  GeoInv'
  <2>1. connections' \in [Clients -> ConnectionType]
    BY <1>3, StepOfConnection
  <2>2. held' \ unreleased' \subseteq {}
    BY <1>3, ClientsAssumption DEF GeoInv
  <2> QED
    BY <1>3, <2>1, <2>2 DEF GeoInv
<1>4. ASSUME NEW c \in Clients, NEW pc \in GeoPlaces, UNCHANGED unreleased,
             connections' \in [Clients -> ConnectionType], connections'[c].pc = pc,
             serving' = c, serving = c, held' \subseteq held \cup {c},
             c \in held' => pc \in {"infer", "unload"} \/ c \in unreleased
      PROVE  GeoInv'
  BY <1>4 DEF GeoInv
<1>5. ASSUME NEW c \in Clients, NEW pc \in GeoPlaces, Stays(c, pc), serving = c,
             held' \subseteq held \cup {c}, UNCHANGED unreleased,
             c \in held' => pc \in {"infer", "unload"} \/ c \in unreleased
      PROVE  GeoInv'
  <2>1. "none" \in GeoAnswers
    OBVIOUS
  <2>2. connections' \in [Clients -> ConnectionType] /\ connections'[c].pc = pc
    BY <1>5, <2>1, StepOfConnection
  <2>3. serving' = c
    BY <1>5 DEF Stays
  <2> QED
    BY <1>4, <1>5, <2>2, <2>3
<1>6. ASSUME NEW c \in Clients, NEW answer \in GeoAnswers, Leaves(c, answer), serving = c,
             held' \subseteq held \cup {c}, UNCHANGED unreleased
      PROVE  GeoInv'
  <2>1. "unload" \in GeoPlaces
    OBVIOUS
  <2>2. connections' \in [Clients -> ConnectionType] /\ connections'[c].pc = "unload"
    BY <1>6, <2>1, StepOfConnection
  <2>3. serving' = c
    BY <1>6 DEF Leaves
  <2> QED
    BY <1>4, <1>6, <2>1, <2>2, <2>3
<1>7. ASSUME NEW c \in Clients, Accept(c) PROVE GeoInv'
  <2>1. c \notin held \ unreleased /\ held \ unreleased \subseteq {}
    BY <1>7, ClientsAssumption DEF Accept, GeoInv
  <2>2. CASE \E answer \in {"ready", "refused"} : Ends(c, answer)
    BY <1>3, <1>7, <2>1, <2>2 DEF Accept
  <2>3. CASE serving' = c /\ connections' = [connections EXCEPT ![c].pc = "body"]
    <3>1. [connections[c] EXCEPT !.pc = "body"] \in ConnectionType
      BY DEF GeoInv, ConnectionType
    <3>2. connections' \in [Clients -> ConnectionType]
      BY <2>3, <3>1 DEF GeoInv
    <3> QED
      BY <1>7, <2>1, <3>2 DEF Accept, GeoInv
  <2> QED
    BY <1>7, <2>2, <2>3 DEF Accept
<1>8. ASSUME NEW c \in Clients, BodyIsRead(c) PROVE GeoInv'
  <2>1. c \notin held \ unreleased
    BY <1>8 DEF BodyIsRead, GeoInv
  <2>2. connections[c].kind \in Kinds
    BY DEF GeoInv, ConnectionType
  <2>3. CASE Ends(c, "invalid")
    BY <1>3, <1>8, <2>1, <2>3 DEF BodyIsRead
  <2>4. CASE Stays(c, connections[c].kind)
    <3>1. connections[c].kind \in GeoPlaces /\ (c \in held => c \in unreleased)
      BY <2>1, <2>2
    <3> QED
      BY <1>5, <1>8, <2>4, <3>1 DEF BodyIsRead
  <2> QED
    BY <1>8, <2>3, <2>4 DEF BodyIsRead
<1>9. ASSUME NEW c \in Clients, Encode(c) PROVE GeoInv'
  <2>1. c \notin held \ unreleased
    BY <1>9 DEF Encode, GeoInv
  <2> QED
    BY <1>3, <1>9, <2>1 DEF Encode, Errors
<1>10. ASSUME NEW c \in Clients, Make(c) PROVE GeoInv'
  <2>1. c \notin held \ unreleased
    BY <1>10 DEF Make, GeoInv
  <2> QED
    BY <1>3, <1>10, <1>5, <2>1 DEF Make, Errors
<1>11. ASSUME NEW c \in Clients, Load(c) PROVE GeoInv'
  <2>1. CASE held' = held \cup {c} /\ Stays(c, "infer")
    BY <1>5, <1>11, <2>1 DEF Load
  <2>2. CASE /\ held' \in {held, held \cup {c}}
             /\ \E answer \in Errors : Leaves(c, answer)
    BY <1>6, <1>11, <2>2 DEF Load, Errors
  <2> QED
    BY <1>11, <2>1, <2>2 DEF Load
<1>12. ASSUME NEW c \in Clients, Infer(c) PROVE GeoInv'
  BY <1>12, <1>6 DEF Infer, Errors
<1>13. ASSUME NEW c \in Clients, Unload(c) PROVE GeoInv'
  <2>1. connections[c].answer \in GeoAnswers
    BY DEF GeoInv, ConnectionType
  <2> QED
    BY <1>3, <1>13, <2>1 DEF Unload, Errors
<1> QED
  BY <1>1, <1>2, <1>7, <1>8, <1>9, <1>10, <1>11, <1>12, <1>13 DEF GeoNext, Handle

\* How far a connection is.
ConnectionAt(pc) == CASE pc = "out" -> 0 [] pc = "waiting" -> 1 [] pc = "body" -> 2
                      [] pc \in Kinds -> 3 [] pc = "load" -> 4 [] pc = "infer" -> 5
                      [] pc = "unload" -> 6 [] OTHER -> 7

\* The server is with the connection that is under way, and idle when none is.
ServedInv == \A c \in Clients :
                 /\ serving = c <=> connections[c].pc \notin {"out", "waiting", "answered"}
                 /\ connections[c].pc = "body" => connections[c].kind # "ping"
                 /\ connections[c].pc # "ping"

\* One connection moves at a time, and forward.
LEMMA OneConnection ==
    ASSUME GeoInv, ServedInv, NEW c \in Clients, Connect(c) \/ Handle(c)
    PROVE  /\ \A d \in Clients \ {c} : connections'[d] = connections[d]
           /\ ConnectionAt(connections[c].pc) < ConnectionAt(connections'[c].pc)
           /\ \/ UNCHANGED serving /\ serving # c /\ connections'[c].pc = "waiting"
              \/ serving = Idle /\ serving' = c /\ connections'[c].pc = "body"
                   /\ connections'[c].kind # "ping"
              \/ UNCHANGED serving /\ serving = c
                   /\ connections'[c].pc \in {"encode", "outline", "load", "infer", "unload"}
              \/ serving \in {Idle, c} /\ serving' = Idle /\ connections'[c].pc = "answered"
<1> USE DEF GeoPlaces, GeoAnswers, Kinds, ConnectionAt
<1>1. connections[c] \in ConnectionType
  BY DEF GeoInv
<1>2. ASSUME NEW pc \in GeoPlaces, Stays(c, pc)
      PROVE  /\ \A d \in Clients \ {c} : connections'[d] = connections[d]
             /\ connections'[c].pc = pc /\ UNCHANGED serving
  <2>1. "none" \in GeoAnswers
    OBVIOUS
  <2> QED
    BY <1>2, <2>1, StepOfConnection DEF Stays
<1>3. ASSUME NEW answer \in GeoAnswers, Ends(c, answer)
      PROVE  /\ \A d \in Clients \ {c} : connections'[d] = connections[d]
             /\ connections'[c].pc = "answered" /\ serving' = Idle
  <2>1. "answered" \in GeoPlaces
    OBVIOUS
  <2> QED
    BY <1>3, <2>1, StepOfConnection DEF Ends
<1>4. ASSUME NEW answer \in GeoAnswers, Leaves(c, answer)
      PROVE  /\ \A d \in Clients \ {c} : connections'[d] = connections[d]
             /\ connections'[c].pc = "unload" /\ UNCHANGED serving
  <2>1. "unload" \in GeoPlaces
    OBVIOUS
  <2> QED
    BY <1>4, <2>1, StepOfConnection DEF Leaves
<1>5. CASE Connect(c)
  <2>1. PICK kind \in Kinds :
          connections' = [connections EXCEPT ![c] = [connections[c] EXCEPT !.pc = "waiting", !.kind = kind]]
    BY <1>5 DEF Connect
  <2> DEFINE connection == [connections[c] EXCEPT !.pc = "waiting", !.kind = kind]
  <2>2. connection.pc = "waiting" /\ connections' = [connections EXCEPT ![c] = connection]
    BY <1>1, <2>1 DEF ConnectionType
  <2> HIDE DEF connection
  <2>3. connections'[c] = connection /\ \A d \in Clients \ {c} : connections'[d] = connections[d]
    BY <2>2 DEF GeoInv
  <2>4. connections[c].pc = "out" /\ UNCHANGED serving /\ serving # c
    BY <1>5 DEF Connect, ServedInv
  <2> QED
    BY <2>2, <2>3, <2>4
<1>6. CASE Accept(c)
  <2>1. serving = Idle /\ connections[c].pc = "waiting"
    BY <1>6 DEF Accept
  <2>2. CASE Ends(c, "ready") \/ Ends(c, "refused")
    BY <1>3, <2>1, <2>2
  <2>3. CASE /\ connections[c].kind # "ping" /\ serving' = c
             /\ connections' = [connections EXCEPT ![c].pc = "body"]
    <3> DEFINE connection == [connections[c] EXCEPT !.pc = "body"]
    <3>1. /\ connection.pc = "body" /\ connection.kind = connections[c].kind
          /\ connections' = [connections EXCEPT ![c] = connection]
      BY <1>1, <2>3 DEF ConnectionType
    <3> HIDE DEF connection
    <3>2. connections'[c] = connection /\ \A d \in Clients \ {c} : connections'[d] = connections[d]
      BY <3>1 DEF GeoInv
    <3> QED
      BY <2>1, <2>3, <3>1, <3>2
  <2> QED
    BY <1>6, <2>2, <2>3 DEF Accept
<1>7. CASE BodyIsRead(c)
  <2>1. serving = c /\ connections[c].pc = "body" /\ connections[c].kind \in {"encode", "outline"}
    BY <1>1, <1>7 DEF BodyIsRead, ServedInv, ConnectionType
  <2>2. CASE Ends(c, "invalid")
    BY <1>3, <2>1, <2>2
  <2>3. CASE Stays(c, connections[c].kind)
    BY <1>2, <2>1, <2>3
  <2> QED
    BY <1>7, <2>2, <2>3 DEF BodyIsRead
<1>8. CASE Encode(c)
  BY <1>3, <1>8 DEF Encode, Errors
<1>9. CASE Make(c)
  BY <1>2, <1>3, <1>9 DEF Make, Errors
<1>10. CASE Load(c)
  BY <1>2, <1>4, <1>10 DEF Load, Errors
<1>11. CASE Infer(c)
  BY <1>4, <1>11 DEF Infer, Errors
<1>12. CASE Unload(c)
  <2>1. connections[c].answer \in GeoAnswers
    BY <1>1 DEF ConnectionType
  <2> QED
    BY <1>3, <1>12, <2>1 DEF Unload, Errors
<1> QED
  BY <1>5, <1>6, <1>7, <1>8, <1>9, <1>10, <1>11, <1>12 DEF Handle

LEMMA ServedStays ==
    ASSUME GeoInv, ServedInv, GeoNext
    PROVE  /\ ServedInv'
           /\ \A c \in Clients : UNCHANGED connections[c]
                \/ ConnectionAt(connections[c].pc) < ConnectionAt(connections'[c].pc)
<1>1. CASE Check
  BY <1>1 DEF Check, ServedInv
<1>2. ASSUME NEW c \in Clients, Connect(c) \/ Handle(c)
      PROVE  /\ ServedInv'
             /\ \A d \in Clients : UNCHANGED connections[d]
                  \/ ConnectionAt(connections[d].pc) < ConnectionAt(connections'[d].pc)
  <2>1. /\ \A d \in Clients \ {c} : connections'[d] = connections[d]
        /\ ConnectionAt(connections[c].pc) < ConnectionAt(connections'[c].pc)
    BY <1>2, OneConnection
  <2>2. \/ UNCHANGED serving /\ serving # c /\ connections'[c].pc = "waiting"
        \/ serving = Idle /\ serving' = c /\ connections'[c].pc = "body"
             /\ connections'[c].kind # "ping"
        \/ UNCHANGED serving /\ serving = c
             /\ connections'[c].pc \in {"encode", "outline", "load", "infer", "unload"}
        \/ serving \in {Idle, c} /\ serving' = Idle /\ connections'[c].pc = "answered"
    BY <1>2, OneConnection
  <2>3. ServedInv'
    BY <2>1, <2>2, ClientsAssumption DEF ServedInv
  <2> QED
    BY <2>1, <2>3
<1> QED
  BY <1>1, <1>2 DEF GeoNext

-----------------------------------------------------------------------------
(* The bundles of a batch.                                                 *)

\* Of different hypotheses one comes before the other, and never in a circle.
LEMMA BeforeOrders ==
    ASSUME located \in Located
    PROVE  /\ IsFiniteSet(located.found) /\ Cardinality(located.found) \in Nat
           /\ \A h \in located.found : h \in Nat /\ score(h) \in Nat /\ ~Before(h, h)
           /\ \A g, h \in located.found : g # h => Before(g, h) \/ Before(h, g)
           /\ \A f, g, h \in located.found : Before(f, g) /\ Before(g, h) => Before(f, h)
<1>1. IsFiniteSet(located.found) /\ located.found \subseteq Hypotheses
  BY DEF Located
<1>2. \A h \in located.found : h \in Nat /\ score(h) \in Nat
  <2> SUFFICES ASSUME NEW h \in located.found PROVE h \in Nat /\ score(h) \in Nat
    OBVIOUS
  <2>1. located.of[h] \in Finds
    BY <1>1 DEF Located
  <2> QED
    BY <1>1, <2>1, FindsAssumption DEF Find, score
<1>3. ASSUME NEW g \in located.found, NEW h \in located.found, g # h
      PROVE  Before(g, h) \/ Before(h, g)
  BY <1>2, <1>3 DEF Before
<1>4. ASSUME NEW f \in located.found, NEW g \in located.found, NEW h \in located.found,
             Before(f, g), Before(g, h)
      PROVE  Before(f, h)
  <2> DEFINE a == score(f)
             b == score(g)
             c == score(h)
  <2>1. a \in Nat /\ b \in Nat /\ c \in Nat /\ f \in Nat /\ g \in Nat /\ h \in Nat
    BY <1>2
  <2>2. /\ IF a = b THEN f < g ELSE a > b
        /\ IF b = c THEN g < h ELSE b > c
    BY <1>4 DEF Before
  <2>3. (IF a = c THEN f < h ELSE a > c) => Before(f, h)
    BY DEF Before
  <2> HIDE DEF a, b, c
  <2> QED
    BY <2>1, <2>2, <2>3
<1>5. \A h \in located.found : ~Before(h, h)
  BY <1>2 DEF Before
<1> QED
  BY <1>1, <1>2, <1>3, <1>4, <1>5, FS_CardinalityType

\* The hypotheses that come before one, and the place this gives it.
Better(h) == {g \in located.found : Before(g, h)}
Place(h) == 1 + Cardinality(Better(h))

\* Who comes before another has a smaller place; places are those of a batch.
LEMMA PlacesOrder ==
    ASSUME located \in Located
    PROVE  /\ \A h \in located.found : Place(h) \in 1 .. Cardinality(located.found)
           /\ \A g, h \in located.found : Before(g, h) => Place(g) < Place(h)
<1> DEFINE found == located.found
<1>1. ASSUME NEW h \in found
      PROVE  /\ IsFiniteSet(Better(h)) /\ Cardinality(Better(h)) \in Nat
             /\ Cardinality(Better(h)) < Cardinality(found)
  <2>1. Better(h) \in SUBSET found /\ Better(h) # found
    BY BeforeOrders DEF Better
  <2>2. IsFiniteSet(Better(h)) /\ Cardinality(Better(h)) <= Cardinality(found)
        /\ Cardinality(found) # Cardinality(Better(h))
    BY <2>1, BeforeOrders, FS_Subset
  <2> QED
    BY <2>2, BeforeOrders, FS_CardinalityType
<1>2. ASSUME NEW g \in found, NEW h \in found, Before(g, h)
      PROVE  Cardinality(Better(g)) < Cardinality(Better(h))
  <2>1. Better(g) \in SUBSET Better(h) /\ Better(g) # Better(h)
    BY <1>2, BeforeOrders DEF Better
  <2>2. /\ Cardinality(Better(g)) <= Cardinality(Better(h))
        /\ Cardinality(Better(h)) # Cardinality(Better(g))
    BY <1>1, <2>1, FS_Subset
  <2> QED
    BY <1>1, <2>2
<1> QED
  BY <1>1, <1>2, BeforeOrders DEF Place

\* What a sequence of all hypotheses in their order is.
InOrder(s) == /\ s \in [1 .. Cardinality(located.found) -> located.found]
              /\ \A m, n \in DOMAIN s : m < n => Before(s[m], s[n])

\* There is one: every place is taken.
LEMMA OrderExists == ASSUME located \in Located PROVE \E s : InOrder(s)
<1> DEFINE found == located.found
           N == Cardinality(found)
           place == [h \in found |-> Place(h)]
           s == [n \in 1 .. N |-> CHOOSE h \in found : Place(h) = n]
<1>1. place \in Injection(found, 1 .. N)
  <2>1. place \in [found -> 1 .. N]
    BY PlacesOrder
  <2>2. ASSUME NEW g \in found, NEW h \in found, Place(g) = Place(h) PROVE g = h
    BY <2>2, PlacesOrder, BeforeOrders
  <2> QED
    BY <2>1, <2>2 DEF Injection, IsInjective
<1>2. place \in Surjection(found, 1 .. N)
  <2>1. IsFiniteSet(1 .. N) /\ Cardinality(1 .. N) = N
    BY BeforeOrders, FS_Interval
  <2> HIDE DEF place
  <2> QED
    BY <1>1, <2>1, FS_Injection
<1>3. \A n \in 1 .. N : \E h \in found : Place(h) = n
  BY <1>2 DEF Surjection
<1>4. \A n \in 1 .. N : s[n] \in found /\ Place(s[n]) = n
  BY <1>3
<1>5. s \in [1 .. N -> found]
  BY <1>3
<1> HIDE DEF s
<1>6. ASSUME NEW m \in 1 .. N, NEW n \in 1 .. N, m < n PROVE Before(s[m], s[n])
  BY <1>4, <1>6, PlacesOrder, BeforeOrders
<1> QED
  BY <1>5, <1>6 DEF InOrder

\* The order of a batch puts each hypothesis at its place.
LEMMA OrderedPlaces ==
    ASSUME located \in Located
    PROVE  /\ Len(Ordered) = Cardinality(located.found)
           /\ \A n \in 1 .. Len(Ordered) : Ordered[n] \in located.found /\ Place(Ordered[n]) = n
           /\ \A h \in located.found : \E n \in 1 .. Len(Ordered) : Ordered[n] = h
<1> DEFINE found == located.found
           N == Cardinality(found)
           s == Ordered
<1>1. InOrder(s)
  BY OrderExists DEF Ordered, InOrder
<1> HIDE DEF s
<1>2. /\ s \in [1 .. N -> found] /\ N \in Nat
      /\ \A m, n \in 1 .. N : m < n => Before(s[m], s[n])
  BY <1>1, BeforeOrders DEF InOrder
<1>3. Len(s) = N
  BY <1>2
<1>4. \A m, n \in 1 .. N : s[m] = s[n] => m = n
  BY <1>2, BeforeOrders
<1>5. \A h \in found : \E n \in 1 .. N : s[n] = h
  <2>1. s \in Injection(1 .. N, found)
    BY <1>2, <1>4 DEF Injection, IsInjective
  <2>2. Cardinality(1 .. N) = N
    BY <1>2, FS_Interval
  <2>3. s \in Surjection(1 .. N, found)
    BY <2>1, <2>2, BeforeOrders, FS_Injection
  <2> QED
    BY <2>3 DEF Surjection
<1>6. ASSUME NEW n \in 1 .. N PROVE Place(s[n]) = n
  <2> DEFINE T == Better(s[n])
             f == [m \in 1 .. n - 1 |-> s[m]]
  <2>1. f \in [1 .. n - 1 -> T] /\ \A m \in 1 .. n - 1 : f[m] = s[m]
    BY <1>2 DEF Better
  <2>2. \A h \in T : \E m \in 1 .. n - 1 : f[m] = h
    <3> SUFFICES ASSUME NEW h \in T PROVE \E m \in 1 .. n - 1 : s[m] = h
      OBVIOUS
    <3>1. PICK m \in 1 .. N : s[m] = h
      BY <1>5 DEF Better
    <3>2. Before(s[m], s[n]) /\ s[m] \in found /\ s[n] \in found
      BY <1>2, <3>1 DEF Better
    <3>3. ~(n < m) /\ n # m
      BY <1>2, <3>2, BeforeOrders
    <3> QED
      BY <1>2, <3>1, <3>3
  <2> HIDE DEF T, f
  <2>3. f \in Bijection(1 .. n - 1, T)
    <3>1. 1 .. n - 1 \subseteq 1 .. N
      BY <1>2
    <3>2. \A i, k \in 1 .. n - 1 : f[i] = f[k] => i = k
      BY <1>4, <2>1, <3>1
    <3>3. f \in Injection(1 .. n - 1, T)
      BY <2>1, <3>2 DEF Injection, IsInjective
    <3>4. f \in Surjection(1 .. n - 1, T)
      BY <2>1, <2>2 DEF Surjection
    <3> QED
      BY <3>3, <3>4 DEF Bijection
  <2>4. IsFiniteSet(1 .. n - 1) /\ Cardinality(1 .. n - 1) = n - 1
    <3>1. 1 \in Int /\ n - 1 \in Int /\ n >= 1
      BY <1>2
    <3> QED
      BY <3>1, FS_Interval
  <2>5. Cardinality(T) = n - 1
    BY <2>3, <2>4, FS_Bijection DEF ExistsBijection
  <2> QED
    BY <1>2, <2>5 DEF Place, T
<1> QED
  BY <1>2, <1>3, <1>5, <1>6 DEF s

\* A batch that is built is the ordered batch, all of it buildable.
BundleInv ==
    /\ bundlePc \in {"locate", "raised", "built"} => located \in Located
    /\ bundlePc = "built" =>
         /\ \A h \in located.found : Buildable(h)
         /\ bundles = [rank \in 1 .. Len(Ordered) |-> Bundle(Ordered[rank], rank)]

LEMMA BundleStarts == ASSUME BundleInit \/ BundleAbsent PROVE BundleInv
  BY DEF BundleInit, BundleAbsent, BundleInv

\* What a batch is made of depends on what was located.
LEMMA SameBatch ==
    ASSUME UNCHANGED located
    PROVE  /\ UNCHANGED Ordered /\ \A h : Buildable(h)' <=> Buildable(h)
           /\ \A h, rank : Bundle(h, rank)' = Bundle(h, rank)
  BY DEF Buildable, Bundle, Ordered, Before, score, supporting, _checks_for

LEMMA BundleStays == ASSUME BundleInv, BundleNext \/ UNCHANGED bundleVars PROVE BundleInv'
<1>1. CASE UNCHANGED bundleVars
  <2>1. UNCHANGED <<bundlePc, located, bundles>>
    BY <1>1 DEF bundleVars
  <2> QED
    BY <2>1, SameBatch DEF BundleInv
<1>2. CASE Raise
  BY <1>2 DEF Raise, BundleInv
<1>3. CASE Build
  <2>1. /\ bundlePc = "locate" /\ bundlePc' = "built" /\ UNCHANGED located
        /\ \A h \in located.found : Buildable(h)
        /\ bundles' = [rank \in 1 .. Len(Ordered) |-> Bundle(Ordered[rank], rank)]
    BY <1>3 DEF Build
  <2> QED
    BY <2>1, SameBatch DEF BundleInv
<1> QED
  BY <1>1, <1>2, <1>3 DEF BundleNext

\* What a check cites is among the references of its bundle.
LEMMA ChecksCiteTheirOwn ==
    ASSUME NEW h, NEW check \in _checks_for(h)
    PROVE  check.cites \subseteq supporting(h)
<1> DEFINE Checks(kinds, cited) == {[kind |-> k, cites |-> cited] : k \in kinds}
           temporal == {k \in {"temporal_alignment"} : located.of[h].temporal}
           progress == {k \in {"history_progression"} : located.of[h].progress}
<1>1. ASSUME NEW kinds, NEW cited, check \in Checks(kinds, cited) PROVE check.cites = cited
  BY <1>1
<1>2. \/ check \in Checks({"camera_distance", "camera_bearing", "terrain_visibility"}, {})
      \/ check \in Checks({"satellite_overlap"}, supporting(h) \cap Satellite)
      \/ check \in Checks(temporal, supporting(h) \cap Satellite)
      \/ check \in Checks(progress, supporting(h) \cap History)
  BY Zenon DEF _checks_for
<1> HIDE DEF Checks, temporal, progress
<1>3. check.cites \in {{}, supporting(h) \cap Satellite, supporting(h) \cap History}
  BY <1>1, <1>2
<1> QED
  BY <1>3

\* Who comes before a hypothesis has a higher score, or is alike and older.
Higher(h) == {g \in located.found : score(g) > score(h)}
Alike(h) == {g \in located.found : score(g) = score(h) /\ g < h}

LEMMA PlaceCounts ==
    ASSUME located \in Located, NEW h \in located.found
    PROVE  Place(h) = 1 + Cardinality(Higher(h)) + Cardinality(Alike(h))
<1>1. Better(h) = Higher(h) \cup Alike(h) /\ Higher(h) \cap Alike(h) = {}
  <2>1. \A g \in located.found : score(g) \in Nat /\ score(h) \in Nat
    BY BeforeOrders
  <2> QED
    BY <2>1 DEF Better, Before, Higher, Alike
<1>2. Higher(h) \in SUBSET located.found /\ Alike(h) \in SUBSET located.found
  BY DEF Higher, Alike
<1>3. IsFiniteSet(Higher(h)) /\ IsFiniteSet(Alike(h))
  BY <1>2, BeforeOrders, FS_Subset
<1>4. Cardinality(Higher(h)) \in Nat /\ Cardinality(Alike(h)) \in Nat
  BY <1>3, FS_CardinalityType
<1>5. Cardinality({}) = 0
  BY FS_EmptySet
<1>6. Cardinality(Higher(h) \cup Alike(h)) =
        Cardinality(Higher(h)) + Cardinality(Alike(h)) - Cardinality(Higher(h) \cap Alike(h))
  BY <1>3, FS_Union
<1> QED
  BY <1>1, <1>4, <1>5, <1>6 DEF Place

\* In a batch that is built each hypothesis has its bundle, at its place.
LEMMA BuiltRanked == ASSUME BundleInv PROVE BundlesAreRanked
<1> SUFFICES ASSUME bundlePc = "built" PROVE BundlesAreRanked
  BY DEF BundlesAreRanked
<1> DEFINE found == located.found
           N == Cardinality(found)
<1>1. /\ located \in Located /\ \A h \in found : Buildable(h)
      /\ bundles = [rank \in 1 .. Len(Ordered) |-> Bundle(Ordered[rank], rank)]
  BY DEF BundleInv
<1>2. /\ Len(Ordered) = N /\ N \in Nat
      /\ \A n \in 1 .. N : Ordered[n] \in found /\ Place(Ordered[n]) = n
      /\ \A h \in found : \E n \in 1 .. N : Ordered[n] = h
  BY <1>1, OrderedPlaces, BeforeOrders
<1>3. /\ DOMAIN bundles = 1 .. N /\ Len(bundles) = N
      /\ \A n \in 1 .. N : bundles[n] = Bundle(Ordered[n], n)
  BY <1>1, <1>2
<1>4. \A n \in 1 .. N : /\ bundles[n].hypothesis = Ordered[n] /\ bundles[n].rank = n
                        /\ bundles[n].references = supporting(Ordered[n])
                        /\ bundles[n].checks = _checks_for(Ordered[n])
  BY <1>3 DEF Bundle
<1>5. {bundles[n].hypothesis : n \in DOMAIN bundles} = found
  BY <1>2, <1>3, <1>4
<1>6. ASSUME NEW n \in 1 .. N
      PROVE  LET h == bundles[n].hypothesis
             IN  bundles[n].rank = 1 + Cardinality(Higher(h)) + Cardinality(Alike(h))
  BY <1>1, <1>2, <1>4, PlaceCounts
<1>7. ASSUME NEW n \in 1 .. N
      PROVE  /\ bundles[n].references \subseteq located.durable
             /\ bundles[n].references \cap Satellite # {}
             /\ \A check \in bundles[n].checks : check.cites \subseteq bundles[n].references
  BY <1>1, <1>2, <1>4, ChecksCiteTheirOwn DEF Buildable
<1> QED
  BY <1>3, <1>5, <1>6, <1>7 DEF BundlesAreRanked, Higher, Alike

-----------------------------------------------------------------------------
(* The merge of several records. *)

\* A set of places of a sequence has a last one: each has a number of those
\* after it, and as many numbers as places are taken.
LEMMA LastPlace ==
    ASSUME NEW N \in Nat, NEW S \in SUBSET (1 .. N), S # {}
    PROVE  \E n \in S : \A m \in S : m <= n
<1> DEFINE After(n) == {m \in S : n < m}
           K == Cardinality(S)
           after == [n \in S |-> Cardinality(After(n))]
<1>1. IsFiniteSet(S) /\ K \in Nat /\ K > 0
  <2>1. 1 \in Int /\ N \in Int
    OBVIOUS
  <2>2. IsFiniteSet(1 .. N)
    BY <2>1, FS_Interval
  <2>3. IsFiniteSet(S)
    BY <2>2, FS_Subset
  <2>4. K \in Nat
    BY <2>3, FS_CardinalityType
  <2>5. K # 0
    BY <2>3, FS_EmptySet
  <2> QED
    BY <2>3, <2>4, <2>5
<1>2. ASSUME NEW n \in S
      PROVE  /\ IsFiniteSet(After(n)) /\ Cardinality(After(n)) \in 0 .. K - 1
             /\ After(n) \subseteq S
  <2>1. After(n) \in SUBSET S /\ After(n) # S
    OBVIOUS
  <2> HIDE DEF After
  <2>2. IsFiniteSet(After(n)) /\ Cardinality(After(n)) <= K /\ Cardinality(After(n)) # K
    BY <1>1, <2>1, FS_Subset
  <2>3. Cardinality(After(n)) \in Nat
    BY <2>2, FS_CardinalityType
  <2> QED
    BY <1>1, <2>1, <2>2, <2>3
<1>3. ASSUME NEW m \in S, NEW n \in S, m < n
      PROVE  Cardinality(After(n)) # Cardinality(After(m))
  <2>1. S \subseteq Int
    OBVIOUS
  <2>2. After(n) \in SUBSET After(m)
    <3> SUFFICES ASSUME NEW k \in S, n < k PROVE m < k
      OBVIOUS
    <3> QED
      BY <1>3, <2>1
  <2>3. n \in After(m) /\ n \notin After(n)
    BY <1>3, <2>1
  <2> HIDE DEF After
  <2>4. After(n) # After(m)
    BY <2>3
  <2> QED
    BY <1>2, <2>2, <2>4, FS_Subset
<1>4. after \in Injection(S, 0 .. K - 1)
  <2>1. after \in [S -> 0 .. K - 1]
    BY <1>2
  <2>2. \A m, n \in S : after[m] = after[n] => m = n
    BY <1>3
  <2> QED
    BY <2>1, <2>2 DEF Injection, IsInjective
<1>5. after \in Surjection(S, 0 .. K - 1)
  <2>1. IsFiniteSet(0 .. K - 1) /\ Cardinality(0 .. K - 1) = K
    <3>1. 0 \in Int /\ K - 1 \in Int
      BY <1>1
    <3> QED
      BY <1>1, <3>1, FS_Interval
  <2> HIDE DEF after
  <2> QED
    BY <1>4, <2>1, FS_Injection
<1>6. PICK n \in S : after[n] = 0
  <2>1. 0 \in 0 .. K - 1
    BY <1>1
  <2> HIDE DEF after
  <2> QED
    BY <1>5, <2>1 DEF Surjection
<1>7. After(n) = {}
  <2>1. Cardinality(After(n)) = 0
    BY <1>6
  <2> HIDE DEF After
  <2> QED
    BY <1>2, <2>1, FS_EmptySet
<1> QED
  BY <1>7

\* Where the arguments agree an identifier means what any of them says.
LEMMA MergedValue ==
    ASSUME NEW fs, NEW N \in Nat, DOMAIN fs = 1 .. N, Agree(fs)
    PROVE  /\ \A n \in 1 .. N : \A id \in DOMAIN fs[n] :
                id \in DOMAIN _merge_records(fs) /\ _merge_records(fs)[id] = fs[n][id]
           /\ \A id \in DOMAIN _merge_records(fs) : \E n \in 1 .. N : id \in DOMAIN fs[n]
<1> DEFINE ids == UNION {DOMAIN fs[n] : n \in DOMAIN fs}
           Last(id) == CHOOSE n \in DOMAIN fs : /\ id \in DOMAIN fs[n]
                                                /\ \A m \in DOMAIN fs : id \in DOMAIN fs[m] => m <= n
<1>1. _merge_records(fs) = [id \in ids |-> fs[Last(id)][id]]
  BY DEF _merge_records
<1>2. \A id : id \in ids <=> \E n \in 1 .. N : id \in DOMAIN fs[n]
  OBVIOUS
<1>3. ASSUME NEW n \in 1 .. N, NEW id \in DOMAIN fs[n] PROVE fs[Last(id)][id] = fs[n][id]
  <2> DEFINE S == {m \in 1 .. N : id \in DOMAIN fs[m]}
  <2>1. S \in SUBSET (1 .. N) /\ S # {}
    OBVIOUS
  <2> HIDE DEF S
  <2>2. \E k \in S : \A m \in S : m <= k
    BY <2>1, LastPlace
  <2>3. \E k \in DOMAIN fs : /\ id \in DOMAIN fs[k]
                             /\ \A m \in DOMAIN fs : id \in DOMAIN fs[m] => m <= k
    BY <2>2 DEF S
  <2>4. Last(id) \in DOMAIN fs /\ id \in DOMAIN fs[Last(id)]
    BY <2>3
  <2> HIDE DEF Last
  <2> QED
    BY <2>4 DEF Agree
<1> HIDE DEF ids, Last
<1> QED
  BY <1>1, <1>2, <1>3

\* Two lists that say the same of the same identifiers have the same merge.
SaysNoMore(gs, fs) == \A k \in DOMAIN gs : \A id \in DOMAIN gs[k] :
                          \E n \in DOMAIN fs : id \in DOMAIN fs[n] /\ fs[n][id] = gs[k][id]

LEMMA SameMerge ==
    ASSUME NEW fs, NEW gs, NEW M \in Nat, NEW N \in Nat,
           DOMAIN fs = 1 .. N, DOMAIN gs = 1 .. M, Agree(fs),
           SaysNoMore(gs, fs), SaysNoMore(fs, gs)
    PROVE  Agree(gs) /\ _merge_records(gs) = _merge_records(fs)
<1> DEFINE f == _merge_records(fs)
           g == _merge_records(gs)
<1>1. /\ \A n \in 1 .. N : \A id \in DOMAIN fs[n] : id \in DOMAIN f /\ f[id] = fs[n][id]
      /\ \A id \in DOMAIN f : \E n \in 1 .. N : id \in DOMAIN fs[n]
  BY MergedValue
<1>2. Agree(gs)
  BY DEF Agree, SaysNoMore
<1>3. /\ \A n \in 1 .. M : \A id \in DOMAIN gs[n] : id \in DOMAIN g /\ g[id] = gs[n][id]
      /\ \A id \in DOMAIN g : \E n \in 1 .. M : id \in DOMAIN gs[n]
  BY <1>2, MergedValue
<1>4. f = [id \in DOMAIN f |-> f[id]] /\ g = [id \in DOMAIN g |-> g[id]]
  BY DEF _merge_records
<1> HIDE DEF f, g
<1>5. ASSUME NEW id \in DOMAIN f PROVE id \in DOMAIN g /\ f[id] = g[id]
  <2>1. PICK n \in 1 .. N : id \in DOMAIN fs[n]
    BY <1>1
  <2>2. PICK k \in 1 .. M : id \in DOMAIN gs[k] /\ gs[k][id] = fs[n][id]
    BY <2>1 DEF SaysNoMore
  <2> QED
    BY <1>1, <1>3, <2>1, <2>2
<1>6. ASSUME NEW id \in DOMAIN g PROVE id \in DOMAIN f
  <2>1. PICK k \in 1 .. M : id \in DOMAIN gs[k]
    BY <1>3
  <2>2. PICK n \in 1 .. N : id \in DOMAIN fs[n]
    BY <2>1 DEF SaysNoMore
  <2> QED
    BY <1>1, <2>2
<1>7. DOMAIN f = DOMAIN g
  BY <1>5, <1>6
<1>8. f = g
  BY <1>4, <1>5, <1>7
<1> QED
  BY <1>2, <1>8 DEF f, g

\* The collections of a list of records.
LEMMA Collections ==
    ASSUME NEW rs
    PROVE  /\ DOMAIN Collection(rs, "media") = DOMAIN rs
           /\ DOMAIN Collection(rs, "observations") = DOMAIN rs
           /\ \A n \in DOMAIN rs : Collection(rs, "media")[n] = rs[n].media
           /\ \A n \in DOMAIN rs : Collection(rs, "observations")[n] = rs[n].observations
  BY DEF Collection

\* What is merged of valid records is valid: a record that names another has
\* it among its own, and the merge has both.
LEMMA MergedIsValid ==
    ASSUME NEW rs, NEW N \in Nat, DOMAIN rs = 1 .. N, Mergeable(rs),
           \A n \in 1 .. N : Valid(rs[n])
    PROVE  Valid(Merged(rs))
<1> DEFINE media == _merge_records(Collection(rs, "media"))
           observations == _merge_records(Collection(rs, "observations"))
<1>1. /\ \A n \in 1 .. N : \A m \in DOMAIN rs[n].media :
           m \in DOMAIN media /\ media[m] = rs[n].media[m]
      /\ \A m \in DOMAIN media : \E n \in 1 .. N : m \in DOMAIN rs[n].media
  <2> DEFINE fs == Collection(rs, "media")
  <2>1. DOMAIN fs = 1 .. N /\ Agree(fs) /\ \A n \in 1 .. N : fs[n] = rs[n].media
    BY Collections DEF Mergeable
  <2>2. /\ \A n \in 1 .. N : \A id \in DOMAIN fs[n] : id \in DOMAIN media /\ media[id] = fs[n][id]
        /\ \A id \in DOMAIN media : \E n \in 1 .. N : id \in DOMAIN fs[n]
    BY <2>1, MergedValue
  <2> HIDE DEF fs, media
  <2> QED
    BY <2>1, <2>2
<1>2. /\ \A n \in 1 .. N : \A o \in DOMAIN rs[n].observations :
           o \in DOMAIN observations /\ observations[o] = rs[n].observations[o]
      /\ \A o \in DOMAIN observations : \E n \in 1 .. N : o \in DOMAIN rs[n].observations
  <2> DEFINE fs == Collection(rs, "observations")
  <2>1. DOMAIN fs = 1 .. N /\ Agree(fs) /\ \A n \in 1 .. N : fs[n] = rs[n].observations
    BY Collections DEF Mergeable
  <2>2. /\ \A n \in 1 .. N : \A id \in DOMAIN fs[n] :
             id \in DOMAIN observations /\ observations[id] = fs[n][id]
        /\ \A id \in DOMAIN observations : \E n \in 1 .. N : id \in DOMAIN fs[n]
    BY <2>1, MergedValue
  <2> HIDE DEF fs, observations
  <2> QED
    BY <2>1, <2>2
<1>3. Merged(rs).media = media /\ Merged(rs).observations = observations
  BY DEF Merged
<1> HIDE DEF media, observations
<1>4. ASSUME NEW m \in DOMAIN media
      PROVE  \/ media[m] \in {"photo", "video"}
             \/ media[m] \in DOMAIN media /\ media[media[m]] = "video"
  <2>1. PICK n \in 1 .. N : m \in DOMAIN rs[n].media
    BY <1>1
  <2>2. \/ rs[n].media[m] \in {"photo", "video"}
        \/ rs[n].media[m] \in DOMAIN rs[n].media /\ rs[n].media[rs[n].media[m]] = "video"
    BY <2>1 DEF Valid
  <2> QED
    BY <1>1, <2>1, <2>2
<1>5. ASSUME NEW o \in DOMAIN observations PROVE observations[o] \in DOMAIN media
  <2>1. PICK n \in 1 .. N : o \in DOMAIN rs[n].observations
    BY <1>2
  <2>2. rs[n].observations[o] \in DOMAIN rs[n].media
    BY <2>1 DEF Valid
  <2> QED
    BY <1>1, <1>2, <2>1, <2>2
<1> QED
  BY <1>3, <1>4, <1>5 DEF Valid

\* Lists that say the same in each of their collections, of one outline, and
\* both or neither with one to review, have the same merge.
SayTheSame(rs, qs) ==
    /\ \A name \in {"media", "observations"} :
         /\ SaysNoMore(Collection(qs, name), Collection(rs, name))
         /\ SaysNoMore(Collection(rs, name), Collection(qs, name))
    /\ \A k \in DOMAIN qs : qs[k].outline = rs[1].outline
    /\ (\E k \in DOMAIN qs : qs[k].review) <=> (\E n \in DOMAIN rs : rs[n].review)

LEMMA SameMerged ==
    ASSUME NEW rs, NEW qs, NEW M \in Nat \ {0}, NEW N \in Nat,
           DOMAIN rs = 1 .. N, DOMAIN qs = 1 .. M, Mergeable(rs), SayTheSame(rs, qs)
    PROVE  Mergeable(qs) /\ Merged(qs) = Merged(rs)
<1>1. ASSUME NEW name \in {"media", "observations"}
      PROVE  /\ Agree(Collection(qs, name))
             /\ _merge_records(Collection(qs, name)) = _merge_records(Collection(rs, name))
  <2>1. /\ DOMAIN Collection(rs, name) = 1 .. N /\ DOMAIN Collection(qs, name) = 1 .. M
        /\ Agree(Collection(rs, name))
    BY Collections DEF Mergeable
  <2>2. /\ SaysNoMore(Collection(qs, name), Collection(rs, name))
        /\ SaysNoMore(Collection(rs, name), Collection(qs, name))
    BY DEF SayTheSame
  <2> QED
    BY <2>1, <2>2, SameMerge
<1>2. 1 \in DOMAIN qs
  OBVIOUS
<1>3. qs # <<>>
  BY <1>2
<1>4. \A k \in DOMAIN qs : qs[k].outline = qs[1].outline /\ qs[1].outline = rs[1].outline
  <2>1. \A k \in DOMAIN qs : qs[k].outline = rs[1].outline
    BY Zenon DEF SayTheSame
  <2> QED
    BY <1>2, <2>1, Zenon
<1>5. (\E k \in DOMAIN qs : qs[k].review) <=> (\E n \in DOMAIN rs : rs[n].review)
  BY Zenon DEF SayTheSame
<1>6. (\E k \in DOMAIN qs : qs[k].review) = (\E n \in DOMAIN rs : rs[n].review)
  BY <1>5, Zenon
<1>7. Mergeable(qs)
  BY <1>1, <1>3, <1>4 DEF Mergeable
<1>8. Merged(qs) = Merged(rs)
  BY <1>1, <1>2, <1>4, <1>6, Zenon DEF Merged
<1> QED
  BY <1>7, <1>8

\* The records in another order.
LEMMA PermutedMerge ==
    ASSUME NEW rs, NEW N \in Nat, DOMAIN rs = 1 .. N, Mergeable(rs),
           NEW order \in [1 .. N -> 1 .. N], IsInjective(order)
    PROVE  LET qs == [n \in DOMAIN rs |-> rs[order[n]]]
           IN  Mergeable(qs) /\ Merged(qs) = Merged(rs)
<1> DEFINE qs == [n \in DOMAIN rs |-> rs[order[n]]]
<1>1. N # 0
  BY DEF Mergeable
<1>2. \A n \in 1 .. N : \E k \in 1 .. N : order[k] = n
  <2>1. IsFiniteSet(1 .. N)
    <3>1. 1 \in Int /\ N \in Int
      OBVIOUS
    <3> QED
      BY <3>1, FS_Interval
  <2>2. order \in Injection(1 .. N, 1 .. N)
    BY DEF Injection
  <2>3. order \in Surjection(1 .. N, 1 .. N)
    BY <2>1, <2>2, FS_Injection
  <2> QED
    BY <2>3 DEF Surjection
<1>3. /\ DOMAIN qs = 1 .. N
      /\ \A k \in 1 .. N : order[k] \in 1 .. N /\ qs[k] = rs[order[k]]
  OBVIOUS
<1> HIDE DEF qs
<1>4. ASSUME NEW name \in {"media", "observations"}
      PROVE  /\ SaysNoMore(Collection(qs, name), Collection(rs, name))
             /\ SaysNoMore(Collection(rs, name), Collection(qs, name))
  <2> DEFINE fs == Collection(rs, name)
             gs == Collection(qs, name)
  <2>1. /\ DOMAIN fs = 1 .. N /\ DOMAIN gs = 1 .. N
        /\ \A k \in 1 .. N : order[k] \in 1 .. N /\ gs[k] = fs[order[k]]
    BY <1>3 DEF Collection
  <2> HIDE DEF fs, gs
  <2>2. SaysNoMore(gs, fs)
    BY <2>1 DEF SaysNoMore
  <2>3. SaysNoMore(fs, gs)
    BY <1>2, <2>1 DEF SaysNoMore
  <2> QED
    BY <2>2, <2>3 DEF fs, gs
<1>5. \A k \in DOMAIN qs : qs[k].outline = rs[1].outline
  BY <1>3 DEF Mergeable
<1>6. (\E k \in DOMAIN qs : qs[k].review) <=> (\E n \in DOMAIN rs : rs[n].review)
  <2>1. ASSUME NEW k \in 1 .. N, qs[k].review PROVE \E n \in 1 .. N : rs[n].review
    <3>1. order[k] \in 1 .. N /\ qs[k] = rs[order[k]]
      BY <1>3
    <3>2. rs[order[k]].review
      BY <2>1, <3>1, Zenon
    <3> QED
      BY <3>1, <3>2, Zenon
  <2>2. ASSUME NEW n \in 1 .. N, rs[n].review PROVE \E k \in 1 .. N : qs[k].review
    <3>1. PICK k \in 1 .. N : order[k] = n
      BY <1>2
    <3>2. qs[k] = rs[n]
      BY <1>3, <3>1
    <3>3. qs[k].review
      BY <2>2, <3>2, Zenon
    <3> QED
      BY <3>3
  <2> QED
    BY <1>3, <2>1, <2>2, Zenon
<1>7. SayTheSame(rs, qs)
  BY <1>4, <1>5, <1>6 DEF SayTheSame
<1>8. Mergeable(qs) /\ Merged(qs) = Merged(rs)
  BY <1>1, <1>3, <1>7, SameMerged
<1> QED
  BY <1>8 DEF qs

\* Some of the records first, and the others with their merge.
LEMMA PartsMerge ==
    ASSUME NEW rs, NEW S, NEW N \in Nat, rs \in [1 .. N -> S], Mergeable(rs),
           NEW n \in 1 .. N - 1
    PROVE  LET first == SubSeq(rs, 1, n)
           IN  /\ Mergeable(first)
               /\ Merged(<<Merged(first)>> \o SubSeq(rs, n + 1, N)) = Merged(rs)
<1> DEFINE first == SubSeq(rs, 1, n)
           all == Merged(first)
           qs == <<all>> \o SubSeq(rs, n + 1, N)
           M == N - n + 1
<1>0. n \in Nat \ {0} /\ n < N /\ M \in Nat \ {0} /\ 1 .. n \subseteq 1 .. N
  OBVIOUS
<1>1. DOMAIN first = 1 .. n /\ \A k \in 1 .. n : first[k] = rs[k]
  BY <1>0
<1> HIDE DEF first
<1>2. /\ DOMAIN qs = 1 .. M /\ qs[1] = all
      /\ \A k \in 2 .. M : qs[k] = rs[k + n - 1] /\ k + n - 1 \in n + 1 .. N
  <2>1. SubSeq(rs, n + 1, N) \in Seq(S) /\ Len(SubSeq(rs, n + 1, N)) = N - n
        /\ \A k \in 1 .. N - n : SubSeq(rs, n + 1, N)[k] = rs[k + n]
    BY <1>0
  <2>2. <<all>> \in Seq({all}) /\ Len(<<all>>) = 1
    OBVIOUS
  <2> DEFINE rest == SubSeq(rs, n + 1, N)
  <2> HIDE DEF rest, all
  <2>3. rest \in Seq(S \cup {all}) /\ <<all>> \in Seq(S \cup {all})
    BY <2>1, <2>2 DEF rest
  <2>4. /\ DOMAIN qs = 1 .. M /\ qs[1] = all
        /\ \A k \in 2 .. M : qs[k] = rest[k - 1]
    BY <1>0, <2>1, <2>2, <2>3 DEF rest
  <2> QED
    BY <1>0, <2>1, <2>4 DEF rest
<1> HIDE DEF qs, M
<1>3. Mergeable(first)
  <2>1. first # <<>>
    BY <1>0, <1>1
  <2>2. \A k \in DOMAIN first : first[k].outline = first[1].outline
    BY <1>0, <1>1 DEF Mergeable
  <2>3. ASSUME NEW name \in {"media", "observations"} PROVE Agree(Collection(first, name))
    <3>1. Agree(Collection(rs, name))
      BY DEF Mergeable
    <3> QED
      BY <1>0, <1>1, <3>1 DEF Agree, Collection
  <2> QED
    BY <2>1, <2>2, <2>3 DEF Mergeable
<1>4. ASSUME NEW name \in {"media", "observations"}
      PROVE  /\ SaysNoMore(Collection(qs, name), Collection(rs, name))
             /\ SaysNoMore(Collection(rs, name), Collection(qs, name))
  <2> DEFINE fs == Collection(rs, name)
             gs == Collection(qs, name)
             hs == Collection(first, name)
  <2>1. /\ DOMAIN fs = 1 .. N /\ DOMAIN gs = 1 .. M /\ DOMAIN hs = 1 .. n
        /\ \A k \in 1 .. n : hs[k] = fs[k]
        /\ \A k \in 2 .. M : gs[k] = fs[k + n - 1]
    BY <1>0, <1>1, <1>2 DEF Collection
  <2>2. Agree(hs)
    BY <1>3 DEF Mergeable
  <2>3. gs[1] = _merge_records(hs)
    <3>1. gs[1] = all[name]
      BY <1>0, <1>2 DEF Collection, M
    <3> QED
      BY <3>1 DEF Merged
  <2> HIDE DEF fs, gs, hs, all
  <2>4. /\ \A k \in 1 .. n : \A id \in DOMAIN hs[k] : id \in DOMAIN gs[1] /\ gs[1][id] = hs[k][id]
        /\ \A id \in DOMAIN gs[1] : \E k \in 1 .. n : id \in DOMAIN hs[k]
    BY <1>0, <2>1, <2>2, <2>3, MergedValue
  <2>5. SaysNoMore(gs, fs)
    <3> SUFFICES ASSUME NEW k \in 1 .. M, NEW id \in DOMAIN gs[k]
                 PROVE  \E m \in 1 .. N : id \in DOMAIN fs[m] /\ fs[m][id] = gs[k][id]
      BY <2>1 DEF SaysNoMore
    <3>1. CASE k = 1
      <4>1. PICK m \in 1 .. n : id \in DOMAIN hs[m]
        BY <2>4, <3>1
      <4>2. gs[1][id] = hs[m][id] /\ hs[m] = fs[m]
        BY <2>1, <2>4, <4>1
      <4> QED
        BY <1>0, <3>1, <4>1, <4>2
    <3>2. CASE k # 1
      <4>1. k \in 2 .. M
        BY <1>0, <3>2
      <4>2. gs[k] = fs[k + n - 1] /\ k + n - 1 \in 1 .. N
        BY <1>0, <1>2, <2>1, <4>1
      <4> QED
        BY <4>2
    <3> QED
      BY <3>1, <3>2
  <2>6. SaysNoMore(fs, gs)
    <3> SUFFICES ASSUME NEW m \in 1 .. N, NEW id \in DOMAIN fs[m]
                 PROVE  \E k \in 1 .. M : id \in DOMAIN gs[k] /\ gs[k][id] = fs[m][id]
      BY <2>1 DEF SaysNoMore
    <3>1. CASE m \in 1 .. n
      <4>1. id \in DOMAIN gs[1] /\ gs[1][id] = fs[m][id]
        BY <2>1, <2>4, <3>1
      <4> QED
        BY <1>0, <4>1
    <3>2. CASE m \notin 1 .. n
      <4> DEFINE k == m - n + 1
      <4>1. k \in 2 .. M /\ k + n - 1 = m
        BY <1>0, <3>2 DEF M
      <4> HIDE DEF k
      <4>2. gs[k] = fs[m] /\ k \in 1 .. M
        BY <2>1, <4>1
      <4> QED
        BY <4>2
    <3> QED
      BY <3>1, <3>2
  <2> QED
    BY <2>5, <2>6 DEF fs, gs
<1>5. ASSUME NEW k \in 1 .. M PROVE qs[k].outline = rs[1].outline
  <2>1. CASE k = 1
    <3>1. all.outline = first[1].outline
      BY DEF Merged
    <3> QED
      BY <1>0, <1>1, <1>2, <2>1, <3>1
  <2>2. CASE k # 1
    <3>1. k \in 2 .. M
      BY <1>0, <2>2
    <3>2. qs[k] = rs[k + n - 1] /\ k + n - 1 \in 1 .. N
      BY <1>0, <1>2, <3>1
    <3> QED
      BY <3>2 DEF Mergeable
  <2> QED
    BY <2>1, <2>2
<1>6. all.review <=> \E k \in 1 .. n : rs[k].review
  <2>1. all.review = \E k \in DOMAIN first : first[k].review
    BY Zenon DEF Merged
  <2>2. (\E k \in DOMAIN first : first[k].review) <=> \E k \in 1 .. n : rs[k].review
    <3>1. ASSUME NEW k \in 1 .. n PROVE first[k].review <=> rs[k].review
      <4>1. first[k] = rs[k]
        BY <1>1
      <4> QED
        BY <4>1, Zenon
    <3> QED
      BY <1>1, <3>1, Zenon
  <2> QED
    BY <2>1, <2>2, Zenon
<1>7. (\E k \in DOMAIN qs : qs[k].review) <=> (\E m \in DOMAIN rs : rs[m].review)
  <2>1. ASSUME NEW k \in 1 .. M, qs[k].review PROVE \E m \in 1 .. N : rs[m].review
    <3>1. CASE k = 1
      <4>1. all.review
        BY <1>2, <2>1, <3>1, Zenon
      <4>2. PICK m \in 1 .. n : rs[m].review
        BY <1>6, <4>1, Zenon
      <4>3. m \in 1 .. N
        BY <1>0
      <4> QED
        BY <4>2, <4>3, Zenon
    <3>2. CASE k # 1
      <4>1. k \in 2 .. M
        BY <1>0, <3>2
      <4>2. qs[k] = rs[k + n - 1] /\ k + n - 1 \in 1 .. N
        BY <1>0, <1>2, <4>1
      <4>3. rs[k + n - 1].review
        BY <2>1, <4>2, Zenon
      <4> QED
        BY <4>2, <4>3, Zenon
    <3> QED
      BY <3>1, <3>2, Zenon
  <2>2. ASSUME NEW m \in 1 .. N, rs[m].review PROVE \E k \in 1 .. M : qs[k].review
    <3>1. CASE m \in 1 .. n
      <4>1. all.review
        BY <1>6, <2>2, <3>1, Zenon
      <4>2. 1 \in 1 .. M /\ qs[1] = all
        BY <1>0, <1>2
      <4>3. qs[1].review
        BY <4>1, <4>2, Zenon
      <4> QED
        BY <4>2, <4>3, Zenon
    <3>2. CASE m \notin 1 .. n
      <4> DEFINE k == m - n + 1
      <4>1. k \in 2 .. M /\ k + n - 1 = m /\ k \in 1 .. M
        BY <1>0, <3>2 DEF M
      <4> HIDE DEF k
      <4>2. qs[k] = rs[m]
        BY <1>2, <4>1
      <4>3. qs[k].review
        BY <2>2, <4>2, Zenon
      <4> QED
        BY <4>1, <4>3, Zenon
    <3> QED
      BY <3>1, <3>2, Zenon
  <2>3. DOMAIN rs = 1 .. N
    OBVIOUS
  <2> QED
    BY <1>2, <2>1, <2>2, <2>3, Zenon
<1>8. DOMAIN rs = 1 .. N
  OBVIOUS
<1>9. SayTheSame(rs, qs)
  BY <1>2, <1>4, <1>5, <1>7 DEF SayTheSame
<1>10. Merged(qs) = Merged(rs)
  BY <1>0, <1>2, <1>8, <1>9, SameMerged
<1> QED
  BY <1>3, <1>10 DEF qs, first

\* What is merged is the merge of the arguments.
MergeInv ==
    /\ mergePc \in {"merge", "raised", "merged"} =>
         \E N \in Nat : records \in [1 .. N -> Provided]
    /\ mergePc = "merged" => Mergeable(records) /\ merged = Merged(records)

LEMMA MergeStarts == ASSUME MergeInit \/ MergeAbsent PROVE MergeInv
<1>1. CASE MergeInit
  <2>1. PICK N \in 0 .. MaxRecords : records \in [1 .. N -> Provided]
    BY <1>1 DEF MergeInit
  <2>2. N \in Nat
    BY ProvidedAssumption
  <2> QED
    BY <1>1, <2>1, <2>2 DEF MergeInit, MergeInv
<1> QED
  BY <1>1 DEF MergeAbsent, MergeInv

LEMMA MergeStays == ASSUME MergeInv, MergeNext \/ UNCHANGED mergeVars PROVE MergeInv'
<1>1. UNCHANGED records
  BY DEF MergeNext, Merge, Conflict, mergeVars
<1>2. (Mergeable(records) <=> Mergeable(records)') /\ Merged(records)' = Merged(records)
  BY <1>1
<1>3. CASE Merge
  BY <1>1, <1>2, <1>3 DEF Merge, MergeInv
<1>4. CASE Conflict
  BY <1>1, <1>4 DEF Conflict, MergeInv
<1>5. CASE UNCHANGED mergeVars
  BY <1>1, <1>2, <1>5 DEF mergeVars, MergeInv
<1> QED
  BY <1>3, <1>4, <1>5 DEF MergeNext

LEMMA MergedOrderFree == ASSUME MergeInv PROVE MergeIsOrderFree
<1> SUFFICES ASSUME mergePc = "merged" PROVE MergeIsOrderFree
  BY DEF MergeIsOrderFree
<1>1. PICK N \in Nat : records \in [1 .. N -> Provided]
  BY DEF MergeInv
<1>2. Mergeable(records) /\ merged = Merged(records) /\ DOMAIN records = 1 .. N /\ Len(records) = N
  BY <1>1 DEF MergeInv
<1>3. Valid(merged)
  <2>1. \A n \in 1 .. N : Valid(records[n])
    BY <1>1, ProvidedAssumption
  <2> QED
    BY <1>2, <2>1, MergedIsValid
<1>4. ASSUME NEW order \in {p \in [DOMAIN records -> DOMAIN records] : IsInjective(p)}
      PROVE  LET permuted == [n \in DOMAIN records |-> records[order[n]]]
             IN  Mergeable(permuted) /\ Merged(permuted) = merged
  <2>1. order \in [1 .. N -> 1 .. N] /\ IsInjective(order)
    BY <1>2
  <2> QED
    BY <1>2, <2>1, PermutedMerge
<1>5. ASSUME NEW n \in DOMAIN records \ {Len(records)}
      PROVE  LET first == SubSeq(records, 1, n)
             IN  /\ Mergeable(first)
                 /\ Merged(<<Merged(first)>> \o SubSeq(records, n + 1, Len(records))) = merged
  <2>1. n \in 1 .. N - 1
    BY <1>2
  <2> QED
    BY <1>1, <1>2, <2>1, PartsMerge
<1> QED
  BY <1>3, <1>4, <1>5, Zenon DEF MergeIsOrderFree

-----------------------------------------------------------------------------
(* All four. *)

ServicesInv == YoloInv /\ LockInv /\ GeoInv /\ ServedInv /\ BundleInv /\ MergeInv

\* What a caller and a connection have done is behind them.
Further == /\ \A c \in Callers : UNCHANGED calls[c] \/ CallGetsFurther(c)
           /\ \A c \in Clients : UNCHANGED connections[c]
                \/ ConnectionAt(connections[c].pc) < ConnectionAt(connections'[c].pc)

LEMMA ServicesStart == ASSUME Init PROVE ServicesInv
<1>1. YoloInv /\ LockInv
  <2>1. NoCalls
    BY DEF Init, YoloInit, YoloAbsent
  <2>2. LockInv
    BY <2>1, CallersAssumption DEF NoCalls, LockInv
  <2> QED
    BY <2>1, <2>2, YoloStarts
<1>2. GeoInv /\ ServedInv
  <2>1. NoConnections
    BY DEF Init, GeoInit, GeoAbsent
  <2>2. ServedInv
    BY <2>1, ClientsAssumption DEF NoConnections, ServedInv
  <2> QED
    BY <2>1, <2>2, GeoStarts
<1> QED
  BY <1>1, <1>2, BundleStarts, MergeStarts DEF Init, ServicesInv

LEMMA ServicesStay == ASSUME ServicesInv, [Next]_vars PROVE ServicesInv' /\ Further
<1>1. UNCHANGED yoloVars => YoloInv' /\ LockInv' /\ \A c \in Callers : UNCHANGED calls[c]
  BY DEF yoloVars, ServicesInv, YoloInv, YoloTypeOK, Revisions, CallRight, Stored, LockInv
<1>2. UNCHANGED geoVars => GeoInv' /\ ServedInv' /\ \A c \in Clients : UNCHANGED connections[c]
  BY DEF geoVars, ServicesInv, GeoInv, ServedInv
<1>3. /\ YoloNext => YoloInv' /\ LockInv' /\ \A c \in Callers : UNCHANGED calls[c] \/ CallGetsFurther(c)
      /\ GeoNext => GeoInv'
      /\ GeoNext => ServedInv' /\ \A c \in Clients : UNCHANGED connections[c]
           \/ ConnectionAt(connections[c].pc) < ConnectionAt(connections'[c].pc)
      /\ BundleNext \/ UNCHANGED bundleVars => BundleInv'
      /\ MergeNext \/ UNCHANGED mergeVars => MergeInv'
  BY YoloStays, LockStays, GeoStays, ServedStays, BundleStays, MergeStays DEF ServicesInv
<1>4. /\ YoloNext \/ UNCHANGED yoloVars
      /\ GeoNext \/ UNCHANGED geoVars
      /\ BundleNext \/ UNCHANGED bundleVars
      /\ MergeNext \/ UNCHANGED mergeVars
  BY DEF Next, vars
<1>5. ServicesInv'
  BY <1>1, <1>2, <1>3, <1>4 DEF ServicesInv
<1> QED
  BY <1>1, <1>2, <1>3, <1>4, <1>5 DEF Further

LEMMA ServicesInvariance == FairSpec => []ServicesInv
<1>1. Init => ServicesInv
  BY ServicesStart
<1>2. ServicesInv /\ [Next]_vars => ServicesInv'
  BY ServicesStay
<1> QED
  BY <1>1, <1>2, PTL DEF FairSpec

\* A call that waits for the lock, or a connection that waits for the server,
\* waits for one that is under way: whatever raises in it, the lock does not
\* stay taken, nor the server busy, behind it.  No other call runs beside it.
THEOREM NobodyHoldsOn == FairSpec => [](LockInv /\ ServedInv)
<1>1. ServicesInv => LockInv /\ ServedInv
  BY DEF ServicesInv
<1> QED
  BY <1>1, ServicesInvariance, PTL

\* Every step of a call or of a connection brings it nearer its answer: nothing
\* is done again (a repetition is another call), whatever fails.
THEOREM EveryStepIsForward == FairSpec => [][Further]_vars
<1>1. ServicesInv /\ [Next]_vars => [Further]_vars
  BY ServicesStay
<1> QED
  BY <1>1, ServicesInvariance, PTL DEF FairSpec

\* EvidenceIsNeverOverwritten (YoloService): for any number of callers, events,
\* findings and retries, what is stored was seen in the revision before it, and
\* a call is told "done", by a new receipt or a replayed one, only if what it
\* found is the revision right after the one it read.
THEOREM NothingIsOverwritten == FairSpec => []EvidenceIsNeverOverwritten
<1>1. ServicesInv => EvidenceIsNeverOverwritten
  BY DEF ServicesInv, YoloInv, EvidenceIsNeverOverwritten, Revisions, Revision, CallRight, Stored
<1> QED
  BY <1>1, ServicesInvariance, PTL

\* ModelsAreReleased (GeoService): whatever raises in an invocation, no later
\* one meets its model, unless its release has raised.
THEOREM InvocationsLeaveNothing == FairSpec => []ModelsAreReleased
<1>1. ServicesInv => ModelsAreReleased
  BY DEF ServicesInv, GeoInv, ModelsAreReleased
<1> QED
  BY <1>1, ServicesInvariance, PTL

\* BundlesAreRanked (PointBundles): however many hypotheses are located, a
\* batch that is built has each once, at the place its score and id give it,
\* and cites nothing the backend does not hold.
THEOREM BatchesAreRanked == FairSpec => []BundlesAreRanked
<1>1. ServicesInv => BundlesAreRanked
  BY BuiltRanked DEF ServicesInv
<1> QED
  BY <1>1, ServicesInvariance, PTL

\* MergeIsOrderFree (EvidenceMerge): for any number of records, in any order
\* and merged in any two steps, the evidence is the same, and it is valid.
THEOREM MergesAreOrderFree == FairSpec => []MergeIsOrderFree
<1>1. ServicesInv => MergeIsOrderFree
  BY MergedOrderFree DEF ServicesInv
<1> QED
  BY <1>1, ServicesInvariance, PTL
=============================================================================
