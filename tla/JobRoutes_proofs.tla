-------------------------- MODULE JobRoutes_proofs --------------------------
(***************************************************************************)
(* What the answers of the two routes promise, for any media, anchors,     *)
(* items and limits.                                                       *)
(***************************************************************************)
EXTENDS JobRoutes, FiniteSetTheorems, SequenceTheorems, TLAPS

(* The event. *)

Past == {"perceive", "report", "answered"}

\* An anchor came with its asset, or a model gave it no evidence; two anchors
\* differ in what they are about.
AnchorsRight ==
    /\ \A x \in anchors : \/ /\ x.by = "sender"
                             /\ x = Anchor(x.asset, "sender", event.given[x.asset])
                          \/ x.by = "model" /\ x.shape.evidence.method = "none"
    /\ \A x, y \in anchors : About(x) = About(y) => x = y
    /\ \A x \in anchors : x.asset \in Assets

\* After the admission.
Admitted ==
    eventPc \in {"perceive", "report"} =>
        /\ \A x \in anchors : ~Refused(x.asset)
        /\ \A a \in Assets : Refused(a) => <<a, Reason>> \in failures

\* After the perception: an image or a video without an anchor has a failure.
Perceived ==
    eventPc = "report" =>
        ((\A x \in anchors : x.by = "model") =>
            \A a \in Assets : event.media[a].kind \in {"image", "video"} =>
                (\E x \in anchors : x.asset = a) \/ (\E f \in failures : f[1] = a))

\* An answer is what the report makes of anchors and failures, or empty.
Answered ==
    eventPc = "answered" =>
        \/ answered = "failed" /\ attempts = {} /\ proposals = {}
        \/ /\ answered = IF \E t \in Attempts : t.status \in {"localized", "sector"}
                         THEN "needs_review" ELSE "abstained"
           /\ attempts = Attempts
           /\ proposals = {x \in anchors : Promoted(x)}
           /\ \A x \in proposals : Fits(x)
           /\ \A x \in anchors : ~Refused(x.asset)
           /\ \A a \in Assets : Refused(a) => <<a, Reason>> \in failures
           /\ (\A x \in anchors : x.by = "model") =>
                 \A a \in Assets : event.media[a].kind \in {"image", "video"} =>
                     (\E x \in anchors : x.asset = a) \/ (\E f \in failures : f[1] = a)

EventInv == /\ eventPc \in {"absent", "admit", "raised"} \cup Past
            /\ eventPc # "absent" => event \in Event
            /\ eventPc # "absent" => AnchorsRight
            /\ eventPc \in {"admit", "perceive"} => \A x \in anchors : x.by = "sender"
            /\ Admitted
            /\ Perceived
            /\ Answered

LEMMA EventStarts == EventInit => EventInv
<1> SUFFICES ASSUME EventInit PROVE EventInv
  OBVIOUS
<1>1. AnchorsRight
  BY DEF EventInit, AnchorsRight, Anchor, About
<1> QED
  BY <1>1 DEF EventInit, EventInv, Admitted, Perceived, Answered, Past, Anchor

LEMMA EventAbsentRight == EventAbsent => EventInv
  BY DEF EventAbsent, EventInv, Admitted, Perceived, Answered, Past

\* What may be said of anchors that stay, or become fewer.
LEMMA FewerAnchors ==
    ASSUME AnchorsRight, anchors' \subseteq anchors, UNCHANGED event
    PROVE  AnchorsRight'
  BY DEF AnchorsRight, About, Anchor

LEMMA Admission == ASSUME EventInv, AdmitMedia PROVE EventInv'
<1>1. AnchorsRight' /\ event' \in Event
  BY FewerAnchors DEF EventInv, AdmitMedia
<1>2. Admitted'
  BY DEF AdmitMedia, Admitted, Refused, Reason
<1> QED
  BY <1>1, <1>2 DEF AdmitMedia, EventInv, Perceived, Answered, Past

\* Every way through the perception leaves anchors that are right, of media
\* that are not refused, or a failure for each image and video.
LEMMA Perception ==
    ASSUME EventInv, eventPc = "perceive",
           NEW found, NEW failed, Perceives(found, failed),
           AnchorsRight', \A x \in found : ~Refused(x.asset),
           (\A x \in found : x.by = "model") =>
               \A a \in Assets : event.media[a].kind \in {"image", "video"} =>
                   (\E x \in found : x.asset = a) \/ (\E f \in failures \cup failed : f[1] = a)
    PROVE  EventInv'
<1> USE DEF Perceives
<1>1. Admitted'
  BY DEF EventInv, Admitted, Refused, Reason
<1>2. Perceived'
  BY DEF Perceived
<1> QED
  BY <1>1, <1>2 DEF EventInv, Answered, Past

\* An image or video that is no image a model looks at has a failure.
LEMMA UnseenFail ==
    ASSUME EventInv, eventPc = "perceive", NEW a \in Assets \ Images,
           event.media[a].kind \in {"image", "video"}
    PROVE  \E f \in failures \cup Unseen : f[1] = a
<1>1. event.media[a] \in Medium
  BY DEF EventInv, Event
<1>2. CASE Refused(a)
  <2>1. <<a, Reason>> \in failures
    BY <1>2 DEF EventInv, Admitted
  <2>2. <<a, Reason>>[1] = a
    OBVIOUS
  <2> QED
    BY <2>1, <2>2
<1>3. CASE event.media[a].kind = "video"
  <2>1. <<a, "video_frames_missing">> \in Unseen
    BY <1>3 DEF Unseen
  <2>2. <<a, "video_frames_missing">>[1] = a
    OBVIOUS
  <2> QED
    BY <2>1, <2>2
<1>4. CASE event.media[a].kind = "image" /\ ~Refused(a)
  <2>1. event.media[a].url = "none"
    BY <1>1, <1>4 DEF Images, Medium, Refused
  <2>2. <<a, "image_working_file_url_missing">> \in Unseen
    BY <1>1, <1>4, <2>1 DEF Unseen, Medium
  <2> QED
    BY <2>2
<1> QED
  BY <1>2, <1>3, <1>4

LEMMA WithoutModel == ASSUME EventInv, KeepAnchors \/ SeeNothing \/ NoModel PROVE EventInv'
<1>1. CASE KeepAnchors
  <2>1. AnchorsRight'
    BY <1>1, FewerAnchors DEF KeepAnchors, Perceives, EventInv
  <2>2. \A x \in anchors : x.by = "model" => FALSE
    BY <1>1 DEF KeepAnchors, EventInv
  <2> QED
    BY <1>1, <2>1, <2>2, Perception DEF KeepAnchors, EventInv, Admitted
<1>2. CASE SeeNothing
  <2>1. AnchorsRight'
    BY <1>2, FewerAnchors DEF SeeNothing, Perceives, EventInv
  <2>2. \A a \in Assets : event.media[a].kind \in {"image", "video"} =>
            \E f \in failures \cup Unseen : f[1] = a
    BY <1>2, UnseenFail DEF SeeNothing
  <2> QED
    BY <1>2, <2>1, <2>2, Perception DEF SeeNothing
<1>3. ASSUME NoModel PROVE EventInv'
  <2>1. PICK reason : Perceives({}, Unseen \cup Failing(Images, reason))
    BY <1>3 DEF NoModel
  <2>2. AnchorsRight'
    BY <2>1 DEF Perceives, AnchorsRight
  <2>3. \A a \in Assets : event.media[a].kind \in {"image", "video"} =>
            \E f \in failures \cup (Unseen \cup Failing(Images, reason)) : f[1] = a
    <3>1. ASSUME NEW a \in Images PROVE \E f \in Failing(Images, reason) : f[1] = a
      <4>1. <<a, reason>> \in Failing(Images, reason) /\ <<a, reason>>[1] = a
        BY DEF Failing
      <4> QED
        BY <4>1
    <3> QED
      BY <1>3, <3>1, UnseenFail DEF NoModel
  <2> QED
    BY <1>3, <2>1, <2>2, <2>3, Perception DEF NoModel
<1> QED
  BY <1>1, <1>2, <1>3

\* What a model finds belongs to an image, and an image where it finds nothing
\* has a failure.
LEMMA ModelLooks == ASSUME EventInv, Look PROVE EventInv'
<1>1. PICK seen \in [Images -> Seen] :
        \/ Perceives(Found(seen), Unseen \cup Missed(seen))
        \/ Perceives({}, Unseen \cup Missed(seen)
                            \cup Failing(Images, "fire_pointing_model_release_failed"))
  BY DEF Look
<1>2. eventPc = "perceive"
  BY DEF Look
<1>3. \A a \in Assets \ Images : event.media[a].kind \in {"image", "video"} =>
          \E f \in failures \cup Unseen : f[1] = a
  BY <1>2, UnseenFail
<1>4. CASE Perceives(Found(seen), Unseen \cup Missed(seen))
  <2>1. ASSUME NEW x \in Found(seen)
        PROVE  \E a \in Images : \E p \in seen[a].points :
                 /\ x = Anchor(a, "model", [phenomenon |-> p, pointed |-> TRUE, evidence |-> NoEvidence])
    BY DEF Found, Marked
  <2>2. \A x \in Found(seen) : x.by = "model" /\ x.shape.evidence.method = "none" /\ x.asset \in Images
    BY <2>1 DEF Anchor, NoEvidence
  <2>3. ASSUME NEW x \in Found(seen), NEW y \in Found(seen), About(x) = About(y) PROVE x = y
    <3>1. PICK a \in Images : \E p \in seen[a].points :
             x = Anchor(a, "model", [phenomenon |-> p, pointed |-> TRUE, evidence |-> NoEvidence])
      BY <2>1
    <3>2. PICK b \in Images : \E q \in seen[b].points :
             y = Anchor(b, "model", [phenomenon |-> q, pointed |-> TRUE, evidence |-> NoEvidence])
      BY <2>1
    <3>3. PICK p \in seen[a].points :
             x = Anchor(a, "model", [phenomenon |-> p, pointed |-> TRUE, evidence |-> NoEvidence])
      BY <3>1
    <3>4. PICK q \in seen[b].points :
             y = Anchor(b, "model", [phenomenon |-> q, pointed |-> TRUE, evidence |-> NoEvidence])
      BY <3>2
    <3>5. About(x) = <<a, "model", p>> /\ About(y) = <<b, "model", q>>
      BY <3>3, <3>4 DEF About, Anchor
    <3>6. a = b /\ p = q
      <4>1. <<a, "model", p>> = <<b, "model", q>>
        BY <2>3, <3>5
      <4> QED
        BY <4>1
    <3> QED
      BY <3>3, <3>4, <3>6
  <2>4. AnchorsRight'
    <3>1. anchors' = Found(seen)
      BY <1>4 DEF Perceives
    <3>2. \A x \in anchors' : x.by = "model" /\ x.shape.evidence.method = "none" /\ x.asset \in Assets
      BY <2>2, <3>1 DEF Images
    <3>3. \A x, y \in anchors' : About(x) = About(y) => x = y
      BY <2>3, <3>1
    <3> QED
      BY <3>2, <3>3 DEF AnchorsRight, About
  <2>5. \A x \in Found(seen) : ~Refused(x.asset)
    BY <2>2 DEF Images
  <2>6. ASSUME NEW a \in Images
        PROVE  (\E x \in Found(seen) : x.asset = a) \/ (\E f \in Missed(seen) : f[1] = a)
    <3>1. CASE seen[a].raises
      <4>1. <<a, "fire_pointing_inference_failed">> \in Missed(seen)
        BY <3>1 DEF Missed, Failing
      <4>2. <<a, "fire_pointing_inference_failed">>[1] = a
        OBVIOUS
      <4> QED
        BY <4>1, <4>2
    <3>2. CASE ~seen[a].raises /\ seen[a].points = {}
      <4>1. <<a, "fire_pointing_no_anchor">> \in Missed(seen)
        BY <3>2 DEF Missed, Failing
      <4>2. <<a, "fire_pointing_no_anchor">>[1] = a
        OBVIOUS
      <4> QED
        BY <4>1, <4>2
    <3>3. CASE ~seen[a].raises /\ seen[a].points # {}
      <4>1. PICK p \in seen[a].points : TRUE
        BY <3>3
      <4> DEFINE x == Anchor(a, "model", [phenomenon |-> p, pointed |-> TRUE, evidence |-> NoEvidence])
      <4>2. x \in Found(seen)
        <5>1. x \in Marked(a, seen[a].points)
          BY DEF Marked
        <5> QED
          BY <3>3, <5>1 DEF Found
      <4>3. x.asset = a
        BY DEF Anchor
      <4> QED
        BY <4>2, <4>3
    <3> QED
      BY <3>1, <3>2, <3>3
  <2>7. \A a \in Assets : event.media[a].kind \in {"image", "video"} =>
            \/ \E x \in Found(seen) : x.asset = a
            \/ \E f \in failures \cup (Unseen \cup Missed(seen)) : f[1] = a
    BY <1>3, <2>6
  <2> QED
    BY <1>2, <1>4, <2>4, <2>5, <2>7, Perception
<1>5. CASE Perceives({}, Unseen \cup Missed(seen)
                           \cup Failing(Images, "fire_pointing_model_release_failed"))
  <2>1. AnchorsRight'
    BY <1>5 DEF Perceives, AnchorsRight
  <2>2. ASSUME NEW a \in Images
        PROVE  \E f \in Failing(Images, "fire_pointing_model_release_failed") : f[1] = a
    <3>1. <<a, "fire_pointing_model_release_failed">>
             \in Failing(Images, "fire_pointing_model_release_failed")
      BY DEF Failing
    <3>2. <<a, "fire_pointing_model_release_failed">>[1] = a
      OBVIOUS
    <3> QED
      BY <3>1, <3>2
  <2>3. \A a \in Assets : event.media[a].kind \in {"image", "video"} =>
            \E f \in failures \cup (Unseen \cup Missed(seen)
                    \cup Failing(Images, "fire_pointing_model_release_failed")) : f[1] = a
    BY <1>3, <2>2
  <2> QED
    BY <1>2, <1>5, <2>1, <2>3, Perception
<1> QED
  BY <1>1, <1>4, <1>5

LEMMA Reporting == ASSUME EventInv, Report PROVE EventInv'
<1>1. AnchorsRight' /\ event' \in Event
  BY FewerAnchors DEF EventInv, Report
<1>2. UNCHANGED <<event, anchors, failures>>
  BY DEF Report
<1>3. /\ \A x \in anchors : ~Refused(x.asset)
      /\ \A a \in Assets : Refused(a) => <<a, Reason>> \in failures
      /\ (\A x \in anchors : x.by = "model") =>
            \A a \in Assets : event.media[a].kind \in {"image", "video"} =>
                (\E x \in anchors : x.asset = a) \/ (\E f \in failures : f[1] = a)
  BY DEF Report, EventInv, Admitted, Perceived
<1>4. Answered'
  <2>1. CASE Answers("failed", {}, {})
    BY <2>1 DEF Answers, Answered
  <2>2. CASE /\ \A x \in anchors : Promoted(x) => Fits(x)
             /\ Answers(IF \E t \in Attempts : t.status \in {"localized", "sector"}
                        THEN "needs_review" ELSE "abstained",
                        Attempts, {x \in anchors : Promoted(x)})
    <3>1. /\ Attempts' = Attempts
          /\ \A x \in anchors : Promoted(x)' = Promoted(x)
      BY <1>2 DEF Attempts, Attempt, Status, Localized, Projected, Promoted, About, Failure
    <3>2. /\ answered' = IF \E t \in Attempts : t.status \in {"localized", "sector"}
                         THEN "needs_review" ELSE "abstained"
          /\ attempts' = Attempts
          /\ proposals' = {x \in anchors : Promoted(x)}
      BY <2>2 DEF Answers
    <3>3. /\ \A a \in Assets : Refused(a)' <=> Refused(a)
          /\ Reason' = Reason
          /\ \A x \in anchors : Refused(x.asset)' <=> Refused(x.asset)
      BY <1>2 DEF Refused, Reason
    <3>4. \A x \in proposals' : Fits(x)
      BY <2>2, <3>2
    <3>5. anchors' = anchors /\ failures' = failures /\ event' = event
      BY <1>2
    <3>6. proposals' = {x \in anchors' : Promoted(x)'}
      BY <3>1, <3>2, <3>5
    <3> QED
      BY <1>3, <3>1, <3>2, <3>3, <3>4, <3>5, <3>6 DEF Answered
  <2> QED
    BY <2>1, <2>2 DEF Report
<1>5. eventPc' = "answered"
  BY DEF Report, Answers
<1> QED
  BY <1>1, <1>4, <1>5 DEF EventInv, Admitted, Perceived, Past

LEMMA EventStays == ASSUME EventInv, EventNext PROVE EventInv'
<1>1. CASE RefuseEvent
  <2>1. AnchorsRight'
    BY <1>1, FewerAnchors DEF RefuseEvent, EventInv
  <2> QED
    BY <1>1, <2>1 DEF RefuseEvent, Answers, EventInv, Admitted, Perceived, Answered, Past
<1>2. CASE EventRaises
  <2>1. AnchorsRight'
    BY <1>2, FewerAnchors DEF EventRaises, EventInv
  <2> QED
    BY <1>2, <2>1 DEF EventRaises, EventInv, Admitted, Perceived, Answered, Past
<1> QED
  BY <1>1, <1>2, Admission, WithoutModel, ModelLooks, Reporting DEF EventNext

LEMMA EventInvariance == Spec => []EventInv
<1>1. Init => EventInv
  BY EventStarts, EventAbsentRight DEF Init
<1>2. EventInv /\ [Next]_<<eventVars, v2Vars>> => EventInv'
  <2>1. ASSUME EventInv, UNCHANGED eventVars PROVE EventInv'
    <3> USE <2>1 DEF eventVars
    <3>1. AnchorsRight => AnchorsRight'
      BY FewerAnchors
    <3>2. Admitted' /\ Perceived'
      BY DEF EventInv, Admitted, Perceived, Refused, Reason
    <3>3. Answered'
      <4>1. /\ Attempts' = Attempts
            /\ \A x : Promoted(x)' = Promoted(x)
        BY DEF Attempts, Attempt, Status, Localized, Projected, Promoted, About, Failure
      <4>2. /\ \A a : Refused(a)' <=> Refused(a)
            /\ Reason' = Reason
        BY DEF Refused, Reason
      <4>3. \A x : Fits(x)' = Fits(x)
        BY DEF Fits
      <4> QED
        BY <4>1, <4>2, <4>3 DEF EventInv, Answered
    <3> QED
      BY <3>1, <3>2, <3>3 DEF EventInv
  <2> QED
    BY <2>1, EventStays DEF Next
<1> QED
  BY <1>1, <1>2, PTL DEF Spec

\* The attempts are those of the anchors and of the failures, or one of neither.
LEMMA AttemptsOf ==
    /\ \A x \in anchors : Attempt(About(x), Status(x)) \in Attempts
    /\ \A f \in failures : Attempt(Failure(f), "abstained") \in Attempts
    /\ Attempts # {}
    /\ \A t \in Attempts :
         \/ \E x \in anchors : t = Attempt(About(x), Status(x))
         \/ \E f \in failures : t = Attempt(Failure(f), "abstained")
         \/ anchors = {} /\ t = Attempt(Nothing, "abstained")
<1> DEFINE tried == {Attempt(About(x), Status(x)) : x \in anchors}
                      \cup {Attempt(Failure(f), "abstained") : f \in failures}
<1>1. Attempts = IF tried = {} THEN {Attempt(Nothing, "abstained")} ELSE tried
  BY DEF Attempts
<1>2. /\ \A x \in anchors : Attempt(About(x), Status(x)) \in tried
      /\ \A f \in failures : Attempt(Failure(f), "abstained") \in tried
      /\ \A t \in tried : \/ \E x \in anchors : t = Attempt(About(x), Status(x))
                          \/ \E f \in failures : t = Attempt(Failure(f), "abstained")
  OBVIOUS
<1> HIDE DEF tried
<1> QED
  BY <1>1, <1>2

\* RefusedMediaLeaveNoTrace (EventRoute): a refused asset has no anchor and no
\* proposal in an answer, and its refusal is told, for any media.
THEOREM RefusedMediaStayOut == Spec => []RefusedMediaLeaveNoTrace
<1>1. EventInv => RefusedMediaLeaveNoTrace
  <2> SUFFICES ASSUME EventInv, Concluded, NEW a \in Assets, Refused(a)
               PROVE  /\ \A x \in anchors : x.asset # a
                      /\ \A x \in proposals : x.asset # a
                      /\ Attempt(Failure(<<a, Reason>>), "abstained") \in attempts
    BY DEF RefusedMediaLeaveNoTrace
  <2>1. /\ attempts = Attempts /\ proposals \subseteq anchors
        /\ \A x \in anchors : ~Refused(x.asset)
        /\ <<a, Reason>> \in failures
    BY DEF EventInv, Answered, Concluded
  <2> QED
    BY <2>1, AttemptsOf
<1> QED
  BY <1>1, EventInvariance, PTL

\* EveryMediumIsAccountedFor (EventRoute): one attempt for each anchor, and for
\* each image and video of an event without an anchor of its own.
THEOREM MediaAreAccountedFor == Spec => []EveryMediumIsAccountedFor
<1>1. EventInv => EveryMediumIsAccountedFor
  <2> SUFFICES ASSUME EventInv, Concluded
               PROVE  EveryMediumIsAccountedFor
    BY DEF EveryMediumIsAccountedFor
  <2>1. /\ attempts = Attempts /\ eventPc = "answered"
        /\ (\A x \in anchors : x.by = "model") =>
             \A a \in Assets : event.media[a].kind \in {"image", "video"} =>
                 (\E x \in anchors : x.asset = a) \/ (\E f \in failures : f[1] = a)
    BY DEF EventInv, Answered, Concluded
  <2>2. AnchorsRight
    BY <2>1 DEF EventInv
  <2>3. \A x \in anchors : Cardinality(AttemptsOn(x)) = 1
    <3> SUFFICES ASSUME NEW x \in anchors
                 PROVE  Cardinality(AttemptsOn(x)) = 1
      OBVIOUS
    <3>1. Attempt(About(x), Status(x)) \in attempts
      BY <2>1, AttemptsOf
    <3>2. ASSUME NEW t \in attempts, t.about = About(x)
          PROVE  t = Attempt(About(x), Status(x))
      <4>1. CASE \E y \in anchors : t = Attempt(About(y), Status(y))
        BY <2>2, <3>2, <4>1 DEF AnchorsRight, Attempt
      <4>2. ASSUME NEW f \in failures, t = Attempt(Failure(f), "abstained") PROVE FALSE
        <5>1. Failure(f) = About(x)
          BY <3>2, <4>2 DEF Attempt
        <5>2. x.by = "failure"
          BY <5>1 DEF Failure, About
        <5> QED
          BY <2>2, <5>2 DEF AnchorsRight
      <4> QED
        BY <2>1, <4>1, <4>2, AttemptsOf
    <3>3. AttemptsOn(x) = {Attempt(About(x), Status(x))}
      BY <3>1, <3>2 DEF Attempt, AttemptsOn
    <3> QED
      BY <3>3, FS_Singleton
  <2>4. attempts # {} /\ \A f \in failures : Attempt(Failure(f), "abstained") \in attempts
    BY <2>1, AttemptsOf
  <2>5. ASSUME \A x \in anchors : x.by = "model", NEW a \in Assets,
               event.media[a].kind \in {"image", "video"}
        PROVE  Accounted(a)
    <3>1. (\E x \in anchors : x.asset = a) \/ (\E f \in failures : f[1] = a)
      BY <2>1, <2>5
    <3> QED
      BY <2>4, <3>1 DEF Accounted
  <2> QED
    BY <2>3, <2>4, <2>5 DEF EveryMediumIsAccountedFor
<1> QED
  BY <1>1, EventInvariance, PTL

\* ProposalsAreDeterministic (EventRoute): only evidence of the sender that is
\* no cross view becomes a proposal, and only a point that was localized or
\* given a sector asks for a review.
THEOREM OnlyDeterministicProposals == Spec => []ProposalsAreDeterministic
<1>1. EventInv => ProposalsAreDeterministic
  <2> SUFFICES ASSUME EventInv, eventPc = "answered"
               PROVE  ProposalsAreDeterministic
    BY DEF ProposalsAreDeterministic
  <2>1. CASE answered = "failed" /\ attempts = {} /\ proposals = {}
    BY <2>1 DEF ProposalsAreDeterministic
  <2>2. CASE /\ answered = IF \E t \in Attempts : t.status \in {"localized", "sector"}
                           THEN "needs_review" ELSE "abstained"
             /\ attempts = Attempts
             /\ proposals = {x \in anchors : Promoted(x)}
             /\ \A x \in proposals : Fits(x)
    <3>1. ASSUME NEW x \in proposals
          PROVE  /\ x.by = "sender"
                 /\ x.shape.evidence.method \in {"raycast", "other"}
                 /\ Attempt(About(x), "localized") \in attempts
      <4>1. x \in anchors /\ Localized(x)
        BY <2>2 DEF Promoted
      <4>2. x.shape.evidence.method \in {"raycast", "other"}
        BY <4>1 DEF Localized, Projected
      <4>3. x.by = "sender"
        BY <4>1, <4>2 DEF EventInv, AnchorsRight
      <4>4. Status(x) = "localized"
        BY <4>1 DEF Status, Localized
      <4>5. Attempt(About(x), Status(x)) \in attempts
        BY <2>2, <4>1, AttemptsOf
      <4> QED
        BY <4>2, <4>3, <4>4, <4>5
    <3>2. \A t \in attempts : t.status \in {"localized", "sector", "abstained"}
      <4>1. \A x : Status(x) \in {"localized", "sector", "abstained"}
        BY DEF Status
      <4> QED
        BY <2>2, <4>1, AttemptsOf DEF Attempt
    <3> QED
      BY <2>2, <3>1, <3>2 DEF ProposalsAreDeterministic
  <2> QED
    BY <2>1, <2>2 DEF EventInv, Answered
<1> QED
  BY <1>1, EventInvariance, PTL

-----------------------------------------------------------------------------
(* The batch. *)

Statuses == {"succeeded", "partial_failure", "failed", "skipped"}
Roles == {"asr", "fire_detection", "visual_grounding", "multimodal_extraction", "fire_pointing",
          "burned_area", "cross_view_registration", "spatial_projection", "evidence_fusion",
          "situation_report"}
TraceType == [role : Roles, sequence : Nat, status : Statuses]

RolesIn(traces) == {traces[n].role : n \in DOMAIN traces}
\* What Consecutive demands, but for the number of stages.
InSequence(traces) ==
    /\ traces \in Seq(TraceType)
    /\ \A n \in DOMAIN traces : traces[n].sequence = n
    /\ \A m, n \in DOMAIN traces : traces[m].role = traces[n].role => m = n

LEMMA InSequenceAppends ==
    ASSUME NEW s, InSequence(s),
           NEW role \in Roles, role \notin RolesIn(s), NEW status \in Statuses
    PROVE  LET t == s \o <<Trace(role, Len(s) + 1, status)>>
           IN /\ InSequence(t)
              /\ Len(t) = Len(s) + 1
              /\ RolesIn(t) = RolesIn(s) \cup {role}
              /\ \A n \in DOMAIN t : \/ n \in DOMAIN s /\ t[n] = s[n]
                                    \/ t[n] = Trace(role, Len(s) + 1, status)
<1> DEFINE new == Trace(role, Len(s) + 1, status)
           t == s \o <<new>>
<1>1. s \in Seq(TraceType) /\ Len(s) \in Nat
  BY DEF InSequence
<1>2. new \in TraceType /\ new.role = role /\ new.sequence = Len(s) + 1
  BY <1>1 DEF Trace, TraceType
<1> HIDE DEF new
<1>3. /\ t \in Seq(TraceType) /\ Len(t) = Len(s) + 1 /\ DOMAIN t = 1 .. Len(s) + 1
      /\ \A n \in 1 .. Len(s) : t[n] = s[n]
      /\ t[Len(s) + 1] = new
      /\ DOMAIN s = 1 .. Len(s)
  BY <1>1, <1>2
<1> HIDE DEF t
<1>4. \A n \in DOMAIN t : \/ n \in DOMAIN s /\ t[n] = s[n]
                          \/ n = Len(s) + 1 /\ t[n] = new
  <2> SUFFICES ASSUME NEW n \in 1 .. Len(s) + 1
               PROVE  \/ n \in DOMAIN s /\ t[n] = s[n]
                      \/ n = Len(s) + 1 /\ t[n] = new
    BY <1>3
  <2>1. n \in 1 .. Len(s) \/ n = Len(s) + 1
    BY <1>1
  <2> QED
    BY <1>3, <2>1
<1>5. \A n \in DOMAIN s : n \in DOMAIN t /\ s[n].role # role /\ n # Len(s) + 1
  BY <1>1, <1>3 DEF RolesIn
<1>6. InSequence(t)
  <2>1. \A n \in DOMAIN t : t[n].sequence = n
    BY <1>2, <1>4 DEF InSequence
  <2>2. \A m, n \in DOMAIN t : t[m].role = t[n].role => m = n
    BY <1>2, <1>4, <1>5 DEF InSequence
  <2> QED
    BY <1>3, <2>1, <2>2 DEF InSequence
<1>7. RolesIn(t) = RolesIn(s) \cup {role}
  <2>1. Len(s) + 1 \in DOMAIN t
    BY <1>1, <1>3
  <2>2. \A n \in DOMAIN s : t[n] = s[n]
    BY <1>3
  <2> QED
    BY <1>2, <1>3, <1>4, <1>5, <2>1, <2>2 DEF RolesIn
<1> QED
  BY <1>3, <1>4, <1>6, <1>7 DEF new, t

LEMMA NothingAppended == ASSUME NEW s, s \in Seq(TraceType) PROVE s \o <<>> = s
  OBVIOUS

\* What each stage leaves.
SessionRight ==
    /\ session.status \in Statuses
    /\ InSequence(session.traces) /\ Len(session.traces) = 4
    /\ RolesIn(session.traces) = {"asr", "fire_detection", "visual_grounding", "multimodal_extraction"}
    /\ session.status = "succeeded" =>
         \A n \in DOMAIN session.traces : session.traces[n].status = "succeeded"

PointingRight ==
    /\ \E s \in Statuses : pointing.traces = <<Trace("fire_pointing", 5, s)>>
    /\ \A i \in pointing.items : kind(i) = "photo"

BurnedRight ==
    /\ \E s \in Statuses : burned.traces = <<Trace("burned_area", 6, s)>>
    /\ \A i \in burned.items : kind(i) = "bands"

SpatialRight ==
    /\ \A i \in spatial.items : Annotations(i) # {} /\ kind(i) \notin {"satellite", "bands"}
    /\ \/ spatial.traces = <<>>
       \/ \E s \in Statuses, r \in {"succeeded", "skipped"} :
            spatial.traces = <<Trace("cross_view_registration", 7, s),
                               Trace("spatial_projection", 8, r)>>

\* An answer has the status of its stages, and a proposal for every annotation.
AnswerRight ==
    /\ output.status = "succeeded" =>
         \A n \in DOMAIN output.traces : output.traces[n].status = "failed" =>
             output.traces[n].role = "cross_view_registration"
    /\ output.status = "failed" <=> session.status = "failed"
    /\ session.status # "succeeded" => output.status = session.status
    /\ \A i \in Items :
        /\ kind(i) \in Pixels \cup {"product"} => output.proposals[i] # {}
        /\ i \notin burned.items =>
             \A a \in Annotations(i) : Cardinality({p \in output.proposals[i] : p.about = a}) = 1

\* A batch is refused for the size of its answer or for an item without a date.
RefusedRight == \/ Oversized(Composed)
                \/ \E a \in spatial.projected : ~batch.items[a[1]].dated

V2Inv ==
    /\ v2Pc \in {"absent", "session", "pointing", "burned", "spatial", "compose", "answered", "raised"}
    /\ v2Pc # "absent" => batch \in Batch
    /\ v2Pc \in {"pointing", "burned", "spatial", "compose"} =>
         SessionRight /\ \A i \in session.items : LegacyKind(i) # "article"
    /\ v2Pc \in {"burned", "spatial", "compose"} => PointingRight
    /\ v2Pc \in {"spatial", "compose"} => BurnedRight
    /\ v2Pc \in {"session", "pointing", "burned", "spatial"} => spatial = NotRun
    /\ v2Pc = "compose" => SpatialRight
    /\ Delivered => AnswerRight
    /\ v2Pc = "answered" /\ output.status = "refused" => RefusedRight

LEMMA V2Starts == V2Init \/ V2Absent => V2Inv
  BY DEF V2Init, V2Absent, V2Empty, V2Inv, Delivered

LEMMA SessionRuns == ASSUME V2Inv, RunSession PROVE V2Inv'
<1>1. PICK status \in {"succeeded", "partial_failure", "failed"} :
        /\ session'.status = status
        /\ session'.traces = [n \in DOMAIN SessionRoles |->
                                Trace(SessionRoles[n], n,
                                      IF status = "succeeded" THEN "succeeded" ELSE "failed")]
        /\ \A i \in session'.items : LegacyKind(i) # "article"
  BY DEF RunSession
<1> DEFINE s == IF status = "succeeded" THEN "succeeded" ELSE "failed"
           traces == <<Trace("asr", 1, s), Trace("fire_detection", 2, s),
                       Trace("visual_grounding", 3, s), Trace("multimodal_extraction", 4, s)>>
<1>2. s \in Statuses
  BY DEF Statuses
<1>3. session'.traces = traces
  BY <1>1 DEF SessionRoles
<1> HIDE DEF s
<1>4. /\ Trace("asr", 1, s) \in TraceType /\ Trace("fire_detection", 2, s) \in TraceType
      /\ Trace("visual_grounding", 3, s) \in TraceType
      /\ Trace("multimodal_extraction", 4, s) \in TraceType
  BY <1>2 DEF Trace, TraceType, Roles
<1>5. traces \in Seq(TraceType) /\ Len(traces) = 4 /\ DOMAIN traces = 1 .. 4
  BY <1>4
<1>6. /\ traces[1] = Trace("asr", 1, s) /\ traces[2] = Trace("fire_detection", 2, s)
      /\ traces[3] = Trace("visual_grounding", 3, s)
      /\ traces[4] = Trace("multimodal_extraction", 4, s)
  OBVIOUS
<1> HIDE DEF traces
<1>7. \A n \in DOMAIN traces : n = 1 \/ n = 2 \/ n = 3 \/ n = 4
  BY <1>5
<1>8. InSequence(traces)
  BY <1>5, <1>6, <1>7 DEF InSequence, Trace
<1>9. RolesIn(traces) = {"asr", "fire_detection", "visual_grounding", "multimodal_extraction"}
  <2>1. 1 \in DOMAIN traces /\ 2 \in DOMAIN traces /\ 3 \in DOMAIN traces /\ 4 \in DOMAIN traces
    BY <1>5
  <2> QED
    BY <1>6, <1>7, <2>1 DEF RolesIn, Trace
<1>10. SessionRight'
  <2>1. status = "succeeded" => \A n \in DOMAIN traces : traces[n].status = "succeeded"
    BY <1>6, <1>7 DEF Trace, s
  <2> QED
    BY <1>1, <1>3, <1>5, <1>8, <1>9, <2>1 DEF SessionRight, Statuses, RolesIn, InSequence
<1>11. UNCHANGED <<batch, pointing, burned, spatial, output>> /\ v2Pc' = "pointing"
  BY DEF RunSession
<1> QED
  BY <1>1, <1>10, <1>11 DEF V2Inv, RunSession, LegacyKind, kind, Delivered

LEMMA SessionStays == ASSUME SessionRight, UNCHANGED session PROVE SessionRight'
  BY DEF SessionRight

LEMMA ModelRan ==
    \A role, offset, candidates : \A execution \in Ran(role, offset, candidates) :
        /\ execution.items \subseteq candidates
        /\ \E s \in Statuses : execution.traces = <<Trace(role, Len(session.traces) + offset, s)>>
  BY DEF Ran, NotRun, Statuses

LEMMA ModelStages ==
    ASSUME V2Inv, Point \/ Outline
    PROVE  V2Inv'
<1>1. CASE Point
  <2> DEFINE photos == {i \in Items : kind(i) = "photo"}
  <2>1. pointing' \in Ran("fire_pointing", 1, photos) /\ v2Pc = "pointing"
    BY <1>1 DEF Point
  <2> HIDE DEF photos
  <2>2. SessionRight /\ \A i \in session.items : LegacyKind(i) # "article"
    BY <2>1 DEF V2Inv
  <2>3. /\ pointing'.items \subseteq photos
        /\ \E s \in Statuses : pointing'.traces = <<Trace("fire_pointing", Len(session.traces) + 1, s)>>
    BY <2>1, ModelRan
  <2>4. Len(session.traces) + 1 = 5
    BY <2>2 DEF SessionRight
  <2>5. UNCHANGED <<batch, session, burned, spatial, output>> /\ v2Pc' = "burned"
    BY <1>1 DEF Point
  <2>6. PointingRight'
    BY <2>3, <2>4, <2>5 DEF PointingRight, kind, photos
  <2>7. SessionRight'
    BY <2>2, <2>5, SessionStays
  <2> QED
    BY <2>1, <2>2, <2>5, <2>6, <2>7 DEF V2Inv, LegacyKind, kind, Delivered
<1>2. CASE Outline
  <2> DEFINE outlined == {i \in Items : kind(i) = "bands" /\ batch.reference}
  <2>1. burned' \in Ran("burned_area", 2, outlined) /\ v2Pc = "burned"
    BY <1>2 DEF Outline
  <2> HIDE DEF outlined
  <2>2. SessionRight /\ PointingRight /\ \A i \in session.items : LegacyKind(i) # "article"
    BY <2>1 DEF V2Inv
  <2>3. /\ burned'.items \subseteq outlined
        /\ \E s \in Statuses : burned'.traces = <<Trace("burned_area", Len(session.traces) + 2, s)>>
    BY <2>1, ModelRan
  <2>4. Len(session.traces) + 2 = 6
    BY <2>2 DEF SessionRight
  <2>5. UNCHANGED <<batch, session, pointing, spatial, output>> /\ v2Pc' = "spatial"
    BY <1>2 DEF Outline
  <2>6. BurnedRight'
    BY <2>3, <2>4, <2>5 DEF BurnedRight, kind, outlined
  <2>7. SessionRight' /\ PointingRight'
    BY <2>2, <2>5, SessionStays DEF PointingRight, kind
  <2> QED
    BY <2>1, <2>2, <2>5, <2>6, <2>7 DEF V2Inv, LegacyKind, kind, Delivered
<1> QED
  BY <1>1, <1>2

\* The stages one after the other: their places, and why one may have failed.
Spoiled == session.status # "succeeded" \/ FailedStage(pointing) \/ FailedStage(burned)
Good(traces, length, roles) ==
    /\ InSequence(traces) /\ Len(traces) = length /\ RolesIn(traces) = roles
    /\ \A n \in DOMAIN traces : traces[n].status = "failed" =>
         traces[n].role = "cross_view_registration" \/ Spoiled

LEMMA GoodAppends ==
    ASSUME NEW s, NEW length, NEW roles, Good(s, length, roles),
           NEW role \in Roles \ roles, NEW status \in Statuses,
           status = "failed" => role = "cross_view_registration" \/ Spoiled
    PROVE  Good(s \o <<Trace(role, length + 1, status)>>, length + 1, roles \cup {role})
<1> DEFINE t == s \o <<Trace(role, length + 1, status)>>
<1>1. /\ InSequence(t) /\ Len(t) = length + 1 /\ RolesIn(t) = roles \cup {role}
      /\ \A n \in DOMAIN t : \/ n \in DOMAIN s /\ t[n] = s[n]
                            \/ t[n] = Trace(role, length + 1, status)
  BY InSequenceAppends DEF Good
<1>2. Trace(role, length + 1, status).role = role /\ Trace(role, length + 1, status).status = status
  BY DEF Trace
<1> HIDE DEF t
<1>3. \A n \in DOMAIN t : t[n].status = "failed" => t[n].role = "cross_view_registration" \/ Spoiled
  BY <1>1, <1>2 DEF Good
<1>4. Good(t, length + 1, roles \cup {role})
  BY <1>1, <1>3 DEF Good
<1> QED
  BY <1>4 DEF t

SessionPart == {"asr", "fire_detection", "visual_grounding", "multimodal_extraction"}
ModelPart == SessionPart \cup {"fire_pointing"} \cup {"burned_area"}

LEMMA ModelTraces ==
    ASSUME SessionRight, PointingRight, BurnedRight
    PROVE  Good(TracesBefore, 6, ModelPart)
<1>1. Good(session.traces, 4, SessionPart)
  BY DEF SessionRight, Good, SessionPart, Spoiled
<1>2. PICK p \in Statuses : pointing.traces = <<Trace("fire_pointing", 5, p)>>
  BY DEF PointingRight
<1>3. PICK b \in Statuses : burned.traces = <<Trace("burned_area", 6, b)>>
  BY DEF BurnedRight
<1>4. /\ p = "failed" => FailedStage(pointing)
      /\ b = "failed" => FailedStage(burned)
  BY <1>2, <1>3 DEF FailedStage, Trace
<1>5. Good(session.traces \o pointing.traces, 5, SessionPart \cup {"fire_pointing"})
  <2>1. "fire_pointing" \in Roles \ SessionPart
    BY DEF Roles, SessionPart
  <2>2. Good(session.traces \o <<Trace("fire_pointing", 4 + 1, p)>>, 4 + 1, SessionPart \cup {"fire_pointing"})
    BY <1>1, <1>4, <2>1, GoodAppends DEF Spoiled
  <2> QED
    BY <1>2, <2>2
<1>6. Good((session.traces \o pointing.traces) \o burned.traces, 6, ModelPart)
  <2>1. "burned_area" \in Roles \ (SessionPart \cup {"fire_pointing"})
    BY DEF Roles, SessionPart
  <2>2. Good((session.traces \o pointing.traces) \o <<Trace("burned_area", 5 + 1, b)>>, 5 + 1,
             (SessionPart \cup {"fire_pointing"}) \cup {"burned_area"})
    BY <1>4, <1>5, <2>1, GoodAppends DEF Spoiled
  <2> QED
    BY <1>3, <2>2 DEF ModelPart
<1> QED
  BY <1>6 DEF TracesBefore

LEMMA TwoAppended ==
    ASSUME NEW s \in Seq(TraceType), NEW x \in TraceType, NEW y \in TraceType
    PROVE  s \o <<x, y>> = (s \o <<x>>) \o <<y>>
<1>1. <<x>> \in Seq(TraceType) /\ <<y>> \in Seq(TraceType)
  OBVIOUS
<1>2. <<x>> \o <<y>> = <<x, y>>
  <2>1. /\ Len(<<x>> \o <<y>>) = Len(<<x, y>>) /\ Len(<<x, y>>) = 2
        /\ <<x>> \o <<y>> \in Seq(TraceType) /\ <<x, y>> \in Seq(TraceType)
    BY <1>1
  <2>2. (<<x>> \o <<y>>)[1] = x /\ (<<x>> \o <<y>>)[2] = y
    BY <1>1
  <2>3. \A i \in 1 .. 2 : (<<x>> \o <<y>>)[i] = <<x, y>>[i]
    <3> SUFFICES ASSUME NEW i \in 1 .. 2 PROVE (<<x>> \o <<y>>)[i] = <<x, y>>[i]
      OBVIOUS
    <3>1. i = 1 \/ i = 2
      OBVIOUS
    <3> QED
      BY <2>2, <3>1
  <2> QED
    BY <2>1, <2>3, SeqEqual
<1> QED
  <2> DEFINE a == <<x>>
             b == <<y>>
  <2>1. a \in Seq(TraceType) /\ b \in Seq(TraceType)
    BY <1>1
  <2> HIDE DEF a, b
  <2>2. (s \o a) \o b = s \o (a \o b)
    BY <2>1, ConcatAssociative
  <2>3. s \o (a \o b) = s \o <<x, y>>
    BY <1>2 DEF a, b
  <2> QED
    BY <2>2, <2>3 DEF a, b

LEMMA TwoMoreTraces ==
    ASSUME NEW s, NEW length \in Nat, NEW roles, Good(s, length, roles),
           NEW role \in Roles \ roles, NEW status \in Statuses,
           NEW next \in Roles \ (roles \cup {role}), NEW result \in Statuses \ {"failed"},
           status = "failed" => role = "cross_view_registration"
    PROVE  Good(s \o <<Trace(role, length + 1, status), Trace(next, length + 2, result)>>,
                length + 2, (roles \cup {role}) \cup {next})
<1> DEFINE x == Trace(role, length + 1, status)
           y == Trace(next, length + 2, result)
<1>1. x \in TraceType /\ y \in TraceType
  BY DEF Trace, TraceType
<1>2. Good(s \o <<x>>, length + 1, roles \cup {role})
  BY GoodAppends
<1>3. Good((s \o <<x>>) \o <<Trace(next, (length + 1) + 1, result)>>, (length + 1) + 1,
           (roles \cup {role}) \cup {next})
  <2> HIDE DEF x
  <2> QED
    BY <1>2, GoodAppends
<1>4. (length + 1) + 1 = length + 2
  OBVIOUS
<1>5. s \in Seq(TraceType)
  BY DEF Good, InSequence
<1> HIDE DEF x
<1>6. s \o <<x, y>> = (s \o <<x>>) \o <<y>>
  BY <1>1, <1>5, TwoAppended DEF y
<1> QED
  BY <1>3, <1>4, <1>6 DEF x, y

\* All the stages of an answer, with and without those of the projection.
LEMMA ComposedTraces ==
    ASSUME SessionRight, PointingRight, BurnedRight, SpatialRight
    PROVE  \E roles : \E length \in {8, 10} : Good(Composed.traces, length, roles)
<1> DEFINE before == TracesBefore \o spatial.traces
<1>1. /\ Composed.traces = before \o <<Trace("evidence_fusion", Len(before) + 1, "succeeded"),
                                     Trace("situation_report", Len(before) + 2, "succeeded")>>
  BY DEF Composed
<1>2. Good(TracesBefore, 6, ModelPart)
  BY ModelTraces
<1>3. ASSUME NEW length \in {6, 8}, NEW roles, Good(before, length, roles),
             "evidence_fusion" \notin roles, "situation_report" \notin roles
      PROVE  Good(Composed.traces, length + 2, (roles \cup {"evidence_fusion"}) \cup {"situation_report"})
  <2> HIDE DEF before
  <2>1. Len(before) = length /\ length \in Nat
    BY <1>3 DEF Good
  <2>2. /\ "evidence_fusion" \in Roles \ roles /\ "succeeded" \in Statuses \ {"failed"}
        /\ "situation_report" \in Roles \ (roles \cup {"evidence_fusion"})
    BY <1>3 DEF Roles, Statuses
  <2>3. Good(before \o <<Trace("evidence_fusion", length + 1, "succeeded"),
                         Trace("situation_report", length + 2, "succeeded")>>,
             length + 2, (roles \cup {"evidence_fusion"}) \cup {"situation_report"})
    BY <1>3, <2>1, <2>2, TwoMoreTraces
  <2> QED
    BY <1>1, <2>1, <2>3
<1>4. CASE spatial.traces = <<>>
  <2>1. TracesBefore \in Seq(TraceType)
    BY <1>2 DEF Good, InSequence
  <2>2. before = TracesBefore
    BY <1>4, <2>1, NothingAppended
  <2>3. "evidence_fusion" \notin ModelPart /\ "situation_report" \notin ModelPart
    BY DEF ModelPart, SessionPart
  <2> HIDE DEF before
  <2>4. Good(Composed.traces, 6 + 2, (ModelPart \cup {"evidence_fusion"}) \cup {"situation_report"})
    BY <1>2, <1>3, <2>2, <2>3
  <2> QED
    BY <2>4
<1>5. CASE spatial.traces # <<>>
  <2> DEFINE more == (ModelPart \cup {"cross_view_registration"}) \cup {"spatial_projection"}
  <2>1. PICK s \in Statuses, r \in {"succeeded", "skipped"} :
          spatial.traces = <<Trace("cross_view_registration", 7, s), Trace("spatial_projection", 8, r)>>
    BY <1>5 DEF SpatialRight
  <2>2. /\ "cross_view_registration" \in Roles \ ModelPart /\ r \in Statuses \ {"failed"}
        /\ "spatial_projection" \in Roles \ (ModelPart \cup {"cross_view_registration"})
    BY DEF Roles, ModelPart, SessionPart, Statuses
  <2>3. Good(TracesBefore \o <<Trace("cross_view_registration", 6 + 1, s),
                               Trace("spatial_projection", 6 + 2, r)>>, 6 + 2, more)
    BY <1>2, <2>2, TwoMoreTraces
  <2>4. Good(before, 8, more)
    BY <2>1, <2>3
  <2>5. "evidence_fusion" \notin more /\ "situation_report" \notin more
    BY DEF ModelPart, SessionPart
  <2> HIDE DEF before, more
  <2>6. Good(Composed.traces, 8 + 2, (more \cup {"evidence_fusion"}) \cup {"situation_report"})
    BY <1>3, <2>4, <2>5
  <2> QED
    BY <2>6
<1> QED
  BY <1>4, <1>5

LEMMA Projecting ==
    ASSUME V2Inv, v2Pc = "spatial",
           UNCHANGED <<batch, session, pointing, burned>>,
           \/ spatial' = NotRun
           \/ \E crossing \in {"skipped", "failed", "succeeded"}, r \in {"succeeded", "skipped"} :
                /\ spatial'.items = Terrestrial
                /\ spatial'.traces =
                     <<Trace("cross_view_registration", Len(TracesBefore) + 1, crossing),
                       Trace("spatial_projection", Len(TracesBefore) + 2, r)>>
    PROVE  SpatialRight'
<1>1. SessionRight /\ PointingRight /\ BurnedRight
  BY DEF V2Inv
<1>2. Len(TracesBefore) = 6
  BY <1>1, ModelTraces DEF Good
<1>3. \A i : Annotations(i)' = Annotations(i) /\ kind(i)' = kind(i)
  BY DEF Annotations, kind
<1>4. CASE spatial' = NotRun
  BY <1>4 DEF SpatialRight, NotRun
<1>5. CASE spatial' # NotRun
  <2>1. PICK crossing \in {"skipped", "failed", "succeeded"}, r \in {"succeeded", "skipped"} :
                /\ spatial'.items = Terrestrial
                /\ spatial'.traces =
                     <<Trace("cross_view_registration", Len(TracesBefore) + 1, crossing),
                       Trace("spatial_projection", Len(TracesBefore) + 2, r)>>
    BY <1>5
  <2>2. spatial'.traces = <<Trace("cross_view_registration", 7, crossing),
                            Trace("spatial_projection", 8, r)>>
    BY <1>2, <2>1
  <2>3. \A i \in spatial'.items : Annotations(i)' # {} /\ kind(i)' \notin {"satellite", "bands"}
    BY <1>3, <2>1 DEF Terrestrial
  <2>4. crossing \in Statuses
    BY DEF Statuses
  <2> QED
    BY <2>2, <2>3, <2>4 DEF SpatialRight
<1> QED
  BY <1>4, <1>5

\* The parts of an answer, and whether it is too large, are the state's.
LEMMA SameAnswer ==
    ASSUME UNCHANGED <<batch, session, pointing, burned, spatial>>
    PROVE  Oversized(Composed)' <=> Oversized(Composed)
<1>1. \A i : Annotations(i)' = Annotations(i) /\ kind(i)' = kind(i)
  BY DEF Annotations, kind
<1>2. \A i : Proposals(i)' = Proposals(i)
  <2>1. \A i : _satellite_ground_point(i)' <=> _satellite_ground_point(i)
    BY <1>1 DEF _satellite_ground_point
  <2>2. \A i : _hotspot_spatial_proposals(i)' = _hotspot_spatial_proposals(i)
    BY DEF _hotspot_spatial_proposals
  <2>3. \A i : _spatial_proposals(i)' = _spatial_proposals(i)
    BY <1>1, <2>1 DEF _spatial_proposals
  <2> QED
    BY <1>1, <2>2, <2>3 DEF Proposals
<1>3. TracesBefore' = TracesBefore
  BY DEF TracesBefore
<1>4. V2Status' = V2Status
  BY DEF V2Status, FailedStage
<1>5. Composed' = Composed
  BY <1>2, <1>3, <1>4 DEF Composed
<1>6. Total' = Total
  BY DEF Total
<1> QED
  BY <1>5, <1>6 DEF Oversized, CoarseProjection

LEMMA SpatialStage == ASSUME V2Inv, Project \/ SkipProjection PROVE V2Inv'
<1>1. /\ v2Pc = "spatial" /\ UNCHANGED <<batch, session, pointing, burned>>
      /\ \/ v2Pc' = "compose"
         \/ /\ v2Pc' = "answered" /\ output' = [status |-> "refused"]
            /\ \E a \in spatial'.projected : ~batch.items[a[1]].dated
  <2>1. CASE SkipProjection
    BY <2>1 DEF SkipProjection
  <2>2. CASE Project
    <3>1. PICK projected \in SUBSET AnnotationsOf(Terrestrial) :
            /\ spatial'.projected = projected
            /\ IF \E a \in projected : ~batch.items[a[1]].dated
               THEN Refuse
               ELSE v2Pc' = "compose" /\ UNCHANGED output
      BY <2>2 DEF Project
    <3> QED
      BY <2>2, <3>1 DEF Project, Refuse
  <2> QED
    BY <2>1, <2>2
<1>2. SpatialRight'
  <2>1. CASE SkipProjection
    BY <1>1, <2>1, Projecting DEF SkipProjection, V2Inv
  <2>2. CASE Project
    <3>1. PICK crossing \in Crossings, projected \in SUBSET AnnotationsOf(Terrestrial) :
            spatial' = [items |-> Terrestrial, projected |-> projected,
                        traces |-> <<Trace("cross_view_registration", Len(TracesBefore) + 1, crossing),
                                     Trace("spatial_projection", Len(TracesBefore) + 2,
                                           IF Terrestrial # {} /\ batch.reference
                                           THEN "succeeded" ELSE "skipped")>>]
      BY <2>2 DEF Project
    <3>2. crossing \in {"skipped", "failed", "succeeded"}
      BY DEF Crossings
    <3> DEFINE r == IF Terrestrial # {} /\ batch.reference THEN "succeeded" ELSE "skipped"
    <3>3. /\ spatial'.items = Terrestrial
          /\ spatial'.traces = <<Trace("cross_view_registration", Len(TracesBefore) + 1, crossing),
                                 Trace("spatial_projection", Len(TracesBefore) + 2, r)>>
      BY <3>1
    <3>4. r \in {"succeeded", "skipped"}
      OBVIOUS
    <3> HIDE DEF r
    <3> QED
      BY <1>1, <3>2, <3>3, <3>4, Projecting
  <2> QED
    BY <2>1, <2>2
<1>3. SessionRight' /\ PointingRight' /\ BurnedRight'
  <2>1. SessionRight /\ PointingRight /\ BurnedRight
    BY <1>1 DEF V2Inv
  <2> QED
    BY <1>1, <2>1, SessionStays DEF PointingRight, BurnedRight, kind
<1>4. v2Pc' = "answered" => RefusedRight' /\ output'.status = "refused"
  BY <1>1 DEF RefusedRight
<1> QED
  BY <1>1, <1>2, <1>3, <1>4 DEF V2Inv, LegacyKind, kind, Delivered

\* Every source of proposals gives one to each annotation it is asked for.
LEMMA ProposalsComplete ==
    ASSUME V2Inv, v2Pc = "compose", NEW i \in Items
    PROVE  /\ kind(i) \in Pixels \cup {"product"} => Proposals(i) # {}
           /\ i \notin burned.items =>
                \A a \in Annotations(i) : Cardinality({p \in Proposals(i) : p.about = a}) = 1
           /\ \A p \in Proposals(i) : p.about \in Annotations(i) \cup {<<i, "none">>}
<1>1. /\ PointingRight /\ BurnedRight /\ SpatialRight
      /\ \A j \in session.items : LegacyKind(j) # "article"
  BY DEF V2Inv
<1>2. ASSUME \A a \in Annotations(i) : \E p \in Proposals(i) : p.about = a,
             \A p, q \in Proposals(i) : p.about = q.about => p = q,
             \A p \in Proposals(i) : p.about \in Annotations(i)
      PROVE  /\ \A a \in Annotations(i) : Cardinality({p \in Proposals(i) : p.about = a}) = 1
             /\ \A p \in Proposals(i) : p.about \in Annotations(i) \cup {<<i, "none">>}
  <2>1. ASSUME NEW a \in Annotations(i) PROVE Cardinality({p \in Proposals(i) : p.about = a}) = 1
    <3>1. PICK p \in Proposals(i) : p.about = a
      BY <1>2
    <3>2. {q \in Proposals(i) : q.about = a} = {p}
      BY <1>2, <3>1
    <3> QED
      BY <3>2, FS_Singleton
  <2> QED
    BY <1>2, <2>1
<1>3. kind(i) \in Pixels \cup {"product", "text"}
  BY DEF V2Inv, Batch, Item, kind
<1>4. CASE kind(i) = "product"
  <2>1. Annotations(i) = {}
    BY <1>1, <1>4 DEF Annotations, PointingRight, BurnedRight, LegacyKind
  <2>2. Proposals(i) = _hotspot_spatial_proposals(i)
    BY <1>1, <1>4, <2>1 DEF Proposals, BurnedRight, SpatialRight
  <2>3. CASE _hotspot_spatial_proposals(i) = Abstention(i)
    BY <2>1, <2>2, <2>3 DEF Abstention, Proposal
  <2>4. CASE _hotspot_spatial_proposals(i) # Abstention(i)
    <3>1. /\ batch.items[i].features \in 1 .. MaxFeatures
          /\ Proposals(i) = {Proposal(<<i, "none">>, n, "projected") : n \in 1 .. batch.items[i].features}
      BY <2>2, <2>4 DEF _hotspot_spatial_proposals
    <3>2. 1 \in 1 .. batch.items[i].features
      BY <3>1, LimitsAssumption
    <3>3. Proposals(i) # {}
      BY <3>1, <3>2
    <3>4. \A p \in Proposals(i) : p.about = <<i, "none">>
      BY <3>1 DEF Proposal
    <3> QED
      BY <2>1, <3>3, <3>4
  <2> QED
    BY <2>3, <2>4
<1>5. CASE kind(i) # "product" /\ i \in burned.items
  <2>1. Proposals(i) = {Proposal(<<i, "burned">>, 1, "projected")}
    BY <1>1, <1>5 DEF Proposals, BurnedRight, SpatialRight
  <2>2. <<i, "burned">> \in Annotations(i)
    BY <1>5 DEF Annotations
  <2> QED
    BY <1>5, <2>1, <2>2 DEF Proposal
<1>6. CASE kind(i) # "product" /\ i \notin burned.items /\ i \in spatial.items
  <2>1. Proposals(i) = {Proposal(a, 1, IF a \in spatial.projected THEN "projected" ELSE "insufficient") :
                           a \in Annotations(i)}
    BY <1>6 DEF Proposals
  <2>2. ASSUME NEW a \in Annotations(i) PROVE \E p \in Proposals(i) : p.about = a
    <3>1. Proposal(a, 1, IF a \in spatial.projected THEN "projected" ELSE "insufficient") \in Proposals(i)
      BY <2>1
    <3>2. Proposal(a, 1, IF a \in spatial.projected THEN "projected" ELSE "insufficient").about = a
      BY DEF Proposal
    <3> QED
      BY <3>1, <3>2
  <2>3. \A p, q \in Proposals(i) : p.about = q.about => p = q
    <3> SUFFICES ASSUME NEW p \in Proposals(i), NEW q \in Proposals(i), p.about = q.about PROVE p = q
      OBVIOUS
    <3>1. PICK a \in Annotations(i) : p = Proposal(a, 1, IF a \in spatial.projected THEN "projected" ELSE "insufficient")
      BY <2>1
    <3>2. PICK b \in Annotations(i) : q = Proposal(b, 1, IF b \in spatial.projected THEN "projected" ELSE "insufficient")
      BY <2>1
    <3>3. p.about = a /\ q.about = b
      BY <3>1, <3>2 DEF Proposal
    <3> QED
      BY <3>1, <3>2, <3>3
  <2>4. \A p \in Proposals(i) : p.about \in Annotations(i)
    BY <2>1 DEF Proposal
  <2>5. Annotations(i) # {}
    BY <1>1, <1>6 DEF SpatialRight
  <2>6. Proposals(i) # {}
    BY <2>2, <2>5
  <2> QED
    BY <1>2, <2>2, <2>3, <2>4, <2>6
<1>7. CASE kind(i) # "product" /\ i \notin burned.items /\ i \notin spatial.items
  <2>1. Proposals(i) = _spatial_proposals(i)
    BY <1>7 DEF Proposals
  <2>2. CASE Annotations(i) = {}
    <3>1. Proposals(i) = IF kind(i) \in Pixels THEN Abstention(i) ELSE {}
      BY <2>1, <2>2 DEF _spatial_proposals
    <3>2. Abstention(i) # {} /\ \A p \in Abstention(i) : p.about = <<i, "none">>
      BY DEF Abstention, Proposal
    <3> QED
      BY <1>7, <2>2, <3>1, <3>2
  <2>3. CASE Annotations(i) # {}
    <3>1. Proposals(i) = {Proposal(a, 1, IF _satellite_ground_point(i) THEN "projected" ELSE "insufficient") :
                             a \in Annotations(i)}
      BY <2>1, <2>3 DEF _spatial_proposals
    <3>2. ASSUME NEW a \in Annotations(i) PROVE \E p \in Proposals(i) : p.about = a
      <4>1. Proposal(a, 1, IF _satellite_ground_point(i) THEN "projected" ELSE "insufficient") \in Proposals(i)
        BY <3>1
      <4>2. Proposal(a, 1, IF _satellite_ground_point(i) THEN "projected" ELSE "insufficient").about = a
        BY DEF Proposal
      <4> QED
        BY <4>1, <4>2
    <3>3. \A p, q \in Proposals(i) : p.about = q.about => p = q
      <4> SUFFICES ASSUME NEW p \in Proposals(i), NEW q \in Proposals(i), p.about = q.about PROVE p = q
        OBVIOUS
      <4>1. PICK a \in Annotations(i) : p = Proposal(a, 1, IF _satellite_ground_point(i) THEN "projected" ELSE "insufficient")
        BY <3>1
      <4>2. PICK b \in Annotations(i) : q = Proposal(b, 1, IF _satellite_ground_point(i) THEN "projected" ELSE "insufficient")
        BY <3>1
      <4>3. p.about = a /\ q.about = b
        BY <4>1, <4>2 DEF Proposal
      <4> QED
        BY <4>1, <4>2, <4>3
    <3>4. \A p \in Proposals(i) : p.about \in Annotations(i)
      BY <3>1 DEF Proposal
    <3>5. Proposals(i) # {}
      BY <2>3, <3>2
    <3> QED
      BY <1>2, <3>2, <3>3, <3>4, <3>5
  <2> QED
    BY <2>2, <2>3
<1> QED
  BY <1>4, <1>5, <1>6, <1>7

\* The answer that from_legacy_output composes.
LEMMA ComposedRight ==
    ASSUME V2Inv, v2Pc = "compose"
    PROVE  /\ Consecutive(Composed.traces)
           /\ Composed.status # "refused"
           /\ Composed.status = "succeeded" =>
                \A n \in DOMAIN Composed.traces : Composed.traces[n].status = "failed" =>
                    Composed.traces[n].role = "cross_view_registration"
           /\ Composed.status = "failed" <=> session.status = "failed"
           /\ session.status # "succeeded" => Composed.status = session.status
           /\ \A i \in Items : Composed.proposals[i] = Proposals(i)
<1>1. /\ SessionRight /\ PointingRight /\ BurnedRight /\ SpatialRight
  BY DEF V2Inv
<1>2. PICK roles : \E length \in {8, 10} : Good(Composed.traces, length, roles)
  BY <1>1, ComposedTraces
<1>3. Composed.status = V2Status /\ \A i \in Items : Composed.proposals[i] = Proposals(i)
  BY DEF Composed
<1>4. Consecutive(Composed.traces)
  BY <1>2 DEF Good, InSequence, Consecutive
<1>5. /\ V2Status = "succeeded" => ~Spoiled
      /\ V2Status = "failed" <=> session.status = "failed"
      /\ session.status # "succeeded" => V2Status = session.status
      /\ V2Status # "refused"
  BY <1>1 DEF V2Status, Spoiled, SessionRight, Statuses
<1> QED
  BY <1>2, <1>3, <1>4, <1>5 DEF Good

LEMMA Composing == ASSUME V2Inv, Compose PROVE V2Inv'
<1>1. /\ v2Pc = "compose" /\ v2Pc' = "answered"
      /\ UNCHANGED <<batch, session, pointing, burned, spatial>>
      /\ \/ output' = Composed
         \/ output' = [status |-> "refused"] /\ ~Admits(Composed)
  BY DEF Compose, Refuse
<1>2. CASE output' = [status |-> "refused"] /\ ~Admits(Composed)
  <2> DEFINE answer == Composed
  <2>1. /\ Consecutive(answer.traces)
        /\ \A i \in Items : answer.proposals[i] = Proposals(i)
        /\ ~Admits(answer)
    BY <1>1, <1>2, ComposedRight
  <2> HIDE DEF answer
  <2>2. Oversized(answer)
    BY <1>1, <2>1, ProposalsComplete DEF Admits
  <2>3. Oversized(Composed)'
    BY <1>1, <2>2, SameAnswer DEF answer
  <2> QED
    BY <1>1, <1>2, <2>3 DEF V2Inv, Delivered, RefusedRight
<1>3. CASE output' = Composed
  <2>1. \A i : Annotations(i)' = Annotations(i) /\ kind(i)' = kind(i)
    BY <1>1 DEF Annotations, kind
  <2> DEFINE answer == Composed
  <2>2. /\ answer.status = "succeeded" =>
             \A n \in DOMAIN answer.traces : answer.traces[n].status = "failed" =>
                 answer.traces[n].role = "cross_view_registration"
        /\ answer.status = "failed" <=> session.status = "failed"
        /\ session.status # "succeeded" => answer.status = session.status
        /\ \A i \in Items : answer.proposals[i] = Proposals(i)
    BY <1>1, ComposedRight
  <2>3. output' = answer
    BY <1>3
  <2> HIDE DEF answer
  <2>4. \A i \in Items :
          /\ kind(i) \in Pixels \cup {"product"} => answer.proposals[i] # {}
          /\ i \notin burned.items =>
               \A a \in Annotations(i) : Cardinality({p \in answer.proposals[i] : p.about = a}) = 1
    BY <1>1, <2>2, ProposalsComplete
  <2>5. AnswerRight'
    BY <1>1, <2>1, <2>2, <2>3, <2>4 DEF AnswerRight
  <2>6. output'.status # "refused"
    BY <1>1, <2>3, ComposedRight DEF answer
  <2> QED
    BY <1>1, <2>5, <2>6 DEF V2Inv
<1> QED
  BY <1>1, <1>2, <1>3

LEMMA V2Stays == ASSUME V2Inv, V2Next PROVE V2Inv'
<1>1. CASE StageRaises
  BY <1>1 DEF StageRaises, V2Inv, Delivered
<1> QED
  BY <1>1, SessionRuns, ModelStages, SpatialStage, Composing DEF V2Next

LEMMA V2Invariance == Spec => []V2Inv
<1>1. Init => V2Inv
  BY V2Starts DEF Init
<1>2. V2Inv /\ [Next]_<<eventVars, v2Vars>> => V2Inv'
  <2>1. ASSUME V2Inv, UNCHANGED v2Vars PROVE V2Inv'
    <3> USE <2>1 DEF v2Vars
    <3>1. \A i : Annotations(i)' = Annotations(i) /\ kind(i)' = kind(i) /\ LegacyKind(i)' = LegacyKind(i)
      BY DEF Annotations, kind, LegacyKind
    <3>2. /\ SessionRight' <=> SessionRight
          /\ PointingRight' <=> PointingRight
          /\ BurnedRight' <=> BurnedRight
      BY <3>1 DEF SessionRight, PointingRight, BurnedRight
    <3>3. SpatialRight' <=> SpatialRight
      BY <3>1 DEF SpatialRight
    <3>4. AnswerRight' <=> AnswerRight
      BY <3>1 DEF AnswerRight
    <3>5. RefusedRight' <=> RefusedRight
      BY SameAnswer DEF RefusedRight
    <3> QED
      BY <3>1, <3>2, <3>3, <3>4, <3>5 DEF V2Inv, Delivered
  <2> QED
    BY <2>1, V2Stays DEF Next
<1> QED
  BY <1>1, <1>2, PTL DEF Spec

\* RefusedOnlyForItsSize (VersionTwo): the stages fit together in every
\* combination, so that only a limit, or an item without a date, loses a batch.
THEOREM OnlySizeIsRefused == Spec => []RefusedOnlyForItsSize
<1>1. V2Inv => RefusedOnlyForItsSize
  BY DEF V2Inv, RefusedRight, RefusedOnlyForItsSize
<1> QED
  BY <1>1, V2Invariance, PTL

\* StatusReflectsStages (VersionTwo): an answer that says success has no failed
\* stage but a registration, and no stage hides a failure of the session.
THEOREM StatusIsThatOfTheStages == Spec => []StatusReflectsStages
<1>1. V2Inv => StatusReflectsStages
  BY DEF V2Inv, AnswerRight, StatusReflectsStages
<1> QED
  BY <1>1, V2Invariance, PTL

\* EveryAnnotationIsAnswered (VersionTwo): for any items and limits, exactly
\* one proposal for each annotation that no burned area replaces.
THEOREM AnnotationsAreAnswered == Spec => []EveryAnnotationIsAnswered
<1>1. V2Inv => EveryAnnotationIsAnswered
  BY DEF V2Inv, AnswerRight, EveryAnnotationIsAnswered
<1> QED
  BY <1>1, V2Invariance, PTL
=============================================================================
