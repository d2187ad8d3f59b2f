----------------------------- MODULE EventRoute -----------------------------
(***************************************************************************)
(* The event route of handle_job (handler.py) and the deterministic        *)
(* pipeline behind it (event_pipeline.py): media are admitted, a model     *)
(* marks points on images that have none, and only spatial evidence that   *)
(* came with the event turns a point into a proposal.                      *)
(*                                                                         *)
(* The lock is GpuSession's subject: that it is busy is a choice here.     *)
(* What the pipeline copies from the event (its profile, its families of   *)
(* external observations) is left out.                                     *)
(***************************************************************************)
EXTENDS Naturals, FiniteSets

CONSTANTS
    Assets,         \* the media of an event
    Given,          \* what may come with an asset: anchors, with their evidence
    NoAnchor        \* nothing came with an asset

Medium == [kind : {"image", "video", "file"}, url : {"none", "allowed", "refused"}]
Phenomenon == {"active", "front", "smoke"}

\* Spatial evidence as it was sent: EventPipelineInput admits every geometry.
Evidence == [method : {"none", "insufficient", "raycast", "cross_view", "other"},
             referenced : BOOLEAN, geometry : {"Point", "Line", "Area"}]
NoEvidence == [method |-> "none", referenced |-> FALSE, geometry |-> "Point"]

\* An anchor is a pixel point, or a geometry without one.
Shape == [phenomenon : Phenomenon, pointed : BOOLEAN, evidence : Evidence]
ASSUME GivenAssumption == Given \subseteq Shape /\ NoAnchor \notin Shape

VARIABLES
    eventPc,
    event,          \* the request and what the environment makes of it
    anchors,        \* perception_anchors with their spatial_evidence
    failures,       \* PerceptionFailures: an asset and a reason
    attempts,       \* localization_attempts
    proposals,      \* event_proposals
    answered        \* the status of the answer

eventVars == <<eventPc, event, anchors, failures, attempts, proposals, answered>>

Event == [media : [Assets -> Medium], given : [Assets -> Given \cup {NoAnchor}],
          oriented : BOOLEAN, settings : BOOLEAN]

\* An anchor: its asset, and who put it there.
Anchor(a, by, shape) == [asset |-> a, by |-> by, shape |-> shape]

EventInit == /\ eventPc = "admit"
             /\ event \in Event
             /\ anchors = {Anchor(a, "sender", event.given[a]) :
                              a \in {b \in Assets : event.given[b] # NoAnchor}}
             /\ failures = {} /\ attempts = {} /\ proposals = {}
             /\ answered = "none"

EventAbsent == /\ eventPc = "absent"
               /\ event = <<>>
               /\ anchors = {} /\ failures = {} /\ attempts = {} /\ proposals = {}
               /\ answered = "none"
-----------------------------------------------------------------------------
Answers(status, tried, proposed) == /\ eventPc' = "answered"
                                    /\ answered' = status
                                    /\ attempts' = tried
                                    /\ proposals' = proposed

\* The route is disabled, or the event is not valid.
RefuseEvent == /\ eventPc = "admit"
               /\ Answers("failed", {}, {})
               /\ UNCHANGED <<event, anchors, failures>>

\* Without settings no URL is allowed.
Refused(a) == /\ event.media[a].url # "none"
              /\ event.settings => event.media[a].url = "refused"
Reason == IF event.settings THEN "media_url_not_allowed" ELSE "media_url_allowlist_unconfigured"

\* Variant with a bug: the anchors of a refused asset stay.
AdmitMedia_keepsAnchors ==
    /\ eventPc = "admit"
    /\ failures' = {<<a, Reason>> : a \in {b \in Assets : Refused(b)}}
    /\ eventPc' = "perceive"
    /\ UNCHANGED <<event, anchors, attempts, proposals, answered>>

\* Anchors and evidence of a refused asset are dropped.
AdmitMedia == /\ eventPc = "admit"
              /\ failures' = {<<a, Reason>> : a \in {b \in Assets : Refused(b)}}
              /\ anchors' = {x \in anchors : ~Refused(x.asset)}
              /\ eventPc' = "perceive"
              /\ UNCHANGED <<event, attempts, proposals, answered>>

\* The images a model is to look at, and the media it cannot look at.
Images == {a \in Assets : event.media[a] = [kind |-> "image", url |-> "allowed"] /\ ~Refused(a)}
Unseen == {<<a, "video_frames_missing">> : a \in {b \in Assets : event.media[b].kind = "video"}}
     \cup {<<a, "image_working_file_url_missing">> :
              a \in {b \in Assets : event.media[b] = [kind |-> "image", url |-> "none"]}}
Failing(assets, reason) == {<<a, reason>> : a \in assets}

Perceives(found, failed) == /\ anchors' = found
                            /\ failures' = failures \cup failed
                            /\ eventPc' = "report"
                            /\ UNCHANGED <<event, attempts, proposals, answered>>

\* An event with anchors is not looked at again, nor one without an image.
KeepAnchors == /\ eventPc = "perceive"
               /\ anchors # {}
               /\ Perceives(anchors, {})

SeeNothing == /\ eventPc = "perceive"
              /\ anchors = {} /\ Images = {}
              /\ Perceives({}, Unseen)

\* No adapter, another job on the GPU, or a model that does not load.
NoModel == /\ eventPc = "perceive"
           /\ anchors = {} /\ Images # {}
           /\ \E reason \in {"gpu_session_already_active", "fire_pointing_model_unavailable"} :
                Perceives({}, Unseen \cup Failing(Images, reason))

Seen == [raises : BOOLEAN, points : SUBSET Phenomenon]
Marked(a, points) ==
    {Anchor(a, "model", [phenomenon |-> p, pointed |-> TRUE, evidence |-> NoEvidence]) : p \in points}
Found(seen) == UNION {Marked(a, seen[a].points) : a \in {b \in Images : ~seen[b].raises}}
Missed(seen) ==
    Failing({a \in Images : seen[a].raises}, "fire_pointing_inference_failed")
      \cup Failing({a \in Images : ~seen[a].raises /\ seen[a].points = {}}, "fire_pointing_no_anchor")

\* Variant with a bug: a failed release clears the anchors and says nothing.
Look_silent == /\ eventPc = "perceive"
               /\ anchors = {} /\ Images # {}
               /\ \E seen \in [Images -> Seen] :
                    \/ Perceives(Found(seen), Unseen \cup Missed(seen))
                    \/ Perceives({}, Unseen \cup Missed(seen))

\* Every image is looked at; a model that is not released has found nothing.
Look == /\ eventPc = "perceive"
        /\ anchors = {} /\ Images # {}
        /\ \E seen \in [Images -> Seen] :
             \/ Perceives(Found(seen), Unseen \cup Missed(seen))
             \/ Perceives({}, Unseen \cup Missed(seen)
                                 \cup Failing(Images, "fire_pointing_model_release_failed"))

\* Making the factory or the adapter raises, and is not caught.
EventRaises == /\ eventPc = "perceive"
               /\ Images # {}
               /\ eventPc' = "raised"
               /\ UNCHANGED <<event, anchors, failures, attempts, proposals, answered>>
-----------------------------------------------------------------------------
(* DeterministicEventPipeline.run.                                         *)

Projected(x) == x.shape.evidence.method \in {"raycast", "cross_view", "other"}

\* Variant with a bug: the shadow evidence of a cross view is promoted.
Localized_shadow(x) == Projected(x) /\ (x.shape.evidence.method = "raycast" =>
                                            x.shape.evidence.referenced)

\* A ray needs a reference, and a cross view stays a shadow.
Localized(x) == /\ Projected(x)
                /\ x.shape.evidence.method # "cross_view"
                /\ x.shape.evidence.method = "raycast" => x.shape.evidence.referenced

Status(x) == CASE Localized(x) -> "localized"
               [] ~Projected(x) /\ event.oriented /\ x.shape.pointed -> "sector"
               [] OTHER -> "abstained"

\* A front that is no line is localized and goes no further.
Promoted(x) == Localized(x) /\ (x.shape.phenomenon = "front" => x.shape.evidence.geometry = "Line")

\* An attempt is about an anchor, or about a failure.
About(x) == <<x.asset, x.by, x.shape.phenomenon>>
Failure(f) == <<f[1], "failure", f[2]>>
Nothing == <<NoAnchor, "failure", "no_visual_anchor">>

Attempt(about, status) == [about |-> about, status |-> status]
Attempts == LET tried == {Attempt(About(x), Status(x)) : x \in anchors}
                           \cup {Attempt(Failure(f), "abstained") : f \in failures}
            IN IF tried = {} THEN {Attempt(Nothing, "abstained")} ELSE tried

\* FireActivityProposal: a front is a line, anything else a point.
Fits(x) == x.shape.evidence.geometry = IF x.shape.phenomenon = "front" THEN "Line" ELSE "Point"

\* One proposal that its contract refuses makes the whole event fail.
Report == /\ eventPc = "report"
          /\ IF \A x \in anchors : Promoted(x) => Fits(x)
             THEN Answers(IF \E t \in Attempts : t.status \in {"localized", "sector"}
                          THEN "needs_review" ELSE "abstained",
                          Attempts, {x \in anchors : Promoted(x)})
             ELSE Answers("failed", {}, {})
          /\ UNCHANGED <<event, anchors, failures>>

EventNext == \/ RefuseEvent \/ AdmitMedia \/ KeepAnchors \/ SeeNothing \/ NoModel \/ Look
             \/ EventRaises \/ Report
-----------------------------------------------------------------------------
(* Properties.                                                             *)

Concluded == eventPc = "answered" /\ answered # "failed"

\* Nothing that an answer says of a refused asset comes from the asset: no
\* anchor, no attempt but refusals, no proposal; and its refusal is said.
RefusedMediaLeaveNoTrace ==
    Concluded => \A a \in {b \in Assets : Refused(b)} :
        /\ \A x \in anchors : x.asset # a
        /\ \A x \in proposals : x.asset # a
        /\ Attempt(Failure(<<a, Reason>>), "abstained") \in attempts

AttemptsOn(x) == {t \in attempts : t.about = About(x)}
Accounted(a) == \/ \E x \in anchors : x.asset = a
                \/ \E f \in failures : f[1] = a /\ Attempt(Failure(f), "abstained") \in attempts

\* An answer accounts for what was sent: every anchor has one attempt; if
\* the event came without an admitted anchor, every image and video has an
\* attempt, even where the model failed or could not be released.
EveryMediumIsAccountedFor ==
    Concluded =>
        /\ attempts # {}
        /\ \A x \in anchors : Cardinality(AttemptsOn(x)) = 1
        /\ (\A x \in anchors : x.by = "model") =>
             \A a \in Assets : event.media[a].kind \in {"image", "video"} => Accounted(a)

\* "Geographic geometry is accepted exclusively from deterministic spatial
\* evidence. Cross-view remains shadow evidence": a proposal was localized
\* by evidence of the sender, never by a model or a cross view, has a geometry
\* its phenomenon admits, and only then, or for a sector, is a review asked.
ProposalsAreDeterministic ==
    eventPc = "answered" =>
        /\ \A x \in proposals : /\ x.by = "sender" /\ Fits(x)
                                /\ x.shape.evidence.method \in {"raycast", "other"}
                                /\ Attempt(About(x), "localized") \in attempts
        /\ answered = "needs_review" <=> \E t \in attempts : t.status # "abstained"
=============================================================================
