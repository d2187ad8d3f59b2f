----------------------------- MODULE VersionTwo -----------------------------
(***************************************************************************)
(* A batch of version 2 (handler.py, v2_runner.py): a session of version 1 *)
(* runs first, then models that point at fires and outline burned areas,   *)
(* then a projection of the points; from_legacy_output composes one answer *)
(* of all of them, and the contract of the answer may refuse it.           *)
(*                                                                         *)
(* The session is SessionRunner's subject: what it leaves is a choice here.*)
(* An annotation is one per item and per model that may find it; texts,    *)
(* categories of facts and the codes of an abstention are left out.        *)
(***************************************************************************)
EXTENDS Naturals, FiniteSets, Sequences
LOCAL B == INSTANCE Bags

CONSTANTS
    Items,
    MaxFeatures,        \* the features of a hotspot product that are read (5000)
    MaxProposals,       \* the spatial proposals of an item (512, contract)
    MaxFacts,           \* the facts of a section of the report (200, contract)
    MaxItemFacts        \* bound: the facts a session finds in an item

ASSUME LimitsAssumption == {MaxFeatures, MaxProposals, MaxFacts, MaxItemFacts} \subseteq Nat

Orbital == {"satellite", "bands", "product"}
Pixels == {"photo", "satellite", "bands"}

\* located: a photo with a complete pose, a satellite image in a known CRS, a
\* product that can be read.  coarse: a resolution of more than 50 km.
Item == {s \in [kind : Pixels \cup {"product", "text"}, dated : BOOLEAN, located : BOOLEAN,
                coarse : BOOLEAN, features : 0 .. MaxFeatures + 1] :
            /\ s.kind # "photo" => s.dated
            /\ s.kind = "text" => ~s.located
            /\ s.coarse => s.kind \in {"satellite", "bands"}
            /\ s.features # 0 => s.kind = "product" /\ s.located}

\* Satellite inputs are not mixed with others.
Batch == {b \in [items : [Items -> Item], reference : BOOLEAN] :
            (\A i \in Items : b.items[i].kind \in Orbital)
              \/ \A i \in Items : b.items[i].kind \notin Orbital}

VARIABLES
    v2Pc,
    batch,          \* the request
    session,        \* what the session of version 1 returned
    pointing,       \* fire_pointing_execution
    burned,         \* burned_area_execution
    spatial,        \* spatial_execution
    output          \* what handle_job returns

v2Vars == <<v2Pc, batch, session, pointing, burned, spatial, output>>

Trace(role, sequence, status) == [role |-> role, sequence |-> sequence, status |-> status]
NotRun == [traces |-> <<>>, items |-> {}, projected |-> {}]

V2Empty == /\ session = NotRun /\ pointing = NotRun /\ burned = NotRun /\ spatial = NotRun
           /\ output = [status |-> "none"]
V2Init == v2Pc = "session" /\ batch \in Batch /\ V2Empty
V2Absent == v2Pc = "absent" /\ batch = <<>> /\ V2Empty

kind(i) == batch.items[i].kind
-----------------------------------------------------------------------------
(* The stages.                                                             *)

\* The kinds of version 1: a product is read as an article.
LegacyKind(i) == CASE kind(i) = "photo" -> "image"
                   [] kind(i) \in {"satellite", "bands"} -> "satellite_image"
                   [] OTHER -> "article"

SessionRoles == <<"asr", "fire_detection", "visual_grounding", "multimodal_extraction">>

\* run_with_trace, on the batch as version 1 knows it.
RunSession ==
    /\ v2Pc = "session"
    /\ \E status \in {"succeeded", "partial_failure", "failed"}, long \in BOOLEAN,
          facts \in UNION {[found -> 1 .. MaxItemFacts] : found \in SUBSET Items},
          seen \in SUBSET {i \in Items : LegacyKind(i) # "article"} :
         /\ long => facts # <<>>
         /\ session' = [status |-> status, long |-> long, facts |-> facts, items |-> seen,
                        traces |-> [n \in DOMAIN SessionRoles |->
                                      Trace(SessionRoles[n], n,
                                            IF status = "succeeded" THEN "succeeded" ELSE "failed")]]
    /\ v2Pc' = "pointing"
    /\ UNCHANGED <<batch, pointing, burned, spatial, output>>

\* run_fire_pointing_stage, run_burned_area_stage: a trace, and the items with a result.
Ran(role, offset, candidates) ==
    LET Execution(status, found) ==
          [NotRun EXCEPT !.items = found,
                         !.traces = <<Trace(role, Len(session.traces) + offset, status)>>]
    IN {Execution("skipped", {})}
         \cup (IF candidates = {} THEN {}
               ELSE {Execution("failed", {})}
                      \cup {Execution("succeeded", found) : found \in SUBSET candidates})

Point == /\ v2Pc = "pointing"
         /\ pointing' \in Ran("fire_pointing", 1, {i \in Items : kind(i) = "photo"})
         /\ v2Pc' = "burned"
         /\ UNCHANGED <<batch, session, burned, spatial, output>>

\* Variant with a bug: both stages take the same place in the sequence.
Outline_samePlace ==
    /\ v2Pc = "burned"
    /\ burned' \in Ran("burned_area", 1, {i \in Items : kind(i) = "bands" /\ batch.reference})
    /\ v2Pc' = "spatial"
    /\ UNCHANGED <<batch, session, pointing, spatial, output>>

Outline == /\ v2Pc = "burned"
           /\ burned' \in Ran("burned_area", 2,
                              {i \in Items : kind(i) = "bands" /\ batch.reference})
           /\ v2Pc' = "spatial"
           /\ UNCHANGED <<batch, session, pointing, spatial, output>>

\* Pointing is authoritative where it found something; grounding is the fallback.
Annotations(i) ==
    {<<i, "burned">> : j \in burned.items \cap {i}}
      \cup (IF i \in pointing.items THEN {<<i, "pointing">>}
            ELSE {<<i, "session">> : j \in session.items \cap {i}})
AnnotationsOf(items) == UNION {Annotations(i) : i \in items}

TracesBefore == session.traces \o pointing.traces \o burned.traces

\* The pipeline of the spatial library: it answers for the items on the ground
\* that have an annotation, with a camera's pose or one found across views.
Terrestrial == {i \in Items : kind(i) \notin {"satellite", "bands"} /\ Annotations(i) # {}}
Posed(crossing) == IF ~batch.reference THEN {}
                   ELSE {i \in Terrestrial : batch.items[i].located \/ crossing = "succeeded"}
Crossings == IF \A i \in Terrestrial : batch.items[i].located THEN {"skipped"}
             ELSE {"skipped"} \cup (IF batch.reference THEN {"failed", "succeeded"} ELSE {})

Refuse == /\ output' = [status |-> "refused"]
          /\ v2Pc' = "answered"

\* An item without a date cannot be projected: its proposal is refused.
Project ==
    /\ v2Pc = "spatial"
    /\ \E crossing \in Crossings, projected \in SUBSET AnnotationsOf(Terrestrial) :
         /\ \A a \in projected : a[1] \in Posed(crossing)
         /\ spatial' = [items |-> Terrestrial, projected |-> projected,
                        traces |-> <<Trace("cross_view_registration", Len(TracesBefore) + 1, crossing),
                                     Trace("spatial_projection", Len(TracesBefore) + 2,
                                           IF Terrestrial # {} /\ batch.reference
                                           THEN "succeeded" ELSE "skipped")>>]
         /\ IF \E a \in projected : ~batch.items[a[1]].dated
            THEN Refuse
            ELSE v2Pc' = "compose" /\ UNCHANGED output
    /\ UNCHANGED <<batch, session, pointing, burned>>

\* No pipeline is configured.
SkipProjection == /\ v2Pc = "spatial"
                  /\ v2Pc' = "compose"
                  /\ UNCHANGED <<batch, session, pointing, burned, spatial, output>>

\* An adapter that raises while it is released takes the batch with it.
StageRaises == /\ v2Pc \in {"session", "pointing", "burned", "spatial"}
               /\ v2Pc' = "raised"
               /\ UNCHANGED <<batch, session, pointing, burned, spatial, output>>
-----------------------------------------------------------------------------
(* from_legacy_output.                                                     *)

Proposal(annotation, n, status) == [about |-> annotation, n |-> n, status |-> status]
Abstention(i) == {Proposal(<<i, "none">>, 1, "insufficient")}

\* Only the features inside the product's own box are counted in features.
_hotspot_spatial_proposals(i) ==
    LET item == batch.items[i]
    IN IF item.located /\ batch.reference /\ item.features \in 1 .. MaxFeatures
       THEN {Proposal(<<i, "none">>, n, "projected") : n \in 1 .. item.features}
       ELSE Abstention(i)

_satellite_ground_point(i) == /\ kind(i) \in {"satellite", "bands"}
                              /\ batch.reference /\ batch.items[i].located

_spatial_proposals(i) ==
    IF Annotations(i) = {} THEN IF kind(i) \in Pixels THEN Abstention(i) ELSE {}
    ELSE {Proposal(a, 1, IF _satellite_ground_point(i) THEN "projected" ELSE "insufficient") :
             a \in Annotations(i)}

\* Variant with a bug: an item the pipeline has no answer for has no proposals.
Proposals_noFallback(i) ==
    CASE kind(i) = "product" -> _hotspot_spatial_proposals(i)
      [] i \in burned.items -> {Proposal(<<i, "burned">>, 1, "projected")}
      [] OTHER -> {Proposal(a, 1, IF a \in spatial.projected THEN "projected" ELSE "insufficient") :
                      a \in AnnotationsOf({i} \cap spatial.items)}

\* A product answers for itself, then burned areas, the pipeline, the fallback.
Proposals(i) ==
    CASE kind(i) = "product" -> _hotspot_spatial_proposals(i)
      [] i \in burned.items -> {Proposal(<<i, "burned">>, 1, "projected")}
      [] i \in spatial.items ->
           {Proposal(a, 1, IF a \in spatial.projected THEN "projected" ELSE "insufficient") :
               a \in Annotations(i)}
      [] OTHER -> _spatial_proposals(i)

\* The facts, a bag of the items they are in, make one section: their sources.
Total == B!BagCardinality(session.facts)

FailedStage(execution) == \E n \in DOMAIN execution.traces : execution.traces[n].status = "failed"

\* Variant with a bug: a failed burned area does not show.
V2Status_pointingOnly ==
    IF session.status = "succeeded" /\ FailedStage(pointing) THEN "partial_failure"
    ELSE session.status

V2Status == IF session.status = "succeeded" /\ (FailedStage(pointing) \/ FailedStage(burned))
            THEN "partial_failure" ELSE session.status

Composed ==
    LET before == TracesBefore \o spatial.traces
    IN [status |-> V2Status,
        proposals |-> [i \in Items |-> Proposals(i)],
        traces |-> before \o <<Trace("evidence_fusion", Len(before) + 1, "succeeded"),
                               Trace("situation_report", Len(before) + 2, "succeeded")>>]

\* WorkerOutputV2, and the contracts of its parts.
Consecutive(traces) == /\ Len(traces) <= 10
                       /\ \A n \in DOMAIN traces : traces[n].sequence = n
                       /\ \A m, n \in DOMAIN traces : traces[m].role = traces[n].role => m = n
CoarseProjection(o) == \E i \in Items : /\ batch.items[i].coarse
                                        /\ \E p \in o.proposals[i] : p.status = "projected"
                                                                     /\ p.about[2] # "burned"
Oversized(o) == \/ \E i \in Items : Cardinality(o.proposals[i]) > MaxProposals
                \/ Total > MaxFacts
                \/ session.long
                \/ CoarseProjection(o)
Admits(o) == /\ Consecutive(o.traces)
             /\ ~Oversized(o)
             /\ \A i \in Items : \A p \in o.proposals[i] :
                  p.about \in Annotations(i) \cup {<<i, "none">>}

Compose == /\ v2Pc = "compose"
           /\ IF Admits(Composed) THEN output' = Composed /\ v2Pc' = "answered" ELSE Refuse
           /\ UNCHANGED <<batch, session, pointing, burned, spatial>>

V2Next == \/ RunSession \/ Point \/ Outline \/ Project \/ SkipProjection \/ StageRaises \/ Compose
-----------------------------------------------------------------------------
(* Properties.                                                             *)

Delivered == v2Pc = "answered" /\ output.status # "refused"

\* Finished work is thrown away only for one of the limits of its answer, or
\* because an item without a date was projected: never because the stages, in
\* any combination of skipped, failed and done, do not fit together.
RefusedOnlyForItsSize ==
    v2Pc = "answered" /\ output.status = "refused" =>
        \/ Oversized(Composed)
        \/ \E a \in spatial.projected : ~batch.items[a[1]].dated

\* The status of the answer is that of its stages: a success has no failed
\* stage but a registration across views, a failure is the session's own, and
\* no stage hides a failure of the session.
StatusReflectsStages ==
    Delivered =>
        /\ output.status = "succeeded" =>
             \A n \in DOMAIN output.traces : output.traces[n].status = "failed" =>
                 output.traces[n].role = "cross_view_registration"
        /\ output.status = "failed" <=> session.status = "failed"
        /\ session.status # "succeeded" => output.status = session.status

\* Every annotation has one proposal, an abstention at least, and so has every
\* medium with pixels; but what else a model saw on a burned area is left out.
EveryAnnotationIsAnswered ==
    Delivered => \A i \in Items :
        /\ kind(i) \in Pixels \cup {"product"} => output.proposals[i] # {}
        /\ i \notin burned.items =>
             \A a \in Annotations(i) : Cardinality({p \in output.proposals[i] : p.about = a}) = 1
=============================================================================
