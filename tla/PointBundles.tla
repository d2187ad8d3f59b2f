---------------------------- MODULE PointBundles ----------------------------
(***************************************************************************)
(* GeographicPointBundlePipeline.build (point_bundle_pipeline.py): the     *)
(* hypotheses of the geographic service become ranked candidates of the    *)
(* event and a bundle of evidence each, all of them or none.               *)
(*                                                                         *)
(* A check is what it checks and the references it cites; scores and       *)
(* identifiers are numbers.                                                *)
(***************************************************************************)
EXTENDS Naturals, FiniteSets, Sequences

CONSTANTS
    Hypotheses,     \* their ids
    Satellite,      \* references of the kinds of a satellite
    History,        \* references to prior states of the fire
    Finds           \* what a hypothesis may be

References == Satellite \cup History

\* known: its media are in the event; collides: its id is a candidate's;
\* temporal, progress: it has a score for its time, and for the fire's history.
Find == [score : Nat, supporting : SUBSET References, known : BOOLEAN, collides : BOOLEAN,
         temporal : BOOLEAN, progress : BOOLEAN]
ASSUME FindsAssumption == Hypotheses \subseteq Nat /\ Finds \subseteq Find

VARIABLES
    bundlePc,
    located,        \* the durable evidence and the result of locate
    bundles         \* the point evidence bundles

bundleVars == <<bundlePc, located, bundles>>

Located == [found : {some \in SUBSET Hypotheses : IsFiniteSet(some)},
            of : [Hypotheses -> Finds], durable : SUBSET References]

BundleInit == bundlePc = "locate" /\ located \in Located /\ bundles = <<>>
BundleAbsent == bundlePc = "absent" /\ located = <<>> /\ bundles = <<>>
-----------------------------------------------------------------------------
score(h) == located.of[h].score
supporting(h) == located.of[h].supporting

\* Variant with a bug: the lowest score comes first.
Before_ascending(g, h) == IF score(g) = score(h) THEN g < h ELSE score(g) < score(h)

\* (-score, hypothesis_id)
Before(g, h) == IF score(g) = score(h) THEN g < h ELSE score(g) > score(h)

Ordered == CHOOSE s \in [1 .. Cardinality(located.found) -> located.found] :
              \A m, n \in DOMAIN s : m < n => Before(s[m], s[n])

_checks_for(h) ==
    LET Checks(kinds, cited) == {[kind |-> k, cites |-> cited] : k \in kinds}
    IN Checks({"camera_distance", "camera_bearing", "terrain_visibility"}, {})
         \cup Checks({"satellite_overlap"}, supporting(h) \cap Satellite)
         \cup Checks({k \in {"temporal_alignment"} : located.of[h].temporal},
                     supporting(h) \cap Satellite)
         \cup Checks({k \in {"history_progression"} : located.of[h].progress},
                     supporting(h) \cap History)

Bundle(h, rank) == [hypothesis |-> h, rank |-> rank, references |-> supporting(h),
                    checks |-> _checks_for(h)]

\* Known media, every supporting reference, and one of a satellite.
Buildable(h) == /\ ~located.of[h].collides
                /\ located.of[h].known
                /\ supporting(h) \subseteq located.durable
                /\ supporting(h) \cap Satellite # {}

\* One hypothesis that has no bundle leaves the others without theirs.  The
\* service, the event with its new candidates and the assembler may raise too.
Raise == /\ bundlePc = "locate"
         /\ bundlePc' = "raised"
         /\ UNCHANGED <<located, bundles>>

Build == /\ bundlePc = "locate"
         /\ \A h \in located.found : Buildable(h)
         /\ bundles' = [rank \in 1 .. Len(Ordered) |-> Bundle(Ordered[rank], rank)]
         /\ bundlePc' = "built"
         /\ UNCHANGED located

BundleNext == Build \/ Raise
-----------------------------------------------------------------------------
(* Properties.                                                             *)

\* A batch of bundles has each hypothesis once, ranked by how many are better
\* (the order in which they were found has no part in it); what a bundle cites
\* is its own and the backend's, and a satellite stands behind each.
BundlesAreRanked ==
    bundlePc = "built" =>
        /\ {bundles[n].hypothesis : n \in DOMAIN bundles} = located.found
        /\ Len(bundles) = Cardinality(located.found)
        /\ \A n \in DOMAIN bundles :
             LET h == bundles[n].hypothesis
                 better == {g \in located.found : score(g) > score(h)}
                 alike == {g \in located.found : score(g) = score(h) /\ g < h}
             IN /\ bundles[n].rank = 1 + Cardinality(better) + Cardinality(alike)
                /\ bundles[n].references \subseteq located.durable
                /\ bundles[n].references \cap Satellite # {}
                /\ \A check \in bundles[n].checks : check.cites \subseteq bundles[n].references
=============================================================================
