-------------------------- MODULE EvidenceServices --------------------------
(***************************************************************************)
(* The services beside the worker, and the two functions on evidence that  *)
(* they and their clients use.  They share no state: a behaviour is one of *)
(* a service, of a batch of bundles (the service answers it through its    *)
(* bundles route, whose result is a choice there), or of a merge.          *)
(***************************************************************************)
EXTENDS YoloService, GeoService, PointBundles, EvidenceMerge

vars == <<yoloVars, geoVars, bundleVars, mergeVars>>

Init == \/ YoloInit /\ GeoAbsent /\ BundleAbsent /\ MergeAbsent
        \/ YoloAbsent /\ GeoInit /\ BundleAbsent /\ MergeAbsent
        \/ YoloAbsent /\ GeoAbsent /\ BundleInit /\ MergeAbsent
        \/ YoloAbsent /\ GeoAbsent /\ BundleAbsent /\ MergeInit

Next == \/ YoloNext /\ UNCHANGED <<geoVars, bundleVars, mergeVars>>
        \/ GeoNext /\ UNCHANGED <<yoloVars, bundleVars, mergeVars>>
        \/ BundleNext /\ UNCHANGED <<yoloVars, geoVars, mergeVars>>
        \/ MergeNext /\ UNCHANGED <<yoloVars, geoVars, bundleVars>>

FairSpec == Init /\ [][Next]_vars /\ YoloFairness /\ GeoFairness
-----------------------------------------------------------------------------
(* Properties.                                                             *)

\* Every call of either service is answered once its body is there: a run
\* that raises blocks no later one, and a ping only waits for those before it.
EveryCallIsAnswered == EveryDetectionIsAnswered /\ EveryConnectionIsAnswered
=============================================================================
