---------------------------- MODULE MCPodValidation ----------------------------
(* PodValidation on small sets of clients and bundles.  Its run has        *)
(* liveness properties, so that no symmetry is used.                       *)
EXTENDS PodValidation, TLC
=============================================================================
