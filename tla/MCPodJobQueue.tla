--------------------------- MODULE MCPodJobQueue ---------------------------
(* PodJobQueue on small sets of jobs and HTTP threads.                     *)
EXTENDS PodJobQueue, TLC

Symmetry == Permutations(Jobs) \cup Permutations(Clients)
=============================================================================
