--------------------------- MODULE MCGpuSession ---------------------------
(* GpuSession on small sets of callers.                                    *)
EXTENDS GpuSession, TLC

Symmetry == Permutations(Callers)

\* Every environment; whether adapters can be made matters only where settings
\* and registry are as they should be.
Environs == {e \in Environment : ~e.runtime => e.settings = "ok" /\ e.registry}

\* A well configured process with all routes, and one without its settings.
Typical == {[settings |-> "ok", registry |-> TRUE, runtime |-> TRUE, events |-> TRUE, probes |-> TRUE],
            [settings |-> "missing", registry |-> FALSE, runtime |-> TRUE, events |-> TRUE, probes |-> FALSE]}
=============================================================================
