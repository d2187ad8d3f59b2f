---------------------------- MODULE MCJobRoutes ----------------------------
(* JobRoutes with a few anchors and small limits.                          *)
EXTENDS JobRoutes

Sent(method, referenced, geometry) ==
    [method |-> method, referenced |-> referenced, geometry |-> geometry]

\* Evidence of every method, with and without a reference, fitting or not.
SentAnchors ==
    {[phenomenon |-> p, pointed |-> d, evidence |-> NoEvidence] : p \in {"active", "front"}, d \in BOOLEAN}
      \cup {[phenomenon |-> p, pointed |-> TRUE, evidence |-> e] :
               p \in {"active", "front"},
               e \in {Sent("insufficient", FALSE, "Point"), Sent("raycast", FALSE, "Point"),
                      Sent("raycast", TRUE, "Point"), Sent("raycast", TRUE, "Line"),
                      Sent("cross_view", TRUE, "Point"), Sent("other", FALSE, "Area")}}
=============================================================================
