------------------------- MODULE MCEvidenceServices -------------------------
(* EvidenceServices with a few hypotheses and a few valid records.         *)
EXTENDS EvidenceServices

CONSTANTS s1, p1, v, k, f, o1, o2

Proper(n, refs, more) == [score |-> n, supporting |-> refs, known |-> TRUE, collides |-> FALSE,
                          temporal |-> more, progress |-> more]
FewFinds == {Proper(n, {s1} \cup h, h # {}) : n \in 1 .. 2, h \in {{}, {p1}}}
              \cup {Proper(1, {p1}, FALSE),
                    [Proper(2, {s1}, TRUE) EXCEPT !.known = FALSE],
                    [Proper(2, {s1}, TRUE) EXCEPT !.collides = TRUE]}

\* A video with keyframes, photos under the same identifiers, and observations.
Media == {[m \in {v} |-> "video"], [m \in {v} |-> "photo"], [m \in {f} |-> "photo"],
          [m \in {v, k} |-> IF m = v THEN "video" ELSE v],
          [m \in {v, k} |-> "photo"], [m \in {v, f} |-> IF m = v THEN "video" ELSE "photo"]}
Seen(media) == {<<>>} \cup UNION {[ids -> DOMAIN media] : ids \in {{o1}, {o1, o2}}}
FewRecords ==
    UNION {{[outline |-> "same", media |-> m, observations |-> s, review |-> DOMAIN s = {o1}] :
               s \in Seen(m)} : m \in Media}
      \cup {[outline |-> "other", media |-> <<>>, observations |-> <<>>, review |-> TRUE]}
=============================================================================
