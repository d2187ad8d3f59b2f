--------------------------- MODULE EvidenceMerge ---------------------------
(***************************************************************************)
(* merge_event_evidence (evidence_merge.py): what several providers have   *)
(* added to one event becomes one evidence again.                          *)
(*                                                                         *)
(* Of the nine collections of an event two stand for all: media, whose     *)
(* keyframes name a video, and observations, which name a medium.  A       *)
(* collection is a function from identifiers to records: it is sorted by   *)
(* identifier and has none twice.                                          *)
(***************************************************************************)
EXTENDS Naturals, Sequences, FiniteSets, Functions

CONSTANTS
    Provided,       \* EventEvidence records, all of them valid
    MaxRecords      \* bound: the records of a merge

\* A medium is "photo", "video", or the identifier of its parent video; the
\* outline is its event, its time window and its area.
Valid(e) == /\ \A m \in DOMAIN e.media :
                 \/ e.media[m] \in {"photo", "video"}
                 \/ e.media[m] \in DOMAIN e.media /\ e.media[e.media[m]] = "video"
            /\ \A o \in DOMAIN e.observations : e.observations[o] \in DOMAIN e.media
ASSUME ProvidedAssumption == MaxRecords \in Nat /\ \A e \in Provided : Valid(e)

VARIABLES
    mergePc,
    records,        \* the arguments
    merged          \* the result

mergeVars == <<mergePc, records, merged>>

MergeInit == /\ mergePc = "merge"
             /\ records \in UNION {[1 .. n -> Provided] : n \in 0 .. MaxRecords}
             /\ merged = <<>>
MergeAbsent == mergePc = "absent" /\ records = <<>> /\ merged = <<>>
-----------------------------------------------------------------------------
\* The records of one collection, in each of its arguments.
Collection(rs, name) == [n \in DOMAIN rs |-> rs[n][name]]

\* Variant with a bug: the last record of an identifier wins, silently.
Agree_lastWins(fs) == TRUE

Agree(fs) == \A m, n \in DOMAIN fs : \A id \in DOMAIN fs[m] \cap DOMAIN fs[n] :
                 fs[m][id] = fs[n][id]

\* What an identifier means, in the last argument that has it.
_merge_records(fs) ==
    [id \in UNION {DOMAIN fs[n] : n \in DOMAIN fs} |->
        fs[CHOOSE n \in DOMAIN fs : /\ id \in DOMAIN fs[n]
                                    /\ \A m \in DOMAIN fs : id \in DOMAIN fs[m] => m <= n][id]]

Mergeable(rs) == /\ rs # <<>>
                 /\ \A n \in DOMAIN rs : rs[n].outline = rs[1].outline
                 /\ Agree(Collection(rs, "media"))
                 /\ Agree(Collection(rs, "observations"))

Merged(rs) == [outline |-> rs[1].outline,
               media |-> _merge_records(Collection(rs, "media")),
               observations |-> _merge_records(Collection(rs, "observations")),
               review |-> \E n \in DOMAIN rs : rs[n].review]

\* A conflict is a ValueError.
Conflict == /\ mergePc = "merge"
            /\ ~Mergeable(records)
            /\ mergePc' = "raised"
            /\ UNCHANGED <<records, merged>>

Merge == /\ mergePc = "merge"
         /\ Mergeable(records)
         /\ merged' = Merged(records)
         /\ mergePc' = "merged"
         /\ UNCHANGED records

MergeNext == Merge \/ Conflict
-----------------------------------------------------------------------------
(* Properties.                                                             *)

\* The result does not depend on the order of its arguments, nor on whether
\* some were merged before, and it is valid although it is not checked again:
\* model_validate takes an instance as it is.
MergeIsOrderFree ==
    mergePc = "merged" =>
        /\ Valid(merged)
        /\ \A order \in {p \in [DOMAIN records -> DOMAIN records] : IsInjective(p)} :
             LET permuted == [n \in DOMAIN records |-> records[order[n]]]
             IN Mergeable(permuted) /\ Merged(permuted) = merged
        /\ \A n \in DOMAIN records \ {Len(records)} :
             LET first == SubSeq(records, 1, n)
             IN /\ Mergeable(first)
                /\ Merged(<<Merged(first)>> \o SubSeq(records, n + 1, Len(records))) = merged
=============================================================================
