----------------------------- MODULE SharedCache -----------------------------
(***************************************************************************)
(* What a shared volume of models promises, with no lock, no manifest and  *)
(* no marker: models are added whole and sealed once and for all; a pod    *)
(* serves a stack that is whole, and only after some stack was sealed.     *)
(* Bootstrap implements this specification.                                *)
(***************************************************************************)
CONSTANTS Pods, Models, Stacks, Needs, NoStack

VARIABLES
    have,       \* the models that are complete
    sealed,     \* those of them that are out of the broker's reach
    serving     \* the stack each pod serves

vars == <<have, sealed, serving>>

Init == /\ have = {}
        /\ sealed = {}
        /\ serving = [p \in Pods |-> NoStack]

Add(m) == /\ m \in Models \ have
          /\ have' = have \cup {m}
          /\ UNCHANGED <<sealed, serving>>

Seal(m) == /\ m \in have
           /\ sealed' = sealed \cup {m}
           /\ UNCHANGED <<have, serving>>

Serve(p, s) == /\ Needs[s] \subseteq have
               /\ \E t \in Stacks : Needs[t] \subseteq sealed
               /\ serving' = [serving EXCEPT ![p] = s]
               /\ UNCHANGED <<have, sealed>>

Leave(p) == /\ serving' = [serving EXCEPT ![p] = NoStack]
            /\ UNCHANGED <<have, sealed>>

Next == \/ \E m \in Models : Add(m) \/ Seal(m)
        \/ \E p \in Pods : Leave(p) \/ \E s \in Stacks : Serve(p, s)

Spec == Init /\ [][Next]_vars
=============================================================================
