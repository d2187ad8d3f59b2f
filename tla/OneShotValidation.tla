-------------------------- MODULE OneShotValidation --------------------------
(***************************************************************************)
(* What the validation server promises, with no threads and no locks: one  *)
(* set of assets is validated once, one upload is accepted, and everybody  *)
(* who asks is told the phase the validation is in, which only advances.   *)
(* PodValidation implements this specification.                            *)
(***************************************************************************)
CONSTANTS Clients, Bundles, NoBundle

VARIABLES
    phase,      \* where the validation is
    subject,    \* the assets that are validated
    accepted,   \* was an upload accepted?
    told        \* what each client has been told last

vars == <<phase, subject, accepted, told>>

Init == /\ phase \in {"awaiting_assets", "pending"}
        /\ subject = NoBundle
        /\ accepted = FALSE
        /\ told = [c \in Clients |-> "none"]

Close == /\ phase = "awaiting_assets"
         /\ phase' = "pending"
         /\ UNCHANGED <<subject, accepted, told>>

Choose(b) == /\ phase = "pending"
             /\ subject = NoBundle
             /\ subject' = b
             /\ UNCHANGED <<phase, accepted, told>>

Begin == /\ phase = "pending"
         /\ phase' = "running"
         /\ UNCHANGED <<subject, accepted, told>>

End == /\ phase = "running"
       /\ phase' \in {"completed", "failed"}
       /\ UNCHANGED <<subject, accepted, told>>

Ask(c) == /\ told' = [told EXCEPT ![c] = "none"]
          /\ UNCHANGED <<phase, subject, accepted>>

Accept(c) == /\ phase # "awaiting_assets"
             /\ subject # NoBundle
             /\ ~accepted
             /\ accepted' = TRUE
             /\ told' = [told EXCEPT ![c] = "accepted"]
             /\ UNCHANGED <<phase, subject>>

Read(c) == /\ told' = [told EXCEPT ![c] = phase]
           /\ UNCHANGED <<phase, subject, accepted>>

Next == \/ Close \/ Begin \/ End
        \/ \E b \in Bundles : Choose(b)
        \/ \E c \in Clients : Ask(c) \/ Accept(c) \/ Read(c)

Spec == Init /\ [][Next]_vars
=============================================================================
