------------------------------ MODULE GpuLease ------------------------------
(***************************************************************************)
(* What handle_job promises about the GPU, with no lock, routes or         *)
(* exceptions: one request has it at a time, a request ends only after it  *)
(* has left it, and "busy" is said only while another request has it.      *)
(* GpuSession implements this specification.                               *)
(***************************************************************************)
CONSTANTS Callers, Nobody

VARIABLES
    user,       \* the caller whose request has the GPU, or Nobody
    told        \* what each caller has been told about its request

vars == <<user, told>>

Final == {"completed", "failed", "raised"}

Init == /\ user = Nobody
        /\ told = [c \in Callers |-> "nothing"]

Open(c) == /\ user # c
           /\ told' = [told EXCEPT ![c] = "pending"]
           /\ UNCHANGED user

Enter(c) == /\ user = Nobody
            /\ told[c] = "pending"
            /\ user' = c
            /\ UNCHANGED told

\* The request has an end, or it goes on without the GPU.
Leave(c) == /\ user = c
            /\ user' = Nobody
            /\ told' \in {[told EXCEPT ![c] = t] : t \in Final \cup {"pending"}}

Refuse(c) == /\ user \notin {c, Nobody}
             /\ told[c] = "pending"
             /\ told' = [told EXCEPT ![c] = "busy"]
             /\ UNCHANGED user

\* The request ends without the GPU.
End(c) == /\ user # c
          /\ told[c] = "pending"
          /\ told' \in {[told EXCEPT ![c] = t] : t \in Final}
          /\ UNCHANGED user

Next == \E c \in Callers : Open(c) \/ Enter(c) \/ Leave(c) \/ Refuse(c) \/ End(c)

Spec == Init /\ [][Next]_vars
=============================================================================
