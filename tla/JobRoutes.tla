----------------------------- MODULE JobRoutes -----------------------------
(***************************************************************************)
(* One call of handle_job with work of its own beside the session: an      *)
(* event, or a batch of version 2.  The schema_version chooses the route,  *)
(* and the other route has no part in the call.                            *)
(***************************************************************************)
EXTENDS EventRoute, VersionTwo

Init == \/ EventInit /\ V2Absent
        \/ EventAbsent /\ V2Init

Next == \/ EventNext /\ UNCHANGED v2Vars
        \/ V2Next /\ UNCHANGED eventVars

Spec == Init /\ [][Next]_<<eventVars, v2Vars>>
=============================================================================
