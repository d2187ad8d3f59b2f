----------------------------- MODULE GeoService -----------------------------
(***************************************************************************)
(* The SageMaker service of the two geographic models                      *)
(* (mvp/gpu/sagemaker_service.py): one thread serves one connection after  *)
(* the other, /ping among them, and loads a model for each invocation.     *)
(*                                                                         *)
(* What the models compute is left out.  The manifest is checked once,     *)
(* before the server listens; a later ping answers from what it found.     *)
(***************************************************************************)
EXTENDS Naturals

CONSTANTS
    Clients,        \* one connection each
    Idle            \* the server has no connection

ASSUME ClientsAssumption == Idle \notin Clients

VARIABLES
    geoServer,      \* "checking", "serving" or "down"
    serving,        \* the connection being served
    connections,    \* each client's request and its answer
    held,           \* the connections whose Prithvi model is on the GPU
    unreleased      \* those whose unload raised

geoVars == <<geoServer, serving, connections, held, unreleased>>

Kinds == {"ping", "encode", "outline"}

NoConnections ==
    /\ serving = Idle
    /\ connections = [c \in Clients |-> [pc |-> "out", kind |-> "ping", answer |-> "none"]]
    /\ held = {} /\ unreleased = {}
GeoInit == geoServer = "checking" /\ NoConnections
GeoAbsent == geoServer = "down" /\ NoConnections

Stays(c, pc) == /\ connections' = [connections EXCEPT ![c].pc = pc]
                /\ UNCHANGED serving
Ends(c, answer) == /\ connections' = [connections EXCEPT ![c].pc = "answered", ![c].answer = answer]
                   /\ serving' = Idle
-----------------------------------------------------------------------------
(* main: a model artifact that does not match its manifest ends the process. *)
Check == /\ geoServer = "checking"
         /\ geoServer' \in {"serving", "down"}
         /\ UNCHANGED <<serving, connections, held, unreleased>>

Connect(c) == /\ geoServer = "serving"
              /\ connections[c].pc = "out"
              /\ \E kind \in Kinds :
                   connections' = [connections EXCEPT ![c].pc = "waiting", ![c].kind = kind]
              /\ UNCHANGED <<geoServer, serving, held, unreleased>>

\* A ping is answered from the manifest; a path or a length may be refused.
Accept(c) == /\ serving = Idle
             /\ connections[c].pc = "waiting"
             /\ \/ connections[c].kind = "ping" /\ Ends(c, "ready")
                \/ Ends(c, "refused")
                \/ /\ connections[c].kind # "ping"
                   /\ serving' = c
                   /\ connections' = [connections EXCEPT ![c].pc = "body"]
             /\ UNCHANGED <<geoServer, held, unreleased>>

\* The request is read without a timeout, then it and its payloads are checked.
BodyIsRead(c) == /\ serving = c
                 /\ connections[c].pc = "body"
                 /\ Ends(c, "invalid") \/ Stays(c, connections[c].kind)
                 /\ UNCHANGED <<geoServer, held, unreleased>>

\* A ValueError of the model is answered like one of the request.
Errors == {"invalid", "failed"}

\* The MegaLoc encoder is a temporary of its call: it has no unload, and the
\* interpreter drops it with the call.  It is not among what held records.
Encode(c) == /\ serving = c
             /\ connections[c].pc = "encode"
             /\ \E answer \in Errors \cup {"completed"} : Ends(c, answer)
             /\ UNCHANGED <<geoServer, held, unreleased>>

\* An adapter that cannot be made has nothing to release.
Make(c) == /\ serving = c
           /\ connections[c].pc = "outline"
           /\ Stays(c, "load") \/ \E answer \in Errors : Ends(c, answer)
           /\ UNCHANGED <<geoServer, held, unreleased>>

Leaves(c, answer) == /\ connections' = [connections EXCEPT ![c].pc = "unload", ![c].answer = answer]
                     /\ UNCHANGED serving

\* A load that raises may have left a part of the model.
Load(c) == /\ serving = c
           /\ connections[c].pc = "load"
           /\ \/ held' = held \cup {c} /\ Stays(c, "infer")
              \/ held' \in {held, held \cup {c}} /\ \E answer \in Errors : Leaves(c, answer)
           /\ UNCHANGED <<geoServer, unreleased>>

\* Variant with a bug: only an inference that succeeds is followed by unload.
Infer_noFinally(c) == /\ serving = c
                      /\ connections[c].pc = "infer"
                      /\ \/ \E answer \in {"completed", "abstained"} : Leaves(c, answer)
                         \/ \E answer \in Errors : Ends(c, answer)
                      /\ UNCHANGED <<geoServer, held, unreleased>>

Infer(c) == /\ serving = c
            /\ connections[c].pc = "infer"
            /\ \E answer \in Errors \cup {"completed", "abstained"} : Leaves(c, answer)
            /\ UNCHANGED <<geoServer, held, unreleased>>

\* An unload that raises hides the answer.
Unload(c) == /\ serving = c
             /\ connections[c].pc = "unload"
             /\ \/ /\ held' = held \ {c}
                   /\ Ends(c, connections[c].answer)
                   /\ UNCHANGED unreleased
                \/ /\ unreleased' = unreleased \cup {c}
                   /\ \E answer \in Errors : Ends(c, answer)
                   /\ UNCHANGED held
             /\ UNCHANGED geoServer

Handle(c) == Accept(c) \/ BodyIsRead(c) \/ Encode(c) \/ Make(c) \/ Load(c) \/ Infer(c) \/ Unload(c)

GeoNext == Check \/ \E c \in Clients : Connect(c) \/ Handle(c)

\* The server goes on with each connection, whose client sends what it announced.
GeoFairness == \A c \in Clients : WF_geoVars(Handle(c))
-----------------------------------------------------------------------------
(* Properties.                                                             *)

\* "Sequential", of the Prithvi adapter: whatever raises while it is made,
\* loaded or used, no later invocation, of either kind, meets it on the GPU,
\* unless its own release has raised.  Nothing is said of the MegaLoc encoder,
\* which the code never unloads.
ModelsAreReleased == held \subseteq unreleased \cup {serving}

\* Every connection is answered, a ping behind a long invocation too.
EveryConnectionIsAnswered ==
    \A c \in Clients : connections[c].pc = "waiting" ~> connections[c].pc = "answered"
=============================================================================
