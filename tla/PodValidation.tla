---------------------------- MODULE PodValidation ----------------------------
(***************************************************************************)
(* pod_validation.py: a server that validates one payload once.  Its       *)
(* assets come with the process or with one upload; a worker thread runs   *)
(* the validation, and every HTTP request has a thread of its own.         *)
(*                                                                         *)
(* An upload is checked against the status long before it is used: its     *)
(* body is read and decoded in between, at the client's pace.              *)
(***************************************************************************)
EXTENDS Naturals, FiniteSets

CONSTANTS
    Clients,            \* the clients, one request at a time each
    Bundles,            \* asset bundles with exactly the names of the payload
    NoBundle,           \* no assets; as an upload, a body that is refused
    Free,               \* nobody holds the worker lock
    REQUIRED_IMAGE_ROLES

ASSUME ConstantsAssumption == NoBundle \notin Bundles /\ Free \notin Clients

VARIABLES
    required,   \* main: does the payload name assets?
    bundled,    \* main: the assets that came with the process
    serving,    \* main: has serve_forever been called?
    state,      \* the ValidationState
    started,    \* validation_worker_started
    lock,       \* validation_worker_lock
    worker,     \* where the worker thread is
    assets,     \* the assets it was started with
    output,     \* what handle_job returned to it
    pc,         \* where the thread of a client's request is
    upload,     \* the body of its request
    snapshot,   \* its copy of the state
    reply,      \* the answer
    accepts,    \* history: the number of uploads accepted
    told,       \* history: the furthest status anybody was told
    floor       \* history: told, when the request was made

mainVars == <<required, bundled, serving>>
workerVars == <<worker, assets, output>>
serverVars == <<state, started, lock>>
clientVars == <<pc, upload, snapshot, reply>>
history == <<accepts, told, floor>>
vars == <<mainVars, workerVars, serverVars, clientVars, history>>

Assets == Bundles \cup {NoBundle}
RunStatus == {"succeeded", "other"}
Final == {"completed", "failed"}
Status == {"awaiting_assets", "pending", "running"} \cup Final

Report == [made : BOOLEAN, subject : Assets, passed : BOOLEAN]
NoReport == [made |-> FALSE, subject |-> NoBundle, passed |-> FALSE]
State == [status : Status, report : Report, error : BOOLEAN]

\* The last run of each required role (failed, skipped and absent are alike),
\* and whether there is an item for each item of the payload.
Output == [last : [REQUIRED_IMAGE_ROLES -> RunStatus], items : BOOLEAN]
NoOutput == [last |-> [r \in REQUIRED_IMAGE_ROLES |-> "other"], items |-> FALSE]

Reply == [code : {0, 200, 202, 400, 401, 409, 500},
          status : Status \cup {"accepted", "none"}, report : Report]
Refusal(code) == [code |-> code, status |-> "none", report |-> NoReport]
NoReply == Refusal(0)

\* How far a status, or an accepted upload, is.
Rank(s) == CASE s \in {"pending", "accepted"} -> 1
             [] s = "running" -> 2
             [] s \in Final -> 3
             [] OTHER -> 0
Further(m, n) == IF m < n THEN n ELSE m
-----------------------------------------------------------------------------
(* ValidationState.update replaces all three fields.                       *)
Becomes(status) == [status |-> status, report |-> NoReport, error |-> FALSE]

NoState == Becomes("awaiting_assets")

StartsAtOnce == bundled # NoBundle \/ ~required

Init == /\ required \in BOOLEAN
        /\ bundled \in IF required THEN Assets ELSE {NoBundle}
        /\ serving = FALSE
        /\ state = Becomes(IF StartsAtOnce THEN "pending" ELSE "awaiting_assets")
        /\ started = FALSE
        /\ lock = Free
        /\ worker = "none"
        /\ assets = NoBundle
        /\ output = NoOutput
        /\ pc = [c \in Clients |-> "idle"]
        /\ upload = [c \in Clients |-> NoBundle]
        /\ snapshot = [c \in Clients |-> NoState]
        /\ reply = [c \in Clients |-> NoReply]
        /\ accepts = 0
        /\ told = 0
        /\ floor = [c \in Clients |-> 0]

\* main starts the validation itself if the assets are there or not needed.
BootStart == /\ ~serving
             /\ StartsAtOnce
             /\ ~started
             /\ started' = TRUE
             /\ state' = Becomes("pending")
             /\ worker' = "spawned"
             /\ assets' = bundled
             /\ UNCHANGED <<mainVars, lock, output, clientVars, history>>

Serve == /\ ~serving
         /\ StartsAtOnce => started
         /\ serving' = TRUE
         /\ UNCHANGED <<required, bundled, workerVars, serverVars, clientVars, history>>
-----------------------------------------------------------------------------
(* The worker thread.                                                      *)

WorkerRuns == /\ worker = "spawned"
              /\ worker' = "running"
              /\ state' = Becomes("running")
              /\ UNCHANGED <<mainVars, assets, output, started, lock, clientVars, history>>

\* handle_job returns: its answer may be a failure with no runs and no items.
WorkerAnswered == /\ worker = "running"
                  /\ worker' = "answered"
                  /\ output' \in Output
                  /\ UNCHANGED <<mainVars, assets, serverVars, clientVars, history>>

\* Variant with a bug: an exception ends the thread and is not caught.
WorkerFails_leavesStatus ==
    /\ worker \in {"running", "answered"}
    /\ worker' = "ended"
    /\ UNCHANGED state
    /\ UNCHANGED <<mainVars, assets, output, started, lock, clientVars, history>>

\* Settings, probe, handle_job or the report raise.
WorkerFails == /\ worker \in {"running", "answered"}
               /\ worker' = "ended"
               /\ state' = [status |-> "failed", error |-> TRUE, report |-> NoReport]
               /\ UNCHANGED <<mainVars, assets, output, started, lock, clientVars, history>>

\* Variant with a bug: lost items are not noticed.
Passed_anyItems(o) == \A r \in REQUIRED_IMAGE_ROLES : o.last[r] = "succeeded"

\* build_validation_report
Passed(o) == /\ {r \in REQUIRED_IMAGE_ROLES : o.last[r] # "succeeded"} = {}
             /\ o.items

WorkerCompletes ==
    /\ worker = "answered"
    /\ worker' = "ended"
    /\ state' = [status |-> "completed", error |-> FALSE,
                 report |-> [made |-> TRUE, subject |-> assets, passed |-> Passed(output)]]
    /\ UNCHANGED <<mainVars, assets, output, started, lock, clientVars, history>>
-----------------------------------------------------------------------------
(* Requests.                                                               *)

Goto(c, step) == pc' = [pc EXCEPT ![c] = step]
Tells(c, r) == Goto(c, "idle") /\ reply' = [reply EXCEPT ![c] = r]
GoesOn(c, step) == Goto(c, step) /\ UNCHANGED reply

Asks(c, step) == /\ serving
                 /\ pc[c] = "idle"
                 /\ Goto(c, step)
                 /\ reply' = [reply EXCEPT ![c] = NoReply]
                 /\ floor' = [floor EXCEPT ![c] = told]
                 /\ UNCHANGED <<mainVars, workerVars, serverVars, snapshot, accepts, told>>

\* A request without the token, or (404) for another path.
Refuse(c) == /\ serving
             /\ pc[c] = "idle"
             /\ Tells(c, Refusal(401))
             /\ UNCHANGED <<mainVars, workerVars, serverVars, upload, snapshot, history>>

Get(c) == Asks(c, "read") /\ upload' = [upload EXCEPT ![c] = NoBundle]

Handling(c, step) == pc[c] = step /\ UNCHANGED <<mainVars, upload, floor>>

\* Variant with a bug: the lock of the state is held during the validation.
ReadState_waits(c) ==
    /\ Handling(c, "read")
    /\ state.status # "running"
    /\ snapshot' = [snapshot EXCEPT ![c] = state]
    /\ GoesOn(c, "answer")
    /\ UNCHANGED <<workerVars, serverVars, accepts, told>>

ReadState(c) == /\ Handling(c, "read")
                /\ snapshot' = [snapshot EXCEPT ![c] = state]
                /\ GoesOn(c, "answer")
                /\ UNCHANGED <<workerVars, serverVars, accepts, told>>

Health(s) == [code |-> 200, status |-> s.status, report |-> NoReport]
Result(s) == [code |-> CASE s.status = "completed" -> 200
                         [] s.status = "failed" -> 500
                         [] OTHER -> 202,
              status |-> s.status, report |-> s.report]

Answer(c) == /\ Handling(c, "answer")
             /\ \E page \in {Health(snapshot[c]), Result(snapshot[c])} : Tells(c, page)
             /\ told' = Further(told, Rank(snapshot[c].status))
             /\ snapshot' = [snapshot EXCEPT ![c] = NoState]
             /\ UNCHANGED <<workerVars, serverVars, accepts>>

Post(c) == Asks(c, "check") /\ upload' \in {[upload EXCEPT ![c] = b] : b \in Assets}

PostCheck(c) == /\ Handling(c, "check")
                /\ IF state.status # "awaiting_assets" THEN Tells(c, Refusal(409))
                                                       ELSE GoesOn(c, "body")
                /\ UNCHANGED <<workerVars, serverVars, snapshot, accepts, told>>

\* The body arrives, whole or not, and is decoded.
PostBody(c) == /\ Handling(c, "body")
               /\ IF upload[c] = NoBundle THEN Tells(c, Refusal(400)) ELSE GoesOn(c, "start")
               /\ UNCHANGED <<workerVars, serverVars, snapshot, accepts, told>>

\* Variant with a bug: only a validation that is over refuses an upload.
PostEnter_noFlag(c) ==
    /\ Handling(c, "start")
    /\ lock = Free
    /\ \/ /\ started /\ worker = "ended"
          /\ Tells(c, Refusal(409))
          /\ UNCHANGED <<started, lock>>
       \/ /\ worker # "ended"
          /\ started' = TRUE
          /\ lock' = c
          /\ GoesOn(c, "announce")
    /\ UNCHANGED <<workerVars, state, snapshot, accepts, told>>

\* start_validation: the lock and the flag, the status, the thread.
PostEnter(c) == /\ Handling(c, "start")
                /\ lock = Free
                /\ \/ /\ started
                      /\ Tells(c, Refusal(409))
                      /\ UNCHANGED <<started, lock>>
                   \/ /\ ~started
                      /\ started' = TRUE
                      /\ lock' = c
                      /\ GoesOn(c, "announce")
                /\ UNCHANGED <<workerVars, state, snapshot, accepts, told>>

\* Variant with a bug: the status is left to the worker.
PostAnnounce_keeps(c) ==
    /\ Handling(c, "announce")
    /\ state' = state
    /\ GoesOn(c, "spawn")
    /\ UNCHANGED <<workerVars, started, lock, snapshot, accepts, told>>

PostAnnounce(c) == /\ Handling(c, "announce")
                   /\ state' = Becomes("pending")
                   /\ GoesOn(c, "spawn")
                   /\ UNCHANGED <<workerVars, started, lock, snapshot, accepts, told>>

PostSpawn(c) == /\ Handling(c, "spawn")
                /\ worker' = "spawned"
                /\ assets' = upload[c]
                /\ lock' = Free
                /\ GoesOn(c, "accept")
                /\ UNCHANGED <<output, state, started, snapshot, accepts, told>>

\* The system has no thread left: the request ends without an answer.
PostSpawnFails(c) == /\ Handling(c, "spawn")
                     /\ lock' = Free
                     /\ GoesOn(c, "idle")
                     /\ UNCHANGED <<workerVars, state, started, snapshot, accepts, told>>

PostAccept(c) == /\ Handling(c, "accept")
                 /\ Tells(c, [code |-> 202, status |-> "accepted", report |-> NoReport])
                 /\ accepts' = accepts + 1
                 /\ told' = Further(told, Rank("accepted"))
                 /\ UNCHANGED <<workerVars, serverVars, snapshot>>
-----------------------------------------------------------------------------
Main == BootStart \/ Serve
WorkerStep == WorkerRuns \/ WorkerCompletes
Work == WorkerAnswered \/ WorkerFails
Request(c) == Refuse(c) \/ Get(c) \/ Post(c)

\* What the thread of a request does, but for waiting for its body.
Handle(c) == \/ ReadState(c) \/ Answer(c)
             \/ PostCheck(c) \/ PostEnter(c) \/ PostAnnounce(c)
             \/ PostSpawn(c) \/ PostSpawnFails(c) \/ PostAccept(c)

Next == \/ Main \/ WorkerStep \/ Work
        \/ \E c \in Clients : Request(c) \/ Handle(c) \/ PostBody(c)

Spec == Init /\ [][Next]_vars

\* Threads are scheduled.  Nobody has to ask, a client may never send the body
\* it announced, and handle_job may never return.
FairSpec == /\ Spec
            /\ WF_vars(Main) /\ WF_vars(WorkerStep)
            /\ \A c \in Clients : WF_vars(Handle(c))

\* handle_job comes back, one way or the other.
HandleJobComesBack == WF_vars(Work)
-----------------------------------------------------------------------------
(* Properties.                                                             *)

Posting == {"check", "body", "start", "announce", "spawn", "accept"}

TypeOK ==
    /\ required \in BOOLEAN /\ bundled \in Assets /\ serving \in BOOLEAN
    /\ state \in State
    /\ started \in BOOLEAN
    /\ lock \in Clients \cup {Free}
    /\ worker \in {"none", "spawned", "running", "answered", "ended"}
    /\ assets \in Assets
    /\ output \in Output
    /\ pc \in [Clients -> {"idle", "read", "answer"} \cup Posting]
    /\ upload \in [Clients -> Assets]
    /\ snapshot \in [Clients -> State]
    /\ reply \in [Clients -> Reply]
    /\ accepts \in Nat
    /\ told \in 0..3
    /\ floor \in [Clients -> 0..3]

\* "Asset upload is exact and one-shot": however many uploads are under way, one
\* is accepted, and what is validated is the bundle of the client that was told
\* so, never that of another.
AcceptedIsUsed(c) == reply[c].status = "accepted" => /\ ~StartsAtOnce
                                                     /\ assets = upload[c]
                                                     /\ assets \in Bundles
OneShot == accepts <= 1 /\ \A c \in Clients : AcceptedIsUsed(c)

\* Nobody is told a status that is behind what anybody was told before the
\* request was made, an accepted upload included.
Fresh(c) == reply[c].status # "none" => Rank(reply[c].status) >= floor[c]
FreshAnswers == \A c \in Clients : Fresh(c)

\* A final result that a client was shown is whole, stays the result, and is
\* about the assets in use; it says "passed" only if each required role
\* succeeded and no item was lost.
FinalFor(c) == LET r == reply[c] IN
    /\ r.status \in Final => state.status = r.status
    /\ r.code = 500 => state.error
    /\ r.report.made => r.report = state.report /\ r.report.subject = assets
    /\ r.report.passed => /\ \A role \in REQUIRED_IMAGE_ROLES : output.last[role] = "succeeded"
                          /\ output.items
ResultIsFinal == \A c \in Clients : FinalFor(c)

\* 409 is the answer only if the validation has been started or is being
\* started: the assets came with the process, or another upload got there first.
RightlyRefused(c) == reply[c].code = 409 => started
ConflictIsTrue == \A c \in Clients : RightlyRefused(c)

\* Every request is answered, though a client may stall its own upload and
\* handle_job may hang.
EveryRequestIsAnswered ==
    \A c \in Clients : pc[c] \notin {"idle", "body"} ~> pc[c] \in {"idle", "body"}

\* If handle_job comes back, an accepted upload gets its result.
AcceptedSettles ==
    HandleJobComesBack =>
        ((\E c \in Clients : reply[c].status = "accepted") ~> state.status \in Final)

\* Threads, flag and locks implement the promise of OneShotValidation.
Promise == INSTANCE OneShotValidation WITH
    phase    <- state.status,
    subject  <- assets,
    accepted <- accepts > 0,
    told     <- [c \in Clients |-> IF pc[c] = "answer" THEN snapshot[c].status
                                                       ELSE reply[c].status]
ImplementsOneShot == Promise!Spec

\* What makes the properties above inductive: the state says where the worker is;
\* one client at a time is between the flag and its answer; a copy of the
\* state is a past of it, and the last one if it is final.
Winning == {"announce", "spawn", "accept"}

\* The state at each place of the worker.
Course ==
    /\ worker = "none" => /\ state \in {Becomes("awaiting_assets"), Becomes("pending")}
                          /\ assets = NoBundle
    /\ worker = "spawned" => state = Becomes("pending")
    /\ worker \in {"running", "answered"} => state = Becomes("running")
    /\ worker = "ended" =>
          \/ state.status = "failed" /\ state.error /\ state.report = NoReport
          \/ /\ state.status = "completed"
             /\ state.report = [made |-> TRUE, subject |-> assets, passed |-> Passed(output)]
             /\ ~state.error

\* The flag, and who has set it.
Opened ==
    /\ worker # "none" => started
    /\ serving /\ StartsAtOnce => started
    /\ ~started => state = Becomes(IF StartsAtOnce THEN "pending" ELSE "awaiting_assets")
    /\ StartsAtOnce => state.status # "awaiting_assets" /\ accepts = 0
    /\ started /\ state.status = "awaiting_assets" => \E c \in Clients : pc[c] = "announce"
    /\ accepts <= 1 /\ (accepts = 1 => worker # "none")
    /\ told <= Rank(state.status)
    /\ \A c, d \in Clients : pc[c] \in Winning /\ pc[d] \in Winning => c = d

Past(s) == /\ Rank(s.status) <= Rank(state.status)
           /\ s.status \in Final => s = state
           /\ s.report.made \/ s.report.passed \/ s.error => s = state

Placed(c) ==
    /\ pc[c] # "idle" => serving /\ reply[c] = NoReply
    /\ lock = c <=> pc[c] \in {"announce", "spawn"}
    /\ pc[c] \in {"body", "start"} \cup Winning => ~StartsAtOnce /\ floor[c] = 0
    /\ pc[c] \in {"start"} \cup Winning => upload[c] \in Bundles
    /\ pc[c] \in Winning => started /\ accepts = 0
    /\ pc[c] = "announce" => worker = "none" /\ state.status = "awaiting_assets"
    /\ pc[c] = "spawn" => worker = "none" /\ state.status = "pending"
    /\ pc[c] = "accept" => worker # "none" /\ assets = upload[c]
    /\ pc[c] = "answer" => Past(snapshot[c]) /\ floor[c] <= Rank(snapshot[c].status)
    /\ floor[c] <= told
    /\ reply[c].status = "accepted" => accepts = 1
    /\ reply[c].report.passed => reply[c].report.made

\* What is known of a client: where it is, and what it was told.
Right(c) == /\ Placed(c) /\ AcceptedIsUsed(c) /\ Fresh(c) /\ FinalFor(c)
            /\ RightlyRefused(c)

IInv == TypeOK /\ Course /\ Opened /\ \A c \in Clients : Right(c)
=============================================================================
