----------------------------- MODULE GpuSession -----------------------------
(***************************************************************************)
(* handle_job (handler.py): a job is routed by its schema_version, and the *)
(* work on the GPU is done under one process-wide lock.  A probe waits for *)
(* the lock; a batch or a research job gives up and may be retried; an     *)
(* event goes on without the GPU.                                          *)
(*                                                                         *)
(* The routes differ in which exceptions they turn into an answer, and an  *)
(* answer may itself be refused by its contract: every point where a call  *)
(* may raise is a choice here.                                             *)
(***************************************************************************)
EXTENDS Naturals, FiniteSets

CONSTANTS
    Callers,            \* the threads that call handle_job
    Free,               \* nobody holds the lock
    Environments,       \* the environments the process may be started in
    AgentOutlivesCall   \* may the research model run longer than its call?

\* The environment of the process: may the settings be read, can the registry
\* be built, can adapters and their runner, are events and probes enabled?
Environment == [settings : {"ok", "missing", "garbled"}, registry : BOOLEAN,
                runtime : BOOLEAN, events : BOOLEAN, probes : BOOLEAN]

ASSUME CallersAssumption == /\ Free \notin Callers
                            /\ AgentOutlivesCall \in BOOLEAN
                            /\ Environments \subseteq Environment

VARIABLES
    env,        \* the environment variables of the process
    lock,       \* _GPU_SESSION_LOCK
    using,      \* who has a model on the GPU: the worker, or a research child
    pc, job,    \* a caller: where it is, its job
    outcome,    \* how the work under the lock ended
    answer,     \* what handle_job returned
    served      \* history: did the job have the lock?

callerVars == <<pc, job, outcome, answer, served>>
vars == <<env, lock, using, callerVars>>

\* id: may the job's id appear in an answer?  If not, the job is not valid.
Route == {"none", "probe", "event", "research", "batch"}
Job == {j \in [route : Route, valid : BOOLEAN, id : BOOLEAN] :
            /\ j.valid => j.id /\ j.route # "none"
            /\ ~j.id => j.route = "research"}

Answer == [status : {"none", "completed", "failed"}, retryable : BOOLEAN,
           cause : {"none", "busy", "input", "service", "disabled"}]
NoAnswer == [status |-> "none", retryable |-> FALSE, cause |-> "none"]
Completed(retryable) == [status |-> "completed", retryable |-> retryable, cause |-> "none"]
FailedBy(cause, retryable) == [status |-> "failed", retryable |-> retryable, cause |-> cause]

Slot(c) == <<c, IF job[c].route = "research" THEN "agent" ELSE "worker">>

Init == /\ env \in Environments
        /\ lock = Free
        /\ using = {}
        /\ pc = [c \in Callers |-> "ended"]
        /\ job = [c \in Callers |-> [route |-> "none", valid |-> FALSE, id |-> TRUE]]
        /\ outcome = [c \in Callers |-> "none"]
        /\ answer = [c \in Callers |-> NoAnswer]
        /\ served = [c \in Callers |-> FALSE]
-----------------------------------------------------------------------------
Goto(c, step) == pc' = [pc EXCEPT ![c] = step]
Ends(c, a) == Goto(c, "ended") /\ answer' = [answer EXCEPT ![c] = a]
Raises(c) == Goto(c, "raised") /\ UNCHANGED answer
GoesOn(c, step) == Goto(c, step) /\ UNCHANGED answer

\* _research_failure: the answer names a model of the registry and the id of
\* the request, and its contract refuses an id that is malformed.
ResearchFails(c, cause, retryable) ==
    IF env.registry /\ job[c].id THEN Ends(c, FailedBy(cause, retryable)) ELSE Raises(c)

\* A caller calls handle_job, again and again.
Receive(c) == /\ pc[c] \in {"ended", "raised"}
              /\ job' \in {[job EXCEPT ![c] = j] : j \in Job}
              /\ outcome' = [outcome EXCEPT ![c] = "none"]
              /\ answer' = [answer EXCEPT ![c] = NoAnswer]
              /\ served' = [served EXCEPT ![c] = FALSE]
              /\ Goto(c, "prepare")
              /\ UNCHANGED <<env, lock, using>>

\* Everything before the lock: validation, settings, registry, factory.
Preparing(c, route) == /\ pc[c] = "prepare"
                       /\ job[c].route = route
                       /\ UNCHANGED <<env, lock, using, job, outcome, served>>

PrepareNothing(c) == Preparing(c, "none") /\ Ends(c, FailedBy("input", FALSE))

\* Variant with a bug: a probe does not take the lock.
PrepareProbe_unlocked(c) ==
    /\ Preparing(c, "probe")
    /\ env.probes
    /\ IF env.settings = "ok" THEN GoesOn(c, "work") ELSE Raises(c)

PrepareProbe(c) == /\ Preparing(c, "probe")
                   /\ env.probes
                   /\ IF env.settings = "ok" THEN GoesOn(c, "wait") ELSE Raises(c)

\* Without working URLs, settings or adapter an event needs no GPU.
PrepareEvent(c) ==
    /\ Preparing(c, "event")
    /\ CASE ~env.events -> Ends(c, FailedBy("disabled", FALSE))
         [] env.events /\ ~job[c].valid -> Ends(c, FailedBy("input", FALSE))
         [] OTHER -> \/ GoesOn(c, "report")
                     \/ env.settings = "ok" /\ env.registry /\ env.runtime /\ GoesOn(c, "acquire")
                     \/ (env.settings = "garbled" \/ ~env.registry \/ ~env.runtime) /\ Raises(c)

PrepareResearch(c) == /\ Preparing(c, "research")
                      /\ IF job[c].valid THEN GoesOn(c, "acquire")
                                         ELSE ResearchFails(c, "input", FALSE)

\* Variant with a bug: the registry is built outside the try.
PrepareBatch_registry(c) ==
    /\ \/ Preparing(c, "batch")
       \/ Preparing(c, "probe") /\ ~env.probes
    /\ CASE env.settings = "garbled" \/ ~env.registry -> Raises(c)
         [] env.settings = "ok" /\ job[c].valid /\ job[c].route = "batch" /\ env.registry ->
              IF env.runtime THEN GoesOn(c, "acquire") ELSE Raises(c)
         [] OTHER -> Ends(c, FailedBy("input", FALSE))

\* With its route disabled, a probe is a batch of an unknown schema.
PrepareBatch(c) ==
    /\ \/ Preparing(c, "batch")
       \/ Preparing(c, "probe") /\ ~env.probes
    /\ CASE env.settings = "garbled" -> Raises(c)
         [] env.settings = "ok" /\ job[c].valid /\ job[c].route = "batch" /\ env.registry ->
              IF env.runtime THEN GoesOn(c, "acquire") ELSE Raises(c)
         [] OTHER -> Ends(c, FailedBy("input", FALSE))
-----------------------------------------------------------------------------
(* Under the lock.                                                         *)

\* acquire(blocking=False) for an event, research or batch; the with of a probe.
Acquire(c) == /\ pc[c] \in {"acquire", "wait"}
              /\ lock = Free
              /\ lock' = c
              /\ served' = [served EXCEPT ![c] = TRUE]
              /\ GoesOn(c, "work")
              /\ UNCHANGED <<env, using, job, outcome>>

\* Variant with a bug: a refusal that is not to be retried.
Busy_final(c) ==
    /\ pc[c] = "acquire"
    /\ lock # Free
    /\ CASE job[c].route = "event"    -> GoesOn(c, "report")
         [] job[c].route = "research" -> ResearchFails(c, "busy", FALSE)
         [] OTHER                     -> Ends(c, FailedBy("busy", TRUE))
    /\ UNCHANGED <<env, lock, using, job, outcome, served>>

\* Variant with a bug: a batch waits for the lock.
Busy_blocks(c) ==
    /\ pc[c] = "acquire"
    /\ lock # Free
    /\ job[c].route # "batch"
    /\ CASE job[c].route = "event"    -> GoesOn(c, "report")
         [] job[c].route = "research" -> ResearchFails(c, "busy", TRUE)
         [] OTHER                     -> Ends(c, FailedBy("busy", TRUE))
    /\ UNCHANGED <<env, lock, using, job, outcome, served>>

Busy(c) == /\ pc[c] = "acquire"
           /\ lock # Free
           /\ CASE job[c].route = "event"    -> GoesOn(c, "report")
                [] job[c].route = "research" -> ResearchFails(c, "busy", TRUE)
                [] OTHER                     -> Ends(c, FailedBy("busy", TRUE))
           /\ UNCHANGED <<env, lock, using, job, outcome, served>>

\* run_probe, run_event_image_perception, run_isolated_research, and
\* run_with_trace with the stages of version 2.
UseGpu(c) == /\ pc[c] = "work"
             /\ using' = using \cup {Slot(c)}
             /\ GoesOn(c, "running")
             /\ UNCHANGED <<env, lock, job, outcome, served>>

\* run_probe answers or raises; its judge is unloaded either way.
ProbeEnds == {"done", "other"}

\* The ways the work may end: the routes catch different exceptions later.
Outcomes(c) == CASE job[c].route = "probe"    -> ProbeEnds
                 [] job[c].route = "research" -> {"done", "service", "input", "other"}
                 [] OTHER                     -> {"done", "input", "other"}

\* It ends before a model was loaded.
EndUnused(c) == /\ pc[c] = "work"
                /\ outcome' \in {[outcome EXCEPT ![c] = o] : o \in Outcomes(c)}
                /\ GoesOn(c, "leave")
                /\ UNCHANGED <<env, lock, using, job, served>>

EndWork(c) == /\ pc[c] = "running"
              /\ job[c].route # "research"
              /\ using' = using \ {Slot(c)}
              /\ outcome' \in {[outcome EXCEPT ![c] = o] : o \in Outcomes(c)}
              /\ GoesOn(c, "leave")
              /\ UNCHANGED <<env, lock, job, served>>

\* The research model runs in a child of another service.  The call returns
\* when the child has ended, or when its own time is over.
AgentEnds(c) == /\ <<c, "agent">> \in using
                /\ using' = using \ {<<c, "agent">>}
                /\ UNCHANGED <<env, lock, callerVars>>

EndCall(c) == /\ pc[c] = "running"
              /\ job[c].route = "research"
              /\ \/ /\ Slot(c) \notin using
                    /\ outcome' \in {[outcome EXCEPT ![c] = o] : o \in Outcomes(c)}
                 \/ /\ AgentOutlivesCall
                    /\ outcome' = [outcome EXCEPT ![c] = "other"]
              /\ GoesOn(c, "leave")
              /\ UNCHANGED <<env, lock, using, job, served>>

\* The output of the work is the answer.  That of a batch or of research may
\* itself ask for a retry, after a transient failure of one of its models.
Returns(c) == \E retryable \in IF job[c].route = "probe" THEN {FALSE} ELSE BOOLEAN :
                  Ends(c, Completed(retryable))

\* Variant with a bug: a failure of the service is reported as a busy GPU.
Leave_busy(c) ==
    /\ pc[c] = "leave"
    /\ lock' = Free
    /\ CASE job[c].route = "event" /\ outcome[c] = "done" -> GoesOn(c, "report")
         [] job[c].route # "event" /\ outcome[c] = "done" -> Returns(c)
         [] job[c].route # "probe" /\ outcome[c] = "input" ->
              IF job[c].route = "research" THEN ResearchFails(c, "input", FALSE)
                                           ELSE Ends(c, FailedBy("input", FALSE))
         [] job[c].route = "research" /\ outcome[c] \in {"service", "other"} ->
              ResearchFails(c, "busy", TRUE)
         [] OTHER -> Raises(c)
    /\ UNCHANGED <<env, using, job, outcome, served>>

\* The finally clause, then the except clauses of the route.
Leave(c) ==
    /\ pc[c] = "leave"
    /\ lock' = Free
    /\ CASE job[c].route = "event" /\ outcome[c] = "done" -> GoesOn(c, "report")
         [] job[c].route # "event" /\ outcome[c] = "done" -> Returns(c)
         [] job[c].route # "probe" /\ outcome[c] = "input" ->
              IF job[c].route = "research" THEN ResearchFails(c, "input", FALSE)
                                           ELSE Ends(c, FailedBy("input", FALSE))
         [] job[c].route = "research" /\ outcome[c] \in {"service", "other"} ->
              ResearchFails(c, "service", TRUE)
         [] OTHER -> Raises(c)
    /\ UNCHANGED <<env, using, job, outcome, served>>

\* The deterministic pipeline of an event, after the lock or without it.
Report(c) == /\ pc[c] = "report"
             /\ \/ Ends(c, Completed(FALSE))
                \/ Ends(c, FailedBy("input", FALSE))
                \/ Raises(c)
             /\ UNCHANGED <<env, lock, using, job, outcome, served>>
-----------------------------------------------------------------------------
Prepare(c) == \/ PrepareNothing(c) \/ PrepareProbe(c) \/ PrepareEvent(c)
              \/ PrepareResearch(c) \/ PrepareBatch(c)

\* What a caller does inside handle_job.
Step(c) == \/ Prepare(c) \/ Acquire(c) \/ Busy(c)
           \/ UseGpu(c) \/ EndUnused(c) \/ EndWork(c) \/ EndCall(c)
           \/ Leave(c) \/ Report(c)

Next == \E c \in Callers : Receive(c) \/ Step(c) \/ AgentEnds(c)

Spec == Init /\ [][Next]_vars

\* Threads are scheduled, and models, child processes included, come back.
\* No caller has to call again, and the lock is not fair to those who wait.
FairSpec == /\ Spec
            /\ \A c \in Callers : WF_vars(Step(c)) /\ WF_vars(AgentEnds(c))
-----------------------------------------------------------------------------
(* Properties.                                                             *)

Place == {"prepare", "wait", "acquire", "work", "running", "leave", "report",
          "ended", "raised"}

TypeOK ==
    /\ env \in Environments
    /\ lock \in Callers \cup {Free}
    /\ using \in SUBSET (Callers \X {"worker", "agent"})
    /\ pc \in [Callers -> Place]
    /\ job \in [Callers -> Job]
    /\ outcome \in [Callers -> {"none", "done", "input", "service", "other"}]
    /\ answer \in [Callers -> Answer]
    /\ served \in [Callers -> BOOLEAN]

\* The model of a job whose call is still waiting for it.
InCall(s) == pc[s[1]] = "running" /\ s = Slot(s[1])

\* "One FIFO consumer keeps GPU work sequential", and handle_job does so for
\* any number of callers: never the models of two calls on the GPU, and none
\* after its call, but for a research model that runs longer than its call.
OneJobOnGpu ==
    /\ \A s \in using : InCall(s) \/ (AgentOutlivesCall /\ s[2] = "agent")
    /\ Cardinality({s \in using : InCall(s)}) <= 1

\* Whether an answer asks for a retry fits what has been done with its job.  A
\* refusal as busy does, and its job has not been started, so that a retry does
\* nothing twice.  A job that failed does so only for the research service, not
\* for its own fault; one that was finished only if it had the GPU, where its
\* models may have failed.  No event asks for one: refused the GPU, it is
\* answered without perception.
Truthful(c) == LET a == answer[c] IN
    pc[c] = "ended" =>
        /\ a.status = "failed" => (a.retryable <=> a.cause \in {"busy", "service"})
        /\ a.status = "completed" /\ a.retryable => served[c]
        /\ a.cause = "busy" => ~served[c]
        /\ a.cause = "service" => served[c] /\ job[c].route = "research"
        /\ a.retryable => job[c].route \in {"research", "batch"}
RetryIsTruthful == \A c \in Callers : Truthful(c)

\* What leaves handle_job as an exception, and is reported by its caller as a
\* crash of the pod: a batch does so only for an error of the work itself, for
\* settings that are not numbers or for a runtime that is not there; a research
\* job only for a registry or an id that its failure answer cannot be made of.
MayRaise(c) ==
    /\ job[c].route # "none"
    /\ job[c].route = "research" => ~env.registry \/ ~job[c].id
    /\ job[c].route = "batch" => env.settings = "garbled" \/ ~env.runtime \/ served[c]
    /\ job[c].route = "event" => env.events /\ job[c].valid
    /\ job[c].route = "probe" => env.probes \/ env.settings = "garbled"
OnlyWorkRaises == \A c \in Callers : pc[c] = "raised" => MayRaise(c)

\* A request ends; a probe, which waits for the lock, may starve.
EveryRequestEnds ==
    \A c \in Callers :
        pc[c] \notin {"wait", "ended", "raised"} ~> pc[c] \in {"wait", "ended", "raised"}

\* "The handler reports invalid research input without hiding its failure":
\* with a valid registry, an invalid request ends in an answer.
InvalidResearchIsReported ==
    \A c \in Callers :
        job[c].route = "research" /\ ~job[c].valid /\ env.registry => pc[c] # "raised"

\* The routes and the lock implement the promise of GpuLease.
Told(c) == CASE pc[c] = "raised" -> "raised"
             [] pc[c] = "ended" /\ answer[c].cause = "busy" -> "busy"
             [] pc[c] = "ended" /\ answer[c].status = "none" -> "nothing"
             [] pc[c] = "ended" /\ answer[c].status # "none" /\ answer[c].cause # "busy" ->
                  answer[c].status
             [] OTHER -> "pending"
Lease == INSTANCE GpuLease WITH
    Nobody <- Free,
    user   <- lock,
    told   <- [c \in Callers |-> Told(c)]

ImplementsLease == Lease!Spec

\* What makes the properties above inductive: a caller has the lock exactly
\* while it works; a model on the GPU belongs to the running job; which routes,
\* jobs and environments are at which place.
Working == {"work", "running", "leave"}
LockHeld == \A c \in Callers : lock = c <=> pc[c] \in Working
OwnModels == \A s \in using : s[2] = "worker" \/ ~AgentOutlivesCall =>
                                pc[s[1]] = "running" /\ s = Slot(s[1])
Placed(c) ==
    /\ pc[c] \in {"prepare", "wait", "acquire"} => ~served[c]
    /\ pc[c] \in Working => served[c] /\ job[c].route # "none"
    /\ pc[c] = "wait" => job[c].route = "probe"
    /\ pc[c] = "acquire" => job[c].route \in {"event", "research", "batch"}
    /\ pc[c] = "report" => job[c].route = "event"
    /\ pc[c] \notin {"prepare", "ended"} /\ job[c].route = "event" =>
         env.events /\ job[c].valid
    /\ pc[c] \in {"wait"} \cup Working /\ job[c].route = "probe" => env.probes
    /\ pc[c] = "leave" => outcome[c] # "none"
    /\ pc[c] # "ended" => answer[c] = NoAnswer
InPlace == \A c \in Callers : Placed(c)

IInv == TypeOK /\ LockHeld /\ OwnModels /\ InPlace /\ RetryIsTruthful /\ OnlyWorkRaises
=============================================================================
