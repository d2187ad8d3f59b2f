---------------------------- MODULE PodJobQueue ----------------------------
(***************************************************************************)
(* The in-memory job queue of the persistent pod (pod_server.py): HTTP     *)
(* threads that submit, cancel and read jobs, and the single consumer      *)
(* thread that runs them one after the other.                              *)
(*                                                                         *)
(* The registry of jobs is written under a lock, but the pending queue is  *)
(* filled after the lock was left, and an HTTP thread copies the fields of *)
(* a job into its response, one by one, without the lock.  So every write  *)
(* of the consumer and every read of a response is a step of its own.      *)
(***************************************************************************)
EXTENDS Naturals, Sequences

CONSTANTS
    Jobs,           \* the job ids the pod can draw (uuid4: never drawn twice)
    Clients,        \* the HTTP threads, one per connection
    Consumer,       \* the consumer thread
    NoJob,          \* no job: a request or the consumer has none in hand
    Free,           \* the lock is held by nobody
    MaxRestarts     \* bound: how often the pod may restart

ASSUME ConstantsAssumption ==
    /\ Consumer \notin Clients
    /\ Free \notin Clients \cup {Consumer}
    /\ NoJob \notin Jobs
    /\ MaxRestarts \in Nat

VARIABLES
    \* the fields of the registered jobs
    status, output, executionTime, delayTime,
    \* the shared queue and lock
    pending, lock,
    \* the consumer thread: where it is, its job, how handle_job ended
    at, current, outcome,
    \* an HTTP thread: where it is, the job it is about, the response it writes
    pc, asked, response,
    \* what the callers hold: the ids they were given; the jobs of which a
    \* submitter had been told when it made its own request
    known, earlier,
    \* history: ids drawn, times handle_job was entered, restarts
    drawn, runs, restarts

jobVars      == <<status, output, executionTime, delayTime>>
queueVars    == <<pending, lock>>
consumerVars == <<at, current, outcome>>
clientVars   == <<pc, asked, response>>
callerVars   == <<known, earlier>>
historyVars  == <<drawn, runs, restarts>>
vars == <<jobVars, queueVars, consumerVars, clientVars, callerVars, historyVars>>

Status == {"ABSENT", "IN_QUEUE", "IN_PROGRESS", "COMPLETED", "FAILED", "CANCELLED"}
Terminal == {"COMPLETED", "FAILED", "CANCELLED"}
Output == {"none", "result", "failure"}

\* A response under construction; "ABSENT" is the 404 job_not_found.
Response == [status : Status, output : Output,
             executionTime : BOOLEAN, delayTime : BOOLEAN]
NoResponse == [status |-> "ABSENT", output |-> "none",
               executionTime |-> FALSE, delayTime |-> FALSE]

ClientStep == {"idle", "register", "put", "status", "output",
               "executionTime", "delayTime"}
ConsumerStep == {"take", "begin", "delay", "run", "output", "executionTime", "status"}

Queued == {pending[i] : i \in DOMAIN pending}
-----------------------------------------------------------------------------
(* The process: main builds a PodHttpServer with an empty queue.           *)

Init == /\ status = [j \in Jobs |-> "ABSENT"]
        /\ output = [j \in Jobs |-> "none"]
        /\ executionTime = [j \in Jobs |-> FALSE]
        /\ delayTime = [j \in Jobs |-> FALSE]
        /\ pending = <<>>
        /\ lock = Free
        /\ at = "take"
        /\ current = NoJob
        /\ outcome = "none"
        /\ pc = [c \in Clients |-> "idle"]
        /\ asked = [c \in Clients |-> NoJob]
        /\ response = [c \in Clients |-> NoResponse]
        /\ known = {}
        /\ earlier = [j \in Jobs |-> {}]
        /\ drawn = {}
        /\ runs = [j \in Jobs |-> 0]
        /\ restarts = 0

\* The pod restarts: jobs, queue and open requests are lost; the ids and the
\* complete responses the callers hold are not.
Restart == /\ restarts < MaxRestarts
           /\ restarts' = restarts + 1
           /\ status' = [j \in Jobs |-> "ABSENT"]
           /\ output' = [j \in Jobs |-> "none"]
           /\ executionTime' = [j \in Jobs |-> FALSE]
           /\ delayTime' = [j \in Jobs |-> FALSE]
           /\ pending' = <<>>
           /\ lock' = Free
           /\ at' = "take"
           /\ current' = NoJob
           /\ outcome' = "none"
           /\ pc' = [c \in Clients |-> "idle"]
           /\ response' = [c \in Clients |-> IF pc[c] = "idle" THEN response[c]
                                                             ELSE NoResponse]
           /\ UNCHANGED asked
           /\ UNCHANGED <<callerVars, drawn, runs>>
-----------------------------------------------------------------------------
(* HTTP threads.                                                           *)

Goto(c, step) == pc' = [pc EXCEPT ![c] = step]

\* A request that is refused before it reaches the queue: no authorization,
\* no usable Content-Length, no JSON object, no input object, unknown path.
Refuse(c) == /\ pc[c] = "idle"
             /\ response' = [response EXCEPT ![c] = NoResponse]
             /\ asked' = [asked EXCEPT ![c] = NoJob]
             /\ UNCHANGED <<jobVars, queueVars, consumerVars, pc, callerVars, historyVars>>

\* submit: the job object exists, nobody else can see it yet.
SubmitCreate(c, j) == /\ pc[c] = "idle"
                      /\ j \notin drawn
                      /\ drawn' = drawn \cup {j}
                      /\ earlier' = [earlier EXCEPT ![j] = known]
                      /\ asked' = [asked EXCEPT ![c] = j]
                      /\ response' = [response EXCEPT ![c] = NoResponse]
                      /\ Goto(c, "register")
                      /\ UNCHANGED <<jobVars, queueVars, consumerVars, known, runs, restarts>>

SubmitRegister(c) == /\ pc[c] = "register"
                     /\ lock = Free
                     /\ status' = [status EXCEPT ![asked[c]] = "IN_QUEUE"]
                     /\ Goto(c, "put")
                     /\ UNCHANGED <<output, executionTime, delayTime, queueVars,
                                    consumerVars, asked, response, callerVars, historyVars>>

\* Variant with a bug: a bounded queue, and a submission that waits for room.
SubmitPut_bounded(c) ==
    /\ pc[c] = "put"
    /\ pending = <<>>
    /\ pending' = <<asked[c]>>
    /\ Goto(c, "status")
    /\ UNCHANGED <<jobVars, lock, consumerVars, asked, response, callerVars, historyVars>>

SubmitPut(c) == /\ pc[c] = "put"
                /\ pending' = Append(pending, asked[c])
                /\ Goto(c, "status")
                /\ UNCHANGED <<jobVars, lock, consumerVars, asked, response,
                               callerVars, historyVars>>

\* get: the lock covers the look-up only; a job unknown to the process is a 404.
Get(c, j) == /\ pc[c] = "idle"
             /\ lock = Free
             /\ asked' = [asked EXCEPT ![c] = j]
             /\ response' = [response EXCEPT ![c] = NoResponse]
             /\ IF status[j] = "ABSENT" THEN UNCHANGED pc ELSE Goto(c, "status")
             /\ UNCHANGED <<jobVars, queueVars, consumerVars, callerVars, historyVars>>

\* Variant with a bug: a job in progress is cancelled too.
Cancel_running(c, j) ==
    /\ pc[c] = "idle"
    /\ lock = Free
    /\ asked' = [asked EXCEPT ![c] = j]
    /\ response' = [response EXCEPT ![c] = NoResponse]
    /\ status' = [status EXCEPT ![j] = IF @ \in {"IN_QUEUE", "IN_PROGRESS"}
                                       THEN "CANCELLED" ELSE @]
    /\ IF status[j] = "ABSENT" THEN UNCHANGED pc ELSE Goto(c, "status")
    /\ UNCHANGED <<output, executionTime, delayTime, queueVars,
                   consumerVars, callerVars, historyVars>>

Cancel(c, j) == /\ pc[c] = "idle"
                /\ lock = Free
                /\ asked' = [asked EXCEPT ![c] = j]
                /\ response' = [response EXCEPT ![c] = NoResponse]
                /\ status' = [status EXCEPT ![j] = IF @ = "IN_QUEUE" THEN "CANCELLED" ELSE @]
                /\ IF status[j] = "ABSENT" THEN UNCHANGED pc ELSE Goto(c, "status")
                /\ UNCHANGED <<output, executionTime, delayTime, queueVars,
                               consumerVars, callerVars, historyVars>>

\* PodJob.response: four reads, no lock.
ReadStep(c, from, to) == /\ pc[c] = from
                         /\ Goto(c, to)
                         /\ UNCHANGED <<jobVars, queueVars, consumerVars, asked,
                                        earlier, historyVars>>

ReadStatus(c) == /\ ReadStep(c, "status", "output")
                 /\ response' = [response EXCEPT ![c].status = status[asked[c]]]
                 /\ UNCHANGED known
ReadOutput(c) == /\ ReadStep(c, "output", "executionTime")
                 /\ response' = [response EXCEPT ![c].output = output[asked[c]]]
                 /\ UNCHANGED known
ReadExecutionTime(c) ==
    /\ ReadStep(c, "executionTime", "delayTime")
    /\ response' = [response EXCEPT ![c].executionTime = executionTime[asked[c]]]
    /\ UNCHANGED known
\* With its last field the response goes out, and the caller holds the id.
ReadDelayTime(c) ==
    /\ ReadStep(c, "delayTime", "idle")
    /\ response' = [response EXCEPT ![c].delayTime = delayTime[asked[c]]]
    /\ known' = known \cup {asked[c]}

ClientStepOf(c) == \/ SubmitRegister(c) \/ SubmitPut(c)
                   \/ ReadStatus(c) \/ ReadOutput(c)
                   \/ ReadExecutionTime(c) \/ ReadDelayTime(c)
-----------------------------------------------------------------------------
(* The consumer thread.                                                    *)

\* Variant with a bug: the youngest id is taken.
ConsumerTake_youngest ==
    /\ at = "take"
    /\ pending # <<>>
    /\ current' = pending[Len(pending)]
    /\ pending' = SubSeq(pending, 1, Len(pending) - 1)
    /\ at' = "begin"
    /\ UNCHANGED <<jobVars, lock, outcome, clientVars, callerVars, historyVars>>

ConsumerTake == /\ at = "take"
                /\ pending # <<>>
                /\ current' = Head(pending)
                /\ pending' = Tail(pending)
                /\ at' = "begin"
                /\ UNCHANGED <<jobVars, lock, outcome, clientVars, callerVars, historyVars>>

\* Variant with a bug: the loop is left where it should be continued.
ConsumerSkip_returns == /\ at = "begin"
                        /\ lock = Free
                        /\ status[current] = "CANCELLED"
                        /\ at' = "ended"
                        /\ UNCHANGED <<jobVars, queueVars, current, outcome, clientVars,
                                       callerVars, historyVars>>

ConsumerSkip == /\ at = "begin"
                /\ lock = Free
                /\ status[current] = "CANCELLED"
                /\ at' = "take"
                /\ UNCHANGED <<jobVars, queueVars, current, outcome, clientVars,
                               callerVars, historyVars>>

\* Variant with a bug: a cancelled job is started.
ConsumerBegin_cancelled ==
    /\ at = "begin"
    /\ lock = Free
    /\ lock' = Consumer
    /\ status' = [status EXCEPT ![current] = "IN_PROGRESS"]
    /\ at' = "delay"
    /\ UNCHANGED <<output, executionTime, delayTime, pending, current,
                   outcome, clientVars, callerVars, historyVars>>

ConsumerBegin == /\ at = "begin"
                 /\ lock = Free
                 /\ status[current] # "CANCELLED"
                 /\ lock' = Consumer
                 /\ status' = [status EXCEPT ![current] = "IN_PROGRESS"]
                 /\ at' = "delay"
                 /\ UNCHANGED <<output, executionTime, delayTime, pending, current,
                                outcome, clientVars, callerVars, historyVars>>

\* The lock is left and handle_job entered.
ConsumerCall == /\ at = "delay"
                /\ delayTime' = [delayTime EXCEPT ![current] = TRUE]
                /\ lock' = Free
                /\ runs' = [runs EXCEPT ![current] = @ + 1]
                /\ at' = "run"
                /\ UNCHANGED <<status, output, executionTime, pending, current, outcome,
                               clientVars, callerVars, drawn, restarts>>

\* handle_job returns an output, or raises an Exception.
ConsumerReturn == /\ at = "run"
                  /\ outcome' \in {"result", "failure"}
                  /\ at' = "output"
                  /\ UNCHANGED <<jobVars, queueVars, current, clientVars, callerVars,
                                 historyVars>>

\* Variant with a bug: the status is written before the rest.
ConsumerOutput_statusFirst ==
    /\ at = "output"
    /\ lock = Free
    /\ lock' = Consumer
    /\ output' = [output EXCEPT ![current] = outcome]
    /\ status' = [status EXCEPT ![current] =
                    IF outcome = "result" THEN "COMPLETED" ELSE "FAILED"]
    /\ at' = IF outcome = "result" THEN "executionTime" ELSE "status"
    /\ UNCHANGED <<executionTime, delayTime, pending, current,
                   outcome, clientVars, callerVars, historyVars>>

ConsumerOutput == /\ at = "output"
                  /\ lock = Free
                  /\ lock' = Consumer
                  /\ output' = [output EXCEPT ![current] = outcome]
                  /\ at' = IF outcome = "result" THEN "executionTime" ELSE "status"
                  /\ UNCHANGED <<status, executionTime, delayTime, pending, current,
                                 outcome, clientVars, callerVars, historyVars>>

ConsumerExecutionTime == /\ at = "executionTime"
                         /\ executionTime' = [executionTime EXCEPT ![current] = TRUE]
                         /\ at' = "status"
                         /\ UNCHANGED <<status, output, delayTime, queueVars, current,
                                        outcome, clientVars, callerVars, historyVars>>

\* Variant with a bug: a failed job goes back to the queue.
ConsumerFinish_retries ==
    /\ at = "status"
    /\ status' = [status EXCEPT ![current] =
                    IF outcome = "result" THEN "COMPLETED" ELSE "IN_QUEUE"]
    /\ pending' = IF outcome = "result" THEN pending ELSE Append(pending, current)
    /\ lock' = Free
    /\ at' = "take"
    /\ UNCHANGED <<output, executionTime, delayTime, current,
                   outcome, clientVars, callerVars, historyVars>>

ConsumerFinish == /\ at = "status"
                  /\ status' = [status EXCEPT ![current] =
                                  IF outcome = "result" THEN "COMPLETED" ELSE "FAILED"]
                  /\ lock' = Free
                  /\ at' = "take"
                  /\ UNCHANGED <<output, executionTime, delayTime, pending, current,
                                 outcome, clientVars, callerVars, historyVars>>

ConsumerNext == \/ ConsumerTake \/ ConsumerSkip \/ ConsumerBegin \/ ConsumerCall
                \/ ConsumerReturn \/ ConsumerOutput \/ ConsumerExecutionTime
                \/ ConsumerFinish
-----------------------------------------------------------------------------
Next == \/ \E c \in Clients :
             \/ Refuse(c)
             \/ \E j \in Jobs : SubmitCreate(c, j)
             \/ \E j \in known : Get(c, j) \/ Cancel(c, j)
             \/ ClientStepOf(c)
        \/ ConsumerNext
        \/ Restart

Spec == Init /\ [][Next]_vars

\* The operating system runs every thread.  Nothing is fair about handle_job
\* or about the callers: a model may run for ever, and nobody has to ask.
ThreadFairness ==
    /\ WF_vars(ConsumerTake \/ ConsumerSkip \/ ConsumerBegin \/ ConsumerCall
                 \/ ConsumerOutput \/ ConsumerExecutionTime \/ ConsumerFinish)
    /\ \A c \in Clients : WF_vars(ClientStepOf(c))

HandleJobComesBack == WF_vars(ConsumerReturn)

FairSpec == Spec /\ ThreadFairness
-----------------------------------------------------------------------------
(* Properties.                                                             *)

TypeOK ==
    /\ status \in [Jobs -> Status]
    /\ output \in [Jobs -> Output]
    /\ executionTime \in [Jobs -> BOOLEAN]
    /\ delayTime \in [Jobs -> BOOLEAN]
    /\ pending \in Seq(Jobs)
    /\ lock \in {Free, Consumer}
    /\ at \in ConsumerStep
    /\ current \in Jobs \cup {NoJob}
    /\ outcome \in Output
    /\ pc \in [Clients -> ClientStep]
    /\ asked \in [Clients -> Jobs \cup {NoJob}]
    /\ response \in [Clients -> Response]
    /\ known \in SUBSET Jobs
    /\ earlier \in [Jobs -> SUBSET Jobs]
    /\ drawn \in SUBSET Jobs
    /\ runs \in [Jobs -> Nat]
    /\ restarts \in 0 .. MaxRestarts

\* submit registers a job before it puts its id: the consumer's look-up
\* self._jobs[job_id] finds every id it takes, in a state it may start or skip.
QueuedIsRegistered ==
    \A j \in Queued \cup (IF at = "begin" THEN {current} ELSE {}) :
        status[j] \in {"IN_QUEUE", "CANCELLED"}

\* handle_job is entered at most once for a job, restarts included.
AtMostOnce == \A j \in Jobs : runs[j] <= 1

\* A caller who was told CANCELLED knows that the job never ran and never will.
CancelledNeverRuns ==
    \A c \in Clients : response[c].status = "CANCELLED" => runs[asked[c]] = 0

\* A response is put together without the lock, field by field, while the
\* consumer writes.  If it says that the job is over it is nevertheless whole:
\* the job stays as it says, and exactly the fields that belong to that end
\* are there (executionTime for a completed job only, no output if cancelled).
TerminalAnswerIsWhole ==
    \A c \in Clients :
        LET r == response[c] IN
        pc[c] = "idle" /\ r.status \in Terminal =>
            /\ status[asked[c]] \in {r.status, "ABSENT"}
            /\ r.output = CASE r.status = "COMPLETED" -> "result"
                             [] r.status = "FAILED"    -> "failure"
                             [] r.status = "CANCELLED" -> "none"
            /\ r.executionTime = (r.status = "COMPLETED")
            /\ r.delayTime = (r.status # "CANCELLED")

\* First come, first served: once a job has started, every job whose id had
\* been given out before it was submitted is over (or lost in a restart).
\* (Of two submissions that overlap, either may be served first.)
ServedInOrder ==
    \A k \in Jobs : runs[k] > 0 =>
        \A j \in earlier[k] : status[j] \in Terminal \cup {"ABSENT"}

\* The threads and the queue implement the life of a job that callers rely on.
\* The answer counts from the moment the terminal status is visible.
Lifecycle == INSTANCE JobLifecycle WITH
    phase  <- status,
    answer <- [j \in Jobs |-> IF status[j] \in Terminal THEN output[j] ELSE "none"]

ImplementsLifecycle == Lifecycle!Spec

\* If handle_job always comes back, every registered job is eventually
\* completed, failed, cancelled or lost in a restart.
EveryJobSettles ==
    HandleJobComesBack =>
        \A j \in Jobs : status[j] \in {"IN_QUEUE", "IN_PROGRESS"}
                            ~> status[j] \in Terminal \cup {"ABSENT"}

\* Every request is answered even if handle_job never comes back: no thread
\* waits for the job in progress, which runs outside the lock.
EveryRequestIsAnswered ==
    \A c \in Clients : pc[c] # "idle" ~> pc[c] = "idle"
-----------------------------------------------------------------------------
(* The inductive invariant behind the safety properties.                   *)

Submitting(c) == pc[c] \in {"register", "put"}
Running == at \in ConsumerStep \ {"take", "begin"}

\* A drawn id is in one place at most: with its submitter, in the queue once,
\* or in the hands of the consumer.
PlacesInv ==
    /\ known \subseteq drawn
    /\ Queued \subseteq drawn
    /\ \A i, k \in DOMAIN pending : pending[i] = pending[k] => i = k
    /\ at # "take" => current \in drawn \ Queued
    /\ \A c \in Clients :
         /\ asked[c] \in drawn \cup {NoJob}
         /\ pc[c] # "idle" \/ response[c] # NoResponse => asked[c] # NoJob
         /\ Submitting(c) =>
              /\ asked[c] \notin known \cup Queued
              /\ at # "take" => asked[c] # current
              /\ response[c] = NoResponse
              /\ \A d \in Clients \ {c} : asked[d] # asked[c]

\* The place of a job tells its status and whether handle_job has seen it.
JobInv(j) ==
    /\ j \notin drawn => status[j] = "ABSENT" /\ runs[j] = 0 /\ earlier[j] = {}
    /\ j \in Queued => status[j] \in {"IN_QUEUE", "CANCELLED"}
    /\ status[j] = "IN_QUEUE" =>
         \/ j \in Queued
         \/ at = "begin" /\ current = j
         \/ \E c \in Clients : pc[c] = "put" /\ asked[c] = j
    /\ status[j] = "IN_PROGRESS" => Running /\ current = j
    /\ status[j] \in {"IN_QUEUE", "CANCELLED"} => runs[j] = 0
    /\ runs[j] <= 1

HandsInv ==
    /\ lock = Consumer <=> at \in {"delay", "executionTime", "status"}
    /\ at = "begin" => status[current] \in {"IN_QUEUE", "CANCELLED"}
    /\ Running => status[current] = "IN_PROGRESS"
    /\ Running => runs[current] = IF at = "delay" THEN 0 ELSE 1
    /\ \A c \in Clients :
         /\ pc[c] = "register" => status[asked[c]] = "ABSENT" /\ runs[asked[c]] = 0
         /\ pc[c] = "put" => status[asked[c]] = "IN_QUEUE"

LifeInv == HandsInv /\ \A j \in Jobs : JobInv(j)

\* The fields of a job when it has a given status.
Fields(o, e, d, j) == output[j] = o /\ executionTime[j] = e /\ delayTime[j] = d
JobFields(j) ==
    /\ status[j] \in {"ABSENT", "IN_QUEUE", "CANCELLED"} => Fields("none", FALSE, FALSE, j)
    /\ status[j] = "COMPLETED" => Fields("result", TRUE, TRUE, j)
    /\ status[j] = "FAILED" => Fields("failure", FALSE, TRUE, j)
FieldsInv ==
    /\ \A j \in Jobs : JobFields(j)
    /\ at = "delay" => Fields("none", FALSE, FALSE, current)
    /\ at \in {"run", "output"} => Fields("none", FALSE, TRUE, current)
    /\ at = "executionTime" => outcome = "result" /\ Fields("result", FALSE, TRUE, current)
    /\ at = "status" => Fields(outcome, outcome = "result", TRUE, current)
    /\ at \in {"output", "status"} => outcome # "none"

\* What a response has copied of a job that is over still holds of the job.
TrueResponse(c) ==
    LET r == response[c]
        j == asked[c]
    IN  /\ pc[c] = "status" => r = NoResponse
        /\ r.status \in Terminal =>
             /\ status[j] \in {r.status, "ABSENT"}
             /\ r.status = "CANCELLED" => runs[j] = 0
             /\ pc[c] # "idle" => status[j] = r.status
             /\ pc[c] \in {"executionTime", "delayTime", "idle"} =>
                  r.output = CASE r.status = "COMPLETED" -> "result"
                               [] r.status = "FAILED"    -> "failure"
                               [] r.status = "CANCELLED" -> "none"
             /\ pc[c] \in {"delayTime", "idle"} =>
                  r.executionTime = (r.status = "COMPLETED")
             /\ pc[c] = "idle" => r.delayTime = (r.status # "CANCELLED")

ResponseInv == \A c \in Clients : TrueResponse(c)

\* Job j, known when k was submitted, is over, or in hand or in the queue
\* ahead of k.
Precedes(j, k) ==
    \/ status[j] \in Terminal \cup {"ABSENT"}
    \/ at # "take" /\ current = j /\ j # k /\ runs[k] = 0
    \/ \E p \in DOMAIN pending :
         /\ pending[p] = j
         /\ \A q \in DOMAIN pending : pending[q] = k => p < q
         /\ runs[k] = 0
         /\ at # "take" => current # k

OrderInv == \A k \in Jobs : \A j \in earlier[k] : j \in known /\ Precedes(j, k)

IInv == TypeOK /\ PlacesInv /\ LifeInv /\ FieldsInv /\ ResponseInv /\ OrderInv
=============================================================================
