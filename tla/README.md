# FireViewer orchestrator: specifications, model checking and proofs

The FireViewer orchestrator is the worker of a wildfire-media pipeline. It
accepts jobs (over HTTP on a persistent pod, or from a serverless queue),
decides for each job whether it may use the GPU, runs the media models of the
job one after the other behind *gates* and *consensus*, and returns a
structured output for human review. Nothing but the model cache is persisted and shared
between pods; every other state below lives in one process.

This directory holds TLA+ modules translated from `src/src/fireviewer_orchestrator`,
TLC configurations that check them on small instances, and proofs, checked by
TLAPS, that hold for every value of the constants. `PROJECT.json` maps every
definition to the lines it stands for.

    tlc -config PodJobQueue.cfg MCPodJobQueue      # model-check a run
    tlapm PodJobQueue_proofs.tla                   # check the proofs of a module

## 1. Inventory

| Component (source) | State it keeps | Operations | Hard behaviour | What makes it correct |
|---|---|---|---|---|
| **Pod job queue** (`pod_server.py`) | registry `_jobs` under a lock, `_pending` queue, the job in hand | `submit`, `get`, `cancel`, `response`, `_consume` | HTTP threads against one consumer; responses assembled without the lock; a job lives in memory only | one run per job, cancelled jobs never run, whole terminal answers, first come first served, every job settles |
| **GPU session of `handle_job`** (`handler.py`, `lab_probe.py`) | `_GPU_SESSION_LOCK`, the cached models of a factory | five routes by `schema_version` | one route waits for the lock, three give up; errors at every point, some caught and some not | one job on the GPU, the lock is returned, a busy answer is retryable, and a retry is asked for when it fits what was done |
| **Session runner** (`session_runner.py`) | results so far, stage, candidate in hand, traces, runs, consensus, errors | `run_with_trace`, `_execute_candidate`, `_execute_adjudicator`, `evaluate_consensus` | every model may fail at every call; repair, cascade, quorum, judge | one model on the GPU, only accepted results flow, stages in order, honest status, the output's parts agree |
| **Stage gates** (`stage_gates.py`) | none | `derive_capabilities`, `preflight`, `postflight` | order of the conditions; limits counted over what any stage wrote | a stage that is blocked or over its limit is told in the answer's status |
| **Pod validation** (`pod_validation.py`) | `ValidationState`, `validation_worker_started` | `do_GET`, `do_POST`, `start_validation`, `_validation_worker` | uploads that race after both have seen `awaiting_assets` | one validation, status only moves forward, an accepted upload is answered |
| **Worker bootstrap** (`bootstrap.py`, `bootstrap_status.py`) | model cache on a shared volume, its `flock`, fingerprint marker, status | stages of `main`, `ensure_model_cache`, `secure_model_storage` | several pods on one volume, crashes half-way, files read and written outside the lock | manifest and marker never promise too much, no worker without a complete stack, a boot that gives up has told its children to end, every boot ends |
| **Event pipeline** (`event_pipeline.py`, the event route of `handler.py`) | the event being answered: anchors, failures, attempts, proposals | admission of media, perception (external), localization, promotion to a proposal | evidence arrives with every method and geometry; media are refused after what was sent about them was read; images fail one by one | a refused medium leaves no trace, no medium drops out of the answer, a proposal has deterministic geometry |
| **Version 2 composition** (`v2_runner.py`, the stages after a session in `handler.py`) | the results of a session and of three optional stages | fire pointing, burned areas, projection, `from_legacy_output` | stages fail and are skipped in every combination, give their numbers away in advance and replace each other's proposals | the composed answer satisfies its contract, its status is that of its stages, each annotation is answered once |
| **YOLO CPU service** (`mvp/vision/yolo_cpu_service.py`) | the model and its lock; the backend's revisions | probes, five routes, retries of the caller | evidence is read before a call waits for the model, and published after it; a thread per connection | what is stored was seen in the revision before it, a call told "done" finds what it found stored, each call is answered |
| **SageMaker geo service** (`mvp/gpu/sagemaker_service.py`) | one thread, the model of an invocation | `ping`, two kinds of `invocations` | making, loading, using and releasing a model may each raise | no invocation meets the Prithvi model of another, each connection is answered |
| **Point bundle pipeline** (`mvp/orchestration/point_bundle_pipeline.py`) | none | `build`, `build_payload` | one hypothesis that fails after others were built | all bundles or none, ranked, each with its own evidence |
| **Evidence merge** (`mvp/orchestration/evidence_merge.py`) | none | `merge_event_evidence` | providers merge in any order and in steps; the result is not validated again | the order does not matter, the result is valid |
| **Incident updates** (`incident_updates.py`), **corpus events** (`corpus_event.py`) | none | one pass over an incident or a record | - | not modelled, see section 12 |
| **Managed costs** (`mvp/managed_costs.py`) | none | sums over a price list | - | not modelled, see section 12 |
| **Security settings** (`security.py`, `seccomp_probe.py`) | none | parsing of the environment | - | - |
| **Build tools**, **vendored wheels** | - | - | - | - |

Interaction. The pod's consumer thread calls `handle_job` for one job after the
other; a validation pod calls it from its single validation thread; a serverless
worker calls it from the `runpod` loop. `handle_job` takes `_GPU_SESSION_LOCK`
and, for media jobs, calls `SessionRunner.run_with_trace`, which calls the gates
before and after each stage and the (vendored) model adapters inside it. Before
any of this the bootstrap process fills and secures the model cache, which it
shares with other pods through a network volume. All of it communicates by calls
and shared memory; only the model cache is shared between processes. After a session
`handle_job` runs the stages of version 2 and composes the answer; an event job has
a route of its own. The YOLO service and the geo service are processes beside the
worker with an HTTP interface of their own: the first reads and publishes evidence
in the backend, and answers with bundles of points.

Hard behaviour, line by line, is the list `hazards` in `PROJECT.json`, each with
the properties that watch it.

## 2. Modules

| Module | Models | Abstract specification it implements | Proofs |
|---|---|---|---|
| `PodJobQueue` | `pod_server.py` | `JobLifecycle` | `PodJobQueue_proofs` |
| `SessionRunner` (uses `StageGates`, `Consensus`) | `session_runner.py`, `stage_gates.py` | `StageSequence` | `SessionRunner_proofs`, `SessionReport_proofs` |
| `GpuSession` | `handler.py`, `lab_probe.py` | `GpuLease` | `GpuSession_proofs` |
| `PodValidation` | `pod_validation.py` | `OneShotValidation` | `PodValidation_proofs` |
| `Bootstrap` | `bootstrap.py`, `bootstrap_status.py` | `SharedCache` | `Bootstrap_proofs` |
| `EventRoute` and `VersionTwo`, composed in `JobRoutes` | `handler.py`, `event_pipeline.py`, `v2_runner.py` | - | `JobRoutes_proofs` |
| `YoloService`, `GeoService`, `PointBundles` and `EvidenceMerge`, composed in `EvidenceServices` | the four files of `mvp/` with these parts | - | `EvidenceServices_proofs` |

`MC...` modules give the constants their values; a `.cfg` is one run. Each
component module holds its state and actions, then its properties, then what makes
them inductive (for the last two rows, in the proof module).
The type invariant `TypeOK` is the first conjunct of each inductive invariant `IInv`.
Both are proved for every value of the constants, so that no run lists them.
`JobRoutes` and `EvidenceServices` put parts side by side that share no variable: a
behaviour is one of one part, and one run serves all of them.

## 3. Pod job queue

`PodJobQueue.tla` (abstract promise: `JobLifecycle.tla`; runs: `MCPodJobQueue`;
proofs: `PodJobQueue_proofs`).

**State and code.** `status`, `output`, `executionTime`, `delayTime` are the
fields of a `PodJob` in the registry `_jobs`; `"ABSENT"` is an id that is not
registered. `pending` is `queue.Queue`, `lock` the `_lock`. The consumer thread
has `at`, `current`, `outcome`; an HTTP thread `pc`, `asked`, `response`. A
submission is four kinds of steps, because the code registers the job under the
lock, leaves it, puts the id into the queue, and then assembles the response
field by field with no lock: another thread may run between any two of them.
The consumer writes one field per step for the same reason. `known` holds
the ids that callers were given, and `earlier[j]` what was known when `j` was
submitted: the history against which "first come, first served" is stated.
`drawn`, `runs`, `restarts` are history too. The server persists nothing and recovers
nothing: a restart empties registry and queue, and callers keep their ids. That a job is
not run again after one rests on `uuid4` never drawing an id twice (`drawn`).

**What is abstracted.** Requests that are refused before the queue (401, 411,
413, 400, 404) are one action, `Refuse`; the output of a job is only `result` or
`failure`; `handle_job` is a call that may return, raise, or hang. The body of a
request is read before its first step; the server has no timeout for it, and a client that
never sends its body keeps its own thread, which `EveryRequestIsAnswered` does not count as
a request.

| Run | Shows |
|---|---|
| `pod_queue` | three jobs, two HTTP threads: a caller told CANCELLED is never run (`CancelledNeverRuns`), a terminal answer assembled without the lock is whole and final (`TerminalAnswerIsWhole`), `ServedInOrder` |
| `pod_restart` | three jobs, one HTTP thread, a restart between any two steps, `handle_job` may hang for ever: `AtMostOnce`, refinement of `JobLifecycle`, `EveryRequestIsAnswered`, and `EveryJobSettles` if `handle_job` comes back |

**Bounds.** Two HTTP threads are needed for a race between two requests, three
jobs so that a submission can overtake another while a third one runs; one
restart, since a restart empties everything but `known`, `drawn` and `runs`. The
run with a restart has one HTTP thread: the invariant of two threads and any number
of restarts is proved.
Symmetry is used in `pod_queue` only, which has no liveness property.

**Fairness.** Weak fairness of every thread's own steps (the operating system
schedules threads; `put` on an unbounded queue and the short critical sections
never block for ever). That `handle_job` comes back (`HandleJobComesBack`, the
fairness of `ConsumerReturn`) is a premise of `EveryJobSettles` and of nothing
else. Callers are never fair: nobody has to ask.

**Proof.** `IInv` says where an id may be: in the queue (once, with a status that
the consumer may start or skip), in the consumer's hand, in a submitter's hand,
or over; which fields are written at each position of the consumer; that a
response in progress has read a prefix of fields that are now final whenever its
status is terminal; and that the queue keeps what was known in order.
None of the properties is inductive alone: a response is right only because the
consumer writes the status last. `Invariance` proves `Spec => []IInv` with one
lemma per action; the other theorems are consequences, and `Implements` proves
the step simulation of `JobLifecycle`. `LookupNeverFails` (the consumer always finds what
it took from the queue) is proved only. So are the parts of the two liveness properties that
need no fairness: a job that is not over is in the queue, with the consumer or with the
thread that will put it (`NoJobIsForgotten`); the lock is never held while `handle_job`
runs (`LockIsShort`); and between restarts each step brings its request, the consumer or the
jobs in the queue nearer their end, and no step of another takes one back
(`JobsComeNearer`).

## 4. Session runner, gates and consensus

`SessionRunner.tla` on `StageGates.tla` (`derive_capabilities`, `preflight`,
`postflight`) and `Consensus.tla` (`evaluate_consensus`, `_apply_adjudication`);
abstract promise `StageSequence.tla`; runs `MCSessionRunner`; proofs
`SessionRunner_proofs` and `SessionReport_proofs`.

**State and code.** `stage`, `pc` are the position in `run_with_trace`; `hand` is the
candidate (or judge) of `_execute_candidate` / `_execute_adjudicator` with its
attempts and its private copy of the results; `executions` the finished candidates
of the stage; `evaluation` their consensus; `resident` the models on the GPU;
`stages` the run, gates and trace of every settled stage; `candidateRuns`,
`consensusResults` and `errors` what goes into the output. A step ends wherever
a model or CUDA may fail. `cause` records why a session was aborted by an
exception.

**What is abstracted.** A result is represented by the *source* it comes from,
per kind (`content`: transcript, selected visual, regions, observations,
literals): that is what the gates and the properties tell apart. `_merge` takes any of six
fields from any adapter and replaces each as a whole. So an adapter may write what belongs
to another stage, and a grounding model that returns regions replaces the detector's (both
are one tuple, `pixel_regions`). The constant `Writes` says which kinds the adapters of each
role may return; `WritesAssumption` says only that regions come together. In `content`
a kind comes from the candidate that wrote it last: where a candidate copies what was
there into its own patch, the model calls the result its own. What a model
finds, whether two candidates agree, how confident a verdict is, and how long a
stage takes are nondeterministic. Payload serialisation after a valid output is
left out.

| Run | Shows |
|---|---|
| `session_ensemble` | two detectors in a quorum with a judge, then one model per stage, with every failure at every call: `OneModelAtATime`, `OutputReferencesHold` (what the version 2 contract demands), `OnlyAcceptedResultsFlow`, `StatusIsHonest` |
| `session_cascade` | a cascade of speech models, a cascade of extractors with a judge that may also overwrite the transcript, one model for grounding, no detector, batches of one or two kinds of item: `SessionEnds`; refinement of `StageSequence`: stages settle in order, once; a stage that does not succeed leaves the results as they were; what a success changes comes from one and the same candidate of its own group, in whatever fields |
| `session_judge_aborts` | the finding below |

**Bounds.** One item: items are handled alike and merged by id. Two candidates
are enough for agreement, disagreement and a missed quorum; the production
registry has at most three. The registries of the runs use all three strategies,
both reactions to a disagreement and a judge. `session_ensemble` and the run of the finding
have adapters that keep to their stage (`AdapterWrites`), `session_cascade` one that
does not (`StrayWrites`); the theorems hold for any `Writes`.

**Fairness.** `SessionEnds` assumes that every call of a model comes back
(weak fairness of the single thread): the code sets no timeout of its own.

**Proof, the course of a session** (`SessionRunner_proofs`). `IInv` adds to the types:
where the session is (`Progress`), whose turn it is among the candidates (`InTurn`), that
the consensus selects a candidate that succeeded or none (`Selects`), and what is on the
GPU (`GPU`). It holds for every registry that satisfies `RegistryAssumption` and
`NamesAssumption` and for every set of stage contracts. From it follow `TypeOK`,
`OneModelAtATime`, `JudgeIsConfigured` and the refinement of
`StageSequence`. Two more theorems are the parts of `SessionEnds` that need no fairness:
`SessionIsFinite` (each step decreases the stages left, or leaves them and decreases the
candidates left, or leaves both and decreases the steps left, so that no session goes on
for ever) and `ConsensusDecides` (the one step whose outcome is computed always has one;
the guards of the others follow from where the session is). What remains for TLC is that
a thread whose calls return takes its next step.

**Proof, what a session reports** (`SessionReport_proofs`). The other three properties are
about the whole history of a session, of which `IInv` says nothing, so they need a second
invariant, `RInv`, inductive together with `IInv`. Its parts:

- of the model in hand: its stage was admitted by the gate (`Admitted`), its attempts and
  its error agree with its status at each step (`Trials`), each result of it is new,
  absent or the one accepted before (`Isolated`);
- of the consensus: its decision, the candidates that ran and the judge that was asked or
  not fit together (`Considered`);
- of the records: each execution has its run in `candidateRuns` (`AllRecorded`), an id
  appears there once (`Once`), and what a consensus result says is what its stage says
  (`Referred`);
- of the results: where a kind of result comes from there is a consensus that accepted
  this source (`Flowed`);
- of the answer: a stage that is less than fine has left an error (`Explained`), and the
  status was computed from the stages as they are (`Answered`).

`Trials` and `Once` are the parts that make the others inductive: an attempt recorded too
late, or a candidate that may run for two roles, breaks `OutputReferencesHold` only stages
afterwards. TLC checked `RInv` on both instances before it was proved. It gives
`OnlyAcceptedResultsFlow`, `OutputReferencesHold` and `StatusIsHonest` for every registry,
contracts and batch.

**Assumptions.** `RegistryAssumption` is what `ModelGroupSpec.validate` enforces.
`NamesAssumption` says that ids of candidates and judges of different roles differ: so it
is for a `ModelSpec`, whose candidate is named `{role}.primary`
(`session_runner.py:304`), and for groups named after their role. The constructor does
not enforce it: each group is validated alone. A registry that used one id for two roles
would be accepted, and the output of its sessions refused by the contract, which demands
distinct ids; that is why `OutputReferencesHold` needs the assumption.

**Finding.** `session_runner.py:579`: the judge answers, its verdict is
corrected once, then `synchronize_cuda()` raises: the run is recorded as failed *and*
repaired, which the record's contract refuses; the exception leaves
`run_with_trace` and every result of the session is lost
(`test_session_runner.py:519` calls for the opposite). Also met, and not
contradicted by any statement of the repository: a verdict is kept before CUDA is
synchronised (`session_runner.py:768`), so a judge whose run failed still decides the
stage; the overall status `failed` cannot be reached; a stage
over its wall time or output limit fails its gate but its results stay in use.


## 5. GPU session of handle_job

`GpuSession.tla` (abstract promise: `GpuLease.tla`; runs `MCGpuSession`; proofs
`GpuSession_proofs`).

**State and code.** A caller is a thread inside `handle_job`: the consumer of the
pod queue, the pod validation, a RunPod worker. `lock` is `_GPU_SESSION_LOCK`;
`using` the models on the GPU, the worker's own or a child process of the research
service; `outcome` the kind of exception, if any, that ends the work under the
lock; `answer` the returned object; `served` remembers that the job had the lock.
`env` is what the environment variables and the installed packages decide (`runtime`: the
factory of the adapters and the runner can be made; a batch and an event with images raise
without it). An action ends wherever the route
may lose the processor with something another caller can see: before the lock,
with it, on the GPU, after it.

**What is abstracted.** The answer is its status, whether it may be retried, and the cause it
names. A batch or a research request that is finished may still ask for a retry, because a
model of its own failed for a passing reason (`session_runner.py:904`, `v2_runner.py:738`;
`Returns`); an event never asks for one: refused the GPU, it degrades and is answered without
images. `RetryIsTruthful` says what a retry means on each way: a failure asks for one exactly
if the cause was another job or the service, a job refused as busy never had the GPU, a
finished job that asks for one did have it. An exception is one of the classes the `except`
clauses tell apart. What a model computes is `SessionRunner`'s subject or external. The
registry is one bit (a GPU can be described or not) for the routes that build it.

| Run | Shows |
|---|---|
| `gpu_session` | two callers, every environment, a research model that may outlive its call: `OneJobOnGpu`, `RetryIsTruthful`, `OnlyWorkRaises`, `EveryRequestEnds`, refinement of `GpuLease` |
| `gpu_research_invalid` | the finding below |

**Bounds.** Two callers: one that has the lock, and one that is refused or waits. A third finds
nothing more, and the proofs hold for any number. The routes are all there; the callers call
for ever.

**Assumptions.** Unloading a model frees the GPU even when it raises (the
adapters are external). `AgentOutlivesCall` says whether the research child may
run longer than the call that waits for it: the two limits are settings, and with
the wrong order the lock is free while the child is on the GPU. The run has the wrong
order: `OneJobOnGpu` allows such a child and nothing else beside the models of the
one call that is running. The theorem covers both orders.

**Fairness.** Weak fairness of each caller's own steps (threads run, models come
back) and of the end of a research child. The lock of `threading` promises nothing
to those who wait, so a waiting probe may starve and `EveryRequestEnds` leaves
it out; nobody has to call again.

**Proof.** `IInv` says that the lock is held exactly at the places between acquire
and release, that a model on the GPU belongs to the caller that is running, and
which job, environment and answer fits each place; `OneJobOnGpu` follows because
two models would need two holders. The per-caller parts (`Placed`, `Truthful`,
`MayRaise`) are proved for the caller that moves; the others are unchanged.
`CallsComeToAnEnd` is the part of `EveryRequestEnds` that needs no fairness: the lock is
with a call at work, which waits for its model only, and each step of a call brings it
nearer its end.

**Finding.** `handler.py:345`: the failure answer of the research route carries
the id of the request it refuses, and its contract refuses a malformed id, so that
an invalid request can leave `handle_job` as a second exception, which
`test_handler.py:62` rules out by its name. Also met, without a statement to the
contrary: an error of the work itself is reported as `input:` if its class is on the
list at `handler.py:431`.

## 6. Pod validation

`PodValidation.tla` (abstract promise: `OneShotValidation.tla`; runs
`MCPodValidation`; proofs `PodValidation_proofs`).

**State and code.** `state` is the `ValidationState`, replaced as a whole under its
lock; `started` and `lock` are the flag and the lock of the HTTP server; `worker`,
`assets`, `output` belong to the thread that validates; a client has one request at
a time, with its `upload`, its `snapshot` of the state and the `reply`. An upload is
five steps, because its status is checked before the body is read and the flag, the
status and the thread are set one after the other. `required`, `bundled`,
`serving` are the boot: assets that come with the process or are not needed start
the validation before the server serves. `accepts`, `told`, `floor` are history: how
many uploads were accepted, and how far the validation was known to be when a
request was made.

**What is abstracted.** Decoding turns a body into a bundle with exactly the names
of the payload, or into a refusal (400, which stands for 411 and 413 too). The
output of `handle_job` is, for each required role, whether its last run succeeded,
and whether the items are as many as those of the payload. Settings, hardware probe
and fetcher may raise.

| Run | Shows |
|---|---|
| `validation` | two clients, two bundles, every boot: `OneShot`, `FreshAnswers`, `ResultIsFinal`, `ConflictIsTrue`, and `IInv`; with thread fairness only, `EveryRequestIsAnswered`, although an upload may stall and `handle_job` may hang; `AcceptedSettles` if `handle_job` comes back; refinement of `OneShotValidation` |

**Bounds.** Two clients are enough for two uploads that pass the check together, and
for a reader that learns of another's answer; two bundles, so that the wrong one can
be validated; one required role, since roles are treated alike (the proofs hold for
any set of them). Clients ask for ever. Runs with two roles, and with three
clients (1.8 million states), find nothing more.

**Fairness.** Weak fairness of the boot, of the worker's own steps and of each
request thread, except for reading a body; that `handle_job` comes back is a premise
of `AcceptedSettles` only. A restart of the pod is a new `Init`: nothing is persisted
and no promise reaches across it.

**Proof.** `IInv` ties the state to the place of the worker (`Course`), says who may
have set the flag and that only one client is between the flag and its answer
(`Opened`), and that a copy of the state is a past of it, and the state itself
if it is final (`Past`). `Stays` proves once that a client that does not move stays
right under whatever the others do (`Onward`); each action then needs its own
client only. `OneShot` and `ConflictIsTrue` are proved as well; no run lists them.
`RequestsComeToAnEnd` is the part of the two liveness properties that needs no fairness:
the lock is with a request that only has to announce and to spawn, each step of a request
brings it nearer its answer, and the worker never goes back nor changes its assets.

## 7. Worker bootstrap

`Bootstrap.tla` (abstract promise: `SharedCache.tla`; runs `MCBootstrap`; proofs
`Bootstrap_proofs`).

**State and code.** The volume: `snapshot` is the files of each model, `open` the
models whose permissions the broker's user could still pass, `manifest` and `marker`
the two JSON files beside the cache, `lock` the `flock` of `_volume_lock`, `brokers`
whether the fixed group of the volume is one of the broker's. A pod: `pc` is the
place in `main`, `config` its mode, stack and switches, `rest` and `item` the loops
of `provision_model_cache` and of the walk, `fingerprint` the manifest that
`secure_model_storage` read, `children` the research processes that run (told to end or not), `stage` what
`BootstrapStatus` shows. Steps end wherever another pod can see or change the
volume: the unlocked look at the cache, the lock, the look under it, each model's
first and last file, the publication of the manifest, the reading of manifest and
marker, each path of the walk, the emptying and the writing of the marker. `Raise` is
an exception at any call that may raise, `Crash` the end of a container at any step.

**What is abstracted.** A stack and its manifest are one to one (the manifest lists
what the stack pins), so a fingerprint is the stack it stands for. Walks go by
models instead of paths. Nobody deletes models. The whole volume has one group or
another. `provision_model_cache` and `cache_status` belong to a vendored package:
they are modelled from how `bootstrap.py` relies on them and marked external (any
weight file makes a snapshot look present; the manifest is put in place last and as
a whole; a complete model is left alone).

| Run | Shows |
|---|---|
| `bootstrap` | two pods whose stacks overlap, a spatial asset among the models, every failure and a crash at any step: `ManifestIsTrue`, `MarkerIsTrue`, `OnlySafePodsGoOn`, `NoChildIsForgotten` (a research child whose wait raises does not keep the broker from being told); `EveryBootEnds` if downloads end; refinement of `SharedCache` |
| `bootstrap_manifest_moved` | the finding below |

**Bounds.** Two pods are the smallest number with two downloads, two walks or two
writers of the marker at once; the two stacks share one model and differ in another,
so that one manifest vouches for part of the other stack. A boot may be repeated for
ever, with another configuration each time; one crash per run, and any number of
exceptions. The proofs hold for any numbers.

**Fairness.** Weak fairness of each boot's own steps (one process, and waits in it
are limited: `_wait_for_socket`, `wait(timeout=5)`, the held failure); strong
fairness of `Acquire`, since the kernel keeps a queue of those who wait for an
`flock`. That downloads end (`DownloadsEnd`) is a premise of `EveryBootEnds`.

**Proof.** None of the properties is inductive alone. `IInv` is the two truths about the files
and, for each pod, `Right`: it holds the lock exactly while it provisions (`Locks`); what its
loop has passed is complete, or closed, and what it read is still true (`Handled`); its status
shows a failure when there is one (`Shows`); its children are those its place calls for
(`Kept`); and it is `Safe`. `OthersStayRight` proves once that a pod that does not move stays
right whatever happens to the volume, as long as models are only completed and only an
incomplete one is opened; each action then needs its own pod only. `Implements` maps complete
models, secured models and launched workers to `SharedCache`. `BootsComeToAnEnd` is the part of
`EveryBootEnds` that needs no fairness: the lock is with a pod that provisions, and each step
of a boot brings it to a later place or leaves fewer models to its loop, so that a boot is
finite. For it `Locks` says that the model being downloaded is one the loop has not come to.

The second look at the cache under the lock (`bootstrap.py:127`) saves a download and
protects nothing: without it the pod would go through its models, skip each and publish the
same manifest. No property claims otherwise. Also met: if the launch fails after the sandbox
stood, nobody tells its children to end; a pod shows its failure beside them for up to
fifteen minutes. `NoChildIsForgotten` leaves this case out and says so.

**Finding.** `bootstrap.py:192` reads the manifest after the lock was left. Pod A
fills the cache for its stack and leaves the lock; pod B, configured for another
stack, publishes its own manifest; a marker of an earlier boot vouches for that
manifest. A reads B's manifest, trusts the marker and launches its worker, although
the permissions of the models it has just downloaded were never set
(`bootstrap.py:183`). What does hold, and is proved, is the weaker
`OnlySafePodsGoOn`: the models of the manifest that was *read* are closed. With one
stack for all the pods of a volume the two are the same.

## 8. Job routes

`EventRoute.tla` (the event route) and `VersionTwo.tla` (the stages after a session
and the composed answer), put together in `JobRoutes.tla`; runs `MCJobRoutes`;
proofs `JobRoutes_proofs`.

**State and code.** In `EventRoute`, `event` is the request, chosen in the initial
state among all the media and anchors that may be sent; `anchors` and `failures` are
what `handle_job` passes to the pipeline, `attempts` and `proposals` what the
pipeline answers. The route admits media, looks at those that need an image model,
and reports. In `VersionTwo`, `session` is what `run_with_trace` returned, and
`pointing`, `burned`, `spatial` the results of the three optional stages with the
traces they made in advance; `output` is the composed answer, or its refusal by the
contract. A step is a stage, or a place where one may raise.

**What is abstracted.** A geometry is its kind, an anchor its asset, its origin, its
phenomenon and its evidence. What a stage finds is any choice its contract allows.
A report is its number of facts, a bag over the items; the limits of the contract are the
constants `MaxFeatures`, `MaxProposals`, `MaxFacts`. The contracts are vendored:
what they refuse is modelled from how `src/` relies on them and marked external.

| Run | Shows |
|---|---|
| `job_routes` | every event with two media: `RefusedMediaLeaveNoTrace`, `EveryMediumIsAccountedFor`, `ProposalsAreDeterministic`; every batch of two items, through every result of the stages: `RefusedOnlyForItsSize`, `StatusReflectsStages`, `EveryAnnotationIsAnswered` |

**Bounds.** Two media, so that one is refused, fails or is silent while the other is
fine; anchors of two phenomena with evidence of each method, with and without a
reference, fitting and not. Two items of every kind, products of up to
`MaxFeatures = 3` under a limit of 2 proposals and 2 facts, so that each limit is
passed and each is kept. Behaviours are short (six states), inputs are many
(1.8 million states). The run stops where a job is answered (`CHECK_DEADLOCK FALSE`).

**Proof.** All six invariants are theorems, for any media, items and limits. For the
event route the invariant says what has been decided at each place (refused media
have lost their anchors, silent media have a failure), and the lemmas about
`AttemptsOn` count the attempts of one medium. For version 2 it keeps the shape of
each stage's result up to the composition (`SessionRight`, `PointingRight`,
`BurnedRight`, `SpatialRight`): the numbers of the traces are consecutive in every
combination of stages, which is what `RefusedOnlyForItsSize` rests on.

**Also met**, without a statement of the repository to the contrary: one deterministic
geometry that does not fit its phenomenon makes the contract refuse the whole event; a
product of more features than the contract admits, though within the limit of the
code (`v2_runner.py:335`), an undated item with a projection, a coarse satellite
image, or too many facts lose the whole batch; an image model that raises when it is
unloaded loses the results of the session; a failed `cross_view` registration does
not show in the status.

## 9. Evidence services

`YoloService.tla`, `GeoService.tla`, `PointBundles.tla`, `EvidenceMerge.tla`, put
together in `EvidenceServices.tla`; runs `MCEvidenceServices`; proofs
`EvidenceServices_proofs`.

**State and code.** `YoloService`: `lock` is `_lock`, `calls` the thread of each
caller's request (waiting for its body, reading evidence, waiting for the lock,
running, publishing), `published` the revisions the backend stored for each event.
`Findings` is what a run may see; two runs on the same evidence may differ.
`main` warms the model up before the server listens, so `readyz` never answers that it
is loading. `GeoService`: `serving` is the connection the only thread is at, `held` the
models on the GPU, `unreleased` those whose `unload` raised. `PointBundles`: the
hypotheses of a batch and the bundles made of them. `EvidenceMerge`: two
collections, media and observations, stand for the nine that are merged by the same
function; a record and a version of it that another provider changed.

**What is abstracted.** Images, vectors, digests and the limits of downloads. Scores
are small numbers. The backend is external. Assumed of it: it refuses
observations on a revision that is no longer its last, and it answers a command it has
stored as replayed, without another revision (the receipt has `replayed`,
`tests/test_mvp_yolo_cpu_service.py:172`). A command is what `publish` is called with: event,
revision and observations (`yolo_cpu_service.py:384`). So two calls that read the same
revision and found the same are both told "done" and share one revision. A caller that
repeats a lost answer makes the service read the evidence again; if its first call was
stored, the repetition names the newer revision and is another command, and the same
observations may be stored again upon themselves. Whether the backend knows them all the
same cannot be told from this repository, and nothing is claimed of it.

`ModelsAreReleased` is about the Prithvi adapter. The MegaLoc encoder is a temporary of
its call and has no `unload`; its memory is the interpreter's to free. `BundlesAreRanked`
says that checks cite references of their own hypothesis; the prior states
of the fire, which a history check cites too whatever its hypothesis
(`point_bundle_pipeline.py:159`), are left out.

| Run | Shows |
|---|---|
| `evidence_services` | two callers with a repetition each, on one event: `EvidenceIsNeverOverwritten`; three connections to one thread: `ModelsAreReleased`; both: `EveryCallIsAnswered`; three hypotheses: `BundlesAreRanked`; three records: `MergeIsOrderFree` |

**Bounds.** Two callers overlap and repeat (`MaxCalls = 2`); with three connections
a ping can wait behind two invocations; three hypotheses can have a tie and a third;
three records are the smallest number for which merging in steps differs from
merging at once.

**Fairness.** Weak fairness of each thread's steps: a run ends because each download and each
request to the backend has a timeout. The lock is not fair; that a waiting call gets it rests
on the other callers having a last call (`MaxCalls`): under load without an end it may starve,
as for any lock of `threading`. A geo connection is answered if clients send the bodies they
announce: the server reads without a timeout, and one that stalls blocks the pings too
(`sagemaker_service.py:362`).

**Proof.** The four invariants are theorems, for any callers, events, findings, connections and
repetitions, any hypotheses and any number of records.

- `EvidenceIsNeverOverwritten` needs that what is stored was seen in the revision before it,
  and that for a call answered `done` the revision right after the one it read holds what it
  found (`YoloInv`); a command that is known has only one place to be stored at, which is why a
  replayed receipt is true.
- `ModelsAreReleased` needs that a model on the GPU belongs to the connection being
  served, at the place where `unload` comes next (`GeoInv`).
- `BundlesAreRanked` rests on the lemmas about the order by score and id: it is total
  (`BeforeOrders`), so that the number of better hypotheses is different for each
  (`PlacesOrder`), every place is taken and the order exists (`OrderExists`, by counting),
  and in it each hypothesis is at its place (`OrderedPlaces`, `PlaceCounts`).
- `MergeIsOrderFree` rests on two lemmas about `_merge_records`: where the arguments agree
  an identifier means what any of them says (`MergedValue`), hence lists that say the same
  of the same identifiers have the same merge (`SameMerge`). A permutation says the same
  (`PermutedMerge`, a permutation of finitely many places reaches every place), and so do
  a first part's merge and the rest (`PartsMerge`).

`ProvidedAssumption` (the arguments are valid) is what the type of the arguments
guarantees: they are instances that were validated when they were made.
Of `EveryCallIsAnswered` the part that needs no fairness is proved: whoever holds the
lock or the server's thread is on its way (`NobodyHoldsOn`: `LockInv`, `ServedInv`), and
each step brings a call or a connection nearer its answer (`EveryStepIsForward`), so that
waiting is for something that ends after a bounded number of steps. That those steps are taken,
and that a waiting call then gets the lock, is TLC's.

**Also met**, without a statement to the contrary: a `ValueError` of the model
itself is answered as a bad request (400); the merged evidence is not validated
again (`model_validate` takes an instance as it is), which is harmless as long as
the arguments are valid, as `MergeIsOrderFree` shows.

## 10. Plan

Done: the pod job queue, the session runner with gates and consensus, the GPU session,
the pod validation and the bootstrap, with their inductive invariants and refinements;
the event route, the composition of version 2 and the four evidence services, with the
invariants of each. Every invariant, every action property and every refinement that a
run checks is a theorem; what is left to TLC is liveness.

Left, most important first.

1. A composition of the pod queue with the GPU session, so that a job's way is one
   behaviour from `submit` to its answer. Each side already models the other as any
   behaviour of it (`handle_job` may return, raise or hang; callers call at any
   time), so that the composition adds no case.
2. The plan of `incident_updates.py`, as a function checked over bounded inputs.
## 11. Mutants

Each property of a passing run has a mutant: a variant of one action with a
plausible bug (`Cancel_running`, `Release_onSuccess`, ...), defined next to the
action it replaces. With the variant in the action's place, TLC finds the property
violated under the run's own configuration.

## 12. What is only model-checked, and what is not modelled

Eight properties are checked by TLC only, all of them liveness: `EveryJobSettles`,
`SessionEnds`, `EveryRequestEnds`, `AcceptedSettles`, `EveryBootEnds`, `EveryCallIsAnswered`
and `EveryRequestIsAnswered` (of the queue and of the validation). They rest on fairness, hence
on ENABLED, which the installed provers do not handle. Of each the part without fairness is
proved for every value of the constants: who waits waits for somebody who is under way, and
what is under way has a bounded number of steps left (`SessionIsFinite`, `JobsComeNearer`,
`CallsComeToAnEnd`, `RequestsComeToAnEnd`, `BootsComeToAnEnd`, `EveryStepIsForward`). That
those steps are taken is what TLC adds. The induction theorems of the library take an operator
as a parameter, which these provers cannot instantiate; where a proof needs a least or a last
element, or that a permutation reaches every place, it counts instead (`FS_Injection`: an
injection between sets of one size reaches all of it).

Not modelled:

- the vendored packages (contracts, vision runtime, evidence ingestion,
  geolocation), of which only what `src/` relies on appears, marked *external* in the
  map;
- `incident_updates.py`, `corpus_event.py`: one pass from a validated record to
  another, without state, calls or failures in between;
- `managed_costs.py`: a price list and sums of decimals over one scenario, without
  state;
- `security.py`, `seccomp_probe.py` and the settings of every service: parsing of the
  environment and of HTTP headers;
- build tools and image building.

`PROJECT.json` lists every component with its status.
