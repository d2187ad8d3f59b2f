------------------------------ MODULE Bootstrap ------------------------------
(***************************************************************************)
(* bootstrap.py: what a container does before its worker runs.  Several    *)
(* pods, possibly configured for different model stacks, share one volume: *)
(* each fills the model cache if it has to, takes the models away from the *)
(* network broker, starts the research sandbox and becomes the worker.     *)
(*                                                                         *)
(* Only the filling is done under the lock of the volume.  The cache is    *)
(* first looked at without it, and the permissions are never under it.     *)
(***************************************************************************)
EXTENDS Naturals, FiniteSets

CONSTANTS
    Pods,           \* the pods that mount the volume
    Models,         \* what a stack may need: snapshots and spatial assets
    Spatial,        \* the spatial assets among them
    Stacks,         \* the sets of models a pod may be configured for
    Needs,          \* Needs[s]: the models of stack s
    Configs,        \* how a pod may be started
    NoStack,        \* no stack: no manifest, no marker
    Torn,           \* a marker that is being written
    NoModel,        \* no model
    Free,           \* nobody holds the lock
    MaxCrashes      \* bound on the crashes

Mode == {"serverless", "pod", "pod_validation"}

ASSUME ConstantsAssumption ==
    /\ Spatial \subseteq Models
    /\ Needs \in [Stacks -> SUBSET Models]
    /\ Configs \subseteq [stack : Stacks, mode : Mode, research : BOOLEAN, prefetch : BOOLEAN]
    /\ NoStack \notin Stacks /\ Torn \notin Stacks \cup {NoStack}
    /\ NoModel \notin Models
    /\ Free \notin Pods
    /\ MaxCrashes \in Nat

VARIABLES
    snapshot,   \* the files of each model
    open,       \* the models with a file the broker's user could read
    manifest,   \* firewarning-model-cache.json: the stack it lists
    marker,     \* .firewarning-model-permissions-v2.json: the stack it vouches for
    lock,       \* the pod that holds the lock of the volume
    brokers,    \* is the group of the volume one of the broker's?
    pc,         \* where each pod is
    config,     \* how it was started
    rest,       \* the models its loop has not come to
    item,       \* the model it downloads
    fingerprint,\* the manifest it read before it secured the models
    children,   \* its research children that run, told to end or not
    stage,      \* what its status server shows; "none": it has none
    crashes     \* the number of crashes so far

fileVars == <<snapshot, open>>
volumeVars == <<fileVars, manifest, marker, lock, brokers>>
loopVars == <<rest, item, fingerprint>>
vars == <<volumeVars, pc, config, loopVars, children, stage, crashes>>

Provisioning == {"recheck", "download", "fetch", "final"}
Sandbox == {"broker", "brokerSocket", "probe", "researchSocket",
            "stopResearch", "stopBroker"}
Step == {"down", "validate", "check", "lock"} \cup Provisioning
        \cup {"fingerprint", "marker", "walk", "mark"} \cup Sandbox
        \cup {"launch", "worker", "abandon", "hold"}
Stage == {"none", "validating_runtime", "provisioning_models", "securing_model_storage",
          "starting_research_sandbox", "launching_worker", "failed"}

Sandboxed == {"broker", "research"}
Told == [broker |-> "ending broker", research |-> "ending research"]
Child == Sandboxed \cup {Told[child] : child \in Sandboxed}

Mine(p) == Needs[config[p].stack]
Goto(p, step) == pc' = [pc EXCEPT ![p] = step]
Show(p, s) == stage' = [stage EXCEPT ![p] = IF @ = "none" THEN @ ELSE s]
\* Variant with a bug: a lock file that is not removed on the way out.
Released_never(p) == lock
Released(p) == IF lock = p THEN Free ELSE lock

Forgets(p) == /\ rest' = [rest EXCEPT ![p] = {}]
              /\ item' = [item EXCEPT ![p] = NoModel]
-----------------------------------------------------------------------------
(* model_provisioning.                                                     *)

\* _snapshot_weight_files: any weight file will do.  A spatial asset is there
\* with its exact size or not at all.
HasWeights(m) == IF m \in Spatial THEN snapshot[m] = "complete"
                                  ELSE snapshot[m] # "absent"

\* Variant with a bug: weights are enough.
Ready_weights(p) == \A m \in Mine(p) : HasWeights(m)

\* cache_status: the manifest, then the weights; both are only added to.
Ready(p) == /\ manifest = config[p].stack
            /\ \A m \in Mine(p) : HasWeights(m)

\* Variant with a bug: a snapshot with weights is not asked for its entry.
Marked_any(m) == TRUE

\* An entry of the manifest; a spatial asset is verified by itself.
Marked(m) == m \in Spatial \/ (manifest # NoStack /\ m \in Needs[manifest])
-----------------------------------------------------------------------------
Init == /\ snapshot = [m \in Models |-> "absent"]
        /\ open = {}
        /\ manifest = NoStack
        /\ marker = NoStack
        /\ lock = Free
        /\ brokers \in BOOLEAN
        /\ pc = [p \in Pods |-> "down"]
        /\ config \in [Pods -> Configs]
        /\ rest = [p \in Pods |-> {}]
        /\ item = [p \in Pods |-> NoModel]
        /\ fingerprint = [p \in Pods |-> NoStack]
        /\ children = [p \in Pods |-> {}]
        /\ stage = [p \in Pods |-> "none"]
        /\ crashes = 0

\* A container starts, perhaps with a new image; a pod serves its status.
Start(p, c) ==
    /\ pc[p] = "down"
    /\ Goto(p, "validate")
    /\ config' = [config EXCEPT ![p] = c]
    /\ stage' = [stage EXCEPT ![p] = IF c.mode = "pod" THEN "validating_runtime" ELSE "none"]
    /\ UNCHANGED <<volumeVars, loopVars, children, crashes>>

\* An unknown mode, or a port that is taken: nobody is shown anything.
StartFails(p, c) ==
    /\ pc[p] = "down"
    /\ Goto(p, "abandon")
    /\ config' = [config EXCEPT ![p] = c]
    /\ UNCHANGED <<volumeVars, loopVars, children, stage, crashes>>

\* report_runtime_dependencies.
Validate(p) == /\ pc[p] = "validate"
               /\ Goto(p, "check")
               /\ Show(p, "provisioning_models")
               /\ UNCHANGED <<volumeVars, config, loopVars, children, crashes>>
-----------------------------------------------------------------------------
(* ensure_model_cache.                                                     *)

CheckCache(p) ==
    /\ pc[p] = "check"
    /\ Goto(p, IF Ready(p) THEN "fingerprint"
               ELSE IF config[p].prefetch THEN "lock" ELSE "abandon")
    /\ IF Ready(p) THEN Show(p, "securing_model_storage") ELSE UNCHANGED stage
    /\ UNCHANGED <<volumeVars, config, loopVars, children, crashes>>

Acquire(p) == /\ pc[p] = "lock"
              /\ lock = Free
              /\ lock' = p
              /\ Goto(p, "recheck")
              /\ UNCHANGED <<fileVars, manifest, marker, brokers, config, loopVars,
                             children, stage, crashes>>

\* Another pod may have filled the cache in the meantime.
FoundReady(p) == /\ pc[p] = "recheck"
                 /\ Ready(p)
                 /\ lock' = Free
                 /\ Goto(p, "fingerprint")
                 /\ Show(p, "securing_model_storage")
                 /\ UNCHANGED <<fileVars, manifest, marker, brokers, config, loopVars,
                                children, crashes>>

\* provision_model_cache goes through its models.
Provision(p) == /\ pc[p] = "recheck"
                /\ ~Ready(p)
                /\ rest' = [rest EXCEPT ![p] = Mine(p)]
                /\ Goto(p, "download")
                /\ UNCHANGED <<volumeVars, config, item, fingerprint, children, stage,
                               crashes>>

Skip(p, m) == /\ pc[p] = "download"
              /\ m \in rest[p]
              /\ Marked(m) /\ HasWeights(m)
              /\ rest' = [rest EXCEPT ![p] = @ \ {m}]
              /\ UNCHANGED <<volumeVars, pc, config, item, fingerprint, children, stage,
                             crashes>>

\* The first files of a snapshot are there long before the last.  A spatial
\* asset is downloaded beside its place.  What is complete is left alone.
Download(p, m) ==
    /\ pc[p] = "download"
    /\ m \in rest[p]
    /\ ~(Marked(m) /\ HasWeights(m))
    /\ item' = [item EXCEPT ![p] = m]
    /\ Goto(p, "fetch")
    /\ snapshot' = [snapshot EXCEPT ![m] = IF m \notin Spatial /\ @ = "absent"
                                           THEN "partial" ELSE @]
    /\ open' = IF snapshot[m] = "complete" THEN open ELSE open \cup {m}
    /\ UNCHANGED <<manifest, marker, lock, brokers, config, rest, fingerprint, children,
                   stage, crashes>>

Fetched(p) ==
    LET m == item[p] IN
    /\ pc[p] = "fetch"
    /\ snapshot' = [snapshot EXCEPT ![m] = "complete"]
    /\ open' = IF snapshot[m] = "complete" THEN open ELSE open \cup {m}
    /\ rest' = [rest EXCEPT ![p] = @ \ {m}]
    /\ item' = [item EXCEPT ![p] = NoModel]
    /\ Goto(p, "download")
    /\ UNCHANGED <<manifest, marker, lock, brokers, config, fingerprint, children, stage,
                   crashes>>

\* The manifest is written beside its place and then put there, last of all.
Publish(p) == /\ pc[p] = "download"
              /\ rest[p] = {}
              /\ manifest' = config[p].stack
              /\ Goto(p, "final")
              /\ UNCHANGED <<fileVars, marker, lock, brokers, config, loopVars, children,
                             stage, crashes>>

FinalCheck(p) ==
    /\ pc[p] = "final"
    /\ lock' = Free
    /\ Goto(p, IF Ready(p) THEN "fingerprint" ELSE "abandon")
    /\ IF Ready(p) THEN Show(p, "securing_model_storage") ELSE UNCHANGED stage
    /\ UNCHANGED <<fileVars, manifest, marker, brokers, config, loopVars, children, crashes>>
-----------------------------------------------------------------------------
(* secure_model_storage: without the lock.                                 *)

\* What comes after the models are secured.
Proceed(p) ==
    LET sandbox == config[p].mode # "pod_validation" /\ config[p].research IN
    /\ Goto(p, IF sandbox THEN "broker" ELSE "launch")
    /\ Show(p, IF sandbox THEN "starting_research_sandbox" ELSE "launching_worker")

ReadManifest(p) == /\ pc[p] = "fingerprint"
                   /\ fingerprint' = [fingerprint EXCEPT ![p] = manifest]
                   /\ Goto(p, "marker")
                   /\ UNCHANGED <<volumeVars, config, rest, item, children, stage, crashes>>

\* Variant with a bug: any marker will do.
TrustMarker_any(p) == /\ pc[p] = "marker"
                      /\ marker \in Stacks
                      /\ ~brokers
                      /\ Proceed(p)
                      /\ UNCHANGED <<volumeVars, config, loopVars, children, crashes>>

\* The marker vouches for this very manifest; its groups are looked at again.
TrustMarker(p) == /\ pc[p] = "marker"
                  /\ marker = fingerprint[p]
                  /\ ~brokers
                  /\ Proceed(p)
                  /\ UNCHANGED <<volumeVars, config, loopVars, children, crashes>>

\* No marker, a torn one, or one for another manifest.
Walk(p) == /\ pc[p] = "marker"
           /\ marker # fingerprint[p]
           /\ rest' = [rest EXCEPT ![p] = Models]
           /\ Goto(p, "walk")
           /\ UNCHANGED <<volumeVars, config, item, fingerprint, children, stage, crashes>>

Secure(p, m) == /\ pc[p] = "walk"
                /\ m \in rest[p]
                /\ rest' = [rest EXCEPT ![p] = @ \ {m}]
                /\ open' = open \ {m}
                /\ UNCHANGED <<snapshot, manifest, marker, lock, brokers, pc, config, item,
                               fingerprint, children, stage, crashes>>

\* _assert_broker_cannot_read_models.
GroupIsBrokers(p) == /\ \/ pc[p] = "marker" /\ marker = fingerprint[p]
                        \/ pc[p] = "walk" /\ rest[p] = {}
                     /\ brokers
                     /\ Goto(p, "abandon")
                     /\ Forgets(p)
                     /\ UNCHANGED <<volumeVars, config, fingerprint, children, stage,
                                    crashes>>

\* The marker is opened, which empties it, and then written.
OpenMarker(p) == /\ pc[p] = "walk"
                 /\ rest[p] = {}
                 /\ ~brokers
                 /\ marker' = Torn
                 /\ Goto(p, "mark")
                 /\ UNCHANGED <<fileVars, manifest, lock, brokers, config, loopVars, children,
                                stage, crashes>>

\* Variant with a bug: the marker names the manifest of the moment.
WriteMarker_current(p) ==
    /\ pc[p] = "mark"
    /\ marker' = manifest
    /\ Proceed(p)
    /\ UNCHANGED <<fileVars, manifest, lock, brokers, config, loopVars, children, crashes>>

WriteMarker(p) == /\ pc[p] = "mark"
                  /\ marker' = fingerprint[p]
                  /\ Proceed(p)
                  /\ UNCHANGED <<fileVars, manifest, lock, brokers, config, loopVars,
                                 children, crashes>>
-----------------------------------------------------------------------------
(* start_research_runtime, and the end of main.                            *)

Spawn(p, from, child, to) ==
    /\ pc[p] = from
    /\ children' = [children EXCEPT ![p] = @ \cup {child}]
    /\ Goto(p, to)
    /\ UNCHANGED <<volumeVars, config, loopVars, stage, crashes>>

StartBroker(p) == Spawn(p, "broker", "broker", "brokerSocket")

\* _wait_for_socket and the probe succeed, or raise.
BrokerListens(p) == /\ pc[p] = "brokerSocket"
                    /\ \/ Goto(p, "probe")
                       \/ Goto(p, "stopBroker")
                    /\ UNCHANGED <<volumeVars, config, loopVars, children, stage, crashes>>

ProbePasses(p) == Spawn(p, "probe", "research", "researchSocket")

ProbeFails(p) == /\ pc[p] = "probe"
                 /\ Goto(p, "stopBroker")
                 /\ UNCHANGED <<volumeVars, config, loopVars, children, stage, crashes>>

ResearchListens(p) == /\ pc[p] = "researchSocket"
                      /\ Goto(p, "launch")
                      /\ Show(p, "launching_worker")
                      /\ UNCHANGED <<volumeVars, config, loopVars, children, crashes>>

ResearchFails(p) == /\ pc[p] = "researchSocket"
                    /\ Goto(p, "stopResearch")
                    /\ UNCHANGED <<volumeVars, config, loopVars, children, stage, crashes>>

\* A child is told to end.  If it runs on, the wait raises after five seconds,
\* out of the except clause.
Stop(p, from, child, to) ==
    /\ pc[p] = from
    /\ \E left \in {{}, {Told[child]}} :
         children' = [children EXCEPT ![p] = (@ \ {child}) \cup left]
    /\ Goto(p, to)
    /\ UNCHANGED <<volumeVars, config, loopVars, stage, crashes>>

\* Variant with a bug: a wait that raises leaves the outer clause as well.
StopResearch_escapes(p) == \/ /\ Stop(p, "stopResearch", "research", "stopBroker")
                              /\ Told["research"] \notin children'[p]
                           \/ /\ Stop(p, "stopResearch", "research", "abandon")
                              /\ Told["research"] \in children'[p]

\* A wait that raises leaves the inner clause for the outer one.
StopResearch(p) == Stop(p, "stopResearch", "research", "stopBroker")
StopBroker(p) == Stop(p, "stopBroker", "broker", "abandon")

\* Privileges are dropped and the worker takes the process over: the status
\* server goes with it.
Launch(p) == /\ pc[p] = "launch"
             /\ Goto(p, "worker")
             /\ stage' = [stage EXCEPT ![p] = "none"]
             /\ UNCHANGED <<volumeVars, config, loopVars, children, crashes>>

\* What may raise: the checks of the runtime, the files of the volume (a walk
\* also meets files that another pod's download moves), the network, the users.
Raise(p) ==
    /\ pc[p] \in {"validate", "lock", "download", "fetch", "fingerprint", "walk", "mark",
                  "broker", "launch"}
    /\ Goto(p, "abandon")
    /\ lock' = Released(p)
    /\ Forgets(p)
    /\ UNCHANGED <<fileVars, manifest, marker, brokers, config, fingerprint, children, stage,
                   crashes>>

\* The container is gone, with its lock and its children.
Gone(p) == /\ Goto(p, "down")
           /\ lock' = Released(p)
           /\ Forgets(p)
           /\ fingerprint' = [fingerprint EXCEPT ![p] = NoStack]
           /\ children' = [children EXCEPT ![p] = {}]
           /\ stage' = [stage EXCEPT ![p] = "none"]
           /\ UNCHANGED <<fileVars, manifest, marker, brokers, config>>

\* The except clause of main: a pod shows its failure for a while.
Hold(p) == /\ pc[p] = "abandon"
           /\ stage[p] # "none"
           /\ Goto(p, "hold")
           /\ Show(p, "failed")
           /\ UNCHANGED <<volumeVars, config, loopVars, children, crashes>>

Exit(p) == /\ \/ pc[p] = "abandon" /\ stage[p] = "none"
              \/ pc[p] = "hold"
           /\ Gone(p)
           /\ UNCHANGED crashes

\* A worker ends, and its pod may be started again.
Leave(p) == /\ pc[p] = "worker"
            /\ Gone(p)
            /\ UNCHANGED crashes

Crash(p) == /\ pc[p] \notin {"down", "worker"}
            /\ crashes < MaxCrashes
            /\ crashes' = crashes + 1
            /\ Gone(p)
-----------------------------------------------------------------------------
\* Everything a boot does by itself, but for the lock and the downloads.
Boot(p) == \/ Validate(p) \/ CheckCache(p) \/ FoundReady(p) \/ Provision(p)
           \/ \E m \in Models : Skip(p, m) \/ Download(p, m) \/ Secure(p, m)
           \/ Publish(p) \/ FinalCheck(p)
           \/ ReadManifest(p) \/ TrustMarker(p) \/ Walk(p) \/ GroupIsBrokers(p)
           \/ OpenMarker(p) \/ WriteMarker(p)
           \/ StartBroker(p) \/ BrokerListens(p) \/ ProbePasses(p) \/ ProbeFails(p)
           \/ ResearchListens(p) \/ ResearchFails(p) \/ StopResearch(p) \/ StopBroker(p)
           \/ Launch(p) \/ Hold(p) \/ Exit(p)

Next == \E p \in Pods :
            \/ \E c \in Configs : Start(p, c) \/ StartFails(p, c)
            \/ Boot(p) \/ Acquire(p) \/ Fetched(p) \/ Raise(p) \/ Leave(p) \/ Crash(p)

Spec == Init /\ [][Next]_vars

\* A boot goes on, and the kernel hands a lock that is freed again and again to
\* everyone who waits.  Nothing is fair about downloads, failures and starts.
FairSpec == /\ Spec
            /\ \A p \in Pods : WF_vars(Boot(p)) /\ SF_vars(Acquire(p))

DownloadsEnd == \A p \in Pods : WF_vars(Fetched(p))
-----------------------------------------------------------------------------
(* Properties.                                                             *)

TypeOK ==
    /\ snapshot \in [Models -> {"absent", "partial", "complete"}]
    /\ open \in SUBSET Models
    /\ manifest \in Stacks \cup {NoStack}
    /\ marker \in Stacks \cup {NoStack, Torn}
    /\ lock \in Pods \cup {Free}
    /\ brokers \in BOOLEAN
    /\ pc \in [Pods -> Step]
    /\ config \in [Pods -> Configs]
    /\ rest \in [Pods -> SUBSET Models]
    /\ item \in [Pods -> Models \cup {NoModel}]
    /\ fingerprint \in [Pods -> Stacks \cup {NoStack}]
    /\ children \in [Pods -> SUBSET Child]
    /\ stage \in [Pods -> Stage]
    /\ crashes \in 0 .. MaxCrashes

Complete(m) == snapshot[m] = "complete"

\* The manifest vouches for a complete stack, whoever crashed in the middle of a
\* download and whatever stack was in the cache before.
Vouched(s) == \A m \in Needs[s] : Complete(m)
ManifestIsTrue == manifest # NoStack => Vouched(manifest)

\* The marker vouches for secured models, although it is written without the
\* lock, by several pods, for manifests that change in the meantime.
Sealed(s) == Needs[s] \cap open = {}
MarkerIsTrue == marker \in Stacks => Vouched(marker) /\ Sealed(marker)

\* A research child and a worker run only beside a complete stack of their own and
\* after the models of the manifest that was read were taken from the broker, by
\* this pod or by the one that left the marker; both stay true.
Safe(p) == children[p] # {} \/ pc[p] \in Sandbox \cup {"launch", "worker"} =>
               /\ Vouched(config[p].stack)
               /\ fingerprint[p] \in Stacks
               /\ Vouched(fingerprint[p]) /\ Sealed(fingerprint[p])
               /\ ~brokers
OnlySafePodsGoOn == \A p \in Pods : Safe(p)

\* secure_model_storage: "Keep weights readable by inference users and
\* inaccessible to the broker user".  The manifest is read after the lock was
\* left: if it is another stack's by then, the models of the pod may be open.
OwnModelsAreSealed ==
    \A p \in Pods : pc[p] = "worker" => Sealed(config[p].stack)

\* Whichever step of the sandbox fails, and whether or not its children end when
\* they are told to, a boot that gives up has told each child it started: one
\* that was not belongs to a sandbox that stood, before the launch failed.
Live(p) == children[p] \cap Sandboxed
NoChildIsForgotten ==
    \A p \in Pods : pc[p] \in {"abandon", "hold"} => Live(p) \in {{}, Sandboxed}

\* Every boot ends in a worker or in an exit if the downloads end, and no pod
\* waits for ever for one that failed or crashed while it held the lock.
EveryBootEnds ==
    DownloadsEnd => \A p \in Pods : pc[p] \notin {"down", "worker"}
                                        ~> pc[p] \in {"down", "worker"}

\* Pods, lock, manifest and marker implement the promise of SharedCache.
Cache == INSTANCE SharedCache WITH
    have    <- {m \in Models : Complete(m)},
    sealed  <- {m \in Models : Complete(m)} \ open,
    serving <- [p \in Pods |-> IF pc[p] = "worker" THEN config[p].stack ELSE NoStack]
ImplementsSharedCache == Cache!Spec

\* What makes the properties above inductive: the lock is with the pod that
\* provisions, ...
Locks(p) == /\ lock = p <=> pc[p] \in Provisioning
            /\ pc[p] \in {"download", "fetch"} => rest[p] \subseteq Mine(p)
            /\ pc[p] = "fetch" => item[p] \in rest[p]
\* ... a loop leaves what it promises behind it, ...
Handled(p) ==
    /\ pc[p] \in {"download", "fetch"} => \A m \in Mine(p) \ rest[p] : Complete(m)
    /\ pc[p] = "final" => manifest = config[p].stack
    /\ pc[p] \in {"fingerprint", "marker", "walk", "mark"} => Vouched(config[p].stack)
    /\ pc[p] = "fingerprint" => manifest # NoStack
    /\ pc[p] \in {"marker", "walk", "mark"} =>
           fingerprint[p] \in Stacks /\ Vouched(fingerprint[p])
    /\ pc[p] \in {"walk", "mark"} =>
           \A m \in Needs[fingerprint[p]] \ rest[p] : m \notin open
    /\ pc[p] = "mark" => rest[p] = {} /\ ~brokers
\* ... and the status server shows a failure when and only when there is one;
\* children are not there before the sandbox.
Shows(p) == /\ stage[p] = "failed" <=> pc[p] = "hold"
            /\ pc[p] \in {"down", "worker"} => stage[p] = "none"
            /\ children[p] # {} => pc[p] \in Sandbox \cup {"launch", "worker", "abandon", "hold"}

\* ... and the children are those the place calls for.
Kept(p) ==
    /\ pc[p] = "broker" => Live(p) = {}
    /\ pc[p] \in {"brokerSocket", "probe", "stopBroker"} => Live(p) = {"broker"}
    /\ pc[p] \in {"researchSocket", "stopResearch"} => Live(p) = Sandboxed
    /\ pc[p] \in {"launch", "worker", "abandon", "hold"} => Live(p) \in {{}, Sandboxed}

Right(p) == Kept(p) /\ Locks(p) /\ Handled(p) /\ Shows(p) /\ Safe(p)

IInv == /\ TypeOK
        /\ ManifestIsTrue
        /\ MarkerIsTrue
        /\ \A p \in Pods : Right(p)
=============================================================================
