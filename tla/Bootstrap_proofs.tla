-------------------------- MODULE Bootstrap_proofs --------------------------
(***************************************************************************)
(* Bootstrap for any number of pods, stacks and models: what the manifest  *)
(* and the marker say is true, and no pod goes on without it.              *)
(*                                                                         *)
(* A pod that does not move stays right because models are only completed, *)
(* completed models are only sealed, and the manifest is only replaced by  *)
(* the pod that holds the lock.  So each action needs its own pod only.    *)
(***************************************************************************)
EXTENDS Bootstrap, TLAPS

\* Nothing of pod q is touched.
Still(q) == /\ pc'[q] = pc[q] /\ config'[q] = config[q] /\ rest'[q] = rest[q]
            /\ item'[q] = item[q] /\ fingerprint'[q] = fingerprint[q]
            /\ children'[q] = children[q] /\ stage'[q] = stage[q]
            /\ (lock' = q <=> lock = q)

\* Models are completed and sealed, never the other way round.
Grows == \A m \in Models : /\ Complete(m) => Complete(m)'
                           /\ Complete(m) /\ m \notin open => m \notin open'

\* A pod that does not move stays right while models grow, and the manifest is
\* replaced, if at all, by somebody else who holds the lock.
LEMMA OthersStayRight ==
    ASSUME TypeOK, TypeOK', NEW q \in Pods, Right(q), Still(q), Grows, brokers' = brokers,
           \/ manifest' = manifest
           \/ manifest' \in Stacks /\ lock # q
    PROVE  Right(q)'
<1>1. Needs[config[q].stack] \subseteq Models /\ config[q].stack \in Stacks
  BY ConstantsAssumption DEF TypeOK
<1>2. \A s \in Stacks : Needs[s] \subseteq Models
  BY ConstantsAssumption
<1>3. \A s \in Stacks : Vouched(s) => Vouched(s)'
  BY <1>2 DEF Vouched, Grows
<1>4. \A s \in Stacks : Vouched(s) /\ Sealed(s) => Sealed(s)'
  BY <1>2 DEF Vouched, Sealed, Grows
<1>5. Locks(q)'
  BY DEF Locks, Right, Still, Mine
<1>6. Shows(q)'
  BY DEF Shows, Right, Still
<1>7. Handled(q)'
  BY <1>1, <1>2, <1>3, ConstantsAssumption
     DEF Handled, Right, Still, Mine, Locks, Grows, Provisioning, Vouched
<1>8. Safe(q)'
  BY <1>1, <1>3, <1>4, ConstantsAssumption DEF Safe, Right, Still
<1>9. Kept(q)'
  BY DEF Kept, Live, Right, Still
<1> QED
  BY <1>5, <1>6, <1>7, <1>8, <1>9 DEF Right

\* A step that leaves the files, the manifest and the marker alone.
LEMMA QuietStep ==
    ASSUME IInv, NEW p \in Pods, TypeOK', Right(p)',
           UNCHANGED <<fileVars, manifest, marker, brokers>>,
           \A q \in Pods \ {p} : Still(q)
    PROVE  IInv'
<1>1. Grows /\ ManifestIsTrue' /\ MarkerIsTrue'
  BY DEF Grows, IInv, ManifestIsTrue, MarkerIsTrue, Vouched, Sealed, Complete, fileVars
<1>2. \A q \in Pods \ {p} : Right(q)'
  BY <1>1, OthersStayRight DEF IInv
<1> QED
  BY <1>1, <1>2 DEF IInv

\* What a pod that is right needs to know of its constants.
LEMMA Stacked ==
    ASSUME TypeOK, NEW p \in Pods
    PROVE  /\ config[p].stack \in Stacks
           /\ Mine(p) \subseteq Models
           /\ NoStack \notin Stacks /\ Free \notin Pods /\ NoModel \notin Models
           /\ Torn \notin Stacks \cup {NoStack}
           /\ \A s \in Stacks : Needs[s] \subseteq Models
  BY ConstantsAssumption DEF TypeOK, Mine
-----------------------------------------------------------------------------
(* One lemma per action.                                                   *)

LEMMA StartRight ==
    ASSUME IInv, NEW p \in Pods, NEW c \in Configs, Start(p, c)
    PROVE  IInv'
<1>0. TypeOK /\ Right(p)
  BY DEF IInv
<1> USE <1>0, Stacked
<1> USE DEF Goto, Show, Step, Stage, volumeVars, fileVars, loopVars, Start
<1>1. TypeOK'
  BY ConstantsAssumption DEF TypeOK, Provisioning, Sandbox
<1>2. \A q \in Pods \ {p} : Still(q)
  BY DEF TypeOK, Still
<1>3. Locks(p)'
  BY DEF TypeOK, Right, Locks, Provisioning, Sandbox, Mine
<1>4. Handled(p)'
  BY DEF TypeOK, Right, Handled, Locks, Provisioning, Sandbox, Mine, Vouched, Complete
<1>5. Shows(p)'
  BY DEF TypeOK, Right, Shows, Provisioning, Sandbox
<1>6. Safe(p)'
  BY DEF TypeOK, Right, Safe, Shows, Handled, Sandbox, Vouched, Sealed, Complete, Mine
<1>11. Kept(p)'
  BY DEF TypeOK, Right, Kept, Shows, Live, Sandboxed, Sandbox, Provisioning
<1> QED
  BY <1>11, <1>1, <1>2, <1>3, <1>4, <1>5, <1>6, QuietStep DEF Right

LEMMA StartFailsRight ==
    ASSUME IInv, NEW p \in Pods, NEW c \in Configs, StartFails(p, c)
    PROVE  IInv'
<1>0. TypeOK /\ Right(p)
  BY DEF IInv
<1> USE <1>0, Stacked
<1> USE DEF Goto, Show, Step, Stage, volumeVars, fileVars, loopVars, StartFails
<1>1. TypeOK'
  BY ConstantsAssumption DEF TypeOK, Provisioning, Sandbox
<1>2. \A q \in Pods \ {p} : Still(q)
  BY DEF TypeOK, Still
<1>3. Locks(p)'
  BY DEF TypeOK, Right, Locks, Provisioning, Sandbox, Mine
<1>4. Handled(p)'
  BY DEF TypeOK, Right, Handled, Locks, Provisioning, Sandbox, Mine, Vouched, Complete
<1>5. Shows(p)'
  BY DEF TypeOK, Right, Shows, Provisioning, Sandbox
<1>6. Safe(p)'
  BY DEF TypeOK, Right, Safe, Shows, Handled, Sandbox, Vouched, Sealed, Complete, Mine
<1>11. Kept(p)'
  BY DEF TypeOK, Right, Kept, Shows, Live, Sandboxed, Sandbox, Provisioning
<1> QED
  BY <1>11, <1>1, <1>2, <1>3, <1>4, <1>5, <1>6, QuietStep DEF Right

LEMMA ValidateRight ==
    ASSUME IInv, NEW p \in Pods, Validate(p)
    PROVE  IInv'
<1>0. TypeOK /\ Right(p)
  BY DEF IInv
<1> USE <1>0, Stacked
<1> USE DEF Goto, Show, Step, Stage, volumeVars, fileVars, loopVars, Validate
<1>1. TypeOK'
  BY ConstantsAssumption DEF TypeOK, Provisioning, Sandbox
<1>2. \A q \in Pods \ {p} : Still(q)
  BY DEF TypeOK, Still
<1>3. Locks(p)'
  BY DEF TypeOK, Right, Locks, Provisioning, Sandbox, Mine
<1>4. Handled(p)'
  BY DEF TypeOK, Right, Handled, Locks, Provisioning, Sandbox, Mine, Vouched, Complete
<1>5. Shows(p)'
  BY DEF TypeOK, Right, Shows, Provisioning, Sandbox
<1>6. Safe(p)'
  BY DEF TypeOK, Right, Safe, Shows, Handled, Sandbox, Vouched, Sealed, Complete, Mine
<1>11. Kept(p)'
  BY DEF TypeOK, Right, Kept, Shows, Live, Sandboxed, Sandbox, Provisioning
<1> QED
  BY <1>11, <1>1, <1>2, <1>3, <1>4, <1>5, <1>6, QuietStep DEF Right

LEMMA CheckCacheRight ==
    ASSUME IInv, NEW p \in Pods, CheckCache(p)
    PROVE  IInv'
<1>0. TypeOK /\ Right(p)
  BY DEF IInv
<1> USE <1>0, Stacked
<1> USE DEF Goto, Show, Step, Stage, volumeVars, fileVars, loopVars, CheckCache
<1>1. TypeOK'
  BY ConstantsAssumption DEF TypeOK, Provisioning, Sandbox
<1>2. \A q \in Pods \ {p} : Still(q)
  BY DEF TypeOK, Still
<1>3. Locks(p)'
  BY DEF TypeOK, Right, Locks, Provisioning, Sandbox, Mine
<1>4. Handled(p)'
  BY DEF TypeOK, Right, Handled, Locks, Provisioning, Sandbox, Mine, Vouched, Complete, Ready, ManifestIsTrue, IInv
<1>5. Shows(p)'
  BY DEF TypeOK, Right, Shows, Provisioning, Sandbox
<1>6. Safe(p)'
  BY DEF TypeOK, Right, Safe, Shows, Handled, Sandbox, Vouched, Sealed, Complete, Mine, Ready, ManifestIsTrue, IInv
<1>11. Kept(p)'
  BY DEF TypeOK, Right, Kept, Shows, Live, Sandboxed, Sandbox, Provisioning
<1> QED
  BY <1>11, <1>1, <1>2, <1>3, <1>4, <1>5, <1>6, QuietStep DEF Right

LEMMA AcquireRight ==
    ASSUME IInv, NEW p \in Pods, Acquire(p)
    PROVE  IInv'
<1>0. TypeOK /\ Right(p)
  BY DEF IInv
<1> USE <1>0, Stacked
<1> USE DEF Goto, Show, Step, Stage, volumeVars, fileVars, loopVars, Acquire
<1>1. TypeOK'
  BY ConstantsAssumption DEF TypeOK, Provisioning, Sandbox
<1>2. \A q \in Pods \ {p} : Still(q)
  BY DEF TypeOK, Still
<1>3. Locks(p)'
  BY DEF TypeOK, Right, Locks, Provisioning, Sandbox, Mine
<1>4. Handled(p)'
  BY DEF TypeOK, Right, Handled, Locks, Provisioning, Sandbox, Mine, Vouched, Complete
<1>5. Shows(p)'
  BY DEF TypeOK, Right, Shows, Provisioning, Sandbox
<1>6. Safe(p)'
  BY DEF TypeOK, Right, Safe, Shows, Handled, Sandbox, Vouched, Sealed, Complete, Mine
<1>11. Kept(p)'
  BY DEF TypeOK, Right, Kept, Shows, Live, Sandboxed, Sandbox, Provisioning
<1> QED
  BY <1>11, <1>1, <1>2, <1>3, <1>4, <1>5, <1>6, QuietStep DEF Right

LEMMA FoundReadyRight ==
    ASSUME IInv, NEW p \in Pods, FoundReady(p)
    PROVE  IInv'
<1>0. TypeOK /\ Right(p)
  BY DEF IInv
<1> USE <1>0, Stacked
<1> USE DEF Goto, Show, Step, Stage, volumeVars, fileVars, loopVars, FoundReady
<1>1. TypeOK'
  BY ConstantsAssumption DEF TypeOK, Provisioning, Sandbox
<1>2. \A q \in Pods \ {p} : Still(q)
  BY DEF TypeOK, Still, Right, Locks, Provisioning
<1>3. Locks(p)'
  BY DEF TypeOK, Right, Locks, Provisioning, Sandbox, Mine
<1>4. Handled(p)'
  BY DEF TypeOK, Right, Handled, Locks, Provisioning, Sandbox, Mine, Vouched, Complete, Ready, ManifestIsTrue, IInv
<1>5. Shows(p)'
  BY DEF TypeOK, Right, Shows, Provisioning, Sandbox
<1>6. Safe(p)'
  BY DEF TypeOK, Right, Safe, Shows, Handled, Sandbox, Vouched, Sealed, Complete, Mine, Ready, ManifestIsTrue, IInv
<1>11. Kept(p)'
  BY DEF TypeOK, Right, Kept, Shows, Live, Sandboxed, Sandbox, Provisioning
<1> QED
  BY <1>11, <1>1, <1>2, <1>3, <1>4, <1>5, <1>6, QuietStep DEF Right

LEMMA ProvisionRight ==
    ASSUME IInv, NEW p \in Pods, Provision(p)
    PROVE  IInv'
<1>0. TypeOK /\ Right(p)
  BY DEF IInv
<1> USE <1>0, Stacked
<1> USE DEF Goto, Show, Step, Stage, volumeVars, fileVars, loopVars, Provision
<1>1. TypeOK'
  BY ConstantsAssumption DEF TypeOK, Provisioning, Sandbox
<1>2. \A q \in Pods \ {p} : Still(q)
  BY DEF TypeOK, Still
<1>3. Locks(p)'
  BY DEF TypeOK, Right, Locks, Provisioning, Sandbox, Mine
<1>4. Handled(p)'
  BY DEF TypeOK, Right, Handled, Locks, Provisioning, Sandbox, Mine, Vouched, Complete
<1>5. Shows(p)'
  BY DEF TypeOK, Right, Shows, Provisioning, Sandbox
<1>6. Safe(p)'
  BY DEF TypeOK, Right, Safe, Shows, Handled, Sandbox, Vouched, Sealed, Complete, Mine
<1>11. Kept(p)'
  BY DEF TypeOK, Right, Kept, Shows, Live, Sandboxed, Sandbox, Provisioning
<1> QED
  BY <1>11, <1>1, <1>2, <1>3, <1>4, <1>5, <1>6, QuietStep DEF Right

LEMMA SkipRight ==
    ASSUME IInv, NEW p \in Pods, NEW m \in Models, Skip(p, m)
    PROVE  IInv'
<1>0. TypeOK /\ Right(p)
  BY DEF IInv
<1> USE <1>0, Stacked
<1> USE DEF Goto, Show, Step, Stage, volumeVars, fileVars, loopVars, Skip
<1>1. TypeOK'
  BY ConstantsAssumption DEF TypeOK, Provisioning, Sandbox
<1>2. \A q \in Pods \ {p} : Still(q)
  BY DEF TypeOK, Still
<1>3. Locks(p)'
  BY DEF TypeOK, Right, Locks, Provisioning, Sandbox, Mine
<1>4. Handled(p)'
  BY DEF TypeOK, Right, Handled, Locks, Provisioning, Sandbox, Mine, Vouched, Complete, Marked, HasWeights, ManifestIsTrue, IInv
<1>5. Shows(p)'
  BY DEF TypeOK, Right, Shows, Provisioning, Sandbox
<1>6. Safe(p)'
  BY DEF TypeOK, Right, Safe, Shows, Handled, Sandbox, Vouched, Sealed, Complete, Mine, Marked, HasWeights, ManifestIsTrue, IInv
<1>11. Kept(p)'
  BY DEF TypeOK, Right, Kept, Shows, Live, Sandboxed, Sandbox, Provisioning
<1> QED
  BY <1>11, <1>1, <1>2, <1>3, <1>4, <1>5, <1>6, QuietStep DEF Right

LEMMA FinalCheckRight ==
    ASSUME IInv, NEW p \in Pods, FinalCheck(p)
    PROVE  IInv'
<1>0. TypeOK /\ Right(p)
  BY DEF IInv
<1> USE <1>0, Stacked
<1> USE DEF Goto, Show, Step, Stage, volumeVars, fileVars, loopVars, FinalCheck
<1>1. TypeOK'
  BY ConstantsAssumption DEF TypeOK, Provisioning, Sandbox
<1>2. \A q \in Pods \ {p} : Still(q)
  BY DEF TypeOK, Still, Right, Locks, Provisioning
<1>3. Locks(p)'
  BY DEF TypeOK, Right, Locks, Provisioning, Sandbox, Mine
<1>4. Handled(p)'
  BY DEF TypeOK, Right, Handled, Locks, Provisioning, Sandbox, Mine, Vouched, Complete, Ready, ManifestIsTrue, IInv
<1>5. Shows(p)'
  BY DEF TypeOK, Right, Shows, Provisioning, Sandbox
<1>6. Safe(p)'
  BY DEF TypeOK, Right, Safe, Shows, Handled, Sandbox, Vouched, Sealed, Complete, Mine, Ready, ManifestIsTrue, IInv
<1>11. Kept(p)'
  BY DEF TypeOK, Right, Kept, Shows, Live, Sandboxed, Sandbox, Provisioning
<1> QED
  BY <1>11, <1>1, <1>2, <1>3, <1>4, <1>5, <1>6, QuietStep DEF Right

LEMMA ReadManifestRight ==
    ASSUME IInv, NEW p \in Pods, ReadManifest(p)
    PROVE  IInv'
<1>0. TypeOK /\ Right(p)
  BY DEF IInv
<1> USE <1>0, Stacked
<1> USE DEF Goto, Show, Step, Stage, volumeVars, fileVars, loopVars, ReadManifest
<1>1. TypeOK'
  BY ConstantsAssumption DEF TypeOK, Provisioning, Sandbox
<1>2. \A q \in Pods \ {p} : Still(q)
  BY DEF TypeOK, Still
<1>3. Locks(p)'
  BY DEF TypeOK, Right, Locks, Provisioning, Sandbox, Mine
<1>4. Handled(p)'
  BY DEF TypeOK, Right, Handled, Locks, Provisioning, Sandbox, Mine, Vouched, Complete, ManifestIsTrue, IInv
<1>5. Shows(p)'
  BY DEF TypeOK, Right, Shows, Provisioning, Sandbox
<1>6. Safe(p)'
  BY DEF TypeOK, Right, Safe, Shows, Handled, Sandbox, Vouched, Sealed, Complete, Mine, ManifestIsTrue, IInv
<1>11. Kept(p)'
  BY DEF TypeOK, Right, Kept, Shows, Live, Sandboxed, Sandbox, Provisioning
<1> QED
  BY <1>11, <1>1, <1>2, <1>3, <1>4, <1>5, <1>6, QuietStep DEF Right

LEMMA TrustMarkerRight ==
    ASSUME IInv, NEW p \in Pods, TrustMarker(p)
    PROVE  IInv'
<1>0. TypeOK /\ Right(p)
  BY DEF IInv
<1> USE <1>0, Stacked
<1> USE DEF Goto, Show, Step, Stage, volumeVars, fileVars, loopVars, TrustMarker, Proceed
<1>1. TypeOK'
  BY ConstantsAssumption DEF TypeOK, Provisioning, Sandbox
<1>2. \A q \in Pods \ {p} : Still(q)
  BY DEF TypeOK, Still
<1>3. Locks(p)'
  BY DEF TypeOK, Right, Locks, Provisioning, Sandbox, Mine
<1>4. Handled(p)'
  BY DEF TypeOK, Right, Handled, Locks, Provisioning, Sandbox, Mine, Vouched, Complete, MarkerIsTrue, IInv
<1>5. Shows(p)'
  BY DEF TypeOK, Right, Shows, Provisioning, Sandbox
<1>6. Safe(p)'
  BY DEF TypeOK, Right, Safe, Shows, Handled, Sandbox, Vouched, Sealed, Complete, Mine, MarkerIsTrue, IInv
<1>11. Kept(p)'
  BY DEF TypeOK, Right, Kept, Shows, Live, Sandboxed, Sandbox, Provisioning
<1> QED
  BY <1>11, <1>1, <1>2, <1>3, <1>4, <1>5, <1>6, QuietStep DEF Right

LEMMA WalkRight ==
    ASSUME IInv, NEW p \in Pods, Walk(p)
    PROVE  IInv'
<1>0. TypeOK /\ Right(p)
  BY DEF IInv
<1> USE <1>0, Stacked
<1> USE DEF Goto, Show, Step, Stage, volumeVars, fileVars, loopVars, Walk
<1>1. TypeOK'
  BY ConstantsAssumption DEF TypeOK, Provisioning, Sandbox
<1>2. \A q \in Pods \ {p} : Still(q)
  BY DEF TypeOK, Still
<1>3. Locks(p)'
  BY DEF TypeOK, Right, Locks, Provisioning, Sandbox, Mine
<1>4. Handled(p)'
  BY DEF TypeOK, Right, Handled, Locks, Provisioning, Sandbox, Mine, Vouched, Complete
<1>5. Shows(p)'
  BY DEF TypeOK, Right, Shows, Provisioning, Sandbox
<1>6. Safe(p)'
  BY DEF TypeOK, Right, Safe, Shows, Handled, Sandbox, Vouched, Sealed, Complete, Mine
<1>11. Kept(p)'
  BY DEF TypeOK, Right, Kept, Shows, Live, Sandboxed, Sandbox, Provisioning
<1> QED
  BY <1>11, <1>1, <1>2, <1>3, <1>4, <1>5, <1>6, QuietStep DEF Right

LEMMA GroupIsBrokersRight ==
    ASSUME IInv, NEW p \in Pods, GroupIsBrokers(p)
    PROVE  IInv'
<1>0. TypeOK /\ Right(p)
  BY DEF IInv
<1> USE <1>0, Stacked
<1> USE DEF Goto, Show, Step, Stage, volumeVars, fileVars, loopVars, GroupIsBrokers, Forgets
<1>1. TypeOK'
  BY ConstantsAssumption DEF TypeOK, Provisioning, Sandbox
<1>2. \A q \in Pods \ {p} : Still(q)
  BY DEF TypeOK, Still
<1>3. Locks(p)'
  BY DEF TypeOK, Right, Locks, Provisioning, Sandbox, Mine
<1>4. Handled(p)'
  BY DEF TypeOK, Right, Handled, Locks, Provisioning, Sandbox, Mine, Vouched, Complete
<1>5. Shows(p)'
  BY DEF TypeOK, Right, Shows, Provisioning, Sandbox
<1>6. Safe(p)'
  BY DEF TypeOK, Right, Safe, Shows, Handled, Sandbox, Vouched, Sealed, Complete, Mine
<1>11. Kept(p)'
  BY DEF TypeOK, Right, Kept, Shows, Live, Sandboxed, Sandbox, Provisioning
<1> QED
  BY <1>11, <1>1, <1>2, <1>3, <1>4, <1>5, <1>6, QuietStep DEF Right

LEMMA StartBrokerRight ==
    ASSUME IInv, NEW p \in Pods, StartBroker(p)
    PROVE  IInv'
<1>0. TypeOK /\ Right(p)
  BY DEF IInv
<1> USE <1>0, Stacked
<1> USE DEF Goto, Show, Step, Stage, volumeVars, fileVars, loopVars, StartBroker, Spawn, Child, Sandboxed
<1>1. TypeOK'
  BY ConstantsAssumption DEF TypeOK, Provisioning, Sandbox
<1>2. \A q \in Pods \ {p} : Still(q)
  BY DEF TypeOK, Still
<1>3. Locks(p)'
  BY DEF TypeOK, Right, Locks, Provisioning, Sandbox, Mine
<1>4. Handled(p)'
  BY DEF TypeOK, Right, Handled, Locks, Provisioning, Sandbox, Mine, Vouched, Complete
<1>5. Shows(p)'
  BY DEF TypeOK, Right, Shows, Provisioning, Sandbox
<1>6. Safe(p)'
  BY DEF TypeOK, Right, Safe, Shows, Handled, Sandbox, Vouched, Sealed, Complete, Mine
<1>11. Kept(p)'
  BY DEF TypeOK, Right, Kept, Shows, Live, Sandboxed, Sandbox, Provisioning
<1> QED
  BY <1>11, <1>1, <1>2, <1>3, <1>4, <1>5, <1>6, QuietStep DEF Right

LEMMA BrokerListensRight ==
    ASSUME IInv, NEW p \in Pods, BrokerListens(p)
    PROVE  IInv'
<1>0. TypeOK /\ Right(p)
  BY DEF IInv
<1> USE <1>0, Stacked
<1> USE DEF Goto, Show, Step, Stage, volumeVars, fileVars, loopVars, BrokerListens
<1>1. TypeOK'
  BY ConstantsAssumption DEF TypeOK, Provisioning, Sandbox
<1>2. \A q \in Pods \ {p} : Still(q)
  BY DEF TypeOK, Still
<1>3. Locks(p)'
  BY DEF TypeOK, Right, Locks, Provisioning, Sandbox, Mine
<1>4. Handled(p)'
  BY DEF TypeOK, Right, Handled, Locks, Provisioning, Sandbox, Mine, Vouched, Complete
<1>5. Shows(p)'
  BY DEF TypeOK, Right, Shows, Provisioning, Sandbox
<1>6. Safe(p)'
  BY DEF TypeOK, Right, Safe, Shows, Handled, Sandbox, Vouched, Sealed, Complete, Mine
<1>11. Kept(p)'
  BY DEF TypeOK, Right, Kept, Shows, Live, Sandboxed, Sandbox, Provisioning
<1> QED
  BY <1>11, <1>1, <1>2, <1>3, <1>4, <1>5, <1>6, QuietStep DEF Right

LEMMA ProbePassesRight ==
    ASSUME IInv, NEW p \in Pods, ProbePasses(p)
    PROVE  IInv'
<1>0. TypeOK /\ Right(p)
  BY DEF IInv
<1> USE <1>0, Stacked
<1> USE DEF Goto, Show, Step, Stage, volumeVars, fileVars, loopVars, ProbePasses, Spawn, Child, Sandboxed
<1>1. TypeOK'
  BY ConstantsAssumption DEF TypeOK, Provisioning, Sandbox
<1>2. \A q \in Pods \ {p} : Still(q)
  BY DEF TypeOK, Still
<1>3. Locks(p)'
  BY DEF TypeOK, Right, Locks, Provisioning, Sandbox, Mine
<1>4. Handled(p)'
  BY DEF TypeOK, Right, Handled, Locks, Provisioning, Sandbox, Mine, Vouched, Complete
<1>5. Shows(p)'
  BY DEF TypeOK, Right, Shows, Provisioning, Sandbox
<1>6. Safe(p)'
  BY DEF TypeOK, Right, Safe, Shows, Handled, Sandbox, Vouched, Sealed, Complete, Mine
<1>11. Kept(p)'
  BY DEF TypeOK, Right, Kept, Shows, Live, Sandboxed, Sandbox, Provisioning
<1> QED
  BY <1>11, <1>1, <1>2, <1>3, <1>4, <1>5, <1>6, QuietStep DEF Right

LEMMA ProbeFailsRight ==
    ASSUME IInv, NEW p \in Pods, ProbeFails(p)
    PROVE  IInv'
<1>0. TypeOK /\ Right(p)
  BY DEF IInv
<1> USE <1>0, Stacked
<1> USE DEF Goto, Show, Step, Stage, volumeVars, fileVars, loopVars, ProbeFails
<1>1. TypeOK'
  BY ConstantsAssumption DEF TypeOK, Provisioning, Sandbox
<1>2. \A q \in Pods \ {p} : Still(q)
  BY DEF TypeOK, Still
<1>3. Locks(p)'
  BY DEF TypeOK, Right, Locks, Provisioning, Sandbox, Mine
<1>4. Handled(p)'
  BY DEF TypeOK, Right, Handled, Locks, Provisioning, Sandbox, Mine, Vouched, Complete
<1>5. Shows(p)'
  BY DEF TypeOK, Right, Shows, Provisioning, Sandbox
<1>6. Safe(p)'
  BY DEF TypeOK, Right, Safe, Shows, Handled, Sandbox, Vouched, Sealed, Complete, Mine
<1>11. Kept(p)'
  BY DEF TypeOK, Right, Kept, Shows, Live, Sandboxed, Sandbox, Provisioning
<1> QED
  BY <1>11, <1>1, <1>2, <1>3, <1>4, <1>5, <1>6, QuietStep DEF Right

LEMMA ResearchListensRight ==
    ASSUME IInv, NEW p \in Pods, ResearchListens(p)
    PROVE  IInv'
<1>0. TypeOK /\ Right(p)
  BY DEF IInv
<1> USE <1>0, Stacked
<1> USE DEF Goto, Show, Step, Stage, volumeVars, fileVars, loopVars, ResearchListens
<1>1. TypeOK'
  BY ConstantsAssumption DEF TypeOK, Provisioning, Sandbox
<1>2. \A q \in Pods \ {p} : Still(q)
  BY DEF TypeOK, Still
<1>3. Locks(p)'
  BY DEF TypeOK, Right, Locks, Provisioning, Sandbox, Mine
<1>4. Handled(p)'
  BY DEF TypeOK, Right, Handled, Locks, Provisioning, Sandbox, Mine, Vouched, Complete
<1>5. Shows(p)'
  BY DEF TypeOK, Right, Shows, Provisioning, Sandbox
<1>6. Safe(p)'
  BY DEF TypeOK, Right, Safe, Shows, Handled, Sandbox, Vouched, Sealed, Complete, Mine
<1>11. Kept(p)'
  BY DEF TypeOK, Right, Kept, Shows, Live, Sandboxed, Sandbox, Provisioning
<1> QED
  BY <1>11, <1>1, <1>2, <1>3, <1>4, <1>5, <1>6, QuietStep DEF Right

LEMMA ResearchFailsRight ==
    ASSUME IInv, NEW p \in Pods, ResearchFails(p)
    PROVE  IInv'
<1>0. TypeOK /\ Right(p)
  BY DEF IInv
<1> USE <1>0, Stacked
<1> USE DEF Goto, Show, Step, Stage, volumeVars, fileVars, loopVars, ResearchFails
<1>1. TypeOK'
  BY ConstantsAssumption DEF TypeOK, Provisioning, Sandbox
<1>2. \A q \in Pods \ {p} : Still(q)
  BY DEF TypeOK, Still
<1>3. Locks(p)'
  BY DEF TypeOK, Right, Locks, Provisioning, Sandbox, Mine
<1>4. Handled(p)'
  BY DEF TypeOK, Right, Handled, Locks, Provisioning, Sandbox, Mine, Vouched, Complete
<1>5. Shows(p)'
  BY DEF TypeOK, Right, Shows, Provisioning, Sandbox
<1>6. Safe(p)'
  BY DEF TypeOK, Right, Safe, Shows, Handled, Sandbox, Vouched, Sealed, Complete, Mine
<1>11. Kept(p)'
  BY DEF TypeOK, Right, Kept, Shows, Live, Sandboxed, Sandbox, Provisioning
<1> QED
  BY <1>11, <1>1, <1>2, <1>3, <1>4, <1>5, <1>6, QuietStep DEF Right

LEMMA StopResearchRight ==
    ASSUME IInv, NEW p \in Pods, StopResearch(p)
    PROVE  IInv'
<1>0. TypeOK /\ Right(p)
  BY DEF IInv
<1> USE <1>0, Stacked
<1> USE DEF Goto, Show, Step, Stage, volumeVars, fileVars, loopVars, StopResearch, Stop, Child, Told, Sandboxed
<1>7. PICK kids \in SUBSET Child : children' = [children EXCEPT ![p] = kids]
  <2>1. children[p] \in SUBSET Child
    BY DEF TypeOK
  <2> QED
    BY <2>1
<1>1. TypeOK'
  <2>1. children' \in [Pods -> SUBSET Child]
    BY <1>7 DEF TypeOK
  <2>2. /\ snapshot' \in [Models -> {"absent", "partial", "complete"}]
        /\ pc' \in [Pods -> Step]
    BY DEF TypeOK, Sandbox
  <2> QED
    BY <2>1, <2>2 DEF TypeOK
<1>2. \A q \in Pods \ {p} : Still(q)
  BY DEF TypeOK, Still
<1>3. Locks(p)'
  BY DEF TypeOK, Right, Locks, Provisioning, Sandbox, Mine
<1>4. Handled(p)'
  BY DEF TypeOK, Right, Handled, Locks, Provisioning, Sandbox, Mine, Vouched, Complete
<1>5. Shows(p)'
  BY DEF TypeOK, Right, Shows, Provisioning, Sandbox
<1>6. Safe(p)'
  BY DEF TypeOK, Right, Safe, Shows, Handled, Sandbox, Vouched, Sealed, Complete, Mine
<1>11. Kept(p)'
  BY DEF TypeOK, Right, Kept, Shows, Live, Sandboxed, Sandbox, Provisioning
<1> QED
  BY <1>11, <1>1, <1>2, <1>3, <1>4, <1>5, <1>6, QuietStep DEF Right

LEMMA StopBrokerRight ==
    ASSUME IInv, NEW p \in Pods, StopBroker(p)
    PROVE  IInv'
<1>0. TypeOK /\ Right(p)
  BY DEF IInv
<1> USE <1>0, Stacked
<1> USE DEF Goto, Show, Step, Stage, volumeVars, fileVars, loopVars, StopBroker, Stop, Child, Told, Sandboxed
<1>7. PICK kids \in SUBSET Child : children' = [children EXCEPT ![p] = kids]
  <2>1. children[p] \in SUBSET Child
    BY DEF TypeOK
  <2> QED
    BY <2>1
<1>1. TypeOK'
  <2>1. children' \in [Pods -> SUBSET Child]
    BY <1>7 DEF TypeOK
  <2>2. /\ snapshot' \in [Models -> {"absent", "partial", "complete"}]
        /\ pc' \in [Pods -> Step]
    BY DEF TypeOK, Sandbox
  <2> QED
    BY <2>1, <2>2 DEF TypeOK
<1>2. \A q \in Pods \ {p} : Still(q)
  BY DEF TypeOK, Still
<1>3. Locks(p)'
  BY DEF TypeOK, Right, Locks, Provisioning, Sandbox, Mine
<1>4. Handled(p)'
  BY DEF TypeOK, Right, Handled, Locks, Provisioning, Sandbox, Mine, Vouched, Complete
<1>5. Shows(p)'
  BY DEF TypeOK, Right, Shows, Provisioning, Sandbox
<1>6. Safe(p)'
  BY DEF TypeOK, Right, Safe, Shows, Handled, Sandbox, Vouched, Sealed, Complete, Mine
<1>11. Kept(p)'
  BY DEF TypeOK, Right, Kept, Shows, Live, Sandboxed, Sandbox, Provisioning
<1> QED
  BY <1>11, <1>1, <1>2, <1>3, <1>4, <1>5, <1>6, QuietStep DEF Right

LEMMA LaunchRight ==
    ASSUME IInv, NEW p \in Pods, Launch(p)
    PROVE  IInv'
<1>0. TypeOK /\ Right(p)
  BY DEF IInv
<1> USE <1>0, Stacked
<1> USE DEF Goto, Show, Step, Stage, volumeVars, fileVars, loopVars, Launch
<1>1. TypeOK'
  BY ConstantsAssumption DEF TypeOK, Provisioning, Sandbox
<1>2. \A q \in Pods \ {p} : Still(q)
  BY DEF TypeOK, Still
<1>3. Locks(p)'
  BY DEF TypeOK, Right, Locks, Provisioning, Sandbox, Mine
<1>4. Handled(p)'
  BY DEF TypeOK, Right, Handled, Locks, Provisioning, Sandbox, Mine, Vouched, Complete
<1>5. Shows(p)'
  BY DEF TypeOK, Right, Shows, Provisioning, Sandbox
<1>6. Safe(p)'
  BY DEF TypeOK, Right, Safe, Shows, Handled, Sandbox, Vouched, Sealed, Complete, Mine
<1>11. Kept(p)'
  BY DEF TypeOK, Right, Kept, Shows, Live, Sandboxed, Sandbox, Provisioning
<1> QED
  BY <1>11, <1>1, <1>2, <1>3, <1>4, <1>5, <1>6, QuietStep DEF Right

LEMMA RaiseRight ==
    ASSUME IInv, NEW p \in Pods, Raise(p)
    PROVE  IInv'
<1>0. TypeOK /\ Right(p)
  BY DEF IInv
<1> USE <1>0, Stacked
<1> USE DEF Goto, Show, Step, Stage, volumeVars, fileVars, loopVars, Raise, Forgets, Released
<1>1. TypeOK'
  BY ConstantsAssumption DEF TypeOK, Provisioning, Sandbox
<1>2. \A q \in Pods \ {p} : Still(q)
  BY DEF TypeOK, Still
<1>3. Locks(p)'
  BY DEF TypeOK, Right, Locks, Provisioning, Sandbox, Mine
<1>4. Handled(p)'
  BY DEF TypeOK, Right, Handled, Locks, Provisioning, Sandbox, Mine, Vouched, Complete
<1>5. Shows(p)'
  BY DEF TypeOK, Right, Shows, Provisioning, Sandbox
<1>6. Safe(p)'
  BY DEF TypeOK, Right, Safe, Shows, Handled, Sandbox, Vouched, Sealed, Complete, Mine
<1>11. Kept(p)'
  BY DEF TypeOK, Right, Kept, Shows, Live, Sandboxed, Sandbox, Provisioning
<1> QED
  BY <1>11, <1>1, <1>2, <1>3, <1>4, <1>5, <1>6, QuietStep DEF Right

LEMMA HoldRight ==
    ASSUME IInv, NEW p \in Pods, Hold(p)
    PROVE  IInv'
<1>0. TypeOK /\ Right(p)
  BY DEF IInv
<1> USE <1>0, Stacked
<1> USE DEF Goto, Show, Step, Stage, volumeVars, fileVars, loopVars, Hold
<1>1. TypeOK'
  BY ConstantsAssumption DEF TypeOK, Provisioning, Sandbox
<1>2. \A q \in Pods \ {p} : Still(q)
  BY DEF TypeOK, Still
<1>3. Locks(p)'
  BY DEF TypeOK, Right, Locks, Provisioning, Sandbox, Mine
<1>4. Handled(p)'
  BY DEF TypeOK, Right, Handled, Locks, Provisioning, Sandbox, Mine, Vouched, Complete
<1>5. Shows(p)'
  BY DEF TypeOK, Right, Shows, Provisioning, Sandbox
<1>6. Safe(p)'
  BY DEF TypeOK, Right, Safe, Shows, Handled, Sandbox, Vouched, Sealed, Complete, Mine
<1>11. Kept(p)'
  BY DEF TypeOK, Right, Kept, Shows, Live, Sandboxed, Sandbox, Provisioning
<1> QED
  BY <1>11, <1>1, <1>2, <1>3, <1>4, <1>5, <1>6, QuietStep DEF Right

LEMMA ExitRight ==
    ASSUME IInv, NEW p \in Pods, Exit(p)
    PROVE  IInv'
<1>0. TypeOK /\ Right(p)
  BY DEF IInv
<1> USE <1>0, Stacked
<1> USE DEF Goto, Show, Step, Stage, volumeVars, fileVars, loopVars, Exit, Gone, Forgets, Released
<1>1. TypeOK'
  BY ConstantsAssumption DEF TypeOK, Provisioning, Sandbox
<1>2. \A q \in Pods \ {p} : Still(q)
  BY DEF TypeOK, Still
<1>3. Locks(p)'
  BY DEF TypeOK, Right, Locks, Provisioning, Sandbox, Mine
<1>4. Handled(p)'
  BY DEF TypeOK, Right, Handled, Locks, Provisioning, Sandbox, Mine, Vouched, Complete
<1>5. Shows(p)'
  BY DEF TypeOK, Right, Shows, Provisioning, Sandbox
<1>6. Safe(p)'
  BY DEF TypeOK, Right, Safe, Shows, Handled, Sandbox, Vouched, Sealed, Complete, Mine
<1>11. Kept(p)'
  BY DEF TypeOK, Right, Kept, Shows, Live, Sandboxed, Sandbox, Provisioning
<1> QED
  BY <1>11, <1>1, <1>2, <1>3, <1>4, <1>5, <1>6, QuietStep DEF Right

LEMMA LeaveRight ==
    ASSUME IInv, NEW p \in Pods, Leave(p)
    PROVE  IInv'
<1>0. TypeOK /\ Right(p)
  BY DEF IInv
<1> USE <1>0, Stacked
<1> USE DEF Goto, Show, Step, Stage, volumeVars, fileVars, loopVars, Leave, Gone, Forgets, Released
<1>1. TypeOK'
  BY ConstantsAssumption DEF TypeOK, Provisioning, Sandbox
<1>2. \A q \in Pods \ {p} : Still(q)
  BY DEF TypeOK, Still
<1>3. Locks(p)'
  BY DEF TypeOK, Right, Locks, Provisioning, Sandbox, Mine
<1>4. Handled(p)'
  BY DEF TypeOK, Right, Handled, Locks, Provisioning, Sandbox, Mine, Vouched, Complete
<1>5. Shows(p)'
  BY DEF TypeOK, Right, Shows, Provisioning, Sandbox
<1>6. Safe(p)'
  BY DEF TypeOK, Right, Safe, Shows, Handled, Sandbox, Vouched, Sealed, Complete, Mine
<1>11. Kept(p)'
  BY DEF TypeOK, Right, Kept, Shows, Live, Sandboxed, Sandbox, Provisioning
<1> QED
  BY <1>11, <1>1, <1>2, <1>3, <1>4, <1>5, <1>6, QuietStep DEF Right

LEMMA CrashRight ==
    ASSUME IInv, NEW p \in Pods, Crash(p)
    PROVE  IInv'
<1>0. TypeOK /\ Right(p)
  BY DEF IInv
<1> USE <1>0, Stacked
<1> USE DEF Goto, Show, Step, Stage, volumeVars, fileVars, loopVars, Crash, Gone, Forgets, Released
<1>1. TypeOK'
  BY ConstantsAssumption DEF TypeOK, Provisioning, Sandbox
<1>2. \A q \in Pods \ {p} : Still(q)
  BY DEF TypeOK, Still
<1>3. Locks(p)'
  BY DEF TypeOK, Right, Locks, Provisioning, Sandbox, Mine
<1>4. Handled(p)'
  BY DEF TypeOK, Right, Handled, Locks, Provisioning, Sandbox, Mine, Vouched, Complete
<1>5. Shows(p)'
  BY DEF TypeOK, Right, Shows, Provisioning, Sandbox
<1>6. Safe(p)'
  BY DEF TypeOK, Right, Safe, Shows, Handled, Sandbox, Vouched, Sealed, Complete, Mine
<1>11. Kept(p)'
  BY DEF TypeOK, Right, Kept, Shows, Live, Sandboxed, Sandbox, Provisioning
<1> QED
  BY <1>11, <1>1, <1>2, <1>3, <1>4, <1>5, <1>6, QuietStep DEF Right

LEMMA DownloadRight ==
    ASSUME IInv, NEW p \in Pods, NEW m \in Models, Download(p, m)
    PROVE  IInv'
<1>0. TypeOK /\ Right(p)
  BY DEF IInv
<1> USE <1>0, Stacked
<1> USE DEF Goto, Show, Step, Stage, volumeVars, fileVars, loopVars, Download
<1>1. TypeOK'
  BY ConstantsAssumption DEF TypeOK, Provisioning, Sandbox
<1>2. \A q \in Pods \ {p} : Still(q)
  BY DEF TypeOK, Still
<1>3. Grows
  BY DEF TypeOK, Grows, Complete
<1>4. \A q \in Pods \ {p} : Right(q)'
  BY <1>1, <1>2, <1>3, OthersStayRight DEF IInv, Locks, Right, TypeOK, Provisioning
<1>5. ManifestIsTrue'
  BY <1>3 DEF TypeOK, IInv, ManifestIsTrue, Vouched, Grows
<1>6. MarkerIsTrue'
  BY <1>3 DEF TypeOK, IInv, MarkerIsTrue, Vouched, Sealed, Grows
<1>7. Locks(p)'
  BY DEF TypeOK, Right, Locks, Provisioning, Sandbox, Mine
<1>8. Handled(p)'
  BY <1>3 DEF TypeOK, Right, Handled, Locks, Provisioning, Sandbox, Mine, Vouched, Complete, Grows
<1>9. Shows(p)'
  BY DEF TypeOK, Right, Shows, Provisioning, Sandbox
<1>10. Safe(p)'
  BY <1>3 DEF TypeOK, Right, Safe, Shows, Handled, Sandbox, Vouched, Sealed, Grows, Mine
<1>11. Kept(p)'
  BY DEF TypeOK, Right, Kept, Shows, Live, Sandboxed, Sandbox, Provisioning
<1> QED
  BY <1>11, <1>1, <1>4, <1>5, <1>6, <1>7, <1>8, <1>9, <1>10 DEF Right, IInv

LEMMA FetchedRight ==
    ASSUME IInv, NEW p \in Pods, Fetched(p)
    PROVE  IInv'
<1>0. TypeOK /\ Right(p)
  BY DEF IInv
<1> USE <1>0, Stacked
<1> USE DEF Goto, Show, Step, Stage, volumeVars, fileVars, loopVars, Fetched
<1>1. TypeOK'
  BY ConstantsAssumption DEF TypeOK, Provisioning, Sandbox, Right, Locks, Mine
<1>2. \A q \in Pods \ {p} : Still(q)
  BY DEF TypeOK, Still
<1>3. Grows
  BY DEF TypeOK, Grows, Complete, Right, Locks, Mine
<1>4. \A q \in Pods \ {p} : Right(q)'
  BY <1>1, <1>2, <1>3, OthersStayRight DEF IInv, Locks, Right, TypeOK, Provisioning
<1>5. ManifestIsTrue'
  BY <1>3 DEF TypeOK, IInv, ManifestIsTrue, Vouched, Grows
<1>6. MarkerIsTrue'
  BY <1>3 DEF TypeOK, IInv, MarkerIsTrue, Vouched, Sealed, Grows
<1>7. Locks(p)'
  BY DEF TypeOK, Right, Locks, Provisioning, Sandbox, Mine
<1>8. Handled(p)'
  BY <1>3 DEF TypeOK, Right, Handled, Locks, Provisioning, Sandbox, Mine, Vouched, Complete, Grows
<1>9. Shows(p)'
  BY DEF TypeOK, Right, Shows, Provisioning, Sandbox
<1>10. Safe(p)'
  BY <1>3 DEF TypeOK, Right, Safe, Shows, Handled, Sandbox, Vouched, Sealed, Grows, Mine
<1>11. Kept(p)'
  BY DEF TypeOK, Right, Kept, Shows, Live, Sandboxed, Sandbox, Provisioning
<1> QED
  BY <1>11, <1>1, <1>4, <1>5, <1>6, <1>7, <1>8, <1>9, <1>10 DEF Right, IInv

LEMMA PublishRight ==
    ASSUME IInv, NEW p \in Pods, Publish(p)
    PROVE  IInv'
<1>0. TypeOK /\ Right(p)
  BY DEF IInv
<1> USE <1>0, Stacked
<1> USE DEF Goto, Show, Step, Stage, volumeVars, fileVars, loopVars, Publish
<1>1. TypeOK'
  BY ConstantsAssumption DEF TypeOK, Provisioning, Sandbox
<1>2. \A q \in Pods \ {p} : Still(q)
  BY DEF TypeOK, Still
<1>3. Grows
  BY DEF TypeOK, Grows, Complete
<1>4. \A q \in Pods \ {p} : Right(q)'
  BY <1>1, <1>2, <1>3, OthersStayRight DEF IInv, Locks, Right, TypeOK, Provisioning
<1>5. ManifestIsTrue'
  BY <1>3 DEF TypeOK, IInv, ManifestIsTrue, Vouched, Grows, Right, Handled, Mine
<1>6. MarkerIsTrue'
  BY <1>3 DEF TypeOK, IInv, MarkerIsTrue, Vouched, Sealed, Grows
<1>7. Locks(p)'
  BY DEF TypeOK, Right, Locks, Provisioning, Sandbox, Mine
<1>8. Handled(p)'
  BY <1>3 DEF TypeOK, Right, Handled, Locks, Provisioning, Sandbox, Mine, Vouched, Complete, Grows
<1>9. Shows(p)'
  BY DEF TypeOK, Right, Shows, Provisioning, Sandbox
<1>10. Safe(p)'
  BY <1>3 DEF TypeOK, Right, Safe, Shows, Handled, Sandbox, Vouched, Sealed, Grows, Mine
<1>11. Kept(p)'
  BY DEF TypeOK, Right, Kept, Shows, Live, Sandboxed, Sandbox, Provisioning
<1> QED
  BY <1>11, <1>1, <1>4, <1>5, <1>6, <1>7, <1>8, <1>9, <1>10 DEF Right, IInv

LEMMA SecureRight ==
    ASSUME IInv, NEW p \in Pods, NEW m \in Models, Secure(p, m)
    PROVE  IInv'
<1>0. TypeOK /\ Right(p)
  BY DEF IInv
<1> USE <1>0, Stacked
<1> USE DEF Goto, Show, Step, Stage, volumeVars, fileVars, loopVars, Secure
<1>1. TypeOK'
  BY ConstantsAssumption DEF TypeOK, Provisioning, Sandbox
<1>2. \A q \in Pods \ {p} : Still(q)
  BY DEF TypeOK, Still
<1>3. Grows
  BY DEF TypeOK, Grows, Complete
<1>4. \A q \in Pods \ {p} : Right(q)'
  BY <1>1, <1>2, <1>3, OthersStayRight DEF IInv, Locks, Right, TypeOK, Provisioning
<1>5. ManifestIsTrue'
  BY <1>3 DEF TypeOK, IInv, ManifestIsTrue, Vouched, Grows
<1>6. MarkerIsTrue'
  BY <1>3 DEF TypeOK, IInv, MarkerIsTrue, Vouched, Sealed, Grows
<1>7. Locks(p)'
  BY DEF TypeOK, Right, Locks, Provisioning, Sandbox, Mine
<1>8. Handled(p)'
  BY <1>3 DEF TypeOK, Right, Handled, Locks, Provisioning, Sandbox, Mine, Vouched, Complete, Grows
<1>9. Shows(p)'
  BY DEF TypeOK, Right, Shows, Provisioning, Sandbox
<1>10. Safe(p)'
  BY <1>3 DEF TypeOK, Right, Safe, Shows, Handled, Sandbox, Vouched, Sealed, Grows, Mine
<1>11. Kept(p)'
  BY DEF TypeOK, Right, Kept, Shows, Live, Sandboxed, Sandbox, Provisioning
<1> QED
  BY <1>11, <1>1, <1>4, <1>5, <1>6, <1>7, <1>8, <1>9, <1>10 DEF Right, IInv

LEMMA OpenMarkerRight ==
    ASSUME IInv, NEW p \in Pods, OpenMarker(p)
    PROVE  IInv'
<1>0. TypeOK /\ Right(p)
  BY DEF IInv
<1> USE <1>0, Stacked
<1> USE DEF Goto, Show, Step, Stage, volumeVars, fileVars, loopVars, OpenMarker
<1>1. TypeOK'
  BY ConstantsAssumption DEF TypeOK, Provisioning, Sandbox
<1>2. \A q \in Pods \ {p} : Still(q)
  BY DEF TypeOK, Still
<1>3. Grows
  BY DEF TypeOK, Grows, Complete
<1>4. \A q \in Pods \ {p} : Right(q)'
  BY <1>1, <1>2, <1>3, OthersStayRight DEF IInv, Locks, Right, TypeOK, Provisioning
<1>5. ManifestIsTrue'
  BY <1>3 DEF TypeOK, IInv, ManifestIsTrue, Vouched, Grows
<1>6. MarkerIsTrue'
  BY <1>3 DEF TypeOK, IInv, MarkerIsTrue, Vouched, Sealed, Grows
<1>7. Locks(p)'
  BY DEF TypeOK, Right, Locks, Provisioning, Sandbox, Mine
<1>8. Handled(p)'
  BY <1>3 DEF TypeOK, Right, Handled, Locks, Provisioning, Sandbox, Mine, Vouched, Complete, Grows
<1>9. Shows(p)'
  BY DEF TypeOK, Right, Shows, Provisioning, Sandbox
<1>10. Safe(p)'
  BY <1>3 DEF TypeOK, Right, Safe, Shows, Handled, Sandbox, Vouched, Sealed, Grows, Mine
<1>11. Kept(p)'
  BY DEF TypeOK, Right, Kept, Shows, Live, Sandboxed, Sandbox, Provisioning
<1> QED
  BY <1>11, <1>1, <1>4, <1>5, <1>6, <1>7, <1>8, <1>9, <1>10 DEF Right, IInv

LEMMA WriteMarkerRight ==
    ASSUME IInv, NEW p \in Pods, WriteMarker(p)
    PROVE  IInv'
<1>0. TypeOK /\ Right(p)
  BY DEF IInv
<1> USE <1>0, Stacked
<1> USE DEF Goto, Show, Step, Stage, volumeVars, fileVars, loopVars, WriteMarker, Proceed
<1>1. TypeOK'
  BY ConstantsAssumption DEF TypeOK, Provisioning, Sandbox
<1>2. \A q \in Pods \ {p} : Still(q)
  BY DEF TypeOK, Still
<1>3. Grows
  BY DEF TypeOK, Grows, Complete
<1>4. \A q \in Pods \ {p} : Right(q)'
  BY <1>1, <1>2, <1>3, OthersStayRight DEF IInv, Locks, Right, TypeOK, Provisioning
<1>5. ManifestIsTrue'
  BY <1>3 DEF TypeOK, IInv, ManifestIsTrue, Vouched, Grows
<1>6. MarkerIsTrue'
  BY <1>3 DEF TypeOK, IInv, MarkerIsTrue, Vouched, Sealed, Grows, Right, Handled
<1>7. Locks(p)'
  BY DEF TypeOK, Right, Locks, Provisioning, Sandbox, Mine
<1>8. Handled(p)'
  BY <1>3 DEF TypeOK, Right, Handled, Locks, Provisioning, Sandbox, Mine, Vouched, Complete, Grows
<1>9. Shows(p)'
  BY DEF TypeOK, Right, Shows, Provisioning, Sandbox
<1>10. Safe(p)'
  BY <1>3 DEF TypeOK, Right, Safe, Shows, Handled, Sandbox, Vouched, Sealed, Grows, Mine
<1>11. Kept(p)'
  BY DEF TypeOK, Right, Kept, Shows, Live, Sandboxed, Sandbox, Provisioning
<1> QED
  BY <1>11, <1>1, <1>4, <1>5, <1>6, <1>7, <1>8, <1>9, <1>10 DEF Right, IInv

-----------------------------------------------------------------------------
(* The invariant.                                                          *)

LEMMA InitRight == Init => IInv
<1> SUFFICES ASSUME Init PROVE IInv
  OBVIOUS
<1> USE ConstantsAssumption DEF Init
<1>1. TypeOK
  BY DEF TypeOK, Step, Stage
<1>2. ManifestIsTrue /\ MarkerIsTrue
  BY DEF ManifestIsTrue, MarkerIsTrue
<1>3. \A p \in Pods : Right(p)
  BY DEF Right, Locks, Handled, Shows, Safe, Kept, Live, Provisioning, Sandbox
<1> QED
  BY <1>1, <1>2, <1>3 DEF IInv

LEMMA StepRight == IInv /\ [Next]_vars => IInv'
<1> SUFFICES ASSUME IInv, [Next]_vars PROVE IInv'
  OBVIOUS
<1>1. CASE UNCHANGED vars
  BY <1>1 DEF IInv, vars, volumeVars, fileVars, loopVars, TypeOK, ManifestIsTrue, MarkerIsTrue,
              Vouched, Sealed, Complete, Right, Locks, Handled, Shows, Safe, Kept, Live, Mine
<1>2. ASSUME NEW p \in Pods, NEW c \in Configs, Start(p, c) \/ StartFails(p, c)
      PROVE  IInv'
  BY <1>2, StartRight, StartFailsRight
<1>3. ASSUME NEW p \in Pods, Boot(p)
      PROVE  IInv'
  <2>1. ASSUME NEW m \in Models, Skip(p, m) \/ Download(p, m) \/ Secure(p, m)
        PROVE  IInv'
    BY <2>1, SkipRight, DownloadRight, SecureRight
  <2>2. CASE \/ Validate(p) \/ CheckCache(p) \/ FoundReady(p) \/ Provision(p)
             \/ Publish(p) \/ FinalCheck(p)
    BY <2>2, ValidateRight, CheckCacheRight, FoundReadyRight, ProvisionRight, PublishRight,
       FinalCheckRight
  <2>3. CASE \/ ReadManifest(p) \/ TrustMarker(p) \/ Walk(p) \/ GroupIsBrokers(p)
             \/ OpenMarker(p) \/ WriteMarker(p)
    BY <2>3, ReadManifestRight, TrustMarkerRight, WalkRight, GroupIsBrokersRight,
       OpenMarkerRight, WriteMarkerRight
  <2>4. CASE \/ StartBroker(p) \/ BrokerListens(p) \/ ProbePasses(p) \/ ProbeFails(p)
             \/ ResearchListens(p) \/ ResearchFails(p) \/ StopResearch(p) \/ StopBroker(p)
    BY <2>4, StartBrokerRight, BrokerListensRight, ProbePassesRight, ProbeFailsRight,
       ResearchListensRight, ResearchFailsRight, StopResearchRight, StopBrokerRight
  <2>5. CASE Launch(p) \/ Hold(p) \/ Exit(p)
    BY <2>5, LaunchRight, HoldRight, ExitRight
  <2> QED
    BY <1>3, <2>1, <2>2, <2>3, <2>4, <2>5 DEF Boot
<1>4. ASSUME NEW p \in Pods, Acquire(p) \/ Fetched(p) \/ Raise(p) \/ Leave(p) \/ Crash(p)
      PROVE  IInv'
  BY <1>4, AcquireRight, FetchedRight, RaiseRight, LeaveRight, CrashRight
<1> QED
  BY <1>1, <1>2, <1>3, <1>4 DEF Next

\* The inductive invariant holds for every number of pods, stacks and models.
THEOREM Invariance == Spec => []IInv
<1> QED
  BY InitRight, StepRight, PTL DEF Spec

\* The variables have their types.
THEOREM Typing == Spec => []TypeOK
<1>1. IInv => TypeOK
  BY DEF IInv
<1> QED
  BY <1>1, Invariance, PTL

\* The manifest lists complete models only (provision_model_cache publishes it
\* last), whatever crashes and whatever other stacks are put into the cache.
THEOREM ManifestSound == Spec => []ManifestIsTrue
<1>1. IInv => ManifestIsTrue
  BY DEF IInv
<1> QED
  BY <1>1, Invariance, PTL

\* The permissions marker vouches for complete and sealed models, although
\* secure_model_storage runs without the lock.
THEOREM MarkerSound == Spec => []MarkerIsTrue
<1>1. IInv => MarkerIsTrue
  BY DEF IInv
<1> QED
  BY <1>1, Invariance, PTL

\* Children and workers run only beside complete models and a sealed stack.
THEOREM SafeStart == Spec => []OnlySafePodsGoOn
<1>1. IInv => OnlySafePodsGoOn
  BY DEF IInv, Right, OnlySafePodsGoOn
<1> QED
  BY <1>1, Invariance, PTL

\* NoChildIsForgotten: for any number of pods, a boot that gives up has told
\* each child it started to end, unless its sandbox stood; a child that ends
\* too slowly does not keep start_research_runtime from telling the other.
THEOREM ChildrenAreTold == Spec => []NoChildIsForgotten
<1>1. IInv => NoChildIsForgotten
  BY DEF IInv, Right, Kept, NoChildIsForgotten
<1> QED
  BY <1>1, Invariance, PTL
-----------------------------------------------------------------------------
(* A boot is finite.                                                       *)

\* Where a boot is: a loop, with its downloads, is one place.
BootAt(step) ==
    CASE step = "validate" -> 1 [] step = "check" -> 2 [] step = "lock" -> 3
      [] step = "recheck" -> 4 [] step \in {"download", "fetch"} -> 5 [] step = "final" -> 6
      [] step = "fingerprint" -> 7 [] step = "marker" -> 8 [] step = "walk" -> 9
      [] step = "mark" -> 10 [] step = "broker" -> 11 [] step = "brokerSocket" -> 12
      [] step = "probe" -> 13 [] step = "researchSocket" -> 14 [] step = "launch" -> 15
      [] step = "worker" -> 16 [] step = "stopResearch" -> 17 [] step = "stopBroker" -> 18
      [] step = "abandon" -> 19 [] step = "hold" -> 20 [] OTHER -> 0

\* The models that a loop has not come to become fewer; a download is begun
\* once for each.
Fewer(p) == rest'[p] \subseteq rest[p] /\ rest'[p] # rest[p]
LoopGoesOn(p) == \/ Fewer(p)
                 \/ rest'[p] = rest[p] /\ pc[p] = "download" /\ pc'[p] = "fetch"
Ahead(p) == \/ BootAt(pc[p]) < BootAt(pc'[p])
            \/ BootAt(pc[p]) = BootAt(pc'[p]) /\ LoopGoesOn(p)
Runs(p) == Boot(p) \/ Acquire(p) \/ Fetched(p) \/ Raise(p)

\* A boot comes nearer a worker or the end of its container, and is moved by its
\* own steps only, unless it crashes or is started.
BootGoesOn(p) ==
    IF Runs(p) THEN pc'[p] = "down" \/ Ahead(p)
               ELSE \/ pc'[p] = pc[p] /\ rest'[p] = rest[p]
                    \/ pc'[p] = "down" \/ pc[p] = "down"
BootsGoOn == \A p \in Pods : BootGoesOn(p)

\* A step of a pod leaves the places and the loops of the others alone.
Others(p) == \A q \in Pods \ {p} : pc'[q] = pc[q] /\ rest'[q] = rest[q]
Nearer(p) == (pc'[p] = "down" \/ Ahead(p)) /\ Others(p)

\* The steps of a loop.
LEMMA LoopsForward ==
    ASSUME IInv, NEW p \in Pods,
           \/ \E m \in Models : Skip(p, m) \/ Download(p, m) \/ Secure(p, m)
           \/ Fetched(p)
    PROVE  Ahead(p) /\ Others(p)
<1> USE DEF IInv, TypeOK, Goto, Others
<1>1. ASSUME NEW m \in Models, Skip(p, m) \/ Secure(p, m)
      PROVE  pc' = pc /\ Fewer(p) /\ Others(p)
  BY <1>1 DEF Skip, Secure, Fewer
<1>2. ASSUME NEW m \in Models, Download(p, m)
      PROVE  pc[p] = "download" /\ pc'[p] = "fetch" /\ rest' = rest /\ Others(p)
  BY <1>2 DEF Download
<1>3. ASSUME Fetched(p)
      PROVE  pc[p] = "fetch" /\ pc'[p] = "download" /\ Fewer(p) /\ Others(p)
  <2>1. item[p] \in rest[p]
    BY <1>3 DEF Fetched, Right, Locks
  <2> QED
    BY <1>3, <2>1 DEF Fetched, Fewer
<1> QED
  BY <1>1, <1>2, <1>3 DEF Ahead, LoopGoesOn, BootAt

\* The other steps: one place on, or to a stop.
LEMMA PlacesForward ==
    ASSUME TypeOK, NEW p \in Pods, NEW step, Goto(p, step),
           rest' = rest \/ \E r : rest' = [rest EXCEPT ![p] = r],
           step = "down" \/ BootAt(pc[p]) < BootAt(step)
    PROVE  Nearer(p)
<1>1. pc' = [pc EXCEPT ![p] = step] /\ pc'[p] = step
  BY DEF Goto, TypeOK
<1>2. Others(p)
  BY <1>1 DEF TypeOK, Others
<1> QED
  BY <1>1, <1>2 DEF Nearer, Ahead

LEMMA BootPlaces ==
    /\ BootAt("validate") = 1 /\ BootAt("check") = 2 /\ BootAt("lock") = 3
    /\ BootAt("recheck") = 4 /\ BootAt("download") = 5 /\ BootAt("fetch") = 5
    /\ BootAt("final") = 6 /\ BootAt("fingerprint") = 7 /\ BootAt("marker") = 8
    /\ BootAt("walk") = 9 /\ BootAt("mark") = 10 /\ BootAt("broker") = 11
    /\ BootAt("brokerSocket") = 12 /\ BootAt("probe") = 13 /\ BootAt("researchSocket") = 14
    /\ BootAt("launch") = 15 /\ BootAt("worker") = 16 /\ BootAt("stopResearch") = 17
    /\ BootAt("stopBroker") = 18 /\ BootAt("abandon") = 19 /\ BootAt("hold") = 20
  BY DEF BootAt

LEMMA StepsForward == ASSUME IInv, NEW p \in Pods, Runs(p) PROVE Nearer(p)
<1>1. TypeOK
  BY DEF IInv
<1>2. CASE \E m \in Models : Skip(p, m) \/ Download(p, m) \/ Secure(p, m)
  BY <1>2, LoopsForward DEF Nearer
<1>3. CASE Fetched(p)
  BY <1>3, LoopsForward DEF Nearer
<1>4. CASE Validate(p) \/ CheckCache(p) \/ Acquire(p) \/ FoundReady(p)
  <2>1. /\ UNCHANGED rest
        /\ \/ pc[p] = "validate" /\ Goto(p, "check")
           \/ pc[p] = "check" /\ \E step \in {"fingerprint", "lock", "abandon"} : Goto(p, step)
           \/ pc[p] = "lock" /\ Goto(p, "recheck")
           \/ pc[p] = "recheck" /\ Goto(p, "fingerprint")
    BY <1>4 DEF Validate, CheckCache, Acquire, FoundReady, loopVars
  <2> QED
    BY <2>1, <1>1, PlacesForward, BootPlaces
<1>5. CASE Provision(p) \/ Publish(p) \/ FinalCheck(p)
  <2>1. CASE Provision(p)
    <3>1. pc[p] = "recheck" /\ Goto(p, "download") /\ rest' = [rest EXCEPT ![p] = Mine(p)]
      BY <2>1 DEF Provision
    <3>2. \E r : rest' = [rest EXCEPT ![p] = r]
      BY <3>1, Zenon
    <3>3. BootAt(pc[p]) < BootAt("download")
      BY <3>1, BootPlaces
    <3> QED
      BY <3>1, <3>2, <3>3, <1>1, PlacesForward
  <2>2. CASE Publish(p) \/ FinalCheck(p)
    <3>1. /\ UNCHANGED rest
          /\ \/ pc[p] = "download" /\ Goto(p, "final")
             \/ pc[p] = "final" /\ \E step \in {"fingerprint", "abandon"} : Goto(p, step)
      BY <2>2 DEF Publish, FinalCheck, loopVars
    <3> QED
      BY <3>1, <1>1, PlacesForward, BootPlaces
  <2> QED
    BY <1>5, <2>1, <2>2
<1>6. CASE ReadManifest(p) \/ TrustMarker(p) \/ OpenMarker(p) \/ WriteMarker(p)
  <2>1. /\ UNCHANGED rest
        /\ \/ pc[p] = "fingerprint" /\ Goto(p, "marker")
           \/ pc[p] = "marker" /\ \E step \in {"broker", "launch"} : Goto(p, step)
           \/ pc[p] = "walk" /\ Goto(p, "mark")
           \/ pc[p] = "mark" /\ \E step \in {"broker", "launch"} : Goto(p, step)
    BY <1>6 DEF ReadManifest, TrustMarker, OpenMarker, WriteMarker, Proceed, loopVars
  <2> QED
    BY <2>1, <1>1, PlacesForward, BootPlaces
<1>7. CASE Walk(p) \/ GroupIsBrokers(p)
  <2>1. \/ pc[p] = "marker" /\ Goto(p, "walk") /\ rest' = [rest EXCEPT ![p] = Models]
        \/ /\ pc[p] \in {"marker", "walk"} /\ Goto(p, "abandon")
           /\ rest' = [rest EXCEPT ![p] = {}]
    BY <1>7 DEF Walk, GroupIsBrokers, Forgets
  <2> QED
    BY <2>1, <1>1, PlacesForward, BootPlaces
<1>8. CASE StartBroker(p) \/ BrokerListens(p) \/ ProbePasses(p) \/ ProbeFails(p)
  <2>1. /\ UNCHANGED rest
        /\ \/ pc[p] = "broker" /\ Goto(p, "brokerSocket")
           \/ pc[p] = "brokerSocket" /\ \E step \in {"probe", "stopBroker"} : Goto(p, step)
           \/ pc[p] = "probe" /\ \E step \in {"researchSocket", "stopBroker"} : Goto(p, step)
    BY <1>8 DEF StartBroker, BrokerListens, ProbePasses, ProbeFails, Spawn, loopVars
  <2> QED
    BY <2>1, <1>1, PlacesForward, BootPlaces
<1>9. CASE ResearchListens(p) \/ ResearchFails(p) \/ StopResearch(p) \/ StopBroker(p)
  <2>1. /\ UNCHANGED rest
        /\ \/ /\ pc[p] = "researchSocket"
              /\ \E step \in {"launch", "stopResearch"} : Goto(p, step)
           \/ pc[p] = "stopResearch" /\ Goto(p, "stopBroker")
           \/ pc[p] = "stopBroker" /\ Goto(p, "abandon")
    BY <1>9 DEF ResearchListens, ResearchFails, StopResearch, StopBroker, Stop, loopVars
  <2> QED
    BY <2>1, <1>1, PlacesForward, BootPlaces
<1>10. CASE Launch(p) \/ Hold(p) \/ Exit(p)
  <2>1. \/ pc[p] = "launch" /\ Goto(p, "worker") /\ UNCHANGED rest
        \/ pc[p] = "abandon" /\ Goto(p, "hold") /\ UNCHANGED rest
        \/ Goto(p, "down") /\ rest' = [rest EXCEPT ![p] = {}]
    BY <1>10 DEF Launch, Hold, Exit, Gone, Forgets, loopVars
  <2> QED
    BY <2>1, <1>1, PlacesForward, BootPlaces
<1>11. CASE Raise(p)
  <2>1. /\ pc[p] \in {"validate", "lock", "download", "fetch", "fingerprint", "walk", "mark",
                      "broker", "launch"}
        /\ Goto(p, "abandon") /\ rest' = [rest EXCEPT ![p] = {}]
    BY <1>11 DEF Raise, Forgets
  <2>2. \E r : rest' = [rest EXCEPT ![p] = r]
    BY <2>1, Zenon
  <2>3. BootAt(pc[p]) < BootAt("abandon")
    BY <2>1, BootPlaces
  <2> QED
    BY <2>1, <2>2, <2>3, <1>1, PlacesForward
<1> QED
  BY <1>2, <1>3, <1>4, <1>5, <1>6, <1>7, <1>8, <1>9, <1>10, <1>11 DEF Runs, Boot

LEMMA BootsForward == ASSUME IInv, [Next]_vars PROVE BootsGoOn
<1> SUFFICES ASSUME NEW p \in Pods PROVE BootGoesOn(p)
  BY DEF BootsGoOn
<1>1. CASE Runs(p)
  BY <1>1, StepsForward DEF BootGoesOn, Nearer
<1>2. ASSUME ~Runs(p), NEW q \in Pods, Runs(q) PROVE pc'[p] = pc[p] /\ rest'[p] = rest[p]
  <2>1. q # p
    BY <1>2
  <2> QED
    BY <1>2, <2>1, StepsForward DEF Others, Nearer
<1>3. ASSUME NEW q \in Pods, NEW c \in Configs, Start(q, c) \/ StartFails(q, c)
      PROVE  pc[p] = "down" \/ (pc'[p] = pc[p] /\ rest'[p] = rest[p])
  BY <1>3 DEF IInv, TypeOK, Start, StartFails, Goto, loopVars
<1>4. ASSUME NEW q \in Pods, Leave(q) \/ Crash(q)
      PROVE  pc'[p] = "down" \/ (pc'[p] = pc[p] /\ rest'[p] = rest[p])
  BY <1>4 DEF IInv, TypeOK, Leave, Crash, Gone, Forgets, Goto
<1>5. UNCHANGED vars => pc'[p] = pc[p] /\ rest'[p] = rest[p]
  BY DEF vars, loopVars
<1> QED
  BY <1>1, <1>2, <1>3, <1>4, <1>5 DEF BootGoesOn, Next, Runs

\* The part of EveryBootEnds that needs no fairness: the lock of the volume is
\* with a pod that provisions, and a boot has finitely many steps, each of which
\* brings it nearer a worker or an exit: no download is begun twice in it.
THEOREM BootsComeToAnEnd ==
    Spec => [](\A p \in Pods : lock = p <=> pc[p] \in Provisioning) /\ [][BootsGoOn]_vars
<1>1. IInv => \A p \in Pods : lock = p <=> pc[p] \in Provisioning
  BY DEF IInv, Right, Locks
<1>2. IInv /\ [Next]_vars => [BootsGoOn]_vars
  BY BootsForward
<1> QED
  BY <1>1, <1>2, Invariance, PTL DEF Spec

-----------------------------------------------------------------------------
(* Refinement.                                                             *)

Whole == {m \in Models : Complete(m)}
Serving == [p \in Pods |-> IF pc[p] = "worker" THEN config[p].stack ELSE NoStack]

Closed == Whole \ open

\* The variables of SharedCache as this module names them.
LEMMA Mapping ==
    /\ Cache!vars = <<Whole, Closed, Serving>>
    /\ Cache!vars' = <<Whole', Closed', Serving'>>
  BY DEF Cache!vars, Whole, Closed, Serving

LEMMA CacheInit == Init => Cache!Init
  BY DEF Init, Cache!Init, Complete

\* A step that changes no file and neither starts nor ends a worker.
LEMMA Stutter ==
    ASSUME TypeOK, TypeOK', NEW p \in Pods, UNCHANGED fileVars,
           pc[p] # "worker", pc'[p] # "worker",
           \A q \in Pods \ {p} : pc'[q] = pc[q] /\ config'[q] = config[q]
    PROVE  UNCHANGED Cache!vars
<1>1. Whole' = Whole /\ Closed' = Closed
  BY DEF Whole, Closed, Complete, fileVars
<1>2. Serving' = Serving
  BY DEF Serving, TypeOK
<1> QED
  BY <1>1, <1>2, Mapping

\* Who serves what is untouched by a step that moves neither worker nor image.
LEMMA SameServing ==
    ASSUME TypeOK, TypeOK', NEW p \in Pods, config' = config,
           pc[p] # "worker", pc'[p] # "worker",
           \A q \in Pods \ {p} : pc'[q] = pc[q]
    PROVE  Serving' = Serving
  BY DEF Serving, TypeOK

LEMMA LaunchServes ==
    ASSUME IInv, NEW p \in Pods, Launch(p)
    PROVE  Cache!Serve(p, config[p].stack) /\ config[p].stack \in Stacks
<1>0. TypeOK /\ Right(p)
  BY DEF IInv
<1>1. config[p].stack \in Stacks /\ \A s \in Stacks : Needs[s] \subseteq Models
  BY <1>0, Stacked
<1>2. /\ Vouched(config[p].stack)
      /\ fingerprint[p] \in Stacks
      /\ Vouched(fingerprint[p]) /\ Sealed(fingerprint[p])
  BY <1>0 DEF Right, Safe, Launch
<1>3. Needs[config[p].stack] \subseteq Whole /\ Needs[fingerprint[p]] \subseteq Closed
  BY <1>1, <1>2 DEF Whole, Closed, Vouched, Sealed
<1>4. Whole' = Whole /\ Closed' = Closed
  BY DEF Launch, volumeVars, fileVars, Whole, Closed, Complete
<1>5. Serving' = [Serving EXCEPT ![p] = config[p].stack]
  BY <1>0 DEF Launch, Goto, Serving, TypeOK
<1> QED
  BY <1>1, <1>2, <1>3, <1>4, <1>5 DEF Cache!Serve, Whole, Closed, Serving

LEMMA LeaveLeaves ==
    ASSUME IInv, NEW p \in Pods, Leave(p)
    PROVE  Cache!Leave(p)
<1>0. TypeOK
  BY DEF IInv
<1>1. Whole' = Whole /\ Closed' = Closed
  BY DEF Leave, Gone, fileVars, Whole, Closed, Complete
<1>2. Serving' = [Serving EXCEPT ![p] = NoStack]
  BY <1>0 DEF Leave, Gone, Goto, Serving, TypeOK
<1> QED
  BY <1>1, <1>2 DEF Cache!Leave, Whole, Closed, Serving

LEMMA SecureSeals ==
    ASSUME IInv, IInv', NEW p \in Pods, NEW m \in Models, Secure(p, m)
    PROVE  [Cache!Next]_(Cache!vars)
<1>0. TypeOK
  BY DEF IInv
<1>1. Serving' = Serving /\ Whole' = Whole
  BY <1>0 DEF Secure, Serving, Whole, Complete
<1>2. CASE Complete(m)
  <2>1. m \in Whole /\ Closed' = Closed \cup {m}
    BY <1>1, <1>2 DEF Secure, Whole, Closed
  <2>2. Cache!Seal(m)
    BY <1>1, <2>1 DEF Cache!Seal, Whole, Closed, Serving
  <2> QED
    BY <2>2 DEF Cache!Next
<1>3. CASE ~Complete(m)
  <2>1. m \notin Whole /\ Closed' = Closed
    BY <1>1, <1>3 DEF Secure, Whole, Closed
  <2> QED
    BY <1>1, <2>1, Mapping
<1> QED
  BY <1>2, <1>3

LEMMA DownloadHides ==
    ASSUME IInv, IInv', NEW p \in Pods, NEW m \in Models, Download(p, m)
    PROVE  UNCHANGED Cache!vars
<1>0. TypeOK /\ TypeOK'
  BY DEF IInv
<1>1. Serving' = Serving
  BY <1>0, SameServing DEF Download, Goto, TypeOK
<1>2. Whole' = Whole
  BY <1>0 DEF Download, Whole, Complete, TypeOK
<1>3. Closed' = Closed
  BY <1>2 DEF Download, Whole, Closed, Complete
<1> QED
  BY <1>1, <1>2, <1>3, Mapping

LEMMA FetchedAdds ==
    ASSUME IInv, IInv', NEW p \in Pods, Fetched(p)
    PROVE  [Cache!Next]_(Cache!vars)
<1> DEFINE m == item[p]
<1>0. TypeOK /\ TypeOK' /\ Right(p)
  BY DEF IInv
<1>1. m \in Models
  BY <1>0, Stacked DEF Right, Locks, Fetched
<1>2. Serving' = Serving
  BY <1>0, SameServing DEF Fetched, Goto, TypeOK
<1>3. Whole' = Whole \cup {m}
  BY <1>0, <1>1 DEF Fetched, Whole, Complete, TypeOK
<1>4. CASE Complete(m)
  <2>1. Whole' = Whole
    BY <1>1, <1>3, <1>4 DEF Whole
  <2>2. Closed' = Closed
    BY <2>1, <1>4 DEF Fetched, Closed, Complete
  <2> QED
    BY <1>2, <2>1, <2>2, Mapping
<1>5. CASE ~Complete(m)
  <2>1. m \notin Whole
    BY <1>5 DEF Whole
  <2>2. open' = open \cup {m}
    BY <1>5 DEF Fetched, Complete
  <2>3. Closed' = Closed
    BY <1>3, <2>1, <2>2 DEF Closed
  <2>4. Cache!Add(m)
    BY <1>1, <1>2, <1>3, <2>1, <2>3 DEF Cache!Add, Whole, Closed, Serving
  <2> QED
    BY <1>1, <2>4 DEF Cache!Next
<1> QED
  BY <1>4, <1>5

LEMMA CacheStep == IInv /\ IInv' /\ [Next]_vars => [Cache!Next]_(Cache!vars)
<1> SUFFICES ASSUME IInv, IInv', [Next]_vars PROVE [Cache!Next]_(Cache!vars)
  OBVIOUS
<1>0. TypeOK /\ TypeOK'
  BY DEF IInv
<1>1. CASE UNCHANGED vars
  <2>1. Whole' = Whole /\ Closed' = Closed /\ Serving' = Serving
    BY <1>1 DEF vars, volumeVars, fileVars, Whole, Closed, Serving, Complete
  <2> QED
    BY <2>1, Mapping
<1>2. ASSUME NEW p \in Pods, NEW c \in Configs, Start(p, c) \/ StartFails(p, c)
      PROVE  UNCHANGED Cache!vars
  BY <1>0, <1>2, Stutter DEF Start, StartFails, Goto, volumeVars, TypeOK
<1>3. ASSUME NEW p \in Pods, Boot(p)
      PROVE  [Cache!Next]_(Cache!vars)
  <2>1. ASSUME NEW m \in Models, Skip(p, m)
        PROVE  UNCHANGED Cache!vars
    BY <1>0, <2>1, Stutter DEF Skip, volumeVars, TypeOK
  <2>2. ASSUME NEW m \in Models, Download(p, m) \/ Secure(p, m)
        PROVE  [Cache!Next]_(Cache!vars)
    BY <2>2, DownloadHides, SecureSeals
  <2>3. CASE \/ Validate(p) \/ CheckCache(p) \/ FoundReady(p) \/ Provision(p)
             \/ Publish(p) \/ FinalCheck(p)
    <3>1. /\ UNCHANGED <<fileVars, config>>
          /\ pc[p] # "worker" /\ pc'[p] # "worker"
          /\ \A q \in Pods \ {p} : pc'[q] = pc[q]
      BY <1>0, <2>3 DEF Validate, CheckCache, FoundReady, Provision, Publish, FinalCheck,
                        Goto, volumeVars, TypeOK
    <3> QED
      BY <1>0, <3>1, Stutter
  <2>4. CASE \/ ReadManifest(p) \/ TrustMarker(p) \/ Walk(p) \/ GroupIsBrokers(p)
             \/ OpenMarker(p) \/ WriteMarker(p)
    <3>1. /\ UNCHANGED <<fileVars, config>>
          /\ pc[p] # "worker" /\ pc'[p] # "worker"
          /\ \A q \in Pods \ {p} : pc'[q] = pc[q]
      BY <1>0, <2>4 DEF ReadManifest, TrustMarker, Walk, GroupIsBrokers, OpenMarker,
                        WriteMarker, Proceed, Goto, volumeVars, TypeOK
    <3> QED
      BY <1>0, <3>1, Stutter
  <2>5. CASE \/ StartBroker(p) \/ BrokerListens(p) \/ ProbePasses(p) \/ ProbeFails(p)
             \/ ResearchListens(p) \/ ResearchFails(p) \/ StopResearch(p) \/ StopBroker(p)
             \/ Hold(p) \/ Exit(p)
    <3>1. /\ UNCHANGED <<fileVars, config>>
          /\ pc[p] # "worker" /\ pc'[p] # "worker"
          /\ \A q \in Pods \ {p} : pc'[q] = pc[q]
      BY <1>0, <2>5 DEF StartBroker, BrokerListens, ProbePasses, ProbeFails, ResearchListens,
                        ResearchFails, StopResearch, StopBroker, Spawn, Stop, Hold, Exit, Gone,
                        Goto, volumeVars, TypeOK
    <3> QED
      BY <1>0, <3>1, Stutter
  <2>6. CASE Launch(p)
    <3>1. Cache!Serve(p, config[p].stack) /\ config[p].stack \in Stacks
      BY <2>6, LaunchServes
    <3>2. Cache!Next
      BY <3>1 DEF Cache!Next, Cache!Serve
    <3> QED
      BY <3>2
  <2> QED
    BY <1>3, <2>1, <2>2, <2>3, <2>4, <2>5, <2>6 DEF Boot
<1>4. ASSUME NEW p \in Pods, Acquire(p) \/ Raise(p) \/ Crash(p)
      PROVE  UNCHANGED Cache!vars
  <2>1. /\ UNCHANGED <<fileVars, config>>
        /\ pc[p] # "worker" /\ pc'[p] # "worker"
        /\ \A q \in Pods \ {p} : pc'[q] = pc[q]
    BY <1>0, <1>4 DEF Acquire, Raise, Crash, Gone, Goto, volumeVars, TypeOK
  <2> QED
    BY <1>0, <2>1, Stutter
<1>5. ASSUME NEW p \in Pods, Leave(p)
      PROVE  Cache!Next
  BY <1>5, LeaveLeaves DEF Cache!Next
<1>6. ASSUME NEW p \in Pods, Fetched(p)
      PROVE  [Cache!Next]_(Cache!vars)
  BY <1>6, FetchedAdds
<1> QED
  BY <1>1, <1>2, <1>3, <1>4, <1>5, <1>6 DEF Next

\* The pods, the lock and the two files on the volume implement a cache to which
\* models are added whole and sealed once and for all.
THEOREM Implements == Spec => ImplementsSharedCache
<1> QED
  BY CacheInit, CacheStep, Invariance, PTL DEF Spec, ImplementsSharedCache, Cache!Spec
=============================================================================
