------------------------- MODULE GpuSession_proofs -------------------------
(***************************************************************************)
(* Proofs about GpuSession, for every set of callers and environments: the *)
(* inductive invariant, what follows from it, and the refinement of        *)
(* GpuLease.                                                               *)
(***************************************************************************)
EXTENDS GpuSession, FiniteSetTheorems, TLAPS

\* A failure that goes to the caller is an answer.
LEMMA AnswerType ==
    /\ NoAnswer \in Answer /\ \A retryable \in BOOLEAN : Completed(retryable) \in Answer
    /\ \A cause \in {"busy", "input", "service", "disabled"}, retryable \in BOOLEAN :
         FailedBy(cause, retryable) \in Answer
  BY DEF Answer, NoAnswer, Completed, FailedBy

\* The process starts with no job and a free lock.
LEMMA InitHolds == ASSUME Init PROVE IInv
<1>1. TypeOK
  BY AnswerType DEF Init, TypeOK, Place, Job, Route
<1>2. LockHeld
  BY CallersAssumption DEF Init, LockHeld, Working
<1>3. OwnModels /\ InPlace /\ RetryIsTruthful /\ OnlyWorkRaises
  BY DEF Init, OwnModels, InPlace, Placed, RetryIsTruthful, Truthful, OnlyWorkRaises,
         MayRaise, Working, NoAnswer
<1> QED
  BY <1>1, <1>2, <1>3 DEF IInv

-----------------------------------------------------------------------------
(* A step moves one caller.                                                *)

\* Caller c comes to a place with an answer, the others stay where they are.
Moved(c, p, a) ==
    /\ pc' \in [Callers -> Place] /\ answer' \in [Callers -> Answer]
    /\ pc'[c] = p /\ answer'[c] = a
    /\ \A d \in Callers \ {c} : pc'[d] = pc[d] /\ answer'[d] = answer[d]

\* What the ways on, and out, of handle_job do.
LEMMA OneMoves ==
    ASSUME TypeOK, NEW c \in Callers
    PROVE  /\ \A p \in Place : GoesOn(c, p) => Moved(c, p, answer[c])
           /\ \A a \in Answer : Ends(c, a) => Moved(c, "ended", a)
           /\ Raises(c) => Moved(c, "raised", answer[c])
  BY DEF TypeOK, GoesOn, Ends, Raises, Goto, Moved, Place

\* A research failure is an answer, or an exception if no answer can be made.
LEMMA FailureMoves ==
    ASSUME TypeOK, NEW c \in Callers, NEW retryable \in BOOLEAN,
           NEW cause \in {"busy", "input", "service", "disabled"},
           ResearchFails(c, cause, retryable)
    PROVE  \/ Moved(c, "ended", FailedBy(cause, retryable))
           \/ (~env.registry \/ ~job[c].id) /\ Moved(c, "raised", answer[c])
<1>1. CASE env.registry /\ job[c].id
  BY <1>1, OneMoves, AnswerType DEF ResearchFails
<1>2. CASE ~(env.registry /\ job[c].id)
  BY <1>2, OneMoves DEF ResearchFails
<1> QED
  BY <1>1, <1>2

\* What is right about caller c.
Right(c) == Placed(c) /\ Truthful(c) /\ (pc[c] = "raised" => MayRaise(c))

\* The jobs of the others are their own.
Private(c) == \A d \in Callers \ {c} :
    job'[d] = job[d] /\ outcome'[d] = outcome[d] /\ served'[d] = served[d]

\* Callers that do not move stay right.
LEMMA OthersRight ==
    ASSUME IInv, NEW c \in Callers, NEW p, NEW a, Moved(c, p, a), env' = env,
           Private(c),
           Right(c)'
    PROVE  InPlace' /\ RetryIsTruthful' /\ OnlyWorkRaises'
<1>1. ASSUME NEW d \in Callers \ {c} PROVE Right(d)'
  BY <1>1 DEF IInv, InPlace, Placed, RetryIsTruthful, Truthful, OnlyWorkRaises, MayRaise,
              Right, Private, Moved
<1>2. \A d \in Callers : Right(d)'
  BY <1>1
<1> QED
  BY <1>2 DEF Right, InPlace, RetryIsTruthful, OnlyWorkRaises

\* A step of a caller that neither has the lock nor takes it.
LEMMA OutsideKeeps ==
    ASSUME IInv, NEW c \in Callers, NEW p \in Place, NEW a, Moved(c, p, a),
           UNCHANGED <<env, lock, using, job, outcome, served>>,
           pc[c] \notin Working, p \notin Working, Right(c)'
    PROVE  IInv'
<1>1. TypeOK' /\ LockHeld'
  BY DEF IInv, TypeOK, LockHeld, Moved
<1>2. OwnModels'
  BY DEF IInv, TypeOK, OwnModels, Slot, Moved, Working
<1>3. Private(c)
  BY DEF Private
<1>4. InPlace' /\ RetryIsTruthful' /\ OnlyWorkRaises'
  BY <1>3, OthersRight
<1> QED
  BY <1>1, <1>2, <1>4 DEF IInv

\* A new job: whatever it is, it starts without the lock.
LEMMA ReceiveKeeps == ASSUME IInv, NEW c \in Callers, Receive(c) PROVE IInv'
<1>1. PICK j \in Job : job' = [job EXCEPT ![c] = j]
  BY DEF Receive
<1>2. TypeOK'
  BY <1>1, AnswerType DEF IInv, Receive, TypeOK, Goto, Place
<1>3. Moved(c, "prepare", NoAnswer)
  BY <1>2 DEF IInv, Receive, TypeOK, Goto, Moved
<1>4. LockHeld'
  BY DEF IInv, Receive, TypeOK, LockHeld, Goto, Working
<1>5. OwnModels'
  BY <1>1 DEF IInv, Receive, TypeOK, OwnModels, Slot, Goto, Working
<1>6. Right(c)'
  BY <1>1, <1>3 DEF IInv, TypeOK, Receive, Right, Placed, Truthful, Moved, Working
<1>7. Private(c)
  BY <1>1 DEF IInv, TypeOK, Receive, Private
<1>8. InPlace' /\ RetryIsTruthful' /\ OnlyWorkRaises'
  BY <1>3, <1>6, <1>7, OthersRight DEF Receive
<1> QED
  BY <1>2, <1>4, <1>5, <1>8 DEF IInv

\* What a caller does before the lock keeps the invariant: it comes to a place
\* that its job and the environment allow.
LEMMA PrepareKeeps == ASSUME IInv, NEW c \in Callers, Prepare(c) PROVE IInv'
<1> DEFINE Goes == \E p \in Place \ Working, a \in Answer : Moved(c, p, a) /\ Right(c)'
<1>1. /\ pc[c] = "prepare" /\ ~served[c] /\ answer[c] = NoAnswer /\ TypeOK
      /\ UNCHANGED <<env, lock, using, job, outcome, served>>
  BY DEF IInv, InPlace, Placed, Prepare, PrepareNothing, PrepareProbe, PrepareEvent,
         PrepareResearch, PrepareBatch, Preparing
<1>2. ASSUME NEW p \in {"wait", "acquire", "report"}, GoesOn(c, p),
             p = "wait" => job[c].route = "probe" /\ env.probes,
             p = "acquire" => job[c].route \in {"event", "research", "batch"},
             p = "report" => job[c].route = "event",
             job[c].route = "event" => env.events /\ job[c].valid
      PROVE  Goes
  <2>1. Moved(c, p, NoAnswer)
    BY <1>1, <1>2, OneMoves DEF Place
  <2> QED
    BY <1>1, <1>2, <2>1, AnswerType DEF Right, Placed, Truthful, Moved, Working, Place
<1>3. ASSUME NEW cause \in {"input", "disabled"}, Ends(c, FailedBy(cause, FALSE)) PROVE Goes
  <2>1. Moved(c, "ended", FailedBy(cause, FALSE))
    BY <1>1, <1>3, OneMoves, AnswerType
  <2> QED
    BY <1>1, <2>1, AnswerType DEF Right, Placed, Truthful, Moved, Working, Place, FailedBy
<1>4. ASSUME Moved(c, "raised", answer[c]), MayRaise(c) PROVE Goes
  BY <1>1, <1>4, AnswerType DEF Right, Placed, Truthful, MayRaise, Moved, Working, Place
<1> SUFFICES Goes
  BY <1>1, OutsideKeeps DEF Working
<1> HIDE DEF Goes
<1>5. CASE PrepareNothing(c)
  BY <1>3, <1>5 DEF PrepareNothing
<1>6. CASE PrepareProbe(c)
  BY <1>1, <1>2, <1>4, <1>6, OneMoves DEF PrepareProbe, Preparing, MayRaise
<1>7. CASE PrepareEvent(c)
  BY <1>1, <1>2, <1>3, <1>4, <1>7, OneMoves DEF PrepareEvent, Preparing, MayRaise
<1>8. CASE PrepareResearch(c)
  <2>1. CASE job[c].valid
    BY <1>2, <1>8, <2>1 DEF PrepareResearch, Preparing
  <2>2. CASE ~job[c].valid
    <3>1. ResearchFails(c, "input", FALSE)
      BY <1>8, <2>2 DEF PrepareResearch
    <3>2. CASE env.registry /\ job[c].id
      BY <1>3, <3>1, <3>2 DEF ResearchFails
    <3>3. CASE ~(env.registry /\ job[c].id)
      BY <1>1, <1>4, <1>8, <3>1, <3>3, OneMoves
      DEF ResearchFails, PrepareResearch, Preparing, MayRaise
    <3> QED
      BY <3>2, <3>3
  <2> QED
    BY <2>1, <2>2
<1>9. CASE PrepareBatch(c)
  BY <1>1, <1>2, <1>3, <1>4, <1>9, OneMoves DEF PrepareBatch, Preparing, MayRaise
<1> QED
  BY <1>5, <1>6, <1>7, <1>8, <1>9 DEF Prepare

\* The lock is taken by another job: the caller gives up, or goes on without.
LEMMA BusyKeeps == ASSUME IInv, NEW c \in Callers, Busy(c) PROVE IInv'
<1> DEFINE Goes == \E p \in Place \ Working, a \in Answer : Moved(c, p, a) /\ Right(c)'
<1>1. /\ pc[c] = "acquire" /\ Placed(c) /\ TypeOK
      /\ ~served[c] /\ answer[c] = NoAnswer
      /\ UNCHANGED <<env, lock, using, job, outcome, served>>
  BY DEF IInv, InPlace, Placed, Busy
<1> SUFFICES Goes
  BY <1>1, OutsideKeeps DEF Working
<1>2. CASE job[c].route = "event"
  <2>1. Moved(c, "report", NoAnswer)
    BY <1>1, <1>2, OneMoves DEF Busy, Place
  <2> QED
    BY <1>1, <1>2, <2>1, AnswerType DEF Right, Placed, Truthful, Moved, Working, Place
<1>3. CASE job[c].route = "research"
  <2>1. \/ Moved(c, "ended", FailedBy("busy", TRUE))
        \/ (~env.registry \/ ~job[c].id) /\ Moved(c, "raised", answer[c])
    BY <1>1, <1>3, FailureMoves DEF Busy
  <2> QED
    BY <1>1, <1>3, <2>1, AnswerType
    DEF Right, Placed, Truthful, MayRaise, Moved, Working, Place, FailedBy
<1>4. CASE job[c].route \notin {"event", "research"}
  <2>1. Moved(c, "ended", FailedBy("busy", TRUE))
    BY <1>1, <1>4, OneMoves, AnswerType DEF Busy
  <2>2. job[c].route = "batch"
    BY <1>1, <1>4 DEF Placed
  <2> QED
    BY <1>1, <2>1, <2>2, AnswerType DEF Right, Placed, Truthful, Moved, Working, Place, FailedBy
<1> QED
  BY <1>2, <1>3, <1>4

\* The report of an event.
LEMMA ReportKeeps == ASSUME IInv, NEW c \in Callers, Report(c) PROVE IInv'
<1> DEFINE Goes == \E p \in Place \ Working, a \in Answer : Moved(c, p, a) /\ Right(c)'
<1>1. /\ pc[c] = "report" /\ job[c].route = "event" /\ env.events /\ job[c].valid /\ TypeOK
      /\ answer[c] = NoAnswer
      /\ UNCHANGED <<env, lock, using, job, outcome, served>>
  BY DEF IInv, InPlace, Placed, Report
<1>2. \/ Moved(c, "ended", Completed(FALSE)) \/ Moved(c, "ended", FailedBy("input", FALSE))
      \/ Moved(c, "raised", NoAnswer)
  BY <1>1, OneMoves, AnswerType DEF Report
<1>3. Goes
  BY <1>1, <1>2, AnswerType
  DEF Right, Placed, Truthful, MayRaise, Moved, Working, Place, FailedBy, Completed
<1> QED
  BY <1>1, <1>3, OutsideKeeps DEF Working
-----------------------------------------------------------------------------
(* Steps of the caller that has the lock, or takes it.                     *)

\* The lock is taken.
LEMMA AcquireKeeps == ASSUME IInv, NEW c \in Callers, Acquire(c) PROVE IInv'
<1>1. Moved(c, "work", answer[c]) /\ pc[c] \in {"acquire", "wait"} /\ lock = Free
  BY OneMoves DEF IInv, Acquire, Place
<1>2. TypeOK'
  BY <1>1 DEF IInv, TypeOK, Acquire, Moved
<1>3. LockHeld'
  BY <1>1, CallersAssumption DEF IInv, TypeOK, LockHeld, Acquire, Moved, Working
<1>4. OwnModels'
  BY <1>1 DEF IInv, TypeOK, OwnModels, Slot, Acquire, Moved
<1>5. Right(c)'
  BY <1>1 DEF IInv, TypeOK, InPlace, Right, Placed, Truthful, Acquire, Moved, Working
<1>6. Private(c)
  BY DEF IInv, TypeOK, Acquire, Private
<1> QED
  BY <1>1, <1>2, <1>3, <1>4, <1>5, <1>6, OthersRight DEF IInv, Acquire

\* A model is loaded: nobody else has one on the GPU.
LEMMA UseGpuKeeps == ASSUME IInv, NEW c \in Callers, UseGpu(c) PROVE IInv'
<1>1. Moved(c, "running", answer[c]) /\ pc[c] = "work"
  BY OneMoves DEF IInv, UseGpu, Place
<1>2. TypeOK'
  BY <1>1 DEF IInv, TypeOK, UseGpu, Moved, Slot
<1>3. LockHeld'
  BY <1>1 DEF IInv, TypeOK, LockHeld, UseGpu, Moved, Working
<1>4. OwnModels'
  BY <1>1 DEF IInv, TypeOK, OwnModels, Slot, UseGpu, Moved
<1>5. Right(c)'
  BY <1>1 DEF IInv, TypeOK, InPlace, Right, Placed, Truthful, UseGpu, Moved, Working
<1> QED
  BY <1>1, <1>2, <1>3, <1>4, <1>5, OthersRight DEF IInv, UseGpu, Private

\* The work ends, in one way or another.
LEMMA EndKeeps ==
    ASSUME IInv, NEW c \in Callers, EndUnused(c) \/ EndWork(c) \/ EndCall(c)
    PROVE  IInv'
<1>1. /\ Moved(c, "leave", answer[c]) /\ pc[c] \in {"work", "running"}
      /\ UNCHANGED <<env, lock, job, served>>
  BY OneMoves DEF IInv, EndUnused, EndWork, EndCall, Place
<1>2. PICK o \in {"done", "input", "service", "other"} : outcome' = [outcome EXCEPT ![c] = o]
  BY DEF EndUnused, EndWork, EndCall, Outcomes, ProbeEnds
<1>6. TypeOK'
  <2>1. using' \subseteq using
    BY DEF EndUnused, EndWork, EndCall
  <2> QED
    BY <1>1, <1>2, <2>1 DEF IInv, TypeOK, Moved
<1>3. LockHeld'
  BY <1>1 DEF IInv, TypeOK, LockHeld, Moved, Working
<1>4. OwnModels'
  <2>1. CASE EndUnused(c)
    BY <1>1, <2>1 DEF IInv, TypeOK, OwnModels, Slot, EndUnused, Moved
  <2>2. CASE EndWork(c)
    BY <1>1, <2>2 DEF IInv, TypeOK, OwnModels, Slot, EndWork, Moved
  <2>3. CASE EndCall(c)
    BY <1>1, <2>3 DEF IInv, TypeOK, OwnModels, Slot, EndCall, Moved
  <2> QED
    BY <2>1, <2>2, <2>3
<1>5. Right(c)'
  BY <1>1, <1>2 DEF IInv, TypeOK, InPlace, Right, Placed, Truthful, Moved, Working
<1>7. Private(c)
  BY <1>1, <1>2 DEF IInv, TypeOK, Private
<1> QED
  BY <1>1, <1>3, <1>4, <1>5, <1>6, <1>7, OthersRight DEF IInv

\* A research child ends.
LEMMA AgentKeeps == ASSUME IInv, NEW c \in Callers, AgentEnds(c) PROVE IInv'
<1>1. TypeOK' /\ LockHeld' /\ InPlace' /\ RetryIsTruthful' /\ OnlyWorkRaises'
  BY DEF IInv, TypeOK, LockHeld, InPlace, Placed, RetryIsTruthful, Truthful, OnlyWorkRaises,
         MayRaise, AgentEnds, callerVars
<1>2. OwnModels'
  BY DEF IInv, OwnModels, Slot, AgentEnds, callerVars
<1> QED
  BY <1>1, <1>2 DEF IInv

\* The lock is given back, whatever the outcome.
LEMMA LeaveKeeps == ASSUME IInv, NEW c \in Callers, Leave(c) PROVE IInv'
<1> DEFINE Goes == \E p \in Place \ Working, a \in Answer : Moved(c, p, a) /\ Right(c)'
<1>1. /\ pc[c] = "leave" /\ Placed(c) /\ TypeOK /\ served[c] /\ answer[c] = NoAnswer
      /\ UNCHANGED <<env, using, job, outcome, served>> /\ lock' = Free /\ lock = c
  BY DEF IInv, InPlace, Placed, Leave, LockHeld, Working
<1>2. \/ job[c].route = "event" /\ Moved(c, "report", NoAnswer)
      \/ \E again \in BOOLEAN : /\ Moved(c, "ended", Completed(again))
                                /\ job[c].route = "probe" => ~again
                                /\ job[c].route # "event"
      \/ Moved(c, "ended", FailedBy("input", FALSE))
      \/ job[c].route = "research" /\ Moved(c, "ended", FailedBy("service", TRUE))
      \/ /\ job[c].route = "research" => ~env.registry \/ ~job[c].id
         /\ Moved(c, "raised", NoAnswer)
  <2>1. CASE job[c].route = "research" /\ outcome[c] \in {"input", "service", "other"}
    <3>1. \/ ResearchFails(c, "input", FALSE) \/ ResearchFails(c, "service", TRUE)
      BY <2>1 DEF Leave
    <3> QED
      BY <1>1, <2>1, <3>1, FailureMoves
  <2>2. CASE outcome[c] = "done"
    <3>1. CASE job[c].route = "event"
      BY <1>1, <2>2, <3>1, OneMoves DEF Leave, Place
    <3>2. CASE job[c].route # "event"
      <4>1. Returns(c)
        BY <2>2, <3>2 DEF Leave
      <4>2. PICK again \in BOOLEAN :
              /\ job[c].route = "probe" => ~again
              /\ Ends(c, Completed(again))
        BY <4>1 DEF Returns
      <4>3. Moved(c, "ended", Completed(again))
        BY <1>1, <4>2, OneMoves, AnswerType
      <4> QED
        BY <3>2, <4>2, <4>3
    <3> QED
      BY <3>1, <3>2
  <2>3. CASE job[c].route # "research" /\ outcome[c] # "done"
    BY <1>1, <2>3, OneMoves, AnswerType DEF Leave, Place
  <2>4. outcome[c] \in {"done", "input", "service", "other"}
    BY <1>1 DEF Placed, TypeOK
  <2> QED
    BY <2>1, <2>2, <2>3, <2>4
<1>3. Goes
  <2>1. CASE \/ job[c].route = "event" /\ Moved(c, "report", NoAnswer)
             \/ /\ job[c].route = "research" => ~env.registry \/ ~job[c].id
                /\ Moved(c, "raised", NoAnswer)
    BY <1>1, <2>1, AnswerType DEF Right, Placed, Truthful, MayRaise, Moved, Working, Place
  <2>2. CASE \/ Moved(c, "ended", FailedBy("input", FALSE))
             \/ job[c].route = "research" /\ Moved(c, "ended", FailedBy("service", TRUE))
    BY <1>1, <2>2, AnswerType DEF Right, Placed, Truthful, Moved, Working, Place, FailedBy
  <2>3. CASE \E again \in BOOLEAN : /\ Moved(c, "ended", Completed(again))
                                    /\ job[c].route = "probe" => ~again
                                    /\ job[c].route # "event"
    <3>1. PICK again \in BOOLEAN : /\ Moved(c, "ended", Completed(again))
                                   /\ job[c].route = "probe" => ~again
                                   /\ job[c].route # "event"
      BY <2>3
    <3>2. again => job[c].route \in {"research", "batch"}
      BY <1>1, <3>1 DEF Placed, TypeOK, Job, Route, Working
    <3>3. /\ Completed(again) \in Answer /\ Completed(again).status = "completed"
          /\ Completed(again).cause = "none" /\ Completed(again).retryable = again
      BY AnswerType DEF Completed
    <3>4. Right(c)'
      BY <1>1, <3>1, <3>2, <3>3 DEF Right, Placed, Truthful, Moved, Working
    <3> QED
      BY <3>1, <3>3, <3>4 DEF Working, Place
  <2> QED
    BY <1>2, <2>1, <2>2, <2>3
<1>4. PICK p \in Place \ Working, a \in Answer : Moved(c, p, a) /\ Right(c)'
  BY <1>3
<1>5. TypeOK'
  BY <1>1, <1>4 DEF TypeOK, Moved
<1>6. LockHeld'
  BY <1>1, <1>4, CallersAssumption DEF IInv, LockHeld, Moved
<1>7. OwnModels'
  BY <1>1, <1>4 DEF IInv, TypeOK, OwnModels, Slot, Moved
<1>8. Private(c)
  BY <1>1 DEF Private
<1> QED
  BY <1>1, <1>4, <1>5, <1>6, <1>7, <1>8, OthersRight DEF IInv
-----------------------------------------------------------------------------
(* The theorems.                                                           *)

\* Every step keeps the inductive invariant.
LEMMA Inductive == ASSUME IInv, [Next]_vars PROVE IInv'
<1>1. CASE UNCHANGED vars
  BY <1>1 DEF IInv, TypeOK, LockHeld, OwnModels, Slot, InPlace, Placed, RetryIsTruthful, Truthful,
              OnlyWorkRaises, MayRaise, vars, callerVars
<1>2. ASSUME NEW c \in Callers, Receive(c) \/ Step(c) \/ AgentEnds(c) PROVE IInv'
  BY <1>2, ReceiveKeeps, PrepareKeeps, AcquireKeeps, BusyKeeps, UseGpuKeeps, EndKeeps,
     LeaveKeeps, ReportKeeps, AgentKeeps DEF Step
<1> QED
  BY <1>1, <1>2 DEF Next

\* Who has the lock, what is on the GPU, and which caller is where: for every
\* set of callers, every environment, and a research model that may or may not
\* outlive its call.
THEOREM Invariance == Spec => []IInv
<1>1. Init => IInv
  BY InitHolds
<1>2. IInv /\ [Next]_vars => IInv'
  BY Inductive
<1> QED
  BY <1>1, <1>2, PTL DEF Spec

\* Type correctness.
THEOREM TypeCorrect == Spec => []TypeOK
  BY Invariance, PTL DEF IInv

\* The work on the GPU is sequential for any number of callers.
THEOREM WorkIsSequential == Spec => []OneJobOnGpu
<1>1. ASSUME IInv PROVE OneJobOnGpu
  <2>1. \A s \in using : InCall(s) \/ (AgentOutlivesCall /\ s[2] = "agent")
    BY <1>1, CallersAssumption DEF IInv, TypeOK, OwnModels, InCall
  <2>2. {s \in using : InCall(s)} \subseteq {Slot(lock)}
    BY <1>1 DEF IInv, TypeOK, InCall, LockHeld, Working
  <2>3. IsFiniteSet({Slot(lock)}) /\ Cardinality({Slot(lock)}) = 1
    BY FS_Singleton
  <2>4. Cardinality({s \in using : InCall(s)}) <= Cardinality({Slot(lock)})
    BY <2>2, <2>3, FS_Subset
  <2> QED
    BY <2>1, <2>3, <2>4 DEF OneJobOnGpu
<1> QED
  BY <1>1, Invariance, PTL

\* What a caller is told about a retry fits what was done with its job, whether
\* it was refused, failed or finished (handle_job and the outputs it returns).
THEOREM RetryAdviceHolds == Spec => []RetryIsTruthful
  BY Invariance, PTL DEF IInv

\* Which exceptions may leave handle_job.
THEOREM RaisesAreBounded == Spec => []OnlyWorkRaises
  BY Invariance, PTL DEF IInv

\* How far a call is.
CallAt(place) == CASE place = "prepare" -> 1 [] place \in {"wait", "acquire"} -> 2
                   [] place = "work" -> 3 [] place = "running" -> 4 [] place = "leave" -> 5
                   [] place = "report" -> 6 [] OTHER -> 7

\* Whoever has the lock is at a place whose next step needs no lock, and each
\* step of a call brings it nearer its end; nobody else moves it, and a new
\* call is all that follows the end.
CallGoesOn(c) ==
    IF Step(c) THEN CallAt(pc[c]) < CallAt(pc'[c])
               ELSE pc'[c] = pc[c] \/ (pc[c] \in {"ended", "raised"} /\ pc'[c] = "prepare")
CallsGoOn == \A c \in Callers : CallGoesOn(c)

LEMMA StepForward ==
    ASSUME TypeOK, NEW c \in Callers, Step(c)
    PROVE  /\ CallAt(pc[c]) < CallAt(pc'[c])
           /\ \A d \in Callers \ {c} : pc'[d] = pc[d]
<1> USE DEF TypeOK, CallAt, Goto, GoesOn, Ends, Raises
<1>1. CASE Prepare(c)
  <2>1. pc[c] = "prepare" /\ \E p \in Place \ {"prepare"} : Goto(c, p)
    BY <1>1 DEF Prepare, Preparing, PrepareNothing, PrepareProbe, PrepareEvent, PrepareResearch,
                PrepareBatch, ResearchFails, Place
  <2> QED
    BY <2>1 DEF Place
<1>2. CASE Busy(c)
  <2>1. pc[c] = "acquire" /\ \E p \in {"report", "ended", "raised"} : Goto(c, p)
    BY <1>2 DEF Busy, ResearchFails
  <2> QED
    BY <2>1
<1>3. CASE Leave(c)
  <2>1. pc[c] = "leave" /\ \E p \in {"report", "ended", "raised"} : Goto(c, p)
    BY <1>3 DEF Leave, Returns, ResearchFails
  <2> QED
    BY <2>1
<1>4. CASE Acquire(c) \/ UseGpu(c) \/ EndUnused(c) \/ EndWork(c) \/ EndCall(c)
  BY <1>4 DEF Acquire, UseGpu, EndUnused, EndWork, EndCall
<1>5. CASE Report(c)
  <2>1. pc[c] = "report" /\ \E p \in {"ended", "raised"} : Goto(c, p)
    BY <1>5 DEF Report
  <2> QED
    BY <2>1
<1> QED
  BY <1>1, <1>2, <1>3, <1>4, <1>5 DEF Step

LEMMA CallsForward == ASSUME TypeOK, [Next]_vars PROVE CallsGoOn
<1> SUFFICES ASSUME NEW c \in Callers PROVE CallGoesOn(c)
  BY DEF CallsGoOn
<1>1. CASE Step(c)
  BY <1>1, StepForward DEF CallGoesOn
<1>2. ASSUME ~Step(c), NEW d \in Callers, Step(d) PROVE pc'[c] = pc[c]
  <2>1. d # c
    BY <1>2
  <2> QED
    BY <1>2, <2>1, StepForward
<1>3. ASSUME NEW d \in Callers, Receive(d)
      PROVE  pc'[c] = pc[c] \/ (pc[c] \in {"ended", "raised"} /\ pc'[c] = "prepare")
  BY <1>3 DEF TypeOK, Receive, Goto
<1>4. ASSUME NEW d \in Callers, AgentEnds(d) PROVE pc'[c] = pc[c]
  BY <1>4 DEF AgentEnds, callerVars
<1>5. UNCHANGED vars => pc'[c] = pc[c]
  BY DEF vars, callerVars
<1> QED
  BY <1>1, <1>2, <1>3, <1>4, <1>5 DEF CallGoesOn, Next

\* The part of EveryRequestEnds that needs no fairness: whatever raises, the
\* lock is with a call that is under way and waits for nothing but its model,
\* and a call is over after a bounded number of steps.
THEOREM CallsComeToAnEnd ==
    Spec => [](\A c \in Callers : lock = c <=> pc[c] \in Working) /\ [][CallsGoOn]_vars
<1>1. IInv => \A c \in Callers : lock = c <=> pc[c] \in Working
  BY DEF IInv, LockHeld
<1>2. IInv /\ [Next]_vars => [CallsGoOn]_vars
  BY CallsForward DEF IInv
<1> QED
  BY <1>1, <1>2, Invariance, PTL DEF Spec

-----------------------------------------------------------------------------
(* The refinement of GpuLease.                                             *)

told == [c \in Callers |-> Told(c)]

\* One caller moves: only what it has been told changes.
LEMMA Tells ==
    ASSUME NEW c \in Callers, NEW p, NEW a, Moved(c, p, a)
    PROVE  /\ told' = [told EXCEPT ![c] = Told(c)']
           /\ Told(c)' = CASE p = "raised" -> "raised"
                           [] p = "ended" /\ a.cause = "busy" -> "busy"
                           [] p = "ended" /\ a.status = "none" -> "nothing"
                           [] p = "ended" /\ a.status # "none" /\ a.cause # "busy" -> a.status
                           [] OTHER -> "pending"
<1>1. \A d \in Callers \ {c} : Told(d)' = Told(d)
  BY DEF Moved, Told
<1>2. told' = [told EXCEPT ![c] = Told(c)']
  BY <1>1 DEF told
<1> QED
  BY <1>2 DEF Moved, Told

\* A caller that is inside handle_job waits for an answer.
LEMMA InsidePending ==
    ASSUME NEW c \in Callers, pc[c] \notin {"ended", "raised"}
    PROVE  told[c] = "pending" /\ Told(c) = "pending"
  BY DEF told, Told

\* What a failed research job is told.
LEMMA FailureTold ==
    ASSUME TypeOK, NEW c \in Callers, NEW retryable \in BOOLEAN,
           NEW cause \in {"busy", "input", "service", "disabled"},
           ResearchFails(c, cause, retryable)
    PROVE  /\ told' = [told EXCEPT ![c] = Told(c)']
           /\ Told(c)' \in {"raised", IF cause = "busy" THEN "busy" ELSE "failed"}
<1>1. CASE Moved(c, "ended", FailedBy(cause, retryable))
  BY <1>1, Tells DEF FailedBy
<1>2. CASE Moved(c, "raised", answer[c])
  BY <1>2, Tells
<1> QED
  BY <1>1, <1>2, FailureMoves

\* What the ways on, and out, tell the caller.
LEMMA OneTold ==
    ASSUME TypeOK, NEW c \in Callers
    PROVE  /\ \A p \in Place \ {"ended", "raised"} : GoesOn(c, p) =>
                told' = [told EXCEPT ![c] = "pending"] /\ Told(c)' = "pending"
           /\ Raises(c) => told' = [told EXCEPT ![c] = "raised"]
           /\ \A retryable \in BOOLEAN :
                Ends(c, Completed(retryable)) => told' = [told EXCEPT ![c] = "completed"]
           /\ \A cause \in {"input", "service", "disabled"}, retryable \in BOOLEAN :
                Ends(c, FailedBy(cause, retryable)) => told' = [told EXCEPT ![c] = "failed"]
           /\ Ends(c, FailedBy("busy", TRUE)) => told' = [told EXCEPT ![c] = "busy"]
<1>1. ASSUME NEW p \in Place \ {"ended", "raised"}, GoesOn(c, p)
      PROVE  told' = [told EXCEPT ![c] = "pending"] /\ Told(c)' = "pending"
  BY <1>1, OneMoves, Tells
<1>2. ASSUME Raises(c) PROVE told' = [told EXCEPT ![c] = "raised"]
  BY <1>2, OneMoves, Tells
<1>3. ASSUME NEW retryable \in BOOLEAN, Ends(c, Completed(retryable))
      PROVE  told' = [told EXCEPT ![c] = "completed"]
  BY <1>3, OneMoves, AnswerType, Tells DEF Completed
<1>4. ASSUME NEW cause \in {"input", "service", "disabled"}, NEW retryable \in BOOLEAN,
             Ends(c, FailedBy(cause, retryable))
      PROVE  told' = [told EXCEPT ![c] = "failed"]
  <2>1. Moved(c, "ended", FailedBy(cause, retryable))
    BY <1>4, OneMoves, AnswerType
  <2> QED
    BY <2>1, Tells DEF FailedBy
<1>5. ASSUME Ends(c, FailedBy("busy", TRUE)) PROVE told' = [told EXCEPT ![c] = "busy"]
  <2>1. Moved(c, "ended", FailedBy("busy", TRUE))
    BY <1>5, OneMoves, AnswerType
  <2> QED
    BY <2>1, Tells DEF FailedBy
<1> QED
  BY <1>1, <1>2, <1>3, <1>4, <1>5

\* Every step gives, takes or refuses the lease, ends a request, or is no step of it.
LEMMA MapsStep == ASSUME IInv, [Next]_vars PROVE [Lease!Next]_(Lease!vars)
<1> DEFINE Still == UNCHANGED <<lock, told>>
<1> SUFFICES Lease!Next \/ Still
  BY DEF Lease!vars, told
<1>1. TypeOK /\ told \in [Callers -> {Told(d) : d \in Callers}]
  BY DEF IInv, told
<1>2. \A d \in Callers : told' = [told EXCEPT ![d] = told[d]] => told' = told
  BY <1>1
<1>3. CASE UNCHANGED vars
  BY <1>3 DEF vars, callerVars, told, Told
<1>4. ASSUME NEW c \in Callers, Receive(c) PROVE Lease!Next
  <2>1. Moved(c, "prepare", NoAnswer)
    BY <1>1, <1>4, ReceiveKeeps DEF IInv, Receive, TypeOK, Goto, Moved
  <2>2. told' = [told EXCEPT ![c] = "pending"]
    BY <2>1, Tells
  <2>3. lock # c /\ lock' = lock
    BY <1>4 DEF IInv, LockHeld, Working, Receive
  <2> QED
    BY <2>2, <2>3 DEF Lease!Next, Lease!Open, told
<1>5. ASSUME NEW c \in Callers, Prepare(c) \/ Report(c) PROVE Lease!Next \/ Still
  <2>1. pc[c] \in {"prepare", "report"} /\ lock' = lock
    BY <1>5 DEF Prepare, PrepareNothing, PrepareProbe, PrepareEvent, PrepareResearch,
                PrepareBatch, Preparing, Report
  <2>2. lock # c /\ told[c] = "pending"
    BY <2>1, InsidePending DEF IInv, LockHeld, Working
  <2>3. \/ \E p \in {"wait", "acquire", "report"} : GoesOn(c, p)
        \/ Raises(c) \/ Ends(c, Completed(FALSE))
        \/ \E cause \in {"input", "disabled"} : Ends(c, FailedBy(cause, FALSE))
    BY <1>5 DEF Prepare, PrepareNothing, PrepareProbe, PrepareEvent, PrepareResearch,
                PrepareBatch, ResearchFails, Report
  <2>4. \/ told' = [told EXCEPT ![c] = "pending"]
        \/ \E t \in {"completed", "failed", "raised"} : told' = [told EXCEPT ![c] = t]
    BY <1>1, <2>3, OneTold DEF Place
  <2> QED
    BY <1>2, <2>1, <2>2, <2>4 DEF Lease!Next, Lease!End, Lease!Final, told
<1>6. ASSUME NEW c \in Callers, Acquire(c) PROVE Lease!Next
  <2>1. told[c] = "pending" /\ lock = Free /\ lock' = c
    BY <1>6, InsidePending DEF Acquire
  <2>2. told' = told
    BY <1>1, <1>2, <1>6, <2>1, OneTold DEF Acquire, Place
  <2> QED
    BY <2>1, <2>2 DEF Lease!Next, Lease!Enter, told
<1>7. ASSUME NEW c \in Callers, Busy(c) PROVE Lease!Next \/ Still
  <2>1. told[c] = "pending" /\ lock \notin {c, Free} /\ lock' = lock
    BY <1>7, InsidePending DEF Busy, IInv, LockHeld, Working
  <2>2. \E t \in {"pending", "busy", "raised"} : told' = [told EXCEPT ![c] = t]
    BY <1>1, <1>7, OneTold DEF Busy, ResearchFails, Place
  <2> QED
    BY <1>2, <2>1, <2>2 DEF Lease!Next, Lease!Refuse, Lease!End, Lease!Final, told
<1>8. ASSUME NEW c \in Callers, UseGpu(c) \/ EndUnused(c) \/ EndWork(c) \/ EndCall(c)
      PROVE  Still
  <2>1. pc[c] \in {"work", "running"} /\ lock' = lock /\ (GoesOn(c, "running") \/ GoesOn(c, "leave"))
    BY <1>8 DEF UseGpu, EndUnused, EndWork, EndCall
  <2>2. told[c] = "pending" /\ told' = [told EXCEPT ![c] = "pending"]
    BY <1>1, <2>1, OneTold, InsidePending DEF Place
  <2> QED
    BY <1>2, <2>1, <2>2
<1>9. ASSUME NEW c \in Callers, AgentEnds(c) PROVE Still
  BY <1>9 DEF AgentEnds, callerVars, told, Told
<1>10. ASSUME NEW c \in Callers, Leave(c) PROVE Lease!Next
  <2>1. lock = c /\ lock' = Free
    BY <1>10 DEF Leave, IInv, LockHeld, Working
  <2>2. \E t \in {"pending", "completed", "failed", "raised"} : told' = [told EXCEPT ![c] = t]
    BY <1>1, <1>10, OneTold DEF Leave, Returns, ResearchFails, Place
  <2> QED
    BY <2>1, <2>2 DEF Lease!Next, Lease!Leave, Lease!Final, told
<1> QED
  BY <1>3, <1>4, <1>5, <1>6, <1>7, <1>8, <1>9, <1>10 DEF Next, Step

\* handle_job, with its routes, lock and exceptions, implements GpuLease: one
\* request has the GPU at a time, and "busy" is only said while another has it.
THEOREM Implements == Spec => ImplementsLease
<1>1. Init => Lease!Init
  BY DEF Init, Lease!Init, Told, NoAnswer
<1>2. IInv /\ [Next]_vars => [Lease!Next]_(Lease!vars)
  BY MapsStep
<1> QED
  BY <1>1, <1>2, Invariance, PTL DEF Spec, ImplementsLease, Lease!Spec
=============================================================================
