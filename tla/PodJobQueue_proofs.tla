------------------------- MODULE PodJobQueue_proofs -------------------------
(***************************************************************************)
(* Proofs about PodJobQueue, for any number of jobs, HTTP threads and      *)
(* restarts.  IInv is inductive: one lemma per part of IInv, each with one *)
(* step per action, gives the safety theorems at the end.                  *)
(***************************************************************************)
EXTENDS PodJobQueue, TLAPS

USE ConstantsAssumption

(* Setting one field of one response keeps the type of the responses. *)
LEMMA ResponseType ==
    ASSUME NEW f \in [Clients -> Response], NEW c \in Clients, NEW v
    PROVE  /\ NoResponse \in Response
           /\ v \in Status => [f EXCEPT ![c].status = v] \in [Clients -> Response]
           /\ v \in Output => [f EXCEPT ![c].output = v] \in [Clients -> Response]
           /\ v \in BOOLEAN => [f EXCEPT ![c].executionTime = v] \in [Clients -> Response]
           /\ v \in BOOLEAN => [f EXCEPT ![c].delayTime = v] \in [Clients -> Response]
BY DEF Response, NoResponse, Status, Output

(* What taking the head of a queue does to the places in it. *)
LEMMA HeadTail ==
    ASSUME NEW s \in Seq(Jobs), s # <<>>
    PROVE  /\ Head(s) = s[1] /\ Tail(s) \in Seq(Jobs) /\ Len(s) \in Nat \ {0}
           /\ DOMAIN s = 1 .. Len(s) /\ DOMAIN Tail(s) = 1 .. Len(s) - 1
           /\ \A i \in 1 .. Len(s) - 1 : Tail(s)[i] = s[i + 1]
OBVIOUS

(* The types are preserved by every step. *)
LEMMA TypeStep ==
    TypeOK /\ PlacesInv /\ [Next]_vars => TypeOK'
<1> SUFFICES ASSUME TypeOK, PlacesInv, [Next]_vars PROVE TypeOK'
  OBVIOUS
<1> USE DEF TypeOK, PlacesInv, Queued, Status, Output, ClientStep, ConsumerStep,
            jobVars, queueVars, consumerVars, clientVars, callerVars, historyVars
<1>1. ASSUME NEW c \in Clients, Refuse(c) PROVE TypeOK'
  BY <1>1, ResponseType DEF Refuse
<1>2. ASSUME NEW c \in Clients, NEW j \in Jobs, SubmitCreate(c, j) PROVE TypeOK'
  BY <1>2, ResponseType DEF SubmitCreate, Goto
<1>3. ASSUME NEW c \in Clients, NEW j \in known, Get(c, j) PROVE TypeOK'
  BY <1>3, ResponseType DEF Get, Goto
<1>4. ASSUME NEW c \in Clients, NEW j \in known, Cancel(c, j) PROVE TypeOK'
  BY <1>4, ResponseType DEF Cancel, Goto
<1>5. ASSUME NEW c \in Clients, SubmitRegister(c) PROVE TypeOK'
  BY <1>5 DEF SubmitRegister, Goto
<1>6. ASSUME NEW c \in Clients, SubmitPut(c) PROVE TypeOK'
  BY <1>6 DEF SubmitPut, Goto
<1>7. ASSUME NEW c \in Clients, ReadStatus(c) PROVE TypeOK'
  BY <1>7, ResponseType DEF ReadStatus, ReadStep, Goto
<1>8. ASSUME NEW c \in Clients, ReadOutput(c) PROVE TypeOK'
  BY <1>8, ResponseType DEF ReadOutput, ReadStep, Goto
<1>9. ASSUME NEW c \in Clients, ReadExecutionTime(c) PROVE TypeOK'
  BY <1>9, ResponseType DEF ReadExecutionTime, ReadStep, Goto
<1>10. ASSUME NEW c \in Clients, ReadDelayTime(c) PROVE TypeOK'
  BY <1>10, ResponseType DEF ReadDelayTime, ReadStep, Goto
<1>11. CASE ConsumerTake
  BY <1>11 DEF ConsumerTake
<1>12. CASE ConsumerSkip
  BY <1>12 DEF ConsumerSkip
<1>13. CASE ConsumerBegin
  BY <1>13 DEF ConsumerBegin
<1>14. CASE ConsumerCall
  BY <1>14 DEF ConsumerCall
<1>15. CASE ConsumerReturn
  BY <1>15 DEF ConsumerReturn
<1>16. CASE ConsumerOutput
  BY <1>16 DEF ConsumerOutput
<1>17. CASE ConsumerExecutionTime
  BY <1>17 DEF ConsumerExecutionTime
<1>18. CASE ConsumerFinish
  BY <1>18 DEF ConsumerFinish
<1>19. CASE Restart
  <2>1. response' \in [Clients -> Response]
    BY <1>19, ResponseType DEF Restart
  <2>2. QED
    BY <1>19, <2>1 DEF Restart
<1>20. CASE UNCHANGED vars
  BY <1>20 DEF vars
<1>21. QED
  BY <1>1, <1>2, <1>3, <1>4, <1>5, <1>6, <1>7, <1>8, <1>9, <1>10, <1>11, <1>12, <1>13, <1>14, <1>15, <1>16, <1>17, <1>18, <1>19, <1>20
  DEF Next, ClientStepOf, ConsumerNext

(* A drawn id stays in one place. *)
LEMMA PlacesStep ==
    TypeOK /\ PlacesInv /\ [Next]_vars => PlacesInv'
<1> SUFFICES ASSUME TypeOK, PlacesInv, [Next]_vars PROVE PlacesInv'
  OBVIOUS
<1> USE DEF TypeOK, PlacesInv, Queued, Submitting, ClientStep, ConsumerStep,
            jobVars, queueVars, consumerVars, clientVars, callerVars, historyVars
<1>1. ASSUME NEW c \in Clients, Refuse(c) PROVE PlacesInv'
  BY <1>1 DEF Refuse
<1>2. ASSUME NEW c \in Clients, NEW j \in Jobs, SubmitCreate(c, j) PROVE PlacesInv'
  BY <1>2 DEF SubmitCreate, Goto
<1>3. ASSUME NEW c \in Clients, NEW j \in known, Get(c, j) PROVE PlacesInv'
  BY <1>3 DEF Get, Goto
<1>4. ASSUME NEW c \in Clients, NEW j \in known, Cancel(c, j) PROVE PlacesInv'
  BY <1>4 DEF Cancel, Goto
<1>5. ASSUME NEW c \in Clients, SubmitRegister(c) PROVE PlacesInv'
  BY <1>5 DEF SubmitRegister, Goto
<1>6. ASSUME NEW c \in Clients, SubmitPut(c) PROVE PlacesInv'
  BY <1>6 DEF SubmitPut, Goto
<1>7. ASSUME NEW c \in Clients, ReadStatus(c) PROVE PlacesInv'
  BY <1>7 DEF ReadStatus, ReadStep, Goto
<1>8. ASSUME NEW c \in Clients, ReadOutput(c) PROVE PlacesInv'
  BY <1>8 DEF ReadOutput, ReadStep, Goto
<1>9. ASSUME NEW c \in Clients, ReadExecutionTime(c) PROVE PlacesInv'
  BY <1>9 DEF ReadExecutionTime, ReadStep, Goto
<1>10. ASSUME NEW c \in Clients, ReadDelayTime(c) PROVE PlacesInv'
  BY <1>10 DEF ReadDelayTime, ReadStep, Goto
<1>11. CASE ConsumerTake
  <2>1. /\ pending \in Seq(Jobs) /\ pending # <<>>
        /\ current' = pending[1] /\ pending' = Tail(pending) /\ at' # "take"
        /\ UNCHANGED <<clientVars, callerVars, drawn>>
    BY <1>11, HeadTail DEF ConsumerTake
  <2>2. Queued' \subseteq Queued /\ current' \in Queued
    BY <2>1, HeadTail
  <2>3. current' \notin Queued'
    BY <2>1, HeadTail
  <2>4. \A i, k \in DOMAIN pending' : pending'[i] = pending'[k] => i = k
    BY <2>1, HeadTail
  <2>5. QED
    BY <2>1, <2>2, <2>3, <2>4
<1>12. CASE ConsumerSkip
  BY <1>12 DEF ConsumerSkip
<1>13. CASE ConsumerBegin
  BY <1>13 DEF ConsumerBegin
<1>14. CASE ConsumerCall
  BY <1>14 DEF ConsumerCall
<1>15. CASE ConsumerReturn
  BY <1>15 DEF ConsumerReturn
<1>16. CASE ConsumerOutput
  BY <1>16 DEF ConsumerOutput
<1>17. CASE ConsumerExecutionTime
  BY <1>17 DEF ConsumerExecutionTime
<1>18. CASE ConsumerFinish
  BY <1>18 DEF ConsumerFinish
<1>19. CASE Restart
  BY <1>19 DEF Restart
<1>20. CASE UNCHANGED vars
  BY <1>20 DEF vars
<1>21. QED
  BY <1>1, <1>2, <1>3, <1>4, <1>5, <1>6, <1>7, <1>8, <1>9, <1>10, <1>11, <1>12, <1>13, <1>14, <1>15, <1>16, <1>17, <1>18, <1>19, <1>20
  DEF Next, ClientStepOf, ConsumerNext

(* What becomes of the set of queued jobs when one is put, or taken. *)
LEMMA QueuedStep ==
    ASSUME TypeOK
    PROVE  /\ UNCHANGED pending => UNCHANGED Queued
           /\ \A j \in Jobs : pending' = Append(pending, j) => Queued' = Queued \cup {j}
           /\ pending # <<>> /\ pending' = Tail(pending) =>
                Queued = Queued' \cup {Head(pending)}
           /\ pending' = <<>> => Queued' = {}
<1> USE DEF TypeOK, Queued
<1>1. UNCHANGED pending => UNCHANGED Queued
  OBVIOUS
<1>2. ASSUME NEW j \in Jobs, pending' = Append(pending, j)
      PROVE  Queued' = Queued \cup {j}
  <2>1. /\ Len(pending) \in Nat /\ DOMAIN pending = 1 .. Len(pending)
        /\ DOMAIN pending' = 1 .. Len(pending) + 1 /\ pending'[Len(pending) + 1] = j
        /\ \A i \in DOMAIN pending : i \in DOMAIN pending' /\ pending'[i] = pending[i]
    BY <1>2
  <2>2. Queued \cup {j} \subseteq Queued'
    <3>1. j \in Queued'
      <4>1. Len(pending) + 1 \in DOMAIN pending'
        BY <2>1
      <4>2. QED
        BY <2>1, <4>1
    <3>2. ASSUME NEW x \in Queued PROVE x \in Queued'
      <4>1. PICK i \in DOMAIN pending : x = pending[i]
        OBVIOUS
      <4>2. i \in DOMAIN pending' /\ pending'[i] = x
        BY <2>1, <4>1
      <4>3. QED
        BY <4>2
    <3>3. QED
      BY <3>1, <3>2
  <2>3. ASSUME NEW x \in Queued' PROVE x \in Queued \cup {j}
    <3>1. PICK i \in DOMAIN pending' : x = pending'[i]
      OBVIOUS
    <3>2. i = Len(pending) + 1 \/ i \in DOMAIN pending
      BY <2>1
    <3>3. QED
      BY <2>1, <3>1, <3>2
  <2>4. QED
    BY <2>2, <2>3
<1>3. ASSUME pending # <<>>, pending' = Tail(pending)
      PROVE  Queued = Queued' \cup {Head(pending)}
  <2>1. Queued' \cup {Head(pending)} \subseteq Queued
    BY <1>3, HeadTail
  <2>2. ASSUME NEW i \in DOMAIN pending, i # 1 PROVE pending[i] \in Queued'
    <3>1. i - 1 \in DOMAIN pending' /\ pending'[i - 1] = pending[i]
      BY <1>3, <2>2, HeadTail
    <3>2. QED
      BY <3>1
  <2>3. Queued \subseteq Queued' \cup {Head(pending)}
    <3>1. SUFFICES ASSUME NEW x \in Queued PROVE x \in Queued' \cup {Head(pending)}
      OBVIOUS
    <3>2. PICK i \in DOMAIN pending : x = pending[i]
      OBVIOUS
    <3>3. QED
      BY <1>3, <2>2, <3>2, HeadTail
  <2>4. QED
    BY <2>1, <2>3
<1>4. pending' = <<>> => Queued' = {}
  OBVIOUS
<1>5. QED
  BY <1>1, <1>2, <1>3, <1>4

(* The place of a job keeps telling its status. *)
LEMMA LifeStep ==
    TypeOK /\ PlacesInv /\ LifeInv /\ [Next]_vars => LifeInv'
<1> SUFFICES ASSUME TypeOK, PlacesInv, LifeInv, [Next]_vars PROVE LifeInv'
  OBVIOUS
<1> USE DEF TypeOK, PlacesInv, LifeInv, HandsInv, JobInv, Submitting, Running, Status, ClientStep,
            ConsumerStep, jobVars, queueVars, consumerVars, clientVars, callerVars, historyVars
<1>1. ASSUME NEW c \in Clients, Refuse(c) PROVE LifeInv'
  BY <1>1, QueuedStep DEF Refuse
<1>2. ASSUME NEW c \in Clients, NEW j \in Jobs, SubmitCreate(c, j) PROVE LifeInv'
  BY <1>2, QueuedStep DEF SubmitCreate, Goto
<1>3. ASSUME NEW c \in Clients, NEW j \in known, Get(c, j) PROVE LifeInv'
  <2>1. HandsInv'
    BY <1>3, QueuedStep DEF Get, Goto
  <2>2. \A d \in Clients : pc[d] = "put" => pc'[d] = "put" /\ asked'[d] = asked[d]
    BY <1>3 DEF Get, Goto
  <2>3. UNCHANGED <<Queued, drawn, runs, earlier, status, at, current>>
    BY <1>3, QueuedStep DEF Get, Goto
  <2>4. ASSUME NEW k \in Jobs PROVE JobInv(k)'
    BY <1>3, <2>2, <2>3 DEF Get, Goto
  <2>5. QED
    BY <2>1, <2>4
<1>4. ASSUME NEW c \in Clients, NEW j \in known, Cancel(c, j) PROVE LifeInv'
  <2>1. HandsInv'
    BY <1>4, QueuedStep DEF Cancel, Goto
  <2>2. \A d \in Clients : pc[d] = "put" => pc'[d] = "put" /\ asked'[d] = asked[d]
    BY <1>4 DEF Cancel, Goto
  <2>3. UNCHANGED <<Queued, drawn, runs, earlier, at, current>>
    BY <1>4, QueuedStep DEF Cancel, Goto
  <2>4. ASSUME NEW k \in Jobs PROVE JobInv(k)'
    BY <1>4, <2>2, <2>3 DEF Cancel, Goto
  <2>5. QED
    BY <2>1, <2>4
<1>5. ASSUME NEW c \in Clients, SubmitRegister(c) PROVE LifeInv'
  BY <1>5, QueuedStep DEF SubmitRegister, Goto
<1>6. ASSUME NEW c \in Clients, SubmitPut(c) PROVE LifeInv'
  BY <1>6, QueuedStep DEF SubmitPut, Goto
<1>7. ASSUME NEW c \in Clients, ReadStatus(c) PROVE LifeInv'
  BY <1>7, QueuedStep DEF ReadStatus, ReadStep, Goto
<1>8. ASSUME NEW c \in Clients, ReadOutput(c) PROVE LifeInv'
  BY <1>8, QueuedStep DEF ReadOutput, ReadStep, Goto
<1>9. ASSUME NEW c \in Clients, ReadExecutionTime(c) PROVE LifeInv'
  BY <1>9, QueuedStep DEF ReadExecutionTime, ReadStep, Goto
<1>10. ASSUME NEW c \in Clients, ReadDelayTime(c) PROVE LifeInv'
  BY <1>10, QueuedStep DEF ReadDelayTime, ReadStep, Goto
<1>11. CASE ConsumerTake
  BY <1>11, QueuedStep DEF ConsumerTake
<1>12. CASE ConsumerSkip
  <2>1. HandsInv'
    BY <1>12, QueuedStep DEF ConsumerSkip
  <2>2. UNCHANGED <<Queued, status, current, pc, asked, drawn, runs, earlier>>
    BY <1>12, QueuedStep DEF ConsumerSkip
  <2>3. at = "begin" /\ at' = "take" /\ status[current] = "CANCELLED"
    BY <1>12 DEF ConsumerSkip
  <2>4. ASSUME NEW k \in Jobs PROVE JobInv(k)'
    <3>1. status[k] = "IN_QUEUE" => k \in Queued \/ \E c \in Clients : pc[c] = "put" /\ asked[c] = k
      BY <2>3
    <3>2. ~ Running /\ ~ Running'
      BY <2>3
    <3>3. QED
      BY <2>2, <3>1, <3>2
  <2>5. QED
    BY <2>1, <2>4
<1>13. CASE ConsumerBegin
  BY <1>13, QueuedStep DEF ConsumerBegin
<1>14. CASE ConsumerCall
  BY <1>14, QueuedStep DEF ConsumerCall
<1>15. CASE ConsumerReturn
  BY <1>15, QueuedStep DEF ConsumerReturn
<1>16. CASE ConsumerOutput
  BY <1>16, QueuedStep DEF ConsumerOutput
<1>17. CASE ConsumerExecutionTime
  BY <1>17, QueuedStep DEF ConsumerExecutionTime
<1>18. CASE ConsumerFinish
  BY <1>18, QueuedStep DEF ConsumerFinish
<1>19. CASE Restart
  BY <1>19, QueuedStep DEF Restart
<1>20. CASE UNCHANGED vars
  BY <1>20, QueuedStep DEF vars
<1>21. QED
  BY <1>1, <1>2, <1>3, <1>4, <1>5, <1>6, <1>7, <1>8, <1>9, <1>10, <1>11, <1>12, <1>13, <1>14, <1>15, <1>16, <1>17, <1>18, <1>19, <1>20
  DEF Next, ClientStepOf, ConsumerNext

(* The fields of a job keep going with its status. *)
LEMMA FieldsStep ==
    TypeOK /\ PlacesInv /\ LifeInv /\ FieldsInv /\ [Next]_vars => FieldsInv'
<1> SUFFICES ASSUME TypeOK, PlacesInv, LifeInv, FieldsInv, [Next]_vars PROVE FieldsInv'
  OBVIOUS
<1> USE DEF TypeOK, PlacesInv, LifeInv, HandsInv, JobInv, Submitting, Running,
            Status, Output, ConsumerStep, jobVars, queueVars, consumerVars, clientVars, callerVars, historyVars
<1>1. ASSUME NEW c \in Clients, Refuse(c) PROVE FieldsInv'
  BY <1>1 DEF Refuse, FieldsInv, JobFields, Fields
<1>2. ASSUME NEW c \in Clients, NEW j \in Jobs, SubmitCreate(c, j) PROVE FieldsInv'
  BY <1>2 DEF SubmitCreate, Goto, FieldsInv, JobFields, Fields
<1>3. ASSUME NEW c \in Clients, NEW j \in known, Get(c, j) PROVE FieldsInv'
  BY <1>3 DEF Get, Goto, FieldsInv, JobFields, Fields
<1>4. ASSUME NEW c \in Clients, NEW j \in known, Cancel(c, j) PROVE FieldsInv'
  BY <1>4 DEF Cancel, Goto, FieldsInv, JobFields, Fields
<1>5. ASSUME NEW c \in Clients, SubmitRegister(c) PROVE FieldsInv'
  BY <1>5 DEF SubmitRegister, Goto, FieldsInv, JobFields, Fields
<1>6. ASSUME NEW c \in Clients, SubmitPut(c) PROVE FieldsInv'
  BY <1>6 DEF SubmitPut, Goto, FieldsInv, JobFields, Fields
<1>7. ASSUME NEW c \in Clients, ReadStatus(c) PROVE FieldsInv'
  BY <1>7 DEF ReadStatus, ReadStep, Goto, FieldsInv, JobFields, Fields
<1>8. ASSUME NEW c \in Clients, ReadOutput(c) PROVE FieldsInv'
  BY <1>8 DEF ReadOutput, ReadStep, Goto, FieldsInv, JobFields, Fields
<1>9. ASSUME NEW c \in Clients, ReadExecutionTime(c) PROVE FieldsInv'
  BY <1>9 DEF ReadExecutionTime, ReadStep, Goto, FieldsInv, JobFields, Fields
<1>10. ASSUME NEW c \in Clients, ReadDelayTime(c) PROVE FieldsInv'
  BY <1>10 DEF ReadDelayTime, ReadStep, Goto, FieldsInv, JobFields, Fields
<1>11. CASE ConsumerTake
  BY <1>11 DEF ConsumerTake, FieldsInv, JobFields, Fields
<1>12. CASE ConsumerSkip
  BY <1>12 DEF ConsumerSkip, FieldsInv, JobFields, Fields
<1>13. CASE ConsumerBegin
  BY <1>13 DEF ConsumerBegin, FieldsInv, JobFields, Fields
<1>14. CASE ConsumerCall
  BY <1>14 DEF ConsumerCall, FieldsInv, JobFields, Fields
<1>15. CASE ConsumerReturn
  BY <1>15 DEF ConsumerReturn, FieldsInv, JobFields, Fields
<1>16. CASE ConsumerOutput
  BY <1>16 DEF ConsumerOutput, FieldsInv, JobFields, Fields
<1>17. CASE ConsumerExecutionTime
  <2>1. UNCHANGED <<status, output, delayTime, current, outcome>>
    BY <1>17 DEF ConsumerExecutionTime
  <2>2. /\ current \in Jobs /\ outcome = "result" /\ Fields("result", FALSE, TRUE, current)
        /\ at' = "status" /\ status[current] = "IN_PROGRESS"
    BY <1>17 DEF ConsumerExecutionTime, FieldsInv
  <2>3. /\ executionTime'[current] = TRUE
        /\ \A j \in Jobs \ {current} : executionTime'[j] = executionTime[j]
    BY <1>17, <2>2 DEF ConsumerExecutionTime
  <2>4. Fields(outcome, outcome = "result", TRUE, current)'
    BY <2>1, <2>2, <2>3 DEF Fields
  <2>5. ASSUME NEW j \in Jobs PROVE JobFields(j)'
    <3>1. CASE j = current
      BY <2>1, <2>2, <3>1 DEF JobFields
    <3>2. CASE j # current
      <4>1. JobFields(j) /\ executionTime'[j] = executionTime[j]
        BY <2>3, <3>2 DEF FieldsInv
      <4>2. QED
        BY <2>1, <4>1 DEF JobFields, Fields
    <3>3. QED
      BY <3>1, <3>2
  <2>6. QED
    BY <2>1, <2>2, <2>4, <2>5 DEF FieldsInv
<1>18. CASE ConsumerFinish
  <2>1. CASE outcome = "result"
    BY <1>18, <2>1 DEF ConsumerFinish, FieldsInv, JobFields, Fields
  <2>2. CASE outcome = "failure"
    BY <1>18, <2>2 DEF ConsumerFinish, FieldsInv, JobFields, Fields
  <2>3. QED
    BY <1>18, <2>1, <2>2 DEF ConsumerFinish, FieldsInv, JobFields, Fields
<1>19. CASE Restart
  BY <1>19 DEF Restart, FieldsInv, JobFields, Fields
<1>20. CASE UNCHANGED vars
  BY <1>20 DEF vars, FieldsInv, JobFields, Fields
<1>21. QED
  BY <1>1, <1>2, <1>3, <1>4, <1>5, <1>6, <1>7, <1>8, <1>9, <1>10, <1>11, <1>12, <1>13, <1>14, <1>15, <1>16, <1>17, <1>18, <1>19, <1>20
  DEF Next, ClientStepOf, ConsumerNext

(* A response stays true while the job it tells of as over is left alone. *)
LEMMA SameResponse ==
    ASSUME NEW d \in Clients, TrueResponse(d),
           response'[d] = response[d], asked'[d] = asked[d], pc'[d] = pc[d],
           response[d].status \in Terminal =>
             /\ status'[asked[d]] = status[asked[d]]
             /\ runs'[asked[d]] = runs[asked[d]]
    PROVE  TrueResponse(d)'
BY DEF TrueResponse

(* A response keeps being true of the job it is about. *)
LEMMA ResponseStep ==
    TypeOK /\ PlacesInv /\ LifeInv /\ FieldsInv /\ ResponseInv /\ [Next]_vars => ResponseInv'
<1> SUFFICES ASSUME TypeOK, PlacesInv, LifeInv, FieldsInv, ResponseInv, [Next]_vars PROVE ResponseInv'
  OBVIOUS
<1> USE DEF TypeOK, PlacesInv, LifeInv, HandsInv, JobInv, FieldsInv, JobFields, Fields, ResponseInv,
            Submitting, Running, Terminal, Status, ClientStep, ConsumerStep,
            NoResponse, Response, jobVars, queueVars, consumerVars, clientVars, callerVars, historyVars
<1>1. ASSUME NEW c \in Clients, Refuse(c) PROVE ResponseInv'
  <2>1. /\ response'[c] = NoResponse /\ pc'[c] \in {"idle", "register", "status"}
        /\ \A d \in Clients \ {c} : /\ response'[d] = response[d] /\ asked'[d] = asked[d]
                                  /\ pc'[d] = pc[d]
    BY <1>1 DEF Refuse
  <2>2. UNCHANGED runs /\ \A k \in Jobs : status[k] # "IN_QUEUE" => status'[k] = status[k]
    BY <1>1 DEF Refuse
  <2>3. TrueResponse(c)'
    BY <2>1 DEF TrueResponse
  <2>4. ASSUME NEW d \in Clients \ {c} PROVE TrueResponse(d)'
    <3>1. response[d].status \in Terminal => asked[d] \in Jobs
      OBVIOUS
    <3>2. TrueResponse(d)
      OBVIOUS
    <3>3. response[d].status \in Terminal => status[asked[d]] # "IN_QUEUE"
      BY <3>2 DEF TrueResponse
    <3>4. response[d].status \in Terminal =>
            status'[asked[d]] = status[asked[d]] /\ runs'[asked[d]] = runs[asked[d]]
      BY <2>2, <3>1, <3>3
    <3>5. QED
      BY <2>1, <3>2, <3>4, SameResponse
  <2>5. QED
    BY <2>3, <2>4 DEF ResponseInv
<1>2. ASSUME NEW c \in Clients, NEW j \in Jobs, SubmitCreate(c, j) PROVE ResponseInv'
  <2>1. /\ response'[c] = NoResponse /\ pc'[c] \in {"idle", "register", "status"}
        /\ \A d \in Clients \ {c} : /\ response'[d] = response[d] /\ asked'[d] = asked[d]
                                  /\ pc'[d] = pc[d]
    BY <1>2 DEF SubmitCreate, Goto
  <2>2. UNCHANGED runs /\ \A k \in Jobs : status[k] # "IN_QUEUE" => status'[k] = status[k]
    BY <1>2 DEF SubmitCreate, Goto
  <2>3. TrueResponse(c)'
    BY <2>1 DEF TrueResponse
  <2>4. ASSUME NEW d \in Clients \ {c} PROVE TrueResponse(d)'
    <3>1. response[d].status \in Terminal => asked[d] \in Jobs
      OBVIOUS
    <3>2. TrueResponse(d)
      OBVIOUS
    <3>3. response[d].status \in Terminal => status[asked[d]] # "IN_QUEUE"
      BY <3>2 DEF TrueResponse
    <3>4. response[d].status \in Terminal =>
            status'[asked[d]] = status[asked[d]] /\ runs'[asked[d]] = runs[asked[d]]
      BY <2>2, <3>1, <3>3
    <3>5. QED
      BY <2>1, <3>2, <3>4, SameResponse
  <2>5. QED
    BY <2>3, <2>4 DEF ResponseInv
<1>3. ASSUME NEW c \in Clients, NEW j \in known, Get(c, j) PROVE ResponseInv'
  <2>1. /\ response'[c] = NoResponse /\ pc'[c] \in {"idle", "register", "status"}
        /\ \A d \in Clients \ {c} : /\ response'[d] = response[d] /\ asked'[d] = asked[d]
                                  /\ pc'[d] = pc[d]
    BY <1>3 DEF Get, Goto
  <2>2. UNCHANGED runs /\ \A k \in Jobs : status[k] # "IN_QUEUE" => status'[k] = status[k]
    BY <1>3 DEF Get, Goto
  <2>3. TrueResponse(c)'
    BY <2>1 DEF TrueResponse
  <2>4. ASSUME NEW d \in Clients \ {c} PROVE TrueResponse(d)'
    <3>1. response[d].status \in Terminal => asked[d] \in Jobs
      OBVIOUS
    <3>2. TrueResponse(d)
      OBVIOUS
    <3>3. response[d].status \in Terminal => status[asked[d]] # "IN_QUEUE"
      BY <3>2 DEF TrueResponse
    <3>4. response[d].status \in Terminal =>
            status'[asked[d]] = status[asked[d]] /\ runs'[asked[d]] = runs[asked[d]]
      BY <2>2, <3>1, <3>3
    <3>5. QED
      BY <2>1, <3>2, <3>4, SameResponse
  <2>5. QED
    BY <2>3, <2>4 DEF ResponseInv
<1>4. ASSUME NEW c \in Clients, NEW j \in known, Cancel(c, j) PROVE ResponseInv'
  <2>1. /\ response'[c] = NoResponse /\ pc'[c] \in {"idle", "register", "status"}
        /\ \A d \in Clients \ {c} : /\ response'[d] = response[d] /\ asked'[d] = asked[d]
                                  /\ pc'[d] = pc[d]
    BY <1>4 DEF Cancel, Goto
  <2>2. UNCHANGED runs /\ \A k \in Jobs : status[k] # "IN_QUEUE" => status'[k] = status[k]
    BY <1>4 DEF Cancel, Goto
  <2>3. TrueResponse(c)'
    BY <2>1 DEF TrueResponse
  <2>4. ASSUME NEW d \in Clients \ {c} PROVE TrueResponse(d)'
    <3>1. response[d].status \in Terminal => asked[d] \in Jobs
      OBVIOUS
    <3>2. TrueResponse(d)
      OBVIOUS
    <3>3. response[d].status \in Terminal => status[asked[d]] # "IN_QUEUE"
      BY <3>2 DEF TrueResponse
    <3>4. response[d].status \in Terminal =>
            status'[asked[d]] = status[asked[d]] /\ runs'[asked[d]] = runs[asked[d]]
      BY <2>2, <3>1, <3>3
    <3>5. QED
      BY <2>1, <3>2, <3>4, SameResponse
  <2>5. QED
    BY <2>3, <2>4 DEF ResponseInv
<1>5. ASSUME NEW c \in Clients, SubmitRegister(c) PROVE ResponseInv'
  BY <1>5 DEF SubmitRegister, Goto, TrueResponse
<1>6. ASSUME NEW c \in Clients, SubmitPut(c) PROVE ResponseInv'
  BY <1>6 DEF SubmitPut, Goto, TrueResponse
<1>7. ASSUME NEW c \in Clients, ReadStatus(c) PROVE ResponseInv'
  <2>1. /\ pc[c] = "status" /\ UNCHANGED <<jobVars, asked, runs>>
        /\ asked[c] \in Jobs /\ pc' \in [Clients -> ClientStep]
        /\ response'[c] = [response[c] EXCEPT !.status = status[asked[c]]]
        /\ \A d \in Clients \ {c} : response'[d] = response[d] /\ pc'[d] = pc[d]
    BY <1>7 DEF ReadStatus, ReadStep, Goto
  <2>2. TrueResponse(c) /\ pc'[c] = "output" /\ asked'[c] = asked[c]
    BY <1>7, <2>1 DEF ReadStatus, ReadStep, Goto, ResponseInv
  <2>3. TrueResponse(c)'
    BY <2>1, <2>2 DEF TrueResponse
  <2>4. ASSUME NEW d \in Clients \ {c} PROVE TrueResponse(d)'
    BY <2>1, SameResponse DEF ResponseInv
  <2>5. QED
    BY <2>3, <2>4 DEF ResponseInv
<1>8. ASSUME NEW c \in Clients, ReadOutput(c) PROVE ResponseInv'
  <2>1. /\ pc[c] = "output" /\ UNCHANGED <<jobVars, asked, runs>>
        /\ asked[c] \in Jobs /\ pc' \in [Clients -> ClientStep]
        /\ response'[c] = [response[c] EXCEPT !.output = output[asked[c]]]
        /\ \A d \in Clients \ {c} : response'[d] = response[d] /\ pc'[d] = pc[d]
    BY <1>8 DEF ReadOutput, ReadStep, Goto
  <2>2. TrueResponse(c) /\ pc'[c] = "executionTime" /\ asked'[c] = asked[c]
    BY <1>8, <2>1 DEF ReadOutput, ReadStep, Goto, ResponseInv
  <2>3. TrueResponse(c)'
    BY <2>1, <2>2 DEF TrueResponse
  <2>4. ASSUME NEW d \in Clients \ {c} PROVE TrueResponse(d)'
    BY <2>1, SameResponse DEF ResponseInv
  <2>5. QED
    BY <2>3, <2>4 DEF ResponseInv
<1>9. ASSUME NEW c \in Clients, ReadExecutionTime(c) PROVE ResponseInv'
  <2>1. /\ pc[c] = "executionTime" /\ UNCHANGED <<jobVars, asked, runs>>
        /\ asked[c] \in Jobs /\ pc' \in [Clients -> ClientStep]
        /\ response'[c] = [response[c] EXCEPT !.executionTime = executionTime[asked[c]]]
        /\ \A d \in Clients \ {c} : response'[d] = response[d] /\ pc'[d] = pc[d]
    BY <1>9 DEF ReadExecutionTime, ReadStep, Goto
  <2>2. TrueResponse(c) /\ pc'[c] = "delayTime" /\ asked'[c] = asked[c]
    BY <1>9, <2>1 DEF ReadExecutionTime, ReadStep, Goto, ResponseInv
  <2>3. TrueResponse(c)'
    BY <2>1, <2>2 DEF TrueResponse
  <2>4. ASSUME NEW d \in Clients \ {c} PROVE TrueResponse(d)'
    BY <2>1, SameResponse DEF ResponseInv
  <2>5. QED
    BY <2>3, <2>4 DEF ResponseInv
<1>10. ASSUME NEW c \in Clients, ReadDelayTime(c) PROVE ResponseInv'
  <2>1. /\ pc[c] = "delayTime" /\ UNCHANGED <<jobVars, asked, runs>>
        /\ asked[c] \in Jobs /\ pc' \in [Clients -> ClientStep]
        /\ response'[c] = [response[c] EXCEPT !.delayTime = delayTime[asked[c]]]
        /\ \A d \in Clients \ {c} : response'[d] = response[d] /\ pc'[d] = pc[d]
    BY <1>10 DEF ReadDelayTime, ReadStep, Goto
  <2>2. TrueResponse(c) /\ pc'[c] = "idle" /\ asked'[c] = asked[c]
    BY <1>10, <2>1 DEF ReadDelayTime, ReadStep, Goto, ResponseInv
  <2>3. TrueResponse(c)'
    BY <2>1, <2>2 DEF TrueResponse
  <2>4. ASSUME NEW d \in Clients \ {c} PROVE TrueResponse(d)'
    BY <2>1, SameResponse DEF ResponseInv
  <2>5. QED
    BY <2>3, <2>4 DEF ResponseInv
<1>11. CASE ConsumerTake
  BY <1>11 DEF ConsumerTake, TrueResponse
<1>12. CASE ConsumerSkip
  BY <1>12 DEF ConsumerSkip, TrueResponse
<1>13. CASE ConsumerBegin
  BY <1>13 DEF ConsumerBegin, TrueResponse
<1>14. CASE ConsumerCall
  BY <1>14 DEF ConsumerCall, TrueResponse
<1>15. CASE ConsumerReturn
  BY <1>15 DEF ConsumerReturn, TrueResponse
<1>16. CASE ConsumerOutput
  BY <1>16 DEF ConsumerOutput, TrueResponse
<1>17. CASE ConsumerExecutionTime
  BY <1>17 DEF ConsumerExecutionTime, TrueResponse
<1>18. CASE ConsumerFinish
  BY <1>18 DEF ConsumerFinish, TrueResponse
<1>19. CASE Restart
  BY <1>19 DEF Restart, TrueResponse
<1>20. CASE UNCHANGED vars
  BY <1>20 DEF vars, TrueResponse
<1>21. QED
  BY <1>1, <1>2, <1>3, <1>4, <1>5, <1>6, <1>7, <1>8, <1>9, <1>10, <1>11, <1>12, <1>13, <1>14, <1>15, <1>16, <1>17, <1>18, <1>19, <1>20
  DEF Next, ClientStepOf, ConsumerNext

(* Jobs keep being served in the order in which they became known. *)
LEMMA OrderStep ==
    TypeOK /\ PlacesInv /\ LifeInv /\ OrderInv /\ [Next]_vars => OrderInv'
<1> SUFFICES ASSUME TypeOK, PlacesInv, LifeInv, OrderInv, [Next]_vars PROVE OrderInv'
  OBVIOUS
<1> USE DEF TypeOK, PlacesInv, LifeInv, HandsInv, JobInv, Submitting, Running,
            Terminal, Status, ClientStep, ConsumerStep, jobVars, queueVars, consumerVars, clientVars, callerVars, historyVars
<1>1. ASSUME NEW c \in Clients, Refuse(c) PROVE OrderInv'
  BY <1>1 DEF Refuse, OrderInv, Precedes
<1>2. ASSUME NEW c \in Clients, NEW j \in Jobs, SubmitCreate(c, j) PROVE OrderInv'
  <2>1. /\ UNCHANGED <<status, pending, at, current, runs, known>> /\ j \notin drawn
        /\ earlier' = [earlier EXCEPT ![j] = known]
    BY <1>2 DEF SubmitCreate
  <2>2. j \notin Queued /\ runs[j] = 0 /\ (at # "take" => current # j)
    BY <2>1
  <2>3. ASSUME NEW i \in known PROVE Precedes(i, j)
    <3>1. \A c2 \in Clients : pc[c2] = "put" => asked[c2] # i
      OBVIOUS
    <3>2. CASE i \in Queued
      BY <2>2, <3>2 DEF Precedes, Queued
    <3>3. CASE i \notin Queued
      BY <2>1, <2>2, <3>1, <3>3 DEF Precedes
    <3>4. QED
      BY <3>2, <3>3
  <2>4. QED
    BY <2>1, <2>3 DEF OrderInv, Precedes
<1>3. ASSUME NEW c \in Clients, NEW j \in known, Get(c, j) PROVE OrderInv'
  BY <1>3 DEF Get, Goto, OrderInv, Precedes
<1>4. ASSUME NEW c \in Clients, NEW j \in known, Cancel(c, j) PROVE OrderInv'
  BY <1>4 DEF Cancel, Goto, OrderInv, Precedes
<1>5. ASSUME NEW c \in Clients, SubmitRegister(c) PROVE OrderInv'
  BY <1>5 DEF SubmitRegister, Goto, OrderInv, Precedes
<1>6. ASSUME NEW c \in Clients, SubmitPut(c) PROVE OrderInv'
  <2>1. /\ UNCHANGED <<status, at, current, runs, known, earlier>>
        /\ Len(pending) \in Nat /\ DOMAIN pending = 1 .. Len(pending)
        /\ DOMAIN pending' = 1 .. Len(pending) + 1
        /\ \A i \in DOMAIN pending : pending'[i] = pending[i]
    BY <1>6 DEF SubmitPut
  <2>2. SUFFICES ASSUME NEW k \in Jobs, NEW j \in earlier[k], Precedes(j, k)
                 PROVE  Precedes(j, k)'
    BY <2>1 DEF OrderInv
  <2>3. ASSUME NEW p \in DOMAIN pending, pending[p] = j,
               \A q \in DOMAIN pending : pending[q] = k => p < q
        PROVE  /\ p \in DOMAIN pending' /\ pending'[p] = j
               /\ \A q \in DOMAIN pending' : pending'[q] = k => p < q
    BY <2>1, <2>3
  <2>4. CASE \E p \in DOMAIN pending :
               /\ pending[p] = j
               /\ \A q \in DOMAIN pending : pending[q] = k => p < q
               /\ runs[k] = 0
               /\ at # "take" => current # k
    BY <2>1, <2>3, <2>4 DEF Precedes
  <2>5. QED
    BY <2>1, <2>2, <2>4 DEF Precedes
<1>7. ASSUME NEW c \in Clients, ReadStatus(c) PROVE OrderInv'
  BY <1>7 DEF ReadStatus, ReadStep, Goto, OrderInv, Precedes
<1>8. ASSUME NEW c \in Clients, ReadOutput(c) PROVE OrderInv'
  BY <1>8 DEF ReadOutput, ReadStep, Goto, OrderInv, Precedes
<1>9. ASSUME NEW c \in Clients, ReadExecutionTime(c) PROVE OrderInv'
  BY <1>9 DEF ReadExecutionTime, ReadStep, Goto, OrderInv, Precedes
<1>10. ASSUME NEW c \in Clients, ReadDelayTime(c) PROVE OrderInv'
  BY <1>10 DEF ReadDelayTime, ReadStep, Goto, OrderInv, Precedes
<1>11. CASE ConsumerTake
  <2>1. /\ UNCHANGED <<status, runs, known, earlier>>
        /\ pending \in Seq(Jobs) /\ pending # <<>> /\ pending' = Tail(pending)
        /\ at = "take" /\ at' # "take" /\ current' = pending[1]
    BY <1>11, HeadTail DEF ConsumerTake
  <2>2. SUFFICES ASSUME NEW k \in Jobs, NEW j \in earlier[k], Precedes(j, k)
                 PROVE  Precedes(j, k)'
    BY <2>1 DEF OrderInv
  <2>3. ASSUME NEW p \in DOMAIN pending, pending[p] = j, runs[k] = 0,
               \A q \in DOMAIN pending : pending[q] = k => p < q
        PROVE  Precedes(j, k)'
    <3>1. CASE p = 1
      <4>1. j # k
        BY <2>3
      <4>2. QED
        BY <2>1, <2>3, <3>1, <4>1 DEF Precedes
    <3>2. CASE p # 1
      <4>1. p - 1 \in DOMAIN pending' /\ pending'[p - 1] = j
        BY <2>1, <2>3, <3>2, HeadTail
      <4>2. \A q \in DOMAIN pending' : pending'[q] = k => p - 1 < q
        BY <2>1, <2>3, HeadTail
      <4>3. current' # k
        BY <2>1, <2>3, HeadTail
      <4>4. QED
        BY <2>1, <2>3, <4>1, <4>2, <4>3 DEF Precedes
    <3>3. QED
      BY <3>1, <3>2
  <2>4. QED
    BY <2>1, <2>2, <2>3 DEF Precedes
<1>12. CASE ConsumerSkip
  BY <1>12 DEF ConsumerSkip, OrderInv, Precedes
<1>13. CASE ConsumerBegin
  BY <1>13 DEF ConsumerBegin, OrderInv, Precedes
<1>14. CASE ConsumerCall
  BY <1>14 DEF ConsumerCall, OrderInv, Precedes
<1>15. CASE ConsumerReturn
  BY <1>15 DEF ConsumerReturn, OrderInv, Precedes
<1>16. CASE ConsumerOutput
  BY <1>16 DEF ConsumerOutput, OrderInv, Precedes
<1>17. CASE ConsumerExecutionTime
  BY <1>17 DEF ConsumerExecutionTime, OrderInv, Precedes
<1>18. CASE ConsumerFinish
  BY <1>18 DEF ConsumerFinish, OrderInv, Precedes
<1>19. CASE Restart
  BY <1>19 DEF Restart, OrderInv, Precedes
<1>20. CASE UNCHANGED vars
  BY <1>20 DEF vars, OrderInv, Precedes
<1>21. QED
  BY <1>1, <1>2, <1>3, <1>4, <1>5, <1>6, <1>7, <1>8, <1>9, <1>10, <1>11, <1>12, <1>13, <1>14, <1>15, <1>16, <1>17, <1>18, <1>19, <1>20
  DEF Next, ClientStepOf, ConsumerNext

(***************************************************************************)
(* IInv is an inductive invariant.                                         *)
(***************************************************************************)
LEMMA Initial == Init => IInv
<1> SUFFICES ASSUME Init PROVE IInv
  OBVIOUS
<1> USE DEF Init, Queued, Submitting, Running, NoResponse
<1>1. TypeOK
  BY DEF TypeOK, Status, Output, Response, ClientStep, ConsumerStep
<1>2. PlacesInv
  BY DEF PlacesInv
<1>3. LifeInv
  BY DEF LifeInv, HandsInv, JobInv
<1>4. FieldsInv
  BY DEF FieldsInv, JobFields, Fields
<1>5. ResponseInv
  BY DEF ResponseInv, TrueResponse, Terminal
<1>6. OrderInv
  BY DEF OrderInv
<1>7. QED
  BY <1>1, <1>2, <1>3, <1>4, <1>5, <1>6 DEF IInv

\* Every step, of the threads or the callers, keeps the inductive invariant.
LEMMA Inductive == IInv /\ [Next]_vars => IInv'
BY TypeStep, PlacesStep, LifeStep, FieldsStep, ResponseStep, OrderStep DEF IInv

(* The parts of IInv together hold in every reachable state. *)
THEOREM Invariance == Spec => []IInv
<1>1. Init => IInv
  BY Initial
<1>2. IInv /\ [Next]_vars => IInv'
  BY Inductive
<1>3. QED
  BY <1>1, <1>2, PTL DEF Spec

(***************************************************************************)
(* The safety properties.                                                  *)
(***************************************************************************)

(* Every variable keeps its type. *)
THEOREM TypeCorrect == Spec => []TypeOK
<1>1. IInv => TypeOK
  BY DEF IInv
<1>2. QED
  BY <1>1, Invariance, PTL

(* The consumer's look-up of an id it takes never fails. *)
THEOREM LookupNeverFails == Spec => []QueuedIsRegistered
<1>1. IInv => QueuedIsRegistered
  <2> SUFFICES ASSUME IInv PROVE QueuedIsRegistered
    OBVIOUS
  <2>1. Queued \subseteq Jobs
    BY DEF IInv, TypeOK, PlacesInv
  <2>2. QED
    BY <2>1 DEF IInv, LifeInv, HandsInv, JobInv, QueuedIsRegistered
<1>2. QED
  BY <1>1, Invariance, PTL

\* Where a job that is not over has to be.
InGoodHands(j) ==
    /\ status[j] = "IN_QUEUE" => \/ j \in Queued
                                 \/ at = "begin" /\ current = j
                                 \/ \E c \in Clients : pc[c] = "put" /\ asked[c] = j
    /\ status[j] = "IN_PROGRESS" => Running /\ current = j

(* A job that is not over is accounted for, so that nothing registered is ever
   forgotten: its id is in the queue, with the consumer, or with the HTTP thread
   whose next step is the put; a job in progress is the consumer's. *)
THEOREM NoJobIsForgotten == Spec => []\A j \in Jobs : InGoodHands(j)
<1>1. IInv => \A j \in Jobs : InGoodHands(j)
  BY DEF IInv, LifeInv, JobInv, InGoodHands
<1>2. QED
  BY <1>1, Invariance, PTL

(* The lock is held between a look-up and the next write only, never while
   handle_job runs, so that no request waits for a job in progress. *)
THEOREM LockIsShort == Spec => [](lock # Free <=> at \in {"delay", "executionTime", "status"})
<1>1. IInv => (lock # Free <=> at \in {"delay", "executionTime", "status"})
  BY DEF IInv, TypeOK, LifeInv, HandsInv
<1>2. QED
  BY <1>1, Invariance, PTL

\* How far a request and the consumer are.
RequestAt(step) == CASE step = "idle" -> 0 [] step = "register" -> 1 [] step = "put" -> 2
                     [] step = "status" -> 3 [] step = "output" -> 4
                     [] step = "executionTime" -> 5 [] step = "delayTime" -> 6
ConsumerAt(step) == CASE step = "take" -> 0 [] step = "begin" -> 1 [] step = "delay" -> 2
                      [] step = "run" -> 3 [] step = "output" -> 4
                      [] step = "executionTime" -> 5 [] step = "status" -> 6

\* What the threads and the queue do in a step that is no restart: a request
\* and the consumer come nearer their end, nobody else moves them, and the jobs
\* keep their places until one is taken, which brings each one place forward.
RequestGoesOn(c) ==
    IF ClientStepOf(c) THEN pc'[c] = "idle" \/ RequestAt(pc[c]) < RequestAt(pc'[c])
                       ELSE pc[c] = "idle" \/ pc'[c] = pc[c]
ConsumerGoesOn ==
    IF ConsumerNext THEN at' = "take" \/ ConsumerAt(at) < ConsumerAt(at') ELSE at' = at
KeepsPlace(p) == p \in DOMAIN pending' /\ pending'[p] = pending[p]
MovesUp(p) == /\ ConsumerTake
              /\ IF p = 1 THEN at' = "begin" /\ current' = pending[p]
                          ELSE p - 1 \in DOMAIN pending' /\ pending'[p - 1] = pending[p]
QueueGoesOn == \A p \in DOMAIN pending : KeepsPlace(p) \/ MovesUp(p)
ThreadsGoOn == (\A c \in Clients : RequestGoesOn(c)) /\ ConsumerGoesOn /\ QueueGoesOn

LEMMA RequestsForward ==
    ASSUME TypeOK, [Next]_vars, ~Restart, NEW c \in Clients PROVE RequestGoesOn(c)
<1>1. CASE ClientStepOf(c)
  BY <1>1 DEF TypeOK, RequestGoesOn, RequestAt, ClientStepOf, SubmitRegister, SubmitPut,
              ReadStatus, ReadOutput, ReadExecutionTime, ReadDelayTime, ReadStep, Goto
<1>2. CASE ~ClientStepOf(c)
  <2>1. SUFFICES ASSUME pc[c] # "idle" PROVE pc'[c] = pc[c]
    BY <1>2 DEF RequestGoesOn
  <2>2. CASE UNCHANGED vars
    BY <2>2 DEF vars, clientVars
  <2>3. CASE ConsumerNext
    BY <2>3 DEF ConsumerNext, ConsumerTake, ConsumerSkip, ConsumerBegin, ConsumerCall,
                ConsumerReturn, ConsumerOutput, ConsumerExecutionTime, ConsumerFinish, clientVars
  <2>4. ASSUME NEW d \in Clients,
               \/ Refuse(d) \/ ClientStepOf(d)
               \/ \E j \in Jobs : SubmitCreate(d, j)
               \/ \E j \in known : Get(d, j) \/ Cancel(d, j)
        PROVE  pc'[c] = pc[c]
    <3>1. CASE ClientStepOf(d)
      <4>1. d # c
        BY <1>2, <3>1
      <4>2. QED
        BY <3>1, <4>1 DEF TypeOK, ClientStepOf, SubmitRegister, SubmitPut, ReadStatus, ReadOutput,
                          ReadExecutionTime, ReadDelayTime, ReadStep, Goto
    <3>2. CASE ~ClientStepOf(d)
      BY <2>1, <2>4, <3>2 DEF TypeOK, Refuse, SubmitCreate, Get, Cancel, Goto
    <3>3. QED
      BY <3>1, <3>2
  <2>5. QED
    BY <2>2, <2>3, <2>4 DEF Next
<1>3. QED
  BY <1>1, <1>2

LEMMA ConsumerForward == ASSUME TypeOK, [Next]_vars, ~Restart PROVE ConsumerGoesOn
<1>1. CASE ConsumerNext
  BY <1>1 DEF ConsumerGoesOn, ConsumerAt, ConsumerNext, ConsumerTake, ConsumerSkip, ConsumerBegin,
              ConsumerCall, ConsumerReturn, ConsumerOutput, ConsumerExecutionTime, ConsumerFinish
<1>2. CASE ~ConsumerNext
  BY <1>2 DEF ConsumerGoesOn, Next, vars, consumerVars, Refuse, SubmitCreate, Get, Cancel,
              ClientStepOf, SubmitRegister, SubmitPut, ReadStatus, ReadOutput, ReadExecutionTime,
              ReadDelayTime, ReadStep
<1>3. QED
  BY <1>1, <1>2

LEMMA QueueForward == ASSUME TypeOK, [Next]_vars, ~Restart PROVE QueueGoesOn
<1> SUFFICES ASSUME NEW p \in DOMAIN pending PROVE KeepsPlace(p) \/ MovesUp(p)
  BY DEF QueueGoesOn
<1>1. CASE ConsumerTake
  <2>1. /\ pending \in Seq(Jobs) /\ pending # <<>>
        /\ at' = "begin" /\ current' = pending[1] /\ pending' = Tail(pending)
    BY <1>1, HeadTail DEF ConsumerTake, TypeOK
  <2>2. p \in 1 .. Len(pending) /\ DOMAIN pending' = 1 .. Len(pending) - 1 /\ Len(pending) \in Nat
    BY <2>1, HeadTail
  <2>3. p # 1 => p - 1 \in DOMAIN pending' /\ pending'[p - 1] = pending[p]
    <3>1. SUFFICES ASSUME p # 1 PROVE p - 1 \in DOMAIN pending' /\ pending'[p - 1] = pending[p]
      OBVIOUS
    <3>2. p - 1 \in 1 .. Len(pending) - 1 /\ (p - 1) + 1 = p
      BY <2>2, <3>1
    <3>3. QED
      BY <2>1, <2>2, <3>2, HeadTail
  <2>4. QED
    BY <1>1, <2>1, <2>3 DEF MovesUp
<1>2. ASSUME NEW c \in Clients, SubmitPut(c) PROVE KeepsPlace(p)
  <2>1. pending' = Append(pending, asked[c]) /\ pending \in Seq(Jobs)
    BY <1>2 DEF SubmitPut, TypeOK
  <2>2. QED
    BY <2>1 DEF KeepsPlace
<1>3. CASE UNCHANGED pending
  BY <1>3 DEF KeepsPlace
<1>4. QED
  BY <1>1, <1>2, <1>3 DEF Next, vars, queueVars, Refuse, SubmitCreate, Get, Cancel, ClientStepOf,
     SubmitRegister, ReadStatus, ReadOutput, ReadExecutionTime, ReadDelayTime, ReadStep,
     ConsumerNext, ConsumerSkip, ConsumerBegin, ConsumerCall, ConsumerReturn, ConsumerOutput,
     ConsumerExecutionTime, ConsumerFinish

(* Between restarts every request and every job comes nearer its end with each
   step that is taken for it, and no step of another takes it back. *)
THEOREM JobsComeNearer == Spec => [][~Restart => ThreadsGoOn]_vars
<1>1. IInv /\ [Next]_vars => [~Restart => ThreadsGoOn]_vars
  BY RequestsForward, ConsumerForward, QueueForward DEF IInv, ThreadsGoOn
<1>2. QED
  BY <1>1, Invariance, PTL DEF Spec

(* handle_job is entered at most once for every job. *)
THEOREM NoSecondRun == Spec => []AtMostOnce
<1>1. IInv => AtMostOnce
  BY DEF IInv, LifeInv, JobInv, AtMostOnce
<1>2. QED
  BY <1>1, Invariance, PTL

(* A job whose caller was told CANCELLED is never run. *)
THEOREM CancellationHolds == Spec => []CancelledNeverRuns
<1>1. IInv => CancelledNeverRuns
  BY DEF IInv, ResponseInv, TrueResponse, Terminal, CancelledNeverRuns
<1>2. QED
  BY <1>1, Invariance, PTL

(* A response that says a job is over is whole, although it is torn. *)
THEOREM TerminalAnswers == Spec => []TerminalAnswerIsWhole
<1>1. IInv => TerminalAnswerIsWhole
  BY DEF IInv, ResponseInv, TrueResponse, TerminalAnswerIsWhole
<1>2. QED
  BY <1>1, Invariance, PTL

(* Jobs are served in the order in which they became known. *)
THEOREM FirstComeFirstServed == Spec => []ServedInOrder
<1>1. IInv => ServedInOrder
  BY DEF IInv, TypeOK, OrderInv, Precedes, ServedInOrder
<1>2. QED
  BY <1>1, Invariance, PTL

(***************************************************************************)
(* The queue implements the life of a job: every step of a thread is a     *)
(* step of JobLifecycle or leaves what callers are told unchanged.         *)
(***************************************************************************)
Answer == [j \in Jobs |-> IF status[j] \in Terminal THEN output[j] ELSE "none"]

(* A step that moves neither the status nor the output of a finished job. *)
LEMMA Stutters ==
    ASSUME status' = status, \A j \in Jobs : status[j] \in Terminal => output'[j] = output[j]
    PROVE  UNCHANGED <<status, Answer>>
BY DEF Answer

\* Every step of the queue is a step of the life of one job, or no step at all.
LEMMA StepImplements == IInv /\ [Next]_vars => [Lifecycle!Next]_(Lifecycle!vars)
<1> SUFFICES ASSUME IInv, [Next]_vars
             PROVE  Lifecycle!Next \/ UNCHANGED <<status, Answer>>
  BY DEF Lifecycle!vars, Answer
<1>0. TypeOK /\ LifeInv /\ HandsInv /\ FieldsInv /\ PlacesInv
      /\ (\A j \in Jobs : JobInv(j) /\ JobFields(j))
  BY DEF IInv, LifeInv, FieldsInv
<1> DEFINE Still == UNCHANGED status /\ \A j \in Jobs : status[j] \in Terminal => output'[j] = output[j]
<1>still. Still => UNCHANGED <<status, Answer>>
  BY Stutters
<1> USE DEF jobVars, queueVars, consumerVars, clientVars, callerVars, historyVars
<1>1. ASSUME NEW c \in Clients, Refuse(c)
      PROVE  Lifecycle!Next \/ UNCHANGED <<status, Answer>>
  BY <1>1, <1>still DEF Refuse
<1>2. ASSUME NEW c \in Clients, NEW j \in Jobs, SubmitCreate(c, j)
      PROVE  Lifecycle!Next \/ UNCHANGED <<status, Answer>>
  BY <1>2, <1>still DEF SubmitCreate, Goto
<1>3. ASSUME NEW c \in Clients, NEW j \in known, Get(c, j)
      PROVE  Lifecycle!Next \/ UNCHANGED <<status, Answer>>
  BY <1>3, <1>still DEF Get, Goto
<1>4. ASSUME NEW c \in Clients, NEW j \in known, Cancel(c, j)
      PROVE  Lifecycle!Next \/ UNCHANGED <<status, Answer>>
  <2>1. CASE status[j] = "IN_QUEUE"
    <3>1. j \in Jobs /\ output[j] = "none" /\ UNCHANGED output
          /\ status' = [status EXCEPT ![j] = "CANCELLED"]
      BY <1>0, <1>4, <2>1 DEF Cancel, TypeOK, JobFields, Fields
    <3>2. UNCHANGED Answer
      BY <1>0, <2>1, <3>1 DEF Answer, Terminal, TypeOK
    <3>3. Lifecycle!Cancel(j)
      BY <2>1, <3>1, <3>2 DEF Lifecycle!Cancel, Answer
    <3>4. QED
      BY <3>1, <3>3 DEF Lifecycle!Next
  <2>2. CASE status[j] # "IN_QUEUE"
    BY <1>0, <1>4, <1>still, <2>2 DEF Cancel, TypeOK
  <2>3. QED
    BY <2>1, <2>2
<1>5. ASSUME NEW c \in Clients, SubmitRegister(c)
      PROVE  Lifecycle!Next \/ UNCHANGED <<status, Answer>>
  <2>1. asked[c] \in Jobs /\ status[asked[c]] = "ABSENT" /\ UNCHANGED output
        /\ status' = [status EXCEPT ![asked[c]] = "IN_QUEUE"]
    BY <1>0, <1>5 DEF SubmitRegister, TypeOK, PlacesInv, HandsInv
  <2>2. UNCHANGED Answer
    BY <1>0, <2>1 DEF Answer, Terminal, TypeOK
  <2>3. Lifecycle!Accept(asked[c])
    BY <2>1, <2>2 DEF Lifecycle!Accept, Answer
  <2>4. QED
    BY <2>1, <2>3 DEF Lifecycle!Next
<1>6. ASSUME NEW c \in Clients, SubmitPut(c)
      PROVE  Lifecycle!Next \/ UNCHANGED <<status, Answer>>
  BY <1>6, <1>still DEF SubmitPut, Goto
<1>7. ASSUME NEW c \in Clients, ReadStatus(c)
      PROVE  Lifecycle!Next \/ UNCHANGED <<status, Answer>>
  BY <1>7, <1>still DEF ReadStatus, ReadStep, Goto
<1>8. ASSUME NEW c \in Clients, ReadOutput(c)
      PROVE  Lifecycle!Next \/ UNCHANGED <<status, Answer>>
  BY <1>8, <1>still DEF ReadOutput, ReadStep, Goto
<1>9. ASSUME NEW c \in Clients, ReadExecutionTime(c)
      PROVE  Lifecycle!Next \/ UNCHANGED <<status, Answer>>
  BY <1>9, <1>still DEF ReadExecutionTime, ReadStep, Goto
<1>10. ASSUME NEW c \in Clients, ReadDelayTime(c)
      PROVE  Lifecycle!Next \/ UNCHANGED <<status, Answer>>
  BY <1>10, <1>still DEF ReadDelayTime, ReadStep, Goto
<1>11. CASE ConsumerTake
  BY <1>11, <1>still DEF ConsumerTake
<1>12. CASE ConsumerSkip
  BY <1>12, <1>still DEF ConsumerSkip
<1>13. CASE ConsumerBegin
  <2>1. current \in Jobs /\ status[current] = "IN_QUEUE" /\ UNCHANGED output
        /\ status' = [status EXCEPT ![current] = "IN_PROGRESS"]
    BY <1>0, <1>13 DEF ConsumerBegin, TypeOK, PlacesInv, HandsInv
  <2>2. UNCHANGED Answer
    BY <1>0, <2>1 DEF Answer, Terminal, TypeOK
  <2>3. \A k \in Jobs : status[k] # "IN_PROGRESS"
    BY <1>0, <1>13 DEF ConsumerBegin, JobInv, Running
  <2>4. Lifecycle!Start(current)
    BY <2>1, <2>2, <2>3 DEF Lifecycle!Start, Answer
  <2>5. QED
    BY <2>1, <2>4 DEF Lifecycle!Next
<1>14. CASE ConsumerCall
  BY <1>14, <1>still DEF ConsumerCall
<1>15. CASE ConsumerReturn
  BY <1>15, <1>still DEF ConsumerReturn
<1>16. CASE ConsumerOutput
  <2>1. current \in Jobs /\ status[current] = "IN_PROGRESS" /\ UNCHANGED status
        /\ output' = [output EXCEPT ![current] = outcome]
    BY <1>0, <1>16 DEF ConsumerOutput, TypeOK, PlacesInv, HandsInv, Running, ConsumerStep
  <2>2. Still
    BY <1>0, <2>1 DEF Terminal, TypeOK
  <2>3. QED
    BY <2>2, <1>still
<1>17. CASE ConsumerExecutionTime
  BY <1>17, <1>still DEF ConsumerExecutionTime
<1>18. CASE ConsumerFinish
  <2>1. /\ current \in Jobs /\ status[current] = "IN_PROGRESS" /\ UNCHANGED output
        /\ output[current] = outcome /\ outcome \in {"result", "failure"}
        /\ status' = [status EXCEPT ![current] =
                        IF outcome = "result" THEN "COMPLETED" ELSE "FAILED"]
    BY <1>0, <1>18 DEF ConsumerFinish, TypeOK, Output, PlacesInv, HandsInv, Running,
                       ConsumerStep, FieldsInv, Fields
  <2>2. Answer' = [Answer EXCEPT ![current] = outcome]
    BY <1>0, <2>1 DEF Answer, Terminal, TypeOK
  <2>3. Lifecycle!Finish(current)
    BY <2>1, <2>2 DEF Lifecycle!Finish, Answer
  <2>4. current \in Jobs
    BY <2>1
  <2>5. QED
    BY <2>3, <2>4 DEF Lifecycle!Next, Lifecycle!Finish
<1>19. CASE Restart
  <2>1. status' = [j \in Jobs |-> "ABSENT"]
    BY <1>19 DEF Restart
  <2>2. Answer' = [j \in Jobs |-> "none"]
    BY <2>1 DEF Answer, Terminal
  <2>3. Lifecycle!Forget
    BY <2>1, <2>2 DEF Lifecycle!Forget, Answer
  <2>4. QED
    BY <2>3 DEF Lifecycle!Next
<1>20. CASE UNCHANGED vars
  BY <1>20, <1>still DEF vars
<1>21. QED
  BY <1>1, <1>2, <1>3, <1>4, <1>5, <1>6, <1>7, <1>8, <1>9, <1>10, <1>11, <1>12, <1>13,
     <1>14, <1>15, <1>16, <1>17, <1>18, <1>19, <1>20
  DEF Next, ClientStepOf, ConsumerNext

(* What callers see is a behaviour of JobLifecycle. *)
THEOREM Implements == Spec => ImplementsLifecycle
<1>1. Init => Lifecycle!Init
  BY DEF Init, Lifecycle!Init, Terminal
<1>2. IInv /\ [Next]_vars => [Lifecycle!Next]_(Lifecycle!vars)
  BY StepImplements
<1>3. QED
  BY <1>1, <1>2, Invariance, PTL DEF Spec, ImplementsLifecycle, Lifecycle!Spec
=============================================================================
