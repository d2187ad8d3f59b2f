------------------------ MODULE PodValidation_proofs ------------------------
(***************************************************************************)
(* Proofs about PodValidation, for every set of clients, bundles and       *)
(* required roles: the inductive invariant, what follows from it, and the  *)
(* refinement of OneShotValidation.                                        *)
(***************************************************************************)
EXTENDS PodValidation, TLAPS

\* How far each status is.
LEMMA Ranks ==
    /\ Rank("awaiting_assets") = 0 /\ Rank("pending") = 1 /\ Rank("accepted") = 1
    /\ Rank("running") = 2 /\ Rank("completed") = 3 /\ Rank("failed") = 3
    /\ \A s \in Status \cup {"accepted", "none"} : Rank(s) \in 0..3
    /\ \A s \in Status : Rank(s) >= 3 <=> s \in Final
    /\ \A s \in Status : Rank(s) <= 0 <=> s = "awaiting_assets"
  BY DEF Rank, Status, Final

\* A fresh state, and the answers without a state, are what they should be.
LEMMA Values ==
    /\ NoReport \in Report
    /\ \A s \in Status : /\ Becomes(s) \in State
                         /\ Becomes(s).status = s /\ ~Becomes(s).error
                         /\ Becomes(s).report = NoReport
    /\ \A code \in {0, 401, 400, 409} : /\ Refusal(code) \in Reply
                                        /\ Refusal(code).code = code
                                        /\ Refusal(code).status = "none"
                                        /\ Refusal(code).report = NoReport
    /\ ~NoReport.made /\ ~NoReport.passed
    /\ NoState \in State
  BY DEF NoReport, Report, Becomes, State, Status, Final, Refusal, Reply, Assets, NoState

\* Nothing is started, nobody has asked.
LEMMA InitHolds == ASSUME Init PROVE IInv
<1>1. TypeOK
  <2>1. output \in Output
    BY DEF Init, Output, NoOutput, RunStatus
  <2>2. state \in State
    <3>1. state \in {Becomes("pending"), Becomes("awaiting_assets")}
      BY DEF Init
    <3> QED
      BY <3>1, Values DEF Status
  <2>3. bundled \in Assets /\ assets \in Assets
    BY DEF Init, Assets
  <2>4. snapshot \in [Clients -> State] /\ reply \in [Clients -> Reply]
    BY Values DEF Init, NoReply
  <2>5. told \in 0..3 /\ accepts \in Nat /\ floor \in [Clients -> 0..3]
    BY DEF Init
  <2>6. pc \in [Clients -> {"idle", "read", "answer"} \cup Posting]
    BY DEF Init
  <2>7. upload \in [Clients -> Assets]
    BY DEF Init, Assets
  <2> QED
    BY <2>1, <2>2, <2>3, <2>4, <2>5, <2>6, <2>7 DEF Init, TypeOK
<1>2. Course
  <2>1. CASE StartsAtOnce
    BY <2>1 DEF Init, Course
  <2>2. CASE ~StartsAtOnce
    BY <2>2 DEF Init, Course
  <2> QED
    BY <2>1, <2>2
<1>3. Opened
  BY Values, Ranks DEF Init, Opened, Winning, Status
<1>4. ASSUME NEW c \in Clients PROVE Right(c)
  BY <1>4, Values, ConstantsAssumption
     DEF Init, Right, Placed, AcceptedIsUsed, Fresh, FinalFor, RightlyRefused, Winning,
         NoReply, Final
<1> QED
  BY <1>1, <1>2, <1>3, <1>4 DEF IInv

-----------------------------------------------------------------------------
(* Clients that do not move.                                               *)

\* What is never taken back, whoever moves.
Onward ==
    /\ UNCHANGED <<required, bundled>>
    /\ (serving => serving') /\ (started => started')
    /\ told <= told' /\ (accepts = 1 => accepts' = 1)
    /\ Rank(state.status) <= Rank(state'.status)
    /\ state.status \in Final => UNCHANGED <<state, output>>
    /\ worker # "none" => worker' # "none" /\ assets' = assets

\* Client d has no step, and nothing that it relies on has changed.
Same(d) == /\ pc'[d] = pc[d] /\ upload'[d] = upload[d] /\ snapshot'[d] = snapshot[d]
           /\ reply'[d] = reply[d] /\ floor'[d] = floor[d]
Spared(d) == /\ lock = d <=> lock' = d
             /\ pc[d] \in Winning => accepts' = accepts
             /\ pc[d] \in {"announce", "spawn"} => UNCHANGED <<worker, state>>

\* A report or an error is in a final state only.
LEMMA FinalState ==
    ASSUME TypeOK, Course
    PROVE  /\ state.report.made \/ state.report.passed \/ state.error => state.status \in Final
           /\ state.status \in Final => worker = "ended"
  BY Values DEF TypeOK, Course, Final, Status

LEMMA Stays ==
    ASSUME IInv, TypeOK', Onward, NEW d \in Clients, Same(d), Spared(d)
    PROVE  Right(d)'
<1> USE DEF IInv, Right
<1>1. ASSUME NEW s \in State, Past(s) PROVE Past(s)'
  BY <1>1, FinalState, Ranks DEF Past, Onward, TypeOK, State, Status, Final
<1>2. Placed(d)'
  <2>1. pc[d] = "answer" => Past(snapshot[d])'
    BY <1>1 DEF TypeOK, Placed, Same, Past
  <2>2. pc[d] = "accept" => worker' # "none" /\ assets' = upload[d]
    BY DEF Placed, Onward
  <2>3. floor[d] <= told'
    BY DEF Placed, Onward, TypeOK
  <2> QED
    BY <2>1, <2>2, <2>3 DEF Placed, Onward, Same, Spared, StartsAtOnce, Winning, Past
<1>3. AcceptedIsUsed(d)' /\ Fresh(d)' /\ RightlyRefused(d)'
  BY DEF AcceptedIsUsed, Fresh, RightlyRefused, Onward, Same, StartsAtOnce, Placed, Opened, TypeOK
<1>4. FinalFor(d)'
  BY FinalState DEF FinalFor, Onward, Same, Placed, TypeOK
<1> QED
  BY <1>2, <1>3, <1>4

-----------------------------------------------------------------------------
(* The process and its worker: no client moves.                            *)

NoClientMoves == UNCHANGED <<clientVars, history>>

\* If no client moves, and no flag or lock changes, only the state matters.
LEMMA WorkerKeeps ==
    ASSUME IInv, TypeOK', Course', Onward, NoClientMoves, lock' = lock,
           state.status # "awaiting_assets",
           worker # "none" \/ ~started,
           started => started', worker' # "none" => started',
           ~started' => UNCHANGED <<started, state>>,
           serving' /\ StartsAtOnce => started'
    PROVE  IInv'
<1>1. ASSUME NEW d \in Clients PROVE pc[d] \notin {"announce", "spawn"}
  BY <1>1 DEF IInv, Right, Placed, Winning
<1>2. Rank(state'.status) \in 1..3 /\ Rank(state.status) \in 1..3
  <2>1. state.status \in Status /\ state'.status \in Status
    BY DEF IInv, TypeOK, State
  <2>2. Rank(state.status) \in 0..3 /\ Rank(state'.status) \in 0..3
        /\ ~(Rank(state.status) <= 0)
    BY <2>1, Ranks
  <2> QED
    BY <2>2 DEF Onward
<1>3. Opened'
  <2>1. told' <= Rank(state'.status) /\ state'.status # "awaiting_assets"
    BY <1>2, Ranks DEF Opened, IInv, Onward, NoClientMoves, history, TypeOK
  <2> QED
    BY <2>1 DEF Opened, IInv, Onward, NoClientMoves, clientVars, history, StartsAtOnce
<1>4. ASSUME NEW d \in Clients PROVE Right(d)'
  <2>1. Same(d) /\ Spared(d)
    BY <1>1 DEF NoClientMoves, clientVars, history, Same, Spared
  <2> QED
    BY <2>1, Stays
<1> QED
  BY <1>3, <1>4 DEF IInv

\* The validation that needs no upload.
LEMMA BootStartKeeps == ASSUME IInv, BootStart PROVE IInv'
<1>1. state = Becomes("pending") /\ state' = Becomes("pending") /\ worker = "none"
  BY DEF IInv, Opened, BootStart
<1>2. TypeOK' /\ Course'
  BY <1>1, Values DEF IInv, TypeOK, Course, BootStart, clientVars, history, mainVars, Status
<1>3. Onward
  BY <1>1, Values, Ranks DEF IInv, TypeOK, Onward, BootStart, mainVars, history, Final, Status
<1> QED
  BY <1>1, <1>2, <1>3, WorkerKeeps, Values
     DEF BootStart, NoClientMoves, Status, mainVars, clientVars, history

\* Requests are served once the validation is started, or waits for its assets.
LEMMA ServeKeeps == ASSUME IInv, Serve PROVE IInv'
<1>1. TypeOK' /\ Course'
  BY DEF IInv, TypeOK, Course, Serve, workerVars, serverVars, clientVars, history
<1>2. Onward
  BY Ranks DEF IInv, TypeOK, Onward, Serve, workerVars, serverVars, history, State
<1>3. Opened'
  BY DEF IInv, Opened, Serve, workerVars, serverVars, clientVars, history, StartsAtOnce
<1>4. ASSUME NEW d \in Clients PROVE Right(d)'
  <2>1. Same(d) /\ Spared(d)
    BY DEF Serve, workerVars, serverVars, clientVars, history, Same, Spared
  <2> QED
    BY <1>1, <1>2, <2>1, Stays
<1> QED
  BY <1>1, <1>3, <1>4 DEF IInv

\* A step of the worker takes the state to the next status.
LEMMA WorkerStepKeeps == ASSUME IInv, WorkerStep \/ Work PROVE IInv'
<1>1. /\ UNCHANGED <<mainVars, assets, started, lock, clientVars, history>>
      /\ worker # "none" /\ worker' # "none"
  BY DEF WorkerStep, Work, WorkerRuns, WorkerCompletes, WorkerAnswered, WorkerFails, serverVars
<1>2. TypeOK' /\ Course' /\ (state.status \in Final => FALSE)
      /\ Rank(state.status) <= Rank(state'.status) /\ state.status # "awaiting_assets"
  <2> USE <1>1, Values, Ranks DEF mainVars, serverVars, clientVars, history, Status, Final
  <2>1. CASE WorkerRuns
    <3>1. state = Becomes("pending") /\ state' = Becomes("running")
      BY <2>1 DEF IInv, Course, WorkerRuns
    <3>2. TypeOK' /\ Course'
      BY <2>1, <3>1 DEF IInv, TypeOK, Course, WorkerRuns
    <3> QED
      BY <3>1, <3>2
  <2>2. CASE WorkerAnswered
    <3>1. state = Becomes("running") /\ state' = state
      BY <2>2 DEF IInv, Course, WorkerAnswered
    <3>2. TypeOK' /\ Course'
      BY <2>2, <3>1 DEF IInv, TypeOK, Course, WorkerAnswered
    <3> QED
      BY <3>1, <3>2
  <2>3. CASE WorkerFails
    <3>1. state = Becomes("running")
      BY <2>3 DEF IInv, Course, WorkerFails
    <3>2. /\ state' \in State /\ state'.status = "failed" /\ state'.error
          /\ state'.report = NoReport
      BY <2>3 DEF WorkerFails, State
    <3>3. TypeOK' /\ Course'
      BY <2>3, <3>2 DEF IInv, TypeOK, Course, WorkerFails
    <3> QED
      BY <3>1, <3>2, <3>3
  <2>4. CASE WorkerCompletes
    <3>1. state = Becomes("running")
      BY <2>4 DEF IInv, Course, WorkerCompletes
    <3>2. Passed(output) \in BOOLEAN
      BY DEF Passed, IInv, TypeOK, Output
    <3>3. /\ state' \in State /\ state'.status = "completed" /\ ~state'.error
          /\ state'.report = [made |-> TRUE, subject |-> assets, passed |-> Passed(output)]
      BY <2>4, <3>2 DEF WorkerCompletes, State, Report, IInv, TypeOK
    <3>4. TypeOK' /\ Course'
      BY <2>4, <3>3 DEF IInv, TypeOK, Course, WorkerCompletes, Passed
    <3> QED
      BY <3>1, <3>3, <3>4
  <2> QED
    BY <2>1, <2>2, <2>3, <2>4 DEF WorkerStep, Work
<1>3. Onward
  BY <1>1, <1>2 DEF IInv, TypeOK, Onward, mainVars, history
<1>4. started
  BY <1>1 DEF IInv, Opened
<1> QED
  BY <1>1, <1>2, <1>3, <1>4, WorkerKeeps DEF NoClientMoves

-----------------------------------------------------------------------------
(* Requests: one client moves.                                             *)

Others(c) == \A d \in Clients \ {c} : Same(d)

\* The client that moves, and the globals, are all there is to look at.
LEMMA ClientKeeps ==
    ASSUME IInv, TypeOK', Course', Opened', Onward, NEW c \in Clients, Others(c),
           \A d \in Clients \ {c} : Spared(d),
           Right(c)'
    PROVE  IInv'
<1>1. ASSUME NEW d \in Clients \ {c} PROVE Right(d)'
  BY <1>1, Stays DEF Others
<1> QED
  BY <1>1 DEF IInv

\* A step that changes nothing in the server, and tells at most what is so.
LEMMA QuietKeeps ==
    ASSUME IInv, TypeOK', NEW c \in Clients, Others(c), Right(c)',
           UNCHANGED <<mainVars, workerVars, serverVars, accepts>>,
           pc[c] \notin Winning, pc'[c] \notin Winning,
           told <= told', told' <= Rank(state.status)
    PROVE  IInv'
<1> USE DEF mainVars, workerVars, serverVars
<1>1. Course'
  BY DEF IInv, Course
<1>2. Onward
  BY Ranks DEF IInv, TypeOK, State, Onward
<1>3. Opened'
  BY DEF IInv, Opened, StartsAtOnce, Others, Same, Winning
<1>4. \A d \in Clients \ {c} : Spared(d)
  BY DEF Spared
<1> QED
  BY <1>1, <1>2, <1>3, <1>4, ClientKeeps

\* Client c comes to a place with a reply, the others stay.
Moved(c, p, r) == /\ pc'[c] = p /\ reply'[c] = r
                  /\ \A d \in Clients \ {c} : pc'[d] = pc[d] /\ reply'[d] = reply[d]
                  /\ pc' \in [Clients -> {"idle", "read", "answer"} \cup Posting]
                  /\ reply' \in [Clients -> Reply]

\* What the ways on, and out, of a request do.
LEMMA OneMoves ==
    ASSUME TypeOK, NEW c \in Clients
    PROVE  /\ \A p \in {"idle", "read", "answer"} \cup Posting :
                  GoesOn(c, p) => Moved(c, p, reply[c])
           /\ \A r \in Reply : Tells(c, r) => Moved(c, "idle", r)
  BY DEF TypeOK, GoesOn, Tells, Goto, Moved

\* A client that is told nothing, at no particular place, is right.
LEMMA NothingTold ==
    ASSUME NEW c \in Clients, IInv, TypeOK', reply'[c].status = "none",
           reply'[c].report = NoReport, reply'[c].code \in {0, 401, 400, 409},
           reply'[c].code = 409 => started',
           Placed(c)'
    PROVE  Right(c)'
  BY Values DEF Right, AcceptedIsUsed, Fresh, FinalFor, RightlyRefused, Final

\* A request begins.
LEMMA RequestKeeps == ASSUME IInv, NEW c \in Clients, Request(c) PROVE IInv'
<1> USE DEF mainVars, workerVars, serverVars, history
<1>1. /\ UNCHANGED <<mainVars, workerVars, serverVars, accepts, told, snapshot>>
      /\ pc[c] = "idle" /\ serving
  BY DEF Request, Refuse, Get, Post, Asks
<1>2. NoReply \in Reply /\ Refusal(401) \in Reply
  BY Values DEF NoReply
<1>3. told <= Rank(state.status) /\ told \in 0..3 /\ floor[c] \in 0..3 /\ floor[c] <= told
  BY DEF IInv, Opened, TypeOK, Right, Placed
<1>4. CASE Refuse(c)
  <2>1. Moved(c, "idle", Refusal(401)) /\ UNCHANGED <<upload, floor>>
    BY <1>2, <1>4, OneMoves DEF Refuse, IInv
  <2>2. TypeOK' /\ Others(c)
    BY <1>1, <2>1 DEF IInv, TypeOK, Moved, Others, Same
  <2>3. Placed(c)'
    BY <1>1, <1>3, <2>1, Values DEF IInv, Right, Placed, Moved, Winning
  <2>4. Right(c)'
    BY <2>1, <2>2, <2>3, Values, NothingTold DEF Moved
  <2> QED
    BY <1>1, <1>3, <2>1, <2>2, <2>4, QuietKeeps DEF Moved, Winning
<1>5. ASSUME NEW step \in {"read", "check"}, Asks(c, step),
             upload' \in [Clients -> Assets],
             \A d \in Clients \ {c} : upload'[d] = upload[d]
      PROVE  IInv'
  <2>1. /\ pc'[c] = step /\ reply'[c] = NoReply /\ floor'[c] = told
        /\ TypeOK' /\ Others(c)
    BY <1>1, <1>2, <1>3, <1>5 DEF IInv, TypeOK, Asks, Goto, Others, Same, Posting
  <2>2. Placed(c)'
    BY <1>1, <1>3, <2>1, Values DEF IInv, Right, Placed, Winning, NoReply
  <2>3. Right(c)'
    BY <2>1, <2>2, Values, NothingTold DEF NoReply
  <2> QED
    BY <1>1, <1>3, <2>1, <2>3, QuietKeeps DEF Winning
<1>6. CASE Get(c)
  BY <1>5, <1>6 DEF Get, IInv, TypeOK, Assets
<1>7. CASE Post(c)
  <2>1. PICK b \in Assets : upload' = [upload EXCEPT ![c] = b]
    BY <1>7 DEF Post
  <2> QED
    BY <1>5, <1>7, <2>1 DEF Post, IInv, TypeOK
<1> QED
  BY <1>4, <1>6, <1>7 DEF Request

\* A reader's copy of the state.
LEMMA ReadStateKeeps == ASSUME IInv, NEW c \in Clients, ReadState(c) PROVE IInv'
<1> USE DEF mainVars, workerVars, serverVars
<1>1. Moved(c, "answer", reply[c])
  BY OneMoves DEF ReadState, IInv
<1>2. /\ UNCHANGED <<mainVars, workerVars, serverVars, accepts, told, upload, floor>>
      /\ pc[c] = "read" /\ snapshot'[c] = state
      /\ \A d \in Clients \ {c} : snapshot'[d] = snapshot[d]
      /\ snapshot' \in [Clients -> State]
  BY DEF ReadState, Handling, IInv, TypeOK
<1>3. TypeOK' /\ Others(c)
  BY <1>1, <1>2 DEF IInv, TypeOK, Moved, Others, Same
<1>4. told <= Rank(state.status) /\ told \in 0..3 /\ Rank(state.status) \in 0..3
      /\ floor[c] \in 0..3 /\ floor[c] <= told
  BY Ranks DEF IInv, Opened, TypeOK, State, Right, Placed
<1>5. Placed(c)'
  BY <1>1, <1>2, <1>4 DEF IInv, Right, Placed, Past, Moved, Winning
<1>6. reply[c] = NoReply
  BY <1>2 DEF IInv, Right, Placed
<1>7. Right(c)'
  BY <1>1, <1>3, <1>5, <1>6, NothingTold, Values DEF Moved, NoReply
<1> QED
  BY <1>1, <1>2, <1>3, <1>4, <1>7, QuietKeeps DEF Moved, Winning

\* What a page shows of a copy of the state.
LEMMA Pages ==
    ASSUME NEW s \in State, NEW page \in {Health(s), Result(s)}
    PROVE  /\ page \in Reply
           /\ page.status = s.status
           /\ page.report \in {NoReport, s.report}
           /\ page.code \in {200, 202, 500}
           /\ page.code = 500 => s.status = "failed"
<1>1. CASE page = Health(s)
  BY <1>1, Values DEF Health, Reply, State
<1>2. CASE page = Result(s)
  BY <1>2 DEF Result, Reply, State, Report
<1> QED
  BY <1>1, <1>2

\* What a final state says of the assets and the output.
LEMMA FinalReport ==
    ASSUME TypeOK, Course
    PROVE  /\ state.report.made => state.report.subject = assets
           /\ state.report.passed => Passed(output) /\ state.report.made
           /\ state.status = "failed" => state.error
<1>1. CASE worker # "ended"
  <2>1. state.report = NoReport /\ state.status # "failed"
    BY <1>1, Values DEF TypeOK, Course, Status
  <2> QED
    BY <2>1, Values
<1>2. CASE worker = "ended"
  BY <1>2, Values DEF Course
<1> QED
  BY <1>1, <1>2

\* The copy is shown: it is not older than the request, and final if it says so.
LEMMA AnswerKeeps == ASSUME IInv, NEW c \in Clients, Answer(c) PROVE IInv'
<1> USE DEF mainVars, workerVars, serverVars
<1> DEFINE seen == snapshot[c]
<1>1. PICK page \in {Health(seen), Result(seen)} : Tells(c, page)
  BY DEF Answer
<1>2. /\ UNCHANGED <<mainVars, workerVars, serverVars, accepts, upload, floor>>
      /\ pc[c] = "answer"
      /\ \A d \in Clients \ {c} : snapshot'[d] = snapshot[d]
      /\ snapshot' \in [Clients -> State]
      /\ told' = Further(told, Rank(seen.status))
      /\ seen \in State
  BY Values DEF Answer, Handling, IInv, TypeOK
<1>3. /\ page \in Reply /\ page.status = seen.status
      /\ page.report \in {NoReport, seen.report} /\ page.code \in {200, 202, 500}
      /\ page.code = 500 => seen.status = "failed"
  BY <1>1, <1>2, Pages
<1>4. Moved(c, "idle", page)
  BY <1>1, <1>3, OneMoves DEF IInv
<1>5. /\ Past(seen) /\ floor[c] <= Rank(seen.status) /\ floor[c] \in 0..3 /\ floor[c] <= told
      /\ Rank(seen.status) \in 0..3 /\ Rank(state.status) \in 0..3 /\ told \in 0..3
      /\ Rank(seen.status) <= Rank(state.status) /\ told <= Rank(state.status)
  BY <1>2, Ranks DEF IInv, Opened, TypeOK, Right, Placed, Past, State
<1>6. told <= told' /\ told' <= Rank(state.status) /\ told' \in 0..3
  BY <1>2, <1>5 DEF Further
<1>7. TypeOK' /\ Others(c)
  BY <1>2, <1>4, <1>6 DEF IInv, TypeOK, Moved, Others, Same
<1>8. /\ state.report.made => state.report.subject = assets
      /\ state.report.passed => Passed(output) /\ state.report.made
      /\ state.status = "failed" => state.error
      /\ seen.report.passed => seen = state
      /\ seen.report.made => seen = state
      /\ seen.status \in Final => seen = state
  BY <1>5, FinalReport DEF IInv, Past
<1>9. Passed(output) => /\ \A role \in REQUIRED_IMAGE_ROLES : output.last[role] = "succeeded"
                        /\ output.items
  BY DEF Passed
<1>10. FinalFor(c)'
  BY <1>2, <1>3, <1>4, <1>8, <1>9, Values DEF FinalFor, Moved, Final
<1>11. Placed(c)'
  <2>1. page.report.passed => page.report.made
    BY <1>3, <1>8, Values
  <2>2. page.status # "accepted"
    BY <1>2, <1>3 DEF State, Status, Final
  <2> QED
    BY <1>2, <1>4, <1>5, <1>6, <2>1, <2>2 DEF IInv, Right, Placed, Moved, Winning
<1>12. AcceptedIsUsed(c)' /\ Fresh(c)' /\ RightlyRefused(c)'
  BY <1>2, <1>3, <1>4, <1>5 DEF AcceptedIsUsed, Fresh, RightlyRefused, Moved, State, Status, Final
<1> QED
  BY <1>2, <1>4, <1>6, <1>7, <1>10, <1>11, <1>12, QuietKeeps DEF Right, Moved, Winning

\* The status is checked, and the body is read.
LEMMA CheckKeeps == ASSUME IInv, NEW c \in Clients, PostCheck(c) \/ PostBody(c) PROVE IInv'
<1> USE DEF mainVars, workerVars, serverVars
<1>1. /\ UNCHANGED <<mainVars, workerVars, serverVars, accepts, told, upload, floor, snapshot>>
      /\ pc[c] \in {"check", "body"} /\ serving /\ reply[c] = NoReply
  BY DEF PostCheck, PostBody, Handling, IInv, Right, Placed
<1>2. /\ told <= Rank(state.status) /\ told \in 0..3 /\ floor[c] \in 0..3 /\ floor[c] <= told
      /\ state.status \in Status /\ Rank(state.status) \in 0..3
  BY Ranks DEF IInv, Opened, TypeOK, Right, Placed, State
<1>3. ASSUME NEW code \in {400, 409}, Tells(c, Refusal(code)), code = 409 => started
      PROVE  IInv'
  <2>1. Moved(c, "idle", Refusal(code))
    BY <1>3, OneMoves, Values DEF IInv
  <2>2. TypeOK' /\ Others(c)
    BY <1>1, <2>1 DEF IInv, TypeOK, Moved, Others, Same
  <2>3. Placed(c)'
    BY <1>1, <1>2, <2>1, Values DEF IInv, Right, Placed, Moved, Winning
  <2>4. Right(c)'
    BY <1>1, <1>3, <2>1, <2>2, <2>3, Values, NothingTold DEF Moved
  <2> QED
    BY <1>1, <1>2, <2>1, <2>2, <2>4, QuietKeeps DEF Moved, Winning
<1>4. ASSUME NEW p \in {"body", "start"}, GoesOn(c, p), ~StartsAtOnce, floor[c] = 0,
             p = "start" => upload[c] \in Bundles
      PROVE  IInv'
  <2>1. Moved(c, p, NoReply)
    BY <1>1, <1>4, OneMoves DEF IInv, Posting
  <2>2. TypeOK' /\ Others(c)
    BY <1>1, <2>1 DEF IInv, TypeOK, Moved, Others, Same
  <2>3. Placed(c)'
    BY <1>1, <1>2, <1>4, <2>1, Values DEF IInv, Right, Placed, Moved, Winning, StartsAtOnce, NoReply
  <2>4. Right(c)'
    BY <2>1, <2>2, <2>3, Values, NothingTold DEF Moved, NoReply
  <2> QED
    BY <1>1, <1>2, <2>1, <2>2, <2>4, QuietKeeps DEF Moved, Winning
<1>5. CASE PostCheck(c) /\ state.status # "awaiting_assets"
  <2>1. started
    BY <1>1, <1>5, Values DEF IInv, Opened, Status
  <2> QED
    BY <1>3, <1>5, <2>1 DEF PostCheck
<1>6. CASE PostCheck(c) /\ state.status = "awaiting_assets"
  <2>1. floor[c] = 0 /\ ~StartsAtOnce
    BY <1>2, <1>6, Ranks DEF IInv, Opened
  <2> QED
    BY <1>4, <1>6, <2>1 DEF PostCheck
<1>7. CASE PostBody(c) /\ upload[c] = NoBundle
  BY <1>3, <1>7 DEF PostBody
<1>8. CASE PostBody(c) /\ upload[c] # NoBundle
  <2>1. floor[c] = 0 /\ ~StartsAtOnce /\ upload[c] \in Bundles
    BY <1>8 DEF PostBody, Handling, IInv, Right, Placed, TypeOK, Assets
  <2> QED
    BY <1>4, <1>8, <2>1 DEF PostBody
<1> QED
  BY <1>5, <1>6, <1>7, <1>8

\* What a client on its way to start the validation relies on.
LEMMA Starting ==
    ASSUME IInv, NEW c \in Clients, pc[c] \in {"start"} \cup Winning
    PROVE  /\ serving /\ ~StartsAtOnce /\ floor[c] = 0 /\ upload[c] \in Bundles
           /\ reply[c] = NoReply
           /\ pc[c] \in Winning => started /\ accepts = 0
           /\ \A d \in Clients \ {c} : pc[c] \in Winning => pc[d] \notin Winning
           /\ told \in 0..3 /\ told <= Rank(state.status) /\ Rank(state.status) \in 0..3
  BY Ranks DEF IInv, Right, Placed, Opened, Winning, TypeOK, State

\* One client sets the flag, the others are refused.
LEMMA EnterKeeps == ASSUME IInv, NEW c \in Clients, PostEnter(c) PROVE IInv'
<1> USE DEF mainVars, workerVars, serverVars
<1>1. /\ UNCHANGED <<mainVars, workerVars, state, accepts, told, upload, floor, snapshot>>
      /\ pc[c] = "start" /\ lock = Free
  BY DEF PostEnter, Handling
<1>2. CASE started /\ Tells(c, Refusal(409)) /\ UNCHANGED <<started, lock>>
  <2>1. Moved(c, "idle", Refusal(409))
    BY <1>2, OneMoves, Values DEF IInv
  <2>2. TypeOK' /\ Others(c)
    BY <1>1, <1>2, <2>1 DEF IInv, TypeOK, Moved, Others, Same
  <2>3. Placed(c)'
    BY <1>1, <1>2, <2>1, Values DEF IInv, Right, Placed, Moved, Winning
  <2>4. Right(c)'
    BY <1>2, <2>1, <2>2, <2>3, Values, NothingTold DEF Moved
  <2> QED
    BY <1>1, <1>2, <2>1, <2>2, <2>4, Starting, QuietKeeps DEF Moved, Winning
<1>3. CASE ~started /\ started' = TRUE /\ lock' = c /\ GoesOn(c, "announce")
  <2>1. Moved(c, "announce", NoReply)
    BY <1>1, <1>3, OneMoves, Starting DEF IInv, Posting
  <2>2. TypeOK' /\ Others(c)
    BY <1>1, <1>3, <2>1 DEF IInv, TypeOK, Moved, Others, Same
  <2>3. state.status = "awaiting_assets" /\ accepts = 0 /\ worker = "none"
    BY <1>1, <1>3, Starting, Values DEF IInv, Opened, TypeOK, Status
  <2>4. Placed(c)'
    BY <1>1, <1>3, <2>1, <2>3, Starting, Values
       DEF IInv, Right, Placed, Moved, Winning, StartsAtOnce, NoReply
  <2>5. Right(c)'
    BY <2>1, <2>2, <2>4, Values, NothingTold DEF Moved, NoReply
  <2>6. Course' /\ Onward
    BY <1>1, <1>3, Ranks DEF IInv, Course, Onward, TypeOK, State
  <2>7. \A d \in Clients : pc[d] \notin Winning
    BY <1>3 DEF IInv, Right, Placed
  <2>8. Opened'
    <3>1. \A d, e \in Clients : pc'[d] \in Winning /\ pc'[e] \in Winning => d = e
      BY <2>1, <2>7 DEF Moved
    <3>2. \E d \in Clients : pc'[d] = "announce"
      BY <2>1 DEF Moved
    <3> QED
      BY <1>1, <1>3, <2>3, <3>1, <3>2 DEF IInv, Opened, StartsAtOnce
  <2>9. \A d \in Clients \ {c} : Spared(d)
    BY <1>1, <1>3, ConstantsAssumption DEF Spared
  <2> QED
    BY <2>2, <2>5, <2>6, <2>8, <2>9, ClientKeeps
<1> QED
  BY <1>2, <1>3 DEF PostEnter

\* The status is announced before the thread is there.
LEMMA AnnounceKeeps == ASSUME IInv, NEW c \in Clients, PostAnnounce(c) PROVE IInv'
<1> USE DEF mainVars, workerVars, serverVars
<1>1. /\ UNCHANGED <<mainVars, workerVars, started, lock, accepts, told, upload, floor, snapshot>>
      /\ pc[c] = "announce" /\ state' = Becomes("pending") /\ GoesOn(c, "spawn")
  BY DEF PostAnnounce, Handling
<1>2. Moved(c, "spawn", NoReply)
  BY <1>1, OneMoves, Starting DEF IInv, Posting, Winning
<1>3. TypeOK' /\ Others(c)
  BY <1>1, <1>2, Values DEF IInv, TypeOK, Moved, Others, Same, Status
<1>4. worker = "none" /\ state.status = "awaiting_assets" /\ lock = c /\ started
  BY <1>1 DEF IInv, Right, Placed, Winning
<1>5. state'.status = "pending" /\ ~state'.error /\ state'.report = NoReport
  BY <1>1, Values DEF Status
<1>6. Course'
  BY <1>1, <1>4, <1>5 DEF IInv, Course
<1>7. Onward
  BY <1>1, <1>4, <1>5, Ranks DEF IInv, Onward, TypeOK, Final
<1>8. Opened'
  BY <1>1, <1>2, <1>4, <1>5, Starting, Ranks DEF IInv, Opened, Moved, StartsAtOnce, Winning
<1>9. Right(c)'
  <2>1. Placed(c)'
    BY <1>1, <1>2, <1>4, <1>5, Starting, Values
       DEF Placed, Moved, Winning, StartsAtOnce, NoReply
  <2> QED
    BY <1>2, <1>3, <2>1, Values, NothingTold DEF Moved, NoReply
<1>10. \A d \in Clients \ {c} : Spared(d)
  BY <1>1, Starting DEF Spared, Winning
<1> QED
  BY <1>3, <1>6, <1>7, <1>8, <1>9, <1>10, ClientKeeps

\* The thread is started with the upload of the client that set the flag.
LEMMA SpawnKeeps == ASSUME IInv, NEW c \in Clients, PostSpawn(c) PROVE IInv'
<1> USE DEF mainVars
<1>1. /\ UNCHANGED <<mainVars, output, state, started, accepts, told, upload, floor, snapshot>>
      /\ pc[c] = "spawn" /\ worker' = "spawned" /\ assets' = upload[c] /\ lock' = Free
      /\ GoesOn(c, "accept")
  BY DEF PostSpawn, Handling
<1>2. Moved(c, "accept", NoReply)
  BY <1>1, OneMoves, Starting DEF IInv, Posting, Winning
<1>3. TypeOK' /\ Others(c)
  BY <1>1, <1>2 DEF IInv, TypeOK, Moved, Others, Same
<1>4. worker = "none" /\ state.status = "pending" /\ lock = c /\ started
      /\ state = Becomes("pending")
  BY <1>1, Values DEF IInv, Right, Placed, Winning, Course, Status
<1>5. Course' /\ Onward
  BY <1>1, <1>4, Ranks DEF IInv, Course, Onward, TypeOK, State
<1>6. Opened'
  BY <1>1, <1>2, <1>4, Starting DEF IInv, Opened, Moved, StartsAtOnce, Winning
<1>7. Right(c)'
  <2>1. Placed(c)'
    BY <1>1, <1>2, <1>4, Starting, Values, ConstantsAssumption
       DEF IInv, Right, Placed, Moved, Winning, StartsAtOnce, NoReply
  <2> QED
    BY <1>2, <1>3, <2>1, Values, NothingTold DEF Moved, NoReply
<1>8. \A d \in Clients \ {c} : Spared(d)
  BY <1>1, <1>4, Starting, ConstantsAssumption DEF Spared, Winning
<1> QED
  BY <1>3, <1>5, <1>6, <1>7, <1>8, ClientKeeps

\* There is no thread: nothing is validated, and nobody was told otherwise.
LEMMA SpawnFailsKeeps == ASSUME IInv, NEW c \in Clients, PostSpawnFails(c) PROVE IInv'
<1> USE DEF mainVars, workerVars
<1>1. /\ UNCHANGED <<mainVars, workerVars, state, started, accepts, told, upload, floor, snapshot>>
      /\ pc[c] = "spawn" /\ lock' = Free /\ GoesOn(c, "idle")
  BY DEF PostSpawnFails, Handling
<1>2. Moved(c, "idle", NoReply)
  BY <1>1, OneMoves, Starting DEF IInv, Posting, Winning
<1>3. TypeOK' /\ Others(c)
  BY <1>1, <1>2 DEF IInv, TypeOK, Moved, Others, Same
<1>4. state.status = "pending" /\ lock = c
  BY <1>1 DEF IInv, Right, Placed, Winning
<1>5. Course' /\ Onward
  BY <1>1, Ranks DEF IInv, Course, Onward, TypeOK, State
<1>6. Opened'
  BY <1>1, <1>2, <1>4 DEF IInv, Opened, Moved, StartsAtOnce, Winning
<1>7. Right(c)'
  <2>1. Placed(c)'
    BY <1>1, <1>2, <1>4, Starting, Values, ConstantsAssumption
       DEF IInv, Right, Placed, Moved, Winning, StartsAtOnce, NoReply
  <2> QED
    BY <1>2, <1>3, <2>1, Values, NothingTold DEF Moved, NoReply
<1>8. \A d \in Clients \ {c} : Spared(d)
  BY <1>1, <1>4, ConstantsAssumption DEF Spared
<1> QED
  BY <1>3, <1>5, <1>6, <1>7, <1>8, ClientKeeps

\* The client is told that its upload was accepted.
LEMMA AcceptKeeps == ASSUME IInv, NEW c \in Clients, PostAccept(c) PROVE IInv'
<1> USE DEF mainVars, workerVars, serverVars
<1> DEFINE yes == [code |-> 202, status |-> "accepted", report |-> NoReport]
<1>1. /\ UNCHANGED <<mainVars, workerVars, serverVars, upload, floor, snapshot>>
      /\ pc[c] = "accept" /\ Tells(c, yes)
      /\ accepts' = accepts + 1 /\ told' = Further(told, 1)
  BY Ranks DEF PostAccept, Handling
<1>2. yes \in Reply /\ yes.status = "accepted" /\ yes.report = NoReport /\ yes.code = 202
  BY Values DEF Reply
<1> HIDE DEF yes
<1>3. Moved(c, "idle", yes)
  BY <1>1, <1>2, OneMoves DEF IInv
<1>4. accepts' = 1
  BY <1>1, Starting DEF Winning
<1>5. worker # "none" /\ assets = upload[c] /\ started
  BY <1>1 DEF IInv, Right, Placed, Winning
<1>6. Rank(state.status) \in 1..3
  <2>1. state.status # "awaiting_assets" /\ state.status \in Status
    BY <1>5, Values DEF IInv, TypeOK, Course, State, Status, Final
  <2>2. Rank(state.status) \in 0..3 /\ ~(Rank(state.status) <= 0)
    BY <2>1, Ranks
  <2> QED
    BY <2>2
<1>7. told <= told' /\ told' <= Rank(state.status) /\ told' \in 0..3 /\ told \in 0..3
  BY <1>1, <1>6, Starting DEF Further, Winning
<1>8. TypeOK' /\ Others(c)
  BY <1>1, <1>3, <1>4, <1>7 DEF IInv, TypeOK, Moved, Others, Same
<1>9. Course' /\ Onward
  BY <1>1, <1>4, <1>6, <1>7, Starting DEF IInv, Course, Onward, Winning
<1>10. Opened'
  BY <1>1, <1>3, <1>4, <1>5, <1>7, Starting DEF IInv, Opened, Moved, StartsAtOnce, Winning
<1>11. Placed(c)'
  BY <1>1, <1>2, <1>3, <1>4, <1>7, Starting, Values
     DEF IInv, TypeOK, Right, Placed, Moved, Winning
<1>12. AcceptedIsUsed(c)' /\ Fresh(c)' /\ FinalFor(c)' /\ RightlyRefused(c)'
  BY <1>1, <1>2, <1>3, <1>5, Starting, Values, Ranks
     DEF AcceptedIsUsed, Fresh, FinalFor, RightlyRefused, Moved, Winning, StartsAtOnce, Final
<1>13. \A d \in Clients \ {c} : Spared(d)
  BY <1>1, Starting DEF Spared, Winning
<1> QED
  BY <1>8, <1>9, <1>10, <1>11, <1>12, <1>13, ClientKeeps DEF Right
-----------------------------------------------------------------------------
(* The theorems.                                                           *)

\* A step that does nothing.
LEMMA StutterKeeps == ASSUME IInv, UNCHANGED vars PROVE IInv'
<1>1. TypeOK' /\ Course' /\ Opened'
  BY DEF IInv, TypeOK, Course, Opened, StartsAtOnce, vars, mainVars, workerVars, serverVars,
         clientVars, history
<1>2. ASSUME NEW d \in Clients PROVE Right(d)'
  BY <1>2 DEF IInv, Right, Placed, Past, AcceptedIsUsed, Fresh, FinalFor, RightlyRefused,
         StartsAtOnce, vars, mainVars, workerVars, serverVars, clientVars, history
<1> QED
  BY <1>1, <1>2 DEF IInv

\* IInv holds in every state: wherever the worker, the boot and any number of
\* requests are, pod_validation.py keeps flag, state and answers in step.
THEOREM Invariance == Spec => []IInv
<1>1. Init => IInv
  BY InitHolds
<1>2. ASSUME IInv, [Next]_vars PROVE IInv'
  <2>1. CASE Main
    BY <1>2, <2>1, BootStartKeeps, ServeKeeps DEF Main
  <2>2. CASE WorkerStep \/ Work
    BY <1>2, <2>2, WorkerStepKeeps
  <2>3. ASSUME NEW c \in Clients, Request(c) PROVE IInv'
    BY <1>2, <2>3, RequestKeeps
  <2>4. ASSUME NEW c \in Clients, Handle(c) \/ PostBody(c) PROVE IInv'
    BY <1>2, <2>4, ReadStateKeeps, AnswerKeeps, CheckKeeps, EnterKeeps, AnnounceKeeps,
       SpawnKeeps, SpawnFailsKeeps, AcceptKeeps DEF Handle
  <2>5. CASE UNCHANGED vars
    BY <1>2, <2>5, StutterKeeps
  <2> QED
    BY <1>2, <2>1, <2>2, <2>3, <2>4, <2>5 DEF Next
<1> QED
  BY <1>1, <1>2, PTL DEF Spec

\* Every variable of the server, the worker and the requests has its type.
THEOREM TypeCorrect == Spec => []TypeOK
<1>1. IInv => TypeOK
  BY DEF IInv
<1> QED
  BY <1>1, Invariance, PTL

\* One upload is accepted, and its client's bundle is the one validated.
THEOREM UploadIsOneShot == Spec => []OneShot
<1>1. IInv => OneShot
  BY DEF IInv, Opened, Right, OneShot
<1> QED
  BY <1>1, Invariance, PTL

\* No client is told a status behind what anybody was told before it asked.
THEOREM AnswersAreFresh == Spec => []FreshAnswers
<1>1. IInv => FreshAnswers
  BY DEF IInv, Right, FreshAnswers
<1> QED
  BY <1>1, Invariance, PTL

\* A final result, once shown, is whole and stays the result.
THEOREM ResultsAreFinal == Spec => []ResultIsFinal
<1>1. IInv => ResultIsFinal
  BY DEF IInv, Right, ResultIsFinal
<1> QED
  BY <1>1, Invariance, PTL

\* Only a validation that has been started makes an upload a conflict.
THEOREM ConflictsAreTrue == Spec => []ConflictIsTrue
<1>1. IInv => ConflictIsTrue
  BY DEF IInv, Right, ConflictIsTrue
<1> QED
  BY <1>1, Invariance, PTL

-----------------------------------------------------------------------------
(* Nobody waits for ever: what can be said without fairness.               *)

\* What the thread of a request still has before it.
StepsLeft(place) == CASE place = "check" -> 6 [] place = "body" -> 5 [] place = "start" -> 4
                      [] place = "announce" -> 3 [] place \in {"spawn", "read"} -> 2
                      [] place \in {"accept", "answer"} -> 1 [] OTHER -> 0
WorkerAt(place) == CASE place = "none" -> 0 [] place = "spawned" -> 1 [] place = "running" -> 2
                     [] place = "answered" -> 3 [] place = "ended" -> 4

\* A request comes nearer its answer, and only its own thread moves it; the
\* worker never goes back, and what it was started with stays.
RequestGoesOn(c) ==
    IF Handle(c) \/ PostBody(c) THEN StepsLeft(pc'[c]) < StepsLeft(pc[c])
                                ELSE pc[c] = "idle" \/ pc'[c] = pc[c]
WorkerGoesOn == /\ worker' = worker \/ WorkerAt(worker) < WorkerAt(worker')
                /\ worker # "none" => assets' = assets
ServerGoesOn == WorkerGoesOn /\ \A c \in Clients : RequestGoesOn(c)

LEMMA HandleForward ==
    ASSUME TypeOK, NEW c \in Clients, Handle(c) \/ PostBody(c)
    PROVE  /\ StepsLeft(pc'[c]) < StepsLeft(pc[c])
           /\ \A d \in Clients \ {c} : pc'[d] = pc[d]
<1>1. CASE PostCheck(c)
  <2>1. pc[c] = "check" /\ \E p \in {"idle", "body"} : Goto(c, p)
    BY <1>1 DEF PostCheck, Handling, Tells, GoesOn
  <2> QED
    BY <2>1 DEF TypeOK, Goto, StepsLeft
<1>2. CASE PostBody(c)
  <2>1. pc[c] = "body" /\ \E p \in {"idle", "start"} : Goto(c, p)
    BY <1>2 DEF PostBody, Handling, Tells, GoesOn
  <2> QED
    BY <2>1 DEF TypeOK, Goto, StepsLeft
<1>3. CASE PostEnter(c)
  <2>1. pc[c] = "start" /\ \E p \in {"idle", "announce"} : Goto(c, p)
    BY <1>3 DEF PostEnter, Handling, Tells, GoesOn
  <2> QED
    BY <2>1 DEF TypeOK, Goto, StepsLeft
<1>4. CASE PostAnnounce(c) \/ PostSpawn(c) \/ PostSpawnFails(c) \/ PostAccept(c)
  <2>1. \/ pc[c] = "announce" /\ Goto(c, "spawn")
        \/ pc[c] = "spawn" /\ (Goto(c, "accept") \/ Goto(c, "idle"))
        \/ pc[c] = "accept" /\ Goto(c, "idle")
    BY <1>4 DEF PostAnnounce, PostSpawn, PostSpawnFails, PostAccept, Handling, Tells, GoesOn
  <2> QED
    BY <2>1 DEF TypeOK, Goto, StepsLeft
<1>5. CASE ReadState(c) \/ Answer(c)
  <2>1. \/ pc[c] = "read" /\ Goto(c, "answer")
        \/ pc[c] = "answer" /\ Goto(c, "idle")
    BY <1>5 DEF ReadState, Answer, Handling, Tells, GoesOn
  <2> QED
    BY <2>1 DEF TypeOK, Goto, StepsLeft
<1> QED
  BY <1>1, <1>2, <1>3, <1>4, <1>5 DEF Handle

LEMMA RequestsForward ==
    ASSUME TypeOK, [Next]_vars, NEW c \in Clients PROVE RequestGoesOn(c)
<1>1. CASE Handle(c) \/ PostBody(c)
  BY <1>1, HandleForward DEF RequestGoesOn
<1>2. CASE ~(Handle(c) \/ PostBody(c))
  <2>1. ASSUME NEW d \in Clients, Handle(d) \/ PostBody(d) PROVE pc'[c] = pc[c]
    <3>1. d # c
      BY <1>2, <2>1
    <3> QED
      BY <2>1, <3>1, HandleForward
  <2>2. ASSUME NEW d \in Clients, Request(d) PROVE pc[c] = "idle" \/ pc'[c] = pc[c]
    BY <2>2 DEF TypeOK, Request, Refuse, Get, Post, Asks, Tells, Goto
  <2>3. Main \/ WorkerStep \/ Work \/ UNCHANGED vars => pc' = pc
    BY DEF Main, BootStart, Serve, WorkerStep, Work, WorkerRuns, WorkerCompletes, WorkerAnswered,
           WorkerFails, vars, clientVars
  <2> QED
    BY <1>2, <2>1, <2>2, <2>3 DEF RequestGoesOn, Next
<1> QED
  BY <1>1, <1>2

LEMMA WorkerForward == ASSUME IInv, [Next]_vars PROVE WorkerGoesOn
<1>1. ASSUME BootStart PROVE worker = "none" /\ worker' = "spawned"
  BY <1>1 DEF IInv, Opened, BootStart
<1>2. ASSUME NEW c \in Clients, PostSpawn(c) PROVE worker = "none" /\ worker' = "spawned"
  BY <1>2 DEF IInv, Right, Placed, PostSpawn, Handling
<1>3. CASE WorkerStep \/ Work
  BY <1>3 DEF WorkerStep, Work, WorkerRuns, WorkerCompletes, WorkerAnswered, WorkerFails,
              WorkerGoesOn, WorkerAt
<1>4. Serve \/ UNCHANGED vars => UNCHANGED workerVars
  BY DEF Serve, vars
<1>5. ASSUME NEW c \in Clients, ~PostSpawn(c), Request(c) \/ Handle(c) \/ PostBody(c)
      PROVE  UNCHANGED workerVars
  BY <1>5 DEF Request, Refuse, Get, Post, Asks, Handle, ReadState, Answer, PostCheck, PostBody,
              PostEnter, PostAnnounce, PostSpawnFails, PostAccept
<1>6. worker = "none" /\ worker' = "spawned" => WorkerGoesOn
  BY DEF WorkerGoesOn, WorkerAt
<1>7. UNCHANGED workerVars => WorkerGoesOn
  BY DEF WorkerGoesOn, workerVars
<1>8. ASSUME NEW c \in Clients, Request(c) \/ Handle(c) \/ PostBody(c) PROVE WorkerGoesOn
  BY <1>2, <1>5, <1>6, <1>7, <1>8
<1> QED
  BY <1>1, <1>3, <1>4, <1>6, <1>7, <1>8 DEF Next, Main

\* The part of EveryRequestIsAnswered and AcceptedSettles that needs no
\* fairness: the lock of start_validation is with a request that only has to
\* announce and to spawn, a request is over after a bounded number of steps,
\* and there is one worker, which is never started again.
THEOREM RequestsComeToAnEnd ==
    Spec => /\ [](\A c \in Clients : lock = c <=> pc[c] \in {"announce", "spawn"})
            /\ [][ServerGoesOn]_vars
<1>1. IInv => \A c \in Clients : lock = c <=> pc[c] \in {"announce", "spawn"}
  BY DEF IInv, Right, Placed
<1>2. IInv /\ [Next]_vars => [ServerGoesOn]_vars
  BY RequestsForward, WorkerForward DEF IInv, ServerGoesOn
<1> QED
  BY <1>1, <1>2, Invariance, PTL DEF Spec

-----------------------------------------------------------------------------
(* The refinement of OneShotValidation.                                    *)

\* What client c has been told, as the abstract specification sees it.
Told(c) == IF pc[c] = "answer" THEN snapshot[c].status ELSE reply[c].status
AllTold == [c \in Clients |-> Told(c)]

\* If one client moves, what it is told is all that changes.
LEMMA OneTold ==
    ASSUME NEW c \in Clients, Others(c), NEW t, Told(c)' = t
    PROVE  AllTold' = [AllTold EXCEPT ![c] = t]
  BY DEF AllTold, Told, Others, Same

\* If the replies and the places that count do not change, nobody is told anything.
LEMMA NoneTold ==
    ASSUME NEW c \in Clients, Others(c), Told(c)' = Told(c)
    PROVE  AllTold' = AllTold
  BY DEF AllTold, Told, Others, Same

\* A step with no client tells nobody anything.
LEMMA WorkerTellsNobody == ASSUME UNCHANGED clientVars PROVE AllTold' = AllTold
  BY DEF AllTold, Told, clientVars

\* The boot and the worker close, begin and end.
LEMMA WorkerImplements ==
    ASSUME IInv, Main \/ WorkerStep \/ Work
    PROVE  [Promise!Next]_Promise!vars
<1> USE DEF mainVars, workerVars, serverVars, clientVars, history
<1>1. AllTold' = AllTold /\ accepts' = accepts
  <2>1. UNCHANGED <<clientVars, history>>
    BY DEF Main, BootStart, Serve, WorkerStep, WorkerRuns, WorkerCompletes, Work,
           WorkerAnswered, WorkerFails
  <2> QED
    BY <2>1, WorkerTellsNobody
<1>2. CASE Serve \/ WorkerAnswered
  BY <1>1, <1>2 DEF Serve, WorkerAnswered, Promise!vars, AllTold, Told
<1>3. CASE BootStart
  <2>1. state' = state /\ state.status = "pending" /\ assets = NoBundle /\ assets' = bundled
    BY <1>3, Values DEF IInv, Opened, Course, BootStart, Status
  <2>2. CASE bundled \in Bundles
    <3>1. Promise!Choose(bundled)
      BY <1>1, <2>1, <2>2 DEF Promise!Choose, AllTold, Told
    <3> QED
      BY <2>2, <3>1 DEF Promise!Next
  <2>3. CASE bundled = NoBundle
    BY <1>1, <2>1, <2>3 DEF Promise!vars, AllTold, Told
  <2> QED
    BY <2>2, <2>3 DEF IInv, TypeOK, Assets
<1>4. CASE WorkerRuns
  <2>1. state.status = "pending" /\ state'.status = "running" /\ assets' = assets
    BY <1>4, Values DEF IInv, Course, WorkerRuns, Status
  <2>2. Promise!Begin
    BY <1>1, <2>1 DEF Promise!Begin, AllTold, Told
  <2> QED
    BY <2>2 DEF Promise!Next
<1>5. CASE WorkerFails \/ WorkerCompletes
  <2>1. state.status = "running" /\ assets' = assets
    BY <1>5, Values DEF IInv, Course, WorkerFails, WorkerCompletes, Status
  <2>2. state'.status \in {"completed", "failed"}
    BY <1>5 DEF WorkerFails, WorkerCompletes
  <2>3. Promise!End
    BY <1>1, <2>1, <2>2 DEF Promise!End, AllTold, Told
  <2> QED
    BY <2>3 DEF Promise!Next
<1> QED
  BY <1>2, <1>3, <1>4, <1>5 DEF Main, WorkerStep, Work

\* A step of client c leaves the others alone.
LEMMA StepsAlone ==
    ASSUME TypeOK, NEW c \in Clients, Request(c) \/ Handle(c) \/ PostBody(c)
    PROVE  Others(c)
<1> USE DEF Others, Same, TypeOK, Goto, Tells, GoesOn, history
<1>1. CASE Refuse(c) \/ Get(c)
  BY <1>1 DEF Refuse, Get, Asks
<1>2. CASE Post(c)
  BY <1>2 DEF Post, Asks
<1>3. CASE ReadState(c) \/ Answer(c)
  BY <1>3 DEF ReadState, Answer, Handling
<1>4. CASE PostCheck(c) \/ PostBody(c) \/ PostEnter(c)
  BY <1>4 DEF PostCheck, PostBody, PostEnter, Handling
<1>5. CASE PostAnnounce(c) \/ PostSpawn(c) \/ PostSpawnFails(c) \/ PostAccept(c)
  BY <1>5 DEF PostAnnounce, PostSpawn, PostSpawnFails, PostAccept, Handling
<1> QED
  BY <1>1, <1>2, <1>3, <1>4, <1>5 DEF Request, Handle

\* Requests ask, read and are accepted.
LEMMA ClientImplements ==
    ASSUME IInv, NEW c \in Clients, Request(c) \/ Handle(c) \/ PostBody(c)
    PROVE  [Promise!Next]_Promise!vars
<1> USE DEF mainVars, workerVars, serverVars
<1>1. /\ pc[c] # "idle" => reply[c].status = "none"
      /\ \A code \in {0, 401, 400, 409} : Refusal(code).status = "none"
      /\ NoReply.status = "none"
  BY Values DEF IInv, Right, Placed, NoReply
<1>2. Others(c) /\ pc \in [Clients -> {"idle", "read", "answer"} \cup Posting]
      /\ reply \in [Clients -> Reply] /\ snapshot \in [Clients -> State]
  BY StepsAlone DEF IInv, TypeOK
<1>3. ASSUME UNCHANGED <<state, assets, accepts>>, Told(c)' = "none"
      PROVE  [Promise!Next]_Promise!vars
  <2>1. AllTold' = [AllTold EXCEPT ![c] = "none"]
    BY <1>2, <1>3, OneTold
  <2>2. Promise!Ask(c)
    BY <1>3, <2>1 DEF Promise!Ask, AllTold, Told
  <2> QED
    BY <2>2 DEF Promise!Next
<1>4. CASE Request(c)
  <2>1. UNCHANGED <<state, assets, accepts>>
    BY <1>4 DEF Request, Refuse, Get, Post, Asks, history
  <2>2. Told(c)' = "none"
    BY <1>1, <1>2, <1>4 DEF Request, Refuse, Get, Post, Asks, Tells, Goto, Told
  <2> QED
    BY <1>3, <2>1, <2>2
<1>5. CASE ReadState(c)
  <2>1. UNCHANGED <<state, assets, accepts>> /\ Told(c)' = state.status
    BY <1>2, <1>5 DEF ReadState, Handling, GoesOn, Goto, Told
  <2>2. AllTold' = [AllTold EXCEPT ![c] = state.status]
    BY <1>2, <2>1, OneTold
  <2>3. Promise!Read(c)
    BY <2>1, <2>2 DEF Promise!Read, AllTold, Told
  <2> QED
    BY <2>3 DEF Promise!Next
<1>6. CASE Answer(c)
  <2>1. PICK page \in {Health(snapshot[c]), Result(snapshot[c])} : Tells(c, page)
    BY <1>6 DEF Answer
  <2>2. page.status = snapshot[c].status
    BY <1>2, <2>1, Pages
  <2>3. UNCHANGED <<state, assets, accepts>> /\ Told(c)' = Told(c)
    BY <1>2, <1>6, <2>1, <2>2 DEF Answer, Handling, Tells, Goto, Told
  <2>4. AllTold' = AllTold
    BY <1>2, <2>3, NoneTold
  <2> QED
    BY <2>3, <2>4 DEF Promise!vars, AllTold, Told
<1>7. CASE PostCheck(c) \/ PostBody(c) \/ PostEnter(c) \/ PostSpawnFails(c)
  <2>1. UNCHANGED <<state, assets, accepts>>
    BY <1>7 DEF PostCheck, PostBody, PostEnter, PostSpawnFails
  <2>2. Told(c)' = "none"
    BY <1>1, <1>2, <1>7
       DEF PostCheck, PostBody, PostEnter, PostSpawnFails, Handling, Tells, GoesOn, Goto, Told
  <2> QED
    BY <1>3, <2>1, <2>2
<1>8. CASE PostAnnounce(c)
  <2>1. state.status = "awaiting_assets" /\ state'.status = "pending"
        /\ UNCHANGED <<assets, accepts>>
    BY <1>8, Values DEF PostAnnounce, Handling, IInv, Right, Placed, Status
  <2>2. Told(c)' = Told(c)
    BY <1>2, <1>8 DEF PostAnnounce, Handling, GoesOn, Goto, Told
  <2>3. AllTold' = AllTold
    BY <1>2, <2>2, NoneTold
  <2>4. Promise!Close
    BY <2>1, <2>3 DEF Promise!Close, AllTold, Told
  <2> QED
    BY <2>4 DEF Promise!Next
<1>9. CASE PostSpawn(c)
  <2>1. /\ state.status = "pending" /\ UNCHANGED <<state, accepts>>
        /\ assets = NoBundle /\ assets' = upload[c] /\ upload[c] \in Bundles
    BY <1>9, Starting DEF PostSpawn, Handling, IInv, Right, Placed, Course, Winning
  <2>2. Told(c)' = Told(c)
    BY <1>2, <1>9 DEF PostSpawn, Handling, GoesOn, Goto, Told
  <2>3. AllTold' = AllTold
    BY <1>2, <2>2, NoneTold
  <2>4. Promise!Choose(upload[c])
    BY <2>1, <2>3 DEF Promise!Choose, AllTold, Told
  <2> QED
    BY <2>1, <2>4 DEF Promise!Next
<1>10. CASE PostAccept(c)
  <2>1. /\ UNCHANGED <<state, assets>> /\ assets # NoBundle
        /\ accepts = 0 /\ accepts' = 1 /\ worker # "none"
    BY <1>10, Starting, ConstantsAssumption
       DEF PostAccept, Handling, IInv, Right, Placed, Winning
  <2>2. state.status # "awaiting_assets"
    BY <2>1, Values DEF IInv, TypeOK, Course, Status
  <2>3. Told(c)' = "accepted"
    BY <1>2, <1>10 DEF PostAccept, Tells, Goto, Told
  <2>4. AllTold' = [AllTold EXCEPT ![c] = "accepted"]
    BY <1>2, <2>3, OneTold
  <2>5. Promise!Accept(c)
    BY <2>1, <2>2, <2>4 DEF Promise!Accept, AllTold, Told
  <2> QED
    BY <2>5 DEF Promise!Next
<1> QED
  BY <1>4, <1>5, <1>6, <1>7, <1>8, <1>9, <1>10 DEF Handle

\* Threads, flag and locks of pod_validation.py implement OneShotValidation: every
\* step is a step of it, or none.
THEOREM Implements == Spec => ImplementsOneShot
<1>1. Init => Promise!Init
  <2> SUFFICES ASSUME Init PROVE Promise!Init
    OBVIOUS
  <2>1. state.status \in {"awaiting_assets", "pending"} /\ assets = NoBundle
    BY Values DEF Init, Status
  <2>2. [c \in Clients |-> IF pc[c] = "answer" THEN snapshot[c].status
                                              ELSE reply[c].status] = [c \in Clients |-> "none"]
    BY Values DEF Init, NoReply
  <2>3. (accepts > 0) = FALSE
    BY DEF Init
  <2> QED
    BY <2>1, <2>2, <2>3 DEF Promise!Init
<1>2. ASSUME IInv, [Next]_vars PROVE [Promise!Next]_Promise!vars
  <2>1. CASE Next
    BY <1>2, <2>1, WorkerImplements, ClientImplements DEF Next
  <2>2. CASE UNCHANGED vars
    BY <2>2 DEF vars, workerVars, serverVars, clientVars, history, Promise!vars
  <2> QED
    BY <1>2, <2>1, <2>2
<1> QED
  BY <1>1, <1>2, Invariance, PTL DEF Spec, Promise!Spec, ImplementsOneShot
=============================================================================
