---------------------------- MODULE YoloService ----------------------------
(***************************************************************************)
(* The YOLO CPU service (mvp/vision/yolo_cpu_service.py): a thread per     *)
(* connection, one model behind one lock, and a backend that stores what   *)
(* was seen as a new revision of the evidence it was seen in.              *)
(*                                                                         *)
(* The model is loaded before the server listens (main), so that the check *)
(* under the lock finds it loaded and readyz never says otherwise.  Images *)
(* of a run that cannot be read make its result poorer, not a failure.     *)
(***************************************************************************)
EXTENDS Naturals, Sequences

CONSTANTS
    Callers,
    NoCaller,
    Candidates,     \* the events of the backend
    NoCandidate,
    Findings,       \* what a run may see in an event
    MaxCalls        \* bound: the calls of one caller, retries included

ASSUME CallersAssumption == /\ NoCaller \notin Callers /\ NoCandidate \notin Candidates
                            /\ MaxCalls \in Nat

Routes == {"event", "transient", "backend", "geographic", "bundles"}

VARIABLES
    server,         \* "warming", "serving" or "down"
    lock,           \* _lock
    calls,          \* each caller's call: where its thread is
    published       \* what the backend stored: revision n is the n-th entry

yoloVars == <<server, lock, calls, published>>

Revision(candidate) == Len(published[candidate])

NoCalls == /\ lock = NoCaller
           /\ calls = [c \in Callers |-> [pc |-> "out", made |-> 0, route |-> "none",
                                         candidate |-> NoCandidate, seen |-> 0, found |-> "none",
                                         answer |-> "none"]]
           /\ published = [candidate \in Candidates |-> <<>>]
YoloInit == server = "warming" /\ NoCalls
YoloAbsent == server = "down" /\ NoCalls

Goes(c, pc) == calls' = [calls EXCEPT ![c].pc = pc]
Answers(c, answer) == calls' = [calls EXCEPT ![c].pc = "answered", ![c].answer = answer]
-----------------------------------------------------------------------------
(* main: a model that does not load ends the process.                      *)
Warmup == /\ server = "warming"
          /\ server' \in {"serving", "down"}
          /\ UNCHANGED <<lock, calls, published>>

MayCall(c) == /\ server = "serving"
              /\ calls[c].pc \in {"out", "answered"}
              /\ calls[c].made < MaxCalls

Begins(c, pc, route, candidate, answer) ==
    calls' = [calls EXCEPT ![c] = [pc |-> pc, made |-> @.made + 1, route |-> route,
                                   candidate |-> candidate, seen |-> 0, found |-> "none", answer |-> answer]]

\* A probe, or a request that is refused for its path, its token or its length.
AnswerAtOnce(c) ==
    /\ MayCall(c)
    /\ \E answer \in {"probed", "refused"} : Begins(c, "answered", "none", NoCandidate, answer)
    /\ UNCHANGED <<server, lock, published>>

\* The body of the request is read, for as long as the client takes.
Call(c) ==
    /\ MayCall(c)
    /\ \E route \in Routes, candidate \in Candidates : Begins(c, "body", route, candidate, "none")
    /\ UNCHANGED <<server, lock, published>>

FirstStep == [event |-> "lock", transient |-> "decode", backend |-> "read",
              geographic |-> "locate", bundles |-> "locate"]

BodyArrives(c) == /\ calls[c].pc = "body"
                  /\ Answers(c, "invalid") \/ Goes(c, FirstStep[calls[c].route])
                  /\ UNCHANGED <<server, lock, published>>

\* The image of a transient request, or what the backend says, may raise.
Fails(c) == /\ calls[c].pc \in {"decode", "read", "locate"}
            /\ Answers(c, "failed")
            /\ UNCHANGED <<server, lock, published>>

Decode(c) == /\ calls[c].pc = "decode"
             /\ Goes(c, "lock")
             /\ UNCHANGED <<server, lock, published>>

\* The durable evidence is read before the lock is there.
ReadEvidence(c) ==
    /\ calls[c].pc = "read"
    /\ calls' = [calls EXCEPT ![c].pc = "lock", ![c].seen = Revision(calls[c].candidate)]
    /\ UNCHANGED <<server, lock, published>>

\* The geographic service and the bundles behind it need no lock.
Locate(c) == /\ calls[c].pc = "locate"
             /\ Answers(c, "done")
             /\ UNCHANGED <<server, lock, published>>

Acquire(c) == /\ calls[c].pc = "lock"
              /\ lock = NoCaller
              /\ lock' = c
              /\ Goes(c, "run")
              /\ UNCHANGED <<server, published>>

\* What a run saw goes to the backend, or is the answer.  Two runs on the same
\* evidence may differ: an image that one could not read, the other could.
Sees(c) == \/ /\ calls[c].route = "backend"
              /\ \E found \in Findings :
                   calls' = [calls EXCEPT ![c].pc = "publish", ![c].found = found]
           \/ calls[c].route # "backend" /\ Answers(c, "done")

\* Variant with a bug: a run that raises leaves the lock taken.
Run_keepsLock(c) == /\ calls[c].pc = "run"
                    /\ \/ Sees(c) /\ lock' = NoCaller
                       \/ Answers(c, "failed") /\ UNCHANGED lock
                    /\ UNCHANGED <<server, published>>

Run(c) == /\ calls[c].pc = "run"
          /\ lock' = NoCaller
          /\ Sees(c) \/ Answers(c, "failed")
          /\ UNCHANGED <<server, published>>

\* Variant with a bug: the revision is read again, so that it is never refused.
Sent_fresh(c) == [on |-> Revision(calls[c].candidate), seen |-> calls[c].seen,
                  found |-> calls[c].found]

\* A publication names the revision that was read.
Sent(c) == [on |-> calls[c].seen, seen |-> calls[c].seen, found |-> calls[c].found]

\* The backend has stored what is sent: the same observations on the same revision.
Known(c) == \E n \in DOMAIN published[calls[c].candidate] :
                LET entry == published[calls[c].candidate][n]
                IN  entry.on = Sent(c).on /\ entry.found = Sent(c).found

\* The backend answers what it knows as replayed, without another revision;
\* it stores observations on the revision they name, if that is still its
\* last one; it may refuse, and its receipt may be lost.
Publish(c) ==
    /\ calls[c].pc = "publish"
    /\ \/ Known(c) /\ Answers(c, "done") /\ UNCHANGED published
       \/ /\ ~Known(c)
          /\ Sent(c).on = Revision(calls[c].candidate)
          /\ published' = [published EXCEPT ![calls[c].candidate] = Append(@, Sent(c))]
          /\ Answers(c, "done") \/ Answers(c, "failed")
       \/ Answers(c, "failed") /\ UNCHANGED published
    /\ UNCHANGED <<server, lock>>

Serves(c) == Fails(c) \/ Decode(c) \/ ReadEvidence(c) \/ Locate(c) \/ Acquire(c) \/ Run(c) \/ Publish(c)

YoloNext == \/ Warmup
            \/ \E c \in Callers : AnswerAtOnce(c) \/ Call(c) \/ BodyArrives(c) \/ Serves(c)

\* A thread goes on, and a run and a backend come to an end: every download
\* and every request of the backend has a timeout.
YoloFairness == \A c \in Callers : WF_yoloVars(Serves(c))
-----------------------------------------------------------------------------
(* Properties.                                                             *)

\* Calls for one event overlap and are repeated, its evidence changes while a
\* call waits for the model, and two of them may send the same.  Yet what is
\* stored was always seen in the revision just before it; and a call is told
\* "done" only if what it found is the revision right after the one it read,
\* whether it stored that itself or another had stored the same.
EvidenceIsNeverOverwritten ==
    /\ \A candidate \in Candidates : \A n \in 1 .. Revision(candidate) :
         published[candidate][n].seen = n - 1
    /\ \A c \in Callers : calls[c].answer = "done" /\ calls[c].route = "backend" =>
         /\ calls[c].seen < Revision(calls[c].candidate)
         /\ published[calls[c].candidate][calls[c].seen + 1].found = calls[c].found

\* A call whose body has arrived is answered, whatever other clients do.
EveryDetectionIsAnswered ==
    \A c \in Callers :
        calls[c].pc \notin {"out", "body", "answered"} ~> calls[c].pc = "answered"
=============================================================================
