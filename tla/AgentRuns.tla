------------------------------ MODULE AgentRuns ------------------------------
(***************************************************************************)
(* Supervised agent runs: create_agent_run in app/api/v1/reports.py, which *)
(* stores a run and then puts a task on the queue, and execute_agent_run   *)
(* in app/services/agent_runs.py, which Celery workers run.                *)
(*                                                                         *)
(* Tasks are acknowledged late: the broker delivers a task again when its  *)
(* worker's connection is lost, and also when the worker takes longer than *)
(* the visibility timeout.  Every run is created by one request.           *)
(***************************************************************************)
EXTENDS Naturals, FiniteSets

CONSTANTS
    Runs,         \* agent runs
    Workers,      \* worker processes
    MaxLosses,    \* bound: lost workers and second deliveries, by run
    NoRun

ASSUME NamesAssumption == NoRun \notin Runs
ASSUME BoundAssumption == MaxLosses \in Nat

VARIABLES
    status,    \* agent_runs.status
    refs,      \* the investigation and evidence of a run are available
    api,       \* the request that creates a run
    queue,     \* tasks waiting at the broker, by run
    unacked,   \* tasks held by a worker that the broker may deliver again
    pc, job,   \* a worker: next step, run
    losses,    \* bounded: lost workers and second deliveries, by run
    calls,     \* history: answers asked of the model, by run
    fresh,     \* history: the references were seen or made available after the answer
    cut        \* history: a worker was lost with the run, or could not store its failure

brokerVars == <<queue, unacked, losses>>
workerVars == <<pc, job>>
history    == <<calls, fresh, cut>>
vars       == <<status, refs, api, brokerVars, workerVars, history>>

Over == {"pending_human_review", "failed"}

TypeOK ==
    /\ status \in [Runs -> {"none", "queued", "running"} \cup Over]
    /\ refs \in [Runs -> BOOLEAN]
    /\ api \in [Runs -> {"new", "validated", "stored", "unpublished",
                         "queued", "failed", "refused", "crashed"}]
    /\ queue \in [Runs -> Nat]
    /\ unacked \in [Workers -> BOOLEAN]
    /\ pc \in [Workers -> {"idle", "claim", "prepare", "generate", "revalidate",
                           "write", "fail", "ack"}]
    /\ job \in [Workers -> Runs \cup {NoRun}]
    /\ losses \in [Runs -> 0..MaxLosses]
    /\ calls \in [Runs -> Nat]
    /\ fresh \in [Runs -> BOOLEAN]
    /\ cut \in [Runs -> BOOLEAN]

Init ==
    /\ status = [r \in Runs |-> "none"]
    /\ refs = [r \in Runs |-> TRUE]
    /\ api = [r \in Runs |-> "new"]
    /\ queue = [r \in Runs |-> 0]
    /\ unacked = [w \in Workers |-> FALSE]
    /\ pc = [w \in Workers |-> "idle"]
    /\ job = [w \in Workers |-> NoRun]
    /\ losses = [r \in Runs |-> 0]
    /\ calls = [r \in Runs |-> 0]
    /\ fresh = [r \in Runs |-> FALSE]
    /\ cut = [r \in Runs |-> FALSE]

Answered(r, a) == api' = [api EXCEPT ![r] = a]

-----------------------------------------------------------------------------
(* create_agent_run *)

Validate(r) ==
    /\ api[r] = "new"
    /\ Answered(r, IF refs[r] THEN "validated" ELSE "refused")
    /\ UNCHANGED <<status, refs, brokerVars, workerVars, history>>

(* "Workers must be able to read the run before it is published." *)
Store(r) ==
    /\ api[r] = "validated"
    /\ status' = [status EXCEPT ![r] = "queued"]
    /\ Answered(r, "stored")
    /\ UNCHANGED <<refs, brokerVars, workerVars, history>>

(* The broker may have the task although the call failed. *)
Publish(r) ==
    /\ api[r] = "stored"
    /\ \E taken, confirmed \in BOOLEAN :
         /\ confirmed => taken
         /\ Answered(r, IF confirmed THEN "queued" ELSE "unpublished")
         /\ queue' = [queue EXCEPT ![r] = IF taken THEN @ + 1 ELSE @]
    /\ UNCHANGED <<status, refs, unacked, losses, workerVars, history>>

(* Mutant: the failure of the queue is written over whatever is there. *)
QueuedStillUnchecked(r) == TRUE

QueuedStill(r) == status[r] = "queued"

(* The answer is 503 with status "failed", whatever row the UPDATE found. *)
FailPublish(r) ==
    /\ api[r] = "unpublished"
    /\ status' = IF QueuedStill(r) THEN [status EXCEPT ![r] = "failed"] ELSE status
    /\ Answered(r, "failed")
    /\ UNCHANGED <<refs, brokerVars, workerVars, history>>

CrashApi(r) ==
    /\ api[r] \in {"validated", "stored", "unpublished"}
    /\ Answered(r, "crashed")
    /\ UNCHANGED <<status, refs, brokerVars, workerVars, history>>

-----------------------------------------------------------------------------
(* execute_agent_run *)

Step(w, step) == pc' = [pc EXCEPT ![w] = step]

Deliver(w, r) ==
    /\ pc[w] = "idle"
    /\ queue[r] > 0
    /\ queue' = [queue EXCEPT ![r] = @ - 1]
    /\ unacked' = [unacked EXCEPT ![w] = TRUE]
    /\ job' = [job EXCEPT ![w] = r]
    /\ Step(w, "claim")
    /\ UNCHANGED <<status, refs, api, losses, history>>

Claimable(r) == status[r] = "queued"

Claim(w) ==
    LET r == job[w] IN
    /\ pc[w] = "claim"
    /\ IF Claimable(r)
         THEN status' = [status EXCEPT ![r] = "running"] /\ Step(w, "prepare")
         ELSE UNCHANGED status /\ Step(w, "ack")
    /\ UNCHANGED <<refs, api, brokerVars, job, history>>

(* The references are checked and the provider is configured, or not. *)
Prepare(w) ==
    /\ pc[w] = "prepare"
    /\ \/ refs[job[w]] /\ Step(w, "generate")
       \/ Step(w, "fail")
    /\ UNCHANGED <<status, refs, api, brokerVars, job, history>>

(* Mutant: the references are not read again after the model's answer. *)
AfterAnswerUnchecked == "write"

AfterAnswer == "revalidate"

Generate(w) ==
    LET r == job[w] IN
    /\ pc[w] = "generate"
    /\ calls' = [calls EXCEPT ![r] = @ + 1]
    /\ fresh' = [fresh EXCEPT ![r] = refs[r]]
    /\ \E step \in {AfterAnswer, "fail"} : Step(w, step)
    /\ UNCHANGED <<status, refs, api, brokerVars, job, cut>>

Revalidate(w) ==
    /\ pc[w] = "revalidate"
    /\ \/ refs[job[w]] /\ Step(w, "write")
       \/ Step(w, "fail")
    /\ UNCHANGED <<status, refs, api, brokerVars, job, history>>

(* Mutant: a draft is done at once, like the result of a connector. *)
DraftStatusCompleted == "completed"

DraftStatus == "pending_human_review"

(* The row is written by its key alone.  When the commit fails, or only    *)
(* its confirmation is lost, the failure path follows.                     *)
Write(w) ==
    LET r == job[w] IN
    /\ pc[w] = "write"
    /\ \E kept, confirmed \in BOOLEAN :
         /\ confirmed => kept
         /\ status' = IF kept THEN [status EXCEPT ![r] = DraftStatus]
                      ELSE status
         /\ Step(w, IF confirmed THEN "ack" ELSE "fail")
    /\ UNCHANGED <<refs, api, brokerVars, job, history>>

(* Mutant: the failure is written over whatever is there. *)
RunningStillUnchecked(r) == TRUE

(* Mutant: the failure is written as the request writes its own. *)
RunningStillQueued(r) == status[r] = "queued"

RunningStill(r) == status[r] = "running"

(* A failure that cannot be stored raises, and the task is acknowledged.   *)
Fail(w) ==
    LET r == job[w] IN
    /\ pc[w] = "fail"
    /\ \/ /\ status' = IF RunningStill(r) THEN [status EXCEPT ![r] = "failed"] ELSE status
          /\ UNCHANGED cut
       \/ UNCHANGED status /\ cut' = [cut EXCEPT ![r] = TRUE]
    /\ Step(w, "ack")
    /\ UNCHANGED <<refs, api, brokerVars, job, calls, fresh>>

Release(w) ==
    /\ Step(w, "idle")
    /\ job' = [job EXCEPT ![w] = NoRun]
    /\ unacked' = [unacked EXCEPT ![w] = FALSE]

Ack(w) ==
    /\ pc[w] = "ack"
    /\ Release(w)
    /\ UNCHANGED <<status, refs, api, queue, losses, history>>

(* The task of a lost worker goes back to the queue, unless it had been    *)
(* delivered again before, or only the process that executed it died: then *)
(* its worker acknowledges the task.                                       *)
CrashWorker(w) ==
    /\ pc[w] # "idle" /\ losses[job[w]] < MaxLosses
    /\ \E back \in BOOLEAN :
         /\ back => unacked[w]
         /\ queue' = [queue EXCEPT ![job[w]] = IF back THEN @ + 1 ELSE @]
         /\ cut' = [cut EXCEPT ![job[w]] =
                       @ \/ pc[w] \notin {"claim", "ack"} \/ (pc[w] = "claim" /\ unacked[w] /\ ~back)]
    /\ losses' = [losses EXCEPT ![job[w]] = @ + 1]
    /\ Release(w)
    /\ UNCHANGED <<status, refs, api, calls, fresh>>

(* The visibility timeout passes while the worker is still at work. *)
DeliverAgain(w) ==
    /\ pc[w] # "idle" /\ unacked[w] /\ losses[job[w]] < MaxLosses
    /\ queue' = [queue EXCEPT ![job[w]] = @ + 1]
    /\ losses' = [losses EXCEPT ![job[w]] = @ + 1]
    /\ unacked' = [unacked EXCEPT ![w] = FALSE]
    /\ UNCHANGED <<status, refs, api, workerVars, history>>

-----------------------------------------------------------------------------
(* An investigation is archived, deleted or active again. *)
ChangeRefs(r) ==
    /\ refs' = [refs EXCEPT ![r] = ~@]
    /\ fresh' = [fresh EXCEPT ![r] = @ \/ ~refs[r]]
    /\ UNCHANGED <<status, api, brokerVars, workerVars, calls, cut>>

Api(r)  == Validate(r) \/ Store(r) \/ Publish(r) \/ FailPublish(r)
Work(w) == Claim(w) \/ Prepare(w) \/ Generate(w) \/ Revalidate(w) \/ Write(w)
             \/ Fail(w) \/ Ack(w)

Next ==
    \/ \E r \in Runs : Api(r) \/ CrashApi(r) \/ ChangeRefs(r)
    \/ \E w \in Workers : \/ \E r \in Runs : Deliver(w, r)
                          \/ Work(w) \/ CrashWorker(w) \/ DeliverAgain(w)

Spec == Init /\ [][Next]_vars

(* Workers go on with what they began, idle ones take what is queued, and  *)
(* a request that was not cut off goes on.                                 *)
Fairness ==
    /\ \A r \in Runs : WF_vars(Api(r))
    /\ \A w \in Workers : WF_vars(Work(w))
    /\ \A r \in Runs : SF_vars(\E w \in Workers : Deliver(w, r))

FairSpec == Spec /\ Fairness
-----------------------------------------------------------------------------
(* Properties. *)

Executing(w, r) == job[w] = r /\ pc[w] \in {"prepare", "generate", "revalidate", "write", "fail"}

(* However often a task is delivered, the model is asked at most once.     *)
AskedOnce == \A r \in Runs : calls[r] <= 1

(* A run is executed by one worker, and while it is, nobody else decides   *)
(* its outcome: it reads running until the worker stores one.              *)
OneExecutor ==
    \A v, w \in Workers : \A r \in Runs :
        Executing(v, r) => /\ Executing(w, r) => v = w
                           /\ status[r] = "running" \/ pc[v] = "fail"

(* A run is executed once: by one worker, which asks the model once.       *)
ExecutedOnce == AskedOnce /\ OneExecutor

(* A draft goes to review only for references that were available after    *)
(* the model had answered: "references may have been archived or moved     *)
(* while the model was running" (agent_runs.py:87).                        *)
DraftIsFresh ==
    [][\A r \in Runs :
         status[r] # "pending_human_review" /\ status'[r] = "pending_human_review" =>
             fresh[r]]_vars

(* An outcome is never changed, whatever message or request comes late.    *)
OverIsOver ==
    [][\A r \in Runs : status[r] \in Over => status'[r] = status[r]]_vars

(* A run that was put on the queue gets an outcome, unless its worker was  *)
(* lost after the claim, or with the task already acknowledged, or could   *)
(* not store the failure (the tasks of celery_app.py are never rejected).  *)
QueuedRunEnds ==
    \A r \in Runs : api[r] = "queued" ~> status[r] \in Over \/ cut[r]

(* Who was told that a run could not be queued finds it failed.            *)
ToldFailedIsFailed == \A r \in Runs : api[r] = "failed" => status[r] = "failed"
-----------------------------------------------------------------------------
(* The inductive invariant behind the properties. *)

Placed == \A w \in Workers : pc[w] = "idle" <=> job[w] = NoRun

RunInv == \A r \in Runs :
    /\ api[r] \in {"new", "validated"} => status[r] = "none"
    /\ status[r] \in {"none", "queued"} => calls[r] = 0
    /\ calls[r] <= 1

(* A run has one executor.  Until the model is asked nobody has asked it,  *)
(* and an outcome is there only while its executor is on the failure path. *)
ExecInv == \A w \in Workers : \A r \in Runs : Executing(w, r) =>
    /\ status[r] = "running" \/ (pc[w] = "fail" /\ status[r] \in Over)
    /\ pc[w] \in {"prepare", "generate"} => calls[r] = 0
    /\ \A v \in Workers : Executing(v, r) => v = w

(* After the answer, references that are available were so since then. *)
FreshInv == \A w \in Workers :
    /\ pc[w] = "revalidate" /\ refs[job[w]] => fresh[job[w]]
    /\ pc[w] = "write" => fresh[job[w]]

Inv == TypeOK /\ Placed /\ RunInv /\ ExecInv /\ FreshInv
=============================================================================
