---------------------------- MODULE ConnectorRuns ----------------------------
(***************************************************************************)
(* Connector jobs and the transactional outbox: create_connector_run in    *)
(* app/api/v1/investigations.py stores a run, its job and an outbox event  *)
(* in one commit; dispatch_pending_outbox in app/services/outbox.py, which *)
(* beat starts every ten seconds whether or not the last one is over,      *)
(* sends the events that are not published to the broker; workers execute  *)
(* execute_connector_run in app/services/connector_runs.py.                *)
(*                                                                         *)
(* A broker call or a commit may fail, and a commit or a call may succeed  *)
(* and only its confirmation be lost; processes die; tasks are delivered   *)
(* twice.  MaxFaults bounds how often all of this happens.                 *)
(***************************************************************************)
EXTENDS Naturals, Sequences, FiniteSets

CONSTANTS
    Runs,           \* connector runs
    Dispatchers,    \* executions of the dispatch task that may overlap
    Workers,        \* processes that execute runs
    Limit,          \* events read by one dispatch
    MaxRetries,     \* retry_kwargs of process_connector_run
    RowSecurity,    \* the database shows connector_runs only to a tenant's session
    WaitAllowed,    \* development and test: ?wait executes the run in the request
    MaxFaults,      \* bound: faults in a behaviour
    NoRun

ASSUME NamesAssumption  == NoRun \notin Runs
ASSUME LimitAssumption  == Limit \in Nat \ {0}
ASSUME BoundsAssumption == MaxRetries \in Nat /\ MaxFaults \in Nat
ASSUME FlagsAssumption  == RowSecurity \in BOOLEAN /\ WaitAllowed \in BOOLEAN

VARIABLES
    status,       \* connector_runs.status
    job,          \* job_executions.status
    result,       \* connector_runs.raw_snapshot is there
    outbox,       \* events in the order of created_at, as the runs they name
    published,    \* runs whose event has published_at
    dpc, batch,   \* a dispatcher: next step, events read
    sent,         \* a dispatcher: those it sent
    queue,        \* messages at the broker, by run and retries made
    unacked,      \* messages held by a worker that may be delivered again
    pc, task,     \* a worker: next step, message
    seenRun,      \* a worker: status of the run in its session
    seenJob,      \* a worker: status of the job in its session
    faults,       \* bounded: faults so far
    taken,        \* history: runs with a message the broker took
    cut           \* history: runs whose execution was cut off for good

outboxVars == <<outbox, published>>
dispatch   == <<dpc, batch, sent>>
rows       == <<status, job, result>>
broker     == <<queue, unacked>>
worker     == <<pc, task, seenRun, seenJob>>
vars       == <<rows, outboxVars, dispatch, broker, worker, faults, taken, cut>>

Statuses == {"none", "queued", "running", "completed", "failed"}
Over     == {"completed", "failed"}
Tasks    == Runs \X (0..MaxRetries)
Inline   == MaxRetries + 1      \* in the place of the retries: not a task
NoTask   == <<NoRun, 0>>

TypeOK ==
    /\ status \in [Runs -> Statuses]
    /\ job \in [Runs -> Statuses]
    /\ result \in [Runs -> BOOLEAN]
    /\ outbox \in Seq(Runs)
    /\ published \subseteq Runs
    /\ dpc \in [Dispatchers -> {"idle", "send"}]
    /\ batch \in [Dispatchers -> SUBSET Runs]
    /\ sent \in [Dispatchers -> SUBSET Runs]
    /\ queue \in [Tasks -> Nat]
    /\ unacked \in [Workers -> BOOLEAN]
    /\ pc \in [Workers -> {"idle", "load", "loadjob", "mark", "connect",
                           "complete", "fail", "retry", "ack"}]
    /\ task \in [Workers -> (Runs \X (0..Inline)) \cup {NoTask}]
    /\ seenRun \in [Workers -> Statuses]
    /\ seenJob \in [Workers -> Statuses]
    /\ faults \in 0..MaxFaults
    /\ taken \subseteq Runs
    /\ cut \subseteq Runs

Init ==
    /\ status = [r \in Runs |-> "none"]
    /\ job = [r \in Runs |-> "none"]
    /\ result = [r \in Runs |-> FALSE]
    /\ outbox = <<>>
    /\ published = {}
    /\ dpc = [d \in Dispatchers |-> "idle"]
    /\ batch = [d \in Dispatchers |-> {}]
    /\ sent = [d \in Dispatchers |-> {}]
    /\ queue = [t \in Tasks |-> 0]
    /\ unacked = [w \in Workers |-> FALSE]
    /\ pc = [w \in Workers |-> "idle"]
    /\ task = [w \in Workers |-> NoTask]
    /\ seenRun = [w \in Workers |-> "none"]
    /\ seenJob = [w \in Workers |-> "none"]
    /\ faults = 0
    /\ taken = {}
    /\ cut = {}

(* A fault of the broker, of the database or of a process. *)
Fault == faults < MaxFaults /\ faults' = faults + 1

-----------------------------------------------------------------------------
(* create_connector_run *)

(* Run, job and event are stored together, or nothing is. *)
Stored(r) ==
    /\ status[r] = "none"
    /\ status' = [status EXCEPT ![r] = "queued"]
    /\ job' = [job EXCEPT ![r] = "queued"]
    /\ outbox' = Append(outbox, r)
    /\ UNCHANGED <<result, published, dispatch, broker, faults, taken, cut>>

Create(r) == Stored(r) /\ UNCHANGED worker

(* With ?wait the request executes the run as well.  Its event stays in    *)
(* the outbox, and nothing retries or delivers this execution again.       *)
CreateAndWait(w, r) ==
    /\ WaitAllowed
    /\ pc[w] = "idle"
    /\ Stored(r)
    /\ pc' = [pc EXCEPT ![w] = "load"]
    /\ task' = [task EXCEPT ![w] = <<r, Inline>>]
    /\ UNCHANGED <<seenRun, seenJob>>

-----------------------------------------------------------------------------
(* dispatch_pending_outbox *)

Pending == {outbox[i] : i \in DOMAIN outbox} \ published

Before(q, r) == \E i, j \in DOMAIN outbox : i < j /\ outbox[i] = q /\ outbox[j] = r

Batch == {r \in Pending : Cardinality({q \in Pending : Before(q, r)}) < Limit}

ReadOutbox(d) ==
    /\ dpc[d] = "idle" /\ Pending # {}
    /\ batch' = [batch EXCEPT ![d] = Batch]
    /\ sent' = [sent EXCEPT ![d] = {}]
    /\ dpc' = [dpc EXCEPT ![d] = "send"]
    /\ UNCHANGED <<rows, outboxVars, broker, worker, faults, taken, cut>>

EndDispatch(d) ==
    /\ dpc' = [dpc EXCEPT ![d] = "idle"]
    /\ batch' = [batch EXCEPT ![d] = {}]
    /\ sent' = [sent EXCEPT ![d] = {}]

Enqueue(t) ==
    /\ queue' = [queue EXCEPT ![t] = @ + 1]
    /\ taken' = taken \cup {t[1]}

(* The events of a dispatch are sent one after the other. *)
Upcoming(d) ==
    LET rest == batch[d] \ sent[d] IN {r \in rest : \A q \in rest : ~Before(q, r)}

Send(d) ==
    /\ dpc[d] = "send"
    /\ \E r \in Upcoming(d) :
         /\ Enqueue(<<r, 0>>)
         /\ sent' = [sent EXCEPT ![d] = @ \cup {r}]
    /\ UNCHANGED <<rows, outboxVars, dpc, batch, unacked, worker, faults, cut>>

(* Mutant: a call to the broker that fails does not end the dispatch. *)
SendFailsSkipping(d) ==
    /\ dpc[d] = "send" /\ Fault
    /\ \E r \in Upcoming(d) :
         /\ Enqueue(<<r, 0>>) \/ UNCHANGED <<queue, taken>>
         /\ sent' = [sent EXCEPT ![d] = @ \cup {r}]
    /\ UNCHANGED <<rows, outboxVars, dpc, batch, unacked, worker, cut>>

(* apply_async raises, and what the dispatch had marked is not committed.  *)
SendFails(d) ==
    /\ dpc[d] = "send" /\ Fault
    /\ \E r \in Upcoming(d) : Enqueue(<<r, 0>>) \/ UNCHANGED <<queue, taken>>
    /\ EndDispatch(d)
    /\ UNCHANGED <<rows, outboxVars, unacked, worker, cut>>

CommitDispatch(d) ==
    /\ dpc[d] = "send" /\ sent[d] = batch[d]
    /\ published' = published \cup sent[d]
    /\ EndDispatch(d)
    /\ UNCHANGED <<rows, outbox, broker, worker, faults, taken, cut>>

(* The dispatch dies or its commit fails, maybe after it was made. *)
AbortDispatch(d) ==
    /\ dpc[d] = "send" /\ Fault
    /\ \/ UNCHANGED published
       \/ sent[d] = batch[d] /\ published' = published \cup sent[d]
    /\ EndDispatch(d)
    /\ UNCHANGED <<rows, outbox, broker, worker, taken, cut>>

-----------------------------------------------------------------------------
(* execute_connector_run, as the task process_connector_run *)

Run(w) == task[w][1]

Step(w, step) == pc' = [pc EXCEPT ![w] = step]

Deliver(w, t) ==
    /\ pc[w] = "idle" /\ queue[t] > 0
    /\ queue' = [queue EXCEPT ![t] = @ - 1]
    /\ unacked' = [unacked EXCEPT ![w] = TRUE]
    /\ task' = [task EXCEPT ![w] = t]
    /\ Step(w, "load")
    /\ UNCHANGED <<rows, outboxVars, dispatch, seenRun, seenJob, faults, taken, cut>>

(* The session has no tenant.  Where the database asks for one, the run is *)
(* missing, or the empty tenant of an earlier transaction is an error.     *)
Load(w) ==
    /\ pc[w] = "load"
    /\ IF RowSecurity
         THEN (\E step \in {"ack", "retry"} : Step(w, step)) /\ UNCHANGED seenRun
         ELSE Step(w, "loadjob") /\ seenRun' = [seenRun EXCEPT ![w] = status[Run(w)]]
    /\ UNCHANGED <<rows, outboxVars, dispatch, broker, task, seenJob, faults, taken, cut>>

LoadJob(w) ==
    /\ pc[w] = "loadjob"
    /\ seenJob' = [seenJob EXCEPT ![w] = job[Run(w)]]
    /\ Step(w, "mark")
    /\ UNCHANGED <<rows, outboxVars, dispatch, broker, task, seenRun, faults, taken, cut>>

(* The session writes the columns that differ from what it read, so a run  *)
(* that was read as running is not written, whatever it is by now.         *)
Marks(w) ==
    LET r == Run(w) IN
    /\ status' = IF seenRun[w] = "running" THEN status ELSE [status EXCEPT ![r] = "running"]
    /\ job' = IF seenJob[w] = "running" THEN job ELSE [job EXCEPT ![r] = "running"]
    /\ UNCHANGED result

Forget(w) ==
    /\ seenRun' = [seenRun EXCEPT ![w] = "none"]
    /\ seenJob' = [seenJob EXCEPT ![w] = "none"]

Mark(w) ==
    /\ pc[w] = "mark"
    /\ Marks(w) /\ Forget(w) /\ Step(w, "connect")
    /\ UNCHANGED <<outboxVars, dispatch, broker, task, faults, taken, cut>>

MarkFails(w) ==
    /\ pc[w] = "mark" /\ Fault
    /\ Marks(w) \/ UNCHANGED rows
    /\ Forget(w) /\ Step(w, "retry")
    /\ UNCHANGED <<outboxVars, dispatch, broker, task, taken, cut>>

Connect(w) ==
    /\ pc[w] = "connect"
    /\ \E step \in {"complete", "fail"} : Step(w, step)
    /\ UNCHANGED <<rows, outboxVars, dispatch, broker, task, seenRun, seenJob, faults, taken, cut>>

(* Mutant: an outcome waits for a review, like that of an agent. *)
EndsForReview(r, outcome) ==
    /\ status' = [status EXCEPT ![r] = "pending_human_review"]
    /\ job' = [job EXCEPT ![r] = outcome]
    /\ result' = [result EXCEPT ![r] = @ \/ outcome = "completed"]

(* Mutant: the job is left as it is. *)
EndsRunOnly(r, outcome) ==
    /\ status' = [status EXCEPT ![r] = outcome]
    /\ result' = [result EXCEPT ![r] = @ \/ outcome = "completed"]
    /\ UNCHANGED job

(* A failed run keeps the result of another execution of it. *)
Ends(r, outcome) ==
    /\ status' = [status EXCEPT ![r] = outcome]
    /\ job' = [job EXCEPT ![r] = outcome]
    /\ result' = [result EXCEPT ![r] = @ \/ outcome = "completed"]

Complete(w) ==
    /\ pc[w] = "complete"
    /\ Ends(Run(w), "completed") /\ Step(w, "ack")
    /\ UNCHANGED <<outboxVars, dispatch, broker, task, seenRun, seenJob, faults, taken, cut>>

(* A commit that fails inside the try block is a failure of the run, when  *)
(* the session can still be used.                                          *)
CompleteFails(w) ==
    /\ pc[w] = "complete" /\ Fault
    /\ Ends(Run(w), "completed") \/ UNCHANGED rows
    /\ \E step \in {"fail", "retry"} : Step(w, step)
    /\ UNCHANGED <<outboxVars, dispatch, broker, task, seenRun, seenJob, taken, cut>>

Fail(w) ==
    /\ pc[w] = "fail"
    /\ Ends(Run(w), "failed") /\ Step(w, "ack")
    /\ UNCHANGED <<outboxVars, dispatch, broker, task, seenRun, seenJob, faults, taken, cut>>

FailFails(w) ==
    /\ pc[w] = "fail" /\ Fault
    /\ Ends(Run(w), "failed") \/ UNCHANGED rows
    /\ Step(w, "retry")
    /\ UNCHANGED <<outboxVars, dispatch, broker, task, seenRun, seenJob, taken, cut>>

Release(w) ==
    /\ Step(w, "idle")
    /\ task' = [task EXCEPT ![w] = NoTask]
    /\ unacked' = [unacked EXCEPT ![w] = FALSE]

Ack(w) ==
    /\ pc[w] = "ack"
    /\ Release(w)
    /\ UNCHANGED <<rows, outboxVars, dispatch, queue, seenRun, seenJob, faults, taken, cut>>

(* Mutant: a task that raises is not sent again. *)
RetriesLeftNone(w) == FALSE

RetriesLeft(w) == task[w][2] < MaxRetries

(* The task is sent again and acknowledged; the last failure is the end.   *)
Retry(w) ==
    LET r == Run(w) IN
    /\ pc[w] = "retry"
    /\ IF RetriesLeft(w) THEN Enqueue(<<r, task[w][2] + 1>>) /\ UNCHANGED cut
       ELSE cut' = (IF task[w][2] >= MaxRetries THEN cut \cup {r} ELSE cut)
            /\ UNCHANGED <<queue, taken>>
    /\ Release(w)
    /\ UNCHANGED <<rows, outboxVars, dispatch, seenRun, seenJob, faults>>

RetryFails(w) ==
    /\ pc[w] = "retry" /\ RetriesLeft(w) /\ Fault
    /\ cut' = cut \cup {Run(w)}
    /\ Release(w)
    /\ UNCHANGED <<rows, outboxVars, dispatch, queue, seenRun, seenJob, taken>>

(* The worker is lost.  Its task goes back to the queue, unless it had     *)
(* been delivered again, or only the executing process died.               *)
Crash(w) ==
    /\ pc[w] # "idle" /\ Fault
    /\ \E back \in BOOLEAN :
         /\ back => unacked[w]
         /\ queue' = IF back THEN [queue EXCEPT ![task[w]] = @ + 1] ELSE queue
         /\ cut' = IF pc[w] # "ack" /\ ~back /\ (unacked[w] \/ pc[w] \notin {"load", "loadjob", "mark"})
                     THEN cut \cup {Run(w)} ELSE cut
    /\ Forget(w) /\ Release(w)
    /\ UNCHANGED <<rows, outboxVars, dispatch, taken>>

(* The visibility timeout passes while the worker is still at work. *)
DeliverAgain(w) ==
    /\ unacked[w] /\ Fault
    /\ queue' = [queue EXCEPT ![task[w]] = @ + 1]
    /\ unacked' = [unacked EXCEPT ![w] = FALSE]
    /\ UNCHANGED <<rows, outboxVars, dispatch, worker, taken, cut>>

-----------------------------------------------------------------------------
Dispatch(d) == ReadOutbox(d) \/ Send(d) \/ CommitDispatch(d)
Work(w)     == Load(w) \/ LoadJob(w) \/ Mark(w) \/ Connect(w) \/ Complete(w)
                 \/ Fail(w) \/ Retry(w) \/ Ack(w)
Faults(w)   == MarkFails(w) \/ CompleteFails(w) \/ FailFails(w) \/ RetryFails(w)
                 \/ Crash(w) \/ DeliverAgain(w)

Next ==
    \/ \E r \in Runs : Create(r) \/ \E w \in Workers : CreateAndWait(w, r)
    \/ \E d \in Dispatchers : Dispatch(d) \/ SendFails(d) \/ AbortDispatch(d)
    \/ \E w \in Workers : Work(w) \/ Faults(w) \/ \E t \in Tasks : Deliver(w, t)

Spec == Init /\ [][Next]_vars

(* Beat starts dispatches for ever, workers go on with what they began and *)
(* take what is queued.                                                    *)
Fairness ==
    /\ \A d \in Dispatchers : WF_vars(Dispatch(d))
    /\ \A w \in Workers : WF_vars(Work(w))
    /\ \A t \in Tasks : WF_vars(\E w \in Workers : Deliver(w, t))

FairSpec == Spec /\ Fairness
-----------------------------------------------------------------------------
(* Properties. *)

AtRest(r) ==
    /\ \A t \in Tasks : t[1] = r => queue[t] = 0
    /\ \A w \in Workers : Run(w) # r

(* The promise of the outbox: an event is only marked as published after   *)
(* the broker took its task, whatever fails in between.                    *)
PublishedWasTaken == published \subseteq taken

(* When the event of a run is published and no task of it is left, the run *)
(* has an outcome and its job has the same, however many executions of it  *)
(* overlapped; unless one was cut off for good.                            *)
SettledAtRest ==
    \A r \in published \ cut :
        AtRest(r) => status[r] \in Over /\ job[r] = status[r]

(* A run that reads completed has the result that connector-jobs.js asks   *)
(* of it (front-end/assets/js/connector-jobs.js:133).                      *)
CompletedHasResult == \A r \in Runs : status[r] = "completed" => result[r]

(* Both ends of the outbox: what it marks was taken, and what the follower *)
(* is told is completed has its result.                                    *)
OutboxSafety == PublishedWasTaken /\ CompletedHasResult

(* Every run that was created gets an outcome and keeps to one, unless an  *)
(* execution of it was cut off for good.                                   *)
RunSettles ==
    \A r \in Runs :
        status[r] = "queued" ~> (r \in cut \/ [](status[r] \in Over /\ job[r] = status[r]))
-----------------------------------------------------------------------------
(* The inductive invariant behind the safety properties. *)

Places == \A w \in Workers :
    /\ pc[w] = "idle" <=> task[w] = NoTask
    /\ unacked[w] => task[w] \in Tasks

(* What a dispatch is going to mark, the broker took. *)
SentWasTaken == \A d \in Dispatchers : sent[d] \subseteq taken

(* A message is waiting, or a worker has one that would come back, or a    *)
(* worker has begun to write.                                              *)
Waiting(r) == \E t \in Tasks : t[1] = r /\ queue[t] > 0
HasInHand(w) ==
    /\ pc[w] \notin {"idle", "ack"}
    /\ unacked[w] \/ pc[w] \notin {"load", "loadjob", "mark"}
InHand(r) == \E w \in Workers : Run(w) = r /\ HasInHand(w)

Settled(r) == status[r] \in Over /\ job[r] = status[r]

(* A run whose task the broker once took is pursued until it is settled.   *)
Pursued ==
    ~RowSecurity => \A r \in taken \ cut : Waiting(r) \/ InHand(r) \/ Settled(r)

Inv == TypeOK /\ Places /\ SentWasTaken /\ PublishedWasTaken /\ CompletedHasResult /\ Pursued
=============================================================================
