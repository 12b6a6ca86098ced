--------------------------- MODULE AgentRunsProofs ---------------------------
(* The invariants of supervised agent runs for any set of runs and workers   *)
(* and any number of lost workers and repeated deliveries.                   *)
EXTENDS AgentRuns, TLAPS

LEMMA InitInv == Init => Inv
  <1> SUFFICES ASSUME Init PROVE Inv
    OBVIOUS
  <1> USE NamesAssumption, BoundAssumption
  <1>1. TypeOK
    BY DEF Init, TypeOK, Over
  <1>2. Placed /\ RunInv /\ ExecInv /\ FreshInv
    BY DEF Init, Placed, RunInv, ExecInv, FreshInv, Executing
  <1>3. QED
    BY <1>1, <1>2 DEF Inv

(* A worker that has a step to do has a run. *)
LEMMA HasRun ==
  ASSUME Inv, NEW w \in Workers, pc[w] # "idle"
  PROVE  job[w] \in Runs
  BY DEF Inv, TypeOK, Placed

(* A run is stored once, before anybody works on it. *)
LEMMA StoreStep ==
  ASSUME Inv, NEW r \in Runs, Store(r)
  PROVE  Inv'
  <1> USE NamesAssumption, BoundAssumption
  <1> USE DEF brokerVars, workerVars, history, Store, Answered
  <1>1. TypeOK'
    BY DEF Inv, TypeOK, Over
  <1>2. Placed'
    BY DEF Inv, TypeOK, Placed
  <1>3. RunInv'
    BY DEF Inv, TypeOK, Placed, RunInv, ExecInv, Executing, Over
  <1>4. ExecInv'
    BY DEF Inv, TypeOK, Placed, RunInv, ExecInv, Executing, Over
  <1>5. FreshInv'
    BY DEF Inv, TypeOK, Placed, RunInv, ExecInv, FreshInv, Executing, Over
  <1>6. QED
    BY <1>1, <1>2, <1>3, <1>4, <1>5 DEF Inv

(* A request that checks its references changes nothing else. *)
LEMMA ValidateStep ==
  ASSUME Inv, NEW r \in Runs, Validate(r)
  PROVE  Inv'
  <1> USE NamesAssumption, BoundAssumption
  <1> USE DEF brokerVars, workerVars, history, Validate, Answered
  <1>1. TypeOK'
    BY DEF Inv, TypeOK, Over
  <1>2. Placed'
    BY DEF Inv, TypeOK, Placed
  <1>3. RunInv'
    BY DEF Inv, TypeOK, Placed, RunInv, ExecInv, Executing, Over
  <1>4. ExecInv'
    BY DEF Inv, TypeOK, Placed, RunInv, ExecInv, Executing, Over
  <1>5. FreshInv'
    BY DEF Inv, TypeOK, Placed, RunInv, ExecInv, FreshInv, Executing, Over
  <1>6. QED
    BY <1>1, <1>2, <1>3, <1>4, <1>5 DEF Inv

(* The queue takes a task, or not. *)
LEMMA PublishStep ==
  ASSUME Inv, NEW r \in Runs, Publish(r)
  PROVE  Inv'
  <1> USE NamesAssumption, BoundAssumption
  <1> USE DEF brokerVars, workerVars, history, Publish, Answered
  <1>1. TypeOK'
    BY DEF Inv, TypeOK, Over
  <1>2. Placed'
    BY DEF Inv, TypeOK, Placed
  <1>3. RunInv'
    BY DEF Inv, TypeOK, Placed, RunInv, ExecInv, Executing, Over
  <1>4. ExecInv'
    BY DEF Inv, TypeOK, Placed, RunInv, ExecInv, Executing, Over
  <1>5. FreshInv'
    BY DEF Inv, TypeOK, Placed, RunInv, ExecInv, FreshInv, Executing, Over
  <1>6. QED
    BY <1>1, <1>2, <1>3, <1>4, <1>5 DEF Inv

(* A run that is still queued has no executor, so it may be failed. *)
LEMMA FailPublishStep ==
  ASSUME Inv, NEW r \in Runs, FailPublish(r)
  PROVE  Inv'
  <1> USE NamesAssumption, BoundAssumption
  <1> USE DEF brokerVars, workerVars, history, FailPublish, Answered, QueuedStill
  <1>1. TypeOK'
    BY DEF Inv, TypeOK, Over
  <1>2. Placed'
    BY DEF Inv, TypeOK, Placed
  <1>3. RunInv'
    BY DEF Inv, TypeOK, Placed, RunInv, ExecInv, Executing, Over
  <1>4. ExecInv'
    BY DEF Inv, TypeOK, Placed, RunInv, ExecInv, Executing, Over
  <1>5. FreshInv'
    BY DEF Inv, TypeOK, Placed, RunInv, ExecInv, FreshInv, Executing, Over
  <1>6. QED
    BY <1>1, <1>2, <1>3, <1>4, <1>5 DEF Inv

(* A request that is cut off stores nothing. *)
LEMMA CrashApiStep ==
  ASSUME Inv, NEW r \in Runs, CrashApi(r)
  PROVE  Inv'
  <1> USE NamesAssumption, BoundAssumption
  <1> USE DEF brokerVars, workerVars, history, CrashApi, Answered
  <1>1. TypeOK'
    BY DEF Inv, TypeOK, Over
  <1>2. Placed'
    BY DEF Inv, TypeOK, Placed
  <1>3. RunInv'
    BY DEF Inv, TypeOK, Placed, RunInv, ExecInv, Executing, Over
  <1>4. ExecInv'
    BY DEF Inv, TypeOK, Placed, RunInv, ExecInv, Executing, Over
  <1>5. FreshInv'
    BY DEF Inv, TypeOK, Placed, RunInv, ExecInv, FreshInv, Executing, Over
  <1>6. QED
    BY <1>1, <1>2, <1>3, <1>4, <1>5 DEF Inv

(* The references of a run come and go while it is executed. *)
LEMMA ChangeRefsStep ==
  ASSUME Inv, NEW r \in Runs, ChangeRefs(r)
  PROVE  Inv'
  <1> USE NamesAssumption, BoundAssumption
  <1> USE DEF brokerVars, workerVars, history, ChangeRefs
  <1>1. TypeOK'
    BY DEF Inv, TypeOK, Over
  <1>2. Placed'
    BY DEF Inv, TypeOK, Placed
  <1>3. RunInv'
    BY DEF Inv, TypeOK, Placed, RunInv, ExecInv, Executing, Over
  <1>4. ExecInv'
    BY DEF Inv, TypeOK, Placed, RunInv, ExecInv, Executing, Over
  <1>5. FreshInv'
    BY DEF Inv, TypeOK, Placed, RunInv, ExecInv, FreshInv, Executing, Over
  <1>6. QED
    BY <1>1, <1>2, <1>3, <1>4, <1>5 DEF Inv

(* A worker that takes a task executes nothing yet. *)
LEMMA DeliverStep ==
  ASSUME Inv, NEW w \in Workers, NEW r \in Runs, Deliver(w, r)
  PROVE  Inv'
  <1> USE NamesAssumption, BoundAssumption
  <1> USE DEF brokerVars, workerVars, history, Deliver, Step
  <1>1. TypeOK'
    BY DEF Inv, TypeOK, Over
  <1>2. Placed'
    BY DEF Inv, TypeOK, Placed
  <1>3. RunInv'
    BY DEF Inv, TypeOK, Placed, RunInv, ExecInv, Executing, Over
  <1>4. ExecInv'
    BY DEF Inv, TypeOK, Placed, RunInv, ExecInv, Executing, Over
  <1>5. FreshInv'
    BY DEF Inv, TypeOK, Placed, RunInv, ExecInv, FreshInv, Executing, Over
  <1>6. QED
    BY <1>1, <1>2, <1>3, <1>4, <1>5 DEF Inv

(* Only a queued run is claimed, and a queued run has no executor. *)
LEMMA ClaimStep ==
  ASSUME Inv, NEW w \in Workers, Claim(w)
  PROVE  Inv'
  <1> USE NamesAssumption, BoundAssumption
  <1> USE DEF brokerVars, workerVars, history, Claim, Step, Claimable
  <1>a. job[w] \in Runs
    BY HasRun
  <1>1. TypeOK'
    BY <1>a DEF Inv, TypeOK, Over
  <1>2. Placed'
    BY <1>a DEF Inv, TypeOK, Placed
  <1>3. RunInv'
    BY <1>a DEF Inv, TypeOK, Placed, RunInv, ExecInv, Executing, Over
  <1>4. ExecInv'
    BY <1>a DEF Inv, TypeOK, Placed, RunInv, ExecInv, Executing, Over
  <1>5. FreshInv'
    BY <1>a DEF Inv, TypeOK, Placed, RunInv, ExecInv, FreshInv, Executing, Over
  <1>6. QED
    BY <1>1, <1>2, <1>3, <1>4, <1>5 DEF Inv

(* The executor looks at the references and the provider. *)
LEMMA PrepareStep ==
  ASSUME Inv, NEW w \in Workers, Prepare(w)
  PROVE  Inv'
  <1> USE NamesAssumption, BoundAssumption
  <1> USE DEF brokerVars, workerVars, history, Prepare, Step
  <1>a. job[w] \in Runs
    BY HasRun
  <1>1. TypeOK'
    BY <1>a DEF Inv, TypeOK, Over
  <1>2. Placed'
    BY <1>a DEF Inv, TypeOK, Placed
  <1>3. RunInv'
    BY <1>a DEF Inv, TypeOK, Placed, RunInv, ExecInv, Executing, Over
  <1>4. ExecInv'
    BY <1>a DEF Inv, TypeOK, Placed, RunInv, ExecInv, Executing, Over
  <1>5. FreshInv'
    BY <1>a DEF Inv, TypeOK, Placed, RunInv, ExecInv, FreshInv, Executing, Over
  <1>6. QED
    BY <1>1, <1>2, <1>3, <1>4, <1>5 DEF Inv

(* The executor asks the model, which nobody has asked before. *)
LEMMA GenerateStep ==
  ASSUME Inv, NEW w \in Workers, Generate(w)
  PROVE  Inv'
  <1> USE NamesAssumption, BoundAssumption
  <1> USE DEF brokerVars, workerVars, history, Generate, Step, AfterAnswer
  <1>a. job[w] \in Runs
    BY HasRun
  <1>1. TypeOK'
    BY <1>a DEF Inv, TypeOK, Over
  <1>2. Placed'
    BY <1>a DEF Inv, TypeOK, Placed
  <1>3. RunInv'
    BY <1>a DEF Inv, TypeOK, Placed, RunInv, ExecInv, Executing, Over
  <1>4. ExecInv'
    BY <1>a DEF Inv, TypeOK, Placed, RunInv, ExecInv, Executing, Over
  <1>5. FreshInv'
    BY <1>a DEF Inv, TypeOK, Placed, RunInv, ExecInv, FreshInv, Executing, Over
  <1>6. QED
    BY <1>1, <1>2, <1>3, <1>4, <1>5 DEF Inv

(* The executor reads the references again. *)
LEMMA RevalidateStep ==
  ASSUME Inv, NEW w \in Workers, Revalidate(w)
  PROVE  Inv'
  <1> USE NamesAssumption, BoundAssumption
  <1> USE DEF brokerVars, workerVars, history, Revalidate, Step
  <1>a. job[w] \in Runs
    BY HasRun
  <1>1. TypeOK'
    BY <1>a DEF Inv, TypeOK, Over
  <1>2. Placed'
    BY <1>a DEF Inv, TypeOK, Placed
  <1>3. RunInv'
    BY <1>a DEF Inv, TypeOK, Placed, RunInv, ExecInv, Executing, Over
  <1>4. ExecInv'
    BY <1>a DEF Inv, TypeOK, Placed, RunInv, ExecInv, Executing, Over
  <1>5. FreshInv'
    BY <1>a DEF Inv, TypeOK, Placed, RunInv, ExecInv, FreshInv, Executing, Over
  <1>6. QED
    BY <1>1, <1>2, <1>3, <1>4, <1>5 DEF Inv

(* The executor stores the draft of a run that still reads running. *)
LEMMA WriteStep ==
  ASSUME Inv, NEW w \in Workers, Write(w)
  PROVE  Inv'
  <1> USE NamesAssumption, BoundAssumption
  <1> USE DEF brokerVars, workerVars, history, Write, Step, DraftStatus
  <1>a. job[w] \in Runs
    BY HasRun
  <1>1. TypeOK'
    BY <1>a DEF Inv, TypeOK, Over
  <1>2. Placed'
    BY <1>a DEF Inv, TypeOK, Placed
  <1>3. RunInv'
    BY <1>a DEF Inv, TypeOK, Placed, RunInv, ExecInv, Executing, Over
  <1>4. ExecInv'
    BY <1>a DEF Inv, TypeOK, Placed, RunInv, ExecInv, Executing, Over
  <1>5. FreshInv'
    BY <1>a DEF Inv, TypeOK, Placed, RunInv, ExecInv, FreshInv, Executing, Over
  <1>6. QED
    BY <1>1, <1>2, <1>3, <1>4, <1>5 DEF Inv

(* The executor stores its failure unless an outcome is there. *)
LEMMA FailStep ==
  ASSUME Inv, NEW w \in Workers, Fail(w)
  PROVE  Inv'
  <1> USE NamesAssumption, BoundAssumption
  <1> USE DEF brokerVars, workerVars, history, Fail, Step, RunningStill
  <1>a. job[w] \in Runs
    BY HasRun
  <1>1. TypeOK'
    BY <1>a DEF Inv, TypeOK, Over
  <1>2. Placed'
    BY <1>a DEF Inv, TypeOK, Placed
  <1>3. RunInv'
    BY <1>a DEF Inv, TypeOK, Placed, RunInv, ExecInv, Executing, Over
  <1>4. ExecInv'
    BY <1>a DEF Inv, TypeOK, Placed, RunInv, ExecInv, Executing, Over
  <1>5. FreshInv'
    BY <1>a DEF Inv, TypeOK, Placed, RunInv, ExecInv, FreshInv, Executing, Over
  <1>6. QED
    BY <1>1, <1>2, <1>3, <1>4, <1>5 DEF Inv

(* A task is acknowledged by a worker that is done with it. *)
LEMMA AckStep ==
  ASSUME Inv, NEW w \in Workers, Ack(w)
  PROVE  Inv'
  <1> USE NamesAssumption, BoundAssumption
  <1> USE DEF brokerVars, workerVars, history, Ack, Release, Step
  <1>a. job[w] \in Runs
    BY HasRun
  <1>1. TypeOK'
    BY <1>a DEF Inv, TypeOK, Over
  <1>2. Placed'
    BY <1>a DEF Inv, TypeOK, Placed
  <1>3. RunInv'
    BY <1>a DEF Inv, TypeOK, Placed, RunInv, ExecInv, Executing, Over
  <1>4. ExecInv'
    BY <1>a DEF Inv, TypeOK, Placed, RunInv, ExecInv, Executing, Over
  <1>5. FreshInv'
    BY <1>a DEF Inv, TypeOK, Placed, RunInv, ExecInv, FreshInv, Executing, Over
  <1>6. QED
    BY <1>1, <1>2, <1>3, <1>4, <1>5 DEF Inv

(* A lost worker leaves its run as it is and executes nothing. *)
LEMMA CrashWorkerStep ==
  ASSUME Inv, NEW w \in Workers, CrashWorker(w)
  PROVE  Inv'
  <1> USE NamesAssumption, BoundAssumption
  <1> USE DEF brokerVars, workerVars, history, CrashWorker, Release, Step
  <1>a. job[w] \in Runs
    BY HasRun
  <1>1. TypeOK'
    BY <1>a DEF Inv, TypeOK, Over
  <1>2. Placed'
    BY <1>a DEF Inv, TypeOK, Placed
  <1>3. RunInv'
    BY <1>a DEF Inv, TypeOK, Placed, RunInv, ExecInv, Executing, Over
  <1>4. ExecInv'
    BY <1>a DEF Inv, TypeOK, Placed, RunInv, ExecInv, Executing, Over
  <1>5. FreshInv'
    BY <1>a DEF Inv, TypeOK, Placed, RunInv, ExecInv, FreshInv, Executing, Over
  <1>6. QED
    BY <1>1, <1>2, <1>3, <1>4, <1>5 DEF Inv

(* A second delivery adds a task only. *)
LEMMA DeliverAgainStep ==
  ASSUME Inv, NEW w \in Workers, DeliverAgain(w)
  PROVE  Inv'
  <1> USE NamesAssumption, BoundAssumption
  <1> USE DEF brokerVars, workerVars, history, DeliverAgain
  <1>a. job[w] \in Runs
    BY HasRun
  <1>1. TypeOK'
    BY <1>a DEF Inv, TypeOK, Over
  <1>2. Placed'
    BY <1>a DEF Inv, TypeOK, Placed
  <1>3. RunInv'
    BY <1>a DEF Inv, TypeOK, Placed, RunInv, ExecInv, Executing, Over
  <1>4. ExecInv'
    BY <1>a DEF Inv, TypeOK, Placed, RunInv, ExecInv, Executing, Over
  <1>5. FreshInv'
    BY <1>a DEF Inv, TypeOK, Placed, RunInv, ExecInv, FreshInv, Executing, Over
  <1>6. QED
    BY <1>1, <1>2, <1>3, <1>4, <1>5 DEF Inv

LEMMA NextInv == Inv /\ [Next]_vars => Inv'
  <1> SUFFICES ASSUME Inv, [Next]_vars PROVE Inv'
    OBVIOUS
  <1>1. ASSUME NEW r \in Runs, Api(r) \/ CrashApi(r) \/ ChangeRefs(r) PROVE Inv'
    BY <1>1, ValidateStep, StoreStep, PublishStep, FailPublishStep, CrashApiStep,
       ChangeRefsStep DEF Api
  <1>2. ASSUME NEW w \in Workers, NEW r \in Runs, Deliver(w, r) PROVE Inv'
    BY <1>2, DeliverStep
  <1>3. ASSUME NEW w \in Workers, Work(w) PROVE Inv'
    BY <1>3, ClaimStep, PrepareStep, GenerateStep, RevalidateStep, WriteStep, FailStep,
       AckStep DEF Work
  <1>4. ASSUME NEW w \in Workers, CrashWorker(w) \/ DeliverAgain(w) PROVE Inv'
    BY <1>4, CrashWorkerStep, DeliverAgainStep
  <1>5. CASE UNCHANGED vars
    BY <1>5 DEF vars, brokerVars, workerVars, history, Inv, TypeOK, Placed, RunInv, ExecInv,
       FreshInv, Executing
  <1>6. QED
    BY <1>1, <1>2, <1>3, <1>4, <1>5 DEF Next

(* The inductive invariant holds in every reachable state. *)
THEOREM InvHolds == Spec => []Inv
  BY InitInv, NextInv, PTL DEF Spec

(* Type correctness: no run reads a status the code does not write. *)
THEOREM TypeCorrect == Spec => []TypeOK
  <1>1. Inv => TypeOK
    BY DEF Inv
  <1>2. QED
    BY <1>1, InvHolds, PTL

(* The model is asked at most once for a run, whatever is delivered again. *)
THEOREM AtMostOneCall == Spec => []AskedOnce
  <1>1. Inv => AskedOnce
    BY DEF Inv, RunInv, AskedOnce
  <1>2. QED
    BY <1>1, InvHolds, PTL

(* A run has one executor, and reads running until it has an outcome. *)
THEOREM ExecutorAlone == Spec => []OneExecutor
  <1>1. Inv => OneExecutor
    BY DEF Inv, ExecInv, OneExecutor
  <1>2. QED
    BY <1>1, InvHolds, PTL

(* A run has one executor at a time, and asks the model once. *)
THEOREM ExecutesOnce == Spec => []ExecutedOnce
  BY AtMostOneCall, ExecutorAlone, PTL DEF ExecutedOnce

(* A step that changes the status of a run is the request that stores it,  *)
(* or fails it unpublished, or a step of its executor.                     *)
LEMMA StatusSteps ==
  ASSUME Inv, [Next]_vars, NEW r \in Runs, status'[r] # status[r]
  PROVE  \/ status[r] \in {"none", "queued"} /\ status'[r] # "pending_human_review"
         \/ \E w \in Workers : pc[w] = "write" /\ job[w] = r
         \/ status[r] = "running" /\ status'[r] = "failed"
  <1> USE DEF brokerVars, workerVars, history
  <1>1. ASSUME NEW x \in Runs, Api(x) \/ CrashApi(x) \/ ChangeRefs(x)
        PROVE  status[r] \in {"none", "queued"} /\ status'[r] # "pending_human_review"
    <2>1. CASE Store(x)
      BY <2>1 DEF Store, Inv, TypeOK, RunInv
    <2>2. CASE FailPublish(x)
      BY <2>2 DEF FailPublish, QueuedStill, Inv, TypeOK
    <2>3. QED
      BY <1>1, <2>1, <2>2 DEF Api, Validate, Publish, CrashApi, ChangeRefs
  <1>2. ASSUME NEW w \in Workers, Work(w)
        PROVE  \/ status[r] = "queued" /\ status'[r] # "pending_human_review"
               \/ pc[w] = "write" /\ job[w] = r
               \/ status[r] = "running" /\ status'[r] = "failed"
    <2>1. CASE Claim(w)
      BY <2>1 DEF Claim, Claimable, Inv, TypeOK
    <2>2. CASE Write(w)
      BY <2>2 DEF Write, Inv, TypeOK
    <2>3. CASE Fail(w)
      BY <2>3 DEF Fail, RunningStill, Inv, TypeOK
    <2>4. QED
      BY <1>2, <2>1, <2>2, <2>3 DEF Work, Prepare, Generate, Revalidate, Ack
  <1>3. ASSUME NEW w \in Workers,
               (\E x \in Runs : Deliver(w, x)) \/ CrashWorker(w) \/ DeliverAgain(w)
        PROVE  FALSE
    BY <1>3 DEF Deliver, CrashWorker, DeliverAgain
  <1>4. QED
    BY <1>1, <1>2, <1>3 DEF Next, vars

(* What goes to review cites references that were seen, or made available  *)
(* again, after the answer.                                                *)
THEOREM FreshDrafts == Spec => DraftIsFresh
  <1>1. ASSUME Inv, [Next]_vars, NEW r \in Runs,
               status[r] # "pending_human_review", status'[r] = "pending_human_review"
        PROVE  fresh[r]
    BY <1>1, StatusSteps DEF Inv, FreshInv
  <1>2. Inv /\ [Next]_vars =>
          [\A r \in Runs :
             status[r] # "pending_human_review" /\ status'[r] = "pending_human_review" =>
                 fresh[r]]_vars
    BY <1>1
  <1>3. QED
    BY <1>2, InvHolds, PTL DEF Spec, DraftIsFresh

(* An outcome is final: a late message or request leaves it as it is. *)
THEOREM OutcomeIsFinal == Spec => OverIsOver
  <1>1. ASSUME Inv, [Next]_vars, NEW r \in Runs, status[r] \in Over
        PROVE  status'[r] = status[r]
    BY <1>1, StatusSteps DEF Inv, ExecInv, Executing, Over
  <1>2. Inv /\ [Next]_vars => [\A r \in Runs : status[r] \in Over => status'[r] = status[r]]_vars
    BY <1>1
  <1>3. QED
    BY <1>2, InvHolds, PTL DEF Spec, OverIsOver
=============================================================================
