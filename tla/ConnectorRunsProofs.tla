------------------------- MODULE ConnectorRunsProofs -------------------------
(* The invariants of the outbox and of connector runs for any number of      *)
(* runs, overlapping dispatches, workers, retries and faults.                *)
EXTENDS ConnectorRuns, TLAPS

LEMMA InitInv == Init => Inv
  <1> SUFFICES ASSUME Init PROVE Inv
    OBVIOUS
  <1> USE NamesAssumption, BoundsAssumption, LimitAssumption
  <1>1. TypeOK
    BY DEF Init, TypeOK, Statuses, NoTask
  <1>2. Places /\ SentWasTaken /\ PublishedWasTaken /\ CompletedHasResult /\ Pursued
    BY DEF Init, Places, SentWasTaken, PublishedWasTaken, CompletedHasResult, Pursued, Tasks, NoTask
  <1>3. QED
    BY <1>1, <1>2 DEF Inv

(* A task names a run, and the empty one is none. *)
LEMMA TaskFacts ==
  /\ NoTask \notin Tasks
  /\ \A r \in Runs : <<r, 0>> \in Tasks /\ <<r, Inline>> # NoTask
  /\ \A t \in Tasks : t[1] \in Runs
  BY NamesAssumption, BoundsAssumption DEF Tasks, NoTask, Inline

(* A worker that is not idle has a run. *)
LEMMA HasRun ==
  ASSUME Inv, NEW w \in Workers, pc[w] # "idle"
  PROVE  Run(w) \in Runs
  BY DEF Inv, TypeOK, Places, Run

(* A run that is stored was not there before, so nobody pursues it. *)
LEMMA CreateStep ==
  ASSUME Inv, NEW r \in Runs, Create(r)
  PROVE  Inv'
  <1> USE NamesAssumption, BoundsAssumption, TaskFacts
  <1> USE DEF rows, outboxVars, dispatch, broker, worker, Create, Stored
  <1>1. TypeOK'
    BY DEF Inv, TypeOK, Places, Statuses, Over, Run, NoTask, Inline, Tasks
  <1>2. Places'
    BY DEF Inv, TypeOK, Places
  <1>3. SentWasTaken' /\ PublishedWasTaken'
    BY DEF Inv, TypeOK, SentWasTaken, PublishedWasTaken
  <1>4. CompletedHasResult'
    BY DEF Inv, TypeOK, CompletedHasResult
  <1>5. Pursued'
    <2> SUFFICES ASSUME ~RowSecurity, NEW q \in taken \ cut
                 PROVE  (Waiting(q) \/ InHand(q) \/ Settled(q))'
      BY DEF Pursued
    <2>1. CASE Waiting(q)
      BY <2>1 DEF Waiting
    <2>2. CASE InHand(q)
      <3>1. PICK v \in Workers : Run(v) = q /\ HasInHand(v)
        BY <2>2 DEF InHand
      <3>2. HasInHand(v)' /\ Run(v)' = q
        BY <3>1 DEF HasInHand, Run, Inv, TypeOK
      <3>3. QED
        BY <3>2 DEF InHand
    <2>3. CASE Settled(q)
      BY <2>3 DEF Settled, Over, Inv, TypeOK
    <2>4. QED
      BY <2>1, <2>2, <2>3 DEF Inv, Pursued
  <1>6. QED
    BY <1>1, <1>2, <1>3, <1>4, <1>5 DEF Inv

(* A request that waits executes its run like a worker. *)
LEMMA CreateAndWaitStep ==
  ASSUME Inv, NEW w \in Workers, NEW r \in Runs, CreateAndWait(w, r)
  PROVE  Inv'
  <1> USE NamesAssumption, BoundsAssumption, TaskFacts
  <1> USE DEF rows, outboxVars, dispatch, broker, worker, CreateAndWait, Stored
  <1>1. TypeOK'
    BY DEF Inv, TypeOK, Places, Statuses, Over, Run, NoTask, Inline, Tasks
  <1>2. Places'
    BY DEF Inv, TypeOK, Places
  <1>3. SentWasTaken' /\ PublishedWasTaken'
    BY DEF Inv, TypeOK, SentWasTaken, PublishedWasTaken
  <1>4. CompletedHasResult'
    BY DEF Inv, TypeOK, CompletedHasResult
  <1>5. Pursued'
    <2> SUFFICES ASSUME ~RowSecurity, NEW q \in taken \ cut
                 PROVE  (Waiting(q) \/ InHand(q) \/ Settled(q))'
      BY DEF Pursued
    <2>1. CASE Waiting(q)
      BY <2>1 DEF Waiting
    <2>2. CASE InHand(q)
      <3>1. PICK v \in Workers : Run(v) = q /\ HasInHand(v)
        BY <2>2 DEF InHand
      <3>2. HasInHand(v)' /\ Run(v)' = q
        BY <3>1 DEF HasInHand, Run, Inv, TypeOK
      <3>3. QED
        BY <3>2 DEF InHand
    <2>3. CASE Settled(q)
      BY <2>3 DEF Settled, Over, Inv, TypeOK
    <2>4. QED
      BY <2>1, <2>2, <2>3 DEF Inv, Pursued
  <1>6. QED
    BY <1>1, <1>2, <1>3, <1>4, <1>5 DEF Inv

(* A dispatch begins with nothing sent. *)
LEMMA ReadOutboxStep ==
  ASSUME Inv, NEW d \in Dispatchers, ReadOutbox(d)
  PROVE  Inv'
  <1> USE NamesAssumption, BoundsAssumption, TaskFacts
  <1> USE DEF rows, outboxVars, dispatch, broker, worker, ReadOutbox, Batch, Pending
  <1>1. TypeOK'
    BY DEF Inv, TypeOK, Places, Statuses, Over, Run, NoTask, Inline, Tasks
  <1>2. Places'
    BY DEF Inv, TypeOK, Places
  <1>3. SentWasTaken' /\ PublishedWasTaken'
    BY DEF Inv, TypeOK, SentWasTaken, PublishedWasTaken
  <1>4. CompletedHasResult'
    BY DEF Inv, TypeOK, CompletedHasResult
  <1>5. Pursued'
    BY DEF Inv, TypeOK, Places, Pursued, Waiting, InHand, HasInHand, Settled, Run, Over
  <1>6. QED
    BY <1>1, <1>2, <1>3, <1>4, <1>5 DEF Inv

(* What a dispatch sends is taken by the broker and waits there. *)
LEMMA SendStep ==
  ASSUME Inv, NEW d \in Dispatchers, Send(d)
  PROVE  Inv'
  <1> USE NamesAssumption, BoundsAssumption, TaskFacts
  <1> USE DEF rows, outboxVars, dispatch, broker, worker, Send, Upcoming, Enqueue
  <1>1. TypeOK'
    BY DEF Inv, TypeOK, Places, Statuses, Over, Run, NoTask, Inline, Tasks
  <1>2. Places'
    BY DEF Inv, TypeOK, Places
  <1>3. SentWasTaken' /\ PublishedWasTaken'
    BY DEF Inv, TypeOK, SentWasTaken, PublishedWasTaken
  <1>4. CompletedHasResult'
    BY DEF Inv, TypeOK, CompletedHasResult
  <1>5. Pursued'
    BY DEF Inv, TypeOK, Places, Pursued, Waiting, InHand, HasInHand, Settled, Run, Over
  <1>6. QED
    BY <1>1, <1>2, <1>3, <1>4, <1>5 DEF Inv

(* A call that fails ends the dispatch, whether or not the broker took the task. *)
LEMMA SendFailsStep ==
  ASSUME Inv, NEW d \in Dispatchers, SendFails(d)
  PROVE  Inv'
  <1> USE NamesAssumption, BoundsAssumption, TaskFacts
  <1> USE DEF rows, outboxVars, dispatch, broker, worker, SendFails, Upcoming, Enqueue, EndDispatch, Fault
  <1>1. TypeOK'
    <2>1. ASSUME NEW r \in batch[d], Enqueue(<<r, 0>>)
          PROVE  queue' \in [Tasks -> Nat] /\ taken' \subseteq Runs
      <3>1. r \in Runs /\ taken' = taken \cup {r}
        BY <2>1 DEF Inv, TypeOK
      <3>2. queue' = [queue EXCEPT ![<<r, 0>>] = @ + 1]
        BY <2>1
      <3>3. QED
        BY <3>1, <3>2 DEF Inv, TypeOK
    <2>2. queue' \in [Tasks -> Nat] /\ taken' \subseteq Runs
      BY <2>1 DEF Inv, TypeOK
    <2>3. QED
      BY <2>2 DEF Inv, TypeOK
  <1>2. Places'
    BY DEF Inv, TypeOK, Places
  <1>3. SentWasTaken' /\ PublishedWasTaken'
    BY DEF Inv, TypeOK, SentWasTaken, PublishedWasTaken
  <1>4. CompletedHasResult'
    BY DEF Inv, TypeOK, CompletedHasResult
  <1>5. Pursued'
    <2> SUFFICES ASSUME ~RowSecurity, NEW q \in taken' \ cut'
                 PROVE  (Waiting(q) \/ InHand(q) \/ Settled(q))'
      BY DEF Pursued
    <2>0. PICK r \in Upcoming(d) : Enqueue(<<r, 0>>) \/ UNCHANGED <<queue, taken>>
      OBVIOUS
    <2>1. CASE Waiting(q)
      BY <2>0, <2>1 DEF Waiting, Inv, TypeOK
    <2>2. CASE InHand(q)
      <3>1. PICK v \in Workers : Run(v) = q /\ HasInHand(v)
        BY <2>2 DEF InHand
      <3>2. HasInHand(v)' /\ Run(v)' = q
        BY <3>1 DEF HasInHand, Run, Inv, TypeOK
      <3>3. QED
        BY <3>2 DEF InHand
    <2>3. CASE Settled(q)
      BY <2>3 DEF Settled, Over, Inv, TypeOK
    <2>4. CASE q \notin taken
      <3>1. r = q /\ <<r, 0>> \in Tasks /\ queue' = [queue EXCEPT ![<<r, 0>>] = @ + 1]
        BY <2>0, <2>4 DEF Inv, TypeOK
      <3>2. queue'[<<r, 0>>] > 0
        BY <3>1 DEF Inv, TypeOK
      <3>3. QED
        BY <3>1, <3>2 DEF Waiting
    <2>5. QED
      BY <2>1, <2>2, <2>3, <2>4 DEF Inv, Pursued
  <1>6. QED
    BY <1>1, <1>2, <1>3, <1>4, <1>5 DEF Inv

(* What is marked was sent. *)
LEMMA CommitDispatchStep ==
  ASSUME Inv, NEW d \in Dispatchers, CommitDispatch(d)
  PROVE  Inv'
  <1> USE NamesAssumption, BoundsAssumption, TaskFacts
  <1> USE DEF rows, outboxVars, dispatch, broker, worker, CommitDispatch, EndDispatch
  <1>1. TypeOK'
    BY DEF Inv, TypeOK, Places, Statuses, Over, Run, NoTask, Inline, Tasks
  <1>2. Places'
    BY DEF Inv, TypeOK, Places
  <1>3. SentWasTaken' /\ PublishedWasTaken'
    BY DEF Inv, TypeOK, SentWasTaken, PublishedWasTaken
  <1>4. CompletedHasResult'
    BY DEF Inv, TypeOK, CompletedHasResult
  <1>5. Pursued'
    BY DEF Inv, TypeOK, Places, Pursued, Waiting, InHand, HasInHand, Settled, Run, Over
  <1>6. QED
    BY <1>1, <1>2, <1>3, <1>4, <1>5 DEF Inv

(* A dispatch that dies has marked what it sent, or nothing. *)
LEMMA AbortDispatchStep ==
  ASSUME Inv, NEW d \in Dispatchers, AbortDispatch(d)
  PROVE  Inv'
  <1> USE NamesAssumption, BoundsAssumption, TaskFacts
  <1> USE DEF rows, outboxVars, dispatch, broker, worker, AbortDispatch, EndDispatch, Fault
  <1>1. TypeOK'
    BY DEF Inv, TypeOK, Places, Statuses, Over, Run, NoTask, Inline, Tasks
  <1>2. Places'
    BY DEF Inv, TypeOK, Places
  <1>3. SentWasTaken' /\ PublishedWasTaken'
    BY DEF Inv, TypeOK, SentWasTaken, PublishedWasTaken
  <1>4. CompletedHasResult'
    BY DEF Inv, TypeOK, CompletedHasResult
  <1>5. Pursued'
    BY DEF Inv, TypeOK, Places, Pursued, Waiting, InHand, HasInHand, Settled, Run, Over
  <1>6. QED
    BY <1>1, <1>2, <1>3, <1>4, <1>5 DEF Inv

(* A message goes from the queue to a worker. *)
LEMMA DeliverStep ==
  ASSUME Inv, NEW w \in Workers, NEW t \in Tasks, Deliver(w, t)
  PROVE  Inv'
  <1> USE NamesAssumption, BoundsAssumption, TaskFacts
  <1> USE DEF rows, outboxVars, dispatch, broker, worker, Deliver, Step
  <1>1. TypeOK'
    BY DEF Inv, TypeOK, Places, Statuses, Over, Run, NoTask, Inline, Tasks
  <1>2. Places'
    BY DEF Inv, TypeOK, Places
  <1>3. SentWasTaken' /\ PublishedWasTaken'
    BY DEF Inv, TypeOK, SentWasTaken, PublishedWasTaken
  <1>4. CompletedHasResult'
    BY DEF Inv, TypeOK, CompletedHasResult
  <1>5. Pursued'
    BY DEF Inv, TypeOK, Places, Pursued, Waiting, InHand, HasInHand, Settled, Run, Over
  <1>6. QED
    BY <1>1, <1>2, <1>3, <1>4, <1>5 DEF Inv

(* Without row security every worker finds its run. *)
LEMMA LoadStep ==
  ASSUME Inv, NEW w \in Workers, Load(w)
  PROVE  Inv'
  <1> USE NamesAssumption, BoundsAssumption, TaskFacts
  <1> USE DEF rows, outboxVars, dispatch, broker, worker, Load, Step
  <1>a. Run(w) \in Runs
    BY HasRun
  <1>b. \/ pc' = [pc EXCEPT ![w] = "loadjob"]
        \/ RowSecurity /\ pc' = [pc EXCEPT ![w] = "ack"]
        \/ RowSecurity /\ pc' = [pc EXCEPT ![w] = "retry"]
    BY FlagsAssumption
  <1>1. TypeOK'
    <2>1. seenRun' \in [Workers -> Statuses]
      BY <1>a DEF Inv, TypeOK
    <2>2. QED
      BY <1>a, <1>b, <2>1 DEF Inv, TypeOK
  <1>2. Places'
    BY <1>a, <1>b DEF Inv, TypeOK, Places
  <1>3. SentWasTaken' /\ PublishedWasTaken'
    BY <1>a DEF Inv, TypeOK, SentWasTaken, PublishedWasTaken
  <1>4. CompletedHasResult'
    BY <1>a DEF Inv, TypeOK, CompletedHasResult
  <1>5. Pursued'
    <2> SUFFICES ASSUME ~RowSecurity, NEW r \in taken \ cut
                 PROVE  (Waiting(r) \/ InHand(r) \/ Settled(r))'
      BY DEF Pursued
    <2>1. pc' = [pc EXCEPT ![w] = "loadjob"]
      BY <1>b
    <2>2. InHand(r) => InHand(r)'
      BY <2>1 DEF Inv, TypeOK, InHand, HasInHand, Run
    <2>3. QED
      BY <2>2 DEF Inv, Pursued, Waiting, Settled
  <1>6. QED
    BY <1>1, <1>2, <1>3, <1>4, <1>5 DEF Inv

(* A worker that reads the job goes on with its run. *)
LEMMA LoadJobStep ==
  ASSUME Inv, NEW w \in Workers, LoadJob(w)
  PROVE  Inv'
  <1> USE NamesAssumption, BoundsAssumption, TaskFacts
  <1> USE DEF rows, outboxVars, dispatch, broker, worker, LoadJob, Step
  <1>a. Run(w) \in Runs
    BY HasRun
  <1>1. TypeOK'
    BY <1>a DEF Inv, TypeOK, Places, Statuses, Over, Run, NoTask, Inline, Tasks
  <1>2. Places'
    BY <1>a DEF Inv, TypeOK, Places
  <1>3. SentWasTaken' /\ PublishedWasTaken'
    BY <1>a DEF Inv, TypeOK, SentWasTaken, PublishedWasTaken
  <1>4. CompletedHasResult'
    BY <1>a DEF Inv, TypeOK, CompletedHasResult
  <1>5. Pursued'
    BY <1>a DEF Inv, TypeOK, Places, Pursued, Waiting, InHand, HasInHand, Settled, Run, Over
  <1>6. QED
    BY <1>1, <1>2, <1>3, <1>4, <1>5 DEF Inv

(* A worker that marks its run has it in hand from then on. *)
LEMMA MarkStep ==
  ASSUME Inv, NEW w \in Workers, Mark(w)
  PROVE  Inv'
  <1> USE NamesAssumption, BoundsAssumption, TaskFacts
  <1> USE DEF rows, outboxVars, dispatch, broker, worker, Mark, Marks, Forget, Step
  <1>a. Run(w) \in Runs
    BY HasRun
  <1>1. TypeOK'
    BY <1>a DEF Inv, TypeOK, Places, Statuses, Over, Run, NoTask, Inline, Tasks
  <1>2. Places'
    BY <1>a DEF Inv, TypeOK, Places
  <1>3. SentWasTaken' /\ PublishedWasTaken'
    BY <1>a DEF Inv, TypeOK, SentWasTaken, PublishedWasTaken
  <1>4. CompletedHasResult'
    BY <1>a DEF Inv, TypeOK, CompletedHasResult
  <1>5. Pursued'
    BY <1>a DEF Inv, TypeOK, Places, Pursued, Waiting, InHand, HasInHand, Settled, Run, Over
  <1>6. QED
    BY <1>1, <1>2, <1>3, <1>4, <1>5 DEF Inv

(* A mark that fails leads to another try. *)
LEMMA MarkFailsStep ==
  ASSUME Inv, NEW w \in Workers, MarkFails(w)
  PROVE  Inv'
  <1> USE NamesAssumption, BoundsAssumption, TaskFacts
  <1> USE DEF rows, outboxVars, dispatch, broker, worker, MarkFails, Marks, Forget, Step, Fault
  <1>a. Run(w) \in Runs
    BY HasRun
  <1>1. TypeOK'
    <2>1. status' \in [Runs -> Statuses] /\ job' \in [Runs -> Statuses]
      BY <1>a DEF Inv, TypeOK, Statuses
    <2>2. result' \in [Runs -> BOOLEAN]
      BY <1>a, Zenon DEF Inv, TypeOK
    <2>3. QED
      BY <1>a, <2>1, <2>2 DEF Inv, TypeOK, Statuses
  <1>2. Places'
    BY <1>a DEF Inv, TypeOK, Places
  <1>3. SentWasTaken' /\ PublishedWasTaken'
    BY <1>a DEF Inv, TypeOK, SentWasTaken, PublishedWasTaken
  <1>4. CompletedHasResult'
    BY <1>a DEF Inv, TypeOK, CompletedHasResult
  <1>5. Pursued'
    BY <1>a DEF Inv, TypeOK, Places, Pursued, Waiting, InHand, HasInHand, Settled, Run, Over
  <1>6. QED
    BY <1>1, <1>2, <1>3, <1>4, <1>5 DEF Inv

(* The source answers, or not. *)
LEMMA ConnectStep ==
  ASSUME Inv, NEW w \in Workers, Connect(w)
  PROVE  Inv'
  <1> USE NamesAssumption, BoundsAssumption, TaskFacts
  <1> USE DEF rows, outboxVars, dispatch, broker, worker, Connect, Step
  <1>a. Run(w) \in Runs
    BY HasRun
  <1>1. TypeOK'
    BY <1>a DEF Inv, TypeOK, Places, Statuses, Over, Run, NoTask, Inline, Tasks
  <1>2. Places'
    BY <1>a DEF Inv, TypeOK, Places
  <1>3. SentWasTaken' /\ PublishedWasTaken'
    BY <1>a DEF Inv, TypeOK, SentWasTaken, PublishedWasTaken
  <1>4. CompletedHasResult'
    BY <1>a DEF Inv, TypeOK, CompletedHasResult
  <1>5. Pursued'
    <2>1. /\ UNCHANGED <<status, job, queue, unacked, task, taken, cut>>
          /\ \A v \in Workers : HasInHand(v) => HasInHand(v)'
      BY DEF HasInHand, Inv, TypeOK
    <2>2. QED
      BY <2>1 DEF Inv, Pursued, Waiting, InHand, Settled, Run
  <1>6. QED
    BY <1>1, <1>2, <1>3, <1>4, <1>5 DEF Inv

(* A run that is completed is settled, with its result. *)
LEMMA CompleteStep ==
  ASSUME Inv, NEW w \in Workers, Complete(w)
  PROVE  Inv'
  <1> USE NamesAssumption, BoundsAssumption, TaskFacts
  <1> USE DEF rows, outboxVars, dispatch, broker, worker, Complete, Ends, Step
  <1>a. Run(w) \in Runs
    BY HasRun
  <1>1. TypeOK'
    BY <1>a DEF Inv, TypeOK, Places, Statuses, Over, Run, NoTask, Inline, Tasks
  <1>2. Places'
    BY <1>a DEF Inv, TypeOK, Places
  <1>3. SentWasTaken' /\ PublishedWasTaken'
    BY <1>a DEF Inv, TypeOK, SentWasTaken, PublishedWasTaken
  <1>4. CompletedHasResult'
    BY <1>a DEF Inv, TypeOK, CompletedHasResult
  <1>5. Pursued'
    BY <1>a DEF Inv, TypeOK, Places, Pursued, Waiting, InHand, HasInHand, Settled, Run, Over
  <1>6. QED
    BY <1>1, <1>2, <1>3, <1>4, <1>5 DEF Inv

(* A completion that fails leads to a failure or another try. *)
LEMMA CompleteFailsStep ==
  ASSUME Inv, NEW w \in Workers, CompleteFails(w)
  PROVE  Inv'
  <1> USE NamesAssumption, BoundsAssumption, TaskFacts
  <1> USE DEF rows, outboxVars, dispatch, broker, worker, CompleteFails, Ends, Step, Fault
  <1>a. Run(w) \in Runs
    BY HasRun
  <1>1. TypeOK'
    <2>1. status' \in [Runs -> Statuses] /\ job' \in [Runs -> Statuses]
      BY <1>a DEF Inv, TypeOK, Statuses
    <2>2. result' \in [Runs -> BOOLEAN]
      BY <1>a, Zenon DEF Inv, TypeOK
    <2>3. QED
      BY <1>a, <2>1, <2>2 DEF Inv, TypeOK, Statuses
  <1>2. Places'
    BY <1>a DEF Inv, TypeOK, Places
  <1>3. SentWasTaken' /\ PublishedWasTaken'
    BY <1>a DEF Inv, TypeOK, SentWasTaken, PublishedWasTaken
  <1>4. CompletedHasResult'
    BY <1>a DEF Inv, TypeOK, CompletedHasResult
  <1>5. Pursued'
    <2>1. \A v \in Workers : HasInHand(v) => HasInHand(v)' /\ Run(v)' = Run(v)
      BY DEF Inv, TypeOK, HasInHand, Run
    <2>2. HasInHand(w)' /\ Run(w)' = Run(w)
      BY <2>1 DEF HasInHand
    <2>3. ASSUME NEW r \in Runs, r # Run(w) PROVE Settled(r)' <=> Settled(r)
      BY <2>3, <1>a DEF Inv, TypeOK, Settled, Run
    <2>4. QED
      BY <2>1, <2>2, <2>3 DEF Inv, TypeOK, Pursued, Waiting, InHand
  <1>6. QED
    BY <1>1, <1>2, <1>3, <1>4, <1>5 DEF Inv

(* A run that failed is settled. *)
LEMMA FailStep ==
  ASSUME Inv, NEW w \in Workers, Fail(w)
  PROVE  Inv'
  <1> USE NamesAssumption, BoundsAssumption, TaskFacts
  <1> USE DEF rows, outboxVars, dispatch, broker, worker, Fail, Ends, Step
  <1>a. Run(w) \in Runs
    BY HasRun
  <1>1. TypeOK'
    BY <1>a DEF Inv, TypeOK, Places, Statuses, Over, Run, NoTask, Inline, Tasks
  <1>2. Places'
    BY <1>a DEF Inv, TypeOK, Places
  <1>3. SentWasTaken' /\ PublishedWasTaken'
    BY <1>a DEF Inv, TypeOK, SentWasTaken, PublishedWasTaken
  <1>4. CompletedHasResult'
    BY <1>a DEF Inv, TypeOK, CompletedHasResult
  <1>5. Pursued'
    BY <1>a DEF Inv, TypeOK, Places, Pursued, Waiting, InHand, HasInHand, Settled, Run, Over
  <1>6. QED
    BY <1>1, <1>2, <1>3, <1>4, <1>5 DEF Inv

(* A failure that is not stored leads to another try. *)
LEMMA FailFailsStep ==
  ASSUME Inv, NEW w \in Workers, FailFails(w)
  PROVE  Inv'
  <1> USE NamesAssumption, BoundsAssumption, TaskFacts
  <1> USE DEF rows, outboxVars, dispatch, broker, worker, FailFails, Ends, Step, Fault
  <1>a. Run(w) \in Runs
    BY HasRun
  <1>1. TypeOK'
    <2>1. status' \in [Runs -> Statuses] /\ job' \in [Runs -> Statuses]
      BY <1>a DEF Inv, TypeOK, Statuses
    <2>2. result' \in [Runs -> BOOLEAN]
      BY <1>a, Zenon DEF Inv, TypeOK
    <2>3. QED
      BY <1>a, <2>1, <2>2 DEF Inv, TypeOK, Statuses
  <1>2. Places'
    BY <1>a DEF Inv, TypeOK, Places
  <1>3. SentWasTaken' /\ PublishedWasTaken'
    BY <1>a DEF Inv, TypeOK, SentWasTaken, PublishedWasTaken
  <1>4. CompletedHasResult'
    BY <1>a DEF Inv, TypeOK, CompletedHasResult
  <1>5. Pursued'
    BY <1>a DEF Inv, TypeOK, Places, Pursued, Waiting, InHand, HasInHand, Settled, Run, Over
  <1>6. QED
    BY <1>1, <1>2, <1>3, <1>4, <1>5 DEF Inv

(* A worker lets go of a run it has nothing to do for any more. *)
LEMMA AckStep ==
  ASSUME Inv, NEW w \in Workers, Ack(w)
  PROVE  Inv'
  <1> USE NamesAssumption, BoundsAssumption, TaskFacts
  <1> USE DEF rows, outboxVars, dispatch, broker, worker, Ack, Release, Step
  <1>a. Run(w) \in Runs
    BY HasRun
  <1>1. TypeOK'
    BY <1>a DEF Inv, TypeOK, Places, Statuses, Over, Run, NoTask, Inline, Tasks
  <1>2. Places'
    BY <1>a DEF Inv, TypeOK, Places
  <1>3. SentWasTaken' /\ PublishedWasTaken'
    BY <1>a DEF Inv, TypeOK, SentWasTaken, PublishedWasTaken
  <1>4. CompletedHasResult'
    BY <1>a DEF Inv, TypeOK, CompletedHasResult
  <1>5. Pursued'
    BY <1>a DEF Inv, TypeOK, Places, Pursued, Waiting, InHand, HasInHand, Settled, Run, Over
  <1>6. QED
    BY <1>1, <1>2, <1>3, <1>4, <1>5 DEF Inv

(* Another try waits in the queue, or the run is cut off for good. *)
LEMMA RetryStep ==
  ASSUME Inv, NEW w \in Workers, Retry(w)
  PROVE  Inv'
  <1> USE NamesAssumption, BoundsAssumption, TaskFacts
  <1> USE DEF rows, outboxVars, dispatch, broker, worker, Retry, RetriesLeft, Enqueue, Release, Step
  <1>a. Run(w) \in Runs
    BY HasRun
  <1>b. RetriesLeft(w) => <<Run(w), task[w][2] + 1>> \in Tasks
    <2>1. task[w] \in Runs \X (0..Inline)
      BY DEF Inv, TypeOK, Places
    <2>2. QED
      BY <1>a, <2>1 DEF Tasks, Inline, Run
  <1>c. ASSUME RetriesLeft(w)
        PROVE  \E t \in Tasks : /\ t[1] = Run(w) /\ queue' = [queue EXCEPT ![t] = @ + 1]
                                /\ taken' = taken \cup {Run(w)} /\ cut' = cut
    <2> DEFINE t == <<Run(w), task[w][2] + 1>>
    <2>1. t \in Tasks /\ t[1] = Run(w)
      BY <1>b, <1>c
    <2>2. queue' = [queue EXCEPT ![t] = @ + 1] /\ taken' = taken \cup {t[1]} /\ cut' = cut
      BY <1>c
    <2> HIDE DEF t
    <2>3. QED
      BY <2>1, <2>2
  <1>1. TypeOK'
    <2>1. queue' \in [Tasks -> Nat] /\ taken' \subseteq Runs /\ cut' \subseteq Runs
      <3>1. CASE RetriesLeft(w)
        BY <1>a, <1>c, <3>1 DEF Inv, TypeOK
      <3>2. CASE ~RetriesLeft(w)
        BY <1>a, <3>2 DEF Inv, TypeOK
      <3>3. QED
        BY <3>1, <3>2
    <2>2. QED
      BY <1>a, <2>1 DEF Inv, TypeOK
  <1>2. Places'
    BY <1>a DEF Inv, TypeOK, Places
  <1>3. SentWasTaken' /\ PublishedWasTaken'
    BY <1>a DEF Inv, TypeOK, SentWasTaken, PublishedWasTaken
  <1>4. CompletedHasResult'
    BY <1>a DEF Inv, TypeOK, CompletedHasResult
  <1>5. Pursued'
    <2>1. CASE RetriesLeft(w)
      <3>0. PICK t \in Tasks : /\ t[1] = Run(w) /\ queue' = [queue EXCEPT ![t] = @ + 1]
                               /\ taken' = taken \cup {Run(w)} /\ cut' = cut
        BY <1>c, <2>1
      <3>1. queue'[t] > 0 /\ \A u \in Tasks : queue[u] > 0 => queue'[u] > 0
        BY <3>0 DEF Inv, TypeOK
      <3>2. \A r : r = Run(w) => Waiting(r)'
        BY <3>0, <3>1 DEF Waiting
      <3>3. \A r : Waiting(r) => Waiting(r)'
        BY <3>1 DEF Waiting
      <3>4. \A r : InHand(r) => InHand(r)' \/ r = Run(w)
        BY DEF Inv, TypeOK, InHand, HasInHand, Run
      <3>5. \A r : Settled(r) <=> Settled(r)'
        BY DEF Settled
      <3>6. QED
        BY <3>0, <3>2, <3>3, <3>4, <3>5 DEF Inv, Pursued
    <2>2. CASE ~RetriesLeft(w)
      <3>1. task[w][2] >= MaxRetries
        BY <2>2 DEF Inv, TypeOK, Places, Inline
      <3>2. cut' = cut \cup {Run(w)} /\ UNCHANGED <<queue, taken>>
        BY <2>2, <3>1
      <3>3. \A r : InHand(r) => InHand(r)' \/ r = Run(w)
        BY DEF Inv, TypeOK, InHand, HasInHand, Run
      <3>4. QED
        BY <3>2, <3>3 DEF Inv, Pursued, Settled, Waiting
    <2>3. QED
      BY <2>1, <2>2
  <1>6. QED
    BY <1>1, <1>2, <1>3, <1>4, <1>5 DEF Inv

(* A try that cannot be sent cuts the run off. *)
LEMMA RetryFailsStep ==
  ASSUME Inv, NEW w \in Workers, RetryFails(w)
  PROVE  Inv'
  <1> USE NamesAssumption, BoundsAssumption, TaskFacts
  <1> USE DEF rows, outboxVars, dispatch, broker, worker, RetryFails, Release, Step, Fault
  <1>a. Run(w) \in Runs
    BY HasRun
  <1>1. TypeOK'
    BY <1>a DEF Inv, TypeOK, Places, Statuses, Over, Run, NoTask, Inline, Tasks
  <1>2. Places'
    BY <1>a DEF Inv, TypeOK, Places
  <1>3. SentWasTaken' /\ PublishedWasTaken'
    BY <1>a DEF Inv, TypeOK, SentWasTaken, PublishedWasTaken
  <1>4. CompletedHasResult'
    BY <1>a DEF Inv, TypeOK, CompletedHasResult
  <1>5. Pursued'
    BY <1>a DEF Inv, TypeOK, Places, Pursued, Waiting, InHand, HasInHand, Settled, Run, Over
  <1>6. QED
    BY <1>1, <1>2, <1>3, <1>4, <1>5 DEF Inv

(* The task of a lost worker comes back, or another has its run, or it is cut off. *)
LEMMA CrashStep ==
  ASSUME Inv, NEW w \in Workers, Crash(w)
  PROVE  Inv'
  <1> USE NamesAssumption, BoundsAssumption, TaskFacts
  <1> USE DEF rows, outboxVars, dispatch, broker, worker, Crash, Forget, Release, Step, Fault
  <1>a. Run(w) \in Runs
    BY HasRun
  <1>1. TypeOK'
    BY <1>a DEF Inv, TypeOK, Places, Statuses, Over, Run, NoTask, Inline, Tasks
  <1>2. Places'
    BY <1>a DEF Inv, TypeOK, Places
  <1>3. SentWasTaken' /\ PublishedWasTaken'
    BY <1>a DEF Inv, TypeOK, SentWasTaken, PublishedWasTaken
  <1>4. CompletedHasResult'
    BY <1>a DEF Inv, TypeOK, CompletedHasResult
  <1>5. Pursued'
    BY <1>a DEF Inv, TypeOK, Places, Pursued, Waiting, InHand, HasInHand, Settled, Run, Over
  <1>6. QED
    BY <1>1, <1>2, <1>3, <1>4, <1>5 DEF Inv

(* The second delivery of a task waits in the queue. *)
LEMMA DeliverAgainStep ==
  ASSUME Inv, NEW w \in Workers, DeliverAgain(w)
  PROVE  Inv'
  <1> USE NamesAssumption, BoundsAssumption, TaskFacts
  <1> USE DEF rows, outboxVars, dispatch, broker, worker, DeliverAgain, Fault
  <1>b. task[w] \in Tasks /\ pc[w] # "idle"
    BY DEF Inv, Places
  <1>a. Run(w) \in Runs
    BY <1>b, HasRun
  <1>1. TypeOK'
    BY <1>a DEF Inv, TypeOK, Places, Statuses, Over, Run, NoTask, Inline, Tasks
  <1>2. Places'
    BY <1>a DEF Inv, TypeOK, Places
  <1>3. SentWasTaken' /\ PublishedWasTaken'
    BY <1>a DEF Inv, TypeOK, SentWasTaken, PublishedWasTaken
  <1>4. CompletedHasResult'
    BY <1>a DEF Inv, TypeOK, CompletedHasResult
  <1>5. Pursued'
    BY <1>a DEF Inv, TypeOK, Places, Pursued, Waiting, InHand, HasInHand, Settled, Run, Over
  <1>6. QED
    BY <1>1, <1>2, <1>3, <1>4, <1>5 DEF Inv

LEMMA NextInv == Inv /\ [Next]_vars => Inv'
  <1> SUFFICES ASSUME Inv, [Next]_vars PROVE Inv'
    OBVIOUS
  <1>1. ASSUME NEW r \in Runs, Create(r) \/ \E w \in Workers : CreateAndWait(w, r) PROVE Inv'
    BY <1>1, CreateStep, CreateAndWaitStep
  <1>2. ASSUME NEW d \in Dispatchers, Dispatch(d) \/ SendFails(d) \/ AbortDispatch(d) PROVE Inv'
    BY <1>2, ReadOutboxStep, SendStep, SendFailsStep, CommitDispatchStep, AbortDispatchStep
    DEF Dispatch
  <1>3. ASSUME NEW w \in Workers, Work(w) PROVE Inv'
    BY <1>3, LoadStep, LoadJobStep, MarkStep, ConnectStep, CompleteStep, FailStep, RetryStep,
       AckStep DEF Work
  <1>4. ASSUME NEW w \in Workers, Faults(w) PROVE Inv'
    BY <1>4, MarkFailsStep, CompleteFailsStep, FailFailsStep, RetryFailsStep, CrashStep,
       DeliverAgainStep DEF Faults
  <1>5. ASSUME NEW w \in Workers, NEW t \in Tasks, Deliver(w, t) PROVE Inv'
    BY <1>5, DeliverStep
  <1>6. CASE UNCHANGED vars
    BY <1>6 DEF vars, rows, outboxVars, dispatch, broker, worker, Inv, TypeOK, Places,
       SentWasTaken, PublishedWasTaken, CompletedHasResult, Pursued, Waiting, InHand, HasInHand,
       Settled, Run
  <1>7. QED
    BY <1>1, <1>2, <1>3, <1>4, <1>5, <1>6 DEF Next

(* The inductive invariant holds in every reachable state. *)
THEOREM InvHolds == Spec => []Inv
  BY InitInv, NextInv, PTL DEF Spec

(* Type correctness: run and job read only what the code writes there. *)
THEOREM TypeCorrect == Spec => []TypeOK
  <1>1. Inv => TypeOK
    BY DEF Inv
  <1>2. QED
    BY <1>1, InvHolds, PTL

(* No event is marked as published that the broker did not take, however   *)
(* many dispatches overlap and whatever fails in them.                     *)
THEOREM NothingIsLost == Spec => []PublishedWasTaken
  <1>1. Inv => PublishedWasTaken
    BY DEF Inv
  <1>2. QED
    BY <1>1, InvHolds, PTL

(* A run reads completed only with its result. *)
THEOREM ResultIsThere == Spec => []CompletedHasResult
  <1>1. Inv => CompletedHasResult
    BY DEF Inv
  <1>2. QED
    BY <1>1, InvHolds, PTL

(* What the outbox marks was taken, and what is completed has its result. *)
THEOREM OutboxIsSafe == Spec => []OutboxSafety
  BY NothingIsLost, ResultIsThere, PTL DEF OutboxSafety

(* Where workers can read the runs, run and job of a published event end   *)
(* alike, however many executions overlapped.                              *)
THEOREM EndsAlike ==
  ASSUME ~RowSecurity
  PROVE  Spec => []SettledAtRest
  <1>1. ASSUME Inv, NEW r \in published \ cut, AtRest(r)
        PROVE  status[r] \in Over /\ job[r] = status[r]
    <2>1. ~Waiting(r)
      BY <1>1 DEF AtRest, Waiting, Inv, TypeOK
    <2>2. ~InHand(r)
      BY <1>1 DEF AtRest, InHand
    <2>3. QED
      BY <1>1, <2>1, <2>2 DEF Inv, PublishedWasTaken, Pursued, Settled
  <1>2. Inv => SettledAtRest
    BY <1>1 DEF SettledAtRest
  <1>3. QED
    BY <1>2, InvHolds, PTL
=============================================================================
