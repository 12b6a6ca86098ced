-------------------------- MODULE ApplicationProofs --------------------------
(* The pages of the application for any number of runs, records and requests *)
(* and any answers: the invariant of each page, and that of the application.  *)
EXTENDS MCApplication, Folding

(***************************************************************************)
(* The inductive invariant: what is true of a request on its way makes the *)
(* promises of follow() last until it ends.                                *)
(***************************************************************************)
\* A POST is sent without an identifier and before any run was created; what
\* follows it is about a run that is known.
PhaseFits ==
    /\ phase = "post" => runId = NoRun /\ ~existing
    /\ phase = "post" /\ answer = NoAnswer => created = {}
    /\ phase \in {"get", "pause"} => runId # NoRun

\* A POST is answered with a run it created, and a result is that of a run that
\* the server completed.
AnswerFits ==
    /\ phase = "post" /\ answer.id # NoRun => answer.id \in created
    /\ answer.data /\ answer.id # NoRun => server[answer.id] = "completed"

\* One run is created, none for an identifier that was given, and the identifier
\* that is known is that of the run.
CreatedFits ==
    /\ created = {} \/ \E r \in Runs : created = {r}
    /\ existing => created = {}
    /\ runId # NoRun /\ ~existing => runId \in created

\* A result is of a run, and stopping is never a result.
OutcomeFits ==
    /\ outcome.code = "completed" => outcome.runId # NoRun
    /\ reason.code # "completed"

JobInv == JobTypeOK /\ PhaseFits /\ AnswerFits /\ CreatedFits /\ OutcomeFits
          /\ ResultIsTheRuns /\ ErrorNamesTheRun

LEMMA JobInitInv == JobInit => JobInv
  <1> SUFFICES ASSUME JobInit PROVE JobInv
    OBVIOUS
  <1>1. NoAnswer \in Answers /\ NoOutcome \in Outcomes
    BY DEF NoAnswer, Answers, NoOutcome, Outcomes
  <1>2. JobTypeOK
    BY <1>1 DEF JobInit, JobTypeOK, Pending, Finished
  <1>3. PhaseFits /\ AnswerFits /\ CreatedFits
    BY DEF JobInit, PhaseFits, AnswerFits, CreatedFits, NoAnswer
  <1>4. OutcomeFits /\ ResultIsTheRuns /\ ErrorNamesTheRun
    BY DEF JobInit, OutcomeFits, ResultIsTheRuns, ErrorNamesTheRun, NoOutcome
  <1>5. QED
    BY <1>2, <1>3, <1>4 DEF JobInv

(* What the server completed stays completed. *)
LEMMA ServerStep ==
  ASSUME JobInv, NEW r \in Runs, ServerWorks(r)
  PROVE  JobInv'
  <1> USE RunsAssumption DEF JobInv, ServerWorks, Pending, Finished
  <1>1. JobTypeOK'
    BY DEF JobTypeOK
  <1>2. \A q \in Runs : server[q] = "completed" => server'[q] = "completed"
    BY DEF JobTypeOK
  <1>3. answer.id \in Runs \cup {NoRun} /\ outcome.runId \in Runs \cup {NoRun}
    BY DEF JobTypeOK, Answers, Outcomes
  <1>4. AnswerFits' /\ ResultIsTheRuns'
    BY <1>2, <1>3 DEF AnswerFits, ResultIsTheRuns, OutcomeFits
  <1>5. PhaseFits' /\ CreatedFits' /\ OutcomeFits' /\ ErrorNamesTheRun'
    BY DEF PhaseFits, CreatedFits, OutcomeFits, ErrorNamesTheRun
  <1>6. QED
    BY <1>1, <1>4, <1>5

(* A POST that is carried out creates the first run of this follow(). *)
LEMMA PostStep ==
  ASSUME JobInv, AnswerPost
  PROVE  JobInv'
  <1> USE RunsAssumption DEF JobInv
  <1>1. CASE \E s \in {"error", "approval_required"} :
               answer' = [NoAnswer EXCEPT !.status = s] /\ UNCHANGED <<server, created>>
    BY <1>1 DEF AnswerPost, JobTypeOK, PhaseFits, AnswerFits, CreatedFits, OutcomeFits,
                ResultIsTheRuns, ErrorNamesTheRun, NoAnswer, Answers
  <1>2. CASE \E r \in Runs, s \in {"queued", "completed", "failed"} :
               /\ server[r] = "none"
               /\ server' = [server EXCEPT ![r] = s]
               /\ created' = created \cup {r}
               /\ answer' \in {[status |-> s, id |-> r, data |-> s = "completed"],
                               [status |-> "unknown", id |-> r, data |-> FALSE],
                               [status |-> s, id |-> NoRun, data |-> FALSE],
                               [NoAnswer EXCEPT !.status = "error"]}
    <2>1. PICK r \in Runs, s \in {"queued", "completed", "failed"} :
               /\ server[r] = "none"
               /\ server' = [server EXCEPT ![r] = s]
               /\ created' = created \cup {r}
               /\ answer' \in {[status |-> s, id |-> r, data |-> s = "completed"],
                               [status |-> "unknown", id |-> r, data |-> FALSE],
                               [status |-> s, id |-> NoRun, data |-> FALSE],
                               [NoAnswer EXCEPT !.status = "error"]}
      BY <1>2
    <2>2. created' = {r}
      BY <2>1 DEF AnswerPost, PhaseFits
    <2>3. \A q \in Runs : server[q] = "completed" => server'[q] = "completed"
      BY <2>1 DEF JobTypeOK
    <2>4. server'[r] = s
      BY <2>1 DEF JobTypeOK
    <2>5. JobTypeOK'
      <3>1. answer' \in Answers
        <4>1. (s = "completed") \in BOOLEAN
          OBVIOUS
        <4>2. CASE answer' = [status |-> s, id |-> r, data |-> s = "completed"]
          BY <4>1, <4>2 DEF Answers, Pending, Finished
        <4>3. CASE answer' = [status |-> "unknown", id |-> r, data |-> FALSE]
          BY <4>3 DEF Answers
        <4>4. CASE answer' = [status |-> s, id |-> NoRun, data |-> FALSE]
          BY <4>4 DEF Answers, Pending, Finished
        <4>5. CASE answer' = [NoAnswer EXCEPT !.status = "error"]
          BY <4>5 DEF Answers, NoAnswer
        <4>6. QED
          BY <2>1, <4>2, <4>3, <4>4, <4>5
      <3>2. server' \in [Runs -> Pending \cup Finished \cup {"none"}]
        BY <2>1 DEF JobTypeOK, Pending, Finished
      <3>3. QED
        BY <2>2, <3>1, <3>2 DEF AnswerPost, JobTypeOK
    <2>6. AnswerFits'
      <3>1. answer'.id \in {r, NoRun}
        BY <2>1 DEF NoAnswer
      <3>2. answer'.data => s = "completed"
        <4>1. CASE answer' = [status |-> s, id |-> r, data |-> s = "completed"]
          BY <4>1
        <4>2. CASE answer' \in {[status |-> "unknown", id |-> r, data |-> FALSE],
                                [status |-> s, id |-> NoRun, data |-> FALSE],
                                [NoAnswer EXCEPT !.status = "error"]}
          <5>1. answer'.data = FALSE
            BY <4>2 DEF NoAnswer
          <5>2. QED
            BY <5>1
        <4>3. QED
          BY <2>1, <4>1, <4>2
      <3>3. QED
        BY <2>2, <2>4, <3>1, <3>2 DEF AnswerFits
    <2>7. PhaseFits' /\ CreatedFits'
      BY <2>1, <2>2 DEF AnswerPost, PhaseFits, CreatedFits, NoAnswer
    <2>8. ResultIsTheRuns'
      BY <2>1, <2>3 DEF AnswerPost, ResultIsTheRuns, OutcomeFits, JobTypeOK, Outcomes
    <2>9. OutcomeFits' /\ ErrorNamesTheRun'
      BY DEF AnswerPost, OutcomeFits, ErrorNamesTheRun
    <2>10. QED
      BY <2>5, <2>6, <2>7, <2>8, <2>9
  <1>3. QED
    BY <1>1, <1>2 DEF AnswerPost

(* A GET changes nothing on the server, and brings a result only of a run that *)
(* is completed there.                                                        *)
LEMMA GetStep ==
  ASSUME JobInv, AnswerGet
  PROVE  JobInv'
  <1> USE RunsAssumption DEF JobInv
  <1>1. phase = "get" /\ runId \in Runs
    BY DEF AnswerGet, PhaseFits, JobTypeOK
  <1>2. server[runId] \in Pending \cup Finished \cup {"none"}
    BY <1>1 DEF JobTypeOK
  <1>3. /\ answer' \in Answers
        /\ answer'.data /\ answer'.id # NoRun => server[answer'.id] = "completed"
    <2>1. CASE answer' = [status |-> server[runId], id |-> runId,
                          data |-> server[runId] = "completed"]
      <3>1. (server[runId] = "completed") \in BOOLEAN
        OBVIOUS
      <3>2. answer' \in Answers
        BY <1>1, <1>2, <2>1, <3>1 DEF Answers, Pending, Finished
      <3>3. answer'.data => server[answer'.id] = "completed"
        BY <2>1
      <3>4. QED
        BY <3>2, <3>3
    <2>2. CASE answer' \in {[status |-> "unknown", id |-> runId, data |-> FALSE],
                            [status |-> "completed", id |-> runId, data |-> FALSE],
                            [NoAnswer EXCEPT !.status = "error"]}
      <3>1. answer'.data = FALSE
        BY <2>2 DEF NoAnswer
      <3>2. answer' \in Answers
        <4>1. CASE answer' = [status |-> "unknown", id |-> runId, data |-> FALSE]
          BY <1>1, <4>1 DEF Answers
        <4>2. CASE answer' = [status |-> "completed", id |-> runId, data |-> FALSE]
          BY <1>1, <4>2 DEF Answers, Finished
        <4>3. CASE answer' = [NoAnswer EXCEPT !.status = "error"]
          BY <4>3 DEF Answers, NoAnswer
        <4>4. QED
          BY <2>2, <4>1, <4>2, <4>3
      <3>3. QED
        BY <3>1, <3>2
    <2>3. ASSUME NEW r \in Runs, server[r] = "completed",
                 answer' = [status |-> "completed", id |-> r, data |-> TRUE]
          PROVE  answer' \in Answers /\ server[answer'.id] = "completed"
      BY <2>3 DEF Answers, Finished
    <2>4. QED
      BY <2>1, <2>2, <2>3 DEF AnswerGet
  <1>5. JobTypeOK'
    BY <1>3 DEF AnswerGet, JobTypeOK
  <1>6. AnswerFits'
    BY <1>1, <1>3 DEF AnswerGet, AnswerFits
  <1>7. PhaseFits' /\ CreatedFits' /\ OutcomeFits' /\ ResultIsTheRuns' /\ ErrorNamesTheRun'
    BY <1>1 DEF AnswerGet, PhaseFits, CreatedFits, OutcomeFits, ResultIsTheRuns, ErrorNamesTheRun
  <1>8. QED
    BY <1>5, <1>6, <1>7

(* A call that is refused, or made with a signal already aborted, has created *)
(* nothing; one that begins knows what it was given.                          *)
LEMMA CallStep ==
  ASSUME JobInv,
         RefuseCall \/ \E aborted \in BOOLEAN, id \in Runs \cup {NoRun} : Follow(id, aborted)
  PROVE  JobInv'
  <1> USE RunsAssumption DEF JobInv
  <1>1. CASE RefuseCall
    BY <1>1 DEF RefuseCall, End, JobTypeOK, PhaseFits, AnswerFits, CreatedFits, OutcomeFits,
                ResultIsTheRuns, ErrorNamesTheRun, NoAnswer, NoOutcome, Answers, Outcomes, Codes
  <1>2. ASSUME NEW aborted \in BOOLEAN, NEW id \in Runs \cup {NoRun}, Follow(id, aborted)
        PROVE  JobInv'
    <2>1. /\ phase' \in {"idle", "post", "get"} /\ runId' = id /\ existing' = (id # NoRun)
          /\ answer' = NoAnswer /\ created' = {} /\ UNCHANGED <<server, reported>>
      BY <1>2 DEF Follow, End
    <2>2. /\ phase' = "post" => id = NoRun
          /\ phase' = "get" => id # NoRun
      BY <1>2 DEF Follow, End
    <2>3. reason' \in Outcomes /\ outcome' \in Outcomes /\ told' \in Runs \cup {NoRun}
      <3>1. MakeError("ABORTED", id) \in Outcomes /\ NoOutcome \in Outcomes
        BY DEF MakeError, NoOutcome, Outcomes, Codes
      <3>2. QED
        BY <1>2, <3>1 DEF Follow, End
    <2>4. /\ outcome'.code # "completed" /\ reason'.code # "completed"
          /\ phase' = "idle" => outcome'.runId = id
          /\ reason' # NoOutcome => reason'.runId = id
      BY <1>2 DEF Follow, End, MakeError, NoOutcome
    <2>5. JobTypeOK'
      BY <2>1, <2>3 DEF JobTypeOK, NoAnswer, Answers
    <2>6. PhaseFits' /\ CreatedFits'
      BY <2>1, <2>2 DEF PhaseFits, CreatedFits
    <2>7. AnswerFits' /\ OutcomeFits' /\ ResultIsTheRuns' /\ ErrorNamesTheRun'
      BY <2>1, <2>4 DEF AnswerFits, OutcomeFits, ResultIsTheRuns, ErrorNamesTheRun, NoAnswer
    <2>8. QED
      BY <2>5, <2>6, <2>7
  <1>3. QED
    BY <1>1, <1>2

(* The error of the timer or of the caller names what is known when it is made, *)
(* and ends the call before anything more is learned.                          *)
LEMMA StopStep ==
  ASSUME JobInv, Abort("TIMEOUT") \/ Abort("ABORTED") \/ Stopped
  PROVE  JobInv'
  <1> USE RunsAssumption DEF JobInv
  <1>1. CASE Abort("TIMEOUT") \/ Abort("ABORTED")
    BY <1>1 DEF Abort, MakeError, NamedRun, JobTypeOK, PhaseFits, AnswerFits, CreatedFits,
                OutcomeFits, ResultIsTheRuns, ErrorNamesTheRun, NoOutcome, Outcomes, Codes
  <1>2. CASE Stopped
    BY <1>2 DEF Stopped, CheckAbort, End, JobTypeOK, PhaseFits, AnswerFits, CreatedFits,
                OutcomeFits, ResultIsTheRuns, ErrorNamesTheRun, NoAnswer, Answers
  <1>3. QED
    BY <1>1, <1>2

(* What inspect() makes of an answer is one of the codes or a status that goes on. *)
LEMMA VerdictFacts ==
  ASSUME NEW a \in Answers
  PROVE  /\ Verdict(a) \in Codes \cup {"none", "completed"} \cup Pending
         /\ Verdict(a) = "completed" => a.data /\ TakesId(a)
         /\ Verdict(a) \in Pending \cup {"EXECUTION_FAILED", "EXECUTION_CANCELLED"} => TakesId(a)
  <1> USE DEF Answers, Pending, Finished, TakesId, UnknownStatus
  <1>1. CASE a.status \in {"error", "approval_required"} \/ a.id = NoRun \/ ~SameRun(a)
    <2>1. Verdict(a) \in {"REQUEST_FAILED", "APPROVAL_REQUIRED", "INVALID_RESPONSE"}
      BY <1>1 DEF Verdict
    <2>2. QED
      BY <2>1 DEF Codes
  <1>2. CASE a.status \notin {"error", "approval_required"} /\ a.id # NoRun /\ SameRun(a)
    BY <1>2 DEF Verdict, Codes
  <1>3. QED
    BY <1>1, <1>2

(* An answer that is taken is of the run that is known, and a POST that is taken *)
(* makes its run known.                                                         *)
LEMMA InspectStep ==
  ASSUME JobInv, Inspect
  PROVE  JobInv'
  <1> USE RunsAssumption DEF JobInv
  <1> DEFINE v == Verdict(answer)
             id == KnownId(answer)
  <1>1. /\ phase \in {"post", "get"} /\ reason = NoOutcome
        /\ runId' = id /\ answer' = NoAnswer
        /\ UNCHANGED <<server, existing, reason, created>>
    BY DEF Inspect, GoesOn
  <1>2. /\ v \in Codes \cup {"none", "completed"} \cup Pending
        /\ v = "completed" => answer.data /\ TakesId(answer)
        /\ v \in Pending \cup {"EXECUTION_FAILED", "EXECUTION_CANCELLED"} => TakesId(answer)
    BY VerdictFacts DEF JobTypeOK
  <1>3. \/ v \in Pending /\ phase' \in {"get", "pause"} /\ outcome' = outcome
        \/ v \notin Pending /\ phase' = "idle" /\ outcome' = [code |-> v, runId |-> id]
    BY DEF Inspect, End, MakeError
  <1>4. id \in Runs \cup {NoRun} /\ answer.id \in Runs \cup {NoRun}
    BY DEF KnownId, JobTypeOK, Answers
  <1>5. TakesId(answer) => id = answer.id /\ id # NoRun
    BY DEF KnownId, TakesId
  <1>6. id # NoRun /\ ~existing => id \in created
    BY <1>1 DEF KnownId, TakesId, SameRun, PhaseFits, AnswerFits, CreatedFits
  <1>7. JobTypeOK'
    <2>1. told' \in Runs \cup {NoRun}
      BY <1>4 DEF Inspect, Progress, JobTypeOK
    <2>2. reported' \subseteq Runs
      <3>1. v \in {"completed", "EXECUTION_FAILED", "EXECUTION_CANCELLED"} => id \in Runs
        BY <1>2, <1>4, <1>5
      <3>2. QED
        BY <3>1 DEF Inspect, JobTypeOK
    <2>3. outcome' \in Outcomes
      BY <1>2, <1>3, <1>4 DEF Outcomes, JobTypeOK
    <2>4. phase' \in {"idle", "post", "get", "pause"} /\ answer' \in Answers
      BY <1>1, <1>3 DEF NoAnswer, Answers
    <2>5. QED
      BY <1>1, <1>4, <2>1, <2>2, <2>3, <2>4 DEF JobTypeOK
  <1>8. PhaseFits'
    BY <1>1, <1>2, <1>3, <1>5 DEF PhaseFits
  <1>9. AnswerFits' /\ CreatedFits'
    BY <1>1, <1>6 DEF AnswerFits, CreatedFits, NoAnswer
  <1>10. OutcomeFits' /\ ResultIsTheRuns'
    BY <1>1, <1>2, <1>3, <1>5, <1>6 DEF OutcomeFits, ResultIsTheRuns, AnswerFits
  <1>11. ErrorNamesTheRun'
    BY <1>1, <1>3 DEF ErrorNamesTheRun
  <1>12. QED
    BY <1>7, <1>8, <1>9, <1>10, <1>11

LEMMA PauseStep ==
  ASSUME JobInv, PauseOver
  PROVE  JobInv'
  BY DEF JobInv, PauseOver, AfterPause, JobTypeOK, PhaseFits, AnswerFits, CreatedFits,
         OutcomeFits, ResultIsTheRuns, ErrorNamesTheRun

LEMMA JobNextInv == JobInv /\ [JobNext]_jobVars => JobInv'
  <1> SUFFICES ASSUME JobInv, [JobNext]_jobVars PROVE JobInv'
    OBVIOUS
  <1>1. CASE \E r \in Runs : ServerWorks(r)
    BY <1>1, ServerStep
  <1>2. CASE AnswerPost
    BY <1>2, PostStep
  <1>3. CASE AnswerGet
    BY <1>3, GetStep
  <1>4. CASE Abort("TIMEOUT") \/ Abort("ABORTED") \/ Stopped
    BY <1>4, StopStep
  <1>5. CASE Inspect
    BY <1>5, InspectStep
  <1>6. CASE PauseOver
    BY <1>6, PauseStep
  <1>7. CASE RefuseCall \/ \E aborted \in BOOLEAN, id \in Runs \cup {NoRun} : Follow(id, aborted)
    BY <1>7, CallStep
  <1>8. CASE UNCHANGED jobVars
    BY <1>8 DEF jobVars, JobInv, JobTypeOK, PhaseFits, AnswerFits, CreatedFits,
                OutcomeFits, ResultIsTheRuns, ErrorNamesTheRun
  <1>9. QED
    BY <1>1, <1>2, <1>3, <1>4, <1>5, <1>6, <1>7, <1>8 DEF JobNext, FollowStep

(* The cardinality that the promise speaks of. *)
LEMMA OneAtMost == CreatedFits => SubmitsOnce
  <1> SUFFICES ASSUME CreatedFits PROVE SubmitsOnce
    OBVIOUS
  <1>1. CASE created = {}
    BY <1>1, FS_EmptySet DEF SubmitsOnce
  <1>2. CASE \E r \in Runs : created = {r}
    BY <1>2, FS_Singleton DEF SubmitsOnce, CreatedFits
  <1>3. QED
    BY <1>1, <1>2 DEF CreatedFits

(*****************************************************************************)
(* The panels that follow an execution.                                      *)
(*****************************************************************************)
\* A run that is known is on the server, and one that is followed, or may be
\* followed again, has not been told to be over.
RunOpen ==
    /\ \A r \in reported \cup created : server[r] # "none"
    /\ runId # NoRun => server[runId] # "none"
    /\ phase # "idle" \/ outcome.code \in Resumable => runId \notin reported
    /\ phase = "post" => \A r \in created : r \notin reported
    /\ told \in {NoRun, runId}

\* The runs of a query, the one that is kept and those created, are of its kind.
QueryFits ==
    /\ RunOpen
    /\ ~qLoading => phase = "idle"
    /\ qRun \in Runs \cup {NoRun}
    /\ qRun # NoRun => server[qRun] # "none" /\ ranKind[qRun] = qKind /\ qRun \notin reported \ {runId}
    /\ ~qLoading => qRun \notin reported
    /\ qLoading => /\ runId # NoRun => ranKind[runId] = qKind
                   /\ \A r \in created : ranKind[r] = qKind
    /\ ResultFitsKind

TransFits ==
    /\ RunOpen
    /\ ~tBusy => phase = "idle"
    /\ tResume => ~tBusy /\ tRun \in Runs /\ tRun \notin reported /\ server[tRun] # "none"

LEMMA ServerKnows ==
  ASSUME JobInv, NEW r \in Runs, ServerWorks(r)
  PROVE  /\ UNCHANGED <<phase, runId, existing, outcome, told, created, reported>>
         /\ \A q \in Runs : server[q] # "none" => server'[q] # "none"
         /\ JobInv'
  BY ServerStep DEF ServerWorks, Pending, Finished, JobInv, JobTypeOK

LEMMA ServerOpen ==
  ASSUME JobInv, RunOpen, NEW r \in Runs, ServerWorks(r)
  PROVE  RunOpen'
  BY ServerKnows, RunsAssumption DEF RunOpen, JobInv, JobTypeOK

(* What a step of follow() leaves: a run that becomes known is one it created, *)
(* a run whose end is told is the one it is about, and it goes on no more.     *)
LEMMA FollowLearns ==
  ASSUME JobInv, RunOpen, FollowStep
  PROVE  /\ JobInv' /\ RunOpen'
         /\ \A q \in Runs : server[q] # "none" => server'[q] # "none"
         /\ runId' = runId \/ (runId = NoRun /\ runId' \in created)
         /\ reported' \subseteq reported \cup {runId'}
         /\ \A r \in created' \ created : server[r] = "none"
         /\ created \subseteq created'
  <1> USE RunsAssumption
  <1>1. JobInv'
    BY JobNextInv DEF JobNext
  <1>2. CASE AnswerPost
    <2>1. /\ phase = "post" /\ runId = NoRun
          /\ UNCHANGED <<phase, runId, existing, reason, outcome, told, reported>>
      BY <1>2 DEF AnswerPost, JobInv, PhaseFits
    <2>2. \/ UNCHANGED <<server, created>>
          \/ \E r \in Runs, s \in {"queued", "completed", "failed"} :
                /\ server[r] = "none" /\ server' = [server EXCEPT ![r] = s]
                /\ created' = created \cup {r}
      BY <1>2 DEF AnswerPost
    <2>3. /\ \A q \in Runs : server[q] # "none" => server'[q] # "none"
          /\ \A r \in created' \ created : server[r] = "none" /\ r \in Runs /\ server'[r] # "none"
          /\ created \subseteq created'
      BY <2>2 DEF JobInv, JobTypeOK
    <2>4. RunOpen'
      BY <2>1, <2>3 DEF RunOpen, JobInv, JobTypeOK
    <2> QED
      BY <1>1, <2>1, <2>3, <2>4
  <1>3. CASE AnswerGet \/ Abort("TIMEOUT") \/ PauseOver
    <2>1. /\ UNCHANGED <<server, runId, existing, outcome, told, created, reported>>
          /\ phase # "idle" /\ phase' # "idle" /\ (phase' = "post" => phase = "post")
      BY <1>3 DEF AnswerGet, Abort, PauseOver, AfterPause, JobInv
    <2>2. RunOpen'
      BY <2>1 DEF RunOpen
    <2> QED
      BY <1>1, <2>1, <2>2
  <1>4. CASE Stopped
    <2>1. UNCHANGED <<server, runId, existing, told, created, reported>> /\ phase # "idle" /\ phase' = "idle"
      BY <1>4 DEF Stopped, HeedsSignal, End
    <2>2. RunOpen'
      BY <2>1 DEF RunOpen
    <2> QED
      BY <1>1, <2>1, <2>2
  <1>5. CASE Inspect
    <2> DEFINE v == Verdict(answer)
               id == KnownId(answer)
    <2>1. /\ phase \in {"post", "get"} /\ runId' = id /\ UNCHANGED <<server, existing, created>>
          /\ told' \in {told, id}
          /\ reported' = reported \cup
                (IF v \in {"completed", "EXECUTION_FAILED", "EXECUTION_CANCELLED"} THEN {id} ELSE {})
          /\ \/ v \in Pending
             \/ v \notin Pending /\ phase' = "idle" /\ outcome'.code = v
      BY <1>5 DEF Inspect, Progress, End, MakeError
    <2>2. id = runId \/ (runId = NoRun /\ id \in created)
      BY <2>1 DEF KnownId, TakesId, SameRun, JobInv, PhaseFits, AnswerFits
    <2>3. id # NoRun => server[id] # "none"
      BY <2>2 DEF RunOpen
    <2>4. v \in {"completed", "EXECUTION_FAILED", "EXECUTION_CANCELLED"} => id # NoRun
      BY VerdictFacts DEF KnownId, TakesId, JobInv, JobTypeOK
    <2>5. id \notin reported
      <3>1. runId \notin reported
        BY <2>1 DEF RunOpen
      <3>2. id \in created /\ runId = NoRun => phase = "post"
        BY <2>1 DEF JobInv, PhaseFits
      <3> QED
        BY <2>2, <3>1, <3>2 DEF RunOpen
    <2>6. phase' = "idle" /\ outcome'.code \in Resumable => id \notin reported'
      BY <2>1, <2>5 DEF Resumable, Pending
    <2>7. phase' # "idle" => v \in Pending /\ phase' # "post"
      BY <1>5, <2>1 DEF Inspect
    <2>8. v \in Pending => reported' = reported
      BY <2>1 DEF Pending
    <2>9. told' \in {NoRun, id}
      BY <2>1, <2>2 DEF RunOpen
    <2>10. \A r \in reported' \cup created' : server'[r] # "none"
      BY <2>1, <2>3, <2>4 DEF RunOpen
    <2>11. phase' # "idle" \/ outcome'.code \in Resumable => id \notin reported'
      BY <2>5, <2>6, <2>7, <2>8
    <2>12. phase' = "post" => \A r \in created' : r \notin reported'
      BY <2>7
    <2>13. RunOpen'
      BY <2>1, <2>3, <2>9, <2>10, <2>11, <2>12 DEF RunOpen
    <2> QED
      BY <1>1, <2>1, <2>2, <2>13
  <1> QED
    BY <1>2, <1>3, <1>4, <1>5 DEF FollowStep

(* A call begins with nothing told, about the run it was given.              *)
LEMMA FollowBegins ==
  ASSUME JobInv, RunOpen, NEW id \in Runs \cup {NoRun}, Follow(id, FALSE),
         id # NoRun => server[id] # "none" /\ id \notin reported
  PROVE  /\ JobInv' /\ RunOpen' /\ runId' = id /\ created' = {} /\ UNCHANGED <<server, reported>>
         /\ phase' # "idle"
  <1>1. JobInv'
    BY CallStep
  <1>2. /\ runId' = id /\ created' = {} /\ told' = id /\ UNCHANGED <<server, reported>>
        /\ phase' # "idle" /\ outcome' = NoOutcome
    BY DEF Follow
  <1>3. id \notin reported
    BY RunsAssumption DEF JobInv, JobTypeOK
  <1>4. RunOpen'
    BY <1>2, <1>3 DEF RunOpen
  <1> QED
    BY <1>1, <1>2, <1>4

(***************************************************************************)
(* Public queries.                                                         *)
(***************************************************************************)
LEMMA QueryInv ==
  ASSUME JobInv, QueryFits, QueryNext
  PROVE  JobInv' /\ QueryFits' /\ tResume' = tResume
  <1> USE RunsAssumption, KindsAssumption
  <1>0. RunOpen /\ ResultFitsKind /\ qRun \in Runs \cup {NoRun}
    BY DEF QueryFits
  <1>1. ASSUME NEW k \in Kinds, ChooseKind(k) PROVE JobInv' /\ QueryFits' /\ tResume' = tResume
    <2>1. UNCHANGED jobVars /\ ~qLoading /\ ~qLoading' /\ qRun' = NoRun /\ qResult' = NoKind /\ tResume' = tResume
      BY <1>1 DEF ChooseKind, PillsFree, transVars
    <2>2. JobInv' /\ RunOpen'
      BY <1>0, <2>1, JobNextInv DEF RunOpen, jobVars
    <2>3. phase' = "idle" /\ reported' \subseteq Runs
      BY <2>1 DEF QueryFits, jobVars, JobInv, JobTypeOK
    <2> QED
      BY <2>1, <2>2, <2>3 DEF QueryFits, ResultFitsKind
  <1>2. ASSUME NEW resume \in BOOLEAN, DoQuery(resume) PROVE JobInv' /\ QueryFits' /\ tResume' = tResume
    <2> DEFINE id == IF resume THEN qRun ELSE NoRun
    <2>1. /\ ~qLoading /\ qLoading' /\ Follow(id, FALSE) /\ UNCHANGED <<qKind, qRun, qResult, transVars, ranKind>>
          /\ resume => qRun # NoRun
      BY <1>2 DEF DoQuery
    <2>2. id # NoRun => id = qRun /\ server[id] # "none" /\ id \notin reported /\ ranKind[id] = qKind
      BY <2>1 DEF QueryFits
    <2>3. id \in Runs \cup {NoRun}
      BY <1>0
    <2>4. /\ JobInv' /\ RunOpen' /\ runId' = id /\ created' = {} /\ UNCHANGED <<server, reported>> /\ phase' # "idle"
      BY <1>0, <2>1, <2>2, <2>3, FollowBegins
    <2>5. qRun # NoRun => qRun \notin reported
      BY <2>1 DEF QueryFits
    <2> QED
      BY <1>0, <2>1, <2>2, <2>4, <2>5 DEF QueryFits, ResultFitsKind, transVars
  <1>3. CASE QueryProgress
    <2>1. /\ qLoading /\ FollowStep /\ ranKind' = [r \in Runs |-> IF r \in created' \ created THEN qKind ELSE ranKind[r]]
          /\ qRun' = (IF told' # NoRun THEN told' ELSE qRun) /\ UNCHANGED <<qKind, qLoading, qResult, transVars>>
      BY <1>3 DEF QueryProgress, FollowOn, OnProgress
    <2>2. /\ JobInv' /\ RunOpen'
          /\ \A q \in Runs : server[q] # "none" => server'[q] # "none"
          /\ runId' = runId \/ (runId = NoRun /\ runId' \in created)
          /\ reported' \subseteq reported \cup {runId'}
          /\ \A r \in created' \ created : server[r] = "none"
          /\ created \subseteq created'
      BY <1>0, <2>1, FollowLearns
    <2>3. /\ created' \subseteq Runs /\ runId' \in Runs \cup {NoRun} /\ runId \in Runs \cup {NoRun} /\ told' \in {NoRun, runId'}
          /\ created \subseteq Runs
      BY <2>2 DEF JobInv, JobTypeOK, RunOpen
    <2>4. \A q \in Runs : server[q] # "none" => ranKind'[q] = ranKind[q]
      BY <2>1, <2>2
    <2>5. \A r \in created' : ranKind'[r] = qKind
      <3>1. \A r \in created : server[r] # "none" /\ ranKind[r] = qKind
        BY <1>0, <2>1 DEF QueryFits, RunOpen
      <3>2. \A r \in created : ranKind'[r] = qKind
        BY <2>3, <2>4, <3>1
      <3> QED
        BY <2>1, <2>3, <3>2
    <2>6. runId' # NoRun => ranKind'[runId'] = qKind
      <3>1. CASE runId' = runId
        <4>1. runId # NoRun => server[runId] # "none" /\ ranKind[runId] = qKind
          BY <1>0, <2>1 DEF QueryFits, RunOpen
        <4> QED
          BY <2>3, <2>4, <3>1, <4>1
      <3>2. CASE runId' \in created
        BY <2>2, <2>5, <3>2
      <3> QED
        BY <2>2, <3>1, <3>2
    <2>7. qRun' # NoRun => server'[qRun'] # "none" /\ ranKind'[qRun'] = qKind /\ qRun' \notin reported' \ {runId'}
      <3>1. CASE told' # NoRun
        BY <2>1, <2>2, <2>3, <2>6, <3>1 DEF RunOpen
      <3>2. CASE told' = NoRun
        <4>1. qRun' = qRun
          BY <2>1, <3>2
        <4>2. qRun # NoRun => qRun \in Runs /\ server[qRun] # "none" /\ ranKind[qRun] = qKind /\ qRun \notin reported \ {runId}
          BY DEF QueryFits
        <4>3. runId \in reported => runId' = runId
          BY <2>2, <2>3 DEF JobInv, JobTypeOK
        <4>4. qRun # NoRun => qRun \notin reported' \ {runId'}
          BY <2>2, <4>2, <4>3
        <4> QED
          BY <2>2, <2>4, <4>1, <4>2, <4>4
      <3> QED
        BY <3>1, <3>2
    <2>8. qRun' \in Runs \cup {NoRun}
      BY <1>0, <2>1, <2>3
    <2> QED
      BY <1>0, <2>1, <2>2, <2>5, <2>6, <2>7, <2>8 DEF QueryFits, ResultFitsKind, transVars
  <1>4. CASE QuerySettles
    <2>1. /\ qLoading /\ phase = "idle" /\ ~qLoading' /\ qRun' = KeptRun
          /\ qResult' = (IF outcome.code = "completed" THEN ranKind[outcome.runId] ELSE NoKind)
          /\ UNCHANGED <<qKind, transVars, ranKind, jobVars>>
      BY <1>4 DEF QuerySettles
    <2>2. outcome.runId = runId
      BY <2>1 DEF JobInv, ErrorNamesTheRun
    <2>3. outcome.code = "completed" => runId # NoRun /\ ranKind[runId] = qKind
      BY <2>1, <2>2 DEF JobInv, OutcomeFits, QueryFits
    <2>4. ResultFitsKind'
      BY <2>1, <2>2, <2>3 DEF ResultFitsKind
    <2>5. JobInv' /\ RunOpen'
      BY <1>0, <2>1, JobNextInv DEF RunOpen, jobVars
    <2>6. runId \in Runs \cup {NoRun} /\ reported \subseteq Runs
      BY DEF JobInv, JobTypeOK
    <2>7. KeptRun # NoRun => /\ KeptRun \in Runs /\ server[KeptRun] # "none" /\ ranKind[KeptRun] = qKind
                             /\ KeptRun \notin reported
      <3>1. CASE KeptRun = runId
        BY <1>0, <2>1, <2>6, <3>1 DEF KeptRun, QueryFits, RunOpen
      <3>2. CASE KeptRun = qRun /\ runId = NoRun
        BY <1>0, <2>6, <3>2 DEF QueryFits
      <3> QED
        BY <2>2, <3>1, <3>2 DEF KeptRun
    <2> QED
      BY <2>1, <2>4, <2>5, <2>6, <2>7 DEF QueryFits, jobVars, transVars
  <1>5. ASSUME NEW r \in Runs, ServerWorks(r), UNCHANGED panelsVars
        PROVE  JobInv' /\ QueryFits' /\ tResume' = tResume
    <2>1. /\ UNCHANGED <<phase, runId, existing, outcome, told, created, reported>>
          /\ \A q \in Runs : server[q] # "none" => server'[q] # "none"
          /\ JobInv' /\ RunOpen'
      BY <1>0, <1>5, ServerKnows, ServerOpen
    <2> QED
      BY <1>0, <1>5, <2>1 DEF QueryFits, ResultFitsKind, panelsVars, queryVars, transVars
  <1> QED
    BY <1>1, <1>2, <1>3, <1>4, <1>5 DEF QueryNext

(***************************************************************************)
(* Transparency.                                                           *)
(***************************************************************************)
LEMMA TransInv ==
  ASSUME JobInv, TransFits, TransparencyNext
  PROVE  JobInv' /\ TransFits' /\ UNCHANGED queryVars
  <1> USE RunsAssumption
  <1>0. RunOpen /\ (~tBusy => phase = "idle")
    BY DEF TransFits
  <1>1. ASSUME NEW resume \in BOOLEAN, NEW filled \in BOOLEAN, Execute(resume, filled)
        PROVE  JobInv' /\ TransFits' /\ UNCHANGED queryVars
    <2>1. ~tBusy /\ ~tResume' /\ UNCHANGED queryVars /\ (resume => tResume)
      BY <1>1 DEF Execute
    <2>2. CASE resume \/ filled
      <3> DEFINE id == IF resume THEN tRun ELSE NoRun
      <3>1. tBusy' /\ Follow(id, FALSE)
        BY <1>1, <2>2 DEF Execute
      <3>2. id \in Runs \cup {NoRun} /\ (id # NoRun => server[id] # "none" /\ id \notin reported)
        BY <2>1 DEF TransFits
      <3>3. JobInv' /\ RunOpen'
        BY <1>0, <3>1, <3>2, FollowBegins
      <3> QED
        BY <2>1, <3>1, <3>3 DEF TransFits
    <2>3. CASE ~(resume \/ filled)
      <3>1. UNCHANGED <<tBusy, jobVars>>
        BY <1>1, <2>3 DEF Execute
      <3>2. JobInv' /\ RunOpen'
        BY <1>0, <3>1, JobNextInv DEF RunOpen, jobVars
      <3> QED
        BY <1>0, <2>1, <3>1, <3>2 DEF TransFits, jobVars
    <2> QED
      BY <2>2, <2>3
  <1>2. CASE TransparencyProgress
    <2>1. tBusy /\ tBusy' = tBusy /\ tResume' = tResume /\ UNCHANGED queryVars /\ FollowStep
      BY <1>2 DEF TransparencyProgress, FollowOn
    <2>2. JobInv' /\ RunOpen'
      BY <1>0, <2>1, FollowLearns
    <2> QED
      BY <2>1, <2>2 DEF TransFits
  <1>3. CASE TransparencySettles
    <2>1. /\ tBusy /\ phase = "idle" /\ tBusy' = FALSE /\ tResume' = OffersResume
          /\ (OffersResume => tRun' = outcome.runId) /\ UNCHANGED <<queryVars, jobVars>>
      BY <1>3 DEF TransparencySettles, OffersResume, Resumable
    <2>2. JobInv' /\ RunOpen'
      BY <1>0, <2>1, JobNextInv DEF RunOpen, jobVars
    <2>3. outcome.runId = runId /\ runId \in Runs \cup {NoRun}
      BY <2>1 DEF JobInv, ErrorNamesTheRun, JobTypeOK
    <2>4. OffersResume => runId \in Runs /\ runId \notin reported /\ server[runId] # "none"
      BY <1>0, <2>3 DEF OffersResume, RunOpen
    <2> QED
      BY <2>1, <2>2, <2>3, <2>4 DEF TransFits, jobVars
  <1>4. ASSUME NEW r \in Runs, ServerWorks(r), UNCHANGED panelsVars
        PROVE  JobInv' /\ TransFits' /\ UNCHANGED queryVars
    <2>1. /\ UNCHANGED <<phase, runId, existing, outcome, told, created, reported>>
          /\ \A q \in Runs : server[q] # "none" => server'[q] # "none"
          /\ JobInv' /\ RunOpen'
      BY <1>0, <1>4, ServerKnows, ServerOpen
    <2> QED
      BY <1>0, <1>4, <2>1 DEF TransFits, panelsVars, transVars
  <1> QED
    BY <1>1, <1>2, <1>3, <1>4 DEF TransparencyNext

LEMMA QueryIsSafe ==
  ASSUME QueryFits
  PROVE  ResultFitsKind /\ (~qLoading /\ qRun # NoRun => qRun \notin reported /\ server[qRun] # "none")
  BY DEF QueryFits

LEMMA TransIsSafe ==
  ASSUME TransFits, tResume
  PROVE  ~tBusy /\ tRun # NoRun /\ tRun \notin reported /\ server[tRun] # "none"
  BY RunsAssumption DEF TransFits

(* Before a query, and before an execution, nothing is known.                *)
LEMMA QueryBegins == JobInit /\ PanelsInit => QueryFits
  BY DEF JobInit, PanelsInit, QueryFits, RunOpen, ResultFitsKind

LEMMA TransBegins == JobInit /\ PanelsInit => TransFits
  BY DEF JobInit, PanelsInit, TransFits, RunOpen

LEMMA QueryRests == QueryFits /\ UNCHANGED <<jobVars, panelsVars>> => QueryFits' /\ tResume' = tResume
  BY DEF QueryFits, RunOpen, ResultFitsKind, jobVars, panelsVars, queryVars, transVars

LEMMA TransRests == TransFits /\ UNCHANGED <<jobVars, panelsVars>> => TransFits' /\ UNCHANGED queryVars
  BY DEF TransFits, RunOpen, jobVars, panelsVars, queryVars, transVars

(*****************************************************************************)
(* The account pages.                                                        *)
(*****************************************************************************)
AuthTyped ==
    /\ srvSession \in BOOLEAN /\ srvChallenge \in Nat /\ versions \in Nat
    /\ place \in {"index", "login"}
    /\ leaving = "" \/ (place = "index" /\ leaving = "login") \/ (place = "login" /\ leaving = "index")
    /\ checking \in {"none", "status", "catalog", "scripts"}
    /\ caps \in BOOLEAN /\ retryShown \in BOOLEAN /\ started \in BOOLEAN /\ apps \in Nat
    /\ busy \in BOOLEAN /\ flying \in [Ops -> Nat] /\ shown \in Nat /\ code \in Nat

\* The application starts once, at the end of an entry.
AppFits ==
    /\ checking # "none" => apps = 0
    /\ apps > 0 \/ checking = "scripts" => started
    /\ apps <= 1

\* On the login page the entry ends before a request can be sent.
LoginFits ==
    place = "login" =>
        /\ ~started /\ checking \in {"none", "status"}
        /\ caps \/ leaving # "" => checking = "none" /\ ~retryShown
        /\ checking = "status" => ~retryShown

\* Without capabilities nothing was sent or shown.
NothingIsShown ==
    shown = 0 /\ code = 0 /\ password # "sent" /\ \A o \in Ops : flying[o] = 0

\* A request is on its way from a page at work only, and marks it busy.
RequestsFit ==
    /\ ~(place = "login" /\ caps) => NothingIsShown
    /\ ~busy => \A o \in Ops : flying[o] = 0
    /\ leaving # "" => \A o \in Ops : flying[o] = 0
    /\ flying["resend"] > 0 => shown # 0

\* What the page shows is what the server holds, or came before it.
ChallengeFits ==
    /\ place = "login" /\ caps /\ leaving = "" /\ ~lost /\ srvChallenge # 0 =>
          shown = srvChallenge /\ purpose = srvPurpose
    /\ shown <= versions /\ srvChallenge <= versions
    /\ shown # 0 /\ srvChallenge # 0 => shown <= srvChallenge

\* The section asked for is on its way: remembered, then in the address.
WayFits ==
    asked # "" =>
        /\ place = "index" /\ leaving = "login" => saved = asked
        /\ place = "login" /\ leaving = "" => saved = asked
        /\ place = "login" /\ leaving = "index" => hash = asked

AuthInv ==
    /\ AuthTyped /\ AppFits /\ LoginFits /\ RequestsFit /\ ChallengeFits /\ WayFits
    /\ OneAccountRequest /\ TimerFollowsChallenge /\ SecretsDoNotLinger /\ OnePanelIsSeen

(* With nothing on its way there is no second request.                       *)
LEMMA NoneFlying ==
  ASSUME NEW f, \A o \in Ops : f[o] = 0
  PROVE  /\ ~(f["resend"] > 0)
         /\ \A o, p \in Ops : (f[o] > 0 /\ f[p] > 0 => o = p /\ f[o] = 1)
  <1>1. \A o \in Ops : ~(f[o] > 0)
    OBVIOUS
  <1>2. "resend" \in Ops
    BY DEF Ops
  <1> QED
    BY <1>1, <1>2

(* A page that is loaded has nothing on its way and nothing shown.           *)
LEMMA LoadStep ==
  ASSUME AuthTyped, ChallengeFits, UNCHANGED serverVars, NEW page \in {"index", "login"}, NEW section, Load(page, section)
  PROVE  /\ AuthTyped' /\ AppFits' /\ LoginFits' /\ RequestsFit' /\ ChallengeFits' /\ OneAccountRequest'
         /\ TimerFollowsChallenge' /\ SecretsDoNotLinger' /\ OnePanelIsSeen'
  <1>1. \A o \in Ops : flying'[o] = 0
    BY DEF Load
  <1>2. flying' \in [Ops -> Nat]
    BY DEF Load
  <1>3. AuthTyped'
    BY <1>2 DEF Load, AuthTyped, serverVars, challengeVars
  <1>4. AppFits'
    <2>1. apps' = 0 /\ checking' = "status"
      BY DEF Load
    <2>2. ~(apps' > 0) /\ apps' <= 1
      BY <2>1
    <2> QED
      BY <2>1, <2>2 DEF AppFits
  <1>9. LoginFits'
    BY DEF Load, LoginFits
  <1>6. ~(flying'["resend"] > 0)
    BY <1>1 DEF Ops
  <1>7. RequestsFit'
    <2>1. NothingIsShown'
      BY <1>1 DEF Load, NothingIsShown
    <2> QED
      BY <1>1, <1>6, <2>1 DEF RequestsFit
  <1>8. OneAccountRequest'
    BY <1>1 DEF OneAccountRequest
  <1>5. ChallengeFits' /\ TimerFollowsChallenge' /\ SecretsDoNotLinger' /\ OnePanelIsSeen'
    <2>1. shown' = 0 /\ code' = 0 /\ caps' = FALSE /\ timers' = 0
          /\ panel' = PanelOf(0, tab') /\ password' = "empty"
      BY DEF Load, PanelOf
    <2>2. srvChallenge' <= versions' /\ 0 <= versions'
      <3>1. versions \in Nat /\ srvChallenge <= versions
        BY DEF AuthTyped, ChallengeFits
      <3>2. versions' = versions /\ srvChallenge' = srvChallenge
        BY DEF serverVars, challengeVars
      <3> QED
        BY <3>1, <3>2
    <2> QED
      BY <2>1, <2>2 DEF ChallengeFits, TimerFollowsChallenge, SecretsDoNotLinger, OnePanelIsSeen
  <1> QED
    BY <1>3, <1>4, <1>5, <1>7, <1>8, <1>9

LEMMA UnloadStep ==
  ASSUME AuthInv, Unload
  PROVE  AuthInv'
  <1>1. /\ Load(leaving, IF leaving = "index" THEN hash ELSE Dashboard)
        /\ leaving \in {"index", "login"} /\ UNCHANGED serverVars
    BY DEF Unload, AuthInv, AuthTyped
  <1>2. WayFits'
    BY <1>1 DEF Unload, Load, AuthInv, AuthTyped, WayFits
  <1> QED
    BY <1>1, <1>2, LoadStep DEF AuthInv

LEMMA ReloadStep ==
  ASSUME AuthInv, Reload
  PROVE  AuthInv'
  <1>1. Load(place, hash) /\ place \in {"index", "login"} /\ UNCHANGED serverVars
    BY DEF Reload, AuthInv, AuthTyped
  <1>2. WayFits'
    BY <1>1 DEF Reload, Load, AuthInv, AuthTyped, WayFits
  <1> QED
    BY <1>1, <1>2, LoadStep DEF AuthInv

LEMMA RetryCheckStep ==
  ASSUME AuthInv, RetryCheck
  PROVE  AuthInv'
  <1>1. CASE started
    <2>1. Load(place, hash) /\ place = "index" /\ UNCHANGED serverVars
      BY <1>1 DEF RetryCheck, AuthInv, AuthTyped, LoginFits
    <2>2. WayFits'
      BY <2>1 DEF RetryCheck, Load, WayFits
    <2> QED
      BY <2>1, <2>2, LoadStep DEF AuthInv
  <1>2. CASE ~started
    <2>1. /\ retryShown /\ checking' = "status" /\ caps' = FALSE /\ retryShown' = FALSE
          /\ UNCHANGED <<place, hash, leaving, started, apps, busy, flying, formVars, lost, saved, serverVars, asked>>
      BY <1>2 DEF RetryCheck
    <2>2. AuthTyped'
      BY <2>1 DEF AuthInv, AuthTyped, formVars, serverVars, challengeVars
    <2>6. AppFits'
      <3>1. apps \in Nat /\ ~(apps > 0)
        BY <1>2 DEF AuthInv, AuthTyped, AppFits
      <3>2. apps' = 0
        BY <2>1, <3>1
      <3>3. ~(apps' > 0) /\ apps' <= 1
        BY <3>2
      <3> QED
        BY <2>1, <3>2, <3>3 DEF AppFits
    <2>7. LoginFits'
      BY <1>2, <2>1 DEF AuthInv, LoginFits
    <2>3. RequestsFit'
      BY <2>1 DEF AuthInv, LoginFits, RequestsFit, NothingIsShown, formVars, panelVars
    <2>4. ChallengeFits' /\ WayFits' /\ OneAccountRequest'
      BY <2>1 DEF AuthInv, ChallengeFits, WayFits, OneAccountRequest, formVars, serverVars, challengeVars
    <2>5. TimerFollowsChallenge' /\ SecretsDoNotLinger' /\ OnePanelIsSeen'
      BY <2>1 DEF AuthInv, TimerFollowsChallenge, SecretsDoNotLinger, OnePanelIsSeen, PanelOf, formVars, panelVars
    <2> QED
      BY <2>2, <2>3, <2>4, <2>5, <2>6, <2>7 DEF AuthInv
  <1> QED
    BY <1>1, <1>2

LEMMA TickStep ==
  ASSUME AuthInv, Tick
  PROVE  AuthInv'
  <1> USE DEF AuthInv, Tick, serverVars, challengeVars, addressVars, entryVars, panelVars, formVars, history
  <1>1. AuthTyped'
    BY DEF AuthTyped
  <1>2. AppFits'
    BY DEF AuthTyped, AppFits
  <1>3. LoginFits'
    BY DEF AuthTyped, LoginFits
  <1>4. RequestsFit'
    BY DEF RequestsFit, NothingIsShown
  <1>5. ChallengeFits' /\ WayFits'
    BY DEF ChallengeFits, WayFits
  <1>6. OneAccountRequest' /\ TimerFollowsChallenge'
    BY DEF OneAccountRequest, TimerFollowsChallenge
  <1>7. SecretsDoNotLinger' /\ OnePanelIsSeen'
    BY DEF SecretsDoNotLinger, OnePanelIsSeen, PanelOf
  <1> QED
    BY <1>1, <1>2, <1>3, <1>4, <1>5, <1>6, <1>7

LEMMA OpenSectionStep ==
  ASSUME AuthInv, NEW section, OpenSection(section)
  PROVE  AuthInv'
  <1> USE DEF AuthInv, OpenSection, serverVars, challengeVars, addressVars, entryVars, panelVars, formVars, history
  <1>1. AuthTyped'
    BY DEF AuthTyped
  <1>2. AppFits'
    BY DEF AuthTyped, AppFits
  <1>3. LoginFits'
    BY DEF AuthTyped, LoginFits
  <1>4. RequestsFit'
    BY DEF RequestsFit, NothingIsShown
  <1>5. ChallengeFits' /\ WayFits'
    BY DEF ChallengeFits, WayFits
  <1>6. OneAccountRequest' /\ TimerFollowsChallenge'
    BY DEF OneAccountRequest, TimerFollowsChallenge
  <1>7. SecretsDoNotLinger' /\ OnePanelIsSeen'
    BY DEF SecretsDoNotLinger, OnePanelIsSeen, PanelOf
  <1> QED
    BY <1>1, <1>2, <1>3, <1>4, <1>5, <1>6, <1>7

LEMMA CatalogStep ==
  ASSUME AuthInv, CatalogArrives
  PROVE  AuthInv'
  <1> USE DEF AuthInv, CatalogArrives, StartedBeforeScripts, serverVars, challengeVars, addressVars, entryVars, panelVars, formVars, history
  <1>1. AuthTyped'
    BY DEF AuthTyped
  <1>2. AppFits'
    BY DEF AuthTyped, AppFits
  <1>3. LoginFits'
    BY DEF AuthTyped, LoginFits
  <1>4. RequestsFit'
    BY DEF RequestsFit, NothingIsShown
  <1>5. ChallengeFits' /\ WayFits'
    BY DEF ChallengeFits, WayFits
  <1>6. OneAccountRequest' /\ TimerFollowsChallenge'
    BY DEF OneAccountRequest, TimerFollowsChallenge
  <1>7. SecretsDoNotLinger' /\ OnePanelIsSeen'
    BY DEF SecretsDoNotLinger, OnePanelIsSeen, PanelOf
  <1> QED
    BY <1>1, <1>2, <1>3, <1>4, <1>5, <1>6, <1>7

LEMMA ScriptsStep ==
  ASSUME AuthInv, ScriptsRun
  PROVE  AuthInv'
  <1> USE DEF AuthInv, ScriptsRun, serverVars, challengeVars, addressVars, entryVars, panelVars, formVars, history
  <1>0. apps = 0 /\ apps' = 1 /\ started
    BY DEF AppFits
  <1>1. AuthTyped'
    <2>1. apps' \in Nat
      BY <1>0
    <2>2. retryShown' \in BOOLEAN
      BY DEF AuthTyped
    <2> QED
      BY <2>1, <2>2 DEF AuthTyped
  <1>2. AppFits'
    BY <1>0 DEF AppFits
  <1>3. LoginFits'
    BY DEF AuthTyped, LoginFits
  <1>4. RequestsFit'
    BY DEF RequestsFit, NothingIsShown
  <1>5. ChallengeFits' /\ WayFits'
    BY DEF ChallengeFits, WayFits
  <1>6. OneAccountRequest' /\ TimerFollowsChallenge'
    BY DEF OneAccountRequest, TimerFollowsChallenge
  <1>7. SecretsDoNotLinger' /\ OnePanelIsSeen'
    BY DEF SecretsDoNotLinger, OnePanelIsSeen, PanelOf
  <1> QED
    BY <1>1, <1>2, <1>3, <1>4, <1>5, <1>6, <1>7

LEMMA SessionEndsStep ==
  ASSUME AuthInv, SessionEnds
  PROVE  AuthInv'
  <1> USE DEF AuthInv, SessionEnds, RequireLogin, RememberSection, LoginFits, RequestsFit, NothingIsShown, serverVars, challengeVars, addressVars, entryVars, panelVars, formVars, history
  <1>1. AuthTyped'
    BY DEF AuthTyped
  <1>2. AppFits'
    BY DEF AuthTyped, AppFits
  <1>3. LoginFits'
    BY DEF AuthTyped, LoginFits
  <1>4. RequestsFit'
    BY DEF RequestsFit, NothingIsShown
  <1>5. ChallengeFits' /\ WayFits'
    BY DEF ChallengeFits, WayFits
  <1>6. OneAccountRequest' /\ TimerFollowsChallenge'
    BY DEF OneAccountRequest, TimerFollowsChallenge
  <1>7. SecretsDoNotLinger' /\ OnePanelIsSeen'
    BY DEF SecretsDoNotLinger, OnePanelIsSeen, PanelOf
  <1> QED
    BY <1>1, <1>2, <1>3, <1>4, <1>5, <1>6, <1>7

LEMMA SwitchTabStep ==
  ASSUME AuthInv, NEW t, SwitchAuthTab(t)
  PROVE  AuthInv'
  <1> USE DEF AuthInv, SwitchAuthTab, serverVars, challengeVars, addressVars, entryVars, panelVars, formVars, history
  <1>1. AuthTyped'
    BY DEF AuthTyped
  <1>2. AppFits'
    BY DEF AuthTyped, AppFits
  <1>3. LoginFits'
    BY DEF AuthTyped, LoginFits
  <1>4. RequestsFit'
    BY DEF RequestsFit, NothingIsShown
  <1>5. ChallengeFits' /\ WayFits'
    BY DEF ChallengeFits, WayFits
  <1>6. OneAccountRequest' /\ TimerFollowsChallenge'
    BY DEF OneAccountRequest, TimerFollowsChallenge
  <1>7. SecretsDoNotLinger' /\ OnePanelIsSeen'
    BY DEF SecretsDoNotLinger, OnePanelIsSeen, PanelOf
  <1> QED
    BY <1>1, <1>2, <1>3, <1>4, <1>5, <1>6, <1>7

LEMMA TypePasswordStep ==
  ASSUME AuthInv, TypePassword
  PROVE  AuthInv'
  <1> USE DEF AuthInv, TypePassword, serverVars, challengeVars, addressVars, entryVars, panelVars, formVars, history
  <1>1. AuthTyped'
    BY DEF AuthTyped
  <1>2. AppFits'
    BY DEF AuthTyped, AppFits
  <1>3. LoginFits'
    BY DEF AuthTyped, LoginFits
  <1>4. RequestsFit'
    BY DEF RequestsFit, NothingIsShown
  <1>5. ChallengeFits' /\ WayFits'
    BY DEF ChallengeFits, WayFits
  <1>6. OneAccountRequest' /\ TimerFollowsChallenge'
    BY DEF OneAccountRequest, TimerFollowsChallenge
  <1>7. SecretsDoNotLinger' /\ OnePanelIsSeen'
    BY DEF SecretsDoNotLinger, OnePanelIsSeen, PanelOf
  <1> QED
    BY <1>1, <1>2, <1>3, <1>4, <1>5, <1>6, <1>7

LEMMA TypeCodeStep ==
  ASSUME AuthInv, TypeCode
  PROVE  AuthInv'
  <1> USE DEF AuthInv, TypeCode, OnLogin, serverVars, challengeVars, addressVars, entryVars, panelVars, formVars, history
  <1>1. AuthTyped'
    BY DEF AuthTyped
  <1>2. AppFits'
    BY DEF AuthTyped, AppFits
  <1>3. LoginFits'
    BY DEF AuthTyped, LoginFits
  <1>4. RequestsFit'
    BY DEF RequestsFit, NothingIsShown
  <1>5. ChallengeFits' /\ WayFits'
    BY DEF ChallengeFits, WayFits
  <1>6. OneAccountRequest' /\ TimerFollowsChallenge'
    BY DEF OneAccountRequest, TimerFollowsChallenge
  <1>7. SecretsDoNotLinger'
    <2>1. shown \in Nat /\ shown # 0 /\ shown' = shown /\ password' = password /\ srvChallenge \in Nat
      BY DEF AuthTyped
    <2>2. code' = shown \/ (code' = srvChallenge /\ shown <= srvChallenge)
      BY <2>1 DEF ChallengeFits
    <2>3. code' >= shown
      <3> HIDE DEF TypeCode, AuthInv
      <3> QED BY <2>1, <2>2
    <2> QED
      BY <2>1, <2>3 DEF SecretsDoNotLinger
  <1>8. OnePanelIsSeen'
    BY DEF OnePanelIsSeen, PanelOf
  <1> QED
    BY <1>1, <1>2, <1>3, <1>4, <1>5, <1>6, <1>7, <1>8

LEMMA CheckFailsStep ==
  ASSUME AuthInv, CheckFails
  PROVE  AuthInv'
  <1> USE DEF AuthInv, CheckFails, serverVars, challengeVars, addressVars, entryVars, panelVars, formVars, history
  <1>0. ~(place = "login" /\ caps)
    BY DEF LoginFits
  <1>1. AuthTyped'
    BY DEF AuthTyped
  <1>2. AppFits'
    BY <1>0 DEF AuthTyped, AppFits
  <1>3. LoginFits'
    BY <1>0 DEF AuthTyped, LoginFits
  <1>4. RequestsFit'
    BY <1>0 DEF RequestsFit, NothingIsShown
  <1>5. ChallengeFits' /\ WayFits'
    BY <1>0 DEF ChallengeFits, WayFits
  <1>6. OneAccountRequest' /\ TimerFollowsChallenge'
    BY <1>0 DEF OneAccountRequest, TimerFollowsChallenge
  <1>7. SecretsDoNotLinger' /\ OnePanelIsSeen'
    BY <1>0 DEF SecretsDoNotLinger, OnePanelIsSeen, PanelOf
  <1> QED
    BY <1>1, <1>2, <1>3, <1>4, <1>5, <1>6, <1>7

LEMMA GoInstitutionalStep ==
  ASSUME AuthInv, GoInstitutional
  PROVE  AuthInv'
  <1> USE DEF AuthInv, GoInstitutional, OnLogin, RequestsFit, serverVars, challengeVars, addressVars, entryVars, panelVars, formVars, history
  <1>1. AuthTyped'
    BY DEF AuthTyped
  <1>2. AppFits'
    BY DEF AuthTyped, AppFits
  <1>3. LoginFits'
    BY DEF AuthTyped, LoginFits
  <1>4. RequestsFit'
    BY DEF RequestsFit, NothingIsShown
  <1>5. ChallengeFits' /\ WayFits'
    BY DEF ChallengeFits, WayFits
  <1>6. OneAccountRequest' /\ TimerFollowsChallenge'
    BY DEF OneAccountRequest, TimerFollowsChallenge
  <1>7. SecretsDoNotLinger' /\ OnePanelIsSeen'
    BY DEF SecretsDoNotLinger, OnePanelIsSeen, PanelOf
  <1> QED
    BY <1>1, <1>2, <1>3, <1>4, <1>5, <1>6, <1>7

(* Before the answer of checkAccess the page has asked for nothing.          *)
LEMMA StatusStep ==
  ASSUME AuthInv, StatusArrives
  PROVE  AuthInv'
  <1>a. /\ checking = "status" /\ (caps' <=> ~srvSession) /\ caps' \in BOOLEAN
        /\ UNCHANGED <<serverVars, retryShown, started, apps, busy, flying>>
    BY DEF StatusArrives, AuthInv, AuthTyped
  <1>b. ~(place = "login" /\ caps)
    BY <1>a DEF AuthInv, LoginFits
  <1>c. NothingIsShown
    BY <1>b DEF AuthInv, RequestsFit
  <1>d. apps = 0
    BY <1>a DEF AuthInv, AppFits
  <1>e. place = "login" => leaving = "" /\ ~retryShown /\ ~started
    BY <1>a DEF AuthInv, LoginFits
  <1>f. apps' = 0
    BY <1>a, <1>d
  <1>g. ~(apps' > 0) /\ apps' <= 1
    BY <1>f
  <1>h. \A o \in Ops : flying'[o] = 0
    BY <1>a, <1>c DEF NothingIsShown
  <1>i. ~(flying'["resend"] > 0)
    BY <1>h DEF Ops
  <1>j. OneAccountRequest'
    BY <1>h DEF OneAccountRequest
  <1>k. place \in {"login", "index"} /\ srvSession \in BOOLEAN
    BY DEF AuthInv, AuthTyped
  <1>l. shown = 0 /\ srvChallenge \in Nat /\ 0 <= versions' /\ srvChallenge' <= versions' /\ srvChallenge' = srvChallenge
    BY <1>a, <1>c DEF AuthInv, AuthTyped, NothingIsShown, ChallengeFits, serverVars, challengeVars
  <1>1. CASE srvSession /\ place = "login"
    <2>1. /\ leaving' = "index" /\ hash' = (IF saved # "" THEN saved ELSE Dashboard) /\ saved' = ""
          /\ checking' = "none" /\ UNCHANGED <<place, formVars, history>>
      BY <1>1 DEF StatusArrives, EnterWorkspace
    <2>2. AuthTyped'
      BY <2>1, <1>1, <1>a DEF AuthInv, AuthTyped, serverVars, challengeVars, formVars
    <2>3. AppFits'
      BY <2>1, <1>f, <1>g DEF AppFits
    <2>4. LoginFits'
      BY <2>1, <1>1, <1>a, <1>e DEF LoginFits
    <2>5. NothingIsShown'
      BY <2>1, <1>c, <1>h DEF NothingIsShown, formVars
    <2>6. RequestsFit'
      BY <2>5, <1>h, <1>i DEF RequestsFit
    <2>7. ChallengeFits' /\ TimerFollowsChallenge' /\ OnePanelIsSeen'
      BY <2>1, <1>l DEF ChallengeFits, TimerFollowsChallenge, OnePanelIsSeen, formVars
    <2>8. WayFits'
      BY <2>1, <1>1, <1>e DEF AuthInv, WayFits, history
    <2>9. SecretsDoNotLinger'
      BY <2>5 DEF NothingIsShown, SecretsDoNotLinger
    <2> QED
      BY <2>2, <2>3, <2>4, <2>6, <2>7, <2>8, <2>9, <1>j DEF AuthInv
  <1>2. CASE place = "index"
    <2>1. \/ checking' = "catalog" /\ UNCHANGED <<addressVars, formVars, history>> /\ srvSession
          \/ RequireLogin /\ checking' = "none" /\ UNCHANGED <<formVars, lost>>
      BY <1>2, <1>k DEF StatusArrives
    <2>2. place' = "index" /\ UNCHANGED formVars /\ checking' \in {"none", "catalog"}
      BY <2>1, <1>2 DEF RequireLogin, addressVars
    <2>3. AuthTyped'
      BY <2>1, <2>2, <1>2, <1>a DEF AuthInv, AuthTyped, serverVars, challengeVars, formVars, addressVars, RequireLogin
    <2>4. AppFits'
      BY <2>2, <1>f, <1>g DEF AppFits
    <2>5. LoginFits' /\ ChallengeFits' /\ OnePanelIsSeen'
      BY <2>2, <1>l DEF LoginFits, ChallengeFits, OnePanelIsSeen, formVars
    <2>6. NothingIsShown'
      BY <2>2, <1>c, <1>h DEF NothingIsShown, formVars
    <2>7. RequestsFit'
      BY <2>6, <1>h, <1>i DEF RequestsFit
    <2>8. WayFits'
      <3>1. CASE UNCHANGED <<addressVars, formVars, history>>
        BY <3>1 DEF AuthInv, WayFits, addressVars, history
      <3>2. CASE RequireLogin
        BY <3>2, <1>2 DEF WayFits, RequireLogin, RememberSection
      <3> QED
        BY <2>1, <3>1, <3>2
    <2>9. SecretsDoNotLinger'
      BY <2>6 DEF NothingIsShown, SecretsDoNotLinger
    <2>10. TimerFollowsChallenge'
      BY <2>1, <2>2 DEF AuthInv, TimerFollowsChallenge, addressVars, formVars, RequireLogin
    <2> QED
      BY <2>3, <2>4, <2>5, <2>7, <2>8, <2>9, <2>10, <1>j DEF AuthInv
  <1>3. CASE ~srvSession /\ place = "login"
    <2>1. /\ checking' = "none" /\ lost' = FALSE
          /\ IF srvChallenge # 0 THEN ShowVerification(srvChallenge, srvPurpose, srvMailed) ELSE ForgetVerification(tab)
          /\ UNCHANGED <<addressVars, password, asked>>
      BY <1>3 DEF StatusArrives
    <2>2. /\ shown' = srvChallenge /\ code' = 0 /\ (shown' # 0 => purpose' = srvPurpose)
          /\ timers' = (IF shown' # 0 THEN 1 ELSE 0) /\ panel' = PanelOf(shown', tab) /\ tab' = tab
      BY <2>1 DEF ShowVerification, ForgetVerification, PanelOf, FormReset, ClearedTimers
    <2>3. AuthTyped'
      BY <2>1, <2>2, <1>a DEF AuthInv, AuthTyped, serverVars, challengeVars, addressVars
    <2>4. AppFits'
      BY <2>1, <1>f, <1>g DEF AppFits
    <2>5. LoginFits'
      BY <2>1, <1>3, <1>a, <1>e DEF LoginFits, addressVars
    <2>6. place' = "login" /\ caps' /\ leaving' = ""
      BY <2>1, <1>3, <1>a, <1>e DEF addressVars
    <2>7. RequestsFit'
      BY <2>6, <1>h, <1>i DEF RequestsFit
    <2>8. ChallengeFits'
      <3>1. /\ srvPurpose' = srvPurpose /\ srvChallenge' = srvChallenge /\ shown' = srvChallenge
            /\ srvChallenge' # 0 => purpose' = srvPurpose'
        BY <2>2, <1>a DEF serverVars, challengeVars
      <3>2. shown' <= versions' /\ srvChallenge' <= versions' /\ shown' <= srvChallenge'
        BY <3>1, <1>l
      <3> QED
        BY <3>1, <3>2 DEF ChallengeFits
    <2>9. WayFits'
      BY <2>1 DEF AuthInv, WayFits, addressVars
    <2>10. TimerFollowsChallenge' /\ OnePanelIsSeen'
      BY <2>2 DEF TimerFollowsChallenge, OnePanelIsSeen
    <2>11. SecretsDoNotLinger'
      BY <2>1, <2>2, <1>c DEF SecretsDoNotLinger, NothingIsShown
    <2> QED
      BY <2>3, <2>4, <2>5, <2>7, <2>8, <2>9, <2>10, <2>11, <1>j DEF AuthInv
  <1> QED
    BY <1>1, <1>2, <1>3, <1>k

(* A request leaves a page with none on its way, and marks it busy.          *)
LEMMA SentStep ==
  ASSUME AuthInv, NEW op \in Ops, MaySend(op), busy' = TRUE, flying' = [flying EXCEPT ![op] = @ + 1],
         password' = (IF op \in {"login", "register"} THEN "sent" ELSE password),
         UNCHANGED <<serverVars, addressVars, entryVars, shown, purpose, panel, tab,
                   timers, expired, cooling, code, history>>
  PROVE  AuthInv'
  <1> USE DEF serverVars, challengeVars, addressVars, entryVars, history
  <1>1. place = "login" /\ caps /\ leaving = "" /\ \A o \in Ops : flying[o] = 0
    BY DEF MaySend, OnLogin, AuthInv, RequestsFit
  <1>2. flying' \in [Ops -> Nat] /\ flying'[op] = 1 /\ \A o \in Ops \ {op} : flying'[o] = 0
    <2>1. flying \in [Ops -> Nat]
      BY DEF AuthInv, AuthTyped
    <2>6. flying[op] = 0
      BY <1>1
    <2>2. flying' = [flying EXCEPT ![op] = 1]
      BY <2>6
    <2>3. flying' \in [Ops -> Nat]
      BY <2>1, <2>2
    <2>4. flying'[op] = 1
      BY <2>1, <2>2
    <2>5. \A o \in Ops \ {op} : flying'[o] = flying[o]
      BY <2>1, <2>2
    <2> QED
      BY <1>1, <2>3, <2>4, <2>5
  <1>3. AuthTyped'
    BY <1>2 DEF AuthInv, AuthTyped
  <1>4. AppFits' /\ LoginFits'
    BY DEF AuthInv, AppFits, LoginFits
  <1>5. flying'["resend"] > 0 => shown # 0
    <2>1. CASE op = "resend"
      BY <2>1 DEF MaySend
    <2>2. CASE op # "resend"
      BY <2>2, <1>2 DEF Ops
    <2> QED
      BY <2>1, <2>2
  <1>6. RequestsFit'
    BY <1>1, <1>5 DEF RequestsFit
  <1>7. ChallengeFits' /\ WayFits'
    BY DEF AuthInv, ChallengeFits, WayFits
  <1>8. OneAccountRequest'
    BY <1>2, NoneFlying DEF OneAccountRequest
  <1>9. op \in {"login", "register"} => shown = 0
    BY DEF MaySend, MaySubmitForm
  <1>10. SecretsDoNotLinger'
    BY <1>9 DEF AuthInv, SecretsDoNotLinger
  <1>11. TimerFollowsChallenge' /\ OnePanelIsSeen'
    BY DEF AuthInv, TimerFollowsChallenge, OnePanelIsSeen, PanelOf
  <1> QED
    BY <1>3, <1>4, <1>6, <1>7, <1>8, <1>10, <1>11 DEF AuthInv

LEMMA SendStep ==
  ASSUME AuthInv, NEW op \in Ops, Send(op)
  PROVE  AuthInv'
  BY SentStep DEF Send, SetsBusy

LEMMA AccessTabStep ==
  ASSUME AuthInv, NEW t, AccessTab(t)
  PROVE  AuthInv'
  BY SentStep DEF AccessTab, SetsBusy, Ops

(* The request that is answered was the only one.                            *)
LEMMA OnlyRequest ==
  ASSUME AuthInv, NEW op \in Ops, flying[op] > 0, flying' = [flying EXCEPT ![op] = @ - 1]
  PROVE  /\ place = "login" /\ caps /\ leaving = "" /\ checking = "none"
         /\ flying' \in [Ops -> Nat] /\ \A o \in Ops : flying'[o] = 0
  <1>1. flying \in [Ops -> Nat]
    BY DEF AuthInv, AuthTyped
  <1>2. flying[op] = 1
    BY DEF AuthInv, OneAccountRequest
  <1>3. \A o \in Ops : o # op => ~(flying[o] > 0)
    BY DEF AuthInv, OneAccountRequest
  <1>4. flying' = [flying EXCEPT ![op] = 0]
    BY <1>2
  <1>5. flying' \in [Ops -> Nat]
    BY <1>1, <1>4
  <1>6. ASSUME NEW o \in Ops PROVE flying'[o] = 0
    <2>1. CASE o = op
      BY <1>1, <1>4, <2>1
    <2>2. CASE o # op
      <3>1. flying'[o] = flying[o] /\ flying[o] \in Nat
        BY <1>1, <1>4, <2>2
      <3> QED
        BY <1>3, <2>2, <3>1
    <2> QED
      BY <2>1, <2>2
  <1>7. ~(flying[op] = 0)
    BY <1>2
  <1>8. place = "login" /\ caps
    BY <1>7 DEF AuthInv, RequestsFit, NothingIsShown
  <1>9. leaving = ""
    BY <1>7 DEF AuthInv, RequestsFit
  <1>10. checking = "none"
    BY <1>8 DEF AuthInv, LoginFits
  <1> QED
    BY <1>5, <1>6, <1>8, <1>9, <1>10

(* What the server does with a request: the challenge stands, ends, or has a *)
(* version of its own.                                                       *)
LEMMA OnServer ==
  ASSUME AuthInv, NEW op \in Ops, Effect(op) \/ Refused(op)
  PROVE  /\ srvSession' \in BOOLEAN /\ versions' \in Nat /\ srvChallenge' \in Nat
         /\ versions <= versions' /\ srvChallenge' <= versions'
         /\ shown # 0 /\ srvChallenge' # 0 => shown <= srvChallenge'
         /\ srvChallenge' \in {0, srvChallenge} => srvChallenge' = 0 \/ srvPurpose' = srvPurpose
  <1>1. /\ srvSession \in BOOLEAN /\ srvChallenge \in Nat /\ versions \in Nat /\ shown \in Nat
        /\ shown <= versions /\ srvChallenge <= versions
        /\ shown # 0 /\ srvChallenge # 0 => shown <= srvChallenge
    BY DEF AuthInv, AuthTyped, ChallengeFits
  <1>2. /\ srvSession' \in {TRUE, srvSession}
        /\ \/ srvChallenge' = 0 /\ versions' = versions
           \/ srvChallenge' = srvChallenge /\ versions' = versions /\ srvPurpose' = srvPurpose
           \/ srvChallenge' = versions + 1 /\ versions' = versions + 1
    <2>1. CASE Effect(op)
      BY <2>1 DEF Effect, Renewed, Ops, challengeVars
    <2>2. CASE Refused(op)
      BY <2>2 DEF Refused, Renewed, serverVars, challengeVars
    <2> QED
      BY <2>1, <2>2
  <1>3. srvSession' \in BOOLEAN
    BY <1>1, <1>2
  <1> QED
    BY <1>1, <1>2, <1>3

(* A renewed challenge is shown.                                             *)
LEMMA ShownStep ==
  ASSUME AuthInv, NEW op \in {"login", "register", "resend"}, Answered(op)
  PROVE  AuthInv'
  <1>1. /\ flying[op] > 0 /\ Effect(op) /\ flying' = [flying EXCEPT ![op] = @ - 1]
        /\ ShowVerification(srvChallenge', srvPurpose', srvMailed')
        /\ password' = IF op = "resend" THEN password ELSE PasswordAfter
        /\ busy' = FALSE /\ lost' = FALSE
        /\ UNCHANGED addressVars /\ UNCHANGED <<entryVars, asked>>
    BY DEF Answered
  <1>2. /\ place = "login" /\ caps /\ leaving = "" /\ checking = "none"
        /\ flying' \in [Ops -> Nat] /\ \A o \in Ops : flying'[o] = 0
    BY <1>1, OnlyRequest DEF Ops
  <1>3. /\ versions' = versions + 1 /\ srvChallenge' = versions + 1 /\ UNCHANGED srvSession
    BY <1>1 DEF Effect, Renewed
  <1>4. /\ versions' \in Nat /\ srvChallenge' \in Nat /\ srvChallenge' # 0
    <2>1. versions \in Nat
      BY DEF AuthInv, AuthTyped
    <2> QED
      BY <1>3, <2>1
  <1>5. /\ shown' = srvChallenge' /\ purpose' = srvPurpose' /\ timers' = 1 /\ code' = 0
        /\ panel' = PanelOf(shown', tab) /\ tab' = tab
    BY <1>1 DEF ShowVerification, ClearedTimers, FormReset
  <1>6. AuthTyped'
    BY <1>1, <1>2, <1>3, <1>4, <1>5 DEF AuthInv, AuthTyped, addressVars, entryVars
  <1>7. AppFits'
    BY <1>1 DEF AuthInv, AppFits, entryVars
  <1>8. LoginFits'
    BY <1>1 DEF AuthInv, LoginFits, addressVars, entryVars
  <1>9. ~(flying'["resend"] > 0)
    BY <1>2, NoneFlying
  <1>10. place' = "login" /\ caps' /\ leaving' = ""
    BY <1>1, <1>2 DEF addressVars, entryVars
  <1>11. RequestsFit'
    BY <1>2, <1>9, <1>10 DEF RequestsFit
  <1>12. ChallengeFits' /\ OnePanelIsSeen'
    BY <1>3, <1>4, <1>5 DEF ChallengeFits, OnePanelIsSeen
  <1>13. TimerFollowsChallenge'
    BY <1>4, <1>5 DEF TimerFollowsChallenge
  <1>14. WayFits'
    BY <1>1 DEF AuthInv, WayFits, addressVars
  <1>15. OneAccountRequest'
    BY <1>2, NoneFlying DEF OneAccountRequest
  <1>16. SecretsDoNotLinger'
    <2>1. CASE op = "resend"
      <3>1. shown # 0
        BY <1>1, <2>1 DEF AuthInv, RequestsFit
      <3> QED
        BY <1>1, <1>5, <2>1, <3>1 DEF AuthInv, SecretsDoNotLinger
    <2>2. CASE op # "resend"
      BY <1>1, <1>5, <2>2 DEF SecretsDoNotLinger, PasswordAfter
    <2> QED
      BY <2>1, <2>2
  <1> QED
    BY <1>6, <1>7, <1>8, <1>11, <1>12, <1>13, <1>14, <1>15, <1>16 DEF AuthInv

(* A cancelled challenge is forgotten, with its form.                        *)
LEMMA CancelledStep ==
  ASSUME AuthInv, Answered("cancel")
  PROVE  AuthInv'
  <1>1. /\ flying["cancel"] > 0 /\ Effect("cancel") /\ flying' = [flying EXCEPT !["cancel"] = @ - 1]
        /\ ForgetVerification(tabWanted)
        /\ busy' = FALSE /\ lost' = FALSE
        /\ UNCHANGED <<addressVars, password>> /\ UNCHANGED <<entryVars, asked>>
    BY DEF Answered
  <1>2. /\ place = "login" /\ caps /\ leaving = "" /\ checking = "none"
        /\ flying' \in [Ops -> Nat] /\ \A o \in Ops : flying'[o] = 0
    BY <1>1, OnlyRequest DEF Ops
  <1>3. srvChallenge' = 0 /\ UNCHANGED <<srvSession, versions>>
    BY <1>1 DEF Effect
  <1>4. 0 <= versions'
    <2>1. versions \in Nat /\ versions' = versions
      BY <1>3 DEF AuthInv, AuthTyped
    <2> QED
      BY <2>1
  <1>5. /\ shown' = 0 /\ timers' = 0 /\ code' = 0 /\ panel' = PanelOf(0, tab')
    BY <1>1 DEF ForgetVerification
  <1>6. AuthTyped'
    BY <1>1, <1>2, <1>3, <1>5 DEF AuthInv, AuthTyped, addressVars, entryVars
  <1>7. AppFits'
    BY <1>1 DEF AuthInv, AppFits, entryVars
  <1>8. LoginFits'
    BY <1>1 DEF AuthInv, LoginFits, addressVars, entryVars
  <1>9. ~(flying'["resend"] > 0)
    BY <1>2, NoneFlying
  <1>10. place' = "login" /\ caps' /\ leaving' = ""
    BY <1>1, <1>2 DEF addressVars, entryVars
  <1>11. RequestsFit'
    BY <1>2, <1>9, <1>10 DEF RequestsFit
  <1>12. ChallengeFits' /\ TimerFollowsChallenge' /\ SecretsDoNotLinger'
    BY <1>3, <1>4, <1>5 DEF ChallengeFits, TimerFollowsChallenge, SecretsDoNotLinger
  <1>13. WayFits'
    BY <1>1 DEF AuthInv, WayFits, addressVars
  <1>14. OneAccountRequest'
    BY <1>2, NoneFlying DEF OneAccountRequest
  <1>15. OnePanelIsSeen'
    BY <1>5 DEF OnePanelIsSeen
  <1> QED
    BY <1>6, <1>7, <1>8, <1>11, <1>12, <1>13, <1>14, <1>15 DEF AuthInv

(* A sign-in goes to the workspace with nothing on its way.                  *)
LEMMA EnteredStep ==
  ASSUME AuthInv, NEW op \in {"verify", "session"}, Answered(op)
  PROVE  AuthInv'
  <1>1. /\ flying[op] > 0 /\ Effect(op) /\ flying' = [flying EXCEPT ![op] = @ - 1]
        /\ EnterWorkspace
        /\ UNCHANGED <<shown, panelVars, expired, cooling, password, lost>> /\ UNCHANGED <<entryVars, asked>>
        /\ busy' \in BOOLEAN /\ code' \in {0, code}
    BY DEF Answered, formVars, AuthInv, AuthTyped
  <1>2. /\ place = "login" /\ caps /\ leaving = "" /\ checking = "none"
        /\ flying' \in [Ops -> Nat] /\ \A o \in Ops : flying'[o] = 0
    BY <1>1, OnlyRequest DEF Ops
  <1>3. /\ leaving' = "index" /\ hash' = (IF saved # "" THEN saved ELSE Dashboard) /\ place' = "login"
    BY <1>1, <1>2 DEF EnterWorkspace
  <1>4. srvSession' = TRUE /\ srvChallenge' \in {0, srvChallenge} /\ UNCHANGED versions
    BY <1>1 DEF Effect, challengeVars
  <1>6. AuthTyped'
    <2>4. srvChallenge \in Nat /\ code \in Nat /\ versions \in Nat /\ shown \in Nat
      BY DEF AuthInv, AuthTyped
    <2>5. (srvChallenge' = 0 \/ srvChallenge' = srvChallenge) /\ (code' = 0 \/ code' = code)
      BY <1>1, <1>4
    <2>1. srvSession' \in BOOLEAN /\ srvChallenge' \in Nat /\ versions' \in Nat
      BY <1>4, <2>4, <2>5
    <2>2. code' \in Nat /\ shown' \in Nat /\ busy' \in BOOLEAN
      BY <1>1, <2>4, <2>5
    <2>3. UNCHANGED entryVars
      BY <1>1
    <2> QED
      BY <1>2, <1>3, <2>1, <2>2, <2>3 DEF AuthInv, AuthTyped, entryVars
  <1>7. AppFits'
    BY <1>1 DEF AuthInv, AppFits, entryVars
  <1>8. LoginFits'
    BY <1>1, <1>2, <1>3 DEF AuthInv, LoginFits, entryVars
  <1>9. ~(flying'["resend"] > 0)
    BY <1>2, NoneFlying
  <1>10. place' = "login" /\ caps' /\ leaving' = "index"
    BY <1>1, <1>2, <1>3 DEF entryVars
  <1>11. RequestsFit'
    BY <1>2, <1>9, <1>10 DEF RequestsFit
  <1>12. ChallengeFits' /\ TimerFollowsChallenge' /\ OnePanelIsSeen'
    <2>1. /\ srvChallenge' <= versions' /\ versions <= versions' /\ versions' \in Nat
          /\ shown # 0 /\ srvChallenge' # 0 => shown <= srvChallenge'
      BY <1>1, OnServer DEF Ops
    <2>2. shown <= versions /\ shown \in Nat /\ versions \in Nat /\ shown' = shown
      BY <1>1 DEF AuthInv, AuthTyped, ChallengeFits
    <2>3. shown' <= versions'
      BY <2>1, <2>2
    <2> QED
      BY <1>3, <2>1, <2>2, <2>3 DEF ChallengeFits, TimerFollowsChallenge, OnePanelIsSeen
  <1>13. WayFits'
    <2>1. asked # "" => saved = asked
      BY <1>2 DEF AuthInv, WayFits
    <2> QED
      BY <1>1, <1>3, <2>1 DEF WayFits
  <1>14. OneAccountRequest'
    BY <1>2, NoneFlying DEF OneAccountRequest
  <1>15. SecretsDoNotLinger'
    BY <1>1 DEF AuthInv, SecretsDoNotLinger
  <1> QED
    BY <1>6, <1>7, <1>8, <1>11, <1>12, <1>13, <1>14, <1>15 DEF AuthInv

(* A failed request changes nothing on the page but the busy mark.           *)
LEMMA FailedStep ==
  ASSUME AuthInv, NEW op \in Ops, Failed(op)
  PROVE  AuthInv'
  <1>1. /\ flying[op] > 0 /\ flying' = [flying EXCEPT ![op] = @ - 1] /\ busy' = FALSE
        /\ UNCHANGED <<addressVars, entryVars, formVars, asked>>
    BY DEF Failed, FreesOnError
  <1>2. /\ place = "login" /\ caps /\ leaving = "" /\ checking = "none"
        /\ flying' \in [Ops -> Nat] /\ \A o \in Ops : flying'[o] = 0
    BY <1>1, OnlyRequest
  <1>3. (Effect(op) \/ Refused(op)) /\ (~lost' => ~lost /\ srvChallenge' \in {0, srvChallenge})
    BY DEF Failed
  <1>4. /\ srvSession' \in BOOLEAN /\ versions' \in Nat /\ srvChallenge' \in Nat
        /\ versions <= versions' /\ srvChallenge' <= versions'
        /\ shown # 0 /\ srvChallenge' # 0 => shown <= srvChallenge'
        /\ srvChallenge' \in {0, srvChallenge} => srvChallenge' = 0 \/ srvPurpose' = srvPurpose
    BY <1>3, OnServer
  <1>6. AuthTyped'
    BY <1>1, <1>2, <1>4 DEF AuthInv, AuthTyped, entryVars, addressVars, formVars
  <1>7. AppFits'
    BY <1>1 DEF AuthInv, AppFits, entryVars
  <1>8. LoginFits'
    BY <1>1 DEF AuthInv, LoginFits, entryVars, addressVars
  <1>9. ~(flying'["resend"] > 0)
    BY <1>2, NoneFlying
  <1>10. place' = "login" /\ caps' /\ leaving' = ""
    BY <1>1, <1>2 DEF entryVars, addressVars
  <1>11. RequestsFit'
    BY <1>2, <1>9, <1>10 DEF RequestsFit
  <1>12. ChallengeFits'
    <2>1. shown' = shown /\ purpose' = purpose /\ UNCHANGED <<place, caps, leaving>>
      BY <1>1 DEF addressVars, entryVars, formVars, panelVars
    <2>2. shown' <= versions'
      <3>1. shown \in Nat /\ versions \in Nat /\ shown <= versions
        BY DEF AuthInv, AuthTyped, ChallengeFits
      <3> QED
        BY <1>4, <2>1, <3>1
    <2>3. ~lost' /\ srvChallenge' # 0 => srvChallenge' = srvChallenge /\ srvPurpose' = srvPurpose
      BY <1>3, <1>4
    <2> QED
      BY <1>2, <1>3, <1>4, <2>1, <2>2, <2>3 DEF AuthInv, ChallengeFits
  <1>13. WayFits' /\ TimerFollowsChallenge'
    BY <1>1 DEF AuthInv, WayFits, TimerFollowsChallenge, addressVars, formVars
  <1>14. OneAccountRequest'
    BY <1>2, NoneFlying DEF OneAccountRequest
  <1>15. SecretsDoNotLinger' /\ OnePanelIsSeen'
    BY <1>1 DEF AuthInv, SecretsDoNotLinger, OnePanelIsSeen, PanelOf, addressVars, formVars, panelVars
  <1> QED
    BY <1>6, <1>7, <1>8, <1>11, <1>12, <1>13, <1>14, <1>15 DEF AuthInv

(* The page does not see what happens to the challenge meanwhile.            *)
LEMMA UnseenStep ==
  ASSUME AuthInv, ChallengeEnds \/ ResendsLate
  PROVE  AuthInv'
  <1>1. /\ UNCHANGED <<addressVars, entryVars, busy, flying, formVars, asked>>
        /\ srvSession' = srvSession
    BY DEF ChallengeEnds, ResendsLate, Renewed, history
  <1>2. /\ \/ srvChallenge' = 0 /\ versions' = versions
           \/ srvChallenge' = versions + 1 /\ versions' = versions + 1 /\ lost' = TRUE
    BY DEF ChallengeEnds, ResendsLate, Renewed
  <1>3. /\ shown \in Nat /\ srvChallenge \in Nat /\ versions \in Nat
        /\ shown <= versions /\ srvChallenge <= versions
    BY DEF AuthInv, AuthTyped, ChallengeFits
  <1>4. AuthTyped'
    <2>1. srvSession' \in BOOLEAN
      BY <1>1 DEF AuthInv, AuthTyped
    <2>2. srvChallenge' \in Nat /\ versions' \in Nat
      BY <1>2, <1>3
    <2> QED
      BY <1>1, <2>1, <2>2 DEF AuthInv, addressVars, entryVars, formVars, panelVars, AuthTyped
  <1>5. AppFits' /\ LoginFits'
    BY <1>1 DEF AuthInv, addressVars, entryVars, formVars, panelVars, AppFits, LoginFits
  <1>6. RequestsFit'
    BY <1>1 DEF AuthInv, addressVars, entryVars, formVars, panelVars, RequestsFit, NothingIsShown
  <1>7. ChallengeFits'
    <2>1. shown' = shown
      BY <1>1 DEF formVars
    <2>2. /\ shown' <= versions' /\ srvChallenge' <= versions'
          /\ shown' # 0 /\ srvChallenge' # 0 => shown' <= srvChallenge'
      BY <1>2, <1>3, <2>1
    <2>3. ~lost' => srvChallenge' = 0
      BY <1>2
    <2> QED
      BY <2>2, <2>3 DEF ChallengeFits
  <1>8. WayFits' /\ OneAccountRequest' /\ TimerFollowsChallenge'
    BY <1>1 DEF AuthInv, addressVars, entryVars, formVars, panelVars, WayFits, OneAccountRequest, TimerFollowsChallenge
  <1>9. SecretsDoNotLinger' /\ OnePanelIsSeen'
    BY <1>1 DEF AuthInv, addressVars, entryVars, formVars, panelVars, SecretsDoNotLinger, OnePanelIsSeen, PanelOf
  <1> QED
    BY <1>4, <1>5, <1>6, <1>7, <1>8, <1>9 DEF AuthInv

LEMMA AuthInitInv ==
  ASSUME AuthInit
  PROVE  AuthInv
  <1>1. \A o \in Ops : flying[o] = 0
    BY DEF AuthInit
  <1>2. flying \in [Ops -> Nat]
    BY DEF AuthInit
  <1>3. AuthTyped
    BY <1>2 DEF AuthInit, AuthTyped
  <1>4. apps = 0 /\ checking = "status"
    BY DEF AuthInit
  <1>5. ~(apps > 0) /\ apps <= 1
    BY <1>4
  <1>6. AppFits
    BY <1>4, <1>5 DEF AppFits
  <1>7. ~(flying["resend"] > 0)
    BY <1>1 DEF Ops
  <1>8. NothingIsShown
    BY <1>1 DEF AuthInit, NothingIsShown
  <1>9. RequestsFit
    BY <1>1, <1>7, <1>8 DEF RequestsFit
  <1>10. LoginFits /\ WayFits
    BY DEF AuthInit, LoginFits, WayFits
  <1>13. ChallengeFits
    <2>1. shown = 0 /\ srvChallenge = 0 /\ versions = 0
      BY DEF AuthInit
    <2> QED
      BY <2>1 DEF ChallengeFits
  <1>12. OneAccountRequest
    BY <1>1, NoneFlying DEF OneAccountRequest
  <1>11. TimerFollowsChallenge /\ SecretsDoNotLinger /\ OnePanelIsSeen
    BY DEF AuthInit, TimerFollowsChallenge, SecretsDoNotLinger, OnePanelIsSeen
  <1> QED
    BY <1>3, <1>6, <1>9, <1>10, <1>11, <1>12, <1>13 DEF AuthInv

LEMMA AuthNextInv ==
  ASSUME AuthInv, [AuthNext]_authVars
  PROVE  AuthInv'
  <1>1. CASE AuthNext
    <2>1. CASE Unload \/ Reload \/ Tick
      BY <2>1, UnloadStep, ReloadStep, TickStep
    <2>2. CASE \E section \in Sections : OpenSection(section)
      BY <2>2, OpenSectionStep
    <2>3. CASE \/ RetryCheck \/ CheckFails \/ StatusArrives \/ CatalogArrives \/ ScriptsRun \/ SessionEnds
      BY <2>3, RetryCheckStep, CheckFailsStep, StatusStep, CatalogStep, ScriptsStep, SessionEndsStep
    <2>4. CASE \E t \in {"login", "register"} : SwitchAuthTab(t) \/ AccessTab(t)
      BY <2>4, SwitchTabStep, AccessTabStep
    <2>5. CASE TypePassword \/ TypeCode \/ GoInstitutional
      BY <2>5, TypePasswordStep, TypeCodeStep, GoInstitutionalStep
    <2>9. CASE ChallengeEnds \/ ResendsLate
      BY <2>9, UnseenStep
    <2>6. ASSUME NEW op \in Ops, Send(op) PROVE AuthInv'
      BY <2>6, SendStep
    <2>7. ASSUME NEW op \in Ops, Answered(op) PROVE AuthInv'
      <3>1. op \in {"login", "register", "resend"} \/ op = "cancel" \/ op \in {"verify", "session"}
        BY DEF Ops
      <3> QED
        BY <2>7, <3>1, ShownStep, CancelledStep, EnteredStep
    <2>8. ASSUME NEW op \in Ops, Failed(op) PROVE AuthInv'
      BY <2>8, FailedStep
    <2> QED
      BY <1>1, <2>1, <2>2, <2>3, <2>4, <2>5, <2>6, <2>7, <2>8, <2>9 DEF AuthNext
  <1>2. CASE UNCHANGED authVars
    <2> USE <1>2 DEF AuthInv, authVars, serverVars, challengeVars, addressVars, entryVars, formVars, panelVars
    <2>1. AuthTyped' /\ AppFits' /\ LoginFits'
      BY DEF AuthTyped, AppFits, LoginFits
    <2>2. RequestsFit' /\ ChallengeFits' /\ WayFits'
      BY DEF RequestsFit, NothingIsShown, ChallengeFits, WayFits
    <2>3. OneAccountRequest' /\ TimerFollowsChallenge' /\ SecretsDoNotLinger' /\ OnePanelIsSeen'
      BY DEF OneAccountRequest, TimerFollowsChallenge, SecretsDoNotLinger, OnePanelIsSeen, PanelOf
    <2> QED
      BY <2>1, <2>2, <2>3
  <1> QED
    BY <1>1, <1>2

LEMMA AuthIsSafe ==
  ASSUME AuthInv
  PROVE  AuthSafety
  <1>1. AsksForHeldChallenge
    BY DEF AuthInv, ChallengeFits, AsksForHeldChallenge
  <1>2. AppStartsOnce
    BY DEF AuthInv, AppFits, AppStartsOnce
  <1> QED
    BY <1>1, <1>2 DEF AuthInv, AuthSafety

(* Only a page that unloads becomes another.                                 *)
LEMMA LandingStep ==
  ASSUME AuthInv, [AuthNext]_authVars, place = "login", place' = "index", asked # ""
  PROVE  hash' = asked
  <1>1. Unload
    BY DEF AuthNext, authVars, addressVars, Reload, Load, Tick, OpenSection, RetryCheck, CheckFails, StatusArrives,
           CatalogArrives, ScriptsRun, SessionEnds, RequireLogin, EnterWorkspace, SwitchAuthTab, AccessTab, TypePassword,
           TypeCode, GoInstitutional, ChallengeEnds, ResendsLate, Send, Answered, Failed
  <1> QED
    BY <1>1 DEF Unload, Load, AuthInv, WayFits

(*****************************************************************************)
(* The panels of the integrations.                                           *)
(*****************************************************************************)
\* An analysis is followed as long as the panel has not told its end.
FollowFits ==
    /\ analyses \in [1..MaxAnalyses -> {"none", "queued", "running"} \cup Final]
    /\ step \in {"loading", "asking", "pause", "last"} => current \in Registered
    /\ step \in {"idle", "last"} => notice \in {"none", "ready", "failed", "still registered", "error"}
    /\ notice \in {"ready", "failed"} => current \in Registered
    /\ NoticeIsTrue

Presses == [action : {"finalize", "verify", "download", "events", "approve"}, item : Items, drawing : Nat,
            at : {"sent", "done"}, result : {"none", "ok", "preserved", "integrity_failed"}]

\* A request that was served has preserved its record for good.
ListsFit ==
    /\ records \in [Items -> {"absent", "pending", "preserved", "integrity_failed"}]
    /\ drawing \in Nat /\ pressed \subseteq Presses
    /\ \A p \in pressed : p.at = "done" /\ p.action \in {"finalize", "approve"} =>
          records[p.item] \notin {"absent", "pending"}
    /\ StatusIsTrue /\ EveryPressIsTold
    /\ status.action \in {"finalize", "approve"} => status.item \in Items

(***************************************************************************)
(* The agents.                                                             *)
(***************************************************************************)
(* The API registers under the first number that is free.                    *)
LEMMA RegistersFirst ==
  ASSUME FollowFits, ApiRegisters
  PROVE  \E n \in 1..MaxAnalyses :
            /\ analyses[n] = "none" /\ analyses' = [analyses EXCEPT ![n] = "queued"]
            /\ \/ current' = n /\ step' = "loading" /\ notice' = "registered"
               \/ current' = 0 /\ step' = "idle" /\ notice' = "error"
  <1> DEFINE Free(n) == n \in 1..MaxAnalyses /\ n \notin Registered /\ \A m \in 1..(n - 1) : m \in Registered
             S == {n \in 1..MaxAnalyses : n \notin Registered}
             n == CHOOSE n \in 1..MaxAnalyses : n \notin Registered /\ \A m \in 1..(n - 1) : m \in Registered
  <1>1. S # {} /\ S \in SUBSET Nat
    BY DEF ApiRegisters
  <1>2. PICK t \in S : \A u \in S : t <= u
    BY <1>1, LeastNumber
  <1>3. \A m \in 1..(t - 1) : m \in Registered
    <2> SUFFICES ASSUME NEW m \in 1..(t - 1) PROVE m \in Registered
      OBVIOUS
    <2>1. m \in 1..MaxAnalyses /\ ~(t <= m)
      BY <1>1, <1>2, IntegrationAssumption
    <2> QED
      BY <1>2, <2>1
  <1>4. n \in 1..MaxAnalyses /\ n \notin Registered
    <2>1. t \in 1..MaxAnalyses /\ t \notin Registered
      BY <1>2
    <2>2. \E x \in 1..MaxAnalyses : x \notin Registered /\ \A m \in 1..(x - 1) : m \in Registered
      BY <2>1, <1>3
    <2> QED
      BY <2>2
  <1>5. analyses[n] = "none"
    BY <1>4 DEF Registered
  <1>6. /\ analyses' = [analyses EXCEPT ![n] = "queued"]
        /\ \/ current' = n /\ step' = "loading" /\ notice' = "registered"
           \/ current' = 0 /\ step' = "idle" /\ notice' = "error"
    BY DEF ApiRegisters, Says
  <1> HIDE DEF n
  <1> QED
    BY <1>4, <1>5, <1>6

(* What is registered stays so, and an end is never taken back.              *)
LEMMA FollowStep0 ==
  ASSUME FollowFits, [AgentsNext]_integrationVars
  PROVE  FollowFits'
  <1> DEFINE Same == UNCHANGED <<step, current, analyses, notice>>
  <1>0. CASE Same
    BY <1>0 DEF FollowFits, Registered, NoticeIsTrue
  <1>1. CASE MountAgents \/ Availability \/ TwoMinutes \/ UNCHANGED integrationVars
    BY <1>0, <1>1 DEF MountAgents, Availability, TwoMinutes, integrationVars
  <1>2. CASE LeaveAgents
    BY <1>2 DEF LeaveAgents, FollowFits, Registered, NoticeIsTrue
  <1>3. CASE SendAnalysis
    BY <1>3 DEF SendAnalysis, FollowFits, Registered, NoticeIsTrue
  <1>4. CASE ApiRegisters
    <2>1. PICK n \in 1..MaxAnalyses :
            /\ analyses[n] = "none" /\ analyses' = [analyses EXCEPT ![n] = "queued"]
            /\ \/ current' = n /\ step' = "loading" /\ notice' = "registered"
               \/ current' = 0 /\ step' = "idle" /\ notice' = "error"
      BY <1>4, RegistersFirst
    <2>2. analyses' \in [1..MaxAnalyses -> {"none", "queued", "running"} \cup Final]
      BY <2>1 DEF FollowFits
    <2>3. analyses'[n] = "queued"
      BY <2>1 DEF FollowFits
    <2> QED
      BY <2>1, <2>2, <2>3 DEF FollowFits, Registered, NoticeIsTrue
  <1>5. CASE RegisterFails \/ OutOfTime \/ AskFails
    BY <1>5 DEF RegisterFails, OutOfTime, AskFails, Says, FollowFits, Registered, NoticeIsTrue
  <1>6. CASE AnalysesLoaded \/ Paused \/ LastLoad
    BY <1>6 DEF AnalysesLoaded, Paused, LastLoad, FollowFits, Registered, NoticeIsTrue
  <1>7. CASE AskAnalysis
    <2>1. /\ step = "asking" /\ notice' = Outcome(analyses[current])
          /\ step' = (IF notice' = "registered" THEN "pause" ELSE "last") /\ UNCHANGED <<current, analyses>>
      BY <1>7 DEF AskAnalysis
    <2>2. current \in Registered
      BY <2>1 DEF FollowFits
    <2>3. \/ notice' = "failed" /\ analyses[current] = "failed"
          \/ notice' = "ready" /\ analyses[current] = "pending_human_review"
          \/ notice' = "registered"
      BY <2>1 DEF Outcome, Final
    <2> QED
      BY <2>1, <2>2, <2>3 DEF FollowFits, Registered, NoticeIsTrue
  <1>8. ASSUME NEW n \in 1..MaxAnalyses, Analyse(n) PROVE FollowFits'
    <2>1. /\ analyses[n] \in {"queued", "running"} /\ UNCHANGED <<step, current, notice>>
          /\ \E s \in {"running"} \cup Final : analyses' = [analyses EXCEPT ![n] = s]
      BY <1>8 DEF Analyse
    <2>2. analyses' \in [1..MaxAnalyses -> {"none", "queued", "running"} \cup Final]
      BY <2>1 DEF FollowFits
    <2>3. \A m \in 1..MaxAnalyses : analyses[m] # "none" => analyses'[m] # "none"
      BY <2>1 DEF FollowFits, Final
    <2>4. \A m \in 1..MaxAnalyses : analyses[m] \in Final => analyses'[m] = analyses[m]
      <3> TAKE m \in 1..MaxAnalyses
      <3> SUFFICES ASSUME analyses[m] \in Final PROVE analyses'[m] = analyses[m]
        OBVIOUS
      <3>1. m # n
        BY <2>1 DEF Final
      <3> QED
        BY <2>1, <3>1 DEF FollowFits
    <2>5. current \in Registered => current \in Registered'
      BY <2>3 DEF Registered
    <2>6. NoticeIsTrue'
      <3>1. notice \in {"registered", "still registered"} => current \in Registered'
        BY <2>5 DEF FollowFits, NoticeIsTrue
      <3>2. ASSUME notice \in {"ready", "failed"}
            PROVE  analyses[current] \in Final /\ current \in 1..MaxAnalyses /\ analyses'[current] = analyses[current]
        <4>1. analyses[current] \in Final /\ current \in 1..MaxAnalyses
          BY <3>2 DEF FollowFits, NoticeIsTrue, Registered, Final
        <4> QED
          BY <4>1, <2>4
      <3> QED
        BY <2>1, <3>1, <3>2 DEF FollowFits, NoticeIsTrue
    <2> QED
      BY <2>1, <2>2, <2>5, <2>6 DEF FollowFits
  <1> QED
    BY <1>1, <1>2, <1>3, <1>4, <1>5, <1>6, <1>7, <1>8 DEF AgentsNext

(* An analysis is sent when the one before was told an end.                  *)
LEMMA SentAlone ==
  ASSUME FollowFits, [AgentsNext]_integrationVars, step' = "posting", step # "posting"
  PROVE  notice \in {"none", "ready", "failed", "still registered", "error"}
  <1>1. SendAnalysis
    BY DEF AgentsNext, integrationVars, MountAgents, Availability, LeaveAgents, ApiRegisters, RegisterFails,
           AnalysesLoaded, OutOfTime, AskAnalysis, AskFails, Paused, LastLoad, TwoMinutes, Analyse, Says
  <1> QED
    BY <1>1 DEF SendAnalysis, MaySubmit, FollowFits

(***************************************************************************)
(* The lists.                                                              *)
(***************************************************************************)
Answered1(p, r) == [p EXCEPT !.at = "done", !.result = r]

LEMMA AnsweredIs ==
  ASSUME NEW p \in Presses, NEW r \in {"ok", "preserved", "integrity_failed"}
  PROVE  /\ Answered1(p, r) \in Presses /\ Answered1(p, r).action = p.action /\ Answered1(p, r).item = p.item
  BY DEF Answered1, Presses

LEMMA ListsStep ==
  ASSUME ListsFit, [ListsNext]_integrationVars
  PROVE  ListsFit'
  <1> USE DEF Nothing, FailedStatus
  <1>1. CASE MountRecords
    BY <1>1 DEF MountRecords, ListsFit, StatusIsTrue, EveryPressIsTold
  <1>2. CASE UploadEvidence
    <2>1. records["evidence"] = "absent" /\ records' = [records EXCEPT !["evidence"] = "pending"]
          /\ UNCHANGED <<drawing, pressed, status>>
      BY <1>2 DEF UploadEvidence
    <2>2. records' \in [Items -> {"absent", "pending", "preserved", "integrity_failed"}]
      BY <2>1 DEF ListsFit
    <2>3. \A i \in Items : records[i] \notin {"absent", "pending"} => records'[i] = records[i]
      BY <2>1 DEF ListsFit
    <2>4. \A p \in pressed : p.item \in Items
      BY DEF ListsFit, Presses
    <2> QED
      BY <2>1, <2>2, <2>3, <2>4 DEF ListsFit, StatusIsTrue, EveryPressIsTold
  <1>3. CASE ReloadRecords \/ UNCHANGED integrationVars
    BY <1>3 DEF ReloadRecords, integrationVars, ListsFit, StatusIsTrue, EveryPressIsTold
  <1>4. CASE LoadsList
    BY <1>4 DEF LoadsList, ListsFit, StatusIsTrue, EveryPressIsTold
  <1>5. CASE LoadFails
    BY <1>5 DEF LoadFails, ListsFit, StatusIsTrue, EveryPressIsTold
  <1>6. ASSUME NEW i \in Items, NEW a \in {"finalize", "verify", "download", "events", "approve"}, Press(a, i)
        PROVE  ListsFit'
    <2> DEFINE p == [action |-> a, item |-> i, drawing |-> drawing, at |-> "sent", result |-> "none"]
    <2>1. pressed' = pressed \union {p} /\ status'.action = "working" /\ UNCHANGED <<records, drawing>>
      BY <1>6 DEF Press
    <2>2. p \in Presses /\ p.at = "sent"
      BY DEF ListsFit, Presses
    <2> HIDE DEF p
    <2> QED
      BY <2>1, <2>2 DEF ListsFit, StatusIsTrue, EveryPressIsTold
  <1>7. ASSUME NEW p \in pressed, ApiServes(p) PROVE ListsFit'
    <2>1. p \in Presses /\ p.item \in Items
      BY DEF ListsFit, Presses
    <2>2. UNCHANGED <<drawing, status>> /\ Served(p)
      BY <1>7 DEF ApiServes
    <2>3. PICK r \in {"ok", "preserved", "integrity_failed"} : pressed' = (pressed \ {p}) \union {Answered1(p, r)}
      BY <2>2 DEF Served, Serves, Answered1
    <2>a. records[p.item] # "absent"
      BY <2>2 DEF Served
    <2>b. \/ /\ p.action \in {"finalize", "approve"}
             /\ records' = [records EXCEPT ![p.item] = IF @ = "pending" THEN "preserved" ELSE @]
          \/ /\ p.action = "verify"
             /\ \E s \in {"preserved", "integrity_failed"} : records' = [records EXCEPT ![p.item] = s]
          \/ p.action \in {"events", "download"} /\ records' = records
      BY <2>2 DEF Served
    <2>4. \/ records' = records
          \/ \E s \in {"preserved", "integrity_failed"} : records' = [records EXCEPT ![p.item] = s]
      <3>1. CASE p.action \in {"finalize", "approve"} /\ records[p.item] # "pending"
        BY <2>1, <2>b, <3>1 DEF ListsFit
      <3>2. CASE p.action \in {"finalize", "approve"} /\ records[p.item] = "pending"
        BY <2>1, <2>b, <3>2 DEF ListsFit
      <3>3. CASE p.action \notin {"finalize", "approve"}
        BY <2>b, <3>3
      <3> QED
        BY <3>1, <3>2, <3>3
    <2>5. records' \in [Items -> {"absent", "pending", "preserved", "integrity_failed"}]
      BY <2>1, <2>4 DEF ListsFit
    <2>6. \A i \in Items : records[i] \notin {"absent", "pending"} => records'[i] \notin {"absent", "pending"}
      BY <2>1, <2>4 DEF ListsFit
    <2>7. p.action \in {"finalize", "approve"} => records'[p.item] \notin {"absent", "pending"}
      BY <2>1, <2>a, <2>b DEF ListsFit
    <2>8. /\ Answered1(p, r) \in Presses /\ Answered1(p, r).action = p.action /\ Answered1(p, r).item = p.item
      BY <2>1, AnsweredIs
    <2>9. pressed' \subseteq Presses /\ pressed' # {}
      BY <2>3, <2>8 DEF ListsFit
    <2>10. ASSUME NEW q \in pressed', q.at = "done", q.action \in {"finalize", "approve"}
           PROVE  records'[q.item] \notin {"absent", "pending"}
      <3>1. CASE q = Answered1(p, r)
        BY <2>7, <2>8, <2>10, <3>1
      <3>2. CASE q \in pressed
        BY <2>6, <2>10, <3>2 DEF ListsFit, Presses
      <3> QED
        BY <2>3, <3>1, <3>2
    <2> QED
      BY <2>2, <2>5, <2>6, <2>9, <2>10 DEF ListsFit, StatusIsTrue, EveryPressIsTold
  <1>8. ASSUME NEW p \in pressed, Ended(p) PROVE ListsFit'
    <2>1. /\ p.at = "done" /\ p \in Presses /\ pressed' = pressed \ {p} /\ UNCHANGED <<records, drawing>>
          /\ status'.action = p.action /\ status'.item = p.item
      BY <1>8 DEF Ended, AnswerCame, ListsFit
    <2>2. p.action # "working" /\ p.item \in Items
      BY <2>1 DEF Presses
    <2> QED
      BY <2>1, <2>2 DEF ListsFit, StatusIsTrue, EveryPressIsTold
  <1>9. ASSUME NEW p \in pressed, PressFails(p) PROVE ListsFit'
    BY <1>9 DEF PressFails, ListsFit, StatusIsTrue, EveryPressIsTold
  <1> QED
    BY <1>1, <1>2, <1>3, <1>4, <1>5, <1>6, <1>7, <1>8, <1>9 DEF ListsNext

(* The lists leave the panel of the agents alone.                            *)
LEMMA ListsApart == ListsNext => UNCHANGED followVars
  BY DEF ListsNext, followVars, MountRecords, UploadEvidence, ReloadRecords, LoadsList, LoadFails, Press, ApiServes,
         Ended, PressFails

LEMMA IntegrationInitInv ==
  ASSUME IntegrationInit
  PROVE  FollowFits /\ ListsFit
  <1>1. FollowFits
    BY DEF IntegrationInit, FollowFits, Registered, NoticeIsTrue
  <1>2. records \in [Items -> {"absent", "pending", "preserved", "integrity_failed"}]
    BY DEF IntegrationInit
  <1>3. ListsFit
    BY <1>2 DEF IntegrationInit, ListsFit, StatusIsTrue, EveryPressIsTold, Nothing
  <1> QED
    BY <1>1, <1>3

LEMMA IntegrationNextInv ==
  ASSUME FollowFits, ListsFit, [IntegrationNext]_integrationVars
  PROVE  FollowFits' /\ ListsFit'
  <1>1. CASE [AgentsNext]_integrationVars
    <2>1. UNCHANGED listVars
      BY <1>1 DEF AgentsNext, integrationVars, listVars, MountAgents, Availability, LeaveAgents, SendAnalysis, ApiRegisters,
           RegisterFails, AnalysesLoaded, OutOfTime, AskAnalysis, AskFails, Paused, LastLoad, TwoMinutes, Analyse
    <2>2. ListsFit'
      BY <2>1 DEF listVars, ListsFit, StatusIsTrue, EveryPressIsTold
    <2> QED
      BY <1>1, <2>2, FollowStep0
  <1>2. CASE ListsNext
    <2>1. UNCHANGED followVars
      BY <1>2, ListsApart
    <2>2. FollowFits'
      BY <2>1 DEF followVars, FollowFits, Registered, NoticeIsTrue
    <2> QED
      BY <1>2, <2>2, ListsStep
  <1> QED
    BY <1>1, <1>2 DEF IntegrationNext

LEMMA IntegrationIsSafe ==
  ASSUME FollowFits, ListsFit
  PROVE  IntegrationSafety
  BY DEF FollowFits, ListsFit, IntegrationSafety

(***************************************************************************)
(* The audit view.                                                         *)
(***************************************************************************)
AuditCallSet == [kind : {"load", "verify"}, limit : Limits \cup {0}, upto : Nat]

\* One list is asked for at a time, and what the page shows of the ledger is
\* not later than the list on its way.
AuditFits ==
    /\ ledger \in Nat \ {0}
    /\ auditCalls \subseteq AuditCallSet
    /\ \A c \in auditCalls : c.kind = "load" => loading
    /\ \A c, d \in auditCalls : c.kind = "load" /\ d.kind = "load" => c = d
    /\ events \subseteq 1..ledger
    /\ \A c \in auditCalls : c.kind = "load" /\ c.upto # 0 => events \subseteq 1..c.upto /\ c.upto <= ledger
    /\ events # {} => \E m \in events : \A e \in events : m >= e
    /\ RowsFitFilters

Served1(call, n) == [call EXCEPT !.upto = n]

LEMMA ServedIs ==
  ASSUME NEW call \in AuditCallSet, NEW n \in Nat
  PROVE  Served1(call, n) \in AuditCallSet /\ Served1(call, n).kind = call.kind /\ Served1(call, n).upto = n
  BY DEF Served1, AuditCallSet

(* The latest of the events that are shown is the last the list was read to. *)
LEMMA LatestIs ==
  ASSUME NEW n \in Nat, NEW limit \in Nat, NEW m \in Nat, n <= m
  PROVE  /\ LatestEvents(n, limit) \subseteq 1..n /\ LatestEvents(n, limit) \subseteq 1..m
         /\ LatestEvents(n, limit) # {} =>
               n \in LatestEvents(n, limit) /\ \A e \in LatestEvents(n, limit) : n >= e
  BY DEF LatestEvents

LEMMA NewPanelStep ==
  ASSUME AuditFits, NewPanel, ledger' = ledger
  PROVE  AuditFits'
  <1> DEFINE request == [kind |-> "load", limit |-> DefaultLimit, upto |-> 0]
  <1>1. auditCalls' = {request} /\ loading' = TRUE /\ loaded' = FALSE /\ events' = {}
    BY DEF NewPanel
  <1>2. request \in AuditCallSet /\ request.upto = 0
    BY AuditLimitsAssumption DEF AuditCallSet
  <1> HIDE DEF request
  <1>3. ledger' \in Nat \ {0}
    BY DEF AuditFits
  <1> QED
    BY <1>1, <1>2, <1>3 DEF AuditFits, RowsFitFilters

LEMMA AuditServesStep ==
  ASSUME AuditFits, NEW call \in auditCalls, AuditServes(call)
  PROVE  AuditFits'
  <1> DEFINE served == Served1(call, ledger)
  <1>1. /\ auditCalls' = (auditCalls \ {call}) \cup {served}
        /\ ledger' = (IF ledger < MaxLedger THEN ledger + 1 ELSE ledger)
        /\ UNCHANGED <<loading, loaded, events, rows, offered, resource, text>>
    BY DEF AuditServes, Served1
  <1>2. /\ call \in AuditCallSet /\ ledger \in Nat \ {0} /\ events \subseteq 1..ledger
        /\ auditCalls \subseteq AuditCallSet
    BY DEF AuditFits
  <1>3. served \in AuditCallSet /\ served.kind = call.kind /\ served.upto = ledger
    BY <1>2, ServedIs
  <1> HIDE DEF served
  <1>4. ledger' \in Nat \ {0} /\ ledger <= ledger'
    BY <1>1, <1>2
  <1>5. events' \subseteq 1..ledger'
    BY <1>1, <1>2, <1>4
  <1>6. \A c \in auditCalls' : c.kind = "load" => loading'
    BY <1>1, <1>3 DEF AuditFits
  <1>7. \A c, d \in auditCalls' : c.kind = "load" /\ d.kind = "load" => c = d
    BY <1>1, <1>3 DEF AuditFits
  <1>8. \A c \in auditCalls' : c.kind = "load" /\ c.upto # 0 => events' \subseteq 1..c.upto /\ c.upto <= ledger'
    <2> SUFFICES ASSUME NEW c \in auditCalls', c.kind = "load", c.upto # 0
                 PROVE  events \subseteq 1..c.upto /\ c.upto <= ledger'
      BY <1>1
    <2>1. CASE c = served
      BY <2>1, <1>2, <1>3, <1>4
    <2>2. CASE c # served
      <3>1. c \in auditCalls
        BY <1>1, <2>2
      <3>2. events \subseteq 1..c.upto /\ c.upto <= ledger /\ c.upto \in Nat
        BY <3>1, <1>2 DEF AuditFits, AuditCallSet
      <3> QED
        BY <3>2, <1>2, <1>4
    <2> QED
      BY <2>1, <2>2
  <1>9. RowsFitFilters' /\ (events' # {} => \E m \in events' : \A e \in events' : m >= e)
    BY <1>1 DEF AuditFits, RowsFitFilters, Fits
  <1> QED
    BY <1>1, <1>2, <1>3, <1>4, <1>5, <1>6, <1>7, <1>8, <1>9 DEF AuditFits

LEMMA AuditLoadsStep ==
  ASSUME AuditFits, NEW call \in auditCalls, AuditLoads(call)
  PROVE  /\ AuditFits'
         /\ events # {} /\ events' # {} => Max(events') >= Max(events)
  <1>1. /\ call.kind = "load" /\ call.upto # 0 /\ auditCalls' = auditCalls \ {call} /\ ledger' = ledger
        /\ events' = LatestEvents(call.upto, call.limit) /\ loaded' = TRUE
        /\ rows' = {e \in events' : Fits(e)'} /\ resource' = KeptOption(offered')
    BY DEF AuditLoads, UpdateRows
  <1>2. /\ call \in AuditCallSet /\ ledger \in Nat \ {0} /\ call.upto <= ledger /\ events \subseteq 1..call.upto
        /\ auditCalls \subseteq AuditCallSet
    BY <1>1 DEF AuditFits
  <1>3. call.upto \in Nat /\ call.limit \in Nat
    <2>1. call.upto \in Nat /\ call.limit \in Limits \cup {0}
      BY <1>2 DEF AuditCallSet
    <2>2. \A n \in Limits : n \in Nat
      BY AuditLimitsAssumption
    <2> QED
      BY <2>1, <2>2
  <1>4. /\ events' \subseteq 1..ledger
        /\ events' # {} => call.upto \in events' /\ \A e \in events' : call.upto >= e
    BY <1>1, <1>2, <1>3, LatestIs
  <1>5. \A c \in auditCalls' : c.kind # "load"
    BY <1>1 DEF AuditFits
  <1>6. RowsFitFilters'
    BY <1>1 DEF RowsFitFilters, KeptOption, Fits
  <1>7. AuditFits'
    BY <1>1, <1>2, <1>4, <1>5, <1>6 DEF AuditFits
  <1>8. ASSUME events # {}, events' # {} PROVE Max(events') >= Max(events)
    <2>1. Max(events') \in events' /\ Max(events') >= call.upto
      BY <1>4, <1>8 DEF Max
    <2>2. \E m \in events : \A e \in events : m >= e
      BY <1>8 DEF AuditFits
    <2>3. Max(events) \in events
      BY <2>2 DEF Max
    <2>4. Max(events) \in 1..call.upto /\ Max(events') \in 1..ledger
      BY <2>1, <2>3, <1>2, <1>4
    <2> QED
      BY <2>1, <2>4, <1>2, <1>3
  <1> QED
    BY <1>7, <1>8

LEMMA AuditNextInv ==
  ASSUME AuditFits, [AuditNext]_auditVars
  PROVE  /\ AuditFits'
         /\ loaded /\ loaded' /\ events # {} /\ events' # {} => Max(events') >= Max(events) \/ events' = events
  <1>1. CASE MountAudit
    BY <1>1, NewPanelStep DEF MountAudit, NewPanel
  <1>2. CASE OthersAct
    <2>1. /\ ledger' = ledger + 1
          /\ UNCHANGED <<auditCalls, loading, loaded, events, offered, resource, text, rows>>
      BY <1>2 DEF OthersAct
    <2>2. ledger \in Nat \ {0} /\ events \subseteq 1..ledger /\ auditCalls \subseteq AuditCallSet
      BY DEF AuditFits
    <2>3. ledger' \in Nat \ {0} /\ events' \subseteq 1..ledger'
      BY <2>1, <2>2
    <2>4. \A c \in auditCalls : c.kind = "load" /\ c.upto # 0 => events \subseteq 1..c.upto /\ c.upto <= ledger'
      <3> SUFFICES ASSUME NEW c \in auditCalls, c.kind = "load", c.upto # 0
                   PROVE  events \subseteq 1..c.upto /\ c.upto <= ledger'
        OBVIOUS
      <3>1. events \subseteq 1..c.upto /\ c.upto <= ledger
        BY DEF AuditFits
      <3>2. c.upto \in Nat
        BY <2>2 DEF AuditCallSet
      <3> QED
        BY <3>1, <3>2, <2>1, <2>2
    <2> QED
      BY <2>1, <2>2, <2>3, <2>4 DEF AuditFits, RowsFitFilters, Fits
  <1>3. CASE VerifyAudit
    <2> DEFINE request == [kind |-> "verify", limit |-> 0, upto |-> 0]
    <2>1. /\ ~loading /\ auditCalls' = auditCalls \cup {request}
          /\ UNCHANGED <<ledger, loading, loaded, events, offered, resource, text, rows>>
      BY <1>3 DEF VerifyAudit, MayAsk
    <2>2. request \in AuditCallSet /\ request.kind # "load"
      BY DEF AuditCallSet
    <2> HIDE DEF request
    <2> QED
      BY <2>1, <2>2 DEF AuditFits, RowsFitFilters, Fits
  <1>4. ASSUME NEW limit \in Limits, LoadAudit(limit) PROVE AuditFits' /\ events' = events
    <2> DEFINE request == [kind |-> "load", limit |-> limit, upto |-> 0]
    <2>1. /\ ~loading /\ loading' /\ auditCalls' = auditCalls \cup {request}
          /\ UNCHANGED <<ledger, loaded, events, offered, resource, text, rows>>
      BY <1>4 DEF LoadAudit, MayAsk
    <2>2. request \in AuditCallSet /\ request.upto = 0
      BY DEF AuditCallSet
    <2> HIDE DEF request
    <2>3. \A c \in auditCalls : c.kind # "load"
      BY <2>1 DEF AuditFits
    <2> QED
      BY <2>1, <2>2, <2>3 DEF AuditFits, RowsFitFilters, Fits
  <1>5. ASSUME NEW call \in auditCalls, AuditSettles(call) PROVE AuditFits' /\ events' = events
    <2>1. /\ auditCalls' = auditCalls \ {call} /\ loading' = (call.kind # "load" /\ loading)
          /\ UNCHANGED <<ledger, loaded, events, offered, resource, text, rows>>
      BY <1>5 DEF AuditSettles
    <2>2. \A c \in auditCalls' : c.kind = "load" => loading'
      BY <2>1 DEF AuditFits
    <2> QED
      BY <2>1, <2>2 DEF AuditFits, RowsFitFilters, Fits
  <1>6. ASSUME NEW r \in offered \cup {""}, NEW t \in Texts, Filter(r, t) PROVE AuditFits' /\ events' = events
    <2>1. /\ UNCHANGED <<ledger, auditCalls, loading, loaded, events, offered>>
          /\ resource' = r /\ rows' = {e \in events' : Fits(e)'}
      BY <1>6 DEF Filter, UpdateRows
    <2> QED
      BY <2>1 DEF AuditFits, RowsFitFilters
  <1>7. CASE UNCHANGED auditVars
    BY <1>7 DEF auditVars, AuditFits, RowsFitFilters, Fits
  <1>8. ASSUME NEW call \in auditCalls, AuditServes(call) PROVE AuditFits' /\ events' = events
    BY <1>8, AuditServesStep DEF AuditServes
  <1>9. events' = events \/ events' = {} \/ \E call \in auditCalls : AuditLoads(call)
    <2>1. CASE MountAudit \/ OthersAct \/ VerifyAudit
      BY <2>1 DEF MountAudit, NewPanel, OthersAct, VerifyAudit
    <2>2. CASE UNCHANGED auditVars
      BY <2>2 DEF auditVars
    <2> QED
      BY <1>4, <1>5, <1>6, <1>8, <2>1, <2>2 DEF AuditNext
  <1> QED
    BY <1>1, <1>2, <1>3, <1>4, <1>5, <1>6, <1>7, <1>8, <1>9, AuditLoadsStep DEF AuditNext

LEMMA AuditInitInv ==
  ASSUME AuditInit
  PROVE  AuditFits
  <1>1. ledger = 1 /\ auditCalls = {} /\ ~loaded /\ events = {}
    BY DEF AuditInit
  <1>2. ledger \in Nat \ {0} /\ events \subseteq 1..ledger /\ auditCalls \subseteq AuditCallSet
    BY <1>1
  <1>3. \A c \in auditCalls : FALSE
    BY <1>1
  <1> QED
    BY <1>1, <1>2, <1>3 DEF AuditFits, RowsFitFilters

(***************************************************************************)
(* The checkout panel.                                                     *)
(***************************************************************************)
OrderSet == [status : {"none", "creating", "unknown", "open", "paid", "closed"}, plan : Paid \cup {"none"}]
FormSet ==
    [at : {"none", "idle", "sent", "creating", "done", "error"}, plan : Paid \cup {"none"}, id : 0..MaxRequests,
     told : {"none", "link", "reconcile", "no link", "another", "unavailable", "no answer"}]

\* A plan has one identifier.
IdsFit ==
    /\ lastId \in 0..MaxRequests /\ requestIds \in [Paid -> 0..lastId]
    /\ \A p, q \in Paid : requestIds[p] = requestIds[q] /\ requestIds[p] # 0 => p = q

\* A form that waits carries the identifier of its plan.
FormsFit ==
    /\ forms \in [Slots -> FormSet]
    /\ \A f \in Slots : forms[f].at \in {"sent", "creating"} =>
          forms[f].plan \in Paid /\ requestIds[forms[f].plan] = forms[f].id /\ forms[f].id # 0
    /\ \A f \in Slots : forms[f].at = "sent" => forms[f].told = "none"

\* So does an order, and one that does not exist has no plan.
OrdersFit ==
    /\ orders \in [Ids -> OrderSet]
    /\ \A i \in Ids : orders[i].plan # "none" => orders[i].plan \in Paid /\ requestIds[orders[i].plan] = i
    /\ \A i \in Ids : orders[i].status = "none" => orders[i].plan = "none"

CheckoutFits == IdsFit /\ FormsFit /\ OrdersFit

Told(form, stage, word) == [form EXCEPT !.at = stage, !.told = word]

(* A form is told something: it is no longer sent.                           *)
LEMMA TellStep ==
  ASSUME FormsFit, NEW f \in Slots, NEW stage \in {"creating", "done", "error"},
         NEW word \in {"none", "link", "reconcile", "no link", "another", "unavailable", "no answer"},
         forms[f].at \in {"sent", "creating"}, Tell(f, stage, word), requestIds' = requestIds
  PROVE  FormsFit' /\ forms'[f].told = word /\ (\A g \in Slots : g # f => forms'[g] = forms[g])
  <1> DEFINE new == Told(forms[f], stage, word)
  <1>1. forms \in [Slots -> FormSet]
    BY DEF FormsFit
  <1>2. forms' = [forms EXCEPT ![f] = new]
    BY DEF Tell, Told
  <1>3. new \in FormSet /\ new.at = stage /\ new.told = word /\ new.plan = forms[f].plan /\ new.id = forms[f].id
    <2>1. forms[f] \in FormSet /\ stage \in {"none", "idle", "sent", "creating", "done", "error"}
      BY <1>1
    <2> QED
      BY <2>1 DEF Told, FormSet
  <1> HIDE DEF new
  <1>4. /\ forms' \in [Slots -> FormSet] /\ forms'[f] = new
        /\ \A g \in Slots : g # f => forms'[g] = forms[g]
    BY <1>1, <1>2, <1>3
  <1> QED
    BY <1>3, <1>4 DEF FormsFit

(* The orders move on with their plans.                                      *)
LEMMA OrderStep ==
  ASSUME OrdersFit, NEW i \in Ids, NEW become \in {"open", "unknown", "paid", "closed"},
         orders[i].status # "none", orders' = [orders EXCEPT ![i].status = become], requestIds' = requestIds
  PROVE  OrdersFit'
  <1> DEFINE new == [orders[i] EXCEPT !.status = become]
  <1>1. orders \in [Ids -> OrderSet]
    BY DEF OrdersFit
  <1>2. new \in OrderSet /\ new.status = become /\ new.plan = orders[i].plan
    BY <1>1 DEF OrderSet
  <1>3. orders' = [orders EXCEPT ![i] = new]
    OBVIOUS
  <1> HIDE DEF new
  <1>4. orders' \in [Ids -> OrderSet] /\ orders'[i] = new /\ \A j \in Ids : j # i => orders'[j] = orders[j]
    BY <1>1, <1>2, <1>3
  <1> QED
    BY <1>2, <1>4 DEF OrdersFit

LEMMA NoForms ==
  ASSUME forms' = [f \in Slots |-> NoForm]
  PROVE  FormsFit'
  <1>1. NoForm \in FormSet /\ NoForm.at = "none"
    BY CheckoutAssumption DEF NoForm, FormSet
  <1> QED
    BY <1>1 DEF FormsFit

LEMMA SubmitStep ==
  ASSUME CheckoutFits, NEW f \in Slots, NEW p \in Paid, SubmitOrder(f, p)
  PROVE  CheckoutFits' /\ \A g \in Slots : g # f => forms'[g] = forms[g]
  <1> DEFINE new == [at |-> "sent", plan |-> p, id |-> requestIds'[p], told |-> "none"]
  <1>0. /\ forms \in [Slots -> FormSet] /\ lastId \in 0..MaxRequests /\ requestIds \in [Paid -> 0..lastId]
        /\ forms' = [forms EXCEPT ![f] = new] /\ orders' = orders
    BY DEF CheckoutFits, FormsFit, IdsFit, SubmitOrder
  <1>1. /\ IdsFit' /\ requestIds'[p] # 0 /\ requestIds'[p] \in 0..MaxRequests
        /\ \A q \in Paid : requestIds[q] # 0 => requestIds'[q] = requestIds[q]
    <2>1. CASE KnownRequest(p)
      <3>1. UNCHANGED <<requestIds, lastId>> /\ requestIds[p] # 0
        BY <2>1 DEF SubmitOrder, KnownRequest
      <3>2. requestIds[p] \in 0..MaxRequests
        BY <1>0, CheckoutAssumption
      <3> QED
        BY <3>1, <3>2 DEF CheckoutFits, IdsFit
    <2>2. CASE ~KnownRequest(p)
      <3>1. /\ requestIds[p] = 0 /\ lastId < MaxRequests /\ lastId' = lastId + 1
            /\ requestIds' = [requestIds EXCEPT ![p] = lastId']
        BY <2>2 DEF SubmitOrder, KnownRequest
      <3>2. lastId' \in 0..MaxRequests /\ lastId' # 0 /\ lastId' \notin 0..lastId /\ 0..lastId \subseteq 0..lastId'
        BY <3>1, <1>0, CheckoutAssumption
      <3>3. /\ requestIds' \in [Paid -> 0..lastId'] /\ requestIds'[p] = lastId'
            /\ \A q \in Paid : q # p => requestIds'[q] = requestIds[q]
        BY <3>1, <3>2, <1>0
      <3>4. \A q \in Paid : q # p => requestIds'[q] # lastId'
        BY <3>2, <3>3, <1>0
      <3>5. \A q, r \in Paid : requestIds'[q] = requestIds'[r] /\ requestIds'[q] # 0 => q = r
        BY <3>3, <3>4 DEF CheckoutFits, IdsFit
      <3> QED
        BY <3>1, <3>2, <3>3, <3>5 DEF IdsFit
    <2> QED
      BY <2>1, <2>2
  <1>2. new \in FormSet /\ new.at = "sent" /\ new.plan = p /\ new.id = requestIds'[p] /\ new.told = "none"
    BY <1>1 DEF FormSet
  <1> HIDE DEF new
  <1>3. forms' \in [Slots -> FormSet] /\ forms'[f] = new /\ \A g \in Slots : g # f => forms'[g] = forms[g]
    BY <1>0, <1>2
  <1>4. FormsFit'
    <2>1. ASSUME NEW g \in Slots, forms'[g].at \in {"sent", "creating"}
          PROVE  forms'[g].plan \in Paid /\ requestIds'[forms'[g].plan] = forms'[g].id /\ forms'[g].id # 0
      <3>1. CASE g = f
        BY <3>1, <1>1, <1>2, <1>3
      <3>2. CASE g # f
        BY <3>2, <2>1, <1>1, <1>3 DEF CheckoutFits, FormsFit
      <3> QED
        BY <3>1, <3>2
    <2>2. \A g \in Slots : forms'[g].at = "sent" => forms'[g].told = "none"
      BY <1>2, <1>3 DEF CheckoutFits, FormsFit
    <2> QED
      BY <1>3, <2>1, <2>2 DEF FormsFit
  <1>5. OrdersFit'
    <2>1. \A i \in Ids : orders[i].plan # "none" => requestIds'[orders[i].plan] = i
      <3>1. \A i \in Ids : i # 0
        BY DEF Ids
      <3> QED
        BY <1>1, <3>1 DEF CheckoutFits, OrdersFit
    <2> QED
      BY <1>0, <2>1 DEF CheckoutFits, OrdersFit
  <1> QED
    BY <1>1, <1>3, <1>4, <1>5 DEF CheckoutFits

(* The server takes a request: a refusal because of another order comes only *)
(* when there is none of the plan.                                           *)
LEMMA TakesStep ==
  ASSUME CheckoutFits, NEW f \in Slots, ServerTakes(f)
  PROVE  /\ CheckoutFits' /\ \A g \in Slots : g # f => forms'[g] = forms[g]
         /\ forms'[f].told = "another" => ~ \E i \in Ids : orders[i].plan = forms[f].plan
  <1> DEFINE i == forms[f].id
             p == forms[f].plan
  <1>0. forms[f].at = "sent" /\ UNCHANGED <<requestIds, lastId>> /\ FormsFit /\ IdsFit /\ OrdersFit
    BY DEF ServerTakes, CheckoutFits
  <1>1. i \in Ids /\ p \in Paid /\ requestIds[p] = i
    <2>1. forms[f] \in FormSet
      BY <1>0 DEF FormsFit
    <2>2. i \in 0..MaxRequests
      BY <2>1 DEF FormSet
    <2> QED
      BY <1>0, <2>2, CheckoutAssumption DEF FormsFit, Ids
  <1>2. \/ UNCHANGED orders /\ \E stage \in {"done", "error"}, word \in {"link", "reconcile", "no link"} : Tell(f, stage, word)
        \/ UNCHANGED orders /\ orders[i].status = "none" /\ Tell(f, "error", "another")
        \/ /\ orders[i].status = "none" /\ Tell(f, "creating", "none")
           /\ orders' = [orders EXCEPT ![i] = [status |-> "creating", plan |-> p]]
    <2>1. orders[i].status \in {"none", "creating", "unknown", "open", "paid", "closed"}
      BY <1>0, <1>1 DEF OrdersFit, OrderSet
    <2> QED
      BY <2>1 DEF ServerTakes
  <1> HIDE DEF i, p
  <1>3. CASE UNCHANGED orders /\ \E stage \in {"done", "error"}, word \in {"link", "reconcile", "no link"} : Tell(f, stage, word)
    <2>1. PICK stage \in {"done", "error"}, word \in {"link", "reconcile", "no link"} : Tell(f, stage, word)
      BY <1>3
    <2>2. FormsFit' /\ forms'[f].told = word /\ (\A g \in Slots : g # f => forms'[g] = forms[g])
      BY <1>0, <2>1, TellStep
    <2> QED
      BY <1>0, <1>3, <2>2 DEF CheckoutFits, IdsFit, OrdersFit
  <1>4. CASE UNCHANGED orders /\ orders[i].status = "none" /\ Tell(f, "error", "another")
    <2>1. FormsFit' /\ (\A g \in Slots : g # f => forms'[g] = forms[g])
      BY <1>0, <1>4, TellStep
    <2>2. \A j \in Ids : orders[j].plan # p
      BY <1>0, <1>1, <1>4, CheckoutAssumption DEF OrdersFit
    <2> QED
      BY <1>0, <1>4, <2>1, <2>2 DEF CheckoutFits, IdsFit, OrdersFit, p
  <1>5. CASE /\ orders[i].status = "none" /\ Tell(f, "creating", "none")
             /\ orders' = [orders EXCEPT ![i] = [status |-> "creating", plan |-> p]]
    <2>1. FormsFit' /\ forms'[f].told = "none" /\ (\A g \in Slots : g # f => forms'[g] = forms[g])
      BY <1>0, <1>5, TellStep
    <2> DEFINE new == [status |-> "creating", plan |-> p]
    <2>2. new \in OrderSet /\ new.status = "creating" /\ new.plan = p
      BY <1>1 DEF OrderSet
    <2>3. orders' = [orders EXCEPT ![i] = new]
      BY <1>5
    <2> HIDE DEF new
    <2>4. orders' \in [Ids -> OrderSet] /\ orders'[i] = new /\ \A j \in Ids : j # i => orders'[j] = orders[j]
      BY <1>0, <1>1, <2>2, <2>3 DEF OrdersFit
    <2>5. OrdersFit'
      BY <1>0, <1>1, <2>2, <2>4 DEF OrdersFit
    <2> QED
      BY <1>0, <2>1, <2>5 DEF CheckoutFits, IdsFit
  <1> QED
    BY <1>2, <1>3, <1>4, <1>5

LEMMA ProviderStep ==
  ASSUME CheckoutFits, NEW i \in Ids, NEW become \in {"open", "unknown", "paid", "closed"}, ProviderAnswers(i, become)
  PROVE  CheckoutFits' /\ \A g \in Slots : forms[g].at = "sent" => forms'[g] = forms[g]
  <1> DEFINE reply == IF become = "open" THEN LinkShown(orders'[i].status)
                      ELSE [at |-> "error", told |-> "unavailable"]
             Replied(form) == [form EXCEPT !.at = reply.at, !.told = reply.told]
  <1>0. /\ UNCHANGED <<requestIds, lastId>> /\ forms \in [Slots -> FormSet]
        /\ \/ UNCHANGED orders
           \/ orders[i].status = "creating" /\ orders' = [orders EXCEPT ![i].status = become]
    BY DEF ProviderAnswers, CheckoutFits, FormsFit
  <1>a. reply.at \in {"done", "error"} /\ reply.told \in {"link", "no link", "unavailable"}
    BY DEF LinkShown
  <1>2. forms' = [g \in Slots |-> IF AwaitsProvider(g, i) THEN Replied(forms[g]) ELSE forms[g]]
    BY DEF ProviderAnswers
  <1> HIDE DEF reply
  <1>1. \A g \in Slots : /\ Replied(forms[g]) \in FormSet
                         /\ Replied(forms[g]).at \in {"done", "error"}
    BY <1>0, <1>a DEF FormSet
  <1> HIDE DEF Replied
  <1>3. \A g \in Slots : forms'[g] = forms[g] \/ (forms'[g].at \in {"done", "error"} /\ forms[g].at = "creating")
    BY <1>1, <1>2 DEF AwaitsProvider
  <1>4. forms' \in [Slots -> FormSet]
    BY <1>0, <1>1, <1>2
  <1>5. FormsFit'
    BY <1>0, <1>3, <1>4 DEF CheckoutFits, FormsFit
  <1>6. OrdersFit'
    BY <1>0, OrderStep DEF CheckoutFits, OrdersFit
  <1> QED
    BY <1>0, <1>3, <1>5, <1>6 DEF CheckoutFits, IdsFit

\* A request that is under way is told of another order when there is none of
\* its plan.
OwnFound == \A f \in Slots : forms[f].at = "sent" /\ forms'[f].told = "another"
                => ~ \E i \in Ids : orders[i].plan = forms[f].plan

LEMMA CheckoutNextInv ==
  ASSUME CheckoutFits, [CheckoutNext]_checkoutVars
  PROVE  CheckoutFits' /\ OwnFound
  <1>0. \A f \in Slots : forms[f].at = "sent" => forms[f].told # "another"
    BY DEF CheckoutFits, FormsFit
  <1>1. CASE UNCHANGED <<orders, requestIds, lastId, forms>>
    BY <1>0, <1>1 DEF CheckoutFits, FormsFit, OrdersFit, IdsFit, OwnFound
  <1>2. CASE UNCHANGED <<orders, requestIds, lastId>> /\ forms' = [f \in Slots |-> NoForm]
    <2>1. \A f \in Slots : forms'[f].told # "another"
      BY <1>2 DEF NoForm
    <2> QED
      BY <1>2, <2>1, NoForms DEF CheckoutFits, OrdersFit, IdsFit, OwnFound
  <1>3. ASSUME NEW k \in Slots, NEW f \in Slots, CheckoutForm(k, f) PROVE CheckoutFits' /\ OwnFound
    <2> DEFINE new == [forms[f] EXCEPT !.at = "idle"]
    <2>1. /\ forms[f].at = "none" /\ forms' = [forms EXCEPT ![f] = new] /\ UNCHANGED <<orders, requestIds, lastId>>
          /\ forms \in [Slots -> FormSet]
      BY <1>3 DEF CheckoutForm, CheckoutFits, FormsFit
    <2>2. new \in FormSet /\ new.at = "idle"
      BY <2>1 DEF FormSet
    <2> HIDE DEF new
    <2>3. forms' \in [Slots -> FormSet] /\ forms'[f] = new /\ \A g \in Slots : g # f => forms'[g] = forms[g]
      BY <2>1, <2>2
    <2> QED
      BY <1>0, <2>1, <2>2, <2>3 DEF CheckoutFits, FormsFit, OrdersFit, IdsFit, OwnFound
  <1>4. ASSUME NEW f \in Slots, NEW p \in Paid, SubmitOrder(f, p) PROVE CheckoutFits' /\ OwnFound
    <2>1. forms[f].at # "sent"
      BY <1>4 DEF SubmitOrder
    <2> QED
      BY <1>0, <1>4, <2>1, SubmitStep DEF OwnFound
  <1>5. ASSUME NEW f \in Slots, ServerTakes(f) PROVE CheckoutFits' /\ OwnFound
    BY <1>0, <1>5, TakesStep DEF OwnFound
  <1>6. ASSUME NEW f \in Slots, AnswerLost(f) PROVE CheckoutFits' /\ OwnFound
    <2>1. forms[f].at \in {"sent", "creating"} /\ Tell(f, "error", "no answer") /\ UNCHANGED <<orders, requestIds, lastId>>
      BY <1>6 DEF AnswerLost
    <2>2. FormsFit' /\ forms'[f].told = "no answer" /\ (\A g \in Slots : g # f => forms'[g] = forms[g])
      BY <2>1, TellStep DEF CheckoutFits
    <2> QED
      BY <1>0, <2>1, <2>2 DEF CheckoutFits, OrdersFit, IdsFit, OwnFound
  <1>7. ASSUME NEW i \in Ids, NEW become \in {"open", "unknown", "paid", "closed"}, ProviderAnswers(i, become)
        PROVE  CheckoutFits' /\ OwnFound
    BY <1>0, <1>7, ProviderStep DEF OwnFound
  <1>8. ASSUME NEW i \in Ids, NEW become \in {"open", "unknown", "paid", "closed"}, OrderMoves(i, become)
        PROVE  CheckoutFits' /\ OwnFound
    <2>1. /\ orders[i].status # "none" /\ orders' = [orders EXCEPT ![i].status = become]
          /\ UNCHANGED <<requestIds, lastId, forms>>
      BY <1>8 DEF OrderMoves
    <2>2. OrdersFit'
      BY <2>1, OrderStep DEF CheckoutFits
    <2> QED
      BY <1>0, <2>1, <2>2 DEF CheckoutFits, FormsFit, IdsFit, OwnFound
  <1> QED
    BY <1>1, <1>2, <1>3, <1>4, <1>5, <1>6, <1>7, <1>8 DEF CheckoutNext, MountCheckout, CheckoutStatus, MountFails, checkoutVars

LEMMA CheckoutInitInv ==
  ASSUME CheckoutInit
  PROVE  CheckoutFits
  <1>1. NoForm \in FormSet /\ NoForm.at = "none" /\ NoOrder \in OrderSet /\ NoOrder.plan = "none"
    BY CheckoutAssumption DEF NoForm, FormSet, NoOrder, OrderSet
  <1>2. lastId = 0 /\ requestIds = [p \in Paid |-> 0] /\ 0 \in 0..MaxRequests /\ 0 \in 0..0
    BY CheckoutAssumption DEF CheckoutInit
  <1>3. IdsFit
    BY <1>2 DEF IdsFit
  <1>4. FormsFit /\ OrdersFit
    BY <1>1 DEF CheckoutInit, FormsFit, OrdersFit
  <1> QED
    BY <1>3, <1>4 DEF CheckoutFits

(* Two orders of one plan would carry its one identifier.                    *)
LEMMA OrdersAreOne ==
  ASSUME CheckoutFits
  PROVE  OneOrderPerPlan
  BY DEF CheckoutFits, OrdersFit, OneOrderPerPlan

(***************************************************************************)
(* The wizard of the investigations.                                       *)
(***************************************************************************)
\* The steps before the one on the screen are complete in the draft.
WizardFits ==
    /\ wizardStep \in 0..4 /\ draft \subseteq AllFields
    /\ typed \subseteq StepFields(wizardStep)
    /\ \A s \in 1..3 : s < wizardStep => StepFields(s) \subseteq draft
    /\ posts \in Seq({AllFields})
    /\ waiting \subseteq 1..Len(posts)

LEMMA StepFieldsAre ==
  /\ StepFields(0) = {} /\ StepFields(1) = {"title", "client", "owner"} /\ StepFields(2) = {"objective"}
  /\ StepFields(3) = {"justification", "scope"} /\ StepFields(4) = {}
  /\ AllFields = {"title", "client", "owner", "objective", "justification", "scope"}
  <1>1. /\ StepFields(0) = {} /\ StepFields(1) = {"title", "client", "owner"} /\ StepFields(2) = {"objective"}
        /\ StepFields(3) = {"justification", "scope"} /\ StepFields(4) = {}
    BY DEF StepFields
  <1>2. \A x : x \in AllFields <=> x \in StepFields(1) \cup StepFields(2) \cup StepFields(3)
    <2>1. \A x : x \in AllFields <=> \E s \in 1..3 : x \in StepFields(s)
      BY DEF AllFields
    <2>2. \A s : s \in 1..3 <=> s \in {1, 2, 3}
      OBVIOUS
    <2> QED
      BY <2>1, <2>2
  <1> QED
    BY <1>1, <1>2

(* A step is drawn: what the earlier steps ask for is in the draft.          *)
LEMMA DrawnStep ==
  ASSUME NEW s \in 1..4, NEW d \in SUBSET AllFields, RenderStep(s, d), draft' = d, KeepsPosts,
         \A t \in 1..3 : t < s => StepFields(t) \subseteq d, WizardFits
  PROVE  WizardFits'
  <1>1. wizardStep' = s /\ typed' \subseteq StepFields(s) /\ UNCHANGED <<posts, waiting>>
    BY DEF RenderStep, KeepsPosts
  <1>2. typed' \subseteq StepFields(wizardStep')
    BY <1>1
  <1> QED
    BY <1>1, <1>2 DEF WizardFits

LEMMA WizardNextInv ==
  ASSUME WizardFits, [WizardSteps]_wizardVars
  PROVE  WizardFits' /\ (opened' # opened => opened' \in waiting /\ opened' \notin waiting')
  <1> DEFINE Goal == WizardFits' /\ (opened' # opened => opened' \in waiting /\ opened' \notin waiting')
  <1>1. CASE OpenWizard
    <2>1. RenderStep(1, {}) /\ draft' = {} /\ KeepsPosts /\ opened' = opened
      BY <1>1 DEF OpenWizard, KeepsPosts
    <2> QED
      BY <2>1, DrawnStep
  <1>2. CASE FromRadar
    <2>1. RenderStep(1, {"title", "scope"}) /\ draft' = {"title", "scope"} /\ KeepsPosts /\ opened' = opened
      BY <1>2 DEF FromRadar, KeepsPosts
    <2>2. {"title", "scope"} \in SUBSET AllFields
      BY StepFieldsAre
    <2> QED
      BY <2>1, <2>2, DrawnStep
  <1>3. ASSUME NEW f \in AllFields, FillField(f) PROVE Goal
    <2>1. /\ f \in StepFields(wizardStep) /\ typed' \subseteq typed \cup {f}
          /\ UNCHANGED <<wizardStep, draft, posts, waiting, opened>>
      BY <1>3 DEF FillField, KeepsPosts
    <2> QED
      BY <2>1 DEF WizardFits
  <1>4. CASE Declare \/ WindowChanges \/ ReadAgain \/ UNCHANGED wizardVars
    BY <1>4 DEF Declare, WindowChanges, ReadAgain, wizardVars, KeepsPosts, WizardFits
  <1>5. Captured \in SUBSET AllFields
    <2>1. typed \subseteq AllFields
      <3>1. wizardStep \in {0, 1, 2, 3, 4}
        BY DEF WizardFits
      <3>2. StepFields(wizardStep) \subseteq AllFields
        BY <3>1, StepFieldsAre
      <3> QED
        BY <3>2 DEF WizardFits
    <2> QED
      BY <2>1 DEF WizardFits, Captured
  <1>6. \A t \in 1..3 : t < wizardStep => StepFields(t) \subseteq Captured
    <2> SUFFICES ASSUME NEW t \in 1..3, t < wizardStep PROVE StepFields(t) \subseteq Captured
      OBVIOUS
    <2>1. StepFields(t) \subseteq draft
      BY DEF WizardFits
    <2>2. t \in {1, 2, 3} /\ wizardStep \in {2, 3, 4} /\ t # wizardStep
      BY DEF WizardFits
    <2>3. StepFields(t) \cap StepFields(wizardStep) = {}
      BY <2>2, StepFieldsAre
    <2> QED
      BY <2>1, <2>3 DEF Captured
  <1>7. CASE WizardNext
    <2>1. /\ wizardStep \in 1..3 /\ draft' = Captured /\ KeepsPosts /\ opened' = opened
          /\ IF StepFields(wizardStep) \subseteq typed
             THEN RenderStep(wizardStep + 1, Captured)
             ELSE UNCHANGED <<wizardStep, typed>>
      BY <1>7 DEF WizardNext, KeepsPosts, NextStep
    <2>2. CASE StepFields(wizardStep) \subseteq typed
      <3>1. \A t \in 1..3 : t < wizardStep + 1 => t < wizardStep \/ t = wizardStep
        BY <2>1
      <3>2. \A t \in 1..3 : t < wizardStep + 1 => StepFields(t) \subseteq Captured
        BY <3>1, <1>6, <2>2 DEF Captured
      <3>3. wizardStep + 1 \in 1..4 /\ RenderStep(wizardStep + 1, Captured)
        BY <2>1, <2>2
      <3> QED
        BY <2>1, <3>2, <3>3, <1>5, DrawnStep
    <2>3. CASE ~(StepFields(wizardStep) \subseteq typed)
      BY <2>1, <2>3, <1>5, <1>6 DEF WizardFits, KeepsPosts
    <2> QED
      BY <2>2, <2>3
  <1>8. CASE WizardBack
    <2>1. wizardStep \in 2..4 /\ draft' = Captured /\ KeepsPosts /\ opened' = opened /\ RenderStep(wizardStep - 1, Captured)
      BY <1>8 DEF WizardBack, KeepsPosts
    <2>2. wizardStep - 1 \in 1..4 /\ \A t \in 1..3 : t < wizardStep - 1 => t < wizardStep
      BY <2>1
    <2> QED
      BY <2>1, <2>2, <1>5, <1>6, DrawnStep
  <1>9. CASE WizardFinish
    <2>1. /\ wizardStep = 4 /\ posts' = Append(posts, draft) /\ waiting' = waiting \cup {Len(posts')}
          /\ UNCHANGED <<wizardStep, draft, typed, opened>>
      BY <1>9 DEF WizardFinish
    <2>2. draft = AllFields
      <3>1. StepFields(1) \subseteq draft /\ StepFields(2) \subseteq draft /\ StepFields(3) \subseteq draft
        BY <2>1 DEF WizardFits
      <3>2. draft \subseteq AllFields
        BY DEF WizardFits
      <3> QED
        BY <3>1, <3>2, StepFieldsAre
    <2>3. posts \in Seq({AllFields}) /\ waiting \subseteq 1..Len(posts)
      BY DEF WizardFits
    <2>4. posts' \in Seq({AllFields}) /\ Len(posts') = Len(posts) + 1 /\ Len(posts) \in Nat
      BY <2>1, <2>2, <2>3
    <2>5. waiting' \subseteq 1..Len(posts')
      <3>1. 1..Len(posts) \subseteq 1..Len(posts') /\ Len(posts') \in 1..Len(posts')
        BY <2>4
      <3> QED
        BY <2>1, <2>3, <3>1
    <2> QED
      BY <2>1, <2>4, <2>5 DEF WizardFits
  <1>10. ASSUME NEW n \in waiting, Created(n) PROVE Goal
    <2>1. /\ waiting' = waiting \ {n} /\ opened' = n
          /\ UNCHANGED <<wizardStep, draft, typed, posts>>
      BY <1>10 DEF Created, OpensCreated
    <2> QED
      BY <2>1 DEF WizardFits
  <1>11. ASSUME NEW n \in waiting, CreationFails(n) PROVE Goal
    <2>1. waiting' = waiting \ {n} /\ UNCHANGED <<wizardStep, draft, typed, posts, opened>>
      BY <1>11 DEF CreationFails
    <2> QED
      BY <2>1 DEF WizardFits
  <1> QED
    BY <1>1, <1>2, <1>3, <1>4, <1>7, <1>8, <1>9, <1>10, <1>11 DEF WizardSteps, wizardVars, Declare, WindowChanges,
       ReadAgain, KeepsPosts

LEMMA WizardInitInv ==
  ASSUME WizardInit
  PROVE  WizardFits
  <1>1. wizardStep = 0 /\ draft = {} /\ typed = {} /\ posts = <<>> /\ waiting = {}
    BY DEF WizardInit
  <1> QED
    BY <1>1 DEF WizardFits

LEMMA PostsComplete ==
  ASSUME WizardFits
  PROVE  PostsAreComplete
  BY DEF WizardFits, PostsAreComplete

(***************************************************************************)
(* The commercial dialogs.                                                 *)
(***************************************************************************)
(* The number of a field is the largest quantity that it covers.             *)
LEMMA QuantityIs ==
  ASSUME NEW raw \in Int
  PROVE  NormalizeQuantity(raw) = Max({0} \union {q \in 0..MaxQuantity : 10 * q <= raw})
  <1> DEFINE S == {0} \union {q \in 0..MaxQuantity : 10 * q <= raw}
             least == IF MaxQuantity <= raw \div 10 THEN MaxQuantity ELSE raw \div 10
             n == IF raw < 0 THEN 0 ELSE least
  <1>1. MaxQuantity \in Nat
    BY CatalogAssumption
  <1>2. raw \div 10 \in Int /\ (raw \div 10) * 10 <= raw /\ raw < (raw \div 10) * 10 + 10
    OBVIOUS
  <1>3. n \in Int /\ n \in S /\ \A q \in S : n >= q
    BY <1>1, <1>2
  <1>4. Max(S) = n
    <2> HIDE DEF n
    <2>1. Max(S) \in S /\ \A q \in S : Max(S) >= q
      BY <1>3 DEF Max
    <2>2. Max(S) \in Int
      BY <1>1, <2>1
    <2> HIDE DEF S
    <2> QED
      BY <1>3, <2>1, <2>2
  <1>5. Min({MaxQuantity, raw \div 10}) = least
    <2>1. least \in {MaxQuantity, raw \div 10} /\ \A q \in {MaxQuantity, raw \div 10} : least <= q
      BY <1>1, <1>2
    <2>2. least \in Int
      BY <1>1, <1>2
    <2> HIDE DEF least
    <2> QED
      BY <1>1, <1>2, <2>1, <2>2 DEF Min
  <1> QED
    BY <1>4, <1>5 DEF NormalizeQuantity

LEMMA SelectionStays ==
  ASSUME SelectionIsKept, [CommercialNext]_commercialVars
  PROVE  SelectionIsKept'
  <1> USE DEF SelectionIsKept
  <1>1. CASE UNCHANGED dialogVars
    BY <1>1 DEF dialogVars
  <1>2. ASSUME NEW plan, OpenPlanSummary(plan) PROVE SelectionIsKept'
    BY <1>2 DEF OpenPlanSummary
  <1>3. ASSUME NEW d, OpenDialog(d) PROVE SelectionIsKept'
    BY <1>3 DEF OpenDialog
  <1>4. CASE CloseDialog \/ BackToPlans
    BY <1>4 DEF CloseDialog, BackToPlans
  <1>5. CASE ReviewAddons \/ BackToAddons
    BY <1>5 DEF ReviewAddons, BackToAddons, PreviousQuantities
  <1>6. ASSUME NEW a \in Addons, NEW raw \in RawQuantities, EnterQuantity(a, raw) PROVE SelectionIsKept'
    <2> DEFINE n == NormalizeQuantity(raw)
    <2>1. raw \in Int
      BY CatalogAssumption
    <2>2. n = Max({0} \union {q \in 0..MaxQuantity : 10 * q <= raw})
      BY <2>1, QuantityIs
    <2>3. /\ dialogue = "addons" /\ quantities' = [quantities EXCEPT ![a] = n]
          /\ total' = Total(quantities') /\ UNCHANGED <<dialogue, selectedKey, picked>>
          /\ wanted' = [wanted EXCEPT ![a] = Max({0} \union {q \in 0..MaxQuantity : 10 * q <= raw})]
      BY <1>6 DEF EnterQuantity
    <2> HIDE DEF n
    <2>4. wanted' = [wanted EXCEPT ![a] = n] /\ quantities = wanted
      BY <2>2, <2>3
    <2>5. quantities' = wanted'
      BY <2>3, <2>4
    <2> QED
      BY <2>3, <2>5
  <1>7. ASSUME NEW kind \in Kinds2, ReviewPackage(kind) \/ BackToPackages(kind) PROVE SelectionIsKept'
    <2>1. kind \notin {"addons", "addonSummary"}
      BY CatalogAssumption DEF Kinds2
    <2>2. /\ dialogue # "none" /\ dialogue' \in {"packageSummary", kind}
          /\ UNCHANGED <<selectedKey, picked>>
      <3>1. kind # "none" \/ dialogue = "packageSummary" => dialogue # "none"
        BY <1>7 DEF ReviewPackage, BackToPackages
      <3> QED
        BY <1>7, <3>1, CatalogAssumption DEF ReviewPackage, BackToPackages, Kinds2
    <2> QED
      BY <2>1, <2>2
  <1>8. ASSUME NEW kind \in Kinds2, NEW key, PickPackage(kind, key) PROVE SelectionIsKept'
    BY <1>8 DEF PickPackage
  <1>9. OpenPublicPage \/ EnterApplication \/ MountCommercial \/ LeaveCommercial \/ RetryCatalog
           \/ CatalogComes \/ CatalogFails \/ UNCHANGED commercialVars => UNCHANGED dialogVars
    BY DEF OpenPublicPage, EnterApplication, MountCommercial, LeaveCommercial, RetryCatalog, CatalogComes,
           CatalogFails, commercialVars, dialogVars
  <1>10. ASSUME NEW plan, ChoosePublicPlan(plan) PROVE SelectionIsKept'
    BY <1>1, <1>10 DEF ChoosePublicPlan
  <1> QED
    BY <1>1, <1>2, <1>3, <1>4, <1>5, <1>6, <1>7, <1>8, <1>9, <1>10 DEF CommercialNext

LEMMA SelectionBegins ==
  ASSUME CommercialInit
  PROVE  SelectionIsKept
  BY DEF CommercialInit, SelectionIsKept

(***************************************************************************)
(* The working drafts of an investigation.                                 *)
(***************************************************************************)
DraftRows == Findings \X {"dado_bruto", "conclusao_humana"}
DraftSet == [ticked : Nat, hipoteses : Nat, evidencias : Seq(DraftRows), matrix : [Cells -> {"N", "C", "I"}]]

\* The rows of the matrix are distinct.
Distinct(lines) == \A i, j \in 1..Len(lines) : lines[i] = lines[j] => i = j

DraftsFit ==
    /\ findingClass \in [Findings -> {"dado_bruto", "conclusao_humana"}]
    /\ drafts \in DraftSet /\ Distinct(drafts.evidencias)
    /\ DeskShowsDrafts /\ MarksStay

\* The marks of a matrix, by what they are about.
MarksOf(lines, matrix) ==
    {<<<<lines[c[1]], c[2]>>, matrix[c]>> : c \in {c \in Cells : c[1] <= Len(lines) /\ matrix[c] # "N"}}

\* The marks are on the rows and the columns there are.
Inside(lines, columns, matrix) == \A c \in Cells : matrix[c] # "N" => c[1] <= Len(lines) /\ c[2] <= columns

MarksFit(kept, about, wrong) ==
    wrong \/ (/\ MarksOf(kept.evidencias, kept.matrix) = about
              /\ Inside(kept.evidencias, kept.hipoteses, kept.matrix))

LEMMA MarksAre ==
  /\ MarksStay <=> MarksFit(drafts, judged, misplaced)
  /\ MarksStay' <=> MarksFit(drafts', judged', misplaced')
  BY DEF Marks, MarksOf, MarksStay, Inside, MarksFit

LEMMA CellParts ==
  ASSUME NEW c \in Cells
  PROVE  c = <<c[1], c[2]>> /\ c[1] \in Nat \ {0} /\ c[1] \in Int /\ c[2] \in Int
  BY DraftsAssumption DEF Cells

Remarked(lines, matrix, c, mark) ==
    {j \in MarksOf(lines, matrix) : j[1] # <<lines[c[1]], c[2]>>}
        \union (IF mark = "N" THEN {} ELSE {<<<<lines[c[1]], c[2]>>, mark>>})

(* A mark given to a cell is the mark of its row and its column.             *)
LEMMA CellMarked ==
  ASSUME NEW X, NEW lines \in Seq(X), Distinct(lines), NEW matrix \in [Cells -> {"N", "C", "I"}],
         NEW c \in Cells, c[1] <= Len(lines), NEW mark \in {"N", "C", "I"}
  PROVE  MarksOf(lines, [matrix EXCEPT ![c] = mark]) = Remarked(lines, matrix, c, mark)
  <1> DEFINE new == [matrix EXCEPT ![c] = mark]
             about(d) == <<lines[d[1]], d[2]>>
             kept == {j \in MarksOf(lines, matrix) : j[1] # about(c)}
             given == IF mark = "N" THEN {} ELSE {<<about(c), mark>>}
  <1>1. \A d \in Cells : d # c => new[d] = matrix[d]
    OBVIOUS
  <1>2. new[c] = mark
    OBVIOUS
  <1>3. \A d \in Cells : d[1] <= Len(lines) /\ about(d) = about(c) => d = c
    <2> SUFFICES ASSUME NEW d \in Cells, d[1] <= Len(lines), about(d) = about(c) PROVE d = c
      OBVIOUS
    <2>1. lines[d[1]] = lines[c[1]] /\ d[2] = c[2]
      OBVIOUS
    <2>2. d[1] \in 1..Len(lines) /\ c[1] \in 1..Len(lines)
      BY CellParts
    <2>3. d[1] = c[1]
      BY <2>1, <2>2 DEF Distinct
    <2> QED
      BY <2>1, <2>3, CellParts
  <1> HIDE DEF new
  <1>4. ASSUME NEW j \in MarksOf(lines, new) PROVE j \in kept \cup given
    <2>1. PICK d \in Cells : d[1] <= Len(lines) /\ new[d] # "N" /\ j = <<about(d), new[d]>>
      BY <1>4 DEF MarksOf
    <2>2. CASE d = c
      BY <2>1, <2>2, <1>2
    <2>3. CASE d # c
      <3>1. j = <<about(d), matrix[d]>> /\ matrix[d] # "N" /\ about(d) # about(c)
        BY <2>1, <2>3, <1>1, <1>3
      <3>2. j \in MarksOf(lines, matrix)
        BY <2>1, <3>1 DEF MarksOf
      <3> QED
        BY <3>1, <3>2
    <2> QED
      BY <2>2, <2>3
  <1>5. ASSUME NEW j \in kept PROVE j \in MarksOf(lines, new)
    <2>1. PICK d \in Cells : d[1] <= Len(lines) /\ matrix[d] # "N" /\ j = <<about(d), matrix[d]>>
      BY <1>5 DEF MarksOf
    <2>2. d # c
      BY <2>1, <1>5
    <2>3. new[d] = matrix[d]
      BY <2>2, <1>1
    <2> QED
      BY <2>1, <2>3 DEF MarksOf
  <1>6. ASSUME NEW j \in given PROVE j \in MarksOf(lines, new)
    <2>1. mark # "N" /\ j = <<about(c), new[c]>>
      BY <1>6, <1>2
    <2> QED
      BY <2>1, <1>2 DEF MarksOf
  <1>7. MarksOf(lines, new) = kept \cup given
    BY <1>4, <1>5, <1>6
  <1> QED
    BY <1>7 DEF new, Remarked

(* A row that is added has no marks yet.                                     *)
LEMMA RowAdded ==
  ASSUME NEW X, NEW lines \in Seq(X), NEW desc \in X, NEW columns, NEW matrix, Inside(lines, columns, matrix)
  PROVE  MarksOf(Append(lines, desc), matrix) = MarksOf(lines, matrix) /\ Inside(Append(lines, desc), columns, matrix)
  <1> DEFINE more == Append(lines, desc)
  <1>1. Len(more) = Len(lines) + 1 /\ Len(lines) \in Nat /\ \A i \in 1..Len(lines) : more[i] = lines[i]
    OBVIOUS
  <1> HIDE DEF more
  <1>2. \A c \in Cells : matrix[c] # "N" =>
           c[1] <= Len(lines) /\ c[1] <= Len(more) /\ more[c[1]] = lines[c[1]] /\ c[2] <= columns
    <2> SUFFICES ASSUME NEW c \in Cells, matrix[c] # "N"
                 PROVE  c[1] <= Len(lines) /\ c[1] <= Len(more) /\ more[c[1]] = lines[c[1]] /\ c[2] <= columns
      OBVIOUS
    <2>1. c[1] <= Len(lines) /\ c[2] <= columns
      BY DEF Inside
    <2>2. c[1] \in 1..Len(lines)
      BY <1>1, <2>1, CellParts
    <2> QED
      BY <1>1, <2>1, <2>2
  <1>3. Inside(more, columns, matrix)
    BY <1>2 DEF Inside
  <1>4. MarksOf(more, matrix) \subseteq MarksOf(lines, matrix)
    BY <1>2 DEF MarksOf
  <1>5. MarksOf(lines, matrix) \subseteq MarksOf(more, matrix)
    BY <1>2 DEF MarksOf
  <1> QED
    BY <1>3, <1>4, <1>5 DEF more

LEMMA NoMarks ==
  NoDrafts \in DraftSet /\ Distinct(NoDrafts.evidencias)
  /\ MarksOf(NoDrafts.evidencias, NoDrafts.matrix) = {} /\ Inside(NoDrafts.evidencias, NoDrafts.hipoteses, NoDrafts.matrix)
  <1>1. NoDrafts \in DraftSet /\ Len(NoDrafts.evidencias) = 0
    BY DEF NoDrafts, DraftSet
  <1>2. \A c \in Cells : NoDrafts.matrix[c] = "N"
    BY DEF NoDrafts
  <1> QED
    BY <1>1, <1>2 DEF Distinct, MarksOf, Inside

LEMMA RowStep ==
  ASSUME DraftsFit, NEW f \in Findings, addACHEvidence(f)
  PROVE  drafts' \in DraftSet /\ Distinct(drafts'.evidencias) /\ MarksStay'
  <1> DEFINE desc == <<f, findingClass[f]>>
             lines == drafts.evidencias
             more == WithRow(lines, desc)
  <1>1. /\ drafts \in DraftSet /\ Distinct(lines) /\ MarksStay /\ desc \in DraftRows
    BY DEF DraftsFit, DraftRows
  <1>2. drafts' = [drafts EXCEPT !.evidencias = more] /\ UNCHANGED <<judged, misplaced>>
    BY DEF addACHEvidence
  <1>3. lines \in Seq(DraftRows)
    BY <1>1 DEF DraftSet
  <1>4. CASE desc \in Range(lines)
    <2>1. more = lines
      BY <1>4 DEF WithRow
    <2>2. drafts' = drafts
      BY <1>1, <1>2, <2>1 DEF DraftSet
    <2> QED
      BY <1>1, <1>2, <2>2, MarksAre
  <1>5. CASE desc \notin Range(lines)
    <2>1. more = Append(lines, desc)
      BY <1>5 DEF WithRow
    <2>2. more \in Seq(DraftRows) /\ Len(more) = Len(lines) + 1 /\ Len(lines) \in Nat /\ more[Len(lines) + 1] = desc
      <3> HIDE DEF lines, desc, more
      <3> QED
        BY <1>1, <1>3, <2>1
    <2>3. \A i \in 1..Len(lines) : more[i] = lines[i] /\ lines[i] # desc
      <3>1. \A i \in 1..Len(lines) : lines[i] \in Range(lines)
        BY <1>3 DEF Range
      <3> HIDE DEF lines, desc, more
      <3>2. \A i \in 1..Len(lines) : more[i] = lines[i]
        BY <1>1, <1>3, <2>1
      <3> QED
        BY <1>5, <3>1, <3>2
    <2> HIDE DEF more
    <2>4. Distinct(more)
      <3> SUFFICES ASSUME NEW i \in 1..Len(more), NEW j \in 1..Len(more), more[i] = more[j] PROVE i = j
        BY DEF Distinct
      <3>1. (i \in 1..Len(lines) \/ i = Len(lines) + 1) /\ (j \in 1..Len(lines) \/ j = Len(lines) + 1)
        BY <2>2
      <3> QED
        BY <1>1, <2>2, <2>3, <3>1 DEF Distinct
    <2>5. /\ drafts' \in DraftSet /\ drafts'.evidencias = more /\ drafts'.matrix = drafts.matrix
          /\ drafts'.hipoteses = drafts.hipoteses
      BY <1>1, <1>2, <2>2 DEF DraftSet
    <2>6. MarksStay'
      <3>1. CASE misplaced
        BY <3>1, <1>2, MarksAre DEF MarksFit
      <3>2. CASE ~misplaced
        <4>1. MarksOf(lines, drafts.matrix) = judged /\ Inside(lines, drafts.hipoteses, drafts.matrix)
          BY <1>1, <3>2, MarksAre DEF MarksFit
        <4>2. MarksOf(more, drafts.matrix) = judged /\ Inside(more, drafts.hipoteses, drafts.matrix)
          BY <1>1, <1>3, <2>1, <4>1, RowAdded
        <4> QED
          BY <1>2, <2>5, <4>2, MarksAre DEF MarksFit
      <3> QED
        BY <3>1, <3>2
    <2> QED
      BY <2>4, <2>5, <2>6
  <1> QED
    BY <1>4, <1>5

LEMMA CycleStep ==
  ASSUME DraftsFit, NEW c \in Cells, cycleACH(c)
  PROVE  drafts' \in DraftSet /\ Distinct(drafts'.evidencias) /\ MarksStay'
  <1> DEFINE mark == NextMark(drafts.matrix[c])
  <1>1. drafts \in DraftSet /\ Distinct(drafts.evidencias)
    BY DEF DraftsFit
  <1>2. mark \in {"N", "C", "I"}
    BY DEF NextMark
  <1>3. /\ drafts' = [drafts EXCEPT !.matrix = [drafts.matrix EXCEPT ![c] = mark]]
        /\ misplaced' = (misplaced \/ draftsLost) /\ ShownCell(c)
        /\ LET about == <<deskShown.evidencias[c[1]], c[2]>>
               onDesk == NextMark(deskShown.matrix[c]) IN
            judged' = {j \in judged : j[1] # about} \union (IF onDesk = "N" THEN {} ELSE {<<about, onDesk>>})
    BY DEF cycleACH
  <1> HIDE DEF mark
  <1>4. /\ drafts' \in DraftSet /\ drafts'.evidencias = drafts.evidencias /\ drafts'.hipoteses = drafts.hipoteses
        /\ drafts'.matrix = [drafts.matrix EXCEPT ![c] = mark]
    BY <1>1, <1>2, <1>3 DEF DraftSet
  <1>5. CASE misplaced'
    BY <1>1, <1>4, <1>5, MarksAre DEF MarksFit
  <1>6. CASE ~misplaced'
    <2>1. ~misplaced /\ deskShown = drafts
      BY <1>3, <1>6 DEF DraftsFit, DeskShowsDrafts
    <2>2. /\ MarksOf(drafts.evidencias, drafts.matrix) = judged
          /\ Inside(drafts.evidencias, drafts.hipoteses, drafts.matrix)
      BY <2>1, MarksAre DEF DraftsFit, MarksFit
    <2>3. c[1] <= Len(drafts.evidencias) /\ c[2] <= drafts.hipoteses
      BY <1>3, <2>1 DEF ShownCell
    <2>4. drafts.evidencias \in Seq(DraftRows) /\ drafts.matrix \in [Cells -> {"N", "C", "I"}]
      BY <1>1 DEF DraftSet
    <2>5. judged' = MarksOf(drafts.evidencias, [drafts.matrix EXCEPT ![c] = mark])
      <3>1. judged' = {j \in MarksOf(drafts.evidencias, drafts.matrix) : j[1] # <<drafts.evidencias[c[1]], c[2]>>}
                        \union (IF mark = "N" THEN {} ELSE {<<<<drafts.evidencias[c[1]], c[2]>>, mark>>})
        BY <1>3, <2>1, <2>2 DEF mark
      <3> DEFINE lines == drafts.evidencias
                 matrix == drafts.matrix
      <3>2. /\ lines \in Seq(DraftRows) /\ Distinct(lines) /\ matrix \in [Cells -> {"N", "C", "I"}]
            /\ c[1] <= Len(lines)
        BY <1>1, <2>3, <2>4
      <3> HIDE DEF lines, matrix
      <3>3. MarksOf(lines, [matrix EXCEPT ![c] = mark]) = Remarked(lines, matrix, c, mark)
        BY <1>2, <3>2, CellMarked
      <3> QED
        BY <3>1, <3>3 DEF lines, matrix, Remarked
    <2>6. Inside(drafts'.evidencias, drafts'.hipoteses, drafts'.matrix)
      BY <1>4, <2>2, <2>3, <2>4 DEF Inside
    <2> QED
      BY <1>1, <1>4, <2>5, <2>6, MarksAre DEF MarksFit
  <1> QED
    BY <1>5, <1>6

LEMMA DraftsNextInv ==
  ASSUME DraftsFit, [DraftsNext]_draftVars
  PROVE  DraftsFit'
  <1>1. findingClass' \in [Findings -> {"dado_bruto", "conclusao_humana"}]
    BY DEF DraftsFit, DraftsNext, draftVars, toggleTacerItem, addACHHipotese, addACHEvidence, ValidatedFinding, cycleACH,
           Promoted, ReadElsewhere, DraftsGo
  <1>2. DeskShowsDrafts'
    BY DEF DraftsFit, DraftsNext, draftVars, toggleTacerItem, addACHHipotese, addACHEvidence, ValidatedFinding, cycleACH,
           Promoted, ReadElsewhere, Redrawn, DeskShowsDrafts
  <1>0. drafts \in DraftSet /\ Distinct(drafts.evidencias) /\ MarksStay
    BY DEF DraftsFit
  <1> DEFINE Goal == drafts' \in DraftSet /\ Distinct(drafts'.evidencias) /\ MarksStay'
  <1>3. ASSUME NEW idx \in 0..(Checks - 1), toggleTacerItem(idx) PROVE Goal
    <2>1. drafts' = [drafts EXCEPT !.ticked = IF @ > idx THEN idx ELSE idx + 1] /\ UNCHANGED <<judged, misplaced>>
      BY <1>3 DEF toggleTacerItem
    <2>2. /\ drafts' \in DraftSet /\ drafts'.evidencias = drafts.evidencias /\ drafts'.matrix = drafts.matrix
          /\ drafts'.hipoteses = drafts.hipoteses
      BY <1>0, <2>1 DEF DraftSet
    <2> QED
      BY <1>0, <2>1, <2>2, MarksAre DEF MarksFit
  <1>4. ASSUME addACHHipotese PROVE Goal
    <2>1. drafts' = [drafts EXCEPT !.hipoteses = @ + 1] /\ UNCHANGED <<judged, misplaced>>
      BY <1>4 DEF addACHHipotese
    <2>2. /\ drafts' \in DraftSet /\ drafts'.evidencias = drafts.evidencias /\ drafts'.matrix = drafts.matrix
          /\ drafts'.hipoteses = drafts.hipoteses + 1 /\ drafts.hipoteses \in Nat
      BY <1>0, <2>1 DEF DraftSet
    <2>3. \A c \in Cells : c[2] <= drafts.hipoteses => c[2] <= drafts'.hipoteses
      BY <2>2, CellParts
    <2>4. Inside(drafts.evidencias, drafts.hipoteses, drafts.matrix)
             => Inside(drafts'.evidencias, drafts'.hipoteses, drafts'.matrix)
      BY <2>2, <2>3 DEF Inside
    <2> QED
      BY <1>0, <2>1, <2>2, <2>4, MarksAre DEF MarksFit
  <1>5. ASSUME UNCHANGED <<drafts, judged, misplaced>> PROVE Goal
    BY <1>0, <1>5, MarksAre
  <1>6. ASSUME DraftsGo PROVE Goal
    <2>1. drafts' = NoDrafts /\ judged' = {}
      BY <1>6 DEF DraftsGo, NoJudgement
    <2> QED
      BY <2>1, NoMarks, MarksAre DEF MarksFit
  <1>7. Goal
    BY <1>3, <1>4, <1>5, <1>6, RowStep, CycleStep DEF DraftsNext, draftVars, Promoted, ReadElsewhere, ValidatedFinding
  <1> QED
    BY <1>1, <1>2, <1>7 DEF DraftsFit

LEMMA DraftsInitInv ==
  ASSUME DraftsInit
  PROVE  DraftsFit
  <1>1. drafts = NoDrafts /\ deskShown = NoDrafts /\ judged = {} /\ findingClass = [f \in Findings |-> "dado_bruto"]
    BY DEF DraftsInit, NoJudgement
  <1>2. MarksStay
    BY <1>1, NoMarks, MarksAre DEF MarksFit
  <1> QED
    BY <1>1, <1>2, NoMarks DEF DraftsFit, DeskShowsDrafts

LEMMA DraftsAreSafe ==
  ASSUME DraftsFit
  PROVE  DraftsSafety
  BY DEF DraftsFit, DraftsSafety

(***************************************************************************)
(* The corporate radar.                                                    *)
(***************************************************************************)
QueryTexts == Targets \union {"", "cnpj", "cpf"}
ResultSet == [kind : TargetTypes \union {"none", "error"}, of : QueryTexts, partners : Nat]
RadarStates == [tipo : TargetTypes, query : QueryTexts, result : ResultSet, loading : BOOLEAN]
ConsultSet == [tipo : RemoteTypes, target : QueryTexts]

\* The dialog of the operation is open only while nothing is asked.
RadarFits ==
    /\ radarState \in RadarStates /\ field \in QueryTexts
    /\ filling # NoTarget => filling.tipo \in TargetTypes /\ filling.target \in QueryTexts
    /\ consults \subseteq ConsultSet
    /\ consults = {} \/ \E c \in consults : consults = {c}
    /\ radarState.loading <=> consults # {}
    /\ confirming => ~radarState.loading
    /\ ConsultsFit

(* What the texts of the page are.                                           *)
LEMMA TextsAre ==
  /\ NoMap \in ResultSet /\ NoMap.kind = "none" /\ "cnpj" \in QueryTexts /\ "cpf" \in QueryTexts
  /\ \A q : FitsTarget("cnpj", q) => q = "cnpj"
  /\ Targets \subseteq QueryTexts
  <1>1. "" \in QueryTexts /\ "cnpj" \in QueryTexts /\ "cpf" \in QueryTexts /\ Targets \subseteq QueryTexts
    BY Zenon DEF QueryTexts
  <1>2. \A q : FitsTarget("cnpj", q) => q = "cnpj"
    BY Zenon DEF FitsTarget
  <1>3. ASSUME NEW written \in QueryTexts
        PROVE  [kind |-> "none", of |-> written, partners |-> 0] \in ResultSet
    BY DEF ResultSet
  <1>4. NoMap \in ResultSet
    BY <1>1, <1>3, Zenon DEF NoMap
  <1>5. NoMap.kind = "none"
    BY Zenon DEF NoMap
  <1> QED
    BY <1>1, <1>2, <1>4, <1>5

\* The page is drawn with another state of the radar.
Redrawn1(tipo, query) == [radarState EXCEPT !.tipo = tipo, !.query = query]

(* It asks what it asked before, and shows the result it showed.             *)
LEMMA ShownStep1 ==
  ASSUME RadarFits, NEW state \in RadarStates, Shows(state),
         state.loading = radarState.loading, state.result = radarState.result, UNCHANGED <<consults, wizardOpened>>,
         confirming' => confirming, filling' = NoTarget \/ (filling'.tipo \in TargetTypes /\ filling'.target \in QueryTexts)
  PROVE  RadarFits'
  <1>1. radarState' = state /\ field' = state.query
    BY DEF Shows
  <1>2. state.query \in QueryTexts
    BY DEF RadarStates
  <1> QED
    BY <1>1, <1>2 DEF RadarFits, ConsultsFit

LEMMA StatesAre ==
  ASSUME RadarFits
  PROVE  /\ \A t \in TargetTypes, q \in QueryTexts :
              /\ Redrawn1(t, q) \in RadarStates /\ Redrawn1(t, q).loading = radarState.loading
              /\ Redrawn1(t, q).result = radarState.result
         /\ radarState.tipo \in TargetTypes /\ radarState.query \in QueryTexts /\ radarState.result \in ResultSet
         /\ radarState = Redrawn1(radarState.tipo, radarState.query)
  <1>1. radarState \in RadarStates
    BY DEF RadarFits
  <1> QED
    BY <1>1 DEF RadarStates, Redrawn1

LEMMA ConfirmStep ==
  ASSUME RadarFits, ConfirmMap
  PROVE  RadarFits'
  <1> DEFINE tipo == radarState.tipo
             asking == [radarState EXCEPT !.query = field, !.loading = TRUE]
             found == [kind |-> tipo, of |-> field, partners |-> 0]
             displayed == [radarState EXCEPT !.query = field, !.loading = FALSE, !.result = found]
             consult == [tipo |-> tipo, target |-> field]
  <1>1. /\ confirming /\ ~confirming' /\ UNCHANGED <<filling, wizardOpened>>
        /\ radarState \in RadarStates /\ field \in QueryTexts /\ tipo \in TargetTypes
    BY StatesAre DEF ConfirmMap, RadarFits
  <1>2. ~radarState.loading /\ consults = {}
    BY <1>1 DEF RadarFits
  <1>3. CASE ~StillFits
    <2>1. UNCHANGED <<radarState, field, consults>>
      BY <1>3 DEF ConfirmMap, SamePage
    <2> QED
      BY <1>1, <2>1 DEF RadarFits, ConsultsFit
  <1>4. CASE StillFits /\ tipo \in RemoteTypes
    <2>1. Shows(asking) /\ consults' = consults \cup {consult} /\ FitsTarget(tipo, field)
      BY <1>4 DEF ConfirmMap, StillFits
    <2>2. /\ asking \in RadarStates /\ asking.loading = TRUE /\ asking.query = field
          /\ asking.result = radarState.result
      BY <1>1 DEF RadarStates
    <2>3. consult \in ConsultSet /\ consult.tipo = tipo /\ consult.target = field
      BY <1>1, <1>4 DEF ConsultSet
    <2> HIDE DEF asking, consult
    <2>4. consults' = {consult} /\ radarState' = asking /\ field' = field
      BY <1>2, <2>1, <2>2 DEF Shows
    <2>5. ConsultsFit'
      BY <1>1, <1>4, <2>1, <2>2, <2>3, <2>4 DEF RadarFits, ConsultsFit
    <2> QED
      BY <1>1, <2>2, <2>3, <2>4, <2>5 DEF RadarFits
  <1>5. CASE StillFits /\ tipo \notin RemoteTypes
    <2>1. Shows(displayed) /\ consults' = consults /\ FitsTarget(tipo, field)
      BY <1>5 DEF ConfirmMap, StillFits
    <2>2. found \in ResultSet /\ found.kind = tipo /\ found.of = field
      BY <1>1 DEF ResultSet
    <2> HIDE DEF found
    <2>3. displayed \in RadarStates /\ displayed.loading = FALSE /\ displayed.query = field /\ displayed.result = found
      BY <1>1, <2>2 DEF RadarStates
    <2> HIDE DEF displayed
    <2>4. consults' = {} /\ radarState' = displayed /\ field' = field
      BY <1>2, <2>1, <2>3 DEF Shows
    <2>5. ConsultsFit'
      BY <1>1, <2>1, <2>2, <2>3, <2>4 DEF RadarFits, ConsultsFit
    <2> QED
      BY <1>1, <2>3, <2>4, <2>5 DEF RadarFits
  <1> QED
    BY <1>3, <1>4, <1>5

LEMMA AnswerStep1 ==
  ASSUME RadarFits, NEW c \in consults, RadarAnswers(c)
  PROVE  RadarFits'
  <1>1. /\ radarState \in RadarStates /\ c \in ConsultSet /\ consults = {c} /\ FitsTarget(c.tipo, c.target)
        /\ ~confirming /\ consults' = consults \ {c} /\ UNCHANGED <<confirming, filling, wizardOpened>>
    BY DEF RadarFits, RadarAnswers, ConsultsFit
  <1>2. PICK result \in RegisterOutcomes(c) : Shows([radarState EXCEPT !.loading = FALSE, !.result = result])
    BY DEF RadarAnswers
  <1>3. c.tipo \in {"cnpj", "endereco"} /\ c.target \in QueryTexts
    BY <1>1 DEF ConsultSet, RemoteTypes
  <1>4. result \in ResultSet /\ (result.kind \in TargetTypes => FitsTarget(result.kind, result.of))
    <2>1. CASE result = [NoMap EXCEPT !.kind = "error"]
      <3>1. result \in ResultSet /\ result.kind = "error"
        BY <2>1, TextsAre DEF ResultSet
      <3> QED
        BY <3>1 DEF TargetTypes
    <2>2. ASSUME NEW n \in 0..MaxPartners, c.tipo = "cnpj", result = BuildRadar(c.target, n)
          PROVE  result \in ResultSet /\ (result.kind \in TargetTypes => FitsTarget(result.kind, result.of))
      <3>1. result \in ResultSet /\ result.kind = c.tipo /\ result.of = c.target
        BY <1>3, <2>2 DEF BuildRadar, ResultSet, TargetTypes
      <3> QED
        BY <1>1, <3>1
    <2>3. CASE c.tipo = "endereco" /\ result = [NoMap EXCEPT !.kind = "endereco", !.of = c.target]
      <3>1. result \in ResultSet /\ result.kind = c.tipo /\ result.of = c.target
        BY <1>3, <2>3, TextsAre DEF ResultSet, TargetTypes
      <3> QED
        BY <1>1, <3>1
    <2> QED
      BY <1>2, <1>3, <2>1, <2>2, <2>3 DEF RegisterOutcomes
  <1> DEFINE state == [radarState EXCEPT !.loading = FALSE, !.result = result]
  <1>5. state \in RadarStates /\ state.loading = FALSE /\ state.result = result /\ state.query \in QueryTexts
    BY <1>1, <1>4 DEF RadarStates
  <1> HIDE DEF state
  <1>6. radarState' = state /\ field' = state.query /\ consults' = {}
    BY <1>1, <1>2 DEF Shows, state
  <1>7. ConsultsFit'
    BY <1>1, <1>4, <1>5, <1>6 DEF RadarFits, ConsultsFit
  <1> QED
    BY <1>1, <1>5, <1>6, <1>7 DEF RadarFits

LEMMA RadarNextInv ==
  ASSUME RadarFits, [RadarNext]_radarVars
  PROVE  RadarFits'
  <1>1. CASE UNCHANGED radarVars
    BY <1>1 DEF radarVars, RadarFits, ConsultsFit
  <1>2. ASSUME NEW q \in Targets, TypeTarget(q) PROVE RadarFits'
    BY <1>2, TextsAre DEF TypeTarget, RadarFits, ConsultsFit
  <1>3. ASSUME NEW t \in TargetTypes, ChooseTargetType(t) PROVE RadarFits'
    <2>1. Redrawn1(t, radarState.query) = [radarState EXCEPT !.tipo = t]
      BY DEF RadarFits, RadarStates, Redrawn1
    <2>2. Shows(Redrawn1(t, radarState.query)) /\ UNCHANGED <<confirming, filling, consults, wizardOpened>>
      BY <1>3, <2>1 DEF ChooseTargetType
    <2>3. filling' = NoTarget \/ (filling'.tipo \in TargetTypes /\ filling'.target \in QueryTexts)
      BY <2>2 DEF RadarFits
    <2> QED
      BY <2>2, <2>3, StatesAre, ShownStep1
  <1>4. CASE PressMap \/ CancelMap \/ LeaveRadar
    BY <1>4 DEF PressMap, CancelMap, LeaveRadar, SamePage, RadarFits, ConsultsFit
  <1>5. CASE ConfirmMap
    BY <1>5, ConfirmStep
  <1>6. ASSUME NEW c \in consults, RadarAnswers(c) PROVE RadarFits'
    BY <1>6, AnswerStep1
  <1>7. CASE OpenRadar
    <2>1. Shows(radarState) /\ UNCHANGED <<confirming, filling, consults, wizardOpened>>
      BY <1>7 DEF OpenRadar
    <2>2. filling' = NoTarget \/ (filling'.tipo \in TargetTypes /\ filling'.target \in QueryTexts)
      BY <2>1 DEF RadarFits
    <2>3. radarState \in RadarStates
      BY DEF RadarFits
    <2> QED
      BY <2>1, <2>2, <2>3, ShownStep1
  <1>8. ASSUME NEW t \in {"cnpj", "cpf"}, SearchClient(t) PROVE RadarFits'
    <2>1. /\ Shows(radarState) /\ UNCHANGED <<confirming, consults, wizardOpened>>
          /\ filling' = [tipo |-> t, target |-> t]
      BY <1>8 DEF SearchClient
    <2>2. filling'.tipo \in TargetTypes /\ filling'.target \in QueryTexts
      BY <2>1, TextsAre DEF TargetTypes
    <2>3. radarState \in RadarStates
      BY DEF RadarFits
    <2> QED
      BY <2>1, <2>2, <2>3, ShownStep1
  <1>9. CASE FillClient
    <2> DEFINE state == Redrawn1(filling.tipo, filling.target)
    <2>1. filling # NoTarget /\ filling' = NoTarget /\ Shows(state) /\ UNCHANGED <<confirming, consults, wizardOpened>>
      BY <1>9 DEF FillClient, Redrawn1
    <2>2. filling.tipo \in TargetTypes /\ filling.target \in QueryTexts
      BY <2>1 DEF RadarFits
    <2>3. state \in RadarStates /\ state.loading = radarState.loading /\ state.result = radarState.result
      BY <2>2, StatesAre
    <2> HIDE DEF state
    <2> QED
      BY <2>1, <2>3, ShownStep1
  <1>10. CASE RadarToInvestigation
    <2>1. /\ wizardOpened' = radarState.result /\ UNCHANGED <<radarState, field, confirming, filling, consults>>
          /\ "investigate" \in RadarPanels
      BY <1>10 DEF RadarToInvestigation, SamePage
    <2>2. radarState.result.kind = "cnpj"
      BY <2>1, StatesAre DEF RadarPanels, ResultSet, TargetTypes
    <2>3. radarState.result.of = "cnpj"
      BY <2>2, TextsAre DEF RadarFits, ConsultsFit, TargetTypes
    <2> QED
      BY <2>1, <2>3 DEF RadarFits, ConsultsFit
  <1> QED
    BY <1>1, <1>2, <1>3, <1>4, <1>5, <1>6, <1>7, <1>8, <1>9, <1>10 DEF RadarNext

LEMMA RadarInitInv ==
  ASSUME RadarInit
  PROVE  RadarFits
  <1> DEFINE begun(written) == [tipo |-> "cnpj", query |-> written, result |-> NoMap, loading |-> FALSE]
  <1>1. \E written \in QueryTexts : radarState = begun(written) /\ field = written
    <2>1. "" \in QueryTexts
      BY Zenon DEF QueryTexts
    <2> QED
      BY <2>1, Zenon DEF RadarInit
  <1>2. ~confirming /\ filling = NoTarget /\ consults = {} /\ wizardOpened = NoMap
    BY Zenon DEF RadarInit
  <1>3. radarState \in RadarStates /\ radarState.result = NoMap /\ radarState.loading = FALSE /\ field \in QueryTexts
    BY <1>1, TextsAre DEF RadarStates, TargetTypes
  <1>4. ConsultsFit
    BY <1>2, <1>3, TextsAre DEF ConsultsFit, TargetTypes
  <1> QED
    BY <1>2, <1>3, <1>4 DEF RadarFits

LEMMA RadarIsSafe ==
  ASSUME RadarFits
  PROVE  RadarSafety
  <1>1. Cardinality(consults) <= 1
    <2>1. Cardinality({}) = 0 /\ \A c : Cardinality({c}) = 1
      BY FS_EmptySet, FS_Singleton
    <2> QED
      BY <2>1 DEF RadarFits
  <1> QED
    BY <1>1 DEF RadarFits, RadarSafety, OneConsultation

(***************************************************************************)
(* The parts of the page, the address and the preferences.                 *)
(***************************************************************************)
\* A row of dialogs returns to where its first was opened.
PageFits ==
    /\ window \in {0, 1, 2} /\ narrow \in BOOLEAN /\ menu \in BOOLEAN
    /\ prefsOpen \in BOOLEAN /\ wasOpen = (window # 0)
    /\ InertFits /\ FocusCanBeReached
    /\ window # 0 => back = opener

PathFits ==
    /\ path \in Seq(Areas \union {Home, "unknown"}) /\ at \in 1..Len(path)
    /\ HistoryIsKept

\* A tab that does not show what is stored has an event on its way.
PrefsFit ==
    /\ prefs \in [Tabs -> Themes] /\ themed \in [Tabs -> {"dark", "light"}]
    /\ storageEvents \subseteq Tabs \X (Themes \union {"garbled"})
    /\ \A t \in Tabs \ unsaved : prefs[t] = Normal(stored) \/ \E n \in storageEvents : n[1] = t
    /\ LooksAsPreferred

(* What closing a dialog, or the preferences, does to the focus.             *)
Returns == window # 0 /\ window' = 0 /\ ~prefsOpen /\ opener # "body" /\ opener \notin inert' => focus' = opener

(* What a change of the navigation does, whoever makes it.                   *)
LEMMA MenuStep ==
  ASSUME PageFits, NEW open \in BOOLEAN, SetMobileMenu(open), narrow' \in BOOLEAN, open => narrow',
         UNCHANGED <<wasOpen, back, opener, prefsOpen>>
  PROVE  PageFits' /\ Returns
  <1> USE DEF PageFits, SetMobileMenu, UpdateInert, InertParts, Kept
  <1>1. window' = window /\ menu' = open /\ inert' = InertParts(window # 0, open, narrow')
    OBVIOUS
  <1>2. InertFits'
    BY <1>1 DEF InertFits
  <1>3. focus' \notin inert'
    BY <1>1 DEF FocusCanBeReached
  <1>4. prefsOpen => focus' \notin {"main", "sidebar"}
    BY <1>1 DEF FocusCanBeReached
  <1>5. FocusCanBeReached'
    BY <1>3, <1>4 DEF FocusCanBeReached
  <1>6. QED
    BY <1>1, <1>2, <1>5 DEF Returns

(* A step that only moves the focus.                                         *)
LEMMA FocusStep ==
  ASSUME PageFits, focus' \notin inert, prefsOpen' => focus' \notin {"main", "sidebar"}, prefsOpen' \in BOOLEAN,
         UNCHANGED <<narrow, menu, window, wasOpen, inert, back, opener>>
  PROVE  PageFits' /\ Returns
  <1>1. InertFits'
    BY DEF PageFits, InertFits, InertParts
  <1>2. FocusCanBeReached'
    BY DEF FocusCanBeReached
  <1>3. QED
    BY <1>1, <1>2 DEF PageFits, Returns

LEMMA CloseModalStep ==
  ASSUME PageFits, CloseModalNow
  PROVE  PageFits' /\ Returns
  <1> USE DEF PageFits, CloseModalNow, UpdateInert, Kept, Focusable
  <1>1. InertFits' /\ inert' = InertParts(FALSE, menu, narrow) /\ window' = 0
    BY DEF InertFits, InertParts
  <1>2. "body" \notin inert' /\ "dialog" \notin inert'
    BY <1>1 DEF InertParts
  <1>3. focus' \notin inert'
    BY <1>2
  <1>4. prefsOpen => focus' \notin {"main", "sidebar"}
    BY DEF FocusCanBeReached
  <1>5. FocusCanBeReached'
    BY <1>3, <1>4 DEF FocusCanBeReached
  <1>6. Returns
    BY DEF Returns
  <1>7. QED
    BY <1>1, <1>5, <1>6

LEMMA OpenModalStep ==
  ASSUME PageFits, OpenModalOver
  PROVE  PageFits' /\ Returns
  <1> USE DEF PageFits, OpenModalOver
  <1>1. window' \in {1, 2}
    OBVIOUS
  <1>2. inert' = InertParts(TRUE, menu, narrow)
    BY <1>1 DEF UpdateInert, InertParts
  <1>3. InertFits'
    BY <1>1, <1>2 DEF InertFits, InertParts
  <1>4. FocusCanBeReached'
    BY <1>2 DEF FocusCanBeReached, InertParts
  <1>5. back' = opener'
    BY DEF NotesFocus
  <1>6. Returns
    BY <1>1 DEF Returns
  <1>7. wasOpen' = (window' # 0)
    <2>1. wasOpen' = TRUE /\ window' # 0
      BY <1>1
    <2>2. QED
      BY <2>1, Zenon
  <1>8. window' \in {0, 1, 2} /\ narrow' \in BOOLEAN /\ menu' \in BOOLEAN /\ prefsOpen' \in BOOLEAN
    BY <1>1
  <1>9. PageFits'
    BY <1>3, <1>4, <1>5, <1>7, <1>8
  <1>10. QED
    BY <1>6, <1>9

LEMMA SectionStep ==
  ASSUME PageFits, SectionDrawn
  PROVE  PageFits' /\ Returns
  <1> USE DEF PageFits, SectionDrawn
  <1>1. InertFits'
    BY DEF InertFits
  <1>2. FocusCanBeReached'
    BY DEF FocusCanBeReached, InertFits, InertParts
  <1>3. QED
    BY <1>1, <1>2 DEF Returns

LEMMA PageNextInv ==
  ASSUME PageFits, [PageNext]_pageVars
  PROVE  PageFits' /\ Returns
  <1> DEFINE Goal == PageFits' /\ Returns
  <1>1. ASSUME UNCHANGED pageVars PROVE Goal
    BY <1>1 DEF PageFits, Returns, InertFits, FocusCanBeReached, pageVars
  <1>2. ASSUME ToggleMenu PROVE Goal
    BY <1>2, MenuStep DEF ToggleMenu, PageFits
  <1>3. ASSUME Resize PROVE Goal
    BY <1>3, MenuStep DEF Resize, ClosesMenu, PageFits
  <1>4. ASSUME MoveFocus PROVE Goal
    BY <1>4, FocusStep DEF MoveFocus, PageFits
  <1>5. ASSUME Redraw \/ ReplaceControl PROVE Goal
    BY <1>5, SectionStep DEF Redraw, ReplaceControl
  <1>6. ASSUME Frame PROVE Goal
    <2>1. focus' = focus \/ (focus' = "dialog" /\ ~prefsOpen)
      BY <1>6 DEF Frame
    <2>2. focus' \notin inert
      BY <2>1 DEF PageFits, FocusCanBeReached, InertFits, InertParts
    <2>3. prefsOpen => focus' \notin {"main", "sidebar"}
      BY <2>1 DEF PageFits, FocusCanBeReached
    <2>4. QED
      BY <1>6, <2>2, <2>3, FocusStep DEF Frame, PageFits
  <1>7. ASSUME Escape PROVE Goal
    <2>1. CASE CloseModalNow
      BY <2>1, CloseModalStep
    <2>2. CASE /\ window = 0 /\ menu /\ UNCHANGED narrow /\ SetMobileMenu(FALSE)
               /\ UNCHANGED <<wasOpen, back, opener, prefsOpen, prefsBack, frame, frames, pathVars, prefVars>>
      BY <2>2, MenuStep DEF PageFits
    <2>3. QED
      BY <1>7, <2>1, <2>2 DEF Escape
  <1>8. ASSUME Tab PROVE Goal
    <2>1. focus' \notin inert
      BY <1>8 DEF Tab, PageFits, InertFits, InertParts
    <2>2. QED
      BY <1>8, <2>1, FocusStep DEF Tab, PageFits
  <1>9. ASSUME NEW wasModal \in BOOLEAN, RestoreControl(wasModal) PROVE Goal
    <2>1. focus' = focus \/ (focus' = "main" /\ ~prefsOpen /\ "main" \notin inert)
      BY <1>9 DEF RestoreControl
    <2>2. focus' \notin inert /\ (prefsOpen => focus' \notin {"main", "sidebar"})
      BY <2>1 DEF PageFits, FocusCanBeReached
    <2>3. QED
      BY <1>9, <2>2, FocusStep DEF RestoreControl, PageFits
  <1>10. ASSUME GoByKeyboard PROVE Goal
    <2>1. InertFits'
      BY <1>10 DEF GoByKeyboard, UpdateInert, PageFits, InertFits
    <2>2. FocusCanBeReached'
      BY <1>10, <2>1 DEF GoByKeyboard, PageFits, FocusCanBeReached, InertFits, InertParts
    <2>3. QED
      BY <1>10, <2>1, <2>2 DEF GoByKeyboard, PageFits, Returns
  <1>11. ASSUME FocusHeading PROVE Goal
    <2>1. focus' = focus \/ (focus' = "main" /\ ~prefsOpen /\ "main" \notin inert)
      BY <1>11 DEF FocusHeading
    <2>2. focus' \notin inert /\ (prefsOpen => focus' \notin {"main", "sidebar"})
      BY <2>1 DEF PageFits, FocusCanBeReached
    <2>3. QED
      BY <1>11, <2>2, FocusStep DEF FocusHeading, PageFits
  <1>12. ASSUME OpenPreferences PROVE Goal
    <2>1. "preferences" \notin inert
      BY DEF PageFits, InertFits, InertParts
    <2>2. QED
      BY <1>12, <2>1, FocusStep DEF OpenPreferences
  <1>13. ASSUME ClosePreferences PROVE Goal
    <2>1. focus' \notin inert
      BY <1>13 DEF ClosePreferences, PageFits, InertFits, InertParts
    <2>2. QED
      BY <1>13, <2>1, FocusStep DEF ClosePreferences
  <1>14. QED
    BY <1>1, <1>2, <1>3, <1>4, <1>5, <1>6, <1>7, <1>8, <1>9, <1>10, <1>11, <1>12, <1>13,
       OpenModalStep, CloseModalStep DEF PageNext

(* The history after a section is opened over the entries up to the n-th.    *)
LEMMA NavigateStep ==
  ASSUME NEW s \in Areas \union {Home, "unknown"},
         NEW entries \in Seq(Areas \union {Home, "unknown"}), NEW n \in 1..Len(entries), s = entries[n],
         \A i \in 2..Len(entries) : entries[i] # entries[i - 1],
         Navigate(s, entries, n)
  PROVE  PathFits'
  <1> DEFINE Sections0 == Areas \union {Home, "unknown"}
             added == Append(SubSeq(entries, 1, n), Known(s))
  <1>1. Known(s) \in Sections0
    BY DEF Known
  <1>2. CASE Known(s) = s
    <2>1. area' = s /\ path' = entries /\ at' = n
      BY <1>2 DEF Navigate, AddsEntry
    <2>2. Len(entries) = 1 => n = 1
      OBVIOUS
    <2>3. QED
      BY <1>2, <2>1, <2>2 DEF PathFits, HistoryIsKept
  <1>3. CASE Known(s) # s
    <2>1. area' = Known(s) /\ path' = added /\ at' = n + 1
      BY <1>3 DEF Navigate, AddsEntry
    <2>2. n \in Nat /\ n <= Len(entries) /\ 1..n \subseteq 1..Len(entries)
      OBVIOUS
    <2>3. SubSeq(entries, 1, n) \in Seq(Sections0) /\ Len(SubSeq(entries, 1, n)) = n
      BY <2>2
    <2>4. \A i \in 1..n : SubSeq(entries, 1, n)[i] = entries[i]
      BY <2>2
    <2>5. added \in Seq(Sections0) /\ Len(added) = n + 1 /\ added[n + 1] = Known(s)
      BY <1>1, <2>3
    <2>6. \A i \in 1..n : added[i] = entries[i]
      BY <1>1, <2>3, <2>4
    <2> HIDE DEF added
    <2>7. ASSUME NEW i \in 2..(n + 1) PROVE added[i] # added[i - 1]
      <3>1. CASE i = n + 1
        BY <1>3, <2>2, <2>5, <2>6, <3>1
      <3>2. CASE i # n + 1
        <4>1. i \in 1..n /\ i - 1 \in 1..n /\ i \in 2..Len(entries)
          BY <2>2, <3>2
        <4>2. QED
          BY <2>6, <4>1
      <3>3. QED
        BY <3>1, <3>2
    <2>8. Len(added) # 1
      BY <2>2, <2>5
    <2>9. QED
      BY <2>1, <2>2, <2>5, <2>7, <2>8 DEF PathFits, HistoryIsKept
  <1>4. QED
    BY <1>2, <1>3

LEMMA PathNextInv ==
  ASSUME PathFits, [PathNext]_pathVars
  PROVE  PathFits'
  <1> USE DEF PathFits
  <1> DEFINE Sections0 == Areas \union {Home, "unknown"}
  <1>1. CASE UNCHANGED pathVars
    BY <1>1 DEF pathVars, HistoryIsKept
  <1>2. ASSUME NEW s \in Areas, ClickLink(s) PROVE PathFits'
    <2>1. Known(s) = s /\ Navigate(s, path, at)
      BY <1>2 DEF ClickLink, Known
    <2>2. CASE path[at] = s
      BY <2>1, <2>2, NavigateStep DEF HistoryIsKept
    <2>3. CASE path[at] # s
      <3> DEFINE added == Append(SubSeq(path, 1, at), s)
      <3>1. area' = s /\ path' = added /\ at' = at + 1
        BY <2>1, <2>3 DEF Navigate, AddsEntry
      <3>2. added \in Seq(Sections0) /\ Len(added) = at + 1 /\ added[at + 1] = s
            /\ \A i \in 1..at : added[i] = path[i]
        OBVIOUS
      <3>3. \A i \in 2..(at + 1) : added[i] # added[i - 1]
        <4>1. \A i \in 2..Len(path) : path[i] # path[i - 1]
          BY DEF HistoryIsKept
        <4> HIDE DEF added
        <4>2. ASSUME NEW i \in 2..(at + 1) PROVE added[i] # added[i - 1]
          <5>1. at \in 1..Len(path) /\ i - 1 \in 1..at /\ i - 1 \in 1..Len(path)
            OBVIOUS
          <5>2. CASE i = at + 1
            BY <2>3, <3>2, <5>1, <5>2
          <5>3. CASE i # at + 1
            <6>1. i \in 1..at /\ i \in 2..Len(path)
              BY <5>1, <5>3
            <6> QED
              BY <3>2, <4>1, <5>1, <6>1
          <5> QED
            BY <5>2, <5>3
        <4> QED
          BY <4>2
      <3> HIDE DEF added
      <3>4. at \in Nat /\ at + 1 # 1
        OBVIOUS
      <3>5. QED
        BY <3>1, <3>2, <3>3, <3>4 DEF HistoryIsKept
    <2>4. QED
      BY <2>2, <2>3
  <1>3. ASSUME GoBack PROVE PathFits'
    <2>1. at - 1 \in 1..Len(path) /\ path[at - 1] \in Sections0 /\ Navigate(path[at - 1], path, at - 1)
      BY <1>3 DEF GoBack
    <2>2. QED
      BY <2>1, NavigateStep DEF HistoryIsKept
  <1>4. ASSUME GoForward PROVE PathFits'
    <2>1. at + 1 \in 1..Len(path) /\ path[at + 1] \in Sections0 /\ Navigate(path[at + 1], path, at + 1)
      BY <1>4 DEF GoForward
    <2>2. QED
      BY <2>1, NavigateStep DEF HistoryIsKept
  <1>5. ASSUME NEW s \in Areas \union {"unknown"}, EditAddress(s) PROVE PathFits'
    <2> DEFINE edited == Append(SubSeq(path, 1, at), s)
    <2>1. s # path[at] /\ Navigate(s, edited, at + 1)
      BY <1>5 DEF EditAddress
    <2>2. edited \in Seq(Sections0) /\ Len(edited) = at + 1 /\ edited[at + 1] = s
          /\ \A i \in 1..at : edited[i] = path[i]
      OBVIOUS
    <2>3. \A i \in 2..(at + 1) : edited[i] # edited[i - 1]
      BY <2>1, <2>2 DEF HistoryIsKept
    <2> HIDE DEF edited
    <2>4. QED
      <3>1. at + 1 \in 1..Len(edited) /\ s \in Sections0
        BY <2>2
      <3>2. QED
        BY <2>1, <2>2, <2>3, <3>1, NavigateStep
  <1>6. QED
    BY <1>1, <1>2, <1>3, <1>4, <1>5 DEF PathNext

LEMMA SetStep ==
  ASSUME PrefsFit, NEW t \in Tabs, NEW p \in Themes, SetPreferences(t, p)
  PROVE  PrefsFit'
  <1> USE DEF PrefsFit, SetPreferences
  <1>1. Look(p, dark) \in {"dark", "light"} /\ Normal(p) = p
    BY DEF Look, Themes, Normal
  <1>2. prefs' \in [Tabs -> Themes] /\ themed' \in [Tabs -> {"dark", "light"}]
    BY <1>1
  <1>3. LooksAsPreferred'
    BY DEF LooksAsPreferred
  <1>4. storageEvents' \subseteq Tabs \X (Themes \union {"garbled"})
    OBVIOUS
  <1>5. ASSUME NEW u \in Tabs \ unsaved' PROVE prefs'[u] = Normal(stored') \/ \E n \in storageEvents' : n[1] = u
    <2>1. CASE stored' = p /\ unsaved' = unsaved \ {t}
               /\ storageEvents' = IF stored = p THEN storageEvents ELSE storageEvents \union {<<v, p>> : v \in Tabs \ {t}}
      <3>1. CASE u = t
        BY <1>1, <2>1, <3>1
      <3>2. CASE u # t /\ stored = p
        BY <1>5, <2>1, <3>2
      <3>3. CASE u # t /\ stored # p
        <4>1. <<u, p>> \in storageEvents'
          BY <2>1, <3>3
        <4>2. <<u, p>>[1] = u
          OBVIOUS
        <4>3. QED
          BY <4>1, <4>2
      <3>4. QED
        BY <3>1, <3>2, <3>3
    <2>2. CASE unsaved' = unsaved \union {t} /\ UNCHANGED <<stored, storageEvents>>
      BY <1>5, <2>2
    <2>3. QED
      BY <2>1, <2>2
  <1>6. QED
    BY <1>2, <1>3, <1>4, <1>5

LEMMA PrefNextInv ==
  ASSUME PrefsFit, [PrefNext]_prefVars
  PROVE  PrefsFit'
  <1> USE DEF PrefsFit
  <1>1. CASE UNCHANGED prefVars
    BY <1>1 DEF prefVars, LooksAsPreferred
  <1>2. ASSUME StorageGarbled PROVE PrefsFit'
    <2>1. storageEvents' = storageEvents \union {<<u, "garbled">> : u \in Tabs}
      BY <1>2 DEF StorageGarbled
    <2>2. ASSUME NEW u \in Tabs PROVE \E n \in storageEvents' : n[1] = u
      <3>1. <<u, "garbled">> \in storageEvents' /\ <<u, "garbled">>[1] = u
        BY <2>1
      <3>2. QED
        BY <3>1
    <2>3. LooksAsPreferred'
      BY <1>2 DEF StorageGarbled, LooksAsPreferred
    <2>4. storageEvents' \subseteq Tabs \X (Themes \union {"garbled"})
      BY <2>1
    <2>5. QED
      BY <1>2, <2>2, <2>3, <2>4 DEF StorageGarbled
  <1>3. ASSUME SystemTheme PROVE PrefsFit'
    <2>1. LooksAsPreferred'
      BY <1>3 DEF SystemTheme, LooksAsPreferred
    <2>2. themed' \in [Tabs -> {"dark", "light"}]
      BY <1>3 DEF SystemTheme, Look, Themes
    <2>3. QED
      BY <1>3, <2>1, <2>2 DEF SystemTheme
  <1>4. ASSUME NEW t \in Tabs, ToggleTheme(t) \/ ResetPreferences(t) \/ \E p \in Themes : ChooseTheme(t, p)
        PROVE PrefsFit'
    <2>1. PICK p \in Themes : SetPreferences(t, p)
      BY <1>4 DEF ToggleTheme, ResetPreferences, ChooseTheme, Themes
    <2>2. QED
      BY <2>1, SetStep
  <1>5. ASSUME NEW n \in storageEvents, StorageEvent(n) PROVE PrefsFit'
    <2> USE <1>5 DEF StorageEvent
    <2>1. n[1] \in Tabs /\ ReadNow(n[2]) = Normal(stored) /\ Normal(stored) \in Themes
      BY DEF ReadNow, Normal, Themes
    <2>2. Look(Normal(stored), dark) \in {"dark", "light"}
      BY <2>1 DEF Look, Themes
    <2>3. prefs' \in [Tabs -> Themes] /\ themed' \in [Tabs -> {"dark", "light"}]
      BY <2>1, <2>2 DEF Applies
    <2>4. LooksAsPreferred'
      BY <2>1 DEF LooksAsPreferred, Applies
    <2>5. ASSUME NEW t \in Tabs \ unsaved' PROVE prefs'[t] = Normal(stored') \/ \E m \in storageEvents' : m[1] = t
      <3>1. CASE t = n[1]
        BY <2>1, <3>1
      <3>2. CASE t # n[1]
        BY <2>1, <2>5, <3>2
      <3>3. QED
        BY <3>1, <3>2
    <2>6. QED
      BY <2>3, <2>4, <2>5
  <1>6. QED
    BY <1>1, <1>2, <1>3, <1>4, <1>5 DEF PrefNext

(* The page, the address and the preferences change by themselves.           *)
LEMMA Apart ==
  /\ PageNext => UNCHANGED <<pathVars, prefVars>>
  /\ PathNext => UNCHANGED <<pageVars, prefVars>>
  /\ PrefNext => UNCHANGED <<pageVars, pathVars>>
  <1>1. PageNext => UNCHANGED <<pathVars, prefVars>>
    BY DEF PageNext, ToggleMenu, Resize, MoveFocus, OpenModalOver, CloseModalNow, Redraw, SectionDrawn, Frame, Escape,
           Tab, ReplaceControl, RestoreControl, GoByKeyboard, FocusHeading, OpenPreferences, ClosePreferences
  <1>2. PathNext => UNCHANGED <<pageVars, prefVars>>
    BY DEF PathNext, GoBack, GoForward, ClickLink, EditAddress
  <1>3. PrefNext => UNCHANGED <<pageVars, pathVars>>
    BY DEF PrefNext, StorageGarbled, SystemTheme, ToggleTheme, ResetPreferences, ChooseTheme, SetPreferences, StorageEvent
  <1>4. QED
    BY <1>1, <1>2, <1>3

LEMMA InterfaceInitInv ==
  ASSUME InterfaceInit
  PROVE  PageFits /\ PathFits /\ PrefsFit
  <1> USE DEF InterfaceInit
  <1>1. PageFits
    BY DEF PageFits, InertFits, InertParts, FocusCanBeReached
  <1>2. PathFits
    <2>1. path \in Seq(Areas \union {Home, "unknown"}) /\ Len(path) = 1 /\ area = Known(path[1])
      OBVIOUS
    <2>2. QED
      BY <2>1 DEF PathFits, HistoryIsKept
  <1>3. PrefsFit
    BY DEF PrefsFit, LooksAsPreferred, Look, Normal, Themes
  <1>4. QED
    BY <1>1, <1>2, <1>3

LEMMA InterfaceIsSafe ==
  ASSUME PageFits, PathFits, PrefsFit
  PROVE  InterfaceSafety
  <1>1. TabsAgree
    BY DEF TabsAgree, PrefsFit
  <1>2. QED
    BY <1>1 DEF InterfaceSafety, PageFits, PathFits, PrefsFit

(***************************************************************************)
(* The files.                                                              *)
(***************************************************************************)
Tellings == {"done", "error", "large"}
BatchSet ==
    [files : Seq(FileKinds), at : Nat \ {0}, stage : {"none", "reading", "measuring", "ended", "broken"},
     attached : BOOLEAN]

\* A batch under way has told of the files before the one it is at.
BatchesFit ==
    /\ batches \in [1..MaxBatches -> BatchSet] /\ notices \in [1..MaxBatches -> Seq(Tellings)]
    /\ \A b \in 1..MaxBatches :
          UnderWay(b) => batches[b].at \in 1..Len(batches[b].files) /\ Len(notices[b]) = batches[b].at - 1
    /\ \A b \in 1..MaxBatches : batches[b].stage = "ended" => Len(notices[b]) = Len(batches[b].files)

\* What is kept was told, by a batch that was begun.
KeptFits ==
    /\ filesKept \in Seq((1..MaxBatches) \X Nat)
    /\ \A f \in Range(filesKept) :
          /\ batches[f[1]].stage # "none"
          /\ f[2] \in 1..Len(notices[f[1]]) /\ notices[f[1]][f[2]] = "done"

\* Only a batch that began on the page that is drawn shows its progress there.
SpinnerFits ==
    \A f \in filesPage.spinner :
        f[1] \in 1..MaxBatches /\ batches[f[1]].attached /\ UnderWay(f[1]) /\ batches[f[1]].at = f[2]

PageOfFiles == [drawn : BOOLEAN, rows : Seq((1..MaxBatches) \X Nat), spinner : SUBSET (Nat \X Nat)]

FilesFit ==
    /\ BatchesFit /\ KeptFits /\ SpinnerFits /\ RowsAreOfFiles
    /\ filesPage \in PageOfFiles /\ fileDetail \in SUBSET ((1..MaxBatches) \X Nat)

(* A list without a file holds files of the list.                            *)
LEMMA WithoutFile ==
  ASSUME NEW X, NEW kept \in Seq(X), NEW file
  PROVE  Without(kept, file) \in Seq(X) /\ Range(Without(kept, file)) \subseteq Range(kept)
  <1>1. CASE file \notin Range(kept)
    BY <1>1 DEF Without
  <1>2. CASE file \in Range(kept)
    <2> DEFINE i == CHOOSE i \in DOMAIN kept : kept[i] = file
               before == SubSeq(kept, 1, i - 1)
               after == SubSeq(kept, i + 1, Len(kept))
    <2>1. i \in 1..Len(kept)
      BY <1>2 DEF Range
    <2>2. Without(kept, file) = before \o after
      BY <1>2 DEF Without
    <2> HIDE DEF i
    <2>3. /\ before \in Seq(X) /\ Len(before) = i - 1
          /\ \A j \in 1..(i - 1) : before[j] = kept[j]
      BY <2>1
    <2>4. /\ after \in Seq(X) /\ Len(after) = Len(kept) - i
          /\ \A j \in 1..(Len(kept) - i) : after[j] = kept[i + j]
      BY <2>1
    <2> HIDE DEF before, after
    <2>5. before \o after \in Seq(X)
      BY <2>3, <2>4
    <2>6. ASSUME NEW j \in DOMAIN (before \o after) PROVE \E k \in DOMAIN kept : kept[k] = (before \o after)[j]
      <3>1. CASE j <= i - 1
        <4>1. j \in 1..(i - 1) /\ j \in DOMAIN kept
          BY <2>1, <2>3, <2>4, <2>6, <3>1
        <4>2. (before \o after)[j] = before[j]
          BY <2>3, <2>4, <4>1
        <4>3. QED
          BY <2>3, <4>1, <4>2
      <3>2. CASE ~(j <= i - 1)
        <4>1. j - (i - 1) \in 1..(Len(kept) - i) /\ i + (j - (i - 1)) \in DOMAIN kept
          BY <2>1, <2>3, <2>4, <2>6, <3>2
        <4>2. (before \o after)[j] = after[j - (i - 1)]
          BY <2>1, <2>3, <2>4, <2>6, <3>2
        <4>3. QED
          BY <2>4, <4>1, <4>2
      <3>3. QED
        BY <3>1, <3>2
    <2>7. QED
      BY <2>2, <2>5, <2>6 DEF Range
  <1>3. QED
    BY <1>1, <1>2

(* What was told followed by the refusals of large files.                    *)
LEMMA ToldMore ==
  ASSUME NEW before \in Seq(Tellings), NEW n \in Nat
  PROVE  LET more == before \o [i \in 1..n |-> "large"] IN
         /\ more \in Seq(Tellings) /\ Len(more) = Len(before) + n
         /\ \A i \in 1..Len(before) : more[i] = before[i]
  <1> DEFINE refused == [i \in 1..n |-> "large"]
  <1>1. refused \in Seq(Tellings) /\ Len(refused) = n
    BY DEF Tellings
  <1> HIDE DEF refused
  <1>2. /\ before \o refused \in Seq(Tellings) /\ Len(before \o refused) = Len(before) + n
        /\ \A i \in 1..Len(before) : (before \o refused)[i] = before[i]
    BY <1>1
  <1>3. QED
    BY <1>2 DEF refused

(* What becomes of a batch that goes on: it ends and the page is drawn anew,  *)
(* or it begins its next file and, on the page it is of, shows it.            *)
Ends(b, batch, told0) ==
    /\ batch.stage = "ended" /\ Len(told0) = Len(batch.files)
    /\ batches' = Detached([batches EXCEPT ![b] = batch]) /\ filesPage' = FilesDrawn(filesKept')

Begins(b, batch, told0) ==
    /\ batch.stage = "reading" /\ batch.at \in 1..Len(batch.files) /\ Len(told0) = batch.at - 1
    /\ batches' = [batches EXCEPT ![b] = batch]
    /\ filesPage' = IF batch.attached THEN [filesPage EXCEPT !.spinner = {<<b, batch.at>>}] ELSE filesPage

LEMMA BatchGoesTo ==
  ASSUME NEW b \in 1..MaxBatches, NEW batch \in BatchSet, NEW from \in 1..(Len(batch.files) + 1),
         NEW before \in Seq(Tellings), Len(before) = from - 1, NEW kept, BatchGoes(b, batch, from, before, kept)
  PROVE  \E new \in BatchSet, more \in Seq(Tellings) :
            /\ new.attached = batch.attached /\ filesKept' = kept
            /\ notices' = [notices EXCEPT ![b] = more]
            /\ Len(before) <= Len(more) /\ \A i \in 1..Len(before) : more[i] = before[i]
            /\ Ends(b, new, more) \/ Begins(b, new, more)
  <1> DEFINE left == {i \in from..Len(batch.files) : batch.files[i] # "large"}
             next == CHOOSE i \in left : \A j \in left : i <= j
             rest == Len(batch.files) + 1 - from
  <1>1. batch.files \in Seq(FileKinds) /\ Len(batch.files) \in Nat /\ rest \in Nat
    BY DEF BatchSet
  <1>2. CASE left = {}
    <2> DEFINE more == before \o [i \in 1..rest |-> "large"]
               new == [batch EXCEPT !.stage = "ended"]
    <2>1. EndsBatch(b, batch, more, kept)
      BY <1>2 DEF BatchGoes
    <2>2. /\ more \in Seq(Tellings) /\ Len(more) = Len(before) + rest
          /\ \A i \in 1..Len(before) : more[i] = before[i]
      BY <1>1, ToldMore
    <2> HIDE DEF more
    <2>3. new \in BatchSet /\ new.stage = "ended" /\ new.files = batch.files /\ new.attached = batch.attached
      BY DEF BatchSet
    <2>4. batches' = Detached([batches EXCEPT ![b] = new])
      BY <2>1 DEF EndsBatch
    <2> HIDE DEF new
    <2>5. Len(more) = Len(new.files) /\ Len(before) <= Len(more)
      BY <1>1, <2>2, <2>3
    <2>6. filesPage' = FilesDrawn(filesKept') /\ notices' = [notices EXCEPT ![b] = more] /\ filesKept' = kept
      BY <2>1 DEF EndsBatch
    <2>7. Ends(b, new, more)
      BY <2>3, <2>4, <2>5, <2>6 DEF Ends
    <2>8. QED
      BY <2>2, <2>3, <2>5, <2>6, <2>7
  <1>3. CASE left # {}
    <2>1. left \in SUBSET Nat
      BY <1>1
    <2>2. \E i \in left : \A j \in left : i <= j
      BY <1>3, <2>1, LeastNumber
    <2>3. next \in left
      BY <2>2
    <2> DEFINE more == before \o [i \in 1..(next - from) |-> "large"]
               new == [batch EXCEPT !.at = next, !.stage = "reading"]
    <2>4. /\ batches' = [batches EXCEPT ![b] = new]
          /\ filesPage' = IF batch.attached THEN [filesPage EXCEPT !.spinner = {<<b, next>>}] ELSE filesPage
          /\ notices' = [notices EXCEPT ![b] = more] /\ filesKept' = kept
      BY <1>3 DEF BatchGoes
    <2> HIDE DEF next
    <2>5. next \in Nat \ {0} /\ next \in 1..Len(batch.files) /\ next - from \in Nat
      BY <1>1, <2>3
    <2>6. /\ more \in Seq(Tellings) /\ Len(more) = Len(before) + (next - from)
          /\ \A i \in 1..Len(before) : more[i] = before[i]
      BY <2>5, ToldMore
    <2> HIDE DEF more
    <2>7. /\ new \in BatchSet /\ new.stage = "reading" /\ new.at = next /\ new.files = batch.files
          /\ new.attached = batch.attached
      BY <2>5 DEF BatchSet
    <2> HIDE DEF new
    <2>8. Len(more) = new.at - 1 /\ Len(before) <= Len(more)
      BY <2>5, <2>6, <2>7
    <2>9. Begins(b, new, more)
      BY <2>4, <2>5, <2>7, <2>8 DEF Begins
    <2>10. QED
      BY <2>4, <2>6, <2>7, <2>8, <2>9
  <1>4. QED
    BY <1>2, <1>3

(* A page that is left takes its progress away.                              *)
LEMMA DetachedIs ==
  ASSUME NEW all \in [1..MaxBatches -> BatchSet]
  PROVE  /\ Detached(all) \in [1..MaxBatches -> BatchSet]
         /\ \A b \in 1..MaxBatches : /\ Detached(all)[b].files = all[b].files /\ Detached(all)[b].at = all[b].at
                                     /\ Detached(all)[b].stage = all[b].stage
  <1>1. \A b \in 1..MaxBatches : [all[b] EXCEPT !.attached = FALSE] \in BatchSet
    BY DEF BatchSet
  <1>2. \A b \in 1..MaxBatches : /\ [all[b] EXCEPT !.attached = FALSE].files = all[b].files
                                 /\ [all[b] EXCEPT !.attached = FALSE].at = all[b].at
                                 /\ [all[b] EXCEPT !.attached = FALSE].stage = all[b].stage
    BY DEF BatchSet
  <1>3. QED
    BY <1>1, <1>2 DEF Detached

(* A batch goes on: it told what it keeps of its files, and whose progress is  *)
(* shown keeps its place.                                                    *)
LEMMA BatchStep ==
  ASSUME FilesFit, NEW b \in 1..MaxBatches, NEW batch \in BatchSet, NEW from \in 1..(Len(batch.files) + 1),
         NEW before \in Seq(Tellings), Len(before) = from - 1,
         NEW kept \in Seq((1..MaxBatches) \X Nat), BatchGoes(b, batch, from, before, kept),
         \A f \in Range(kept) : \/ f[1] # b /\ f \in Range(filesKept)
                                \/ f[1] = b /\ f[2] \in 1..Len(before) /\ before[f[2]] = "done",
         Range(filesKept) \subseteq Range(kept),
         batch.attached \/ \A f \in filesPage.spinner : f[1] # b,
         fileDetail' = fileDetail
  PROVE  FilesFit'
  <1>1. PICK new \in BatchSet, more \in Seq(Tellings) :
            /\ new.attached = batch.attached /\ filesKept' = kept
            /\ notices' = [notices EXCEPT ![b] = more]
            /\ Len(before) <= Len(more) /\ \A i \in 1..Len(before) : more[i] = before[i]
            /\ Ends(b, new, more) \/ Begins(b, new, more)
    BY BatchGoesTo
  <1> DEFINE all == [batches EXCEPT ![b] = new]
  <1>2. batches \in [1..MaxBatches -> BatchSet] /\ notices \in [1..MaxBatches -> Seq(Tellings)]
    BY DEF FilesFit, BatchesFit
  <1>3. all \in [1..MaxBatches -> BatchSet] /\ all[b] = new /\ \A c \in 1..MaxBatches : c # b => all[c] = batches[c]
    BY <1>2
  <1>4. notices' \in [1..MaxBatches -> Seq(Tellings)] /\ notices'[b] = more
        /\ \A c \in 1..MaxBatches : c # b => notices'[c] = notices[c]
    BY <1>1, <1>2
  <1> HIDE DEF all
  <1>5. /\ batches' \in [1..MaxBatches -> BatchSet]
        /\ \A c \in 1..MaxBatches : batches'[c].files = all[c].files /\ batches'[c].at = all[c].at
                                    /\ batches'[c].stage = all[c].stage
    <2>1. CASE Ends(b, new, more)
      BY <1>3, <2>1, DetachedIs DEF Ends, all
    <2>2. CASE Begins(b, new, more)
      BY <1>3, <2>2 DEF Begins, all
    <2>3. QED
      BY <1>1, <2>1, <2>2
  <1>6. \A c \in 1..MaxBatches : c # b => batches'[c].files = batches[c].files /\ batches'[c].at = batches[c].at
                                          /\ batches'[c].stage = batches[c].stage
    BY <1>3, <1>5
  <1>7. batches'[b].files = new.files /\ batches'[b].at = new.at /\ batches'[b].stage = new.stage
    BY <1>3, <1>5
  <1>8. new.stage # "none"
    BY <1>1 DEF Ends, Begins
  <1>9. BatchesFit'
    <2>1. ASSUME NEW c \in 1..MaxBatches, UnderWay(c)'
          PROVE  batches'[c].at \in 1..Len(batches'[c].files) /\ Len(notices'[c]) = batches'[c].at - 1
      <3>1. CASE c = b
        BY <1>1, <1>4, <1>7, <2>1, <3>1 DEF Ends, Begins, UnderWay
      <3>2. CASE c # b
        BY <1>4, <1>6, <2>1, <3>2 DEF FilesFit, BatchesFit, UnderWay
      <3>3. QED
        BY <3>1, <3>2
    <2>2. ASSUME NEW c \in 1..MaxBatches, batches'[c].stage = "ended"
          PROVE  Len(notices'[c]) = Len(batches'[c].files)
      <3>1. CASE c = b
        BY <1>1, <1>4, <1>7, <2>2, <3>1 DEF Ends, Begins
      <3>2. CASE c # b
        BY <1>4, <1>6, <2>2, <3>2 DEF FilesFit, BatchesFit
      <3>3. QED
        BY <3>1, <3>2
    <2>3. QED
      BY <1>4, <1>5, <2>1, <2>2 DEF BatchesFit
  <1>10. KeptFits'
    <2>1. ASSUME NEW f \in Range(kept)
          PROVE  /\ batches'[f[1]].stage # "none"
                 /\ f[2] \in 1..Len(notices'[f[1]]) /\ notices'[f[1]][f[2]] = "done"
      <3>1. f[1] \in 1..MaxBatches
        BY <2>1 DEF Range
      <3>2. CASE f[1] # b /\ f \in Range(filesKept)
        BY <1>4, <1>6, <3>1, <3>2 DEF FilesFit, KeptFits
      <3>3. CASE f[1] = b /\ f[2] \in 1..Len(before) /\ before[f[2]] = "done"
        <4>1. f[2] \in 1..Len(more) /\ more[f[2]] = "done"
          BY <1>1, <3>3
        <4>2. QED
          BY <1>4, <1>7, <1>8, <3>3, <4>1
      <3>4. QED
        BY <3>2, <3>3
    <2>2. QED
      BY <1>1, <2>1 DEF KeptFits
  <1>11. \A f \in filesPage'.spinner :
            (f = <<b, new.at>> /\ new.attached) \/ (f \in filesPage.spinner /\ f[1] # b)
    <2>1. CASE Ends(b, new, more)
      BY <2>1 DEF Ends, FilesDrawn
    <2>2. CASE Begins(b, new, more)
      <3>1. filesPage \in PageOfFiles
        BY DEF FilesFit
      <3>2. CASE batch.attached
        <4>1. filesPage' = [filesPage EXCEPT !.spinner = {<<b, new.at>>}]
          BY <1>1, <2>2, <3>2 DEF Begins
        <4>2. filesPage'.spinner = {<<b, new.at>>}
          BY <3>1, <4>1 DEF PageOfFiles
        <4>3. QED
          BY <1>1, <3>2, <4>2
      <3>3. CASE ~batch.attached
        BY <1>1, <2>2, <3>3 DEF Begins
      <3>4. QED
        BY <3>2, <3>3
    <2>3. QED
      BY <1>1, <2>1, <2>2
  <1>12. SpinnerFits'
    <2>1. CASE Ends(b, new, more)
      BY <2>1 DEF Ends, FilesDrawn, SpinnerFits
    <2>2. CASE Begins(b, new, more)
      <3>1. batches' = all /\ new.stage = "reading"
        BY <2>2 DEF Begins, all
      <3>2. ASSUME NEW f \in filesPage'.spinner
            PROVE  f[1] \in 1..MaxBatches /\ batches'[f[1]].attached /\ UnderWay(f[1])' /\ batches'[f[1]].at = f[2]
        <4>1. CASE f = <<b, new.at>> /\ new.attached
          BY <1>3, <3>1, <4>1 DEF UnderWay
        <4>2. CASE f \in filesPage.spinner /\ f[1] # b
          BY <1>3, <3>1, <4>2 DEF UnderWay, FilesFit, SpinnerFits
        <4>3. QED
          BY <1>11, <4>1, <4>2
      <3>3. QED
        BY <3>2 DEF SpinnerFits
    <2>3. QED
      BY <1>1, <2>1, <2>2
  <1>13. filesPage' \in PageOfFiles /\ RowsAreOfFiles'
    <2>1. CASE Ends(b, new, more)
      <3>1. filesPage' = [drawn |-> TRUE, rows |-> kept, spinner |-> {}]
        BY <1>1, <2>1 DEF Ends, FilesDrawn
      <3>2. filesPage' \in PageOfFiles
        BY <3>1 DEF PageOfFiles
      <3>3. Range(filesPage'.rows) \union fileDetail' \subseteq Range(filesKept')
        BY <1>1, <3>1 DEF FilesFit, RowsAreOfFiles
      <3>4. filesPage'.rows = filesKept'
        BY <1>1, <3>1
      <3>5. QED
        BY <3>2, <3>3, <3>4 DEF RowsAreOfFiles
    <2>2. CASE Begins(b, new, more)
      <3>1. filesPage \in PageOfFiles /\ new.at \in Nat
        BY DEF FilesFit, BatchSet
      <3>2. /\ filesPage'.rows = filesPage.rows
            /\ filesPage' \in PageOfFiles
        <4>1. CASE new.attached
          <5>1. filesPage' = [filesPage EXCEPT !.spinner = {<<b, new.at>>}]
            BY <2>2, <4>1 DEF Begins
          <5>2. {<<b, new.at>>} \in SUBSET (Nat \X Nat)
            BY <3>1
          <5>3. QED
            BY <3>1, <5>1, <5>2 DEF PageOfFiles
        <4>2. CASE ~new.attached
          BY <2>2, <3>1, <4>2 DEF Begins
        <4>3. QED
          BY <4>1, <4>2
      <3>3. Range(filesPage'.rows) \union fileDetail' \subseteq Range(filesKept')
        BY <1>1, <3>2 DEF FilesFit, RowsAreOfFiles
      <3>4. UnderWay(b)'
        BY <1>7, <2>2 DEF Begins, UnderWay
      <3>5. QED
        BY <3>2, <3>3, <3>4 DEF RowsAreOfFiles
    <2>3. QED
      BY <1>1, <2>1, <2>2
  <1>14. fileDetail' \in SUBSET ((1..MaxBatches) \X Nat)
    BY DEF FilesFit
  <1>15. QED
    BY <1>9, <1>10, <1>12, <1>13, <1>14 DEF FilesFit

(* A batch passes a file.                                                    *)
LEMMA PassedStep ==
  ASSUME FilesFit, NEW b \in 1..MaxBatches, UnderWay(b), NEW ending \in {"done", "error"},
         Passed(b, ending), fileDetail' = fileDetail
  PROVE  FilesFit'
  <1> DEFINE batch == batches[b]
             before == Append(notices[b], ending)
             kept == IF ending = "done" THEN Append(filesKept, <<b, batch.at>>) ELSE filesKept
  <1>1. batch \in BatchSet /\ notices[b] \in Seq(Tellings) /\ filesKept \in Seq((1..MaxBatches) \X Nat)
    BY DEF FilesFit, BatchesFit, KeptFits
  <1>2. batch.at \in 1..Len(batch.files) /\ Len(notices[b]) = batch.at - 1 /\ Len(batch.files) \in Nat
    BY <1>1 DEF FilesFit, BatchesFit, BatchSet
  <1>3. BatchGoes(b, batch, batch.at + 1, before, kept)
    BY DEF Passed
  <1>4. batch.at + 1 \in 1..(Len(batch.files) + 1)
    BY <1>2
  <1>5. /\ before \in Seq(Tellings) /\ Len(before) = (batch.at + 1) - 1 /\ before[batch.at] = ending
        /\ \A i \in 1..Len(notices[b]) : before[i] = notices[b][i]
    <2>1. ending \in Tellings /\ batch.at = Len(notices[b]) + 1
      BY <1>2 DEF Tellings
    <2> HIDE DEF batch
    <2>2. QED
      BY <1>1, <2>1
  <1>6. <<b, batch.at>> \in (1..MaxBatches) \X Nat
    BY <1>2
  <1>7. kept \in Seq((1..MaxBatches) \X Nat)
    BY <1>1, <1>6
  <1>8. Range(filesKept) \subseteq Range(kept)
        /\ \A f \in Range(kept) : f \in Range(filesKept) \/ (f = <<b, batch.at>> /\ ending = "done")
    <2>1. CASE ending = "done"
      <3> DEFINE pair == <<b, batch.at>>
      <3>1. kept = Append(filesKept, pair)
        BY <2>1
      <3> HIDE DEF kept, pair
      <3>2. /\ Len(kept) = Len(filesKept) + 1 /\ kept[Len(filesKept) + 1] = pair /\ Len(filesKept) \in Nat
            /\ \A i \in 1..Len(filesKept) : kept[i] = filesKept[i]
        BY <1>1, <1>6, <3>1
      <3>3. DOMAIN kept = 1..(Len(filesKept) + 1) /\ DOMAIN filesKept = 1..Len(filesKept)
        BY <1>1, <1>7, <3>2
      <3>4. Range(filesKept) \subseteq Range(kept)
        BY <3>2, <3>3 DEF Range
      <3>5. \A f \in Range(kept) : f \in Range(filesKept) \/ f = pair
        BY <3>2, <3>3 DEF Range
      <3>6. QED
        BY <2>1, <3>4, <3>5 DEF pair
    <2>2. CASE ending # "done"
      BY <2>2
    <2>3. QED
      BY <2>1, <2>2
  <1>9. ASSUME NEW f \in Range(kept)
        PROVE  \/ f[1] # b /\ f \in Range(filesKept)
               \/ f[1] = b /\ f[2] \in 1..Len(before) /\ before[f[2]] = "done"
    <2>1. CASE f \in Range(filesKept) /\ f[1] = b
      <3>1. f[2] \in 1..Len(notices[b]) /\ notices[b][f[2]] = "done"
        BY <2>1 DEF FilesFit, KeptFits
      <3>2. QED
        BY <1>2, <1>5, <2>1, <3>1
    <2>2. CASE f = <<b, batch.at>> /\ ending = "done"
      BY <1>2, <1>5, <2>2
    <2>3. QED
      BY <1>8, <1>9, <2>1, <2>2
  <1>10. batch.attached \/ \A f \in filesPage.spinner : f[1] # b
    BY DEF FilesFit, SpinnerFits
  <1> HIDE DEF batch, before, kept
  <1>11. QED
    BY <1>1, <1>3, <1>4, <1>5, <1>7, <1>8, <1>9, <1>10, BatchStep

LEMMA NewBatchIs ==
  ASSUME NEW files \in Seq(FileKinds)
  PROVE  /\ [NoBatch EXCEPT !.files = files, !.attached = TRUE] \in BatchSet
         /\ [NoBatch EXCEPT !.files = files, !.attached = TRUE].attached
         /\ [NoBatch EXCEPT !.files = files, !.attached = TRUE].files = files
         /\ [NoBatch EXCEPT !.files = files, !.stage = "broken"] \in BatchSet
         /\ [NoBatch EXCEPT !.files = files, !.stage = "broken"].stage = "broken"
  <1>1. NoBatch \in BatchSet
    BY DEF NoBatch, BatchSet
  <1>2. QED
    BY <1>1 DEF BatchSet

(* A batch begins, on the page of files or on another.                        *)
LEMMA HandleFilesStep ==
  ASSUME FilesFit, NEW files \in Seq(FileKinds), handleFiles(files), fileDetail' = fileDetail
  PROVE  FilesFit'
  <1>1. PICK b \in 1..MaxBatches :
            /\ batches[b].stage = "none"
            /\ IF filesPage.drawn
               THEN BatchGoes(b, [NoBatch EXCEPT !.files = files, !.attached = TRUE], 1, <<>>, filesKept)
               ELSE Breaks(b, files)
    BY DEF handleFiles
  <1>2. \A f \in Range(filesKept) : f[1] # b
    BY <1>1 DEF FilesFit, KeptFits
  <1>3. CASE filesPage.drawn
    <2> DEFINE batch == [NoBatch EXCEPT !.files = files, !.attached = TRUE]
    <2>1. batch \in BatchSet /\ batch.attached /\ batch.files = files
      BY NewBatchIs
    <2>2. BatchGoes(b, batch, 1, <<>>, filesKept)
      BY <1>1, <1>3
    <2> HIDE DEF batch
    <2>3. 1 \in 1..(Len(batch.files) + 1) /\ <<>> \in Seq(Tellings) /\ Len(<<>>) = 1 - 1
      BY <2>1
    <2>4. filesKept \in Seq((1..MaxBatches) \X Nat)
      BY DEF FilesFit, KeptFits
    <2>5. QED
      BY <1>2, <2>1, <2>2, <2>3, <2>4, BatchStep
  <1>4. CASE ~filesPage.drawn
    <2> DEFINE new == [NoBatch EXCEPT !.files = files, !.stage = "broken"]
    <2>1. new \in BatchSet /\ new.stage = "broken"
      BY NewBatchIs
    <2>2. PICK n \in Nat : notices' = [notices EXCEPT ![b] = [i \in 1..n |-> "large"]]
      <3> DEFINE small == {i \in DOMAIN files : files[i] # "large"}
                 first == CHOOSE i \in small : \A j \in small : i <= j
                 refused == IF small = {} THEN Len(files) ELSE first - 1
      <3>1. notices' = [notices EXCEPT ![b] = [i \in 1..refused |-> "large"]]
        BY <1>1, <1>4 DEF Breaks
      <3>2. small # {} => first \in small
        <4>1. small \in SUBSET Nat
          OBVIOUS
        <4>2. small # {} => \E i \in small : \A j \in small : i <= j
          BY <4>1, LeastNumber
        <4>3. QED
          BY <4>2
      <3>3. refused \in Nat
        BY <3>2
      <3>4. QED
        BY <3>1, <3>3
    <2>3. [i \in 1..n |-> "large"] \in Seq(Tellings)
      BY DEF Tellings
    <2>4. batches' = [batches EXCEPT ![b] = new] /\ UNCHANGED <<filesKept, filesPage>>
      BY <1>1, <1>4 DEF Breaks
    <2> HIDE DEF new
    <2>5. /\ batches \in [1..MaxBatches -> BatchSet] /\ notices \in [1..MaxBatches -> Seq(Tellings)]
      BY DEF FilesFit, BatchesFit
    <2>6. /\ batches' \in [1..MaxBatches -> BatchSet] /\ batches'[b] = new
          /\ \A c \in 1..MaxBatches : c # b => batches'[c] = batches[c]
      BY <2>1, <2>4, <2>5
    <2>7. /\ notices' \in [1..MaxBatches -> Seq(Tellings)]
          /\ \A c \in 1..MaxBatches : c # b => notices'[c] = notices[c]
      BY <2>2, <2>3, <2>5
    <2>8. \A c \in 1..MaxBatches : UnderWay(c)' <=> UnderWay(c)
      BY <1>1, <2>1, <2>6 DEF UnderWay
    <2>9. BatchesFit'
      BY <1>1, <2>1, <2>6, <2>7, <2>8 DEF FilesFit, BatchesFit, UnderWay
    <2>10. KeptFits'
      <3>1. \A f \in Range(filesKept) : f[1] \in 1..MaxBatches
        BY DEF FilesFit, KeptFits, Range
      <3>2. \A f \in Range(filesKept) : batches'[f[1]] = batches[f[1]] /\ notices'[f[1]] = notices[f[1]]
        BY <1>2, <2>6, <2>7, <3>1
      <3>3. QED
        BY <2>4, <3>2 DEF FilesFit, KeptFits
    <2>11. SpinnerFits'
      BY <1>1, <2>4, <2>6, <2>8 DEF FilesFit, SpinnerFits, UnderWay
    <2>12. RowsAreOfFiles'
      BY <1>4, <2>4 DEF FilesFit, RowsAreOfFiles
    <2>13. QED
      BY <2>4, <2>9, <2>10, <2>11, <2>12 DEF FilesFit
  <1>5. QED
    BY <1>3, <1>4

(* The page is drawn or left: no progress is shown.                           *)
LEMMA PageStep ==
  ASSUME FilesFit, batches' = Detached(batches), UNCHANGED notices, NEW onPage \in BOOLEAN,
         filesKept' \in Seq((1..MaxBatches) \X Nat), Range(filesKept') \subseteq Range(filesKept),
         filesPage' = (IF onPage THEN FilesDrawn(filesKept') ELSE FilesElsewhere),
         fileDetail' = {} \/ UNCHANGED <<fileDetail, filesKept>>
  PROVE  FilesFit'
  <1>1. /\ batches \in [1..MaxBatches -> BatchSet] /\ batches' \in [1..MaxBatches -> BatchSet]
        /\ \A b \in 1..MaxBatches : /\ batches'[b].files = batches[b].files /\ batches'[b].at = batches[b].at
                                    /\ batches'[b].stage = batches[b].stage
    BY DetachedIs DEF FilesFit, BatchesFit
  <1>2. BatchesFit'
    BY <1>1 DEF FilesFit, BatchesFit, UnderWay
  <1>3. KeptFits'
    <2>1. \A f \in Range(filesKept) : f[1] \in 1..MaxBatches
      BY DEF FilesFit, KeptFits, Range
    <2>2. QED
      BY <1>1, <2>1 DEF FilesFit, KeptFits
  <1>4. filesPage'.spinner = {} /\ filesPage' \in PageOfFiles
    BY DEF FilesDrawn, FilesElsewhere, PageOfFiles
  <1>5. Range(filesPage'.rows) \subseteq Range(filesKept') /\ (filesPage'.drawn => filesPage'.rows = filesKept')
    BY DEF FilesDrawn, FilesElsewhere, Range
  <1>6. fileDetail' \subseteq Range(filesKept')
    BY DEF FilesFit, RowsAreOfFiles
  <1>7. QED
    BY <1>2, <1>3, <1>4, <1>5, <1>6 DEF FilesFit, SpinnerFits, RowsAreOfFiles

LEMMA FilesNextInv ==
  ASSUME FilesFit, [FilesNext]_fileVars
  PROVE  FilesFit'
  <1> USE DEF FilesFit
  <1>0. filesKept \in Seq((1..MaxBatches) \X Nat)
    BY DEF KeptFits
  <1>1. ASSUME UNCHANGED <<batches, filesKept, filesPage, notices>>,
               fileDetail' \subseteq Range(filesKept), fileDetail' \in SUBSET ((1..MaxBatches) \X Nat)
        PROVE  FilesFit'
    <2>1. BatchesFit' /\ KeptFits' /\ SpinnerFits'
      BY <1>1 DEF BatchesFit, KeptFits, SpinnerFits, UnderWay
    <2>2. RowsAreOfFiles'
      BY <1>1 DEF RowsAreOfFiles, UnderWay
    <2>3. QED
      BY <1>1, <2>1, <2>2
  <1>2. fileDetail \subseteq Range(filesKept) /\ Range(filesPage.rows) \subseteq Range(filesKept)
        /\ Range(filesKept) \subseteq (1..MaxBatches) \X Nat
    BY <1>0 DEF RowsAreOfFiles, Range
  <1>3. CASE OpenPicker \/ CloseFileDetail \/ UNCHANGED fileVars
    BY <1>1, <1>2, <1>3 DEF OpenPicker, CloseFileDetail, fileVars
  <1>4. CASE OpenFilesPage \/ LeaveFilesPage
    <2>1. PICK onPage \in BOOLEAN : filesPage' = (IF onPage THEN FilesDrawn(filesKept') ELSE FilesElsewhere)
      BY <1>4 DEF OpenFilesPage, LeaveFilesPage
    <2>2. batches' = Detached(batches) /\ UNCHANGED <<filesKept, notices, fileDetail>>
      BY <1>4 DEF OpenFilesPage, LeaveFilesPage
    <2>3. QED
      BY <1>0, <2>1, <2>2, PageStep
  <1>5. ASSUME NEW n \in 1..MaxBatchSize, NEW files \in [1..n -> FileKinds], PickFiles(files) \/ DropFiles(files)
        PROVE  FilesFit'
    <2>1. files \in Seq(FileKinds)
      OBVIOUS
    <2>2. handleFiles(files) /\ fileDetail' = fileDetail
      BY <1>5 DEF PickFiles, DropFiles
    <2>3. QED
      BY <2>1, <2>2, HandleFilesStep
  <1>6. ASSUME NEW i, RemoveFile(i) PROVE FilesFit'
    <2>1. /\ fileDetail' = {} /\ batches' = Detached(batches) /\ UNCHANGED notices
          /\ filesKept' = Without(filesKept, filesPage.rows[i]) /\ filesPage' = FilesDrawn(filesKept')
      BY <1>6 DEF RemoveFile, OnFilesPage
    <2>2. filesKept' \in Seq((1..MaxBatches) \X Nat) /\ Range(filesKept') \subseteq Range(filesKept)
      BY <1>0, <2>1, WithoutFile
    <2>3. filesPage' = (IF TRUE THEN FilesDrawn(filesKept') ELSE FilesElsewhere)
      BY <2>1
    <2>4. QED
      BY <2>1, <2>2, <2>3, PageStep
  <1>7. ASSUME NEW i, showFileDetail(i) PROVE FilesFit'
    <2>1. filesPage.rows[i] \in Range(filesPage.rows)
      BY <1>7 DEF showFileDetail, Range
    <2>2. QED
      BY <1>1, <1>2, <1>7, <2>1 DEF showFileDetail
  <1>8. ASSUME NEW b \in 1..MaxBatches, FileIsRead(b) PROVE FilesFit'
    <2>1. batches[b].stage = "reading" /\ UnderWay(b) /\ UNCHANGED fileDetail
      BY <1>8 DEF FileIsRead, UnderWay
    <2>2. CASE batches[b].files[batches[b].at] = "image"
      <3> DEFINE new == [batches[b] EXCEPT !.stage = "measuring"]
      <3>1. batches \in [1..MaxBatches -> BatchSet]
        BY DEF BatchesFit
      <3>2. /\ new \in BatchSet /\ new.stage = "measuring" /\ new.files = batches[b].files /\ new.at = batches[b].at
            /\ new.attached = batches[b].attached
        BY <3>1 DEF BatchSet
      <3>3. batches' = [batches EXCEPT ![b] = new] /\ UNCHANGED <<filesKept, filesPage, notices>>
        BY <1>8, <2>2 DEF FileIsRead
      <3> HIDE DEF new
      <3>4. /\ batches' \in [1..MaxBatches -> BatchSet] /\ batches'[b] = new
            /\ \A c \in 1..MaxBatches : c # b => batches'[c] = batches[c]
        BY <3>1, <3>2, <3>3
      <3>5. \A c \in 1..MaxBatches :
               /\ batches'[c].files = batches[c].files /\ batches'[c].at = batches[c].at
               /\ batches'[c].attached = batches[c].attached
               /\ UnderWay(c)' <=> UnderWay(c)
               /\ batches'[c].stage = "ended" <=> batches[c].stage = "ended"
               /\ batches'[c].stage = "none" <=> batches[c].stage = "none"
        BY <2>1, <3>2, <3>4 DEF UnderWay
      <3>6. BatchesFit'
        BY <3>3, <3>4, <3>5 DEF BatchesFit
      <3>7. KeptFits'
        BY <1>2, <3>3, <3>5 DEF KeptFits
      <3>8. SpinnerFits'
        BY <3>3, <3>5 DEF SpinnerFits
      <3>9. RowsAreOfFiles'
        BY <2>1, <3>3, <3>5 DEF RowsAreOfFiles
      <3>10. QED
        BY <2>1, <3>3, <3>6, <3>7, <3>8, <3>9
    <2>3. CASE batches[b].files[batches[b].at] # "image"
      BY <1>8, <2>1, <2>3, PassedStep DEF FileIsRead
    <2>4. QED
      BY <2>2, <2>3
  <1>9. ASSUME NEW b \in 1..MaxBatches, FileIsUnreadable(b) \/ ImageIsMeasured(b) \/ ImageFails(b) PROVE FilesFit'
    BY <1>9, PassedStep DEF FileIsUnreadable, ImageIsMeasured, ImageFails, UnderWay
  <1>10. QED
    BY <1>3, <1>4, <1>5, <1>6, <1>7, <1>8, <1>9 DEF FilesNext

LEMMA FilesInitInv ==
  ASSUME FilesInit
  PROVE  FilesFit
  <1>1. NoBatch \in BatchSet /\ NoBatch.stage = "none"
    BY DEF NoBatch, BatchSet
  <1>2. batches = [b \in 1..MaxBatches |-> NoBatch] /\ notices = [b \in 1..MaxBatches |-> <<>>]
        /\ filesKept = <<>> /\ fileDetail = {} /\ filesPage = FilesElsewhere
    BY DEF FilesInit
  <1>3. BatchesFit
    BY <1>1, <1>2 DEF BatchesFit, UnderWay
  <1>4. Range(filesKept) = {} /\ filesKept \in Seq((1..MaxBatches) \X Nat)
    BY <1>2 DEF Range
  <1>5. filesPage.spinner = {} /\ filesPage.rows = <<>> /\ filesPage \in PageOfFiles
    BY <1>2 DEF FilesElsewhere, PageOfFiles
  <1>6. KeptFits /\ SpinnerFits /\ RowsAreOfFiles
    BY <1>2, <1>4, <1>5 DEF KeptFits, SpinnerFits, RowsAreOfFiles
  <1>7. QED
    BY <1>2, <1>3, <1>5, <1>6 DEF FilesFit

LEMMA FilesAreSafe ==
  ASSUME FilesFit
  PROVE  FilesSafety
  <1>1. SpinnerMeansWork
    BY DEF FilesFit, SpinnerFits, SpinnerMeansWork
  <1>2. EveryFileIsTold
    BY DEF FilesFit, BatchesFit, KeptFits, EveryFileIsTold
  <1>3. QED
    BY <1>1, <1>2 DEF FilesFit, FilesSafety

(***************************************************************************)
(* What the pages show of the records: the invariant, what it makes of the *)
(* bell, the calendars, the inbox, the money and the board, and its steps. *)
(***************************************************************************)
HeldValues(kind) == ValuesOf[kind] \union {NoRecord(kind)}

RecordsTyped ==
    /\ recordsHeld = [kind \in RecordKinds |-> recordsHeld[kind]]
    /\ \A kind \in RecordKinds : recordsHeld[kind] \in [IdsOf[kind] -> HeldValues(kind)]

DaysTyped ==
    /\ viewDay \in Nat
    /\ monthDay.month \in Nat /\ monthDay.month > MonthsShown /\ monthDay.month <= MonthsShown + 2
    /\ monthDay.day \in Nat /\ monthDay.day <= MonthDays[monthDay.month]

ViewsInv == RecordsTyped /\ DaysTyped /\ listFilter.shown = "todos" /\ BellMissesNothing

LEMMA KindsAre ==
  RecordKinds = {"investigations", "evidence", "deadlines", "appointments", "intimations", "entries", "cases"}
  BY DEF RecordKinds, IdsOf

LEMMA GoneIs ==
  ASSUME NEW kind \in RecordKinds
  PROVE  NoRecord(kind).status = Gone
  <1>1. /\ ValuesOf["investigations"] = InvestigationValues /\ ValuesOf["evidence"] = EvidenceValues
        /\ ValuesOf["deadlines"] = DeadlineValues /\ ValuesOf["appointments"] = AppointmentValues
        /\ ValuesOf["intimations"] = IntimationValues /\ ValuesOf["entries"] = EntryValues
        /\ ValuesOf["cases"] = CaseValues
    BY DEF ValuesOf
  <1>2. DueDates # {} /\ EntryMonths # {} /\ Owners # {} /\ InvestigationIds # {}
    BY ViewsAssumption
  <1>3. PICK d \in DueDates, m \in EntryMonths, o \in Owners, i \in InvestigationIds : TRUE
    BY <1>2
  <1>4. /\ [status |-> "em_coleta"] \in InvestigationValues /\ [status |-> "pendente", of |-> i] \in EvidenceValues
        /\ [date |-> d, status |-> "pendente"] \in DeadlineValues
        /\ [date |-> d, status |-> "agendado"] \in AppointmentValues
        /\ [status |-> "recebida", of |-> NoCase] \in IntimationValues
        /\ [kind |-> "receita", status |-> "pago", month |-> m, client |-> o] \in EntryValues
        /\ [status |-> "ativo", client |-> o] \in CaseValues
    BY DEF InvestigationValues, EvidenceValues, DeadlineValues, AppointmentValues, IntimationValues, EntryValues, CaseValues
  <1>5. ValuesOf[kind] # {}
    BY <1>1, <1>4, KindsAre
  <1>6. ASSUME NEW v \in ValuesOf[kind] PROVE [v EXCEPT !.status = Gone].status = Gone
    BY <1>1, <1>6, KindsAre DEF InvestigationValues, EvidenceValues, DeadlineValues, AppointmentValues,
       IntimationValues, EntryValues, CaseValues
  <1> QED
    BY <1>5, <1>6 DEF NoRecord

LEMMA KeptAre ==
  ASSUME RecordsTyped, NEW kind \in RecordKinds
  PROVE  /\ KeptIn(kind) \subseteq IdsOf[kind]
         /\ \A r \in KeptIn(kind) : recordsHeld[kind][r] \in ValuesOf[kind]
         /\ \A set : StatusIn(kind, set) \subseteq KeptIn(kind)
  BY GoneIs DEF RecordsTyped, HeldValues, KeptIn, StatusIn

LEMMA HeldAre ==
  ASSUME RecordsTyped
  PROVE  /\ Deadlines \subseteq DeadlineIds /\ IsFiniteSet(Deadlines)
         /\ \A d \in Deadlines : /\ DateOf("deadlines", d) \in DueDates /\ DateOf("deadlines", d) \in Nat
                                 /\ recordsHeld["deadlines"][d].status \in {"pendente", "concluido"}
         /\ \A a \in Appointments : DateOf("appointments", a) \in DueDates
         /\ Intimated \subseteq IntimationIds /\ IsFiniteSet(Intimated) /\ Intimated \subseteq Nat
         /\ \A i \in Intimated : /\ ProcessOf(i) \in CaseIds \union {NoCase}
                                 /\ recordsHeld["intimations"][i].status
                                     \in {"recebida", "triagem", "associada", "erro", "concluida"}
         /\ Entries \subseteq EntryIds /\ IsFiniteSet(Entries)
         /\ \A e \in Entries : /\ EntryOf(e).client \in Owners \union {NoOwner}
                               /\ EntryOf(e).kind \in {"receita", "despesa"}
         /\ CasesHeld \subseteq CaseIds /\ IsFiniteSet(CasesHeld) /\ \A c \in CasesHeld : CaseOf(c).client \in Owners
         /\ KeptIn("evidence") \subseteq Nat /\ IsFiniteSet(KeptIn("evidence"))
         /\ IsFiniteSet(KeptIn("investigations"))
         /\ \A i \in KeptIn("investigations") : recordsHeld["investigations"][i].status
                                                  \in {"em_coleta", "pendente_revisao", "bloqueada", "concluida"}
  <1>1. /\ {"investigations", "evidence", "deadlines", "appointments", "intimations", "entries", "cases"} \subseteq RecordKinds
    BY KindsAre
  <1>2. /\ IdsOf["investigations"] = InvestigationIds /\ IdsOf["evidence"] = EvidenceIds
        /\ IdsOf["deadlines"] = DeadlineIds /\ IdsOf["intimations"] = IntimationIds /\ IdsOf["entries"] = EntryIds
        /\ IdsOf["cases"] = CaseIds
    BY DEF IdsOf
  <1>3. /\ IsFiniteSet(InvestigationIds) /\ IsFiniteSet(EvidenceIds) /\ IsFiniteSet(DeadlineIds)
        /\ IsFiniteSet(IntimationIds) /\ IsFiniteSet(EntryIds) /\ IsFiniteSet(CaseIds)
        /\ IntimationIds \subseteq Nat /\ EvidenceIds \subseteq Nat /\ DueDates \subseteq Nat
    BY ViewsAssumption
  <1>4. Deadlines \subseteq DeadlineIds /\ \A d \in Deadlines : recordsHeld["deadlines"][d] \in DeadlineValues
    BY <1>1, <1>2, KeptAre DEF Deadlines, ValuesOf
  <1>5. \A a \in Appointments : recordsHeld["appointments"][a] \in AppointmentValues
    BY <1>1, KeptAre DEF Appointments, ValuesOf
  <1>6. Intimated \subseteq IntimationIds /\ \A i \in Intimated : recordsHeld["intimations"][i] \in IntimationValues
    BY <1>1, <1>2, KeptAre DEF Intimated, ValuesOf
  <1>7. Entries \subseteq EntryIds /\ \A e \in Entries : recordsHeld["entries"][e] \in EntryValues
    BY <1>1, <1>2, KeptAre DEF Entries, ValuesOf
  <1>8. CasesHeld \subseteq CaseIds /\ \A c \in CasesHeld : recordsHeld["cases"][c] \in CaseValues
    BY <1>1, <1>2, KeptAre DEF CasesHeld, ValuesOf
  <1>9. KeptIn("evidence") \subseteq EvidenceIds
    BY <1>1, <1>2, KeptAre
  <1>10. /\ KeptIn("investigations") \subseteq InvestigationIds
         /\ \A i \in KeptIn("investigations") : recordsHeld["investigations"][i] \in InvestigationValues
    BY <1>1, <1>2, KeptAre DEF ValuesOf
  <1>11. /\ IsFiniteSet(Deadlines) /\ IsFiniteSet(Intimated) /\ IsFiniteSet(Entries) /\ IsFiniteSet(CasesHeld)
         /\ IsFiniteSet(KeptIn("evidence")) /\ IsFiniteSet(KeptIn("investigations"))
    BY <1>3, <1>4, <1>6, <1>7, <1>8, <1>9, <1>10, FS_Subset
  <1>12. \A d \in Deadlines : /\ DateOf("deadlines", d) \in DueDates /\ DateOf("deadlines", d) \in Nat
                              /\ recordsHeld["deadlines"][d].status \in {"pendente", "concluido"}
    BY <1>3, <1>4 DEF DeadlineValues, DateOf
  <1>13. \A a \in Appointments : DateOf("appointments", a) \in DueDates
    BY <1>5 DEF AppointmentValues, DateOf
  <1>14. \A i \in Intimated : /\ ProcessOf(i) \in CaseIds \union {NoCase}
                              /\ recordsHeld["intimations"][i].status
                                  \in {"recebida", "triagem", "associada", "erro", "concluida"}
    BY <1>6 DEF IntimationValues, ProcessOf
  <1>15. \A e \in Entries : /\ EntryOf(e).client \in Owners \union {NoOwner}
                            /\ EntryOf(e).kind \in {"receita", "despesa"}
    BY <1>7 DEF EntryValues, EntryOf
  <1>16. \A c \in CasesHeld : CaseOf(c).client \in Owners
    BY <1>8 DEF CaseValues, CaseOf
  <1>17. \A i \in KeptIn("investigations") : recordsHeld["investigations"][i].status
                                              \in {"em_coleta", "pendente_revisao", "bloqueada", "concluida"}
    BY <1>10 DEF InvestigationValues
  <1> QED
    BY <1>3, <1>4, <1>6, <1>7, <1>8, <1>9, <1>11, <1>12, <1>13, <1>14, <1>15, <1>16, <1>17

(* The deadlines.                                                              *)
LEMMA ListsOfDeadlines ==
  ASSUME RecordsTyped, DaysTyped
  PROVE  /\ PendingDeadlines \subseteq Deadlines /\ \A d \in Deadlines : DaysTo(d) \in Int
         /\ \A d \in Deadlines : d \in PendingDeadlines \/ d \in StatusIn("deadlines", {"concluido"})
         /\ \A d \in PendingDeadlines : d \notin StatusIn("deadlines", {"concluido"})
         /\ IsFiniteSet(PendingDeadlines)
  <1>1. PendingDeadlines \subseteq Deadlines
    BY DEF PendingDeadlines, StatusIn, Deadlines
  <1>2. \A d \in Deadlines : DaysTo(d) \in Int
    BY HeldAre DEF DaysTo, DaysTyped
  <1>3. \A d \in Deadlines : d \in PendingDeadlines \/ d \in StatusIn("deadlines", {"concluido"})
    BY HeldAre DEF PendingDeadlines, StatusIn, Deadlines
  <1>4. \A d \in PendingDeadlines : d \notin StatusIn("deadlines", {"concluido"})
    BY DEF PendingDeadlines, StatusIn
  <1>5. IsFiniteSet(PendingDeadlines)
    BY <1>1, HeldAre, FS_Subset
  <1> QED
    BY <1>1, <1>2, <1>3, <1>4, <1>5

LEMMA CountOfBoth ==
  ASSUME NEW S, IsFiniteSet(S), NEW T, IsFiniteSet(T), S \intersect T = {}
  PROVE  Cardinality(S \union T) = Cardinality(S) + Cardinality(T)
  <1>1. Cardinality(S \union T) = Cardinality(S) + Cardinality(T) - Cardinality(S \intersect T)
    BY FS_Union
  <1>2. Cardinality(S \intersect T) = 0
    BY FS_EmptySet
  <1> QED
    BY <1>1, <1>2, FS_CardinalityType

LEMMA FirstOfSome ==
  ASSUME NEW S \in SUBSET Nat, S # {}, NEW n \in Nat \ {0}
  PROVE  FirstOf(S, n) # {}
  <1>1. PICK t \in S : \A u \in S : t <= u
    BY LeastNumber
  <1>2. {j \in S : j < t} = {}
    <2>1. ASSUME NEW j \in S PROVE ~(j < t)
      <3>1. j \in Nat /\ t \in Nat /\ t <= j
        BY <1>1
      <3> QED
        BY <3>1
    <2> QED
      BY <2>1
  <1>3. Cardinality({j \in S : j < t}) = 0
    BY <1>2, FS_EmptySet
  <1> QED
    BY <1>3 DEF FirstOf

LEMMA FirstOfNone ==
  ASSUME NEW S, NEW n
  PROVE  FirstOf(S, n) \subseteq S /\ FirstOf({}, n) = {}
  BY DEF FirstOf

LEMMA FirstOfZero ==
  ASSUME NEW S \in SUBSET Nat, IsFiniteSet(S)
  PROVE  FirstOf(S, 0) = {}
  <1>1. ASSUME NEW i \in S PROVE ~(Cardinality({j \in S : j < i}) < 0)
    <2>1. {j \in S : j < i} \subseteq S
      OBVIOUS
    <2>2. Cardinality({j \in S : j < i}) \in Nat
      BY <2>1, FS_Subset, FS_CardinalityType
    <2> QED
      BY <2>2
  <1> QED
    BY <1>1 DEF FirstOf

(* A list is cut short only when as many are shown as there is room for.        *)
LEMMA FirstOfFull ==
  ASSUME NEW S \in SUBSET Nat, IsFiniteSet(S), NEW m \in Nat, FirstOf(S, m) # S
  PROVE  Cardinality(FirstOf(S, m)) = m
  <1> DEFINE Below(i) == {j \in S : j < i}
             F(n) == FirstOf(S, n)
             Full == {n \in Nat : F(n) # S => Cardinality(F(n)) = n}
  <1>0. \A i \in S : i \in Nat
    OBVIOUS
  <1>1. \A i \in S : i \in Nat /\ IsFiniteSet(Below(i)) /\ Cardinality(Below(i)) \in Nat
    <2>1. ASSUME NEW i \in S PROVE IsFiniteSet(Below(i)) /\ Cardinality(Below(i)) \in Nat
      <3>1. Below(i) \subseteq S
        OBVIOUS
      <3> HIDE DEF Below
      <3> QED
        BY <3>1, FS_Subset, FS_CardinalityType
    <2> QED
      BY <2>1
  <1>2. \A n : F(n) = {i \in S : Cardinality(Below(i)) < n}
    BY DEF FirstOf
  <1>3. \A i, j \in S : i <= j => Cardinality(Below(i)) <= Cardinality(Below(j))
    <2>1. ASSUME NEW i \in S, NEW j \in S, i <= j PROVE Cardinality(Below(i)) <= Cardinality(Below(j))
      <3>1. Below(i) \subseteq Below(j)
        <4> SUFFICES ASSUME NEW x \in S, x < i PROVE x < j
          OBVIOUS
        <4>1. x \in Nat /\ i \in Nat /\ j \in Nat
          BY <1>0
        <4> QED
          BY <2>1, <4>1
      <3> HIDE DEF Below
      <3> QED
        BY <1>1, <3>1, FS_Subset
    <2> QED
      BY <2>1
  <1>4. ASSUME NEW n \in Nat, F(n) # S => Cardinality(F(n)) = n, F(n + 1) # S
        PROVE  Cardinality(F(n + 1)) = n + 1
    <2>1. \A i \in S : Cardinality(Below(i)) < n => Cardinality(Below(i)) < n + 1
      BY <1>1
    <2>2. F(n) \subseteq S /\ F(n) \subseteq F(n + 1) /\ F(n + 1) \subseteq S
      <3> HIDE DEF F, Below
      <3> QED
        BY <1>2, <2>1
    <2>3. F(n) # S /\ Cardinality(F(n)) = n
      <3> HIDE DEF F, Below
      <3> QED
        BY <1>4, <2>2
    <2> HIDE DEF F
    <2>4. PICK t \in S \ F(n) : \A u \in S \ F(n) : t <= u
      <3>1. S \ F(n) \in SUBSET Nat /\ S \ F(n) # {}
        BY <2>2, <2>3
      <3> QED
        BY <3>1, LeastNumber
    <2>5. \A i \in S : i < t => i \in F(n)
      BY <1>1, <2>4
    <2>6. ~(Cardinality(Below(t)) < n)
      BY <1>2, <2>4
    <2>7. ASSUME NEW i \in F(n) PROVE i < t
      <3>1. i \in S /\ t \in S
        BY <2>2, <2>4
      <3>2. i \in Nat /\ t \in Nat
        BY <1>0, <3>1
      <3>3. ASSUME t <= i PROVE FALSE
        <4>1. Cardinality(Below(i)) < n /\ Cardinality(Below(t)) <= Cardinality(Below(i))
          BY <1>2, <1>3, <3>1, <3>3
        <4>2. Cardinality(Below(i)) \in Nat /\ Cardinality(Below(t)) \in Nat
          BY <1>1, <3>1
        <4> HIDE DEF Below
        <4> QED
          BY <2>6, <4>1, <4>2
      <3> QED
        BY <3>2, <3>3
    <2>8. Below(t) = F(n)
      BY <2>2, <2>5, <2>7
    <2>9. t \in F(n + 1)
      <3>1. Cardinality(Below(t)) < n + 1
        BY <2>3, <2>8
      <3> HIDE DEF Below
      <3> QED
        BY <1>2, <2>4, <3>1
    <2>10. ASSUME NEW u \in F(n + 1), u \notin F(n), u # t PROVE FALSE
      <3>1. u \in S /\ t <= u /\ u \in Nat /\ t \in Nat
        BY <1>0, <2>2, <2>4, <2>10
      <3>2. t < u
        BY <2>10, <3>1
      <3>3. F(n) \union {t} \subseteq Below(u)
        <4>1. ASSUME NEW x \in F(n) PROVE x \in S /\ x < u
          <5>1. x \in S /\ x < t /\ x \in Nat
            BY <1>0, <2>2, <2>7
          <5> QED
            BY <3>1, <3>2, <5>1
        <4> QED
          BY <2>4, <3>2, <4>1
      <3>4. Cardinality(F(n) \union {t}) = n + 1
        <4>1. IsFiniteSet(F(n)) /\ t \notin F(n)
          BY <2>2, <2>4, FS_Subset
        <4>2. Cardinality(F(n) \union {t}) = Cardinality(F(n)) + 1
          BY <4>1, FS_AddElement
        <4> QED
          BY <2>3, <4>2
      <3>5. IsFiniteSet(Below(u)) /\ Cardinality(Below(u)) < n + 1 /\ Cardinality(Below(u)) \in Nat
        BY <1>1, <1>2, <2>10, <3>1
      <3> HIDE DEF Below
      <3>6. Cardinality(F(n) \union {t}) <= Cardinality(Below(u))
        BY <3>3, <3>5, FS_Subset
      <3> QED
        BY <3>4, <3>5, <3>6
    <2>11. F(n + 1) = F(n) \union {t}
      BY <2>2, <2>9, <2>10
    <2>12. IsFiniteSet(F(n)) /\ t \notin F(n)
      BY <2>2, <2>4, FS_Subset
    <2> QED
      BY <2>3, <2>11, <2>12, FS_AddElement
  <1>5. \A n \in Full : n + 1 \in Full
    <2> HIDE DEF F
    <2> QED
      BY <1>4
  <1>6. 0 \in Full
    <2>1. F(0) = {}
      <3>1. \A i \in S : ~(Cardinality(Below(i)) < 0)
        BY <1>1
      <3> HIDE DEF F, Below
      <3> QED
        BY <1>2, <3>1
    <2> HIDE DEF F
    <2> QED
      BY <2>1, FS_EmptySet
  <1>7. Full \in SUBSET Nat
    OBVIOUS
  <1>8. m \in Full
    <2> HIDE DEF Full
    <2> QED
      BY <1>5, <1>6, <1>7, AllNumbers
  <1> QED
    BY <1>8

(* What the dashboard calls urgent.                                            *)
LEMMA UrgentIsCutShort ==
  ASSUME RecordsTyped, DaysTyped
  PROVE  /\ UrgentDeadlines \subseteq DeadlineRows.critico
         /\ UrgentDeadlines # DeadlineRows.critico =>
               UrgentActions = Tagged("deadlines", UrgentDeadlines) /\ Cardinality(UrgentDeadlines) = MaxUrgent
         /\ UrgentActions = {} => /\ DeadlineRows.critico = {} /\ OverdueEntries = {}
                                  /\ StatusIn("intimations", {"triagem"}) = {}
  <1> DEFINE critical == {d \in PendingDeadlines : DaysTo(d) \in 0..2}
             triage == StatusIn("intimations", {"triagem"})
  <1>1. MaxUrgent \in Nat \ {0} /\ MaxUrgent \in Nat
    BY ViewsAssumption
  <1>2. critical \in SUBSET Nat /\ IsFiniteSet(critical)
    <2>1. critical \subseteq PendingDeadlines /\ PendingDeadlines \subseteq Deadlines /\ IsFiniteSet(PendingDeadlines)
      BY ListsOfDeadlines
    <2>2. Deadlines \subseteq Nat
      BY HeldAre, ViewsAssumption
    <2> HIDE DEF critical
    <2> QED
      BY <2>1, <2>2, FS_Subset
  <1>3. triage \in SUBSET Nat /\ IsFiniteSet(triage) /\ OverdueEntries \in SUBSET Nat /\ IsFiniteSet(OverdueEntries)
    <2>1. triage \subseteq Intimated /\ OverdueEntries \subseteq Entries
      BY DEF StatusIn, Intimated, Entries, OverdueEntries
    <2>2. Intimated \subseteq Nat /\ Entries \subseteq Nat /\ IsFiniteSet(Intimated) /\ IsFiniteSet(Entries)
      BY HeldAre, ViewsAssumption
    <2> HIDE DEF triage
    <2> QED
      BY <2>1, <2>2, FS_Subset
  <1>4. DeadlineRows.critico = critical /\ UrgentDeadlines = FirstOf(critical, MaxUrgent)
    BY DEF DeadlineRows, UrgentDeadlines
  <1> DEFINE room == MaxUrgent - Cardinality(UrgentDeadlines)
             rest == room - Cardinality(UrgentTriage)
  <1>5. UrgentTriage = FirstOf(triage, room) /\ UrgentEntries = FirstOf(OverdueEntries, rest)
    BY DEF UrgentTriage, UrgentEntries
  <1> HIDE DEF critical, triage
  <1>6. UrgentDeadlines \subseteq critical
    BY <1>4, FirstOfNone
  <1>7. UrgentDeadlines # critical => Cardinality(UrgentDeadlines) = MaxUrgent
    BY <1>1, <1>2, <1>4, FirstOfFull
  <1>8. ASSUME Cardinality(UrgentDeadlines) = MaxUrgent
        PROVE  UrgentActions = Tagged("deadlines", UrgentDeadlines)
    <2>1. room = 0
      BY <1>1, <1>8
    <2>2. UrgentTriage = {}
      BY <1>3, <1>5, <2>1, FirstOfZero
    <2>3. rest = 0
      <3>1. Cardinality(UrgentTriage) = 0
        BY <2>2, FS_EmptySet
      <3> QED
        BY <2>1, <3>1
    <2>4. UrgentEntries = {}
      BY <1>3, <1>5, <2>3, FirstOfZero
    <2> QED
      BY <2>2, <2>4 DEF UrgentActions, Tagged
  <1>9. ASSUME UrgentActions = {}
        PROVE  critical = {} /\ triage = {} /\ OverdueEntries = {}
    <2>1. UrgentDeadlines = {} /\ UrgentTriage = {} /\ UrgentEntries = {}
      BY <1>9 DEF UrgentActions, Tagged
    <2>2. Cardinality(UrgentDeadlines) = 0 /\ Cardinality(UrgentTriage) = 0
      BY <2>1, FS_EmptySet
    <2>3. room = MaxUrgent /\ rest = MaxUrgent
      BY <1>1, <2>2
    <2> HIDE DEF room, rest
    <2>4. critical = {}
      BY <1>1, <1>2, <1>4, <2>1, FirstOfSome
    <2>5. triage = {}
      BY <1>1, <1>3, <1>5, <2>1, <2>3, FirstOfSome
    <2>6. OverdueEntries = {}
      BY <1>1, <1>3, <1>5, <2>1, <2>3, FirstOfSome
    <2> QED
      BY <2>4, <2>5, <2>6
  <1>10. UrgentActions = {} => critical = {} /\ triage = {} /\ OverdueEntries = {}
    BY <1>9
  <1> QED
    BY <1>4, <1>6, <1>7, <1>8, <1>10 DEF triage

LEMMA DeadlinesAgreeAlways ==
  ASSUME RecordsTyped, DaysTyped
  PROVE  DeadlinesAgree
  <1>1. /\ DeadlineRows.semana = {d \in Deadlines : DaysTo(d) \in 0..7}
        /\ DeadlineRows.vencido = {d \in PendingDeadlines : DaysTo(d) < 0}
        /\ DeadlineRows.hoje = {d \in Deadlines : DaysTo(d) = 0}
        /\ DeadlineRows.critico = {d \in PendingDeadlines : DaysTo(d) \in 0..2}
    BY DEF DeadlineRows
  <1>2. DueSoon = (DeadlineRows.semana \intersect PendingDeadlines) \union DeadlineRows.vencido
    BY <1>1, ListsOfDeadlines DEF DueSoon
  <1>3. DeadlineRows.semana \intersect DeadlineRows.vencido = {}
    BY <1>1, ListsOfDeadlines
  <1>4. {d \in Deadlines : DeadlineChip(d) = "critical"}
          = (DeadlineRows.hoje \intersect PendingDeadlines) \union DeadlineRows.vencido
    <2>1. ASSUME NEW d \in Deadlines
          PROVE  DeadlineChip(d) = "critical" <=> d \in PendingDeadlines /\ DaysTo(d) <= 0
      BY ListsOfDeadlines DEF DeadlineChip
    <2> QED
      BY <1>1, <2>1, ListsOfDeadlines
  <1> DEFINE urgent == {d \in Deadlines : <<"deadlines", d>> \in UrgentActions}
  <1>5. urgent = UrgentDeadlines
    <2>1. \A d : <<"deadlines", d>> \in UrgentActions <=> d \in UrgentDeadlines
      BY DEF UrgentActions, Tagged
    <2>2. UrgentDeadlines \subseteq Deadlines
      BY <1>1, ListsOfDeadlines, UrgentIsCutShort
    <2> QED
      BY <2>1, <2>2
  <1>8. /\ urgent \subseteq DeadlineRows.critico
        /\ urgent # DeadlineRows.critico =>
              UrgentActions = Tagged("deadlines", urgent) /\ Cardinality(urgent) = MaxUrgent
    <2> HIDE DEF urgent
    <2> QED
      BY <1>5, UrgentIsCutShort
  <1>9. ASSUME UrgentActions = {}
        PROVE  DeadlineRows.critico = {} /\ Cards.triage = 0 /\ Cards.overdue = 0
    <2>1. DeadlineRows.critico = {} /\ OverdueEntries = {} /\ StatusIn("intimations", {"triagem"}) = {}
      BY <1>9, UrgentIsCutShort
    <2>2. Cards.triage = Cardinality({}) /\ Cards.overdue = SumFunctionOnSet(EntryAmount, {})
      BY <2>1 DEF Cards, TotalOf
    <2> QED
      BY <2>1, <2>2, FS_EmptySet, SumOfNone
  <1>6. Cards.critical = Cardinality(DueSoon) - Cardinality(DeadlineRows.vencido)
    <2> DEFINE near == {d \in PendingDeadlines : DaysTo(d) \in 0..7}
               overdue == {d \in PendingDeadlines : DaysTo(d) < 0}
    <2>1. DueSoon = near \union overdue /\ near \intersect overdue = {}
      BY ListsOfDeadlines DEF DueSoon
    <2>2. IsFiniteSet(near) /\ IsFiniteSet(overdue)
      BY ListsOfDeadlines, FS_Subset
    <2>3. Cards.critical = Cardinality(near) /\ DeadlineRows.vencido = overdue
      BY <1>1 DEF Cards
    <2> HIDE DEF near, overdue
    <2>4. Cardinality(DueSoon) = Cardinality(near) + Cardinality(overdue)
      BY <2>1, <2>2, CountOfBoth
    <2> QED
      BY <2>2, <2>3, <2>4, FS_CardinalityType
  <1>7. ASSUME Announced = {}
        PROVE  UrgentActions = {} /\ Cards.critical = 0 /\ Cards.overdue = 0 /\ Cards.waiting = 0
    <2>1. DueSoon = {} /\ FirstIncoming = {} /\ OverdueEntries = {}
      BY <1>7 DEF Announced, Tagged
    <2>2. Incoming = {}
      <3>1. Incoming \in SUBSET Nat
        BY HeldAre DEF Incoming, StatusIn, Intimated
      <3>2. MaxAnnounced \in Nat \ {0}
        BY ViewsAssumption
      <3> QED
        BY <2>1, <3>1, <3>2, FirstOfSome DEF FirstIncoming
    <2>3. StatusIn("intimations", {"triagem"}) = {}
      BY <2>2 DEF Incoming, StatusIn
    <2>4. \A d \in PendingDeadlines : DaysTo(d) > 7
      BY <2>1, ListsOfDeadlines DEF DueSoon
    <2>5. {d \in PendingDeadlines : DaysTo(d) \in 0..7} = {} /\ {d \in PendingDeadlines : DaysTo(d) \in 0..2} = {}
      BY <2>4, ListsOfDeadlines
    <2>6. UrgentActions = {}
      <3>1. UrgentDeadlines = {} /\ UrgentTriage = {} /\ UrgentEntries = {}
        BY <2>1, <2>3, <2>5, FirstOfNone DEF UrgentDeadlines, UrgentTriage, UrgentEntries
      <3> QED
        BY <3>1 DEF UrgentActions, Tagged
    <2>7. Cards.critical = Cardinality({}) /\ Cards.overdue = SumFunctionOnSet(EntryAmount, {}) /\ Cards.waiting = Cardinality({})
      BY <2>1, <2>2, <2>5 DEF Cards, TotalOf
    <2> QED
      BY <2>6, <2>7, FS_EmptySet, SumOfNone
  <1> QED
    BY <1>2, <1>3, <1>4, <1>6, <1>7, <1>8, <1>9 DEF DeadlinesAgree

(* The calendars.                                                              *)
LEMMA AtMostOne ==
  ASSUME NEW S, \A x, y \in S : x = y
  PROVE  Cardinality(S) <= 1
  <1>1. CASE S = {}
    BY <1>1, FS_EmptySet
  <1>2. CASE S # {}
    <2>1. PICK x : S = {x}
      BY <1>2
    <2> QED
      BY <2>1, FS_Singleton
  <1> QED
    BY <1>1, <1>2

LEMMA OnDayIs ==
  ASSUME NEW day
  PROVE  /\ \A a : <<"appointments", a>> \in OnDay(day) <=> a \in Appointments /\ DateOf("appointments", a) = day
         /\ \A d : <<"deadlines", d>> \in OnDay(day) <=> d \in Deadlines /\ DateOf("deadlines", d) = day
         /\ \A item \in OnDay(day) : \/ \E a \in Appointments : item = <<"appointments", a>>
                                     \/ \E d \in Deadlines : item = <<"deadlines", d>>
  BY DEF OnDay, Tagged

LEMMA ListIs ==
  \A item : item \in AgendaList <=> \/ \E a \in Appointments : item = <<"appointments", a>>
                                    \/ \E d \in Deadlines : item = <<"deadlines", d>>
  BY DEF AgendaList, Tagged

LEMMA WeekIs ==
  ASSUME NEW day \in Nat
  PROVE  WeekStart(day) \in Int /\ day - WeekStart(day) \in 0..6 /\ WeekStart(day) + (day - WeekStart(day)) = day
  <1>1. day % 7 \in 0..6
    OBVIOUS
  <1> QED
    BY <1>1 DEF WeekStart

LEMMA CalendarsAgreeAlways ==
  ASSUME RecordsTyped, DaysTyped
  PROVE  CalendarsAgree
  <1>1. \A day \in DueDates : HasEvent(day) <=> OnDay(day) # {}
    BY OnDayIs DEF HasEvent
  <1>2. DueDates \subseteq Nat
    BY ViewsAssumption
  <1>3. \A day \in DueDates : AgendaWeek(day)[day - WeekStart(day)] = OnDay(day)
    BY <1>2, WeekIs DEF AgendaWeek
  <1>4. ASSUME NEW day \in DueDates, NEW item \in AgendaList
        PROVE  Cardinality({n \in 0..6 : item \in AgendaWeek(day)[n]}) <= 1
    <2> DEFINE S == {n \in 0..6 : item \in AgendaWeek(day)[n]}
    <2>1. ASSUME NEW n \in S PROVE n \in Int /\ item \in OnDay(WeekStart(day) + n)
      BY DEF AgendaWeek
    <2>2. PICK date : \A other : item \in OnDay(other) => other = date
      <3>1. CASE \E a \in Appointments : item = <<"appointments", a>>
        BY <3>1, OnDayIs
      <3>2. CASE \E d \in Deadlines : item = <<"deadlines", d>>
        BY <3>2, OnDayIs
      <3> QED
        BY <3>1, <3>2, ListIs
    <2>3. WeekStart(day) \in Int
      BY <1>2, WeekIs
    <2>4. \A m, n \in S : m = n
      <3> HIDE DEF S
      <3> QED
        BY <2>1, <2>2, <2>3
    <2> QED
      BY <2>4, AtMostOne
  <1>5. UNION {OnDay(day) : day \in DueDates} = AgendaList
    <2>1. ASSUME NEW day \in DueDates, NEW item \in OnDay(day) PROVE item \in AgendaList
      BY OnDayIs, ListIs
    <2>2. ASSUME NEW item \in AgendaList PROVE \E day \in DueDates : item \in OnDay(day)
      BY OnDayIs, ListIs, HeldAre
    <2> QED
      BY <2>1, <2>2
  <1> QED
    BY <1>1, <1>3, <1>4, <1>5 DEF CalendarsAgree

(* The inbox, the processes and the clients.                                   *)
CaseParts == [o \in Owners |-> ClientCases(o) \ StatusIn("cases", {"arquivado"})]
Ones(S) == [x \in S |-> 1]

LEMMA CountOfParts ==
  ASSUME NEW S, IsFiniteSet(S), NEW O, IsFiniteSet(O), NEW P, Parts(O, P, S), Joined(O, P) = S,
         NEW g, \A o \in O : g[o] = Cardinality(P[o])
  PROVE  SumFunctionOnSet(g, O) = Cardinality(S)
  <1> DEFINE f == Ones(S)
  <1>1. \A x \in S : f[x] = 1
    BY DEF Ones
  <1> HIDE DEF f
  <1>2. Summed(f, S)
    BY <1>1 DEF Summed
  <1>3. ASSUME NEW o \in O PROVE g[o] = SumFunctionOnSet(f, P[o])
    <2>1. IsFiniteSet(P[o]) /\ \A x \in P[o] : f[x] = 1
      BY <1>1, FS_Subset DEF Parts
    <2> QED
      BY <2>1, SumCounts
  <1>4. SumFunctionOnSet(g, O) = SumFunctionOnSet(f, S)
    BY <1>2, <1>3, SumOfParts
  <1> QED
    BY <1>1, <1>4, SumCounts

LEMMA InboxAgreesAlways ==
  ASSUME RecordsTyped, listFilter.shown = "todos"
  PROVE  InboxAgrees
  <1> DEFINE statusOf(i) == recordsHeld["intimations"][i].status
             tabs == {"recebidas", "triagem", "associadas", "erro", "concluidas"}
  <1>1. ASSUME NEW i \in Intimated
        PROVE  /\ i \in InboxTab["recebidas"] <=> statusOf(i) = "recebida"
               /\ i \in InboxTab["triagem"] <=> statusOf(i) = "triagem"
               /\ i \in InboxTab["associadas"] <=> statusOf(i) = "associada"
               /\ i \in InboxTab["erro"] <=> statusOf(i) = "erro"
               /\ i \in InboxTab["concluidas"] <=> statusOf(i) = "concluida"
    BY DEF InboxTab, StatusIn, Intimated
  <1>2. DOMAIN InboxTab = tabs
    BY DEF InboxTab
  <1>3. ASSUME NEW i \in Intimated PROVE Cardinality({t \in DOMAIN InboxTab : i \in InboxTab[t]}) = 1
    <2>1. statusOf(i) \in {"recebida", "triagem", "associada", "erro", "concluida"}
      BY HeldAre
    <2>2. \E t \in tabs : {u \in tabs : i \in InboxTab[u]} = {t}
      <3>1. PICK t \in tabs : i \in InboxTab[t] /\ \A u \in tabs : i \in InboxTab[u] => u = t
        <4> HIDE DEF statusOf
        <4> QED
          BY <1>1, <2>1
      <3> HIDE DEF tabs
      <3> QED
        BY <3>1
    <2> QED
      BY <1>2, <2>2, FS_Singleton
  <1>4. \A i \in Intimated : InboxButtons(i) = {} => i \in InboxTab.concluidas
    BY DEF InboxButtons
  <1>5. \A i \in Intimated : ~({"associate", "launch"} \subseteq InboxButtons(i))
    BY DEF InboxButtons
  <1>6. Cards.waiting = Cardinality(InboxTab.recebidas) + Cards.triage
    <2> DEFINE R == StatusIn("intimations", {"recebida"})
               T == StatusIn("intimations", {"triagem"})
    <2>1. Incoming = R \union T /\ R \intersect T = {}
      BY DEF Incoming, StatusIn
    <2>2. R \subseteq Intimated /\ T \subseteq Intimated
      BY DEF StatusIn, Intimated
    <2>3. Cards.waiting = Cardinality(Incoming) /\ Cards.triage = Cardinality(T) /\ InboxTab.recebidas = R
      BY DEF Cards, InboxTab
    <2> HIDE DEF R, T
    <2>4. IsFiniteSet(R) /\ IsFiniteSet(T)
      BY <2>2, HeldAre, FS_Subset
    <2> QED
      BY <2>1, <2>3, <2>4, CountOfBoth
  <1>7. \A o \in Owners : ClientStat(o).ints = UNION {IntimationsOf(c) : c \in ClientCases(o)}
    BY DEF ClientStat, IntimationsOf
  <1>8. \A c \in ProcessRows : listFilter.shown \in {"todos", CaseOf(c).status}
    OBVIOUS
  <1>9. Cards.active = SumFunction([o \in Owners |-> ClientStat(o).active])
    <2> DEFINE S == CasesHeld \ StatusIn("cases", {"arquivado"})
               g == [o \in Owners |-> ClientStat(o).active]
    <2>1. \A o \in Owners : g[o] = Cardinality(CaseParts[o])
      BY DEF ClientStat, CaseParts
    <2>2. Parts(Owners, CaseParts, S)
      BY DEF Parts, CaseParts, ClientCases
    <2>3. Joined(Owners, CaseParts) = S
      BY HeldAre DEF Joined, CaseParts, ClientCases
    <2>4. IsFiniteSet(S) /\ IsFiniteSet(Owners)
      <3>1. S \subseteq CasesHeld
        OBVIOUS
      <3> HIDE DEF S
      <3> QED
        BY <3>1, HeldAre, ViewsAssumption, FS_Subset
    <2>5. DOMAIN g = Owners /\ Cards.active = Cardinality(S)
      BY DEF Cards
    <2> HIDE DEF g, S
    <2>6. SumFunctionOnSet(g, Owners) = Cardinality(S)
      BY <2>1, <2>2, <2>3, <2>4, CountOfParts
    <2> QED
      BY <2>5, <2>6 DEF SumFunction, g
  <1> HIDE DEF tabs, statusOf
  <1> QED
    BY <1>3, <1>4, <1>5, <1>6, <1>7, <1>8, <1>9 DEF InboxAgrees

(* The money.                                                                  *)
LEMMA AmountsSum ==
  ASSUME RecordsTyped, NEW S, S \subseteq Entries
  PROVE  Summed(EntryAmount, S) /\ TotalOf(S) \in Nat /\ \A T : T \subseteq S => TotalOf(T) <= TotalOf(S)
  <1>1. IsFiniteSet(S) /\ S \subseteq EntryIds
    BY HeldAre, FS_Subset
  <1>2. EntryAmount \in [EntryIds -> Nat]
    BY ViewsAssumption
  <1>3. Summed(EntryAmount, S)
    BY <1>1, <1>2 DEF Summed
  <1> QED
    BY <1>3, SumIsNat, SumOfMore DEF TotalOf

EntriesOf(S) == [o \in Owners |-> {e \in S : EntryOf(e).client = o}]

LEMMA SharesSum ==
  ASSUME RecordsTyped, NEW S, S \subseteq Entries, NEW g, DOMAIN g = Owners,
         \A o \in Owners : g[o] = TotalOf({e \in S : EntryOf(e).client = o})
  PROVE  TotalOf(S) = SumFunction(g) + TotalOf({e \in S : EntryOf(e).client = NoOwner})
  <1> DEFINE P == EntriesOf(S)
             U == Joined(Owners, P)
             N == {e \in S : EntryOf(e).client = NoOwner}
  <1>1. Parts(Owners, P, U)
    BY DEF Parts, Joined, EntriesOf
  <1>2. U \union N = S /\ U \intersect N = {}
    <2>1. NoOwner \notin Owners
      BY ViewsAssumption
    <2>2. U = {e \in S : EntryOf(e).client \in Owners}
      BY DEF Joined, EntriesOf
    <2> QED
      BY <2>1, <2>2, HeldAre
  <1>3. \A o \in Owners : g[o] = SumFunctionOnSet(EntryAmount, P[o])
    BY DEF TotalOf, EntriesOf
  <1> HIDE DEF P, N
  <1>4. Summed(EntryAmount, U) /\ Summed(EntryAmount, U \union N)
    <2>1. U \subseteq Entries /\ U \union N \subseteq Entries
      BY <1>2
    <2> HIDE DEF U
    <2> QED
      BY <2>1, AmountsSum
  <1>5. SumFunctionOnSet(g, Owners) = SumFunctionOnSet(EntryAmount, U)
    BY <1>1, <1>3, <1>4, ViewsAssumption, SumOfParts
  <1>6. SumFunctionOnSet(EntryAmount, U \union N) = SumFunctionOnSet(EntryAmount, U) + SumFunctionOnSet(EntryAmount, N)
    <2> HIDE DEF U
    <2> QED
      BY <1>2, <1>4, SumOfBoth
  <1> QED
    BY <1>2, <1>5, <1>6 DEF TotalOf, SumFunction, N

LEMMA BarsAre ==
  ASSUME DaysTyped, NEW n \in 0..MonthsShown
  PROVE  /\ monthDay.month - n \in DOMAIN MonthDays /\ monthDay.month - n \in Nat
         /\ monthDay.day <= 28 => BarMonth(n) = monthDay.month - n
         /\ n = 0 => BarMonth(n) = monthDay.month
  <1>1. monthDay.month - n \in 1..(MonthsShown + 2) /\ monthDay.month - n \in Nat
    BY ViewsAssumption DEF DaysTyped
  <1>2. MonthDays[monthDay.month - n] \in 28..31
    BY <1>1, ViewsAssumption
  <1>3. n = 0 => monthDay.month - n = monthDay.month
    BY DEF DaysTyped
  <1>4. monthDay.day > MonthDays[monthDay.month - n] => ~(monthDay.day <= 28) /\ n # 0
    BY <1>2, <1>3 DEF DaysTyped
  <1> QED
    BY <1>1, <1>3, <1>4, ViewsAssumption DEF BarMonth

LEMMA MoneyAgreesAlways ==
  ASSUME RecordsTyped, DaysTyped
  PROVE  MoneyAgrees
  <1> DEFINE expected == StatusIn("entries", {"previsto"})
             income == {e \in expected : EntryOf(e).kind = "receita"}
             unowned == {e \in Entries : EntryOf(e).client = NoOwner}
  <1>1. expected \subseteq Entries /\ OverdueEntries \subseteq Entries
    BY DEF OverdueEntries, StatusIn, Entries
  <1>2. Bars[0] = MonthCard
    <2>1. 0 \in 0..MonthsShown
      BY ViewsAssumption
    <2> QED
      BY <2>1, BarsAre DEF Bars, MonthCard
  <1>3. ASSUME monthDay.day <= 28, NEW m \in 0..MonthsShown, NEW n \in 0..MonthsShown, m # n
        PROVE  BarMonth(m) # BarMonth(n)
    <2>1. BarMonth(m) = monthDay.month - m /\ BarMonth(n) = monthDay.month - n
      BY <1>3, BarsAre
    <2> QED
      BY <1>3, <2>1 DEF DaysTyped
  <1>4. ToReceive = SumFunction([o \in Owners |-> ClientStat(o).toReceive]) + TotalOf(unowned \intersect expected)
    <2> DEFINE g == [o \in Owners |-> ClientStat(o).toReceive]
    <2>1. ASSUME NEW o \in Owners PROVE g[o] = TotalOf({e \in expected : EntryOf(e).client = o})
      <3>1. {e \in {x \in Entries : EntryOf(x).client = o} : EntryOf(e).status = "previsto"}
              = {e \in expected : EntryOf(e).client = o}
        BY DEF Entries, StatusIn, EntryOf
      <3> QED
        BY <3>1 DEF ClientStat
    <2>2. unowned \intersect expected = {e \in expected : EntryOf(e).client = NoOwner}
      BY <1>1
    <2>3. DOMAIN g = Owners /\ ToReceive = TotalOf(expected)
      BY DEF ToReceive
    <2> HIDE DEF g, expected, unowned
    <2>4. TotalOf(expected) = SumFunction(g) + TotalOf({e \in expected : EntryOf(e).client = NoOwner})
      BY <1>1, <2>1, <2>3, SharesSum
    <2> QED
      BY <2>2, <2>3, <2>4 DEF g
  <1>5. Cards.overdue = SumFunction([o \in Owners |-> ClientStat(o).overdue]) + TotalOf(unowned \intersect OverdueEntries)
    <2> DEFINE g == [o \in Owners |-> ClientStat(o).overdue]
    <2>1. ASSUME NEW o \in Owners PROVE g[o] = TotalOf({e \in OverdueEntries : EntryOf(e).client = o})
      <3>1. {e \in {x \in Entries : EntryOf(x).client = o} : EntryOf(e).status = "vencido"}
              = {e \in OverdueEntries : EntryOf(e).client = o}
        BY DEF Entries, OverdueEntries, StatusIn, EntryOf
      <3> QED
        BY <3>1 DEF ClientStat
    <2>2. unowned \intersect OverdueEntries = {e \in OverdueEntries : EntryOf(e).client = NoOwner}
      BY <1>1
    <2>3. DOMAIN g = Owners /\ Cards.overdue = TotalOf(OverdueEntries)
      BY DEF Cards
    <2> HIDE DEF g, unowned
    <2>4. TotalOf(OverdueEntries) = SumFunction(g) + TotalOf({e \in OverdueEntries : EntryOf(e).client = NoOwner})
      BY <1>1, <2>1, <2>3, SharesSum
    <2> QED
      BY <2>2, <2>3, <2>4 DEF g
  <1>6. Cards.expected = TotalOf(income) /\ ToReceive = TotalOf(expected) /\ Cards.overdue = TotalOf(OverdueEntries)
    BY DEF Cards, ToReceive
  <1>7. Cards.expected <= ToReceive
    <2>1. income \subseteq expected
      OBVIOUS
    <2> HIDE DEF income, expected
    <2> QED
      BY <1>1, <1>6, <2>1, AmountsSum
  <1>8. MonthCard <= Cards.received
    <2> DEFINE all == {e \in StatusIn("entries", {"recebido"}) : EntryOf(e).kind = "receita"}
               some == {e \in InMonth(monthDay.month) : EntryOf(e).kind = "receita" /\ EntryOf(e).status = "recebido"}
    <2>1. MonthCard = TotalOf(some) /\ Cards.received = TotalOf(all)
      BY DEF MonthCard, ReceivedIn, Cards
    <2>2. some \subseteq all /\ all \subseteq Entries
      BY DEF InMonth, Entries, StatusIn, EntryOf
    <2> HIDE DEF some, all
    <2> QED
      BY <2>1, <2>2, AmountsSum
  <1>9. TotalOf(Receivables) <= Cards.expected + Cards.overdue
    <2>1. Receivables \subseteq income \union OverdueEntries /\ income \intersect OverdueEntries = {}
          /\ income \union OverdueEntries \subseteq Entries
      BY DEF Receivables, OverdueEntries, StatusIn, Entries
    <2> HIDE DEF income
    <2>2. Summed(EntryAmount, income \union OverdueEntries)
          /\ TotalOf(Receivables) <= TotalOf(income \union OverdueEntries)
      BY <2>1, AmountsSum
    <2>3. TotalOf(income \union OverdueEntries) = TotalOf(income) + TotalOf(OverdueEntries)
      BY <2>1, <2>2, SumOfBoth DEF TotalOf
    <2> QED
      BY <1>6, <2>2, <2>3
  <1> QED
    BY <1>2, <1>3, <1>4, <1>5, <1>7, <1>8, <1>9 DEF MoneyAgrees

(* The page of the investigations.                                             *)
LEMMA FirstOfLess ==
  ASSUME NEW S, NEW m \in Nat, NEW n \in Nat, m <= n, S \subseteq Nat, IsFiniteSet(S)
  PROVE  FirstOf(S, m) \subseteq FirstOf(S, n)
  <1>1. ASSUME NEW i \in S PROVE Cardinality({j \in S : j < i}) \in Nat
    <2>1. {j \in S : j < i} \subseteq S
      OBVIOUS
    <2> QED
      BY <2>1, FS_Subset, FS_CardinalityType
  <1>2. ASSUME NEW i \in S, Cardinality({j \in S : j < i}) < m PROVE Cardinality({j \in S : j < i}) < n
    BY <1>1, <1>2
  <1> QED
    BY <1>2 DEF FirstOf

LEMMA BoardAgreesAlways ==
  ASSUME RecordsTyped
  PROVE  BoardAgrees
  <1> DEFINE forReview == StatusIn("evidence", {"pendente"})
  <1>1. forReview \subseteq Nat /\ forReview \in SUBSET Nat /\ IsFiniteSet(forReview)
    <2>1. forReview \subseteq KeptIn("evidence")
      BY DEF StatusIn
    <2> HIDE DEF forReview
    <2> QED
      BY <2>1, HeldAre, FS_Subset
  <1>2. MaxAlerts \in Nat \ {0} /\ MaxAlerts \in Nat /\ MaxReviews \in Nat /\ MaxAlerts <= MaxReviews
    BY ViewsAssumption
  <1>3. \A r \in BoardAlerts : r[1] = "evidence" <=> r \in Tagged("evidence", FirstOf(forReview, MaxAlerts))
    BY DEF BoardAlerts, Tagged
  <1>4. \A r \in BoardAlerts : r[1] = "evidence" => r[2] \in ReviewList
    <2>1. FirstOf(forReview, MaxAlerts) \subseteq FirstOf(forReview, MaxReviews)
      <3> HIDE DEF forReview
      <3> QED
        BY <1>1, <1>2, FirstOfLess
    <2> QED
      BY <1>3, <2>1 DEF ReviewList, Tagged
  <1>5. BoardCards.review > 0 <=> \E r \in BoardAlerts : r[1] = "evidence"
    <2>1. BoardCards.review = Cardinality(forReview)
      BY DEF BoardCards
    <2>2. Cardinality(forReview) > 0 <=> forReview # {}
      <3> HIDE DEF forReview
      <3> QED
        BY <1>1, FS_EmptySet, FS_CardinalityType
    <2>3. forReview # {} <=> FirstOf(forReview, MaxAlerts) # {}
      <3>1. forReview # {} => FirstOf(forReview, MaxAlerts) # {}
        <4> HIDE DEF forReview
        <4> QED
          BY <1>1, <1>2, FirstOfSome
      <3> QED
        BY <3>1 DEF FirstOf
    <2>4. FirstOf(forReview, MaxAlerts) # {} <=> \E r \in BoardAlerts : r[1] = "evidence"
      BY <1>3 DEF BoardAlerts, Tagged
    <2> QED
      BY <2>1, <2>2, <2>3, <2>4
  <1>6. BoardCards.active <= Cardinality(BoardRows("todos") \ BoardRows("concluida"))
    <2> DEFINE active == StatusIn("investigations", {"em_coleta", "pendente_revisao"})
               shownRows == BoardRows("todos") \ BoardRows("concluida")
    <2>1. active \subseteq shownRows /\ shownRows \subseteq KeptIn("investigations") /\ BoardCards.active = Cardinality(active)
      BY DEF BoardRows, StatusIn, BoardCards
    <2> HIDE DEF active, shownRows
    <2>2. IsFiniteSet(shownRows)
      BY <2>1, HeldAre, FS_Subset
    <2> QED
      BY <2>1, <2>2, FS_Subset DEF shownRows
  <1>7. \A i \in BoardRows("bloqueada") : <<"investigations", i>> \in BoardAlerts
    BY DEF BoardRows, BoardAlerts, Tagged
  <1> QED
    BY <1>4, <1>5, <1>6, <1>7 DEF BoardAgrees

(* What the steps do.                                                          *)
LEMMA ViewsInitInv == ViewsInit => ViewsInv
  <1> SUFFICES ASSUME ViewsInit PROVE ViewsInv
    OBVIOUS
  <1>1. RecordsTyped
    BY DEF ViewsInit, RecordsTyped, HeldValues
  <1>2. DaysTyped
    <2>1. MonthsShown + 1 \in DOMAIN MonthDays
      BY ViewsAssumption
    <2>2. MonthDays[MonthsShown + 1] \in 28..31
      BY <2>1, ViewsAssumption
    <2> QED
      BY <2>2, ViewsAssumption DEF ViewsInit, DaysTyped
  <1>3. \A kind \in RecordKinds : \A set : Gone \notin set => KeptIn(kind) = {} /\ StatusIn(kind, set) = {}
    <2>1. ASSUME NEW kind \in RecordKinds PROVE KeptIn(kind) = {}
      <3>1. \A r \in DOMAIN recordsHeld[kind] : recordsHeld[kind][r].status = Gone
        BY GoneIs DEF ViewsInit
      <3> QED
        BY <3>1 DEF KeptIn
    <2> QED
      BY <2>1 DEF StatusIn
  <1>4. Announced = {}
    <2>1. PendingDeadlines = {} /\ Incoming = {} /\ OverdueEntries = {}
      BY <1>3, KindsAre DEF PendingDeadlines, Incoming, OverdueEntries, Gone
    <2> QED
      BY <2>1 DEF Announced, DueSoon, FirstIncoming, FirstOf, Tagged
  <1> QED
    BY <1>1, <1>2, <1>4 DEF ViewsInv, ViewsInit, BellMissesNothing

LEMMA PutTyped ==
  ASSUME RecordsTyped, NEW kind \in RecordKinds, NEW r \in IdsOf[kind], NEW v \in HeldValues(kind), PutRecord(kind, r, v)
  PROVE  /\ RecordsTyped' /\ listFilter' = listFilter
         /\ \A other \in RecordKinds : other # kind => recordsHeld'[other] = recordsHeld[other]
         /\ recordsHeld'[kind] = [recordsHeld[kind] EXCEPT ![r] = v]
  <1>1. \A other \in RecordKinds : other # kind => recordsHeld'[other] = recordsHeld[other]
    BY DEF PutRecord, RecordsTyped
  <1>2. recordsHeld'[kind] = [recordsHeld[kind] EXCEPT ![r] = v]
    BY DEF PutRecord, RecordsTyped
  <1>3. recordsHeld' = [k \in RecordKinds |-> recordsHeld'[k]]
    BY DEF PutRecord, RecordsTyped
  <1>4. \A k \in RecordKinds : recordsHeld'[k] \in [IdsOf[k] -> HeldValues(k)]
    BY <1>1, <1>2 DEF RecordsTyped
  <1>5. RecordsTyped'
    BY <1>3, <1>4 DEF RecordsTyped, HeldValues, NoRecord
  <1> QED
    BY <1>1, <1>2, <1>5 DEF PutRecord

\* What the bell announces depends on the deadlines, the intimations and the entries.
LEMMA AnnouncedFrom ==
  ASSUME viewDay' = viewDay, \A kind \in {"deadlines", "intimations", "entries"} : recordsHeld'[kind] = recordsHeld[kind]
  PROVE  Announced' = Announced
  <1>1. KeptIn("deadlines")' = KeptIn("deadlines") /\ KeptIn("intimations")' = KeptIn("intimations")
        /\ KeptIn("entries")' = KeptIn("entries")
    BY DEF KeptIn
  <1>2. PendingDeadlines' = PendingDeadlines /\ Incoming' = Incoming /\ OverdueEntries' = OverdueEntries
    BY <1>1 DEF PendingDeadlines, Incoming, OverdueEntries, StatusIn
  <1>3. DueSoon' = DueSoon
    BY <1>2 DEF DueSoon, DaysTo, DateOf
  <1> QED
    BY <1>2, <1>3 DEF Announced, FirstIncoming, FirstOf, Tagged

(* The bell drawn shows what is due, whatever record was put.                  *)
LEMMA PutDrawn ==
  ASSUME ViewsInv, NEW kind \in RecordKinds, NEW r \in IdsOf[kind], NEW v \in HeldValues(kind),
         PutRecord(kind, r, v), SameDay, Drawn
  PROVE  ViewsInv'
  BY PutTyped DEF ViewsInv, SameDay, DaysTyped, Drawn, BellMissesNothing

LEMMA PutUnseen ==
  ASSUME ViewsInv, NEW kind \in RecordKinds, NEW r \in IdsOf[kind], NEW v \in HeldValues(kind),
         PutRecord(kind, r, v), SameDay, unseen' = TRUE
  PROVE  ViewsInv'
  BY PutTyped DEF ViewsInv, SameDay, DaysTyped, BellMissesNothing

LEMMA PutApart ==
  ASSUME ViewsInv, NEW kind \in {"appointments", "cases"}, NEW r \in IdsOf[kind], NEW v \in HeldValues(kind),
         PutRecord(kind, r, v), SameDay, NotDrawn
  PROVE  ViewsInv'
  <1>1. kind \in RecordKinds /\ {"deadlines", "intimations", "entries"} \subseteq RecordKinds
    BY KindsAre
  <1>2. RecordsTyped' /\ listFilter' = listFilter
        /\ \A other \in {"deadlines", "intimations", "entries"} : recordsHeld'[other] = recordsHeld[other]
    BY <1>1, PutTyped DEF ViewsInv
  <1>3. Announced' = Announced
    BY <1>2, AnnouncedFrom DEF SameDay
  <1> QED
    BY <1>2, <1>3 DEF ViewsInv, SameDay, DaysTyped, NotDrawn, BellMissesNothing

(* The handler that does not draw the bell takes a deadline away: what was     *)
(* announced is announced still, or no longer due.                             *)
LEMMA DeletedStep ==
  ASSUME ViewsInv, NEW d \in DeadlineIds, DeletedDeadline(d), SameDay
  PROVE  ViewsInv'
  <1>1. "deadlines" \in RecordKinds /\ {"intimations", "entries"} \subseteq RecordKinds /\ IdsOf["deadlines"] = DeadlineIds
    BY KindsAre DEF IdsOf
  <1>2. NoRecord("deadlines") \in HeldValues("deadlines") /\ PutRecord("deadlines", d, NoRecord("deadlines")) /\ NotDrawn
    BY DEF HeldValues, DeletedDeadline
  <1>3. /\ RecordsTyped' /\ listFilter' = listFilter
        /\ recordsHeld'["intimations"] = recordsHeld["intimations"] /\ recordsHeld'["entries"] = recordsHeld["entries"]
        /\ recordsHeld'["deadlines"] = [recordsHeld["deadlines"] EXCEPT ![d] = NoRecord("deadlines")]
    BY <1>1, <1>2, PutTyped DEF ViewsInv
  <1>4. KeptIn("intimations")' = KeptIn("intimations") /\ KeptIn("entries")' = KeptIn("entries")
    BY <1>3 DEF KeptIn
  <1>5. FirstIncoming' = FirstIncoming /\ OverdueEntries' = OverdueEntries
    BY <1>3, <1>4 DEF FirstIncoming, FirstOf, Incoming, OverdueEntries, StatusIn
  <1>6. recordsHeld["deadlines"] \in [DeadlineIds -> HeldValues("deadlines")]
    BY <1>1 DEF ViewsInv, RecordsTyped
  <1>7. NoRecord("deadlines").status = Gone
    BY <1>1, GoneIs
  <1>8. DueSoon' \subseteq DueSoon
    <2>1. ASSUME NEW e \in DueSoon' PROVE e \in DueSoon
      <3>1. e \in DOMAIN recordsHeld'["deadlines"] /\ recordsHeld'["deadlines"][e].status = "pendente"
            /\ recordsHeld'["deadlines"][e].date - viewDay' <= 7
        BY DEF DueSoon, PendingDeadlines, StatusIn, KeptIn, DaysTo, DateOf
      <3>2. e # d
        BY <1>3, <1>6, <1>7, <3>1 DEF Gone
      <3>3. e \in DeadlineIds /\ recordsHeld'["deadlines"][e] = recordsHeld["deadlines"][e] /\ viewDay' = viewDay
        BY <1>3, <1>6, <3>1, <3>2 DEF SameDay
      <3> QED
        BY <1>6, <3>1, <3>3 DEF DueSoon, PendingDeadlines, StatusIn, KeptIn, DaysTo, DateOf, Gone
    <2> QED
      BY <2>1
  <1>9. Announced' \subseteq Announced
    BY <1>5, <1>8 DEF Announced, Tagged
  <1> QED
    BY <1>2, <1>3, <1>9 DEF ViewsInv, SameDay, DaysTyped, NotDrawn, BellMissesNothing

LEMMA ReadAgainStep ==
  ASSUME ViewsInv, NEW kind \in RecordKinds, RecordsReadAgain(kind)
  PROVE  ViewsInv'
  <1>1. PICK r \in DOMAIN recordsHeld[kind], v \in ValuesOf[kind] \union {NoRecord(kind)} : PutRecord(kind, r, v)
    BY DEF RecordsReadAgain
  <1>2. r \in IdsOf[kind] /\ v \in HeldValues(kind)
    BY DEF ViewsInv, RecordsTyped, HeldValues
  <1> QED
    BY <1>1, <1>2, PutUnseen DEF RecordsReadAgain

LEMMA DrawBellStep ==
  ASSUME ViewsInv, DrawBell
  PROVE  ViewsInv'
  BY DEF ViewsInv, DrawBell, SameDay, Drawn, RecordsTyped, HeldValues, NoRecord, DaysTyped, BellMissesNothing

LEMMA CalendarStep == ViewsInv /\ CalendarNext => ViewsInv'
  <1> SUFFICES ASSUME ViewsInv, CalendarNext PROVE ViewsInv'
    OBVIOUS
  <1>0. /\ {"deadlines", "appointments"} \subseteq RecordKinds
        /\ IdsOf["deadlines"] = DeadlineIds /\ IdsOf["appointments"] = AppointmentIds
        /\ ValuesOf["deadlines"] = DeadlineValues /\ ValuesOf["appointments"] = AppointmentValues
    BY KindsAre DEF IdsOf, ValuesOf
  <1>1. CASE NextDay
    BY <1>1 DEF ViewsInv, NextDay, RecordsTyped, HeldValues, NoRecord, DaysTyped, BellMissesNothing
  <1>2. CASE DrawBell
    BY <1>2, DrawBellStep
  <1>3. CASE RecordsReadAgain("deadlines")
    BY <1>0, <1>3, ReadAgainStep
  <1>4. ASSUME NEW d \in DeadlineIds, SavedDeadline(d), SameDay PROVE ViewsInv'
    <2>1. PICK v \in DeadlineValues : PutRecord("deadlines", d, v) /\ Drawn
      BY <1>4 DEF SavedDeadline
    <2> QED
      BY <1>0, <1>4, <2>1, PutDrawn DEF HeldValues
  <1>5. ASSUME NEW d \in DeadlineIds, CompletedDeadline(d), SameDay PROVE ViewsInv'
    <2>1. recordsHeld["deadlines"][d] \in DeadlineValues
      BY <1>0, <1>5, KeptAre DEF CompletedDeadline, PendingDeadlines, ViewsInv
    <2> DEFINE v == [recordsHeld["deadlines"][d] EXCEPT !.status = "concluido"]
    <2>2. v \in DeadlineValues
      BY <2>1 DEF DeadlineValues
    <2>3. PutRecord("deadlines", d, v) /\ Drawn
      BY <1>5 DEF CompletedDeadline
    <2> HIDE DEF v
    <2> QED
      BY <1>0, <1>5, <2>2, <2>3, PutDrawn DEF HeldValues
  <1>6. ASSUME NEW d \in DeadlineIds, DeletedDeadline(d), SameDay PROVE ViewsInv'
    BY <1>6, DeletedStep
  <1>7. ASSUME NEW a \in AppointmentIds, SavedAppointment(a), SameDay PROVE ViewsInv'
    <2>1. PICK v \in AppointmentValues : PutRecord("appointments", a, v) /\ NotDrawn
      BY <1>7 DEF SavedAppointment
    <2> QED
      BY <1>0, <1>7, <2>1, PutApart DEF HeldValues
  <1>8. ASSUME NEW a \in AppointmentIds, DeletedAppointment(a), SameDay PROVE ViewsInv'
    BY <1>0, <1>8, PutApart DEF HeldValues, DeletedAppointment
  <1> QED
    BY <1>1, <1>2, <1>3, <1>4, <1>5, <1>6, <1>7, <1>8 DEF CalendarNext

LEMMA InboxStep == ViewsInv /\ InboxNext => ViewsInv'
  <1> SUFFICES ASSUME ViewsInv, InboxNext PROVE ViewsInv'
    OBVIOUS
  <1>0. /\ {"intimations", "cases"} \subseteq RecordKinds
        /\ IdsOf["intimations"] = IntimationIds /\ IdsOf["cases"] = CaseIds
        /\ ValuesOf["intimations"] = IntimationValues /\ ValuesOf["cases"] = CaseValues
    BY KindsAre DEF IdsOf, ValuesOf
  <1>1. CASE DrawBell
    BY <1>1, DrawBellStep
  <1>2. CASE RecordsReadAgain("intimations")
    BY <1>0, <1>2, ReadAgainStep
  <1>3. ASSUME NEW i \in IntimationIds, SavedIntimation(i), SameDay PROVE ViewsInv'
    <2>1. PICK v \in IntimationValues : PutRecord("intimations", i, v) /\ Drawn
      BY <1>3 DEF SavedIntimation
    <2> QED
      BY <1>0, <1>3, <2>1, PutDrawn DEF HeldValues
  <1>4. ASSUME NEW i \in IntimationIds, ConcludedIntimation(i), SameDay PROVE ViewsInv'
    <2>1. recordsHeld["intimations"][i] \in IntimationValues
      BY <1>0, <1>4, KeptAre DEF ConcludedIntimation, Intimated, ViewsInv
    <2> DEFINE v == [recordsHeld["intimations"][i] EXCEPT !.status = "concluida"]
    <2>2. v \in IntimationValues
      BY <2>1 DEF IntimationValues
    <2>3. PutRecord("intimations", i, v) /\ Drawn
      BY <1>4 DEF ConcludedIntimation
    <2> HIDE DEF v
    <2> QED
      BY <1>0, <1>4, <2>2, <2>3, PutDrawn DEF HeldValues
  <1>5. ASSUME NEW c \in CaseIds, SavedCase(c), SameDay PROVE ViewsInv'
    <2>1. PICK v \in CaseValues : PutRecord("cases", c, v) /\ NotDrawn
      BY <1>5 DEF SavedCase
    <2> QED
      BY <1>0, <1>5, <2>1, PutApart DEF HeldValues
  <1>6. ASSUME NEW c \in CaseIds, DeletedCase(c), SameDay PROVE ViewsInv'
    BY <1>0, <1>6, PutApart DEF HeldValues, DeletedCase
  <1>7. ASSUME NEW chosen, ChooseProcessStatus(chosen), SameDay PROVE ViewsInv'
    <2>1. UNCHANGED <<recordsHeld, viewDay>>
      BY <1>7 DEF ChooseProcessStatus, SameDay
    <2>2. Announced' = Announced
      BY <2>1, AnnouncedFrom
    <2> QED
      BY <1>7, <2>1, <2>2
         DEF ViewsInv, ChooseProcessStatus, SameDay, RecordsTyped, HeldValues, NoRecord, DaysTyped, BellMissesNothing
  <1> QED
    BY <1>1, <1>2, <1>3, <1>4, <1>5, <1>6, <1>7 DEF InboxNext

LEMMA MoneyStep == ViewsInv /\ MoneyNext => ViewsInv'
  <1> SUFFICES ASSUME ViewsInv, MoneyNext PROVE ViewsInv'
    OBVIOUS
  <1>0. "entries" \in RecordKinds /\ IdsOf["entries"] = EntryIds /\ ValuesOf["entries"] = EntryValues
    BY KindsAre DEF IdsOf, ValuesOf
  <1>1. CASE DrawBell
    BY <1>1, DrawBellStep
  <1>2. CASE OtherMonthDay
    <2>1. PICK m \in (MonthsShown + 1)..(MonthsShown + 2), d \in {28, 31} :
             d <= MonthDays[m] /\ monthDay' = [month |-> m, day |-> d]
      BY <1>2 DEF OtherMonthDay
    <2>2. UNCHANGED <<viewDay, recordsHeld, listFilter, bell, unseen>>
      BY <1>2 DEF OtherMonthDay
    <2>3. Announced' = Announced
      BY <2>2, AnnouncedFrom
    <2>4. MonthsShown \in Nat
      BY ViewsAssumption
    <2>5. DaysTyped'
      BY <2>1, <2>2, <2>4 DEF DaysTyped, ViewsInv
    <2> QED
      BY <2>2, <2>3, <2>5 DEF ViewsInv, RecordsTyped, HeldValues, NoRecord, BellMissesNothing
  <1>3. ASSUME NEW e \in EntryIds, SavedEntry(e), SameDay PROVE ViewsInv'
    <2>1. PICK v \in EntryValues : PutRecord("entries", e, v) /\ Drawn
      BY <1>3 DEF SavedEntry
    <2> QED
      BY <1>0, <1>3, <2>1, PutDrawn DEF HeldValues
  <1>4. ASSUME NEW e \in EntryIds, DeletedEntry(e), SameDay PROVE ViewsInv'
    BY <1>0, <1>4, PutDrawn DEF HeldValues, DeletedEntry
  <1> QED
    BY <1>1, <1>2, <1>3, <1>4 DEF MoneyNext

LEMMA BoardStep == ViewsInv /\ BoardNext => ViewsInv'
  BY ReadAgainStep, KindsAre DEF BoardNext

LEMMA ViewsRest == ViewsInv /\ UNCHANGED viewVars => ViewsInv'
  <1> SUFFICES ASSUME ViewsInv, UNCHANGED viewVars PROVE ViewsInv'
    OBVIOUS
  <1>1. UNCHANGED <<viewDay, monthDay, recordsHeld, listFilter, bell, unseen>>
    BY DEF viewVars
  <1>2. Announced' = Announced
    BY <1>1, AnnouncedFrom
  <1> QED
    BY <1>1, <1>2 DEF ViewsInv, RecordsTyped, HeldValues, NoRecord, DaysTyped, BellMissesNothing

LEMMA ViewsNextInv ==
  ASSUME ViewsInv, CalendarNext \/ InboxNext \/ MoneyNext \/ BoardNext \/ UNCHANGED viewVars
  PROVE  ViewsInv'
  BY CalendarStep, InboxStep, MoneyStep, BoardStep, ViewsRest

(* What the pages show of the records agrees, whichever records are held.      *)
LEMMA RecordsAgreeAlways ==
  ASSUME ViewsInv
  PROVE  RecordsAgree
  BY DeadlinesAgreeAlways, CalendarsAgreeAlways, InboxAgreesAlways, MoneyAgreesAlways, BoardAgreesAlways
     DEF ViewsInv, RecordsAgree

(***************************************************************************)
(* The application: one page or screen at a time, the others as they began. *)
(***************************************************************************)
QueryScene == IF scene = "query" THEN QueryFits ELSE qRun = NoRun /\ qResult = NoKind
TransScene == IF scene = "transparency" THEN TransFits ELSE tResume = FALSE

AppInv ==
    /\ JobInv /\ QueryScene /\ TransScene
    /\ AuthInv /\ AuditFits /\ SelectionIsKept /\ CheckoutFits
    /\ FollowFits /\ ListsFit /\ PageFits /\ PathFits /\ PrefsFit
    /\ WizardFits /\ RadarFits /\ DraftsFit /\ FilesFit /\ ViewsInv

LEMMA AppInitInv == Init => AppInv
  <1> SUFFICES ASSUME Init PROVE AppInv
    OBVIOUS
  <1>1. JobInv
    BY JobInitInv DEF Init
  <1>2. QueryScene
    <2>1. CASE scene = "query"
      BY <2>1, QueryBegins DEF Init, QueryScene
    <2>2. CASE scene # "query"
      BY <2>2 DEF Init, PanelsInit, QueryScene
    <2>3. QED
      BY <2>1, <2>2
  <1>3. TransScene
    <2>1. CASE scene = "transparency"
      BY <2>1, TransBegins DEF Init, TransScene
    <2>2. CASE scene # "transparency"
      BY <2>2 DEF Init, PanelsInit, TransScene
    <2>3. QED
      BY <2>1, <2>2
  <1>4. AuthInv /\ AuditFits /\ SelectionIsKept /\ CheckoutFits
    BY AuthInitInv, AuditInitInv, SelectionBegins, CheckoutInitInv DEF Init
  <1>5. FollowFits /\ ListsFit /\ PageFits /\ PathFits /\ PrefsFit
    BY IntegrationInitInv, InterfaceInitInv DEF Init
  <1>6. WizardFits /\ RadarFits /\ DraftsFit /\ FilesFit
    BY WizardInitInv, RadarInitInv, DraftsInitInv, FilesInitInv DEF Init
  <1>7. ViewsInv
    BY ViewsInitInv DEF Init
  <1>8. QED
    BY <1>1, <1>2, <1>3, <1>4, <1>5, <1>6, <1>7 DEF AppInv

(* A step is of the scene, or leaves each component as it is.                *)
LEMMA JobScene ==
  ASSUME [Next]_vars
  PROVE  /\ scene' = scene
         /\ scene = "query" => QueryNext \/ UNCHANGED <<jobVars, panelsVars>>
         /\ scene = "transparency" => TransparencyNext \/ UNCHANGED <<jobVars, panelsVars>>
         /\ scene \notin {"query", "transparency"} => [JobNext]_jobVars /\ UNCHANGED panelsVars
  BY DEF Next, vars

LEMMA SceneSteps ==
  ASSUME [Next]_vars
  PROVE  /\ [AuthNext]_authVars /\ [AuditNext]_auditVars /\ [CommercialNext]_commercialVars
         /\ [CheckoutNext]_checkoutVars /\ [WizardSteps]_wizardVars
         /\ [RadarNext]_radarVars /\ [DraftsNext]_draftVars /\ [FilesNext]_fileVars
         /\ CalendarNext \/ InboxNext \/ MoneyNext \/ BoardNext \/ UNCHANGED viewVars
  BY DEF Next, vars

LEMMA PanelSteps ==
  ASSUME [Next]_vars
  PROVE  [IntegrationNext]_integrationVars
  BY DEF Next, vars, IntegrationNext

LEMMA InterfaceSteps ==
  ASSUME [Next]_vars
  PROVE  /\ [PageNext]_pageVars /\ [PathNext]_pathVars /\ [PrefNext]_prefVars
         /\ PageNext \/ UNCHANGED pageVars
  <1>1. PageNext \/ PathNext \/ PrefNext \/ UNCHANGED interfaceVars
    BY DEF Next, vars
  <1>2. UNCHANGED interfaceVars => UNCHANGED <<pageVars, pathVars, prefVars>>
    BY DEF interfaceVars
  <1>3. QED
    BY <1>1, <1>2, Apart

LEMMA AppNextInv == AppInv /\ [Next]_vars => AppInv'
  <1> SUFFICES ASSUME AppInv, [Next]_vars PROVE AppInv'
    OBVIOUS
  <1>1. JobInv' /\ QueryScene' /\ TransScene'
    <2> USE JobScene DEF QueryScene, TransScene
    <2>0. JobInv /\ QueryScene /\ TransScene
      BY DEF AppInv
    <2>1. CASE scene = "query"
      <3>1. CASE QueryNext
        BY <2>0, <2>1, <3>1, QueryInv
      <3>2. CASE UNCHANGED <<jobVars, panelsVars>>
        BY <2>0, <2>1, <3>2, JobNextInv, QueryRests DEF panelsVars, queryVars
      <3>3. QED
        BY <2>1, <3>1, <3>2
    <2>2. CASE scene = "transparency"
      <3>1. CASE TransparencyNext
        <4>1. JobInv' /\ TransFits' /\ UNCHANGED queryVars
          BY <2>0, <2>2, <3>1, TransInv
        <4>2. QED
          BY <2>0, <2>2, <4>1 DEF queryVars
      <3>2. CASE UNCHANGED <<jobVars, panelsVars>>
        BY <2>0, <2>2, <3>2, JobNextInv, TransRests DEF queryVars
      <3>3. QED
        BY <2>2, <3>1, <3>2
    <2>3. CASE scene \notin {"query", "transparency"}
      <3>1. JobInv'
        BY <2>0, <2>3, JobNextInv
      <3>2. UNCHANGED <<qRun, qResult, tResume>>
        BY <2>3 DEF panelsVars, queryVars, transVars
      <3>3. QED
        BY <2>0, <2>3, <3>1, <3>2
    <2>4. QED
      BY <2>1, <2>2, <2>3
  <1>2. AuthInv' /\ AuditFits' /\ SelectionIsKept' /\ CheckoutFits'
    BY SceneSteps, AuthNextInv, AuditNextInv, SelectionStays, CheckoutNextInv DEF AppInv
  <1>3. FollowFits' /\ ListsFit'
    BY PanelSteps, IntegrationNextInv DEF AppInv
  <1>4. PageFits' /\ PathFits' /\ PrefsFit'
    BY InterfaceSteps, PageNextInv, PathNextInv, PrefNextInv DEF AppInv
  <1>5. WizardFits' /\ RadarFits' /\ DraftsFit' /\ FilesFit'
    BY SceneSteps, WizardNextInv, RadarNextInv, DraftsNextInv, FilesNextInv DEF AppInv
  <1>6. ViewsInv'
    BY SceneSteps, ViewsNextInv DEF AppInv
  <1>7. QED
    BY <1>1, <1>2, <1>3, <1>4, <1>5, <1>6 DEF AppInv

LEMMA AppInvariant == Spec => []AppInv
  BY AppInitInv, AppNextInv, PTL DEF Spec

(* connector-jobs.js, follow(): whatever the server answers, loses or delays, *)
(* one call creates at most one run and none when it resumes one, its result  *)
(* is that of the run it was about, and its error names the run that is known. *)
THEOREM FollowIsSafe == JobSpec => []JobSafety
  <1>1. JobInv => JobSafety
    BY OneAtMost DEF JobInv, JobSafety
  <1>2. QED
    BY JobInitInv, JobNextInv, <1>1, PTL DEF JobSpec

(* connector-jobs.js, under every page that follows an execution.            *)
THEOREM FollowsAreSafe == Spec => []JobSafety
  <1>1. AppInv => JobSafety
    BY OneAtMost DEF AppInv, JobInv, JobSafety
  <1>2. QED
    BY AppInvariant, <1>1, PTL

(* The public queries, the transparency panel and the panels of the           *)
(* integrations say what is true of the run, the analysis, the evidence or     *)
(* the report they are about, whichever answers arrive late.                  *)
THEOREM PanelsTellTheTruth == Spec => []PanelsAreTrue
  <1>1. AppInv => OffersOpenRun /\ ResultFitsKind
    <2> SUFFICES ASSUME AppInv PROVE OffersOpenRun /\ ResultFitsKind
      OBVIOUS
    <2>1. ResultFitsKind /\ (~qLoading /\ qRun # NoRun => qRun \notin reported /\ server[qRun] # "none")
      BY QueryIsSafe DEF AppInv, QueryScene, ResultFitsKind
    <2>2. tResume => ~tBusy /\ tRun # NoRun /\ tRun \notin reported /\ server[tRun] # "none"
      BY TransIsSafe DEF AppInv, TransScene
    <2>3. QED
      BY <2>1, <2>2 DEF OffersOpenRun
  <1>2. AppInv => PanelsAreTrue
    BY <1>1, IntegrationIsSafe DEF AppInv, PanelsAreTrue, PanelSafety
  <1>3. QED
    BY AppInvariant, <1>2, PTL

(* auth.js and the entry of app.js: the page and the server are at the same    *)
(* challenge, with one request, one timer, one panel and one application at    *)
(* most, and no secret is left over.                                          *)
THEOREM AuthPageIsSafe == Spec => []AuthSafety
  <1>1. AppInv => AuthSafety
    BY AuthIsSafe DEF AppInv
  <1>2. QED
    BY AppInvariant, <1>1, PTL

(* commercial.js, checkout.js and the wizard of app.js: what is sent is what   *)
(* was chosen, one order for a plan, every field of an investigation.         *)
THEOREM SendsTheChosen == Spec => []SendsWhatWasChosen
  <1>1. AppInv => SendsWhatWasChosen
    BY OrdersAreOne, PostsComplete DEF AppInv, SendsWhatWasChosen
  <1>2. QED
    BY AppInvariant, <1>1, PTL

(* interface.js and accessibility.js: the address, what can be reached and the *)
(* preferences of the tabs stay together.                                     *)
THEOREM InterfaceHolds == Spec => []InterfaceSafety
  <1>1. AppInv => InterfaceSafety
    BY InterfaceIsSafe DEF AppInv
  <1>2. QED
    BY AppInvariant, <1>1, PTL

(* app.js: whichever records are held and whoever changes them, the bell, the  *)
(* dashboard, the lists, the calendars, the profiles and the board agree about *)
(* them, and the bell misses nothing after the user's own changes; the rows of *)
(* the ledger fit the filters, the radar shows what it asked, the desk keeps   *)
(* its drafts, the page of files shows those that were analysed.               *)
THEOREM ScreensAlwaysAgree == Spec => []ScreensAgree
  <1>1. AppInv => RecordsAgree
    BY RecordsAgreeAlways DEF AppInv
  <1>2. AppInv => RowsFitFilters /\ RadarSafety /\ DraftsSafety /\ FilesSafety
    BY RadarIsSafe, DraftsAreSafe, FilesAreSafe DEF AppInv, AuditFits
  <1>3. AppInv => ScreensAgree
    BY <1>1, <1>2 DEF ScreensAgree
  <1>4. QED
    BY AppInvariant, <1>3, PTL

(* What no step of a page does, of each component.                           *)
LEMMA StoppingStep ==
  ASSUME [JobNext]_jobVars, reason # NoOutcome, phase # "idle", phase' = "idle"
  PROVE  outcome' = reason
  <1>1. CASE Stopped
    BY <1>1 DEF Stopped, End
  <1>2. CASE Inspect \/ PauseOver
    BY <1>2 DEF Inspect, PauseOver, GoesOn
  <1>3. CASE AnswerPost \/ AnswerGet \/ Abort("TIMEOUT") \/ Abort("ABORTED")
    BY <1>3 DEF AnswerPost, AnswerGet, Abort
  <1>4. CASE \E r \in Runs : ServerWorks(r)
    BY <1>4 DEF ServerWorks
  <1>5. CASE RefuseCall \/ \E aborted \in BOOLEAN, id \in Runs \cup {NoRun} : Follow(id, aborted)
    BY <1>5 DEF RefuseCall, Follow
  <1>6. CASE UNCHANGED jobVars
    BY <1>6 DEF jobVars
  <1>7. QED
    BY <1>1, <1>2, <1>3, <1>4, <1>5, <1>6 DEF JobNext, FollowStep

(* Whichever page follows, what it does to the follow is a step of it.       *)
LEMMA FollowerSteps ==
  ASSUME AppInv, [Next]_vars
  PROVE  [JobNext]_jobVars
  <1>1. ASSUME NEW id \in Runs \cup {NoRun}, id # NoRun => server[id] # "none", Follow(id, FALSE) PROVE JobNext
    BY <1>1 DEF JobNext
  <1>2. CASE scene = "query"
    <2>1. qRun \in Runs \cup {NoRun} /\ (qRun # NoRun => server[qRun] # "none")
      BY <1>2 DEF AppInv, QueryScene, QueryFits
    <2>2. ASSUME NEW resume \in BOOLEAN, DoQuery(resume) PROVE JobNext
      <3> DEFINE id == IF resume THEN qRun ELSE NoRun
      <3>1. id \in Runs \cup {NoRun} /\ (id # NoRun => server[id] # "none")
        BY <2>1
      <3>2. QED
        BY <1>1, <2>2, <3>1 DEF DoQuery
    <2>3. QueryProgress => JobNext
      BY DEF QueryProgress, FollowOn, JobNext
    <2>4. \A r \in Runs : ServerWorks(r) => JobNext
      BY DEF JobNext
    <2>5. (\E k \in Kinds : ChooseKind(k)) \/ QuerySettles => UNCHANGED jobVars
      BY DEF ChooseKind, QuerySettles
    <2>6. QueryNext \/ UNCHANGED jobVars
      BY <1>2, JobScene
    <2>7. QED
      BY <2>2, <2>3, <2>4, <2>5, <2>6 DEF QueryNext
  <1>3. CASE scene = "transparency"
    <2>1. tResume => tRun \in Runs /\ server[tRun] # "none"
      BY <1>3 DEF AppInv, TransScene, TransFits
    <2>2. ASSUME NEW resume \in BOOLEAN, NEW filled \in BOOLEAN, Execute(resume, filled) PROVE JobNext \/ UNCHANGED jobVars
      <3> DEFINE id == IF resume THEN tRun ELSE NoRun
      <3>1. id \in Runs \cup {NoRun} /\ (id # NoRun => server[id] # "none")
        BY <2>1, <2>2 DEF Execute
      <3>2. QED
        BY <1>1, <2>2, <3>1 DEF Execute
    <2>3. TransparencyProgress => JobNext
      BY DEF TransparencyProgress, FollowOn, JobNext
    <2>4. \A r \in Runs : ServerWorks(r) => JobNext
      BY DEF JobNext
    <2>5. TransparencySettles => UNCHANGED jobVars
      BY DEF TransparencySettles
    <2>6. TransparencyNext \/ UNCHANGED jobVars
      BY <1>3, JobScene
    <2>7. QED
      BY <2>2, <2>3, <2>4, <2>5, <2>6 DEF TransparencyNext
  <1>4. QED
    BY <1>2, <1>3, JobScene

(* A list that is shown again is not older: its last event is in it.         *)
LEMMA ListStep ==
  ASSUME AuditFits, [AuditNext]_auditVars, loaded, loaded', events # {}, events' # {}
  PROVE  Max(events') >= Max(events)
  <1>1. CASE events' = events
    <2>1. events \subseteq Nat /\ \E m \in events : \A e \in events : m >= e
      BY DEF AuditFits
    <2>2. Max(events) \in Nat
      BY <2>1 DEF Max
    <2>3. QED
      BY <1>1, <2>2
  <1>2. QED
    BY <1>1, AuditNextInv

LEMMA SentOnce ==
  ASSUME FollowFits, [IntegrationNext]_integrationVars, step' = "posting", step # "posting"
  PROVE  notice \in {"none", "ready", "failed", "still registered", "error"}
  <1>1. CASE ListsNext
    BY <1>1, ListsApart DEF followVars
  <1>2. QED
    BY <1>1, SentAlone DEF IntegrationNext

(* The pages: the end of a follow is not overruled, the section asked for is  *)
(* reached, a list never goes back, an order of the page is found again, one   *)
(* analysis is sent, the focus comes back, only what was created is opened.   *)
THEOREM StepsKeepOrder == Spec => StepsAreOrderly
  <1>1. AppInv /\ [Next]_vars => [reason # NoOutcome /\ phase # "idle" /\ phase' = "idle" => outcome' = reason]_jobVars
    BY FollowerSteps, StoppingStep
  <1>2. AppInv /\ [Next]_vars =>
          [place = "login" /\ place' = "index" /\ asked # "" => hash' = asked]_authVars
    BY SceneSteps, LandingStep DEF AppInv
  <1>3. AppInv /\ [Next]_vars =>
          [loaded /\ loaded' /\ events # {} /\ events' # {} => Max(events') >= Max(events)]_auditVars
    BY SceneSteps, ListStep DEF AppInv
  <1>4. AppInv /\ [Next]_vars =>
          [\A f \in Slots : forms[f].at = "sent" /\ forms'[f].told = "another"
             => ~ \E i \in Ids : orders[i].plan = forms[f].plan]_checkoutVars
    BY SceneSteps, CheckoutNextInv DEF AppInv, OwnFound
  <1>5. AppInv /\ [Next]_vars =>
          [step' = "posting" /\ step # "posting"
             => notice \in {"none", "ready", "failed", "still registered", "error"}]_integrationVars
    BY PanelSteps, SentOnce DEF AppInv
  <1>6. AppInv /\ [Next]_vars =>
          [window # 0 /\ window' = 0 /\ ~prefsOpen /\ opener # "body" /\ opener \notin inert'
             => focus' = opener]_interfaceVars
    BY InterfaceSteps, PageNextInv DEF AppInv, Returns
  <1>7. AppInv /\ [Next]_vars => [opened' # opened => opened' \in waiting /\ opened' \notin waiting']_wizardVars
    BY SceneSteps, WizardNextInv DEF AppInv
  <1>8. QED
    BY AppInvariant, <1>1, <1>2, <1>3, <1>4, <1>5, <1>6, <1>7, PTL
       DEF Spec, StepsAreOrderly, StoppedIsFinal, LandsWhereAsked, ListNeverGoesBack, OwnOrderIsFound,
           OneAnalysisFollowed, FocusComesBack, OpensOnlyCreated
=============================================================================
