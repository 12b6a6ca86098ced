----------------------------- MODULE JobFollower -----------------------------
(***************************************************************************)
(* assets/js/connector-jobs.js: follow() sends one execution to the server *)
(* and polls it, or polls an execution that exists.  Of the server only    *)
(* the rows of its runs are kept (ConnectorRuns has the whole of it): it   *)
(* may create a run and lose the answer, and what arrives may be anything  *)
(* the follower has a branch for.                                          *)
(***************************************************************************)
EXTENDS Naturals, FiniteSets

CONSTANTS
    Runs,       \* identifiers of executions on the server
    NoRun       \* no identifier known yet (null)

ASSUME RunsAssumption == NoRun \notin Runs

VARIABLES
    server,     \* status of every run on the server
    phase,      \* what follow() awaits: a POST, a GET, the polling pause, or nothing
    runId,      \* state.runId
    existing,   \* follow() was called with an identifier
    answer,     \* the response that settled the request, not yet looked at
    reason,     \* controller.signal.reason
    outcome,    \* the result or the error follow() ended with
    told,       \* the identifier of the last progress event
    created,    \* history: runs this follow() created on the server
    reported    \* history: runs whose end some follow() reported

jobVars == <<server, phase, runId, existing, answer, reason, outcome, told, created, reported>>

Pending  == {"queued", "running"}
Finished == {"completed", "failed", "cancelled"}
Codes    == {"TIMEOUT", "ABORTED", "REQUEST_FAILED", "APPROVAL_REQUIRED",
             "INVALID_RESPONSE", "EXECUTION_FAILED", "EXECUTION_CANCELLED"}

Outcomes == [code : Codes \cup {"none", "completed"}, runId : Runs \cup {NoRun}]
Answers  == [status : Pending \cup Finished \cup {"none", "error", "approval_required", "unknown"},
             id : Runs \cup {NoRun}, data : BOOLEAN]

NoAnswer  == [status |-> "none", id |-> NoRun, data |-> FALSE]
NoOutcome == [code |-> "none", runId |-> NoRun]

JobTypeOK ==
    /\ server \in [Runs -> Pending \cup Finished \cup {"none"}]
    /\ phase \in {"idle", "post", "get", "pause"}
    /\ runId \in Runs \cup {NoRun}
    /\ existing \in BOOLEAN
    /\ answer \in Answers
    /\ reason \in Outcomes
    /\ outcome \in Outcomes
    /\ told \in Runs \cup {NoRun}
    /\ created \subseteq Runs
    /\ reported \subseteq Runs

JobInit ==
    /\ server = [r \in Runs |-> "none"]
    /\ phase = "idle" /\ runId = NoRun /\ existing = FALSE
    /\ answer = NoAnswer /\ reason = NoOutcome /\ outcome = NoOutcome
    /\ told = NoRun /\ created = {} /\ reported = {}

(***************************************************************************)
(* The server.                                                             *)
(***************************************************************************)
ServerWorks(r) ==
    /\ \/ server[r] = "queued"  /\ server' = [server EXCEPT ![r] = "running"]
       \/ server[r] \in Pending /\ \E s \in Finished : server' = [server EXCEPT ![r] = s]
    /\ UNCHANGED <<phase, runId, existing, answer, reason, outcome, told, created, reported>>

\* POST /osint/runs: refused, or a run is created, whose answer may be lost
\* (error) or incomplete (unknown status, no identifier, no data).
AnswerPost ==
    /\ phase = "post" /\ answer = NoAnswer
    /\ \/ /\ \E s \in {"error", "approval_required"} : answer' = [NoAnswer EXCEPT !.status = s]
          /\ UNCHANGED <<server, created>>
       \/ \E r \in Runs, s \in {"queued", "completed", "failed"} :
             /\ server[r] = "none"
             /\ server' = [server EXCEPT ![r] = s]
             /\ created' = created \cup {r}
             /\ answer' \in {[status |-> s, id |-> r, data |-> s = "completed"],
                             [status |-> "unknown", id |-> r, data |-> FALSE],
                             [status |-> s, id |-> NoRun, data |-> FALSE],
                             [NoAnswer EXCEPT !.status = "error"]}
    /\ UNCHANGED <<phase, runId, existing, reason, outcome, told, reported>>

\* GET /osint/runs/{id}: the row as it is now, or an answer that is not that row.
AnswerGet ==
    /\ phase = "get" /\ answer = NoAnswer
    /\ answer' \in {[status |-> server[runId], id |-> runId, data |-> server[runId] = "completed"],
                    [status |-> "unknown", id |-> runId, data |-> FALSE],
                    [status |-> "completed", id |-> runId, data |-> FALSE],
                    [NoAnswer EXCEPT !.status = "error"]}
                   \cup {[status |-> "completed", id |-> r, data |-> TRUE] :
                            r \in {x \in Runs \ {runId} : server[x] = "completed"}}
    /\ server[runId] # "none" \/ answer'.status = "error"
    /\ UNCHANGED <<server, phase, runId, existing, reason, outcome, told, created, reported>>

(***************************************************************************)
(* follow().                                                               *)
(***************************************************************************)
MakeError(code, id) == [code |-> code, runId |-> id]

End(o) == phase' = "idle" /\ outcome' = o

\* An identifier or an option that positiveOption refuses: nothing is sent.
RefuseCall ==
    /\ phase = "idle"
    /\ End([code |-> "INVALID_RESPONSE", runId |-> NoRun])
    /\ runId' = NoRun /\ existing' = FALSE /\ told' = NoRun
    /\ reason' = NoOutcome /\ answer' = NoAnswer /\ created' = {}
    /\ UNCHANGED <<server, reported>>

\* run() (id = NoRun) or resume(): a signal that is already aborted sends nothing.
Follow(id, aborted) ==
    /\ phase = "idle"
    /\ runId' = id /\ existing' = (id # NoRun)
    /\ answer' = NoAnswer /\ created' = {}
    /\ IF aborted
       THEN /\ reason' = MakeError("ABORTED", id) /\ told' = NoRun
            /\ End(MakeError("ABORTED", id))
       ELSE /\ reason' = NoOutcome /\ outcome' = NoOutcome /\ told' = id
            /\ phase' = IF id = NoRun THEN "post" ELSE "get"
    /\ UNCHANGED <<server, reported>>

NamedRun == runId

\* The timer or the caller's signal: the error is made with what is known now,
\* once, whatever is on its way.
Abort(code) ==
    /\ phase # "idle" /\ reason = NoOutcome
    /\ reason' = MakeError(code, NamedRun)
    /\ UNCHANGED <<server, phase, runId, existing, answer, outcome, told, created, reported>>

CheckAbort == reason # NoOutcome

(* Mutant: call() does not check the signal after the race. *)
GoesOnAlways == TRUE

GoesOn == reason = NoOutcome

(* Mutant: call() awaits the request without racing it against the signal. *)
HeedsSignalInPause == phase = "pause"

HeedsSignal == phase # "idle"

\* call() and pause() lose the race against the signal, and an answer that had
\* arrived is dropped: checkAbort runs before anything looks at it.
Stopped ==
    /\ HeedsSignal /\ CheckAbort
    /\ End(reason) /\ answer' = NoAnswer
    /\ UNCHANGED <<server, runId, existing, reason, told, created, reported>>

SameRun(a) == runId # NoRun => a.id = runId

UnknownStatus(a) == a.status = "unknown"

\* What inspect() makes of an answer: an error code, or the status it takes.
Verdict(a) ==
    IF a.status = "error" THEN "REQUEST_FAILED"
    ELSE IF a.status = "approval_required" THEN "APPROVAL_REQUIRED"
    ELSE IF a.id = NoRun \/ ~SameRun(a) THEN "INVALID_RESPONSE"
    ELSE CASE a.status = "failed" -> "EXECUTION_FAILED"
           [] a.status = "cancelled" -> "EXECUTION_CANCELLED"
           [] UnknownStatus(a) \/ (a.status = "completed" /\ ~a.data) -> "INVALID_RESPONSE"
           [] OTHER -> a.status

\* inspect() takes the identifier before it looks at the status.
TakesId(a) ==
    /\ a.status \notin {"error", "approval_required"} /\ a.id # NoRun
    /\ SameRun(a)
KnownId(a) == IF TakesId(a) THEN a.id ELSE runId

\* progress() is called for a taken status, not for one that is refused.
Progress(a, v) ==
    told' = IF v \in Pending \cup {"completed", "EXECUTION_FAILED", "EXECUTION_CANCELLED"}
            THEN KnownId(a) ELSE told

\* The request settles first: inspect(), then the loop.
Inspect ==
    /\ phase \in {"post", "get"} /\ answer # NoAnswer /\ GoesOn
    /\ LET v == Verdict(answer) id == KnownId(answer) IN
         /\ runId' = id
         /\ Progress(answer, v)
         /\ reported' = reported \cup
               (IF v \in {"completed", "EXECUTION_FAILED", "EXECUTION_CANCELLED"} THEN {id} ELSE {})
         /\ IF v \in Pending
            THEN phase' = (IF phase = "post" THEN "get" ELSE "pause") /\ UNCHANGED outcome
            ELSE End(MakeError(v, id))
    /\ answer' = NoAnswer
    /\ UNCHANGED <<server, existing, reason, created>>

(* Mutant: the loop goes back to the POST. *)
AfterPausePost == "post"

AfterPause == "get"

PauseOver ==
    /\ phase = "pause" /\ GoesOn
    /\ phase' = AfterPause
    /\ UNCHANGED <<server, runId, existing, answer, reason, outcome, told, created, reported>>

FollowStep == AnswerPost \/ AnswerGet \/ Abort("TIMEOUT") \/ Stopped \/ Inspect \/ PauseOver

JobNext ==
    \/ \E r \in Runs : ServerWorks(r)
    \/ FollowStep
    \/ Abort("ABORTED")
    \/ RefuseCall
    \/ \E aborted \in BOOLEAN :
          \/ Follow(NoRun, aborted)
          \/ \E r \in Runs : server[r] # "none" /\ Follow(r, aborted)

\* The timer fires, and a promise that is settled continues; nothing is assumed
\* of the server.
JobFairness == WF_jobVars(Abort("TIMEOUT")) /\ WF_jobVars(Stopped)

JobSpec == JobInit /\ [][JobNext]_jobVars /\ JobFairness

(***************************************************************************)
(* Properties.                                                             *)
(***************************************************************************)
\* Whatever answers are lost or odd, one follow() creates at most one run on
\* the server, and none when it was given an identifier: polling never submits
\* another execution.
SubmitsOnce ==
    /\ Cardinality(created) <= 1
    /\ existing => created = {}

\* A result is one of the run that was asked for: of the identifier given, or
\* of the run created, and only when the server completed it.
ResultIsTheRuns ==
    outcome.code = "completed" =>
        /\ server[outcome.runId] = "completed"
        /\ ~existing => outcome.runId \in created

\* An identifier that was learned is in every later error, the one made by the
\* timer before the answer was looked at included, so the run can be resumed.
ErrorNamesTheRun ==
    /\ phase = "idle" => outcome.runId = runId
    /\ reason # NoOutcome => reason.runId = runId

\* Once the timer or the caller has stopped it, follow() ends with that error,
\* also when the answer arrives before it has ended.
StoppedIsFinal ==
    [][reason # NoOutcome /\ phase # "idle" /\ phase' = "idle" => outcome' = reason]_jobVars

\* All that one follow() promises: types, one run, its result and its name.
JobSafety == JobTypeOK /\ SubmitsOnce /\ ResultIsTheRuns /\ ErrorNamesTheRun
=============================================================================
