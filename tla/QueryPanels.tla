----------------------------- MODULE QueryPanels -----------------------------
(***************************************************************************)
(* The two screens that follow a job: the public queries of app.js, whose  *)
(* queryState outlives the screen, and mountTransparency of                *)
(* integrations-view.js, whose state is that of one mount.  Neither passes *)
(* a signal, so only the timer stops their follow().                       *)
(***************************************************************************)
EXTENDS JobFollower

CONSTANTS
    Kinds,      \* kinds of query: CNPJ, CEP, bank...
    NoKind

ASSUME KindsAssumption == NoKind \notin Kinds /\ Kinds # {}

VARIABLES
    qKind,      \* queryState.kind
    qRun,       \* queryState.runId
    qLoading,   \* queryState.loading
    qResult,    \* the kind of query that gave queryState.result, NoKind when there is none
    tRun,       \* mountTransparency: runId
    tBusy,      \* its submit button is disabled by busy()
    tResume,    \* its resume button is on the screen
    ranKind     \* history: the kind every run was submitted with

queryVars  == <<qKind, qRun, qLoading, qResult>>
transVars  == <<tRun, tBusy, tResume>>
panelsVars == <<queryVars, transVars, ranKind>>

PanelsInit ==
    /\ qKind = (CHOOSE k \in Kinds : TRUE) /\ qRun = NoRun
    /\ qLoading = FALSE /\ qResult = NoKind
    /\ tRun = NoRun /\ tBusy = FALSE /\ tResume = FALSE
    /\ ranKind = [r \in Runs |-> NoKind]

Resumable == {"TIMEOUT", "REQUEST_FAILED", "ABORTED"}

\* onProgress: an event with an identifier replaces the one that is kept.
OnProgress(kept) == IF told' # NoRun THEN told' ELSE kept

FollowOn ==
    /\ FollowStep
    /\ ranKind' = [r \in Runs |-> IF r \in created' \ created THEN qKind ELSE ranKind[r]]

(***************************************************************************)
(* Public queries.                                                         *)
(***************************************************************************)
(* Mutant: the kind can be changed while a query is running. *)
PillsFreeAlways == TRUE

PillsFree == ~qLoading

\* A click on a pill forgets the result and the run that could be resumed.
ChooseKind(k) ==
    /\ PillsFree
    /\ qKind' = k /\ qRun' = NoRun /\ qResult' = NoKind
    /\ UNCHANGED <<qLoading, transVars, ranKind, jobVars>>

\* doQuery(): the form that is not filled is refused before this.  The run kept
\* from an earlier query stays until a progress event replaces it.
DoQuery(resume) ==
    /\ ~qLoading /\ (resume => qRun # NoRun)
    /\ qLoading' = TRUE
    /\ Follow(IF resume THEN qRun ELSE NoRun, FALSE)
    /\ UNCHANGED <<qKind, qRun, qResult, transVars, ranKind>>

QueryProgress ==
    /\ qLoading /\ FollowOn
    /\ qRun' = OnProgress(qRun)
    /\ UNCHANGED <<qKind, qLoading, qResult, transVars>>

\* The run that is offered after the query: of an error that may be resumed.
KeptRun ==
    IF outcome.code \in Resumable
    THEN IF outcome.runId # NoRun THEN outcome.runId ELSE qRun
    ELSE NoRun

\* The end of doQuery; the result is shown under the kind that is selected.
QuerySettles ==
    /\ qLoading /\ phase = "idle"
    /\ qLoading' = FALSE
    /\ qRun' = KeptRun
    /\ qResult' = IF outcome.code = "completed" THEN ranKind[outcome.runId] ELSE NoKind
    /\ UNCHANGED <<qKind, transVars, ranKind, jobVars>>

QueryNext ==
    \/ \E k \in Kinds : ChooseKind(k)
    \/ \E resume \in BOOLEAN : DoQuery(resume)
    \/ QueryProgress
    \/ QuerySettles
    \/ \E r \in Runs : ServerWorks(r) /\ UNCHANGED panelsVars

(***************************************************************************)
(* Transparency.                                                           *)
(***************************************************************************)
\* busy() lets one execution through; the empty form only takes the resume
\* button away with the message it stood in.
Execute(resume, filled) ==
    /\ ~tBusy /\ (resume => tResume)
    /\ tResume' = FALSE
    /\ IF resume \/ filled
       THEN tBusy' = TRUE /\ Follow(IF resume THEN tRun ELSE NoRun, FALSE)
       ELSE UNCHANGED <<tBusy, jobVars>>
    /\ UNCHANGED <<tRun, queryVars, ranKind>>

TransparencyProgress ==
    /\ tBusy /\ FollowOn
    /\ tRun' = OnProgress(tRun)
    /\ UNCHANGED <<tBusy, tResume, queryVars>>

OffersResume == outcome.code \in Resumable /\ outcome.runId # NoRun

TransparencySettles ==
    /\ tBusy /\ phase = "idle"
    /\ tBusy' = FALSE
    /\ tResume' = OffersResume
    /\ tRun' = CASE outcome.code = "completed" -> NoRun
                 [] OffersResume -> outcome.runId
                 [] OTHER -> tRun
    /\ UNCHANGED <<queryVars, ranKind, jobVars>>

TransparencyNext ==
    \/ \E resume, filled \in BOOLEAN : Execute(resume, filled)
    \/ TransparencyProgress
    \/ TransparencySettles
    \/ \E r \in Runs : ServerWorks(r) /\ UNCHANGED panelsVars

(***************************************************************************)
(* Properties.                                                             *)
(***************************************************************************)
\* The result on the screen is of the kind that is selected, although it may
\* come from a run submitted before a timeout and resumed later.
ResultFitsKind == qResult # NoKind => qResult = qKind

\* A run whose end was reported is not offered again, and one that is offered
\* can be followed: the button of either screen never asks for an unknown run.
OffersOpenRun ==
    /\ ~qLoading /\ qRun # NoRun => qRun \notin reported /\ server[qRun] # "none"
    /\ tResume => ~tBusy /\ tRun # NoRun /\ tRun \notin reported /\ server[tRun] # "none"

\* What the two screens show and offer is of the kind and the run they are at.
PanelSafety == ResultFitsKind /\ OffersOpenRun
=============================================================================
