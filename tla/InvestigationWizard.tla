-------------------------- MODULE InvestigationWizard --------------------------
(***************************************************************************)
(* assets/js/app.js: the four steps in which an investigation is written,  *)
(* and the shortcut from the corporate radar.  A field is abstracted to    *)
(* whether it is filled in as its step asks; the three texts of the third  *)
(* step are one.  The records may be read again, and the modal taken by    *)
(* another window, at any time.                                            *)
(***************************************************************************)
EXTENDS Naturals, Sequences

CONSTANT MaxInvestigations   \* bound: requests to create one

VARIABLES
    wizardStep,          \* osintState.wizard.step, 0 before the first use
    draft,         \* osintState.wizard.data: the fields that are filled in
    typed,         \* what the form on the screen holds
    declared,      \* the declaration of the last step is checked
    screen,        \* the modal: "closed", "wizard", "desk", "other"
    listedClient,  \* the client that was chosen is among the records
    radar,         \* the radar shows a company
    posts,         \* requests to create an investigation: what they carry
    waiting,       \* the ones without an answer
    opened         \* the investigation of the desk, 0 when there is none

wizardVars == <<wizardStep, draft, typed, declared, screen, listedClient, radar, posts, waiting, opened>>

StepFields(s) ==
    CASE s = 1 -> {"title", "client", "owner"}
      [] s = 2 -> {"objective"}
      [] s = 3 -> {"justification", "scope"}
      [] OTHER -> {}
AllFields == UNION {StepFields(s) : s \in 1..3}

WizardInit ==
    /\ wizardStep = 0 /\ draft = {} /\ typed = {} /\ declared = FALSE
    /\ screen = "closed" /\ listedClient = TRUE /\ radar = FALSE
    /\ posts = <<>> /\ waiting = {} /\ opened = 0

\* renderWizardStep: the form is drawn from the draft; the list of clients has
\* no entry for one that is gone, and the owner is the user unless another was.
RenderStep(s, d) ==
    /\ wizardStep' = s /\ screen' = "wizard" /\ declared' = FALSE
    /\ typed' = StepFields(s) \intersect
          ((IF listedClient THEN d ELSE d \ {"client"}) \union {"owner"})

KeepsPosts == UNCHANGED <<posts, waiting, opened>>

OpenWizard ==
    /\ RenderStep(1, {}) /\ draft' = {}
    /\ KeepsPosts /\ UNCHANGED <<listedClient, radar>>

\* radarParaInvestigacao.
FromRadar ==
    /\ radar /\ screen = "closed"
    /\ RenderStep(1, {"title", "scope"}) /\ draft' = {"title", "scope"}
    /\ KeepsPosts /\ UNCHANGED <<listedClient, radar>>

FillField(f) ==
    /\ screen = "wizard" /\ f \in StepFields(wizardStep)
    /\ f = "client" => listedClient
    /\ typed' = IF f \in typed THEN typed \ {f} ELSE typed \union {f}
    /\ KeepsPosts /\ UNCHANGED <<wizardStep, draft, declared, screen, listedClient, radar>>
Declare ==
    /\ screen = "wizard" /\ wizardStep = 4 /\ declared' = ~declared
    /\ KeepsPosts /\ UNCHANGED <<wizardStep, draft, typed, screen, listedClient, radar>>

\* wizardCaptureStep.
Captured == (draft \ StepFields(wizardStep)) \union typed

NextStep(s) == s + 1

WizardNext ==
    /\ screen = "wizard" /\ wizardStep \in 1..3
    /\ draft' = Captured
    /\ IF StepFields(wizardStep) \subseteq typed
       THEN RenderStep(NextStep(wizardStep), Captured)
       ELSE UNCHANGED <<wizardStep, typed, declared, screen>>
    /\ KeepsPosts /\ UNCHANGED <<listedClient, radar>>
WizardBack ==
    /\ screen = "wizard" /\ wizardStep \in 2..4
    /\ draft' = Captured /\ RenderStep(wizardStep - 1, Captured)
    /\ KeepsPosts /\ UNCHANGED <<listedClient, radar>>

\* wizardFinish: the button stays enabled until the answer.
WizardFinish ==
    /\ screen = "wizard" /\ wizardStep = 4 /\ declared
    /\ Len(posts) < MaxInvestigations
    /\ posts' = Append(posts, draft)
    /\ waiting' = waiting \union {Len(posts')}
    /\ UNCHANGED <<wizardStep, draft, typed, declared, screen, listedClient, radar, opened>>

OpensCreated(n) == n

\* The modal is closed whatever it shows, and the desk takes it.
Created(n) ==
    /\ waiting' = waiting \ {n}
    /\ opened' = OpensCreated(n) /\ screen' = "desk"
    /\ UNCHANGED <<wizardStep, draft, typed, declared, listedClient, radar, posts>>
CreationFails(n) ==
    /\ waiting' = waiting \ {n}
    /\ UNCHANGED <<wizardStep, draft, typed, declared, screen, listedClient, radar, posts, opened>>

\* The user closes the window, or another takes its place.
WindowChanges ==
    /\ screen' \in {"closed", "other"} /\ screen' # screen
    /\ KeepsPosts /\ UNCHANGED <<wizardStep, draft, typed, declared, listedClient, radar>>
ReadAgain ==
    /\ \/ listedClient' = ~listedClient /\ UNCHANGED radar
       \/ radar' = ~radar /\ UNCHANGED listedClient
    /\ KeepsPosts /\ UNCHANGED <<wizardStep, draft, typed, declared, screen>>

WizardSteps ==
    \/ OpenWizard \/ FromRadar \/ Declare \/ WizardNext \/ WizardBack \/ WizardFinish
    \/ WindowChanges \/ ReadAgain
    \/ \E f \in AllFields : FillField(f)
    \/ \E n \in waiting : Created(n) \/ CreationFails(n)

(***************************************************************************)
(* Properties.                                                             *)
(***************************************************************************)
\* A request carries every field an investigation must have, also when the user
\* went back and forth, emptied a field on the way, or came from the radar.
PostsAreComplete == \A n \in DOMAIN posts : posts[n] = AllFields

\* What was created is what is opened: only an investigation the API has made.
OpensOnlyCreated == [][opened' # opened => opened' \in waiting /\ opened' \notin waiting']_wizardVars
=============================================================================
