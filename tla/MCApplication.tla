---------------------------- MODULE MCApplication ----------------------------
(***************************************************************************)
(* Instances of the modules of the application for TLC.  A behaviour       *)
(* follows one page or screen, the scene, from its first state; the others *)
(* stay in theirs, where no fair action is enabled.                        *)
(***************************************************************************)
EXTENDS QueryPanels, AuthPage, AuditView, Commercial, CheckoutPanel,
        IntegrationPanels, Interface, InvestigationWizard, RecordViews,
        CompanyRadar, AnalysisDrafts, FileAnalysis

CONSTANT Scenes

MCEntryAmount == [e \in EntryIds |-> e]
MCMonthDays == <<31, 28, 31, 30>>

MCPrice == [a \in Addons |-> IF a = "seats" THEN 3990 ELSE 12]
MCPackages == [credits |-> {"c100", "c500"}, recharges |-> {"r50"}]
MCRawQuantities == {-5, 0, 10, 25, 1050}

VARIABLE scene

Init ==
    /\ scene \in Scenes
    /\ JobInit /\ PanelsInit /\ AuthInit /\ AuditInit /\ CommercialInit /\ CheckoutInit
    /\ IntegrationInit /\ InterfaceInit /\ WizardInit /\ ViewsInit /\ RadarInit
    /\ DraftsInit /\ FilesInit
    \* Only the path moves the address: the other scenes are seen at one.
    /\ scene = "path" \/ path = <<Home>>

Next ==
    /\ UNCHANGED scene
    /\ \/ /\ scene = "jobs" /\ JobNext
          /\ UNCHANGED <<panelsVars, authVars, auditVars, commercialVars, checkoutVars,
                        integrationVars, interfaceVars, wizardVars, viewVars, radarVars,
                        draftVars, fileVars>>
       \/ /\ scene = "query" /\ QueryNext
          /\ UNCHANGED <<authVars, auditVars, commercialVars, checkoutVars, integrationVars,
                        interfaceVars, wizardVars, viewVars, radarVars, draftVars, fileVars>>
       \/ /\ scene = "transparency" /\ TransparencyNext
          /\ UNCHANGED <<authVars, auditVars, commercialVars, checkoutVars, integrationVars,
                        interfaceVars, wizardVars, viewVars, radarVars, draftVars, fileVars>>
       \/ /\ scene = "auth" /\ AuthNext
          /\ UNCHANGED <<jobVars, panelsVars, auditVars, commercialVars, checkoutVars,
                        integrationVars, interfaceVars, wizardVars, viewVars, radarVars,
                        draftVars, fileVars>>
       \/ /\ scene = "audit" /\ AuditNext
          /\ UNCHANGED <<jobVars, panelsVars, authVars, commercialVars, checkoutVars,
                        integrationVars, interfaceVars, wizardVars, viewVars, radarVars,
                        draftVars, fileVars>>
       \/ /\ scene = "commercial" /\ CommercialNext
          /\ UNCHANGED <<jobVars, panelsVars, authVars, auditVars, checkoutVars, integrationVars,
                        interfaceVars, wizardVars, viewVars, radarVars, draftVars, fileVars>>
       \/ /\ scene = "checkout" /\ CheckoutNext
          /\ UNCHANGED <<jobVars, panelsVars, authVars, auditVars, commercialVars,
                        integrationVars, interfaceVars, wizardVars, viewVars, radarVars,
                        draftVars, fileVars>>
       \/ /\ scene = "agents" /\ AgentsNext
          /\ UNCHANGED <<jobVars, panelsVars, authVars, auditVars, commercialVars, checkoutVars,
                        interfaceVars, wizardVars, viewVars, radarVars, draftVars, fileVars>>
       \/ /\ scene = "lists" /\ ListsNext
          /\ UNCHANGED <<jobVars, panelsVars, authVars, auditVars, commercialVars, checkoutVars,
                        interfaceVars, wizardVars, viewVars, radarVars, draftVars, fileVars>>
       \/ /\ scene = "page" /\ PageNext
          /\ UNCHANGED <<jobVars, panelsVars, authVars, auditVars, commercialVars, checkoutVars,
                        integrationVars, wizardVars, viewVars, radarVars, draftVars, fileVars>>
       \/ /\ scene = "path" /\ PathNext
          /\ UNCHANGED <<jobVars, panelsVars, authVars, auditVars, commercialVars, checkoutVars,
                        integrationVars, wizardVars, viewVars, radarVars, draftVars, fileVars>>
       \/ /\ scene = "prefs" /\ PrefNext
          /\ UNCHANGED <<jobVars, panelsVars, authVars, auditVars, commercialVars, checkoutVars,
                        integrationVars, wizardVars, viewVars, radarVars, draftVars, fileVars>>
       \/ /\ scene = "wizard" /\ WizardSteps
          /\ UNCHANGED <<jobVars, panelsVars, authVars, auditVars, commercialVars, checkoutVars,
                        integrationVars, interfaceVars, viewVars, radarVars, draftVars, fileVars>>
       \/ /\ scene = "calendar" /\ CalendarNext
          /\ UNCHANGED <<jobVars, panelsVars, authVars, auditVars, commercialVars, checkoutVars,
                        integrationVars, interfaceVars, wizardVars, radarVars, draftVars,
                        fileVars>>
       \/ /\ scene = "inbox" /\ InboxNext
          /\ UNCHANGED <<jobVars, panelsVars, authVars, auditVars, commercialVars, checkoutVars,
                        integrationVars, interfaceVars, wizardVars, radarVars, draftVars,
                        fileVars>>
       \/ /\ scene = "money" /\ MoneyNext
          /\ UNCHANGED <<jobVars, panelsVars, authVars, auditVars, commercialVars, checkoutVars,
                        integrationVars, interfaceVars, wizardVars, radarVars, draftVars,
                        fileVars>>
       \/ /\ scene = "board" /\ BoardNext
          /\ UNCHANGED <<jobVars, panelsVars, authVars, auditVars, commercialVars, checkoutVars,
                        integrationVars, interfaceVars, wizardVars, radarVars, draftVars,
                        fileVars>>
       \/ /\ scene = "radar" /\ RadarNext
          /\ UNCHANGED <<jobVars, panelsVars, authVars, auditVars, commercialVars, checkoutVars,
                        integrationVars, interfaceVars, wizardVars, viewVars, draftVars,
                        fileVars>>
       \/ /\ scene = "drafts" /\ DraftsNext
          /\ UNCHANGED <<jobVars, panelsVars, authVars, auditVars, commercialVars, checkoutVars,
                        integrationVars, interfaceVars, wizardVars, viewVars, radarVars,
                        fileVars>>
       \/ /\ scene = "files" /\ FilesNext
          /\ UNCHANGED <<jobVars, panelsVars, authVars, auditVars, commercialVars, checkoutVars,
                        integrationVars, interfaceVars, wizardVars, viewVars, radarVars,
                        draftVars>>

vars == <<scene, jobVars, panelsVars, authVars, auditVars, commercialVars,
          checkoutVars, integrationVars, interfaceVars, wizardVars, viewVars,
          radarVars, draftVars, fileVars>>

Spec ==
    /\ Init /\ [][Next]_vars
    /\ JobFairness /\ AuthFairness /\ AuditFairness /\ CommercialFairness
    /\ IntegrationFairness /\ ViewsFairness /\ FilesFairness

\* What is sent is what was chosen: a selection of plans and quantities, one
\* order for a plan, every field of an investigation.
SendsWhatWasChosen == SelectionIsKept /\ OneOrderPerPlan /\ PostsAreComplete

\* What the panels of the public queries and of the integrations say is true of
\* the run they are about.
PanelsAreTrue == PanelSafety /\ IntegrationSafety

\* What the pages show of the records (looked at where a scene changes them: it
\* is the longest to evaluate), the rows of the ledger of its filters, the radar
\* of what it asked, the desk of the drafts it keeps, the list of files of its own.
ScreensAgree ==
    /\ scene \in {"calendar", "inbox", "money", "board"} => RecordsAgree
    /\ RowsFitFilters /\ RadarSafety /\ DraftsSafety /\ FilesSafety

\* What no step of a page does: overrule the end of a follow, lose the section
\* asked for, show an older list, refuse the page's own order, send an analysis
\* twice, lose the focus, open an investigation that was not created.
StepsAreOrderly ==
    /\ StoppedIsFinal /\ LandsWhereAsked /\ ListNeverGoesBack /\ OwnOrderIsFound
    /\ OneAnalysisFollowed /\ FocusComesBack /\ OpensOnlyCreated

Waiting ==
    \/ phase # "idle" \/ busy \/ loading \/ verifying \/ view = "loading" \/ step # "idle"
    \/ bell # Announced \/ \E b \in 1..MaxBatches : UnderWay(b)

\* Whatever a page makes its user wait for comes to an end, whichever answers
\* are lost: a follow, an account request, the ledger, the catalog, an analysis,
\* a batch of files, and the bell that does not yet show what is due.
WaitsEnd == Waiting ~> ~Waiting
=============================================================================
