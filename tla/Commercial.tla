------------------------------ MODULE Commercial ------------------------------
(***************************************************************************)
(* assets/js/commercial.js and public.js: the catalog of plans, read once  *)
(* for the public page and for the section of the workspace, and the       *)
(* dialogs in which a selection is made, reviewed and taken back.          *)
(***************************************************************************)
EXTENDS Integers, FiniteSets, FiniteSetsExt

CONSTANTS
    Plans,         \* plans of the catalog
    Addons,        \* its monthly additions
    Price,         \* Price[a]: of an addition, in cents
    Packages,      \* its packages: a set of keys for each of the two kinds
    RawQuantities, \* what may stand in a quantity field, in tenths
    MaxQuantity    \* 100 in the code

ASSUME CatalogAssumption ==
    /\ Price \in [Addons -> Nat] /\ RawQuantities \subseteq Int /\ MaxQuantity \in Nat
    /\ DOMAIN Packages \intersect {"none", "addons", "addonSummary"} = {}

VARIABLES
    catalogPage,   \* the page that is loaded: none yet, public or workspace
    catalog,       \* catalog: it was read
    attempt,       \* of the shared promise loading: the attempt, 0 for null
    view,          \* what the plans of the page show
    chosenPlan,    \* public page: the plan in the summary, or "none"
    dialogue,      \* the dialog of the workspace that is open
    quantities,    \* of the additions dialog
    total,         \* the total that is shown
    selectedKey,   \* of the packages dialog
    wanted,        \* history: quantities entered since the dialog was opened from the panel
    picked         \* history: the package picked since then

commercialVars == <<catalogPage, catalog, attempt, view, chosenPlan, dialogue,
                    quantities, total, selectedKey, wanted, picked>>
dialogVars == <<dialogue, quantities, total, selectedKey, wanted, picked>>

NoQuantities == [a \in Addons |-> 0]
Kinds2 == DOMAIN Packages

CommercialInit ==
    /\ catalogPage = "none" /\ catalog = FALSE /\ attempt = 0
    /\ view = "none" /\ chosenPlan = "none"
    /\ dialogue = "none" /\ quantities = NoQuantities /\ total = 0 /\ selectedKey = "none"
    /\ wanted = NoQuantities /\ picked = "none"

\* loadCatalog: whoever asks while a request is on its way waits for that one.
LoadCatalog == attempt' = IF attempt = 0 THEN 1 ELSE attempt

\* The public page loads the plans at once.
OpenPublicPage ==
    /\ catalogPage = "none" /\ catalogPage' = "public"
    /\ view' = "loading" /\ LoadCatalog
    /\ UNCHANGED <<catalog, chosenPlan, dialogVars>>

\* The workspace is entered: another page, with its own catalog.
EnterApplication ==
    /\ catalogPage = "public" /\ catalogPage' = "workspace"
    /\ catalog' = FALSE /\ attempt' = 0 /\ view' = "none" /\ chosenPlan' = "none"
    /\ UNCHANGED dialogVars

\* The section is opened: the overview at once when the catalog is there.
MountCommercial ==
    /\ catalogPage = "workspace" /\ dialogue = "none"
    /\ IF catalog THEN view' = "overview" /\ UNCHANGED attempt
       ELSE view' = "loading" /\ LoadCatalog
    /\ UNCHANGED <<catalogPage, catalog, chosenPlan, dialogVars>>

\* Another section: the panel is gone, its request goes on.
LeaveCommercial ==
    /\ catalogPage = "workspace" /\ view # "none" /\ dialogue = "none"
    /\ view' = "none"
    /\ UNCHANGED <<catalogPage, catalog, attempt, chosenPlan, dialogVars>>

RetryCatalog ==
    /\ view = "error"
    /\ view' = "loading" /\ LoadCatalog
    /\ UNCHANGED <<catalogPage, catalog, chosenPlan, dialogVars>>

CatalogComes ==
    /\ attempt > 0
    /\ catalog' = TRUE /\ attempt' = 0
    /\ view' = IF view = "loading" THEN "overview" ELSE view
    /\ UNCHANGED <<catalogPage, chosenPlan, dialogVars>>

LastAttempt == attempt = 2

\* No answer in 8 seconds, an error, or a catalog validateCatalog refuses.
CatalogFails ==
    /\ attempt > 0
    /\ IF LastAttempt
       THEN attempt' = 0 /\ view' = IF view = "loading" THEN "error" ELSE view
       ELSE attempt' = 2 /\ UNCHANGED view
    /\ UNCHANGED <<catalogPage, catalog, chosenPlan, dialogVars>>

\* Public page: a plan is presented.
ChoosePublicPlan(plan) ==
    /\ catalogPage = "public" /\ view = "overview"
    /\ chosenPlan' = plan
    /\ UNCHANGED <<catalogPage, catalog, attempt, view, dialogVars>>

(***************************************************************************)
(* The dialogs.                                                            *)
(***************************************************************************)
Rest == UNCHANGED <<catalogPage, catalog, attempt, view, chosenPlan>>

Total(q) == MapThenSumSet(LAMBDA a : Price[a] * q[a], Addons)

\* The number of a field as the code takes it: toward zero, within its limits.
NormalizeQuantity(raw) ==
    IF raw < 0 THEN 0 ELSE Min({MaxQuantity, raw \div 10})

\* From the panel; every dialog starts empty.
OpenDialog(d) ==
    /\ view = "overview" /\ catalogPage = "workspace" /\ dialogue = "none"
    /\ dialogue' = d
    /\ quantities' = NoQuantities /\ total' = Total(NoQuantities) /\ selectedKey' = "none"
    /\ wanted' = NoQuantities /\ picked' = "none"
    /\ Rest

CloseDialog ==
    /\ dialogue # "none" /\ dialogue' = "none"
    /\ Rest /\ UNCHANGED <<quantities, total, selectedKey, wanted, picked>>

OpenPlanSummary(plan) ==
    /\ dialogue = "plans"
    /\ dialogue' = "planSummary" /\ selectedKey' = plan /\ picked' = plan
    /\ Rest /\ UNCHANGED <<quantities, total, wanted>>

BackToPlans ==
    /\ dialogue = "planSummary"
    /\ dialogue' = "plans" /\ selectedKey' = "none" /\ picked' = "none"
    /\ Rest /\ UNCHANGED <<quantities, total, wanted>>

EnterQuantity(a, raw) ==
    /\ dialogue = "addons"
    /\ quantities' = [quantities EXCEPT ![a] = NormalizeQuantity(raw)]
    /\ total' = Total(quantities')
    /\ wanted' = [wanted EXCEPT ![a] = Max({0} \union {q \in 0..MaxQuantity : 10 * q <= raw})]
    /\ Rest /\ UNCHANGED <<dialogue, selectedKey, picked>>

ReviewAddons ==
    /\ dialogue = "addons" /\ \E a \in Addons : quantities[a] > 0
    /\ dialogue' = "addonSummary" /\ total' = Total(quantities)
    /\ Rest /\ UNCHANGED <<quantities, selectedKey, wanted, picked>>

PreviousQuantities == quantities

BackToAddons ==
    /\ dialogue = "addonSummary"
    /\ dialogue' = "addons" /\ quantities' = PreviousQuantities
    /\ total' = Total(quantities')
    /\ Rest /\ UNCHANGED <<selectedKey, wanted, picked>>

PickPackage(kind, key) ==
    /\ dialogue = kind /\ key \in Packages[kind]
    /\ selectedKey' = key /\ picked' = key
    /\ Rest /\ UNCHANGED <<dialogue, quantities, total, wanted>>

ReviewPackage(kind) ==
    /\ dialogue = kind /\ selectedKey \in Packages[kind]
    /\ dialogue' = "packageSummary"
    /\ Rest /\ UNCHANGED <<quantities, total, selectedKey, wanted, picked>>

\* openPackages(kind, selectedKey) again.
BackToPackages(kind) ==
    /\ dialogue = "packageSummary" /\ selectedKey \in Packages[kind]
    /\ dialogue' = kind
    /\ Rest /\ UNCHANGED <<quantities, total, selectedKey, wanted, picked>>

CommercialNext ==
    \/ OpenPublicPage \/ EnterApplication \/ MountCommercial \/ LeaveCommercial
    \/ RetryCatalog \/ CatalogComes \/ CatalogFails
    \/ \E plan \in Plans : ChoosePublicPlan(plan) \/ OpenPlanSummary(plan)
    \/ \E d \in {"plans", "addons"} \union Kinds2 : OpenDialog(d)
    \/ CloseDialog \/ BackToPlans \/ ReviewAddons \/ BackToAddons
    \/ \E a \in Addons, raw \in RawQuantities : EnterQuantity(a, raw)
    \/ \E kind \in Kinds2 : ReviewPackage(kind) \/ BackToPackages(kind)
    \/ \E kind \in Kinds2 : \E key \in Packages[kind] : PickPackage(kind, key)

\* requestCatalog gives up after 8 seconds.
CommercialFairness == WF_commercialVars(CatalogFails)

(***************************************************************************)
(* Properties.                                                             *)
(***************************************************************************)
\* What the dialogs show is what was entered or picked since they were opened,
\* through every review and way back: quantities within the limits of the
\* catalog, their total, and the package.
SelectionIsKept ==
    /\ dialogue \in {"addons", "addonSummary"} => quantities = wanted /\ total = Total(wanted)
    /\ dialogue # "none" => selectedKey = picked
=============================================================================
