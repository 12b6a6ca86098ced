-------------------------- MODULE InvestigationDesk --------------------------
(***************************************************************************)
(* assets/js/app.js: the desk of one investigation.  Its operations ask     *)
(* for a confirmation, and then work through a chain of requests, several   *)
(* at a time, on lists that a refresh replaces: collections write the       *)
(* answers into the list of runs, a report registers and prints what the    *)
(* lists held.                                                              *)
(***************************************************************************)
EXTENDS Naturals, Sequences, FiniteSets

CONSTANTS
    MaxEntities, \* bound: entities of the investigation
    Sources,     \* sources in the scope of the investigation
    Workers,     \* bound: operations under way together
    MaxRuns      \* bound: rows of the list of runs

VARIABLES
    inv,           \* the investigation: status, listed of the page; stored, live of the API
    entities,      \* entities of the page, and of the API
    osintRuns,     \* DB.osintRuns: rows with task, status, and the finding filed for it
    worker,        \* worker |-> operation, stage, tasks left, its row, what it holds
    dialog,        \* the window: what it shows, the tab, the operation to confirm
    pendingAction, \* billingUiState.pendingAction: the operation it would run
    reports,       \* contents registered in the API, and printed
    together       \* history: a collection met another one, or a refresh

deskVars == <<inv, entities, osintRuns, worker, dialog, pendingAction, reports, together>>

NoOperation == [name |-> "none", entity |-> 0]
NoDialog == [shown |-> "none", tab |-> "overview", op |-> NoOperation]
Resting == [op |-> "none", at |-> "idle", left |-> {}, row |-> 0, held |-> <<>>]

DeskInit ==
    /\ inv = [status |-> "em_coleta", stored |-> "em_coleta", listed |-> TRUE, live |-> TRUE]
    /\ entities = [page |-> {1}, api |-> {1}] /\ osintRuns = <<>>
    /\ worker = [w \in Workers |-> Resting]
    /\ dialog = NoDialog /\ pendingAction = NoOperation
    /\ reports = [registered |-> {}, printed |-> {}] /\ together = FALSE

Collecting == {w \in Workers : worker[w].op \in {"planner", "entity"}}

-----------------------------------------------------------------------------
\* The tabs of the desk, and what each offers while the investigation is open;
\* that of the plan has only the drafts of AnalysisDrafts and the collections.
IsReadOnly == inv.status \in {"concluida", "arquivada"}
OverviewTab == IF IsReadOnly THEN {} ELSE {"planner", "status"}
PlanTab == {}
EntitiesTab == IF IsReadOnly THEN {} ELSE {"form"} \union (IF entities.page = {} THEN {} ELSE {"entity", "drop"})
RunsTab == IF osintRuns = <<>> THEN {} ELSE {"detail"}
ReportTab == {"report"}
Offers == [overview |-> OverviewTab, plano |-> PlanTab, entidades |-> EntitiesTab, coletas |-> RunsTab, relatorio |-> ReportTab]
Offered(name) == dialog.shown = "desk" /\ name \in Offers[dialog.tab]

\* renderWorkspace opens over whatever is shown; without the record it closes.
Workspace(tab) ==
    IF inv.listed THEN [NoDialog EXCEPT !.shown = "desk", !.tab = tab] ELSE NoDialog

OnlyDialog == UNCHANGED <<inv, entities, osintRuns, worker, pendingAction, reports, together>>

OpenDesk ==
    /\ dialog.shown = "none" /\ inv.listed
    /\ OnlyDialog /\ dialog' = Workspace("overview")
SwitchTab(tab) ==
    /\ dialog.shown = "desk" /\ dialog.tab # tab
    /\ OnlyDialog /\ dialog' = Workspace(tab)
\* Closing or cancelling: the operation that was waiting is not forgotten.
CloseDesk ==
    /\ dialog.shown # "none"
    /\ dialog' = [dialog EXCEPT !.shown = "none", !.op = NoOperation] /\ OnlyDialog
ShowRunDetail ==
    /\ Offered("detail") /\ dialog' = [dialog EXCEPT !.shown = "detail"] /\ OnlyDialog
OpenEntityForm ==
    /\ Offered("form") /\ dialog' = [dialog EXCEPT !.shown = "form"] /\ OnlyDialog

-----------------------------------------------------------------------------
Operations ==
    {[name |-> n, entity |-> 0] : n \in {"planner", "report"}}
      \union {[name |-> "entity", entity |-> e] : e \in entities.page}

\* The planner and a report confirmed for the whole investigation.
Tasks(op) ==
    CASE op.name = "planner" -> entities.page \X Sources
      [] op.name = "entity" -> {op.entity} \X Sources
      [] OTHER -> {}

\* openCreditConsumptionModal replaces the operation that was waiting.
AskConfirmation(op) ==
    /\ op \in Operations /\ Offered(op.name)
    /\ op.name = "planner" => Tasks(op) # {}
    /\ pendingAction' = op /\ dialog' = [dialog EXCEPT !.shown = "confirm", !.op = op]
    /\ UNCHANGED <<inv, entities, osintRuns, worker, reports, together>>

\* What the lists of a report hold; the entities stand for the others.
Contents == <<Cardinality(entities.page)>>

\* executePendingBillingAction takes the operation, closes the window and runs it
\* on the lists of now; the user may still refuse the planner's tasks.
Confirm(w) ==
    /\ dialog.shown = "confirm" /\ worker[w] = Resting
    /\ LET op == pendingAction IN
         \/ /\ worker' = [worker EXCEPT ![w] = [Resting EXCEPT !.op = op.name,
                  !.at = IF op.name = "report" THEN "post" ELSE "next",
                  !.left = Tasks(op), !.held = IF op.name = "report" THEN Contents ELSE <<>>]]
            /\ together' = (together \/ (op.name # "report" /\ Collecting # {}))
         \/ op.name = "planner" /\ UNCHANGED <<worker, together>>
    /\ pendingAction' = NoOperation /\ dialog' = [dialog EXCEPT !.shown = "none", !.op = NoOperation]
    /\ UNCHANGED <<inv, entities, osintRuns, reports>>

-----------------------------------------------------------------------------
OnlyWork == UNCHANGED <<inv, dialog, pendingAction, reports, together>>
Running(t) == [task |-> t, status |-> "em_execucao", own |-> TRUE, filed |-> FALSE]
\* The last row of a task that runs; 0 when there is none.
LastRunning(t) ==
    LET S == {i \in 1..Len(osintRuns) : osintRuns[i].status = "em_execucao" /\ osintRuns[i].task = t}
    IN  IF S = {} THEN 0 ELSE CHOOSE i \in S : \A j \in S : j <= i

(* Mutant: the last row is taken for the one that failed, whatever its status. *)
FailedRowAny(w) == Len(osintRuns)

\* The planner marks the last row if it runs, the other the last of its task.
FailedRow(w) ==
    CASE worker[w].op = "planner" ->
           IF osintRuns # <<>> /\ osintRuns[Len(osintRuns)].status = "em_execucao" THEN Len(osintRuns) ELSE 0
      [] worker[w].op = "entity" -> LastRunning(worker[w].held)

Missing(w, t) == worker[w].op = "planner" /\ t[1] \notin entities.page

\* A row is added for the next task; the planner then needs the entity.
Push(w) ==
    /\ worker[w].at = "next" /\ Len(osintRuns) < MaxRuns
    /\ \E t \in worker[w].left :
         /\ osintRuns' = Append(osintRuns, Running(t))
         /\ worker' = [worker EXCEPT ![w].at = IF Missing(w, t) THEN "missing" ELSE "ask",
                                     ![w].left = @ \ {t},
                                     ![w].row = Len(osintRuns) + 1, ![w].held = t]
    /\ OnlyWork /\ UNCHANGED entities

\* The entity is missing, the connector disabled, the run fails or the finding
\* is not filed.
TaskFails(w) ==
    /\ w \in Collecting /\ worker[w].at \in {"missing", "ask", "file"}
    /\ osintRuns' = [i \in 1..Len(osintRuns) |->
          IF i = FailedRow(w) THEN [osintRuns[i] EXCEPT !.status = "erro"] ELSE osintRuns[i]]
    /\ worker' = [worker EXCEPT ![w].at = "next", ![w].row = 0, ![w].held = <<>>]
    /\ OnlyWork /\ UNCHANGED entities

\* osintConnectorExecute answered: the row is the worker's own, listed or not.
RunAnswers(w) ==
    /\ w \in Collecting /\ worker[w].at = "ask"
    /\ osintRuns' = [i \in 1..Len(osintRuns) |->
          IF i = worker[w].row THEN [osintRuns[i] EXCEPT !.status = "ok"] ELSE osintRuns[i]]
    /\ worker' = [worker EXCEPT ![w].at = "file"]
    /\ OnlyWork /\ UNCHANGED entities
FindingFiled(w) ==
    /\ w \in Collecting /\ worker[w].at = "file"
    /\ osintRuns' = [i \in 1..Len(osintRuns) |->
          IF i = worker[w].row THEN [osintRuns[i] EXCEPT !.filed = TRUE] ELSE osintRuns[i]]
    /\ worker' = [worker EXCEPT ![w].at = "next", ![w].row = 0, ![w].held = <<>>]
    /\ OnlyWork /\ UNCHANGED entities
\* The desk comes back on the tab it was.
AllTasksDone(w) ==
    /\ w \in Collecting /\ worker[w].at = "next" /\ worker[w].left = {}
    /\ worker' = [worker EXCEPT ![w] = Resting]
    /\ UNCHANGED <<inv, entities, osintRuns, pendingAction, reports, together>>
    /\ dialog' = Workspace(dialog.tab)

-----------------------------------------------------------------------------
\* refreshBackendBootstrap: the lists are the API's; rows the page made are gone,
\* and workers go on with a row no list holds.
ListsReadAgain(live) ==
    /\ inv' = [inv EXCEPT !.status = inv.stored, !.live = live, !.listed = live]
    /\ entities' = [entities EXCEPT !.page = entities.api]
    /\ \E rows \in {<<>>} \union {<<[Running(<<1, 1>>) EXCEPT !.own = FALSE, !.status = st]>> :
                                    st \in {"em_execucao", "ok"}} : osintRuns' = rows
    /\ together' = (together \/ Collecting # {})
Forget == [v \in Workers |-> [worker[v] EXCEPT !.row = 0]]

OtherRefresh ==
    /\ ListsReadAgain(inv.live) /\ worker' = Forget
    /\ UNCHANGED <<dialog, pendingAction, reports>>

\* The page to print was made before the report was registered.
Printed(w) == worker[w].held

\* POST /reports; its answer may be lost, and the print window may be blocked.
RegisterReport(w) ==
    /\ worker[w].at = "post" /\ inv.live
    /\ reports' = [reports EXCEPT !.registered = @ \union {worker[w].held}]
    /\ worker' = [worker EXCEPT ![w] = IF worker[w].op = "report" THEN [@ EXCEPT !.at = "read"] ELSE @]
    /\ UNCHANGED <<inv, entities, osintRuns, dialog, pendingAction, together>>
PrintReport(w) ==
    /\ worker[w].op = "report" /\ worker[w].at = "read"
    /\ ListsReadAgain(inv.live) /\ worker' = [Forget EXCEPT ![w] = Resting]
    /\ \/ reports' = [reports EXCEPT !.printed = @ \union {Printed(w)}]
       \/ UNCHANGED reports
    /\ UNCHANGED <<dialog, pendingAction>>

-----------------------------------------------------------------------------
Sends(w, op, held) ==
    /\ worker[w] = Resting
    /\ worker' = [worker EXCEPT ![w] = [Resting EXCEPT !.op = op, !.at = "sent", !.held = held]]
    /\ UNCHANGED <<inv, entities, osintRuns, dialog, pendingAction, reports, together>>
WorkEnds(w, op) == worker[w].op = op /\ worker' = [worker EXCEPT ![w] = Resting]

\* A request may be carried out and its answer lost.
UpdateStatus(w, s) == Offered("status") /\ Sends(w, "status", <<s>>)
StatusUpdated(w) ==
    /\ WorkEnds(w, "status") /\ inv.live
    /\ \/ /\ inv' = [inv EXCEPT !.status = worker[w].held[1], !.stored = worker[w].held[1]]
          /\ dialog' = Workspace(dialog.tab)
       \/ inv' = [inv EXCEPT !.stored = worker[w].held[1]] /\ UNCHANGED dialog
    /\ UNCHANGED <<entities, osintRuns, pendingAction, reports, together>>

\* saveEntity reads half of the fields before a digest and half after it.
SaveEntity(w) == dialog.shown = "form" /\ Sends(w, "form", <<>>)
ReadEntityForm(w) ==
    /\ worker[w].op = "form" /\ worker[w].at = "sent"
    /\ worker' = IF dialog.shown = "form" THEN [worker EXCEPT ![w].at = "posted"]
                                          ELSE [worker EXCEPT ![w] = Resting]
    /\ UNCHANGED <<inv, entities, osintRuns, dialog, pendingAction, reports, together>>
EntitySaved(w) ==
    /\ worker[w].at = "posted" /\ WorkEnds(w, "form") /\ inv.live
    /\ \E e \in 1..MaxEntities \ entities.api :
            \/ entities' = [page |-> entities.page \union {e}, api |-> entities.api \union {e}]
               /\ dialog' = Workspace(dialog.tab)
            \/ entities' = [entities EXCEPT !.api = @ \union {e}] /\ UNCHANGED dialog
    /\ UNCHANGED <<inv, osintRuns, pendingAction, reports, together>>
\* The button of an entity takes it from the page's list only.
DropEntity(e) ==
    /\ Offered("drop") /\ entities' = [entities EXCEPT !.page = @ \ {e}] /\ e \in entities.page
    /\ UNCHANGED <<inv, osintRuns, worker, pendingAction, reports, together>>
    /\ dialog' = Workspace(dialog.tab)

DeleteInvestigation(w) == dialog.shown = "none" /\ inv.listed /\ Sends(w, "delete", <<>>)
InvestigationDeleted(w) ==
    /\ worker[w].op = "delete" /\ worker[w].at = "sent"
    /\ \/ ListsReadAgain(FALSE) /\ worker' = [Forget EXCEPT ![w] = Resting]
       \/ /\ inv' = [inv EXCEPT !.live = FALSE] /\ WorkEnds(w, "delete")
          /\ UNCHANGED <<entities, osintRuns, together>>
    /\ UNCHANGED <<dialog, pendingAction, reports>>
RequestRefused(w) ==
    /\ \/ worker[w].at \in {"post", "read", "posted"}
       \/ worker[w].at = "sent" /\ worker[w].op # "form"
    /\ worker' = [worker EXCEPT ![w] = Resting]
    /\ UNCHANGED <<inv, entities, osintRuns, dialog, pendingAction, reports, together>>

-----------------------------------------------------------------------------
Windows(tabs) == OpenDesk \/ CloseDesk \/ \E tab \in tabs : SwitchTab(tab)

\* Collections, with whatever else replaces the lists.
CollectNext ==
    \/ Windows({"overview", "entidades"}) \/ OtherRefresh
    \/ \E op \in Operations : op.name # "report" /\ AskConfirmation(op)
    \/ DropEntity(1)
    \/ \E w \in Workers :
         Confirm(w) \/ Push(w) \/ TaskFails(w) \/ RunAnswers(w) \/ FindingFiled(w) \/ AllTasksDone(w)

\* Reports, on lists that change.
ReportNext ==
    \/ Windows({"overview", "entidades", "relatorio"}) \/ OtherRefresh
    \/ \E op \in Operations : op.name = "report" /\ AskConfirmation(op)
    \/ DropEntity(1)
    \/ \E w \in Workers : Confirm(w) \/ RegisterReport(w) \/ PrintReport(w) \/ RequestRefused(w)

\* The investigation, its entities, and the two operations' confirmations.
DeskNext ==
    \/ Windows({"overview", "plano", "entidades", "coletas"}) \/ ShowRunDetail \/ OpenEntityForm \/ OtherRefresh
    \/ \E op \in Operations : AskConfirmation(op)
    \/ \E w \in Workers :
         \/ StatusUpdated(w) \/ SaveEntity(w) \/ ReadEntityForm(w) \/ EntitySaved(w)
         \/ DeleteInvestigation(w) \/ InvestigationDeleted(w) \/ RequestRefused(w)
         \/ \E s \in {"concluida"} : UpdateStatus(w, s)

-----------------------------------------------------------------------------
\* The button Confirmar of a confirmation on screen runs what that confirmation
\* is about, whatever was asked and cancelled before.
ConfirmsWhatIsShown == dialog.shown = "confirm" => pendingAction = dialog.op

\* A run whose finding was filed is shown as done, whatever other collections
\* fail around it (both error handlers search the list for a row to mark).
FiledStaysOk == \A i \in 1..Len(osintRuns) : osintRuns[i].filed => osintRuns[i].status = "ok"

\* When nothing is being collected, no row of the page is left running, unless a
\* collection met another one or a refresh: then the wrong row may be marked.
NothingLeftRunning ==
    Collecting = {} /\ ~together =>
        \A i \in 1..Len(osintRuns) : osintRuns[i].own => osintRuns[i].status # "em_execucao"

\* What is printed as the registered report is what was registered.
PrintedIsRegistered == reports.printed \subseteq reports.registered

\* The desk does what was confirmed, and shows what became of it.
DeskSafety == ConfirmsWhatIsShown /\ FiledStaysOk /\ NothingLeftRunning /\ PrintedIsRegistered
=============================================================================
