----------------------------- MODULE RecordForms -----------------------------
(***************************************************************************)
(* assets/js/legal-forms.js and the forms of app.js: what a form of the    *)
(* legal workspace lets through to the API.  enhance gives the fields      *)
(* their constraints and keeps client and process, type and status in      *)
(* step; the browser's validation precedes every save.  Texts and dates    *)
(* are filled in or not.                                                   *)
(***************************************************************************)
EXTENDS Naturals, FiniteSets

CONSTANTS
    Customers,      \* clients of the records
    Cases,          \* processes of the records
    NoLink          \* nothing is chosen in a list

\* A process has a client.
ASSUME FormAssumption == NoLink \notin Cases /\ (Cases # {} => Customers # {})

VARIABLES
    form,           \* the form that is open
    holder,          \* the client of each process, as DB has it
    sent,           \* what the last save sent
    display           \* the status DB shows of it once it is saved

recordFormVars == <<form, holder, sent, display>>

\* The fields of a form the properties tell apart.
FieldsOf(action) ==
    CASE action = "saveClient" -> {"name", "document"}
      [] action = "saveProcess" -> {"number"}
      [] action \in {"saveDeadline", "saveAppointment"} -> {"title", "date"}
      [] action = "saveIntimation" -> {"content", "date"}
      [] action = "saveFinancial" -> {"description", "date", "amount"}
      [] OTHER -> {"description", "date"}

\* All of them are required.
Required(action) == FieldsOf(action)

\* The lists of a form.
HasClient == {"saveProcess", "saveAppointment", "saveFinancial"}
HasProcess == {"saveDeadline", "saveAppointment", "saveIntimation", "saveFinancial"}

FormStatuses(action) ==
    CASE action = "saveClient" -> {"ativo", "atencao", "inativo"}
      [] action = "saveProcess" -> {"ativo", "critico", "arquivado"}
      [] action = "saveDeadline" -> {"pendente", "concluido"}
      [] action = "saveAppointment" -> {"confirmado", "pendente", "concluido", "cancelado"}
      [] action = "saveIntimation" -> {"recebida", "triagem", "associada", "concluida"}
      [] action = "saveFinancial" -> {"previsto", "recebido", "pago", "vencido"}
      [] OTHER -> {"none"}

Types(action) == IF action = "saveFinancial" THEN {"receita", "despesa"} ELSE {"none"}

NoRecordForm == [action |-> "none", filled |-> {}, extras |-> {}, type |-> "none"]
NothingSent == [action |-> "none"]

FormInit ==
    /\ holder = [p \in Cases |-> CHOOSE c \in Customers : TRUE]
    /\ form = NoRecordForm /\ sent = NothingSent /\ display = "none"

(***************************************************************************)
(* enhance: the client follows the process, the status the type.           *)
(***************************************************************************)
AlignClient(f) ==
    IF {f.action} \subseteq HasClient \intersect HasProcess /\ f.process # NoLink
    THEN [f EXCEPT !.client = f.known[f.process]] ELSE f

Unfit(type) == CASE type = "receita" -> {"pago"} [] type = "despesa" -> {"recebido"} [] OTHER -> {}

AlignStatus(f) ==
    IF f.status \in Unfit(f.type)
    THEN [f EXCEPT !.status = IF f.type = "receita" THEN "recebido" ELSE "pago"] ELSE f

(* Mutant: the form is aligned only when something is chosen. *)
EnhanceLater(f) == f

Enhance(f) == AlignStatus(AlignClient(f))

(***************************************************************************)
(* The forms, each with the values it starts from: those of a new record,  *)
(* or the record DB holds, which may be older than a change of its process.*)
(***************************************************************************)
Opened(action, filled, type, status, client, process) ==
    /\ form.action = "none"
    /\ form' = Enhance([action |-> action, known |-> holder, filled |-> filled, extras |-> {}, type |-> type,
                        status |-> status, client |-> client, process |-> process])
    /\ sent' = NothingSent /\ display' = "none"
    /\ UNCHANGED holder

Links(S) == S \union {NoLink}

OpenClientForm ==
    \/ Opened("saveClient", {}, "none", "ativo", NoLink, NoLink)
    \/ \E s \in FormStatuses("saveClient") : Opened("saveClient", {"name", "document"}, "none", s, NoLink, NoLink)
OpenProcessForm ==
    \/ Opened("saveProcess", {}, "none", "ativo", NoLink, NoLink)
    \/ \E s \in FormStatuses("saveProcess"), c \in Customers : Opened("saveProcess", {"number"}, "none", s, c, NoLink)
\* The list of processes has no empty choice: the first one stands for none.
OpenDeadlineForm ==
    \/ \E p \in Cases : Opened("saveDeadline", {"date"}, "none", "pendente", NoLink, p)
    \/ \E s \in FormStatuses("saveDeadline"), p \in Cases : Opened("saveDeadline", {"title", "date"}, "none", s, NoLink, p)
OpenAppointmentForm ==
    \/ Opened("saveAppointment", {"date"}, "none", "confirmado", NoLink, NoLink)
    \/ \E c \in Links(Customers), p \in Links(Cases) :
          Opened("saveAppointment", {"title", "date"}, "none", "pendente", c, p)
OpenIntimationForm ==
    \/ Opened("saveIntimation", {"date"}, "none", "triagem", NoLink, NoLink)
    \/ \E s \in FormStatuses("saveIntimation"), p \in Links(Cases) :
          Opened("saveIntimation", {"content", "date"}, "none", s, NoLink, p)
OpenFinancialForm ==
    \/ Opened("saveFinancial", {"date"}, "receita", "previsto", NoLink, NoLink)
    \/ \E t \in {"receita", "despesa"}, s \in FormStatuses("saveFinancial"), c \in Links(Customers), p \in Links(Cases) :
          s \notin Unfit(t) /\ Opened("saveFinancial", {"description", "date", "amount"}, t, s, c, p)
OpenMovementForm ==
    \/ Opened("saveMovement", {"date"}, "none", "none", NoLink, NoLink)
    \/ Opened("saveMovement", {"description", "date"}, "none", "none", NoLink, NoLink)
LancarIntimacao ==
    Opened("confirmLancamentoIntimacao", {"description", "date", "deadlineTitle", "appointmentTitle"}, "none", "none", NoLink, NoLink)

(***************************************************************************)
(* Editing.                                                                *)
(***************************************************************************)
ExtraFields(e) == IF e = "deadline" THEN {"deadlineTitle", "deadlineDate"} ELSE {"appointmentTitle", "appointmentDate"}

Needed(f) == Required(f.action) \union UNION {ExtraFields(e) : e \in f.extras}

Change(f) == form' = f /\ UNCHANGED <<holder, sent, display>>

FillIn ==
    \E field \in FieldsOf(form.action) \union UNION {ExtraFields(e) : e \in form.extras} :
        /\ form.action # "none"
        /\ Change([form EXCEPT !.filled = IF field \in @ THEN @ \ {field} ELSE @ \union {field}])
ChooseStatus ==
    \E s \in FormStatuses(form.action) \ Unfit(form.type) : form.action # "none" /\ Change([form EXCEPT !.status = s])

ChangedType(t) == AlignStatus([form EXCEPT !.type = t])

ChooseType == form.action = "saveFinancial" /\ \E t \in Types("saveFinancial") : Change(ChangedType(t))
\* The list is disabled while a process decides.
ChooseClient ==
    /\ form.action \in HasClient
    /\ form.action \in HasProcess => form.process = NoLink
    /\ \E c \in Links(Customers) : Change([form EXCEPT !.client = c])
ChooseProcess ==
    /\ form.action \in HasProcess
    /\ \E p \in IF form.action = "saveDeadline" THEN Cases ELSE Links(Cases) :
          Change(AlignClient([form EXCEPT !.process = p]))
\* The optional parts of a launch.
ToggleExtra ==
    /\ form.action = "confirmLancamentoIntimacao"
    /\ \E e \in {"deadline", "appointment"} :
          Change([form EXCEPT !.extras = IF e \in @ THEN @ \ {e} ELSE @ \union {e}])
LeaveForm == form.action # "none" /\ form' = NoRecordForm /\ UNCHANGED <<holder, sent, display>>

\* Another process is moved to another client, by someone else or before.
RecordsChange ==
    \E p \in Cases, c \in Customers :
        /\ holder[p] # c /\ holder' = [holder EXCEPT ![p] = c]
        /\ UNCHANGED <<form, sent, display>>

(***************************************************************************)
(* The saves and the words of the API.                                     *)
(***************************************************************************)
Words ==
    {<<"saveDeadline", "pendente", "pending">>, <<"saveDeadline", "concluido", "completed">>,
     <<"saveIntimation", "recebida", "received">>, <<"saveIntimation", "triagem", "triage">>,
     <<"saveIntimation", "associada", "associated">>, <<"saveIntimation", "concluida", "concluded">>,
     <<"saveAppointment", "confirmado", "confirmed">>, <<"saveAppointment", "pendente", "pending">>,
     <<"saveAppointment", "concluido", "completed">>, <<"saveAppointment", "cancelado", "cancelled">>}
FinancialWords ==
    {<<"saveFinancial", "previsto", "forecast">>, <<"saveFinancial", "vencido", "overdue">>,
     <<"saveFinancial", "recebido", "received">>, <<"saveFinancial", "pago", "paid">>}

Translated(W, action, s) ==
    IF \E w \in W : w[1] = action /\ w[2] = s THEN (CHOOSE w \in W : w[1] = action /\ w[2] = s)[3] ELSE s
Back(W, action, s) ==
    IF \E w \in W : w[1] = action /\ w[3] = s THEN (CHOOSE w \in W : w[1] = action /\ w[3] = s)[2] ELSE s

MapApiStatus(action, s) == Translated(Words, action, s)

\* DB shows the translated answer of deadlines and intimations, of the others
\* what was sent.
ShownStatus(action, s, stored) ==
    IF action \in {"saveDeadline", "saveIntimation"} THEN Back(Words, action, stored) ELSE s

\* The API accepts the words of the pages for the financial entries.
ApiStatus(action, s) == Translated(FinancialWords, action, MapApiStatus(action, s))

\* The wrapper and the validation of the browser, then the handler.
Save(action, status) ==
    /\ form.action = action
    /\ Needed(form) \subseteq form.filled
    /\ sent' = [form EXCEPT !.status = status]
    /\ \/ form' = NoRecordForm /\ display' = ShownStatus(action, status, ApiStatus(action, status))
       \/ UNCHANGED <<form, display>>                                  \* refused, or no answer
    /\ UNCHANGED holder

SaveClient == {"name", "document"} \subseteq form.filled /\ Save("saveClient", form.status)
SaveProcess == form.action = "saveProcess" /\ form.client # NoLink /\ Save("saveProcess", form.status)
SaveDeadline == {"title", "date"} \subseteq form.filled /\ Save("saveDeadline", form.status)
SaveAppointment == {"title", "date"} \subseteq form.filled /\ Save("saveAppointment", form.status)
SaveIntimation ==
    /\ "content" \in form.filled /\ form.action = "saveIntimation"
    /\ Save("saveIntimation",
            IF form.process # NoLink /\ form.status = "triagem" THEN "associada" ELSE form.status)
SaveFinancial == {"description", "amount"} \subseteq form.filled /\ Save("saveFinancial", form.status)
SaveMovement == {"description", "date"} \subseteq form.filled /\ Save("saveMovement", "none")
ConfirmLaunch == Save("confirmLancamentoIntimacao", "none")

FormNext ==
    \/ OpenClientForm \/ OpenProcessForm \/ OpenDeadlineForm \/ OpenAppointmentForm
    \/ OpenIntimationForm \/ OpenFinancialForm \/ OpenMovementForm \/ LancarIntimacao
    \/ FillIn \/ ChooseStatus \/ ChooseType \/ ChooseClient \/ ChooseProcess \/ ToggleExtra \/ LeaveForm
    \/ SaveClient \/ SaveProcess \/ SaveDeadline \/ SaveAppointment
    \/ SaveIntimation \/ SaveFinancial \/ SaveMovement \/ ConfirmLaunch
    \/ RecordsChange

(***************************************************************************)
(* Properties.                                                             *)
(***************************************************************************)
Out(action) == sent.action = action

\* The API refuses a record whose process belongs to another client
\* (legal.py:75): a form that knew the process never sends one, whatever the
\* record held when it was opened.
LinksAgree ==
    (Out("saveAppointment") \/ Out("saveFinancial")) /\ sent.process # NoLink =>
        sent.client = sent.known[sent.process]

\* The API refuses a revenue that is paid and an expense that is received
\* (schemas.py:122): no order of choices leads to one, nor to an intimation of
\* a process that still waits for one.
StatusFitsType ==
    /\ Out("saveFinancial") => <<sent.type, sent.status>> \notin {<<"receita", "pago">>, <<"despesa", "recebido">>}
    /\ Out("saveIntimation") /\ sent.process # NoLink => sent.status # "triagem"

\* saveIntimation converts its date and saveFinancial sends it without looking
\* (app.js:1496, app.js:1625): a save without a date never reaches them, nor a
\* launch the optional parts of which have none.
SentIsDated ==
    /\ sent.action \in {"saveDeadline", "saveAppointment", "saveIntimation", "saveFinancial", "saveMovement"} =>
           "date" \in sent.filled
    /\ Out("confirmLancamentoIntimacao") =>
           /\ "deadline" \in sent.extras => "deadlineDate" \in sent.filled
           /\ "appointment" \in sent.extras => "appointmentDate" \in sent.filled

\* The status the screens show after a save is the one they show after the page
\* is loaded again (frontend.py:271-317).
ShownAsReloaded ==
    display # "none" =>
        display = Back(Words \union FinancialWords, sent.action, ApiStatus(sent.action, sent.status))

\* What a form sends is what the API takes, and what is shown is what it keeps.
FormSafety == LinksAgree /\ StatusFitsType /\ SentIsDated /\ ShownAsReloaded
=============================================================================
