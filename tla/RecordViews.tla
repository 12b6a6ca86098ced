----------------------------- MODULE RecordViews -----------------------------
(***************************************************************************)
(* assets/js/app.js: what the pages show of the records in memory.  The    *)
(* same records are counted, dated and added up by renderers written apart:*)
(* the bell, the dashboard, two calendars, the lists and the profiles.     *)
(* Each is an operator on the records.  The pages are drawn from the       *)
(* records when they are opened; the bell is drawn by some handlers only,  *)
(* and once a minute, so what it announces is state of its own.            *)
(***************************************************************************)
EXTENDS Integers, FiniteSets, Functions

CONSTANTS
    AppointmentIds, CaseIds, Owners, NoCase, NoOwner, \* bounds
    DeadlineIds, IntimationIds, EntryIds, EvidenceIds, \* bounds: numbers, in the order of their lists
    InvestigationIds,           \* bound
    DueDates,      \* bound: the days on which a deadline falls or an appointment is kept
    LastDay,       \* bound: the days lived through; day 0 is a Sunday
    MaxAnnounced,  \* intimations the bell announces (5 in the code)
    MaxUrgent,     \* actions the dashboard asks for now (5 in the code)
    MaxAlerts, MaxReviews, \* evidence alerted and listed for review (3 and 5)
    MonthDays,     \* the length of each month of the calendar
    MonthsShown,   \* bars of the chart before the last (5 in the code)
    EntryMonths,   \* bound: months of an entry
    EntryAmount    \* bound: the amount of each entry

ASSUME ViewsAssumption ==
    /\ LastDay \in Nat /\ MonthsShown \in Nat
    /\ MaxAnnounced \in Nat \ {0} /\ MaxUrgent \in Nat \ {0}
    /\ MaxAlerts \in Nat /\ MaxReviews \in Nat /\ MaxAlerts <= MaxReviews /\ MaxAlerts > 0
    /\ DeadlineIds \subseteq Nat /\ IntimationIds \subseteq Nat /\ EntryIds \subseteq Nat /\ EvidenceIds \subseteq Nat
    /\ EntryAmount \in [EntryIds -> Nat]
    /\ DOMAIN MonthDays = 1..(MonthsShown + 2) /\ \A m \in DOMAIN MonthDays : MonthDays[m] \in 28..31
    /\ \A ids \in {DeadlineIds, EntryIds, CaseIds, Owners, IntimationIds, EvidenceIds, InvestigationIds} :
            IsFiniteSet(ids)
    /\ DueDates \subseteq Nat /\ NoOwner \notin Owners /\ NoCase \notin CaseIds
    /\ {} \notin {DueDates, EntryMonths, Owners, InvestigationIds} \* values to start from

VARIABLES
    viewDay,      \* the day it is
    monthDay,     \* the same for the chart of months: a month and the day of it
    recordsHeld,  \* DB: the records of each kind
    listFilter,   \* procState.status, and what its select shows
    bell,         \* what the panel of the bell shows, its badge being their number
    unseen        \* history: another's changes or a new day since the bell was drawn

viewVars == <<viewDay, monthDay, recordsHeld, listFilter, bell, unseen>>

Gone == "gone"
KeptIn(kind) == {r \in DOMAIN recordsHeld[kind] : recordsHeld[kind][r].status # Gone}

DeadlineValues == [date : DueDates, status : {"pendente", "concluido"}]
AppointmentValues == [date : DueDates, status : {"agendado", "concluido"}]
IntimationValues ==
    [status : {"recebida", "triagem", "associada", "erro", "concluida"}, of : CaseIds \union {NoCase}]
EntryValues ==
    [kind : {"receita", "despesa"}, status : {"previsto", "recebido", "pago", "vencido"},
     month : EntryMonths, client : Owners \union {NoOwner}]
CaseValues == [status : {"ativo", "arquivado"}, client : Owners]
InvestigationValues == [status : {"em_coleta", "pendente_revisao", "bloqueada", "concluida"}]
EvidenceValues == [status : {"pendente", "validada"}, of : InvestigationIds]
ValuesOf == [investigations |-> InvestigationValues, evidence |-> EvidenceValues,
             deadlines |-> DeadlineValues, appointments |-> AppointmentValues,
             intimations |-> IntimationValues, entries |-> EntryValues, cases |-> CaseValues]
IdsOf == [investigations |-> InvestigationIds, evidence |-> EvidenceIds,
          deadlines |-> DeadlineIds, appointments |-> AppointmentIds,
          intimations |-> IntimationIds, entries |-> EntryIds, cases |-> CaseIds]
RecordKinds == DOMAIN IdsOf

NoRecord(kind) == [(CHOOSE v \in ValuesOf[kind] : TRUE) EXCEPT !.status = Gone]

ViewsInit ==
    /\ viewDay = 0 /\ monthDay = [month |-> MonthsShown + 1, day |-> 1]
    /\ listFilter = [applied |-> "todos", shown |-> "todos"]
    /\ recordsHeld = [kind \in RecordKinds |-> [r \in IdsOf[kind] |-> NoRecord(kind)]]
    /\ bell = {} /\ unseen = FALSE

-----------------------------------------------------------------------------
Deadlines == KeptIn("deadlines")
Appointments == KeptIn("appointments")
Intimated == KeptIn("intimations")
Entries == KeptIn("entries")
CasesHeld == KeptIn("cases")

StatusIn(kind, set) == {r \in KeptIn(kind) : recordsHeld[kind][r].status \in set}
PendingDeadlines == StatusIn("deadlines", {"pendente"})
DateOf(kind, r) == recordsHeld[kind][r].date
DaysTo(d) == DateOf("deadlines", d) - viewDay
EntryOf(e) == recordsHeld.entries[e]
CaseOf(c) == recordsHeld.cases[c]
ProcessOf(i) == recordsHeld.intimations[i].of
TotalOf(S) == SumFunctionOnSet(EntryAmount, S)
Tagged(kind, S) == {<<kind, r>> : r \in S}

\* computeNotifications: what is due within a week or late, the first of the
\* intimations that wait, and the entries that are overdue.
DueSoon == {d \in PendingDeadlines : DaysTo(d) <= 7}
Incoming == StatusIn("intimations", {"triagem", "recebida"})
FirstOf(S, n) == {i \in S : Cardinality({j \in S : j < i}) < n}
FirstIncoming == FirstOf(Incoming, MaxAnnounced)
OverdueEntries == StatusIn("entries", {"vencido"})
Announced ==
    Tagged("deadlines", DueSoon) \union Tagged("intimations", FirstIncoming)
        \union Tagged("entries", OverdueEntries)

\* The dashboard: its cards.
Cards ==
    [active   |-> Cardinality(CasesHeld \ StatusIn("cases", {"arquivado"})),
     critical |-> Cardinality({d \in PendingDeadlines : DaysTo(d) \in 0..7}),
     waiting  |-> Cardinality(Incoming),
     triage   |-> Cardinality(StatusIn("intimations", {"triagem"})),
     expected |-> TotalOf({e \in StatusIn("entries", {"previsto"}) : EntryOf(e).kind = "receita"}),
     received |-> TotalOf({e \in StatusIn("entries", {"recebido"}) : EntryOf(e).kind = "receita"}),
     overdue  |-> TotalOf(OverdueEntries)]
\* What needs an action now, cut short: the deadlines first, then the intimations
\* nobody has associated, then the entries that are overdue.
UrgentDeadlines == FirstOf({d \in PendingDeadlines : DaysTo(d) \in 0..2}, MaxUrgent)
UrgentTriage ==
    FirstOf(StatusIn("intimations", {"triagem"}), MaxUrgent - Cardinality(UrgentDeadlines))
UrgentEntries ==
    FirstOf(OverdueEntries, MaxUrgent - Cardinality(UrgentDeadlines) - Cardinality(UrgentTriage))
UrgentActions ==
    Tagged("deadlines", UrgentDeadlines) \union Tagged("intimations", UrgentTriage)
        \union Tagged("entries", UrgentEntries)

-----------------------------------------------------------------------------
\* The list of deadlines: the rows of each filter, and the chip of a row.
DeadlineRows ==
    [todos     |-> Deadlines,
     critico   |-> {d \in PendingDeadlines : DaysTo(d) \in 0..2},
     hoje      |-> {d \in Deadlines : DaysTo(d) = 0},
     semana    |-> {d \in Deadlines : DaysTo(d) \in 0..7},
     vencido   |-> {d \in PendingDeadlines : DaysTo(d) < 0},
     concluido |-> StatusIn("deadlines", {"concluido"})]
DeadlineChip(d) ==
    IF d \in StatusIn("deadlines", {"concluido"}) THEN "completed"
    ELSE IF DaysTo(d) <= 0 THEN "critical"
    ELSE IF DaysTo(d) <= 7 THEN "pending" ELSE "active"

\* The calendars: what a day opens on the dashboard and in the agenda, the days
\* marked as having something, the agenda by week and as a list.
OnDay(day) ==
    Tagged("appointments", {a \in Appointments : DateOf("appointments", a) = day})
        \union Tagged("deadlines", {d \in Deadlines : DateOf("deadlines", d) = day})
HasEvent(day) ==
    \/ \E a \in Appointments : DateOf("appointments", a) = day
    \/ \E d \in Deadlines : DateOf("deadlines", d) = day
WeekStart(day) == day - (day % 7)
AgendaWeek(day) == [n \in 0..6 |-> OnDay(WeekStart(day) + n)]
AgendaList == Tagged("appointments", Appointments) \union Tagged("deadlines", Deadlines)

\* The inbox: the rows of each tab, and the buttons of a row.
InboxTab ==
    [recebidas  |-> StatusIn("intimations", {"recebida"}),
     triagem    |-> StatusIn("intimations", {"triagem"}),
     associadas |-> StatusIn("intimations", {"associada"}),
     erro       |-> StatusIn("intimations", {"erro"}),
     concluidas |-> StatusIn("intimations", {"concluida"})]
InboxButtons(i) ==
    (IF ProcessOf(i) = NoCase THEN {"associate"} ELSE {})
        \union (IF ProcessOf(i) # NoCase /\ i \notin InboxTab.concluidas THEN {"launch"} ELSE {})
        \union (IF i \notin InboxTab.concluidas THEN {"conclude"} ELSE {})

\* The money of a month, the bars of the months up to this one, and the totals.
\* A bar sets the month of today's date, which runs over into the next month
\* when the month has no such day.
InMonth(m) == {e \in Entries : EntryOf(e).month = m}
ReceivedIn(m) == TotalOf({e \in InMonth(m) : EntryOf(e).kind = "receita" /\ EntryOf(e).status = "recebido"})
MonthCard == ReceivedIn(monthDay.month)
BarMonth(n) ==
    LET m == monthDay.month - n IN IF monthDay.day > MonthDays[m] THEN m + 1 ELSE m
Bars == [n \in 0..MonthsShown |-> ReceivedIn(BarMonth(n))]
ToReceive == TotalOf(StatusIn("entries", {"previsto"}))
Receivables == {e \in StatusIn("entries", {"previsto", "vencido"}) : EntryOf(e).kind = "receita"}

\* Processes and clients: a process's page, the rows of the list, the figures
\* of a client.
IntimationsOf(c) == {i \in Intimated : ProcessOf(i) = c}
ProcessRows == {c \in CasesHeld : listFilter.applied \in {"todos", CaseOf(c).status}}
ClientCases(o) == {c \in CasesHeld : CaseOf(c).client = o}
ClientStat(o) ==
    LET fin == {e \in Entries : EntryOf(e).client = o} IN
    [ints      |-> {i \in Intimated : ProcessOf(i) \in ClientCases(o)},
     active    |-> Cardinality(ClientCases(o) \ StatusIn("cases", {"arquivado"})),
     received  |-> TotalOf({e \in fin : EntryOf(e).kind = "receita" /\ EntryOf(e).status = "recebido"}),
     toReceive |-> TotalOf({e \in fin : EntryOf(e).status = "previsto"}),
     overdue   |-> TotalOf({e \in fin : EntryOf(e).status = "vencido"})]

\* The page of the investigations: the rows of a status, the cards, the alerts
\* and the evidence for review.
BoardRows(status) ==
    IF status = "todos" THEN KeptIn("investigations") ELSE StatusIn("investigations", {status})
BoardCards ==
    [active |-> Cardinality(StatusIn("investigations", {"em_coleta", "pendente_revisao"})),
     review |-> Cardinality(StatusIn("evidence", {"pendente"}))]
BoardAlerts ==
    Tagged("evidence", FirstOf(StatusIn("evidence", {"pendente"}), MaxAlerts))
        \union Tagged("investigations", StatusIn("investigations", {"bloqueada"}))
ReviewList == FirstOf(StatusIn("evidence", {"pendente"}), MaxReviews)

-----------------------------------------------------------------------------
(***************************************************************************)
(* What changes the records, and when the bell is drawn.                   *)
(***************************************************************************)
PutRecord(kind, r, v) == recordsHeld' = [recordsHeld EXCEPT ![kind][r] = v] /\ UNCHANGED listFilter
Drawn == bell' = Announced' /\ unseen' = FALSE
NotDrawn == UNCHANGED <<bell, unseen>>
SameDay == UNCHANGED <<viewDay, monthDay>>

\* The list of processes is drawn again with the status chosen applied and the
\* select back on "todos", where choosing "todos" is no change.
ChooseProcessStatus(status) ==
    /\ status # listFilter.shown
    /\ listFilter' = [applied |-> status, shown |-> "todos"]
    /\ UNCHANGED <<recordsHeld, bell, unseen>>

SavedDeadline(d) == \E v \in DeadlineValues : PutRecord("deadlines", d, v) /\ Drawn
CompletedDeadline(d) ==
    /\ d \in PendingDeadlines
    /\ PutRecord("deadlines", d, [recordsHeld.deadlines[d] EXCEPT !.status = "concluido"]) /\ Drawn
DeletedDeadline(d) == d \in Deadlines /\ PutRecord("deadlines", d, NoRecord("deadlines")) /\ NotDrawn
SavedAppointment(a) == \E v \in AppointmentValues : PutRecord("appointments", a, v) /\ NotDrawn
DeletedAppointment(a) == a \in Appointments /\ PutRecord("appointments", a, NoRecord("appointments")) /\ NotDrawn
SavedIntimation(i) == \E v \in IntimationValues : PutRecord("intimations", i, v) /\ Drawn
ConcludedIntimation(i) ==
    /\ i \in Intimated /\ "conclude" \in InboxButtons(i)
    /\ PutRecord("intimations", i, [recordsHeld.intimations[i] EXCEPT !.status = "concluida"]) /\ Drawn

SavedEntry(e) == \E v \in EntryValues : PutRecord("entries", e, v) /\ Drawn
DeletedEntry(e) == e \in Entries /\ PutRecord("entries", e, NoRecord("entries")) /\ Drawn
SavedCase(c) == \E v \in CaseValues : PutRecord("cases", c, v) /\ NotDrawn
DeletedCase(c) == c \in CasesHeld /\ PutRecord("cases", c, NoRecord("cases")) /\ NotDrawn

\* The records are read again, with what others have done to one of them.
RecordsReadAgain(kind) ==
    /\ \E r \in DOMAIN recordsHeld[kind], v \in ValuesOf[kind] \union {NoRecord(kind)} :
        recordsHeld[kind][r] # v /\ PutRecord(kind, r, v)
    /\ unseen' = TRUE /\ UNCHANGED bell /\ SameDay
NextDay ==
    /\ viewDay < LastDay /\ viewDay' = viewDay + 1 /\ unseen' = TRUE
    /\ UNCHANGED <<monthDay, recordsHeld, listFilter, bell>>
OtherMonthDay ==
    /\ \E m \in (MonthsShown + 1)..(MonthsShown + 2), d \in {28, 31} :
        d <= MonthDays[m] /\ monthDay' = [month |-> m, day |-> d]
    /\ UNCHANGED <<viewDay, recordsHeld, listFilter, bell, unseen>>
\* The timer of a minute.
DrawBell == bell # Announced /\ UNCHANGED <<recordsHeld, listFilter>> /\ SameDay /\ Drawn

CalendarNext ==
    \/ NextDay \/ DrawBell \/ RecordsReadAgain("deadlines")
    \/ /\ SameDay
       /\ \/ \E d \in DeadlineIds : SavedDeadline(d) \/ CompletedDeadline(d) \/ DeletedDeadline(d)
          \/ \E a \in AppointmentIds : SavedAppointment(a) \/ DeletedAppointment(a)
InboxNext ==
    \/ DrawBell \/ RecordsReadAgain("intimations")
    \/ /\ SameDay
       /\ \/ \E i \in IntimationIds : SavedIntimation(i) \/ ConcludedIntimation(i)
          \/ \E c \in CaseIds : SavedCase(c) \/ DeletedCase(c)
          \/ \E status \in {"ativo", "arquivado", "todos"} : ChooseProcessStatus(status)
BoardNext == RecordsReadAgain("investigations") \/ RecordsReadAgain("evidence")
MoneyNext ==
    \/ DrawBell \/ OtherMonthDay
    \/ SameDay /\ \E e \in EntryIds : SavedEntry(e) \/ DeletedEntry(e)

ViewsFairness == WF_viewVars(DrawBell)

(***************************************************************************)
(* Properties.                                                             *)
(***************************************************************************)
\* After the user's own changes the bell misses nothing that is due: the one
\* handler that forgets it, the deletion of a deadline, leaves it too long.
BellMissesNothing == unseen \/ Announced \subseteq bell

\* The bell, the dashboard and the list agree on the deadlines: what the bell
\* announces is what the filters of the week and of the late show as pending,
\* and the red rows are those due today or late.  What the dashboard calls urgent
\* is cut short, yet no critical deadline gives way to anything else: one is left
\* out only of a panel full of them, and the panel that says nothing is urgent
\* hides none, nor an intimation in triage, nor an entry overdue.
DeadlinesAgree ==
    /\ DueSoon = (DeadlineRows.semana \intersect PendingDeadlines) \union DeadlineRows.vencido
    /\ DeadlineRows.semana \intersect DeadlineRows.vencido = {}
    /\ {d \in Deadlines : DeadlineChip(d) = "critical"}
        = (DeadlineRows.hoje \intersect PendingDeadlines) \union DeadlineRows.vencido
    /\ LET urgent == {d \in Deadlines : <<"deadlines", d>> \in UrgentActions} IN
          /\ urgent \subseteq DeadlineRows.critico
          /\ urgent # DeadlineRows.critico =>
                UrgentActions = Tagged("deadlines", urgent) /\ Cardinality(urgent) = MaxUrgent
    /\ UrgentActions = {} => DeadlineRows.critico = {} /\ Cards.triage = 0 /\ Cards.overdue = 0
    /\ Cards.critical = Cardinality(DueSoon) - Cardinality(DeadlineRows.vencido)
    /\ Announced = {} => UrgentActions = {} /\ Cards.critical = 0 /\ Cards.overdue = 0 /\ Cards.waiting = 0

\* A day is marked when it has something to open, the week of a day shows the
\* day itself and no item twice, and no date falls out of the agenda.
CalendarsAgree ==
    /\ \A day \in DueDates : HasEvent(day) <=> OnDay(day) # {}
    /\ \A day \in DueDates : AgendaWeek(day)[day - WeekStart(day)] = OnDay(day)
    /\ \A day \in DueDates, item \in AgendaList :
          Cardinality({n \in 0..6 : item \in AgendaWeek(day)[n]}) <= 1
    /\ UNION {OnDay(day) : day \in DueDates} = AgendaList

\* An intimation is in one tab and can always be dealt with there until it is
\* concluded; the counts of the dashboard and of the profiles are of the same.
InboxAgrees ==
    /\ \A i \in Intimated : Cardinality({t \in DOMAIN InboxTab : i \in InboxTab[t]}) = 1
    /\ \A i \in Intimated : InboxButtons(i) = {} => i \in InboxTab.concluidas
    /\ \A i \in Intimated : ~({"associate", "launch"} \subseteq InboxButtons(i))
    /\ Cards.waiting = Cardinality(InboxTab.recebidas) + Cards.triage
    /\ \A o \in Owners : ClientStat(o).ints = UNION {IntimationsOf(c) : c \in ClientCases(o)}
    /\ \A c \in ProcessRows : listFilter.shown \in {"todos", CaseOf(c).status}
    /\ Cards.active = SumFunction([o \in Owners |-> ClientStat(o).active])

\* The last bar is the month of the card; until the 28th every bar is a month
\* of its own; what the clients owe and have paid adds up to the totals.
MoneyAgrees ==
    LET unowned == {e \in Entries : EntryOf(e).client = NoOwner} IN
    /\ Bars[0] = MonthCard
    /\ monthDay.day <= 28 => \A m, n \in 0..MonthsShown : m # n => BarMonth(m) # BarMonth(n)
    /\ ToReceive = SumFunction([o \in Owners |-> ClientStat(o).toReceive])
                    + TotalOf(unowned \intersect StatusIn("entries", {"previsto"}))
    /\ Cards.overdue = SumFunction([o \in Owners |-> ClientStat(o).overdue])
                    + TotalOf(unowned \intersect OverdueEntries)
    /\ Cards.expected <= ToReceive /\ MonthCard <= Cards.received
    /\ TotalOf(Receivables) <= Cards.expected + Cards.overdue

\* An alert about evidence is one of those listed for review, none is silent
\* while the card counts some, and no investigation is left out of the rows.
BoardAgrees ==
    /\ \A r \in BoardAlerts : r[1] = "evidence" => r[2] \in ReviewList
    /\ BoardCards.review > 0 <=> \E r \in BoardAlerts : r[1] = "evidence"
    /\ BoardCards.active <= Cardinality(BoardRows("todos") \ BoardRows("concluida"))
    /\ \A i \in BoardRows("bloqueada") : <<"investigations", i>> \in BoardAlerts

\* What the pages show of the same records.
RecordsAgree ==
    BellMissesNothing /\ DeadlinesAgree /\ CalendarsAgree /\ InboxAgrees /\ MoneyAgrees /\ BoardAgrees
=============================================================================
