----------------------------- MODULE ProcessFile -----------------------------
(***************************************************************************)
(* assets/js/app.js: the file of a process, a dialog with one tab shown at *)
(* a time, and the movements that are saved and deleted from it.  The tab  *)
(* and the process are page-wide state: whichever answer comes draws the   *)
(* file of the process chosen last, over whatever dialog is open.          *)
(* Requests are carried out when they are answered; what comes of lost and *)
(* reordered answers is in Workspace.                                      *)
(***************************************************************************)
EXTENDS Integers, Sequences, FiniteSets, SequencesExt

CONSTANTS
    Suits,    \* bound: the processes
    MaxActs,  \* bound: movements ever saved
    ActDays,  \* bound: the days of a movement
    MaxCalls  \* bound: requests under way

ASSUME FileAssumption ==
    {MaxActs, MaxCalls} \subseteq Nat /\ ActDays \subseteq Nat /\ IsFiniteSet(Suits)

SuitTabs == {"visao", "andamentos", "prazos"}

VARIABLES
    suitsKept,  \* DB.processes
    acts,       \* DB.processMovements: [id, of, day]
    actsStored, \* the movements the API keeps
    lastAct,    \* the last number given to a movement
    duties,     \* DB.deadlines: [of, due, pending]
    suitState,  \* PROCESS_TAB_STATE
    suitModal,  \* the dialog: [kind, of, tab, rows, act]
    actCalls,   \* the requests under way: [op, id, of, day, index]
    suitStale,  \* the records were read again since the file was drawn
    actsRaced   \* history: a request met another, or a reading, under way

suitVars == <<suitsKept, acts, actsStored, lastAct, duties, suitState, suitModal, actCalls,
              suitStale, actsRaced>>

NoSuitModal == [kind |-> "none", of |-> "", tab |-> "", rows |-> <<>>, act |-> 0]

\* Two deadlines of every process, one done, not in the order of their days.
LoadedDuties ==
    [n \in 1..(2 * Cardinality(Suits)) |->
        [of |-> SetToSeq(Suits)[(n + 1) \div 2], due |-> 1 + (n % 2), pending |-> n % 2 = 1]]

SuitsInit ==
    /\ suitsKept = Suits /\ acts = <<>> /\ actsStored = {} /\ lastAct = 0 /\ duties = LoadedDuties
    /\ suitState = [of |-> "", tab |-> "visao"] /\ suitModal = NoSuitModal
    /\ actCalls = {} /\ suitStale = FALSE /\ actsRaced = FALSE

-----------------------------------------------------------------------------
(* filter and sort, which is stable: the rows of a list at some places, the *)
(* lower keys first and those of one key in the order of the list.          *)
Arranged(list, places, key) ==
    LET Before(i) == {j \in places : key[j] < key[i] \/ (key[j] = key[i] /\ j < i)} IN
    [k \in 1..Cardinality(places) |-> list[CHOOSE i \in places : Cardinality(Before(i)) = k - 1]]
Filtered(list, places) == Arranged(list, places, [i \in places |-> 0])

(* What a tab shows. *)
PlacesOf(p, list) == {i \in DOMAIN list : list[i].of = p}
ActsOf(p, all) == Filtered(all, PlacesOf(p, all))
DutiesOf(p) == Filtered(duties, PlacesOf(p, duties))

Visao(p, all) ==
    <<Len(ActsOf(p, all)), Len(Filtered(duties, {i \in PlacesOf(p, duties) : duties[i].pending}))>>

Andamentos(p, all) ==
    LET rows == ActsOf(p, all) IN Arranged(rows, DOMAIN rows, [i \in DOMAIN rows |-> -rows[i].day])

SuitTab(p, tab, all) ==
    CASE tab = "visao" -> Visao(p, all)
      [] tab = "andamentos" -> Andamentos(p, all)
      [] tab = "prazos" -> DutiesOf(p)

\* renderProcessFull: nothing is drawn of a process that is gone.
SuitDrawn(st, all, otherwise) ==
    IF st.of \in suitsKept
    THEN /\ suitModal' = [NoSuitModal EXCEPT !.kind = "file", !.of = st.of, !.tab = st.tab,
                                             !.rows = SuitTab(st.of, st.tab, all)]
         /\ suitStale' = FALSE
    ELSE suitModal' = otherwise /\ UNCHANGED suitStale

NoAnswerYet == UNCHANGED <<suitsKept, acts, actsStored, lastAct, duties, actCalls, actsRaced>>

showProcessDetailFull(p) ==
    /\ suitModal = NoSuitModal /\ suitState' = [of |-> p, tab |-> "visao"]
    /\ SuitDrawn(suitState', acts, suitModal) /\ NoAnswerYet

switchProcessTab(t) ==
    /\ suitModal.kind = "file" /\ suitState' = [suitState EXCEPT !.tab = t]
    /\ SuitDrawn(suitState', acts, suitModal) /\ NoAnswerYet

CloseSuit ==
    suitModal # NoSuitModal /\ suitModal' = NoSuitModal /\ UNCHANGED <<suitState, suitStale>> /\ NoAnswerYet

OnTimeline == suitModal.kind = "file" /\ suitModal.tab = "andamentos"
ShownActs == {suitModal.rows[i].id : i \in DOMAIN suitModal.rows}

(* Mutant: the place in the timeline, which is sorted, for that in the list. *)
ActIndexShown(id) == LET at == {i \in DOMAIN suitModal.rows : OnTimeline /\ suitModal.rows[i].id = id} IN
    IF at = {} THEN 0 ELSE CHOOSE i \in at : TRUE

ActIndex(id) == LET at == {i \in DOMAIN acts : acts[i].id = id} IN
    IF at = {} THEN 0 ELSE CHOOSE i \in at : TRUE

\* The form of a movement that is gone does not open.
OpenActForm(id) ==
    /\ OnTimeline /\ (id = 0 \/ (id \in ShownActs /\ ActIndex(id) # 0))
    /\ suitModal' = [NoSuitModal EXCEPT !.kind = "form", !.of = suitModal.of, !.act = id]
    /\ UNCHANGED <<suitState, suitStale>> /\ NoAnswerYet

-----------------------------------------------------------------------------
(* The movements. *)
Called(call) ==
    /\ Cardinality(actCalls) < MaxCalls /\ actCalls' = actCalls \union {call}
    /\ actsRaced' = (actsRaced \/ actCalls # {})
    /\ UNCHANGED <<suitsKept, acts, actsStored, lastAct, duties, suitState, suitStale>>

SaveAct(day) ==
    /\ suitModal.kind = "form" /\ UNCHANGED suitModal
    /\ Called([op |-> "save", id |-> suitModal.act, of |-> suitModal.of, day |-> day, index |-> 0])

\* The place of the movement in the list is taken before the answer.
DeleteAct(id) ==
    /\ \/ OnTimeline /\ id \in ShownActs /\ UNCHANGED suitModal
       \/ suitModal.kind = "form" /\ id # 0 /\ id = suitModal.act /\ suitModal' = NoSuitModal
    /\ Called([op |-> "delete", id |-> id, of |-> suitModal.of, day |-> 0, index |-> ActIndex(id)])

ActAnswered(call) ==
    /\ call \in actCalls /\ actCalls' = actCalls \ {call}
    /\ UNCHANGED <<suitsKept, duties, suitState, actsRaced>>

\* A movement is added to a process that is there, or changed if it is.
ActSaved(call) ==
    LET number == IF call.id = 0 THEN lastAct + 1 ELSE call.id
        saved == [id |-> number, of |-> call.of, day |-> call.day] IN
    /\ call.op = "save" /\ ActAnswered(call)
    /\ IF call.id = 0
       THEN /\ call.of \in suitsKept /\ lastAct < MaxActs /\ lastAct' = number
            /\ acts' = Append(acts, saved)
       ELSE /\ \E a \in actsStored : a.id = number
            /\ acts' = IF ActIndex(number) = 0 THEN acts ELSE ReplaceAt(acts, ActIndex(number), saved)
            /\ UNCHANGED lastAct
    /\ actsStored' = {a \in actsStored : a.id # number} \union {saved}
    /\ SuitDrawn(suitState, acts', NoSuitModal)

ActDeleted(call) ==
    /\ call.op = "delete" /\ ActAnswered(call) /\ \E a \in actsStored : a.id = call.id
    /\ actsStored' = {a \in actsStored : a.id # call.id} /\ UNCHANGED lastAct
    /\ IF call.index = 0 THEN UNCHANGED <<acts, suitModal, suitStale>>
       ELSE /\ acts' = IF call.index <= Len(acts) THEN RemoveAt(acts, call.index) ELSE acts
            /\ SuitDrawn(suitState, acts', suitModal)

ActRefused(call) ==
    ActAnswered(call) /\ UNCHANGED <<acts, actsStored, lastAct, suitModal, suitStale>>

-----------------------------------------------------------------------------
\* The orders a reading may have: the last day first, those of a day in any.
AsRead(all) ==
    {order \in [1..Cardinality(all) -> all] :
        /\ IsInjective(order)
        /\ \A i, j \in DOMAIN order : i < j => order[i].day >= order[j].day}

(* The records are read again behind the dialog, without the processes that *)
(* others deleted.                                                          *)
SuitsReadAgain(gone) ==
    /\ suitsKept' = suitsKept \ gone
    /\ actsStored' = {a \in actsStored : a.of \notin gone}
    /\ acts' \in AsRead(actsStored')
    /\ duties' = Filtered(LoadedDuties, {i \in DOMAIN LoadedDuties : LoadedDuties[i].of \in suitsKept'})
    /\ suitStale' = (suitModal.kind = "file") /\ actsRaced' = (actsRaced \/ actCalls # {})
    /\ UNCHANGED <<lastAct, suitState, suitModal, actCalls>>

\* generateReport: that of the deadlines leaves the list in the order of their
\* days, though its window be refused; the others change no record.
generateReport ==
    /\ suitModal = NoSuitModal
    /\ duties' = Arranged(duties, DOMAIN duties, [i \in DOMAIN duties |-> duties[i].due])
    /\ UNCHANGED <<suitsKept, acts, actsStored, lastAct, suitState, suitModal, actCalls, suitStale, actsRaced>>

SuitsNext ==
    \/ \E p \in Suits : showProcessDetailFull(p) \/ SuitsReadAgain({p})
    \/ \E t \in SuitTabs : switchProcessTab(t)
    \/ \E id \in 0..MaxActs : OpenActForm(id) \/ DeleteAct(id)
    \/ \E day \in ActDays : SaveAct(day)
    \/ \E call \in actCalls : ActSaved(call) \/ ActDeleted(call) \/ ActRefused(call)
    \/ CloseSuit \/ SuitsReadAgain({}) \/ generateReport

(***************************************************************************)
(* Properties.                                                             *)
(***************************************************************************)
\* The file shown is that of the process and the tab chosen last, though an
\* answer about another process drew it; only a process that is gone keeps its
\* old tab.
FileIsOfChosen ==
    suitModal.kind = "file" =>
        /\ suitModal.of = suitState.of
        /\ suitModal.tab = suitState.tab \/ suitState.of \notin suitsKept

\* It shows all that the records have of its process, the movements from the
\* last day to the first, and its counts are those of its tabs, unless the
\* records were read again behind it.
FileIsCurrent ==
    LET p == suitModal.of
        rows == suitModal.rows
        Of(all) == {i \in DOMAIN all : all[i].of = p} IN
    suitModal.kind = "file" /\ ~suitStale =>
        CASE suitModal.tab = "visao" ->
                rows = <<Cardinality(Of(acts)), Cardinality({i \in Of(duties) : duties[i].pending})>>
          [] suitModal.tab = "andamentos" ->
                /\ Range(rows) = {acts[i] : i \in Of(acts)} /\ Len(rows) = Cardinality(Of(acts))
                /\ \A i, j \in DOMAIN rows : i < j => rows[i].day >= rows[j].day
          [] OTHER -> Range(rows) = {duties[i] : i \in Of(duties)} /\ Len(rows) = Cardinality(Of(duties))

\* The list has the movements that are stored, unless requests met: a deletion
\* takes out whatever has come to stand at the place it noted.
ListIsStored == actsRaced \/ {acts[i] : i \in DOMAIN acts} = actsStored

\* The file of a process agrees with the records, and these with the API.
FileSafety == FileIsOfChosen /\ FileIsCurrent /\ ListIsStored
=============================================================================
