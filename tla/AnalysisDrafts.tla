---------------------------- MODULE AnalysisDrafts ----------------------------
(***************************************************************************)
(* assets/js/app.js: the working drafts of an investigation.  The TACER    *)
(* checklists and the matrix of hypotheses and evidence (ACH) are kept on  *)
(* the investigation in memory only: whenever the records are read again   *)
(* they are gone, and a desk that was not drawn again still shows them.    *)
(* A cell is kept under the numbers of its row and its column.             *)
(***************************************************************************)
EXTENDS Naturals, Sequences, FiniteSets, Functions

CONSTANTS
    Findings,   \* bound: the findings of the investigation, each of two classes
    Checks,     \* bound: items of a phase's checklist (5 in the code); one phase is enough
    MaxHypotheses, MaxRows \* bounds: hypotheses and evidence of the matrix

ASSUME DraftsAssumption == {Checks, MaxHypotheses, MaxRows} \subseteq Nat

Cells == (1..MaxRows) \X (1..MaxHypotheses)

VARIABLES
    drafts,       \* inv.tacerState of the phase, inv.ach
    findingClass, \* the classification of each finding
    deskShown,    \* the drafts the desk was drawn with
    draftsLost,   \* the records were read again since the desk was drawn
    judged,       \* history: the hypotheses and evidence the user marked, and how
    misplaced     \* history: a desk that still showed lost drafts was pressed

draftVars == <<drafts, findingClass, deskShown, draftsLost, judged, misplaced>>

NoDrafts == [ticked |-> 0, hipoteses |-> 0, evidencias |-> <<>>, matrix |-> [c \in Cells |-> "N"]]
NoJudgement == {}

DraftsInit ==
    /\ drafts = NoDrafts /\ deskShown = NoDrafts
    /\ findingClass = [f \in Findings |-> "dado_bruto"]
    /\ draftsLost = FALSE /\ judged = NoJudgement /\ misplaced = FALSE

\* renderWorkspace.
Redrawn == deskShown' = drafts' /\ draftsLost' = FALSE

-----------------------------------------------------------------------------
(* Mutant: the evidence is put on top of the matrix. *)
WithRowOnTop(rows, desc) == IF desc \in Range(rows) THEN rows ELSE <<desc>> \o rows

WithRow(rows, desc) == IF desc \in Range(rows) THEN rows ELSE Append(rows, desc)

NextMark(mark) == CASE mark = "N" -> "C" [] mark = "C" -> "I" [] OTHER -> "N"

\* A box unticks itself and those after it, or ticks itself and those before.
toggleTacerItem(idx) ==
    /\ drafts' = [drafts EXCEPT !.ticked = IF @ > idx THEN idx ELSE idx + 1]
    /\ Redrawn /\ UNCHANGED <<findingClass, judged, misplaced>>

addACHHipotese ==
    /\ drafts.hipoteses < MaxHypotheses
    /\ drafts' = [drafts EXCEPT !.hipoteses = @ + 1] /\ Redrawn
    /\ UNCHANGED <<findingClass, judged, misplaced>>

addACHEvidence(f) ==
    LET rows == WithRow(drafts.evidencias, <<f, findingClass[f]>>) IN
    /\ Len(rows) <= MaxRows
    /\ drafts' = [drafts EXCEPT !.evidencias = rows] /\ Redrawn
    /\ UNCHANGED <<findingClass, judged, misplaced>>

ShownCell(c) == c[1] <= Len(deskShown.evidencias) /\ c[2] <= deskShown.hipoteses
cycleACH(c) ==
    /\ ShownCell(c)
    /\ drafts' = [drafts EXCEPT !.matrix[c] = NextMark(@)]
    /\ LET about == <<deskShown.evidencias[c[1]], c[2]>>
           mark == NextMark(deskShown.matrix[c]) IN
        judged' = {j \in judged : j[1] # about} \union (IF mark = "N" THEN {} ELSE {<<about, mark>>})
    /\ misplaced' = (misplaced \/ draftsLost) /\ Redrawn /\ UNCHANGED findingClass

\* A finding that is validated keeps its row, and may be given another.
ValidatedFinding(f) ==
    /\ findingClass[f] # "conclusao_humana"
    /\ findingClass' = [findingClass EXCEPT ![f] = "conclusao_humana"]
    /\ UNCHANGED <<drafts, judged, misplaced>> /\ Redrawn

\* The records are read again: by a promotion or an attestation made on the
\* desk, which draws it again, or by what another page had begun.
DraftsGo ==
    drafts' = NoDrafts /\ judged' = NoJudgement /\ misplaced' = FALSE /\ UNCHANGED findingClass
Promoted == drafts # NoDrafts /\ DraftsGo /\ Redrawn
ReadElsewhere == drafts # NoDrafts /\ DraftsGo /\ draftsLost' = TRUE /\ UNCHANGED deskShown

DraftsNext ==
    \/ \E idx \in 0..(Checks - 1) : toggleTacerItem(idx)
    \/ addACHHipotese
    \/ \E f \in Findings : addACHEvidence(f) \/ ValidatedFinding(f)
    \/ \E c \in Cells : cycleACH(c)
    \/ Promoted \/ ReadElsewhere

(***************************************************************************)
(* Properties.                                                             *)
(***************************************************************************)
Marks ==
    {<<<<drafts.evidencias[c[1]], c[2]>>, drafts.matrix[c]>> :
        c \in {c \in Cells : c[1] <= Len(drafts.evidencias) /\ drafts.matrix[c] # "N"}}

\* The desk shows the drafts there are, unless they were lost behind it.
DeskShowsDrafts == draftsLost \/ deskShown = drafts

\* A mark stays with the evidence and the hypothesis it was given to, though
\* it is kept by their numbers; only a press on a desk that still showed lost
\* drafts leaves a mark on what nobody judged, even on rows yet to come.
MarksStay ==
    misplaced \/ (/\ Marks = judged
                  /\ \A c \in Cells : drafts.matrix[c] # "N" =>
                        c[1] <= Len(drafts.evidencias) /\ c[2] <= drafts.hipoteses)

\* What the analyst has drafted is what the desk shows and the matrix keeps.
DraftsSafety == DeskShowsDrafts /\ MarksStay
=============================================================================
