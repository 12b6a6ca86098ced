-------------------------- MODULE IntegrationPanels --------------------------
(***************************************************************************)
(* assets/js/integrations-view.js: the panels that work on records of the  *)
(* API.  The panel of the agents sends an analysis and follows it for two  *)
(* minutes; the panels of the reports and of the files draw a list of      *)
(* records with buttons, each disabled while its own request is under way. *)
(***************************************************************************)
EXTENDS Naturals, FiniteSets

CONSTANTS
    MaxAnalyses,   \* bound: analyses the API registers
    MaxRedraws,    \* bound: drawings of a list
    MaxPressed     \* bound: requests of its buttons under way

ASSUME IntegrationAssumption == MaxAnalyses \in Nat

VARIABLES
    agentsPanel,   \* "off", "asking" (is there a model?), "refused", "ready"
    step,          \* of the submission under way; "idle" when there is none
    late,          \* its 120 seconds are over
    current,       \* the analysis it follows, 0 when there is none
    analyses,      \* of the API, by number: "none" or a status
    notice,        \* what the panel says of the submission
    records,       \* of the API: an evidence and a report, pending or preserved
    drawing,       \* the number of the list on the screen, 0 when there is none
    drawn,         \* the records as it shows them
    pressed,       \* requests of its buttons that are under way
    loads,         \* requests for the list under way
    status         \* what the panel says of the last button

integrationVars ==
    <<agentsPanel, step, late, current, analyses, notice, records, drawing, drawn, pressed, loads, status>>

followVars == <<agentsPanel, step, late, current, analyses, notice>>
listVars == <<records, drawing, drawn, pressed, loads, status>>

Items == {"evidence", "report"}
Nothing == [action |-> "none", item |-> "none", outcome |-> "none"]

IntegrationInit ==
    /\ agentsPanel = "off" /\ step = "idle" /\ late = FALSE /\ current = 0
    /\ analyses = [n \in 1..MaxAnalyses |-> "none"] /\ notice = "none"
    /\ records = [i \in Items |-> IF i = "report" THEN "pending" ELSE "absent"]
    /\ drawing = 0 /\ drawn = records /\ pressed = {} /\ loads = 0 /\ status = Nothing

Registered == {n \in 1..MaxAnalyses : analyses[n] # "none"}
Final == {"pending_human_review", "failed"}

(***************************************************************************)
(* The agents: mountAgents.                                                *)
(***************************************************************************)
MountAgents ==
    /\ agentsPanel = "off" /\ agentsPanel' = "asking"
    /\ UNCHANGED <<step, late, current, analyses, notice, listVars>>
\* GET /agents/status; whatever it says, it says it once.
Availability ==
    /\ agentsPanel = "asking" /\ agentsPanel' \in {"ready", "refused"}
    /\ UNCHANGED <<step, late, current, analyses, notice, listVars>>
\* A request under way goes on at the API; nobody sees its answer.
LeaveAgents ==
    /\ agentsPanel # "off" /\ agentsPanel' = "off"
    /\ step' = "idle" /\ late' = FALSE /\ current' = 0 /\ notice' = "none"
    /\ UNCHANGED <<analyses, listVars>>

\* busy.
MaySubmit == agentsPanel = "ready" /\ step = "idle"

SendAnalysis ==
    /\ MaySubmit
    /\ step' = "posting" /\ late' = FALSE /\ current' = 0 /\ notice' = "sending"
    /\ UNCHANGED <<agentsPanel, analyses, listVars>>

Says(n) == notice' = n /\ step' = "idle"

\* The API registers the analysis; its answer may be lost all the same.
ApiRegisters ==
    /\ step = "posting" /\ \E n \in 1..MaxAnalyses : n \notin Registered
    /\ LET n == CHOOSE n \in 1..MaxAnalyses : n \notin Registered /\ \A m \in 1..(n - 1) : m \in Registered IN
         /\ analyses' = [analyses EXCEPT ![n] = "queued"]
         /\ \/ current' = n /\ step' = "loading" /\ notice' = "registered"
            \/ current' = 0 /\ Says("error")
    /\ UNCHANGED <<agentsPanel, late, listVars>>
\* Refused, waiting for an approval, or no answer.
RegisterFails ==
    /\ step = "posting" /\ Says("error")
    /\ UNCHANGED <<agentsPanel, late, current, analyses, listVars>>
\* The list is loaded again; a failure is shown in its place.
AnalysesLoaded ==
    /\ step = "loading" /\ step' = "asking"
    /\ UNCHANGED <<agentsPanel, late, current, analyses, notice, listVars>>

AsksAgain == ~late

\* The condition of the loop.
OutOfTime ==
    /\ step = "asking" /\ ~AsksAgain /\ Says("still registered")
    /\ UNCHANGED <<agentsPanel, late, current, analyses, listVars>>

(* Mutant: any answer counts as a result. *)
OutcomeOfAny(s) == IF s = "failed" THEN "failed" ELSE "ready"

Outcome(s) == IF s = "failed" THEN "failed" ELSE IF s \in Final THEN "ready" ELSE "registered"

AskAnalysis ==
    /\ step = "asking" /\ AsksAgain
    /\ notice' = Outcome(analyses[current])
    /\ step' = IF notice' = "registered" THEN "pause" ELSE "last"
    /\ UNCHANGED <<agentsPanel, late, current, analyses, listVars>>
AskFails ==
    /\ step = "asking" /\ AsksAgain /\ Says("error")
    /\ UNCHANGED <<agentsPanel, late, current, analyses, listVars>>
Paused ==
    /\ step = "pause" /\ step' = "asking"
    /\ UNCHANGED <<agentsPanel, late, current, analyses, notice, listVars>>
LastLoad ==
    /\ step = "last" /\ step' = "idle"
    /\ UNCHANGED <<agentsPanel, late, current, analyses, notice, listVars>>
TwoMinutes ==
    /\ step \notin {"idle", "posting"} /\ ~late /\ late' = TRUE
    /\ UNCHANGED <<agentsPanel, step, current, analyses, notice, listVars>>
\* The worker of the API.
Analyse(n) ==
    /\ \/ analyses[n] = "queued" /\ analyses' = [analyses EXCEPT ![n] = "running"]
       \/ analyses[n] = "running" /\ \E s \in Final : analyses' = [analyses EXCEPT ![n] = s]
    /\ UNCHANGED <<agentsPanel, step, late, current, notice, listVars>>

AgentsNext ==
    \/ MountAgents \/ Availability \/ LeaveAgents \/ SendAnalysis \/ ApiRegisters \/ RegisterFails \/ AnalysesLoaded
    \/ OutOfTime \/ AskAnalysis \/ AskFails \/ Paused \/ LastLoad \/ TwoMinutes
    \/ \E n \in 1..MaxAnalyses : Analyse(n)

(***************************************************************************)
(* The lists: mountReports, mountFiles.                                    *)
(***************************************************************************)
MountRecords ==
    /\ drawing = 0 /\ loads = 0 /\ pressed = {}
    /\ drawing' = 1 /\ drawn' = [i \in Items |-> "none"] /\ loads' = 1 /\ status' = Nothing
    /\ UNCHANGED <<records, pressed, followVars>>

\* The buttons a record has: finalize, verify, download and events of an
\* evidence; approve and download of a report.
Buttons(i, s) ==
    CASE i = "evidence" /\ s = "pending" -> {"finalize", "events"}
      [] i = "evidence" /\ s \in {"preserved", "integrity_failed"} -> {"verify", "download", "events"}
      [] i = "report" /\ s = "pending" -> {"approve"}
      [] i = "report" /\ s = "preserved" -> {"download"}
      [] OTHER -> {}

\* A list drawn anew has buttons of its own, all enabled.
Enabled(a, i) == drawing > 0 /\ ~\E p \in pressed : p.action = a /\ p.item = i /\ p.drawing = drawing

Press(a, i) ==
    /\ a \in Buttons(i, drawn[i]) /\ Enabled(a, i)
    /\ Cardinality(pressed) < MaxPressed
    /\ pressed' = pressed \union {[action |-> a, item |-> i, drawing |-> drawing, at |-> "sent", result |-> "none"]}
    /\ status' = [action |-> "working", item |-> "none", outcome |-> "none"]
    /\ UNCHANGED <<records, drawing, drawn, loads, followVars>>

ReloadRecords ==
    /\ drawing > 0 /\ loads = 0 /\ loads' = 1
    /\ UNCHANGED <<records, drawing, drawn, pressed, status, followVars>>

Serves(p, r) == pressed' = (pressed \ {p}) \union {[p EXCEPT !.at = "done", !.result = r]}

\* What the API makes of a request, or refuses to. A record that was preserved
\* before is preserved still; what is not preserved cannot be downloaded.
Served(p) ==
    /\ records[p.item] # "absent"
    /\ \/ /\ p.action \in {"finalize", "approve"}
          /\ records' = [records EXCEPT ![p.item] = IF @ = "pending" THEN "preserved" ELSE @]
          /\ Serves(p, "ok")
       \/ /\ p.action = "verify" /\ records[p.item] # "pending"
          /\ \E s \in {"preserved", "integrity_failed"} :
                records' = [records EXCEPT ![p.item] = s] /\ Serves(p, s)
       \/ /\ p.action \in {"events", "download"}
          /\ p.action = "download" => records[p.item] = "preserved"
          /\ records' = records /\ Serves(p, "ok")

ApiServes(p) ==
    /\ p.at = "sent" /\ Served(p)
    /\ UNCHANGED <<drawing, drawn, loads, status, followVars>>

\* The form of the files; its answer may be lost, and then the list is not loaded.
UploadEvidence ==
    /\ drawing > 0 /\ records["evidence"] = "absent" /\ loads < 2
    /\ records' = [records EXCEPT !["evidence"] = "pending"]
    /\ loads' \in {loads, loads + 1}
    /\ UNCHANGED <<drawing, drawn, pressed, status, followVars>>

AnswerCame(p) == p.at = "done"

\* After an approval, a finalisation and a verification the list is loaded.
Ended(p) ==
    /\ AnswerCame(p) /\ loads < 2
    /\ pressed' = pressed \ {p}
    /\ status' = [action |-> p.action, item |-> p.item, outcome |-> p.result]
    /\ loads' = IF p.action \in {"finalize", "approve", "verify"} THEN loads + 1 ELSE loads
    /\ UNCHANGED <<records, drawing, drawn, followVars>>

FailedStatus == [action |-> "error", item |-> "none", outcome |-> "none"]

PressFails(p) ==
    /\ pressed' = pressed \ {p} /\ status' = FailedStatus
    /\ UNCHANGED <<records, drawing, drawn, loads, followVars>>

LoadsList ==
    /\ loads > 0 /\ drawing < MaxRedraws
    /\ loads' = loads - 1 /\ drawing' = drawing + 1 /\ drawn' = records
    /\ UNCHANGED <<records, pressed, status, followVars>>
LoadFails ==
    /\ loads > 0 /\ loads' = loads - 1 /\ status' = FailedStatus
    /\ UNCHANGED <<records, drawing, drawn, pressed, followVars>>

ListsNext ==
    \/ MountRecords \/ UploadEvidence \/ ReloadRecords \/ LoadsList \/ LoadFails
    \/ \E i \in Items, a \in {"finalize", "verify", "download", "events", "approve"} : Press(a, i)
    \/ \E p \in pressed : ApiServes(p) \/ Ended(p) \/ PressFails(p)

IntegrationNext == AgentsNext \/ ListsNext

\* A request is answered or given up after 30 seconds, the timers fire.
IntegrationFairness ==
    /\ WF_integrationVars(ApiRegisters \/ RegisterFails)
    /\ WF_integrationVars(AnalysesLoaded \/ LastLoad \/ Paused)
    /\ WF_integrationVars(AskAnalysis \/ AskFails \/ OutOfTime)
    /\ WF_integrationVars(TwoMinutes)

(***************************************************************************)
(* Properties.                                                             *)
(***************************************************************************)
\* What the panel says of the analysis sent last is what the API has of it:
\* registered, failed, or waiting for the review.
NoticeIsTrue ==
    /\ notice \in {"registered", "still registered"} => current \in Registered
    /\ notice = "ready" => analyses[current] = "pending_human_review"
    /\ notice = "failed" => analyses[current] = "failed"

\* An analysis is not sent again while the panel follows the one before it: of
\* those it has registered the earlier were told an end before.
OneAnalysisFollowed ==
    [][step' = "posting" /\ step # "posting" => notice \in {"none", "ready", "failed", "still registered", "error"}]_integrationVars

\* The panel says a file is preserved, or a report approved, when the API has
\* preserved it, whatever other buttons were pressed meanwhile.
StatusIsTrue == status.action \in {"finalize", "approve"} => records[status.item] \notin {"absent", "pending"}

\* Every button that was pressed is told an end.
EveryPressIsTold == status.action = "working" => pressed # {}

\* What the panels say is what the API has, and every press is told an end.
IntegrationSafety == NoticeIsTrue /\ StatusIsTrue /\ EveryPressIsTold
=============================================================================
