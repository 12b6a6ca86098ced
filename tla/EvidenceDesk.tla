----------------------------- MODULE EvidenceDesk -----------------------------
(***************************************************************************)
(* assets/js/app.js: how the page makes evidence of a finding, of a text    *)
(* and of the answer of an OSINT tool.  createBackendEvidenceRecord is a    *)
(* chain of requests; any of them may fail, or be carried out and its       *)
(* answer lost, and several chains may be under way.  What the page shows   *)
(* of the records may be of any earlier time.                               *)
(***************************************************************************)
EXTENDS Naturals, FiniteSets

CONSTANTS
    MaxEvidence,   \* bound: originals the API takes
    Chains,        \* what the user may have under way together
    Tools, NoTool  \* the tools of the OSINT page

ASSUME EvidenceAssumption == MaxEvidence \in Nat

VARIABLES
    evidence,   \* of the API: number |-> its state, and the tools its name and its content are of
    finding,    \* of the API: the evidence it refers to, and the reviewer's validation
    chain,      \* chain |-> the next request, what it makes, its number, warning
    toast,       \* the last toast of a chain, and the evidence it is about
    toolState   \* osintToolsState: the tool selected, the one asked, the one of lastResult

evidenceVars == <<evidence, finding, chain, toast, toolState>>

Idle == [at |-> "idle", what |-> "none", id |-> 0, name |-> NoTool, content |-> NoTool,
         warning |-> FALSE]

EvidenceInit ==
    /\ evidence = [e \in 1..MaxEvidence |-> [state |-> "none", name |-> NoTool, content |-> NoTool]]
    /\ finding = [evidence |-> 0, validated |-> FALSE]
    /\ chain = [c \in Chains |-> Idle] /\ toast = [said |-> "nothing", id |-> 0]
    /\ toolState = [selected |-> NoTool, asked |-> NoTool, last |-> NoTool]

Preserved(e) == evidence[e].state \in {"preserved", "attested"}

-----------------------------------------------------------------------------
\* Choosing a tool forgets the result; the button is disabled while a query is
\* under way, and its answer is kept with the tool that was asked.
SelectTool(t) ==
    /\ toolState' = [toolState EXCEPT !.selected = t, !.last = NoTool]
    /\ UNCHANGED <<evidence, finding, chain, toast>>
RunTool ==
    /\ toolState.selected # NoTool /\ toolState.asked = NoTool
    /\ toolState' = [toolState EXCEPT !.asked = toolState.selected]
    /\ UNCHANGED <<evidence, finding, chain, toast>>
ToolAnswers ==
    /\ toolState.asked # NoTool
    /\ toolState' = [toolState EXCEPT !.asked = NoTool, !.last = toolState.asked]
    /\ UNCHANGED <<evidence, finding, chain, toast>>
\* The error is the result, and has no button to preserve it.
ToolFails ==
    /\ toolState.asked # NoTool
    /\ toolState' = [toolState EXCEPT !.asked = NoTool, !.last = NoTool]
    /\ UNCHANGED <<evidence, finding, chain, toast>>

-----------------------------------------------------------------------------
Starts(c, first) == chain[c].at = "idle" /\ chain' = [chain EXCEPT ![c] = first]
Apart == UNCHANGED <<evidence, finding, toast, toolState>>

Promote(c) == Starts(c, [Idle EXCEPT !.at = "upload", !.what = "finding"]) /\ Apart
SaveManual(c) == Starts(c, [Idle EXCEPT !.at = "upload", !.what = "text"]) /\ Apart

\* Name and content are both of the last result.
Preserve(c) ==
    /\ toolState.last # NoTool
    /\ Starts(c, [Idle EXCEPT !.at = "upload", !.what = "tool",
                    !.name = toolState.last, !.content = toolState.last])
    /\ Apart

\* Only evidence that was pending when the copy was read has the button.
ValidateEvidence(c, e) ==
    /\ evidence[e].state # "none"
    /\ Starts(c, [Idle EXCEPT !.at = "attest", !.what = "attestation", !.id = e]) /\ Apart
ValidateFinding(c) ==
    /\ Starts(c, [Idle EXCEPT !.at = "review", !.what = "review"]) /\ Apart

-----------------------------------------------------------------------------
Goes(c, at) == chain' = [chain EXCEPT ![c].at = at]
Ends(c, said, id) ==
    /\ chain' = [chain EXCEPT ![c] = Idle]
    /\ toast' = [said |-> said, id |-> id]
\* A request is refused, not carried out, or its answer is lost.
Errs(c) == Ends(c, "error", 0)

\* POST /evidences/uploads stages the original under a new number.
Staged(c, e) ==
    /\ chain[c].at = "upload"
    /\ e = Cardinality({f \in 1..MaxEvidence : evidence[f].state # "none"}) + 1
    /\ evidence' = [evidence EXCEPT ![e] =
          [state |-> "staged", name |-> chain[c].name, content |-> chain[c].content]]
    /\ \/ chain' = [chain EXCEPT ![c].at = "finalize", ![c].id = e] /\ UNCHANGED toast
       \/ Errs(c)
    /\ UNCHANGED <<finding, toolState>>

(* Mutant: the request that preserves the original is not looked at. *)
WarningNone(answered) == FALSE

\* An error of the second request is kept as a warning, and the chain goes on.
Warning(answered) == ~answered

AfterUpload(c) == IF chain[c].what = "finding" THEN "link" ELSE "refresh"

\* POST /evidences/{id}/finalize: the vault may be out of reach, or its answer lost.
Finalize(c) ==
    /\ chain[c].at = "finalize"
    /\ \E kept, answered \in BOOLEAN :
         /\ answered => kept
         /\ evidence' = IF kept THEN [evidence EXCEPT ![chain[c].id].state = "preserved"] ELSE evidence
         /\ chain' = [chain EXCEPT ![c].at = AfterUpload(c), ![c].warning = Warning(answered)]
    /\ UNCHANGED <<finding, toast, toolState>>

\* PATCH /findings/{id} with the evidence; without it the chain ends in error.
Link(c) ==
    /\ chain[c].at = "link"
    /\ finding' = [finding EXCEPT !.evidence = chain[c].id]
    /\ (Goes(c, "refresh") /\ UNCHANGED toast) \/ Errs(c)
    /\ UNCHANGED <<evidence, toolState>>

\* POST /evidences/{id}/attest takes only what is preserved.
Attest(c) ==
    /\ chain[c].at = "attest" /\ Preserved(chain[c].id)
    /\ evidence' = [evidence EXCEPT ![chain[c].id].state = "attested"]
    /\ (Goes(c, "refresh") /\ UNCHANGED toast) \/ Errs(c)
    /\ UNCHANGED <<finding, toolState>>

\* PATCH /findings/{id}; the page changes its own copy and reads nothing again.
Review(c) ==
    /\ chain[c].at = "review"
    /\ finding' = [finding EXCEPT !.validated = TRUE]
    /\ Ends(c, "reviewed", 0) \/ Errs(c)
    /\ UNCHANGED <<evidence, toolState>>

RequestFails(c) ==
    /\ chain[c].at \notin {"idle", "finalize"}
    /\ Errs(c)
    /\ UNCHANGED <<evidence, finding, toolState>>

-----------------------------------------------------------------------------
SaidAtEnd(c) ==
    CASE chain[c].what = "attestation" -> "validated"
      [] chain[c].warning -> "pending"
      [] OTHER -> "done"

\* The records are read again, and the user is told.
RefreshRecords(c) ==
    /\ chain[c].at = "refresh"
    /\ Ends(c, SaidAtEnd(c), chain[c].id)
    /\ UNCHANGED <<evidence, finding, toolState>>

ChainRequests(c) ==
    \/ Finalize(c) \/ RequestFails(c) \/ RefreshRecords(c) \/ \E e \in 1..MaxEvidence : Staged(c, e)

EvidenceNext ==
    \E c \in Chains :
        \/ Promote(c) \/ SaveManual(c) \/ ValidateFinding(c)
        \/ \E e \in 1..MaxEvidence : ValidateEvidence(c, e)
        \/ Link(c) \/ Attest(c) \/ Review(c) \/ ChainRequests(c)
ToolNext ==
    \/ RunTool \/ ToolAnswers \/ ToolFails
    \/ \E t \in Tools : SelectTool(t)
    \/ \E c \in Chains : Preserve(c) \/ Promote(c) \/ Link(c) \/ ChainRequests(c)

(***************************************************************************)
(* Properties.                                                             *)
(***************************************************************************)
\* Who is told without a reservation that evidence was made, or that it or the
\* finding was validated, finds it so at the API, whichever of the requests
\* failed or lost its answer; "made" is preserved in the vault.
ToldIsDone ==
    /\ toast.said = "done" => Preserved(toast.id)
    /\ toast.said = "validated" => evidence[toast.id].state = "attested"
    /\ toast.said = "reviewed" => finding.validated

\* A finding refers only to an original that exists and was taken for it, and
\* one that was made of a tool's answer has the name of that tool, whichever
\* tool the page has come to show meanwhile.
EvidenceIsOfItsSource ==
    /\ finding.evidence # 0 =>
         evidence[finding.evidence].state # "none" /\ evidence[finding.evidence].name = NoTool
    /\ \A e \in 1..MaxEvidence : evidence[e].name = evidence[e].content

\* What the user was told about an evidence record was done, to its own source.
EvidenceSafety == ToldIsDone /\ EvidenceIsOfItsSource
=============================================================================
