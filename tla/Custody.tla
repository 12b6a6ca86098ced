------------------------------- MODULE Custody -------------------------------
(***************************************************************************)
(* app/api/v1/evidence.py, services/evidence_ledger.py, the reports of     *)
(* reports.py and the status of an investigation: an original is staged,   *)
(* preserved in the vault, verified, attested and held, with one custody   *)
(* event by step, and cited by a report.  A request reads, calls the vault *)
(* and commits later; under READ COMMITTED others commit in between, and a *)
(* column is written only when it differs from what the request read.      *)
(* Users have the roles and the MFA that a step asks for.                  *)
(***************************************************************************)
EXTENDS Naturals, FiniteSets

CONSTANTS
    Items, Users,
    MaxBegun,      \* bound: requests begun in a behaviour
    MaxTogether    \* bound: requests between their read and their commit

ASSUME CustodyAssumption == MaxBegun \in Nat /\ MaxTogether \in Nat

VARIABLES
    row,           \* of each item: status, recorded version (0: none), hold
    disk,          \* items whose staged file is there
    kept,          \* versions of each item in the vault
    damaged,       \* versions whose bytes no longer have the recorded hash
    underHold,     \* versions under a legal hold there
    events,        \* custody events of each item; "at" is the transaction's start
    holds,         \* legal hold rows
    inquiry,       \* status of the investigation
    report,        \* a report: status, what it cites, manifest, stored version
    requests,      \* requests that have read and not committed
    begun,         \* requests begun: the clock of created_at
    alone,         \* history: items no two requests worked on at once
    settled,       \* history: no two changes of its status at once
    lost,          \* history: items whose staged file the host lost
    deletions      \* history: deletions of the investigation committed

custodyVars == <<row, disk, kept, damaged, underHold, events, holds, inquiry, report, requests,
                 begun, alone, settled, lost, deletions>>
vaultVars == <<kept, damaged, underHold>>
caseVars == <<inquiry, settled, deletions>>

ActiveStatuses == {"em_coleta"}   \* one of the three that count as active
CaseStatuses == ActiveStatuses \union {"encerrada", "deleted"}
Sound == {"preserved", "validated"}

CustodyInit ==
    /\ row = [e \in Items |-> [status |-> "none", version |-> 0, hold |-> FALSE]]
    /\ disk = {} /\ lost = {} /\ alone = Items /\ holds = {}
    /\ kept = [e \in Items |-> 0]
    /\ damaged = {} /\ underHold = {}
    /\ events = [e \in Items |-> {}]
    /\ inquiry = "em_coleta" /\ settled = TRUE /\ deletions = 0
    /\ report = [status |-> "none", cites |-> {}, manifest |-> {}, version |-> 0, approvals |-> 0]
    /\ requests = {} /\ begun = 0

(***************************************************************************)
(* append_evidence_event takes as previous the latest event by created_at, *)
(* which PostgreSQL sets to the start of the transaction.                  *)
(***************************************************************************)
LatestEvent(e) == IF events[e] = {} THEN 0
             ELSE CHOOSE t \in {x.at : x \in events[e]} : \A x \in events[e] : x.at <= t

HasVersion(e) == row[e].version # 0
On(e) == {r \in requests : r.op = "row" /\ r.item = e}

\* FOR UPDATE of finalize_evidence, or a row changed and not yet committed.
LockedBy(r, e) == r \in On(e) /\ (r.kind = "object_lock_stored"
                                    \/ (r.written /\ DOMAIN r.changed # {}))

Differing(saw, wanted) == [f \in {g \in DOMAIN saw : saw[g] # wanted[g]} |-> wanted[f]]

BeginRequest(r) ==
    /\ begun < MaxBegun /\ Cardinality(requests) < MaxTogether
    /\ begun' = begun + 1
    /\ requests' = requests \union {r}

\* A request of kind, the custody event it appends, that leaves row e as wanted.
Work(e, kind, wanted, hold) ==
    /\ row[e].status # "none"
    /\ BeginRequest([op |-> "row", item |-> e, kind |-> kind, at |-> begun + 1, written |-> FALSE,
                     wanted |-> wanted, changed |-> Differing(row[e], wanted), prev |-> 0,
                     hold |-> hold])
    /\ alone' = IF On(e) = {} THEN alone ELSE alone \ {e}
    /\ UNCHANGED <<row, disk, events, holds, report, lost, caseVars>>

NoHold == [item |-> "none"]

(***************************************************************************)
(* Uploads insert a row of their own with its first event.                 *)
(***************************************************************************)
Upload(e) ==
    /\ row[e].status = "none" /\ inquiry \in ActiveStatuses /\ begun < MaxBegun
    /\ row' = [row EXCEPT ![e].status = "pending"]
    /\ disk' = disk \union {e} /\ begun' = begun + 1
    /\ events' = [events EXCEPT ![e] = {[at |-> begun + 1, prev |-> 0, kind |-> "upload_staged",
                                         told |-> "pending", version |-> 0]}]
    /\ UNCHANGED <<vaultVars, holds, report, requests, alone, lost, caseVars>>

(* Mutant: the row is read without its lock. *)
UnlockedFinalizeEvidence(e) ==
    /\ ~HasVersion(e) /\ e \in disk
    /\ kept' = [kept EXCEPT ![e] = @ + 1]
    /\ Work(e, "object_lock_stored", [row[e] EXCEPT !.version = kept[e] + 1, !.status = "preserved"], NoHold)
    /\ UNCHANGED <<damaged, underHold>>

\* finalize_evidence locks the row and stores the staged file; a preserved
\* item is answered with its version, and nothing changes.
FinalizeEvidence(e) ==
    /\ ~ \E r \in requests : LockedBy(r, e)
    /\ ~HasVersion(e) /\ e \in disk
    /\ kept' = [kept EXCEPT ![e] = @ + 1]
    /\ Work(e, "object_lock_stored", [row[e] EXCEPT !.version = kept[e] + 1, !.status = "preserved"], NoHold)
    /\ UNCHANGED <<damaged, underHold>>

\* verify_evidence compares the bytes of the recorded version.
VerifyEvidence(e) ==
    /\ HasVersion(e)
    /\ Work(e, "integrity_check",
            [row[e] EXCEPT !.status = IF <<e, row[e].version>> \in damaged THEN "integrity_failed"
                                      ELSE "validated"], NoHold)
    /\ UNCHANGED vaultVars

AttestEvidence(e) ==
    /\ HasVersion(e) /\ row[e].status \in Sound
    /\ Work(e, "human_attestation", [row[e] EXCEPT !.status = "validated"], NoHold)
    /\ UNCHANGED vaultVars

RequestHold(e, u) ==
    /\ Work(e, "legal_hold_requested", row[e],
            [item |-> e, id |-> begun + 1, by |-> u, confirmed |-> FALSE, who |-> u])
    /\ UNCHANGED vaultVars

\* confirm_legal_hold puts the version under hold in the vault first.
ConfirmHold(h, u) ==
    /\ h.by # u /\ HasVersion(h.item)
    /\ underHold' = underHold \union {<<h.item, row[h.item].version>>}
    /\ Work(h.item, "legal_hold_confirmed", [row[h.item] EXCEPT !.hold = TRUE],
            [h EXCEPT !.confirmed = TRUE, !.who = u])
    /\ UNCHANGED <<kept, damaged>>

\* append_evidence_event: its query flushes the changed columns, which waits
\* for the row, then finds the previous event.
AppendEvent(r) ==
    /\ r.op = "row" /\ ~r.written
    /\ DOMAIN r.changed # {} => ~ \E o \in requests \ {r} : LockedBy(o, r.item)
    /\ requests' = (requests \ {r}) \union {[r EXCEPT !.written = TRUE, !.prev = LatestEvent(r.item)]}
    /\ UNCHANGED <<row, disk, vaultVars, events, holds, report, begun, alone, lost, caseVars>>

Told(r) == IF r.kind \in {"legal_hold_requested", "legal_hold_confirmed"} THEN "nothing" ELSE r.wanted.status

CommitRow(r) ==
    /\ r.op = "row" /\ r.written
    /\ row' = [row EXCEPT ![r.item] =
                 [f \in DOMAIN @ |-> IF f \in DOMAIN r.changed THEN r.changed[f] ELSE @[f]]]
    /\ events' = [events EXCEPT ![r.item] = @ \union
                    {[at |-> r.at, prev |-> r.prev, kind |-> r.kind, told |-> Told(r),
                      version |-> IF r.kind = "object_lock_stored" THEN r.wanted.version ELSE 0]}]
    /\ holds' = IF r.hold = NoHold THEN holds
                ELSE {h \in holds : h.id # r.hold.id} \union {r.hold}
    /\ requests' = requests \ {r}
    /\ UNCHANGED <<disk, vaultVars, report, begun, alone, lost, caseVars>>

\* cleanup_stage follows the commit of the preserved version; it may fail.
CleanUpStage(e) ==
    /\ HasVersion(e) /\ e \in disk /\ disk' = disk \ {e}
    /\ UNCHANGED <<row, vaultVars, events, holds, report, requests, begun, alone, lost, caseVars>>

(***************************************************************************)
(* Reports: a draft cites evidence; its approval locks the report, reads   *)
(* the evidence and stores the document with its manifest.                 *)
(***************************************************************************)
CreateReport(cites) ==
    /\ report.status = "none" /\ inquiry \in ActiveStatuses
    /\ \A e \in cites : row[e].status # "none"
    /\ report' = [report EXCEPT !.status = "DRAFT", !.cites = cites]
    /\ UNCHANGED <<row, disk, vaultVars, events, holds, requests, begun, alone, lost, caseVars>>

BeginApprove ==
    /\ report.status = "DRAFT" /\ ~ \E r \in requests : r.op = "approve"
    /\ inquiry \in ActiveStatuses
    /\ \A e \in report.cites : HasVersion(e) /\ row[e].status \in Sound
    /\ BeginRequest([op |-> "approve", at |-> begun + 1,
                     manifest |-> {<<e, row[e].version>> : e \in report.cites}])
    /\ UNCHANGED <<row, disk, vaultVars, events, holds, report, alone, lost, caseVars>>

CommitApprove(r) ==
    /\ r.op = "approve"
    /\ report' = [report EXCEPT !.status = "FINAL", !.manifest = r.manifest, !.version = r.at,
                                !.approvals = @ + 1]
    /\ requests' = requests \ {r}
    /\ UNCHANGED <<row, disk, vaultVars, events, holds, begun, alone, lost, caseVars>>

(***************************************************************************)
(* update_investigation_status and delete_investigation.                   *)
(***************************************************************************)
BeginStatus(status) ==
    /\ inquiry # "deleted"
    /\ BeginRequest([op |-> "status", saw |-> inquiry, to |-> status])
    /\ settled' = (settled /\ ~ \E r \in requests : r.op = "status")
    /\ UNCHANGED <<row, disk, vaultVars, events, holds, inquiry, report, alone, lost, deletions>>

CommitStatus(r) ==
    /\ r.op = "status"
    /\ inquiry' = IF r.to = r.saw THEN inquiry ELSE r.to
    /\ deletions' = IF r.to = "deleted" THEN deletions + 1 ELSE deletions
    /\ requests' = requests \ {r}
    /\ UNCHANGED <<row, disk, vaultVars, events, holds, report, begun, alone, lost, settled>>

(***************************************************************************)
(* A request fails and is rolled back: what it did in the vault stays.     *)
(***************************************************************************)
RollBackRequest(r) ==
    /\ requests' = requests \ {r}
    /\ UNCHANGED <<row, disk, vaultVars, events, holds, report, begun, alone, lost, caseVars>>

\* The host loses its staging area, or the vault the bytes of a version.
LoseStage(e) ==
    /\ e \in disk /\ disk' = disk \ {e} /\ lost' = lost \union {e}
    /\ UNCHANGED <<row, vaultVars, events, holds, report, requests, begun, alone, caseVars>>

Damage(e) ==
    /\ HasVersion(e) /\ damaged' = damaged \union {<<e, row[e].version>>}
    /\ UNCHANGED <<row, disk, kept, underHold, events, holds, report, requests, begun, alone, lost, caseVars>>

CustodyNext ==
    \/ \E e \in Items : \/ Upload(e) \/ FinalizeEvidence(e) \/ VerifyEvidence(e) \/ AttestEvidence(e)
                        \/ CleanUpStage(e) \/ LoseStage(e) \/ Damage(e)
                        \/ \E u \in Users : RequestHold(e, u)
    \/ \E h \in holds, u \in Users : ConfirmHold(h, u)
    \/ \E cites \in SUBSET Items : CreateReport(cites)
    \/ BeginApprove
    \/ \E status \in CaseStatuses : BeginStatus(status)
    \/ \E r \in requests : \/ AppendEvent(r) \/ CommitRow(r) \/ CommitApprove(r)
                           \/ CommitStatus(r) \/ RollBackRequest(r)

CustodySpec == CustodyInit /\ [][CustodyNext]_custodyVars

(***************************************************************************)
(* Properties.                                                             *)
(***************************************************************************)

\* Unless the host lost it, an original is in its staging area or in the vault
\* under the version the row records, whatever failed or overlapped.
OriginalIsRecoverable ==
    \A e \in Items : row[e].status # "none" /\ e \notin lost =>
        e \in disk \/ row[e].version \in 1..kept[e]

\* A preserved item has one custody event that names its version: a retried or
\* overlapping finalisation never replaces the version that was recorded.
RecordedOnce ==
    \A e \in Items :
        {x.version : x \in {y \in events[e] : y.kind = "object_lock_stored"}}
            = IF HasVersion(e) THEN {row[e].version} ELSE {}

StatusEvents(e) == {x \in events[e] : x.told # "nothing"}
LastBefore(e, t) == {x \in StatusEvents(e) : x.at < t /\ \A y \in StatusEvents(e) : y.at < t => y.at <= x.at}

\* What an item's row says of it some event says too; where no two requests
\* worked on the item at once, it is what the last one says, and nobody
\* attested what the check before had found damaged.
StatusIsTold ==
    \A e \in Items : row[e].status # "none" =>
        /\ \E x \in StatusEvents(e) : x.told = row[e].status
        /\ e \in alone =>
              /\ \A x \in LastBefore(e, begun + 1) : x.told = row[e].status
              /\ \A x \in StatusEvents(e) : x.kind = "human_attestation" =>
                    \A y \in LastBefore(e, x.at) : y.told # "integrity_failed"

\* A row under hold was confirmed by somebody else than who asked, and the
\* version it records is under hold in the vault.
HoldIsApplied ==
    \A e \in Items : row[e].hold =>
        /\ <<e, row[e].version>> \in underHold
        /\ \E h \in holds : h.item = e /\ h.confirmed /\ h.who # h.by

\* The events of an item form a tree that starts with its upload; where no two
\* requests worked on the item at once, each follows the one before it.
EventsAreChained ==
    \A e \in Items : \A x \in events[e] :
        /\ (x.prev = 0) <=> (x.kind = "upload_staged")
        /\ x.prev = 0 \/ \E y \in events[e] : y.at = x.prev
        /\ e \in alone => ~ \E y \in events[e] : x.prev < y.at /\ y.at < x.at

\* A final report was approved once, and its manifest names, for all that it
\* cites, the version the vault keeps and the row records for good.
ReportsArePreserved ==
    report.status = "FINAL" =>
        /\ report.approvals = 1
        /\ {m[1] : m \in report.manifest} = report.cites
        /\ \A m \in report.manifest : m[2] = row[m[1]].version /\ m[2] \in 1..kept[m[1]]

\* A deleted investigation stays deleted, unless status changes overlapped.
DeletedStaysDeleted == settled /\ deletions > 0 => inquiry = "deleted"

\* Custody of evidence holds under failed, retried and overlapping requests.
CustodySafety ==
    /\ OriginalIsRecoverable /\ RecordedOnce /\ StatusIsTold /\ HoldIsApplied
    /\ EventsAreChained /\ ReportsArePreserved /\ DeletedStaysDeleted
=============================================================================
