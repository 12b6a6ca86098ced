----------------------------- MODULE RecordsProofs -----------------------------
(***************************************************************************)
(* What the records of the API and the desks that change them promise:     *)
(* Custody of the evidence and the case, for any items, users and          *)
(* requests that overlap; and the pages of evidence and of investigation,  *)
(* the forms, the copy of the records and the file of a process, for any   *)
(* chains of requests and any clicks.                                      *)
(***************************************************************************)
EXTENDS MCRecords, Folding

-----------------------------------------------------------------------------
(* Evidence, its events and holds, reports and the case. *)

Columns == {"status", "version", "hold"}
Statuses == {"pending", "preserved", "validated", "integrity_failed"}
HoldKinds == {"legal_hold_requested", "legal_hold_confirmed"}
WorkKinds == {"object_lock_stored", "integrity_check", "human_attestation"} \union HoldKinds
ItemRows == [status : Statuses \union {"none"}, version : Nat, hold : BOOLEAN]
EventRows == [at : Nat, prev : Nat, kind : WorkKinds \union {"upload_staged"},
              told : Statuses \union {"nothing"}, version : Nat]
HoldRows == [item : Items, id : Nat, by : Users, confirmed : BOOLEAN, who : Users]

\* What a request that works on an item carries.
WorkTyped(r) ==
    /\ r = [op |-> "row", item |-> r.item, kind |-> r.kind, at |-> r.at, written |-> r.written,
            wanted |-> r.wanted, changed |-> r.changed, prev |-> r.prev, hold |-> r.hold]
    /\ r.item \in Items /\ r.kind \in WorkKinds /\ r.written \in BOOLEAN /\ r.prev \in Nat
    /\ r.wanted \in ItemRows /\ r.wanted.status # "none"
    /\ DOMAIN r.changed \subseteq Columns
    /\ \A f \in DOMAIN r.changed : r.changed[f] = r.wanted[f]
    /\ r.kind \in HoldKinds => r.hold \in HoldRows /\ r.hold.item = r.item
    /\ r.kind \notin HoldKinds => r.hold = NoHold

RequestTyped(r) ==
    /\ r.op \in {"row", "approve", "status"}
    /\ r.op = "row" => WorkTyped(r) /\ r.at \in Nat

CustodyTyped ==
    /\ row \in [Items -> ItemRows] /\ kept \in [Items -> Nat] /\ begun \in Nat
    /\ events \in [Items -> SUBSET EventRows] /\ holds \subseteq HoldRows
    /\ alone \subseteq Items
    /\ \A e \in Items : events[e] # {} => \E x \in events[e] : \A y \in events[e] : y.at <= x.at
    /\ \A r \in requests : RequestTyped(r)

\* Who works on an item: a finalisation alone of its kind, on a row without a
\* version; any other but the request of a hold, on a row that has one.
WorkFits(r) ==
    /\ row[r.item].status # "none" /\ r.at \in 1..begun
    /\ r.kind = "object_lock_stored" =>
          /\ ~HasVersion(r.item) /\ "version" \in DOMAIN r.changed
          /\ r.wanted.version \in 1..kept[r.item]
    /\ r.kind \in {"integrity_check", "human_attestation", "legal_hold_confirmed"} => HasVersion(r.item)
    /\ r.kind # "object_lock_stored" => "version" \notin DOMAIN r.changed
    /\ r.kind # "legal_hold_confirmed" => "hold" \notin DOMAIN r.changed
    /\ r.kind \in HoldKinds => "status" \notin DOMAIN r.changed
    /\ r.kind = "legal_hold_confirmed" => r.wanted.hold

RowsFit ==
    \A e \in Items :
        /\ row[e].status = "none" => ~HasVersion(e) /\ events[e] = {}
        /\ HasVersion(e) => row[e].version <= kept[e]
        /\ row[e].hold => HasVersion(e)

Works == {r \in requests : r.op = "row"}

VersionsStand ==
    /\ RowsFit
    /\ \A r \in Works : WorkFits(r)
    /\ \A r, s \in Works : r.at = s.at => r = s
    /\ \A r, s \in Works :
          r.kind = "object_lock_stored" /\ s.kind = "object_lock_stored" /\ r.item = s.item => r = s

EventsFit ==
    /\ \A e \in Items : row[e].status # "none" => \E x \in events[e] : x.told = row[e].status
    /\ \A e \in Items : \A x \in events[e] :
          /\ x.at \in 1..begun
          /\ (x.prev = 0) <=> (x.kind = "upload_staged")
          /\ x.prev = 0 \/ \E y \in events[e] : y.at = x.prev
    /\ \A r \in Works : r.written => r.prev # 0 /\ \E y \in events[r.item] : y.at = r.prev

HoldsFit ==
    /\ \A h \in holds : h.id <= begun
    /\ \A h, k \in holds : h.id = k.id => h.item = k.item
    /\ \A r \in Works :
          /\ r.kind = "legal_hold_requested" => r.hold.id = r.at /\ \A h \in holds : h.id # r.at
          /\ r.kind = "legal_hold_confirmed" =>
                /\ <<r.item, row[r.item].version>> \in underHold
                /\ r.hold.confirmed /\ r.hold.who # r.hold.by
                /\ \E h \in holds : h.id = r.hold.id /\ h.item = r.item

ReportFits ==
    /\ report = [status |-> report.status, cites |-> report.cites, manifest |-> report.manifest,
                 version |-> report.version, approvals |-> report.approvals]
    /\ report.cites \subseteq Items
    /\ report.status # "FINAL" => report.approvals = 0
    /\ \A r \in requests : r.op = "approve" =>
          /\ report.status = "DRAFT" /\ \A e \in report.cites : HasVersion(e)
          /\ r.manifest = {<<e, row[e].version>> : e \in report.cites}
          /\ \A s \in requests : s.op = "approve" => s = r

CaseFits ==
    /\ deletions \in Nat
    /\ settled => \A r \in requests : r.op = "status" =>
          /\ r.saw = inquiry /\ inquiry # "deleted"
          /\ \A s \in requests : s.op = "status" => s = r

(* What a step that begins work on an item does, whichever it is.            *)
Begins(r) ==
    /\ requests' = requests \union {r} /\ begun' = begun + 1
    /\ alone' = IF On(r.item) = {} THEN alone ELSE alone \ {r.item}
    /\ UNCHANGED <<row, disk, events, holds, report, lost, caseVars>>
    /\ kept' \in [Items -> Nat] /\ \A e \in Items : kept[e] <= kept'[e]
    /\ underHold \subseteq underHold'
    /\ r.op = "row" /\ WorkTyped(r) /\ r.at = begun + 1 /\ ~r.written
    /\ row[r.item].status # "none"
    /\ r.kind = "object_lock_stored" =>
          /\ ~HasVersion(r.item) /\ "version" \in DOMAIN r.changed
          /\ r.wanted.version \in 1..kept'[r.item]
          /\ \A s \in Works : s.kind = "object_lock_stored" => s.item # r.item
    /\ r.kind \in {"integrity_check", "human_attestation", "legal_hold_confirmed"} => HasVersion(r.item)
    /\ r.kind # "object_lock_stored" => "version" \notin DOMAIN r.changed
    /\ r.kind # "legal_hold_confirmed" => "hold" \notin DOMAIN r.changed
    /\ r.kind \in HoldKinds => "status" \notin DOMAIN r.changed
    /\ r.kind = "legal_hold_requested" => r.hold.id = r.at
    /\ r.kind = "legal_hold_confirmed" =>
          /\ r.wanted.hold /\ <<r.item, row[r.item].version>> \in underHold'
          /\ r.hold.confirmed /\ r.hold.who # r.hold.by
          /\ \E h \in holds : h.id = r.hold.id /\ h.item = r.item
    /\ "status" \in DOMAIN r.changed \/ Told(r) \in {"nothing", row[r.item].status}
    /\ r.kind = "human_attestation" => row[r.item].status \in Sound

LEMMA ColumnsOf ==
  ASSUME NEW x \in ItemRows
  PROVE  /\ DOMAIN x = Columns
         /\ x["status"] = x.status /\ x["version"] = x.version /\ x["hold"] = x.hold
  BY DEF ItemRows, Columns

LEMMA DifferingIs ==
  ASSUME NEW saw \in ItemRows, NEW wanted \in ItemRows, NEW d, d = Differing(saw, wanted)
  PROVE  /\ DOMAIN d \subseteq Columns /\ \A f \in DOMAIN d : d[f] = wanted[f]
         /\ "status" \in DOMAIN d <=> saw.status # wanted.status
         /\ "version" \in DOMAIN d <=> saw.version # wanted.version
         /\ "hold" \in DOMAIN d <=> saw.hold # wanted.hold
  <1> DEFINE D == {g \in DOMAIN saw : saw[g] # wanted[g]}
  <1>1. DOMAIN d = D /\ \A f \in D : d[f] = wanted[f]
    BY DEF Differing
  <1>2. D = {g \in Columns : saw[g] # wanted[g]}
    BY ColumnsOf
  <1>3. /\ "status" \in D <=> saw["status"] # wanted["status"]
        /\ "version" \in D <=> saw["version"] # wanted["version"]
        /\ "hold" \in D <=> saw["hold"] # wanted["hold"]
    BY <1>2 DEF Columns
  <1> QED
    BY <1>1, <1>2, <1>3, ColumnsOf

(* The request that Work begins.                                             *)
NewWork(r, e, kind, wanted, hold) ==
    /\ requests' = requests \union {r} /\ begun' = begun + 1
    /\ alone' = (IF On(e) = {} THEN alone ELSE alone \ {e})
    /\ UNCHANGED <<row, disk, events, holds, report, lost, caseVars>>
    /\ row[e].status # "none"
    /\ r.op = "row" /\ WorkTyped(r) /\ r.at = begun + 1 /\ ~r.written
    /\ r.item = e /\ r.kind = kind /\ r.wanted = wanted /\ r.hold = hold
    /\ ("status" \in DOMAIN r.changed <=> row[e].status # wanted.status)
    /\ ("version" \in DOMAIN r.changed <=> row[e].version # wanted.version)
    /\ ("hold" \in DOMAIN r.changed <=> row[e].hold # wanted.hold)

(* Work begins one.                                             *)
LEMMA WorkBegins ==
  ASSUME CustodyTyped, NEW e \in Items, NEW kind \in WorkKinds, NEW wanted \in ItemRows, NEW hold,
         Work(e, kind, wanted, hold), wanted.status # "none",
         kind \in HoldKinds => hold \in HoldRows /\ hold.item = e, kind \notin HoldKinds => hold = NoHold
  PROVE  \E r : NewWork(r, e, kind, wanted, hold)
  <1> DEFINE d == Differing(row[e], wanted)
             r == [op |-> "row", item |-> e, kind |-> kind, at |-> begun + 1, written |-> FALSE,
                   wanted |-> wanted, changed |-> d, prev |-> 0, hold |-> hold]
  <1>1. /\ requests' = requests \union {r} /\ begun' = begun + 1
        /\ alone' = (IF On(e) = {} THEN alone ELSE alone \ {e})
        /\ UNCHANGED <<row, disk, events, holds, report, lost, caseVars>>
        /\ row[e].status # "none"
    BY DEF Work, BeginRequest
  <1>2. row[e] \in ItemRows
    BY DEF CustodyTyped
  <1>3. /\ DOMAIN d \subseteq Columns /\ \A f \in DOMAIN d : d[f] = wanted[f]
        /\ "status" \in DOMAIN d <=> row[e].status # wanted.status
        /\ "version" \in DOMAIN d <=> row[e].version # wanted.version
        /\ "hold" \in DOMAIN d <=> row[e].hold # wanted.hold
    <2> HIDE DEF d
    <2> d = Differing(row[e], wanted)
      BY DEF d
    <2> QED
      BY <1>2, DifferingIs
  <1> HIDE DEF d
  <1>4. WorkTyped(r)
    BY <1>3 DEF WorkTyped
  <1>5. /\ r.op = "row" /\ r.at = begun + 1 /\ ~r.written /\ r.item = e /\ r.kind = kind
        /\ r.wanted = wanted /\ r.hold = hold /\ r.changed = d
    OBVIOUS
  <1> HIDE DEF r
  <1> WITNESS r
  <1> QED
    BY <1>1, <1>3, <1>4, <1>5 DEF NewWork

Recorded(x, v, s) == [x EXCEPT !.version = v, !.status = s]

LEMMA RowRecorded ==
  ASSUME NEW x \in ItemRows, NEW v \in Nat, NEW s \in Statuses
  PROVE  /\ Recorded(x, v, s) \in ItemRows
         /\ Recorded(x, v, s).version = v /\ Recorded(x, v, s).status = s
         /\ Recorded(x, v, s).hold = x.hold
  <1> DEFINE y == Recorded(x, v, s)
  <1>0. y = [x EXCEPT !.version = v, !.status = s]
    BY DEF Recorded
  <1> HIDE DEF y
  <1>1. y \in ItemRows
    BY <1>0 DEF ItemRows, Statuses
  <1>2. y.version = v /\ y.status = s
    BY <1>0 DEF ItemRows, Statuses
  <1>3. y.hold = x.hold
    BY <1>0 DEF ItemRows, Statuses
  <1> QED
    BY <1>1, <1>2, <1>3 DEF y

Judged(x, s) == [x EXCEPT !.status = s]
Held(x) == [x EXCEPT !.hold = TRUE]
Confirmed(h, u) == [h EXCEPT !.confirmed = TRUE, !.who = u]

LEMMA RowJudged ==
  ASSUME NEW x \in ItemRows, NEW s \in Statuses
  PROVE  /\ Judged(x, s) \in ItemRows
         /\ Judged(x, s).version = x.version /\ Judged(x, s).status = s
         /\ Judged(x, s).hold = x.hold
  <1> DEFINE y == Judged(x, s)
  <1>0. y = [x EXCEPT !.status = s]
    BY DEF Judged
  <1> HIDE DEF y
  <1>1. y \in ItemRows
    BY <1>0 DEF ItemRows, Statuses
  <1>2. y.version = x.version /\ y.status = s
    BY <1>0 DEF ItemRows, Statuses
  <1>3. y.hold = x.hold
    BY <1>0 DEF ItemRows, Statuses
  <1> QED
    BY <1>1, <1>2, <1>3 DEF y

LEMMA RowHeld ==
  ASSUME NEW x \in ItemRows
  PROVE  /\ Held(x) \in ItemRows
         /\ Held(x).version = x.version /\ Held(x).status = x.status /\ Held(x).hold
  <1> DEFINE y == Held(x)
  <1>0. y = [x EXCEPT !.hold = TRUE]
    BY DEF Held
  <1> HIDE DEF y
  <1>1. y \in ItemRows
    BY <1>0 DEF ItemRows
  <1>2. y.version = x.version /\ y.status = x.status
    BY <1>0 DEF ItemRows
  <1>3. y.hold
    BY <1>0 DEF ItemRows
  <1> QED
    BY <1>1, <1>2, <1>3 DEF y

LEMMA HoldConfirmed ==
  ASSUME NEW h \in HoldRows, NEW u \in Users
  PROVE  /\ Confirmed(h, u) \in HoldRows
         /\ Confirmed(h, u).item = h.item /\ Confirmed(h, u).id = h.id
         /\ Confirmed(h, u).confirmed /\ Confirmed(h, u).who = u /\ Confirmed(h, u).by = h.by
  <1> DEFINE y == Confirmed(h, u)
  <1>0. y = [h EXCEPT !.confirmed = TRUE, !.who = u]
    BY DEF Confirmed
  <1> HIDE DEF y
  <1>1. y \in HoldRows
    BY <1>0 DEF HoldRows
  <1>2. y.item = h.item /\ y.id = h.id /\ y.who = u /\ y.by = h.by
    BY <1>0 DEF HoldRows
  <1>3. y.confirmed
    BY <1>0 DEF HoldRows
  <1> QED
    BY <1>1, <1>2, <1>3 DEF y

LEMMA FinalizeBegins ==
  ASSUME CustodyTyped, NEW e \in Items, FinalizeEvidence(e)
  PROVE  \E r : Begins(r)
  <1> DEFINE wanted == [row[e] EXCEPT !.version = kept[e] + 1, !.status = "preserved"]
  <1>1. row[e] \in ItemRows /\ kept[e] \in Nat
    BY DEF CustodyTyped
  <1>2. /\ wanted \in ItemRows /\ wanted.status = "preserved" /\ wanted.version = kept[e] + 1
        /\ wanted.hold = row[e].hold
    <2> HIDE DEF wanted
    <2> wanted = Recorded(row[e], kept[e] + 1, "preserved")
      BY DEF wanted, Recorded
    <2>1. kept[e] + 1 \in Nat /\ "preserved" \in Statuses
      BY <1>1 DEF Statuses
    <2> QED
      BY <1>1, <2>1, RowRecorded
  <1>3. /\ Work(e, "object_lock_stored", wanted, NoHold) /\ ~HasVersion(e)
        /\ kept' = [kept EXCEPT ![e] = @ + 1] /\ underHold' = underHold
        /\ ~ \E r \in requests : LockedBy(r, e)
    BY DEF FinalizeEvidence
  <1>4. kept' \in [Items -> Nat] /\ kept'[e] = kept[e] + 1 /\ \A x \in Items : kept[x] <= kept'[x]
    BY <1>1, <1>3 DEF CustodyTyped
  <1>5. \A s \in Works : s.kind = "object_lock_stored" => s.item # e
    BY <1>3 DEF Works, On, LockedBy
  <1> HIDE DEF wanted
  <1>6. PICK r : NewWork(r, e, "object_lock_stored", wanted, NoHold)
    <2>1. /\ "object_lock_stored" \in WorkKinds /\ "object_lock_stored" \notin HoldKinds
          /\ wanted.status # "none"
      BY <1>2 DEF WorkKinds, HoldKinds
    <2>2. Work(e, "object_lock_stored", wanted, NoHold)
      BY <1>3
    <2> QED
      BY <1>2, <2>1, <2>2, WorkBegins
  <1>7. Begins(r)
    BY <1>1, <1>2, <1>3, <1>4, <1>5, <1>6 DEF NewWork, Begins, HoldKinds, HasVersion, Told
  <1> QED
    BY <1>7

(* A check that compares bytes, or a person who looked, says what it found.  *)
LEMMA JudgeBegins ==
  ASSUME CustodyTyped, NEW e \in Items, HasVersion(e), UNCHANGED vaultVars,
         NEW kind \in {"integrity_check", "human_attestation"}, NEW s \in Statuses,
         Work(e, kind, [row[e] EXCEPT !.status = s], NoHold),
         kind = "human_attestation" => row[e].status \in Sound
  PROVE  \E r : Begins(r)
  <1> DEFINE wanted == Judged(row[e], s)
  <1>1. row[e] \in ItemRows /\ kept' \in [Items -> Nat] /\ \A x \in Items : kept[x] <= kept'[x]
    BY DEF CustodyTyped, vaultVars
  <1>2. /\ wanted \in ItemRows /\ wanted.status = s /\ wanted.version = row[e].version
        /\ wanted.hold = row[e].hold
    BY <1>1, RowJudged
  <1>3. Work(e, kind, wanted, NoHold)
    BY DEF Judged
  <1> HIDE DEF wanted
  <1>4. PICK r : NewWork(r, e, kind, wanted, NoHold)
    <2>1. kind \in WorkKinds /\ kind \notin HoldKinds /\ wanted.status # "none"
      BY <1>2 DEF WorkKinds, HoldKinds, Statuses
    <2> QED
      BY <1>2, <1>3, <2>1, WorkBegins
  <1>5. Begins(r)
    BY <1>1, <1>2, <1>4 DEF NewWork, Begins, HoldKinds, vaultVars, Told
  <1> QED
    BY <1>5

LEMMA VerifyBegins ==
  ASSUME CustodyTyped, NEW e \in Items, VerifyEvidence(e)
  PROVE  \E r : Begins(r)
  <1> DEFINE s == IF <<e, row[e].version>> \in damaged THEN "integrity_failed" ELSE "validated"
  <1>1. s \in Statuses
    BY DEF Statuses
  <1>2. HasVersion(e) /\ UNCHANGED vaultVars /\ Work(e, "integrity_check", [row[e] EXCEPT !.status = s], NoHold)
    BY DEF VerifyEvidence
  <1> HIDE DEF s
  <1> QED
    BY <1>1, <1>2, JudgeBegins

LEMMA AttestBegins ==
  ASSUME CustodyTyped, NEW e \in Items, AttestEvidence(e)
  PROVE  \E r : Begins(r)
  BY JudgeBegins DEF AttestEvidence, Statuses

LEMMA RequestHoldBegins ==
  ASSUME CustodyTyped, NEW e \in Items, NEW u \in Users, RequestHold(e, u)
  PROVE  \E r : Begins(r)
  <1> DEFINE hold == [item |-> e, id |-> begun + 1, by |-> u, confirmed |-> FALSE, who |-> u]
  <1>1. row[e] \in ItemRows /\ kept' \in [Items -> Nat] /\ \A x \in Items : kept[x] <= kept'[x]
    BY DEF CustodyTyped, RequestHold, vaultVars
  <1>2. hold \in HoldRows /\ hold.item = e /\ hold.id = begun + 1
    BY DEF CustodyTyped, HoldRows
  <1>3. Work(e, "legal_hold_requested", row[e], hold) /\ UNCHANGED vaultVars
    BY DEF RequestHold
  <1> HIDE DEF hold
  <1>4. PICK r : NewWork(r, e, "legal_hold_requested", row[e], hold)
    <2>1. /\ "legal_hold_requested" \in WorkKinds /\ "legal_hold_requested" \in HoldKinds
          /\ row[e].status # "none"
      BY <1>3 DEF WorkKinds, HoldKinds, Work
    <2> QED
      BY <1>1, <1>2, <1>3, <2>1, WorkBegins
  <1>5. Begins(r)
    BY <1>1, <1>2, <1>3, <1>4 DEF NewWork, Begins, HoldKinds, vaultVars, Told
  <1> QED
    BY <1>5

LEMMA ConfirmHoldBegins ==
  ASSUME CustodyTyped, NEW h \in holds, NEW u \in Users, ConfirmHold(h, u)
  PROVE  \E r : Begins(r)
  <1> DEFINE e == h.item
             hold == Confirmed(h, u)
             wanted == Held(row[e])
  <1>0. h \in HoldRows /\ e \in Items
    BY DEF CustodyTyped, HoldRows
  <1>1. row[e] \in ItemRows /\ kept' \in [Items -> Nat] /\ \A x \in Items : kept[x] <= kept'[x]
    BY <1>0 DEF CustodyTyped, ConfirmHold
  <1>2. /\ hold \in HoldRows /\ hold.item = e /\ hold.id = h.id
        /\ hold.confirmed /\ hold.who = u /\ hold.by = h.by
    BY <1>0, HoldConfirmed
  <1>3. wanted \in ItemRows /\ wanted.version = row[e].version /\ wanted.status = row[e].status /\ wanted.hold
    BY <1>1, RowHeld
  <1>4. /\ Work(e, "legal_hold_confirmed", wanted, hold) /\ h.by # u /\ HasVersion(e)
        /\ underHold' = underHold \union {<<e, row[e].version>>}
    BY DEF ConfirmHold, Confirmed, Held
  <1> HIDE DEF hold, wanted
  <1>5. PICK r : NewWork(r, e, "legal_hold_confirmed", wanted, hold)
    <2>1. /\ "legal_hold_confirmed" \in WorkKinds /\ "legal_hold_confirmed" \in HoldKinds
          /\ wanted.status # "none"
      BY <1>3, <1>4 DEF WorkKinds, HoldKinds, Work
    <2> HIDE DEF e
    <2> QED
      BY <1>0, <1>2, <1>3, <1>4, <2>1, WorkBegins
  <1>6. Begins(r)
    <2> HIDE DEF e
    <2>1. \E k \in holds : k.id = r.hold.id /\ k.item = r.item
      BY <1>2, <1>5 DEF NewWork, e
    <2>2. r.wanted.hold /\ <<r.item, row[r.item].version>> \in underHold' /\ r.hold.confirmed /\ r.hold.who # r.hold.by
      BY <1>2, <1>3, <1>4, <1>5 DEF NewWork
    <2> QED
      BY <1>1, <1>2, <1>3, <1>4, <1>5, <2>1, <2>2 DEF NewWork, Begins, HoldKinds, Told
  <1> QED
    BY <1>6

(* What the other steps on an item do.                                       *)
Appends(r, q) ==
    /\ requests' = (requests \ {r}) \union {q} /\ r \in requests
    /\ UNCHANGED <<row, disk, vaultVars, events, holds, report, begun, alone, lost, caseVars>>
    /\ r.op = "row" /\ ~r.written
    /\ q.op = "row" /\ WorkTyped(q) /\ q.item = r.item /\ q.kind = r.kind /\ q.at = r.at
    /\ q.wanted = r.wanted /\ q.changed = r.changed /\ q.hold = r.hold
    /\ q.written /\ q.prev = LatestEvent(r.item)

NewEvent(r) == [at |-> r.at, prev |-> r.prev, kind |-> r.kind, told |-> Told(r),
                version |-> IF r.kind = "object_lock_stored" THEN r.wanted.version ELSE 0]

Commits(r) ==
    /\ r \in requests /\ requests' = requests \ {r} /\ r.op = "row" /\ r.written
    /\ UNCHANGED <<disk, vaultVars, report, begun, alone, lost, caseVars>>
    /\ row' \in [Items -> ItemRows] /\ events' \in [Items -> SUBSET EventRows]
    /\ holds' \subseteq HoldRows
    /\ \A e \in Items : e # r.item => row'[e] = row[e] /\ events'[e] = events[e]
    /\ row'[r.item].status = (IF "status" \in DOMAIN r.changed THEN r.wanted.status ELSE row[r.item].status)
    /\ row'[r.item].version = (IF "version" \in DOMAIN r.changed THEN r.wanted.version ELSE row[r.item].version)
    /\ row'[r.item].hold = (IF "hold" \in DOMAIN r.changed THEN r.wanted.hold ELSE row[r.item].hold)
    /\ events'[r.item] = events[r.item] \union {NewEvent(r)}
    /\ IF r.kind \in HoldKinds THEN holds' = {h \in holds : h.id # r.hold.id} \union {r.hold}
       ELSE holds' = holds

Uploads(e) ==
    /\ e \in Items /\ row[e].status = "none" /\ row' \in [Items -> ItemRows]
    /\ events' \in [Items -> SUBSET EventRows]
    /\ \A x \in Items : x # e => row'[x] = row[x] /\ events'[x] = events[x]
    /\ row'[e].status = "pending" /\ row'[e].version = row[e].version /\ row'[e].hold = row[e].hold
    /\ events'[e] = {[at |-> begun + 1, prev |-> 0, kind |-> "upload_staged", told |-> "pending", version |-> 0]}
    /\ begun' = begun + 1 /\ disk' = disk \union {e}
    /\ UNCHANGED <<vaultVars, holds, report, requests, alone, lost, caseVars>>

Quiet ==
    /\ UNCHANGED <<row, kept, underHold, events, holds, alone>>
    /\ begun' \in Nat /\ begun <= begun'
    /\ lost \subseteq lost' /\ \A e \in disk : e \in disk' \/ e \in lost' \/ HasVersion(e)
    /\ Works' \subseteq Works
    /\ \A r \in requests' : r \in requests \/ (r.op \in {"approve", "status"} /\ RequestTyped(r))

LEMMA LatestIs ==
  ASSUME CustodyTyped, NEW e \in Items
  PROVE  /\ LatestEvent(e) \in Nat
         /\ events[e] # {} => \E x \in events[e] : x.at = LatestEvent(e)
         /\ \A x \in events[e] : x.at <= LatestEvent(e)
  <1> DEFINE A == {x.at : x \in events[e]}
             P(t) == \A x \in events[e] : x.at <= t
  <1>1. events[e] \in SUBSET EventRows
    BY DEF CustodyTyped
  <1>2. CASE events[e] = {}
    BY <1>2 DEF LatestEvent
  <1>3. CASE events[e] # {}
    <2>1. \E t \in A : P(t)
      BY <1>3 DEF CustodyTyped
    <2>2. LatestEvent(e) = CHOOSE t \in A : P(t)
      BY <1>3 DEF LatestEvent
    <2>3. LatestEvent(e) \in A /\ P(LatestEvent(e))
      <3> HIDE DEF A, P
      <3> QED
        BY <2>1, <2>2
    <2>4. A \subseteq Nat
      BY <1>1 DEF EventRows
    <2> QED
      BY <1>3, <2>3, <2>4
  <1> QED
    BY <1>2, <1>3

WorkFields == {"op", "item", "kind", "at", "written", "wanted", "changed", "prev", "hold"}
LEMMA SameFields ==
  ASSUME NEW y, NEW z, y = [k \in WorkFields |-> y[k]], z = [k \in WorkFields |-> z[k]],
    y["op"] = z["op"], y["item"] = z["item"], y["kind"] = z["kind"], y["at"] = z["at"],
    y["wanted"] = z["wanted"], y["changed"] = z["changed"], y["hold"] = z["hold"], y["written"] = z["written"], y["prev"] = z["prev"]
  PROVE y = z
  <1>1. \A k \in WorkFields : y[k] = z[k] BY DEF WorkFields
  <1>2. [k \in WorkFields |-> y[k]] = [k \in WorkFields |-> z[k]] BY <1>1
  <1> QED BY <1>2

WorkWritten(r, p) == [op |-> "row", item |-> r.item, kind |-> r.kind, at |-> r.at, written |-> TRUE,
                   wanted |-> r.wanted, changed |-> r.changed, prev |-> p, hold |-> r.hold]
LEMMA WrittenIs ==
  ASSUME NEW r, WorkTyped(r), NEW p
  PROVE [r EXCEPT !.written = TRUE, !.prev = p] = WorkWritten(r, p)
  <1> DEFINE y == [r EXCEPT !.written = TRUE, !.prev = p]
             z == WorkWritten(r, p)
  <1>1. r = [k \in WorkFields |-> r[k]]
   BY DEF WorkFields, WorkTyped
  <1>2. y = [k \in WorkFields |-> y[k]]
   BY <1>1 DEF WorkFields
  <1>3. z = [k \in WorkFields |-> z[k]]
   BY DEF WorkFields, WorkWritten
  <1>4. y["op"] = z["op"] /\ y["item"] = z["item"] /\ y["kind"] = z["kind"] /\ y["at"] = z["at"]
    BY <1>1 DEF WorkWritten, WorkFields, WorkTyped
  <1>5. y["wanted"] = z["wanted"] /\ y["changed"] = z["changed"] /\ y["hold"] = z["hold"] /\ y["prev"] = z["prev"]
    BY <1>1 DEF WorkWritten, WorkFields, WorkTyped
  <1>6. y["written"] = z["written"]
    BY <1>1 DEF WorkWritten, WorkFields
  <1> HIDE DEF y, z
  <1>8. y = z
    BY <1>2, <1>3, <1>4, <1>5, <1>6, SameFields
  <1> QED BY <1>8 DEF y, z

LEMMA AppendIs ==
  ASSUME CustodyTyped, NEW r \in requests, AppendEvent(r)
  PROVE  \E q : Appends(r, q)
  <1> DEFINE p == LatestEvent(r.item)
             q == WorkWritten(r, p)
  <1>1. /\ r.op = "row" /\ ~r.written
        /\ requests' = (requests \ {r}) \union {[r EXCEPT !.written = TRUE, !.prev = p]}
        /\ UNCHANGED <<row, disk, vaultVars, events, holds, report, begun, alone, lost, caseVars>>
    BY DEF AppendEvent
  <1>2. WorkTyped(r)
    BY <1>1 DEF CustodyTyped, RequestTyped
  <1>3. p \in Nat
    BY <1>2, LatestIs DEF WorkTyped
  <1> HIDE DEF p
  <1>4. [r EXCEPT !.written = TRUE, !.prev = p] = q
    BY <1>2, WrittenIs
  <1>5. WorkTyped(q)
    BY <1>2, <1>3 DEF WorkTyped, WorkWritten
  <1>6. /\ q.op = "row" /\ q.item = r.item /\ q.kind = r.kind /\ q.at = r.at
        /\ q.wanted = r.wanted /\ q.changed = r.changed /\ q.hold = r.hold
        /\ q.written /\ q.prev = p
    BY DEF WorkWritten
  <1> HIDE DEF q
  <1>7. Appends(r, q)
    BY <1>1, <1>4, <1>5, <1>6 DEF Appends, p
  <1> QED
    BY <1>7

LEMMA RowOverlaid ==
  ASSUME NEW x \in ItemRows, NEW w \in ItemRows, w.status # "none", NEW d, DOMAIN d \subseteq Columns,
         \A f \in DOMAIN d : d[f] = w[f],
         NEW y, y = [f \in DOMAIN x |-> IF f \in DOMAIN d THEN d[f] ELSE x[f]]
  PROVE  /\ y \in ItemRows
         /\ y.status = (IF "status" \in DOMAIN d THEN w.status ELSE x.status)
         /\ y.version = (IF "version" \in DOMAIN d THEN w.version ELSE x.version)
         /\ y.hold = (IF "hold" \in DOMAIN d THEN w.hold ELSE x.hold)
  <1> DEFINE s == IF "status" \in DOMAIN d THEN w.status ELSE x.status
             v == IF "version" \in DOMAIN d THEN w.version ELSE x.version
             h == IF "hold" \in DOMAIN d THEN w.hold ELSE x.hold
             z == [status |-> s, version |-> v, hold |-> h]
  <1>1. s \in Statuses \union {"none"} /\ v \in Nat /\ h \in BOOLEAN
    BY DEF ItemRows
  <1>2. y = [f \in Columns |-> IF f \in DOMAIN d THEN w[f] ELSE x[f]]
    BY ColumnsOf
  <1>3. y["status"] = s /\ y["version"] = v /\ y["hold"] = h
    BY <1>2, ColumnsOf DEF Columns
  <1> HIDE DEF s, v, h
  <1>4. z \in ItemRows
    BY <1>1 DEF ItemRows
  <1>5. DOMAIN z = Columns /\ z["status"] = s /\ z["version"] = v /\ z["hold"] = h
    BY DEF Columns
  <1>6. y = z
    <2> HIDE DEF z
    <2>1. z = [f \in Columns |-> z[f]]
      BY <1>4, <1>5 DEF ItemRows
    <2>2. \A f \in Columns : y[f] = z[f]
      BY <1>3, <1>5 DEF Columns
    <2> QED
      BY <1>2, <2>1, <2>2
  <1>7. z.status = s /\ z.version = v /\ z.hold = h
    OBVIOUS
  <1> QED
    BY <1>4, <1>6, <1>7 DEF s, v, h

LEMMA CommitIs ==
  ASSUME CustodyTyped, NEW r \in requests, CommitRow(r)
  PROVE  Commits(r)
  <1> DEFINE e == r.item
             y == [f \in DOMAIN row[e] |-> IF f \in DOMAIN r.changed THEN r.changed[f] ELSE row[e][f]]
             x == NewEvent(r)
  <1>1. /\ r.op = "row" /\ r.written /\ requests' = requests \ {r}
        /\ UNCHANGED <<disk, vaultVars, report, begun, alone, lost, caseVars>>
    BY DEF CommitRow
  <1>2. WorkTyped(r) /\ r.at \in Nat
    BY <1>1 DEF CustodyTyped, RequestTyped
  <1>3. e \in Items /\ row[e] \in ItemRows /\ events[e] \subseteq EventRows
    BY <1>2 DEF WorkTyped, CustodyTyped
  <1>4. row' = [row EXCEPT ![e] = y]
    BY DEF CommitRow
  <1>5. /\ y \in ItemRows
        /\ y.status = (IF "status" \in DOMAIN r.changed THEN r.wanted.status ELSE row[e].status)
        /\ y.version = (IF "version" \in DOMAIN r.changed THEN r.wanted.version ELSE row[e].version)
        /\ y.hold = (IF "hold" \in DOMAIN r.changed THEN r.wanted.hold ELSE row[e].hold)
    <2> HIDE DEF y
    <2> y = [f \in DOMAIN row[e] |-> IF f \in DOMAIN r.changed THEN r.changed[f] ELSE row[e][f]]
      BY DEF y
    <2> QED
      BY <1>2, <1>3, RowOverlaid DEF WorkTyped
  <1> HIDE DEF y
  <1>6. /\ row' \in [Items -> ItemRows] /\ row'[e] = y
        /\ \A i \in Items : i # e => row'[i] = row[i]
    BY <1>3, <1>4, <1>5 DEF CustodyTyped
  <1>7. x \in EventRows
    <2>1. Told(r) \in Statuses \union {"nothing"}
      BY <1>2 DEF Told, WorkTyped, ItemRows
    <2>2. r.wanted.version \in Nat /\ r.prev \in Nat /\ r.kind \in WorkKinds
      BY <1>2 DEF WorkTyped, ItemRows
    <2> QED
      BY <1>2, <2>1, <2>2 DEF NewEvent, EventRows
  <1>8. events' = [events EXCEPT ![e] = @ \union {x}]
    BY DEF CommitRow, NewEvent
  <1> HIDE DEF x
  <1>9. /\ events' \in [Items -> SUBSET EventRows] /\ events'[e] = events[e] \union {x}
        /\ \A i \in Items : i # e => events'[i] = events[i]
    BY <1>3, <1>7, <1>8 DEF CustodyTyped
  <1>10. /\ holds' \subseteq HoldRows
         /\ IF r.kind \in HoldKinds THEN holds' = {h \in holds : h.id # r.hold.id} \union {r.hold}
            ELSE holds' = holds
    <2>1. holds' = IF r.hold = NoHold THEN holds ELSE {h \in holds : h.id # r.hold.id} \union {r.hold}
      BY DEF CommitRow
    <2>2. CASE r.kind \in HoldKinds
      <3>1. r.hold \in HoldRows
        BY <1>2, <2>2 DEF WorkTyped
      <3>2. r.hold # NoHold
        BY <3>1 DEF HoldRows, NoHold
      <3> QED
        BY <2>1, <2>2, <3>1, <3>2 DEF CustodyTyped
    <2>3. CASE r.kind \notin HoldKinds
      BY <1>2, <2>1, <2>3 DEF WorkTyped, CustodyTyped
    <2> QED
      BY <2>2, <2>3
  <1> QED
    <2>1. /\ row'[e].status = (IF "status" \in DOMAIN r.changed THEN r.wanted.status ELSE row[e].status)
          /\ row'[e].version = (IF "version" \in DOMAIN r.changed THEN r.wanted.version ELSE row[e].version)
          /\ row'[e].hold = (IF "hold" \in DOMAIN r.changed THEN r.wanted.hold ELSE row[e].hold)
      BY <1>5, <1>6
    <2>2. events'[e] = events[e] \union {NewEvent(r)}
      BY <1>9 DEF x
    <2> QED
      BY <1>1, <1>6, <1>9, <1>10, <2>1, <2>2 DEF Commits

LEMMA UploadIs ==
  ASSUME CustodyTyped, NEW e \in Items, Upload(e)
  PROVE  Uploads(e)
  <1> DEFINE y == Judged(row[e], "pending")
             S == {[at |-> begun + 1, prev |-> 0, kind |-> "upload_staged", told |-> "pending", version |-> 0]}
  <1>1. /\ row[e].status = "none" /\ row' = [row EXCEPT ![e].status = "pending"]
        /\ events' = [events EXCEPT ![e] = S] /\ disk' = disk \union {e} /\ begun' = begun + 1
        /\ UNCHANGED <<vaultVars, holds, report, requests, alone, lost, caseVars>>
    BY DEF Upload
  <1>2. row[e] \in ItemRows /\ begun \in Nat
    BY DEF CustodyTyped
  <1>3. row' = [row EXCEPT ![e] = y]
    BY <1>1 DEF Judged
  <1>4. /\ y \in ItemRows /\ y.status = "pending" /\ y.version = row[e].version /\ y.hold = row[e].hold
    BY <1>2, RowJudged DEF Statuses
  <1>5. S \subseteq EventRows
    BY <1>2 DEF EventRows, Statuses
  <1> HIDE DEF y, S
  <1>6. /\ row' \in [Items -> ItemRows] /\ row'[e] = y
        /\ \A i \in Items : i # e => row'[i] = row[i]
    BY <1>3, <1>4 DEF CustodyTyped
  <1>7. /\ events' \in [Items -> SUBSET EventRows] /\ events'[e] = S
        /\ \A i \in Items : i # e => events'[i] = events[i]
    BY <1>1, <1>5 DEF CustodyTyped
  <1> QED
    BY <1>1, <1>4, <1>6, <1>7 DEF Uploads, S

(* Every step is one of these.                                               *)
LEMMA Steps ==
  ASSUME CustodyTyped, [CustodyNext]_custodyVars
  PROVE  \/ \E r : Begins(r)
         \/ \E r \in requests : \E q : Appends(r, q)
         \/ \E r \in requests : Commits(r)
         \/ \E e \in Items : Uploads(e)
         \/ Quiet
  <1> USE DEF Quiet, Works, vaultVars, RequestTyped
  <1>0. begun \in Nat
    BY DEF CustodyTyped
  <1>1. CASE UNCHANGED custodyVars
    BY <1>0, <1>1 DEF custodyVars
  <1>2. ASSUME NEW e \in Items, FinalizeEvidence(e) PROVE \E r : Begins(r)
    BY <1>2, FinalizeBegins
  <1>3. ASSUME NEW e \in Items, VerifyEvidence(e) PROVE \E r : Begins(r)
    BY <1>3, VerifyBegins
  <1>4. ASSUME NEW e \in Items, AttestEvidence(e) PROVE \E r : Begins(r)
    BY <1>4, AttestBegins
  <1>5. ASSUME NEW e \in Items, NEW u \in Users, RequestHold(e, u) PROVE \E r : Begins(r)
    BY <1>5, RequestHoldBegins
  <1>6. ASSUME NEW h \in holds, NEW u \in Users, ConfirmHold(h, u) PROVE \E r : Begins(r)
    BY <1>6, ConfirmHoldBegins
  <1>7. ASSUME NEW e \in Items, CleanUpStage(e) \/ LoseStage(e) \/ Damage(e) PROVE Quiet
    BY <1>0, <1>7 DEF CleanUpStage, LoseStage, Damage
  <1>8. ASSUME NEW cites \in SUBSET Items, CreateReport(cites) PROVE Quiet
    BY <1>0, <1>8 DEF CreateReport
  <1>9. CASE BeginApprove
    BY <1>0, <1>9 DEF BeginApprove, BeginRequest
  <1>10. ASSUME NEW status, BeginStatus(status) PROVE Quiet
    BY <1>0, <1>10 DEF BeginStatus, BeginRequest
  <1>11. ASSUME NEW r \in requests, CommitApprove(r) \/ CommitStatus(r) \/ RollBackRequest(r) PROVE Quiet
    BY <1>0, <1>11 DEF CommitApprove, CommitStatus, RollBackRequest
  <1>12. ASSUME NEW r \in requests, AppendEvent(r) PROVE \E q : Appends(r, q)
    BY <1>12, AppendIs
  <1>13. ASSUME NEW r \in requests, CommitRow(r) PROVE Commits(r)
    BY <1>13, CommitIs
  <1>14. ASSUME NEW e \in Items, Upload(e) PROVE Uploads(e)
    BY <1>14, UploadIs
  <1> HIDE DEF Quiet
  <1> QED
    BY <1>1, <1>2, <1>3, <1>4, <1>5, <1>6, <1>7, <1>8, <1>9, <1>10, <1>11, <1>12, <1>13, <1>14 DEF CustodyNext

LEMMA TypedBegins ==
  ASSUME CustodyTyped, NEW r, Begins(r)
  PROVE  CustodyTyped'
  <1>1. /\ row' \in [Items -> ItemRows] /\ kept' \in [Items -> Nat] /\ begun' \in Nat
        /\ events' \in [Items -> SUBSET EventRows] /\ holds' \subseteq HoldRows /\ alone' \subseteq Items
    BY DEF CustodyTyped, Begins
  <1>2. \A e \in Items : events'[e] # {} => \E x \in events'[e] : \A y \in events'[e] : y.at <= x.at
    BY DEF CustodyTyped, Begins
  <1>3. \A s \in requests' : RequestTyped(s)
    BY DEF CustodyTyped, Begins, RequestTyped
  <1> QED
    BY <1>1, <1>2, <1>3 DEF CustodyTyped, RequestTyped, WorkTyped

LEMMA TypedAppends ==
  ASSUME CustodyTyped, NEW r \in requests, NEW q, Appends(r, q)
  PROVE  CustodyTyped'
  <1>1. /\ row' \in [Items -> ItemRows] /\ kept' \in [Items -> Nat] /\ begun' \in Nat
        /\ events' \in [Items -> SUBSET EventRows] /\ holds' \subseteq HoldRows /\ alone' \subseteq Items
    BY DEF CustodyTyped, Appends, vaultVars
  <1>2. \A e \in Items : events'[e] # {} => \E x \in events'[e] : \A y \in events'[e] : y.at <= x.at
    BY DEF CustodyTyped, Appends
  <1>3. \A s \in requests' : RequestTyped(s)
    BY DEF CustodyTyped, Appends, RequestTyped
  <1> QED
    BY <1>1, <1>2, <1>3 DEF CustodyTyped, RequestTyped, WorkTyped

LEMMA TypedCommits ==
  ASSUME CustodyTyped, NEW r \in requests, Commits(r)
  PROVE  CustodyTyped'
  <1>1. /\ row' \in [Items -> ItemRows] /\ kept' \in [Items -> Nat] /\ begun' \in Nat
        /\ events' \in [Items -> SUBSET EventRows] /\ holds' \subseteq HoldRows /\ alone' \subseteq Items
    BY DEF CustodyTyped, Commits, vaultVars
  <1>2. ASSUME NEW e \in Items, events'[e] # {}
        PROVE  \E x \in events'[e] : \A y \in events'[e] : y.at <= x.at
    <2>1. CASE e # r.item
      BY <1>2, <2>1 DEF CustodyTyped, Commits
    <2>2. CASE e = r.item
      <3> DEFINE n == NewEvent(r)
      <3>1. events'[e] = events[e] \union {n} /\ n.at = r.at /\ r.at \in Nat
        BY <2>2 DEF Commits, NewEvent, CustodyTyped, RequestTyped
      <3>2. \A x \in events[e] : x.at \in Nat
        BY DEF CustodyTyped, EventRows
      <3> HIDE DEF n
      <3>3. CASE events[e] = {}
        BY <3>1, <3>3
      <3>4. CASE events[e] # {}
        <4>1. PICK x \in events[e] : \A y \in events[e] : y.at <= x.at
          BY <3>4 DEF CustodyTyped
        <4>2. CASE n.at <= x.at
          BY <3>1, <4>1, <4>2
        <4>3. CASE ~(n.at <= x.at)
          <5>1. \A y \in events[e] : y.at <= n.at
            BY <3>1, <3>2, <4>1, <4>3
          <5> QED
            BY <3>1, <5>1
        <4> QED
          BY <4>2, <4>3
      <3> QED
        BY <3>3, <3>4
    <2> QED
      BY <2>1, <2>2
  <1>3. \A s \in requests' : RequestTyped(s)
    BY DEF CustodyTyped, Commits, RequestTyped
  <1> QED
    BY <1>1, <1>2, <1>3 DEF CustodyTyped, RequestTyped, WorkTyped

LEMMA TypedUploads ==
  ASSUME CustodyTyped, NEW e \in Items, Uploads(e)
  PROVE  CustodyTyped'
  <1>1. /\ row' \in [Items -> ItemRows] /\ kept' \in [Items -> Nat] /\ begun' \in Nat
        /\ events' \in [Items -> SUBSET EventRows] /\ holds' \subseteq HoldRows /\ alone' \subseteq Items
    BY DEF CustodyTyped, Uploads, vaultVars
  <1>2. ASSUME NEW i \in Items, events'[i] # {}
        PROVE  \E x \in events'[i] : \A y \in events'[i] : y.at <= x.at
    <2>1. CASE i # e
      BY <1>2, <2>1 DEF CustodyTyped, Uploads
    <2>2. CASE i = e
      <3> DEFINE n == [at |-> begun + 1, prev |-> 0, kind |-> "upload_staged", told |-> "pending", version |-> 0]
      <3>1. events'[i] = {n} /\ n.at = begun + 1 /\ begun + 1 \in Nat
        BY <2>2 DEF Uploads, CustodyTyped
      <3> HIDE DEF n
      <3> QED
        BY <3>1
    <2> QED
      BY <2>1, <2>2
  <1>3. \A s \in requests' : RequestTyped(s)
    BY DEF CustodyTyped, Uploads, RequestTyped
  <1> QED
    BY <1>1, <1>2, <1>3 DEF CustodyTyped, RequestTyped, WorkTyped

LEMMA TypedNext ==
  ASSUME CustodyTyped, [CustodyNext]_custodyVars
  PROVE  CustodyTyped'
  <1>1. CASE Quiet
    <2>1. /\ row' \in [Items -> ItemRows] /\ kept' \in [Items -> Nat] /\ begun' \in Nat
          /\ events' \in [Items -> SUBSET EventRows] /\ holds' \subseteq HoldRows /\ alone' \subseteq Items
          /\ \A e \in Items : events'[e] # {} => \E x \in events'[e] : \A y \in events'[e] : y.at <= x.at
      BY <1>1 DEF CustodyTyped, Quiet
    <2>2. \A s \in requests' : RequestTyped(s)
      BY <1>1 DEF CustodyTyped, Quiet
    <2> QED
      BY <2>1, <2>2 DEF CustodyTyped, RequestTyped, WorkTyped
  <1> QED
    BY <1>1, Steps, TypedBegins, TypedAppends, TypedCommits, TypedUploads

(***************************************************************************)
(* Versions stand.                                                         *)
(***************************************************************************)
LEMMA VersionsBegins ==
  ASSUME CustodyTyped, VersionsStand, NEW r, Begins(r)
  PROVE  VersionsStand'
  <1>0. r.item \in Items /\ r.at = begun + 1 /\ begun \in Nat /\ begun' = begun + 1 /\ r.op = "row"
    BY DEF Begins, WorkTyped, CustodyTyped
  <1>1. row' = row /\ events' = events /\ Works' = Works \union {r}
    BY <1>0 DEF Begins, Works
  <1>2. \A e \in Items : kept[e] \in Nat /\ kept'[e] \in Nat /\ kept[e] <= kept'[e] /\ row[e].version \in Nat
    BY DEF Begins, CustodyTyped, ItemRows
  <1>3. RowsFit'
    BY <1>1, <1>2 DEF VersionsStand, RowsFit, HasVersion
  <1>4. ASSUME NEW s \in Works PROVE WorkFits(s)'
    <2>1. WorkFits(s) /\ s.item \in Items /\ s.at \in Nat
      BY DEF VersionsStand, CustodyTyped, RequestTyped, WorkTyped, Works
    <2>2. kept[s.item] \in Nat /\ kept'[s.item] \in Nat /\ kept[s.item] <= kept'[s.item]
      BY <1>2, <2>1
    <2> QED
      BY <1>0, <1>1, <2>1, <2>2 DEF WorkFits, HasVersion
  <1>5. WorkFits(r)'
    BY <1>0, <1>1 DEF Begins, WorkFits, HasVersion
  <1>6. \A s \in Works : s.at <= begun /\ s.at \in Nat
    BY DEF VersionsStand, WorkFits, CustodyTyped, RequestTyped, Works
  <1>7. \A s, t \in Works' : s.at = t.at => s = t
    BY <1>0, <1>1, <1>6 DEF VersionsStand
  <1>8. \A s, t \in Works' :
          s.kind = "object_lock_stored" /\ t.kind = "object_lock_stored" /\ s.item = t.item => s = t
    BY <1>1 DEF VersionsStand, Begins
  <1> QED
    BY <1>1, <1>3, <1>4, <1>5, <1>7, <1>8 DEF VersionsStand

LEMMA VersionsAppends ==
  ASSUME CustodyTyped, VersionsStand, NEW r \in requests, NEW q, Appends(r, q)
  PROVE  VersionsStand'
  <1>1. UNCHANGED <<row, kept, events, begun>> /\ Works' = (Works \ {r}) \union {q} /\ r \in Works
    BY DEF Appends, Works, vaultVars
  <1>2. RowsFit' /\ \A s \in Works : WorkFits(s)'
    BY <1>1 DEF VersionsStand, RowsFit, WorkFits, HasVersion
  <1>3. WorkFits(q)'
    BY <1>1, <1>2 DEF Appends, WorkFits, HasVersion
  <1>4. \A s, t \in Works' : s.at = t.at => s = t
    BY <1>1 DEF VersionsStand, Appends
  <1>5. \A s, t \in Works' :
          s.kind = "object_lock_stored" /\ t.kind = "object_lock_stored" /\ s.item = t.item => s = t
    BY <1>1 DEF VersionsStand, Appends
  <1> QED
    BY <1>1, <1>2, <1>3, <1>4, <1>5 DEF VersionsStand

LEMMA VersionsCommits ==
  ASSUME CustodyTyped, VersionsStand, NEW r \in requests, Commits(r)
  PROVE  VersionsStand'
  <1>1. UNCHANGED <<kept, begun>> /\ Works' = Works \ {r} /\ r \in Works
    BY DEF Commits, Works, vaultVars
  <1>2. WorkTyped(r) /\ r.item \in Items /\ WorkFits(r)
    BY <1>1 DEF CustodyTyped, RequestTyped, WorkTyped, VersionsStand, Works
  <1>3. \A e \in Items : e # r.item => row'[e] = row[e] /\ events'[e] = events[e]
    BY DEF Commits
  <1>4. row'[r.item].status # "none"
    BY <1>2 DEF Commits, WorkTyped, WorkFits
  <1>5. r.kind # "object_lock_stored" => row'[r.item].version = row[r.item].version
    BY <1>2 DEF Commits, WorkFits
  <1>6. r.kind = "object_lock_stored" =>
          row'[r.item].version = r.wanted.version /\ r.wanted.version \in 1..kept[r.item]
    BY <1>2 DEF Commits, WorkFits
  <1>7. row'[r.item].hold => row'[r.item].version # 0
    <2>1. kept[r.item] \in Nat
      BY <1>2 DEF CustodyTyped
    <2>2. CASE r.kind = "object_lock_stored"
      BY <1>6, <2>1, <2>2
    <2>3. CASE r.kind = "legal_hold_confirmed"
      BY <1>2, <1>5, <2>3 DEF WorkFits, HasVersion
    <2>4. CASE r.kind \notin {"object_lock_stored", "legal_hold_confirmed"}
      BY <1>2, <1>5, <2>4 DEF WorkFits, Commits, VersionsStand, RowsFit, HasVersion
    <2> QED
      BY <2>2, <2>3, <2>4
  <1>8. RowsFit'
    <2> SUFFICES ASSUME NEW e \in Items
                 PROVE /\ row'[e].status = "none" => row'[e].version = 0 /\ events'[e] = {}
                       /\ row'[e].version # 0 => row'[e].version <= kept'[e]
                       /\ row'[e].hold => row'[e].version # 0
      BY DEF RowsFit, HasVersion
    <2>1. CASE e # r.item
      BY <1>1, <1>3, <2>1 DEF VersionsStand, RowsFit, HasVersion
    <2>2. CASE e = r.item
      <3>1. kept[e] \in Nat /\ kept' = kept
        BY <1>1 DEF CustodyTyped
      <3>2. row'[e].version # 0 => row'[e].version <= kept'[e]
        <4>1. CASE r.kind = "object_lock_stored"
          BY <1>6, <2>2, <3>1, <4>1
        <4>2. CASE r.kind # "object_lock_stored"
          BY <1>5, <2>2, <3>1, <4>2 DEF VersionsStand, RowsFit, HasVersion
        <4> QED
          BY <4>1, <4>2
      <3> QED
        BY <1>4, <1>7, <2>2, <3>2
    <2> QED
      BY <2>1, <2>2
  <1>9. ASSUME NEW s \in Works' PROVE WorkFits(s)'
    <2>1. s \in Works /\ s # r /\ WorkFits(s) /\ s.item \in Items
      BY <1>1, <1>9 DEF VersionsStand, CustodyTyped, RequestTyped, WorkTyped, Works
    <2>2. CASE s.item # r.item
      <3>1. row'[s.item] = row[s.item]
        BY <1>3, <2>1, <2>2
      <3> QED
        BY <1>1, <2>1, <3>1 DEF WorkFits, HasVersion
    <2>3. CASE s.item = r.item
      <3>1. row'[s.item].status # "none"
        BY <1>4, <2>3
      <3>2. s.kind = "object_lock_stored" => row'[s.item].version = row[s.item].version
        BY <1>1, <1>5, <2>1, <2>3 DEF VersionsStand
      <3>3. row[s.item].version # 0 => row'[s.item].version = row[s.item].version
        BY <1>2, <1>5, <2>3 DEF WorkFits, HasVersion
      <3> QED
        BY <1>1, <2>1, <3>1, <3>2, <3>3 DEF WorkFits, HasVersion
    <2> QED
      BY <2>2, <2>3
  <1>10. /\ \A s, t \in Works' : s.at = t.at => s = t
         /\ \A s, t \in Works' :
               s.kind = "object_lock_stored" /\ t.kind = "object_lock_stored" /\ s.item = t.item => s = t
    BY <1>1 DEF VersionsStand
  <1> QED
    BY <1>8, <1>9, <1>10 DEF VersionsStand

LEMMA VersionsUploads ==
  ASSUME CustodyTyped, VersionsStand, NEW e \in Items, Uploads(e)
  PROVE  VersionsStand'
  <1>1. /\ kept' = kept /\ Works' = Works /\ begun' = begun + 1 /\ begun \in Nat
        /\ \A i \in Items : i # e => row'[i] = row[i] /\ events'[i] = events[i]
        /\ row[e].status = "none" /\ row'[e].status = "pending"
        /\ row'[e].version = row[e].version /\ row'[e].hold = row[e].hold
    BY DEF Uploads, Works, vaultVars, CustodyTyped
  <1>2. RowsFit'
    BY <1>1 DEF VersionsStand, RowsFit, HasVersion
  <1>3. ASSUME NEW s \in Works PROVE WorkFits(s)'
    <2>1. WorkFits(s) /\ s.item \in Items /\ s.at \in Nat
      BY DEF VersionsStand, CustodyTyped, RequestTyped, WorkTyped, Works
    <2>2. s.item # e
      BY <1>1, <2>1 DEF WorkFits
    <2>3. row'[s.item] = row[s.item] /\ s.at <= begun'
      BY <1>1, <2>1, <2>2 DEF WorkFits
    <2> QED
      BY <1>1, <2>1, <2>3 DEF WorkFits, HasVersion
  <1> QED
    BY <1>1, <1>2, <1>3 DEF VersionsStand

LEMMA VersionsNext ==
  ASSUME CustodyTyped, VersionsStand, [CustodyNext]_custodyVars
  PROVE  VersionsStand'
  <1>1. CASE Quiet
    <2>1. RowsFit'
      BY <1>1 DEF Quiet, VersionsStand, RowsFit, HasVersion
    <2>2. ASSUME NEW s \in Works' PROVE WorkFits(s)'
      <3>1. s \in Works /\ WorkFits(s) /\ s.at \in Nat /\ begun \in Nat /\ begun' \in Nat
        BY <1>1, <2>2 DEF Quiet, VersionsStand, CustodyTyped, RequestTyped, Works
      <3>2. s.at <= begun'
        BY <1>1, <3>1 DEF Quiet, WorkFits
      <3> QED
        BY <1>1, <3>1, <3>2 DEF Quiet, WorkFits, HasVersion
    <2> QED
      BY <1>1, <2>1, <2>2 DEF Quiet, VersionsStand
  <1> QED
    BY <1>1, Steps, VersionsBegins, VersionsAppends, VersionsCommits, VersionsUploads

(* A version that a row records stays there.                                 *)
LEMMA VersionForGood ==
  ASSUME CustodyTyped, VersionsStand, [CustodyNext]_custodyVars, NEW e \in Items, HasVersion(e)
  PROVE  row'[e].version = row[e].version
  <1>1. ASSUME NEW r \in requests, Commits(r) PROVE row'[e].version = row[e].version
    BY <1>1 DEF Commits, VersionsStand, WorkFits, Works, CustodyTyped, RequestTyped, WorkTyped
  <1>2. ASSUME NEW i \in Items, Uploads(i) PROVE row'[e].version = row[e].version
    BY <1>2 DEF Uploads
  <1> QED
    BY <1>1, <1>2, Steps DEF Begins, Appends, Quiet

(***************************************************************************)
(* Events of an item.                                                      *)
(***************************************************************************)

LEMMA EventFacts ==
  ASSUME NEW r
  PROVE  /\ NewEvent(r).at = r.at /\ NewEvent(r).prev = r.prev /\ NewEvent(r).kind = r.kind
         /\ NewEvent(r).told = Told(r)
         /\ NewEvent(r).version = (IF r.kind = "object_lock_stored" THEN r.wanted.version ELSE 0)
  BY DEF NewEvent

LEMMA EventsBegins ==
  ASSUME CustodyTyped, EventsFit, RecordedOnce, NEW r, Begins(r)
  PROVE  EventsFit' /\ RecordedOnce'
  <1>1. UNCHANGED <<row, events>> /\ begun' = begun + 1 /\ begun \in Nat /\ Works' = Works \union {r} /\ ~r.written
    BY DEF Begins, CustodyTyped, Works
  <1>2. \A e \in Items : \A x \in events[e] : x.at \in Nat
    BY DEF CustodyTyped, EventRows
  <1>3. EventsFit'
    BY <1>1, <1>2 DEF EventsFit
  <1>4. RecordedOnce'
    BY <1>1 DEF RecordedOnce, HasVersion
  <1> QED
    BY <1>3, <1>4

LEMMA EventsAppends ==
  ASSUME CustodyTyped, VersionsStand, EventsFit, RecordedOnce, NEW r \in requests, NEW q, Appends(r, q)
  PROVE  EventsFit' /\ RecordedOnce'
  <1>1. UNCHANGED <<row, events, begun>> /\ Works' = (Works \ {r}) \union {q} /\ r \in Works
    BY DEF Appends, Works
  <1>2. q.item = r.item /\ r.item \in Items /\ row[r.item].status # "none" /\ q.prev = LatestEvent(r.item)
    BY <1>1 DEF Appends, VersionsStand, WorkFits, CustodyTyped, RequestTyped, WorkTyped
  <1>3. events[r.item] # {}
    BY <1>2 DEF EventsFit
  <1>4. PICK y \in events[r.item] : y.at = LatestEvent(r.item)
    BY <1>2, <1>3, LatestIs
  <1>5. y.at # 0
    BY <1>2, <1>4 DEF EventsFit
  <1>6. EventsFit'
    BY <1>1, <1>2, <1>4, <1>5 DEF EventsFit
  <1>7. RecordedOnce'
    BY <1>1 DEF RecordedOnce, HasVersion
  <1> QED
    BY <1>6, <1>7

LEMMA EventsCommits ==
  ASSUME CustodyTyped, VersionsStand, EventsFit, RecordedOnce, NEW r \in requests, Commits(r)
  PROVE  EventsFit' /\ RecordedOnce'
  <1> DEFINE n == NewEvent(r)
  <1>1. begun' = begun /\ Works' = Works \ {r} /\ r \in Works /\ r.written
    BY DEF Commits, Works
  <1>2. /\ WorkTyped(r) /\ r.item \in Items /\ WorkFits(r) /\ r.at \in Nat
        /\ \A s \in Works : s.item \in Items
    BY <1>1 DEF CustodyTyped, RequestTyped, WorkTyped, VersionsStand, Works
  <1>3. \A e \in Items : e # r.item => row'[e] = row[e] /\ events'[e] = events[e]
    BY DEF Commits
  <1>4. events'[r.item] = events[r.item] \union {n}
    BY DEF Commits
  <1>5. \A e \in Items : events[e] \subseteq events'[e]
    BY <1>3, <1>4
  <1>6. /\ n.at = r.at /\ n.prev = r.prev /\ n.kind = r.kind /\ n.told = Told(r)
        /\ n.version = (IF r.kind = "object_lock_stored" THEN r.wanted.version ELSE 0)
    BY EventFacts
  <1> HIDE DEF n
  <1>7. ASSUME NEW e \in Items, row'[e].status # "none" PROVE \E x \in events'[e] : x.told = row'[e].status
    <2>1. CASE e = r.item /\ "status" \in DOMAIN r.changed
      <3>1. n \in events'[e] /\ row'[e].status = r.wanted.status
        BY <1>4, <2>1 DEF Commits
      <3>2. n.told = r.wanted.status
        BY <1>2, <1>6, <2>1 DEF Told, WorkFits, HoldKinds
      <3> QED
        BY <3>1, <3>2
    <2>2. CASE ~(e = r.item /\ "status" \in DOMAIN r.changed)
      <3>1. row'[e].status = row[e].status
        BY <1>3, <2>2 DEF Commits
      <3> QED
        BY <1>5, <1>7, <3>1 DEF EventsFit
    <2> QED
      BY <2>1, <2>2
  <1>8. /\ n.at \in 1..begun /\ n.prev # 0 /\ n.kind # "upload_staged"
        /\ \E y \in events[r.item] : y.at = n.prev
    <2>1. \E y \in events[r.item] : y.at = n.prev
      BY <1>1, <1>6 DEF EventsFit
    <2>2. n.prev # 0 /\ n.kind # "upload_staged"
      BY <1>1, <1>2, <1>6 DEF EventsFit, WorkTyped, WorkKinds, HoldKinds
    <2>3. n.at <= begun
      BY <1>2, <1>6 DEF WorkFits
    <2>4. n.at # 0
      BY <1>2, <1>6 DEF WorkFits
    <2> QED
      BY <1>2, <1>6, <2>1, <2>2, <2>3, <2>4 DEF CustodyTyped
  <1>9. ASSUME NEW e \in Items, NEW x \in events'[e]
        PROVE  /\ x.at \in 1..begun'
               /\ (x.prev = 0) <=> (x.kind = "upload_staged")
               /\ x.prev = 0 \/ \E y \in events'[e] : y.at = x.prev
    <2>1. CASE x \in events[e]
      BY <1>1, <1>5, <2>1 DEF EventsFit
    <2>2. CASE x \notin events[e]
      <3>1. e = r.item /\ x = n
        BY <1>3, <1>4, <1>9, <2>2
      <3> QED
        BY <1>1, <1>5, <1>8, <3>1
    <2> QED
      BY <2>1, <2>2
  <1>10. ASSUME NEW s \in Works', s.written PROVE s.prev # 0 /\ \E y \in events'[s.item] : y.at = s.prev
    BY <1>1, <1>2, <1>5, <1>10 DEF EventsFit
  <1>11. EventsFit'
    BY <1>7, <1>9, <1>10 DEF EventsFit
  <1>12. ASSUME NEW e \in Items
         PROVE  {x.version : x \in {y \in events'[e] : y.kind = "object_lock_stored"}}
                   = IF row'[e].version # 0 THEN {row'[e].version} ELSE {}
    <2> DEFINE V(S) == {x.version : x \in {y \in S : y.kind = "object_lock_stored"}}
    <2>0. V(events[e]) = IF row[e].version # 0 THEN {row[e].version} ELSE {}
      BY DEF RecordedOnce, HasVersion
    <2>1. CASE e # r.item
      BY <1>3, <2>0, <2>1
    <2>2. CASE e = r.item /\ r.kind # "object_lock_stored"
      <3>1. V(events'[e]) = V(events[e])
        BY <1>4, <1>6, <2>2
      <3>2. row'[e].version = row[e].version
        BY <1>2, <2>2 DEF Commits, WorkFits
      <3> QED
        BY <2>0, <3>1, <3>2
    <2>3. CASE e = r.item /\ r.kind = "object_lock_stored"
      <3>1. V(events'[e]) = V(events[e]) \union {n.version}
        BY <1>4, <1>6, <2>3
      <3>2. row'[e].version = r.wanted.version /\ r.wanted.version # 0 /\ row[e].version = 0
        BY <1>2, <2>3 DEF Commits, WorkFits, HasVersion, CustodyTyped
      <3>3. V(events[e]) = {}
        BY <2>0, <3>2
      <3> QED
        BY <1>6, <2>3, <3>1, <3>2, <3>3
    <2> QED
      BY <2>1, <2>2, <2>3
  <1> QED
    BY <1>11, <1>12 DEF RecordedOnce, HasVersion

LEMMA EventsUploads ==
  ASSUME CustodyTyped, VersionsStand, EventsFit, RecordedOnce, NEW e \in Items, Uploads(e)
  PROVE  EventsFit' /\ RecordedOnce'
  <1> DEFINE n == [at |-> begun + 1, prev |-> 0, kind |-> "upload_staged", told |-> "pending", version |-> 0]
  <1>1. /\ begun' = begun + 1 /\ begun \in Nat /\ Works' = Works
        /\ \A i \in Items : i # e => row'[i] = row[i] /\ events'[i] = events[i]
        /\ row'[e].status = "pending" /\ row'[e].version = row[e].version
        /\ row[e].status = "none" /\ events'[e] = {n}
    BY DEF Uploads, Works, CustodyTyped
  <1>2. /\ n.at = begun + 1 /\ n.prev = 0 /\ n.kind = "upload_staged" /\ n.told = "pending"
    OBVIOUS
  <1> HIDE DEF n
  <1>3. row[e].version = 0 /\ \A s \in Works : s.item # e /\ s.item \in Items
    BY <1>1 DEF VersionsStand, RowsFit, HasVersion, WorkFits, CustodyTyped, RequestTyped, WorkTyped, Works
  <1>4. \A i \in Items : \A x \in events[i] : x.at \in Nat
    BY DEF CustodyTyped, EventRows
  <1>5. ASSUME NEW i \in Items, NEW x \in events'[i]
        PROVE  /\ x.at \in 1..begun'
               /\ (x.prev = 0) <=> (x.kind = "upload_staged")
               /\ x.prev = 0 \/ \E y \in events'[i] : y.at = x.prev
    <2>1. CASE i = e
      BY <1>1, <1>2, <1>5, <2>1
    <2>2. CASE i # e
      BY <1>1, <1>4, <1>5, <2>2 DEF EventsFit
    <2> QED
      BY <2>1, <2>2
  <1>6. \A i \in Items : row'[i].status # "none" => \E x \in events'[i] : x.told = row'[i].status
    BY <1>1, <1>2 DEF EventsFit
  <1>7. \A s \in Works' : s.written => s.prev # 0 /\ \E y \in events'[s.item] : y.at = s.prev
    BY <1>1, <1>3 DEF EventsFit
  <1>8. EventsFit'
    BY <1>5, <1>6, <1>7 DEF EventsFit
  <1>9. \A i \in Items : i # e => {x.version : x \in {y \in events'[i] : y.kind = "object_lock_stored"}}
                   = IF row'[i].version # 0 THEN {row'[i].version} ELSE {}
    BY <1>1 DEF RecordedOnce, HasVersion
  <1>10. {x.version : x \in {y \in events'[e] : y.kind = "object_lock_stored"}} = {}
    BY <1>1, <1>2
  <1> QED
    BY <1>1, <1>3, <1>8, <1>9, <1>10 DEF RecordedOnce, HasVersion

LEMMA EventsNext ==
  ASSUME CustodyTyped, VersionsStand, EventsFit, RecordedOnce, [CustodyNext]_custodyVars
  PROVE  EventsFit' /\ RecordedOnce'
  <1>1. CASE Quiet
    <2>1. UNCHANGED <<row, events>> /\ Works' \subseteq Works /\ begun' \in Nat /\ begun \in Nat /\ begun <= begun'
      BY <1>1 DEF Quiet, CustodyTyped
    <2>2. \A i \in Items : \A x \in events[i] : x.at \in Nat
      BY DEF CustodyTyped, EventRows
    <2>3. EventsFit'
      BY <2>1, <2>2 DEF EventsFit
    <2> QED
      BY <2>1, <2>3 DEF RecordedOnce, HasVersion
  <1> QED
    BY <1>1, Steps, EventsBegins, EventsAppends, EventsCommits, EventsUploads

(***************************************************************************)
(* Holds.                                                                  *)
(***************************************************************************)
LEMMA HoldsBegins ==
  ASSUME CustodyTyped, VersionsStand, HoldsFit, HoldIsApplied, NEW r, Begins(r)
  PROVE  HoldsFit' /\ HoldIsApplied'
  <1>1. /\ UNCHANGED <<row, holds>> /\ begun' = begun + 1 /\ begun \in Nat /\ Works' = Works \union {r}
        /\ underHold \subseteq underHold' /\ r.at = begun + 1
    BY DEF Begins, CustodyTyped, Works
  <1>2. \A h \in holds : h.id \in Nat /\ h.id <= begun
    BY DEF CustodyTyped, HoldRows, HoldsFit
  <1>3. \A h \in holds' : h.id <= begun' /\ \A k \in holds' : h.id = k.id => h.item = k.item
    BY <1>1, <1>2 DEF HoldsFit
  <1>4. \A h \in holds : h.id # r.at
    BY <1>1, <1>2
  <1>5. HoldsFit'
    <2> SUFFICES ASSUME NEW s \in Works'
                 PROVE  /\ s.kind = "legal_hold_requested" => s.hold.id = s.at /\ \A h \in holds' : h.id # s.at
                        /\ s.kind = "legal_hold_confirmed" =>
                              /\ <<s.item, row'[s.item].version>> \in underHold'
                              /\ s.hold.confirmed /\ s.hold.who # s.hold.by
                              /\ \E h \in holds' : h.id = s.hold.id /\ h.item = s.item
      BY <1>3 DEF HoldsFit
    <2>1. CASE s = r
      BY <1>1, <1>4, <2>1 DEF Begins
    <2>2. CASE s \in Works
      BY <1>1, <2>2 DEF HoldsFit
    <2> QED
      BY <1>1, <2>1, <2>2
  <1> QED
    BY <1>1, <1>5 DEF HoldIsApplied

LEMMA HoldsAppends ==
  ASSUME CustodyTyped, HoldsFit, HoldIsApplied, NEW r \in requests, NEW q, Appends(r, q)
  PROVE  HoldsFit' /\ HoldIsApplied'
  <1>1. UNCHANGED <<row, holds, begun, underHold>> /\ Works' = (Works \ {r}) \union {q} /\ r \in Works
    BY DEF Appends, Works, vaultVars
  <1>2. q.item = r.item /\ q.kind = r.kind /\ q.at = r.at /\ q.hold = r.hold
    BY DEF Appends
  <1>3. HoldsFit'
    BY <1>1, <1>2 DEF HoldsFit
  <1> QED
    BY <1>1, <1>3 DEF HoldIsApplied

LEMMA HoldsCommits ==
  ASSUME CustodyTyped, VersionsStand, HoldsFit, HoldIsApplied, NEW r \in requests, Commits(r)
  PROVE  HoldsFit' /\ HoldIsApplied'
  <1>1. UNCHANGED <<begun, underHold>> /\ Works' = Works \ {r} /\ r \in Works
    BY DEF Commits, Works, vaultVars
  <1>2. WorkTyped(r) /\ r.item \in Items /\ WorkFits(r) /\ r.at \in Nat /\ begun \in Nat
    BY <1>1 DEF CustodyTyped, RequestTyped, WorkTyped, VersionsStand, Works
  <1>3. \A e \in Items : e # r.item => row'[e] = row[e]
    BY DEF Commits
  <1>4. \A e \in Items : row[e].version # 0 => row'[e].version = row[e].version
    BY <1>2, <1>3 DEF Commits, WorkFits, HasVersion
  <1>5. ASSUME r.kind \in HoldKinds
        PROVE  /\ r.hold \in HoldRows /\ r.hold.item = r.item /\ r.hold.id <= begun
               /\ \A h \in holds : h.id = r.hold.id => h.item = r.item
               /\ holds' = {h \in holds : h.id # r.hold.id} \union {r.hold}
    <2>1. /\ r.hold \in HoldRows /\ r.hold.item = r.item
          /\ holds' = {h \in holds : h.id # r.hold.id} \union {r.hold}
      BY <1>2, <1>5 DEF WorkTyped, Commits
    <2>2. CASE r.kind = "legal_hold_requested"
      <3>1. r.hold.id = r.at /\ \A h \in holds : h.id # r.at
        BY <1>1, <2>2 DEF HoldsFit
      <3>2. r.at <= begun
        BY <1>2 DEF WorkFits
      <3> QED
        BY <2>1, <3>1, <3>2
    <2>3. CASE r.kind = "legal_hold_confirmed"
      BY <1>1, <1>2, <2>1, <2>3 DEF HoldsFit
    <2> QED
      BY <1>5, <2>1, <2>2, <2>3 DEF HoldKinds
  <1>6. \A h \in holds' : h.id <= begun /\ \A k \in holds' : h.id = k.id => h.item = k.item
    <2>1. CASE r.kind \in HoldKinds
      BY <1>5, <2>1 DEF HoldsFit
    <2>2. CASE r.kind \notin HoldKinds
      BY <2>2 DEF HoldsFit, Commits
    <2> QED
      BY <2>1, <2>2
  <1>7. ASSUME NEW s \in Works', s.kind = "legal_hold_requested"
        PROVE  s.hold.id = s.at /\ \A h \in holds' : h.id # s.at
    <2>1. s \in Works /\ s # r /\ s.hold.id = s.at /\ (\A h \in holds : h.id # s.at) /\ s.at # r.at
      BY <1>1, <1>7 DEF HoldsFit, VersionsStand
    <2>2. CASE r.kind = "legal_hold_requested"
      <3>1. r.hold.id = r.at /\ r.kind \in HoldKinds
        BY <1>1, <2>2 DEF HoldsFit, HoldKinds
      <3> QED
        BY <1>5, <2>1, <3>1
    <2>3. CASE r.kind = "legal_hold_confirmed"
      <3>1. r.kind \in HoldKinds /\ \E h \in holds : h.id = r.hold.id
        BY <1>1, <2>3 DEF HoldsFit, HoldKinds
      <3> QED
        BY <1>5, <2>1, <3>1
    <2>4. CASE r.kind \notin HoldKinds
      BY <2>1, <2>4 DEF Commits
    <2> QED
      BY <2>2, <2>3, <2>4 DEF HoldKinds
  <1>8. ASSUME NEW s \in Works', s.kind = "legal_hold_confirmed"
        PROVE  /\ <<s.item, row'[s.item].version>> \in underHold'
               /\ s.hold.confirmed /\ s.hold.who # s.hold.by
               /\ \E h \in holds' : h.id = s.hold.id /\ h.item = s.item
    <2>1. s \in Works /\ WorkFits(s) /\ s.item \in Items
      BY <1>1 DEF VersionsStand, CustodyTyped, RequestTyped, WorkTyped, Works
    <2>2. row'[s.item].version = row[s.item].version
      BY <1>4, <1>8, <2>1 DEF WorkFits, HasVersion
    <2>3. /\ <<s.item, row[s.item].version>> \in underHold
          /\ s.hold.confirmed /\ s.hold.who # s.hold.by
      BY <1>8, <2>1 DEF HoldsFit
    <2>4. PICK h \in holds : h.id = s.hold.id /\ h.item = s.item
      BY <1>8, <2>1 DEF HoldsFit
    <2>5. \E k \in holds' : k.id = s.hold.id /\ k.item = s.item
      <3>1. CASE r.kind \notin HoldKinds
        BY <2>4, <3>1 DEF Commits
      <3>2. CASE r.kind \in HoldKinds /\ h.id # r.hold.id
        BY <1>5, <2>4, <3>2
      <3>3. CASE r.kind \in HoldKinds /\ h.id = r.hold.id
        BY <1>5, <2>4, <3>3
      <3> QED
        BY <3>1, <3>2, <3>3
    <2> QED
      BY <1>1, <2>2, <2>3, <2>5
  <1>9. HoldsFit'
    BY <1>1, <1>6, <1>7, <1>8 DEF HoldsFit
  <1>10. ASSUME NEW e \in Items, row'[e].hold
         PROVE  /\ <<e, row'[e].version>> \in underHold'
                /\ \E h \in holds' : h.item = e /\ h.confirmed /\ h.who # h.by
    <2>1. CASE e = r.item /\ r.kind = "legal_hold_confirmed"
      <3>1. row'[e].version = row[e].version
        BY <1>2, <1>4, <2>1 DEF WorkFits, HasVersion
      <3>2. r.kind \in HoldKinds /\ <<e, row[e].version>> \in underHold /\ r.hold.confirmed /\ r.hold.who # r.hold.by
        BY <1>1, <2>1 DEF HoldsFit, HoldKinds
      <3> QED
        BY <1>1, <1>5, <2>1, <3>1, <3>2
    <2>2. CASE ~(e = r.item /\ r.kind = "legal_hold_confirmed")
      <3>1. row[e].hold
        BY <1>2, <1>3, <1>10, <2>2 DEF Commits, WorkFits
      <3>2. row'[e].version = row[e].version
        BY <1>4, <3>1 DEF VersionsStand, RowsFit, HasVersion
      <3>3. PICK h \in holds : h.item = e /\ h.confirmed /\ h.who # h.by
        BY <3>1 DEF HoldIsApplied
      <3>4. \E k \in holds' : k.item = e /\ k.confirmed /\ k.who # k.by
        <4>1. CASE r.kind \notin HoldKinds
          BY <3>3, <4>1 DEF Commits
        <4>2. CASE r.kind \in HoldKinds /\ h.id # r.hold.id
          BY <1>5, <3>3, <4>2
        <4>3. CASE r.kind \in HoldKinds /\ h.id = r.hold.id
          <5>1. h.item = r.item
            BY <1>5, <4>3
          <5>2. r.kind = "legal_hold_requested"
            BY <2>2, <3>3, <4>3, <5>1 DEF HoldKinds
          <5> QED
            BY <1>1, <4>3, <5>2 DEF HoldsFit
        <4> QED
          BY <4>1, <4>2, <4>3
      <3> QED
        BY <1>1, <3>1, <3>2, <3>4 DEF HoldIsApplied
    <2> QED
      BY <2>1, <2>2
  <1> QED
    BY <1>9, <1>10 DEF HoldIsApplied

LEMMA HoldsUploads ==
  ASSUME CustodyTyped, VersionsStand, HoldsFit, HoldIsApplied, NEW e \in Items, Uploads(e)
  PROVE  HoldsFit' /\ HoldIsApplied'
  <1>1. /\ holds' = holds /\ underHold' = underHold /\ begun' = begun + 1 /\ begun \in Nat /\ Works' = Works
        /\ \A i \in Items : row'[i].version = row[i].version /\ row'[i].hold = row[i].hold
    BY DEF Uploads, CustodyTyped, Works, vaultVars
  <1>2. \A h \in holds : h.id \in Nat /\ h.id <= begun
    BY DEF CustodyTyped, HoldRows, HoldsFit
  <1>3. \A s \in Works : s.item \in Items
    BY DEF CustodyTyped, RequestTyped, WorkTyped, Works
  <1>4. \A h \in holds' : h.id <= begun'
    BY <1>1, <1>2
  <1>5. HoldsFit'
    BY <1>1, <1>3, <1>4 DEF HoldsFit
  <1> QED
    BY <1>1, <1>5 DEF HoldIsApplied

LEMMA HoldsNext ==
  ASSUME CustodyTyped, VersionsStand, HoldsFit, HoldIsApplied, [CustodyNext]_custodyVars
  PROVE  HoldsFit' /\ HoldIsApplied'
  <1>1. CASE Quiet
    <2>1. UNCHANGED <<row, holds, underHold>> /\ Works' \subseteq Works /\ begun' \in Nat /\ begun \in Nat /\ begun <= begun'
      BY <1>1 DEF Quiet, CustodyTyped
    <2>2. \A h \in holds : h.id \in Nat /\ h.id <= begun
      BY DEF CustodyTyped, HoldRows, HoldsFit
    <2>3. \A h \in holds' : h.id <= begun'
      BY <2>1, <2>2
    <2>4. HoldsFit'
      BY <2>1, <2>3 DEF HoldsFit
    <2> QED
      BY <2>1, <2>4 DEF HoldIsApplied
  <1> QED
    BY <1>1, Steps, HoldsBegins, HoldsAppends, HoldsCommits, HoldsUploads

(***************************************************************************)
(* Items that no two requests worked on at once.                           *)
(***************************************************************************)
LastEvents(e) == {x \in StatusEvents(e) : \A y \in StatusEvents(e) : y.at <= x.at}

\* Every event is of the past.
LEMMA LastIs ==
  ASSUME CustodyTyped, EventsFit, NEW e \in Items
  PROVE  LastBefore(e, begun + 1) = LastEvents(e)
  <1>1. \A x \in events[e] : x.at \in Nat /\ x.at < begun + 1
    BY DEF CustodyTyped, EventsFit
  <1> QED
    BY <1>1 DEF LastBefore, LastEvents, StatusEvents

(* What is said of one item, which a step that changes neither its row nor    *)
(* its events keeps.                                                         *)
ToldOf(e) ==
    /\ row[e].status # "none" => \A x \in LastEvents(e) : x.told = row[e].status
    /\ \A x \in StatusEvents(e) : x.kind = "human_attestation" =>
          \A y \in LastBefore(e, x.at) : y.told # "integrity_failed"
ChainedOf(e) == \A x \in events[e] : ~ \E y \in events[e] : x.prev < y.at /\ y.at < x.at
FitsOf(e) ==
    \A r \in On(e) :
        /\ \A s \in On(e) : s = r
        /\ \A x \in events[e] : x.at < r.at /\ (r.written => x.at <= r.prev)
        /\ "status" \in DOMAIN r.changed \/ Told(r) \in {"nothing", row[e].status}
        /\ r.kind = "human_attestation" => row[e].status \in Sound

AloneOf(e) == ToldOf(e) /\ ChainedOf(e) /\ FitsOf(e)

LEMMA AloneKept ==
  ASSUME NEW e, row'[e] = row[e], events'[e] = events[e], On(e)' \subseteq On(e), AloneOf(e)
  PROVE  AloneOf(e)'
  <1>1. StatusEvents(e)' = StatusEvents(e)
    BY DEF StatusEvents
  <1>2. LastEvents(e)' = LastEvents(e)
    BY <1>1 DEF LastEvents
  <1>3. \A t : LastBefore(e, t)' = LastBefore(e, t)
    BY <1>1 DEF LastBefore
  <1>4. ToldOf(e)'
    BY <1>1, <1>2, <1>3 DEF AloneOf, ToldOf
  <1>5. ChainedOf(e)' /\ FitsOf(e)'
    BY DEF AloneOf, ChainedOf, FitsOf, Told
  <1> QED
    BY <1>4, <1>5 DEF AloneOf

LEMMA AloneBegins ==
  ASSUME CustodyTyped, EventsFit, \A e \in alone : AloneOf(e), NEW r, Begins(r), NEW e \in alone'
  PROVE  AloneOf(e)'
  <1>1. /\ row' = row /\ events' = events /\ e \in alone /\ r.item \in Items
        /\ requests' = requests \union {r} /\ r.op = "row" /\ AloneOf(e)
    BY DEF Begins, WorkTyped
  <1>2. CASE e # r.item
    <2>1. On(e)' \subseteq On(e)
      BY <1>1, <1>2 DEF On
    <2> QED
      BY <1>1, <2>1, AloneKept
  <1>3. CASE e = r.item
    <2>1. On(e) = {}
      BY <1>3 DEF Begins, CustodyTyped
    <2>2. On(e)' = {r}
      BY <1>1, <1>3, <2>1 DEF On
    <2>3. StatusEvents(e)' = StatusEvents(e)
      BY <1>1 DEF StatusEvents
    <2>4. LastEvents(e)' = LastEvents(e) /\ \A t : LastBefore(e, t)' = LastBefore(e, t)
      BY <2>3 DEF LastEvents, LastBefore
    <2>5. ToldOf(e)' /\ ChainedOf(e)'
      BY <1>1, <2>3, <2>4 DEF AloneOf, ToldOf, ChainedOf
    <2>6. \A x \in events[e] : x.at < r.at
      BY <1>1, <1>3 DEF EventsFit, Begins, CustodyTyped, EventRows
    <2>7. FitsOf(e)'
      BY <1>1, <1>3, <2>2, <2>6 DEF FitsOf, Begins, Told
    <2> QED
      BY <2>5, <2>7 DEF AloneOf
  <1> QED
    BY <1>2, <1>3

LEMMA AloneAppends ==
  ASSUME CustodyTyped, \A e \in alone : AloneOf(e), NEW r \in requests, NEW q, Appends(r, q), NEW e \in alone'
  PROVE  AloneOf(e)'
  <1>1. /\ row' = row /\ events' = events /\ e \in alone /\ r \in On(r.item) /\ e \in Items
        /\ requests' = (requests \ {r}) \union {q} /\ q.op = "row" /\ AloneOf(e)
        /\ q.item = r.item /\ q.kind = r.kind /\ q.at = r.at /\ q.changed = r.changed /\ q.wanted = r.wanted
    BY DEF Appends, On, CustodyTyped
  <1>2. CASE e # r.item
    <2>1. On(e)' \subseteq On(e)
      BY <1>1, <1>2 DEF On
    <2> QED
      BY <1>1, <2>1, AloneKept
  <1>3. CASE e = r.item
    <2>1. On(e) = {r}
      BY <1>1, <1>3 DEF AloneOf, FitsOf
    <2>2. On(e)' = {q}
      BY <1>1, <1>3, <2>1 DEF On
    <2>3. StatusEvents(e)' = StatusEvents(e)
      BY <1>1 DEF StatusEvents
    <2>4. LastEvents(e)' = LastEvents(e) /\ \A t : LastBefore(e, t)' = LastBefore(e, t)
      BY <2>3 DEF LastEvents, LastBefore
    <2>5. ToldOf(e)' /\ ChainedOf(e)'
      BY <1>1, <2>3, <2>4 DEF AloneOf, ToldOf, ChainedOf
    <2>6. \A x \in events[e] : x.at <= q.prev
      BY <1>1, <1>3, LatestIs DEF Appends
    <2>7. FitsOf(e)'
      BY <1>1, <1>3, <2>1, <2>2, <2>6 DEF AloneOf, FitsOf, Told
    <2> QED
      BY <2>5, <2>7 DEF AloneOf
  <1> QED
    BY <1>2, <1>3

LEMMA AloneCommits ==
  ASSUME CustodyTyped, VersionsStand, EventsFit, \A e \in alone : AloneOf(e), NEW r \in requests, Commits(r), NEW e \in alone'
  PROVE  AloneOf(e)'
  <1> DEFINE n == NewEvent(r)
  <1>1. /\ e \in alone /\ r \in On(r.item) /\ e \in Items /\ r \in Works /\ WorkTyped(r) /\ WorkFits(r)
        /\ requests' = requests \ {r} /\ AloneOf(e) /\ r.written /\ r.at \in Nat /\ r.prev \in Nat
    BY DEF Commits, On, CustodyTyped, Works, VersionsStand, RequestTyped, WorkTyped
  <1>2. CASE e # r.item
    <2>1. On(e)' \subseteq On(e)
      BY <1>1, <1>2 DEF On
    <2>2. row'[e] = row[e] /\ events'[e] = events[e]
      BY <1>1, <1>2 DEF Commits
    <2> QED
      BY <1>1, <2>1, <2>2, AloneKept
  <1>3. CASE e = r.item
    <2>1. On(e) = {r}
      BY <1>1, <1>3 DEF AloneOf, FitsOf
    <2>2. On(e)' = {}
      BY <1>1, <1>3, <2>1 DEF On
    <2>3. FitsOf(e)'
      BY <2>2 DEF FitsOf
    <2>4. /\ \A x \in events[e] : x.at \in Nat /\ x.prev \in Nat /\ x.at < r.at /\ x.at <= r.prev
          /\ ("status" \in DOMAIN r.changed \/ Told(r) \in {"nothing", row[e].status})
          /\ (r.kind = "human_attestation" => row[e].status \in Sound)
      BY <1>1, <2>1 DEF AloneOf, FitsOf, CustodyTyped, EventRows
    <2>5. events'[e] = events[e] \union {n} /\ n.at = r.at /\ n.prev = r.prev /\ n.kind = r.kind /\ n.told = Told(r)
      BY <1>3, EventFacts DEF Commits
    <2> HIDE DEF n
    <2>6. ChainedOf(e)'
      BY <1>1, <2>4, <2>5 DEF AloneOf, ChainedOf
    <2>7. ToldOf(e)'
      <3>1. CASE Told(r) = "nothing"
        <4>1. r.kind \in HoldKinds
          BY <1>1, <3>1 DEF Told, WorkTyped, ItemRows, Statuses, HoldKinds
        <4>2. row'[e].status = row[e].status
          BY <1>1, <1>3, <4>1 DEF Commits, WorkFits
        <4>3. StatusEvents(e)' = StatusEvents(e)
          BY <2>5, <3>1 DEF StatusEvents
        <4>4. LastEvents(e)' = LastEvents(e) /\ \A t : LastBefore(e, t)' = LastBefore(e, t)
          BY <4>3 DEF LastEvents, LastBefore
        <4> QED
          BY <1>1, <4>2, <4>3, <4>4 DEF AloneOf, ToldOf
      <3>2. CASE Told(r) # "nothing"
        <4>1. Told(r) = r.wanted.status
          BY <3>2 DEF Told
        <4>2. row'[e].status = Told(r)
          BY <1>3, <2>4, <3>2, <4>1 DEF Commits
        <4>3. StatusEvents(e)' = StatusEvents(e) \union {n}
          BY <2>5, <3>2 DEF StatusEvents
        <4>4. StatusEvents(e) \subseteq events[e]
          BY DEF StatusEvents
        <4>5. LastEvents(e)' \subseteq {n}
          BY <1>1, <2>4, <2>5, <4>3, <4>4 DEF LastEvents
        <4>6. ASSUME NEW x \in StatusEvents(e) PROVE LastBefore(e, x.at)' = LastBefore(e, x.at)
          <5>1. x.at \in Nat /\ ~(n.at < x.at)
            BY <1>1, <2>4, <2>5, <4>4
          <5> QED
            BY <4>3, <5>1 DEF LastBefore
        <4>7. LastBefore(e, n.at)' = LastEvents(e)
          <5>1. ~(n.at < n.at) /\ \A x \in StatusEvents(e) : x.at < n.at
            BY <1>1, <2>4, <2>5, <4>4
          <5> QED
            BY <4>3, <5>1 DEF LastBefore, LastEvents
        <4>8. n.kind = "human_attestation" => \A y \in LastEvents(e) : y.told # "integrity_failed"
          <5>1. row[e].status # "none"
            BY <1>1, <1>3 DEF WorkFits
          <5> QED
            BY <1>1, <2>4, <2>5, <5>1 DEF AloneOf, ToldOf, Sound
        <4>9. ASSUME NEW x \in StatusEvents(e)', x.kind = "human_attestation"
              PROVE  \A y \in LastBefore(e, x.at)' : y.told # "integrity_failed"
          <5>1. CASE x = n
            BY <4>7, <4>8, <4>9, <5>1
          <5>2. CASE x \in StatusEvents(e)
            BY <1>1, <4>6, <4>9, <5>2 DEF AloneOf, ToldOf
          <5> QED
            BY <4>3, <4>9, <5>1, <5>2
        <4>10. \A x \in LastEvents(e)' : x.told = row'[e].status
          BY <2>5, <4>2, <4>5
        <4> QED
          BY <4>9, <4>10 DEF ToldOf
      <3> QED
        BY <3>1, <3>2
    <2> QED
      BY <2>3, <2>6, <2>7 DEF AloneOf
  <1> QED
    BY <1>2, <1>3

LEMMA AloneUploads ==
  ASSUME CustodyTyped, VersionsStand, \A e \in alone : AloneOf(e), NEW i \in Items, Uploads(i), NEW e \in alone'
  PROVE  AloneOf(e)'
  <1>1. requests' = requests /\ e \in alone /\ e \in Items /\ AloneOf(e)
    BY DEF Uploads, CustodyTyped
  <1>2. CASE e # i
    <2>1. On(e)' \subseteq On(e) /\ row'[e] = row[e] /\ events'[e] = events[e]
      BY <1>1, <1>2 DEF On, Uploads
    <2> QED
      BY <1>1, <2>1, AloneKept
  <1>3. CASE e = i
    <2> DEFINE n == [at |-> begun + 1, prev |-> 0, kind |-> "upload_staged", told |-> "pending", version |-> 0]
    <2>1. events'[e] = {n} /\ row'[e].status = "pending" /\ row[e].status = "none"
      BY <1>3 DEF Uploads
    <2>2. n.kind = "upload_staged" /\ n.told = "pending" /\ n.at \in Nat
      BY DEF CustodyTyped
    <2> HIDE DEF n
    <2>3. On(e)' = {}
      BY <1>1, <1>3, <2>1 DEF On, VersionsStand, Works, WorkFits
    <2>4. StatusEvents(e)' = {n}
      BY <2>1, <2>2 DEF StatusEvents
    <2>5. ToldOf(e)'
      BY <2>1, <2>2, <2>4 DEF ToldOf, LastEvents
    <2>6. ChainedOf(e)'
      BY <2>1, <2>2 DEF ChainedOf
    <2> QED
      BY <2>3, <2>5, <2>6 DEF AloneOf, FitsOf
  <1> QED
    BY <1>2, <1>3

LEMMA AloneNext ==
  ASSUME CustodyTyped, VersionsStand, EventsFit, \A e \in alone : AloneOf(e), [CustodyNext]_custodyVars
  PROVE  \A e \in alone' : AloneOf(e)'
  <1>1. ASSUME Quiet, NEW e \in alone' PROVE AloneOf(e)'
    <2>1. On(e)' \subseteq On(e) /\ row'[e] = row[e] /\ events'[e] = events[e] /\ e \in alone
      BY <1>1 DEF Quiet, On, Works
    <2> QED
      BY <2>1, AloneKept
  <1>2. ASSUME NEW r, Begins(r), NEW e \in alone' PROVE AloneOf(e)'
    BY <1>2, AloneBegins
  <1>3. ASSUME NEW r \in requests, NEW q, Appends(r, q), NEW e \in alone' PROVE AloneOf(e)'
    BY <1>3, AloneAppends
  <1>4. ASSUME NEW r \in requests, Commits(r), NEW e \in alone' PROVE AloneOf(e)'
    BY <1>4, AloneCommits
  <1>5. ASSUME NEW i \in Items, Uploads(i), NEW e \in alone' PROVE AloneOf(e)'
    BY <1>5, AloneUploads
  <1> QED
    BY <1>1, <1>2, <1>3, <1>4, <1>5, Steps

(***************************************************************************)
(* An original that has no version yet is in its staging area.             *)
(***************************************************************************)
UnversionedStaged == \A e \in Items : row[e].status # "none" /\ ~HasVersion(e) /\ e \notin lost => e \in disk

LEMMA StagedNext ==
  ASSUME CustodyTyped, VersionsStand, UnversionedStaged, [CustodyNext]_custodyVars
  PROVE  UnversionedStaged'
  <1>1. ASSUME NEW r, Begins(r) PROVE UnversionedStaged'
    BY <1>1 DEF Begins, UnversionedStaged, HasVersion
  <1>2. ASSUME NEW r, NEW q, Appends(r, q) PROVE UnversionedStaged'
    BY <1>2 DEF Appends, UnversionedStaged, HasVersion
  <1>3. ASSUME NEW r \in requests, Commits(r) PROVE UnversionedStaged'
    <2>1. disk' = disk /\ lost' = lost /\ r \in Works
      BY <1>3 DEF Commits, Works
    <2>2. r.item \in Items /\ row[r.item].status # "none"
      BY <2>1 DEF VersionsStand, WorkFits, CustodyTyped, RequestTyped, WorkTyped, Works
    <2>3. ASSUME NEW e \in Items, row'[e].version = 0 PROVE row[e].version = 0
      BY <2>3, VersionForGood DEF HasVersion
    <2>4. \A e \in Items : row'[e].status # "none" => row[e].status # "none"
      BY <1>3, <2>2 DEF Commits
    <2> QED
      BY <2>1, <2>3, <2>4 DEF UnversionedStaged, HasVersion
  <1>4. ASSUME NEW e \in Items, Uploads(e) PROVE UnversionedStaged'
    BY <1>4 DEF Uploads, UnversionedStaged, HasVersion
  <1>5. CASE Quiet
    BY <1>5 DEF Quiet, UnversionedStaged, HasVersion
  <1> QED
    BY <1>1, <1>2, <1>3, <1>4, <1>5, Steps

LEMMA StagedIsRecoverable ==
  ASSUME CustodyTyped, VersionsStand, UnversionedStaged
  PROVE  OriginalIsRecoverable
  <1> SUFFICES ASSUME NEW e \in Items, row[e].status # "none", e \notin lost
               PROVE  e \in disk \/ row[e].version \in 1..kept[e]
    BY DEF OriginalIsRecoverable
  <1>1. row[e].version \in Nat /\ kept[e] \in Nat
    BY DEF CustodyTyped, ItemRows
  <1>2. CASE HasVersion(e)
    BY <1>1, <1>2 DEF VersionsStand, RowsFit, HasVersion
  <1>3. CASE ~HasVersion(e)
    BY <1>3 DEF UnversionedStaged
  <1> QED
    BY <1>2, <1>3

(***************************************************************************)
(* The report and the status of the investigation.                         *)
(***************************************************************************)
KeepsReport == report' = report /\ \A r \in requests' : r.op = "approve" => r \in requests
KeepsCase ==
    /\ UNCHANGED <<inquiry, settled, deletions>>
    /\ \A r \in requests' : r.op = "status" => r \in requests

LEMMA Effects ==
  ASSUME CustodyTyped, [CustodyNext]_custodyVars
  PROVE  /\ \/ KeepsReport
            \/ \E cites \in SUBSET Items : CreateReport(cites)
            \/ BeginApprove
            \/ \E r \in requests : CommitApprove(r)
         /\ \/ KeepsCase
            \/ \E status \in CaseStatuses : BeginStatus(status)
            \/ \E r \in requests : CommitStatus(r)
  <1> USE DEF KeepsReport, KeepsCase, caseVars
  <1>1. CASE UNCHANGED custodyVars
    BY <1>1 DEF custodyVars
  <1>2. ASSUME NEW r, Begins(r) PROVE KeepsReport /\ KeepsCase
    BY <1>2 DEF Begins
  <1>3. ASSUME NEW r, NEW q, Appends(r, q) PROVE KeepsReport /\ KeepsCase
    BY <1>3 DEF Appends
  <1>4. ASSUME NEW r \in requests, CommitRow(r) PROVE KeepsReport /\ KeepsCase
    BY <1>4 DEF CommitRow
  <1>5. ASSUME NEW e \in Items, Upload(e) \/ CleanUpStage(e) \/ LoseStage(e) \/ Damage(e)
        PROVE  KeepsReport /\ KeepsCase
    BY <1>5 DEF Upload, CleanUpStage, LoseStage, Damage
  <1>6. ASSUME NEW r \in requests, RollBackRequest(r) PROVE KeepsReport /\ KeepsCase
    BY <1>6 DEF RollBackRequest
  <1>7. ASSUME NEW cites \in SUBSET Items, CreateReport(cites) PROVE KeepsCase
    BY <1>7 DEF CreateReport
  <1>8. CASE BeginApprove
    <2>1. KeepsCase
      BY <1>8 DEF BeginApprove, BeginRequest
    <2> QED
      BY <1>8, <2>1
  <1>9. ASSUME NEW r \in requests, CommitApprove(r) PROVE KeepsCase
    BY <1>9 DEF CommitApprove
  <1>10. ASSUME NEW status \in CaseStatuses, BeginStatus(status) PROVE KeepsReport
    BY <1>10 DEF BeginStatus, BeginRequest
  <1>11. ASSUME NEW r \in requests, CommitStatus(r) PROVE KeepsReport
    BY <1>11 DEF CommitStatus
  <1>12. ASSUME NEW e \in Items, NEW u \in Users,
                FinalizeEvidence(e) \/ VerifyEvidence(e) \/ AttestEvidence(e) \/ RequestHold(e, u)
         PROVE  \E r : Begins(r)
    BY <1>12, FinalizeBegins, VerifyBegins, AttestBegins, RequestHoldBegins
  <1>13. ASSUME NEW e \in Items, FinalizeEvidence(e) \/ VerifyEvidence(e) \/ AttestEvidence(e)
         PROVE  \E r : Begins(r)
    BY <1>13, FinalizeBegins, VerifyBegins, AttestBegins
  <1>14. ASSUME NEW h \in holds, NEW u \in Users, ConfirmHold(h, u) PROVE \E r : Begins(r)
    BY <1>14, ConfirmHoldBegins
  <1>15. ASSUME NEW r \in requests, AppendEvent(r) PROVE \E q : Appends(r, q)
    BY <1>15, AppendIs
  <1> HIDE DEF KeepsReport, KeepsCase
  <1> QED
    BY <1>1, <1>2, <1>3, <1>4, <1>5, <1>6, <1>7, <1>8, <1>9, <1>10, <1>11, <1>12, <1>13, <1>14, <1>15
       DEF CustodyNext

LEMMA KeptGrows ==
  ASSUME CustodyTyped, [CustodyNext]_custodyVars, NEW e \in Items
  PROVE  kept[e] \in Nat /\ kept'[e] \in Nat /\ kept[e] <= kept'[e]
  <1>1. kept[e] \in Nat
    BY DEF CustodyTyped
  <1>2. kept' = kept \/ (kept' \in [Items -> Nat] /\ kept[e] <= kept'[e])
    BY Steps DEF Begins, Appends, Commits, Uploads, Quiet, vaultVars
  <1> QED
    BY <1>1, <1>2

LEMMA CaseReportNext ==
  ASSUME CustodyTyped, VersionsStand, ReportFits, ReportsArePreserved, [CustodyNext]_custodyVars
  PROVE  ReportFits' /\ ReportsArePreserved'
  <1>0. \A e \in Items : row[e].version # 0 => row'[e].version = row[e].version
    BY VersionForGood DEF HasVersion
  <1>1. CASE KeepsReport
    <2>1. ReportFits'
      BY <1>0, <1>1 DEF KeepsReport, ReportFits, HasVersion
    <2>2. ReportsArePreserved'
      <3> SUFFICES ASSUME report.status = "FINAL", NEW m \in report.manifest
                   PROVE  m[2] = row'[m[1]].version /\ m[2] \in 1..kept'[m[1]]
        BY <1>1 DEF KeepsReport, ReportsArePreserved
      <3>1. m[2] = row[m[1]].version /\ m[2] \in 1..kept[m[1]] /\ m[1] \in Items
        BY DEF ReportsArePreserved, ReportFits
      <3> QED
        BY <1>0, <3>1, KeptGrows
    <2> QED
      BY <2>1, <2>2
  <1>2. ASSUME NEW cites \in SUBSET Items, CreateReport(cites) PROVE ReportFits' /\ ReportsArePreserved'
    <2>1. /\ report.status = "none" /\ requests' = requests
          /\ report' = [report EXCEPT !.status = "DRAFT", !.cites = cites]
      BY <1>2 DEF CreateReport
    <2>2. \A r \in requests : r.op # "approve"
      BY <2>1 DEF ReportFits
    <2>3. report' = [status |-> "DRAFT", cites |-> cites, manifest |-> report.manifest,
                     version |-> report.version, approvals |-> report.approvals]
      BY <2>1 DEF ReportFits
    <2>4. report.approvals = 0
      BY <2>1 DEF ReportFits
    <2> QED
      BY <2>1, <2>2, <2>3, <2>4 DEF ReportFits, ReportsArePreserved
  <1>3. CASE BeginApprove
    <2> DEFINE m == {<<e, row[e].version>> : e \in report.cites}
               r == [op |-> "approve", at |-> begun + 1, manifest |-> m]
    <2>1. /\ report.status = "DRAFT" /\ report' = report /\ row' = row /\ requests' = requests \union {r}
          /\ (\A s \in requests : s.op # "approve") /\ \A e \in report.cites : HasVersion(e)
      BY <1>3 DEF BeginApprove, BeginRequest
    <2>2. r.manifest = m /\ r.op = "approve"
      OBVIOUS
    <2>3. m = {<<e, row'[e].version>> : e \in report'.cites}
      BY <2>1
    <2> HIDE DEF m, r
    <2>4. ReportFits'
      BY <2>1, <2>2, <2>3 DEF ReportFits, HasVersion
    <2>5. ReportsArePreserved'
      BY <2>1 DEF ReportsArePreserved
    <2> QED
      BY <2>4, <2>5
  <1>4. ASSUME NEW r \in requests, CommitApprove(r) PROVE ReportFits' /\ ReportsArePreserved'
    <2>1. /\ r.op = "approve" /\ requests' = requests \ {r} /\ row' = row
          /\ report' = [report EXCEPT !.status = "FINAL", !.manifest = r.manifest, !.version = r.at,
                                      !.approvals = @ + 1]
      BY <1>4 DEF CommitApprove
    <2>2. /\ report.status = "DRAFT" /\ r.manifest = {<<e, row[e].version>> : e \in report.cites}
          /\ (\A e \in report.cites : HasVersion(e)) /\ \A s \in requests' : s.op # "approve"
      BY <2>1 DEF ReportFits
    <2>3. report' = [status |-> "FINAL", cites |-> report.cites, manifest |-> r.manifest,
                     version |-> r.at, approvals |-> report.approvals + 1]
      BY <2>1 DEF ReportFits
    <2>4. report.approvals = 0 /\ report.cites \subseteq Items
      BY <2>2 DEF ReportFits
    <2>5. ReportFits'
      BY <2>2, <2>3, <2>4 DEF ReportFits
    <2>6. report'.approvals = 1 /\ report'.cites = report.cites /\ report'.manifest = r.manifest
      BY <2>3, <2>4
    <2>7. {m[1] : m \in r.manifest} = report.cites
      <3>1. \A m \in r.manifest : m[1] \in report.cites
        BY <2>2
      <3>2. ASSUME NEW e \in report.cites PROVE \E m \in r.manifest : m[1] = e
        <4>1. <<e, row[e].version>> \in r.manifest /\ <<e, row[e].version>>[1] = e
          BY <2>2
        <4> QED
          BY <4>1
      <3> QED
        BY <3>1, <3>2
    <2>8. ASSUME NEW m \in r.manifest PROVE m[2] = row'[m[1]].version /\ m[2] \in 1..kept'[m[1]]
      <3>1. PICK e \in report.cites : m = <<e, row[e].version>>
        BY <2>2
      <3>2. e \in Items /\ m[1] = e /\ m[2] = row[e].version /\ row[e].version \in Nat
        BY <2>4, <3>1 DEF CustodyTyped, ItemRows
      <3>3. row[e].version # 0 /\ row[e].version <= kept[e]
        BY <2>2, <3>2 DEF HasVersion, VersionsStand, RowsFit
      <3>4. kept[e] \in Nat /\ kept'[e] \in Nat /\ kept[e] <= kept'[e]
        BY <3>2, KeptGrows
      <3>5. m[2] \in 1..kept'[e]
        BY <3>2, <3>3, <3>4
      <3> QED
        BY <2>1, <3>2, <3>5
    <2> QED
      BY <2>5, <2>6, <2>7, <2>8 DEF ReportsArePreserved
  <1> QED
    BY <1>1, <1>2, <1>3, <1>4, Effects

LEMMA CaseNext ==
  ASSUME CustodyTyped, CaseFits, DeletedStaysDeleted, [CustodyNext]_custodyVars
  PROVE  CaseFits' /\ DeletedStaysDeleted'
  <1>1. CASE KeepsCase
    BY <1>1 DEF KeepsCase, CaseFits, DeletedStaysDeleted
  <1>2. ASSUME NEW status \in CaseStatuses, BeginStatus(status) PROVE CaseFits' /\ DeletedStaysDeleted'
    <2> DEFINE r == [op |-> "status", saw |-> inquiry, to |-> status]
    <2>1. /\ inquiry # "deleted" /\ requests' = requests \union {r} /\ inquiry' = inquiry /\ deletions' = deletions
          /\ settled' = (settled /\ ~ \E s \in requests : s.op = "status")
      BY <1>2 DEF BeginStatus, BeginRequest
    <2>2. r.saw = inquiry
      OBVIOUS
    <2> HIDE DEF r
    <2>3. CaseFits'
      BY <2>1, <2>2 DEF CaseFits
    <2> QED
      BY <2>1, <2>3 DEF DeletedStaysDeleted
  <1>3. ASSUME NEW r \in requests, CommitStatus(r) PROVE CaseFits' /\ DeletedStaysDeleted'
    <2>1. /\ r.op = "status" /\ requests' = requests \ {r} /\ settled' = settled
          /\ inquiry' = (IF r.to = r.saw THEN inquiry ELSE r.to)
          /\ deletions' = (IF r.to = "deleted" THEN deletions + 1 ELSE deletions)
      BY <1>3 DEF CommitStatus
    <2>2. CASE ~settled
      BY <2>1, <2>2 DEF CaseFits, DeletedStaysDeleted
    <2>3. CASE settled
      <3>1. r.saw = inquiry /\ inquiry # "deleted" /\ \A s \in requests' : s.op # "status"
        BY <2>1, <2>3 DEF CaseFits
      <3>2. deletions = 0
        BY <2>3, <3>1 DEF CaseFits, DeletedStaysDeleted
      <3> QED
        BY <2>1, <3>1, <3>2 DEF CaseFits, DeletedStaysDeleted
    <2> QED
      BY <2>2, <2>3
  <1> QED
    BY <1>1, <1>2, <1>3, Effects

(***************************************************************************)
(* All together.                                                           *)
(***************************************************************************)
\* The inductive invariant.  What CustodySafety says of the rows holds only as
\* long as the requests under way fit them: each carries the row it read, which
\* no overlapping request may have moved on in what it will write.
CustodyIndInv ==
    /\ CustodyTyped /\ VersionsStand /\ EventsFit /\ RecordedOnce /\ HoldsFit /\ HoldIsApplied
    /\ (\A e \in alone : AloneOf(e)) /\ UnversionedStaged /\ ReportFits /\ ReportsArePreserved
    /\ CaseFits /\ DeletedStaysDeleted

LEMMA CustodyInitInv == CustodyInit => CustodyIndInv
  <1> SUFFICES ASSUME CustodyInit PROVE CustodyIndInv
    OBVIOUS
  <1> USE DEF CustodyInit
  <1>0. /\ \A e \in Items : row[e].status = "none" /\ row[e].version = 0 /\ ~row[e].hold /\ events[e] = {}
        /\ requests = {} /\ Works = {} /\ holds = {}
    BY DEF Works
  <1>1. CustodyTyped
    BY DEF CustodyTyped, ItemRows
  <1>2. VersionsStand
    BY <1>0 DEF VersionsStand, RowsFit, HasVersion
  <1>3. EventsFit /\ RecordedOnce
    BY <1>0 DEF EventsFit, RecordedOnce, HasVersion
  <1>4. HoldsFit /\ HoldIsApplied
    BY <1>0 DEF HoldsFit, HoldIsApplied
  <1>5. \A e \in alone : AloneOf(e)
    BY <1>0 DEF AloneOf, ToldOf, ChainedOf, FitsOf, StatusEvents, On
  <1>6. UnversionedStaged
    BY <1>0 DEF UnversionedStaged
  <1>7. ReportFits /\ ReportsArePreserved /\ CaseFits /\ DeletedStaysDeleted
    BY <1>0 DEF ReportFits, ReportsArePreserved, CaseFits, DeletedStaysDeleted
  <1> QED
    BY <1>1, <1>2, <1>3, <1>4, <1>5, <1>6, <1>7 DEF CustodyIndInv

LEMMA CustodyNextInv == CustodyIndInv /\ [CustodyNext]_custodyVars => CustodyIndInv'
  BY TypedNext, VersionsNext, EventsNext, HoldsNext, AloneNext, StagedNext, CaseReportNext, CaseNext DEF CustodyIndInv

LEMMA CustodyIsSafe == CustodyIndInv => CustodySafety
  <1> SUFFICES ASSUME CustodyIndInv PROVE CustodySafety
    OBVIOUS
  <1> USE DEF CustodyIndInv
  <1>1. OriginalIsRecoverable
    BY StagedIsRecoverable
  <1>2. ASSUME NEW e \in Items, row[e].status # "none"
        PROVE  /\ \E x \in StatusEvents(e) : x.told = row[e].status
               /\ e \in alone =>
                     /\ \A x \in LastBefore(e, begun + 1) : x.told = row[e].status
                     /\ \A x \in StatusEvents(e) : x.kind = "human_attestation" =>
                           \A y \in LastBefore(e, x.at) : y.told # "integrity_failed"
    <2>1. PICK x \in events[e] : x.told = row[e].status
      BY <1>2 DEF EventsFit
    <2>2. row[e].status # "nothing"
      BY DEF CustodyTyped, ItemRows, Statuses
    <2>3. x \in StatusEvents(e)
      BY <2>1, <2>2 DEF StatusEvents
    <2>4. LastBefore(e, begun + 1) = LastEvents(e)
      BY LastIs
    <2> QED
      BY <1>2, <2>1, <2>3, <2>4 DEF AloneOf, ToldOf
  <1>3. StatusIsTold
    BY <1>2 DEF StatusIsTold
  <1>4. EventsAreChained
    BY DEF EventsAreChained, EventsFit, AloneOf, ChainedOf
  <1> QED
    BY <1>1, <1>3, <1>4 DEF CustodySafety

LEMMA CustodyInvariant == CustodySpec => []CustodyIndInv
  BY CustodyInitInv, CustodyNextInv, PTL DEF CustodySpec

(* evidence_vault.py and evidence.py: however uploads, finalisations, checks,  *)
(* attestations, holds, approvals and status changes overlap, fail and are     *)
(* retried, an original can be recovered, its version is recorded once, its    *)
(* events tell its status, and a final report cites what is preserved.         *)
THEOREM CustodyHolds == CustodySpec => []CustodySafety
  BY CustodyInvariant, CustodyIsSafe, PTL

(* evidence_vault.py: the version a row records is never replaced.             *)
THEOREM VersionStands ==
  CustodySpec => [][\A e \in Items : HasVersion(e) => row'[e].version = row[e].version]_custodyVars
  <1>1. /\ CustodyIndInv /\ [CustodyNext]_custodyVars
        => [\A e \in Items : HasVersion(e) => row'[e].version = row[e].version]_custodyVars
    BY VersionForGood DEF CustodyIndInv
  <1> QED
    BY <1>1, CustodyInvariant, PTL DEF CustodySpec

-----------------------------------------------------------------------------
(***************************************************************************)
(* The desk of evidence: what a chain of requests has behind it when it is *)
(* at one of them, whatever the other chains have done meanwhile.          *)
(***************************************************************************)
ToolNames == Tools \cup {NoTool}
Originals == [state : {"none", "staged", "preserved", "attested"},
              name : ToolNames, content : ToolNames]
ChainStates == [at : {"idle", "upload", "finalize", "link", "refresh", "attest", "review"},
                what : {"none", "finding", "text", "tool", "attestation", "review"},
                id : 0..MaxEvidence, name : ToolNames, content : ToolNames, warning : BOOLEAN]
Sayings == {"nothing", "error", "reviewed", "validated", "pending", "done"}

EvidenceTyped ==
    /\ evidence \in [1..MaxEvidence -> Originals]
    /\ finding \in [evidence : 0..MaxEvidence, validated : BOOLEAN]
    /\ chain \in [Chains -> ChainStates]
    /\ toast \in [said : Sayings, id : 0..MaxEvidence]
    /\ toolState \in [selected : ToolNames, asked : ToolNames, last : ToolNames]

\* The numbers are given in order: the next one is that of no original.
GivenInOrder ==
    \E n \in 0..MaxEvidence : \A f \in 1..MaxEvidence : ((evidence[f].state # "none") <=> (f <= n))

Taken(e) == e \in 1..MaxEvidence /\ evidence[e].state # "none"

\* What has been done when a chain is at a request.
ChainFits(c) ==
    /\ chain[c].name = chain[c].content
    /\ (chain[c].what = "finding") => (chain[c].name = NoTool)
    /\ (chain[c].at \in {"finalize", "link", "refresh", "attest"}) => Taken(chain[c].id)
    /\ (chain[c].at \in {"finalize", "link", "refresh"} /\ chain[c].what = "finding") =>
          (evidence[chain[c].id].name = NoTool)
    /\ (chain[c].at = "link") => (chain[c].what = "finding")
    /\ (chain[c].at = "attest") => (chain[c].what = "attestation")
    /\ (chain[c].at \in {"finalize", "upload"}) => (chain[c].what # "attestation")
    /\ (chain[c].at = "finalize") => (evidence[chain[c].id].state = "staged")
    /\ (chain[c].at = "refresh" /\ chain[c].what = "attestation") =>
          (evidence[chain[c].id].state = "attested")
    /\ (chain[c].at \in {"link", "refresh"} /\ chain[c].what # "attestation"
            /\ ~chain[c].warning) => Preserved(chain[c].id)

\* No two chains are about to preserve the same original.
OneFinalizes ==
    \A c, d \in Chains :
        (chain[c].at = "finalize" /\ chain[d].at = "finalize" /\ chain[c].id = chain[d].id) => (c = d)

ToastFits == (toast.said \in {"done", "validated"}) => Taken(toast.id)

EvidenceInv ==
    /\ EvidenceTyped /\ GivenInOrder /\ (\A c \in Chains : ChainFits(c)) /\ OneFinalizes
    /\ ToastFits /\ ToldIsDone /\ EvidenceIsOfItsSource

LEMMA EvidenceInitInv == EvidenceInit => EvidenceInv
  <1> SUFFICES ASSUME EvidenceInit PROVE EvidenceInv
    OBVIOUS
  <1>0. 0 \in 0..MaxEvidence
    BY EvidenceAssumption
  <1>1. Idle \in ChainStates
    BY <1>0 DEF Idle, ChainStates, ToolNames
  <1>2. EvidenceTyped
    BY <1>0, <1>1 DEF EvidenceInit, EvidenceTyped, Originals, ToolNames, Sayings
  <1>3. \A f \in 1..MaxEvidence : ((evidence[f].state # "none") <=> (f <= 0))
    BY EvidenceAssumption DEF EvidenceInit
  <1>4. GivenInOrder
    BY <1>0, <1>3 DEF GivenInOrder
  <1>5. \A c \in Chains : chain[c].at = "idle" /\ ChainFits(c)
    BY DEF EvidenceInit, ChainFits, Idle
  <1>6. OneFinalizes
    BY <1>5 DEF OneFinalizes
  <1>7. ToastFits /\ ToldIsDone /\ EvidenceIsOfItsSource
    BY DEF EvidenceInit, ToastFits, ToldIsDone, EvidenceIsOfItsSource
  <1> QED
    BY <1>2, <1>4, <1>5, <1>6, <1>7 DEF EvidenceInv

(* What a step of chain c may do to the originals: none goes back, and those *)
(* the other chains are about to preserve wait.                              *)
Grown(c) ==
    /\ evidence' \in [1..MaxEvidence -> Originals]
    /\ \A e \in 1..MaxEvidence : Taken(e) =>
          (evidence'[e].state # "none" /\ evidence'[e].name = evidence[e].name)
    /\ \A e \in 1..MaxEvidence :
          Preserved(e) => (evidence'[e].state \in {"preserved", "attested"})
    /\ \A e \in 1..MaxEvidence :
          (evidence[e].state = "attested") => (evidence'[e].state = "attested")
    /\ \A d \in Chains : (d # c /\ chain[d].at = "finalize") => (evidence'[chain[d].id].state = "staged")

Else(c) == \A d \in Chains : d # c => chain'[d] = chain[d]

LEMMA OthersFit ==
  ASSUME EvidenceInv, NEW c \in Chains, Grown(c), Else(c), NEW d \in Chains, d # c
  PROVE  ChainFits(d)'
  <1> DEFINE e == chain[d].id
  <1>1. ChainFits(d) /\ chain'[d] = chain[d]
    BY DEF EvidenceInv, Else
  <1>2. (chain[d].at \in {"finalize", "link", "refresh", "attest"}) => Taken(e)
    BY <1>1 DEF ChainFits
  <1>3. Taken(e) => (Taken(e)' /\ evidence'[e].name = evidence[e].name)
    BY <1>1 DEF Grown, Taken
  <1>4. (Taken(e) /\ Preserved(e)) => Preserved(e)'
    BY <1>1 DEF Grown, Taken, Preserved
  <1>5. (Taken(e) /\ evidence[e].state = "attested") => (evidence'[e].state = "attested")
    BY DEF Grown, Taken
  <1>6. (chain[d].at = "finalize") => (evidence'[e].state = "staged")
    BY DEF Grown
  <1> QED
    BY <1>1, <1>2, <1>3, <1>4, <1>5, <1>6 DEF ChainFits

LEMMA EvidenceStaysGrown ==
  ASSUME EvidenceInv, NEW c, UNCHANGED evidence
  PROVE  Grown(c)
  <1>1. \A d \in Chains : ChainFits(d)
    BY DEF EvidenceInv
  <1> QED
    BY <1>1 DEF Grown, EvidenceInv, EvidenceTyped, ChainFits, Preserved, Taken

(* What is left to show of a step of chain c.                                *)
LEMMA ChainStep ==
  ASSUME EvidenceInv, NEW c \in Chains, Grown(c), Else(c),
         chain' \in [Chains -> ChainStates], ChainFits(c)',
         (chain'[c].at = "finalize") => \A d \in Chains : (d # c /\ chain[d].at = "finalize") => (chain[d].id # chain'[c].id)
  PROVE  (\A d \in Chains : ChainFits(d)') /\ OneFinalizes'
  <1>1. ASSUME NEW d \in Chains PROVE ChainFits(d)'
    BY OthersFit
  <1>2. OneFinalizes'
    BY DEF OneFinalizes, EvidenceInv, Else
  <1> QED
    BY <1>1, <1>2

(* What is told stays so.                                                    *)
LEMMA SaidStays ==
  ASSUME EvidenceInv, NEW c \in Chains, Grown(c), toast'.said = "error" \/ UNCHANGED toast,
         finding.validated => finding'.validated
  PROVE  ToastFits' /\ ToldIsDone'
  <1>1. CASE toast'.said = "error"
    BY <1>1 DEF ToastFits, ToldIsDone
  <1>2. CASE UNCHANGED toast
    <2>1. ToastFits /\ ToldIsDone
      BY DEF EvidenceInv
    <2>2. ToastFits'
      BY <1>2, <2>1 DEF ToastFits, Grown, Taken
    <2>3. (toast.said = "done") => Preserved(toast.id)'
      BY <1>2, <2>1 DEF ToastFits, ToldIsDone, Grown, Taken, Preserved
    <2>4. (toast.said = "validated") => (evidence'[toast.id].state = "attested")
      BY <2>1 DEF ToastFits, ToldIsDone, Grown, Taken
    <2> QED
      BY <1>2, <2>1, <2>2, <2>3, <2>4 DEF ToldIsDone
  <1> QED
    BY <1>1, <1>2

LEMMA SourceStays ==
  ASSUME EvidenceInv, NEW c \in Chains, Grown(c),
         \A e \in 1..MaxEvidence : evidence'[e].name = evidence'[e].content,
         \/ finding'.evidence = finding.evidence
         \/ finding'.evidence \in 1..MaxEvidence /\ Taken(finding'.evidence) /\ evidence[finding'.evidence].name = NoTool
  PROVE  EvidenceIsOfItsSource'
  <1> DEFINE e == finding'.evidence
  <1>1. (e # 0) => (e \in 1..MaxEvidence /\ Taken(e) /\ evidence[e].name = NoTool)
    <2>1. finding.evidence \in 0..MaxEvidence
      BY DEF EvidenceInv, EvidenceTyped
    <2>2. (finding.evidence # 0) => (finding.evidence \in 1..MaxEvidence)
      BY <2>1, EvidenceAssumption
    <2> QED
      BY <2>2 DEF EvidenceInv, EvidenceIsOfItsSource, Taken
  <1>2. (e # 0) => (evidence'[e].state # "none" /\ evidence'[e].name = NoTool)
    BY <1>1 DEF Grown
  <1> QED
    BY <1>2 DEF EvidenceIsOfItsSource

(* A step that leaves the originals and the tools alone, and is not about to *)
(* preserve one.                                                             *)
LEMMA QuietChain ==
  ASSUME EvidenceInv, NEW c \in Chains, NEW rec \in ChainStates, chain' = [chain EXCEPT ![c] = rec],
         UNCHANGED <<evidence, toolState>>, rec.at # "finalize", ChainFits(c)',
         finding' \in [evidence : 0..MaxEvidence, validated : BOOLEAN],
         finding.validated => finding'.validated,
         \/ finding'.evidence = finding.evidence
         \/ finding'.evidence \in 1..MaxEvidence /\ Taken(finding'.evidence) /\ evidence[finding'.evidence].name = NoTool,
         toast' \in [said : Sayings, id : 0..MaxEvidence],
         \/ toast'.said = "error"
         \/ UNCHANGED toast
         \/ ToastFits' /\ ToldIsDone'
  PROVE  EvidenceInv'
  <1>1. Grown(c)
    BY EvidenceStaysGrown
  <1>2. chain' \in [Chains -> ChainStates] /\ Else(c) /\ chain'[c] = rec
    BY DEF EvidenceInv, EvidenceTyped, Else
  <1>3. (\A d \in Chains : ChainFits(d)') /\ OneFinalizes'
    BY <1>1, <1>2, ChainStep
  <1>4. EvidenceTyped'
    BY <1>2 DEF EvidenceInv, EvidenceTyped
  <1>5. GivenInOrder'
    BY DEF EvidenceInv, GivenInOrder
  <1>6. ToastFits' /\ ToldIsDone'
    BY <1>1, SaidStays
  <1>7. EvidenceIsOfItsSource'
    <2>1. \A e \in 1..MaxEvidence : evidence'[e].name = evidence'[e].content
      BY DEF EvidenceInv, EvidenceIsOfItsSource
    <2> QED
      BY <1>1, <2>1, SourceStays
  <1> QED
    BY <1>3, <1>4, <1>5, <1>6, <1>7 DEF EvidenceInv

LEMMA StartStep ==
  ASSUME EvidenceInv, NEW c \in Chains, NEW rec \in ChainStates, Starts(c, rec), Apart,
         rec.name = rec.content, rec.what = "finding" => rec.name = NoTool,
         \/ rec.at \in {"upload", "review"} /\ rec.what # "attestation"
         \/ rec.at = "attest" /\ rec.what = "attestation" /\ Taken(rec.id)
  PROVE  EvidenceInv'
  <1>1. chain' = [chain EXCEPT ![c] = rec] /\ UNCHANGED <<evidence, toolState, finding, toast>>
    BY DEF Starts, Apart
  <1>2. chain'[c] = rec
    BY <1>1 DEF EvidenceInv, EvidenceTyped
  <1>3. ChainFits(c)'
    BY <1>1, <1>2 DEF ChainFits, Taken
  <1>4. /\ finding' \in [evidence : 0..MaxEvidence, validated : BOOLEAN]
        /\ toast' \in [said : Sayings, id : 0..MaxEvidence]
    BY <1>1 DEF EvidenceInv, EvidenceTyped
  <1> QED
    BY <1>1, <1>3, <1>4, QuietChain

LEMMA IdleRecord ==
  /\ Idle \in ChainStates
  /\ Idle.at = "idle" /\ Idle.what = "none" /\ Idle.id = 0 /\ Idle.name = NoTool /\ Idle.content = NoTool
  /\ Idle.warning = FALSE
  <1>1. 0 \in 0..MaxEvidence
    BY EvidenceAssumption
  <1> QED
    BY <1>1 DEF Idle, ChainStates, ToolNames

LEMMA StartSteps ==
  ASSUME EvidenceInv, NEW c \in Chains,
         \/ Promote(c) \/ SaveManual(c) \/ Preserve(c) \/ ValidateFinding(c)
         \/ \E e \in 1..MaxEvidence : ValidateEvidence(c, e)
  PROVE  EvidenceInv'
  <1>1. CASE Promote(c)
    <2> DEFINE rec == [Idle EXCEPT !.at = "upload", !.what = "finding"]
    <2>1. rec \in ChainStates /\ rec.at = "upload" /\ rec.what = "finding" /\ rec.name = NoTool /\ rec.content = NoTool
      BY IdleRecord DEF ChainStates
    <2>2. Starts(c, rec) /\ Apart
      BY <1>1 DEF Promote
    <2> HIDE DEF rec
    <2> QED
      BY <2>1, <2>2, StartStep
  <1>2. CASE SaveManual(c)
    <2> DEFINE rec == [Idle EXCEPT !.at = "upload", !.what = "text"]
    <2>1. rec \in ChainStates /\ rec.at = "upload" /\ rec.what = "text" /\ rec.name = rec.content
      BY IdleRecord DEF ChainStates
    <2>2. Starts(c, rec) /\ Apart
      BY <1>2 DEF SaveManual
    <2> HIDE DEF rec
    <2> QED
      BY <2>1, <2>2, StartStep
  <1>3. CASE Preserve(c)
    <2> DEFINE rec == [Idle EXCEPT !.at = "upload", !.what = "tool", !.name = toolState.last, !.content = toolState.last]
    <2>0. toolState.last \in ToolNames
      BY DEF EvidenceInv, EvidenceTyped
    <2>1. rec \in ChainStates /\ rec.at = "upload" /\ rec.what = "tool" /\ rec.name = rec.content
      BY <2>0, IdleRecord DEF ChainStates
    <2>2. Starts(c, rec) /\ Apart
      BY <1>3 DEF Preserve
    <2> HIDE DEF rec
    <2> QED
      BY <2>1, <2>2, StartStep
  <1>4. CASE ValidateFinding(c)
    <2> DEFINE rec == [Idle EXCEPT !.at = "review", !.what = "review"]
    <2>1. rec \in ChainStates /\ rec.at = "review" /\ rec.what = "review" /\ rec.name = rec.content
      BY IdleRecord DEF ChainStates
    <2>2. Starts(c, rec) /\ Apart
      BY <1>4 DEF ValidateFinding
    <2> HIDE DEF rec
    <2> QED
      BY <2>1, <2>2, StartStep
  <1>5. ASSUME NEW e \in 1..MaxEvidence, ValidateEvidence(c, e) PROVE EvidenceInv'
    <2> DEFINE rec == [Idle EXCEPT !.at = "attest", !.what = "attestation", !.id = e]
    <2>0. e \in 0..MaxEvidence
      BY EvidenceAssumption
    <2>1. rec \in ChainStates /\ rec.at = "attest" /\ rec.what = "attestation" /\ rec.name = rec.content /\ rec.id = e
      BY <2>0, IdleRecord DEF ChainStates
    <2>2. Starts(c, rec) /\ Apart /\ Taken(e)
      BY <1>5 DEF ValidateEvidence, Taken
    <2> HIDE DEF rec
    <2> QED
      BY <2>1, <2>2, StartStep
  <1> QED
    BY <1>1, <1>2, <1>3, <1>4, <1>5

LEMMA ToolSteps ==
  ASSUME EvidenceInv, UNCHANGED <<evidence, finding, chain, toast>>,
         toolState' \in [selected : ToolNames, asked : ToolNames, last : ToolNames]
  PROVE  EvidenceInv'
  <1>1. EvidenceTyped'
    BY DEF EvidenceInv, EvidenceTyped
  <1>2. GivenInOrder' /\ OneFinalizes'
    BY DEF EvidenceInv, GivenInOrder, OneFinalizes
  <1>3. \A d \in Chains : ChainFits(d)'
    BY DEF EvidenceInv, ChainFits, Taken, Preserved
  <1>4. ToastFits' /\ ToldIsDone' /\ EvidenceIsOfItsSource'
    BY DEF EvidenceInv, ToastFits, Taken, ToldIsDone, Preserved, EvidenceIsOfItsSource
  <1> QED
    BY <1>1, <1>2, <1>3, <1>4 DEF EvidenceInv

LEMMA ToolIsTyped ==
  ASSUME EvidenceInv, RunTool \/ ToolAnswers \/ ToolFails \/ \E t \in Tools : SelectTool(t)
  PROVE  EvidenceInv'
  <1>1. toolState \in [selected : ToolNames, asked : ToolNames, last : ToolNames] /\ NoTool \in ToolNames /\ Tools \subseteq ToolNames
    BY DEF EvidenceInv, EvidenceTyped, ToolNames
  <1>2. toolState' \in [selected : ToolNames, asked : ToolNames, last : ToolNames]
    BY <1>1 DEF RunTool, ToolAnswers, ToolFails, SelectTool
  <1>3. UNCHANGED <<evidence, finding, chain, toast>>
    BY DEF RunTool, ToolAnswers, ToolFails, SelectTool
  <1> QED
    BY <1>2, <1>3, ToolSteps

LEMMA ErrsStep ==
  ASSUME EvidenceInv, NEW c \in Chains, Errs(c), UNCHANGED <<evidence, toolState>>,
         finding' \in [evidence : 0..MaxEvidence, validated : BOOLEAN],
         finding.validated => finding'.validated,
         \/ finding'.evidence = finding.evidence
         \/ finding'.evidence \in 1..MaxEvidence /\ Taken(finding'.evidence) /\ evidence[finding'.evidence].name = NoTool
  PROVE  EvidenceInv'
  <1>1. chain' = [chain EXCEPT ![c] = Idle] /\ toast' = [said |-> "error", id |-> 0]
    BY DEF Errs, Ends
  <1>2. toast' \in [said : Sayings, id : 0..MaxEvidence] /\ toast'.said = "error"
    BY <1>1, EvidenceAssumption DEF Sayings
  <1>3. chain'[c] = Idle
    BY <1>1 DEF EvidenceInv, EvidenceTyped
  <1>4. ChainFits(c)'
    BY <1>3, IdleRecord DEF ChainFits
  <1> QED
    BY <1>1, <1>2, <1>4, IdleRecord, QuietChain

LEMMA RequestFailsStep ==
  ASSUME EvidenceInv, NEW c \in Chains, RequestFails(c)
  PROVE  EvidenceInv'
  BY ErrsStep DEF RequestFails, EvidenceInv, EvidenceTyped

\* The chain goes on to read the records again.
LEMMA GoesOnToRefresh ==
  ASSUME EvidenceInv, NEW c \in Chains, Goes(c, "refresh"), UNCHANGED <<evidence, toolState, toast>>,
         chain[c].at = "link",
         finding' \in [evidence : 0..MaxEvidence, validated : BOOLEAN],
         finding.validated => finding'.validated,
         finding'.evidence \in 1..MaxEvidence /\ Taken(finding'.evidence) /\ evidence[finding'.evidence].name = NoTool
  PROVE  EvidenceInv'
  <1> DEFINE rec == [chain[c] EXCEPT !.at = "refresh"]
  <1>0. chain[c] \in ChainStates /\ ChainFits(c)
    BY DEF EvidenceInv, EvidenceTyped
  <1>1. /\ rec \in ChainStates /\ rec.at = "refresh"
        /\ rec.what = chain[c].what /\ rec.id = chain[c].id /\ rec.name = chain[c].name
        /\ rec.content = chain[c].content /\ rec.warning = chain[c].warning
    BY <1>0 DEF ChainStates
  <1>2. chain' = [chain EXCEPT ![c] = rec]
    BY DEF Goes
  <1> HIDE DEF rec
  <1>3. chain'[c] = rec
    BY <1>2 DEF EvidenceInv, EvidenceTyped
  <1>4. ChainFits(c)'
    BY <1>0, <1>1, <1>3 DEF ChainFits, Taken, Preserved
  <1>5. toast' \in [said : Sayings, id : 0..MaxEvidence]
    BY DEF EvidenceInv, EvidenceTyped
  <1> QED
    BY <1>1, <1>2, <1>4, <1>5, QuietChain

LEMMA LinkStep ==
  ASSUME EvidenceInv, NEW c \in Chains, Link(c)
  PROVE  EvidenceInv'
  <1> DEFINE e == chain[c].id
  <1>0. ChainFits(c) /\ chain[c] \in ChainStates /\ chain[c].at = "link"
    BY DEF EvidenceInv, EvidenceTyped, Link
  <1>1. Taken(e) /\ e \in 1..MaxEvidence /\ e \in 0..MaxEvidence
    BY <1>0 DEF ChainFits, Taken, ChainStates
  <1>2. chain[c].what = "finding" /\ chain[c].name = NoTool
    BY <1>0 DEF ChainFits
  <1>3. evidence[e].name = NoTool
    BY <1>0, <1>2 DEF ChainFits
  <1>4. finding \in [evidence : 0..MaxEvidence, validated : BOOLEAN] /\ finding' = [finding EXCEPT !.evidence = e]
    BY DEF EvidenceInv, EvidenceTyped, Link
  <1>5. /\ finding' \in [evidence : 0..MaxEvidence, validated : BOOLEAN]
        /\ finding'.evidence = e /\ finding'.validated = finding.validated
    BY <1>1, <1>4
  <1>6. UNCHANGED <<evidence, toolState>> /\ ((Goes(c, "refresh") /\ UNCHANGED toast) \/ Errs(c))
    BY DEF Link
  <1>7. CASE Goes(c, "refresh") /\ UNCHANGED toast
    BY <1>0, <1>1, <1>3, <1>5, <1>6, <1>7, GoesOnToRefresh
  <1>8. CASE Errs(c)
    BY <1>1, <1>3, <1>5, <1>6, <1>8, ErrsStep
  <1> QED
    BY <1>6, <1>7, <1>8

LEMMA ReviewStep ==
  ASSUME EvidenceInv, NEW c \in Chains, Review(c)
  PROVE  EvidenceInv'
  <1>1. finding \in [evidence : 0..MaxEvidence, validated : BOOLEAN] /\ finding' = [finding EXCEPT !.validated = TRUE]
    BY DEF EvidenceInv, EvidenceTyped, Review
  <1>2. /\ finding' \in [evidence : 0..MaxEvidence, validated : BOOLEAN]
        /\ finding'.evidence = finding.evidence /\ finding'.validated
    BY <1>1
  <1>3. UNCHANGED <<evidence, toolState>> /\ (Ends(c, "reviewed", 0) \/ Errs(c))
    BY DEF Review
  <1>4. CASE Errs(c)
    BY <1>2, <1>3, <1>4, ErrsStep
  <1>5. CASE Ends(c, "reviewed", 0)
    <2>1. chain' = [chain EXCEPT ![c] = Idle] /\ toast' = [said |-> "reviewed", id |-> 0]
      BY <1>5 DEF Ends
    <2>2. toast' \in [said : Sayings, id : 0..MaxEvidence] /\ toast'.said = "reviewed"
      BY <2>1, EvidenceAssumption DEF Sayings
    <2>3. ToastFits' /\ ToldIsDone'
      BY <1>2, <2>2 DEF ToastFits, ToldIsDone
    <2>4. chain'[c] = Idle
      BY <2>1 DEF EvidenceInv, EvidenceTyped
    <2>5. ChainFits(c)'
      BY <2>4, IdleRecord DEF ChainFits
    <2> QED
      BY <1>2, <1>3, <2>1, <2>2, <2>3, <2>5, IdleRecord, QuietChain
  <1> QED
    BY <1>3, <1>4, <1>5

LEMMA RefreshStep ==
  ASSUME EvidenceInv, NEW c \in Chains, RefreshRecords(c)
  PROVE  EvidenceInv'
  <1> DEFINE e == chain[c].id
  <1>0. ChainFits(c) /\ chain[c] \in ChainStates /\ chain[c].at = "refresh"
    BY DEF EvidenceInv, EvidenceTyped, RefreshRecords
  <1>1. Taken(e) /\ e \in 0..MaxEvidence
    BY <1>0 DEF ChainFits, ChainStates
  <1>2. /\ chain' = [chain EXCEPT ![c] = Idle] /\ toast' = [said |-> SaidAtEnd(c), id |-> e]
        /\ UNCHANGED <<evidence, finding, toolState>>
    BY DEF RefreshRecords, Ends
  <1>3. SaidAtEnd(c) \in {"validated", "pending", "done"}
    BY DEF SaidAtEnd
  <1>4. (SaidAtEnd(c) = "validated") => (evidence[e].state = "attested")
    BY <1>0 DEF SaidAtEnd, ChainFits
  <1>5. (SaidAtEnd(c) = "done") => Preserved(e)
    BY <1>0 DEF SaidAtEnd, ChainFits
  <1>6. /\ toast' \in [said : Sayings, id : 0..MaxEvidence]
        /\ toast'.said = SaidAtEnd(c) /\ toast'.id = e
    BY <1>1, <1>2, <1>3 DEF Sayings
  <1>7. ToastFits' /\ ToldIsDone'
    BY <1>1, <1>2, <1>3, <1>4, <1>5, <1>6 DEF ToastFits, ToldIsDone, Preserved, Taken
  <1>8. chain'[c] = Idle
    BY <1>2 DEF EvidenceInv, EvidenceTyped
  <1>9. ChainFits(c)'
    BY <1>8, IdleRecord DEF ChainFits
  <1>10. finding' \in [evidence : 0..MaxEvidence, validated : BOOLEAN]
    BY <1>2 DEF EvidenceInv, EvidenceTyped
  <1> QED
    BY <1>2, <1>6, <1>7, <1>9, <1>10, IdleRecord, QuietChain

(* The number an upload is given is that of no original, and the next one.   *)
LEMMA NumberIsFree ==
  ASSUME EvidenceInv, NEW e \in 1..MaxEvidence,
         e = Cardinality({f \in 1..MaxEvidence : evidence[f].state # "none"}) + 1
  PROVE  \A f \in 1..MaxEvidence : ((evidence[f].state # "none") <=> (f < e))
  <1>1. PICK n \in 0..MaxEvidence : \A f \in 1..MaxEvidence : ((evidence[f].state # "none") <=> (f <= n))
    BY DEF EvidenceInv, GivenInOrder
  <1>2. {f \in 1..MaxEvidence : evidence[f].state # "none"} = 1..n
    BY <1>1, EvidenceAssumption
  <1>3. Cardinality(1..n) = n
    BY <1>1, EvidenceAssumption, FS_Interval
  <1>4. e = n + 1
    BY <1>2, <1>3
  <1> QED
    BY <1>1, <1>4, EvidenceAssumption

(* A step that changes one original.                                         *)
LEMMA OneOriginal ==
  ASSUME EvidenceInv, NEW c \in Chains, NEW e \in 1..MaxEvidence, NEW new \in Originals,
         evidence' = [evidence EXCEPT ![e] = new],
         Taken(e) => (/\ new.state # "none" /\ new.name = evidence[e].name
                      /\ (Preserved(e) => (new.state \in {"preserved", "attested"}))
                      /\ ((evidence[e].state = "attested") => (new.state = "attested"))),
         (evidence[e].state = "staged") => \A d \in Chains : (d # c /\ chain[d].at = "finalize") => (chain[d].id # e)
  PROVE  Grown(c) /\ evidence'[e] = new
  <1>1. evidence \in [1..MaxEvidence -> Originals]
    BY DEF EvidenceInv, EvidenceTyped
  <1>2. evidence' \in [1..MaxEvidence -> Originals] /\ evidence'[e] = new
    BY <1>1
  <1>3. \A f \in 1..MaxEvidence : f # e => evidence'[f] = evidence[f]
    BY <1>1
  <1>4. \A f \in 1..MaxEvidence : Taken(f) => (evidence'[f].state # "none" /\ evidence'[f].name = evidence[f].name)
    BY <1>2, <1>3 DEF Taken
  <1>5. Preserved(e) => Taken(e)
    BY DEF Preserved, Taken
  <1>6. \A f \in 1..MaxEvidence : Preserved(f) => (evidence'[f].state \in {"preserved", "attested"})
    BY <1>2, <1>3, <1>5 DEF Preserved
  <1>7. \A f \in 1..MaxEvidence : (evidence[f].state = "attested") => (evidence'[f].state = "attested")
    BY <1>2, <1>3 DEF Taken
  <1>8. ASSUME NEW d \in Chains, d # c, chain[d].at = "finalize" PROVE evidence'[chain[d].id].state = "staged"
    <2>1. ChainFits(d)
      BY DEF EvidenceInv
    <2>2. Taken(chain[d].id) /\ evidence[chain[d].id].state = "staged"
      BY <1>8, <2>1 DEF ChainFits
    <2>3. chain[d].id # e
      BY <1>8, <2>2
    <2> QED
      BY <1>3, <2>2, <2>3 DEF Taken
  <1> QED
    BY <1>2, <1>4, <1>6, <1>7, <1>8 DEF Grown

(* What is left to show of such a step, by which no finding changes.          *)
LEMMA OriginalStep ==
  ASSUME EvidenceInv, NEW c \in Chains, Grown(c), NEW rec \in ChainStates, chain' = [chain EXCEPT ![c] = rec],
         ChainFits(c)',
         (rec.at = "finalize") => \A d \in Chains : (d # c /\ chain[d].at = "finalize") => (chain[d].id # rec.id),
         UNCHANGED <<finding, toolState>>,
         toast' \in [said : Sayings, id : 0..MaxEvidence], toast'.said = "error" \/ UNCHANGED toast,
         GivenInOrder', \A e \in 1..MaxEvidence : evidence'[e].name = evidence'[e].content
  PROVE  EvidenceInv'
  <1>1. chain' \in [Chains -> ChainStates] /\ Else(c) /\ chain'[c] = rec
    BY DEF EvidenceInv, EvidenceTyped, Else
  <1>2. (\A d \in Chains : ChainFits(d)') /\ OneFinalizes'
    BY <1>1, ChainStep
  <1>3. EvidenceTyped'
    BY <1>1 DEF EvidenceInv, EvidenceTyped, Grown
  <1>4. ToastFits' /\ ToldIsDone'
    BY SaidStays
  <1>5. EvidenceIsOfItsSource'
    BY SourceStays
  <1> QED
    BY <1>2, <1>3, <1>4, <1>5 DEF EvidenceInv

LEMMA StagedStep ==
  ASSUME EvidenceInv, NEW c \in Chains, NEW e \in 1..MaxEvidence, Staged(c, e)
  PROVE  EvidenceInv'
  <1> DEFINE new == [state |-> "staged", name |-> chain[c].name, content |-> chain[c].content]
             rec == [chain[c] EXCEPT !.at = "finalize", !.id = e]
  <1>0. ChainFits(c) /\ chain[c] \in ChainStates /\ chain[c].at = "upload"
    BY DEF EvidenceInv, EvidenceTyped, Staged
  <1>1. \A f \in 1..MaxEvidence : ((evidence[f].state # "none") <=> (f < e))
    BY NumberIsFree DEF Staged
  <1>2. evidence[e].state = "none" /\ e \in 0..MaxEvidence
    BY <1>1, EvidenceAssumption
  <1>3. new \in Originals /\ new.state = "staged" /\ new.name = chain[c].name /\ new.content = chain[c].content
    BY <1>0 DEF Originals, ChainStates
  <1>4. evidence' = [evidence EXCEPT ![e] = new]
    BY DEF Staged
  <1>5. /\ rec \in ChainStates /\ rec.at = "finalize" /\ rec.id = e
        /\ rec.what = chain[c].what /\ rec.name = chain[c].name /\ rec.content = chain[c].content
    BY <1>0, <1>2 DEF ChainStates
  <1>6. /\ UNCHANGED <<finding, toolState>>
        /\ (chain' = [chain EXCEPT ![c] = rec] /\ UNCHANGED toast) \/ Errs(c)
    BY DEF Staged
  <1> HIDE DEF new, rec
  <1>7. Grown(c) /\ evidence'[e] = new
    BY <1>2, <1>3, <1>4, OneOriginal DEF Taken
  <1>8. \A f \in 1..MaxEvidence : f # e => evidence'[f] = evidence[f]
    BY <1>4 DEF EvidenceInv, EvidenceTyped
  <1>9. \A f \in 1..MaxEvidence : evidence'[f].name = evidence'[f].content
    BY <1>0, <1>3, <1>7, <1>8 DEF EvidenceInv, EvidenceIsOfItsSource, ChainFits
  <1>10. \A f \in 1..MaxEvidence : ((evidence'[f].state # "none") <=> (f <= e))
    <2> SUFFICES ASSUME NEW f \in 1..MaxEvidence PROVE (evidence'[f].state # "none") <=> (f <= e)
      OBVIOUS
    <2>1. CASE f = e
      BY <2>1, <1>3, <1>7
    <2>2. CASE f # e
      <3>1. (f < e) <=> (f <= e)
        BY <2>2
      <3> QED
        BY <2>2, <3>1, <1>1, <1>8
    <2> QED
      BY <2>1, <2>2
  <1>11. GivenInOrder'
    BY <1>2, <1>10 DEF GivenInOrder
  <1>12. \A d \in Chains : (chain[d].at = "finalize") => (chain[d].id # e)
    BY <1>2 DEF EvidenceInv, ChainFits, Taken
  <1>13. CASE chain' = [chain EXCEPT ![c] = rec] /\ UNCHANGED toast
    <2>1. chain'[c] = rec
      BY <1>13 DEF EvidenceInv, EvidenceTyped
    <2>2. ChainFits(c)'
      BY <2>1, <1>0, <1>3, <1>5, <1>7 DEF ChainFits, Taken
    <2>3. toast' \in [said : Sayings, id : 0..MaxEvidence]
      BY <1>13 DEF EvidenceInv, EvidenceTyped
    <2> QED
      BY <2>2, <2>3, <1>5, <1>6, <1>7, <1>9, <1>11, <1>12, <1>13, OriginalStep
  <1>14. CASE Errs(c)
    <2>1. chain' = [chain EXCEPT ![c] = Idle] /\ toast' = [said |-> "error", id |-> 0]
      BY <1>14 DEF Errs, Ends
    <2>2. toast' \in [said : Sayings, id : 0..MaxEvidence] /\ toast'.said = "error"
      BY <2>1, EvidenceAssumption DEF Sayings
    <2>3. chain'[c] = Idle
      BY <2>1 DEF EvidenceInv, EvidenceTyped
    <2>4. ChainFits(c)'
      BY <2>3, IdleRecord DEF ChainFits
    <2> QED
      BY <2>1, <2>2, <2>4, <1>6, <1>7, <1>9, <1>11, IdleRecord, OriginalStep
  <1> QED
    BY <1>6, <1>13, <1>14

(* What a change of the state of an original alone keeps.                    *)
LEMMA StateChanges ==
  ASSUME EvidenceInv, NEW e \in 1..MaxEvidence, NEW s \in {"preserved", "attested"}, Taken(e),
         evidence' = [evidence EXCEPT ![e].state = s]
  PROVE  /\ [evidence[e] EXCEPT !.state = s] \in Originals
         /\ [evidence[e] EXCEPT !.state = s].state = s
         /\ [evidence[e] EXCEPT !.state = s].name = evidence[e].name
         /\ evidence' = [evidence EXCEPT ![e] = [evidence[e] EXCEPT !.state = s]]
         /\ GivenInOrder'
         /\ \A f \in 1..MaxEvidence : evidence'[f].name = evidence'[f].content
  <1> DEFINE new == [evidence[e] EXCEPT !.state = s]
  <1>1. evidence \in [1..MaxEvidence -> Originals] /\ evidence[e] \in Originals
    BY DEF EvidenceInv, EvidenceTyped
  <1>2. new \in Originals /\ new.state = s /\ new.name = evidence[e].name /\ new.content = evidence[e].content
    BY <1>1 DEF Originals
  <1>3. evidence' = [evidence EXCEPT ![e] = new]
    OBVIOUS
  <1> HIDE DEF new
  <1>4. evidence'[e] = new /\ \A f \in 1..MaxEvidence : f # e => evidence'[f] = evidence[f]
    BY <1>1, <1>3
  <1>5. \A f \in 1..MaxEvidence : evidence'[f].name = evidence'[f].content
    BY <1>2, <1>4 DEF EvidenceInv, EvidenceIsOfItsSource
  <1>6. \A f \in 1..MaxEvidence : ((evidence'[f].state # "none") <=> (evidence[f].state # "none"))
    BY <1>2, <1>4 DEF Taken
  <1>7. GivenInOrder'
    BY <1>6 DEF EvidenceInv, GivenInOrder
  <1> QED
    BY <1>2, <1>3, <1>5, <1>7 DEF new

LEMMA FinalizeStep ==
  ASSUME EvidenceInv, NEW c \in Chains, Finalize(c)
  PROVE  EvidenceInv'
  <1> DEFINE e == chain[c].id
  <1>0. ChainFits(c) /\ chain[c] \in ChainStates /\ chain[c].at = "finalize"
    BY DEF EvidenceInv, EvidenceTyped, Finalize
  <1>1. Taken(e) /\ e \in 1..MaxEvidence /\ evidence[e].state = "staged"
    BY <1>0 DEF ChainFits, Taken
  <1>2. PICK stands \in BOOLEAN, heard \in BOOLEAN :
           /\ heard => stands
           /\ evidence' = IF stands THEN [evidence EXCEPT ![e].state = "preserved"] ELSE evidence
           /\ chain' = [chain EXCEPT ![c].at = AfterUpload(c), ![c].warning = Warning(heard)]
    BY DEF Finalize
  <1> DEFINE rec == [chain[c] EXCEPT !.at = AfterUpload(c), !.warning = Warning(heard)]
  <1>3. AfterUpload(c) \in {"link", "refresh"} /\ ((AfterUpload(c) = "link") <=> (chain[c].what = "finding"))
    BY DEF AfterUpload
  <1>4. Warning(heard) \in BOOLEAN /\ (~Warning(heard) => heard)
    BY DEF Warning
  <1>5. /\ rec \in ChainStates /\ rec.at = AfterUpload(c) /\ rec.id = e
        /\ rec.what = chain[c].what /\ rec.name = chain[c].name /\ rec.content = chain[c].content
        /\ rec.warning = Warning(heard)
    BY <1>0, <1>3, <1>4 DEF ChainStates
  <1>6. chain' = [chain EXCEPT ![c] = rec]
    BY <1>2
  <1> HIDE DEF rec
  <1>7. chain'[c] = rec
    BY <1>6 DEF EvidenceInv, EvidenceTyped
  <1>8. \A d \in Chains : (d # c /\ chain[d].at = "finalize") => (chain[d].id # e)
    BY <1>0 DEF EvidenceInv, OneFinalizes
  <1>9. /\ Grown(c) /\ GivenInOrder'
        /\ \A f \in 1..MaxEvidence : evidence'[f].name = evidence'[f].content
        /\ (stands => (evidence'[e].state = "preserved"))
        /\ evidence'[e].name = evidence[e].name /\ evidence'[e].state # "none"
    <2>1. CASE stands
      <3> DEFINE new == [evidence[e] EXCEPT !.state = "preserved"]
      <3>1. evidence' = [evidence EXCEPT ![e].state = "preserved"]
        BY <1>2, <2>1
      <3>2. /\ new \in Originals /\ new.state = "preserved" /\ new.name = evidence[e].name
            /\ evidence' = [evidence EXCEPT ![e] = new]
            /\ GivenInOrder' /\ \A f \in 1..MaxEvidence : evidence'[f].name = evidence'[f].content
        BY <1>1, <3>1, StateChanges
      <3> HIDE DEF new
      <3>3. Grown(c) /\ evidence'[e] = new
        BY <1>1, <1>8, <3>2, OneOriginal DEF Preserved
      <3> QED
        BY <3>2, <3>3
    <2>2. CASE ~stands
      <3>1. evidence' = evidence
        BY <1>2, <2>2
      <3>2. Grown(c)
        BY <3>1, EvidenceStaysGrown
      <3>3. GivenInOrder'
        BY <3>1 DEF EvidenceInv, GivenInOrder
      <3>4. \A f \in 1..MaxEvidence : evidence'[f].name = evidence'[f].content
        BY <3>1 DEF EvidenceInv, EvidenceIsOfItsSource
      <3> QED
        BY <1>1, <2>2, <3>1, <3>2, <3>3, <3>4
    <2> QED
      BY <2>1, <2>2
  <1>10. ChainFits(c)'
    <2>1. ~rec.warning => (evidence'[e].state = "preserved")
      BY <1>2, <1>4, <1>5, <1>9
    <2>2. rec.at \in {"link", "refresh"} /\ rec.what # "attestation"
      BY <1>0, <1>3, <1>5 DEF ChainFits
    <2>3. (rec.what = "finding") => (evidence'[e].name = NoTool /\ rec.name = NoTool)
      BY <1>0, <1>5, <1>9 DEF ChainFits
    <2>4. rec.name = rec.content /\ rec.id = e /\ (rec.at = "link" => rec.what = "finding")
      BY <1>0, <1>3, <1>5 DEF ChainFits
    <2> QED
      BY <1>1, <1>7, <1>9, <2>1, <2>2, <2>3, <2>4 DEF ChainFits, Taken, Preserved
  <1>11. UNCHANGED <<finding, toast, toolState>>
    BY DEF Finalize
  <1>12. toast' \in [said : Sayings, id : 0..MaxEvidence]
    BY <1>11 DEF EvidenceInv, EvidenceTyped
  <1>13. rec.at # "finalize"
    BY <1>3, <1>5
  <1> QED
    BY <1>5, <1>6, <1>9, <1>10, <1>11, <1>12, <1>13, OriginalStep

LEMMA AttestStep ==
  ASSUME EvidenceInv, NEW c \in Chains, Attest(c)
  PROVE  EvidenceInv'
  <1> DEFINE e == chain[c].id
             new == [evidence[e] EXCEPT !.state = "attested"]
             rec == [chain[c] EXCEPT !.at = "refresh"]
  <1>0. ChainFits(c) /\ chain[c] \in ChainStates /\ chain[c].at = "attest" /\ Preserved(e)
    BY DEF EvidenceInv, EvidenceTyped, Attest
  <1>1. Taken(e) /\ e \in 1..MaxEvidence /\ evidence[e].state # "staged" /\ chain[c].what = "attestation"
    BY <1>0 DEF ChainFits, Taken, Preserved
  <1>2. /\ evidence' = [evidence EXCEPT ![e].state = "attested"]
        /\ UNCHANGED <<finding, toolState>>
        /\ (chain' = [chain EXCEPT ![c] = rec] /\ UNCHANGED toast) \/ Errs(c)
    BY DEF Attest, Goes
  <1>3. /\ new \in Originals /\ new.state = "attested" /\ new.name = evidence[e].name
        /\ evidence' = [evidence EXCEPT ![e] = new]
        /\ GivenInOrder' /\ \A f \in 1..MaxEvidence : evidence'[f].name = evidence'[f].content
    BY <1>1, <1>2, StateChanges
  <1>4. /\ rec \in ChainStates /\ rec.at = "refresh" /\ rec.id = e
        /\ rec.what = chain[c].what /\ rec.name = chain[c].name /\ rec.content = chain[c].content
    BY <1>0 DEF ChainStates
  <1> HIDE DEF new, rec
  <1>5. Grown(c) /\ evidence'[e] = new
    BY <1>1, <1>3, OneOriginal
  <1>6. CASE chain' = [chain EXCEPT ![c] = rec] /\ UNCHANGED toast
    <2>1. chain'[c] = rec
      BY <1>6 DEF EvidenceInv, EvidenceTyped
    <2>2. ChainFits(c)'
      BY <2>1, <1>0, <1>1, <1>3, <1>4, <1>5 DEF ChainFits, Taken
    <2>3. toast' \in [said : Sayings, id : 0..MaxEvidence]
      BY <1>6 DEF EvidenceInv, EvidenceTyped
    <2>4. rec.at # "finalize"
      BY <1>4
    <2> QED
      BY <2>2, <2>3, <2>4, <1>2, <1>3, <1>4, <1>5, <1>6, OriginalStep
  <1>7. CASE Errs(c)
    <2>1. chain' = [chain EXCEPT ![c] = Idle] /\ toast' = [said |-> "error", id |-> 0]
      BY <1>7 DEF Errs, Ends
    <2>2. toast' \in [said : Sayings, id : 0..MaxEvidence] /\ toast'.said = "error"
      BY <2>1, EvidenceAssumption DEF Sayings
    <2>3. chain'[c] = Idle
      BY <2>1 DEF EvidenceInv, EvidenceTyped
    <2>4. ChainFits(c)'
      BY <2>3, IdleRecord DEF ChainFits
    <2>5. Idle.at # "finalize"
      BY IdleRecord
    <2> QED
      BY <2>1, <2>2, <2>4, <2>5, <1>2, <1>3, <1>5, IdleRecord, OriginalStep
  <1> QED
    BY <1>2, <1>6, <1>7

LEMMA EvidenceNextInv ==
  ASSUME EvidenceInv, [EvidenceNext]_evidenceVars \/ [ToolNext]_evidenceVars
  PROVE  EvidenceInv'
  <1>1. CASE UNCHANGED evidenceVars
    <2>1. toolState' \in [selected : ToolNames, asked : ToolNames, last : ToolNames]
      BY <1>1 DEF EvidenceInv, EvidenceTyped, evidenceVars
    <2> QED
      BY <1>1, <2>1, ToolSteps DEF evidenceVars
  <1>2. ASSUME NEW c \in Chains, ChainRequests(c) PROVE EvidenceInv'
    BY <1>2, FinalizeStep, RequestFailsStep, RefreshStep, StagedStep DEF ChainRequests
  <1>3. CASE EvidenceNext
    BY <1>2, <1>3, StartSteps, LinkStep, AttestStep, ReviewStep DEF EvidenceNext
  <1>4. CASE ToolNext
    BY <1>2, <1>4, ToolIsTyped, StartSteps, LinkStep DEF ToolNext
  <1> QED
    BY <1>1, <1>3, <1>4

-----------------------------------------------------------------------------
(***************************************************************************)
(* The desk of an investigation: what a worker is at, and the row it is    *)
(* about, while the windows and the lists change around it.                *)
(***************************************************************************)
DeskTasks == Int \X (Sources \union {1})
Holdings == Seq(Nat) \union DeskTasks \union {<<"concluida">>}
RunRows == [task : DeskTasks, status : {"em_execucao", "ok", "erro"}, own : BOOLEAN, filed : BOOLEAN]
DeskOperations == [name : {"none", "planner", "report", "entity"}, entity : Int]
WorkerStates ==
    [op : {"none", "planner", "entity", "report", "status", "form", "delete"},
     at : {"idle", "next", "missing", "ask", "file", "post", "read", "sent", "posted"},
     left : SUBSET DeskTasks, row : Nat, held : Holdings]
Dialogs == [shown : {"none", "desk", "detail", "form", "confirm"},
            tab : {"overview", "plano", "entidades", "coletas", "relatorio"}, op : DeskOperations]

DeskTyped ==
    /\ entities \in [page : SUBSET Int, api : SUBSET Int]
    /\ IsFiniteSet(entities.page) /\ IsFiniteSet(entities.api)
    /\ osintRuns \in Seq(RunRows)
    /\ worker \in [Workers -> WorkerStates]
    /\ dialog \in Dialogs /\ pendingAction \in DeskOperations
    /\ reports \in [registered : SUBSET Holdings, printed : SUBSET Holdings]
    /\ together \in BOOLEAN

\* What the window asks to confirm is an operation.
ConfirmFits == dialog.shown = "confirm" => (pendingAction = dialog.op /\ pendingAction.name # "none")

Stages == {"next", "missing", "ask", "file"}

\* A worker at a stage of a collection collects; one that files the finding has
\* a row that is done, or none; one whose report is registered holds it.
WorkerFits(w) ==
    /\ (worker[w].op \in {"planner", "entity"}) <=> (worker[w].at \in Stages)
    /\ worker[w].row <= Len(osintRuns)
    /\ (worker[w].at = "file" /\ worker[w].row # 0) => (osintRuns[worker[w].row].status = "ok")
    /\ (worker[w].op = "report" /\ worker[w].at = "read") => (worker[w].held \in reports.registered)

\* The worker that asks for a task has the last row, which runs for that task.
HasLastRow(w) ==
    /\ osintRuns # <<>> /\ worker[w].row = Len(osintRuns)
    /\ osintRuns[Len(osintRuns)].status = "em_execucao" /\ osintRuns[Len(osintRuns)].task = worker[w].held

Asks(w) == w \in Collecting /\ worker[w].at \in {"missing", "ask"}

RunsAlone ==
    /\ \A v, w \in Collecting : v = w
    /\ \A w \in Workers : Asks(w) => HasLastRow(w)
    /\ \A i \in 1..Len(osintRuns) : (osintRuns[i].own /\ osintRuns[i].status = "em_execucao") =>
          \E w \in Workers : Asks(w) /\ worker[w].row = i

DeskInv ==
    /\ DeskTyped /\ ConfirmFits /\ (\A w \in Workers : WorkerFits(w)) /\ FiledStaysOk
    /\ PrintedIsRegistered /\ (~together => RunsAlone)

(* A bounded set of numbers has its last.                                    *)
LEMMA LastNumber ==
  ASSUME NEW S \in SUBSET Nat, S # {}, NEW n \in Nat, \A s \in S : s <= n
  PROVE  \E t \in S : \A u \in S : u <= t
  <1> DEFINE R == OpToRel(<, Nat)
             T == {n - s : s \in S}
  <1>1. IsWellFoundedOn(R, Nat)
    BY NatLessThanWellFounded
  <1>2. T \in SUBSET Nat /\ T # {}
    <2>1. \A s \in S : s \in Nat /\ s <= n /\ n - s \in Nat
      OBVIOUS
    <2> QED
      BY <2>1
  <1>3. \E x \in T : \A y \in T : ~(<<y, x>> \in R)
    <2> HIDE DEF R, T
    <2> QED BY <1>1, <1>2, WFMin
  <1>4. PICK t \in S : \A u \in S : ~(<<n - u, n - t>> \in R)
    BY <1>3
  <1>5. ASSUME NEW u \in S PROVE u <= t
    <2>1. n - u \in Nat /\ n - t \in Nat /\ u \in Nat /\ t \in Nat
      OBVIOUS
    <2>2. ~((n - u) < (n - t))
      BY <1>4, <2>1 DEF OpToRel
    <2> QED
      BY <2>1, <2>2
  <1> QED
    BY <1>5

(* A list of which one row is replaced.                                      *)
Marked(rows, k, mark) == [i \in 1..Len(rows) |-> IF i = k THEN mark ELSE rows[i]]

LEMMA RowMarked ==
  ASSUME NEW S, NEW rows \in Seq(S), NEW k, NEW mark, (k \in 1..Len(rows)) => mark \in S
  PROVE  /\ Marked(rows, k, mark) \in Seq(S) /\ Len(Marked(rows, k, mark)) = Len(rows) /\ Len(rows) \in Nat
         /\ \A i \in 1..Len(rows) : Marked(rows, k, mark)[i] = IF i = k THEN mark ELSE rows[i]
  <1> DEFINE new == Marked(rows, k, mark)
  <1>1. \A i \in 1..Len(rows) : rows[i] \in S
    OBVIOUS
  <1>2. new = [i \in 1..Len(rows) |-> IF i = k THEN mark ELSE rows[i]] /\ Len(rows) \in Nat
    BY DEF Marked
  <1>3. \A i \in 1..Len(rows) : (IF i = k THEN mark ELSE rows[i]) \in S
    BY <1>1
  <1>4. new \in Seq(S)
    BY <1>2, <1>3
  <1>5. Len(new) = Len(rows)
    BY <1>2
  <1> QED
    BY <1>2, <1>4, <1>5

LEMMA DeskInitInv == DeskInit => DeskInv
  <1> SUFFICES ASSUME DeskInit PROVE DeskInv
    OBVIOUS
  <1>1. Resting \in WorkerStates /\ Resting.op = "none" /\ Resting.at = "idle" /\ Resting.row = 0
    BY DEF Resting, WorkerStates, Holdings
  <1>2. NoOperation \in DeskOperations /\ NoDialog \in Dialogs /\ NoDialog.shown = "none"
    BY DEF NoOperation, DeskOperations, NoDialog, Dialogs
  <1>3. worker \in [Workers -> WorkerStates] /\ \A w \in Workers : worker[w] = Resting
    BY <1>1 DEF DeskInit
  <1>4. IsFiniteSet({1})
    BY FS_Singleton
  <1>5. osintRuns = <<>> /\ osintRuns \in Seq(RunRows) /\ Len(osintRuns) = 0
    BY DEF DeskInit
  <1>6. /\ entities = [page |-> {1}, api |-> {1}] /\ dialog = NoDialog /\ pendingAction = NoOperation
        /\ reports = [registered |-> {}, printed |-> {}] /\ together = FALSE
    BY DEF DeskInit
  <1>7. DeskTyped
    <2>1. entities \in [page : SUBSET Int, api : SUBSET Int] /\ IsFiniteSet(entities.page) /\ IsFiniteSet(entities.api)
      BY <1>4, <1>6
    <2>2. reports \in [registered : SUBSET Holdings, printed : SUBSET Holdings]
      BY <1>6
    <2>3. together \in BOOLEAN
      BY <1>6
    <2> QED
      BY <1>2, <1>3, <1>5, <1>6, <2>1, <2>2, <2>3 DEF DeskTyped
  <1>8. ConfirmFits
    BY <1>2, <1>6 DEF ConfirmFits
  <1>9. \A w \in Workers : WorkerFits(w)
    BY <1>1, <1>3, <1>5 DEF WorkerFits, Stages
  <1>10. FiledStaysOk /\ PrintedIsRegistered
    BY <1>5, <1>6 DEF FiledStaysOk, PrintedIsRegistered
  <1>11. Collecting = {} /\ RunsAlone
    BY <1>1, <1>3, <1>5 DEF Collecting, RunsAlone, Asks
  <1> QED
    BY <1>7, <1>8, <1>9, <1>10, <1>11 DEF DeskInv

(* A step of the windows, the entities or the confirmation.                  *)
EntitiesTyped == entities \in [page : SUBSET Int, api : SUBSET Int] /\ IsFiniteSet(entities.page) /\ IsFiniteSet(entities.api)

LEMMA WindowStep ==
  ASSUME DeskInv, UNCHANGED <<worker, osintRuns, together, reports>>, EntitiesTyped',
         dialog' \in Dialogs, pendingAction' \in DeskOperations, ConfirmFits'
  PROVE  DeskInv'
  <1>1. DeskTyped'
    BY DEF DeskInv, DeskTyped, EntitiesTyped
  <1>2. \A w \in Workers : WorkerFits(w)'
    BY DEF DeskInv, WorkerFits
  <1>3. FiledStaysOk' /\ PrintedIsRegistered'
    BY DEF DeskInv, FiledStaysOk, PrintedIsRegistered
  <1>4. ~together' => RunsAlone'
    BY DEF DeskInv, RunsAlone, Asks, HasLastRow, Collecting
  <1> QED
    BY <1>1, <1>2, <1>3, <1>4 DEF DeskInv

(* What a step of worker w may have made of it.                              *)
LEMMA WorkerReplaced ==
  ASSUME DeskInv, NEW w \in Workers, NEW rec \in WorkerStates, worker' = [worker EXCEPT ![w] = rec]
  PROVE  /\ worker' \in [Workers -> WorkerStates] /\ worker'[w] = rec
         /\ \A v \in Workers : v # w => worker'[v] = worker[v]
  BY DEF DeskInv, DeskTyped

LEMMA OtherWorkersFit ==
  ASSUME DeskInv, NEW v \in Workers, worker'[v] = worker[v], Len(osintRuns) <= Len(osintRuns'),
         Len(osintRuns) \in Nat, Len(osintRuns') \in Nat,
         \A i \in 1..Len(osintRuns) : (osintRuns[i].status = "ok") => (osintRuns'[i].status = "ok"),
         reports.registered \subseteq reports'.registered
  PROVE  WorkerFits(v)'
  <1>1. WorkerFits(v) /\ worker[v].row \in Nat
    BY DEF DeskInv, DeskTyped, WorkerStates
  <1>2. worker[v].row <= Len(osintRuns')
    BY <1>1 DEF WorkerFits
  <1>3. (worker[v].at = "file" /\ worker[v].row # 0) => (osintRuns'[worker[v].row].status = "ok")
    <2>1. (worker[v].row # 0) => (worker[v].row \in 1..Len(osintRuns))
      BY <1>1 DEF WorkerFits
    <2> QED
      BY <1>1, <2>1 DEF WorkerFits
  <1>4. (worker[v].op \in {"planner", "entity"}) <=> (worker[v].at \in Stages)
    BY <1>1 DEF WorkerFits
  <1>5. (worker[v].op = "report" /\ worker[v].at = "read") => (worker[v].held \in reports'.registered)
    BY <1>1 DEF WorkerFits
  <1> QED
    BY <1>2, <1>3, <1>4, <1>5 DEF WorkerFits

(* A step of a worker that does not collect.                                 *)
LEMMA OtherWork ==
  ASSUME DeskInv, NEW w \in Workers, NEW rec \in WorkerStates, worker' = [worker EXCEPT ![w] = rec],
         worker[w].op \notin {"planner", "entity"}, rec.op \notin {"planner", "entity"}, rec.at \notin Stages,
         rec.row <= Len(osintRuns), (rec.op = "report" /\ rec.at = "read") => (rec.held \in reports'.registered),
         UNCHANGED <<osintRuns, together>>, EntitiesTyped',
         reports' \in [registered : SUBSET Holdings, printed : SUBSET Holdings],
         reports.registered \subseteq reports'.registered, PrintedIsRegistered',
         dialog' \in Dialogs, pendingAction' \in DeskOperations, ConfirmFits'
  PROVE  DeskInv'
  <1>1. /\ worker' \in [Workers -> WorkerStates] /\ worker'[w] = rec
        /\ \A v \in Workers : v # w => worker'[v] = worker[v]
    BY WorkerReplaced
  <1>2. DeskTyped'
    BY <1>1 DEF DeskInv, DeskTyped, EntitiesTyped
  <1>3. Len(osintRuns) \in Nat
    BY DEF DeskInv, DeskTyped
  <1>4. WorkerFits(w)'
    BY <1>1 DEF WorkerFits, Stages
  <1>5. ASSUME NEW v \in Workers PROVE WorkerFits(v)'
    <2>1. CASE v = w
      BY <1>4, <2>1
    <2>2. CASE v # w
      BY <1>1, <1>3, <2>2, OtherWorkersFit
    <2> QED
      BY <2>1, <2>2
  <1>6. FiledStaysOk'
    BY DEF DeskInv, FiledStaysOk
  <1>7. Collecting' = Collecting
    BY <1>1 DEF Collecting
  <1>8. \A v \in Collecting : v # w
    BY DEF Collecting
  <1>9. \A v \in Workers : (Asks(v)' <=> Asks(v)) /\ (Asks(v) => worker'[v] = worker[v])
    BY <1>1, <1>7, <1>8 DEF Asks
  <1>10. ~together' => RunsAlone'
    <2> SUFFICES ASSUME ~together PROVE RunsAlone'
      OBVIOUS
    <2>1. RunsAlone
      BY DEF DeskInv
    <2>2. \A u, v \in Collecting' : u = v
      BY <1>7, <2>1 DEF RunsAlone
    <2>3. \A v \in Workers : Asks(v)' => HasLastRow(v)'
      BY <1>9, <2>1 DEF RunsAlone, HasLastRow
    <2>4. \A i \in 1..Len(osintRuns') : (osintRuns'[i].own /\ osintRuns'[i].status = "em_execucao") =>
             \E v \in Workers : Asks(v)' /\ worker'[v].row = i
      BY <1>9, <2>1 DEF RunsAlone
    <2> QED
      BY <2>2, <2>3, <2>4 DEF RunsAlone
  <1> QED
    BY <1>2, <1>5, <1>6, <1>10 DEF DeskInv

(* The lists are read again, and no worker has a row of them.                *)
LEMMA RefreshedStep ==
  ASSUME DeskInv, NEW live, ListsReadAgain(live), NEW w, worker' = Forget \/ worker' = [Forget EXCEPT ![w] = Resting],
         reports' \in [registered : SUBSET Holdings, printed : SUBSET Holdings],
         reports.registered \subseteq reports'.registered, PrintedIsRegistered', UNCHANGED <<dialog, pendingAction>>
  PROVE  DeskInv'
  <1>1. worker \in [Workers -> WorkerStates]
    BY DEF DeskInv, DeskTyped
  <1>2. ASSUME NEW v \in Workers
        PROVE  /\ [worker[v] EXCEPT !.row = 0] \in WorkerStates /\ [worker[v] EXCEPT !.row = 0].row = 0
               /\ [worker[v] EXCEPT !.row = 0].at = worker[v].at /\ [worker[v] EXCEPT !.row = 0].op = worker[v].op
               /\ [worker[v] EXCEPT !.row = 0].held = worker[v].held
    BY <1>1 DEF WorkerStates
  <1>3. Resting \in WorkerStates /\ Resting.op = "none" /\ Resting.at = "idle" /\ Resting.row = 0
    BY DEF Resting, WorkerStates, Holdings
  <1>4. Forget \in [Workers -> WorkerStates] /\ \A v \in Workers : Forget[v] = [worker[v] EXCEPT !.row = 0]
    BY <1>2 DEF Forget
  <1>5. worker' \in [Workers -> WorkerStates]
    BY <1>3, <1>4
  <1>6. ASSUME NEW v \in Workers
        PROVE  \/ worker'[v] = Resting
               \/ /\ worker'[v].row = 0 /\ worker'[v].at = worker[v].at /\ worker'[v].op = worker[v].op
                  /\ worker'[v].held = worker[v].held
    BY <1>2, <1>4
  <1>7. /\ osintRuns' \in Seq(RunRows) /\ Len(osintRuns') \in Nat
        /\ \A i \in 1..Len(osintRuns') : ~osintRuns'[i].own /\ ~osintRuns'[i].filed
    <2> DEFINE mark(st) == [Running(<<1, 1>>) EXCEPT !.own = FALSE, !.status = st]
    <2>1. \A st \in {"em_execucao", "ok"} : mark(st) \in RunRows /\ mark(st).own = FALSE /\ mark(st).filed = FALSE
      <3>1. /\ Running(<<1, 1>>) \in RunRows
            /\ Running(<<1, 1>>).filed = FALSE
        BY DEF Running, RunRows, DeskTasks
      <3> QED
        BY <3>1 DEF RunRows
    <2>2. osintRuns' = <<>> \/ \E st \in {"em_execucao", "ok"} : osintRuns' = <<mark(st)>>
      BY DEF ListsReadAgain
    <2> HIDE DEF mark
    <2>3. CASE osintRuns' = <<>>
      BY <2>3
    <2>4. ASSUME NEW st \in {"em_execucao", "ok"}, osintRuns' = <<mark(st)>>
          PROVE  /\ osintRuns' \in Seq(RunRows) /\ Len(osintRuns') \in Nat
                 /\ \A i \in 1..Len(osintRuns') : ~osintRuns'[i].own /\ ~osintRuns'[i].filed
      <3>1. mark(st) \in RunRows /\ mark(st).own = FALSE /\ mark(st).filed = FALSE
        BY <2>1
      <3>2. osintRuns' \in Seq(RunRows) /\ Len(osintRuns') = 1 /\ osintRuns'[1] = mark(st)
        BY <2>4, <3>1
      <3> QED
        BY <3>1, <3>2
    <2> QED
      BY <2>2, <2>3, <2>4
  <1>8. EntitiesTyped'
    <2>1. entities \in [page : SUBSET Int, api : SUBSET Int] /\ IsFiniteSet(entities.api)
      BY DEF DeskInv, DeskTyped
    <2>2. entities' = [entities EXCEPT !.page = entities.api]
      BY DEF ListsReadAgain
    <2>3. entities' \in [page : SUBSET Int, api : SUBSET Int] /\ entities'.page = entities.api /\ entities'.api = entities.api
      BY <2>1, <2>2
    <2> QED
      BY <2>1, <2>3 DEF EntitiesTyped
  <1>9. together' = (together \/ Collecting # {}) /\ together' \in BOOLEAN
    BY DEF ListsReadAgain, DeskInv, DeskTyped
  <1>10. DeskTyped'
    BY <1>5, <1>7, <1>8, <1>9 DEF DeskInv, DeskTyped, EntitiesTyped
  <1>11. ConfirmFits'
    BY DEF DeskInv, ConfirmFits
  <1>12. ASSUME NEW v \in Workers PROVE WorkerFits(v)'
    <2>1. WorkerFits(v)
      BY DEF DeskInv
    <2>2. CASE worker'[v] = Resting
      BY <2>2, <1>3, <1>7 DEF WorkerFits, Stages
    <2>3. CASE /\ worker'[v].row = 0 /\ worker'[v].at = worker[v].at /\ worker'[v].op = worker[v].op
               /\ worker'[v].held = worker[v].held
      BY <2>1, <2>3, <1>7 DEF WorkerFits
    <2> QED
      BY <2>2, <2>3, <1>6
  <1>13. FiledStaysOk'
    BY <1>7 DEF FiledStaysOk
  <1>14. ~together' => RunsAlone'
    <2> SUFFICES ASSUME Collecting = {} PROVE RunsAlone'
      BY <1>9
    <2>1. Collecting' = {}
      BY <1>3, <1>6 DEF Collecting
    <2> QED
      BY <2>1, <1>7 DEF RunsAlone, Asks
  <1> QED
    BY <1>10, <1>11, <1>12, <1>13, <1>14 DEF DeskInv
(* The windows.                                                              *)
DeskTabs == {"overview", "plano", "entidades", "coletas", "relatorio"}

LEMMA DialogParts ==
  ASSUME NEW d \in Dialogs
  PROVE  /\ d.tab \in DeskTabs /\ d.op \in DeskOperations
         /\ \A s \in {"none", "desk", "detail", "form", "confirm"} :
               [d EXCEPT !.shown = s] \in Dialogs /\ [d EXCEPT !.shown = s].shown = s
  BY DEF Dialogs, DeskTabs

LEMMA DialogAsks ==
  ASSUME NEW d \in Dialogs, NEW s \in {"none", "confirm"}, NEW op \in DeskOperations
  PROVE  /\ [d EXCEPT !.shown = s, !.op = op] \in Dialogs
         /\ [d EXCEPT !.shown = s, !.op = op].shown = s /\ [d EXCEPT !.shown = s, !.op = op].op = op
  BY DEF Dialogs, DeskTabs

LEMMA NothingAsked ==
  /\ NoOperation \in DeskOperations /\ NoOperation.name = "none"
  /\ NoDialog \in Dialogs /\ NoDialog.shown = "none"
  BY DEF NoOperation, DeskOperations, NoDialog, Dialogs

LEMMA WorkspaceShown ==
  ASSUME NEW tab \in DeskTabs
  PROVE  Workspace(tab) \in Dialogs /\ Workspace(tab).shown # "confirm"
  <1>1. [NoDialog EXCEPT !.shown = "desk", !.tab = tab] \in Dialogs /\ [NoDialog EXCEPT !.shown = "desk", !.tab = tab].shown = "desk"
    BY NothingAsked DEF Dialogs, DeskTabs
  <1> QED
    BY <1>1, NothingAsked DEF Workspace

LEMMA DeskParts ==
  ASSUME DeskInv
  PROVE  /\ dialog \in Dialogs /\ dialog.tab \in DeskTabs /\ pendingAction \in DeskOperations
         /\ EntitiesTyped /\ together \in BOOLEAN
         /\ reports \in [registered : SUBSET Holdings, printed : SUBSET Holdings]
         /\ osintRuns \in Seq(RunRows) /\ Len(osintRuns) \in Nat
         /\ ConfirmFits /\ PrintedIsRegistered /\ FiledStaysOk
         /\ \A w \in Workers : worker[w] \in WorkerStates /\ WorkerFits(w)
  <1>1. dialog \in Dialogs /\ osintRuns \in Seq(RunRows) /\ \A w \in Workers : worker[w] \in WorkerStates
    BY DEF DeskInv, DeskTyped
  <1>2. dialog.tab \in DeskTabs
    BY <1>1, DialogParts
  <1>4. Len(osintRuns) \in Nat
    BY <1>1
  <1>3. /\ pendingAction \in DeskOperations /\ EntitiesTyped /\ together \in BOOLEAN
        /\ reports \in [registered : SUBSET Holdings, printed : SUBSET Holdings]
    BY DEF DeskInv, DeskTyped, EntitiesTyped
  <1> QED
    BY <1>1, <1>2, <1>3, <1>4 DEF DeskInv

LEMMA WindowSteps ==
  ASSUME DeskInv, \/ OpenDesk \/ CloseDesk \/ ShowRunDetail \/ OpenEntityForm
                  \/ \E tab \in DeskTabs : SwitchTab(tab)
  PROVE  DeskInv'
  <1>1. OnlyDialog /\ dialog' \in Dialogs /\ dialog'.shown # "confirm"
    <2>1. CASE OpenDesk
      BY <2>1, WorkspaceShown DEF OpenDesk, DeskTabs
    <2>2. CASE CloseDesk
      BY <2>2, DeskParts, DialogAsks, NothingAsked DEF CloseDesk
    <2>3. CASE ShowRunDetail
      BY <2>3, DeskParts, DialogParts DEF ShowRunDetail
    <2>4. CASE OpenEntityForm
      BY <2>4, DeskParts, DialogParts DEF OpenEntityForm
    <2>5. ASSUME NEW tab \in DeskTabs, SwitchTab(tab) PROVE OnlyDialog /\ dialog' \in Dialogs /\ dialog'.shown # "confirm"
      BY <2>5, WorkspaceShown DEF SwitchTab
    <2> QED
      BY <2>1, <2>2, <2>3, <2>4, <2>5
  <1>2. ConfirmFits'
    BY <1>1 DEF ConfirmFits
  <1>3. EntitiesTyped'
    BY <1>1, DeskParts DEF OnlyDialog, EntitiesTyped
  <1> QED
    BY <1>1, <1>2, <1>3, WindowStep, DeskParts DEF OnlyDialog

LEMMA DropEntityStep ==
  ASSUME DeskInv, NEW e, DropEntity(e)
  PROVE  DeskInv'
  <1>1. entities' = [entities EXCEPT !.page = @ \ {e}] /\ dialog' = Workspace(dialog.tab)
    BY DEF DropEntity
  <1>2. entities'.page = entities.page \ {e} /\ entities'.api = entities.api
        /\ entities' \in [page : SUBSET Int, api : SUBSET Int]
    BY <1>1, DeskParts DEF EntitiesTyped
  <1>3. EntitiesTyped'
    BY <1>2, DeskParts, FS_Subset DEF EntitiesTyped
  <1>4. dialog' \in Dialogs /\ ConfirmFits'
    BY <1>1, DeskParts, WorkspaceShown DEF ConfirmFits
  <1> QED
    BY <1>3, <1>4, DeskParts, WindowStep DEF DropEntity

LEMMA AskConfirmationStep ==
  ASSUME DeskInv, NEW op \in Operations, AskConfirmation(op)
  PROVE  DeskInv'
  <1>1. op \in DeskOperations /\ op.name # "none"
    BY DeskParts DEF Operations, DeskOperations, EntitiesTyped
  <1>2. pendingAction' = op /\ dialog' = [dialog EXCEPT !.shown = "confirm", !.op = op]
    BY DEF AskConfirmation
  <1>3. dialog' \in Dialogs /\ dialog'.op = op
    BY <1>1, <1>2, DialogAsks, DeskParts
  <1>4. ConfirmFits'
    BY <1>1, <1>2, <1>3 DEF ConfirmFits
  <1>5. EntitiesTyped'
    BY DeskParts DEF AskConfirmation, EntitiesTyped
  <1> QED
    BY <1>1, <1>2, <1>3, <1>4, <1>5, WindowStep DEF AskConfirmation

LEMMA RestingParts ==
  /\ Resting \in WorkerStates /\ Resting.op = "none" /\ Resting.at = "idle" /\ Resting.row = 0
  BY DEF Resting, WorkerStates, Holdings

LEMMA WorkTaken ==
  ASSUME DeskInv, NEW op \in DeskOperations
  PROVE  Tasks(op) \in SUBSET DeskTasks /\ Contents \in Holdings
  <1>1. entities.page \subseteq Int /\ IsFiniteSet(entities.page) /\ op.entity \in Int
    BY DeskParts DEF EntitiesTyped, DeskOperations
  <1>2. Cardinality(entities.page) \in Nat
    BY <1>1, FS_CardinalityType
  <1>3. Contents \in Seq(Nat)
    BY <1>2 DEF Contents
  <1>4. entities.page \X Sources \subseteq DeskTasks /\ {op.entity} \X Sources \subseteq DeskTasks
    BY <1>1 DEF DeskTasks
  <1> QED
    BY <1>3, <1>4 DEF Tasks, Holdings

LEMMA ConfirmStep ==
  ASSUME DeskInv, NEW w \in Workers, Confirm(w)
  PROVE  DeskInv'
  <1> DEFINE op == pendingAction
             rec == [Resting EXCEPT !.op = op.name, !.at = IF op.name = "report" THEN "post" ELSE "next",
                        !.left = Tasks(op), !.held = IF op.name = "report" THEN Contents ELSE <<>>]
  <1>1. op \in DeskOperations /\ op.name \in {"planner", "report", "entity"} /\ worker[w] = Resting
    BY DeskParts DEF Confirm, ConfirmFits, DeskOperations
  <1>2. /\ rec \in WorkerStates /\ rec.op = op.name /\ rec.row = 0
        /\ rec.at = IF op.name = "report" THEN "post" ELSE "next"
    <2>1. <<>> \in Holdings
      BY DEF Holdings
    <2> QED
      BY <1>1, <2>1, WorkTaken, RestingParts DEF WorkerStates
  <1>3. /\ pendingAction' = NoOperation /\ dialog' = [dialog EXCEPT !.shown = "none", !.op = NoOperation]
        /\ UNCHANGED <<inv, entities, osintRuns, reports>>
        /\ \/ /\ worker' = [worker EXCEPT ![w] = rec]
              /\ together' = (together \/ (op.name # "report" /\ Collecting # {}))
           \/ op.name = "planner" /\ UNCHANGED <<worker, together>>
    BY DEF Confirm
  <1> HIDE DEF rec
  <1>4. dialog' \in Dialogs /\ pendingAction' \in DeskOperations /\ ConfirmFits'
    <2>1. dialog' \in Dialogs /\ dialog'.shown = "none"
      BY <1>3, DeskParts, DialogAsks, NothingAsked
    <2> QED
      BY <1>3, <2>1, NothingAsked DEF ConfirmFits
  <1>5. EntitiesTyped' /\ PrintedIsRegistered' /\ reports' \in [registered : SUBSET Holdings, printed : SUBSET Holdings]
    BY <1>3, DeskParts DEF EntitiesTyped, PrintedIsRegistered
  <1>6. CASE op.name = "planner" /\ UNCHANGED <<worker, together>>
    BY <1>3, <1>4, <1>5, <1>6, WindowStep
  <1>7. CASE /\ worker' = [worker EXCEPT ![w] = rec] /\ op.name = "report"
             /\ together' = (together \/ (op.name # "report" /\ Collecting # {}))
    <2>1. UNCHANGED together
      BY <1>7, DeskParts
    <2>2. worker[w].op = "none" /\ rec.at = "post"
      BY <1>1, <1>2, <1>7, RestingParts
    <2>3. rec.row <= Len(osintRuns)
      BY <1>2, DeskParts
    <2> QED
      BY <1>2, <1>3, <1>4, <1>5, <1>7, <2>1, <2>2, <2>3, OtherWork DEF Stages
  <1>8. CASE /\ worker' = [worker EXCEPT ![w] = rec] /\ op.name # "report"
             /\ together' = (together \/ (op.name # "report" /\ Collecting # {}))
    <2>1. /\ worker' \in [Workers -> WorkerStates] /\ worker'[w] = rec
          /\ \A v \in Workers : v # w => worker'[v] = worker[v]
      BY <1>2, <1>8, WorkerReplaced
    <2>2. rec.at = "next" /\ rec.op \in {"planner", "entity"}
      BY <1>1, <1>2, <1>8
    <2>3. together' \in BOOLEAN /\ (~together' => (~together /\ Collecting = {}))
      BY <1>8, DeskParts
    <2>4. DeskTyped'
      BY <1>3, <1>4, <1>5, <2>1, <2>3 DEF DeskInv, DeskTyped, EntitiesTyped
    <2>5. WorkerFits(w)'
      BY <1>2, <1>3, <2>1, <2>2, DeskParts DEF WorkerFits, Stages
    <2>6. \A v \in Workers : WorkerFits(v)'
      BY <1>3, <2>1, <2>5, OtherWorkersFit, DeskParts
    <2>7. FiledStaysOk'
      BY <1>3, DeskParts DEF FiledStaysOk
    <2>8. ~together' => RunsAlone'
      <3> SUFFICES ASSUME ~together' PROVE RunsAlone'
        OBVIOUS
      <3>1. RunsAlone /\ Collecting = {}
        BY <2>3 DEF DeskInv
      <3>2. \A v \in Workers : ~Asks(v)
        BY <3>1 DEF Asks
      <3>3. Collecting' \subseteq {w}
        BY <2>1, <3>1 DEF Collecting
      <3>4. \A v \in Workers : ~Asks(v)'
        BY <2>1, <2>2, <3>3 DEF Asks
      <3>5. \A i \in 1..Len(osintRuns') : ~(osintRuns'[i].own /\ osintRuns'[i].status = "em_execucao")
        BY <1>3, <3>1, <3>2 DEF RunsAlone
      <3> QED
        BY <3>3, <3>4, <3>5 DEF RunsAlone
    <2> QED
      BY <1>4, <1>5, <2>4, <2>6, <2>7, <2>8 DEF DeskInv
  <1> QED
    BY <1>3, <1>6, <1>7, <1>8

LEMMA SendsStep ==
  ASSUME DeskInv, NEW w \in Workers, NEW op \in {"status", "form", "delete"}, NEW found \in Holdings, Sends(w, op, found)
  PROVE  DeskInv'
  <1> DEFINE rec == [Resting EXCEPT !.op = op, !.at = "sent", !.held = found]
  <1>1. rec \in WorkerStates /\ rec.op = op /\ rec.at = "sent" /\ rec.row = 0
    BY RestingParts DEF WorkerStates
  <1>2. /\ worker[w] = Resting /\ worker' = [worker EXCEPT ![w] = rec]
        /\ UNCHANGED <<inv, entities, osintRuns, dialog, pendingAction, reports, together>>
    BY DEF Sends
  <1> HIDE DEF rec
  <1>3. rec.row <= Len(osintRuns) /\ rec.at \notin Stages /\ worker[w].op = "none"
    BY <1>1, <1>2, DeskParts, RestingParts DEF Stages
  <1>4. EntitiesTyped' /\ PrintedIsRegistered' /\ ConfirmFits'
    BY <1>2, DeskParts DEF EntitiesTyped, PrintedIsRegistered, ConfirmFits
  <1> QED
    BY <1>1, <1>2, <1>3, <1>4, DeskParts, OtherWork

(* A worker that does not collect is done.                                   *)
LEMMA WorkEndsStep ==
  ASSUME DeskInv, NEW w \in Workers, worker' = [worker EXCEPT ![w] = Resting], worker[w].op \notin {"planner", "entity"},
         UNCHANGED <<osintRuns, pendingAction, reports, together>>, EntitiesTyped',
         UNCHANGED dialog \/ dialog' = Workspace(dialog.tab)
  PROVE  DeskInv'
  <1>1. dialog' \in Dialogs /\ ConfirmFits'
    BY DeskParts, WorkspaceShown DEF ConfirmFits
  <1>2. Resting.row <= Len(osintRuns) /\ Resting.at \notin Stages
    BY DeskParts, RestingParts DEF Stages
  <1>3. PrintedIsRegistered'
    BY DeskParts DEF PrintedIsRegistered
  <1> QED
    BY <1>1, <1>2, <1>3, RestingParts, DeskParts, OtherWork

LEMMA StatusUpdatedStep ==
  ASSUME DeskInv, NEW w \in Workers, StatusUpdated(w)
  PROVE  DeskInv'
  <1>1. EntitiesTyped'
    BY DeskParts DEF StatusUpdated, EntitiesTyped
  <1> QED
    BY <1>1, WorkEndsStep DEF StatusUpdated, WorkEnds

LEMMA EntitySavedStep ==
  ASSUME DeskInv, NEW w \in Workers, EntitySaved(w)
  PROVE  DeskInv'
  <1>1. PICK e \in 1..MaxEntities \ entities.api :
            \/ entities' = [page |-> entities.page \union {e}, api |-> entities.api \union {e}] /\ dialog' = Workspace(dialog.tab)
            \/ entities' = [entities EXCEPT !.api = @ \union {e}] /\ UNCHANGED dialog
    BY DEF EntitySaved
  <1>2. e \in Int /\ IsFiniteSet(entities.page) /\ IsFiniteSet(entities.api) /\ entities \in [page : SUBSET Int, api : SUBSET Int]
    BY DeskParts DEF EntitiesTyped
  <1>3. IsFiniteSet(entities.page \union {e}) /\ IsFiniteSet(entities.api \union {e})
    BY <1>2, FS_AddElement
  <1>4. EntitiesTyped'
    <2>1. entities' \in [page : SUBSET Int, api : SUBSET Int]
      BY <1>1, <1>2
    <2>2. /\ entities'.page \in {entities.page, entities.page \union {e}}
          /\ entities'.api = entities.api \union {e}
      BY <1>1, <1>2
    <2> QED
      BY <1>2, <1>3, <2>1, <2>2 DEF EntitiesTyped
  <1>5. UNCHANGED dialog \/ dialog' = Workspace(dialog.tab)
    BY <1>1
  <1> QED
    BY <1>4, <1>5, WorkEndsStep DEF EntitySaved, WorkEnds

LEMMA RequestRefusedStep ==
  ASSUME DeskInv, NEW w \in Workers, RequestRefused(w)
  PROVE  DeskInv'
  <1>1. worker[w].at \in {"post", "read", "posted", "sent"} /\ WorkerFits(w)
    BY DeskParts DEF RequestRefused
  <1>2. worker[w].op \notin {"planner", "entity"}
    BY <1>1 DEF WorkerFits, Stages
  <1>3. EntitiesTyped'
    BY DeskParts DEF RequestRefused, EntitiesTyped
  <1> QED
    BY <1>2, <1>3, WorkEndsStep DEF RequestRefused

LEMMA ReadEntityFormStep ==
  ASSUME DeskInv, NEW w \in Workers, ReadEntityForm(w)
  PROVE  DeskInv'
  <1> DEFINE rec == [worker[w] EXCEPT !.at = "posted"]
  <1>0. worker[w] \in WorkerStates /\ worker[w].op = "form" /\ WorkerFits(w)
        /\ UNCHANGED <<inv, entities, osintRuns, dialog, pendingAction, reports, together>>
    BY DeskParts DEF ReadEntityForm
  <1>1. rec \in WorkerStates /\ rec.op = "form" /\ rec.at = "posted" /\ rec.row = worker[w].row
    BY <1>0 DEF WorkerStates
  <1>2. worker' = [worker EXCEPT ![w] = rec] \/ worker' = [worker EXCEPT ![w] = Resting]
    BY DEF ReadEntityForm
  <1> HIDE DEF rec
  <1>3. EntitiesTyped' /\ PrintedIsRegistered' /\ ConfirmFits'
    BY <1>0, DeskParts DEF EntitiesTyped, PrintedIsRegistered, ConfirmFits
  <1>4. CASE worker' = [worker EXCEPT ![w] = rec]
    <2>1. rec.row <= Len(osintRuns) /\ rec.at \notin Stages
      BY <1>0, <1>1 DEF WorkerFits, Stages
    <2> QED
      BY <1>0, <1>1, <1>3, <1>4, <2>1, DeskParts, OtherWork
  <1>5. CASE worker' = [worker EXCEPT ![w] = Resting]
    BY <1>0, <1>3, <1>5, WorkEndsStep
  <1> QED
    BY <1>2, <1>4, <1>5

LEMMA InvestigationDeletedStep ==
  ASSUME DeskInv, NEW w \in Workers, InvestigationDeleted(w)
  PROVE  DeskInv'
  <1>1. UNCHANGED <<dialog, pendingAction, reports>> /\ worker[w].op = "delete"
    BY DEF InvestigationDeleted
  <1>2. CASE ListsReadAgain(FALSE) /\ worker' = [Forget EXCEPT ![w] = Resting]
    <2>1. PrintedIsRegistered' /\ reports' \in [registered : SUBSET Holdings, printed : SUBSET Holdings]
      BY <1>1, DeskParts DEF PrintedIsRegistered
    <2> QED
      BY <1>1, <1>2, <2>1, RefreshedStep
  <1>3. CASE /\ inv' = [inv EXCEPT !.live = FALSE] /\ WorkEnds(w, "delete")
             /\ UNCHANGED <<entities, osintRuns, together>>
    <2>1. EntitiesTyped'
      BY <1>3, DeskParts DEF EntitiesTyped
    <2> QED
      BY <1>1, <1>3, <2>1, WorkEndsStep DEF WorkEnds
  <1> QED
    BY <1>2, <1>3 DEF InvestigationDeleted

LEMMA OtherRefreshStep ==
  ASSUME DeskInv, OtherRefresh
  PROVE  DeskInv'
  <1>1. PrintedIsRegistered' /\ reports' \in [registered : SUBSET Holdings, printed : SUBSET Holdings]
    BY DeskParts DEF OtherRefresh, PrintedIsRegistered
  <1>2. ListsReadAgain(inv.live) /\ worker' = Forget /\ UNCHANGED <<dialog, pendingAction, reports>>
    BY DEF OtherRefresh
  <1> HIDE DEF DeskInv
  <1> QED
    BY <1>1, <1>2, RefreshedStep

LEMMA PrintReportStep ==
  ASSUME DeskInv, NEW w \in Workers, PrintReport(w)
  PROVE  DeskInv'
  <1>1. /\ ListsReadAgain(inv.live) /\ worker' = [Forget EXCEPT ![w] = Resting] /\ UNCHANGED <<dialog, pendingAction>>
        /\ reports' = [reports EXCEPT !.printed = @ \union {worker[w].held}] \/ UNCHANGED reports
    BY DEF PrintReport, Printed
  <1>2. worker[w].held \in Holdings /\ worker[w].held \in reports.registered
    BY DeskParts DEF PrintReport, WorkerFits, WorkerStates
  <1>3. reports' \in [registered : SUBSET Holdings, printed : SUBSET Holdings] /\ reports'.registered = reports.registered
        /\ reports'.printed \subseteq reports.printed \union {worker[w].held}
    BY <1>1, <1>2, DeskParts
  <1>4. PrintedIsRegistered'
    BY <1>2, <1>3, DeskParts DEF PrintedIsRegistered
  <1> QED
    BY <1>1, <1>3, <1>4, RefreshedStep

LEMMA RegisterReportStep ==
  ASSUME DeskInv, NEW w \in Workers, RegisterReport(w)
  PROVE  DeskInv'
  <1> DEFINE rec == IF worker[w].op = "report" THEN [worker[w] EXCEPT !.at = "read"] ELSE worker[w]
  <1>0. worker[w] \in WorkerStates /\ worker[w].at = "post" /\ WorkerFits(w) /\ worker[w].held \in Holdings
    BY DeskParts DEF RegisterReport, WorkerStates
  <1>1. rec \in WorkerStates /\ rec.op = worker[w].op /\ rec.at \in {"post", "read"} /\ rec.row = worker[w].row
        /\ rec.held = worker[w].held
    BY <1>0 DEF WorkerStates
  <1>2. worker' = [worker EXCEPT ![w] = rec] /\ UNCHANGED <<inv, entities, osintRuns, dialog, pendingAction, together>>
        /\ reports' = [reports EXCEPT !.registered = @ \union {worker[w].held}]
    BY DEF RegisterReport
  <1> HIDE DEF rec
  <1>3. /\ reports' \in [registered : SUBSET Holdings, printed : SUBSET Holdings]
        /\ reports'.registered = reports.registered \union {worker[w].held} /\ reports'.printed = reports.printed
    BY <1>0, <1>2, DeskParts
  <1>4. EntitiesTyped' /\ PrintedIsRegistered' /\ ConfirmFits'
    BY <1>2, <1>3, DeskParts DEF EntitiesTyped, PrintedIsRegistered, ConfirmFits
  <1>5. rec.row <= Len(osintRuns) /\ rec.at \notin Stages /\ rec.op \notin {"planner", "entity"}
    BY <1>0, <1>1 DEF WorkerFits, Stages
  <1> QED
    BY <1>0, <1>1, <1>2, <1>3, <1>4, <1>5, DeskParts, OtherWork
(***************************************************************************)
(* The collections.                                                        *)
(***************************************************************************)
LEMMA CollectorParts ==
  ASSUME DeskInv, NEW w \in Workers
  PROVE  /\ worker[w] \in WorkerStates /\ WorkerFits(w) /\ worker[w].row \in Nat /\ worker[w].left \in SUBSET DeskTasks
         /\ (worker[w].at \in Stages) <=> (w \in Collecting)
         /\ (w \in Collecting) <=> (worker[w].op \in {"planner", "entity"})
  BY DeskParts DEF WorkerStates, WorkerFits, Collecting

(* While nothing overlapped, nobody else asks, and the row asked for is last. *)
LEMMA OnlyCollector ==
  ASSUME DeskInv, NEW w \in Collecting, ~together
  PROVE  /\ \A v \in Workers : (v \in Collecting) => (v = w)
         /\ \A i \in 1..Len(osintRuns) : (osintRuns[i].own /\ osintRuns[i].status = "em_execucao") =>
               (Asks(w) /\ worker[w].row = i)
         /\ Asks(w) => HasLastRow(w)
  <1>1. RunsAlone
    BY DEF DeskInv
  <1>2. \A v \in Workers : (v \in Collecting) => (v = w)
    BY <1>1 DEF RunsAlone
  <1>3. ASSUME NEW i \in 1..Len(osintRuns), osintRuns[i].own, osintRuns[i].status = "em_execucao"
        PROVE  Asks(w) /\ worker[w].row = i
    <2>1. PICK v \in Workers : Asks(v) /\ worker[v].row = i
      BY <1>1, <1>3 DEF RunsAlone
    <2>2. v = w
      BY <1>2, <2>1 DEF Asks
    <2> QED
      BY <2>1, <2>2
  <1>4. Asks(w) => HasLastRow(w)
    BY <1>1 DEF RunsAlone, Collecting
  <1> QED
    BY <1>2, <1>3, <1>4

(* What is left to show of a step of a collection.                           *)
LEMMA CollectStep ==
  ASSUME DeskInv, NEW w \in Collecting, NEW rec \in WorkerStates, worker' = [worker EXCEPT ![w] = rec],
         osintRuns' \in Seq(RunRows), Len(osintRuns) <= Len(osintRuns'),
         \A i \in 1..Len(osintRuns) : (osintRuns[i].status = "ok") => (osintRuns'[i].status = "ok"),
         FiledStaysOk', WorkerFits(w)', UNCHANGED <<entities, pendingAction, reports, together>>,
         dialog' \in Dialogs, ConfirmFits',
         ~together => (/\ Asks(w)' => HasLastRow(w)'
                       /\ \A i \in 1..Len(osintRuns') : (osintRuns'[i].own /\ osintRuns'[i].status = "em_execucao") =>
                             (Asks(w)' /\ rec.row = i))
  PROVE  DeskInv'
  <1>0. w \in Workers
    BY DEF Collecting
  <1>1. /\ worker' \in [Workers -> WorkerStates] /\ worker'[w] = rec
        /\ \A v \in Workers : v # w => worker'[v] = worker[v]
    BY <1>0, WorkerReplaced
  <1>2. DeskTyped'
    BY <1>1 DEF DeskInv, DeskTyped
  <1>3. Len(osintRuns) \in Nat /\ Len(osintRuns') \in Nat
    BY DeskParts
  <1>4. \A v \in Workers : WorkerFits(v)'
    BY <1>1, <1>3, OtherWorkersFit
  <1>5. PrintedIsRegistered'
    BY DeskParts DEF PrintedIsRegistered
  <1>6. ~together' => RunsAlone'
    <2> SUFFICES ASSUME ~together PROVE RunsAlone'
      OBVIOUS
    <2>1. \A v \in Workers : (v \in Collecting) => (v = w)
      BY OnlyCollector
    <2>2. \A v \in Workers : (v \in Collecting') => (v = w)
      BY <1>1, <2>1 DEF Collecting
    <2>3. \A u, v \in Collecting' : u = v
      BY <2>2 DEF Collecting
    <2>4. \A v \in Workers : Asks(v)' => HasLastRow(v)'
      BY <2>2 DEF Asks
    <2>5. \A i \in 1..Len(osintRuns') : (osintRuns'[i].own /\ osintRuns'[i].status = "em_execucao") =>
             \E v \in Workers : Asks(v)' /\ worker'[v].row = i
      BY <1>0, <1>1
    <2> QED
      BY <2>3, <2>4, <2>5 DEF RunsAlone
  <1> QED
    BY <1>2, <1>4, <1>5, <1>6 DEF DeskInv

LEMMA PushStep ==
  ASSUME DeskInv, NEW w \in Workers, Push(w)
  PROVE  DeskInv'
  <1>0. w \in Collecting /\ worker[w].at = "next"
    BY CollectorParts DEF Push, Stages
  <1>1. PICK t \in worker[w].left :
         /\ osintRuns' = Append(osintRuns, Running(t))
         /\ worker' = [worker EXCEPT ![w].at = IF Missing(w, t) THEN "missing" ELSE "ask",
                                     ![w].left = @ \ {t},
                                     ![w].row = Len(osintRuns) + 1, ![w].held = t]
    BY DEF Push
  <1> DEFINE rec == [worker[w] EXCEPT !.at = IF Missing(w, t) THEN "missing" ELSE "ask", !.left = @ \ {t},
                                      !.row = Len(osintRuns) + 1, !.held = t]
             n == Len(osintRuns)
  <1>2. osintRuns \in Seq(RunRows) /\ n \in Nat /\ n + 1 \in Nat
    BY DeskParts
  <1>3. t \in DeskTasks /\ t \in Holdings /\ worker[w].left \ {t} \in SUBSET DeskTasks
    BY CollectorParts DEF Holdings
  <1>4. /\ rec \in WorkerStates /\ rec.at \in {"missing", "ask"} /\ rec.row = n + 1 /\ rec.held = t
        /\ rec.op = worker[w].op
    BY <1>2, <1>3, CollectorParts DEF WorkerStates
  <1>5. worker' = [worker EXCEPT ![w] = rec]
    BY <1>1
  <1> HIDE DEF rec
  <1>6. /\ Running(t) \in RunRows /\ Running(t).status = "em_execucao" /\ Running(t).task = t
        /\ Running(t).filed = FALSE
    BY <1>3 DEF Running, RunRows
  <1>7. /\ osintRuns' \in Seq(RunRows) /\ Len(osintRuns') = n + 1 /\ osintRuns'[n + 1] = Running(t)
        /\ \A i \in 1..n : osintRuns'[i] = osintRuns[i]
    BY <1>1, <1>2, <1>6
  <1>8. \A i \in 1..Len(osintRuns') : i = n + 1 \/ i \in 1..n
    BY <1>2, <1>7
  <1>9. FiledStaysOk'
    BY <1>6, <1>7, <1>8, DeskParts DEF FiledStaysOk
  <1>10. worker'[w] = rec
    BY <1>4, <1>5, WorkerReplaced
  <1>11. WorkerFits(w)'
    BY <1>0, <1>2, <1>4, <1>7, <1>10, CollectorParts DEF WorkerFits, Stages
  <1>12. UNCHANGED <<entities, pendingAction, reports, together, dialog>>
    BY DEF Push, OnlyWork
  <1>13. dialog' \in Dialogs /\ ConfirmFits'
    BY <1>12, DeskParts DEF ConfirmFits
  <1>14. Asks(w)' /\ HasLastRow(w)'
    <2>1. Asks(w)'
      BY <1>0, <1>4, <1>10 DEF Asks, Collecting
    <2>2. osintRuns' # <<>>
      BY <1>2, <1>7
    <2> QED
      BY <1>4, <1>6, <1>7, <1>10, <2>1, <2>2 DEF HasLastRow
  <1>15. ASSUME ~together, NEW i \in 1..Len(osintRuns'), osintRuns'[i].own, osintRuns'[i].status = "em_execucao"
         PROVE  Asks(w)' /\ rec.row = i
    <2>1. ~Asks(w)
      BY <1>0 DEF Asks
    <2>2. i \notin 1..n
      BY <1>0, <1>7, <1>15, <2>1, OnlyCollector
    <2> QED
      BY <1>4, <1>8, <1>14, <2>2
  <1>16. Len(osintRuns) <= Len(osintRuns')
    BY <1>2, <1>7
  <1>17. \A i \in 1..Len(osintRuns) : (osintRuns[i].status = "ok") => (osintRuns'[i].status = "ok")
    BY <1>7
  <1> QED
    BY <1>0, <1>4, <1>5, <1>7, <1>9, <1>11, <1>12, <1>13, <1>14, <1>15, <1>16, <1>17, CollectStep

(* The row an error handler marks runs; asked for last, it is the last.      *)
LEMMA RowThatFails ==
  ASSUME DeskInv, NEW w \in Collecting
  PROVE  /\ (FailedRow(w) \in 1..Len(osintRuns)) => (osintRuns[FailedRow(w)].status = "em_execucao")
         /\ HasLastRow(w) => (FailedRow(w) = Len(osintRuns))
  <1> DEFINE n == Len(osintRuns)
             S == {i \in 1..n : osintRuns[i].status = "em_execucao" /\ osintRuns[i].task = worker[w].held}
  <1>0. n \in Nat /\ worker[w].op \in {"planner", "entity"}
    BY DeskParts DEF Collecting
  <1>1. CASE worker[w].op = "planner"
    BY <1>1, <1>0 DEF FailedRow, HasLastRow
  <1>2. CASE worker[w].op = "entity"
    <2>1. FailedRow(w) = LastRunning(worker[w].held)
      BY <1>2 DEF FailedRow
    <2>2. LastRunning(worker[w].held) = IF S = {} THEN 0 ELSE CHOOSE i \in S : \A j \in S : j <= i
      BY DEF LastRunning
    <2>3. CASE S = {}
      <3>1. FailedRow(w) = 0
        BY <2>1, <2>2, <2>3
      <3>2. ~HasLastRow(w)
        <4>1. (osintRuns # <<>>) => (n \in 1..n)
          BY <1>0, DeskParts
        <4> QED
          BY <4>1, <2>3 DEF HasLastRow
      <3> QED
        BY <3>1, <3>2
    <2>4. CASE S # {}
      <3>1. S \in SUBSET Nat /\ \A s \in S : s <= n
        BY <1>0
      <3>2. \E i \in S : \A j \in S : j <= i
        BY <1>0, <2>4, <3>1, LastNumber
      <3>3. FailedRow(w) = CHOOSE i \in S : \A j \in S : j <= i
        BY <2>1, <2>2, <2>4
      <3>4. FailedRow(w) \in S /\ \A j \in S : j <= FailedRow(w)
        BY <3>2, <3>3
      <3>5. HasLastRow(w) => (n \in S)
        <4>1. (osintRuns # <<>>) => (n \in 1..n)
          BY <1>0, DeskParts
        <4> QED
          BY <4>1 DEF HasLastRow
      <3>6. FailedRow(w) \in Nat /\ FailedRow(w) <= n
        BY <3>1, <3>4
      <3>7. (n \in S) => (FailedRow(w) = n)
        BY <1>0, <3>4, <3>6
      <3> QED
        BY <3>4, <3>5, <3>7
    <2> QED
      BY <2>3, <2>4
  <1> QED
    BY <1>0, <1>1, <1>2

(* The worker goes on to the next task.                                      *)
LEMMA GoesOnStep ==
  ASSUME DeskInv, NEW w \in Workers
  PROVE  /\ [worker[w] EXCEPT !.at = "next", !.row = 0, !.held = <<>>] \in WorkerStates
         /\ [worker[w] EXCEPT !.at = "next", !.row = 0, !.held = <<>>].at = "next"
         /\ [worker[w] EXCEPT !.at = "next", !.row = 0, !.held = <<>>].row = 0
         /\ [worker[w] EXCEPT !.at = "next", !.row = 0, !.held = <<>>].op = worker[w].op
  <1>1. <<>> \in Holdings
    BY DEF Holdings
  <1> QED
    BY <1>1, CollectorParts DEF WorkerStates

LEMMA TaskFailsStep ==
  ASSUME DeskInv, NEW w \in Workers, TaskFails(w)
  PROVE  DeskInv'
  <1> DEFINE n == Len(osintRuns)
             k == FailedRow(w)
             mark == [osintRuns[k] EXCEPT !.status = "erro"]
             rec == [worker[w] EXCEPT !.at = "next", !.row = 0, !.held = <<>>]
  <1>0. w \in Collecting
    BY DEF TaskFails
  <1>1. /\ worker' = [worker EXCEPT ![w] = rec]
        /\ osintRuns' = Marked(osintRuns, k, mark)
        /\ UNCHANGED <<entities, pendingAction, reports, together, dialog>>
    BY DEF TaskFails, OnlyWork, Marked
  <1>2. osintRuns \in Seq(RunRows) /\ n \in Nat
    BY DeskParts
  <1>3. (k \in 1..n) => (mark \in RunRows /\ mark.status = "erro" /\ mark.filed = osintRuns[k].filed /\ osintRuns[k].status = "em_execucao")
    <2>1. (k \in 1..n) => (osintRuns[k] \in RunRows)
      BY <1>2
    <2> QED
      BY <1>0, <2>1, RowThatFails DEF RunRows
  <1>4. /\ osintRuns' \in Seq(RunRows) /\ Len(osintRuns') = n
        /\ \A i \in 1..n : osintRuns'[i] = IF i = k THEN mark ELSE osintRuns[i]
    BY <1>1, <1>2, <1>3, RowMarked
  <1>5. rec \in WorkerStates /\ rec.at = "next" /\ rec.row = 0 /\ rec.op = worker[w].op
    BY GoesOnStep
  <1> HIDE DEF rec, mark, k
  <1>6. worker'[w] = rec
    BY <1>1, <1>5, WorkerReplaced
  <1>7. WorkerFits(w)'
    BY <1>0, <1>2, <1>4, <1>5, <1>6, CollectorParts DEF WorkerFits, Stages
  <1>8. \A i \in 1..n : (osintRuns[i].status = "ok") => (osintRuns'[i].status = "ok")
    BY <1>3, <1>4
  <1>9. FiledStaysOk'
    BY <1>3, <1>4, DeskParts DEF FiledStaysOk
  <1>10. dialog' \in Dialogs /\ ConfirmFits'
    BY <1>1, DeskParts DEF ConfirmFits
  <1>11. ~Asks(w)'
    BY <1>5, <1>6 DEF Asks
  <1>12. ASSUME ~together, NEW i \in 1..n, osintRuns'[i].own, osintRuns'[i].status = "em_execucao" PROVE FALSE
    <2>1. i # k
      BY <1>3, <1>4, <1>12
    <2>2. osintRuns'[i] = osintRuns[i]
      BY <1>4, <2>1
    <2>3. Asks(w) /\ worker[w].row = i
      BY <1>0, <1>12, <2>2, OnlyCollector
    <2>4. HasLastRow(w)
      BY <1>0, <1>12, <2>3, OnlyCollector
    <2>5. i = n /\ k = n
      BY <1>0, <2>3, <2>4, RowThatFails DEF HasLastRow, k
    <2> QED
      BY <2>1, <2>5
  <1>13. Len(osintRuns) <= Len(osintRuns')
    BY <1>2, <1>4
  <1> QED
    BY <1>0, <1>1, <1>4, <1>5, <1>7, <1>8, <1>9, <1>10, <1>11, <1>12, <1>13, CollectStep

LEMMA RunAnswersStep ==
  ASSUME DeskInv, NEW w \in Workers, RunAnswers(w)
  PROVE  DeskInv'
  <1> DEFINE n == Len(osintRuns)
             k == worker[w].row
             mark == [osintRuns[k] EXCEPT !.status = "ok"]
             rec == [worker[w] EXCEPT !.at = "file"]
  <1>0. w \in Collecting /\ worker[w].at = "ask"
    BY DEF RunAnswers
  <1>1. /\ worker' = [worker EXCEPT ![w] = rec]
        /\ osintRuns' = Marked(osintRuns, k, mark)
        /\ UNCHANGED <<entities, pendingAction, reports, together, dialog>>
    BY DEF RunAnswers, OnlyWork, Marked
  <1>2. osintRuns \in Seq(RunRows) /\ n \in Nat /\ k \in Nat /\ k <= n
    BY DeskParts, CollectorParts DEF WorkerFits
  <1>3. (k \in 1..n) => (mark \in RunRows /\ mark.status = "ok")
    <2>1. (k \in 1..n) => (osintRuns[k] \in RunRows)
      BY <1>2
    <2> QED
      BY <2>1 DEF RunRows
  <1>4. /\ osintRuns' \in Seq(RunRows) /\ Len(osintRuns') = n
        /\ \A i \in 1..n : osintRuns'[i] = IF i = k THEN mark ELSE osintRuns[i]
    BY <1>1, <1>2, <1>3, RowMarked
  <1>5. rec \in WorkerStates /\ rec.at = "file" /\ rec.row = k /\ rec.op = worker[w].op
    BY CollectorParts DEF WorkerStates
  <1> HIDE DEF rec, mark
  <1>6. worker'[w] = rec
    BY <1>1, <1>5, WorkerReplaced
  <1>7. WorkerFits(w)'
    <2>1. (k # 0) => (k \in 1..n /\ osintRuns'[k].status = "ok")
      BY <1>2, <1>3, <1>4
    <2> QED
      BY <1>0, <1>2, <1>4, <1>5, <1>6, <2>1, CollectorParts DEF WorkerFits, Stages
  <1>8. \A i \in 1..n : (osintRuns[i].status = "ok") => (osintRuns'[i].status = "ok")
    BY <1>3, <1>4
  <1>9. FiledStaysOk'
    <2>1. \A i \in 1..n : (i # k) => (osintRuns'[i] = osintRuns[i])
      BY <1>4
    <2>2. \A i \in 1..n : (i = k) => (osintRuns'[i].status = "ok")
      BY <1>3, <1>4
    <2> QED
      BY <1>4, <2>1, <2>2, DeskParts DEF FiledStaysOk
  <1>10. dialog' \in Dialogs /\ ConfirmFits'
    BY <1>1, DeskParts DEF ConfirmFits
  <1>11. ~Asks(w)'
    BY <1>5, <1>6 DEF Asks
  <1>12. ASSUME ~together, NEW i \in 1..n, osintRuns'[i].own, osintRuns'[i].status = "em_execucao" PROVE FALSE
    <2>1. i # k
      BY <1>3, <1>4, <1>12
    <2>2. osintRuns'[i] = osintRuns[i]
      BY <1>4, <2>1
    <2>3. worker[w].row = i
      BY <1>0, <1>12, <2>2, OnlyCollector
    <2> QED
      BY <2>1, <2>3
  <1>13. Len(osintRuns) <= Len(osintRuns')
    BY <1>2, <1>4
  <1> QED
    BY <1>0, <1>1, <1>4, <1>5, <1>7, <1>8, <1>9, <1>10, <1>11, <1>12, <1>13, CollectStep

LEMMA FindingFiledStep ==
  ASSUME DeskInv, NEW w \in Workers, FindingFiled(w)
  PROVE  DeskInv'
  <1> DEFINE n == Len(osintRuns)
             k == worker[w].row
             mark == [osintRuns[k] EXCEPT !.filed = TRUE]
             rec == [worker[w] EXCEPT !.at = "next", !.row = 0, !.held = <<>>]
  <1>0. w \in Collecting /\ worker[w].at = "file"
    BY DEF FindingFiled
  <1>1. /\ worker' = [worker EXCEPT ![w] = rec]
        /\ osintRuns' = Marked(osintRuns, k, mark)
        /\ UNCHANGED <<entities, pendingAction, reports, together, dialog>>
    BY DEF FindingFiled, OnlyWork, Marked
  <1>2. osintRuns \in Seq(RunRows) /\ n \in Nat /\ k \in Nat
    BY DeskParts, CollectorParts
  <1>3. (k \in 1..n) => (mark \in RunRows /\ mark.status = "ok" /\ mark.own = osintRuns[k].own)
    <2>1. (k \in 1..n) => (osintRuns[k] \in RunRows)
      BY <1>2
    <2>2. (k \in 1..n) => (osintRuns[k].status = "ok")
      <3>1. (k \in 1..n) => (k # 0)
        OBVIOUS
      <3> QED
        BY <1>0, <3>1, CollectorParts DEF WorkerFits
    <2>3. (k \in 1..n) => (mark \in RunRows)
      BY <2>1 DEF RunRows
    <2>4. (k \in 1..n) => (mark.status = osintRuns[k].status /\ mark.own = osintRuns[k].own)
      BY <2>1 DEF RunRows
    <2> QED
      BY <2>2, <2>3, <2>4
  <1> HIDE DEF mark
  <1>4. /\ osintRuns' \in Seq(RunRows) /\ Len(osintRuns') = n
        /\ \A i \in 1..n : osintRuns'[i] = IF i = k THEN mark ELSE osintRuns[i]
    BY <1>1, <1>2, <1>3, RowMarked
  <1>5. rec \in WorkerStates /\ rec.at = "next" /\ rec.row = 0 /\ rec.op = worker[w].op
    BY GoesOnStep
  <1> HIDE DEF rec, k
  <1>6. worker'[w] = rec
    BY <1>1, <1>5, WorkerReplaced
  <1>7. WorkerFits(w)'
    BY <1>0, <1>2, <1>4, <1>5, <1>6, CollectorParts DEF WorkerFits, Stages
  <1>8. \A i \in 1..n : (i # k) => (osintRuns'[i] = osintRuns[i])
    BY <1>4
  <1>9. \A i \in 1..n : (i = k) => (osintRuns'[i].status = "ok")
    BY <1>3, <1>4
  <1>10. FiledStaysOk' /\ \A i \in 1..n : (osintRuns[i].status = "ok") => (osintRuns'[i].status = "ok")
    BY <1>4, <1>8, <1>9, DeskParts DEF FiledStaysOk
  <1>11. dialog' \in Dialogs /\ ConfirmFits'
    BY <1>1, DeskParts DEF ConfirmFits
  <1>12. ~Asks(w)' /\ ~Asks(w)
    BY <1>0, <1>5, <1>6 DEF Asks
  <1>13. ASSUME ~together, NEW i \in 1..n, osintRuns'[i].own, osintRuns'[i].status = "em_execucao" PROVE FALSE
    <2>1. i # k
      BY <1>9, <1>13
    <2>2. osintRuns'[i] = osintRuns[i]
      BY <1>8, <2>1
    <2> QED
      BY <1>0, <1>12, <1>13, <2>2, OnlyCollector
  <1>14. Len(osintRuns) <= Len(osintRuns')
    BY <1>2, <1>4
  <1> QED
    BY <1>0, <1>1, <1>4, <1>5, <1>7, <1>10, <1>11, <1>12, <1>13, <1>14, CollectStep

LEMMA AllTasksDoneStep ==
  ASSUME DeskInv, NEW w \in Workers, AllTasksDone(w)
  PROVE  DeskInv'
  <1>0. w \in Collecting /\ worker[w].at = "next" /\ worker' = [worker EXCEPT ![w] = Resting]
        /\ UNCHANGED <<inv, entities, osintRuns, pendingAction, reports, together>> /\ dialog' = Workspace(dialog.tab)
    BY DEF AllTasksDone
  <1>1. dialog' \in Dialogs /\ ConfirmFits'
    BY <1>0, DeskParts, WorkspaceShown DEF ConfirmFits
  <1>2. worker'[w] = Resting
    BY <1>0, RestingParts, WorkerReplaced
  <1>3. WorkerFits(w)'
    BY <1>0, <1>2, RestingParts, DeskParts DEF WorkerFits, Stages
  <1>4. ~Asks(w)' /\ ~Asks(w)
    BY <1>0, <1>2, RestingParts DEF Asks
  <1>5. ASSUME ~together, NEW i \in 1..Len(osintRuns), osintRuns[i].own, osintRuns[i].status = "em_execucao" PROVE FALSE
    BY <1>0, <1>4, <1>5, OnlyCollector
  <1>6. FiledStaysOk' /\ osintRuns' \in Seq(RunRows) /\ Len(osintRuns) <= Len(osintRuns')
    BY <1>0, DeskParts DEF FiledStaysOk
  <1> QED
    BY <1>0, <1>1, <1>3, <1>4, <1>5, <1>6, RestingParts, CollectStep

LEMMA DeskNextInv ==
  ASSUME DeskInv, [DeskNext]_deskVars \/ [CollectNext]_deskVars \/ [ReportNext]_deskVars
  PROVE  DeskInv'
  <1>1. CASE UNCHANGED deskVars
    <2>1. EntitiesTyped' /\ ConfirmFits' /\ dialog' \in Dialogs /\ pendingAction' \in DeskOperations
      BY <1>1, DeskParts DEF deskVars, EntitiesTyped, ConfirmFits
    <2> QED
      BY <1>1, <2>1, WindowStep DEF deskVars
  <1>2. ASSUME NEW tabs \in SUBSET DeskTabs, Windows(tabs) PROVE DeskInv'
    BY <1>2, WindowSteps DEF Windows
  <1>3. CASE DeskNext
    <2>1. {"overview", "plano", "entidades", "coletas"} \in SUBSET DeskTabs
      BY DEF DeskTabs
    <2>2. CASE ShowRunDetail \/ OpenEntityForm
      BY <2>2, WindowSteps
    <2>3. ASSUME NEW w \in Workers, SaveEntity(w) \/ DeleteInvestigation(w) \/ \E s \in {"concluida"} : UpdateStatus(w, s)
          PROVE  DeskInv'
      <3>1. <<>> \in Holdings /\ <<"concluida">> \in Holdings
        BY DEF Holdings
      <3> QED
        BY <2>3, <3>1, SendsStep DEF SaveEntity, DeleteInvestigation, UpdateStatus
    <2> QED
      BY <1>2, <1>3, <2>1, <2>2, <2>3, OtherRefreshStep, AskConfirmationStep, StatusUpdatedStep, ReadEntityFormStep,
         EntitySavedStep, InvestigationDeletedStep, RequestRefusedStep DEF DeskNext
  <1>4. CASE CollectNext
    <2>1. {"overview", "entidades"} \in SUBSET DeskTabs
      BY DEF DeskTabs
    <2> QED
      BY <1>2, <1>4, <2>1, OtherRefreshStep, AskConfirmationStep, DropEntityStep, ConfirmStep, PushStep, TaskFailsStep,
         RunAnswersStep, FindingFiledStep, AllTasksDoneStep DEF CollectNext
  <1>5. CASE ReportNext
    <2>1. {"overview", "entidades", "relatorio"} \in SUBSET DeskTabs
      BY DEF DeskTabs
    <2> QED
      BY <1>2, <1>5, <2>1, OtherRefreshStep, AskConfirmationStep, DropEntityStep, ConfirmStep, RegisterReportStep,
         PrintReportStep, RequestRefusedStep DEF ReportNext
  <1> QED
    BY <1>1, <1>3, <1>4, <1>5

LEMMA DeskIsSafe ==
  ASSUME DeskInv
  PROVE  DeskSafety
  <1>1. ConfirmsWhatIsShown
    BY DEF DeskInv, ConfirmFits, ConfirmsWhatIsShown
  <1>2. NothingLeftRunning
    BY DEF DeskInv, RunsAlone, Asks, NothingLeftRunning
  <1> QED
    BY <1>1, <1>2 DEF DeskInv, DeskSafety

-----------------------------------------------------------------------------
(***************************************************************************)
(* The forms: whatever the order of choices, the form that is open is one  *)
(* the API takes as soon as its fields are filled in.                      *)
(***************************************************************************)
FormActions == {"saveClient", "saveProcess", "saveDeadline", "saveAppointment", "saveIntimation",
                "saveFinancial", "saveMovement", "confirmLancamentoIntimacao"}
FieldNames == {"name", "document", "number", "title", "date", "content", "description", "amount",
               "deadlineTitle", "deadlineDate", "appointmentTitle", "appointmentDate"}
AllStatuses == UNION {FormStatuses(a) : a \in FormActions}
FormStates == [action : FormActions, known : [Cases -> Customers], filled : SUBSET FieldNames,
               extras : SUBSET {"deadline", "appointment"}, type : {"none", "receita", "despesa"},
               status : AllStatuses, client : Links(Customers), process : Links(Cases)]

\* The client of a record is that of its process, and its status one of its
\* list that fits its type.
FormFits(f) ==
    /\ f \in FormStates
    /\ (f.action \in {"saveAppointment", "saveFinancial"} /\ f.process # NoLink) => (f.client = f.known[f.process])
    /\ f.type \in Types(f.action) /\ f.status \in FormStatuses(f.action) /\ f.status \notin Unfit(f.type)

FormsInv ==
    /\ holder \in [Cases -> Customers]
    /\ form = NoRecordForm \/ FormFits(form)
    /\ form = NoRecordForm \/ display = "none"
    /\ sent = NothingSent \/ (FormFits(sent) /\ Needed(sent) \subseteq sent.filled)
    /\ FormSafety

LEMMA FormsInitInv == FormInit => FormsInv
  <1> SUFFICES ASSUME FormInit PROVE FormsInv
    OBVIOUS
  <1>1. holder \in [Cases -> Customers]
    <2>1. CASE Cases = {}
      BY <2>1 DEF FormInit
    <2>2. CASE Cases # {}
      <3>1. (CHOOSE c \in Customers : TRUE) \in Customers
        BY <2>2, FormAssumption
      <3> QED
        BY <3>1 DEF FormInit
    <2> QED
      BY <2>1, <2>2
  <1>2. form = NoRecordForm /\ sent = NothingSent /\ display = "none"
    BY DEF FormInit
  <1>3. sent.action = "none"
    BY <1>2 DEF NothingSent
  <1>4. LinksAgree /\ StatusFitsType /\ SentIsDated
    BY <1>3 DEF LinksAgree, StatusFitsType, SentIsDated, Out
  <1>5. ShownAsReloaded
    BY <1>2 DEF ShownAsReloaded
  <1> QED
    BY <1>1, <1>2, <1>4, <1>5 DEF FormsInv, FormSafety

(* A step that sends nothing.                                                *)
LEMMA FormStep ==
  ASSUME FormsInv, UNCHANGED sent, holder' \in [Cases -> Customers],
         form' = NoRecordForm \/ FormFits(form'), UNCHANGED display, form' = NoRecordForm \/ form # NoRecordForm
  PROVE  FormsInv'
  <1>1. FormSafety'
    BY DEF FormsInv, FormSafety, LinksAgree, StatusFitsType, SentIsDated, ShownAsReloaded, Out
  <1> QED
    BY <1>1 DEF FormsInv

LEMMA FormParts ==
  ASSUME FormsInv, form.action # "none"
  PROVE  form # NoRecordForm /\ FormFits(form) /\ display = "none" /\ form \in FormStates /\ form.action \in FormActions
  BY DEF FormsInv, NoRecordForm, FormFits, FormStates

LEMMA NoneIsNoForm ==
  NoRecordForm.action = "none"
  BY DEF NoRecordForm

(* What the form was aligned to.                                             *)
LEMMA ClientAligned ==
  ASSUME NEW f \in FormStates
  PROVE  /\ AlignClient(f) \in FormStates
         /\ (f.action \in {"saveAppointment", "saveFinancial"} /\ f.process # NoLink) =>
                (AlignClient(f).client = f.known[f.process])
         /\ AlignClient(f).action = f.action /\ AlignClient(f).known = f.known /\ AlignClient(f).filled = f.filled
         /\ AlignClient(f).type = f.type /\ AlignClient(f).status = f.status /\ AlignClient(f).process = f.process
         /\ AlignClient(f).extras = f.extras
  <1>1. CASE {f.action} \subseteq HasClient \intersect HasProcess /\ f.process # NoLink
    <2>1. AlignClient(f) = [f EXCEPT !.client = f.known[f.process]]
      BY <1>1 DEF AlignClient
    <2>2. f.known[f.process] \in Links(Customers)
      BY <1>1 DEF FormStates, Links
    <2> QED
      BY <2>1, <2>2 DEF FormStates
  <1>2. CASE ~({f.action} \subseteq HasClient \intersect HasProcess /\ f.process # NoLink)
    <2>1. AlignClient(f) = f
      BY <1>2 DEF AlignClient
    <2> QED
      BY <2>1, <1>2 DEF HasClient, HasProcess
  <1> QED
    BY <1>1, <1>2

LEMMA ListsOfStatuses ==
  ASSUME NEW a \in FormActions
  PROVE  /\ FormStatuses(a) \subseteq AllStatuses
         /\ "recebido" \in FormStatuses("saveFinancial") /\ "pago" \in FormStatuses("saveFinancial")
         /\ Types(a) \subseteq {"none", "receita", "despesa"}
         /\ (a # "saveFinancial") => (Types(a) = {"none"})
  BY DEF FormStatuses, AllStatuses, Types, FormActions

LEMMA StatusAligned ==
  ASSUME NEW f \in FormStates, f.type \in Types(f.action), f.status \in FormStatuses(f.action)
  PROVE  /\ AlignStatus(f) \in FormStates
         /\ AlignStatus(f).status \in FormStatuses(f.action) /\ AlignStatus(f).status \notin Unfit(f.type)
         /\ AlignStatus(f).action = f.action /\ AlignStatus(f).known = f.known /\ AlignStatus(f).filled = f.filled
         /\ AlignStatus(f).type = f.type /\ AlignStatus(f).client = f.client /\ AlignStatus(f).process = f.process
         /\ AlignStatus(f).extras = f.extras
  <1>0. f.action \in FormActions
    BY DEF FormStates
  <1>1. CASE f.status \notin Unfit(f.type)
    BY <1>1 DEF AlignStatus
  <1>2. CASE f.status \in Unfit(f.type)
    <2> DEFINE s == IF f.type = "receita" THEN "recebido" ELSE "pago"
    <2>1. f.type \in {"receita", "despesa"}
      BY <1>2 DEF Unfit
    <2>2. f.action = "saveFinancial"
      BY <1>0, <2>1, ListsOfStatuses
    <2>3. s \in FormStatuses(f.action) /\ s \notin Unfit(f.type) /\ s \in AllStatuses
      BY <1>0, <2>1, <2>2, ListsOfStatuses DEF Unfit
    <2>4. AlignStatus(f) = [f EXCEPT !.status = s]
      BY <1>2 DEF AlignStatus
    <2> HIDE DEF s
    <2> QED
      BY <2>3, <2>4 DEF FormStates
  <1> QED
    BY <1>1, <1>2

LEMMA EnhancedFits ==
  ASSUME NEW f \in FormStates, f.type \in Types(f.action), f.status \in FormStatuses(f.action)
  PROVE  FormFits(Enhance(f))
  BY ClientAligned, StatusAligned DEF Enhance, FormFits

LEMMA OpenedStep ==
  ASSUME FormsInv, NEW a \in FormActions, NEW filled \in SUBSET FieldNames, NEW type \in Types(a),
         NEW status \in FormStatuses(a), NEW person \in Links(Customers), NEW suit \in Links(Cases),
         Opened(a, filled, type, status, person, suit)
  PROVE  FormsInv'
  <1> DEFINE f == [action |-> a, known |-> holder, filled |-> filled, extras |-> {}, type |-> type,
                        status |-> status, client |-> person, process |-> suit]
  <1>1. f \in FormStates /\ f.type \in Types(f.action) /\ f.status \in FormStatuses(f.action)
    BY ListsOfStatuses DEF FormStates, FormsInv
  <1>2. form' = Enhance(f) /\ sent' = NothingSent /\ display' = "none" /\ UNCHANGED holder
    BY DEF Opened
  <1> HIDE DEF f
  <1>3. FormFits(form')
    BY <1>1, <1>2, EnhancedFits
  <1>4. sent'.action = "none"
    BY <1>2 DEF NothingSent
  <1>5. LinksAgree' /\ StatusFitsType' /\ SentIsDated' /\ ShownAsReloaded'
    BY <1>2, <1>4 DEF LinksAgree, StatusFitsType, SentIsDated, Out, ShownAsReloaded
  <1> QED
    BY <1>2, <1>3, <1>5 DEF FormsInv, FormSafety

LEMMA OpenSteps ==
  ASSUME FormsInv, \/ OpenClientForm \/ OpenProcessForm \/ OpenDeadlineForm \/ OpenAppointmentForm
                   \/ OpenIntimationForm \/ OpenFinancialForm \/ OpenMovementForm \/ LancarIntimacao
  PROVE  FormsInv'
  <1>0. /\ NoLink \in Links(Customers) /\ NoLink \in Links(Cases) /\ Customers \subseteq Links(Customers)
        /\ Cases \subseteq Links(Cases)
    BY DEF Links
  <1>1. CASE OpenClientForm
    <2>1. "saveClient" \in FormActions /\ "none" \in Types("saveClient") /\ "ativo" \in FormStatuses("saveClient")
          /\ {} \in SUBSET FieldNames /\ {"name", "document"} \in SUBSET FieldNames
      BY DEF FormActions, Types, FormStatuses, FieldNames
    <2> QED
      BY <1>0, <1>1, <2>1, OpenedStep DEF OpenClientForm
  <1>2. CASE OpenProcessForm
    <2>1. "saveProcess" \in FormActions /\ "none" \in Types("saveProcess") /\ "ativo" \in FormStatuses("saveProcess")
          /\ {} \in SUBSET FieldNames /\ {"number"} \in SUBSET FieldNames
      BY DEF FormActions, Types, FormStatuses, FieldNames
    <2> QED
      BY <1>0, <1>2, <2>1, OpenedStep DEF OpenProcessForm
  <1>3. CASE OpenDeadlineForm
    <2>1. "saveDeadline" \in FormActions /\ "none" \in Types("saveDeadline") /\ "pendente" \in FormStatuses("saveDeadline")
          /\ {"date"} \in SUBSET FieldNames /\ {"title", "date"} \in SUBSET FieldNames
      BY DEF FormActions, Types, FormStatuses, FieldNames
    <2> QED
      BY <1>0, <1>3, <2>1, OpenedStep DEF OpenDeadlineForm
  <1>4. CASE OpenAppointmentForm
    <2>1. "saveAppointment" \in FormActions /\ "none" \in Types("saveAppointment")
          /\ "confirmado" \in FormStatuses("saveAppointment") /\ "pendente" \in FormStatuses("saveAppointment")
          /\ {"date"} \in SUBSET FieldNames /\ {"title", "date"} \in SUBSET FieldNames
      BY DEF FormActions, Types, FormStatuses, FieldNames
    <2> QED
      BY <1>0, <1>4, <2>1, OpenedStep DEF OpenAppointmentForm
  <1>5. CASE OpenIntimationForm
    <2>1. "saveIntimation" \in FormActions /\ "none" \in Types("saveIntimation")
          /\ "triagem" \in FormStatuses("saveIntimation")
          /\ {"date"} \in SUBSET FieldNames /\ {"content", "date"} \in SUBSET FieldNames
      BY DEF FormActions, Types, FormStatuses, FieldNames
    <2> QED
      BY <1>0, <1>5, <2>1, OpenedStep DEF OpenIntimationForm
  <1>6. CASE OpenFinancialForm
    <2>1. "saveFinancial" \in FormActions /\ Types("saveFinancial") = {"receita", "despesa"}
          /\ "previsto" \in FormStatuses("saveFinancial")
          /\ {"date"} \in SUBSET FieldNames /\ {"description", "date", "amount"} \in SUBSET FieldNames
      BY DEF FormActions, Types, FormStatuses, FieldNames
    <2> QED
      BY <1>0, <1>6, <2>1, OpenedStep DEF OpenFinancialForm
  <1>7. CASE OpenMovementForm
    <2>1. "saveMovement" \in FormActions /\ "none" \in Types("saveMovement")
          /\ "none" \in FormStatuses("saveMovement")
          /\ {"date"} \in SUBSET FieldNames /\ {"description", "date"} \in SUBSET FieldNames
      BY DEF FormActions, Types, FormStatuses, FieldNames
    <2> QED
      BY <1>0, <1>7, <2>1, OpenedStep DEF OpenMovementForm
  <1>8. CASE LancarIntimacao
    <2>1. "confirmLancamentoIntimacao" \in FormActions /\ "none" \in Types("confirmLancamentoIntimacao")
          /\ "none" \in FormStatuses("confirmLancamentoIntimacao")
          /\ {"description", "date", "deadlineTitle", "appointmentTitle"} \in SUBSET FieldNames
      BY DEF FormActions, Types, FormStatuses, FieldNames
    <2> QED
      BY <1>0, <1>8, <2>1, OpenedStep DEF LancarIntimacao
  <1> QED
    BY <1>1, <1>2, <1>3, <1>4, <1>5, <1>6, <1>7, <1>8

LEMMA FieldsAreNamed ==
  ASSUME NEW f \in FormStates
  PROVE  FieldsOf(f.action) \union UNION {ExtraFields(e) : e \in f.extras} \subseteq FieldNames
  <1>1. FieldsOf(f.action) \subseteq FieldNames
    BY DEF FieldsOf, FieldNames
  <1>2. \A e \in f.extras : ExtraFields(e) \subseteq FieldNames
    BY DEF ExtraFields, FieldNames
  <1> QED
    BY <1>1, <1>2

LEMMA ChangeStep ==
  ASSUME FormsInv, form.action # "none", NEW f, FormFits(f), Change(f)
  PROVE  FormsInv'
  <1>1. form # NoRecordForm
    BY NoneIsNoForm
  <1>2. form' = f /\ UNCHANGED <<holder, sent, display>>
    BY DEF Change
  <1>3. holder' \in [Cases -> Customers]
    BY <1>2 DEF FormsInv
  <1> QED
    BY <1>1, <1>2, <1>3, FormStep

LEMMA FillInStep ==
  ASSUME FormsInv, FillIn
  PROVE  FormsInv'
  <1>1. PICK field \in FieldsOf(form.action) \union UNION {ExtraFields(e) : e \in form.extras} :
          /\ form.action # "none"
          /\ Change([form EXCEPT !.filled = IF field \in @ THEN @ \ {field} ELSE @ \union {field}])
    BY DEF FillIn
  <1> DEFINE f == [form EXCEPT !.filled = IF field \in @ THEN @ \ {field} ELSE @ \union {field}]
  <1>2. FormFits(form) /\ form \in FormStates
    BY <1>1, FormParts
  <1>3. field \in FieldNames
    BY <1>1, <1>2, FieldsAreNamed
  <1>4. f \in FormStates
    BY <1>2, <1>3 DEF FormStates
  <1>5. /\ f.action = form.action /\ f.known = form.known /\ f.type = form.type /\ f.status = form.status
        /\ f.client = form.client /\ f.process = form.process
    BY <1>2 DEF FormStates
  <1>6. Change(f)
    BY <1>1
  <1> HIDE DEF f
  <1>7. FormFits(f)
    BY <1>2, <1>4, <1>5 DEF FormFits
  <1> QED
    BY <1>1, <1>6, <1>7, ChangeStep

LEMMA ChooseStatusStep ==
  ASSUME FormsInv, ChooseStatus
  PROVE  FormsInv'
  <1>1. PICK s \in FormStatuses(form.action) \ Unfit(form.type) : form.action # "none" /\ Change([form EXCEPT !.status = s])
    BY DEF ChooseStatus
  <1> DEFINE f == [form EXCEPT !.status = s]
  <1>2. FormFits(form) /\ form \in FormStates /\ form.action \in FormActions
    BY <1>1, FormParts
  <1>3. s \in AllStatuses
    BY <1>1, <1>2, ListsOfStatuses
  <1>4. f \in FormStates
    BY <1>2, <1>3 DEF FormStates
  <1>5. /\ f.action = form.action /\ f.known = form.known /\ f.type = form.type /\ f.status = s
        /\ f.client = form.client /\ f.process = form.process
    BY <1>2 DEF FormStates
  <1>6. Change(f)
    BY <1>1
  <1> HIDE DEF f
  <1>7. FormFits(f)
    BY <1>1, <1>2, <1>4, <1>5 DEF FormFits
  <1> QED
    BY <1>1, <1>6, <1>7, ChangeStep

LEMMA ChooseTypeStep ==
  ASSUME FormsInv, ChooseType
  PROVE  FormsInv'
  <1>1. PICK t \in Types("saveFinancial") : Change(ChangedType(t))
    BY DEF ChooseType
  <1>0. form.action = "saveFinancial"
    BY DEF ChooseType
  <1> DEFINE f == [form EXCEPT !.type = t]
  <1>2. FormFits(form) /\ form \in FormStates
    BY <1>0, FormParts
  <1>3. t \in {"none", "receita", "despesa"}
    BY DEF Types
  <1>4. f \in FormStates
    BY <1>2, <1>3 DEF FormStates
  <1>5. /\ f.action = form.action /\ f.known = form.known /\ f.type = t /\ f.status = form.status
        /\ f.client = form.client /\ f.process = form.process
    BY <1>2 DEF FormStates
  <1>6. Change(AlignStatus(f))
    BY <1>1 DEF ChangedType
  <1> HIDE DEF f
  <1>7. f.type \in Types(f.action) /\ f.status \in FormStatuses(f.action)
    BY <1>0, <1>2, <1>5 DEF FormFits
  <1>8. FormFits(AlignStatus(f))
    BY <1>2, <1>4, <1>5, <1>7, StatusAligned DEF FormFits
  <1> QED
    BY <1>0, <1>6, <1>8, ChangeStep

LEMMA ChooseClientStep ==
  ASSUME FormsInv, ChooseClient
  PROVE  FormsInv'
  <1>1. PICK c \in Links(Customers) : Change([form EXCEPT !.client = c])
    BY DEF ChooseClient
  <1>0. form.action \in HasClient /\ (form.action \in HasProcess => form.process = NoLink) /\ form.action # "none"
    BY DEF ChooseClient, HasClient
  <1> DEFINE f == [form EXCEPT !.client = c]
  <1>2. FormFits(form) /\ form \in FormStates
    BY <1>0, FormParts
  <1>4. f \in FormStates
    BY <1>1, <1>2 DEF FormStates
  <1>5. /\ f.action = form.action /\ f.known = form.known /\ f.type = form.type /\ f.status = form.status
        /\ f.process = form.process
    BY <1>2 DEF FormStates
  <1>6. Change(f)
    BY <1>1
  <1> HIDE DEF f
  <1>7. FormFits(f)
    BY <1>0, <1>2, <1>4, <1>5 DEF FormFits, HasProcess
  <1> QED
    BY <1>0, <1>6, <1>7, ChangeStep

LEMMA ChooseProcessStep ==
  ASSUME FormsInv, ChooseProcess
  PROVE  FormsInv'
  <1>1. PICK p \in Links(Cases) : Change(AlignClient([form EXCEPT !.process = p]))
    BY DEF ChooseProcess, Links
  <1>0. form.action # "none"
    BY DEF ChooseProcess, HasProcess
  <1> DEFINE f == [form EXCEPT !.process = p]
  <1>2. FormFits(form) /\ form \in FormStates
    BY <1>0, FormParts
  <1>4. f \in FormStates
    BY <1>1, <1>2 DEF FormStates
  <1>5. /\ f.action = form.action /\ f.known = form.known /\ f.type = form.type /\ f.status = form.status
    BY <1>2 DEF FormStates
  <1>6. Change(AlignClient(f))
    BY <1>1
  <1> HIDE DEF f
  <1>7. FormFits(AlignClient(f))
    BY <1>2, <1>4, <1>5, ClientAligned DEF FormFits
  <1> QED
    BY <1>0, <1>6, <1>7, ChangeStep

LEMMA ToggleExtraStep ==
  ASSUME FormsInv, ToggleExtra
  PROVE  FormsInv'
  <1>1. PICK e \in {"deadline", "appointment"} :
          Change([form EXCEPT !.extras = IF e \in @ THEN @ \ {e} ELSE @ \union {e}])
    BY DEF ToggleExtra
  <1>0. form.action # "none"
    BY DEF ToggleExtra
  <1> DEFINE f == [form EXCEPT !.extras = IF e \in @ THEN @ \ {e} ELSE @ \union {e}]
  <1>2. FormFits(form) /\ form \in FormStates
    BY <1>0, FormParts
  <1>4. f \in FormStates
    BY <1>1, <1>2 DEF FormStates
  <1>5. /\ f.action = form.action /\ f.known = form.known /\ f.type = form.type /\ f.status = form.status
        /\ f.client = form.client /\ f.process = form.process
    BY <1>2 DEF FormStates
  <1>6. Change(f)
    BY <1>1
  <1> HIDE DEF f
  <1>7. FormFits(f)
    BY <1>2, <1>4, <1>5 DEF FormFits
  <1> QED
    BY <1>0, <1>6, <1>7, ChangeStep

(***************************************************************************)
(* The words of a status, there and back.                                  *)
(***************************************************************************)
LEMMA TranslatedTo ==
  ASSUME NEW W, NEW w \in W, \A v \in W : (v[1] = w[1] /\ v[2] = w[2]) => v = w
  PROVE  Translated(W, w[1], w[2]) = w[3]
  <1>1. \E v \in W : v[1] = w[1] /\ v[2] = w[2]
    OBVIOUS
  <1>2. (CHOOSE v \in W : v[1] = w[1] /\ v[2] = w[2]) = w
    BY <1>1
  <1> QED
    BY <1>1, <1>2 DEF Translated

LEMMA BackTo ==
  ASSUME NEW W, NEW w \in W, \A v \in W : (v[1] = w[1] /\ v[3] = w[3]) => v = w
  PROVE  Back(W, w[1], w[3]) = w[2]
  <1>1. \E v \in W : v[1] = w[1] /\ v[3] = w[3]
    OBVIOUS
  <1>2. (CHOOSE v \in W : v[1] = w[1] /\ v[3] = w[3]) = w
    BY <1>1
  <1> QED
    BY <1>1, <1>2 DEF Back

LEMMA NotTranslated ==
  ASSUME NEW W, NEW a, NEW s
  PROVE  /\ (\A v \in W : ~(v[1] = a /\ v[2] = s)) => (Translated(W, a, s) = s)
         /\ (\A v \in W : ~(v[1] = a /\ v[3] = s)) => (Back(W, a, s) = s)
  BY DEF Translated, Back

LEMMA WordsAreUnique ==
  /\ \A v, w \in Words : (v[1] = w[1] /\ v[2] = w[2]) => v = w
  /\ \A v, w \in Words \union FinancialWords : (v[1] = w[1] /\ v[3] = w[3]) => v = w
  /\ \A v, w \in FinancialWords : (v[1] = w[1] /\ v[2] = w[2]) => v = w
  BY DEF Words, FinancialWords

LEMMA WordsOfForms ==
  /\ \A a \in {"saveDeadline", "saveIntimation", "saveAppointment"} : \A s \in FormStatuses(a) :
        \E w \in Words : w[1] = a /\ w[2] = s
  /\ \A s \in FormStatuses("saveFinancial") : \E w \in FinancialWords : w[1] = "saveFinancial" /\ w[2] = s
  /\ \A w \in Words : w[1] \in {"saveDeadline", "saveIntimation", "saveAppointment"}
  /\ \A w \in FinancialWords : w[1] = "saveFinancial"
  BY DEF Words, FinancialWords, FormStatuses

(* What is shown is what a reload shows.                                      *)
LEMMA ShownIsReloaded ==
  ASSUME NEW a \in FormActions, NEW s \in FormStatuses(a)
  PROVE  ShownStatus(a, s, ApiStatus(a, s)) = Back(Words \union FinancialWords, a, ApiStatus(a, s))
  <1> DEFINE W == Words \union FinancialWords
  <1>1. CASE a \in {"saveDeadline", "saveIntimation", "saveAppointment"}
    <2>1. PICK w \in Words : w[1] = a /\ w[2] = s
      BY <1>1, WordsOfForms
    <2>2. MapApiStatus(a, s) = w[3]
      BY <2>1, WordsAreUnique, TranslatedTo DEF MapApiStatus
    <2>3. ApiStatus(a, s) = w[3]
      <3>1. \A v \in FinancialWords : ~(v[1] = a /\ v[2] = w[3])
        BY <1>1, WordsOfForms
      <3> QED
        BY <2>2, <3>1, NotTranslated DEF ApiStatus
    <2>4. Back(W, a, w[3]) = s
      <3>1. w \in W /\ \A v \in W : (v[1] = w[1] /\ v[3] = w[3]) => v = w
        BY <2>1, WordsAreUnique
      <3> HIDE DEF W
      <3> QED
        BY <2>1, <3>1, BackTo
    <2>5. Back(Words, a, w[3]) = s
      <3>1. \A v \in Words : (v[1] = w[1] /\ v[3] = w[3]) => v = w
        BY <2>1, WordsAreUnique
      <3> QED
        BY <2>1, <3>1, BackTo
    <2> QED
      BY <2>3, <2>4, <2>5 DEF ShownStatus
  <1>2. CASE a = "saveFinancial"
    <2>1. PICK w \in FinancialWords : w[1] = a /\ w[2] = s
      BY <1>2, WordsOfForms
    <2>2. MapApiStatus(a, s) = s
      <3>1. \A v \in Words : ~(v[1] = a /\ v[2] = s)
        BY <1>2, WordsOfForms
      <3> QED
        BY <3>1, NotTranslated DEF MapApiStatus
    <2>3. ApiStatus(a, s) = w[3]
      BY <2>1, <2>2, WordsAreUnique, TranslatedTo DEF ApiStatus
    <2>4. Back(W, a, w[3]) = s
      <3>1. w \in W /\ \A v \in W : (v[1] = w[1] /\ v[3] = w[3]) => v = w
        BY <2>1, WordsAreUnique
      <3> HIDE DEF W
      <3> QED
        BY <2>1, <3>1, BackTo
    <2> QED
      BY <1>2, <2>3, <2>4 DEF ShownStatus
  <1>3. CASE a \notin {"saveDeadline", "saveIntimation", "saveAppointment", "saveFinancial"}
    <2>1. (\A v \in Words : v[1] # a) /\ (\A v \in FinancialWords : v[1] # a)
      BY <1>3, WordsOfForms
    <2>2. ApiStatus(a, s) = s
      BY <2>1, NotTranslated DEF ApiStatus, MapApiStatus
    <2>3. Back(W, a, s) = s
      BY <2>1, NotTranslated
    <2> QED
      BY <1>3, <2>2, <2>3 DEF ShownStatus
  <1> QED
    BY <1>1, <1>2, <1>3

(***************************************************************************)
(* The saves.                                                              *)
(***************************************************************************)
LEMMA SaveStep ==
  ASSUME FormsInv, NEW a \in FormActions, NEW status \in FormStatuses(a), Save(a, status),
         status \notin Unfit(form.type), (a = "saveIntimation" /\ form.process # NoLink) => (status # "triagem")
  PROVE  FormsInv'
  <1>0. form.action = a /\ form.action # "none"
    BY DEF Save, FormActions
  <1>1. FormFits(form) /\ form \in FormStates /\ display = "none"
    BY <1>0, FormParts
  <1>2. /\ Needed(form) \subseteq form.filled /\ sent' = [form EXCEPT !.status = status] /\ UNCHANGED holder
        /\ \/ form' = NoRecordForm /\ display' = ShownStatus(a, status, ApiStatus(a, status))
           \/ UNCHANGED <<form, display>>
    BY DEF Save
  <1>3. /\ sent' \in FormStates /\ sent'.action = a /\ sent'.status = status /\ sent'.type = form.type
        /\ sent'.known = form.known /\ sent'.client = form.client /\ sent'.process = form.process
        /\ sent'.filled = form.filled /\ sent'.extras = form.extras
    <2>1. status \in AllStatuses
      BY ListsOfStatuses
    <2> QED
      BY <1>0, <1>1, <1>2, <2>1 DEF FormStates
  <1>4. FormFits(sent')
    BY <1>0, <1>1, <1>3 DEF FormFits
  <1>5. Needed(sent') \subseteq sent'.filled
    BY <1>0, <1>2, <1>3 DEF Needed
  <1>6. LinksAgree'
    BY <1>3, <1>4 DEF LinksAgree, Out, FormFits
  <1>7. StatusFitsType'
    <2>1. (a = "saveFinancial") => (<<sent'.type, sent'.status>> \notin {<<"receita", "pago">>, <<"despesa", "recebido">>})
      BY <1>3 DEF Unfit
    <2> QED
      BY <1>3, <2>1 DEF StatusFitsType, Out
  <1>8. SentIsDated'
    <2>1. a \in {"saveDeadline", "saveAppointment", "saveIntimation", "saveFinancial", "saveMovement"} => "date" \in Needed(sent')
      BY <1>3 DEF Needed, Required, FieldsOf
    <2>2. /\ "deadline" \in sent'.extras => "deadlineDate" \in Needed(sent')
          /\ "appointment" \in sent'.extras => "appointmentDate" \in Needed(sent')
      BY DEF Needed, ExtraFields
    <2> QED
      BY <1>3, <1>5, <2>1, <2>2 DEF SentIsDated, Out
  <1>9. ShownAsReloaded'
    BY <1>1, <1>2, <1>3, ShownIsReloaded DEF ShownAsReloaded
  <1>10. form' = NoRecordForm \/ (FormFits(form') /\ display' = "none")
    BY <1>1, <1>2
  <1>11. holder' \in [Cases -> Customers]
    BY <1>2 DEF FormsInv
  <1> QED
    BY <1>4, <1>5, <1>6, <1>7, <1>8, <1>9, <1>10, <1>11 DEF FormsInv, FormSafety

LEMMA SaveSteps ==
  ASSUME FormsInv, \/ SaveClient \/ SaveProcess \/ SaveDeadline \/ SaveAppointment
                   \/ SaveIntimation \/ SaveFinancial \/ SaveMovement \/ ConfirmLaunch
  PROVE  FormsInv'
  <1>1. ASSUME NEW a \in FormActions, a # "saveIntimation", Save(a, form.status) PROVE FormsInv'
    <2>1. form.action = a /\ form.action # "none"
      BY <1>1 DEF Save, FormActions
    <2>2. form.status \in FormStatuses(a) /\ form.status \notin Unfit(form.type)
      BY <2>1, FormParts DEF FormFits
    <2> QED
      BY <1>1, <2>2, SaveStep
  <1>2. ASSUME NEW a \in {"saveMovement", "confirmLancamentoIntimacao"}, Save(a, "none") PROVE FormsInv'
    <2>1. form.action = a /\ form.action # "none" /\ a \in FormActions
      BY <1>2 DEF Save, FormActions
    <2>2. form.type \in Types(a)
      BY <2>1, FormParts DEF FormFits
    <2>3. "none" \in FormStatuses(a) /\ "none" \notin Unfit(form.type)
      BY <2>2 DEF FormStatuses, Unfit
    <2> QED
      BY <1>2, <2>1, <2>3, SaveStep
  <1>3. CASE SaveIntimation
    <2> DEFINE s == IF form.process # NoLink /\ form.status = "triagem" THEN "associada" ELSE form.status
    <2>1. form.action = "saveIntimation" /\ Save("saveIntimation", s) /\ "saveIntimation" \in FormActions
      BY <1>3 DEF SaveIntimation, FormActions
    <2>2. FormFits(form)
      BY <2>1, FormParts
    <2>3. form.type = "none" /\ form.status \in FormStatuses("saveIntimation")
      BY <2>1, <2>2 DEF FormFits, Types
    <2>4. s \in FormStatuses("saveIntimation") /\ s \notin Unfit(form.type) /\ (form.process # NoLink => s # "triagem")
      BY <2>3 DEF FormStatuses, Unfit
    <2> HIDE DEF s
    <2> QED
      BY <2>1, <2>4, SaveStep
  <1>4. {"saveClient", "saveProcess", "saveDeadline", "saveAppointment", "saveFinancial"} \subseteq FormActions
    BY DEF FormActions
  <1> QED
    BY <1>1, <1>2, <1>3, <1>4 DEF SaveClient, SaveProcess, SaveDeadline, SaveAppointment, SaveFinancial, SaveMovement, ConfirmLaunch

LEMMA FormsNextInv ==
  ASSUME FormsInv, [FormNext]_recordFormVars
  PROVE  FormsInv'
  <1>1. CASE UNCHANGED recordFormVars
    <2>1. FormSafety'
      BY <1>1 DEF recordFormVars, FormsInv, FormSafety, LinksAgree, StatusFitsType, SentIsDated, ShownAsReloaded, Out
    <2> QED
      BY <1>1, <2>1 DEF FormsInv, recordFormVars
  <1>2. CASE LeaveForm
    <2>1. form' = NoRecordForm /\ UNCHANGED <<holder, sent, display>>
      BY <1>2 DEF LeaveForm
    <2>2. holder' \in [Cases -> Customers]
      BY <2>1 DEF FormsInv
    <2> QED
      BY <2>1, <2>2, FormStep
  <1>3. CASE RecordsChange
    <2>1. PICK p \in Cases, c \in Customers : holder' = [holder EXCEPT ![p] = c] /\ UNCHANGED <<form, sent, display>>
      BY <1>3 DEF RecordsChange
    <2>2. holder' \in [Cases -> Customers]
      BY <2>1 DEF FormsInv
    <2>3. FormSafety'
      BY <2>1 DEF FormsInv, FormSafety, LinksAgree, StatusFitsType, SentIsDated, ShownAsReloaded, Out
    <2> QED
      BY <2>1, <2>2, <2>3 DEF FormsInv
  <1>4. CASE FormNext
    BY <1>2, <1>3, <1>4, OpenSteps, FillInStep, ChooseStatusStep, ChooseTypeStep, ChooseClientStep, ChooseProcessStep,
       ToggleExtraStep, SaveSteps DEF FormNext
  <1> QED
    BY <1>1, <1>4

-----------------------------------------------------------------------------
(* The workspace: the copies of the records, and the operations that change them. *)

(* The place of an id in a list.                                               *)
LEMMA IndexIs ==
  ASSUME NEW S, NEW s \in Seq(S), NEW id
  PROVE  \/ Index(s, id) = 0 /\ \A i \in 1..Len(s) : s[i].id # id
         \/ Index(s, id) \in 1..Len(s) /\ s[Index(s, id)].id = id
  <1> DEFINE I == {i \in 1..Len(s) : s[i].id = id}
  <1>1. Index(s, id) = IF I # {} THEN Min(I) ELSE 0
    BY DEF Index, SelectInSeq
  <1>2. CASE I = {}
    BY <1>1, <1>2
  <1>3. CASE I # {}
    <2>1. I \in SUBSET Nat
      OBVIOUS
    <2>2. \E t \in I : \A u \in I : t <= u
      BY <2>1, <1>3, LeastNumber
    <2>3. Min(I) \in I
      BY <2>2 DEF Min
    <2> QED
      BY <1>1, <1>3, <2>3
  <1> QED
    BY <1>2, <1>3

(* A list of which one record is replaced, added or taken away.                *)
LEMMA ReplacedAt ==
  ASSUME NEW S, NEW s \in Seq(S), NEW i \in 1..Len(s), NEW r \in S
  PROVE  /\ ReplaceAt(s, i, r) \in Seq(S) /\ Len(ReplaceAt(s, i, r)) = Len(s)
         /\ \A j \in 1..Len(s) : ReplaceAt(s, i, r)[j] = IF j = i THEN r ELSE s[j]
  BY DEF ReplaceAt

LEMMA RemovedAt ==
  ASSUME NEW S, NEW s \in Seq(S), NEW i \in 1..Len(s)
  PROVE  /\ RemoveAt(s, i) \in Seq(S) /\ Len(RemoveAt(s, i)) = Len(s) - 1
         /\ \A j \in 1..(Len(s) - 1) : RemoveAt(s, i)[j] = IF j < i THEN s[j] ELSE s[j + 1]
  <1> DEFINE a == SubSeq(s, 1, i - 1)
             b == SubSeq(s, i + 1, Len(s))
  <1>1. a \in Seq(S) /\ Len(a) = i - 1 /\ \A j \in 1..(i - 1) : a[j] = s[j]
    OBVIOUS
  <1>2. b \in Seq(S) /\ Len(b) = Len(s) - i /\ \A j \in 1..(Len(s) - i) : b[j] = s[i + j]
    OBVIOUS
  <1>3. RemoveAt(s, i) = a \o b
    BY DEF RemoveAt
  <1> HIDE DEF a, b
  <1>4. a \o b \in Seq(S) /\ Len(a \o b) = Len(s) - 1
    <2>0. a \in Seq(S) /\ b \in Seq(S)
      BY <1>1, <1>2
    <2>4. a \o b \in Seq(S)
      BY <2>0
    <2>1. a \o b \in Seq(S) /\ Len(a \o b) = Len(a) + Len(b)
      BY <2>0, <2>4
    <2>2. Len(s) \in Nat
      OBVIOUS
    <2>3. (i - 1) + (Len(s) - i) = Len(s) - 1
      BY <2>2
    <2> QED
      BY <1>1, <1>2, <2>1, <2>3
  <1>5. ASSUME NEW j \in 1..(Len(s) - 1) PROVE (a \o b)[j] = IF j < i THEN s[j] ELSE s[j + 1]
    <2>1. CASE j < i
      BY <1>1, <1>2, <2>1
    <2>2. CASE ~(j < i)
      <3>1. (a \o b)[j] = b[j - (i - 1)] /\ j - (i - 1) \in 1..(Len(s) - i)
        BY <1>1, <1>2, <2>2
      <3> QED
        BY <1>2, <2>2, <3>1
    <2> QED
      BY <2>1, <2>2
  <1> QED
    BY <1>3, <1>4, <1>5

(* A list of the records of c, without one missing or repeated.                *)
RecordContents == [text : Nat, done : BOOLEAN]
DbRecords == [id : Nat, text : Nat, done : BOOLEAN]
Lists(s, c) ==
    /\ s \in Seq(DbRecords)
    /\ \A i \in 1..Len(s) : /\ s[i].id \in 1..MaxId /\ c[s[i].id] # Absent
                            /\ s[i] = Record(s[i].id, c[s[i].id])
    /\ \A i, j \in 1..Len(s) : (s[i].id = s[j].id) => (i = j)
    /\ \A id \in 1..MaxId : (c[id] # Absent) => (\E i \in 1..Len(s) : s[i].id = id)

\* The list has the records that are stored, each once.
LEMMA ListsAll ==
  ASSUME NEW k \in Collections, NEW s, Lists(s, api[k])
  PROVE  /\ ToSet(s) = StoredRecords(k) /\ Len(s) = Cardinality(Stored(k))
  <1> DEFINE ids == [i \in 1..Len(s) |-> s[i].id]
             S == Stored(k)
             n == Len(s)
  <1>0. n \in Nat /\ s \in Seq(DbRecords) /\ DOMAIN s = 1..n
    BY DEF Lists
  <1>1. \A i \in 1..n : s[i].id \in S /\ s[i] = Record(s[i].id, api[k][s[i].id])
    BY DEF Lists, Stored
  <1>2. \A x \in S : \E i \in 1..n : s[i].id = x
    BY DEF Lists, Stored
  <1>3. ToSet(s) = StoredRecords(k)
    <2>1. \A i \in 1..n : s[i] \in StoredRecords(k)
      BY <1>1 DEF StoredRecords
    <2>2. \A r \in StoredRecords(k) : \E i \in 1..n : s[i] = r
      <3> SUFFICES ASSUME NEW x \in S PROVE \E i \in 1..n : s[i] = Record(x, api[k][x])
        BY DEF StoredRecords
      <3> QED
        BY <1>1, <1>2
    <2> QED
      BY <1>0, <2>1, <2>2 DEF ToSet
  <1>4. ids \in Bijection(1..n, S)
    <2>1. ids \in [1..n -> S] /\ \A i \in 1..n : ids[i] = s[i].id
      BY <1>1
    <2>2. \A i, j \in 1..n : (s[i].id = s[j].id) => (i = j)
      BY DEF Lists
    <2> HIDE DEF ids, n, S
    <2> QED
      BY <1>2, <2>1, <2>2 DEF Bijection, Injection, Surjection, IsInjective
  <1>5. Cardinality(S) = n
    <2> HIDE DEF n
    <2>1. IsFiniteSet(1..n) /\ Cardinality(1..n) = n
      <3>1. n \in Int /\ 1 \in Int
        BY <1>0
      <3>2. IsFiniteSet(1..n) /\ Cardinality(1..n) = IF 1 > n THEN 0 ELSE n - 1 + 1
        BY <3>1, FS_Interval
      <3> QED
        BY <1>0, <3>2
    <2>2. ExistsBijection(1..n, S)
      BY <1>4 DEF ExistsBijection
    <2> QED
      BY <2>1, <2>2, FS_Bijection
  <1> QED
    BY <1>3, <1>5

LEMMA ListedLists ==
  ASSUME NEW k \in Collections, api \in [Collections -> [1..MaxId -> RecordContents]]
  PROVE  Lists(Listed(k), api[k])
  <1> DEFINE S == StoredRecords(k)
             n == Cardinality(S)
             t == Listed(k)
  <1>1. IsFiniteSet(S)
    <2>1. IsFiniteSet(Stored(k))
      <3>1. IsFiniteSet(1..MaxId)
        BY FS_Interval, WorkspaceAssumption
      <3>2. Stored(k) \subseteq 1..MaxId
        BY DEF Stored
      <3> QED
        BY <3>1, <3>2, FS_Subset
    <2> DEFINE f == [id \in Stored(k) |-> Record(id, api[k][id])]
    <2>2. f \in Surjection(Stored(k), S)
      BY DEF StoredRecords, Surjection
    <2> HIDE DEF S, f
    <2> QED
      BY <2>1, <2>2, FS_Surjection
  <1>2. n \in Nat /\ ExistsBijection(1..n, S)
    BY <1>1, FS_CardinalityType
  <1> HIDE DEF S, n
  <1>3. \E f \in [1..n -> S] : IsInjective(f)
    BY <1>2 DEF ExistsBijection, Bijection, Injection
  <1>4. t \in [1..n -> S] /\ IsInjective(t)
    BY <1>3 DEF Listed, SetToSeq, S, n
  <1> HIDE DEF t
  <1>5. t \in Surjection(1..n, S)
    <2>1. t \in Injection(1..n, S)
      BY <1>4 DEF Injection
    <2>2. IsFiniteSet(1..n) /\ Cardinality(1..n) = Cardinality(S)
      BY <1>1, <1>2, FS_Bijection, FS_Interval DEF n
    <2> QED
      BY <1>1, <2>1, <2>2, FS_Injection
  <1>6. \A r \in S : r.id \in Stored(k) /\ r = Record(r.id, api[k][r.id]) /\ r \in DbRecords
    <2> SUFFICES ASSUME NEW id \in Stored(k)
                 PROVE  Record(id, api[k][id]).id = id /\ Record(id, api[k][id]) \in DbRecords
      BY DEF S, StoredRecords
    <2>1. id \in Nat /\ api[k][id] \in RecordContents
      BY WorkspaceAssumption DEF Stored
    <2> QED
      BY <2>1 DEF Record, DbRecords, RecordContents
  <1>7. \A id \in Stored(k) : Record(id, api[k][id]) \in S /\ Record(id, api[k][id]).id = id
    BY DEF S, StoredRecords, Record
  <1>8. t \in Seq(DbRecords) /\ Len(t) = n
    BY <1>2, <1>4, <1>6
  <1>9. \A i \in 1..n : t[i] \in S
    BY <1>4
  <1>10. \A i, j \in 1..n : (t[i].id = t[j].id) => (i = j)
    <2> SUFFICES ASSUME NEW i \in 1..n, NEW j \in 1..n, t[i].id = t[j].id PROVE i = j
      OBVIOUS
    <2>1. t[i] = t[j]
      BY <1>6, <1>9
    <2> QED
      BY <1>4, <2>1 DEF IsInjective
  <1>11. \A id \in 1..MaxId : (api[k][id] # Absent) => (\E i \in 1..n : t[i].id = id)
    <2> SUFFICES ASSUME NEW id \in Stored(k) PROVE \E i \in 1..n : t[i].id = id
      BY DEF Stored
    <2>1. PICK i \in 1..n : t[i] = Record(id, api[k][id])
      BY <1>5, <1>7 DEF Surjection
    <2> QED
      BY <1>7, <2>1
  <1>12. \A i \in 1..n : t[i].id \in 1..MaxId /\ api[k][t[i].id] # Absent /\ t[i] = Record(t[i].id, api[k][t[i].id])
    BY <1>6, <1>9 DEF Stored
  <1>13. Lists(t, api[k])
    BY <1>8, <1>10, <1>11, <1>12 DEF Lists
  <1> QED
    BY <1>13 DEF t

(* What a create, an update and a delete make of a list of the records.        *)
LEMMA ListsCreate ==
  ASSUME NEW c \in [1..MaxId -> RecordContents], NEW s, Lists(s, c), NEW id \in 1..MaxId, NEW x \in RecordContents,
         x # Absent, c[id] = Absent
  PROVE  Lists(Append(s, Record(id, x)), [c EXCEPT ![id] = x])
  <1> DEFINE t == Append(s, Record(id, x))
             d == [c EXCEPT ![id] = x]
             n == Len(s)
  <1>1. s \in Seq(DbRecords) /\ n \in Nat
    BY DEF Lists
  <1>2. Record(id, x) \in DbRecords /\ Record(id, x).id = id
    BY WorkspaceAssumption DEF Record, DbRecords, RecordContents
  <1>3. /\ t \in Seq(DbRecords) /\ Len(t) = n + 1 /\ t[n + 1] = Record(id, x)
        /\ \A i \in 1..n : t[i] = s[i]
    BY <1>1, <1>2
  <1>4. d[id] = x /\ \A j \in 1..MaxId : (j # id) => (d[j] = c[j])
    OBVIOUS
  <1>5. \A i \in 1..n : /\ s[i].id \in 1..MaxId /\ c[s[i].id] # Absent /\ s[i].id # id
                        /\ s[i] = Record(s[i].id, c[s[i].id])
    BY WorkspaceAssumption DEF Lists
  <1> HIDE DEF t, d, n
  <1>6. \A i \in 1..Len(t) : /\ t[i].id \in 1..MaxId /\ d[t[i].id] # Absent
                             /\ t[i] = Record(t[i].id, d[t[i].id])
    <2> SUFFICES ASSUME NEW i \in 1..Len(t)
                 PROVE t[i].id \in 1..MaxId /\ d[t[i].id] # Absent /\ t[i] = Record(t[i].id, d[t[i].id])
      OBVIOUS
    <2>1. CASE i = n + 1
      BY <2>1, <1>2, <1>3, <1>4
    <2>2. CASE i \in 1..n
      BY <2>2, <1>3, <1>4, <1>5
    <2> QED
      BY <1>1, <1>3, <2>1, <2>2
  <1>7. \A i, j \in 1..Len(t) : (t[i].id = t[j].id) => (i = j)
    <2>1. \A i, j \in 1..n : (s[i].id = s[j].id) => (i = j)
      BY DEF Lists, n
    <2>2. \A i \in 1..Len(t) : i = n + 1 \/ i \in 1..n
      BY <1>1, <1>3
    <2>3. t[n + 1].id = id /\ \A i \in 1..n : t[i].id = s[i].id /\ t[i].id # id
      BY <1>2, <1>3, <1>5
    <2> QED
      BY <2>1, <2>2, <2>3
  <1>8. \A y \in 1..MaxId : (d[y] # Absent) => (\E i \in 1..Len(t) : t[i].id = y)
    <2> SUFFICES ASSUME NEW y \in 1..MaxId, d[y] # Absent PROVE \E i \in 1..Len(t) : t[i].id = y
      OBVIOUS
    <2>1. CASE y = id
      <3>1. n + 1 \in 1..Len(t)
        BY <1>1, <1>3
      <3> QED
        BY <2>1, <3>1, <1>2, <1>3
    <2>2. CASE y # id
      <3>1. PICK i \in 1..n : s[i].id = y
        BY <2>2, <1>4 DEF Lists, n
      <3>2. i \in 1..Len(t)
        BY <1>1, <1>3
      <3> QED
        BY <3>1, <3>2, <1>3
    <2> QED
      BY <2>1, <2>2
  <1>9. Lists(t, d)
    BY <1>3, <1>6, <1>7, <1>8 DEF Lists
  <1> QED
    BY <1>9 DEF t, d

LEMMA ListsUpdate ==
  ASSUME NEW c \in [1..MaxId -> RecordContents], NEW s, Lists(s, c), NEW id \in 1..MaxId, NEW x \in RecordContents,
         x # Absent, c[id] # Absent
  PROVE  Lists(DbUpdate(s, Record(id, x)), [c EXCEPT ![id] = x])
  <1> DEFINE r == Record(id, x)
             p == Index(s, id)
             t == ReplaceAt(s, p, r)
             d == [c EXCEPT ![id] = x]
             n == Len(s)
  <1>1. s \in Seq(DbRecords) /\ n \in Nat
    BY DEF Lists
  <1>2. r \in DbRecords /\ r.id = id
    BY WorkspaceAssumption DEF Record, DbRecords, RecordContents
  <1>3. p \in 1..n /\ s[p].id = id
    <2>1. \E i \in 1..n : s[i].id = id
      BY DEF Lists
    <2> QED
      BY <1>1, <2>1, IndexIs
  <1>4. d[id] = x /\ \A j \in 1..MaxId : (j # id) => (d[j] = c[j])
    OBVIOUS
  <1>5. DbUpdate(s, r) = t
    BY <1>1, <1>2, <1>3 DEF DbUpdate
  <1>6. t \in Seq(DbRecords) /\ Len(t) = n /\ \A j \in 1..n : t[j] = IF j = p THEN r ELSE s[j]
    <2> HIDE DEF r, p
    <2> QED BY <1>1, <1>2, <1>3, ReplacedAt
  <1> HIDE DEF t, d, n, r, p
  <1>7. \A j \in 1..n : s[j].id \in 1..MaxId /\ t[j].id = s[j].id
    <2>1. \A j \in 1..n : s[j].id \in 1..MaxId
      BY DEF Lists, n
    <2> QED
      BY <2>1, <1>2, <1>3, <1>6
  <1>8. \A i \in 1..n : d[t[i].id] # Absent /\ t[i] = Record(t[i].id, d[t[i].id])
    <2> SUFFICES ASSUME NEW i \in 1..n PROVE d[t[i].id] # Absent /\ t[i] = Record(t[i].id, d[t[i].id])
      OBVIOUS
    <2>1. CASE i = p
      <3>1. t[i] = r /\ t[i].id = id
        BY <2>1, <1>2, <1>6
      <3> QED
        BY <3>1, <1>4 DEF r
    <2>2. CASE i # p
      <3>1. s[i].id # id
        BY <2>2, <1>3 DEF Lists, n
      <3>2. c[s[i].id] # Absent /\ s[i] = Record(s[i].id, c[s[i].id]) /\ s[i].id \in 1..MaxId
        BY DEF Lists, n
      <3> QED
        BY <2>2, <3>1, <3>2, <1>4, <1>6
    <2> QED
      BY <2>1, <2>2
  <1>9. \A i, j \in 1..n : (t[i].id = t[j].id) => (i = j)
    <2>1. \A i, j \in 1..n : (s[i].id = s[j].id) => (i = j)
      BY DEF Lists, n
    <2> QED
      BY <2>1, <1>7
  <1>10. \A y \in 1..MaxId : (d[y] # Absent) => (\E i \in 1..n : t[i].id = y)
    <2>1. \A y \in 1..MaxId : (d[y] # Absent) => (\E i \in 1..n : s[i].id = y)
      BY <1>4 DEF Lists, n
    <2> QED
      BY <2>1, <1>7
  <1>11. Lists(t, d)
    BY <1>6, <1>7, <1>8, <1>9, <1>10 DEF Lists
  <1> QED
    BY <1>5, <1>11 DEF d, r

LEMMA ListsDelete ==
  ASSUME NEW c \in [1..MaxId -> RecordContents], NEW s, Lists(s, c), NEW id \in 1..MaxId, c[id] # Absent
  PROVE  Lists(RemoveIndex(s, Index(s, id)), [c EXCEPT ![id] = Absent])
  <1> DEFINE p == Index(s, id)
             t == RemoveAt(s, p)
             d == [c EXCEPT ![id] = Absent]
             n == Len(s)
  <1>1. s \in Seq(DbRecords) /\ n \in Nat
    BY DEF Lists
  <1>2. p \in 1..n /\ s[p].id = id
    <2>1. \E i \in 1..n : s[i].id = id
      BY DEF Lists
    <2> QED
      BY <1>1, <2>1, IndexIs
  <1>3. d[id] = Absent /\ \A j \in 1..MaxId : (j # id) => (d[j] = c[j])
    OBVIOUS
  <1>4. RemoveIndex(s, p) = t
    BY <1>2 DEF RemoveIndex
  <1>5. t \in Seq(DbRecords) /\ Len(t) = n - 1 /\ \A j \in 1..(n - 1) : t[j] = IF j < p THEN s[j] ELSE s[j + 1]
    <2> HIDE DEF p
    <2> QED BY <1>1, <1>2, RemovedAt
  <1> HIDE DEF t, d, n, p
  <1>6. \A i, j \in 1..n : (s[i].id = s[j].id) => (i = j)
    BY DEF Lists, n
  <1>7. \A i \in 1..n : s[i].id \in 1..MaxId /\ s[i].id \in Nat /\ c[s[i].id] # Absent /\ s[i] = Record(s[i].id, c[s[i].id])
    BY WorkspaceAssumption DEF Lists, n
  <1> DEFINE f(j) == IF j < p THEN j ELSE j + 1
  <1>8. \A j \in 1..(n - 1) : f(j) \in 1..n /\ f(j) # p /\ t[j] = s[f(j)]
    BY <1>1, <1>2, <1>5
  <1>9. \A i, j \in 1..(n - 1) : (f(i) = f(j)) => (i = j)
    BY <1>1, <1>2
  <1>10. \A i \in 1..n : (i # p) => (s[i].id # id)
    BY <1>2, <1>6
  <1> HIDE DEF f
  <1>11. \A i \in 1..(n - 1) : /\ t[i].id \in 1..MaxId /\ d[t[i].id] # Absent
                               /\ t[i] = Record(t[i].id, d[t[i].id])
    BY <1>3, <1>7, <1>8, <1>10
  <1>12. \A i, j \in 1..(n - 1) : (t[i].id = t[j].id) => (i = j)
    BY <1>6, <1>8, <1>9
  <1>13. \A y \in 1..MaxId : (d[y] # Absent) => (\E i \in 1..(n - 1) : t[i].id = y)
    <2> SUFFICES ASSUME NEW y \in 1..MaxId, d[y] # Absent PROVE \E i \in 1..(n - 1) : t[i].id = y
      OBVIOUS
    <2>1. y # id /\ c[y] # Absent
      BY <1>3
    <2>2. PICK i \in 1..n : s[i].id = y
      BY <2>1 DEF Lists, n
    <2>3. i # p
      BY <2>1, <2>2, <1>2
    <2>4. \E j \in 1..(n - 1) : f(j) = i
      <3>1. CASE i < p
        <4>1. i \in 1..(n - 1) /\ f(i) = i
          BY <3>1, <1>1, <1>2 DEF f
        <4> QED
          BY <4>1
      <3>2. CASE p < i
        <4>1. i - 1 \in 1..(n - 1) /\ f(i - 1) = i
          BY <3>2, <1>1, <1>2 DEF f
        <4> QED
          BY <4>1
      <3> QED
        BY <3>1, <3>2, <2>3, <1>1, <1>2
    <2> QED
      BY <2>2, <2>4, <1>8
  <1>14. Lists(t, d)
    BY <1>5, <1>11, <1>12, <1>13 DEF Lists
  <1> QED
    BY <1>4, <1>14 DEF d, p

(***************************************************************************)
(* The workspace: its copy of the records, what is on the way, and what of *)
(* it is exact while operations do not overlap.                            *)
(***************************************************************************)
FlightOps == {"bootstrap", "refresh", "save", "complete", "delete", "launch"}
Copies == [Collections -> Seq(DbRecords)]
FlightRecords ==
    [op : FlightOps, kind : Collections, id : 0..MaxId, record : DbRecords,
     at : {"sent", "done"}, index : Nat, snapshot : Copies \cup {<<>>}]
Modals == [kind : Collections, id : 0..MaxId] \cup {NoModal}

WorkspaceTyped ==
    /\ api \in [Collections -> [1..MaxId -> RecordContents]]
    /\ db \in Copies
    /\ booted \in {"auth", "ready", "error"}
    /\ flights \in SUBSET FlightRecords
    /\ modal \in Modals /\ ((modal # NoModal) => (booted = "ready"))
    /\ operations \in Nat /\ warned \in BOOLEAN /\ quiet \in BOOLEAN

\* What the API holds, it has held.
ApiFits ==
    /\ held \in SUBSET (Collections \X DbRecords)
    /\ \A k \in Collections, id \in 1..MaxId :
          (api[k][id] # Absent) => (<<k, Record(id, api[k][id])>> \in held)

WasHeld(s, k) == \A n \in 1..Len(s) : <<k, s[n]>> \in held
CopyFits == \A k \in Collections : WasHeld(db[k], k)

IsReading(f) == f.op \in {"bootstrap", "refresh"}
IsWriting(f) == f.op \in {"save", "complete"}
IsWrapped(f) == f.op \in {"save", "launch", "refresh"}
Token(f) == <<IF f.op = "refresh" THEN "launch" ELSE f.op, f.kind>>
TextOf(r) == [text |-> r.text, done |-> r.done]

FlightFits(f) ==
    /\ booted = IF f.op = "bootstrap" THEN "auth" ELSE "ready"
    /\ (IsReading(f) \/ f.op = "launch") => (f.kind = "intimations")
    /\ (IsReading(f) /\ f.at = "done") =>
          (f.snapshot \in Copies /\ \A k \in Collections : WasHeld(f.snapshot[k], k))
    /\ (~IsReading(f) /\ f.op # "save") => (f.id \in 1..MaxId)
    /\ (IsWriting(f) /\ f.at = "sent") => (f.record.id = f.id /\ TextOf(f.record) # Absent)
    /\ (IsWriting(f) /\ f.at = "done") => (<<f.kind, f.record>> \in held)
    /\ IsWrapped(f) => (Token(f) \in saving)

\* One reading at the start; one wrapped operation of a kind.
Excludes(f, g) == (f.op = "bootstrap" \/ (IsWrapped(f) /\ IsWrapped(g) /\ Token(f) = Token(g))) => f = g
FlightsFitTogether == \A f, g \in flights : Excludes(f, g)

Exact == \A k \in Collections : Lists(db[k], api[k])

\* An operation alone: what it found is exact until the API takes it, and what
\* it makes is exact from then on; a launch is made exact by the reading after it.
QuietFlight(f) ==
    IF IsReading(f) THEN (f.at = "done") => (\A k \in Collections : Lists(f.snapshot[k], api[k]))
    ELSE /\ (f.at = "sent" /\ ~warned) => (Exact /\ f.index = Index(db[f.kind], f.id))
         /\ (f.at = "done" /\ ~warned /\ f.op # "launch") => (\A k \in Collections : Lists(Applied(f)[k], api[k]))
QuietFits ==
    quiet =>
        /\ \A f, g \in flights : f = g
        /\ (flights = {} /\ booted = "ready" /\ ~warned) => Exact
        /\ \A f \in flights : QuietFlight(f)

WorkspaceInv ==
    /\ WorkspaceTyped /\ ApiFits /\ CopyFits /\ (\A f \in flights : FlightFits(f))
    /\ FlightsFitTogether /\ QuietFits

LEMMA WorkspaceIsSafe ==
  ASSUME WorkspaceInv
  PROVE  WorkspaceSafety
  <1>1. OneSavePerAction
    BY DEF WorkspaceInv, FlightsFitTogether, Excludes, IsWrapped, Token, OneSavePerAction
  <1>2. ShownWasHeld
    BY DEF WorkspaceInv, CopyFits, WasHeld, ShownWasHeld
  <1>3. QuietCopyIsExact
    BY ListsAll DEF WorkspaceInv, QuietFits, Exact, QuietCopyIsExact
  <1> QED
    BY <1>1, <1>2, <1>3 DEF WorkspaceSafety

LEMMA WorkspaceInitInv == WorkspaceInit => WorkspaceInv
  <1> SUFFICES ASSUME WorkspaceInit PROVE WorkspaceInv
    OBVIOUS
  <1>0. 0 \in 0..MaxId /\ First \in RecordContents /\ Absent \in RecordContents /\ First # Absent
    BY WorkspaceAssumption DEF First, Absent, RecordContents
  <1>1. WorkspaceTyped
    <2>1. api \in [Collections -> [1..MaxId -> RecordContents]]
      BY <1>0 DEF WorkspaceInit
    <2>2. db \in Copies
      BY DEF WorkspaceInit, Copies
    <2> QED
      BY <2>1, <2>2 DEF WorkspaceInit, WorkspaceTyped, Modals
  <1>2. \A k \in Collections : Written(k) \in {1..1, 1..2} /\ Written(k) \subseteq {1, 2}
    BY DEF Written
  <1>3. \A i \in {1, 2} : Record(i, First) \in DbRecords /\ Record(i, First).id = i
    BY DEF Record, First, DbRecords
  <1>4. \A k \in Collections, id \in 1..MaxId : api[k][id] = IF id \in Written(k) THEN First ELSE Absent
    BY DEF WorkspaceInit
  <1>5. \A m : m \in held <=> (\E k \in Collections : \E id \in Written(k) : m = <<k, Record(id, First)>>)
    BY DEF WorkspaceInit
  <1>7. ApiFits
    <2>1. held \in SUBSET (Collections \X DbRecords)
      BY <1>2, <1>3, <1>5
    <2>2. \A k \in Collections, id \in 1..MaxId :
             (api[k][id] # Absent) => (<<k, Record(id, api[k][id])>> \in held)
      BY <1>4, <1>5
    <2> QED
      BY <2>1, <2>2 DEF ApiFits
  <1>8. CopyFits
    BY DEF WorkspaceInit, CopyFits, WasHeld
  <1>9. flights = {} /\ booted = "auth"
    BY DEF WorkspaceInit
  <1> QED
    BY <1>1, <1>7, <1>8, <1>9 DEF WorkspaceInv, FlightsFitTogether, QuietFits

(* A flight begins.  Alone, it finds an exact copy.                            *)
LEMMA FlightStartsStep ==
  ASSUME WorkspaceInv, NEW f \in FlightRecords, f.at = "sent", Start(f),
         UNCHANGED <<api, held, db, booted, modal, warned>>, operations' \in Nat, saving \subseteq saving',
         f.op # "refresh",
         (f.op = "bootstrap") => (booted = "auth" /\ flights = {}),
         (f.op \in {"bootstrap", "launch"}) => (f.kind = "intimations"),
         (f.op # "bootstrap") => (booted = "ready" /\ f.index = Index(db[f.kind], f.id)),
         (~IsReading(f) /\ f.op # "save") => (f.id \in 1..MaxId),
         IsWriting(f) => (f.record.id = f.id /\ TextOf(f.record) # Absent),
         IsWrapped(f) => (Token(f) \in saving' \ saving)
  PROVE  WorkspaceInv'
  <1>1. flights' = flights \cup {f} /\ quiet' = (quiet /\ flights = {})
    BY DEF Start
  <1>2. WorkspaceTyped'
    BY <1>1 DEF WorkspaceInv, WorkspaceTyped
  <1>3. ApiFits' /\ CopyFits'
    BY DEF WorkspaceInv, ApiFits, CopyFits, WasHeld
  <1>4. ASSUME NEW g \in flights' PROVE FlightFits(g)'
    <2>1. CASE g = f
      BY <2>1 DEF FlightFits, IsReading, IsWriting
    <2>2. CASE g \in flights
      BY <2>2 DEF WorkspaceInv, FlightFits, WasHeld
    <2> QED
      BY <1>1, <2>1, <2>2
  <1>5. FlightsFitTogether'
    <2>1. \A g \in flights : ~Excludes(f, g) => FALSE
      BY DEF WorkspaceInv, FlightFits, Excludes
    <2>2. \A g \in flights : ~Excludes(g, f) => FALSE
      BY DEF WorkspaceInv, FlightFits, Excludes, IsReading
    <2>3. \A g, h \in flights : Excludes(g, h)
      BY DEF WorkspaceInv, FlightsFitTogether
    <2>4. Excludes(f, f)
      BY DEF Excludes
    <2> QED
      BY <1>1, <2>1, <2>2, <2>3, <2>4 DEF FlightsFitTogether
  <1>6. QuietFits'
    <2> SUFFICES ASSUME quiet' PROVE QuietFits'
      BY DEF QuietFits
    <2>1. quiet /\ flights = {} /\ flights' = {f}
      BY <1>1
    <2>2. QuietFlight(f)'
      <3>1. CASE f.op = "bootstrap"
        BY <3>1 DEF QuietFlight, IsReading
      <3>2. CASE f.op # "bootstrap"
        <4>1. (~warned') => Exact'
          BY <2>1, <3>2 DEF WorkspaceInv, QuietFits, Exact
        <4> QED
          BY <3>2, <4>1 DEF QuietFlight
      <3> QED
        BY <3>1, <3>2
    <2> QED
      BY <2>1, <2>2 DEF QuietFits
  <1> QED
    BY <1>2, <1>3, <1>4, <1>5, <1>6 DEF WorkspaceInv

LEMMA FlightIs ==
  ASSUME WorkspaceInv, NEW op \in FlightOps, NEW k \in Collections, NEW id \in 0..MaxId, NEW r \in DbRecords
  PROVE  /\ Flight(op, k, id, r) \in FlightRecords
         /\ Flight(op, k, id, r) = [op |-> op, kind |-> k, id |-> id, record |-> r, at |-> "sent",
                                     index |-> Index(db[k], id), snapshot |-> <<>>]
  <1>1. db[k] \in Seq(DbRecords)
    BY DEF WorkspaceInv, WorkspaceTyped, Copies
  <1>2. Index(db[k], id) \in Nat
    BY <1>1, IndexIs
  <1> QED
    BY <1>2 DEF Flight, FlightRecords

LEMMA EmptyRecord ==
  ASSUME NEW id \in 0..MaxId
  PROVE  Record(id, Absent) \in DbRecords
  BY WorkspaceAssumption DEF Record, Absent, DbRecords

LEMMA BootstrapIs ==
  ASSUME WorkspaceInv
  PROVE  /\ Bootstrap \in FlightRecords /\ Bootstrap.op = "bootstrap" /\ Bootstrap.kind = "intimations" /\ Bootstrap.at = "sent"
         /\ Refresh \in FlightRecords /\ Refresh.op = "refresh" /\ Refresh.kind = "intimations" /\ Refresh.at = "sent"
  <1> DEFINE b == Flight("bootstrap", "intimations", 0, Record(0, Absent))
  <1>0. 0 \in 0..MaxId /\ "intimations" \in Collections /\ "bootstrap" \in FlightOps /\ "refresh" \in FlightOps
    BY WorkspaceAssumption DEF Collections, FlightOps
  <1>1. b \in FlightRecords /\ b = [op |-> "bootstrap", kind |-> "intimations", id |-> 0, record |-> Record(0, Absent), at |-> "sent",
                index |-> Index(db["intimations"], 0), snapshot |-> <<>>]
    BY <1>0, EmptyRecord, FlightIs
  <1>2. Bootstrap = b
    BY DEF Bootstrap
  <1> HIDE DEF b
  <1>3. Refresh = [b EXCEPT !.op = "refresh"]
    BY <1>2 DEF Refresh
  <1>4. [b EXCEPT !.op = "refresh"] \in FlightRecords /\ [b EXCEPT !.op = "refresh"].op = "refresh"
        /\ [b EXCEPT !.op = "refresh"].kind = "intimations" /\ [b EXCEPT !.op = "refresh"].at = "sent"
    BY <1>0, <1>1 DEF FlightRecords
  <1> QED
    BY <1>1, <1>2, <1>3, <1>4

LEMMA StartWorkspaceStep ==
  ASSUME WorkspaceInv, StartWorkspace
  PROVE  WorkspaceInv'
  <1>1. /\ booted = "auth" /\ flights = {} /\ Start(Bootstrap)
        /\ UNCHANGED <<api, held, db, booted, saving, modal, operations, warned>>
    BY DEF StartWorkspace, KeepsApi
  <1>2. /\ Bootstrap \in FlightRecords /\ Bootstrap.op = "bootstrap" /\ Bootstrap.kind = "intimations" /\ Bootstrap.at = "sent"
    BY BootstrapIs
  <1>3. operations' \in Nat /\ saving \subseteq saving'
    BY <1>1 DEF WorkspaceInv, WorkspaceTyped
  <1>4. IsReading(Bootstrap) /\ ~IsWriting(Bootstrap) /\ ~IsWrapped(Bootstrap)
    BY <1>2 DEF IsReading, IsWriting, IsWrapped
  <1> QED
    BY <1>1, <1>2, <1>3, <1>4, FlightStartsStep

LEMMA ReloadWorkspaceStep ==
  ASSUME WorkspaceInv, ReloadWorkspace
  PROVE  WorkspaceInv'
  <1>1. /\ booted' = "auth" /\ db' = [k \in Collections |-> <<>>] /\ flights' = {}
        /\ modal' = NoModal /\ warned' = FALSE /\ quiet' = TRUE /\ UNCHANGED <<api, held, operations>>
    BY DEF ReloadWorkspace, KeepsApi
  <1>2. db' \in Copies
    BY <1>1 DEF Copies
  <1>3. WorkspaceTyped'
    BY <1>1, <1>2 DEF WorkspaceInv, WorkspaceTyped, Modals
  <1>4. ApiFits'
    BY <1>1 DEF WorkspaceInv, ApiFits
  <1>5. CopyFits'
    BY <1>1 DEF CopyFits, WasHeld
  <1> QED
    BY <1>1, <1>3, <1>4, <1>5 DEF WorkspaceInv, FlightsFitTogether, QuietFits

LEMMA ModalStep ==
  ASSUME WorkspaceInv, UNCHANGED <<api, held, db, booted, flights, saving, operations, warned, quiet>>,
         modal' \in Modals, (modal' # NoModal) => (booted = "ready")
  PROVE  WorkspaceInv'
  BY DEF WorkspaceInv, WorkspaceTyped, ApiFits, CopyFits, WasHeld, FlightFits, FlightsFitTogether, QuietFits,
         QuietFlight, Exact, Applied

LEMMA OpenModalStep ==
  ASSUME WorkspaceInv, NEW k \in Collections, NEW id \in 0..MaxId, OpenModal(k, id)
  PROVE  WorkspaceInv'
  <1>1. modal' \in Modals
    BY DEF OpenModal, Modals
  <1> QED
    BY <1>1, ModalStep DEF OpenModal, KeepsApi

LEMMA CloseModalStep ==
  ASSUME WorkspaceInv, CloseModal
  PROVE  WorkspaceInv'
  <1>1. modal' \in Modals
    BY DEF CloseModal, Modals
  <1> QED
    BY <1>1, ModalStep DEF CloseModal, KeepsApi

\* The form that is open, and what a list has at the place of an id.
LEMMA ModalOpen ==
  ASSUME WorkspaceInv, modal # NoModal
  PROVE  modal.kind \in Collections /\ modal.id \in 0..MaxId /\ booted = "ready"
  BY DEF WorkspaceInv, WorkspaceTyped, Modals

LEMMA RowOf ==
  ASSUME WorkspaceInv, NEW k \in Collections, NEW id, Index(db[k], id) # 0
  PROVE  db[k][Index(db[k], id)] \in DbRecords /\ db[k][Index(db[k], id)].id = id
  <1>1. db[k] \in Seq(DbRecords)
    BY DEF WorkspaceInv, WorkspaceTyped, Copies
  <1> QED
    BY <1>1, IndexIs

LEMMA SaveRecordStep ==
  ASSUME WorkspaceInv, SaveRecord
  PROVE  WorkspaceInv'
  <1> DEFINE k == modal.kind
             id == modal.id
             done == id # 0 /\ Index(db[k], id) # 0 /\ db[k][Index(db[k], id)].done
             r == [id |-> id, text |-> operations + 2, done |-> done]
             f == Flight("save", k, id, r)
  <1>1. /\ modal # NoModal /\ Start(f) /\ operations' = operations + 1 /\ <<"save", k>> \notin saving
        /\ saving' = saving \cup {<<"save", k>>} /\ UNCHANGED <<api, held, db, booted, modal, warned>>
    BY DEF SaveRecord, Operate, Free, KeepsApi
  <1>2. k \in Collections /\ id \in 0..MaxId /\ booted = "ready"
    BY <1>1, ModalOpen
  <1>3. done \in BOOLEAN /\ operations \in Nat /\ id \in Nat
    <2>1. CASE id # 0 /\ Index(db[k], id) # 0
      BY <1>2, <2>1, RowOf, WorkspaceAssumption DEF DbRecords, WorkspaceInv, WorkspaceTyped
    <2>2. CASE ~(id # 0 /\ Index(db[k], id) # 0)
      BY <1>2, <2>2, WorkspaceAssumption DEF WorkspaceInv, WorkspaceTyped
    <2> QED
      BY <2>1, <2>2
  <1> HIDE DEF done, k, id
  <1>4. r \in DbRecords /\ r.id = id /\ TextOf(r) # Absent
    BY <1>3 DEF DbRecords, TextOf, Absent
  <1>5. "save" \in FlightOps
    BY DEF FlightOps
  <1> HIDE DEF r
  <1>6. f \in FlightRecords /\ f = [op |-> "save", kind |-> k, id |-> id, record |-> r, at |-> "sent",
                                     index |-> Index(db[k], id), snapshot |-> <<>>]
    BY <1>2, <1>4, <1>5, FlightIs
  <1> HIDE DEF f
  <1>7. /\ f.op = "save" /\ f.at = "sent" /\ f.kind = k /\ f.id = id /\ f.record = r /\ f.index = Index(db[f.kind], f.id)
        /\ Token(f) = <<"save", k>>
    BY <1>6 DEF Token
  <1>8. operations' \in Nat /\ Token(f) \in saving' \ saving /\ saving \subseteq saving'
    BY <1>1, <1>3, <1>7
  <1> QED
    BY <1>1, <1>2, <1>4, <1>6, <1>7, <1>8, FlightStartsStep

\* An operation on a record, started from the page.
LEMMA OperateStep ==
  ASSUME WorkspaceInv, NEW k \in Collections, NEW id \in 1..MaxId, NEW r \in DbRecords,
         NEW op \in {"complete", "delete", "launch"}, Operate(Flight(op, k, id, r)), booted = "ready",
         UNCHANGED <<api, held, db, booted, modal, warned>>,
         (op = "complete") => (r.id = id /\ TextOf(r) # Absent),
         (op = "launch") => (k = "intimations"),
         IF op = "launch" THEN <<op, k>> \notin saving /\ saving' = saving \cup {<<op, k>>} ELSE saving' = saving
  PROVE  WorkspaceInv'
  <1> DEFINE f == Flight(op, k, id, r)
  <1>1. id \in 0..MaxId /\ op \in FlightOps
    BY WorkspaceAssumption DEF FlightOps
  <1>2. f \in FlightRecords /\ f = [op |-> op, kind |-> k, id |-> id, record |-> r, at |-> "sent",
                                     index |-> Index(db[k], id), snapshot |-> <<>>]
    BY <1>1, FlightIs
  <1>3. Start(f) /\ operations' \in Nat
    BY DEF Operate, WorkspaceInv, WorkspaceTyped
  <1> HIDE DEF f
  <1>4. /\ f.op = op /\ f.at = "sent" /\ f.kind = k /\ f.id = id /\ f.record = r /\ f.index = Index(db[f.kind], f.id)
        /\ Token(f) = <<op, k>>
    BY <1>2 DEF Token
  <1>5. saving \subseteq saving' /\ (IsWrapped(f) => (Token(f) \in saving' \ saving))
    BY <1>4 DEF IsWrapped
  <1>6. IsWriting(f) => (f.record.id = f.id /\ TextOf(f.record) # Absent)
    BY <1>4 DEF IsWriting
  <1>7. f.op \notin {"refresh", "bootstrap"}
    BY <1>4
  <1> QED
    BY <1>2, <1>3, <1>4, <1>5, <1>6, <1>7, FlightStartsStep

LEMMA CompleteStep ==
  ASSUME WorkspaceInv, NEW k \in Collections, NEW id \in 1..MaxId, Complete(k, id)
  PROVE  WorkspaceInv'
  <1> DEFINE r == db[k][Index(db[k], id)]
             q == [r EXCEPT !.done = TRUE]
  <1>1. /\ booted = "ready" /\ Index(db[k], id) # 0 /\ Operate(Flight("complete", k, id, q))
        /\ UNCHANGED <<api, held, db, booted, saving, modal, warned>>
    BY DEF Complete, KeepsApi
  <1>2. r \in DbRecords /\ r.id = id
    BY <1>1, RowOf
  <1> HIDE DEF r
  <1>3. q \in DbRecords /\ q.id = id /\ q.done = TRUE
    BY <1>2 DEF DbRecords
  <1>4. TextOf(q) # Absent
    BY <1>3 DEF TextOf, Absent
  <1> HIDE DEF q
  <1> QED
    BY <1>1, <1>3, <1>4, OperateStep

LEMMA DeleteStep ==
  ASSUME WorkspaceInv, NEW k \in Collections, NEW id \in 1..MaxId, Delete(k, id)
  PROVE  WorkspaceInv'
  <1>1. /\ booted = "ready" /\ Operate(Flight("delete", k, id, Record(id, Absent)))
        /\ UNCHANGED <<api, held, db, booted, saving, modal, warned>>
    BY DEF Delete, KeepsApi
  <1>2. Record(id, Absent) \in DbRecords
    BY EmptyRecord, WorkspaceAssumption
  <1> QED
    BY <1>1, <1>2, OperateStep

LEMMA LaunchIntimationStep ==
  ASSUME WorkspaceInv, NEW id \in 1..MaxId, LaunchIntimation(id)
  PROVE  WorkspaceInv'
  <1>1. /\ modal # NoModal /\ Operate(Flight("launch", "intimations", id, Record(id, Absent)))
        /\ <<"launch", "intimations">> \notin saving /\ saving' = saving \cup {<<"launch", "intimations">>}
        /\ UNCHANGED <<api, held, db, booted, modal, warned>>
    BY DEF LaunchIntimation, KeepsApi, Free, NoModal
  <1>2. Record(id, Absent) \in DbRecords /\ "intimations" \in Collections /\ booted = "ready"
    BY <1>1, EmptyRecord, ModalOpen, WorkspaceAssumption DEF Collections
  <1> QED
    BY <1>1, <1>2, OperateStep

(* The API takes what a flight carries.                                        *)
LEMMA CarriedStep ==
  ASSUME WorkspaceInv, NEW f \in flights, f.at = "sent",
         NEW g \in FlightRecords, g.at = "done", g.op = f.op, g.kind = f.kind, g.id = f.id,
         flights' = (flights \ {f}) \cup {g},
         UNCHANGED <<db, booted, saving, modal, operations, warned, quiet>>,
         api' \in [Collections -> [1..MaxId -> RecordContents]], ApiFits', held \subseteq held',
         IsReading(f) => (/\ g.snapshot \in Copies
                          /\ \A k \in Collections : \A n \in 1..Len(g.snapshot[k]) : <<k, g.snapshot[k][n]>> \in held'),
         IsWriting(f) => (<<g.kind, g.record>> \in held'),
         (quiet /\ IsReading(f)) => (\A k \in Collections : Lists(g.snapshot[k], api'[k])),
         (quiet /\ ~IsReading(f) /\ ~warned /\ f.op # "launch") => (\A k \in Collections : Lists(Applied(g)[k], api'[k]))
  PROVE  WorkspaceInv'
  <1>1. WorkspaceTyped'
    BY DEF WorkspaceInv, WorkspaceTyped
  <1>2. CopyFits'
    BY DEF WorkspaceInv, CopyFits, WasHeld
  <1>3. ASSUME NEW h \in flights' PROVE FlightFits(h)'
    <2>1. CASE h = g
      <3>1. FlightFits(f)
        BY DEF WorkspaceInv
      <3> QED
        BY <2>1, <3>1 DEF FlightFits, IsReading, IsWriting, IsWrapped, Token, WasHeld
    <2>2. CASE h \in flights
      <3>1. FlightFits(h)
        BY <2>2 DEF WorkspaceInv
      <3> QED
        BY <3>1 DEF FlightFits, WasHeld
    <2> QED
      BY <2>1, <2>2
  <1>4. FlightsFitTogether'
    <2>1. \A h \in flights : Excludes(f, h) /\ Excludes(h, f)
      BY DEF WorkspaceInv, FlightsFitTogether
    <2>2. \A h \in flights \ {f} : Excludes(g, h) /\ Excludes(h, g)
      BY <2>1 DEF Excludes, IsWrapped, Token
    <2>3. Excludes(g, g)
      BY DEF Excludes
    <2> QED
      BY <2>2, <2>3 DEF WorkspaceInv, FlightsFitTogether
  <1>5. QuietFits'
    <2> SUFFICES ASSUME quiet' PROVE QuietFits'
      BY DEF QuietFits
    <2>1. quiet /\ flights' = {g}
      BY DEF WorkspaceInv, QuietFits
    <2>2. QuietFlight(g)'
      BY <2>1 DEF QuietFlight, IsReading, Applied
    <2> QED
      BY <2>1, <2>2 DEF QuietFits
  <1> QED
    BY <1>1, <1>2, <1>3, <1>4, <1>5 DEF WorkspaceInv

\* A record of the API is put in place of another.
LEMMA PutFits ==
  ASSUME WorkspaceInv, NEW k \in Collections, NEW id \in 1..MaxId, NEW x \in RecordContents, Put(k, id, x),
         held' = IF x = Absent THEN held ELSE held \cup {<<k, Record(id, x)>>}
  PROVE  /\ api' \in [Collections -> [1..MaxId -> RecordContents]] /\ ApiFits' /\ held \subseteq held'
         /\ api'[k] = [api[k] EXCEPT ![id] = x] /\ \A c \in Collections \ {k} : api'[c] = api[c]
  <1>0. api \in [Collections -> [1..MaxId -> RecordContents]]
    BY DEF WorkspaceInv, WorkspaceTyped
  <1>1. /\ api' \in [Collections -> [1..MaxId -> RecordContents]]
        /\ api'[k] = [api[k] EXCEPT ![id] = x] /\ \A c \in Collections \ {k} : api'[c] = api[c]
    BY <1>0 DEF Put
  <1>2. Record(id, x) \in DbRecords /\ Record(id, x).id = id
    BY WorkspaceAssumption DEF Record, DbRecords, RecordContents
  <1>3. held \subseteq held' /\ \A m \in held' : m \in held \/ (x # Absent /\ m = <<k, Record(id, x)>>)
    OBVIOUS
  <1>4. held' \in SUBSET (Collections \X DbRecords)
    BY <1>2, <1>3 DEF WorkspaceInv, ApiFits
  <1>6. ASSUME NEW c \in Collections, NEW i \in 1..MaxId, api'[c][i] # Absent
        PROVE  <<c, Record(i, api'[c][i])>> \in held'
    <2>1. CASE c = k /\ i = id
      <3>1. api'[c][i] = x
        BY <1>0, <1>1, <2>1
      <3> QED
        BY <2>1, <3>1, <1>6
    <2>2. CASE ~(c = k /\ i = id)
      <3>1. api'[c][i] = api[c][i]
        <4>1. CASE c # k
          BY <4>1, <1>1
        <4>2. CASE c = k /\ i # id
          BY <4>2, <1>0, <1>1
        <4> QED
          BY <2>2, <4>1, <4>2
      <3> QED
        BY <3>1, <1>3, <1>6 DEF WorkspaceInv, ApiFits
    <2> QED
      BY <2>1, <2>2
  <1>8. ApiFits'
    BY <1>4, <1>6 DEF ApiFits
  <1> QED
    BY <1>1, <1>3, <1>8

\* What the answer of each operation makes of the copy.
LEMMA AppliedIs ==
  ASSUME NEW g
  PROVE  /\ IsReading(g) => Applied(g) = g.snapshot
         /\ (g.op = "save" /\ g.id = 0) => Applied(g) = [db EXCEPT ![g.kind] = Append(db[g.kind], g.record)]
         /\ (IsWriting(g) /\ g.id # 0) =>
                Applied(g) = [db EXCEPT ![g.kind] = DbUpdate(db[g.kind], g.record)]
         /\ (g.op = "delete" /\ g.kind = "movements") =>
                Applied(g) = [db EXCEPT ![g.kind] = RemoveIndex(db[g.kind], g.index)]
         /\ (g.op = "delete" /\ g.kind # "movements") =>
                Applied(g) = [db EXCEPT ![g.kind] = RemoveIndex(db[g.kind], Index(db[g.kind], g.id))]
         /\ (g.op = "launch") => Applied(g) = db
  <1>1. IsReading(g) => Applied(g) = g.snapshot
    BY DEF Applied, IsReading
  <1>2. ASSUME g.op = "save", g.id = 0
        PROVE  Applied(g) = [db EXCEPT ![g.kind] = Append(db[g.kind], g.record)]
    BY <1>2 DEF Applied, DbCreate
  <1>3. (IsWriting(g) /\ g.id # 0) =>
           Applied(g) = [db EXCEPT ![g.kind] = DbUpdate(db[g.kind], g.record)]
    BY DEF Applied, IsWriting
  <1>4. ASSUME g.op = "delete", g.kind = "movements"
        PROVE  Applied(g) = [db EXCEPT ![g.kind] = RemoveIndex(db[g.kind], g.index)]
    BY <1>4 DEF Applied
  <1>5. (g.op = "delete" /\ g.kind # "movements") =>
           Applied(g) = [db EXCEPT ![g.kind] = RemoveIndex(db[g.kind], Index(db[g.kind], g.id))]
    BY DEF Applied, DbDelete
  <1>6. (g.op = "launch") => Applied(g) = db
    BY DEF Applied
  <1> QED
    BY <1>1, <1>2, <1>3, <1>4, <1>5, <1>6

LEMMA TakesReadingStep ==
  ASSUME WorkspaceInv, NEW f \in flights, f.at = "sent", IsReading(f),
         Carried(f, [f EXCEPT !.snapshot = [c \in Collections |-> Listed(c)]]),
         UNCHANGED <<api, held, db, booted, saving, modal, operations, warned, quiet>>
  PROVE  WorkspaceInv'
  <1>1. \A c \in Collections : Lists(Listed(c), api[c])
    BY ListedLists DEF WorkspaceInv, WorkspaceTyped
  <1> SUFFICES ASSUME NEW copy, copy = [c \in Collections |-> Listed(c)],
                      NEW g, g = [[f EXCEPT !.snapshot = copy] EXCEPT !.at = "done"]
               PROVE  WorkspaceInv'
    OBVIOUS
  <1>2. copy \in Copies /\ \A c \in Collections : copy[c] = Listed(c)
    BY <1>1 DEF Copies, Lists
  <1>3. \A c \in Collections : \A n \in 1..Len(copy[c]) : <<c, copy[c][n]>> \in held
    BY <1>1, <1>2 DEF Lists, WorkspaceInv, ApiFits
  <1>4. f \in FlightRecords
    BY DEF WorkspaceInv, WorkspaceTyped
  <1>5. flights' = (flights \ {f}) \cup {g}
    BY DEF Carried
  <1>6. /\ g \in FlightRecords /\ g.at = "done" /\ g.op = f.op /\ g.kind = f.kind /\ g.id = f.id
        /\ g.snapshot = copy
    BY <1>2, <1>4 DEF FlightRecords
  <1>7. api' \in [Collections -> [1..MaxId -> RecordContents]] /\ ApiFits' /\ held \subseteq held'
    BY DEF WorkspaceInv, WorkspaceTyped, ApiFits
  <1>8. ~IsWriting(f)
    BY DEF IsReading, IsWriting
  <1>9. \A c \in Collections : \A n \in 1..Len(g.snapshot[c]) : <<c, g.snapshot[c][n]>> \in held'
    BY <1>3, <1>6
  <1>10. \A c \in Collections : Lists(g.snapshot[c], api'[c])
    BY <1>1, <1>2, <1>6
  <1> QED
    BY <1>2, <1>5, <1>6, <1>7, <1>8, <1>9, <1>10, CarriedStep

LEMMA TakesCreateStep ==
  ASSUME WorkspaceInv, NEW f \in flights, f.at = "sent", f.op = "save", f.id = 0, NEW n \in 1..MaxId,
         api[f.kind][n] = Absent,
         Carried(f, [f EXCEPT !.record.id = n]),
         Put(f.kind, n, TextOf(f.record)), Holds([f.record EXCEPT !.id = n], f.kind),
         UNCHANGED <<db, booted, saving, modal, operations, warned, quiet>>
  PROVE  WorkspaceInv'
  <1> DEFINE k == f.kind
             x == TextOf(f.record)
             g == [[f EXCEPT !.record.id = n] EXCEPT !.at = "done"]
             d == [api[k] EXCEPT ![n] = x]
  <1>1. f \in FlightRecords /\ k \in Collections /\ f.record \in DbRecords
    BY DEF WorkspaceInv, WorkspaceTyped, FlightRecords
  <1>2. FlightFits(f) /\ IsWriting(f) /\ ~IsReading(f)
    BY DEF WorkspaceInv, IsWriting, IsReading
  <1>3. x \in RecordContents /\ x # Absent
    BY <1>1, <1>2 DEF FlightFits, TextOf, RecordContents, DbRecords
  <1>4. [f.record EXCEPT !.id = n] = Record(n, x) /\ Record(n, x) \in DbRecords
    BY <1>1, WorkspaceAssumption DEF Record, TextOf, DbRecords
  <1>5. g = [f EXCEPT !.record = Record(n, x), !.at = "done"]
    BY <1>1, <1>4 DEF FlightRecords
  <1>6. flights' = (flights \ {f}) \cup {g} /\ held' = held \cup {<<k, Record(n, x)>>}
    BY <1>4 DEF Carried, Holds
  <1>7. api[k] \in [1..MaxId -> RecordContents]
    BY <1>1 DEF WorkspaceInv, WorkspaceTyped
  <1> HIDE DEF x
  <1>10. \A s : Lists(s, api[k]) => Lists(Append(s, Record(n, x)), d)
    BY <1>3, <1>7, ListsCreate
  <1>12. /\ api' \in [Collections -> [1..MaxId -> RecordContents]] /\ ApiFits' /\ held \subseteq held'
         /\ api'[k] = d /\ \A c \in Collections \ {k} : api'[c] = api[c]
    <2>1. Put(k, n, x)
      BY DEF x
    <2> QED
      BY <2>1, <1>1, <1>3, <1>6, PutFits
  <1> HIDE DEF g, d
  <1>13. /\ g \in FlightRecords /\ g.at = "done" /\ g.op = f.op /\ g.kind = k /\ g.id = 0 /\ g.record = Record(n, x)
    BY <1>1, <1>4, <1>5 DEF FlightRecords
  <1>14. ASSUME quiet, ~warned, NEW c \in Collections PROVE Lists(Applied(g)[c], api'[c])
    <2>1. \A b \in Collections : Lists(db[b], api[b])
      BY <1>14, <1>2 DEF WorkspaceInv, QuietFits, QuietFlight, Exact
    <2>2. Applied(g) = [db EXCEPT ![k] = Append(db[k], Record(n, x))]
      <3>1. Applied(g) = [db EXCEPT ![g.kind] = Append(db[g.kind], g.record)]
        BY <1>13, AppliedIs
      <3> QED
        BY <3>1, <1>13
    <2>3. db \in Copies
      BY DEF WorkspaceInv, WorkspaceTyped
    <2> QED
      BY <1>1, <1>10, <1>12, <2>1, <2>2, <2>3 DEF Copies
  <1>15. <<g.kind, g.record>> \in held'
    BY <1>6, <1>13
  <1> QED
    BY <1>2, <1>6, <1>12, <1>13, <1>14, <1>15, CarriedStep

LEMMA TakesUpdateStep ==
  ASSUME WorkspaceInv, NEW f \in flights, f.at = "sent", IsWriting(f), f.id # 0, f.id \in Stored(f.kind),
         Carried(f, f), Put(f.kind, f.id, TextOf(f.record)), Holds(f.record, f.kind),
         UNCHANGED <<db, booted, saving, modal, operations, warned, quiet>>
  PROVE  WorkspaceInv'
  <1> DEFINE k == f.kind
             n == f.id
             x == TextOf(f.record)
             g == [f EXCEPT !.at = "done"]
             d == [api[k] EXCEPT ![n] = x]
  <1>1. f \in FlightRecords /\ k \in Collections /\ f.record \in DbRecords /\ n \in 1..MaxId /\ api[k][n] # Absent
    BY DEF WorkspaceInv, WorkspaceTyped, FlightRecords, Stored
  <1>2. FlightFits(f) /\ ~IsReading(f) /\ f.op \in {"save", "complete"}
    BY DEF WorkspaceInv, IsWriting, IsReading
  <1>3. x \in RecordContents /\ x # Absent /\ f.record.id = n
    BY <1>1, <1>2 DEF FlightFits, TextOf, RecordContents, DbRecords
  <1>4. f.record = Record(n, x)
    BY <1>1, <1>3 DEF Record, TextOf, DbRecords
  <1>5. flights' = (flights \ {f}) \cup {g} /\ held' = held \cup {<<k, Record(n, x)>>}
    BY <1>4 DEF Carried, Holds
  <1>6. api[k] \in [1..MaxId -> RecordContents]
    BY <1>1 DEF WorkspaceInv, WorkspaceTyped
  <1> HIDE DEF x
  <1>8. \A s : Lists(s, api[k]) => Lists(DbUpdate(s, Record(n, x)), d)
    BY <1>1, <1>3, <1>6, ListsUpdate
  <1>10. /\ api' \in [Collections -> [1..MaxId -> RecordContents]] /\ ApiFits' /\ held \subseteq held'
         /\ api'[k] = d /\ \A c \in Collections \ {k} : api'[c] = api[c]
    <2>1. Put(k, n, x)
      BY DEF x
    <2> QED
      BY <2>1, <1>1, <1>3, <1>5, PutFits
  <1>11. /\ g \in FlightRecords /\ g.at = "done" /\ g.op = f.op /\ g.kind = k /\ g.id = n /\ g.record = Record(n, x)
    BY <1>1, <1>4 DEF FlightRecords
  <1> HIDE DEF g, d
  <1>12. ASSUME quiet, ~warned, NEW c \in Collections PROVE Lists(Applied(g)[c], api'[c])
    <2>1. \A b \in Collections : Lists(db[b], api[b])
      BY <1>12, <1>2 DEF WorkspaceInv, QuietFits, QuietFlight, Exact
    <2>2. Applied(g) = [db EXCEPT ![k] = DbUpdate(db[k], Record(n, x))]
      <3>1. Applied(g) = [db EXCEPT ![g.kind] = DbUpdate(db[g.kind], g.record)]
        BY <1>2, <1>11, AppliedIs DEF IsWriting
      <3> QED
        BY <3>1, <1>11
    <2>3. db \in Copies
      BY DEF WorkspaceInv, WorkspaceTyped
    <2> QED
      BY <1>1, <1>8, <1>10, <2>1, <2>2, <2>3 DEF Copies
  <1>13. <<g.kind, g.record>> \in held'
    BY <1>5, <1>11
  <1> QED
    BY <1>2, <1>5, <1>10, <1>11, <1>12, <1>13, CarriedStep

LEMMA TakesDeleteStep ==
  ASSUME WorkspaceInv, NEW f \in flights, f.at = "sent", f.op = "delete", f.id \in Stored(f.kind),
         Carried(f, f), Put(f.kind, f.id, Absent), held' = held,
         UNCHANGED <<db, booted, saving, modal, operations, warned, quiet>>
  PROVE  WorkspaceInv'
  <1> DEFINE k == f.kind
             n == f.id
             g == [f EXCEPT !.at = "done"]
             d == [api[k] EXCEPT ![n] = Absent]
  <1>1. f \in FlightRecords /\ k \in Collections /\ n \in 1..MaxId /\ api[k][n] # Absent /\ Absent \in RecordContents
    BY DEF WorkspaceInv, WorkspaceTyped, FlightRecords, Stored, Absent, RecordContents
  <1>2. FlightFits(f) /\ ~IsReading(f) /\ ~IsWriting(f)
    BY DEF WorkspaceInv, IsWriting, IsReading
  <1>3. flights' = (flights \ {f}) \cup {g}
    BY DEF Carried
  <1>4. api[k] \in [1..MaxId -> RecordContents]
    BY <1>1 DEF WorkspaceInv, WorkspaceTyped
  <1>5. \A s : Lists(s, api[k]) => Lists(RemoveIndex(s, Index(s, n)), d)
    BY <1>1, <1>4, ListsDelete
  <1>7. /\ api' \in [Collections -> [1..MaxId -> RecordContents]] /\ ApiFits' /\ held \subseteq held'
        /\ api'[k] = d /\ \A c \in Collections \ {k} : api'[c] = api[c]
    BY <1>1, PutFits
  <1>8. /\ g \in FlightRecords /\ g.at = "done" /\ g.op = f.op /\ g.kind = k /\ g.id = n /\ g.index = f.index
    BY <1>1 DEF FlightRecords
  <1> HIDE DEF g, d
  <1>9. ASSUME quiet, ~warned, NEW c \in Collections PROVE Lists(Applied(g)[c], api'[c])
    <2>1. (\A b \in Collections : Lists(db[b], api[b])) /\ f.index = Index(db[k], n)
      BY <1>9, <1>2 DEF WorkspaceInv, QuietFits, QuietFlight, Exact
    <2>2. Applied(g) = [db EXCEPT ![k] = RemoveIndex(db[k], Index(db[k], n))]
      <3>1. \/ Applied(g) = [db EXCEPT ![g.kind] = RemoveIndex(db[g.kind], g.index)]
            \/ Applied(g) = [db EXCEPT ![g.kind] = RemoveIndex(db[g.kind], Index(db[g.kind], g.id))]
        BY <1>8, AppliedIs
      <3> QED
        BY <3>1, <2>1, <1>8
    <2>3. db \in Copies
      BY DEF WorkspaceInv, WorkspaceTyped
    <2> QED
      BY <1>1, <1>5, <1>7, <2>1, <2>2, <2>3 DEF Copies
  <1> QED
    BY <1>2, <1>3, <1>7, <1>8, <1>9, CarriedStep

(* What a launch stores is held, in a place of its own in each collection.     *)
LEMMA StoresLaunchFits ==
  ASSUME WorkspaceInv, NEW id \in 1..MaxId, NEW new, DOMAIN new \subseteq Collections,
         \A k \in DOMAIN new : new[k] \in 1..MaxId, StoresLaunch(Launched(id, new))
  PROVE  api' \in [Collections -> [1..MaxId -> RecordContents]] /\ ApiFits' /\ held \subseteq held'
  <1> DEFINE records == Launched(id, new)
             kinds == {"intimations"} \cup DOMAIN new
             put(k) == [text |-> records[k].text, done |-> records[k].done]
  <1>1. api \in [Collections -> [1..MaxId -> RecordContents]] /\ "intimations" \in Collections
    BY DEF WorkspaceInv, WorkspaceTyped, Collections
  <1>2. DOMAIN records = kinds /\ kinds \subseteq Collections
    BY <1>1 DEF Launched
  <1>3. ASSUME NEW k \in kinds
        PROVE  /\ records[k] \in DbRecords /\ records[k].id \in 1..MaxId
               /\ put(k) \in RecordContents /\ records[k] = Record(records[k].id, put(k))
    <2>0. \A n \in 1..MaxId : n \in Nat
      BY WorkspaceAssumption
    <2>1. CASE k = "intimations"
      <3>1. records[k] = Record(id, [api[k][id] EXCEPT !.done = TRUE])
        BY <2>1 DEF Launched
      <3>2. api[k][id] \in RecordContents
        BY <1>1, <2>1
      <3> QED
        BY <2>0, <3>1, <3>2 DEF Record, RecordContents, DbRecords
    <2>2. CASE k # "intimations"
      <3>1. records[k] = Record(new[k], First) /\ new[k] \in 1..MaxId
        BY <2>2 DEF Launched
      <3> QED
        BY <2>0, <3>1 DEF Record, First, RecordContents, DbRecords
    <2> QED
      BY <2>1, <2>2
  <1>4. /\ api' = [k \in Collections |-> IF k \notin kinds THEN api[k] ELSE [api[k] EXCEPT ![records[k].id] = put(k)]]
        /\ held' = held \cup {<<k, records[k]>> : k \in kinds}
    BY <1>2 DEF StoresLaunch
  <1> HIDE DEF records, kinds, put
  <1>5. api' \in [Collections -> [1..MaxId -> RecordContents]]
    BY <1>1, <1>3, <1>4
  <1>6. held' \in SUBSET (Collections \X DbRecords) /\ held \subseteq held'
    <2>1. held \in SUBSET (Collections \X DbRecords)
      BY DEF WorkspaceInv, ApiFits
    <2> QED
      BY <1>2, <1>3, <1>4, <2>1
  <1>7. ASSUME NEW c \in Collections, NEW i \in 1..MaxId, api'[c][i] # Absent
        PROVE  <<c, Record(i, api'[c][i])>> \in held'
    <2>1. CASE c \in kinds /\ i = records[c].id
      <3>1. api'[c][i] = put(c)
        BY <1>1, <1>4, <2>1
      <3>2. <<c, records[c]>> \in held'
        BY <1>4, <2>1
      <3> QED
        BY <1>3, <2>1, <3>1, <3>2
    <2>2. CASE ~(c \in kinds /\ i = records[c].id)
      <3>1. api'[c][i] = api[c][i]
        BY <1>1, <1>4, <2>2
      <3> QED
        BY <3>1, <1>4, <1>7 DEF WorkspaceInv, ApiFits
    <2> QED
      BY <2>1, <2>2
  <1>8. ApiFits'
    BY <1>6, <1>7 DEF ApiFits
  <1> QED
    BY <1>5, <1>6, <1>8

LEMMA TakesLaunchStep ==
  ASSUME WorkspaceInv, NEW f \in flights, f.at = "sent", f.op = "launch", f.id \in Stored(f.kind), TakesLaunch(f),
         UNCHANGED <<db, booted, saving, modal, operations, warned, quiet>>
  PROVE  WorkspaceInv'
  <1> DEFINE g == [f EXCEPT !.at = "done"]
  <1>1. f \in FlightRecords /\ f.kind = "intimations" /\ f.id \in 1..MaxId
    BY DEF WorkspaceInv, WorkspaceTyped, FlightRecords, Stored, FlightFits
  <1>2. ~IsReading(f) /\ ~IsWriting(f)
    BY DEF IsWriting, IsReading
  <1>3. flights' = (flights \ {f}) \cup {g}
    BY DEF TakesLaunch, Carried
  <1>4. /\ api' \in [Collections -> [1..MaxId -> RecordContents]] /\ ApiFits' /\ held \subseteq held'
    <2>1. CASE launchOf[f.id] # 0
      <3>1. api' = api /\ held' = held
        BY <2>1 DEF TakesLaunch, KeepsApi
      <3> QED
        BY <3>1 DEF WorkspaceInv, WorkspaceTyped, ApiFits
    <2>2. CASE launchOf[f.id] = 0
      <3>1. \E asked \in SUBSET {"deadlines", "appointments"} :
               \E new \in [{"movements"} \union asked -> 1..MaxId] : StoresLaunch(Launched(f.id, new))
        BY <2>2 DEF TakesLaunch
      <3>2. PICK asked \in SUBSET {"deadlines", "appointments"} :
               \E new \in [{"movements"} \union asked -> 1..MaxId] : StoresLaunch(Launched(f.id, new))
        BY <3>1
      <3>3. PICK new \in [{"movements"} \union asked -> 1..MaxId] : StoresLaunch(Launched(f.id, new))
        BY <3>2
      <3>4. DOMAIN new \subseteq Collections /\ \A k \in DOMAIN new : new[k] \in 1..MaxId
        BY DEF Collections
      <3> QED
        BY <1>1, <3>3, <3>4, StoresLaunchFits
    <2> QED
      BY <2>1, <2>2
  <1>5. g \in FlightRecords /\ g.at = "done" /\ g.op = f.op /\ g.kind = f.kind /\ g.id = f.id
    BY <1>1 DEF FlightRecords
  <1> HIDE DEF g
  <1> QED
    BY <1>2, <1>3, <1>4, <1>5, CarriedStep

(* An answer: a list that a held record joins, replaces or leaves.             *)
LEMMA HeldLists ==
  ASSUME NEW k, NEW s \in Seq(DbRecords), WasHeld(s, k)
  PROVE  /\ \A r \in DbRecords : (<<k, r>> \in held) =>
               /\ Append(s, r) \in Seq(DbRecords) /\ WasHeld(Append(s, r), k)
               /\ DbUpdate(s, r) \in Seq(DbRecords) /\ WasHeld(DbUpdate(s, r), k)
         /\ \A n \in Nat : RemoveIndex(s, n) \in Seq(DbRecords) /\ WasHeld(RemoveIndex(s, n), k)
  <1>0. Len(s) \in Nat
    OBVIOUS
  <1>1. ASSUME NEW r \in DbRecords, <<k, r>> \in held
        PROVE  Append(s, r) \in Seq(DbRecords) /\ WasHeld(Append(s, r), k)
    <2>1. Append(s, r) \in Seq(DbRecords) /\ Len(Append(s, r)) = Len(s) + 1
      OBVIOUS
    <2>2. \A i \in 1..(Len(s) + 1) : Append(s, r)[i] = IF i = Len(s) + 1 THEN r ELSE s[i]
      OBVIOUS
    <2> QED
      BY <1>0, <1>1, <2>1, <2>2 DEF WasHeld
  <1>2. ASSUME NEW r \in DbRecords, <<k, r>> \in held
        PROVE  DbUpdate(s, r) \in Seq(DbRecords) /\ WasHeld(DbUpdate(s, r), k)
    <2> DEFINE p == Index(s, r.id)
    <2>1. CASE p = 0
      BY <2>1 DEF DbUpdate
    <2>2. CASE p # 0
      <3>1. p \in 1..Len(s)
        BY <2>2, IndexIs
      <3>2. DbUpdate(s, r) = ReplaceAt(s, p, r)
        BY <2>2 DEF DbUpdate
      <3> HIDE DEF p
      <3>3. /\ ReplaceAt(s, p, r) \in Seq(DbRecords) /\ Len(ReplaceAt(s, p, r)) = Len(s)
            /\ \A j \in 1..Len(s) : ReplaceAt(s, p, r)[j] = IF j = p THEN r ELSE s[j]
        BY <3>1, ReplacedAt
      <3> QED
        BY <1>2, <3>2, <3>3 DEF WasHeld
    <2> QED
      BY <2>1, <2>2
  <1>3. ASSUME NEW n \in Nat
        PROVE  RemoveIndex(s, n) \in Seq(DbRecords) /\ WasHeld(RemoveIndex(s, n), k)
    <2>1. CASE n \in 1..Len(s)
      <3>1. RemoveIndex(s, n) = RemoveAt(s, n)
        BY <2>1 DEF RemoveIndex
      <3>2. /\ RemoveAt(s, n) \in Seq(DbRecords) /\ Len(RemoveAt(s, n)) = Len(s) - 1
            /\ \A j \in 1..(Len(s) - 1) : RemoveAt(s, n)[j] = IF j < n THEN s[j] ELSE s[j + 1]
        BY <2>1, RemovedAt
      <3>3. \A j \in 1..(Len(s) - 1) : j \in 1..Len(s) /\ j + 1 \in 1..Len(s)
        BY <1>0
      <3> QED
        BY <3>1, <3>2, <3>3 DEF WasHeld
    <2>2. CASE n \notin 1..Len(s)
      BY <2>2 DEF RemoveIndex
    <2> QED
      BY <2>1, <2>2
  <1> QED
    BY <1>1, <1>2, <1>3

LEMMA AppliedFits ==
  ASSUME WorkspaceInv, NEW f \in flights, f.at = "done"
  PROVE  Applied(f) \in Copies /\ \A k \in Collections : WasHeld(Applied(f)[k], k)
  <1>1. /\ f \in FlightRecords /\ FlightFits(f) /\ f.kind \in Collections /\ f.index \in Nat /\ f.record \in DbRecords
        /\ f.op \in FlightOps
    BY DEF WorkspaceInv, WorkspaceTyped, FlightRecords
  <1>2. db \in Copies /\ db[f.kind] \in Seq(DbRecords) /\ \A k \in Collections : WasHeld(db[k], k)
    BY <1>1 DEF WorkspaceInv, WorkspaceTyped, CopyFits, Copies
  <1>3. ASSUME NEW s \in Seq(DbRecords), WasHeld(s, f.kind), Applied(f) = [db EXCEPT ![f.kind] = s]
        PROVE  Applied(f) \in Copies /\ \A k \in Collections : WasHeld(Applied(f)[k], k)
    <2>1. Applied(f) \in Copies
      BY <1>1, <1>2, <1>3 DEF Copies
    <2>2. \A k \in Collections : Applied(f)[k] = IF k = f.kind THEN s ELSE db[k]
      BY <1>1, <1>2, <1>3 DEF Copies
    <2> QED
      BY <1>2, <1>3, <2>1, <2>2
  <1>4. CASE IsReading(f)
    BY <1>1, <1>4, AppliedIs DEF FlightFits
  <1>5. CASE f.op = "save" /\ f.id = 0
    <2>1. <<f.kind, f.record>> \in held
      BY <1>1, <1>5 DEF FlightFits, IsWriting
    <2>2. Append(db[f.kind], f.record) \in Seq(DbRecords) /\ WasHeld(Append(db[f.kind], f.record), f.kind)
      BY <2>1, <1>1, <1>2, HeldLists
    <2> QED
      BY <1>3, <1>5, <2>2, AppliedIs
  <1>6. CASE IsWriting(f) /\ f.id # 0
    <2>1. <<f.kind, f.record>> \in held
      BY <1>1, <1>6 DEF FlightFits
    <2>2. DbUpdate(db[f.kind], f.record) \in Seq(DbRecords) /\ WasHeld(DbUpdate(db[f.kind], f.record), f.kind)
      BY <2>1, <1>1, <1>2, HeldLists
    <2> QED
      BY <1>3, <1>6, <2>2, AppliedIs
  <1>7. CASE f.op = "delete"
    <2>1. Index(db[f.kind], f.id) \in Nat
      BY <1>2, IndexIs
    <2>2. \A n \in Nat : RemoveIndex(db[f.kind], n) \in Seq(DbRecords) /\ WasHeld(RemoveIndex(db[f.kind], n), f.kind)
      BY <1>1, <1>2, HeldLists
    <2>3. \E n \in Nat : Applied(f) = [db EXCEPT ![f.kind] = RemoveIndex(db[f.kind], n)]
      BY <1>1, <1>7, <2>1, AppliedIs
    <2> QED
      BY <1>3, <2>2, <2>3
  <1>8. CASE f.op = "launch"
    BY <1>2, <1>8, AppliedIs
  <1>9. (IsWriting(f) /\ f.id = 0) => (f.op = "save")
    BY <1>1, WorkspaceAssumption DEF FlightFits, IsReading, IsWriting
  <1> QED
    BY <1>1, <1>4, <1>5, <1>6, <1>7, <1>8, <1>9 DEF FlightOps, IsReading, IsWriting

\* The other flights when one ends.
LEMMA OtherFlightsFit ==
  ASSUME WorkspaceInv, NEW f \in flights, saving' \in {saving, saving \ {Token(f)}}, UNCHANGED held,
         booted' = booted \/ f.op = "bootstrap"
  PROVE  \A h \in flights \ {f} : FlightFits(h)'
  <1> SUFFICES ASSUME NEW h \in flights, h # f PROVE FlightFits(h)'
    OBVIOUS
  <1>1. FlightFits(h) /\ Excludes(f, h)
    BY DEF WorkspaceInv, FlightsFitTogether
  <1>2. booted' = booted
    BY <1>1 DEF Excludes
  <1>3. IsWrapped(h) => (Token(h) \in saving')
    <2> SUFFICES ASSUME IsWrapped(h) PROVE Token(h) # Token(f)
      BY <1>1 DEF FlightFits
    <2>1. CASE IsWrapped(f)
      BY <1>1, <2>1 DEF Excludes
    <2>2. CASE ~IsWrapped(f)
      BY <2>2 DEF Token, IsWrapped
    <2> QED
      BY <2>1, <2>2
  <1> QED
    BY <1>1, <1>2, <1>3 DEF FlightFits, WasHeld

LEMMA EndedIs ==
  ASSUME NEW f, EndsPending(f)
  PROVE  saving' = saving \ {Token(f)}
  BY DEF EndsPending, Token

\* Nothing on the way afterwards but a reading that was just sent.
LEMMA QuietEnd ==
  ASSUME NEW F, flights' = F, (quiet') => (\A g, h \in F : g = h),
         (quiet') => (\A g \in F : IsReading(g) /\ g.at = "sent"),
         (quiet' /\ F = {} /\ booted' = "ready" /\ ~warned') => Exact'
  PROVE  QuietFits'
  BY DEF QuietFits, QuietFlight, IsReading

LEMMA SucceedsStep ==
  ASSUME WorkspaceInv, NEW f \in flights, Succeeds(f)
  PROVE  WorkspaceInv'
  <1>1. /\ f.at = "done" /\ db' = Applied(f) /\ modal' \in {modal, NoModal}
        /\ booted' = (IF f.op = "bootstrap" THEN "ready" ELSE booted)
        /\ saving' = (IF f.op = "launch" THEN saving ELSE saving \ {Token(f)})
        /\ flights' = (flights \ {f}) \cup (IF f.op = "launch" THEN {Refresh} ELSE {})
        /\ UNCHANGED <<api, held, operations, warned, quiet>>
    BY EndedIs DEF Succeeds, ShownAfterAnswer, KeepsApi
  <1>2. f \in FlightRecords /\ FlightFits(f) /\ \A h \in flights : Excludes(f, h) /\ Excludes(h, f)
    BY DEF WorkspaceInv, WorkspaceTyped, FlightsFitTogether
  <1>3. db' \in Copies /\ CopyFits'
    <2>1. Applied(f) \in Copies /\ \A k \in Collections : WasHeld(Applied(f)[k], k)
      BY <1>1, AppliedFits
    <2> QED
      BY <1>1, <2>1 DEF CopyFits, WasHeld
  <1>4. Refresh \in FlightRecords /\ Refresh.op = "refresh" /\ Refresh.kind = "intimations" /\ Refresh.at = "sent"
    BY BootstrapIs
  <1>5. WorkspaceTyped'
    <2>1. flights' \in SUBSET FlightRecords
      BY <1>1, <1>4 DEF WorkspaceInv, WorkspaceTyped
    <2>2. modal' \in Modals /\ ((modal' # NoModal) => (booted' = "ready"))
      BY <1>1 DEF WorkspaceInv, WorkspaceTyped, Modals
    <2> QED
      BY <1>1, <1>3, <2>1, <2>2 DEF WorkspaceInv, WorkspaceTyped
  <1>6. ApiFits'
    BY <1>1 DEF WorkspaceInv, ApiFits
  <1>7. \A h \in flights \ {f} : FlightFits(h)'
    BY <1>1, OtherFlightsFit
  <1>8. quiet' => flights = {f}
    BY <1>1 DEF WorkspaceInv, QuietFits
  <1>9. CASE f.op # "launch"
    <2>1. flights' = flights \ {f}
      BY <1>1, <1>9
    <2>2. \A h \in flights' : FlightFits(h)'
      BY <1>7, <2>1
    <2>3. FlightsFitTogether'
      BY <2>1 DEF WorkspaceInv, FlightsFitTogether
    <2>4. ASSUME quiet', booted' = "ready", ~warned' PROVE Exact'
      <3>1. QuietFlight(f) /\ ~warned
        BY <1>1, <2>4 DEF WorkspaceInv, QuietFits
      <3>2. \A k \in Collections : Lists(Applied(f)[k], api[k])
        BY <1>1, <1>9, <3>1, AppliedIs DEF QuietFlight
      <3> QED
        BY <1>1, <3>2 DEF Exact
    <2>5. QuietFits'
      BY <1>8, <2>1, <2>4, QuietEnd
    <2> QED
      BY <1>3, <1>5, <1>6, <2>2, <2>3, <2>5 DEF WorkspaceInv
  <1>10. CASE f.op = "launch"
    <2> SUFFICES ASSUME NEW g, g = Refresh PROVE WorkspaceInv'
      OBVIOUS
    <2>0. flights' = (flights \ {f}) \cup {g} /\ g.op = "refresh" /\ g.kind = "intimations" /\ g.at = "sent"
      BY <1>1, <1>4, <1>10
    <2>1. FlightFits(g)'
      BY <1>1, <1>2, <1>10, <2>0 DEF FlightFits, IsReading, IsWriting, IsWrapped, Token
    <2>2. \A h \in flights' : FlightFits(h)'
      BY <1>7, <2>0, <2>1
    <2>3. \A h \in flights \ {f} : Excludes(g, h) /\ Excludes(h, g)
      BY <1>2, <1>10, <2>0 DEF FlightFits, Excludes, IsWrapped, Token
    <2>4. FlightsFitTogether'
      <3>1. Excludes(g, g)
        BY DEF Excludes
      <3> QED
        BY <2>0, <2>3, <3>1 DEF WorkspaceInv, FlightsFitTogether
    <2>5. quiet' => flights' = {g}
      BY <1>8, <2>0
    <2>6. QuietFits'
      BY <2>0, <2>5, QuietEnd DEF IsReading
    <2> QED
      BY <1>3, <1>5, <1>6, <2>2, <2>4, <2>6 DEF WorkspaceInv
  <1> QED
    BY <1>9, <1>10

LEMMA FailsStep ==
  ASSUME WorkspaceInv, NEW f \in flights, Fails(f)
  PROVE  WorkspaceInv'
  <1>1. /\ flights' = flights \ {f} /\ quiet' = (quiet /\ f.at = "sent")
        /\ warned' = (warned \/ f.op = "refresh")
        /\ booted' = (IF f.op = "bootstrap" THEN "error" ELSE booted)
        /\ saving' = saving \ {Token(f)}
        /\ UNCHANGED <<api, held, db, modal, operations>>
    BY EndedIs DEF Fails, KeepsApi
  <1>2. f \in FlightRecords /\ FlightFits(f)
    BY DEF WorkspaceInv, WorkspaceTyped
  <1>3. WorkspaceTyped'
    BY <1>1, <1>2 DEF WorkspaceInv, WorkspaceTyped, FlightFits
  <1>4. ApiFits' /\ CopyFits'
    BY <1>1 DEF WorkspaceInv, ApiFits, CopyFits, WasHeld
  <1>5. \A h \in flights' : FlightFits(h)'
    BY <1>1, OtherFlightsFit
  <1>6. FlightsFitTogether'
    BY <1>1 DEF WorkspaceInv, FlightsFitTogether
  <1>7. ASSUME quiet', booted' = "ready", ~warned' PROVE Exact'
    <2>1. QuietFlight(f) /\ ~IsReading(f) /\ f.at = "sent" /\ ~warned
      BY <1>1, <1>7 DEF WorkspaceInv, QuietFits, IsReading
    <2> QED
      BY <1>1, <2>1 DEF QuietFlight, Exact
  <1>8. quiet' => flights' = {}
    BY <1>1 DEF WorkspaceInv, QuietFits
  <1>9. QuietFits'
    BY <1>7, <1>8, QuietEnd
  <1> QED
    BY <1>3, <1>4, <1>5, <1>6, <1>9 DEF WorkspaceInv

LEMMA ApiTakesStep ==
  ASSUME WorkspaceInv, NEW f \in flights, ApiTakes(f)
  PROVE  WorkspaceInv'
  <1> DEFINE k == f.kind
  <1>0. f.at = "sent" /\ UNCHANGED <<db, booted, saving, modal, operations, warned, quiet>>
    BY DEF ApiTakes
  <1>1. f.op \in FlightOps
    BY DEF WorkspaceInv, WorkspaceTyped, FlightRecords
  <1>2. CASE IsReading(f)
    <2>1. /\ Carried(f, [f EXCEPT !.snapshot = [c \in Collections |-> Listed(c)]])
          /\ UNCHANGED <<api, held>>
      BY <1>2 DEF ApiTakes, IsReading, KeepsApi
    <2> QED
      BY <1>0, <1>2, <2>1, TakesReadingStep
  <1>3. CASE f.op = "save" /\ f.id = 0
    <2>1. \E n \in 1..MaxId : /\ IsNext(k, n)
                              /\ Carried(f, [f EXCEPT !.record.id = n])
                              /\ Put(k, n, [text |-> f.record.text, done |-> f.record.done])
                              /\ Holds([f.record EXCEPT !.id = n], k)
      BY <1>3 DEF ApiTakes
    <2>2. PICK n \in 1..MaxId : /\ api[k][n] = Absent
                               /\ Carried(f, [f EXCEPT !.record.id = n])
                               /\ Put(k, n, TextOf(f.record))
                               /\ Holds([f.record EXCEPT !.id = n], k)
      BY <2>1 DEF TextOf, IsNext, Unused
    <2> QED
      BY <1>0, <1>3, <2>2, TakesCreateStep
  <1>4. CASE IsWriting(f) /\ f.id # 0
    <2>1. /\ f.id \in Stored(k) /\ Carried(f, f) /\ Holds(f.record, k)
          /\ Put(k, f.id, [text |-> f.record.text, done |-> f.record.done])
      BY <1>4 DEF ApiTakes, IsWriting
    <2>2. Put(k, f.id, TextOf(f.record))
      BY <2>1 DEF TextOf
    <2> QED
      BY <1>0, <1>4, <2>1, <2>2, TakesUpdateStep
  <1>5. CASE f.op = "delete"
    <2>1. f.id \in Stored(k) /\ Carried(f, f) /\ Put(k, f.id, Absent) /\ held' = held
      BY <1>5 DEF ApiTakes
    <2> QED
      BY <1>0, <1>5, <2>1, TakesDeleteStep
  <1>6. CASE f.op = "launch"
    <2>1. f.id \in Stored(k) /\ TakesLaunch(f)
      BY <1>6 DEF ApiTakes
    <2> QED
      BY <1>0, <1>6, <2>1, TakesLaunchStep
  <1>7. (IsWriting(f) /\ f.id = 0) => (f.op = "save")
    <2>1. FlightFits(f)
      BY DEF WorkspaceInv
    <2> QED
      BY <2>1, WorkspaceAssumption DEF FlightFits, IsReading, IsWriting
  <1> QED
    BY <1>1, <1>2, <1>3, <1>4, <1>5, <1>6, <1>7 DEF FlightOps, IsReading, IsWriting

LEMMA WorkspaceNextInv ==
  ASSUME WorkspaceInv, [WorkspaceNext]_workspaceVars
  PROVE  WorkspaceInv'
  <1>0. "clients" \in Collections /\ "processes" \in Collections /\ "deadlines" \in Collections /\ "appointments" \in Collections
        /\ "intimations" \in Collections /\ "financial" \in Collections /\ "movements" \in Collections
    BY DEF Collections
  <1>1. CASE UNCHANGED workspaceVars
    <2>1. modal' \in Modals /\ ((modal' # NoModal) => (booted = "ready"))
      BY <1>1 DEF WorkspaceInv, WorkspaceTyped, workspaceVars
    <2> QED
      BY <1>1, <2>1, ModalStep DEF workspaceVars
  <1>2. CASE StartWorkspace \/ ReloadWorkspace \/ CloseModal \/ SaveRecord
    BY <1>2, StartWorkspaceStep, ReloadWorkspaceStep, CloseModalStep, SaveRecordStep
  <1>3. ASSUME NEW k \in Collections, NEW id \in 0..MaxId, OpenModal(k, id) PROVE WorkspaceInv'
    BY <1>3, OpenModalStep
  <1>4. ASSUME NEW id \in 1..MaxId, CompleteDeadline(id) \/ ConcludeIntimation(id) \/ LaunchIntimation(id)
        PROVE  WorkspaceInv'
    BY <1>0, <1>4, CompleteStep, LaunchIntimationStep DEF CompleteDeadline, ConcludeIntimation
  <1>5. ASSUME NEW id \in 1..MaxId, \/ DeleteClient(id) \/ DeleteProcess(id) \/ DeleteDeadline(id)
                                    \/ DeleteAppointment(id) \/ DeleteFinancial(id) \/ DeleteMovement(id)
        PROVE  WorkspaceInv'
    BY <1>0, <1>5, DeleteStep
       DEF DeleteClient, DeleteProcess, DeleteDeadline, DeleteAppointment, DeleteFinancial, DeleteMovement
  <1>6. ASSUME NEW f \in flights, ApiTakes(f) \/ Succeeds(f) \/ Fails(f) PROVE WorkspaceInv'
    BY <1>6, ApiTakesStep, SucceedsStep, FailsStep
  <1> QED
    BY <1>1, <1>2, <1>3, <1>4, <1>5, <1>6 DEF WorkspaceNext

-----------------------------------------------------------------------------
(* The file of a process. *)

\* The numbers of the movements that are stored.
NumbersFit ==
    /\ lastAct \in Nat
    /\ \A a \in actsStored : a.id \in 1..lastAct
    /\ \A a, b \in actsStored : a.id = b.id => a = b

\* While no request met another, or a reading, the list has each movement that
\* is stored once, and a deletion under way knows the place of its movement.
ListFits ==
    /\ acts \in Seq(actsStored)
    /\ \A a \in actsStored : \E i \in 1..Len(acts) : acts[i] = a
    /\ \A i, j \in 1..Len(acts) : acts[i].id = acts[j].id => i = j
    /\ \A c, d \in actCalls : c = d
    /\ \A c \in actCalls : c.op = "delete" => c.index = ActIndex(c.id)

FileInv == NumbersFit /\ (~actsRaced => ListFits) /\ FileIsOfChosen

LEMMA ListIsOfStored ==
  ASSUME FileInv
  PROVE  ListIsStored
  BY DEF FileInv, ListFits, ListIsStored

(* The place of a movement in the list.                                        *)
LEMMA PlaceOfAct ==
  ASSUME NEW id
  PROVE  \/ ActIndex(id) = 0 /\ \A i \in DOMAIN acts : acts[i].id # id
         \/ ActIndex(id) \in DOMAIN acts /\ acts[ActIndex(id)].id = id
  BY DEF ActIndex

LEMMA FileInitInv == SuitsInit => FileInv
  <1> SUFFICES ASSUME SuitsInit PROVE FileInv
    OBVIOUS
  <1>1. acts = <<>> /\ actsStored = {} /\ lastAct = 0 /\ actCalls = {} /\ suitModal = NoSuitModal
    BY DEF SuitsInit
  <1>2. NumbersFit /\ ListFits
    BY <1>1 DEF NumbersFit, ListFits
  <1>3. NoSuitModal.kind # "file"
    BY DEF NoSuitModal
  <1> QED
    BY <1>1, <1>2, <1>3 DEF FileInv, FileIsOfChosen

(* What is drawn is of the process and the tab chosen last.                    *)
LEMMA DrawnIsOfChosen ==
  ASSUME NEW st, NEW all, NEW otherwise, SuitDrawn(st, all, otherwise), suitState' = st,
         (st.of \notin suitsKept) => (otherwise.kind = "file" => (otherwise.of = st.of))
  PROVE  (suitsKept' = suitsKept) => FileIsOfChosen'
  <1> SUFFICES ASSUME suitsKept' = suitsKept PROVE FileIsOfChosen'
    OBVIOUS
  <1>1. CASE st.of \in suitsKept
    <2>1. suitModal' = [NoSuitModal EXCEPT !.kind = "file", !.of = st.of, !.tab = st.tab, !.rows = SuitTab(st.of, st.tab, all)]
      BY <1>1 DEF SuitDrawn
    <2>2. {"kind", "of", "tab"} \subseteq DOMAIN NoSuitModal
      BY DEF NoSuitModal
    <2>3. suitModal'.of = st.of /\ suitModal'.tab = st.tab
      BY <2>1, <2>2
    <2> QED
      BY <2>3 DEF FileIsOfChosen
  <1>2. CASE st.of \notin suitsKept
    BY <1>2 DEF SuitDrawn, FileIsOfChosen
  <1> QED
    BY <1>1, <1>2

LEMMA NoSuitIsNoFile ==
  ASSUME NEW o, NEW n
  PROVE  /\ NoSuitModal.kind # "file"
         /\ [NoSuitModal EXCEPT !.kind = "form", !.of = o, !.act = n].kind # "file"
  BY DEF NoSuitModal

(* Steps that ask, choose and close change neither list.                       *)
LEMMA CalledStep ==
  ASSUME FileInv, NEW call, Called(call), call.op = "delete" => call.index = ActIndex(call.id)
  PROVE  NumbersFit' /\ (~actsRaced' => ListFits')
  <1>1. UNCHANGED <<acts, actsStored, lastAct>> /\ actCalls' = actCalls \union {call}
        /\ actsRaced' = (actsRaced \/ actCalls # {})
    BY DEF Called
  <1>2. NumbersFit'
    BY <1>1 DEF FileInv, NumbersFit
  <1>3. ASSUME ~actsRaced' PROVE ListFits'
    <2>1. ~actsRaced /\ actCalls' = {call}
      BY <1>1, <1>3
    <2>2. ActIndex(call.id)' = ActIndex(call.id)
      BY <1>1 DEF ActIndex
    <2> QED
      BY <1>1, <2>1, <2>2 DEF FileInv, ListFits
  <1> QED
    BY <1>2, <1>3

LEMMA ListsRest ==
  ASSUME FileInv, UNCHANGED <<acts, actsStored, lastAct, actsRaced>>, actCalls' \subseteq actCalls
  PROVE  NumbersFit' /\ (~actsRaced' => ListFits')
  <1>1. \A id : ActIndex(id)' = ActIndex(id)
    BY DEF ActIndex
  <1> QED
    BY <1>1 DEF FileInv, NumbersFit, ListFits

LEMMA AskSteps ==
  ASSUME FileInv, \/ \E p \in Suits : showProcessDetailFull(p)
                  \/ \E t \in SuitTabs : switchProcessTab(t)
                  \/ \E id \in 0..MaxActs : OpenActForm(id)
                  \/ CloseSuit \/ generateReport
  PROVE  FileInv'
  <1>1. UNCHANGED <<acts, actsStored, lastAct, actsRaced, actCalls, suitsKept>>
    BY DEF showProcessDetailFull, switchProcessTab, OpenActForm, CloseSuit, generateReport, NoAnswerYet
  <1>2. NumbersFit' /\ (~actsRaced' => ListFits')
    BY <1>1, ListsRest
  <1>3. ASSUME NEW p \in Suits, showProcessDetailFull(p) PROVE FileIsOfChosen'
    <2>1. suitModal = NoSuitModal /\ SuitDrawn(suitState', acts, suitModal)
      BY <1>3 DEF showProcessDetailFull
    <2>2. suitModal.kind # "file"
      BY <2>1, NoSuitIsNoFile
    <2> QED
      BY <1>1, <2>1, <2>2, DrawnIsOfChosen
  <1>4. ASSUME NEW t \in SuitTabs, switchProcessTab(t) PROVE FileIsOfChosen'
    <2>1. suitState' = [suitState EXCEPT !.tab = t] /\ SuitDrawn(suitState', acts, suitModal) /\ suitModal.kind = "file"
      BY <1>4 DEF switchProcessTab
    <2>2. suitState'.of = suitState.of
      BY <2>1
    <2>3. suitModal.of = suitState.of
      BY <2>1 DEF FileInv, FileIsOfChosen
    <2> QED
      BY <1>1, <2>1, <2>2, <2>3, DrawnIsOfChosen
  <1>5. ASSUME NEW id \in 0..MaxActs, OpenActForm(id) PROVE FileIsOfChosen'
    BY <1>5, NoSuitIsNoFile DEF OpenActForm, FileIsOfChosen
  <1>6. ASSUME CloseSuit PROVE FileIsOfChosen'
    BY <1>6, NoSuitIsNoFile DEF CloseSuit, FileIsOfChosen
  <1>7. ASSUME generateReport PROVE FileIsOfChosen'
    BY <1>7 DEF generateReport, FileInv, FileIsOfChosen
  <1> QED
    BY <1>2, <1>3, <1>4, <1>5, <1>6, <1>7 DEF FileInv

LEMMA CallSteps ==
  ASSUME FileInv, \/ \E day \in ActDays : SaveAct(day)
                  \/ \E id \in 0..MaxActs : DeleteAct(id)
  PROVE  FileInv'
  <1>1. ASSUME NEW day \in ActDays, SaveAct(day) PROVE FileInv'
    <2> DEFINE c == [op |-> "save", id |-> suitModal.act, of |-> suitModal.of, day |-> day, index |-> 0]
    <2>1. Called(c) /\ c.op = "save" /\ UNCHANGED suitModal
      BY <1>1 DEF SaveAct
    <2> HIDE DEF c
    <2>2. NumbersFit' /\ (~actsRaced' => ListFits')
      BY <2>1, CalledStep
    <2> QED
      BY <2>1, <2>2 DEF Called, FileInv, FileIsOfChosen
  <1>2. ASSUME NEW id \in 0..MaxActs, DeleteAct(id) PROVE FileInv'
    <2> DEFINE c == [op |-> "delete", id |-> id, of |-> suitModal.of, day |-> 0, index |-> ActIndex(id)]
    <2>1. Called(c) /\ c.index = ActIndex(c.id) /\ (suitModal' = suitModal \/ suitModal' = NoSuitModal)
      BY <1>2 DEF DeleteAct
    <2> HIDE DEF c
    <2>2. NumbersFit' /\ (~actsRaced' => ListFits')
      BY <2>1, CalledStep
    <2> QED
      BY <2>1, <2>2, NoSuitIsNoFile DEF Called, FileInv, FileIsOfChosen
  <1> QED
    BY <1>1, <1>2

(* An answer: what it makes of the list is what the API made of the movements. *)
LEMMA SavedFits ==
  ASSUME FileInv, NEW call \in actCalls, ActSaved(call)
  PROVE  NumbersFit' /\ (~actsRaced' => ListFits')
  <1> DEFINE number == IF call.id = 0 THEN lastAct + 1 ELSE call.id
             saved == [id |-> number, of |-> call.of, day |-> call.day]
             n == Len(acts)
  <1>1. /\ actCalls' = actCalls \ {call} /\ actsRaced' = actsRaced
        /\ actsStored' = {a \in actsStored : a.id # number} \union {saved}
    BY DEF ActSaved, ActAnswered
  <1>2. CASE call.id = 0
    <2>1. lastAct' = lastAct + 1 /\ acts' = Append(acts, saved) /\ number = lastAct + 1 /\ saved.id = lastAct + 1
      BY <1>2 DEF ActSaved
    <2> HIDE DEF number, saved
    <2>2. lastAct \in Nat /\ \A a \in actsStored : a.id \in 1..lastAct
      BY DEF FileInv, NumbersFit
    <2>3. actsStored' = actsStored \union {saved}
      BY <1>1, <2>1, <2>2
    <2>4. NumbersFit'
      BY <2>1, <2>2, <2>3 DEF FileInv, NumbersFit
    <2>5. ASSUME ~actsRaced' PROVE ListFits'
      <3>1. ListFits /\ actCalls' = {}
        BY <1>1, <2>5 DEF FileInv, ListFits
      <3>2. acts \in Seq(actsStored) /\ n \in Nat
        BY <3>1 DEF ListFits
      <3>3. acts \in Seq(actsStored') /\ saved \in actsStored'
        BY <2>3, <3>2
      <3>4. acts' \in Seq(actsStored') /\ Len(acts') = n + 1 /\ acts'[n + 1] = saved /\ \A i \in 1..n : acts'[i] = acts[i]
        BY <2>1, <3>3
      <3>5. \A i \in 1..n : acts[i].id \in 1..lastAct
        BY <2>2, <3>2
      <3>6. \A a \in actsStored' : \E i \in 1..Len(acts') : acts'[i] = a
        <4>1. n + 1 \in 1..Len(acts')
          BY <3>2, <3>4
        <4>2. \A a \in actsStored : \E i \in 1..n : acts[i] = a
          BY <3>1 DEF ListFits
        <4>3. \A i \in 1..n : i \in 1..Len(acts')
          BY <3>2, <3>4
        <4> QED
          BY <2>3, <3>4, <4>1, <4>2, <4>3
      <3>7. \A i, j \in 1..Len(acts') : acts'[i].id = acts'[j].id => i = j
        <4>1. \A i, j \in 1..n : acts[i].id = acts[j].id => i = j
          BY <3>1 DEF ListFits
        <4>2. \A i \in 1..Len(acts') : i \in 1..n \/ i = n + 1
          BY <3>2, <3>4
        <4> QED
          BY <2>1, <2>2, <3>4, <3>5, <4>1, <4>2
      <3> QED
        BY <3>1, <3>4, <3>6, <3>7 DEF ListFits
    <2> QED
      BY <2>4, <2>5
  <1>3. CASE call.id # 0
    <2> DEFINE k == ActIndex(number)
    <2>1. /\ lastAct' = lastAct /\ saved.id = number /\ \E a \in actsStored : a.id = number
          /\ acts' = IF k = 0 THEN acts ELSE ReplaceAt(acts, k, saved)
      BY <1>3 DEF ActSaved
    <2>0. (k = 0 /\ \A i \in DOMAIN acts : acts[i].id # number) \/ (k \in DOMAIN acts /\ acts[k].id = number)
      BY PlaceOfAct
    <2> HIDE DEF number, saved, k
    <2>2. lastAct \in Nat /\ number \in 1..lastAct /\ \A a \in actsStored : a.id \in 1..lastAct
      BY <2>1 DEF FileInv, NumbersFit
    <2>3. NumbersFit'
      BY <1>1, <2>1, <2>2 DEF FileInv, NumbersFit
    <2>4. ASSUME ~actsRaced' PROVE ListFits'
      <3>1. ListFits /\ actCalls' = {}
        BY <1>1, <2>4 DEF FileInv, ListFits
      <3>2. acts \in Seq(actsStored) /\ n \in Nat /\ DOMAIN acts = 1..n
        BY <3>1 DEF ListFits
      <3>3. k \in 1..n /\ acts[k].id = number
        BY <2>0, <2>1, <3>1, <3>2 DEF ListFits
      <3>4. acts' = ReplaceAt(acts, k, saved)
        BY <2>1, <3>3
      <3>5. /\ DOMAIN acts' = 1..n /\ acts' = [i \in 1..n |-> IF i = k THEN saved ELSE acts[i]]
        BY <3>2, <3>4 DEF ReplaceAt
      <3>6. \A i, j \in 1..n : acts[i].id = acts[j].id => i = j
        BY <3>1 DEF ListFits
      <3>7. \A i \in 1..n : i # k => acts[i] \in actsStored /\ acts[i].id # number
        BY <3>2, <3>3, <3>6
      <3>8. \A i \in 1..n : acts'[i] \in actsStored'
        BY <1>1, <3>5, <3>7
      <3>9. acts' \in Seq(actsStored') /\ Len(acts') = n
        BY <3>2, <3>5, <3>8
      <3>10. \A a \in actsStored' : \E i \in 1..n : acts'[i] = a
        <4>1. \A a \in actsStored : a.id # number => \E i \in 1..n : i # k /\ acts[i] = a
          BY <3>1, <3>3 DEF ListFits
        <4> QED
          BY <1>1, <3>3, <3>5, <4>1
      <3>11. \A i, j \in 1..n : acts'[i].id = acts'[j].id => i = j
        BY <2>1, <3>5, <3>6, <3>7
      <3> QED
        BY <3>1, <3>9, <3>10, <3>11 DEF ListFits
    <2> QED
      BY <2>3, <2>4
  <1> QED
    BY <1>2, <1>3

LEMMA DeletedFits ==
  ASSUME FileInv, NEW call \in actCalls, ActDeleted(call)
  PROVE  NumbersFit' /\ (~actsRaced' => ListFits')
  <1> DEFINE k == call.index
             n == Len(acts)
  <1>1. /\ actCalls' = actCalls \ {call} /\ actsRaced' = actsRaced /\ lastAct' = lastAct
        /\ actsStored' = {a \in actsStored : a.id # call.id} /\ call.op = "delete"
        /\ \E a \in actsStored : a.id = call.id
    BY DEF ActDeleted, ActAnswered
  <1>2. NumbersFit'
    BY <1>1 DEF FileInv, NumbersFit
  <1>3. ASSUME ~actsRaced' PROVE ListFits'
    <2>1. ListFits /\ actCalls' = {}
      BY <1>1, <1>3 DEF FileInv, ListFits
    <2>2. acts \in Seq(actsStored) /\ n \in Nat /\ DOMAIN acts = 1..n
      BY <2>1 DEF ListFits
    <2>3. k = ActIndex(call.id)
      BY <1>1, <2>1 DEF ListFits
    <2>4. k \in 1..n /\ acts[k].id = call.id
      BY <1>1, <2>1, <2>2, <2>3, PlaceOfAct DEF ListFits
    <2>5. acts' = RemoveAt(acts, k)
      BY <2>4 DEF ActDeleted
    <2>6. /\ acts' \in Seq(actsStored) /\ Len(acts') = n - 1
          /\ \A j \in 1..(n - 1) : acts'[j] = IF j < k THEN acts[j] ELSE acts[j + 1]
      BY <2>2, <2>4, <2>5, RemovedAt
    <2> HIDE DEF k, n
    <2>7. \A i, j \in 1..n : acts[i].id = acts[j].id => i = j
      BY <2>1 DEF ListFits, n
    <2>8. \A j \in 1..(n - 1) : acts'[j] \in actsStored'
      <3> SUFFICES ASSUME NEW j \in 1..(n - 1) PROVE acts'[j] \in actsStored'
        OBVIOUS
      <3> DEFINE i == IF j < k THEN j ELSE j + 1
      <3>1. i \in 1..n /\ i # k /\ acts'[j] = acts[i]
        BY <2>2, <2>4, <2>6
      <3> HIDE DEF i
      <3>2. acts[i] \in actsStored
        BY <2>2, <3>1
      <3> QED
        BY <1>1, <2>4, <2>7, <3>1, <3>2
    <2>9. acts' \in Seq(actsStored')
      <3>1. acts' = [j \in 1..(n - 1) |-> acts'[j]] /\ n - 1 \in Nat
        BY <2>2, <2>4, <2>6
      <3> QED
        BY <2>8, <3>1
    <2>10. \A a \in actsStored' : \E j \in 1..Len(acts') : acts'[j] = a
      <3> SUFFICES ASSUME NEW a \in actsStored' PROVE \E j \in 1..Len(acts') : acts'[j] = a
        OBVIOUS
      <3>1. a \in actsStored /\ a.id # call.id
        BY <1>1
      <3>2. PICK i \in 1..n : acts[i] = a
        BY <2>1, <3>1 DEF ListFits, n
      <3>3. i # k
        BY <2>4, <3>1, <3>2
      <3>4. CASE i < k
        BY <2>2, <2>4, <2>6, <3>2, <3>4
      <3>5. CASE i > k
        <4>1. i - 1 \in 1..(n - 1) /\ ~(i - 1 < k) /\ i - 1 + 1 = i
          BY <2>2, <2>4, <3>5
        <4> QED
          BY <2>6, <3>2, <4>1
      <3> QED
        BY <2>2, <2>4, <3>3, <3>4, <3>5
    <2>11. \A i, j \in 1..Len(acts') : acts'[i].id = acts'[j].id => i = j
      <3> SUFFICES ASSUME NEW i \in 1..(n - 1), NEW j \in 1..(n - 1), acts'[i].id = acts'[j].id PROVE i = j
        BY <2>6
      <3> DEFINE p == IF i < k THEN i ELSE i + 1
                 q == IF j < k THEN j ELSE j + 1
      <3>1. p \in 1..n /\ q \in 1..n /\ acts'[i] = acts[p] /\ acts'[j] = acts[q]
        BY <2>2, <2>4, <2>6
      <3>2. p = q => i = j
        BY <2>2, <2>4
      <3> HIDE DEF p, q
      <3> QED
        BY <2>7, <3>1, <3>2
    <2> QED
      BY <2>1, <2>9, <2>10, <2>11 DEF ListFits
  <1> QED
    BY <1>2, <1>3

LEMMA AnswerSteps ==
  ASSUME FileInv, NEW call \in actCalls, ActSaved(call) \/ ActDeleted(call) \/ ActRefused(call)
  PROVE  FileInv'
  <1>0. UNCHANGED <<suitsKept, suitState>>
    BY DEF ActSaved, ActDeleted, ActRefused, ActAnswered
  <1>1. ASSUME ActSaved(call) PROVE FileInv'
    <2>1. SuitDrawn(suitState, acts', NoSuitModal)
      BY <1>1 DEF ActSaved
    <2>2. FileIsOfChosen'
      BY <1>0, <2>1, DrawnIsOfChosen, NoSuitIsNoFile
    <2> QED
      BY <1>1, <2>2, SavedFits DEF FileInv
  <1>2. ASSUME ActDeleted(call) PROVE FileInv'
    <2>1. (SuitDrawn(suitState, acts', suitModal)) \/ (suitModal' = suitModal)
      BY <1>2 DEF ActDeleted
    <2>2. suitModal.kind = "file" => suitModal.of = suitState.of
      BY DEF FileInv, FileIsOfChosen
    <2>3. ASSUME SuitDrawn(suitState, acts', suitModal) PROVE FileIsOfChosen'
      BY <1>0, <2>2, <2>3, DrawnIsOfChosen
    <2>4. ASSUME suitModal' = suitModal PROVE FileIsOfChosen'
      BY <1>0, <2>4 DEF FileInv, FileIsOfChosen
    <2> QED
      BY <1>2, <2>1, <2>3, <2>4, DeletedFits DEF FileInv
  <1>3. ASSUME ActRefused(call) PROVE FileInv'
    <2>1. UNCHANGED <<acts, actsStored, lastAct, actsRaced, suitModal>> /\ actCalls' \subseteq actCalls
      BY <1>3 DEF ActRefused, ActAnswered
    <2>2. NumbersFit' /\ (~actsRaced' => ListFits')
      BY <2>1, ListsRest
    <2> QED
      BY <1>0, <2>1, <2>2 DEF FileInv, FileIsOfChosen
  <1> QED
    BY <1>1, <1>2, <1>3

(* A reading lists what is stored, in whatever order the days leave open.      *)
LEMMA SuitsReadStep ==
  ASSUME FileInv, NEW gone, SuitsReadAgain(gone)
  PROVE  FileInv'
  <1>1. /\ suitsKept' \subseteq suitsKept /\ UNCHANGED <<lastAct, suitState, suitModal, actCalls>>
        /\ actsStored' \subseteq actsStored /\ acts' \in AsRead(actsStored')
        /\ actsRaced' = (actsRaced \/ actCalls # {})
    BY DEF SuitsReadAgain
  <1>2. NumbersFit'
    BY <1>1 DEF FileInv, NumbersFit
  <1>3. FileIsOfChosen'
    BY <1>1 DEF FileInv, FileIsOfChosen
  <1>4. ASSUME ~actsRaced' PROVE ListFits'
    <2> SUFFICES ASSUME NEW S, S = actsStored', NEW s, s = acts'
                 PROVE  /\ s \in Seq(S) /\ \A a \in S : \E i \in 1..Len(s) : s[i] = a
                        /\ \A i, j \in 1..Len(s) : s[i].id = s[j].id => i = j
      BY <1>1, <1>4 DEF ListFits
    <2> DEFINE n == Cardinality(S)
    <2>1. IsFiniteSet(S) /\ n \in Nat
      <3>1. IsFiniteSet(1..lastAct)
        BY FS_Interval DEF FileInv, NumbersFit
      <3> DEFINE f == [a \in S |-> a.id]
      <3>2. f \in Injection(S, 1..lastAct)
        BY <1>1 DEF FileInv, NumbersFit, Injection, IsInjective
      <3> QED
        BY <3>1, <3>2, FS_Injection, FS_CardinalityType
    <2>2. s \in [1..n -> S] /\ IsInjective(s)
      BY <1>1 DEF AsRead
    <2> HIDE DEF n
    <2>3. s \in Seq(S) /\ Len(s) = n
      BY <2>1, <2>2
    <2>4. s \in Surjection(1..n, S)
      <3>1. s \in Injection(1..n, S)
        BY <2>2 DEF Injection
      <3>2. IsFiniteSet(1..n) /\ Cardinality(1..n) = Cardinality(S)
        <4>1. n \in Int /\ 1 \in Int
          BY <2>1
        <4>2. IsFiniteSet(1..n) /\ Cardinality(1..n) = IF 1 > n THEN 0 ELSE n - 1 + 1
          BY <4>1, FS_Interval
        <4> QED
          BY <2>1, <4>2 DEF n
      <3> QED
        BY <2>1, <3>1, <3>2, FS_Injection
    <2>5. \A a \in S : \E i \in 1..n : s[i] = a
      BY <2>4 DEF Surjection
    <2>6. \A i, j \in 1..n : s[i].id = s[j].id => i = j
      BY <1>1, <2>2 DEF FileInv, NumbersFit, IsInjective
    <2> QED
      BY <2>3, <2>5, <2>6
  <1> QED
    BY <1>2, <1>3, <1>4 DEF FileInv

LEMMA FileNextInv ==
  ASSUME FileInv, [SuitsNext]_suitVars
  PROVE  FileInv'
  <1>1. CASE UNCHANGED suitVars
    <2>1. NumbersFit' /\ (~actsRaced' => ListFits')
      BY <1>1, ListsRest DEF suitVars
    <2> QED
      BY <1>1, <2>1 DEF suitVars, FileInv, FileIsOfChosen
  <1>2. CASE SuitsNext
    BY <1>2, AskSteps, CallSteps, AnswerSteps, SuitsReadStep DEF SuitsNext
  <1> QED
    BY <1>1, <1>2

-----------------------------------------------------------------------------
(* What the file of a process shows: the rows of its tab are those of the      *)
(* lists, filtered and in order, however the lists have changed.               *)

(* The first numbers are as many as the last of them.                          *)
LEMMA CountTo ==
  ASSUME NEW n \in Nat
  PROVE  IsFiniteSet(1..n) /\ Cardinality(1..n) = n
  <1>1. n \in Int /\ 1 \in Int
    OBVIOUS
  <1>2. IsFiniteSet(1..n) /\ Cardinality(1..n) = IF 1 > n THEN 0 ELSE n - 1 + 1
    BY <1>1, FS_Interval
  <1> QED
    BY <1>2

(* The rows of a list at some places: each of the places once, the lower keys  *)
(* first.                                                                      *)
LEMMA PlacesInOrder ==
  ASSUME NEW n \in Nat, NEW P \in SUBSET (1..n), NEW key, key \in [P -> Int], NEW list
  PROVE  \E f \in Bijection(1..Cardinality(P), P) :
            /\ Arranged(list, P, key) = [k \in 1..Cardinality(P) |-> list[f[k]]]
            /\ \A k, l \in 1..Cardinality(P) : k < l => key[f[k]] <= key[f[l]]
  <1> DEFINE c == Cardinality(P)
             Before(i) == {j \in P : key[j] < key[i] \/ (key[j] = key[i] /\ j < i)}
             rank == [i \in P |-> Cardinality(Before(i)) + 1]
             f == [k \in 1..c |-> CHOOSE i \in P : Cardinality(Before(i)) = k - 1]
  <1>1. IsFiniteSet(P) /\ c \in Nat
    BY CountTo, FS_Subset, FS_CardinalityType
  <1>2. \A i \in P : i \in Nat /\ key[i] \in Int
    OBVIOUS
  <1>3. ASSUME NEW i \in P PROVE /\ IsFiniteSet(Before(i)) /\ Cardinality(Before(i)) \in Nat
                                 /\ Cardinality(Before(i)) + 1 \in 1..c
    <2>1. Before(i) \subseteq P \ {i}
      BY <1>2
    <2>2. IsFiniteSet(P \ {i}) /\ Cardinality(P \ {i}) = c - 1
      BY <1>1, FS_RemoveElement
    <2> HIDE DEF Before, c
    <2>3. IsFiniteSet(Before(i)) /\ Cardinality(Before(i)) <= c - 1
      BY <2>1, <2>2, FS_Subset
    <2>4. Cardinality(Before(i)) \in Nat
      BY <2>3, FS_CardinalityType
    <2> QED
      BY <1>1, <2>3, <2>4
  <1>4. ASSUME NEW i \in P, NEW j \in P, i \in Before(j) PROVE Cardinality(Before(i)) < Cardinality(Before(j))
    <2>0. i \in Nat /\ j \in Nat /\ key[i] \in Int /\ key[j] \in Int
          /\ (key[i] < key[j] \/ (key[i] = key[j] /\ i < j))
      BY <1>2, <1>4
    <2>1. Before(i) \subseteq Before(j) \ {i}
      <3> SUFFICES ASSUME NEW x \in Before(i) PROVE x \in Before(j) /\ x # i
        OBVIOUS
      <3>1. x \in P /\ x \in Nat /\ key[x] \in Int /\ (key[x] < key[i] \/ (key[x] = key[i] /\ x < i))
        BY <1>2
      <3> QED
        BY <2>0, <3>1
    <2>2. i \in Before(j)
      BY <1>4
    <2> HIDE DEF Before
    <2>3. IsFiniteSet(Before(j) \ {i}) /\ Cardinality(Before(j) \ {i}) = Cardinality(Before(j)) - 1
      BY <1>3, <2>2, FS_RemoveElement
    <2>4. Cardinality(Before(i)) <= Cardinality(Before(j)) - 1
      BY <2>1, <2>3, FS_Subset
    <2> QED
      BY <1>3, <2>4
  <1>5. \A i, j \in P : i # j => i \in Before(j) \/ j \in Before(i)
    BY <1>2
  <1>6. \A i, j \in P : Cardinality(Before(i)) = Cardinality(Before(j)) => i = j
    <2> SUFFICES ASSUME NEW i \in P, NEW j \in P, i # j PROVE Cardinality(Before(i)) # Cardinality(Before(j))
      OBVIOUS
    <2>1. i \in Before(j) \/ j \in Before(i)
      BY <1>5
    <2> HIDE DEF Before
    <2> QED
      BY <1>3, <1>4, <2>1
  <1> HIDE DEF Before
  <1>7. rank \in Surjection(P, 1..c)
    <2>1. rank \in [P -> 1..c]
      BY <1>3
    <2>2. \A i, j \in P : rank[i] = rank[j] => i = j
      BY <1>3, <1>6
    <2>3. rank \in Injection(P, 1..c)
      BY <2>1, <2>2 DEF Injection, IsInjective
    <2>4. IsFiniteSet(1..c) /\ Cardinality(1..c) = c
      BY <1>1, CountTo
    <2> HIDE DEF rank
    <2> QED
      BY <2>3, <2>4, FS_Injection
  <1>8. \A k \in 1..c : \E i \in P : Cardinality(Before(i)) = k - 1
    <2> SUFFICES ASSUME NEW k \in 1..c PROVE \E i \in P : Cardinality(Before(i)) = k - 1
      OBVIOUS
    <2>1. PICK i \in P : rank[i] = k
      BY <1>7 DEF Surjection
    <2> QED
      BY <1>3, <2>1
  <1>9. \A k \in 1..c : f[k] \in P /\ Cardinality(Before(f[k])) = k - 1
    BY <1>8
  <1>10. Arranged(list, P, key) = [k \in 1..c |-> list[f[k]]]
    BY DEF Arranged, Before
  <1> HIDE DEF f
  <1>11. \A k, l \in 1..c : k < l => key[f[k]] <= key[f[l]]
    <2> SUFFICES ASSUME NEW k \in 1..c, NEW l \in 1..c, k < l PROVE key[f[k]] <= key[f[l]]
      OBVIOUS
    <2>1. f[k] \in P /\ f[l] \in P /\ ~(Cardinality(Before(f[l])) < Cardinality(Before(f[k])))
      BY <1>9
    <2>2. f[l] \notin Before(f[k])
      BY <1>4, <2>1
    <2>3. ~(key[f[l]] < key[f[k]])
      BY <2>1, <2>2 DEF Before
    <2>4. key[f[l]] \in Int /\ key[f[k]] \in Int
      BY <1>2, <2>1
    <2> QED
      BY <2>3, <2>4
  <1>12. f \in Bijection(1..c, P)
    <2>1. f \in [1..c -> P]
      BY <1>9 DEF f
    <2>2. \A k, l \in 1..c : f[k] = f[l] => k = l
      BY <1>9
    <2>3. \A i \in P : \E k \in 1..c : f[k] = i
      <3> SUFFICES ASSUME NEW i \in P PROVE \E k \in 1..c : f[k] = i
        OBVIOUS
      <3> DEFINE k == Cardinality(Before(i)) + 1
      <3>1. k \in 1..c /\ Cardinality(Before(i)) = k - 1
        BY <1>3
      <3> HIDE DEF k
      <3>2. f[k] = i
        BY <1>6, <1>9, <3>1
      <3> QED
        BY <3>1, <3>2
    <2> QED
      BY <2>1, <2>2, <2>3 DEF Bijection, Injection, Surjection, IsInjective
  <1> QED
    BY <1>10, <1>11, <1>12

LEMMA ArrangedIs ==
  ASSUME NEW S, NEW list \in Seq(S), NEW P \in SUBSET (DOMAIN list), NEW key, key \in [P -> Int],
         NEW rows, rows = Arranged(list, P, key)
  PROVE  /\ rows \in Seq(S) /\ Len(rows) = Cardinality(P) /\ DOMAIN rows = 1..Len(rows)
         /\ Range(rows) = {list[i] : i \in P}
         /\ \A k, l \in DOMAIN rows : k < l =>
               \E i, j \in P : rows[k] = list[i] /\ rows[l] = list[j] /\ key[i] <= key[j]
  <1> DEFINE n == Len(list)
             c == Cardinality(P)
  <1>1. n \in Nat /\ DOMAIN list = 1..n /\ \A i \in 1..n : list[i] \in S
    OBVIOUS
  <1>2. P \in SUBSET (1..n)
    BY <1>1
  <1>3. c \in Nat
    BY <1>1, <1>2, CountTo, FS_Subset, FS_CardinalityType
  <1>0. n \in Nat /\ P \in SUBSET (1..n)
    BY <1>1, <1>2
  <1> HIDE DEF n
  <1>9. \E f \in Bijection(1..Cardinality(P), P) :
            /\ Arranged(list, P, key) = [k \in 1..Cardinality(P) |-> list[f[k]]]
            /\ \A k, l \in 1..Cardinality(P) : k < l => key[f[k]] <= key[f[l]]
    BY <1>0, PlacesInOrder
  <1>4. PICK f \in Bijection(1..c, P) :
           /\ rows = [k \in 1..c |-> list[f[k]]]
           /\ \A k, l \in 1..c : k < l => key[f[k]] <= key[f[l]]
    BY <1>9
  <1> HIDE DEF c
  <1>5. f \in [1..c -> P] /\ \A i \in P : \E k \in 1..c : f[k] = i
    BY <1>4 DEF Bijection, Surjection
  <1>6. rows \in Seq(S) /\ Len(rows) = c /\ DOMAIN rows = 1..c
    BY <1>1, <1>2, <1>3, <1>4, <1>5
  <1>7. Range(rows) = {list[i] : i \in P}
    <2>1. Range(rows) = {rows[k] : k \in 1..c}
      BY <1>6 DEF Range
    <2>2. \A k \in 1..c : rows[k] = list[f[k]] /\ f[k] \in P
      BY <1>4, <1>5
    <2> QED
      BY <1>5, <2>1, <2>2
  <1>8. \A k, l \in 1..c : k < l => \E i, j \in P : rows[k] = list[i] /\ rows[l] = list[j] /\ key[i] <= key[j]
    BY <1>4, <1>5
  <1> QED
    BY <1>6, <1>7, <1>8 DEF c

LEMMA FilteredIs ==
  ASSUME NEW S, NEW list \in Seq(S), NEW P \in SUBSET (DOMAIN list), NEW rows, rows = Filtered(list, P)
  PROVE  rows \in Seq(S) /\ Len(rows) = Cardinality(P) /\ Range(rows) = {list[i] : i \in P}
  <1> DEFINE key == [i \in P |-> 0]
  <1>1. key \in [P -> Int] /\ rows = Arranged(list, P, key)
    BY DEF Filtered
  <1> HIDE DEF key
  <1> QED
    BY <1>1, ArrangedIs

(* A list whose records have days.                                             *)
Dated(list) ==
    /\ list \in Seq({list[i] : i \in DOMAIN list})
    /\ \A i \in DOMAIN list : list[i].day \in Nat

LEMMA IsDated ==
  ASSUME NEW S, NEW list \in Seq(S), \A a \in S : a.day \in Nat
  PROVE  Dated(list)
  BY DEF Dated

LEMMA TimelineIs ==
  ASSUME NEW list, Dated(list), NEW p, NEW rows, rows = Andamentos(p, list)
  PROVE  /\ Range(rows) = {list[i] : i \in PlacesOf(p, list)} /\ Len(rows) = Cardinality(PlacesOf(p, list))
         /\ \A i, j \in DOMAIN rows : i < j => rows[i].day >= rows[j].day
  <1> DEFINE S == {list[i] : i \in DOMAIN list}
             P == PlacesOf(p, list)
             own == ActsOf(p, list)
             key == [i \in DOMAIN own |-> -own[i].day]
  <1>1. list \in Seq(S) /\ (\A a \in S : a.day \in Nat) /\ P \in SUBSET (DOMAIN list) /\ own = Filtered(list, P)
    BY DEF Dated, PlacesOf, ActsOf
  <1> HIDE DEF S, P, own
  <1>2. own \in Seq(S) /\ Len(own) = Cardinality(P) /\ Range(own) = {list[i] : i \in P}
    BY <1>1, FilteredIs
  <1>3. \A i \in DOMAIN own : own[i] \in S /\ own[i].day \in Nat
    BY <1>1, <1>2
  <1>4. key \in [DOMAIN own -> Int] /\ rows = Arranged(own, DOMAIN own, key) /\ \A i \in DOMAIN own : key[i] = -own[i].day
    BY <1>3 DEF Andamentos, own
  <1> HIDE DEF key
  <1>5. DOMAIN own \in SUBSET (DOMAIN own) /\ DOMAIN own = 1..Len(own) /\ Len(own) \in Nat
    BY <1>2
  <1>6. /\ Len(rows) = Cardinality(DOMAIN own) /\ Range(rows) = {own[i] : i \in DOMAIN own}
        /\ \A k, l \in DOMAIN rows : k < l =>
              \E i, j \in DOMAIN own : rows[k] = own[i] /\ rows[l] = own[j] /\ key[i] <= key[j]
    <2> DEFINE D == DOMAIN own
    <2>1. D \in SUBSET (DOMAIN own) /\ key \in [D -> Int] /\ rows = Arranged(own, D, key)
      BY <1>4
    <2>3. own \in Seq(S)
      BY <1>2
    <2> HIDE DEF D
    <2>2. Len(rows) = Cardinality(D)
      BY <2>1, <2>3, ArrangedIs
    <2>4. Range(rows) = {own[i] : i \in D}
      BY <2>1, <2>3, ArrangedIs
    <2>5. \A k, l \in DOMAIN rows : k < l =>
              \E i, j \in D : rows[k] = own[i] /\ rows[l] = own[j] /\ key[i] <= key[j]
      BY <2>1, <2>3, ArrangedIs
    <2> QED
      BY <2>2, <2>4, <2>5 DEF D
  <1>7. Cardinality(DOMAIN own) = Len(own)
    BY <1>5, CountTo
  <1>8. ASSUME NEW k \in DOMAIN rows, NEW l \in DOMAIN rows, k < l PROVE rows[k].day >= rows[l].day
    <2>1. PICK i \in DOMAIN own, j \in DOMAIN own : rows[k] = own[i] /\ rows[l] = own[j] /\ key[i] <= key[j]
      BY <1>6, <1>8
    <2> QED
      BY <1>3, <1>4, <2>1
  <1>9. Range(rows) = Range(own)
    BY <1>6 DEF Range
  <1> QED
    BY <1>2, <1>6, <1>7, <1>8, <1>9 DEF P

\* The lists are lists, even when a deletion took out the movement at a place
\* that had changed.
FileTyped ==
    /\ Dated(acts) /\ \A a \in actsStored : a.day \in Nat
    /\ \A c \in actCalls : c.day \in Nat /\ c.index \in Nat
    /\ duties \in Seq({duties[i] : i \in DOMAIN duties}) /\ \A i \in DOMAIN duties : duties[i].due \in Nat
    /\ suitState.tab \in SuitTabs /\ "tab" \in DOMAIN suitState

\* A file that is up to date is of a process that is there, so that an answer
\* draws it again.
CurrentFits ==
    /\ suitModal.kind = "file" /\ ~suitStale => suitState.of \in suitsKept
    /\ FileIsCurrent

TabInv == FileTyped /\ CurrentFits

\* What the rows of a tab show of the lists.
Shows(p, tab, rows, list, due) ==
    CASE tab = "visao" ->
            rows = <<Cardinality(PlacesOf(p, list)), Cardinality({i \in PlacesOf(p, due) : due[i].pending})>>
      [] tab = "andamentos" ->
            /\ Range(rows) = {list[i] : i \in PlacesOf(p, list)} /\ Len(rows) = Cardinality(PlacesOf(p, list))
            /\ \A i, j \in DOMAIN rows : i < j => rows[i].day >= rows[j].day
      [] OTHER -> Range(rows) = {due[i] : i \in PlacesOf(p, due)} /\ Len(rows) = Cardinality(PlacesOf(p, due))

(* A tab that is drawn shows the list it is drawn from.                        *)
LEMMA TabShows ==
  ASSUME NEW list, Dated(list), duties \in Seq({duties[i] : i \in DOMAIN duties}),
         NEW p, NEW tab \in SuitTabs, NEW rows, rows = SuitTab(p, tab, list)
  PROVE  Shows(p, tab, rows, list, duties)
  <1> DEFINE S == {list[i] : i \in DOMAIN list}
             D == {duties[i] : i \in DOMAIN duties}
             P == PlacesOf(p, list)
             Q == PlacesOf(p, duties)
             R == {i \in Q : duties[i].pending}
  <1>1. /\ list \in Seq(S) /\ duties \in Seq(D) /\ P \in SUBSET (DOMAIN list) /\ Q \in SUBSET (DOMAIN duties)
        /\ R \in SUBSET (DOMAIN duties)
    BY DEF Dated, PlacesOf
  <1>2. CASE tab = "visao"
    <2>1. rows = <<Len(Filtered(list, P)), Len(Filtered(duties, R))>>
      BY <1>2 DEF SuitTab, Visao, ActsOf
    <2> HIDE DEF S, D, P, R
    <2>2. Len(Filtered(list, P)) = Cardinality(P) /\ Len(Filtered(duties, R)) = Cardinality(R)
      BY <1>1, FilteredIs
    <2> QED
      BY <1>2, <2>1, <2>2 DEF Shows, P, R
  <1>3. CASE tab = "andamentos"
    <2>1. rows = Andamentos(p, list)
      BY <1>3 DEF SuitTab
    <2> QED
      BY <1>3, <2>1, TimelineIs DEF Shows
  <1>4. CASE tab = "prazos"
    <2>1. rows = Filtered(duties, Q)
      BY <1>4 DEF SuitTab, DutiesOf
    <2> HIDE DEF D, Q
    <2>2. Len(rows) = Cardinality(Q) /\ Range(rows) = {duties[i] : i \in Q}
      BY <1>1, <2>1, FilteredIs
    <2> QED
      BY <1>4, <2>2 DEF Shows, Q
  <1> QED
    BY <1>2, <1>3, <1>4 DEF SuitTabs

(* What is drawn shows the lists as they have become.                          *)
LEMMA DrawnIsCurrent ==
  ASSUME FileTyped, NEW st, st.tab \in SuitTabs, NEW otherwise, SuitDrawn(st, acts', otherwise),
         Dated(acts)', suitState' = st, UNCHANGED <<suitsKept, duties>>,
         st.of \notin suitsKept => otherwise.kind # "file" \/ suitStale
  PROVE  CurrentFits'
  <1>1. CASE st.of \in suitsKept
    <2> DEFINE rows == SuitTab(st.of, st.tab, acts')
    <2>1. /\ suitModal' = [NoSuitModal EXCEPT !.kind = "file", !.of = st.of, !.tab = st.tab, !.rows = rows]
          /\ suitStale' = FALSE
      BY <1>1 DEF SuitDrawn
    <2> HIDE DEF rows
    <2>2. suitModal'.of = st.of /\ suitModal'.tab = st.tab /\ suitModal'.rows = rows
      BY <2>1 DEF NoSuitModal
    <2>3. Shows(st.of, st.tab, rows, acts', duties)
      <3>1. ASSUME NEW list, list = acts' PROVE Shows(st.of, st.tab, rows, list, duties)
        <4>1. Dated(list)
          BY <3>1 DEF Dated
        <4>2. rows = SuitTab(st.of, st.tab, list)
          BY <3>1 DEF rows
        <4> QED
          BY <4>1, <4>2, TabShows DEF FileTyped
      <3> QED
        BY <3>1
    <2>4. Shows(suitModal'.of, suitModal'.tab, suitModal'.rows, acts', duties')
      BY <2>2, <2>3
    <2>5. FileIsCurrent'
      BY <2>4 DEF FileIsCurrent, Shows, PlacesOf
    <2> QED
      BY <1>1, <2>5 DEF CurrentFits
  <1>2. CASE st.of \notin suitsKept
    BY <1>2 DEF SuitDrawn, CurrentFits, FileIsCurrent
  <1> QED
    BY <1>1, <1>2

(* A step that changes neither the lists nor the file leaves it up to date.    *)
LEMMA CurrentRests ==
  ASSUME CurrentFits, UNCHANGED <<acts, duties, suitState, suitsKept>>,
         UNCHANGED <<suitModal, suitStale>> \/ suitModal'.kind # "file"
  PROVE  CurrentFits'
  <1>1. CASE UNCHANGED <<suitModal, suitStale>>
    BY <1>1 DEF CurrentFits, FileIsCurrent
  <1>2. CASE suitModal'.kind # "file"
    BY <1>2 DEF CurrentFits, FileIsCurrent
  <1> QED
    BY <1>1, <1>2

(* The deadlines are loaded with their dates.                                  *)
LEMMA LoadedAre ==
  /\ LoadedDuties \in Seq({LoadedDuties[i] : i \in DOMAIN LoadedDuties})
  /\ \A i \in DOMAIN LoadedDuties : LoadedDuties[i].due \in Nat
  <1> DEFINE n == 2 * Cardinality(Suits)
  <1>1. n \in Nat
    BY FileAssumption, FS_CardinalityType
  <1>2. DOMAIN LoadedDuties = 1..n /\ LoadedDuties = [i \in 1..n |-> LoadedDuties[i]]
    BY DEF LoadedDuties
  <1>3. ASSUME NEW i \in 1..n PROVE LoadedDuties[i].due \in Nat
    <2>1. i \in Nat /\ LoadedDuties[i].due = 1 + (i % 2)
      BY <1>1 DEF LoadedDuties
    <2> QED
      BY <2>1
  <1> HIDE DEF n
  <1> QED
    BY <1>1, <1>2, <1>3

(* Movements with numbers up to a last one, each its own, are finitely many.   *)
LEMMA FewActs ==
  ASSUME NEW S, NEW n \in Nat, \A a \in S : a.id \in 1..n, \A a, b \in S : a.id = b.id => a = b
  PROVE  IsFiniteSet(S)
  <1> DEFINE f == [a \in S |-> a.id]
  <1>1. f \in Injection(S, 1..n)
    BY DEF Injection, IsInjective
  <1> HIDE DEF f
  <1> QED
    BY <1>1, CountTo, FS_Injection

LEMMA TabInitInv == SuitsInit => TabInv
  <1> SUFFICES ASSUME SuitsInit PROVE TabInv
    OBVIOUS
  <1>1. acts = <<>> /\ actsStored = {} /\ actCalls = {} /\ suitModal = NoSuitModal /\ suitState.tab = "visao" /\ duties = LoadedDuties
    BY DEF SuitsInit
  <1>2. Dated(acts)
    BY <1>1 DEF Dated
  <1>3. duties \in Seq({duties[i] : i \in DOMAIN duties}) /\ \A i \in DOMAIN duties : duties[i].due \in Nat
    BY <1>1, LoadedAre
  <1>4. NoSuitModal.kind # "file"
    BY DEF NoSuitModal
  <1>5. suitState.tab \in SuitTabs /\ "tab" \in DOMAIN suitState
    <2>1. ASSUME NEW p, NEW chosen, chosen = [of |-> p, tab |-> "visao"]
          PROVE  chosen.tab \in SuitTabs /\ "tab" \in DOMAIN chosen
      BY <2>1 DEF SuitTabs
    <2> QED
      BY <2>1 DEF SuitsInit
  <1> QED
    BY <1>1, <1>2, <1>3, <1>4, <1>5 DEF TabInv, FileTyped, CurrentFits, FileIsCurrent

(* Steps that ask, choose, close and print change no movement.                 *)
LEMMA TypedRests ==
  ASSUME FileTyped, UNCHANGED <<acts, actsStored, duties>>, actCalls' \subseteq actCalls,
         suitState'.tab \in SuitTabs, "tab" \in DOMAIN suitState'
  PROVE  FileTyped'
  BY DEF FileTyped, Dated

LEMMA TabAskSteps ==
  ASSUME TabInv, \/ \E p \in Suits : showProcessDetailFull(p)
                 \/ \E t \in SuitTabs : switchProcessTab(t)
                 \/ \E id \in 0..MaxActs : OpenActForm(id)
                 \/ CloseSuit
  PROVE  TabInv'
  <1>1. UNCHANGED <<acts, actsStored, actCalls, suitsKept, duties>>
    BY DEF showProcessDetailFull, switchProcessTab, OpenActForm, CloseSuit, NoAnswerYet
  <1>0. FileTyped /\ CurrentFits /\ Dated(acts)'
    BY <1>1 DEF TabInv, FileTyped, Dated
  <1>2. ASSUME NEW p \in Suits, showProcessDetailFull(p) PROVE TabInv'
    <2>1. suitModal = NoSuitModal /\ suitState' = [of |-> p, tab |-> "visao"] /\ SuitDrawn(suitState', acts', suitModal)
      BY <1>1, <1>2 DEF showProcessDetailFull
    <2>2. suitModal.kind # "file" /\ suitState'.tab \in SuitTabs /\ "tab" \in DOMAIN suitState'
      BY <2>1, NoSuitIsNoFile DEF SuitTabs
    <2>3. CurrentFits'
      BY <1>0, <1>1, <2>1, <2>2, DrawnIsCurrent
    <2> QED
      BY <1>0, <1>1, <2>2, <2>3, TypedRests DEF TabInv
  <1>3. ASSUME NEW t \in SuitTabs, switchProcessTab(t) PROVE TabInv'
    <2>1. suitState' = [suitState EXCEPT !.tab = t] /\ SuitDrawn(suitState', acts', suitModal)
      BY <1>1, <1>3 DEF switchProcessTab
    <2>2. suitState'.of = suitState.of /\ suitState'.tab \in SuitTabs /\ "tab" \in DOMAIN suitState'
      BY <1>0, <2>1 DEF FileTyped
    <2>3. suitState'.of \notin suitsKept => suitModal.kind # "file" \/ suitStale
      BY <1>0, <2>2 DEF CurrentFits
    <2>4. CurrentFits'
      BY <1>0, <1>1, <2>1, <2>2, <2>3, DrawnIsCurrent
    <2> QED
      BY <1>0, <1>1, <2>2, <2>4, TypedRests DEF TabInv
  <1>4. ASSUME \/ CloseSuit \/ \E id \in 0..MaxActs : OpenActForm(id) PROVE TabInv'
    <2>1. suitState' = suitState /\ suitModal'.kind # "file"
      BY <1>4, NoSuitIsNoFile DEF CloseSuit, OpenActForm
    <2>2. CurrentFits'
      BY <1>0, <1>1, <2>1, CurrentRests
    <2>3. FileTyped'
      BY <1>0, <1>1, <2>1, TypedRests DEF FileTyped
    <2> QED
      BY <2>2, <2>3 DEF TabInv
  <1> QED
    BY <1>2, <1>3, <1>4

(* The report puts the list of deadlines in order, in place.                   *)
LEMMA ReportStep ==
  ASSUME TabInv, generateReport
  PROVE  TabInv'
  <1> DEFINE D == {duties[i] : i \in DOMAIN duties}
             key == [i \in DOMAIN duties |-> duties[i].due]
             places == DOMAIN duties
  <1>1. /\ duties' = Arranged(duties, places, key) /\ suitModal' = NoSuitModal
        /\ UNCHANGED <<acts, actsStored, actCalls, suitState, suitsKept>>
    BY DEF generateReport
  <1>2. duties \in Seq(D) /\ key \in [places -> Int] /\ places \in SUBSET (DOMAIN duties) /\ \A d \in D : d.due \in Nat
    BY DEF TabInv, FileTyped
  <1> HIDE DEF D, key, places
  <1>3. duties' \in Seq(D)
    BY <1>1, <1>2, ArrangedIs
  <1>4. duties' \in Seq({duties'[i] : i \in DOMAIN duties'}) /\ \A i \in DOMAIN duties' : duties'[i].due \in Nat
    BY <1>2, <1>3
  <1>5. FileTyped'
    BY <1>1, <1>4 DEF TabInv, FileTyped, Dated
  <1>6. suitModal'.kind # "file"
    BY <1>1, NoSuitIsNoFile
  <1> QED
    BY <1>5, <1>6 DEF TabInv, CurrentFits, FileIsCurrent

LEMMA TabCallSteps ==
  ASSUME TabInv, \/ \E day \in ActDays : SaveAct(day)
                 \/ \E id \in 0..MaxActs : DeleteAct(id)
  PROVE  TabInv'
  <1>1. PICK c : Called(c) /\ c.day \in Nat /\ c.index \in Nat /\ (suitModal' = suitModal \/ suitModal' = NoSuitModal)
    <2>1. ASSUME NEW day \in ActDays, SaveAct(day)
          PROVE  \E c : Called(c) /\ c.day \in Nat /\ c.index \in Nat /\ suitModal' = suitModal
      <3> DEFINE c == [op |-> "save", id |-> suitModal.act, of |-> suitModal.of, day |-> day, index |-> 0]
      <3>1. Called(c) /\ suitModal' = suitModal
        BY <2>1 DEF SaveAct
      <3>2. c.day \in Nat /\ c.index \in Nat
        BY FileAssumption
      <3> QED
        BY <3>1, <3>2
    <2>2. ASSUME NEW id \in 0..MaxActs, DeleteAct(id)
          PROVE  \E c : Called(c) /\ c.day \in Nat /\ c.index \in Nat /\ (suitModal' = suitModal \/ suitModal' = NoSuitModal)
      <3> DEFINE c == [op |-> "delete", id |-> id, of |-> suitModal.of, day |-> 0, index |-> ActIndex(id)]
      <3>1. Called(c) /\ (suitModal' = suitModal \/ suitModal' = NoSuitModal)
        BY <2>2 DEF DeleteAct
      <3>2. DOMAIN acts \subseteq Nat
        BY DEF TabInv, FileTyped, Dated
      <3>3. c.day \in Nat /\ c.index \in Nat
        BY <3>2, PlaceOfAct
      <3> QED
        BY <3>1, <3>3
    <2> QED
      BY <2>1, <2>2
  <1>2. /\ UNCHANGED <<suitsKept, acts, actsStored, duties, suitState, suitStale>> /\ actCalls' = actCalls \union {c}
    BY <1>1 DEF Called
  <1>3. FileTyped'
    BY <1>1, <1>2 DEF TabInv, FileTyped, Dated
  <1>4. CurrentFits'
    BY <1>1, <1>2, CurrentRests, NoSuitIsNoFile DEF TabInv
  <1> QED
    BY <1>3, <1>4 DEF TabInv

(* Each answer that changes the list draws the file, if its process is there.  *)
LEMMA TabAnswerSteps ==
  ASSUME TabInv, NEW call \in actCalls, ActSaved(call) \/ ActDeleted(call) \/ ActRefused(call)
  PROVE  TabInv'
  <1> DEFINE A == {acts[i] : i \in DOMAIN acts}
             n == Len(acts)
  <1>0. /\ UNCHANGED <<suitsKept, suitState, duties>> /\ actCalls' = actCalls \ {call}
    BY DEF ActSaved, ActDeleted, ActRefused, ActAnswered
  <1>1. /\ FileTyped /\ CurrentFits /\ acts \in Seq(A) /\ (\A a \in A : a.day \in Nat)
        /\ n \in Nat /\ DOMAIN acts = 1..n /\ call.day \in Nat /\ call.index \in Nat
    BY DEF TabInv, FileTyped, Dated
  <1> HIDE DEF A
  <1>2. ASSUME Dated(acts)', \A a \in actsStored' : a.day \in Nat PROVE FileTyped'
    BY <1>0, <1>2 DEF TabInv, FileTyped
  <1>3. ASSUME ActSaved(call) PROVE TabInv'
    <2> DEFINE number == IF call.id = 0 THEN lastAct + 1 ELSE call.id
               saved == [id |-> number, of |-> call.of, day |-> call.day]
               B == A \union {saved}
    <2>1. /\ actsStored' = {a \in actsStored : a.id # number} \union {saved}
          /\ SuitDrawn(suitState, acts', NoSuitModal)
          /\ \/ acts' = Append(acts, saved)
             \/ acts' = acts
             \/ acts' = ReplaceAt(acts, ActIndex(number), saved) /\ ActIndex(number) # 0
      BY <1>3 DEF ActSaved
    <2>2. saved.day \in Nat
      BY <1>1
    <2>3. ActIndex(number) # 0 => ActIndex(number) \in DOMAIN acts
      BY PlaceOfAct
    <2> HIDE DEF number, saved
    <2>4. acts \in Seq(B) /\ saved \in B /\ \A a \in B : a.day \in Nat
      BY <1>1, <2>2
    <2>5. acts' \in Seq(B)
      <3>1. CASE acts' = Append(acts, saved)
        BY <2>4, <3>1
      <3>2. CASE acts' = ReplaceAt(acts, ActIndex(number), saved) /\ ActIndex(number) # 0
        <4>1. ActIndex(number) \in 1..Len(acts)
          BY <1>1, <2>3, <3>2
        <4> HIDE DEF B
        <4> QED
          BY <2>4, <3>2, <4>1, ReplacedAt
      <3> QED
        BY <2>1, <2>4, <3>1, <3>2
    <2>6. Dated(acts)'
      <3> HIDE DEF B
      <3>1. ASSUME NEW list, list = acts' PROVE Dated(list)
        BY <2>4, <2>5, <3>1, IsDated
      <3> QED
        BY <3>1 DEF Dated
    <2>7. \A a \in actsStored' : a.day \in Nat
      BY <1>1, <2>1, <2>2 DEF FileTyped
    <2>8. CurrentFits'
      BY <1>0, <1>1, <2>1, <2>6, NoSuitIsNoFile, DrawnIsCurrent DEF FileTyped
    <2> QED
      BY <1>2, <2>6, <2>7, <2>8 DEF TabInv
  <1>4. ASSUME ActDeleted(call) PROVE TabInv'
    <2>1. /\ actsStored' = {a \in actsStored : a.id # call.id}
          /\ \/ UNCHANGED <<acts, suitModal, suitStale>>
             \/ /\ acts' = (IF call.index <= Len(acts) THEN RemoveAt(acts, call.index) ELSE acts)
                /\ call.index # 0 /\ SuitDrawn(suitState, acts', suitModal)
      BY <1>4 DEF ActDeleted
    <2>2. acts' \in Seq(A)
      <3>1. CASE acts' = RemoveAt(acts, call.index) /\ call.index # 0 /\ call.index <= Len(acts)
        <4>1. call.index \in 1..Len(acts)
          BY <1>1, <3>1
        <4> QED
          BY <1>1, <3>1, <4>1, RemovedAt
      <3> QED
        BY <1>1, <2>1, <3>1
    <2>3. Dated(acts)'
      <3>1. ASSUME NEW list, list = acts' PROVE Dated(list)
        BY <1>1, <2>2, <3>1, IsDated
      <3> QED
        BY <3>1 DEF Dated
    <2>4. \A a \in actsStored' : a.day \in Nat
      BY <1>1, <2>1 DEF FileTyped
    <2>5. CurrentFits'
      <3>1. CASE UNCHANGED <<acts, suitModal, suitStale>>
        BY <1>0, <1>1, <3>1, CurrentRests
      <3>2. CASE SuitDrawn(suitState, acts', suitModal)
        <4>1. suitState.of \notin suitsKept => suitModal.kind # "file" \/ suitStale
          BY <1>1 DEF CurrentFits
        <4> QED
          BY <1>0, <1>1, <2>3, <3>2, <4>1, DrawnIsCurrent DEF FileTyped
      <3> QED
        BY <2>1, <3>1, <3>2
    <2> QED
      BY <1>2, <2>3, <2>4, <2>5 DEF TabInv
  <1>5. ASSUME ActRefused(call) PROVE TabInv'
    <2>1. UNCHANGED <<acts, actsStored, suitModal, suitStale>>
      BY <1>5 DEF ActRefused
    <2> QED
      BY <1>0, <1>1, <2>1, TypedRests, CurrentRests DEF TabInv, FileTyped
  <1> QED
    BY <1>3, <1>4, <1>5

(* What is read again may be another list: a file on the screen is old by then. *)
LEMMA TabReadStep ==
  ASSUME TabInv, NumbersFit, NEW gone, SuitsReadAgain(gone)
  PROVE  TabInv'
  <1> DEFINE P == {i \in DOMAIN LoadedDuties : LoadedDuties[i].of \in suitsKept'}
             D == {LoadedDuties[i] : i \in DOMAIN LoadedDuties}
  <1>1. /\ actsStored' \subseteq actsStored /\ acts' \in AsRead(actsStored') /\ duties' = Filtered(LoadedDuties, P)
        /\ suitStale' = (suitModal.kind = "file") /\ UNCHANGED <<suitState, suitModal, actCalls>>
    BY DEF SuitsReadAgain
  <1>2. IsFiniteSet(actsStored') /\ \A a \in actsStored' : a.day \in Nat
    BY <1>1, FewActs DEF NumbersFit, TabInv, FileTyped
  <1>3. Dated(acts)'
    <2>1. ASSUME NEW S, S = actsStored', NEW list, list = acts' PROVE Dated(list)
      <3>1. Cardinality(S) \in Nat /\ list \in [1..Cardinality(S) -> S]
        BY <1>1, <1>2, <2>1, FS_CardinalityType DEF AsRead
      <3>2. list \in Seq(S)
        BY <3>1
      <3> QED
        BY <1>2, <2>1, <3>2, IsDated
    <2> QED
      BY <2>1 DEF Dated
  <1>4. LoadedDuties \in Seq(D) /\ (\A d \in D : d.due \in Nat) /\ P \in SUBSET (DOMAIN LoadedDuties)
    BY LoadedAre
  <1> HIDE DEF P, D
  <1>5. duties' \in Seq(D)
    BY <1>1, <1>4, FilteredIs
  <1>6. duties' \in Seq({duties'[i] : i \in DOMAIN duties'}) /\ \A i \in DOMAIN duties' : duties'[i].due \in Nat
    BY <1>4, <1>5
  <1>7. FileTyped'
    BY <1>1, <1>2, <1>3, <1>6 DEF TabInv, FileTyped
  <1> QED
    BY <1>1, <1>7 DEF TabInv, CurrentFits, FileIsCurrent

LEMMA TabNextInv ==
  ASSUME TabInv, NumbersFit, [SuitsNext]_suitVars
  PROVE  TabInv'
  <1>1. CASE UNCHANGED suitVars
    <2>1. UNCHANGED <<acts, actsStored, duties, actCalls, suitState, suitsKept, suitModal, suitStale>>
      BY <1>1 DEF suitVars
    <2> QED
      BY <2>1, TypedRests, CurrentRests DEF TabInv, FileTyped
  <1>2. CASE SuitsNext
    BY <1>2, TabAskSteps, TabCallSteps, TabAnswerSteps, TabReadStep, ReportStep DEF SuitsNext
  <1> QED
    BY <1>1, <1>2

-----------------------------------------------------------------------------
(* The calculators.  What a recursive definition computes is proved from the   *)
(* definition itself: that a function with its equation exists, by induction   *)
(* over the calls that are left, and then what its values are, by induction    *)
(* over the numbers, both from the least number of a set.                      *)

(* Divisions and products of natural numbers.                                  *)
LEMMA Division ==
  ASSUME NEW n \in Nat, NEW d \in Nat \ {0}
  PROVE  n \div d \in Nat /\ d * (n \div d) <= n /\ n < d * (n \div d) + d
  OBVIOUS

LEMMA Product ==
  ASSUME NEW a \in Nat, NEW b \in Nat
  PROVE  a * b \in Nat
  OBVIOUS

LEMMA Times ==
  ASSUME NEW a \in Nat, NEW b \in Nat, NEW c \in Nat, a <= b
  PROVE  a * c <= b * c /\ c * a <= c * b
  OBVIOUS

LEMMA SmallerFactor ==
  ASSUME NEW a \in Int, NEW b \in Int, NEW d \in Nat \ {0}, d * a < d * b
  PROVE  a < b
  OBVIOUS

LEMMA Rounded ==
  ASSUME NEW n \in Nat, NEW d \in Nat \ {0}
  PROVE  /\ RoundedRatio(n, d) \in Nat
         /\ 2 * RoundedRatio(n, d) * d - d <= 2 * n /\ 2 * n < 2 * RoundedRatio(n, d) * d + d
  <1> DEFINE q == (2 * n + d) \div (2 * d)
  <1>1. 2 * n + d \in Nat /\ 2 * d \in Nat \ {0}
    OBVIOUS
  <1>2. q \in Nat /\ (2 * d) * q <= 2 * n + d /\ 2 * n + d < (2 * d) * q + 2 * d
    BY <1>1, Division
  <1> HIDE DEF q
  <1>3. (2 * d) * q = 2 * q * d
    BY <1>2
  <1>4. RoundedRatio(n, d) = q
    BY DEF RoundedRatio, q
  <1>5. 2 * q * d \in Nat
    BY <1>2
  <1> QED
    BY <1>2, <1>3, <1>4, <1>5

(* A larger fraction is not rounded to less.                                   *)
LEMMA RoundedInOrder ==
  ASSUME NEW a \in Nat, NEW b \in Nat \ {0}, NEW c \in Nat, NEW d \in Nat \ {0}, a * d <= c * b
  PROVE  RoundedRatio(a, b) <= RoundedRatio(c, d)
  <1> DEFINE p == RoundedRatio(a, b)
             q == RoundedRatio(c, d)
  <1>1. p \in Nat /\ 2 * p * b - b <= 2 * a
    BY Rounded
  <1>2. q \in Nat /\ 2 * c < 2 * q * d + d
    BY Rounded
  <1> HIDE DEF p, q
  <1> SUFFICES ASSUME ~(p <= q) PROVE FALSE
    BY DEF p, q
  <1>3. q + 1 <= p /\ q + 1 \in Nat /\ d * b \in Nat
    BY <1>1, <1>2
  <1>4. (2 * p * b - b) * d <= 2 * a * d
    BY <1>1
  <1>5. (2 * c) * b < (2 * q * d + d) * b
    BY <1>2
  <1>6. (q + 1) * (d * b) <= p * (d * b)
    BY <1>1, <1>3, Times
  <1>7. (2 * p * b - b) * d = 2 * (p * (d * b)) - d * b /\ (2 * q * d + d) * b = 2 * (q * (d * b)) + d * b
        /\ (q + 1) * (d * b) = q * (d * b) + d * b
    BY <1>1, <1>2
  <1>8. 2 * a * d = 2 * (a * d) /\ (2 * c) * b = 2 * (c * b)
    OBVIOUS
  <1>9. /\ p * (d * b) \in Nat /\ q * (d * b) \in Nat /\ a * d \in Nat /\ c * b \in Nat
    BY <1>1, <1>2, <1>3, Product
  <1> QED
    BY <1>3, <1>4, <1>5, <1>6, <1>7, <1>8, <1>9

LEMMA NothingRounded ==
  ASSUME NEW d \in Nat \ {0}
  PROVE  RoundedRatio(0, d) = 0
  <1>1. RoundedRatio(0, d) \in Nat /\ 2 * RoundedRatio(0, d) * d - d <= 0
    BY Rounded
  <1> DEFINE q == RoundedRatio(0, d)
  <1> HIDE DEF q
  <1>2. q \in Nat /\ 2 * q * d <= d
    BY <1>1 DEF q
  <1>3. q # 0 => 2 * q * d >= 2 * d
    BY <1>2
  <1> QED
    BY <1>2, <1>3 DEF q

(* Powers, by the induction that the definition calls for.                     *)
LEMMA PowerIs ==
  ASSUME NEW b \in Nat
  PROVE  /\ Power(b, 0) = 1
         /\ \A n \in Nat : Power(b, n + 1) = b * Power(b, n)
  <1> DEFINE Is(f) == f = [k \in Nat |-> IF k = 0 THEN 1 ELSE b * f[k - 1]]
             p == CHOOSE f : Is(f)
  <1>1. \E f : Is(f)
    <2> DEFINE rank == [k \in Nat |-> k]
               next == [k \in Nat |-> IF k = 0 THEN 0 ELSE k - 1]
               base == [k \in Nat |-> 1]
               step == [v \in Nat |-> b * v]
    <2>1. rank \in [Nat -> Nat] /\ next \in [Nat -> Nat] /\ base \in [Nat -> Nat]
      OBVIOUS
    <2>2. step \in [Nat -> Nat]
      <3>1. \A v \in Nat : b * v \in Nat
        BY Product
      <3> QED
        BY <3>1
    <2>4. PICK f \in [Nat -> Nat] : Calling(f, Nat, rank, next, base, step)
      <3>1. Descends(Nat, rank, next)
        BY DEF Descends
      <3>2. Callable(Nat, Nat, rank, next, base, step)
        <4> HIDE DEF rank, next, base, step
        <4> QED
          BY <2>1, <2>2, <3>1, Recursion
      <3> HIDE DEF rank, next, base, step
      <3> QED
        BY <3>2 DEF Callable
    <2>5. ASSUME NEW k \in Nat PROVE f[k] = IF k = 0 THEN 1 ELSE b * f[k - 1]
      <3>1. CASE k = 0
        BY <2>4, <3>1 DEF Calling
      <3>2. CASE k # 0
        <4>1. next[k] = k - 1 /\ k - 1 \in Nat /\ rank[k] # 0
          BY <3>2
        <4>2. f[k] = step[f[k - 1]] /\ f[k - 1] \in Nat
          <5> HIDE DEF rank, next, base, step
          <5> QED
            BY <2>4, <4>1 DEF Calling
        <4> QED
          BY <3>2, <4>2
      <3> QED
        BY <3>1, <3>2
    <2>6. f = [k \in Nat |-> IF k = 0 THEN 1 ELSE b * f[k - 1]]
      BY <2>5
    <2> QED
      BY <2>6
  <1>2. Is(p)
    BY <1>1
  <1>3. \A n : Power(b, n) = p[n]
    BY DEF Power
  <1> HIDE DEF p
  <1>4. p[0] = 1 /\ \A n \in Nat : p[n + 1] = b * p[n]
    BY <1>2
  <1> QED
    BY <1>3, <1>4

LEMMA PowersArePositive ==
  ASSUME NEW b \in Nat
  PROVE  \A n \in Nat : Power(b, n) \in Nat /\ (b # 0 => Power(b, n) # 0)
  <1> DEFINE S == {n \in Nat : Power(b, n) \in Nat /\ (b # 0 => Power(b, n) # 0)}
  <1>1. 0 \in S
    BY PowerIs
  <1>2. ASSUME NEW n \in S PROVE n + 1 \in S
    <2>1. n \in Nat /\ Power(b, n) \in Nat /\ (b # 0 => Power(b, n) # 0)
      OBVIOUS
    <2>2. Power(b, n + 1) = b * Power(b, n)
      BY <2>1, PowerIs
    <2> DEFINE q == Power(b, n)
    <2>3. b * q \in Nat /\ (b # 0 => b * q # 0)
      <3> HIDE DEF q
      <3>1. q \in Nat /\ (b # 0 => q # 0)
        BY <2>1 DEF q
      <3> QED
        BY <3>1
    <2> QED
      BY <2>1, <2>2, <2>3
  <1>3. S \in SUBSET Nat
    OBVIOUS
  <1>4. \A n \in Nat : n \in S
    <2> HIDE DEF S
    <2> QED
      BY <1>1, <1>2, <1>3, AllNumbers
  <1> QED
    BY <1>4

(* Bernoulli: n periods compound to at least what n simple ones add.           *)
LEMMA CompoundIsMore ==
  ASSUME NEW d \in Nat, NEW r \in Nat
  PROVE  \A n \in Nat : /\ Power(d, n) <= Power(d + r, n)
                        /\ r * n * Power(d, n) <= d * (Power(d + r, n) - Power(d, n))
  <1> DEFINE P(n) == Power(d + r, n)
             Q(n) == Power(d, n)
             S == {n \in Nat : Q(n) <= P(n) /\ r * n * Q(n) <= d * (P(n) - Q(n))}
  <1>0. d + r \in Nat
    OBVIOUS
  <1>1. 0 \in S
    <2>1. P(0) = 1 /\ Q(0) = 1
      BY <1>0, PowerIs
    <2> HIDE DEF P, Q
    <2> QED
      BY <2>1
  <1>2. ASSUME NEW n \in S PROVE n + 1 \in S
    <2>1. n \in Nat /\ Q(n) <= P(n) /\ r * n * Q(n) <= d * (P(n) - Q(n))
      OBVIOUS
    <2>2. P(n + 1) = (d + r) * P(n) /\ Q(n + 1) = d * Q(n)
      BY <1>0, <2>1, PowerIs
    <2>3. P(n) \in Nat /\ Q(n) \in Nat
      BY <1>0, <2>1, PowersArePositive
    <2>4. \A p, q \in Nat : (q <= p /\ r * n * q <= d * (p - q)) =>
             (d * q <= (d + r) * p /\ r * (n + 1) * (d * q) <= d * ((d + r) * p - d * q))
      <3> SUFFICES ASSUME NEW p \in Nat, NEW q \in Nat, q <= p, r * n * q <= d * (p - q)
                   PROVE  (d * q <= (d + r) * p /\ r * (n + 1) * (d * q) <= d * ((d + r) * p - d * q))
        OBVIOUS
      <3>1. d * q <= d * p /\ r * q <= r * p /\ r * p \in Nat /\ d * q \in Nat /\ d * p \in Nat
        BY Times, Product
      <3>2. (d + r) * p = d * p + r * p
        OBVIOUS
      <3>3. d * (d * (p - q)) >= d * (r * n * q)
        <4>1. r * n * q \in Nat /\ d * (p - q) \in Nat
          BY <2>1
        <4> QED
          BY <4>1, Times
      <3>4. d * (r * p) >= d * (r * q)
        <4>1. r * p \in Nat /\ r * q \in Nat
          BY Product
        <4> QED
          BY <3>1, <4>1, Times
      <3>5. r * (n + 1) * (d * q) = d * (r * n * q) + d * (r * q)
        BY <2>1
      <3>6. d * ((d + r) * p - d * q) = d * (d * (p - q)) + d * (r * p)
        BY <2>1
      <3>7. d * (r * n * q) \in Int /\ d * (r * q) \in Int /\ d * (d * (p - q)) \in Int /\ d * (r * p) \in Int
        BY <2>1
      <3> QED
        BY <3>1, <3>2, <3>3, <3>4, <3>5, <3>6, <3>7
    <2> HIDE DEF P, Q
    <2> QED
      BY <2>1, <2>2, <2>3, <2>4
  <1>3. S \in SUBSET Nat
    OBVIOUS
  <1>4. \A n \in Nat : n \in S
    <2> HIDE DEF S
    <2> QED
      BY <1>1, <1>2, <1>3, AllNumbers
  <1> QED
    BY <1>4

(* The loop that counts the days of a deadline: what it goes through, and what *)
(* is so when it comes to a day and when it ends.                              *)
LoopStates == [day : Nat, counted : Nat, skipped : Nat]

CountingTo(in, d) == {x \in FirstDay(in)..d : CountsOn(in, x)}

ComesTo(in, at) ==
    /\ at \in LoopStates /\ at.day >= FirstDay(in) /\ at.day <= MaxDate + 1
    /\ at.counted = Cardinality(CountingTo(in, at.day - 1)) /\ at.counted < in.days
    /\ at.skipped + at.counted = at.day - FirstDay(in)

EndsAt(in, at) ==
    /\ ComesTo(in, at)
    /\ at.day <= MaxDate => CountsOn(in, at.day) /\ at.counted + 1 = in.days

CountStep(in, at, rest) ==
    IF at.day > MaxDate THEN at
    ELSE IF ~CountsOn(in, at.day) THEN rest[At(at.day + 1, at.counted, at.skipped + 1)]
    ELSE IF at.counted + 1 < in.days THEN rest[At(at.day + 1, at.counted + 1, at.skipped)]
    ELSE at

LEMMA CountDaysIs ==
  ASSUME NEW in
  PROVE  \E count :
            /\ \A at \in LoopStates : count[at] = CountStep(in, at, count)
            /\ CountDays(in) = count[At(FirstDay(in), 0, 0)]
  <1> DEFINE Is(f) == f = [at \in [day : Nat, counted : Nat, skipped : Nat] |->
                             IF at.day > MaxDate THEN at
                             ELSE IF ~CountsOn(in, at.day) THEN f[At(at.day + 1, at.counted, at.skipped + 1)]
                             ELSE IF at.counted + 1 < in.days THEN f[At(at.day + 1, at.counted + 1, at.skipped)]
                             ELSE at]
             stops(at) == at.day > MaxDate \/ (CountsOn(in, at.day) /\ ~(at.counted + 1 < in.days))
             rank == [at \in LoopStates |-> IF stops(at) THEN 0 ELSE MaxDate + 1 - at.day]
             next == [at \in LoopStates |->
                        IF ~CountsOn(in, at.day) THEN At(at.day + 1, at.counted, at.skipped + 1)
                        ELSE At(at.day + 1, at.counted + 1, at.skipped)]
             same == [at \in LoopStates |-> at]
  <1>1. MaxDate \in Nat
    BY LimitsAssumption
  <1>2. \A at \in LoopStates : (stops(at) \/ MaxDate + 1 - at.day \in Nat)
    BY <1>1 DEF LoopStates
  <1>3. rank \in [LoopStates -> Nat]
    <2> HIDE DEF stops
    <2> QED
      BY <1>2
  <1>4. next \in [LoopStates -> LoopStates] /\ same \in [LoopStates -> LoopStates]
    BY DEF LoopStates, At
  <1>5. \A at \in LoopStates : next[at].day = at.day + 1
    BY DEF LoopStates, At
  <1>6. ASSUME NEW at \in LoopStates, rank[at] # 0 PROVE rank[next[at]] < rank[at]
    <2>1. ~stops(at) /\ rank[at] = MaxDate + 1 - at.day
      <3> HIDE DEF stops
      <3> QED
        BY <1>6
    <2>2. rank[next[at]] = 0 \/ rank[next[at]] = MaxDate + 1 - (at.day + 1)
      <3>1. next[at] \in LoopStates
        BY <1>4
      <3> HIDE DEF stops, next
      <3> QED
        BY <1>5, <3>1
    <2>3. at.day \in Nat /\ at.day <= MaxDate
      BY <1>1, <2>1 DEF LoopStates
    <2> HIDE DEF rank, next
    <2> QED
      BY <1>1, <2>1, <2>2, <2>3
  <1>7. PICK f \in [LoopStates -> LoopStates] : Calling(f, LoopStates, rank, next, same, same)
    <2>1. Descends(LoopStates, rank, next)
      <3> HIDE DEF rank, next
      <3> QED
        BY <1>6 DEF Descends
    <2>2. Callable(LoopStates, LoopStates, rank, next, same, same)
      <3> HIDE DEF rank, next, same
      <3> QED
        BY <1>3, <1>4, <2>1, Recursion
    <2> HIDE DEF rank, next, same
    <2> QED
      BY <2>2 DEF Callable
  <1>8. ASSUME NEW at \in LoopStates PROVE f[at] = CountStep(in, at, f)
    <2>1. f[at] = IF rank[at] = 0 THEN at ELSE f[next[at]]
      <3>1. f[at] = IF rank[at] = 0 THEN same[at] ELSE same[f[next[at]]]
        <4> HIDE DEF rank, next, same
        <4> QED
          BY <1>7 DEF Calling
      <3>2. f[next[at]] \in LoopStates
        <4> HIDE DEF next
        <4> QED
          BY <1>4
      <3> HIDE DEF rank, next
      <3> QED
        BY <3>1, <3>2
    <2>2. rank[at] = 0 <=> stops(at)
      <3>1. ~stops(at) => MaxDate + 1 - at.day # 0
        BY <1>1 DEF LoopStates
      <3> HIDE DEF stops
      <3> QED
        BY <3>1
    <2>3. next[at] = IF ~CountsOn(in, at.day) THEN At(at.day + 1, at.counted, at.skipped + 1)
                     ELSE At(at.day + 1, at.counted + 1, at.skipped)
      OBVIOUS
    <2> HIDE DEF rank, next
    <2> QED
      BY <2>1, <2>2, <2>3 DEF CountStep
  <1>9. Is(f)
    BY <1>7, <1>8 DEF CountStep, LoopStates
  <1> DEFINE c == CHOOSE g : Is(g)
  <1>10. Is(c)
    <2> HIDE DEF Is
    <2> QED
      BY <1>9
  <1>11. CountDays(in) = c[At(FirstDay(in), 0, 0)]
    BY DEF CountDays
  <1> HIDE DEF c
  <1>12. \A at \in LoopStates : c[at] = CountStep(in, at, c)
    BY <1>10 DEF CountStep, LoopStates
  <1> QED
    BY <1>11, <1>12

LEMMA CountingGrows ==
  ASSUME NEW in, NEW d, d \in Nat, FirstDay(in) \in Nat, FirstDay(in) <= d
  PROVE  /\ CountingTo(in, d) = CountingTo(in, d - 1) \union IF CountsOn(in, d) THEN {d} ELSE {}
         /\ Cardinality(CountingTo(in, d - 1)) \in Nat
         /\ Cardinality(CountingTo(in, d)) = Cardinality(CountingTo(in, d - 1)) + IF CountsOn(in, d) THEN 1 ELSE 0
  <1>1. IsFiniteSet(CountingTo(in, d - 1))
    <2>1. IsFiniteSet(FirstDay(in)..(d - 1))
      BY FS_Interval
    <2>2. CountingTo(in, d - 1) \subseteq FirstDay(in)..(d - 1)
      BY DEF CountingTo
    <2> QED
      BY <2>1, <2>2, FS_Subset
  <1>2. CountingTo(in, d) = CountingTo(in, d - 1) \union IF CountsOn(in, d) THEN {d} ELSE {}
    BY DEF CountingTo
  <1>3. d \notin CountingTo(in, d - 1)
    BY DEF CountingTo
  <1>4. Cardinality(CountingTo(in, d - 1)) \in Nat
    BY <1>1, FS_CardinalityType
  <1>5. Cardinality(CountingTo(in, d - 1) \union {d}) = Cardinality(CountingTo(in, d - 1)) + 1
    BY <1>1, <1>3, FS_AddElement
  <1>6. CASE CountsOn(in, d)
    BY <1>2, <1>4, <1>5, <1>6
  <1>7. CASE ~CountsOn(in, d)
    <2>1. CountingTo(in, d) = CountingTo(in, d - 1)
      BY <1>2, <1>7
    <2> QED
      BY <1>4, <1>7, <2>1
  <1> QED
    BY <1>6, <1>7

LEMMA CountDaysEnds ==
  ASSUME NEW in, in.days \in Nat, in.days > 0, FirstDay(in) \in Nat, FirstDay(in) <= MaxDate + 1
  PROVE  EndsAt(in, CountDays(in))
  <1>1. PICK count : /\ \A at \in LoopStates : count[at] = CountStep(in, at, count)
                     /\ CountDays(in) = count[At(FirstDay(in), 0, 0)]
    BY CountDaysIs
  <1> DEFINE S == {k \in Nat : \A at \in LoopStates :
                     (at.day + k = MaxDate + 1 /\ ComesTo(in, at)) => EndsAt(in, count[at])}
  <1>2. MaxDate \in Nat
    BY LimitsAssumption
  <1>3. 0 \in S
    <2> SUFFICES ASSUME NEW at \in LoopStates, at.day = MaxDate + 1, ComesTo(in, at) PROVE EndsAt(in, count[at])
      BY DEF LoopStates
    <2>1. count[at] = at
      BY <1>1, <1>2 DEF CountStep
    <2> QED
      BY <1>2, <2>1 DEF EndsAt
  <1>4. ASSUME NEW k \in S PROVE k + 1 \in S
    <2>1. k \in Nat
      OBVIOUS
    <2> SUFFICES ASSUME NEW at \in LoopStates, at.day + (k + 1) = MaxDate + 1, ComesTo(in, at)
                 PROVE  EndsAt(in, count[at])
      BY <2>1
    <2>2. /\ at.day \in Nat /\ at.day <= MaxDate /\ FirstDay(in) <= at.day
          /\ at.counted \in Nat /\ at.skipped \in Nat
      BY <1>2, <2>1 DEF LoopStates, ComesTo
    <2>3. /\ Cardinality(CountingTo(in, at.day)) = at.counted + IF CountsOn(in, at.day) THEN 1 ELSE 0
          /\ at.counted < in.days /\ at.skipped + at.counted = at.day - FirstDay(in)
      BY <2>2, CountingGrows DEF ComesTo
    <2>4. ASSUME NEW b \in LoopStates, b.day = at.day + 1, ComesTo(in, b) PROVE EndsAt(in, count[b])
      <3>1. b.day + k = MaxDate + 1
        BY <2>1, <2>2, <2>4
      <3> QED
        BY <1>4, <2>4, <3>1
    <2>5. CASE ~CountsOn(in, at.day)
      <3> DEFINE b == At(at.day + 1, at.counted, at.skipped + 1)
      <3>1. b \in LoopStates /\ b.day = at.day + 1 /\ b.counted = at.counted /\ b.skipped = at.skipped + 1
        BY DEF LoopStates, At
      <3>2. count[at] = count[b]
        BY <1>1, <1>2, <2>2, <2>5 DEF CountStep
      <3> HIDE DEF b
      <3>3. ComesTo(in, b)
        <4>1. b.day - 1 = at.day
          BY <2>2, <3>1
        <4> QED
          BY <1>2, <2>2, <2>3, <2>5, <3>1, <4>1 DEF ComesTo
      <3> QED
        BY <2>4, <3>1, <3>2, <3>3
    <2>6. CASE CountsOn(in, at.day) /\ at.counted + 1 < in.days
      <3> DEFINE b == At(at.day + 1, at.counted + 1, at.skipped)
      <3>1. b \in LoopStates /\ b.day = at.day + 1 /\ b.counted = at.counted + 1 /\ b.skipped = at.skipped
        BY DEF LoopStates, At
      <3>2. count[at] = count[b]
        BY <1>1, <1>2, <2>2, <2>6 DEF CountStep
      <3> HIDE DEF b
      <3>3. ComesTo(in, b)
        <4>1. b.day - 1 = at.day
          BY <2>2, <3>1
        <4> QED
          BY <1>2, <2>2, <2>3, <2>6, <3>1, <4>1 DEF ComesTo
      <3> QED
        BY <2>4, <3>1, <3>2, <3>3
    <2>7. CASE CountsOn(in, at.day) /\ ~(at.counted + 1 < in.days)
      <3>1. count[at] = at
        BY <1>1, <1>2, <2>2, <2>7 DEF CountStep
      <3>2. at.counted + 1 = in.days
        BY <2>2, <2>3, <2>7
      <3> QED
        BY <2>7, <3>1, <3>2 DEF EndsAt
    <2> QED
      BY <2>5, <2>6, <2>7
  <1>5. S \in SUBSET Nat
    OBVIOUS
  <1>6. \A k \in Nat : k \in S
    <2> HIDE DEF S
    <2> QED
      BY <1>3, <1>4, <1>5, AllNumbers
  <1> DEFINE start == At(FirstDay(in), 0, 0)
  <1>7. start \in LoopStates /\ start.day = FirstDay(in) /\ start.counted = 0 /\ start.skipped = 0
    BY <1>2 DEF LoopStates, At
  <1>8. ComesTo(in, start)
    <2>1. CountingTo(in, FirstDay(in) - 1) = {}
      BY DEF CountingTo
    <2>2. Cardinality(CountingTo(in, FirstDay(in) - 1)) = 0
      BY <2>1, FS_EmptySet
    <2> HIDE DEF start
    <2> QED
      BY <1>2, <1>7, <2>2 DEF ComesTo
  <1>9. MaxDate + 1 - FirstDay(in) \in Nat /\ FirstDay(in) + (MaxDate + 1 - FirstDay(in)) = MaxDate + 1
    BY <1>2
  <1>10. CountDays(in) = count[start]
    BY <1>1
  <1> HIDE DEF start
  <1> QED
    BY <1>6, <1>7, <1>8, <1>9, <1>10

LEMMA PostponeIs ==
  ASSUME NEW in, NEW from \in Nat
  PROVE  /\ Postpone(in, from) \in Nat /\ from <= Postpone(in, from)
         /\ Postpone(in, from) <= MaxDate => Available(Postpone(in, from), Exclusions(in.excludedDates))
         /\ \A d \in Nat : from <= d /\ d < Postpone(in, from) =>
               d <= MaxDate /\ ~Available(d, Exclusions(in.excludedDates))
  <1> DEFINE free(d) == Available(d, Exclusions(in.excludedDates))
             stops(d) == d > MaxDate \/ free(d)
             Is(f) == f = [day \in Nat |-> IF day > MaxDate \/ Available(day, Exclusions(in.excludedDates))
                                           THEN day ELSE f[day + 1]]
             rank == [d \in Nat |-> IF stops(d) THEN 0 ELSE MaxDate + 1 - d]
             next == [d \in Nat |-> d + 1]
             same == [d \in Nat |-> d]
  <1>1. MaxDate \in Nat
    BY LimitsAssumption
  <1>2. next \in [Nat -> Nat] /\ same \in [Nat -> Nat]
    OBVIOUS
  <1>3. rank \in [Nat -> Nat]
    <2>1. \A d \in Nat : stops(d) \/ MaxDate + 1 - d \in Nat
      <3> HIDE DEF free
      <3> QED
        BY <1>1
    <2> HIDE DEF stops
    <2> QED
      BY <2>1
  <1>4. Descends(Nat, rank, next)
    <2> SUFFICES ASSUME NEW d \in Nat, rank[d] # 0 PROVE rank[next[d]] < rank[d]
      BY DEF Descends
    <2> HIDE DEF free
    <2> QED
      BY <1>1
  <1>5. PICK f \in [Nat -> Nat] : Calling(f, Nat, rank, next, same, same)
    <2> HIDE DEF rank, next, same
    <2> QED
      BY <1>2, <1>3, <1>4, Recursion DEF Callable
  <1>6. ASSUME NEW d \in Nat PROVE f[d] = IF stops(d) THEN d ELSE f[d + 1]
    <2>1. f[d] = IF rank[d] = 0 THEN d ELSE f[d + 1]
      <3>1. f[d] = IF rank[d] = 0 THEN same[d] ELSE same[f[next[d]]]
        <4> HIDE DEF rank, next, same
        <4> QED
          BY <1>5 DEF Calling
      <3>2. d + 1 \in Nat /\ f[d + 1] \in Nat
        OBVIOUS
      <3> HIDE DEF rank
      <3> QED
        BY <3>1, <3>2
    <2>2. rank[d] = 0 <=> stops(d)
      <3> HIDE DEF free
      <3> QED
        BY <1>1
    <2> HIDE DEF rank, stops
    <2> QED
      BY <2>1, <2>2
  <1>7. Is(f)
    <2> HIDE DEF free
    <2>1. f = [d \in Nat |-> f[d]]
      OBVIOUS
    <2>2. Is(f) <=> f = [d \in Nat |-> IF stops(d) THEN d ELSE f[d + 1]]
      BY DEF free
    <2> HIDE DEF stops, Is
    <2> QED
      BY <1>6, <2>1, <2>2
  <1> DEFINE c == CHOOSE g : Is(g)
  <1>8. Is(c)
    <2> HIDE DEF Is
    <2> QED
      BY <1>7
  <1>9. Postpone(in, from) = c[from]
    BY DEF Postpone
  <1> HIDE DEF c
  <1>10. \A d \in Nat : c[d] = IF stops(d) THEN d ELSE c[d + 1]
    BY <1>8
  <1> DEFINE Right(d) == /\ c[d] \in Nat /\ d <= c[d]
                         /\ c[d] <= MaxDate => free(c[d])
                         /\ \A e \in Nat : (d <= e /\ e < c[d]) => (e <= MaxDate /\ ~free(e))
             S == {k \in Nat : \A d \in Nat : d + k = MaxDate + 1 => Right(d)}
  <1> HIDE DEF free
  <1>11. ASSUME NEW d \in Nat, stops(d) PROVE Right(d)
    <2>1. c[d] = d
      <3> HIDE DEF stops
      <3> QED
        BY <1>10, <1>11
    <2> QED
      BY <1>1, <1>11, <2>1
  <1>12. 0 \in S
    <2> SUFFICES ASSUME NEW d \in Nat, d + 0 = MaxDate + 1 PROVE Right(d)
      OBVIOUS
    <2>1. stops(d)
      BY <1>1
    <2> HIDE DEF Right, stops
    <2> QED
      BY <1>11, <2>1
  <1>13. ASSUME NEW k \in S PROVE k + 1 \in S
    <2>1. k \in Nat
      OBVIOUS
    <2> SUFFICES ASSUME NEW d \in Nat, d + (k + 1) = MaxDate + 1 PROVE Right(d)
      <3> HIDE DEF Right
      <3> QED
        BY <2>1
    <2>2. CASE stops(d)
      <3> HIDE DEF Right, stops
      <3> QED
        BY <1>11, <2>2
    <2>3. CASE ~stops(d)
      <3>1. Right(d + 1)
        <4>1. d + 1 \in Nat /\ (d + 1) + k = MaxDate + 1
          BY <2>1, <1>1
        <4> HIDE DEF Right
        <4> QED
          BY <1>13, <4>1
      <3>2. c[d] = c[d + 1]
        <4> HIDE DEF stops
        <4> QED
          BY <1>10, <2>3
      <3>3. d <= MaxDate /\ ~free(d)
        BY <1>1, <2>3
      <3>4. c[d] \in Nat /\ d + 1 <= c[d] /\ (c[d] <= MaxDate => free(c[d]))
        BY <3>1, <3>2
      <3>5. ASSUME NEW e \in Nat, d <= e, e < c[d] PROVE e <= MaxDate /\ ~free(e)
        <4>1. CASE e = d
          BY <3>3, <4>1
        <4>2. CASE e # d
          <5>1. d + 1 <= e
            BY <3>5, <4>2
          <5> QED
            BY <3>1, <3>2, <3>5, <5>1
        <4> QED
          BY <4>1, <4>2
      <3> QED
        BY <3>4, <3>5
    <2> QED
      BY <2>2, <2>3
  <1>14. S \in SUBSET Nat
    OBVIOUS
  <1>15. \A k \in Nat : k \in S
    <2> HIDE DEF S
    <2> QED
      BY <1>12, <1>13, <1>14, AllNumbers
  <1>16. Right(from)
    <2>1. CASE from > MaxDate
      <3>1. stops(from)
        BY <2>1
      <3> HIDE DEF Right, stops
      <3> QED
        BY <1>11, <3>1
    <2>2. CASE ~(from > MaxDate)
      <3>1. MaxDate + 1 - from \in Nat /\ from + (MaxDate + 1 - from) = MaxDate + 1
        BY <1>1, <2>2
      <3> HIDE DEF Right
      <3> QED
        BY <1>15, <3>1
    <2> QED
      BY <2>1, <2>2
  <1> HIDE DEF stops, c
  <1> QED
    BY <1>9, <1>16 DEF free

LEMMA LeastDayIs ==
  ASSUME NEW S, S \in SUBSET Nat, NEW d, d \in S, \A e \in S : d <= e
  PROVE  LeastDay(S) = d
  <1>1. \A x \in S : (\A e \in S : x <= e) => x = d
    <2> SUFFICES ASSUME NEW x \in S, \A e \in S : x <= e PROVE x = d
      OBVIOUS
    <2>1. x <= d /\ d <= x /\ x \in Nat /\ d \in Nat
      OBVIOUS
    <2> QED
      BY <2>1
  <1> QED
    BY <1>1 DEF LeastDay

(* The first day by which the days of a deadline passed, and the first one it  *)
(* can fall due on.                                                            *)
Reached(in) == {d \in FirstDay(in)..MaxDate : Cardinality(CountingTo(in, d)) = in.days}

DueDays(in) == {d \in LeastDay(Reached(in))..MaxDate :
                  in.postpone = "yes" => Available(d, Exclusions(in.excludedDates))}

LEMMA CountingInOrder ==
  ASSUME NEW in, FirstDay(in) \in Nat, NEW d, d \in Int, NEW e, e \in Int, d <= e
  PROVE  /\ Cardinality(CountingTo(in, d)) \in Nat /\ Cardinality(CountingTo(in, e)) \in Nat
         /\ Cardinality(CountingTo(in, d)) <= Cardinality(CountingTo(in, e))
  <1>1. IsFiniteSet(FirstDay(in)..e) /\ CountingTo(in, e) \subseteq FirstDay(in)..e
    BY FS_Interval DEF CountingTo
  <1>2. IsFiniteSet(CountingTo(in, e)) /\ Cardinality(CountingTo(in, e)) \in Nat
    BY <1>1, FS_Subset, FS_CardinalityType
  <1>3. CountingTo(in, d) \subseteq CountingTo(in, e)
    BY DEF CountingTo
  <1>4. IsFiniteSet(CountingTo(in, d)) /\ Cardinality(CountingTo(in, d)) <= Cardinality(CountingTo(in, e))
    BY <1>2, <1>3, FS_Subset
  <1> QED
    BY <1>2, <1>4, FS_CardinalityType

LEMMA ReachedIs ==
  ASSUME NEW in, in.days \in Nat, in.days > 0, FirstDay(in) \in Nat, FirstDay(in) <= MaxDate + 1
  PROVE  LET end == CountDays(in) IN
         /\ end.day \in Nat /\ end.skipped \in Nat
         /\ end.day > MaxDate => Reached(in) = {}
         /\ end.day <= MaxDate =>
               /\ Reached(in) # {} /\ LeastDay(Reached(in)) = end.day
               /\ end.skipped + in.days = end.day - FirstDay(in) + 1
  <1> DEFINE end == CountDays(in)
             card(d) == Cardinality(CountingTo(in, d))
  <1>1. EndsAt(in, end)
    BY CountDaysEnds
  <1> HIDE DEF end
  <1>2. MaxDate \in Nat
    BY LimitsAssumption
  <1>3. /\ end.day \in Nat /\ end.skipped \in Nat /\ end.counted \in Nat
        /\ end.day >= FirstDay(in) /\ end.day <= MaxDate + 1
        /\ end.counted = card(end.day - 1) /\ end.counted < in.days
        /\ end.skipped + end.counted = end.day - FirstDay(in)
    BY <1>1 DEF EndsAt, ComesTo, LoopStates
  <1>4. ASSUME NEW d \in FirstDay(in)..MaxDate, d < end.day PROVE d \notin Reached(in)
    <2>1. d \in Int /\ end.day - 1 \in Int /\ d <= end.day - 1
      BY <1>3, <1>4
    <2>2. card(d) \in Nat /\ card(d) <= card(end.day - 1)
      BY <2>1, CountingInOrder
    <2> HIDE DEF card
    <2>3. card(d) # in.days
      BY <1>3, <2>2
    <2> QED
      BY <2>3 DEF Reached, card
  <1>5. CASE end.day > MaxDate
    <2>1. Reached(in) = {}
      BY <1>2, <1>3, <1>4, <1>5 DEF Reached
    <2> QED
      BY <1>2, <1>3, <1>5, <2>1 DEF end
  <1>6. CASE end.day <= MaxDate
    <2>1. CountsOn(in, end.day) /\ end.counted + 1 = in.days
      BY <1>1, <1>6 DEF EndsAt
    <2>2. card(end.day) = card(end.day - 1) + 1
      BY <1>3, <2>1, CountingGrows
    <2>3. end.day \in Reached(in)
      BY <1>2, <1>3, <1>6, <2>1, <2>2 DEF Reached
    <2>4. Reached(in) \in SUBSET Nat
      BY <1>2 DEF Reached
    <2>5. ASSUME NEW d \in Reached(in) PROVE end.day <= d
      <3>1. d \in FirstDay(in)..MaxDate /\ d \in Nat
        BY <2>4 DEF Reached
      <3> QED
        BY <1>3, <1>4, <2>5, <3>1
    <2>6. LeastDay(Reached(in)) = end.day
      BY <2>3, <2>4, <2>5, LeastDayIs
    <2> QED
      BY <1>2, <1>3, <1>6, <2>1, <2>3, <2>6 DEF end
  <1> QED
    BY <1>2, <1>3, <1>5, <1>6

LEMMA DeadlineRight ==
  ASSUME NEW in, in.start \in Nat, in.days \in Nat, in.start # NoValue, in.days # NoValue,
         in.mode # NoValue, in.includeStart # NoValue, in.postpone # NoValue
  PROVE  IF in.days \notin 1..3660 \/ Reached(in) = {} \/ DueDays(in) = {}
         THEN CalculateDeadline(in) = Refused
         ELSE /\ CalculateDeadline(in).date = LeastDay(DueDays(in))
              /\ CalculateDeadline(in).skippedDays + in.days = LeastDay(Reached(in)) - FirstDay(in) + 1
              /\ CalculateDeadline(in).elapsedCalendarDays = LeastDay(DueDays(in)) - in.start
  <1> DEFINE end == CountDays(in)
             due == IF in.postpone = "yes" THEN Postpone(in, end.day) ELSE end.day
             outcome == [date |-> due, skippedDays |-> end.skipped, adjustmentDays |-> due - end.day,
                       elapsedCalendarDays |-> due - in.start]
  <1>1. MaxDate \in Nat
    BY LimitsAssumption
  <1>2. FirstDay(in) \in Nat /\ FirstDay(in) >= in.start /\ FirstDay(in) <= in.start + 1
    BY DEF FirstDay
  <1>3. CalculateDeadline(in) =
           IF in.start > MaxDate \/ in.days \notin 1..3660 \/ due > MaxDate THEN Refused ELSE outcome
    <2>1. Date(in.start) <=> in.start <= MaxDate
      BY <1>1 DEF Date
    <2>2. Integer(in.days, 1, 3660) <=> in.days \in 1..3660
      BY DEF Integer
    <2>3. \A f \in {"mode", "includeStart", "postpone"} : Choice(in[f])
      BY DEF Choice
    <2>4. in.start <= MaxDate <=> ~(in.start > MaxDate)
      BY <1>1
    <2> HIDE DEF end
    <2> QED
      BY <2>1, <2>2, <2>3, <2>4 DEF CalculateDeadline, end
  <1>4. CASE in.days \notin 1..3660
    BY <1>3, <1>4
  <1>5. CASE in.days \in 1..3660 /\ in.start > MaxDate
    <2>1. Reached(in) = {}
      BY <1>1, <1>2, <1>5 DEF Reached
    <2> QED
      BY <1>3, <1>5, <2>1
  <1>6. CASE in.days \in 1..3660 /\ ~(in.start > MaxDate)
    <2>1. in.days > 0 /\ FirstDay(in) <= MaxDate + 1
      <3> HIDE DEF end, due, outcome
      <3>1. in.days > 0
        <4> DEFINE n == in.days
        <4>1. n \in 1..3660
          BY <1>6
        <4> HIDE DEF n
        <4>2. n > 0
          BY <4>1
        <4> QED
          BY <4>2 DEF n
      <3>2. in.start <= MaxDate
        BY <1>1, <1>6
      <3> QED
        BY <1>1, <1>2, <3>1, <3>2
    <2>2. /\ end.day \in Nat /\ end.skipped \in Nat
          /\ end.day > MaxDate => Reached(in) = {}
          /\ end.day <= MaxDate => /\ Reached(in) # {} /\ LeastDay(Reached(in)) = end.day
                                   /\ end.skipped + in.days = end.day - FirstDay(in) + 1
      BY <1>2, <2>1, ReachedIs
    <2> HIDE DEF end
    <2>3. /\ due \in Nat /\ end.day <= due
          /\ due <= MaxDate /\ in.postpone = "yes" => Available(due, Exclusions(in.excludedDates))
          /\ \A d \in Nat : (end.day <= d /\ d < due) =>
                (in.postpone = "yes" /\ d <= MaxDate /\ ~Available(d, Exclusions(in.excludedDates)))
      <3>1. CASE in.postpone = "yes"
        BY <2>2, <3>1, PostponeIs
      <3>2. CASE in.postpone # "yes"
        BY <2>2, <3>2
      <3> QED
        BY <3>1, <3>2
    <2> HIDE DEF due
    <2>4. CASE end.day > MaxDate
      <3>1. Reached(in) = {} /\ due > MaxDate
        BY <1>1, <2>2, <2>3, <2>4
      <3> QED
        BY <1>3, <3>1
    <2>5. CASE end.day <= MaxDate
      <3>1. Reached(in) # {} /\ LeastDay(Reached(in)) = end.day /\ end.skipped + in.days = end.day - FirstDay(in) + 1
        BY <2>2, <2>5
      <3>2. DueDays(in) = {d \in end.day..MaxDate : in.postpone = "yes" => Available(d, Exclusions(in.excludedDates))}
        BY <3>1 DEF DueDays
      <3>3. CASE due > MaxDate
        <4>1. DueDays(in) = {}
          BY <1>1, <2>2, <2>3, <3>2, <3>3
        <4> QED
          BY <1>3, <3>3, <4>1
      <3>4. CASE due <= MaxDate
        <4>1. due \in DueDays(in)
          BY <1>1, <2>2, <2>3, <3>2, <3>4
        <4>2. DueDays(in) \in SUBSET Nat
          BY <1>1, <2>2, <3>2
        <4>3. ASSUME NEW d \in DueDays(in) PROVE due <= d
          BY <1>1, <2>2, <2>3, <3>2, <4>3
        <4>4. LeastDay(DueDays(in)) = due
          BY <4>1, <4>2, <4>3, LeastDayIs
        <4>5. CalculateDeadline(in) = outcome
          BY <1>1, <1>3, <1>6, <2>3, <3>4
        <4> QED
          BY <1>6, <3>1, <4>1, <4>4, <4>5
      <3> QED
        BY <1>1, <2>3, <3>3, <3>4
    <2> QED
      BY <1>1, <2>2, <2>4, <2>5
  <1> QED
    BY <1>4, <1>5, <1>6

(* A fraction of a number, rounded: how far from the exact one, and within it. *)
LEMMA CeilingIs ==
  ASSUME NEW n \in Nat, NEW d \in Nat \ {0}
  PROVE  LET q == (n + d - 1) \div d IN q \in Nat /\ n <= q * d /\ q * d < n + d
  <1> DEFINE q == (n + d - 1) \div d
  <1>1. n + d - 1 \in Nat
    OBVIOUS
  <1>2. q \in Nat /\ d * q <= n + d - 1 /\ n + d - 1 < d * q + d
    BY <1>1, Division
  <1> HIDE DEF q
  <1>3. d * q = q * d /\ q * d \in Nat
    BY <1>2
  <1> QED
    BY <1>2, <1>3 DEF q

LEMMA WithinTotal ==
  ASSUME NEW total \in Nat, NEW n \in Nat, NEW d \in Nat \ {0}, n <= d, NEW q \in Nat, q * d < total * n + d
  PROVE  q <= total
  <1>1. total * n <= total * d /\ total * n \in Nat /\ total * d \in Nat
    BY Times, Product
  <1>2. d * q < d * (total + 1)
    <2>1. d * (total + 1) = total * d + d /\ d * q = q * d /\ q * d \in Nat
      OBVIOUS
    <2> QED
      BY <1>1, <2>1
  <1>3. q < total + 1
    BY <1>2, SmallerFactor
  <1> QED
    BY <1>3

LEMMA TargetIs ==
  ASSUME NEW total \in Nat, NEW n \in Nat, NEW d \in Nat \ {0}, n <= d,
         NEW q, NEW rounding \in {"ceil", "floor", "nearest"},
         q = CASE rounding = "ceil" -> (total * n + d - 1) \div d
               [] rounding = "floor" -> (total * n) \div d
               [] OTHER -> RoundedRatio(total * n, d)
  PROVE  /\ q \in 0..total
         /\ rounding = "ceil" => total * n <= q * d /\ q * d < total * n + d
         /\ rounding = "floor" => q * d <= total * n /\ total * n < q * d + d
         /\ rounding = "nearest" => 2 * (q * d) - d <= 2 * (total * n) /\ 2 * (total * n) < 2 * (q * d) + d
  <1> DEFINE exact == total * n
  <1>1. exact \in Nat
    BY Product
  <1> SUFFICES /\ q \in Nat /\ q * d \in Nat
               /\ q * d < exact + d
               /\ rounding = "ceil" => exact <= q * d
               /\ rounding = "floor" => q * d <= exact /\ exact < q * d + d
               /\ rounding = "nearest" => 2 * (q * d) - d <= 2 * exact /\ 2 * exact < 2 * (q * d) + d
    BY WithinTotal
  <1>2. CASE rounding = "ceil"
    <2>1. q = (exact + d - 1) \div d
      BY <1>2
    <2> HIDE DEF exact
    <2>2. q \in Nat /\ exact <= q * d /\ q * d < exact + d
      BY <1>1, <2>1, CeilingIs
    <2> QED
      BY <1>1, <1>2, <2>2
  <1>3. CASE rounding = "floor"
    <2>1. q = exact \div d
      BY <1>3
    <2> HIDE DEF exact
    <2>2. q \in Nat /\ d * q <= exact /\ exact < d * q + d
      BY <1>1, <2>1, Division
    <2>3. d * q = q * d /\ q * d \in Nat
      BY <2>2
    <2> QED
      BY <1>1, <1>3, <2>2, <2>3
  <1>4. CASE rounding = "nearest"
    <2>1. q = RoundedRatio(exact, d)
      BY <1>4
    <2> HIDE DEF exact
    <2>2. q \in Nat /\ 2 * q * d - d <= 2 * exact /\ 2 * exact < 2 * q * d + d
      BY <1>1, <2>1, Rounded
    <2>3. 2 * q * d = 2 * (q * d) /\ q * d \in Nat
      BY <2>2
    <2> QED
      BY <1>1, <1>4, <2>2, <2>3
  <1> QED
    BY <1>2, <1>3, <1>4

LEMMA PositiveInteger ==
  ASSUME NEW v, NEW n, n \in Nat, Integer(v, 1, n)
  PROVE  v # 0
  BY DEF Integer

LEMMA FractionRight ==
  ASSUME NEW in, in.totalDays \in Nat, in.completedDays \in Nat, in.numerator \in Nat, in.denominator \in Nat,
         in.rounding \in {"ceil", "floor", "nearest"}, CalculateExecution(in) # Refused
  PROVE  LET r == CalculateExecution(in)
             exact == in.totalDays * in.numerator
             got == r.targetDays * in.denominator
         IN /\ r.targetDays \in 0..in.totalDays
            /\ in.rounding = "ceil" => exact <= got /\ got < exact + in.denominator
            /\ in.rounding = "floor" => got <= exact /\ exact < got + in.denominator
            /\ in.rounding = "nearest" => /\ 2 * got - in.denominator <= 2 * exact
                                          /\ 2 * exact < 2 * got + in.denominator
            /\ r.reached <=> r.remainingDays = 0
  <1> DEFINE total == in.totalDays
             n == in.numerator
             d == in.denominator
             done == in.completedDays
             rounding == in.rounding
             product == total * n
             q == CASE rounding = "ceil" -> (product + d - 1) \div d
                    [] rounding = "floor" -> product \div d
                    [] OTHER -> RoundedRatio(product, d)
             r == CalculateExecution(in)
  <1>1. /\ n <= d
        /\ r = [targetDays |-> q, remainingDays |-> IF q > done THEN q - done ELSE 0, reached |-> done >= q]
    BY SMT DEF CalculateExecution
  <1>2. total \in Nat /\ n \in Nat /\ d \in Nat /\ done \in Nat /\ rounding \in {"ceil", "floor", "nearest"}
    OBVIOUS
  <1>3. d # 0
    <2>1. Integer(d, 1, 1000000)
      BY SMT DEF CalculateExecution
    <2> HIDE DEF d
    <2> QED
      BY <2>1, PositiveInteger, SMT
  <1>4. r.targetDays = q /\ (r.reached <=> done >= q) /\ r.remainingDays = IF q > done THEN q - done ELSE 0
    <2>1. r = [targetDays |-> q, remainingDays |-> IF q > done THEN q - done ELSE 0, reached |-> done >= q]
      BY <1>1
    <2> HIDE DEF q, r, done
    <2> QED
      BY <2>1
  <1> DEFINE exact == total * n
             got == q * d
  <1>5. /\ q \in 0..total
        /\ rounding = "ceil" => exact <= got /\ got < exact + d
        /\ rounding = "floor" => got <= exact /\ exact < got + d
        /\ rounding = "nearest" => 2 * got - d <= 2 * exact /\ 2 * exact < 2 * got + d
    <2> HIDE DEF total, n, d, done, rounding
    <2>1. d \in Nat \ {0} /\ n <= d
      BY <1>1, <1>2, <1>3
    <2>2. q = CASE rounding = "ceil" -> (total * n + d - 1) \div d
                [] rounding = "floor" -> (total * n) \div d
                [] OTHER -> RoundedRatio(total * n, d)
      OBVIOUS
    <2> HIDE DEF q
    <2> QED
      BY <1>2, <2>1, <2>2, TargetIs
  <1>6. r.reached <=> r.remainingDays = 0
    <2> HIDE DEF q, r, total, done
    <2> QED
      BY <1>2, <1>4, <1>5
  <1> HIDE DEF q, r
  <1> QED
    BY <1>4, <1>5, <1>6 DEF r

(* Interest: none for no period or no rate, the same in both modes for one     *)
(* period, and never less compound than simple.                                *)
SimpleInterest(basis, rate, divisor, periods) == RoundedRatio(basis * rate * periods, divisor)

CompoundInterest(basis, rate, divisor, periods) ==
    RoundedRatio(basis * (Power(divisor + rate, periods) - Power(divisor, periods)), Power(divisor, periods))

LEMMA InterestInOrder ==
  ASSUME NEW B \in Nat, NEW a \in Nat, NEW D \in Nat \ {0}, NEW n \in Nat
  PROVE  /\ SimpleInterest(B, a, D, n) \in Nat /\ CompoundInterest(B, a, D, n) \in Nat
         /\ SimpleInterest(B, a, D, n) <= CompoundInterest(B, a, D, n)
         /\ n = 1 => SimpleInterest(B, a, D, n) = CompoundInterest(B, a, D, n)
         /\ n = 0 \/ a = 0 => SimpleInterest(B, a, D, n) = 0 /\ CompoundInterest(B, a, D, n) = 0
  <1> DEFINE P == Power(D + a, n)
             Q == Power(D, n)
  <1>1. P \in Nat /\ Q \in Nat \ {0}
    <2>1. D + a \in Nat
      OBVIOUS
    <2> QED
      BY <2>1, PowersArePositive
  <1>2. Q <= P /\ a * n * Q <= D * (P - Q)
    BY CompoundIsMore
  <1>3. n = 0 => P = 1 /\ Q = 1
    BY PowerIs
  <1>4. a = 0 => P = Q
    OBVIOUS
  <1>5. n = 1 => P = D + a /\ Q = D
    <2>1. Power(D, 0 + 1) = D * 1 /\ Power(D + a, 0 + 1) = (D + a) * 1
      BY PowerIs
    <2> QED
      BY <2>1
  <1> HIDE DEF P, Q
  <1>6. a * n \in Nat /\ P - Q \in Nat
    BY <1>1, <1>2, Product
  <1>7. B * (a * n) \in Nat /\ B * (P - Q) \in Nat /\ B * a * n = B * (a * n)
    BY <1>6, Product
  <1>8. SimpleInterest(B, a, D, n) = RoundedRatio(B * (a * n), D)
        /\ CompoundInterest(B, a, D, n) = RoundedRatio(B * (P - Q), Q)
    BY <1>7 DEF SimpleInterest, CompoundInterest, P, Q
  <1>9. RoundedRatio(B * (a * n), D) \in Nat /\ RoundedRatio(B * (P - Q), Q) \in Nat
    BY <1>1, <1>7, Rounded
  <1>10. RoundedRatio(B * (a * n), D) <= RoundedRatio(B * (P - Q), Q)
    <2>1. (B * (a * n)) * Q <= (B * (P - Q)) * D
      <3> DEFINE x == a * n * Q
                 y == D * (P - Q)
      <3>1. x \in Nat /\ y \in Nat /\ x <= y
        BY <1>1, <1>2, <1>6, Product
      <3>2. B * x <= B * y
        <4> HIDE DEF x, y
        <4> QED
          BY <3>1, Times
      <3>3. B * x = (B * (a * n)) * Q /\ B * y = (B * (P - Q)) * D
        BY <1>1, <1>6
      <3> HIDE DEF x, y
      <3> QED
        BY <3>2, <3>3
    <2> DEFINE u == B * (a * n)
               v == B * (P - Q)
    <2>2. u \in Nat /\ v \in Nat /\ u * Q <= v * D
      BY <1>7, <2>1
    <2> HIDE DEF u, v
    <2>3. RoundedRatio(u, D) <= RoundedRatio(v, Q)
      BY <1>1, <2>2, RoundedInOrder
    <2> QED
      BY <2>3 DEF u, v
  <1>11. ASSUME n = 1 PROVE SimpleInterest(B, a, D, n) = CompoundInterest(B, a, D, n)
    <2>1. P - Q = a /\ Q = D /\ a * n = a
      BY <1>5, <1>11
    <2>2. RoundedRatio(B * (a * n), D) = RoundedRatio(B * (P - Q), Q)
      BY <2>1
    <2> QED
      BY <1>8, <2>2
  <1>12. ASSUME n = 0 \/ a = 0 PROVE SimpleInterest(B, a, D, n) = 0 /\ CompoundInterest(B, a, D, n) = 0
    <2>1. a * n = 0 /\ P - Q = 0
      BY <1>1, <1>3, <1>4, <1>12
    <2>2. B * (a * n) = 0 /\ B * (P - Q) = 0
      BY <2>1
    <2>3. RoundedRatio(0, D) = 0 /\ RoundedRatio(0, Q) = 0
      BY <1>1, NothingRounded
    <2> QED
      BY <1>8, <2>2, <2>3
  <1> QED
    BY <1>8, <1>9, <1>10, <1>11, <1>12

BasisOf(in, original, updated) == IF in.interestBasis = "original" THEN original ELSE updated

LEMMA InterestIs ==
  ASSUME NEW in, NEW original, NEW updated, in = [f \in DOMAIN in |-> in[f]], "interestMode" \in DOMAIN in
  PROVE  LET basis == BasisOf(in, original, updated)
             rate == in.interestRate[1]
             divisor == in.interestRate[2] * 100
             other(mode) == Interest([in EXCEPT !.interestMode = mode], original, updated)
         IN /\ other("simple") = SimpleInterest(basis, rate, divisor, in.interestPeriods)
            /\ other("compound") = CompoundInterest(basis, rate, divisor, in.interestPeriods)
            /\ in.interestMode = "none" => Interest(in, original, updated) = 0
            /\ in.interestMode = "simple" =>
                  Interest(in, original, updated) = SimpleInterest(basis, rate, divisor, in.interestPeriods)
            /\ in.interestMode = "compound" =>
                  Interest(in, original, updated) = CompoundInterest(basis, rate, divisor, in.interestPeriods)
  <1> DEFINE with(mode) == [in EXCEPT !.interestMode = mode]
  <1>1. ASSUME NEW mode
        PROVE  /\ with(mode).interestMode = mode
               /\ with(mode).interestBasis = in.interestBasis /\ with(mode).interestRate = in.interestRate
               /\ with(mode).interestPeriods = in.interestPeriods
    OBVIOUS
  <1> HIDE DEF with
  <1>2. /\ Interest(with("simple"), original, updated)
              = SimpleInterest(BasisOf(in, original, updated), in.interestRate[1], in.interestRate[2] * 100, in.interestPeriods)
        /\ Interest(with("compound"), original, updated)
              = CompoundInterest(BasisOf(in, original, updated), in.interestRate[1], in.interestRate[2] * 100, in.interestPeriods)
    BY <1>1 DEF Interest, SimpleInterest, CompoundInterest, BasisOf
  <1>3. /\ in.interestMode = "none" => Interest(in, original, updated) = 0
        /\ in.interestMode = "simple" => Interest(in, original, updated)
              = SimpleInterest(BasisOf(in, original, updated), in.interestRate[1], in.interestRate[2] * 100, in.interestPeriods)
        /\ in.interestMode = "compound" => Interest(in, original, updated)
              = CompoundInterest(BasisOf(in, original, updated), in.interestRate[1], in.interestRate[2] * 100, in.interestPeriods)
    BY DEF Interest, SimpleInterest, CompoundInterest, BasisOf
  <1> QED
    BY <1>2, <1>3 DEF with

LEMMA MonetaryRight ==
  ASSUME NEW in, in = [f \in DOMAIN in |-> in[f]], "interestMode" \in DOMAIN in,
         in.principal \in Nat, in.factor \in Nat \X (Nat \ {0}),
         in.interestMode \in {"none", "simple", "compound"},
         in.interestMode # "none" => in.interestRate \in Nat \X (Nat \ {0}) /\ in.interestPeriods \in Nat,
         CalculateMonetary(in) # Refused
  PROVE  LET r == CalculateMonetary(in)
             other(mode) == Interest([in EXCEPT !.interestMode = mode], r.originalCents, r.updatedCents)
         IN /\ r.originalCents + r.correctionCents + r.interestCents = r.totalCents
            /\ r.totalCents \in 0..MaxCents
            /\ 2 * r.updatedCents * in.factor[2] - in.factor[2] <= 2 * in.principal * in.factor[1]
            /\ 2 * in.principal * in.factor[1] < 2 * r.updatedCents * in.factor[2] + in.factor[2]
            /\ in.interestMode # "none" =>
                 /\ (in.interestPeriods = 0 \/ in.interestRate[1] = 0) => r.interestCents = 0
                 /\ in.interestPeriods = 1 => other("simple") = other("compound")
                 /\ other("simple") <= other("compound")
  <1> DEFINE o == in.principal
             u == RoundedRatio(o * in.factor[1], in.factor[2])
             i == Interest(in, o, u)
             r == CalculateMonetary(in)
             basis == BasisOf(in, o, u)
             rate == in.interestRate[1]
             divisor == in.interestRate[2] * 100
             n == in.interestPeriods
             other(mode) == Interest([in EXCEPT !.interestMode = mode], o, u)
  <1>1. /\ r = [originalCents |-> o, correctionCents |-> u - o, updatedCents |-> u, interestCents |-> i, totalCents |-> u + i]
        /\ BoundedCents(u + i)
    <2> HIDE DEF i
    <2> QED
      BY DEF CalculateMonetary, i
  <1>2. /\ r.originalCents = o /\ r.correctionCents = u - o /\ r.updatedCents = u
        /\ r.interestCents = i /\ r.totalCents = u + i
    <2>1. r = [originalCents |-> o, correctionCents |-> u - o, updatedCents |-> u, interestCents |-> i, totalCents |-> u + i]
      BY <1>1
    <2> HIDE DEF r, o, u, i
    <2> QED
      BY <2>1
  <1>3. u \in Nat /\ 2 * u * in.factor[2] - in.factor[2] <= 2 * in.principal * in.factor[1]
        /\ 2 * in.principal * in.factor[1] < 2 * u * in.factor[2] + in.factor[2]
    <2> DEFINE a == in.factor[1]
               b == in.factor[2]
    <2>1. o \in Nat /\ a \in Nat /\ b \in Nat \ {0}
      OBVIOUS
    <2> HIDE DEF o, a, b
    <2>2. o * a \in Nat /\ 2 * o * a = 2 * (o * a)
      BY <2>1, Product
    <2>3. /\ RoundedRatio(o * a, b) \in Nat
          /\ 2 * RoundedRatio(o * a, b) * b - b <= 2 * (o * a) /\ 2 * (o * a) < 2 * RoundedRatio(o * a, b) * b + b
      BY <2>1, <2>2, Rounded
    <2> QED
      BY <2>2, <2>3 DEF o, a, b
  <1>4. /\ other("simple") = SimpleInterest(basis, rate, divisor, n)
        /\ other("compound") = CompoundInterest(basis, rate, divisor, n)
        /\ in.interestMode = "none" => i = 0
        /\ in.interestMode = "simple" => i = SimpleInterest(basis, rate, divisor, n)
        /\ in.interestMode = "compound" => i = CompoundInterest(basis, rate, divisor, n)
    <2> HIDE DEF o, u
    <2> QED
      BY InterestIs
  <1>5. ASSUME in.interestMode # "none"
        PROVE  /\ SimpleInterest(basis, rate, divisor, n) \in Nat /\ CompoundInterest(basis, rate, divisor, n) \in Nat
               /\ SimpleInterest(basis, rate, divisor, n) <= CompoundInterest(basis, rate, divisor, n)
               /\ n = 1 => SimpleInterest(basis, rate, divisor, n) = CompoundInterest(basis, rate, divisor, n)
               /\ (n = 0 \/ rate = 0) => /\ SimpleInterest(basis, rate, divisor, n) = 0
                                        /\ CompoundInterest(basis, rate, divisor, n) = 0
    <2>1. in.interestRate \in Nat \X (Nat \ {0}) /\ n \in Nat
      BY <1>5
    <2>2. rate \in Nat /\ divisor \in Nat \ {0}
      BY <2>1
    <2>3. basis \in Nat
      <3>1. o \in Nat
        OBVIOUS
      <3> HIDE DEF o, u
      <3> QED
        BY <1>3, <3>1 DEF BasisOf
    <2> HIDE DEF basis, rate, divisor, n
    <2> QED
      BY <2>1, <2>2, <2>3, InterestInOrder
  <1> HIDE DEF basis, rate, divisor, other, u, i, r
  <1>6. i \in Nat
    BY <1>4, <1>5
  <1>7. u + i \in 0..MaxCents
    BY <1>1, <1>3, <1>6, LimitsAssumption DEF BoundedCents
  <1>8. in.interestMode # "none" =>
           /\ (n = 0 \/ rate = 0) => i = 0
           /\ n = 1 => other("simple") = other("compound")
           /\ other("simple") <= other("compound")
    <2> SUFFICES ASSUME in.interestMode # "none"
                 PROVE  /\ (n = 0 \/ rate = 0) => i = 0
                        /\ n = 1 => other("simple") = other("compound")
                        /\ other("simple") <= other("compound")
      OBVIOUS
    <2>1. in.interestMode = "simple" \/ in.interestMode = "compound"
      OBVIOUS
    <2> HIDE DEF n
    <2> QED
      BY <1>4, <1>5, <2>1
  <1>9. o + (u - o) + i = u + i
    <2>1. o \in Nat
      OBVIOUS
    <2> HIDE DEF o
    <2> QED
      BY <1>3, <1>6, <2>1
  <1>10. \A mode : Interest([in EXCEPT !.interestMode = mode], r.originalCents, r.updatedCents) = other(mode)
    BY <1>2 DEF other
  <1> QED
    BY <1>2, <1>3, <1>7, <1>8, <1>9, <1>10 DEF r, rate

LEMMA LaborRight ==
  ASSUME NEW in, in.salaryBalance \in Nat, in.otherCredits \in Nat, in.deductions \in Nat,
         in.fgtsMode = "penalty" => in.fgtsBase \in Nat /\ in.fgtsRate \in Nat \X (Nat \ {0}),
         CalculateLabor(in) # Refused
  PROVE  LET r == CalculateLabor(in) IN
         /\ r.netCents + in.deductions = in.salaryBalance + in.otherCredits + r.fgtsPenaltyCents
         /\ r.grossCents \in 0..MaxCents
         /\ in.fgtsMode = "none" => r.fgtsPenaltyCents = 0
  <1> DEFINE penalty == in.fgtsMode = "penalty"
             fgts == RoundedRatio(in.fgtsBase * in.fgtsRate[1], in.fgtsRate[2] * 100)
             due == IF penalty THEN fgts ELSE 0
             s == in.salaryBalance
             c == in.otherCredits
             d == in.deductions
             gross == s + c + due
             r == CalculateLabor(in)
  <1>1. /\ r = [grossCents |-> gross, deductionCents |-> d, netCents |-> gross - d, fgtsPenaltyCents |-> due]
        /\ BoundedCents(gross)
    BY DEF CalculateLabor
  <1>2. due \in Nat
    <2>1. CASE penalty
      <3> DEFINE b == in.fgtsBase
                 n == in.fgtsRate[1]
                 m == in.fgtsRate[2]
      <3>1. b \in Nat /\ n \in Nat /\ m \in Nat \ {0}
        BY <2>1
      <3> HIDE DEF b, n, m
      <3>2. b * n \in Nat /\ m * 100 \in Nat \ {0}
        BY <3>1, Product
      <3>3. RoundedRatio(b * n, m * 100) \in Nat
        BY <3>2, Rounded
      <3> QED
        BY <2>1, <3>3 DEF b, n, m
    <2> QED
      BY <2>1
  <1>3. /\ r.grossCents = gross /\ r.netCents = gross - d /\ r.fgtsPenaltyCents = due
    <2>1. r = [grossCents |-> gross, deductionCents |-> d, netCents |-> gross - d, fgtsPenaltyCents |-> due]
      BY <1>1
    <2> HIDE DEF r, gross, d, due
    <2> QED
      BY <2>1
  <1>4. in.fgtsMode = "none" => due = 0
    OBVIOUS
  <1> HIDE DEF due, r
  <1>5. s \in Nat /\ c \in Nat /\ d \in Nat
    OBVIOUS
  <1>6. (gross - d) + d = s + c + due /\ gross \in 0..MaxCents
    <2> HIDE DEF s, c, d
    <2> QED
      BY <1>1, <1>2, <1>5, LimitsAssumption DEF BoundedCents
  <1> QED
    BY <1>3, <1>4, <1>6 DEF r

(* The fields of a form, of which any may be empty. *)
InputFits(key, in) ==
    /\ in = [f \in DOMAIN Fields[key] |-> in[f]]
    /\ \A f \in DOMAIN Fields[key] : in[f] = NoValue \/ in[f] \in Fields[key][f]

\* A reset leaves the fields of a mode shown until its timer, with an empty form.
CalcInv ==
    \/ calcKey = "none" /\ calcResult = NoResult /\ calcVisible = FALSE /\ calcResetting = FALSE
    \/ /\ calcKey \in Keys /\ InputFits(calcKey, calcInput) /\ calcVisible \in BOOLEAN /\ calcResetting \in BOOLEAN
       /\ \/ calcVisible = Wanted(calcKey, calcInput)
          \/ calcResetting /\ calcInput = EmptyForm(calcKey) /\ calcResult = NoResult
       /\ calcResult # NoResult => Filled /\ calcResult = Calculated(calcKey, Sent)

LEMMA FieldsAre ==
  /\ Keys = {"deadline", "execution", "monetary", "labor"}
  /\ DOMAIN Fields["deadline"] = {"start", "days", "mode", "includeStart", "postpone", "excludedDates"}
  /\ DOMAIN Fields["execution"] = {"totalDays", "completedDays", "numerator", "denominator", "rounding"}
  /\ DOMAIN Fields["monetary"] = {"start", "end", "principal", "factor", "interestMode", "interestRate",
                                  "interestPeriods", "interestBasis"}
  /\ DOMAIN Fields["labor"] = {"start", "end", "salaryBalance", "otherCredits", "deductions", "fgtsMode",
                               "fgtsBase", "fgtsRate"}
  BY DEF Keys, Fields

LEMMA WantedIsBoolean == \A key, in : Wanted(key, in) \in BOOLEAN
  BY DEF Wanted

LEMMA EmptyFits ==
  ASSUME NEW key \in Keys
  PROVE  InputFits(key, EmptyForm(key)) /\ Wanted(key, EmptyForm(key)) = FALSE
  <1>1. InputFits(key, EmptyForm(key))
    BY DEF InputFits, EmptyForm
  <1>2. key = "monetary" => EmptyForm(key).interestMode = NoValue
    BY FieldsAre DEF EmptyForm
  <1>3. key = "labor" => EmptyForm(key).fgtsMode = NoValue
    BY FieldsAre DEF EmptyForm
  <1> QED
    BY <1>1, <1>2, <1>3, FieldsAssumption DEF Wanted

LEMMA CalcInitInv == CalcInit => CalcInv
  BY DEF CalcInit, CalcInv

LEMMA OpenFormStep ==
  ASSUME CalcInv, NEW key \in Keys, OpenForm(key)
  PROVE  CalcInv'
  <1>1. calcKey = "none" /\ "none" \notin Keys
    BY FieldsAre DEF OpenForm
  <1>2. calcResult' = NoResult /\ calcVisible' = FALSE /\ calcResetting' = FALSE /\ calcKey' = key
        /\ calcInput' = EmptyForm(key)
    BY <1>1 DEF CalcInv, OpenForm
  <1>3. InputFits(key, EmptyForm(key)) /\ Wanted(key, EmptyForm(key)) = FALSE
    BY EmptyFits
  <1> QED
    BY <1>2, <1>3 DEF CalcInv

LEMMA EditStep ==
  ASSUME CalcInv, NEW field \in DOMAIN calcInput, NEW value \in Fields[calcKey][field], Edit(field, value)
  PROVE  CalcInv'
  <1>1. calcKey \in Keys /\ InputFits(calcKey, calcInput) /\ calcResetting \in BOOLEAN
    BY DEF CalcInv, Edit
  <1>2. /\ calcKey' = calcKey /\ calcResetting' = calcResetting /\ calcResult' = NoResult
        /\ calcInput' = [calcInput EXCEPT ![field] = value] /\ calcVisible' = Wanted(calcKey, calcInput')
    BY DEF Edit, ClearResult, UpdateVisibility
  <1>3. InputFits(calcKey, calcInput')
    BY <1>1, <1>2 DEF InputFits
  <1>4. calcVisible' \in BOOLEAN
    BY <1>2, WantedIsBoolean
  <1> QED
    BY <1>1, <1>2, <1>3, <1>4 DEF CalcInv

LEMMA ResetStep ==
  ASSUME CalcInv, Reset
  PROVE  CalcInv'
  <1>1. calcKey \in Keys /\ calcVisible \in BOOLEAN
    BY DEF CalcInv, Reset
  <1>2. /\ calcKey' = calcKey /\ calcResetting' = TRUE /\ calcResult' = NoResult
        /\ calcInput' = EmptyForm(calcKey) /\ calcVisible' = calcVisible
    BY DEF Reset, ClearResult, ResetVisibility
  <1>3. InputFits(calcKey, EmptyForm(calcKey))
    BY <1>1, EmptyFits
  <1> QED
    BY <1>1, <1>2, <1>3 DEF CalcInv

LEMMA ResetTimerStep ==
  ASSUME CalcInv, ResetTimer
  PROVE  CalcInv'
  <1>1. /\ calcKey \in Keys /\ InputFits(calcKey, calcInput) /\ calcVisible \in BOOLEAN
        /\ \/ calcVisible = Wanted(calcKey, calcInput)
           \/ calcResult = NoResult
        /\ calcResult # NoResult => Filled /\ calcResult = Calculated(calcKey, Sent)
    BY DEF CalcInv, ResetTimer
  <1>2. /\ calcKey' = calcKey /\ calcResetting' = FALSE /\ calcResult' = calcResult
        /\ calcInput' = calcInput /\ calcVisible' = Wanted(calcKey, calcInput)
    BY DEF ResetTimer, UpdateVisibility
  <1>3. calcVisible' \in BOOLEAN
    BY <1>2, WantedIsBoolean
  <1>4. ASSUME calcResult' # NoResult PROVE Filled' /\ calcResult' = Calculated(calcKey', Sent')
    <2>1. calcVisible' = calcVisible
      BY <1>1, <1>2, <1>4
    <2>2. (Filled' <=> Filled) /\ Sent' = Sent
      BY <1>2, <2>1 DEF Filled, Sent
    <2> QED
      BY <1>1, <1>2, <1>4, <2>2
  <1> QED
    BY <1>1, <1>2, <1>3, <1>4 DEF CalcInv

(* An empty form is not sent. *)
LEMMA EmptyIsNotFilled ==
  ASSUME calcKey \in Keys, calcInput = EmptyForm(calcKey)
  PROVE  ~Filled
  <1>1. DOMAIN calcInput = DOMAIN Fields[calcKey] /\ \A f \in DOMAIN Fields[calcKey] : calcInput[f] = NoValue
    BY DEF EmptyForm
  <1>2. \E f \in DOMAIN Fields[calcKey] \ {"excludedDates"} : f \notin Dependent(calcKey)
    <2>1. CASE calcKey \in {"deadline", "monetary", "labor"}
      <3>1. "start" \in DOMAIN Fields[calcKey] /\ "start" # "excludedDates"
        BY <2>1, FieldsAre
      <3>2. "start" \notin Dependent(calcKey)
        BY <2>1 DEF Dependent
      <3> QED
        BY <3>1, <3>2
    <2>2. CASE calcKey = "execution"
      <3>1. "rounding" \in DOMAIN Fields[calcKey] /\ "rounding" # "excludedDates"
        BY <2>2, FieldsAre
      <3>2. "rounding" \notin Dependent(calcKey)
        BY <2>2 DEF Dependent
      <3> QED
        BY <3>1, <3>2
    <2> QED
      BY <2>1, <2>2, FieldsAre
  <1> QED
    BY <1>1, <1>2 DEF Filled

LEMMA SubmitStep ==
  ASSUME CalcInv, Submit
  PROVE  CalcInv'
  <1>1. /\ calcKey \in Keys /\ InputFits(calcKey, calcInput) /\ calcVisible \in BOOLEAN /\ calcResetting \in BOOLEAN
        /\ \/ calcVisible = Wanted(calcKey, calcInput)
           \/ calcResetting /\ calcInput = EmptyForm(calcKey) /\ calcResult = NoResult
    BY DEF CalcInv, Submit
  <1>2. /\ calcKey' = calcKey /\ calcInput' = calcInput /\ calcVisible' = calcVisible /\ calcResetting' = calcResetting
        /\ calcResult' = IF Filled THEN Calculated(calcKey, Sent) ELSE NoResult
    BY DEF Submit
  <1>3. (Filled' <=> Filled) /\ Sent' = Sent
    BY <1>2 DEF Filled, Sent
  <1>4. calcInput = EmptyForm(calcKey) => calcResult' = NoResult
    BY <1>1, <1>2, EmptyIsNotFilled
  <1> QED
    BY <1>1, <1>2, <1>3, <1>4 DEF CalcInv

LEMMA CalcNextInv ==
  ASSUME CalcInv, [CalcNext]_calcVars
  PROVE  CalcInv'
  <1>1. CASE \E key \in Keys : OpenForm(key)
    BY <1>1, OpenFormStep
  <1>2. CASE \E field \in DOMAIN calcInput : \E value \in Fields[calcKey][field] : Edit(field, value)
    BY <1>2, EditStep
  <1>3. CASE Reset
    BY <1>3, ResetStep
  <1>4. CASE ResetTimer
    BY <1>4, ResetTimerStep
  <1>5. CASE Submit
    BY <1>5, SubmitStep
  <1>6. CASE UNCHANGED calcVars
    <2>1. /\ calcKey' = calcKey /\ calcInput' = calcInput /\ calcVisible' = calcVisible
          /\ calcResetting' = calcResetting /\ calcResult' = calcResult
      BY <1>6 DEF calcVars
    <2>2. (Filled' <=> Filled) /\ Sent' = Sent
      BY <2>1 DEF Filled, Sent
    <2> QED
      BY <2>1, <2>2 DEF CalcInv
  <1> QED
    BY <1>1, <1>2, <1>3, <1>4, <1>5, <1>6 DEF CalcNext

(* What is sent is what is on the screen, but for the fields of a mode that is *)
(* not chosen.                                                                 *)
LEMMA SentIs ==
  ASSUME CalcInv, calcResult # NoResult
  PROVE  /\ calcKey \in Keys /\ Filled /\ calcResult = Calculated(calcKey, Sent)
         /\ DOMAIN calcInput = DOMAIN Fields[calcKey] /\ DOMAIN Sent = DOMAIN Fields[calcKey]
         /\ Sent = [f \in DOMAIN Sent |-> Sent[f]]
         /\ \A f \in DOMAIN Fields[calcKey] : f \notin Dependent(calcKey) => Sent[f] = calcInput[f]
         /\ Wanted(calcKey, calcInput) \/ Dependent(calcKey) = {} => Sent = calcInput
         /\ \A f \in DOMAIN Fields[calcKey] \ {"excludedDates"} :
               f \notin Dependent(calcKey) \/ Wanted(calcKey, calcInput) =>
                  calcInput[f] # NoValue /\ calcInput[f] \in Fields[calcKey][f]
  <1>1. /\ calcKey \in Keys /\ InputFits(calcKey, calcInput) /\ calcVisible = Wanted(calcKey, calcInput)
        /\ Filled /\ calcResult = Calculated(calcKey, Sent)
    BY DEF CalcInv
  <1>2. DOMAIN calcInput = DOMAIN Fields[calcKey] /\ calcInput = [f \in DOMAIN calcInput |-> calcInput[f]]
    BY <1>1 DEF InputFits
  <1>3. /\ DOMAIN Sent = DOMAIN Fields[calcKey] /\ Sent = [f \in DOMAIN Sent |-> Sent[f]]
        /\ \A f \in DOMAIN Fields[calcKey] : f \notin Dependent(calcKey) => Sent[f] = calcInput[f]
    BY <1>2 DEF Sent
  <1>4. Wanted(calcKey, calcInput) \/ Dependent(calcKey) = {} => Sent = calcInput
    BY <1>1, <1>2 DEF Sent
  <1>5. \A f \in DOMAIN Fields[calcKey] \ {"excludedDates"} :
           f \notin Dependent(calcKey) \/ Wanted(calcKey, calcInput) => calcInput[f] # NoValue
    BY <1>1, <1>2 DEF Filled
  <1> QED
    BY <1>1, <1>2, <1>3, <1>4, <1>5 DEF InputFits

LEMMA DeadlineShownIsRight ==
  ASSUME CalcInv
  PROVE  DeadlineMeetsDefinition
  <1> SUFFICES ASSUME Shown("deadline") PROVE DeadlineMeetsDefinition
    BY DEF DeadlineMeetsDefinition
  <1> DEFINE in == calcInput
  <1>1. calcKey = "deadline" /\ calcResult # NoResult
    BY DEF Shown
  <1>2. Dependent("deadline") = {}
    BY DEF Dependent
  <1>3. calcResult = Calculated("deadline", in)
    BY <1>1, <1>2, SentIs
  <1>4. calcResult = CalculateDeadline(in)
    BY <1>3 DEF Calculated
  <1>5. \A f \in DOMAIN Fields["deadline"] \ {"excludedDates"} : in[f] # NoValue /\ in[f] \in Fields["deadline"][f]
    BY <1>1, <1>2, SentIs
  <1>6. /\ in.start # NoValue /\ in.days # NoValue /\ in.mode # NoValue /\ in.includeStart # NoValue
        /\ in.postpone # NoValue /\ in.start \in Fields["deadline"].start /\ in.days \in Fields["deadline"].days
    BY <1>5, FieldsAre
  <1>7. in.start \in Nat /\ in.days \in Nat
    <2>1. Fields["deadline"].start = Dates /\ Fields["deadline"].days = Counts
      BY DEF Fields
    <2> QED
      BY <1>6, <2>1, FieldsAssumption
  <1> DEFINE first == IF in.includeStart = "yes" THEN in.start ELSE in.start + 1
             free(d) == (d + Sunday) % 7 \in 1..5 /\ d \notin Exclusions(in.excludedDates)
             counting(d) == {e \in first..d : in.mode = "calendar" \/ free(e)}
             reached == {d \in first..MaxDate : Cardinality(counting(d)) = in.days}
             end == LeastDay(reached)
             due == {d \in end..MaxDate : in.postpone = "yes" => free(d)}
  <1> HIDE DEF in
  <1>8. first = FirstDay(in) /\ first \in Nat
    BY <1>7 DEF FirstDay
  <1>9. ASSUME NEW d \in Nat PROVE free(d) <=> Available(d, Exclusions(in.excludedDates))
    <2>1. Sunday \in Nat
      BY LimitsAssumption
    <2>2. (d + Sunday) % 7 \in 0..6
      BY <2>1
    <2>3. (d + Sunday) % 7 \in 1..5 <=> (d + Sunday) % 7 \notin {0, 6}
      BY <2>2
    <2> QED
      BY <2>3 DEF Available
  <1> HIDE DEF free
  <1>10. ASSUME NEW d PROVE counting(d) = CountingTo(in, d)
    <2>1. \A e \in first..d : e \in Nat
      BY <1>8
    <2> QED
      BY <1>8, <1>9, <2>1 DEF CountingTo, CountsOn
  <1> HIDE DEF first, counting
  <1>11. reached = Reached(in)
    BY <1>8, <1>10 DEF Reached
  <1>12. reached # {} => due = DueDays(in)
    <2> SUFFICES ASSUME reached # {} PROVE due = DueDays(in)
      OBVIOUS
    <2>1. reached \in SUBSET Nat
      BY <1>8, LimitsAssumption
    <2>2. end \in Nat
      <3> HIDE DEF reached
      <3>1. \E t \in reached : \A u \in reached : t <= u
        BY <2>1, LeastNumber
      <3> QED
        BY <2>1, <3>1 DEF LeastDay
    <2> HIDE DEF reached
    <2>3. end = LeastDay(Reached(in))
      BY <1>11
    <2> HIDE DEF end
    <2>4. \A d \in end..MaxDate : d \in Nat
      BY <2>2
    <2> QED
      BY <1>9, <2>3, <2>4 DEF DueDays
  <1>13. IF in.days \notin 1..3660 \/ Reached(in) = {} \/ DueDays(in) = {}
         THEN CalculateDeadline(in) = Refused
         ELSE /\ CalculateDeadline(in).date = LeastDay(DueDays(in))
              /\ CalculateDeadline(in).skippedDays + in.days = LeastDay(Reached(in)) - FirstDay(in) + 1
              /\ CalculateDeadline(in).elapsedCalendarDays = LeastDay(DueDays(in)) - in.start
    BY <1>6, <1>7, DeadlineRight
  <1>14. IF in.days \notin 1..3660 \/ reached = {} \/ due = {} THEN calcResult = Refused
         ELSE /\ calcResult.date = LeastDay(due)
              /\ calcResult.skippedDays + in.days = end - first + 1
              /\ calcResult.elapsedCalendarDays = LeastDay(due) - in.start
    <2>1. CASE reached = {}
      <3> HIDE DEF reached, due
      <3> QED
        BY <1>4, <1>11, <1>13, <2>1
    <2>2. CASE reached # {}
      <3>1. end = LeastDay(Reached(in)) /\ due = DueDays(in)
        BY <1>11, <1>12, <2>2
      <3> HIDE DEF reached, due, end
      <3> QED
        BY <1>4, <1>8, <1>11, <1>13, <3>1
    <2> QED
      BY <2>1, <2>2
  <1> QED
    BY <1>14 DEF DeadlineMeetsDefinition, first, counting, free, in

LEMMA FractionShownIsRight ==
  ASSUME CalcInv
  PROVE  FractionMeetsDefinition
  <1> SUFFICES ASSUME Given("execution") PROVE FractionMeetsDefinition
    BY DEF FractionMeetsDefinition
  <1> DEFINE in == calcInput
  <1>1. calcKey = "execution" /\ calcResult # NoResult /\ calcResult # Refused
    BY DEF Given, Shown
  <1>2. Dependent("execution") = {}
    BY DEF Dependent
  <1>3. calcResult = Calculated("execution", in)
    BY <1>1, <1>2, SentIs
  <1>4. calcResult = CalculateExecution(in)
    BY <1>3 DEF Calculated
  <1>5. \A f \in DOMAIN Fields["execution"] \ {"excludedDates"} : in[f] \in Fields["execution"][f]
    BY <1>1, <1>2, SentIs
  <1>6. /\ in.totalDays \in Fields["execution"].totalDays /\ in.completedDays \in Fields["execution"].completedDays
        /\ in.numerator \in Fields["execution"].numerator /\ in.denominator \in Fields["execution"].denominator
        /\ in.rounding \in Fields["execution"].rounding
    BY <1>5, FieldsAre
  <1>7. /\ in.totalDays \in Nat /\ in.completedDays \in Nat /\ in.numerator \in Nat /\ in.denominator \in Nat
        /\ in.rounding \in {"ceil", "floor", "nearest"}
    <2>1. /\ Fields["execution"].totalDays = Counts /\ Fields["execution"].completedDays = Counts
          /\ Fields["execution"].numerator = Counts /\ Fields["execution"].denominator = Counts
          /\ Fields["execution"].rounding = {"ceil", "floor", "nearest"}
      BY DEF Fields
    <2> QED
      BY <1>6, <2>1, FieldsAssumption
  <1>8. LET r == CalculateExecution(in)
            exact == in.totalDays * in.numerator
            got == r.targetDays * in.denominator
        IN /\ r.targetDays \in 0..in.totalDays
           /\ in.rounding = "ceil" => exact <= got /\ got < exact + in.denominator
           /\ in.rounding = "floor" => got <= exact /\ exact < got + in.denominator
           /\ in.rounding = "nearest" => /\ 2 * got - in.denominator <= 2 * exact
                                         /\ 2 * exact < 2 * got + in.denominator
           /\ r.reached <=> r.remainingDays = 0
    <2>1. CalculateExecution(in) # Refused
      BY <1>1, <1>4
    <2> HIDE DEF in
    <2> QED
      BY <1>7, <2>1, FractionRight
  <1> QED
    BY <1>4, <1>8 DEF FractionMeetsDefinition

LEMMA AmountsShownAddUp ==
  ASSUME CalcInv, Given("monetary")
  PROVE  LET in == calcInput r == calcResult
             other(mode) == Interest([in EXCEPT !.interestMode = mode], r.originalCents, r.updatedCents)
         IN /\ r.originalCents + r.correctionCents + r.interestCents = r.totalCents
            /\ r.totalCents \in 0..MaxCents
            /\ 2 * r.updatedCents * in.factor[2] - in.factor[2] <= 2 * in.principal * in.factor[1]
            /\ 2 * in.principal * in.factor[1] < 2 * r.updatedCents * in.factor[2] + in.factor[2]
            /\ in.interestMode # "none" =>
                 /\ in.interestPeriods = 0 \/ in.interestRate[1] = 0 => r.interestCents = 0
                 /\ in.interestPeriods = 1 => other("simple") = other("compound")
                 /\ other("simple") <= other("compound")
  <1> DEFINE in == calcInput
             used == Sent
  <1>1. calcKey = "monetary" /\ calcResult # NoResult /\ calcResult # Refused
    BY DEF Given, Shown
  <1>2. Dependent("monetary") = {"interestRate", "interestPeriods", "interestBasis"}
    BY DEF Dependent
  <1>3. calcResult = Calculated("monetary", used)
    BY <1>1, SentIs
  <1>4. calcResult = CalculateMonetary(used)
    BY <1>3 DEF Calculated
  <1>5. /\ used = [f \in DOMAIN used |-> used[f]] /\ DOMAIN used = DOMAIN Fields["monetary"]
        /\ \A f \in DOMAIN Fields["monetary"] : f \notin Dependent("monetary") => used[f] = in[f]
        /\ Wanted("monetary", in) => used = in
        /\ \A f \in DOMAIN Fields["monetary"] \ {"excludedDates"} :
              f \notin Dependent("monetary") \/ Wanted("monetary", in) => in[f] \in Fields["monetary"][f]
    BY <1>1, SentIs
  <1>6. /\ "interestMode" \in DOMAIN used
        /\ used.principal = in.principal /\ used.factor = in.factor /\ used.interestMode = in.interestMode
        /\ in.principal \in Fields["monetary"].principal /\ in.factor \in Fields["monetary"].factor
        /\ in.interestMode \in Fields["monetary"].interestMode
        /\ Wanted("monetary", in) => /\ in.interestRate \in Fields["monetary"].interestRate
                                     /\ in.interestPeriods \in Fields["monetary"].interestPeriods
    <2> HIDE DEF in, used
    <2> QED
      BY <1>2, <1>5, FieldsAre
  <1>7. /\ in.principal \in Nat /\ in.factor \in Nat \X (Nat \ {0}) /\ in.interestMode \in {"none", "simple", "compound"}
        /\ Wanted("monetary", in) => in.interestRate \in Nat \X (Nat \ {0}) /\ in.interestPeriods \in Nat
    <2>1. /\ Fields["monetary"].principal = Amounts /\ Fields["monetary"].factor = Decimals
          /\ Fields["monetary"].interestMode = {"none", "simple", "compound"}
          /\ Fields["monetary"].interestRate = Decimals /\ Fields["monetary"].interestPeriods = Periods
      BY DEF Fields
    <2> HIDE DEF in
    <2> QED
      BY <1>6, <2>1, FieldsAssumption
  <1> HIDE DEF in, used
  <1>8. in.interestMode # "none" => Wanted("monetary", in) /\ used = in
    BY <1>5, <1>7 DEF Wanted
  <1>9. LET r == CalculateMonetary(used)
            other(mode) == Interest([used EXCEPT !.interestMode = mode], r.originalCents, r.updatedCents)
        IN /\ r.originalCents + r.correctionCents + r.interestCents = r.totalCents
           /\ r.totalCents \in 0..MaxCents
           /\ 2 * r.updatedCents * used.factor[2] - used.factor[2] <= 2 * used.principal * used.factor[1]
           /\ 2 * used.principal * used.factor[1] < 2 * r.updatedCents * used.factor[2] + used.factor[2]
           /\ used.interestMode # "none" =>
                /\ (used.interestPeriods = 0 \/ used.interestRate[1] = 0) => r.interestCents = 0
                /\ used.interestPeriods = 1 => other("simple") = other("compound")
                /\ other("simple") <= other("compound")
    <2>1. CalculateMonetary(used) # Refused
      BY <1>1, <1>4
    <2>2. used.interestMode # "none" => used.interestRate \in Nat \X (Nat \ {0}) /\ used.interestPeriods \in Nat
      BY <1>6, <1>7, <1>8
    <2>3. /\ used.principal \in Nat /\ used.factor \in Nat \X (Nat \ {0})
          /\ used.interestMode \in {"none", "simple", "compound"}
      BY <1>6, <1>7
    <2> QED
      BY <1>5, <1>6, <2>1, <2>2, <2>3, MonetaryRight
  <1> DEFINE r == calcResult
             other(mode) == Interest([in EXCEPT !.interestMode = mode], r.originalCents, r.updatedCents)
  <1>10. /\ r.originalCents + r.correctionCents + r.interestCents = r.totalCents
         /\ r.totalCents \in 0..MaxCents
         /\ 2 * r.updatedCents * in.factor[2] - in.factor[2] <= 2 * in.principal * in.factor[1]
         /\ 2 * in.principal * in.factor[1] < 2 * r.updatedCents * in.factor[2] + in.factor[2]
    BY <1>4, <1>6, <1>9
  <1>11. ASSUME in.interestMode # "none"
         PROVE  /\ in.interestPeriods = 0 \/ in.interestRate[1] = 0 => r.interestCents = 0
                /\ in.interestPeriods = 1 => other("simple") = other("compound")
                /\ other("simple") <= other("compound")
    BY <1>4, <1>8, <1>9, <1>11
  <1> HIDE DEF other
  <1>12. /\ in.interestMode # "none" =>
              /\ in.interestPeriods = 0 \/ in.interestRate[1] = 0 => r.interestCents = 0
              /\ in.interestPeriods = 1 => other("simple") = other("compound")
              /\ other("simple") <= other("compound")
    BY <1>11
  <1> QED
    BY <1>10, <1>12 DEF in, other

LEMMA LaborShownAddsUp ==
  ASSUME CalcInv, Given("labor")
  PROVE  /\ calcResult.netCents + calcInput.deductions
              = calcInput.salaryBalance + calcInput.otherCredits + calcResult.fgtsPenaltyCents
         /\ calcResult.grossCents \in 0..MaxCents
         /\ calcInput.fgtsMode = "none" => calcResult.fgtsPenaltyCents = 0
  <1> DEFINE in == calcInput
             used == Sent
  <1>1. calcKey = "labor" /\ calcResult # NoResult /\ calcResult # Refused
    BY DEF Given, Shown
  <1>2. Dependent("labor") = {"fgtsBase", "fgtsRate"}
    BY DEF Dependent
  <1>3. calcResult = Calculated("labor", used)
    BY <1>1, SentIs
  <1>4. calcResult = CalculateLabor(used)
    BY <1>3 DEF Calculated
  <1>5. /\ \A f \in DOMAIN Fields["labor"] : f \notin Dependent("labor") => used[f] = in[f]
        /\ Wanted("labor", in) => used = in
        /\ \A f \in DOMAIN Fields["labor"] \ {"excludedDates"} :
              f \notin Dependent("labor") \/ Wanted("labor", in) => in[f] \in Fields["labor"][f]
    BY <1>1, SentIs
  <1> HIDE DEF in, used
  <1>6. /\ used.salaryBalance = in.salaryBalance /\ used.otherCredits = in.otherCredits
        /\ used.deductions = in.deductions /\ used.fgtsMode = in.fgtsMode
        /\ in.salaryBalance \in Fields["labor"].salaryBalance /\ in.otherCredits \in Fields["labor"].otherCredits
        /\ in.deductions \in Fields["labor"].deductions
        /\ Wanted("labor", in) => in.fgtsBase \in Fields["labor"].fgtsBase /\ in.fgtsRate \in Fields["labor"].fgtsRate
    BY <1>2, <1>5, FieldsAre
  <1>7. /\ in.salaryBalance \in Nat /\ in.otherCredits \in Nat /\ in.deductions \in Nat
        /\ Wanted("labor", in) => in.fgtsBase \in Nat /\ in.fgtsRate \in Nat \X (Nat \ {0})
    <2>1. /\ Fields["labor"].salaryBalance = Amounts /\ Fields["labor"].otherCredits = Amounts
          /\ Fields["labor"].deductions = Amounts /\ Fields["labor"].fgtsBase = Amounts
          /\ Fields["labor"].fgtsRate = Decimals
      BY DEF Fields
    <2> QED
      BY <1>6, <2>1, FieldsAssumption
  <1>8. used.fgtsMode = "penalty" => used = in /\ Wanted("labor", in)
    BY <1>5, <1>6 DEF Wanted
  <1>9. /\ used.salaryBalance \in Nat /\ used.otherCredits \in Nat /\ used.deductions \in Nat
        /\ used.fgtsMode = "penalty" => used.fgtsBase \in Nat /\ used.fgtsRate \in Nat \X (Nat \ {0})
        /\ CalculateLabor(used) # Refused
    BY <1>1, <1>4, <1>6, <1>7, <1>8
  <1>10. LET r == CalculateLabor(used) IN
         /\ r.netCents + used.deductions = used.salaryBalance + used.otherCredits + r.fgtsPenaltyCents
         /\ r.grossCents \in 0..MaxCents
         /\ used.fgtsMode = "none" => r.fgtsPenaltyCents = 0
    BY <1>9, LaborRight
  <1> QED
    BY <1>4, <1>6, <1>10 DEF in

LEMMA CalcInvIsSafe == CalcInv => CalculatorSafety
  <1> SUFFICES ASSUME CalcInv PROVE CalculatorSafety
    OBVIOUS
  <1>1. ResultIsCurrent
    BY SentIs DEF ResultIsCurrent, Shown
  <1>2. VisibleIsWanted
    BY DEF CalcInv, VisibleIsWanted
  <1>3. AmountsAddUp
    BY AmountsShownAddUp, LaborShownAddsUp DEF AmountsAddUp
  <1> QED
    BY <1>1, <1>2, <1>3, DeadlineShownIsRight, FractionShownIsRight DEF CalculatorSafety

-----------------------------------------------------------------------------
(* A step of the records is a step of one page; the others stay as they are.   *)
LEMMA EvidenceFrame ==
  [ScenesNext]_scenesVars => [EvidenceNext]_evidenceVars \/ [ToolNext]_evidenceVars
  BY DEF ScenesNext, scenesVars, evidenceVars, deskVars

LEMMA DeskFrame ==
  [ScenesNext]_scenesVars => [DeskNext]_deskVars \/ [CollectNext]_deskVars \/ [ReportNext]_deskVars
  BY DEF ScenesNext, scenesVars, evidenceVars, deskVars

LEMMA FormsFrame == [ScenesNext]_scenesVars => [FormNext]_recordFormVars
  BY DEF ScenesNext, scenesVars, recordFormVars

LEMMA WorkspaceFrame == [ScenesNext]_scenesVars => [WorkspaceNext]_workspaceVars
  BY DEF ScenesNext, scenesVars, workspaceVars

LEMMA FileFrame == [ScenesNext]_scenesVars => [SuitsNext]_suitVars
  BY DEF ScenesNext, scenesVars, suitVars

LEMMA CalcFrame == [ScenesNext]_scenesVars => [CalcNext]_calcVars
  BY DEF ScenesNext, scenesVars, calcVars

LEMMA EvidenceInvariant == ScenesSpec => []EvidenceInv
  <1>1. ScenesInit => EvidenceInv
    BY EvidenceInitInv DEF ScenesInit
  <1>2. EvidenceInv /\ [ScenesNext]_scenesVars => EvidenceInv'
    BY EvidenceFrame, EvidenceNextInv
  <1> QED
    BY <1>1, <1>2, PTL DEF ScenesSpec

LEMMA DeskInvariant == ScenesSpec => []DeskInv
  <1>1. ScenesInit => DeskInv
    BY DeskInitInv DEF ScenesInit
  <1>2. DeskInv /\ [ScenesNext]_scenesVars => DeskInv'
    BY DeskFrame, DeskNextInv
  <1> QED
    BY <1>1, <1>2, PTL DEF ScenesSpec

LEMMA FormsInvariant == ScenesSpec => []FormsInv
  <1>1. ScenesInit => FormsInv
    BY FormsInitInv DEF ScenesInit
  <1>2. FormsInv /\ [ScenesNext]_scenesVars => FormsInv'
    BY FormsFrame, FormsNextInv
  <1> QED
    BY <1>1, <1>2, PTL DEF ScenesSpec

LEMMA WorkspaceInvariant == ScenesSpec => []WorkspaceInv
  <1>1. ScenesInit => WorkspaceInv
    BY WorkspaceInitInv DEF ScenesInit
  <1>2. WorkspaceInv /\ [ScenesNext]_scenesVars => WorkspaceInv'
    BY WorkspaceFrame, WorkspaceNextInv
  <1> QED
    BY <1>1, <1>2, PTL DEF ScenesSpec

LEMMA FileInvariant == ScenesSpec => [](FileInv /\ TabInv)
  <1>1. ScenesInit => FileInv /\ TabInv
    BY FileInitInv, TabInitInv DEF ScenesInit
  <1>2. FileInv /\ TabInv /\ [ScenesNext]_scenesVars => (FileInv /\ TabInv)'
    <2>1. ASSUME FileInv, TabInv, [ScenesNext]_scenesVars PROVE (FileInv /\ TabInv)'
      <3>1. [SuitsNext]_suitVars
        BY <2>1, FileFrame
      <3>2. NumbersFit
        BY <2>1 DEF FileInv
      <3> QED
        BY <2>1, <3>1, <3>2, FileNextInv, TabNextInv
    <2> QED
      BY <2>1
  <1> QED
    BY <1>1, <1>2, PTL DEF ScenesSpec

LEMMA CalcInvariant == ScenesSpec => []CalcInv
  <1>1. ScenesInit => CalcInv
    BY CalcInitInv DEF ScenesInit
  <1>2. CalcInv /\ [ScenesNext]_scenesVars => CalcInv'
    BY CalcFrame, CalcNextInv
  <1> QED
    BY <1>1, <1>2, PTL DEF ScenesSpec

(* app.js, the evidence of a finding, a text or a tool: however promotion,     *)
(* validation, link and review overlap, fail and lose their answers, what the  *)
(* user was told without a reservation was done at the API, and a finding and  *)
(* an original have the source they were taken from.                           *)
THEOREM EvidenceHolds == ScenesSpec => []EvidenceSafety
  BY EvidenceInvariant, PTL DEF EvidenceInv, EvidenceSafety

(* app.js, the desk of an investigation: whatever windows and dialogs were     *)
(* opened, cancelled and left while requests were out, the button Confirmar    *)
(* runs what is on screen, a filed run is shown as done, no row stays running  *)
(* after the only collection has ended, and what is printed is registered.     *)
THEOREM DeskHolds == ScenesSpec => []DeskSafety
  BY DeskInvariant, DeskIsSafe, PTL

(* app.js, the forms of the records: no order of choices, changes of records   *)
(* and forms opened again makes one send a client, a status or a date that the *)
(* API refuses, and what a screen shows after a save is what it loads again.   *)
THEOREM FormsHold == ScenesSpec => []FormSafety
  BY FormsInvariant, PTL DEF FormsInv

(* app.js, the workspace: one window runs one save at a time, a record stands  *)
(* in the page only after the API held it, and an operation that overlapped    *)
(* with no other leaves the copy with each record of the API, once.            *)
THEOREM WorkspaceHolds == ScenesSpec => []WorkspaceSafety
  BY WorkspaceInvariant, WorkspaceIsSafe, PTL

(* app.js, the file of a process: whichever answers come, it is the file of    *)
(* the process and the tab chosen last; from the step that draws it until the  *)
(* lists are read again, its tab shows the movements and the deadlines of the  *)
(* process, each once, the movements from the latest; and movements saved,     *)
(* deleted and read again without meeting each other leave in the list what is *)
(* stored.                                                                     *)
THEOREM FileHolds == ScenesSpec => []FileSafety
  <1>1. FileInv /\ TabInv => FileSafety
    BY ListIsOfStored DEF FileInv, TabInv, CurrentFits, FileSafety
  <1> QED
    BY <1>1, FileInvariant, PTL

(* calculators.js, the four tools and their forms: for every day, amount,      *)
(* decimal and number a field takes, whatever was edited, reset and submitted, *)
(* the result on the screen is that of the fields on the screen; a deadline    *)
(* falls on the first day its definition allows, a fraction is rounded as      *)
(* chosen, and amounts add up within their limit, with compound interest never *)
(* below simple.                                                               *)
THEOREM CalculatorsHold == ScenesSpec => []CalculatorSafety
  BY CalcInvIsSafe, CalcInvariant, PTL
=============================================================================
