------------------------------ MODULE Workspace ------------------------------
(***************************************************************************)
(* assets/js/app.js: the records of the workspace.  DB is a copy of what   *)
(* the API holds: it is read whole at the start and after some operations, *)
(* and every handler repeats in it what the API has answered.  Requests    *)
(* are carried out and answered in any order; an answer may be lost.       *)
(***************************************************************************)
EXTENDS Naturals, Sequences, FiniteSets, SequencesExt

CONSTANTS
    MaxId,         \* bound: records of a collection
    MaxOperations, \* bound: operations of the user
    MaxFlights     \* bound: operations under way

ASSUME WorkspaceAssumption == MaxId \in Nat

Collections ==
    {"clients", "processes", "deadlines", "appointments", "intimations", "financial", "movements"}

VARIABLES
    api,           \* api[k]: the records the API holds, by id; NoText when there is none
    db,            \* DB[k]: a sequence of records
    booted,        \* what startWorkspace shows: "auth", "ready", "error"
    flights,       \* operations under way
    saving,       \* the wrapped saves that have not ended
    modal,         \* the form that is open: a collection and an id, 0 for a new record
    operations,    \* bounded: operations of the user
    warned,        \* the user was told to load the page again
    quiet,         \* history: since the start no operation overlapped another or failed
    launchOf,      \* the movement an intimation was launched as, 0 for none
    held           \* history: records the API has held

workspaceVars == <<api, db, booted, flights, saving, modal, operations, warned, quiet, launchOf, held>>

NoModal == [kind |-> "none", id |-> 0]
Absent == [text |-> 0, done |-> FALSE]
First == [text |-> 1, done |-> FALSE]
Record(id, c) == [id |-> id, text |-> c.text, done |-> c.done]
Stored(k) == {id \in 1..MaxId : api[k][id] # Absent}

\* A record of each kind, two movements.
Written(k) == 1..(IF k = "movements" THEN 2 ELSE 1)

WorkspaceInit ==
    /\ api = [k \in Collections |-> [id \in 1..MaxId |-> IF id \in Written(k) THEN First ELSE Absent]]
    /\ db = [k \in Collections |-> <<>>]
    /\ booted = "auth" /\ flights = {}
    /\ saving = {} /\ modal = NoModal
    /\ operations = 0 /\ warned = FALSE /\ quiet = TRUE
    /\ launchOf = [id \in 1..MaxId |-> 0]
    /\ held = UNION {{<<k, Record(id, First)>> : id \in Written(k)} : k \in Collections}

\* What the API holds of a kind, and the list of it a bootstrap carries, in an
\* order of the API's own.
StoredRecords(k) == {Record(id, api[k][id]) : id \in Stored(k)}
Listed(k) == SetToSeq(StoredRecords(k))

Index(s, id) == SelectInSeq(s, LAMBDA r : r.id = id)

DbCreate(s, r) == Append(s, r)
DbUpdate(s, r) == IF Index(s, r.id) = 0 THEN s ELSE ReplaceAt(s, Index(s, r.id), r)
RemoveIndex(s, n) == IF n \in 1..Len(s) THEN RemoveAt(s, n) ELSE s

(* Mutant: the record leaves the screen only with the next bootstrap. *)
DbDeleteNot(s, id) == s

DbDelete(s, id) == RemoveIndex(s, Index(s, id))

Flight(op, k, id, r) ==
    [op |-> op, kind |-> k, id |-> id, record |-> r, at |-> "sent", index |-> Index(db[k], id), snapshot |-> <<>>]
Bootstrap == Flight("bootstrap", "intimations", 0, Record(0, Absent))
Refresh == [Bootstrap EXCEPT !.op = "refresh"]

Start(f) ==
    /\ Cardinality(flights) < MaxFlights
    /\ f \notin flights
    /\ flights' = flights \union {f}
    /\ quiet' = (quiet /\ flights = {})

\* A text differs from all the others by the number of its operation.
Operate(f) == operations < MaxOperations /\ operations' = operations + 1 /\ Start(f)

KeepsApi == UNCHANGED <<api, launchOf, held>>

(***************************************************************************)
(* Start, forms and requests.                                              *)
(***************************************************************************)
StartWorkspace ==
    /\ booted = "auth" /\ flights = {}
    /\ Start(Bootstrap)
    /\ KeepsApi /\ UNCHANGED <<db, booted, saving, modal, operations, warned>>

\* The page is loaded again: by the user, after an error of the start, or on
\* the way back from the login.
ReloadWorkspace ==
    /\ booted # "auth"
    /\ booted' = "auth" /\ db' = [k \in Collections |-> <<>>] /\ flights' = {}
    /\ saving' = {} /\ modal' = NoModal
    /\ warned' = FALSE /\ quiet' = TRUE
    /\ KeepsApi /\ UNCHANGED operations

OpenModal(k, id) ==
    /\ booted = "ready" /\ modal = NoModal
    /\ id = 0 \/ Index(db[k], id) # 0
    /\ modal' = [kind |-> k, id |-> id]
    /\ KeepsApi /\ UNCHANGED <<db, booted, flights, saving, operations, warned, quiet>>

CloseModal ==
    /\ modal # NoModal /\ modal' = NoModal
    /\ KeepsApi /\ UNCHANGED <<db, booted, flights, saving, operations, warned, quiet>>

\* The wrapper of the saves.
Free(action) == action \notin saving

SaveRecord ==
    LET k == modal.kind
        id == modal.id
        done == id # 0 /\ Index(db[k], id) # 0 /\ db[k][Index(db[k], id)].done IN
    /\ modal # NoModal /\ Free(<<"save", k>>)
    /\ Operate(Flight("save", k, id, [id |-> id, text |-> operations + 2, done |-> done]))
    /\ saving' = saving \union {<<"save", k>>}
    /\ KeepsApi /\ UNCHANGED <<db, booted, modal, warned>>

\* The record of DB with a new status.
Complete(k, id) ==
    /\ modal = NoModal /\ booted = "ready"
    /\ Index(db[k], id) # 0 /\ ~db[k][Index(db[k], id)].done
    /\ Operate(Flight("complete", k, id, [db[k][Index(db[k], id)] EXCEPT !.done = TRUE]))
    /\ KeepsApi /\ UNCHANGED <<db, booted, saving, modal, warned>>

CompleteDeadline(id) == Complete("deadlines", id)
ConcludeIntimation(id) == Complete("intimations", id)

\* Those whose button is in their form.
InForm == {"appointments", "financial"}

Delete(k, id) ==
    /\ booted = "ready" /\ Index(db[k], id) # 0
    /\ modal = IF k \in InForm THEN [kind |-> k, id |-> id] ELSE NoModal
    /\ Operate(Flight("delete", k, id, Record(id, Absent)))
    /\ KeepsApi /\ UNCHANGED <<db, booted, saving, modal, warned>>

\* A process refers to the client of its number.
DeleteClient(id) == Index(db["processes"], id) = 0 /\ Delete("clients", id)
DeleteProcess(id) == Delete("processes", id)
DeleteDeadline(id) == Delete("deadlines", id)
DeleteAppointment(id) == Delete("appointments", id)
DeleteFinancial(id) == Delete("financial", id)
DeleteMovement(id) == Delete("movements", id)

\* confirmLancamentoIntimacao, wrapped like the saves.
LaunchIntimation(id) ==
    /\ modal = [kind |-> "intimations", id |-> id] /\ Free(<<"launch", "intimations">>)
    /\ Index(db["intimations"], id) # 0 /\ ~db["intimations"][Index(db["intimations"], id)].done
    /\ Operate(Flight("launch", "intimations", id, Record(id, Absent)))
    /\ saving' = saving \union {<<"launch", "intimations">>}
    /\ KeepsApi /\ UNCHANGED <<db, booted, modal, warned>>

(***************************************************************************)
(* The API.                                                                *)
(***************************************************************************)
Carried(f, g) == flights' = (flights \ {f}) \union {[g EXCEPT !.at = "done"]}

Put(k, id, c) == api' = [api EXCEPT ![k][id] = c] /\ UNCHANGED launchOf

Holds(r, k) == held' = held \union {<<k, r>>}

\* The ids never used; bounded by MaxId.
Unused(k) == {n \in 1..MaxId : api[k][n] = Absent /\ \A m \in held : m[1] # k \/ m[2].id # n}
IsNext(k, n) == n \in Unused(k) /\ \A m \in Unused(k) : n <= m

\* A launch concludes the intimation and creates a movement and, where they are
\* asked for, a deadline and an appointment, all in one transaction.
Launched(id, new) ==
    [k \in {"intimations"} \union DOMAIN new |->
        IF k = "intimations" THEN Record(id, [api[k][id] EXCEPT !.done = TRUE]) ELSE Record(new[k], First)]

StoresLaunch(records) ==
    /\ api' = [k \in Collections |->
                 IF k \notin DOMAIN records THEN api[k]
                 ELSE [api[k] EXCEPT ![records[k].id] = [text |-> records[k].text, done |-> records[k].done]]]
    /\ held' = held \union {<<k, records[k]>> : k \in DOMAIN records}

\* One not concluded is launched once.  While its movement stands the request
\* that launched it may be repeated, its answer having been lost, and is answered
\* again; the rest is refused (see Fails).
TakesLaunch(f) ==
    /\ Carried(f, f)
    /\ IF launchOf[f.id] # 0 THEN launchOf[f.id] \in Stored("movements") /\ KeepsApi
       ELSE /\ ~api["intimations"][f.id].done
            /\ \E asked \in SUBSET {"deadlines", "appointments"} :
                 \E new \in [{"movements"} \union asked -> 1..MaxId] :
                    /\ \A k \in DOMAIN new : IsNext(k, new[k])
                    /\ StoresLaunch(Launched(f.id, new))
                    /\ launchOf' = [launchOf EXCEPT ![f.id] = new["movements"]]

ApiTakes(f) ==
    LET k == f.kind IN
    /\ f.at = "sent"
    /\ CASE f.op \in {"bootstrap", "refresh"} ->
              Carried(f, [f EXCEPT !.snapshot = [c \in Collections |-> Listed(c)]]) /\ KeepsApi
         [] f.op = "save" /\ f.id = 0 ->
              \E n \in 1..MaxId :
                 /\ IsNext(k, n)
                 /\ Carried(f, [f EXCEPT !.record.id = n])
                 /\ Put(k, n, [text |-> f.record.text, done |-> f.record.done])
                 /\ Holds([f.record EXCEPT !.id = n], k)
         [] f.op \in {"save", "complete"} /\ f.id # 0 ->
              /\ f.id \in Stored(k)
              /\ Carried(f, f)
              /\ Put(k, f.id, [text |-> f.record.text, done |-> f.record.done])
              /\ Holds(f.record, k)
         [] f.op = "delete" ->
              f.id \in Stored(k) /\ Carried(f, f) /\ Put(k, f.id, Absent) /\ UNCHANGED held
         [] OTHER -> f.op = "launch" /\ f.id \in Stored(k) /\ TakesLaunch(f)
    /\ UNCHANGED <<db, booted, saving, modal, operations, warned, quiet>>

(***************************************************************************)
(* Answers.                                                                *)
(***************************************************************************)
EndsPending(f) == saving' = saving \ {IF f.op = "refresh" THEN <<"launch", f.kind>> ELSE <<f.op, f.kind>>}

ShownAfterAnswer(f) == f.at = "done"

Applied(f) ==
    LET k == f.kind IN
    CASE f.op \in {"bootstrap", "refresh"} -> f.snapshot
      [] f.op = "save" /\ f.id = 0 -> [db EXCEPT ![k] = DbCreate(@, f.record)]
      [] f.op \in {"save", "complete"} /\ f.id # 0 -> [db EXCEPT ![k] = DbUpdate(@, f.record)]
      [] f.op = "delete" /\ k = "movements" -> [db EXCEPT ![k] = RemoveIndex(@, f.index)]
      [] f.op = "delete" /\ k # "movements" -> [db EXCEPT ![k] = DbDelete(@, f.id)]
      [] OTHER -> db

Closes(f) == f.op \in {"save", "launch"} \/ (f.op = "delete" /\ f.kind \in InForm)

\* The form is closed whichever it is.  After a launch the records are read again.
Succeeds(f) ==
    /\ f \in flights /\ ShownAfterAnswer(f)
    /\ db' = Applied(f)
    /\ modal' = IF Closes(f) THEN NoModal ELSE modal
    /\ booted' = IF f.op = "bootstrap" THEN "ready" ELSE booted
    /\ flights' = (flights \ {f}) \union (IF f.op = "launch" THEN {Refresh} ELSE {})
    /\ IF f.op = "launch" THEN UNCHANGED saving ELSE EndsPending(f)
    /\ KeepsApi /\ UNCHANGED <<operations, warned, quiet>>

\* A refusal, no answer in 30 seconds, an answer that was lost, or for a client
\* the reading of the saved record that fails.  DB stays as it is.
Fails(f) ==
    /\ f \in flights
    /\ flights' = flights \ {f}
    /\ quiet' = (quiet /\ f.at = "sent")
    /\ warned' = (warned \/ f.op = "refresh")
    /\ booted' = IF f.op = "bootstrap" THEN "error" ELSE booted
    /\ EndsPending(f)
    /\ KeepsApi /\ UNCHANGED <<db, modal, operations>>

WorkspaceNext ==
    \/ StartWorkspace \/ ReloadWorkspace \/ CloseModal \/ SaveRecord
    \/ \E k \in Collections, id \in 0..MaxId : OpenModal(k, id)
    \/ \E id \in 1..MaxId :
         \/ CompleteDeadline(id) \/ ConcludeIntimation(id) \/ LaunchIntimation(id)
         \/ DeleteClient(id) \/ DeleteProcess(id) \/ DeleteDeadline(id)
         \/ DeleteAppointment(id) \/ DeleteFinancial(id) \/ DeleteMovement(id)
    \/ \E f \in flights : ApiTakes(f) \/ Succeeds(f) \/ Fails(f)

(***************************************************************************)
(* Properties.                                                             *)
(***************************************************************************)
\* "A single in-flight request per action" (app.js:5322): also when the form is
\* closed and opened again while its save is on its way.
OneSavePerAction ==
    \A f, g \in flights :
        f.op \in {"save", "launch"} /\ g.op = f.op /\ f.kind = g.kind => f = g

\* What the screens show of a record is what the API held of it at some time:
\* nothing is shown that was not accepted.
ShownWasHeld ==
    \A k \in Collections : \A n \in 1..Len(db[k]) : <<k, db[k][n]>> \in held

\* Operations that do not overlap, and whose answers arrive, leave the copy
\* with what the API holds, each record once, whatever their order; where the
\* copy could not be renewed the user was told.
QuietCopyIsExact ==
    quiet /\ flights = {} /\ booted = "ready" /\ ~warned =>
        \A k \in Collections : ToSet(db[k]) = StoredRecords(k) /\ Len(db[k]) = Cardinality(Stored(k))

\* Saves do not double, and the copy of the page is what the API held or holds.
WorkspaceSafety == OneSavePerAction /\ ShownWasHeld /\ QuietCopyIsExact
=============================================================================
