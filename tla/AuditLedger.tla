----------------------------- MODULE AuditLedger -----------------------------
(***************************************************************************)
(* The hash chain of audit events of one organisation: append_audit and    *)
(* verify_chain in app/audit/ledger.py, as every route of app/api/v1 calls *)
(* them: a request appends one event or, like launch_intimation, several,  *)
(* and commits them with its own changes, or rolls everything back.        *)
(*                                                                         *)
(* A digest is the sequence of the payloads it covers, so that two digests *)
(* are equal only for equal payloads in the same order.  It covers what    *)
(* the event says and when, and not where it came from: the columns id,    *)
(* masked_ip and user_agent of a row are in no payload.  Every event has a *)
(* time of its own, and later events have later times.  Rows can be lost   *)
(* or altered where they are stored; nobody computes new digests for them. *)
(***************************************************************************)
EXTENDS Naturals, Sequences, FiniteSets

CONSTANTS
    Requests,      \* requests that append, each with its address and browser
    Data,          \* what an event records and its digest covers
    MaxPerRequest, \* bound: events of one request
    MaxOpen,       \* requests that may be appending at the same time
    MaxTime,       \* bound: events, each at its own time
    MaxDamage      \* bound: rows lost or damaged

ASSUME BoundsAssumption ==
    /\ MaxPerRequest \in Nat /\ MaxOpen \in Nat \ {0}
    /\ MaxTime \in Nat /\ MaxDamage \in Nat

VARIABLES
    table,      \* audit_events, by occurred_at
    clock,      \* datetime.now
    pc,         \* a request: next step
    head,       \* a request: the hash of the event it read last
    pending,    \* a request: events of its transaction, by occurred_at
    appended,   \* a request: events so far
    damage,     \* bounded: rows lost or damaged
    written     \* history: the table as the requests wrote it

vars == <<table, clock, pc, head, pending, appended, damage, written>>

Genesis == <<>>    \* no previous event

digest(previous, payload) == Append(previous, payload)

(* What a digest covers of an event: occurred_at and the rest of it. *)
Payloads == (1..MaxTime) \X Data
Digests  == UNION {[1..n -> Payloads] : n \in 0..MaxTime}
Rows     == [data : Data, origin : Requests, previous : Digests, hash : Digests]

Empty == [t \in {} |-> 0]

TypeOK ==
    /\ DOMAIN table \subseteq 1..MaxTime /\ \A t \in DOMAIN table : table[t] \in Rows
    /\ clock \in 0..MaxTime
    /\ pc \in [Requests -> {"new", "append", "stamp", "done"}]
    /\ head \in [Requests -> Digests]
    /\ \A q \in Requests : /\ DOMAIN pending[q] \subseteq 1..clock
                           /\ \A t \in DOMAIN pending[q] : pending[q][t] \in Rows
    /\ appended \in [Requests -> 0..MaxPerRequest]
    /\ \A q \in Requests : pc[q] \in {"new", "done"} => pending[q] = Empty
    /\ damage \in 0..MaxDamage
    /\ DOMAIN written \subseteq 1..clock

Init ==
    /\ table = Empty
    /\ clock = 0
    /\ pc = [q \in Requests |-> "new"]
    /\ head = [q \in Requests |-> Genesis]
    /\ pending = [q \in Requests |-> Empty]
    /\ appended = [q \in Requests |-> 0]
    /\ damage = 0
    /\ written = Empty

Merge(older, newer) ==
    [t \in DOMAIN older \cup DOMAIN newer |-> IF t \in DOMAIN newer THEN newer[t] ELSE older[t]]

Latest(rows) == CHOOSE t \in DOMAIN rows : \A u \in DOMAIN rows : u <= t

-----------------------------------------------------------------------------
(* append_audit *)

Open == {q \in Requests : pc[q] \in {"append", "stamp"}}

Begin(q) ==
    /\ pc[q] = "new" /\ Cardinality(Open) < MaxOpen
    /\ pc' = [pc EXCEPT ![q] = "append"]
    /\ UNCHANGED <<table, clock, head, pending, appended, damage, written>>

(* Mutant: an event of the same transaction is not flushed before. *)
SeesCommittedOnly(q) == table

Sees(q) == Merge(table, pending[q])

ReadHead(q) ==
    /\ pc[q] = "append" /\ appended[q] < MaxPerRequest
    /\ head' = [head EXCEPT ![q] = IF DOMAIN Sees(q) = {} THEN Genesis
                                   ELSE Sees(q)[Latest(Sees(q))].hash]
    /\ pc' = [pc EXCEPT ![q] = "stamp"]
    /\ UNCHANGED <<table, clock, pending, appended, damage, written>>

Event(q, d) ==
    [data |-> d, origin |-> q, previous |-> head[q], hash |-> digest(head[q], <<clock + 1, d>>)]

Stamp(q) ==
    /\ pc[q] = "stamp" /\ clock < MaxTime
    /\ clock' = clock + 1
    /\ \E d \in Data :
         pending' = [pending EXCEPT ![q] = Merge(@, [t \in {clock + 1} |-> Event(q, d)])]
    /\ appended' = [appended EXCEPT ![q] = @ + 1]
    /\ pc' = [pc EXCEPT ![q] = "append"]
    /\ UNCHANGED <<table, head, damage, written>>

(* Mutant: the events stay in the session. *)
LeaveKeeping(q) ==
    /\ pc' = [pc EXCEPT ![q] = "done"]
    /\ UNCHANGED <<head, pending, appended>>

Leave(q) ==
    /\ pc' = [pc EXCEPT ![q] = "done"]
    /\ head' = [head EXCEPT ![q] = Genesis]
    /\ pending' = [pending EXCEPT ![q] = Empty]
    /\ appended' = [appended EXCEPT ![q] = 0]

Commit(q) ==
    /\ pc[q] = "append" /\ appended[q] > 0
    /\ table' = Merge(table, pending[q])
    /\ written' = Merge(written, pending[q])
    /\ Leave(q)
    /\ UNCHANGED <<clock, damage>>

Rollback(q) ==
    /\ pc[q] \in {"append", "stamp"}
    /\ Leave(q)
    /\ UNCHANGED <<table, clock, damage, written>>

-----------------------------------------------------------------------------
(* verify_chain *)

(* The hash that the loop carries to the row at t: that of the row before. *)
Prior(rows, t) ==
    LET earlier == {u \in DOMAIN rows : u < t}
    IN  IF earlier = {} THEN Genesis
        ELSE rows[CHOOSE u \in earlier : \A v \in earlier : v <= u].hash

(* Mutant: only the hash is compared. *)
LinkedByPrevious(rows, t) == rows[t].previous = Prior(rows, t)

Linked(rows, t) ==
    /\ rows[t].previous = Prior(rows, t)
    /\ rows[t].hash = digest(Prior(rows, t), <<t, rows[t].data>>)

verify_chain(rows) == \A t \in DOMAIN rows : Linked(rows, t)

-----------------------------------------------------------------------------
(* Damage where the rows are stored. *)

Lose(t) ==
    /\ damage < MaxDamage /\ t \in DOMAIN table
    /\ table' = [u \in DOMAIN table \ {t} |-> table[u]]
    /\ damage' = damage + 1
    /\ UNCHANGED <<clock, pc, head, pending, appended, written>>

Alter(t) ==
    /\ damage < MaxDamage /\ t \in DOMAIN table
    /\ \/ \E d \in Data \ {table[t].data} : table' = [table EXCEPT ![t].data = d]
       \/ \E o \in Requests \ {table[t].origin} : table' = [table EXCEPT ![t].origin = o]
    /\ damage' = damage + 1
    /\ UNCHANGED <<clock, pc, head, pending, appended, written>>

Next ==
    \/ \E q \in Requests : Begin(q) \/ ReadHead(q) \/ Stamp(q) \/ Commit(q) \/ Rollback(q)
    \/ \E t \in 1..MaxTime : Lose(t) \/ Alter(t)

Spec == Init /\ [][Next]_vars
-----------------------------------------------------------------------------
(* Properties. *)

(* The chain of an undamaged table verifies: "Cadeia de eventos e          *)
(* /audit-events/verify-chain" (back-end/README.md:231).  It holds when    *)
(* requests append one after another, and not when two overlap.            *)
UndamagedVerifies == damage = 0 => verify_chain(table)

(* A digest lists the payloads of exactly the rows up to t, in their order. *)
Covers(hash, t) ==
    /\ \A i \in DOMAIN hash : \E u \in DOMAIN table : u <= t /\ hash[i] = <<u, table[u].data>>
    /\ \A i, j \in DOMAIN hash : i < j => hash[i][1] < hash[j][1]
    /\ \A u \in DOMAIN table : u <= t => \E i \in DOMAIN hash : hash[i][1] = u

(* Two rows agree on all that a digest covers, and on the digests.         *)
SameCovered(row, other) ==
    row.data = other.data /\ row.previous = other.previous /\ row.hash = other.hash

(* In a table that verifies, what each row says, and when, is as it was    *)
(* written, and its digest stands for all the rows up to it: nothing that  *)
(* is covered was altered, and no row lost that another was chained to.    *)
(* The loss of the last rows goes unnoticed, and so does an origin that    *)
(* was rewritten: the address and the browser are in no digest.            *)
ValidIsWritten ==
    verify_chain(table) =>
        \A t \in DOMAIN table : SameCovered(table[t], written[t]) /\ Covers(written[t].hash, t)
=============================================================================
