------------------------------ MODULE AuditView ------------------------------
(***************************************************************************)
(* assets/js/audit-view.js: the list of audit events and the verification  *)
(* of the chain.  The events are numbered in the order they were written;  *)
(* reading and verifying write events themselves.                          *)
(***************************************************************************)
EXTENDS Naturals, FiniteSets, FiniteSetsExt

CONSTANTS
    Limits,        \* how many of the latest events may be asked for
    DefaultLimit,  \* and what a new panel asks for
    MaxLedger      \* bound: events on the server

ASSUME AuditLimitsAssumption == DefaultLimit \in Limits /\ Limits \subseteq Nat

VARIABLES
    ledger,        \* how many events the server has
    auditCalls,    \* requests that are not answered: their kind, limit and snapshot
    loading, verifying, loaded,  \* of state
    auditLimit,    \* the choice in the panel
    events,        \* state.events, as event numbers
    offered,       \* the options of the resource filter
    resource, text, \* the filters, "" when empty
    rows           \* the events shown

auditVars == <<ledger, auditCalls, loading, verifying, loaded, auditLimit, events, offered, resource, text, rows>>

\* What the filters tell apart of an event: a kind of resource and a text.
Resource(e) == IF e % 3 = 0 THEN "report" ELSE "run"
Mentions(e, t) == t = "" \/ (t = "odd") = (e % 2 = 1)
Texts == {"", "odd", "even"}

LatestEvents(n, limit) == {e \in 1..n : e + limit > n}

Fits(e) == resource \in {"", Resource(e)} /\ Mentions(e, text)

\* A panel as render leaves it, which mount loads at once.
NewPanel ==
    /\ auditCalls' = {[kind |-> "load", limit |-> DefaultLimit, upto |-> 0]}
    /\ loading' = TRUE /\ verifying' = FALSE /\ loaded' = FALSE
    /\ auditLimit' = DefaultLimit /\ events' = {} /\ offered' = {}
    /\ resource' = "" /\ text' = "" /\ rows' = {}

\* Before the section is opened.
AuditInit ==
    /\ ledger = 1 /\ auditCalls = {}
    /\ loading = FALSE /\ verifying = FALSE /\ loaded = FALSE
    /\ auditLimit = DefaultLimit /\ events = {} /\ offered = {}
    /\ resource = "" /\ text = "" /\ rows = {}

\* The section is drawn anew; answers for the panel before are discarded.
MountAudit == NewPanel /\ UNCHANGED ledger

\* Other requests of the organization.
OthersAct ==
    /\ ledger < MaxLedger /\ ledger' = ledger + 1
    /\ UNCHANGED <<auditCalls, loading, verifying, loaded, auditLimit, events, offered, resource, text, rows>>

MayAsk == ~loading /\ ~verifying

LoadAudit(limit) ==
    /\ MayAsk
    /\ auditLimit' = limit
    /\ loading' = TRUE
    /\ auditCalls' = auditCalls \union {[kind |-> "load", limit |-> limit, upto |-> 0]}
    /\ UNCHANGED <<ledger, verifying, loaded, events, offered, resource, text, rows>>

VerifyAudit ==
    /\ MayAsk
    /\ verifying' = TRUE
    /\ auditCalls' = auditCalls \union {[kind |-> "verify", limit |-> 0, upto |-> 0]}
    /\ UNCHANGED <<ledger, loading, loaded, auditLimit, events, offered, resource, text, rows>>

\* The API reads and records that it did.
AuditServes(call) ==
    /\ call.upto = 0
    /\ auditCalls' = (auditCalls \ {call}) \union {[call EXCEPT !.upto = ledger]}
    /\ ledger' = IF ledger < MaxLedger THEN ledger + 1 ELSE ledger
    /\ UNCHANGED <<loading, verifying, loaded, auditLimit, events, offered, resource, text, rows>>

KeptOption(values) == IF resource \in values THEN resource ELSE ""

UpdateRows == rows' = {e \in events' : Fits(e)'}

\* A valid list.
AuditLoads(call) ==
    /\ call.kind = "load" /\ call.upto # 0
    /\ auditCalls' = auditCalls \ {call}
    /\ loading' = FALSE /\ loaded' = TRUE
    /\ events' = LatestEvents(call.upto, call.limit)
    /\ offered' = {Resource(e) : e \in events'}
    /\ resource' = KeptOption(offered')
    /\ UNCHANGED text
    /\ UpdateRows
    /\ UNCHANGED <<ledger, verifying, auditLimit>>

Frees(call) == call.kind # "verify" /\ verifying

\* A refusal, an invalid answer or none within 30 seconds, and for the
\* verification any answer: the list stays.
AuditSettles(call) ==
    /\ auditCalls' = auditCalls \ {call}
    /\ loading' = (call.kind # "load" /\ loading)
    /\ verifying' = Frees(call)
    /\ UNCHANGED <<ledger, loaded, auditLimit, events, offered, resource, text, rows>>

\* The filters are enabled with a list that is not being replaced.
Filter(r, t) ==
    /\ loaded /\ ~loading
    /\ r \in offered \union {""} /\ t \in Texts
    /\ resource' = r /\ text' = t
    /\ UNCHANGED events
    /\ UpdateRows
    /\ UNCHANGED <<ledger, auditCalls, loading, verifying, loaded, auditLimit, offered>>

AuditNext ==
    \/ MountAudit \/ OthersAct \/ VerifyAudit
    \/ \E limit \in Limits : LoadAudit(limit)
    \/ \E call \in auditCalls : AuditServes(call) \/ AuditLoads(call) \/ AuditSettles(call)
    \/ \E r \in offered \union {""}, t \in Texts : Filter(r, t)

\* request() gives up after 30 seconds.
AuditFairness == WF_auditVars(\E call \in auditCalls : AuditSettles(call))

(***************************************************************************)
(* Properties.                                                             *)
(***************************************************************************)
\* The rows are the events of the last list that fit the filters the panel
\* shows, also when a reload takes the chosen filter out of the options, and
\* the filter that is in force is one of the options.
RowsFitFilters ==
    loaded => rows = {e \in events : Fits(e)} /\ resource \in offered \union {""}

\* A later list never shows an older state of the ledger than the one it
\* replaces: answers cannot overtake each other.
ListNeverGoesBack ==
    [][loaded /\ loaded' /\ events # {} /\ events' # {} => Max(events') >= Max(events)]_auditVars
=============================================================================
