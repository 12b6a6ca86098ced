---------------------------- MODULE LegalRecords ----------------------------
(***************************************************************************)
(* app/api/v1/legal.py, legal_extra.py, legal_launch.py: clients, their    *)
(* processes, intimations and the launch of an intimation as a movement of *)
(* a process.  A request reads, and commits later: under READ COMMITTED    *)
(* others commit in between, except on the row a launch has locked.        *)
(***************************************************************************)
EXTENDS Naturals, FiniteSets

CONSTANTS
    Clients, Processes, Intimations, NoProcess,
    Bodies,        \* what a launch may ask for, as its request_hash
    MaxSessions        \* bound: requests between their read and their commit

ASSUME LegalAssumption == NoProcess \notin Processes /\ MaxSessions \in Nat

VARIABLES
    client,        \* state of each client: none, live, deleted
    process,       \* of each process, with its client
    intimation,    \* of each intimation, with its status and process
    movement,      \* the movement of its launch, with process and marker
    open,          \* requests that have read and not committed
    launches,      \* history: launches committed, by intimation
    accepted,      \* history: bodies whose launch was answered with success
    answered       \* history: the answer to the last launch request

legalVars == <<client, process, intimation, movement, open, launches, accepted, answered>>
rowVars == <<client, process, intimation, movement>>
launchHistory == <<launches, accepted, answered>>

NoReply == [kind |-> "none"]
AnyClient == CHOOSE c \in Clients : TRUE

LegalInit ==
    /\ client = [c \in Clients |-> "none"]
    /\ process = [p \in Processes |-> [at |-> "none", client |-> AnyClient]]
    /\ intimation = [i \in Intimations |-> [at |-> "none", status |-> "received", process |-> NoProcess]]
    /\ movement = [i \in Intimations |-> [at |-> "none", process |-> NoProcess, marker |-> {}]]
    /\ open = {}
    /\ launches = [i \in Intimations |-> 0] /\ accepted = [i \in Intimations |-> {}]
    /\ answered = NoReply

LiveProcess(p) == p \in Processes /\ process[p].at = "live"
Locked(i) == \E r \in open : r.op = "launch" /\ r.intimation = i
BeginSession(r) == Cardinality(open) < MaxSessions /\ open' = open \union {r}

(***************************************************************************)
(* Clients and processes.                                                  *)
(***************************************************************************)
CreateClient(c) ==
    /\ client[c] = "none" /\ client' = [client EXCEPT ![c] = "live"]
    /\ UNCHANGED <<process, intimation, movement, open, launchHistory>>

\* delete_client finds the client and none of its processes.
BeginDeleteClient(c) ==
    /\ client[c] = "live"
    /\ ~ \E p \in Processes : LiveProcess(p) /\ process[p].client = c
    /\ BeginSession([op |-> "deleteClient", client |-> c])
    /\ UNCHANGED <<rowVars, launchHistory>>

\* create_process and update_process find the client.
BeginSaveProcess(p, c) ==
    /\ client[c] = "live" /\ process[p].at # "deleted"
    /\ ~ \E r \in open : r.op = "saveProcess" /\ r.process = p
    /\ BeginSession([op |-> "saveProcess", process |-> p, client |-> c])
    /\ UNCHANGED <<rowVars, launchHistory>>

CommitChange(r) ==
    /\ open' = open \ {r}
    /\ CASE r.op = "deleteClient" ->
              client' = [client EXCEPT ![r.client] = "deleted"] /\ UNCHANGED <<process, intimation>>
         [] r.op = "saveProcess" ->
              /\ process' = [process EXCEPT ![r.process] =
                    [at |-> IF @.at = "deleted" THEN "deleted" ELSE "live", client |-> r.client]]
              /\ UNCHANGED <<client, intimation>>
         [] OTHER ->
              /\ r.op = "saveIntimation" /\ ~Locked(r.intimation)
              /\ intimation' = [intimation EXCEPT ![r.intimation] =
                    [at |-> IF @.at = "deleted" THEN "deleted" ELSE "live",
                     status |-> r.status, process |-> r.process]]
              /\ UNCHANGED <<client, process>>
    /\ UNCHANGED <<movement, launchHistory>>

SoftDeleteProcess(p) ==
    /\ LiveProcess(p) /\ process' = [process EXCEPT ![p].at = "deleted"]
    /\ UNCHANGED <<client, intimation, movement, open, launchHistory>>

(***************************************************************************)
(* Intimations.                                                            *)
(***************************************************************************)
\* create_intimation, update_intimation: an edit writes every field it was
\* given, whatever was committed since it found the row.
BeginSaveIntimation(i, status, p) ==
    /\ intimation[i].at # "deleted"
    /\ p = NoProcess \/ LiveProcess(p)
    /\ BeginSession([op |-> "saveIntimation", intimation |-> i, status |-> status, process |-> p])
    /\ UNCHANGED <<rowVars, launchHistory>>

DeleteIntimation(i) ==
    /\ intimation[i].at = "live" /\ ~Locked(i)
    /\ intimation' = [intimation EXCEPT ![i].at = "deleted"]
    /\ UNCHANGED <<client, process, movement, open, launchHistory>>

\* The row of the stable primary key, deleted or not.
Exists(i) == movement[i].at # "none"

SameRequest(i, body) == movement[i].marker = {body}

Answer(i, body, kind) ==
    /\ answered' = [kind |-> kind, intimation |-> i, body |-> body,
                    same |-> movement[i].at = "live" /\ body \in accepted[i]]
    /\ accepted' = IF kind \in {"done", "already"} THEN [accepted EXCEPT ![i] = @ \union {body}]
                   ELSE accepted

\* launch_intimation up to the claim, with the row of the intimation locked.
BeginLaunch(i, body) ==
    /\ intimation[i].at = "live" /\ ~Locked(i)
    /\ LET p == intimation[i].process IN
       IF Exists(i)
       THEN /\ Answer(i, body, IF movement[i].at = "live" /\ SameRequest(i, body) THEN "already" ELSE "refused")
            /\ UNCHANGED open
       ELSE IF /\ LiveProcess(p) /\ intimation[i].status # "concluded"
               /\ client[process[p].client] = "live"
       THEN /\ BeginSession([op |-> "launch", intimation |-> i, process |-> p, body |-> body])
            /\ UNCHANGED <<accepted, answered>>
       ELSE Answer(i, body, "refused") /\ UNCHANGED open
    /\ UNCHANGED <<rowVars, launches>>

\* Status, movement and what the launch asked for are committed together.
CommitLaunch(r) ==
    /\ r.op = "launch"
    /\ open' = open \ {r}
    /\ intimation' = [intimation EXCEPT ![r.intimation].status = "concluded"]
    /\ movement' = [movement EXCEPT ![r.intimation] = [at |-> "live", process |-> r.process, marker |-> {r.body}]]
    /\ launches' = [launches EXCEPT ![r.intimation] = @ + 1]
    /\ \/ Answer(r.intimation, r.body, "done")
       \/ UNCHANGED <<accepted, answered>>      \* the answer is lost
    /\ UNCHANGED <<client, process>>

\* An error, or the end of the process: the transaction is rolled back.
RollBack(r) ==
    /\ open' = open \ {r}
    /\ UNCHANGED <<rowVars, launchHistory>>

(* Mutant: the payload of an edit replaces the mark of the launch. *)
KeptMarkerNot(i) == {}

KeptMarker(i) == movement[i].marker

\* update_process_movement, delete_process_movement.
UpdateMovement(i) ==
    /\ movement[i].at = "live" /\ LiveProcess(movement[i].process)
    /\ movement' = [movement EXCEPT ![i].marker = KeptMarker(i)]
    /\ UNCHANGED <<client, process, intimation, open, launchHistory>>

SoftDeleteMovement(i) ==
    /\ movement[i].at = "live" /\ movement' = [movement EXCEPT ![i].at = "deleted"]
    /\ UNCHANGED <<client, process, intimation, open, launchHistory>>

LegalNext ==
    \/ \E c \in Clients : CreateClient(c) \/ BeginDeleteClient(c)
    \/ \E p \in Processes : SoftDeleteProcess(p) \/ \E c \in Clients : BeginSaveProcess(p, c)
    \/ \E i \in Intimations :
         \/ DeleteIntimation(i) \/ UpdateMovement(i) \/ SoftDeleteMovement(i)
         \/ \E body \in Bodies : BeginLaunch(i, body)
         \/ \E status \in {"received", "concluded"}, p \in Processes \union {NoProcess} :
              BeginSaveIntimation(i, status, p)
    \/ \E r \in open : CommitChange(r) \/ CommitLaunch(r) \/ RollBack(r)

LegalSpec == LegalInit /\ [][LegalNext]_legalVars

(***************************************************************************)
(* Properties.                                                             *)
(***************************************************************************)
\* An intimation is launched once, though edits committed after the launch open
\* it again, its movement is deleted, and the launch is sent again.
LaunchedOnce == \A i \in Intimations : launches[i] <= 1

\* Success is told for one request of an intimation only: another one is never
\* answered with the launch of the first.
OneLaunchIsAccepted == \A i \in Intimations : Cardinality(accepted[i]) <= 1

\* Who repeats an accepted launch is told it was made, also after the movement
\* was edited; only its deletion ends that.
RepeatIsRecognised == answered.kind = "refused" => ~answered.same

\* "Cliente possui processos ativos e não pode ser excluído" (legal.py:122): no
\* live process belongs to a deleted client.
ProcessHasLiveClient ==
    \A p \in Processes : LiveProcess(p) => client[process[p].client] # "deleted"

\* One launch, told to one request, and recognised when that is repeated.
LaunchSafety == LaunchedOnce /\ OneLaunchIsAccepted /\ RepeatIsRecognised
=============================================================================
