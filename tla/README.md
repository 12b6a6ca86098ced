# Semper Fi / Forseti: specification and proofs

TLA+ models of this repository, TLC configurations that check them on small
instances, and TLAPS proofs of the properties that matter most for instances of
any size.

The repository is a legal-practice platform: a FastAPI/SQLAlchemy/Celery
back-end (`back-end/app`, about 6 000 lines), a JavaScript front-end
(`front-end/assets/js`, about 7 400 lines; the back-end serves a copy of it from
`static/frontend`), and an older single page (`semperfi.html`). What is hard to
get right lies in two places. In the back-end, requests, workers, webhooks and
an unreliable broker, mail server or payment provider meet in the same database
rows, and almost all of that co-ordination is done with conditional `UPDATE`s,
unique constraints and three or four row locks. In the front-end, the pages keep
their own copy of the records and act on it before, between and after answers
that come late, out of order or not at all. Both are modelled.

Paths below are relative to `src/back-end/app` or `src/front-end/assets/js`.

1. [Inventory](#1-inventory)
2. [Conventions of the models](#2-conventions-of-the-models)
3. [The modules, one by one](#3-the-modules-one-by-one)
4. [Runs and bounds](#4-runs-and-bounds)
5. [Findings](#5-findings)
6. [Proofs](#6-proofs)
7. [Not modelled](#7-not-modelled)

To repeat a check: `tlc -config MCBilling.cfg MCBilling` and so on (the table of
section 4 names module and configuration of every run), `tlapm BillingProofs.tla`
for a proof.

## 1. Inventory

The back-end:

| component | state it keeps | operations | hard behaviour | what makes it correct |
|---|---|---|---|---|
| **Sandbox checkout** `billing/service.py`, `integrations/asaas.py`, `models/billing.py` | `billing_checkouts` (status, `active_slot`, provider id and link), `billing_webhook_receipts` | `start_checkout`, `receive_webhook` | the provider call is made between two transactions; timeouts after which the checkout exists all the same; webhooks before the answer, duplicated, out of order, for a row nobody recorded | a tenant never has two payable checkouts; an acknowledged payment is recorded; what is over stays over; the slot comes back |
| **E-mail verification** `security/challenges.py`, `api/v1/auth_routes.py` | `authentication_challenges`: version, attempts, consumed, expiry, resend time, delivery, pending hash | login, register, verify, resend, cancel, the wipe behind `/auth/status` | every statement is a separate `UPDATE ... WHERE`; the mail server answers in between; the session lives in another store than the row | a code is used once; guesses are bounded over all codes; no credential outlives its use; the code judged is the last one sent |
| **Supervised agent runs** `api/v1/reports.py`, `services/agent_runs.py`, `workers/` | `agent_runs.status`, the task at the broker | create, publish, execute (claim, ask the model, revalidate, store), fail | late acknowledgement: second deliveries; a broker that takes a task and raises; references that change while the model runs | the model is asked at most once; a draft is based on references that still stand; an outcome is final; a queued run ends |
| **Connector runs and outbox** `api/v1/investigations.py`, `services/outbox.py`, `services/connector_runs.py`, `workers/` | `connector_runs`, `job_executions`, `outbox_events`, broker messages | create, dispatch every ten seconds, execute, retry | overlapping dispatches; no guard on the status in the execution; failures between broker and commit | no event is marked that was not sent; run and job agree in the end; a completed run has its result; every run settles |
| **Audit ledger** `audit/ledger.py` | `audit_events`, a hash chain by organisation | `append_audit`, `verify_chain` | read-last-then-append without a lock | the chain of an undamaged table verifies, and a table that verifies says what was written in every field its digests cover |
| **Evidence, vault, event ledger, reports** `api/v1/evidence.py`, `evidence/service.py`, `services/evidence_ledger.py`, `api/v1/reports.py` | staging area, vault versions, `evidence_items`, custody events, legal holds, reports with their manifest | upload, finalise, verify, attest, hold in two confirmations, draft, approve | status checked and written in separate steps; the vault is written before the commit; requests overlap and are retried | an original is never lost between staging and vault; its version is recorded once; the events tell the row; a final report names what the vault keeps |
| **Legal records and launch of intimations** `api/v1/legal.py`, `legal_extra.py`, `legal_launch.py` | clients, processes, intimations, movements with soft deletion; ids derived by `uuid5` | create, edit, delete, launch | references checked in one statement and written in another; repeated and concurrent launches against edits that take no lock | an intimation is launched once, for one request; a repeated launch is recognised |
| **Sessions, rate limiter, OIDC sign-in** `security/sessions.py`, `security/rate_limit.py`, `api/v1/auth_routes.py`, `integrations/oidc.py` | Redis or process memory; windows of attempts; states | start, read, renew, end; count; redirect and callback | a store that comes and goes; a session created before the old one is ended; fallbacks of development | an ended session opens nothing; a browser has one live session; a state serves once; a window keeps its limit |
| Investigations, entities, findings `api/v1/investigations.py` | rows by investigation | create, edit, archive, delete | status changes that race with deletions | a deleted investigation stays deleted |
| Import of the demonstration data, policy engine, TACER and SIERA, passwords and cipher, mail, connectors, model providers, front-end data endpoint, configuration and schema | none of their own that another part races for | - | - | see section 7 |

The front-end:

| component | state it keeps | operations | hard behaviour | what makes it correct |
|---|---|---|---|---|
| **Connector job follower** `connector-jobs.js` and its two screens | the run it follows; what the screens offer to resume | submit, poll, abort, resume | deadline and abort race the answers | one submission, one conclusion, which is the run's own |
| **Account pages** `auth.js` | tab, challenge, codes, timers, the guarded entry | sign in, register, verify, resend, cancel, retry | late answers after tabs, cancels and reloads | one request, one panel, the server's challenge, nothing secret left |
| **Workspace records and forms** `app.js`, `legal-forms.js` | the copy `DB`, flights, modal, pending saves | bootstrap, refresh, save, complete, launch, delete | answers in any order replace or repeat what the copy holds | what is shown was held; quiet operations leave an exact copy; forms send only what the API takes |
| **Pages over the records** `app.js` | bell, dashboard, calendars, lists, filters, the file of a process | render, filter, announce | the same records are counted in several places | the places agree |
| **Investigation pages** `app.js` | wizard, evidence chains, desk, drafts of TACER and ACH | write, collect, file findings, validate, report | chains of requests of which one fails; confirmations kept in one variable | what the user was told was done; what runs is what was confirmed |
| **Radar, file analysis** `app.js` | consultation, batches of files | confirm, consult, analyse | a page redrawn under an operation | one consultation of what was asked; every file is told |
| **Integration panels, audit view, catalog, checkout panel** `integrations-view.js`, `audit-view.js`, `commercial.js`, `public.js`, `billing-checkout.js` | what each mount shows and follows | follow, filter, verify, select, order | mounts, lists and answers that overtake each other | a panel says what is so; an order is made once |
| **Navigation, focus, preferences** `interface.js`, `accessibility.js` | address and history, inert parts, focus, preferences of several tabs | navigate, open, close, choose | observers, frames and storage events in between | focus can be reached; the section is the address's; tabs agree |
| **Calculators** `calculators.js` | the fields and the result | four arithmetic tools | dates, roundings, modes | results meet a definition, and are of the fields shown |

How they interact:

* Every API request has one database session (`db/session.py`): `get_db` sets
  the tenant for PostgreSQL's row level security, the handler commits, an
  exception rolls back. Handlers of several components call `append_audit`
  before their own commit, so audit events commit or roll back with the change
  they describe.
* Agent runs are handed to Celery by the request itself, after its commit;
  connector runs through an outbox row in the same commit, which the beat
  schedule dispatches. Both kinds of worker execute with
  `task_acks_late=True` (`workers/celery_app.py`).
* Agent runs read investigations and evidence; reports read evidence; the
  launch of an intimation writes processes' movements, deadlines and
  appointments.
* Verification starts a session in the session store and commits the row
  afterwards; the session is deleted again when the commit fails.
* The payment provider and the browser reach the same checkout rows through
  different routes, the webhook without a user session.
* The page reads all records at once (`/frontend/bootstrap`) and repeats in its
  copy what each answer says. Screens share that copy, one modal and one
  pending confirmation. The job follower is shared by two screens, the catalog
  by the public page and the workspace.

The hazards these behaviours expose the code to are listed, each at its line
and with the properties that cover it, in `PROJECT.json`.

## 2. Conventions of the models

* A request, a worker or a webhook delivery is a process with a step (`pc`,
  `hook`, `dpc`). **One action is one statement or one transaction**, as the
  code commits them: a lookup, then the constraint-checked insert, then the
  network call, then the second transaction are separate actions, because other
  processes run in between. A transaction that reads under `with_for_update` and
  writes before it commits is one action.
* A conditional `UPDATE ... WHERE` is one action that tests the row as it is,
  never as it was read. What a handler read before and compares later is kept
  in the process's variables (`ver`, `right`, `seenRun`, ...).
* Unique constraints are guards of the inserting action; the branch in which the
  constraint fails is modelled too.
* Every network call or commit that can fail may also succeed with only its
  confirmation lost; the two are kept apart (`\E kept, confirmed`).
* Crashes are actions. What a crash leaves behind is what was committed.
* Histories (`granted`, `guesses`, `calls`, `fresh`, `taken`, `cut`, `written`)
  are never read by an action; they only let a property speak of the past.
* Identifiers, names, prices, texts and payloads are model values or are left
  out. Where a payload's agreement with the row decides a branch it is a set
  given as a constant (`Divergent`, `Unreferenced`).
* In the modules of the front-end one action is one event of the browser: a
  click, an answer, a timer, an animation frame, from its first line to the next
  `await` or the end of the handler. A request is carried out by the API and
  answered in two steps where it matters which comes first, and may be lost
  before or after it was carried out. Whatever another screen may do to shared
  state meanwhile (take the modal, read the records again) is an action too.
* Parts of a property have names of their own and are checked as one
  conjunction for each module (`CustodySafety`, `DeskSafety`, ...); a
  counterexample names the conjunction, and TLC evaluates the parts by name.
* Where the code gives a guarantee only as long as nothing overlapped, a history
  says so (`alone`, `quiet`, `disturbed`, `together`, `actsRaced`), and the
  property is conditional on it. What happens otherwise is said below.
* Databases: the model is PostgreSQL at READ COMMITTED, the deployment that
  `docker-compose` and the README describe. SQLite, used by tests, serialises
  writers and shows fewer behaviours.

## 3. The modules, one by one

| module | models | checked by, proved in |
|---|---|---|
| `SubscriptionSlot` | abstract: what the checkout promises to a tenant | instantiated by `Billing` |
| `Billing` | the checkout, the provider, the webhooks | `MCBilling`, `BillingProofs` |
| `Challenges` | e-mail verification | `MCChallenges`, `ChallengesProofs` |
| `AgentRuns` | agent runs with broker and workers | `MCAgentRuns`, `AgentRunsProofs` |
| `ConnectorRuns` | connector runs, outbox, dispatch, broker, workers | `MCConnectorRuns`, `ConnectorRunsProofs` |
| `AuditLedger` | the hash chain of one organisation | `MCRecords`, `MCAuditLedger`, `LedgerAccessProofs` |
| `Custody` | evidence, vault, event ledger, holds, reports, the status of an investigation | `MCRecords`, `RecordsProofs` |
| `Access` | sessions, OIDC sign-in, rate limiter | `MCRecords`, `LedgerAccessProofs` |
| `LegalRecords` | clients, processes, intimations, movements, the launch | `MCRecords`, `LedgerAccessProofs` |
| `JobFollower` | `connector-jobs.js` | `MCApplication`, `ApplicationProofs` |
| `QueryPanels` | the public queries and the panel of transparency | extends `JobFollower`; `MCApplication`, `ApplicationProofs` |
| `AuthPage`, `AuditView`, `Commercial`, `CheckoutPanel`, `IntegrationPanels`, `Interface` | `auth.js`, `audit-view.js`, `commercial.js` with `public.js`, `billing-checkout.js`, `integrations-view.js`, `interface.js` with `accessibility.js` | `MCApplication`, `ApplicationProofs` |
| `InvestigationWizard`, `AnalysisDrafts`, `CompanyRadar`, `FileAnalysis` | parts of `app.js`: wizard, drafts of TACER and ACH, radar, files | `MCApplication`, `ApplicationProofs` |
| `RecordViews` | parts of `app.js`: bell with dashboard, calendars, lists | `MCApplication`, `ApplicationProofs` |
| `Workspace`, `RecordForms`, `EvidenceDesk`, `ProcessFile`, `InvestigationDesk` | parts of `app.js` and `legal-forms.js`: copy of the records, forms, evidence, file of a process, desk | `MCRecords`, `RecordsProofs` |
| `Calculators` | `calculators.js` | `MCRecords`, `RecordsProofs` |
| `Folding` | no code: what sums and other recursive functions compute | extended by `ApplicationProofs`, `RecordsProofs` |

Every definition that models code is listed in `PROJECT.json` under `map` with
its file, lines and symbol.

`MCApplication` and `MCRecords` hold many modules at once. A behaviour of them
follows one page or component, its *scene*, from its first state; the others
keep theirs, where no fair action is enabled. So the state spaces add up instead
of multiplying, and modules that do not interact in the code do not in the
model; those that do are one module or extend each other.

### Billing

State. `status`, `slot`, `pid`, `link` are the columns `status`, `active_slot`,
`provider_checkout_id`, `checkout_url` of `billing_checkouts`, by order: an
order is a request id, unique with its tenant. `receipts` is
`billing_webhook_receipts`. `pc`/`order` are the runs of `start_checkout`;
`prov` is what the provider knows of the checkout that a run asked for; `hook`,
`ev` are deliveries of webhooks and `acked` what the provider saw acknowledged.

Actions of a run: `ReadExisting`, `ReadSlot` (the two lookups, each with its own
snapshot), `Insert` (both unique constraints decide), `Answer` (the provider's
answer as the run sees it: certain rejection, success, or anything uncertain),
`RecordCreated` and `RecordFailure` (second transaction, row read again under
its lock), `CrashCall`. Of the provider: `ProviderDecide` - also long after
nobody waits for the answer - and `ProviderSettle`. Of a delivery:
`ReceiveEvent` (the receipt is looked up before the row is locked), `ApplyEvent`
(the locked transaction, the reasons for a 409 in the order of the code, the
status table, the unique receipt), `Acknowledge`, `CrashHook`. A provider event
stays deliverable for ever, so duplicates and any order are included.

Left out: the check that a repeated request id names the same plan, the read of
an existing order (no state changes), the text of payloads. A delivery whose
payload has another hash than its receipt is not modelled: an event id stands
for one content. The provider and the payer are the environment.

Properties: `SlotSafety` (`OnePurchasePerTenant`, `PayableHoldsSlot`),
`PaymentSafety` (`AcknowledgedPaymentIsRecorded`, `PaidOnlyIfPaid`), invariants;
`OverIsOver` (action); `OrdersSettle` (`PaymentIsRecorded`, `SlotIsReleased`),
liveness; `ImplementsSlot`
(refinement of `SubscriptionSlot`: `PhaseOf` maps a status to one of four
phases). The refinement says more than the invariants: the slot of a tenant
moves only by reserve, subscribe and release, each once, and a paid or released
order never moves again.

### Challenges

State. `row` is `authentication_challenges`; its times are reduced to what the
code asks of them: `expired` (`expires_at <= now`) and `cooling`
(`resend_available_at > now`), both moved by the clock's actions `Expire` and
`CoolDown`. `secret` says that the pending password hash is there. `lock` is the
row lock that a verification holds from its conditional `UPDATE` to its commit.
`cookie` are the challenges whose token a browser holds: the token is only
handed out by a successful delivery. A request is `pc`, the challenge `at`, and
what it read: `prev`, `ver`, `right` (the code entered fits the row as read),
`hash`.

Actions: `BeginRead`/`BeginWrite` (login and registration: replace the previous
challenge of the address, purge expired ones, insert), `Mail`, `MarkSent`,
`MarkRefused` (`_deliver`), `FindInactive`/`Wipe` (`pending` on an inactive
challenge), `ResendRead`/`ResendWrite`, `ClaimRead`/`ClaimWrite`, `Identity`,
`StartSession`, `Commit` (verify), `Cancel`, the clock, `SetAccount` (an
administrator), `Abort` (crash or closed connection at any step).

Assumptions of the model. The expiry in a `WHERE` clause compares with a time
the handler took when it read the row, so for an unchanged version it repeats
that answer: only `MarkSent` takes the time anew. A challenge lives longer than
its cooling time, as the defaults (600 s and 60 s) do; hence `Expire` ends the
cooling too. Self-registration is enabled. The session itself is one step that
succeeds or fails: the session store is a component of its own.

Properties: `OneUseOfLastCode` (`SingleUse`, `VerifyingHoldsCode`),
`LeftoversBounded` (`GuessesBounded`, `ConsumedIsWiped`), `OverIsOver`,
`CoolingStands`. `RegisteredHasPassword` is
what the documents say and the code does not keep (section 5).

### AgentRuns

State. `status` is `agent_runs.status`; `refs` says whether the investigation and
the evidence of a run are available; `api` is the request that creates it;
`queue` counts the messages at the broker, `unacked` marks the workers whose
message the broker may deliver again; `pc`/`job` are the workers.

Actions: `Validate`, `Store`, `Publish`, `FailPublish`, `CrashApi` (the request);
`Deliver`, `Claim`, `Prepare`, `Generate`, `Revalidate`, `Write`, `Fail`, `Ack`
(the worker); `CrashWorker` and `DeliverAgain` (late acknowledgement);
`ChangeRefs` (any other request that archives, deletes or reactivates). The
answer of the model is a success or a failure. `Write` is an `UPDATE` by key
alone, as in the code; that nobody else can have written in between is what
`OneExecutor` shows.

Properties: `ExecutedOnce` (`AskedOnce`, `OneExecutor`), `DraftIsFresh`,
`OverIsOver`, `QueuedRunEnds`. `fresh` is set when references are available at, or become
available after, the answer, so `DraftIsFresh` forbids filing a draft on the
strength of the validation before the model was asked.

### ConnectorRuns

State. `status`, `job`, `result` are the columns of `connector_runs` and
`job_executions`; `outbox` and `published` the outbox events in the order of
`created_at` (taken to be the order in which they become visible); `dpc`,
`batch`, `sent` a dispatch; `queue`, `unacked` the broker; `pc`, `task`,
`seenRun`, `seenJob` a worker with what its session read. A message carries how
often its task was retried.

Actions: `Create` (run, job and event in one commit), `CreateAndWait` (the
`?wait` of development and test executes the run in the request too);
`ReadOutbox`, `Send`, `SendFails`, `CommitDispatch`, `AbortDispatch`; `Deliver`,
`Load`, `LoadJob`, `Mark`, `Connect`, `Complete`, `Fail`, `Ack`, `Retry` and
their failures `MarkFails`, `CompleteFails`, `FailFails`, `RetryFails`, `Crash`,
`DeliverAgain`. SQLAlchemy writes only columns that differ from what the session
read: that is why `Marks` may leave a row that another worker has meanwhile
completed untouched, and why run and job are read by two actions.

`RowSecurity` is a constant: with it the worker's session, which sets no
tenant, finds no row. `cut` is the history of executions that were cut off with
nothing left to continue them (retries exhausted, a process lost after its
message was acknowledged).

Left out: the policy decision and the checks of the target before the creation,
`attempts`, `error_code`, the content of the result.

Properties: `OutboxSafety` (`PublishedWasTaken`, `CompletedHasResult`),
`SettledAtRest`, `RunSettles`.

### AuditLedger

State. `table` maps the time of an event to its row: `data`, the fields of the
payload that is hashed; `origin`, the columns `masked_ip` and `user_agent`,
which are stored with the event and left out of its payload
(`ledger.py:44-49`, `73-78`); the previous hash and the hash. `pending`, `head`,
`appended` belong to a request's open transaction. A digest is the sequence of
payloads it covers, an injective stand-in for SHA-256. Times
are distinct and increase; one organisation is modelled, since every query is
restricted to one.

Actions: `Begin`, `ReadHead` and `Stamp` (`append_audit`: the query, autoflushed
so that it sees the request's own events, and the new row), `Commit`,
`Rollback`, and the damages `Lose` and `Alter`, which rewrites the data or the
origin of a row. `verify_chain` and `Linked` are
the loop of the verification. `MaxOpen` is how many requests may append at the
same time: 1 gives the sequential ledger, 2 the overlapping one.

Properties: `UndamagedVerifies`, `ValidIsWritten`. The second is about covered
fields (`SameCovered`): a rewritten origin verifies, in the code as in the
model, and so does a table that lost its last rows.

### Custody

State. `disk` is the staging area, `kept` counts the versions of an original in
the vault, `underHold` and `damaged` are what the vault holds or lost; `row` is
`evidence_items`, `events` the custody events with the link to the one before,
`holds`, `report`, `inquiry` the rows of holds, a report and an investigation.
A request is a record with what it read, what it wants written, and its step.

Actions: `Upload`; `FinalizeEvidence`, `VerifyEvidence`, `AttestEvidence`,
`RequestHold`, `ConfirmHold` (read and call the vault), each followed by
`AppendEvent` and `CommitRow` or `RollBackRequest`; `CleanUpStage`;
`CreateReport`, `BeginApprove`, `CommitApprove`; `BeginStatus`, `CommitStatus`;
`LoseStage` and `Damage` are the environment. SQLAlchemy writes only the columns
that differ from what the request read (`Differing`). The time of an event is
that of the start of its transaction, `created_at`: overlapping requests may
fork the chain of an item, and nothing in the code verifies that chain. The
vault is called in the step that reads; uploads and drafts, which only insert,
are one step. The lock of a hold's own row is left out (two users are modelled),
roles, MFA, the PDF and content checks are abstracted, nobody releases a hold.

`CustodySafety` is `OriginalIsRecoverable`, `RecordedOnce`, `StatusIsTold`,
`HoldIsApplied`, `EventsAreChained`, `ReportsArePreserved`,
`DeletedStaysDeleted`. Three of them are conditional: an item on which two
requests worked at once (outside `alone`) may have a forked chain and a status
that is not the one told last; overlapping status changes (not `settled`) may
bring a deleted investigation back.

### Access

State. `stored` and `memory` are the sessions of Redis and of the process;
`cookie`, `browserState` the browser's; `states` the OIDC states, which live in
the process; `calls` requests under way. `hits` counts attempts by window in
Redis, `fallback` in the process. One browser of one user and one API process
are modelled; the process may restart, Redis comes and goes, an administrator
suspends the user. The expiry of cookies is left out, tokens and keys are
library work.

Actions: `OidcLogin`, `OidcCallback`, `Exchange`, `Renew`, `Logout`; the steps
of `start_session`, `Create`, `EndOld` and their failures `FailEnd`,
`CreateUnheard`, `Refuse`; `AnswerCall` and `LoseAnswer`; the environment; and
`Attempt`, `NextSecond` of the rate limiter.

`AccessSafety` is `EndedIsDead`, `OneLiveSession`, `StateServesOnce`,
`LimitHolds`. The conditions are facts about the code: in development a session
ended while Redis was away is forgotten only in memory and opens again when
Redis is back (`deaf`); overlapping renewals or a lost answer leave a live
session that the browser does not hold, and a renewal that overlaps a logout
signs the user in again (`disturbed`); a window of development allows up to
three times the limit, once by Redis and twice by the windows of the process.

### LegalRecords

State: the rows of clients, processes, intimations and of the movement each
launch makes; `open` are requests between their read and their commit.
`launches`, `accepted`, `answered` are histories. Deadline and appointment of a
launch have ids derived like the movement's and are part of its commit.

Actions: `CreateClient`, `BeginDeleteClient`, `BeginSaveProcess`,
`SoftDeleteProcess`, `BeginSaveIntimation`, `DeleteIntimation`, `BeginLaunch`
(under the row lock), `CommitChange`, `CommitLaunch`, `UpdateMovement`,
`SoftDeleteMovement`, `RollBack`.

`LaunchSafety` is `LaunchedOnce`, `OneLaunchIsAccepted`, `RepeatIsRecognised`.
`ProcessHasLiveClient` is finding 5.

### The job follower and its screens

`JobFollower` is one `follow()`: `Submit`, `Poll`, `Pause`, the answers and their
refusals, the timer and the caller's abort. Of the server only the rows of its
runs are kept; it may create a run and lose the answer, and what arrives may be
anything there is a branch for. `JobSafety` is
`SubmitsOnce`, `ResultIsTheRuns`, `ErrorNamesTheRun` and the types;
`StoppedIsFinal` is a step property. `QueryPanels` extends it with the two
screens, whose state outlives or dies with the screen: `ResultFitsKind`,
`OffersOpenRun`.

### Pages with state of their own (`MCApplication`)

* `AuthPage`: `AuthSafety` (one account request at a time, the challenge of the
  server, one timer, no secret left over, one panel, one application),
  `LandsWhereAsked`. Cancelling a challenge returns to the tab of its purpose or
  of the link pressed. The server's side follows `security/challenges.py`: a
  refusal may leave the challenge as it was, end it (the last attempt, the
  expired code; a login or a registration whose mail fails after the old
  challenge was deleted), or, for a resend, renew it without a mail; a resend
  the page gave up on may still be carried out (`ResendsLate`); a challenge may
  end with no request of the page (`ChallengeEnds`: expiry, another browser). The
  page keeps asking for a challenge that ended, whose codes are all refused,
  until the user cancels or loads it again, and `AsksForHeldChallenge` does not
  claim otherwise: it says that a challenge the server does hold is the one
  asked for, unless its renewal was lost on its way (`lost`). Attempts and
  seconds are counted in `Challenges`; here the last of them may come at any
  time.
* `AuditView`: `RowsFitFilters`, `ListNeverGoesBack`.
* `Commercial`: `SelectionIsKept`. `CheckoutPanel`: `OwnOrderIsFound`,
  `OneOrderPerPlan`. Overlapping mounts can leave two checkout forms; after a
  canceled or expired checkout the request id is used again until a reload. A
  webhook may open, pay or end an order before the provider's answer is back,
  and pay one that had ended while no other holds the slot; an open order has
  no address until that answer is recorded.
* `IntegrationPanels`: `NoticeIsTrue`, `StatusIsTrue`, `EveryPressIsTold`,
  `OneAnalysisFollowed`. An error notice may come although the analysis was
  registered, so a retry duplicates it; overlapping reads can show an older
  list; a redrawn list has enabled buttons while the old request is under way.
  A finalisation or an approval that is repeated is answered like the first.
* `Interface`: `InertFits`, `FocusCanBeReached`, `FocusComesBack`,
  `HistoryIsKept`, `TabsAgree`, `LooksAsPreferred`. Preferences are written
  whole, so the last tab wins; a tab whose save the browser refused keeps its
  own until the next event. A tab may be opened with any address, also an empty
  or an unknown one: the first section is drawn then, and no entry is added to
  the history, so that `HistoryIsKept` lets the only entry of a history name
  none. Going back to such an entry pushes the dashboard again.
* `InvestigationWizard`: `PostsAreComplete`, `OpensOnlyCreated`. `wizardFinish`
  is not single-flight: two presses create two investigations, and success
  closes whichever modal is open.
* `CompanyRadar`: `OneConsultation`, `ConsultsFit`. A redraw or a client's timer
  resets the field, so what is consulted after the confirmation may differ from
  what was typed; an answer draws the radar wherever the user is. Consultations
  have no timeout, and no liveness is claimed of them.
* `AnalysisDrafts`: `DeskShowsDrafts`, `MarksStay`. Drafts live in memory and
  are lost on any refresh; a press on a desk that still shows lost drafts leaves
  a mark outside the lists, which later rows inherit. One phase of TACER is
  modelled; ticking an item ticks the earlier ones.
* `FileAnalysis`: `SpinnerMeansWork`, `RowsAreOfFiles`, `EveryFileIsTold`. The
  end of any batch draws the page of files anew and takes the progress of the
  other away; files chosen in a dialog whose page was replaced are dropped at
  the first small file. The entitlements of a plan are null and its status never
  restricted, so these guards never apply.
* `RecordViews`: every renderer is an operator on the records, and
  `RecordsAgree` compares them: `BellMissesNothing`, `DeadlinesAgree`,
  `CalendarsAgree`, `InboxAgrees`, `MoneyAgrees`, `BoardAgrees`. The panel of
  urgent actions is cut after `MaxUrgent` entries (five, `app.js:685`), deadlines
  first: `DeadlinesAgree` says that it is a part of the critical deadlines, and
  leaves one out only when it is full of them. The proofs hold for every
  `MaxUrgent` above zero; the run takes one, so that two deadlines overflow it.
  Met on the way:
  the cards "Recebido este mês" and "Saldo líquido (mês)" have no month filter;
  "Total a receber" includes expected expenses; the week of the agenda begins on
  a Sunday (the code calls it `monday`); the bell keeps a deleted deadline for
  up to a minute; evidence of a deleted investigation stays in the review list.

### Pages that write records (`MCRecords`)

* `Workspace`: `OneSavePerAction`, `ShownWasHeld`, `QuietCopyIsExact`. A launch
  concludes the intimation and creates a movement and, where they are asked for,
  a deadline and an appointment, which reach the copy by the reading after it;
  repeated after a lost answer it stores nothing (`LegalRecords` has the request
  itself). The API lists the records in an order of its own, so an exact copy has each record
  once, in whatever order. A retry
  after a lost answer creates a second record; an older refresh that arrives
  later hides newer records; completing a deadline or an intimation writes the
  whole cached record; success closes whichever modal is open; a request not
  carried out when the page is left is taken as never carried out.
* `RecordForms`: `LinksAgree`, `StatusFitsType`, `SentIsDated`,
  `ShownAsReloaded`: no order of choices in a form leads to a record the API
  refuses for these reasons, and the status shown after a save is that shown
  after a reload.
* `ProcessFile`: `FileIsOfChosen`, `FileIsCurrent`, `ListIsStored`. A deletion
  takes out whatever stands at the index it noted before its request; two of
  them, or a reading in between, take out the wrong row until a reload.
  `ListIsStored` holds of the sequences without such a meeting (`actsRaced`), so
  no property covers this race: the code loses it.
* `EvidenceDesk`: `ToldIsDone`, `EvidenceIsOfItsSource`. Preserved evidence is
  shown as validated without an attestation; a retry after an error duplicates
  the evidence; promoting a validated finding makes it an `achado` again.
* `InvestigationDesk`: `ConfirmsWhatIsShown`, `FiledStaysOk`,
  `NothingLeftRunning` (unless collections met each other or a refresh, see
  `together`), `PrintedIsRegistered`. Collections call the connector without the
  target they were started for (`app.js:3014` reads what `app.js:3096` and
  `app.js:3165` do not set); the hash of a printed report covers counts, title
  and owner only. Status answers are taken to arrive in the order they were
  carried out, and a report is abstracted to the number of its entities.
* `Calculators`: integer operators for the four tools, compared with reference
  definitions (`DeadlineMeetsDefinition`, `FractionMeetsDefinition`,
  `AmountsAddUp`), and their forms (`ResultIsCurrent`, `VisibleIsWanted`).

## 4. Runs and bounds

| run | module, configuration | what it shows | bounds | states |
|---|---|---|---|---|
| `billing` | `MCBilling`, `MCBilling.cfg` | safety and refinement of the checkout | one tenant, two orders, two runs, two concurrent deliveries; the second checkout's webhooks are unreferenced and divergent | 229 600 |
| `billing_fair` | `MCBilling`, `MCBillingFair.cfg` | payments are recorded, slots come back | one order, two runs, two deliveries | 14 600 |
| `challenges` | `MCChallenges`, `MCChallenges.cfg` | verification is used once, guesses are bounded, over is over | two challenges of one address, two requests, two attempts, two codes | 926 800 |
| `challenges_password` | `MCChallenges`, `MCChallengesPassword.cfg` | finding 1 | one challenge, two requests | - |
| `agent_runs` | `MCAgentRuns`, `MCAgentRuns.cfg` | one executor, fresh drafts, final outcomes, and every queued run ends | one run, three workers, four losses or second deliveries | 58 400 |
| `agent_runs_answer` | `MCAgentRuns`, `MCAgentRunsAnswer.cfg` | finding 2 | one run, one worker | - |
| `connector_runs` | `MCConnectorRuns`, `MCConnectorRuns.cfg` | no event is lost, run and job agree, every run settles | one run, two dispatches, two workers, one retry, two faults | 569 400 |
| `connector_runs_tenant` | `MCConnectorRuns`, `MCConnectorRunsTenant.cfg` | finding 3 | one run, no fault, row security on | - |
| `application` | `MCApplication`, `MCApplication.cfg` | the job follower with its screens and the pages with state of their own keep what section 3 names, and what they make a user wait for ends | twenty scenes; two runs, two forms, two batches of two files, two tabs, two analyses, three records of a kind at most | 522 300 |
| `records` | `MCRecords`, `MCRecords.cfg` | the ledger, custody, access, legal records, and the pages that write records | fourteen scenes; two requests or sessions under way, five begun, two clients, two saves under way, three ids of a collection, two of the desk's collections | 3 014 600 |
| `audit_ledger_overlap` | `MCAuditLedger`, `MCAuditLedgerOverlap.cfg` | finding 4 | two overlapping requests, no damage | - |
| `legal_orphan` | `LegalRecords`, `MCLegalRecordsOrphan.cfg` | finding 5 | two clients, one process, two requests | - |

Why the bounds are enough for what they are to show:

* *billing.* The slot is contended by two runs for two orders and by two runs
  for one order; a third run meets the same constraints. Tenants do not
  interact. Two deliveries are needed for a duplicate to race with its
  original. The events are not bounded: each can be delivered any number of
  times.
* *challenges.* Two requests are enough for every read-then-write pair to be
  interrupted by any other whole request, and by half of it. Two challenges are
  enough for one to replace the other. Two attempts make the last one and the
  one before it differ; two codes let each statement meet a row with a newer
  version. `MaxVersion` is the only bound the code does not have.
* *agent_runs.* A run does not touch another one's row. Three workers and four
  losses let a message be redelivered while two others are held. `MaxLosses`
  bounds crashes and second deliveries by run; without it a task could be
  delivered again for ever, and nothing would end.
* *connector_runs.* A run does not touch another one's row, but runs share a
  dispatch. Instances with two runs in one dispatch (`Limit = 2`, one fault) and
  two runs with two dispatches were explored while the invariant was developed
  (up to 1.8 million states); the proofs of section 6 cover any number. Two
  faults let a failure happen in the handling of another one. `MaxFaults` bounds
  faults altogether, for the same reason as `MaxLosses`.
* *records.* Two requests under way let each read be followed by any commit of
  another before its own; five begun let an item be uploaded, preserved, put
  under hold with both confirmations and verified, or steps of these repeated. Five events in
  requests of one or two reach every combination of a rolled back request, a
  request with two events and two damaged rows, or two damages of one row. Windows of three seconds over
  eight give two full windows and one in which the fallback of the first ends
  late. One intimation is launched with two bodies. In the pages, two flights and two operations let
  every answer come before and after every other, and the third id is for the
  movement a launch adds to two; two collections and a refresh
  meet on one list. The calculators' inputs cross a weekend, the last date, a
  rounding boundary of each kind and the largest amount.
* *application.* Two of everything that can overlap: runs, mounts, orders,
  analyses, batches, tabs. A follow polls without bound, so every answer meets
  the timer. Four entries of history hold a way back and forth, from each address a
  tab may be opened with, and the records
  that the pages count are few because each is compared on its own.

Deadlock is not checked: every system here may come to rest, when all orders are
placed, challenges used and runs finished.

Symmetry (deliveries in `billing`, challenges and requests in `challenges`,
requests and data in `audit_ledger_overlap`) is only used in runs without liveness
properties.

Fairness, and why the code justifies it:

* `Billing!FairSpec`: for each provider checkout, an event that is not
  acknowledged is delivered again, a delivery that is attempted again and again
  is at some time not cut off before it commits, nor before its answer
  (strong fairness of `Redeliver`, `ApplyFor`, `AnswerFor`). The provider
  redelivers on every answer that is not 2xx, on which the comment at
  `billing/service.py:153` relies. Nothing obliges the payer to pay, the
  provider to decide, or `start_checkout` to reach its second transaction: that
  run may crash or hang, and both liveness properties still hold.
* `AgentRuns!FairSpec`: a worker goes on with what it began and a request that
  has not crashed goes on (weak fairness); a task that is queued again and again
  is delivered at some time (strong, since workers may be busy). Losses are
  bounded, so the broker's redelivery is the recovery that late acknowledgement
  provides. A run whose worker was lost after the claim is excluded (`cut`): the
  code has no recovery for it, since the redelivered task finds the run
  `running` and gives up.
* `ConnectorRuns!FairSpec`: beat starts dispatches for ever
  (`workers/celery_app.py`), workers go on and take what is queued (weak
  fairness). Nothing obliges a client to create a run.

* `MCApplication!Spec`: of a follow only its timer and promises that are
  settled (`JobFairness`); the browser settles a request that is under way,
  with an answer or an error (`AuthFairness`, `AuditFairness`,
  `CommercialFairness`, `IntegrationFairness`; the helpers pass a timeout or the
  panel has one); the page that is left unloads; the interval of a minute draws
  the bell (`ViewsFairness`); the browser reads or refuses a file, and measures
  or refuses an image (`FilesFairness`). Nothing obliges the server to answer
  well, nor the user to do anything. `WaitsEnd` says that
  whatever makes a page wait comes to an end.

Every property of a passing run has a mutant in `PROJECT.json`: one definition
changed the way a slip in that code would change it (a missing constraint, a
failure written without testing the row, a version not compared, a batch that
goes on after a failed call), under which TLC reports the property violated.
The mutated forms stand in the modules next to the definitions, marked as such.

## 5. Findings

Five runs check a statement of the repository's documents or tests and end with
a counterexample.

1. **A registration can end without a password** (`challenges_password`,
   `security/challenges.py:87`). `pending()` wipes the pending hash of an
   inactive challenge with an `UPDATE` by id alone. If `resend` has read the row
   while it was still active, the row expires, `/auth/status` wipes it, and the
   `UPDATE` of `resend` - which compares the version and the time it took
   earlier - renews it. The verification of the new code then creates a user
   with no password hash. The window is between two statements of one request
   around the second of expiry.
2. **"failed" is answered for a run that goes on** (`agent_runs_answer`,
   `api/v1/reports.py:87`). When the broker takes the task and the call raises,
   a worker may claim the run before the request marks it failed. The
   conditional `UPDATE` rightly leaves the run alone, but the answer is 503 with
   status `failed` all the same.
3. **Under row level security connector runs are never executed**
   (`connector_runs_tenant`, `services/connector_runs.py:21`). The worker opens
   a session without setting `app.tenant_id`, unlike `execute_agent_run`. With
   the database role the README asks for, the query finds no row, the task ends
   as `missing` and is acknowledged, and the run stays queued.
4. **Two overlapping requests fork the audit chain** (`audit_ledger_overlap`,
   `audit/ledger.py:41`). Both read the same last event and chain to it; from
   then on the verification reports damage although no row was touched. The
   README leaves concurrency of the ledger to be validated.

5. **A live process of a deleted client** (`legal_orphan`,
   `api/v1/legal.py:119`). `delete_client` finds no process and deletes the
   client; `create_process`, which found the client before that commit, inserts
   one after it. Neither takes a lock, and neither can tell later.

Further observations are not findings of a run, since no document promises
the contrary: a queued agent run whose request dies before `apply_async` has no
task and stays queued, and a second delivery of a connector run may turn
`completed` into `failed` and leave the earlier result in the row. The behaviours
of the pages that section 3 mentions, module by module, are of the same kind.

## 6. Proofs

All theorems hold for any sets given as constants, infinite ones included where
no assumption asks for finite ones, under the
`ASSUME`s of the modules only: names that stand for "none" are outside their
sets, bounds are natural numbers, orders have tenants and challenges addresses,
a rate limit allows at least one attempt in windows of at least a second.
`EndsAlike` and `SequentialVerifies` have one more hypothesis, named below.

Each proof module has the same shape: an inductive invariant, stated at the end
of the module it is about or in the proof module, and first checked by TLC; a
lemma for the initial state; one by action (grouped where actions disturb the
same conjuncts); the step, the invariant as a theorem of the specification, then
the properties as consequences. Action
properties and the refinement are proved from the invariant and the next-state
relation.

| theorem | states |
|---|---|
| `BillingProofs!OnePurchase`, `Payable`, `AcknowledgedPayment`, `PaidMeansPaid`, `TypeCorrect` | the five invariants of `Billing` |
| `BillingProofs!StaysOver` | `OverIsOver` |
| `BillingProofs!Implements`, `OneHolderEver` | every behaviour of `Billing` is one of `SubscriptionSlot`; a tenant has one holder |
| `ChallengesProofs!UsedOnce`, `BoundedGuesses`, `Wiped`, `CodeHeld`, `TypeCorrect` | the five invariants of `Challenges` |
| `ChallengesProofs!StaysOver`, `RenewedStands` | `OverIsOver`, `CoolingStands` |
| `AgentRunsProofs!AtMostOneCall`, `ExecutorAlone`, `TypeCorrect` | the invariants of `AgentRuns` |
| `AgentRunsProofs!FreshDrafts`, `OutcomeIsFinal` | `DraftIsFresh`, `OverIsOver` |
| `ConnectorRunsProofs!NothingIsLost`, `ResultIsThere`, `TypeCorrect` | `PublishedWasTaken`, `CompletedHasResult`, `TypeOK` |
| `SlotIsSafe`, `PaymentIsSafe`, `OneUse`, `NothingLeftOver`, `ExecutesOnce`, `OutboxIsSafe` | the conjunctions of these that the runs check |
| `LedgerAccessProofs!TypeCorrect`, `VerifiedIsWritten` | `TypeOK`; `ValidIsWritten`, of the fields a digest covers, for any number of overlapping requests |
| `LedgerAccessProofs!SequentialVerifies` | `UndamagedVerifies`, where requests come one after another (`MaxOpen = 1`) |
| `LedgerAccessProofs!LaunchIsSafe` | `LaunchSafety` |
| `RecordsProofs!CustodyHolds`, `VersionStands` | `CustodySafety`, for any items, users and requests that overlap; no step replaces the version a row records |
| `RecordsProofs!EvidenceHolds`, `DeskHolds`, `FormsHold`, `WorkspaceHolds` | `EvidenceSafety`, `DeskSafety`, `FormSafety`, `WorkspaceSafety`, for any number of records, workers and requests under way |
| `RecordsProofs!CalculatorsHold` | `CalculatorSafety`, for any days, amounts, decimals, counts and periods |
| `RecordsProofs!FileHolds` | `FileSafety`, for any number of processes, movements, deadlines and requests under way |
| `LedgerAccessProofs!AccessIsSafe` | `AccessSafety`, for any number of sessions and any limit, window and clock |
| `ApplicationProofs!FollowIsSafe`, `FollowsAreSafe` | `JobSafety`, of one follow alone and under every page that follows |
| `ApplicationProofs!PanelsTellTheTruth`, `AuthPageIsSafe`, `SendsTheChosen`, `InterfaceHolds` | `PanelsAreTrue`, `AuthSafety`, `SendsWhatWasChosen`, `InterfaceSafety` |
| `ApplicationProofs!ScreensAlwaysAgree` | `ScreensAgree`, for any number of records, days and amounts |
| `ApplicationProofs!StepsKeepOrder` | `StepsAreOrderly`: what no step of a page does |
| `ConnectorRunsProofs!EndsAlike` | `SettledAtRest`, where workers can read the runs (`~RowSecurity`) |

Why the invariants need strengthening:

* *Billing.* `PayableHoldsSlot` is not inductive: it depends on what a webhook
  still in hand may do. `RowInv` ties the slot to the status and the provider id
  to the run that obtained it; `CallInv` says that the status keeps pace with
  the provider (`Agrees`: `failed` only after a certain rejection, `canceled`
  and `expired` only when the provider said so) and that an order is placed by
  at most one run (`OneRequest`); `HookInv` says that whatever a delivery
  carries, or a receipt records, did happen, and that a receipt of a payment
  means a paid row. `OneSlot` is the unique constraint. Then a row that gives
  its slot up belongs to a checkout nobody can pay any more.
* *Challenges.* `SingleUse` counts sessions; `RowInv` ties that count to
  `consumed` and the guesses to `attempts`, which no renewal resets.
  `VerifyingHoldsCode` is itself needed: between the conditional `UPDATE` and
  the commit only the lock keeps the row as it was judged. `Places` says where a
  request can be with a challenge: before the first code is sent no browser
  holds its token, so only the request that made it is there, and the deletion
  after a refused first mail hits nobody else's challenge. `Replaceable` says
  that what a login decided to replace is either still replaceable or has
  another version by now; it is what `CoolingStands` rests on.
* *AgentRuns.* `ExecInv`: a run has one executor; it reads `running`, unless its
  executor is already on the failure path after a commit whose confirmation was
  lost; until the model is asked nobody has asked it. `FreshInv` carries the
  freshness from the answer to the write, and `RunInv` links requests and rows.
* *ConnectorRuns.* `SettledAtRest` speaks of the end only. `Pursued` speaks of
  every moment: a run whose task the broker once took, and whose execution was
  not cut off, has a message waiting, or a worker that either holds an
  acknowledgement back or has begun to write (`HasInHand`), or is settled. At
  rest the first two are gone. `SentWasTaken` is the same for a dispatch between
  its calls and its commit.

* *AuditLedger.* No induction along the chain is needed. A digest is the
  sequence of payloads it covers, so it remembers the rows itself: `WrittenInv`
  says that each row as written is chained to some digest, and that damage
  leaves digests and links alone. If a table verifies, the last payload of a
  row's digest is that of the row as written, which settles its data and not its
  origin, and a least counterexample shows
  that the digest covers all rows up to it. `ChainInv` adds, for one open request at a
  time, that what it sees verifies and that its head is the last hash.
* *LegalRecords.* `LaunchFits` says that a launch under way holds its
  intimation alone and that there still is no movement of it; `MovementFits` and
  `HistoryFits` tie the movement, deleted or not, to the number of launches and
  the bodies accepted. A launch that commits is thus the first.
* *Access.* `CallsFit`: while nothing overlapped, the one call under way holds
  the only session the browser was given, and one that is about to answer has
  ended it. `EndsFit`: what was ended, or is about to be answered as ended, is
  not live. `RateInv` bounds what a window allowed by what Redis counted plus
  the room of the fallback: its count, and once more the limit if it began anew
  within the window.
* *Custody.* What `CustodySafety` says of the rows holds only if no request under
  way can spoil it, so most of `CustodyIndInv` is about requests. `VersionsStand`
  says what each may still write: a finalisation is alone of its kind, on a row
  without a version, and no other request writes one. So a late writer of an
  older status cannot lose an original. `EventsFit` and
  `RecordedOnce` tie events to versions. `AloneOf` is about an item whose
  requests never met: the last event tells its status, its events form one
  chain, and the one request under way comes after them (`FitsOf`).
  `UnversionedStaged`: as long as a row has no version its original is in the
  staging area.
* *The pages of `MCApplication`.* `AppInv` is the conjunction of an invariant of
  each page. A page's actions leave the variables of the others alone, and a
  scene that was not chosen stays as it began, so the step of `AppInv` is one
  lemma by action of one page, and the frame. What each adds to its properties:
  `JobInv` ties the answer under way to the phase that waits for it and the run
  created to the one submission; `QueryScene` and `TransScene` say the same of
  the screens that resume a run. `AuthInv`: a request is on its way only
  from a page at work, which it marks busy; a challenge the
  server holds is the one on screen, unless its renewal was lost, and what is on
  screen is never newer; the section asked for is remembered, or in the address,
  at every stage of the way between two pages. `AuditFits`: the lists under way were asked
  for after what is shown. `CheckoutFits`: an order bears the request id that the
  page keeps for its plan. `FollowFits` and `ListsFit`: an analysis is followed
  until its end is told; a request that was served has preserved its record for
  good. `PageFits`, `PathFits`, `PrefsFit`: a row of dialogs returns to where its
  first was opened; a tab that does not show what is stored has an event on its
  way. `WizardFits`: the steps before the one on screen are complete.
  `RadarFits`: a dialog is open only while nothing is asked. `DraftsFit`: rows of
  a matrix are distinct. `FilesFit`: a spinner is of a file of a batch that is
  attached and at work.
* *RecordViews.* `ScreensAgree` compares what several renderers make of the same
  records. `ViewsInv` needs little beside it: the records have values of their
  kind (`RecordsTyped`), the days are days of the calendar (`DaysTyped`), the
  select over the processes reads "todos" after every drawing, whatever filter is
  applied, and the bell misses nothing (`BellMissesNothing`). Only the last depends on which
  handler draws what: a deletion may leave the bell undrawn, as it can only
  shrink what is due. The rest of the agreement holds of any typed records
  (`RecordsAgree`): the same ones are counted, or their amounts added, in parts.
* *Folding* holds what those sums rest on. The library's folds are recursive
  functions; the prover knows neither that one exists nor an induction scheme
  for it. `FoldIs` and `FoldIsOne` show that it does and that it is the only one,
  by induction on the size of the set, from `AllNumbers` and the least number of
  a set; `SumOfBoth`, `SumOfParts` and `SumCounts` are then ordinary sums.
* *EvidenceDesk.* `GivenInOrder`: the API's numbers have no gap. `ChainFits` says
  for each request of a chain what the ones before it did at the API.
  `OneFinalizes`: no two chains are about to finalise the same original; without
  it a refused finalisation could be told as done.
* *InvestigationDesk.* `ConfirmFits` keeps the operation that a press would run
  equal to the one on screen; `WorkerFits` says which row a worker works on and
  how far the run has come at the API. `RunsAlone`, while collections met
  neither each other nor a refresh: a row that runs has a worker that asks, and
  it is the last row, which is where the code looks for it.
* *RecordForms.* The open form is fit to be sent at every moment, not only when
  it is sent: `FormFits` is kept by each choice because the code adjusts the
  dependent fields at once. The rest is that the words of the page and those of
  the API translate back and forth, for the statuses that a form offers.
* *Workspace.* `FlightFits` says of each answer under way that the API held what
  it carries; `FlightsFitTogether` that saves of a window exclude each other.
  `QuietFits` is about an operation alone: until the API takes it the copy is
  exact, and when its answer arrives it makes the copy exact again (`Lists`,
  with the lemmas `ListsCreate`, `ListsUpdate`, `ListsDelete` on what the three
  changes of a list do to the set of its records).
* *ProcessFile.* `ListFits`: while no request met another, or a reading, at most
  one is under way, the list has each stored movement once, and the index that a
  deletion noted is still the place of its movement. `CurrentFits`: a file that is
  up to date is of a process that is there. Otherwise an answer could change the
  list without drawing the file again, as `renderProcessFull` returns early then.
  `FileTyped`: both lists stay lists of dated rows, even when a deletion takes out
  another movement. Filters and stable sorts are stated in closed form
  (`Arranged`: the row at place `k` is the one with `k - 1` rows before it), and
  `PlacesInOrder` shows that these ranks count every chosen row once, in order.
* *Calculators.* `CalcInv` says that a result on screen is that of the fields on
  screen, and that the fields of a mode are shown exactly with it but between a
  reset and its timer, when the form is empty. What the tools compute is proved
  from their recursive definitions: `Folding!Recursion` shows that a function with
  such an equation exists when each call goes to a smaller place, and
  `AllNumbers` is induction for a set of numbers. `CountDaysEnds` carries
  the invariant of the counting loop (`ComesTo`: what was counted is the number
  of counting days gone by) to its end; `PostponeIs` does the same for the
  postponement; `CompoundIsMore` is Bernoulli's inequality, and
  `RoundedInOrder` keeps it through the rounding.

Assumptions on constants beyond the bounds: `FieldsAssumption` and
`ExcludableAssumption`, the fields of a calculator take numbers that are not
negative, decimals with a denominator and at most 500 valid dates to exclude,
as the page refuses others; `CheckoutAssumption`, no paid plan is
named `"none"`, which is the page's own word for no selection;
`CatalogAssumption`, a package is not named like the dialog of the
add-ons or its summary; `FormAssumption`,
the mark for "no process" is not a process, and processes have clients;
`LegalAssumption`, likewise; `ViewsAssumption` and `FileAssumption`, the records
of a page and the processes are finitely many, as they are added up and listed.

Only model-checked:

* the liveness properties (`OrdersSettle`, `QueuedRunEnds`, `RunSettles`,
  `WaitsEnd`), because the prover handles neither fairness nor `ENABLED`.

## 7. Not modelled

* The import of the demonstration data: one transaction that inserts a validated
  batch or nothing; what is checked is a long list of formats.
* The policy engine and the roles: a decision table without state; a model would
  repeat the table. Its refusals are early ends of the requests modelled.
* The TACER and SIERA engines: scores of one request by fixed weights in floating
  point. The drafts that the page keeps of them are in `AnalysisDrafts`.
* Passwords and cipher, the verification e-mail, the connectors and the model
  providers: library and network calls, whose outcomes are the environment of
  `Challenges`, `ConnectorRuns` and `AgentRuns`.
* The front-end data endpoint, a read-only mapping, except for the status words
  that `RecordForms` compares; configuration, schema, start-up.
* The legacy single page `semperfi.html`, superseded by the front-end.

Left out of modelled components:

* Documents, contracts, tasks, contacts and finance entries of the API: rows of
  their own, changed by requests of the shape of those modelled. Entities,
  relationships, hypotheses and findings of an investigation: inserts of one row.
* Wording, layout, printing and exports of the pages (a CSV takes its columns
  from the first record), the parsing of EXIF, PDF and office formats, the
  labels that `enhanceElements` adds, menus of the public page.
* A deadline form opened for a process that is missing silently takes the first
  one (`app.js:1206`), and a status that the select does not offer cannot be set
  again (`app.js:1053`): no property covers them.
* A queued agent run whose request dies before `apply_async`, and clocks of
  several API processes that disagree about the order of audit events: the code
  has no handling of either, and no property claims one.
