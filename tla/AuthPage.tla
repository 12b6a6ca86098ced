------------------------------ MODULE AuthPage ------------------------------
(***************************************************************************)
(* assets/js/auth.js: the account forms of login.html and the guarded      *)
(* entry of index.html, in the one tab of a browser.  The server keeps a   *)
(* session and the challenge whose token the browser holds, here a version *)
(* that every new code renews (app/security/challenges.py).  The challenge *)
(* may end without the page: it expires, a refused code was the last one   *)
(* allowed, another login of the same address replaces it.  The answer to  *)
(* a request may be lost, or come when the page has given up on it.        *)
(***************************************************************************)
EXTENDS Naturals, FiniteSets

CONSTANTS
    Sections,      \* sections of the workspace a link may name
    Dashboard,     \* the section a visit starts in
    MaxVersions    \* bound: challenges and codes

ASSUME SectionsAssumption == Dashboard \in Sections /\ MaxVersions \in Nat

VARIABLES
    srvSession,    \* the server has a session for the browser
    srvChallenge,  \* the version of the pending challenge, 0 when there is none
    srvPurpose,    \* what it is for: login or register
    srvMailed,     \* delivery_state: the code of that version was sent
    versions,      \* bounded: versions used
    lateResend,    \* the server still works on a resend the page gave up on
    place,         \* the page that is loaded
    hash,          \* the section in the address
    saved,         \* sessionStorage: the section to return to, "" when there is none
    leaving,       \* the page that replaces this one, "" when it stays
    checking,      \* checkAccess: what it awaits
    caps,          \* capabilities were received and the controls refreshed
    retryShown,    \* the retry button is shown
    started, apps, \* scriptsStarted, and how often app.js ran in this page
    busy,          \* busy
    flying,        \* account requests on their way, by operation
    shown,         \* pendingVerification: the version it was made for, 0 for null
    purpose,       \* pendingVerification.purpose
    undelivered,   \* pendingVerification.delivery_failed
    panel, tab,    \* the panel that is visible, and the selected tab
    tabWanted,     \* the tab that follows a cancellation under way
    timers,        \* running intervals of tickVerification
    expired, cooling, \* now >= expiresAt, now < resendAt
    password,      \* the password fields: empty, typed, or sent
    code,          \* the code field: the version whose code was typed, 0 when empty
    lost,          \* history: the challenge has a version the page was not told of
    asked          \* history: the section the login was asked for in, "" for none

challengeVars == <<srvChallenge, srvPurpose, srvMailed, versions, lateResend>>
serverVars  == <<srvSession, challengeVars>>
addressVars == <<place, hash, saved, leaving>>
entryVars   == <<checking, caps, retryShown, started, apps>>
panelVars   == <<purpose, undelivered, panel, tab, tabWanted>>
formVars    == <<shown, panelVars, timers, expired, cooling, password, code>>
history     == <<lost, asked>>
authVars    == <<serverVars, addressVars, entryVars, busy, flying, formVars, lost, asked>>

Ops == {"login", "register", "verify", "resend", "cancel", "session"}

\* The first page of a visit: the workspace, by a link to a section.
AuthInit ==
    /\ srvSession = FALSE /\ srvChallenge = 0 /\ srvPurpose = "login" /\ srvMailed = FALSE
    /\ versions = 0 /\ lateResend = FALSE
    /\ place = "index" /\ hash = Dashboard /\ saved = "" /\ leaving = ""
    /\ checking = "status" /\ caps = FALSE /\ retryShown = FALSE
    /\ started = FALSE /\ apps = 0
    /\ busy = FALSE /\ flying = [o \in Ops |-> 0]
    /\ purpose = "login" /\ panel = "login" /\ tab = "login" /\ tabWanted = "login"
    /\ shown = 0 /\ undelivered = FALSE /\ timers = 0 /\ expired = FALSE /\ cooling = FALSE
    /\ password = "empty" /\ code = 0 /\ lost = FALSE /\ asked = ""

\* A page is loaded: everything its script keeps starts anew.
Load(page, section) ==
    /\ place' = page /\ hash' = section /\ leaving' = ""
    /\ checking' = "status" /\ caps' = FALSE /\ retryShown' = FALSE
    /\ started' = FALSE /\ apps' = 0
    /\ busy' = FALSE /\ flying' = [o \in Ops |-> 0]
    /\ purpose' = "login" /\ panel' = "login" /\ tab' = "login" /\ tabWanted' = "login"
    /\ shown' = 0 /\ undelivered' = FALSE /\ timers' = 0 /\ expired' = FALSE /\ cooling' = FALSE
    /\ password' = "empty" /\ code' = 0 /\ lost' = FALSE

Unload ==
    /\ leaving # ""
    /\ Load(leaving, IF leaving = "index" THEN hash ELSE Dashboard)
    /\ asked' = IF leaving = "index" THEN "" ELSE asked
    /\ UNCHANGED <<saved, serverVars>>

Reload ==
    /\ leaving = ""
    /\ Load(place, hash)
    /\ UNCHANGED <<saved, serverVars, asked>>

\* The user goes to a section of the running application.
OpenSection(section) ==
    /\ place = "index" /\ apps > 0 /\ leaving = ""
    /\ hash' = section
    /\ UNCHANGED <<serverVars, place, saved, leaving, entryVars, busy, flying, formVars, history>>

RememberSection == saved' = hash

RequireLogin ==
    /\ RememberSection /\ asked' = hash
    /\ leaving' = "login"
    /\ UNCHANGED <<place, hash>>

\* The section to return to is used once.
EnterWorkspace ==
    /\ leaving' = "index"
    /\ hash' = IF saved # "" THEN saved ELSE Dashboard
    /\ saved' = ""
    /\ UNCHANGED place

(***************************************************************************)
(* The challenge on the page.                                              *)
(***************************************************************************)
(* Mutant: the interval of the code before keeps running. *)
ClearedTimersNot == timers

ClearedTimers == 0

FormReset == 0

\* renderAccessPanels.
PanelOf(v, t) == IF v # 0 THEN "verification" ELSE t

ShowVerification(v, for, mailed) ==
    /\ shown' = v /\ purpose' = for /\ undelivered' = ~mailed
    /\ panel' = PanelOf(v, tab) /\ UNCHANGED <<tab, tabWanted>>
    /\ timers' = ClearedTimers + 1
    /\ code' = FormReset
    /\ expired' = FALSE /\ cooling' = TRUE

ForgetVerification(t) ==
    /\ shown' = 0 /\ timers' = 0 /\ code' = 0
    /\ tab' = t /\ panel' = PanelOf(0, t) /\ UNCHANGED <<expired, cooling, purpose, undelivered, tabWanted>>

\* tickVerification, once a second while the interval runs.
Tick ==
    /\ timers > 0
    /\ \/ cooling /\ cooling' = FALSE /\ UNCHANGED expired
       \/ ~cooling /\ ~expired /\ expired' = TRUE /\ UNCHANGED cooling
    /\ UNCHANGED <<serverVars, addressVars, entryVars, busy, flying, shown, panelVars, timers, password, code, history>>

(***************************************************************************)
(* checkAccess.                                                            *)
(***************************************************************************)
\* The retry button: an application that was started is loaded anew.
RetryCheck ==
    /\ retryShown
    /\ IF started THEN Load(place, hash)
       ELSE /\ checking' = "status" /\ caps' = FALSE /\ retryShown' = FALSE
            /\ UNCHANGED <<place, hash, leaving, started, apps, busy, flying, formVars, lost>>
    /\ UNCHANGED <<saved, serverVars, asked>>

CheckFails ==
    /\ checking # "none"
    /\ checking' = "none" /\ retryShown' = TRUE
    /\ caps' = FALSE
    /\ UNCHANGED <<serverVars, addressVars, started, apps, busy, flying, formVars, history>>

\* The answer to /auth/status.
StatusArrives ==
    /\ checking = "status"
    /\ caps' = ~srvSession
    /\ CASE srvSession /\ place = "login" ->
              EnterWorkspace /\ checking' = "none" /\ UNCHANGED <<formVars, history>>
         [] srvSession /\ place = "index" ->
              checking' = "catalog" /\ UNCHANGED <<addressVars, formVars, history>>
         [] ~srvSession /\ place = "index" ->
              RequireLogin /\ checking' = "none" /\ UNCHANGED <<formVars, lost>>
         [] OTHER ->
              /\ checking' = "none" /\ lost' = FALSE
              /\ IF srvChallenge # 0 THEN ShowVerification(srvChallenge, srvPurpose, srvMailed) ELSE ForgetVerification(tab)
              /\ UNCHANGED <<addressVars, password, asked>>
    /\ UNCHANGED <<serverVars, retryShown, started, apps, busy, flying>>

StartedBeforeScripts == started' = TRUE

CatalogArrives ==
    /\ checking = "catalog"
    /\ checking' = "scripts"
    /\ StartedBeforeScripts
    /\ UNCHANGED <<serverVars, addressVars, caps, retryShown, apps, busy, flying, formVars, history>>

\* app.js runs when it is loaded; loadScript may still report an error.
ScriptsRun ==
    /\ checking = "scripts"
    /\ apps' = apps + 1
    /\ \/ checking' = "none" /\ UNCHANGED retryShown
       \/ checking' = "none" /\ retryShown' = TRUE
    /\ UNCHANGED <<serverVars, addressVars, caps, started, busy, flying, formVars, history>>

\* app.js finds the session gone (a 401, or a logout).
SessionEnds ==
    /\ place = "index" /\ apps > 0 /\ leaving = ""
    /\ srvSession' = FALSE
    /\ \/ RequireLogin
       \/ leaving' = "login" /\ asked' = "" /\ UNCHANGED <<place, hash, saved>>
    /\ UNCHANGED <<challengeVars, entryVars, busy, flying, formVars, lost>>

(***************************************************************************)
(* Account requests.                                                       *)
(***************************************************************************)
\* A page that is being left takes no more input: the navigation is the next
\* thing that happens to it.
OnLogin == place = "login" /\ caps /\ leaving = ""

TypePassword ==
    /\ place = "login" /\ shown = 0
    /\ password' = "typed"
    /\ UNCHANGED <<serverVars, addressVars, entryVars, busy, flying, shown, panelVars, timers, expired, cooling, code, history>>

\* The code of the message the page asks for, or of a later one that arrived.
TypeCode ==
    /\ OnLogin /\ shown # 0
    /\ code' = shown \/ (srvMailed /\ srvChallenge # 0 /\ code' = srvChallenge)
    /\ UNCHANGED <<serverVars, addressVars, entryVars, busy, flying, shown, panelVars, timers, expired, cooling, password, history>>

(* Mutant: cancelPending leaves the other controls enabled. *)
SetsBusyButCancel(op) == op # "cancel"

SetsBusy(op) == TRUE

SwitchAuthTab(t) ==
    /\ place = "login" /\ leaving = "" /\ ~busy /\ shown = 0
    /\ tab' = t /\ panel' = t
    /\ UNCHANGED <<serverVars, addressVars, entryVars, busy, flying, shown, purpose, undelivered, tabWanted,
                   timers, expired, cooling, password, code, history>>

\* The form of the selected tab, once it is valid.
MaySubmitForm(op) == shown = 0 /\ panel = op /\ password = "typed"

\* What every handler tests before it sends, and what its button shows.
MaySend(op) ==
    /\ OnLogin /\ ~busy
    /\ CASE op \in {"login", "register"} -> MaySubmitForm(op)
         [] op = "verify" -> shown # 0 /\ code # 0 /\ ~undelivered /\ ~expired
         [] op = "resend" -> shown # 0 /\ ~expired /\ ~cooling
         [] op = "cancel" -> shown # 0
         [] OTHER -> shown = 0

Send(op) ==
    /\ MaySend(op) /\ flying[op] < 2
    /\ busy' = (busy \/ SetsBusy(op))
    /\ flying' = [flying EXCEPT ![op] = @ + 1]
    /\ password' = IF op \in {"login", "register"} THEN "sent" ELSE password
    /\ tabWanted' = purpose
    /\ UNCHANGED <<serverVars, addressVars, entryVars, shown, purpose, undelivered, panel, tab,
                   timers, expired, cooling, code, history>>

\* The links to a form cancel the challenge first.
AccessTab(t) ==
    /\ MaySend("cancel") /\ flying["cancel"] < 2 /\ tabWanted' = t
    /\ busy' = (busy \/ SetsBusy("cancel")) /\ flying' = [flying EXCEPT !["cancel"] = @ + 1]
    /\ UNCHANGED <<serverVars, addressVars, entryVars, shown, purpose, undelivered, panel, tab,
                   timers, expired, cooling, password, code, history>>

\* The browser leaves for the identity provider with the page busy.
GoInstitutional ==
    /\ OnLogin /\ ~busy
    /\ busy' = TRUE
    /\ leaving' = "index" /\ hash' = Dashboard
    /\ srvSession' = TRUE /\ asked' = ""
    /\ UNCHANGED <<challengeVars, place, saved, entryVars, flying, formVars, lost>>

(***************************************************************************)
(* The challenge on the server.                                            *)
(***************************************************************************)
\* A new code, under a version of its own; it is usable once it was sent.
Renewed(mailed) ==
    /\ versions < MaxVersions
    /\ versions' = versions + 1 /\ srvChallenge' = versions + 1 /\ srvMailed' = mailed
    /\ UNCHANGED srvSession

\* What an operation does when it succeeds.
Effect(op) ==
    CASE op \in {"login", "register"} ->
           Renewed(TRUE) /\ srvPurpose' = op /\ UNCHANGED lateResend
      [] op = "resend" ->
           srvChallenge # 0 /\ Renewed(TRUE) /\ UNCHANGED <<srvPurpose, lateResend>>
      [] op = "verify" ->
           /\ srvChallenge # 0 /\ srvMailed /\ code = srvChallenge
           /\ srvSession' = TRUE /\ srvChallenge' = 0
           /\ UNCHANGED <<srvPurpose, srvMailed, versions, lateResend>>
      [] op = "cancel" ->
           srvChallenge' = 0 /\ UNCHANGED <<srvSession, srvPurpose, srvMailed, versions, lateResend>>
      [] OTHER -> srvSession' = TRUE /\ UNCHANGED challengeVars

\* A refused code may have been the last one allowed.  A login may remove the
\* challenge of its address before its own fails, or before the browser loses
\* the new token.  A resend renews the code before it is sent, and may be
\* under way still when the page gives up.
Refused(op) ==
    \/ UNCHANGED serverVars
    \/ /\ op \in {"verify", "login", "register"} /\ srvChallenge' = 0
       /\ UNCHANGED <<srvSession, srvPurpose, srvMailed, versions, lateResend>>
    \/ /\ op = "resend"
       /\ \/ srvChallenge # 0 /\ Renewed(FALSE) /\ UNCHANGED <<srvPurpose, lateResend>>
          \/ lateResend' = TRUE /\ UNCHANGED <<srvSession, srvPurpose, srvChallenge, srvMailed, versions>>

\* The challenge expires, or another browser begins one for its address.
ChallengeEnds ==
    /\ srvChallenge # 0 /\ srvChallenge' = 0
    /\ UNCHANGED <<srvSession, srvPurpose, srvMailed, versions, lateResend, addressVars, entryVars,
                   busy, flying, formVars, history>>

\* The resend the page gave up on, whether its message is sent or not.
ResendsLate ==
    /\ lateResend /\ lateResend' = FALSE
    /\ srvChallenge # 0 /\ \E mailed \in BOOLEAN : Renewed(mailed)
    /\ lost' = TRUE
    /\ UNCHANGED <<srvPurpose, addressVars, entryVars, busy, flying, formVars, asked>>

FreesOnError(op) == FALSE

PasswordAfter == "empty"

\* A good answer.
Answered(op) ==
    /\ flying[op] > 0 /\ Effect(op)
    /\ flying' = [flying EXCEPT ![op] = @ - 1]
    /\ CASE op \in {"login", "register", "resend"} ->
              /\ ShowVerification(srvChallenge', srvPurpose', srvMailed')
              /\ password' = IF op = "resend" THEN password ELSE PasswordAfter
              /\ busy' = FALSE /\ lost' = FALSE
              /\ UNCHANGED addressVars
         [] op = "cancel" ->
              /\ ForgetVerification(tabWanted)
              /\ busy' = FALSE /\ lost' = FALSE
              /\ UNCHANGED <<addressVars, password>>
         [] op = "verify" ->
              /\ EnterWorkspace
              /\ timers' = 0 /\ code' = 0 /\ busy' = FALSE
              /\ UNCHANGED <<shown, panelVars, expired, cooling, password, lost>>
         [] OTHER ->
              /\ EnterWorkspace
              /\ UNCHANGED <<formVars, busy, lost>>
    /\ UNCHANGED <<entryVars, asked>>

\* A refusal, an answer that is lost, or none within 15 seconds: the page
\* cannot tell whether the operation was carried out.
Failed(op) ==
    /\ flying[op] > 0
    /\ Refused(op) \/ Effect(op)
    /\ lost' = (lost \/ srvChallenge' \notin {0, srvChallenge})
    /\ flying' = [flying EXCEPT ![op] = @ - 1]
    /\ busy' = FreesOnError(op)
    /\ UNCHANGED <<addressVars, entryVars, formVars, asked>>

AuthNext ==
    \/ Unload \/ Reload \/ Tick
    \/ \E section \in Sections : OpenSection(section)
    \/ RetryCheck \/ CheckFails \/ StatusArrives \/ CatalogArrives \/ ScriptsRun \/ SessionEnds
    \/ \E t \in {"login", "register"} : SwitchAuthTab(t) \/ AccessTab(t)
    \/ TypePassword \/ TypeCode \/ GoInstitutional \/ ChallengeEnds \/ ResendsLate
    \/ \E op \in Ops : Send(op) \/ Answered(op) \/ Failed(op)

\* request() gives up after 15 seconds, and a navigation that began is made.
AuthFairness ==
    /\ \A op \in Ops : WF_authVars(Failed(op))
    /\ WF_authVars(Unload)

(***************************************************************************)
(* Properties.                                                             *)
(***************************************************************************)
\* No two account requests are on their way together, so none is answered with
\* the form of another: not after a double click, and not with the tab buttons
\* that cancel the challenge on their way.
OneAccountRequest ==
    \A o, p \in Ops : flying[o] > 0 /\ flying[p] > 0 => o = p /\ flying[o] = 1

\* While the server holds a challenge the page asks for its code, for its
\* purpose: over refused codes, mails that fail and requests that time out.
\* Only a renewed version the page was not told of can differ, until another
\* try, a cancel or a reload.  The page may go on asking for a challenge that
\* ended: every code is refused until the user cancels.
AsksForHeldChallenge ==
    place = "login" /\ caps /\ leaving = "" /\ checking = "none" /\ ~lost /\ srvChallenge # 0
        => shown = srvChallenge /\ purpose = srvPurpose

\* One interval runs while a challenge is shown and none otherwise: a resend
\* does not add another.
TimerFollowsChallenge == leaving = "" => timers = (IF shown # 0 THEN 1 ELSE 0)

\* A password that was sent is not in its field once the challenge is shown,
\* and a code that was typed for one message is never left for the next.
SecretsDoNotLinger ==
    /\ shown # 0 => password # "sent"
    /\ code # 0 => shown # 0 /\ code >= shown

\* The panel that is seen is that of the challenge, or of the selected tab: no
\* form is seen beside a challenge, whatever tabs and links were pressed meanwhile.
OnePanelIsSeen == place = "login" /\ leaving = "" => panel = PanelOf(shown, tab)

\* The application is started once in a page, however often the entry is retried.
AppStartsOnce == apps <= 1

\* Whoever is sent to the login from a section comes back to that section,
\* over the reloads and failures in between, unless the sign-in was institutional.
LandsWhereAsked ==
    [][place = "login" /\ place' = "index" /\ asked # "" => hash' = asked]_authVars

\* The page and the server are at the same challenge, with one request, one
\* timer, one panel and one application at most, and nothing secret left over.
AuthSafety ==
    /\ OneAccountRequest /\ AsksForHeldChallenge /\ TimerFollowsChallenge
    /\ SecretsDoNotLinger /\ OnePanelIsSeen /\ AppStartsOnce
=============================================================================
