------------------------------- MODULE Access -------------------------------
(***************************************************************************)
(* security/sessions.py, security/rate_limit.py and the sign-in through    *)
(* OIDC of auth_routes.py: the sessions of one browser of one user in one  *)
(* API process, with a Redis that comes and goes.  Tokens and their        *)
(* signatures are library work: the exchange of a code succeeds or fails.  *)
(***************************************************************************)
EXTENDS Naturals, FiniteSets

CONSTANTS
    Limit,         \* attempts that a window of the rate limiter allows
    Span,          \* seconds of a window
    MaxSecond,     \* bound: seconds of the rate limiter's clock
    MaxIds,        \* bound: sessions and OIDC states made
    MaxUnderWay    \* bound: requests under way at once

ASSUME AccessAssumption ==
    /\ Limit \in Nat \ {0} /\ Span \in Nat \ {0} /\ MaxSecond \in Nat \ {0}
    /\ MaxIds \in Nat /\ MaxUnderWay \in Nat

VARIABLES
    deployed,      \* environment of the process: none, development, production
    redis,         \* whether Redis answers
    stored,        \* sessions in Redis
    memory,        \* sessions in the memory of the process
    enabled,       \* the user, the membership and the tenant are active
    cookie,        \* the session the browser holds (0: none)
    states,        \* OIDC states the process keeps
    browserState,  \* the state the browser's cookie holds (0: none)
    calls,         \* requests under way, with the cookie they came with
    made,          \* ids handed out so far
    given,          \* history: sessions that an answer gave to the browser
    ended,         \* history: sessions whose end was answered with success
    signedIn,      \* history: sign-ins of each state
    disturbed,     \* history: calls overlapped, or an answer was lost
    deaf,          \* history: a session was ended while Redis did not answer
    second,        \* the clock of the rate limiter
    hits,          \* attempts counted in Redis, by window
    fallback,      \* the count of the process and the second it lasts to
    granted        \* history: attempts allowed, by window

sessionVars == <<stored, memory, enabled, cookie, states, browserState, calls, made>>
accessHistory == <<given, ended, signedIn, disturbed, deaf>>
rateVars == <<second, hits, fallback, granted>>
accessVars == <<deployed, redis, sessionVars, accessHistory, rateVars>>

AccessInit ==
    /\ deployed = "none" /\ redis = TRUE /\ enabled = TRUE
    /\ stored = {} /\ memory = {} /\ cookie = 0
    /\ states = {} /\ browserState = 0 /\ calls = {} /\ made = 0
    /\ given = {} /\ ended = {} /\ signedIn = [s \in 1..MaxIds |-> 0]
    /\ disturbed = FALSE /\ deaf = FALSE
    /\ second = 1 /\ hits = [w \in 0..(MaxSecond \div Span) |-> 0]
    /\ fallback = [count |-> 0, reset |-> 0]
    /\ granted = hits

Development == deployed = "development"
Live == stored \union memory

\* SessionStore.get: where a session is looked up depends on Redis alone, and
\* the identity is read again on each request.
Authenticated(id) ==
    /\ id # 0 /\ enabled
    /\ IF redis THEN id \in stored ELSE Development /\ id \in memory

Enter(c) ==
    /\ deployed # "none" /\ Cardinality(calls) < MaxUnderWay
    /\ calls' = calls \union {c}
    /\ disturbed' = (disturbed \/ calls # {})
LeaveCall(c) == calls' = calls \ {c}
Step(c, d) == calls' = (calls \ {c}) \union {d}

(***************************************************************************)
(* Sign-in through OIDC.                                                   *)
(***************************************************************************)
OidcLogin ==
    /\ deployed # "none" /\ made < MaxIds
    /\ made' = made + 1 /\ states' = states \union {made + 1} /\ browserState' = made + 1
    /\ UNCHANGED <<deployed, redis, stored, memory, enabled, cookie, calls, accessHistory>>

\* The browser comes back with its state, which the process forgets.
OidcCallback(s) ==
    /\ s = browserState /\ s \in states
    /\ states' = states \ {s}
    /\ Enter([kind |-> "signIn", at |-> "exchange", old |-> cookie, state |-> s, new |-> 0])
    /\ UNCHANGED <<deployed, redis, stored, memory, enabled, cookie, browserState, made,
                   given, ended, signedIn, deaf>>

\* exchange_code and the look-up of the provisioned user.
Exchange(c) ==
    /\ c.at = "exchange" /\ enabled
    /\ Step(c, [c EXCEPT !.at = "create"])
    /\ signedIn' = [signedIn EXCEPT ![c.state] = @ + 1]
    /\ UNCHANGED <<deployed, redis, stored, memory, enabled, cookie, states, browserState, made,
                   given, ended, disturbed, deaf>>

(***************************************************************************)
(* POST /auth/session renews the session; start_session creates one, ends  *)
(* the one the browser came with, and undoes the first if that fails.      *)
(***************************************************************************)
Renew ==
    /\ Authenticated(cookie)
    /\ Enter([kind |-> "renew", at |-> "create", old |-> cookie, state |-> 0, new |-> 0])
    /\ UNCHANGED <<deployed, redis, stored, memory, enabled, cookie, states, browserState, made,
                   given, ended, signedIn, deaf>>

Create(c) ==
    /\ c.at = "create" /\ made < MaxIds /\ (redis \/ Development)
    /\ made' = made + 1
    /\ IF redis THEN stored' = stored \union {made + 1} /\ UNCHANGED memory
       ELSE memory' = memory \union {made + 1} /\ UNCHANGED stored
    /\ Step(c, [c EXCEPT !.at = "end", !.new = made + 1])
    /\ UNCHANGED <<deployed, redis, enabled, cookie, states, browserState, accessHistory>>

(* Mutant: production does not report that Redis is away. *)
SilentDeleteSession(id) ==
    /\ stored' = IF redis THEN stored \ {id} ELSE stored
    /\ memory' = memory \ {id}

\* SessionStore.delete: without Redis only development forgets its own copy.
DeleteSession(id) ==
    /\ redis \/ Development
    /\ stored' = IF redis THEN stored \ {id} ELSE stored
    /\ memory' = memory \ {id}

EndOld(c) ==
    /\ c.at = "end"
    /\ IF c.old = 0 THEN UNCHANGED <<stored, memory, deaf>>
       ELSE DeleteSession(c.old) /\ deaf' = (deaf \/ ~redis)
    /\ Step(c, [c EXCEPT !.at = "answer"])
    /\ UNCHANGED <<deployed, redis, enabled, cookie, states, browserState, made,
                   given, ended, signedIn, disturbed>>

\* The store fails under a call: 503, after an attempt to undo the new session.
FailEnd(c) ==
    /\ c.at = "end" /\ c.old # 0 /\ (redis \/ ~Development)
    /\ \E gone \in SUBSET {c.old, c.new} :
          /\ stored' = IF redis THEN stored \ gone ELSE stored
          /\ memory' = memory \ (gone \ {c.old})
    /\ LeaveCall(c)
    /\ UNCHANGED <<deployed, redis, enabled, cookie, states, browserState, made, accessHistory>>

\* Redis keeps the session, and the process does not hear of it.
CreateUnheard(c) ==
    /\ c.at = "create" /\ made < MaxIds /\ redis
    /\ made' = made + 1 /\ stored' = stored \union {made + 1} /\ LeaveCall(c)
    /\ UNCHANGED <<deployed, redis, memory, enabled, cookie, states, browserState, accessHistory>>

Refuse(c) ==
    /\ c.at \in {"exchange", "create"} /\ LeaveCall(c)
    /\ UNCHANGED <<deployed, redis, stored, memory, enabled, cookie, states, browserState, made,
                   accessHistory>>

Logout ==
    /\ cookie # 0
    /\ Enter([kind |-> "logout", at |-> "end", old |-> cookie, state |-> 0, new |-> 0])
    /\ UNCHANGED <<deployed, redis, stored, memory, enabled, cookie, states, browserState, made,
                   given, ended, signedIn, deaf>>

\* The answer sets the cookie, or takes it away after a logout.
AnswerCall(c) ==
    /\ c.at = "answer" /\ LeaveCall(c)
    /\ cookie' = c.new
    /\ browserState' = IF c.kind = "signIn" THEN 0 ELSE browserState
    /\ given' = given \union ({c.new} \ {0}) /\ ended' = ended \union ({c.old} \ {0})
    /\ UNCHANGED <<deployed, redis, stored, memory, enabled, states, made, signedIn, disturbed, deaf>>

LoseAnswer(c) ==
    /\ c.at = "answer" /\ LeaveCall(c) /\ disturbed' = TRUE
    /\ UNCHANGED <<deployed, redis, stored, memory, enabled, cookie, states, browserState, made,
                   given, ended, signedIn, deaf>>

(***************************************************************************)
(* The environment.                                                        *)
(***************************************************************************)
\* A process starts with an empty memory; what it was doing is lost.
StartProcess(environment) ==
    /\ deployed \in {"none", environment} /\ deployed' = environment
    /\ memory' = {} /\ states' = {} /\ calls' = {}
    /\ disturbed' = (disturbed \/ calls # {})
    /\ UNCHANGED <<redis, stored, enabled, cookie, browserState, made, given, ended, signedIn, deaf>>

RedisChanges ==
    /\ redis' = ~redis /\ UNCHANGED <<deployed, sessionVars, accessHistory>>

\* An administrator suspends the user, or lifts the suspension.
SuspendOrLift ==
    /\ enabled' = ~enabled
    /\ UNCHANGED <<deployed, redis, stored, memory, cookie, states, browserState, calls, made, accessHistory>>

ExpireSession(id) ==
    /\ id \in Live /\ stored' = stored \ {id} /\ memory' = memory \ {id}
    /\ UNCHANGED <<deployed, redis, enabled, cookie, states, browserState, calls, made, accessHistory>>

SessionNext ==
    /\ UNCHANGED rateVars
    /\ \/ OidcLogin \/ Renew \/ Logout \/ RedisChanges \/ SuspendOrLift
       \/ \E s \in 1..MaxIds : OidcCallback(s)
       \/ \E c \in calls : \/ Exchange(c) \/ Create(c) \/ EndOld(c) \/ FailEnd(c) \/ CreateUnheard(c) \/ Refuse(c)
                           \/ AnswerCall(c) \/ LoseAnswer(c)
       \/ \E environment \in {"development", "production"} : StartProcess(environment)
       \/ \E id \in Live : ExpireSession(id)

(***************************************************************************)
(* The rate limiter counts in Redis by window; development falls back on   *)
(* a count of the process, production refuses.                             *)
(***************************************************************************)
Window(t) == t \div Span

Grant(count) ==
    granted' = [granted EXCEPT ![Window(second)] = IF count <= Limit THEN @ + 1 ELSE @]

\* Counts above the limit are not told apart.
More(count) == IF count <= Limit THEN count + 1 ELSE count

FallBack ==
    \/ deployed = "production" /\ UNCHANGED <<fallback, granted>>
    \/ /\ Development /\ second > fallback.reset
       /\ fallback' = [count |-> 1, reset |-> second + Span] /\ Grant(0)
    \/ /\ Development /\ second <= fallback.reset
       /\ fallback' = [fallback EXCEPT !.count = More(@)] /\ Grant(fallback'.count)

\* Redis may fail after it counted the attempt: EXPIRE is a call of its own.
Attempt ==
    /\ deployed # "none"
    /\ \/ /\ redis /\ hits' = [hits EXCEPT ![Window(second)] = More(@)]
          /\ \/ Grant(hits'[Window(second)]) /\ UNCHANGED fallback
             \/ hits'[Window(second)] = 1 /\ FallBack
       \/ ~redis /\ FallBack /\ UNCHANGED hits
    /\ UNCHANGED <<deployed, redis, sessionVars, accessHistory, second>>

NextSecond ==
    /\ second < MaxSecond /\ second' = second + 1
    /\ UNCHANGED <<deployed, redis, sessionVars, accessHistory, hits, fallback, granted>>

RateNext ==
    \/ Attempt \/ NextSecond
    \/ UNCHANGED rateVars /\ RedisChanges
    \/ /\ UNCHANGED rateVars /\ deployed = "none"
       /\ \E environment \in {"development", "production"} : StartProcess(environment)

AccessSpec == AccessInit /\ [][SessionNext \/ RateNext]_accessVars

(***************************************************************************)
(* Properties.                                                             *)
(***************************************************************************)

\* A session whose end was answered with success opens nothing again, in
\* development only if Redis answered when it was ended.
EndedIsDead == ~(Development /\ deaf) => ended \intersect Live = {}

\* The browser holds the only live session that it was ever given, unless its
\* requests overlapped or an answer was lost: a renewed session replaces the
\* one before, and nothing is left after a logout.
OneLiveSession ==
    ~disturbed /\ calls = {} /\ ~(Development /\ deaf) => given \intersect Live \subseteq {cookie}

\* A state of the OIDC sign-in serves one sign-in.
StateServesOnce == \A s \in DOMAIN signedIn : signedIn[s] <= 1

\* A window never allows more than the limit in production, however Redis
\* comes and goes, and three times as much in development: once by Redis and
\* twice by the windows of one process, which start when they like.
LimitHolds ==
    \A w \in DOMAIN hits : granted[w] <= IF Development THEN 3 * Limit ELSE Limit

\* Sessions, states and limits hold under outages and overlapping requests.
AccessSafety == EndedIsDead /\ OneLiveSession /\ StateServesOnce /\ LimitHolds
=============================================================================
