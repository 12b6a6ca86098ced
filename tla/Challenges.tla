----------------------------- MODULE Challenges -----------------------------
(***************************************************************************)
(* E-mail verification: app/security/challenges.py and the handlers of     *)
(* app/api/v1/auth_routes.py that use it (login, register, verify, resend, *)
(* cancel, status).                                                        *)
(*                                                                         *)
(* A request is a sequence of database statements with the mail server and *)
(* other requests in between.  Reads see the committed row; a conditional  *)
(* UPDATE waits for the row's lock and then decides on the current row.    *)
(* Every expiry test in a WHERE clause compares with a time taken when the *)
(* row was read, so at equal version it repeats the reader's answer: only  *)
(* MarkSent, which takes the time anew, looks at the clock again.          *)
(***************************************************************************)
EXTENDS Naturals, FiniteSets

CONSTANTS
    Emails,
    Challenges,    \* ids, each used by one insertion
    EmailOf,       \* the address that a challenge is for
    Requests,      \* concurrent requests
    MaxAttempts,   \* auth_otp_max_attempts
    MaxVersion,    \* bound: codes sent for one challenge
    Nobody, NoChallenge

ASSUME EmailsAssumption == EmailOf \in [Challenges -> Emails]
ASSUME BoundsAssumption == MaxAttempts \in Nat \ {0} /\ MaxVersion \in Nat \ {0}
ASSUME NamesAssumption == Nobody \notin Requests /\ NoChallenge \notin Challenges

VARIABLES
    row,       \* authentication_challenges by id
    lock,      \* the request whose open transaction wrote the row
    cookie,    \* the challenges whose token some browser holds
    account,   \* users by address
    pc, at, prev, ver, right, hash,  \* a request: next step, challenge, what it read
    granted,   \* history: sessions handed out for a challenge
    guesses    \* history: codes judged for a challenge, over all versions

local   == <<pc, at, prev, ver, right, hash>>
history == <<granted, guesses>>
vars    == <<row, lock, cookie, account, local, history>>

Rows == [state : {"unborn", "live", "gone"}, purpose : {"login", "register"},
         version : 1..MaxVersion, attempts : 0..MaxAttempts,
         consumed : BOOLEAN, expired : BOOLEAN, cooling : BOOLEAN,
         secret : BOOLEAN, delivery : {"pending", "sent", "failed"}]

NewRow(p) == [state |-> "live", purpose |-> p, version |-> 1, attempts |-> 0,
              consumed |-> FALSE, expired |-> FALSE, cooling |-> TRUE,
              secret |-> TRUE, delivery |-> "pending"]

Steps == {"idle", "login", "register", "mail", "mailed", "refused", "wipe",
          "resend", "claim", "identity", "session", "commit"}

TypeOK ==
    /\ row \in [Challenges -> Rows]
    /\ lock \in [Challenges -> Requests \cup {Nobody}]
    /\ cookie \subseteq Challenges
    /\ account \in [Emails -> {"none", "active", "suspended", "passwordless"}]
    /\ pc \in [Requests -> Steps]
    /\ at \in [Requests -> Challenges \cup {NoChallenge}]
    /\ prev \in [Requests -> Challenges \cup {NoChallenge}]
    /\ ver \in [Requests -> 1..MaxVersion]
    /\ right \in [Requests -> BOOLEAN]
    /\ hash \in [Requests -> BOOLEAN]
    /\ granted \in [Challenges -> Nat]
    /\ guesses \in [Challenges -> Nat]

Init ==
    /\ row = [k \in Challenges |-> [NewRow("login") EXCEPT !.state = "unborn"]]
    /\ lock = [k \in Challenges |-> Nobody]
    /\ cookie = {}
    /\ account \in [Emails -> {"none", "active"}]
    /\ pc = [r \in Requests |-> "idle"]
    /\ at = [r \in Requests |-> NoChallenge]
    /\ prev = [r \in Requests |-> NoChallenge]
    /\ ver = [r \in Requests |-> 1]
    /\ right = [r \in Requests |-> FALSE]
    /\ hash = [r \in Requests |-> FALSE]
    /\ granted = [k \in Challenges |-> 0]
    /\ guesses = [k \in Challenges |-> 0]

Live(k) == row[k].state = "live"

(* _active *)
Active(k) ==
    /\ Live(k) /\ ~row[k].consumed /\ ~row[k].expired
    /\ row[k].attempts < MaxAttempts

Unlocked(k) == lock[k] = Nobody

(* Mutant: the scope forgets that the challenge may be over. *)
InScopeWhenOver(r) == Live(at[r]) /\ row[at[r]].version = ver[r]

(* _scope with the version and the time that request r read. *)
InScope(r) ==
    LET k == at[r] IN
    /\ Live(k) /\ row[k].version = ver[r]
    /\ ~row[k].consumed /\ row[k].attempts < MaxAttempts

Goto(r, step) == pc' = [pc EXCEPT ![r] = step]

(* The request is answered, and what it read is forgotten. *)
Done(r) ==
    /\ Goto(r, "idle")
    /\ at' = [at EXCEPT ![r] = NoChallenge]
    /\ prev' = [prev EXCEPT ![r] = NoChallenge]
    /\ ver' = [ver EXCEPT ![r] = 1]
    /\ right' = [right EXCEPT ![r] = FALSE]
    /\ hash' = [hash EXCEPT ![r] = FALSE]

-----------------------------------------------------------------------------
(* login and register, up to the stored challenge. *)

Purpose(a) == IF a = "none" THEN "register" ELSE "login"

(* A registration needs an unknown address, a login a password that fits.  *)
(* An active challenge that is still cooling down is a 429.                *)
BeginRead(r, k) ==
    /\ pc[r] = "idle"
    /\ row[k].state = "unborn" /\ \A q \in Requests : at[q] # k
    /\ account[EmailOf[k]] \in {"none", "active"}
    /\ \E p \in Challenges \cup {NoChallenge} :
         /\ IF p = NoChallenge
              THEN ~\E x \in Challenges : Live(x) /\ EmailOf[x] = EmailOf[k]
              ELSE /\ Live(p) /\ EmailOf[p] = EmailOf[k]
                   /\ ~(Active(p) /\ row[p].cooling)
         /\ prev' = [prev EXCEPT ![r] = p]
         /\ ver' = [ver EXCEPT ![r] = IF p = NoChallenge THEN 1 ELSE row[p].version]
    /\ at' = [at EXCEPT ![r] = k]
    /\ Goto(r, Purpose(account[EmailOf[k]]))
    /\ UNCHANGED <<row, lock, cookie, account, right, hash, history>>

(* What the transaction deletes: the previous challenge and those, of any  *)
(* address, that had expired when the request took its time.               *)
Doomed(r, purged) == purged \cup (IF prev[r] = NoChallenge THEN {} ELSE {prev[r]})

Expired == {x \in Challenges : Live(x) /\ row[x].expired}

(* Mutant: the previous challenge is deleted whatever became of it. *)
PreviousUncheckedStands(r) == TRUE

(* The previous challenge is still the one that was read. *)
PreviousStands(r) ==
    prev[r] # NoChallenge => Live(prev[r]) /\ row[prev[r]].version = ver[r]

(* One transaction; the e-mail column is unique. *)
BeginWrite(r) ==
    LET k == at[r] IN
    /\ pc[r] \in {"login", "register"}
    /\ \E purged \in SUBSET Expired :
         /\ \A x \in Doomed(r, purged) : Unlocked(x)
         /\ IF \/ ~PreviousStands(r)
               \/ \E x \in Challenges \ Doomed(r, purged) :
                    Live(x) /\ EmailOf[x] = EmailOf[k]
              THEN Done(r) /\ UNCHANGED row
              ELSE /\ row' = [x \in Challenges |->
                                IF x = k THEN NewRow(pc[r])
                                ELSE IF x \in Doomed(r, purged)
                                  THEN [row[x] EXCEPT !.state = "gone"]
                                ELSE row[x]]
                   /\ Goto(r, "mail")
                   /\ ver' = [ver EXCEPT ![r] = 1]
                   /\ prev' = [prev EXCEPT ![r] = NoChallenge]
                   /\ UNCHANGED <<at, right, hash>>
    /\ UNCHANGED <<lock, cookie, account, history>>

-----------------------------------------------------------------------------
(* _deliver *)

Mail(r) ==
    /\ pc[r] = "mail"
    /\ \E step \in {"mailed", "refused"} : Goto(r, step)
    /\ UNCHANGED <<row, lock, cookie, account, at, prev, ver, right, hash, history>>

MarkSent(r) ==
    LET k == at[r] IN
    /\ pc[r] = "mailed"
    /\ Unlocked(k)
    /\ IF InScope(r) /\ ~row[k].expired /\ row[k].delivery = "pending"
         THEN /\ row' = [row EXCEPT ![k].delivery = "sent"]
              /\ cookie' = cookie \cup {k}
         ELSE UNCHANGED <<row, cookie>>
    /\ Done(r)
    /\ UNCHANGED <<lock, account, history>>

(* The first code leaves no challenge behind; a later one only its mark. *)
MarkRefused(r) ==
    LET k == at[r] IN
    /\ pc[r] = "refused"
    /\ Unlocked(k)
    /\ row' = IF ver[r] = 1 THEN [row EXCEPT ![k].state = "gone"]
              ELSE IF Live(k) /\ row[k].version = ver[r]
                THEN [row EXCEPT ![k].delivery = "failed"]
              ELSE row
    /\ Done(r)
    /\ UNCHANGED <<lock, cookie, account, history>>

-----------------------------------------------------------------------------
(* pending: any request that finds its challenge inactive wipes the hash.  *)

FindInactive(r, k) ==
    /\ pc[r] = "idle"
    /\ k \in cookie /\ Live(k) /\ ~Active(k)
    /\ Goto(r, "wipe")
    /\ at' = [at EXCEPT ![r] = k]
    /\ UNCHANGED <<row, lock, cookie, account, prev, ver, right, hash, history>>

Wipe(r) ==
    LET k == at[r] IN
    /\ pc[r] = "wipe"
    /\ Unlocked(k)
    /\ row' = IF Live(k) THEN [row EXCEPT ![k].secret = FALSE] ELSE row
    /\ Done(r)
    /\ UNCHANGED <<lock, cookie, account, history>>

-----------------------------------------------------------------------------
(* resend *)

ResendRead(r, k) ==
    /\ pc[r] = "idle"
    /\ k \in cookie /\ Active(k) /\ ~row[k].cooling
    /\ row[k].version < MaxVersion
    /\ Goto(r, "resend")
    /\ at' = [at EXCEPT ![r] = k]
    /\ ver' = [ver EXCEPT ![r] = row[k].version]
    /\ UNCHANGED <<row, lock, cookie, account, prev, right, hash, history>>

(* Mutant: a new code comes with new attempts. *)
RenewedWithAttempts(old) ==
    [old EXCEPT !.version = @ + 1, !.cooling = TRUE, !.expired = FALSE,
                !.delivery = "pending", !.attempts = 0]

Renewed(old) ==
    [old EXCEPT !.version = @ + 1, !.cooling = TRUE, !.expired = FALSE,
                !.delivery = "pending"]

ResendWrite(r) ==
    LET k == at[r] IN
    /\ pc[r] = "resend"
    /\ Unlocked(k)
    /\ IF InScope(r)
         THEN /\ row' = [row EXCEPT ![k] = Renewed(@)]
              /\ ver' = [ver EXCEPT ![r] = @ + 1]
              /\ Goto(r, "mail")
              /\ UNCHANGED <<at, prev, right, hash>>
         ELSE Done(r) /\ UNCHANGED row
    /\ UNCHANGED <<lock, cookie, account, history>>

-----------------------------------------------------------------------------
(* verify: claim, identity, session, commit. *)

(* The code entered is compared with the row as read. *)
ClaimRead(r, k) ==
    /\ pc[r] = "idle"
    /\ k \in cookie /\ Active(k) /\ row[k].delivery = "sent"
    /\ Goto(r, "claim")
    /\ at' = [at EXCEPT ![r] = k]
    /\ ver' = [ver EXCEPT ![r] = row[k].version]
    /\ hash' = [hash EXCEPT ![r] = row[k].secret]
    /\ \E match \in BOOLEAN : right' = [right EXCEPT ![r] = match]
    /\ UNCHANGED <<row, lock, cookie, account, prev, history>>

(* Mutant: the claim does not compare the version. *)
ClaimableAnyVersion(r) ==
    LET k == at[r] IN
    /\ Live(k) /\ ~row[k].consumed /\ row[k].attempts < MaxAttempts
    /\ row[k].delivery = "sent"

Claimable(r) == InScope(r) /\ row[at[r]].delivery = "sent"

(* A wrong code costs an attempt, and the last one closes the challenge. *)
Missed(old) ==
    LET last == old.attempts >= MaxAttempts - 1 IN
    [old EXCEPT !.attempts = @ + 1, !.consumed = last, !.secret = @ /\ ~last]

(* A right code keeps the transaction, and with it the row lock, open. *)
ClaimWrite(r) ==
    LET k == at[r] IN
    /\ pc[r] = "claim"
    /\ Unlocked(k)
    /\ IF Claimable(r) /\ right[r]
         THEN /\ lock' = [lock EXCEPT ![k] = r]
              /\ Goto(r, "identity")
              /\ UNCHANGED <<row, guesses, at, prev, ver, right, hash>>
         ELSE /\ Done(r)
              /\ UNCHANGED lock
              /\ IF Claimable(r)
                   THEN /\ row' = [row EXCEPT ![k] = Missed(@)]
                        /\ guesses' = [guesses EXCEPT ![k] = @ + 1]
                   ELSE UNCHANGED <<row, guesses>>
    /\ UNCHANGED <<cookie, account, granted>>

(* session.rollback: the row is as it was, and the code can be tried again. *)
Rollback(r) ==
    /\ lock' = [lock EXCEPT ![at[r]] = Nobody]
    /\ Done(r)

(* Registration inserts a user with a unique address; login checks the     *)
(* account, and the password it was begun with, once more.                 *)
IdentityStands(r) ==
    LET a == account[EmailOf[at[r]]] IN
    IF row[at[r]].purpose = "register" THEN a = "none" ELSE a = "active" /\ hash[r]

Identity(r) ==
    /\ pc[r] = "identity"
    /\ IF IdentityStands(r)
         THEN Goto(r, "session") /\ UNCHANGED <<lock, at, prev, ver, right, hash>>
         ELSE Rollback(r)
    /\ UNCHANGED <<row, cookie, account, history>>

(* start_session writes to the session store, not to this database. *)
StartSession(r) ==
    /\ pc[r] = "session"
    /\ \/ Goto(r, "commit") /\ UNCHANGED <<lock, at, prev, ver, right, hash>>
       \/ Rollback(r)
    /\ UNCHANGED <<row, cookie, account, history>>

Used(old) == [old EXCEPT !.attempts = @ + 1, !.consumed = TRUE, !.secret = FALSE]

(* The commit may be lost, or its confirmation only; without confirmation  *)
(* the session is deleted and the browser gets an error.                   *)
Commit(r) ==
    LET k == at[r]
        e == EmailOf[k] IN
    /\ pc[r] = "commit"
    /\ \E kept, confirmed \in BOOLEAN :
         /\ confirmed => kept
         /\ IF kept
              THEN /\ row' = [row EXCEPT ![k] = Used(@)]
                   /\ guesses' = [guesses EXCEPT ![k] = @ + 1]
                   /\ account' = [account EXCEPT ![e] =
                                    IF row[k].purpose = "login" THEN @
                                    ELSE IF hash[r] THEN "active"
                                    ELSE "passwordless"]
              ELSE UNCHANGED <<row, guesses, account>>
         /\ granted' = [granted EXCEPT ![k] = IF confirmed THEN @ + 1 ELSE @]
    /\ lock' = [lock EXCEPT ![k] = Nobody]
    /\ Done(r)
    /\ UNCHANGED cookie

-----------------------------------------------------------------------------
(* cancel, the clock, the administrator and the process. *)

(* The token alone decides: the row is consumed in whatever state it is. *)
Cancel(k) ==
    /\ k \in cookie /\ Live(k) /\ Unlocked(k)
    /\ row' = [row EXCEPT ![k].consumed = TRUE, ![k].secret = FALSE]
    /\ UNCHANGED <<lock, cookie, account, local, history>>

Expire(k) ==
    /\ Live(k) /\ ~row[k].expired
    /\ row' = [row EXCEPT ![k].expired = TRUE, ![k].cooling = FALSE]
    /\ UNCHANGED <<lock, cookie, account, local, history>>

CoolDown(k) ==
    /\ Live(k) /\ row[k].cooling
    /\ row' = [row EXCEPT ![k].cooling = FALSE]
    /\ UNCHANGED <<lock, cookie, account, local, history>>

SetAccount(e) ==
    /\ account[e] \in {"active", "suspended"}
    /\ \E a \in {"active", "suspended"} \ {account[e]} :
         account' = [account EXCEPT ![e] = a]
    /\ UNCHANGED <<row, lock, cookie, local, history>>

(* The process dies or the connection drops: an open transaction is undone. *)
Abort(r) ==
    /\ pc[r] # "idle"
    /\ lock' = [k \in Challenges |-> IF lock[k] = r THEN Nobody ELSE lock[k]]
    /\ Done(r)
    /\ UNCHANGED <<row, cookie, account, history>>

-----------------------------------------------------------------------------

Request(r) ==
    \/ \E k \in Challenges : \/ BeginRead(r, k) \/ FindInactive(r, k)
                             \/ ResendRead(r, k) \/ ClaimRead(r, k)
    \/ BeginWrite(r) \/ Mail(r) \/ MarkSent(r) \/ MarkRefused(r) \/ Wipe(r)
    \/ ResendWrite(r) \/ ClaimWrite(r) \/ Identity(r) \/ StartSession(r)
    \/ Commit(r) \/ Abort(r)

Next ==
    \/ \E r \in Requests : Request(r)
    \/ \E k \in Challenges : Cancel(k) \/ Expire(k) \/ CoolDown(k)
    \/ \E e \in Emails : SetAccount(e)

Spec == Init /\ [][Next]_vars
-----------------------------------------------------------------------------
(* Properties. *)

(* A challenge hands out at most one session, however many requests race   *)
(* with the same code, and also when a commit's confirmation is lost:      *)
(* "so pode ser usado uma vez" (back-end/README.md:166).                   *)
SingleUse == \A k \in Challenges : granted[k] <= 1

(* The attempts a challenge allows are not renewed with its code: over all *)
(* the versions sent, at most MaxAttempts codes are ever judged.           *)
GuessesBounded == \A k \in Challenges : guesses[k] <= MaxAttempts

(* A row that is over keeps no credential of the login or registration. *)
ConsumedIsWiped ==
    \A k \in Challenges : Live(k) /\ row[k].consumed => ~row[k].secret

(* While a request turns a right code into an identity and a session, the  *)
(* code it judged is still the last one sent and nobody else can use it.   *)
VerifyingHoldsCode ==
    \A r \in Requests : pc[r] \in {"identity", "session", "commit"} =>
        LET k == at[r] IN
        /\ k \in Challenges /\ lock[k] = r /\ right[r]
        /\ InScope(r) /\ row[k].delivery = "sent"

(* A challenge serves for one session, given for the last code sent.       *)
OneUseOfLastCode == SingleUse /\ VerifyingHoldsCode

(* A challenge leaves nothing over: no guess beyond those of its first     *)
(* version, and no secret once it is done.                                 *)
LeftoversBounded == GuessesBounded /\ ConsumedIsWiped

(* A challenge that was used, exhausted, canceled or deleted never gets    *)
(* another code or another attempt.                                        *)
OverIsOver ==
    [][\A k \in Challenges :
         /\ row[k].state = "gone" => row'[k].state = "gone"
         /\ Live(k) /\ row[k].consumed =>
              /\ row'[k].consumed /\ row'[k].state # "unborn"
              /\ row'[k].version = row[k].version
              /\ row'[k].attempts = row[k].attempts]_vars

(* No login or registration replaces a challenge whose code was just sent  *)
(* again; only a first code that could not be mailed goes at once.         *)
CoolingStands ==
    [][\A k \in Challenges :
         Active(k) /\ row[k].cooling /\ row'[k].state = "gone" =>
             row[k].version = 1 /\ row[k].delivery = "pending"]_vars

(* Whoever registered can log in with the password chosen there.           *)
RegisteredHasPassword == \A e \in Emails : account[e] # "passwordless"
-----------------------------------------------------------------------------
(* The inductive invariant behind the properties. *)

(* Where a request can be with a challenge.  Until its first code is sent  *)
(* no browser holds the token, so only the request that made it is there.  *)
Places == \A r \in Requests :
    /\ pc[r] = "idle" <=> at[r] = NoChallenge
    /\ pc[r] # "idle" => (pc[r] \in {"login", "register"} <=> row[at[r]].state = "unborn")
    /\ pc[r] \in {"wipe", "resend", "claim", "identity", "session", "commit"} =>
         at[r] \in cookie
    /\ pc[r] \in {"mail", "mailed", "refused"} => (ver[r] = 1 <=> at[r] \notin cookie)
    /\ pc[r] = "resend" => ver[r] < MaxVersion
    /\ \A q \in Requests : q # r /\ at[q] = at[r] /\ pc[r] # "idle" => at[r] \in cookie

RowInv == \A k \in Challenges :
    /\ k \in cookie => row[k].state # "unborn"
    /\ k \notin cookie => row[k].version = 1 /\ row[k].delivery = "pending"
    /\ row[k].state = "unborn" => guesses[k] = 0 /\ granted[k] = 0
    /\ guesses[k] = row[k].attempts
    /\ granted[k] \in {0, 1} /\ (granted[k] = 1 => row[k].consumed)
    /\ row[k].consumed => ~row[k].secret

(* What a login or registration decided to replace is not a challenge that *)
(* has meanwhile got another code, or it no longer matches.                *)
Replaceable == \A r \in Requests :
    LET p == prev[r] IN
    pc[r] \in {"login", "register"} /\ p # NoChallenge =>
        /\ row[p].state # "unborn" /\ ver[r] <= row[p].version
        /\ row[p].version = ver[r] => ~(Active(p) /\ row[p].cooling)

Inv == TypeOK /\ Places /\ RowInv /\ Replaceable /\ VerifyingHoldsCode
=============================================================================
