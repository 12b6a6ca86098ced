-------------------------- MODULE ChallengesProofs --------------------------
(* The invariants of e-mail verification for any set of addresses,           *)
(* challenges and concurrent requests.                                       *)
EXTENDS Challenges, TLAPS

(* Every write of a row leaves a row. *)
LEMMA RowWrites ==
  ASSUME NEW x \in Rows
  PROVE  /\ [x EXCEPT !.state = "gone"] \in Rows
         /\ [x EXCEPT !.delivery = "sent"] \in Rows
         /\ [x EXCEPT !.delivery = "failed"] \in Rows
         /\ [x EXCEPT !.secret = FALSE] \in Rows
         /\ [x EXCEPT !.consumed = TRUE, !.secret = FALSE] \in Rows
         /\ [x EXCEPT !.expired = TRUE, !.cooling = FALSE] \in Rows
         /\ [x EXCEPT !.cooling = FALSE] \in Rows
         /\ x.version + 1 \in 1..MaxVersion => Renewed(x) \in Rows
         /\ x.attempts + 1 \in 0..MaxAttempts => Missed(x) \in Rows /\ Used(x) \in Rows
  <1>1. /\ [x EXCEPT !.state = "gone"] \in Rows
        /\ [x EXCEPT !.delivery = "sent"] \in Rows
        /\ [x EXCEPT !.delivery = "failed"] \in Rows
        /\ [x EXCEPT !.secret = FALSE] \in Rows
    BY Zenon DEF Rows
  <1>2. /\ [x EXCEPT !.consumed = TRUE, !.secret = FALSE] \in Rows
        /\ [x EXCEPT !.expired = TRUE, !.cooling = FALSE] \in Rows
        /\ [x EXCEPT !.cooling = FALSE] \in Rows
    BY Zenon DEF Rows
  <1>3. x.version + 1 \in 1..MaxVersion => Renewed(x) \in Rows
    BY Zenon DEF Rows, Renewed
  <1>4. ASSUME x.attempts + 1 \in 0..MaxAttempts
        PROVE  Missed(x) \in Rows /\ Used(x) \in Rows
    <2>1. Used(x) \in Rows
      BY <1>4, Zenon DEF Rows, Used
    <2>2. ASSUME NEW last \in BOOLEAN
          PROVE  [x EXCEPT !.attempts = @ + 1, !.consumed = last,
                           !.secret = @ /\ ~last] \in Rows
      BY <1>4, <2>2, Zenon DEF Rows
    <2>3. (x.attempts >= MaxAttempts - 1) \in BOOLEAN
      OBVIOUS
    <2>4. Missed(x) \in Rows
      BY <2>2, <2>3, Zenon DEF Missed
    <2>5. QED
      BY <2>1, <2>4
  <1>5. QED
    BY <1>1, <1>2, <1>3, <1>4

(* Writing one row leaves a table. *)
LEMMA TableWrites ==
  ASSUME NEW R \in [Challenges -> Rows], NEW k \in Challenges, NEW x \in Rows
  PROVE  [R EXCEPT ![k] = x] \in [Challenges -> Rows]
  BY Zenon

LEMMA InitInv == Init => Inv
  <1> SUFFICES ASSUME Init PROVE Inv
    OBVIOUS
  <1> USE EmailsAssumption, BoundsAssumption, NamesAssumption
  <1>1. row \in [Challenges -> Rows]
    <2>1. 1 \in 1..MaxVersion /\ 0 \in 0..MaxAttempts
      OBVIOUS
    <2>2. [NewRow("login") EXCEPT !.state = "unborn"] \in Rows
      BY <2>1, Zenon DEF NewRow, Rows
    <2>3. QED
      BY <2>2 DEF Init
  <1>2. TypeOK
    BY <1>1 DEF Init, TypeOK, Steps
  <1>3. \A k \in Challenges : row[k].state = "unborn" /\ row[k].version = 1
          /\ row[k].delivery = "pending" /\ row[k].attempts = 0 /\ ~row[k].consumed
    BY DEF Init, NewRow
  <1>4. Places /\ RowInv /\ Replaceable /\ VerifyingHoldsCode
    BY <1>3 DEF Init, Places, RowInv, Replaceable, VerifyingHoldsCode
  <1>5. QED
    BY <1>2, <1>4 DEF Inv

(* A request that is answered without a write keeps everything in place. *)
LEMMA GiveUp ==
  ASSUME Inv, NEW r \in Requests, Done(r), UNCHANGED <<row, cookie, account, history>>,
         \/ lock' = lock
         \/ /\ at[r] \in Challenges /\ lock[at[r]] = r
            /\ lock' = [lock EXCEPT ![at[r]] = Nobody]
  PROVE  Inv'
  <1> USE BoundsAssumption, NamesAssumption
  <1> USE DEF local, history, Live, Active, InScope, Unlocked, Done, Goto
  <1>a. lock' \in [Challenges -> Requests \cup {Nobody}]
    BY Zenon DEF Inv, TypeOK
  <1>1. TypeOK'
    BY <1>a DEF Inv, TypeOK, Steps
  <1>2. Places'
    BY DEF Inv, TypeOK, Rows, Places, RowInv
  <1>3. RowInv'
    BY DEF Inv, TypeOK, Rows, Places, RowInv
  <1>4. Replaceable'
    BY DEF Inv, TypeOK, Rows, Places, RowInv, Replaceable
  <1>5. VerifyingHoldsCode'
    BY DEF Inv, TypeOK, Rows, Places, RowInv, VerifyingHoldsCode
  <1>6. QED
    BY <1>1, <1>2, <1>3, <1>4, <1>5 DEF Inv

(* A cancelation touches a row that no request holds. *)
LEMMA CancelStep ==
  ASSUME Inv, NEW k \in Challenges, Cancel(k)
  PROVE  Inv'
  <1> USE BoundsAssumption, NamesAssumption
  <1> USE DEF local, history, Live, Active, InScope, Unlocked, Cancel
  <1>a. row' = [row EXCEPT ![k] = [row[k] EXCEPT !.consumed = TRUE, !.secret = FALSE]]
    BY Zenon DEF Inv, TypeOK
  <1>b. [row[k] EXCEPT !.consumed = TRUE, !.secret = FALSE] \in Rows
    BY RowWrites DEF Inv, TypeOK
  <1>c. row' \in [Challenges -> Rows]
    BY <1>a, <1>b, TableWrites DEF Inv, TypeOK
  <1>1. TypeOK'
    BY <1>c DEF Inv, TypeOK, Steps
  <1>2. Places'
    BY DEF Inv, TypeOK, Rows, Places, RowInv
  <1>3. RowInv'
    BY DEF Inv, TypeOK, Rows, Places, RowInv
  <1>4. Replaceable'
    BY DEF Inv, TypeOK, Rows, Places, RowInv, Replaceable
  <1>5. VerifyingHoldsCode'
    BY DEF Inv, TypeOK, Rows, Places, RowInv, VerifyingHoldsCode
  <1>6. QED
    BY <1>1, <1>2, <1>3, <1>4, <1>5 DEF Inv

(* The clock passes the end of a code. *)
LEMMA ExpireStep ==
  ASSUME Inv, NEW k \in Challenges, Expire(k)
  PROVE  Inv'
  <1> USE BoundsAssumption, NamesAssumption
  <1> USE DEF local, history, Live, Active, InScope, Unlocked, Expire
  <1>a. row' = [row EXCEPT ![k] = [row[k] EXCEPT !.expired = TRUE, !.cooling = FALSE]]
    BY Zenon DEF Inv, TypeOK
  <1>b. [row[k] EXCEPT !.expired = TRUE, !.cooling = FALSE] \in Rows
    BY RowWrites DEF Inv, TypeOK
  <1>c. row' \in [Challenges -> Rows]
    BY <1>a, <1>b, TableWrites DEF Inv, TypeOK
  <1>1. TypeOK'
    BY <1>c DEF Inv, TypeOK, Steps
  <1>2. Places'
    BY DEF Inv, TypeOK, Rows, Places, RowInv
  <1>3. RowInv'
    BY DEF Inv, TypeOK, Rows, Places, RowInv
  <1>4. Replaceable'
    BY DEF Inv, TypeOK, Rows, Places, RowInv, Replaceable
  <1>5. VerifyingHoldsCode'
    BY DEF Inv, TypeOK, Rows, Places, RowInv, VerifyingHoldsCode
  <1>6. QED
    BY <1>1, <1>2, <1>3, <1>4, <1>5 DEF Inv

(* The clock passes the end of a cooldown. *)
LEMMA CoolDownStep ==
  ASSUME Inv, NEW k \in Challenges, CoolDown(k)
  PROVE  Inv'
  <1> USE BoundsAssumption, NamesAssumption
  <1> USE DEF local, history, Live, Active, InScope, Unlocked, CoolDown
  <1>a. row' = [row EXCEPT ![k] = [row[k] EXCEPT !.cooling = FALSE]]
    BY Zenon DEF Inv, TypeOK
  <1>b. [row[k] EXCEPT !.cooling = FALSE] \in Rows
    BY RowWrites DEF Inv, TypeOK
  <1>c. row' \in [Challenges -> Rows]
    BY <1>a, <1>b, TableWrites DEF Inv, TypeOK
  <1>1. TypeOK'
    BY <1>c DEF Inv, TypeOK, Steps
  <1>2. Places'
    BY DEF Inv, TypeOK, Rows, Places, RowInv
  <1>3. RowInv'
    BY DEF Inv, TypeOK, Rows, Places, RowInv
  <1>4. Replaceable'
    BY DEF Inv, TypeOK, Rows, Places, RowInv, Replaceable
  <1>5. VerifyingHoldsCode'
    BY DEF Inv, TypeOK, Rows, Places, RowInv, VerifyingHoldsCode
  <1>6. QED
    BY <1>1, <1>2, <1>3, <1>4, <1>5 DEF Inv

(* An administrator suspends or restores an account. *)
LEMMA SetAccountStep ==
  ASSUME Inv, NEW e \in Emails, SetAccount(e)
  PROVE  Inv'
  <1> USE BoundsAssumption, NamesAssumption
  <1> USE DEF local, history, Live, Active, InScope, Unlocked, SetAccount
  <1>1. TypeOK'
    BY DEF Inv, TypeOK, Steps
  <1>2. Places'
    BY DEF Inv, TypeOK, Rows, Places, RowInv
  <1>3. RowInv'
    BY DEF Inv, TypeOK, Rows, Places, RowInv
  <1>4. Replaceable'
    BY DEF Inv, TypeOK, Rows, Places, RowInv, Replaceable
  <1>5. VerifyingHoldsCode'
    BY DEF Inv, TypeOK, Rows, Places, RowInv, VerifyingHoldsCode
  <1>6. QED
    BY <1>1, <1>2, <1>3, <1>4, <1>5 DEF Inv

(* The mail server answers. *)
LEMMA MailStep ==
  ASSUME Inv, NEW r \in Requests, Mail(r)
  PROVE  Inv'
  <1> USE BoundsAssumption, NamesAssumption
  <1> USE DEF local, history, Live, Active, InScope, Unlocked, Mail, Goto
  <1>1. TypeOK'
    BY DEF Inv, TypeOK, Steps
  <1>2. Places'
    BY DEF Inv, TypeOK, Rows, Places, RowInv
  <1>3. RowInv'
    BY DEF Inv, TypeOK, Rows, Places, RowInv
  <1>4. Replaceable'
    BY DEF Inv, TypeOK, Rows, Places, RowInv, Replaceable
  <1>5. VerifyingHoldsCode'
    BY DEF Inv, TypeOK, Rows, Places, RowInv, VerifyingHoldsCode
  <1>6. QED
    BY <1>1, <1>2, <1>3, <1>4, <1>5 DEF Inv

(* A request finds its challenge inactive. *)
LEMMA FindInactiveStep ==
  ASSUME Inv, NEW r \in Requests, NEW k \in Challenges, FindInactive(r, k)
  PROVE  Inv'
  <1> USE BoundsAssumption, NamesAssumption
  <1> USE DEF local, history, Live, Active, InScope, Unlocked, FindInactive, Goto
  <1>1. TypeOK'
    BY DEF Inv, TypeOK, Steps
  <1>2. Places'
    BY DEF Inv, TypeOK, Rows, Places, RowInv
  <1>3. RowInv'
    BY DEF Inv, TypeOK, Rows, Places, RowInv
  <1>4. Replaceable'
    BY DEF Inv, TypeOK, Rows, Places, RowInv, Replaceable
  <1>5. VerifyingHoldsCode'
    BY DEF Inv, TypeOK, Rows, Places, RowInv, VerifyingHoldsCode
  <1>6. QED
    BY <1>1, <1>2, <1>3, <1>4, <1>5 DEF Inv

(* A resend reads its challenge. *)
LEMMA ResendReadStep ==
  ASSUME Inv, NEW r \in Requests, NEW k \in Challenges, ResendRead(r, k)
  PROVE  Inv'
  <1> USE BoundsAssumption, NamesAssumption
  <1> USE DEF local, history, Live, Active, InScope, Unlocked, ResendRead, Goto
  <1>a. row[k].version \in 1..MaxVersion /\ row[k].secret \in BOOLEAN
    BY DEF Inv, TypeOK, Rows
  <1>1. TypeOK'
    BY <1>a DEF Inv, TypeOK, Steps
  <1>2. Places'
    BY DEF Inv, TypeOK, Rows, Places, RowInv
  <1>3. RowInv'
    BY DEF Inv, TypeOK, Rows, Places, RowInv
  <1>4. Replaceable'
    BY DEF Inv, TypeOK, Rows, Places, RowInv, Replaceable
  <1>5. VerifyingHoldsCode'
    BY DEF Inv, TypeOK, Rows, Places, RowInv, VerifyingHoldsCode
  <1>6. QED
    BY <1>1, <1>2, <1>3, <1>4, <1>5 DEF Inv

(* A verification reads its challenge. *)
LEMMA ClaimReadStep ==
  ASSUME Inv, NEW r \in Requests, NEW k \in Challenges, ClaimRead(r, k)
  PROVE  Inv'
  <1> USE BoundsAssumption, NamesAssumption
  <1> USE DEF local, history, Live, Active, InScope, Unlocked, ClaimRead, Goto
  <1>a. row[k].version \in 1..MaxVersion /\ row[k].secret \in BOOLEAN
    BY DEF Inv, TypeOK, Rows
  <1>1. TypeOK'
    BY <1>a DEF Inv, TypeOK, Steps
  <1>2. Places'
    BY DEF Inv, TypeOK, Rows, Places, RowInv
  <1>3. RowInv'
    BY DEF Inv, TypeOK, Rows, Places, RowInv
  <1>4. Replaceable'
    BY DEF Inv, TypeOK, Rows, Places, RowInv, Replaceable
  <1>5. VerifyingHoldsCode'
    BY DEF Inv, TypeOK, Rows, Places, RowInv, VerifyingHoldsCode
  <1>6. QED
    BY <1>1, <1>2, <1>3, <1>4, <1>5 DEF Inv

(* A request dies and its transaction is undone. *)
LEMMA AbortStep ==
  ASSUME Inv, NEW r \in Requests, Abort(r)
  PROVE  Inv'
  <1> USE BoundsAssumption, NamesAssumption
  <1> USE DEF local, history, Live, Active, InScope, Unlocked, Abort, Done, Goto
  <1>1. TypeOK'
    BY DEF Inv, TypeOK, Steps
  <1>2. Places'
    BY DEF Inv, TypeOK, Rows, Places, RowInv
  <1>3. RowInv'
    BY DEF Inv, TypeOK, Rows, Places, RowInv
  <1>4. Replaceable'
    BY DEF Inv, TypeOK, Rows, Places, RowInv, Replaceable
  <1>5. VerifyingHoldsCode'
    BY DEF Inv, TypeOK, Rows, Places, RowInv, VerifyingHoldsCode
  <1>6. QED
    BY <1>1, <1>2, <1>3, <1>4, <1>5 DEF Inv

(* The identity is checked or created, or the transaction undone. *)
LEMMA IdentityStep ==
  ASSUME Inv, NEW r \in Requests, Identity(r)
  PROVE  Inv'
  <1> USE BoundsAssumption, NamesAssumption
  <1> USE DEF local, history, Live, Active, InScope, Unlocked, Goto
  <1>a. at[r] \in Challenges /\ lock[at[r]] = r
    BY DEF Inv, TypeOK, VerifyingHoldsCode, Identity
  <1>1. CASE Rollback(r)
    <2>1. Done(r) /\ lock' = [lock EXCEPT ![at[r]] = Nobody] /\ UNCHANGED <<row, cookie, account, history>>
      BY <1>1 DEF Identity, Rollback
    <2>2. QED
      BY <1>a, <2>1, GiveUp
  <1>2. CASE ~Rollback(r)
    <2>1. TypeOK'
      BY <1>2 DEF Inv, TypeOK, Steps, Identity
    <2>2. Places' /\ RowInv' /\ Replaceable'
      BY <1>2 DEF Inv, TypeOK, Places, RowInv, Replaceable, Identity
    <2>3. VerifyingHoldsCode'
      BY <1>2 DEF Inv, TypeOK, VerifyingHoldsCode, Identity
    <2>4. QED
      BY <2>1, <2>2, <2>3 DEF Inv
  <1>3. QED
    BY <1>1, <1>2

(* The session store answers or fails. *)
LEMMA StartSessionStep ==
  ASSUME Inv, NEW r \in Requests, StartSession(r)
  PROVE  Inv'
  <1> USE BoundsAssumption, NamesAssumption
  <1> USE DEF local, history, Live, Active, InScope, Unlocked, Goto
  <1>a. at[r] \in Challenges /\ lock[at[r]] = r
    BY DEF Inv, TypeOK, VerifyingHoldsCode, StartSession
  <1>1. CASE Rollback(r)
    <2>1. Done(r) /\ lock' = [lock EXCEPT ![at[r]] = Nobody] /\ UNCHANGED <<row, cookie, account, history>>
      BY <1>1 DEF StartSession, Rollback
    <2>2. QED
      BY <1>a, <2>1, GiveUp
  <1>2. CASE ~Rollback(r)
    <2>1. TypeOK'
      BY <1>2 DEF Inv, TypeOK, Steps, StartSession
    <2>2. Places' /\ RowInv' /\ Replaceable'
      BY <1>2 DEF Inv, TypeOK, Places, RowInv, Replaceable, StartSession
    <2>3. VerifyingHoldsCode'
      BY <1>2 DEF Inv, TypeOK, VerifyingHoldsCode, StartSession
    <2>4. QED
      BY <2>1, <2>2, <2>3 DEF Inv
  <1>3. QED
    BY <1>1, <1>2

(* The wipe of an inactive row. *)
LEMMA WipeStep ==
  ASSUME Inv, NEW r \in Requests, Wipe(r)
  PROVE  Inv'
  <1> DEFINE k == at[r]
  <1> USE BoundsAssumption, NamesAssumption
  <1> USE DEF local, history, Live, Active, InScope, Unlocked, Wipe, Goto
  <1>a. k \in Challenges /\ row[k] \in Rows
    BY DEF Inv, TypeOK, Places
  <1>1. CASE Live(k)
    <2>1. row' = [row EXCEPT ![k] = [row[k] EXCEPT !.secret = FALSE]]
      BY <1>1, Zenon DEF Inv, TypeOK
    <2>2. [row[k] EXCEPT !.secret = FALSE] \in Rows
      BY <1>a, RowWrites
    <2>3. row' \in [Challenges -> Rows]
      BY <1>a, <2>1, <2>2, TableWrites DEF Inv, TypeOK
    <2>4. TypeOK'
      BY <1>a, <1>1, <2>3 DEF Inv, TypeOK, Done, Steps, Rows
    <2>5. Places'
      BY <1>a, <1>1, <2>1 DEF Inv, TypeOK, Done, Rows, Places, RowInv
    <2>6. RowInv'
      BY <1>a, <1>1, <2>1 DEF Inv, TypeOK, Done, Rows, Places, RowInv
    <2>7. Replaceable'
      BY <1>a, <1>1, <2>1 DEF Inv, TypeOK, Done, Rows, Places, RowInv, Replaceable
    <2>8. VerifyingHoldsCode'
      BY <1>a, <1>1, <2>1 DEF Inv, TypeOK, Done, Rows, Places, VerifyingHoldsCode
    <2>9. QED
      BY <2>4, <2>5, <2>6, <2>7, <2>8 DEF Inv
  <1>2. CASE ~(Live(k))
    <2>1. Done(r) /\ lock' = lock /\ UNCHANGED <<row, cookie, account, history>>
      BY <1>2
    <2>2. QED
      BY <2>1, GiveUp
  <1>3. QED
    BY <1>1, <1>2

(* The code counts as sent: from here on a browser holds the token. *)
LEMMA MarkSentStep ==
  ASSUME Inv, NEW r \in Requests, MarkSent(r)
  PROVE  Inv'
  <1> DEFINE k == at[r]
  <1> USE BoundsAssumption, NamesAssumption
  <1> USE DEF local, history, Live, Active, InScope, Unlocked, MarkSent, Goto
  <1>a. k \in Challenges /\ row[k] \in Rows
    BY DEF Inv, TypeOK, Places
  <1>1. CASE InScope(r) /\ ~row[k].expired /\ row[k].delivery = "pending"
    <2>1. row' = [row EXCEPT ![k] = [row[k] EXCEPT !.delivery = "sent"]]
      BY <1>1, Zenon DEF Inv, TypeOK
    <2>2. [row[k] EXCEPT !.delivery = "sent"] \in Rows
      BY <1>a, RowWrites
    <2>3. row' \in [Challenges -> Rows]
      BY <1>a, <2>1, <2>2, TableWrites DEF Inv, TypeOK
    <2>4. TypeOK'
      BY <1>a, <1>1, <2>3 DEF Inv, TypeOK, Done, Steps, Rows
    <2>5. Places'
      BY <1>a, <1>1, <2>1 DEF Inv, TypeOK, Done, Rows, Places, RowInv
    <2>6. RowInv'
      BY <1>a, <1>1, <2>1 DEF Inv, TypeOK, Done, Rows, Places, RowInv
    <2>7. Replaceable'
      BY <1>a, <1>1, <2>1 DEF Inv, TypeOK, Done, Rows, Places, RowInv, Replaceable
    <2>8. VerifyingHoldsCode'
      BY <1>a, <1>1, <2>1 DEF Inv, TypeOK, Done, Rows, Places, VerifyingHoldsCode
    <2>9. QED
      BY <2>4, <2>5, <2>6, <2>7, <2>8 DEF Inv
  <1>2. CASE ~(InScope(r) /\ ~row[k].expired /\ row[k].delivery = "pending")
    <2>1. Done(r) /\ lock' = lock /\ UNCHANGED <<row, cookie, account, history>>
      BY <1>2
    <2>2. QED
      BY <2>1, GiveUp
  <1>3. QED
    BY <1>1, <1>2

(* Another code is stored, or another request was faster. *)
LEMMA ResendWriteStep ==
  ASSUME Inv, NEW r \in Requests, ResendWrite(r)
  PROVE  Inv'
  <1> DEFINE k == at[r]
  <1> USE BoundsAssumption, NamesAssumption
  <1> USE DEF local, history, Live, Active, InScope, Unlocked, ResendWrite, Goto
  <1>a. k \in Challenges /\ row[k] \in Rows
    BY DEF Inv, TypeOK, Places
  <1>1. CASE InScope(r)
    <2>1. row' = [row EXCEPT ![k] = Renewed(row[k])]
      BY <1>1, Zenon DEF Inv, TypeOK, Renewed
    <2>2. Renewed(row[k]) \in Rows
      <3>1. ver[r] \in 1..MaxVersion /\ ver[r] < MaxVersion /\ ver[r] + 1 \in 1..MaxVersion
        BY DEF Inv, TypeOK, Places
      <3>2. row[k].version + 1 \in 1..MaxVersion
        BY <1>1, <3>1
      <3>3. QED
        BY <1>a, <3>2, RowWrites
    <2>3. row' \in [Challenges -> Rows]
      BY <1>a, <2>1, <2>2, TableWrites DEF Inv, TypeOK
    <2>4. TypeOK'
      <3>1. ver[r] + 1 \in 1..MaxVersion
        BY DEF Inv, TypeOK, Places
      <3>2. ver' \in [Requests -> 1..MaxVersion]
        BY <1>1, <3>1 DEF Inv, TypeOK
      <3>3. QED
        BY <1>1, <2>3, <3>2 DEF Inv, TypeOK, Steps
    <2>5. Places'
      BY <1>a, <1>1, <2>1 DEF Inv, TypeOK, Done, Rows, Places, RowInv, Renewed
    <2>6. RowInv'
      BY <1>a, <1>1, <2>1 DEF Inv, TypeOK, Done, Rows, Places, RowInv, Renewed
    <2>7. Replaceable'
      BY <1>a, <1>1, <2>1 DEF Inv, TypeOK, Done, Rows, Places, RowInv, Replaceable, Renewed
    <2>8. VerifyingHoldsCode'
      BY <1>a, <1>1, <2>1 DEF Inv, TypeOK, Done, Rows, Places, VerifyingHoldsCode, Renewed
    <2>9. QED
      BY <2>4, <2>5, <2>6, <2>7, <2>8 DEF Inv
  <1>2. CASE ~(InScope(r))
    <2>1. Done(r) /\ lock' = lock /\ UNCHANGED <<row, cookie, account, history>>
      BY <1>2
    <2>2. QED
      BY <2>1, GiveUp
  <1>3. QED
    BY <1>1, <1>2

(* A login or registration reads what it will replace. *)
LEMMA BeginReadStep ==
  ASSUME Inv, NEW r \in Requests, NEW k \in Challenges, BeginRead(r, k)
  PROVE  Inv'
  <1> USE BoundsAssumption, NamesAssumption
  <1> USE DEF local, history, Live, Goto
  <1>1. PICK p \in Challenges \cup {NoChallenge} :
          /\ IF p = NoChallenge
               THEN ~\E x \in Challenges : Live(x) /\ EmailOf[x] = EmailOf[k]
               ELSE /\ Live(p) /\ EmailOf[p] = EmailOf[k]
                    /\ ~(Active(p) /\ row[p].cooling)
          /\ prev' = [prev EXCEPT ![r] = p]
          /\ ver' = [ver EXCEPT ![r] = IF p = NoChallenge THEN 1 ELSE row[p].version]
    BY DEF BeginRead
  <1>2. /\ pc[r] = "idle" /\ row[k].state = "unborn" /\ \A q \in Requests : at[q] # k
        /\ at' = [at EXCEPT ![r] = k]
        /\ UNCHANGED <<row, lock, cookie, account, right, hash, history>>
    BY DEF BeginRead
  <1>3. PICK step \in {"login", "register"} : pc' = [pc EXCEPT ![r] = step]
    BY DEF BeginRead, Purpose
  <1>4. p # NoChallenge => row[p].version \in 1..MaxVersion
    BY DEF Inv, TypeOK, Rows
  <1>5. TypeOK'
    BY <1>1, <1>2, <1>3, <1>4 DEF Inv, TypeOK, Steps
  <1>6. Places'
    BY <1>1, <1>2, <1>3 DEF Inv, TypeOK, Places, RowInv
  <1>7. RowInv'
    BY <1>2 DEF Inv, RowInv
  <1>8. Replaceable'
    BY <1>1, <1>2, <1>3, <1>4 DEF Inv, TypeOK, Replaceable, Active
  <1>9. VerifyingHoldsCode'
    BY <1>1, <1>2, <1>3 DEF Inv, TypeOK, VerifyingHoldsCode, InScope
  <1>10. QED
    BY <1>5, <1>6, <1>7, <1>8, <1>9 DEF Inv

(* It replaces what it decided to replace with a row that nobody knows yet. *)
LEMMA BeginWriteStep ==
  ASSUME Inv, NEW r \in Requests, BeginWrite(r)
  PROVE  Inv'
  <1> DEFINE k == at[r]
  <1> USE BoundsAssumption, NamesAssumption
  <1> USE DEF local, history, Live, Unlocked, Goto
  <1>1. PICK purged \in SUBSET Expired :
          /\ \A x \in Doomed(r, purged) : Unlocked(x)
          /\ IF \/ ~PreviousStands(r)
                \/ \E x \in Challenges \ Doomed(r, purged) :
                     Live(x) /\ EmailOf[x] = EmailOf[k]
               THEN Done(r) /\ UNCHANGED row
               ELSE /\ row' = [x \in Challenges |->
                                 IF x = k THEN NewRow(pc[r])
                                 ELSE IF x \in Doomed(r, purged)
                                   THEN [row[x] EXCEPT !.state = "gone"]
                                 ELSE row[x]]
                    /\ Goto(r, "mail")
                    /\ ver' = [ver EXCEPT ![r] = 1]
                    /\ prev' = [prev EXCEPT ![r] = NoChallenge]
                    /\ UNCHANGED <<at, right, hash>>
    BY DEF BeginWrite
  <1>2. pc[r] \in {"login", "register"} /\ UNCHANGED <<lock, cookie, account, history>>
    BY DEF BeginWrite
  <1>3. k \in Challenges /\ row[k].state = "unborn"
    BY <1>2 DEF Inv, TypeOK, Places
  <1>4. CASE Done(r) /\ UNCHANGED row
    BY <1>2, <1>4, GiveUp
  <1>5. CASE ~(Done(r) /\ UNCHANGED row)
    <2> DEFINE D == Doomed(r, purged)
    <2>1. /\ row' = [x \in Challenges |->
                       IF x = k THEN NewRow(pc[r])
                       ELSE IF x \in D THEN [row[x] EXCEPT !.state = "gone"]
                       ELSE row[x]]
          /\ pc' = [pc EXCEPT ![r] = "mail"]
          /\ ver' = [ver EXCEPT ![r] = 1]
          /\ prev' = [prev EXCEPT ![r] = NoChallenge]
          /\ UNCHANGED <<at, right, hash>>
          /\ PreviousStands(r)
      BY <1>1, <1>5
    <2>2. \A x \in D : x \in Challenges /\ Live(x) /\ lock[x] = Nobody
      BY <1>1, <2>1 DEF Expired, Doomed, PreviousStands, Inv, TypeOK
    <2> HIDE DEF D
    <2>3. NewRow(pc[r]) \in Rows
      <3>1. 1 \in 1..MaxVersion /\ 0 \in 0..MaxAttempts
        OBVIOUS
      <3>2. QED
        BY <1>2, <3>1, Zenon DEF NewRow, Rows
    <2>4. \A x \in D : [row[x] EXCEPT !.state = "gone"] \in Rows
      BY <2>2, RowWrites DEF Inv, TypeOK
    <2>5. row' \in [Challenges -> Rows]
      BY <2>1, <2>3, <2>4, Zenon DEF Inv, TypeOK
    <2>6. /\ row'[k].state = "live" /\ row'[k].version = 1 /\ row'[k].attempts = 0
          /\ row'[k].consumed = FALSE /\ row'[k].delivery = "pending"
      BY <1>3, <2>1 DEF NewRow
    <2>7. \A x \in Challenges \ {k} :
            /\ row'[x].state = IF x \in D THEN "gone" ELSE row[x].state
            /\ row'[x].version = row[x].version /\ row'[x].attempts = row[x].attempts
            /\ row'[x].consumed = row[x].consumed /\ row'[x].secret = row[x].secret
            /\ row'[x].delivery = row[x].delivery /\ row'[x].cooling = row[x].cooling
            /\ row'[x].expired = row[x].expired
      BY <2>1 DEF Inv, TypeOK, Rows
    <2>8. TypeOK'
      BY <1>2, <2>1, <2>5 DEF Inv, TypeOK, Steps
    <2>9. Places'
      BY <1>2, <1>3, <2>1, <2>2, <2>6, <2>7 DEF Inv, TypeOK, Places, RowInv
    <2>10. RowInv'
      BY <1>2, <1>3, <2>2, <2>6, <2>7 DEF Inv, TypeOK, Places, RowInv
    <2>11. Replaceable'
      BY <1>2, <1>3, <2>1, <2>2, <2>6, <2>7 DEF Inv, TypeOK, Rows, Places, Replaceable, Active
    <2>12. VerifyingHoldsCode'
      BY <1>2, <1>3, <2>1, <2>2, <2>7 DEF Inv, TypeOK, Places, VerifyingHoldsCode, InScope
    <2>13. QED
      BY <2>8, <2>9, <2>10, <2>11, <2>12 DEF Inv
  <1>6. QED
    BY <1>4, <1>5

(* A code that was not sent: the first one takes its challenge along. *)
LEMMA MarkRefusedStep ==
  ASSUME Inv, NEW r \in Requests, MarkRefused(r)
  PROVE  Inv'
  <1> DEFINE k == at[r]
  <1> USE BoundsAssumption, NamesAssumption
  <1> USE DEF local, history, Live, Unlocked, Goto
  <1>1. /\ pc[r] = "refused" /\ lock[k] = Nobody /\ Done(r)
        /\ UNCHANGED <<lock, cookie, account, history>>
    BY DEF MarkRefused
  <1>2. k \in Challenges /\ row[k] \in Rows
    BY <1>1 DEF Inv, TypeOK, Places
  <1>3. CASE UNCHANGED row
    BY <1>1, <1>3, GiveUp
  <1>4. ASSUME NEW x \in Rows, row' = [row EXCEPT ![k] = x],
               x.state = row[k].state \/ x.state = "gone",
               x.version = row[k].version, x.attempts = row[k].attempts,
               x.consumed = row[k].consumed, x.secret = row[k].secret,
               x.expired = row[k].expired, x.cooling = row[k].cooling,
               x.delivery = row[k].delivery \/ ver[r] # 1
        PROVE  Inv'
    <2>1. TypeOK'
      <3>1. row' \in [Challenges -> Rows]
        BY <1>2, <1>4, TableWrites DEF Inv, TypeOK
      <3>2. QED
        BY <1>1, <3>1 DEF Inv, TypeOK, Done, Steps
    <2>2. Places'
      BY <1>1, <1>2, <1>4 DEF Inv, TypeOK, Done, Places, RowInv
    <2>3. RowInv'
      BY <1>1, <1>2, <1>4 DEF Inv, TypeOK, Places, RowInv
    <2>4. Replaceable'
      BY <1>1, <1>2, <1>4 DEF Inv, TypeOK, Done, Places, RowInv, Replaceable, Active
    <2>5. VerifyingHoldsCode'
      BY <1>1, <1>2, <1>4 DEF Inv, TypeOK, Done, VerifyingHoldsCode, InScope
    <2>6. QED
      BY <2>1, <2>2, <2>3, <2>4, <2>5 DEF Inv
  <1>5. CASE ver[r] = 1
    <2> DEFINE x == [row[k] EXCEPT !.state = "gone"]
    <2>1. x \in Rows /\ row' = [row EXCEPT ![k] = x]
      BY <1>2, <1>5, RowWrites DEF MarkRefused
    <2>2. /\ x.state = "gone" /\ x.version = row[k].version /\ x.attempts = row[k].attempts
          /\ x.consumed = row[k].consumed /\ x.secret = row[k].secret
          /\ x.expired = row[k].expired /\ x.cooling = row[k].cooling
          /\ x.delivery = row[k].delivery
      BY <1>2 DEF Rows
    <2> HIDE DEF x
    <2>3. QED
      BY <1>4, <2>1, <2>2
  <1>6. CASE ver[r] # 1 /\ Live(k) /\ row[k].version = ver[r]
    <2> DEFINE x == [row[k] EXCEPT !.delivery = "failed"]
    <2>1. x \in Rows /\ row' = [row EXCEPT ![k] = x]
      BY <1>2, <1>6, RowWrites DEF MarkRefused
    <2>2. /\ x.state = row[k].state /\ x.version = row[k].version
          /\ x.attempts = row[k].attempts /\ x.consumed = row[k].consumed
          /\ x.secret = row[k].secret /\ x.expired = row[k].expired
          /\ x.cooling = row[k].cooling
      BY <1>2 DEF Rows
    <2> HIDE DEF x
    <2>3. QED
      BY <1>4, <1>6, <2>1, <2>2
  <1>7. QED
    BY <1>3, <1>5, <1>6 DEF MarkRefused

(* A guess is judged: a right one holds the row, a wrong one is counted. *)
LEMMA ClaimWriteStep ==
  ASSUME Inv, NEW r \in Requests, ClaimWrite(r)
  PROVE  Inv'
  <1> DEFINE k == at[r]
  <1> USE BoundsAssumption, NamesAssumption
  <1> USE DEF local, history, Live, Unlocked, Goto
  <1>1. pc[r] = "claim" /\ lock[k] = Nobody /\ UNCHANGED <<cookie, account, granted>>
    BY DEF ClaimWrite
  <1>2. k \in Challenges /\ k \in cookie /\ row[k] \in Rows
    BY <1>1 DEF Inv, TypeOK, Places
  <1>3. CASE ~Claimable(r)
    <2>1. Done(r) /\ lock' = lock /\ UNCHANGED <<row, cookie, account, history>>
      BY <1>1, <1>3 DEF ClaimWrite
    <2>2. QED
      BY <2>1, GiveUp
  <1>4. CASE Claimable(r) /\ right[r]
    <2>1. /\ lock' = [lock EXCEPT ![k] = r] /\ pc' = [pc EXCEPT ![r] = "identity"]
          /\ UNCHANGED <<row, guesses, at, prev, ver, right, hash>>
      BY <1>4 DEF ClaimWrite
    <2>2. TypeOK'
      BY <1>1, <1>2, <2>1 DEF Inv, TypeOK, Steps
    <2>3. Places'
      BY <1>1, <1>2, <2>1 DEF Inv, TypeOK, Places
    <2>4. RowInv' /\ Replaceable'
      BY <1>1, <2>1 DEF Inv, TypeOK, RowInv, Replaceable, Active
    <2>5. VerifyingHoldsCode'
      BY <1>1, <1>2, <1>4, <2>1 DEF Inv, TypeOK, VerifyingHoldsCode, InScope, Claimable
    <2>6. QED
      BY <2>2, <2>3, <2>4, <2>5 DEF Inv
  <1>5. CASE Claimable(r) /\ ~right[r]
    <2> DEFINE x == Missed(row[k])
    <2>1. /\ Done(r) /\ UNCHANGED lock
          /\ row' = [row EXCEPT ![k] = x] /\ guesses' = [guesses EXCEPT ![k] = @ + 1]
      BY <1>5 DEF ClaimWrite
    <2>2. /\ row[k].version = ver[r] /\ ~row[k].consumed /\ Live(k)
          /\ row[k].attempts \in 0..MaxAttempts /\ row[k].attempts < MaxAttempts
      BY <1>2, <1>5 DEF Claimable, InScope, Rows
    <2>3. row[k].attempts + 1 \in 0..MaxAttempts
      BY <2>2
    <2>4. x \in Rows
      BY <1>2, <2>3, RowWrites
    <2>5. /\ x.state = row[k].state /\ x.version = row[k].version
          /\ x.attempts = row[k].attempts + 1 /\ x.delivery = row[k].delivery
          /\ x.consumed => ~x.secret
          /\ x.expired = row[k].expired /\ x.cooling = row[k].cooling
      BY <1>2 DEF Missed, Rows
    <2> HIDE DEF x
    <2>6. TypeOK'
      <3>1. row' \in [Challenges -> Rows]
        BY <1>2, <2>1, <2>4, TableWrites DEF Inv, TypeOK
      <3>2. guesses' \in [Challenges -> Nat]
        BY <1>2, <2>1 DEF Inv, TypeOK
      <3>3. QED
        <4>1. pc' \in [Requests -> Steps] /\ ver' \in [Requests -> 1..MaxVersion]
          BY <2>1 DEF Inv, TypeOK, Done, Steps
        <4>2. QED
          BY <1>1, <2>1, <3>1, <3>2, <4>1 DEF Inv, TypeOK, Done
    <2>7. Places'
      BY <1>1, <1>2, <2>1, <2>5 DEF Inv, TypeOK, Done, Places
    <2>8. RowInv'
      BY <1>1, <1>2, <2>1, <2>2, <2>5 DEF Inv, TypeOK, RowInv
    <2>9. Replaceable'
      BY <1>1, <1>2, <2>1, <2>2, <2>5 DEF Inv, TypeOK, Done, Replaceable, Active
    <2>10. VerifyingHoldsCode'
      BY <1>1, <1>2, <2>1 DEF Inv, TypeOK, Done, VerifyingHoldsCode, InScope
    <2>11. QED
      BY <2>6, <2>7, <2>8, <2>9, <2>10 DEF Inv
  <1>6. QED
    BY <1>3, <1>4, <1>5

(* The identity and the consumption are committed together, or neither. *)
LEMMA CommitStep ==
  ASSUME Inv, NEW r \in Requests, Commit(r)
  PROVE  Inv'
  <1> DEFINE k == at[r]
  <1> USE BoundsAssumption, NamesAssumption, EmailsAssumption
  <1> USE DEF local, history, Live, Unlocked, Goto
  <1>1. /\ pc[r] = "commit" /\ Done(r) /\ UNCHANGED cookie
        /\ lock' = [lock EXCEPT ![k] = Nobody]
    BY DEF Commit
  <1>2. /\ k \in Challenges /\ k \in cookie /\ row[k] \in Rows
        /\ lock[k] = r /\ InScope(r)
    BY <1>1 DEF Inv, TypeOK, Places, VerifyingHoldsCode
  <1>3. CASE UNCHANGED <<row, account, history>>
    <2>1. UNCHANGED <<row, cookie, account, history>>
      BY <1>1, <1>3
    <2>2. QED
      BY <1>1, <1>2, <2>1, GiveUp
  <1>4. ASSUME row' = [row EXCEPT ![k] = Used(@)],
               guesses' = [guesses EXCEPT ![k] = @ + 1],
               account' \in [Emails -> {"none", "active", "suspended", "passwordless"}],
               granted' = [granted EXCEPT ![k] = @] \/ granted' = [granted EXCEPT ![k] = @ + 1]
        PROVE  Inv'
    <2> DEFINE x == Used(row[k])
    <2>1. row' = [row EXCEPT ![k] = x]
      BY <1>4
    <2>2. /\ ~row[k].consumed /\ Live(k)
          /\ row[k].attempts \in 0..MaxAttempts /\ row[k].attempts < MaxAttempts
      BY <1>2 DEF InScope, Rows
    <2>3. row[k].attempts + 1 \in 0..MaxAttempts
      BY <2>2
    <2>4. x \in Rows
      BY <1>2, <2>3, RowWrites
    <2>5. /\ x.state = row[k].state /\ x.version = row[k].version
          /\ x.attempts = row[k].attempts + 1 /\ x.delivery = row[k].delivery
          /\ x.consumed /\ ~x.secret
      BY <1>2 DEF Used, Rows
    <2> HIDE DEF x
    <2>6. TypeOK'
      <3>1. row' \in [Challenges -> Rows]
        BY <1>2, <2>1, <2>4, TableWrites DEF Inv, TypeOK
      <3>2. guesses' \in [Challenges -> Nat] /\ granted' \in [Challenges -> Nat]
        BY <1>2, <1>4 DEF Inv, TypeOK
      <3>3. lock' \in [Challenges -> Requests \cup {Nobody}]
        BY <1>1 DEF Inv, TypeOK
      <3>4. QED
        <4>1. pc' \in [Requests -> Steps] /\ ver' \in [Requests -> 1..MaxVersion]
          BY <1>1 DEF Inv, TypeOK, Done, Steps
        <4>2. /\ at' \in [Requests -> Challenges \cup {NoChallenge}]
              /\ prev' \in [Requests -> Challenges \cup {NoChallenge}]
              /\ right' \in [Requests -> BOOLEAN] /\ hash' \in [Requests -> BOOLEAN]
          BY <1>1 DEF Inv, TypeOK, Done
        <4>3. QED
          BY <1>1, <1>4, <3>1, <3>2, <3>3, <4>1, <4>2 DEF Inv, TypeOK
    <2>7. Places'
      BY <1>1, <1>2, <2>1, <2>5 DEF Inv, TypeOK, Done, Places
    <2>8. RowInv'
      BY <1>1, <1>2, <1>4, <2>1, <2>2, <2>5 DEF Inv, TypeOK, RowInv
    <2>9. Replaceable'
      BY <1>1, <1>2, <2>1, <2>2, <2>5 DEF Inv, TypeOK, Done, Replaceable, Active
    <2>10. VerifyingHoldsCode'
      BY <1>1, <1>2, <2>1 DEF Inv, TypeOK, Done, VerifyingHoldsCode, InScope
    <2>11. QED
      BY <2>6, <2>7, <2>8, <2>9, <2>10 DEF Inv
  <1>5. PICK kept \in BOOLEAN, confirmed \in BOOLEAN :
          /\ confirmed => kept
          /\ IF kept
               THEN /\ row' = [row EXCEPT ![k] = Used(@)]
                    /\ guesses' = [guesses EXCEPT ![k] = @ + 1]
                    /\ account' = [account EXCEPT ![EmailOf[k]] =
                                     IF row[k].purpose = "login" THEN @
                                     ELSE IF hash[r] THEN "active"
                                     ELSE "passwordless"]
               ELSE UNCHANGED <<row, guesses, account>>
          /\ granted' = [granted EXCEPT ![k] = IF confirmed THEN @ + 1 ELSE @]
    BY DEF Commit
  <1>6. CASE kept
    <2>1. account' \in [Emails -> {"none", "active", "suspended", "passwordless"}]
      BY <1>2, <1>5, <1>6 DEF Inv, TypeOK
    <2>2. QED
      BY <1>4, <1>5, <1>6, <2>1
  <1>7. CASE ~kept
    <2>1. granted' = granted
      BY <1>5, <1>7 DEF Inv, TypeOK
    <2>2. QED
      BY <1>3, <1>5, <1>7, <2>1
  <1>8. QED
    BY <1>6, <1>7

LEMMA NextInv == Inv /\ [Next]_vars => Inv'
  <1> SUFFICES ASSUME Inv, [Next]_vars PROVE Inv'
    OBVIOUS
  <1>1. ASSUME NEW r \in Requests, Request(r) PROVE Inv'
    BY <1>1, BeginReadStep, BeginWriteStep, MailStep, MarkSentStep, MarkRefusedStep,
       FindInactiveStep, WipeStep, ResendReadStep, ResendWriteStep, ClaimReadStep,
       ClaimWriteStep, IdentityStep, StartSessionStep, CommitStep, AbortStep
    DEF Request
  <1>2. ASSUME NEW k \in Challenges, Cancel(k) \/ Expire(k) \/ CoolDown(k) PROVE Inv'
    BY <1>2, CancelStep, ExpireStep, CoolDownStep
  <1>3. ASSUME NEW e \in Emails, SetAccount(e) PROVE Inv'
    BY <1>3, SetAccountStep
  <1>4. CASE UNCHANGED vars
    BY <1>4 DEF vars, local, history, Inv, TypeOK, Places, RowInv, Replaceable,
       VerifyingHoldsCode, Live, Active, InScope
  <1>5. QED
    BY <1>1, <1>2, <1>3, <1>4 DEF Next

(* The inductive invariant holds in every reachable state. *)
THEOREM InvHolds == Spec => []Inv
  BY InitInv, NextInv, PTL DEF Spec

(* Type correctness: attempts and versions stay within their bounds. *)
THEOREM TypeCorrect == Spec => []TypeOK
  <1>1. Inv => TypeOK
    BY DEF Inv
  <1>2. QED
    BY <1>1, InvHolds, PTL

(* A challenge hands out at most one session, whatever races with it. *)
THEOREM UsedOnce == Spec => []SingleUse
  <1>1. Inv => SingleUse
    BY DEF Inv, RowInv, SingleUse
  <1>2. QED
    BY <1>1, InvHolds, PTL

(* No interleaving of guesses and resends wins an extra attempt. *)
THEOREM BoundedGuesses == Spec => []GuessesBounded
  <1>1. Inv => GuessesBounded
    BY BoundsAssumption DEF Inv, TypeOK, Rows, RowInv, GuessesBounded
  <1>2. QED
    BY <1>1, InvHolds, PTL

(* What is over keeps no credentials. *)
THEOREM Wiped == Spec => []ConsumedIsWiped
  <1>1. Inv => ConsumedIsWiped
    BY DEF Inv, RowInv, ConsumedIsWiped
  <1>2. QED
    BY <1>1, InvHolds, PTL

(* The code that becomes a session is the last one sent and held alone. *)
THEOREM CodeHeld == Spec => []VerifyingHoldsCode
  <1>1. Inv => VerifyingHoldsCode
    BY DEF Inv
  <1>2. QED
    BY <1>1, InvHolds, PTL

(* One session for a challenge, and it is for the last code sent. *)
THEOREM OneUse == Spec => []OneUseOfLastCode
  BY UsedOnce, CodeHeld, PTL DEF OneUseOfLastCode

(* No guess beyond the limit and no secret after the end. *)
THEOREM NothingLeftOver == Spec => []LeftoversBounded
  BY BoundedGuesses, Wiped, PTL DEF LeftoversBounded

(* Challenges that are over stay over, whatever step is taken. *)
LEMMA NextOver ==
  ASSUME Inv, [Next]_vars, NEW k \in Challenges
  PROVE  /\ row[k].state = "gone" => row'[k].state = "gone"
         /\ Live(k) /\ row[k].consumed =>
              /\ row'[k].consumed /\ row'[k].state # "unborn"
              /\ row'[k].version = row[k].version
              /\ row'[k].attempts = row[k].attempts
  <1> USE DEF Live, local, history
  <1>1. row[k] \in Rows
    BY DEF Inv, TypeOK
  <1>2. CASE UNCHANGED row
    BY <1>2
  <1>3. ASSUME NEW r \in Requests, BeginWrite(r), ~UNCHANGED row
        PROVE  row[k].state # "unborn" =>
                 \/ row'[k] = row[k]
                 \/ row'[k] = [row[k] EXCEPT !.state = "gone"]
    BY <1>3 DEF BeginWrite, Inv, Places
  <1>4. ASSUME NEW r \in Requests, MarkSent(r) \/ MarkRefused(r) \/ Wipe(r)
        PROVE  \/ row'[k] = row[k]
               \/ row'[k] = [row[k] EXCEPT !.delivery = "sent"]
               \/ row'[k] = [row[k] EXCEPT !.delivery = "failed"]
               \/ row'[k] = [row[k] EXCEPT !.state = "gone"]
               \/ row'[k] = [row[k] EXCEPT !.secret = FALSE] /\ Live(k)
    <2>1. ASSUME MarkSent(r)
          PROVE  row'[k] = row[k] \/ row'[k] = [row[k] EXCEPT !.delivery = "sent"]
      BY <2>1 DEF MarkSent, Inv, TypeOK
    <2>2. ASSUME MarkRefused(r)
          PROVE  \/ row'[k] = row[k]
                 \/ row'[k] = [row[k] EXCEPT !.delivery = "failed"]
                 \/ row'[k] = [row[k] EXCEPT !.state = "gone"]
      BY <2>2 DEF MarkRefused, Inv, TypeOK
    <2>3. ASSUME Wipe(r)
          PROVE  row'[k] = row[k] \/ (row'[k] = [row[k] EXCEPT !.secret = FALSE] /\ Live(k))
      BY <2>3 DEF Wipe, Inv, TypeOK
    <2>4. QED
      BY <1>4, <2>1, <2>2, <2>3
  <1>5. ASSUME NEW r \in Requests, ResendWrite(r) \/ ClaimWrite(r) \/ Commit(r)
        PROVE  \/ row'[k] = row[k]
               \/ Live(k) /\ ~row[k].consumed
    <2>1. ~UNCHANGED row => InScope(r)
      BY <1>5 DEF ResendWrite, ClaimWrite, Claimable, Commit, Inv, VerifyingHoldsCode
    <2>2. k # at[r] => row'[k] = row[k]
      BY <1>5 DEF ResendWrite, ClaimWrite, Commit, Inv, TypeOK
    <2>3. QED
      BY <2>1, <2>2 DEF InScope
  <1>6. ASSUME NEW x \in Challenges, Cancel(x) \/ Expire(x) \/ CoolDown(x)
        PROVE  \/ row'[k] = row[k]
               \/ row'[k] = [row[k] EXCEPT !.consumed = TRUE, !.secret = FALSE] /\ Live(k)
               \/ row'[k] = [row[k] EXCEPT !.expired = TRUE, !.cooling = FALSE] /\ Live(k)
               \/ row'[k] = [row[k] EXCEPT !.cooling = FALSE] /\ Live(k)
    BY <1>6 DEF Cancel, Expire, CoolDown, Inv, TypeOK
  <1>7. ASSUME NEW r \in Requests, MarkSent(r) \/ MarkRefused(r) \/ Wipe(r)
        PROVE  row[k].state = "gone" => row'[k].state = "gone"
    BY <1>1, <1>4, <1>7 DEF Rows
  <1>8. ASSUME NEW r \in Requests, Request(r), ~UNCHANGED row
        PROVE  \/ BeginWrite(r) \/ MarkSent(r) \/ MarkRefused(r) \/ Wipe(r)
               \/ ResendWrite(r) \/ ClaimWrite(r) \/ Commit(r)
    BY <1>8 DEF Request, BeginRead, FindInactive, ResendRead, ClaimRead, Mail, Identity,
       StartSession, Abort
  <1>9. ASSUME NEW r \in Requests, Request(r), ~UNCHANGED row
        PROVE  /\ row[k].state = "gone" => row'[k].state = "gone"
               /\ Live(k) /\ row[k].consumed =>
                    /\ row'[k].consumed /\ row'[k].state # "unborn"
                    /\ row'[k].version = row[k].version
                    /\ row'[k].attempts = row[k].attempts
    BY <1>1, <1>3, <1>4, <1>5, <1>7, <1>8, <1>9 DEF Rows
  <1>10. CASE \E x \in Challenges : Cancel(x) \/ Expire(x) \/ CoolDown(x)
    BY <1>1, <1>6, <1>10 DEF Rows
  <1>11. CASE \E e \in Emails : SetAccount(e)
    BY <1>2, <1>11 DEF SetAccount
  <1>12. QED
    BY <1>2, <1>9, <1>10, <1>11 DEF Next, vars

(* No later code and no further attempt for a challenge that is over. *)
THEOREM StaysOver == Spec => OverIsOver
  <1>1. Inv /\ [Next]_vars =>
          [\A k \in Challenges :
             /\ row[k].state = "gone" => row'[k].state = "gone"
             /\ Live(k) /\ row[k].consumed =>
                  /\ row'[k].consumed /\ row'[k].state # "unborn"
                  /\ row'[k].version = row[k].version
                  /\ row'[k].attempts = row[k].attempts]_vars
    BY NextOver
  <1>2. QED
    BY <1>1, InvHolds, PTL DEF Spec, OverIsOver

(* No write of a row but the deletion changes where the row is in its life. *)
LEMMA StateKept ==
  ASSUME NEW x \in Rows
  PROVE  /\ [x EXCEPT !.delivery = "sent"].state = x.state
         /\ [x EXCEPT !.secret = FALSE].state = x.state
         /\ [x EXCEPT !.consumed = TRUE, !.secret = FALSE].state = x.state
         /\ [x EXCEPT !.expired = TRUE, !.cooling = FALSE].state = x.state
         /\ [x EXCEPT !.cooling = FALSE].state = x.state
         /\ Renewed(x).state = x.state
         /\ Missed(x).state = x.state
         /\ Used(x).state = x.state
  BY DEF Rows, Renewed, Missed, Used

(* What makes a challenge disappear: another login or registration that     *)
(* replaces it, or a first code that could not be mailed.                   *)
LEMMA NextCooling ==
  ASSUME Inv, [Next]_vars, NEW k \in Challenges,
         Active(k), row[k].cooling, row'[k].state = "gone"
  PROVE  row[k].version = 1 /\ row[k].delivery = "pending"
  <1> USE DEF Active, Live, local, history
  <1>1. row[k] \in Rows /\ ~UNCHANGED row
    BY DEF Inv, TypeOK
  <1>2. ASSUME NEW r \in Requests, BeginWrite(r) PROVE FALSE
    <2>1. PICK purged \in SUBSET Expired : k \in Doomed(r, purged) /\ PreviousStands(r)
      BY <1>1, <1>2 DEF BeginWrite, NewRow, Inv, Places
    <2>2. k = prev[r]
      BY <2>1 DEF Doomed, Expired
    <2>3. pc[r] \in {"login", "register"} /\ prev[r] # NoChallenge
      BY <1>2, <2>2, NamesAssumption DEF BeginWrite
    <2>4. QED
      BY <2>1, <2>2, <2>3 DEF PreviousStands, Inv, Replaceable
  <1>3. ASSUME NEW r \in Requests, MarkRefused(r)
        PROVE  row[k].version = 1 /\ row[k].delivery = "pending"
    <2>1. k = at[r] /\ ver[r] = 1
      BY <1>1, <1>3 DEF MarkRefused, Rows
    <2>2. QED
      BY <1>3, <2>1 DEF MarkRefused, Inv, Places, RowInv
  <1>4. ASSUME NEW r \in Requests, MarkSent(r) \/ Wipe(r) PROVE FALSE
    <2>1. row'[k] \in {row[k], [row[k] EXCEPT !.delivery = "sent"], [row[k] EXCEPT !.secret = FALSE]}
      BY <1>4 DEF MarkSent, Wipe, Inv, TypeOK
    <2>2. row'[k].state = row[k].state
      BY <1>1, <2>1, StateKept
    <2>3. QED
      BY <2>2
  <1>5. ASSUME NEW r \in Requests, ResendWrite(r) PROVE FALSE
    <2>1. row'[k] \in {row[k], Renewed(row[k])}
      BY <1>5 DEF ResendWrite, Inv, TypeOK
    <2>2. row'[k].state = row[k].state
      BY <1>1, <2>1, StateKept
    <2>3. QED
      BY <2>2
  <1>6. ASSUME NEW r \in Requests, ClaimWrite(r) \/ Commit(r) PROVE FALSE
    <2>1. row'[k] \in {row[k], Missed(row[k]), Used(row[k])}
      BY <1>6 DEF ClaimWrite, Commit, Inv, TypeOK
    <2>2. QED
      BY <1>1, <2>1, StateKept
  <1>7. ASSUME NEW x \in Challenges, Cancel(x) \/ Expire(x) \/ CoolDown(x) PROVE FALSE
    <2>1. \/ row'[k] = row[k]
          \/ row'[k] = [row[k] EXCEPT !.consumed = TRUE, !.secret = FALSE]
          \/ row'[k] = [row[k] EXCEPT !.expired = TRUE, !.cooling = FALSE]
          \/ row'[k] = [row[k] EXCEPT !.cooling = FALSE]
      BY <1>7 DEF Cancel, Expire, CoolDown, Inv, TypeOK
    <2>2. row'[k].state = row[k].state
      BY <1>1, <2>1, StateKept
    <2>3. QED
      BY <2>2
  <1>8. ASSUME NEW r \in Requests, Request(r)
        PROVE  \/ BeginWrite(r) \/ MarkSent(r) \/ MarkRefused(r) \/ Wipe(r)
               \/ ResendWrite(r) \/ ClaimWrite(r) \/ Commit(r)
    BY <1>1, <1>8 DEF Request, BeginRead, FindInactive, ResendRead, ClaimRead, Mail,
       Identity, StartSession, Abort
  <1>9. ~\E e \in Emails : SetAccount(e)
    BY <1>1 DEF SetAccount
  <1>10. QED
    BY <1>1, <1>2, <1>3, <1>4, <1>5, <1>6, <1>7, <1>8, <1>9 DEF Next, vars

(* No login or registration takes away a challenge that was just renewed. *)
THEOREM RenewedStands == Spec => CoolingStands
  <1>1. Inv /\ [Next]_vars =>
          [\A k \in Challenges :
             Active(k) /\ row[k].cooling /\ row'[k].state = "gone" =>
                 row[k].version = 1 /\ row[k].delivery = "pending"]_vars
    BY NextCooling
  <1>2. QED
    BY <1>1, InvHolds, PTL DEF Spec, CoolingStands
=============================================================================
