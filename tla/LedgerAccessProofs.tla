-------------------------- MODULE LedgerAccessProofs --------------------------
(***************************************************************************)
(* What every request to the API goes through.  What AuditLedger promises  *)
(* of the chain, for any requests, events and damage: what a table that    *)
(* verifies is worth, and, where requests append one after another, that   *)
(* an undamaged table verifies.  What Access promises of sessions, of the  *)
(* states of the OIDC sign-in and of the rate limit, for any number of     *)
(* requests, sessions and seconds.  What LegalRecords promises of a launch,*)
(* for any clients, processes, intimations and bodies.                     *)
(***************************************************************************)
EXTENDS AuditLedger, Access, LegalRecords, Integers, FiniteSetTheorems, WellFoundedInduction, TLAPS

-----------------------------------------------------------------------------
(* Times, rows and digests. *)

(* A set of times has its last. *)
LEMMA HasLast ==
  ASSUME NEW n \in Nat, NEW S \in SUBSET (1..n), S # {}
  PROVE  \E t \in S : \A u \in S : u <= t
  <1> DEFINE Rest == {x \in Nat : \E t \in S : x + t = n}
             R == OpToRel(<, Nat)
  <1>1. IsWellFoundedOn(R, Nat)
    BY NatLessThanWellFounded
  <1>2. ASSUME NEW t \in S PROVE \E x \in Rest : x + t = n
    <2>1. t \in 1..n
      OBVIOUS
    <2>2. n - t \in Nat /\ (n - t) + t = n
      BY <2>1
    <2>3. QED
      BY <2>2
  <1>3. Rest \subseteq Nat /\ Rest # {}
    BY <1>2
  <1>4. \E x \in Rest : \A y \in Rest : ~(<<y, x>> \in R)
    <2> HIDE DEF R, Rest
    <2> QED BY <1>1, <1>3, WFMin
  <1>5. PICK x \in Rest : \A y \in Rest : ~(y < x)
    BY <1>3, <1>4 DEF OpToRel
  <1>6. PICK t \in S : x + t = n
    OBVIOUS
  <1>7. ASSUME NEW u \in S PROVE u <= t
    <2>1. PICK y \in Rest : y + u = n
      BY <1>2
    <2>2. QED
      BY <1>5, <1>6, <2>1
  <1>8. QED
    BY <1>7

(* A set of times has its first. *)
LEMMA HasFirst ==
  ASSUME NEW S \in SUBSET Nat, S # {}
  PROVE  \E t \in S : \A u \in S : t <= u
  <1> DEFINE R == OpToRel(<, Nat)
  <1>1. IsWellFoundedOn(R, Nat)
    BY NatLessThanWellFounded
  <1>2. \E x \in S : \A y \in S : ~(<<y, x>> \in R)
    <2> HIDE DEF R
    <2> QED BY <1>1, WFMin
  <1>3. PICK t \in S : \A y \in S : ~(<<y, t>> \in R)
    BY <1>2
  <1>4. ASSUME NEW u \in S PROVE t <= u
    <2>1. ~(u < t)
      BY <1>3 DEF OpToRel
    <2>2. QED
      BY <2>1
  <1>5. QED
    BY <1>4

(* Of the rows of times up to n, the one that is read as the last is one. *)
LEMMA LatestIsLast ==
  ASSUME NEW n \in Nat, NEW rows, DOMAIN rows \subseteq 1..n, DOMAIN rows # {}
  PROVE  Latest(rows) \in DOMAIN rows /\ \A u \in DOMAIN rows : u <= Latest(rows)
  <1>1. \E t \in DOMAIN rows : \A u \in DOMAIN rows : u <= t
    BY HasLast
  <1>2. QED
    BY <1>1 DEF Latest

(* A digest is a sequence of payloads, and one more makes it one longer. *)
LEMMA DigestFacts ==
  ASSUME NEW h \in Digests, NEW p \in Payloads
  PROVE  /\ h \in Seq(Payloads) /\ Len(h) \in 0..MaxTime
         /\ Len(digest(h, p)) = Len(h) + 1 /\ digest(h, p) \in Seq(Payloads)
         /\ Len(h) < MaxTime => digest(h, p) \in Digests
         /\ digest(h, p)[Len(h) + 1] = p
         /\ \A i \in 1..Len(h) : digest(h, p)[i] = h[i]
  <1>0. MaxTime \in Nat
    BY BoundsAssumption
  <1>1. PICK n \in 0..MaxTime : h \in [1..n -> Payloads]
    BY DEF Digests
  <1>2. h \in Seq(Payloads) /\ Len(h) = n
    BY <1>0, <1>1
  <1>3. digest(h, p) \in Seq(Payloads) /\ Len(digest(h, p)) = n + 1
    BY <1>2 DEF digest
  <1>4. digest(h, p) \in [1..(n + 1) -> Payloads]
    BY <1>3
  <1>5. Len(h) < MaxTime => digest(h, p) \in Digests
    BY <1>0, <1>2, <1>4 DEF Digests
  <1>6. QED
    BY <1>0, <1>2, <1>3, <1>5 DEF digest

LEMMA GenesisIsDigest == Genesis \in Digests /\ Len(Genesis) = 0
  <1>1. 0 \in 0..MaxTime /\ Genesis \in [1..0 -> Payloads]
    BY BoundsAssumption DEF Genesis
  <1>2. QED
    BY <1>1 DEF Digests, Genesis

-----------------------------------------------------------------------------
(* Types. *)

(* Rows of times up to n, whose digests are no longer than that. *)
RowsUpTo(rows, n) ==
    /\ DOMAIN rows \subseteq 1..n
    /\ \A t \in DOMAIN rows : rows[t] \in Rows /\ Len(rows[t].hash) <= n

TypeInv ==
    /\ TypeOK
    /\ RowsUpTo(table, clock) /\ RowsUpTo(written, clock)
    /\ DOMAIN pending = Requests
    /\ \A q \in Requests : /\ RowsUpTo(pending[q], clock)
                           /\ Len(head[q]) <= clock
                           /\ pc[q] = "stamp" => appended[q] < MaxPerRequest

LEMMA MergedRows ==
  ASSUME NEW older, NEW newer, NEW n \in Nat, RowsUpTo(older, n), RowsUpTo(newer, n)
  PROVE  RowsUpTo(Merge(older, newer), n)
  BY DEF RowsUpTo, Merge

LEMMA EmptyRows ==
  ASSUME NEW n \in Nat
  PROVE  RowsUpTo(Empty, n)
  BY DEF RowsUpTo, Empty

LEMMA TypeInitInv == Init => TypeInv
  <1> SUFFICES ASSUME Init PROVE TypeInv
    OBVIOUS
  <1>1. RowsUpTo(Empty, 0)
    BY EmptyRows
  <1>2. TypeOK
    BY BoundsAssumption, GenesisIsDigest DEF Init, TypeOK, Empty
  <1>3. QED
    BY <1>1, <1>2, GenesisIsDigest DEF Init, TypeInv

LEMMA TypeReadHead ==
  ASSUME TypeInv, NEW q \in Requests, ReadHead(q)
  PROVE  TypeInv'
  <1>1. clock \in Nat /\ RowsUpTo(Sees(q), clock)
    BY BoundsAssumption, MergedRows DEF TypeInv, TypeOK, Sees
  <1>2. head'[q] \in Digests /\ Len(head'[q]) <= clock
    <2>1. CASE DOMAIN Sees(q) = {}
      BY <1>1, <2>1, GenesisIsDigest DEF ReadHead, TypeInv, TypeOK
    <2>2. CASE DOMAIN Sees(q) # {}
      <3>1. Latest(Sees(q)) \in DOMAIN Sees(q)
        BY <1>1, <2>2, LatestIsLast DEF RowsUpTo
      <3>2. head'[q] = Sees(q)[Latest(Sees(q))].hash
        BY <2>2 DEF ReadHead, TypeInv, TypeOK
      <3>3. QED
        BY <1>1, <3>1, <3>2 DEF RowsUpTo, Rows
    <2>3. QED
      BY <2>1, <2>2
  <1>3. TypeOK'
    BY <1>2 DEF TypeInv, TypeOK, ReadHead
  <1>4. QED
    BY <1>2, <1>3 DEF TypeInv, TypeOK, ReadHead

(* The new row, and that it is one. *)
LEMMA StampedRow ==
  ASSUME TypeInv, NEW q \in Requests, NEW d \in Data, clock < MaxTime
  PROVE  /\ clock \in Nat /\ clock + 1 \in 1..MaxTime
         /\ Event(q, d) \in Rows /\ Len(Event(q, d).hash) <= clock + 1
  <1>1. clock \in Nat /\ clock + 1 \in 1..MaxTime /\ <<clock + 1, d>> \in Payloads
    BY BoundsAssumption DEF TypeInv, TypeOK, Payloads
  <1>2. head[q] \in Digests /\ Len(head[q]) <= clock
    BY DEF TypeInv, TypeOK
  <1>3. /\ digest(head[q], <<clock + 1, d>>) \in Digests
        /\ Len(digest(head[q], <<clock + 1, d>>)) <= clock + 1
    <2>1. /\ Len(head[q]) \in 0..MaxTime
          /\ Len(digest(head[q], <<clock + 1, d>>)) = Len(head[q]) + 1
          /\ Len(head[q]) < MaxTime => digest(head[q], <<clock + 1, d>>) \in Digests
      BY <1>1, <1>2, DigestFacts
    <2>2. MaxTime \in Nat /\ Len(head[q]) < MaxTime
      BY <1>1, <1>2, <2>1, BoundsAssumption
    <2>3. QED
      BY <1>1, <1>2, <2>1, <2>2
  <1>4. QED
    BY <1>1, <1>2, <1>3 DEF Event, Rows

LEMMA TypeStamp ==
  ASSUME TypeInv, NEW q \in Requests, Stamp(q)
  PROVE  TypeInv'
  <1>1. PICK d \in Data :
          pending' = [pending EXCEPT ![q] = Merge(@, [t \in {clock + 1} |-> Event(q, d)])]
    BY DEF Stamp
  <1>2. clock' = clock + 1 /\ clock \in Nat /\ clock' \in 1..MaxTime
    BY StampedRow DEF Stamp
  <1>3. ASSUME NEW rows, RowsUpTo(rows, clock) PROVE RowsUpTo(rows, clock')
    BY <1>2, <1>3, DigestFacts DEF RowsUpTo, Rows
  <1>4. RowsUpTo([t \in {clock + 1} |-> Event(q, d)], clock')
    BY <1>2, StampedRow DEF RowsUpTo, Stamp
  <1>5. \A r \in Requests : RowsUpTo(pending'[r], clock')
    BY <1>1, <1>2, <1>3, <1>4, MergedRows DEF TypeInv
  <1>6. RowsUpTo(table', clock') /\ RowsUpTo(written', clock')
    BY <1>3 DEF TypeInv, Stamp
  <1>7. TypeOK'
    <2>1. pc' \in [Requests -> {"new", "append", "stamp", "done"}] /\ appended' \in [Requests -> 0..MaxPerRequest]
      BY BoundsAssumption DEF TypeInv, TypeOK, Stamp
    <2>2. \A r \in Requests : pc'[r] \in {"new", "done"} => pending'[r] = Empty
      BY <1>1 DEF TypeInv, TypeOK, Stamp
    <2>3. 1..clock' \subseteq 1..MaxTime
      BY <1>2, BoundsAssumption
    <2>4. /\ DOMAIN table' \subseteq 1..MaxTime /\ \A t \in DOMAIN table' : table'[t] \in Rows
          /\ DOMAIN written' \subseteq 1..clock'
          /\ \A r \in Requests : /\ DOMAIN pending'[r] \subseteq 1..clock'
                                 /\ \A t \in DOMAIN pending'[r] : pending'[r][t] \in Rows
      BY <1>5, <1>6, <2>3 DEF RowsUpTo
    <2>5. clock' \in 0..MaxTime /\ head' \in [Requests -> Digests] /\ damage' \in 0..MaxDamage
      BY <1>2, BoundsAssumption DEF TypeInv, TypeOK, Stamp
    <2>6. QED
      BY <2>1, <2>2, <2>4, <2>5 DEF TypeOK
  <1>8. \A r \in Requests : Len(head'[r]) <= clock'
    BY <1>2, DigestFacts DEF TypeInv, TypeOK, Stamp
  <1>9. QED
    BY <1>1, <1>5, <1>6, <1>7, <1>8 DEF TypeInv, TypeOK, Stamp

LEMMA TypeLeave ==
  ASSUME TypeInv, NEW q \in Requests, Commit(q) \/ Rollback(q)
  PROVE  TypeInv'
  <1>1. Leave(q) /\ UNCHANGED <<clock, damage>> /\ clock \in Nat
    BY BoundsAssumption DEF Commit, Rollback, TypeInv, TypeOK
  <1>2. RowsUpTo(table', clock') /\ RowsUpTo(written', clock')
    BY <1>1, MergedRows DEF Commit, Rollback, TypeInv
  <1>3. \A r \in Requests : RowsUpTo(pending'[r], clock') /\ Len(head'[r]) <= clock'
    BY <1>1, EmptyRows, GenesisIsDigest DEF TypeInv, TypeOK, Leave
  <1>4. TypeOK'
    BY <1>1, <1>2, <1>3, GenesisIsDigest, BoundsAssumption DEF TypeInv, TypeOK, Leave, RowsUpTo
  <1>5. QED
    BY <1>1, <1>2, <1>3, <1>4 DEF TypeInv, TypeOK, Leave

(* An alteration is of what a row says, or of where it came from. *)
LEMMA Altered ==
  ASSUME TypeInv, NEW t \in 1..MaxTime, Alter(t)
  PROVE  /\ t \in DOMAIN table /\ DOMAIN table' = DOMAIN table
         /\ \A u \in DOMAIN table : /\ table'[u] \in Rows /\ table'[u].hash = table[u].hash
                                    /\ table'[u].previous = table[u].previous
  <1>1. \A u \in DOMAIN table : table[u] \in Rows
    BY DEF TypeInv, TypeOK
  <1>2. CASE \E d \in Data : table' = [table EXCEPT ![t].data = d]
    BY <1>1, <1>2 DEF Alter, Rows
  <1>3. CASE \E o \in Requests : table' = [table EXCEPT ![t].origin = o]
    BY <1>1, <1>3 DEF Alter, Rows
  <1>4. QED
    BY <1>2, <1>3 DEF Alter

LEMMA TypeDamage ==
  ASSUME TypeInv, NEW t \in 1..MaxTime, Lose(t) \/ Alter(t)
  PROVE  TypeInv'
  <1>1. UNCHANGED <<clock, pc, head, pending, appended, written>> /\ damage' \in 0..MaxDamage
    BY BoundsAssumption DEF Lose, Alter, TypeInv, TypeOK
  <1>2. RowsUpTo(table', clock)
    <2>1. CASE Lose(t)
      BY <2>1 DEF Lose, TypeInv, RowsUpTo
    <2>2. CASE Alter(t)
      BY <2>2, Altered DEF TypeInv, RowsUpTo
    <2>3. QED
      BY <2>1, <2>2
  <1>3. TypeOK'
    <2>1. 1..clock \subseteq 1..MaxTime
      BY BoundsAssumption DEF TypeInv, TypeOK
    <2>2. QED
      BY <1>1, <1>2, <2>1 DEF TypeInv, TypeOK, RowsUpTo
  <1>4. QED
    BY <1>1, <1>2, <1>3 DEF TypeInv

LEMMA TypeNextInv == TypeInv /\ [Next]_vars => TypeInv'
  <1> SUFFICES ASSUME TypeInv, [Next]_vars PROVE TypeInv'
    OBVIOUS
  <1>1. ASSUME NEW q \in Requests, Begin(q) PROVE TypeInv'
    BY <1>1 DEF Begin, TypeInv, TypeOK, RowsUpTo
  <1>2. CASE UNCHANGED vars
    BY <1>2 DEF vars, TypeInv, TypeOK, RowsUpTo
  <1>3. QED
    BY <1>1, <1>2, TypeReadHead, TypeStamp, TypeLeave, TypeDamage DEF Next

LEMMA TypeHolds == Spec => []TypeInv
  BY TypeInitInv, TypeNextInv, PTL DEF Spec

(* append_audit: rows, digests and the steps of requests keep their types.   *)
THEOREM TypeCorrect == Spec => []TypeOK
  <1>1. TypeInv => TypeOK
    BY DEF TypeInv
  <1>2. QED
    BY TypeHolds, <1>1, PTL

-----------------------------------------------------------------------------
(* What a table that verifies is worth. *)

(* The requests chain each row that they write to some digest, and damage     *)
(* leaves the digests of the rows that are left as they are.                  *)
Chained(rows) ==
    \A t \in DOMAIN rows : rows[t].hash = digest(rows[t].previous, <<t, rows[t].data>>)

WrittenInv ==
    /\ Chained(written) /\ \A q \in Requests : Chained(pending[q])
    /\ DOMAIN table \subseteq DOMAIN written
    /\ \A t \in DOMAIN table : /\ table[t].hash = written[t].hash
                               /\ table[t].previous = written[t].previous

LEMMA WrittenInitInv == Init => WrittenInv
  BY DEF Init, WrittenInv, Chained, Empty

LEMMA WrittenStep ==
  ASSUME TypeInv, WrittenInv, NEW q \in Requests, ReadHead(q) \/ Stamp(q) \/ Commit(q) \/ Rollback(q)
  PROVE  WrittenInv'
  <1>1. CASE ReadHead(q)
    BY <1>1 DEF ReadHead, WrittenInv, Chained
  <1>2. CASE Stamp(q)
    <2>1. PICK d \in Data :
            pending' = [pending EXCEPT ![q] = Merge(@, [t \in {clock + 1} |-> Event(q, d)])]
      BY <1>2 DEF Stamp
    <2>2. Chained([t \in {clock + 1} |-> Event(q, d)])
      BY DEF Chained, Event
    <2>3. Chained(Merge(pending[q], [t \in {clock + 1} |-> Event(q, d)]))
      BY <2>2 DEF WrittenInv, Chained, Merge
    <2>4. \A r \in Requests : Chained(pending'[r])
      BY <2>1, <2>3 DEF TypeInv, WrittenInv
    <2>5. QED
      BY <1>2, <2>4 DEF Stamp, WrittenInv, Chained
  <1>3. CASE Commit(q) \/ Rollback(q)
    <2>1. \A r \in Requests : Chained(pending'[r])
      BY <1>3 DEF Commit, Rollback, Leave, TypeInv, WrittenInv, Chained, Empty
    <2>2. CASE Commit(q)
      BY <2>1, <2>2 DEF Commit, WrittenInv, Chained, Merge
    <2>3. CASE Rollback(q)
      BY <2>1, <2>3 DEF Rollback, WrittenInv, Chained
    <2>4. QED
      BY <1>3, <2>2, <2>3
  <1>4. QED
    BY <1>1, <1>2, <1>3

LEMMA WrittenDamage ==
  ASSUME TypeInv, WrittenInv, NEW t \in 1..MaxTime, Lose(t) \/ Alter(t)
  PROVE  WrittenInv'
  <1>1. /\ DOMAIN table' \subseteq DOMAIN table
        /\ \A u \in DOMAIN table' : /\ table'[u].hash = table[u].hash
                                    /\ table'[u].previous = table[u].previous
    <2>1. CASE Lose(t)
      BY <2>1 DEF Lose
    <2>2. CASE Alter(t)
      BY <2>2, Altered
    <2>3. QED
      BY <2>1, <2>2
  <1>2. UNCHANGED <<pending, written>>
    BY DEF Lose, Alter
  <1>3. QED
    BY <1>1, <1>2 DEF WrittenInv, Chained

LEMMA WrittenNextInv == TypeInv /\ WrittenInv /\ [Next]_vars => WrittenInv'
  <1> SUFFICES ASSUME TypeInv, WrittenInv, [Next]_vars PROVE WrittenInv'
    OBVIOUS
  <1>1. ASSUME NEW q \in Requests, Begin(q) PROVE WrittenInv'
    BY <1>1 DEF Begin, WrittenInv, Chained
  <1>2. CASE UNCHANGED vars
    BY <1>2 DEF vars, WrittenInv, Chained
  <1>3. QED
    BY <1>1, <1>2, WrittenStep, WrittenDamage DEF Next

LEMMA WrittenHolds == Spec => []WrittenInv
  BY TypeHolds, WrittenInitInv, WrittenNextInv, PTL DEF Spec

(* The last payload of a digest says what it covers of its row. *)
LEMMA VerifiedAsWritten ==
  ASSUME TypeInv, WrittenInv, verify_chain(table), NEW t \in DOMAIN table
  PROVE  SameCovered(table[t], written[t])
  <1>1. /\ table[t] \in Rows /\ written[t] \in Rows /\ t \in 1..MaxTime
        /\ table[t].hash = written[t].hash /\ table[t].previous = written[t].previous
    BY BoundsAssumption DEF TypeInv, TypeOK, WrittenInv, RowsUpTo
  <1>2. /\ table[t].hash = digest(table[t].previous, <<t, table[t].data>>)
        /\ written[t].hash = digest(written[t].previous, <<t, written[t].data>>)
    BY DEF verify_chain, Linked, WrittenInv, Chained
  <1>3. <<t, table[t].data>> \in Payloads /\ <<t, written[t].data>> \in Payloads
    BY <1>1 DEF Rows, Payloads
  <1>4. table[t].previous \in Digests
    BY <1>1 DEF Rows
  <1>5. <<t, table[t].data>> = <<t, written[t].data>>
    <2> DEFINE h == table[t].previous
               x == <<t, table[t].data>>
               y == <<t, written[t].data>>
    <2>1. digest(h, x) = digest(h, y)
      BY <1>1, <1>2
    <2>2. digest(h, x)[Len(h) + 1] = x /\ digest(h, y)[Len(h) + 1] = y
      <3> HIDE DEF h, x, y
      <3> QED BY <1>3, <1>4, DigestFacts DEF h, x, y
    <2>3. QED
      BY <2>1, <2>2
  <1>6. table[t].data = written[t].data
    BY <1>5
  <1>7. QED
    BY <1>1, <1>6 DEF SameCovered

(* Along a chain that verifies a digest lists the rows up to its own: of the  *)
(* rows for which that fails there would be a first.                          *)
LEMMA VerifiedCovers ==
  ASSUME TypeInv, verify_chain(table)
  PROVE  \A t \in DOMAIN table : Covers(table[t].hash, t)
  <1> DEFINE Bad == {t \in DOMAIN table : ~Covers(table[t].hash, t)}
  <1>0. /\ clock \in Nat /\ DOMAIN table \subseteq 1..clock
        /\ \A t \in DOMAIN table : table[t] \in Rows /\ t \in 1..MaxTime
    BY BoundsAssumption DEF TypeInv, TypeOK, RowsUpTo
  <1> SUFFICES ASSUME Bad # {} PROVE FALSE
    OBVIOUS
  <1>1. PICK t \in Bad : \A u \in Bad : t <= u
    <2>1. Bad \in SUBSET Nat
      BY <1>0
    <2>2. QED
      BY <2>1, HasFirst
  <1> DEFINE earlier == {u \in DOMAIN table : u < t}
             p == <<t, table[t].data>>
  <1>2. /\ t \in DOMAIN table /\ t \in Nat /\ table[t].hash = digest(Prior(table, t), p)
        /\ p \in Payloads
    BY <1>0 DEF verify_chain, Linked, Rows, Payloads
  <1>3. CASE earlier = {}
    <2>1. Prior(table, t) = Genesis
      BY <1>3 DEF Prior
    <2>2. table[t].hash = <<p>>
      BY <1>2, <2>1 DEF digest, Genesis
    <2>3. \A u \in DOMAIN table : u <= t => u = t
      BY <1>0, <1>2, <1>3
    <2>4. DOMAIN <<p>> = {1} /\ <<p>>[1] = p
      OBVIOUS
    <2>5. Covers(table[t].hash, t)
      BY <1>2, <2>2, <2>3, <2>4 DEF Covers
    <2>6. QED
      BY <2>5
  <1>4. CASE earlier # {}
    <2> DEFINE v == CHOOSE u \in earlier : \A w \in earlier : w <= u
               h == table[v].hash
    <2>1. v \in earlier /\ \A w \in earlier : w <= v
      <3>1. earlier \in SUBSET (1..clock)
        BY <1>0
      <3>2. \E u \in earlier : \A w \in earlier : w <= u
        BY <1>0, <1>4, <3>1, HasLast
      <3>3. QED
        BY <3>2
    <2>2. Prior(table, t) = h
      BY <1>4 DEF Prior
    <2>3. v \in DOMAIN table /\ v < t /\ v \in Nat /\ h \in Digests
      BY <1>0, <2>1 DEF Rows
    <2>4. Covers(h, v)
      BY <1>1, <1>2, <2>3
    <2>5. \A u \in DOMAIN table : u <= t => u = t \/ u <= v
      BY <1>0, <1>2, <2>1
    <2> DEFINE n == Len(h)
               g == digest(h, p)
    <2>6. /\ n \in Nat /\ DOMAIN h = 1..n /\ DOMAIN g = 1..(n + 1)
          /\ g[n + 1] = p /\ \A i \in 1..n : g[i] = h[i]
      <3> HIDE DEF v, h, p
      <3>1. /\ h \in Seq(Payloads) /\ n \in Nat /\ g \in Seq(Payloads) /\ Len(g) = n + 1
            /\ g[n + 1] = p /\ \A i \in 1..n : g[i] = h[i]
        BY <1>2, <2>3, DigestFacts, BoundsAssumption
      <3>2. QED
        BY <3>1
    <2> HIDE DEF v, h, g, n, p, earlier
    <2>7. \A i \in DOMAIN g : \E u \in DOMAIN table : u <= t /\ g[i] = <<u, table[u].data>>
      <3> SUFFICES ASSUME NEW i \in DOMAIN g
                   PROVE  \E u \in DOMAIN table : u <= t /\ g[i] = <<u, table[u].data>>
        OBVIOUS
      <3>1. CASE i = n + 1
        BY <1>2, <2>6, <3>1 DEF p
      <3>2. CASE i \in 1..n
        <4>1. PICK u \in DOMAIN table : u <= v /\ h[i] = <<u, table[u].data>>
          BY <2>4, <2>6, <3>2 DEF Covers
        <4>2. u <= t /\ g[i] = h[i]
          BY <1>0, <1>2, <2>3, <2>6, <3>2, <4>1
        <4>3. QED
          BY <4>1, <4>2
      <3>3. QED
        BY <2>6, <3>1, <3>2
    <2>8. \A i \in 1..n : h[i][1] <= v
      BY <2>4, <2>6 DEF Covers
    <2>9. ASSUME NEW i \in DOMAIN g, NEW j \in DOMAIN g, i < j PROVE g[i][1] < g[j][1]
      <3>1. i \in 1..n /\ g[i] = h[i]
        BY <2>6, <2>9
      <3>2. CASE j \in 1..n
        BY <2>4, <2>6, <2>9, <3>1, <3>2 DEF Covers
      <3>3. CASE j = n + 1
        <4>1. g[j][1] = t
          BY <2>6, <3>3 DEF p
        <4>2. h[i][1] <= v /\ h[i][1] \in Nat
          BY <1>0, <2>4, <2>6, <2>8, <3>1 DEF Covers
        <4>3. QED
          BY <1>2, <2>3, <3>1, <4>1, <4>2
      <3>4. QED
        BY <2>6, <3>2, <3>3
    <2>10. ASSUME NEW u \in DOMAIN table, u <= t PROVE \E i \in DOMAIN g : g[i][1] = u
      <3>1. CASE u = t
        BY <2>6, <3>1 DEF p
      <3>2. CASE u <= v
        BY <2>4, <2>6, <3>2 DEF Covers
      <3>3. QED
        BY <2>5, <2>10, <3>1, <3>2
    <2>11. Covers(g, t)
      BY <2>7, <2>9, <2>10 DEF Covers
    <2>12. QED
      BY <1>2, <2>2, <2>11 DEF g
  <1>5. QED
    BY <1>3, <1>4

(* verify_chain: whatever was lost or altered, and however requests           *)
(* overlapped, what the rows of a table that verifies say, and when, is as it *)
(* was written, and the digest of each lists all the rows up to it.  Of the   *)
(* columns that no digest covers, the origin here, it promises nothing.       *)
THEOREM VerifiedIsWritten == Spec => []ValidIsWritten
  <1>1. TypeInv /\ WrittenInv => ValidIsWritten
    BY VerifiedAsWritten, VerifiedCovers DEF ValidIsWritten, SameCovered
  <1>2. QED
    BY TypeHolds, WrittenHolds, <1>1, PTL
-----------------------------------------------------------------------------
(* Where requests append one after another, the chain verifies. *)

LastHash(rows) == IF DOMAIN rows = {} THEN Genesis ELSE rows[Latest(rows)].hash

(* One request is under way at most; while nothing is damaged the table       *)
(* verifies, with the rows that the request adds as well, and the request has *)
(* read the last of them.                                                     *)
ChainInv ==
    /\ Open = {} \/ \E q \in Requests : Open = {q}
    /\ damage = 0 =>
          /\ verify_chain(table)
          /\ \A q \in Open : /\ verify_chain(Sees(q))
                             /\ pc[q] = "stamp" => head[q] = LastHash(Sees(q))

LEMMA ChainInitInv == Init => ChainInv
  BY DEF Init, ChainInv, Open, verify_chain, Empty

(* The verification looks at the rows and at nothing else. *)
LEMMA SameRows ==
  ASSUME NEW a, NEW b, DOMAIN a = DOMAIN b, \A t \in DOMAIN a : a[t] = b[t],
         NEW n \in Nat, DOMAIN a \subseteq 1..n
  PROVE  /\ verify_chain(a) <=> verify_chain(b)
         /\ LastHash(a) = LastHash(b)
  <1>1. ASSUME NEW t \in DOMAIN a PROVE Prior(a, t) = Prior(b, t)
    <2> DEFINE earlier == {u \in DOMAIN a : u < t}
               v == CHOOSE u \in earlier : \A w \in earlier : w <= u
    <2>1. CASE earlier = {}
      BY <2>1 DEF Prior
    <2>2. CASE earlier # {}
      <3>1. earlier \in SUBSET (1..n)
        OBVIOUS
      <3>2. v \in earlier
        <4>1. \E u \in earlier : \A w \in earlier : w <= u
          BY <2>2, <3>1, HasLast
        <4>2. QED
          BY <4>1
      <3>3. Prior(a, t) = a[v].hash /\ Prior(b, t) = b[v].hash
        BY <2>2 DEF Prior
      <3>4. QED
        BY <3>2, <3>3
    <2>3. QED
      BY <2>1, <2>2
  <1>2. verify_chain(a) <=> verify_chain(b)
    BY <1>1 DEF verify_chain, Linked
  <1>3. CASE DOMAIN a # {}
    <2>1. Latest(a) = Latest(b)
      BY DEF Latest
    <2>2. Latest(a) \in DOMAIN a
      BY <1>3, LatestIsLast
    <2>3. QED
      BY <1>2, <1>3, <2>1, <2>2 DEF LastHash
  <1>4. CASE DOMAIN a = {}
    BY <1>2, <1>4 DEF LastHash
  <1>5. QED
    BY <1>3, <1>4

(* A row that is chained to the last one extends a chain that verifies. *)
LEMMA Extended ==
  ASSUME NEW rows, NEW n \in Nat, DOMAIN rows \subseteq 1..n, verify_chain(rows),
         NEW e, e.previous = LastHash(rows),
         e.hash = digest(LastHash(rows), <<n + 1, e.data>>)
  PROVE  verify_chain(Merge(rows, [t \in {n + 1} |-> e]))
  <1> DEFINE all == Merge(rows, [t \in {n + 1} |-> e])
  <1>1. /\ DOMAIN all = DOMAIN rows \union {n + 1} /\ all[n + 1] = e
        /\ \A t \in DOMAIN rows : all[t] = rows[t] /\ t \in Nat /\ t < n + 1
    BY DEF Merge
  <1> HIDE DEF all
  <1>2. ASSUME NEW t \in DOMAIN rows PROVE Linked(all, t)
    <2> DEFINE earlier == {u \in DOMAIN rows : u < t}
               v == CHOOSE u \in earlier : \A w \in earlier : w <= u
    <2>1. {u \in DOMAIN all : u < t} = earlier
      BY <1>1
    <2>2. Prior(all, t) = Prior(rows, t)
      <3>1. CASE earlier = {}
        BY <2>1, <3>1 DEF Prior
      <3>2. CASE earlier # {}
        <4>1. \E u \in earlier : \A w \in earlier : w <= u
          <5>1. earlier \in SUBSET (1..n)
            OBVIOUS
          <5>2. QED
            BY <3>2, <5>1, HasLast
        <4>2. v \in earlier
          BY <4>1
        <4>3. Prior(all, t) = all[v].hash /\ Prior(rows, t) = rows[v].hash
          BY <2>1, <3>2 DEF Prior
        <4>4. QED
          BY <1>1, <4>2, <4>3
      <3>3. QED
        BY <3>1, <3>2
    <2>3. QED
      BY <1>1, <2>2 DEF verify_chain, Linked
  <1>3. Linked(all, n + 1)
    <2>1. {u \in DOMAIN all : u < n + 1} = DOMAIN rows
      BY <1>1
    <2>2. Prior(all, n + 1) = LastHash(rows)
      <3>1. CASE DOMAIN rows = {}
        BY <2>1, <3>1 DEF Prior, LastHash
      <3>2. CASE DOMAIN rows # {}
        <4>1. Prior(all, n + 1) = all[Latest(rows)].hash
          BY <2>1, <3>2 DEF Prior, Latest
        <4>2. Latest(rows) \in DOMAIN rows
          BY <3>2, LatestIsLast
        <4>3. QED
          BY <1>1, <3>2, <4>1, <4>2 DEF LastHash
      <3>3. QED
        BY <3>1, <3>2
    <2>3. QED
      BY <1>1, <2>2 DEF Linked
  <1>4. QED
    BY <1>1, <1>2, <1>3 DEF verify_chain, all

LEMMA ChainBegin ==
  ASSUME MaxOpen = 1, TypeInv, ChainInv, NEW q \in Requests, Begin(q)
  PROVE  ChainInv'
  <1>1. Open = {}
    <2>1. ASSUME NEW r \in Requests, Open = {r} PROVE FALSE
      <3>1. Cardinality({r}) = 1
        BY FS_Singleton
      <3>2. QED
        BY <2>1, <3>1 DEF Begin
    <2>2. QED
      BY <2>1 DEF ChainInv
  <1>2. /\ pc' = [pc EXCEPT ![q] = "append"] /\ pc \in [Requests -> {"new", "append", "stamp", "done"}]
        /\ UNCHANGED <<table, pending, head, damage>> /\ pending[q] = Empty
    BY DEF Begin, TypeInv, TypeOK
  <1>3. Open' = {q}
    BY <1>1, <1>2 DEF Open
  <1>4. verify_chain(Sees(q)) <=> verify_chain(table)
    <2>1. DOMAIN Sees(q) = DOMAIN table /\ \A t \in DOMAIN table : Sees(q)[t] = table[t]
      BY <1>2 DEF Sees, Merge, Empty
    <2>2. clock \in Nat /\ DOMAIN table \subseteq 1..clock
      BY BoundsAssumption DEF TypeInv, TypeOK, RowsUpTo
    <2>3. QED
      BY <2>1, <2>2, SameRows
  <1>5. Sees(q)' = Sees(q) /\ pc'[q] = "append"
    BY <1>2 DEF Sees
  <1>6. verify_chain(table)' = verify_chain(table) /\ verify_chain(Sees(q))' = verify_chain(Sees(q))
    BY <1>2, <1>5 DEF verify_chain, Linked, Prior
  <1>7. damage' = damage /\ pc'[q] # "stamp"
    BY <1>2, <1>5
  <1>8. QED
    BY <1>3, <1>4, <1>6, <1>7 DEF ChainInv

LEMMA ChainReadHead ==
  ASSUME TypeInv, ChainInv, NEW q \in Requests, ReadHead(q)
  PROVE  ChainInv'
  <1>1. /\ head' = [head EXCEPT ![q] = LastHash(Sees(q))] /\ pc' = [pc EXCEPT ![q] = "stamp"]
        /\ UNCHANGED <<table, pending, damage>> /\ q \in Open
    BY DEF ReadHead, LastHash, Open
  <1>2. Open' = Open
    BY <1>1 DEF Open, TypeInv, TypeOK
  <1>3. \A r \in Open : r = q
    BY <1>1 DEF ChainInv
  <1>4. head'[q] = LastHash(Sees(q)) /\ Sees(q)' = Sees(q)
    BY <1>1 DEF Sees, TypeInv, TypeOK
  <1>5. verify_chain(table)' = verify_chain(table) /\ verify_chain(Sees(q))' = verify_chain(Sees(q))
    BY <1>1, <1>4 DEF verify_chain, Linked, Prior
  <1>6. LastHash(Sees(q))' = LastHash(Sees(q))
    BY <1>4 DEF LastHash, Latest
  <1>7. QED
    BY <1>1, <1>2, <1>3, <1>4, <1>5, <1>6 DEF ChainInv

LEMMA ChainStamp ==
  ASSUME TypeInv, ChainInv, NEW q \in Requests, Stamp(q)
  PROVE  ChainInv'
  <1>1. PICK d \in Data :
          pending' = [pending EXCEPT ![q] = Merge(@, [t \in {clock + 1} |-> Event(q, d)])]
    BY DEF Stamp
  <1>2. /\ pc' = [pc EXCEPT ![q] = "append"] /\ UNCHANGED <<table, damage>>
        /\ q \in Open /\ pc[q] = "stamp"
    BY DEF Stamp, Open
  <1>3. Open' = Open /\ \A r \in Open : r = q
    BY <1>2 DEF ChainInv, Open, TypeInv, TypeOK
  <1>4. ASSUME damage = 0 PROVE verify_chain(Sees(q)')
    <2> DEFINE new == [t \in {clock + 1} |-> Event(q, d)]
    <2>1. verify_chain(Sees(q)) /\ head[q] = LastHash(Sees(q))
      BY <1>2, <1>4 DEF ChainInv
    <2>2. clock \in Nat /\ RowsUpTo(Sees(q), clock)
      BY BoundsAssumption, MergedRows DEF TypeInv, TypeOK, Sees
    <2>3. verify_chain(Merge(Sees(q), new))
      <3>1. /\ Event(q, d).previous = LastHash(Sees(q)) /\ Event(q, d).data = d
            /\ Event(q, d).hash = digest(LastHash(Sees(q)), <<clock + 1, d>>)
        BY <2>1 DEF Event
      <3>2. QED
        BY <2>1, <2>2, <3>1, Extended DEF RowsUpTo
    <2>4. Sees(q)' = Merge(table, Merge(pending[q], new))
      BY <1>1, <1>2 DEF Sees, TypeInv
    <2>5. Merge(table, Merge(pending[q], new)) = Merge(Sees(q), new)
      BY DEF Merge, Sees
    <2>6. QED
      BY <2>3, <2>4, <2>5
  <1>5. verify_chain(table)' = verify_chain(table)
    BY <1>2 DEF verify_chain, Linked, Prior
  <1>6. verify_chain(Sees(q))' = verify_chain(Sees(q)')
    BY DEF verify_chain, Linked, Prior
  <1>7. QED
    BY <1>2, <1>3, <1>4, <1>5, <1>6 DEF ChainInv, TypeInv, TypeOK

LEMMA ChainLeave ==
  ASSUME TypeInv, ChainInv, NEW q \in Requests, Commit(q) \/ Rollback(q)
  PROVE  ChainInv'
  <1>1. /\ pc' = [pc EXCEPT ![q] = "done"] /\ UNCHANGED damage /\ q \in Open
        /\ table' = Sees(q) \/ table' = table
    BY DEF Commit, Rollback, Leave, Open, Sees
  <1>2. Open' = {}
    BY <1>1 DEF ChainInv, Open, TypeInv, TypeOK
  <1>3. verify_chain(table)' = verify_chain(table')
    BY DEF verify_chain, Linked, Prior
  <1>4. QED
    BY <1>1, <1>2, <1>3 DEF ChainInv

LEMMA ChainNextInv == MaxOpen = 1 /\ TypeInv /\ ChainInv /\ [Next]_vars => ChainInv'
  <1> SUFFICES ASSUME MaxOpen = 1, TypeInv, ChainInv, [Next]_vars PROVE ChainInv'
    OBVIOUS
  <1>1. ASSUME NEW t \in 1..MaxTime, Lose(t) \/ Alter(t) PROVE ChainInv'
    <2>1. UNCHANGED pc /\ damage' # 0
      BY <1>1, BoundsAssumption DEF Lose, Alter, TypeInv, TypeOK
    <2>2. QED
      BY <2>1 DEF ChainInv, Open
  <1>2. CASE UNCHANGED vars
    <2>1. UNCHANGED <<table, pc, head, pending, damage>>
      BY <1>2 DEF vars
    <2>2. Open' = Open /\ (verify_chain(table)' <=> verify_chain(table))
      BY <2>1 DEF Open, verify_chain, Linked, Prior
    <2>3. ASSUME NEW q \in Open
          PROVE  /\ verify_chain(Sees(q))' <=> verify_chain(Sees(q))
                 /\ LastHash(Sees(q))' = LastHash(Sees(q))
      BY <2>1 DEF Sees, Merge, verify_chain, Linked, Prior, LastHash, Latest
    <2>4. QED
      BY <2>1, <2>2, <2>3 DEF ChainInv
  <1>3. QED
    BY <1>1, <1>2, ChainBegin, ChainReadHead, ChainStamp, ChainLeave DEF Next

(* append_audit: where requests append one after another, an event lost       *)
(* with a request that is rolled back, or two of one request, leave the       *)
(* chain of an undamaged table as verify_chain expects it.                    *)
THEOREM SequentialVerifies ==
  ASSUME MaxOpen = 1
  PROVE  Spec => []UndamagedVerifies
  <1>1. TypeInv /\ ChainInv /\ [Next]_vars => ChainInv'
    BY ChainNextInv
  <1>2. ChainInv => UndamagedVerifies
    BY DEF ChainInv, UndamagedVerifies
  <1>3. QED
    BY TypeHolds, ChainInitInv, <1>1, <1>2, PTL DEF Spec

-----------------------------------------------------------------------------
(* Sessions and states of the sign-in. *)

Calls(n) == [kind : {"signIn", "renew", "logout"}, at : {"exchange", "create", "end", "answer"},
             old : 0..n, state : 0..n, new : 0..n]

\* Every id that is anywhere was handed out.
IdsFit ==
    /\ made \in 0..MaxIds
    /\ stored \subseteq 1..made /\ memory \subseteq 1..made /\ states \subseteq 1..made
    /\ cookie \in 0..made /\ browserState \in 0..made
    /\ given \subseteq 1..made /\ ended \subseteq 1..made
    /\ calls \subseteq Calls(made)

\* Whether the ends of sessions can be relied on.
Heard == ~(Development /\ deaf)

\* A call that has ended the old session knows it dead.
EndsFit == Heard => /\ ended \intersect Live = {}
                    /\ \A c \in calls : c.at = "answer" => c.old \notin Live

\* Undisturbed, one call is under way, about the session that the browser
\* holds; when it comes to its answer nothing that was given is alive.
CallsFit ==
    ~disturbed =>
        /\ \A c, d \in calls : c = d
        /\ Heard =>
             /\ calls = {} => given \intersect Live \subseteq {cookie}
             /\ \A c \in calls :
                  IF c.at = "answer" THEN given \intersect Live = {}
                  ELSE c.old = cookie /\ given \intersect Live \subseteq {cookie}

\* A state that can still be used was not, and is in one call at most.
StatesFit ==
    /\ signedIn \in [1..MaxIds -> 0..1]
    /\ \A s \in 1..MaxIds : s \in states \/ s > made =>
          signedIn[s] = 0 /\ \A c \in calls : c.at = "exchange" => c.state # s
    /\ \A c \in calls : c.at = "exchange" =>
          /\ c.state \in 1..made /\ signedIn[c.state] = 0
          /\ \A d \in calls : d.at = "exchange" /\ d.state = c.state => d = c

SessionInv == IdsFit /\ EndsFit /\ CallsFit /\ StatesFit

LEMMA SessionInitInv == AccessInit => SessionInv
  <1> SUFFICES ASSUME AccessInit PROVE SessionInv
    OBVIOUS
  <1>1. IdsFit /\ EndsFit /\ CallsFit
    BY AccessAssumption DEF AccessInit, IdsFit, EndsFit, CallsFit, Live
  <1>2. StatesFit
    BY AccessAssumption DEF AccessInit, StatesFit
  <1>3. QED
    BY <1>1, <1>2 DEF SessionInv

(* More ids make more calls, and a step of a call is one. *)
LEMMA MoreCalls ==
  ASSUME NEW n \in Nat
  PROVE  Calls(n) \subseteq Calls(n + 1)
  <1>1. 0..n \subseteq 0..(n + 1)
    OBVIOUS
  <1>2. QED
    BY <1>1 DEF Calls

LEMMA CallMoves ==
  ASSUME NEW n \in Nat, NEW c \in Calls(n), NEW a \in {"exchange", "create", "end", "answer"}
  PROVE  LET d == [c EXCEPT !.at = a] IN d \in Calls(n) /\ d.at = a /\ d.old = c.old
  BY DEF Calls

LEMMA CallHasNew ==
  ASSUME NEW n \in Nat, NEW c \in Calls(n)
  PROVE  LET d == [c EXCEPT !.at = "end", !.new = n] IN d \in Calls(n) /\ d.at = "end" /\ d.old = c.old
  <1> DEFINE e == [c EXCEPT !.at = "end"]
             d == [e EXCEPT !.new = n]
  <1>1. e \in Calls(n) /\ e.at = "end" /\ e.old = c.old
    BY CallMoves
  <1>2. d \in Calls(n) /\ d.at = e.at /\ d.old = e.old
    <2> HIDE DEF e
    <2>1. n \in 0..n
      OBVIOUS
    <2>2. QED
      BY <1>1, <2>1 DEF Calls
  <1>3. [c EXCEPT !.at = "end", !.new = n] = d
    BY DEF Calls
  <1>4. QED
    BY <1>1, <1>2, <1>3

LEMMA LoginStep ==
  ASSUME SessionInv, OidcLogin
  PROVE  SessionInv'
  <1>1. /\ made \in Nat /\ made' = made + 1 /\ made < MaxIds
        /\ states' = states \union {made + 1} /\ browserState' = made + 1
        /\ UNCHANGED <<deployed, stored, memory, cookie, calls, given, ended, signedIn, disturbed, deaf>>
    BY AccessAssumption DEF OidcLogin, SessionInv, IdsFit, accessHistory
  <1>2. calls \subseteq Calls(made') /\ 0..made \subseteq 0..made' /\ 1..made \subseteq 1..made'
    BY <1>1, MoreCalls DEF SessionInv, IdsFit
  <1>3. IdsFit'
    BY <1>1, <1>2, AccessAssumption DEF SessionInv, IdsFit
  <1>4. EndsFit' /\ CallsFit'
    BY <1>1 DEF SessionInv, EndsFit, CallsFit, Heard, Development, Live
  <1>5. StatesFit'
    BY <1>1, <1>2, AccessAssumption DEF SessionInv, StatesFit, IdsFit
  <1>6. QED
    BY <1>3, <1>4, <1>5 DEF SessionInv

(* A call begins with the session that the browser holds. *)
LEMMA EnterStep ==
  ASSUME SessionInv, NEW c \in Calls(made), c.at # "answer", c.old = cookie, Enter(c),
         UNCHANGED <<deployed, stored, memory, cookie, browserState, made, given, ended, signedIn, deaf>>,
         \/ UNCHANGED states /\ c.at # "exchange"
         \/ c.at = "exchange" /\ c.state \in states /\ states' = states \ {c.state}
  PROVE  SessionInv'
  <1>1. calls' = calls \union {c} /\ disturbed' = (disturbed \/ calls # {})
    BY DEF Enter
  <1>2. IdsFit'
    BY <1>1 DEF SessionInv, IdsFit
  <1>3. EndsFit'
    BY <1>1 DEF SessionInv, EndsFit, Heard, Development, Live
  <1>4. CallsFit'
    <2> SUFFICES ASSUME ~disturbed, calls = {} PROVE CallsFit'
      BY <1>1 DEF CallsFit
    <2>1. calls' = {c}
      BY <1>1
    <2>2. QED
      BY <2>1 DEF SessionInv, CallsFit, Heard, Development, Live
  <1>5. StatesFit'
    <2>0. made \in Nat /\ MaxIds \in Nat /\ made <= MaxIds /\ states \subseteq 1..made
      BY AccessAssumption DEF SessionInv, IdsFit
    <2>1. CASE UNCHANGED states /\ c.at # "exchange"
      BY <1>1, <2>1 DEF SessionInv, StatesFit
    <2>2. CASE c.at = "exchange" /\ c.state \in states /\ states' = states \ {c.state}
      <3>1. c.state \in 1..made /\ c.state \in 1..MaxIds
        <4>1. c.state \in 1..made
          BY <2>0, <2>2
        <4>2. 1..made \subseteq 1..MaxIds
          BY <2>0
        <4>3. QED
          BY <4>1, <4>2
      <3>2. signedIn[c.state] = 0 /\ \A d \in calls : d.at = "exchange" => d.state # c.state
        BY <2>2, <3>1 DEF SessionInv, StatesFit
      <3>3. ASSUME NEW s \in 1..MaxIds, s \in states' \/ s > made
            PROVE  signedIn[s] = 0 /\ \A d \in calls' : d.at = "exchange" => d.state # s
        BY <1>1, <2>0, <2>2, <3>1, <3>3 DEF SessionInv, StatesFit
      <3>4. ASSUME NEW d \in calls', d.at = "exchange"
            PROVE  /\ d.state \in 1..made /\ signedIn[d.state] = 0
                   /\ \A e \in calls' : e.at = "exchange" /\ e.state = d.state => e = d
        BY <1>1, <3>1, <3>2, <3>4 DEF SessionInv, StatesFit
      <3>5. QED
        BY <3>3, <3>4 DEF SessionInv, StatesFit
    <2>3. QED
      BY <2>1, <2>2
  <1>6. QED
    BY <1>2, <1>3, <1>4, <1>5 DEF SessionInv

LEMMA ArriveStep ==
  ASSUME SessionInv, Renew \/ Logout \/ \E s \in 1..MaxIds : OidcCallback(s)
  PROVE  SessionInv'
  <1>0. made \in Nat /\ cookie \in 0..made
    BY AccessAssumption DEF SessionInv, IdsFit
  <1>1. CASE Renew
    <2> DEFINE c == [kind |-> "renew", at |-> "create", old |-> cookie, state |-> 0, new |-> 0]
    <2>1. c \in Calls(made) /\ c.at # "answer" /\ c.at # "exchange" /\ c.old = cookie
      BY <1>0 DEF Calls
    <2>2. Enter(c) /\ UNCHANGED states /\ UNCHANGED <<deployed, stored, memory, cookie, browserState, made,
                                                     given, ended, signedIn, deaf>>
      BY <1>1 DEF Renew
    <2>3. QED
      BY <2>1, <2>2, EnterStep
  <1>2. CASE Logout
    <2> DEFINE c == [kind |-> "logout", at |-> "end", old |-> cookie, state |-> 0, new |-> 0]
    <2>1. c \in Calls(made) /\ c.at # "answer" /\ c.at # "exchange" /\ c.old = cookie
      BY <1>0 DEF Calls
    <2>2. Enter(c) /\ UNCHANGED states /\ UNCHANGED <<deployed, stored, memory, cookie, browserState, made,
                                                     given, ended, signedIn, deaf>>
      BY <1>2 DEF Logout
    <2>3. QED
      BY <2>1, <2>2, EnterStep
  <1>3. ASSUME NEW s \in 1..MaxIds, OidcCallback(s) PROVE SessionInv'
    <2> DEFINE c == [kind |-> "signIn", at |-> "exchange", old |-> cookie, state |-> s, new |-> 0]
    <2>1. s \in states /\ states' = states \ {s} /\ s \in 0..made
      BY <1>0, <1>3 DEF OidcCallback, SessionInv, IdsFit
    <2>2. c \in Calls(made) /\ c.at # "answer" /\ c.at = "exchange" /\ c.old = cookie /\ c.state = s
      BY <1>0, <2>1 DEF Calls
    <2>3. Enter(c) /\ UNCHANGED <<deployed, stored, memory, cookie, browserState, made,
                                 given, ended, signedIn, deaf>>
      BY <1>3 DEF OidcCallback
    <2>4. QED
      BY <2>1, <2>2, <2>3, EnterStep
  <1>4. QED
    BY <1>1, <1>2, <1>3

\* Where no call newly comes to use a state, each state is used once still.
LEMMA StatesKept ==
  ASSUME SessionInv, UNCHANGED signedIn, states' \subseteq states,
         made' \in Nat, made <= made', \A d \in calls' : d.at = "exchange" => d \in calls
  PROVE  StatesFit'
  <1>1. made \in Nat /\ 1..made \subseteq 1..made'
    BY DEF SessionInv, IdsFit
  <1>2. ASSUME NEW s \in 1..MaxIds, s \in states' \/ s > made'
        PROVE  signedIn[s] = 0 /\ \A d \in calls' : d.at = "exchange" => d.state # s
    <2>1. s \in states \/ s > made
      BY <1>1, <1>2, AccessAssumption
    <2>2. QED
      BY <2>1 DEF SessionInv, StatesFit
  <1>3. ASSUME NEW d \in calls', d.at = "exchange"
        PROVE  /\ d.state \in 1..made' /\ signedIn[d.state] = 0
               /\ \A e \in calls' : e.at = "exchange" /\ e.state = d.state => e = d
    BY <1>1, <1>3 DEF SessionInv, StatesFit
  <1>4. QED
    BY <1>2, <1>3 DEF SessionInv, StatesFit

\* What is undisturbed has no other call than the one that makes a step.
LEMMA Alone ==
  ASSUME SessionInv, ~disturbed, NEW c \in calls
  PROVE  calls = {c}
  BY DEF SessionInv, CallsFit

LEMMA ExchangeStep ==
  ASSUME SessionInv, NEW c \in calls, Exchange(c)
  PROVE  SessionInv'
  <1> DEFINE d == [c EXCEPT !.at = "create"]
  <1>1. /\ calls' = (calls \ {c}) \union {d} /\ c.at = "exchange"
        /\ signedIn' = [signedIn EXCEPT ![c.state] = @ + 1]
        /\ UNCHANGED <<deployed, stored, memory, cookie, states, browserState, made, given, ended,
                       disturbed, deaf>>
    BY DEF Exchange, Step
  <1>0. made \in Nat /\ c \in Calls(made)
    BY AccessAssumption DEF SessionInv, IdsFit
  <1>2. d \in Calls(made) /\ d.at = "create" /\ d.old = c.old
    BY <1>0, CallMoves
  <1> HIDE DEF d
  <1>3. IdsFit'
    BY <1>0, <1>1, <1>2 DEF SessionInv, IdsFit
  <1>4. EndsFit'
    BY <1>1, <1>2 DEF SessionInv, EndsFit, Heard, Development, Live
  <1>5. CallsFit'
    <2> SUFFICES ASSUME ~disturbed PROVE CallsFit'
      BY <1>1 DEF CallsFit
    <2>1. calls' = {d}
      BY <1>1, Alone
    <2>2. QED
      BY <1>1, <1>2, <2>1 DEF SessionInv, CallsFit, Heard, Development, Live
  <1>6. StatesFit'
    <2>1. c.state \in 1..made /\ signedIn[c.state] = 0 /\ c.state \in 1..MaxIds
          /\ \A e \in calls : e.at = "exchange" /\ e.state = c.state => e = c
      BY <1>1, AccessAssumption DEF SessionInv, StatesFit, IdsFit
    <2>2. signedIn' \in [1..MaxIds -> 0..1]
      BY <1>1, <2>1 DEF SessionInv, StatesFit
    <2>3. ASSUME NEW s \in 1..MaxIds, s \in states \/ s > made
          PROVE  signedIn'[s] = 0 /\ \A e \in calls' : e.at = "exchange" => e.state # s
      <3>1. s # c.state
        BY <1>1, <2>3 DEF SessionInv, StatesFit
      <3>2. QED
        BY <1>1, <1>2, <2>3, <3>1 DEF SessionInv, StatesFit
    <2>4. ASSUME NEW e \in calls', e.at = "exchange"
          PROVE  /\ e.state \in 1..made /\ signedIn'[e.state] = 0
                 /\ \A g \in calls' : g.at = "exchange" /\ g.state = e.state => g = e
      <3>1. e \in calls /\ e # c
        BY <1>1, <1>2, <2>4
      <3>2. e.state # c.state /\ e.state \in 1..made /\ e.state \in 1..MaxIds
        BY <2>1, <2>4, <3>1, AccessAssumption DEF SessionInv, StatesFit, IdsFit
      <3>3. QED
        BY <1>1, <1>2, <2>4, <3>1, <3>2 DEF SessionInv, StatesFit
    <2>5. QED
      BY <1>1, <2>2, <2>3, <2>4 DEF StatesFit
  <1>7. QED
    BY <1>3, <1>4, <1>5, <1>6 DEF SessionInv

\* A session that is new is nobody's yet.
LEMMA CreateStep ==
  ASSUME SessionInv, NEW c \in calls, Create(c)
  PROVE  SessionInv'
  <1> DEFINE d == [c EXCEPT !.at = "end", !.new = made + 1]
  <1>0. made \in Nat /\ MaxIds \in Nat /\ made <= MaxIds
    BY AccessAssumption DEF SessionInv, IdsFit
  <1>1. /\ calls' = (calls \ {c}) \union {d} /\ c.at = "create" /\ made' = made + 1 /\ made < MaxIds
        /\ stored' \subseteq stored \union {made + 1} /\ memory' \subseteq memory \union {made + 1}
        /\ UNCHANGED <<deployed, cookie, states, browserState, given, ended, signedIn, disturbed, deaf>>
    BY DEF Create, Step, accessHistory
  <1>2. c \in Calls(made) /\ calls \subseteq Calls(made') /\ 0..made \subseteq 0..made' /\ 1..made \subseteq 1..made'
    BY <1>0, <1>1, MoreCalls DEF SessionInv, IdsFit
  <1>3. d \in Calls(made') /\ d.at = "end" /\ d.old = c.old
    <2>1. made + 1 \in Nat /\ c \in Calls(made + 1) /\ made' = made + 1
      BY <1>0, <1>1, <1>2, MoreCalls
    <2>2. d \in Calls(made + 1) /\ d.at = "end" /\ d.old = c.old
      BY <2>1, CallHasNew
    <2>3. QED
      BY <2>1, <2>2
  <1> HIDE DEF d
  <1>4. IdsFit'
    <2>1. made' \in 0..MaxIds /\ made + 1 \in 1..made'
      BY <1>0, <1>1
    <2>2. QED
      BY <1>1, <1>2, <1>3, <2>1 DEF SessionInv, IdsFit
  <1>5. made + 1 \notin given /\ made + 1 \notin ended /\ \A e \in calls : e.old # made + 1
    BY <1>0 DEF SessionInv, IdsFit, Calls
  <1>6. EndsFit'
    BY <1>1, <1>3, <1>5 DEF SessionInv, EndsFit, Heard, Development, Live
  <1>7. CallsFit'
    <2> SUFFICES ASSUME ~disturbed PROVE CallsFit'
      BY <1>1 DEF CallsFit
    <2>1. calls' = {d}
      BY <1>1, Alone
    <2>2. QED
      BY <1>1, <1>3, <1>5, <2>1 DEF SessionInv, CallsFit, Heard, Development, Live
  <1>8. StatesFit'
    BY <1>0, <1>1, <1>3, StatesKept
  <1>9. QED
    BY <1>4, <1>6, <1>7, <1>8 DEF SessionInv

\* A call is left without an answer; of the sessions it made or ended, any may
\* be alive, but none that was given.
LEMMA LeaveStep ==
  ASSUME SessionInv, NEW c \in calls, CreateUnheard(c) \/ Refuse(c) \/ FailEnd(c) \/ LoseAnswer(c)
  PROVE  SessionInv'
  <1>0. made \in Nat /\ MaxIds \in Nat /\ made <= MaxIds
    BY AccessAssumption DEF SessionInv, IdsFit
  <1>1. /\ calls' = calls \ {c}
        /\ UNCHANGED <<deployed, cookie, states, browserState, given, ended, signedIn, deaf>>
        /\ \/ UNCHANGED made
           \/ made' = made + 1 /\ made < MaxIds
        /\ Live' \subseteq Live \union (1..made' \ 1..made)
        /\ stored' \subseteq 1..made' /\ memory' \subseteq 1..made'
        /\ disturbed' = disturbed \/ disturbed' = TRUE
        /\ ~disturbed' => c.at # "answer"
    <2>1. CASE CreateUnheard(c)
      <3>1. /\ made' = made + 1 /\ made < MaxIds /\ made + 1 \in 1..made' \ 1..made
            /\ 1..made \subseteq 1..made'
        BY <1>0, <2>1 DEF CreateUnheard
      <3>2. QED
        BY <2>1, <3>1 DEF CreateUnheard, LeaveCall, accessHistory, SessionInv, IdsFit, Live
    <2>2. CASE Refuse(c)
      BY <2>2 DEF Refuse, LeaveCall, accessHistory, SessionInv, IdsFit, Live
    <2>3. CASE FailEnd(c)
      BY <2>3 DEF FailEnd, LeaveCall, accessHistory, SessionInv, IdsFit, Live
    <2>4. CASE LoseAnswer(c)
      BY <2>4 DEF LoseAnswer, LeaveCall, SessionInv, IdsFit, Live
    <2>5. QED
      BY <2>1, <2>2, <2>3, <2>4
  <1>2. made' \in 0..MaxIds /\ 0..made \subseteq 0..made' /\ 1..made \subseteq 1..made' /\ calls \subseteq Calls(made')
    BY <1>0, <1>1, MoreCalls DEF SessionInv, IdsFit
  <1>3. IdsFit'
    <2>1. disturbed' \in BOOLEAN \/ TRUE
      OBVIOUS
    <2>2. QED
      BY <1>1, <1>2 DEF SessionInv, IdsFit
  <1>4. /\ given \intersect Live' \subseteq Live /\ ended \intersect Live' \subseteq Live
        /\ \A e \in calls : e.old \in Live' => e.old \in Live
    <2>1. 0 \notin Live'
      BY <1>1 DEF Live
    <2>2. \A e \in calls : e.old \in 0..made
      BY DEF SessionInv, IdsFit, Calls
    <2>3. QED
      BY <1>0, <1>1, <2>1, <2>2 DEF SessionInv, IdsFit
  <1>5. EndsFit'
    BY <1>1, <1>4 DEF SessionInv, EndsFit, Heard, Development
  <1>6. CallsFit'
    <2> SUFFICES ASSUME ~disturbed' PROVE CallsFit'
      BY DEF CallsFit
    <2>1. ~disturbed /\ calls = {c} /\ calls' = {} /\ c.at # "answer"
      BY <1>1, Alone
    <2>2. Heard => given \intersect Live \subseteq {cookie}
      BY <2>1 DEF SessionInv, CallsFit
    <2>3. QED
      BY <1>1, <1>4, <2>1, <2>2 DEF CallsFit, Heard, Development
  <1>7. StatesFit'
    BY <1>0, <1>1, <1>2, StatesKept
  <1>8. QED
    BY <1>3, <1>5, <1>6, <1>7 DEF SessionInv

LEMMA EndOldStep ==
  ASSUME SessionInv, NEW c \in calls, EndOld(c)
  PROVE  SessionInv'
  <1> DEFINE d == [c EXCEPT !.at = "answer"]
  <1>0. made \in Nat
    BY AccessAssumption DEF SessionInv, IdsFit
  <1>1. /\ calls' = (calls \ {c}) \union {d} /\ c.at = "end"
        /\ stored' \subseteq stored /\ memory' \subseteq memory
        /\ UNCHANGED <<deployed, cookie, states, browserState, made, given, ended, signedIn, disturbed>>
        /\ Heard' => Heard /\ c.old \notin Live'
    <2>1. CASE c.old = 0
      <3>1. 0 \notin Live
        BY DEF SessionInv, IdsFit, Live
      <3>2. QED
        BY <2>1, <3>1 DEF EndOld, Step, Heard, Development, Live
    <2>2. CASE c.old # 0
      BY <2>2 DEF EndOld, Step, DeleteSession, Heard, Development, Live
    <2>3. QED
      BY <2>1, <2>2
  <1>2. d \in Calls(made) /\ d.at = "answer" /\ d.old = c.old
    BY <1>0, CallMoves DEF SessionInv, IdsFit
  <1> HIDE DEF d
  <1>3. IdsFit'
    BY <1>1, <1>2 DEF SessionInv, IdsFit
  <1>4. Live' \subseteq Live
    BY <1>1 DEF Live
  <1>5. EndsFit'
    BY <1>1, <1>2, <1>4 DEF SessionInv, EndsFit
  <1>6. CallsFit'
    <2> SUFFICES ASSUME ~disturbed PROVE CallsFit'
      BY <1>1 DEF CallsFit
    <2>1. calls = {c} /\ calls' = {d}
      BY <1>1, Alone
    <2>2. Heard => c.old = cookie /\ given \intersect Live \subseteq {cookie}
      BY <1>1 DEF SessionInv, CallsFit
    <2>3. Heard' => given \intersect Live' = {}
      BY <1>1, <1>4, <2>2
    <2>4. QED
      BY <1>1, <1>2, <2>1, <2>3 DEF CallsFit
  <1>7. StatesFit'
    BY <1>0, <1>1, <1>2, StatesKept
  <1>8. QED
    BY <1>3, <1>5, <1>6, <1>7 DEF SessionInv

LEMMA AnswerStep ==
  ASSUME SessionInv, NEW c \in calls, AnswerCall(c)
  PROVE  SessionInv'
  <1>0. made \in Nat /\ c \in Calls(made)
    BY AccessAssumption DEF SessionInv, IdsFit
  <1>1. /\ calls' = calls \ {c} /\ c.at = "answer" /\ cookie' = c.new
        /\ given' = given \union ({c.new} \ {0}) /\ ended' = ended \union ({c.old} \ {0})
        /\ browserState' \in {0, browserState}
        /\ UNCHANGED <<deployed, stored, memory, states, made, signedIn, disturbed, deaf>>
    BY DEF AnswerCall, LeaveCall
  <1>2. c.new \in 0..made /\ c.old \in 0..made
    BY <1>0 DEF Calls
  <1>3. IdsFit'
    <2>1. {c.new} \ {0} \subseteq 1..made /\ {c.old} \ {0} \subseteq 1..made /\ 0 \in 0..made
      BY <1>0, <1>2
    <2>2. QED
      BY <1>1, <1>2, <2>1 DEF SessionInv, IdsFit
  <1>4. EndsFit'
    BY <1>1 DEF SessionInv, EndsFit, Heard, Development, Live
  <1>5. CallsFit'
    <2> SUFFICES ASSUME ~disturbed PROVE CallsFit'
      BY <1>1 DEF CallsFit
    <2>1. calls = {c} /\ calls' = {}
      BY <1>1, Alone
    <2>2. Heard => given \intersect Live = {}
      BY <1>1 DEF SessionInv, CallsFit
    <2>3. QED
      BY <1>1, <2>1, <2>2 DEF CallsFit, Heard, Development, Live
  <1>6. StatesFit'
    BY <1>0, <1>1, StatesKept
  <1>7. QED
    BY <1>3, <1>4, <1>5, <1>6 DEF SessionInv

\* The environment makes sessions fewer and calls none.
LEMMA EnvironmentStep ==
  ASSUME SessionInv,
         \/ RedisChanges \/ SuspendOrLift \/ \E id \in Live : ExpireSession(id)
         \/ \E environment \in {"development", "production"} : StartProcess(environment)
         \/ UNCHANGED <<deployed, sessionVars, accessHistory>>
  PROVE  SessionInv'
  <1>0. made \in Nat
    BY AccessAssumption DEF SessionInv, IdsFit
  <1>1. /\ UNCHANGED <<cookie, browserState, made, given, ended, signedIn, deaf>>
        /\ stored' \subseteq stored /\ memory' \subseteq memory /\ states' \subseteq states
        /\ Development => Development'
        /\ \/ UNCHANGED <<calls, disturbed>>
           \/ calls' = {} /\ disturbed' = (disturbed \/ calls # {})
    BY DEF RedisChanges, SuspendOrLift, ExpireSession, StartProcess, sessionVars, accessHistory, Development
  <1>2. Live' \subseteq Live /\ (Heard' => Heard)
    BY <1>1 DEF Live, Heard
  <1>3. IdsFit' /\ EndsFit'
    BY <1>1, <1>2 DEF SessionInv, IdsFit, EndsFit
  <1>4. CallsFit'
    <2>1. CASE UNCHANGED <<calls, disturbed>>
      <3>1. ASSUME ~disturbed, Heard PROVE /\ calls = {} => given \intersect Live' \subseteq {cookie}
                                           /\ \A c \in calls :
                                                IF c.at = "answer" THEN given \intersect Live' = {}
                                                ELSE c.old = cookie /\ given \intersect Live' \subseteq {cookie}
        BY <1>2, <3>1 DEF SessionInv, CallsFit
      <3>2. QED
        BY <1>1, <1>2, <2>1, <3>1 DEF SessionInv, CallsFit
    <2>2. CASE calls' = {} /\ disturbed' = (disturbed \/ calls # {})
      <3>1. ~disturbed' => ~disturbed /\ calls = {}
        BY <2>2
      <3>2. QED
        BY <1>1, <1>2, <2>2, <3>1 DEF SessionInv, CallsFit
    <2>3. QED
      BY <1>1, <2>1, <2>2
  <1>5. StatesFit'
    BY <1>0, <1>1, StatesKept
  <1>6. QED
    BY <1>3, <1>4, <1>5 DEF SessionInv

LEMMA SessionNextInv == SessionInv /\ [SessionNext \/ RateNext]_accessVars => SessionInv'
  <1> SUFFICES ASSUME SessionInv, [SessionNext \/ RateNext]_accessVars PROVE SessionInv'
    OBVIOUS
  <1>1. CASE SessionNext
    BY <1>1, LoginStep, ArriveStep, ExchangeStep, CreateStep, LeaveStep, EndOldStep, AnswerStep,
       EnvironmentStep DEF SessionNext
  <1>2. CASE RateNext
    BY <1>2, EnvironmentStep DEF RateNext, Attempt, NextSecond
  <1>3. CASE UNCHANGED accessVars
    BY <1>3, EnvironmentStep DEF accessVars
  <1>4. QED
    BY <1>1, <1>2, <1>3

LEMMA SessionHolds == AccessSpec => []SessionInv
  BY SessionInitInv, SessionNextInv, PTL DEF AccessSpec

-----------------------------------------------------------------------------
(* The rate limit. *)

\* The seconds of a window, and that windows come one after another.
LEMMA WindowFacts ==
  ASSUME NEW t \in Nat
  PROVE  /\ Window(t) \in Nat
         /\ Window(t) * Span \in Nat
         /\ Window(t) * Span <= t /\ t < Window(t) * Span + Span
  BY AccessAssumption DEF Window

LEMMA WindowsFollow ==
  ASSUME NEW t \in Nat, NEW u \in Nat, t <= u
  PROVE  Window(t) <= Window(u)
  <1> DEFINE v == Window(t)
             w == Window(u)
  <1>1. /\ v \in Nat /\ w \in Nat /\ v * Span <= t /\ u < w * Span + Span
        /\ v * Span \in Nat /\ w * Span \in Nat /\ Span \in Nat
    BY WindowFacts, AccessAssumption
  <1> HIDE DEF v, w
  <1>2. ASSUME w + 1 <= v PROVE FALSE
    <2>1. (w + 1) * Span <= v * Span
      BY <1>1, <1>2
    <2>2. (w + 1) * Span = w * Span + Span
      BY <1>1
    <2>3. QED
      BY <1>1, <2>1, <2>2
  <1>3. QED
    BY <1>1, <1>2 DEF v, w

AtMost(n) == IF n <= Limit THEN n ELSE Limit

\* The fallback began anew within the window of now.
Restarted == fallback.reset >= Window(second) * Span + Span

\* What the process may have allowed in the window of now: what it counts, and
\* before it began anew as much again.
Room == AtMost(fallback.count) + (IF Restarted THEN Limit ELSE 0)

RateFits ==
    /\ deployed \in {"none", "development", "production"}
    /\ second \in 1..MaxSecond
    /\ hits \in [0..(MaxSecond \div Span) -> 0..(Limit + 1)]
    /\ granted \in [0..(MaxSecond \div Span) -> Nat]
    /\ fallback \in [count : 0..(Limit + 1), reset : Nat]

RateInv ==
    /\ RateFits
    /\ \A v \in DOMAIN hits :
          /\ v > Window(second) \/ deployed = "none" => granted[v] = 0
          /\ granted[v] <= IF Development THEN 3 * Limit ELSE AtMost(hits[v])
    /\ granted[Window(second)] <= AtMost(hits[Window(second)]) + Room

LEMMA WindowOf ==
  ASSUME NEW t \in 1..MaxSecond
  PROVE  Window(t) \in 0..(MaxSecond \div Span)
  <1>1. t \in Nat /\ MaxSecond \in Nat /\ t <= MaxSecond
    BY AccessAssumption
  <1>2. Window(t) \in Nat /\ Window(MaxSecond) \in Nat /\ Window(t) <= Window(MaxSecond)
    BY <1>1, WindowFacts, WindowsFollow
  <1>3. QED
    BY <1>2 DEF Window

LEMMA WindowCounted ==
  ASSUME RateFits
  PROVE  Window(second) \in 0..(MaxSecond \div Span)
  BY WindowOf DEF RateFits

LEMMA RateInitInv == AccessInit => RateInv
  <1> SUFFICES ASSUME AccessInit PROVE RateInv
    OBVIOUS
  <1>1. RateFits
    <2>1. 0 \in 0..(Limit + 1) /\ 1 \in 1..MaxSecond
      BY AccessAssumption
    <2>2. QED
      BY <2>1 DEF AccessInit, RateFits
  <1>2. /\ \A v \in DOMAIN hits : hits[v] = 0 /\ granted[v] = 0
        /\ Window(second) \in DOMAIN hits /\ fallback.count = 0
    BY <1>1, WindowCounted DEF AccessInit, RateFits
  <1>3. QED
    BY <1>1, <1>2, AccessAssumption DEF RateInv, Room, AtMost

\* One count more is one permission at most, and none beyond the limit.
LEMMA Counted ==
  ASSUME NEW n \in 0..(Limit + 1)
  PROVE  /\ More(n) \in 0..(Limit + 1)
         /\ (IF More(n) <= Limit THEN 1 ELSE 0) + AtMost(n) <= AtMost(More(n))
         /\ AtMost(n) \in 0..Limit /\ AtMost(n) <= n
  BY AccessAssumption DEF More, AtMost

\* x attempts more are allowed in the window of now.
Allowed(x) == granted' = [granted EXCEPT ![Window(second)] = @ + x]

\* One count more, and what it adds to the permissions of the window.
LEMMA GrantAdds ==
  ASSUME NEW All, granted \in [All -> Nat], Window(second) \in All, NEW n, Grant(n)
  PROVE  \E x \in 0..1 : /\ x = IF n <= Limit THEN 1 ELSE 0
                        /\ granted' = [granted EXCEPT ![Window(second)] = @ + x]
  <1>1. CASE n <= Limit
    <2>1. granted' = [granted EXCEPT ![Window(second)] = @ + 1]
      BY <1>1 DEF Grant
    <2>2. QED
      BY <1>1, <2>1
  <1>2. CASE ~(n <= Limit)
    <2>1. granted' = [granted EXCEPT ![Window(second)] = @]
      BY <1>2 DEF Grant
    <2>2. granted[Window(second)] + 0 = granted[Window(second)]
      OBVIOUS
    <2>3. granted' = [granted EXCEPT ![Window(second)] = @ + 0]
      BY <2>1, <2>2
    <2>4. QED
      BY <1>2, <2>3
  <1>3. QED
    BY <1>1, <1>2

\* What the fallback allows it has room for.
LEMMA FallBackStep ==
  ASSUME RateInv, FallBack, UNCHANGED <<deployed, second>>
  PROVE  /\ fallback' \in [count : 0..(Limit + 1), reset : Nat]
         /\ \E x \in 0..1 : /\ Allowed(x)
                            /\ x + Room <= Room'
                            /\ (~Development => x = 0)
  <1> DEFINE w == Window(second)
  <1>0. /\ second \in Nat /\ w \in Nat /\ w * Span \in Nat /\ w * Span <= second /\ second < w * Span + Span
        /\ Limit \in Nat /\ Limit >= 1 /\ Span \in Nat
        /\ fallback.count \in 0..(Limit + 1) /\ fallback.reset \in Nat
        /\ granted \in [0..(MaxSecond \div Span) -> Nat] /\ w \in 0..(MaxSecond \div Span)
    <2>1. RateFits /\ second \in Nat
      BY AccessAssumption DEF RateInv, RateFits
    <2>2. w \in Nat /\ w * Span \in Nat /\ w * Span <= second /\ second < w * Span + Span
      BY <2>1, WindowFacts
    <2>3. w \in 0..(MaxSecond \div Span)
      BY <2>1, WindowCounted
    <2> HIDE DEF w
    <2>4. QED
      BY <2>1, <2>2, <2>3, AccessAssumption DEF RateFits
  <1>1. AtMost(fallback.count) \in 0..Limit
    BY <1>0, Counted
  <1>2. CASE deployed = "production" /\ UNCHANGED <<fallback, granted>>
    <2>1. Room' = Room /\ Room \in Nat
      BY <1>0, <1>1, <1>2 DEF Room, Restarted, AtMost
    <2>2. granted' = [granted EXCEPT ![w] = @ + 0]
      BY <1>0, <1>2
    <2>3. Allowed(0) /\ 0 + Room <= Room'
      BY <2>1, <2>2 DEF Allowed
    <2>4. fallback' \in [count : 0..(Limit + 1), reset : Nat]
      BY <1>2 DEF RateInv, RateFits
    <2>5. QED
      BY <2>3, <2>4
  <1>3. CASE /\ Development /\ second > fallback.reset
             /\ fallback' = [count |-> 1, reset |-> second + Span] /\ Grant(0)
    <2>1. granted' = [granted EXCEPT ![w] = @ + 1]
      BY <1>0, <1>3 DEF Grant
    <2>2. Room = AtMost(fallback.count)
      BY <1>0, <1>1, <1>3 DEF Room, Restarted
    <2>3. Room' = 1 + Limit
      BY <1>0, <1>3 DEF Room, Restarted, AtMost
    <2>4. fallback' \in [count : 0..(Limit + 1), reset : Nat]
      BY <1>0, <1>3
    <2>5. QED
      BY <1>0, <1>1, <1>3, <2>1, <2>2, <2>3, <2>4 DEF Allowed
  <1>4. CASE /\ Development /\ second <= fallback.reset
             /\ fallback' = [fallback EXCEPT !.count = More(@)] /\ Grant(fallback'.count)
    <2> DEFINE n == fallback.count
               x == IF More(n) <= Limit THEN 1 ELSE 0
    <2>0. n \in 0..(Limit + 1)
      BY <1>0
    <2>1. /\ fallback'.count = More(fallback.count) /\ fallback'.reset = fallback.reset
          /\ fallback' \in [count : 0..(Limit + 1), reset : Nat]
      BY <1>0, <1>4, Counted DEF RateInv, RateFits
    <2>2. granted' = [granted EXCEPT ![w] = @ + x]
      <3>1. Grant(More(n))
        BY <1>4, <2>1
      <3>2. QED
        BY <1>0, <3>1, GrantAdds
    <2>3. x + AtMost(n) <= AtMost(More(n)) /\ x \in 0..1
      <3> HIDE DEF n
      <3>1. QED
        BY <2>0, Counted
    <2>4. AtMost(More(n)) \in Nat
      <3> HIDE DEF n
      <3>1. More(n) \in 0..(Limit + 1)
        BY <2>0, Counted
      <3>2. QED
        BY <1>0, <3>1, Counted
    <2>5. Restarted' = Restarted
      BY <2>1 DEF Restarted
    <2>6. x + Room <= Room'
      BY <1>0, <1>1, <2>1, <2>3, <2>4, <2>5 DEF Room, AtMost
    <2>7. QED
      BY <1>4, <2>1, <2>2, <2>3, <2>6 DEF Allowed
  <1>5. QED
    BY <1>2, <1>3, <1>4 DEF FallBack

LEMMA AttemptStep ==
  ASSUME RateInv, Attempt
  PROVE  RateInv'
  <1> DEFINE w == Window(second)
             All == 0..(MaxSecond \div Span)
  <1>0. /\ w \in All /\ DOMAIN hits = All /\ Limit \in Nat /\ Limit >= 1
        /\ hits \in [All -> 0..(Limit + 1)] /\ granted \in [All -> Nat]
        /\ deployed \in {"development", "production"}
        /\ UNCHANGED <<deployed, second>>
    BY AccessAssumption, WindowCounted DEF RateInv, RateFits, Attempt
  <1> HIDE DEF All
  <1>1. \E x \in 0..1 :
          /\ granted' = [granted EXCEPT ![w] = @ + x]
          /\ hits' \in [All -> 0..(Limit + 1)]
          /\ \A v \in All : AtMost(hits[v]) <= AtMost(hits'[v])
          /\ x + AtMost(hits[w]) + Room <= AtMost(hits'[w]) + Room'
          /\ ~Development => x + AtMost(hits[w]) <= AtMost(hits'[w])
          /\ fallback' \in [count : 0..(Limit + 1), reset : Nat]
    <2>0. \A v \in All : /\ AtMost(hits[v]) \in 0..Limit
                          /\ More(hits[v]) \in 0..(Limit + 1)
                          /\ (IF More(hits[v]) <= Limit THEN 1 ELSE 0) + AtMost(hits[v]) <= AtMost(More(hits[v]))
                          /\ AtMost(More(hits[v])) \in 0..Limit
      BY <1>0, Counted
    <2>1. Room \in Nat
      <3>1. fallback.count \in 0..(Limit + 1)
        BY DEF RateInv, RateFits
      <3>2. AtMost(fallback.count) \in 0..Limit
        BY <3>1, Counted
      <3>3. QED
        BY <1>0, <3>2 DEF Room
    <2>2. ASSUME hits' = [hits EXCEPT ![w] = More(@)]
          PROVE  /\ hits' \in [All -> 0..(Limit + 1)] /\ hits'[w] = More(hits[w])
                 /\ \A v \in All : AtMost(hits[v]) <= AtMost(hits'[v])
      <3>1. hits' \in [All -> 0..(Limit + 1)] /\ hits'[w] = More(hits[w])
        BY <1>0, <2>0, <2>2
      <3>2. \A v \in All : hits'[v] = hits[v] \/ hits'[v] = More(hits[v])
        BY <1>0, <2>2
      <3>3. ASSUME NEW v \in All PROVE AtMost(hits[v]) <= AtMost(More(hits[v]))
        BY <1>0, <2>0
      <3>4. QED
        BY <2>0, <3>1, <3>2, <3>3
    <2>3. CASE /\ hits' = [hits EXCEPT ![w] = More(@)]
               /\ Grant(hits'[w]) /\ UNCHANGED fallback
      <3> DEFINE x == IF More(hits[w]) <= Limit THEN 1 ELSE 0
      <3>1. granted' = [granted EXCEPT ![w] = @ + x]
        <4>1. Grant(More(hits[w]))
          BY <2>2, <2>3
        <4>2. QED
          BY <1>0, <4>1, GrantAdds
      <3>2. Room' = Room
        BY <1>0, <2>3 DEF Room, Restarted, AtMost
      <3>3. x \in 0..1 /\ x + AtMost(hits[w]) <= AtMost(hits'[w])
        BY <1>0, <2>0, <2>2, <2>3
      <3>4. AtMost(hits[w]) \in Nat /\ AtMost(hits'[w]) \in Nat
        BY <1>0, <2>0, <2>2, <2>3
      <3>5. x + AtMost(hits[w]) + Room <= AtMost(hits'[w]) + Room'
        BY <2>1, <3>2, <3>3, <3>4
      <3> HIDE DEF x
      <3>6. QED
        BY <2>2, <2>3, <3>1, <3>3, <3>5 DEF RateInv, RateFits
    <2>4. CASE FallBack /\ (hits' = hits \/ hits' = [hits EXCEPT ![w] = More(@)])
      <3>0. FallBack /\ UNCHANGED <<deployed, second>>
        BY <1>0, <2>4
      <3>1. PICK x \in 0..1 : Allowed(x) /\ x + Room <= Room' /\ (~Development => x = 0)
        BY <3>0, FallBackStep
      <3>2. fallback' \in [count : 0..(Limit + 1), reset : Nat]
        <4>1. FallBack /\ UNCHANGED <<deployed, second>>
          BY <1>0, <2>4
        <4>2. QED
          BY <4>1, FallBackStep
      <3>3. /\ hits' \in [All -> 0..(Limit + 1)]
            /\ \A v \in All : AtMost(hits[v]) <= AtMost(hits'[v])
        BY <1>0, <2>0, <2>2, <2>4
      <3>4. AtMost(hits[w]) \in Nat /\ AtMost(hits'[w]) \in Nat /\ AtMost(hits[w]) <= AtMost(hits'[w])
        BY <1>0, <2>0, <3>3, Counted
      <3>5. Room' \in Nat
        BY <1>0, <3>2, Counted DEF Room
      <3>6. x + AtMost(hits[w]) + Room <= AtMost(hits'[w]) + Room'
        BY <2>1, <3>1, <3>4, <3>5
      <3>7. ~Development => x + AtMost(hits[w]) <= AtMost(hits'[w])
        BY <3>1, <3>4
      <3>8. QED
        BY <3>1, <3>2, <3>3, <3>6, <3>7 DEF Allowed
    <2>5. QED
      BY <2>3, <2>4 DEF Attempt
  <1>2. PICK x \in 0..1 :
          /\ granted' = [granted EXCEPT ![w] = @ + x]
          /\ hits' \in [All -> 0..(Limit + 1)]
          /\ \A v \in All : AtMost(hits[v]) <= AtMost(hits'[v])
          /\ x + AtMost(hits[w]) + Room <= AtMost(hits'[w]) + Room'
          /\ ~Development => x + AtMost(hits[w]) <= AtMost(hits'[w])
          /\ fallback' \in [count : 0..(Limit + 1), reset : Nat]
    BY <1>1
  <1>3. RateFits'
    BY <1>0, <1>2 DEF RateInv, RateFits, All
  <1>4. Window(second)' = w /\ Development' = Development
    BY <1>0 DEF Window, Development
  <1>5. /\ granted'[w] = granted[w] + x /\ granted[w] \in Nat
        /\ \A v \in All : v # w => granted'[v] = granted[v]
    BY <1>0, <1>2
  <1>6. \A v \in All : AtMost(hits[v]) \in 0..Limit /\ AtMost(hits'[v]) \in 0..Limit
    BY <1>0, <1>2, Counted
  <1>7. Room \in Nat /\ Room' \in 0..(2 * Limit)
    <2>1. AtMost(fallback.count) \in 0..Limit /\ AtMost(fallback.count)' \in 0..Limit
      BY <1>0, <1>2, Counted DEF RateInv, RateFits, AtMost
    <2>2. QED
      BY <1>0, <2>1 DEF Room
  <1>8. granted'[w] <= AtMost(hits'[w]) + Room'
    BY <1>0, <1>2, <1>5, <1>6, <1>7 DEF RateInv
  <1>9. ASSUME NEW v \in All
        PROVE  granted'[v] <= IF Development THEN 3 * Limit ELSE AtMost(hits'[v])
    <2>1. granted[v] <= (IF Development THEN 3 * Limit ELSE AtMost(hits[v])) /\ granted[v] \in Nat
      BY <1>0 DEF RateInv
    <2>2. CASE v # w
      BY <1>0, <1>2, <1>5, <1>6, <2>1, <2>2
    <2>3. CASE v = w /\ Development
      BY <1>0, <1>5, <1>6, <1>7, <1>8, <2>3
    <2>4. CASE v = w /\ ~Development
      BY <1>0, <1>2, <1>5, <1>6, <2>1, <2>4
    <2>5. QED
      BY <2>2, <2>3, <2>4
  <1>10. ASSUME NEW v \in All, v > w PROVE granted'[v] = 0
    BY <1>0, <1>5, <1>10 DEF RateInv, All
  <1>11. DOMAIN hits' = All
    BY <1>2
  <1>12. (\A v \in DOMAIN hits : /\ v > Window(second) \/ deployed = "none" => granted[v] = 0
                                 /\ granted[v] <= IF Development THEN 3 * Limit ELSE AtMost(hits[v]))'
    BY <1>0, <1>4, <1>9, <1>10, <1>11 DEF AtMost
  <1>13. (granted[Window(second)] <= AtMost(hits[Window(second)]) + Room)'
    BY <1>4, <1>8 DEF AtMost
  <1>14. QED
    BY <1>3, <1>12, <1>13 DEF RateInv

\* In a window that begins nothing was allowed.
LEMMA NextSecondStep ==
  ASSUME RateInv, NextSecond
  PROVE  RateInv'
  <1> DEFINE w == Window(second)
             u == Window(second')
  <1>0. /\ second \in Nat /\ second' = second + 1 /\ second' \in 1..MaxSecond /\ second' \in Nat
        /\ UNCHANGED <<deployed, hits, fallback, granted>> /\ Limit \in Nat
    BY AccessAssumption DEF RateInv, RateFits, NextSecond
  <1>1. w \in Nat /\ u \in Nat /\ w <= u /\ Window(second)' = u
    BY <1>0, WindowFacts, WindowsFollow DEF Window
  <1>2. RateFits'
    BY <1>0 DEF RateInv, RateFits
  <1>3. u \in DOMAIN hits
    <2>1. u \in 0..(MaxSecond \div Span)
      BY <1>0, WindowOf
    <2>2. QED
      BY <2>1 DEF RateInv, RateFits
  <1>4. \A v \in DOMAIN hits : v > u => v > w
    BY <1>1 DEF RateInv, RateFits
  <1>5. granted[u] <= AtMost(hits[u]) + Room'
    <2>1. AtMost(hits[u]) \in Nat /\ AtMost(fallback.count) \in Nat
      BY <1>0, <1>3, Counted DEF RateInv, RateFits
    <2>2. CASE u = w
      <3>1. Room' = Room
        BY <1>0, <1>1, <2>2 DEF Room, Restarted, AtMost
      <3>2. QED
        BY <2>2, <3>1 DEF RateInv
    <2>3. CASE u # w
      <3>1. granted[u] = 0
        BY <1>1, <1>3, <2>3 DEF RateInv
      <3>2. Room' \in Nat
        BY <1>0, <2>1 DEF Room, AtMost
      <3>3. QED
        BY <2>1, <3>1, <3>2
    <2>4. QED
      BY <2>2, <2>3
  <1>6. (\A v \in DOMAIN hits : /\ v > Window(second) \/ deployed = "none" => granted[v] = 0
                                /\ granted[v] <= IF Development THEN 3 * Limit ELSE AtMost(hits[v]))'
    <2>1. ASSUME NEW v \in DOMAIN hits
          PROVE  /\ v > u \/ deployed = "none" => granted[v] = 0
                 /\ granted[v] <= IF Development THEN 3 * Limit ELSE AtMost(hits[v])
      BY <1>4 DEF RateInv
    <2>2. QED
      BY <1>0, <1>1, <2>1 DEF Development, AtMost
  <1>7. (granted[Window(second)] <= AtMost(hits[Window(second)]) + Room)'
    BY <1>0, <1>1, <1>5 DEF AtMost
  <1>8. QED
    BY <1>2, <1>6, <1>7 DEF RateInv

\* The other steps leave the counts alone; a process that starts has none.
LEMMA RateQuiet ==
  ASSUME RateInv, UNCHANGED rateVars,
         \/ UNCHANGED deployed
         \/ deployed = "none" /\ deployed' \in {"development", "production"}
  PROVE  RateInv'
  <1>1. RateFits' /\ Limit \in Nat /\ Window(second)' = Window(second) /\ Room' = Room
    BY AccessAssumption DEF RateInv, RateFits, rateVars, Window, Room, Restarted, AtMost
  <1>2. UNCHANGED <<second, hits, fallback, granted>>
    BY DEF rateVars
  <1>3. ASSUME NEW v \in DOMAIN hits
        PROVE  /\ v > Window(second) \/ deployed' = "none" => granted[v] = 0
               /\ granted[v] <= IF Development' THEN 3 * Limit ELSE AtMost(hits[v])
    <2>1. AtMost(hits[v]) \in Nat
      BY Counted DEF RateInv, RateFits
    <2>2. CASE UNCHANGED deployed
      BY <2>2 DEF RateInv, Development
    <2>3. CASE deployed = "none" /\ deployed' \in {"development", "production"}
      BY <1>1, <2>1, <2>3 DEF RateInv
    <2>4. QED
      BY <2>2, <2>3
  <1>4. QED
    BY <1>1, <1>2, <1>3 DEF RateInv, AtMost

LEMMA RateNextInv == RateInv /\ [SessionNext \/ RateNext]_accessVars => RateInv'
  <1> SUFFICES ASSUME RateInv, [SessionNext \/ RateNext]_accessVars PROVE RateInv'
    OBVIOUS
  <1>1. CASE Attempt
    BY <1>1, AttemptStep
  <1>2. CASE NextSecond
    BY <1>2, NextSecondStep
  <1>3. ASSUME UNCHANGED rateVars, NEW environment \in {"development", "production"}, StartProcess(environment)
        PROVE  RateInv'
    BY <1>3, RateQuiet DEF StartProcess
  <1>4. CASE SessionNext
    <2>1. CASE \E c \in calls : \/ Exchange(c) \/ Create(c) \/ EndOld(c) \/ FailEnd(c) \/ CreateUnheard(c)
                                \/ Refuse(c) \/ AnswerCall(c) \/ LoseAnswer(c)
      <3>1. UNCHANGED deployed
        BY <2>1 DEF Exchange, Create, EndOld, FailEnd, CreateUnheard, Refuse, AnswerCall, LoseAnswer
      <3>2. QED
        BY <1>4, <3>1, RateQuiet DEF SessionNext
    <2>2. CASE \/ OidcLogin \/ Renew \/ Logout \/ RedisChanges \/ SuspendOrLift
               \/ \E s \in 1..MaxIds : OidcCallback(s)
               \/ \E id \in Live : ExpireSession(id)
      <3>1. UNCHANGED deployed
        BY <2>2 DEF OidcLogin, Renew, Logout, RedisChanges, SuspendOrLift, OidcCallback, ExpireSession
      <3>2. QED
        BY <1>4, <3>1, RateQuiet DEF SessionNext
    <2>3. QED
      BY <1>3, <1>4, <2>1, <2>2 DEF SessionNext
  <1>5. CASE UNCHANGED rateVars /\ RedisChanges
    BY <1>5, RateQuiet DEF RedisChanges
  <1>6. CASE UNCHANGED accessVars
    BY <1>6, RateQuiet DEF accessVars, rateVars
  <1>7. QED
    BY <1>1, <1>2, <1>3, <1>4, <1>5, <1>6 DEF RateNext

LEMMA RateHolds == AccessSpec => []RateInv
  BY RateInitInv, RateNextInv, PTL DEF AccessSpec

-----------------------------------------------------------------------------
(* sessions.py, rate_limit.py, auth_routes.py: however Redis comes and goes,  *)
(* requests overlap and answers are lost, a session whose end was answered    *)
(* opens nothing, the browser is left with no other live session than the one *)
(* it holds, a state of the OIDC sign-in serves once, and a window allows no  *)
(* more than its limit.                                                       *)
THEOREM AccessIsSafe == AccessSpec => []AccessSafety
  <1>1. SessionInv /\ RateInv => AccessSafety
    <2> SUFFICES ASSUME SessionInv, RateInv PROVE AccessSafety
      OBVIOUS
    <2>1. EndedIsDead
      BY DEF SessionInv, EndsFit, Heard, EndedIsDead
    <2>2. OneLiveSession
      BY DEF SessionInv, CallsFit, Heard, OneLiveSession
    <2>3. StateServesOnce
      BY DEF SessionInv, StatesFit, StateServesOnce
    <2>4. LimitHolds
      <3>1. ASSUME NEW v \in DOMAIN hits PROVE granted[v] <= IF Development THEN 3 * Limit ELSE Limit
        <4>1. AtMost(hits[v]) \in 0..Limit /\ Limit \in Nat /\ granted[v] \in Nat
          BY Counted, AccessAssumption DEF RateInv, RateFits
        <4>2. QED
          BY <4>1 DEF RateInv
      <3>2. QED
        BY <3>1 DEF LimitHolds
    <2>5. QED
      BY <2>1, <2>2, <2>3, <2>4 DEF AccessSafety
  <1>2. QED
    BY SessionHolds, RateHolds, <1>1, PTL

-----------------------------------------------------------------------------
(* The launch of an intimation. *)

\* Where a row of a movement can be, and what marks it.
MovementFits ==
    /\ movement \in [Intimations -> [at : {"none", "live", "deleted"},
                                     process : Processes \union {NoProcess},
                                     marker : SUBSET Bodies]]
    /\ \A i \in Intimations :
          IF Exists(i) THEN \E b \in Bodies : movement[i].marker = {b}
          ELSE movement[i].marker = {}

\* The histories agree with the rows: one launch for a movement, accepted with
\* the body that marks it.
HistoryFits ==
    /\ launches \in [Intimations -> Nat] /\ accepted \in [Intimations -> SUBSET Bodies]
    /\ \A i \in Intimations : /\ launches[i] = IF Exists(i) THEN 1 ELSE 0
                              /\ accepted[i] \subseteq movement[i].marker

\* A launch under way holds the row alone, and found no movement.
LaunchFits(r) ==
    r.op = "launch" =>
        /\ r.intimation \in Intimations /\ r.body \in Bodies /\ ~Exists(r.intimation)
        /\ r.process \in Processes
        /\ \A s \in open : s.op = "launch" /\ s.intimation = r.intimation => s = r

LegalInv ==
    MovementFits /\ HistoryFits /\ RepeatIsRecognised /\ \A r \in open : LaunchFits(r)

LEMMA LegalInitInv == LegalInit => LegalInv
  BY DEF LegalInit, LegalInv, MovementFits, HistoryFits, LaunchFits, RepeatIsRecognised, NoReply, Exists

(* Steps that touch neither a movement nor a history, and begin no launch. *)
LEMMA QuietStep ==
  ASSUME LegalInv, UNCHANGED <<movement, launches, accepted, answered>>,
         \A r \in open' : r \in open \/ r.op # "launch"
  PROVE  LegalInv'
  <1>1. MovementFits' /\ HistoryFits' /\ RepeatIsRecognised'
    BY DEF LegalInv, MovementFits, HistoryFits, RepeatIsRecognised, Exists
  <1>2. ASSUME NEW r \in open' PROVE LaunchFits(r)'
    BY <1>2 DEF LegalInv, LaunchFits, Exists
  <1>3. QED
    BY <1>1, <1>2 DEF LegalInv

(* Only a launch is answered here, and the repetition of an accepted one finds *)
(* the mark it left.                                                           *)
LEMMA BeginLaunchStep ==
  ASSUME LegalInv, NEW i \in Intimations, NEW body \in Bodies, BeginLaunch(i, body)
  PROVE  LegalInv'
  <1> DEFINE p == intimation[i].process
  <1>0. /\ MovementFits' /\ UNCHANGED <<movement, launches>>
    BY DEF LegalInv, BeginLaunch, rowVars, MovementFits, Exists
  <1>1. CASE Exists(i)
    <2> DEFINE kind == IF movement[i].at = "live" /\ SameRequest(i, body) THEN "already" ELSE "refused"
    <2>1. Answer(i, body, kind) /\ open' = open
      BY <1>1 DEF BeginLaunch
    <2>2. HistoryFits' /\ RepeatIsRecognised'
      <3>1. CASE movement[i].at = "live" /\ SameRequest(i, body)
        <4>1. kind = "already"
          BY <3>1
        <4>2. /\ accepted' = [accepted EXCEPT ![i] = @ \union {body}]
              /\ answered'.kind = "already"
          BY <2>1, <4>1 DEF Answer
        <4>3. QED
          BY <1>0, <3>1, <4>2 DEF LegalInv, HistoryFits, MovementFits, Exists, SameRequest, RepeatIsRecognised
      <3>2. CASE ~(movement[i].at = "live" /\ SameRequest(i, body))
        <4>1. kind = "refused"
          BY <3>2
        <4>2. /\ accepted' = accepted
              /\ answered'.same = (movement[i].at = "live" /\ body \in accepted[i])
          BY <2>1, <4>1 DEF Answer
        <4>3. ~(movement[i].at = "live" /\ body \in accepted[i])
          BY <1>1, <3>2 DEF LegalInv, HistoryFits, MovementFits, SameRequest
        <4>4. QED
          BY <1>0, <4>2, <4>3 DEF LegalInv, HistoryFits, Exists, RepeatIsRecognised
      <3>3. QED
        BY <3>1, <3>2
    <2>3. \A r \in open' : LaunchFits(r)'
      BY <1>0, <2>1 DEF LegalInv, LaunchFits, Exists
    <2>4. QED
      BY <1>0, <2>2, <2>3 DEF LegalInv
  <1>2. CASE ~Exists(i) /\ open' # open
    <2>1. /\ UNCHANGED <<accepted, answered>> /\ ~Locked(i) /\ LiveProcess(p)
          /\ open' = open \union {[op |-> "launch", intimation |-> i, process |-> p, body |-> body]}
      BY <1>2 DEF BeginLaunch, BeginSession
    <2>2. HistoryFits' /\ RepeatIsRecognised'
      BY <1>0, <2>1 DEF LegalInv, HistoryFits, RepeatIsRecognised, Exists
    <2>3. ASSUME NEW r \in open' PROVE LaunchFits(r)'
      BY <1>0, <1>2, <2>1, <2>3 DEF LegalInv, LaunchFits, Exists, Locked, LiveProcess
    <2>4. QED
      BY <1>0, <2>2, <2>3 DEF LegalInv
  <1>3. CASE ~Exists(i) /\ open' = open
    <2>1. UNCHANGED <<accepted, answered>> \/ Answer(i, body, "refused")
      BY <1>3 DEF BeginLaunch
    <2>2. movement[i].at # "live"
      BY <1>3 DEF Exists
    <2>3. accepted' = accepted /\ (answered' = answered \/ ~answered'.same)
      <3>1. CASE UNCHANGED <<accepted, answered>>
        BY <3>1
      <3>2. CASE Answer(i, body, "refused")
        <4>1. accepted' = accepted
          BY <3>2 DEF Answer
        <4>2. answered'.same = (movement[i].at = "live" /\ body \in accepted[i])
          BY <3>2 DEF Answer
        <4>3. QED
          BY <2>2, <4>1, <4>2
      <3>3. QED
        BY <2>1, <3>1, <3>2
    <2>4. HistoryFits' /\ RepeatIsRecognised'
      BY <1>0, <2>3 DEF LegalInv, HistoryFits, RepeatIsRecognised, Exists
    <2>5. \A r \in open' : LaunchFits(r)'
      BY <1>0, <1>3 DEF LegalInv, LaunchFits, Exists
    <2>6. QED
      BY <1>0, <2>4, <2>5 DEF LegalInv
  <1>4. QED
    BY <1>1, <1>2, <1>3

(* The lock and the absence of a movement make the launch the first one. *)
LEMMA CommitLaunchStep ==
  ASSUME LegalInv, NEW r \in open, CommitLaunch(r)
  PROVE  LegalInv'
  <1> DEFINE i == r.intimation
  <1>1. /\ r.op = "launch" /\ i \in Intimations /\ r.body \in Bodies /\ ~Exists(i)
        /\ r.process \in Processes
        /\ \A s \in open : s.op = "launch" /\ s.intimation = i => s = r
    BY DEF LegalInv, LaunchFits, CommitLaunch
  <1>2. /\ open' = open \ {r}
        /\ movement' = [movement EXCEPT ![i] = [at |-> "live", process |-> r.process, marker |-> {r.body}]]
        /\ launches' = [launches EXCEPT ![i] = @ + 1]
    BY DEF CommitLaunch
  <1>3. MovementFits'
    BY <1>1, <1>2 DEF LegalInv, MovementFits, Exists
  <1>4. accepted[i] = {} /\ launches[i] = 0
    BY <1>1 DEF LegalInv, HistoryFits, MovementFits
  <1>5. \/ UNCHANGED <<accepted, answered>>
        \/ accepted' = [accepted EXCEPT ![i] = @ \union {r.body}] /\ answered'.kind = "done"
    BY DEF CommitLaunch, Answer
  <1>6. RepeatIsRecognised'
    BY <1>5 DEF LegalInv, RepeatIsRecognised
  <1>7. HistoryFits'
    BY <1>1, <1>2, <1>4, <1>5 DEF LegalInv, HistoryFits, MovementFits, Exists
  <1>8. ASSUME NEW s \in open' PROVE LaunchFits(s)'
    BY <1>1, <1>2, <1>8 DEF LegalInv, LaunchFits, Exists, MovementFits
  <1>9. QED
    BY <1>3, <1>6, <1>7, <1>8 DEF LegalInv

(* A movement that exists stays, with its mark. *)
LEMMA MovementStep ==
  ASSUME LegalInv, NEW i \in Intimations, UpdateMovement(i) \/ SoftDeleteMovement(i)
  PROVE  LegalInv'
  <1>1. /\ UNCHANGED <<open, launches, accepted, answered>>
        /\ movement[i].at = "live"
        /\ \E at \in {"live", "deleted"} : movement' = [movement EXCEPT ![i].at = at]
    <2>1. CASE UpdateMovement(i)
      <3>1. movement' = [movement EXCEPT ![i].at = "live"]
        BY <2>1 DEF UpdateMovement, KeptMarker, LegalInv, MovementFits
      <3>2. QED
        BY <2>1, <3>1 DEF UpdateMovement, launchHistory
    <2>2. CASE SoftDeleteMovement(i)
      BY <2>2 DEF SoftDeleteMovement, launchHistory
    <2>3. QED
      BY <2>1, <2>2
  <1>2. /\ movement' \in [Intimations -> [at : {"none", "live", "deleted"},
                                     process : Processes \union {NoProcess},
                                     marker : SUBSET Bodies]]
        /\ \A j \in Intimations : movement'[j].marker = movement[j].marker /\ (Exists(j)' <=> Exists(j))
    BY <1>1 DEF LegalInv, MovementFits, Exists
  <1>3. MovementFits' /\ HistoryFits' /\ RepeatIsRecognised'
    BY <1>1, <1>2 DEF LegalInv, MovementFits, HistoryFits, RepeatIsRecognised
  <1>4. \A r \in open' : LaunchFits(r)'
    BY <1>1, <1>2 DEF LegalInv, LaunchFits
  <1>5. QED
    BY <1>3, <1>4 DEF LegalInv

LEMMA LegalNextInv == LegalInv /\ [LegalNext]_legalVars => LegalInv'
  <1> SUFFICES ASSUME LegalInv, [LegalNext]_legalVars PROVE LegalInv'
    OBVIOUS
  <1>1. CASE \E c \in Clients : CreateClient(c) \/ BeginDeleteClient(c)
    BY <1>1, QuietStep DEF CreateClient, BeginDeleteClient, BeginSession, rowVars, launchHistory
  <1>2. CASE \E p \in Processes : SoftDeleteProcess(p) \/ \E c \in Clients : BeginSaveProcess(p, c)
    BY <1>2, QuietStep DEF SoftDeleteProcess, BeginSaveProcess, BeginSession, rowVars, launchHistory
  <1>3. CASE \E i \in Intimations : DeleteIntimation(i)
    BY <1>3, QuietStep DEF DeleteIntimation, launchHistory
  <1>4. CASE \E i \in Intimations : UpdateMovement(i) \/ SoftDeleteMovement(i)
    BY <1>4, MovementStep
  <1>5. CASE \E i \in Intimations, body \in Bodies : BeginLaunch(i, body)
    BY <1>5, BeginLaunchStep
  <1>6. CASE \E i \in Intimations, status \in {"received", "concluded"}, p \in Processes \union {NoProcess} :
                BeginSaveIntimation(i, status, p)
    BY <1>6, QuietStep DEF BeginSaveIntimation, BeginSession, rowVars, launchHistory
  <1>7. CASE \E r \in open : CommitChange(r) \/ RollBack(r)
    BY <1>7, QuietStep DEF CommitChange, RollBack, rowVars, launchHistory
  <1>8. CASE \E r \in open : CommitLaunch(r)
    BY <1>8, CommitLaunchStep
  <1>9. CASE UNCHANGED legalVars
    BY <1>9, QuietStep DEF legalVars
  <1>10. QED
    BY <1>1, <1>2, <1>3, <1>4, <1>5, <1>6, <1>7, <1>8, <1>9 DEF LegalNext

LEMMA LegalInvariant == LegalSpec => []LegalInv
  BY LegalInitInv, LegalNextInv, PTL DEF LegalSpec

(* legal_launch.py: however launches, edits and deletions overlap, and         *)
(* whatever answers are lost, an intimation is launched once, one request only *)
(* is told so, and who repeats it is told the same.                            *)
THEOREM LaunchIsSafe == LegalSpec => []LaunchSafety
  <1>1. LegalInv => LaunchSafety
    <2> SUFFICES ASSUME LegalInv PROVE LaunchSafety
      OBVIOUS
    <2>1. LaunchedOnce
      BY DEF LegalInv, HistoryFits, LaunchedOnce
    <2>2. ASSUME NEW i \in Intimations PROVE Cardinality(accepted[i]) <= 1
      <3>1. CASE accepted[i] = {}
        BY <3>1, FS_EmptySet
      <3>2. CASE \E b \in Bodies : accepted[i] = {b}
        <4>1. PICK b \in Bodies : accepted[i] = {b}
          BY <3>2
        <4>2. Cardinality({b}) = 1
          BY FS_Singleton
        <4>3. QED
          BY <4>1, <4>2
      <3>3. QED
        BY <3>1, <3>2 DEF LegalInv, HistoryFits, MovementFits
    <2>3. QED
      BY <2>1, <2>2 DEF LegalInv, LaunchSafety, OneLaunchIsAccepted
  <1>2. QED
    BY LegalInvariant, <1>1, PTL
=============================================================================
