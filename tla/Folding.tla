-------------------------------- MODULE Folding --------------------------------
(***************************************************************************)
(* What folds compute, for the proofs about the modules that sum with the  *)
(* folds of the library or define recursive functions: that a function     *)
(* with the equation of such a definition exists, that it is the only one, *)
(* and then, by induction on what is folded, its values.                   *)
(***************************************************************************)
EXTENDS SequencesExt, FiniteSetTheorems, WellFoundedInduction, TLAPS

(* A set of numbers that is not empty has a least one.                         *)
LEMMA LeastNumber ==
  ASSUME NEW S \in SUBSET Nat, S # {}
  PROVE  \E t \in S : \A u \in S : t <= u
  <1> DEFINE R == OpToRel(<, Nat)
  <1>1. IsWellFoundedOn(R, Nat)
    BY NatLessThanWellFounded
  <1>2. \E x \in S : \A y \in S : ~(<<y, x>> \in R)
    <2> HIDE DEF R
    <2> QED BY <1>1, WFMin
  <1>3. PICK t \in S : \A y \in S : ~(<<y, t>> \in R)
    BY <1>2
  <1>4. ASSUME NEW u \in S PROVE t <= u
    <2>1. ~(u < t)
      BY <1>3 DEF OpToRel
    <2> QED
      BY <2>1
  <1> QED
    BY <1>4

(* Induction, for a set of numbers.                                            *)
LEMMA AllNumbers ==
  ASSUME NEW S \in SUBSET Nat, 0 \in S, \A n \in S : n + 1 \in S
  PROVE  \A n \in Nat : n \in S
  <1> DEFINE T == Nat \ S
  <1>1. CASE T = {}
    BY <1>1
  <1>2. CASE T # {}
    <2>1. PICK t \in T : \A u \in T : t <= u
      <3>1. T \in SUBSET Nat
        OBVIOUS
      <3> HIDE DEF T
      <3> QED
        BY <1>2, <3>1, LeastNumber
    <2>2. t # 0 /\ t - 1 \in Nat /\ t - 1 \notin T
      BY <2>1
    <2>3. t - 1 \in S /\ (t - 1) + 1 = t
      BY <2>2
    <2> QED
      BY <2>1, <2>3
  <1> QED
    BY <1>1, <1>2

(* A function that calls itself at a smaller place is defined: rank counts the *)
(* calls that are left.                                                        *)
Descends(D, rank, next) == \A x \in D : rank[x] # 0 => rank[next[x]] < rank[x]

Recurs(f, D, rank, next, base, step) ==
    \A x \in D : f[x] = IF rank[x] = 0 THEN base[x] ELSE step[<<x, f[next[x]]>>]

Defined(D, V, rank, next, base, step) == \E f \in [D -> V] : Recurs(f, D, rank, next, base, step)

LEMMA RecursionIs ==
  ASSUME NEW D, NEW V, NEW rank, rank \in [D -> Nat], NEW next, next \in [D -> D],
         NEW base, base \in [D -> V], NEW step, step \in [D \X V -> V], Descends(D, rank, next)
  PROVE  Defined(D, V, rank, next, base, step)
  <1> DEFINE Value(f, x) == IF rank[x] = 0 THEN base[x] ELSE step[<<x, f[next[x]]>>]
             Good(f, n) == \A x \in D : rank[x] < n => f[x] = Value(f, x)
             Some == {n \in Nat : \E f \in [D -> V] : Good(f, n)}
             Alike == {n \in Nat : \A f, g \in [D -> V] :
                                      Good(f, n) /\ Good(g, n) => \A x \in D : rank[x] < n => f[x] = g[x]}
  <1>1. ASSUME NEW f \in [D -> V], NEW x \in D PROVE Value(f, x) \in V
    OBVIOUS
  <1>2. ASSUME NEW f \in [D -> V], NEW g \in [D -> V], NEW n \in Nat,
               \A y \in D : rank[y] < n => f[y] = g[y], NEW x \in D, rank[x] <= n
        PROVE  Value(f, x) = Value(g, x)
    <2>1. CASE rank[x] = 0
      BY <2>1
    <2>2. CASE rank[x] # 0
      <3>1. rank[next[x]] < n /\ next[x] \in D
        <4>1. rank[next[x]] < rank[x] /\ next[x] \in D
          BY <2>2 DEF Descends
        <4>2. rank[next[x]] \in Nat /\ rank[x] \in Nat
          BY <4>1
        <4> QED
          BY <1>2, <4>1, <4>2
      <3>2. f[next[x]] = g[next[x]]
        BY <1>2, <3>1
      <3> QED
        BY <2>2, <3>2
    <2> QED
      BY <2>1, <2>2
  <1>3. ASSUME NEW n \in Some PROVE n + 1 \in Some
    <2>1. PICK f \in [D -> V] : Good(f, n)
      BY <1>3
    <2> DEFINE g == [x \in D |-> IF rank[x] = n THEN Value(f, x) ELSE f[x]]
    <2>2. g \in [D -> V] /\ \A x \in D : g[x] = IF rank[x] = n THEN Value(f, x) ELSE f[x]
      <3> HIDE DEF Value
      <3> QED
        BY <1>1
    <2> HIDE DEF g
    <2>3. n \in Nat
      OBVIOUS
    <2>4. \A y \in D : rank[y] < n => f[y] = g[y]
      <3> HIDE DEF Value
      <3> QED
        BY <2>2, <2>3
    <2>5. ASSUME NEW x \in D, rank[x] < n + 1 PROVE g[x] = Value(g, x)
      <3>1. rank[x] <= n
        BY <2>3, <2>5
      <3>2. Value(f, x) = Value(g, x)
        <4> HIDE DEF Value
        <4> QED
          BY <1>2, <2>2, <2>4, <2>3, <3>1
      <3>3. CASE rank[x] = n
        <4> HIDE DEF Value
        <4> QED
          BY <2>2, <3>2, <3>3
      <3>4. CASE rank[x] # n
        <4>1. rank[x] < n
          BY <2>3, <3>1, <3>4
        <4>2. f[x] = Value(f, x)
          BY <2>1, <4>1
        <4> HIDE DEF Value
        <4> QED
          BY <2>4, <3>2, <4>1, <4>2
      <3> QED
        BY <3>3, <3>4
    <2>6. Good(g, n + 1)
      <3> HIDE DEF Value
      <3> QED
        BY <2>5
    <2> HIDE DEF Good
    <2> QED
      BY <2>2, <2>3, <2>6
  <1>4. \A n \in Nat : n \in Some
    <2>1. 0 \in Some
      <3>1. base \in [D -> V] /\ Good(base, 0)
        OBVIOUS
      <3> HIDE DEF Good
      <3> QED
        BY <3>1
    <2>2. Some \in SUBSET Nat
      OBVIOUS
    <2> HIDE DEF Some
    <2> QED
      BY <1>3, <2>1, <2>2, AllNumbers
  <1>5. ASSUME NEW n \in Alike PROVE n + 1 \in Alike
    <2>1. n \in Nat /\ n + 1 \in Nat
      OBVIOUS
    <2>2. ASSUME NEW f \in [D -> V], NEW g \in [D -> V], Good(f, n + 1), Good(g, n + 1), NEW x \in D, rank[x] < n + 1
          PROVE  f[x] = g[x]
      <3>1. Good(f, n) /\ Good(g, n)
        <4>1. \A y \in D : rank[y] < n => rank[y] < n + 1
          BY <2>1
        <4> HIDE DEF Value
        <4> QED
          BY <2>2, <4>1
      <3>2. \A y \in D : rank[y] < n => f[y] = g[y]
        <4> HIDE DEF Good
        <4> QED
          BY <1>5, <3>1
      <3>3. rank[x] <= n
        BY <2>1, <2>2
      <3>4. f[x] = Value(f, x) /\ g[x] = Value(g, x)
        <4> HIDE DEF Value
        <4> QED
          BY <2>2
      <3>5. Value(f, x) = Value(g, x)
        <4> HIDE DEF Value
        <4> QED
          BY <1>2, <2>1, <3>2, <3>3
      <3> QED
        BY <3>4, <3>5
    <2> HIDE DEF Good
    <2> QED
      BY <2>1, <2>2
  <1>6. \A n \in Nat : n \in Alike
    <2>1. 0 \in Alike
      <3> HIDE DEF Good
      <3> QED
        OBVIOUS
    <2>2. Alike \in SUBSET Nat
      OBVIOUS
    <2> HIDE DEF Alike
    <2> QED
      BY <1>5, <2>1, <2>2, AllNumbers
  <1> DEFINE h(x) == CHOOSE f \in [D -> V] : Good(f, rank[x] + 1)
             F == [x \in D |-> h(x)[x]]
  <1>7. ASSUME NEW x \in D PROVE h(x) \in [D -> V] /\ Good(h(x), rank[x] + 1)
    <2>1. \E f \in [D -> V] : Good(f, rank[x] + 1)
      <3>1. rank[x] + 1 \in Nat
        OBVIOUS
      <3> HIDE DEF Good
      <3> QED
        BY <1>4, <3>1
    <2> HIDE DEF Good
    <2> QED
      BY <2>1
  <1>8. F \in [D -> V] /\ \A x \in D : F[x] = h(x)[x]
    <2> HIDE DEF h
    <2> QED
      BY <1>7
  <1>9. ASSUME NEW x \in D PROVE F[x] = Value(F, x)
    <2>1. ASSUME NEW y \in D, rank[y] < rank[x] PROVE h(x)[y] = F[y]
      <3>1. rank[y] + 1 \in Nat /\ rank[y] < rank[y] + 1 /\ \A z \in D : rank[z] < rank[y] + 1 => rank[z] < rank[x] + 1
        BY <2>1
      <3>2. Good(h(x), rank[y] + 1)
        <4>1. Good(h(x), rank[x] + 1)
          BY <1>7
        <4> HIDE DEF Value, h
        <4> QED
          BY <3>1, <4>1
      <3>3. h(x) \in [D -> V] /\ h(y) \in [D -> V] /\ Good(h(y), rank[y] + 1)
        BY <1>7
      <3> HIDE DEF h, Good
      <3> QED
        BY <1>6, <1>8, <3>1, <3>2, <3>3
    <2>2. h(x)[x] = Value(h(x), x)
      <3>1. Good(h(x), rank[x] + 1)
        BY <1>7
      <3>2. rank[x] < rank[x] + 1
        OBVIOUS
      <3> HIDE DEF h, Value
      <3> QED
        BY <3>1, <3>2
    <2>3. Value(h(x), x) = Value(F, x)
      <3>1. \A y \in D : rank[y] < rank[x] => h(x)[y] = F[y]
        BY <2>1
      <3>2. h(x) \in [D -> V]
        BY <1>7
      <3>3. rank[x] \in Nat /\ rank[x] <= rank[x]
        OBVIOUS
      <3> HIDE DEF h, Value, F
      <3> QED
        BY <1>2, <1>8, <3>1, <3>2, <3>3
    <2> HIDE DEF h, Value, F
    <2> QED
      BY <1>8, <2>2, <2>3
  <1>10. Recurs(F, D, rank, next, base, step)
    BY <1>9 DEF Recurs
  <1> HIDE DEF F, h
  <1> QED
    BY <1>8, <1>10 DEF Defined


(* Only one function follows the rule.                                         *)
LEMMA RecursionIsOne ==
  ASSUME NEW D, NEW rank, rank \in [D -> Nat], NEW next, next \in [D -> D], NEW base, NEW step, Descends(D, rank, next),
         NEW f, NEW g, Recurs(f, D, rank, next, base, step), Recurs(g, D, rank, next, base, step)
  PROVE  \A x \in D : f[x] = g[x]
  <1> DEFINE Alike == {n \in Nat : \A x \in D : rank[x] < n => f[x] = g[x]}
  <1>1. ASSUME NEW n \in Nat, \A x \in D : rank[x] < n => f[x] = g[x], NEW x \in D, rank[x] < n + 1
        PROVE  f[x] = g[x]
    <2>1. CASE rank[x] = 0
      BY <2>1 DEF Recurs
    <2>2. CASE rank[x] # 0
      <3>1. next[x] \in D /\ rank[next[x]] < rank[x]
        BY <2>2 DEF Descends
      <3>2. rank[next[x]] \in Nat /\ rank[x] \in Nat
        BY <3>1
      <3>3. rank[next[x]] < n
        BY <1>1, <3>1, <3>2
      <3>4. f[next[x]] = g[next[x]]
        BY <1>1, <3>1, <3>3
      <3> QED
        BY <2>2, <3>4 DEF Recurs
    <2> QED
      BY <2>1, <2>2
  <1>2. \A n \in Alike : n + 1 \in Alike
    BY <1>1
  <1>3. 0 \in Alike
    OBVIOUS
  <1>4. Alike \in SUBSET Nat
    OBVIOUS
  <1>5. \A n \in Nat : n \in Alike
    <2> HIDE DEF Alike
    <2> QED
      BY <1>2, <1>3, <1>4, AllNumbers
  <1>6. ASSUME NEW x \in D PROVE f[x] = g[x]
    <2>1. rank[x] + 1 \in Nat /\ rank[x] < rank[x] + 1
      OBVIOUS
    <2>2. rank[x] + 1 \in Alike
      <3> HIDE DEF Alike
      <3> QED
        BY <1>5, <2>1
    <2> QED
      BY <2>1, <2>2
  <1> QED
    BY <1>6

(* The same, where only the value of the call counts.                          *)
Calling(f, D, rank, next, base, step) ==
    \A x \in D : f[x] = IF rank[x] = 0 THEN base[x] ELSE step[f[next[x]]]

Callable(D, V, rank, next, base, step) == \E f \in [D -> V] : Calling(f, D, rank, next, base, step)

LEMMA Recursion ==
  ASSUME NEW D, NEW V, NEW rank, rank \in [D -> Nat], NEW next, next \in [D -> D],
         NEW base, base \in [D -> V], NEW step, step \in [V -> V], Descends(D, rank, next)
  PROVE  Callable(D, V, rank, next, base, step)
  <1> DEFINE s == [p \in D \X V |-> step[p[2]]]
  <1>1. s \in [D \X V -> V]
    OBVIOUS
  <1>2. PICK f \in [D -> V] : Recurs(f, D, rank, next, base, s)
    <2> HIDE DEF s
    <2> QED
      BY <1>1, RecursionIs DEF Defined
  <1>3. ASSUME NEW x \in D PROVE f[x] = IF rank[x] = 0 THEN base[x] ELSE step[f[next[x]]]
    <2>1. s[<<x, f[next[x]]>>] = step[f[next[x]]]
      OBVIOUS
    <2> HIDE DEF s
    <2> QED
      BY <1>2, <2>1 DEF Recurs
  <1> QED
    BY <1>3 DEF Callable, Calling

-----------------------------------------------------------------------------
(* Folding a finite set S: pick says which element is taken first.             *)
Picks(S, pick) == \A s \in SUBSET S : s # {} => pick[s] \in s

Folds(g, S, pick, base, step) ==
    \A s \in SUBSET S : g[s] = IF s = {} THEN base ELSE step[<<pick[s], g[s \ {pick[s]}]>>]

Foldable(S, V, pick, base, step) == \E g \in [SUBSET S -> V] : Folds(g, S, pick, base, step)

Size(S) == [s \in SUBSET S |-> Cardinality(s)]
Less(S, pick) == [s \in SUBSET S |-> IF s = {} THEN {} ELSE s \ {pick[s]}]

LEMMA SizesFall ==
  ASSUME NEW S, IsFiniteSet(S), NEW pick, Picks(S, pick)
  PROVE  /\ Size(S) \in [SUBSET S -> Nat] /\ Less(S, pick) \in [SUBSET S -> SUBSET S]
         /\ \A s \in SUBSET S : Size(S)[s] = 0 <=> s = {}
         /\ Descends(SUBSET S, Size(S), Less(S, pick))
  <1>1. ASSUME NEW s \in SUBSET S PROVE IsFiniteSet(s) /\ Cardinality(s) \in Nat /\ (Cardinality(s) = 0 <=> s = {})
    BY FS_Subset, FS_CardinalityType, FS_EmptySet
  <1>2. Size(S) \in [SUBSET S -> Nat] /\ Less(S, pick) \in [SUBSET S -> SUBSET S]
    BY <1>1 DEF Size, Less
  <1>3. \A s \in SUBSET S : Size(S)[s] = 0 <=> s = {}
    BY <1>1 DEF Size
  <1>4. ASSUME NEW s \in SUBSET S, Size(S)[s] # 0 PROVE Size(S)[Less(S, pick)[s]] < Size(S)[s]
    <2>1. s # {} /\ pick[s] \in s
      BY <1>3, <1>4 DEF Picks
    <2>2. Cardinality(s \ {pick[s]}) = Cardinality(s) - 1
      BY <1>1, <2>1, FS_RemoveElement
    <2>3. Less(S, pick)[s] = s \ {pick[s]} /\ s \ {pick[s]} \in SUBSET S
      BY <2>1 DEF Less
    <2> QED
      BY <1>1, <2>2, <2>3 DEF Size
  <1> QED
    BY <1>2, <1>3, <1>4 DEF Descends

LEMMA FoldIs ==
  ASSUME NEW S, IsFiniteSet(S), NEW pick, Picks(S, pick), NEW V, NEW base \in V, NEW step, step \in [S \X V -> V]
  PROVE  Foldable(S, V, pick, base, step)
  <1> DEFINE D == SUBSET S
             b == [s \in D |-> base]
             t == [p \in D \X V |-> IF p[1] = {} THEN base ELSE step[<<pick[p[1]], p[2]>>]]
             rank == Size(S)
             next == Less(S, pick)
  <1>1. b \in [D -> V]
    OBVIOUS
  <1>2. t \in [D \X V -> V]
    <2>1. ASSUME NEW s \in D, NEW v \in V, s # {} PROVE step[<<pick[s], v>>] \in V
      <3>1. pick[s] \in S
        BY <2>1 DEF Picks
      <3> QED
        BY <3>1
    <2> HIDE DEF D
    <2>2. ASSUME NEW p \in D \X V PROVE (IF p[1] = {} THEN base ELSE step[<<pick[p[1]], p[2]>>]) \in V
      <3>1. p[1] \in D /\ p[2] \in V
        OBVIOUS
      <3> QED
        BY <2>1, <3>1
    <2> QED
      BY <2>2
  <1>3. rank \in [D -> Nat] /\ next \in [D -> D] /\ Descends(D, rank, next)
    BY SizesFall
  <1>4. PICK g \in [D -> V] : Recurs(g, D, rank, next, b, t)
    <2> HIDE DEF D, b, t, rank, next
    <2>1. Defined(D, V, rank, next, b, t)
      BY <1>1, <1>2, <1>3, RecursionIs
    <2> QED
      BY <2>1 DEF Defined
  <1>5. ASSUME NEW s \in D PROVE g[s] = IF s = {} THEN base ELSE step[<<pick[s], g[s \ {pick[s]}]>>]
    <2>1. g[s] = IF rank[s] = 0 THEN b[s] ELSE t[<<s, g[next[s]]>>]
      <3> HIDE DEF D, b, t, rank, next
      <3> QED
        BY <1>4 DEF Recurs
    <2>2. s # {} => next[s] = s \ {pick[s]} /\ s \ {pick[s]} \in D
      BY DEF Less
    <2>3. rank[s] = 0 <=> s = {}
      BY SizesFall
    <2>4. s # {} => t[<<s, g[s \ {pick[s]}]>>] = step[<<pick[s], g[s \ {pick[s]}]>>]
      <3> HIDE DEF D
      <3>1. s # {} => <<s, g[s \ {pick[s]}]>> \in D \X V
        BY <2>2
      <3> QED
        BY <3>1
    <2>5. b[s] = base
      OBVIOUS
    <2> HIDE DEF D, t, b, rank, next
    <2> QED
      BY <2>1, <2>2, <2>3, <2>4, <2>5
  <1> HIDE DEF b, t, rank, next
  <1> QED
    BY <1>4, <1>5 DEF Foldable, Folds

\* Folds of a set and of a larger one are alike on what both have.
LEMMA FoldIsOne ==
  ASSUME NEW S, IsFiniteSet(S), NEW T \in SUBSET S, NEW pick, Picks(S, pick), NEW other, Picks(T, other),
         \A s \in SUBSET T : pick[s] = other[s], NEW base, NEW step,
         NEW f, NEW g, Folds(f, S, pick, base, step), Folds(g, T, other, base, step)
  PROVE  \A s \in SUBSET T : f[s] = g[s]
  <1> DEFINE D == SUBSET T
             V == {f[s] : s \in D} \union {g[s] : s \in D}
             b == [s \in D |-> base]
             t == [p \in D \X V |-> step[<<other[p[1]], p[2]>>]]
             rank == Size(T)
             next == Less(T, other)
  <1>1. IsFiniteSet(T)
    BY FS_Subset
  <1>2. rank \in [D -> Nat] /\ next \in [D -> D] /\ Descends(D, rank, next)
    BY <1>1, SizesFall
  <1>3. ASSUME NEW h, h = f \/ h = g, NEW s \in D
        PROVE  h[s] = IF rank[s] = 0 THEN b[s] ELSE t[<<s, h[next[s]]>>]
    <2>1. h[s] = IF s = {} THEN base ELSE step[<<other[s], h[s \ {other[s]}]>>]
      BY <1>3 DEF Folds
    <2>2. s # {} => next[s] = s \ {other[s]} /\ s \ {other[s]} \in D
      BY DEF Less
    <2>3. s # {} => t[<<s, h[s \ {other[s]}]>>] = step[<<other[s], h[s \ {other[s]}]>>]
      <3> HIDE DEF D
      <3>1. s # {} => h[s \ {other[s]}] \in V
        BY <1>3, <2>2
      <3> HIDE DEF V
      <3>2. s # {} => <<s, h[s \ {other[s]}]>> \in D \X V
        BY <3>1
      <3> QED
        BY <3>2
    <2>4. b[s] = base
      OBVIOUS
    <2>5. rank[s] = 0 <=> s = {}
      BY <1>1, SizesFall
    <2> HIDE DEF D, t, b, rank, next
    <2> QED
      BY <2>1, <2>2, <2>3, <2>4, <2>5
  <1>4. Recurs(f, D, rank, next, b, t) /\ Recurs(g, D, rank, next, b, t)
    <2> HIDE DEF D, b, t, rank, next
    <2> QED
      BY <1>3 DEF Recurs
  <1>5. \A s \in D : f[s] = g[s]
    <2> HIDE DEF D, b, t, rank, next
    <2> QED
      BY <1>2, <1>4, RecursionIsOne
  <1> QED
    BY <1>5

-----------------------------------------------------------------------------
(* Sums of natural numbers over finite sets.                                   *)
Summed(f, S) == IsFiniteSet(S) /\ \A x \in S : f[x] \in Nat

Foremost(S) == [s \in SUBSET S |-> CHOOSE x \in s : TRUE]
Adds(f, S) == [p \in S \X Nat |-> f[p[1]] + p[2]]

LEMMA SumFolds ==
  ASSUME NEW f, NEW S, Summed(f, S)
  PROVE  \E g \in [SUBSET S -> Nat] : Folds(g, S, Foremost(S), 0, Adds(f, S)) /\ SumFunctionOnSet(f, S) = g[S]
  <1> DEFINE pick == Foremost(S)
             step == Adds(f, S)
             Is(g) == g = [s \in SUBSET S |-> IF s = {} THEN 0
                                              ELSE f[CHOOSE x \in s : TRUE] + g[s \ {CHOOSE x \in s : TRUE}]]
  <1>1. Picks(S, pick)
    BY DEF Picks, Foremost
  <1>2. step \in [S \X Nat -> Nat]
    <2>1. ASSUME NEW p \in S \X Nat PROVE f[p[1]] + p[2] \in Nat
      BY DEF Summed
    <2> QED
      BY <2>1 DEF Adds
  <1>3. PICK g \in [SUBSET S -> Nat] : Folds(g, S, pick, 0, step)
    <2>1. 0 \in Nat
      OBVIOUS
    <2> HIDE DEF pick, step
    <2>2. Foldable(S, Nat, pick, 0, step)
      BY <1>1, <1>2, <2>1, FoldIs DEF Summed
    <2> QED
      BY <2>2 DEF Foldable
  <1> DEFINE sum == CHOOSE h : Is(h)
  <1>4. Is(g)
    <2>1. ASSUME NEW s \in SUBSET S, s # {}
          PROVE  g[s] = f[CHOOSE x \in s : TRUE] + g[s \ {CHOOSE x \in s : TRUE}]
      <3> DEFINE c == CHOOSE x \in s : TRUE
      <3>1. c \in S /\ s \ {c} \in SUBSET S /\ g[s \ {c}] \in Nat /\ pick[s] = c
        BY <2>1 DEF Foremost
      <3>2. g[s] = step[<<c, g[s \ {c}]>>]
        <4> HIDE DEF c, pick, step
        <4> QED
          BY <1>3, <2>1, <3>1 DEF Folds
      <3>3. step[<<c, g[s \ {c}]>>] = f[c] + g[s \ {c}]
        <4> HIDE DEF c
        <4>1. <<c, g[s \ {c}]>> \in S \X Nat
          BY <3>1
        <4> QED
          BY <4>1 DEF Adds
      <3> HIDE DEF c, pick, step
      <3> QED
        BY <3>1, <3>2, <3>3 DEF c
    <2>2. g[{}] = 0
      BY <1>3 DEF Folds
    <2> QED
      BY <2>1, <2>2
  <1>5. Is(sum)
    <2> HIDE DEF Is
    <2> QED
      BY <1>4
  <1>6. SumFunctionOnSet(f, S) = sum[S]
    BY DEF SumFunctionOnSet, FoldFunctionOnSet, MapThenFoldSet
  <1> HIDE DEF sum
  <1> DEFINE W == {g[s] : s \in SUBSET S} \union {sum[s] : s \in SUBSET S}
             wide == [p \in S \X W |-> f[p[1]] + p[2]]
  <1>7. ASSUME NEW h, h = g \/ h = sum PROVE Folds(h, S, pick, 0, wide)
    <2>1. ASSUME NEW s \in SUBSET S, s # {} PROVE h[s] = wide[<<pick[s], h[s \ {pick[s]}]>>]
      <3> DEFINE c == CHOOSE x \in s : TRUE
      <3>1. c \in S /\ s \ {c} \in SUBSET S /\ pick[s] = c
        BY <2>1 DEF Foremost
      <3>2. h[s \ {c}] \in W
        <4> HIDE DEF c
        <4> QED
          BY <1>7, <3>1
      <3>3. h[s] = f[c] + h[s \ {c}]
        BY <1>4, <1>5, <1>7, <2>1
      <3> HIDE DEF c, W, pick
      <3>4. <<c, h[s \ {c}]>> \in S \X W
        BY <3>1, <3>2
      <3> QED
        BY <3>1, <3>3, <3>4
    <2>2. h[{}] = 0
      BY <1>4, <1>5, <1>7
    <2> HIDE DEF pick, wide
    <2> QED
      BY <2>1, <2>2 DEF Folds
  <1>8. S \in SUBSET S
    OBVIOUS
  <1>9. sum[S] = g[S]
    <2>1. Folds(sum, S, pick, 0, wide) /\ Folds(g, S, pick, 0, wide)
      BY <1>7
    <2>2. IsFiniteSet(S)
      BY DEF Summed
    <2> HIDE DEF pick, wide
    <2> QED
      BY <1>1, <1>8, <2>1, <2>2, FoldIsOne
  <1> QED
    BY <1>3, <1>6, <1>9

LEMMA SumOfNone == ASSUME NEW f PROVE SumFunctionOnSet(f, {}) = 0
  <1>1. Summed(f, {})
    BY FS_EmptySet DEF Summed
  <1>2. PICK g \in [SUBSET {} -> Nat] : Folds(g, {}, Foremost({}), 0, Adds(f, {})) /\ SumFunctionOnSet(f, {}) = g[{}]
    BY <1>1, SumFolds
  <1> QED
    BY <1>2 DEF Folds

LEMMA SumIsNat ==
  ASSUME NEW f, NEW S, Summed(f, S)
  PROVE  SumFunctionOnSet(f, S) \in Nat
  <1>1. PICK g \in [SUBSET S -> Nat] : SumFunctionOnSet(f, S) = g[S]
    BY SumFolds
  <1> QED
    BY <1>1

LEMMA SummedLess ==
  ASSUME NEW f, NEW S, Summed(f, S), NEW T, T \subseteq S
  PROVE  Summed(f, T)
  BY FS_Subset DEF Summed

LEMMA SumChosen ==
  ASSUME NEW f, NEW S, Summed(f, S), S # {}
  PROVE  \E c \in S : SumFunctionOnSet(f, S) = f[c] + SumFunctionOnSet(f, S \ {c})
  <1> DEFINE c == CHOOSE x \in S : TRUE
             T == S \ {c}
  <1>1. Summed(f, T) /\ c \in S /\ T \in SUBSET S /\ IsFiniteSet(S) /\ IsFiniteSet(T) /\ f[c] \in Nat
    <2>1. c \in S /\ T \subseteq S
      OBVIOUS
    <2> HIDE DEF T
    <2> QED
      BY <2>1, SummedLess DEF Summed
  <1>2. PICK g \in [SUBSET S -> Nat] : Folds(g, S, Foremost(S), 0, Adds(f, S)) /\ SumFunctionOnSet(f, S) = g[S]
    BY SumFolds
  <1>3. PICK h \in [SUBSET T -> Nat] : Folds(h, T, Foremost(T), 0, Adds(f, T)) /\ SumFunctionOnSet(f, T) = h[T]
    <2> HIDE DEF T
    <2> QED
      BY <1>1, SumFolds
  <1>4. ASSUME NEW s \in SUBSET S, s # {}
        PROVE  /\ Foremost(S)[s] \in s /\ g[s \ {Foremost(S)[s]}] \in Nat
               /\ g[s] = f[Foremost(S)[s]] + g[s \ {Foremost(S)[s]}]
    <2> DEFINE d == Foremost(S)[s]
    <2>1. d \in s /\ s \ {d} \in SUBSET S
      BY <1>4 DEF Foremost
    <2>2. g[s \ {d}] \in Nat /\ <<d, g[s \ {d}]>> \in S \X Nat
      <3> HIDE DEF d
      <3> QED
        BY <2>1
    <2>3. Adds(f, S)[<<d, g[s \ {d}]>>] = f[d] + g[s \ {d}]
      <3> HIDE DEF d
      <3> QED
        BY <2>2 DEF Adds
    <2> QED
      BY <1>2, <1>4, <2>1, <2>2, <2>3 DEF Folds
  <1>5. Folds(g, T, Foremost(T), 0, Adds(f, T))
    <2>1. ASSUME NEW s \in SUBSET T, s # {} PROVE g[s] = Adds(f, T)[<<Foremost(T)[s], g[s \ {Foremost(T)[s]}]>>]
      <3> DEFINE d == Foremost(T)[s]
      <3>1. s \in SUBSET S /\ Foremost(S)[s] = d
        BY <1>1 DEF Foremost
      <3>2. d \in T /\ g[s \ {d}] \in Nat /\ g[s] = f[d] + g[s \ {d}]
        BY <1>4, <2>1, <3>1
      <3> HIDE DEF d, T
      <3>3. <<d, g[s \ {d}]>> \in T \X Nat
        BY <3>2
      <3> QED
        BY <3>2, <3>3 DEF Adds, d
    <2>2. g[{}] = 0
      BY <1>2 DEF Folds
    <2> HIDE DEF T
    <2> QED
      BY <2>1, <2>2 DEF Folds
  <1>6. g[T] = h[T]
    <2>1. T \in SUBSET T /\ Picks(T, Foremost(T))
      BY DEF Picks, Foremost
    <2> HIDE DEF T
    <2> QED
      BY <1>1, <1>3, <1>5, <2>1, FoldIsOne
  <1>7. Foremost(S)[S] = c
    BY DEF Foremost
  <1> QED
    BY <1>2, <1>3, <1>4, <1>6, <1>7

(* Any element may be taken first.                                             *)
LEMMA SumTakes ==
  ASSUME NEW f, NEW S, Summed(f, S), NEW x \in S
  PROVE  SumFunctionOnSet(f, S) = f[x] + SumFunctionOnSet(f, S \ {x})
  <1> DEFINE Right(T) == \A y \in T : SumFunctionOnSet(f, T) = f[y] + SumFunctionOnSet(f, T \ {y})
             Sizes == {n \in Nat : \A T \in SUBSET S : Cardinality(T) = n => Right(T)}
  <1>1. ASSUME NEW n \in Nat, \A T \in SUBSET S : Cardinality(T) = n => Right(T), NEW T \in SUBSET S, Cardinality(T) = n + 1,
               NEW y \in T
        PROVE  SumFunctionOnSet(f, T) = f[y] + SumFunctionOnSet(f, T \ {y})
    <2>1. Summed(f, T)
      BY SummedLess
    <2>2. PICK c \in T : SumFunctionOnSet(f, T) = f[c] + SumFunctionOnSet(f, T \ {c})
      BY <1>1, <2>1, SumChosen
    <2>3. Summed(f, T) /\ Summed(f, T \ {c}) /\ Summed(f, T \ {y}) /\ Summed(f, T \ {c, y}) /\ IsFiniteSet(T)
      BY SummedLess DEF Summed
    <2>4. CASE y = c
      BY <2>2, <2>4
    <2>5. CASE y # c
      <3>1. Cardinality(T \ {c}) = n /\ Cardinality(T \ {y}) = n
        <4>1. Cardinality(T \ {c}) = Cardinality(T) - 1 /\ Cardinality(T \ {y}) = Cardinality(T) - 1
          BY <2>3, FS_RemoveElement
        <4> QED
          BY <1>1, <4>1
      <3>2. Right(T \ {c}) /\ Right(T \ {y})
        <4>1. T \ {c} \in SUBSET S /\ T \ {y} \in SUBSET S
          OBVIOUS
        <4> HIDE DEF Right
        <4> QED
          BY <1>1, <3>1, <4>1
      <3>3. (T \ {c}) \ {y} = T \ {c, y} /\ (T \ {y}) \ {c} = T \ {c, y} /\ y \in T \ {c} /\ c \in T \ {y}
        BY <2>5
      <3>4. /\ SumFunctionOnSet(f, T \ {c}) = f[y] + SumFunctionOnSet(f, T \ {c, y})
            /\ SumFunctionOnSet(f, T \ {y}) = f[c] + SumFunctionOnSet(f, T \ {c, y})
        BY <3>2, <3>3
      <3>5. SumFunctionOnSet(f, T \ {c, y}) \in Nat /\ f[c] \in Nat /\ f[y] \in Nat
        BY <2>3, SumIsNat DEF Summed
      <3> QED
        BY <2>2, <3>4, <3>5
    <2> QED
      BY <2>4, <2>5
  <1>2. \A n \in Sizes : n + 1 \in Sizes
    BY <1>1
  <1>3. 0 \in Sizes
    <2>1. ASSUME NEW T \in SUBSET S, Cardinality(T) = 0 PROVE T = {}
      BY <2>1, FS_Subset, FS_EmptySet DEF Summed
    <2> QED
      BY <2>1
  <1>4. Sizes \in SUBSET Nat
    OBVIOUS
  <1>5. Cardinality(S) \in Sizes
    <2>1. Cardinality(S) \in Nat
      BY FS_CardinalityType DEF Summed
    <2> HIDE DEF Sizes
    <2> QED
      BY <1>2, <1>3, <1>4, <2>1, AllNumbers
  <1>6. Right(S)
    <2> HIDE DEF Right
    <2> QED
      BY <1>5
  <1> QED
    BY <1>6

LEMMA SumOfBoth ==
  ASSUME NEW f, NEW S, NEW T, Summed(f, S \union T), S \intersect T = {}
  PROVE  SumFunctionOnSet(f, S \union T) = SumFunctionOnSet(f, S) + SumFunctionOnSet(f, T)
  <1> DEFINE Right(U) == SumFunctionOnSet(f, S \union U) = SumFunctionOnSet(f, S) + SumFunctionOnSet(f, U)
             Sizes == {n \in Nat : \A U \in SUBSET T : Cardinality(U) = n => Right(U)}
  <1>1. Summed(f, S) /\ Summed(f, T) /\ SumFunctionOnSet(f, S) \in Nat
    BY SummedLess, SumIsNat
  <1>2. ASSUME NEW n \in Nat, \A U \in SUBSET T : Cardinality(U) = n => Right(U), NEW U \in SUBSET T, Cardinality(U) = n + 1
        PROVE  Right(U)
    <2>1. Summed(f, U) /\ IsFiniteSet(U) /\ Summed(f, S \union U)
      <3>1. U \subseteq T /\ S \union U \subseteq S \union T
        OBVIOUS
      <3> QED
        BY <1>1, <3>1, SummedLess DEF Summed
    <2>2. PICK y : y \in U
      <3>1. Cardinality({}) = 0
        BY FS_EmptySet
      <3> QED
        BY <1>2, <3>1
    <2> DEFINE V == U \ {y}
    <2>3. V \in SUBSET T /\ Cardinality(V) = n /\ (S \union U) \ {y} = S \union V
      <3>1. Cardinality(V) = Cardinality(U) - 1
        BY <2>1, <2>2, FS_RemoveElement
      <3>2. (S \union U) \ {y} = S \union V
        BY <2>2
      <3> QED
        BY <1>2, <3>1, <3>2
    <2>4. Right(V)
      <3> HIDE DEF V, Right
      <3> QED
        BY <1>2, <2>3
    <2>5. SumFunctionOnSet(f, U) = f[y] + SumFunctionOnSet(f, V)
      BY <2>1, <2>2, SumTakes
    <2>6. SumFunctionOnSet(f, S \union U) = f[y] + SumFunctionOnSet(f, S \union V)
      <3>1. y \in S \union U
        BY <2>2
      <3>2. SumFunctionOnSet(f, S \union U) = f[y] + SumFunctionOnSet(f, (S \union U) \ {y})
        BY <2>1, <3>1, SumTakes
      <3> QED
        BY <2>3, <3>2
    <2>7. f[y] \in Nat /\ SumFunctionOnSet(f, V) \in Nat
      <3>1. Summed(f, V)
        BY <2>1, SummedLess
      <3> QED
        BY <2>1, <2>2, <3>1, SumIsNat DEF Summed
    <2> HIDE DEF V
    <2> QED
      BY <1>1, <2>4, <2>5, <2>6, <2>7
  <1>3. \A n \in Sizes : n + 1 \in Sizes
    <2> HIDE DEF Right
    <2> QED
      BY <1>2
  <1>4. 0 \in Sizes
    <2>1. ASSUME NEW U \in SUBSET T, Cardinality(U) = 0 PROVE Right(U)
      <3>1. U = {}
        BY <1>1, <2>1, FS_Subset, FS_EmptySet DEF Summed
      <3>2. S \union U = S
        BY <3>1
      <3> QED
        BY <1>1, <3>1, <3>2, SumOfNone
    <2> HIDE DEF Right
    <2> QED
      BY <2>1
  <1>5. Sizes \in SUBSET Nat
    OBVIOUS
  <1>6. Right(T)
    <2>1. Cardinality(T) \in Nat
      BY <1>1, FS_CardinalityType DEF Summed
    <2>2. Cardinality(T) \in Sizes
      <3> HIDE DEF Sizes
      <3> QED
        BY <1>3, <1>4, <1>5, <2>1, AllNumbers
    <2> HIDE DEF Right
    <2> QED
      BY <2>2
  <1> QED
    BY <1>6

LEMMA SumOfMore ==
  ASSUME NEW f, NEW S, Summed(f, S), NEW T, T \subseteq S
  PROVE  SumFunctionOnSet(f, T) <= SumFunctionOnSet(f, S)
  <1> DEFINE U == S \ T
  <1>1. T \union U = S /\ T \intersect U = {}
    OBVIOUS
  <1> HIDE DEF U
  <1>2. Summed(f, T) /\ Summed(f, U)
    BY <1>1, SummedLess
  <1>3. SumFunctionOnSet(f, S) = SumFunctionOnSet(f, T) + SumFunctionOnSet(f, U)
    BY <1>1, SumOfBoth
  <1>4. SumFunctionOnSet(f, T) \in Nat /\ SumFunctionOnSet(f, U) \in Nat
    BY <1>2, SumIsNat
  <1> QED
    BY <1>3, <1>4

(* The parts of a set, each with its sum.                                      *)
Parts(O, P, S) ==
    /\ \A o \in O : P[o] \subseteq S
    /\ \A o, q \in O : o # q => P[o] \intersect P[q] = {}
Joined(O, P) == UNION {P[o] : o \in O}

LEMMA SumOfParts ==
  ASSUME NEW f, NEW S, Summed(f, S), NEW O, IsFiniteSet(O), NEW P, Parts(O, P, S),
         NEW g, \A o \in O : g[o] = SumFunctionOnSet(f, P[o])
  PROVE  SumFunctionOnSet(g, O) = SumFunctionOnSet(f, Joined(O, P))
  <1> DEFINE Right(U) == SumFunctionOnSet(g, U) = SumFunctionOnSet(f, Joined(U, P))
             Sizes == {n \in Nat : \A U \in SUBSET O : Cardinality(U) = n => Right(U)}
  <1>1. Summed(g, O)
    <2>1. \A o \in O : Summed(f, P[o])
      BY SummedLess DEF Parts
    <2>2. \A o \in O : SumFunctionOnSet(f, P[o]) \in Nat
      BY <2>1, SumIsNat
    <2> QED
      BY <2>2 DEF Summed
  <1>2. ASSUME NEW n \in Nat, \A U \in SUBSET O : Cardinality(U) = n => Right(U), NEW U \in SUBSET O, Cardinality(U) = n + 1
        PROVE  Right(U)
    <2>1. Summed(g, U) /\ IsFiniteSet(U)
      BY <1>1, SummedLess DEF Summed
    <2>2. PICK y : y \in U
      <3>1. Cardinality({}) = 0
        BY FS_EmptySet
      <3> QED
        BY <1>2, <3>1
    <2> DEFINE V == U \ {y}
    <2>3. V \in SUBSET O /\ Cardinality(V) = n
      <3>1. Cardinality(V) = Cardinality(U) - 1
        BY <2>1, <2>2, FS_RemoveElement
      <3> QED
        BY <1>2, <3>1
    <2>4. Right(V)
      <3> HIDE DEF V, Right
      <3> QED
        BY <1>2, <2>3
    <2>5. SumFunctionOnSet(g, U) = SumFunctionOnSet(f, P[y]) + SumFunctionOnSet(g, V)
      <3>1. SumFunctionOnSet(g, U) = g[y] + SumFunctionOnSet(g, V)
        BY <2>1, <2>2, SumTakes
      <3>2. g[y] = SumFunctionOnSet(f, P[y])
        BY <2>2
      <3> QED
        BY <3>1, <3>2
    <2>6. P[y] \union Joined(V, P) = Joined(U, P) /\ P[y] \intersect Joined(V, P) = {} /\ Joined(U, P) \subseteq S
      BY <2>2 DEF Joined, Parts
    <2>7. SumFunctionOnSet(f, Joined(U, P)) = SumFunctionOnSet(f, P[y]) + SumFunctionOnSet(f, Joined(V, P))
      <3>1. Summed(f, P[y] \union Joined(V, P))
        BY <2>6, SummedLess
      <3>2. SumFunctionOnSet(f, P[y] \union Joined(V, P)) = SumFunctionOnSet(f, P[y]) + SumFunctionOnSet(f, Joined(V, P))
        <4> SUFFICES ASSUME NEW A, A = P[y], NEW B, B = Joined(V, P)
                     PROVE  SumFunctionOnSet(f, A \union B) = SumFunctionOnSet(f, A) + SumFunctionOnSet(f, B)
          OBVIOUS
        <4>1. Summed(f, A \union B) /\ A \intersect B = {}
          BY <2>6, <3>1
        <4> QED
          BY <4>1, SumOfBoth
      <3> QED
        BY <2>6, <3>2
    <2> HIDE DEF V
    <2> QED
      BY <2>4, <2>5, <2>7
  <1>3. \A n \in Sizes : n + 1 \in Sizes
    <2> HIDE DEF Right
    <2> QED
      BY <1>2
  <1>4. 0 \in Sizes
    <2>1. ASSUME NEW U \in SUBSET O, Cardinality(U) = 0 PROVE Right(U)
      <3>1. U = {} /\ Joined(U, P) = {}
        BY <1>1, <2>1, FS_Subset, FS_EmptySet DEF Summed, Joined
      <3> QED
        BY <3>1, SumOfNone
    <2> HIDE DEF Right
    <2> QED
      BY <2>1
  <1>5. Sizes \in SUBSET Nat
    OBVIOUS
  <1>6. Right(O)
    <2>1. Cardinality(O) \in Nat
      BY FS_CardinalityType
    <2>2. Cardinality(O) \in Sizes
      <3> HIDE DEF Sizes
      <3> QED
        BY <1>3, <1>4, <1>5, <2>1, AllNumbers
    <2> HIDE DEF Right
    <2> QED
      BY <2>2
  <1> QED
    BY <1>6

(* A sum of ones counts.                                                       *)
LEMMA SumCounts ==
  ASSUME NEW f, NEW S, IsFiniteSet(S), \A x \in S : f[x] = 1
  PROVE  SumFunctionOnSet(f, S) = Cardinality(S)
  <1> DEFINE Right(U) == SumFunctionOnSet(f, U) = Cardinality(U)
             Sizes == {n \in Nat : \A U \in SUBSET S : Cardinality(U) = n => Right(U)}
  <1>1. Summed(f, S)
    BY DEF Summed
  <1>2. ASSUME NEW n \in Nat, \A U \in SUBSET S : Cardinality(U) = n => Right(U), NEW U \in SUBSET S, Cardinality(U) = n + 1
        PROVE  Right(U)
    <2>1. Summed(f, U) /\ IsFiniteSet(U)
      BY <1>1, SummedLess DEF Summed
    <2>2. PICK y : y \in U
      <3>1. Cardinality({}) = 0
        BY FS_EmptySet
      <3> QED
        BY <1>2, <3>1
    <2> DEFINE V == U \ {y}
    <2>3. V \in SUBSET S /\ Cardinality(V) = n
      <3>1. Cardinality(V) = Cardinality(U) - 1
        BY <2>1, <2>2, FS_RemoveElement
      <3> QED
        BY <1>2, <3>1
    <2>4. Right(V)
      <3> HIDE DEF V, Right
      <3> QED
        BY <1>2, <2>3
    <2>5. SumFunctionOnSet(f, U) = f[y] + SumFunctionOnSet(f, V)
      BY <2>1, <2>2, SumTakes
    <2> HIDE DEF V
    <2> QED
      BY <1>2, <2>2, <2>3, <2>4, <2>5
  <1>3. \A n \in Sizes : n + 1 \in Sizes
    <2> HIDE DEF Right
    <2> QED
      BY <1>2
  <1>4. 0 \in Sizes
    <2>1. ASSUME NEW U \in SUBSET S, Cardinality(U) = 0 PROVE Right(U)
      <3>1. U = {}
        BY <1>1, <2>1, FS_Subset, FS_EmptySet DEF Summed
      <3> QED
        BY <2>1, <3>1, SumOfNone
    <2> HIDE DEF Right
    <2> QED
      BY <2>1
  <1>5. Sizes \in SUBSET Nat
    OBVIOUS
  <1>6. Right(S)
    <2>1. Cardinality(S) \in Nat
      BY FS_CardinalityType
    <2>2. Cardinality(S) \in Sizes
      <3> HIDE DEF Sizes
      <3> QED
        BY <1>3, <1>4, <1>5, <2>1, AllNumbers
    <2> HIDE DEF Right
    <2> QED
      BY <2>2
  <1> QED
    BY <1>6

=============================================================================
