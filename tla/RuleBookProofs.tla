--------------------------- MODULE RuleBookProofs ---------------------------
(***************************************************************************)
(* Proofs about the rules of the catalogue: induction, least elements,     *)
(* tables of rows by id, the rank of a number in a set and finite sets as  *)
(* sequences; what adding a rule and seeding the built-in groups leave in  *)
(* the tables; and what the matcher compiled from the rules answers.       *)
(***************************************************************************)
EXTENDS RuleBook, TLAPS, FiniteSetTheorems, WellFoundedInduction, SequenceTheorems

\* Induction on the natural numbers, for a set of them: the library's theorems
\* take the induction hypothesis as an operator.

LEMMA LessIsWellFounded ==
    IsWellFoundedOn({x \in Nat \X Nat : x[1] < x[2]}, Nat)
<1>. SUFFICES ASSUME NEW f \in [Nat -> Nat],
                     \A n \in Nat : <<f[n + 1], f[n]>> \in {x \in Nat \X Nat : x[1] < x[2]}
              PROVE FALSE
  BY DEF IsWellFoundedOn
<1>. QED
  BY NatLessThanWellFounded DEF OpToRel, IsWellFoundedOn

\* A set of natural numbers has a least one.
LEMMA LeastNumber ==
    ASSUME NEW T \in SUBSET Nat, T # {}
    PROVE  \E x \in T : \A y \in T : x <= y
<1>. DEFINE R == {x \in Nat \X Nat : x[1] < x[2]}
<1>1. \E x \in T : \A y \in T : <<y, x>> \notin R
  <2>. HIDE DEF R
  <2>1. IsWellFoundedOn(R, Nat)
    BY LessIsWellFounded DEF R
  <2>. QED
    BY <2>1, WFMin
<1>2. PICK x \in T : \A y \in T : <<y, x>> \notin R
  BY <1>1
<1>3. \A y \in T : x <= y
  <2>. TAKE y \in T
  <2>1. x \in Nat /\ y \in Nat
    OBVIOUS
  <2>2. <<y, x>> \notin R
    BY <1>2
  <2>3. ~(y < x)
    BY <2>1, <2>2
  <2>. QED
    BY <2>1, <2>3
<1>. QED
  BY <1>3

\* Induction: a set with 0 and the successor of each of its numbers has all.
LEMMA SetInduction ==
    ASSUME NEW T, 0 \in T, \A n \in Nat : n \in T => n + 1 \in T
    PROVE  Nat \subseteq T
<1>. SUFFICES ASSUME Nat \ T # {} PROVE FALSE
  OBVIOUS
<1>1. PICK x \in Nat \ T : \A y \in Nat \ T : x <= y
  BY LeastNumber
<1>2. x # 0
  OBVIOUS
<1>3. x - 1 \in Nat /\ x - 1 \in T
  BY <1>1, <1>2
<1>. QED
  BY <1>3

\* What a recursive function on 0 .. N is made of exists: the values in S that a
\* step function gives one after the other.
StepsOn(N, S) == [(1 .. N) \X S -> S]
ValuesIn(N, S) == [0 .. N -> S]
Follows(g, N, s, step) == g[0] = s /\ \A n \in 1 .. N : g[n] = step[<<n, g[n - 1]>>]

LEMMA Iterates ==
    ASSUME NEW N \in Nat, NEW S, NEW s \in S, NEW step \in StepsOn(N, S)
    PROVE  \E g \in ValuesIn(N, S) : Follows(g, N, s, step)
<1>. USE DEF StepsOn, ValuesIn, Follows
<1>. DEFINE Good(g, m) == g[0] = s /\ \A n \in 1 .. m : g[n] = step[<<n, g[n - 1]>>]
            T == {m \in Nat : m <= N => \E g \in [0 .. m -> S] : Good(g, m)}
<1>1. 0 \in T
  <2>1. Good([n \in 0 .. 0 |-> s], 0) /\ [n \in 0 .. 0 |-> s] \in [0 .. 0 -> S]
    OBVIOUS
  <2>. QED
    BY <2>1
<1>2. ASSUME NEW m \in Nat, m \in T
      PROVE  m + 1 \in T
  <2>. SUFFICES ASSUME m + 1 <= N PROVE \E g \in [0 .. m + 1 -> S] : Good(g, m + 1)
    OBVIOUS
  <2>1. PICK h \in [0 .. m -> S] : Good(h, m)
    BY <1>2
  <2>. DEFINE g == [n \in 0 .. m + 1 |-> IF n <= m THEN h[n] ELSE step[<<m + 1, h[m]>>]]
  <2>2. step[<<m + 1, h[m]>>] \in S
    OBVIOUS
  <2>3. g \in [0 .. m + 1 -> S]
    BY <2>2
  <2>4. g[0] = s
    BY <2>1
  <2>5. ASSUME NEW n \in 1 .. m + 1 PROVE g[n] = step[<<n, g[n - 1]>>]
    <3>1. n - 1 \in 0 .. m /\ g[n - 1] = h[n - 1]
      OBVIOUS
    <3>2. CASE n <= m
      <4>1. n \in 1 .. m /\ g[n] = h[n]
        BY <3>2
      <4>. QED
        BY <2>1, <3>1, <4>1
    <3>3. CASE n = m + 1
      <4>1. n - 1 = m /\ ~(n <= m)
        BY <3>3
      <4>2. g[n] = step[<<m + 1, h[m]>>] /\ g[n - 1] = h[m]
        BY <3>1, <4>1
      <4>. QED
        BY <3>3, <4>1, <4>2
    <3>. QED
      BY <3>2, <3>3
  <2>6. Good(g, m + 1)
    BY <2>4, <2>5
  <2>. QED
    BY <2>3, <2>6
<1>3. N \in T
  <2>. HIDE DEF T
  <2>. QED
    BY <1>1, <1>2, SetInduction
<1>. QED
  BY <1>3

\* Max and Min of the numbers below a bound.
LEMMA MaxIsIn ==
    ASSUME NEW b \in Nat, NEW T \in SUBSET (0 .. b), T # {}
    PROVE  Max(T) \in T /\ \A x \in T : x <= Max(T)
<1>. DEFINE above == {n \in Nat : \A x \in T : x <= n}
<1>1. b \in above
  OBVIOUS
<1>2. PICK m \in above : \A n \in above : m <= n
  BY <1>1, LeastNumber
<1>3. m \in T
  <2>. SUFFICES ASSUME m \notin T PROVE FALSE
    OBVIOUS
  <2>1. \A x \in T : x \in Nat /\ x <= m /\ x # m
    BY <1>2
  <2>2. m \in Nat /\ m # 0
    <3>1. PICK x \in T : TRUE
      OBVIOUS
    <3>. QED
      BY <2>1, <3>1
  <2>3. m - 1 \in Nat /\ \A x \in T : x <= m - 1
    BY <2>1, <2>2
  <2>4. m - 1 \in above
    BY <2>3
  <2>. QED
    BY <1>2, <2>2, <2>4
<1>4. \E x \in T : \A y \in T : x >= y
  BY <1>2, <1>3
<1>. QED
  BY <1>4 DEF Max

LEMMA MinIsIn ==
    ASSUME NEW T \in SUBSET Nat, T # {}
    PROVE  Min(T) \in T
BY LeastNumber DEF Min

\* A finite set as a sequence.
LEMMA SequenceOfSet ==
    ASSUME NEW S, IsFiniteSet(S)
    PROVE  /\ Cardinality(S) \in Nat
           /\ SetToSeq(S) \in [1 .. Cardinality(S) -> S]
           /\ SetToSeq(S) \in Seq(S)
           /\ DOMAIN SetToSeq(S) = 1 .. Cardinality(S)
           /\ \A i, j \in DOMAIN SetToSeq(S) : SetToSeq(S)[i] = SetToSeq(S)[j] => i = j
           /\ \A x \in S : \E i \in DOMAIN SetToSeq(S) : SetToSeq(S)[i] = x
<1>1. Cardinality(S) \in Nat
  BY FS_CardinalityType
<1>2. \E f : f \in Bijection(1 .. Cardinality(S), S)
  BY FS_NatBijection, FS_CardinalityType DEF ExistsBijection
<1>3. \E f \in [1 .. Cardinality(S) -> S] : IsInjective(f)
  BY <1>2 DEF Bijection, Injection, IsInjective
<1>4. SetToSeq(S) \in [1 .. Cardinality(S) -> S] /\ IsInjective(SetToSeq(S))
  BY <1>3 DEF SetToSeq
<1>. DEFINE f == SetToSeq(S)
            D == 1 .. Cardinality(S)
<1>5. IsFiniteSet(D) /\ Cardinality(D) = Cardinality(S)
  BY <1>1, FS_Interval
<1>6. f \in Injection(D, S)
  BY <1>4 DEF Injection, IsInjective
<1>7. f \in Surjection(D, S)
  <2>. HIDE DEF f, D
  <2>. QED
    BY <1>5, <1>6, FS_Injection
<1>. QED
  BY <1>1, <1>4, <1>7 DEF IsInjective, Surjection

-----------------------------------------------------------------------------
\* Tables: the ids of their rows are numbers from 1 up to some bound.

Bounded(S) == \E b \in Nat : S \subseteq 1 .. b
IdSets == {S \in SUBSET Nat : Bounded(S)}
Table(Row) == UNION {[S -> Row] : S \in IdSets}

\* A table is a function on bounded ids.
LEMMA TableIs ==
  ASSUME NEW Row, NEW t
  PROVE  t \in Table(Row) <=> Bounded(DOMAIN t) /\ t \in [DOMAIN t -> Row]
<1>1. ASSUME t \in Table(Row) PROVE Bounded(DOMAIN t) /\ t \in [DOMAIN t -> Row]
  <2>1. PICK S \in IdSets : t \in [S -> Row]
    BY <1>1 DEF Table
  <2>2. DOMAIN t = S
    BY <2>1
  <2> QED
    BY <2>1, <2>2 DEF IdSets
<1>2. ASSUME Bounded(DOMAIN t), t \in [DOMAIN t -> Row] PROVE t \in Table(Row)
  <2>1. DOMAIN t \in IdSets
    BY <1>2 DEF IdSets, Bounded
  <2> QED
    BY <1>2, <2>1 DEF Table
<1> QED
  BY <1>1, <1>2

\* The largest and the smallest id are ids, none is 0.
LEMMA IdsOf ==
  ASSUME NEW S, Bounded(S)
  PROVE  /\ S \subseteq Nat \ {0}
         /\ S # {} => /\ Max(S) \in S /\ \A x \in S : x <= Max(S)
                      /\ Min(S) \in S
<1>1. PICK b \in Nat : S \subseteq 1 .. b
  BY DEF Bounded
<1>2. S \in SUBSET (0 .. b) /\ S \in SUBSET Nat
  BY <1>1
<1>3. S # {} => Max(S) \in S /\ \A x \in S : x <= Max(S)
  BY <1>2, MaxIsIn
<1>4. S # {} => Min(S) \in S
  BY <1>2, MinIsIn
<1> QED
  BY <1>1, <1>3, <1>4

\* A part of the ids is bounded as well.
LEMMA BoundedSubset ==
  ASSUME NEW S, Bounded(S), NEW T \in SUBSET S
  PROVE  Bounded(T)
BY DEF Bounded

-----------------------------------------------------------------------------
\* The elements of a sequence kept at some places are numbered by rank.

Rank(P, i) == Cardinality({j \in P : j <= i})

\* The places of a finite set of numbers are numbered from 1 up, in order.
LEMMA RanksAre ==
  ASSUME NEW b \in Nat, NEW P \in SUBSET (1 .. b)
  PROVE  /\ IsFiniteSet(P) /\ Cardinality(P) \in Nat
         /\ \A i \in P : Rank(P, i) \in 1 .. Cardinality(P)
         /\ \A i, j \in P : i < j => Rank(P, i) < Rank(P, j)
         /\ \A n \in 1 .. Cardinality(P) : \E i \in P : Rank(P, i) = n
<1>. DEFINE T == {c \in Nat : \A Q \in SUBSET (1 .. c) :
                    \A n \in 1 .. Cardinality(Q) : \E i \in Q : Rank(Q, i) = n}
<1>1. \A c \in Nat : \A Q \in SUBSET (1 .. c) : IsFiniteSet(Q) /\ Cardinality(Q) \in Nat
  <2>. TAKE c \in Nat
  <2>. TAKE Q \in SUBSET (1 .. c)
  <2>1. IsFiniteSet(1 .. c)
    BY FS_Interval
  <2>2. IsFiniteSet(Q)
    BY <2>1, FS_Subset
  <2>. QED
    BY <2>2, FS_CardinalityType
<1>2. 0 \in T
  <2>1. \A Q \in SUBSET (1 .. 0) : Q = {}
    OBVIOUS
  <2>2. Cardinality({}) = 0
    BY FS_EmptySet
  <2>. QED
    BY <2>1, <2>2
<1>3. ASSUME NEW c \in Nat, c \in T PROVE c + 1 \in T
  <2>. SUFFICES ASSUME NEW Q \in SUBSET (1 .. c + 1), NEW n \in 1 .. Cardinality(Q)
                PROVE  \E i \in Q : Rank(Q, i) = n
    BY <1>3
  <2>. DEFINE R == Q \ {c + 1}
  <2>1. R \in SUBSET (1 .. c) /\ IsFiniteSet(R) /\ Cardinality(R) \in Nat
    <3>1. R \in SUBSET (1 .. c)
      BY <1>3
    <3>. QED
      BY <1>1, <3>1
  <2>2. CASE c + 1 \notin Q
    <3>1. R = Q
      BY <2>2
    <3>. QED
      BY <1>3, <2>1, <3>1
  <2>3. CASE c + 1 \in Q
    <3>1. Q = R \cup {c + 1} /\ c + 1 \notin R
      BY <2>3
    <3>2. Cardinality(Q) = Cardinality(R) + 1
      <4>. HIDE DEF R
      <4>. QED
        BY <2>1, <3>1, FS_AddElement
    <3>3. CASE n = Cardinality(R) + 1
      <4>1. \A j \in Q : j \in 1 .. c + 1 /\ j <= c + 1
        OBVIOUS
      <4>2. {j \in Q : j <= c + 1} = Q
        BY <4>1
      <4>. QED
        BY <2>3, <3>2, <3>3, <4>2 DEF Rank
    <3>4. CASE n # Cardinality(R) + 1
      <4>1. n \in 1 .. Cardinality(R)
        BY <2>1, <3>2, <3>4
      <4>2. PICK i \in R : Rank(R, i) = n
        BY <1>3, <2>1, <4>1
      <4>3. {j \in Q : j <= i} = {j \in R : j <= i}
        BY <2>1, <4>2
      <4>. QED
        BY <4>2, <4>3 DEF Rank
    <3>. QED
      BY <3>3, <3>4
  <2>. QED
    BY <2>2, <2>3
<1>4. \A c \in Nat : c \in T
  <2>. HIDE DEF T
  <2>. QED
    BY <1>2, <1>3, SetInduction
<1>5. IsFiniteSet(P) /\ Cardinality(P) \in Nat
  BY <1>1
<1>6. ASSUME NEW i \in P PROVE Rank(P, i) \in 1 .. Cardinality(P)
  <2>1. {j \in P : j <= i} \in SUBSET P /\ i \in {j \in P : j <= i}
    OBVIOUS
  <2>2. /\ IsFiniteSet({j \in P : j <= i})
        /\ Cardinality({j \in P : j <= i}) <= Cardinality(P)
    BY <1>5, <2>1, FS_Subset
  <2>3. Cardinality({j \in P : j <= i}) \in Nat /\ Cardinality({j \in P : j <= i}) # 0
    BY <2>1, <2>2, FS_CardinalityType, FS_EmptySet
  <2>. QED
    BY <1>5, <2>2, <2>3 DEF Rank
<1>7. ASSUME NEW i \in P, NEW j \in P, i < j PROVE Rank(P, i) < Rank(P, j)
  <2>. DEFINE A == {k \in P : k <= i}
              B == {k \in P : k <= j}
  <2>0. i \in Nat /\ j \in Nat /\ \A k \in P : k \in Nat
    OBVIOUS
  <2>1. A \in SUBSET B /\ j \in B /\ j \notin A
    <3>1. \A k \in P : k <= i => k <= j
      BY <1>7, <2>0
    <3>2. A \in SUBSET B
      BY <3>1
    <3>3. j <= j /\ ~(j <= i)
      BY <1>7, <2>0
    <3>. QED
      BY <3>2, <3>3
  <2>2. IsFiniteSet(B)
    BY <1>5, FS_Subset
  <2>3. /\ Cardinality(A) <= Cardinality(B) /\ Cardinality(A) # Cardinality(B)
        /\ IsFiniteSet(A)
    <3>. HIDE DEF A, B
    <3>. QED
      BY <2>1, <2>2, FS_Subset
  <2>4. Cardinality(A) \in Nat /\ Cardinality(B) \in Nat
    BY <2>2, <2>3, FS_CardinalityType
  <2>. QED
    BY <2>3, <2>4 DEF Rank
<1>. QED
  BY <1>4, <1>5, <1>6, <1>7

-----------------------------------------------------------------------------
\* The least number of a set, recursive functions, products.

\* The first of some places is one of them.
LEMMA FirstIs ==
  ASSUME NEW T \in SUBSET Nat, T # {}
  PROVE  (CHOOSE i \in T : \A j \in T : i <= j) \in T
BY LeastNumber

\* A recursive function whose steps stay in a set has its values there.
LEMMA StaysIn ==
  ASSUME NEW N \in Nat, NEW S, NEW f, f[0] \in S,
         \A n \in 1 .. N : f[n - 1] \in S => f[n] \in S
  PROVE  \A n \in 0 .. N : f[n] \in S
<1>. DEFINE T == {n \in Nat : n <= N => f[n] \in S}
<1>1. 0 \in T
  OBVIOUS
<1>2. ASSUME NEW n \in Nat, n \in T PROVE n + 1 \in T
  <2>. SUFFICES ASSUME n + 1 <= N PROVE f[n + 1] \in S
    OBVIOUS
  <2>1. n + 1 \in 1 .. N /\ (n + 1) - 1 = n /\ n <= N
    OBVIOUS
  <2>2. f[(n + 1) - 1] \in S
    BY <1>2, <2>1
  <2>. QED
    BY <2>1, <2>2
<1>3. Nat \subseteq T
  <2>. HIDE DEF T
  <2>. QED
    BY <1>1, <1>2, SetInduction
<1>. QED
  BY <1>3

\* Induction on the places of a sequence.
LEMMA EachIn ==
  ASSUME NEW N \in Nat, NEW T, 0 \in T, \A n \in 1 .. N : n - 1 \in T => n \in T
  PROVE  \A n \in 0 .. N : n \in T
<1>. DEFINE f == [n \in 0 .. N |-> n]
<1>1. /\ 0 \in 0 .. N /\ \A n \in 1 .. N : n \in 0 .. N /\ n - 1 \in 0 .. N
  OBVIOUS
<1>2. f[0] \in T /\ \A n \in 1 .. N : f[n - 1] \in T => f[n] \in T
  BY <1>1
<1>3. \A n \in 0 .. N : f[n] = n
  OBVIOUS
<1>. HIDE DEF f
<1>4. \A n \in 0 .. N : f[n] \in T
  BY <1>2, StaysIn
<1>. QED
  BY <1>3, <1>4

\* The values a step function gives one after the other, as a function.
Unrolls(g, N, s, step) ==
    g = [n \in 0 .. N |-> IF n = 0 THEN s ELSE step[<<n, g[n - 1]>>]]

\* Such a function exists.
LEMMA Repeats ==
  ASSUME NEW N \in Nat, NEW S, NEW s \in S, NEW step \in StepsOn(N, S)
  PROVE  \E g \in ValuesIn(N, S) : Unrolls(g, N, s, step)
<1>2. PICK g \in ValuesIn(N, S) : Follows(g, N, s, step)
  BY Iterates
<1>3. g \in [0 .. N -> S] /\ g[0] = s /\ \A n \in 1 .. N : g[n] = step[<<n, g[n - 1]>>]
  BY <1>2 DEF ValuesIn, Follows
<1>4. \A n \in 0 .. N : g[n] = IF n = 0 THEN s ELSE step[<<n, g[n - 1]>>]
  BY <1>3
<1>5. g = [n \in 0 .. N |-> IF n = 0 THEN s ELSE step[<<n, g[n - 1]>>]]
  BY <1>3, <1>4
<1>. QED
  BY <1>2, <1>5 DEF Unrolls

\* Products and quotients of natural numbers are natural.
LEMMA NaturalArithmetic ==
  ASSUME NEW a \in Nat, NEW b \in Nat
  PROVE  a * b \in Nat /\ (b # 0 => a \div b \in Nat)
<1>1. a * b \in Nat
  OBVIOUS
<1>2. b # 0 => a \div b \in Nat
  OBVIOUS
<1>. QED
  BY <1>1, <1>2

\* Percentages of integers, without a division.
LEMMA PercentIs ==
  ASSUME NEW a \in Nat, NEW b \in Nat, NEW pct \in 0 .. 100
  PROVE  /\ 100 * a >= 100 * b <=> a >= b
         /\ 100 * a >= 100 * b => 100 * a >= pct * b
<1>1. 100 * a >= 100 * b <=> a >= b
  OBVIOUS
<1>2. pct * b <= 100 * b
  <2>1. PICK c \in Nat : pct + c = 100
    <3>1. 100 - pct \in Nat /\ pct + (100 - pct) = 100
      OBVIOUS
    <3>. QED
      BY <3>1
  <2>2. pct \in Nat
    OBVIOUS
  <2>3. (pct + c) * b = pct * b + c * b /\ c * b \in Nat /\ pct * b \in Nat
    BY <2>2
  <2>. QED
    BY <2>1, <2>3
<1>3. pct * b \in Nat
  <2>1. pct \in Nat
    OBVIOUS
  <2>. QED
    BY <2>1
<1>. QED
  BY <1>1, <1>2, <1>3
-----------------------------------------------------------------------------
\* The catalogue's tables.

LEMMA NextIdIs ==
  ASSUME NEW t, Bounded(DOMAIN t)
  PROVE  /\ NextId(t) \in Nat \ {0} /\ NextId(t) \notin DOMAIN t
         /\ \A x \in DOMAIN t : x < NextId(t)
         /\ Bounded(DOMAIN t \cup {NextId(t)})
<1>1. CASE DOMAIN t = {}
  <2>1. NextId(t) = 1
    BY <1>1 DEF NextId
  <2>2. {1} \subseteq 1 .. 1
    OBVIOUS
  <2> QED
    BY <1>1, <2>1, <2>2 DEF Bounded
<1>2. CASE DOMAIN t # {}
  <2>1. /\ DOMAIN t \subseteq Nat \ {0} /\ Max(DOMAIN t) \in DOMAIN t
        /\ \A x \in DOMAIN t : x <= Max(DOMAIN t)
    BY <1>2, IdsOf
  <2>2. PICK m \in Nat \ {0} : m = Max(DOMAIN t)
    BY <2>1
  <2>3. NextId(t) = m + 1
    BY <1>2, <2>2 DEF NextId
  <2>4. \A x \in DOMAIN t : x \in Nat \ {0} /\ x <= m
    BY <2>1, <2>2
  <2>5. m + 1 \in Nat \ {0} /\ \A x \in DOMAIN t : x < m + 1 /\ x \in 1 .. m + 1
    BY <2>4
  <2>6. DOMAIN t \cup {m + 1} \subseteq 1 .. m + 1
    BY <2>5
  <2> QED
    BY <2>3, <2>5, <2>6 DEF Bounded
<1> QED
  BY <1>1, <1>2

LEMMA InsertIs ==
  ASSUME NEW t, NEW row, Bounded(DOMAIN t)
  PROVE  /\ DOMAIN Insert(t, row) = DOMAIN t \cup {NextId(t)}
         /\ Insert(t, row)[NextId(t)] = row
         /\ \A x \in DOMAIN t : Insert(t, row)[x] = t[x]
         /\ \A Row : t \in Table(Row) /\ row \in Row => Insert(t, row) \in Table(Row)
<1>1. /\ DOMAIN Insert(t, row) = DOMAIN t \cup {NextId(t)}
      /\ Insert(t, row) = [x \in DOMAIN t \cup {NextId(t)} |-> IF x = NextId(t) THEN row ELSE t[x]]
  BY DEF Insert, Store
<1>2. NextId(t) \notin DOMAIN t /\ Bounded(DOMAIN t \cup {NextId(t)})
  BY NextIdIs
<1>3. ASSUME NEW Row, t \in Table(Row), row \in Row PROVE Insert(t, row) \in Table(Row)
  <2>1. t \in [DOMAIN t -> Row]
    BY <1>3, TableIs
  <2>2. Insert(t, row) \in [DOMAIN t \cup {NextId(t)} -> Row]
    BY <1>1, <1>3, <2>1
  <2> QED
    BY <1>1, <1>2, <2>2, TableIs
<1> QED
  BY <1>1, <1>2, <1>3

LEMMA RestrictIs ==
  ASSUME NEW Row, NEW t \in Table(Row), NEW S \in SUBSET DOMAIN t
  PROVE  /\ DOMAIN Restrict(t, S) = S /\ \A x \in S : Restrict(t, S)[x] = t[x]
         /\ Restrict(t, S) \in Table(Row)
<1>1. Bounded(DOMAIN t) /\ t \in [DOMAIN t -> Row]
  BY TableIs
<1>2. Restrict(t, S) = [x \in S |-> t[x]]
  BY DEF Restrict
<1>3. Bounded(S)
  BY <1>1, BoundedSubset
<1> QED
  BY <1>1, <1>2, <1>3, TableIs
-----------------------------------------------------------------------------
\* The tables of rules, groups and sources.

Ids == Nat \cup {None}
Kinds == {"pattern", "folder", "file"}
Values == Value({GlobStar} \cup SUBSET Names) \cup Value(Names)

RuleRows ==
    {r \in [kind : Kinds, value : Values, group : Ids, root : Ids, inode : Ids,
            enabled : BOOLEAN, builtin : BOOLEAN] :
        [kind |-> r.kind, value |-> r.value] \in RuleText}

\* The rows whose foreign keys are rows of G and R.
RulesOver(G, R) == {r \in RuleRows : r.group \in G \cup {None} /\ r.root \in R \cup {None}}

KeySet == {None} \cup UNION {{Releases[n][i].key : i \in DOMAIN Releases[n]} :
                                n \in DOMAIN Releases}
NameSet == {r.group : r \in Requests \cup Begun}
               \cup UNION {{Releases[n][i].name : i \in DOMAIN Releases[n]} :
                               n \in DOMAIN Releases}
GroupRows == [key : KeySet, name : NameSet, builtin : BOOLEAN, locked : BOOLEAN,
              enabled : BOOLEAN]
RootRows == [path : Seq(Names) \ Files, enabled : BOOLEAN]

\* Rules and groups that refer to each other and to sources R as they should.
Keyed(tables, R) ==
    /\ tables.groups \in Table(GroupRows)
    /\ tables.rules \in Table(RulesOver(DOMAIN tables.groups, R))

LEMMA RuleRowIs ==
  ASSUME NEW kind, NEW value, [kind |-> kind, value |-> value] \in RuleText,
         NEW group \in Ids, NEW root \in Ids, NEW inode \in Ids,
         NEW enabled \in BOOLEAN, NEW builtin \in BOOLEAN
  PROVE  [kind |-> kind, value |-> value, group |-> group, root |-> root,
          inode |-> inode, enabled |-> enabled, builtin |-> builtin] \in RuleRows
<1>1. kind \in Kinds /\ value \in Values
  BY DEF RuleText, Kinds, Values
<1>. QED
  BY <1>1 DEF RuleRows

LEMMA ReleaseIs ==
  ASSUME NEW n \in DOMAIN Releases
  PROVE  /\ Len(Releases[n]) \in Nat /\ DOMAIN Releases[n] = 1 .. Len(Releases[n])
         /\ ToSet(Releases[n]) = {Releases[n][i] : i \in DOMAIN Releases[n]}
         /\ \A i \in DOMAIN Releases[n] :
              /\ Releases[n][i].key # None /\ Releases[n][i].key \in KeySet
              /\ Releases[n][i].name \in NameSet
              /\ Releases[n][i].locked \in BOOLEAN
              /\ Releases[n][i].rules \in Seq(RuleText)
              /\ Releases[n][i].exceptions \subseteq Value(Names)
              /\ \A j \in DOMAIN Releases[n] \ {i} :
                    /\ Releases[n][i].key # Releases[n][j].key
                    /\ ToSet(Releases[n][i].rules) \cap ToSet(Releases[n][j].rules) = {}
<1>. DEFINE gs == Releases[n]
<1>1. IsRelease(gs)
  BY BookAssumption
<1>2. gs \in Seq(ToSet(gs))
  BY <1>1 DEF IsRelease
<1>3. Len(gs) \in Nat /\ DOMAIN gs = 1 .. Len(gs)
  BY <1>2, LenProperties
<1>4. \A i \in DOMAIN gs :
        /\ gs[i].key # None /\ gs[i].locked \in BOOLEAN
        /\ gs[i].rules \in Seq(RuleText) /\ gs[i].exceptions \subseteq Value(Names)
        /\ \A j \in DOMAIN gs \ {i} :
            /\ gs[i].key # gs[j].key
            /\ ToSet(gs[i].rules) \cap ToSet(gs[j].rules) = {}
  BY <1>1 DEF IsRelease
<1>5. \A i \in DOMAIN gs : gs[i].key \in KeySet /\ gs[i].name \in NameSet
  <2>. TAKE i \in DOMAIN gs
  <2>1. /\ gs[i].key \in {Releases[n][j].key : j \in DOMAIN Releases[n]}
        /\ gs[i].name \in {Releases[n][j].name : j \in DOMAIN Releases[n]}
    OBVIOUS
  <2>2. gs[i].key \in KeySet
    BY <2>1 DEF KeySet
  <2>3. gs[i].name \in NameSet
    BY <2>1 DEF NameSet
  <2>. QED
    BY <2>2, <2>3
<1>6. ToSet(gs) = {gs[i] : i \in DOMAIN gs}
  BY DEF ToSet
<1>. QED
  BY <1>3, <1>4, <1>5, <1>6

LEMMA SeedRuleIs ==
  ASSUME NEW G \in SUBSET Nat, NEW R \in SUBSET Nat,
         NEW rs \in Table(RulesOver(G, R)),
         NEW gid \in G, NEW locked \in BOOLEAN, NEW wanted \in RuleText
  PROVE  SeedRule(rs, gid, locked, wanted) \in Table(RulesOver(G, R))
<1>. DEFINE same == {id \in DOMAIN rs : /\ rs[id].kind = wanted.kind
                                        /\ rs[id].value = wanted.value
                                        /\ rs[id].root = None}
            row == [kind |-> wanted.kind, value |-> wanted.value, group |-> gid,
                    root |-> None, inode |-> None, enabled |-> TRUE, builtin |-> TRUE]
            over(r) == [r EXCEPT !.builtin = TRUE, !.group = gid,
                                 !.enabled = locked \/ r.enabled]
            taken == [id \in DOMAIN rs |-> IF id \in same THEN over(rs[id]) ELSE rs[id]]
<1>1. Bounded(DOMAIN rs) /\ rs \in [DOMAIN rs -> RulesOver(G, R)]
  BY TableIs
<1>2. gid \in Ids /\ None \in Ids
  BY DEF Ids
<1>3. row \in RulesOver(G, R)
  <2>1. [kind |-> wanted.kind, value |-> wanted.value] \in RuleText
    BY DEF RuleText
  <2>2. row \in RuleRows
    BY <1>2, <2>1, RuleRowIs
  <2>. QED
    BY <2>2 DEF RulesOver
<1>4. \A r \in RulesOver(G, R) : over(r) \in RulesOver(G, R)
  <2>. TAKE r \in RulesOver(G, R)
  <2>. DEFINE e == locked \/ r.enabled
              o == [r EXCEPT !.builtin = TRUE, !.group = gid, !.enabled = e]
  <2>1. r \in RuleRows /\ r.root \in R \cup {None} /\ e \in BOOLEAN /\ over(r) = o
    BY DEF RulesOver, RuleRows
  <2>2. /\ over(r) \in RuleRows /\ over(r).group = gid /\ over(r).root = r.root
    <3>. HIDE DEF e
    <3>1. o \in RuleRows /\ o.group = gid /\ o.root = r.root
      BY <1>2, <2>1 DEF RuleRows
    <3>. HIDE DEF o, over
    <3>. QED
      BY <2>1, <3>1
  <2>. QED
    BY <2>1, <2>2 DEF RulesOver
<1>. HIDE DEF row, over
<1>5. SeedRule(rs, gid, locked, wanted) = IF same = {} THEN Insert(rs, row) ELSE taken
  BY DEF SeedRule, row, over
<1>6. Insert(rs, row) \in Table(RulesOver(G, R))
  BY <1>1, <1>3, InsertIs
<1>7. taken \in Table(RulesOver(G, R))
  <2>. HIDE DEF same
  <2>1. taken \in [DOMAIN rs -> RulesOver(G, R)]
    BY <1>1, <1>4
  <2>2. DOMAIN taken = DOMAIN rs
    OBVIOUS
  <2>. HIDE DEF taken
  <2>. QED
    BY <1>1, <2>1, <2>2, TableIs
<1>. QED
  <2>. HIDE DEF same, taken
  <2>. QED
    BY <1>5, <1>6, <1>7
\* Tables over fewer rows are tables over more.
LEMMA TableOver ==
  ASSUME NEW G, NEW H, NEW R, G \subseteq H, NEW rs \in Table(RulesOver(G, R))
  PROVE  rs \in Table(RulesOver(H, R))
<1>1. Bounded(DOMAIN rs) /\ rs \in [DOMAIN rs -> RulesOver(G, R)]
  BY TableIs
<1>2. RulesOver(G, R) \subseteq RulesOver(H, R)
  BY DEF RulesOver
<1>3. rs \in [DOMAIN rs -> RulesOver(H, R)]
  BY <1>1, <1>2
<1>. QED
  BY <1>1, <1>3, TableIs

LEMMA StoreIs ==
  ASSUME NEW t, NEW id, NEW row, Bounded(DOMAIN t \cup {id})
  PROVE  /\ DOMAIN Store(t, id, row) = DOMAIN t \cup {id}
         /\ Store(t, id, row)[id] = row
         /\ \A x \in DOMAIN t \ {id} : Store(t, id, row)[x] = t[x]
         /\ \A Row : t \in Table(Row) /\ row \in Row => Store(t, id, row) \in Table(Row)
<1>. DEFINE u == [i \in DOMAIN t \cup {id} |-> IF i = id THEN row ELSE t[i]]
<1>1. /\ DOMAIN u = DOMAIN t \cup {id} /\ u[id] = row
      /\ \A x \in DOMAIN t \ {id} : u[x] = t[x]
  OBVIOUS
<1>2. ASSUME NEW Row, t \in Table(Row), row \in Row PROVE u \in Table(Row)
  <2>1. t \in [DOMAIN t -> Row]
    BY <1>2, TableIs
  <2>2. u \in [DOMAIN u -> Row]
    BY <1>2, <2>1
  <2>. HIDE DEF u
  <2>. QED
    BY <1>1, <2>2, TableIs
<1>3. Store(t, id, row) = u
  BY DEF Store
<1>. HIDE DEF u
<1>. QED
  BY <1>1, <1>2, <1>3

\* A group is seeded in the row gid, its rules one after the other: h[i] are
\* the rules when the first i have been seen to.
SeedsInto(tables, group, gid, h, R) ==
    LET known == {g \in DOMAIN tables.groups : tables.groups[g].key = group.key}
        new == SeedGroup(tables, group)
    IN  /\ gid \in Nat
        /\ known = {} => gid \notin DOMAIN tables.groups
        /\ known # {} => gid \in known
        /\ DOMAIN new.groups = DOMAIN tables.groups \cup {gid}
        /\ \A g \in DOMAIN tables.groups \ {gid} : new.groups[g] = tables.groups[g]
        /\ new.groups[gid].key = group.key /\ new.groups[gid].name = group.name
        /\ new.groups[gid].builtin /\ new.groups[gid].locked = group.locked
        /\ group.locked => new.groups[gid].enabled
        /\ \A i \in 0 .. Len(group.rules) :
              h[i] \in Table(RulesOver(DOMAIN tables.groups \cup {gid}, R))
        /\ h[0] = Restrict(tables.rules, DOMAIN tables.rules
                                             \ Dropped(tables.rules, gid, group))
        /\ \A i \in 1 .. Len(group.rules) :
              h[i] = SeedRule(h[i - 1], gid, group.locked, group.rules[i])
        /\ new.rules = h[Len(group.rules)]

LEMMA SeedGroupIs ==
  ASSUME NEW R \in SUBSET Nat, NEW tables, Keyed(tables, R),
         NEW n \in DOMAIN Releases, NEW b \in DOMAIN Releases[n]
  PROVE  /\ Keyed(SeedGroup(tables, Releases[n][b]), R)
         /\ DOMAIN tables.groups \subseteq DOMAIN SeedGroup(tables, Releases[n][b]).groups
         /\ SeedGroup(tables, Releases[n][b])
                = [groups |-> SeedGroup(tables, Releases[n][b]).groups,
                   rules |-> SeedGroup(tables, Releases[n][b]).rules]
         /\ \E gid, h : SeedsInto(tables, Releases[n][b], gid, h, R)
<1>. DEFINE group == Releases[n][b]
            known == {g \in DOMAIN tables.groups : tables.groups[g].key = group.key}
            gid == IF known = {} THEN NextId(tables.groups) ELSE Min(known)
            on == known = {} \/ group.locked \/ tables.groups[gid].enabled
            row == [key |-> group.key, name |-> group.name, builtin |-> TRUE,
                    locked |-> group.locked, enabled |-> on]
            kept == Restrict(tables.rules, DOMAIN tables.rules
                                               \ Dropped(tables.rules, gid, group))
            seeded[i \in 0 .. Len(group.rules)] ==
                IF i = 0 THEN kept
                ELSE SeedRule(seeded[i - 1], gid, group.locked, group.rules[i])
            N == Len(group.rules)
            G == DOMAIN tables.groups \cup {gid}
            S == Table(RulesOver(G, R))
            step == [x \in (1 .. N) \X S |->
                        SeedRule(x[2], gid, group.locked, group.rules[x[1]])]
<1>1. /\ group.key \in KeySet /\ group.name \in NameSet /\ group.locked \in BOOLEAN
      /\ group.rules \in Seq(RuleText)
  BY ReleaseIs
<1>. HIDE DEF group
<1>2. /\ Bounded(DOMAIN tables.groups) /\ tables.groups \in [DOMAIN tables.groups -> GroupRows]
      /\ tables.groups \in Table(GroupRows)
  BY TableIs DEF Keyed
<1>3. Bounded(G) /\ gid \in Nat /\ G \in SUBSET Nat /\ gid \in G
  <2>1. CASE known = {}
    <3>1. gid = NextId(tables.groups)
      BY <2>1
    <3>2. Bounded(DOMAIN tables.groups \cup {NextId(tables.groups)})
      BY <1>2, NextIdIs
    <3>. HIDE DEF gid, known
    <3>3. Bounded(G)
      BY <3>1, <3>2
    <3>. QED
      BY <3>3, IdsOf
  <2>2. CASE known # {}
    <3>1. Bounded(known) /\ known \subseteq DOMAIN tables.groups
      BY <1>2, BoundedSubset
    <3>2. gid \in known
      BY <2>2, <3>1, IdsOf
    <3>. HIDE DEF gid, known
    <3>3. G = DOMAIN tables.groups
      BY <3>1, <3>2
    <3>4. Bounded(G)
      BY <1>2, <3>3
    <3>. QED
      BY <3>4, IdsOf
  <2>. QED
    BY <2>1, <2>2
<1>4. row \in GroupRows
  <2>. HIDE DEF gid, known
  <2>1. known = {} \/ gid \in DOMAIN tables.groups
    <3>1. known \subseteq DOMAIN tables.groups
      BY DEF known
    <3>2. known # {} => gid \in known
      <4>1. Bounded(known)
        BY <1>2, <3>1, BoundedSubset
      <4>. QED
        BY <4>1, IdsOf DEF gid
    <3>. QED
      BY <3>1, <3>2
  <2>2. gid \in DOMAIN tables.groups => tables.groups[gid].enabled \in BOOLEAN
    BY <1>2 DEF GroupRows
  <2>3. on \in BOOLEAN
    BY <1>1, <2>1, <2>2
  <2>. HIDE DEF on
  <2>. QED
    BY <1>1, <2>3 DEF GroupRows
<1>20. (known = {} => gid \notin DOMAIN tables.groups) /\ (known # {} => gid \in known)
  <2>1. known # {} => gid \in known
    <3>1. Bounded(known)
      BY <1>2, BoundedSubset
    <3>. QED
      BY <3>1, IdsOf
  <2>2. NextId(tables.groups) \notin DOMAIN tables.groups
    BY <1>2, NextIdIs
  <2>. QED
    BY <2>1, <2>2
<1>21. /\ row.key = group.key /\ row.name = group.name /\ row.builtin /\ row.locked = group.locked
       /\ group.locked => row.enabled
  OBVIOUS
<1>. HIDE DEF known, row, gid
<1>5. kept \in S
  <2>1. tables.rules \in Table(RulesOver(G, R))
    BY TableOver DEF Keyed
  <2>2. DOMAIN tables.rules \ Dropped(tables.rules, gid, group) \in SUBSET DOMAIN tables.rules
    OBVIOUS
  <2>. HIDE DEF G
  <2>. QED
    BY <2>1, <2>2, RestrictIs
<1>6. N \in Nat /\ \A i \in 1 .. N : group.rules[i] \in RuleText
  BY <1>1
<1>7. \A i \in 1 .. N : \A t \in S : SeedRule(t, gid, group.locked, group.rules[i]) \in S
  <2>. HIDE DEF N, G
  <2>. QED
    BY <1>1, <1>3, <1>6, SeedRuleIs
<1>. HIDE DEF S, kept
<1>8. step \in StepsOn(N, S)
  <2>. HIDE DEF N
  <2>. QED
    BY <1>7 DEF StepsOn
<1>9. PICK g \in ValuesIn(N, S) : Unrolls(g, N, kept, step)
  <2>. HIDE DEF step, N
  <2>. QED
    BY <1>5, <1>6, <1>8, Repeats
<1>10. g \in [0 .. N -> S]
  BY <1>9 DEF ValuesIn
<1>11. \A i \in 0 .. N :
          g[i] = IF i = 0 THEN kept ELSE SeedRule(g[i - 1], gid, group.locked, group.rules[i])
  <2>. TAKE i \in 0 .. N
  <2>1. g[i] = IF i = 0 THEN kept ELSE step[<<i, g[i - 1]>>]
    <3>. HIDE DEF step, N
    <3>. QED
      BY <1>9 DEF Unrolls
  <2>2. i # 0 => i - 1 \in 0 .. N /\ i \in 1 .. N
    BY <1>6
  <2>. HIDE DEF N
  <2>3. i # 0 => <<i, g[i - 1]>> \in (1 .. N) \X S
    BY <1>10, <2>2
  <2>. QED
    BY <2>1, <2>3
<1>12. g = [i \in 0 .. N |-> IF i = 0 THEN kept
                             ELSE SeedRule(g[i - 1], gid, group.locked, group.rules[i])]
  <2>. HIDE DEF N
  <2>. QED
    BY <1>10, <1>11
<1>13. seeded = [i \in 0 .. N |-> IF i = 0 THEN kept
                     ELSE SeedRule(seeded[i - 1], gid, group.locked, group.rules[i])]
  <2>1. \E h : h = [i \in 0 .. N |-> IF i = 0 THEN kept
                     ELSE SeedRule(h[i - 1], gid, group.locked, group.rules[i])]
    BY <1>12
  <2>. QED
    BY <2>1
<1>14. \A i \in 0 .. N : seeded[i] \in S
  <2>. HIDE DEF seeded, N
  <2>1. seeded[0] \in S
    BY <1>5, <1>6, <1>13
  <2>2. \A i \in 1 .. N : seeded[i] = SeedRule(seeded[i - 1], gid, group.locked, group.rules[i])
    BY <1>6, <1>13
  <2>3. \A i \in 1 .. N : seeded[i - 1] \in S => seeded[i] \in S
    BY <1>7, <2>2
  <2>. QED
    BY <1>6, <2>1, <2>3, StaysIn
<1>15. seeded[N] \in S
  <2>1. N \in 0 .. N
    BY <1>6
  <2>. HIDE DEF seeded
  <2>. QED
    BY <1>14, <2>1
<1>16. SeedGroup(tables, group)
          = [groups |-> Store(tables.groups, gid, row), rules |-> seeded[N]]
  BY DEF SeedGroup, gid, known, row, kept
<1>17. /\ Store(tables.groups, gid, row) \in Table(GroupRows)
       /\ DOMAIN Store(tables.groups, gid, row) = G
       /\ Store(tables.groups, gid, row)[gid] = row
       /\ \A x \in DOMAIN tables.groups \ {gid} :
             Store(tables.groups, gid, row)[x] = tables.groups[x]
  <2>. DEFINE t == tables.groups
  <2>1. t \in Table(GroupRows) /\ Bounded(DOMAIN t \cup {gid})
    BY <1>2, <1>3
  <2>. HIDE DEF t
  <2>2. /\ DOMAIN Store(t, gid, row) = DOMAIN t \cup {gid}
        /\ Store(t, gid, row)[gid] = row
        /\ \A x \in DOMAIN t \ {gid} : Store(t, gid, row)[x] = t[x]
        /\ \A Row : t \in Table(Row) /\ row \in Row => Store(t, gid, row) \in Table(Row)
    BY <2>1, StoreIs
  <2>3. Store(t, gid, row) \in Table(GroupRows)
    BY <1>4, <2>1, <2>2
  <2>. QED
    BY <2>2, <2>3 DEF t
<1>. HIDE DEF seeded, N
<1>18. /\ SeedGroup(tables, group).groups = Store(tables.groups, gid, row)
       /\ SeedGroup(tables, group).rules = seeded[N]
  BY <1>16
<1>19. Keyed(SeedGroup(tables, group), R)
  BY <1>15, <1>17, <1>18 DEF Keyed, S
<1>22. \E i, h : SeedsInto(tables, group, i, h, R)
  <2>1. /\ \A i \in 1 .. N : seeded[i] = SeedRule(seeded[i - 1], gid, group.locked, group.rules[i])
        /\ seeded[0] = kept
    <3>. HIDE DEF seeded, kept, N
    <3>. QED
      BY <1>6, <1>13
  <2>2. SeedsInto(tables, group, gid, seeded, R)
    BY <1>3, <1>14, <1>17, <1>18, <1>20, <1>21, <2>1 DEF SeedsInto, S, G, N, kept, known
  <2>. QED
    BY <2>2
<1>. QED
  BY <1>16, <1>17, <1>18, <1>19, <1>22 DEF group

\* The groups of a release are seeded one after the other: h[i] are the tables
\* when the first i have been.
SeedsAll(tables, bs, h, R) ==
    /\ h[0] = tables /\ \A i \in 0 .. Len(bs) : Keyed(h[i], R)
    /\ \A i \in 1 .. Len(bs) : h[i] = SeedGroup(h[i - 1], bs[i])
    /\ SeedBuiltins(tables, bs) = IF SeedNeeded(tables, bs) THEN h[Len(bs)] ELSE tables

LEMMA SeedBuiltinsIs ==
  ASSUME NEW R \in SUBSET Nat, NEW tables, Keyed(tables, R), NEW n \in DOMAIN Releases
  PROVE  /\ Keyed(SeedBuiltins(tables, Releases[n]), R)
         /\ DOMAIN tables.groups \subseteq DOMAIN SeedBuiltins(tables, Releases[n]).groups
         /\ \E h : SeedsAll(tables, Releases[n], h, R)
<1>. DEFINE bs == Releases[n]
            seeded[i \in 0 .. Len(bs)] ==
                IF i = 0 THEN tables ELSE SeedGroup(seeded[i - 1], bs[i])
            N == Len(bs)
            good(t) == Keyed(t, R) /\ DOMAIN tables.groups \subseteq DOMAIN t.groups
            Pairs == [groups : Table(GroupRows), rules : Table(RuleRows)]
            S == {t \in Pairs \cup {tables} : good(t)}
            step == [x \in (1 .. N) \X S |-> SeedGroup(x[2], bs[x[1]])]
<1>1. N \in Nat /\ DOMAIN bs = 1 .. N
  BY ReleaseIs
<1>2. tables \in S
  OBVIOUS
<1>3. \A i \in 1 .. N : \A t \in S : SeedGroup(t, bs[i]) \in S
  <2>. TAKE i \in 1 .. N
  <2>. TAKE t \in S
  <2>. DEFINE u == SeedGroup(t, bs[i])
  <2>1. /\ Keyed(u, R) /\ DOMAIN t.groups \subseteq DOMAIN u.groups
        /\ u = [groups |-> u.groups, rules |-> u.rules]
    BY <1>1, SeedGroupIs
  <2>. HIDE DEF u
  <2>2. good(u)
    BY <2>1
  <2>3. u.groups \in Table(GroupRows) /\ u.rules \in Table(RuleRows)
    <3>1. u.rules \in Table(RulesOver(DOMAIN u.groups, R))
      BY <2>1 DEF Keyed
    <3>2. u.rules \in Table(RuleRows)
      <4>1. Bounded(DOMAIN u.rules) /\ u.rules \in [DOMAIN u.rules -> RulesOver(DOMAIN u.groups, R)]
        BY <3>1, TableIs
      <4>2. u.rules \in [DOMAIN u.rules -> RuleRows]
        BY <4>1 DEF RulesOver
      <4>. QED
        BY <4>1, <4>2, TableIs
    <3>. QED
      BY <2>1, <3>2 DEF Keyed
  <2>4. u \in Pairs
    BY <2>1, <2>3
  <2>. QED
    BY <2>2, <2>4 DEF u
<1>. HIDE DEF S
<1>4. step \in StepsOn(N, S)
  <2>. HIDE DEF N
  <2>. QED
    BY <1>3 DEF StepsOn
<1>5. PICK g \in ValuesIn(N, S) : Unrolls(g, N, tables, step)
  <2>. HIDE DEF step, N
  <2>. QED
    BY <1>1, <1>2, <1>4, Repeats
<1>6. g \in [0 .. N -> S]
  BY <1>5 DEF ValuesIn
<1>7. \A i \in 0 .. N : g[i] = IF i = 0 THEN tables ELSE SeedGroup(g[i - 1], bs[i])
  <2>. TAKE i \in 0 .. N
  <2>1. g[i] = IF i = 0 THEN tables ELSE step[<<i, g[i - 1]>>]
    <3>. HIDE DEF step, N
    <3>. QED
      BY <1>5 DEF Unrolls
  <2>2. i # 0 => i - 1 \in 0 .. N /\ i \in 1 .. N
    BY <1>1
  <2>. HIDE DEF N
  <2>3. i # 0 => <<i, g[i - 1]>> \in (1 .. N) \X S
    BY <1>6, <2>2
  <2>. QED
    BY <2>1, <2>3
<1>8. g = [i \in 0 .. N |-> IF i = 0 THEN tables ELSE SeedGroup(g[i - 1], bs[i])]
  <2>. HIDE DEF N
  <2>. QED
    BY <1>6, <1>7
<1>9. seeded = [i \in 0 .. N |-> IF i = 0 THEN tables ELSE SeedGroup(seeded[i - 1], bs[i])]
  <2>1. \E h : h = [i \in 0 .. N |-> IF i = 0 THEN tables ELSE SeedGroup(h[i - 1], bs[i])]
    BY <1>8
  <2>. QED
    BY <2>1
<1>10. \A i \in 0 .. N : seeded[i] \in S
  <2>. HIDE DEF seeded, N
  <2>1. seeded[0] \in S
    BY <1>1, <1>2, <1>9
  <2>2. \A i \in 1 .. N : seeded[i] = SeedGroup(seeded[i - 1], bs[i])
    BY <1>1, <1>9
  <2>3. \A i \in 1 .. N : seeded[i - 1] \in S => seeded[i] \in S
    BY <1>3, <2>2
  <2>. QED
    BY <1>1, <2>1, <2>3, StaysIn
<1>11. seeded[N] \in S
  BY <1>1, <1>10
<1>12. SeedBuiltins(tables, bs) = IF SeedNeeded(tables, bs) THEN seeded[N] ELSE tables
  BY DEF SeedBuiltins
<1>13. \E h : SeedsAll(tables, bs, h, R)
  <2>1. /\ \A i \in 1 .. N : seeded[i] = SeedGroup(seeded[i - 1], bs[i])
        /\ seeded[0] = tables
    <3>. HIDE DEF seeded, bs
    <3>. QED
      BY <1>1, <1>9
  <2>2. SeedsAll(tables, bs, seeded, R)
    <3>1. \A i \in 0 .. N : Keyed(seeded[i], R)
      BY <1>10 DEF S
    <3>. HIDE DEF seeded, bs
    <3>. QED
      BY <1>12, <2>1, <3>1 DEF SeedsAll
  <2>. QED
    BY <2>2
<1>. HIDE DEF seeded
<1>. QED
  BY <1>2, <1>11, <1>12, <1>13 DEF S

\* The rules of the user: stored, or there already, and refused ones aside.
LEMMA AddRuleIs ==
  ASSUME roots \in Table(RootRows), NEW tables, Keyed(tables, DOMAIN roots),
         NEW kind, NEW value, [kind |-> kind, value |-> value] \in RuleText,
         NEW group \in NameSet \cup {None}, NEW source, NEW inode \in Ids,
         AddRule(tables, kind, value, group, source, inode).ok
  PROVE  LET added == AddRule(tables, kind, value, group, source, inode)
         IN  /\ Keyed([rules |-> added.rules, groups |-> added.groups], DOMAIN roots)
             /\ DOMAIN tables.groups \subseteq DOMAIN added.groups
             /\ DOMAIN tables.rules \subseteq DOMAIN added.rules
             /\ added.id \in DOMAIN added.rules
             /\ group = None => added.groups = tables.groups
<1>. DEFINE in == {r \in DOMAIN roots : roots[r].path = source}
            root == IF source = None THEN None ELSE Min(in)
            asked == IF group = None THEN {} ELSE GroupRow(tables.groups, group)
            made == group # None /\ asked = {}
            new == [key |-> None, name |-> group, builtin |-> FALSE,
                    locked |-> FALSE, enabled |-> TRUE]
            gs == IF made THEN Insert(tables.groups, new) ELSE tables.groups
            gid == IF group = None THEN None
                   ELSE IF made THEN NextId(tables.groups) ELSE Min(asked)
            same == {id \in DOMAIN tables.rules :
                        /\ tables.rules[id].kind = kind
                        /\ tables.rules[id].value = value
                        /\ tables.rules[id].root = root}
            row == [kind |-> kind, value |-> value, group |-> gid, root |-> root,
                    inode |-> IF kind = "file" THEN inode ELSE None,
                    enabled |-> TRUE, builtin |-> FALSE]
            rs == IF same # {} THEN tables.rules ELSE Insert(tables.rules, row)
            refused == \/ ~ValidateRule(kind, value)
                       \/ source # None /\ in = {}
                       \/ \E g \in asked : tables.groups[g].locked
            added == AddRule(tables, kind, value, group, source, inode)
            result == [ok |-> TRUE, groups |-> gs,
                       id |-> IF same # {} THEN Min(same) ELSE NextId(tables.rules),
                       rules |-> rs]
<1>1. added = IF refused THEN [ok |-> FALSE] ELSE result
  BY DEF AddRule
<1>2. ~refused /\ added = result
  <2>1. added.ok
    OBVIOUS
  <2>. HIDE DEF refused, result, added
  <2>. QED
    BY <1>1, <2>1
<1>3. /\ tables.groups \in Table(GroupRows) /\ Bounded(DOMAIN tables.groups)
      /\ tables.groups \in [DOMAIN tables.groups -> GroupRows]
      /\ tables.rules \in Table(RulesOver(DOMAIN tables.groups, DOMAIN roots))
      /\ Bounded(DOMAIN tables.rules) /\ Bounded(DOMAIN roots)
  BY TableIs DEF Keyed
<1>4. root \in DOMAIN roots \cup {None}
  <2>1. Bounded(in) /\ in \subseteq DOMAIN roots
    BY <1>3, BoundedSubset
  <2>2. source # None => in # {}
    BY <1>2
  <2>3. in # {} => Min(in) \in in
    <3>. HIDE DEF in
    <3>. QED
      BY <2>1, IdsOf
  <2>. HIDE DEF in
  <2>. QED
    BY <2>1, <2>2, <2>3
<1>5. asked \subseteq DOMAIN tables.groups
  BY DEF GroupRow
<1>. HIDE DEF asked
<1>6. /\ gs \in Table(GroupRows) /\ DOMAIN tables.groups \subseteq DOMAIN gs
      /\ gid \in DOMAIN gs \cup {None}
      /\ group = None => gs = tables.groups
  <2>1. CASE made
    <3>. DEFINE t == tables.groups
    <3>1. new \in GroupRows
      BY <2>1 DEF GroupRows, KeySet
    <3>2. t \in Table(GroupRows) /\ Bounded(DOMAIN t)
      BY <1>3
    <3>. HIDE DEF t, new
    <3>3. /\ Insert(t, new) \in Table(GroupRows)
          /\ DOMAIN Insert(t, new) = DOMAIN t \cup {NextId(t)}
      BY <3>1, <3>2, InsertIs
    <3>4. gs = Insert(t, new) /\ gid = NextId(t) /\ group # None
      BY <2>1 DEF t
    <3>. HIDE DEF gs, gid
    <3>. QED
      BY <3>3, <3>4 DEF t
  <2>2. CASE ~made
    <3>1. group # None => Min(asked) \in DOMAIN tables.groups
      <4>1. Bounded(asked)
        BY <1>3, <1>5, BoundedSubset
      <4>. QED
        BY <1>5, <2>2, <4>1, IdsOf
    <3>2. gs = tables.groups
      BY <2>2
    <3>. QED
      BY <1>3, <2>2, <3>1, <3>2
  <2>. QED
    BY <2>1, <2>2
<1>. HIDE DEF gs, gid, root
<1>7. tables.rules \in Table(RulesOver(DOMAIN gs, DOMAIN roots))
  BY <1>3, <1>6, TableOver
<1>8. row \in RulesOver(DOMAIN gs, DOMAIN roots)
  <2>1. Bounded(DOMAIN gs)
    BY <1>6, TableIs
  <2>2. DOMAIN gs \subseteq Nat /\ DOMAIN roots \subseteq Nat
    BY <1>3, <2>1, IdsOf
  <2>. DEFINE i == IF kind = "file" THEN inode ELSE None
  <2>3. gid \in Ids /\ root \in Ids /\ i \in Ids
    BY <1>4, <1>6, <2>2 DEF Ids
  <2>. HIDE DEF i
  <2>4. [kind |-> kind, value |-> value, group |-> gid, root |-> root, inode |-> i,
         enabled |-> TRUE, builtin |-> FALSE] \in RuleRows
    BY <2>3, RuleRowIs
  <2>5. row \in RuleRows
    BY <2>4 DEF i
  <2>. QED
    BY <1>4, <1>6, <2>5 DEF RulesOver
<1>. HIDE DEF row
<1>9. /\ Insert(tables.rules, row) \in Table(RulesOver(DOMAIN gs, DOMAIN roots))
      /\ DOMAIN Insert(tables.rules, row) = DOMAIN tables.rules \cup {NextId(tables.rules)}
  <2>. DEFINE t == tables.rules
              X == RulesOver(DOMAIN gs, DOMAIN roots)
  <2>1. t \in Table(X) /\ Bounded(DOMAIN t) /\ row \in X
    BY <1>3, <1>7, <1>8
  <2>. HIDE DEF t, X
  <2>2. /\ Insert(t, row) \in Table(X)
        /\ DOMAIN Insert(t, row) = DOMAIN t \cup {NextId(t)}
    BY <2>1, InsertIs
  <2>. QED
    BY <2>2 DEF t, X
<1>10. rs \in Table(RulesOver(DOMAIN gs, DOMAIN roots)) /\ DOMAIN tables.rules \subseteq DOMAIN rs
  <2>. HIDE DEF same
  <2>. QED
    BY <1>7, <1>9
<1>11. (IF same # {} THEN Min(same) ELSE NextId(tables.rules)) \in DOMAIN rs
  <2>1. CASE same # {}
    <3>1. Bounded(same) /\ same \subseteq DOMAIN tables.rules
      BY <1>3, BoundedSubset
    <3>. HIDE DEF same
    <3>2. Min(same) \in same
      BY <2>1, <3>1, IdsOf
    <3>. QED
      BY <2>1, <3>1, <3>2
  <2>2. CASE same = {}
    <3>. HIDE DEF same
    <3>. QED
      BY <1>9, <2>2
  <2>. QED
    BY <2>1, <2>2
<1>. HIDE DEF rs, same, refused
<1>12. /\ added.rules = rs /\ added.groups = gs
       /\ added.id = IF same # {} THEN Min(same) ELSE NextId(tables.rules)
  <2>. HIDE DEF added
  <2>. QED
    BY <1>2
<1>. HIDE DEF added, result
<1>13. Keyed([rules |-> added.rules, groups |-> added.groups], DOMAIN roots)
  BY <1>6, <1>10, <1>12 DEF Keyed
<1>. QED
  BY <1>6, <1>10, <1>11, <1>12, <1>13 DEF added
-----------------------------------------------------------------------------
\* The matcher: what it answers is a rule, and the answer for a directory
\* follows from that for the one above.

Path == Seq(Names)

IsMatcher(m, ids) ==
    /\ ids \subseteq Nat
    /\ \A f \in m.folders \cup m.files : f.id \in ids
    /\ \A p \in m.patterns : p.id \in ids
    /\ m.suppress \in [m.includes -> SUBSET ids]

Judgements(ids) == [hit : ids \cup {None}, at : Nat, skip : SUBSET ids]

LEMMA LowestIs ==
  ASSUME NEW T \in SUBSET Nat
  PROVE  LowestId(T) \in T \cup {None} /\ (LowestId(T) = None <=> T = {})
<1>1. T # {} => Min(T) \in T
  BY MinIsIn
<1>2. None \notin Nat
  BY BookAssumption
<1>. QED
  BY <1>1, <1>2 DEF LowestId

LEMMA PrefixIs ==
  ASSUME NEW path \in Path, NEW k \in 0 .. Len(path)
  PROVE  /\ Prefix(path, k) \in Path /\ Len(Prefix(path, k)) = k
         /\ \A i \in 1 .. k : Prefix(path, k)[i] = path[i]
         /\ \A j \in 0 .. k : Prefix(Prefix(path, k), j) = Prefix(path, j)
         /\ Prefix(path, Len(path)) = path /\ Prefix(path, 0) = <<>>
<1>1. \A n \in 0 .. Len(path) :
        /\ Prefix(path, n) \in Path /\ Len(Prefix(path, n)) = n
        /\ \A i \in 1 .. n : Prefix(path, n)[i] = path[i]
  BY SubSeqProperties DEF Prefix, Path
<1>2. ASSUME NEW j \in 0 .. k PROVE Prefix(Prefix(path, k), j) = Prefix(path, j)
  <2>. DEFINE p == Prefix(path, k)
  <2>1. p \in Path /\ Len(p) = k /\ j \in 0 .. Len(p) /\ j \in 0 .. Len(path)
    BY <1>1
  <2>2. \A i \in 1 .. k : p[i] = path[i]
    BY <1>1
  <2>. HIDE DEF p
  <2>3. Prefix(p, j) \in Path /\ Len(Prefix(p, j)) = j /\ \A i \in 1 .. j : Prefix(p, j)[i] = p[i]
    BY <2>1, SubSeqProperties DEF Prefix, Path
  <2>4. /\ Prefix(path, j) \in Path /\ Len(Prefix(path, j)) = j
        /\ \A i \in 1 .. j : Prefix(path, j)[i] = path[i]
    BY <1>1, <2>1
  <2>5. \A i \in 1 .. j : Prefix(p, j)[i] = Prefix(path, j)[i]
    BY <2>2, <2>3, <2>4
  <2>6. Prefix(p, j) = Prefix(path, j)
    BY <2>3, <2>4, <2>5, SeqEqual DEF Path
  <2>. QED
    BY <2>6 DEF p
<1>3. Prefix(path, Len(path)) = path
  BY SubSeqFull DEF Prefix, Path
<1>4. Prefix(path, 0) = <<>>
  BY SubSeqEmpty DEF Prefix
<1>. QED
  BY <1>1, <1>2, <1>3, <1>4

LEMMA PartIs ==
  ASSUME NEW path \in Path, NEW a \in Nat, NEW b \in Nat, a <= b, b <= Len(path)
  PROVE  LET part == SubSeq(path, a + 1, b)
         IN  part \in Path /\ Len(part) = b - a /\ \A i \in 1 .. b - a : part[i] = path[a + i]
<1>1. /\ a + 1 \in Int /\ b \in Int /\ b - (a + 1) + 1 = b - a /\ b - a \in Nat
      /\ (~(a + 1 <= b) => b - a = 0) /\ \A i \in 1 .. b - a : (a + 1) + i - 1 = a + i
  OBVIOUS
<1>2. \A i \in a + 1 .. b : path[i] \in Names
  <2>. TAKE i \in a + 1 .. b
  <2>1. i \in 1 .. Len(path)
    BY DEF Path
  <2>. QED
    BY <2>1 DEF Path
<1>. DEFINE part == SubSeq(path, a + 1, b)
<1>3. /\ part \in Seq(Names) /\ Len(part) = IF a + 1 <= b THEN b - (a + 1) + 1 ELSE 0
      /\ \A i \in 1 .. b - (a + 1) + 1 : part[i] = path[(a + 1) + i - 1]
  BY <1>1, <1>2, SubSeqProperties
<1>. HIDE DEF part
<1>4. Len(part) = b - a
  BY <1>1, <1>3
<1>5. \A i \in 1 .. b - a : part[i] = path[a + i]
  BY <1>1, <1>3
<1>. QED
  BY <1>3, <1>4, <1>5 DEF Path, part

LEMMA FrontIs ==
  ASSUME NEW path \in Path, path # <<>>
  PROVE  /\ Len(path) - 1 \in 0 .. Len(path) /\ Front(path) = Prefix(path, Len(path) - 1)
         /\ Front(path) \in Path /\ Len(Front(path)) = Len(path) - 1
<1>1. Len(path) - 1 \in 0 .. Len(path)
  BY EmptySeq DEF Path
<1>2. Front(path) = Prefix(path, Len(path) - 1)
  BY DEF Front, Prefix
<1>. QED
  BY <1>1, <1>2, PrefixIs

LEMMA FolderHitIs ==
  ASSUME NEW ids, NEW m, IsMatcher(m, ids), NEW path, NEW k
  PROVE  FolderHit(m, path, k) \in ids \cup {None}
<1>. DEFINE T == {f.id : f \in {g \in FoldersAt(m, Prefix(path, k)) :
                                g.soft => Included(m, path, k) = {}}}
<1>1. T \subseteq ids /\ ids \subseteq Nat
  BY DEF FoldersAt, IsMatcher
<1>. HIDE DEF T
<1>2. LowestId(T) \in T \cup {None}
  BY <1>1, LowestIs
<1>. QED
  BY <1>1, <1>2 DEF FolderHit, T

\* The folder rule that hits is the deepest, and the include the deepest one
\* from there down.
LEMMA FolderIs ==
  ASSUME NEW ids, NEW m, IsMatcher(m, ids), NEW path \in Path
  PROVE  LET d == Folder(m, path)
         IN  /\ d.end \in 0 .. Len(path) /\ d.hit \in ids \cup {None}
             /\ d.end # 0 => d.hit = FolderHit(m, path, d.end) /\ d.hit # None
             /\ d.end = 0 => d.hit = None
             /\ \A k \in 1 .. Len(path) : FolderHit(m, path, k) # None => k <= d.end
             /\ Included(m, path, IF d.end = 0 THEN 1 ELSE d.end) = {} => d.include = {}
             /\ \A k \in Included(m, path, IF d.end = 0 THEN 1 ELSE d.end) :
                    \E n \in k .. Len(path) :
                       /\ Prefix(path, n) \in m.includes
                       /\ d.include = {Prefix(path, n)}
                       /\ \A j \in Included(m, path, IF d.end = 0 THEN 1 ELSE d.end) : j <= n
             /\ d.include \subseteq m.includes
<1>. DEFINE N == Len(path)
            hits == {k \in 1 .. N : FolderHit(m, path, k) # None}
            end == Max({0} \cup hits)
            from == Max({1, end})
            over == Included(m, path, from)
            d == Folder(m, path)
<1>1. N \in Nat
  BY DEF Path
<1>2. end \in {0} \cup hits /\ \A k \in {0} \cup hits : k <= end
  <2>1. ({0} \cup hits) \in SUBSET (0 .. N) /\ {0} \cup hits # {}
    BY <1>1
  <2>. HIDE DEF hits, N
  <2>. QED
    BY <1>1, <2>1, MaxIsIn
<1>3. end \in 0 .. N
  BY <1>1, <1>2
<1>. HIDE DEF end
<1>4. from = IF end = 0 THEN 1 ELSE end
  <2>1. {1, end} \in SUBSET (0 .. N + 1) /\ {1, end} # {} /\ N + 1 \in Nat
    BY <1>1, <1>3
  <2>. HIDE DEF N
  <2>2. from \in {1, end} /\ \A k \in {1, end} : k <= from
    BY <2>1, MaxIsIn
  <2>. HIDE DEF from
  <2>3. end \in Nat
    BY <1>1, <1>3
  <2>. QED
    BY <2>2, <2>3
<1>. HIDE DEF from
<1>5. over \subseteq 1 .. N /\ \A j \in over : Prefix(path, j) \in m.includes
  BY <1>1, <1>3, <1>4 DEF Included
<1>6. over # {} => Max(over) \in over /\ \A j \in over : j <= Max(over)
  <2>1. over \in SUBSET (0 .. N)
    BY <1>1, <1>5
  <2>. HIDE DEF over, N
  <2>. QED
    BY <1>1, <2>1, MaxIsIn
<1>. HIDE DEF over
<1>7. d = [hit |-> IF end = 0 THEN None ELSE FolderHit(m, path, end), end |-> end,
           include |-> IF over = {} THEN {} ELSE {Prefix(path, Max(over))}]
  BY DEF Folder, FolderAt, over, from, end, hits
<1>8. /\ d.hit = IF end = 0 THEN None ELSE FolderHit(m, path, end)
      /\ d.end = end /\ d.include = IF over = {} THEN {} ELSE {Prefix(path, Max(over))}
  <2>. HIDE DEF d
  <2>. QED
    BY <1>7
<1>. HIDE DEF d
<1>9. d.hit \in ids \cup {None}
  BY <1>8, FolderHitIs
<1>10. end # 0 => FolderHit(m, path, end) # None
  BY <1>2
<1>11. \A k \in 1 .. N : FolderHit(m, path, k) # None => k <= end
  BY <1>2
<1>12. Included(m, path, IF d.end = 0 THEN 1 ELSE d.end) = over
  BY <1>4, <1>8 DEF over
<1>13. \A k \in over : /\ Max(over) \in k .. N /\ Prefix(path, Max(over)) \in m.includes
                       /\ d.include = {Prefix(path, Max(over))}
  <2>. TAKE k \in over
  <2>1. Max(over) \in over /\ k <= Max(over)
    BY <1>6
  <2>2. Max(over) \in 1 .. N /\ k \in 1 .. N
    BY <1>5, <2>1
  <2>. HIDE DEF N
  <2>3. Max(over) \in k .. N
    BY <1>1, <2>1, <2>2
  <2>. QED
    BY <1>5, <1>8, <2>1, <2>3
<1>14. d.include \subseteq m.includes
  <2>1. over # {} => Prefix(path, Max(over)) \in m.includes
    BY <1>5, <1>6
  <2>2. over = {} => d.include = {}
    BY <1>8
  <2>3. over # {} => d.include = {Prefix(path, Max(over))}
    BY <1>8
  <2>. QED
    BY <2>1, <2>2, <2>3
<1>15. \A k \in over : \E n \in k .. N : /\ Prefix(path, n) \in m.includes
                                         /\ d.include = {Prefix(path, n)}
                                         /\ \A j \in over : j <= n
  BY <1>6, <1>13
<1>. QED
  BY <1>3, <1>8, <1>9, <1>10, <1>11, <1>12, <1>14, <1>15 DEF d
LEMMA PatternsIs ==
  ASSUME NEW ids, NEW m, IsMatcher(m, ids), NEW path, NEW n, NEW isDir, NEW skip, NEW subtrees
  PROVE  /\ Patterns(m, path, n, isDir, skip, subtrees) \in ids \cup {None}
         /\ Patterns(m, path, n, isDir, skip, subtrees) = None
              <=> ~\E p \in m.patterns : /\ p.id \notin skip
                                         /\ PatternMatches(p, path, n, isDir, subtrees)
         /\ Patterns(m, path, n, isDir, skip, subtrees) \notin skip \/ None \in skip
              \/ Patterns(m, path, n, isDir, skip, subtrees) = None
<1>. DEFINE Q == {q \in m.patterns : /\ q.id \notin skip
                                     /\ PatternMatches(q, path, n, isDir, subtrees)}
            T == {p.id : p \in Q}
<1>1. T \subseteq ids /\ ids \subseteq Nat
  BY DEF IsMatcher
<1>2. Patterns(m, path, n, isDir, skip, subtrees) = LowestId(T)
  BY DEF Patterns
<1>3. T = {} <=> Q = {}
  OBVIOUS
<1>4. \A x \in T : x \notin skip
  OBVIOUS
<1>. HIDE DEF T
<1>5. LowestId(T) \in T \cup {None} /\ (LowestId(T) = None <=> T = {})
  BY <1>1, LowestIs
<1>. QED
  BY <1>1, <1>2, <1>3, <1>4, <1>5

VerdictSays(v, folder, skip, patterns, N, ids) ==
    /\ v \in Judgements(ids) /\ v.skip = skip
    /\ v.hit = None <=> folder.hit = None /\ \A k \in 1 .. N : patterns[k] = None

LEMMA VerdictIs ==
  ASSUME NEW ids, NEW folder, NEW skip \in SUBSET ids, NEW N \in Nat,
         folder.end \in Nat, folder.hit \in ids \cup {None},
         NEW patterns \in [1 .. N -> ids \cup {None}]
  PROVE  VerdictSays(Verdict(folder, skip, patterns), folder, skip, patterns, N, ids)
<1>. DEFINE depths == {k \in DOMAIN patterns : patterns[k] # None}
            v == Verdict(folder, skip, patterns)
<1>. SUFFICES VerdictSays(v, folder, skip, patterns, N, ids)
  OBVIOUS
<1>. USE DEF VerdictSays
<1>1. v = IF folder.hit # None
          THEN [hit |-> folder.hit, at |-> folder.end, skip |-> skip]
          ELSE IF depths = {} THEN [hit |-> None, at |-> 0, skip |-> skip]
          ELSE [hit |-> patterns[Min(depths)], at |-> Min(depths), skip |-> skip]
  BY DEF Verdict
<1>2. depths # {} => Min(depths) \in depths
  <2>1. depths \in SUBSET Nat
    OBVIOUS
  <2>. HIDE DEF depths
  <2>. QED
    BY <2>1, MinIsIn
<1>3. \A k \in depths : k \in Nat /\ k \in 1 .. N /\ patterns[k] \in ids /\ patterns[k] # None
  OBVIOUS
<1>4. depths = {} <=> \A k \in 1 .. N : patterns[k] = None
  OBVIOUS
<1>. HIDE DEF depths, v
<1>5. CASE folder.hit # None
  <2>1. v = [hit |-> folder.hit, at |-> folder.end, skip |-> skip]
    BY <1>1, <1>5
  <2>2. v \in Judgements(ids) /\ v.skip = skip /\ v.hit = folder.hit
    BY <2>1 DEF Judgements
  <2>. QED
    BY <1>5, <2>2
<1>6. CASE folder.hit = None /\ depths = {}
  <2>1. v = [hit |-> None, at |-> 0, skip |-> skip]
    BY <1>1, <1>6
  <2>2. v \in Judgements(ids) /\ v.skip = skip /\ v.hit = None
    BY <2>1 DEF Judgements
  <2>. QED
    BY <1>4, <1>6, <2>2
<1>7. CASE folder.hit = None /\ depths # {}
  <2>1. v = [hit |-> patterns[Min(depths)], at |-> Min(depths), skip |-> skip]
    BY <1>1, <1>7
  <2>2. patterns[Min(depths)] \in ids /\ patterns[Min(depths)] # None /\ Min(depths) \in Nat
    BY <1>2, <1>3, <1>7
  <2>3. v \in Judgements(ids) /\ v.skip = skip /\ v.hit # None
    BY <2>1, <2>2 DEF Judgements
  <2>. QED
    BY <1>4, <1>7, <2>3
<1>. QED
  BY <1>5, <1>6, <1>7

\* A path is let through by itself when no folder rule hits on the way up and
\* no pattern but the suppressed ones on the way down.
LEMMA JudgeIs ==
  ASSUME NEW ids, NEW m, IsMatcher(m, ids), NEW path \in Path, NEW isDir \in BOOLEAN
  PROVE  LET j == Judge(m, path, isDir)
         IN  /\ j \in Judgements(ids) /\ j.skip = Suppressed(m, Folder(m, path).include)
             /\ j.hit = None <=>
                  /\ \A k \in 1 .. Len(path) : FolderHit(m, path, k) = None
                  /\ \A k \in 1 .. Len(path) :
                        Patterns(m, path, k, k < Len(path) \/ isDir, j.skip, TRUE) = None
<1>. DEFINE d == Folder(m, path)
            skip == Suppressed(m, d.include)
            N == Len(path)
            patterns == [k \in 1 .. N |-> Patterns(m, path, k, k < N \/ isDir, skip, TRUE)]
            j == Judge(m, path, isDir)
<1>1. N \in Nat
  BY DEF Path
<1>2. /\ d.end \in 0 .. N /\ d.hit \in ids \cup {None} /\ d.include \subseteq m.includes
      /\ d.end # 0 => d.hit = FolderHit(m, path, d.end) /\ d.hit # None
      /\ d.end = 0 => d.hit = None
      /\ \A k \in 1 .. N : FolderHit(m, path, k) # None => k <= d.end
  BY FolderIs
<1>. HIDE DEF d
<1>3. skip \in SUBSET ids
  <2>1. \A i \in d.include : m.suppress[i] \subseteq ids
    BY <1>2 DEF IsMatcher
  <2>. QED
    BY <2>1 DEF Suppressed
<1>. HIDE DEF skip
<1>4. patterns \in [1 .. N -> ids \cup {None}]
  <2>1. \A k \in 1 .. N : Patterns(m, path, k, k < N \/ isDir, skip, TRUE) \in ids \cup {None}
    BY PatternsIs
  <2>. QED
    BY <2>1
<1>5. \A k \in 1 .. N : patterns[k] = Patterns(m, path, k, k < N \/ isDir, skip, TRUE)
  OBVIOUS
<1>6. j = Verdict(d, skip, patterns)
  BY DEF Judge, JudgeBelow, JudgeUnder, skip, d
<1>. HIDE DEF patterns, j
<1>7. d.end \in Nat
  BY <1>1, <1>2
<1>8. /\ j \in Judgements(ids) /\ j.skip = skip
      /\ j.hit = None <=> d.hit = None /\ \A k \in 1 .. N : patterns[k] = None
  <2>. HIDE DEF N
  <2>1. d.hit \in ids \cup {None}
    BY <1>2
  <2>2. VerdictSays(Verdict(d, skip, patterns), d, skip, patterns, N, ids)
    BY <1>1, <1>3, <1>4, <1>7, <2>1, VerdictIs
  <2>3. VerdictSays(j, d, skip, patterns, N, ids)
    BY <1>6, <2>2
  <2>. QED
    BY <2>3 DEF VerdictSays
<1>9. d.hit = None <=> \A k \in 1 .. N : FolderHit(m, path, k) = None
  <2>1. ASSUME d.hit = None PROVE \A k \in 1 .. N : FolderHit(m, path, k) = None
    <3>1. d.end = 0
      BY <1>2, <2>1
    <3>. QED
      BY <1>1, <1>2, <3>1
  <2>2. ASSUME \A k \in 1 .. N : FolderHit(m, path, k) = None PROVE d.hit = None
    <3>1. d.end # 0 => d.end \in 1 .. N
      BY <1>1, <1>2
    <3>. QED
      BY <1>2, <2>2, <3>1
  <2>. QED
    BY <2>1, <2>2
<1>. QED
  BY <1>5, <1>8, <1>9 DEF j, skip, d

LEMMA InheritIs ==
  ASSUME NEW ids, NEW m, IsMatcher(m, ids), NEW dir, NEW k \in Nat, NEW j \in Judgements(ids)
  PROVE  LET i == Inherit(m, dir, j, k)
         IN  /\ i \in Judgements(ids) /\ i.skip = j.skip
             /\ i.hit = None <=> /\ j.hit = None
                                 /\ Patterns(m, Prefix(dir, k), k, TRUE, j.skip, TRUE) = None
<1>. DEFINE h == Patterns(m, Prefix(dir, k), k, TRUE, j.skip, TRUE)
<1>1. h \in ids \cup {None}
  BY PatternsIs
<1>2. Inherit(m, dir, j, k) = IF j.hit # None \/ h = None THEN j
                              ELSE [j EXCEPT !.hit = h, !.at = k]
  BY DEF Inherit, InheritUnless
<1>. HIDE DEF h
<1>3. [j EXCEPT !.hit = h, !.at = k] \in Judgements(ids)
  BY <1>1 DEF Judgements
<1>4. /\ [j EXCEPT !.hit = h, !.at = k].skip = j.skip
      /\ [j EXCEPT !.hit = h, !.at = k].hit = h
  BY DEF Judgements
<1>. QED
  BY <1>2, <1>3, <1>4 DEF h
\* The verdicts on the way down to a directory.
Descends(h, m, dir) ==
    h = [k \in 0 .. Len(dir) |->
            IF k = 0 \/ IsPoint(m, Prefix(dir, k)) THEN Judge(m, Prefix(dir, k), TRUE)
            ELSE Inherit(m, dir, h[k - 1], k)]

LEMMA JudgedIs ==
  ASSUME NEW ids, NEW m, IsMatcher(m, ids), NEW dir \in Path
  PROVE  \E h \in [0 .. Len(dir) -> Judgements(ids)] :
            Descends(h, m, dir) /\ Judged(m, dir) = h[Len(dir)]
<1>. DEFINE N == Len(dir)
            S == Judgements(ids)
            s == Judge(m, Prefix(dir, 0), TRUE)
            judged[k \in 0 .. Len(dir)] ==
                IF k = 0 \/ IsPoint(m, Prefix(dir, k))
                THEN Judge(m, Prefix(dir, k), TRUE)
                ELSE Inherit(m, dir, judged[k - 1], k)
            step == [x \in (1 .. N) \X S |->
                        IF IsPoint(m, Prefix(dir, x[1])) THEN Judge(m, Prefix(dir, x[1]), TRUE)
                        ELSE Inherit(m, dir, x[2], x[1])]
<1>1. N \in Nat /\ Judged(m, dir) = judged[N]
  BY DEF Judged, Path
<1>2. \A k \in 0 .. N : Judge(m, Prefix(dir, k), TRUE) \in S
  <2>. TAKE k \in 0 .. N
  <2>1. Prefix(dir, k) \in Path
    BY PrefixIs
  <2>. QED
    BY <2>1, JudgeIs
<1>3. \A k \in 1 .. N : \A j \in S : Inherit(m, dir, j, k) \in S
  <2>. TAKE k \in 1 .. N
  <2>1. k \in Nat
    BY <1>1
  <2>. QED
    BY <2>1, InheritIs
<1>. HIDE DEF S
<1>4. s \in S
  <2>1. 0 \in 0 .. N
    BY <1>1
  <2>. HIDE DEF N, judged
  <2>. QED
    BY <1>2, <2>1
<1>5. step \in StepsOn(N, S)
  <2>. HIDE DEF N
  <2>1. \A k \in 1 .. N : k \in 0 .. N
    BY <1>1
  <2>. QED
    BY <1>2, <1>3, <2>1 DEF StepsOn
<1>6. PICK g \in ValuesIn(N, S) : Unrolls(g, N, s, step)
  <2>. HIDE DEF step, N, s
  <2>. QED
    BY <1>1, <1>4, <1>5, Repeats
<1>7. g \in [0 .. N -> S]
  BY <1>6 DEF ValuesIn
<1>8. \A k \in 0 .. N : g[k] = IF k = 0 \/ IsPoint(m, Prefix(dir, k))
                               THEN Judge(m, Prefix(dir, k), TRUE)
                               ELSE Inherit(m, dir, g[k - 1], k)
  <2>. TAKE k \in 0 .. N
  <2>1. g[k] = IF k = 0 THEN s ELSE step[<<k, g[k - 1]>>]
    <3>. HIDE DEF step, N, s
    <3>. QED
      BY <1>6 DEF Unrolls
  <2>2. k # 0 => k - 1 \in 0 .. N /\ k \in 1 .. N
    BY <1>1
  <2>. HIDE DEF N
  <2>3. k # 0 => <<k, g[k - 1]>> \in (1 .. N) \X S
    BY <1>7, <2>2
  <2>. QED
    BY <2>1, <2>3
<1>9. Descends(g, m, dir)
  BY <1>7, <1>8 DEF Descends
<1>10. judged = [k \in 0 .. N |-> IF k = 0 \/ IsPoint(m, Prefix(dir, k))
                                 THEN Judge(m, Prefix(dir, k), TRUE)
                                 ELSE Inherit(m, dir, judged[k - 1], k)]
  <2>1. \E h : h = [k \in 0 .. N |-> IF k = 0 \/ IsPoint(m, Prefix(dir, k))
                                 THEN Judge(m, Prefix(dir, k), TRUE)
                                 ELSE Inherit(m, dir, h[k - 1], k)]
    BY <1>9 DEF Descends
  <2>. QED
    BY <2>1
<1>11. Descends(judged, m, dir)
  <2>. HIDE DEF judged
  <2>. QED
    BY <1>10 DEF Descends
<1>12. \A k \in 0 .. N : judged[k] \in S
  <2>. HIDE DEF judged, N
  <2>1. judged[0] \in S
    <3>1. 0 \in 0 .. N
      BY <1>1
    <3>2. judged[0] = s
      BY <1>10, <3>1
    <3>. HIDE DEF s
    <3>. QED
      BY <1>4, <3>2
  <2>2. \A k \in 1 .. N : judged[k] = IF IsPoint(m, Prefix(dir, k))
                                      THEN Judge(m, Prefix(dir, k), TRUE)
                                      ELSE Inherit(m, dir, judged[k - 1], k)
    <3>. TAKE k \in 1 .. N
    <3>1. k \in 0 .. N /\ k # 0
      BY <1>1
    <3>. QED
      BY <1>10, <3>1
  <2>3. \A k \in 1 .. N : judged[k - 1] \in S => judged[k] \in S
    <3>. TAKE k \in 1 .. N
    <3>1. k \in 0 .. N
      BY <1>1
    <3>. QED
      BY <1>2, <1>3, <2>2, <3>1
  <2>. QED
    BY <1>1, <2>1, <2>3, StaysIn
<1>13. judged \in [0 .. N -> S]
  <2>. HIDE DEF N
  <2>1. judged = [k \in 0 .. N |-> judged[k]]
    <3>. HIDE DEF judged
    <3>. QED
      BY <1>10
  <2>. HIDE DEF judged
  <2>. QED
    BY <1>12, <2>1
<1>. HIDE DEF judged
<1>. QED
  BY <1>1, <1>11, <1>13 DEF S

LEMMA MatchIs ==
  ASSUME NEW ids, NEW m, IsMatcher(m, ids), NEW path \in Path, NEW isDir \in BOOLEAN
  PROVE  Match(m, path, isDir) \in ids \cup {None}
<1>. DEFINE dir == IF isDir \/ path = <<>> THEN path ELSE Front(path)
            j == Judged(m, dir)
            exact == {f.id : f \in {g \in m.files : g.path = path}}
<1>1. dir \in Path
  BY FrontIs
<1>. HIDE DEF dir
<1>2. j \in Judgements(ids)
  <2>1. Len(dir) \in 0 .. Len(dir)
    BY <1>1 DEF Path
  <2>. QED
    BY <1>1, <2>1, JudgedIs
<1>3. j.hit \in ids \cup {None} /\ j.skip \in SUBSET ids
  BY <1>2 DEF Judgements
<1>. HIDE DEF j
<1>4. exact # {} => Min(exact) \in ids
  <2>1. exact \subseteq ids /\ ids \subseteq Nat
    BY DEF IsMatcher
  <2>. HIDE DEF exact
  <2>. QED
    BY <2>1, MinIsIn
<1>5. Judge(m, path, FALSE).hit \in ids \cup {None}
  <2>1. Judge(m, path, FALSE) \in Judgements(ids)
    BY JudgeIs
  <2>. QED
    BY <2>1 DEF Judgements
<1>6. Patterns(m, path, Len(path), FALSE, j.skip, FALSE) \in ids \cup {None}
  BY PatternsIs
<1>7. MatchFile(m, path, j) =
        IF exact # {} THEN Min(exact)
        ELSE IF IsPoint(m, path) THEN Judge(m, path, FALSE).hit
        ELSE IF j.hit # None THEN j.hit
        ELSE Patterns(m, path, Len(path), FALSE, j.skip, FALSE)
  BY DEF MatchFile
<1>. HIDE DEF exact
<1>8. Match(m, path, isDir) = IF dir = path THEN j.hit ELSE MatchFile(m, path, j)
  BY DEF Match, MatchUnder, MatchBy, j, dir
<1>. QED
  BY <1>3, <1>4, <1>5, <1>6, <1>7, <1>8

LEMMA HitForIs ==
  ASSUME NEW ids, NEW m, IsMatcher(m, ids), NEW rs, NEW path \in Path, NEW inode
  PROVE  HitFor(m, rs, path, inode) \in ids \cup {None}
<1>. DEFINE T == {f.id : f \in {g \in m.files : g.inode # None /\ g.inode = inode}}
<1>1. Match(m, path, FALSE) \in ids \cup {None}
  BY MatchIs
<1>2. T \subseteq ids /\ ids \subseteq Nat
  BY DEF IsMatcher
<1>. HIDE DEF T
<1>3. LowestId(T) \in T \cup {None}
  BY <1>2, LowestIs
<1>4. MatchInode(m, inode) = LowestId(T)
  BY DEF MatchInode, T
<1>. QED
  BY <1>1, <1>2, <1>3, <1>4 DEF HitFor, Prevails

\* Whatever the tables say, the matcher made of them names their rules.
LEMMA MatcherOfIs ==
  ASSUME NEW rs, DOMAIN rs \subseteq Nat, NEW gs, NEW ts
  PROVE  IsMatcher(MatcherOf(rs, gs, ts), DOMAIN rs)
<1>. DEFINE lr == LoadRules(rs, ts)
            lg == LoadGroups(gs, Builtins)
            live == Live(lr, lg)
            inc == IncludeSet(lg, EnabledRoots(ts))
            pats == CompiledPatterns(live, lg)
            m == MatcherOf(rs, gs, ts)
<1>1. DOMAIN lr = DOMAIN rs
  BY DEF LoadRules
<1>. HIDE DEF lr, lg
<1>2. DOMAIN live \subseteq DOMAIN lr
  BY DEF Live, Restrict
<1>. HIDE DEF live
<1>3. \A kind : \A f \in Places(live, lg, kind) : f.id \in DOMAIN live
  BY DEF Places
<1>4. \A p \in pats : p.id \in DOMAIN live
  BY DEF CompiledPatterns, CompiledPattern
<1>. HIDE DEF pats, inc
<1>5. \A i : SuppressedAt(pats, i) \subseteq DOMAIN live
  BY <1>4 DEF SuppressedAt
<1>6. m = [includes |-> inc, patterns |-> pats,
           folders  |-> Places(live, lg, "folder"), files |-> Places(live, lg, "file"),
           suppress |-> [i \in inc |-> SuppressedAt(pats, i)]]
  BY DEF MatcherOf, Compile, CompileLive, Matcher, lr, lg, live, inc, pats
<1>. HIDE DEF m
<1>. QED
  BY <1>1, <1>2, <1>3, <1>4, <1>5, <1>6 DEF IsMatcher, m
-----------------------------------------------------------------------------
\* The walk of a source and the verdict on what it meets.

\* What is beneath what, by the names on the way down.
LEMMA UnderIs ==
  ASSUME NEW path \in Path, NEW above \in Path
  PROVE  /\ IsUnder(path, above) <=> Len(above) \in 0 .. Len(path)
                                     /\ Prefix(path, Len(above)) = above
         /\ \A k \in 0 .. Len(path) : IsUnder(path, Prefix(path, k))
<1>1. Prefix(above, Len(above)) = above
  BY PrefixIs DEF Path
<1>2. IsUnder(path, above) <=> Len(above) <= Len(path)
                               /\ Prefix(above, Len(above)) = Prefix(path, Len(above))
  BY DEF IsUnder, IsPrefix, Prefix
<1>3. Len(above) \in Nat /\ Len(path) \in Nat
  BY DEF Path
<1>4. ASSUME NEW k \in 0 .. Len(path) PROVE IsUnder(path, Prefix(path, k))
  <2>1. /\ Prefix(path, k) \in Path /\ Len(Prefix(path, k)) = k
        /\ \A j \in 0 .. k : Prefix(Prefix(path, k), j) = Prefix(path, j)
    BY PrefixIs
  <2>2. Prefix(Prefix(path, k), k) = Prefix(path, k) /\ k <= Len(path)
    BY <1>3, <2>1
  <2>. QED
    BY <2>1, <2>2 DEF IsUnder, IsPrefix, Prefix
<1>. QED
  BY <1>1, <1>2, <1>3, <1>4

\* The way down to a directory is the beginning of the way down to one below.
LEMMA DescentsAgree ==
  ASSUME NEW m, NEW dir \in Path, NEW k \in 0 .. Len(dir), NEW h, NEW g,
         Descends(h, m, dir), Descends(g, m, Prefix(dir, k))
  PROVE  \A i \in 0 .. k : g[i] = h[i]
<1>. DEFINE p == Prefix(dir, k)
            T == {i \in Nat : i <= k => g[i] = h[i]}
<1>1. /\ k \in Nat /\ Len(dir) \in Nat /\ k <= Len(dir) /\ Len(p) = k
      /\ \A j \in 0 .. k : Prefix(p, j) = Prefix(dir, j)
  BY PrefixIs DEF Path
<1>2. \A i \in 0 .. k : h[i] = IF i = 0 \/ IsPoint(m, Prefix(dir, i))
                               THEN Judge(m, Prefix(dir, i), TRUE)
                               ELSE Inherit(m, dir, h[i - 1], i)
  BY <1>1 DEF Descends
<1>3. \A i \in 0 .. k : g[i] = IF i = 0 \/ IsPoint(m, Prefix(p, i))
                               THEN Judge(m, Prefix(p, i), TRUE)
                               ELSE Inherit(m, p, g[i - 1], i)
  BY <1>1 DEF Descends
<1>. HIDE DEF p
<1>4. \A i \in 0 .. k : \A j : Inherit(m, p, j, i) = Inherit(m, dir, j, i)
  BY <1>1 DEF Inherit
<1>5. 0 \in T
  <2>1. 0 \in 0 .. k /\ Prefix(p, 0) = Prefix(dir, 0)
    BY <1>1
  <2>2. h[0] = Judge(m, Prefix(dir, 0), TRUE) /\ g[0] = Judge(m, Prefix(p, 0), TRUE)
    BY <1>2, <1>3, <2>1
  <2>. QED
    BY <2>1, <2>2
<1>6. ASSUME NEW i \in Nat, i \in T PROVE i + 1 \in T
  <2>. SUFFICES ASSUME i + 1 <= k PROVE g[i + 1] = h[i + 1]
    OBVIOUS
  <2>1. i + 1 \in 0 .. k /\ i + 1 # 0 /\ (i + 1) - 1 = i /\ i <= k
    BY <1>1
  <2>2. g[i] = h[i]
    BY <1>6, <2>1
  <2>3. h[i + 1] = IF IsPoint(m, Prefix(dir, i + 1)) THEN Judge(m, Prefix(dir, i + 1), TRUE)
                   ELSE Inherit(m, dir, h[i], i + 1)
    BY <1>2, <2>1
  <2>4. g[i + 1] = IF IsPoint(m, Prefix(p, i + 1)) THEN Judge(m, Prefix(p, i + 1), TRUE)
                   ELSE Inherit(m, p, g[i], i + 1)
    BY <1>3, <2>1
  <2>. QED
    BY <1>1, <1>4, <2>1, <2>2, <2>3, <2>4
<1>7. Nat \subseteq T
  <2>. HIDE DEF T
  <2>. QED
    BY <1>5, <1>6, SetInduction
<1>. QED
  BY <1>1, <1>7
\* A folder rule keeps out what it holds when no include is at or beneath it.
LEMMA FolderStops ==
  ASSUME NEW ids, NEW m, IsMatcher(m, ids), NEW path \in Path, NEW k \in 1 .. Len(path),
         FoldersAt(m, Prefix(path, k)) # {},
         ~\E n \in k .. Len(path) : Prefix(path, n) \in m.includes,
         NEW isDir \in BOOLEAN
  PROVE  FolderHit(m, path, k) # None /\ Judge(m, path, isDir).hit # None
<1>. DEFINE T == {f.id : f \in {g \in FoldersAt(m, Prefix(path, k)) :
                                  g.soft => Included(m, path, k) = {}}}
<1>1. Included(m, path, k) = {}
  BY DEF Included
<1>2. T # {} /\ T \subseteq ids /\ ids \subseteq Nat
  BY <1>1 DEF IsMatcher, FoldersAt
<1>. HIDE DEF T
<1>3. LowestId(T) # None
  BY <1>2, LowestIs
<1>4. FolderHit(m, path, k) # None
  BY <1>3 DEF FolderHit, T
<1>. DEFINE j == Judge(m, path, isDir)
<1>5. /\ j \in Judgements(ids) /\ j.skip = Suppressed(m, Folder(m, path).include)
      /\ j.hit = None <=>
           /\ \A n \in 1 .. Len(path) : FolderHit(m, path, n) = None
           /\ \A n \in 1 .. Len(path) :
                 Patterns(m, path, n, n < Len(path) \/ isDir, j.skip, TRUE) = None
  BY JudgeIs
<1>. HIDE DEF j
<1>6. j.hit # None
  BY <1>4, <1>5
<1>. QED
  BY <1>4, <1>6 DEF j

\* What the matcher says of a path it lets through: none of its own rules, and
\* none of its directory's.
LEMMA LetThrough ==
  ASSUME NEW ids, NEW m, IsMatcher(m, ids), NEW path \in Path, path # <<>>,
         path \notin m.includes
  PROVE  Match(m, path, FALSE) = None <=>
            /\ \A g \in m.files : g.path # path
            /\ FoldersAt(m, path) = {}
            /\ Judged(m, Front(path)).hit = None
            /\ Patterns(m, path, Len(path), FALSE, Judged(m, Front(path)).skip, FALSE) = None
<1>. DEFINE j == Judged(m, Front(path))
            exact == {f.id : f \in {g \in m.files : g.path = path}}
<1>1. Front(path) # path /\ Len(path) \in 1 .. Len(path)
  BY FrontIs DEF Path
<1>2. Match(m, path, FALSE) = IF exact # {} THEN Min(exact)
        ELSE IF IsPoint(m, path) THEN Judge(m, path, FALSE).hit
        ELSE IF j.hit # None THEN j.hit
        ELSE Patterns(m, path, Len(path), FALSE, j.skip, FALSE)
  BY <1>1 DEF Match, MatchUnder, MatchBy, MatchFile
<1>3. exact # {} => Min(exact) # None
  <2>1. exact \subseteq ids /\ ids \subseteq Nat
    BY DEF IsMatcher
  <2>. HIDE DEF exact
  <2>2. exact # {} => Min(exact) \in exact
    BY <2>1, MinIsIn
  <2>. QED
    BY <2>1, <2>2, BookAssumption
<1>4. exact = {} <=> \A g \in m.files : g.path # path
  OBVIOUS
<1>5. IsPoint(m, path) <=> FoldersAt(m, path) # {}
  BY DEF IsPoint
<1>6. ASSUME FoldersAt(m, path) # {} PROVE Judge(m, path, FALSE).hit # None
  <2>1. Prefix(path, Len(path)) = path /\ Len(path) \in 1 .. Len(path)
    BY <1>1, PrefixIs DEF Path
  <2>2. ~\E k \in Len(path) .. Len(path) : Prefix(path, k) \in m.includes
    BY <2>1
  <2>. QED
    BY <1>6, <2>1, <2>2, FolderStops
<1>. HIDE DEF exact, j
<1>. QED
  BY <1>2, <1>3, <1>4, <1>5, <1>6 DEF j


\* Below the deepest include, what a directory keeps out all that is beneath
\* it keeps out too: nothing stops the walk on its way to what is let through.
LEMMA WayIsOpen ==
  ASSUME NEW ids, NEW m, IsMatcher(m, ids), NEW dir \in Path, NEW s \in 0 .. Len(dir),
         ~\E n \in s + 1 .. Len(dir) : Prefix(dir, n) \in m.includes,
         Judged(m, dir).hit = None
  PROVE  \A k \in s .. Len(dir) : Match(m, Prefix(dir, k), TRUE) = None
<1>. DEFINE N == Len(dir)
<1>1. PICK h \in [0 .. N -> Judgements(ids)] : Descends(h, m, dir) /\ Judged(m, dir) = h[N]
  BY JudgedIs
<1>2. N \in Nat /\ s \in Nat /\ s <= N
  BY DEF Path
<1>3. ASSUME NEW k \in s + 1 .. N, h[k].hit = None
      PROVE  h[k - 1].hit = None
  <2>1. k \in 0 .. N /\ k - 1 \in 0 .. N /\ k # 0 /\ k \in Nat /\ k \in 1 .. k
    BY <1>2
  <2>2. h[k] = IF IsPoint(m, Prefix(dir, k)) THEN Judge(m, Prefix(dir, k), TRUE)
               ELSE Inherit(m, dir, h[k - 1], k)
    BY <1>1, <2>1 DEF Descends
  <2>3. ~IsPoint(m, Prefix(dir, k))
    <3>. SUFFICES ASSUME IsPoint(m, Prefix(dir, k)) PROVE FALSE
      OBVIOUS
    <3>. DEFINE p == Prefix(dir, k)
    <3>1. p \in Path /\ Len(p) = k /\ Prefix(p, k) = p
      BY <2>1, PrefixIs
    <3>2. p \notin m.includes
      BY <1>3
    <3>3. FoldersAt(m, Prefix(p, k)) # {}
      BY <3>1, <3>2 DEF IsPoint
    <3>. HIDE DEF p
    <3>4. ~\E n \in k .. Len(p) : Prefix(p, n) \in m.includes
      <4>1. \A n \in k .. Len(p) : n = k
        BY <2>1, <3>1
      <4>. QED
        BY <3>1, <3>2, <4>1
    <3>5. Judge(m, p, TRUE).hit # None
      BY <2>1, <3>1, <3>3, <3>4, FolderStops
    <3>. QED
      BY <1>3, <2>2, <3>5 DEF p
  <2>. DEFINE i == Inherit(m, dir, h[k - 1], k)
  <2>4. h[k - 1] \in Judgements(ids)
    BY <2>1
  <2>5. \A j \in Judgements(ids) : Inherit(m, dir, j, k).hit = None => j.hit = None
    <3>. TAKE j \in Judgements(ids)
    <3>. QED
      BY <2>1, InheritIs
  <2>6. h[k] = i
    BY <2>2, <2>3
  <2>. QED
    BY <1>3, <2>4, <2>5, <2>6
<1>4. \A k \in s .. N : h[k].hit = None
  <2>. DEFINE T == {i \in Nat : N - i >= s => h[N - i].hit = None}
  <2>1. 0 \in T
    BY <1>1, <1>2
  <2>2. ASSUME NEW i \in Nat, i \in T PROVE i + 1 \in T
    <3>. SUFFICES ASSUME N - (i + 1) >= s PROVE h[N - (i + 1)].hit = None
      OBVIOUS
    <3>1. N - i \in s + 1 .. N /\ (N - i) - 1 = N - (i + 1) /\ N - i >= s
      BY <1>2
    <3>2. h[N - i].hit = None
      BY <2>2, <3>1
    <3>3. h[(N - i) - 1].hit = None
      BY <1>3, <3>1, <3>2
    <3>. QED
      BY <3>1, <3>3
  <2>3. Nat \subseteq T
    <3>. HIDE DEF T
    <3>. QED
      BY <2>1, <2>2, SetInduction
  <2>. TAKE k \in s .. N
  <2>4. N - k \in Nat /\ N - (N - k) = k /\ k >= s
    BY <1>2
  <2>. QED
    BY <2>3, <2>4
<1>. TAKE k \in s .. N
<1>. DEFINE p == Prefix(dir, k)
<1>5. k \in 0 .. N /\ p \in Path /\ Len(p) = k
  BY <1>2, PrefixIs
<1>6. Match(m, p, TRUE) = Judged(m, p).hit
  BY DEF Match, MatchUnder, MatchBy
<1>7. PICK g \in [0 .. Len(p) -> Judgements(ids)] : Descends(g, m, p) /\ Judged(m, p) = g[Len(p)]
  <2>. HIDE DEF p
  <2>. QED
    BY <1>5, JudgedIs
<1>8. g[k] = h[k]
  BY <1>1, <1>5, <1>7, DescentsAgree
<1>. QED
  BY <1>4, <1>5, <1>6, <1>7, <1>8

\* What is let through is let through by path and by inode.
LEMMA NoHitIs ==
  ASSUME NEW m, NEW rs, NEW path, NEW inode
  PROVE  HitFor(m, rs, path, inode) = None
            <=> Match(m, path, FALSE) = None /\ MatchInode(m, inode) = None
BY DEF HitFor, Prevails

-----------------------------------------------------------------------------
\* The greedy matching of a glob by its runs finds a match whenever there is one.

\* The runs of the first items, one item after the other.
RunLists(X) == Seq(Seq(X)) \ {<<>>}

Extended(rs, item) ==
    IF item = GlobStar THEN Append(rs, <<>>)
    ELSE [rs EXCEPT ![Len(rs)] = Append(rs[Len(rs)], item)]

RunsOn(g, items) ==
    g = [i \in 0 .. Len(items) |-> IF i = 0 THEN << <<>> >> ELSE Extended(g[i - 1], items[i])]

LEMMA ExtendedIs ==
  ASSUME NEW X, NEW rs \in RunLists(X), NEW item \in X
  PROVE  LET L == Len(rs)
             e == Extended(rs, item)
         IN  /\ L \in Nat \ {0} /\ e \in RunLists(X) /\ rs[L] \in Seq(X)
             /\ \A j \in 1 .. L - 1 : e[j] = rs[j]
             /\ item = GlobStar => Len(e) = L + 1 /\ e[L] = rs[L] /\ e[L + 1] = <<>>
             /\ item # GlobStar => Len(e) = L /\ e[L] = Append(rs[L], item)
<1>. DEFINE L == Len(rs)
            e == Extended(rs, item)
<1>1. rs \in Seq(Seq(X)) /\ rs # <<>> /\ L \in Nat \ {0}
  BY EmptySeq DEF RunLists
<1>2. rs[L] \in Seq(X) /\ \A j \in 1 .. L : rs[j] \in Seq(X)
  BY <1>1
<1>3. ASSUME item = GlobStar
      PROVE  /\ e \in RunLists(X) /\ Len(e) = L + 1 /\ e[L + 1] = <<>>
             /\ \A j \in 1 .. L : e[j] = rs[j]
  <2>1. e = Append(rs, <<>>)
    BY <1>3 DEF Extended
  <2>2. <<>> \in Seq(X)
    OBVIOUS
  <2>. QED
    BY <1>1, <2>1, <2>2, AppendProperties DEF RunLists
<1>4. ASSUME item # GlobStar
      PROVE  /\ e \in RunLists(X) /\ Len(e) = L /\ e[L] = Append(rs[L], item)
             /\ \A j \in 1 .. L - 1 : e[j] = rs[j]
  <2>1. Append(rs[L], item) \in Seq(X)
    BY <1>2, AppendProperties
  <2>2. e = [rs EXCEPT ![L] = Append(rs[L], item)]
    BY <1>4 DEF Extended
  <2>3. e \in [1 .. L -> Seq(X)]
    BY <1>1, <1>2, <2>1, <2>2
  <2>4. e \in Seq(Seq(X)) /\ Len(e) = L /\ e # <<>>
    <3>. HIDE DEF e, L
    <3>1. e \in Seq(Seq(X)) /\ Len(e) = L
      BY <1>1, <2>3
    <3>. QED
      BY <1>1, <3>1
  <2>5. e[L] = Append(rs[L], item) /\ \A j \in 1 .. L - 1 : e[j] = rs[j]
    BY <1>1, <2>2
  <2>. QED
    BY <2>4, <2>5 DEF RunLists
<1>5. L \in 1 .. L /\ \A j \in 1 .. L - 1 : j \in 1 .. L
  BY <1>1
<1>. HIDE DEF e
<1>. QED
  BY <1>1, <1>2, <1>3, <1>4, <1>5 DEF e

LEMMA ExtendedGrows ==
  ASSUME NEW X, NEW rs \in RunLists(X), NEW item \in X
  PROVE  /\ Len(rs) <= Len(Extended(rs, item))
         /\ \A j \in 1 .. Len(rs) - 1 : Extended(rs, item)[j] = rs[j]
<1>. DEFINE L == Len(rs)
            e == Extended(rs, item)
<1>1. /\ L \in Nat \ {0} /\ e \in RunLists(X) /\ rs[L] \in Seq(X)
      /\ \A j \in 1 .. L - 1 : e[j] = rs[j]
      /\ item = GlobStar => Len(e) = L + 1 /\ e[L] = rs[L] /\ e[L + 1] = <<>>
      /\ item # GlobStar => Len(e) = L /\ e[L] = Append(rs[L], item)
  BY ExtendedIs
<1>. HIDE DEF e
<1>2. Len(e) = L \/ Len(e) = L + 1
  BY <1>1
<1>. QED
  BY <1>1, <1>2 DEF e

LEMMA RunsAre ==
  ASSUME NEW X, NEW items \in Seq(X)
  PROVE  \E g \in [0 .. Len(items) -> RunLists(X)] :
            RunsOn(g, items) /\ Runs(items) = g[Len(items)]
<1>. DEFINE N == Len(items)
            S == RunLists(X)
            s == << <<>> >>
            step == [x \in (1 .. N) \X S |-> Extended(x[2], items[x[1]])]
            Step(sofar, item) ==
                IF item = GlobStar THEN Append(sofar, <<>>)
                ELSE [sofar EXCEPT ![Len(sofar)] = Append(@, item)]
            runs[i \in 0 .. Len(items)] ==
                IF i = 0 THEN << <<>> >> ELSE Step(runs[i - 1], items[i])
<1>1. N \in Nat /\ \A i \in 1 .. N : items[i] \in X
  OBVIOUS
<1>2. s \in S
  BY DEF RunLists
<1>3. step \in StepsOn(N, S)
  <2>. HIDE DEF N, S
  <2>1. \A i \in 1 .. N : \A rs \in S : Extended(rs, items[i]) \in S
    BY <1>1, ExtendedIs DEF S
  <2>. QED
    BY <2>1 DEF StepsOn
<1>4. PICK g \in ValuesIn(N, S) : Unrolls(g, N, s, step)
  <2>. HIDE DEF step, N, s, S
  <2>. QED
    BY <1>1, <1>2, <1>3, Repeats
<1>5. g \in [0 .. N -> S]
  BY <1>4 DEF ValuesIn
<1>6. ASSUME NEW i \in 0 .. N
      PROVE  g[i] = IF i = 0 THEN << <<>> >> ELSE Extended(g[i - 1], items[i])
  <2>1. g[i] = IF i = 0 THEN s ELSE step[<<i, g[i - 1]>>]
    <3>. HIDE DEF step, N, s
    <3>. QED
      BY <1>4 DEF Unrolls
  <2>2. i # 0 => i - 1 \in 0 .. N /\ i \in 1 .. N
    BY <1>1
  <2>. HIDE DEF N, S
  <2>3. i # 0 => <<i, g[i - 1]>> \in (1 .. N) \X S
    BY <1>5, <2>2
  <2>. QED
    BY <2>1, <2>3
<1>7. RunsOn(g, items)
  BY <1>5, <1>6 DEF RunsOn
<1>8. Runs(items) = runs[N]
  BY DEF Runs
<1>9. \A rs : \A item : Step(rs, item) = Extended(rs, item)
  BY Zenon DEF Extended
<1>10. runs = [i \in 0 .. N |-> IF i = 0 THEN << <<>> >> ELSE Step(runs[i - 1], items[i])]
  <2>1. g = [i \in 0 .. N |-> IF i = 0 THEN << <<>> >> ELSE Step(g[i - 1], items[i])]
    <3>. HIDE DEF Step
    <3>. QED
      BY <1>7, <1>9 DEF RunsOn
  <2>2. \E h : h = [i \in 0 .. N |-> IF i = 0 THEN << <<>> >> ELSE Step(h[i - 1], items[i])]
    BY <2>1
  <2>. QED
    BY <2>2
<1>. HIDE DEF Step, runs
<1>11. RunsOn(runs, items)
  BY <1>9, <1>10 DEF RunsOn
<1>12. \A i \in 0 .. N : runs[i] \in S
  <2>1. runs[0] \in S
    BY <1>1, <1>2, <1>10
  <2>2. \A i \in 1 .. N : runs[i] = Extended(runs[i - 1], items[i])
    <3>. TAKE i \in 1 .. N
    <3>1. i \in 0 .. N /\ i # 0
      BY <1>1
    <3>. QED
      BY <1>9, <1>10, <3>1
  <2>3. \A i \in 1 .. N : runs[i - 1] \in S => runs[i] \in S
    BY <1>1, <2>2, ExtendedIs
  <2>. HIDE DEF N, S
  <2>. QED
    BY <1>1, <2>1, <2>3, StaysIn
<1>13. runs = [i \in 0 .. N |-> runs[i]]
  BY <1>10
<1>14. runs \in [0 .. N -> S]
  BY <1>12, <1>13
<1>. QED
  BY <1>8, <1>11, <1>14
\* What is complete stays as it is.
LEMMA RunsGrow ==
  ASSUME NEW X, NEW items \in Seq(X), NEW g \in [0 .. Len(items) -> RunLists(X)],
         RunsOn(g, items), NEW i \in 0 .. Len(items)
  PROVE  /\ Len(g[i]) <= Len(g[Len(items)])
         /\ \A j \in 1 .. Len(g[i]) - 1 : g[Len(items)][j] = g[i][j]
<1>. DEFINE N == Len(items)
            Grown1(n) == /\ Len(g[i]) <= Len(g[n])
                         /\ \A j \in 1 .. Len(g[i]) - 1 : g[n][j] = g[i][j]
            T == {n \in Nat : i + n <= N => Grown1(i + n)}
<1>1. N \in Nat /\ \A n \in 1 .. N : items[n] \in X
  OBVIOUS
<1>2. \A n \in 0 .. N : Len(g[n]) \in Nat \ {0}
  BY EmptySeq DEF RunLists
<1>3. 0 \in T
  BY <1>1, <1>2
<1>4. ASSUME NEW n \in Nat, n \in T PROVE n + 1 \in T
  <2>. SUFFICES ASSUME i + (n + 1) <= N PROVE Grown1(i + (n + 1))
    OBVIOUS
  <2>. DEFINE k == i + n
  <2>1. k \in 0 .. N /\ k + 1 \in 1 .. N /\ k + 1 \in 0 .. N /\ (k + 1) - 1 = k
        /\ i + (n + 1) = k + 1 /\ k + 1 # 0 /\ i + n <= N
    BY <1>1
  <2>2. Grown1(k)
    BY <1>4, <2>1
  <2>3. g[k + 1] = Extended(g[k], items[k + 1])
    BY <2>1 DEF RunsOn
  <2>4. g[k] \in RunLists(X) /\ items[k + 1] \in X
    BY <1>1, <2>1
  <2>. HIDE DEF k
  <2>5. /\ Len(g[k]) <= Len(g[k + 1])
        /\ \A j \in 1 .. Len(g[k]) - 1 : g[k + 1][j] = g[k][j]
    <3>. DEFINE rs == g[k]
                item == items[k + 1]
    <3>1. rs \in RunLists(X) /\ item \in X
      BY <2>4
    <3>. HIDE DEF rs, item
    <3>2. /\ Len(rs) <= Len(Extended(rs, item))
          /\ \A j \in 1 .. Len(rs) - 1 : Extended(rs, item)[j] = rs[j]
      BY <3>1, ExtendedGrows
    <3>. QED
      BY <2>3, <3>2 DEF rs, item
  <2>6. Len(g[i]) \in Nat /\ Len(g[k]) \in Nat /\ Len(g[k + 1]) \in Nat
    BY <1>2, <2>1
  <2>7. \A j \in 1 .. Len(g[i]) - 1 : j \in 1 .. Len(g[k]) - 1
    BY <2>2, <2>6
  <2>8. Grown1(k + 1)
    BY <2>2, <2>5, <2>6, <2>7
  <2>. QED
    BY <2>1, <2>8
<1>5. Nat \subseteq T
  <2>. HIDE DEF T
  <2>. QED
    BY <1>3, <1>4, SetInduction
<1>6. N - i \in Nat /\ i + (N - i) = N /\ N <= N
  BY <1>1
<1>. QED
  BY <1>5, <1>6

\* The places that are covered by the first items, one item after the other.
Covering(items, M, names, isDir, i, from) ==
    IF items[i] = GlobStar
    THEN {j \in 0 .. M : \E q \in from : q < j \/ (q = j /\ (i = Len(items) => isDir))}
    ELSE {j \in 1 .. M : j - 1 \in from /\ names[j] \in items[i]}

CoversOn(c, items, names, isDir) ==
    c = [i \in 0 .. Len(items) |->
            IF i = 0 THEN {0} ELSE Covering(items, Len(names), names, isDir, i, c[i - 1])]

LEMMA CoversAre ==
  ASSUME NEW X, NEW items \in Seq(X), NEW names \in Path, NEW isDir \in BOOLEAN
  PROVE  \E c \in [0 .. Len(items) -> SUBSET (0 .. Len(names))] :
            CoversOn(c, items, names, isDir)
            /\ (Covers(items, names, isDir) <=> Len(names) \in c[Len(items)])
<1>. DEFINE N == Len(items)
            M == Len(names)
            S == SUBSET (0 .. M)
            step == [x \in (1 .. N) \X S |-> Covering(items, M, names, isDir, x[1], x[2])]
            After(i, from) ==
                IF items[i] = GlobStar
                THEN {j \in 0 .. Len(names) :
                        \E q \in from : q < j \/ (q = j /\ (i = Len(items) => isDir))}
                ELSE {j \in 1 .. Len(names) : j - 1 \in from /\ names[j] \in items[i]}
            covered[i \in 0 .. Len(items)] ==
                IF i = 0 THEN {0} ELSE After(i, covered[i - 1])
<1>1. N \in Nat /\ M \in Nat
  BY DEF Path
<1>2. {0} \in S
  BY <1>1
<1>3. \A i \in 1 .. N : \A from \in S : Covering(items, M, names, isDir, i, from) \in S
  BY <1>1 DEF Covering
<1>4. step \in StepsOn(N, S)
  <2>. HIDE DEF N, S, M
  <2>. QED
    BY <1>3 DEF StepsOn
<1>5. PICK g \in ValuesIn(N, S) : Unrolls(g, N, {0}, step)
  <2>. HIDE DEF step, N, S
  <2>. QED
    BY <1>1, <1>2, <1>4, Repeats
<1>6. g \in [0 .. N -> S]
  BY <1>5 DEF ValuesIn
<1>7. ASSUME NEW i \in 0 .. N
      PROVE  g[i] = IF i = 0 THEN {0} ELSE Covering(items, M, names, isDir, i, g[i - 1])
  <2>1. g[i] = IF i = 0 THEN {0} ELSE step[<<i, g[i - 1]>>]
    <3>. HIDE DEF step, N
    <3>. QED
      BY <1>5 DEF Unrolls
  <2>2. i # 0 => i - 1 \in 0 .. N /\ i \in 1 .. N
    BY <1>1
  <2>. HIDE DEF N, S, M
  <2>3. i # 0 => <<i, g[i - 1]>> \in (1 .. N) \X S
    BY <1>6, <2>2
  <2>. QED
    BY <2>1, <2>3
<1>8. CoversOn(g, items, names, isDir)
  BY <1>6, <1>7 DEF CoversOn
<1>9. Covers(items, names, isDir) <=> M \in covered[N]
  BY DEF Covers
<1>10. \A i : \A from : After(i, from) = Covering(items, M, names, isDir, i, from)
  BY DEF Covering
<1>11. covered = [i \in 0 .. N |-> IF i = 0 THEN {0} ELSE After(i, covered[i - 1])]
  <2>1. g = [i \in 0 .. N |-> IF i = 0 THEN {0} ELSE After(i, g[i - 1])]
    <3>. HIDE DEF After
    <3>. QED
      BY <1>8, <1>10 DEF CoversOn
  <2>2. \E h : h = [i \in 0 .. N |-> IF i = 0 THEN {0} ELSE After(i, h[i - 1])]
    BY <2>1
  <2>. QED
    BY <2>2
<1>. HIDE DEF After, covered
<1>12. CoversOn(covered, items, names, isDir)
  BY <1>10, <1>11 DEF CoversOn
<1>13. \A i \in 0 .. N : covered[i] \in S
  <2>1. covered[0] \in S
    BY <1>1, <1>2, <1>11
  <2>2. \A i \in 1 .. N : covered[i] = Covering(items, M, names, isDir, i, covered[i - 1])
    <3>. TAKE i \in 1 .. N
    <3>1. i \in 0 .. N /\ i # 0
      BY <1>1
    <3>. QED
      BY <1>10, <1>11, <3>1
  <2>3. \A i \in 1 .. N : covered[i - 1] \in S => covered[i] \in S
    BY <1>3, <2>2
  <2>. HIDE DEF N, S
  <2>. QED
    BY <1>1, <2>1, <2>3, StaysIn
<1>14. covered = [i \in 0 .. N |-> covered[i]]
  BY <1>11
<1>15. covered \in [0 .. N -> S]
  BY <1>13, <1>14
<1>. QED
  BY <1>9, <1>12, <1>15

\* A place of a run: from pos on, and within the first n names.
Placed(run, segs, n, pos, s) ==
    s \in Nat /\ pos <= s /\ s + Len(run) <= n /\ RunMatches(run, segs, s)

IsGlob(glob, X) ==
    glob.head \in Seq(X) /\ glob.floats \in Seq(Seq(X)) /\ glob.subtree \in BOOLEAN

IsTail(glob, i) == i = Len(glob.floats) /\ ~glob.subtree

LEMMA PlaceIs ==
  ASSUME NEW X, NEW glob, IsGlob(glob, X), NEW segs, NEW n \in Nat, NEW i \in 1 .. Len(glob.floats),
         NEW pos \in Nat \cup {Nowhere}
  PROVE  LET run == glob.floats[i]
             end == Place(glob, segs, n, pos, i)
         IN  /\ end \in Nat \cup {Nowhere} /\ run \in Seq(X)
             /\ pos = Nowhere => end = Nowhere
             /\ ~IsTail(glob, i) /\ pos # Nowhere =>
                   /\ end = Nowhere => ~\E s : Placed(run, segs, n, pos, s)
                   /\ end # Nowhere => /\ \E s : Placed(run, segs, n, pos, s) /\ end = s + Len(run)
                                       /\ \A s : Placed(run, segs, n, pos, s) => end <= s + Len(run)
             /\ IsTail(glob, i) /\ pos # Nowhere =>
                   /\ end # Nowhere => end = n
                   /\ end # Nowhere <=> Placed(run, segs, n, pos, n - Len(run))
<1>. DEFINE run == glob.floats[i]
            last == n - Len(run)
            tail == IsTail(glob, i)
            places == {s \in (IF tail THEN {last} ELSE pos .. last) :
                          pos <= s /\ RunMatches(run, segs, s)}
            end == Place(glob, segs, n, pos, i)
<1>1. run \in Seq(X)
  BY DEF IsGlob
<1>2. Len(run) \in Nat /\ last \in Int
  BY <1>1
<1>3. end = IF pos = Nowhere \/ places = {} THEN Nowhere ELSE Min(places) + Len(run)
  BY DEF Place, IsTail
<1>4. Nowhere \notin Nat
  BY DEF Nowhere
<1>. HIDE DEF run, tail
<1>5. ASSUME pos # Nowhere, places # {}
      PROVE  Min(places) \in places /\ (\A s \in places : Min(places) <= s)
             /\ end = Min(places) + Len(run) /\ Min(places) \in Nat
  <2>1. pos \in Nat
    BY <1>5
  <2>2. places \in SUBSET Nat
    BY <1>2, <2>1
  <2>. HIDE DEF places
  <2>3. Min(places) \in places /\ \A s \in places : Min(places) <= s
    BY <1>5, <2>2, LeastNumber DEF Min
  <2>. QED
    BY <1>3, <1>5, <2>2, <2>3
<1>6. pos # Nowhere /\ ~tail => \A s : s \in places <=> Placed(run, segs, n, pos, s)
  BY <1>2 DEF Placed
<1>7. pos # Nowhere /\ tail => /\ \A s : s \in places <=> s = last /\ Placed(run, segs, n, pos, last)
  BY <1>2 DEF Placed
<1>. HIDE DEF end, places
<1>8. end \in Nat \cup {Nowhere}
  BY <1>2, <1>3, <1>5
<1>9. ASSUME ~tail, pos # Nowhere
      PROVE  /\ end = Nowhere => ~\E s : Placed(run, segs, n, pos, s)
             /\ end # Nowhere => /\ \E s : Placed(run, segs, n, pos, s) /\ end = s + Len(run)
                                 /\ \A s : Placed(run, segs, n, pos, s) => end <= s + Len(run)
  <2>1. end = Nowhere <=> places = {}
    BY <1>2, <1>3, <1>4, <1>5, <1>9
  <2>2. \A s : Placed(run, segs, n, pos, s) => s \in Nat
    BY DEF Placed
  <2>. QED
    BY <1>2, <1>5, <1>6, <1>9, <2>1, <2>2
<1>10. ASSUME tail, pos # Nowhere
       PROVE  /\ end # Nowhere => end = n
              /\ end # Nowhere <=> Placed(run, segs, n, pos, last)
  <2>1. end = Nowhere <=> places = {}
    BY <1>2, <1>3, <1>4, <1>5, <1>10
  <2>2. last + Len(run) = n
    BY <1>2
  <2>3. places # {} <=> Placed(run, segs, n, pos, last)
    BY <1>7, <1>10
  <2>4. places # {} => Min(places) = last
    BY <1>5, <1>7, <1>10
  <2>. QED
    BY <1>3, <1>10, <2>1, <2>2, <2>3, <2>4
<1>. QED
  BY <1>1, <1>3, <1>8, <1>9, <1>10 DEF end, run, tail

\* Where the runs end that stand before the i-th.
EndsOn(e, glob, segs, lo, n) ==
    e = [i \in 0 .. Len(glob.floats) |->
            IF i = 0 THEN lo + Len(glob.head) ELSE Place(glob, segs, n, e[i - 1], i)]

LEMMA EndsAre ==
  ASSUME NEW X, NEW glob, IsGlob(glob, X), NEW segs, NEW lo \in Nat, NEW n \in Nat
  PROVE  \E e \in [0 .. Len(glob.floats) -> Nat \cup {Nowhere}] :
            EndsOn(e, glob, segs, lo, n) /\ Reached(glob, segs, lo, n) = e[Len(glob.floats)]
<1>. DEFINE N == Len(glob.floats)
            S == Nat \cup {Nowhere}
            s == lo + Len(glob.head)
            step == [x \in (1 .. N) \X S |-> Place(glob, segs, n, x[2], x[1])]
            ends[i \in 0 .. Len(glob.floats)] ==
                IF i = 0 THEN lo + Len(glob.head) ELSE Place(glob, segs, n, ends[i - 1], i)
<1>1. N \in Nat
  BY DEF IsGlob
<1>2. s \in S
  BY DEF IsGlob
<1>3. \A i \in 1 .. N : \A pos \in S : Place(glob, segs, n, pos, i) \in S
  <2>. TAKE i \in 1 .. N
  <2>. TAKE pos \in S
  <2>. QED
    BY PlaceIs
<1>4. step \in StepsOn(N, S)
  <2>. HIDE DEF N, S
  <2>. QED
    BY <1>3 DEF StepsOn
<1>5. PICK g \in ValuesIn(N, S) : Unrolls(g, N, s, step)
  <2>. HIDE DEF step, N, S, s
  <2>. QED
    BY <1>1, <1>2, <1>4, Repeats
<1>6. g \in [0 .. N -> S]
  BY <1>5 DEF ValuesIn
<1>7. ASSUME NEW i \in 0 .. N
      PROVE  g[i] = IF i = 0 THEN s ELSE Place(glob, segs, n, g[i - 1], i)
  <2>1. g[i] = IF i = 0 THEN s ELSE step[<<i, g[i - 1]>>]
    <3>. HIDE DEF step, N, s
    <3>. QED
      BY <1>5 DEF Unrolls
  <2>2. i # 0 => i - 1 \in 0 .. N /\ i \in 1 .. N
    BY <1>1
  <2>. HIDE DEF N, S
  <2>3. i # 0 => <<i, g[i - 1]>> \in (1 .. N) \X S
    BY <1>6, <2>2
  <2>. QED
    BY <2>1, <2>3
<1>8. EndsOn(g, glob, segs, lo, n)
  BY <1>6, <1>7 DEF EndsOn
<1>9. Reached(glob, segs, lo, n) = ends[N]
  BY DEF Reached
<1>10. EndsOn(ends, glob, segs, lo, n)
  <2>1. \E h : h = [i \in 0 .. N |-> IF i = 0 THEN s ELSE Place(glob, segs, n, h[i - 1], i)]
    BY <1>8 DEF EndsOn
  <2>2. ends = [i \in 0 .. N |-> IF i = 0 THEN s ELSE Place(glob, segs, n, ends[i - 1], i)]
    BY <2>1
  <2>. HIDE DEF ends
  <2>. QED
    BY <2>2 DEF EndsOn
<1>. HIDE DEF ends
<1>11. \A i \in 0 .. N : ends[i] \in S
  <2>1. ends[0] \in S
    BY <1>1, <1>2, <1>10 DEF EndsOn
  <2>2. \A i \in 1 .. N : ends[i] = Place(glob, segs, n, ends[i - 1], i)
    <3>. TAKE i \in 1 .. N
    <3>1. i \in 0 .. N /\ i # 0
      BY <1>1
    <3>. QED
      BY <1>10, <3>1 DEF EndsOn
  <2>3. \A i \in 1 .. N : ends[i - 1] \in S => ends[i] \in S
    BY <1>3, <2>2
  <2>. HIDE DEF N, S
  <2>. QED
    BY <1>1, <2>1, <2>3, StaysIn
<1>12. ends = [i \in 0 .. N |-> ends[i]]
  BY <1>10 DEF EndsOn
<1>13. ends \in [0 .. N -> S]
  BY <1>11, <1>12
<1>. QED
  BY <1>9, <1>10, <1>13

\* No run stands before the names the glob is matched with.
LEMMA EndsRise ==
  ASSUME NEW X, NEW glob, IsGlob(glob, X), NEW segs, NEW lo \in Nat, NEW n \in Nat,
         NEW e \in [0 .. Len(glob.floats) -> Nat \cup {Nowhere}],
         EndsOn(e, glob, segs, lo, n)
  PROVE  \A i \in 0 .. Len(glob.floats) : e[i] # Nowhere => e[i] >= lo
<1>. DEFINE N == Len(glob.floats)
            S == {x \in Nat \cup {Nowhere} : x # Nowhere => x >= lo}
<1>1. N \in Nat /\ Len(glob.head) \in Nat
  BY DEF IsGlob
<1>2. e[0] \in S
  BY <1>1 DEF EndsOn
<1>3. ASSUME NEW i \in 1 .. N, e[i - 1] \in S PROVE e[i] \in S
  <2>. DEFINE run == glob.floats[i]
              pos == e[i - 1]
              end == Place(glob, segs, n, pos, i)
  <2>1. i \in 0 .. N /\ i # 0
    BY <1>1
  <2>2. e[i] = end
    BY <2>1 DEF EndsOn
  <2>3. pos \in Nat \cup {Nowhere} /\ (pos # Nowhere => pos >= lo)
    BY <1>3
  <2>. HIDE DEF pos
  <2>4. /\ end \in Nat \cup {Nowhere} /\ run \in Seq(X)
        /\ pos = Nowhere => end = Nowhere
        /\ ~IsTail(glob, i) /\ pos # Nowhere =>
              /\ end = Nowhere => ~\E s : Placed(run, segs, n, pos, s)
              /\ end # Nowhere => /\ \E s : Placed(run, segs, n, pos, s) /\ end = s + Len(run)
                                  /\ \A s : Placed(run, segs, n, pos, s) => end <= s + Len(run)
        /\ IsTail(glob, i) /\ pos # Nowhere =>
              /\ end # Nowhere => end = n
              /\ end # Nowhere <=> Placed(run, segs, n, pos, n - Len(run))
    BY <2>3, PlaceIs
  <2>. HIDE DEF end, run
  <2>5. Len(run) \in Nat
    BY <2>4
  <2>6. end # Nowhere => \E s : Placed(run, segs, n, pos, s) /\ end = s + Len(run)
    <3>1. n = (n - Len(run)) + Len(run)
      BY <2>5
    <3>. QED
      BY <2>4, <3>1
  <2>7. end # Nowhere => end >= lo
    <3>. SUFFICES ASSUME end # Nowhere PROVE end >= lo
      OBVIOUS
    <3>1. PICK s : s \in Nat /\ pos <= s /\ end = s + Len(run)
      BY <2>6 DEF Placed
    <3>2. pos \in Nat /\ pos >= lo
      BY <2>3, <2>4
    <3>. QED
      BY <2>5, <3>1, <3>2
  <2>. QED
    BY <2>2, <2>4, <2>7
<1>. HIDE DEF N, S
<1>4. \A i \in 0 .. N : e[i] \in S
  BY <1>1, <1>2, <1>3, StaysIn
<1>. QED
  BY <1>4 DEF N, S

HeadFits(glob, segs, lo, n) ==
    n - lo >= Len(glob.head) /\ RunMatches(glob.head, segs, lo)

\* The names up to the q-th are covered, with the k-th run at the end of them.
Spot(glob, e, segs, lo, n, k, run, q) ==
    IF k = 1 THEN q = Len(run) /\ RunMatches(run, segs, lo)
    ELSE /\ HeadFits(glob, segs, lo, n) /\ e[k - 2] # Nowhere
         /\ Placed(run, segs, n, e[k - 2], lo + q - Len(run))

\* C is the set of them.
SpotSet(C, glob, e, segs, lo, n, k, run) ==
    \A q : q \in C <=> q \in 0 .. n - lo /\ Spot(glob, e, segs, lo, n, k, run, q)

\* It reaches at most j exactly when the run before the k-th ends there.
LeastEnds(C, glob, e, segs, lo, n, k, j) ==
    (\E q \in C : q <= j)
        <=> HeadFits(glob, segs, lo, n) /\ e[k - 1] # Nowhere /\ e[k - 1] <= lo + j

\* Greedy is enough: some place before j is covered exactly when the leftmost is.
LEMMA LeastCovered ==
  ASSUME NEW X, NEW glob, IsGlob(glob, X), NEW segs, NEW lo \in Nat, NEW n \in Nat, lo <= n,
         NEW e \in [0 .. Len(glob.floats) -> Nat \cup {Nowhere}],
         EndsOn(e, glob, segs, lo, n),
         NEW k \in 1 .. Len(glob.floats) + 1, NEW run,
         run = IF k = 1 THEN glob.head ELSE glob.floats[k - 1],
         k # 1 => ~IsTail(glob, k - 1),
         NEW C, SpotSet(C, glob, e, segs, lo, n, k, run),
         NEW j \in 0 .. n - lo
  PROVE  LeastEnds(C, glob, e, segs, lo, n, k, j)
<1>1. Len(glob.floats) \in Nat /\ Len(glob.head) \in Nat /\ k \in Nat
  BY DEF IsGlob
<1>2. Nowhere \notin Nat
  BY DEF Nowhere
<1>5. \A q : q \in C <=> q \in 0 .. n - lo /\ Spot(glob, e, segs, lo, n, k, run, q)
  BY DEF SpotSet
<1>3. CASE k = 1
  <2>1. e[k - 1] = lo + Len(glob.head) /\ run = glob.head
    BY <1>1, <1>3 DEF EndsOn
  <2>2. e[k - 1] # Nowhere
    BY <1>1, <1>2, <2>1
  <2>3. \A q : q \in C <=> q \in 0 .. n - lo /\ q = Len(run) /\ RunMatches(run, segs, lo)
    BY <1>3, <1>5 DEF Spot
  <2>. DEFINE l == Len(run)
              M == RunMatches(run, segs, lo)
  <2>4. l \in Nat /\ (n - lo \in Nat) /\ j \in Nat /\ j <= n - lo
    BY <1>1, <2>1
  <2>5. HeadFits(glob, segs, lo, n) <=> n - lo >= l /\ M
    BY <2>1 DEF HeadFits
  <2>6. e[k - 1] = lo + l
    BY <2>1
  <2>7. \A q : q \in C <=> q \in 0 .. n - lo /\ q = l /\ M
    BY <2>3
  <2>. HIDE DEF l, M
  <2>8. ASSUME NEW q \in C, q <= j
        PROVE  n - lo >= l /\ M /\ lo + l <= lo + j
    BY <2>4, <2>7, <2>8
  <2>9. ASSUME M, lo + l <= lo + j
        PROVE  \E q \in C : q <= j
    <3>1. l <= j /\ l \in 0 .. n - lo
      BY <2>4, <2>9
    <3>2. l \in C
      BY <2>7, <2>9, <3>1
    <3>. QED
      BY <3>1, <3>2
  <2>. QED
    BY <2>2, <2>5, <2>6, <2>8, <2>9 DEF LeastEnds
<1>4. CASE k # 1
  <2>. DEFINE pos == e[k - 2]
              end == Place(glob, segs, n, pos, k - 1)
              H == HeadFits(glob, segs, lo, n)
  <2>1. /\ k - 1 \in 1 .. Len(glob.floats) /\ k - 1 \in 0 .. Len(glob.floats)
        /\ k - 1 # 0 /\ (k - 1) - 1 = k - 2 /\ k - 2 \in 0 .. Len(glob.floats)
    BY <1>1, <1>4
  <2>2. e[k - 1] = end
    BY <2>1 DEF EndsOn
  <2>3. pos \in Nat \cup {Nowhere} /\ (pos # Nowhere => pos >= lo)
    BY <2>1, EndsRise
  <2>4. \A q : q \in C <=> /\ q \in 0 .. n - lo /\ H /\ pos # Nowhere
                           /\ Placed(run, segs, n, pos, lo + q - Len(run))
    BY <1>4, <1>5 DEF Spot
  <2>. HIDE DEF pos, H
  <2>5. run = glob.floats[k - 1] /\ ~IsTail(glob, k - 1)
    BY <1>4
  <2>6. /\ end \in Nat \cup {Nowhere} /\ run \in Seq(X)
        /\ pos = Nowhere => end = Nowhere
        /\ pos # Nowhere =>
              /\ end = Nowhere => ~\E s : Placed(run, segs, n, pos, s)
              /\ end # Nowhere => /\ \E s : Placed(run, segs, n, pos, s) /\ end = s + Len(run)
                                  /\ \A s : Placed(run, segs, n, pos, s) => end <= s + Len(run)
    <3>. DEFINE i == k - 1
    <3>1. i \in 1 .. Len(glob.floats) /\ run = glob.floats[i] /\ ~IsTail(glob, i)
      BY <2>1, <2>5
    <3>. HIDE DEF i
    <3>2. /\ Place(glob, segs, n, pos, i) \in Nat \cup {Nowhere} /\ glob.floats[i] \in Seq(X)
          /\ pos = Nowhere => Place(glob, segs, n, pos, i) = Nowhere
          /\ ~IsTail(glob, i) /\ pos # Nowhere =>
              /\ Place(glob, segs, n, pos, i) = Nowhere
                   => ~\E s : Placed(glob.floats[i], segs, n, pos, s)
              /\ Place(glob, segs, n, pos, i) # Nowhere
                   => /\ \E s : /\ Placed(glob.floats[i], segs, n, pos, s)
                                /\ Place(glob, segs, n, pos, i) = s + Len(glob.floats[i])
                      /\ \A s : Placed(glob.floats[i], segs, n, pos, s)
                                  => Place(glob, segs, n, pos, i) <= s + Len(glob.floats[i])
      BY <2>3, <3>1, PlaceIs
    <3>. QED
      BY <3>1, <3>2 DEF i
  <2>. HIDE DEF end
  <2>7. Len(run) \in Nat
    BY <2>6
  <2>8. ASSUME NEW q \in C, q <= j
        PROVE  H /\ end # Nowhere /\ end <= lo + j
    <3>1. /\ q \in 0 .. n - lo /\ H /\ pos # Nowhere
          /\ Placed(run, segs, n, pos, lo + q - Len(run))
      BY <2>4
    <3>2. end # Nowhere /\ end <= (lo + q - Len(run)) + Len(run)
      BY <2>6, <3>1
    <3>3. end \in Nat
      BY <2>6, <3>2
    <3>4. q \in Nat /\ j \in Nat
      BY <3>1
    <3>5. (lo + q - Len(run)) + Len(run) = lo + q
      BY <2>7, <3>4
    <3>6. lo + q <= lo + j
      BY <2>8, <3>4
    <3>. QED
      BY <3>1, <3>2, <3>3, <3>4, <3>5, <3>6
  <2>9. ASSUME H, end # Nowhere, end <= lo + j
        PROVE  \E q \in C : q <= j
    <3>1. pos # Nowhere /\ pos \in Nat /\ pos >= lo
      BY <2>3, <2>6, <2>9
    <3>2. PICK s : Placed(run, segs, n, pos, s) /\ end = s + Len(run)
      BY <2>6, <2>9, <3>1
    <3>3. s \in Nat /\ pos <= s /\ s + Len(run) <= n
      BY <3>2 DEF Placed
    <3>. DEFINE q == s + Len(run) - lo
    <3>4. q \in 0 .. n - lo /\ lo + q - Len(run) = s /\ q <= j
      <4>. DEFINE l == Len(run)
      <4>1. l \in Nat /\ s \in Nat /\ s >= lo /\ s + l <= n /\ s + l <= lo + j /\ j \in Nat
        BY <2>7, <2>9, <3>1, <3>2, <3>3
      <4>. HIDE DEF l
      <4>2. s + l - lo \in 0 .. n - lo /\ lo + (s + l - lo) - l = s /\ s + l - lo <= j
        BY <4>1
      <4>. QED
        BY <4>2 DEF l
    <3>5. q \in C
      <4>. HIDE DEF q
      <4>. QED
        BY <2>4, <2>9, <3>1, <3>2, <3>4
    <3>. QED
      BY <3>4, <3>5
  <2>. QED
    BY <2>2, <2>8, <2>9 DEF H, LeastEnds
<1>. QED
  BY <1>3, <1>4

LEMMA RunOneMore ==
  ASSUME NEW X, NEW run \in Seq(X), NEW item \in X, NEW segs, NEW s \in Int
  PROVE  RunMatches(Append(run, item), segs, s)
           <=> RunMatches(run, segs, s) /\ segs[s + (Len(run) + 1)] \in item
<1>. DEFINE more == Append(run, item)
            l == Len(run)
<1>1. l \in Nat /\ DOMAIN run = 1 .. l
  OBVIOUS
<1>2. /\ DOMAIN more = 1 .. (l + 1) /\ more[l + 1] = item
      /\ \A i \in 1 .. l : more[i] = run[i]
  OBVIOUS
<1>. HIDE DEF more, l
<1>3. RunMatches(more, segs, s) <=> \A i \in 1 .. (l + 1) : segs[s + i] \in more[i]
  BY <1>2 DEF RunMatches
<1>4. RunMatches(run, segs, s) <=> \A i \in 1 .. l : segs[s + i] \in run[i]
  BY <1>1 DEF RunMatches
<1>5. \A i : i \in 1 .. (l + 1) <=> i \in 1 .. l \/ i = l + 1
  BY <1>1
<1>. QED
  BY <1>2, <1>3, <1>4, <1>5 DEF more, l

LEMMA SpotOneMore ==
  ASSUME NEW X, NEW glob, IsGlob(glob, X), NEW segs, NEW lo \in Nat, NEW n \in Nat, lo <= n,
         NEW e \in [0 .. Len(glob.floats) -> Nat \cup {Nowhere}],
         EndsOn(e, glob, segs, lo, n),
         NEW k \in 1 .. Len(glob.floats) + 1, NEW run \in Seq(X), NEW item \in X,
         NEW q \in 0 .. n - lo
  PROVE  Spot(glob, e, segs, lo, n, k, Append(run, item), q)
           <=> q # 0 /\ Spot(glob, e, segs, lo, n, k, run, q - 1) /\ segs[lo + q] \in item
<1>. DEFINE l == Len(run)
            more == Append(run, item)
<1>1. l \in Nat /\ Len(more) = l + 1 /\ q \in Nat /\ Len(glob.floats) \in Nat /\ k \in Nat
  BY DEF IsGlob
<1>2. \A s \in Int : RunMatches(more, segs, s)
                       <=> RunMatches(run, segs, s) /\ segs[s + (l + 1)] \in item
  BY RunOneMore
<1>. HIDE DEF more
<1>3. CASE k = 1
  <2>1. Spot(glob, e, segs, lo, n, k, more, q) <=> q = l + 1 /\ RunMatches(more, segs, lo)
    BY <1>1, <1>3 DEF Spot
  <2>2. Spot(glob, e, segs, lo, n, k, run, q - 1) <=> q - 1 = l /\ RunMatches(run, segs, lo)
    BY <1>3 DEF Spot
  <2>3. RunMatches(more, segs, lo) <=> RunMatches(run, segs, lo) /\ segs[lo + (l + 1)] \in item
    BY <1>2
  <2>. HIDE DEF l
  <2>4. q = l + 1 <=> q # 0 /\ q - 1 = l
    BY <1>1
  <2>. QED
    BY <2>1, <2>2, <2>3, <2>4 DEF more
<1>4. CASE k # 1
  <2>. DEFINE pos == e[k - 2]
              s == lo + q - (l + 1)
              t == lo + (q - 1) - l
              H == HeadFits(glob, segs, lo, n) /\ pos # Nowhere
  <2>1. k - 2 \in 0 .. Len(glob.floats)
    BY <1>1, <1>4
  <2>2. pos \in Nat \cup {Nowhere} /\ (pos # Nowhere => pos >= lo)
    BY <2>1, EndsRise
  <2>3. Spot(glob, e, segs, lo, n, k, more, q) <=> H /\ Placed(more, segs, n, pos, s)
    BY <1>1, <1>4 DEF Spot
  <2>4. Spot(glob, e, segs, lo, n, k, run, q - 1) <=> H /\ Placed(run, segs, n, pos, t)
    BY <1>4 DEF Spot
  <2>. HIDE DEF pos, l
  <2>5. s = t /\ s \in Int /\ s + (l + 1) = lo + q /\ t + l = lo + q - 1
    BY <1>1
  <2>6. Placed(more, segs, n, pos, s)
          <=> s \in Nat /\ pos <= s /\ s + (l + 1) <= n /\ RunMatches(more, segs, s)
    BY <1>1 DEF Placed
  <2>7. Placed(run, segs, n, pos, t)
          <=> t \in Nat /\ pos <= t /\ t + l <= n /\ RunMatches(run, segs, t)
    BY DEF Placed, l
  <2>8. s + (l + 1) <= n /\ t + l <= n
    BY <1>1, <2>5
  <2>9. RunMatches(more, segs, s) <=> RunMatches(run, segs, s) /\ segs[lo + q] \in item
    <3>. HIDE DEF s
    <3>1. RunMatches(more, segs, s) <=> RunMatches(run, segs, s) /\ segs[s + (l + 1)] \in item
      BY <1>2, <2>5
    <3>. QED
      BY <2>5, <3>1
  <2>10. pos # Nowhere /\ pos <= s => q # 0
    BY <1>1, <2>2, <2>5
  <2>. HIDE DEF s, t
  <2>11. Placed(more, segs, n, pos, s)
           <=> Placed(run, segs, n, pos, t) /\ segs[lo + q] \in item
    BY <2>5, <2>6, <2>7, <2>8, <2>9
  <2>12. H /\ Placed(run, segs, n, pos, t) => q # 0
    BY <2>5, <2>7, <2>10
  <2>. HIDE DEF H
  <2>. QED
    BY <2>3, <2>4, <2>11, <2>12 DEF more
<1>. QED
  BY <1>3, <1>4

\* The places the first i items cover are those where the last of their runs
\* may end.
SpotsOn(c, g, glob, e, segs, lo, n, i) ==
    \A q : q \in c[i] <=> /\ q \in 0 .. n - lo
                          /\ Spot(glob, e, segs, lo, n, Len(g[i]), g[i][Len(g[i])], q)

\* The items a glob is made of, all of them but a trailing "**".
AllButStar(its, items) ==
    /\ Len(its) <= Len(items) /\ \A i \in 1 .. Len(its) : its[i] = items[i]
    /\ Len(its) = Len(items) => items = <<>> \/ items[Len(items)] # GlobStar

\* Names lo + 1 to n of a path, the items and the glob that are compared, and
\* how each of them is evaluated.
Compared(X, items, isDir, segs, lo, n, c, its, g, glob, e) ==
    /\ items \in Seq(X) /\ isDir \in BOOLEAN /\ segs \in Path
    /\ lo \in Nat /\ n \in Nat /\ lo <= n /\ n <= Len(segs)
    /\ c \in [0 .. Len(items) -> SUBSET (0 .. n - lo)]
    /\ CoversOn(c, items, SubSeq(segs, lo + 1, n), isDir)
    /\ its \in Seq(X) /\ AllButStar(its, items)
    /\ g \in [0 .. Len(its) -> RunLists(X)] /\ RunsOn(g, its)
    /\ IsGlob(glob, X) /\ g[Len(its)] = <<glob.head>> \o glob.floats
    /\ e \in [0 .. Len(glob.floats) -> Nat \cup {Nowhere}]
    /\ EndsOn(e, glob, segs, lo, n)

LEMMA SpotsAre ==
  ASSUME NEW X, NEW items, NEW isDir, NEW segs, NEW lo, NEW n, NEW c, NEW its,
         NEW g, NEW glob, NEW e,
         Compared(X, items, isDir, segs, lo, n, c, its, g, glob, e)
  PROVE  SpotsOn(c, g, glob, e, segs, lo, n, Len(its))
<1>. DEFINE N == Len(its)
            M == n - lo
            names == SubSeq(segs, lo + 1, n)
            all == g[N]
            T == {i \in Nat : i <= N => SpotsOn(c, g, glob, e, segs, lo, n, i)}
<1>10. /\ items \in Seq(X) /\ isDir \in BOOLEAN /\ segs \in Path
       /\ lo \in Nat /\ n \in Nat /\ lo <= n /\ n <= Len(segs)
       /\ its \in Seq(X) /\ AllButStar(its, items) /\ IsGlob(glob, X)
  BY DEF Compared
<1>11. c \in [0 .. Len(items) -> SUBSET (0 .. n - lo)]
  BY DEF Compared
<1>12. g \in [0 .. Len(its) -> RunLists(X)] /\ RunsOn(g, its)
  BY DEF Compared
<1>13. e \in [0 .. Len(glob.floats) -> Nat \cup {Nowhere}] /\ EndsOn(e, glob, segs, lo, n)
  BY DEF Compared
<1>14. all = <<glob.head>> \o glob.floats
  BY DEF Compared
<1>15. /\ Len(its) <= Len(items) /\ \A i \in 1 .. Len(its) : its[i] = items[i]
       /\ Len(its) = Len(items) => items = <<>> \/ items[Len(items)] # GlobStar
  BY <1>10 DEF AllButStar
<1>1. /\ N \in Nat /\ M \in Nat /\ Len(items) \in Nat /\ N <= Len(items)
      /\ Len(glob.floats) \in Nat /\ Len(segs) \in Nat
  BY <1>10, <1>15 DEF IsGlob, Path
<1>2. Len(names) = M /\ \A j \in 1 .. M : names[j] = segs[lo + j]
  BY <1>1, <1>10 DEF Path
<1>9. CoversOn(c, items, names, isDir)
  BY DEF Compared
<1>3. /\ Len(all) = Len(glob.floats) + 1 /\ all[1] = glob.head
      /\ \A k \in 1 .. Len(glob.floats) : all[k + 1] = glob.floats[k]
  <2>1. glob.head \in Seq(X) /\ glob.floats \in Seq(Seq(X))
    BY <1>10 DEF IsGlob
  <2>. HIDE DEF all
  <2>. QED
    BY <1>14, <2>1
<1>4. \A i \in 0 .. N : g[i] \in RunLists(X) /\ Len(g[i]) \in Nat \ {0} /\ g[i][Len(g[i])] \in Seq(X)
  <2>. TAKE i \in 0 .. N
  <2>. DEFINE rs == g[i]
  <2>1. rs \in RunLists(X)
    BY <1>12
  <2>. HIDE DEF rs
  <2>2. rs \in Seq(Seq(X)) /\ rs # <<>>
    BY <2>1 DEF RunLists
  <2>3. Len(rs) \in Nat \ {0} /\ Len(rs) \in 1 .. Len(rs)
    BY <2>2, EmptySeq
  <2>4. rs[Len(rs)] \in Seq(X)
    BY <2>2, <2>3
  <2>. QED
    BY <2>1, <2>3, <2>4 DEF rs
<1>5. \A i \in 0 .. N : Len(g[i]) <= Len(all) /\ \A k \in 1 .. Len(g[i]) - 1 : all[k] = g[i][k]
  <2>. TAKE i \in 0 .. N
  <2>1. /\ Len(g[i]) <= Len(g[Len(its)])
        /\ \A j \in 1 .. Len(g[i]) - 1 : g[Len(its)][j] = g[i][j]
    BY <1>10, <1>12, RunsGrow
  <2>. QED
    BY <2>1
<1>6. 0 \in T
  <2>1. g[0] = << <<>> >> /\ c[0] = {0}
    BY <1>1, <1>9, <1>12 DEF RunsOn, CoversOn
  <2>2. Len(g[0]) = 1 /\ g[0][1] = <<>> /\ Len(<<>>) = 0
    BY <2>1
  <2>3. RunMatches(<<>>, segs, lo)
    BY DEF RunMatches
  <2>4. \A q : q \in {0} <=> q \in 0 .. n - lo /\ q = 0
    BY <1>1
  <2>5. \A q : Spot(glob, e, segs, lo, n, 1, <<>>, q) <=> q = 0
    BY <2>2, <2>3 DEF Spot
  <2>6. SpotsOn(c, g, glob, e, segs, lo, n, 0)
    BY <2>1, <2>2, <2>4, <2>5 DEF SpotsOn
  <2>. QED
    BY <2>6
<1>7. ASSUME NEW p \in Nat, p \in T PROVE p + 1 \in T
  <2>. DEFINE i == p + 1
              rs == g[p]
              k == Len(rs)
              run == rs[k]
              item == its[i]
              from == c[p]
              next == g[i]
  <2>. SUFFICES ASSUME i <= N PROVE SpotsOn(c, g, glob, e, segs, lo, n, i)
    OBVIOUS
  <2>1. i \in 1 .. N /\ i \in 0 .. N /\ p \in 0 .. N /\ i - 1 = p /\ i # 0 /\ p <= N
    BY <1>1
  <2>2. i \in 0 .. Len(items) /\ p \in 0 .. Len(items)
    BY <1>1, <2>1
  <2>3. item = items[i] /\ item \in X
    BY <1>10, <1>15, <2>1
  <2>4. next = Extended(rs, item)
    BY <1>12, <2>1 DEF RunsOn
  <2>5. c[i] = Covering(items, M, names, isDir, i, from)
    <3>. HIDE DEF names
    <3>1. c[i] = Covering(items, Len(names), names, isDir, i, c[i - 1])
      BY <2>1, <2>2, <1>9 DEF CoversOn
    <3>. QED
      BY <1>2, <2>1, <3>1
  <2>6. \A q : q \in from <=> q \in 0 .. M /\ Spot(glob, e, segs, lo, n, k, run, q)
    BY <1>7, <2>1 DEF SpotsOn
  <2>7. rs \in RunLists(X) /\ k \in Nat \ {0} /\ run \in Seq(X)
    BY <1>4, <2>1
  <2>8. /\ k \in Nat \ {0} /\ next \in RunLists(X)
        /\ \A j \in 1 .. k - 1 : next[j] = rs[j]
        /\ item = GlobStar => Len(next) = k + 1 /\ next[k] = run /\ next[k + 1] = <<>>
        /\ item # GlobStar => Len(next) = k /\ next[k] = Append(run, item)
    <3>. HIDE DEF rs, item, next
    <3>1. LET L == Len(rs)
              x == Extended(rs, item)
          IN  /\ L \in Nat \ {0} /\ x \in RunLists(X) /\ rs[L] \in Seq(X)
              /\ \A j \in 1 .. L - 1 : x[j] = rs[j]
              /\ item = GlobStar => Len(x) = L + 1 /\ x[L] = rs[L] /\ x[L + 1] = <<>>
              /\ item # GlobStar => Len(x) = L /\ x[L] = Append(rs[L], item)
      <4>1. rs \in RunLists(X) /\ item \in X
        BY <2>3, <2>7
      <4>. QED
        BY <4>1, ExtendedIs
    <3>. QED
      BY <2>4, <3>1
  <2>9. Len(next) <= Len(glob.floats) + 1 /\ \A j \in 1 .. Len(next) - 1 : all[j] = next[j]
    BY <1>3, <1>5, <2>1
  <2>10. \A q : q \in c[i] => q \in 0 .. M
    BY <1>11, <2>2
  <2>. HIDE DEF rs, next, item, from, names, k, run, all
  <2>11. CASE item # GlobStar
    <3>1. c[i] = {j \in 1 .. M : j - 1 \in from /\ names[j] \in item}
      BY <2>3, <2>5, <2>11 DEF Covering
    <3>2. k \in 1 .. Len(glob.floats) + 1
      BY <1>1, <2>8, <2>9, <2>11
    <3>3. \A q \in 0 .. M : Spot(glob, e, segs, lo, n, k, Append(run, item), q)
            <=> q # 0 /\ Spot(glob, e, segs, lo, n, k, run, q - 1) /\ segs[lo + q] \in item
      <4>. TAKE q \in 0 .. M
      <4>1. run \in Seq(X) /\ item \in X /\ q \in 0 .. n - lo
        BY <2>3, <2>7
      <4>. QED
        BY <1>10, <1>13, <3>2, <4>1, SpotOneMore
    <3>4. ASSUME NEW q
          PROVE  q \in c[i] <=> q \in 0 .. M /\ Spot(glob, e, segs, lo, n, k, Append(run, item), q)
      <4>1. CASE q \in 1 .. M
        <5>1. q \in 0 .. M /\ q # 0 /\ q - 1 \in 0 .. M
          BY <1>1, <4>1
        <5>2. q \in c[i] <=> q - 1 \in from /\ names[q] \in item
          BY <3>1, <4>1
        <5>3. names[q] = segs[lo + q]
          BY <1>2, <4>1 DEF names
        <5>4. q - 1 \in from <=> Spot(glob, e, segs, lo, n, k, run, q - 1)
          BY <2>6, <5>1
        <5>. QED
          BY <3>3, <5>1, <5>2, <5>3, <5>4
      <4>2. CASE q \notin 1 .. M
        <5>1. q \notin c[i]
          BY <3>1, <4>2
        <5>2. q \in 0 .. M => q = 0
          BY <1>1, <4>2
        <5>. QED
          BY <3>3, <5>1, <5>2
      <4>. QED
        BY <4>1, <4>2
    <3>5. Len(next) = k /\ next[k] = Append(run, item)
      BY <2>8, <2>11
    <3>. QED
      BY <3>4, <3>5 DEF SpotsOn, next
  <2>12. CASE item = GlobStar
    <3>1. i = Len(items) => FALSE
      <4>1. SUFFICES ASSUME i = Len(items) PROVE FALSE
        OBVIOUS
      <4>2. N = Len(items) /\ items # <<>> /\ items[Len(items)] = GlobStar
        <5>1. N = Len(items) /\ Len(items) # 0
          BY <1>1, <2>1, <4>1
        <5>2. items[Len(items)] = GlobStar
          BY <2>3, <2>12, <4>1
        <5>3. items # <<>>
          BY <5>1, EmptySeq
        <5>. QED
          BY <1>15, <5>1, <5>2, <5>3
      <4>. QED
        BY <1>15, <4>2
    <3>2. c[i] = {j \in 0 .. M : \E q \in from : q < j \/ q = j}
      BY <2>3, <2>5, <2>12, <3>1 DEF Covering
    <3>3. k \in 1 .. Len(glob.floats) + 1 /\ k - 1 \in 0 .. Len(glob.floats)
          /\ k - 1 # Len(glob.floats) /\ k \in 1 .. Len(next) - 1
      BY <1>1, <2>8, <2>9, <2>12
    <3>4. run = all[k]
      BY <2>8, <2>9, <2>12, <3>3
    <3>5. run = IF k = 1 THEN glob.head ELSE glob.floats[k - 1]
      <4>1. k # 1 => k - 1 \in 1 .. Len(glob.floats) /\ (k - 1) + 1 = k
        BY <1>1, <3>3
      <4>. QED
        BY <1>3, <3>4, <4>1 DEF all
    <3>6. ~IsTail(glob, k - 1)
      BY <3>3 DEF IsTail
    <3>7. \A j \in 0 .. M : (\E q \in from : q <= j)
             <=> HeadFits(glob, segs, lo, n) /\ e[k - 1] # Nowhere /\ e[k - 1] <= lo + j
      <4>. TAKE j \in 0 .. M
      <4>. QED
        <5>1. SpotSet(from, glob, e, segs, lo, n, k, run)
          BY <2>6 DEF SpotSet
        <5>2. j \in 0 .. n - lo
          OBVIOUS
        <5>3. /\ IsGlob(glob, X) /\ lo \in Nat /\ n \in Nat /\ lo <= n
              /\ e \in [0 .. Len(glob.floats) -> Nat \cup {Nowhere}]
              /\ EndsOn(e, glob, segs, lo, n)
          BY <1>10, <1>13
        <5>4. k \in 1 .. Len(glob.floats) + 1 /\ (k # 1 => ~IsTail(glob, k - 1))
          BY <3>3, <3>6
        <5>. HIDE DEF M
        <5>5. LeastEnds(from, glob, e, segs, lo, n, k, j)
          BY <3>5, <5>1, <5>2, <5>3, <5>4, LeastCovered
        <5>. QED
          BY <5>5 DEF LeastEnds
    <3>8. \A j \in 0 .. M : j \in c[i] <=> \E q \in from : q <= j
      <4>1. \A q \in from : q \in Int
        BY <2>6
      <4>2. \A j \in 0 .. M : \A q \in from : (q < j \/ q = j) <=> q <= j
        BY <1>1, <4>1
      <4>. QED
        BY <3>2, <4>2
    <3>9. \A j \in 0 .. M : Spot(glob, e, segs, lo, n, k + 1, <<>>, j)
             <=> HeadFits(glob, segs, lo, n) /\ e[k - 1] # Nowhere /\ e[k - 1] <= lo + j
      <4>. TAKE j \in 0 .. M
      <4>1. k + 1 # 1 /\ (k + 1) - 2 = k - 1 /\ Len(<<>>) = 0
        BY <1>1, <3>3
      <4>2. RunMatches(<<>>, segs, lo + j)
        BY DEF RunMatches
      <4>3. lo + j - 0 = lo + j /\ lo + j \in Nat /\ lo + j + 0 <= n
        BY <1>1, <1>10
      <4>4. Placed(<<>>, segs, n, e[k - 1], lo + j) <=> e[k - 1] <= lo + j
        BY <4>1, <4>2, <4>3 DEF Placed
      <4>. QED
        BY <4>1, <4>3, <4>4 DEF Spot
    <3>10. ASSUME NEW q
           PROVE  q \in c[i] <=> q \in 0 .. M /\ Spot(glob, e, segs, lo, n, k + 1, <<>>, q)
      BY <2>10, <3>7, <3>8, <3>9
    <3>11. Len(next) = k + 1 /\ next[k + 1] = <<>>
      BY <2>8, <2>12
    <3>. QED
      BY <3>10, <3>11 DEF SpotsOn, next
  <2>. QED
    BY <2>11, <2>12
<1>8. Nat \subseteq T
  <2>. HIDE DEF T
  <2>. QED
    BY <1>6, <1>7, SetInduction
<1>. QED
  BY <1>1, <1>8

LEMMA MakeGlobIs ==
  ASSUME NEW X, NEW items \in Seq(X), NEW dirOnly \in BOOLEAN
  PROVE  \E its \in Seq(X) : \E g \in [0 .. Len(its) -> RunLists(X)] :
            LET glob == MakeGlob(items, dirOnly)
            IN  /\ AllButStar(its, items) /\ RunsOn(g, its)
                /\ IsGlob(glob, X) /\ g[Len(its)] = <<glob.head>> \o glob.floats
                /\ glob.dirOnly = dirOnly
                /\ glob.subtree <=> Len(its) # Len(items)
                /\ glob.subtree => /\ Len(items) = Len(its) + 1
                                   /\ items[Len(items)] = GlobStar
<1>. DEFINE glob == MakeGlob(items, dirOnly)
            subtree == items # <<>> /\ Last(items) = GlobStar
            its == IF subtree THEN Front(items) ELSE items
            runs == Runs(its)
            N == Len(items)
<1>1. glob = [head |-> Head(runs), floats |-> Tail(runs), subtree |-> subtree, dirOnly |-> dirOnly]
  BY DEF MakeGlob
<1>2. N \in Nat /\ (items = <<>> <=> N = 0) /\ Last(items) = items[N] /\ subtree \in BOOLEAN
  <2>1. N \in Nat /\ (items = <<>> <=> N = 0)
    BY EmptySeq
  <2>2. Last(items) = items[N]
    BY DEF Last
  <2>3. subtree \in BOOLEAN
    OBVIOUS
  <2>. QED
    BY <2>1, <2>2, <2>3
<1>3. subtree => /\ N # 0 /\ its \in Seq(X) /\ Len(its) = N - 1
                 /\ \A i \in 1 .. Len(its) : its[i] = items[i]
  <2>. SUFFICES ASSUME subtree
                PROVE  N # 0 /\ its \in Seq(X) /\ Len(its) = N - 1
                       /\ \A i \in 1 .. Len(its) : its[i] = items[i]
    OBVIOUS
  <2>. DEFINE M == N - 1
  <2>1. N # 0 /\ its = SubSeq(items, 1, M)
    BY <1>2 DEF Front
  <2>2. M \in Nat /\ M \in Int /\ 1 \in Int /\ \A i \in 1 .. M : items[i] \in X
    BY <1>2, <2>1
  <2>. HIDE DEF its, glob, subtree, runs, M
  <2>3. /\ SubSeq(items, 1, M) \in Seq(X)
        /\ Len(SubSeq(items, 1, M)) = IF 1 <= M THEN M - 1 + 1 ELSE 0
        /\ \A i \in 1 .. M - 1 + 1 : SubSeq(items, 1, M)[i] = items[1 + i - 1]
    BY <2>2, SubSeqProperties
  <2>4. Len(its) = M
    BY <2>1, <2>2, <2>3
  <2>5. ASSUME NEW i \in 1 .. Len(its) PROVE its[i] = items[i]
    <3>1. i \in Nat /\ i \in 1 .. M - 1 + 1
      BY <2>2, <2>4
    <3>2. 1 + i - 1 = i
      BY <3>1
    <3>. QED
      BY <2>1, <2>3, <3>1, <3>2
  <2>. QED
    BY <2>1, <2>3, <2>4, <2>5 DEF M
<1>4. ~subtree => its = items
  OBVIOUS
<1>. HIDE DEF its, subtree
<1>5. its \in Seq(X) /\ AllButStar(its, items) /\ (subtree <=> Len(its) # N)
      /\ (subtree => N = Len(its) + 1 /\ items[N] = GlobStar)
  <2>1. subtree <=> N # 0 /\ items[N] = GlobStar
    BY <1>2 DEF subtree
  <2>2. CASE subtree
    <3>1. its \in Seq(X) /\ Len(its) = N - 1 /\ \A i \in 1 .. Len(its) : its[i] = items[i]
      BY <1>3, <2>2
    <3>2. N = Len(its) + 1 /\ Len(its) # N /\ Len(its) <= N
      BY <1>2, <3>1
    <3>. QED
      BY <2>1, <2>2, <3>1, <3>2 DEF AllButStar
  <2>3. CASE ~subtree
    <3>1. its = items
      BY <1>4, <2>3
    <3>2. N <= N
      BY <1>2
    <3>. QED
      BY <1>2, <2>1, <2>3, <3>1, <3>2 DEF AllButStar
  <2>. QED
    BY <2>2, <2>3
<1>6. PICK g \in [0 .. Len(its) -> RunLists(X)] : RunsOn(g, its) /\ runs = g[Len(its)]
  BY <1>5, RunsAre
<1>7. runs \in Seq(Seq(X)) /\ runs # <<>>
  <2>1. Len(its) \in 0 .. Len(its)
    BY <1>5
  <2>. QED
    BY <1>6, <2>1 DEF RunLists
<1>. HIDE DEF runs, glob
<1>8. Head(runs) \in Seq(X) /\ Tail(runs) \in Seq(Seq(X)) /\ runs = <<Head(runs)>> \o Tail(runs)
  BY <1>7
<1>9. /\ glob.head = Head(runs) /\ glob.floats = Tail(runs)
      /\ glob.subtree = subtree /\ glob.dirOnly = dirOnly
  BY <1>1
<1>10. IsGlob(glob, X) /\ g[Len(its)] = <<glob.head>> \o glob.floats
  BY <1>2, <1>6, <1>8, <1>9 DEF IsGlob
<1>. QED
  BY <1>5, <1>6, <1>9, <1>10 DEF glob

\* What the last item may do at the end of a path.
LEMMA SpotsGive ==
  ASSUME NEW X, NEW items, NEW isDir, NEW segs, NEW lo, NEW n, NEW c, NEW its,
         NEW g, NEW glob, NEW e,
         Compared(X, items, isDir, segs, lo, n, c, its, g, glob, e),
         glob.subtree <=> Len(its) # Len(items),
         glob.subtree => Len(items) = Len(its) + 1 /\ items[Len(items)] = GlobStar
  PROVE  n - lo \in c[Len(items)]
           <=> HeadFits(glob, segs, lo, n) /\ Fits(glob, e[Len(glob.floats)], n, isDir)
<1>. DEFINE N == Len(items)
            M == n - lo
            F == Len(glob.floats)
            k == F + 1
            last == g[Len(its)]
            run == last[k]
            from == c[Len(its)]
            H == HeadFits(glob, segs, lo, n)
            names == SubSeq(segs, lo + 1, n)
<1>1. /\ items \in Seq(X) /\ isDir \in BOOLEAN /\ segs \in Path
      /\ lo \in Nat /\ n \in Nat /\ lo <= n /\ n <= Len(segs)
      /\ its \in Seq(X) /\ IsGlob(glob, X) /\ glob.subtree \in BOOLEAN
  BY DEF Compared, IsGlob
<1>2. c \in [0 .. Len(items) -> SUBSET (0 .. n - lo)] /\ CoversOn(c, items, names, isDir)
  BY DEF Compared
<1>3. e \in [0 .. F -> Nat \cup {Nowhere}] /\ EndsOn(e, glob, segs, lo, n)
  BY DEF Compared
<1>10. \A i \in 0 .. F : e[i] = IF i = 0 THEN lo + Len(glob.head)
                                ELSE Place(glob, segs, n, e[i - 1], i)
  BY <1>3 DEF EndsOn
<1>4. last = <<glob.head>> \o glob.floats
  BY DEF Compared
<1>5. F \in Nat /\ M \in Nat /\ N \in Nat /\ Len(its) \in Nat /\ Nowhere \notin Nat
  BY <1>1 DEF IsGlob, Nowhere
<1>6. Len(last) = k /\ last[1] = glob.head /\ \A i \in 1 .. F : last[i + 1] = glob.floats[i]
  <2>1. glob.head \in Seq(X) /\ glob.floats \in Seq(Seq(X))
    BY <1>1 DEF IsGlob
  <2>. HIDE DEF last
  <2>. QED
    BY <1>4, <2>1
<1>7. \A q : q \in from <=> q \in 0 .. M /\ Spot(glob, e, segs, lo, n, k, run, q)
  <2>1. SpotsOn(c, g, glob, e, segs, lo, n, Len(its))
    BY SpotsAre
  <2>. HIDE DEF M, k
  <2>. QED
    BY <1>6, <2>1 DEF SpotsOn, M
<1>. HIDE DEF last, run, from, H, names, F
<1>8. CASE ~glob.subtree
  <2>1. c[N] = from
    BY <1>8 DEF from
  <2>2. M \in from <=> Spot(glob, e, segs, lo, n, k, run, M)
    BY <1>5, <1>7
  <2>3. Fits(glob, e[F], n, isDir) <=> e[F] # Nowhere /\ e[F] = n
    BY <1>8 DEF Fits
  <2>4. CASE F = 0
    <3>1. run = glob.head /\ k = 1
      BY <1>6, <2>4 DEF run
    <3>2. e[F] = lo + Len(glob.head) /\ Len(glob.head) \in Nat
      BY <1>1, <1>3, <2>4 DEF EndsOn, IsGlob, F
    <3>3. Spot(glob, e, segs, lo, n, k, run, M)
            <=> M = Len(glob.head) /\ RunMatches(glob.head, segs, lo)
      BY <3>1 DEF Spot
    <3>4. M = Len(glob.head) <=> M >= Len(glob.head) /\ e[F] = n /\ e[F] # Nowhere
      <4>. DEFINE h == Len(glob.head)
      <4>1. h \in Nat /\ e[F] = lo + h
        BY <3>2
      <4>. HIDE DEF h
      <4>2. e[F] # Nowhere
        BY <1>1, <1>5, <4>1
      <4>3. n - lo = h <=> n - lo >= h /\ lo + h = n
        BY <1>1, <4>1
      <4>. QED
        BY <4>1, <4>2, <4>3 DEF h
    <3>5. H <=> M >= Len(glob.head) /\ RunMatches(glob.head, segs, lo)
      BY DEF H, HeadFits
    <3>. QED
      BY <2>1, <2>2, <2>3, <3>3, <3>4, <3>5 DEF H, F
  <2>5. CASE F # 0
    <3>. DEFINE pos == e[F - 1]
                end == Place(glob, segs, n, pos, F)
    <3>1. F \in 1 .. F /\ F \in 0 .. F /\ F - 1 \in 0 .. F /\ k # 1 /\ k - 2 = F - 1
      BY <1>5, <2>5
    <3>2. run = glob.floats[F]
      BY <1>6, <3>1 DEF run
    <3>3. e[F] = end
      BY <1>10, <2>5, <3>1
    <3>4. pos \in Nat \cup {Nowhere}
      BY <1>3, <3>1
    <3>5. Spot(glob, e, segs, lo, n, k, run, M)
            <=> H /\ pos # Nowhere /\ Placed(run, segs, n, pos, lo + M - Len(run))
      BY <3>1 DEF Spot, H
    <3>. HIDE DEF pos, k
    <3>6. IsTail(glob, F)
      BY <1>8 DEF IsTail, F
    <3>7. /\ end \in Nat \cup {Nowhere} /\ run \in Seq(X)
          /\ pos = Nowhere => end = Nowhere
          /\ pos # Nowhere => /\ end # Nowhere => end = n
                              /\ end # Nowhere <=> Placed(run, segs, n, pos, n - Len(run))
      <4>1. LET r == glob.floats[F]
                x == Place(glob, segs, n, pos, F)
            IN  /\ x \in Nat \cup {Nowhere} /\ r \in Seq(X)
                /\ pos = Nowhere => x = Nowhere
                /\ ~IsTail(glob, F) /\ pos # Nowhere =>
                      /\ x = Nowhere => ~\E s : Placed(r, segs, n, pos, s)
                      /\ x # Nowhere => /\ \E s : Placed(r, segs, n, pos, s) /\ x = s + Len(r)
                                        /\ \A s : Placed(r, segs, n, pos, s) => x <= s + Len(r)
                /\ IsTail(glob, F) /\ pos # Nowhere =>
                      /\ x # Nowhere => x = n
                      /\ x # Nowhere <=> Placed(r, segs, n, pos, n - Len(r))
        <5>1. F \in 1 .. Len(glob.floats) /\ IsGlob(glob, X) /\ n \in Nat
          BY <1>1, <3>1 DEF F
        <5>. QED
          BY <3>4, <5>1, PlaceIs
      <4>. QED
        BY <3>2, <3>6, <4>1
    <3>8. lo + M - Len(run) = n - Len(run)
      <4>. DEFINE h == Len(run)
      <4>1. h \in Nat
        BY <3>7
      <4>. HIDE DEF h
      <4>. QED
        BY <1>1, <4>1 DEF h
    <3>. HIDE DEF end
    <3>9. Spot(glob, e, segs, lo, n, k, run, M) <=> H /\ end # Nowhere /\ end = n
      BY <3>5, <3>7, <3>8
    <3>. QED
      BY <2>1, <2>2, <2>3, <3>3, <3>9 DEF H, F
  <2>. QED
    BY <2>4, <2>5
<1>9. CASE glob.subtree
  <2>1. N = Len(its) + 1 /\ N \in 1 .. N /\ N \in 0 .. N /\ N # 0 /\ N - 1 = Len(its)
        /\ items[N] = GlobStar
    <3>1. N = Len(its) + 1 /\ items[N] = GlobStar
      BY <1>9
    <3>. HIDE DEF N
    <3>. QED
      BY <1>5, <3>1
  <2>2. c[N] = Covering(items, Len(names), names, isDir, N, from)
    BY <1>2, <2>1 DEF CoversOn, from
  <2>3. Len(names) = M
    BY <1>1, PartIs DEF names
  <2>4. M \in c[N] <=> \E q \in from : q < M \/ (q = M /\ isDir)
    <3>. HIDE DEF M
    <3>1. M \in 0 .. M
      BY <1>5
    <3>. QED
      BY <2>1, <2>2, <2>3, <3>1 DEF Covering
  <2>5. ~IsTail(glob, F)
    BY <1>9 DEF IsTail
  <2>6. run = IF k = 1 THEN glob.head ELSE glob.floats[k - 1]
    <3>1. k # 1 => F \in 1 .. F
      BY <1>5
    <3>2. k - 1 = F /\ k = F + 1 /\ (k = 1 => F + 1 = 1)
      BY <1>5
    <3>. QED
      BY <1>6, <3>1, <3>2 DEF run
  <2>7. ASSUME NEW j \in 0 .. M
        PROVE  (\E q \in from : q <= j) <=> H /\ e[F] # Nowhere /\ e[F] <= lo + j
    <3>1. SpotSet(from, glob, e, segs, lo, n, k, run)
      BY <1>7 DEF SpotSet
    <3>2. k \in 1 .. Len(glob.floats) + 1 /\ (k # 1 => ~IsTail(glob, k - 1)) /\ k - 1 = F
      BY <1>5, <2>5 DEF F
    <3>3. /\ IsGlob(glob, X) /\ lo \in Nat /\ n \in Nat /\ lo <= n
          /\ e \in [0 .. Len(glob.floats) -> Nat \cup {Nowhere}]
          /\ EndsOn(e, glob, segs, lo, n)
      BY <1>1, <1>3 DEF F
    <3>4. j \in 0 .. n - lo
      OBVIOUS
    <3>. HIDE DEF k, M
    <3>5. LeastEnds(from, glob, e, segs, lo, n, k, j)
      BY <2>6, <3>1, <3>2, <3>3, <3>4, LeastCovered
    <3>. QED
      BY <3>2, <3>5 DEF LeastEnds, H
  <2>8. e[F] \in Nat \cup {Nowhere} /\ (e[F] # Nowhere => e[F] >= lo)
    <3>1. \A i \in 0 .. Len(glob.floats) : e[i] # Nowhere => e[i] >= lo
      <4>1. /\ IsGlob(glob, X) /\ lo \in Nat /\ n \in Nat
            /\ e \in [0 .. Len(glob.floats) -> Nat \cup {Nowhere}]
            /\ EndsOn(e, glob, segs, lo, n)
        BY <1>1, <1>3 DEF F
      <4>. QED
        BY <4>1, EndsRise
    <3>. QED
      BY <1>3, <1>5, <3>1 DEF F
  <2>9. \A q \in from : q \in 0 .. M
    BY <1>7
  <2>. DEFINE end == e[F]
  <2>10. end # Nowhere /\ H => end <= n
    <3>1. CASE F = 0
      <4>1. end = lo + Len(glob.head) /\ Len(glob.head) \in Nat
        BY <1>1, <1>3, <3>1 DEF EndsOn, IsGlob, F
      <4>2. H => n - lo >= Len(glob.head)
        BY DEF H, HeadFits
      <4>. HIDE DEF end
      <4>. DEFINE h == Len(glob.head)
      <4>3. h \in Nat /\ end = lo + h /\ (H => n - lo >= h)
        BY <4>1, <4>2
      <4>. HIDE DEF h
      <4>. QED
        BY <1>1, <4>3
    <3>2. CASE F # 0
      <4>. DEFINE pos == e[F - 1]
      <4>1. F \in 1 .. F /\ F \in 0 .. F /\ F - 1 \in 0 .. F
        BY <1>5, <3>2
      <4>2. end = Place(glob, segs, n, pos, F)
        BY <1>10, <3>2, <4>1
      <4>3. pos \in Nat \cup {Nowhere}
        BY <1>3, <4>1
      <4>. HIDE DEF pos, end
      <4>4. LET r == glob.floats[F]
                x == Place(glob, segs, n, pos, F)
            IN  /\ x \in Nat \cup {Nowhere} /\ r \in Seq(X)
                /\ pos = Nowhere => x = Nowhere
                /\ ~IsTail(glob, F) /\ pos # Nowhere =>
                      /\ x = Nowhere => ~\E s : Placed(r, segs, n, pos, s)
                      /\ x # Nowhere => /\ \E s : Placed(r, segs, n, pos, s) /\ x = s + Len(r)
                                        /\ \A s : Placed(r, segs, n, pos, s) => x <= s + Len(r)
                /\ IsTail(glob, F) /\ pos # Nowhere =>
                      /\ x # Nowhere => x = n
                      /\ x # Nowhere <=> Placed(r, segs, n, pos, n - Len(r))
        <5>1. F \in 1 .. Len(glob.floats) /\ IsGlob(glob, X) /\ n \in Nat
          BY <1>1, <4>1 DEF F
        <5>. QED
          BY <4>3, <5>1, PlaceIs
      <4>5. end # Nowhere => \E s : /\ Placed(glob.floats[F], segs, n, pos, s)
                                    /\ end = s + Len(glob.floats[F])
        BY <2>5, <4>2, <4>4
      <4>. QED
        BY <4>5 DEF Placed
    <3>. QED
      BY <3>1, <3>2
  <2>11. M \in c[N] <=> H /\ end # Nowhere /\ (end < n \/ isDir)
    <3>1. CASE isDir
      <4>1. M \in 0 .. M /\ lo + M = n
        BY <1>1, <1>5
      <4>2. \A q \in from : q < M \/ (q = M /\ isDir) <=> q <= M
        BY <1>5, <2>9, <3>1
      <4>3. (\E q \in from : q <= M) <=> H /\ end # Nowhere /\ end <= n
        BY <2>7, <4>1
      <4>. HIDE DEF end, M
      <4>4. M \in c[N] <=> \E q \in from : q <= M
        BY <2>4, <4>2
      <4>. QED
        BY <2>10, <3>1, <4>3, <4>4
    <3>2. CASE ~isDir /\ M # 0
      <4>1. M - 1 \in 0 .. M /\ lo + (M - 1) = n - 1
        BY <1>1, <1>5, <3>2
      <4>2. \A q \in from : q < M \/ (q = M /\ isDir) <=> q <= M - 1
        BY <1>5, <2>9, <3>2
      <4>3. (\E q \in from : q <= M - 1) <=> H /\ end # Nowhere /\ end <= n - 1
        BY <2>7, <4>1
      <4>4. end # Nowhere => (end <= n - 1 <=> end < n)
        BY <1>1, <2>8
      <4>. HIDE DEF end, M
      <4>5. M \in c[N] <=> \E q \in from : q <= M - 1
        BY <2>4, <4>2
      <4>. QED
        BY <3>2, <4>3, <4>4, <4>5
    <3>3. CASE ~isDir /\ M = 0
      <4>1. n = lo
        BY <1>1, <3>3
      <4>2. \A q \in from : ~(q < M \/ (q = M /\ isDir))
        BY <1>5, <2>9, <3>3
      <4>3. end # Nowhere => ~(end < n)
        BY <1>1, <2>8, <4>1
      <4>. HIDE DEF end, M
      <4>. QED
        BY <2>4, <3>3, <4>2, <4>3
    <3>. QED
      BY <3>1, <3>2, <3>3
  <2>12. Fits(glob, end, n, isDir) <=> end # Nowhere /\ (end < n \/ isDir)
    BY <1>9 DEF Fits
  <2>. HIDE DEF M
  <2>. QED
    BY <2>11, <2>12 DEF H, F, M
<1>. QED
  BY <1>1, <1>8, <1>9

\* A glob matches the names from lo to n exactly when its items cover them.
LEMMA GlobIs ==
  ASSUME NEW X, NEW items \in Seq(X), NEW dirOnly \in BOOLEAN, NEW segs \in Path,
         NEW lo \in Nat, NEW n \in Nat, lo <= n, n <= Len(segs), NEW isDir \in BOOLEAN
  PROVE  GlobMatch(MakeGlob(items, dirOnly), segs, lo, n, isDir)
           <=> (dirOnly => isDir) /\ Covers(items, SubSeq(segs, lo + 1, n), isDir)
<1>. DEFINE glob == MakeGlob(items, dirOnly)
            names == SubSeq(segs, lo + 1, n)
<1>8. PICK its \in Seq(X) : \E g \in [0 .. Len(its) -> RunLists(X)] :
            /\ AllButStar(its, items) /\ RunsOn(g, its)
            /\ IsGlob(glob, X) /\ g[Len(its)] = <<glob.head>> \o glob.floats
            /\ glob.dirOnly = dirOnly
            /\ glob.subtree <=> Len(its) # Len(items)
            /\ glob.subtree => /\ Len(items) = Len(its) + 1
                               /\ items[Len(items)] = GlobStar
  BY MakeGlobIs
<1>1. PICK g \in [0 .. Len(its) -> RunLists(X)] :
            /\ AllButStar(its, items) /\ RunsOn(g, its)
            /\ IsGlob(glob, X) /\ g[Len(its)] = <<glob.head>> \o glob.floats
            /\ glob.dirOnly = dirOnly
            /\ glob.subtree <=> Len(its) # Len(items)
            /\ glob.subtree => /\ Len(items) = Len(its) + 1
                               /\ items[Len(items)] = GlobStar
  BY <1>8
<1>. HIDE DEF glob
<1>2. names \in Path /\ Len(names) = n - lo
  BY DEF Path
<1>. HIDE DEF names
<1>3. PICK c \in [0 .. Len(items) -> SUBSET (0 .. Len(names))] :
            CoversOn(c, items, names, isDir)
            /\ (Covers(items, names, isDir) <=> Len(names) \in c[Len(items)])
  BY <1>2, CoversAre
<1>9. IsGlob(glob, X)
  BY <1>1
<1>10. \E e \in [0 .. Len(glob.floats) -> Nat \cup {Nowhere}] :
          EndsOn(e, glob, segs, lo, n) /\ Reached(glob, segs, lo, n) = e[Len(glob.floats)]
  BY <1>9, EndsAre
<1>4. PICK e \in [0 .. Len(glob.floats) -> Nat \cup {Nowhere}] :
            EndsOn(e, glob, segs, lo, n) /\ Reached(glob, segs, lo, n) = e[Len(glob.floats)]
  BY <1>10
<1>5. Compared(X, items, isDir, segs, lo, n, c, its, g, glob, e)
  BY <1>1, <1>2, <1>3, <1>4 DEF Compared, names
<1>6. n - lo \in c[Len(items)]
        <=> HeadFits(glob, segs, lo, n) /\ Fits(glob, e[Len(glob.floats)], n, isDir)
  BY <1>1, <1>5, SpotsGive
<1>7. GlobMatch(glob, segs, lo, n, isDir)
        <=> (dirOnly => isDir) /\ HeadFits(glob, segs, lo, n)
            /\ Fits(glob, e[Len(glob.floats)], n, isDir)
  BY <1>1, <1>4 DEF GlobMatch, HeadFits
<1>. QED
  BY <1>2, <1>3, <1>6, <1>7 DEF glob, names

\* Some item of a pattern is a segment.
HasSegment(items) == \E i \in DOMAIN items : items[i] # GlobStar

LEMMA CollapsedIs ==
  ASSUME NEW X, NEW items \in Seq(X)
  PROVE  /\ Collapsed(items) \in Seq(X)
         /\ HasSegment(items) => HasSegment(Collapsed(items))
         /\ ~HasSegment(items) => Collapsed(items) = IF items = <<>> THEN <<>> ELSE <<GlobStar>>
<1>. DEFINE N == Len(items)
            again(i) == i > 1 /\ items[i] = GlobStar /\ items[i - 1] = GlobStar
            kept == {i \in DOMAIN items : ~again(i)}
            nth(n) == CHOOSE i \in kept : Rank(kept, i) = n
            C == Cardinality(kept)
            out == Collapsed(items)
<1>1. N \in Nat /\ DOMAIN items = 1 .. N /\ \A i \in 1 .. N : items[i] \in X
  OBVIOUS
<1>2. kept \in SUBSET (1 .. N)
  BY <1>1
<1>3. out = [n \in 1 .. C |-> items[nth(n)]]
  BY DEF Collapsed, Rank
<1>. HIDE DEF out
<1>4. HasSegment(items) => \E i \in kept : items[i] # GlobStar
  BY DEF HasSegment
<1>5. ~HasSegment(items) => \A i \in 1 .. N : items[i] = GlobStar
  BY <1>1 DEF HasSegment
<1>6. \A i \in kept : i = 1 \/ items[i] # GlobStar \/ items[i - 1] # GlobStar
  BY <1>1
<1>7. N # 0 => 1 \in kept
  BY <1>1
<1>. HIDE DEF kept
<1>8. /\ C \in Nat
      /\ \A i \in kept : Rank(kept, i) \in 1 .. C
      /\ \A i, j \in kept : i < j => Rank(kept, i) < Rank(kept, j)
      /\ \A n \in 1 .. C : \E i \in kept : Rank(kept, i) = n
  BY <1>1, <1>2, RanksAre
<1>9. \A n \in 1 .. C : nth(n) \in kept /\ Rank(kept, nth(n)) = n
  BY <1>8
<1>10. \A i \in kept : nth(Rank(kept, i)) = i
  <2>. TAKE i \in kept
  <2>. DEFINE n == Rank(kept, i)
              j == nth(n)
  <2>1. n \in 1 .. C
    BY <1>8
  <2>2. j \in kept /\ Rank(kept, j) = n
    BY <1>9, <2>1
  <2>. HIDE DEF j
  <2>3. ~(i < j) /\ ~(j < i)
    BY <1>8, <2>1, <2>2
  <2>4. i = j
    BY <1>2, <2>2, <2>3
  <2>. QED
    BY <2>4 DEF j
<1>. HIDE DEF nth, C
<1>11. out \in Seq(X)
  <2>1. \A n \in 1 .. C : items[nth(n)] \in X
    BY <1>1, <1>2, <1>9
  <2>. QED
    BY <1>3, <1>8, <2>1
<1>12. DOMAIN out = 1 .. C /\ \A i \in kept : out[Rank(kept, i)] = items[i]
  BY <1>3, <1>8, <1>10
<1>13. HasSegment(items) => HasSegment(out)
  <2>. SUFFICES ASSUME HasSegment(items) PROVE HasSegment(out)
    OBVIOUS
  <2>1. PICK i \in kept : items[i] # GlobStar
    BY <1>4
  <2>2. Rank(kept, i) \in DOMAIN out /\ out[Rank(kept, i)] # GlobStar
    BY <1>8, <1>12, <2>1
  <2>. QED
    BY <2>2 DEF HasSegment
<1>14. ~HasSegment(items) => out = IF items = <<>> THEN <<>> ELSE <<GlobStar>>
  <2>. SUFFICES ASSUME ~HasSegment(items)
                PROVE  out = IF items = <<>> THEN <<>> ELSE <<GlobStar>>
    OBVIOUS
  <2>1. \A i \in kept : i = 1
    <3>. TAKE i \in kept
    <3>1. i \in 1 .. N /\ (i # 1 => i - 1 \in 1 .. N)
      BY <1>1, <1>2
    <3>. QED
      BY <1>5, <1>6, <3>1
  <2>2. CASE items = <<>>
    <3>1. N = 0
      BY <2>2
    <3>2. kept = {}
      BY <1>2, <3>1
    <3>3. C = 0
      BY <1>8, <1>9, <3>2
    <3>4. out = <<>>
      BY <1>11, <1>12, <3>3, EmptySeq
    <3>. QED
      BY <2>2, <3>4
  <2>3. CASE items # <<>>
    <3>1. N # 0
      BY <1>1, <2>3, EmptySeq
    <3>2. 1 \in kept /\ 1 \in 1 .. N
      BY <1>1, <1>7, <3>1
    <3>3. \A n \in 1 .. C : n = Rank(kept, 1)
      BY <1>9, <2>1
    <3>4. Rank(kept, 1) \in 1 .. C
      BY <1>8, <3>2
    <3>5. C = 1
      <4>1. 1 \in 1 .. C /\ C \in 1 .. C
        BY <1>8, <3>4
      <4>. QED
        BY <3>3, <4>1
    <3>6. out[1] = GlobStar /\ Len(out) = 1
      BY <1>5, <1>8, <1>11, <1>12, <3>2, <3>4, <3>5
    <3>7. out = <<GlobStar>>
      <4>1. out \in Seq(X) /\ Len(out) = 1 /\ DOMAIN out = 1 .. 1
        BY <1>11, <3>6
      <4>. QED
        BY <3>6, <4>1
    <3>. QED
      BY <2>3, <3>7
  <2>. QED
    BY <2>2, <2>3
<1>. QED
  BY <1>11, <1>13, <1>14 DEF out

Item == ({GlobStar} \cup SUBSET Names) \cup {Up}

LEMMA GlobOfStars ==
  ASSUME NEW dirOnly, NEW items, items = <<>> \/ items = <<GlobStar>>
  PROVE  MakeGlob(items, dirOnly).head = <<>> /\ MakeGlob(items, dirOnly).floats = <<>>
<1>. DEFINE subtree == items # <<>> /\ Last(items) = GlobStar
            its == IF subtree THEN Front(items) ELSE items
<1>1. its = <<>>
  <2>1. CASE items = <<>>
    BY <2>1
  <2>2. CASE items = <<GlobStar>>
    <3>1. Len(items) = 1 /\ items[1] = GlobStar /\ items # <<>>
      BY <2>2
    <3>2. SubSeq(items, 1, 0) = <<>>
      BY SubSeqEmpty
    <3>3. Front(items) = <<>>
      BY <3>1, <3>2 DEF Front
    <3>. QED
      BY <3>1, <3>3 DEF Last
  <2>. QED
    BY <2>1, <2>2
<1>2. Runs(<<>>) = << <<>> >>
  <2>1. PICK g \in [0 .. Len(<<>>) -> RunLists({})] : RunsOn(g, <<>>) /\ Runs(<<>>) = g[Len(<<>>)]
    <3>1. <<>> \in Seq({})
      OBVIOUS
    <3>. QED
      BY <3>1, RunsAre
  <2>2. Len(<<>>) = 0 /\ 0 \in 0 .. 0
    OBVIOUS
  <2>3. g[0] = << <<>> >>
    BY <2>1, <2>2 DEF RunsOn
  <2>. QED
    BY <2>1, <2>2, <2>3
<1>3. MakeGlob(items, dirOnly) = [head |-> Head(Runs(its)), floats |-> Tail(Runs(its)),
                                  subtree |-> subtree, dirOnly |-> dirOnly]
  BY DEF MakeGlob
<1>4. Head(<< <<>> >>) = <<>> /\ Tail(<< <<>> >>) = <<>>
  <2>. DEFINE s == << <<>> >>
  <2>1. s \in Seq({<<>>}) /\ Len(s) = 1 /\ s[1] = <<>>
    OBVIOUS
  <2>2. Tail(s) = <<>>
    <3>1. Tail(s) \in Seq({<<>>}) /\ Len(Tail(s)) = 0
      BY <2>1
    <3>. QED
      BY <3>1, EmptySeq
  <2>. QED
    BY <2>2
<1>. HIDE DEF its, subtree
<1>. QED
  BY <1>1, <1>2, <1>3, <1>4

LEMMA JoinedHas ==
  ASSUME NEW s \in Seq(Item), NEW t \in Seq(Item)
  PROVE  s \o t \in Seq(Item) /\ (HasSegment(s) \/ HasSegment(t) => HasSegment(s \o t))
<1>1. /\ s \o t \in Seq(Item) /\ DOMAIN s = 1 .. Len(s) /\ DOMAIN t = 1 .. Len(t)
      /\ DOMAIN (s \o t) = 1 .. Len(s) + Len(t) /\ Len(s) \in Nat /\ Len(t) \in Nat
      /\ \A i \in 1 .. Len(s) : (s \o t)[i] = s[i]
      /\ \A i \in 1 .. Len(t) : (s \o t)[Len(s) + i] = t[i]
  OBVIOUS
<1>2. ASSUME HasSegment(s) PROVE HasSegment(s \o t)
  <2>1. PICK i \in 1 .. Len(s) : s[i] # GlobStar
    BY <1>1, <1>2 DEF HasSegment
  <2>2. i \in DOMAIN (s \o t) /\ (s \o t)[i] # GlobStar
    BY <1>1, <2>1
  <2>. QED
    BY <2>2 DEF HasSegment
<1>3. ASSUME HasSegment(t) PROVE HasSegment(s \o t)
  <2>1. PICK i \in 1 .. Len(t) : t[i] # GlobStar
    BY <1>1, <1>3 DEF HasSegment
  <2>2. Len(s) + i \in DOMAIN (s \o t) /\ (s \o t)[Len(s) + i] # GlobStar
    BY <1>1, <2>1
  <2>. QED
    BY <2>2 DEF HasSegment
<1>. QED
  BY <1>1, <1>2, <1>3

\* What a pattern that is accepted is made of: some item is a segment.
PatternValues == Value({GlobStar} \cup SUBSET Names)

LEMMA AnchoredIs ==
  ASSUME NEW p \in PatternValues, NEW home \in Path, PatternCode(p, home) = "ok"
  PROVE  AnchoredItems(p, home) \in Seq(Item) /\ HasSegment(AnchoredItems(p, home))
<1>. DEFINE c == Collapsed(p.items)
            L == Literals(home)
            items == AnchoredItems(p, home)
            glob == MakeGlob(items, p.slash)
<1>1. p.items \in Seq(Item) /\ p.home \in BOOLEAN /\ p.rooted \in BOOLEAN /\ p.slash \in BOOLEAN
  <2>1. p \in [home : BOOLEAN, rooted : BOOLEAN, slash : BOOLEAN, items : Seq(Item)]
    BY DEF PatternValues, Value, Item
  <2>. QED
    BY <2>1
<1>2. /\ c \in Seq(Item) /\ (HasSegment(p.items) => HasSegment(c))
      /\ ~HasSegment(p.items) => c = IF p.items = <<>> THEN <<>> ELSE <<GlobStar>>
  BY <1>1, CollapsedIs
<1>3. L \in Seq(Item) /\ Len(L) = Len(home) /\ \A i \in 1 .. Len(home) : L[i] = {home[i]}
  <2>1. Len(home) \in Nat /\ DOMAIN home = 1 .. Len(home) /\ \A i \in 1 .. Len(home) : home[i] \in Names
    BY DEF Path
  <2>2. L = [i \in 1 .. Len(home) |-> {home[i]}]
    BY <2>1 DEF Literals
  <2>3. \A i \in 1 .. Len(home) : {home[i]} \in Item
    BY <2>1 DEF Item
  <2>. HIDE DEF L
  <2>. QED
    BY <2>1, <2>2, <2>3
<1>4. items = IF p.home THEN L \o c
              ELSE IF ~p.rooted /\ Head(c) # GlobStar THEN <<GlobStar>> \o c
              ELSE c
  BY DEF AnchoredItems
<1>5. ~(glob.head = <<>> /\ glob.floats = <<>>)
  BY DEF PatternCode
<1>6. ~p.home => HasSegment(p.items)
  <2>1. ~p.home => ~\A i \in DOMAIN p.items : StarOnly(p.items[i])
    BY DEF PatternCode
  <2>. QED
    BY <2>1 DEF StarOnly, HasSegment
<1>. HIDE DEF c, L, items, glob
<1>8. CASE p.home
  <2>1. items = L \o c /\ items \in Seq(Item)
    BY <1>2, <1>3, <1>4, <1>8
  <2>2. CASE HasSegment(p.items)
    <3>1. L \in Seq(Item) /\ c \in Seq(Item) /\ HasSegment(c)
      BY <1>2, <1>3, <2>2
    <3>2. HasSegment(L \o c)
      BY <3>1, JoinedHas
    <3>. QED
      BY <2>1, <3>2 DEF items
  <2>3. CASE ~HasSegment(p.items) /\ home # <<>>
    <3>1. 1 \in 1 .. Len(home) /\ home[1] \in Names
      BY <2>3, EmptySeq DEF Path
    <3>2. L[1] # GlobStar /\ 1 \in DOMAIN L
      BY <1>3, <3>1, MatcherAssumption
    <3>3. HasSegment(L)
      BY <3>2 DEF HasSegment
    <3>. QED
      <4>1. L \in Seq(Item) /\ c \in Seq(Item)
        BY <1>2, <1>3
      <4>2. HasSegment(L \o c)
        BY <3>3, <4>1, JoinedHas
      <4>. QED
        BY <2>1, <4>2 DEF items
  <2>4. CASE ~HasSegment(p.items) /\ home = <<>>
    <3>1. Len(L) = 0
      BY <1>3, <2>4
    <3>2. items = c
      <4>1. L = <<>>
        BY <1>3, <3>1, EmptySeq
      <4>. QED
        BY <1>2, <2>1, <4>1
    <3>3. items = <<>> \/ items = <<GlobStar>>
      BY <1>2, <2>4, <3>2
    <3>4. FALSE
      BY <1>5, <3>3, GlobOfStars DEF glob
    <3>. QED
      BY <3>4
  <2>. QED
    BY <2>2, <2>3, <2>4 DEF items
<1>9. CASE ~p.home
  <2>1. HasSegment(c) /\ c \in Seq(Item)
    BY <1>2, <1>6, <1>9
  <2>2. <<GlobStar>> \in Seq(Item)
    BY DEF Item
  <2>3. <<GlobStar>> \o c \in Seq(Item) /\ HasSegment(<<GlobStar>> \o c)
    BY <2>1, <2>2, JoinedHas
  <2>. QED
    BY <1>4, <1>9, <2>1, <2>3 DEF items
<1>. QED
  BY <1>8, <1>9

\* A pattern that ends in "**" covers what it covers from the directory above:
\* some name is left for the segment.
LEMMA CoversAbove ==
  ASSUME NEW X, NEW items \in Seq(X), HasSegment(items), items[Len(items)] = GlobStar,
         NEW names \in Path, Covers(items, names, FALSE)
  PROVE  Len(names) >= 2 /\ Covers(items, Prefix(names, Len(names) - 1), TRUE)
<1>. DEFINE N == Len(items)
            M == Len(names)
            above == Prefix(names, M - 1)
<1>1. N \in Nat /\ M \in Nat /\ DOMAIN items = 1 .. N
  BY DEF Path
<1>2. N # 0
  BY <1>1 DEF HasSegment
<1>3. PICK c \in [0 .. N -> SUBSET (0 .. M)] :
            CoversOn(c, items, names, FALSE) /\ (Covers(items, names, FALSE) <=> M \in c[N])
  BY CoversAre
<1>4. \A i \in 0 .. N : c[i] = IF i = 0 THEN {0}
                               ELSE Covering(items, M, names, FALSE, i, c[i - 1])
  BY <1>3 DEF CoversOn
<1>5. M \in c[N]
  BY <1>3
<1>6. N \in 0 .. N /\ N - 1 \in 0 .. N /\ (N - 1) \in Nat /\ N \in 1 .. N
  BY <1>1, <1>2
<1>7. PICK q \in c[N - 1] : q < M
  <2>1. c[N] = Covering(items, M, names, FALSE, N, c[N - 1])
    BY <1>2, <1>4, <1>6
  <2>. QED
    BY <1>5, <2>1 DEF Covering
<1>8. q \in 0 .. M /\ M # 0
  BY <1>1, <1>3, <1>6, <1>7
\* Nothing but "**" is covered by no name.
<1>9. ASSUME 0 \in c[N - 1] PROVE FALSE
  <2>. DEFINE T == {k \in Nat : k <= N - 1 => /\ 0 \in c[N - 1 - k]
                                              /\ \A i \in N - k .. N : items[i] = GlobStar}
  <2>1. 0 \in T
    <3>1. N - 1 - 0 = N - 1 /\ N - 0 = N /\ \A i \in N .. N : i = N
      BY <1>1
    <3>. QED
      BY <1>9, <3>1
  <2>2. ASSUME NEW k \in Nat, k \in T PROVE k + 1 \in T
    <3>. SUFFICES ASSUME k + 1 <= N - 1
                  PROVE  /\ 0 \in c[N - 1 - (k + 1)]
                         /\ \A i \in N - (k + 1) .. N : items[i] = GlobStar
      OBVIOUS
    <3>. DEFINE j == N - 1 - k
    <3>1. j \in 0 .. N /\ j # 0 /\ j - 1 = N - 1 - (k + 1) /\ k <= N - 1 /\ N - (k + 1) = j
          /\ N - k = j + 1 /\ j \in Nat
      <4>1. \A n, x \in Nat : x + 1 <= n - 1 =>
               /\ n - 1 - x \in 0 .. n /\ n - 1 - x # 0 /\ (n - 1 - x) - 1 = n - 1 - (x + 1)
               /\ x <= n - 1 /\ n - (x + 1) = n - 1 - x /\ n - x = (n - 1 - x) + 1
               /\ n - 1 - x \in Nat
        OBVIOUS
      <4>. HIDE DEF N
      <4>. QED
        BY <1>1, <4>1
    <3>2. 0 \in c[j] /\ \A i \in j + 1 .. N : items[i] = GlobStar
      BY <2>2, <3>1
    <3>. HIDE DEF j
    <3>3. c[j] = Covering(items, M, names, FALSE, j, c[j - 1])
      BY <1>4, <3>1
    <3>4. items[j] = GlobStar
      BY <3>2, <3>3 DEF Covering
    <3>5. PICK p \in c[j - 1] : p <= 0
      <4>1. \E p \in c[j - 1] : p < 0 \/ p = 0
        BY <3>2, <3>3, <3>4 DEF Covering
      <4>. QED
        BY <4>1
    <3>6. p \in 0 .. M
      <4>1. j - 1 \in 0 .. N
        BY <1>1, <3>1
      <4>. QED
        BY <1>3, <3>5, <4>1
    <3>7. p = 0
      BY <1>1, <3>5, <3>6
    <3>8. \A i \in j .. N : items[i] = GlobStar
      <4>1. \A i \in j .. N : i = j \/ i \in j + 1 .. N
        BY <1>1, <3>1
      <4>. QED
        BY <3>2, <3>4, <4>1
    <3>. HIDE DEF N
    <3>. QED
      BY <3>1, <3>5, <3>7, <3>8
  <2>3. Nat \subseteq T
    <3>. HIDE DEF T
    <3>. QED
      BY <2>1, <2>2, SetInduction
  <2>4. N - 1 \in T /\ N - (N - 1) = 1
    BY <1>1, <1>6, <2>3
  <2>5. \A i \in 1 .. N : items[i] = GlobStar
    BY <1>6, <2>4
  <2>. QED
    BY <1>1, <2>5 DEF HasSegment
<1>10. q # 0 /\ M >= 2 /\ q <= M - 1
  BY <1>1, <1>7, <1>8, <1>9
<1>11. above \in Path /\ Len(above) = M - 1 /\ \A i \in 1 .. M - 1 : above[i] = names[i]
  <2>1. M - 1 \in 0 .. M
    BY <1>1, <1>10
  <2>. QED
    BY <2>1, PrefixIs
<1>12. PICK d \in [0 .. N -> SUBSET (0 .. M - 1)] :
            CoversOn(d, items, above, TRUE) /\ (Covers(items, above, TRUE) <=> M - 1 \in d[N])
  <2>. HIDE DEF above
  <2>1. \E d \in [0 .. N -> SUBSET (0 .. Len(above))] :
            CoversOn(d, items, above, TRUE) /\ (Covers(items, above, TRUE) <=> Len(above) \in d[N])
    BY <1>11, CoversAre
  <2>. QED
    BY <1>11, <2>1
<1>. HIDE DEF above
<1>13. \A i \in 0 .. N : d[i] = IF i = 0 THEN {0}
                                ELSE Covering(items, M - 1, above, TRUE, i, d[i - 1])
  BY <1>11, <1>12 DEF CoversOn
<1>14. \A i \in 0 .. N - 1 : \A j \in 0 .. M - 1 : j \in c[i] => j \in d[i]
  <2>. DEFINE T == {i \in Nat : i <= N - 1 => \A j \in 0 .. M - 1 : j \in c[i] => j \in d[i]}
  <2>1. 0 \in T
    <3>1. 0 \in 0 .. N
      BY <1>1
    <3>2. c[0] = {0} /\ d[0] = {0}
      BY <1>4, <1>13, <3>1
    <3>. QED
      BY <3>2
  <2>2. ASSUME NEW i \in Nat, i \in T PROVE i + 1 \in T
    <3>. SUFFICES ASSUME i + 1 <= N - 1, NEW j \in 0 .. M - 1, j \in c[i + 1]
                  PROVE  j \in d[i + 1]
      OBVIOUS
    <3>. DEFINE n == i + 1
    <3>1. n \in 0 .. N /\ n # 0 /\ n - 1 = i /\ i <= N - 1 /\ n # N /\ i \in 0 .. N
      <4>1. \A k, x \in Nat : x + 1 <= k - 1 =>
               /\ x + 1 \in 0 .. k /\ x + 1 # 0 /\ (x + 1) - 1 = x /\ x <= k - 1
               /\ x + 1 # k /\ x \in 0 .. k
        OBVIOUS
      <4>. HIDE DEF N
      <4>. QED
        BY <1>1, <4>1
    <3>. HIDE DEF n
    <3>2. c[n] = Covering(items, M, names, FALSE, n, c[i]) /\ d[n] = Covering(items, M - 1, above, TRUE, n, d[i])
      BY <1>4, <1>13, <3>1
    <3>3. \A k \in 0 .. M - 1 : k \in c[i] => k \in d[i]
      BY <2>2, <3>1
    <3>4. j \in c[n] /\ j \in Nat /\ j <= M - 1
      BY <1>1, <1>10 DEF n
    <3>5. CASE items[n] = GlobStar
      <4>1. PICK k \in c[i] : k < j \/ k = j
        BY <3>2, <3>4, <3>5 DEF Covering
      <4>2. k \in 0 .. M
        BY <1>3, <3>1, <4>1
      <4>3. k \in 0 .. M - 1
        BY <1>1, <3>4, <4>1, <4>2
      <4>4. k \in d[i]
        BY <3>3, <4>1, <4>3
      <4>5. j \in d[n]
        BY <3>1, <3>2, <3>5, <4>1, <4>4 DEF Covering
      <4>. QED
        BY <4>5 DEF n
    <3>6. CASE items[n] # GlobStar
      <4>1. j \in 1 .. M /\ j - 1 \in c[i] /\ names[j] \in items[n]
        BY <3>2, <3>4, <3>6 DEF Covering
      <4>2. j \in 1 .. M - 1 /\ j - 1 \in 0 .. M - 1
        BY <1>1, <3>4, <4>1
      <4>3. j - 1 \in d[i] /\ above[j] \in items[n]
        BY <1>11, <3>3, <4>1, <4>2
      <4>4. j \in d[n]
        BY <3>2, <3>6, <4>2, <4>3 DEF Covering
      <4>. QED
        BY <4>4 DEF n
    <3>. QED
      BY <3>5, <3>6
  <2>3. Nat \subseteq T
    <3>. HIDE DEF T
    <3>. QED
      BY <2>1, <2>2, SetInduction
  <2>. QED
    BY <1>6, <2>3
<1>15. M - 1 \in d[N]
  <2>1. N - 1 \in 0 .. N - 1 /\ q \in 0 .. M - 1 /\ M - 1 \in 0 .. M - 1
    BY <1>1, <1>6, <1>8, <1>10
  <2>2. q \in d[N - 1]
    BY <1>7, <1>14, <2>1
  <2>3. d[N] = Covering(items, M - 1, above, TRUE, N, d[N - 1])
    BY <1>2, <1>6, <1>13
  <2>4. q < M - 1 \/ q = M - 1
    BY <1>1, <1>8, <1>10
  <2>. QED
    BY <2>1, <2>2, <2>3, <2>4 DEF Covering
<1>. QED
  BY <1>10, <1>12, <1>15 DEF above

\* A compiled pattern.
IsPattern(q) ==
    /\ q.scope \in Path /\ q.lo \in {0, Len(q.scope)}
    /\ \E items \in Seq(Item), slash \in BOOLEAN :
          HasSegment(items) /\ q.glob = MakeGlob(items, slash)

\* It matches the first n names of the path, within its scope.
Reaches(q, path, n, isDir) ==
    IsUnder(path, q.scope) /\ n > Len(q.scope) /\ GlobMatch(q.glob, path, q.lo, n, isDir)

\* It matches its own scope or a directory above it.
FromAbove(q, path) ==
    /\ q.scope # <<>> /\ q.lo = 0 /\ IsUnder(path, q.scope)
    /\ \E k \in 1 .. Len(q.scope) : GlobMatch(q.glob, path, 0, k, TRUE)

LEMMA GlobPrefix ==
  ASSUME NEW items \in Seq(Item), NEW slash \in BOOLEAN, NEW path \in Path,
         NEW n \in 0 .. Len(path), NEW k \in 0 .. n, NEW lo \in 0 .. k, NEW isDir \in BOOLEAN
  PROVE  GlobMatch(MakeGlob(items, slash), Prefix(path, n), lo, k, isDir)
           <=> GlobMatch(MakeGlob(items, slash), path, lo, k, isDir)
<1>. DEFINE p == Prefix(path, n)
            glob == MakeGlob(items, slash)
<1>1. p \in Path /\ Len(p) = n /\ \A i \in 1 .. n : p[i] = path[i]
  BY PrefixIs
<1>2. n \in Nat /\ k \in Nat /\ lo \in Nat /\ lo <= k /\ k <= n /\ n <= Len(path) /\ k <= Len(path)
      /\ Len(path) \in Nat
  BY DEF Path
<1>3. GlobMatch(glob, path, lo, k, isDir)
        <=> (slash => isDir) /\ Covers(items, SubSeq(path, lo + 1, k), isDir)
  BY <1>2, GlobIs
<1>. HIDE DEF p
<1>4. GlobMatch(glob, p, lo, k, isDir)
        <=> (slash => isDir) /\ Covers(items, SubSeq(p, lo + 1, k), isDir)
  BY <1>1, <1>2, GlobIs
<1>5. SubSeq(p, lo + 1, k) = SubSeq(path, lo + 1, k)
  <2>1. /\ SubSeq(p, lo + 1, k) \in Path /\ Len(SubSeq(p, lo + 1, k)) = k - lo
        /\ \A i \in 1 .. k - lo : SubSeq(p, lo + 1, k)[i] = p[lo + i]
    <3>1. p \in Path /\ k <= Len(p) /\ lo \in Nat /\ k \in Nat /\ lo <= k
      BY <1>1, <1>2
    <3>. QED
      BY <3>1 DEF Path
  <2>2. /\ SubSeq(path, lo + 1, k) \in Path /\ Len(SubSeq(path, lo + 1, k)) = k - lo
        /\ \A i \in 1 .. k - lo : SubSeq(path, lo + 1, k)[i] = path[lo + i]
    BY <1>2 DEF Path
  <2>3. \A i \in 1 .. k - lo : p[lo + i] = path[lo + i]
    BY <1>1, <1>2
  <2>. QED
    BY <2>1, <2>2, <2>3, SeqEqual DEF Path
<1>. HIDE DEF glob
<1>. QED
  BY <1>3, <1>4, <1>5 DEF glob, p

LEMMA ReachesPrefix ==
  ASSUME NEW q, IsPattern(q), NEW path \in Path,
         NEW n \in 0 .. Len(path), NEW k \in 1 .. n, NEW isDir \in BOOLEAN
  PROVE  Reaches(q, Prefix(path, n), k, isDir) <=> Reaches(q, path, k, isDir)
<1>. DEFINE p == Prefix(path, n)
<1>1. q.scope \in Path /\ Len(q.scope) \in Nat /\ q.lo \in {0, Len(q.scope)}
  BY DEF IsPattern, Path
<1>2. PICK items \in Seq(Item), slash \in BOOLEAN : q.glob = MakeGlob(items, slash)
  BY DEF IsPattern
<1>3. p \in Path /\ Len(p) = n /\ (\A j \in 0 .. n : Prefix(p, j) = Prefix(path, j))
      /\ Len(path) \in Nat /\ k \in Nat /\ k \in 0 .. n
  BY PrefixIs DEF Path
<1>. HIDE DEF p
<1>4. CASE k > Len(q.scope)
  <2>1. q.lo \in 0 .. k /\ Len(q.scope) \in 0 .. n /\ Len(q.scope) \in 0 .. Len(path)
    BY <1>1, <1>3, <1>4
  <2>2. GlobMatch(q.glob, p, q.lo, k, isDir) <=> GlobMatch(q.glob, path, q.lo, k, isDir)
    BY <1>2, <1>3, <2>1, GlobPrefix DEF p
  <2>3. IsUnder(p, q.scope) <=> Prefix(p, Len(q.scope)) = q.scope
    BY <1>1, <1>3, <2>1, UnderIs
  <2>4. IsUnder(path, q.scope) <=> Prefix(path, Len(q.scope)) = q.scope
    BY <1>1, <2>1, UnderIs
  <2>. QED
    BY <1>3, <2>1, <2>2, <2>3, <2>4 DEF Reaches, p
<1>5. CASE ~(k > Len(q.scope))
  BY <1>5 DEF Reaches
<1>. QED
  BY <1>4, <1>5

LEMMA SingleIs ==
  ASSUME NEW q, IsPattern(q), IsSingle(q), NEW path \in Path,
         NEW n \in 1 .. Len(path), NEW isDir \in BOOLEAN
  PROVE  LET glob == q.glob
             seg == glob.floats[1][1]
         IN  /\ Reaches(q, path, n, isDir)
                  <=> /\ glob.dirOnly => isDir
                      /\ IF glob.subtree
                         THEN \E s \in 1 .. n : path[s] \in seg /\ (s < n \/ isDir)
                         ELSE path[n] \in seg
             /\ ~(glob.subtree /\ glob.dirOnly)
<1>. DEFINE glob == q.glob
            run == glob.floats[1]
            seg == run[1]
<1>1. /\ glob.head = <<>> /\ Len(glob.floats) = 1 /\ Len(run) = 1 /\ q.scope = <<>>
      /\ ~(glob.subtree /\ glob.dirOnly)
  BY DEF IsSingle
<1>2. q.lo = 0 /\ Len(q.scope) = 0 /\ n \in Nat /\ n >= 1 /\ n <= Len(path) /\ Len(path) \in Nat
  BY <1>1 DEF IsPattern, Path
<1>3. IsUnder(path, q.scope)
  <2>1. q.scope \in Path /\ Len(q.scope) \in 0 .. Len(path) /\ Prefix(path, 0) = <<>>
    BY <1>2, PrefixIs DEF IsPattern
  <2>. QED
    BY <1>1, <1>2, <2>1, UnderIs
<1>4. IsGlob(glob, Item) /\ glob.dirOnly \in BOOLEAN
  <2>1. PICK items \in Seq(Item), slash \in BOOLEAN : glob = MakeGlob(items, slash)
    BY DEF IsPattern
  <2>2. \E its \in Seq(Item) : \E g \in [0 .. Len(its) -> RunLists(Item)] :
            /\ IsGlob(MakeGlob(items, slash), Item) /\ MakeGlob(items, slash).dirOnly = slash
    BY MakeGlobIs
  <2>. QED
    BY <2>1, <2>2
<1>. HIDE DEF glob, run
<1>5. PICK e \in [0 .. Len(glob.floats) -> Nat \cup {Nowhere}] :
            EndsOn(e, glob, path, 0, n) /\ Reached(glob, path, 0, n) = e[Len(glob.floats)]
  <2>1. 0 \in Nat
    OBVIOUS
  <2>2. \E e \in [0 .. Len(glob.floats) -> Nat \cup {Nowhere}] :
            EndsOn(e, glob, path, 0, n) /\ Reached(glob, path, 0, n) = e[Len(glob.floats)]
    BY <1>2, <1>4, <2>1, EndsAre
  <2>. QED
    BY <2>2
<1>. DEFINE end == Place(glob, path, n, 0, 1)
<1>6. Reached(glob, path, 0, n) = end
  <2>1. Len(glob.head) = 0
    BY <1>1 DEF glob
  <2>2. \A i \in 0 .. 1 : e[i] = IF i = 0 THEN 0 + Len(glob.head) ELSE Place(glob, path, n, e[i - 1], i)
    BY <1>1, <1>5 DEF EndsOn, glob
  <2>3. e[0] = 0
    BY <2>1, <2>2
  <2>4. e[1] = Place(glob, path, n, e[0], 1)
    <3>1. 1 \in 0 .. 1 /\ 1 # 0 /\ 1 - 1 = 0
      OBVIOUS
    <3>. QED
      BY <2>2, <3>1
  <2>. QED
    BY <1>1, <1>5, <2>3, <2>4 DEF glob
<1>7. GlobMatch(glob, path, 0, n, isDir) <=> (glob.dirOnly => isDir) /\ Fits(glob, end, n, isDir)
  <2>1. Len(glob.head) = 0 /\ n - 0 >= 0
    BY <1>1, <1>2 DEF glob
  <2>2. RunMatches(glob.head, path, 0)
    BY <1>1 DEF RunMatches, glob
  <2>. QED
    BY <1>6, <2>1, <2>2 DEF GlobMatch
<1>8. \A s \in Nat : Placed(run, path, n, 0, s) <=> s + 1 <= n /\ path[s + 1] \in seg
  <2>1. DOMAIN run = {1}
    <3>1. run \in Seq(Item)
      BY <1>1, <1>4 DEF IsGlob, run, glob
    <3>. QED
      BY <1>1, <3>1 DEF run
  <2>. QED
    BY <1>1, <2>1 DEF Placed, RunMatches, run
<1>9. /\ end \in Nat \cup {Nowhere} /\ run \in Seq(Item)
      /\ ~IsTail(glob, 1) =>
            /\ end = Nowhere => ~\E s : Placed(run, path, n, 0, s)
            /\ end # Nowhere => /\ \E s : Placed(run, path, n, 0, s) /\ end = s + Len(run)
                                /\ \A s : Placed(run, path, n, 0, s) => end <= s + Len(run)
      /\ IsTail(glob, 1) =>
            /\ end # Nowhere => end = n
            /\ end # Nowhere <=> Placed(run, path, n, 0, n - Len(run))
  <2>1. LET r == glob.floats[1]
            x == Place(glob, path, n, 0, 1)
        IN  /\ x \in Nat \cup {Nowhere} /\ r \in Seq(Item)
            /\ 0 = Nowhere => x = Nowhere
            /\ ~IsTail(glob, 1) /\ 0 # Nowhere =>
                  /\ x = Nowhere => ~\E s : Placed(r, path, n, 0, s)
                  /\ x # Nowhere => /\ \E s : Placed(r, path, n, 0, s) /\ x = s + Len(r)
                                    /\ \A s : Placed(r, path, n, 0, s) => x <= s + Len(r)
            /\ IsTail(glob, 1) /\ 0 # Nowhere =>
                  /\ x # Nowhere => x = n
                  /\ x # Nowhere <=> Placed(r, path, n, 0, n - Len(r))
    <3>1. 1 \in 1 .. Len(glob.floats) /\ 0 \in Nat \cup {Nowhere}
      BY <1>1 DEF glob
    <3>. QED
      BY <1>2, <1>4, <3>1, PlaceIs
  <2>2. 0 # Nowhere
    BY DEF Nowhere
  <2>. QED
    BY <2>1, <2>2 DEF run
<1>10. IsTail(glob, 1) <=> ~glob.subtree
  BY <1>1 DEF IsTail, glob
<1>. HIDE DEF end, seg
<1>11. CASE glob.subtree
  <2>1. Fits(glob, end, n, isDir) <=> end # Nowhere /\ (end < n \/ isDir)
    BY <1>11 DEF Fits
  <2>2. ASSUME end # Nowhere, end < n \/ isDir
        PROVE  \E s \in 1 .. n : path[s] \in seg /\ (s < n \/ isDir)
    <3>1. PICK s : Placed(run, path, n, 0, s) /\ end = s + Len(run)
      BY <1>9, <1>10, <1>11, <2>2
    <3>2. s \in Nat
      BY <3>1 DEF Placed
    <3>3. s + 1 <= n /\ path[s + 1] \in seg /\ end = s + 1
      BY <1>1, <1>8, <3>1, <3>2 DEF run
    <3>4. s + 1 \in 1 .. n
      BY <1>2, <3>2, <3>3
    <3>. QED
      BY <2>2, <3>3, <3>4
  <2>3. ASSUME NEW s \in 1 .. n, path[s] \in seg, s < n \/ isDir
        PROVE  end # Nowhere /\ (end < n \/ isDir)
    <3>1. s - 1 \in Nat /\ (s - 1) + 1 = s /\ s <= n
      BY <1>2
    <3>2. Placed(run, path, n, 0, s - 1)
      BY <1>8, <2>3, <3>1
    <3>3. end # Nowhere /\ end <= (s - 1) + Len(run)
      BY <1>9, <1>10, <1>11, <3>2
    <3>4. Len(run) = 1
      BY <1>1 DEF run
    <3>5. end \in Nat /\ end <= s
      BY <1>9, <3>1, <3>3, <3>4
    <3>. QED
      BY <1>2, <2>3, <3>3, <3>5
  <2>. QED
    BY <1>1, <1>2, <1>3, <1>7, <1>11, <2>1, <2>2, <2>3 DEF Reaches, seg, run, glob
<1>12. CASE ~glob.subtree
  <2>1. Fits(glob, end, n, isDir) <=> end # Nowhere /\ end = n
    BY <1>12 DEF Fits
  <2>2. Len(run) = 1 /\ n - 1 \in Nat /\ (n - 1) + 1 = n /\ n <= n
    BY <1>1, <1>2 DEF run
  <2>3. end # Nowhere /\ end = n <=> path[n] \in seg
    BY <1>8, <1>9, <1>10, <1>12, <2>2
  <2>. QED
    BY <1>1, <1>2, <1>3, <1>7, <1>12, <2>1, <2>3 DEF Reaches, seg, run, glob
<1>. QED
  BY <1>4, <1>11, <1>12 DEF IsGlob


\* Within its scope a pattern is asked in two ways: each name for itself, and
\* all names up to one.
LEMMA AskedIs ==
  ASSUME NEW q, IsPattern(q), NEW path \in Path, ~FromAbove(q, path),
         NEW n \in 1 .. Len(path), NEW k \in 1 .. n, NEW isDir \in BOOLEAN,
         NEW subtrees \in BOOLEAN,
         PatternMatches(q, Prefix(path, n), k, isDir, subtrees)
  PROVE  Reaches(q, path, k, isDir)
<1>. DEFINE p == Prefix(path, n)
            glob == q.glob
<1>1. n \in 0 .. Len(path) /\ n \in Nat /\ Len(path) \in Nat /\ k \in Nat /\ k \in 1 .. Len(path)
      /\ k \in 0 .. n
  BY DEF Path
<1>2. p \in Path /\ Len(p) = n /\ \A i \in 1 .. n : p[i] = path[i]
  BY <1>1, PrefixIs
<1>3. q.scope \in Path /\ Len(q.scope) \in Nat /\ q.lo \in {0, Len(q.scope)}
  BY DEF IsPattern, Path
<1>4. PatternMatches(q, p, k, isDir, subtrees)
  OBVIOUS
<1>. HIDE DEF p
<1>5. CASE IsSingle(q)
  <2>1. /\ p[k] \in glob.floats[1][1]
        /\ IF glob.subtree THEN subtrees /\ isDir ELSE glob.dirOnly => isDir
    BY <1>4, <1>5 DEF PatternMatches
  <2>2. path[k] \in glob.floats[1][1]
    BY <1>2, <2>1
  <2>3. LET g == q.glob
            seg == g.floats[1][1]
        IN  /\ Reaches(q, path, k, isDir)
                 <=> /\ g.dirOnly => isDir
                     /\ IF g.subtree
                        THEN \E s \in 1 .. k : path[s] \in seg /\ (s < k \/ isDir)
                        ELSE path[k] \in seg
            /\ ~(g.subtree /\ g.dirOnly)
    BY <1>1, <1>5, SingleIs
  <2>4. k \in 1 .. k
    BY <1>1
  <2>. QED
    BY <2>1, <2>2, <2>3, <2>4
<1>6. CASE ~IsSingle(q)
  <2>1. /\ q.scope # <<>> => p # q.scope /\ IsUnder(p, q.scope)
        /\ k > q.lo /\ GlobMatch(q.glob, p, q.lo, k, isDir)
    BY <1>4, <1>6 DEF PatternMatches
  <2>2. PICK items \in Seq(Item), slash \in BOOLEAN : q.glob = MakeGlob(items, slash)
    BY DEF IsPattern
  <2>3. q.lo \in 0 .. k
    BY <1>1, <1>3, <2>1
  <2>4. GlobMatch(q.glob, path, q.lo, k, isDir)
    BY <1>1, <2>1, <2>2, <2>3, GlobPrefix DEF p
  <2>5. CASE q.scope = <<>>
    <3>1. Len(q.scope) = 0 /\ Prefix(path, 0) = <<>>
      BY <1>1, <2>5, PrefixIs
    <3>2. IsUnder(path, q.scope)
      <4>1. Len(q.scope) \in 0 .. Len(path)
        BY <1>1, <3>1
      <4>. QED
        BY <1>3, <2>5, <3>1, <4>1, UnderIs
    <3>3. q.lo = 0
      BY <1>3, <3>1
    <3>. QED
      BY <2>1, <2>4, <3>1, <3>2, <3>3 DEF Reaches
  <2>6. CASE q.scope # <<>>
    <3>1. /\ Len(q.scope) \in 0 .. Len(p) /\ Prefix(p, Len(q.scope)) = q.scope
      BY <1>2, <1>3, <2>1, <2>6, UnderIs
    <3>2. IsUnder(path, q.scope)
      <4>1. Prefix(p, Len(q.scope)) = Prefix(path, Len(q.scope)) /\ Len(q.scope) \in 0 .. Len(path)
        BY <1>1, <1>2, <3>1, PrefixIs DEF p
      <4>. QED
        BY <1>3, <3>1, <4>1, UnderIs
    <3>3. k > Len(q.scope)
      <4>1. CASE q.lo # 0
        BY <1>3, <2>1, <4>1
      <4>2. CASE q.lo = 0
        <5>. SUFFICES ASSUME k <= Len(q.scope) PROVE FALSE
          BY <1>1, <1>3
        <5>1. k \in 1 .. Len(q.scope) /\ k \in 0 .. Len(q.scope) /\ q.lo \in 0 .. k
          BY <1>1, <1>3, <2>3
        <5>2. GlobMatch(q.glob, path, 0, k, TRUE)
          BY <2>4, <4>2 DEF GlobMatch, Fits
        <5>. QED
          BY <2>6, <3>2, <4>2, <5>1, <5>2 DEF FromAbove
      <4>. QED
        BY <4>1, <4>2
    <3>. QED
      BY <2>4, <3>2, <3>3 DEF Reaches
  <2>. QED
    BY <2>5, <2>6
<1>. QED
  BY <1>5, <1>6

\* Whatever a pattern reaches, the matcher asks about: a pattern of one name
\* at that name, another one at the last of the names.
LEMMA ReachedIs ==
  ASSUME NEW q, IsPattern(q), NEW path \in Path,
         NEW n \in 1 .. Len(path), NEW k \in 1 .. n, Reaches(q, path, k, TRUE)
  PROVE  \E j \in 1 .. k : PatternMatches(q, Prefix(path, n), j, TRUE, TRUE)
<1>. DEFINE p == Prefix(path, n)
            glob == q.glob
<1>1. n \in 0 .. Len(path) /\ n \in Nat /\ Len(path) \in Nat /\ k \in Nat /\ k \in 1 .. Len(path)
      /\ k \in 0 .. n
  BY DEF Path
<1>2. p \in Path /\ Len(p) = n /\ \A i \in 1 .. n : p[i] = path[i]
  BY <1>1, PrefixIs
<1>3. q.scope \in Path /\ Len(q.scope) \in Nat /\ q.lo \in {0, Len(q.scope)}
  BY DEF IsPattern, Path
<1>4. Reaches(q, p, k, TRUE)
  BY <1>1, ReachesPrefix
<1>. HIDE DEF p
<1>5. CASE IsSingle(q)
  <2>1. LET g == q.glob
            seg == g.floats[1][1]
        IN  /\ Reaches(q, path, k, TRUE)
                 <=> /\ g.dirOnly => TRUE
                     /\ IF g.subtree
                        THEN \E s \in 1 .. k : path[s] \in seg /\ (s < k \/ TRUE)
                        ELSE path[k] \in seg
            /\ ~(g.subtree /\ g.dirOnly)
    BY <1>1, <1>5, SingleIs
  <2>2. PICK s \in 1 .. k : path[s] \in glob.floats[1][1]
    <3>1. k \in 1 .. k
      BY <1>1
    <3>. QED
      BY <2>1, <3>1
  <2>3. p[s] \in glob.floats[1][1]
    BY <1>1, <1>2, <2>2
  <2>4. PatternMatches(q, p, s, TRUE, TRUE)
    BY <1>5, <2>3 DEF PatternMatches
  <2>. QED
    BY <2>4 DEF p
<1>6. CASE ~IsSingle(q)
  <2>1. IsUnder(p, q.scope) /\ k > Len(q.scope) /\ GlobMatch(q.glob, p, q.lo, k, TRUE)
    BY <1>4 DEF Reaches
  <2>2. p # q.scope
    BY <1>1, <1>2, <1>3, <2>1
  <2>3. k > q.lo
    BY <1>1, <1>3, <2>1
  <2>4. PatternMatches(q, p, k, TRUE, TRUE)
    BY <1>6, <2>1, <2>2, <2>3 DEF PatternMatches
  <2>5. k \in 1 .. k
    BY <1>1
  <2>. QED
    BY <2>4, <2>5 DEF p
<1>. QED
  BY <1>5, <1>6

\* A pattern that reaches a file reaches a directory above it, or the matcher
\* asks it about the file's own name.
LEMMA FileReached ==
  ASSUME NEW q, IsPattern(q), NEW path \in Path, ~FromAbove(q, path), path # <<>>,
         Reaches(q, path, Len(path), FALSE)
  PROVE  \/ PatternMatches(q, path, Len(path), FALSE, FALSE)
         \/ Len(path) - 1 \in 1 .. Len(path) /\ Reaches(q, path, Len(path) - 1, TRUE)
<1>. DEFINE N == Len(path)
            glob == q.glob
<1>1. N \in Nat /\ N # 0 /\ N \in 1 .. N
  BY EmptySeq DEF Path
<1>2. q.scope \in Path /\ Len(q.scope) \in Nat /\ q.lo \in {0, Len(q.scope)}
  BY DEF IsPattern, Path
<1>3. IsUnder(path, q.scope) /\ N > Len(q.scope) /\ GlobMatch(glob, path, q.lo, N, FALSE)
  BY DEF Reaches
<1>4. PICK items \in Seq(Item), slash \in BOOLEAN : HasSegment(items) /\ glob = MakeGlob(items, slash)
  BY DEF IsPattern
<1>5. /\ glob.dirOnly = slash /\ glob.subtree \in BOOLEAN
      /\ glob.subtree => items[Len(items)] = GlobStar
  <2>1. PICK its \in Seq(Item) : \E g \in [0 .. Len(its) -> RunLists(Item)] :
            LET x == MakeGlob(items, slash)
            IN  /\ AllButStar(its, items) /\ RunsOn(g, its)
                /\ IsGlob(x, Item) /\ g[Len(its)] = <<x.head>> \o x.floats
                /\ x.dirOnly = slash
                /\ x.subtree <=> Len(its) # Len(items)
                /\ x.subtree => /\ Len(items) = Len(its) + 1
                                /\ items[Len(items)] = GlobStar
    BY MakeGlobIs
  <2>. QED
    BY <1>4, <2>1 DEF IsGlob
<1>6. ~slash
  BY <1>3, <1>5 DEF GlobMatch
<1>7. CASE ~glob.subtree
  <2>1. CASE IsSingle(q)
    <3>1. LET g == q.glob
              seg == g.floats[1][1]
          IN  /\ Reaches(q, path, N, FALSE)
                   <=> /\ g.dirOnly => FALSE
                       /\ IF g.subtree
                          THEN \E s \in 1 .. N : path[s] \in seg /\ (s < N \/ FALSE)
                          ELSE path[N] \in seg
              /\ ~(g.subtree /\ g.dirOnly)
      BY <1>1, <2>1, SingleIs
    <3>. QED
      BY <1>7, <2>1, <3>1 DEF PatternMatches
  <2>2. CASE ~IsSingle(q)
    <3>1. path # q.scope /\ N > q.lo
      BY <1>1, <1>2, <1>3
    <3>. QED
      BY <1>3, <1>7, <2>2, <3>1 DEF PatternMatches
  <2>. QED
    BY <2>1, <2>2
<1>8. CASE glob.subtree
  <2>. DEFINE lo == q.lo
              names == SubSeq(path, lo + 1, N)
              above == Prefix(names, Len(names) - 1)
  <2>1. lo \in Nat /\ lo < N
    BY <1>1, <1>2, <1>3
  <2>2. GlobMatch(glob, path, lo, N, FALSE) <=> (slash => FALSE) /\ Covers(items, names, FALSE)
    <3>1. lo <= N /\ N <= Len(path)
      BY <1>1, <2>1
    <3>. HIDE DEF lo, N
    <3>2. GlobMatch(MakeGlob(items, slash), path, lo, N, FALSE)
            <=> (slash => FALSE) /\ Covers(items, SubSeq(path, lo + 1, N), FALSE)
      BY <1>1, <1>4, <2>1, <3>1, GlobIs
    <3>. HIDE DEF glob
    <3>. QED
      BY <1>4, <3>2
  <2>3. Covers(items, names, FALSE)
    BY <1>3, <2>2
  <2>4. names \in Path /\ Len(names) = N - lo /\ \A i \in 1 .. N - lo : names[i] = path[lo + i]
    BY <1>1, <2>1, PartIs
  <2>. HIDE DEF names
  <2>5. Len(names) >= 2 /\ Covers(items, above, TRUE)
    BY <1>4, <1>5, <1>8, <2>3, <2>4, CoversAbove
  <2>6. N - 1 \in 1 .. N /\ lo <= N - 1 /\ N - 1 > lo /\ N - 1 \in Nat
    BY <1>1, <2>1, <2>4, <2>5
  <2>7. above = SubSeq(path, lo + 1, N - 1)
    <3>1. /\ SubSeq(path, lo + 1, N - 1) \in Path /\ Len(SubSeq(path, lo + 1, N - 1)) = N - 1 - lo
          /\ \A i \in 1 .. N - 1 - lo : SubSeq(path, lo + 1, N - 1)[i] = path[lo + i]
      <4>1. N - 1 \in Nat /\ lo <= N - 1 /\ N - 1 <= Len(path)
        BY <1>1, <2>6
      <4>. HIDE DEF N, lo
      <4>. QED
        BY <2>1, <4>1, PartIs
    <3>2. Len(names) - 1 \in 0 .. Len(names) /\ Len(names) - 1 = N - 1 - lo
      BY <1>1, <2>1, <2>4, <2>5
    <3>3. above \in Path /\ Len(above) = N - 1 - lo /\ \A i \in 1 .. N - 1 - lo : above[i] = names[i]
      BY <2>4, <3>2, PrefixIs
    <3>. HIDE DEF above
    <3>4. \A i \in 1 .. N - 1 - lo : names[i] = path[lo + i]
      BY <1>1, <2>1, <2>4
    <3>. QED
      BY <3>1, <3>3, <3>4, SeqEqual DEF Path
  <2>8. GlobMatch(glob, path, lo, N - 1, TRUE)
    <3>1. GlobMatch(glob, path, lo, N - 1, TRUE)
            <=> (slash => TRUE) /\ Covers(items, SubSeq(path, lo + 1, N - 1), TRUE)
      <4>1. N - 1 <= Len(path) /\ N - 1 \in Nat
        BY <1>1, <2>6
      <4>. HIDE DEF lo, N
      <4>2. \A n \in Nat : lo <= n /\ n <= Len(path)
              => (GlobMatch(MakeGlob(items, slash), path, lo, n, TRUE)
                    <=> (slash => TRUE) /\ Covers(items, SubSeq(path, lo + 1, n), TRUE))
        BY <1>4, <2>1, GlobIs
      <4>3. GlobMatch(MakeGlob(items, slash), path, lo, N - 1, TRUE)
              <=> (slash => TRUE) /\ Covers(items, SubSeq(path, lo + 1, N - 1), TRUE)
        BY <2>6, <4>1, <4>2
      <4>. HIDE DEF glob
      <4>. QED
        BY <1>4, <4>3
    <3>. QED
      BY <2>5, <2>7, <3>1
  <2>9. N - 1 > Len(q.scope)
    <3>1. CASE lo # 0
      BY <1>2, <2>6, <3>1
    <3>2. CASE lo = 0
      <4>. SUFFICES ASSUME N - 1 <= Len(q.scope) PROVE FALSE
        BY <1>1, <1>2
      <4>1. N - 1 \in 1 .. Len(q.scope)
        BY <1>1, <1>2, <2>6
      <4>2. q.scope # <<>>
        BY <4>1, <1>2, EmptySeq
      <4>. QED
        BY <1>3, <2>8, <3>2, <4>1, <4>2 DEF FromAbove
    <3>. QED
      BY <3>1, <3>2
  <2>. QED
    BY <1>3, <2>6, <2>8, <2>9 DEF Reaches
<1>. QED
  BY <1>5, <1>7, <1>8

\* A path that is neither an include nor the place of a folder rule is judged
\* by what is above it.
LEMMA FolderSame ==
  ASSUME NEW ids, NEW m, IsMatcher(m, ids), NEW path \in Path, path # <<>>, ~IsPoint(m, path)
  PROVE  /\ Folder(m, path) = Folder(m, Front(path))
         /\ \A k \in 1 .. Len(path) - 1 : FolderHit(m, path, k) = FolderHit(m, Front(path), k)
         /\ FolderHit(m, path, Len(path)) = None
<1>. DEFINE N == Len(path)
            u == Front(path)
            hits(p) == {k \in 1 .. Len(p) : FolderHit(m, p, k) # None}
            end == Max({0} \cup hits(u))
            over == Included(m, u, Max({1, end}))
<1>1. /\ N \in Nat /\ N >= 1 /\ u \in Path /\ Len(u) = N - 1 /\ u = Prefix(path, N - 1)
      /\ N - 1 \in 0 .. N /\ Prefix(path, N) = path
  BY FrontIs, PrefixIs, EmptySeq DEF Path
<1>2. \A k \in 0 .. N - 1 : Prefix(u, k) = Prefix(path, k)
  BY <1>1, PrefixIs
<1>3. path \notin m.includes /\ FoldersAt(m, path) = {}
  BY DEF IsPoint
<1>. HIDE DEF u
<1>4. ASSUME NEW k \in Nat, k # 0 PROVE Included(m, path, k) = Included(m, u, k)
  <2>1. ASSUME NEW j \in k .. N, Prefix(path, j) \in m.includes
        PROVE  j \in k .. N - 1 /\ Prefix(u, j) \in m.includes
    <3>1. j # N
      BY <1>1, <1>3, <2>1
    <3>2. j \in k .. N - 1 /\ j \in 0 .. N - 1
      BY <1>1, <3>1
    <3>. QED
      BY <1>2, <2>1, <3>2
  <2>2. ASSUME NEW j \in k .. N - 1, Prefix(u, j) \in m.includes
        PROVE  j \in k .. N /\ Prefix(path, j) \in m.includes
    <3>1. j \in k .. N /\ j \in 0 .. N - 1
      BY <1>1
    <3>. QED
      BY <1>2, <2>2, <3>1
  <2>3. /\ Included(m, path, k) = {j \in k .. N : Prefix(path, j) \in m.includes}
        /\ Included(m, u, k) = {j \in k .. N - 1 : Prefix(u, j) \in m.includes}
    BY <1>1 DEF Included
  <2>. QED
    BY <2>1, <2>2, <2>3
<1>5. ASSUME NEW k \in 1 .. N - 1 PROVE FolderHit(m, path, k) = FolderHit(m, u, k)
  <2>1. k \in Nat /\ k # 0 /\ k \in 0 .. N - 1
    BY <1>1
  <2>2. Included(m, path, k) = Included(m, u, k) /\ Prefix(u, k) = Prefix(path, k)
    BY <1>2, <1>4, <2>1
  <2>. QED
    BY <2>2 DEF FolderHit
<1>6. FolderHit(m, path, N) = None
  BY <1>1, <1>3 DEF FolderHit, LowestId
<1>7. hits(path) = hits(u)
  <2>1. \A k \in 1 .. N : FolderHit(m, path, k) # None => k \in 1 .. N - 1
    BY <1>1, <1>6
  <2>2. \A k \in 1 .. N - 1 : k \in 1 .. N
    BY <1>1
  <2>. QED
    BY <1>1, <1>5, <2>1, <2>2
<1>8. end \in 0 .. N - 1
  <2>1. {0} \cup hits(u) \in SUBSET (0 .. N - 1) /\ {0} \cup hits(u) # {}
    BY <1>1
  <2>2. N - 1 \in Nat
    BY <1>1
  <2>. HIDE DEF hits
  <2>. DEFINE T == {0} \cup hits(u)
  <2>3. T \in SUBSET (0 .. N - 1) /\ T # {} /\ end = Max(T)
    BY <2>1
  <2>. HIDE DEF T, end, N
  <2>4. Max(T) \in T
    BY <2>2, <2>3, MaxIsIn
  <2>. QED
    BY <2>3, <2>4
<1>. HIDE DEF end
<1>9. Max({1, end}) \in Nat /\ Max({1, end}) # 0
  <2>1. {1, end} \in SUBSET (0 .. N) /\ {1, end} # {}
    BY <1>1, <1>8
  <2>2. Max({1, end}) \in {1, end} /\ \A k \in {1, end} : k <= Max({1, end})
    BY <1>1, <2>1, MaxIsIn
  <2>. QED
    BY <1>8, <2>2
<1>10. Included(m, path, Max({1, end})) = over
  BY <1>4, <1>9
<1>11. over # {} => Prefix(path, Max(over)) = Prefix(u, Max(over))
  <2>1. over \in SUBSET (0 .. N - 1)
    BY <1>1, <1>9 DEF Included
  <2>2. N - 1 \in Nat
    BY <1>1
  <2>. HIDE DEF over, N
  <2>3. over # {} => Max(over) \in 0 .. N - 1
    BY <2>1, <2>2, MaxIsIn
  <2>. QED
    BY <1>2, <2>3 DEF N
<1>12. end # 0 => FolderHit(m, path, end) = FolderHit(m, u, end)
  <2>1. end # 0 => end \in 1 .. N - 1
    BY <1>8
  <2>. QED
    BY <1>5, <2>1
<1>13. FolderAt(m, path, end) = FolderAt(m, u, end)
  <2>. HIDE DEF over
  <2>1. Included(m, u, Max({1, end})) = over
    BY DEF over
  <2>. QED
    BY <1>10, <1>11, <1>12, <2>1 DEF FolderAt
<1>14. Folder(m, path) = FolderAt(m, path, end) /\ Folder(m, u) = FolderAt(m, u, end)
  BY <1>7 DEF Folder, end
<1>. QED
  BY <1>5, <1>6, <1>13, <1>14 DEF u

\* It reaches the directory k deep on the way to the path, or one above it.
Met(q, path, k) == \E j \in 1 .. k : Reaches(q, path, j, TRUE)

\* No pattern of the matcher covers its own scope from above the path.
NoneFromAbove(m, path) ==
    \A q \in m.patterns : IsPattern(q) /\ ~FromAbove(q, path)

\* What is asked of a directory about a pattern, one depth after another, is
\* whether it or a directory above is reached.
LEMMA MetIs ==
  ASSUME NEW q, IsPattern(q), NEW path \in Path, ~FromAbove(q, path), NEW k \in 1 .. Len(path)
  PROVE  Met(q, path, k) <=> \E j \in 1 .. k : PatternMatches(q, Prefix(path, k), j, TRUE, TRUE)
<1>1. \A j \in 1 .. k : PatternMatches(q, Prefix(path, k), j, TRUE, TRUE) => Reaches(q, path, j, TRUE)
  BY AskedIs
<1>2. ASSUME NEW j \in 1 .. k, Reaches(q, path, j, TRUE)
      PROVE  \E i \in 1 .. k : PatternMatches(q, Prefix(path, k), i, TRUE, TRUE)
  <2>1. PICK i \in 1 .. j : PatternMatches(q, Prefix(path, k), i, TRUE, TRUE)
    BY <1>2, ReachedIs
  <2>2. i \in 1 .. k
    BY DEF Path
  <2>. QED
    BY <2>1, <2>2
<1>. QED
  BY <1>1, <1>2 DEF Met

\* A directory is judged by itself as it would be from the one above.
Clear(m, path, k) ==
    LET skip == Suppressed(m, Folder(m, Prefix(path, k)).include)
    IN  /\ \A n \in 1 .. k : FolderHit(m, Prefix(path, k), n) = None
        /\ \A q \in m.patterns : q.id \notin skip => ~Met(q, path, k)

LEMMA JudgeOfDirectory ==
  ASSUME NEW ids, NEW m, IsMatcher(m, ids), NEW path \in Path, NoneFromAbove(m, path),
         NEW k \in 0 .. Len(path)
  PROVE  Judge(m, Prefix(path, k), TRUE).hit = None <=> Clear(m, path, k)
<1>. DEFINE p == Prefix(path, k)
            skip == Suppressed(m, Folder(m, p).include)
            j == Judge(m, p, TRUE)
<1>1. p \in Path /\ Len(p) = k /\ k \in Nat
  BY PrefixIs DEF Path
<1>. HIDE DEF p
<1>2. /\ j.skip = skip
      /\ j.hit = None <=>
           /\ \A n \in 1 .. k : FolderHit(m, p, n) = None
           /\ \A n \in 1 .. k : Patterns(m, p, n, n < k \/ TRUE, j.skip, TRUE) = None
  BY <1>1, JudgeIs
<1>3. \A n \in 1 .. k : Patterns(m, p, n, n < k \/ TRUE, skip, TRUE) = None
                          <=> ~\E q \in m.patterns : q.id \notin skip
                                                     /\ PatternMatches(q, p, n, TRUE, TRUE)
  BY PatternsIs
<1>4. ASSUME NEW q \in m.patterns
      PROVE  Met(q, path, k) <=> \E n \in 1 .. k : PatternMatches(q, p, n, TRUE, TRUE)
  <2>1. CASE k = 0
    BY <2>1 DEF Met
  <2>2. CASE k # 0
    <3>1. k \in 1 .. Len(path)
      BY <1>1, <2>2
    <3>. QED
      BY <3>1, MetIs DEF NoneFromAbove, p
  <2>. QED
    BY <2>1, <2>2
<1>. HIDE DEF j, skip
<1>5. j.hit = None <=> /\ \A n \in 1 .. k : FolderHit(m, p, n) = None
                       /\ \A q \in m.patterns : q.id \notin skip => ~Met(q, path, k)
  BY <1>2, <1>3, <1>4
<1>. QED
  BY <1>5 DEF Clear, j, skip, p

\* However the verdict on a directory was come by, it says what the directory
\* asked by itself would: the memory of verdicts changes nothing.
LEMMA JudgedClear ==
  ASSUME NEW ids, NEW m, IsMatcher(m, ids), NEW dir \in Path, NoneFromAbove(m, dir)
  PROVE  /\ Judged(m, dir).hit = None <=> Judge(m, dir, TRUE).hit = None
         /\ Judged(m, dir).skip = Suppressed(m, Folder(m, dir).include)
<1>. DEFINE N == Len(dir)
            At(k) == Prefix(dir, k)
            skip(k) == Suppressed(m, Folder(m, At(k)).include)
<1>1. PICK h \in [0 .. N -> Judgements(ids)] : Descends(h, m, dir) /\ Judged(m, dir) = h[N]
  BY JudgedIs
<1>2. N \in Nat /\ At(N) = dir
  BY PrefixIs DEF Path
<1>3. \A k \in 0 .. N : h[k] = IF k = 0 \/ IsPoint(m, At(k)) THEN Judge(m, At(k), TRUE)
                               ELSE Inherit(m, dir, h[k - 1], k)
  BY <1>1 DEF Descends
<1>4. \A k \in 0 .. N : Judge(m, At(k), TRUE).skip = skip(k)
  <2>. TAKE k \in 0 .. N
  <2>1. At(k) \in Path
    BY PrefixIs
  <2>. QED
    BY <2>1, JudgeIs
<1>. DEFINE Right(k) == (h[k].hit = None <=> Clear(m, dir, k)) /\ h[k].skip = skip(k)
<1>5. \A k \in 0 .. N : k = 0 \/ IsPoint(m, At(k)) => Right(k)
  BY <1>3, <1>4, JudgeOfDirectory
<1>6. ASSUME NEW k \in 1 .. N, Right(k - 1), ~IsPoint(m, At(k)) PROVE Right(k)
  <2>1. k \in 0 .. N /\ k - 1 \in 0 .. N /\ k # 0 /\ k \in Nat /\ k - 1 \in 0 .. k
    BY <1>2
  <2>2. h[k] = Inherit(m, dir, h[k - 1], k) /\ h[k - 1] \in Judgements(ids)
    BY <1>3, <1>6, <2>1
  <2>3. /\ At(k) \in Path /\ Len(At(k)) = k /\ At(k) # <<>> /\ Prefix(At(k), k - 1) = At(k - 1)
    BY <2>1, PrefixIs
  <2>4. Front(At(k)) = At(k - 1)
    BY <2>3, FrontIs
  <2>5. /\ Folder(m, At(k)) = Folder(m, At(k - 1))
        /\ \A n \in 1 .. k - 1 : FolderHit(m, At(k), n) = FolderHit(m, At(k - 1), n)
        /\ FolderHit(m, At(k), k) = None
    BY <1>6, <2>3, <2>4, FolderSame
  <2>. DEFINE j == h[k - 1]
  <2>6. /\ h[k].skip = j.skip
        /\ h[k].hit = None <=> j.hit = None /\ Patterns(m, At(k), k, TRUE, j.skip, TRUE) = None
    <3>. HIDE DEF At
    <3>1. Inherit(m, dir, j, k).skip = j.skip
          /\ (Inherit(m, dir, j, k).hit = None
               <=> /\ j.hit = None
                   /\ Patterns(m, Prefix(dir, k), k, TRUE, j.skip, TRUE) = None)
      <4>. HIDE DEF j
      <4>1. j \in Judgements(ids)
        BY <2>2 DEF j
      <4>2. LET i == Inherit(m, dir, j, k)
            IN  /\ i \in Judgements(ids) /\ i.skip = j.skip
                /\ i.hit = None <=> /\ j.hit = None
                                    /\ Patterns(m, Prefix(dir, k), k, TRUE, j.skip, TRUE) = None
        BY <2>1, <4>1, InheritIs
      <4>. QED
        BY <4>2
    <3>. QED
      BY <2>2, <3>1 DEF At
  <2>7. j.skip = skip(k - 1) /\ skip(k) = skip(k - 1) /\ (j.hit = None <=> Clear(m, dir, k - 1))
    BY <1>6, <2>5
  <2>8. Patterns(m, At(k), k, TRUE, skip(k), TRUE) = None
          <=> ~\E q \in m.patterns : q.id \notin skip(k) /\ PatternMatches(q, At(k), k, TRUE, TRUE)
    BY PatternsIs
  <2>9. ASSUME NEW q \in m.patterns
        PROVE  Met(q, dir, k) <=> Met(q, dir, k - 1) \/ PatternMatches(q, At(k), k, TRUE, TRUE)
    <3>1. IsPattern(q) /\ ~FromAbove(q, dir)
      BY DEF NoneFromAbove
    <3>2. Met(q, dir, k) <=> Met(q, dir, k - 1) \/ Reaches(q, dir, k, TRUE)
      <4>1. 1 .. k = (1 .. k - 1) \cup {k}
        BY <2>1
      <4>. QED
        BY <4>1 DEF Met
    <3>3. Met(q, dir, k) <=> \E i \in 1 .. k : PatternMatches(q, At(k), i, TRUE, TRUE)
      BY <3>1, MetIs
    <3>4. PatternMatches(q, At(k), k, TRUE, TRUE) => Met(q, dir, k)
      <4>1. k \in 1 .. k
        BY <2>1
      <4>. QED
        BY <3>3, <4>1
    <3>5. ASSUME Reaches(q, dir, k, TRUE)
          PROVE  Met(q, dir, k - 1) \/ PatternMatches(q, At(k), k, TRUE, TRUE)
      <4>1. k \in 1 .. k
        BY <2>1
      <4>2. PICK i \in 1 .. k : PatternMatches(q, At(k), i, TRUE, TRUE)
        BY <3>1, <3>5, <4>1, ReachedIs
      <4>3. Reaches(q, dir, i, TRUE)
        BY <3>1, <4>2, AskedIs
      <4>4. i = k \/ i \in 1 .. k - 1
        BY <2>1
      <4>. QED
        BY <4>2, <4>3, <4>4 DEF Met
    <3>. QED
      BY <3>2, <3>4, <3>5
  <2>10. Clear(m, dir, k) <=> Clear(m, dir, k - 1)
                              /\ Patterns(m, At(k), k, TRUE, skip(k), TRUE) = None
    <3>1. (\A n \in 1 .. k : FolderHit(m, At(k), n) = None)
            <=> \A n \in 1 .. k - 1 : FolderHit(m, At(k - 1), n) = None
      <4>1. 1 .. k = (1 .. k - 1) \cup {k}
        BY <2>1
      <4>. QED
        BY <2>5, <4>1
    <3>2. (\A q \in m.patterns : q.id \notin skip(k) => ~Met(q, dir, k))
            <=> /\ \A q \in m.patterns : q.id \notin skip(k - 1) => ~Met(q, dir, k - 1)
                /\ Patterns(m, At(k), k, TRUE, skip(k), TRUE) = None
      <4>1. skip(k) = skip(k - 1)
        BY <2>7
      <4>. HIDE DEF skip
      <4>. QED
        BY <2>8, <2>9, <4>1
    <3>3. /\ Clear(m, dir, k) <=>
                /\ \A n \in 1 .. k : FolderHit(m, At(k), n) = None
                /\ \A q \in m.patterns : q.id \notin skip(k) => ~Met(q, dir, k)
          /\ Clear(m, dir, k - 1) <=>
                /\ \A n \in 1 .. k - 1 : FolderHit(m, At(k - 1), n) = None
                /\ \A q \in m.patterns : q.id \notin skip(k - 1) => ~Met(q, dir, k - 1)
      BY DEF Clear
    <3>. QED
      BY <3>1, <3>2, <3>3
  <2>. HIDE DEF skip, At
  <2>. QED
    BY <2>6, <2>7, <2>10
<1>. HIDE DEF Right
<1>. DEFINE T == {k \in Nat : k <= N => Right(k)}
<1>7. 0 \in T
  BY <1>2, <1>5
<1>8. ASSUME NEW k \in Nat, k \in T PROVE k + 1 \in T
  <2>. SUFFICES ASSUME k + 1 <= N PROVE Right(k + 1)
    OBVIOUS
  <2>1. k + 1 \in 1 .. N /\ k + 1 \in 0 .. N /\ (k + 1) - 1 = k /\ k <= N
    BY <1>2
  <2>2. Right((k + 1) - 1)
    BY <1>8, <2>1
  <2>. QED
    BY <1>5, <1>6, <2>1, <2>2
<1>9. Nat \subseteq T
  <2>. HIDE DEF T
  <2>. QED
    BY <1>7, <1>8, SetInduction
<1>10. Right(N)
  BY <1>2, <1>9
<1>11. Judge(m, At(N), TRUE).hit = None <=> Clear(m, dir, N)
  <2>1. N \in 0 .. N
    BY <1>2
  <2>. QED
    BY <2>1, JudgeOfDirectory
<1>. QED
  BY <1>1, <1>2, <1>10, <1>11 DEF Right

\* A pattern keeps a file out when it reaches it or a directory above it.
Caught(q, path) == \E k \in 1 .. Len(path) : Reaches(q, path, k, k < Len(path))

LEMMA CaughtIs ==
  ASSUME NEW q, IsPattern(q), NEW path \in Path, ~FromAbove(q, path), path # <<>>
  PROVE  /\ Caught(q, path) <=> \/ Met(q, path, Len(path) - 1)
                                \/ PatternMatches(q, path, Len(path), FALSE, FALSE)
         /\ Caught(q, path) <=> \E k \in 1 .. Len(path) :
                                    PatternMatches(q, path, k, k < Len(path), TRUE)
<1>. DEFINE N == Len(path)
<1>1. N \in Nat /\ N \in 1 .. N /\ (N < N) = FALSE /\ Prefix(path, N) = path
  BY PrefixIs, EmptySeq DEF Path
<1>2. \A k \in 1 .. N - 1 : k \in 1 .. N /\ (k < N) = TRUE
  BY <1>1
<1>3. \A k \in 1 .. N : k \in 1 .. N - 1 \/ k = N
  BY <1>1
<1>4. Caught(q, path) <=> Met(q, path, N - 1) \/ Reaches(q, path, N, FALSE)
  BY <1>1, <1>2, <1>3 DEF Caught, Met
<1>5. ASSUME NEW k \in 1 .. N, NEW isDir \in BOOLEAN, NEW subtrees \in BOOLEAN,
             PatternMatches(q, path, k, isDir, subtrees)
      PROVE  Reaches(q, path, k, isDir)
  <2>1. PatternMatches(q, Prefix(path, N), k, isDir, subtrees)
    BY <1>1, <1>5
  <2>. QED
    BY <1>1, <2>1, AskedIs
<1>6. PatternMatches(q, path, N, FALSE, FALSE) => PatternMatches(q, path, N, FALSE, TRUE)
  BY DEF PatternMatches
<1>7. ASSUME Reaches(q, path, N, FALSE)
      PROVE  PatternMatches(q, path, N, FALSE, FALSE) \/ Met(q, path, N - 1)
  <2>1. \/ PatternMatches(q, path, Len(path), FALSE, FALSE)
        \/ Len(path) - 1 \in 1 .. Len(path) /\ Reaches(q, path, Len(path) - 1, TRUE)
    BY <1>7, FileReached
  <2>2. N - 1 \in 1 .. N => N - 1 \in 1 .. N - 1
    BY <1>1
  <2>. QED
    BY <2>1, <2>2 DEF Met
<1>8. ASSUME Met(q, path, N - 1)
      PROVE  \E k \in 1 .. N : PatternMatches(q, path, k, k < N, TRUE)
  <2>1. PICK k \in 1 .. N - 1 : Reaches(q, path, k, TRUE)
    BY <1>8 DEF Met
  <2>2. k \in 1 .. N
    BY <1>2
  <2>3. PICK j \in 1 .. k : PatternMatches(q, Prefix(path, N), j, TRUE, TRUE)
    BY <1>1, <2>1, <2>2, ReachedIs
  <2>4. j \in 1 .. N - 1
    BY <1>1
  <2>. QED
    BY <1>1, <1>2, <2>3, <2>4
<1>9. ASSUME NEW k \in 1 .. N, PatternMatches(q, path, k, k < N, TRUE) PROVE Caught(q, path)
  <2>1. (k < N) \in BOOLEAN
    BY <1>1
  <2>2. Reaches(q, path, k, k < N)
    BY <1>5, <1>9, <2>1
  <2>. QED
    BY <2>2 DEF Caught
<1>10. PatternMatches(q, path, N, FALSE, FALSE) => Reaches(q, path, N, FALSE)
  BY <1>1, <1>5
<1>11. Caught(q, path) => \E k \in 1 .. N : PatternMatches(q, path, k, k < N, TRUE)
  <2>1. PatternMatches(q, path, N, FALSE, TRUE)
           => \E k \in 1 .. N : PatternMatches(q, path, k, k < N, TRUE)
    BY <1>1
  <2>. QED
    BY <1>4, <1>6, <1>7, <1>8, <2>1
<1>. QED
  BY <1>4, <1>7, <1>9, <1>10, <1>11

\* The matcher lets a file through when no file rule names it, no folder rule
\* hits on the way up and no pattern but the suppressed ones reaches it.
LEMMA MatchMeans ==
  ASSUME NEW ids, NEW m, IsMatcher(m, ids), NEW path \in Path, path # <<>>,
         NoneFromAbove(m, path)
  PROVE  Match(m, path, FALSE) = None <=>
            /\ \A g \in m.files : g.path # path
            /\ \A k \in 1 .. Len(path) : FolderHit(m, path, k) = None
            /\ \A q \in m.patterns :
                  q.id \notin Suppressed(m, Folder(m, path).include) => ~Caught(q, path)
<1>. DEFINE N == Len(path)
            u == Front(path)
            j == Judged(m, u)
            exact == {f.id : f \in {g \in m.files : g.path = path}}
            skip == Suppressed(m, Folder(m, path).include)
            hitless == \A k \in 1 .. N : FolderHit(m, path, k) = None
            free == \A q \in m.patterns : q.id \notin skip => ~Caught(q, path)
<1>1. /\ u # path /\ N \in 1 .. N /\ N \in Nat /\ u \in Path /\ Len(u) = N - 1
      /\ u = Prefix(path, N - 1) /\ N - 1 \in 0 .. N /\ Prefix(path, N) = path
  BY FrontIs, PrefixIs DEF Path
<1>2. Match(m, path, FALSE) = IF exact # {} THEN Min(exact)
        ELSE IF IsPoint(m, path) THEN Judge(m, path, FALSE).hit
        ELSE IF j.hit # None THEN j.hit
        ELSE Patterns(m, path, N, FALSE, j.skip, FALSE)
  BY <1>1 DEF Match, MatchUnder, MatchBy, MatchFile
<1>3. exact # {} => Min(exact) # None
  <2>1. exact \subseteq ids /\ ids \subseteq Nat
    BY DEF IsMatcher
  <2>. HIDE DEF exact
  <2>2. exact # {} => Min(exact) \in exact
    BY <2>1, MinIsIn
  <2>. QED
    BY <2>1, <2>2, BookAssumption
<1>4. exact = {} <=> \A g \in m.files : g.path # path
  OBVIOUS
<1>5. \A q \in m.patterns : IsPattern(q) /\ ~FromAbove(q, path)
  BY DEF NoneFromAbove
<1>6. Judge(m, path, FALSE).hit = None <=> hitless /\ free
  <2>. DEFINE r == Judge(m, path, FALSE)
  <2>1. /\ r.skip = skip
        /\ r.hit = None <=>
             /\ \A k \in 1 .. N : FolderHit(m, path, k) = None
             /\ \A k \in 1 .. N : Patterns(m, path, k, k < N \/ FALSE, r.skip, TRUE) = None
    BY JudgeIs
  <2>2. \A k \in 1 .. N : Patterns(m, path, k, k < N, skip, TRUE) = None
                            <=> ~\E q \in m.patterns : q.id \notin skip
                                                       /\ PatternMatches(q, path, k, k < N, TRUE)
    BY PatternsIs
  <2>3. \A q \in m.patterns :
            Caught(q, path) <=> \E k \in 1 .. N : PatternMatches(q, path, k, k < N, TRUE)
    BY <1>5, CaughtIs
  <2>. HIDE DEF r, skip
  <2>4. \A k \in 1 .. N : Patterns(m, path, k, k < N \/ FALSE, r.skip, TRUE)
                            = Patterns(m, path, k, k < N, skip, TRUE)
    <3>. TAKE k \in 1 .. N
    <3>1. (k < N \/ FALSE) = (k < N)
      BY <1>1
    <3>. QED
      BY <2>1, <3>1
  <2>5. (\A k \in 1 .. N : Patterns(m, path, k, k < N \/ FALSE, r.skip, TRUE) = None)
           <=> \A k \in 1 .. N : Patterns(m, path, k, k < N, skip, TRUE) = None
    BY <2>4
  <2>6. (\A k \in 1 .. N : Patterns(m, path, k, k < N, skip, TRUE) = None) <=> free
    BY <2>2, <2>3
  <2>7. r.hit = None <=> hitless /\ free
    <3>. HIDE DEF free
    <3>. QED
      BY <2>1, <2>5, <2>6
  <2>. QED
    BY <2>7 DEF r
<1>7. ASSUME ~IsPoint(m, path)
      PROVE  (j.hit = None /\ Patterns(m, path, N, FALSE, j.skip, FALSE) = None) <=> hitless /\ free
  <2>1. NoneFromAbove(m, u)
    <3>. SUFFICES ASSUME NEW q \in m.patterns, FromAbove(q, u) PROVE FALSE
      BY <1>5 DEF NoneFromAbove
    <3>1. q.scope \in Path /\ q.scope # <<>> /\ q.lo = 0 /\ IsUnder(u, q.scope)
      BY <1>5 DEF FromAbove, IsPattern
    <3>2. Len(q.scope) \in 0 .. N - 1 /\ Prefix(u, Len(q.scope)) = q.scope
      BY <1>1, <3>1, UnderIs
    <3>3. Len(q.scope) \in 0 .. N /\ Prefix(path, Len(q.scope)) = q.scope
      BY <1>1, <3>2, PrefixIs
    <3>4. IsUnder(path, q.scope)
      BY <3>1, <3>3, UnderIs
    <3>5. PICK k \in 1 .. Len(q.scope) : GlobMatch(q.glob, u, 0, k, TRUE)
      BY DEF FromAbove
    <3>6. PICK items \in Seq(Item), slash \in BOOLEAN : q.glob = MakeGlob(items, slash)
      BY <1>5 DEF IsPattern
    <3>7. k \in 0 .. N - 1 /\ 0 \in 0 .. k
      BY <1>1, <3>2
    <3>8. GlobMatch(q.glob, path, 0, k, TRUE)
      <4>1. /\ N - 1 \in 0 .. Len(path) /\ k \in 0 .. N - 1 /\ 0 \in 0 .. k
            /\ GlobMatch(MakeGlob(items, slash), Prefix(path, N - 1), 0, k, TRUE)
        BY <1>1, <3>5, <3>6, <3>7
      <4>. HIDE DEF N
      <4>2. GlobMatch(MakeGlob(items, slash), path, 0, k, TRUE)
        BY <4>1, GlobPrefix
      <4>. QED
        BY <3>6, <4>2
    <3>. QED
      BY <1>5, <3>1, <3>4, <3>8 DEF FromAbove
  <2>2. /\ Judged(m, u).hit = None <=> Judge(m, u, TRUE).hit = None
        /\ j.skip = Suppressed(m, Folder(m, u).include)
    BY <1>1, <2>1, JudgedClear
  <2>3. Judge(m, u, TRUE).hit = None <=> Clear(m, path, N - 1)
    <3>1. NoneFromAbove(m, path)
      OBVIOUS
    <3>. QED
      BY <1>1, <3>1, JudgeOfDirectory
  <2>4. /\ Folder(m, path) = Folder(m, u)
        /\ \A k \in 1 .. N - 1 : FolderHit(m, path, k) = FolderHit(m, u, k)
        /\ FolderHit(m, path, N) = None
    BY <1>7, FolderSame
  <2>5. j.skip = skip
    BY <2>2, <2>4
  <2>6. hitless <=> \A k \in 1 .. N - 1 : FolderHit(m, u, k) = None
    <3>1. 1 .. N = (1 .. N - 1) \cup {N}
      BY <1>1
    <3>. QED
      BY <2>4, <3>1
  <2>7. Patterns(m, path, N, FALSE, skip, FALSE) = None
          <=> ~\E q \in m.patterns : q.id \notin skip /\ PatternMatches(q, path, N, FALSE, FALSE)
    BY PatternsIs
  <2>8. Clear(m, path, N - 1) <=> /\ \A n \in 1 .. N - 1 : FolderHit(m, u, n) = None
                                  /\ \A q \in m.patterns : q.id \notin skip => ~Met(q, path, N - 1)
    BY <1>1, <2>4 DEF Clear
  <2>9. \A q \in m.patterns : Caught(q, path) <=> \/ Met(q, path, N - 1)
                                                  \/ PatternMatches(q, path, N, FALSE, FALSE)
    BY <1>5, CaughtIs
  <2>. HIDE DEF skip, hitless, j
  <2>10. free <=> /\ \A q \in m.patterns : q.id \notin skip => ~Met(q, path, N - 1)
                  /\ Patterns(m, path, N, FALSE, skip, FALSE) = None
    BY <2>7, <2>9
  <2>11. j.hit = None <=> Clear(m, path, N - 1)
    BY <2>2, <2>3 DEF j
  <2>. HIDE DEF free
  <2>. QED
    BY <2>5, <2>6, <2>8, <2>10, <2>11
<1>8. ASSUME exact = {}, IsPoint(m, path) PROVE Match(m, path, FALSE) = None <=> hitless /\ free
  <2>1. Match(m, path, FALSE) = Judge(m, path, FALSE).hit
    BY <1>2, <1>8
  <2>. QED
    BY <1>6, <2>1
<1>9. ASSUME exact = {}, ~IsPoint(m, path) PROVE Match(m, path, FALSE) = None <=> hitless /\ free
  <2>. HIDE DEF exact, j, hitless, free
  <2>1. Match(m, path, FALSE) = IF j.hit # None THEN j.hit
                                ELSE Patterns(m, path, N, FALSE, j.skip, FALSE)
    BY <1>2, <1>9
  <2>. QED
    BY <1>7, <1>9, <2>1
<1>10. exact # {} => Match(m, path, FALSE) # None
  <2>. HIDE DEF exact
  <2>. QED
    BY <1>2, <1>3
<1>. HIDE DEF exact
<1>. QED
  BY <1>4, <1>8, <1>9, <1>10

\* ".." collapsed, a path is left.
LEMMA NormalSegsIs ==
  ASSUME NEW base \in Path, NEW items \in Seq(Names \cup {Up})
  PROVE  NormalSegs(base, items) \in Path
<1>. DEFINE N == Len(items)
            Step(out, item) == IF item # Up THEN Append(out, item)
                               ELSE IF out = <<>> THEN out ELSE Front(out)
            segs[i \in 0 .. N] == IF i = 0 THEN base ELSE Step(segs[i - 1], items[i])
            step == [x \in (1 .. N) \X Path |-> Step(x[2], items[x[1]])]
<1>1. N \in Nat /\ NormalSegs(base, items) = segs[N] /\ \A i \in 1 .. N : items[i] \in Names \cup {Up}
  BY DEF NormalSegs
<1>2. ASSUME NEW out \in Path, NEW item \in Names \cup {Up} PROVE Step(out, item) \in Path
  <2>1. item # Up => Append(out, item) \in Path
    BY DEF Path
  <2>2. out # <<>> => Front(out) \in Path
    BY FrontIs
  <2>. QED
    BY <2>1, <2>2
<1>3. step \in StepsOn(N, Path)
  <2>1. \A x \in (1 .. N) \X Path : Step(x[2], items[x[1]]) \in Path
    <3>. TAKE x \in (1 .. N) \X Path
    <3>1. x[2] \in Path /\ items[x[1]] \in Names \cup {Up}
      BY <1>1
    <3>. HIDE DEF Step
    <3>. QED
      BY <1>2, <3>1
  <2>. HIDE DEF Step
  <2>. QED
    BY <2>1 DEF StepsOn
<1>4. PICK g \in ValuesIn(N, Path) : Unrolls(g, N, base, step)
  <2>. HIDE DEF step, N
  <2>. QED
    BY <1>1, <1>3, Repeats
<1>5. g \in [0 .. N -> Path]
  BY <1>4 DEF ValuesIn
<1>6. \A k \in 0 .. N : g[k] = IF k = 0 THEN base ELSE Step(g[k - 1], items[k])
  <2>. TAKE k \in 0 .. N
  <2>1. g[k] = IF k = 0 THEN base ELSE step[<<k, g[k - 1]>>]
    <3>. HIDE DEF step, N
    <3>. QED
      BY <1>4 DEF Unrolls
  <2>2. k # 0 => k - 1 \in 0 .. N /\ k \in 1 .. N
    BY <1>1
  <2>. HIDE DEF N, Step
  <2>3. k # 0 => <<k, g[k - 1]>> \in (1 .. N) \X Path
    BY <1>5, <2>2
  <2>. QED
    BY <2>1, <2>3
<1>7. g = [k \in 0 .. N |-> IF k = 0 THEN base ELSE Step(g[k - 1], items[k])]
  <2>. HIDE DEF N, Step
  <2>. QED
    BY <1>5, <1>6
<1>8. segs = [k \in 0 .. N |-> IF k = 0 THEN base ELSE Step(segs[k - 1], items[k])]
  <2>1. \E h : h = [k \in 0 .. N |-> IF k = 0 THEN base ELSE Step(h[k - 1], items[k])]
    <3>. HIDE DEF Step
    <3>. QED
      BY <1>7
  <2>. HIDE DEF Step
  <2>. QED
    BY <2>1
<1>9. \A k \in 0 .. N : segs[k] = IF k = 0 THEN base ELSE Step(segs[k - 1], items[k])
  <2>. HIDE DEF segs, Step, N
  <2>. QED
    BY <1>8
<1>10. segs[0] \in Path
  BY <1>1, <1>9
<1>11. \A k \in 1 .. N : segs[k - 1] \in Path => segs[k] \in Path
  <2>. TAKE k \in 1 .. N
  <2>. HIDE DEF segs, Step
  <2>1. k \in 0 .. N /\ k # 0
    BY <1>1
  <2>. QED
    BY <1>1, <1>2, <1>9, <2>1
<1>. HIDE DEF segs
<1>12. \A k \in 0 .. N : segs[k] \in Path
  <2>. HIDE DEF N
  <2>. QED
    BY <1>1, <1>10, <1>11, StaysIn
<1>. QED
  BY <1>1, <1>12

\* A rule as the matcher takes it: its value accepted, its source a path.
LiveRule(r) ==
    /\ r.kind \in Kinds /\ r.root \in Path \cup {None}
    /\ r.kind = "pattern" => r.value \in PatternValues /\ PatternCode(r.value, Home) = "ok"
    /\ r.kind # "pattern" => r.value \in Value(Names) /\ PathCode(r.value, Home) = "ok"

LEMMA NormalizeIs ==
  ASSUME NEW v \in Value(Names) PROVE NormalizePath(v, Home) \in Path
<1>1. Home \in Path /\ <<>> \in Path
  BY MatcherAssumption, EmptySeq DEF Path
<1>2. v.items \in Seq(Names \cup {Up})
  BY DEF Value
<1>. QED
  BY <1>1, <1>2, NormalSegsIs DEF NormalizePath

\* A folder or file rule names a path that is not "/".
LEMMA RulePathIs ==
  ASSUME NEW r, LiveRule(r), r.kind # "pattern"
  PROVE  \A p \in RulePath(r) : p \in Path /\ p # <<>>
<1>. DEFINE path == NormalizePath(r.value, Home)
<1>1. path \in Path
  BY NormalizeIs DEF LiveRule
<1>2. path # <<>>
  <2>1. PathCode(r.value, Home) = "ok"
    BY DEF LiveRule
  <2>. QED
    BY <2>1 DEF PathCode
<1>. HIDE DEF path
<1>3. ASSUME NEW root \in Path, IsUnder(root, path) PROVE root # <<>>
  <2>1. Len(path) \in 0 .. Len(root) /\ Len(path) # 0
    BY <1>1, <1>2, <1>3, UnderIs, EmptySeq DEF Path
  <2>. QED
    BY <2>1, EmptySeq
<1>4. RulePath(r) = IF r.root = None \/ IsUnder(path, r.root) THEN {path}
                    ELSE IF r.kind = "file" \/ ~IsUnder(r.root, path) THEN {}
                    ELSE {r.root}
  BY DEF RulePath, path
<1>. QED
  BY <1>1, <1>2, <1>3, <1>4 DEF LiveRule

LEMMA CompiledIs ==
  ASSUME NEW r, LiveRule(r), r.kind = "pattern", NEW id, NEW gs
  PROVE  LET q == CompiledPattern(id, r, gs)
         IN  /\ IsPattern(q) /\ q.id = id /\ q.soft = IsSoft(r, gs)
             /\ q.scope = IF r.root = None THEN <<>> ELSE r.root
             /\ q.lo = IF r.value.home THEN 0 ELSE Len(q.scope)
             /\ q.glob = MakeGlob(AnchoredItems(r.value, Home), r.value.slash)
             /\ AnchoredItems(r.value, Home) \in Seq(Item) /\ r.value.slash \in BOOLEAN
<1>. DEFINE q == CompiledPattern(id, r, gs)
<1>1. /\ q.id = id /\ q.soft = IsSoft(r, gs)
      /\ q.scope = IF r.root = None THEN <<>> ELSE r.root
      /\ q.lo = IF r.value.home THEN 0 ELSE Len(q.scope)
      /\ q.glob = MakeGlob(AnchoredItems(r.value, Home), r.value.slash)
  BY DEF CompiledPattern
<1>. HIDE DEF q
<1>2. r.value \in PatternValues /\ PatternCode(r.value, Home) = "ok" /\ Home \in Path
  BY MatcherAssumption DEF LiveRule, Path
<1>3. AnchoredItems(r.value, Home) \in Seq(Item) /\ HasSegment(AnchoredItems(r.value, Home))
  BY <1>2, AnchoredIs
<1>4. r.value.slash \in BOOLEAN
  BY <1>2 DEF PatternValues, Value
<1>5. q.scope \in Path
  BY <1>1, EmptySeq DEF LiveRule, Path
<1>6. IsPattern(q)
  BY <1>1, <1>3, <1>4, <1>5 DEF IsPattern
<1>. QED
  BY <1>1, <1>3, <1>4, <1>6 DEF q

\* What the compiled pattern reaches is what the items cover.
LEMMA CoversIs ==
  ASSUME NEW r, LiveRule(r), r.kind = "pattern", NEW id, NEW gs,
         NEW path \in Path, NEW isDir \in BOOLEAN
  PROVE  PatternCovers(r.value, r.root, path, isDir)
            <=> \E k \in 1 .. Len(path) :
                    Reaches(CompiledPattern(id, r, gs), path, k, k < Len(path) \/ isDir)
<1>. DEFINE q == CompiledPattern(id, r, gs)
            scope == IF r.root = None THEN <<>> ELSE r.root
            from == IF r.value.home THEN 0 ELSE Len(scope)
            items == AnchoredItems(r.value, Home)
            slash == r.value.slash
            N == Len(path)
<1>1. /\ IsPattern(q) /\ q.scope = scope /\ q.lo = from /\ q.glob = MakeGlob(items, slash)
      /\ items \in Seq(Item) /\ slash \in BOOLEAN
  <2>1. LET x == CompiledPattern(id, r, gs)
        IN  /\ IsPattern(x) /\ x.id = id /\ x.soft = IsSoft(r, gs)
            /\ x.scope = IF r.root = None THEN <<>> ELSE r.root
            /\ x.lo = IF r.value.home THEN 0 ELSE Len(x.scope)
            /\ x.glob = MakeGlob(AnchoredItems(r.value, Home), r.value.slash)
            /\ AnchoredItems(r.value, Home) \in Seq(Item) /\ r.value.slash \in BOOLEAN
    BY CompiledIs
  <2>. QED
    BY <2>1
<1>2. PatternCovers(r.value, r.root, path, isDir)
        <=> /\ IsUnder(path, scope)
            /\ \E k \in Len(scope) + 1 .. N :
                  /\ slash => k < N \/ isDir
                  /\ Covers(items, SubSeq(path, from + 1, k), k < N \/ isDir)
  BY DEF PatternCovers
<1>. HIDE DEF q, scope, from, items, slash
<1>3. scope \in Path /\ Len(scope) \in Nat /\ from \in {0, Len(scope)} /\ N \in Nat
  BY <1>1 DEF IsPattern, Path, from
<1>4. ASSUME NEW k \in Nat, k > Len(scope), k <= N
      PROVE  GlobMatch(q.glob, path, q.lo, k, k < N \/ isDir)
                <=> /\ slash => k < N \/ isDir
                    /\ Covers(items, SubSeq(path, from + 1, k), k < N \/ isDir)
  <2>1. from \in Nat /\ from <= k /\ (k < N \/ isDir) \in BOOLEAN
    BY <1>3, <1>4
  <2>. DEFINE d == k < N \/ isDir
  <2>. HIDE DEF d
  <2>2. GlobMatch(MakeGlob(items, slash), path, from, k, d)
          <=> (slash => d) /\ Covers(items, SubSeq(path, from + 1, k), d)
    BY <1>1, <1>4, <2>1, GlobIs DEF d
  <2>. QED
    BY <1>1, <2>2 DEF d
<1>5. \A k \in Len(scope) + 1 .. N : k \in 1 .. N /\ k \in Nat /\ k > Len(scope) /\ k <= N
  BY <1>3
<1>6. \A k \in 1 .. N : k > Len(scope) => k \in Len(scope) + 1 .. N
  BY <1>3
<1>7. \A k \in 1 .. N : Reaches(q, path, k, k < N \/ isDir)
        <=> IsUnder(path, scope) /\ k > Len(scope) /\ GlobMatch(q.glob, path, q.lo, k, k < N \/ isDir)
  BY <1>1 DEF Reaches
<1>8. (\E k \in 1 .. N : Reaches(q, path, k, k < N \/ isDir))
        <=> /\ IsUnder(path, scope)
            /\ \E k \in Len(scope) + 1 .. N : GlobMatch(q.glob, path, q.lo, k, k < N \/ isDir)
  BY <1>5, <1>6, <1>7
<1>9. (\E k \in Len(scope) + 1 .. N : GlobMatch(q.glob, path, q.lo, k, k < N \/ isDir))
        <=> \E k \in Len(scope) + 1 .. N :
                /\ slash => k < N \/ isDir
                /\ Covers(items, SubSeq(path, from + 1, k), k < N \/ isDir)
  BY <1>4, <1>5
<1>. QED
  BY <1>2, <1>8, <1>9 DEF q

\* The matcher of live rules, groups and includes.
CompiledFrom(m, live, gs, inc) ==
    /\ DOMAIN live \subseteq Nat /\ inc \subseteq Path
    /\ \A id \in DOMAIN live : LiveRule(live[id])
    /\ m = Matcher(live, gs, inc, CompiledPatterns(live, gs))

OfKind(live, kind) == {id \in DOMAIN live : live[id].kind = kind}

LEMMA CompiledFromIs ==
  ASSUME NEW m, NEW live, NEW gs, NEW inc, CompiledFrom(m, live, gs, inc)
  PROVE  /\ IsMatcher(m, DOMAIN live) /\ m.includes = inc
         /\ m.patterns = {CompiledPattern(id, live[id], gs) : id \in OfKind(live, "pattern")}
         /\ m.folders = Places(live, gs, "folder") /\ m.files = Places(live, gs, "file")
         /\ \A i \in inc : m.suppress[i] = SuppressedAt(m.patterns, i)
         /\ \A q \in m.patterns : IsPattern(q)
<1>. DEFINE pats == CompiledPatterns(live, gs)
<1>1. m = [includes |-> inc, patterns |-> pats,
           folders  |-> Places(live, gs, "folder"), files |-> Places(live, gs, "file"),
           suppress |-> [i \in inc |-> SuppressedAt(pats, i)]]
  BY DEF CompiledFrom, Matcher
<1>2. pats = {CompiledPattern(id, live[id], gs) : id \in OfKind(live, "pattern")}
  BY DEF CompiledPatterns, OfKind
<1>3. \A kind : \A f \in Places(live, gs, kind) : f.id \in DOMAIN live
  BY DEF Places
<1>4. \A p \in pats : p.id \in DOMAIN live
  BY DEF CompiledPatterns, CompiledPattern
<1>. HIDE DEF pats
<1>5. \A i : SuppressedAt(pats, i) \subseteq DOMAIN live
  BY <1>4 DEF SuppressedAt
<1>6. /\ m.includes = inc /\ m.patterns = pats
      /\ m.folders = Places(live, gs, "folder") /\ m.files = Places(live, gs, "file")
      /\ m.suppress = [i \in inc |-> SuppressedAt(pats, i)]
  BY <1>1
<1>7. IsMatcher(m, DOMAIN live)
  BY <1>3, <1>4, <1>5, <1>6 DEF IsMatcher, CompiledFrom
<1>8. \A id \in OfKind(live, "pattern") : IsPattern(CompiledPattern(id, live[id], gs))
  <2>. TAKE id \in OfKind(live, "pattern")
  <2>1. LiveRule(live[id]) /\ live[id].kind = "pattern"
    BY DEF OfKind, CompiledFrom
  <2>. QED
    BY <2>1, CompiledIs
<1>. QED
  BY <1>2, <1>6, <1>7, <1>8

\* The includes above a path, and the deepest of them.
Over(inc, path) == {i \in inc : IsUnder(path, i)}
Deepest(inc, path) == {i \in Over(inc, path) : \A j \in Over(inc, path) : Len(j) <= Len(i)}

\* No include is at or beneath the place of a folder rule.
LEMMA IncludedIs ==
  ASSUME NEW m, NEW inc, m.includes = inc, inc \subseteq Path,
         NEW path \in Path, NEW k \in 1 .. Len(path)
  PROVE  Included(m, path, k) = {} <=> \A i \in Over(inc, path) : ~IsUnder(i, Prefix(path, k))
<1>. DEFINE N == Len(path)
            p == Prefix(path, k)
<1>1. N \in Nat /\ k \in Nat /\ k \in 0 .. N /\ p \in Path /\ Len(p) = k
  BY PrefixIs DEF Path
<1>. HIDE DEF p
<1>2. ASSUME NEW i \in Over(inc, path), IsUnder(i, p) PROVE Included(m, path, k) # {}
  <2>1. i \in inc /\ i \in Path /\ IsUnder(path, i)
    BY <1>2 DEF Over
  <2>2. Len(i) \in 0 .. N /\ Prefix(path, Len(i)) = i
    BY <2>1, UnderIs
  <2>3. k \in 0 .. Len(i)
    BY <1>1, <1>2, <2>1, UnderIs
  <2>4. Len(i) \in k .. N
    BY <1>1, <2>2, <2>3
  <2>. QED
    BY <2>1, <2>2, <2>4 DEF Included
<1>3. ASSUME NEW j \in Included(m, path, k)
      PROVE  Prefix(path, j) \in Over(inc, path) /\ IsUnder(Prefix(path, j), p)
  <2>. DEFINE i == Prefix(path, j)
  <2>1. j \in k .. N /\ i \in inc
    BY DEF Included
  <2>2. j \in 0 .. N /\ k \in 0 .. j
    BY <1>1, <2>1
  <2>3. i \in Path /\ Len(i) = j /\ IsUnder(path, i) /\ Prefix(i, k) = p
    BY <2>2, PrefixIs, UnderIs DEF p
  <2>. HIDE DEF i
  <2>4. IsUnder(i, p)
    BY <1>1, <2>2, <2>3, UnderIs
  <2>. QED
    BY <2>1, <2>3, <2>4 DEF Over, i
<1>. QED
  BY <1>2, <1>3 DEF p

\* A folder rule hits somewhere on the way up when one keeps the path out.
Beneath(r, gs, inc, path) ==
    \E place \in RulePath(r) :
        /\ IsUnder(path, place)
        /\ IsSoft(r, gs) => \A i \in Over(inc, path) : ~IsUnder(i, place)

LEMMA FoldersMean ==
  ASSUME NEW m, NEW live, NEW gs, NEW inc, CompiledFrom(m, live, gs, inc), NEW path \in Path
  PROVE  (\E k \in 1 .. Len(path) : FolderHit(m, path, k) # None)
            <=> \E id \in OfKind(live, "folder") : Beneath(live[id], gs, inc, path)
<1>. DEFINE N == Len(path)
            T(k) == {f.id : f \in {g \in FoldersAt(m, Prefix(path, k)) :
                                      g.soft => Included(m, path, k) = {}}}
<1>1. /\ IsMatcher(m, DOMAIN live) /\ m.includes = inc /\ m.folders = Places(live, gs, "folder")
      /\ inc \subseteq Path
  BY CompiledFromIs DEF CompiledFrom
<1>2. ASSUME NEW k \in 1 .. N
      PROVE  FolderHit(m, path, k) # None
               <=> \E g \in m.folders : /\ g.path = Prefix(path, k)
                                        /\ g.soft => Included(m, path, k) = {}
  <2>1. T(k) \subseteq DOMAIN live /\ DOMAIN live \subseteq Nat
    BY <1>1 DEF IsMatcher, FoldersAt
  <2>2. T(k) # {} <=> \E g \in m.folders : /\ g.path = Prefix(path, k)
                                           /\ g.soft => Included(m, path, k) = {}
    BY DEF FoldersAt
  <2>3. FolderHit(m, path, k) = LowestId(T(k))
    BY DEF FolderHit
  <2>. HIDE DEF T
  <2>4. LowestId(T(k)) = None <=> T(k) = {}
    BY <2>1, LowestIs
  <2>. QED
    BY <2>2, <2>3, <2>4
<1>3. \A g : g \in m.folders <=> \E id \in OfKind(live, "folder") : \E place \in RulePath(live[id]) :
            g = [id |-> id, path |-> place, soft |-> IsSoft(live[id], gs), inode |-> live[id].inode]
  BY <1>1 DEF Places, OfKind
<1>4. \A k \in 1 .. N : Included(m, path, k) = {}
                           <=> \A i \in Over(inc, path) : ~IsUnder(i, Prefix(path, k))
  BY <1>1, IncludedIs
<1>5. ASSUME NEW k \in 1 .. N, FolderHit(m, path, k) # None
      PROVE  \E id \in OfKind(live, "folder") : Beneath(live[id], gs, inc, path)
  <2>1. PICK g \in m.folders : /\ g.path = Prefix(path, k)
                               /\ g.soft => Included(m, path, k) = {}
    BY <1>2, <1>5
  <2>2. PICK id \in OfKind(live, "folder") : \E place \in RulePath(live[id]) :
            g = [id |-> id, path |-> place, soft |-> IsSoft(live[id], gs), inode |-> live[id].inode]
    BY <1>3
  <2>3. Prefix(path, k) \in RulePath(live[id]) /\ g.soft = IsSoft(live[id], gs)
    BY <2>1, <2>2
  <2>4. k \in 0 .. N
    BY DEF Path
  <2>5. IsUnder(path, Prefix(path, k))
    BY <2>4, UnderIs, PrefixIs
  <2>6. IsSoft(live[id], gs) => \A i \in Over(inc, path) : ~IsUnder(i, Prefix(path, k))
    BY <1>4, <2>1, <2>3
  <2>. QED
    BY <2>3, <2>5, <2>6 DEF Beneath
<1>6. ASSUME NEW id \in OfKind(live, "folder"), Beneath(live[id], gs, inc, path)
      PROVE  \E k \in 1 .. N : FolderHit(m, path, k) # None
  <2>1. PICK place \in RulePath(live[id]) :
            /\ IsUnder(path, place)
            /\ IsSoft(live[id], gs) => \A i \in Over(inc, path) : ~IsUnder(i, place)
    BY <1>6 DEF Beneath
  <2>2. LiveRule(live[id]) /\ live[id].kind # "pattern"
    BY DEF OfKind, CompiledFrom
  <2>3. place \in Path /\ place # <<>>
    BY <2>2, RulePathIs
  <2>4. Len(place) \in 1 .. N /\ Prefix(path, Len(place)) = place
    <3>1. Len(place) \in 0 .. N /\ Prefix(path, Len(place)) = place
      BY <2>1, <2>3, UnderIs
    <3>2. Len(place) # 0
      BY <2>3, EmptySeq DEF Path
    <3>. QED
      BY <3>1, <3>2
  <2>. DEFINE g == [id |-> id, path |-> place, soft |-> IsSoft(live[id], gs),
                    inode |-> live[id].inode]
  <2>5. g \in m.folders
    BY <1>3
  <2>6. g.path = place /\ g.soft = IsSoft(live[id], gs)
    OBVIOUS
  <2>. HIDE DEF g
  <2>7. g.soft => Included(m, path, Len(place)) = {}
    BY <1>4, <2>1, <2>4, <2>6
  <2>. QED
    BY <1>2, <2>4, <2>5, <2>6, <2>7
<1>. QED
  BY <1>5, <1>6

\* A file rule names the path, or the inode of a file it once named.
NamedBy(live, path) == \E id \in OfKind(live, "file") : path \in RulePath(live[id])

KnownBy(live, inode) ==
    \E id \in OfKind(live, "file") : RulePath(live[id]) # {} /\ live[id].inode = inode

LEMMA FilesMean ==
  ASSUME NEW m, NEW live, NEW gs, NEW inc, CompiledFrom(m, live, gs, inc), NEW path \in Path,
         NEW inode \in Nat
  PROVE  /\ (\E g \in m.files : g.path = path) <=> NamedBy(live, path)
         /\ MatchInode(m, inode) # None <=> KnownBy(live, inode)
<1>. DEFINE T == {f.id : f \in {g \in m.files : g.inode # None /\ g.inode = inode}}
<1>1. IsMatcher(m, DOMAIN live) /\ m.files = Places(live, gs, "file")
  BY CompiledFromIs
<1>2. \A g : g \in m.files <=> \E id \in OfKind(live, "file") : \E place \in RulePath(live[id]) :
            g = [id |-> id, path |-> place, soft |-> IsSoft(live[id], gs), inode |-> live[id].inode]
  BY <1>1 DEF Places, OfKind
<1>3. T \subseteq DOMAIN live /\ DOMAIN live \subseteq Nat
  BY <1>1 DEF IsMatcher
<1>4. inode # None
  BY BookAssumption
<1>5. T # {} <=> \E g \in m.files : g.inode = inode
  BY <1>4
<1>. HIDE DEF T
<1>6. LowestId(T) = None <=> T = {}
  BY <1>3, LowestIs
<1>7. MatchInode(m, inode) = LowestId(T)
  BY DEF MatchInode, T
<1>. DEFINE Entry(id, place) == [id |-> id, path |-> place, soft |-> IsSoft(live[id], gs),
                                 inode |-> live[id].inode]
<1>8. \A id, place : Entry(id, place).path = place /\ Entry(id, place).inode = live[id].inode
  OBVIOUS
<1>9. \A g : g \in m.files <=> \E id \in OfKind(live, "file") : \E place \in RulePath(live[id]) :
            g = Entry(id, place)
  BY <1>2
<1>. HIDE DEF Entry
<1>10. (\E g \in m.files : g.inode = inode)
         <=> KnownBy(live, inode)
  <2>. USE DEF KnownBy
  <2>1. ASSUME NEW g \in m.files, g.inode = inode
        PROVE  \E id \in OfKind(live, "file") : RulePath(live[id]) # {} /\ live[id].inode = inode
    <3>1. PICK id \in OfKind(live, "file") : \E place \in RulePath(live[id]) : g = Entry(id, place)
      BY <1>9
    <3>2. RulePath(live[id]) # {} /\ live[id].inode = inode
      BY <1>8, <2>1, <3>1
    <3>. QED
      BY <3>2
  <2>2. ASSUME NEW id \in OfKind(live, "file"), RulePath(live[id]) # {}, live[id].inode = inode
        PROVE  \E g \in m.files : g.inode = inode
    <3>1. PICK place \in RulePath(live[id]) : TRUE
      BY <2>2
    <3>2. Entry(id, place) \in m.files
      BY <1>9, <3>1
    <3>. QED
      BY <1>8, <2>2, <3>2
  <2>. QED
    BY <2>1, <2>2
<1>11. (\E g \in m.files : g.path = path)
         <=> NamedBy(live, path)
  <2>. USE DEF NamedBy
  <2>1. ASSUME NEW g \in m.files, g.path = path
        PROVE  \E id \in OfKind(live, "file") : path \in RulePath(live[id])
    <3>1. PICK id \in OfKind(live, "file") : \E place \in RulePath(live[id]) : g = Entry(id, place)
      BY <1>9
    <3>2. path \in RulePath(live[id])
      BY <1>8, <2>1, <3>1
    <3>. QED
      BY <3>2
  <2>2. ASSUME NEW id \in OfKind(live, "file"), path \in RulePath(live[id])
        PROVE  \E g \in m.files : g.path = path
    <3>1. Entry(id, path) \in m.files
      BY <1>9, <2>2
    <3>. QED
      BY <1>8, <3>1
  <2>. QED
    BY <2>1, <2>2
<1>. QED
  BY <1>5, <1>6, <1>7, <1>10, <1>11

\* A soft pattern is suppressed at an include that it covers.
LEMMA SuppressedIs ==
  ASSUME NEW m, NEW live, NEW gs, NEW inc, CompiledFrom(m, live, gs, inc),
         NEW id \in OfKind(live, "pattern"), NEW i \in inc, NEW path \in Path, IsUnder(path, i),
         ~FromAbove(CompiledPattern(id, live[id], gs), path)
  PROVE  id \in m.suppress[i] <=> /\ IsSoft(live[id], gs)
                                  /\ PatternCovers(live[id].value, live[id].root, i, TRUE)
<1>. DEFINE q == CompiledPattern(id, live[id], gs)
            N == Len(i)
<1>1. /\ m.patterns = {CompiledPattern(x, live[x], gs) : x \in OfKind(live, "pattern")}
      /\ m.suppress[i] = SuppressedAt(m.patterns, i) /\ i \in Path
  BY CompiledFromIs DEF CompiledFrom
<1>2. LiveRule(live[id]) /\ live[id].kind = "pattern"
  BY DEF OfKind, CompiledFrom
<1>3. IsPattern(q) /\ q.id = id /\ q.soft = IsSoft(live[id], gs)
  BY <1>2, CompiledIs
<1>4. \A p \in m.patterns : p.id = id <=> p = q
  <2>1. \A x \in OfKind(live, "pattern") : CompiledPattern(x, live[x], gs).id = x
    BY DEF CompiledPattern
  <2>. QED
    BY <1>1, <2>1
<1>5. q \in m.patterns
  BY <1>1
<1>6. id \in m.suppress[i] <=> /\ q.soft /\ IsUnder(i, q.scope)
                               /\ HitsAlong(q.glob, i, q.lo, TRUE)
  <2>1. id \in m.suppress[i] <=> \E p \in m.patterns : /\ p.soft /\ IsUnder(i, p.scope)
                                                        /\ HitsAlong(p.glob, i, p.lo, TRUE)
                                                        /\ p.id = id
    BY <1>1 DEF SuppressedAt
  <2>. HIDE DEF q
  <2>. QED
    BY <1>4, <1>5, <2>1
<1>7. PatternCovers(live[id].value, live[id].root, i, TRUE)
        <=> \E k \in 1 .. N : Reaches(q, i, k, k < N \/ TRUE)
  BY <1>1, <1>2, CoversIs
<1>8. ~FromAbove(q, path)
  OBVIOUS
<1>. HIDE DEF q
<1>9. \A k : (k < N \/ TRUE) = TRUE
  OBVIOUS
<1>10. q.scope \in Path /\ Len(q.scope) \in Nat /\ q.lo \in {0, Len(q.scope)} /\ N \in Nat
  BY <1>1, <1>3 DEF IsPattern, Path
<1>11. HitsAlong(q.glob, i, q.lo, TRUE) <=> \E k \in q.lo + 1 .. N : GlobMatch(q.glob, i, q.lo, k, TRUE)
  BY <1>9 DEF HitsAlong
<1>12. ASSUME IsUnder(i, q.scope), NEW k \in q.lo + 1 .. N, GlobMatch(q.glob, i, q.lo, k, TRUE)
       PROVE  Reaches(q, i, k, TRUE) /\ k \in 1 .. N
  <2>1. k \in 1 .. N /\ k \in Nat
    BY <1>10
  <2>2. CASE q.lo = Len(q.scope)
    <3>1. k > Len(q.scope)
      BY <1>10, <2>2
    <3>. QED
      BY <1>12, <2>1, <3>1 DEF Reaches
  <2>3. CASE q.lo # Len(q.scope) /\ k > Len(q.scope)
    BY <1>12, <2>1, <2>3 DEF Reaches
  <2>4. CASE q.lo # Len(q.scope) /\ ~(k > Len(q.scope))
    <3>1. q.lo = 0 /\ Len(q.scope) # 0 /\ k \in 1 .. Len(q.scope)
      BY <1>10, <2>1, <2>4
    <3>2. q.scope # <<>>
      BY <1>10, <3>1, EmptySeq
    <3>3. Len(i) \in 0 .. Len(path) /\ Prefix(path, Len(i)) = i
      BY <1>1, UnderIs
    <3>4. Len(q.scope) \in 0 .. N /\ Prefix(i, Len(q.scope)) = q.scope
      BY <1>1, <1>10, <1>12, UnderIs
    <3>5. IsUnder(path, q.scope)
      <4>1. Len(path) \in Nat /\ Len(q.scope) \in 0 .. Len(path)
        BY <3>3, <3>4 DEF Path
      <4>2. Prefix(path, Len(q.scope)) = q.scope
        BY <3>3, <3>4, PrefixIs
      <4>. QED
        BY <1>10, <4>1, <4>2, UnderIs
    <3>6. GlobMatch(q.glob, path, 0, k, TRUE)
      <4>1. PICK items \in Seq(Item), slash \in BOOLEAN : q.glob = MakeGlob(items, slash)
        BY <1>3 DEF IsPattern
      <4>2. N \in 0 .. Len(path) /\ k \in 0 .. N /\ 0 \in 0 .. k
        BY <2>1, <3>3
      <4>3. GlobMatch(MakeGlob(items, slash), Prefix(path, N), 0, k, TRUE)
        BY <1>12, <3>1, <3>3, <4>1
      <4>. HIDE DEF N
      <4>. QED
        BY <4>1, <4>2, <4>3, GlobPrefix
    <3>. QED
      BY <1>8, <3>1, <3>2, <3>5, <3>6 DEF FromAbove
  <2>. QED
    BY <2>1, <2>2, <2>3, <2>4
<1>13. ASSUME NEW k \in 1 .. N, Reaches(q, i, k, TRUE)
       PROVE  IsUnder(i, q.scope) /\ k \in q.lo + 1 .. N /\ GlobMatch(q.glob, i, q.lo, k, TRUE)
  <2>1. IsUnder(i, q.scope) /\ k > Len(q.scope) /\ GlobMatch(q.glob, i, q.lo, k, TRUE)
    BY <1>13 DEF Reaches
  <2>2. \A l, s, x \in Nat : l \in {0, s} /\ x > s => x > l
    OBVIOUS
  <2>3. q.lo \in Nat /\ k \in Nat /\ k <= N
    BY <1>10
  <2>4. k > q.lo
    BY <1>10, <2>1, <2>2, <2>3
  <2>5. k \in q.lo + 1 .. N
    BY <1>10, <2>3, <2>4
  <2>. QED
    BY <2>1, <2>5
<1>14. PatternCovers(live[id].value, live[id].root, i, TRUE)
         <=> IsUnder(i, q.scope) /\ HitsAlong(q.glob, i, q.lo, TRUE)
  BY <1>7, <1>9, <1>11, <1>12, <1>13
<1>. QED
  BY <1>3, <1>6, <1>14

\* With no folder rule in the way, the suppressed patterns are the soft ones
\* that the deepest include above the path is covered by.
LEMMA SkipIs ==
  ASSUME NEW m, NEW live, NEW gs, NEW inc, CompiledFrom(m, live, gs, inc), NEW path \in Path,
         \A k \in 1 .. Len(path) : FolderHit(m, path, k) = None,
         NEW id \in OfKind(live, "pattern"), ~FromAbove(CompiledPattern(id, live[id], gs), path)
  PROVE  id \in Suppressed(m, Folder(m, path).include)
            <=> /\ IsSoft(live[id], gs)
                /\ \E i \in Deepest(inc, path) :
                      PatternCovers(live[id].value, live[id].root, i, TRUE)
<1>. DEFINE d == Folder(m, path)
            N == Len(path)
            over == Included(m, path, 1)
            rule == live[id]
<1>1. IsMatcher(m, DOMAIN live) /\ m.includes = inc /\ inc \subseteq Path /\ N \in Nat
  BY CompiledFromIs DEF CompiledFrom, Path
<1>2. /\ d.end \in 0 .. N
      /\ d.end # 0 => d.hit = FolderHit(m, path, d.end) /\ d.hit # None
      /\ Included(m, path, IF d.end = 0 THEN 1 ELSE d.end) = {} => d.include = {}
      /\ \A k \in Included(m, path, IF d.end = 0 THEN 1 ELSE d.end) :
            \E n \in k .. Len(path) :
               /\ Prefix(path, n) \in m.includes
               /\ d.include = {Prefix(path, n)}
               /\ \A j \in Included(m, path, IF d.end = 0 THEN 1 ELSE d.end) : j <= n
  <2>1. LET x == Folder(m, path)
        IN  /\ x.end \in 0 .. Len(path) /\ x.hit \in DOMAIN live \cup {None}
            /\ x.end # 0 => x.hit = FolderHit(m, path, x.end) /\ x.hit # None
            /\ x.end = 0 => x.hit = None
            /\ \A k \in 1 .. Len(path) : FolderHit(m, path, k) # None => k <= x.end
            /\ Included(m, path, IF x.end = 0 THEN 1 ELSE x.end) = {} => x.include = {}
            /\ \A k \in Included(m, path, IF x.end = 0 THEN 1 ELSE x.end) :
                   \E n \in k .. Len(path) :
                      /\ Prefix(path, n) \in m.includes
                      /\ x.include = {Prefix(path, n)}
                      /\ \A j \in Included(m, path, IF x.end = 0 THEN 1 ELSE x.end) : j <= n
            /\ x.include \subseteq m.includes
    BY <1>1, FolderIs
  <2>. QED
    BY <2>1
<1>. HIDE DEF d
<1>3. d.end = 0
  <2>1. d.end # 0 => d.end \in 1 .. N
    BY <1>2
  <2>. QED
    BY <1>2, <2>1
<1>4. /\ over = {} => d.include = {}
      /\ \A k \in over : \E n \in k .. N : /\ Prefix(path, n) \in inc
                                           /\ d.include = {Prefix(path, n)}
                                           /\ \A j \in over : j <= n
  BY <1>1, <1>2, <1>3
<1>5. \A i \in Over(inc, path) : /\ i \in Path /\ Len(i) \in 0 .. N /\ Prefix(path, Len(i)) = i
                                 /\ Len(i) # 0 => Len(i) \in over
  <2>. TAKE i \in Over(inc, path)
  <2>1. i \in Path /\ i \in inc /\ IsUnder(path, i)
    BY <1>1 DEF Over
  <2>2. Len(i) \in 0 .. N /\ Prefix(path, Len(i)) = i
    BY <2>1, UnderIs
  <2>. QED
    BY <1>1, <2>1, <2>2 DEF Included
<1>6. ASSUME NEW i \in Path, Len(i) = 0 PROVE ~PatternCovers(rule.value, rule.root, i, TRUE)
  <2>1. LiveRule(rule) /\ rule.kind = "pattern"
    BY DEF OfKind, CompiledFrom
  <2>2. PatternCovers(rule.value, rule.root, i, TRUE)
          <=> \E k \in 1 .. Len(i) : Reaches(CompiledPattern(id, rule, gs), i, k, k < Len(i) \/ TRUE)
    BY <2>1, CoversIs
  <2>3. 1 .. Len(i) = {}
    BY <1>6
  <2>. QED
    BY <2>2, <2>3
<1>7. CASE over = {}
  <2>1. Suppressed(m, d.include) = {}
    BY <1>4, <1>7 DEF Suppressed
  <2>2. \A i \in Deepest(inc, path) : i \in Path /\ Len(i) = 0
    BY <1>5, <1>7 DEF Deepest
  <2>. QED
    BY <1>6, <2>1, <2>2 DEF d
<1>8. CASE over # {}
  <2>1. PICK k \in over : TRUE
    BY <1>8
  <2>2. PICK n \in k .. N : /\ Prefix(path, n) \in inc
                            /\ d.include = {Prefix(path, n)}
                            /\ \A j \in over : j <= n
    BY <1>4, <2>1
  <2>. DEFINE i == Prefix(path, n)
  <2>3. n \in Nat /\ n \in 0 .. N
    <3>1. k \in 1 .. N
      BY DEF Included
    <3>. QED
      BY <1>1, <3>1
  <2>4. i \in Path /\ Len(i) = n /\ IsUnder(path, i) /\ i \in Over(inc, path)
    BY <2>2, <2>3, PrefixIs, UnderIs DEF Over
  <2>. HIDE DEF i
  <2>5. Deepest(inc, path) = {i}
    <3>1. ASSUME NEW j \in Over(inc, path) PROVE Len(j) <= n
      BY <1>5, <2>2, <2>3
    <3>2. ASSUME NEW j \in Deepest(inc, path) PROVE j = i
      <4>1. j \in Over(inc, path) /\ n <= Len(j)
        BY <2>4 DEF Deepest
      <4>2. Len(j) = n
        BY <1>5, <2>3, <3>1, <4>1
      <4>. QED
        BY <1>5, <4>1, <4>2 DEF i
    <3>3. i \in Deepest(inc, path)
      BY <2>4, <3>1 DEF Deepest
    <3>. QED
      BY <3>2, <3>3
  <2>6. Suppressed(m, d.include) = m.suppress[i]
    BY <2>2 DEF Suppressed, i
  <2>7. id \in m.suppress[i] <=> IsSoft(rule, gs) /\ PatternCovers(rule.value, rule.root, i, TRUE)
    <3>1. i \in inc
      BY <2>4 DEF Over
    <3>. QED
      BY <2>4, <3>1, SuppressedIs
  <2>. QED
    BY <2>5, <2>6, <2>7 DEF d
<1>. QED
  BY <1>7, <1>8

\* The matcher keeps an image out exactly when a rule does: the walk up to the
\* deepest rule and the deepest include, the exact files, the lookups by the
\* last name and the verdicts handed down decide what each rule says by itself.
THEOREM MatcherMeans ==
  ASSUME NEW m, NEW live, NEW gs, NEW inc, CompiledFrom(m, live, gs, inc),
         NEW path \in Path, path # <<>>, NEW inode \in Nat,
         \A id \in OfKind(live, "pattern") : ~FromAbove(CompiledPattern(id, live[id], gs), path)
  PROVE  (Match(m, path, FALSE) # None \/ MatchInode(m, inode) # None)
            <=> \E id \in DOMAIN live : KeepsOut(live[id], gs, inc, path, inode)
<1>. DEFINE N == Len(path)
            Named == \E id \in OfKind(live, "file") : path \in RulePath(live[id])
            Known == \E id \in OfKind(live, "file") : RulePath(live[id]) # {}
                                                      /\ live[id].inode = inode
            Held == \E id \in OfKind(live, "folder") : Beneath(live[id], gs, inc, path)
            Out(id) == /\ PatternCovers(live[id].value, live[id].root, path, FALSE)
                       /\ IsSoft(live[id], gs) => \A i \in Deepest(inc, path) :
                             ~PatternCovers(live[id].value, live[id].root, i, TRUE)
            skip == Suppressed(m, Folder(m, path).include)
<1>1. /\ IsMatcher(m, DOMAIN live) /\ m.includes = inc
      /\ m.patterns = {CompiledPattern(id, live[id], gs) : id \in OfKind(live, "pattern")}
      /\ \A q \in m.patterns : IsPattern(q)
  BY CompiledFromIs
<1>2. NoneFromAbove(m, path)
  BY <1>1 DEF NoneFromAbove
<1>3. Match(m, path, FALSE) = None <=>
         /\ \A g \in m.files : g.path # path
         /\ \A k \in 1 .. N : FolderHit(m, path, k) = None
         /\ \A q \in m.patterns : q.id \notin skip => ~Caught(q, path)
  BY <1>1, <1>2, MatchMeans
<1>4. /\ (\E g \in m.files : g.path = path) <=> Named
      /\ MatchInode(m, inode) # None <=> Known
  <2>1. /\ (\E g \in m.files : g.path = path) <=> NamedBy(live, path)
        /\ MatchInode(m, inode) # None <=> KnownBy(live, inode)
    BY FilesMean
  <2>. QED
    BY <2>1 DEF NamedBy, KnownBy
<1>5. (\E k \in 1 .. N : FolderHit(m, path, k) # None) <=> Held
  BY FoldersMean
<1>6. ASSUME \A k \in 1 .. N : FolderHit(m, path, k) = None
      PROVE  (\E q \in m.patterns : q.id \notin skip /\ Caught(q, path))
                <=> \E id \in OfKind(live, "pattern") : Out(id)
  <2>1. ASSUME NEW id \in OfKind(live, "pattern")
        PROVE  LET q == CompiledPattern(id, live[id], gs)
               IN  (q.id \notin skip /\ Caught(q, path)) <=> Out(id)
    <3>. DEFINE q == CompiledPattern(id, live[id], gs)
    <3>1. LiveRule(live[id]) /\ live[id].kind = "pattern" /\ q.id = id
      BY DEF OfKind, CompiledFrom, CompiledPattern
    <3>2. id \in skip <=> /\ IsSoft(live[id], gs)
                          /\ \E i \in Deepest(inc, path) :
                                PatternCovers(live[id].value, live[id].root, i, TRUE)
      BY <1>6, SkipIs
    <3>3. PatternCovers(live[id].value, live[id].root, path, FALSE)
            <=> \E k \in 1 .. N : Reaches(q, path, k, k < N \/ FALSE)
      BY <3>1, CoversIs
    <3>. HIDE DEF q, skip
    <3>4. Caught(q, path) <=> \E k \in 1 .. N : Reaches(q, path, k, k < N \/ FALSE)
      <4>1. \A k \in 1 .. N : (k < N \/ FALSE) = (k < N)
        BY DEF Path
      <4>. QED
        BY <4>1 DEF Caught
    <3>5. (q.id \notin skip /\ Caught(q, path)) <=> Out(id)
      BY <3>1, <3>2, <3>3, <3>4
    <3>. QED
      BY <3>5 DEF q
  <2>. HIDE DEF skip, Out
  <2>. QED
    BY <1>1, <2>1
<1>. DEFINE Holds(id) == KeepsOut(live[id], gs, inc, path, inode)
<1>7. /\ \A id \in OfKind(live, "file") :
            Holds(id) <=> \/ path \in RulePath(live[id])
                          \/ RulePath(live[id]) # {} /\ live[id].inode = inode
      /\ \A id \in OfKind(live, "folder") : Holds(id) <=> Beneath(live[id], gs, inc, path)
      /\ \A id \in OfKind(live, "pattern") : Holds(id) <=> Out(id)
  BY DEF KeepsOut, OfKind, Beneath, Over, Deepest
<1>8. DOMAIN live = OfKind(live, "file") \cup OfKind(live, "folder") \cup OfKind(live, "pattern")
  BY DEF OfKind, CompiledFrom, LiveRule, Kinds
<1>. HIDE DEF Holds, Out, skip
<1>9. (\E id \in DOMAIN live : Holds(id))
         <=> Named \/ Known \/ Held \/ \E id \in OfKind(live, "pattern") : Out(id)
  BY <1>7, <1>8
<1>10. (Match(m, path, FALSE) # None)
         <=> Named \/ Held \/ \E id \in OfKind(live, "pattern") : Out(id)
  <2>. HIDE DEF Named, Held
  <2>1. CASE \A k \in 1 .. N : FolderHit(m, path, k) = None
    BY <1>3, <1>4, <1>5, <1>6, <2>1
  <2>2. CASE ~\A k \in 1 .. N : FolderHit(m, path, k) = None
    BY <1>3, <1>5, <2>2
  <2>. QED
    BY <2>1, <2>2
<1>. QED
  BY <1>4, <1>9, <1>10 DEF Holds

-----------------------------------------------------------------------------
\* Seeding leaves nothing to seed.

\* The rule says, of no source, what a group wants said.
Says(r, text) == r.kind = text.kind /\ r.value = text.value /\ r.root = None

\* It belongs to the group, which is locked or not.
Settled(r, gid, locked) == r.builtin /\ r.group = gid /\ (locked => r.enabled)

\* The rules of a table when one has been seen to.
Takes(rs, new, gid, locked, wanted) ==
    /\ \A id \in DOMAIN new : Says(new[id], wanted) => Settled(new[id], gid, locked)
    /\ \A id \in DOMAIN new : ~Says(new[id], wanted) => id \in DOMAIN rs /\ new[id] = rs[id]
    /\ \A id \in DOMAIN rs : /\ id \in DOMAIN new /\ new[id].kind = rs[id].kind
                             /\ new[id].value = rs[id].value /\ new[id].root = rs[id].root
    /\ \E id \in DOMAIN new : Says(new[id], wanted)

\* The first i rules of the group are as they should be, and the table has no
\* other built-in rule of it.
SeededTo(rs, group, gid, i) ==
    /\ \A j \in 1 .. i : \A id \in DOMAIN rs :
          Says(rs[id], group.rules[j]) => Settled(rs[id], gid, group.locked)
    /\ \A j \in 1 .. i : \E id \in DOMAIN rs : Says(rs[id], group.rules[j])
    /\ \A id \in DOMAIN rs :
          rs[id].builtin /\ rs[id].group = gid
              => \E j \in DOMAIN group.rules : /\ rs[id].kind = group.rules[j].kind
                                               /\ rs[id].value = group.rules[j].value

LEMMA SeedRuleTakes ==
  ASSUME NEW G \in SUBSET Nat, NEW R \in SUBSET Nat, NEW rs \in Table(RulesOver(G, R)),
         NEW gid, NEW locked \in BOOLEAN, NEW wanted
  PROVE  Takes(rs, SeedRule(rs, gid, locked, wanted), gid, locked, wanted)
<1>. DEFINE same == {id \in DOMAIN rs : /\ rs[id].kind = wanted.kind
                                        /\ rs[id].value = wanted.value
                                        /\ rs[id].root = None}
            row == [kind |-> wanted.kind, value |-> wanted.value,
                    group |-> gid, root |-> None, inode |-> None,
                    enabled |-> TRUE, builtin |-> TRUE]
            over(id) == [rs[id] EXCEPT !.builtin = TRUE, !.group = gid, !.enabled = locked \/ @]
            taken == [id \in DOMAIN rs |-> IF id \in same THEN over(id) ELSE rs[id]]
<1>1. Bounded(DOMAIN rs) /\ rs \in [DOMAIN rs -> RulesOver(G, R)]
  BY TableIs
<1>2. SeedRule(rs, gid, locked, wanted) = IF same = {} THEN Insert(rs, row) ELSE taken
  BY DEF SeedRule
<1>3. CASE same = {}
  <2>. DEFINE new == Insert(rs, row)
              at == NextId(rs)
  <2>1. /\ at \notin DOMAIN rs /\ DOMAIN new = DOMAIN rs \cup {at}
        /\ new[at] = row /\ \A id \in DOMAIN rs : new[id] = rs[id]
    <3>1. at \notin DOMAIN rs /\ Bounded(DOMAIN rs \cup {at})
      BY <1>1, NextIdIs
    <3>2. new = Store(rs, at, row)
      BY DEF Insert
    <3>. HIDE DEF at, row
    <3>3. /\ DOMAIN Store(rs, at, row) = DOMAIN rs \cup {at}
          /\ Store(rs, at, row)[at] = row
          /\ \A x \in DOMAIN rs \ {at} : Store(rs, at, row)[x] = rs[x]
          /\ \A Row : rs \in Table(Row) /\ row \in Row => Store(rs, at, row) \in Table(Row)
      BY <3>1, StoreIs
    <3>. HIDE DEF new
    <3>. QED
      BY <3>1, <3>2, <3>3
  <2>2. Says(row, wanted) /\ Settled(row, gid, locked)
    BY DEF Says, Settled
  <2>3. \A id \in DOMAIN rs : ~Says(rs[id], wanted)
    BY <1>3 DEF Says
  <2>. HIDE DEF new, at, row
  <2>4. Takes(rs, new, gid, locked, wanted)
    <3>1. \A id \in DOMAIN new : Says(new[id], wanted) => id = at
      BY <2>1, <2>3
    <3>2. \A id \in DOMAIN new : ~Says(new[id], wanted) => id \in DOMAIN rs /\ new[id] = rs[id]
      BY <2>1, <2>2
    <3>. QED
      BY <2>1, <2>2, <3>1, <3>2 DEF Takes
  <2>. QED
    BY <1>2, <1>3, <2>4 DEF new
<1>4. CASE same # {}
  <2>1. \A id \in DOMAIN rs : rs[id] \in RuleRows
    BY <1>1 DEF RulesOver
  <2>2. \A id \in DOMAIN rs : /\ over(id).kind = rs[id].kind /\ over(id).value = rs[id].value
                              /\ over(id).root = rs[id].root /\ Settled(over(id), gid, locked)
    <3>. TAKE id \in DOMAIN rs
    <3>1. rs[id] \in [kind : Kinds, value : Values, group : Ids, root : Ids, inode : Ids,
                      enabled : BOOLEAN, builtin : BOOLEAN]
      BY <2>1 DEF RuleRows
    <3>. DEFINE r == rs[id]
    <3>. HIDE DEF r
    <3>2. LET o == [r EXCEPT !.builtin = TRUE, !.group = gid, !.enabled = locked \/ @]
          IN  /\ o.kind = r.kind /\ o.value = r.value /\ o.root = r.root
              /\ o.builtin /\ o.group = gid /\ (locked => o.enabled)
      BY <3>1 DEF r
    <3>. QED
      BY <3>2 DEF r, Settled
  <2>. DEFINE new == taken
  <2>3. /\ DOMAIN new = DOMAIN rs /\ \A id \in same : new[id] = over(id)
        /\ \A id \in DOMAIN rs \ same : new[id] = rs[id]
    OBVIOUS
  <2>4. \A id \in DOMAIN rs : id \in same <=> Says(rs[id], wanted)
    BY DEF Says
  <2>5. same \subseteq DOMAIN rs
    OBVIOUS
  <2>. HIDE DEF same, over, new
  <2>6. \A id \in DOMAIN rs : id \in same <=> Says(new[id], wanted)
    BY <2>2, <2>3, <2>4 DEF Says
  <2>7. Takes(rs, new, gid, locked, wanted)
    <3>1. \A id \in DOMAIN new : Says(new[id], wanted) => Settled(new[id], gid, locked)
      BY <2>2, <2>3, <2>6
    <3>2. \A id \in DOMAIN new : ~Says(new[id], wanted) => id \in DOMAIN rs /\ new[id] = rs[id]
      BY <2>3, <2>6
    <3>3. \A id \in DOMAIN rs : /\ id \in DOMAIN new /\ new[id].kind = rs[id].kind
                                /\ new[id].value = rs[id].value /\ new[id].root = rs[id].root
      BY <2>2, <2>3
    <3>4. \E id \in DOMAIN new : Says(new[id], wanted)
      BY <1>4, <2>3, <2>5, <2>6
    <3>. QED
      BY <3>1, <3>2, <3>3, <3>4 DEF Takes
  <2>. QED
    BY <1>2, <1>4, <2>7 DEF new
<1>. QED
  BY <1>3, <1>4

LEMMA NextIsSeeded ==
  ASSUME NEW rs, NEW new, NEW group, NEW gid, NEW i \in Nat, i + 1 \in DOMAIN group.rules,
         SeededTo(rs, group, gid, i), Takes(rs, new, gid, group.locked, group.rules[i + 1])
  PROVE  SeededTo(new, group, gid, i + 1)
<1>. DEFINE wanted == group.rules[i + 1]
<1>1. \A j \in 1 .. (i + 1) : j \in 1 .. i \/ j = i + 1
  OBVIOUS
<1>2. \A j \in 1 .. (i + 1) : \A id \in DOMAIN new :
          Says(new[id], group.rules[j]) => Settled(new[id], gid, group.locked)
  <2>. TAKE j \in 1 .. (i + 1)
  <2>. TAKE id \in DOMAIN new
  <2>1. CASE Says(new[id], wanted)
    BY <2>1 DEF Takes
  <2>2. CASE ~Says(new[id], wanted)
    <3>1. id \in DOMAIN rs /\ new[id] = rs[id]
      BY <2>2 DEF Takes
    <3>. QED
      BY <1>1, <2>2, <3>1 DEF SeededTo
  <2>. QED
    BY <2>1, <2>2
<1>3. \A j \in 1 .. (i + 1) : \E id \in DOMAIN new : Says(new[id], group.rules[j])
  <2>. TAKE j \in 1 .. (i + 1)
  <2>1. CASE j = i + 1
    BY <2>1 DEF Takes
  <2>2. CASE j \in 1 .. i
    <3>1. PICK id \in DOMAIN rs : Says(rs[id], group.rules[j])
      BY <2>2 DEF SeededTo
    <3>2. id \in DOMAIN new /\ Says(new[id], group.rules[j])
      BY <3>1 DEF Takes, Says
    <3>. QED
      BY <3>2
  <2>. QED
    BY <1>1, <2>1, <2>2
<1>4. ASSUME NEW id \in DOMAIN new, new[id].builtin, new[id].group = gid
      PROVE  \E j \in DOMAIN group.rules : /\ new[id].kind = group.rules[j].kind
                                           /\ new[id].value = group.rules[j].value
  <2>1. CASE Says(new[id], wanted)
    BY <2>1 DEF Says
  <2>2. CASE ~Says(new[id], wanted)
    <3>1. id \in DOMAIN rs /\ new[id] = rs[id]
      BY <2>2 DEF Takes
    <3>. QED
      BY <1>4, <3>1 DEF SeededTo
  <2>. QED
    BY <2>1, <2>2
<1>. QED
  BY <1>2, <1>3, <1>4 DEF SeededTo

\* The rule of another group, with none of the same text, is left alone.
LEMMA OtherStaysSeeded ==
  ASSUME NEW rs, NEW new, NEW other, NEW ogid, NEW n,
         SeededTo(rs, other, ogid, n),
         NEW gid, gid # ogid, NEW locked, NEW wanted,
         \A j \in 1 .. n : ~(other.rules[j].kind = wanted.kind /\ other.rules[j].value = wanted.value),
         Takes(rs, new, gid, locked, wanted)
  PROVE  SeededTo(new, other, ogid, n)
<1>1. \A j \in 1 .. n : \A id \in DOMAIN new :
          Says(new[id], other.rules[j]) => Settled(new[id], ogid, other.locked)
  <2>. TAKE j \in 1 .. n
  <2>. TAKE id \in DOMAIN new
  <2>. SUFFICES ASSUME Says(new[id], other.rules[j]) PROVE Settled(new[id], ogid, other.locked)
    OBVIOUS
  <2>1. ~Says(new[id], wanted)
    BY DEF Says
  <2>2. id \in DOMAIN rs /\ new[id] = rs[id]
    BY <2>1 DEF Takes
  <2>. QED
    BY <2>2 DEF SeededTo
<1>2. \A j \in 1 .. n : \E id \in DOMAIN new : Says(new[id], other.rules[j])
  <2>. TAKE j \in 1 .. n
  <2>1. PICK id \in DOMAIN rs : Says(rs[id], other.rules[j])
    BY DEF SeededTo
  <2>2. id \in DOMAIN new /\ Says(new[id], other.rules[j])
    BY <2>1 DEF Takes, Says
  <2>. QED
    BY <2>2
<1>3. ASSUME NEW id \in DOMAIN new, new[id].builtin, new[id].group = ogid
      PROVE  \E j \in DOMAIN other.rules : /\ new[id].kind = other.rules[j].kind
                                           /\ new[id].value = other.rules[j].value
  <2>1. ~Says(new[id], wanted)
    BY <1>3 DEF Takes, Settled
  <2>2. id \in DOMAIN rs /\ new[id] = rs[id]
    BY <2>1 DEF Takes
  <2>. QED
    BY <1>3, <2>2 DEF SeededTo
<1>. QED
  BY <1>1, <1>2, <1>3 DEF SeededTo

\* What a group no longer has is dropped, and nothing of another.
LEMMA DroppedIs ==
  ASSUME NEW rs, NEW group, NEW gid, group.rules \in Seq(RuleText)
  PROVE  LET kept == Restrict(rs, DOMAIN rs \ Dropped(rs, gid, group))
         IN  /\ SeededTo(kept, group, gid, 0)
             /\ \A other, ogid, n : ogid # gid /\ SeededTo(rs, other, ogid, n)
                    => SeededTo(kept, other, ogid, n)
<1>. DEFINE kept == Restrict(rs, DOMAIN rs \ Dropped(rs, gid, group))
<1>1. /\ DOMAIN kept = DOMAIN rs \ Dropped(rs, gid, group)
      /\ \A id \in DOMAIN kept : id \in DOMAIN rs /\ kept[id] = rs[id]
  BY DEF Restrict
<1>2. \A id \in DOMAIN kept : kept[id].builtin /\ kept[id].group = gid
        => [kind |-> kept[id].kind, value |-> kept[id].value] \in ToSet(group.rules)
  BY <1>1 DEF Dropped
<1>3. \A id \in DOMAIN rs : id \in DOMAIN kept \/ (rs[id].builtin /\ rs[id].group = gid)
  BY <1>1 DEF Dropped
<1>. HIDE DEF kept
<1>4. SeededTo(kept, group, gid, 0)
  <2>1. ASSUME NEW id \in DOMAIN kept, kept[id].builtin, kept[id].group = gid
        PROVE  \E j \in DOMAIN group.rules : /\ kept[id].kind = group.rules[j].kind
                                             /\ kept[id].value = group.rules[j].value
    <3>. DEFINE text == [kind |-> kept[id].kind, value |-> kept[id].value]
    <3>1. text \in ToSet(group.rules)
      BY <1>2, <2>1
    <3>2. text.kind = kept[id].kind /\ text.value = kept[id].value
      OBVIOUS
    <3>. HIDE DEF text
    <3>3. PICK j \in DOMAIN group.rules : group.rules[j] = text
      BY <3>1 DEF ToSet
    <3>. QED
      BY <3>2, <3>3
  <2>. QED
    BY <2>1 DEF SeededTo
<1>5. ASSUME NEW other, NEW ogid, NEW n, ogid # gid, SeededTo(rs, other, ogid, n)
      PROVE  SeededTo(kept, other, ogid, n)
  <2>1. \A j \in 1 .. n : \E id \in DOMAIN kept : Says(kept[id], other.rules[j])
    <3>. TAKE j \in 1 .. n
    <3>1. PICK id \in DOMAIN rs : Says(rs[id], other.rules[j])
      BY <1>5 DEF SeededTo
    <3>2. rs[id].group = ogid
      BY <1>5, <3>1 DEF SeededTo, Settled
    <3>. QED
      BY <1>1, <1>3, <1>5, <3>1, <3>2
  <2>2. \A j \in 1 .. n : \A id \in DOMAIN kept :
            Says(kept[id], other.rules[j]) => Settled(kept[id], ogid, other.locked)
    BY <1>1, <1>5 DEF SeededTo
  <2>3. \A id \in DOMAIN kept :
            kept[id].builtin /\ kept[id].group = ogid
                => \E j \in DOMAIN other.rules : /\ kept[id].kind = other.rules[j].kind
                                                 /\ kept[id].value = other.rules[j].value
    BY <1>1, <1>5 DEF SeededTo
  <2>. QED
    BY <2>1, <2>2, <2>3 DEF SeededTo
<1>. QED
  BY <1>4, <1>5 DEF kept

-----------------------------------------------------------------------------
\* Groups: a key is given once, and each group of a release has its row.

KeysOnce(gs) ==
    \A g, h \in DOMAIN gs : gs[g].key = gs[h].key /\ gs[g].key # None => g = h

GroupStands(gs, b, gid) ==
    /\ gid \in DOMAIN gs /\ gs[gid].key = b.key /\ gs[gid].name = b.name
    /\ gs[gid].builtin /\ gs[gid].locked = b.locked /\ (b.locked => gs[gid].enabled)

IsSeeded(tables, b) ==
    \E gid : GroupStands(tables.groups, b, gid)
             /\ SeededTo(tables.rules, b, gid, Len(b.rules))

LEMMA RulesSeeded ==
  ASSUME NEW R \in SUBSET Nat, NEW tables, Keyed(tables, R),
         NEW n \in DOMAIN Releases, NEW b \in DOMAIN Releases[n],
         NEW gid, NEW h, SeedsInto(tables, Releases[n][b], gid, h, R)
  PROVE  /\ SeededTo(SeedGroup(tables, Releases[n][b]).rules, Releases[n][b], gid,
                     Len(Releases[n][b].rules))
         /\ \A c \in DOMAIN Releases[n] \ {b} : \A ogid :
               ogid # gid /\ SeededTo(tables.rules, Releases[n][c], ogid, Len(Releases[n][c].rules))
                  => SeededTo(SeedGroup(tables, Releases[n][b]).rules, Releases[n][c], ogid,
                              Len(Releases[n][c].rules))
<1>. DEFINE group == Releases[n][b]
            N == Len(group.rules)
            G == DOMAIN tables.groups \cup {gid}
<1>1. /\ gid \in Nat
      /\ \A i \in 0 .. N : h[i] \in Table(RulesOver(G, R))
      /\ h[0] = Restrict(tables.rules, DOMAIN tables.rules \ Dropped(tables.rules, gid, group))
      /\ \A i \in 1 .. N : h[i] = SeedRule(h[i - 1], gid, group.locked, group.rules[i])
      /\ SeedGroup(tables, group).rules = h[N]
  BY DEF SeedsInto
<1>2. G \in SUBSET Nat
  <2>1. Bounded(DOMAIN tables.groups)
    BY TableIs DEF Keyed
  <2>. QED
    BY <1>1, <2>1, IdsOf
<1>3. /\ group.locked \in BOOLEAN /\ group.rules \in Seq(RuleText)
      /\ \A c \in DOMAIN Releases[n] \ {b} :
            /\ Releases[n][c].rules \in Seq(RuleText)
            /\ ToSet(group.rules) \cap ToSet(Releases[n][c].rules) = {}
  BY ReleaseIs
<1>4. N \in Nat /\ DOMAIN group.rules = 1 .. N
  BY <1>3, LenProperties
<1>. HIDE DEF group, G
<1>5. \A i \in 1 .. N : Takes(h[i - 1], h[i], gid, group.locked, group.rules[i])
  <2>. TAKE i \in 1 .. N
  <2>1. i - 1 \in 0 .. N
    BY <1>4
  <2>. HIDE DEF N
  <2>2. h[i - 1] \in Table(RulesOver(G, R))
    BY <1>1, <2>1
  <2>3. Takes(h[i - 1], SeedRule(h[i - 1], gid, group.locked, group.rules[i]), gid,
              group.locked, group.rules[i])
    BY <1>2, <1>3, <2>2, SeedRuleTakes
  <2>. QED
    BY <1>1, <2>3
<1>6. /\ SeededTo(h[0], group, gid, 0)
      /\ \A other, ogid, k : ogid # gid /\ SeededTo(tables.rules, other, ogid, k)
             => SeededTo(h[0], other, ogid, k)
  <2>1. LET kept == Restrict(tables.rules, DOMAIN tables.rules \ Dropped(tables.rules, gid, group))
        IN  /\ SeededTo(kept, group, gid, 0)
            /\ \A other, ogid, k : ogid # gid /\ SeededTo(tables.rules, other, ogid, k)
                   => SeededTo(kept, other, ogid, k)
    BY <1>3, DroppedIs
  <2>. QED
    BY <1>1, <2>1
<1>7. SeededTo(h[N], group, gid, N)
  <2>. DEFINE T == {i \in Nat : i <= N => SeededTo(h[i], group, gid, i)}
  <2>1. 0 \in T
    BY <1>6
  <2>2. ASSUME NEW i \in Nat, i \in T PROVE i + 1 \in T
    <3>. SUFFICES ASSUME i + 1 <= N PROVE SeededTo(h[i + 1], group, gid, i + 1)
      OBVIOUS
    <3>1. i <= N /\ i + 1 \in 1 .. N /\ (i + 1) - 1 = i
      BY <1>4
    <3>2. SeededTo(h[i], group, gid, i)
      BY <2>2, <3>1
    <3>3. Takes(h[i], h[i + 1], gid, group.locked, group.rules[i + 1])
      BY <1>5, <3>1
    <3>. QED
      BY <1>4, <3>1, <3>2, <3>3, NextIsSeeded
  <2>. HIDE DEF T
  <2>3. Nat \subseteq T
    BY <2>1, <2>2, SetInduction
  <2>. QED
    BY <1>4, <2>3 DEF T
<1>8. ASSUME NEW c \in DOMAIN Releases[n] \ {b}, NEW ogid, ogid # gid,
             SeededTo(tables.rules, Releases[n][c], ogid, Len(Releases[n][c].rules))
      PROVE  SeededTo(h[N], Releases[n][c], ogid, Len(Releases[n][c].rules))
  <2>. DEFINE other == Releases[n][c]
              M == Len(other.rules)
              T == {i \in Nat : i <= N => SeededTo(h[i], other, ogid, M)}
  <2>1. other.rules \in Seq(RuleText) /\ ToSet(group.rules) \cap ToSet(other.rules) = {}
    BY <1>3
  <2>2. M \in Nat /\ DOMAIN other.rules = 1 .. M
    BY <2>1, LenProperties
  <2>3. SeededTo(h[0], other, ogid, M)
    BY <1>6, <1>8
  <2>. HIDE DEF other
  <2>4. \A i \in 1 .. N : \A j \in 1 .. M :
           ~(other.rules[j].kind = group.rules[i].kind /\ other.rules[j].value = group.rules[i].value)
    <3>. TAKE i \in 1 .. N
    <3>. TAKE j \in 1 .. M
    <3>1. other.rules[j] \in RuleText /\ group.rules[i] \in RuleText
      BY <1>3, <1>4, <2>1, <2>2
    <3>2. other.rules[j] \in ToSet(other.rules) /\ group.rules[i] \in ToSet(group.rules)
      BY <1>4, <2>2 DEF ToSet
    <3>3. other.rules[j] # group.rules[i]
      BY <2>1, <3>2
    <3>4. \A r, s \in RuleText : r.kind = s.kind /\ r.value = s.value => r = s
      BY DEF RuleText
    <3>. QED
      BY <3>1, <3>3, <3>4
  <2>. HIDE DEF M
  <2>5. 0 \in T
    BY <2>3
  <2>6. ASSUME NEW i \in Nat, i \in T PROVE i + 1 \in T
    <3>. SUFFICES ASSUME i + 1 <= N PROVE SeededTo(h[i + 1], other, ogid, M)
      OBVIOUS
    <3>1. i <= N /\ i + 1 \in 1 .. N /\ (i + 1) - 1 = i
      BY <1>4
    <3>2. SeededTo(h[i], other, ogid, M)
      BY <2>6, <3>1
    <3>3. Takes(h[i], h[i + 1], gid, group.locked, group.rules[i + 1])
      BY <1>5, <3>1
    <3>4. \A j \in 1 .. M : ~(other.rules[j].kind = group.rules[i + 1].kind
                              /\ other.rules[j].value = group.rules[i + 1].value)
      BY <2>4, <3>1
    <3>. QED
      BY <1>8, <3>2, <3>3, <3>4, OtherStaysSeeded
  <2>. HIDE DEF T
  <2>7. Nat \subseteq T
    BY <2>5, <2>6, SetInduction
  <2>8. SeededTo(h[N], other, ogid, M)
    BY <1>4, <2>7 DEF T
  <2>. QED
    BY <2>8 DEF other, M
<1>. QED
  BY <1>1, <1>7, <1>8 DEF group

LEMMA GroupSeeded ==
  ASSUME NEW R \in SUBSET Nat, NEW tables, Keyed(tables, R), KeysOnce(tables.groups),
         NEW n \in DOMAIN Releases, NEW b \in DOMAIN Releases[n]
  PROVE  /\ KeysOnce(SeedGroup(tables, Releases[n][b]).groups)
         /\ IsSeeded(SeedGroup(tables, Releases[n][b]), Releases[n][b])
         /\ \A c \in DOMAIN Releases[n] : IsSeeded(tables, Releases[n][c])
               => IsSeeded(SeedGroup(tables, Releases[n][b]), Releases[n][c])
<1>. DEFINE group == Releases[n][b]
            new == SeedGroup(tables, group)
            known == {g \in DOMAIN tables.groups : tables.groups[g].key = group.key}
<1>1. PICK gid, h : SeedsInto(tables, group, gid, h, R)
  BY SeedGroupIs
<1>2. /\ known = {} => gid \notin DOMAIN tables.groups
      /\ known # {} => gid \in known
      /\ DOMAIN new.groups = DOMAIN tables.groups \cup {gid}
      /\ \A g \in DOMAIN tables.groups \ {gid} : new.groups[g] = tables.groups[g]
      /\ new.groups[gid].key = group.key /\ new.groups[gid].name = group.name
      /\ new.groups[gid].builtin /\ new.groups[gid].locked = group.locked
      /\ group.locked => new.groups[gid].enabled
  BY <1>1 DEF SeedsInto
<1>3. /\ group.key # None
      /\ \A c \in DOMAIN Releases[n] \ {b} : group.key # Releases[n][c].key
  BY ReleaseIs
<1>4. /\ SeededTo(new.rules, group, gid, Len(group.rules))
      /\ \A c \in DOMAIN Releases[n] \ {b} : \A ogid :
            ogid # gid /\ SeededTo(tables.rules, Releases[n][c], ogid, Len(Releases[n][c].rules))
               => SeededTo(new.rules, Releases[n][c], ogid, Len(Releases[n][c].rules))
  BY <1>1, RulesSeeded
<1>. HIDE DEF new, group
<1>5. KeysOnce(new.groups)
  <2>. SUFFICES ASSUME NEW g \in DOMAIN new.groups, NEW k \in DOMAIN new.groups,
                       new.groups[g].key = new.groups[k].key, new.groups[g].key # None
                PROVE  g = k
    BY DEF KeysOnce
  <2>1. ASSUME NEW x \in DOMAIN tables.groups \ {gid} PROVE tables.groups[x].key # group.key
    <3>. SUFFICES ASSUME x \in known PROVE FALSE
      OBVIOUS
    <3>1. gid \in known
      BY <1>2
    <3>. QED
      BY <1>3, <2>1, <3>1 DEF KeysOnce
  <2>2. CASE g = gid \/ k = gid
    BY <1>2, <2>1, <2>2
  <2>3. CASE g # gid /\ k # gid
    BY <1>2, <2>3 DEF KeysOnce
  <2>. QED
    BY <2>2, <2>3
<1>6. IsSeeded(new, group)
  BY <1>2, <1>4 DEF IsSeeded, GroupStands
<1>7. ASSUME NEW c \in DOMAIN Releases[n], c # b, IsSeeded(tables, Releases[n][c])
      PROVE  IsSeeded(new, Releases[n][c])
  <2>. DEFINE other == Releases[n][c]
  <2>1. PICK ogid : /\ GroupStands(tables.groups, other, ogid)
                    /\ SeededTo(tables.rules, other, ogid, Len(other.rules))
    BY <1>7 DEF IsSeeded
  <2>2. ogid # gid
    <3>. SUFFICES ASSUME ogid = gid PROVE FALSE
      OBVIOUS
    <3>1. gid \in DOMAIN tables.groups /\ tables.groups[gid].key = other.key
      BY <2>1 DEF GroupStands
    <3>2. gid \in known
      BY <1>2, <3>1
    <3>. QED
      BY <1>3, <1>7, <3>1, <3>2
  <2>3. GroupStands(new.groups, other, ogid)
    BY <1>2, <2>1, <2>2 DEF GroupStands
  <2>4. SeededTo(new.rules, other, ogid, Len(other.rules))
    BY <1>4, <1>7, <2>1, <2>2
  <2>. QED
    BY <2>3, <2>4 DEF IsSeeded
<1>. QED
  BY <1>5, <1>6, <1>7 DEF new, group

\* When every group of a release is, nothing is left to seed.
LEMMA NothingToSeed ==
  ASSUME NEW R \in SUBSET Nat, NEW tables, Keyed(tables, R), KeysOnce(tables.groups),
         NEW n \in DOMAIN Releases, \A b \in DOMAIN Releases[n] : IsSeeded(tables, Releases[n][b])
  PROVE  ~SeedNeeded(tables, Releases[n])
<1>. SUFFICES ASSUME NEW c \in ToSet(Releases[n])
     PROVE LET known == {g \in DOMAIN tables.groups :
                        /\ tables.groups[g].builtin
                        /\ tables.groups[g].key = c.key}
               stored == {id \in DOMAIN tables.rules :
                        /\ tables.rules[id].builtin
                        /\ tables.rules[id].group \in known
                        /\ tables.rules[id].root = None}
           IN  ~(\/ known = {}
                 \/ \E g \in known : \/ tables.groups[g].name # c.name
                                     \/ tables.groups[g].locked # c.locked
                                     \/ c.locked /\ ~tables.groups[g].enabled
                 \/ {[kind |-> tables.rules[id].kind, value |-> tables.rules[id].value] :
                         id \in stored} # ToSet(c.rules)
                 \/ c.locked /\ \E id \in stored : ~tables.rules[id].enabled)
  BY DEF SeedNeeded
<1>. DEFINE known == {g \in DOMAIN tables.groups :
                        /\ tables.groups[g].builtin
                        /\ tables.groups[g].key = c.key}
            stored == {id \in DOMAIN tables.rules :
                        /\ tables.rules[id].builtin
                        /\ tables.rules[id].group \in known
                        /\ tables.rules[id].root = None}
            text(id) == [kind |-> tables.rules[id].kind, value |-> tables.rules[id].value]
<1>1. /\ c.key # None /\ c.rules \in Seq(RuleText) /\ IsSeeded(tables, c)
  BY ReleaseIs
<1>2. PICK gid : /\ GroupStands(tables.groups, c, gid)
                 /\ SeededTo(tables.rules, c, gid, Len(c.rules))
  BY <1>1 DEF IsSeeded
<1>3. known = {gid}
  BY <1>1, <1>2 DEF GroupStands, KeysOnce
<1>4. DOMAIN c.rules = 1 .. Len(c.rules)
  BY <1>1, LenProperties
<1>5. \A id \in stored : \E j \in DOMAIN c.rules : Says(tables.rules[id], c.rules[j])
  BY <1>2, <1>3 DEF SeededTo, Says
<1>6. \A id \in stored : c.locked => tables.rules[id].enabled
  BY <1>2, <1>4, <1>5 DEF SeededTo, Settled
<1>7. ASSUME NEW id \in DOMAIN tables.rules, NEW j \in DOMAIN c.rules,
             Says(tables.rules[id], c.rules[j])
      PROVE  text(id) = c.rules[j]
  <2>1. c.rules[j] \in RuleText
    BY <1>1
  <2>2. \A r \in RuleText : r = [kind |-> r.kind, value |-> r.value]
    BY DEF RuleText
  <2>. QED
    BY <1>7, <2>1, <2>2 DEF Says
<1>8. ToSet(c.rules) = {c.rules[j] : j \in DOMAIN c.rules}
  BY DEF ToSet
<1>9. \A id \in stored : text(id) \in ToSet(c.rules)
  BY <1>5, <1>7, <1>8
<1>10. \A j \in DOMAIN c.rules : \E id \in stored : text(id) = c.rules[j]
  <2>. TAKE j \in DOMAIN c.rules
  <2>1. PICK id \in DOMAIN tables.rules : Says(tables.rules[id], c.rules[j])
    BY <1>2, <1>4 DEF SeededTo
  <2>2. id \in stored
    BY <1>2, <1>3, <1>4, <2>1 DEF SeededTo, Settled, Says
  <2>. QED
    BY <1>7, <2>1, <2>2
<1>. HIDE DEF stored, text
<1>11. {text(id) : id \in stored} = ToSet(c.rules)
  BY <1>8, <1>9, <1>10
<1>. QED
  BY <1>2, <1>3, <1>6, <1>11 DEF GroupStands, stored, text

\* A release is seeded once: nothing of it is to be seeded after it was.
THEOREM SeededOnce ==
  ASSUME NEW R \in SUBSET Nat, NEW tables, Keyed(tables, R), KeysOnce(tables.groups),
         NEW n \in DOMAIN Releases
  PROVE  /\ KeysOnce(SeedBuiltins(tables, Releases[n]).groups)
         /\ ~SeedNeeded(SeedBuiltins(tables, Releases[n]), Releases[n])
         /\ ~SeedNeeded(tables, Releases[n]) => SeedBuiltins(tables, Releases[n]) = tables
<1>. DEFINE bs == Releases[n]
            N == Len(bs)
<1>1. PICK h : SeedsAll(tables, bs, h, R)
  BY SeedBuiltinsIs
<1>2. /\ h[0] = tables /\ \A i \in 0 .. N : Keyed(h[i], R)
      /\ \A i \in 1 .. N : h[i] = SeedGroup(h[i - 1], bs[i])
      /\ SeedBuiltins(tables, bs) = IF SeedNeeded(tables, bs) THEN h[N] ELSE tables
  BY <1>1 DEF SeedsAll
<1>3. N \in Nat /\ DOMAIN bs = 1 .. N
  BY ReleaseIs
<1>. DEFINE Good(i) == KeysOnce(h[i].groups) /\ \A j \in 1 .. i : IsSeeded(h[i], bs[j])
            T == {i \in Nat : i <= N => Good(i)}
<1>4. 0 \in T
  BY <1>2
<1>5. ASSUME NEW i \in Nat, i \in T PROVE i + 1 \in T
  <2>. SUFFICES ASSUME i + 1 <= N PROVE Good(i + 1)
    OBVIOUS
  <2>. DEFINE k == i + 1
  <2>1. i <= N /\ i \in 0 .. N /\ k \in 1 .. N /\ k - 1 = i
    BY <1>3
  <2>2. Good(i) /\ Keyed(h[i], R) /\ h[k] = SeedGroup(h[i], bs[k]) /\ k \in DOMAIN bs
    BY <1>2, <1>3, <1>5, <2>1
  <2>3. \A j \in 1 .. k : (j \in 1 .. i \/ j = k) /\ j \in DOMAIN bs
    BY <1>3, <2>1
  <2>. HIDE DEF k
  <2>4. /\ KeysOnce(SeedGroup(h[i], bs[k]).groups)
        /\ IsSeeded(SeedGroup(h[i], bs[k]), bs[k])
        /\ \A c \in DOMAIN bs : IsSeeded(h[i], bs[c]) => IsSeeded(SeedGroup(h[i], bs[k]), bs[c])
    BY <2>2, GroupSeeded
  <2>5. Good(k)
    BY <2>2, <2>3, <2>4
  <2>. QED
    BY <2>5 DEF k
<1>. HIDE DEF T
<1>6. Nat \subseteq T
  BY <1>4, <1>5, SetInduction
<1>7. Good(N) /\ Keyed(h[N], R)
  BY <1>2, <1>3, <1>6 DEF T
<1>8. ~SeedNeeded(h[N], bs)
  BY <1>3, <1>7, NothingToSeed
<1>. QED
  BY <1>2, <1>7, <1>8

-----------------------------------------------------------------------------
\* The built-in groups of the running release stay seeded.

KnownIn(tables, c) ==
    {g \in DOMAIN tables.groups : tables.groups[g].builtin /\ tables.groups[g].key = c.key}

StoredIn(tables, c) ==
    {id \in DOMAIN tables.rules : /\ tables.rules[id].builtin
                                  /\ tables.rules[id].group \in KnownIn(tables, c)
                                  /\ tables.rules[id].root = None}

TextsOf(tables, S) ==
    {[kind |-> tables.rules[id].kind, value |-> tables.rules[id].value] : id \in S}

\* The group is not as its release has it.
Lacks(tables, c) ==
    \/ KnownIn(tables, c) = {}
    \/ \E g \in KnownIn(tables, c) : \/ tables.groups[g].name # c.name
                                     \/ tables.groups[g].locked # c.locked
                                     \/ c.locked /\ ~tables.groups[g].enabled
    \/ TextsOf(tables, StoredIn(tables, c)) # ToSet(c.rules)
    \/ c.locked /\ \E id \in StoredIn(tables, c) : ~tables.rules[id].enabled

LEMMA NeededIs ==
  ASSUME NEW tables, NEW bs
  PROVE  SeedNeeded(tables, bs) <=> \E c \in ToSet(bs) : Lacks(tables, c)
BY DEF SeedNeeded, Lacks, TextsOf, StoredIn, KnownIn

\* Tables that differ in what is not built in, or in switches that are free.
SameSeeds(t, u) ==
    /\ \A g \in DOMAIN u.groups \ DOMAIN t.groups : ~u.groups[g].builtin /\ u.groups[g].key = None
    /\ \A g \in DOMAIN t.groups :
          /\ g \in DOMAIN u.groups
          /\ u.groups[g].key = t.groups[g].key /\ u.groups[g].name = t.groups[g].name
          /\ u.groups[g].builtin = t.groups[g].builtin /\ u.groups[g].locked = t.groups[g].locked
          /\ t.groups[g].locked => u.groups[g].enabled = t.groups[g].enabled
    /\ \A id \in DOMAIN u.rules \ DOMAIN t.rules : ~u.rules[id].builtin
    /\ \A id \in DOMAIN t.rules \ DOMAIN u.rules : ~t.rules[id].builtin \/ t.rules[id].root # None
    /\ \A id \in DOMAIN t.rules \cap DOMAIN u.rules :
          /\ u.rules[id].kind = t.rules[id].kind /\ u.rules[id].value = t.rules[id].value
          /\ u.rules[id].group = t.rules[id].group /\ u.rules[id].root = t.rules[id].root
          /\ u.rules[id].builtin = t.rules[id].builtin
          /\ /\ t.rules[id].group \in DOMAIN t.groups
             /\ t.groups[t.rules[id].group].locked /\ t.rules[id].enabled
             => u.rules[id].enabled

LEMMA SeedsKept ==
  ASSUME NEW t, NEW u, SameSeeds(t, u), KeysOnce(t.groups),
         NEW n \in DOMAIN Releases, ~SeedNeeded(t, Releases[n])
  PROVE  KeysOnce(u.groups) /\ ~SeedNeeded(u, Releases[n])
<1>1. KeysOnce(u.groups)
  BY DEF SameSeeds, KeysOnce
<1>2. ASSUME NEW c \in ToSet(Releases[n]) PROVE ~Lacks(u, c)
  <2>1. c.key # None /\ ~Lacks(t, c)
    BY ReleaseIs, NeededIs
  <2>2. KnownIn(u, c) = KnownIn(t, c)
    BY <2>1 DEF KnownIn, SameSeeds
  <2>3. StoredIn(u, c) = StoredIn(t, c)
    <3>1. \A id \in StoredIn(u, c) : id \in StoredIn(t, c)
      BY <2>2 DEF StoredIn, SameSeeds
    <3>2. \A id \in StoredIn(t, c) : id \in StoredIn(u, c)
      BY <2>2 DEF StoredIn, SameSeeds
    <3>. QED
      BY <3>1, <3>2
  <2>4. \A id \in StoredIn(t, c) : /\ id \in DOMAIN t.rules \cap DOMAIN u.rules
                                   /\ t.rules[id].group \in KnownIn(t, c)
    BY <2>3 DEF StoredIn
  <2>5. KnownIn(t, c) \subseteq DOMAIN t.groups
    BY DEF KnownIn
  <2>6. TextsOf(u, StoredIn(u, c)) = TextsOf(t, StoredIn(t, c))
    BY <2>3, <2>4 DEF TextsOf, SameSeeds
  <2>7. \A g \in KnownIn(t, c) : /\ u.groups[g].name = c.name /\ u.groups[g].locked = c.locked
                                 /\ t.groups[g].locked = c.locked
                                 /\ c.locked => u.groups[g].enabled
    BY <2>1, <2>5 DEF Lacks, SameSeeds
  <2>8. c.locked => \A id \in StoredIn(t, c) : u.rules[id].enabled
    BY <2>1, <2>4, <2>5, <2>7 DEF Lacks, SameSeeds
  <2>9. KnownIn(t, c) # {} /\ TextsOf(t, StoredIn(t, c)) = ToSet(c.rules)
    BY <2>1 DEF Lacks
  <2>. QED
    BY <2>2, <2>3, <2>6, <2>7, <2>8, <2>9 DEF Lacks
<1>. QED
  BY <1>1, <1>2, NeededIs

LEMMA InsertKeeps ==
  ASSUME NEW t, NEW row, Bounded(DOMAIN t)
  PROVE  /\ \A x \in DOMAIN t : x \in DOMAIN Insert(t, row) /\ Insert(t, row)[x] = t[x]
         /\ \A x \in DOMAIN Insert(t, row) \ DOMAIN t : Insert(t, row)[x] = row
<1>1. /\ DOMAIN Insert(t, row) = DOMAIN t \cup {NextId(t)}
      /\ Insert(t, row)[NextId(t)] = row
      /\ \A x \in DOMAIN t : Insert(t, row)[x] = t[x]
      /\ \A Row : t \in Table(Row) /\ row \in Row => Insert(t, row) \in Table(Row)
  BY InsertIs
<1>. QED
  BY <1>1

\* A rule of the user is not built in, nor is a group made for it.
LEMMA AddRuleSeeds ==
  ASSUME NEW tables, Bounded(DOMAIN tables.groups), Bounded(DOMAIN tables.rules),
         NEW kind, NEW value, NEW group, NEW source, NEW inode,
         AddRule(tables, kind, value, group, source, inode).ok
  PROVE  SameSeeds(tables, [rules |-> AddRule(tables, kind, value, group, source, inode).rules,
                            groups |-> AddRule(tables, kind, value, group, source, inode).groups])
<1>. DEFINE in == {r \in DOMAIN roots : roots[r].path = source}
            root == IF source = None THEN None ELSE Min(in)
            asked == IF group = None THEN {} ELSE GroupRow(tables.groups, group)
            made == group # None /\ asked = {}
            new == [key |-> None, name |-> group, builtin |-> FALSE,
                    locked |-> FALSE, enabled |-> TRUE]
            gs == IF made THEN Insert(tables.groups, new) ELSE tables.groups
            gid == IF group = None THEN None
                   ELSE IF made THEN NextId(tables.groups) ELSE Min(asked)
            same == {id \in DOMAIN tables.rules :
                        /\ tables.rules[id].kind = kind
                        /\ tables.rules[id].value = value
                        /\ tables.rules[id].root = root}
            row == [kind |-> kind, value |-> value, group |-> gid, root |-> root,
                    inode |-> IF kind = "file" THEN inode ELSE None,
                    enabled |-> TRUE, builtin |-> FALSE]
            rs == IF same # {} THEN tables.rules ELSE Insert(tables.rules, row)
            refused == \/ ~ValidateRule(kind, value)
                       \/ source # None /\ in = {}
                       \/ \E g \in asked : tables.groups[g].locked
            added == AddRule(tables, kind, value, group, source, inode)
            result == [ok |-> TRUE, groups |-> gs,
                       id |-> IF same # {} THEN Min(same) ELSE NextId(tables.rules),
                       rules |-> rs]
<1>1. added = IF refused THEN [ok |-> FALSE] ELSE result
  BY DEF AddRule
<1>2. added.rules = rs /\ added.groups = gs
  <2>1. added.ok
    OBVIOUS
  <2>2. result.rules = rs /\ result.groups = gs
    OBVIOUS
  <2>. HIDE DEF refused, result, added, rs, gs
  <2>3. added = result
    BY <1>1, <2>1
  <2>. QED
    BY <2>2, <2>3
<1>3. new.builtin = FALSE /\ new.key = None /\ row.builtin = FALSE
  OBVIOUS
<1>. HIDE DEF new, row, same, made, refused, result, added
<1>4. /\ \A g \in DOMAIN tables.groups : g \in DOMAIN gs /\ gs[g] = tables.groups[g]
      /\ \A g \in DOMAIN gs \ DOMAIN tables.groups : ~gs[g].builtin /\ gs[g].key = None
  <2>. DEFINE t == tables.groups
  <2>1. /\ \A x \in DOMAIN t : x \in DOMAIN Insert(t, new) /\ Insert(t, new)[x] = t[x]
        /\ \A x \in DOMAIN Insert(t, new) \ DOMAIN t : Insert(t, new)[x] = new
    BY InsertKeeps
  <2>. QED
    BY <1>3, <2>1
<1>5. /\ \A id \in DOMAIN tables.rules : id \in DOMAIN rs /\ rs[id] = tables.rules[id]
      /\ \A id \in DOMAIN rs \ DOMAIN tables.rules : ~rs[id].builtin
  <2>. DEFINE t == tables.rules
  <2>1. /\ \A x \in DOMAIN t : x \in DOMAIN Insert(t, row) /\ Insert(t, row)[x] = t[x]
        /\ \A x \in DOMAIN Insert(t, row) \ DOMAIN t : Insert(t, row)[x] = row
    BY InsertKeeps
  <2>. QED
    BY <1>3, <2>1
<1>. HIDE DEF gs, rs
<1>6. SameSeeds(tables, [rules |-> rs, groups |-> gs])
  <2>. DEFINE u == [rules |-> rs, groups |-> gs]
  <2>1. u.rules = rs /\ u.groups = gs
    OBVIOUS
  <2>. HIDE DEF u
  <2>2. SameSeeds(tables, u)
    BY <1>4, <1>5, <2>1 DEF SameSeeds
  <2>. QED
    BY <2>2 DEF u
<1>. QED
  BY <1>2, <1>6 DEF added

SeedPart == KeysOnce(groups) /\ ~SeedNeeded(Tables, Builtins)

-----------------------------------------------------------------------------
\* A rule that joins the others in the matcher: what nothing kept out before,
\* nothing but that rule keeps out afterwards.

Gains(n, m, c, ids) ==
    /\ IsMatcher(m, ids) /\ IsMatcher(n, ids \cup {c}) /\ c \in Nat \ ids
    /\ n.includes = m.includes /\ n.suppress = m.suppress
    /\ \A p \in n.patterns \ m.patterns : p.id = c
    /\ m.folders \subseteq n.folders
    /\ \A f \in n.folders \ m.folders : f.id = c /\ ~f.soft
    /\ \A f \in n.files \ m.files : f.id = c /\ f.inode = None

LEMMA LowestOfOne ==
  ASSUME NEW c \in Nat, NEW T \in SUBSET {c}
  PROVE  LowestId(T) \in {None, c} /\ (c \in T => LowestId(T) = c)
<1>1. LowestId(T) \in T \cup {None} /\ (LowestId(T) = None <=> T = {})
  BY LowestIs
<1>. QED
  BY <1>1

LEMMA FolderJoins ==
  ASSUME NEW ids, NEW c, NEW m, NEW n, Gains(n, m, c, ids), NEW path, NEW k,
         FolderHit(m, path, k) = None
  PROVE  FolderHit(n, path, k) \in {None, c}
<1>. DEFINE S(x) == {f.id : f \in {g \in FoldersAt(x, Prefix(path, k)) :
                                      g.soft => Included(x, path, k) = {}}}
<1>1. S(m) \subseteq ids /\ ids \subseteq Nat
  BY DEF FoldersAt, IsMatcher, Gains
<1>2. Included(n, path, k) = Included(m, path, k)
  BY DEF Included, Gains
<1>3. \A x \in S(n) : x = c \/ x \in S(m)
  BY <1>2 DEF FoldersAt, Gains
<1>4. FolderHit(m, path, k) = LowestId(S(m)) /\ FolderHit(n, path, k) = LowestId(S(n))
  BY DEF FolderHit
<1>. HIDE DEF S
<1>5. S(m) = {}
  BY <1>1, <1>4, LowestIs
<1>6. S(n) \in SUBSET {c} /\ c \in Nat
  BY <1>3, <1>5 DEF Gains
<1>. QED
  BY <1>4, <1>6, LowestOfOne

LEMMA PatternsJoin ==
  ASSUME NEW ids, NEW c, NEW m, NEW n, Gains(n, m, c, ids), NEW path, NEW k, NEW isDir,
         NEW skip, NEW subtrees
  PROVE  Patterns(m, path, k, isDir, skip, subtrees) = None =>
            \/ Patterns(n, path, k, isDir, skip, subtrees) = None
            \/ Patterns(n, path, k, isDir, skip, subtrees) = c
<1>. DEFINE S(x) == {p.id : p \in {q \in x.patterns :
                          /\ q.id \notin skip
                          /\ PatternMatches(q, path, k, isDir, subtrees)}}
<1>1. S(m) \subseteq ids /\ ids \subseteq Nat
  BY DEF IsMatcher, Gains
<1>2. \A x \in S(n) : x = c \/ x \in S(m)
  BY DEF Gains
<1>3. /\ Patterns(m, path, k, isDir, skip, subtrees) = LowestId(S(m))
      /\ Patterns(n, path, k, isDir, skip, subtrees) = LowestId(S(n))
  BY DEF Patterns
<1>. HIDE DEF S
<1>. SUFFICES ASSUME LowestId(S(m)) = None
              PROVE  LowestId(S(n)) = None \/ LowestId(S(n)) = c
  BY <1>3
<1>4. S(m) = {}
  BY <1>1, LowestIs
<1>5. S(n) \in SUBSET {c} /\ c \in Nat
  BY <1>2, <1>4 DEF Gains
<1>. QED
  BY <1>5, LowestOfOne

\* What a verdict of nothing may turn into.
TurnsInto(v, w, c) ==
    v.hit = None => w.hit = c \/ (w.hit = None /\ w.skip = v.skip)

LEMMA JudgeJoins ==
  ASSUME NEW ids, NEW c, NEW m, NEW n, Gains(n, m, c, ids), NEW path \in Path,
         NEW isDir \in BOOLEAN
  PROVE  TurnsInto(Judge(m, path, isDir), Judge(n, path, isDir), c)
<1>. DEFINE N == Len(path)
            d(x) == Folder(x, path)
            skip(x) == Suppressed(x, d(x).include)
            hits(x) == [k \in 1 .. N |-> Patterns(x, path, k, k < N \/ isDir, skip(x), TRUE)]
<1>. SUFFICES ASSUME Judge(m, path, isDir).hit = None
              PROVE  \/ Judge(n, path, isDir).hit = c
                     \/ /\ Judge(n, path, isDir).hit = None
                        /\ Judge(n, path, isDir).skip = Judge(m, path, isDir).skip
  BY DEF TurnsInto
<1>1. /\ IsMatcher(m, ids) /\ IsMatcher(n, ids \cup {c}) /\ c \in Nat \ ids
      /\ N \in Nat
  BY DEF Gains, Path
<1>2. /\ Judge(m, path, isDir).skip = skip(m)
      /\ \A k \in 1 .. N : FolderHit(m, path, k) = None
      /\ \A k \in 1 .. N : Patterns(m, path, k, k < N \/ isDir, skip(m), TRUE) = None
  <2>. DEFINE j == Judge(m, path, isDir)
  <2>1. /\ j \in Judgements(ids) /\ j.skip = Suppressed(m, Folder(m, path).include)
        /\ j.hit = None <=>
             /\ \A k \in 1 .. Len(path) : FolderHit(m, path, k) = None
             /\ \A k \in 1 .. Len(path) :
                   Patterns(m, path, k, k < Len(path) \/ isDir, j.skip, TRUE) = None
    BY <1>1, JudgeIs
  <2>2. j.hit = None
    OBVIOUS
  <2>. HIDE DEF j
  <2>3. j.skip = skip(m)
    BY <2>1
  <2>. QED
    BY <2>1, <2>2, <2>3 DEF j
<1>3. \A k \in 1 .. N : FolderHit(n, path, k) \in {None, c}
  BY <1>2, FolderJoins
<1>4. Judge(n, path, isDir) = Verdict(d(n), skip(n), hits(n))
  BY DEF Judge, JudgeBelow, JudgeUnder
<1>5. /\ d(n).end \in 0 .. N /\ (d(n).end = 0 => d(n).hit = None)
      /\ d(n).end # 0 => d(n).hit = FolderHit(n, path, d(n).end) /\ d(n).hit # None
  BY <1>1, FolderIs
<1>6. CASE d(n).hit # None
  <2>1. d(n).end \in 1 .. N
    BY <1>1, <1>5, <1>6
  <2>2. d(n).hit = c
    BY <1>3, <1>5, <1>6, <2>1
  <2>. HIDE DEF d, skip, hits
  <2>3. Verdict(d(n), skip(n), hits(n)).hit = d(n).hit
    BY <1>6 DEF Verdict
  <2>. QED
    BY <1>4, <2>2, <2>3
<1>7. CASE d(n).hit = None
  <2>1. \A k \in 1 .. N : FolderHit(n, path, k) = None
    <3>1. d(n).end = 0
      BY <1>5, <1>7
    <3>2. \A k \in 1 .. N : FolderHit(n, path, k) # None => k <= d(n).end
      BY <1>1, FolderIs
    <3>. HIDE DEF d
    <3>. QED
      BY <1>1, <3>1, <3>2
  <2>2. d(n) = d(m)
    <3>. DEFINE ks(x) == {k \in 1 .. Len(path) : FolderHit(x, path, k) # None}
    <3>1. ks(n) = {} /\ ks(m) = {}
      BY <1>2, <2>1
    <3>2. d(n) = FolderAt(n, path, Max({0} \cup ks(n))) /\ d(m) = FolderAt(m, path, Max({0} \cup ks(m)))
      BY DEF Folder
    <3>. HIDE DEF ks
    <3>3. Max({0}) = 0
      <4>1. Max({0}) \in {0}
        BY MaxIsIn
      <4>. QED
        BY <4>1
    <3>4. d(n) = FolderAt(n, path, 0) /\ d(m) = FolderAt(m, path, 0)
      BY <3>1, <3>2, <3>3
    <3>5. \A k : Included(n, path, k) = Included(m, path, k)
      BY DEF Included, Gains
    <3>. QED
      BY <3>4, <3>5 DEF FolderAt
  <2>3. skip(n) = skip(m)
    BY <2>2 DEF Suppressed, Gains
  <2>4. \A k \in 1 .. N : hits(n)[k] \in {None, c}
    <3>. TAKE k \in 1 .. N
    <3>1. Patterns(m, path, k, k < N \/ isDir, skip(n), TRUE) = None
      BY <1>2, <2>3
    <3>. DEFINE sk == skip(n)
                dir == k < N \/ isDir
    <3>. HIDE DEF sk, dir
    <3>2. Patterns(m, path, k, dir, sk, TRUE) = None
      BY <3>1 DEF sk, dir
    <3>. HIDE DEF skip, hits, d
    <3>3. \A all : Patterns(m, path, k, dir, sk, all) = None =>
                      Patterns(n, path, k, dir, sk, all) \in {None, c}
      <4>. TAKE all
      <4>. HAVE Patterns(m, path, k, dir, sk, all) = None
      <4>1. \/ Patterns(n, path, k, dir, sk, all) = None
            \/ Patterns(n, path, k, dir, sk, all) = c
        BY PatternsJoin
      <4>. QED
        BY <4>1
    <3>4. Patterns(n, path, k, dir, sk, TRUE) \in {None, c}
      BY <3>2, <3>3
    <3>. QED
      BY <3>4 DEF sk, dir, hits
  <2>5. DOMAIN hits(n) = 1 .. N
    OBVIOUS
  <2>. HIDE DEF hits
  <2>. DEFINE depths == {k \in DOMAIN hits(n) : hits(n)[k] # None}
  <2>6. depths # {} => Min(depths) \in depths
    <3>1. depths \in SUBSET Nat
      BY <1>1, <2>5
    <3>. HIDE DEF depths
    <3>. QED
      BY <3>1, MinIsIn
  <2>. HIDE DEF hits, d, skip
  <2>7. Verdict(d(n), skip(n), hits(n)) =
          IF depths = {} THEN [hit |-> None, at |-> 0, skip |-> skip(n)]
          ELSE [hit |-> hits(n)[Min(depths)], at |-> Min(depths), skip |-> skip(n)]
    BY <1>7 DEF Verdict
  <2>8. CASE depths = {}
    BY <1>2, <1>4, <2>3, <2>7, <2>8
  <2>9. CASE depths # {}
    <3>1. hits(n)[Min(depths)] = c
      BY <2>4, <2>5, <2>6, <2>9
    <3>. HIDE DEF depths
    <3>. QED
      BY <1>4, <2>7, <2>9, <3>1
  <2>. QED
    BY <2>8, <2>9
<1>. QED
  BY <1>6, <1>7

\* The folder of the new rule, where nothing was asked before.
LEMMA NewFolderHits ==
  ASSUME NEW ids, NEW c, NEW m, NEW n, Gains(n, m, c, ids), NEW path \in Path,
         NEW isDir \in BOOLEAN, path # <<>>, IsPoint(n, path), ~IsPoint(m, path)
  PROVE  Judge(n, path, isDir).hit = c
<1>. DEFINE N == Len(path)
            d == Folder(n, path)
            S == {f.id : f \in {g \in FoldersAt(n, Prefix(path, N)) :
                                  g.soft => Included(n, path, N) = {}}}
<1>1. /\ IsMatcher(n, ids \cup {c}) /\ c \in Nat
      /\ N \in 1 .. N /\ Prefix(path, N) = path
  BY FrontIs, PrefixIs DEF Gains, Path
<1>2. FoldersAt(m, path) = {} /\ FoldersAt(n, path) # {}
  BY DEF IsPoint, Gains
<1>3. \A f \in FoldersAt(n, path) : f.id = c /\ ~f.soft
  BY <1>2 DEF FoldersAt, Gains
<1>4. S = {c}
  BY <1>1, <1>2, <1>3
<1>5. FolderHit(n, path, N) = LowestId(S)
  BY DEF FolderHit
<1>6. c # None
  BY <1>1, BookAssumption
<1>. HIDE DEF S
<1>7. FolderHit(n, path, N) = c
  BY <1>1, <1>4, <1>5, LowestOfOne
<1>8. d.end = N /\ d.hit = c
  <2>1. /\ d.end \in 0 .. N
        /\ d.end # 0 => d.hit = FolderHit(n, path, d.end)
        /\ \A k \in 1 .. N : FolderHit(n, path, k) # None => k <= d.end
    BY <1>1, FolderIs
  <2>. HIDE DEF d
  <2>2. d.end = N
    BY <1>1, <1>6, <1>7, <2>1
  <2>. QED
    BY <1>1, <1>7, <2>1, <2>2
<1>. HIDE DEF d
<1>9. \A skip, patterns : Verdict(d, skip, patterns).hit = c
  BY <1>6, <1>8 DEF Verdict
<1>. QED
  BY <1>9 DEF Judge, JudgeBelow, JudgeUnder, d

LEMMA InheritJoins ==
  ASSUME NEW ids, NEW c, NEW m, NEW n, Gains(n, m, c, ids), NEW dir, NEW k \in Nat,
         NEW v \in Judgements(ids), NEW w \in Judgements(ids \cup {c}),
         TurnsInto(v, w, c)
  PROVE  TurnsInto(Inherit(m, dir, v, k), Inherit(n, dir, w, k), c)
<1>. DEFINE before == Inherit(m, dir, v, k)
            after == Inherit(n, dir, w, k)
            hit(x, j) == Patterns(x, Prefix(dir, k), k, TRUE, j.skip, TRUE)
<1>1. c \in Nat /\ c # None
  BY BookAssumption DEF Gains
<1>2. before.hit = None => v.hit = None /\ hit(m, v) = None /\ before.skip = v.skip
  <2>1. before = IF v.hit # None \/ hit(m, v) = None THEN v
                 ELSE [v EXCEPT !.hit = hit(m, v), !.at = k]
    BY DEF Inherit, InheritUnless
  <2>. HIDE DEF before, hit
  <2>2. [v EXCEPT !.hit = hit(m, v), !.at = k].hit = hit(m, v)
    BY DEF Judgements
  <2>. QED
    BY <2>1, <2>2
<1>3. after = IF w.hit # None \/ hit(n, w) = None THEN w
              ELSE [w EXCEPT !.hit = hit(n, w), !.at = k]
  BY DEF Inherit, InheritUnless
<1>4. hit(m, v) = None => hit(n, v) = None \/ hit(n, v) = c
  <2>. DEFINE p == Prefix(dir, k)
              skip == v.skip
  <2>. HIDE DEF p, skip
  <2>1. \A all : Patterns(m, p, k, all, skip, all) = None =>
                    Patterns(n, p, k, all, skip, all) \in {None, c}
    <3>. TAKE all
    <3>. HAVE Patterns(m, p, k, all, skip, all) = None
    <3>1. \/ Patterns(n, p, k, all, skip, all) = None
          \/ Patterns(n, p, k, all, skip, all) = c
      BY PatternsJoin
    <3>. QED
      BY <3>1
  <2>. QED
    BY <2>1 DEF p, skip
<1>5. w.skip = v.skip => hit(n, w) = hit(n, v)
  OBVIOUS
<1>. HIDE DEF before, after, hit
<1>. SUFFICES ASSUME before.hit = None
              PROVE  after.hit = c \/ (after.hit = None /\ after.skip = before.skip)
  BY DEF TurnsInto, before, after
<1>6. CASE w.hit = c
  BY <1>1, <1>3, <1>6
<1>7. CASE w.hit = None /\ w.skip = v.skip /\ hit(n, w) = None
  BY <1>2, <1>3, <1>7
<1>8. CASE w.hit = None /\ w.skip = v.skip /\ hit(n, w) # None
  <2>1. hit(n, w) = c
    BY <1>2, <1>4, <1>5, <1>8
  <2>2. after = [w EXCEPT !.hit = c, !.at = k]
    BY <1>3, <1>8, <2>1
  <2>. QED
    BY <2>2 DEF Judgements
<1>. QED
  BY <1>2, <1>6, <1>7, <1>8 DEF TurnsInto

LEMMA DescentJoins ==
  ASSUME NEW ids, NEW c, NEW m, NEW n, Gains(n, m, c, ids), NEW dir \in Path
  PROVE  TurnsInto(Judged(m, dir), Judged(n, dir), c)
<1>. DEFINE N == Len(dir)
<1>1. /\ IsMatcher(m, ids) /\ IsMatcher(n, ids \cup {c}) /\ c \in Nat
      /\ N \in Nat
  BY DEF Gains, Path
<1>2. PICK h \in [0 .. N -> Judgements(ids)] :
        Descends(h, m, dir) /\ Judged(m, dir) = h[N]
  BY <1>1, JudgedIs
<1>3. PICK g \in [0 .. N -> Judgements(ids \cup {c})] :
        Descends(g, n, dir) /\ Judged(n, dir) = g[N]
  BY <1>1, JudgedIs
<1>4. ASSUME NEW k \in 0 .. N
      PROVE  /\ h[k] = IF k = 0 \/ IsPoint(m, Prefix(dir, k)) THEN Judge(m, Prefix(dir, k), TRUE)
                       ELSE Inherit(m, dir, h[k - 1], k)
             /\ g[k] = IF k = 0 \/ IsPoint(n, Prefix(dir, k)) THEN Judge(n, Prefix(dir, k), TRUE)
                       ELSE Inherit(n, dir, g[k - 1], k)
  BY <1>2, <1>3, <1>4 DEF Descends
<1>5. ASSUME NEW k \in 0 .. N
      PROVE  TurnsInto(Judge(m, Prefix(dir, k), TRUE), Judge(n, Prefix(dir, k), TRUE), c)
  BY <1>5, PrefixIs, JudgeJoins
<1>. DEFINE T == {k \in 0 .. N : TurnsInto(h[k], g[k], c)}
<1>6. 0 \in T
  <2>. DEFINE p == Prefix(dir, 0)
  <2>1. 0 \in 0 .. N
    BY <1>1
  <2>2. h[0] = Judge(m, p, TRUE) /\ g[0] = Judge(n, p, TRUE)
    BY <1>4, <2>1
  <2>3. TurnsInto(Judge(m, p, TRUE), Judge(n, p, TRUE), c)
    BY <1>5, <2>1
  <2>4. TurnsInto(h[0], g[0], c)
    BY <2>2, <2>3
  <2>. QED
    BY <2>1, <2>4
<1>7. ASSUME NEW k \in 1 .. N, k - 1 \in T PROVE k \in T
  <2>. DEFINE p == Prefix(dir, k)
  <2>1. /\ k \in 0 .. N /\ k \in Nat /\ k # 0 /\ k - 1 \in 0 .. N
        /\ p \in Path /\ p # <<>>
    BY <1>1, PrefixIs, EmptySeq
  <2>2. /\ h[k - 1] \in Judgements(ids) /\ g[k - 1] \in Judgements(ids \cup {c})
        /\ TurnsInto(h[k - 1], g[k - 1], c)
    BY <1>2, <1>3, <1>7, <2>1
  <2>3. IsPoint(m, p) => IsPoint(n, p)
    BY DEF IsPoint, FoldersAt, Gains
  <2>4. /\ h[k] = IF IsPoint(m, p) THEN Judge(m, p, TRUE) ELSE Inherit(m, dir, h[k - 1], k)
        /\ g[k] = IF IsPoint(n, p) THEN Judge(n, p, TRUE) ELSE Inherit(n, dir, g[k - 1], k)
    BY <1>4, <2>1
  <2>5. TurnsInto(Judge(m, p, TRUE), Judge(n, p, TRUE), c)
    BY <1>5, <2>1
  <2>6. TurnsInto(h[k], g[k], c)
    <3>1. CASE IsPoint(m, p)
      BY <2>3, <2>4, <2>5, <3>1
    <3>2. CASE ~IsPoint(m, p) /\ IsPoint(n, p)
      <4>. HIDE DEF p
      <4>1. Judge(n, p, TRUE).hit = c
        BY <2>1, <3>2, NewFolderHits
      <4>2. g[k].hit = c
        BY <2>4, <3>2, <4>1
      <4>. QED
        BY <4>2 DEF TurnsInto
    <3>3. CASE ~IsPoint(n, p)
      <4>1. TurnsInto(Inherit(m, dir, h[k - 1], k), Inherit(n, dir, g[k - 1], k), c)
        BY <2>1, <2>2, InheritJoins
      <4>. QED
        BY <2>3, <2>4, <3>3, <4>1
    <3>. QED
      BY <3>1, <3>2, <3>3
  <2>. QED
    BY <2>1, <2>6
<1>. HIDE DEF T
<1>8. \A k \in 0 .. N : k \in T
  BY <1>1, <1>6, <1>7, EachIn
<1>. QED
  BY <1>1, <1>2, <1>3, <1>8 DEF T

LEMMA MatchJoins ==
  ASSUME NEW ids, NEW c, NEW m, NEW n, Gains(n, m, c, ids), NEW path \in Path,
         path # <<>>, Match(m, path, FALSE) = None
  PROVE  Match(n, path, FALSE) \in {None, c}
<1>. DEFINE j(x) == Judged(x, Front(path))
            exact(x) == {f.id : f \in {g \in x.files : g.path = path}}
            last(x, skip) == Patterns(x, path, Len(path), FALSE, skip, FALSE)
<1>1. /\ Front(path) # path /\ Front(path) \in Path
      /\ IsMatcher(m, ids) /\ c \in Nat /\ ids \subseteq Nat
  BY FrontIs DEF Path, Gains, IsMatcher
<1>2. ASSUME NEW x
      PROVE  Match(x, path, FALSE) = IF exact(x) # {} THEN Min(exact(x))
                ELSE IF IsPoint(x, path) THEN Judge(x, path, FALSE).hit
                ELSE IF j(x).hit # None THEN j(x).hit
                ELSE last(x, j(x).skip)
  BY <1>1 DEF Match, MatchUnder, MatchBy, MatchFile
<1>3. exact(m) = {}
  <2>1. exact(m) \subseteq ids
    BY <1>1 DEF IsMatcher
  <2>. HIDE DEF exact, last, j
  <2>2. exact(m) # {} => Min(exact(m)) \in exact(m)
    BY <1>1, <2>1, MinIsIn
  <2>. QED
    BY <1>1, <1>2, <2>1, <2>2, BookAssumption
<1>4. exact(n) \subseteq {c}
  BY <1>3 DEF Gains
<1>5. ASSUME exact(n) # {} PROVE Match(n, path, FALSE) = c
  <2>. HIDE DEF exact, last, j
  <2>1. Min(exact(n)) \in exact(n)
    BY <1>1, <1>4, <1>5, MinIsIn
  <2>. QED
    BY <1>2, <1>4, <1>5, <2>1
<1>6. TurnsInto(Judge(m, path, FALSE), Judge(n, path, FALSE), c)
  BY JudgeJoins
<1>7. TurnsInto(j(m), j(n), c)
  BY <1>1, DescentJoins
<1>8. IsPoint(m, path) => IsPoint(n, path)
  BY DEF IsPoint, FoldersAt, Gains
<1>9. ASSUME NEW skip, last(m, skip) = None PROVE last(n, skip) \in {None, c}
  <2>1. \A no, k : Patterns(m, path, k, no, skip, no) = None =>
                    Patterns(n, path, k, no, skip, no) \in {None, c}
    <3>. TAKE no, k
    <3>. HAVE Patterns(m, path, k, no, skip, no) = None
    <3>1. \/ Patterns(n, path, k, no, skip, no) = None
          \/ Patterns(n, path, k, no, skip, no) = c
      BY PatternsJoin
    <3>. QED
      BY <3>1
  <2>. QED
    BY <1>9, <2>1
<1>. HIDE DEF exact, j, last
<1>10. CASE exact(n) = {} /\ IsPoint(m, path)
  <2>1. Match(m, path, FALSE) = Judge(m, path, FALSE).hit
    BY <1>2, <1>3, <1>10
  <2>2. Match(n, path, FALSE) = Judge(n, path, FALSE).hit
    BY <1>2, <1>8, <1>10
  <2>. QED
    BY <1>6, <2>1, <2>2 DEF TurnsInto
<1>11. CASE exact(n) = {} /\ ~IsPoint(m, path) /\ IsPoint(n, path)
  <2>1. IsPoint(n, path) /\ ~IsPoint(m, path)
    BY <1>11
  <2>2. \A no \in BOOLEAN : Judge(n, path, no).hit = c
    BY <2>1, NewFolderHits
  <2>. QED
    BY <1>2, <1>11, <2>2
<1>12. CASE exact(n) = {} /\ ~IsPoint(n, path)
  <2>1. j(m).hit = None /\ last(m, j(m).skip) = None
    BY <1>2, <1>3, <1>8, <1>12
  <2>2. /\ j(n).hit = c \/ (j(n).hit = None /\ j(n).skip = j(m).skip)
    BY <1>7, <2>1 DEF TurnsInto
  <2>3. last(n, j(m).skip) \in {None, c}
    BY <1>9, <2>1
  <2>4. Match(n, path, FALSE) = IF j(n).hit # None THEN j(n).hit ELSE last(n, j(n).skip)
    BY <1>2, <1>12
  <2>5. c # None
    BY <1>1, BookAssumption
  <2>. QED
    BY <2>2, <2>3, <2>4, <2>5
<1>. QED
  BY <1>5, <1>10, <1>11, <1>12

LEMMA InodeJoins ==
  ASSUME NEW ids, NEW c, NEW m, NEW n, Gains(n, m, c, ids), NEW inode,
         MatchInode(m, inode) = None
  PROVE  MatchInode(n, inode) = None
<1>. DEFINE S(x) == {f.id : f \in {g \in x.files : g.inode # None /\ g.inode = inode}}
<1>1. S(m) \subseteq ids /\ ids \subseteq Nat
  BY DEF IsMatcher, Gains
<1>2. \A x \in S(n) : x \in S(m)
  BY DEF Gains
<1>3. MatchInode(m, inode) = LowestId(S(m)) /\ MatchInode(n, inode) = LowestId(S(n))
  BY DEF MatchInode
<1>. HIDE DEF S
<1>4. S(m) = {}
  BY <1>1, <1>3, LowestIs
<1>5. S(n) = S(m)
  BY <1>2, <1>4
<1>. QED
  BY <1>3, <1>5

\* The matcher of the rules and one more that is in no group and names no inode.
LEMMA CandidateJoins ==
  ASSUME NEW rs, Bounded(DOMAIN rs), NEW gs, NEW ts, NEW kind, NEW value
  PROVE  LET row == [kind |-> kind, value |-> value, group |-> None, root |-> None,
                     inode |-> None, enabled |-> TRUE, builtin |-> FALSE]
         IN  Gains(MatcherOf(Insert(rs, row), gs, ts), MatcherOf(rs, gs, ts),
                   NextId(rs), DOMAIN rs)
<1>. DEFINE row == [kind |-> kind, value |-> value, group |-> None, root |-> None,
                    inode |-> None, enabled |-> TRUE, builtin |-> FALSE]
            ns == Insert(rs, row)
            c == NextId(rs)
            lg == LoadGroups(gs, Builtins)
            old == LoadRules(rs, ts)
            new == LoadRules(ns, ts)
            live(x) == Live(x, lg)
            inc == IncludeSet(lg, EnabledRoots(ts))
            pats(x) == CompiledPatterns(live(x), lg)
<1>1. /\ c \in Nat \ DOMAIN rs /\ DOMAIN rs \subseteq Nat
      /\ DOMAIN ns = DOMAIN rs \cup {c} /\ ns[c] = row
      /\ \A x \in DOMAIN rs : ns[x] = rs[x]
  <2>1. /\ DOMAIN Insert(rs, row) = DOMAIN rs \cup {NextId(rs)}
        /\ Insert(rs, row)[NextId(rs)] = row
        /\ \A x \in DOMAIN rs : Insert(rs, row)[x] = rs[x]
        /\ \A Row : rs \in Table(Row) /\ row \in Row => Insert(rs, row) \in Table(Row)
    <3>. HIDE DEF row
    <3>. QED
      BY InsertIs
  <2>2. NextId(rs) \in Nat \ {0} /\ NextId(rs) \notin DOMAIN rs
    BY NextIdIs
  <2>3. DOMAIN rs \subseteq Nat
    BY DEF Bounded
  <2>. QED
    BY <2>1, <2>2, <2>3
<1>. HIDE DEF ns, c, lg
<1>2. /\ DOMAIN old = DOMAIN rs /\ DOMAIN new = DOMAIN rs \cup {c}
      /\ \A x \in DOMAIN rs : new[x] = old[x]
      /\ new[c].group = None /\ new[c].inode = None
  <2>1. DOMAIN old = DOMAIN rs /\ DOMAIN new = DOMAIN ns
    BY DEF LoadRules
  <2>2. \A x \in DOMAIN rs : new[x] = old[x]
    BY <1>1 DEF LoadRules
  <2>3. new[c] = [row EXCEPT !.root = IF @ = None THEN None ELSE ts[@].path]
    BY <1>1 DEF LoadRules
  <2>. QED
    BY <1>1, <2>1, <2>2, <2>3
<1>. HIDE DEF old, new
<1>3. /\ DOMAIN live(old) = DOMAIN live(new) \ {c} /\ DOMAIN live(new) \subseteq DOMAIN new
      /\ \A x \in DOMAIN live(old) : live(new)[x] = live(old)[x]
      /\ c \in DOMAIN live(new) => live(new)[c] = new[c]
  BY <1>1, <1>2 DEF Live, Restrict
<1>. HIDE DEF live
<1>4. c \in DOMAIN live(new) => /\ live(new)[c].group = None /\ live(new)[c].inode = None
                                /\ IsSoft(live(new)[c], lg) = FALSE
  BY <1>2, <1>3 DEF IsSoft
<1>5. ASSUME NEW k
      PROVE  /\ Places(live(old), lg, k) \subseteq Places(live(new), lg, k)
             /\ \A f \in Places(live(new), lg, k) \ Places(live(old), lg, k) :
                   f.id = c /\ ~f.soft /\ f.inode = None
  <2>. DEFINE at(x, id) == {[id |-> id, path |-> path, soft |-> IsSoft(x[id], lg),
                             inode |-> x[id].inode] : path \in RulePath(x[id])}
              of(x) == {id \in DOMAIN x : x[id].kind = k}
  <2>1. \A x : Places(x, lg, k) = UNION {at(x, id) : id \in of(x)}
    BY DEF Places
  <2>2. \A id \in of(live(old)) : id \in of(live(new)) /\ at(live(new), id) = at(live(old), id)
    BY <1>3
  <2>3. \A id \in of(live(new)) : id = c \/ id \in of(live(old))
    BY <1>3
  <2>4. c \in of(live(new)) => \A f \in at(live(new), c) : f.id = c /\ ~f.soft /\ f.inode = None
    BY <1>4
  <2>. HIDE DEF at, of
  <2>. QED
    BY <2>1, <2>2, <2>3, <2>4
<1>6. /\ \A p \in pats(new) \ pats(old) : p.id = c /\ ~p.soft
      /\ pats(old) \subseteq pats(new)
  <2>. DEFINE of(x) == {id \in DOMAIN x : x[id].kind = "pattern"}
  <2>1. \A x : pats(x) = {CompiledPattern(id, live(x)[id], lg) : id \in of(live(x))}
    BY DEF CompiledPatterns
  <2>2. \A id \in of(live(old)) : id \in of(live(new)) /\ live(new)[id] = live(old)[id]
    BY <1>3
  <2>3. \A id \in of(live(new)) : id = c \/ id \in of(live(old))
    BY <1>3
  <2>4. c \in of(live(new)) => CompiledPattern(c, live(new)[c], lg).id = c
                               /\ ~CompiledPattern(c, live(new)[c], lg).soft
    BY <1>4 DEF CompiledPattern
  <2>. HIDE DEF of
  <2>. QED
    BY <2>1, <2>2, <2>3, <2>4
<1>. HIDE DEF pats, inc
<1>7. \A i : SuppressedAt(pats(new), i) = SuppressedAt(pats(old), i)
  BY <1>6 DEF SuppressedAt
<1>8. ASSUME NEW x
      PROVE  Matcher(live(x), lg, inc, pats(x)) =
                [includes |-> inc, patterns |-> pats(x),
                 folders |-> Places(live(x), lg, "folder"), files |-> Places(live(x), lg, "file"),
                 suppress |-> [i \in inc |-> SuppressedAt(pats(x), i)]]
  BY DEF Matcher
<1>9. /\ MatcherOf(rs, gs, ts) = Matcher(live(old), lg, inc, pats(old))
      /\ MatcherOf(ns, gs, ts) = Matcher(live(new), lg, inc, pats(new))
  BY DEF MatcherOf, Compile, CompileLive, live, old, new, lg, inc, pats
<1>10. IsMatcher(MatcherOf(rs, gs, ts), DOMAIN rs) /\ IsMatcher(MatcherOf(ns, gs, ts), DOMAIN rs \cup {c})
  <2>1. DOMAIN ns \subseteq Nat
    BY <1>1
  <2>. QED
    BY <1>1, <2>1, MatcherOfIs
<1>11. Gains(MatcherOf(ns, gs, ts), MatcherOf(rs, gs, ts), c, DOMAIN rs)
  BY <1>1, <1>5, <1>6, <1>7, <1>8, <1>9, <1>10 DEF Gains
<1>. QED
  BY <1>11 DEF ns, c

=============================================================================
