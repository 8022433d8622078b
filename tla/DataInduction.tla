--------------------------- MODULE DataInduction ---------------------------
(***************************************************************************)
(* Induction without an operator as a parameter.  The induction theorems   *)
(* of the library take the predicate as an operator; here it is the set of *)
(* numbers that satisfy it, which any proof can name with DEFINE.  All     *)
(* proofs about recursive functions of the models go through this module.  *)
(* So do those about the folds over sequences: what FoldLeft chooses is a  *)
(* function on sets of positions, and it is the one that was meant.        *)
(***************************************************************************)
EXTENDS Integers, FiniteSetsExt, FiniteSetTheorems, SequenceTheorems, WellFoundedInduction, TLAPS

\* Every nonempty set of natural numbers has a least element.
LEMMA LeastNumber ==
    ASSUME NEW T, T \subseteq Nat, T # {}
    PROVE  \E n \in T : \A m \in T : n <= m
<1>1. IsWellFoundedOn(OpToRel(<, Nat), Nat)
  BY NatLessThanWellFounded
<1> DEFINE R == OpToRel(<, Nat)
<1>2. \E x \in T : \A y \in T : ~ (<<y, x>> \in R)
  <2> HIDE DEF R
  <2>1. IsWellFoundedOn(R, Nat)
    BY <1>1 DEF R
  <2> QED
    BY <2>1, WFMin
<1>3. PICK x \in T : \A y \in T : ~ (<<y, x>> \in R)
  BY <1>2
<1>4. \A y \in T : ~ (y < x)
  BY <1>3 DEF OpToRel
<1> QED
  BY <1>4

\* Induction: a set that has 0, and with a number the next one, has them all.
LEMMA SetInduction ==
    ASSUME NEW S, S \subseteq Nat, 0 \in S,
           \A n \in Nat : n \in S => n + 1 \in S
    PROVE  S = Nat
<1> SUFFICES ASSUME S # Nat PROVE FALSE
  OBVIOUS
<1> DEFINE T == Nat \ S
<1>1. T \subseteq Nat /\ T # {}
  OBVIOUS
<1>2. PICK n \in T : \A m \in T : n <= m
  <2> HIDE DEF T
  <2> QED BY <1>1, LeastNumber
<1>3. n \in Nat /\ n # 0 /\ n \notin S
  OBVIOUS
<1>4. n - 1 \in Nat /\ ~(n <= n - 1)
  BY <1>3
<1>5. n - 1 \in S
  BY <1>2, <1>4
<1>6. (n - 1) + 1 = n
  BY <1>3
<1> QED
  BY <1>3, <1>4, <1>5, <1>6

\* Every nonempty finite set of numbers has a greatest element.
LEMMA GreatestNumber ==
    ASSUME NEW T, T \subseteq Int, T # {}, IsFiniteSet(T)
    PROVE  \E n \in T : \A m \in T : m <= n
<1>1. PICK seq \in Seq(T) : \A s \in T : \E n \in 1 .. Len(seq) : seq[n] = s
  BY DEF IsFiniteSet
<1> DEFINE Greatest(n) == \E i \in 1 .. n : \A j \in 1 .. n : seq[j] <= seq[i]
           S == {n \in Nat : n \in 1 .. Len(seq) => Greatest(n)}
<1>2. Len(seq) \in Nat /\ \A i \in 1 .. Len(seq) : seq[i] \in T /\ seq[i] \in Int
  <2>1. Len(seq) \in Nat
    BY <1>1, LenProperties
  <2>2. \A i \in 1 .. Len(seq) : seq[i] \in T
    BY <1>1, ElementOfSeq
  <2> QED
    BY <2>1, <2>2
<1>3. ASSUME NEW n \in Nat, n \in S PROVE n + 1 \in S
  <2> SUFFICES ASSUME n + 1 \in 1 .. Len(seq) PROVE Greatest(n + 1)
    OBVIOUS
  <2>1. \A i \in 1 .. (n + 1) : seq[i] \in Int
    BY <1>2
  <2>2. CASE n = 0
    <3>1. 1 \in 1 .. (n + 1) /\ \A j \in 1 .. (n + 1) : j = 1
      BY <2>2
    <3>2. \A j \in 1 .. (n + 1) : seq[j] <= seq[1]
      BY <2>1, <3>1
    <3> QED
      BY <3>1, <3>2
  <2>3. CASE n # 0
    <3>1. PICK i \in 1 .. n : \A j \in 1 .. n : seq[j] <= seq[i]
      BY <1>3, <1>2, <2>3
    <3>2. CASE seq[i] <= seq[n + 1]
      <4>1. \A j \in 1 .. (n + 1) : seq[j] <= seq[n + 1]
        BY <2>1, <3>1, <3>2
      <4> QED
        BY <4>1
    <3>3. CASE ~(seq[i] <= seq[n + 1])
      <4>1. \A j \in 1 .. (n + 1) : seq[j] <= seq[i]
        BY <2>1, <3>1, <3>3
      <4> QED
        BY <4>1
    <3> QED
      BY <3>2, <3>3
  <2> QED
    BY <2>2, <2>3
<1>4. S \subseteq Nat /\ 0 \in S
  BY <1>2
<1>5. S = Nat
  <2> HIDE DEF S
  <2> QED BY <1>3, <1>4, SetInduction
<1>6. Len(seq) \in S /\ Len(seq) # 0
  <2>1. PICK t \in T : TRUE
    OBVIOUS
  <2>2. PICK n \in 1 .. Len(seq) : seq[n] = t
    BY <1>1
  <2>3. Len(seq) # 0
    BY <1>2, <2>2
  <2> QED
    BY <1>2, <1>5, <2>3
<1>7. Greatest(Len(seq))
  BY <1>2, <1>6
<1> QED
  BY <1>1, <1>2, <1>7

\* The values of a function with a finite domain are finitely many.
LEMMA FiniteImage ==
    ASSUME NEW S, IsFiniteSet(S), NEW f, DOMAIN f = S
    PROVE  IsFiniteSet({f[x] : x \in S})
<1> DEFINE T == {f[x] : x \in S}
           g == [x \in S |-> f[x]]
<1>1. g \in [S -> T] /\ \A t \in T : \E x \in S : g[x] = t
  OBVIOUS
<1>2. g \in Surjection(S, T)
  BY <1>1 DEF Surjection
<1> HIDE DEF g, T
<1>3. IsFiniteSet(T)
  BY <1>2, FS_Surjection
<1> QED
  BY <1>3 DEF T

\* f begins with a, and H[n] leads from its value for n to the one for n + 1.
Computes(f, a, H) == f[0] = a /\ \A n \in Nat : f[n + 1] = H[n][f[n]]

\* Recursion: there is such a function.  The step is a function too, so that no
\* operator is a parameter.
LEMMA Recursion ==
    ASSUME NEW V, NEW a \in V, NEW H \in [Nat -> [V -> V]]
    PROVE  \E f \in [Nat -> V] : Computes(f, a, H)
<1> DEFINE Partial(n) == {g \in [0 .. n -> V] :
                             g[0] = a /\ \A i \in Nat : i + 1 <= n => g[i + 1] = H[i][g[i]]}
           Some == {n \in Nat : Partial(n) # {}}
           Same == {i \in Nat : \A n, m \in Nat : \A g \in Partial(n), h \in Partial(m) :
                                   i <= n /\ i <= m => g[i] = h[i]}
<1>1. Some = Nat
  <2>1. 0 \in Some
    <3>1. [i \in 0 .. 0 |-> a] \in Partial(0)
      OBVIOUS
    <3> QED
      BY <3>1
  <2>2. ASSUME NEW n \in Nat, n \in Some PROVE n + 1 \in Some
    <3>1. PICK g \in Partial(n) : TRUE
      BY <2>2
    <3> DEFINE h == [i \in 0 .. (n + 1) |-> IF i <= n THEN g[i] ELSE H[n][g[n]]]
    <3>2. \A i \in 0 .. n : g[i] \in V
      BY <3>1
    <3>3. n \in 0 .. n /\ 0 \in 0 .. n /\ H[n][g[n]] \in V
      BY <3>2
    <3>4. h \in [0 .. (n + 1) -> V]
      <4>1. ASSUME NEW i \in 0 .. (n + 1) PROVE h[i] \in V
        BY <3>2, <3>3
      <4> QED
        BY <4>1
    <3>5. h[0] = a
      BY <3>1
    <3>6. ASSUME NEW i \in Nat, i + 1 <= n + 1 PROVE h[i + 1] = H[i][h[i]]
      <4>1. i <= n /\ h[i] = g[i]
        BY <3>6
      <4>2. CASE i + 1 <= n
        <5>1. h[i + 1] = g[i + 1]
          BY <4>2
        <5>2. g[i + 1] = H[i][g[i]]
          BY <3>1, <4>2
        <5> QED
          BY <4>1, <5>1, <5>2
      <4>3. CASE ~(i + 1 <= n)
        <5>1. i = n
          BY <4>1, <4>3
        <5>2. h[n + 1] = H[n][g[n]]
          OBVIOUS
        <5> QED
          BY <4>1, <5>1, <5>2
      <4> QED
        BY <4>2, <4>3
    <3>7. h \in Partial(n + 1)
      <4> HIDE DEF h
      <4> QED BY <3>4, <3>5, <3>6
    <3> HIDE DEF h, Partial
    <3> QED
      BY <3>7
  <2> HIDE DEF Some
  <2>3. Some \subseteq Nat
    BY DEF Some
  <2> QED
    BY <2>1, <2>2, <2>3, SetInduction
<1>2. Same = Nat
  <2>1. 0 \in Same
    OBVIOUS
  <2>2. ASSUME NEW i \in Nat, i \in Same PROVE i + 1 \in Same
    <3>1. ASSUME NEW n \in Nat, NEW m \in Nat, NEW g \in Partial(n), NEW h \in Partial(m),
                 i + 1 <= n, i + 1 <= m
          PROVE  g[i + 1] = h[i + 1]
      <4>1. i <= n /\ i <= m
        BY <3>1
      <4>2. g[i] = h[i]
        <5> HIDE DEF Partial
        <5> QED BY <2>2, <4>1
      <4>3. g[i + 1] = H[i][g[i]] /\ h[i + 1] = H[i][h[i]]
        BY <3>1
      <4> QED
        BY <4>2, <4>3
    <3> HIDE DEF Partial
    <3> QED
      BY <3>1
  <2> HIDE DEF Same
  <2>3. Same \subseteq Nat
    BY DEF Same
  <2> QED
    BY <2>1, <2>2, <2>3, SetInduction
<1> DEFINE G(n) == CHOOSE g \in Partial(n) : TRUE
           f == [n \in Nat |-> G(n)[n]]
<1>3. \A n \in Nat : G(n) \in Partial(n)
  BY <1>1
<1> HIDE DEF G
<1>4. ASSUME NEW n \in Nat PROVE f[n] \in V
  <2>1. G(n) \in [0 .. n -> V] /\ n \in 0 .. n
    BY <1>3
  <2> QED
    BY <2>1
<1>5. f[0] = a
  BY <1>3
<1>6. ASSUME NEW n \in Nat PROVE f[n + 1] = H[n][f[n]]
  <2>1. G(n + 1)[n + 1] = H[n][G(n + 1)[n]]
    BY <1>3
  <2>2. G(n + 1)[n] = G(n)[n]
    <3>1. n + 1 \in Nat /\ n <= n /\ n <= n + 1
      OBVIOUS
    <3>2. G(n) \in Partial(n) /\ G(n + 1) \in Partial(n + 1)
      BY <1>3
    <3>3. n \in Same
      <4> HIDE DEF Same
      <4> QED BY <1>2
    <3> HIDE DEF Partial
    <3> QED
      BY <3>1, <3>2, <3>3
  <2> QED
    BY <2>1, <2>2
<1>7. f \in [Nat -> V]
  BY <1>4
<1> HIDE DEF f
<1> QED
  BY <1>5, <1>6, <1>7 DEF Computes

-----------------------------------------------------------------------------
(* Folds over positions. *)

\* The largest of a nonempty set of positions is one of them, and they are fewer
\* without it.
LEMMA LargestOne ==
    ASSUME NEW n \in Nat, NEW s \in SUBSET (1 .. n), s # {}
    PROVE  /\ Max(s) \in s /\ \A i \in s : i <= Max(s)
           /\ IsFiniteSet(s) /\ Cardinality(s) \in Nat \ {0}
           /\ Cardinality(s \ {Max(s)}) = Cardinality(s) - 1
<1>1. IsFiniteSet(1 .. n)
  BY FS_Interval
<1>2. IsFiniteSet(s)
  BY <1>1, FS_Subset
<1>3. PICK m \in s : \A i \in s : i <= m
  <2>1. s \subseteq Int
    OBVIOUS
  <2> QED
    BY <1>2, <2>1, GreatestNumber
<1> DEFINE G(x) == x \in s /\ \A i \in s : x >= i
<1>4. G(m)
  BY <1>3
<1>5. Max(s) = CHOOSE x : G(x)
  BY DEF Max
<1> HIDE DEF G
<1>6. G(Max(s))
  BY <1>4, <1>5
<1>7. Max(s) \in s /\ \A i \in s : i <= Max(s)
  BY <1>6 DEF G
<1>8. Cardinality(s) \in Nat /\ Cardinality(s) # 0
  BY <1>2, FS_CardinalityType, FS_EmptySet
<1>9. Cardinality(s \ {Max(s)}) = Cardinality(s) - 1
  BY <1>2, <1>7, FS_RemoveElement
<1> QED
  BY <1>2, <1>7, <1>8, <1>9

\* f on the sets of the first n positions: a for none, and H of the largest one after
\* the others.
FoldOf(f, n, V, a, H) ==
    /\ f \in [SUBSET (1 .. n) -> V]
    /\ f[{}] = a
    /\ \A s \in SUBSET (1 .. n) : s # {} => f[s] = H[Max(s)][f[s \ {Max(s)}]]

\* A fold over positions: there is the function on sets of positions that takes
\* the largest position last.
LEMMA Folding ==
    ASSUME NEW n \in Nat, NEW V, NEW a \in V, NEW H \in [1 .. n -> [V -> V]]
    PROVE  \E f : FoldOf(f, n, V, a, H)
<1> DEFINE P == SUBSET (1 .. n)
           W == [P -> V]
           Next1(g) == [s \in P |-> IF s = {} THEN a ELSE H[Max(s)][g[s \ {Max(s)}]]]
           K == [j \in Nat |-> [g \in W |-> Next1(g)]]
           b == [s \in P |-> a]
<1>1. \A s \in P : s # {} => Max(s) \in 1 .. n /\ s \ {Max(s)} \in P
  BY LargestOne
<1>2. ASSUME NEW g \in W PROVE Next1(g) \in W
  <2>1. ASSUME NEW s \in P, s # {} PROVE H[Max(s)][g[s \ {Max(s)}]] \in V
    BY <1>1, <2>1
  <2> QED
    BY <2>1
<1>3. K \in [Nat -> [W -> W]] /\ b \in W
  BY <1>2
<1>4. PICK F \in [Nat -> W] : Computes(F, b, K)
  <2> HIDE DEF K, W, b
  <2> QED BY <1>3, Recursion
<1>5. F[0] = b /\ \A j \in Nat : F[j + 1] = Next1(F[j])
  <2>1. F[0] = b /\ \A j \in Nat : F[j + 1] = K[j][F[j]]
    BY <1>4 DEF Computes
  <2> QED
    BY <1>4, <2>1
<1>6. \A j \in Nat : \A s \in P : F[j + 1][s] = IF s = {} THEN a ELSE H[Max(s)][F[j][s \ {Max(s)}]]
  <2> SUFFICES ASSUME NEW j \in Nat, NEW s \in P
               PROVE  F[j + 1][s] = IF s = {} THEN a ELSE H[Max(s)][F[j][s \ {Max(s)}]]
    OBVIOUS
  <2>1. F[j + 1] = Next1(F[j])
    BY <1>5
  <2> HIDE DEF P
  <2> QED
    BY <2>1
<1> DEFINE S == {j \in Nat : \A s \in P : Cardinality(s) <= j => F[j + 1][s] = F[j][s]}
<1>7. 0 \in S
  <2>1. ASSUME NEW s \in P, Cardinality(s) <= 0 PROVE F[0 + 1][s] = F[0][s]
    <3>1. s = {}
      <4> SUFFICES ASSUME s # {} PROVE FALSE
        OBVIOUS
      <4>1. Cardinality(s) \in Nat \ {0}
        BY LargestOne
      <4> QED
        BY <2>1, <4>1
    <3>2. F[0 + 1][s] = a
      BY <1>6, <3>1
    <3>3. F[0][s] = a
      BY <1>5
    <3> QED
      BY <3>2, <3>3
  <2> QED
    BY <2>1
<1>8. ASSUME NEW j \in Nat, j \in S PROVE j + 1 \in S
  <2>1. ASSUME NEW s \in P, Cardinality(s) <= j + 1 PROVE F[(j + 1) + 1][s] = F[j + 1][s]
    <3>0. j + 1 \in Nat
      OBVIOUS
    <3> HIDE DEF P
    <3>1. CASE s = {}
      BY <1>6, <3>0, <3>1
    <3>2. CASE s # {}
      <4>1. Cardinality(s \ {Max(s)}) <= j
        <5>1. Cardinality(s \ {Max(s)}) = Cardinality(s) - 1 /\ Cardinality(s) \in Nat
          BY <3>2, LargestOne DEF P
        <5> QED
          BY <2>1, <5>1
      <4>2. F[j + 1][s \ {Max(s)}] = F[j][s \ {Max(s)}]
        BY <1>1, <1>8, <3>2, <4>1
      <4>3. /\ F[(j + 1) + 1][s] = H[Max(s)][F[j + 1][s \ {Max(s)}]]
            /\ F[j + 1][s] = H[Max(s)][F[j][s \ {Max(s)}]]
        BY <1>6, <3>0, <3>2
      <4> QED
        BY <4>2, <4>3
    <3> QED
      BY <3>1, <3>2
  <2> QED
    BY <2>1
<1>9. S = Nat
  <2>1. S \subseteq Nat
    OBVIOUS
  <2> HIDE DEF S
  <2> QED BY <1>7, <1>8, <2>1, SetInduction
<1>10. \A s \in P : Cardinality(s) <= n
  <2>1. IsFiniteSet(1 .. n) /\ Cardinality(1 .. n) = n
    BY FS_Interval
  <2>2. ASSUME NEW s \in SUBSET (1 .. n) PROVE Cardinality(s) <= Cardinality(1 .. n)
    BY <2>1, FS_Subset
  <2> QED
    BY <2>1, <2>2
<1>11. \A s \in P : F[n + 1][s] = F[n][s]
  BY <1>9, <1>10
<1>12. F[n] \in W /\ {} \in P
  OBVIOUS
<1>13. F[n][{}] = a
  BY <1>6, <1>11, <1>12
<1>14. \A s \in P : s # {} => F[n][s] = H[Max(s)][F[n][s \ {Max(s)}]]
  BY <1>6, <1>11
<1> QED
  BY <1>12, <1>13, <1>14 DEF FoldOf

\* Induction over the number of positions: what holds for none, and with the others
\* for a set, holds for all.
LEMMA PositionsInduction ==
    ASSUME NEW n \in Nat, NEW w, NEW U, w[{}] \in U[0],
           \A s \in SUBSET (1 .. n) :
               s # {} /\ w[s \ {Max(s)}] \in U[Cardinality(s) - 1] => w[s] \in U[Cardinality(s)]
    PROVE  \A s \in SUBSET (1 .. n) : w[s] \in U[Cardinality(s)]
<1> DEFINE P == SUBSET (1 .. n)
           S == {j \in Nat : \A s \in P : Cardinality(s) = j => w[s] \in U[j]}
<1>1. 0 \in S
  <2>1. ASSUME NEW s \in P, Cardinality(s) = 0 PROVE w[s] \in U[0]
    <3>1. s = {}
      <4> SUFFICES ASSUME s # {} PROVE FALSE
        OBVIOUS
      <4>1. Cardinality(s) \in Nat \ {0}
        BY LargestOne
      <4> QED
        BY <2>1, <4>1
    <3> QED
      BY <3>1
  <2> QED
    BY <2>1
<1>2. ASSUME NEW j \in Nat, j \in S PROVE j + 1 \in S
  <2>1. ASSUME NEW s \in P, Cardinality(s) = j + 1 PROVE w[s] \in U[j + 1]
    <3>1. s # {}
      BY <2>1, FS_EmptySet
    <3>2. Cardinality(s \ {Max(s)}) = Cardinality(s) - 1
      BY <3>1, LargestOne
    <3>3. Cardinality(s) - 1 = j
      BY <2>1
    <3>4. s \ {Max(s)} \in P
      OBVIOUS
    <3>5. w[s \ {Max(s)}] \in U[j]
      <4> HIDE DEF P
      <4> QED BY <1>2, <3>2, <3>3, <3>4
    <3> QED
      BY <2>1, <3>1, <3>3, <3>5
  <2> QED
    BY <2>1
<1>3. S = Nat
  <2>1. S \subseteq Nat
    OBVIOUS
  <2> HIDE DEF S
  <2> QED BY <1>1, <1>2, <2>1, SetInduction
<1>4. ASSUME NEW s \in P PROVE Cardinality(s) \in Nat
  <2>1. CASE s = {}
    BY <2>1, FS_EmptySet
  <2>2. CASE s # {}
    BY <2>2, LargestOne
  <2> QED
    BY <2>1, <2>2
<1> HIDE DEF P
<1>5. ASSUME NEW s \in P PROVE w[s] \in U[Cardinality(s)]
  BY <1>3, <1>4
<1> QED
  BY <1>5 DEF P

\* w begins with a, and is H of the largest position if it was in V before.
Accumulates(w, n, V, a, H) ==
    /\ w = [s \in SUBSET (1 .. n) |-> w[s]]
    /\ w[{}] = a
    /\ \A s \in SUBSET (1 .. n) :
          s # {} /\ w[s \ {Max(s)}] \in V => w[s] = H[Max(s)][w[s \ {Max(s)}]]

\* Then it is a fold.
LEMMA IsFold ==
    ASSUME NEW n \in Nat, NEW V, NEW a \in V, NEW H \in [1 .. n -> [V -> V]], NEW w,
           Accumulates(w, n, V, a, H)
    PROVE  FoldOf(w, n, V, a, H)
<1> USE DEF Accumulates
<1> DEFINE U == [c \in 0 .. n |-> V]
<1>1. \A s \in SUBSET (1 .. n) : Cardinality(s) \in 0 .. n /\ (s # {} => Cardinality(s) - 1 \in 0 .. n)
  <2>1. IsFiniteSet(1 .. n) /\ Cardinality(1 .. n) = n
    BY FS_Interval
  <2> SUFFICES ASSUME NEW s \in SUBSET (1 .. n)
               PROVE  Cardinality(s) \in 0 .. n /\ (s # {} => Cardinality(s) - 1 \in 0 .. n)
    OBVIOUS
  <2>2. Cardinality(s) <= n
    <3>1. Cardinality(s) <= Cardinality(1 .. n)
      BY <2>1, FS_Subset
    <3> QED
      BY <2>1, <3>1
  <2>3. CASE s = {}
    BY <2>3, FS_EmptySet
  <2>4. CASE s # {}
    <3>1. Cardinality(s) \in Nat \ {0}
      BY <2>4, LargestOne
    <3> QED
      BY <2>2, <3>1
  <2> QED
    BY <2>3, <2>4
<1>2. w[{}] \in U[0]
  OBVIOUS
<1>3. \A s \in SUBSET (1 .. n) :
          s # {} /\ w[s \ {Max(s)}] \in U[Cardinality(s) - 1] => w[s] \in U[Cardinality(s)]
  <2> SUFFICES ASSUME NEW s \in SUBSET (1 .. n), s # {}, w[s \ {Max(s)}] \in U[Cardinality(s) - 1]
               PROVE  w[s] \in U[Cardinality(s)]
    OBVIOUS
  <2>1. w[s \ {Max(s)}] \in V /\ U[Cardinality(s)] = V
    BY <1>1
  <2>2. Max(s) \in 1 .. n
    BY LargestOne
  <2>3. w[s] = H[Max(s)][w[s \ {Max(s)}]]
    BY <2>1
  <2> QED
    BY <2>1, <2>2, <2>3
<1> HIDE DEF U
<1>4. \A s \in SUBSET (1 .. n) : w[s] \in U[Cardinality(s)]
  BY <1>2, <1>3, PositionsInduction
<1>5. \A s \in SUBSET (1 .. n) : w[s] \in V
  BY <1>1, <1>4 DEF U
<1>6. w \in [SUBSET (1 .. n) -> V]
  BY <1>5
<1>7. \A s \in SUBSET (1 .. n) : s # {} => w[s] = H[Max(s)][w[s \ {Max(s)}]]
  BY <1>5
<1> QED
  BY <1>6, <1>7 DEF FoldOf

\* Taking the largest position from the first k leaves the first k - 1.
LEMMA FirstPositions ==
    ASSUME NEW n \in Nat, NEW k \in 1 .. n
    PROVE  /\ 1 .. k \in SUBSET (1 .. n) /\ 1 .. k # {} /\ Max(1 .. k) = k
           /\ (1 .. k) \ {k} = 1 .. (k - 1)
<1>1. 1 .. k \in SUBSET (1 .. n) /\ k \in 1 .. k
  OBVIOUS
<1>2. 1 .. k # {}
  BY <1>1
<1>3. Max(1 .. k) \in 1 .. k /\ \A i \in 1 .. k : i <= Max(1 .. k)
  BY <1>1, <1>2, LargestOne
<1>4. Max(1 .. k) = k
  BY <1>1, <1>3
<1>5. (1 .. k) \ {k} = 1 .. (k - 1)
  OBVIOUS
<1> QED
  BY <1>1, <1>2, <1>4, <1>5

\* What w is of all positions f computes from a by the steps H.
Stepwise(w, f, n, V, a, H) ==
    f \in [0 .. n -> V] /\ f[n] = w[1 .. n] /\ f[0] = a /\ \A k \in 1 .. n : f[k] = H[k][f[k - 1]]

\* So a fold is computed step by step.
LEMMA FoldSteps ==
    ASSUME NEW n \in Nat, NEW V, NEW a \in V, NEW H \in [1 .. n -> [V -> V]],
           NEW w, FoldOf(w, n, V, a, H)
    PROVE  \E f : Stepwise(w, f, n, V, a, H)
<1> DEFINE f == [k \in 0 .. n |-> w[1 .. k]]
<1>1. ASSUME NEW k \in 0 .. n PROVE w[1 .. k] \in V
  <2>1. 1 .. k \in SUBSET (1 .. n)
    OBVIOUS
  <2> QED
    BY <2>1 DEF FoldOf
<1>2. f \in [0 .. n -> V] /\ \A k \in 0 .. n : f[k] = w[1 .. k]
  BY <1>1
<1> HIDE DEF f
<1>3. f[0] = a
  <2>1. 0 \in 0 .. n /\ 1 .. 0 = {}
    OBVIOUS
  <2> QED
    BY <1>2, <2>1 DEF FoldOf
<1>4. ASSUME NEW k \in 1 .. n PROVE f[k] = H[k][f[k - 1]]
  <2>1. k \in 0 .. n /\ k - 1 \in 0 .. n
    OBVIOUS
  <2>2. f[k] = w[1 .. k] /\ f[k - 1] = w[1 .. (k - 1)]
    BY <1>2, <2>1
  <2>3. w[1 .. k] = H[k][w[1 .. (k - 1)]]
    BY FirstPositions DEF FoldOf
  <2> QED
    BY <2>2, <2>3
<1>5. n \in 0 .. n
  OBVIOUS
<1> QED
  BY <1>2, <1>3, <1>4, <1>5 DEF Stepwise

\* w follows g: if it does for all but the largest position, it does for that as well.
Follows(w, g, n) ==
    /\ w[{}] = g[{}]
    /\ \A s \in SUBSET (1 .. n) : s # {} /\ w[s \ {Max(s)}] = g[s \ {Max(s)}] => w[s] = g[s]

\* Then they are the same.
LEMMA FoldIs ==
    ASSUME NEW n \in Nat, NEW w, NEW g, Follows(w, g, n)
    PROVE  w[1 .. n] = g[1 .. n]
<1> DEFINE same == [s \in SUBSET (1 .. n) |-> IF w[s] = g[s] THEN 1 ELSE 0]
           U == [c \in 0 .. n |-> {1}]
<1>1. \A s \in SUBSET (1 .. n) : Cardinality(s) \in 0 .. n /\ (s # {} => Cardinality(s) - 1 \in 0 .. n)
  <2>1. IsFiniteSet(1 .. n) /\ Cardinality(1 .. n) = n
    BY FS_Interval
  <2> SUFFICES ASSUME NEW s \in SUBSET (1 .. n)
               PROVE  Cardinality(s) \in 0 .. n /\ (s # {} => Cardinality(s) - 1 \in 0 .. n)
    OBVIOUS
  <2>2. Cardinality(s) <= n
    <3>1. Cardinality(s) <= Cardinality(1 .. n)
      BY <2>1, FS_Subset
    <3> QED
      BY <2>1, <3>1
  <2>3. CASE s = {}
    BY <2>3, FS_EmptySet
  <2>4. CASE s # {}
    <3>1. Cardinality(s) \in Nat \ {0}
      BY <2>4, LargestOne
    <3> QED
      BY <2>2, <3>1
  <2> QED
    BY <2>3, <2>4
<1>2. \A s \in SUBSET (1 .. n) : same[s] \in {1} <=> w[s] = g[s]
  OBVIOUS
<1>3. same[{}] \in U[0]
  BY <1>2 DEF Follows
<1>4. ASSUME NEW s \in SUBSET (1 .. n), s # {}, same[s \ {Max(s)}] \in U[Cardinality(s) - 1]
      PROVE  same[s] \in U[Cardinality(s)]
  <2>1. U[Cardinality(s) - 1] = {1} /\ U[Cardinality(s)] = {1}
    BY <1>1, <1>4
  <2>2. s \ {Max(s)} \in SUBSET (1 .. n)
    OBVIOUS
  <2> HIDE DEF U, same
  <2>3. w[s \ {Max(s)}] = g[s \ {Max(s)}]
    BY <1>2, <1>4, <2>1, <2>2
  <2>4. w[s] = g[s]
    BY <1>4, <2>3 DEF Follows
  <2> QED
    BY <1>2, <2>1, <2>4
<1> HIDE DEF U, same
<1>5. \A s \in SUBSET (1 .. n) : same[s] \in U[Cardinality(s)]
  BY <1>3, <1>4, PositionsInduction
<1>6. 1 .. n \in SUBSET (1 .. n)
  OBVIOUS
<1>7. same[1 .. n] \in {1}
  BY <1>1, <1>5, <1>6 DEF U
<1> QED
  BY <1>2, <1>6, <1>7

-----------------------------------------------------------------------------
(* Numbers in their order. *)

\* How many of the rows are not behind r.
Rank(rows, r) == Cardinality({q \in rows : q <= r})

\* The further a row, the higher its rank.
LEMMA Ranks ==
    ASSUME NEW rows, rows \subseteq Nat, IsFiniteSet(rows)
    PROVE  /\ Cardinality(rows) \in Nat
           /\ \A r \in rows : Rank(rows, r) \in 1 .. Cardinality(rows)
           /\ \A r, q \in rows : r < q => Rank(rows, r) < Rank(rows, q)
<1>1. Cardinality(rows) \in Nat
  BY FS_CardinalityType
<1>2. ASSUME NEW r \in rows PROVE Rank(rows, r) \in 1 .. Cardinality(rows)
  <2> DEFINE A == {q \in rows : q <= r}
  <2>1. r \in A /\ A \in SUBSET rows
    OBVIOUS
  <2> HIDE DEF A
  <2>2. IsFiniteSet(A) /\ Cardinality(A) <= Cardinality(rows)
    BY <2>1, FS_Subset
  <2>3. Cardinality(A) \in Nat /\ Cardinality(A) # 0
    BY <2>1, <2>2, FS_CardinalityType, FS_EmptySet
  <2>4. Rank(rows, r) = Cardinality(A)
    BY DEF Rank, A
  <2> QED
    BY <1>1, <2>2, <2>3, <2>4
<1>3. ASSUME NEW r \in rows, NEW q \in rows, r < q PROVE Rank(rows, r) < Rank(rows, q)
  <2> DEFINE A == {p \in rows : p <= r}
             B == {p \in rows : p <= q}
  <2>1. \A p \in rows : p \in Nat /\ (p <= r => p <= q)
    BY <1>3
  <2>2. q \in B /\ ~(q <= r)
    BY <1>3
  <2>3. A \in SUBSET B /\ A # B /\ B \in SUBSET rows
    BY <2>1, <2>2
  <2>4. Rank(rows, r) = Cardinality(A) /\ Rank(rows, q) = Cardinality(B)
    BY DEF Rank
  <2> HIDE DEF A, B
  <2>5. IsFiniteSet(B)
    BY <2>3, FS_Subset
  <2>6. IsFiniteSet(A) /\ Cardinality(A) <= Cardinality(B) /\ (Cardinality(A) = Cardinality(B) => A = B)
    BY <2>3, <2>5, FS_Subset
  <2>7. Cardinality(A) \in Nat /\ Cardinality(B) \in Nat
    BY <2>5, <2>6, FS_CardinalityType
  <2>8. Cardinality(A) # Cardinality(B)
    BY <2>3, <2>6
  <2> QED
    BY <2>4, <2>6, <2>7, <2>8
<1> QED
  BY <1>1, <1>2, <1>3

\* Every rank is that of a row.
LEMMA RankTaken ==
    ASSUME NEW rows, rows \subseteq Nat, IsFiniteSet(rows), NEW k \in 1 .. Cardinality(rows)
    PROVE  \E r \in rows : Rank(rows, r) = k
<1> DEFINE T == {r \in rows : k <= Rank(rows, r)}
<1>0. Cardinality(rows) \in Nat /\ \A r \in rows : r \in Nat /\ Rank(rows, r) \in Nat
  <2>1. Cardinality(rows) \in Nat /\ \A r \in rows : Rank(rows, r) \in 1 .. Cardinality(rows)
    BY Ranks
  <2>2. \A r \in rows : Rank(rows, r) \in Nat
    BY <2>1
  <2> QED
    BY <2>1, <2>2
<1>1. T # {}
  <2>1. rows # {}
    BY <1>0, FS_EmptySet
  <2>2. PICK m \in rows : \A q \in rows : q <= m
    <3>1. rows \subseteq Int
      OBVIOUS
    <3> QED
      BY <2>1, <3>1, GreatestNumber
  <2>3. {q \in rows : q <= m} = rows
    BY <2>2
  <2>4. Rank(rows, m) = Cardinality(rows)
    BY <2>3 DEF Rank
  <2>5. k <= Rank(rows, m)
    BY <1>0, <2>4
  <2> QED
    BY <2>5
<1>2. PICK x \in T : \A y \in T : x <= y
  <2>1. T \subseteq Nat
    OBVIOUS
  <2> HIDE DEF T
  <2> QED
    BY <1>1, <2>1, LeastNumber
<1>3. x \in rows /\ k <= Rank(rows, x) /\ x \in Nat /\ Rank(rows, x) \in Nat /\ k \in Nat /\ k >= 1
  <2>1. k \in Nat /\ k >= 1
    BY <1>0
  <2> QED
    BY <1>0, <1>2, <2>1
<1> DEFINE A == {q \in rows : q <= x}
           B == {q \in rows : q < x}
<1>4. A \in SUBSET rows /\ x \in A /\ B = A \ {x}
  <2>1. x <= x /\ \A q \in rows : (q <= x /\ q # x) <=> q < x
    BY <1>0, <1>3
  <2> QED
    BY <1>3, <2>1
<1>5. Rank(rows, x) = Cardinality(A)
  BY DEF Rank
<1>6. IsFiniteSet(A) /\ IsFiniteSet(B) /\ Cardinality(B) = Cardinality(A) - 1 /\ Cardinality(B) \in Nat
  <2> HIDE DEF A, B
  <2>1. IsFiniteSet(A)
    BY <1>4, FS_Subset
  <2>2. IsFiniteSet(A \ {x}) /\ Cardinality(A \ {x}) = Cardinality(A) - 1
    BY <1>4, <2>1, FS_RemoveElement
  <2> QED
    BY <1>4, <2>1, <2>2, FS_CardinalityType
<1>7. ~(k < Rank(rows, x))
  <2> SUFFICES ASSUME k < Rank(rows, x) PROVE FALSE
    OBVIOUS
  <2>1. k <= Cardinality(B)
    BY <1>3, <1>5, <1>6
  <2>2. B # {}
    BY <1>3, <1>6, <2>1, FS_EmptySet
  <2>3. PICK m \in B : \A q \in B : q <= m
    <3>0. rows \subseteq Int
      BY <1>0
    <3>1. B \subseteq Int
      BY <3>0
    <3> HIDE DEF B
    <3> QED
      BY <1>6, <2>2, <3>1, GreatestNumber
  <2>4. m \in rows /\ m < x
    BY <2>3
  <2>5. {q \in rows : q <= m} = B
    <3>1. \A q \in rows : q <= m => q < x
      BY <1>0, <1>3, <2>4
    <3> QED
      BY <2>3, <3>1
  <2>6. Rank(rows, m) = Cardinality(B)
    BY <2>5 DEF Rank
  <2>7. m \in T
    BY <2>1, <2>4, <2>6
  <2>8. x <= m
    BY <1>2, <2>7
  <2> QED
    BY <1>0, <1>3, <2>4, <2>8
<1> QED
  BY <1>3, <1>7
=============================================================================
