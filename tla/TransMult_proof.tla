--------------------------- MODULE TransMult_proof ---------------------------
(***************************************************************************)
(* Proofs about the multipliers of faces.  They are types, that the        *)
(* records of MULTREGT inherit their regions, and that in the end every    *)
(* multiplier is the product of what the keywords say of its face.         *)
(***************************************************************************)
EXTENDS TransMult, FiniteSetTheorems, WellFoundedInduction, TLAPS

(* Induction: a set of numbers that is not empty has a least one.          *)
LEMMA NatMin ==
  ASSUME NEW T \in SUBSET Nat, T # {}
  PROVE  \E x \in T : \A y \in T : x <= y
  <1> DEFINE R == {p \in Nat \X Nat : p[1] < p[2]}
  <1>1. IsWellFoundedOn(R, Nat)
    BY NatLessThanWellFounded DEF OpToRel
  <1>2. \A a, b \in Nat : a < b => <<a, b>> \in R
    OBVIOUS
  <1> HIDE DEF R
  <1>3. PICK x \in T : \A y \in T : ~ (<<y, x>> \in R)
    BY <1>1, WFMin
  <1>4. ASSUME NEW y \in T
        PROVE  x <= y
    <2>1. x \in Nat /\ y \in Nat /\ ~ (y < x)
      BY <1>2, <1>3
    <2>2. QED
      BY <2>1
  <1>5. QED
    BY <1>4

(* Induction, for a set in the place of a predicate. *)
LEMMA NatSet ==
  ASSUME NEW T, 0 \in T, \A n \in Nat : n \in T => n + 1 \in T
  PROVE  Nat \subseteq T
  <1> DEFINE Rest == {n \in Nat : n \notin T}
  <1>1. SUFFICES ASSUME Rest # {}
                 PROVE  FALSE
    OBVIOUS
  <1>2. PICK x \in Rest : \A y \in Rest : x <= y
    <2>1. Rest \in SUBSET Nat
      OBVIOUS
    <2> HIDE DEF Rest
    <2>2. QED
      BY <1>1, <2>1, NatMin
  <1>3. x \in Nat /\ x # 0 /\ x - 1 \in Nat
    OBVIOUS
  <1>4. x - 1 \in T
    BY <1>2, <1>3
  <1>5. QED
    BY <1>2, <1>3, <1>4

(* Induction over the subsets of a finite set, for a set in the place of a *)
(* predicate: every subset but the empty one comes after one with an       *)
(* element less, the one that CHOOSE gives.                                *)
LEMMA SubsetInduction ==
  ASSUME NEW S, IsFiniteSet(S), NEW T, {} \in T,
         \A A \in SUBSET S : A # {} /\ A \ {CHOOSE x \in A : TRUE} \in T => A \in T
  PROVE  SUBSET S \subseteq T
  <1> DEFINE U == {n \in Nat : \A A \in SUBSET S : Cardinality(A) = n => A \in T}
  <1>1. \A A \in SUBSET S : IsFiniteSet(A) /\ Cardinality(A) \in Nat
    BY FS_Subset, FS_CardinalityType
  <1>2. 0 \in U
    BY <1>1, FS_EmptySet
  <1>3. ASSUME NEW n \in Nat, n \in U
        PROVE  n + 1 \in U
    <2>1. SUFFICES ASSUME NEW A \in SUBSET S, Cardinality(A) = n + 1
                   PROVE  A \in T
      OBVIOUS
    <2> DEFINE x == CHOOSE y \in A : TRUE
    <2>2. A # {}
      <3>1. n + 1 # 0
        OBVIOUS
      <3>2. QED
        BY <2>1, <3>1, FS_EmptySet
    <2>3. x \in A
      BY <2>2
    <2> HIDE DEF x
    <2>4. A \ {x} \in SUBSET S /\ Cardinality(A \ {x}) = n
      <3>1. Cardinality(A \ {x}) = Cardinality(A) - 1
        BY <1>1, <2>3, FS_RemoveElement
      <3>2. QED
        BY <2>1, <3>1
    <2>5. A \ {x} \in T
      BY <1>3, <2>4
    <2>6. QED
      BY <2>2, <2>5 DEF x
  <1>4. Nat \subseteq U
    <2> HIDE DEF U
    <2> QED
      BY <1>2, <1>3, NatSet
  <1>5. QED
    BY <1>1, <1>4

(* What is computed step by step, as the loops of the code do, exists.     *)
IsLoop(f, base, N, step) == f[0] = base /\ \A n \in 1 .. N : f[n] = step[n][f[n - 1]]

LEMMA LoopExists ==
  ASSUME NEW V, NEW base \in V, NEW N \in Nat, NEW step \in [1 .. N -> [V -> V]]
  PROVE  \E f \in [0 .. N -> V] : IsLoop(f, base, N, step)
  <1> DEFINE Goes(f, n) == f[0] = base /\ \A k \in 1 .. n : f[k] = step[k][f[k - 1]]
             U == {n \in Nat : n <= N => \E f \in [0 .. n -> V] : Goes(f, n)}
  <1>1. 0 \in U
    <2>1. [k \in 0 .. 0 |-> base] \in [0 .. 0 -> V] /\ Goes([k \in 0 .. 0 |-> base], 0)
      OBVIOUS
    <2>2. QED
      BY <2>1
  <1>2. ASSUME NEW n \in Nat, n \in U
        PROVE  n + 1 \in U
    <2>1. SUFFICES ASSUME n + 1 <= N
                   PROVE  \E f \in [0 .. n + 1 -> V] : Goes(f, n + 1)
      OBVIOUS
    <2>2. PICK f \in [0 .. n -> V] : Goes(f, n)
      <3>1. n <= N
        BY <2>1
      <3>2. QED
        BY <1>2, <3>1
    <2> DEFINE h == [k \in 0 .. n + 1 |-> IF k = n + 1 THEN step[n + 1][f[n]] ELSE f[k]]
    <2>3. step[n + 1][f[n]] \in V
      <3>1. n + 1 \in 1 .. N /\ f[n] \in V
        BY <2>1
      <3>2. step[n + 1] \in [V -> V]
        BY <3>1
      <3>3. QED
        BY <3>1, <3>2
    <2>4. h \in [0 .. n + 1 -> V] /\ h[n + 1] = step[n + 1][f[n]] /\ \A k \in 0 .. n : h[k] = f[k]
      BY <2>3
    <2> HIDE DEF h
    <2>5. ASSUME NEW k \in 1 .. n + 1
          PROVE  h[k] = step[k][h[k - 1]]
      <3>1. CASE k = n + 1
        BY <2>4, <3>1
      <3>2. CASE k \in 1 .. n
        <4>1. k \in 0 .. n /\ k - 1 \in 0 .. n
          BY <3>2
        <4>2. QED
          BY <2>2, <2>4, <3>2, <4>1
      <3>3. QED
        BY <3>1, <3>2
    <2>6. h[0] = base
      BY <2>2, <2>4
    <2>7. QED
      BY <2>4, <2>5, <2>6
  <1>3. Nat \subseteq U
    <2> HIDE DEF U
    <2> QED
      BY <1>1, <1>2, NatSet
  <1>4. QED
    BY <1>3 DEF IsLoop

(* A function that takes those steps has values of their type.             *)
LEMMA LoopIs ==
  ASSUME NEW V, NEW base \in V, NEW N \in Nat, NEW step \in [1 .. N -> [V -> V]],
         NEW g, g[0] = base,
         \A n \in 1 .. N : g[n - 1] \in V => g[n] = step[n][g[n - 1]]
  PROVE  (\A n \in 0 .. N : g[n] \in V) /\ IsLoop(g, base, N, step)
  <1> DEFINE T == {n \in Nat : n <= N => g[n] \in V}
  <1>1. ASSUME NEW n \in Nat, n \in T
        PROVE  n + 1 \in T
    <2>1. SUFFICES ASSUME n + 1 <= N
                   PROVE  g[n + 1] \in V
      OBVIOUS
    <2> DEFINE m == n + 1
    <2>2. m \in 1 .. N /\ m - 1 = n
      BY <2>1
    <2> HIDE DEF m
    <2>3. g[n] \in V
      BY <1>1, <2>1
    <2>4. g[m] = step[m][g[n]]
      BY <2>2, <2>3
    <2>5. step[m] \in [V -> V]
      BY <2>2
    <2>6. QED
      BY <2>3, <2>4, <2>5 DEF m
  <1>2. Nat \subseteq T
    <2>1. 0 \in T
      OBVIOUS
    <2> HIDE DEF T
    <2>2. QED
      BY <1>1, <2>1, NatSet
  <1>3. \A n \in 0 .. N : g[n] \in V
    BY <1>2
  <1>4. \A n \in 1 .. N : n - 1 \in 0 .. N
    OBVIOUS
  <1>5. QED
    BY <1>3, <1>4 DEF IsLoop

(* The same for what goes through a finite set.                            *)
IsSetLoop(f, base, S, step) ==
  \A A \in SUBSET S :
    f[A] = IF A = {} THEN base
           ELSE step[CHOOSE x \in A : TRUE][f[A \ {CHOOSE x \in A : TRUE}]]

LEMMA SetLoopExists ==
  ASSUME NEW V, NEW base \in V, NEW S, IsFiniteSet(S), NEW step \in [S -> [V -> V]]
  PROVE  \E f \in [SUBSET S -> V] : IsSetLoop(f, base, S, step)
  <1> DEFINE one(A) == CHOOSE x \in A : TRUE
             Upto(n) == {A \in SUBSET S : Cardinality(A) <= n}
             Goes(f, n) == /\ f[{}] = base
                           /\ \A A \in Upto(n) : A # {} => f[A] = step[one(A)][f[A \ {one(A)}]]
             U == {n \in Nat : \E f \in [Upto(n) -> V] : Goes(f, n)}
  <1>1. \A A \in SUBSET S : IsFiniteSet(A) /\ Cardinality(A) \in Nat
    BY FS_Subset, FS_CardinalityType
  <1>2. \A A \in SUBSET S : A # {} =>
          /\ one(A) \in A
          /\ A \ {one(A)} \in SUBSET S
          /\ Cardinality(A \ {one(A)}) = Cardinality(A) - 1
    BY <1>1, FS_RemoveElement
  <1>3. \A A \in SUBSET S : Cardinality(A) = 0 <=> A = {}
    BY <1>1, FS_EmptySet
  <1> HIDE DEF one
  <1>4. 0 \in U
    <2>1. Upto(0) = {{}}
      BY <1>1, <1>3
    <2>2. [A \in Upto(0) |-> base] \in [Upto(0) -> V] /\ Goes([A \in Upto(0) |-> base], 0)
      BY <2>1
    <2>3. QED
      BY <2>2
  <1>5. ASSUME NEW n \in Nat, n \in U
        PROVE  n + 1 \in U
    <2>1. PICK f \in [Upto(n) -> V] : Goes(f, n)
      BY <1>5
    <2> DEFINE h == [A \in Upto(n + 1) |->
                       IF A \in Upto(n) THEN f[A] ELSE step[one(A)][f[A \ {one(A)}]]]
    <2>2. ASSUME NEW A \in Upto(n + 1), A # {}
          PROVE  /\ A \ {one(A)} \in Upto(n) /\ one(A) \in S
                 /\ A \ {one(A)} \in Upto(n + 1)
                 /\ step[one(A)][f[A \ {one(A)}]] \in V
      <3>1. A \ {one(A)} \in Upto(n) /\ one(A) \in S /\ A \ {one(A)} \in Upto(n + 1)
        BY <1>1, <1>2, <2>2
      <3>2. step[one(A)] \in [V -> V] /\ f[A \ {one(A)}] \in V
        BY <3>1
      <3>3. QED
        BY <3>1, <3>2
    <2>3. {} \in Upto(n) /\ {} \in Upto(n + 1)
      BY <1>3
    <2> HIDE DEF Upto
    <2>4. h \in [Upto(n + 1) -> V]
      <3>1. \A A \in Upto(n + 1) : A \notin Upto(n) => A # {}
        BY <2>3
      <3>2. QED
        BY <2>2, <3>1
    <2>5. h[{}] = base
      BY <2>1, <2>3
    <2>6. ASSUME NEW A \in Upto(n + 1), A # {}
          PROVE  h[A] = step[one(A)][h[A \ {one(A)}]]
      <3>1. h[A \ {one(A)}] = f[A \ {one(A)}]
        BY <2>2, <2>6
      <3>2. CASE A \in Upto(n)
        BY <2>1, <2>6, <3>1, <3>2
      <3>3. CASE A \notin Upto(n)
        BY <2>6, <3>1, <3>3
      <3>4. QED
        BY <3>2, <3>3
    <2> HIDE DEF h
    <2>7. Goes(h, n + 1)
      BY <2>5, <2>6
    <2> HIDE DEF Goes
    <2>8. QED
      BY <2>4, <2>7
  <1>6. Nat \subseteq U
    <2> HIDE DEF U
    <2> QED
      BY <1>4, <1>5, NatSet
  <1>7. Cardinality(S) \in Nat /\ Upto(Cardinality(S)) = SUBSET S
    BY <1>1, FS_Subset, FS_CardinalityType
  <1>8. PICK f \in [SUBSET S -> V] : Goes(f, Cardinality(S))
    <2> HIDE DEF Goes
    <2>1. Cardinality(S) \in U
      BY <1>6, <1>7
    <2>2. \E f \in [Upto(Cardinality(S)) -> V] : Goes(f, Cardinality(S))
      <3> HIDE DEF Upto
      <3> QED BY <2>1
    <2>3. QED
      BY <1>7, <2>2
  <1>9. \A A \in SUBSET S : f[A] = IF A = {} THEN base ELSE step[one(A)][f[A \ {one(A)}]]
    BY <1>7, <1>8
  <1>10. QED
    BY <1>9 DEF one, IsSetLoop
-----------------------------------------------------------------------------
(* Products.  A function on 1 .. N is a sequence of N members.             *)
LEMMA LenIs ==
  ASSUME NEW N \in Nat, NEW S, NEW s \in [1 .. N -> S]
  PROVE  s \in Seq(S) /\ Len(s) = N /\ DOMAIN s = 1 .. N
  OBVIOUS

(* What ProductOf() computes, factor after factor.                         *)
LEMMA ProductLoop ==
  ASSUME NEW N \in Nat, NEW s \in [1 .. N -> Int]
  PROVE  \E f \in [0 .. N -> Int] :
           f[0] = 1 /\ (\A n \in 1 .. N : f[n] = f[n - 1] * s[n]) /\ ProductOf(s) = f[N]
  <1> DEFINE step == [n \in 1 .. N |-> [x \in Int |-> x * s[n]]]
             Goes(f) == f = [n \in 0 .. N |-> IF n = 0 THEN 1 ELSE f[n - 1] * s[n]]
  <1>1. \A n \in 1 .. N : s[n] \in Int
    OBVIOUS
  <1>2. step \in [1 .. N -> [Int -> Int]]
    BY <1>1
  <1>3. \A n \in 1 .. N, x \in Int : step[n][x] = x * s[n]
    OBVIOUS
  <1> HIDE DEF step
  <1>4. PICK f \in [0 .. N -> Int] : f[0] = 1 /\ \A n \in 1 .. N : f[n] = step[n][f[n - 1]]
    <2>1. 1 \in Int
      OBVIOUS
    <2>2. \E f \in [0 .. N -> Int] : IsLoop(f, 1, N, step)
      BY <1>2, <2>1, LoopExists
    <2>3. QED
      BY <2>2 DEF IsLoop
  <1>5. ASSUME NEW n \in 1 .. N
        PROVE  n - 1 \in 0 .. N /\ f[n] = f[n - 1] * s[n]
    <2>1. n - 1 \in 0 .. N
      OBVIOUS
    <2>2. f[n - 1] \in Int
      BY <2>1
    <2>3. QED
      BY <1>3, <1>4, <2>1, <2>2
  <1>6. Goes(f)
    BY <1>4, <1>5
  <1>7. ProductOf(s) = (CHOOSE g : Goes(g))[N]
    BY LenIs DEF ProductOf
  <1> DEFINE g == CHOOSE h : Goes(h)
  <1>8. Goes(g)
    <2> HIDE DEF Goes
    <2> QED
      BY <1>6
  <1> HIDE DEF g
  <1>9. g[0] = 1 /\ \A n \in 1 .. N : g[n] = g[n - 1] * s[n]
    BY <1>8
  <1>10. g \in [0 .. N -> Int] /\ IsLoop(g, 1, N, step)
    <2>1. g = [n \in 0 .. N |-> g[n]] /\ 1 \in Int
      BY <1>8
    <2>2. \A n \in 1 .. N : g[n - 1] \in Int => g[n] = step[n][g[n - 1]]
      BY <1>3, <1>9
    <2> HIDE DEF Goes
    <2>3. (\A n \in 0 .. N : g[n] \in Int) /\ IsLoop(g, 1, N, step)
      BY <1>2, <1>9, <2>1, <2>2, LoopIs
    <2>4. QED
      BY <2>1, <2>3
  <1>11. QED
    BY <1>7, <1>9, <1>10 DEF g

(* Another run of the same steps ends at the same product.                 *)
LEMMA ProductOfSteps ==
  ASSUME NEW N \in Nat, NEW s \in [1 .. N -> Int], NEW g \in [0 .. N -> Int],
         \A n \in 1 .. N : g[n] = g[n - 1] * s[n]
  PROVE  ProductOf(s) \in Int /\ g[N] = g[0] * ProductOf(s)
  <1>1. PICK f \in [0 .. N -> Int] :
          f[0] = 1 /\ (\A n \in 1 .. N : f[n] = f[n - 1] * s[n]) /\ ProductOf(s) = f[N]
    BY ProductLoop
  <1> DEFINE T == {n \in Nat : n <= N => g[n] = g[0] * f[n]}
  <1>2. 0 \in T
    <2>1. g[0] \in Int
      OBVIOUS
    <2>2. QED
      BY <1>1, <2>1
  <1>3. ASSUME NEW n \in Nat, n \in T
        PROVE  n + 1 \in T
    <2>1. SUFFICES ASSUME n + 1 <= N
                   PROVE  g[n + 1] = g[0] * f[n + 1]
      OBVIOUS
    <2> DEFINE m == n + 1
    <2>2. m \in 1 .. N /\ m - 1 = n
      BY <2>1
    <2> HIDE DEF m
    <2>3. g[m] = g[n] * s[m] /\ f[m] = f[n] * s[m] /\ s[m] \in Int
      BY <1>1, <2>2
    <2>4. g[n] = g[0] * f[n] /\ g[0] \in Int /\ f[n] \in Int
      BY <1>3, <2>1
    <2>5. g[m] = g[0] * f[m]
      <3>1. g[m] = (g[0] * f[n]) * s[m] /\ f[m] = f[n] * s[m]
        BY <2>3, <2>4
      <3> DEFINE a == g[0]  b == f[n]  c == s[m]
      <3>2. a \in Int /\ b \in Int /\ c \in Int
        BY <2>3, <2>4
      <3> HIDE DEF a, b, c
      <3>3. (a * b) * c = a * (b * c)
        BY <3>2
      <3>4. QED
        BY <3>1, <3>3 DEF a, b, c
    <2>6. QED
      BY <2>5 DEF m
  <1>4. Nat \subseteq T
    <2> HIDE DEF T
    <2> QED
      BY <1>2, <1>3, NatSet
  <1>5. QED
    BY <1>1, <1>4

(* A product is that of all but the last factor, times the last one.       *)
LEMMA ProductNext ==
  ASSUME NEW N \in Nat, NEW s \in [1 .. N + 1 -> Int]
  PROVE  /\ [n \in 1 .. N |-> s[n]] \in [1 .. N -> Int]
         /\ ProductOf([n \in 1 .. N |-> s[n]]) \in Int
         /\ ProductOf(s) = ProductOf([n \in 1 .. N |-> s[n]]) * s[N + 1]
  <1> DEFINE r == [n \in 1 .. N |-> s[n]]
             M == N + 1
  <1>1. M \in Nat /\ M - 1 = N /\ M \in 1 .. M
    OBVIOUS
  <1>2. r \in [1 .. N -> Int] /\ \A n \in 1 .. N : n \in 1 .. M /\ r[n] = s[n]
    OBVIOUS
  <1>3. s \in [1 .. M -> Int]
    OBVIOUS
  <1> HIDE DEF r, M
  <1>4. PICK f \in [0 .. M -> Int] :
          f[0] = 1 /\ (\A n \in 1 .. M : f[n] = f[n - 1] * s[n]) /\ ProductOf(s) = f[M]
    BY <1>1, <1>3, ProductLoop
  <1> DEFINE g == [n \in 0 .. N |-> f[n]]
  <1>5. g \in [0 .. N -> Int] /\ g[0] = 1 /\ g[N] = f[N]
    <2>1. \A n \in 0 .. N : n \in 0 .. M
      BY <1>1
    <2>2. \A n \in 0 .. N : f[n] \in Int
      BY <2>1
    <2>3. 0 \in 0 .. N /\ N \in 0 .. N
      OBVIOUS
    <2>4. QED
      BY <1>4, <2>2, <2>3
  <1>6. \A n \in 1 .. N : g[n] = g[n - 1] * r[n]
    <2>1. \A n \in 1 .. N : n \in 0 .. N /\ n - 1 \in 0 .. N
      OBVIOUS
    <2>2. QED
      BY <1>2, <1>4, <2>1
  <1> HIDE DEF g
  <1>7. ProductOf(r) \in Int /\ g[N] = g[0] * ProductOf(r)
    BY <1>2, <1>5, <1>6, ProductOfSteps
  <1>8. f[N] = ProductOf(r)
    BY <1>5, <1>7
  <1>9. ProductOf(s) = f[N] * s[M]
    BY <1>1, <1>4
  <1>10. QED
    BY <1>2, <1>7, <1>8, <1>9 DEF r, M

LEMMA ProductType ==
  ASSUME NEW N \in Nat, NEW s \in [1 .. N -> Int]
  PROVE  ProductOf(s) \in Int /\ (N = 0 => ProductOf(s) = 1)
  BY ProductLoop

(* Factors of one alone make one.                                          *)
LEMMA ProductOfOnes ==
  ASSUME NEW N \in Nat, NEW s \in [1 .. N -> Int], \A n \in 1 .. N : s[n] = 1
  PROVE  ProductOf(s) = 1
  <1> DEFINE g == [n \in 0 .. N |-> 1]
  <1>1. g \in [0 .. N -> Int] /\ g[0] = 1 /\ g[N] = 1
    <2>1. 0 \in 0 .. N /\ N \in 0 .. N
      OBVIOUS
    <2>2. QED
      BY <2>1
  <1>2. ASSUME NEW n \in 1 .. N
        PROVE  g[n] = g[n - 1] * s[n]
    <2>1. n \in 0 .. N /\ n - 1 \in 0 .. N
      OBVIOUS
    <2>2. g[n] = 1 /\ g[n - 1] = 1
      BY <2>1
    <2>3. QED
      BY <2>2
  <1> HIDE DEF g
  <1>3. ProductOf(s) \in Int /\ g[N] = g[0] * ProductOf(s)
    BY <1>1, <1>2, ProductOfSteps
  <1>4. QED
    BY <1>1, <1>3

(* One factor among ones.                                                  *)
LEMMA ProductOfOneFactor ==
  ASSUME NEW N \in Nat, NEW s \in [1 .. N -> Int], NEW p \in 1 .. N,
         \A n \in 1 .. N : n # p => s[n] = 1
  PROVE  ProductOf(s) = s[p]
  <1> DEFINE g == [n \in 0 .. N |-> IF n < p THEN 1 ELSE s[p]]
  <1>1. s[p] \in Int
    OBVIOUS
  <1>2. g \in [0 .. N -> Int] /\ g[0] = 1 /\ g[N] = s[p]
    BY <1>1
  <1>3. ASSUME NEW n \in 1 .. N
        PROVE  g[n] = g[n - 1] * s[n]
    <2>1. CASE n = p
      <3>1. g[n] = s[p] /\ g[n - 1] = 1
        BY <2>1
      <3> HIDE DEF g
      <3>2. QED
        BY <1>1, <2>1, <3>1
    <2>2. CASE n # p
      <3>1. g[n] = g[n - 1] /\ s[n] = 1 /\ g[n] \in Int
        BY <1>1, <2>2
      <3> HIDE DEF g
      <3>2. QED
        BY <3>1
    <2>3. QED
      BY <2>1, <2>2
  <1> HIDE DEF g
  <1>4. ProductOf(s) \in Int /\ g[N] = g[0] * ProductOf(s)
    BY <1>2, <1>3, ProductOfSteps
  <1>5. QED
    BY <1>1, <1>2, <1>4

(* The product of products, factor by factor.                              *)
LEMMA ProductTimes ==
  ASSUME NEW N \in Nat, NEW a \in [1 .. N -> Int], NEW b \in [1 .. N -> Int]
  PROVE  /\ [n \in 1 .. N |-> a[n] * b[n]] \in [1 .. N -> Int]
         /\ ProductOf([n \in 1 .. N |-> a[n] * b[n]]) = ProductOf(a) * ProductOf(b)
  <1> DEFINE s == [n \in 1 .. N |-> a[n] * b[n]]
  <1>1. s \in [1 .. N -> Int] /\ \A n \in 1 .. N : s[n] = a[n] * b[n]
    OBVIOUS
  <1> HIDE DEF s
  <1>2. PICK f \in [0 .. N -> Int] :
          f[0] = 1 /\ (\A n \in 1 .. N : f[n] = f[n - 1] * a[n]) /\ ProductOf(a) = f[N]
    BY ProductLoop
  <1>3. PICK h \in [0 .. N -> Int] :
          h[0] = 1 /\ (\A n \in 1 .. N : h[n] = h[n - 1] * b[n]) /\ ProductOf(b) = h[N]
    BY ProductLoop
  <1> DEFINE g == [n \in 0 .. N |-> f[n] * h[n]]
  <1>4. g \in [0 .. N -> Int] /\ g[0] = 1 /\ g[N] = ProductOf(a) * ProductOf(b)
    BY <1>2, <1>3
  <1>5. ASSUME NEW n \in 1 .. N
        PROVE  g[n] = g[n - 1] * s[n]
    <2> DEFINE u == f[n - 1]  v == h[n - 1]  x == a[n]  y == b[n]
    <2>1. u \in Int /\ v \in Int /\ x \in Int /\ y \in Int
      OBVIOUS
    <2>2. g[n] = f[n] * h[n] /\ g[n - 1] = u * v
      OBVIOUS
    <2>3. f[n] = u * x /\ h[n] = v * y /\ s[n] = x * y
      BY <1>1, <1>2, <1>3
    <2> HIDE DEF u, v, x, y, g
    <2>4. (u * x) * (v * y) = (u * v) * (x * y)
      BY <2>1
    <2>5. QED
      BY <2>2, <2>3, <2>4
  <1> HIDE DEF g
  <1>6. ProductOf(s) \in Int /\ g[N] = g[0] * ProductOf(s)
    BY <1>1, <1>4, <1>5, ProductOfSteps
  <1>7. QED
    BY <1>1, <1>4, <1>6 DEF s

(* One factor more, in a place where there was a one.                      *)
LEMMA ProductChanged ==
  ASSUME NEW N \in Nat, NEW a \in [1 .. N -> Int], NEW b \in [1 .. N -> Int], NEW p \in 1 .. N,
         a[p] = 1, \A n \in 1 .. N : n # p => b[n] = a[n]
  PROVE  ProductOf(b) = ProductOf(a) * b[p]
  <1> DEFINE c == [n \in 1 .. N |-> IF n = p THEN b[p] ELSE 1]
  <1>1. c \in [1 .. N -> Int] /\ c[p] = b[p] /\ \A n \in 1 .. N : n # p => c[n] = 1
    OBVIOUS
  <1> HIDE DEF c
  <1>2. ProductOf(c) = b[p]
    BY <1>1, ProductOfOneFactor
  <1>3. ASSUME NEW n \in 1 .. N
        PROVE  b[n] = a[n] * c[n]
    <2>1. a[n] \in Int /\ b[n] \in Int
      OBVIOUS
    <2>2. CASE n = p
      BY <1>1, <2>1, <2>2
    <2>3. CASE n # p
      BY <1>1, <2>1, <2>3
    <2>4. QED
      BY <2>2, <2>3
  <1>4. b = [n \in 1 .. N |-> a[n] * c[n]]
    BY <1>3
  <1>5. ProductOf(b) = ProductOf(a) * ProductOf(c)
    BY <1>1, <1>4, ProductTimes
  <1>6. QED
    BY <1>2, <1>5
-----------------------------------------------------------------------------
(* The data that TransMult can have, and the multiplier of a face in them. *)
Data == UNION {[dirs -> [Cell -> Int]] : dirs \in SUBSET FaceDir}

MultiplierIn(t, c, dir) == IF dir \in DOMAIN t THEN t[dir][c] ELSE 1

LEMMA DataIs ==
  ASSUME NEW t
  PROVE  IsData(t) <=> t \in Data
  BY DEF IsData, Data

LEMMA DataHas ==
  ASSUME NEW t \in Data
  PROVE  /\ DOMAIN t \subseteq FaceDir
         /\ \A d \in DOMAIN t : t[d] \in [Cell -> Int]
         /\ \A d \in FaceDir, c \in Cell : MultiplierIn(t, c, d) \in Int
  <1>1. PICK dirs \in SUBSET FaceDir : t \in [dirs -> [Cell -> Int]]
    BY DEF Data
  <1>2. DOMAIN t = dirs /\ \A d \in dirs : t[d] \in [Cell -> Int]
    BY <1>1
  <1>3. \A d \in dirs, c \in Cell : t[d][c] \in Int
    BY <1>2
  <1>4. QED
    BY <1>2, <1>3 DEF MultiplierIn

(* A direction that is made has ones, which getMultiplier() gives without  *)
(* it.                                                                     *)
LEMMA DirectionOfOnes ==
  ASSUME NEW t \in Data, NEW dir \in FaceDir
  PROVE  /\ WithDirection(t, dir) \in [DOMAIN t \union {dir} -> [Cell -> Int]]
         /\ \A d \in DOMAIN t \union {dir}, c \in Cell :
              WithDirection(t, dir)[d][c] = MultiplierIn(t, c, d)
  <1> DEFINE w == WithDirection(t, dir)
             D == DOMAIN t \union {dir}
  <1>1. \A d \in D : w[d] = IF d \in DOMAIN t THEN t[d] ELSE [c \in Cell |-> 1]
    BY DEF WithDirection
  <1>2. w = [d \in D |-> w[d]]
    BY DEF WithDirection
  <1> HIDE DEF w
  <1>3. ASSUME NEW d \in D
        PROVE  w[d] \in [Cell -> Int]
    <2>1. CASE d \in DOMAIN t
      BY <1>1, <2>1, DataHas
    <2>2. CASE d \notin DOMAIN t
      BY <1>1, <2>2
    <2>3. QED
      BY <2>1, <2>2
  <1>4. \A d \in D, c \in Cell : w[d][c] = MultiplierIn(t, c, d)
    BY <1>1 DEF MultiplierIn
  <1> HIDE DEF D
  <1>5. w \in [D -> [Cell -> Int]]
    BY <1>2, <1>3
  <1>6. QED
    BY <1>4, <1>5 DEF w, D

(* A face of a fault multiplies the faces that it has by the factor of the *)
(* fault, and no other one (TransMult.cpp:114-123).                        *)
LEMMA FaceMultiplies ==
  ASSUME NEW t \in Data, NEW face \in FaceType, NEW x \in Int
  PROVE  /\ MultipliedByFace(t, face, x) \in Data
         /\ \A c \in Cell, d \in FaceDir :
              MultiplierIn(MultipliedByFace(t, face, x), c, d) =
                MultiplierIn(t, c, d) * (IF d = face.dir /\ c \in face.cells THEN x ELSE 1)
  <1> DEFINE w == WithDirection(t, face.dir)
             D == DOMAIN t \union {face.dir}
             on(c, d) == IF d = face.dir /\ c \in face.cells THEN x ELSE 1
             m == MultipliedByFace(t, face, x)
  <1>1. face.dir \in FaceDir
    BY DEF FaceType
  <1>2. w \in [D -> [Cell -> Int]] /\ \A d \in D, c \in Cell : w[d][c] = MultiplierIn(t, c, d)
    BY <1>1, DirectionOfOnes
  <1>3. D \in SUBSET FaceDir
    BY <1>1, DataHas
  <1>4. m = [d \in DOMAIN w |-> [c \in Cell |-> w[d][c] * on(c, d)]]
    BY DEF MultipliedByFace
  <1> HIDE DEF w, m
  <1>5. DOMAIN w = D
    BY <1>2
  <1>6. \A c \in Cell, d \in FaceDir : on(c, d) \in Int
    OBVIOUS
  <1>7. DOMAIN m = D /\ \A d \in D, c \in Cell : m[d][c] = MultiplierIn(t, c, d) * on(c, d)
    BY <1>2, <1>4, <1>5
  <1>8. m \in Data
    <2>1. \A d \in D, c \in Cell : w[d][c] * on(c, d) \in Int
      BY <1>2, <1>3, <1>6
    <2> HIDE DEF D, on
    <2>2. m \in [D -> [Cell -> Int]]
      BY <1>4, <1>5, <2>1
    <2>3. QED
      BY <1>3, <2>2 DEF Data
  <1>9. ASSUME NEW c \in Cell, NEW d \in FaceDir
        PROVE  MultiplierIn(m, c, d) = MultiplierIn(t, c, d) * on(c, d)
    <2>1. CASE d \in D
      BY <1>7, <2>1 DEF MultiplierIn
    <2>2. CASE d \notin D
      <3>1. MultiplierIn(m, c, d) = 1 /\ MultiplierIn(t, c, d) = 1
        BY <1>7, <2>2 DEF MultiplierIn
      <3>2. on(c, d) = 1
        BY <2>2
      <3>3. QED
        BY <3>1, <3>2
    <2>3. QED
      BY <2>1, <2>2
  <1>10. QED
    BY <1>8, <1>9 DEF m

(* The factors that the faces of a fault have for one face of a cell.      *)
FaceFactors(faces, x, c, d) ==
  [m \in DOMAIN faces |-> IF d = faces[m].dir /\ c \in faces[m].cells THEN x ELSE 1]

LEMMA FaceFactorsType ==
  ASSUME NEW faces \in Seq(FaceType), NEW x \in Int, NEW c, NEW d
  PROVE  /\ FaceFactors(faces, x, c, d) \in [1 .. Len(faces) -> Int]
         /\ ProductOf(FaceFactors(faces, x, c, d)) \in Int
  <1>1. Len(faces) \in Nat /\ FaceFactors(faces, x, c, d) \in [1 .. Len(faces) -> Int]
    BY DEF FaceFactors
  <1>2. QED
    BY <1>1, ProductType

(* What a loop that multiplies makes of the multiplier of one face.        *)
LEMMA LoopMultiplies ==
  ASSUME NEW N \in Nat, NEW f \in [0 .. N -> Data], NEW c \in Cell, NEW d \in FaceDir,
         NEW s \in [1 .. N -> Int],
         \A n \in 1 .. N : MultiplierIn(f[n], c, d) = MultiplierIn(f[n - 1], c, d) * s[n]
  PROVE  MultiplierIn(f[N], c, d) = MultiplierIn(f[0], c, d) * ProductOf(s)
  <1> DEFINE g == [n \in 0 .. N |-> MultiplierIn(f[n], c, d)]
  <1>1. ASSUME NEW n \in 0 .. N
        PROVE  MultiplierIn(f[n], c, d) \in Int
    <2>1. f[n] \in Data
      OBVIOUS
    <2>2. QED
      BY <2>1, DataHas
  <1>2. g \in [0 .. N -> Int]
    BY <1>1
  <1>3. 0 \in 0 .. N /\ N \in 0 .. N /\ \A n \in 1 .. N : n \in 0 .. N /\ n - 1 \in 0 .. N
    OBVIOUS
  <1>4. g[0] = MultiplierIn(f[0], c, d) /\ g[N] = MultiplierIn(f[N], c, d)
    BY <1>3
  <1>5. \A n \in 1 .. N : g[n] = g[n - 1] * s[n]
    BY <1>3
  <1> HIDE DEF g
  <1>6. QED
    BY <1>2, <1>4, <1>5, ProductOfSteps

(* applyMULTFLT() for a fault, face by face.                               *)
LEMMA FaultMultiplies ==
  ASSUME NEW t \in Data, NEW fault \in FaultType
  PROVE  /\ MultipliedByFault(t, fault) \in Data
         /\ \A c \in Cell, d \in FaceDir :
              MultiplierIn(MultipliedByFault(t, fault), c, d) =
                MultiplierIn(t, c, d) * ProductOf(FaceFactors(fault.faces, fault.factor, c, d))
  <1> DEFINE N == Len(fault.faces)
             mul(u, n) == MultipliedByFace(u, fault.faces[n], fault.factor)
             step == [n \in 1 .. N |-> [u \in Data |-> mul(u, n)]]
             Goes(g) == g = [n \in 0 .. N |-> IF n = 0 THEN t ELSE mul(g[n - 1], n)]
  <1>1. /\ N \in Nat /\ fault.factor \in Int /\ fault.faces \in Seq(FaceType)
        /\ \A n \in 1 .. N : fault.faces[n] \in FaceType
    BY DEF FaultType
  <1>2. \A n \in 1 .. N, u \in Data : mul(u, n) \in Data
    BY <1>1, FaceMultiplies
  <1>3. MultipliedByFault(t, fault) = (CHOOSE g : Goes(g))[N]
    BY DEF MultipliedByFault
  <1>4. ASSUME NEW n \in 1 .. N, NEW c \in Cell, NEW d \in FaceDir, NEW u \in Data
        PROVE  MultiplierIn(mul(u, n), c, d) =
                 MultiplierIn(u, c, d) * FaceFactors(fault.faces, fault.factor, c, d)[n]
    <2> DEFINE face == fault.faces[n]
    <2>1. face \in FaceType /\ n \in DOMAIN fault.faces
      BY <1>1
    <2>2. FaceFactors(fault.faces, fault.factor, c, d)[n] =
            IF d = face.dir /\ c \in face.cells THEN fault.factor ELSE 1
      BY <2>1 DEF FaceFactors
    <2> HIDE DEF face
    <2>3. MultiplierIn(MultipliedByFace(u, face, fault.factor), c, d) =
            MultiplierIn(u, c, d) * FaceFactors(fault.faces, fault.factor, c, d)[n]
      <3>1. fault.factor \in Int
        BY <1>1
      <3>2. MultiplierIn(MultipliedByFace(u, face, fault.factor), c, d) =
              MultiplierIn(u, c, d) * (IF d = face.dir /\ c \in face.cells THEN fault.factor ELSE 1)
        BY <2>1, <3>1, FaceMultiplies
      <3>3. QED
        BY <2>2, <3>2
    <2>4. QED
      BY <2>3 DEF face
  <1> HIDE DEF N, mul
  <1>5. step \in [1 .. N -> [Data -> Data]] /\ \A n \in 1 .. N, u \in Data : step[n][u] = mul(u, n)
    BY <1>2
  <1> HIDE DEF step
  <1>6. \E g : Goes(g)
    <2>1. PICK f \in [0 .. N -> Data] : IsLoop(f, t, N, step)
      BY <1>1, <1>5, LoopExists
    <2>2. ASSUME NEW n \in 1 .. N
          PROVE  f[n] = mul(f[n - 1], n)
      <3>1. n - 1 \in 0 .. N
        BY <1>1
      <3>2. f[n - 1] \in Data
        BY <3>1
      <3>3. QED
        BY <1>5, <2>1, <3>2 DEF IsLoop
    <2>3. f[0] = t
      BY <2>1 DEF IsLoop
    <2>4. Goes(f)
      BY <2>2, <2>3
    <2>5. QED
      BY <2>4
  <1> DEFINE g == CHOOSE h : Goes(h)
  <1>7. Goes(g)
    <2> HIDE DEF Goes
    <2> QED
      BY <1>6
  <1> HIDE DEF g
  <1>8. g = [n \in 0 .. N |-> g[n]] /\ g[0] = t /\ \A n \in 1 .. N : g[n] = mul(g[n - 1], n)
    <2>1. DOMAIN g = 0 .. N /\ \A n \in 0 .. N : g[n] = IF n = 0 THEN t ELSE mul(g[n - 1], n)
      BY <1>7
    <2>2. g = [n \in 0 .. N |-> g[n]]
      BY <1>7
    <2> HIDE DEF Goes
    <2>3. 0 \in 0 .. N /\ \A n \in 1 .. N : n \in 0 .. N /\ n # 0
      BY <1>1
    <2>4. g[0] = t /\ \A n \in 1 .. N : g[n] = mul(g[n - 1], n)
      BY <2>1, <2>3
    <2>5. QED
      BY <2>2, <2>4
  <1> HIDE DEF Goes
  <1>9. g \in [0 .. N -> Data] /\ IsLoop(g, t, N, step)
    <2>1. \A n \in 1 .. N : g[n - 1] \in Data => g[n] = step[n][g[n - 1]]
      BY <1>5, <1>8
    <2>2. g[0] = t
      BY <1>8
    <2>3. (\A n \in 0 .. N : g[n] \in Data) /\ IsLoop(g, t, N, step)
      BY <1>1, <1>5, <2>1, <2>2, LoopIs
    <2>4. QED
      BY <1>8, <2>3
  <1>10. g[N] \in Data
    BY <1>1, <1>9
  <1>11. ASSUME NEW c \in Cell, NEW d \in FaceDir
         PROVE  MultiplierIn(g[N], c, d) =
                  MultiplierIn(t, c, d) * ProductOf(FaceFactors(fault.faces, fault.factor, c, d))
    <2> DEFINE s == FaceFactors(fault.faces, fault.factor, c, d)
    <2>1. s \in [1 .. N -> Int]
      BY <1>1, FaceFactorsType DEF N
    <2>2. ASSUME NEW n \in 1 .. N
          PROVE  MultiplierIn(g[n], c, d) = MultiplierIn(g[n - 1], c, d) * s[n]
      <3>1. n - 1 \in 0 .. N
        BY <1>1
      <3>2. g[n - 1] \in Data
        BY <1>9, <3>1
      <3>3. QED
        BY <1>4, <1>8, <3>2
    <2> HIDE DEF s
    <2>3. MultiplierIn(g[N], c, d) = MultiplierIn(g[0], c, d) * ProductOf(s)
      BY <1>1, <1>9, <2>1, <2>2, LoopMultiplies
    <2>4. QED
      BY <1>8, <2>3 DEF s
  <1>12. QED
    BY <1>3, <1>10, <1>11 DEF g

(* And for all faults, one after the other.                                *)
FaultFactors(fs, c, d) ==
  [n \in DOMAIN fs |-> ProductOf(FaceFactors(fs[n].faces, fs[n].factor, c, d))]

LEMMA FaultFactorsType ==
  ASSUME NEW fs \in Seq(FaultType), NEW c, NEW d
  PROVE  FaultFactors(fs, c, d) \in [1 .. Len(fs) -> Int]
  <1>1. ASSUME NEW n \in 1 .. Len(fs)
        PROVE  ProductOf(FaceFactors(fs[n].faces, fs[n].factor, c, d)) \in Int
    <2>1. fs[n] \in FaultType
      OBVIOUS
    <2>2. fs[n].faces \in Seq(FaceType) /\ fs[n].factor \in Int
      BY <2>1 DEF FaultType
    <2>3. QED
      BY <2>2, FaceFactorsType
  <1>2. QED
    BY <1>1 DEF FaultFactors

LEMMA FaultsMultiply ==
  ASSUME NEW t \in Data, NEW fs \in Seq(FaultType)
  PROVE  /\ MultipliedByFaults(t, fs) \in Data
         /\ \A c \in Cell, d \in FaceDir :
              MultiplierIn(MultipliedByFaults(t, fs), c, d) =
                MultiplierIn(t, c, d) * ProductOf(FaultFactors(fs, c, d))
  <1> DEFINE N == Len(fs)
             mul(u, n) == MultipliedByFault(u, fs[n])
             step == [n \in 1 .. N |-> [u \in Data |-> mul(u, n)]]
             Goes(g) == g = [n \in 0 .. N |-> IF n = 0 THEN t ELSE mul(g[n - 1], n)]
  <1>1. N \in Nat /\ \A n \in 1 .. N : fs[n] \in FaultType
    OBVIOUS
  <1>2. \A n \in 1 .. N, u \in Data : mul(u, n) \in Data
    BY <1>1, FaultMultiplies
  <1>3. MultipliedByFaults(t, fs) = (CHOOSE g : Goes(g))[N]
    BY DEF MultipliedByFaults
  <1>4. \A n \in 1 .. N, c \in Cell, d \in FaceDir, u \in Data :
          MultiplierIn(mul(u, n), c, d) = MultiplierIn(u, c, d) * FaultFactors(fs, c, d)[n]
    BY <1>1, FaultMultiplies DEF FaultFactors
  <1> HIDE DEF N, mul
  <1>5. step \in [1 .. N -> [Data -> Data]] /\ \A n \in 1 .. N, u \in Data : step[n][u] = mul(u, n)
    BY <1>2
  <1> HIDE DEF step
  <1>6. \E g : Goes(g)
    <2>1. PICK f \in [0 .. N -> Data] : IsLoop(f, t, N, step)
      BY <1>1, <1>5, LoopExists
    <2>2. ASSUME NEW n \in 1 .. N
          PROVE  f[n] = mul(f[n - 1], n)
      <3>1. n - 1 \in 0 .. N
        BY <1>1
      <3>2. f[n - 1] \in Data
        BY <3>1
      <3>3. QED
        BY <1>5, <2>1, <3>2 DEF IsLoop
    <2>3. f[0] = t
      BY <2>1 DEF IsLoop
    <2>4. Goes(f)
      BY <2>2, <2>3
    <2>5. QED
      BY <2>4
  <1> DEFINE g == CHOOSE h : Goes(h)
  <1>7. Goes(g)
    <2> HIDE DEF Goes
    <2> QED
      BY <1>6
  <1> HIDE DEF g
  <1>8. g = [n \in 0 .. N |-> g[n]] /\ g[0] = t /\ \A n \in 1 .. N : g[n] = mul(g[n - 1], n)
    <2>1. DOMAIN g = 0 .. N /\ \A n \in 0 .. N : g[n] = IF n = 0 THEN t ELSE mul(g[n - 1], n)
      BY <1>7
    <2>2. g = [n \in 0 .. N |-> g[n]]
      BY <1>7
    <2> HIDE DEF Goes
    <2>3. 0 \in 0 .. N /\ \A n \in 1 .. N : n \in 0 .. N /\ n # 0
      BY <1>1
    <2>4. g[0] = t /\ \A n \in 1 .. N : g[n] = mul(g[n - 1], n)
      BY <2>1, <2>3
    <2>5. QED
      BY <2>2, <2>4
  <1> HIDE DEF Goes
  <1>9. g \in [0 .. N -> Data] /\ IsLoop(g, t, N, step)
    <2>1. \A n \in 1 .. N : g[n - 1] \in Data => g[n] = step[n][g[n - 1]]
      BY <1>5, <1>8
    <2>2. g[0] = t
      BY <1>8
    <2>3. (\A n \in 0 .. N : g[n] \in Data) /\ IsLoop(g, t, N, step)
      BY <1>1, <1>5, <2>1, <2>2, LoopIs
    <2>4. QED
      BY <1>8, <2>3
  <1>10. g[N] \in Data
    BY <1>1, <1>9
  <1>11. ASSUME NEW c \in Cell, NEW d \in FaceDir
         PROVE  MultiplierIn(g[N], c, d) =
                  MultiplierIn(t, c, d) * ProductOf(FaultFactors(fs, c, d))
    <2> DEFINE s == FaultFactors(fs, c, d)
    <2>1. s \in [1 .. N -> Int]
      BY FaultFactorsType DEF N
    <2>2. ASSUME NEW n \in 1 .. N
          PROVE  MultiplierIn(g[n], c, d) = MultiplierIn(g[n - 1], c, d) * s[n]
      <3>1. n - 1 \in 0 .. N
        BY <1>1
      <3>2. g[n - 1] \in Data
        BY <1>9, <3>1
      <3>3. QED
        BY <1>4, <1>8, <3>2
    <2> HIDE DEF s
    <2>3. MultiplierIn(g[N], c, d) = MultiplierIn(g[0], c, d) * ProductOf(s)
      BY <1>1, <1>9, <2>1, <2>2, LoopMultiplies
    <2>4. QED
      BY <1>8, <2>3 DEF s
  <1>12. QED
    BY <1>3, <1>10, <1>11 DEF g
-----------------------------------------------------------------------------
(* A connection multiplies the one face that it is for                     *)
(* (TransMult.cpp:130-143).                                                *)
LEMMA ConnectionMultiplies ==
  ASSUME NEW t \in Data, NEW dir \in FaceDir, NEW cell \in Cell, NEW x \in Int
  PROVE  /\ Multiplied(t, dir, cell, x) \in Data
         /\ \A c \in Cell, d \in FaceDir :
              MultiplierIn(Multiplied(t, dir, cell, x), c, d) =
                MultiplierIn(t, c, d) * (IF c = cell /\ d = dir THEN x ELSE 1)
  <1> DEFINE w == WithDirection(t, dir)
             D == DOMAIN t \union {dir}
             m == Multiplied(t, dir, cell, x)
  <1>1. w \in [D -> [Cell -> Int]] /\ \A d \in D, c \in Cell : w[d][c] = MultiplierIn(t, c, d)
    BY DirectionOfOnes
  <1>2. D \in SUBSET FaceDir
    BY DataHas
  <1>3. m = [w EXCEPT ![dir][cell] = @ * x]
    BY DEF Multiplied
  <1> HIDE DEF w, m
  <1>4. dir \in D /\ w[dir] \in [Cell -> Int] /\ w[dir][cell] \in Int
    BY <1>1
  <1>5. DOMAIN m = D /\ m[dir] = [w[dir] EXCEPT ![cell] = @ * x]
        /\ \A d \in D : d # dir => m[d] = w[d]
    BY <1>1, <1>3, <1>4
  <1>6. m[dir][cell] = w[dir][cell] * x /\ \A c \in Cell : c # cell => m[dir][c] = w[dir][c]
    BY <1>4, <1>5
  <1> HIDE DEF D
  <1>7. m \in Data
    <2>1. w[dir][cell] * x \in Int
      BY <1>4
    <2>2. m \in [D -> [Cell -> Int]]
      BY <1>1, <1>3, <1>4, <2>1
    <2>3. QED
      BY <1>2, <2>2 DEF Data
  <1>8. ASSUME NEW c \in Cell, NEW d \in FaceDir
        PROVE  MultiplierIn(m, c, d) =
                 MultiplierIn(t, c, d) * (IF c = cell /\ d = dir THEN x ELSE 1)
    <2>1. MultiplierIn(t, c, d) \in Int
      BY DataHas
    <2>2. CASE d = dir
      <3>1. MultiplierIn(m, c, d) = m[dir][c] /\ MultiplierIn(t, c, d) = w[dir][c]
        BY <1>1, <1>4, <1>5, <2>2 DEF MultiplierIn
      <3>2. CASE c = cell
        BY <1>6, <2>2, <3>1, <3>2
      <3>3. CASE c # cell
        BY <1>6, <2>1, <2>2, <3>1, <3>3
      <3>4. QED
        BY <3>2, <3>3
    <2>3. CASE d # dir
      <3>1. MultiplierIn(m, c, d) = MultiplierIn(t, c, d)
        <4>1. CASE d \in D
          BY <1>1, <1>5, <2>3, <4>1 DEF MultiplierIn
        <4>2. CASE d \notin D
          BY <1>5, <4>2 DEF MultiplierIn, D
        <4>3. QED
          BY <4>1, <4>2
      <3>2. QED
        BY <2>1, <2>3, <3>1
    <2>4. QED
      BY <2>2, <2>3
  <1>9. QED
    BY <1>7, <1>8 DEF m

(* The factors that a set of connections has for one face, by the records  *)
(* they come from; a record that a later one replaces has none.            *)
IsLast(rs, p) == \A o \in p + 1 .. Len(rs) : rs[o].pair # rs[p].pair

ConnectionFactors(rs, conns, c, d) ==
  [p \in DOMAIN rs |->
     IF IsLast(rs, p) /\ [record |-> rs[p], cell |-> c, dir |-> d] \in conns
     THEN rs[p].factor ELSE 1]

LEMMA ConnectionFactorsType ==
  ASSUME NEW rs \in Seq(RecordType), NEW conns, NEW c, NEW d
  PROVE  /\ ConnectionFactors(rs, conns, c, d) \in [1 .. Len(rs) -> Int]
         /\ ProductOf(ConnectionFactors(rs, conns, c, d)) \in Int
  <1>1. ASSUME NEW p \in 1 .. Len(rs)
        PROVE  rs[p].factor \in Int
    <2>1. rs[p] \in RecordType
      OBVIOUS
    <2>2. QED
      BY <2>1 DEF RecordType
  <1>2. Len(rs) \in Nat /\ ConnectionFactors(rs, conns, c, d) \in [1 .. Len(rs) -> Int]
    BY <1>1 DEF ConnectionFactors
  <1>3. QED
    BY <1>2, ProductType

(* The last record of a pair is one.                                       *)
LEMMA LastIsOne ==
  ASSUME NEW rs \in Seq(RecordType), NEW p \in DOMAIN rs, NEW q \in DOMAIN rs,
         IsLast(rs, p), IsLast(rs, q), rs[p] = rs[q]
  PROVE  p = q
  <1>1. p \in 1 .. Len(rs) /\ q \in 1 .. Len(rs) /\ Len(rs) \in Nat
    OBVIOUS
  <1>2. ~ (p < q)
    <2>1. p < q => q \in p + 1 .. Len(rs)
      BY <1>1
    <2>2. QED
      BY <2>1 DEF IsLast
  <1>3. ~ (q < p)
    <2>1. q < p => p \in q + 1 .. Len(rs)
      BY <1>1
    <2>2. QED
      BY <2>1 DEF IsLast
  <1>4. QED
    BY <1>1, <1>2, <1>3

(* One connection more is one factor more.                                 *)
LEMMA OneConnectionMore ==
  ASSUME NEW rs \in Seq(RecordType), NEW p \in DOMAIN rs, IsLast(rs, p), NEW cell, NEW dir,
         NEW A, NEW x \in A, x = [record |-> rs[p], cell |-> cell, dir |-> dir],
         NEW c, NEW d
  PROVE  ProductOf(ConnectionFactors(rs, A, c, d)) =
           ProductOf(ConnectionFactors(rs, A \ {x}, c, d))
             * (IF c = cell /\ d = dir THEN rs[p].factor ELSE 1)
  <1> DEFINE conn(q) == [record |-> rs[q], cell |-> c, dir |-> d]
             a == ConnectionFactors(rs, A \ {x}, c, d)
             b == ConnectionFactors(rs, A, c, d)
             N == Len(rs)
  <1>1. /\ a \in [1 .. N -> Int] /\ b \in [1 .. N -> Int] /\ N \in Nat /\ p \in 1 .. N
        /\ ProductOf(a) \in Int
    BY ConnectionFactorsType
  <1>2. /\ \A q \in 1 .. N : a[q] = IF IsLast(rs, q) /\ conn(q) \in A \ {x} THEN rs[q].factor ELSE 1
        /\ \A q \in 1 .. N : b[q] = IF IsLast(rs, q) /\ conn(q) \in A THEN rs[q].factor ELSE 1
    BY DEF ConnectionFactors
  <1>3. \A q : conn(q).record = rs[q] /\ conn(q).cell = c /\ conn(q).dir = d
    OBVIOUS
  <1>4. x.record = rs[p] /\ x.cell = cell /\ x.dir = dir
    OBVIOUS
  <1>5. c = cell /\ d = dir => conn(p) = x
    OBVIOUS
  <1> HIDE DEF a, b, conn
  <1>6. CASE c = cell /\ d = dir
    <2>1. a[p] = 1 /\ b[p] = rs[p].factor
      BY <1>1, <1>2, <1>5, <1>6
    <2>2. ASSUME NEW q \in 1 .. N, q # p
          PROVE  b[q] = a[q]
      <3>1. CASE IsLast(rs, q)
        <4>1. q \in DOMAIN rs
          OBVIOUS
        <4>2. rs[q] # rs[p]
          BY <2>2, <3>1, <4>1, LastIsOne
        <4>3. conn(q) # x
          BY <1>3, <1>4, <4>2
        <4>4. QED
          BY <1>2, <4>3
      <3>2. CASE ~ IsLast(rs, q)
        BY <1>2, <3>2
      <3>3. QED
        BY <3>1, <3>2
    <2>3. ProductOf(b) = ProductOf(a) * b[p]
      BY <1>1, <2>1, <2>2, ProductChanged
    <2>4. QED
      BY <1>6, <2>1, <2>3 DEF a, b
  <1>7. CASE ~ (c = cell /\ d = dir)
    <2>1. \A q \in 1 .. N : conn(q) # x
      BY <1>3, <1>4, <1>7
    <2>2. \A q \in 1 .. N : a[q] = b[q]
      BY <1>2, <2>1
    <2>3. a = b
      BY <1>1, <2>2
    <2>4. ProductOf(b) = ProductOf(a) * 1
      BY <1>1, <2>3
    <2>5. QED
      BY <1>7, <2>4 DEF a, b
  <1>8. QED
    BY <1>6, <1>7

(* All connections, in whichever order.                                    *)
LEMMA ConnectionsMultiply ==
  ASSUME NEW t \in Data, NEW rs \in Seq(RecordType), NEW conns, IsFiniteSet(conns),
         \A x \in conns : /\ x = [record |-> x.record, cell |-> x.cell, dir |-> x.dir]
                          /\ x.cell \in Cell /\ x.dir \in FaceDir
                          /\ \E p \in DOMAIN rs : IsLast(rs, p) /\ x.record = rs[p]
  PROVE  /\ MultipliedByConnections(t, conns) \in Data
         /\ \A c \in Cell, d \in FaceDir :
              MultiplierIn(MultipliedByConnections(t, conns), c, d) =
                MultiplierIn(t, c, d) * ProductOf(ConnectionFactors(rs, conns, c, d))
  <1> DEFINE mul(u, x) == Multiplied(u, x.dir, x.cell, x.record.factor)
             one(A) == CHOOSE x \in A : TRUE
             step == [x \in conns |-> [u \in Data |-> mul(u, x)]]
             Goes(g) == g = [A \in SUBSET conns |-> IF A = {} THEN t
                                                    ELSE mul(g[A \ {one(A)}], one(A))]
  <1>1. MultipliedByConnections(t, conns) = (CHOOSE g : Goes(g))[conns]
    BY DEF MultipliedByConnections
  <1>2. \A x \in conns : x.record.factor \in Int
    <2>1. \A p \in DOMAIN rs : rs[p] \in RecordType
      OBVIOUS
    <2>2. QED
      BY <2>1 DEF RecordType
  <1>3. \A x \in conns, u \in Data :
          /\ mul(u, x) \in Data
          /\ \A c \in Cell, d \in FaceDir :
               MultiplierIn(mul(u, x), c, d) =
                 MultiplierIn(u, c, d) * (IF c = x.cell /\ d = x.dir THEN x.record.factor ELSE 1)
    BY <1>2, ConnectionMultiplies
  <1>4. \A A \in SUBSET conns : A # {} => one(A) \in A
    OBVIOUS
  <1> HIDE DEF mul
  <1>5. step \in [conns -> [Data -> Data]] /\ \A x \in conns, u \in Data : step[x][u] = mul(u, x)
    BY <1>3
  <1> HIDE DEF step
  <1>6. \E g : Goes(g)
    <2>1. PICK f \in [SUBSET conns -> Data] : IsSetLoop(f, t, conns, step)
      BY <1>5, SetLoopExists
    <2>2. \A A \in SUBSET conns : f[A] = IF A = {} THEN t ELSE step[one(A)][f[A \ {one(A)}]]
      BY <2>1 DEF IsSetLoop
    <2> HIDE DEF one
    <2>3. ASSUME NEW A \in SUBSET conns
          PROVE  f[A] = IF A = {} THEN t ELSE mul(f[A \ {one(A)}], one(A))
      <3>1. A # {} => one(A) \in conns
        BY <1>4
      <3>2. f[A \ {one(A)}] \in Data
        OBVIOUS
      <3>3. QED
        BY <1>5, <2>2, <3>1, <3>2
    <2>4. f = [A \in SUBSET conns |-> f[A]]
      OBVIOUS
    <2>5. Goes(f)
      BY <2>3, <2>4
    <2>6. QED
      BY <2>5
  <1> DEFINE g == CHOOSE h : Goes(h)
  <1>7. Goes(g)
    <2> HIDE DEF Goes
    <2> QED
      BY <1>6
  <1> HIDE DEF g
  <1>8. \A A \in SUBSET conns : g[A] = IF A = {} THEN t ELSE mul(g[A \ {one(A)}], one(A))
    BY <1>7
  <1> HIDE DEF Goes, one
  <1> DEFINE Right(A) ==
               /\ g[A] \in Data
               /\ \A c \in Cell, d \in FaceDir :
                    MultiplierIn(g[A], c, d) =
                      MultiplierIn(t, c, d) * ProductOf(ConnectionFactors(rs, A, c, d))
             T == {A \in SUBSET conns : Right(A)}
  <1>9. {} \in T
    <2>1. g[{}] = t
      BY <1>8
    <2>2. ASSUME NEW c \in Cell, NEW d \in FaceDir
          PROVE  MultiplierIn(t, c, d) =
                   MultiplierIn(t, c, d) * ProductOf(ConnectionFactors(rs, {}, c, d))
      <3>1. ConnectionFactors(rs, {}, c, d) \in [1 .. Len(rs) -> Int] /\ Len(rs) \in Nat
        BY ConnectionFactorsType
      <3>2. \A p \in 1 .. Len(rs) : ConnectionFactors(rs, {}, c, d)[p] = 1
        BY DEF ConnectionFactors
      <3>3. ProductOf(ConnectionFactors(rs, {}, c, d)) = 1
        BY <3>1, <3>2, ProductOfOnes
      <3>4. MultiplierIn(t, c, d) \in Int
        BY DataHas
      <3>5. QED
        BY <3>3, <3>4
    <2>3. QED
      BY <2>1, <2>2
  <1>10. ASSUME NEW A \in SUBSET conns, A # {}, A \ {one(A)} \in T
         PROVE  A \in T
    <2> DEFINE x == one(A)
               B == A \ {x}
    <2>1. x \in A /\ x \in conns
      BY <1>4, <1>10
    <2>2. g[A] = mul(g[B], x)
      BY <1>8, <1>10
    <2>3. Right(B)
      BY <1>10
    <2> HIDE DEF x
    <2>4. g[A] \in Data
      BY <1>3, <2>1, <2>2, <2>3
    <2>5. PICK p \in DOMAIN rs : IsLast(rs, p) /\ x.record = rs[p]
      BY <2>1
    <2>6. x = [record |-> rs[p], cell |-> x.cell, dir |-> x.dir]
      BY <2>1, <2>5
    <2>7. ASSUME NEW c \in Cell, NEW d \in FaceDir
          PROVE  MultiplierIn(g[A], c, d) =
                   MultiplierIn(t, c, d) * ProductOf(ConnectionFactors(rs, A, c, d))
      <3> DEFINE y == IF c = x.cell /\ d = x.dir THEN rs[p].factor ELSE 1
                 m == MultiplierIn(t, c, d)
                 k == ProductOf(ConnectionFactors(rs, B, c, d))
      <3>1. MultiplierIn(g[A], c, d) = MultiplierIn(g[B], c, d) * y
        BY <1>3, <2>1, <2>2, <2>3, <2>5
      <3>2. MultiplierIn(g[B], c, d) = m * k
        BY <2>3
      <3>3. ProductOf(ConnectionFactors(rs, A, c, d)) = k * y
        <4>1. ProductOf(ConnectionFactors(rs, A, c, d)) =
                ProductOf(ConnectionFactors(rs, A \ {x}, c, d))
                  * (IF c = x.cell /\ d = x.dir THEN rs[p].factor ELSE 1)
          <5> DEFINE cell == x.cell  dir == x.dir
          <5>1. x = [record |-> rs[p], cell |-> cell, dir |-> dir]
            BY <2>6
          <5> HIDE DEF cell, dir, B, y, m, k
          <5>2. ProductOf(ConnectionFactors(rs, A, c, d)) =
                  ProductOf(ConnectionFactors(rs, A \ {x}, c, d))
                    * (IF c = cell /\ d = dir THEN rs[p].factor ELSE 1)
            BY <2>1, <2>5, <5>1, OneConnectionMore
          <5>3. QED
            BY <5>2 DEF cell, dir
        <4>2. QED
          BY <4>1
      <3>4. m \in Int /\ k \in Int /\ y \in Int
        BY <1>2, <2>1, <2>5, DataHas, ConnectionFactorsType
      <3> HIDE DEF y, m, k
      <3>5. (m * k) * y = m * (k * y)
        BY <3>4
      <3>6. QED
        BY <3>1, <3>2, <3>3, <3>5 DEF m
    <2>8. QED
      BY <2>4, <2>7
  <1>11. SUBSET conns \subseteq T
    <2>1. \A A \in SUBSET conns : A # {} /\ A \ {CHOOSE x \in A : TRUE} \in T => A \in T
      BY <1>10 DEF one
    <2> HIDE DEF T
    <2>2. QED
      BY <1>9, <2>1, SubsetInduction
  <1>12. Right(conns)
    BY <1>11
  <1>13. QED
    BY <1>1, <1>12 DEF g
-----------------------------------------------------------------------------
(* Multiplication keeps the order.                                         *)
LEMMA MulMono ==
  ASSUME NEW a \in Nat, NEW b \in Nat, NEW n \in Nat, a <= b
  PROVE  a * n \in Nat /\ b * n \in Nat /\ a * n <= b * n
  <1>1. PICK k \in Nat : b = a + k
    <2>1. b - a \in Nat /\ b = a + (b - a)
      OBVIOUS
    <2>2. QED
      BY <2>1
  <1>2. a * n \in Nat /\ k * n \in Nat
    OBVIOUS
  <1>3. b * n = a * n + k * n
    BY <1>1
  <1>4. QED
    BY <1>2, <1>3

(* A number is its quotient times the divisor and its rest.                *)
LEMMA DivideBack ==
  ASSUME NEW a \in Nat, NEW n \in Nat \ {0}
  PROVE  a \div n \in Nat /\ a % n \in 0 .. n - 1 /\ a = (a \div n) * n + (a % n)
  OBVIOUS

(* Quotient and rest are the only such numbers.                            *)
LEMMA Divide ==
  ASSUME NEW q \in Nat, NEW n \in Nat \ {0}, NEW r \in 0 .. n - 1
  PROVE  q * n + r \in Nat /\ (q * n + r) \div n = q /\ (q * n + r) % n = r
  <1> DEFINE a == q * n + r
             p == a \div n
             s == a % n
  <1>1. a \in Nat /\ q * n \in Nat
    OBVIOUS
  <1>2. p \in Nat /\ s \in 0 .. n - 1 /\ a = p * n + s
    BY <1>1, DivideBack
  <1>3. p * n \in Nat /\ p * n + s = q * n + r
    BY <1>2
  <1> HIDE DEF p, s, a
  <1>4. ~ (p < q)
    <2>1. SUFFICES ASSUME p < q PROVE FALSE
      OBVIOUS
    <2>2. (p + 1) * n <= q * n
      BY <1>2, <2>1, MulMono
    <2>3. (p + 1) * n = p * n + n
      BY <1>2
    <2>4. QED
      BY <1>1, <1>2, <1>3, <2>2, <2>3
  <1>5. ~ (q < p)
    <2>1. SUFFICES ASSUME q < p PROVE FALSE
      OBVIOUS
    <2>2. (q + 1) * n <= p * n
      BY <1>2, <2>1, MulMono
    <2>3. (q + 1) * n = q * n + n
      OBVIOUS
    <2>4. QED
      BY <1>1, <1>2, <1>3, <2>2, <2>3
  <1>6. p = q
    BY <1>2, <1>4, <1>5
  <1>7. s = r
    BY <1>1, <1>2, <1>3, <1>6
  <1>8. QED
    BY <1>1, <1>6, <1>7 DEF p, s, a

(* The quotient of a number below a product.                               *)
LEMMA QuotientBelow ==
  ASSUME NEW a \in Nat, NEW n \in Nat \ {0}, NEW m \in Nat \ {0}, a < m * n
  PROVE  a \div n \in 0 .. m - 1
  <1> DEFINE q == a \div n
  <1>1. q \in Nat /\ a % n \in Nat /\ a = q * n + (a % n)
    BY DivideBack
  <1> HIDE DEF q
  <1>2. ~ (q >= m)
    <2>1. SUFFICES ASSUME q >= m PROVE FALSE
      OBVIOUS
    <2>2. m * n <= q * n /\ q * n \in Nat /\ m * n \in Nat
      BY <1>1, <2>1, MulMono
    <2>3. QED
      BY <1>1, <2>2
  <1>3. q \in 0 .. m - 1
    BY <1>1, <1>2
  <1>4. QED
    BY <1>3 DEF q

(* A number from its digits with two different bases.                      *)
LEMMA DivideTwice ==
  ASSUME NEW a \in Nat, NEW m \in Nat \ {0}, NEW n \in Nat \ {0}
  PROVE  a = (a \div (m * n)) * (m * n) + ((a \div m) % n) * m + (a % m)
  <1> DEFINE p == a \div m
             q == p \div n
             r == p % n
             s == a % m
             v == r * m + s
  <1>1. p \in Nat /\ s \in 0 .. m - 1 /\ a = p * m + s
    BY DivideBack
  <1> HIDE DEF p, s
  <1>2. q \in Nat /\ r \in 0 .. n - 1 /\ p = q * n + r
    BY <1>1, DivideBack
  <1> HIDE DEF q, r
  <1>3. m * n \in Nat \ {0}
    <2>1. 1 * n <= m * n /\ m * n \in Nat
      BY MulMono
    <2>2. QED
      BY <2>1
  <1>4. v \in 0 .. m * n - 1
    <2>1. (r + 1) * m <= n * m /\ n * m = m * n
      BY <1>2, MulMono
    <2>2. (r + 1) * m = r * m + m /\ r * m \in Nat
      BY <1>2
    <2>3. QED
      BY <1>1, <1>2, <1>3, <2>1, <2>2
  <1>5. a = q * (m * n) + v
    BY <1>1, <1>2
  <1> HIDE DEF v
  <1>6. a \div (m * n) = q
    BY <1>2, <1>3, <1>4, <1>5, Divide
  <1>7. a = q * (m * n) + r * m + s
    BY <1>1, <1>2, <1>5 DEF v
  <1>8. QED
    BY <1>6, <1>7 DEF r, s, p

(* Where a cell is, from its place in the grid, and the other way round.   *)
LEMMA CellIs ==
  ASSUME NEW i \in 0 .. NX - 1, NEW j \in 0 .. NY - 1, NEW k \in 0 .. NZ - 1
  PROVE  /\ i + j * NX + k * NX * NY \in Cell
         /\ At(i + j * NX + k * NX * NY) = [i |-> i, j |-> j, k |-> k]
  <1> DEFINE c == i + j * NX + k * NX * NY
             w == k * NY + j
             v == j * NX + i
  <1>1. NX \in Nat \ {0} /\ NY \in Nat \ {0} /\ NZ \in Nat \ {0}
    BY TransMultAssumption
  <1>2. i \in Nat /\ j \in Nat /\ k \in Nat /\ i + 1 <= NX /\ j + 1 <= NY /\ k + 1 <= NZ
    BY <1>1
  <1>3. w \in Nat /\ w \div NY = k /\ w % NY = j
    BY <1>1, <1>2, Divide
  <1>4. c = w * NX + i
    BY <1>1, <1>2
  <1>5. c \in Nat /\ c \div NX = w /\ c % NX = i
    <2> HIDE DEF w, c
    <2> QED
      BY <1>1, <1>3, <1>4, Divide
  <1>6. NX * NY \in Nat \ {0} /\ v \in 0 .. NX * NY - 1
    <2>1. (j + 1) * NX <= NY * NX /\ NY * NX = NX * NY
      BY <1>1, <1>2, MulMono
    <2>2. (j + 1) * NX = j * NX + NX /\ j * NX \in Nat /\ NX * NY \in Nat
      BY <1>1, <1>2
    <2>3. QED
      BY <1>1, <1>2, <2>1, <2>2
  <1>7. c = k * (NX * NY) + v
    BY <1>1, <1>2
  <1>8. c \div (NX * NY) = k
    <2> HIDE DEF v, c
    <2> QED
      BY <1>2, <1>6, <1>7, Divide
  <1>9. c < NX * NY * NZ
    <2> DEFINE u == NX * NY
    <2>1. (k + 1) * u <= NZ * u
      BY <1>1, <1>2, <1>6, MulMono
    <2>2. (k + 1) * u = k * u + u /\ k * u \in Nat /\ NZ * u = u * NZ /\ NZ * u \in Nat
      BY <1>1, <1>2, <1>6
    <2>3. c < u * NZ
      <3> HIDE DEF u, v, c
      <3>1. c = k * u + v /\ v \in 0 .. u - 1 /\ u \in Nat
        BY <1>6, <1>7 DEF u
      <3>2. QED
        BY <2>1, <2>2, <3>1
    <2>4. QED
      BY <2>3
  <1>10. At(c) = [i |-> i, j |-> j, k |-> k]
    BY <1>3, <1>5, <1>8 DEF At
  <1>11. c \in Cell
    <2> HIDE DEF c
    <2>1. NX * NY * NZ \in Nat
      BY <1>1
    <2>2. QED
      BY <1>5, <1>9, <2>1 DEF Cell
  <1>12. QED
    BY <1>10, <1>11

LEMMA CellBack ==
  ASSUME NEW c \in Cell
  PROVE  /\ At(c).i \in 0 .. NX - 1 /\ At(c).j \in 0 .. NY - 1 /\ At(c).k \in 0 .. NZ - 1
         /\ At(c) = [i |-> At(c).i, j |-> At(c).j, k |-> At(c).k]
         /\ c = At(c).i + At(c).j * NX + At(c).k * NX * NY
  <1> DEFINE i == c % NX
             p == c \div NX
             j == p % NY
             k == c \div (NX * NY)
  <1>1. NX \in Nat \ {0} /\ NY \in Nat \ {0} /\ NZ \in Nat \ {0} /\ NX * NY \in Nat \ {0}
    <2>1. NX \in Nat \ {0} /\ NY \in Nat \ {0} /\ NZ \in Nat \ {0}
      BY TransMultAssumption
    <2>2. 1 * NY <= NX * NY /\ NX * NY \in Nat
      BY <2>1, MulMono
    <2>3. QED
      BY <2>1, <2>2
  <1>2. c \in Nat /\ c < NX * NY * NZ /\ NZ * (NX * NY) = NX * NY * NZ
    <2>1. NX * NY * NZ \in Nat /\ NZ * (NX * NY) = NX * NY * NZ
      BY <1>1
    <2>2. QED
      BY <2>1 DEF Cell
  <1>3. p \in Nat /\ i \in 0 .. NX - 1
    BY <1>1, <1>2, DivideBack
  <1>4. j \in 0 .. NY - 1
    BY <1>1, <1>3, DivideBack
  <1>5. k \in 0 .. NZ - 1
    BY <1>1, <1>2, QuotientBelow
  <1>6. c = k * (NX * NY) + j * NX + i
    BY <1>1, <1>2, DivideTwice
  <1>7. At(c).i = i /\ At(c).j = j /\ At(c).k = k
    BY DEF At
  <1> HIDE DEF i, p, j, k
  <1>8. c = i + j * NX + k * NX * NY
    <2>1. i \in Nat /\ j \in Nat /\ k \in Nat
      BY <1>1, <1>3, <1>4, <1>5
    <2>2. QED
      BY <1>1, <1>6, <2>1
  <1>9. At(c) = [i |-> At(c).i, j |-> At(c).j, k |-> At(c).k]
    BY DEF At
  <1>10. QED
    BY <1>3, <1>4, <1>5, <1>7, <1>8, <1>9

LEMMA FromStringType ==
  ASSUME NEW name \in DOMAIN FromString
  PROVE  FromString[name] \in FaceDir
  BY DEF FromString, FaceDir

(* The cells of a face are those of the range of its record                *)
(* (FaultFace.cpp:50-79).                                                  *)
LEMMA FaceIs ==
  ASSUME NEW r, IsFace(r), r.range \in Range6
  PROVE  /\ Face(r) \in FaceType
         /\ \A c \in Cell, d \in FaceDir :
              d = Face(r).dir /\ c \in Face(r).cells <=> OnFace(r, c, d)
  <1> DEFINE b == r.range
             place(i, j, k) == i + j * NX + k * NX * NY
             I == b.i1 - 1 .. b.i2 - 1
             J == b.j1 - 1 .. b.j2 - 1
             K == b.k1 - 1 .. b.k2 - 1
  <1>1. NX \in Nat /\ NY \in Nat /\ NZ \in Nat
    BY TransMultAssumption
  <1>2. /\ b.i1 \in Nat /\ b.i2 \in Nat /\ b.j1 \in Nat /\ b.j2 \in Nat
        /\ b.k1 \in Nat /\ b.k2 \in Nat
    BY DEF Range6
  <1>3. /\ 1 <= b.i1 /\ b.i2 <= NX /\ 1 <= b.j1 /\ b.j2 <= NY /\ 1 <= b.k1 /\ b.k2 <= NZ
        /\ r.dir \in DOMAIN FromString
    BY DEF IsFace
  <1>4. Face(r).dir = FromString[r.dir]
        /\ Face(r).cells = {place(i, j, k) : i \in I, j \in J, k \in K}
    BY DEF Face
  <1> HIDE DEF b, place
  <1>5. ASSUME NEW i \in I, NEW j \in J, NEW k \in K
        PROVE  i \in 0 .. NX - 1 /\ j \in 0 .. NY - 1 /\ k \in 0 .. NZ - 1
    BY <1>1, <1>2, <1>3
  <1>6. ASSUME NEW c \in Face(r).cells
        PROVE  /\ c \in Cell
               /\ At(c).i \in I /\ At(c).j \in J /\ At(c).k \in K
    <2>1. PICK i \in I, j \in J, k \in K : c = place(i, j, k)
      BY <1>4
    <2>2. c \in Cell /\ At(c) = [i |-> i, j |-> j, k |-> k]
      BY <1>5, <2>1, CellIs DEF place
    <2>3. QED
      BY <2>2
  <1>7. ASSUME NEW c \in Cell, At(c).i \in I, At(c).j \in J, At(c).k \in K
        PROVE  c \in Face(r).cells
    <2>1. c = place(At(c).i, At(c).j, At(c).k)
      BY CellBack DEF place
    <2>2. QED
      BY <1>4, <1>7, <2>1
  <1>8. Face(r) \in FaceType
    <2>1. Face(r) = [dir |-> Face(r).dir, cells |-> Face(r).cells]
      BY DEF Face
    <2>2. Face(r).dir \in FaceDir
      BY <1>3, <1>4, FromStringType
    <2>3. Face(r).cells \subseteq Cell
      BY <1>6
    <2>4. QED
      BY <2>1, <2>2, <2>3 DEF FaceType
  <1>9. ASSUME NEW c \in Cell
        PROVE  /\ At(c).i \in I <=> At(c).i + 1 \in b.i1 .. b.i2
               /\ At(c).j \in J <=> At(c).j + 1 \in b.j1 .. b.j2
               /\ At(c).k \in K <=> At(c).k + 1 \in b.k1 .. b.k2
    <2>1. At(c).i \in Int /\ At(c).j \in Int /\ At(c).k \in Int
      BY <1>1, CellBack
    <2>2. QED
      BY <1>2, <2>1
  <1> HIDE DEF I, J, K
  <1>10. ASSUME NEW c \in Cell, NEW d \in FaceDir
         PROVE  d = Face(r).dir /\ c \in Face(r).cells <=> OnFace(r, c, d)
    BY <1>4, <1>6, <1>7, <1>9 DEF OnFace, b
  <1>11. QED
    BY <1>8, <1>10
(* A step to the next cell goes across the face, and no other step does.   *)
LEMMA NextIsAcross ==
  ASSUME NEW c \in Cell, NEW step \in Across, HasNext(c, step)
  PROVE  /\ c + step.by \in Cell
         /\ IsAcross(c, step.plus, c + step.by) /\ IsAcross(c + step.by, step.minus, c)
  <1> DEFINE i == At(c).i  j == At(c).j  k == At(c).k
  <1>1. NX \in Nat \ {0} /\ NY \in Nat \ {0} /\ NZ \in Nat \ {0}
    BY TransMultAssumption
  <1>2. /\ i \in 0 .. NX - 1 /\ j \in 0 .. NY - 1 /\ k \in 0 .. NZ - 1
        /\ At(c) = [i |-> i, j |-> j, k |-> k] /\ c = i + j * NX + k * NX * NY
    BY CellBack
  <1>3. i = c % NX /\ j = (c \div NX) % NY /\ k = c \div (NX * NY)
    BY DEF At
  <1> HIDE DEF i, j, k
  <1>4. i \in Nat /\ j \in Nat /\ k \in Nat
    BY <1>1, <1>2
  <1>5. CASE step = [plus |-> "X+", minus |-> "X-", by |-> 1]
    <2>1. i + 1 \in 0 .. NX - 1
      BY <1>1, <1>3, <1>4, <1>5 DEF HasNext
    <2>2. c + 1 = (i + 1) + j * NX + k * NX * NY
      BY <1>1, <1>2, <1>4
    <2>3. c + 1 \in Cell /\ At(c + 1) = [i |-> i + 1, j |-> j, k |-> k]
      BY <1>2, <2>1, <2>2, CellIs
    <2>4. At(c + 1) = [At(c) EXCEPT !.i = @ + 1] /\ At(c) = [At(c + 1) EXCEPT !.i = @ - 1]
      BY <1>2, <1>4, <2>3
    <2>5. QED
      BY <1>5, <2>3, <2>4 DEF IsAcross
  <1>6. CASE step = [plus |-> "Y+", minus |-> "Y-", by |-> NX]
    <2>1. j + 1 \in 0 .. NY - 1
      BY <1>1, <1>3, <1>4, <1>6 DEF HasNext
    <2>2. c + NX = i + (j + 1) * NX + k * NX * NY
      BY <1>1, <1>2, <1>4
    <2>3. c + NX \in Cell /\ At(c + NX) = [i |-> i, j |-> j + 1, k |-> k]
      BY <1>2, <2>1, <2>2, CellIs
    <2>4. At(c + NX) = [At(c) EXCEPT !.j = @ + 1] /\ At(c) = [At(c + NX) EXCEPT !.j = @ - 1]
      BY <1>2, <1>4, <2>3
    <2>5. QED
      BY <1>6, <2>3, <2>4 DEF IsAcross
  <1>7. CASE step = [plus |-> "Z+", minus |-> "Z-", by |-> NX * NY]
    <2>1. k + 1 \in 0 .. NZ - 1
      BY <1>1, <1>3, <1>4, <1>7 DEF HasNext
    <2>2. c + NX * NY = i + j * NX + (k + 1) * NX * NY
      BY <1>1, <1>2, <1>4
    <2>3. c + NX * NY \in Cell /\ At(c + NX * NY) = [i |-> i, j |-> j, k |-> k + 1]
      BY <1>2, <2>1, <2>2, CellIs
    <2>4. /\ At(c + NX * NY) = [At(c) EXCEPT !.k = @ + 1]
          /\ At(c) = [At(c + NX * NY) EXCEPT !.k = @ - 1]
      BY <1>2, <1>4, <2>3
    <2>5. QED
      BY <1>7, <2>3, <2>4 DEF IsAcross
  <1>8. QED
    BY <1>5, <1>6, <1>7 DEF Across

LEMMA AcrossIsNext ==
  ASSUME NEW c \in Cell, NEW o \in Cell, NEW step \in Across,
         IsAcross(c, step.plus, o) \/ IsAcross(o, step.minus, c)
  PROVE  HasNext(c, step) /\ o = c + step.by
  <1> DEFINE i == At(c).i  j == At(c).j  k == At(c).k
             x == At(o).i  y == At(o).j  z == At(o).k
  <1>1. NX \in Nat \ {0} /\ NY \in Nat \ {0} /\ NZ \in Nat \ {0}
    BY TransMultAssumption
  <1>2. /\ i \in 0 .. NX - 1 /\ j \in 0 .. NY - 1 /\ k \in 0 .. NZ - 1
        /\ At(c) = [i |-> i, j |-> j, k |-> k] /\ c = i + j * NX + k * NX * NY
    BY CellBack
  <1>3. /\ x \in 0 .. NX - 1 /\ y \in 0 .. NY - 1 /\ z \in 0 .. NZ - 1
        /\ At(o) = [i |-> x, j |-> y, k |-> z] /\ o = x + y * NX + z * NX * NY
    BY CellBack
  <1>4. i = c % NX /\ j = (c \div NX) % NY /\ k = c \div (NX * NY)
    BY DEF At
  <1> HIDE DEF i, j, k, x, y, z
  <1>5. i \in Nat /\ j \in Nat /\ k \in Nat /\ x \in Nat /\ y \in Nat /\ z \in Nat
    BY <1>1, <1>2, <1>3
  <1>6. CASE step = [plus |-> "X+", minus |-> "X-", by |-> 1]
    <2>1. At(o) = [At(c) EXCEPT !.i = @ + 1] \/ At(c) = [At(o) EXCEPT !.i = @ - 1]
      BY <1>6 DEF IsAcross
    <2>2. x = i + 1 /\ y = j /\ z = k
      BY <1>2, <1>3, <1>5, <2>1
    <2>3. o = c + 1
      BY <1>1, <1>2, <1>3, <1>5, <2>2
    <2>4. (c % NX) + 1 < NX
      BY <1>1, <1>3, <1>4, <1>5, <2>2
    <2>5. QED
      BY <1>6, <2>3, <2>4 DEF HasNext
  <1>7. CASE step = [plus |-> "Y+", minus |-> "Y-", by |-> NX]
    <2>1. At(o) = [At(c) EXCEPT !.j = @ + 1] \/ At(c) = [At(o) EXCEPT !.j = @ - 1]
      BY <1>7 DEF IsAcross
    <2>2. x = i /\ y = j + 1 /\ z = k
      BY <1>2, <1>3, <1>5, <2>1
    <2>3. o = c + NX
      <3>1. (j + 1) * NX = j * NX + NX
        BY <1>1, <1>5
      <3>2. QED
        BY <1>1, <1>2, <1>3, <1>5, <2>2, <3>1
    <2>4. ((c \div NX) % NY) + 1 < NY
      BY <1>1, <1>3, <1>4, <1>5, <2>2
    <2>5. QED
      BY <1>7, <2>3, <2>4 DEF HasNext
  <1>8. CASE step = [plus |-> "Z+", minus |-> "Z-", by |-> NX * NY]
    <2>1. At(o) = [At(c) EXCEPT !.k = @ + 1] \/ At(c) = [At(o) EXCEPT !.k = @ - 1]
      BY <1>8 DEF IsAcross
    <2>2. x = i /\ y = j /\ z = k + 1
      BY <1>2, <1>3, <1>5, <2>1
    <2>3. o = c + NX * NY
      <3>1. (k + 1) * NX * NY = k * NX * NY + NX * NY
        BY <1>1, <1>5
      <3>2. QED
        BY <1>1, <1>2, <1>3, <1>5, <2>2, <3>1
    <2>4. (c \div (NX * NY)) + 1 < NZ
      BY <1>1, <1>3, <1>4, <1>5, <2>2
    <2>5. QED
      BY <1>8, <2>3, <2>4 DEF HasNext
  <1>9. QED
    BY <1>6, <1>7, <1>8 DEF Across

LEMMA StepOf ==
  ASSUME NEW d \in FaceDir
  PROVE  \E step \in Across : d = step.plus \/ d = step.minus
  BY DEF FaceDir, Across

LEMMA StepDirections ==
  ASSUME NEW step \in Across
  PROVE  step.plus \in FaceDir /\ step.minus \in FaceDir
  BY DEF FaceDir, Across

LEMMA InSearchMap ==
  ASSUME NEW rs \in Seq(RecordType)
  PROVE  \A r : r \in SearchMap(rs) <=> \E p \in DOMAIN rs : IsLast(rs, p) /\ r = rs[p]
  BY DEF SearchMap, IsLast

(* A connection is there for a record that has the direction and the       *)
(* regions of the cell and of the one across, whichever of the two the     *)
(* scan came to first (MULTREGTScanner.cpp:169-188, 255-290).              *)
Joins(r, props, c, d) ==
  /\ d \in r.directions
  /\ \E o \in Cell : IsAcross(c, d, o) /\ r.pair = <<props[r.region][c], props[r.region][o]>>

LEMMA ConnectionsAre ==
  ASSUME NEW rs \in Seq(RecordType), NEW props
  PROVE  \A x : x \in Connections(rs, props) <=>
           \E r \in SearchMap(rs), c \in Cell, d \in FaceDir :
             Joins(r, props, c, d) /\ x = [record |-> r, cell |-> c, dir |-> d]
  <1>1. \A x : x \in Connections(rs, props) <=>
          \E c \in Cell, step \in Across :
            HasNext(c, step) /\ x \in CheckConnection(rs, props, c, step)
    BY DEF Connections
  <1> DEFINE Gives(r, c, step, x) ==
               \/ /\ x = [record |-> r, cell |-> c, dir |-> step.plus]
                  /\ step.plus \in r.directions
                  /\ r.pair = <<props[r.region][c], props[r.region][c + step.by]>>
               \/ /\ x = [record |-> r, cell |-> c + step.by, dir |-> step.minus]
                  /\ step.minus \in r.directions
                  /\ r.pair = <<props[r.region][c + step.by], props[r.region][c]>>
  <1>2. \A x, c, step : x \in CheckConnection(rs, props, c, step) <=>
          \E r \in SearchMap(rs) : Gives(r, c, step, x)
    BY DEF CheckConnection
  <1> HIDE DEF Gives
  <1>3. ASSUME NEW c \in Cell, NEW step \in Across, HasNext(c, step),
               NEW x \in CheckConnection(rs, props, c, step)
        PROVE  \E r \in SearchMap(rs), e \in Cell, d \in FaceDir :
                 Joins(r, props, e, d) /\ x = [record |-> r, cell |-> e, dir |-> d]
    <2>1. /\ c + step.by \in Cell
          /\ IsAcross(c, step.plus, c + step.by) /\ IsAcross(c + step.by, step.minus, c)
      BY <1>3, NextIsAcross
    <2>2. PICK r \in SearchMap(rs) : Gives(r, c, step, x)
      BY <1>2, <1>3
    <2> DEFINE next == c + step.by  plus == step.plus  minus == step.minus
    <2>3. plus \in FaceDir /\ minus \in FaceDir
      BY StepDirections
    <2>4. CASE /\ x = [record |-> r, cell |-> c, dir |-> plus]
               /\ plus \in r.directions
               /\ r.pair = <<props[r.region][c], props[r.region][next]>>
      <3>1. Joins(r, props, c, plus)
        BY <2>1, <2>4 DEF Joins
      <3> HIDE DEF plus
      <3>2. QED
        BY <2>3, <2>4, <3>1
    <2>5. CASE /\ x = [record |-> r, cell |-> next, dir |-> minus]
               /\ minus \in r.directions
               /\ r.pair = <<props[r.region][next], props[r.region][c]>>
      <3>1. Joins(r, props, next, minus) /\ next \in Cell
        BY <2>1, <2>5 DEF Joins
      <3> HIDE DEF minus, next
      <3>2. QED
        BY <2>3, <2>5, <3>1
    <2>6. QED
      BY <2>2, <2>4, <2>5 DEF Gives
  <1>4. ASSUME NEW r \in SearchMap(rs), NEW e \in Cell, NEW d \in FaceDir,
               Joins(r, props, e, d), NEW x, x = [record |-> r, cell |-> e, dir |-> d]
        PROVE  \E c \in Cell, step \in Across :
                 HasNext(c, step) /\ x \in CheckConnection(rs, props, c, step)
    <2>1. PICK step \in Across : d = step.plus \/ d = step.minus
      BY StepOf
    <2>2. PICK o \in Cell : IsAcross(e, d, o)
                            /\ r.pair = <<props[r.region][e], props[r.region][o]>>
      BY <1>4 DEF Joins
    <2>3. d \in r.directions
      BY <1>4 DEF Joins
    <2>4. CASE d = step.plus
      <3>1. HasNext(e, step) /\ o = e + step.by
        BY <2>2, <2>4, AcrossIsNext
      <3>2. Gives(r, e, step, x)
        BY <1>4, <2>2, <2>3, <2>4, <3>1 DEF Gives
      <3>3. x \in CheckConnection(rs, props, e, step)
        BY <1>2, <3>2
      <3>4. QED
        BY <3>1, <3>3
    <2>5. CASE d = step.minus
      <3>1. HasNext(o, step) /\ e = o + step.by
        BY <2>2, <2>5, AcrossIsNext
      <3>2. Gives(r, o, step, x)
        BY <1>4, <2>2, <2>3, <2>5, <3>1 DEF Gives
      <3>3. x \in CheckConnection(rs, props, o, step)
        BY <1>2, <3>2
      <3>4. QED
        BY <3>1, <3>3
    <2>6. QED
      BY <2>1, <2>4, <2>5
  <1>5. ASSUME NEW x
        PROVE  x \in Connections(rs, props) <=>
                 \E r \in SearchMap(rs), c \in Cell, d \in FaceDir :
                   Joins(r, props, c, d) /\ x = [record |-> r, cell |-> c, dir |-> d]
    <2>1. ASSUME x \in Connections(rs, props)
          PROVE  \E r \in SearchMap(rs), c \in Cell, d \in FaceDir :
                   Joins(r, props, c, d) /\ x = [record |-> r, cell |-> c, dir |-> d]
      <3>1. PICK c \in Cell, step \in Across :
              HasNext(c, step) /\ x \in CheckConnection(rs, props, c, step)
        BY <1>1, <2>1
      <3>2. QED
        BY <1>3, <3>1
    <2>2. ASSUME \E r \in SearchMap(rs), c \in Cell, d \in FaceDir :
                   Joins(r, props, c, d) /\ x = [record |-> r, cell |-> c, dir |-> d]
          PROVE  x \in Connections(rs, props)
      <3>1. \E c \in Cell, step \in Across :
              HasNext(c, step) /\ x \in CheckConnection(rs, props, c, step)
        BY <1>4, <2>2
      <3>2. QED
        BY <1>1, <3>1
    <2>3. QED
      BY <2>1, <2>2
  <1>6. QED
    BY <1>5

LEMMA ConnectionsFinite ==
  ASSUME NEW rs \in Seq(RecordType), NEW props
  PROVE  IsFiniteSet(Connections(rs, props))
  <1> DEFINE P == 1 .. Len(rs)
             S == (P \X Cell) \X FaceDir
             f == [s \in S |-> [record |-> rs[s[1][1]], cell |-> s[1][2], dir |-> s[2]]]
             T == {f[s] : s \in S}
  <1>1. IsFiniteSet(P) /\ IsFiniteSet(Cell) /\ IsFiniteSet(FaceDir)
    <2>1. Len(rs) \in Int /\ NX * NY * NZ - 1 \in Int
      BY TransMultAssumption
    <2>2. IsFiniteSet(P) /\ IsFiniteSet(Cell)
      BY <2>1, FS_Interval DEF Cell
    <2>3. FaceDir = ((((({} \union {"X+"}) \union {"X-"}) \union {"Y+"}) \union {"Y-"})
                       \union {"Z+"}) \union {"Z-"}
      BY DEF FaceDir
    <2>4. IsFiniteSet(FaceDir)
      BY <2>3, FS_EmptySet, FS_AddElement
    <2>5. QED
      BY <2>2, <2>4
  <1>2. IsFiniteSet(S)
    BY <1>1, FS_Product
  <1>3. f \in Surjection(S, T)
    <2>1. f = [s \in S |-> f[s]] /\ \A s \in S : f[s] \in T
      OBVIOUS
    <2> HIDE DEF f, S
    <2>2. QED
      BY <2>1 DEF Surjection
  <1>4. IsFiniteSet(T)
    BY <1>2, <1>3, FS_Surjection
  <1>5. Connections(rs, props) \subseteq T
    <2>1. SUFFICES ASSUME NEW x \in Connections(rs, props)
                   PROVE  x \in T
      OBVIOUS
    <2>2. PICK r \in SearchMap(rs), c \in Cell, d \in FaceDir :
            x = [record |-> r, cell |-> c, dir |-> d]
      BY ConnectionsAre
    <2>3. PICK p \in P : r = rs[p]
      BY InSearchMap
    <2>4. <<<<p, c>>, d>> \in S /\ f[<<<<p, c>>, d>>] = x
      BY <2>2, <2>3
    <2> HIDE DEF f, S
    <2>5. QED
      BY <2>4
  <1>6. QED
    BY <1>4, <1>5, FS_Subset

(* So the connections of a face are those of the records that hold for it. *)
LEMMA ConnectionsOfFace ==
  ASSUME NEW rs \in Seq(RecordType), NEW props, NEW p \in DOMAIN rs, IsLast(rs, p),
         NEW c \in Cell, NEW d \in FaceDir
  PROVE  [record |-> rs[p], cell |-> c, dir |-> d] \in Connections(rs, props)
           <=> Joins(rs[p], props, c, d)
  <1> DEFINE x == [record |-> rs[p], cell |-> c, dir |-> d]
  <1>1. rs[p] \in SearchMap(rs)
    BY InSearchMap
  <1>2. \A r, e, b : x = [record |-> r, cell |-> e, dir |-> b] <=> rs[p] = r /\ c = e /\ d = b
    OBVIOUS
  <1> HIDE DEF x
  <1>3. x \in Connections(rs, props) <=>
          \E r \in SearchMap(rs), e \in Cell, b \in FaceDir :
            Joins(r, props, e, b) /\ x = [record |-> r, cell |-> e, dir |-> b]
    BY ConnectionsAre
  <1>4. x \in Connections(rs, props) <=> Joins(rs[p], props, c, d)
    BY <1>1, <1>2, <1>3
  <1>5. QED
    BY <1>4 DEF x
-----------------------------------------------------------------------------
(* The records of MULTREGT follow those of the deck: one for each, with    *)
(* the regions it names or else those of the record before.                *)
RegionNext(rs, rr, p) ==
  IF rr[p].region # Defaulted THEN RegionName[rr[p].region]
  ELSE IF p > 1 THEN rs[p - 1].region ELSE "MULTNUM"

RecordFits(rs, rr, p) ==
  rs[p] = [pair |-> Between(rr[p]), factor |-> rr[p].factor,
           directions |-> FromMultregtString[rr[p].directions],
           region |-> RegionNext(rs, rr, p)]

RecordsFollow(rs, rr) == Len(rs) = Len(rr) /\ \A p \in 1 .. Len(rr) : RecordFits(rs, rr, p)

RegionNames == {"OPERNUM", "FLUXNUM", "MULTNUM"}

LEMMA RegionNameType ==
  ASSUME NEW x \in DOMAIN RegionName
  PROVE  RegionName[x] \in RegionNames
  BY DEF RegionName, RegionNames

LEMMA DirectionsType ==
  ASSUME NEW x \in DOMAIN FromMultregtString
  PROVE  FromMultregtString[x] \in SUBSET FaceDir
  BY DEF FromMultregtString, FaceDir

(* One record more (MULTREGTScanner.cpp:127-142).                          *)
LEMMA OneRecordMore ==
  ASSUME NEW rs \in Seq(RecordType), NEW r \in RegionRecord, Supported(r)
  PROVE  /\ WithRecord(rs, r) \in Seq(RecordType)
         /\ Len(WithRecord(rs, r)) = Len(rs) + 1
         /\ \A p \in 1 .. Len(rs) : WithRecord(rs, r)[p] = rs[p]
         /\ WithRecord(rs, r)[Len(rs) + 1] =
              [pair |-> Between(r), factor |-> r.factor,
               directions |-> FromMultregtString[r.directions],
               region |-> IF r.region # Defaulted THEN RegionName[r.region]
                          ELSE IF Len(rs) + 1 > 1 THEN rs[Len(rs)].region ELSE "MULTNUM"]
  <1> DEFINE new == [pair |-> <<r.source, r.target>>, factor |-> r.factor,
                     directions |-> FromMultregtString[r.directions],
                     region |-> RegionOf(rs, r)]
  <1>1. r.source \in Int /\ r.target \in Int /\ r.factor \in Int
    BY TransMultAssumption DEF Supported
  <1>2. FromMultregtString[r.directions] \in SUBSET FaceDir
    BY DirectionsType DEF Supported
  <1>3. RegionOf(rs, r) = IF r.region # Defaulted THEN RegionName[r.region]
                          ELSE IF Len(rs) + 1 > 1 THEN rs[Len(rs)].region ELSE "MULTNUM"
    <2>1. rs # << >> <=> Len(rs) + 1 > 1
      OBVIOUS
    <2>2. Last(rs) = rs[Len(rs)]
      BY DEF Last
    <2>3. QED
      BY <2>1, <2>2 DEF RegionOf
  <1>4. RegionOf(rs, r) \in RegionNames
    <2>1. CASE r.region # Defaulted
      <3>1. r.region \in DOMAIN RegionName
        BY <2>1 DEF Supported
      <3>2. QED
        BY <1>3, <2>1, <3>1, RegionNameType
    <2>2. CASE r.region = Defaulted /\ rs # << >>
      <3>1. Len(rs) \in 1 .. Len(rs) /\ Len(rs) + 1 > 1
        BY <2>2
      <3>2. rs[Len(rs)] \in RecordType
        BY <3>1
      <3>3. QED
        BY <1>3, <2>2, <3>1, <3>2 DEF RecordType, RegionNames
    <2>3. CASE r.region = Defaulted /\ rs = << >>
      BY <2>3 DEF RegionOf, RegionNames
    <2>4. QED
      BY <2>1, <2>2, <2>3
  <1>5. new \in RecordType
    BY <1>1, <1>2, <1>4 DEF RecordType, RegionNames
  <1>6. WithRecord(rs, r) = Append(rs, new)
    BY DEF WithRecord
  <1>7. new = [pair |-> Between(r), factor |-> r.factor,
               directions |-> FromMultregtString[r.directions],
               region |-> IF r.region # Defaulted THEN RegionName[r.region]
                          ELSE IF Len(rs) + 1 > 1 THEN rs[Len(rs)].region ELSE "MULTNUM"]
    BY <1>3 DEF Between
  <1> HIDE DEF new
  <1>8. QED
    BY <1>5, <1>6, <1>7

LEMMA NextRecordFits ==
  ASSUME NEW rs \in Seq(RecordType), NEW rr \in Seq(RegionRecord), Len(rs) + 1 \in 1 .. Len(rr),
         \A p \in 1 .. Len(rs) : RecordFits(rs, rr, p), Supported(rr[Len(rs) + 1])
  PROVE  LET after == WithRecord(rs, rr[Len(rs) + 1])
         IN /\ after \in Seq(RecordType) /\ Len(after) = Len(rs) + 1
            /\ \A p \in 1 .. Len(rs) + 1 : RecordFits(after, rr, p)
  <1> DEFINE N == Len(rs)
             r == rr[N + 1]
             after == WithRecord(rs, r)
  <1>1. N \in Nat /\ r \in RegionRecord /\ Supported(r)
    OBVIOUS
  <1>2. /\ after \in Seq(RecordType) /\ Len(after) = N + 1
        /\ \A p \in 1 .. N : after[p] = rs[p]
        /\ after[N + 1] =
             [pair |-> Between(r), factor |-> r.factor,
              directions |-> FromMultregtString[r.directions],
              region |-> IF r.region # Defaulted THEN RegionName[r.region]
                         ELSE IF N + 1 > 1 THEN rs[N].region ELSE "MULTNUM"]
    BY <1>1, OneRecordMore
  <1> HIDE DEF after
  <1>3. ASSUME NEW p \in 1 .. N
        PROVE  RecordFits(after, rr, p)
    <2>1. after[p] = rs[p] /\ RecordFits(rs, rr, p)
      BY <1>2
    <2>2. p > 1 => after[p - 1] = rs[p - 1]
      <3>1. p > 1 => p - 1 \in 1 .. N
        BY <1>1
      <3>2. QED
        BY <1>2, <3>1
    <2>3. RegionNext(after, rr, p) = RegionNext(rs, rr, p)
      BY <2>2 DEF RegionNext
    <2>4. QED
      BY <2>1, <2>3 DEF RecordFits
  <1>4. RecordFits(after, rr, N + 1)
    <2>1. N + 1 > 1 => N \in 1 .. N /\ (N + 1) - 1 = N
      BY <1>1
    <2>2. RegionNext(after, rr, N + 1) = IF r.region # Defaulted THEN RegionName[r.region]
                                         ELSE IF N + 1 > 1 THEN rs[N].region ELSE "MULTNUM"
      BY <1>2, <2>1 DEF RegionNext
    <2>3. QED
      BY <1>2, <2>2 DEF RecordFits
  <1>5. \A p \in 1 .. N + 1 : RecordFits(after, rr, p)
    <2>1. \A p \in 1 .. N + 1 : p \in 1 .. N \/ p = N + 1
      BY <1>1
    <2>2. QED
      BY <1>3, <1>4, <2>1
  <1>6. QED
    BY <1>2, <1>5 DEF after

(* All the records of a keyword.                                           *)
LEMMA KeywordFits ==
  ASSUME NEW rs \in Seq(RecordType), NEW rr \in Seq(RegionRecord), RecordsFollow(rs, rr),
         NEW new \in Seq(RegionRecord), \A p \in DOMAIN new : Supported(new[p])
  PROVE  /\ WithRecords(rs, new) \in Seq(RecordType)
         /\ RecordsFollow(WithRecords(rs, new), rr \o new)
  <1> DEFINE V == Seq(RecordType)
             N == Len(new)
             L == Len(rs)
             all == rr \o new
             mul(u, n) == WithRecord(u, new[n])
             step == [n \in 1 .. N |-> [u \in V |-> mul(u, n)]]
             Goes(g) == g = [n \in 0 .. N |-> IF n = 0 THEN rs ELSE mul(g[n - 1], n)]
  <1>1. N \in Nat /\ L \in Nat /\ L = Len(rr) /\ rs \in V
        /\ \A n \in 1 .. N : new[n] \in RegionRecord /\ Supported(new[n])
    BY DEF RecordsFollow
  <1>2. all \in Seq(RegionRecord) /\ Len(all) = L + N
        /\ (\A p \in 1 .. L : all[p] = rr[p]) /\ \A n \in 1 .. N : all[L + n] = new[n]
    BY <1>1
  <1>3. \A n \in 1 .. N, u \in V : mul(u, n) \in V
    BY <1>1, OneRecordMore
  <1>4. WithRecords(rs, new) = (CHOOSE g : Goes(g))[N]
    BY DEF WithRecords
  <1> HIDE DEF V
  <1>5. step \in [1 .. N -> [V -> V]] /\ \A n \in 1 .. N, u \in V : step[n][u] = mul(u, n)
    <2> HIDE DEF mul
    <2> QED
      BY <1>3
  <1> HIDE DEF N, step, mul
  <1>6. \E g : Goes(g)
    <2>1. PICK f \in [0 .. N -> V] : IsLoop(f, rs, N, step)
      BY <1>1, <1>5, LoopExists
    <2>2. ASSUME NEW n \in 1 .. N
          PROVE  f[n] = mul(f[n - 1], n)
      <3>1. n - 1 \in 0 .. N
        BY <1>1
      <3>2. f[n - 1] \in V
        BY <3>1
      <3>3. QED
        BY <1>5, <2>1, <3>2 DEF IsLoop
    <2>3. f[0] = rs
      BY <2>1 DEF IsLoop
    <2>4. Goes(f)
      BY <2>2, <2>3
    <2>5. QED
      BY <2>4
  <1> DEFINE g == CHOOSE h : Goes(h)
  <1>7. Goes(g)
    <2> HIDE DEF Goes
    <2> QED
      BY <1>6
  <1> HIDE DEF g
  <1>8. g[0] = rs /\ \A n \in 1 .. N : g[n] = mul(g[n - 1], n)
    <2>1. \A n \in 0 .. N : g[n] = IF n = 0 THEN rs ELSE mul(g[n - 1], n)
      BY <1>7
    <2>2. 0 \in 0 .. N /\ \A n \in 1 .. N : n \in 0 .. N /\ n # 0
      BY <1>1
    <2> HIDE DEF Goes
    <2>3. QED
      BY <2>1, <2>2
  <1> HIDE DEF Goes, L, all
  <1> DEFINE Right(n) == /\ g[n] \in Seq(RecordType) /\ Len(g[n]) = L + n
                         /\ \A p \in 1 .. L + n : RecordFits(g[n], all, p)
             T == {n \in Nat : n <= N => Right(n)}
  <1>9. 0 \in T
    <2>1. ASSUME NEW p \in 1 .. L
          PROVE  RecordFits(rs, all, p)
      <3>1. all[p] = rr[p] /\ RecordFits(rs, rr, p)
        BY <1>1, <1>2 DEF RecordsFollow
      <3>2. QED
        BY <3>1 DEF RecordFits, RegionNext
    <2>2. L + 0 = L /\ Len(rs) = L
      BY <1>1 DEF L
    <2>3. QED
      BY <1>8, <2>1, <2>2
  <1>10. ASSUME NEW n \in Nat, n \in T
         PROVE  n + 1 \in T
    <2>1. SUFFICES ASSUME n + 1 <= N
                   PROVE  Right(n + 1)
      OBVIOUS
    <2>2. n + 1 \in 1 .. N /\ (n + 1) - 1 = n /\ L + (n + 1) = (L + n) + 1
          /\ (L + n) + 1 \in 1 .. L + N
      BY <1>1, <2>1
    <2>3. g[n] \in Seq(RecordType) /\ Len(g[n]) = L + n
          /\ \A p \in 1 .. L + n : RecordFits(g[n], all, p)
      <3>1. n <= N
        BY <1>1, <2>1
      <3>2. n <= N => Right(n)
        BY <1>10
      <3> HIDE DEF Right
      <3>3. Right(n)
        BY <3>1, <3>2
      <3>4. QED
        BY <3>3 DEF Right
    <2>4. all[(L + n) + 1] = new[n + 1] /\ Supported(new[n + 1])
      BY <1>1, <1>2, <2>2
    <2>5. g[n + 1] = WithRecord(g[n], new[n + 1])
      BY <1>8, <2>2 DEF mul
    <2> DEFINE m == L + n
    <2> HIDE DEF m
    <2>6. /\ Len(g[n]) = m /\ m + 1 \in 1 .. Len(all)
          /\ \A p \in 1 .. m : RecordFits(g[n], all, p)
          /\ Supported(all[m + 1]) /\ g[n + 1] = WithRecord(g[n], all[m + 1])
      BY <1>2, <2>2, <2>3, <2>4, <2>5 DEF m
    <2>7. /\ g[n + 1] \in Seq(RecordType) /\ Len(g[n + 1]) = m + 1
          /\ \A p \in 1 .. m + 1 : RecordFits(g[n + 1], all, p)
      BY <1>2, <2>3, <2>6, NextRecordFits
    <2>8. QED
      BY <2>2, <2>7 DEF m
  <1>11. Nat \subseteq T
    <2> HIDE DEF T
    <2> QED
      BY <1>9, <1>10, NatSet
  <1>12. Right(N)
    BY <1>1, <1>11
  <1>13. QED
    BY <1>2, <1>4, <1>12 DEF g, all, RecordsFollow

(* The regions that the last record before, and with, a place names.       *)
NamedIn(rr, p) == {q \in 1 .. p : rr[q].region # Defaulted}

RegionIn(rr, p) ==
  IF NamedIn(rr, p) = {} THEN "MULTNUM"
  ELSE RegionName[rr[CHOOSE q \in NamedIn(rr, p) : \A o \in NamedIn(rr, p) : o <= q].region]

LEMMA RegionInNext ==
  ASSUME NEW rr, NEW p \in Nat \ {0}
  PROVE  RegionIn(rr, p) = IF rr[p].region # Defaulted THEN RegionName[rr[p].region]
                           ELSE IF p > 1 THEN RegionIn(rr, p - 1) ELSE "MULTNUM"
  <1>1. CASE rr[p].region # Defaulted
    <2> DEFINE last == CHOOSE q \in NamedIn(rr, p) : \A o \in NamedIn(rr, p) : o <= q
    <2>1. p \in NamedIn(rr, p) /\ \A o \in NamedIn(rr, p) : o \in Nat /\ o <= p
      BY <1>1 DEF NamedIn
    <2>2. last \in NamedIn(rr, p) /\ p <= last
      BY <2>1
    <2> HIDE DEF last
    <2>3. last = p
      BY <2>1, <2>2
    <2>4. QED
      BY <1>1, <2>1, <2>3 DEF RegionIn, last
  <1>2. CASE rr[p].region = Defaulted /\ p > 1
    <2>1. NamedIn(rr, p) = NamedIn(rr, p - 1)
      BY <1>2 DEF NamedIn
    <2>2. QED
      BY <1>2, <2>1 DEF RegionIn
  <1>3. CASE rr[p].region = Defaulted /\ ~ (p > 1)
    <2>1. NamedIn(rr, p) = {}
      BY <1>3 DEF NamedIn
    <2>2. QED
      BY <1>3, <2>1 DEF RegionIn
  <1>4. QED
    BY <1>1, <1>2, <1>3

LEMMA RegionsFollow ==
  ASSUME NEW rs, NEW rr \in Seq(RegionRecord), RecordsFollow(rs, rr)
  PROVE  \A p \in 1 .. Len(rr) : rs[p].region = RegionIn(rr, p)
  <1> DEFINE T == {p \in Nat : p \in 1 .. Len(rr) => rs[p].region = RegionIn(rr, p)}
  <1>1. 0 \in T
    OBVIOUS
  <1>2. ASSUME NEW n \in Nat, n \in T
        PROVE  n + 1 \in T
    <2> DEFINE p == n + 1
    <2>1. p \in Nat \ {0} /\ p - 1 = n /\ (p > 1 => n # 0)
      OBVIOUS
    <2> HIDE DEF p
    <2>2. SUFFICES ASSUME p \in 1 .. Len(rr)
                   PROVE  rs[p].region = RegionIn(rr, p)
      BY DEF p
    <2>3. rs[p].region = RegionNext(rs, rr, p)
      <3>1. RecordFits(rs, rr, p)
        BY <2>2 DEF RecordsFollow
      <3>2. QED
        BY <3>1 DEF RecordFits
    <2>4. p > 1 => n \in 1 .. Len(rr)
      BY <2>1, <2>2
    <2>5. p > 1 => rs[p - 1].region = RegionIn(rr, p - 1)
      BY <1>2, <2>1, <2>4
    <2>6. QED
      BY <2>1, <2>3, <2>5, RegionInNext DEF RegionNext
  <1>3. Nat \subseteq T
    <2> HIDE DEF T
    <2> QED
      BY <1>1, <1>2, NatSet
  <1>4. QED
    BY <1>3
-----------------------------------------------------------------------------
(* The last member of a set of places.                                     *)
LEMMA LastExists ==
  ASSUME NEW N \in Nat, NEW S \in SUBSET (1 .. N), S # {}
  PROVE  \E p \in S : \A o \in S : o <= p
  <1> DEFINE T == {N - p : p \in S}
  <1>1. T \in SUBSET Nat /\ T # {}
    <2>1. \A p \in S : p \in 1 .. N
      OBVIOUS
    <2>2. \A p \in S : N - p \in Nat
      BY <2>1
    <2>3. QED
      BY <2>2
  <1> HIDE DEF T
  <1>2. PICK x \in T : \A y \in T : x <= y
    BY <1>1, NatMin
  <1>3. PICK p \in S : x = N - p
    BY DEF T
  <1>4. ASSUME NEW o \in S
        PROVE  o <= p
    <2>1. N - p <= N - o
      BY <1>2, <1>3 DEF T
    <2>2. QED
      BY <2>1
  <1>5. QED
    BY <1>4

(* The factor of a fault is the last that a record of MULTFLT gives it     *)
(* (FaultCollection.cpp:36-59).                                            *)
GivenIn(af, name) == {p \in DOMAIN af : af[p].fault = name}

FactorIn(af, name) ==
  IF GivenIn(af, name) = {} THEN 1
  ELSE af[CHOOSE p \in GivenIn(af, name) : \A o \in GivenIn(af, name) : o <= p].factor

FactorRecord == [fault : Fault, factor : Factor]

LEMMA FactorNext ==
  ASSUME NEW af \in Seq(FactorRecord), NEW name, NEW x, NEW other
  PROVE  LET after == Append(af, [fault |-> name, factor |-> x])
         IN FactorIn(after, other) = IF other = name THEN x ELSE FactorIn(af, other)
  <1> DEFINE e == [fault |-> name, factor |-> x]
             after == Append(af, e)
             N == Len(af)
             S == GivenIn(af, other)
             T == GivenIn(after, other)
  <1>1. /\ N \in Nat /\ DOMAIN af = 1 .. N /\ DOMAIN after = 1 .. N + 1
        /\ after[N + 1] = e /\ \A p \in 1 .. N : after[p] = af[p]
    OBVIOUS
  <1>2. e.fault = name /\ e.factor = x
    OBVIOUS
  <1> HIDE DEF after, e, N
  <1>3. CASE other = name
    <2>1. N + 1 \in T /\ \A o \in T : o \in Nat /\ o <= N + 1
      BY <1>1, <1>2, <1>3 DEF GivenIn
    <2> DEFINE last == CHOOSE p \in T : \A o \in T : o <= p
    <2> HIDE DEF T
    <2>2. last \in T /\ N + 1 <= last
      BY <2>1
    <2> HIDE DEF last
    <2>3. last = N + 1
      BY <1>1, <2>1, <2>2
    <2>4. FactorIn(after, other) = after[last].factor
      BY <2>1 DEF FactorIn, last, T
    <2>5. QED
      BY <1>1, <1>2, <1>3, <2>3, <2>4 DEF after, e
  <1>4. CASE other # name
    <2>1. T = S
      BY <1>1, <1>2, <1>4 DEF GivenIn
    <2>2. S \in SUBSET (1 .. N)
      BY <1>1 DEF GivenIn
    <2>3. CASE S = {}
      BY <1>4, <2>1, <2>3 DEF FactorIn, after, e
    <2>4. CASE S # {}
      <3> DEFINE last == CHOOSE p \in S : \A o \in S : o <= p
      <3> HIDE DEF S
      <3>1. last \in S
        BY <1>1, <2>2, <2>4, LastExists
      <3>2. last \in 1 .. N
        BY <2>2, <3>1
      <3> HIDE DEF last
      <3>3. after[last] = af[last]
        BY <1>1, <3>2
      <3>4. FactorIn(af, other) = af[last].factor
        BY <2>4 DEF FactorIn, last, S
      <3>5. FactorIn(after, other) = after[last].factor
        BY <2>1, <2>4 DEF FactorIn, last, S
      <3>6. QED
        BY <1>4, <3>3, <3>4, <3>5 DEF after, e
    <2>5. QED
      BY <2>3, <2>4
  <1>5. QED
    BY <1>3, <1>4

(* The place of a fault among the others.                                  *)
LEMMA PlaceIs ==
  ASSUME NEW fs \in Seq(FaultType), NEW name
  PROVE  /\ PlaceOf(fs, name) = 0 <=> \A p \in DOMAIN fs : fs[p].name # name
         /\ PlaceOf(fs, name) # 0 =>
              PlaceOf(fs, name) \in DOMAIN fs /\ fs[PlaceOf(fs, name)].name = name
  <1> DEFINE places == {p \in DOMAIN fs : fs[p].name = name}
  <1>1. 0 \notin places
    OBVIOUS
  <1>2. places # {} => (CHOOSE p \in places : TRUE) \in places
    OBVIOUS
  <1>3. PlaceOf(fs, name) = IF places = {} THEN 0 ELSE CHOOSE p \in places : TRUE
    BY DEF PlaceOf
  <1>4. places = {} <=> \A p \in DOMAIN fs : fs[p].name # name
    OBVIOUS
  <1>5. \A p \in places : p \in DOMAIN fs /\ fs[p].name = name
    OBVIOUS
  <1> HIDE DEF places
  <1>6. QED
    BY <1>1, <1>2, <1>3, <1>4, <1>5

(* What a record of FAULTS does to the faults: it adds its face to one     *)
(* that is there, or makes a new one at the end (EclipseState.cpp:212-239, *)
(* Fault.cpp:44-55).                                                       *)
LEMMA FaceAddedToOld ==
  ASSUME NEW fs \in Seq(FaultType), NEW name, NEW face \in FaceType, PlaceOf(fs, name) # 0
  PROVE  LET n == PlaceOf(fs, name)
             after == WithFace(fs, name, face)
         IN /\ n \in DOMAIN fs /\ fs[n].name = name
            /\ after \in Seq(FaultType) /\ Len(after) = Len(fs)
            /\ after[n].name = name /\ after[n].factor = fs[n].factor
            /\ after[n].faces = Append(fs[n].faces, face)
            /\ \A m \in DOMAIN fs : m # n => after[m] = fs[m]
  <1> DEFINE n == PlaceOf(fs, name)
             after == WithFace(fs, name, face)
             new == [fs[n] EXCEPT !.faces = Append(@, face)]
  <1>1. n \in DOMAIN fs /\ fs[n].name = name
    BY PlaceIs
  <1>2. after = [fs EXCEPT ![n].faces = Append(@, face)]
    BY DEF WithFace
  <1> HIDE DEF n
  <1>3. fs[n] \in FaultType
    BY <1>1
  <1>4. Append(fs[n].faces, face) \in Seq(FaceType)
    BY <1>3 DEF FaultType
  <1>5. /\ new \in FaultType /\ new.name = fs[n].name /\ new.factor = fs[n].factor
        /\ new.faces = Append(fs[n].faces, face)
    BY <1>3, <1>4 DEF FaultType
  <1>6. after = [fs EXCEPT ![n] = new]
    BY <1>1, <1>2
  <1> HIDE DEF after, new
  <1>7. after \in Seq(FaultType) /\ Len(after) = Len(fs) /\ after[n] = new
        /\ \A m \in DOMAIN fs : m # n => after[m] = fs[m]
    BY <1>1, <1>5, <1>6
  <1>8. QED
    BY <1>1, <1>5, <1>7 DEF after, n

LEMMA FaceAddedToNew ==
  ASSUME NEW fs \in Seq(FaultType), NEW name \in Fault, NEW face \in FaceType,
         PlaceOf(fs, name) = 0
  PROVE  LET n == Len(fs) + 1
             after == WithFace(fs, name, face)
         IN /\ after \in Seq(FaultType) /\ Len(after) = n
            /\ after[n] = [name |-> name, factor |-> 1, faces |-> <<face>>]
            /\ \A m \in DOMAIN fs : after[m] = fs[m] /\ fs[m].name # name
  <1> DEFINE n == Len(fs) + 1
             none == NewFault(name)
             with == Append(fs, none)
             after == WithFace(fs, name, face)
             new == [name |-> name, factor |-> 1, faces |-> <<face>>]
  <1>1. none \in FaultType /\ none.name = name /\ new \in FaultType
    BY DEF NewFault, FaultType
  <1>2. [none EXCEPT !.faces = Append(@, face)] = new
    BY DEF NewFault
  <1> HIDE DEF none, new
  <1>3. with \in Seq(FaultType) /\ DOMAIN with = 1 .. n /\ n \in Nat /\ n \in 1 .. n
        /\ Len(with) = n
        /\ with[n] = none /\ \A m \in DOMAIN fs : with[m] = fs[m] /\ m # n /\ m \in 1 .. n
    BY <1>1
  <1>4. \A m \in DOMAIN fs : fs[m].name # name
    BY PlaceIs
  <1>5. \A m \in 1 .. n : m = n \/ m \in DOMAIN fs
    OBVIOUS
  <1>6. after = [with EXCEPT ![PlaceOf(with, name)].faces = Append(@, face)]
    BY DEF WithFace, none
  <1> HIDE DEF with, n
  <1>7. PlaceOf(with, name) = n
    <2>1. n \in DOMAIN with /\ with[n].name = name
      BY <1>1, <1>3
    <2>2. PlaceOf(with, name) # 0
      BY <1>3, <2>1, PlaceIs
    <2>3. PlaceOf(with, name) \in DOMAIN with /\ with[PlaceOf(with, name)].name = name
      BY <1>3, <2>2, PlaceIs
    <2>4. QED
      BY <1>3, <1>4, <1>5, <2>3
  <1>8. after = [with EXCEPT ![n] = new]
    BY <1>2, <1>3, <1>6, <1>7
  <1> HIDE DEF after
  <1>9. after \in Seq(FaultType) /\ Len(after) = n /\ after[n] = new
        /\ \A m \in DOMAIN fs : after[m] = fs[m]
    <2>1. after \in Seq(FaultType) /\ Len(after) = n
      BY <1>1, <1>3, <1>8
    <2>2. after[n] = new /\ \A m \in 1 .. n : m # n => after[m] = with[m]
      BY <1>3, <1>8
    <2>3. QED
      BY <1>3, <2>1, <2>2
  <1>10. QED
    BY <1>4, <1>9 DEF new, after, n
-----------------------------------------------------------------------------
(* The factors of the records of FAULTS for one face, if those of a fault  *)
(* have the factor x.                                                      *)
RecordFactors(ar, name, x, c, d) ==
  [p \in DOMAIN ar |-> IF ar[p].fault = name /\ OnFace(ar[p], c, d) THEN x ELSE 1]

LEMMA RecordFactorsType ==
  ASSUME NEW ar \in Seq(FaultRecord), NEW name, NEW x \in Int, NEW c, NEW d
  PROVE  /\ RecordFactors(ar, name, x, c, d) \in [1 .. Len(ar) -> Int]
         /\ ProductOf(RecordFactors(ar, name, x, c, d)) \in Int
  <1>1. Len(ar) \in Nat /\ RecordFactors(ar, name, x, c, d) \in [1 .. Len(ar) -> Int]
    BY DEF RecordFactors
  <1>2. QED
    BY <1>1, ProductType

(* One face, and one record, more.                                         *)
LEMMA FaceFactorsNext ==
  ASSUME NEW faces \in Seq(FaceType), NEW face \in FaceType, NEW x \in Int, NEW c, NEW d
  PROVE  ProductOf(FaceFactors(Append(faces, face), x, c, d)) =
           ProductOf(FaceFactors(faces, x, c, d))
             * (IF d = face.dir /\ c \in face.cells THEN x ELSE 1)
  <1> DEFINE N == Len(faces)
             after == Append(faces, face)
             s == FaceFactors(after, x, c, d)
  <1>1. /\ N \in Nat /\ after \in Seq(FaceType) /\ Len(after) = N + 1 /\ DOMAIN faces = 1 .. N
        /\ after[N + 1] = face /\ N + 1 \in 1 .. N + 1
        /\ \A n \in 1 .. N : after[n] = faces[n] /\ n \in 1 .. N + 1
    OBVIOUS
  <1>2. s \in [1 .. N + 1 -> Int]
    BY <1>1, FaceFactorsType
  <1>3. s[N + 1] = IF d = face.dir /\ c \in face.cells THEN x ELSE 1
    BY <1>1 DEF FaceFactors
  <1>4. [n \in 1 .. N |-> s[n]] = FaceFactors(faces, x, c, d)
    BY <1>1 DEF FaceFactors
  <1> HIDE DEF s, N
  <1>5. ProductOf(s) = ProductOf([n \in 1 .. N |-> s[n]]) * s[N + 1]
    BY <1>1, <1>2, ProductNext
  <1>6. QED
    BY <1>3, <1>4, <1>5 DEF s

LEMMA RecordFactorsNext ==
  ASSUME NEW ar \in Seq(FaultRecord), NEW r \in FaultRecord, NEW name, NEW x \in Int, NEW c, NEW d
  PROVE  ProductOf(RecordFactors(Append(ar, r), name, x, c, d)) =
           ProductOf(RecordFactors(ar, name, x, c, d))
             * (IF r.fault = name /\ OnFace(r, c, d) THEN x ELSE 1)
  <1> DEFINE N == Len(ar)
             after == Append(ar, r)
             s == RecordFactors(after, name, x, c, d)
  <1>1. /\ N \in Nat /\ after \in Seq(FaultRecord) /\ Len(after) = N + 1 /\ DOMAIN ar = 1 .. N
        /\ after[N + 1] = r /\ N + 1 \in 1 .. N + 1
        /\ \A n \in 1 .. N : after[n] = ar[n] /\ n \in 1 .. N + 1
    OBVIOUS
  <1>2. s \in [1 .. N + 1 -> Int]
    BY <1>1, RecordFactorsType
  <1>3. s[N + 1] = IF r.fault = name /\ OnFace(r, c, d) THEN x ELSE 1
    BY <1>1 DEF RecordFactors
  <1>4. [n \in 1 .. N |-> s[n]] = RecordFactors(ar, name, x, c, d)
    BY <1>1 DEF RecordFactors
  <1> HIDE DEF s, N
  <1>5. ProductOf(s) = ProductOf([n \in 1 .. N |-> s[n]]) * s[N + 1]
    BY <1>1, <1>2, ProductNext
  <1>6. QED
    BY <1>3, <1>4, <1>5 DEF s

(* The faults follow the deck: there is one for each name, with the last   *)
(* factor, and its faces are those of the records with its name.           *)
NamesDiffer(fs) == \A n, m \in DOMAIN fs : fs[n].name = fs[m].name => n = m

AllThere(fs, ar) == \A p \in DOMAIN ar : \E n \in DOMAIN fs : fs[n].name = ar[p].fault

FacesFollow(fs, ar) ==
  \A n \in DOMAIN fs, x \in Int, c \in Cell, d \in FaceDir :
    ProductOf(FaceFactors(fs[n].faces, x, c, d)) =
      ProductOf(RecordFactors(ar, fs[n].name, x, c, d))

FactorsFollow(fs, af) == \A n \in DOMAIN fs : fs[n].factor = FactorIn(af, fs[n].name)

FaultsFollow(fs, ar, af) ==
  NamesDiffer(fs) /\ AllThere(fs, ar) /\ FacesFollow(fs, ar) /\ FactorsFollow(fs, af)

(* A record adds to the faces of its fault, and not to those of another    *)
(* one.                                                                    *)
LEMMA OtherFacesFollow ==
  ASSUME NEW ar \in Seq(FaultRecord), NEW r \in FaultRecord, NEW faces \in Seq(FaceType), NEW name,
         name # r.fault, NEW x \in Int, NEW c \in Cell, NEW d \in FaceDir,
         ProductOf(FaceFactors(faces, x, c, d)) = ProductOf(RecordFactors(ar, name, x, c, d))
  PROVE  ProductOf(FaceFactors(faces, x, c, d)) =
           ProductOf(RecordFactors(Append(ar, r), name, x, c, d))
  <1>1. ProductOf(RecordFactors(ar, name, x, c, d)) \in Int
    BY RecordFactorsType
  <1>2. ProductOf(RecordFactors(Append(ar, r), name, x, c, d)) =
          ProductOf(RecordFactors(ar, name, x, c, d)) * 1
    BY RecordFactorsNext
  <1>3. QED
    BY <1>1, <1>2

LEMMA OwnFacesFollow ==
  ASSUME NEW ar \in Seq(FaultRecord), NEW r \in FaultRecord, IsFace(r), NEW faces \in Seq(FaceType),
         NEW x \in Int, NEW c \in Cell, NEW d \in FaceDir,
         ProductOf(FaceFactors(faces, x, c, d)) = ProductOf(RecordFactors(ar, r.fault, x, c, d))
  PROVE  ProductOf(FaceFactors(Append(faces, Face(r)), x, c, d)) =
           ProductOf(RecordFactors(Append(ar, r), r.fault, x, c, d))
  <1>1. r.range \in Range6
    BY TransMultAssumption
  <1>2. Face(r) \in FaceType /\ (d = Face(r).dir /\ c \in Face(r).cells <=> OnFace(r, c, d))
    BY <1>1, FaceIs
  <1>3. ProductOf(FaceFactors(Append(faces, Face(r)), x, c, d)) =
          ProductOf(FaceFactors(faces, x, c, d))
            * (IF d = Face(r).dir /\ c \in Face(r).cells THEN x ELSE 1)
    BY <1>2, FaceFactorsNext
  <1>4. ProductOf(RecordFactors(Append(ar, r), r.fault, x, c, d)) =
          ProductOf(RecordFactors(ar, r.fault, x, c, d)) * (IF OnFace(r, c, d) THEN x ELSE 1)
    BY RecordFactorsNext
  <1>5. QED
    BY <1>2, <1>3, <1>4

LEMMA FaceRecorded ==
  ASSUME NEW fs \in Seq(FaultType), NEW ar \in Seq(FaultRecord), FaultsFollow(fs, ar, << >>),
         NEW r \in FaultRecord, IsFace(r)
  PROVE  /\ WithFace(fs, r.fault, Face(r)) \in Seq(FaultType)
         /\ FaultsFollow(WithFace(fs, r.fault, Face(r)), Append(ar, r), << >>)
  <1> DEFINE name == r.fault
             face == Face(r)
             after == WithFace(fs, name, face)
             rr == Append(ar, r)
  <1>1. name \in Fault /\ r.range \in Range6
    BY TransMultAssumption
  <1>2. face \in FaceType
    BY <1>1, FaceIs
  <1>3. /\ NamesDiffer(fs) /\ AllThere(fs, ar) /\ FacesFollow(fs, ar)
        /\ FactorsFollow(fs, << >>)
    BY DEF FaultsFollow
  <1>4. rr \in Seq(FaultRecord) /\ Len(rr) = Len(ar) + 1 /\ rr[Len(ar) + 1] = r
        /\ (\A p \in DOMAIN ar : rr[p] = ar[p])
        /\ \A p \in DOMAIN rr : p = Len(ar) + 1 \/ p \in DOMAIN ar
    OBVIOUS
  <1>5. \A other : FactorIn(<< >>, other) = 1
    BY DEF FactorIn, GivenIn
  <1>6. \A m \in DOMAIN fs : fs[m].name \in Fault /\ fs[m].faces \in Seq(FaceType)
    <2>1. \A m \in DOMAIN fs : fs[m] \in FaultType
      OBVIOUS
    <2>2. QED
      BY <2>1 DEF FaultType
  <1> DEFINE Agree(faces, other, records2, x, c, d) ==
               ProductOf(FaceFactors(faces, x, c, d)) =
                 ProductOf(RecordFactors(records2, other, x, c, d))
  <1>7. \A faces \in Seq(FaceType), x \in Int, c \in Cell, d \in FaceDir :
          Agree(faces, name, ar, x, c, d) => Agree(Append(faces, face), name, rr, x, c, d)
    BY OwnFacesFollow
  <1>8. \A faces \in Seq(FaceType), other \in Fault, x \in Int, c \in Cell, d \in FaceDir :
          other # name /\ Agree(faces, other, ar, x, c, d) => Agree(faces, other, rr, x, c, d)
    BY OtherFacesFollow
  <1> HIDE DEF name, face, after, rr
  <1>9. CASE PlaceOf(fs, name) # 0
    <2> DEFINE n == PlaceOf(fs, name)
    <2>1. /\ n \in DOMAIN fs /\ fs[n].name = name
          /\ after \in Seq(FaultType) /\ Len(after) = Len(fs)
          /\ after[n].name = name /\ after[n].factor = fs[n].factor
          /\ after[n].faces = Append(fs[n].faces, face)
          /\ \A m \in DOMAIN fs : m # n => after[m] = fs[m]
      BY <1>2, <1>9, FaceAddedToOld DEF after
    <2> HIDE DEF n
    <2>2. DOMAIN after = DOMAIN fs
      BY <2>1
    <2>3. \A m \in DOMAIN fs : after[m].name = fs[m].name /\ after[m].factor = fs[m].factor
      BY <2>1
    <2>4. NamesDiffer(after) /\ FactorsFollow(after, << >>)
      BY <1>3, <2>2, <2>3 DEF NamesDiffer, FactorsFollow
    <2>5. AllThere(after, rr)
      BY <1>3, <1>4, <2>1, <2>2, <2>3 DEF AllThere, name
    <2>6. ASSUME NEW m \in DOMAIN fs, NEW x \in Int, NEW c \in Cell, NEW d \in FaceDir
          PROVE  ProductOf(FaceFactors(after[m].faces, x, c, d)) =
                   ProductOf(RecordFactors(rr, after[m].name, x, c, d))
      <3>1. ProductOf(FaceFactors(fs[m].faces, x, c, d)) =
              ProductOf(RecordFactors(ar, fs[m].name, x, c, d))
        BY <1>3 DEF FacesFollow
      <3>2. CASE m = n
        BY <1>6, <1>7, <2>1, <3>1, <3>2
      <3>3. CASE m # n
        <4>1. after[m] = fs[m] /\ fs[m].name # name
          BY <1>3, <2>1, <3>3 DEF NamesDiffer
        <4>2. QED
          BY <1>6, <1>8, <3>1, <4>1
      <3>4. QED
        BY <3>2, <3>3
    <2>7. FacesFollow(after, rr)
      BY <2>2, <2>6 DEF FacesFollow
    <2>8. QED
      BY <2>1, <2>4, <2>5, <2>7 DEF FaultsFollow, after, name, face, rr
  <1>10. CASE PlaceOf(fs, name) = 0
    <2> DEFINE n == Len(fs) + 1
    <2>1. /\ after \in Seq(FaultType) /\ Len(after) = n
          /\ after[n] = [name |-> name, factor |-> 1, faces |-> <<face>>]
          /\ \A m \in DOMAIN fs : after[m] = fs[m] /\ fs[m].name # name
      BY <1>1, <1>2, <1>10, FaceAddedToNew DEF after
    <2>2. /\ n \in DOMAIN after /\ DOMAIN fs \subseteq DOMAIN after
          /\ \A m \in DOMAIN after : m = n \/ m \in DOMAIN fs
      BY <2>1
    <2> HIDE DEF n
    <2>3. after[n].name = name /\ after[n].factor = 1 /\ after[n].faces = Append(<< >>, face)
      BY <2>1
    <2>4. NamesDiffer(after)
      BY <1>3, <2>1, <2>2, <2>3 DEF NamesDiffer
    <2>5. FactorsFollow(after, << >>)
      BY <1>3, <1>5, <2>1, <2>2, <2>3 DEF FactorsFollow
    <2>6. AllThere(after, rr)
      <3>1. SUFFICES ASSUME NEW p \in DOMAIN rr
                     PROVE  \E m \in DOMAIN after : after[m].name = rr[p].fault
        BY DEF AllThere
      <3>2. CASE p = Len(ar) + 1
        BY <1>4, <2>2, <2>3, <3>2 DEF name
      <3>3. CASE p \in DOMAIN ar
        <4>1. PICK m \in DOMAIN fs : fs[m].name = ar[p].fault
          BY <1>3, <3>3 DEF AllThere
        <4>2. QED
          BY <1>4, <2>1, <2>2, <3>3, <4>1
      <3>4. QED
        BY <1>4, <3>2, <3>3
    <2>7. ASSUME NEW m \in DOMAIN after, NEW x \in Int, NEW c \in Cell, NEW d \in FaceDir
          PROVE  ProductOf(FaceFactors(after[m].faces, x, c, d)) =
                   ProductOf(RecordFactors(rr, after[m].name, x, c, d))
      <3>1. CASE m = n
        <4>1. ASSUME NEW p \in DOMAIN ar
              PROVE  ar[p].fault # name
          BY <1>3, <2>1 DEF AllThere
        <4>2. RecordFactors(ar, name, x, c, d) \in [1 .. Len(ar) -> Int] /\ Len(ar) \in Nat
          BY RecordFactorsType
        <4>3. \A p \in 1 .. Len(ar) : RecordFactors(ar, name, x, c, d)[p] = 1
          BY <4>1 DEF RecordFactors
        <4>4. ProductOf(RecordFactors(ar, name, x, c, d)) = 1
          BY <4>2, <4>3, ProductOfOnes
        <4>5. << >> \in Seq(FaceType) /\ Len(<< >>) = 0
          OBVIOUS
        <4>6. ProductOf(FaceFactors(<< >>, x, c, d)) = 1
          BY <4>5, FaceFactorsType, ProductType
        <4>7. QED
          BY <1>7, <2>3, <3>1, <4>4, <4>5, <4>6
      <3>2. CASE m \in DOMAIN fs
        <4>1. ProductOf(FaceFactors(fs[m].faces, x, c, d)) =
                ProductOf(RecordFactors(ar, fs[m].name, x, c, d))
          BY <1>3, <3>2 DEF FacesFollow
        <4>2. after[m] = fs[m] /\ fs[m].name # name
          BY <2>1, <3>2
        <4>3. QED
          BY <1>6, <1>8, <3>2, <4>1, <4>2
      <3>3. QED
        BY <2>2, <3>1, <3>2
    <2>8. FacesFollow(after, rr)
      BY <2>7 DEF FacesFollow
    <2>9. QED
      BY <2>1, <2>4, <2>5, <2>6, <2>8 DEF FaultsFollow, after, name, face, rr
  <1>11. QED
    BY <1>9, <1>10

(* A record of MULTFLT gives the fault it names a factor, and no other.    *)
LEMMA FactorRecorded ==
  ASSUME NEW fs \in Seq(FaultType), NEW ar, NEW af \in Seq(FactorRecord), FaultsFollow(fs, ar, af),
         NEW name \in Fault, PlaceOf(fs, name) # 0, NEW x \in Factor
  PROVE  /\ WithFactor(fs, name, x) \in Seq(FaultType)
         /\ FaultsFollow(WithFactor(fs, name, x), ar, Append(af, [fault |-> name, factor |-> x]))
  <1> DEFINE n == PlaceOf(fs, name)
             new == [fs[n] EXCEPT !.factor = x]
             after == WithFactor(fs, name, x)
             ff == Append(af, [fault |-> name, factor |-> x])
  <1>1. n \in DOMAIN fs /\ fs[n].name = name
    BY PlaceIs
  <1>2. after = [fs EXCEPT ![n].factor = x]
    BY DEF WithFactor
  <1>3. x \in Int
    BY TransMultAssumption
  <1> HIDE DEF n
  <1>4. fs[n] \in FaultType
    BY <1>1
  <1>5. /\ new \in FaultType /\ new.name = name /\ new.factor = x /\ new.faces = fs[n].faces
    BY <1>1, <1>3, <1>4 DEF FaultType
  <1>6. after = [fs EXCEPT ![n] = new]
    BY <1>1, <1>2
  <1> HIDE DEF after, new
  <1>7. /\ after \in Seq(FaultType) /\ DOMAIN after = DOMAIN fs /\ after[n] = new
        /\ \A m \in DOMAIN fs : m # n => after[m] = fs[m]
    BY <1>1, <1>5, <1>6
  <1>8. \A m \in DOMAIN fs : after[m].name = fs[m].name /\ after[m].faces = fs[m].faces
    BY <1>1, <1>5, <1>7
  <1>9. NamesDiffer(after) /\ AllThere(after, ar) /\ FacesFollow(after, ar)
    BY <1>7, <1>8 DEF FaultsFollow, NamesDiffer, AllThere, FacesFollow
  <1>10. \A other : FactorIn(ff, other) = IF other = name THEN x ELSE FactorIn(af, other)
    BY FactorNext
  <1> HIDE DEF ff
  <1>11. ASSUME NEW m \in DOMAIN fs
         PROVE  after[m].factor = FactorIn(ff, after[m].name)
    <2>1. CASE m = n
      BY <1>5, <1>7, <1>10, <2>1
    <2>2. CASE m # n
      <3>1. fs[m].name # name
        BY <1>1, <2>2 DEF FaultsFollow, NamesDiffer
      <3>2. fs[m].factor = FactorIn(af, fs[m].name)
        BY DEF FaultsFollow, FactorsFollow
      <3>3. QED
        BY <1>7, <1>10, <2>2, <3>1, <3>2
    <2>3. QED
      BY <2>1, <2>2
  <1>12. FactorsFollow(after, ff)
    BY <1>7, <1>11 DEF FactorsFollow
  <1>13. QED
    BY <1>7, <1>9, <1>12 DEF FaultsFollow, after, ff
-----------------------------------------------------------------------------
(* Fault by fault, or record by record: the product is the same.           *)
PartFactors(fs, ar, af, n, c, d) ==
  [p \in DOMAIN ar |->
     IF OnFace(ar[p], c, d) /\ \E m \in 1 .. n : fs[m].name = ar[p].fault
     THEN FactorIn(af, ar[p].fault) ELSE 1]

GivenFactors(ar, af, c, d) ==
  [p \in DOMAIN ar |-> IF OnFace(ar[p], c, d) THEN FactorIn(af, ar[p].fault) ELSE 1]

LEMMA FactorInType ==
  ASSUME NEW af \in Seq(FactorRecord), NEW name
  PROVE  FactorIn(af, name) \in Int
  <1>1. CASE GivenIn(af, name) = {}
    BY <1>1 DEF FactorIn
  <1>2. CASE GivenIn(af, name) # {}
    <2> DEFINE p == CHOOSE p \in GivenIn(af, name) : \A o \in GivenIn(af, name) : o <= p
    <2>1. GivenIn(af, name) \in SUBSET (1 .. Len(af)) /\ Len(af) \in Nat
      BY DEF GivenIn
    <2>2. \E q \in GivenIn(af, name) : \A o \in GivenIn(af, name) : o <= q
      BY <1>2, <2>1, LastExists
    <2>3. p \in GivenIn(af, name)
      BY <2>2
    <2>4. FactorIn(af, name) = af[p].factor
      BY <1>2 DEF FactorIn
    <2> HIDE DEF p
    <2>5. p \in 1 .. Len(af)
      BY <2>1, <2>3
    <2>6. af[p] \in FactorRecord
      BY <2>5
    <2>7. af[p].factor \in Factor
      BY <2>6 DEF FactorRecord
    <2>8. QED
      BY <2>4, <2>7, TransMultAssumption
  <1>3. QED
    BY <1>1, <1>2

LEMMA PartFactorsType ==
  ASSUME NEW fs, NEW ar \in Seq(FaultRecord), NEW af \in Seq(FactorRecord), NEW n, NEW c, NEW d
  PROVE  PartFactors(fs, ar, af, n, c, d) \in [1 .. Len(ar) -> Int]
  <1>1. DOMAIN ar = 1 .. Len(ar)
    OBVIOUS
  <1>2. \A p \in DOMAIN ar : FactorIn(af, ar[p].fault) \in Int
    BY FactorInType
  <1>3. QED
    BY <1>1, <1>2 DEF PartFactors

LEMMA PartNext ==
  ASSUME NEW fs \in Seq(FaultType), NEW ar \in Seq(FaultRecord), NEW af \in Seq(FactorRecord),
         FaultsFollow(fs, ar, af), NEW n \in 1 .. Len(fs), NEW c \in Cell, NEW d \in FaceDir
  PROVE  ProductOf(PartFactors(fs, ar, af, n, c, d)) =
           ProductOf(PartFactors(fs, ar, af, n - 1, c, d)) * FaultFactors(fs, c, d)[n]
  <1> DEFINE before == PartFactors(fs, ar, af, n - 1, c, d)
             after == PartFactors(fs, ar, af, n, c, d)
             own == RecordFactors(ar, fs[n].name, fs[n].factor, c, d)
  <1>1. n \in DOMAIN fs /\ n - 1 \in Nat /\ Len(fs) \in Nat /\ Len(ar) \in Nat
    OBVIOUS
  <1>2. /\ \A m \in DOMAIN fs : fs[n].name = fs[m].name => n = m
        /\ fs[n].factor = FactorIn(af, fs[n].name)
    BY <1>1 DEF FaultsFollow, NamesDiffer, FactorsFollow
  <1>3. fs[n].factor \in Int
    BY <1>2, FactorInType
  <1>4. /\ before \in [1 .. Len(ar) -> Int] /\ after \in [1 .. Len(ar) -> Int]
        /\ own \in [1 .. Len(ar) -> Int]
    BY <1>3, PartFactorsType, RecordFactorsType
  <1>5. FaultFactors(fs, c, d)[n] = ProductOf(own)
    <2>1. FaultFactors(fs, c, d)[n] = ProductOf(FaceFactors(fs[n].faces, fs[n].factor, c, d))
      BY <1>1 DEF FaultFactors
    <2>2. QED
      BY <1>1, <1>3, <2>1 DEF FaultsFollow, FacesFollow
  <1>6. ASSUME NEW p \in 1 .. Len(ar)
        PROVE  after[p] = before[p] * own[p]
    <2>1. p \in DOMAIN ar
      OBVIOUS
    <2>2. /\ after[p] = IF OnFace(ar[p], c, d) /\ \E m \in 1 .. n : fs[m].name = ar[p].fault
                        THEN FactorIn(af, ar[p].fault) ELSE 1
          /\ before[p] = IF OnFace(ar[p], c, d) /\ \E m \in 1 .. n - 1 : fs[m].name = ar[p].fault
                         THEN FactorIn(af, ar[p].fault) ELSE 1
          /\ own[p] = IF ar[p].fault = fs[n].name /\ OnFace(ar[p], c, d) THEN fs[n].factor ELSE 1
      BY <2>1 DEF PartFactors, RecordFactors
    <2>3. /\ after[p] \in Int /\ before[p] \in Int /\ own[p] \in Int
      BY <1>4
    <2>4. CASE ar[p].fault = fs[n].name
      <3>1. ~ \E m \in 1 .. n - 1 : fs[m].name = ar[p].fault
        BY <1>1, <1>2, <2>4
      <3>2. \E m \in 1 .. n : fs[m].name = ar[p].fault
        BY <1>1, <2>4
      <3>3. before[p] = 1
        BY <2>2, <3>1
      <3>4. after[p] = own[p]
        BY <1>2, <2>2, <2>4, <3>2
      <3>5. QED
        BY <2>3, <3>3, <3>4
    <2>5. CASE ar[p].fault # fs[n].name
      <3>1. (\E m \in 1 .. n : fs[m].name = ar[p].fault)
              <=> \E m \in 1 .. n - 1 : fs[m].name = ar[p].fault
        BY <1>1, <2>5
      <3>2. own[p] = 1
        BY <2>2, <2>5
      <3>3. after[p] = before[p]
        BY <2>2, <3>1
      <3>4. QED
        BY <2>3, <3>2, <3>3
    <2>6. QED
      BY <2>4, <2>5
  <1> HIDE DEF before, after, own
  <1>7. after = [p \in 1 .. Len(ar) |-> before[p] * own[p]]
    BY <1>4, <1>6
  <1>8. ProductOf(after) = ProductOf(before) * ProductOf(own)
    BY <1>1, <1>4, <1>7, ProductTimes
  <1>9. QED
    BY <1>5, <1>8 DEF before, after

LEMMA Interchange ==
  ASSUME NEW fs \in Seq(FaultType), NEW ar \in Seq(FaultRecord), NEW af \in Seq(FactorRecord),
         FaultsFollow(fs, ar, af), NEW c \in Cell, NEW d \in FaceDir
  PROVE  ProductOf(FaultFactors(fs, c, d)) = ProductOf(GivenFactors(ar, af, c, d))
  <1> DEFINE Part(n) == PartFactors(fs, ar, af, n, c, d)
             g == [n \in 0 .. Len(fs) |-> ProductOf(Part(n))]
  <1>1. Len(fs) \in Nat /\ Len(ar) \in Nat /\ DOMAIN ar = 1 .. Len(ar)
    OBVIOUS
  <1>2. \A n : Part(n) \in [1 .. Len(ar) -> Int]
    BY PartFactorsType
  <1>3. \A n : ProductOf(Part(n)) \in Int
    BY <1>1, <1>2, ProductType
  <1>4. \A n \in 1 .. Len(fs) :
          ProductOf(Part(n)) = ProductOf(Part(n - 1)) * FaultFactors(fs, c, d)[n]
    BY PartNext
  <1>5. ProductOf(Part(0)) = 1
    <2>1. \A p \in 1 .. Len(ar) : Part(0)[p] = 1
      BY <1>1 DEF PartFactors
    <2>2. QED
      BY <1>1, <1>2, <2>1, ProductOfOnes
  <1>6. Part(Len(fs)) = GivenFactors(ar, af, c, d)
    <2>1. \A p \in DOMAIN ar : \E m \in 1 .. Len(fs) : fs[m].name = ar[p].fault
      BY <1>1 DEF FaultsFollow, AllThere
    <2>2. QED
      BY <2>1 DEF PartFactors, GivenFactors
  <1>7. FaultFactors(fs, c, d) \in [1 .. Len(fs) -> Int]
    BY FaultFactorsType
  <1> HIDE DEF Part
  <1>8. /\ g \in [0 .. Len(fs) -> Int]
        /\ \A n \in 1 .. Len(fs) : g[n] = g[n - 1] * FaultFactors(fs, c, d)[n]
        /\ g[0] = 1 /\ g[Len(fs)] = ProductOf(Part(Len(fs)))
    <2>1. g \in [0 .. Len(fs) -> Int]
      BY <1>3
    <2>2. \A n \in 0 .. Len(fs) : g[n] = ProductOf(Part(n))
      OBVIOUS
    <2> HIDE DEF g
    <2>3. ASSUME NEW n \in 1 .. Len(fs)
          PROVE  g[n] = g[n - 1] * FaultFactors(fs, c, d)[n]
      <3>1. n \in 0 .. Len(fs) /\ n - 1 \in 0 .. Len(fs)
        BY <1>1
      <3>2. QED
        BY <1>4, <2>2, <3>1
    <2>4. 0 \in 0 .. Len(fs) /\ Len(fs) \in 0 .. Len(fs)
      BY <1>1
    <2>5. QED
      BY <1>5, <2>1, <2>2, <2>3, <2>4
  <1> HIDE DEF g
  <1>9. /\ ProductOf(FaultFactors(fs, c, d)) \in Int
        /\ g[Len(fs)] = g[0] * ProductOf(FaultFactors(fs, c, d))
    BY <1>1, <1>7, <1>8, ProductOfSteps
  <1>10. QED
    BY <1>6, <1>8, <1>9
-----------------------------------------------------------------------------
(* The types of the variables. *)
LEMMA TypeInit == Init => TypeOK
  <1>1. SUFFICES ASSUME Init
                 PROVE  TypeOK
    OBVIOUS
  <1>2. IsData(multProperties)
    BY <1>1, TransMultAssumption DEF Init
  <1>3. IsData(InitTransMult(multProperties))
    <2>1. multProperties \in Data
      BY <1>2, DataIs
    <2>2. DOMAIN multProperties \subseteq FaceDir
      BY <2>1, DataHas
    <2>3. \A d \in DOMAIN multProperties, c \in Cell : 1 * multProperties[d][c] \in Int
      BY <2>1, DataHas
    <2>4. InitTransMult(multProperties) \in [DOMAIN multProperties -> [Cell -> Int]]
      BY <2>3 DEF InitTransMult
    <2>5. QED
      BY <2>2, <2>4 DEF IsData
  <1>4. faults \in Seq(FaultType) /\ records \in Seq(RecordType)
    BY <1>1 DEF Init
  <1>5. asked \in [faults : Seq(FaultRecord), factors : Seq([fault : Fault, factor : Factor]),
                   regions : Seq(RegionRecord)]
    BY <1>1 DEF Init
  <1>6. QED
    BY <1>1, <1>3, <1>4, <1>5 DEF Init, TypeOK

AskedType == [faults : Seq(FaultRecord), factors : Seq(FactorRecord), regions : Seq(RegionRecord)]

LEMMA AskedHas ==
  ASSUME TypeOK
  PROVE  /\ asked \in AskedType /\ asked.faults \in Seq(FaultRecord)
         /\ asked.factors \in Seq(FactorRecord) /\ asked.regions \in Seq(RegionRecord)
  BY DEF TypeOK, AskedType, FactorRecord

(* The records of a keyword, which Next chooses as a function, are a list. *)
LEMMA KeywordIsSeq ==
  ASSUME NEW n \in 1 .. MaxPerKeyword, NEW rs \in [1 .. n -> RegionRecord]
  PROVE  rs \in Seq(RegionRecord)
  <1>1. n \in Nat
    BY TransMultAssumption
  <1>2. QED
    BY <1>1, LenIs
-----------------------------------------------------------------------------
(* The connections of MULTREGT: record by record the factor that holds.    *)
LEMMA RegionIsIn ==
  ASSUME NEW p
  PROVE  RegionAsked(p) = RegionIn(asked.regions, p)
  BY DEF RegionAsked, RegionIn, NamedIn

LEMMA RecordIs ==
  ASSUME NEW rs \in Seq(RecordType), NEW rr \in Seq(RegionRecord), RecordsFollow(rs, rr)
  PROVE  /\ DOMAIN rs = DOMAIN rr /\ Len(rs) = Len(rr)
         /\ \A p \in DOMAIN rr :
              /\ rs[p].pair = Between(rr[p]) /\ rs[p].factor = rr[p].factor
              /\ rs[p].directions = FromMultregtString[rr[p].directions]
              /\ rs[p].region = RegionIn(rr, p)
  <1>1. Len(rs) = Len(rr) /\ DOMAIN rs = 1 .. Len(rs) /\ DOMAIN rr = 1 .. Len(rr)
    BY DEF RecordsFollow
  <1>2. ASSUME NEW p \in DOMAIN rr
        PROVE  /\ rs[p].pair = Between(rr[p]) /\ rs[p].factor = rr[p].factor
               /\ rs[p].directions = FromMultregtString[rr[p].directions]
    <2>1. RecordFits(rs, rr, p)
      BY <1>1 DEF RecordsFollow
    <2>2. QED
      BY <2>1 DEF RecordFits
  <1>3. \A p \in DOMAIN rr : rs[p].region = RegionIn(rr, p)
    BY <1>1, RegionsFollow
  <1>4. QED
    BY <1>1, <1>2, <1>3

LEMMA FactorsOfConnections ==
  ASSUME TypeOK, RecordsFollow(records, asked.regions), NEW c \in Cell, NEW d \in FaceDir
  PROVE  ConnectionFactors(records, Connections(records, regions), c, d) = FactorsOfRegions(c, d)
  <1> DEFINE rr == asked.regions
             conns == Connections(records, regions)
             Holds(p) == /\ IsLast(records, p)
                         /\ [record |-> records[p], cell |-> c, dir |-> d] \in conns
  <1>1. records \in Seq(RecordType) /\ rr \in Seq(RegionRecord)
    BY AskedHas DEF TypeOK
  <1>2. /\ DOMAIN records = DOMAIN rr /\ Len(records) = Len(rr) /\ Len(rr) \in Nat
        /\ DOMAIN rr = 1 .. Len(rr)
        /\ \A p \in DOMAIN rr :
             /\ records[p].pair = Between(rr[p]) /\ records[p].factor = rr[p].factor
             /\ records[p].directions = FromMultregtString[rr[p].directions]
             /\ records[p].region = RegionAsked(p)
    BY <1>1, RecordIs, RegionIsIn
  <1>3. ASSUME NEW p \in DOMAIN rr
        PROVE  Holds(p) <=> RecordHolds(p, c, d)
    <2>1. IsLast(records, p) <=> \A q \in p + 1 .. Len(rr) : Between(rr[q]) # Between(rr[p])
      <3>1. \A q \in p + 1 .. Len(rr) : q \in DOMAIN rr
        BY <1>2
      <3>2. QED
        BY <1>2, <3>1 DEF IsLast
    <2>2. IsLast(records, p) => (Holds(p) <=> Joins(records[p], regions, c, d))
      BY <1>1, <1>2, ConnectionsOfFace
    <2>3. Joins(records[p], regions, c, d)
            <=> /\ d \in FromMultregtString[rr[p].directions]
                /\ \E o \in Cell :
                     /\ IsAcross(c, d, o)
                     /\ Between(rr[p]) = <<regions[RegionAsked(p)][c], regions[RegionAsked(p)][o]>>
      BY <1>2 DEF Joins
    <2>4. QED
      BY <2>1, <2>2, <2>3 DEF RecordHolds
  <1>4. \A p \in DOMAIN rr :
          (IF Holds(p) THEN records[p].factor ELSE 1)
            = (IF RecordHolds(p, c, d) THEN rr[p].factor ELSE 1)
    BY <1>2, <1>3
  <1> HIDE DEF Holds
  <1>5. ConnectionFactors(records, conns, c, d) =
          [p \in DOMAIN rr |-> IF Holds(p) THEN records[p].factor ELSE 1]
    BY <1>2 DEF ConnectionFactors, Holds
  <1>6. FactorsOfRegions(c, d) =
          [p \in DOMAIN rr |-> IF RecordHolds(p, c, d) THEN rr[p].factor ELSE 1]
    BY DEF FactorsOfRegions
  <1>7. QED
    BY <1>4, <1>5, <1>6

LEMMA RegionsMultiply ==
  ASSUME TypeOK, RecordsFollow(records, asked.regions)
  PROVE  /\ MultipliedByConnections(trans, Connections(records, regions)) \in Data
         /\ \A c \in Cell, d \in FaceDir :
              MultiplierIn(MultipliedByConnections(trans, Connections(records, regions)), c, d) =
                MultiplierIn(trans, c, d) * ProductOf(FactorsOfRegions(c, d))
  <1> DEFINE conns == Connections(records, regions)
  <1>1. records \in Seq(RecordType) /\ trans \in Data
    BY DataIs DEF TypeOK
  <1>2. IsFiniteSet(conns)
    BY <1>1, ConnectionsFinite
  <1>3. ASSUME NEW x \in conns
        PROVE  /\ x = [record |-> x.record, cell |-> x.cell, dir |-> x.dir]
               /\ x.cell \in Cell /\ x.dir \in FaceDir
               /\ \E p \in DOMAIN records : IsLast(records, p) /\ x.record = records[p]
    <2>1. PICK r \in SearchMap(records), c \in Cell, d \in FaceDir :
            x = [record |-> r, cell |-> c, dir |-> d]
      BY <1>1, ConnectionsAre
    <2>2. x.record = r /\ x.cell = c /\ x.dir = d
      BY <2>1
    <2>3. \E p \in DOMAIN records : IsLast(records, p) /\ r = records[p]
      BY <1>1, InSearchMap
    <2>4. QED
      BY <2>1, <2>2, <2>3
  <1> HIDE DEF conns
  <1>4. /\ MultipliedByConnections(trans, conns) \in Data
        /\ \A c \in Cell, d \in FaceDir :
             MultiplierIn(MultipliedByConnections(trans, conns), c, d) =
               MultiplierIn(trans, c, d) * ProductOf(ConnectionFactors(records, conns, c, d))
    BY <1>1, <1>2, <1>3, ConnectionsMultiply
  <1>5. \A c \in Cell, d \in FaceDir :
          ConnectionFactors(records, conns, c, d) = FactorsOfRegions(c, d)
    BY FactorsOfConnections DEF conns
  <1>6. QED
    BY <1>4, <1>5 DEF conns
-----------------------------------------------------------------------------
(* The inductive invariant.  What is not so from the shape of one step: a  *)
(* record that is refused is in asked but nowhere else, so the first two   *)
(* say nothing after a throw.                                              *)
RecordsInv == phase = "reading" => RecordsFollow(records, asked.regions)

FaultsInv ==
  phase = "reading" =>
    /\ stage = "FAULTS" => asked.factors = << >>
    /\ FaultsFollow(faults, asked.faults, asked.factors)

(* The multipliers of the first two sources. *)
FaultsApplied ==
  \A c \in Cell, d \in FaceDir :
    MultiplierIn(trans, c, d) =
      MultiplierIn(multProperties, c, d)
        * ProductOf(GivenFactors(asked.faults, asked.factors, c, d))

TransInv ==
  /\ stage \in {"FAULTS", "MULTFLT"} => trans = InitTransMult(multProperties)
  /\ stage = "MULTREGT" => FaultsApplied
  /\ MultipliersAreProducts
  /\ phase = "thrown" => stage # "done"

IInv == TypeOK /\ RecordsInv /\ FaultsInv /\ TransInv

LEMMA InitIInv == Init => IInv
  <1>1. SUFFICES ASSUME Init
                 PROVE  IInv
    OBVIOUS
  <1>2. TypeOK
    BY <1>1, TypeInit
  <1>3. RecordsInv
    <2>1. records = << >> /\ asked.regions = << >>
      BY <1>1 DEF Init
    <2>2. RecordsFollow(<< >>, << >>)
      BY DEF RecordsFollow
    <2>3. QED
      BY <2>1, <2>2 DEF RecordsInv
  <1>4. FaultsInv
    <2>1. faults = << >> /\ asked.faults = << >> /\ asked.factors = << >>
      BY <1>1 DEF Init
    <2>2. DOMAIN << >> = {}
      OBVIOUS
    <2>3. FaultsFollow(<< >>, << >>, << >>)
      BY <2>2 DEF FaultsFollow, NamesDiffer, AllThere, FacesFollow, FactorsFollow
    <2>4. QED
      BY <2>1, <2>3 DEF FaultsInv
  <1>5. TransInv
    BY <1>1 DEF Init, TransInv, MultipliersAreProducts
  <1>6. QED
    BY <1>2, <1>3, <1>4, <1>5 DEF IInv

(* The properties that InitTransMult() takes over. *)
LEMMA PropertiesTaken ==
  ASSUME TypeOK
  PROVE  /\ InitTransMult(multProperties) \in Data
         /\ \A c \in Cell, d \in FaceDir :
              /\ MultiplierIn(multProperties, c, d) \in Int
              /\ MultiplierIn(InitTransMult(multProperties), c, d) =
                   MultiplierIn(multProperties, c, d)
  <1>1. multProperties \in Data
    BY DataIs, TransMultAssumption DEF TypeOK
  <1>2. /\ DOMAIN multProperties \subseteq FaceDir
        /\ \A d \in DOMAIN multProperties, c \in Cell : multProperties[d][c] \in Int
    BY <1>1, DataHas
  <1>3. /\ DOMAIN InitTransMult(multProperties) = DOMAIN multProperties
        /\ \A d \in DOMAIN multProperties, c \in Cell :
             InitTransMult(multProperties)[d][c] = multProperties[d][c]
    BY <1>2 DEF InitTransMult
  <1>4. InitTransMult(multProperties) \in Data
    <2>1. \A d \in DOMAIN multProperties, c \in Cell : 1 * multProperties[d][c] \in Int
      BY <1>2
    <2>2. InitTransMult(multProperties) \in [DOMAIN multProperties -> [Cell -> Int]]
      BY <2>1 DEF InitTransMult
    <2>3. QED
      BY <1>2, <2>2 DEF Data
  <1>5. \A c \in Cell, d \in FaceDir :
          /\ MultiplierIn(multProperties, c, d) \in Int
          /\ MultiplierIn(InitTransMult(multProperties), c, d) = MultiplierIn(multProperties, c, d)
    BY <1>2, <1>3 DEF MultiplierIn
  <1>6. QED
    BY <1>4, <1>5

(* A step that throws. *)
LEMMA ThrowsStep ==
  ASSUME IInv, phase = "reading", Throws, stage # "done",
         asked' \in AskedType,
         stage = "MULTREGT" =>
           asked'.faults = asked.faults /\ asked'.factors = asked.factors
  PROVE  IInv'
  <1>1. /\ phase' = "thrown" /\ multProperties' = multProperties /\ regions' = regions
        /\ stage' = stage /\ faults' = faults /\ records' = records /\ trans' = trans
    BY DEF Throws, inputVars
  <1>2. TypeOK'
    BY <1>1 DEF IInv, TypeOK, AskedType, FactorRecord
  <1>3. RecordsInv' /\ FaultsInv'
    BY <1>1 DEF RecordsInv, FaultsInv
  <1>4. stage = "MULTREGT" => FaultsApplied'
    BY <1>1 DEF IInv, TransInv, FaultsApplied
  <1>5. TransInv'
    BY <1>1, <1>4 DEF IInv, TransInv, MultipliersAreProducts
  <1>6. QED
    BY <1>2, <1>3, <1>5 DEF IInv

(* What is noted of a record, or of a keyword of them. *)
LEMMA AskedNext ==
  ASSUME NEW a \in AskedType
  PROVE  /\ \A r \in FaultRecord :
              LET b == [a EXCEPT !.faults = Append(@, r)]
              IN /\ b \in AskedType /\ b.faults = Append(a.faults, r)
                 /\ b.factors = a.factors /\ b.regions = a.regions
         /\ \A r \in FactorRecord :
              LET b == [a EXCEPT !.factors = Append(@, r)]
              IN /\ b \in AskedType /\ b.factors = Append(a.factors, r)
                 /\ b.faults = a.faults /\ b.regions = a.regions
         /\ \A rs \in Seq(RegionRecord) :
              LET b == [a EXCEPT !.regions = @ \o rs]
              IN /\ b \in AskedType /\ b.regions = a.regions \o rs
                 /\ b.faults = a.faults /\ b.factors = a.factors
  <1>1. /\ a = [faults |-> a.faults, factors |-> a.factors, regions |-> a.regions]
        /\ a.faults \in Seq(FaultRecord) /\ a.factors \in Seq(FactorRecord)
        /\ a.regions \in Seq(RegionRecord)
    BY DEF AskedType
  <1>2. ASSUME NEW r \in FaultRecord
        PROVE  Append(a.faults, r) \in Seq(FaultRecord)
    BY <1>1
  <1>3. ASSUME NEW r \in FactorRecord
        PROVE  Append(a.factors, r) \in Seq(FactorRecord)
    BY <1>1
  <1>4. ASSUME NEW rs \in Seq(RegionRecord)
        PROVE  a.regions \o rs \in Seq(RegionRecord)
    BY <1>1
  <1>5. ASSUME NEW r \in FaultRecord, NEW b, b = [a EXCEPT !.faults = Append(@, r)]
        PROVE  /\ b \in AskedType /\ b.faults = Append(a.faults, r)
               /\ b.factors = a.factors /\ b.regions = a.regions
    BY <1>2, <1>5 DEF AskedType
  <1>6. ASSUME NEW r \in FactorRecord, NEW b, b = [a EXCEPT !.factors = Append(@, r)]
        PROVE  /\ b \in AskedType /\ b.factors = Append(a.factors, r)
               /\ b.faults = a.faults /\ b.regions = a.regions
    BY <1>3, <1>6 DEF AskedType
  <1>7. ASSUME NEW rs \in Seq(RegionRecord), NEW b, b = [a EXCEPT !.regions = @ \o rs]
        PROVE  /\ b \in AskedType /\ b.regions = a.regions \o rs
               /\ b.faults = a.faults /\ b.factors = a.factors
    BY <1>4, <1>7 DEF AskedType
  <1>8. QED
    BY <1>5, <1>6, <1>7

(* The steps: a record of FAULTS, the end of them, and one of MULTFLT.     *)
LEMMA FaultsRecordStep ==
  ASSUME IInv, phase = "reading", NEW r \in FaultRecord, FaultsRecord(r)
  PROVE  IInv'
  <1>1. /\ stage = "FAULTS" /\ asked' = [asked EXCEPT !.faults = Append(@, r)]
    BY DEF FaultsRecord
  <1>2. TypeOK
    BY DEF IInv
  <1>3. /\ asked' \in AskedType /\ asked'.faults = Append(asked.faults, r)
        /\ asked'.factors = asked.factors /\ asked'.regions = asked.regions
    BY <1>1, <1>2, AskedHas, AskedNext
  <1>4. CASE IsFace(r) /\ faults' = WithFace(faults, r.fault, Face(r))
             /\ Reads /\ UNCHANGED <<stage, records, trans>>
    <2>1. /\ phase' = "reading" /\ multProperties' = multProperties /\ regions' = regions
          /\ stage' = "FAULTS" /\ records' = records /\ trans' = trans
      BY <1>1, <1>4 DEF Reads, inputVars
    <2>2. faults \in Seq(FaultType) /\ asked.faults \in Seq(FaultRecord)
      BY <1>2, AskedHas DEF TypeOK
    <2>3. asked.factors = << >> /\ FaultsFollow(faults, asked.faults, << >>)
      BY <1>1 DEF IInv, FaultsInv
    <2>4. /\ faults' \in Seq(FaultType)
          /\ FaultsFollow(faults', asked'.faults, << >>)
      BY <1>3, <1>4, <2>2, <2>3, FaceRecorded
    <2>5. TypeOK'
      BY <1>2, <1>3, <2>1, <2>4 DEF TypeOK, AskedType, FactorRecord
    <2>6. RecordsInv'
      BY <1>3, <2>1 DEF IInv, RecordsInv
    <2>7. FaultsInv'
      BY <1>3, <2>3, <2>4 DEF FaultsInv
    <2>8. TransInv'
      BY <1>1, <2>1 DEF IInv, TransInv, MultipliersAreProducts
    <2>9. QED
      BY <2>5, <2>6, <2>7, <2>8 DEF IInv
  <1>5. CASE Throws
    BY <1>1, <1>3, <1>5, ThrowsStep
  <1>6. QED
    BY <1>4, <1>5 DEF FaultsRecord

LEMMA EndFaultsStep ==
  ASSUME IInv, phase = "reading", EndFaults
  PROVE  IInv'
  <1>1. /\ stage = "FAULTS" /\ stage' = "MULTFLT" /\ phase' = phase /\ asked' = asked
        /\ multProperties' = multProperties /\ regions' = regions
        /\ faults' = faults /\ records' = records /\ trans' = trans
    BY DEF EndFaults, Reads, inputVars
  <1>2. TypeOK'
    BY <1>1 DEF IInv, TypeOK
  <1>3. RecordsInv'
    BY <1>1 DEF IInv, RecordsInv
  <1>4. FaultsInv'
    BY <1>1 DEF IInv, FaultsInv
  <1>5. TransInv'
    BY <1>1 DEF IInv, TransInv, MultipliersAreProducts
  <1>6. QED
    BY <1>2, <1>3, <1>4, <1>5 DEF IInv

LEMMA MultfltRecordStep ==
  ASSUME IInv, phase = "reading", NEW name \in Fault, NEW factor \in Factor,
         MultfltRecord(name, factor)
  PROVE  IInv'
  <1> DEFINE new == [fault |-> name, factor |-> factor]
  <1>1. /\ stage = "MULTFLT" /\ asked' = [asked EXCEPT !.factors = Append(@, new)]
    BY DEF MultfltRecord
  <1>2. TypeOK
    BY DEF IInv
  <1>3. /\ asked' \in AskedType /\ asked'.faults = asked.faults
        /\ asked'.factors = Append(asked.factors, new) /\ asked'.regions = asked.regions
    <2>1. new \in FactorRecord
      BY DEF FactorRecord
    <2> HIDE DEF new
    <2>2. QED
      BY <1>1, <1>2, <2>1, AskedHas, AskedNext
  <1>4. CASE PlaceOf(faults, name) # 0 /\ faults' = WithFactor(faults, name, factor)
             /\ Reads /\ UNCHANGED <<stage, records, trans>>
    <2>1. /\ phase' = "reading" /\ multProperties' = multProperties /\ regions' = regions
          /\ stage' = "MULTFLT" /\ records' = records /\ trans' = trans
      BY <1>1, <1>4 DEF Reads, inputVars
    <2>2. faults \in Seq(FaultType) /\ asked.factors \in Seq(FactorRecord)
      BY <1>2, AskedHas DEF TypeOK
    <2>3. FaultsFollow(faults, asked.faults, asked.factors)
      BY DEF IInv, FaultsInv
    <2>4. /\ faults' \in Seq(FaultType)
          /\ FaultsFollow(faults', asked'.faults, asked'.factors)
      BY <1>3, <1>4, <2>2, <2>3, FactorRecorded
    <2>5. TypeOK'
      BY <1>2, <1>3, <2>1, <2>4 DEF TypeOK, AskedType, FactorRecord
    <2>6. RecordsInv'
      BY <1>3, <2>1 DEF IInv, RecordsInv
    <2>7. FaultsInv'
      BY <2>1, <2>4 DEF FaultsInv
    <2>8. TransInv'
      BY <1>1, <2>1 DEF IInv, TransInv, MultipliersAreProducts
    <2>9. QED
      BY <2>5, <2>6, <2>7, <2>8 DEF IInv
  <1>5. CASE Throws
    BY <1>1, <1>3, <1>5, ThrowsStep
  <1>6. QED
    BY <1>4, <1>5 DEF MultfltRecord

(* The faults are applied: their factors are those of the records.         *)
LEMMA ApplyMultfltStep ==
  ASSUME IInv, phase = "reading", ApplyMultflt
  PROVE  IInv'
  <1>1. /\ stage = "MULTFLT" /\ stage' = "MULTREGT" /\ phase' = phase /\ asked' = asked
        /\ multProperties' = multProperties /\ regions' = regions
        /\ faults' = faults /\ records' = records
        /\ trans' = MultipliedByFaults(trans, faults)
    BY DEF ApplyMultflt, Reads, inputVars
  <1>2. TypeOK
    BY DEF IInv
  <1>3. /\ faults \in Seq(FaultType) /\ asked.faults \in Seq(FaultRecord)
        /\ asked.factors \in Seq(FactorRecord) /\ trans \in Data
    BY <1>2, AskedHas, DataIs DEF TypeOK
  <1>4. /\ trans' \in Data
        /\ \A c \in Cell, d \in FaceDir :
             MultiplierIn(trans', c, d) =
               MultiplierIn(trans, c, d) * ProductOf(FaultFactors(faults, c, d))
    BY <1>1, <1>3, FaultsMultiply
  <1>5. FaultsFollow(faults, asked.faults, asked.factors)
    BY DEF IInv, FaultsInv
  <1>6. \A c \in Cell, d \in FaceDir :
          ProductOf(FaultFactors(faults, c, d)) =
            ProductOf(GivenFactors(asked.faults, asked.factors, c, d))
    BY <1>3, <1>5, Interchange
  <1>7. trans = InitTransMult(multProperties)
    BY <1>1 DEF IInv, TransInv
  <1>8. \A c \in Cell, d \in FaceDir :
          MultiplierIn(trans, c, d) = MultiplierIn(multProperties, c, d)
    BY <1>2, <1>7, PropertiesTaken
  <1>9. \A c \in Cell, d \in FaceDir :
          MultiplierIn(trans', c, d) =
            MultiplierIn(multProperties, c, d)
              * ProductOf(GivenFactors(asked.faults, asked.factors, c, d))
    BY <1>4, <1>6, <1>8
  <1>10. TypeOK'
    <2>1. IsData(trans')
      BY <1>4, DataIs
    <2>2. QED
      BY <1>1, <1>2, <2>1 DEF TypeOK
  <1>11. RecordsInv'
    BY <1>1 DEF IInv, RecordsInv
  <1>12. FaultsInv'
    BY <1>1, <1>5 DEF FaultsInv
  <1>13. TransInv'
    <2>1. FaultsApplied'
      BY <1>1, <1>9 DEF FaultsApplied
    <2>2. QED
      BY <1>1, <2>1 DEF TransInv, MultipliersAreProducts
  <1>14. QED
    BY <1>10, <1>11, <1>12, <1>13 DEF IInv

(* A keyword of MULTREGT: the factors of the faults are left as they were. *)
LEMMA MultregtKeywordStep ==
  ASSUME IInv, phase = "reading", NEW rs \in Seq(RegionRecord), MultregtKeyword(rs)
  PROVE  IInv'
  <1>1. stage = "MULTREGT" /\ asked' = [asked EXCEPT !.regions = @ \o rs]
    BY DEF MultregtKeyword
  <1>2. TypeOK
    BY DEF IInv
  <1>3. /\ asked' \in AskedType /\ asked'.faults = asked.faults
        /\ asked'.factors = asked.factors /\ asked'.regions = asked.regions \o rs
    BY <1>1, <1>2, AskedHas, AskedNext
  <1>4. CASE (\A p \in DOMAIN rs : Supported(rs[p])) /\ records' = WithRecords(records, rs)
             /\ Reads /\ UNCHANGED <<stage, faults, trans>>
    <2>1. /\ phase' = "reading" /\ multProperties' = multProperties /\ regions' = regions
          /\ stage' = "MULTREGT" /\ faults' = faults /\ trans' = trans
      BY <1>1, <1>4 DEF Reads, inputVars
    <2>2. records \in Seq(RecordType) /\ asked.regions \in Seq(RegionRecord)
      BY <1>2, AskedHas DEF TypeOK
    <2>3. RecordsFollow(records, asked.regions)
      BY DEF IInv, RecordsInv
    <2>4. records' \in Seq(RecordType) /\ RecordsFollow(records', asked'.regions)
      BY <1>3, <1>4, <2>2, <2>3, KeywordFits
    <2>5. TypeOK'
      BY <1>2, <1>3, <2>1, <2>4 DEF TypeOK, AskedType, FactorRecord
    <2>6. RecordsInv'
      BY <2>4 DEF RecordsInv
    <2>7. FaultsInv'
      BY <1>3, <2>1 DEF IInv, FaultsInv
    <2>8. FaultsApplied'
      BY <1>1, <1>3, <2>1 DEF IInv, TransInv, FaultsApplied
    <2>9. TransInv'
      BY <2>1, <2>8 DEF TransInv, MultipliersAreProducts
    <2>10. QED
      BY <2>5, <2>6, <2>7, <2>9 DEF IInv
  <1>5. CASE Throws
    BY <1>1, <1>3, <1>5, ThrowsStep
  <1>6. QED
    BY <1>4, <1>5 DEF MultregtKeyword

(* The regions are applied, the last of the three.                         *)
LEMMA ApplyMultregtStep ==
  ASSUME IInv, phase = "reading", ApplyMultregt
  PROVE  IInv'
  <1>1. stage = "MULTREGT" /\ asked' = asked
    BY DEF ApplyMultregt
  <1>2. TypeOK
    BY DEF IInv
  <1>3. CASE trans' = MultipliedByConnections(trans, Connections(records, regions))
             /\ stage' = "done" /\ Reads /\ UNCHANGED <<faults, records>>
    <2>1. /\ phase' = "reading" /\ multProperties' = multProperties /\ regions' = regions
          /\ stage' = "done" /\ faults' = faults /\ records' = records
      BY <1>3 DEF Reads, inputVars
    <2>2. RecordsFollow(records, asked.regions)
      BY DEF IInv, RecordsInv
    <2>3. /\ trans' \in Data
          /\ \A c \in Cell, d \in FaceDir :
               MultiplierIn(trans', c, d) =
                 MultiplierIn(trans, c, d) * ProductOf(FactorsOfRegions(c, d))
      BY <1>2, <1>3, <2>2, RegionsMultiply
    <2>4. FaultsApplied
      BY <1>1 DEF IInv, TransInv
    <2>5. ASSUME NEW c \in Cell, NEW d \in FaceDir
          PROVE  MultiplierIn(trans', c, d) = Meant(c, d)
      <3>1. FactorsOfFaults(c, d) = GivenFactors(asked.faults, asked.factors, c, d)
        BY DEF FactorsOfFaults, GivenFactors, FactorOfFault, FactorIn, GivenIn
      <3>2. MultiplierIn(trans, c, d) =
              MultiplierIn(multProperties, c, d) * ProductOf(FactorsOfFaults(c, d))
        BY <2>4, <3>1 DEF FaultsApplied
      <3>3. MultiplierIn(trans', c, d) =
              MultiplierIn(multProperties, c, d) * ProductOf(FactorsOfFaults(c, d))
                * ProductOf(FactorsOfRegions(c, d))
        BY <2>3, <3>2
      <3>4. QED
        BY <3>3 DEF Meant, MultiplierIn
    <2>6. \A c \in Cell, d \in FaceDir : Meant(c, d)' = Meant(c, d)
      BY <1>1, <2>1 DEF Meant, FactorsOfFaults, FactorsOfRegions, FactorOfFault, RecordHolds,
                        RegionAsked
    <2>7. \A c \in Cell, d \in FaceDir : Multiplier(c, d)' = MultiplierIn(trans', c, d)
      BY DEF Multiplier, MultiplierIn
    <2>8. MultipliersAreProducts'
      BY <2>5, <2>6, <2>7 DEF MultipliersAreProducts
    <2>9. TypeOK'
      <3>1. IsData(trans')
        BY <2>3, DataIs
      <3>2. QED
        BY <1>1, <1>2, <2>1, <3>1 DEF TypeOK
    <2>10. RecordsInv'
      BY <1>1, <2>1 DEF IInv, RecordsInv
    <2>11. FaultsInv'
      BY <1>1, <2>1 DEF IInv, FaultsInv
    <2>12. TransInv'
      BY <2>1, <2>8 DEF TransInv
    <2>13. QED
      BY <2>9, <2>10, <2>11, <2>12 DEF IInv
  <1>4. CASE Throws
    <2>1. asked' \in AskedType
      BY <1>1, <1>2, AskedHas
    <2>2. QED
      BY <1>1, <1>4, <2>1, ThrowsStep
  <1>5. QED
    BY <1>3, <1>4 DEF ApplyMultregt

LEMMA NextIInv == IInv /\ [Next]_vars => IInv'
  <1>1. SUFFICES ASSUME IInv, [Next]_vars
                 PROVE  IInv'
    OBVIOUS
  <1>2. ASSUME NEW r \in FaultRecord, phase = "reading", FaultsRecord(r)
        PROVE  IInv'
    BY <1>1, <1>2, FaultsRecordStep
  <1>3. CASE phase = "reading" /\ EndFaults
    BY <1>1, <1>3, EndFaultsStep
  <1>4. ASSUME NEW name \in Fault, NEW factor \in Factor, phase = "reading",
               MultfltRecord(name, factor)
        PROVE  IInv'
    BY <1>1, <1>4, MultfltRecordStep
  <1>5. CASE phase = "reading" /\ ApplyMultflt
    BY <1>1, <1>5, ApplyMultfltStep
  <1>6. ASSUME NEW rs \in UNION {[1 .. n -> RegionRecord] : n \in 1 .. MaxPerKeyword},
               phase = "reading", MultregtKeyword(rs)
        PROVE  IInv'
    <2>1. rs \in Seq(RegionRecord)
      BY KeywordIsSeq
    <2>2. QED
      BY <1>1, <1>6, <2>1, MultregtKeywordStep
  <1>7. CASE phase = "reading" /\ ApplyMultregt
    BY <1>1, <1>7, ApplyMultregtStep
  <1>8. CASE UNCHANGED vars
    <2>1. /\ multProperties' = multProperties /\ regions' = regions /\ stage' = stage
          /\ faults' = faults /\ records' = records /\ trans' = trans /\ phase' = phase
          /\ asked' = asked
      BY <1>8 DEF vars
    <2>2. TypeOK' /\ RecordsInv' /\ FaultsInv'
      BY <1>1, <2>1 DEF IInv, TypeOK, RecordsInv, FaultsInv
    <2>3. FaultsApplied' <=> FaultsApplied
      BY <2>1 DEF FaultsApplied
    <2>4. MultipliersAreProducts' <=> MultipliersAreProducts
      BY <2>1 DEF MultipliersAreProducts, Multiplier, Meant, FactorsOfFaults, FactorsOfRegions,
                  FactorOfFault, RecordHolds, RegionAsked
    <2>5. TransInv'
      BY <1>1, <2>1, <2>3, <2>4 DEF IInv, TransInv
    <2>6. QED
      BY <2>2, <2>5 DEF IInv
  <1>9. QED
    BY <1>1, <1>2, <1>3, <1>4, <1>5, <1>6, <1>7, <1>8 DEF Next

LEMMA Invariant == Spec => []IInv
  BY InitIInv, NextIInv, PTL DEF Spec
-----------------------------------------------------------------------------
(* The variables have their types, whatever the records of the deck are.   *)
(* It takes the rest of the invariant: that the records which are kept     *)
(* are those of the deck, which are supported.                             *)
THEOREM TypeCorrect == Spec => []TypeOK
  <1>1. IInv => TypeOK
    BY DEF IInv
  <1>2. QED
    BY <1>1, Invariant, PTL

(* The records of MULTREGT take the regions they leave out from the ones   *)
(* before them, across keywords and sections (RegionOf in WithRecord;      *)
(* MULTREGTScanner.cpp:129-140), for any records of any number of          *)
(* keywords.                                                               *)
THEOREM RegionsAreInherited == Spec => []RegionIsInherited
  <1>1. IInv => RegionIsInherited
    <2>1. SUFFICES ASSUME IInv, phase = "reading"
                   PROVE  /\ Len(records) = Len(asked.regions)
                          /\ \A p \in DOMAIN records : records[p].region = RegionAsked(p)
      BY DEF RegionIsInherited
    <2>2. RecordsFollow(records, asked.regions)
      BY <2>1 DEF IInv, RecordsInv
    <2>3. records \in Seq(RecordType) /\ asked.regions \in Seq(RegionRecord)
      BY <2>1, AskedHas DEF IInv, TypeOK
    <2>4. QED
      BY <2>2, <2>3, RecordIs, RegionIsIn
  <1>2. QED
    BY <1>1, Invariant, PTL

(* When EclipseState is made, the multiplier of every face of every cell   *)
(* is the product of what the deck says of it, for a grid of any size:     *)
(* what applyMULT(), applyMULTFLT() and applyMULTREGT() do one after the   *)
(* other, each cell by cell (TransMult.cpp:79-143).                        *)
THEOREM MultipliersAreTheProducts == Spec => []MultipliersAreProducts
  <1>1. IInv => MultipliersAreProducts
    BY DEF IInv, TransInv
  <1>2. QED
    BY <1>1, Invariant, PTL
==============================================================================
