----------------------------- MODULE FoldProofs -----------------------------
(***************************************************************************)
(* Folds over finite sets, as the community modules define them: by a      *)
(* recursive function on the subsets.  That function exists and is unique, *)
(* which is shown once for every base, step and choice of the next         *)
(* element; the rest is about sums of functions and folds of sequences.    *)
(***************************************************************************)
EXTENDS Integers, Sequences, FiniteSets, FiniteSetsExt, FiniteSetTheorems, TLAPS

-----------------------------------------------------------------------------
(* Induction, with the property as a set.                                  *)
LEMMA LeastNumber ==
    ASSUME NEW T \in SUBSET Nat, T # {}
    PROVE  \E n \in T : \A m \in T : n <= m
<1> DEFINE R == OpToRel(<, Nat)
<1>1. IsWellFoundedOn(R, Nat)
  BY NatLessThanWellFounded
<1>2. \A m, n \in Nat : <<m, n>> \in R <=> m < n
  BY DEF OpToRel
<1> HIDE DEF R
<1>3. PICK n \in T : \A m \in T : <<m, n>> \notin R
  BY <1>1, WFMin
<1>4. \A m \in T : ~ (m < n)
  BY <1>2, <1>3, Zenon
<1> QED
  BY <1>4

LEMMA SubsetInduction ==
    ASSUME NEW S, IsFiniteSet(S), NEW C,
           \A T \in SUBSET S : (\A R \in SUBSET T : R # T => R \in C) => T \in C
    PROVE  SUBSET S \subseteq C
<1> SUFFICES ASSUME NEW B \in SUBSET S, B \notin C PROVE FALSE
  OBVIOUS
<1> DEFINE bad == {T \in SUBSET S : T \notin C}
           sizes == {Cardinality(T) : T \in bad}
<1>1. \A T \in SUBSET S : IsFiniteSet(T) /\ Cardinality(T) \in Nat
  BY FS_Subset, FS_CardinalityType
<1>2. sizes \in SUBSET Nat /\ sizes # {}
  BY <1>1
<1>3. PICK n \in sizes : \A m \in sizes : n <= m
  <2> HIDE DEF sizes
  <2> QED
    BY <1>2, LeastNumber
<1>4. PICK T \in SUBSET S : T \notin C /\ Cardinality(T) = n
  BY <1>3
<1>5. ASSUME NEW R \in SUBSET T, R # T PROVE R \in C
  <2>1. Cardinality(R) < Cardinality(T)
    BY <1>1, <1>5, FS_Subset
  <2>2. R \in SUBSET S
    BY <1>5
  <2>3. Cardinality(R) \in Nat /\ Cardinality(T) \in Nat
    BY <1>1, <2>2
  <2>4. R \in bad => Cardinality(T) <= Cardinality(R)
    BY <1>3, <1>4
  <2> QED
    BY <2>1, <2>2, <2>3, <2>4
<1> QED
  BY <1>4, <1>5

-----------------------------------------------------------------------------
(* A fold is a function of the subsets of T that takes from each the       *)
(* element `pick' and does a step with what it is of the rest.             *)
FoldsOn(g, base, step, pick, T) ==
    \A s \in SUBSET T :
        g[s] = IF s = {} THEN base ELSE step[<<s, g[s \ {pick[s]}]>>]

Picks(pick, S) == \A s \in SUBSET S : s # {} => pick[s] \in s

LEMMA FoldUnique ==
    ASSUME NEW S, IsFiniteSet(S), NEW base, NEW step, NEW pick, Picks(pick, S),
           NEW g, FoldsOn(g, base, step, pick, S),
           NEW h, FoldsOn(h, base, step, pick, S)
    PROVE  \A s \in SUBSET S : g[s] = h[s]
<1> DEFINE C == {s \in SUBSET S : g[s] = h[s]}
<1>1. ASSUME NEW T \in SUBSET S, \A R \in SUBSET T : R # T => R \in C
      PROVE  T \in C
  <2>1. CASE T = {}
    BY <2>1 DEF FoldsOn
  <2>2. CASE T # {}
    <3>1. T \ {pick[T]} \in SUBSET T /\ T \ {pick[T]} # T
      BY <2>2 DEF Picks
    <3>2. g[T \ {pick[T]}] = h[T \ {pick[T]}]
      BY <1>1, <3>1
    <3> QED
      BY <2>2, <3>2 DEF FoldsOn
  <2> QED
    BY <2>1, <2>2
<1>2. SUBSET S \subseteq C
  <2> HIDE DEF C
  <2> QED
    BY <1>1, SubsetInduction
<1> QED
  BY <1>2

LEMMA FoldExists ==
    ASSUME NEW S, IsFiniteSet(S), NEW V, NEW base \in V,
           NEW step \in [(SUBSET S) \X V -> V], NEW pick, Picks(pick, S)
    PROVE  \E g \in [SUBSET S -> V] : FoldsOn(g, base, step, pick, S)
<1> DEFINE Is(g, T) == g \in [SUBSET T -> V] /\ FoldsOn(g, base, step, pick, T)
           C == {T \in SUBSET S : \E g : Is(g, T)}
<1>1. ASSUME NEW T \in SUBSET S, \A R \in SUBSET T : R # T => R \in C
      PROVE  T \in C
  <2>1. CASE T = {}
    <3> DEFINE g == [s \in SUBSET T |-> base]
    <3>1. Is(g, T)
      BY <2>1 DEF FoldsOn
    <3> QED
      BY <3>1
  <2>2. CASE T # {}
    <3> DEFINE sol == [R \in SUBSET T |-> CHOOSE g : Is(g, R)]
               rest == T \ {pick[T]}
               g == [s \in SUBSET T |-> IF s = T THEN step[<<T, sol[rest][rest]>>]
                                                 ELSE sol[s][s]]
    <3>1. \A R \in SUBSET T : R # T => Is(sol[R], R)
      <4> SUFFICES ASSUME NEW R \in SUBSET T, R # T PROVE Is(sol[R], R)
        OBVIOUS
      <4>1. \E x : Is(x, R)
        BY <1>1
      <4>2. sol[R] = CHOOSE x : Is(x, R)
        OBVIOUS
      <4> HIDE DEF sol, Is
      <4> QED
        BY <4>1, <4>2
    <3> HIDE DEF sol
    <3>2. rest \in SUBSET T /\ rest # T
      BY <2>2 DEF Picks
    <3>3. g[T] = step[<<T, g[rest]>>] /\ g[T] \in V
      BY <3>1, <3>2
    <3>4. ASSUME NEW s \in SUBSET T, s # T
          PROVE  /\ g[s] = IF s = {} THEN base ELSE step[<<s, g[s \ {pick[s]}]>>]
                 /\ g[s] \in V
      <4>1. g[s] = sol[s][s] /\ Is(sol[s], s)
        BY <3>1, <3>4
      <4>2. CASE s = {}
        BY <4>1, <4>2 DEF FoldsOn
      <4>3. CASE s # {}
        <5> DEFINE r == s \ {pick[s]}
        <5>1. r \in SUBSET s /\ r # s /\ r \in SUBSET T /\ r # T
          BY <4>3, <3>4 DEF Picks
        <5>2. g[r] = sol[r][r] /\ Is(sol[r], r)
          BY <3>1, <5>1
        <5>3. FoldsOn(sol[s], base, step, pick, r) /\ FoldsOn(sol[r], base, step, pick, r)
          BY <4>1, <5>1, <5>2 DEF FoldsOn
        <5>4. IsFiniteSet(r) /\ Picks(pick, r)
          BY <5>1, FS_Subset DEF Picks
        <5>5. sol[s][r] = sol[r][r]
          BY <5>3, <5>4, FoldUnique
        <5>6. sol[s][s] = step[<<s, sol[s][r]>>]
          BY <4>1, <4>3 DEF FoldsOn
        <5> QED
          BY <4>1, <4>3, <5>2, <5>5, <5>6
      <4> QED
        BY <4>2, <4>3
    <3>5. Is(g, T)
      <4>1. FoldsOn(g, base, step, pick, T)
        <5> SUFFICES ASSUME NEW s \in SUBSET T
                     PROVE  g[s] = IF s = {} THEN base
                                   ELSE step[<<s, g[s \ {pick[s]}]>>]
          BY DEF FoldsOn
        <5> HIDE DEF g
        <5> QED
          BY <2>2, <3>3, <3>4
      <4>2. g \in [SUBSET T -> V]
        BY <3>3, <3>4
      <4> QED
        BY <4>1, <4>2
    <3> QED
      BY <3>5
  <2> QED
    BY <2>1, <2>2
<1>2. SUBSET S \subseteq C
  <2> HIDE DEF C
  <2> QED
    BY <1>1, SubsetInduction
<1>3. S \in SUBSET S
  OBVIOUS
<1> QED
  BY <1>2, <1>3

-----------------------------------------------------------------------------
(* Sums of functions, as MapThenSumSet computes them.                      *)
Pick(s) == CHOOSE x \in s : TRUE

Sums(g, f, S) ==
    g = [s \in SUBSET S |-> IF s = {} THEN 0 ELSE f[Pick(s)] + g[s \ {Pick(s)}]]

SumOver(f) == MapThenSumSet(LAMBDA x : f[x], DOMAIN f)

LEMMA SumsExist ==
    ASSUME NEW S, IsFiniteSet(S), NEW f \in [S -> Int]
    PROVE  \E g \in [SUBSET S -> Int] : Sums(g, f, S)
<1> DEFINE pick == [s \in SUBSET S |-> Pick(s)]
           step == [sv \in (SUBSET S) \X Int |->
                       IF sv[1] = {} THEN 0 ELSE f[Pick(sv[1])] + sv[2]]
<1>1. \A s \in SUBSET S : s # {} => Pick(s) \in s
  BY DEF Pick
<1>2. Picks(pick, S)
  BY <1>1 DEF Picks
<1>3. step \in [(SUBSET S) \X Int -> Int]
  BY <1>1
<1>4. PICK g \in [SUBSET S -> Int] : FoldsOn(g, 0, step, pick, S)
  <2>1. 0 \in Int
    OBVIOUS
  <2> HIDE DEF step, pick
  <2> QED
    BY <1>2, <1>3, <2>1, FoldExists
<1>5. ASSUME NEW s \in SUBSET S, s # {}
      PROVE  g[s] = f[Pick(s)] + g[s \ {Pick(s)}]
  <2>1. s \ {Pick(s)} \in SUBSET S
    OBVIOUS
  <2>2. g[s] = step[<<s, g[s \ {Pick(s)}]>>]
    BY <1>4, <1>5 DEF FoldsOn
  <2> QED
    BY <1>5, <2>1, <2>2
<1>6. g[{}] = 0
  BY <1>4 DEF FoldsOn
<1> QED
  BY <1>5, <1>6 DEF Sums

LEMMA SumsUnique ==
    ASSUME NEW S, IsFiniteSet(S), NEW f, NEW g, Sums(g, f, S), NEW h, Sums(h, f, S)
    PROVE  g = h
<1> DEFINE C == {s \in SUBSET S : g[s] = h[s]}
<1>1. \A s \in SUBSET S : s # {} => Pick(s) \in s
  BY DEF Pick
<1>2. ASSUME NEW T \in SUBSET S, \A R \in SUBSET T : R # T => R \in C
      PROVE  T \in C
  <2>1. CASE T = {}
    BY <2>1 DEF Sums
  <2>2. CASE T # {}
    <3>1. g[T \ {Pick(T)}] = h[T \ {Pick(T)}]
      BY <1>1, <1>2, <2>2
    <3>2. /\ g[T] = f[Pick(T)] + g[T \ {Pick(T)}]
          /\ h[T] = f[Pick(T)] + h[T \ {Pick(T)}]
      BY <2>2 DEF Sums
    <3> QED
      BY <3>1, <3>2
  <2> QED
    BY <2>1, <2>2
<1>3. SUBSET S \subseteq C
  <2> HIDE DEF C
  <2> QED
    BY <1>2, SubsetInduction
<1> QED
  BY <1>3 DEF Sums

LEMMA SumOverIs ==
    ASSUME NEW S, IsFiniteSet(S), NEW f \in [S -> Int], NEW g, Sums(g, f, S)
    PROVE  SumOver(f) = g[S]
<1> DEFINE Iter(x) ==
        x = [s \in SUBSET S |->
               IF s = {} THEN 0
               ELSE f[CHOOSE y \in s : TRUE] + x[s \ {CHOOSE y \in s : TRUE}]]
<1>1. PICK it : it = (CHOOSE x : Iter(x)) /\ SumOver(f) = it[S]
  BY DEF SumOver, MapThenSumSet, MapThenFoldSet
<1>2. Sums(it, f, S)
  <2>1. Iter(g)
    BY DEF Sums, Pick
  <2>2. Iter(it)
    <3> HIDE DEF Iter
    <3> QED
      BY <1>1, <2>1
  <2> QED
    BY <2>2 DEF Sums, Pick
<1> QED
  BY <1>1, <1>2, SumsUnique

(* The order of summation does not matter.                                 *)
Splits(g, f, S) == \A T \in SUBSET S : \A x \in T : g[T] = f[x] + g[T \ {x}]

LEMMA SumsSplit ==
    ASSUME NEW S, IsFiniteSet(S), NEW f \in [S -> Int], NEW g \in [SUBSET S -> Int],
           Sums(g, f, S)
    PROVE  Splits(g, f, S)
<1> DEFINE C == {T \in SUBSET S : \A x \in T : g[T] = f[x] + g[T \ {x}]}
<1>1. \A s \in SUBSET S : s # {} => Pick(s) \in s
  BY DEF Pick
<1>2. \A s \in SUBSET S : s # {} => g[s] = f[Pick(s)] + g[s \ {Pick(s)}]
  BY DEF Sums
<1>3. ASSUME NEW T \in SUBSET S, \A R \in SUBSET T : R # T => R \in C
      PROVE  T \in C
  <2> SUFFICES ASSUME NEW x \in T PROVE g[T] = f[x] + g[T \ {x}]
    OBVIOUS
  <2> DEFINE y == Pick(T)
  <2>1. y \in T /\ g[T] = f[y] + g[T \ {y}]
    BY <1>1, <1>2
  <2>2. CASE x = y
    BY <2>1, <2>2
  <2>3. CASE x # y
    <3>1. T \ {y} \in C /\ x \in T \ {y} /\ T \ {x} \in C /\ y \in T \ {x}
      BY <1>3, <2>1, <2>3
    <3>2. g[T \ {y}] = f[x] + g[(T \ {y}) \ {x}]
      BY <3>1
    <3>3. g[T \ {x}] = f[y] + g[(T \ {x}) \ {y}]
      BY <3>1
    <3>4. (T \ {y}) \ {x} = (T \ {x}) \ {y}
      OBVIOUS
    <3>5. PICK n \in Int : n = g[(T \ {x}) \ {y}]
      OBVIOUS
    <3>6. f[x] \in Int /\ f[y] \in Int
      BY <2>1
    <3>7. g[T] = f[y] + (f[x] + n)
      BY <2>1, <3>2, <3>4, <3>5
    <3>8. g[T \ {x}] = f[y] + n
      BY <3>3, <3>5
    <3> QED
      BY <3>6, <3>7, <3>8
  <2> QED
    BY <2>2, <2>3
<1>4. SUBSET S \subseteq C
  <2> HIDE DEF C
  <2> QED
    BY <1>3, SubsetInduction
<1> QED
  BY <1>4 DEF Splits

-----------------------------------------------------------------------------
(* What the sums of functions are used for.                                *)
LEMMA SumType ==
    ASSUME NEW S, IsFiniteSet(S), NEW f \in [S -> Int]
    PROVE  SumOver(f) \in Int
<1>1. PICK g \in [SUBSET S -> Int] : Sums(g, f, S)
  BY SumsExist
<1>2. SumOver(f) = g[S]
  BY <1>1, SumOverIs
<1> QED
  BY <1>2

LEMMA SumEmpty ==
    ASSUME NEW f \in [{} -> Int]
    PROVE  SumOver(f) = 0
<1>1. IsFiniteSet({})
  BY FS_EmptySet
<1>2. PICK g \in [SUBSET {} -> Int] : Sums(g, f, {})
  BY <1>1, SumsExist
<1>3. g[{}] = 0
  BY <1>2 DEF Sums
<1> QED
  BY <1>1, <1>2, <1>3, SumOverIs

LEMMA SumSplit ==
    ASSUME NEW S, IsFiniteSet(S), NEW f \in [S -> Int], NEW x \in S
    PROVE  SumOver(f) = f[x] + SumOver([y \in S \ {x} |-> f[y]])
<1>1. PICK g \in [SUBSET S -> Int] : Sums(g, f, S)
  BY SumsExist
<1>2. SumOver(f) = f[x] + g[S \ {x}]
  <2>1. SumOver(f) = g[S]
    BY <1>1, SumOverIs
  <2>2. Splits(g, f, S)
    BY <1>1, SumsSplit
  <2> QED
    BY <2>1, <2>2 DEF Splits
<1> DEFINE R == S \ {x}
           r == [y \in R |-> f[y]]
<1>3. IsFiniteSet(R) /\ r \in [R -> Int]
  BY FS_Subset
<1> DEFINE h == [s \in SUBSET R |-> g[s]]
<1>4. Sums(h, r, R)
  <2>1. \A s \in SUBSET R : s # {} => Pick(s) \in s
    BY DEF Pick
  <2>2. ASSUME NEW s \in SUBSET R
        PROVE  h[s] = IF s = {} THEN 0 ELSE r[Pick(s)] + h[s \ {Pick(s)}]
    <3>1. s \in SUBSET S
      OBVIOUS
    <3>2. g[s] = IF s = {} THEN 0 ELSE f[Pick(s)] + g[s \ {Pick(s)}]
      BY <1>1, <3>1 DEF Sums
    <3>3. s # {} => r[Pick(s)] = f[Pick(s)] /\ h[s \ {Pick(s)}] = g[s \ {Pick(s)}]
      BY <2>1
    <3> QED
      BY <3>2, <3>3
  <2> QED
    BY <2>2 DEF Sums
<1>5. SumOver(r) = h[R]
  <2> HIDE DEF h, r, R
  <2> QED
    BY <1>3, <1>4, SumOverIs
<1> QED
  BY <1>2, <1>5

LEMMA SumAdd ==
    ASSUME NEW S, IsFiniteSet(S), NEW f \in [S -> Int], NEW x, x \notin S,
           NEW h \in [S \cup {x} -> Int], \A y \in S : h[y] = f[y]
    PROVE  SumOver(h) = SumOver(f) + h[x]
<1>1. IsFiniteSet(S \cup {x})
  BY FS_AddElement
<1>2. f = [y \in (S \cup {x}) \ {x} |-> h[y]]
  OBVIOUS
<1>3. SumOver(h) = h[x] + SumOver(f)
  BY <1>1, <1>2, SumSplit
<1>4. SumOver(f) \in Int /\ h[x] \in Int
  BY SumType
<1> QED
  BY <1>3, <1>4

LEMMA SumChange ==
    ASSUME NEW S, IsFiniteSet(S), NEW f \in [S -> Int], NEW h \in [S -> Int],
           NEW x \in S, \A y \in S \ {x} : h[y] = f[y]
    PROVE  SumOver(h) = SumOver(f) + h[x] - f[x]
<1> DEFINE R == S \ {x}
           r == [y \in R |-> f[y]]
<1>1. SumOver(f) = f[x] + SumOver(r)
  BY SumSplit
<1>2. r = [y \in R |-> h[y]]
  OBVIOUS
<1>3. SumOver(h) = h[x] + SumOver(r)
  BY <1>2, SumSplit
<1>4. IsFiniteSet(R) /\ r \in [R -> Int]
  BY FS_Subset
<1>5. SumOver(r) \in Int
  BY <1>4, SumType
<1>6. h[x] \in Int /\ f[x] \in Int
  OBVIOUS
<1> HIDE DEF r
<1> QED
  BY <1>1, <1>3, <1>5, <1>6

LEMMA SumSingle ==
    ASSUME NEW x, NEW f \in [{x} -> Int]
    PROVE  SumOver(f) = f[x]
<1> DEFINE r == [y \in {x} \ {x} |-> f[y]]
<1>1. IsFiniteSet({x})
  BY FS_Singleton
<1>2. SumOver(f) = f[x] + SumOver(r)
  BY <1>1, SumSplit
<1>3. r \in [{} -> Int]
  OBVIOUS
<1>4. SumOver(r) = 0
  BY <1>3, SumEmpty
<1> QED
  BY <1>2, <1>4
=============================================================================
