----------------------------- MODULE Sums_proofs -----------------------------
(***************************************************************************)
(* What SumFunctionOnSet (community module Functions) computes.  It folds  *)
(* a function over a set in the order in which CHOOSE picks the elements:  *)
(* the lemmas say that the sum exists for a finite set, that the order     *)
(* does not matter and how the sum changes with the set.  Induction is by  *)
(* a least counterexample.                                                 *)
(***************************************************************************)
EXTENDS Functions, FiniteSetTheorems, WellFoundedInduction, TLAPS

(* A set of natural numbers that is not empty has a least element.         *)
LEMMA LeastNat ==
    ASSUME NEW B \in SUBSET Nat, B # {}
    PROVE  \E n \in B : \A m \in B : n <= m
<1>1. PICK n \in B : \A m \in B : ~(<<m, n>> \in OpToRel(<, Nat))
  BY WFMin, NatLessThanWellFounded
<1>2. \A m \in B : ~(m < n)
  BY <1>1 DEF OpToRel
<1> QED
  BY <1>2

Pick(s) == CHOOSE x \in s : TRUE

(* g is the sum of fun over each set of T, by the recursion of the fold.   *)
SumsOver(g, fun, T) ==
    \A s \in T : g[s] = IF s = {} THEN 0 ELSE fun[Pick(s)] + g[s \ {Pick(s)}]

(* The element picked and what remains.                                    *)
LEMMA PickLemma ==
    ASSUME NEW S, IsFiniteSet(S), NEW s \in SUBSET S, s # {}
    PROVE  /\ Pick(s) \in s /\ s \ {Pick(s)} \in SUBSET S
           /\ Cardinality(s) \in Nat /\ Cardinality(s \ {Pick(s)}) \in Nat
           /\ Cardinality(s \ {Pick(s)}) = Cardinality(s) - 1
<1>1. Pick(s) \in s
  BY DEF Pick
<1>2. IsFiniteSet(s)
  BY FS_Subset
<1> QED
  BY <1>1, <1>2, FS_RemoveElement, FS_CardinalityType

(* There is such a function, by induction on the size of the sets.         *)
LEMMA SumsExist ==
    ASSUME NEW S, IsFiniteSet(S), NEW fun, \A x \in S : fun[x] \in Int
    PROVE  \E g \in [SUBSET S -> Int] : SumsOver(g, fun, SUBSET S)
<1> DEFINE Level(n) == {s \in SUBSET S : Cardinality(s) <= n}
           B == {n \in Nat : ~\E g \in [Level(n) -> Int] : SumsOver(g, fun, Level(n))}
<1>1. \A s \in SUBSET S : Cardinality(s) \in Nat /\ IsFiniteSet(s)
  BY FS_Subset, FS_CardinalityType
<1>2. 0 \notin B
  <2> DEFINE g == [s \in Level(0) |-> 0]
  <2>1. \A s \in Level(0) : s = {}
    BY <1>1, FS_EmptySet
  <2>2. g \in [Level(0) -> Int] /\ SumsOver(g, fun, Level(0))
    BY <2>1 DEF SumsOver
  <2> QED
    BY <2>2
<1>3. ASSUME NEW n \in Nat \ {0}, n - 1 \notin B PROVE n \notin B
  <2>1. PICK g \in [Level(n - 1) -> Int] : SumsOver(g, fun, Level(n - 1))
    <3>1. n - 1 \in Nat
      OBVIOUS
    <3> HIDE DEF Level
    <3> QED
      BY <1>3, <3>1
  <2> DEFINE h == [s \in Level(n) |-> IF s = {} THEN 0 ELSE fun[Pick(s)] + g[s \ {Pick(s)}]]
  <2>2. ASSUME NEW s \in Level(n), s # {}
        PROVE  s \ {Pick(s)} \in Level(n - 1) /\ fun[Pick(s)] \in Int
    BY <2>2, PickLemma
  <2>3. Level(n - 1) \subseteq Level(n)
    BY <1>1
  <2>4. \A s \in Level(n - 1) : h[s] = g[s]
    BY <2>1, <2>3 DEF SumsOver
  <2>5. h \in [Level(n) -> Int]
    <3> SUFFICES ASSUME NEW s \in Level(n)
                 PROVE  (IF s = {} THEN 0 ELSE fun[Pick(s)] + g[s \ {Pick(s)}]) \in Int
      OBVIOUS
    <3>1. CASE s = {}
      BY <3>1
    <3>2. CASE s # {}
      <4>1. s \ {Pick(s)} \in Level(n - 1) /\ fun[Pick(s)] \in Int
        BY <2>2, <3>2
      <4>2. g[s \ {Pick(s)}] \in Int
        BY <2>1, <4>1
      <4> HIDE DEF Level
      <4> QED
        BY <3>2, <4>1, <4>2
    <3> QED
      BY <3>1, <3>2
  <2>6. SumsOver(h, fun, Level(n))
    <3> SUFFICES ASSUME NEW s \in Level(n)
                 PROVE  h[s] = IF s = {} THEN 0 ELSE fun[Pick(s)] + h[s \ {Pick(s)}]
      BY DEF SumsOver
    <3>1. CASE s = {}
      BY <3>1
    <3>2. CASE s # {}
      <4>1. h[s \ {Pick(s)}] = g[s \ {Pick(s)}]
        BY <2>2, <2>4, <3>2
      <4>2. h[s] = fun[Pick(s)] + g[s \ {Pick(s)}]
        BY <3>2
      <4> QED
        BY <3>2, <4>1, <4>2
    <3> QED
      BY <3>1, <3>2
  <2> QED
    BY <2>5, <2>6
<1>4. B = {}
  <2> SUFFICES ASSUME B # {} PROVE FALSE
    OBVIOUS
  <2> HIDE DEF B
  <2>1. PICK n \in B : \A m \in B : n <= m
    <3>1. B \in SUBSET Nat
      BY DEF B
    <3> QED
      BY <3>1, LeastNat
  <2>2. n \in Nat \ {0}
    BY <1>2 DEF B
  <2>3. n - 1 \notin B
    BY <2>1, <2>2
  <2> QED
    BY <1>3, <2>2, <2>3
<1>5. Cardinality(S) \in Nat /\ Level(Cardinality(S)) = SUBSET S
  BY FS_Subset, FS_CardinalityType
<1>6. Cardinality(S) \notin B
  BY <1>4
<1> QED
  BY <1>5, <1>6

(* Functions that agree on a set have the same sums over its subsets.      *)
LEMMA SumsAgree ==
    ASSUME NEW S, IsFiniteSet(S), NEW fun, NEW gun, \A x \in S : fun[x] = gun[x],
           NEW g, SumsOver(g, fun, SUBSET S), NEW h, SumsOver(h, gun, SUBSET S)
    PROVE  \A s \in SUBSET S : g[s] = h[s]
<1> DEFINE B == {Cardinality(s) : s \in {r \in SUBSET S : g[r] # h[r]}}
<1>1. \A s \in SUBSET S : Cardinality(s) \in Nat
  BY FS_Subset, FS_CardinalityType
<1> SUFFICES ASSUME B # {} PROVE FALSE
  OBVIOUS
<1>2. PICK n \in B : \A m \in B : n <= m
  <2>1. B \in SUBSET Nat
    BY <1>1
  <2> HIDE DEF B
  <2> QED
    BY <2>1, LeastNat
<1>3. PICK s \in SUBSET S : g[s] # h[s] /\ Cardinality(s) = n
  OBVIOUS
<1>4. s # {}
  BY <1>3 DEF SumsOver
<1>5. /\ Pick(s) \in S /\ s \ {Pick(s)} \in SUBSET S
      /\ n \in Nat /\ Cardinality(s \ {Pick(s)}) = n - 1
  BY <1>3, <1>4, PickLemma
<1>6. g[s \ {Pick(s)}] = h[s \ {Pick(s)}]
  <2> SUFFICES ASSUME g[s \ {Pick(s)}] # h[s \ {Pick(s)}] PROVE FALSE
    OBVIOUS
  <2>1. n - 1 \in B
    BY <1>5
  <2> HIDE DEF B
  <2> QED
    BY <1>2, <1>5, <2>1
<1>7. /\ g[s] = fun[Pick(s)] + g[s \ {Pick(s)}]
      /\ h[s] = gun[Pick(s)] + h[s \ {Pick(s)}]
  BY <1>4 DEF SumsOver
<1> QED
  BY <1>3, <1>5, <1>6, <1>7

Fold(fun, S) ==
    CHOOSE g : g = [s \in SUBSET S |->
                      IF s = {} THEN 0 ELSE fun[Pick(s)] + g[s \ {Pick(s)}]]

(* The fold is a function that sums.                                       *)
LEMMA FoldSums ==
    ASSUME NEW S, IsFiniteSet(S), NEW fun, \A x \in S : fun[x] \in Int
    PROVE  /\ SumFunctionOnSet(fun, S) = Fold(fun, S)[S]
           /\ SumsOver(Fold(fun, S), fun, SUBSET S)
           /\ \A s \in SUBSET S : Fold(fun, S)[s] \in Int
<1>1. SumFunctionOnSet(fun, S) = Fold(fun, S)[S]
  BY DEF SumFunctionOnSet, FoldFunctionOnSet, MapThenFoldSet, Pick, Fold
<1>2. PICK g \in [SUBSET S -> Int] : SumsOver(g, fun, SUBSET S)
  BY SumsExist
<1>3. g = [s \in SUBSET S |-> IF s = {} THEN 0 ELSE fun[Pick(s)] + g[s \ {Pick(s)}]]
  BY <1>2 DEF SumsOver
<1> DEFINE f == Fold(fun, S)
<1>4. f = [s \in SUBSET S |-> IF s = {} THEN 0 ELSE fun[Pick(s)] + f[s \ {Pick(s)}]]
  BY <1>3 DEF Fold
<1> HIDE DEF f
<1>5. SumsOver(f, fun, SUBSET S)
  BY <1>4 DEF SumsOver
<1>6. \A s \in SUBSET S : f[s] = g[s]
  BY <1>2, <1>5, SumsAgree
<1> QED
  BY <1>1, <1>2, <1>5, <1>6 DEF f

(* The sum over a subset is what the fold over the whole set has for it.   *)
LEMMA SumOfSubset ==
    ASSUME NEW S, IsFiniteSet(S), NEW fun, \A x \in S : fun[x] \in Int,
           NEW s \in SUBSET S
    PROVE  SumFunctionOnSet(fun, s) = Fold(fun, S)[s]
<1>1. IsFiniteSet(s)
  BY FS_Subset
<1>2. SumsOver(Fold(fun, S), fun, SUBSET s)
  <2>1. SumsOver(Fold(fun, S), fun, SUBSET S)
    BY FoldSums
  <2>2. SUBSET s \subseteq SUBSET S
    OBVIOUS
  <2> QED
    BY <2>1, <2>2 DEF SumsOver
<1>3. SumsOver(Fold(fun, s), fun, SUBSET s) /\ SumFunctionOnSet(fun, s) = Fold(fun, s)[s]
  BY <1>1, FoldSums
<1> QED
  BY <1>1, <1>2, <1>3, SumsAgree

(* A sum of integers is an integer, of no elements zero, and depends only  *)
(* on the values of the function on the set.                               *)
LEMMA SumType ==
    ASSUME NEW S, IsFiniteSet(S), NEW fun, \A x \in S : fun[x] \in Int
    PROVE  SumFunctionOnSet(fun, S) \in Int
BY FoldSums

(* The sum over no elements.                                               *)
LEMMA SumEmpty ==
    ASSUME NEW fun
    PROVE  SumFunctionOnSet(fun, {}) = 0
<1>1. IsFiniteSet({})
  BY FS_EmptySet
<1> QED
  BY <1>1, FoldSums DEF SumsOver

(* The sum depends only on the values of the function on the set.          *)
LEMMA SumCongruence ==
    ASSUME NEW S, IsFiniteSet(S), NEW fun, \A x \in S : fun[x] \in Int,
           NEW gun, \A x \in S : fun[x] = gun[x]
    PROVE  SumFunctionOnSet(fun, S) = SumFunctionOnSet(gun, S)
<1>1. /\ SumFunctionOnSet(fun, S) = Fold(fun, S)[S] /\ SumsOver(Fold(fun, S), fun, SUBSET S)
      /\ SumFunctionOnSet(gun, S) = Fold(gun, S)[S] /\ SumsOver(Fold(gun, S), gun, SUBSET S)
  <2>1. \A x \in S : gun[x] \in Int
    OBVIOUS
  <2> QED
    BY <2>1, FoldSums
<1>2. Fold(fun, S)[S] = Fold(gun, S)[S]
  BY <1>1, SumsAgree
<1> QED
  BY <1>1, <1>2

(* Any element may be taken first: the order of the fold does not matter.  *)
LEMMA SumRemove ==
    ASSUME NEW S, IsFiniteSet(S), NEW fun, \A x \in S : fun[x] \in Int, NEW x \in S
    PROVE  SumFunctionOnSet(fun, S) = fun[x] + SumFunctionOnSet(fun, S \ {x})
<1> DEFINE f == Fold(fun, S)
           B == {Cardinality(s) : s \in {r \in SUBSET S :
                    \E y \in r : f[r] # fun[y] + f[r \ {y}]}}
<1>1. /\ \A s \in SUBSET S : Cardinality(s) \in Nat /\ IsFiniteSet(s)
      /\ \A s \in SUBSET S : f[s] \in Int
      /\ SumsOver(f, fun, SUBSET S)
  BY FS_Subset, FS_CardinalityType, FoldSums
<1> HIDE DEF f
<1>2. B = {}
  <2> SUFFICES ASSUME B # {} PROVE FALSE
    OBVIOUS
  <2>1. PICK n \in B : \A m \in B : n <= m
    <3>1. B \in SUBSET Nat
      BY <1>1
    <3> HIDE DEF B
    <3> QED
      BY <3>1, LeastNat
  <2>2. PICK s \in SUBSET S : Cardinality(s) = n /\ \E y \in s : f[s] # fun[y] + f[s \ {y}]
    OBVIOUS
  <2>3. PICK y \in s : f[s] # fun[y] + f[s \ {y}]
    BY <2>2
  <2> DEFINE p == Pick(s)
  <2>4. p \in s /\ n \in Nat
    BY <2>2, <2>3, PickLemma
  <2>5. f[s] = fun[p] + f[s \ {p}]
    BY <1>1, <2>3 DEF SumsOver
  <2>6. p # y
    BY <2>3, <2>5
  <2>7. Cardinality(s \ {p}) = n - 1 /\ Cardinality(s \ {y}) = n - 1
    BY <1>1, <2>2, <2>4, FS_RemoveElement
  <2>8. n - 1 \notin B
    <3> HIDE DEF B
    <3> QED
      BY <2>1, <2>4
  <2> HIDE DEF p
  <2>9. f[s \ {p}] = fun[y] + f[(s \ {p}) \ {y}]
    <3>1. s \ {p} \in SUBSET S /\ y \in s \ {p}
      BY <2>6
    <3> QED
      BY <2>7, <2>8, <3>1
  <2>10. f[s \ {y}] = fun[p] + f[(s \ {y}) \ {p}]
    <3>1. s \ {y} \in SUBSET S /\ p \in s \ {y}
      BY <2>4, <2>6
    <3> QED
      BY <2>7, <2>8, <3>1
  <2>11. (s \ {p}) \ {y} = (s \ {y}) \ {p}
    OBVIOUS
  <2>12. fun[y] \in Int /\ fun[p] \in Int /\ f[(s \ {y}) \ {p}] \in Int
    BY <1>1, <2>4
  <2>13. ASSUME NEW a \in Int, NEW b \in Int, NEW c \in Int
         PROVE  a + (b + c) = b + (a + c)
    OBVIOUS
  <2>14. f[s] = fun[p] + (fun[y] + f[(s \ {y}) \ {p}])
    BY <2>5, <2>9, <2>11
  <2>15. fun[y] + f[s \ {y}] = fun[y] + (fun[p] + f[(s \ {y}) \ {p}])
    BY <2>10
  <2>16. f[s] = fun[y] + f[s \ {y}]
    BY <2>12, <2>13, <2>14, <2>15
  <2> QED
    BY <2>3, <2>16
<1>3. f[S] = fun[x] + f[S \ {x}]
  BY <1>2
<1>4. SumFunctionOnSet(fun, S) = f[S] /\ SumFunctionOnSet(fun, S \ {x}) = f[S \ {x}]
  BY SumOfSubset DEF f
<1> QED
  BY <1>3, <1>4

(* One element more.                                                       *)
LEMMA SumAdd ==
    ASSUME NEW S, IsFiniteSet(S), NEW x, x \notin S,
           NEW fun, \A y \in S \cup {x} : fun[y] \in Int
    PROVE  SumFunctionOnSet(fun, S \cup {x}) = SumFunctionOnSet(fun, S) + fun[x]
<1>1. IsFiniteSet(S \cup {x}) /\ (S \cup {x}) \ {x} = S
  BY FS_AddElement
<1>2. SumFunctionOnSet(fun, S \cup {x}) = fun[x] + SumFunctionOnSet(fun, (S \cup {x}) \ {x})
  BY <1>1, SumRemove
<1>3. SumFunctionOnSet(fun, S) \in Int
  BY SumType
<1>4. fun[x] \in Int
  OBVIOUS
<1>5. SumFunctionOnSet(fun, S \cup {x}) = fun[x] + SumFunctionOnSet(fun, S)
  BY <1>1, <1>2
<1> QED
  BY <1>3, <1>4, <1>5
(* The sum over one element.                                               *)
LEMMA SumOne ==
    ASSUME NEW x, NEW fun, fun[x] \in Int
    PROVE  SumFunctionOnSet(fun, {x}) = fun[x]
<1>1. IsFiniteSet({}) /\ {} \cup {x} = {x} /\ SumFunctionOnSet(fun, {}) = 0
  BY FS_EmptySet, SumEmpty
<1>2. x \notin {} /\ \A y \in {} \cup {x} : fun[y] \in Int
  OBVIOUS
<1>3. SumFunctionOnSet(fun, {} \cup {x}) = SumFunctionOnSet(fun, {}) + fun[x]
  BY <1>1, <1>2, SumAdd
<1> QED
  BY <1>1, <1>3

(* The sum over two disjoint sets.                                         *)
LEMMA SumUnion ==
    ASSUME NEW S, IsFiniteSet(S), NEW T, IsFiniteSet(T), S \cap T = {},
           NEW fun, \A x \in S \cup T : fun[x] \in Int
    PROVE  SumFunctionOnSet(fun, S \cup T) = SumFunctionOnSet(fun, S) + SumFunctionOnSet(fun, T)
<1> DEFINE Sum(r) == SumFunctionOnSet(fun, r)
           Adds(r) == Sum(S \cup r) = Sum(S) + Sum(r)
           B == {Cardinality(s) : s \in {r \in SUBSET T : ~Adds(r)}}
<1>1. \A r \in SUBSET T : /\ Cardinality(r) \in Nat /\ IsFiniteSet(r) /\ IsFiniteSet(S \cup r)
                          /\ Sum(r) \in Int /\ Sum(S \cup r) \in Int
  <2> TAKE r \in SUBSET T
  <2>1. IsFiniteSet(r) /\ Cardinality(r) \in Nat
    BY FS_Subset, FS_CardinalityType
  <2>2. IsFiniteSet(S \cup r)
    BY <2>1, FS_Union
  <2> QED
    BY <2>1, <2>2, SumType
<1>2. Sum(S) \in Int
  BY SumType
<1> SUFFICES ASSUME B # {} PROVE FALSE
  OBVIOUS
<1>3. PICK n \in B : \A m \in B : n <= m
  <2>1. B \in SUBSET Nat
    BY <1>1
  <2> HIDE DEF B
  <2> QED
    BY <2>1, LeastNat
<1>4. PICK r \in SUBSET T : ~Adds(r) /\ Cardinality(r) = n
  OBVIOUS
<1>5. r # {}
  <2>1. Sum({}) = 0 /\ S \cup {} = S
    BY SumEmpty
  <2>2. Adds({})
    BY <1>2, <2>1
  <2> QED
    BY <1>4, <2>2
<1>6. PICK x \in r : TRUE
  BY <1>5
<1>7. n \in Nat /\ Cardinality(r \ {x}) = n - 1
  BY <1>1, <1>4, FS_RemoveElement
<1>8. Adds(r \ {x})
  <2> SUFFICES ASSUME ~Adds(r \ {x}) PROVE FALSE
    OBVIOUS
  <2>1. n - 1 \in B
    BY <1>7
  <2> HIDE DEF B
  <2> QED
    BY <1>3, <1>7, <2>1
<1>9. Sum(r) = fun[x] + Sum(r \ {x})
  BY <1>1, SumRemove
<1>10. Sum(S \cup r) = fun[x] + Sum(S \cup (r \ {x}))
  <2>1. (S \cup r) \ {x} = S \cup (r \ {x})
    OBVIOUS
  <2>2. Sum(S \cup r) = fun[x] + Sum((S \cup r) \ {x})
    BY <1>1, SumRemove
  <2> QED
    BY <2>1, <2>2
<1>11. Sum(r \ {x}) \in Int /\ fun[x] \in Int
  BY <1>1
<1>12. Sum(S \cup (r \ {x})) = Sum(S) + Sum(r \ {x})
  BY <1>8
<1> HIDE DEF Sum
<1>13. fun[x] + (Sum(S) + Sum(r \ {x})) = Sum(S) + (fun[x] + Sum(r \ {x}))
  BY <1>2, <1>11
<1>14. Sum(S \cup r) = Sum(S) + Sum(r)
  BY <1>9, <1>10, <1>12, <1>13
<1> QED
  BY <1>4, <1>14 DEF Sum

(* A sum of natural numbers is one.                                        *)
LEMMA SumNat ==
    ASSUME NEW S, IsFiniteSet(S), NEW fun, \A x \in S : fun[x] \in Nat
    PROVE  SumFunctionOnSet(fun, S) \in Nat
<1> DEFINE Sum(r) == SumFunctionOnSet(fun, r)
           B == {Cardinality(s) : s \in {r \in SUBSET S : Sum(r) \notin Nat}}
<1>1. \A r \in SUBSET S : Cardinality(r) \in Nat /\ IsFiniteSet(r)
  BY FS_Subset, FS_CardinalityType
<1> SUFFICES ASSUME B # {} PROVE FALSE
  OBVIOUS
<1>3. PICK n \in B : \A m \in B : n <= m
  <2>1. B \in SUBSET Nat
    BY <1>1
  <2> HIDE DEF B
  <2> QED
    BY <2>1, LeastNat
<1>4. PICK r \in SUBSET S : Sum(r) \notin Nat /\ Cardinality(r) = n
  OBVIOUS
<1>5. r # {}
  BY <1>4, SumEmpty
<1>6. PICK x \in r : TRUE
  BY <1>5
<1>7. n \in Nat /\ Cardinality(r \ {x}) = n - 1
  BY <1>1, <1>4, FS_RemoveElement
<1>8. Sum(r \ {x}) \in Nat
  <2> SUFFICES ASSUME Sum(r \ {x}) \notin Nat PROVE FALSE
    OBVIOUS
  <2>1. n - 1 \in B
    BY <1>7
  <2> HIDE DEF B
  <2> QED
    BY <1>3, <1>7, <2>1
<1>9. Sum(r) = fun[x] + Sum(r \ {x})
  BY <1>1, SumRemove
<1>10. fun[x] \in Nat
  OBVIOUS
<1> QED
  BY <1>4, <1>8, <1>9, <1>10

(* SumFunction, by the values of another function.                         *)
LEMMA SumIs ==
    ASSUME NEW S, IsFiniteSet(S), NEW fun, DOMAIN fun = S, \A x \in S : fun[x] \in Int,
           NEW gun, \A x \in S : fun[x] = gun[x]
    PROVE  SumFunction(fun) = SumFunctionOnSet(gun, S)
BY SumCongruence DEF SumFunction
==============================================================================
