---------------------------- MODULE SumsAndMaxima -----------------------------
(***************************************************************************)
(* Lemmas about what the models compute over finite sets: the sum of a     *)
(* function (SumFunctionOnSet of the module Functions) and the largest     *)
(* element of a set of numbers (Max of FiniteSetsExt).                     *)
(*                                                                         *)
(* A sum is a recursive function, so that each lemma is an induction over  *)
(* the set.  It is carried out as the choice of a minimal subset for which *)
(* the lemma would fail (MinimalSubset).                                   *)
(***************************************************************************)
EXTENDS Integers, Functions, FiniteSetsExt, FiniteSetTheorems, TLAPS

(* Of some subsets of a finite set one has no strict subset among them.    *)
LEMMA MinimalSubset ==
    ASSUME NEW S, IsFiniteSet(S), NEW C, C \subseteq SUBSET S, C # {}
    PROVE  \E s \in C : \A t \in SUBSET s : t # s => t \notin C
  <1>1. C \subseteq FiniteSubsetsOf(S)
    BY FS_Subset DEF FiniteSubsetsOf
  <1>2. \E s \in C : \A t \in C : ~ (<<t, s>> \in StrictSubsetOrdering(S))
    BY <1>1, FS_StrictSubsetOrderingWellFounded, WFMin
  <1> QED
    BY <1>2 DEF StrictSubsetOrdering

-----------------------------------------------------------------------------
(* The recursive function behind a sum *)

Pick(s) == CHOOSE x \in s : TRUE

Adds(f, S, g) ==
    g = [s \in SUBSET S |-> IF s = {} THEN 0 ELSE f[Pick(s)] + g[s \ {Pick(s)}]]

LEMMA SumIsAdded ==
    ASSUME NEW f, NEW S
    PROVE  SumFunctionOnSet(f, S) = (CHOOSE g : Adds(f, S, g))[S]
  BY DEF SumFunctionOnSet, FoldFunctionOnSet, MapThenFoldSet, Adds, Pick

LEMMA PickIsElement == \A s : s # {} => Pick(s) \in s
  BY DEF Pick

LEMMA AddsStep ==
    ASSUME NEW f, NEW S, NEW g, Adds(f, S, g), NEW s \in SUBSET S
    PROVE  g[s] = IF s = {} THEN 0 ELSE f[Pick(s)] + g[s \ {Pick(s)}]
  BY DEF Adds

(* What is added does not depend on the set that the function is for.      *)
LEMMA AddsAgree ==
    ASSUME NEW f, NEW S, NEW T, IsFiniteSet(S), S \subseteq T,
           NEW g, Adds(f, S, g), NEW h, Adds(f, T, h)
    PROVE  \A s \in SUBSET S : g[s] = h[s]
  <1> DEFINE C == {s \in SUBSET S : g[s] # h[s]}
  <1> SUFFICES ASSUME C # {} PROVE FALSE
    OBVIOUS
  <1>0. C \subseteq SUBSET S
    OBVIOUS
  <1> HIDE DEF C
  <1>1. PICK s \in C : \A t \in SUBSET s : t # s => t \notin C
    BY <1>0, MinimalSubset
  <1> USE DEF C
  <1>2. s \in SUBSET S /\ s \in SUBSET T
    OBVIOUS
  <1>3. g[s] = IF s = {} THEN 0 ELSE f[Pick(s)] + g[s \ {Pick(s)}]
    BY <1>2, AddsStep
  <1>4. h[s] = IF s = {} THEN 0 ELSE f[Pick(s)] + h[s \ {Pick(s)}]
    BY <1>2, AddsStep
  <1>5. s # {} => g[s \ {Pick(s)}] = h[s \ {Pick(s)}]
    BY <1>1, <1>2, PickIsElement
  <1> QED
    BY <1>3, <1>4, <1>5

(* There is such a function: its value at a set is put together from those *)
(* at the strict subsets.                                                  *)
LEMMA AddsExists ==
    ASSUME NEW f, NEW S, IsFiniteSet(S)
    PROVE  \E g : Adds(f, S, g)
  <1> DEFINE C == {s \in SUBSET S : ~ \E g : Adds(f, s, g)}
             value(s) == (CHOOSE g : Adds(f, s, g))[s]
             h(s) == [t \in SUBSET s |->
                        IF t = {} THEN 0 ELSE f[Pick(t)] + value(t \ {Pick(t)})]
  <1> SUFFICES ASSUME C # {} PROVE FALSE
    OBVIOUS
  <1>0. C \subseteq SUBSET S
    OBVIOUS
  <1> HIDE DEF C
  <1>1. PICK s \in C : \A t \in SUBSET s : t # s => t \notin C
    BY <1>0, MinimalSubset
  <1>2. s \in SUBSET S /\ ~ \E g : Adds(f, s, g)
    BY DEF C
  <1>3. \A t \in SUBSET s : t # s => Adds(f, t, CHOOSE g : Adds(f, t, g))
    BY <1>1, <1>2 DEF C
  <1>4. ASSUME NEW t \in SUBSET s, t # s, t # {}
        PROVE  value(t) = f[Pick(t)] + value(t \ {Pick(t)})
    <2> DEFINE g == CHOOSE g : Adds(f, t, g)
               k == CHOOSE k : Adds(f, t \ {Pick(t)}, k)
    <2>1. /\ t \ {Pick(t)} \in SUBSET s /\ t \ {Pick(t)} # s
          /\ IsFiniteSet(t) /\ IsFiniteSet(t \ {Pick(t)})
      BY <1>2, <1>4, PickIsElement, FS_Subset
    <2>2. Adds(f, t, g) /\ Adds(f, t \ {Pick(t)}, k)
      BY <1>3, <1>4, <2>1
    <2> HIDE DEF g, k
    <2>3. g[t] = f[Pick(t)] + g[t \ {Pick(t)}]
      <3>1. t \in SUBSET t
        OBVIOUS
      <3>2. g[t] = IF t = {} THEN 0 ELSE f[Pick(t)] + g[t \ {Pick(t)}]
        BY <2>2, <3>1, AddsStep
      <3> QED
        BY <1>4, <3>2
    <2>4. g[t \ {Pick(t)}] = k[t \ {Pick(t)}]
      <3>1. t \ {Pick(t)} \subseteq t
        OBVIOUS
      <3>2. \A u \in SUBSET (t \ {Pick(t)}) : k[u] = g[u]
        BY <2>1, <2>2, <3>1, AddsAgree
      <3> QED
        BY <3>2
    <2> QED
      BY <2>3, <2>4 DEF g, k
  <1> HIDE DEF value
  <1>5. \A t \in SUBSET s : t # s => h(s)[t] = value(t)
    <2> SUFFICES ASSUME NEW t \in SUBSET s, t # s PROVE h(s)[t] = value(t)
      OBVIOUS
    <2>1. CASE t # {}
      BY <1>4, <2>1
    <2>2. CASE t = {}
      BY <1>3, <2>2, AddsStep DEF value
    <2> QED
      BY <2>1, <2>2
  <1>6. \A t \in SUBSET s : t # {} => h(s)[t \ {Pick(t)}] = value(t \ {Pick(t)})
    BY <1>5, PickIsElement
  <1>7. Adds(f, s, h(s))
    BY <1>6 DEF Adds
  <1> QED
    BY <1>2, <1>7

-----------------------------------------------------------------------------
(* Sums *)

(* The sum over no element is nothing.                                     *)
LEMMA SumOfNone == \A f : SumFunctionOnSet(f, {}) = 0
  <1> SUFFICES ASSUME NEW f PROVE SumFunctionOnSet(f, {}) = 0
    OBVIOUS
  <1>1. IsFiniteSet({})
    BY FS_EmptySet
  <1>2. Adds(f, {}, CHOOSE g : Adds(f, {}, g))
    BY <1>1, AddsExists
  <1> QED
    BY <1>2, AddsStep, SumIsAdded

(* A sum is put together from an element and the sum of the others.        *)
LEMMA SumOfPicked ==
    ASSUME NEW f, NEW S, IsFiniteSet(S), S # {}
    PROVE  SumFunctionOnSet(f, S) = f[Pick(S)] + SumFunctionOnSet(f, S \ {Pick(S)})
  <1> DEFINE g == CHOOSE g : Adds(f, S, g)
             k == CHOOSE k : Adds(f, S \ {Pick(S)}, k)
  <1>1. IsFiniteSet(S \ {Pick(S)})
    BY FS_Subset
  <1>2. Adds(f, S, g) /\ Adds(f, S \ {Pick(S)}, k)
    BY <1>1, AddsExists
  <1>3. SumFunctionOnSet(f, S) = g[S] /\ SumFunctionOnSet(f, S \ {Pick(S)}) = k[S \ {Pick(S)}]
    BY SumIsAdded
  <1> HIDE DEF g, k
  <1>4. g[S] = f[Pick(S)] + g[S \ {Pick(S)}]
    BY <1>2, AddsStep
  <1>5. g[S \ {Pick(S)}] = k[S \ {Pick(S)}]
    BY <1>1, <1>2, AddsAgree
  <1> QED
    BY <1>3, <1>4, <1>5

(* A sum stays in a set that has 0 and is closed under addition.           *)
LEMMA SumStaysIn ==
    ASSUME NEW f, NEW S, IsFiniteSet(S), NEW N, 0 \in N, \A a, b \in N : a + b \in N,
           \A x \in S : f[x] \in N
    PROVE  SumFunctionOnSet(f, S) \in N
  <1> DEFINE C == {s \in SUBSET S : SumFunctionOnSet(f, s) \notin N}
  <1> SUFFICES ASSUME C # {} PROVE FALSE
    OBVIOUS
  <1>0. C \subseteq SUBSET S
    OBVIOUS
  <1> HIDE DEF C
  <1>1. PICK s \in C : \A t \in SUBSET s : t # s => t \notin C
    BY <1>0, MinimalSubset
  <1>2. s \in SUBSET S /\ IsFiniteSet(s) /\ SumFunctionOnSet(f, s) \notin N
    BY <1>0, FS_Subset DEF C
  <1>3. s # {}
    BY <1>2, SumOfNone
  <1>4. Pick(s) \in s /\ SumFunctionOnSet(f, s \ {Pick(s)}) \in N
    BY <1>1, <1>2, <1>3, PickIsElement DEF C
  <1>5. SumFunctionOnSet(f, s) = f[Pick(s)] + SumFunctionOnSet(f, s \ {Pick(s)})
    BY <1>2, <1>3, SumOfPicked
  <1>6. f[Pick(s)] \in N
    BY <1>2, <1>4
  <1> QED
    BY <1>2, <1>4, <1>5, <1>6

LEMMA SumIsInt ==
    ASSUME NEW f, NEW S, IsFiniteSet(S), \A x \in S : f[x] \in Int
    PROVE  SumFunctionOnSet(f, S) \in Int
  BY SumStaysIn

LEMMA SumIsNat ==
    ASSUME NEW f, NEW S, IsFiniteSet(S), \A x \in S : f[x] \in Nat
    PROVE  SumFunctionOnSet(f, S) \in Nat
  <1>1. 0 \in Nat /\ \A a, b \in Nat : a + b \in Nat
    OBVIOUS
  <1> QED
    BY <1>1, SumStaysIn, Zenon

(* Any element may be the one that is taken out.                           *)
LEMMA SumWithout ==
    ASSUME NEW f, NEW S, IsFiniteSet(S), \A x \in S : f[x] \in Int
    PROVE  \A x \in S : SumFunctionOnSet(f, S) = f[x] + SumFunctionOnSet(f, S \ {x})
  <1> DEFINE Fails(s, x) == SumFunctionOnSet(f, s) # f[x] + SumFunctionOnSet(f, s \ {x})
             C == {s \in SUBSET S : \E x \in s : Fails(s, x)}
  <1> SUFFICES ASSUME C # {} PROVE FALSE
    OBVIOUS
  <1>0. C \subseteq SUBSET S
    OBVIOUS
  <1> HIDE DEF C
  <1>1. PICK s \in C : \A t \in SUBSET s : t # s => t \notin C
    BY <1>0, MinimalSubset
  <1>2. s \in SUBSET S /\ IsFiniteSet(s)
    BY <1>0, FS_Subset
  <1>3. PICK x \in s : Fails(s, x)
    BY DEF C
  <1> DEFINE y == Pick(s)
             rest == s \ {x, y}
  <1>4. y \in s /\ SumFunctionOnSet(f, s) = f[y] + SumFunctionOnSet(f, s \ {y})
    BY <1>2, <1>3, SumOfPicked, PickIsElement
  <1> HIDE DEF y
  <1>5. x # y
    BY <1>3, <1>4
  <1>6. (s \ {y}) \ {x} = rest /\ (s \ {x}) \ {y} = rest
    OBVIOUS
  <1>7. \A z \in s : s \ {z} \in SUBSET S /\ s \ {z} \notin C
    BY <1>1, <1>2
  <1>8. SumFunctionOnSet(f, s \ {y}) = f[x] + SumFunctionOnSet(f, rest)
    BY <1>4, <1>5, <1>6, <1>7 DEF C
  <1>9. SumFunctionOnSet(f, s \ {x}) = f[y] + SumFunctionOnSet(f, rest)
    BY <1>4, <1>5, <1>6, <1>7 DEF C
  <1>10. SumFunctionOnSet(f, rest) \in Int
    <2>1. IsFiniteSet(rest) /\ \A z \in rest : f[z] \in Int
      BY <1>2, FS_Subset
    <2> HIDE DEF rest
    <2> QED
      BY <2>1, SumIsInt
  <1> QED
    BY <1>2, <1>3, <1>4, <1>8, <1>9, <1>10

(* Functions that agree on a set have the same sum over it.                *)
LEMMA SumsAgree ==
    ASSUME NEW f, NEW g, NEW S, IsFiniteSet(S), \A x \in S : f[x] = g[x]
    PROVE  SumFunctionOnSet(f, S) = SumFunctionOnSet(g, S)
  <1> DEFINE C == {s \in SUBSET S : SumFunctionOnSet(f, s) # SumFunctionOnSet(g, s)}
  <1> SUFFICES ASSUME C # {} PROVE FALSE
    OBVIOUS
  <1>0. C \subseteq SUBSET S
    OBVIOUS
  <1> HIDE DEF C
  <1>1. PICK s \in C : \A t \in SUBSET s : t # s => t \notin C
    BY <1>0, MinimalSubset
  <1>2. /\ s \in SUBSET S /\ IsFiniteSet(s)
        /\ SumFunctionOnSet(f, s) # SumFunctionOnSet(g, s)
    BY <1>0, FS_Subset DEF C
  <1>3. s # {}
    BY <1>2, SumOfNone
  <1>4. Pick(s) \in s
    BY <1>3, PickIsElement
  <1>5. SumFunctionOnSet(f, s \ {Pick(s)}) = SumFunctionOnSet(g, s \ {Pick(s)})
    BY <1>1, <1>2, <1>4 DEF C
  <1>6. /\ SumFunctionOnSet(f, s) = f[Pick(s)] + SumFunctionOnSet(f, s \ {Pick(s)})
        /\ SumFunctionOnSet(g, s) = g[Pick(s)] + SumFunctionOnSet(g, s \ {Pick(s)})
    BY <1>2, <1>3, SumOfPicked
  <1> QED
    BY <1>2, <1>4, <1>5, <1>6

(* When a function changes at one place, so does its sum.                  *)
LEMMA SumChanges ==
    ASSUME NEW S, IsFiniteSet(S), NEW f \in [S -> Int], NEW g \in [S -> Int], NEW x \in S,
           \A y \in S \ {x} : g[y] = f[y]
    PROVE  SumFunctionOnSet(g, S) = SumFunctionOnSet(f, S) + g[x] - f[x]
  <1> DEFINE rest == S \ {x}
  <1>1. IsFiniteSet(rest) /\ \A y \in rest : f[y] = g[y] /\ f[y] \in Int
    BY FS_Subset
  <1>2. /\ SumFunctionOnSet(f, S) = f[x] + SumFunctionOnSet(f, rest)
        /\ SumFunctionOnSet(g, S) = g[x] + SumFunctionOnSet(g, rest)
    BY SumWithout
  <1> HIDE DEF rest
  <1>3. SumFunctionOnSet(f, rest) = SumFunctionOnSet(g, rest)
    BY <1>1, SumsAgree
  <1>4. SumFunctionOnSet(f, rest) \in Int
    BY <1>1, SumIsInt
  <1> QED
    BY <1>2, <1>3, <1>4

-----------------------------------------------------------------------------
(* Maxima *)

(* A finite set of numbers that is not empty has a largest element.        *)
LEMMA LargestExists ==
    ASSUME NEW S, IsFiniteSet(S), S \subseteq Int, S # {}
    PROVE  \E x \in S : \A y \in S : x >= y
  <1> DEFINE Largest(s, x) == x \in s /\ \A y \in s : x >= y
             C == {s \in SUBSET S : s # {} /\ ~ \E x \in s : Largest(s, x)}
  <1> SUFFICES ASSUME C # {} PROVE FALSE
    OBVIOUS
  <1>0. C \subseteq SUBSET S
    OBVIOUS
  <1> HIDE DEF C
  <1>1. PICK s \in C : \A t \in SUBSET s : t # s => t \notin C
    BY <1>0, MinimalSubset
  <1>2. s \in SUBSET S /\ s # {} /\ ~ \E x \in s : Largest(s, x)
    BY DEF C
  <1>3. PICK x \in s : TRUE
    BY <1>2
  <1>4. CASE s \ {x} = {}
    BY <1>2, <1>4
  <1>5. CASE s \ {x} # {}
    <2>1. PICK y \in s \ {x} : Largest(s \ {x}, y)
      BY <1>1, <1>2, <1>5 DEF C
    <2>2. Largest(s, IF x >= y THEN x ELSE y)
      BY <1>2, <2>1
    <2> QED
      BY <1>2, <2>2
  <1> QED
    BY <1>4, <1>5

LEMMA MaxIsLargest ==
    ASSUME NEW S, IsFiniteSet(S), S \subseteq Int, S # {}
    PROVE  Max(S) \in S /\ \A y \in S : Max(S) >= y
  BY LargestExists DEF Max

(* The values of a function on a finite set are finitely many.             *)
LEMMA ImageIsFinite ==
    ASSUME NEW S, IsFiniteSet(S), NEW f
    PROVE  IsFiniteSet({f[x] : x \in S})
  <1> DEFINE T == {f[x] : x \in S}
             g == [x \in S |-> f[x]]
  <1>1. g \in Surjection(S, T)
    BY DEF Surjection
  <1> QED
    BY <1>1, FS_Surjection

(* The largest value of a function on a finite set.                        *)
LEMMA LargestValue ==
    ASSUME NEW S, IsFiniteSet(S), S # {}, NEW f \in [S -> Int]
    PROVE  LET m == Max({f[x] : x \in S})
           IN  m \in Int /\ (\E x \in S : m = f[x]) /\ \A x \in S : m >= f[x]
  <1> DEFINE T == {f[x] : x \in S}
  <1>1. IsFiniteSet(T) /\ T \subseteq Int /\ T # {}
    BY ImageIsFinite
  <1>2. Max(T) \in T /\ \A y \in T : Max(T) >= y
    <2> HIDE DEF T
    <2> QED
      BY <1>1, MaxIsLargest
  <1> QED
    BY <1>1, <1>2
=============================================================================
