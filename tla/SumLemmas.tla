------------------------------ MODULE SumLemmas ------------------------------
(***************************************************************************)
(* Sums over finite sets: that the fold behind SumFunctionOnSet computes   *)
(* what its name says, in whichever order it takes the elements.           *)
(***************************************************************************)
EXTENDS Functions, FiniteSetTheorems, WellFoundedInduction, TLAPS

\* g is the fold of f over the subsets of S.
FoldsTo(g, f, S) ==
    g = [s \in SUBSET S |-> IF s = {} THEN 0 ELSE f[CHOOSE x \in s : TRUE] + g[s \ {CHOOSE x \in s : TRUE}]]

LEMMA SumIsFold ==
    ASSUME NEW f, NEW S
    PROVE  SumFunctionOnSet(f, S) = (CHOOSE g : FoldsTo(g, f, S))[S]
  BY DEF SumFunctionOnSet, FoldFunctionOnSet, MapThenFoldSet, FoldsTo

LEMMA LeastElement ==
    ASSUME NEW S \in SUBSET Nat, S # {}
    PROVE  \E n \in S : \A m \in S : n <= m
<1>1. PICK n \in S : \A m \in S : ~(<<m, n>> \in OpToRel(<, Nat))
  BY NatLessThanWellFounded, WFMin, Zenon
<1>2. \A m \in S : ~(m < n)
  BY <1>1 DEF OpToRel
<1> QED
  BY <1>2

\* Of the sets of a nonempty collection of finite sets, one has no smaller one beside it.
LEMMA SmallestSet ==
    ASSUME NEW C, C # {}, \A s \in C : IsFiniteSet(s)
    PROVE  \E s \in C : \A x \in s : s \ {x} \notin C
<1> DEFINE Sizes == {Cardinality(s) : s \in C}
<1>1. Sizes \in SUBSET Nat /\ Sizes # {}
  BY FS_CardinalityType
<1>2. PICK n \in Sizes : \A m \in Sizes : n <= m
  <2> HIDE DEF Sizes
  <2> QED
    BY <1>1, LeastElement
<1>3. PICK s \in C : Cardinality(s) = n
  OBVIOUS
<1>4. ASSUME NEW x \in s, s \ {x} \in C PROVE FALSE
  <2>1. Cardinality(s \ {x}) = Cardinality(s) - 1 /\ Cardinality(s) \in Nat
    BY FS_RemoveElement, FS_CardinalityType
  <2>2. n <= Cardinality(s \ {x})
    BY <1>2, <1>4
  <2> QED
    BY <1>3, <2>1, <2>2
<1> QED
  BY <1>4

FirstOf(s) == CHOOSE x \in s : TRUE

LEMMA FoldValue ==
    ASSUME NEW f, NEW S, NEW g, FoldsTo(g, f, S), NEW s \in SUBSET S
    PROVE  /\ s = {} => g[s] = 0
           /\ s # {} => g[s] = f[FirstOf(s)] + g[s \ {FirstOf(s)}] /\ FirstOf(s) \in s
  BY DEF FoldsTo, FirstOf

\* Two folds of the same function agree where both are defined.
LEMMA FoldsAgree ==
    ASSUME NEW f, NEW A, NEW B, NEW g, NEW h, FoldsTo(g, f, A), FoldsTo(h, f, B),
           NEW S \in SUBSET (A \cap B), IsFiniteSet(S)
    PROVE  g[S] = h[S]
<1> DEFINE Wrong == {s \in SUBSET S : g[s] # h[s]}
<1> SUFFICES Wrong = {}
  OBVIOUS
<1> SUFFICES ASSUME Wrong # {} PROVE FALSE
  OBVIOUS
<1>1. \A s \in Wrong : IsFiniteSet(s)
  BY FS_Subset
<1>2. PICK s \in Wrong : \A x \in s : s \ {x} \notin Wrong
  <2> HIDE DEF Wrong
  <2> QED
    BY <1>1, SmallestSet
<1>3. s \in SUBSET A /\ s \in SUBSET B
  OBVIOUS
<1>4. CASE s = {}
  BY <1>2, <1>3, <1>4, FoldValue
<1>5. CASE s # {}
  <2>1. /\ g[s] = f[FirstOf(s)] + g[s \ {FirstOf(s)}] /\ FirstOf(s) \in s
        /\ h[s] = f[FirstOf(s)] + h[s \ {FirstOf(s)}]
    <3>1. g[s] = f[FirstOf(s)] + g[s \ {FirstOf(s)}] /\ FirstOf(s) \in s
      BY <1>3, <1>5, FoldValue
    <3>2. h[s] = f[FirstOf(s)] + h[s \ {FirstOf(s)}]
      BY <1>3, <1>5, FoldValue
    <3> QED
      BY <3>1, <3>2
  <2>2. g[s \ {FirstOf(s)}] = h[s \ {FirstOf(s)}]
    BY <1>2, <2>1
  <2> QED
    BY <1>2, <2>1, <2>2
<1> QED
  BY <1>4, <1>5

LEMMA FoldExists ==
    ASSUME NEW f, NEW S, IsFiniteSet(S)
    PROVE  \E g : FoldsTo(g, f, S)
<1> DEFINE Wrong == {s \in SUBSET S : ~\E g : FoldsTo(g, f, s)}
<1> SUFFICES Wrong = {}
  OBVIOUS
<1> SUFFICES ASSUME Wrong # {} PROVE FALSE
  OBVIOUS
<1>1. \A s \in Wrong : IsFiniteSet(s)
  BY FS_Subset
<1>2. PICK U \in Wrong : \A x \in U : U \ {x} \notin Wrong
  <2> HIDE DEF Wrong
  <2> QED
    BY <1>1, SmallestSet
<1> DEFINE G(s) == CHOOSE g : FoldsTo(g, f, s)
           Rest(s) == s \ {FirstOf(s)}
           fold == [s \in SUBSET U |-> IF s = {} THEN 0 ELSE f[FirstOf(s)] + G(Rest(s))[Rest(s)]]
<1>3. ASSUME NEW s \in SUBSET U, s # U
      PROVE  \E g : FoldsTo(g, f, s)
  <2> PICK x \in U : x \notin s
    BY <1>3
  <2> PICK g : FoldsTo(g, f, U \ {x})
    BY <1>2
  <2> DEFINE h == [t \in SUBSET s |-> g[t]]
  <2>1. \A t \in SUBSET s : t \in SUBSET (U \ {x}) /\ (t # {} => FirstOf(t) \in t)
    BY DEF FirstOf
  <2>2. \A t \in SUBSET s : h[t] = IF t = {} THEN 0 ELSE f[FirstOf(t)] + h[t \ {FirstOf(t)}]
    BY <2>1, FoldValue
  <2>3. h = [t \in SUBSET s |-> IF t = {} THEN 0 ELSE f[FirstOf(t)] + h[t \ {FirstOf(t)}]]
    <3>1. h = [t \in SUBSET s |-> h[t]]
      OBVIOUS
    <3> HIDE DEF h
    <3> QED
      BY <2>2, <3>1
  <2>4. FoldsTo(h, f, s)
    <3> HIDE DEF h
    <3> QED
      BY <2>3 DEF FoldsTo, FirstOf
  <2> QED
    BY <2>4
<1>4. \A s \in SUBSET U : s # U => FoldsTo(G(s), f, s)
  BY <1>3
<1>5. ASSUME NEW s \in SUBSET U, s # U
      PROVE  fold[s] = G(s)[s]
  <2>1. CASE s = {}
    BY <1>4, <1>5, <2>1, FoldValue
  <2>2. CASE s # {}
    <3>1. FirstOf(s) \in s /\ Rest(s) \in SUBSET s /\ Rest(s) \in SUBSET U /\ Rest(s) # U
      BY <1>5, <2>2 DEF FirstOf
    <3>2. FoldsTo(G(s), f, s) /\ FoldsTo(G(Rest(s)), f, Rest(s))
      BY <1>4, <1>5, <3>1
    <3>3. IsFiniteSet(Rest(s))
      BY FS_Subset, <3>1
    <3> HIDE DEF G
    <3>4. G(s)[Rest(s)] = G(Rest(s))[Rest(s)]
      BY <3>1, <3>2, <3>3, FoldsAgree
    <3>5. G(s)[s] = f[FirstOf(s)] + G(s)[Rest(s)]
      BY <2>2, <3>2, FoldValue
    <3>6. fold[s] = f[FirstOf(s)] + G(Rest(s))[Rest(s)]
      BY <2>2
    <3> QED
      BY <3>4, <3>5, <3>6
  <2> QED
    BY <2>1, <2>2
<1>6. \A s \in SUBSET U : fold[s] = IF s = {} THEN 0 ELSE f[FirstOf(s)] + fold[Rest(s)]
  <2> TAKE s \in SUBSET U
  <2>1. CASE s = {}
    BY <2>1
  <2>2. CASE s # {}
    <3>1. Rest(s) \in SUBSET U /\ Rest(s) # U
      BY <2>2 DEF FirstOf
    <3>2. fold[Rest(s)] = G(Rest(s))[Rest(s)]
      <4> HIDE DEF fold, G, Rest
      <4> QED
        BY <3>1, <1>5
    <3>3. fold[s] = f[FirstOf(s)] + G(Rest(s))[Rest(s)]
      BY <2>2
    <3> QED
      BY <2>2, <3>2, <3>3
  <2> QED
    BY <2>1, <2>2
<1>7. fold = [s \in SUBSET U |-> fold[s]]
  OBVIOUS
<1>8. FoldsTo(fold, f, U)
  <2> HIDE DEF fold, G
  <2> QED
    BY <1>6, <1>7 DEF FoldsTo, FirstOf
<1> QED
  BY <1>8

-------------------------------------------------------------------------------
(* What a sum is. *)

Fold(f, S) == CHOOSE g : FoldsTo(g, f, S)

LEMMA SumOfFold ==
    ASSUME NEW f, NEW S, IsFiniteSet(S)
    PROVE  FoldsTo(Fold(f, S), f, S) /\ SumFunctionOnSet(f, S) = Fold(f, S)[S]
  BY FoldExists, SumIsFold DEF Fold

LEMMA SumTakesFirst ==
    ASSUME NEW f, NEW S, IsFiniteSet(S)
    PROVE  /\ S = {} => SumFunctionOnSet(f, S) = 0
           /\ S # {} => /\ FirstOf(S) \in S
                        /\ SumFunctionOnSet(f, S) = f[FirstOf(S)] + SumFunctionOnSet(f, S \ {FirstOf(S)})
<1>1. FoldsTo(Fold(f, S), f, S) /\ SumFunctionOnSet(f, S) = Fold(f, S)[S]
  BY SumOfFold
<1>2. CASE S = {}
  BY <1>1, <1>2, FoldValue
<1>3. CASE S # {}
  <2> DEFINE R == S \ {FirstOf(S)}
  <2>1. FirstOf(S) \in S /\ R \in SUBSET S /\ IsFiniteSet(R)
    BY <1>3, FS_Subset DEF FirstOf
  <2>2. FoldsTo(Fold(f, R), f, R) /\ SumFunctionOnSet(f, R) = Fold(f, R)[R]
    BY <2>1, SumOfFold
  <2>3. Fold(f, S)[R] = Fold(f, R)[R]
    BY <1>1, <2>1, <2>2, FoldsAgree
  <2>4. Fold(f, S)[S] = f[FirstOf(S)] + Fold(f, S)[R]
    BY <1>1, <1>3, FoldValue
  <2> QED
    BY <1>1, <1>3, <2>1, <2>2, <2>3, <2>4
<1> QED
  BY <1>2, <1>3

LEMMA EmptySum ==
    ASSUME NEW f
    PROVE  SumFunctionOnSet(f, {}) = 0
<1>1. IsFiniteSet({})
  BY FS_EmptySet
<1> QED
  BY <1>1, SumTakesFirst

LEMMA SumType ==
    ASSUME NEW f, NEW S, IsFiniteSet(S), \A x \in S : f[x] \in Int
    PROVE  SumFunctionOnSet(f, S) \in Int
<1> DEFINE Wrong == {s \in SUBSET S : SumFunctionOnSet(f, s) \notin Int}
<1> SUFFICES Wrong = {}
  OBVIOUS
<1> SUFFICES ASSUME Wrong # {} PROVE FALSE
  OBVIOUS
<1>1. \A s \in Wrong : IsFiniteSet(s)
  BY FS_Subset
<1>2. PICK s \in Wrong : \A x \in s : s \ {x} \notin Wrong
  <2> HIDE DEF Wrong
  <2> QED
    BY <1>1, SmallestSet
<1>3. CASE s = {}
  BY <1>2, <1>3, EmptySum
<1>4. CASE s # {}
  <2>1. FirstOf(s) \in s /\ SumFunctionOnSet(f, s) = f[FirstOf(s)] + SumFunctionOnSet(f, s \ {FirstOf(s)})
    BY <1>1, <1>4, SumTakesFirst
  <2>2. SumFunctionOnSet(f, s \ {FirstOf(s)}) \in Int
    BY <1>2, <2>1
  <2> QED
    BY <1>2, <2>1, <2>2
<1> QED
  BY <1>3, <1>4

\* The elements may be taken in any order.
LEMMA SumTakesAny ==
    ASSUME NEW f, NEW S, IsFiniteSet(S), \A x \in S : f[x] \in Int, NEW e \in S
    PROVE  SumFunctionOnSet(f, S) = f[e] + SumFunctionOnSet(f, S \ {e})
<1> DEFINE Sum(s) == SumFunctionOnSet(f, s)
           Wrong == {s \in SUBSET S : \E x \in s : Sum(s) # f[x] + Sum(s \ {x})}
<1> SUFFICES Wrong = {}
  OBVIOUS
<1> SUFFICES ASSUME Wrong # {} PROVE FALSE
  OBVIOUS
<1>1. \A s \in SUBSET S : IsFiniteSet(s) /\ Sum(s) \in Int
  <2> TAKE s \in SUBSET S
  <2>1. IsFiniteSet(s)
    BY FS_Subset
  <2> QED
    BY <2>1, SumType
<1>2. PICK s \in Wrong : \A x \in s : s \ {x} \notin Wrong
  <2> HIDE DEF Wrong
  <2>1. \A s \in Wrong : IsFiniteSet(s)
    BY <1>1 DEF Wrong
  <2> QED
    BY <2>1, SmallestSet
<1>3. PICK x \in s : Sum(s) # f[x] + Sum(s \ {x})
  BY <1>2
<1> DEFINE y == FirstOf(s)
<1>4. y \in s /\ Sum(s) = f[y] + Sum(s \ {y})
  BY <1>1, <1>3, SumTakesFirst
<1> HIDE DEF Sum, y
<1>5. x # y
  BY <1>3, <1>4
<1>6. Sum(s \ {y}) = f[x] + Sum((s \ {y}) \ {x}) /\ Sum(s \ {x}) = f[y] + Sum((s \ {x}) \ {y})
  BY <1>2, <1>3, <1>4, <1>5
<1>7. (s \ {y}) \ {x} = (s \ {x}) \ {y}
  OBVIOUS
<1>8. f[x] \in Int /\ f[y] \in Int /\ Sum((s \ {x}) \ {y}) \in Int
  BY <1>1, <1>3, <1>4
<1> DEFINE rest == Sum((s \ {x}) \ {y})
<1>9. Sum(s) = f[y] + (f[x] + rest) /\ f[x] + Sum(s \ {x}) = f[x] + (f[y] + rest) /\ rest \in Int
  BY <1>4, <1>6, <1>7, <1>8
<1> HIDE DEF Wrong, rest
<1>10. \A a, b, r \in Int : a + (b + r) = b + (a + r)
  OBVIOUS
<1> QED
  BY <1>3, <1>8, <1>9, <1>10

LEMMA SumAgrees ==
    ASSUME NEW f, NEW g, NEW S, IsFiniteSet(S), \A x \in S : f[x] = g[x]
    PROVE  SumFunctionOnSet(f, S) = SumFunctionOnSet(g, S)
<1> DEFINE Wrong == {s \in SUBSET S : SumFunctionOnSet(f, s) # SumFunctionOnSet(g, s)}
<1> SUFFICES Wrong = {}
  OBVIOUS
<1> SUFFICES ASSUME Wrong # {} PROVE FALSE
  OBVIOUS
<1>1. \A s \in Wrong : IsFiniteSet(s)
  BY FS_Subset
<1>2. PICK s \in Wrong : \A x \in s : s \ {x} \notin Wrong
  <2> HIDE DEF Wrong
  <2> QED
    BY <1>1, SmallestSet
<1>3. CASE s = {}
  BY <1>1, <1>2, <1>3, SumTakesFirst
<1>4. CASE s # {}
  <2>1. /\ FirstOf(s) \in s /\ SumFunctionOnSet(f, s) = f[FirstOf(s)] + SumFunctionOnSet(f, s \ {FirstOf(s)})
        /\ SumFunctionOnSet(g, s) = g[FirstOf(s)] + SumFunctionOnSet(g, s \ {FirstOf(s)})
    BY <1>1, <1>4, SumTakesFirst
  <2>2. SumFunctionOnSet(f, s \ {FirstOf(s)}) = SumFunctionOnSet(g, s \ {FirstOf(s)})
    BY <1>2, <2>1
  <2> QED
    BY <1>2, <2>1, <2>2
<1> QED
  BY <1>3, <1>4

\* What one element contributes is all that a sum changes by.
LEMMA SumChanges ==
    ASSUME NEW f, NEW g, NEW S, IsFiniteSet(S), \A x \in S : f[x] \in Int /\ g[x] \in Int,
           NEW e \in S, \A x \in S \ {e} : f[x] = g[x]
    PROVE  SumFunctionOnSet(g, S) = SumFunctionOnSet(f, S) - f[e] + g[e]
<1>1. IsFiniteSet(S \ {e})
  BY FS_RemoveElement
<1>2. SumFunctionOnSet(f, S \ {e}) = SumFunctionOnSet(g, S \ {e}) /\ SumFunctionOnSet(f, S \ {e}) \in Int
  BY <1>1, SumAgrees, SumType
<1>3. SumFunctionOnSet(f, S) = f[e] + SumFunctionOnSet(f, S \ {e}) /\ SumFunctionOnSet(g, S) = g[e] + SumFunctionOnSet(g, S \ {e})
  BY SumTakesAny
<1> QED
  BY <1>2, <1>3

LEMMA SumOfNaturals ==
    ASSUME NEW f, NEW S, IsFiniteSet(S), \A x \in S : f[x] \in Nat
    PROVE  SumFunctionOnSet(f, S) \in Nat /\ \A x \in S : f[x] <= SumFunctionOnSet(f, S)
<1> DEFINE Wrong == {s \in SUBSET S : SumFunctionOnSet(f, s) \notin Nat}
<1>1. Wrong = {}
  <2> SUFFICES ASSUME Wrong # {} PROVE FALSE
    OBVIOUS
  <2>1. \A s \in Wrong : IsFiniteSet(s)
    BY FS_Subset
  <2>2. PICK s \in Wrong : \A x \in s : s \ {x} \notin Wrong
    <3> HIDE DEF Wrong
    <3> QED
      BY <2>1, SmallestSet
  <2>3. CASE s = {}
    BY <2>2, <2>3, EmptySum
  <2>4. CASE s # {}
    <3>1. FirstOf(s) \in s /\ SumFunctionOnSet(f, s) = f[FirstOf(s)] + SumFunctionOnSet(f, s \ {FirstOf(s)})
      BY <2>1, <2>4, SumTakesFirst
    <3>2. SumFunctionOnSet(f, s \ {FirstOf(s)}) \in Nat
      BY <2>2, <3>1
    <3> QED
      BY <2>2, <3>1, <3>2
  <2> QED
    BY <2>3, <2>4
<1>2. ASSUME NEW x \in S PROVE f[x] <= SumFunctionOnSet(f, S)
  <2>1. SumFunctionOnSet(f, S) = f[x] + SumFunctionOnSet(f, S \ {x})
    BY SumTakesAny
  <2>2. SumFunctionOnSet(f, S \ {x}) \in Nat
    BY <1>1
  <2> QED
    BY <2>1, <2>2
<1> QED
  BY <1>1, <1>2

LEMMA SumGrows ==
    ASSUME NEW f, NEW g, NEW S, IsFiniteSet(S), \A x \in S : f[x] \in Int /\ g[x] \in Int /\ f[x] <= g[x]
    PROVE  SumFunctionOnSet(f, S) <= SumFunctionOnSet(g, S)
<1> DEFINE Wrong == {s \in SUBSET S : ~(SumFunctionOnSet(f, s) <= SumFunctionOnSet(g, s))}
<1> SUFFICES Wrong = {}
  OBVIOUS
<1> SUFFICES ASSUME Wrong # {} PROVE FALSE
  OBVIOUS
<1>1. \A s \in Wrong : IsFiniteSet(s)
  BY FS_Subset
<1>2. PICK s \in Wrong : \A x \in s : s \ {x} \notin Wrong
  <2> HIDE DEF Wrong
  <2> QED
    BY <1>1, SmallestSet
<1>3. CASE s = {}
  BY <1>2, <1>3, EmptySum
<1>4. CASE s # {}
  <2> DEFINE e == FirstOf(s)
             F == SumFunctionOnSet(f, s \ {e})
             G == SumFunctionOnSet(g, s \ {e})
  <2>1. e \in s /\ SumFunctionOnSet(f, s) = f[e] + F /\ SumFunctionOnSet(g, s) = g[e] + G
    BY <1>1, <1>4, SumTakesFirst
  <2>2. IsFiniteSet(s \ {e}) /\ F \in Int /\ G \in Int
    <3>1. IsFiniteSet(s \ {e}) /\ \A x \in s \ {e} : f[x] \in Int /\ g[x] \in Int
      BY <1>1, FS_RemoveElement
    <3> QED
      BY <3>1, SumType
  <2>3. F <= G
    BY <1>2, <2>1
  <2>4. f[e] \in Int /\ g[e] \in Int /\ f[e] <= g[e]
    BY <2>1
  <2> HIDE DEF e, F, G
  <2> QED
    BY <1>2, <2>1, <2>2, <2>3, <2>4
<1> QED
  BY <1>3, <1>4

\* A sum of naturals is at least the number of elements that contribute to it.
LEMMA SumCounts ==
    ASSUME NEW f, NEW S, IsFiniteSet(S), \A x \in S : f[x] \in Nat,
           NEW T \in SUBSET S, \A x \in T : f[x] >= 1
    PROVE  Cardinality(T) <= SumFunctionOnSet(f, S)
<1> DEFINE Wrong == {s \in SUBSET S : ~(Cardinality(T \cap s) <= SumFunctionOnSet(f, s))}
<1>1. Wrong = {}
  <2> SUFFICES ASSUME Wrong # {} PROVE FALSE
    OBVIOUS
  <2>1. \A s \in Wrong : IsFiniteSet(s)
    BY FS_Subset
  <2>2. PICK s \in Wrong : \A x \in s : s \ {x} \notin Wrong
    <3> HIDE DEF Wrong
    <3> QED
      BY <2>1, SmallestSet
  <2>3. CASE s = {}
    <3>1. T \cap s = {} /\ Cardinality({}) = 0
      BY <2>3, FS_EmptySet
    <3> QED
      BY <2>2, <2>3, <3>1, EmptySum
  <2>4. CASE s # {}
    <3> DEFINE e == FirstOf(s)
               F == SumFunctionOnSet(f, s \ {e})
    <3>1. e \in s /\ SumFunctionOnSet(f, s) = f[e] + F /\ IsFiniteSet(s \ {e}) /\ s \ {e} \in SUBSET S
      BY <2>1, <2>4, SumTakesFirst, FS_RemoveElement
    <3>2. F \in Nat /\ f[e] \in Nat
      BY <3>1, SumOfNaturals
    <3>3. Cardinality(T \cap (s \ {e})) <= F
      BY <2>2, <3>1
    <3>4. IsFiniteSet(T \cap s) /\ IsFiniteSet(T \cap (s \ {e}))
      <4>1. T \cap s \in SUBSET s /\ T \cap (s \ {e}) \in SUBSET s /\ IsFiniteSet(s)
        BY <2>1
      <4> QED
        BY <4>1, FS_Subset
    <3>5. Cardinality(T \cap s) \in Nat /\ Cardinality(T \cap (s \ {e})) \in Nat
      BY <3>4, FS_CardinalityType
    <3>6. Cardinality(T \cap s) <= Cardinality(T \cap (s \ {e})) + f[e]
      <4> HIDE DEF e, F
      <4>1. CASE e \in T
        <5>1. T \cap (s \ {e}) = (T \cap s) \ {e} /\ e \in T \cap s /\ f[e] >= 1
          BY <3>1, <4>1
        <5>2. Cardinality((T \cap s) \ {e}) = Cardinality(T \cap s) - 1
          BY <3>4, <5>1, FS_RemoveElement
        <5>3. Cardinality(T \cap (s \ {e})) = Cardinality((T \cap s) \ {e})
          BY <5>1
        <5> QED
          BY <3>2, <3>5, <5>1, <5>2, <5>3
      <4>2. CASE e \notin T
        <5>1. T \cap (s \ {e}) = T \cap s
          BY <4>2
        <5>2. Cardinality(T \cap (s \ {e})) = Cardinality(T \cap s)
          BY <5>1
        <5> QED
          BY <3>2, <3>5, <5>2
      <4> QED
        BY <4>1, <4>2
    <3>7. ~(Cardinality(T \cap s) <= f[e] + F)
      BY <2>2, <3>1
    <3> HIDE DEF e, F
    <3> QED
      BY <3>2, <3>3, <3>5, <3>6, <3>7
  <2> QED
    BY <2>3, <2>4
<1>2. S \notin Wrong /\ T \cap S = T
  BY <1>1
<1> QED
  BY <1>2

LEMMA SumOfZeros ==
    ASSUME NEW f, NEW S, IsFiniteSet(S), \A x \in S : f[x] = 0
    PROVE  SumFunctionOnSet(f, S) = 0
<1> DEFINE Wrong == {s \in SUBSET S : SumFunctionOnSet(f, s) # 0}
<1> SUFFICES Wrong = {}
  OBVIOUS
<1> SUFFICES ASSUME Wrong # {} PROVE FALSE
  OBVIOUS
<1>1. \A s \in Wrong : IsFiniteSet(s)
  BY FS_Subset
<1>2. PICK s \in Wrong : \A x \in s : s \ {x} \notin Wrong
  <2> HIDE DEF Wrong
  <2> QED
    BY <1>1, SmallestSet
<1>3. CASE s = {}
  BY <1>1, <1>2, <1>3, SumTakesFirst
<1>4. CASE s # {}
  <2>1. FirstOf(s) \in s /\ SumFunctionOnSet(f, s) = f[FirstOf(s)] + SumFunctionOnSet(f, s \ {FirstOf(s)})
    BY <1>1, <1>4, SumTakesFirst
  <2>2. SumFunctionOnSet(f, s \ {FirstOf(s)}) = 0
    BY <1>2, <2>1
  <2> QED
    BY <1>2, <2>1, <2>2
<1> QED
  BY <1>3, <1>4
===============================================================================
