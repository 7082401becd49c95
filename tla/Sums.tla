-------------------------------- MODULE Sums --------------------------------
(***************************************************************************)
(* Lemmas about SumFunction and SumFunctionOnSet of the module Functions,  *)
(* for the proofs about what is counted and paid: the tokens of a program, *)
(* the positions of a batch, the legs of a conversion.                     *)
(*                                                                         *)
(* These operators are folds: a CHOOSE of a function defined along its own *)
(* values.  Induction over the finite subsets of a set comes first, in a   *)
(* form without operator parameters, from the theorem of                   *)
(* WellFoundedInduction that a well-founded relation has minimal elements; *)
(* then that the chosen function exists and is unique; then what a sum     *)
(* does when a summand is added, dropped or changed.                       *)
(***************************************************************************)
EXTENDS Integers, Functions, FiniteSetTheorems, TLAPS

\* Induction over finite sets: what holds of a subset when it holds of the smaller ones
\* holds of all, "it holds" being membership in G.
LEMMA SubsetInduction ==
  ASSUME NEW S, IsFiniteSet(S), NEW G,
         \A T \in SUBSET S : (\A U \in SUBSET T : U # T => U \in G) => T \in G
  PROVE  SUBSET S \subseteq G
<1> SUFFICES ASSUME (SUBSET S) \ G # {} PROVE FALSE
  OBVIOUS
<1>1. IsWellFoundedOn(StrictSubsetOrdering(S), SUBSET S)
  <2>1. FiniteSubsetsOf(S) = SUBSET S
    BY FS_FiniteSubsetsOfFinite
  <2>2. IsWellFoundedOn(StrictSubsetOrdering(S), FiniteSubsetsOf(S))
    BY FS_StrictSubsetOrderingWellFounded
  <2> QED
    BY <2>1, <2>2
<1>2. PICK T \in (SUBSET S) \ G : \A U \in (SUBSET S) \ G : ~(<<U, T>> \in StrictSubsetOrdering(S))
  <2>1. PICK R : R = StrictSubsetOrdering(S)
    OBVIOUS
  <2>2. PICK B : B = (SUBSET S) \ G
    OBVIOUS
  <2>3. IsWellFoundedOn(R, SUBSET S) /\ B \subseteq SUBSET S /\ B # {}
    BY <1>1, <2>1, <2>2
  <2>4. \E x \in B : \A y \in B : ~(<<y, x>> \in R)
    BY <2>3, WFMin
  <2> QED
    BY <2>1, <2>2, <2>4
<1>3. \A U \in SUBSET T : U # T => U \in G
  BY <1>2 DEF StrictSubsetOrdering
<1> QED
  BY <1>2, <1>3

\* The element a fold takes first, and the equation it solves by CHOOSE.
ChosenOf(s) == CHOOSE x \in s : TRUE
SumsUp(g, f, S) ==
    g = [s \in SUBSET S |-> IF s = {} THEN 0 ELSE f[ChosenOf(s)] + g[s \ {ChosenOf(s)}]]

\* SumFunctionOnSet unfolded to that equation.
LEMMA SumIsChosen ==
  ASSUME NEW f, NEW S
  PROVE  SumFunctionOnSet(f, S) = (CHOOSE g : SumsUp(g, f, S))[S]
  BY DEF SumFunctionOnSet, FoldFunctionOnSet, MapThenFoldSet, SumsUp, ChosenOf

\* Its solutions, over whatever larger sets, agree.
LEMMA OneSum ==
  ASSUME NEW f, NEW S, IsFiniteSet(S), NEW g, NEW h, NEW A, NEW B, SumsUp(g, f, A), SumsUp(h, f, B),
         S \subseteq A, S \subseteq B
  PROVE  g[S] = h[S]
<1> DEFINE G == {T \in SUBSET S : g[T] = h[T]}
<1>1. ASSUME NEW T \in SUBSET S, \A U \in SUBSET T : U # T => U \in G PROVE T \in G
  <2>1. CASE T = {}
    BY <2>1 DEF SumsUp
  <2>2. CASE T # {}
    <3>1. ChosenOf(T) \in T
      BY <2>2 DEF ChosenOf
    <3> DEFINE U == T \ {ChosenOf(T)}
    <3>2. U \in G
      BY <1>1, <3>1
    <3>3. g[T] = f[ChosenOf(T)] + g[U]
      BY <2>2 DEF SumsUp
    <3>4. h[T] = f[ChosenOf(T)] + h[U]
      BY <2>2 DEF SumsUp
    <3> QED
      BY <3>2, <3>3, <3>4
  <2> QED
    BY <2>1, <2>2
<1>2. SUBSET S \subseteq G
  <2> HIDE DEF G
  <2> QED
    BY <1>1, SubsetInduction
<1> QED
  BY <1>2

\* There is one.
LEMMA SumExists ==
  ASSUME NEW f, NEW S, IsFiniteSet(S)
  PROVE  \E g : SumsUp(g, f, S)
<1> DEFINE G == {T \in SUBSET S : \E g : SumsUp(g, f, T)}
<1>1. ASSUME NEW T \in SUBSET S, \A U \in SUBSET T : U # T => U \in G PROVE T \in G
  <2> DEFINE V(u) == (CHOOSE g : SumsUp(g, f, u))[u]
  <2> DEFINE h == [s \in SUBSET T |-> IF s = {} THEN 0
                                      ELSE f[ChosenOf(s)] + V(s \ {ChosenOf(s)})]
  <2>1. ASSUME NEW s \in SUBSET T, s # {} PROVE h[s \ {ChosenOf(s)}] = V(s \ {ChosenOf(s)})
    <3>1. ChosenOf(s) \in s
      BY <2>1 DEF ChosenOf
    <3>2. PICK u : u = s \ {ChosenOf(s)}
      OBVIOUS
    <3>3. u \in SUBSET T /\ u # T /\ IsFiniteSet(u)
      BY <3>1, <3>2, FS_Subset
    <3>4. PICK gu : gu = CHOOSE g : SumsUp(g, f, u)
      OBVIOUS
    <3>5. SumsUp(gu, f, u)
      BY <1>1, <3>3, <3>4
    <3>6. V(u) = gu[u]
      BY <3>4
    <3>7. CASE u = {}
      <4>1. h[u] = 0
        BY <3>7
      <4>2. gu[u] = 0
        BY <3>5, <3>7 DEF SumsUp
      <4> QED
        BY <4>1, <4>2, <3>2, <3>6
    <3>8. CASE u # {}
      <4>1. ChosenOf(u) \in u
        BY <3>8 DEF ChosenOf
      <4>2. PICK w : w = u \ {ChosenOf(u)}
        OBVIOUS
      <4>3. w \in SUBSET T /\ w # T /\ w \subseteq u /\ IsFiniteSet(w)
        BY <4>1, <4>2, <3>3, FS_Subset
      <4>4. PICK gw : gw = CHOOSE g : SumsUp(g, f, w)
        OBVIOUS
      <4>5. SumsUp(gw, f, w)
        BY <1>1, <4>3, <4>4
      <4>6. gu[w] = gw[w]
        BY <4>3, <4>5, <3>5, OneSum
      <4>7. gu[u] = f[ChosenOf(u)] + gu[w]
        BY <3>5, <3>8, <4>2 DEF SumsUp
      <4>8. h[u] = f[ChosenOf(u)] + V(w)
        BY <3>8, <3>3, <4>2
      <4>9. V(w) = gw[w]
        BY <4>4
      <4> QED
        BY <4>6, <4>7, <4>8, <4>9, <3>2, <3>6
    <3> QED
      BY <3>7, <3>8
  <2>2. \A s \in SUBSET T : h[s] = IF s = {} THEN 0 ELSE f[ChosenOf(s)] + h[s \ {ChosenOf(s)}]
    <3> TAKE s \in SUBSET T
    <3>1. CASE s = {}
      BY <3>1
    <3>2. CASE s # {}
      <4>1. h[s] = f[ChosenOf(s)] + V(s \ {ChosenOf(s)})
        BY <3>2
      <4>2. h[s \ {ChosenOf(s)}] = V(s \ {ChosenOf(s)})
        BY <2>1, <3>2
      <4> HIDE DEF h, V
      <4> QED
        BY <3>2, <4>1, <4>2
    <3> QED
      BY <3>1, <3>2
  <2>3. h = [s \in SUBSET T |-> h[s]]
    OBVIOUS
  <2>4. SumsUp(h, f, T)
    <3> HIDE DEF h
    <3> QED
      BY <2>2, <2>3 DEF SumsUp
  <2> QED
    BY <2>4
<1>2. SUBSET S \subseteq G
  <2> HIDE DEF G
  <2> QED
    BY <1>1, SubsetInduction
<1> QED
  BY <1>2

\* The sum of nothing is zero.
LEMMA SumOfNone == ASSUME NEW f PROVE SumFunctionOnSet(f, {}) = 0
<1>1. PICK g : g = CHOOSE k : SumsUp(k, f, {})
  OBVIOUS
<1>2. SumsUp(g, f, {})
  BY <1>1, SumExists, FS_EmptySet
<1> QED
  BY <1>1, <1>2, SumIsChosen DEF SumsUp

\* The sum with the first element taken out.
LEMMA SumUnfolds ==
  ASSUME NEW f, NEW S, IsFiniteSet(S), S # {}
  PROVE  SumFunctionOnSet(f, S) = f[ChosenOf(S)] + SumFunctionOnSet(f, S \ {ChosenOf(S)})
<1>1. PICK g : g = CHOOSE k : SumsUp(k, f, S)
  OBVIOUS
<1>2. SumsUp(g, f, S)
  BY <1>1, SumExists
<1>3. PICK U : U = S \ {ChosenOf(S)}
  OBVIOUS
<1>4. U \subseteq S /\ IsFiniteSet(U)
  BY <1>3, FS_Subset
<1>5. PICK h : h = CHOOSE k : SumsUp(k, f, U)
  OBVIOUS
<1>6. SumsUp(h, f, U)
  BY <1>4, <1>5, SumExists
<1>7. g[U] = h[U]
  BY <1>2, <1>4, <1>6, OneSum
<1>8. g[S] = f[ChosenOf(S)] + g[U]
  BY <1>2, <1>3 DEF SumsUp
<1>9. SumFunctionOnSet(f, S) = g[S] /\ SumFunctionOnSet(f, U) = h[U]
  BY <1>1, <1>5, SumIsChosen
<1> QED
  BY <1>3, <1>7, <1>8, <1>9

\* The sum of integers is an integer.
LEMMA SumIsInt ==
  ASSUME NEW f, NEW S, IsFiniteSet(S), \A x \in S : f[x] \in Int
  PROVE  SumFunctionOnSet(f, S) \in Int
<1> DEFINE G == {T \in SUBSET S : SumFunctionOnSet(f, T) \in Int}
<1>1. ASSUME NEW T \in SUBSET S, \A U \in SUBSET T : U # T => U \in G PROVE T \in G
  <2>1. CASE T = {}
    BY <2>1, SumOfNone
  <2>2. CASE T # {}
    <3>1. ChosenOf(T) \in T /\ IsFiniteSet(T)
      BY <2>2, FS_Subset DEF ChosenOf
    <3>2. T \ {ChosenOf(T)} \in G
      BY <1>1, <3>1
    <3>3. SumFunctionOnSet(f, T) = f[ChosenOf(T)] + SumFunctionOnSet(f, T \ {ChosenOf(T)})
      BY <2>2, <3>1, SumUnfolds
    <3>4. f[ChosenOf(T)] \in Int
      BY <3>1
    <3> QED
      BY <3>2, <3>3, <3>4
  <2> QED
    BY <2>1, <2>2
<1>2. SUBSET S \subseteq G
  <2> HIDE DEF G
  <2> QED
    BY <1>1, SubsetInduction
<1> QED
  BY <1>2

\* The same for natural numbers.
LEMMA SumIsNat ==
  ASSUME NEW f, NEW S, IsFiniteSet(S), \A x \in S : f[x] \in Nat
  PROVE  SumFunctionOnSet(f, S) \in Nat
<1> DEFINE G == {T \in SUBSET S : SumFunctionOnSet(f, T) \in Nat}
<1>1. ASSUME NEW T \in SUBSET S, \A U \in SUBSET T : U # T => U \in G PROVE T \in G
  <2>1. CASE T = {}
    BY <2>1, SumOfNone
  <2>2. CASE T # {}
    <3>1. ChosenOf(T) \in T /\ IsFiniteSet(T)
      BY <2>2, FS_Subset DEF ChosenOf
    <3>2. T \ {ChosenOf(T)} \in G
      BY <1>1, <3>1
    <3>3. SumFunctionOnSet(f, T) = f[ChosenOf(T)] + SumFunctionOnSet(f, T \ {ChosenOf(T)})
      BY <2>2, <3>1, SumUnfolds
    <3>4. f[ChosenOf(T)] \in Nat
      BY <3>1
    <3> QED
      BY <3>2, <3>3, <3>4
  <2> QED
    BY <2>1, <2>2
<1>2. SUBSET S \subseteq G
  <2> HIDE DEF G
  <2> QED
    BY <1>1, SubsetInduction
<1> QED
  BY <1>2

\* Functions that agree on a set have the same sum over it.
LEMMA SameSummands ==
  ASSUME NEW f, NEW h, NEW S, IsFiniteSet(S), \A x \in S : f[x] = h[x]
  PROVE  SumFunctionOnSet(f, S) = SumFunctionOnSet(h, S)
<1> DEFINE G == {T \in SUBSET S : SumFunctionOnSet(f, T) = SumFunctionOnSet(h, T)}
<1>1. ASSUME NEW T \in SUBSET S, \A U \in SUBSET T : U # T => U \in G PROVE T \in G
  <2>1. CASE T = {}
    BY <2>1, SumOfNone
  <2>2. CASE T # {}
    <3>1. ChosenOf(T) \in T /\ IsFiniteSet(T)
      BY <2>2, FS_Subset DEF ChosenOf
    <3>2. T \ {ChosenOf(T)} \in G
      BY <1>1, <3>1
    <3>3. SumFunctionOnSet(f, T) = f[ChosenOf(T)] + SumFunctionOnSet(f, T \ {ChosenOf(T)})
      BY <2>2, <3>1, SumUnfolds
    <3>4. SumFunctionOnSet(h, T) = h[ChosenOf(T)] + SumFunctionOnSet(h, T \ {ChosenOf(T)})
      BY <2>2, <3>1, SumUnfolds
    <3>5. f[ChosenOf(T)] = h[ChosenOf(T)]
      BY <3>1
    <3> QED
      BY <3>2, <3>3, <3>4, <3>5
  <2> QED
    BY <2>1, <2>2
<1>2. SUBSET S \subseteq G
  <2> HIDE DEF G
  <2> QED
    BY <1>1, SubsetInduction
<1> QED
  BY <1>2

\* Any summand can be taken out first.
LEMMA SumWithout ==
  ASSUME NEW f, NEW S, IsFiniteSet(S), \A x \in S : f[x] \in Int, NEW y \in S
  PROVE  SumFunctionOnSet(f, S) = f[y] + SumFunctionOnSet(f, S \ {y})
<1> DEFINE Sum(T) == SumFunctionOnSet(f, T)
<1> DEFINE G == {T \in SUBSET S : \A z \in T : Sum(T) = f[z] + Sum(T \ {z})}
<1>1. ASSUME NEW T \in SUBSET S, \A U \in SUBSET T : U # T => U \in G PROVE T \in G
  <2> SUFFICES ASSUME NEW z \in T PROVE Sum(T) = f[z] + Sum(T \ {z})
    OBVIOUS
  <2>1. PICK x : x = ChosenOf(T)
    OBVIOUS
  <2>2. x \in T /\ IsFiniteSet(T) /\ T # {}
    BY <2>1, FS_Subset DEF ChosenOf
  <2>3. Sum(T) = f[x] + Sum(T \ {x})
    BY <2>1, <2>2, SumUnfolds
  <2>4. CASE z = x
    BY <2>3, <2>4
  <2>5. CASE z # x
    <3>1. T \ {x} \in G /\ T \ {z} \in G /\ (T \ {x}) \ {z} = (T \ {z}) \ {x}
      BY <1>1, <2>2
    <3>2. Sum(T \ {x}) = f[z] + Sum((T \ {x}) \ {z})
      BY <2>5, <3>1
    <3>3. Sum(T \ {z}) = f[x] + Sum((T \ {z}) \ {x})
      BY <2>2, <2>5, <3>1
    <3>4. IsFiniteSet((T \ {x}) \ {z}) /\ (T \ {x}) \ {z} \subseteq S
      BY <2>2, FS_Subset
    <3>5. Sum((T \ {x}) \ {z}) \in Int
      BY <3>4, SumIsInt
    <3>6. f[x] \in Int /\ f[z] \in Int
      BY <2>2
    <3>7. PICK rest \in Int : rest = Sum((T \ {x}) \ {z})
      BY <3>5
    <3>8. Sum(T \ {z}) = f[x] + rest /\ Sum(T \ {x}) = f[z] + rest
      BY <3>1, <3>2, <3>3, <3>7
    <3> HIDE DEF Sum
    <3> QED
      BY <2>3, <3>6, <3>8
  <2> QED
    BY <2>4, <2>5
<1>2. SUBSET S \subseteq G
  <2> HIDE DEF G
  <2> QED
    BY <1>1, SubsetInduction
<1> QED
  BY <1>2

\* Where one summand changes, the sum changes by as much.
LEMMA SumMoves ==
  ASSUME NEW f, NEW h, NEW S, IsFiniteSet(S), NEW y \in S,
         \A x \in S : f[x] \in Int /\ h[x] \in Int, \A x \in S \ {y} : f[x] = h[x]
  PROVE  SumFunctionOnSet(h, S) = SumFunctionOnSet(f, S) + (h[y] - f[y])
<1>1. IsFiniteSet(S \ {y})
  BY FS_Subset
<1>2. SumFunctionOnSet(f, S) = f[y] + SumFunctionOnSet(f, S \ {y})
  BY SumWithout
<1>3. SumFunctionOnSet(h, S) = h[y] + SumFunctionOnSet(h, S \ {y})
  BY SumWithout
<1>4. SumFunctionOnSet(f, S \ {y}) = SumFunctionOnSet(h, S \ {y})
  BY <1>1, SameSummands
<1>5. SumFunctionOnSet(f, S \ {y}) \in Int
  BY <1>1, SumIsInt
<1> QED
  BY <1>2, <1>3, <1>4, <1>5

\* What is added to a set of summands is added to the sum.
LEMMA SumWith ==
  ASSUME NEW f, NEW S, IsFiniteSet(S), NEW y, y \notin S, \A x \in S \cup {y} : f[x] \in Int
  PROVE  SumFunctionOnSet(f, S \cup {y}) = f[y] + SumFunctionOnSet(f, S)
<1>1. (S \cup {y}) \ {y} = S /\ IsFiniteSet(S \cup {y}) /\ y \in S \cup {y}
  BY FS_AddElement
<1>2. SumFunctionOnSet(f, S \cup {y}) = f[y] + SumFunctionOnSet(f, (S \cup {y}) \ {y})
  BY <1>1, SumWithout
<1> QED
  BY <1>1, <1>2

\* What is added to some of the summands is added to the sum.
LEMMA SumGrows ==
  ASSUME NEW f, NEW g, NEW h, NEW S, IsFiniteSet(S), NEW C \in SUBSET S,
         \A x \in S : f[x] \in Int /\ h[x] \in Int, \A x \in C : g[x] \in Int,
         \A x \in C : h[x] = f[x] + g[x], \A x \in S \ C : h[x] = f[x]
  PROVE  SumFunctionOnSet(h, S) = SumFunctionOnSet(f, S) + SumFunctionOnSet(g, C)
<1> DEFINE Fs(T) == SumFunctionOnSet(f, T)
<1> DEFINE Gs(T) == SumFunctionOnSet(g, T)
<1> DEFINE Hs(T) == SumFunctionOnSet(h, T)
<1> DEFINE G == {T \in SUBSET S : Hs(T) = Fs(T) + Gs(T \cap C)}
<1>1. ASSUME NEW T \in SUBSET S, \A U \in SUBSET T : U # T => U \in G PROVE T \in G
  <2>1. CASE T = {}
    <3>1. T \cap C = {}
      BY <2>1
    <3> QED
      BY <2>1, <3>1, SumOfNone
  <2>2. CASE T # {}
    <3>1. PICK x : x = ChosenOf(T)
      OBVIOUS
    <3>2. x \in T /\ IsFiniteSet(T)
      BY <2>2, <3>1, FS_Subset DEF ChosenOf
    <3>3. PICK U : U = T \ {x}
      OBVIOUS
    <3>4. U \in G /\ U \subseteq S /\ IsFiniteSet(U) /\ IsFiniteSet(U \cap C)
      BY <1>1, <3>2, <3>3, FS_Subset
    <3>5. Hs(T) = h[x] + Hs(U) /\ Fs(T) = f[x] + Fs(U)
      BY <2>2, <3>1, <3>2, <3>3, SumUnfolds
    <3>6. Hs(U) = Fs(U) + Gs(U \cap C)
      BY <3>4
    <3>7. Fs(U) \in Int /\ Gs(U \cap C) \in Int
      BY <3>4, SumIsInt
    <3>8. PICK fu \in Int, gu \in Int : fu = Fs(U) /\ gu = Gs(U \cap C)
      BY <3>7
    <3>9. CASE x \in C
      <4>1. T \cap C = (U \cap C) \cup {x} /\ x \notin U \cap C
        BY <3>2, <3>3, <3>9
      <4>2. Gs(T \cap C) = g[x] + gu
        BY <3>4, <3>8, <3>9, <4>1, SumWith
      <4>3. h[x] = f[x] + g[x] /\ f[x] \in Int /\ g[x] \in Int
        BY <3>2, <3>9
      <4> HIDE DEF Fs, Gs, Hs
      <4> QED
        BY <3>5, <3>6, <3>8, <4>2, <4>3
    <3>10. CASE x \notin C
      <4>1. T \cap C = U \cap C
        BY <3>2, <3>3, <3>10
      <4>2. h[x] = f[x] /\ f[x] \in Int
        BY <3>2, <3>10
      <4>3. Gs(T \cap C) = gu
        BY <3>8, <4>1
      <4> HIDE DEF Fs, Gs, Hs
      <4>4. Hs(T) = f[x] + (fu + gu) /\ Fs(T) = f[x] + fu
        BY <3>5, <3>6, <3>8, <4>2
      <4>5. Hs(T) = Fs(T) + Gs(T \cap C)
        BY <4>2, <4>3, <4>4
      <4> QED
        BY <4>5
    <3> QED
      BY <3>9, <3>10
  <2> QED
    BY <2>1, <2>2
<1>2. SUBSET S \subseteq G
  <2> HIDE DEF G
  <2> QED
    BY <1>1, SubsetInduction
<1>3. S \cap C = C /\ Hs(S) = Fs(S) + Gs(S \cap C)
  BY <1>2
<1> QED
  BY <1>3

\* Equal summands: as many times the one.
LEMMA SumOfEqual ==
  ASSUME NEW f, NEW S, IsFiniteSet(S), NEW n \in Int, \A x \in S : f[x] = n
  PROVE  SumFunctionOnSet(f, S) = n * Cardinality(S)
<1> DEFINE Sum(T) == SumFunctionOnSet(f, T)
<1> DEFINE G == {T \in SUBSET S : Sum(T) = n * Cardinality(T)}
<1>1. ASSUME NEW T \in SUBSET S, \A U \in SUBSET T : U # T => U \in G PROVE T \in G
  <2>1. CASE T = {}
    BY <2>1, SumOfNone, FS_EmptySet
  <2>2. CASE T # {}
    <3>1. PICK x : x = ChosenOf(T)
      OBVIOUS
    <3>2. x \in T /\ IsFiniteSet(T) /\ IsFiniteSet(T \ {x})
      BY <2>2, <3>1, FS_Subset DEF ChosenOf
    <3>3. Sum(T) = f[x] + Sum(T \ {x})
      BY <2>2, <3>1, <3>2, SumUnfolds
    <3>4. f[x] = n
      BY <3>2
    <3>5. Sum(T \ {x}) = n * Cardinality(T \ {x})
      BY <1>1, <3>2
    <3>6. Cardinality(T \ {x}) = Cardinality(T) - 1 /\ Cardinality(T) \in Nat
      BY <3>2, FS_RemoveElement, FS_CardinalityType
    <3>7. PICK c \in Nat : c = Cardinality(T)
      BY <3>6
    <3>8. n + n * (c - 1) = n * c
      OBVIOUS
    <3> HIDE DEF Sum
    <3>9. Sum(T) = n + n * (c - 1)
      BY <3>3, <3>4, <3>5, <3>6, <3>7
    <3> QED
      BY <3>7, <3>8, <3>9
  <2> QED
    BY <2>1, <2>2
<1>2. SUBSET S \subseteq G
  <2> HIDE DEF G
  <2> QED
    BY <1>1, SubsetInduction
<1> QED
  BY <1>2

\* Zeros sum up to zero.
LEMMA SumOfZeros ==
  ASSUME NEW S, IsFiniteSet(S), NEW f, f = [x \in S |-> 0]
  PROVE  SumFunction(f) = 0
<1>1. SumFunctionOnSet(f, S) = 0 * Cardinality(S)
  BY SumOfEqual
<1>2. Cardinality(S) \in Nat
  BY FS_CardinalityType
<1> QED
  BY <1>1, <1>2 DEF SumFunction

\* The sum of a whole function where one value changes.
LEMMA WholeSumMoves ==
  ASSUME NEW S, IsFiniteSet(S), NEW f, NEW h, f = [x \in S |-> f[x]], h = [x \in S |-> h[x]],
         NEW y \in S, \A x \in S : f[x] \in Int /\ h[x] \in Int, \A x \in S \ {y} : f[x] = h[x]
  PROVE  SumFunction(h) = SumFunction(f) + (h[y] - f[y]) /\ SumFunction(f) \in Int
<1>1. SumFunctionOnSet(h, S) = SumFunctionOnSet(f, S) + (h[y] - f[y])
  BY SumMoves
<1>2. SumFunctionOnSet(f, S) \in Int
  BY SumIsInt
<1> QED
  BY <1>1, <1>2 DEF SumFunction

\* One value of a function grows by n, and so does its sum.
LEMMA AddedOnce ==
  ASSUME NEW S, IsFiniteSet(S), NEW f \in [S -> Nat], NEW h \in [S -> Nat], NEW y \in S, NEW n \in Nat,
         h[y] = f[y] + n, \A x \in S \ {y} : f[x] = h[x]
  PROVE  SumFunction(h) = SumFunction(f) + n /\ SumFunction(f) \in Nat
<1>1. f = [x \in S |-> f[x]] /\ h = [x \in S |-> h[x]]
  OBVIOUS
<1>2. \A x \in S : f[x] \in Int /\ h[x] \in Int
  OBVIOUS
<1>3. h[y] - f[y] = n
  OBVIOUS
<1>4. SumFunction(h) = SumFunction(f) + (h[y] - f[y])
  BY <1>1, <1>2, WholeSumMoves
<1>5. SumFunction(f) \in Nat
  BY SumIsNat DEF SumFunction
<1> QED
  BY <1>3, <1>4, <1>5
=============================================================================
