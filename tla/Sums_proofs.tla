---------------------------- MODULE Sums_proofs ----------------------------
(***************************************************************************)
(* Sums over a finite set: facts about SumFunctionOnSet, which the market  *)
(* and the rate limit count with.                                          *)
(*                                                                         *)
(* The operator is a fold, which no induction on its data can be applied   *)
(* to here; the sum is the number of elements of a set with one element    *)
(* for each unit, and that set a least counterexample is one element away  *)
(* from none.                                                              *)
(***************************************************************************)
EXTENDS Integers, Functions, FiniteSetTheorems, TLAPS

\* The units of the terms: one element for each.
UnitsOf(f, S) == {p \in S \X Nat : p[2] < f[p[1]]}

\* One summand more adds its units.
LEMMA UnitsOfOneMore ==
    ASSUME NEW f, NEW S, IsFiniteSet(S), NEW x, x \notin S, f[x] \in Nat, \A y \in S : f[y] \in Nat,
           IsFiniteSet(UnitsOf(f, S))
    PROVE  /\ IsFiniteSet(UnitsOf(f, S \cup {x}))
           /\ Cardinality(UnitsOf(f, S \cup {x})) = f[x] + Cardinality(UnitsOf(f, S))
<1> DEFINE new == {x} \X (0 .. (f[x] - 1))
<1>0. \A p : p \in new <=> p \in {x} \X Nat /\ p[2] < f[x]
  OBVIOUS
<1>1. IsFiniteSet(new) /\ Cardinality(new) = f[x]
  <2>1. IsFiniteSet({x}) /\ Cardinality({x}) = 1
    BY FS_Singleton
  <2>2. IsFiniteSet(0 .. (f[x] - 1)) /\ Cardinality(0 .. (f[x] - 1)) = f[x]
    BY FS_Interval
  <2> DEFINE A == {x}  B == 0 .. (f[x] - 1)
  <2> HIDE DEF A, B
  <2>3. IsFiniteSet(A \X B) /\ Cardinality(A \X B) = 1 * f[x]
    BY <2>1, <2>2, FS_Product DEF A, B
  <2> QED BY <2>3 DEF A, B
<1> HIDE DEF new
<1>2. UnitsOf(f, S \cup {x}) = UnitsOf(f, S) \cup new
  <2>1. ASSUME NEW p PROVE p \in UnitsOf(f, S \cup {x}) <=> p \in UnitsOf(f, S) \cup new
    <3>1. p \in (S \cup {x}) \X Nat <=> p \in S \X Nat \/ p \in {x} \X Nat
      OBVIOUS
    <3>2. p \in {x} \X Nat => p[1] = x
      OBVIOUS
    <3>3. p \in S \X Nat => p[1] \in S
      OBVIOUS
    <3> QED BY <1>0, <3>1, <3>2, <3>3 DEF UnitsOf
  <2> QED BY <2>1
<1>3. UnitsOf(f, S) \cap new = {}
  BY <1>0 DEF UnitsOf
<1>4. Cardinality({}) = 0 /\ Cardinality(UnitsOf(f, S)) \in Nat
  BY FS_EmptySet, FS_CardinalityType
<1> DEFINE old == UnitsOf(f, S)
<1> HIDE DEF new, old
<1>5. /\ IsFiniteSet(old \cup new)
      /\ Cardinality(old \cup new) = Cardinality(old) + Cardinality(new) - Cardinality(old \cap new)
  BY <1>1, FS_Union DEF old
<1>6. Cardinality(old \cup new) = f[x] + Cardinality(old)
  <2>1. Cardinality(old \cap new) = 0
    BY <1>3, <1>4 DEF old
  <2>2. Cardinality(old) \in Nat /\ Cardinality(new) = f[x]
    BY <1>1, <1>4 DEF old
  <2> QED BY <1>5, <2>1, <2>2
<1> QED BY <1>2, <1>5, <1>6 DEF old

\* Finitely many summands have finitely many units.
LEMMA UnitsFinite ==
    ASSUME NEW S, IsFiniteSet(S), NEW f, \A y \in S : f[y] \in Nat
    PROVE  IsFiniteSet(UnitsOf(f, S))
<1> DEFINE bad == {T \in SUBSET S : ~IsFiniteSet(UnitsOf(f, T))}
<1> SUFFICES ASSUME bad # {} PROVE FALSE
  OBVIOUS
<1>1. bad \subseteq FiniteSubsetsOf(S)
  BY FS_FiniteSubsetsOfFinite
<1>2. PICK T \in bad : \A U \in bad : <<U, T>> \notin StrictSubsetOrdering(S)
  BY <1>1, FS_StrictSubsetOrderingWellFounded, WFMin
<1>3. T # {}
  <2>1. UnitsOf(f, {}) = {}
    BY DEF UnitsOf
  <2> QED BY <1>2, <2>1, FS_EmptySet
<1>4. PICK x \in T : TRUE
  BY <1>3
<1>5. T \ {x} \notin bad
  BY <1>2 DEF StrictSubsetOrdering
<1>6. IsFiniteSet(T \ {x}) /\ (T \ {x}) \cup {x} = T
  BY FS_Subset
<1>7. IsFiniteSet(UnitsOf(f, (T \ {x}) \cup {x}))
  BY <1>5, <1>6, UnitsOfOneMore
<1> QED BY <1>2, <1>6, <1>7

\* The element the fold takes next, and the function it iterates.
OneOf(s) == CHOOSE x \in s : TRUE
Iter(f, S) == CHOOSE iter : iter = [s \in SUBSET S |-> IF s = {} THEN 0 ELSE f[OneOf(s)] + iter[s \ {OneOf(s)}]]

\* The fold of FiniteSetsExt, unfolded: it adds the summands in the order CHOOSE takes them.
LEMMA SumIs == ASSUME NEW f, NEW S PROVE SumFunctionOnSet(f, S) = Iter(f, S)[S]
BY DEF SumFunctionOnSet, FoldFunctionOnSet, MapThenFoldSet, Iter, OneOf

\* The fold is a function, as counting the units is one that takes the same steps.
LEMMA IterIs ==
    ASSUME NEW S, IsFiniteSet(S), NEW f, \A y \in S : f[y] \in Nat
    PROVE  Iter(f, S) = [s \in SUBSET S |-> IF s = {} THEN 0 ELSE f[OneOf(s)] + Iter(f, S)[s \ {OneOf(s)}]]
<1> DEFINE G == [s \in SUBSET S |-> Cardinality(UnitsOf(f, s))]
<1>1. ASSUME NEW s \in SUBSET S PROVE Cardinality(UnitsOf(f, s)) = IF s = {} THEN 0 ELSE f[OneOf(s)] + G[s \ {OneOf(s)}]
  <2>1. CASE s = {}
    <3>1. UnitsOf(f, {}) = {}
      BY DEF UnitsOf
    <3> QED BY <2>1, <3>1, FS_EmptySet
  <2>2. CASE s # {}
    <3>1. OneOf(s) \in s
      BY <2>2 DEF OneOf
    <3>2. IsFiniteSet(s \ {OneOf(s)}) /\ (s \ {OneOf(s)}) \cup {OneOf(s)} = s
      BY <3>1, FS_Subset
    <3>3. IsFiniteSet(UnitsOf(f, s \ {OneOf(s)}))
      BY <3>2, UnitsFinite
    <3>4. Cardinality(UnitsOf(f, s)) = f[OneOf(s)] + Cardinality(UnitsOf(f, s \ {OneOf(s)}))
      BY <3>1, <3>2, <3>3, UnitsOfOneMore
    <3> QED BY <2>2, <3>4
  <2> QED BY <2>1, <2>2
<1>2. G = [s \in SUBSET S |-> IF s = {} THEN 0 ELSE f[OneOf(s)] + G[s \ {OneOf(s)}]]
  BY <1>1
<1> HIDE DEF G
<1> QED BY <1>2 DEF Iter

\* A sum is the number of its units.
LEMMA SumUnits ==
    ASSUME NEW S, IsFiniteSet(S), NEW f, \A y \in S : f[y] \in Nat
    PROVE  SumFunctionOnSet(f, S) = Cardinality(UnitsOf(f, S))
<1> DEFINE bad == {T \in SUBSET S : Iter(f, S)[T] # Cardinality(UnitsOf(f, T))}
<1>1. bad = {}
  <2> SUFFICES ASSUME bad # {} PROVE FALSE
    OBVIOUS
  <2>1. bad \subseteq FiniteSubsetsOf(S)
    BY FS_FiniteSubsetsOfFinite
  <2>2. PICK T \in bad : \A U \in bad : <<U, T>> \notin StrictSubsetOrdering(S)
    BY <2>1, FS_StrictSubsetOrderingWellFounded, WFMin
  <2>3. Iter(f, S)[T] = IF T = {} THEN 0 ELSE f[OneOf(T)] + Iter(f, S)[T \ {OneOf(T)}]
    <3> DEFINE g == Iter(f, S)
    <3>1. g = [s \in SUBSET S |-> IF s = {} THEN 0 ELSE f[OneOf(s)] + g[s \ {OneOf(s)}]]
      BY IterIs
    <3> HIDE DEF g
    <3>2. g[T] = IF T = {} THEN 0 ELSE f[OneOf(T)] + g[T \ {OneOf(T)}]
      BY <3>1
    <3> QED BY <3>2 DEF g
  <2>4. CASE T = {}
    <3>1. UnitsOf(f, {}) = {}
      BY DEF UnitsOf
    <3> QED BY <2>2, <2>3, <2>4, <3>1, FS_EmptySet
  <2>5. CASE T # {}
    <3>1. OneOf(T) \in T
      BY <2>5 DEF OneOf
    <3>2. IsFiniteSet(T \ {OneOf(T)}) /\ (T \ {OneOf(T)}) \cup {OneOf(T)} = T
      BY <3>1, FS_Subset
    <3>3. T \ {OneOf(T)} \notin bad
      <4> DEFINE x == OneOf(T)
      <4> HIDE DEF x
      <4>1. <<T \ {x}, T>> \in StrictSubsetOrdering(S)
        BY <3>1 DEF StrictSubsetOrdering, x
      <4> QED BY <2>2, <4>1 DEF x
    <3>4. Cardinality(UnitsOf(f, T)) = f[OneOf(T)] + Cardinality(UnitsOf(f, T \ {OneOf(T)}))
      BY <3>1, <3>2, UnitsFinite, UnitsOfOneMore
    <3> QED BY <2>2, <2>3, <2>5, <3>3, <3>4
  <2> QED BY <2>4, <2>5
<1>2. Iter(f, S)[S] = Cardinality(UnitsOf(f, S))
  BY <1>1
<1> QED BY <1>2, SumIs

\* A sum is any one of its terms and the sum of the others.
LEMMA SumAdd ==
    ASSUME NEW S, IsFiniteSet(S), NEW f, \A y \in S : f[y] \in Nat, NEW x \in S
    PROVE  /\ SumFunctionOnSet(f, S) = f[x] + SumFunctionOnSet(f, S \ {x})
           /\ SumFunctionOnSet(f, S \ {x}) \in Nat
<1>1. IsFiniteSet(S \ {x}) /\ (S \ {x}) \cup {x} = S
  BY FS_Subset
<1>2. IsFiniteSet(UnitsOf(f, S \ {x}))
  BY <1>1, UnitsFinite
<1>3. Cardinality(UnitsOf(f, S)) = f[x] + Cardinality(UnitsOf(f, S \ {x}))
  BY <1>1, <1>2, UnitsOfOneMore
<1>4. SumFunctionOnSet(f, S) = Cardinality(UnitsOf(f, S)) /\ SumFunctionOnSet(f, S \ {x}) = Cardinality(UnitsOf(f, S \ {x}))
  BY <1>1, SumUnits
<1> QED BY <1>2, <1>3, <1>4, FS_CardinalityType

\* A sum of naturals is a natural.
LEMMA SumType ==
    ASSUME NEW S, IsFiniteSet(S), NEW f, \A y \in S : f[y] \in Nat
    PROVE  SumFunctionOnSet(f, S) \in Nat
BY UnitsFinite, SumUnits, FS_CardinalityType

\* A sum depends on its terms only.
LEMMA SumSame ==
    ASSUME NEW S, IsFiniteSet(S), NEW f, NEW g, \A y \in S : f[y] \in Nat /\ f[y] = g[y]
    PROVE  SumFunctionOnSet(f, S) = SumFunctionOnSet(g, S)
<1>1. UnitsOf(f, S) = UnitsOf(g, S)
  BY DEF UnitsOf
<1> QED BY <1>1, SumUnits

\* A term is at most the sum.
LEMMA SumAtLeast ==
    ASSUME NEW S, IsFiniteSet(S), NEW f, \A y \in S : f[y] \in Nat, NEW x \in S
    PROVE  SumFunctionOnSet(f, S) \in Nat /\ f[x] <= SumFunctionOnSet(f, S)
<1>1. f[x] \in Nat
  OBVIOUS
<1>2. SumFunctionOnSet(f, S) = f[x] + SumFunctionOnSet(f, S \ {x}) /\ SumFunctionOnSet(f, S \ {x}) \in Nat
  BY SumAdd
<1> QED BY <1>1, <1>2

\* A sum follows the change of one term.
LEMMA SumChanged ==
    ASSUME NEW S, IsFiniteSet(S), NEW f \in [S -> Nat], NEW x \in S,
           NEW g \in [S -> Nat], \A y \in S : y # x => g[y] = f[y]
    PROVE  SumFunctionOnSet(g, S) + f[x] = SumFunctionOnSet(f, S) + g[x]
<1> DEFINE rest == S \ {x}
<1>1. (\A y \in rest : g[y] \in Nat /\ g[y] = f[y]) /\ \A y \in S : g[y] \in Nat
  OBVIOUS
<1>2. IsFiniteSet(rest)
  BY FS_Subset
<1>3. SumFunctionOnSet(f, S) = f[x] + SumFunctionOnSet(f, rest) /\ SumFunctionOnSet(f, rest) \in Nat
  BY SumAdd
<1>4. SumFunctionOnSet(g, S) = g[x] + SumFunctionOnSet(g, rest)
  BY <1>1, SumAdd
<1> HIDE DEF rest
<1>5. SumFunctionOnSet(g, rest) = SumFunctionOnSet(f, rest)
  BY <1>1, <1>2, SumSame
<1>6. f[x] \in Nat /\ g[x] \in Nat
  OBVIOUS
<1> QED BY <1>3, <1>4, <1>5, <1>6

\* A sum over two sets apart is the sum of both.
LEMMA SumJoin ==
    ASSUME NEW S, IsFiniteSet(S), NEW T, IsFiniteSet(T), S \cap T = {},
           NEW f, \A y \in S \cup T : f[y] \in Nat
    PROVE  SumFunctionOnSet(f, S \cup T) = SumFunctionOnSet(f, S) + SumFunctionOnSet(f, T)
<1>1. UnitsOf(f, S \cup T) = UnitsOf(f, S) \cup UnitsOf(f, T)
  BY DEF UnitsOf
<1>2. UnitsOf(f, S) \cap UnitsOf(f, T) = {}
  BY DEF UnitsOf
<1>3. IsFiniteSet(UnitsOf(f, S)) /\ IsFiniteSet(UnitsOf(f, T)) /\ IsFiniteSet(S \cup T)
  BY UnitsFinite, FS_Union
<1>4. /\ SumFunctionOnSet(f, S) = Cardinality(UnitsOf(f, S))
      /\ SumFunctionOnSet(f, T) = Cardinality(UnitsOf(f, T))
      /\ SumFunctionOnSet(f, S \cup T) = Cardinality(UnitsOf(f, S \cup T))
  BY <1>3, SumUnits
<1> DEFINE U == UnitsOf(f, S)  V == UnitsOf(f, T)
<1>5. Cardinality(U \cup V) = Cardinality(U) + Cardinality(V) - Cardinality(U \cap V)
  BY <1>3, FS_Union
<1>6. Cardinality(U \cap V) = 0 /\ Cardinality(U) \in Nat /\ Cardinality(V) \in Nat
  BY <1>2, <1>3, FS_EmptySet, FS_CardinalityType
<1> HIDE DEF U, V
<1>7. Cardinality(U \cup V) = Cardinality(U) + Cardinality(V)
  BY <1>5, <1>6
<1> QED BY <1>1, <1>4, <1>7 DEF U, V

\* A sum whose terms are those of another, each at most as large, is at most that one.
LEMMA SumInto ==
    ASSUME NEW S, NEW T, IsFiniteSet(T), IsFiniteSet(S), NEW f, NEW g,
           \A y \in S : f[y] \in Nat, \A z \in T : g[z] \in Nat,
           NEW h \in [S -> T], \A y, z \in S : h[y] = h[z] => y = z,
           \A y \in S : f[y] <= g[h[y]]
    PROVE  SumFunctionOnSet(f, S) <= SumFunctionOnSet(g, T)
<1> DEFINE m == [p \in UnitsOf(f, S) |-> <<h[p[1]], p[2]>>]
<1>1. m \in Injection(UnitsOf(f, S), UnitsOf(g, T))
  <2>1. ASSUME NEW p \in UnitsOf(f, S) PROVE m[p] \in UnitsOf(g, T)
    <3>1. p[1] \in S /\ p[2] \in Nat /\ p[2] < f[p[1]]
      BY DEF UnitsOf
    <3>2. h[p[1]] \in T /\ f[p[1]] \in Nat /\ g[h[p[1]]] \in Nat /\ f[p[1]] <= g[h[p[1]]]
      BY <3>1
    <3>3. p[2] < g[h[p[1]]]
      BY <3>1, <3>2
    <3> QED BY <3>1, <3>2, <3>3 DEF UnitsOf
  <2>2. ASSUME NEW p \in UnitsOf(f, S), NEW q \in UnitsOf(f, S), m[p] = m[q] PROVE p = q
    <3>1. p \in S \X Nat /\ q \in S \X Nat
      BY DEF UnitsOf
    <3>2. h[p[1]] = h[q[1]] /\ p[2] = q[2]
      BY <2>2
    <3>3. p[1] = q[1]
      BY <3>1, <3>2
    <3> QED BY <3>1, <3>2, <3>3
  <2>3. m \in [UnitsOf(f, S) -> UnitsOf(g, T)]
    BY <2>1
  <2> HIDE DEF m
  <2> QED BY <2>2, <2>3 DEF Injection, IsInjective
<1>2. IsFiniteSet(UnitsOf(g, T)) /\ IsFiniteSet(UnitsOf(f, S))
  BY UnitsFinite
<1>3. Cardinality(UnitsOf(f, S)) <= Cardinality(UnitsOf(g, T))
  BY <1>1, <1>2, FS_Injection
<1> QED BY <1>3, SumUnits

\* A sum of nothing but zeroes is zero.
LEMMA SumZero ==
    ASSUME NEW S, IsFiniteSet(S), NEW f, \A y \in S : f[y] = 0
    PROVE  SumFunctionOnSet(f, S) = 0
<1>1. UnitsOf(f, S) = {}
  BY DEF UnitsOf
<1>2. \A y \in S : f[y] \in Nat
  OBVIOUS
<1> QED BY <1>1, <1>2, SumUnits, FS_EmptySet
=============================================================================
