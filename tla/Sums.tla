--------------------------------- MODULE Sums ---------------------------------
(***************************************************************************)
(* Sums over finite sets: what the limits of the bands, in minutes, are    *)
(* made of.  The library defines a sum by recursion on the subsets of the  *)
(* set and leaves its laws unproved; they are proved here from the         *)
(* smallest subset that would break them.                                  *)
(***************************************************************************)
EXTENDS FiniteSetsExt, FiniteSetTheorems, TLAPS

SumStep(f, s, T) ==
  IF T = {} THEN 0 ELSE LET x == CHOOSE x \in T : TRUE IN f[x] + s[T \ {x}]

\* The recursion behind SumFunctionOnSet(f, S), as a property of a function.
SumsOn(f, S, s) == s = [T \in SUBSET S |-> SumStep(f, s, T)]

(* A set of finite sets has a member without a smaller one.                *)
LEMMA SmallestSubset ==
  ASSUME NEW S, IsFiniteSet(S), NEW W \in SUBSET SUBSET S, W # {}
  PROVE  \E T \in W : \A U \in SUBSET T : U \in W => U = T
<1>1. IsWellFoundedOn(StrictSubsetOrdering(S), FiniteSubsetsOf(S))
  BY FS_StrictSubsetOrderingWellFounded
<1>2. W \subseteq FiniteSubsetsOf(S)
  BY FS_Subset DEF FiniteSubsetsOf
<1>3. PICK T \in W : \A U \in W : ~(<<U, T>> \in StrictSubsetOrdering(S))
  <2> HIDE DEF StrictSubsetOrdering
  <2> QED BY <1>1, <1>2, WFMin, Zenon
<1>4. \A U \in SUBSET T : U \in W => U = T
  BY <1>3 DEF StrictSubsetOrdering
<1> QED BY <1>4

(* Two functions that sum up agree on the sets they have in common.        *)
LEMMA SumsAgree ==
  ASSUME NEW f, NEW S, IsFiniteSet(S), NEW s, SumsOn(f, S, s),
         NEW R \in SUBSET S, NEW r, SumsOn(f, R, r)
  PROVE  \A T \in SUBSET R : s[T] = r[T]
<1> DEFINE W == {T \in SUBSET R : s[T] # r[T]}
<1> SUFFICES ASSUME W # {} PROVE FALSE
  OBVIOUS
<1>1. IsFiniteSet(R)
  BY FS_Subset
<1>2. PICK T \in W : \A U \in SUBSET T : U \in W => U = T
  <2> HIDE DEF W
  <2>1. W \in SUBSET SUBSET R
    BY DEF W
  <2> QED BY <1>1, <2>1, SmallestSubset
<1>3. s[T] = SumStep(f, s, T) /\ r[T] = SumStep(f, r, T)
  BY DEF SumsOn
<1>4. T # {}
  BY <1>3 DEF SumStep
<1>5. \A x \in T : s[T \ {x}] = r[T \ {x}]
  BY <1>2
<1>6. (CHOOSE x \in T : TRUE) \in T
  BY <1>4
<1>7. SumStep(f, s, T) = SumStep(f, r, T)
  BY <1>5, <1>6 DEF SumStep
<1> QED BY <1>3, <1>7

(* The recursion has a solution: it is built by size.                      *)
LEMMA SumsExist ==
  ASSUME NEW f, NEW S, IsFiniteSet(S)
  PROVE  \E s : SumsOn(f, S, s)
<1> DEFINE Upto(n, s) ==
      \A T \in SUBSET S : Cardinality(T) <= n => s[T] = SumStep(f, s, T)
           Missing == {n \in Nat : ~ \E s : DOMAIN s = SUBSET S /\ s = [T \in SUBSET S |-> s[T]] /\ Upto(n, s)}
<1>1. \A T \in SUBSET S : IsFiniteSet(T) /\ Cardinality(T) \in Nat /\ Cardinality(T) <= Cardinality(S)
  BY FS_Subset, FS_CardinalityType
<1>2. \A T \in SUBSET S : \A x \in T : Cardinality(T \ {x}) = Cardinality(T) - 1
  BY <1>1, FS_RemoveElement
<1>3. \A T \in SUBSET S : Cardinality(T) = 0 => T = {}
  BY <1>1, FS_EmptySet
<1>4. 0 \notin Missing
  <2> DEFINE z == [T \in SUBSET S |-> 0]
  <2>1. Upto(0, z)
    BY <1>1, <1>3 DEF SumStep
  <2>2. DOMAIN z = SUBSET S /\ z = [T \in SUBSET S |-> z[T]]
    OBVIOUS
  <2> HIDE DEF z
  <2> QED BY <2>1, <2>2
<1>5. ASSUME NEW n \in Nat, n \notin Missing PROVE n + 1 \notin Missing
  <2>1. PICK s : DOMAIN s = SUBSET S /\ Upto(n, s)
    BY <1>5
  <2> DEFINE t == [T \in SUBSET S |-> IF Cardinality(T) <= n THEN s[T] ELSE SumStep(f, s, T)]
  <2>2. DOMAIN t = SUBSET S /\ t = [T \in SUBSET S |-> t[T]]
    OBVIOUS
  <2>3. \A T \in SUBSET S : /\ Cardinality(T) <= n => t[T] = s[T]
                            /\ Cardinality(T) > n => t[T] = SumStep(f, s, T)
    BY <1>1
  <2> HIDE DEF t
  <2>4. ASSUME NEW T \in SUBSET S, Cardinality(T) <= n + 1 PROVE t[T] = SumStep(f, t, T)
    <3>1. t[T] = SumStep(f, s, T)
      BY <1>1, <2>1, <2>3
    <3>2. CASE T = {}
      BY <3>1, <3>2 DEF SumStep
    <3>3. CASE T # {}
      <4> DEFINE x == CHOOSE x \in T : TRUE
      <4>1. x \in T
        BY <3>3
      <4> HIDE DEF x
      <4>2. T \ {x} \in SUBSET S /\ Cardinality(T \ {x}) <= n
        BY <1>1, <1>2, <2>4, <4>1
      <4>3. t[T \ {x}] = s[T \ {x}]
        BY <2>3, <4>2
      <4> QED BY <3>1, <3>3, <4>3 DEF SumStep, x
    <3> QED BY <3>2, <3>3
  <2> QED BY <2>2, <2>4
<1>6. Missing = {}
  <2> SUFFICES ASSUME Missing # {} PROVE FALSE
    OBVIOUS
  <2> HIDE DEF Missing
  <2>1. Missing \subseteq Nat
    BY DEF Missing
  <2>2. PICK m \in Missing : \A k \in Missing : ~(<<k, m>> \in OpToRel(<, Nat))
    BY <2>1, NatLessThanWellFounded, WFMin, Zenon
  <2>3. \A k \in Missing : ~(k < m)
    BY <2>1, <2>2 DEF OpToRel
  <2>4. m # 0
    BY <1>4
  <2>5. m - 1 \in Nat /\ m - 1 \notin Missing /\ (m - 1) + 1 = m
    BY <2>1, <2>3, <2>4
  <2> QED BY <1>5, <2>5
<1>7. PICK s : s = [T \in SUBSET S |-> s[T]] /\ Upto(Cardinality(S), s)
  BY <1>6, FS_CardinalityType
<1>8. \A T \in SUBSET S : s[T] = SumStep(f, s, T)
  BY <1>1, <1>7
<1>9. s = [T \in SUBSET S |-> SumStep(f, s, T)]
  BY <1>7, <1>8
<1> QED BY <1>9 DEF SumsOn

(* The sum of the library is the recursion, on every subset of the set.    *)
LEMMA SumUnfolds ==
  ASSUME NEW f, NEW S, IsFiniteSet(S)
  PROVE  \E s : /\ SumsOn(f, S, s)
                /\ \A T \in SUBSET S : SumFunctionOnSet(f, T) = s[T]
<1>1. ASSUME NEW T, IsFiniteSet(T)
      PROVE  \E s : SumsOn(f, T, s) /\ SumFunctionOnSet(f, T) = s[T]
  <2> DEFINE Sums(s) == s = [U \in SUBSET T |->
                     IF U = {} THEN 0 ELSE LET x == CHOOSE x \in U : TRUE IN f[x] + s[U \ {x}]]
             s == CHOOSE s : Sums(s)
  <2>1. SumFunctionOnSet(f, T) = s[T]
    BY DEF SumFunctionOnSet, FoldFunctionOnSet, MapThenFoldSet
  <2>2. \A t : SumsOn(f, T, t) <=> Sums(t)
    BY DEF SumsOn, SumStep
  <2>3. \E t : Sums(t)
    <3> HIDE DEF Sums
    <3> QED BY <1>1, <2>2, SumsExist
  <2>4. Sums(s)
    <3> HIDE DEF Sums
    <3> QED BY <2>3
  <2> HIDE DEF Sums, s
  <2> QED BY <2>1, <2>2, <2>4
<1>2. PICK s : SumsOn(f, S, s)
  BY SumsExist
<1>3. ASSUME NEW T \in SUBSET S PROVE SumFunctionOnSet(f, T) = s[T]
  <2>1. IsFiniteSet(T)
    BY FS_Subset
  <2>2. PICK t : SumsOn(f, T, t) /\ SumFunctionOnSet(f, T) = t[T]
    BY <1>1, <2>1
  <2> QED BY <1>2, <2>2, SumsAgree
<1> QED BY <1>2, <1>3

(* The sum over nothing is 0, and over something it is one member and the  *)
(* sum of the rest.                                                        *)
LEMMA SumCases ==
  ASSUME NEW f
  PROVE  /\ SumFunctionOnSet(f, {}) = 0
         /\ \A S : IsFiniteSet(S) /\ S # {} =>
              \E x \in S : SumFunctionOnSet(f, S) = f[x] + SumFunctionOnSet(f, S \ {x})
<1>1. SumFunctionOnSet(f, {}) = 0
  <2>1. IsFiniteSet({}) /\ {} \in SUBSET {}
    BY FS_EmptySet
  <2>2. PICK s : SumsOn(f, {}, s) /\ \A T \in SUBSET {} : SumFunctionOnSet(f, T) = s[T]
    BY <2>1, SumUnfolds
  <2>3. s[{}] = SumStep(f, s, {})
    BY <2>1, <2>2 DEF SumsOn
  <2> QED BY <2>1, <2>2, <2>3 DEF SumStep
<1>2. ASSUME NEW S, IsFiniteSet(S), S # {}
      PROVE  \E x \in S : SumFunctionOnSet(f, S) = f[x] + SumFunctionOnSet(f, S \ {x})
  <2>1. PICK s : SumsOn(f, S, s) /\ \A T \in SUBSET S : SumFunctionOnSet(f, T) = s[T]
    BY <1>2, SumUnfolds
  <2> DEFINE x == CHOOSE x \in S : TRUE
  <2>2. x \in S
    BY <1>2
  <2>3. s[S] = f[x] + s[S \ {x}]
    BY <1>2, <2>1 DEF SumsOn, SumStep
  <2> HIDE DEF x
  <2> QED BY <2>1, <2>2, <2>3
<1> QED BY <1>1, <1>2

(* Sums of natural numbers are natural numbers.                            *)
LEMMA SumNat ==
  ASSUME NEW S, IsFiniteSet(S), NEW f, \A x \in S : f[x] \in Nat
  PROVE  SumFunctionOnSet(f, S) \in Nat
<1> DEFINE W == {T \in SUBSET S : SumFunctionOnSet(f, T) \notin Nat}
<1> SUFFICES ASSUME W # {} PROVE FALSE
  OBVIOUS
<1>1. PICK T \in W : \A U \in SUBSET T : U \in W => U = T
  <2> HIDE DEF W
  <2>1. W \in SUBSET SUBSET S
    BY DEF W
  <2> QED BY <2>1, SmallestSubset
<1>2. T # {} /\ IsFiniteSet(T)
  <2>1. T \in SUBSET S /\ SumFunctionOnSet(f, T) \notin Nat
    OBVIOUS
  <2> HIDE DEF W
  <2>2. SumFunctionOnSet(f, {}) = 0
    BY SumCases
  <2>3. T # {}
    BY <2>1, <2>2
  <2> QED BY <2>1, <2>3, FS_Subset
<1>3. PICK x \in T : SumFunctionOnSet(f, T) = f[x] + SumFunctionOnSet(f, T \ {x})
  BY <1>2, SumCases
<1>4. SumFunctionOnSet(f, T \ {x}) \in Nat
  BY <1>1
<1> QED BY <1>3, <1>4

(* It does not matter which member is taken out first.                     *)
LEMMA SumRemove ==
  ASSUME NEW S, IsFiniteSet(S), NEW f, \A x \in S : f[x] \in Nat
  PROVE  \A a \in S : SumFunctionOnSet(f, S) = SumFunctionOnSet(f, S \ {a}) + f[a]
<1> DEFINE Falls(T, a) == SumFunctionOnSet(f, T) = SumFunctionOnSet(f, T \ {a}) + f[a]
           W == {T \in SUBSET S : \E a \in T : ~Falls(T, a)}
<1> SUFFICES ASSUME W # {} PROVE FALSE
  OBVIOUS
<1>1. PICK T \in W : \A U \in SUBSET T : U \in W => U = T
  <2> HIDE DEF W
  <2>1. W \in SUBSET SUBSET S
    BY DEF W
  <2> QED BY <2>1, SmallestSubset
<1>2. PICK a \in T : ~Falls(T, a)
  BY <1>1
<1>3. \A U \in SUBSET S : IsFiniteSet(U) /\ SumFunctionOnSet(f, U) \in Nat
  BY FS_Subset, SumNat
<1>4. PICK x \in T : SumFunctionOnSet(f, T) = f[x] + SumFunctionOnSet(f, T \ {x})
  BY <1>1, <1>2, <1>3, SumCases
<1>5. SumFunctionOnSet(f, T \ {x}) \in Nat /\ SumFunctionOnSet(f, T \ {a}) \in Nat
      /\ f[x] \in Nat /\ f[a] \in Nat
  BY <1>1, <1>2, <1>3
<1>6. x # a
  BY <1>2, <1>4, <1>5
<1>7. Falls(T \ {x}, a) /\ Falls(T \ {a}, x)
  <2>1. \A y \in T : T \ {y} \notin W
    <3> HIDE DEF W
    <3> QED BY <1>1
  <2>2. \A y \in T : \A b \in T \ {y} : Falls(T \ {y}, b)
    BY <1>1, <2>1
  <2> HIDE DEF Falls
  <2> QED BY <1>2, <1>6, <2>2
<1>8. (T \ {x}) \ {a} = (T \ {a}) \ {x} /\ SumFunctionOnSet(f, (T \ {a}) \ {x}) \in Nat
  BY <1>1, <1>3
<1> QED BY <1>2, <1>4, <1>5, <1>7, <1>8

(* One member more.                                                        *)
LEMMA SumAdd ==
  ASSUME NEW S, IsFiniteSet(S), NEW f, NEW a, a \notin S, \A x \in S \cup {a} : f[x] \in Nat
  PROVE  SumFunctionOnSet(f, S \cup {a}) = SumFunctionOnSet(f, S) + f[a]
<1>1. IsFiniteSet(S \cup {a}) /\ (S \cup {a}) \ {a} = S
  BY FS_AddElement
<1> QED BY <1>1, SumRemove

(* A part sums up to no more than the whole.                               *)
LEMMA SumSubset ==
  ASSUME NEW S, IsFiniteSet(S), NEW f, \A x \in S : f[x] \in Nat, NEW R \in SUBSET S
  PROVE  SumFunctionOnSet(f, R) <= SumFunctionOnSet(f, S)
<1> DEFINE W == {T \in SUBSET S : R \subseteq T /\ ~(SumFunctionOnSet(f, R) <= SumFunctionOnSet(f, T))}
<1> SUFFICES ASSUME W # {} PROVE FALSE
  OBVIOUS
<1>1. PICK T \in W : \A U \in SUBSET T : U \in W => U = T
  <2> HIDE DEF W
  <2>1. W \in SUBSET SUBSET S
    BY DEF W
  <2> QED BY <2>1, SmallestSubset
<1>2. \A U \in SUBSET S : IsFiniteSet(U) /\ SumFunctionOnSet(f, U) \in Nat
  BY FS_Subset, SumNat
<1>3. PICK x \in T : x \notin R
  <2>1. R \subseteq T /\ T # R
    BY <1>1, <1>2
  <2> HIDE DEF W
  <2> QED BY <2>1
<1>4. SumFunctionOnSet(f, T) = SumFunctionOnSet(f, T \ {x}) + f[x]
  BY <1>1, <1>2, SumRemove
<1>5. SumFunctionOnSet(f, R) <= SumFunctionOnSet(f, T \ {x})
  BY <1>1, <1>3
<1>6. SumFunctionOnSet(f, T \ {x}) \in Nat /\ SumFunctionOnSet(f, R) \in Nat /\ f[x] \in Nat
  BY <1>1, <1>2
<1> QED BY <1>1, <1>4, <1>5, <1>6

(* The sum depends on the values at the members only.                      *)
LEMMA SumEqual ==
  ASSUME NEW S, IsFiniteSet(S), NEW f, NEW g, \A x \in S : f[x] = g[x], \A x \in S : f[x] \in Nat
  PROVE  SumFunctionOnSet(f, S) = SumFunctionOnSet(g, S)
<1> DEFINE W == {T \in SUBSET S : SumFunctionOnSet(f, T) # SumFunctionOnSet(g, T)}
<1> SUFFICES ASSUME W # {} PROVE FALSE
  OBVIOUS
<1>1. PICK T \in W : \A U \in SUBSET T : U \in W => U = T
  <2> HIDE DEF W
  <2>1. W \in SUBSET SUBSET S
    BY DEF W
  <2> QED BY <2>1, SmallestSubset
<1>2. IsFiniteSet(T) /\ T # {}
  BY SumCases, FS_Subset
<1>3. PICK x \in T : SumFunctionOnSet(f, T) = f[x] + SumFunctionOnSet(f, T \ {x})
  BY <1>2, SumCases
<1>4. \A y \in T : f[y] \in Nat /\ g[y] \in Nat /\ f[y] = g[y]
  BY <1>1
<1>5. SumFunctionOnSet(g, T) = SumFunctionOnSet(g, T \ {x}) + g[x]
  BY <1>2, <1>4, SumRemove
<1>6. SumFunctionOnSet(f, T \ {x}) = SumFunctionOnSet(g, T \ {x})
  BY <1>1
<1>7. SumFunctionOnSet(f, T \ {x}) \in Nat
  <2>1. IsFiniteSet(T \ {x}) /\ \A y \in T \ {x} : f[y] \in Nat
    BY <1>2, <1>4, FS_Subset
  <2> QED BY <2>1, SumNat
<1> QED BY <1>1, <1>3, <1>4, <1>5, <1>6, <1>7

===============================================================================
