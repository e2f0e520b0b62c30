---------------------------- MODULE SumTheorems ----------------------------
(***************************************************************************)
(* Facts about SumFunctionOnSet(f, S), the sum of f[x] over a finite set S,*)
(* for every finite S and every integer-valued f.  The settlement module   *)
(* adds up positions and reserves with it, so conservation of value is a   *)
(* statement about these sums.                                             *)
(*                                                                         *)
(* The library defines the sum as a fold that takes out elements in an     *)
(* order fixed by CHOOSE.  SumRemove shows that the order does not matter; *)
(* the rest follows from it by induction over the subsets of S, stated     *)
(* with a set G instead of a predicate.                                    *)
(***************************************************************************)
EXTENDS Integers, FiniteSets, Functions, FiniteSetTheorems, WellFoundedInduction, TLAPS

\* The element the fold takes out first.
Pick(T) == CHOOSE x \in T : TRUE

\* s tabulates the fold over every subset of S.
IsSum(s, f, S) ==
  s = [T \in SUBSET S |-> IF T = {} THEN 0 ELSE f[Pick(T)] + s[T \ {Pick(T)}]]

\* The sum is the table's entry for the whole set.
LEMMA SumUnfold ==
  ASSUME NEW f, NEW S
  PROVE  SumFunctionOnSet(f, S) = (CHOOSE s : IsSum(s, f, S))[S]
BY DEF SumFunctionOnSet, FoldFunctionOnSet, MapThenFoldSet, IsSum, Pick

\* Induction over the subsets of a finite set: G holds all of them if it holds
\* each one whose proper subsets it holds.
LEMMA FiniteInduction ==
  ASSUME NEW S, IsFiniteSet(S), NEW G,
         \A T \in SUBSET S : (\A U \in SUBSET T : U # T => U \in G) => T \in G
  PROVE  SUBSET S \subseteq G
<1> DEFINE B == (SUBSET S) \ G
<1>1. SUFFICES ASSUME B # {} PROVE FALSE
  OBVIOUS
<1>2. IsWellFoundedOn(StrictSubsetOrdering(S), SUBSET S)
  BY FS_StrictSubsetOrderingWellFounded, FS_FiniteSubsetsOfFinite, Zenon
<1>3. PICK T \in B : \A U \in B : ~ (<<U, T>> \in StrictSubsetOrdering(S))
  <2> DEFINE R == StrictSubsetOrdering(S)
  <2>1. B \subseteq SUBSET S
    OBVIOUS
  <2>2. IsWellFoundedOn(R, SUBSET S)
    BY <1>2
  <2> HIDE DEF B, R
  <2>3. \E T \in B : \A U \in B : ~ (<<U, T>> \in R)
    BY <1>1, <2>2, <2>1, WFMin
  <2> QED BY <2>3 DEF R
<1>4. ASSUME NEW U \in SUBSET T, U # T PROVE U \in G
  <2>1. U \in SUBSET S /\ T \in SUBSET S
    OBVIOUS
  <2>2. <<U, T>> \in StrictSubsetOrdering(S)
    BY <1>4, <2>1 DEF StrictSubsetOrdering
  <2> QED BY <1>3, <2>1, <2>2
<1> QED BY <1>3, <1>4

\* The fold takes its element from the set.
LEMMA PickIn ==
  ASSUME NEW T, T # {}
  PROVE  Pick(T) \in T
BY DEF Pick

\* One line of the table.
LEMMA SumTable ==
  ASSUME NEW S, NEW f, NEW s, IsSum(s, f, S), NEW T \in SUBSET S
  PROVE  s[T] = IF T = {} THEN 0 ELSE f[Pick(T)] + s[T \ {Pick(T)}]
BY DEF IsSum

\* The tables of two sets agree on the subsets of the smaller one.
LEMMA SumTablesAgree ==
  ASSUME NEW A, NEW B, NEW f, NEW s, NEW t, IsFiniteSet(A),
         IsSum(s, f, A), IsSum(t, f, B), A \subseteq B
  PROVE  \A T \in SUBSET A : s[T] = t[T]
<1> DEFINE G == {T \in SUBSET A : s[T] = t[T]}
<1>1. ASSUME NEW T \in SUBSET A, \A U \in SUBSET T : U # T => U \in G
      PROVE  T \in G
  <2>0. T \in SUBSET B
    OBVIOUS
  <2>1. s[T] = IF T = {} THEN 0 ELSE f[Pick(T)] + s[T \ {Pick(T)}]
    BY SumTable
  <2>2. t[T] = IF T = {} THEN 0 ELSE f[Pick(T)] + t[T \ {Pick(T)}]
    BY <2>0 DEF IsSum
  <2>3. CASE T # {}
    <3>1. T \ {Pick(T)} \in SUBSET T /\ T \ {Pick(T)} # T
      BY <2>3, PickIn
    <3>2. s[T \ {Pick(T)}] = t[T \ {Pick(T)}]
      BY <1>1, <3>1
    <3> QED BY <2>1, <2>2, <2>3, <3>2
  <2> QED BY <2>1, <2>2, <2>3
<1>2. SUBSET A \subseteq G
  <2> HIDE DEF G
  <2> QED BY <1>1, FiniteInduction
<1> QED BY <1>2

\* Every finite set has a table, so the CHOOSE behind the fold is met.
LEMMA SumExists ==
  ASSUME NEW S, IsFiniteSet(S), NEW f
  PROVE  \E s : IsSum(s, f, S)
<1> DEFINE G == {T \in SUBSET S : \E s : IsSum(s, f, T)}
<1>1. ASSUME NEW T \in SUBSET S, \A U \in SUBSET T : U # T => U \in G
      PROVE  T \in G
  <2> DEFINE tab(U) == CHOOSE s : IsSum(s, f, U)
             val(U) == IF U = {} THEN 0 ELSE f[Pick(U)] + tab(U \ {Pick(U)})[U \ {Pick(U)}]
             s == [U \in SUBSET T |-> val(U)]
  <2>1. \A U \in SUBSET T : U # T => IsSum(tab(U), f, U)
    BY <1>1
  <2>2. \A U \in SUBSET T : U # {} => U \ {Pick(U)} \in SUBSET T /\ U \ {Pick(U)} # T
    BY PickIn
  <2>3. ASSUME NEW U \in SUBSET T, U # {}
        PROVE  s[U \ {Pick(U)}] = tab(U \ {Pick(U)})[U \ {Pick(U)}]
    <3> DEFINE W == U \ {Pick(U)}
    <3>1. W \in SUBSET T /\ W # T /\ IsSum(tab(W), f, W) /\ IsFiniteSet(W)
      BY <2>1, <2>2, <2>3, FS_Subset
    <3>2. tab(W)[W] = IF W = {} THEN 0 ELSE f[Pick(W)] + tab(W)[W \ {Pick(W)}]
      <4> HIDE DEF W, tab
      <4> QED BY <3>1, SumTable
    <3>3. CASE W # {}
      <4> DEFINE V == W \ {Pick(W)}
      <4>1. V \in SUBSET T /\ V # T /\ V \subseteq W /\ IsSum(tab(V), f, V) /\ IsFiniteSet(V)
        BY <2>1, <2>2, <3>1, <3>3, FS_Subset
      <4>2. tab(V)[V] = tab(W)[V]
        <5> HIDE DEF V, W, tab
        <5> QED BY <3>1, <4>1, SumTablesAgree
      <4> QED BY <3>1, <3>2, <3>3, <4>2
    <3> QED BY <3>1, <3>2, <3>3
  <2>4. s = [U \in SUBSET T |-> IF U = {} THEN 0 ELSE f[Pick(U)] + s[U \ {Pick(U)}]]
    <3>1. ASSUME NEW U \in SUBSET T
          PROVE  val(U) = IF U = {} THEN 0 ELSE f[Pick(U)] + s[U \ {Pick(U)}]
      <4>1. U # {} => s[U \ {Pick(U)}] = tab(U \ {Pick(U)})[U \ {Pick(U)}]
        BY <2>3
      <4> HIDE DEF s, tab
      <4> QED BY <4>1
    <3>2. DOMAIN s = SUBSET T /\ s = [U \in SUBSET T |-> val(U)]
      OBVIOUS
    <3> HIDE DEF s, val
    <3> QED BY <3>1, <3>2
  <2>5. IsSum(s, f, T)
    <3> HIDE DEF s, val
    <3> QED BY <2>4 DEF IsSum
  <2> QED BY <2>5
<1>2. SUBSET S \subseteq G
  <2> HIDE DEF G
  <2> QED BY <1>1, FiniteInduction
<1> QED BY <1>2

\* Every entry of a table is a sum.
LEMMA SumIsTable ==
  ASSUME NEW S, IsFiniteSet(S), NEW f, NEW s, IsSum(s, f, S), NEW T \in SUBSET S
  PROVE  s[T] = SumFunctionOnSet(f, T)
<1> DEFINE t == CHOOSE t : IsSum(t, f, T)
<1>1. IsFiniteSet(T)
  BY FS_Subset
<1>2. IsSum(t, f, T)
  BY <1>1, SumExists
<1>3. SumFunctionOnSet(f, T) = t[T]
  BY SumUnfold
<1> HIDE DEF t
<1>4. t[T] = s[T]
  BY <1>1, <1>2, SumTablesAgree
<1> QED BY <1>3, <1>4

\* The recursion equation of the sum.
LEMMA SumStep ==
  ASSUME NEW S, IsFiniteSet(S), NEW f
  PROVE  SumFunctionOnSet(f, S) =
           IF S = {} THEN 0 ELSE f[Pick(S)] + SumFunctionOnSet(f, S \ {Pick(S)})
<1>1. PICK s : IsSum(s, f, S)
  BY SumExists
<1>2. s[S] = IF S = {} THEN 0 ELSE f[Pick(S)] + s[S \ {Pick(S)}]
  BY <1>1, SumTable
<1>3. s[S] = SumFunctionOnSet(f, S) /\ s[S \ {Pick(S)}] = SumFunctionOnSet(f, S \ {Pick(S)})
  BY <1>1, SumIsTable
<1> QED BY <1>2, <1>3

\* The empty sum is zero.
THEOREM SumEmpty == \A f : SumFunctionOnSet(f, {}) = 0
BY SumStep, FS_EmptySet

\* A sum of integers is an integer.
THEOREM SumType ==
  ASSUME NEW S, IsFiniteSet(S), NEW f, \A x \in S : f[x] \in Int
  PROVE  SumFunctionOnSet(f, S) \in Int
<1> DEFINE G == {T \in SUBSET S : SumFunctionOnSet(f, T) \in Int}
<1>1. ASSUME NEW T \in SUBSET S, \A U \in SUBSET T : U # T => U \in G
      PROVE  T \in G
  <2>1. SumFunctionOnSet(f, T) = IF T = {} THEN 0 ELSE f[Pick(T)] + SumFunctionOnSet(f, T \ {Pick(T)})
    BY SumStep, FS_Subset
  <2>2. CASE T # {}
    <3>1. Pick(T) \in S /\ T \ {Pick(T)} \in SUBSET T /\ T \ {Pick(T)} # T
      BY <2>2, PickIn
    <3>2. SumFunctionOnSet(f, T \ {Pick(T)}) \in Int
      BY <1>1, <3>1
    <3> QED BY <2>1, <2>2, <3>1, <3>2
  <2> QED BY <2>1, <2>2
<1>2. SUBSET S \subseteq G
  <2> HIDE DEF G
  <2> QED BY <1>1, FiniteInduction
<1> QED BY <1>2

\* Any element may be taken out first.
THEOREM SumRemove ==
  ASSUME NEW S, IsFiniteSet(S), NEW f, \A x \in S : f[x] \in Int
  PROVE  \A y \in S : SumFunctionOnSet(f, S) = f[y] + SumFunctionOnSet(f, S \ {y})
<1> DEFINE F(T) == SumFunctionOnSet(f, T)
           G == {T \in SUBSET S : \A y \in T : F(T) = f[y] + F(T \ {y})}
<1>1. ASSUME NEW T \in SUBSET S, \A U \in SUBSET T : U # T => U \in G
      PROVE  T \in G
  <2>1. SUFFICES ASSUME NEW y \in T PROVE F(T) = f[y] + F(T \ {y})
    OBVIOUS
  <2> DEFINE x == Pick(T)
  <2>2. x \in T /\ F(T) = f[x] + F(T \ {x})
    BY SumStep, PickIn, FS_Subset
  <2>3. CASE x = y
    BY <2>2, <2>3
  <2>4. CASE x # y
    <3> DEFINE V == T \ {x, y}
    <3>1. y \in T \ {x} /\ T \ {x} \in SUBSET T /\ T \ {x} # T /\ (T \ {x}) \ {y} = V
      BY <2>2, <2>4
    <3>2. x \in T \ {y} /\ T \ {y} \in SUBSET T /\ T \ {y} # T /\ (T \ {y}) \ {x} = V
      BY <2>2, <2>4
    <3>3. F(T \ {x}) = f[y] + F(V)
      BY <1>1, <3>1
    <3>4. F(T \ {y}) = f[x] + F(V)
      BY <1>1, <3>2
    <3>5. F(V) \in Int /\ f[x] \in Int /\ f[y] \in Int
      BY SumType, FS_Subset, <2>2
    <3> HIDE DEF F, V, x
    <3> QED BY <2>2, <3>3, <3>4, <3>5
  <2> QED BY <2>3, <2>4
<1>2. SUBSET S \subseteq G
  <2> HIDE DEF G
  <2> QED BY <1>1, FiniteInduction
<1> QED BY <1>2

\* Functions that agree on S have the same sum over S.
THEOREM SumCong ==
  ASSUME NEW S, IsFiniteSet(S), NEW f, NEW g, \A x \in S : f[x] = g[x]
  PROVE  SumFunctionOnSet(f, S) = SumFunctionOnSet(g, S)
<1> DEFINE G == {T \in SUBSET S : SumFunctionOnSet(f, T) = SumFunctionOnSet(g, T)}
<1>1. ASSUME NEW T \in SUBSET S, \A U \in SUBSET T : U # T => U \in G
      PROVE  T \in G
  <2>1. /\ SumFunctionOnSet(f, T) =
             IF T = {} THEN 0 ELSE f[Pick(T)] + SumFunctionOnSet(f, T \ {Pick(T)})
        /\ SumFunctionOnSet(g, T) =
             IF T = {} THEN 0 ELSE g[Pick(T)] + SumFunctionOnSet(g, T \ {Pick(T)})
    BY SumStep, FS_Subset
  <2>2. CASE T # {}
    <3>1. Pick(T) \in S /\ T \ {Pick(T)} \in SUBSET T /\ T \ {Pick(T)} # T
      BY <2>2, PickIn
    <3>2. SumFunctionOnSet(f, T \ {Pick(T)}) = SumFunctionOnSet(g, T \ {Pick(T)})
      BY <1>1, <3>1
    <3> QED BY <2>1, <2>2, <3>1, <3>2
  <2> QED BY <2>1, <2>2
<1>2. SUBSET S \subseteq G
  <2> HIDE DEF G
  <2> QED BY <1>1, FiniteInduction
<1> QED BY <1>2

\* A sum of natural numbers is a natural number.
THEOREM SumNat ==
  ASSUME NEW S, IsFiniteSet(S), NEW f, \A x \in S : f[x] \in Nat
  PROVE  SumFunctionOnSet(f, S) \in Nat
<1> DEFINE G == {T \in SUBSET S : SumFunctionOnSet(f, T) \in Nat}
<1>1. ASSUME NEW T \in SUBSET S, \A U \in SUBSET T : U # T => U \in G
      PROVE  T \in G
  <2>1. SumFunctionOnSet(f, T) = IF T = {} THEN 0 ELSE f[Pick(T)] + SumFunctionOnSet(f, T \ {Pick(T)})
    BY SumStep, FS_Subset
  <2>2. CASE T # {}
    <3>1. Pick(T) \in S /\ T \ {Pick(T)} \in SUBSET T /\ T \ {Pick(T)} # T
      BY <2>2, PickIn
    <3>2. SumFunctionOnSet(f, T \ {Pick(T)}) \in Nat
      BY <1>1, <3>1
    <3> QED BY <2>1, <2>2, <3>1, <3>2
  <2> QED BY <2>1, <2>2
<1>2. SUBSET S \subseteq G
  <2> HIDE DEF G
  <2> QED BY <1>1, FiniteInduction
<1> QED BY <1>2

\* The sum of a pointwise sum is the sum of the sums.
THEOREM SumAdd ==
  ASSUME NEW S, IsFiniteSet(S), NEW f, NEW g, NEW h,
         \A x \in S : f[x] \in Int /\ g[x] \in Int /\ h[x] = f[x] + g[x]
  PROVE  SumFunctionOnSet(h, S) = SumFunctionOnSet(f, S) + SumFunctionOnSet(g, S)
<1> DEFINE G == {T \in SUBSET S :
                   SumFunctionOnSet(h, T) = SumFunctionOnSet(f, T) + SumFunctionOnSet(g, T)}
<1>1. ASSUME NEW T \in SUBSET S, \A U \in SUBSET T : U # T => U \in G
      PROVE  T \in G
  <2> DEFINE x == Pick(T)
             V == T \ {x}
  <2>1. /\ SumFunctionOnSet(f, T) = IF T = {} THEN 0 ELSE f[x] + SumFunctionOnSet(f, V)
        /\ SumFunctionOnSet(g, T) = IF T = {} THEN 0 ELSE g[x] + SumFunctionOnSet(g, V)
        /\ SumFunctionOnSet(h, T) = IF T = {} THEN 0 ELSE h[x] + SumFunctionOnSet(h, V)
    BY SumStep, FS_Subset
  <2>2. CASE T # {}
    <3>1. x \in S /\ V \in SUBSET T /\ V # T
      BY <2>2, PickIn
    <3>2. SumFunctionOnSet(h, V) = SumFunctionOnSet(f, V) + SumFunctionOnSet(g, V)
      BY <1>1, <3>1
    <3>3. f[x] \in Int /\ g[x] \in Int /\ h[x] = f[x] + g[x]
      BY <3>1
    <3>4. IsFiniteSet(V) /\ \A y \in V : f[y] \in Int /\ g[y] \in Int
      BY <3>1, FS_Subset
    <3>5. SumFunctionOnSet(f, V) \in Int /\ SumFunctionOnSet(g, V) \in Int
      <4> HIDE DEF V, x
      <4> QED BY <3>4, SumType
    <3> HIDE DEF x, V
    <3> QED BY <2>1, <2>2, <3>2, <3>3, <3>5
  <2> QED BY <2>1, <2>2
<1>2. SUBSET S \subseteq G
  <2> HIDE DEF G
  <2> QED BY <1>1, FiniteInduction
<1> QED BY <1>2

\* A sum of zeros is zero.
THEOREM SumZero ==
  ASSUME NEW S, IsFiniteSet(S), NEW f, \A x \in S : f[x] = 0
  PROVE  SumFunctionOnSet(f, S) = 0
<1>1. SumFunctionOnSet(f, S) = SumFunctionOnSet(f, S) + SumFunctionOnSet(f, S)
  BY SumAdd
<1>2. SumFunctionOnSet(f, S) \in Int
  BY SumType
<1>3. \A k \in Int : k = k + k => k = 0
  OBVIOUS
<1> QED BY <1>1, <1>2, <1>3, Zenon

\* No term of a sum of natural numbers exceeds the sum.
THEOREM SumBounds ==
  ASSUME NEW S, IsFiniteSet(S), NEW f, \A x \in S : f[x] \in Nat, NEW y \in S
  PROVE  f[y] <= SumFunctionOnSet(f, S)
<1>1. SumFunctionOnSet(f, S) = f[y] + SumFunctionOnSet(f, S \ {y})
  BY SumRemove
<1>2. IsFiniteSet(S \ {y}) /\ \A x \in S \ {y} : f[x] \in Nat
  BY FS_Subset
<1>3. SumFunctionOnSet(f, S \ {y}) \in Nat
  BY <1>2, SumNat
<1> QED BY <1>1, <1>3

\* A sum of natural numbers over a part is no larger than over the whole.
THEOREM SumSubset ==
  ASSUME NEW S, IsFiniteSet(S), NEW f, \A x \in S : f[x] \in Nat, NEW T \in SUBSET S
  PROVE  SumFunctionOnSet(f, T) <= SumFunctionOnSet(f, S)
<1> DEFINE F(U) == SumFunctionOnSet(f, U)
           G == {V \in SUBSET S : \A U \in SUBSET V : F(U) <= F(V)}
<1>1. ASSUME NEW V \in SUBSET S, \A U \in SUBSET V : U # V => U \in G
      PROVE  V \in G
  <2>1. SUFFICES ASSUME NEW U \in SUBSET V PROVE F(U) <= F(V)
    OBVIOUS
  <2>2. F(U) \in Nat /\ F(V) \in Nat
    BY SumNat, FS_Subset
  <2>3. CASE U = V
    BY <2>2, <2>3
  <2>4. CASE U # V
    <3>1. PICK y \in V : y \notin U
      BY <2>4
    <3>2. V \ {y} \in SUBSET V /\ V \ {y} # V /\ U \in SUBSET (V \ {y})
      BY <3>1
    <3>3. F(U) <= F(V \ {y})
      BY <1>1, <3>2
    <3>4. IsFiniteSet(V) /\ \A x \in V : f[x] \in Int
      BY FS_Subset
    <3>5. F(V) = f[y] + F(V \ {y})
      BY <3>4, SumRemove
    <3>6. F(V \ {y}) \in Nat /\ f[y] \in Nat
      BY SumNat, FS_Subset
    <3> HIDE DEF F
    <3> QED BY <2>2, <3>3, <3>5, <3>6
  <2> QED BY <2>3, <2>4
<1>2. SUBSET S \subseteq G
  <2> HIDE DEF G
  <2> QED BY <1>1, FiniteInduction
<1> QED BY <1>2

\* A sum is the sum over what lies in A and the sum over the rest.
THEOREM SumSplit ==
  ASSUME NEW S, IsFiniteSet(S), NEW f, \A x \in S : f[x] \in Int, NEW A
  PROVE  SumFunctionOnSet(f, S) = SumFunctionOnSet(f, S \cap A) + SumFunctionOnSet(f, S \ A)
<1> DEFINE F(U) == SumFunctionOnSet(f, U)
           G == {V \in SUBSET S : F(V) = F(V \cap A) + F(V \ A)}
<1>1. ASSUME NEW V \in SUBSET S, \A U \in SUBSET V : U # V => U \in G
      PROVE  V \in G
  <2>1. SUFFICES F(V) = F(V \cap A) + F(V \ A)
    OBVIOUS
  <2>2. IsFiniteSet(V) /\ IsFiniteSet(V \cap A) /\ IsFiniteSet(V \ A)
    BY FS_Subset
  <2>3. CASE V = {}
    <3>1. V \cap A = {} /\ V \ A = {} /\ F({}) = 0
      BY <2>3, SumEmpty
    <3> HIDE DEF F
    <3> QED BY <2>3, <3>1
  <2>4. ASSUME NEW y \in V PROVE F(V) = F(V \cap A) + F(V \ A)
    <3> DEFINE W == V \ {y}
    <3>1. W \in SUBSET V /\ W # V
      OBVIOUS
    <3>2. F(W) = F(W \cap A) + F(W \ A)
      BY <1>1, <3>1
    <3>3. F(V) = f[y] + F(W)
      BY <2>2, SumRemove
    <3>4. F(W \cap A) \in Int /\ F(W \ A) \in Int /\ f[y] \in Int
      BY SumType, FS_Subset
    <3>5. CASE y \in A
      <4>1. y \in V \cap A /\ (V \cap A) \ {y} = W \cap A /\ V \ A = W \ A
        BY <3>5
      <4>2. F(V \cap A) = f[y] + F((V \cap A) \ {y})
        BY <2>2, <4>1, SumRemove
      <4> HIDE DEF F, W
      <4>3. F(V \cap A) = f[y] + F(W \cap A) /\ F(V \ A) = F(W \ A)
        BY <4>1, <4>2, Zenon
      <4> QED BY ONLY <3>2, <3>3, <3>4, <4>3
    <3>6. CASE y \notin A
      <4>1. y \in V \ A /\ (V \ A) \ {y} = W \ A /\ V \cap A = W \cap A
        BY <3>6
      <4>2. F(V \ A) = f[y] + F((V \ A) \ {y})
        BY <2>2, <4>1, SumRemove
      <4> HIDE DEF F, W
      <4>3. F(V \ A) = f[y] + F(W \ A) /\ F(V \cap A) = F(W \cap A)
        BY <4>1, <4>2, Zenon
      <4> QED BY ONLY <3>2, <3>3, <3>4, <4>3
    <3> QED BY <3>5, <3>6
  <2> QED BY <2>3, <2>4
<1>2. SUBSET S \subseteq G
  <2> HIDE DEF G
  <2> QED BY <1>1, FiniteInduction
<1> QED BY <1>2

\* Changing one term changes the sum by as much.
THEOREM SumUpdate ==
  ASSUME NEW S, IsFiniteSet(S), NEW f, NEW g, NEW y \in S, NEW k \in Int,
         \A x \in S : f[x] \in Int,
         g[y] = f[y] + k, \A x \in S : x # y => g[x] = f[x]
  PROVE  SumFunctionOnSet(g, S) = SumFunctionOnSet(f, S) + k
<1>1. SumFunctionOnSet(f, S) = f[y] + SumFunctionOnSet(f, S \ {y})
  BY SumRemove
<1>2. \A x \in S : g[x] \in Int
  OBVIOUS
<1>3. SumFunctionOnSet(g, S) = g[y] + SumFunctionOnSet(g, S \ {y})
  BY <1>2, SumRemove
<1>4. IsFiniteSet(S \ {y}) /\ (\A x \in S \ {y} : g[x] = f[x]) /\ \A x \in S \ {y} : f[x] \in Int
  BY FS_Subset
<1>5. SumFunctionOnSet(g, S \ {y}) = SumFunctionOnSet(f, S \ {y})
  BY <1>4, SumCong
<1>6. SumFunctionOnSet(f, S \ {y}) \in Int /\ f[y] \in Int
  BY <1>4, SumType
<1> QED BY <1>1, <1>3, <1>5, <1>6

\* Moving an amount from one term to another leaves the sum alone.
THEOREM SumTransfer ==
  ASSUME NEW S, IsFiniteSet(S), NEW f, NEW g, NEW y \in S, NEW z \in S, y # z, NEW k \in Int,
         \A x \in S : f[x] \in Int,
         g[y] = f[y] - k, g[z] = f[z] + k, \A x \in S : x # y /\ x # z => g[x] = f[x]
  PROVE  SumFunctionOnSet(g, S) = SumFunctionOnSet(f, S)
<1> DEFINE h == [x \in S |-> IF x = y THEN f[y] - k ELSE f[x]]
<1>1. h[y] = f[y] + (-k) /\ (\A x \in S : x # y => h[x] = f[x]) /\ -k \in Int
  BY f[y] \in Int
<1>2. (\A x \in S : h[x] \in Int) /\ g[z] = h[z] + k /\ (\A x \in S : x # z => g[x] = h[x])
  OBVIOUS
<1> HIDE DEF h
<1>3. SumFunctionOnSet(h, S) = SumFunctionOnSet(f, S) + (-k)
  BY <1>1, SumUpdate
<1>4. SumFunctionOnSet(g, S) = SumFunctionOnSet(h, S) + k
  BY <1>2, SumUpdate
<1>5. SumFunctionOnSet(f, S) \in Int
  BY SumType
<1> QED BY <1>3, <1>4, <1>5

===========================================================================
