------------------------------- MODULE FiniteSums -------------------------------
(***************************************************************************)
(* What SumFunctionOnSet of the community modules computes: the sum over a *)
(* finite set, in whatever order the fold takes the elements.  The fold is *)
(* a recursive function, so first comes its existence.  The inductions are *)
(* by the smallest counterexample.                                         *)
(***************************************************************************)
EXTENDS Integers, FiniteSetTheorems, WellFoundedInduction, Functions, TLAPS

\* The element a fold takes first.
Pick(s) == CHOOSE x \in s : TRUE

\* g[s] is the sum of f over s, for every part s of S.
IsTotal(f, S, g) ==
    g = [s \in SUBSET S |-> IF s = {} THEN 0 ELSE f[Pick(s)] + g[s \ {Pick(s)}]]

\* The fold written out.
LEMMA SumIsTotal ==
    ASSUME NEW f, NEW S
    PROVE  SumFunctionOnSet(f, S) = (CHOOSE g : IsTotal(f, S, g))[S]
BY DEF SumFunctionOnSet, FoldFunctionOnSet, MapThenFoldSet, IsTotal, Pick

\* What fails for a part of a finite set fails for a smallest one.
LEMMA SmallestPart ==
    ASSUME NEW S, IsFiniteSet(S), NEW Bad \in SUBSET (SUBSET S), Bad # {}
    PROVE  \E T \in Bad : \A U \in SUBSET T : U # T => U \notin Bad
<1>1. IsWellFoundedOn(StrictSubsetOrdering(S), FiniteSubsetsOf(S))
    BY FS_StrictSubsetOrderingWellFounded
<1>2. FiniteSubsetsOf(S) = SUBSET S
    BY FS_FiniteSubsetsOfFinite
<1>3. PICK T \in Bad : \A U \in Bad : ~ (<<U, T>> \in StrictSubsetOrdering(S))
    BY <1>1, <1>2, WFMin
<1>4. ASSUME NEW U \in SUBSET T, U # T, U \in Bad
      PROVE  FALSE
    BY <1>3, <1>4 DEF StrictSubsetOrdering
<1> QED BY <1>3, <1>4

\* The same for numbers.
LEMMA SmallestNumber ==
    ASSUME NEW Bad \in SUBSET Nat, Bad # {}
    PROVE  \E n \in Bad : \A k \in Nat : k < n => k \notin Bad
<1>1. PICK n \in Bad : \A k \in Bad : ~ (<<k, n>> \in OpToRel(<, Nat))
    BY NatLessThanWellFounded, WFMin
<1>2. ASSUME NEW k \in Nat, k < n, k \in Bad
      PROVE  FALSE
    BY <1>1, <1>2 DEF OpToRel
<1> QED BY <1>1, <1>2

\* The same function serves the parts of its set.
LEMMA TotalPart ==
    ASSUME NEW f, NEW S, NEW g, IsTotal(f, S, g), NEW T \in SUBSET S
    PROVE  IsTotal(f, T, [s \in SUBSET T |-> g[s]])
<1> DEFINE h == [s \in SUBSET T |-> g[s]]
<1>1. ASSUME NEW s \in SUBSET T
      PROVE  h[s] = IF s = {} THEN 0 ELSE f[Pick(s)] + h[s \ {Pick(s)}]
    <2>1. s \in SUBSET S /\ s \ {Pick(s)} \in SUBSET T
        OBVIOUS
    <2>2. g[s] = IF s = {} THEN 0 ELSE f[Pick(s)] + g[s \ {Pick(s)}]
        BY <2>1 DEF IsTotal
    <2>3. h[s] = g[s] /\ h[s \ {Pick(s)}] = g[s \ {Pick(s)}]
        BY <2>1
    <2> QED BY <2>2, <2>3
<1>2. h = [s \in SUBSET T |-> h[s]]
    OBVIOUS
<1> HIDE DEF h
<1>3. h = [s \in SUBSET T |-> IF s = {} THEN 0 ELSE f[Pick(s)] + h[s \ {Pick(s)}]]
    BY <1>1, <1>2
<1> QED BY <1>3 DEF IsTotal, h

\* The element taken is one of the set.
LEMMA PickIn ==
    ASSUME NEW s, s # {}
    PROVE  Pick(s) \in s
BY DEF Pick

\* There is one such function at most ...
LEMMA TotalUnique ==
    ASSUME NEW f, NEW S, IsFiniteSet(S), NEW g, NEW h, IsTotal(f, S, g), IsTotal(f, S, h)
    PROVE  g = h
<1> DEFINE Bad == {T \in SUBSET S : g[T] # h[T]}
<1>1. SUFFICES Bad = {}
    <2>1. g = [s \in SUBSET S |-> g[s]] /\ h = [s \in SUBSET S |-> h[s]]
        BY DEF IsTotal
    <2> QED BY <2>1
<1>2. SUFFICES ASSUME Bad # {} PROVE FALSE
    OBVIOUS
<1>3. PICK T \in Bad : \A U \in SUBSET T : U # T => U \notin Bad
    <2> HIDE DEF Bad
    <2>1. Bad \in SUBSET (SUBSET S)
        BY DEF Bad
    <2> QED BY <1>2, <2>1, SmallestPart
<1>4. T \in SUBSET S /\ g[T] # h[T]
    OBVIOUS
<1>5. /\ g[T] = IF T = {} THEN 0 ELSE f[Pick(T)] + g[T \ {Pick(T)}]
      /\ h[T] = IF T = {} THEN 0 ELSE f[Pick(T)] + h[T \ {Pick(T)}]
    BY <1>4 DEF IsTotal
<1>6. T # {}
    BY <1>4, <1>5
<1>7. g[T \ {Pick(T)}] = h[T \ {Pick(T)}]
    BY <1>3, <1>4, <1>6, PickIn
<1> QED BY <1>4, <1>5, <1>7

\* ... and there is one.
LEMMA TotalExists ==
    ASSUME NEW f, NEW S, IsFiniteSet(S)
    PROVE  \E g : IsTotal(f, S, g)
<1> DEFINE Bad == {T \in SUBSET S : ~ \E g : IsTotal(f, T, g)}
<1>1. SUFFICES ASSUME Bad # {} PROVE FALSE
    OBVIOUS
<1>2. PICK T \in Bad : \A U \in SUBSET T : U # T => U \notin Bad
    <2> HIDE DEF Bad
    <2>1. Bad \in SUBSET (SUBSET S)
        BY DEF Bad
    <2> QED BY <1>1, <2>1, SmallestPart
<1>3. T \in SUBSET S /\ IsFiniteSet(T) /\ ~ \E g : IsTotal(f, T, g)
    BY FS_Subset
<1> DEFINE Sum(U) == (CHOOSE g : IsTotal(f, U, g))[U]
           all == [s \in SUBSET T |-> IF s = {} THEN 0 ELSE f[Pick(s)] + Sum(s \ {Pick(s)})]
<1>4. ASSUME NEW U \in SUBSET T, U # T
      PROVE  IsTotal(f, U, CHOOSE g : IsTotal(f, U, g)) /\ IsFiniteSet(U)
    BY <1>2, <1>3, <1>4, FS_Subset
<1>5. ASSUME NEW U \in SUBSET T, U # T, U # {}
      PROVE  Sum(U) = f[Pick(U)] + Sum(U \ {Pick(U)})
    <2> DEFINE g == CHOOSE g : IsTotal(f, U, g)
               V == U \ {Pick(U)}
    <2>1. IsTotal(f, U, g) /\ IsFiniteSet(U)
        BY <1>4, <1>5
    <2>2. V \in SUBSET U /\ V \in SUBSET T /\ V # T /\ V # U
        BY <1>5, PickIn
    <2>3. g[U] = f[Pick(U)] + g[V]
        BY <1>5, <2>1, Zenon DEF IsTotal
    <2>4. IsTotal(f, V, CHOOSE h : IsTotal(f, V, h)) /\ IsFiniteSet(V)
        BY <1>4, <2>2
    <2>5. IsTotal(f, V, [s \in SUBSET V |-> g[s]])
        BY <2>1, <2>2, TotalPart
    <2> HIDE DEF g, V
    <2>6. (CHOOSE h : IsTotal(f, V, h)) = [s \in SUBSET V |-> g[s]]
        BY <2>4, <2>5, TotalUnique
    <2>7. (CHOOSE h : IsTotal(f, V, h))[V] = g[V]
        BY <2>6
    <2> QED BY <2>3, <2>7 DEF g, V
<1>6. ASSUME NEW U \in SUBSET T, U # T
      PROVE  all[U] = Sum(U)
    <2>1. CASE U = {}
        <3>1. IsTotal(f, U, CHOOSE g : IsTotal(f, U, g))
            BY <1>4, <1>6
        <3>2. U \in SUBSET U
            OBVIOUS
        <3>3. (CHOOSE g : IsTotal(f, U, g))[U] = 0
            BY <2>1, <3>1, <3>2 DEF IsTotal
        <3> QED BY <2>1, <3>3
    <2>2. CASE U # {}
        BY <1>5, <1>6, <2>2
    <2> QED BY <2>1, <2>2
<1>7. ASSUME NEW s \in SUBSET T, s # {}
      PROVE  Sum(s \ {Pick(s)}) = all[s \ {Pick(s)}]
    <2>1. s \ {Pick(s)} \in SUBSET T /\ s \ {Pick(s)} # T
        BY <1>7, PickIn
    <2> HIDE DEF all, Sum
    <2> QED BY <1>6, <2>1
<1>8. all = [s \in SUBSET T |-> IF s = {} THEN 0 ELSE f[Pick(s)] + all[s \ {Pick(s)}]]
    <2>1. \A s \in SUBSET T : all[s] = IF s = {} THEN 0 ELSE f[Pick(s)] + all[s \ {Pick(s)}]
        <3> SUFFICES ASSUME NEW s \in SUBSET T
                     PROVE  all[s] = IF s = {} THEN 0 ELSE f[Pick(s)] + all[s \ {Pick(s)}]
            OBVIOUS
        <3>1. all[s] = IF s = {} THEN 0 ELSE f[Pick(s)] + Sum(s \ {Pick(s)})
            OBVIOUS
        <3> HIDE DEF all, Sum
        <3> QED BY <1>7, <3>1
    <2>2. all = [s \in SUBSET T |-> all[s]]
        OBVIOUS
    <2> HIDE DEF all
    <2> QED BY <2>1, <2>2
<1> HIDE DEF all
<1>9. IsTotal(f, T, all)
    BY <1>8 DEF IsTotal
<1> QED BY <1>3, <1>9

\* The sum over nothing.
LEMMA SumEmpty ==
    ASSUME NEW f
    PROVE  SumFunctionOnSet(f, {}) = 0
<1> DEFINE g == CHOOSE g : IsTotal(f, {}, g)
<1>1. IsTotal(f, {}, g)
    BY TotalExists, FS_EmptySet
<1>2. {} \in SUBSET {}
    OBVIOUS
<1> HIDE DEF g
<1>3. g[{}] = 0
    BY <1>1, <1>2 DEF IsTotal
<1> QED BY <1>3, SumIsTotal DEF g

\* The sum over a set without the element taken first.
LEMMA SumPick ==
    ASSUME NEW f, NEW S, IsFiniteSet(S), S # {}
    PROVE  SumFunctionOnSet(f, S) = f[Pick(S)] + SumFunctionOnSet(f, S \ {Pick(S)})
<1> DEFINE g == CHOOSE g : IsTotal(f, S, g)
           T == S \ {Pick(S)}
           h == CHOOSE h : IsTotal(f, T, h)
<1>1. IsFiniteSet(T) /\ T \in SUBSET S /\ S \in SUBSET S /\ T \in SUBSET T
    BY FS_Subset
<1>2. IsTotal(f, S, g) /\ IsTotal(f, T, h)
    <2> HIDE DEF T
    <2> QED BY <1>1, TotalExists
<1>3. IsTotal(f, T, [s \in SUBSET T |-> g[s]])
    <2> HIDE DEF g, T
    <2> QED BY <1>1, <1>2, TotalPart
<1>4. h = [s \in SUBSET T |-> g[s]]
    <2> HIDE DEF g, T, h
    <2> QED BY <1>1, <1>2, <1>3, TotalUnique
<1>5. h[T] = g[T]
    <2> HIDE DEF g, T, h
    <2> QED BY <1>1, <1>4
<1>6. g[S] = f[Pick(S)] + g[T]
    BY <1>1, <1>2, Zenon DEF IsTotal
<1>7. SumFunctionOnSet(f, S) = g[S] /\ SumFunctionOnSet(f, T) = h[T]
    BY SumIsTotal
<1> QED BY <1>5, <1>6, <1>7

\* A sum of naturals is one.
LEMMA SumType ==
    ASSUME NEW S, IsFiniteSet(S), NEW f, \A x \in S : f[x] \in Nat
    PROVE  SumFunctionOnSet(f, S) \in Nat
<1> DEFINE Bad == {T \in SUBSET S : SumFunctionOnSet(f, T) \notin Nat}
<1>1. SUFFICES ASSUME Bad # {} PROVE FALSE
    OBVIOUS
<1>2. PICK T \in Bad : \A U \in SUBSET T : U # T => U \notin Bad
    <2> HIDE DEF Bad
    <2>1. Bad \in SUBSET (SUBSET S)
        BY DEF Bad
    <2> QED BY <1>1, <2>1, SmallestPart
<1>3. T \in SUBSET S /\ IsFiniteSet(T) /\ SumFunctionOnSet(f, T) \notin Nat
    BY FS_Subset
<1>4. T # {}
    BY <1>3, SumEmpty
<1>5. SumFunctionOnSet(f, T) = f[Pick(T)] + SumFunctionOnSet(f, T \ {Pick(T)})
    BY <1>3, <1>4, SumPick
<1>6. Pick(T) \in T
    BY <1>4, PickIn
<1>7. SumFunctionOnSet(f, T \ {Pick(T)}) \in Nat
    BY <1>2, <1>3, <1>6
<1> QED BY <1>3, <1>5, <1>6, <1>7

\* A sum depends on the values over its set only.
LEMMA SumSame ==
    ASSUME NEW S, IsFiniteSet(S), NEW f, NEW g, \A x \in S : f[x] = g[x]
    PROVE  SumFunctionOnSet(f, S) = SumFunctionOnSet(g, S)
<1> DEFINE Bad == {T \in SUBSET S : SumFunctionOnSet(f, T) # SumFunctionOnSet(g, T)}
<1>1. SUFFICES ASSUME Bad # {} PROVE FALSE
    OBVIOUS
<1>2. PICK T \in Bad : \A U \in SUBSET T : U # T => U \notin Bad
    <2> HIDE DEF Bad
    <2>1. Bad \in SUBSET (SUBSET S)
        BY DEF Bad
    <2> QED BY <1>1, <2>1, SmallestPart
<1>3. T \in SUBSET S /\ IsFiniteSet(T) /\ SumFunctionOnSet(f, T) # SumFunctionOnSet(g, T)
    BY FS_Subset
<1>4. T # {}
    BY <1>3, SumEmpty
<1>5. /\ SumFunctionOnSet(f, T) = f[Pick(T)] + SumFunctionOnSet(f, T \ {Pick(T)})
      /\ SumFunctionOnSet(g, T) = g[Pick(T)] + SumFunctionOnSet(g, T \ {Pick(T)})
    BY <1>3, <1>4, SumPick
<1>6. Pick(T) \in T
    BY <1>4, PickIn
<1>7. SumFunctionOnSet(f, T \ {Pick(T)}) = SumFunctionOnSet(g, T \ {Pick(T)})
    BY <1>2, <1>3, <1>6
<1> QED BY <1>3, <1>5, <1>6, <1>7

\* The sum of nothing but zeros.
LEMMA SumOfZeros ==
    ASSUME NEW S, IsFiniteSet(S), NEW f, \A x \in S : f[x] = 0
    PROVE  SumFunctionOnSet(f, S) = 0
<1> DEFINE Bad == {T \in SUBSET S : SumFunctionOnSet(f, T) # 0}
<1>1. SUFFICES ASSUME Bad # {} PROVE FALSE
    OBVIOUS
<1>2. PICK T \in Bad : \A U \in SUBSET T : U # T => U \notin Bad
    <2> HIDE DEF Bad
    <2>1. Bad \in SUBSET (SUBSET S)
        BY DEF Bad
    <2> QED BY <1>1, <2>1, SmallestPart
<1>3. T \in SUBSET S /\ IsFiniteSet(T) /\ SumFunctionOnSet(f, T) # 0
    BY FS_Subset
<1>4. T # {}
    BY <1>3, SumEmpty
<1>5. SumFunctionOnSet(f, T) = f[Pick(T)] + SumFunctionOnSet(f, T \ {Pick(T)})
    BY <1>3, <1>4, SumPick
<1>6. Pick(T) \in T
    BY <1>4, PickIn
<1>7. SumFunctionOnSet(f, T \ {Pick(T)}) = 0
    BY <1>2, <1>3, <1>6
<1> QED BY <1>3, <1>5, <1>6, <1>7

\* Any element may be taken out of a sum.
LEMMA SumSplit ==
    ASSUME NEW S, IsFiniteSet(S), NEW f, \A x \in S : f[x] \in Nat, NEW a \in S
    PROVE  SumFunctionOnSet(f, S) = f[a] + SumFunctionOnSet(f, S \ {a})
<1> DEFINE Bad == {T \in SUBSET S : \E x \in T :
                     SumFunctionOnSet(f, T) # f[x] + SumFunctionOnSet(f, T \ {x})}
<1>1. SUFFICES ASSUME Bad # {} PROVE FALSE
    <2>1. S \notin Bad
        BY <1>1
    <2> QED BY <2>1
<1>2. PICK T \in Bad : \A U \in SUBSET T : U # T => U \notin Bad
    <2> HIDE DEF Bad
    <2>1. Bad \in SUBSET (SUBSET S)
        BY DEF Bad
    <2> QED BY <1>1, <2>1, SmallestPart
<1>3. T \in SUBSET S /\ IsFiniteSet(T) /\ T # {}
    BY FS_Subset
<1>4. PICK x \in T : SumFunctionOnSet(f, T) # f[x] + SumFunctionOnSet(f, T \ {x})
    OBVIOUS
<1> DEFINE c == Pick(T)
           W == T \ {c, x}
<1>5. c \in T
    BY <1>3, PickIn
<1>6. SumFunctionOnSet(f, T) = f[c] + SumFunctionOnSet(f, T \ {c})
    BY <1>3, SumPick
<1>7. c # x
    BY <1>4, <1>6
<1>8. /\ T \ {c} \in SUBSET T /\ T \ {c} # T /\ x \in T \ {c}
      /\ T \ {x} \in SUBSET T /\ T \ {x} # T /\ c \in T \ {x}
      /\ (T \ {c}) \ {x} = W /\ (T \ {x}) \ {c} = W
    BY <1>5, <1>7
<1>9. ASSUME NEW U \in SUBSET T, U # T, NEW y \in U
      PROVE  SumFunctionOnSet(f, U) = f[y] + SumFunctionOnSet(f, U \ {y})
    BY <1>2, <1>3, <1>9
<1> HIDE DEF c, W, Bad
<1>10. SumFunctionOnSet(f, T \ {c}) = f[x] + SumFunctionOnSet(f, W)
    BY <1>8, <1>9
<1>11. SumFunctionOnSet(f, T \ {x}) = f[c] + SumFunctionOnSet(f, W)
    BY <1>8, <1>9
<1>12. f[x] \in Nat /\ f[c] \in Nat /\ SumFunctionOnSet(f, W) \in Nat
    <2>1. IsFiniteSet(W) /\ W \subseteq S
        BY <1>3, FS_Subset DEF W
    <2> QED BY <1>3, <1>5, <2>1, SumType
<1> QED BY <1>4, <1>6, <1>10, <1>11, <1>12

\* What a change of one value does to a sum.
LEMMA SumChange ==
    ASSUME NEW S, IsFiniteSet(S), NEW f, NEW g, NEW a \in S,
           \A x \in S : f[x] \in Nat /\ g[x] \in Nat,
           \A x \in S : x # a => g[x] = f[x]
    PROVE  SumFunctionOnSet(g, S) + f[a] = SumFunctionOnSet(f, S) + g[a]
<1> DEFINE T == S \ {a}
<1>1. IsFiniteSet(T) /\ T \subseteq S
    BY FS_Subset
<1>2. SumFunctionOnSet(f, S) = f[a] + SumFunctionOnSet(f, T)
    BY SumSplit
<1>3. SumFunctionOnSet(g, S) = g[a] + SumFunctionOnSet(g, T)
    BY SumSplit
<1>4. SumFunctionOnSet(f, T) = SumFunctionOnSet(g, T)
    BY <1>1, SumSame
<1>5. SumFunctionOnSet(f, T) \in Nat
    BY <1>1, SumType
<1> QED BY <1>2, <1>3, <1>4, <1>5

=============================================================================
