-------------------------------- MODULE Sums --------------------------------
(***************************************************************************)
(* Facts about the sum of the values of a function over a finite set       *)
(* (SumFunctionOnSet of the community modules), for the proofs about       *)
(* balances and the rows that explain them.                                *)
(*                                                                         *)
(* The sum is a recursive function on the subsets of its set.  That the    *)
(* recursion defines one is shown once, by a smallest set for which it     *)
(* does not; every other fact follows by a smallest counterexample too.    *)
(***************************************************************************)
EXTENDS Integers, FiniteSets, Functions, FiniteSetTheorems, TLAPS

\* A nonempty set of finite sets has one that includes no other.
LEMMA SmallestFinite ==
    ASSUME NEW S, NEW T, T \subseteq FiniteSubsetsOf(S), T # {}
    PROVE  \E U \in T : \A V \in T : V \subseteq U => V = U
<1>1. PICK U \in T : \A V \in T : ~ (<<V, U>> \in StrictSubsetOrdering(S))
    BY FS_StrictSubsetOrderingWellFounded, WFMin
<1>2. ASSUME NEW V \in T, V \subseteq U PROVE V = U
    BY <1>1, <1>2 DEF StrictSubsetOrdering, FiniteSubsetsOf
<1> QED BY <1>2

----------------------------------------------------------------------------
(***************************************************************************)
(* The recursion                                                           *)
(***************************************************************************)
First(s) == CHOOSE x \in s : TRUE
Rest(s) == s \ {First(s)}
Sums(f, S, sum) ==
    sum = [s \in SUBSET S |->
              IF s = {} THEN 0 ELSE f[First(s)] + sum[Rest(s)]]

LEMMA SumsAgree ==
    ASSUME NEW f, NEW A, NEW B, NEW g, NEW h, Sums(f, A, g), Sums(f, B, h),
           NEW S, IsFiniteSet(S), S \subseteq A, S \subseteq B
    PROVE  g[S] = h[S]
<1> DEFINE T == {U \in FiniteSubsetsOf(S) : g[U] # h[U]}
<1>1. SUFFICES ASSUME S \in T PROVE FALSE
    BY DEF FiniteSubsetsOf
<1>2. PICK U \in T : \A V \in T : V \subseteq U => V = U
    <2>1. T \subseteq FiniteSubsetsOf(S) /\ T # {}
        BY <1>1
    <2> HIDE DEF T
    <2> QED BY <2>1, SmallestFinite
<1>3. U \subseteq S /\ IsFiniteSet(U) /\ g[U] # h[U] /\ U \in SUBSET A /\ U \in SUBSET B
    BY <1>2 DEF FiniteSubsetsOf
<1>4. U # {}
    BY <1>3 DEF Sums
<1>5. First(U) \in U
    BY <1>4 DEF First
<1>6. Rest(U) \in FiniteSubsetsOf(S) /\ Rest(U) \subseteq U /\ Rest(U) # U
    BY <1>3, <1>5, FS_RemoveElement DEF Rest, FiniteSubsetsOf
<1>7. g[Rest(U)] = h[Rest(U)]
    BY <1>2, <1>6
<1>8. g[U] = f[First(U)] + g[Rest(U)] /\ h[U] = f[First(U)] + h[Rest(U)]
    BY <1>3, <1>4 DEF Sums
<1> QED BY <1>3, <1>7, <1>8

LEMMA SumsExist ==
    ASSUME NEW f, NEW S, IsFiniteSet(S)
    PROVE  \E sum : Sums(f, S, sum)
<1> DEFINE T == {U \in FiniteSubsetsOf(S) : ~ \E sum : Sums(f, U, sum)}
           at(V) == CHOOSE sum : Sums(f, V, sum)
<1>1. SUFFICES ASSUME S \in T PROVE FALSE
    BY DEF FiniteSubsetsOf
<1>2. PICK U \in T : \A V \in T : V \subseteq U => V = U
    <2>1. T \subseteq FiniteSubsetsOf(S) /\ T # {}
        BY <1>1
    <2> HIDE DEF T
    <2> QED BY <2>1, SmallestFinite
<1>3. U \subseteq S /\ IsFiniteSet(U) /\ ~ \E sum : Sums(f, U, sum)
    BY <1>2 DEF FiniteSubsetsOf
<1>4. ASSUME NEW V, V \subseteq U, V # U PROVE IsFiniteSet(V) /\ Sums(f, V, at(V))
    <2>1. V \in FiniteSubsetsOf(S)
        BY <1>3, <1>4, FS_Subset DEF FiniteSubsetsOf
    <2>2. \E sum : Sums(f, V, sum)
        BY <1>2, <1>4, <2>1
    <2> QED BY <2>1, <2>2 DEF FiniteSubsetsOf
<1>5. ASSUME NEW s, s \subseteq U, s # {}
      PROVE  First(s) \in s /\ Rest(s) \subseteq s /\ Rest(s) \subseteq U /\ Rest(s) # U
    BY <1>5 DEF First, Rest
<1> DEFINE sum == [s \in SUBSET U |->
                      IF s = {} THEN 0 ELSE f[First(s)] + at(Rest(s))[Rest(s)]]
<1>6. ASSUME NEW t, t \subseteq U, t # U PROVE sum[t] = at(t)[t]
    <2>1. Sums(f, t, at(t)) /\ t \in SUBSET U /\ t \in SUBSET t
        BY <1>4, <1>6
    <2>2. CASE t = {}
        <3> HIDE DEF at
        <3>1. at(t)[t] = 0
            BY <2>1, <2>2 DEF Sums
        <3> QED BY <2>1, <2>2, <3>1
    <2>3. CASE t # {}
        <3> DEFINE r == Rest(t)
        <3>1. r \subseteq t /\ r \subseteq U /\ r # U
            BY <1>5, <1>6, <2>3
        <3>2. IsFiniteSet(r) /\ Sums(f, r, at(r))
            BY <1>4, <3>1
        <3> HIDE DEF at
        <3>3. at(t)[t] = f[First(t)] + at(t)[Rest(t)]
            BY <2>1, <2>3 DEF Sums
        <3>4. at(t)[r] = at(r)[r]
            BY <2>1, <3>1, <3>2, SumsAgree
        <3> QED BY <2>1, <2>3, <3>3, <3>4
    <2> QED BY <2>2, <2>3
<1>7. ASSUME NEW s \in SUBSET U
      PROVE  sum[s] = IF s = {} THEN 0 ELSE f[First(s)] + sum[Rest(s)]
    <2>1. CASE s = {}
        BY <2>1
    <2>2. CASE s # {}
        <3>1. sum[Rest(s)] = at(Rest(s))[Rest(s)]
            BY <1>5, <1>6, <2>2
        <3> QED BY <2>2, <3>1
    <2> QED BY <2>1, <2>2
<1>8. sum = [s \in SUBSET U |-> sum[s]]
    OBVIOUS
<1> HIDE DEF sum
<1>9. Sums(f, U, sum)
    BY <1>7, <1>8 DEF Sums
<1> QED BY <1>3, <1>9

LEMMA SumIsSums ==
    ASSUME NEW f, NEW S, IsFiniteSet(S)
    PROVE  \E sum : Sums(f, S, sum) /\ SumFunctionOnSet(f, S) = sum[S]
<1> DEFINE sum == CHOOSE g : Sums(f, S, g)
<1>1. SumFunctionOnSet(f, S) = sum[S]
    BY DEF SumFunctionOnSet, FoldFunctionOnSet, MapThenFoldSet, Sums, First, Rest
<1>2. Sums(f, S, sum)
    BY SumsExist
<1> QED BY <1>1, <1>2

----------------------------------------------------------------------------
(***************************************************************************)
(* The facts to cite                                                       *)
(***************************************************************************)
LEMMA SumEmpty == ASSUME NEW f PROVE SumFunctionOnSet(f, {}) = 0
<1>1. IsFiniteSet({})
    BY FS_EmptySet
<1>2. PICK sum : Sums(f, {}, sum) /\ SumFunctionOnSet(f, {}) = sum[{}]
    BY <1>1, SumIsSums
<1> QED BY <1>2 DEF Sums

LEMMA SumFirst ==
    ASSUME NEW f, NEW S, IsFiniteSet(S), S # {}
    PROVE  /\ First(S) \in S /\ IsFiniteSet(Rest(S))
           /\ SumFunctionOnSet(f, S) = f[First(S)] + SumFunctionOnSet(f, Rest(S))
<1>1. First(S) \in S /\ IsFiniteSet(Rest(S)) /\ Rest(S) \subseteq S
    BY FS_RemoveElement DEF First, Rest
<1>2. PICK sum : Sums(f, S, sum) /\ SumFunctionOnSet(f, S) = sum[S]
    BY SumIsSums
<1>3. PICK rest : Sums(f, Rest(S), rest) /\ SumFunctionOnSet(f, Rest(S)) = rest[Rest(S)]
    BY <1>1, SumIsSums
<1>4. sum[Rest(S)] = rest[Rest(S)]
    BY <1>1, <1>2, <1>3, SumsAgree
<1>5. sum[S] = f[First(S)] + sum[Rest(S)]
    BY <1>2 DEF Sums
<1> QED BY <1>1, <1>2, <1>3, <1>4, <1>5

LEMMA SumInt ==
    ASSUME NEW f, NEW S, IsFiniteSet(S), \A x \in S : f[x] \in Int
    PROVE  SumFunctionOnSet(f, S) \in Int
<1> DEFINE T == {U \in FiniteSubsetsOf(S) : SumFunctionOnSet(f, U) \notin Int}
<1>1. SUFFICES ASSUME S \in T PROVE FALSE
    BY DEF FiniteSubsetsOf
<1>2. PICK U \in T : \A V \in T : V \subseteq U => V = U
    <2>1. T \subseteq FiniteSubsetsOf(S) /\ T # {}
        BY <1>1
    <2> HIDE DEF T
    <2> QED BY <2>1, SmallestFinite
<1>3. U \subseteq S /\ IsFiniteSet(U) /\ SumFunctionOnSet(f, U) \notin Int
    BY <1>2 DEF FiniteSubsetsOf
<1>4. U # {}
    BY <1>3, SumEmpty
<1>5. /\ First(U) \in U /\ IsFiniteSet(Rest(U))
      /\ SumFunctionOnSet(f, U) = f[First(U)] + SumFunctionOnSet(f, Rest(U))
    BY <1>3, <1>4, SumFirst
<1>6. Rest(U) \in FiniteSubsetsOf(S) /\ Rest(U) \subseteq U /\ Rest(U) # U
    BY <1>3, <1>5 DEF Rest, FiniteSubsetsOf
<1>7. SumFunctionOnSet(f, Rest(U)) \in Int
    BY <1>2, <1>6
<1> QED BY <1>3, <1>5, <1>7

\* The sum does not depend on the order in which its terms are taken.
LEMMA SumRemove ==
    ASSUME NEW f, NEW S, IsFiniteSet(S), \A x \in S : f[x] \in Int, NEW a \in S
    PROVE  SumFunctionOnSet(f, S) = f[a] + SumFunctionOnSet(f, S \ {a})
<1> DEFINE Ok(U) == \A x \in U :
               SumFunctionOnSet(f, U) = f[x] + SumFunctionOnSet(f, U \ {x})
           T == {U \in FiniteSubsetsOf(S) : ~Ok(U)}
<1>1. SUFFICES ASSUME S \in T PROVE FALSE
    BY DEF FiniteSubsetsOf
<1>2. PICK U \in T : \A V \in T : V \subseteq U => V = U
    <2>1. T \subseteq FiniteSubsetsOf(S) /\ T # {}
        BY <1>1
    <2> HIDE DEF T
    <2> QED BY <2>1, SmallestFinite
<1>3. U \subseteq S /\ IsFiniteSet(U) /\ ~Ok(U)
    BY <1>2 DEF FiniteSubsetsOf
<1>4. PICK x \in U : SumFunctionOnSet(f, U) # f[x] + SumFunctionOnSet(f, U \ {x})
    BY <1>3
<1>5. /\ First(U) \in U
      /\ SumFunctionOnSet(f, U) = f[First(U)] + SumFunctionOnSet(f, Rest(U))
    BY <1>3, <1>4, SumFirst
<1> DEFINE p == First(U)
<1>6. x # p
    BY <1>4, <1>5 DEF Rest
<1>7. ASSUME NEW y \in U PROVE U \ {y} \in FiniteSubsetsOf(S) /\ Ok(U \ {y})
    <2>1. U \ {y} \in FiniteSubsetsOf(S) /\ U \ {y} \subseteq U /\ U \ {y} # U
        BY <1>3, FS_RemoveElement DEF FiniteSubsetsOf
    <2> QED BY <1>2, <2>1
<1>8. SumFunctionOnSet(f, U \ {p}) = f[x] + SumFunctionOnSet(f, (U \ {p}) \ {x})
    BY <1>5, <1>6, <1>7
<1>9. SumFunctionOnSet(f, U \ {x}) = f[p] + SumFunctionOnSet(f, (U \ {x}) \ {p})
    BY <1>5, <1>6, <1>7
<1>10. (U \ {p}) \ {x} = (U \ {x}) \ {p}
    OBVIOUS
<1>11. SumFunctionOnSet(f, (U \ {x}) \ {p}) \in Int
    <2>1. (U \ {x}) \ {p} \subseteq S /\ IsFiniteSet((U \ {x}) \ {p})
        BY <1>3, FS_RemoveElement
    <2> QED BY <2>1, SumInt
<1>12. f[x] \in Int /\ f[p] \in Int
    BY <1>3, <1>5
<1>13. \A i, j, k \in Int : i + (j + k) = j + (i + k)
    OBVIOUS
<1>14. SumFunctionOnSet(f, U) = f[p] + SumFunctionOnSet(f, U \ {p})
    BY <1>5 DEF Rest
<1> HIDE DEF p
<1> DEFINE rest == SumFunctionOnSet(f, (U \ {x}) \ {p})
<1>15. SumFunctionOnSet(f, U) = f[p] + (f[x] + rest)
    BY <1>8, <1>10, <1>14
<1>16. SumFunctionOnSet(f, U \ {x}) = f[p] + rest
    BY <1>9
<1>17. f[p] + (f[x] + rest) = f[x] + (f[p] + rest)
    BY <1>11, <1>12, <1>13
<1> HIDE DEF rest
<1> QED BY <1>4, <1>15, <1>16, <1>17

LEMMA SumAdd ==
    ASSUME NEW f, NEW S, IsFiniteSet(S), NEW a, a \notin S,
           \A x \in S \cup {a} : f[x] \in Int
    PROVE  SumFunctionOnSet(f, S \cup {a}) = SumFunctionOnSet(f, S) + f[a]
<1>1. IsFiniteSet(S \cup {a}) /\ (S \cup {a}) \ {a} = S
    BY FS_AddElement
<1>2. SumFunctionOnSet(f, S \cup {a}) = f[a] + SumFunctionOnSet(f, S)
    BY <1>1, SumRemove
<1>3. SumFunctionOnSet(f, S) \in Int
    BY SumInt
<1> QED BY <1>2, <1>3

\* Only the values on the set count.
LEMMA SumSame ==
    ASSUME NEW f, NEW g, NEW S, IsFiniteSet(S), \A x \in S : f[x] = g[x]
    PROVE  SumFunctionOnSet(f, S) = SumFunctionOnSet(g, S)
<1> DEFINE T == {U \in FiniteSubsetsOf(S) :
                    SumFunctionOnSet(f, U) # SumFunctionOnSet(g, U)}
<1>1. SUFFICES ASSUME S \in T PROVE FALSE
    BY DEF FiniteSubsetsOf
<1>2. PICK U \in T : \A V \in T : V \subseteq U => V = U
    <2>1. T \subseteq FiniteSubsetsOf(S) /\ T # {}
        BY <1>1
    <2> HIDE DEF T
    <2> QED BY <2>1, SmallestFinite
<1>3. /\ U \subseteq S /\ IsFiniteSet(U)
      /\ SumFunctionOnSet(f, U) # SumFunctionOnSet(g, U)
    BY <1>2 DEF FiniteSubsetsOf
<1>4. U # {}
    BY <1>3, SumEmpty
<1>5. /\ First(U) \in U /\ IsFiniteSet(Rest(U))
      /\ SumFunctionOnSet(f, U) = f[First(U)] + SumFunctionOnSet(f, Rest(U))
      /\ SumFunctionOnSet(g, U) = g[First(U)] + SumFunctionOnSet(g, Rest(U))
    BY <1>3, <1>4, SumFirst
<1>6. Rest(U) \in FiniteSubsetsOf(S) /\ Rest(U) \subseteq U /\ Rest(U) # U
    BY <1>3, <1>5 DEF Rest, FiniteSubsetsOf
<1>7. SumFunctionOnSet(f, Rest(U)) = SumFunctionOnSet(g, Rest(U))
    BY <1>2, <1>6
<1> QED BY <1>3, <1>5, <1>7

\* One value changes: the sum changes by as much.
LEMMA SumChange ==
    ASSUME NEW f, NEW g, NEW S, IsFiniteSet(S), NEW a \in S,
           \A x \in S : f[x] \in Int, g[a] \in Int,
           \A x \in S \ {a} : g[x] = f[x]
    PROVE  SumFunctionOnSet(g, S) = SumFunctionOnSet(f, S) + (g[a] - f[a])
<1>1. IsFiniteSet(S \ {a}) /\ f[a] \in Int
    BY FS_RemoveElement
<1>2. \A x \in S : g[x] \in Int
    OBVIOUS
<1>3. SumFunctionOnSet(f, S) = f[a] + SumFunctionOnSet(f, S \ {a})
    BY SumRemove
<1>4. SumFunctionOnSet(g, S) = g[a] + SumFunctionOnSet(g, S \ {a})
    BY <1>2, SumRemove
<1>5. SumFunctionOnSet(g, S \ {a}) = SumFunctionOnSet(f, S \ {a})
    BY <1>1, SumSame
<1>6. SumFunctionOnSet(f, S \ {a}) \in Int
    BY <1>1, SumInt
<1> QED BY <1>1, <1>3, <1>4, <1>5, <1>6

LEMMA SumOfZeros ==
    ASSUME NEW f, NEW S, IsFiniteSet(S), \A x \in S : f[x] = 0
    PROVE  SumFunctionOnSet(f, S) = 0
<1> DEFINE T == {U \in FiniteSubsetsOf(S) : SumFunctionOnSet(f, U) # 0}
<1>1. SUFFICES ASSUME S \in T PROVE FALSE
    BY DEF FiniteSubsetsOf
<1>2. PICK U \in T : \A V \in T : V \subseteq U => V = U
    <2>1. T \subseteq FiniteSubsetsOf(S) /\ T # {}
        BY <1>1
    <2> HIDE DEF T
    <2> QED BY <2>1, SmallestFinite
<1>3. U \subseteq S /\ IsFiniteSet(U) /\ SumFunctionOnSet(f, U) # 0
    BY <1>2 DEF FiniteSubsetsOf
<1>4. U # {}
    BY <1>3, SumEmpty
<1>5. /\ First(U) \in U /\ IsFiniteSet(Rest(U))
      /\ SumFunctionOnSet(f, U) = f[First(U)] + SumFunctionOnSet(f, Rest(U))
    BY <1>3, <1>4, SumFirst
<1>6. Rest(U) \in FiniteSubsetsOf(S) /\ Rest(U) \subseteq U /\ Rest(U) # U
    BY <1>3, <1>5 DEF Rest, FiniteSubsetsOf
<1>7. SumFunctionOnSet(f, Rest(U)) = 0
    BY <1>2, <1>6
<1> QED BY <1>3, <1>5, <1>7

\* Two disjoint sets together.
LEMMA SumUnion ==
    ASSUME NEW f, NEW R, NEW S, IsFiniteSet(R), IsFiniteSet(S), R \cap S = {},
           \A x \in R \cup S : f[x] \in Int
    PROVE  SumFunctionOnSet(f, R \cup S) = SumFunctionOnSet(f, R) + SumFunctionOnSet(f, S)
<1> DEFINE T == {U \in FiniteSubsetsOf(S) :
                    SumFunctionOnSet(f, R \cup U)
                        # SumFunctionOnSet(f, R) + SumFunctionOnSet(f, U)}
<1>1. SUFFICES ASSUME S \in T PROVE FALSE
    BY DEF FiniteSubsetsOf
<1>2. PICK U \in T : \A V \in T : V \subseteq U => V = U
    <2>1. T \subseteq FiniteSubsetsOf(S) /\ T # {}
        BY <1>1
    <2> HIDE DEF T
    <2> QED BY <2>1, SmallestFinite
<1>3. /\ U \subseteq S /\ IsFiniteSet(U)
      /\ SumFunctionOnSet(f, R \cup U) # SumFunctionOnSet(f, R) + SumFunctionOnSet(f, U)
    BY <1>2 DEF FiniteSubsetsOf
<1>4. SumFunctionOnSet(f, R) \in Int
    BY SumInt
<1>5. PICK a \in U : TRUE
    <2>1. SUFFICES ASSUME U = {} PROVE FALSE
        OBVIOUS
    <2>2. R \cup U = R
        BY <2>1
    <2>3. SumFunctionOnSet(f, R \cup U) = SumFunctionOnSet(f, R)
        BY <2>2
    <2>4. SumFunctionOnSet(f, U) = 0
        BY <2>1, SumEmpty
    <2>5. SumFunctionOnSet(f, R) + SumFunctionOnSet(f, U) = SumFunctionOnSet(f, R)
        BY <1>4, <2>4
    <2> QED BY <1>3, <2>3, <2>5
<1> DEFINE V == U \ {a}
<1>6. V \in FiniteSubsetsOf(S) /\ V \subseteq U /\ V # U /\ IsFiniteSet(V)
    BY <1>3, <1>5, FS_RemoveElement DEF FiniteSubsetsOf
<1>7. SumFunctionOnSet(f, R \cup V) = SumFunctionOnSet(f, R) + SumFunctionOnSet(f, V)
    BY <1>2, <1>6
<1>8. SumFunctionOnSet(f, U) = f[a] + SumFunctionOnSet(f, V)
    BY <1>3, <1>5, SumRemove
<1>9. SumFunctionOnSet(f, R \cup U) = f[a] + SumFunctionOnSet(f, R \cup V)
    <2>1. (R \cup U) \ {a} = R \cup V /\ a \in R \cup U /\ IsFiniteSet(R \cup U)
        BY <1>3, <1>5, FS_Union
    <2>2. \A x \in R \cup U : f[x] \in Int
        BY <1>3
    <2> HIDE DEF V
    <2>3. SumFunctionOnSet(f, R \cup U) = f[a] + SumFunctionOnSet(f, (R \cup U) \ {a})
        BY <2>1, <2>2, SumRemove
    <2> QED BY <2>1, <2>3
<1>10. SumFunctionOnSet(f, V) \in Int /\ f[a] \in Int
    <2>1. \A x \in V : f[x] \in Int
        BY <1>3
    <2> HIDE DEF V
    <2> QED BY <1>3, <1>5, <1>6, <2>1, SumInt
<1> HIDE DEF V
<1> QED BY <1>3, <1>4, <1>7, <1>8, <1>9, <1>10

LEMMA SumNat ==
    ASSUME NEW f, NEW S, IsFiniteSet(S), \A x \in S : f[x] \in Nat
    PROVE  SumFunctionOnSet(f, S) \in Nat
<1> DEFINE T == {U \in FiniteSubsetsOf(S) : SumFunctionOnSet(f, U) \notin Nat}
<1>1. SUFFICES ASSUME S \in T PROVE FALSE
    BY DEF FiniteSubsetsOf
<1>2. PICK U \in T : \A V \in T : V \subseteq U => V = U
    <2>1. T \subseteq FiniteSubsetsOf(S) /\ T # {}
        BY <1>1
    <2> HIDE DEF T
    <2> QED BY <2>1, SmallestFinite
<1>3. U \subseteq S /\ IsFiniteSet(U) /\ SumFunctionOnSet(f, U) \notin Nat
    BY <1>2 DEF FiniteSubsetsOf
<1>4. U # {}
    BY <1>3, SumEmpty
<1>5. /\ First(U) \in U /\ IsFiniteSet(Rest(U))
      /\ SumFunctionOnSet(f, U) = f[First(U)] + SumFunctionOnSet(f, Rest(U))
    BY <1>3, <1>4, SumFirst
<1>6. Rest(U) \in FiniteSubsetsOf(S) /\ Rest(U) \subseteq U /\ Rest(U) # U
    BY <1>3, <1>5 DEF Rest, FiniteSubsetsOf
<1>7. SumFunctionOnSet(f, Rest(U)) \in Nat
    BY <1>2, <1>6
<1> QED BY <1>3, <1>5, <1>7

\* No value is more than the sum of values that are not negative.
LEMMA SumAtLeast ==
    ASSUME NEW f, NEW S, IsFiniteSet(S), \A x \in S : f[x] \in Nat, NEW a \in S
    PROVE  f[a] <= SumFunctionOnSet(f, S)
<1>1. IsFiniteSet(S \ {a})
    BY FS_RemoveElement
<1>2. SumFunctionOnSet(f, S \ {a}) \in Nat
    BY <1>1, SumNat
<1>3. SumFunctionOnSet(f, S) = f[a] + SumFunctionOnSet(f, S \ {a})
    BY SumRemove
<1> QED BY <1>2, <1>3

\* A part of a set, as a sum over all of it.
LEMMA SumPart ==
    ASSUME NEW f, NEW S, IsFiniteSet(S), NEW T \in SUBSET S, \A x \in T : f[x] \in Int
    PROVE  SumFunctionOnSet(f, T)
               = SumFunctionOnSet([x \in S |-> IF x \in T THEN f[x] ELSE 0], S)
<1> DEFINE g == [x \in S |-> IF x \in T THEN f[x] ELSE 0]
           R == S \ T
<1>1. IsFiniteSet(T) /\ IsFiniteSet(R) /\ T \cup R = S /\ T \cap R = {}
    BY FS_Subset
<1>2. (\A x \in T : g[x] = f[x]) /\ (\A x \in R : g[x] = 0) /\ (\A x \in S : g[x] \in Int)
    OBVIOUS
<1> HIDE DEF g, R
<1>3. SumFunctionOnSet(g, T \cup R) = SumFunctionOnSet(g, T) + SumFunctionOnSet(g, R)
    BY <1>1, <1>2, SumUnion
<1>4. SumFunctionOnSet(g, R) = 0
    BY <1>1, <1>2, SumOfZeros
<1>5. SumFunctionOnSet(g, T) = SumFunctionOnSet(f, T)
    BY <1>1, <1>2, SumSame
<1>6. SumFunctionOnSet(f, T) \in Int
    BY <1>1, SumInt
<1>7. SumFunctionOnSet(g, S) = SumFunctionOnSet(f, T) + 0
    BY <1>1, <1>3, <1>4, <1>5
<1> QED BY <1>6, <1>7 DEF g

LEMMA SumPlus ==
    ASSUME NEW f, NEW g, NEW h, NEW S, IsFiniteSet(S),
           \A x \in S : f[x] \in Int /\ g[x] \in Int /\ h[x] = f[x] + g[x]
    PROVE  SumFunctionOnSet(h, S) = SumFunctionOnSet(f, S) + SumFunctionOnSet(g, S)
<1> DEFINE T == {U \in FiniteSubsetsOf(S) :
                    SumFunctionOnSet(h, U) # SumFunctionOnSet(f, U) + SumFunctionOnSet(g, U)}
<1>1. SUFFICES ASSUME S \in T PROVE FALSE
    BY DEF FiniteSubsetsOf
<1>2. PICK U \in T : \A V \in T : V \subseteq U => V = U
    <2>1. T \subseteq FiniteSubsetsOf(S) /\ T # {}
        BY <1>1
    <2> HIDE DEF T
    <2> QED BY <2>1, SmallestFinite
<1>3. /\ U \subseteq S /\ IsFiniteSet(U)
      /\ SumFunctionOnSet(h, U) # SumFunctionOnSet(f, U) + SumFunctionOnSet(g, U)
    BY <1>2 DEF FiniteSubsetsOf
<1>4. U # {}
    <2>1. SUFFICES ASSUME U = {} PROVE FALSE
        OBVIOUS
    <2>2. /\ SumFunctionOnSet(h, U) = 0 /\ SumFunctionOnSet(f, U) = 0
          /\ SumFunctionOnSet(g, U) = 0
        BY <2>1, SumEmpty
    <2> QED BY <1>3, <2>2
<1> DEFINE a == First(U)
           V == Rest(U)
<1>5. /\ a \in U /\ IsFiniteSet(V)
      /\ SumFunctionOnSet(f, U) = f[a] + SumFunctionOnSet(f, V)
      /\ SumFunctionOnSet(g, U) = g[a] + SumFunctionOnSet(g, V)
      /\ SumFunctionOnSet(h, U) = h[a] + SumFunctionOnSet(h, V)
    BY <1>3, <1>4, SumFirst
<1>6. V \in FiniteSubsetsOf(S) /\ V \subseteq U /\ V # U
    BY <1>3, <1>5 DEF Rest, FiniteSubsetsOf
<1>7. SumFunctionOnSet(h, V) = SumFunctionOnSet(f, V) + SumFunctionOnSet(g, V)
    BY <1>2, <1>6
<1>8. SumFunctionOnSet(f, V) \in Int /\ SumFunctionOnSet(g, V) \in Int
    <2>1. \A x \in V : f[x] \in Int /\ g[x] \in Int
        BY <1>3, <1>6
    <2> HIDE DEF V
    <2> QED BY <1>5, <2>1, SumInt
<1>9. f[a] \in Int /\ g[a] \in Int /\ h[a] = f[a] + g[a]
    BY <1>3, <1>5
<1>10. \A i, j, k, l \in Int : (i + j) + (k + l) = (i + k) + (j + l)
    OBVIOUS
<1> HIDE DEF a, V
<1> QED BY <1>3, <1>5, <1>7, <1>8, <1>9, <1>10

----------------------------------------------------------------------------
\* A nonempty set of numbers has a smallest one.
LEMMA SmallestNumber ==
    ASSUME NEW T, T \subseteq Nat, T # {}
    PROVE  \E n \in T : \A m \in T : n <= m
<1> DEFINE F == {0 .. n : n \in T}
<1>1. F # {} /\ F \subseteq FiniteSubsetsOf(Nat)
    <2>1. ASSUME NEW n \in T PROVE IsFiniteSet(0 .. n) /\ 0 .. n \in SUBSET Nat
        BY FS_Interval
    <2> QED BY <2>1 DEF FiniteSubsetsOf
<1>2. PICK U \in F : \A V \in F : V \subseteq U => V = U
    <2> HIDE DEF F
    <2> QED BY <1>1, SmallestFinite
<1>3. PICK n \in T : U = 0 .. n
    BY <1>2
<1>4. ASSUME NEW m \in T, ~(n <= m) PROVE FALSE
    <2>1. 0 .. m \in F /\ 0 .. m \subseteq U
        BY <1>3, <1>4
    <2>2. 0 .. m = 0 .. n
        BY <1>2, <1>3, <2>1
    <2>3. n \in 0 .. n /\ n \notin 0 .. m
        BY <1>4
    <2> QED BY <2>2, <2>3
<1> QED BY <1>4

\* A nonempty finite set of numbers has a largest one.
LEMMA LargestNumber ==
    ASSUME NEW S, IsFiniteSet(S), S \subseteq Int, S # {}
    PROVE  \E m \in S : \A n \in S : n <= m
<1> DEFINE Ok(U) == \E m \in U : \A n \in U : n <= m
           T == {U \in FiniteSubsetsOf(S) : U # {} /\ ~Ok(U)}
<1>1. SUFFICES ASSUME S \in T PROVE FALSE
    BY DEF FiniteSubsetsOf
<1>2. PICK U \in T : \A V \in T : V \subseteq U => V = U
    <2>1. T \subseteq FiniteSubsetsOf(S) /\ T # {}
        BY <1>1
    <2> HIDE DEF T
    <2> QED BY <2>1, SmallestFinite
<1>3. U \subseteq S /\ IsFiniteSet(U) /\ U # {} /\ ~Ok(U)
    BY <1>2 DEF FiniteSubsetsOf
<1>4. PICK a \in U : TRUE
    BY <1>3
<1> DEFINE V == U \ {a}
<1>5. IsFiniteSet(V)
    BY <1>3, FS_RemoveElement
<1>6. V = {} \/ Ok(V)
    <2>1. V \in FiniteSubsetsOf(S) /\ V \subseteq U /\ V # U
        BY <1>3, <1>4, <1>5 DEF FiniteSubsetsOf
    <2>2. V \notin T
        <3> HIDE DEF T, V
        <3> QED BY <1>2, <2>1
    <2> HIDE DEF V
    <2> QED BY <2>1, <2>2
<1>7. CASE V = {}
    <2>1. U = {a} /\ a <= a
        BY <1>3, <1>4, <1>7
    <2> QED BY <1>3, <2>1
<1>8. CASE Ok(V)
    <2>1. PICK m \in V : \A n \in V : n <= m
        BY <1>8
    <2>2. a \in Int /\ \A n \in U : n \in Int
        BY <1>3, <1>4
    <2>3. CASE a <= m
        <3>1. \A n \in U : n <= m
            BY <2>1, <2>3
        <3> QED BY <1>3, <2>1, <3>1
    <2>4. CASE m < a
        <3>1. \A n \in U : n <= a
            BY <2>1, <2>2, <2>4
        <3> QED BY <1>3, <1>4, <3>1
    <2> QED BY <2>1, <2>2, <2>3, <2>4
<1> QED BY <1>6, <1>7, <1>8
=============================================================================
