----------------------------- MODULE FunctionSums -----------------------------
(***************************************************************************)
(* Facts about SumFunctionOnSet and SumFunction of module Functions: the   *)
(* equation that defines the sum, taking one element out, changing one     *)
(* value, and what a sum of natural numbers bounds.                        *)
(*                                                                         *)
(* A sum is a fold, defined by recursion on the set.  The facts are proved *)
(* by looking at a smallest set that violates them: the strict subsets of  *)
(* a finite set are well ordered.                                          *)
(***************************************************************************)
EXTENDS Functions, FiniteSetTheorems, TLAPS

(* A non-empty collection of subsets of a finite set has a smallest member:*)
(* none of its strict subsets is in the collection.                        *)
LEMMA SmallestSubset ==
  ASSUME NEW S, IsFiniteSet(S), NEW C, C \subseteq SUBSET S, C # {}
  PROVE  \E T \in C : \A U \in SUBSET T : U # T => U \notin C
<1>1. IsWellFoundedOn(StrictSubsetOrdering(S), SUBSET S)
  BY FS_StrictSubsetOrderingWellFounded, FS_FiniteSubsetsOfFinite
<1>2. PICK T \in C : \A U \in C : ~ (<<U, T>> \in StrictSubsetOrdering(S))
  BY <1>1, WFMin
<1>3. QED
  BY <1>2 DEF StrictSubsetOrdering
-----------------------------------------------------------------------------
(* The recursion behind the sum.                                           *)

Pick(s) == CHOOSE x \in s : TRUE

\* g is the table of the sums of f over the subsets of S.
IsTable(g, f, S) ==
  g = [s \in SUBSET S |-> IF s = {} THEN 0 ELSE f[Pick(s)] + g[s \ {Pick(s)}]]

Table(f, S) == CHOOSE g : IsTable(g, f, S)

LEMMA SumIsInTable == \A f, S : SumFunctionOnSet(f, S) = Table(f, S)[S]
  BY DEF SumFunctionOnSet, FoldFunctionOnSet, MapThenFoldSet, Table, IsTable, Pick

LEMMA PickIsMember == \A s : s # {} => Pick(s) \in s
  BY DEF Pick

LEMMA TableAt ==
  ASSUME NEW f, NEW S, NEW g, IsTable(g, f, S), NEW T \in SUBSET S
  PROVE  g[T] = IF T = {} THEN 0 ELSE f[Pick(T)] + g[T \ {Pick(T)}]
  BY Zenon DEF IsTable

(* Two tables, whatever their sets, agree on the subsets they share.       *)
LEMMA TablesAgree ==
  ASSUME NEW f, NEW S, IsFiniteSet(S), NEW T \in SUBSET S,
         NEW g, NEW h, IsTable(g, f, S), IsTable(h, f, T)
  PROVE  g[T] = h[T]
<1> DEFINE C == {s \in SUBSET T : g[s] # h[s]}
<1>1. SUFFICES ASSUME C # {} PROVE FALSE
  OBVIOUS
<1>2. IsFiniteSet(T) /\ C \subseteq SUBSET T
  BY FS_Subset
<1>3. \E s \in C : \A u \in SUBSET s : u # s => u \notin C
  <2> HIDE DEF C
  <2>1. QED
    BY <1>1, <1>2, SmallestSubset
<1>4. PICK s \in C : \A u \in SUBSET s : u # s => u \notin C
  BY <1>3
<1>5. /\ g[s] = IF s = {} THEN 0 ELSE f[Pick(s)] + g[s \ {Pick(s)}]
      /\ h[s] = IF s = {} THEN 0 ELSE f[Pick(s)] + h[s \ {Pick(s)}]
  BY TableAt
<1>6. CASE s = {}
  BY <1>4, <1>5, <1>6
<1>7. CASE s # {}
  <2>1. s \ {Pick(s)} \in SUBSET T /\ s \ {Pick(s)} # s
    BY <1>7, PickIsMember
  <2>2. g[s \ {Pick(s)}] = h[s \ {Pick(s)}]
    BY <1>4, <2>1
  <2>3. QED
    BY <1>4, <1>5, <1>7, <2>2
<1>8. QED
  BY <1>6, <1>7

(* Every finite set has a table: that of a set is put together from those  *)
(* of its strict subsets.                                                  *)
LEMMA TableExists ==
  ASSUME NEW f, NEW S, IsFiniteSet(S)
  PROVE  IsTable(Table(f, S), f, S)
<1> DEFINE C == {T \in SUBSET S : ~ IsTable(Table(f, T), f, T)}
<1>1. SUFFICES ASSUME C # {} PROVE FALSE
  OBVIOUS
<1>2. \E T \in C : \A U \in SUBSET T : U # T => U \notin C
  <2>1. C \subseteq SUBSET S
    OBVIOUS
  <2> HIDE DEF C
  <2>2. QED
    BY <1>1, <2>1, SmallestSubset
<1>3. PICK T \in C : \A U \in SUBSET T : U # T => U \notin C
  BY <1>2
<1> DEFINE Rest(s) == s \ {Pick(s)}
           g == [s \in SUBSET T |->
                   IF s = {} THEN 0 ELSE f[Pick(s)] + Table(f, Rest(s))[Rest(s)]]
<1>4. \A U \in SUBSET T : U # T => IsTable(Table(f, U), f, U) /\ IsFiniteSet(U)
  BY <1>3, FS_Subset
<1>5. ASSUME NEW s \in SUBSET T, s # {}
      PROVE  g[Rest(s)] = Table(f, Rest(s))[Rest(s)]
  <2>1. Rest(s) \in SUBSET T /\ Rest(s) # T
    BY <1>5, PickIsMember
  <2>2. Table(f, Rest(s))[Rest(s)] =
          IF Rest(s) = {} THEN 0 ELSE f[Pick(Rest(s))] + Table(f, Rest(s))[Rest(Rest(s))]
    <3>1. IsTable(Table(f, Rest(s)), f, Rest(s))
      BY <1>4, <2>1
    <3>2. Table(f, Rest(s))[Rest(s)] =
            IF Rest(s) = {} THEN 0
            ELSE f[Pick(Rest(s))] + Table(f, Rest(s))[Rest(s) \ {Pick(Rest(s))}]
      <4>1. Rest(s) \in SUBSET Rest(s)
        OBVIOUS
      <4> HIDE DEF Rest
      <4>2. QED
        BY <3>1, <4>1, TableAt
    <3>3. QED
      BY <3>2
  <2>3. CASE Rest(s) = {}
    BY <2>1, <2>2, <2>3
  <2>4. CASE Rest(s) # {}
    <3>1. Rest(Rest(s)) \in SUBSET Rest(s) /\ Rest(Rest(s)) # T
      BY <2>1
    <3>2. /\ IsTable(Table(f, Rest(s)), f, Rest(s)) /\ IsFiniteSet(Rest(s))
          /\ IsTable(Table(f, Rest(Rest(s))), f, Rest(Rest(s)))
      BY <1>4, <2>1, <3>1
    <3>3. Table(f, Rest(s))[Rest(Rest(s))] = Table(f, Rest(Rest(s)))[Rest(Rest(s))]
      <4> HIDE DEF Rest
      <4>1. QED
        BY <3>1, <3>2, TablesAgree
    <3>4. g[Rest(s)] = f[Pick(Rest(s))] + Table(f, Rest(Rest(s)))[Rest(Rest(s))]
      BY <2>1, <2>4
    <3>5. QED
      BY <2>2, <2>4, <3>3, <3>4
  <2>5. QED
    BY <2>3, <2>4
<1>6. IsTable(g, f, T)
  <2>1. \A s \in SUBSET T : g[s] = IF s = {} THEN 0 ELSE f[Pick(s)] + g[Rest(s)]
    BY <1>5
  <2>2. g = [s \in SUBSET T |-> IF s = {} THEN 0 ELSE f[Pick(s)] + g[Rest(s)]]
    <3>1. g = [s \in SUBSET T |-> g[s]]
      OBVIOUS
    <3> HIDE DEF g
    <3>2. QED
      BY <2>1, <3>1
  <2> HIDE DEF g
  <2>3. QED
    BY <2>2 DEF IsTable
<1>7. IsTable(Table(f, T), f, T)
  <2> HIDE DEF g
  <2>1. QED
    BY <1>6, Zenon DEF Table
<1>8. QED
  BY <1>3, <1>7
-----------------------------------------------------------------------------
(* The sum over a set.                                                     *)

LEMMA SumOfNone == \A f : SumFunctionOnSet(f, {}) = 0
<1>1. SUFFICES ASSUME NEW f PROVE SumFunctionOnSet(f, {}) = 0
  OBVIOUS
<1>2. IsTable(Table(f, {}), f, {})
  BY TableExists, FS_EmptySet
<1>3. QED
  BY <1>2, SumIsInTable, TableAt

(* The equation by which the sum is computed.                              *)
LEMMA SumOfPicked ==
  ASSUME NEW f, NEW S, IsFiniteSet(S), S # {}
  PROVE  SumFunctionOnSet(f, S) = f[Pick(S)] + SumFunctionOnSet(f, S \ {Pick(S)})
<1> DEFINE R == S \ {Pick(S)}
<1>1. IsFiniteSet(R) /\ R \in SUBSET S
  BY FS_Subset
<1>2. IsTable(Table(f, S), f, S) /\ IsTable(Table(f, R), f, R)
  BY <1>1, TableExists
<1>3. Table(f, S)[R] = Table(f, R)[R]
  <2> HIDE DEF R
  <2>1. QED
    BY <1>1, <1>2, TablesAgree
<1>4. Table(f, S)[S] = f[Pick(S)] + Table(f, S)[R]
  BY <1>2, TableAt
<1>5. QED
  BY <1>3, <1>4, SumIsInTable

(* A sum of integers is one.                                               *)
LEMMA SumIsInt ==
  ASSUME NEW f, NEW S, IsFiniteSet(S), \A x \in S : f[x] \in Int
  PROVE  SumFunctionOnSet(f, S) \in Int
<1> DEFINE C == {T \in SUBSET S : SumFunctionOnSet(f, T) \notin Int}
<1>1. SUFFICES ASSUME C # {} PROVE FALSE
  OBVIOUS
<1>2. \E T \in C : \A U \in SUBSET T : U # T => U \notin C
  <2>1. C \subseteq SUBSET S
    OBVIOUS
  <2> HIDE DEF C
  <2>2. QED
    BY <1>1, <2>1, SmallestSubset
<1>3. PICK T \in C : \A U \in SUBSET T : U # T => U \notin C
  BY <1>2
<1>4. T # {}
  BY <1>3, SumOfNone
<1>5. SumFunctionOnSet(f, T) = f[Pick(T)] + SumFunctionOnSet(f, T \ {Pick(T)})
  BY <1>4, SumOfPicked, FS_Subset
<1>6. T \ {Pick(T)} \in SUBSET T /\ T \ {Pick(T)} # T /\ Pick(T) \in S
  BY <1>4, PickIsMember
<1>7. SumFunctionOnSet(f, T \ {Pick(T)}) \in Int
  BY <1>3, <1>6
<1>8. QED
  BY <1>3, <1>5, <1>6, <1>7

(* Any element may be taken out first: addition commutes.                  *)
LEMMA SumWithout ==
  ASSUME NEW f, NEW S, IsFiniteSet(S), \A x \in S : f[x] \in Int, NEW e \in S
  PROVE  SumFunctionOnSet(f, S) = f[e] + SumFunctionOnSet(f, S \ {e})
<1> DEFINE Good(T) ==
      \A x \in T : SumFunctionOnSet(f, T) = f[x] + SumFunctionOnSet(f, T \ {x})
           C == {T \in SUBSET S : ~ Good(T)}
<1>1. SUFFICES ASSUME C # {} PROVE FALSE
  OBVIOUS
<1>2. \E T \in C : \A U \in SUBSET T : U # T => U \notin C
  <2>1. C \subseteq SUBSET S
    OBVIOUS
  <2> HIDE DEF C
  <2>2. QED
    BY <1>1, <2>1, SmallestSubset
<1>3. PICK T \in C : \A U \in SUBSET T : U # T => U \notin C
  BY <1>2
<1>4. PICK x \in T : SumFunctionOnSet(f, T) # f[x] + SumFunctionOnSet(f, T \ {x})
  BY <1>3
<1> DEFINE p == Pick(T)
<1>5. p \in T /\ SumFunctionOnSet(f, T) = f[p] + SumFunctionOnSet(f, T \ {p})
  BY <1>3, FS_Subset, PickIsMember, SumOfPicked
<1>6. p # x
  BY <1>4, <1>5
<1>7. Good(T \ {p}) /\ Good(T \ {x})
  <2>1. T \ {p} \in SUBSET T /\ T \ {p} # T /\ T \ {x} \in SUBSET T /\ T \ {x} # T
    BY <1>4, <1>5
  <2>2. T \ {p} \notin C /\ T \ {x} \notin C
    BY <1>3, <2>1
  <2> HIDE DEF Good
  <2>3. QED
    BY <1>3, <2>2
<1> DEFINE rest == SumFunctionOnSet(f, T \ {p, x})
<1>8. SumFunctionOnSet(f, T \ {p}) = f[x] + rest
  <2>1. (T \ {p}) \ {x} = T \ {p, x} /\ x \in T \ {p}
    BY <1>4, <1>6
  <2>2. QED
    BY <1>7, <2>1
<1>9. SumFunctionOnSet(f, T \ {x}) = f[p] + rest
  <2>1. (T \ {x}) \ {p} = T \ {p, x} /\ p \in T \ {x}
    BY <1>5, <1>6
  <2>2. QED
    BY <1>7, <2>1
<1>10. f[p] \in Int /\ f[x] \in Int /\ rest \in Int
  <2>1. p \in S /\ x \in S /\ T \ {p, x} \in SUBSET S
    BY <1>3, <1>4, <1>5
  <2>2. rest \in Int
    BY <2>1, FS_Subset, SumIsInt
  <2>3. QED
    BY <2>1, <2>2
<1>11. QED
  <2> HIDE DEF p, rest
  <2>1. QED
    BY <1>4, <1>5, <1>8, <1>9, <1>10

(* The sum looks at the values on the set only.                            *)
LEMMA SumSame ==
  ASSUME NEW f, NEW g, NEW S, IsFiniteSet(S), \A x \in S : f[x] = g[x]
  PROVE  SumFunctionOnSet(f, S) = SumFunctionOnSet(g, S)
<1> DEFINE C == {T \in SUBSET S : SumFunctionOnSet(f, T) # SumFunctionOnSet(g, T)}
<1>1. SUFFICES ASSUME C # {} PROVE FALSE
  OBVIOUS
<1>2. \E T \in C : \A U \in SUBSET T : U # T => U \notin C
  <2>1. C \subseteq SUBSET S
    OBVIOUS
  <2> HIDE DEF C
  <2>2. QED
    BY <1>1, <2>1, SmallestSubset
<1>3. PICK T \in C : \A U \in SUBSET T : U # T => U \notin C
  BY <1>2
<1>4. T # {}
  BY <1>3, SumOfNone
<1>5. /\ SumFunctionOnSet(f, T) = f[Pick(T)] + SumFunctionOnSet(f, T \ {Pick(T)})
      /\ SumFunctionOnSet(g, T) = g[Pick(T)] + SumFunctionOnSet(g, T \ {Pick(T)})
  BY <1>3, <1>4, SumOfPicked, FS_Subset
<1>6. T \ {Pick(T)} \in SUBSET T /\ T \ {Pick(T)} # T /\ Pick(T) \in S
  BY <1>3, <1>4, PickIsMember
<1>7. SumFunctionOnSet(f, T \ {Pick(T)}) = SumFunctionOnSet(g, T \ {Pick(T)})
  BY <1>3, <1>6
<1>8. QED
  BY <1>3, <1>5, <1>6, <1>7

(* Zeros add up to zero, natural numbers to one.                           *)
LEMMA SumOfZeros ==
  ASSUME NEW f, NEW S, IsFiniteSet(S), \A x \in S : f[x] = 0
  PROVE  SumFunctionOnSet(f, S) = 0
<1> DEFINE C == {T \in SUBSET S : SumFunctionOnSet(f, T) # 0}
<1>1. SUFFICES ASSUME C # {} PROVE FALSE
  OBVIOUS
<1>2. \E T \in C : \A U \in SUBSET T : U # T => U \notin C
  <2>1. C \subseteq SUBSET S
    OBVIOUS
  <2> HIDE DEF C
  <2>2. QED
    BY <1>1, <2>1, SmallestSubset
<1>3. PICK T \in C : \A U \in SUBSET T : U # T => U \notin C
  BY <1>2
<1>4. T # {}
  BY <1>3, SumOfNone
<1>5. SumFunctionOnSet(f, T) = f[Pick(T)] + SumFunctionOnSet(f, T \ {Pick(T)})
  BY <1>3, <1>4, SumOfPicked, FS_Subset
<1>6. T \ {Pick(T)} \in SUBSET T /\ T \ {Pick(T)} # T /\ Pick(T) \in S
  BY <1>3, <1>4, PickIsMember
<1>7. SumFunctionOnSet(f, T \ {Pick(T)}) = 0
  BY <1>3, <1>6
<1>8. QED
  BY <1>3, <1>5, <1>6, <1>7

LEMMA SumIsNat ==
  ASSUME NEW f, NEW S, IsFiniteSet(S), \A x \in S : f[x] \in Nat
  PROVE  SumFunctionOnSet(f, S) \in Nat
<1> DEFINE C == {T \in SUBSET S : SumFunctionOnSet(f, T) \notin Nat}
<1>1. SUFFICES ASSUME C # {} PROVE FALSE
  OBVIOUS
<1>2. \E T \in C : \A U \in SUBSET T : U # T => U \notin C
  <2>1. C \subseteq SUBSET S
    OBVIOUS
  <2> HIDE DEF C
  <2>2. QED
    BY <1>1, <2>1, SmallestSubset
<1>3. PICK T \in C : \A U \in SUBSET T : U # T => U \notin C
  BY <1>2
<1>4. T # {}
  <2>1. SumFunctionOnSet(f, {}) \in Nat
    BY SumOfNone
  <2>2. QED
    BY <1>3, <2>1
<1>5. SumFunctionOnSet(f, T) = f[Pick(T)] + SumFunctionOnSet(f, T \ {Pick(T)})
  BY <1>3, <1>4, SumOfPicked, FS_Subset
<1>6. T \ {Pick(T)} \in SUBSET T /\ T \ {Pick(T)} # T /\ Pick(T) \in S
  BY <1>3, <1>4, PickIsMember
<1>7. SumFunctionOnSet(f, T \ {Pick(T)}) \in Nat
  BY <1>3, <1>6
<1>8. QED
  BY <1>3, <1>5, <1>6, <1>7
-----------------------------------------------------------------------------
(* The sum of a function.                                                  *)

LEMMA FunctionSumIsNat ==
  ASSUME NEW S, IsFiniteSet(S), NEW f \in [S -> Nat]
  PROVE  SumFunction(f) \in Nat
  BY SumIsNat DEF SumFunction

LEMMA FunctionSumOfZeros ==
  ASSUME NEW S, IsFiniteSet(S)
  PROVE  SumFunction([x \in S |-> 0]) = 0
<1> DEFINE f == [x \in S |-> 0]
<1>1. DOMAIN f = S /\ \A x \in S : f[x] = 0
  OBVIOUS
<1> HIDE DEF f
<1>2. SumFunction(f) = 0
  BY <1>1, SumOfZeros DEF SumFunction
<1>3. QED
  BY <1>2 DEF f

(* Changing one value changes the sum by the difference.                   *)
LEMMA FunctionSumChange ==
  ASSUME NEW S, IsFiniteSet(S), NEW f \in [S -> Int], NEW g \in [S -> Int],
         NEW e \in S, \A x \in S \ {e} : g[x] = f[x]
  PROVE  SumFunction(g) = SumFunction(f) - f[e] + g[e]
<1>1. /\ SumFunctionOnSet(f, S) = f[e] + SumFunctionOnSet(f, S \ {e})
      /\ SumFunctionOnSet(g, S) = g[e] + SumFunctionOnSet(g, S \ {e})
  BY SumWithout
<1>2. SumFunctionOnSet(g, S \ {e}) = SumFunctionOnSet(f, S \ {e})
  BY SumSame, FS_Subset
<1>3. SumFunctionOnSet(f, S \ {e}) \in Int
  BY SumIsInt, FS_Subset
<1>4. SumFunction(f) = SumFunctionOnSet(f, S) /\ SumFunction(g) = SumFunctionOnSet(g, S)
  BY DEF SumFunction
<1>5. QED
  BY <1>1, <1>2, <1>3, <1>4

(* A value of a function to the natural numbers is at most its sum.        *)
LEMMA FunctionSumBounds ==
  ASSUME NEW S, IsFiniteSet(S), NEW f \in [S -> Nat], NEW e \in S
  PROVE  f[e] <= SumFunction(f)
<1>1. SumFunctionOnSet(f, S) = f[e] + SumFunctionOnSet(f, S \ {e})
  BY SumWithout
<1>2. SumFunctionOnSet(f, S \ {e}) \in Nat
  BY SumIsNat, FS_Subset
<1>3. SumFunction(f) = SumFunctionOnSet(f, S)
  BY DEF SumFunction
<1>4. QED
  BY <1>1, <1>2, <1>3
=============================================================================
