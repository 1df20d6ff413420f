------------------------------- MODULE SumFacts -------------------------------
(***************************************************************************)
(* Finite sums of integers: that SumFunctionOnSet, a recursion over the    *)
(* subsets of the indices in an order nobody knows, adds up each index     *)
(* once, and the laws of sums that follow.                                 *)
(***************************************************************************)
EXTENDS Integers, Functions, FiniteSetTheorems, WellFoundedInduction, TLAPS

-----------------------------------------------------------------------------
(* Induction, over sets *)

\* Naturals have a least one.
LEMMA LeastNat ==
  ASSUME NEW T \in SUBSET Nat, T # {}
  PROVE  \E n \in T : \A m \in T : n <= m
<1>1. PICK n \in T : \A m \in T : ~ (<<m, n>> \in OpToRel(<, Nat))
  BY NatLessThanWellFounded, WFMin, Zenon
<1>2. \A m \in T : ~(m < n)
  BY <1>1 DEF OpToRel
<1> QED
  BY <1>2

\* A set of naturals that holds 0 and with n also n + 1 holds them all.
LEMMA NatSetInduction ==
  ASSUME NEW T, 0 \in T, \A n \in Nat : n \in T => n + 1 \in T
  PROVE  \A n \in Nat : n \in T
<1> SUFFICES ASSUME NEW a \in Nat, a \notin T PROVE FALSE
  OBVIOUS
<1> DEFINE U == {n \in Nat : n \notin T}
<1>1. PICK n \in U : \A m \in U : n <= m
  <2>1. U \in SUBSET Nat /\ U # {}
    OBVIOUS
  <2> QED
    BY <2>1, LeastNat
<1>2. n # 0 /\ n \in Nat /\ n \notin T
  OBVIOUS
<1>3. n - 1 \in Nat /\ n - 1 \notin U
  BY <1>1, <1>2
<1>4. n - 1 \in T /\ (n - 1) + 1 = n
  BY <1>2, <1>3
<1> QED
  BY <1>2, <1>3, <1>4

\* The same for the subsets of a finite set, one element at a time.
LEMMA SubsetInduction ==
  ASSUME NEW S, IsFiniteSet(S), NEW F, {} \in F,
         \A T \in SUBSET S : T # {} /\ (\A x \in T : T \ {x} \in F) => T \in F
  PROVE  \A T \in SUBSET S : T \in F
<1> DEFINE Done == {n \in Nat : \A T \in SUBSET S : Cardinality(T) = n => T \in F}
<1>1. \A T \in SUBSET S : IsFiniteSet(T) /\ Cardinality(T) \in Nat
  BY FS_Subset, FS_CardinalityType
<1>2. 0 \in Done
  <2>1. \A T \in SUBSET S : Cardinality(T) = 0 => T = {}
    BY <1>1, FS_EmptySet
  <2> QED
    BY <2>1
<1>3. ASSUME NEW n \in Nat, n \in Done PROVE n + 1 \in Done
  <2> SUFFICES ASSUME NEW T \in SUBSET S, Cardinality(T) = n + 1 PROVE T \in F
    OBVIOUS
  <2>1. T # {}
    <3>1. Cardinality({}) = 0 /\ n + 1 # 0
      BY FS_EmptySet
    <3> QED
      BY <3>1
  <2>2. \A x \in T : Cardinality(T \ {x}) = n
    BY <1>1, FS_RemoveElement
  <2> QED
    BY <1>3, <2>1, <2>2
<1>4. \A n \in Nat : n \in Done
  <2> HIDE DEF Done
  <2> QED
    BY <1>2, <1>3, NatSetInduction
<1> QED
  BY <1>1, <1>4

-----------------------------------------------------------------------------
(* What a sum is *)

\* h gives the sum of f over every subset of S.
IsSum(h, f, S) ==
  /\ h \in [SUBSET S -> Int]
  /\ h[{}] = 0
  /\ \A T \in SUBSET S : \A x \in T : h[T] = f[x] + h[T \ {x}]

IntOn(f, S) == \A x \in S : f[x] \in Int

\* There is one, however large S,
LEMMA SumExists ==
  ASSUME NEW S, IsFiniteSet(S), NEW f, IntOn(f, S)
  PROVE  \E h : IsSum(h, f, S)
<1> DEFINE F == {T \in SUBSET S : \E h : IsSum(h, f, T)}
<1>1. {} \in F
  <2>1. IsSum([T \in {{}} |-> 0], f, {})
    BY DEF IsSum
  <2> QED
    BY <2>1
<1>2. ASSUME NEW R \in SUBSET S, NEW a \in R, R \ {a} \in F PROVE R \in F
  <2>1. PICK k : IsSum(k, f, R \ {a})
    BY <1>2
  <2> DEFINE h == [T \in SUBSET R |-> IF a \in T THEN f[a] + k[T \ {a}] ELSE k[T]]
  <2>2. /\ \A T \in SUBSET (R \ {a}) : k[T] \in Int
        /\ k[{}] = 0
        /\ \A T \in SUBSET (R \ {a}) : \A x \in T : k[T] = f[x] + k[T \ {x}]
    BY <2>1 DEF IsSum
  <2>3. f[a] \in Int /\ \A x \in R : f[x] \in Int
    BY DEF IntOn
  <2>4. \A T \in SUBSET R : T \ {a} \in SUBSET (R \ {a}) /\ (a \notin T => T \in SUBSET (R \ {a}))
    OBVIOUS
  <2>5. h \in [SUBSET R -> Int] /\ h[{}] = 0
    BY <2>2, <2>3, <2>4
  <2>6. ASSUME NEW T \in SUBSET R, NEW x \in T PROVE h[T] = f[x] + h[T \ {x}]
    <3>1. CASE a \notin T
      BY <2>2, <2>4, <3>1
    <3>2. CASE x = a
      BY <2>2, <2>4, <3>2
    <3>3. CASE a \in T /\ x # a
      <4>1. h[T] = f[a] + k[T \ {a}] /\ h[T \ {x}] = f[a] + k[(T \ {x}) \ {a}]
        BY <3>3
      <4>2. (T \ {x}) \ {a} = (T \ {a}) \ {x} /\ T \ {a} \in SUBSET (R \ {a}) /\ x \in T \ {a}
        BY <3>3
      <4>3. k[T \ {a}] = f[x] + k[(T \ {a}) \ {x}] /\ k[(T \ {a}) \ {x}] \in Int
        BY <2>2, <4>2
      <4>4. f[a] \in Int /\ f[x] \in Int
        BY <2>3
      <4>5. f[a] + (f[x] + k[(T \ {a}) \ {x}]) = f[x] + (f[a] + k[(T \ {a}) \ {x}])
        BY <4>3, <4>4
      <4> QED
        BY <4>1, <4>2, <4>3, <4>5
    <3> QED
      BY <3>1, <3>2, <3>3
  <2>7. IsSum(h, f, R)
    BY <2>5, <2>6 DEF IsSum
  <2> QED
    BY <2>7
<1>3. \A T \in SUBSET S : T \in F
  <2> HIDE DEF F
  <2> QED
    BY <1>1, <1>2, SubsetInduction
<1> QED
  BY <1>3

\* and a recursion that takes out one index at a time, whichever, computes it.
LEMMA SumUnique ==
  ASSUME NEW S, IsFiniteSet(S), NEW f, IntOn(f, S), NEW h, IsSum(h, f, S),
         NEW k, k[{}] = 0,
         \A T \in SUBSET S : T # {} => \E x \in T : k[T] = f[x] + k[T \ {x}]
  PROVE  \A T \in SUBSET S : k[T] = h[T]
<1> DEFINE F == {T \in SUBSET S : k[T] = h[T]}
<1>1. {} \in F
  BY DEF IsSum
<1>2. ASSUME NEW T \in SUBSET S, T # {}, \A x \in T : T \ {x} \in F PROVE T \in F
  <2>1. PICK x \in T : k[T] = f[x] + k[T \ {x}]
    BY <1>2
  <2>2. h[T] = f[x] + h[T \ {x}]
    BY DEF IsSum
  <2> QED
    BY <1>2, <2>1, <2>2
<1>3. \A T \in SUBSET S : T \in F
  <2> HIDE DEF F
  <2> QED
    BY <1>1, <1>2, SubsetInduction
<1> QED
  BY <1>3

\* So SumFunctionOnSet is the sum.
LEMMA SumIs ==
  ASSUME NEW S, IsFiniteSet(S), NEW f, IntOn(f, S), NEW h, IsSum(h, f, S)
  PROVE  SumFunctionOnSet(f, S) = h[S]
<1> DEFINE iter[T \in SUBSET S] ==
             IF T = {} THEN 0
             ELSE LET x == CHOOSE x \in T : TRUE IN f[x] + iter[T \ {x}]
<1>1. SumFunctionOnSet(f, S) = iter[S]
  BY DEF SumFunctionOnSet, FoldFunctionOnSet, MapThenFoldSet
<1>2. h = [T \in SUBSET S |->
             IF T = {} THEN 0
             ELSE LET x == CHOOSE x \in T : TRUE IN f[x] + h[T \ {x}]]
  BY DEF IsSum
<1>3. iter = [T \in SUBSET S |->
             IF T = {} THEN 0
             ELSE LET x == CHOOSE x \in T : TRUE IN f[x] + iter[T \ {x}]]
  BY <1>2
<1> HIDE DEF iter
<1>4. iter[{}] = 0
  BY <1>3
<1>5. \A T \in SUBSET S : T # {} => \E x \in T : iter[T] = f[x] + iter[T \ {x}]
  BY <1>3
<1>6. iter[S] = h[S]
  BY <1>4, <1>5, SumUnique
<1> QED
  BY <1>1, <1>6

\* It is the sum over every subset at once.
LEMMA SumOnSubsets ==
  ASSUME NEW S, IsFiniteSet(S), NEW f, IntOn(f, S)
  PROVE  IsSum([T \in SUBSET S |-> SumFunctionOnSet(f, T)], f, S)
<1>1. PICK h : IsSum(h, f, S)
  BY SumExists
<1>2. ASSUME NEW T \in SUBSET S PROVE SumFunctionOnSet(f, T) = h[T]
  <2>1. IsFiniteSet(T) /\ IntOn(f, T)
    BY FS_Subset DEF IntOn
  <2> DEFINE g == [U \in SUBSET T |-> h[U]]
  <2>2. IsSum(g, f, T)
    BY <1>1 DEF IsSum
  <2>3. g[T] = h[T]
    OBVIOUS
  <2> HIDE DEF g
  <2> QED
    BY <2>1, <2>2, <2>3, SumIs
<1>3. [T \in SUBSET S |-> SumFunctionOnSet(f, T)] = h
  BY <1>1, <1>2 DEF IsSum
<1> QED
  BY <1>1, <1>3

-----------------------------------------------------------------------------
(* The laws *)

\* A sum takes out any index, and is 0 over none.
THEOREM SumRecursion ==
  ASSUME NEW S, IsFiniteSet(S), NEW f, IntOn(f, S)
  PROVE  /\ SumFunctionOnSet(f, S) \in Int
         /\ SumFunctionOnSet(f, {}) = 0
         /\ \A x \in S : SumFunctionOnSet(f, S) = f[x] + SumFunctionOnSet(f, S \ {x})
<1> DEFINE h == [T \in SUBSET S |-> SumFunctionOnSet(f, T)]
<1>1. IsSum(h, f, S)
  BY SumOnSubsets
<1>2. \A T \in SUBSET S : h[T] = SumFunctionOnSet(f, T)
  OBVIOUS
<1> HIDE DEF h
<1> QED
  BY <1>1, <1>2 DEF IsSum

\* Only the values on the indices matter.
THEOREM SumSame ==
  ASSUME NEW S, IsFiniteSet(S), NEW f, IntOn(f, S), NEW g, \A x \in S : g[x] = f[x]
  PROVE  SumFunctionOnSet(g, S) = SumFunctionOnSet(f, S)
<1> DEFINE h == [T \in SUBSET S |-> SumFunctionOnSet(f, T)]
<1>1. IsSum(h, f, S) /\ h[S] = SumFunctionOnSet(f, S)
  BY SumOnSubsets
<1> HIDE DEF h
<1>2. IsSum(h, g, S) /\ IntOn(g, S)
  BY <1>1 DEF IsSum, IntOn
<1> QED
  BY <1>1, <1>2, SumIs

\* The sum of two functions.
THEOREM SumPlus ==
  ASSUME NEW S, IsFiniteSet(S), NEW f, IntOn(f, S), NEW g, IntOn(g, S),
         NEW r, \A x \in S : r[x] = f[x] + g[x]
  PROVE  SumFunctionOnSet(r, S) = SumFunctionOnSet(f, S) + SumFunctionOnSet(g, S)
<1> DEFINE hf == [T \in SUBSET S |-> SumFunctionOnSet(f, T)]
           hg == [T \in SUBSET S |-> SumFunctionOnSet(g, T)]
           h  == [T \in SUBSET S |-> hf[T] + hg[T]]
<1>1. IsSum(hf, f, S) /\ hf[S] = SumFunctionOnSet(f, S)
  BY SumOnSubsets
<1>2. IsSum(hg, g, S) /\ hg[S] = SumFunctionOnSet(g, S)
  BY SumOnSubsets
<1> HIDE DEF hf, hg
<1>3. IntOn(r, S)
  BY DEF IntOn
<1>4. ASSUME NEW T \in SUBSET S, NEW x \in T PROVE h[T] = r[x] + h[T \ {x}]
  <2>1. /\ hf[T] = f[x] + hf[T \ {x}] /\ hg[T] = g[x] + hg[T \ {x}]
        /\ f[x] \in Int /\ g[x] \in Int /\ hf[T \ {x}] \in Int /\ hg[T \ {x}] \in Int
    BY <1>1, <1>2 DEF IsSum, IntOn
  <2>2. h[T] = hf[T] + hg[T] /\ h[T \ {x}] = hf[T \ {x}] + hg[T \ {x}]
    OBVIOUS
  <2> QED
    BY <2>1, <2>2
<1>5. h \in [SUBSET S -> Int] /\ h[{}] = 0 /\ h[S] = hf[S] + hg[S]
  BY <1>1, <1>2 DEF IsSum
<1> HIDE DEF h
<1>6. IsSum(h, r, S)
  BY <1>4, <1>5 DEF IsSum
<1> QED
  BY <1>1, <1>2, <1>3, <1>5, <1>6, SumIs

\* A common factor.
THEOREM SumTimes ==
  ASSUME NEW S, IsFiniteSet(S), NEW f, IntOn(f, S), NEW c \in Int,
         NEW r, \A x \in S : r[x] = c * f[x]
  PROVE  SumFunctionOnSet(r, S) = c * SumFunctionOnSet(f, S)
<1> DEFINE hf == [T \in SUBSET S |-> SumFunctionOnSet(f, T)]
           h  == [T \in SUBSET S |-> c * hf[T]]
<1>1. IsSum(hf, f, S) /\ hf[S] = SumFunctionOnSet(f, S)
  BY SumOnSubsets
<1> HIDE DEF hf
<1>3. IntOn(r, S)
  BY DEF IntOn
<1>4. ASSUME NEW T \in SUBSET S, NEW x \in T PROVE h[T] = r[x] + h[T \ {x}]
  <2>1. hf[T] = f[x] + hf[T \ {x}] /\ f[x] \in Int /\ hf[T \ {x}] \in Int
    BY <1>1 DEF IsSum, IntOn
  <2>2. h[T] = c * hf[T] /\ h[T \ {x}] = c * hf[T \ {x}]
    OBVIOUS
  <2>3. c * (f[x] + hf[T \ {x}]) = c * f[x] + c * hf[T \ {x}]
    BY <2>1
  <2> QED
    BY <2>1, <2>2, <2>3
<1>5. h \in [SUBSET S -> Int] /\ h[{}] = 0 /\ h[S] = c * hf[S]
  BY <1>1 DEF IsSum
<1> HIDE DEF h
<1>6. IsSum(h, r, S)
  BY <1>4, <1>5 DEF IsSum
<1> QED
  BY <1>1, <1>3, <1>5, <1>6, SumIs

\* Equal parts.
THEOREM SumConst ==
  ASSUME NEW S, IsFiniteSet(S), NEW c \in Int, NEW f, \A x \in S : f[x] = c
  PROVE  SumFunctionOnSet(f, S) = Cardinality(S) * c
<1> DEFINE h == [T \in SUBSET S |-> Cardinality(T) * c]
<1>1. IntOn(f, S)
  BY DEF IntOn
<1>2. \A T \in SUBSET S : IsFiniteSet(T) /\ Cardinality(T) \in Nat
  BY FS_Subset, FS_CardinalityType
<1>3. ASSUME NEW T \in SUBSET S, NEW x \in T PROVE h[T] = f[x] + h[T \ {x}]
  <2>1. Cardinality(T \ {x}) = Cardinality(T) - 1
    BY <1>2, FS_RemoveElement
  <2>2. h[T] = Cardinality(T) * c /\ h[T \ {x}] = (Cardinality(T) - 1) * c
    BY <2>1
  <2>3. Cardinality(T) * c = c + (Cardinality(T) - 1) * c
    BY <1>2
  <2> QED
    BY <2>2, <2>3
<1>4. h \in [SUBSET S -> Int] /\ h[{}] = 0 /\ h[S] = Cardinality(S) * c
  BY <1>2, FS_EmptySet
<1> HIDE DEF h
<1>5. IsSum(h, f, S)
  BY <1>3, <1>4 DEF IsSum
<1> QED
  BY <1>1, <1>4, <1>5, SumIs

\* One index that counts.
THEOREM SumPoint ==
  ASSUME NEW S, IsFiniteSet(S), NEW a \in S, NEW c \in Int,
         NEW f, \A x \in S : f[x] = IF x = a THEN c ELSE 0
  PROVE  SumFunctionOnSet(f, S) = c
<1> DEFINE h == [T \in SUBSET S |-> IF a \in T THEN c ELSE 0]
<1>1. IntOn(f, S)
  BY DEF IntOn
<1>2. IsSum(h, f, S)
  BY DEF IsSum
<1>3. h[S] = c
  OBVIOUS
<1> HIDE DEF h
<1> QED
  BY <1>1, <1>2, <1>3, SumIs

\* Nothing negative: the sum is at least each of its parts.
THEOREM SumOfNaturals ==
  ASSUME NEW S, IsFiniteSet(S), NEW f, \A x \in S : f[x] \in Nat
  PROVE  /\ SumFunctionOnSet(f, S) \in Nat
         /\ \A x \in S : f[x] <= SumFunctionOnSet(f, S)
<1> DEFINE h == [T \in SUBSET S |-> SumFunctionOnSet(f, T)]
           F == {T \in SUBSET S : h[T] \in Nat}
<1>1. IntOn(f, S)
  BY DEF IntOn
<1>2. IsSum(h, f, S) /\ h[S] = SumFunctionOnSet(f, S)
  BY <1>1, SumOnSubsets
<1> HIDE DEF h
<1>3. {} \in F
  BY <1>2 DEF IsSum
<1>4. ASSUME NEW T \in SUBSET S, T # {}, \A x \in T : T \ {x} \in F PROVE T \in F
  <2>1. PICK x \in T : h[T \ {x}] \in Nat
    BY <1>4
  <2>2. h[T] = f[x] + h[T \ {x}] /\ f[x] \in Nat
    BY <1>2 DEF IsSum
  <2> QED
    BY <2>1, <2>2
<1>5. \A T \in SUBSET S : T \in F
  <2> HIDE DEF F
  <2> QED
    BY <1>3, <1>4, SubsetInduction
<1>6. h[S] \in Nat
  BY <1>5
<1>7. ASSUME NEW x \in S PROVE f[x] <= h[S]
  <2>1. h[S] = f[x] + h[S \ {x}] /\ h[S \ {x}] \in Nat /\ f[x] \in Nat
    BY <1>2, <1>5 DEF IsSum
  <2> QED
    BY <2>1
<1> QED
  BY <1>2, <1>6, <1>7

\* Larger parts, a larger sum.
THEOREM SumMonotone ==
  ASSUME NEW S, IsFiniteSet(S), NEW f, IntOn(f, S), NEW g, IntOn(g, S),
         \A x \in S : f[x] <= g[x]
  PROVE  SumFunctionOnSet(f, S) <= SumFunctionOnSet(g, S)
<1> DEFINE d == [x \in S |-> g[x] - f[x]]
<1>1. \A x \in S : d[x] \in Nat /\ g[x] = f[x] + d[x]
  BY DEF IntOn
<1>2. IntOn(d, S)
  BY <1>1 DEF IntOn
<1> HIDE DEF d
<1>3. SumFunctionOnSet(g, S) = SumFunctionOnSet(f, S) + SumFunctionOnSet(d, S)
  BY <1>1, <1>2, SumPlus
<1>4. SumFunctionOnSet(d, S) \in Nat
  BY <1>1, SumOfNaturals
<1>5. SumFunctionOnSet(f, S) \in Int
  BY SumRecursion
<1> QED
  BY <1>3, <1>4, <1>5

\* What is zero does not count.
THEOREM SumWithin ==
  ASSUME NEW S, IsFiniteSet(S), NEW f, IntOn(f, S), NEW T \in SUBSET S,
         \A x \in S \ T : f[x] = 0
  PROVE  SumFunctionOnSet(f, S) = SumFunctionOnSet(f, T)
<1> DEFINE hf == [U \in SUBSET S |-> SumFunctionOnSet(f, U)]
           h  == [U \in SUBSET S |-> hf[U \cap T]]
<1>1. IsSum(hf, f, S) /\ hf[T] = SumFunctionOnSet(f, T)
  BY SumOnSubsets
<1> HIDE DEF hf
<1>2. h \in [SUBSET S -> Int] /\ h[{}] = 0
  <2>1. \A U \in SUBSET S : U \cap T \in SUBSET S /\ {} \cap T = {}
    OBVIOUS
  <2> QED
    BY <1>1, <2>1 DEF IsSum
<1>3. ASSUME NEW U \in SUBSET S, NEW x \in U PROVE h[U] = f[x] + h[U \ {x}]
  <2>1. h[U] = hf[U \cap T] /\ h[U \ {x}] = hf[(U \ {x}) \cap T]
    OBVIOUS
  <2>2. CASE x \in T
    <3>1. (U \ {x}) \cap T = (U \cap T) \ {x} /\ x \in U \cap T /\ U \cap T \in SUBSET S
      BY <2>2
    <3> QED
      BY <1>1, <2>1, <3>1 DEF IsSum
  <2>3. CASE x \notin T
    <3>1. (U \ {x}) \cap T = U \cap T /\ f[x] = 0 /\ U \cap T \in SUBSET S
      BY <2>3
    <3>2. hf[U \cap T] \in Int
      BY <1>1, <3>1 DEF IsSum
    <3>3. h[U] = hf[U \cap T] /\ h[U \ {x}] = hf[U \cap T]
      BY <2>1, <3>1
    <3> HIDE DEF h
    <3> QED
      BY <3>1, <3>2, <3>3
  <2> QED
    BY <2>2, <2>3
<1>4. h[S] = hf[T]
  <2>1. S \cap T = T
    OBVIOUS
  <2> QED
    BY <2>1
<1> HIDE DEF h
<1>5. \A U \in SUBSET S : \A x \in U : h[U] = f[x] + h[U \ {x}]
  BY <1>3
<1>6. IsSum(h, f, S)
  BY <1>2, <1>5 DEF IsSum
<1> QED
  BY <1>1, <1>4, <1>6, SumIs

\* A part of what is not negative.
THEOREM SumOfPart ==
  ASSUME NEW S, IsFiniteSet(S), NEW f, \A x \in S : f[x] \in Nat, NEW T \in SUBSET S
  PROVE  SumFunctionOnSet(f, T) <= SumFunctionOnSet(f, S)
<1> DEFINE g == [x \in S |-> IF x \in T THEN f[x] ELSE 0]
<1>1. IntOn(f, S) /\ IntOn(g, S) /\ IntOn(f, T) /\ IsFiniteSet(T)
  BY FS_Subset DEF IntOn
<1>2. (\A x \in S : g[x] <= f[x]) /\ (\A x \in S \ T : g[x] = 0) /\ (\A x \in T : g[x] = f[x])
  OBVIOUS
<1> HIDE DEF g
<1>3. SumFunctionOnSet(g, S) <= SumFunctionOnSet(f, S)
  BY <1>1, <1>2, SumMonotone
<1>4. SumFunctionOnSet(g, S) = SumFunctionOnSet(g, T)
  BY <1>1, <1>2, SumWithin
<1>5. SumFunctionOnSet(g, T) = SumFunctionOnSet(f, T)
  BY <1>1, <1>2, SumSame
<1> QED
  BY <1>3, <1>4, <1>5

\* g is over S what f is over P: p takes an index of the one to one of the other.
Reindexed(g, S, p, f, P) ==
  /\ \A x, y \in S : p[x] = p[y] => x = y
  /\ P = {p[x] : x \in S}
  /\ \A x \in S : g[x] = f[p[x]]

\* A sum in another order: over what the indices stand for.
THEOREM SumReindexed ==
  ASSUME NEW S, IsFiniteSet(S), NEW P, NEW f, IntOn(f, P), NEW g, NEW p,
         Reindexed(g, S, p, f, P)
  PROVE  /\ IsFiniteSet(P)
         /\ Cardinality(P) = Cardinality(S)
         /\ SumFunctionOnSet(g, S) = SumFunctionOnSet(f, P)
<1> DEFINE q == [x \in S |-> p[x]]
           hf == [U \in SUBSET P |-> SumFunctionOnSet(f, U)]
           image(U) == {p[x] : x \in U}
           h  == [U \in SUBSET S |-> hf[image(U)]]
<1>0. (\A x, y \in S : p[x] = p[y] => x = y) /\ P = {p[x] : x \in S} /\ \A x \in S : g[x] = f[p[x]]
  BY DEF Reindexed
<1>1. IsFiniteSet(P) /\ Cardinality(P) = Cardinality(S)
  <2>1. q \in Bijection(S, P)
    <3>1. q \in [S -> P] /\ \A x, y \in S : q[x] = q[y] => x = y
      BY <1>0
    <3>2. \A t \in P : \E x \in S : q[x] = t
      BY <1>0
    <3> HIDE DEF q
    <3> QED
      BY <3>1, <3>2, Zenon DEF Bijection, Injection, Surjection, IsInjective
  <2> QED
    BY <2>1, FS_Bijection DEF ExistsBijection
<1>2. IsSum(hf, f, P) /\ hf[P] = SumFunctionOnSet(f, P)
  BY <1>1, SumOnSubsets
<1> HIDE DEF hf
<1>3. h \in [SUBSET S -> Int] /\ h[{}] = 0
  <2>1. \A U \in SUBSET S : image(U) \in SUBSET P
    BY <1>0
  <2>2. image({}) = {}
    BY <1>0
  <2>3. (\A V \in SUBSET P : hf[V] \in Int) /\ hf[{}] = 0
    BY <1>2 DEF IsSum
  <2> HIDE DEF image
  <2> QED
    BY <2>1, <2>2, <2>3
<1>4. ASSUME NEW U \in SUBSET S, NEW x \in U PROVE h[U] = g[x] + h[U \ {x}]
  <2>1. image(U \ {x}) = image(U) \ {p[x]} /\ p[x] \in image(U) /\ image(U) \in SUBSET P
    BY <1>0
  <2>2. g[x] = f[p[x]]
    BY <1>0
  <2>3. hf[image(U)] = f[p[x]] + hf[image(U) \ {p[x]}]
    <3> HIDE DEF image
    <3> QED
      BY <1>2, <2>1 DEF IsSum
  <2> QED
    BY <2>1, <2>2, <2>3
<1>5. h[S] = hf[P]
  BY <1>0
<1>6. IntOn(g, S)
  BY <1>0 DEF IntOn
<1>7. IsSum(h, g, S)
  <2> HIDE DEF h
  <2>1. \A U \in SUBSET S : \A x \in U : h[U] = g[x] + h[U \ {x}]
    BY <1>4
  <2> QED
    BY <1>3, <2>1 DEF IsSum
<1> HIDE DEF h
<1>8. SumFunctionOnSet(g, S) = h[S]
  BY <1>6, <1>7, SumIs
<1> QED
  BY <1>1, <1>2, <1>5, <1>8

\* Of the sets of one size, none weighs more than one that what is outside it
\* does not exceed.
THEOREM SumOfHeaviest ==
  ASSUME NEW S, IsFiniteSet(S), NEW f, IntOn(f, S), NEW c \in Int,
         NEW P \in SUBSET S, \A x \in P : c <= f[x], \A x \in S \ P : f[x] <= c,
         NEW I \in SUBSET S, Cardinality(I) = Cardinality(P)
  PROVE  SumFunctionOnSet(f, I) <= SumFunctionOnSet(f, P)
<1> DEFINE k == [x \in S |-> c]
           d == [x \in S |-> f[x] - c]
           e == [x \in S |-> IF x \in P THEN f[x] - c ELSE 0]
<1>1. (\A x \in S : k[x] = c /\ f[x] = d[x] + k[x]) /\ IntOn(d, S) /\ IntOn(k, S)
  BY DEF IntOn
<1>2. /\ \A x \in S : e[x] \in Nat /\ d[x] <= e[x]
      /\ \A x \in P : d[x] = e[x]
      /\ \A x \in S \ P : e[x] = 0
  BY DEF IntOn
<1>3. IsFiniteSet(P) /\ IsFiniteSet(I) /\ Cardinality(P) \in Nat
  BY FS_Subset, FS_CardinalityType
<1> HIDE DEF k, d, e
<1>4. IntOn(e, S)
  BY <1>2 DEF IntOn
<1>5. ASSUME NEW T \in SUBSET S, IsFiniteSet(T)
      PROVE  /\ SumFunctionOnSet(f, T) = SumFunctionOnSet(d, T) + Cardinality(T) * c
             /\ SumFunctionOnSet(d, T) \in Int
  <2>1. IntOn(d, T) /\ IntOn(k, T) /\ \A x \in T : k[x] = c /\ f[x] = d[x] + k[x]
    BY <1>1 DEF IntOn
  <2>2. SumFunctionOnSet(f, T) = SumFunctionOnSet(d, T) + SumFunctionOnSet(k, T)
    BY <1>5, <2>1, SumPlus
  <2>3. SumFunctionOnSet(k, T) = Cardinality(T) * c
    BY <1>5, <2>1, SumConst
  <2> QED
    BY <1>5, <2>1, <2>2, <2>3, SumRecursion
<1>6. SumFunctionOnSet(d, I) <= SumFunctionOnSet(e, I)
  <2>1. IntOn(d, I) /\ IntOn(e, I) /\ \A x \in I : d[x] <= e[x]
    BY <1>1, <1>2, <1>4 DEF IntOn
  <2> QED
    BY <1>3, <2>1, SumMonotone
<1>7. SumFunctionOnSet(e, I) <= SumFunctionOnSet(e, S)
  BY <1>2, SumOfPart
<1>8. SumFunctionOnSet(e, S) = SumFunctionOnSet(e, P)
  BY <1>2, <1>4, SumWithin
<1>9. SumFunctionOnSet(d, P) = SumFunctionOnSet(e, P)
  <2>1. IntOn(e, P)
    BY <1>4 DEF IntOn
  <2> QED
    BY <1>2, <1>3, <2>1, SumSame
<1>10. SumFunctionOnSet(e, I) \in Int /\ SumFunctionOnSet(e, P) \in Int
  <2>1. IntOn(e, I) /\ IntOn(e, P)
    BY <1>4 DEF IntOn
  <2> QED
    BY <1>3, <2>1, SumRecursion
<1>11. /\ SumFunctionOnSet(f, I) = SumFunctionOnSet(d, I) + Cardinality(P) * c
       /\ SumFunctionOnSet(f, P) = SumFunctionOnSet(d, P) + Cardinality(P) * c
       /\ SumFunctionOnSet(d, I) \in Int /\ SumFunctionOnSet(d, P) \in Int
  BY <1>3, <1>5
<1>12. SumFunctionOnSet(d, I) <= SumFunctionOnSet(d, P)
  BY <1>6, <1>7, <1>8, <1>9, <1>10, <1>11
<1>13. Cardinality(P) * c \in Int
  BY <1>3
<1> QED
  BY <1>11, <1>12, <1>13

\* The square of a sum is at most the number of its parts times the sum of their
\* squares, because the squares of their distances to the mean are not negative.
THEOREM SumOfSquares ==
  ASSUME NEW S, IsFiniteSet(S), NEW f, IntOn(f, S), NEW q, \A x \in S : q[x] = f[x] * f[x]
  PROVE  SumFunctionOnSet(f, S) * SumFunctionOnSet(f, S)
           <= Cardinality(S) * SumFunctionOnSet(q, S)
<1>0. ASSUME NEW a \in Int PROVE a * a \in Nat
  <2>1. CASE a >= 0
    BY <2>1
  <2>2. CASE a < 0
    <3>1. -a \in Nat /\ (-a) * (-a) = a * a
      BY <2>2
    <3>2. (-a) * (-a) \in Nat
      BY <3>1
    <3> QED
      BY <3>1, <3>2
  <2> QED
    BY <2>1, <2>2
<1>1. PICK n \in Nat : n = Cardinality(S)
  BY FS_CardinalityType
<1>2. PICK t \in Int : t = SumFunctionOnSet(f, S)
  BY SumRecursion
<1>3. IntOn(q, S)
  BY DEF IntOn
<1>4. PICK w \in Int : w = SumFunctionOnSet(q, S)
  BY <1>3, SumRecursion
<1> DEFINE b == [x \in S |-> (n * n) * q[x]]
           c == [x \in S |-> (-2 * (n * t)) * f[x]]
           k == [x \in S |-> t * t]
           e == [x \in S |-> b[x] + c[x]]
           d == [x \in S |-> e[x] + k[x]]
<1>5. ASSUME NEW x \in S PROVE d[x] \in Nat
  <2>1. PICK a \in Int : a = f[x] /\ q[x] = a * a
    BY DEF IntOn
  <2>2. PICK na \in Int : na = n * a
    BY <2>1
  <2>3. na * na = (n * n) * (a * a) /\ na * t = (n * t) * a
    BY <2>2
  <2>4. (na - t) * (na - t) = na * na - 2 * (na * t) + t * t
    BY <2>2
  <2>5. PICK nta \in Int : nta = (n * t) * a
    BY <2>1
  <2>6. (-2 * (n * t)) * a = -2 * nta
    BY <2>5
  <2>7. d[x] = (n * n) * (a * a) + (-2 * (n * t)) * a + t * t
    BY <2>1
  <2>8. d[x] = (na - t) * (na - t)
    BY <2>2, <2>3, <2>4, <2>5, <2>6, <2>7
  <2>9. na - t \in Int
    BY <2>2
  <2> QED
    BY <1>0, <2>8, <2>9
<1>6. IntOn(b, S) /\ IntOn(c, S) /\ IntOn(k, S) /\ IntOn(e, S)
  <2>1. n * n \in Int /\ -2 * (n * t) \in Int /\ t * t \in Int
    OBVIOUS
  <2>2. ASSUME NEW x \in S
        PROVE  b[x] \in Int /\ c[x] \in Int /\ k[x] \in Int /\ e[x] \in Int
    <3>1. q[x] \in Int /\ f[x] \in Int
      BY <1>3 DEF IntOn
    <3> QED
      BY <2>1, <3>1
  <2> QED
    BY <2>2 DEF IntOn
<1>7. /\ \A x \in S : b[x] = (n * n) * q[x] /\ c[x] = (-2 * (n * t)) * f[x] /\ k[x] = t * t
      /\ \A x \in S : e[x] = b[x] + c[x] /\ d[x] = e[x] + k[x]
  OBVIOUS
<1>8. n * n \in Int /\ -2 * (n * t) \in Int /\ t * t \in Int
  OBVIOUS
<1> HIDE DEF b, c, k, e, d
<1>9. SumFunctionOnSet(b, S) = (n * n) * w
  BY <1>3, <1>4, <1>7, <1>8, SumTimes
<1>10. SumFunctionOnSet(c, S) = (-2 * (n * t)) * t
  BY <1>2, <1>7, <1>8, SumTimes
<1>11. SumFunctionOnSet(k, S) = n * (t * t)
  BY <1>1, <1>7, <1>8, SumConst
<1>12. SumFunctionOnSet(e, S) = SumFunctionOnSet(b, S) + SumFunctionOnSet(c, S)
  BY <1>6, <1>7, SumPlus
<1>13. SumFunctionOnSet(d, S) = SumFunctionOnSet(e, S) + SumFunctionOnSet(k, S)
  BY <1>6, <1>7, SumPlus
<1>14. SumFunctionOnSet(d, S) \in Nat
  BY <1>5, SumOfNaturals
<1>15. SumFunctionOnSet(d, S) = (n * n) * w + (-2 * (n * t)) * t + n * (t * t)
  BY <1>9, <1>10, <1>11, <1>12, <1>13
<1>16. (n * n) * w + (-2 * (n * t)) * t + n * (t * t) = n * (n * w - t * t)
  OBVIOUS
<1>17. PICK y \in Int : y = n * w - t * t
  OBVIOUS
<1>18. n * y \in Nat
  BY <1>14, <1>15, <1>16, <1>17
<1>19. CASE n # 0
  <2>1. y >= 0
    <3> SUFFICES ASSUME y < 0 PROVE FALSE
      OBVIOUS
    <3>1. -y \in Nat /\ -y >= 1
      OBVIOUS
    <3>2. n * (-y) >= 1
      BY <1>19, <3>1
    <3> QED
      BY <1>18, <3>2
  <2>2. t * t <= n * w
    <3>1. n * w \in Int /\ t * t \in Int
      OBVIOUS
    <3> QED
      BY <1>17, <2>1, <3>1
  <2> QED
    BY <1>1, <1>2, <1>4, <2>2
<1>20. CASE n = 0
  <2>1. S = {}
    BY <1>1, <1>20, FS_EmptySet
  <2>2. t = 0
    BY <1>2, <2>1, SumRecursion
  <2> QED
    BY <1>1, <1>2, <1>4, <1>20, <2>2
<1> QED
  BY <1>19, <1>20
=============================================================================
