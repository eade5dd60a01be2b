--------------------------- MODULE FiniteInduction ---------------------------
(* Induction over the natural numbers and over finite sets, stated with sets *)
(* (the library's own theorems take the property as an operator), and what   *)
(* follows of the sums of the community modules.                             *)
EXTENDS Functions, FiniteSetTheorems, WellFoundedInduction, TLAPS

(* Every nonempty set of naturals has a least member.                        *)
LEMMA LeastNatural ==
  ASSUME NEW T \in SUBSET Nat, T # {}
  PROVE  \E n \in T : \A m \in T : n <= m
<1>1. PICK n \in T : \A m \in T : ~(<<m, n>> \in OpToRel(<, Nat))
  BY WFMin, NatLessThanWellFounded
<1>2. \A m \in T : ~(m < n)
  BY <1>1 DEF OpToRel
<1>3. QED
  BY <1>2

(* A set with the first number of an interval, and with the successor of each*)
(* of its members in it, contains the interval.                              *)
LEMMA IntervalInduction ==
  ASSUME NEW m \in Nat, NEW n \in Nat, NEW S,
         m \in S, \A i \in m .. n - 1 : i \in S => i + 1 \in S
  PROVE  \A i \in m .. n : i \in S
<1> DEFINE T == {i \in m .. n : i \notin S}
<1> SUFFICES ASSUME T # {} PROVE FALSE
  OBVIOUS
<1>1. PICK k \in T : \A j \in T : k <= j
  <2>1. T \in SUBSET Nat
    OBVIOUS
  <2>2. QED
    BY <2>1, LeastNatural
<1>2. k # m
  OBVIOUS
<1>3. k - 1 \in m .. n - 1 /\ k - 1 \notin T
  BY <1>1, <1>2
<1>4. QED
  BY <1>3

(* A family that has a subset of S whenever it has each smaller one that     *)
(* lacks just one member of it has them all.                                 *)
LEMMA SubsetInduction ==
  ASSUME NEW S, IsFiniteSet(S), NEW P,
         \A T \in SUBSET S : (\A x \in T : T \ {x} \in P) => T \in P
  PROVE  \A T \in SUBSET S : T \in P
<1> DEFINE Bad == {T \in SUBSET S : T \notin P}
           Sizes == {Cardinality(T) : T \in Bad}
<1> SUFFICES ASSUME Bad # {} PROVE FALSE
  OBVIOUS
<1>1. \A T \in SUBSET S : IsFiniteSet(T) /\ Cardinality(T) \in Nat
  BY FS_Subset, FS_CardinalityType
<1>2. PICK n \in Sizes : \A m \in Sizes : n <= m
  <2>1. Sizes \in SUBSET Nat /\ Sizes # {}
    BY <1>1
  <2> HIDE DEF Sizes
  <2>2. QED
    BY <2>1, LeastNatural
<1>3. PICK T \in Bad : Cardinality(T) = n
  OBVIOUS
<1>4. PICK x \in T : T \ {x} \notin P
  OBVIOUS
<1>5. T \ {x} \in Bad /\ Cardinality(T \ {x}) = Cardinality(T) - 1
  BY <1>1, <1>4, FS_RemoveElement
<1>6. Cardinality(T \ {x}) \in Sizes /\ Cardinality(T) \in Nat
  BY <1>1, <1>5
<1>7. n <= n - 1 /\ n \in Nat
  <2> HIDE DEF Sizes
  <2>1. QED
    BY <1>2, <1>3, <1>5, <1>6
<1>8. QED
  BY <1>7

-----------------------------------------------------------------------------
(* Sums of the values of a function over a finite set.                       *)

SumsOver(g, f, D) ==
  g = [T \in D |-> IF T = {} THEN 0
                   ELSE f[CHOOSE x \in T : TRUE] + g[T \ {CHOOSE x \in T : TRUE}]]

LEMMA SumIsChosen ==
  ASSUME NEW f, NEW S
  PROVE  SumFunctionOnSet(f, S) = (CHOOSE g : SumsOver(g, f, SUBSET S))[S]
BY Zenon DEF SumFunctionOnSet, FoldFunctionOnSet, MapThenFoldSet, SumsOver

LEMMA SumsOverExist ==
  ASSUME NEW f, NEW S, IsFiniteSet(S)
  PROVE  \E g : SumsOver(g, f, SUBSET S)
<1> DEFINE D(n) == {T \in SUBSET S : Cardinality(T) <= n}
           c(T) == CHOOSE x \in T : TRUE
           M == {n \in Nat : \E g : SumsOver(g, f, D(n))}
           size == Cardinality(S)
<1>1. \A T \in SUBSET S : IsFiniteSet(T) /\ Cardinality(T) \in Nat
  BY FS_Subset, FS_CardinalityType
<1>2. size \in Nat
  BY <1>1
<1>3. 0 \in M
  <2> DEFINE g == [T \in D(0) |-> 0]
  <2>1. \A T \in D(0) : T = {}
    BY <1>1, FS_EmptySet
  <2>2. SumsOver(g, f, D(0))
    BY <2>1 DEF SumsOver
  <2>3. QED
    BY <2>2
<1>4. ASSUME NEW n \in Nat, n \in M PROVE n + 1 \in M
  <2>1. PICK g : SumsOver(g, f, D(n))
    BY <1>4
  <2> DEFINE h == [T \in D(n + 1) |-> IF T = {} THEN 0 ELSE f[c(T)] + g[T \ {c(T)}]]
  <2>2. \A T \in D(n) : T \in D(n + 1) /\ h[T] = g[T]
    <3>1. \A T \in D(n) : g[T] = IF T = {} THEN 0 ELSE f[c(T)] + g[T \ {c(T)}]
      BY <2>1, Zenon DEF SumsOver
    <3>2. \A T \in D(n) : T \in D(n + 1)
      BY <1>1
    <3> HIDE DEF D, c
    <3>3. QED
      BY <3>1, <3>2
  <2>3. ASSUME NEW T \in D(n + 1), T # {} PROVE T \ {c(T)} \in D(n)
    <3>1. c(T) \in T
      BY <2>3
    <3> HIDE DEF c
    <3>2. Cardinality(T \ {c(T)}) = Cardinality(T) - 1
      BY <1>1, <3>1, FS_RemoveElement
    <3>3. QED
      BY <1>1, <3>2
  <2> HIDE DEF D, c
  <2>4. h = [T \in D(n + 1) |-> IF T = {} THEN 0 ELSE f[c(T)] + h[T \ {c(T)}]]
    BY <2>2, <2>3
  <2> HIDE DEF h
  <2>5. SumsOver(h, f, D(n + 1))
    BY <2>4, Zenon DEF SumsOver, c
  <2>6. QED
    BY <2>5
<1>5. size \in M
  <2> HIDE DEF M, size
  <2>1. \A i \in 0 .. size : i \in M
    BY <1>2, <1>3, <1>4, IntervalInduction
  <2>2. QED
    BY <1>2, <2>1
<1>6. D(size) = SUBSET S
  <2>1. \A T \in SUBSET S : Cardinality(T) <= size
    BY FS_Subset
  <2>2. QED
    BY <2>1
<1>7. QED
  BY <1>5, <1>6

SameOn(f1, f2, T) == \A x \in T : f1[x] = f2[x]

(* Two such functions agree wherever both add up the same values.            *)
LEMMA SumsOverAgree ==
  ASSUME NEW T, IsFiniteSet(T), NEW f1, NEW g1, SumsOver(g1, f1, SUBSET T),
         NEW S, T \subseteq S, NEW f2, NEW g2, SumsOver(g2, f2, SUBSET S),
         SameOn(f1, f2, T)
  PROVE  g1[T] = g2[T]
<1> DEFINE P == {U \in SUBSET T : g1[U] = g2[U]}
           c(U) == CHOOSE x \in U : TRUE
<1>2. /\ \A U \in SUBSET T : g1[U] = IF U = {} THEN 0 ELSE f1[c(U)] + g1[U \ {c(U)}]
      /\ \A U \in SUBSET S : g2[U] = IF U = {} THEN 0 ELSE f2[c(U)] + g2[U \ {c(U)}]
  BY Zenon DEF SumsOver
<1>3. ASSUME NEW U \in SUBSET T, \A x \in U : U \ {x} \in P
      PROVE  U \in P
  <2>1. U \in SUBSET T /\ U \in SUBSET S
    OBVIOUS
  <2>2. CASE U = {}
    BY <1>2, <2>1, <2>2
  <2>3. CASE U # {}
    <3>1. c(U) \in U
      BY <2>3
    <3> HIDE DEF c
    <3>2. f1[c(U)] = f2[c(U)] /\ g1[U \ {c(U)}] = g2[U \ {c(U)}]
      BY <1>3, <3>1 DEF SameOn
    <3>3. QED
      BY <1>2, <2>1, <2>3, <3>2
  <2>4. QED
    BY <2>2, <2>3
<1> HIDE DEF P
<1>4. T \in P
  BY <1>3, SubsetInduction
<1>5. QED
  BY <1>4 DEF P

(* Any of them gives the sums over the subsets of its set.                   *)
LEMMA SumIsAnyOf ==
  ASSUME NEW f, NEW S, IsFiniteSet(S), NEW g, SumsOver(g, f, SUBSET S),
         NEW T \in SUBSET S
  PROVE  SumFunctionOnSet(f, T) = g[T]
<1> DEFINE h == CHOOSE k : SumsOver(k, f, SUBSET T)
<1>1. IsFiniteSet(T)
  BY FS_Subset
<1>2. SumsOver(h, f, SUBSET T)
  BY <1>1, SumsOverExist, Zenon
<1>3. SumFunctionOnSet(f, T) = h[T]
  BY SumIsChosen, Zenon
<1> HIDE DEF h
<1>4. h[T] = g[T]
  <2>1. T \subseteq S /\ SameOn(f, f, T)
    BY DEF SameOn
  <2>2. QED
    BY <1>1, <1>2, <2>1, SumsOverAgree
<1>5. QED
  BY <1>3, <1>4

(* Functions with the same values have the same sum.                         *)
LEMMA SumSame ==
  ASSUME NEW S, IsFiniteSet(S), NEW f1, NEW f2, SameOn(f1, f2, S)
  PROVE  SumFunctionOnSet(f1, S) = SumFunctionOnSet(f2, S)
<1>1. PICK g1 : SumsOver(g1, f1, SUBSET S)
  BY SumsOverExist
<1>2. PICK g2 : SumsOver(g2, f2, SUBSET S)
  BY SumsOverExist
<1>3. S \subseteq S
  OBVIOUS
<1>4. g1[S] = g2[S]
  BY <1>1, <1>2, <1>3, SumsOverAgree
<1>5. QED
  BY <1>1, <1>2, <1>4, SumIsAnyOf

LEMMA SumEmpty == ASSUME NEW f PROVE SumFunctionOnSet(f, {}) = 0
<1>1. IsFiniteSet({})
  BY FS_EmptySet
<1>2. PICK g : SumsOver(g, f, SUBSET {})
  BY <1>1, SumsOverExist
<1>3. g[{}] = 0
  BY <1>2, Zenon DEF SumsOver
<1>4. QED
  BY <1>1, <1>2, <1>3, SumIsAnyOf

(* Sums of whole numbers are whole numbers.                                  *)
LEMMA SumsOverInts ==
  ASSUME NEW S, IsFiniteSet(S), NEW f, \A x \in S : f[x] \in Int,
         NEW g, SumsOver(g, f, SUBSET S)
  PROVE  \A T \in SUBSET S : g[T] \in Int
<1> DEFINE c(U) == CHOOSE x \in U : TRUE
           P == {U \in SUBSET S : g[U] \in Int}
<1>1. \A U \in SUBSET S : g[U] = IF U = {} THEN 0 ELSE f[c(U)] + g[U \ {c(U)}]
  BY Zenon DEF SumsOver
<1>2. ASSUME NEW U \in SUBSET S, \A x \in U : U \ {x} \in P
      PROVE  U \in P
  <2>1. CASE U = {}
    <3>1. g[U] = 0
      BY <1>1, <2>1, Zenon
    <3>2. QED
      BY <3>1
  <2>2. CASE U # {}
    <3>1. c(U) \in U
      BY <2>2
    <3> HIDE DEF c
    <3>2. f[c(U)] \in Int /\ g[U \ {c(U)}] \in Int
      BY <1>2, <3>1
    <3>3. QED
      BY <1>1, <2>2, <3>2
  <2>3. QED
    BY <2>1, <2>2
<1> HIDE DEF P
<1>3. \A T \in SUBSET S : T \in P
  BY <1>2, SubsetInduction
<1>4. QED
  BY <1>3 DEF P

(* Whichever member is taken out, the rest adds up to its value less.        *)
LEMMA SumsOverStep ==
  ASSUME NEW S, IsFiniteSet(S), NEW f, \A x \in S : f[x] \in Int,
         NEW g, SumsOver(g, f, SUBSET S), NEW T \in SUBSET S, NEW x \in T
  PROVE  g[T] = f[x] + g[T \ {x}]
<1> DEFINE c(U) == CHOOSE y \in U : TRUE
           P == {U \in SUBSET S : \A y \in U : g[U] = f[y] + g[U \ {y}]}
<1>1. \A U \in SUBSET S : g[U] = IF U = {} THEN 0 ELSE f[c(U)] + g[U \ {c(U)}]
  BY Zenon DEF SumsOver
<1>2. \A U \in SUBSET S : g[U] \in Int
  BY SumsOverInts
<1>3. ASSUME NEW U \in SUBSET S, \A y \in U : U \ {y} \in P
      PROVE  U \in P
  <2> SUFFICES ASSUME NEW y \in U PROVE g[U] = f[y] + g[U \ {y}]
    OBVIOUS
  <2>1. c(U) \in U
    OBVIOUS
  <2>2. g[U] = f[c(U)] + g[U \ {c(U)}]
    BY <1>1
  <2> HIDE DEF c
  <2>3. CASE y = c(U)
    BY <2>2, <2>3
  <2>4. CASE y # c(U)
    <3> DEFINE V == (U \ {y}) \ {c(U)}
    <3>1. g[U \ {y}] = f[c(U)] + g[V]
      BY <1>3, <2>1, <2>4
    <3>2. V = (U \ {c(U)}) \ {y} /\ y \in U \ {c(U)} /\ V \in SUBSET S
      BY <2>4
    <3>3. g[U \ {c(U)}] = f[y] + g[V]
      BY <1>3, <2>1, <3>2
    <3> HIDE DEF V
    <3>4. g[V] \in Int /\ f[y] \in Int /\ f[c(U)] \in Int
      BY <1>2, <2>1, <3>2
    <3>5. QED
      BY <2>2, <3>1, <3>3, <3>4
  <2>5. QED
    BY <2>3, <2>4
<1> HIDE DEF P
<1>4. T \in P
  BY <1>3, SubsetInduction
<1>5. QED
  BY <1>4 DEF P

(* The same of the sums of the community modules.                            *)
LEMMA SumStep ==
  ASSUME NEW S, IsFiniteSet(S), NEW f, \A x \in S : f[x] \in Int
  PROVE  /\ SumFunctionOnSet(f, S) \in Int
         /\ \A x \in S : SumFunctionOnSet(f, S) = f[x] + SumFunctionOnSet(f, S \ {x})
<1>1. PICK g : SumsOver(g, f, SUBSET S)
  BY SumsOverExist
<1>2. \A T \in SUBSET S : SumFunctionOnSet(f, T) = g[T]
  BY <1>1, SumIsAnyOf
<1>3. \A T \in SUBSET S : g[T] \in Int
  BY <1>1, SumsOverInts
<1>4. S \in SUBSET S /\ \A x \in S : S \ {x} \in SUBSET S
  OBVIOUS
<1>5. \A x \in S : g[S] = f[x] + g[S \ {x}]
  BY <1>1, <1>4, SumsOverStep
<1>6. QED
  BY <1>2, <1>3, <1>4, <1>5

(* Changing the value at one place changes the sum by as much.               *)
LEMMA SumChange ==
  ASSUME NEW S, IsFiniteSet(S), NEW f1, NEW f2, NEW y \in S,
         \A x \in S : f1[x] \in Int /\ f2[x] \in Int,
         \A x \in S \ {y} : f1[x] = f2[x]
  PROVE  SumFunctionOnSet(f2, S) = SumFunctionOnSet(f1, S) + f2[y] - f1[y]
<1> DEFINE R == S \ {y}
<1>1. IsFiniteSet(R)
  BY FS_RemoveElement
<1>2. SumFunctionOnSet(f1, S) = f1[y] + SumFunctionOnSet(f1, R)
  BY SumStep
<1>3. SumFunctionOnSet(f2, S) = f2[y] + SumFunctionOnSet(f2, R)
  BY SumStep
<1>4. \A x \in R : f1[x] = f2[x] /\ f1[x] \in Int
  OBVIOUS
<1> HIDE DEF R
<1>5. SumFunctionOnSet(f1, R) = SumFunctionOnSet(f2, R)
  BY <1>1, <1>4, SumSame DEF SameOn
<1>6. SumFunctionOnSet(f1, R) \in Int
  BY <1>1, <1>4, SumStep
<1>7. f1[y] \in Int /\ f2[y] \in Int
  OBVIOUS
<1>8. QED
  BY <1>2, <1>3, <1>5, <1>6, <1>7

(* A sum of nothing but zeros is zero.                                       *)
LEMMA SumZero ==
  ASSUME NEW S, IsFiniteSet(S), NEW f, \A x \in S : f[x] = 0
  PROVE  SumFunctionOnSet(f, S) = 0
<1> DEFINE P == {T \in SUBSET S : SumFunctionOnSet(f, T) = 0}
<1>1. ASSUME NEW T \in SUBSET S, \A x \in T : T \ {x} \in P
      PROVE  T \in P
  <2>1. CASE T = {}
    BY <2>1, SumEmpty
  <2>2. ASSUME NEW x \in T PROVE T \in P
    <3>1. IsFiniteSet(T) /\ \A y \in T : f[y] \in Int
      BY FS_Subset
    <3>2. SumFunctionOnSet(f, T) = f[x] + SumFunctionOnSet(f, T \ {x})
      BY <3>1, SumStep
    <3>3. f[x] = 0 /\ SumFunctionOnSet(f, T \ {x}) = 0
      BY <1>1
    <3>4. QED
      BY <3>2, <3>3
  <2>3. QED
    BY <2>1, <2>2
<1> HIDE DEF P
<1>2. S \in SUBSET S
  OBVIOUS
<1>3. S \in P
  BY <1>1, <1>2, SubsetInduction
<1>4. QED
  BY <1>3 DEF P

(* The same of a function that is assigned to at one place.                  *)
LEMMA SumExcept ==
  ASSUME NEW S, IsFiniteSet(S), NEW f \in [S -> Int], NEW y \in S, NEW v \in Int
  PROVE  /\ SumFunction(f) \in Int
         /\ SumFunction([f EXCEPT ![y] = v]) = SumFunction(f) + v - f[y]
<1> DEFINE h == [f EXCEPT ![y] = v]
<1>1. /\ \A x \in S : f[x] \in Int /\ h[x] \in Int
      /\ \A x \in S \ {y} : f[x] = h[x]
      /\ h[y] = v /\ DOMAIN f = S /\ DOMAIN h = S
  OBVIOUS
<1> HIDE DEF h
<1>2. SumFunctionOnSet(h, S) = SumFunctionOnSet(f, S) + h[y] - f[y]
  BY <1>1, SumChange
<1>3. SumFunctionOnSet(f, S) \in Int
  BY <1>1, SumStep
<1>4. SumFunction(f) = SumFunctionOnSet(f, S) /\ SumFunction(h) = SumFunctionOnSet(h, S)
  BY <1>1, Zenon DEF SumFunction
<1>5. QED
  BY <1>1, <1>2, <1>3, <1>4 DEF h

Shifted(f, x, y, a) == [[f EXCEPT ![x] = @ - a] EXCEPT ![y] = @ + a]

(* What is taken at one place and given at another, or at the same one,      *)
(* leaves the sum what it was.                                               *)
LEMMA SumMoved ==
  ASSUME NEW S, IsFiniteSet(S), NEW f \in [S -> Int], NEW x \in S, NEW y \in S,
         NEW a \in Int
  PROVE  /\ SumFunction(f) \in Int
         /\ SumFunction(Shifted(f, x, y, a)) = SumFunction(f)
<1> DEFINE v == f[x] - a
           mid == [f EXCEPT ![x] = v]
           w == mid[y] + a
<1>1. f[x] \in Int /\ v \in Int
  OBVIOUS
<1>2. mid \in [S -> Int] /\ mid[y] \in Int /\ w \in Int
  BY <1>1
<1>3. Shifted(f, x, y, a) = [mid EXCEPT ![y] = w]
  BY DEF Shifted
<1>4. v - f[x] = -a /\ w - mid[y] = a
  BY <1>1, <1>2
<1> HIDE DEF v, w
<1>5. SumFunction(f) \in Int /\ SumFunction(mid) = SumFunction(f) + v - f[x]
  BY <1>1, SumExcept
<1> HIDE DEF mid
<1>6. SumFunction([mid EXCEPT ![y] = w]) = SumFunction(mid) + w - mid[y]
  BY <1>2, SumExcept
<1>7. QED
  BY <1>1, <1>2, <1>3, <1>4, <1>5, <1>6

=============================================================================
