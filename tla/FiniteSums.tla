------------------------------ MODULE FiniteSums ------------------------------
(***************************************************************************)
(* What SumFunction of the community modules computes over a finite set,   *)
(* for proofs that must follow a total through one change of an addend.    *)
(*                                                                         *)
(* The sum is a recursive function that takes its addends in whatever      *)
(* order CHOOSE gives.  That such a function exists, and that the order    *)
(* does not matter, are inductions, carried out here as arguments about a  *)
(* least counterexample: the library's induction theorems have an operator *)
(* for a parameter, its theorem on well-founded subsets has none.          *)
(***************************************************************************)
EXTENDS Integers, FiniteSetTheorems, TLAPS

Picked(s) == CHOOSE x \in s : TRUE

\* One line of the recursion, and a function on D that obeys it.
Added(f, h, s) == IF s = {} THEN 0 ELSE f[Picked(s)] + h[s \ {Picked(s)}]
Adds(f, h, D)  == h = [s \in D |-> Added(f, h, s)]

\* The partial sums SumFunction works with.
PartialSums(f, S) == CHOOSE h : Adds(f, h, SUBSET S)

LEMMA FoldIsPartialSum ==
  ASSUME NEW S, NEW f
  PROVE  SumFunctionOnSet(f, S) = PartialSums(f, S)[S]
BY DEF SumFunctionOnSet, FoldFunctionOnSet, MapThenFoldSet, PartialSums, Adds, Added, Picked

LEMMA PickedIn == ASSUME NEW s, s # {} PROVE Picked(s) \in s
BY DEF Picked

-----------------------------------------------------------------------------
(* Least counterexamples *)

\* A family of subsets of a finite set has a member none of whose proper subsets is one.
LEMMA LeastSet ==
  ASSUME NEW S, IsFiniteSet(S), NEW T \in SUBSET (SUBSET S), T # {}
  PROVE  \E s \in T : \A t \in T : t \subseteq s => t = s
<1>1. IsWellFoundedOn(StrictSubsetOrdering(S), SUBSET S)
  BY FS_StrictSubsetOrderingWellFounded, FS_FiniteSubsetsOfFinite
<1>2. PICK s \in T : \A t \in T : ~ (<<t, s>> \in StrictSubsetOrdering(S))
  BY <1>1, WFMin
<1> QED
  BY <1>2 DEF StrictSubsetOrdering

\* A set of numbers has a least one.
LEMMA LeastNumber ==
  ASSUME NEW T \in SUBSET Nat, T # {}
  PROVE  \E n \in T : \A m \in T : n <= m
<1>1. PICK k \in T : TRUE
  OBVIOUS
<1> DEFINE Below == {0..m : m \in {i \in T : i <= k}}
<1> DEFINE Numbers == 0..k
<1>2. Below \in SUBSET (SUBSET Numbers) /\ Below # {}
  BY <1>1
<1>3. IsFiniteSet(Numbers)
  BY <1>1, FS_Interval
<1>4. PICK s \in Below : \A t \in Below : t \subseteq s => t = s
  <2> HIDE DEF Below, Numbers
  <2> QED
    BY <1>2, <1>3, LeastSet
<1>5. PICK n \in T : n <= k /\ s = 0..n
  OBVIOUS
<1>6. ASSUME NEW m \in T PROVE n <= m
  <2> SUFFICES ASSUME m < n PROVE FALSE
    BY <1>5
  <2>1. 0..m \in Below /\ 0..m \subseteq 0..n
    BY <1>5
  <2>2. n \in 0..n /\ n \notin 0..m
    BY <1>5
  <2> QED
    BY <1>4, <1>5, <2>1, <2>2
<1> QED
  BY <1>6

-----------------------------------------------------------------------------
(* The recursion has a solution *)

UpTo(S, n) == {s \in SUBSET S : Cardinality(s) <= n}

LEMMA SumsUpTo ==
  ASSUME NEW S, IsFiniteSet(S), NEW f
  PROVE  \A n \in Nat : \E h : Adds(f, h, UpTo(S, n))
<1> DEFINE Bad == {n \in Nat : ~ \E h : Adds(f, h, UpTo(S, n))}
<1> SUFFICES ASSUME Bad # {} PROVE FALSE
    OBVIOUS
<1>1. PICK n \in Bad : \A m \in Bad : n <= m
  <2>1. Bad \in SUBSET Nat
    OBVIOUS
  <2> HIDE DEF Bad
  <2> QED
    BY <2>1, LeastNumber
<1>2. \A s \in SUBSET S : IsFiniteSet(s) /\ Cardinality(s) \in Nat
  BY FS_Subset, FS_CardinalityType
<1>3. CASE n = 0
  <2>1. \A s \in UpTo(S, 0) : s = {}
    BY <1>2, FS_EmptySet DEF UpTo
  <2>2. Adds(f, [s \in UpTo(S, 0) |-> 0], UpTo(S, 0))
    BY <2>1 DEF Adds, Added
  <2> QED
    BY <1>3, <2>2
<1>4. CASE n # 0
  <2>1. n - 1 \in Nat /\ n - 1 \notin Bad
    BY <1>1, <1>4
  <2>2. PICK h : Adds(f, h, UpTo(S, n - 1))
    BY <2>1
  <2> DEFINE g == [s \in UpTo(S, n) |-> Added(f, h, s)]
  <2>3. ASSUME NEW s \in UpTo(S, n) PROVE Added(f, g, s) = Added(f, h, s)
    <3>1. CASE s = {}
      BY <3>1 DEF Added
    <3>2. CASE s # {}
      <4> DEFINE t == s \ {Picked(s)}
      <4>1. Picked(s) \in s /\ s \in SUBSET S /\ Cardinality(s) <= n
        BY <3>2, PickedIn DEF UpTo
      <4>2. t \in SUBSET S /\ Cardinality(t) = Cardinality(s) - 1
        BY <1>2, <4>1, FS_RemoveElement
      <4>3. t \in UpTo(S, n - 1) /\ t \in UpTo(S, n)
        BY <1>2, <4>1, <4>2 DEF UpTo
      <4>4. g[t] = Added(f, h, t) /\ h[t] = Added(f, h, t)
        BY <2>2, <4>3 DEF Adds
      <4> QED
        BY <3>2, <4>4 DEF Added
    <3> QED
      BY <3>1, <3>2
  <2>4. Adds(f, g, UpTo(S, n))
    BY <2>3 DEF Adds
  <2> QED
    BY <2>4
<1> QED
  BY <1>3, <1>4

\* So the function that CHOOSE picks obeys the recursion.
LEMMA SumsRecur ==
  ASSUME NEW S, IsFiniteSet(S), NEW f
  PROVE  \A s \in SUBSET S : PartialSums(f, S)[s] = Added(f, PartialSums(f, S), s)
<1>1. UpTo(S, Cardinality(S)) = SUBSET S /\ Cardinality(S) \in Nat
  BY FS_Subset, FS_CardinalityType DEF UpTo
<1>2. \E h : Adds(f, h, UpTo(S, Cardinality(S)))
  BY <1>1, SumsUpTo
<1>3. Adds(f, PartialSums(f, S), SUBSET S)
  BY <1>1, <1>2 DEF PartialSums
<1> QED
  BY <1>3 DEF Adds

-----------------------------------------------------------------------------
(* Its values *)

LEMMA SumsType ==
  ASSUME NEW S, IsFiniteSet(S), NEW f \in [S -> Nat]
  PROVE  \A s \in SUBSET S : PartialSums(f, S)[s] \in Nat
<1> DEFINE g   == PartialSums(f, S)
           Bad == {s \in SUBSET S : g[s] \notin Nat}
<1>1. \A s \in SUBSET S : g[s] = Added(f, g, s)
  BY SumsRecur
<1> HIDE DEF g
<1> SUFFICES ASSUME Bad # {} PROVE FALSE
    BY DEF g
<1>2. PICK s \in Bad : \A t \in Bad : t \subseteq s => t = s
  <2>1. Bad \in SUBSET (SUBSET S)
    OBVIOUS
  <2> HIDE DEF Bad
  <2> QED
    BY <2>1, LeastSet
<1>3. s \in SUBSET S /\ g[s] \notin Nat /\ g[s] = Added(f, g, s)
  BY <1>1
<1>4. CASE s = {}
  BY <1>3, <1>4 DEF Added
<1>5. CASE s # {}
  <2> DEFINE p == Picked(s)
  <2>1. p \in S /\ s \ {p} \in (SUBSET S) \ Bad
    BY <1>2, <1>3, <1>5, PickedIn
  <2>2. f[p] \in Nat /\ g[s \ {p}] \in Nat
    BY <2>1
  <2>3. g[s] = f[p] + g[s \ {p}]
    BY <1>3, <1>5 DEF Added
  <2> QED
    BY <1>3, <2>2, <2>3
<1> QED
  BY <1>4, <1>5

\* Any addend may be taken first.
LEMMA SumsTakeAny ==
  ASSUME NEW S, IsFiniteSet(S), NEW f \in [S -> Nat]
  PROVE  \A s \in SUBSET S : \A x \in s :
           PartialSums(f, S)[s] = f[x] + PartialSums(f, S)[s \ {x}]
<1> DEFINE g   == PartialSums(f, S)
           Bad == {s \in SUBSET S : \E x \in s : g[s] # f[x] + g[s \ {x}]}
<1>1. \A s \in SUBSET S : g[s] = Added(f, g, s) /\ g[s] \in Nat
  BY SumsRecur, SumsType
<1> HIDE DEF g
<1> SUFFICES ASSUME Bad # {} PROVE FALSE
    BY DEF g
<1>2. PICK s \in Bad : \A t \in Bad : t \subseteq s => t = s
  <2>1. Bad \in SUBSET (SUBSET S)
    OBVIOUS
  <2> HIDE DEF Bad
  <2> QED
    BY <2>1, LeastSet
<1>3. PICK x \in s : g[s] # f[x] + g[s \ {x}]
  OBVIOUS
<1> DEFINE p == Picked(s)
<1>4. p \in s /\ g[s] = f[p] + g[s \ {p}]
  BY <1>1, PickedIn DEF Added
<1> HIDE DEF p
<1>5. x # p
  BY <1>3, <1>4
<1>6. s \ {p} \in (SUBSET S) \ Bad /\ s \ {x} \in (SUBSET S) \ Bad
  BY <1>2, <1>3, <1>4
<1>7. g[s \ {p}] = f[x] + g[(s \ {p}) \ {x}] /\ g[s \ {x}] = f[p] + g[(s \ {x}) \ {p}]
  BY <1>3, <1>4, <1>5, <1>6
<1>8. (s \ {p}) \ {x} = (s \ {x}) \ {p} /\ (s \ {x}) \ {p} \in SUBSET S
  OBVIOUS
<1>9. f[x] \in Nat /\ f[p] \in Nat /\ g[(s \ {x}) \ {p}] \in Nat
  BY <1>1, <1>3, <1>4, <1>8
<1>10. g[s] = f[p] + (f[x] + g[(s \ {x}) \ {p}])
  BY <1>4, <1>7, <1>8
<1>11. f[x] + g[s \ {x}] = f[x] + (f[p] + g[(s \ {x}) \ {p}])
  BY <1>7
<1> QED
  BY <1>3, <1>9, <1>10, <1>11

\* A sum depends on its addends only.
LEMMA SumsAgree ==
  ASSUME NEW S, IsFiniteSet(S), NEW f, NEW k, NEW A \in SUBSET S, \A x \in A : f[x] = k[x]
  PROVE  PartialSums(f, S)[A] = PartialSums(k, S)[A]
<1> DEFINE g   == PartialSums(f, S)
           h   == PartialSums(k, S)
           Bad == {s \in SUBSET A : g[s] # h[s]}
<1>1. \A s \in SUBSET S : g[s] = Added(f, g, s) /\ h[s] = Added(k, h, s)
  BY SumsRecur
<1> HIDE DEF g, h
<1> SUFFICES ASSUME Bad # {} PROVE FALSE
    BY DEF g, h
<1>2. PICK s \in Bad : \A t \in Bad : t \subseteq s => t = s
  <2>1. Bad \in SUBSET (SUBSET S)
    OBVIOUS
  <2> HIDE DEF Bad
  <2> QED
    BY <2>1, LeastSet
<1>3. CASE s = {}
  BY <1>1, <1>3 DEF Added
<1>4. CASE s # {}
  <2>1. Picked(s) \in A /\ s \ {Picked(s)} \in (SUBSET A) \ Bad
    BY <1>2, <1>4, PickedIn
  <2> QED
    BY <1>1, <1>2, <1>4, <2>1 DEF Added
<1> QED
  BY <1>3, <1>4

-----------------------------------------------------------------------------
(* What the proofs of a component cite *)

\* A sum over a finite set of numbers is a number.
THEOREM SumIsNumber ==
  ASSUME NEW S, IsFiniteSet(S), NEW f \in [S -> Nat]
  PROVE  SumFunction(f) \in Nat
<1>1. SumFunction(f) = PartialSums(f, S)[S]
  BY FoldIsPartialSum DEF SumFunction
<1> QED
  BY <1>1, SumsType

\* Nothing but zeros come to zero.
THEOREM SumOfZeros ==
  ASSUME NEW S, IsFiniteSet(S)
  PROVE  SumFunction([x \in S |-> 0]) = 0
<1> DEFINE f   == [x \in S |-> 0]
           g   == PartialSums(f, S)
           Bad == {s \in SUBSET S : g[s] # 0}
<1>1. \A s \in SUBSET S : g[s] = Added(f, g, s)
  BY SumsRecur
<1>2. SumFunction(f) = g[S]
  BY FoldIsPartialSum DEF SumFunction
<1> HIDE DEF g
<1> SUFFICES ASSUME Bad # {} PROVE FALSE
    BY <1>2
<1>3. PICK s \in Bad : \A t \in Bad : t \subseteq s => t = s
  <2>1. Bad \in SUBSET (SUBSET S)
    OBVIOUS
  <2> HIDE DEF Bad
  <2> QED
    BY <2>1, LeastSet
<1>4. s \in SUBSET S /\ g[s] # 0 /\ g[s] = Added(f, g, s)
  BY <1>1
<1>5. CASE s = {}
  BY <1>4, <1>5 DEF Added
<1>6. CASE s # {}
  <2> DEFINE p == Picked(s)
  <2>1. p \in S /\ s \ {p} \in (SUBSET S) \ Bad
    BY <1>3, <1>4, <1>6, PickedIn
  <2>2. f[p] = 0 /\ g[s \ {p}] = 0
    BY <2>1
  <2>3. g[s] = f[p] + g[s \ {p}]
    BY <1>4, <1>6 DEF Added
  <2> QED
    BY <1>4, <2>2, <2>3
<1> QED
  BY <1>5, <1>6

\* When one addend changes, the sum changes by as much.
THEOREM SumAfterChange ==
  ASSUME NEW S, IsFiniteSet(S), NEW f \in [S -> Nat], NEW x \in S, NEW n \in Nat
  PROVE  SumFunction([f EXCEPT ![x] = n]) + f[x] = SumFunction(f) + n
<1> DEFINE k == [f EXCEPT ![x] = n]
           A == S \ {x}
<1>1. k \in [S -> Nat] /\ k[x] = n /\ \A y \in A : f[y] = k[y]
  OBVIOUS
<1>2. SumFunction(f) = PartialSums(f, S)[S] /\ SumFunction(k) = PartialSums(k, S)[S]
  BY <1>1, FoldIsPartialSum DEF SumFunction
<1> HIDE DEF k
<1>3. PartialSums(f, S)[S] = f[x] + PartialSums(f, S)[A]
  BY SumsTakeAny
<1>4. PartialSums(k, S)[S] = n + PartialSums(k, S)[A]
  BY <1>1, SumsTakeAny
<1>5. PartialSums(f, S)[A] = PartialSums(k, S)[A]
  BY <1>1, SumsAgree
<1>6. PartialSums(f, S)[A] \in Nat
  BY SumsType
<1> QED
  BY <1>2, <1>3, <1>4, <1>5, <1>6 DEF k
===============================================================================
