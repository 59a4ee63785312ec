----------------------------- MODULE FiniteSums -----------------------------
(* Lemmas about the sums the models take over a finite set: MapThenSumSet   *)
(* of the values a function has there.  The library defines such a sum by a *)
(* recursive function that picks one element after the other; what a proof  *)
(* needs is that the order of the picks does not matter.                    *)
EXTENDS Integers, FiniteSets, FiniteSetsExt, FiniteSetTheorems, WellFoundedInduction, TLAPS

Sum(w, S) == MapThenSumSet(LAMBDA x : w[x], S)

Pick(S) == CHOOSE x \in S : TRUE

\* One unfolding of the recursion, on the sets in D.
Unfold(w, it, D) ==
    [s \in D |-> IF s = {} THEN 0 ELSE w[Pick(s)] + it[s \ {Pick(s)}]]

-----------------------------------------------------------------------------
(* Induction, stated about sets so that the provers can use it.             *)

\* A set of numbers that holds 0 and every successor holds all of them.
LEMMA InductionOnNat ==
    ASSUME NEW G, 0 \in G, \A n \in Nat : n \in G => n + 1 \in G
    PROVE  \A n \in Nat : n \in G
  <1> SUFFICES ASSUME NEW m \in Nat, m \notin G PROVE FALSE
    OBVIOUS
  <1> DEFINE Bad == {n \in Nat : n \notin G}
  <1>1. Bad \subseteq Nat /\ Bad # {}
    OBVIOUS
  <1>2. PICK n \in Bad : \A k \in Bad : ~ (<<k, n>> \in OpToRel(<, Nat))
    <2> HIDE DEF Bad
    <2> QED BY <1>1, WFMin, NatLessThanWellFounded
  <1>3. n # 0
    OBVIOUS
  <1>4. n - 1 \in Nat /\ n - 1 < n /\ (n - 1) + 1 = n
    BY <1>3
  <1>5. <<n - 1, n>> \in OpToRel(<, Nat)
    BY <1>4 DEF OpToRel
  <1>6. n - 1 \notin Bad
    BY <1>2, <1>5
  <1> QED
    BY <1>4, <1>6

\* What holds of a finite set's subsets when it holds of the smaller ones first.
LEMMA InductionOnSubsets ==
    ASSUME NEW S, IsFiniteSet(S), NEW G,
           \A T \in SUBSET S : (\A x \in T : T \ {x} \in G) => T \in G
    PROVE  \A T \in SUBSET S : T \in G
  <1> DEFINE OfSize(n) == {T \in SUBSET S : Cardinality(T) = n}
             Good == {n \in Nat : OfSize(n) \subseteq G}
  <1>1. \A T \in SUBSET S : IsFiniteSet(T) /\ Cardinality(T) \in Nat
    BY FS_Subset, FS_CardinalityType
  <1>2. 0 \in Good
    <2>1. \A T \in SUBSET S : Cardinality(T) = 0 => T = {}
      BY <1>1, FS_EmptySet
    <2> QED BY <2>1
  <1>3. ASSUME NEW n \in Nat, n \in Good PROVE n + 1 \in Good
    <2> SUFFICES ASSUME NEW T \in SUBSET S, Cardinality(T) = n + 1 PROVE T \in G
      OBVIOUS
    <2>1. ASSUME NEW x \in T PROVE T \ {x} \in OfSize(n)
      <3>1. IsFiniteSet(T)
        BY <1>1
      <3>2. Cardinality(T \ {x}) = Cardinality(T) - 1
        BY <3>1, FS_RemoveElement
      <3> QED BY <3>2
    <2> QED BY <1>3, <2>1
  <1>4. \A n \in Nat : n \in Good
    <2> HIDE DEF Good
    <2> QED BY <1>2, <1>3, InductionOnNat
  <1> QED
    BY <1>1, <1>4

-----------------------------------------------------------------------------
(* The recursion is well-founded.                                           *)

\* A nonempty set holds what is picked from it.
LEMMA PickIn == ASSUME NEW S, S # {} PROVE Pick(S) \in S
  BY DEF Pick

\* The library's definition, with the recursion made explicit.
LEMMA SumUnfolds ==
    ASSUME NEW w, NEW S
    PROVE  Sum(w, S) = (CHOOSE it : it = Unfold(w, it, SUBSET S))[S]
  BY DEF Sum, MapThenSumSet, MapThenFoldSet, Unfold, Pick

\* Over a finite set the recursion has a solution.
LEMMA UnfoldingEnds ==
    ASSUME NEW w, NEW S, IsFiniteSet(S)
    PROVE  \E it : it = Unfold(w, it, SUBSET S)
  <1> DEFINE UpTo(n) == {T \in SUBSET S : Cardinality(T) <= n}
             Good == {n \in Nat : \E it : it = Unfold(w, it, UpTo(n))}
  <1>1. \A T \in SUBSET S : IsFiniteSet(T) /\ Cardinality(T) \in Nat
    BY FS_Subset, FS_CardinalityType
  <1>2. 0 \in Good
    <2> DEFINE it == [s \in UpTo(0) |-> 0]
    <2>1. \A T \in UpTo(0) : T = {}
      BY <1>1, FS_EmptySet
    <2>2. it = Unfold(w, it, UpTo(0))
      BY <2>1 DEF Unfold
    <2> QED BY <2>2
  <1>3. ASSUME NEW n \in Nat, n \in Good PROVE n + 1 \in Good
    <2>1. PICK it : it = Unfold(w, it, UpTo(n))
      BY <1>3
    <2> DEFINE next == Unfold(w, it, UpTo(n + 1))
    <2>2. ASSUME NEW s \in UpTo(n + 1), s # {}
          PROVE  s \ {Pick(s)} \in UpTo(n) /\ s \ {Pick(s)} \in UpTo(n + 1)
      <3>1. Pick(s) \in s
        BY <2>2, PickIn
      <3> QED BY <1>1, <3>1, FS_RemoveElement
    <2>3. ASSUME NEW s \in UpTo(n) PROVE it[s] = next[s]
      <3>1. s \in UpTo(n + 1)
        BY <1>1
      <3> QED BY <2>1, <3>1 DEF Unfold
    <2>4. next = Unfold(w, next, UpTo(n + 1))
      <3> HIDE DEF UpTo
      <3>1. \A s \in UpTo(n + 1) : s # {} => next[s \ {Pick(s)}] = it[s \ {Pick(s)}]
        BY <2>2, <2>3
      <3> QED BY <3>1 DEF Unfold
    <2> QED BY <2>4
  <1>4. Cardinality(S) \in Good
    <2> HIDE DEF Good
    <2> QED BY <1>1, <1>2, <1>3, InductionOnNat
  <1>5. UpTo(Cardinality(S)) = SUBSET S
    BY <1>1, FS_Subset
  <1> QED
    BY <1>4, <1>5

\* Solutions for functions that agree on a set agree on its subsets.
LEMMA UnfoldingsAgree ==
    ASSUME NEW v, NEW w, NEW S, NEW R, NEW it, NEW jt, NEW T, IsFiniteSet(T),
           it = Unfold(v, it, SUBSET S), jt = Unfold(w, jt, SUBSET R),
           T \subseteq S, T \subseteq R, \A x \in T : v[x] = w[x]
    PROVE  it[T] = jt[T]
  <1> DEFINE G == {U \in SUBSET T : it[U] = jt[U]}
  <1>1. ASSUME NEW U \in SUBSET T, \A x \in U : U \ {x} \in G PROVE U \in G
    <2>1. it[U] = IF U = {} THEN 0 ELSE v[Pick(U)] + it[U \ {Pick(U)}]
      BY DEF Unfold
    <2>2. jt[U] = IF U = {} THEN 0 ELSE w[Pick(U)] + jt[U \ {Pick(U)}]
      BY DEF Unfold
    <2>3. CASE U = {}
      BY <2>1, <2>2, <2>3
    <2>4. CASE U # {}
      <3>1. Pick(U) \in U
        BY <2>4, PickIn
      <3> QED BY <1>1, <2>1, <2>2, <2>4, <3>1
    <2> QED BY <2>3, <2>4
  <1>2. \A U \in SUBSET T : U \in G
    <2> HIDE DEF G
    <2> QED BY <1>1, InductionOnSubsets
  <1> QED
    BY <1>2

-----------------------------------------------------------------------------
(* The equations of a sum.                                                  *)

\* Over no element it is 0, over others the picked one and the rest.
LEMMA SumEquation ==
    ASSUME NEW w, NEW S, IsFiniteSet(S)
    PROVE  Sum(w, S) = IF S = {} THEN 0 ELSE w[Pick(S)] + Sum(w, S \ {Pick(S)})
  <1> DEFINE it == CHOOSE i : i = Unfold(w, i, SUBSET S)
  <1>1. it = Unfold(w, it, SUBSET S)
    <2>1. \E i : i = Unfold(w, i, SUBSET S)
      BY UnfoldingEnds
    <2> QED BY <2>1
  <1>2. Sum(w, S) = it[S]
    BY SumUnfolds
  <1> HIDE DEF it
  <1>3. it[S] = IF S = {} THEN 0 ELSE w[Pick(S)] + it[S \ {Pick(S)}]
    BY <1>1 DEF Unfold
  <1>4. ASSUME S # {} PROVE it[S \ {Pick(S)}] = Sum(w, S \ {Pick(S)})
    <2> DEFINE R == S \ {Pick(S)}
               jt == CHOOSE j : j = Unfold(w, j, SUBSET R)
    <2>1. IsFiniteSet(R)
      BY FS_RemoveElement
    <2>2. jt = Unfold(w, jt, SUBSET R)
      <3>1. \E j : j = Unfold(w, j, SUBSET R)
        BY <2>1, UnfoldingEnds
      <3> QED BY <3>1
    <2>3. Sum(w, R) = jt[R]
      BY SumUnfolds
    <2>4. R \subseteq S
      OBVIOUS
    <2> HIDE DEF jt, R
    <2>5. it[R] = jt[R]
      BY <1>1, <2>1, <2>2, <2>4, UnfoldingsAgree
    <2> QED BY <2>3, <2>5 DEF R
  <1> QED
    BY <1>2, <1>3, <1>4

\* The sum over no element.
LEMMA SumEmpty == ASSUME NEW w PROVE Sum(w, {}) = 0
  BY SumEquation, FS_EmptySet

\* The sum stays among numbers that are closed under addition.
LEMMA SumType ==
    ASSUME NEW w, NEW S, IsFiniteSet(S), NEW V, 0 \in V, \A m, n \in V : m + n \in V,
           \A x \in S : w[x] \in V
    PROVE  Sum(w, S) \in V
  <1> DEFINE G == {T \in SUBSET S : Sum(w, T) \in V}
  <1>1. ASSUME NEW T \in SUBSET S, \A x \in T : T \ {x} \in G PROVE T \in G
    <2>1. IsFiniteSet(T)
      BY FS_Subset
    <2>2. CASE T = {}
      BY <2>2, SumEmpty
    <2>3. CASE T # {}
      <3>1. Pick(T) \in T
        BY <2>3, PickIn
      <3>2. Sum(w, T) = w[Pick(T)] + Sum(w, T \ {Pick(T)})
        BY <2>1, <2>3, SumEquation
      <3> QED BY <1>1, <3>1, <3>2
    <2> QED BY <2>2, <2>3
  <1>2. \A T \in SUBSET S : T \in G
    <2> HIDE DEF G
    <2> QED BY <1>1, InductionOnSubsets
  <1> QED
    BY <1>2

\* Integers add up to an integer, naturals to a natural.
LEMMA SumInt ==
    ASSUME NEW w, NEW S, IsFiniteSet(S), \A x \in S : w[x] \in Int
    PROVE  Sum(w, S) \in Int
  BY SumType
LEMMA SumNat ==
    ASSUME NEW w, NEW S, IsFiniteSet(S), \A x \in S : w[x] \in Nat
    PROVE  Sum(w, S) \in Nat
  <1>1. 0 \in Nat /\ \A m, n \in Nat : m + n \in Nat
    OBVIOUS
  <1> QED
    BY <1>1, SumType

\* Any element can be taken out first.
LEMMA SumRemove ==
    ASSUME NEW w, NEW S, IsFiniteSet(S), \A x \in S : w[x] \in Int, NEW x \in S
    PROVE  Sum(w, S) = w[x] + Sum(w, S \ {x})
  <1> DEFINE G == {T \in SUBSET S : \A y \in T : Sum(w, T) = w[y] + Sum(w, T \ {y})}
  <1>1. ASSUME NEW T \in SUBSET S, \A y \in T : T \ {y} \in G PROVE T \in G
    <2> SUFFICES ASSUME NEW y \in T PROVE Sum(w, T) = w[y] + Sum(w, T \ {y})
      OBVIOUS
    <2> DEFINE p == Pick(T)
    <2>1. p \in T
      BY PickIn
    <2>2. \A U \in SUBSET T : IsFiniteSet(U) /\ Sum(w, U) \in Int
      <3> SUFFICES ASSUME NEW U \in SUBSET T PROVE IsFiniteSet(U) /\ Sum(w, U) \in Int
        OBVIOUS
      <3>1. IsFiniteSet(U)
        BY FS_Subset
      <3> QED BY <3>1, SumInt
    <2>3. Sum(w, T) = w[p] + Sum(w, T \ {p})
      BY <2>1, <2>2, SumEquation
    <2> HIDE DEF p
    <2>4. CASE p = y
      BY <2>3, <2>4
    <2>5. CASE p # y
      <3> DEFINE R == (T \ {y}) \ {p}
      <3>1. R = (T \ {p}) \ {y}
        OBVIOUS
      <3>2. Sum(w, T \ {p}) = w[y] + Sum(w, R)
        BY <1>1, <2>1, <2>5, <3>1
      <3>3. Sum(w, T \ {y}) = w[p] + Sum(w, R)
        BY <1>1, <2>1, <2>5
      <3>4. w[p] \in Int /\ w[y] \in Int /\ Sum(w, R) \in Int
        BY <2>1, <2>2
      <3> HIDE DEF R
      <3> QED BY <2>3, <3>2, <3>3, <3>4
    <2> QED BY <2>4, <2>5
  <1>2. \A T \in SUBSET S : T \in G
    <2> HIDE DEF G
    <2> QED BY <1>1, InductionOnSubsets
  <1> QED
    BY <1>2

\* Functions that agree on a set have the same sum there.
LEMMA SumAgrees ==
    ASSUME NEW v, NEW w, NEW S, IsFiniteSet(S), \A x \in S : v[x] = w[x]
    PROVE  Sum(v, S) = Sum(w, S)
  <1> DEFINE G == {T \in SUBSET S : Sum(v, T) = Sum(w, T)}
  <1>1. ASSUME NEW T \in SUBSET S, \A x \in T : T \ {x} \in G PROVE T \in G
    <2>1. IsFiniteSet(T)
      BY FS_Subset
    <2>2. CASE T = {}
      BY <2>2, SumEmpty
    <2>3. CASE T # {}
      <3>1. Pick(T) \in T
        BY <2>3, PickIn
      <3>2. /\ Sum(v, T) = v[Pick(T)] + Sum(v, T \ {Pick(T)})
            /\ Sum(w, T) = w[Pick(T)] + Sum(w, T \ {Pick(T)})
        BY <2>1, <2>3, SumEquation
      <3> QED BY <1>1, <3>1, <3>2
    <2> QED BY <2>2, <2>3
  <1>2. \A T \in SUBSET S : T \in G
    <2> HIDE DEF G
    <2> QED BY <1>1, InductionOnSubsets
  <1> QED
    BY <1>2

\* Where a function changes at one element, so does its sum.
LEMMA SumChanges ==
    ASSUME NEW v, NEW w, NEW S, IsFiniteSet(S), NEW x \in S,
           \A y \in S : v[y] \in Int /\ w[y] \in Int,
           \A y \in S \ {x} : v[y] = w[y]
    PROVE  Sum(w, S) = Sum(v, S) + w[x] - v[x]
  <1>1. IsFiniteSet(S \ {x})
    BY FS_RemoveElement
  <1>2. Sum(v, S) = v[x] + Sum(v, S \ {x}) /\ Sum(w, S) = w[x] + Sum(w, S \ {x})
    BY SumRemove
  <1>3. Sum(v, S \ {x}) = Sum(w, S \ {x})
    BY <1>1, SumAgrees
  <1>4. Sum(w, S \ {x}) \in Int
    BY <1>1, SumInt
  <1> QED
    BY <1>2, <1>3, <1>4

\* The sum of the sums of two functions.
LEMMA SumOfSums ==
    ASSUME NEW u, NEW v, NEW w, NEW S, IsFiniteSet(S),
           \A x \in S : u[x] \in Int /\ v[x] \in Int /\ w[x] = u[x] + v[x]
    PROVE  Sum(w, S) = Sum(u, S) + Sum(v, S)
  <1> DEFINE G == {T \in SUBSET S : Sum(w, T) = Sum(u, T) + Sum(v, T)}
  <1>1. ASSUME NEW T \in SUBSET S, \A x \in T : T \ {x} \in G PROVE T \in G
    <2>1. IsFiniteSet(T)
      BY FS_Subset
    <2>2. CASE T = {}
      BY <2>2, SumEmpty
    <2>3. CASE T # {}
      <3> DEFINE x == Pick(T)
                 R == T \ {x}
      <3>1. x \in T
        BY <2>3, PickIn
      <3>2. IsFiniteSet(R)
        BY <2>1, FS_RemoveElement
      <3>3. Sum(u, R) \in Int /\ Sum(v, R) \in Int
        BY <3>2, SumInt
      <3>4. /\ Sum(u, T) = u[x] + Sum(u, R)
            /\ Sum(v, T) = v[x] + Sum(v, R)
            /\ Sum(w, T) = w[x] + Sum(w, R)
        BY <2>1, <2>3, SumEquation
      <3>5. Sum(w, R) = Sum(u, R) + Sum(v, R)
        BY <1>1, <3>1
      <3>6. u[x] \in Int /\ v[x] \in Int /\ w[x] = u[x] + v[x]
        BY <3>1
      <3> HIDE DEF x, R
      <3> QED BY <3>3, <3>4, <3>5, <3>6
    <2> QED BY <2>2, <2>3
  <1>2. \A T \in SUBSET S : T \in G
    <2> HIDE DEF G
    <2> QED BY <1>1, InductionOnSubsets
  <1> QED
    BY <1>2

\* A sum can be taken in two parts.
LEMMA SumSplit ==
    ASSUME NEW w, NEW S, IsFiniteSet(S), \A x \in S : w[x] \in Int, NEW A
    PROVE  Sum(w, S) = Sum(w, S \cap A) + Sum(w, S \ A)
  <1> DEFINE G == {T \in SUBSET S : Sum(w, T) = Sum(w, T \cap A) + Sum(w, T \ A)}
  <1>1. ASSUME NEW T \in SUBSET S, \A x \in T : T \ {x} \in G PROVE T \in G
    <2>1. \A U \in SUBSET T : IsFiniteSet(U) /\ Sum(w, U) \in Int
      <3> SUFFICES ASSUME NEW U \in SUBSET T PROVE IsFiniteSet(U) /\ Sum(w, U) \in Int
        OBVIOUS
      <3>1. IsFiniteSet(U)
        BY FS_Subset
      <3> QED BY <3>1, SumInt
    <2>2. CASE T = {}
      <3>1. T \cap A = {} /\ T \ A = {}
        BY <2>2
      <3> QED BY <2>2, <3>1, SumEmpty
    <2>3. CASE T # {}
      <3> PICK x \in T : TRUE
        BY <2>3
      <3> DEFINE R == T \ {x}
      <3>1. Sum(w, R) = Sum(w, R \cap A) + Sum(w, R \ A)
        BY <1>1
      <3>2. Sum(w, T) = w[x] + Sum(w, R)
        BY <2>1, SumRemove
      <3>3. w[x] \in Int /\ Sum(w, R \cap A) \in Int /\ Sum(w, R \ A) \in Int
        BY <2>1
      <3>4. ASSUME x \in A PROVE Sum(w, T) = Sum(w, T \cap A) + Sum(w, T \ A)
        <4>1. x \in T \cap A /\ (T \cap A) \ {x} = R \cap A /\ T \ A = R \ A
          BY <3>4
        <4>2. Sum(w, T \cap A) = w[x] + Sum(w, R \cap A)
          BY <2>1, <4>1, SumRemove
        <4>3. Sum(w, T \ A) = Sum(w, R \ A)
          BY <4>1
        <4> HIDE DEF R, G
        <4> QED BY <3>1, <3>2, <3>3, <4>2, <4>3
      <3>5. ASSUME x \notin A PROVE Sum(w, T) = Sum(w, T \cap A) + Sum(w, T \ A)
        <4>1. x \in T \ A /\ (T \ A) \ {x} = R \ A /\ T \cap A = R \cap A
          BY <3>5
        <4>2. Sum(w, T \ A) = w[x] + Sum(w, R \ A)
          BY <2>1, <4>1, SumRemove
        <4>3. Sum(w, T \cap A) = Sum(w, R \cap A)
          BY <4>1
        <4> HIDE DEF R, G
        <4> QED BY <3>1, <3>2, <3>3, <4>2, <4>3
      <3>6. Sum(w, T) = Sum(w, T \cap A) + Sum(w, T \ A)
        BY <3>4, <3>5
      <3> QED BY <3>6
    <2> QED BY <2>2, <2>3
  <1>2. \A T \in SUBSET S : T \in G
    <2> HIDE DEF G
    <2> QED BY <1>1, InductionOnSubsets
  <1> QED
    BY <1>2

\* The sum of one value.
LEMMA SumConstant ==
    ASSUME NEW w, NEW S, IsFiniteSet(S), NEW c \in Int, \A x \in S : w[x] = c
    PROVE  Sum(w, S) = Cardinality(S) * c
  <1> DEFINE G == {T \in SUBSET S : Sum(w, T) = Cardinality(T) * c}
  <1>1. ASSUME NEW T \in SUBSET S, \A x \in T : T \ {x} \in G PROVE T \in G
    <2>1. IsFiniteSet(T)
      BY FS_Subset
    <2>2. CASE T = {}
      BY <2>2, SumEmpty, FS_EmptySet
    <2>3. CASE T # {}
      <3> DEFINE x == Pick(T)
                 n == Cardinality(T \ {x})
      <3>1. x \in T
        BY <2>3, PickIn
      <3>2. Cardinality(T) = n + 1 /\ n \in Nat
        <4>1. Cardinality(T) \in Nat /\ IsFiniteSet(T \ {x}) /\ n = Cardinality(T) - 1
          BY <2>1, <3>1, FS_RemoveElement, FS_CardinalityType
        <4>2. n \in Nat
          BY <4>1, FS_CardinalityType
        <4> HIDE DEF n
        <4> QED BY <4>1, <4>2
      <3>3. Sum(w, T) = c + n * c
        BY <1>1, <2>1, <2>3, <3>1, SumEquation
      <3>4. c + n * c = (n + 1) * c
        BY <3>2
      <3> QED BY <3>2, <3>3, <3>4
    <2> QED BY <2>2, <2>3
  <1>2. \A T \in SUBSET S : T \in G
    <2> HIDE DEF G
    <2> QED BY <1>1, InductionOnSubsets
  <1> QED
    BY <1>2

\* A sum can be taken key by key.
OfKey(key, k, S) == {x \in S : key[x] = k}

LEMMA SumByKey ==
    ASSUME NEW w, NEW key, NEW K, IsFiniteSet(K), NEW S, IsFiniteSet(S),
           \A x \in S : w[x] \in Int /\ key[x] \in K
    PROVE  Sum([k \in K |-> Sum(w, OfKey(key, k, S))], K) = Sum(w, S)
  <1> DEFINE part(T) == [k \in K |-> Sum(w, OfKey(key, k, T))]
             G == {T \in SUBSET S : Sum(part(T), K) = Sum(w, T)}
  <1>1. ASSUME NEW T \in SUBSET S, \A x \in T : T \ {x} \in G PROVE T \in G
    <2>1. IsFiniteSet(T)
      BY FS_Subset
    <2>2. CASE T = {}
      <3>1. \A k \in K : part(T)[k] = 0
        <4>1. \A k \in K : OfKey(key, k, T) = {}
          BY <2>2 DEF OfKey
        <4> QED BY <4>1, SumEmpty
      <3>2. Sum(part(T), K) = Cardinality(K) * 0
        <4> HIDE DEF part
        <4> QED BY <3>1, SumConstant
      <3>3. Cardinality(K) \in Nat
        BY FS_CardinalityType
      <3>4. Sum(part(T), K) = 0
        <4> HIDE DEF part
        <4> QED BY <3>2, <3>3
      <3> QED BY <2>2, <3>4, SumEmpty
    <2>3. CASE T # {}
      <3> PICK x \in T : TRUE
        BY <2>3
      <3> DEFINE R == T \ {x}
                 v == part(R)
                 u == part(T)
      <3>1. IsFiniteSet(R) /\ R \in SUBSET S
        BY <2>1, FS_RemoveElement
      <3>2. \A k \in K : IsFiniteSet(OfKey(key, k, T)) /\ IsFiniteSet(OfKey(key, k, R))
        BY <2>1, <3>1, FS_Subset DEF OfKey
      <3>3. \A k \in K : u[k] \in Int /\ v[k] \in Int
        <4> SUFFICES ASSUME NEW k \in K
                     PROVE  Sum(w, OfKey(key, k, T)) \in Int /\ Sum(w, OfKey(key, k, R)) \in Int
          OBVIOUS
        <4>1. OfKey(key, k, T) \subseteq S /\ OfKey(key, k, R) \subseteq S
          BY DEF OfKey
        <4> QED BY <3>2, <4>1, SumInt
      <3>4. key[x] \in K /\ w[x] \in Int
        OBVIOUS
      <3>5. u[key[x]] = v[key[x]] + w[x]
        <4> DEFINE A == OfKey(key, key[x], T)
        <4>1. x \in A /\ OfKey(key, key[x], R) = A \ {x} /\ A \subseteq S
          BY DEF OfKey
        <4>2. IsFiniteSet(A)
          BY <3>2, <3>4
        <4>3. Sum(w, A) = w[x] + Sum(w, A \ {x})
          <5> HIDE DEF A
          <5> QED BY <4>1, <4>2, SumRemove
        <4>4. u[key[x]] = Sum(w, A) /\ v[key[x]] = Sum(w, A \ {x})
          BY <3>4, <4>1
        <4>5. v[key[x]] \in Int
          BY <3>3, <3>4
        <4> HIDE DEF A, u, v
        <4> QED BY <3>4, <4>3, <4>4, <4>5
      <3>6. \A k \in K \ {key[x]} : u[k] = v[k]
        <4> SUFFICES ASSUME NEW k \in K \ {key[x]} PROVE OfKey(key, k, T) = OfKey(key, k, R)
          OBVIOUS
        <4> QED BY DEF OfKey
      <3>7. Sum(u, K) = Sum(v, K) + u[key[x]] - v[key[x]]
        <4> HIDE DEF u, v
        <4>1. \A k \in K \ {key[x]} : v[k] = u[k]
          BY <3>6
        <4> QED BY <3>3, <3>4, <4>1, SumChanges
      <3>8. Sum(v, K) = Sum(w, R)
        BY <1>1
      <3>9. Sum(w, T) = w[x] + Sum(w, R) /\ Sum(w, R) \in Int
        BY <2>1, <3>1, SumRemove, SumInt
      <3>10. Sum(u, K) = Sum(w, T)
        <4> HIDE DEF u, v, R
        <4> QED BY <3>3, <3>4, <3>5, <3>7, <3>8, <3>9
      <3> QED BY <3>10
    <2> QED BY <2>2, <2>3
  <1>2. \A T \in SUBSET S : T \in G
    <2> HIDE DEF G
    <2> QED BY <1>1, InductionOnSubsets
  <1> QED
    BY <1>2
=============================================================================
