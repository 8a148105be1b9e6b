------------------------------ MODULE SumLemmas ------------------------------
(***************************************************************************)
(* Sums over finite sets, for the proofs of the other modules: what        *)
(* SumFunctionOnSet(f, S) is when S grows and when f changes; folds, of    *)
(* which a sum is one; tables, whose sum by rows is that by columns; and   *)
(* the rows of tables that are sequences.                                  *)
(*                                                                         *)
(* The sum is a recursive function, so these facts need induction.  The    *)
(* library's principles of induction are about an operator P(_), which the *)
(* provers cannot instantiate; here P is a set, the set of all subsets of  *)
(* S that have the property, and the principle follows from the            *)
(* well-foundedness of < on Nat.                                           *)
(***************************************************************************)
EXTENDS FiniteSetsExt, FiniteSetTheorems, SequenceTheorems, WellFoundedInduction, TLAPS

\* A set of natural numbers has a least element.
LEMMA LeastElement ==
  ASSUME NEW T \in SUBSET Nat, T # {}
  PROVE  \E m \in T : \A k \in T : m <= k
  <1> DEFINE R == OpToRel(<, Nat)
  <1>1. IsWellFoundedOn(R, Nat)
    BY NatLessThanWellFounded
  <1>2. \E x \in T : \A y \in T : ~ (<<y, x>> \in R)
    <2> HIDE DEF R
    <2>. QED BY <1>1, WFMin
  <1>3. \A x, y \in Nat : y < x => <<y, x>> \in R
    BY DEF OpToRel
  <1> HIDE DEF R
  <1>4. PICK x \in T : \A y \in T : ~ (<<y, x>> \in R)
    BY <1>2
  <1>5. \A y \in T : ~(y < x)
    BY <1>3, <1>4
  <1>. QED
    BY <1>5

\* What holds of a set whenever it holds of its proper subsets holds of every
\* finite set.
LEMMA SmallerSubsets ==
  ASSUME NEW S, IsFiniteSet(S), NEW P \in SUBSET (SUBSET S),
         \A T \in SUBSET S : (\A U \in SUBSET T : U # T => U \in P) => T \in P
  PROVE  S \in P
  <1>1. SUFFICES ASSUME S \notin P PROVE FALSE
    OBVIOUS
  <1> DEFINE N == {n \in Nat : \E T \in SUBSET S : T \notin P /\ Cardinality(T) = n}
  <1>2. N # {} /\ N \in SUBSET Nat
    BY <1>1, FS_CardinalityType
  <1>3. PICK m \in N : \A k \in N : m <= k
    <2> HIDE DEF N
    <2>. QED BY <1>2, LeastElement
  <1>4. PICK T \in SUBSET S : T \notin P /\ Cardinality(T) = m
    BY <1>3
  <1>5. PICK U \in SUBSET T : U # T /\ U \notin P
    BY <1>4
  <1>6. Cardinality(U) \in Nat /\ Cardinality(U) <= m /\ Cardinality(U) # m
    BY <1>4, <1>5, FS_Subset, FS_CardinalityType
  <1>. QED
    BY <1>3, <1>5, <1>6

\* What holds of {} and stays true when one element is added holds of every
\* finite set.
LEMMA SubsetInduction ==
  ASSUME NEW S, IsFiniteSet(S), NEW P \in SUBSET (SUBSET S), {} \in P,
         \A T \in P, x \in S : T \cup {x} \in P
  PROVE  S \in P
  <1>1. ASSUME NEW T \in SUBSET S, \A U \in SUBSET T : U # T => U \in P
        PROVE  T \in P
    <2>1. CASE T = {}
      BY <2>1
    <2>2. ASSUME NEW x \in T PROVE T \in P
      <3>1. T \ {x} \in P
        BY <1>1
      <3>2. (T \ {x}) \cup {x} = T
        OBVIOUS
      <3>. QED BY <3>1, <3>2
    <2>. QED BY <2>1, <2>2
  <1>. QED
    BY <1>1, SmallerSubsets
-----------------------------------------------------------------------------
(***************************************************************************)
(* The definition of the sum is that of a function which exists.           *)
(***************************************************************************)
\* The element that the sum takes first
Pick(s) == CHOOSE x \in s : TRUE

\* g adds f up over the subsets of S with at most n elements.
Adds(g, f, S, n) ==
  g = [s \in {u \in SUBSET S : Cardinality(u) <= n} |->
         IF s = {} THEN 0 ELSE f[Pick(s)] + g[s \ {Pick(s)}]]

\* There is such a function, whatever the bound: one for n is extended to n + 1.
LEMMA AddsExists ==
  ASSUME NEW S, IsFiniteSet(S), NEW f, NEW n \in Nat
  PROVE  \E g : Adds(g, f, S, n)
  <1> DEFINE N == {k \in Nat : ~ \E g : Adds(g, f, S, k)}
  <1>1. SUFFICES ASSUME N # {} PROVE FALSE
    OBVIOUS
  <1>2. PICK m \in N : \A k \in N : m <= k
    <2>1. N \in SUBSET Nat
      OBVIOUS
    <2> HIDE DEF N
    <2>. QED BY <1>1, <2>1, LeastElement
  <1>3. m # 0
    <2>1. {u \in SUBSET S : Cardinality(u) <= 0} = {{}}
      <3>1. \A u \in SUBSET S : IsFiniteSet(u) /\ Cardinality(u) \in Nat
        BY FS_Subset, FS_CardinalityType
      <3>. QED BY <3>1, FS_EmptySet
    <2> DEFINE g == [s \in {{}} |-> 0]
    <2>2. g = [s \in {{}} |-> IF s = {} THEN 0 ELSE f[Pick(s)] + g[s \ {Pick(s)}]]
      OBVIOUS
    <2>3. Adds(g, f, S, 0)
      BY <2>1, <2>2 DEF Adds
    <2>. QED BY <2>3
  <1>4. PICK g : Adds(g, f, S, m - 1)
    <2>1. m - 1 \in Nat /\ m - 1 \notin N
      BY <1>2, <1>3
    <2>. QED BY <2>1
  <1> DEFINE D(k) == {u \in SUBSET S : Cardinality(u) <= k}
             h == [s \in D(m) |-> IF s = {} THEN 0 ELSE f[Pick(s)] + g[s \ {Pick(s)}]]
  <1>5. \A u \in SUBSET S : IsFiniteSet(u) /\ Cardinality(u) \in Nat
    BY FS_Subset, FS_CardinalityType
  <1>6. g = [s \in D(m - 1) |-> IF s = {} THEN 0 ELSE f[Pick(s)] + g[s \ {Pick(s)}]]
    BY <1>4 DEF Adds
  <1>7. \A s \in D(m) : s # {} => s \ {Pick(s)} \in D(m - 1)
    <2> TAKE s \in D(m)
    <2> HAVE s # {}
    <2>1. Pick(s) \in s
      BY DEF Pick
    <2>2. Cardinality(s \ {Pick(s)}) = Cardinality(s) - 1
      BY <2>1, <1>5, FS_RemoveElement
    <2>. QED BY <2>2, <1>5
  <1>8. \A s \in D(m - 1) : h[s] = g[s]
    <2>1. D(m - 1) \subseteq D(m)
      BY <1>5
    <2>. QED BY <1>6, <2>1
  <1>9. h = [s \in D(m) |-> IF s = {} THEN 0 ELSE f[Pick(s)] + h[s \ {Pick(s)}]]
    BY <1>7, <1>8
  <1>10. Adds(h, f, S, m)
    BY <1>9 DEF Adds
  <1>. QED BY <1>10, <1>2

\* The sum is the value of a function that satisfies the recursion.
LEMMA SumIs ==
  ASSUME NEW S, IsFiniteSet(S), NEW f
  PROVE  \E g : /\ g = [s \in SUBSET S |-> IF s = {} THEN 0 ELSE f[Pick(s)] + g[s \ {Pick(s)}]]
                /\ SumFunctionOnSet(f, S) = g[S]
  <1> DEFINE g == CHOOSE iter : iter = [s \in SUBSET S |->
                    IF s = {} THEN 0 ELSE f[CHOOSE x \in s : TRUE] + iter[s \ {CHOOSE x \in s : TRUE}]]
  <1>1. {u \in SUBSET S : Cardinality(u) <= Cardinality(S)} = SUBSET S
    BY FS_Subset
  <1>2. \E iter : Adds(iter, f, S, Cardinality(S))
    BY AddsExists, FS_CardinalityType
  <1>3. \E iter : iter = [s \in SUBSET S |->
                    IF s = {} THEN 0 ELSE f[CHOOSE x \in s : TRUE] + iter[s \ {CHOOSE x \in s : TRUE}]]
    BY <1>1, <1>2, ZenonT(30) DEF Adds, Pick
  <1>4. g = [s \in SUBSET S |-> IF s = {} THEN 0 ELSE f[Pick(s)] + g[s \ {Pick(s)}]]
    BY <1>3 DEF Pick
  <1>5. SumFunctionOnSet(f, S) = g[S]
    BY DEF SumFunctionOnSet, FoldFunctionOnSet, MapThenFoldSet
  <1>. QED BY <1>4, <1>5
-----------------------------------------------------------------------------
(***************************************************************************)
(* Sums of integers.                                                       *)
(***************************************************************************)
LEMMA SumOfEmpty ==
  ASSUME NEW f
  PROVE  SumFunctionOnSet(f, {}) = 0
  BY SumIs, FS_EmptySet

\* The recursion itself, which needs that the functions of a set and of its
\* subsets agree.
LEMMA SumUnfolds ==
  ASSUME NEW S, IsFiniteSet(S), NEW f, S # {}
  PROVE  /\ Pick(S) \in S
         /\ SumFunctionOnSet(f, S) = f[Pick(S)] + SumFunctionOnSet(f, S \ {Pick(S)})
  <1> DEFINE R == S \ {Pick(S)}
             Is(g, Q) == g = [s \in SUBSET Q |-> IF s = {} THEN 0 ELSE f[Pick(s)] + g[s \ {Pick(s)}]]
  <1>1. Pick(S) \in S
    BY DEF Pick
  <1>2. PICK g : Is(g, S) /\ SumFunctionOnSet(f, S) = g[S]
    BY SumIs
  <1>3. PICK h : Is(h, R) /\ SumFunctionOnSet(f, R) = h[R]
    BY SumIs, FS_Subset
  <1>4. g[R] = h[R]
    <2> DEFINE P == {T \in SUBSET R : g[T] = h[T]}
    <2>1. ASSUME NEW T \in SUBSET R, \A U \in SUBSET T : U # T => U \in P
          PROVE  g[T] = h[T]
      <3>1. T \in SUBSET S
        OBVIOUS
      <3>2. /\ g[T] = IF T = {} THEN 0 ELSE f[Pick(T)] + g[T \ {Pick(T)}]
            /\ h[T] = IF T = {} THEN 0 ELSE f[Pick(T)] + h[T \ {Pick(T)}]
        BY <1>2, <1>3, <3>1
      <3>3. T # {} => Pick(T) \in T
        BY DEF Pick
      <3>4. T # {} => g[T \ {Pick(T)}] = h[T \ {Pick(T)}]
        BY <2>1, <3>3
      <3>. QED BY <3>2, <3>4
    <2>2. R \in P
      <3>1. \A T \in SUBSET R : (\A U \in SUBSET T : U # T => U \in P) => T \in P
        BY <2>1
      <3>2. IsFiniteSet(R) /\ P \in SUBSET (SUBSET R)
        BY FS_Subset
      <3> HIDE DEF P
      <3>. QED BY <3>1, <3>2, SmallerSubsets
    <2>. QED BY <2>2
  <1>5. g[S] = f[Pick(S)] + g[R]
    BY <1>2
  <1>. QED
    BY <1>1, <1>2, <1>3, <1>4, <1>5

\* A sum of integers is an integer.
LEMMA SumOfIntegers ==
  ASSUME NEW S, IsFiniteSet(S), NEW f, \A x \in S : f[x] \in Int
  PROVE  SumFunctionOnSet(f, S) \in Int
  <1> DEFINE P == {T \in SUBSET S : SumFunctionOnSet(f, T) \in Int}
  <1>1. ASSUME NEW T \in SUBSET S, \A U \in SUBSET T : U # T => U \in P
        PROVE  T \in P
    <2>1. CASE T = {}
      BY <2>1, SumOfEmpty
    <2>2. CASE T # {}
      <3>1. /\ Pick(T) \in T
            /\ SumFunctionOnSet(f, T) = f[Pick(T)] + SumFunctionOnSet(f, T \ {Pick(T)})
        BY <2>2, SumUnfolds, FS_Subset
      <3>2. SumFunctionOnSet(f, T \ {Pick(T)}) \in Int
        BY <1>1, <3>1
      <3>. QED BY <3>1, <3>2
    <2>. QED BY <2>1, <2>2
  <1>2. S \in P
    <2>1. P \in SUBSET (SUBSET S)
      OBVIOUS
    <2> HIDE DEF P
    <2>. QED BY <1>1, <2>1, SmallerSubsets
  <1>. QED BY <1>2

\* Any element may be taken first.
LEMMA SumOfOthers ==
  ASSUME NEW S, IsFiniteSet(S), NEW f, \A y \in S : f[y] \in Int, NEW x \in S
  PROVE  SumFunctionOnSet(f, S) = f[x] + SumFunctionOnSet(f, S \ {x})
  <1> DEFINE Q(T) == \A y \in T : SumFunctionOnSet(f, T) = f[y] + SumFunctionOnSet(f, T \ {y})
             P == {T \in SUBSET S : Q(T)}
  <1>1. ASSUME NEW T \in SUBSET S, \A U \in SUBSET T : U # T => Q(U), NEW y \in T
        PROVE  SumFunctionOnSet(f, T) = f[y] + SumFunctionOnSet(f, T \ {y})
    <2> DEFINE p == Pick(T)
    <2>1. p \in T /\ SumFunctionOnSet(f, T) = f[p] + SumFunctionOnSet(f, T \ {p})
      BY SumUnfolds, FS_Subset
    <2>2. CASE p = y
      BY <2>1, <2>2
    <2>3. CASE p # y
      <3>1. /\ SumFunctionOnSet(f, T \ {p}) = f[y] + SumFunctionOnSet(f, (T \ {p}) \ {y})
            /\ SumFunctionOnSet(f, T \ {y}) = f[p] + SumFunctionOnSet(f, (T \ {y}) \ {p})
        BY <1>1, <2>1, <2>3
      <3>2. (T \ {p}) \ {y} = (T \ {y}) \ {p}
        OBVIOUS
      <3>3. SumFunctionOnSet(f, (T \ {y}) \ {p}) \in Int /\ f[p] \in Int /\ f[y] \in Int
        BY <2>1, SumOfIntegers, FS_Subset
      <3>4. /\ SumFunctionOnSet(f, T) = f[p] + (f[y] + SumFunctionOnSet(f, (T \ {y}) \ {p}))
            /\ SumFunctionOnSet(f, T \ {y}) = f[p] + SumFunctionOnSet(f, (T \ {y}) \ {p})
        BY <2>1, <3>1, <3>2
      <3>. QED BY <3>3, <3>4
    <2>. QED BY <2>2, <2>3
  <1>2. S \in P
    <2>1. \A T \in SUBSET S : (\A U \in SUBSET T : U # T => U \in P) => T \in P
      BY <1>1
    <2>2. P \in SUBSET (SUBSET S)
      OBVIOUS
    <2> HIDE DEF P
    <2>. QED BY <2>1, <2>2, SmallerSubsets
  <1>. QED BY <1>2

\* A sum with one element more
LEMMA SumWithOne ==
  ASSUME NEW S, IsFiniteSet(S), NEW x, x \notin S, NEW f, \A y \in S \cup {x} : f[y] \in Int
  PROVE  /\ IsFiniteSet(S \cup {x})
         /\ SumFunctionOnSet(f, S \cup {x}) = f[x] + SumFunctionOnSet(f, S)
  <1>1. IsFiniteSet(S \cup {x}) /\ (S \cup {x}) \ {x} = S
    BY FS_AddElement
  <1>. QED
    BY <1>1, SumOfOthers

\* Functions that agree on a set have the same sum over it.
LEMMA SumOfSame ==
  ASSUME NEW S, IsFiniteSet(S), NEW f, NEW g, \A x \in S : f[x] = g[x]
  PROVE  SumFunctionOnSet(f, S) = SumFunctionOnSet(g, S)
  <1> DEFINE P == {T \in SUBSET S : SumFunctionOnSet(f, T) = SumFunctionOnSet(g, T)}
  <1>1. ASSUME NEW T \in SUBSET S, \A U \in SUBSET T : U # T => U \in P
        PROVE  T \in P
    <2>1. CASE T = {}
      BY <2>1, SumOfEmpty
    <2>2. CASE T # {}
      <3>1. /\ Pick(T) \in T
            /\ SumFunctionOnSet(f, T) = f[Pick(T)] + SumFunctionOnSet(f, T \ {Pick(T)})
            /\ SumFunctionOnSet(g, T) = g[Pick(T)] + SumFunctionOnSet(g, T \ {Pick(T)})
        BY <2>2, SumUnfolds, FS_Subset
      <3>2. SumFunctionOnSet(f, T \ {Pick(T)}) = SumFunctionOnSet(g, T \ {Pick(T)})
        BY <1>1, <3>1
      <3>. QED BY <3>1, <3>2
    <2>. QED BY <2>1, <2>2
  <1>2. S \in P
    <2>1. P \in SUBSET (SUBSET S)
      OBVIOUS
    <2> HIDE DEF P
    <2>. QED BY <1>1, <2>1, SmallerSubsets
  <1>. QED BY <1>2

\* Sums add up pointwise.
LEMMA SumOfSums ==
  ASSUME NEW S, IsFiniteSet(S), NEW f, NEW g, NEW h,
         \A x \in S : f[x] \in Int /\ g[x] \in Int /\ h[x] = f[x] + g[x]
  PROVE  SumFunctionOnSet(h, S) = SumFunctionOnSet(f, S) + SumFunctionOnSet(g, S)
  <1> DEFINE P == {T \in SUBSET S : SumFunctionOnSet(h, T) = SumFunctionOnSet(f, T) + SumFunctionOnSet(g, T)}
  <1>1. ASSUME NEW T \in P, NEW x \in S PROVE T \cup {x} \in P
    <2>1. CASE x \in T
      <3>1. T \cup {x} = T
        BY <2>1
      <3>. QED BY <3>1
    <2>2. CASE x \notin T
      <3>1. /\ SumFunctionOnSet(f, T \cup {x}) = f[x] + SumFunctionOnSet(f, T)
            /\ SumFunctionOnSet(g, T \cup {x}) = g[x] + SumFunctionOnSet(g, T)
            /\ SumFunctionOnSet(h, T \cup {x}) = h[x] + SumFunctionOnSet(h, T)
        <4>1. IsFiniteSet(T)
          BY FS_Subset
        <4>2. \A y \in T \cup {x} : f[y] \in Int /\ g[y] \in Int /\ h[y] \in Int
          OBVIOUS
        <4>. QED BY <2>2, <4>1, <4>2, SumWithOne
      <3>2. SumFunctionOnSet(f, T) \in Int /\ SumFunctionOnSet(g, T) \in Int
        BY SumOfIntegers, FS_Subset
      <3>. QED BY <3>1, <3>2
    <2>. QED BY <2>1, <2>2
  <1>2. S \in P
    <2>1. P \in SUBSET (SUBSET S) /\ {} \in P
      BY SumOfEmpty
    <2> HIDE DEF P
    <2>. QED BY <1>1, <2>1, SubsetInduction
  <1>. QED BY <1>2

\* Sums are monotonic.
LEMMA SumOrdered ==
  ASSUME NEW S, IsFiniteSet(S), NEW f, NEW g,
         \A x \in S : f[x] \in Int /\ g[x] \in Int /\ f[x] <= g[x]
  PROVE  SumFunctionOnSet(f, S) <= SumFunctionOnSet(g, S)
  <1> DEFINE P == {T \in SUBSET S : SumFunctionOnSet(f, T) <= SumFunctionOnSet(g, T)}
  <1>1. ASSUME NEW T \in P, NEW x \in S PROVE T \cup {x} \in P
    <2>1. CASE x \in T
      <3>1. T \cup {x} = T
        BY <2>1
      <3>. QED BY <3>1
    <2>2. CASE x \notin T
      <3>1. /\ SumFunctionOnSet(f, T \cup {x}) = f[x] + SumFunctionOnSet(f, T)
            /\ SumFunctionOnSet(g, T \cup {x}) = g[x] + SumFunctionOnSet(g, T)
        BY <2>2, SumWithOne, FS_Subset
      <3>2. SumFunctionOnSet(f, T) \in Int /\ SumFunctionOnSet(g, T) \in Int
        BY SumOfIntegers, FS_Subset
      <3>. QED BY <3>1, <3>2
    <2>. QED BY <2>1, <2>2
  <1>2. S \in P
    <2>1. P \in SUBSET (SUBSET S) /\ {} \in P
      BY SumOfEmpty
    <2> HIDE DEF P
    <2>. QED BY <1>1, <2>1, SubsetInduction
  <1>. QED BY <1>2

\* Nothing adds up to nothing.
LEMMA SumOfZeros ==
  ASSUME NEW S, IsFiniteSet(S), NEW f, \A x \in S : f[x] = 0
  PROVE  SumFunctionOnSet(f, S) = 0
  <1>1. SumFunctionOnSet(f, S) = SumFunctionOnSet(f, S) + SumFunctionOnSet(f, S)
    BY SumOfSums
  <1>. QED
    BY <1>1, SumOfIntegers

\* What a change of one value changes in the sum
LEMMA SumOfOneChange ==
  ASSUME NEW S, IsFiniteSet(S), NEW x \in S, NEW f, NEW g,
         \A y \in S : f[y] \in Int /\ g[y] \in Int,
         \A y \in S \ {x} : g[y] = f[y]
  PROVE  SumFunctionOnSet(g, S) = SumFunctionOnSet(f, S) + g[x] - f[x]
  <1>1. /\ SumFunctionOnSet(f, S) = f[x] + SumFunctionOnSet(f, S \ {x})
        /\ SumFunctionOnSet(g, S) = g[x] + SumFunctionOnSet(g, S \ {x})
    BY SumOfOthers
  <1>2. /\ SumFunctionOnSet(g, S \ {x}) = SumFunctionOnSet(f, S \ {x})
        /\ SumFunctionOnSet(f, S \ {x}) \in Int
    BY SumOfSame, SumOfIntegers, FS_RemoveElement
  <1>. QED
    BY <1>1, <1>2

\* A sum of natural numbers is one.
LEMMA NatSum ==
  ASSUME NEW S, IsFiniteSet(S), NEW f, \A x \in S : f[x] \in Nat
  PROVE  SumFunctionOnSet(f, S) \in Nat
  <1> DEFINE z == [x \in S |-> 0]
  <1>1. SumFunctionOnSet(z, S) = 0
    BY SumOfZeros
  <1>2. SumFunctionOnSet(z, S) <= SumFunctionOnSet(f, S)
    BY SumOrdered
  <1>3. SumFunctionOnSet(f, S) \in Int
    BY SumOfIntegers
  <1>. QED BY <1>1, <1>2, <1>3

\* What is zero beyond T does not count.
LEMMA SumBeyond ==
  ASSUME NEW S, IsFiniteSet(S), NEW T \in SUBSET S, NEW f, \A x \in S : f[x] \in Int, \A x \in S \ T : f[x] = 0
  PROVE  SumFunctionOnSet(f, S) = SumFunctionOnSet(f, T)
  <1> DEFINE P == {U \in SUBSET (S \ T) : SumFunctionOnSet(f, T \cup U) = SumFunctionOnSet(f, T)}
  <1>1. ASSUME NEW U \in P, NEW x \in S \ T PROVE U \cup {x} \in P
    <2>1. CASE x \in U
      <3>1. U \cup {x} = U
        BY <2>1
      <3>. QED BY <3>1
    <2>2. CASE x \notin U
      <3>1. IsFiniteSet(T \cup U) /\ x \notin T \cup U /\ (T \cup U) \cup {x} = T \cup (U \cup {x})
        BY <2>2, FS_Subset
      <3>2. SumFunctionOnSet(f, (T \cup U) \cup {x}) = f[x] + SumFunctionOnSet(f, T \cup U)
        BY <3>1, SumWithOne
      <3>3. f[x] = 0 /\ SumFunctionOnSet(f, T \cup U) \in Int
        BY <3>1, SumOfIntegers
      <3> DEFINE a == SumFunctionOnSet(f, T \cup U)
                 b == SumFunctionOnSet(f, T \cup (U \cup {x}))
      <3>4. b = f[x] + a
        BY <3>1, <3>2
      <3>5. f[x] = 0 /\ a \in Int /\ a = SumFunctionOnSet(f, T)
        BY <3>3
      <3>6. b = SumFunctionOnSet(f, T)
        <4> HIDE DEF a, b
        <4>. QED BY <3>4, <3>5
      <3>. QED BY <3>6
    <2>. QED BY <2>1, <2>2
  <1>2. S \ T \in P
    <2>1. P \in SUBSET (SUBSET (S \ T)) /\ {} \in P /\ IsFiniteSet(S \ T)
      <3>1. T \cup {} = T
        OBVIOUS
      <3>. QED BY <3>1, FS_Subset
    <2> HIDE DEF P
    <2>. QED BY <1>1, <2>1, SubsetInduction
  <1>3. T \cup (S \ T) = S
    OBVIOUS
  <1>. QED BY <1>2, <1>3

\* A sum over one more, when the others stay what they are.
LEMMA SumAppended ==
  ASSUME NEW S, IsFiniteSet(S), NEW x, x \notin S, NEW f, NEW g,
         \A y \in S : f[y] \in Int /\ g[y] = f[y], g[x] \in Int
  PROVE  SumFunctionOnSet(g, S \cup {x}) = SumFunctionOnSet(f, S) + g[x]
  <1>1. SumFunctionOnSet(g, S \cup {x}) = g[x] + SumFunctionOnSet(g, S)
    BY SumWithOne
  <1>2. SumFunctionOnSet(g, S) = SumFunctionOnSet(f, S) /\ SumFunctionOnSet(f, S) \in Int
    BY SumOfSame, SumOfIntegers
  <1>. QED BY <1>1, <1>2
-----------------------------------------------------------------------------
(***************************************************************************)
(* Folds.  FoldLeft over a sequence, and MapThenFoldSet under it, choose a *)
(* recursive function; these facts say that there is one, and that what    *)
(* every step keeps holds of what it makes.                                *)
(***************************************************************************)
\* A finite set of integers has a greatest element.
LEMMA MaxIs ==
  ASSUME NEW S, IsFiniteSet(S), NEW T \in SUBSET S, S \subseteq Int, T # {}
  PROVE  Max(T) \in T /\ \A y \in T : Max(T) >= y
  <1> DEFINE Q(U) == \E x \in U : \A y \in U : x >= y
             P == {U \in SUBSET T : U # {} => Q(U)}
  <1>1. ASSUME NEW U \in P, NEW x \in T PROVE U \cup {x} \in P
    <2>1. CASE U = {}
      BY <2>1
    <2>2. CASE U # {}
      <3>1. PICK z \in U : \A y \in U : z >= y
        BY <2>2
      <3>2. CASE z >= x
        BY <3>1, <3>2
      <3>3. CASE x > z
        BY <3>1, <3>3
      <3>. QED BY <3>1, <3>2, <3>3
    <2>. QED BY <2>1, <2>2
  <1>2. T \in P
    <2>1. P \in SUBSET (SUBSET T) /\ {} \in P /\ IsFiniteSet(T)
      BY FS_Subset
    <2> HIDE DEF P
    <2>. QED BY <1>1, <2>1, SubsetInduction
  <1>. QED BY <1>2 DEF Max

\* What follows for a set of integers from the same for all but its greatest
\* element holds of every finite one.
LEMMA FoldInduction ==
  ASSUME NEW D, IsFiniteSet(D), D \subseteq Int, NEW g, NEW K,
         g[{}] \in K[{}],
         \A T \in SUBSET D : T # {} /\ g[T \ {Max(T)}] \in K[T \ {Max(T)}] => g[T] \in K[T]
  PROVE  \A T \in SUBSET D : g[T] \in K[T]
  <1> TAKE S \in SUBSET D
  <1> DEFINE P == {T \in SUBSET S : g[T] \in K[T]}
  <1>1. ASSUME NEW T \in SUBSET S, \A U \in SUBSET T : U # T => U \in P
        PROVE  T \in P
    <2>1. CASE T = {}
      BY <2>1
    <2>2. CASE T # {}
      <3>1. Max(T) \in T
        BY <2>2, MaxIs
      <3>2. g[T \ {Max(T)}] \in K[T \ {Max(T)}]
        BY <1>1, <3>1
      <3>. QED BY <2>2, <3>2
    <2>. QED BY <2>1, <2>2
  <1>2. S \in P
    <2>1. P \in SUBSET (SUBSET S) /\ IsFiniteSet(S)
      BY FS_Subset
    <2> HIDE DEF P
    <2>. QED BY <1>1, <2>1, SmallerSubsets
  <1>. QED BY <1>2

\* h folds the steps F over the subsets of D with at most n elements: F[T] is
\* the step of the greatest element of T, which is taken last.
FoldsUpTo(h, F, base, D, n) ==
  h = [T \in {U \in SUBSET D : Cardinality(U) <= n} |->
         IF T = {} THEN base ELSE F[T][h[T \ {Max(T)}]]]

LEMMA FoldsExist ==
  ASSUME NEW D, IsFiniteSet(D), D \subseteq Int, NEW F, NEW base, NEW n \in Nat
  PROVE  \E h : FoldsUpTo(h, F, base, D, n)
  <1> DEFINE N == {k \in Nat : ~ \E h : FoldsUpTo(h, F, base, D, k)}
  <1>1. SUFFICES ASSUME N # {} PROVE FALSE
    OBVIOUS
  <1>2. PICK m \in N : \A k \in N : m <= k
    <2>1. N \in SUBSET Nat
      OBVIOUS
    <2> HIDE DEF N
    <2>. QED BY <1>1, <2>1, LeastElement
  <1>a. \A u \in SUBSET D : IsFiniteSet(u) /\ Cardinality(u) \in Nat
    BY FS_Subset, FS_CardinalityType
  <1>3. m # 0
    <2>1. {u \in SUBSET D : Cardinality(u) <= 0} = {{}}
      BY <1>a, FS_EmptySet
    <2> DEFINE g == [T \in {{}} |-> base]
    <2>2. g = [T \in {{}} |-> IF T = {} THEN base ELSE F[T][g[T \ {Max(T)}]]]
      OBVIOUS
    <2>3. FoldsUpTo(g, F, base, D, 0)
      BY <2>1, <2>2 DEF FoldsUpTo
    <2>. QED BY <2>3
  <1>4. PICK g : FoldsUpTo(g, F, base, D, m - 1)
    <2>1. m - 1 \in Nat /\ m - 1 \notin N
      BY <1>2, <1>3
    <2>. QED BY <2>1
  <1> DEFINE E(k) == {u \in SUBSET D : Cardinality(u) <= k}
             h == [T \in E(m) |-> IF T = {} THEN base ELSE F[T][g[T \ {Max(T)}]]]
  <1>6. g = [T \in E(m - 1) |-> IF T = {} THEN base ELSE F[T][g[T \ {Max(T)}]]]
    BY <1>4 DEF FoldsUpTo
  <1>7. \A T \in E(m) : T # {} => T \ {Max(T)} \in E(m - 1)
    <2> TAKE T \in E(m)
    <2> HAVE T # {}
    <2>1. Max(T) \in T
      BY MaxIs
    <2>2. Cardinality(T \ {Max(T)}) = Cardinality(T) - 1
      BY <2>1, <1>a, FS_RemoveElement
    <2>3. T \ {Max(T)} \in SUBSET D /\ Cardinality(T) <= m /\ Cardinality(T) \in Nat
      BY <1>a
    <2>. QED BY <2>2, <2>3
  <1>8. \A T \in E(m - 1) : h[T] = g[T]
    <2>1. E(m - 1) \subseteq E(m)
      BY <1>a
    <2>. QED BY <1>6, <2>1
  <1>9. h = [T \in E(m) |-> IF T = {} THEN base ELSE F[T][h[T \ {Max(T)}]]]
    BY <1>7, <1>8
  <1>10. FoldsUpTo(h, F, base, D, m)
    BY <1>9 DEF FoldsUpTo
  <1>. QED BY <1>10, <1>2

IsFold(h, F, base, D) == h = [T \in SUBSET D |-> IF T = {} THEN base ELSE F[T][h[T \ {Max(T)}]]]

\* What a fold makes of base is where its steps lead: if each of them leads from
\* K[T without its greatest element] to K[T].
LEMMA FoldStays ==
  ASSUME NEW D, IsFiniteSet(D), D \subseteq Int, NEW F, NEW base, NEW K, base \in K[{}],
         \A T \in SUBSET D : T # {} => \A k \in K[T \ {Max(T)}] : F[T][k] \in K[T]
  PROVE  \E h : IsFold(h, F, base, D) /\ \A T \in SUBSET D : h[T] \in K[T]
  <1>1. {u \in SUBSET D : Cardinality(u) <= Cardinality(D)} = SUBSET D
    BY FS_Subset
  <1>2. PICK h : FoldsUpTo(h, F, base, D, Cardinality(D))
    BY FoldsExist, FS_CardinalityType
  <1>3. h = [T \in SUBSET D |-> IF T = {} THEN base ELSE F[T][h[T \ {Max(T)}]]]
    BY <1>1, <1>2 DEF FoldsUpTo
  <1>4. \A T \in SUBSET D : h[T] \in K[T]
    <2>1. h[{}] \in K[{}]
      BY <1>3
    <2>2. \A T \in SUBSET D : T # {} /\ h[T \ {Max(T)}] \in K[T \ {Max(T)}] => h[T] \in K[T]
      BY <1>3
    <2>. QED BY <2>1, <2>2, FoldInduction
  <1>. QED BY <1>3, <1>4 DEF IsFold

-----------------------------------------------------------------------------
(***************************************************************************)
(* Sums of a table, by its rows and by its columns.                        *)
(***************************************************************************)
\* Every term is multiplied by the same number.
LEMMA SumScaled ==
  ASSUME NEW S, IsFiniteSet(S), NEW f, NEW g, NEW w \in Int,
         \A x \in S : f[x] \in Int /\ g[x] = w * f[x]
  PROVE  SumFunctionOnSet(g, S) = w * SumFunctionOnSet(f, S)
  <1> DEFINE P == {T \in SUBSET S : SumFunctionOnSet(g, T) = w * SumFunctionOnSet(f, T)}
  <1>1. ASSUME NEW T \in P, NEW x \in S PROVE T \cup {x} \in P
    <2>1. CASE x \in T
      <3>1. T \cup {x} = T
        BY <2>1
      <3>. QED BY <3>1
    <2>2. CASE x \notin T
      <3>1. IsFiniteSet(T)
        BY FS_Subset
      <3>2. \A y \in T \cup {x} : f[y] \in Int
        OBVIOUS
      <3>3. \A y \in T \cup {x} : g[y] \in Int
        <4>1. \A y \in S : g[y] = w * f[y] /\ f[y] \in Int
          OBVIOUS
        <4>2. \A y \in S : w * f[y] \in Int
          BY <4>1
        <4>. QED BY <4>1, <4>2
      <3>4. SumFunctionOnSet(f, T \cup {x}) = f[x] + SumFunctionOnSet(f, T)
        BY <2>2, <3>1, <3>2, SumWithOne
      <3>5. SumFunctionOnSet(g, T \cup {x}) = g[x] + SumFunctionOnSet(g, T)
        BY <2>2, <3>1, <3>3, SumWithOne
      <3>6. SumFunctionOnSet(f, T) \in Int
        BY <3>1, <3>2, SumOfIntegers
      <3>7. g[x] = w * f[x] /\ SumFunctionOnSet(g, T) = w * SumFunctionOnSet(f, T) /\ f[x] \in Int
        OBVIOUS
      <3>8. w * (f[x] + SumFunctionOnSet(f, T)) = w * f[x] + w * SumFunctionOnSet(f, T)
        <4> DEFINE a == f[x]
                   b == SumFunctionOnSet(f, T)
        <4>1. a \in Int /\ b \in Int
          BY <3>6, <3>7
        <4> HIDE DEF a, b
        <4>2. w * (a + b) = w * a + w * b
          BY <4>1
        <4>. QED BY <4>2 DEF a, b
      <3>. QED BY <3>4, <3>5, <3>7, <3>8
    <2>. QED BY <2>1, <2>2
  <1>2. {} \in P
    <2>1. SumFunctionOnSet(f, {}) = 0 /\ SumFunctionOnSet(g, {}) = 0
      BY SumOfEmpty
    <2>2. w * 0 = 0
      OBVIOUS
    <2>. QED BY <2>1, <2>2
  <1>3. P \in SUBSET (SUBSET S)
    OBVIOUS
  <1> HIDE DEF P
  <1>4. S \in P
    BY <1>1, <1>2, <1>3, SubsetInduction
  <1>. QED BY <1>4 DEF P

\* One term alone is not zero.
LEMMA SumOfPoint ==
  ASSUME NEW S, IsFiniteSet(S), NEW a \in S, NEW f, f[a] \in Int, \A x \in S \ {a} : f[x] = 0
  PROVE  SumFunctionOnSet(f, S) = f[a]
  <1>1. \A x \in S : f[x] \in Int
    OBVIOUS
  <1>2. SumFunctionOnSet(f, S) = f[a] + SumFunctionOnSet(f, S \ {a})
    BY <1>1, SumOfOthers
  <1>3. IsFiniteSet(S \ {a})
    BY FS_Subset
  <1>4. SumFunctionOnSet(f, S \ {a}) = 0
    BY <1>3, SumOfZeros
  <1>. QED BY <1>2, <1>4

\* cols and rows are the totals of the columns X and the rows D of the table A.
Totals(A, D, X, cols, rows) ==
  /\ IsFiniteSet(D) /\ IsFiniteSet(X) /\ \A d \in D : \A x \in X : A[d][x] \in Int
  /\ \A x \in X : cols[x] = SumFunctionOnSet([d \in D |-> A[d][x]], D)
  /\ \A d \in D : rows[d] = SumFunctionOnSet(A[d], X)

\* A table has one total, by rows or by columns.
LEMMA SumExchange ==
  ASSUME NEW D, NEW X, NEW A, NEW cols, NEW rows, Totals(A, D, X, cols, rows)
  PROVE  SumFunctionOnSet(cols, X) = SumFunctionOnSet(rows, D)
  <1> SUFFICES ASSUME IsFiniteSet(D), IsFiniteSet(X), \A d \in D : \A x \in X : A[d][x] \in Int,
                      \A x \in X : cols[x] = SumFunctionOnSet([d \in D |-> A[d][x]], D),
                      \A d \in D : rows[d] = SumFunctionOnSet(A[d], X)
               PROVE  SumFunctionOnSet(cols, X) = SumFunctionOnSet(rows, D)
    BY DEF Totals
  <1> DEFINE col(T) == [x \in X |-> SumFunctionOnSet([d \in D |-> A[d][x]], T)]
             P == {T \in SUBSET D : SumFunctionOnSet(col(T), X) = SumFunctionOnSet(rows, T)}
  <1>1. ASSUME NEW T \in P, NEW e \in D PROVE T \cup {e} \in P
    <2>1. CASE e \in T
      <3>1. T \cup {e} = T
        BY <2>1
      <3>. QED BY <3>1
    <2>2. CASE e \notin T
      <3>1. IsFiniteSet(T) /\ T \in SUBSET D
        BY FS_Subset
      <3>2. \A d \in D : rows[d] \in Int
        <4> TAKE d \in D
        <4>1. \A x \in X : A[d][x] \in Int
          OBVIOUS
        <4>2. SumFunctionOnSet(A[d], X) \in Int
          BY <4>1, SumOfIntegers
        <4>. QED BY <4>2
      <3>3. SumFunctionOnSet(rows, T \cup {e}) = rows[e] + SumFunctionOnSet(rows, T)
        <4>1. \A d \in T \cup {e} : rows[d] \in Int
          BY <3>1, <3>2
        <4>. QED BY <2>2, <3>1, <4>1, SumWithOne
      <3>4. \A x \in X : col(T)[x] \in Int /\ A[e][x] \in Int /\ col(T \cup {e})[x] = A[e][x] + col(T)[x]
        <4> TAKE x \in X
        <4> DEFINE h == [d \in D |-> A[d][x]]
        <4>1. \A d \in T \cup {e} : h[d] \in Int
          BY <3>1
        <4>2. h[e] = A[e][x] /\ A[e][x] \in Int
          OBVIOUS
        <4>3. col(T)[x] = SumFunctionOnSet(h, T) /\ col(T \cup {e})[x] = SumFunctionOnSet(h, T \cup {e})
          OBVIOUS
        <4> HIDE DEF h
        <4>4. SumFunctionOnSet(h, T \cup {e}) = h[e] + SumFunctionOnSet(h, T)
          BY <2>2, <3>1, <4>1, SumWithOne
        <4>5. SumFunctionOnSet(h, T) \in Int
          BY <3>1, <4>1, SumOfIntegers
        <4> HIDE DEF col
        <4>. QED BY <4>2, <4>3, <4>4, <4>5
      <3>5. SumFunctionOnSet(col(T \cup {e}), X) = SumFunctionOnSet(A[e], X) + SumFunctionOnSet(col(T), X)
        <4> DEFINE c1 == col(T)
                   c2 == col(T \cup {e})
                   r == A[e]
        <4>1. \A x \in X : r[x] \in Int /\ c1[x] \in Int /\ c2[x] = r[x] + c1[x]
          BY <3>4
        <4> HIDE DEF c1, c2, r
        <4>2. SumFunctionOnSet(c2, X) = SumFunctionOnSet(r, X) + SumFunctionOnSet(c1, X)
          BY <4>1, SumOfSums
        <4>. QED BY <4>2 DEF c1, c2, r
      <3>6. SumFunctionOnSet(col(T), X) = SumFunctionOnSet(rows, T) /\ rows[e] = SumFunctionOnSet(A[e], X)
        OBVIOUS
      <3>7. SumFunctionOnSet(col(T \cup {e}), X) = SumFunctionOnSet(rows, T \cup {e})
        <4> HIDE DEF col
        <4>. QED BY <3>3, <3>5, <3>6
      <3>8. T \cup {e} \in SUBSET D
        BY <3>1
      <3>. QED BY <3>7, <3>8
    <2>. QED BY <2>1, <2>2
  <1>2. {} \in P
    <2>1. \A x \in X : col({})[x] = 0
      BY SumOfEmpty
    <2>2. SumFunctionOnSet(col({}), X) = 0
      <3> HIDE DEF col
      <3>. QED BY <2>1, SumOfZeros
    <2>. QED BY <2>2, SumOfEmpty
  <1>3. P \in SUBSET (SUBSET D)
    OBVIOUS
  <1>4. D \in P
    <2> HIDE DEF P
    <2>. QED BY <1>1, <1>2, <1>3, SubsetInduction
  <1>5. \A x \in X : cols[x] = col(D)[x]
    OBVIOUS
  <1>6. SumFunctionOnSet(cols, X) = SumFunctionOnSet(col(D), X)
    <2> HIDE DEF col
    <2>. QED BY <1>5, SumOfSame
  <1>. QED BY <1>4, <1>6

\* The difference of two sums is the sum of the differences.
LEMMA SumOfDifferences ==
  ASSUME NEW S, IsFiniteSet(S), NEW f, NEW g, NEW h,
         \A x \in S : f[x] \in Int /\ g[x] \in Int /\ h[x] = f[x] - g[x]
  PROVE  SumFunctionOnSet(h, S) = SumFunctionOnSet(f, S) - SumFunctionOnSet(g, S)
  <1>1. \A x \in S : h[x] \in Int /\ g[x] \in Int /\ f[x] = h[x] + g[x]
    OBVIOUS
  <1>2. SumFunctionOnSet(f, S) = SumFunctionOnSet(h, S) + SumFunctionOnSet(g, S)
    BY <1>1, SumOfSums
  <1>3. SumFunctionOnSet(h, S) \in Int /\ SumFunctionOnSet(g, S) \in Int
    BY <1>1, SumOfIntegers
  <1>. QED BY <1>2, <1>3

\* cols and rows are what the documents D say of the lines X, at the weight w.
WeighedAll(Q, D, X, w, cols, rows) ==
  /\ IsFiniteSet(D) /\ IsFiniteSet(X) /\ (\A x \in X : w[x] \in Int) /\ (\A d \in D : \A x \in X : Q[d][x] \in Int)
  /\ \A x \in X : cols[x] = w[x] * SumFunctionOnSet([d \in D |-> Q[d][x]], D)
  /\ \A d \in D : rows[d] = SumFunctionOnSet([x \in X |-> w[x] * Q[d][x]], X)

\* Their sums are one.
LEMMA WeighedTable ==
  ASSUME NEW Q, NEW D, NEW X, NEW w, NEW cols, NEW rows, WeighedAll(Q, D, X, w, cols, rows)
  PROVE  SumFunctionOnSet(cols, X) = SumFunctionOnSet(rows, D)
  <1> SUFFICES ASSUME IsFiniteSet(D), IsFiniteSet(X), \A x \in X : w[x] \in Int,
                      \A d \in D : \A x \in X : Q[d][x] \in Int,
                      \A x \in X : cols[x] = w[x] * SumFunctionOnSet([d \in D |-> Q[d][x]], D),
                      \A d \in D : rows[d] = SumFunctionOnSet([x \in X |-> w[x] * Q[d][x]], X)
               PROVE  SumFunctionOnSet(cols, X) = SumFunctionOnSet(rows, D)
    BY DEF WeighedAll
  <1> DEFINE A == [d \in D |-> [x \in X |-> w[x] * Q[d][x]]]
  <1>1. \A d \in D : \A x \in X : A[d][x] \in Int
    OBVIOUS
  <1>2. \A x \in X : cols[x] = SumFunctionOnSet([d \in D |-> A[d][x]], D)
    <2> TAKE x \in X
    <2> DEFINE h == [d \in D |-> A[d][x]]
               q == [d \in D |-> Q[d][x]]
    <2>1. \A d \in D : q[d] \in Int /\ h[d] = w[x] * q[d]
      OBVIOUS
    <2>2. w[x] \in Int
      OBVIOUS
    <2>3. cols[x] = w[x] * SumFunctionOnSet(q, D)
      OBVIOUS
    <2> HIDE DEF h, q, A
    <2>4. SumFunctionOnSet(h, D) = w[x] * SumFunctionOnSet(q, D)
      BY <2>1, <2>2, SumScaled
    <2>. QED BY <2>3, <2>4 DEF h
  <1>3. \A d \in D : rows[d] = SumFunctionOnSet(A[d], X)
    OBVIOUS
  <1> HIDE DEF A
  <1>4. Totals(A, D, X, cols, rows)
    BY <1>1, <1>2, <1>3 DEF Totals
  <1>. QED BY <1>4, SumExchange

\* Two sums are as near as the terms are, a term at a time.
LEMMA SumsNear ==
  ASSUME NEW S, IsFiniteSet(S), NEW c \in Nat, NEW f, NEW g,
         \A x \in S : f[x] \in Int /\ g[x] \in Int /\ -c <= 2 * (f[x] - g[x]) /\ 2 * (f[x] - g[x]) <= c
  PROVE  LET a == SumFunctionOnSet(f, S)  b == SumFunctionOnSet(g, S) IN
         /\ a \in Int /\ b \in Int
         /\ -(c * Cardinality(S)) <= 2 * (a - b) /\ 2 * (a - b) <= c * Cardinality(S)
  <1> DEFINE Q(T) == LET a == SumFunctionOnSet(f, T)  b == SumFunctionOnSet(g, T) IN
                     -(c * Cardinality(T)) <= 2 * (a - b) /\ 2 * (a - b) <= c * Cardinality(T)
             P == {T \in SUBSET S : Q(T)}
  <1>1. {} \in P
    <2>1. SumFunctionOnSet(f, {}) = 0 /\ SumFunctionOnSet(g, {}) = 0 /\ Cardinality({}) = 0
      BY SumOfEmpty, FS_EmptySet
    <2>2. c * 0 = 0
      OBVIOUS
    <2>. QED BY <2>1, <2>2
  <1>2. ASSUME NEW T \in P, NEW x \in S PROVE T \cup {x} \in P
    <2>1. CASE x \in T
      <3>1. T \cup {x} = T
        BY <2>1
      <3>. QED BY <3>1
    <2>2. CASE x \notin T
      <3>1. T \in SUBSET S /\ IsFiniteSet(T) /\ Q(T)
        BY FS_Subset
      <3>2. SumFunctionOnSet(f, T \cup {x}) = f[x] + SumFunctionOnSet(f, T)
        BY <2>2, <3>1, SumWithOne
      <3>3. SumFunctionOnSet(g, T \cup {x}) = g[x] + SumFunctionOnSet(g, T)
        BY <2>2, <3>1, SumWithOne
      <3>4. SumFunctionOnSet(f, T) \in Int /\ SumFunctionOnSet(g, T) \in Int
        BY <3>1, SumOfIntegers
      <3>5. PICK n \in Nat : n = Cardinality(T) /\ Cardinality(T \cup {x}) = n + 1
        BY <2>2, <3>1, FS_CardinalityType, FS_AddElement
      <3>6. PICK k \in Int : k = c * n /\ c * (n + 1) = k + c
        OBVIOUS
      <3>7. PICK a \in Int, b \in Int : a = SumFunctionOnSet(f, T) /\ b = SumFunctionOnSet(g, T)
        BY <3>4
      <3>8. -k <= 2 * (a - b) /\ 2 * (a - b) <= k
        BY <3>1, <3>5, <3>6, <3>7
      <3>9. -(k + c) <= 2 * ((f[x] + a) - (g[x] + b)) /\ 2 * ((f[x] + a) - (g[x] + b)) <= k + c
        BY <3>8
      <3>10. Q(T \cup {x})
        BY <3>2, <3>3, <3>5, <3>6, <3>7, <3>9
      <3>. QED BY <3>1, <3>10
    <2>. QED BY <2>1, <2>2
  <1>3. S \in P
    <2> HIDE DEF P
    <2>. QED BY <1>1, <1>2, SubsetInduction DEF P
  <1>. QED BY <1>3, SumOfIntegers

\* A sum over two sets that share nothing
LEMMA SumOfParts ==
  ASSUME NEW S, IsFiniteSet(S), NEW T, IsFiniteSet(T), S \cap T = {},
         NEW f, \A x \in S \cup T : f[x] \in Int
  PROVE  SumFunctionOnSet(f, S \cup T) = SumFunctionOnSet(f, S) + SumFunctionOnSet(f, T)
  <1> DEFINE P == {U \in SUBSET T : SumFunctionOnSet(f, S \cup U) = SumFunctionOnSet(f, S) + SumFunctionOnSet(f, U)}
  <1>1. ASSUME NEW U \in P, NEW x \in T PROVE U \cup {x} \in P
    <2>1. CASE x \in U
      <3>1. U \cup {x} = U
        BY <2>1
      <3>. QED BY <3>1
    <2>2. CASE x \notin U
      <3>1. /\ IsFiniteSet(S \cup U) /\ IsFiniteSet(U) /\ x \notin S \cup U
            /\ (S \cup U) \cup {x} = S \cup (U \cup {x})
        <4>1. U \in SUBSET T
          OBVIOUS
        <4>2. IsFiniteSet(U)
          BY <4>1, FS_Subset
        <4>3. IsFiniteSet(S \cup U)
          BY <4>2, FS_Union
        <4>4. x \notin S
          OBVIOUS
        <4>5. x \notin S \cup U
          BY <2>2, <4>4
        <4>6. (S \cup U) \cup {x} = S \cup (U \cup {x})
          OBVIOUS
        <4>. QED BY <4>2, <4>3, <4>5, <4>6
      <3>2. SumFunctionOnSet(f, (S \cup U) \cup {x}) = f[x] + SumFunctionOnSet(f, S \cup U)
        BY <3>1, SumWithOne
      <3>3. SumFunctionOnSet(f, U \cup {x}) = f[x] + SumFunctionOnSet(f, U)
        BY <2>2, <3>1, SumWithOne
      <3>4. /\ SumFunctionOnSet(f, U) \in Int /\ SumFunctionOnSet(f, S) \in Int /\ f[x] \in Int
        BY <3>1, SumOfIntegers
      <3> DEFINE a == SumFunctionOnSet(f, S)
                 b == SumFunctionOnSet(f, U)
                 c == SumFunctionOnSet(f, S \cup U)
                 d == SumFunctionOnSet(f, U \cup {x})
                 e == SumFunctionOnSet(f, S \cup (U \cup {x}))
      <3>5. e = f[x] + c /\ d = f[x] + b /\ c = a + b /\ a \in Int /\ b \in Int /\ f[x] \in Int
        BY <3>1, <3>2, <3>3, <3>4
      <3>6. e = a + d
        <4> HIDE DEF a, b, c, d, e
        <4>. QED BY <3>5
      <3>. QED BY <3>6
    <2>. QED BY <2>1, <2>2
  <1>2. T \in P
    <2>1. P \in SUBSET (SUBSET T) /\ {} \in P
      <3>1. S \cup {} = S /\ SumFunctionOnSet(f, {}) = 0 /\ SumFunctionOnSet(f, S) \in Int
        BY SumOfEmpty, SumOfIntegers
      <3>. QED BY <3>1
    <2> HIDE DEF P
    <2>. QED BY <1>1, <2>1, SubsetInduction
  <1>. QED BY <1>2
-----------------------------------------------------------------------------
(***************************************************************************)
(* Rows of tables, which are sequences, and sums over them.                *)
(***************************************************************************)
\* A function on 1 .. n is a sequence.
LEMMA FunctionIsSeq ==
  ASSUME NEW R, NEW n \in Nat, NEW f \in [1 .. n -> R]
  PROVE  f \in Seq(R)
  BY SeqDef

\* Rows are where the length says.
LEMMA RowsOf ==
  ASSUME NEW R, NEW s \in Seq(R)
  PROVE  /\ DOMAIN s = 1 .. Len(s) /\ Len(s) \in Nat
         /\ \A i \in DOMAIN s : s[i] \in R
  <1>1. DOMAIN s = 1 .. Len(s) /\ Len(s) \in Nat
    BY LenProperties
  <1>. QED BY <1>1, ElementOfSeq

\* Rows computed from rows
LEMMA MappedRows ==
  ASSUME NEW R, NEW Q, NEW s \in Seq(R), NEW f \in [DOMAIN s -> Q]
  PROVE  /\ f \in Seq(Q) /\ DOMAIN f = DOMAIN s
         /\ s # <<>> => f # <<>>
  <1>1. DOMAIN s = 1 .. Len(s) /\ Len(s) \in Nat
    BY RowsOf
  <1>2. f \in Seq(Q)
    BY <1>1, FunctionIsSeq
  <1>3. s # <<>> => Len(s) # 0
    BY EmptySeq
  <1>4. DOMAIN f = 1 .. Len(s) /\ (f = <<>> => Len(s) = 0)
    BY <1>1, <1>2, LenProperties, EmptySeq
  <1>. QED BY <1>1, <1>2, <1>3, <1>4

\* A row is added.
LEMMA AppendedRows ==
  ASSUME NEW R, NEW s \in Seq(R), NEW x \in R
  PROVE  /\ Append(s, x) \in Seq(R)
         /\ Len(s) + 1 \in Nat \ {0} /\ Len(s) + 1 \notin DOMAIN s
         /\ DOMAIN Append(s, x) = DOMAIN s \cup {Len(s) + 1}
         /\ \A i \in DOMAIN s : Append(s, x)[i] = s[i]
         /\ Append(s, x)[Len(s) + 1] = x
  <1>1. /\ Append(s, x) \in Seq(R) /\ Len(Append(s, x)) = Len(s) + 1
        /\ \A i \in 1 .. Len(s) : Append(s, x)[i] = s[i]
        /\ Append(s, x)[Len(s) + 1] = x
    BY AppendProperties
  <1>2. DOMAIN s = 1 .. Len(s) /\ Len(s) \in Nat /\ DOMAIN Append(s, x) = 1 .. Len(Append(s, x))
    BY <1>1, RowsOf
  <1>. QED BY <1>1, <1>2

\* A row is written.
LEMMA WrittenRows ==
  ASSUME NEW R, NEW s \in Seq(R), NEW n \in DOMAIN s, NEW x \in R
  PROVE  /\ [s EXCEPT ![n] = x] \in Seq(R)
         /\ DOMAIN [s EXCEPT ![n] = x] = DOMAIN s
         /\ \A i \in DOMAIN s : [s EXCEPT ![n] = x][i] = IF i = n THEN x ELSE s[i]
  <1>1. DOMAIN s = 1 .. Len(s)
    BY RowsOf
  <1>. QED BY <1>1, ExceptSeq

\* A sequence has finitely many places, and they are numbers.
LEMMA LinesOf ==
  ASSUME NEW R, NEW s \in Seq(R)
  PROVE  /\ IsFiniteSet(DOMAIN s) /\ DOMAIN s \subseteq Int
         /\ \A T \in SUBSET DOMAIN s : T # {} => Max(T) \in DOMAIN s /\ s[Max(T)] \in R
  <1>1. DOMAIN s = 1 .. Len(s) /\ Len(s) \in Nat
    BY LenProperties
  <1>2. IsFiniteSet(DOMAIN s) /\ DOMAIN s \subseteq Int
    BY <1>1, FS_Interval
  <1>3. ASSUME NEW T \in SUBSET DOMAIN s, T # {} PROVE Max(T) \in DOMAIN s /\ s[Max(T)] \in R
    <2>1. Max(T) \in DOMAIN s
      BY <1>2, <1>3, MaxIs
    <2>. QED BY <2>1, <1>1, ElementOfSeq
  <1>. QED BY <1>2, <1>3

\* A sum over the rows of a table: of what the function w says of each
Over(w, s) == SumFunctionOnSet([i \in DOMAIN s |-> w[s[i]]], DOMAIN s)

\* The sum is a number,
LEMMA OverType ==
  ASSUME NEW R, NEW s \in Seq(R), NEW w, \A x \in R : w[x] \in Int
  PROVE  Over(w, s) \in Int
  <1> DEFINE f == [i \in DOMAIN s |-> w[s[i]]]
  <1>1. \A i \in DOMAIN s : f[i] \in Int
    BY RowsOf
  <1>2. IsFiniteSet(DOMAIN s)
    BY LinesOf
  <1> HIDE DEF f
  <1>3. SumFunctionOnSet(f, DOMAIN s) \in Int
    BY <1>1, <1>2, SumOfIntegers
  <1>. QED BY <1>3 DEF Over, f

\* it grows with a row that is added,
LEMMA OverAppended ==
  ASSUME NEW R, NEW s \in Seq(R), NEW x \in R, NEW w, \A y \in R : w[y] \in Int
  PROVE  Over(w, Append(s, x)) = Over(w, s) + w[x]
  <1> DEFINE n == Len(s) + 1
             z == Append(s, x)
             f == [i \in DOMAIN s |-> w[s[i]]]
             g == [i \in DOMAIN z |-> w[z[i]]]
  <1>1. n \notin DOMAIN s /\ DOMAIN z = DOMAIN s \cup {n} /\ (\A i \in DOMAIN s : z[i] = s[i]) /\ z[n] = x
    BY AppendedRows
  <1>2. IsFiniteSet(DOMAIN s)
    BY LinesOf
  <1>3. \A i \in DOMAIN s : s[i] \in R
    BY RowsOf
  <1>4. \A i \in DOMAIN s : f[i] \in Int /\ g[i] = f[i]
    BY <1>1, <1>3
  <1>5. g[n] = w[x]
    BY <1>1
  <1>6. g[n] \in Int
    BY <1>5
  <1> HIDE DEF f, g, n, z
  <1>7. SumFunctionOnSet(g, DOMAIN s \cup {n}) = SumFunctionOnSet(f, DOMAIN s) + g[n]
    <2>1. n \notin DOMAIN s
      BY <1>1
    <2>. QED BY <1>2, <1>4, <1>6, <2>1, SumAppended
  <1>8. Over(w, s) = SumFunctionOnSet(f, DOMAIN s)
    BY DEF Over, f
  <1>9. Over(w, z) = SumFunctionOnSet(g, DOMAIN z)
    BY DEF Over, g
  <1>. QED BY <1>1, <1>5, <1>7, <1>8, <1>9 DEF z

\* and changes with a row that is written.
LEMMA OverWritten ==
  ASSUME NEW R, NEW s \in Seq(R), NEW z \in Seq(R), DOMAIN z = DOMAIN s, NEW n \in DOMAIN s,
         \A i \in DOMAIN s : i # n => z[i] = s[i], NEW w, \A y \in R : w[y] \in Int
  PROVE  Over(w, z) = Over(w, s) + w[z[n]] - w[s[n]]
  <1> DEFINE f == [i \in DOMAIN s |-> w[s[i]]]
             g == [i \in DOMAIN z |-> w[z[i]]]
  <1>1. IsFiniteSet(DOMAIN s)
    BY LinesOf
  <1>2. \A i \in DOMAIN s : s[i] \in R /\ z[i] \in R
    BY RowsOf
  <1>3. \A i \in DOMAIN s : f[i] \in Int /\ g[i] \in Int
    BY <1>2
  <1>4. \A i \in DOMAIN s \ {n} : g[i] = f[i]
    OBVIOUS
  <1>5. g[n] = w[z[n]] /\ f[n] = w[s[n]]
    OBVIOUS
  <1> HIDE DEF f, g
  <1>6. SumFunctionOnSet(g, DOMAIN s) = SumFunctionOnSet(f, DOMAIN s) + g[n] - f[n]
    BY <1>1, <1>3, <1>4, SumOfOneChange
  <1>7. Over(w, s) = SumFunctionOnSet(f, DOMAIN s) /\ Over(w, z) = SumFunctionOnSet(g, DOMAIN s)
    BY DEF Over, f, g
  <1>. QED BY <1>5, <1>6, <1>7

\* An empty table has none.
LEMMA OverNone ==
  ASSUME NEW w
  PROVE  Over(w, <<>>) = 0
  <1>1. DOMAIN <<>> = {}
    OBVIOUS
  <1>. QED BY <1>1, SumOfEmpty DEF Over
-----------------------------------------------------------------------------
(***************************************************************************)
(* Sums by groups, and sums whose terms are numbered anew.                 *)
(***************************************************************************)
\* f is grouped by the key k, and h has the totals of the groups.
Grouped(L, k, f, K, h) ==
  /\ IsFiniteSet(L) /\ IsFiniteSet(K) /\ (\A l \in L : k[l] \in K /\ f[l] \in Int)
  /\ \A a \in K : h[a] = SumFunctionOnSet(f, {l \in L : k[l] = a})

\* The groups add up to the whole.
LEMMA SumGrouped ==
  ASSUME NEW L, NEW k, NEW f, NEW K, NEW h, Grouped(L, k, f, K, h)
  PROVE  SumFunctionOnSet(h, K) = SumFunctionOnSet(f, L)
  <1> SUFFICES ASSUME IsFiniteSet(L), IsFiniteSet(K), \A l \in L : k[l] \in K /\ f[l] \in Int,
                      \A a \in K : h[a] = SumFunctionOnSet(f, {l \in L : k[l] = a})
               PROVE  SumFunctionOnSet(h, K) = SumFunctionOnSet(f, L)
    BY DEF Grouped
  <1> DEFINE A == [l \in L |-> [a \in K |-> IF k[l] = a THEN f[l] ELSE 0]]
  <1>1. \A l \in L : \A a \in K : A[l][a] = (IF k[l] = a THEN f[l] ELSE 0)
    OBVIOUS
  <1>2. \A l \in L : \A a \in K : A[l][a] \in Int
    OBVIOUS
  <1>3. ASSUME NEW a \in K
        PROVE  h[a] = SumFunctionOnSet([l \in L |-> A[l][a]], L)
    <2> DEFINE T == {l \in L : k[l] = a}
               g == [l \in L |-> A[l][a]]
    <2>1. /\ T \in SUBSET L /\ IsFiniteSet(T)
          /\ \A l \in L : g[l] \in Int
          /\ \A l \in L \ T : g[l] = 0
          /\ \A l \in T : f[l] = g[l]
      BY <1>2, FS_Subset
    <2>2. h[a] = SumFunctionOnSet(f, T)
      OBVIOUS
    <2>. HIDE DEF T, g
    <2>3. SumFunctionOnSet(g, L) = SumFunctionOnSet(g, T)
      BY <2>1, SumBeyond
    <2>4. SumFunctionOnSet(f, T) = SumFunctionOnSet(g, T)
      BY <2>1, SumOfSame
    <2>. QED
      BY <2>2, <2>3, <2>4 DEF g
  <1>4. ASSUME NEW l \in L
        PROVE  f[l] = SumFunctionOnSet(A[l], K)
    <2> DEFINE g == A[l]
    <2>1. k[l] \in K /\ g[k[l]] = f[l] /\ f[l] \in Int /\ \A a \in K \ {k[l]} : g[a] = 0
      BY <1>1
    <2>. HIDE DEF g
    <2>2. SumFunctionOnSet(g, K) = g[k[l]]
      BY <2>1, SumOfPoint
    <2>. QED
      BY <2>1, <2>2 DEF g
  <1>. HIDE DEF A
  <1>5. Totals(A, L, K, h, f)
    BY <1>2, <1>3, <1>4 DEF Totals
  <1>. QED
    BY <1>5, SumExchange

\* g is f on the places D, which b numbers E with.
Renumbered(D, E, b, f, g) ==
  /\ IsFiniteSet(D) /\ b \in [D -> E] /\ (\A x \in E : \E d \in D : b[d] = x)
  /\ (\A c, d \in D : b[c] = b[d] => c = d)
  /\ \A d \in D : g[d] = f[b[d]] /\ g[d] \in Int

\* Numbering the terms anew does not change their sum.
LEMMA SumRenumbered ==
  ASSUME NEW D, NEW E, NEW b, NEW f, NEW g, Renumbered(D, E, b, f, g)
  PROVE  IsFiniteSet(E) /\ SumFunctionOnSet(g, D) = SumFunctionOnSet(f, E)
  <1> SUFFICES ASSUME IsFiniteSet(D), b \in [D -> E], \A x \in E : \E d \in D : b[d] = x,
                      \A c, d \in D : b[c] = b[d] => c = d,
                      \A d \in D : g[d] = f[b[d]] /\ g[d] \in Int
               PROVE  IsFiniteSet(E) /\ SumFunctionOnSet(g, D) = SumFunctionOnSet(f, E)
    BY DEF Renumbered
  <1>1. b \in Surjection(D, E)
    BY DEF Surjection
  <1>2. IsFiniteSet(E)
    BY <1>1, FS_Surjection
  <1>3. ASSUME NEW x \in E
        PROVE  f[x] = SumFunctionOnSet(g, {d \in D : b[d] = x})
    <2>1. PICK d \in D : b[d] = x
      OBVIOUS
    <2> DEFINE T == {c \in D : b[c] = x}
    <2>2. IsFiniteSet(T) /\ d \in T /\ g[d] \in Int /\ g[d] = f[x] /\ \A c \in T \ {d} : g[c] = 0
      BY <2>1, FS_Subset
    <2>. HIDE DEF T
    <2>3. SumFunctionOnSet(g, T) = g[d]
      BY <2>2, SumOfPoint
    <2>. QED
      BY <2>2, <2>3 DEF T
  <1>4. Grouped(D, b, g, E, f)
    BY <1>2, <1>3 DEF Grouped
  <1>. QED
    BY <1>2, <1>4, SumGrouped
=============================================================================
