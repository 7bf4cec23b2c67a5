----------------------------- MODULE FiniteSums -----------------------------
(***************************************************************************)
(* Sums over finite sets: the facts that the book-keeping proofs use about *)
(* SumFunctionOnSet.  Induction is the search for a least counterexample.  *)
(***************************************************************************)
EXTENDS Functions, FiniteSetTheorems, TLAPS

\* A set of natural numbers that is not empty has a least element.
LEMMA LeastNatural ==
    ASSUME NEW T \in SUBSET Nat, T # {}
    PROVE  \E m \in T : \A k \in T : m <= k
  <1> DEFINE R == OpToRel(<, Nat)
  <1>1. \A k, m \in Nat : k < m => <<k, m>> \in R
    BY DEF OpToRel
  <1>2. IsWellFoundedOn(R, Nat)
    BY NatLessThanWellFounded
  <1> HIDE DEF R
  <1>3. PICK m \in T : \A k \in T : ~ (<<k, m>> \in R)
    BY <1>2, WFMin
  <1>4. ASSUME NEW k \in T PROVE m <= k
    <2>1. ~ (k < m)
      BY <1>1, <1>3
    <2> QED
      BY <2>1
  <1> QED
    BY <1>4

\* If some subset of a finite set is bad, there is one whose proper subsets are
\* all good.
LEMMA MinimalSubset ==
    ASSUME NEW S, IsFiniteSet(S), NEW Bad \in SUBSET SUBSET S, Bad # {}
    PROVE  \E m \in Bad : \A s \in SUBSET m : s # m => s \notin Bad
  <1> DEFINE R == StrictSubsetOrdering(S)
  <1>1. \A s, m \in SUBSET S : s \subseteq m /\ s # m => <<s, m>> \in R
    BY DEF StrictSubsetOrdering
  <1>2. IsWellFoundedOn(R, FiniteSubsetsOf(S))
    BY FS_StrictSubsetOrderingWellFounded
  <1>3. Bad \subseteq FiniteSubsetsOf(S)
    BY FS_Subset DEF FiniteSubsetsOf
  <1> HIDE DEF R
  <1>4. PICK m \in Bad : \A s \in Bad : ~ (<<s, m>> \in R)
    BY <1>2, <1>3, WFMin
  <1>5. ASSUME NEW s \in SUBSET m, s # m PROVE s \notin Bad
    BY <1>1, <1>4, <1>5
  <1> QED
    BY <1>5

\* The element that a fold takes from a set next.
Pick(s) == CHOOSE x \in s : TRUE

\* The recursion of SumFunctionOnSet at one set.
SumStep(f, g, s) == IF s = {} THEN 0 ELSE f[Pick(s)] + g[s \ {Pick(s)}]

\* A set that is not empty loses one element.
LEMMA PickSmaller ==
    ASSUME NEW s, IsFiniteSet(s), s # {}
    PROVE  /\ Pick(s) \in s
           /\ IsFiniteSet(s \ {Pick(s)})
           /\ Cardinality(s) \in Nat
           /\ Cardinality(s \ {Pick(s)}) = Cardinality(s) - 1
  <1>1. Pick(s) \in s
    BY DEF Pick
  <1> QED
    BY <1>1, FS_RemoveElement, FS_CardinalityType

\* The recursion has a solution on the subsets of a finite set.
LEMMA SumExists ==
    ASSUME NEW f, NEW S, IsFiniteSet(S)
    PROVE  \E g : g = [s \in SUBSET S |-> SumStep(f, g, s)]
  <1> DEFINE Solves(g, n) ==
               \A s \in SUBSET S : Cardinality(s) <= n => g[s] = SumStep(f, g, s)
             T == {n \in Nat : ~ \E g : Solves(g, n)}
  <1>0. \A s \in SUBSET S : IsFiniteSet(s) /\ Cardinality(s) \in Nat /\ Cardinality(s) <= Cardinality(S)
    BY FS_Subset, FS_CardinalityType
  <1>1. T = {}
    <2> SUFFICES ASSUME T # {} PROVE FALSE
      OBVIOUS
    <2>1. PICK m \in T : \A k \in T : m <= k
      <3> HIDE DEF T
      <3>1. T \in SUBSET Nat
        BY DEF T
      <3> QED
        BY <3>1, LeastNatural
    <2>2. CASE m = 0
      <3> DEFINE g == [s \in SUBSET S |-> 0]
      <3>1. \A s \in SUBSET S : Cardinality(s) <= 0 => s = {}
        BY <1>0, FS_EmptySet
      <3>2. Solves(g, 0)
        BY <3>1 DEF SumStep
      <3> HIDE DEF g
      <3> QED
        BY <3>2, <2>1, <2>2
    <2>3. CASE m # 0
      <3>1. m - 1 \in Nat /\ m - 1 \notin T
        BY <2>1, <2>3
      <3>2. PICK g : Solves(g, m - 1)
        BY <3>1
      <3> DEFINE h == [s \in SUBSET S |-> SumStep(f, g, s)]
      <3>3. ASSUME NEW s \in SUBSET S, Cardinality(s) <= m
            PROVE  h[s] = SumStep(f, h, s)
        <4>1. CASE s = {}
          BY <4>1 DEF SumStep
        <4>2. CASE s # {}
          <5> DEFINE r == s \ {Pick(s)}
          <5>1. r \in SUBSET S /\ Cardinality(r) <= m - 1
            BY <1>0, <3>3, <4>2, PickSmaller
          <5>2. h[r] = g[r]
            BY <5>1, <3>2
          <5> QED
            BY <4>2, <5>2 DEF SumStep
        <4> QED
          BY <4>1, <4>2
      <3>4. Solves(h, m)
        BY <3>3
      <3> HIDE DEF h
      <3> QED
        BY <3>4, <2>1
    <2> QED
      BY <2>2, <2>3
  <1>2. PICK g : Solves(g, Cardinality(S))
    BY <1>1, FS_CardinalityType
  <1> DEFINE h == [s \in SUBSET S |-> g[s]]
  <1>3. ASSUME NEW s \in SUBSET S
        PROVE  g[s] = SumStep(f, h, s)
    <2>1. g[s] = SumStep(f, g, s)
      BY <1>0, <1>2
    <2>2. s # {} => s \ {Pick(s)} \in SUBSET S
      OBVIOUS
    <2> QED
      BY <2>1, <2>2 DEF SumStep
  <1>4. h = [s \in SUBSET S |-> SumStep(f, h, s)]
    BY <1>3
  <1> HIDE DEF h
  <1> QED
    BY <1>4

\* The sum is computed by its recursion.
LEMMA SumUnfolds ==
    ASSUME NEW f, NEW S, IsFiniteSet(S)
    PROVE  \E g : /\ g = [s \in SUBSET S |-> SumStep(f, g, s)]
                  /\ SumFunctionOnSet(f, S) = g[S]
  <1> DEFINE G == CHOOSE g : g = [s \in SUBSET S |-> SumStep(f, g, s)]
  <1>1. G = [s \in SUBSET S |-> SumStep(f, G, s)]
    BY SumExists
  <1>2. SumFunctionOnSet(f, S) = G[S]
    BY DEF SumFunctionOnSet, FoldFunctionOnSet, MapThenFoldSet, SumStep, Pick
  <1> HIDE DEF G
  <1> QED
    BY <1>1, <1>2

\* The sum takes one element after the other: what is left is a sum again,
\* although its recursion runs over the subsets of a smaller set.
LEMMA SumRecursion ==
    ASSUME NEW f, NEW S, IsFiniteSet(S), S # {}
    PROVE  SumFunctionOnSet(f, S) = f[Pick(S)] + SumFunctionOnSet(f, S \ {Pick(S)})
  <1> DEFINE R == S \ {Pick(S)}
  <1>1. PICK g : g = [s \in SUBSET S |-> SumStep(f, g, s)] /\ SumFunctionOnSet(f, S) = g[S]
    BY SumUnfolds
  <1>2. IsFiniteSet(R) /\ R \in SUBSET S
    BY PickSmaller
  <1>3. PICK h : h = [s \in SUBSET R |-> SumStep(f, h, s)] /\ SumFunctionOnSet(f, R) = h[R]
    BY <1>2, SumUnfolds
  <1> DEFINE Bad == {s \in SUBSET R : g[s] # h[s]}
  <1>4. Bad = {}
    <2> SUFFICES ASSUME Bad # {} PROVE FALSE
      OBVIOUS
    <2>1. PICK m \in Bad : \A s \in SUBSET m : s # m => s \notin Bad
      <3> HIDE DEF Bad
      <3>1. Bad \in SUBSET SUBSET R
        BY DEF Bad
      <3> QED
        BY <1>2, <3>1, MinimalSubset
    <2>2. m \in SUBSET S /\ g[m] = SumStep(f, g, m) /\ h[m] = SumStep(f, h, m)
      BY <1>1, <1>2, <1>3
    <2>3. m # {}
      BY <2>1, <2>2 DEF SumStep
    <2>4. Pick(m) \in m
      BY <2>3 DEF Pick
    <2>5. g[m \ {Pick(m)}] = h[m \ {Pick(m)}]
      BY <2>1, <2>4
    <2> QED
      BY <2>1, <2>2, <2>3, <2>5 DEF SumStep
  <1>5. g[R] = h[R]
    BY <1>4
  <1>6. g[S] = f[Pick(S)] + g[R]
    BY <1>1 DEF SumStep
  <1> QED
    BY <1>1, <1>3, <1>5, <1>6

\* The sum over no elements.
LEMMA SumEmpty ==
    ASSUME NEW f
    PROVE  SumFunctionOnSet(f, {}) = 0
  <1>1. PICK g : g = [s \in SUBSET {} |-> SumStep(f, g, s)] /\ SumFunctionOnSet(f, {}) = g[{}]
    BY SumUnfolds, FS_EmptySet
  <1>2. g[{}] = SumStep(f, g, {})
    BY <1>1
  <1> QED
    BY <1>1, <1>2 DEF SumStep

\* A sum of natural numbers is a natural number.
LEMMA SumType ==
    ASSUME NEW f, NEW S, IsFiniteSet(S), \A x \in S : f[x] \in Nat
    PROVE  SumFunctionOnSet(f, S) \in Nat
  <1> DEFINE Bad == {s \in SUBSET S : SumFunctionOnSet(f, s) \notin Nat}
  <1>1. Bad = {}
    <2> SUFFICES ASSUME Bad # {} PROVE FALSE
      OBVIOUS
    <2>1. PICK m \in Bad : \A s \in SUBSET m : s # m => s \notin Bad
      <3> HIDE DEF Bad
      <3>1. Bad \in SUBSET SUBSET S
        BY DEF Bad
      <3> QED
        BY <3>1, MinimalSubset
    <2>2. IsFiniteSet(m) /\ m \in SUBSET S
      BY FS_Subset
    <2>3. m # {}
      <3>1. SumFunctionOnSet(f, {}) \in Nat
        BY SumEmpty
      <3> QED
        BY <2>1, <3>1
    <2>4. Pick(m) \in m
      BY <2>2, <2>3, PickSmaller
    <2>5. SumFunctionOnSet(f, m \ {Pick(m)}) \in Nat
      BY <2>1, <2>2, <2>4
    <2> QED
      BY <2>1, <2>2, <2>3, <2>4, <2>5, SumRecursion
  <1> QED
    BY <1>1

\* Any element can be taken out of a sum first.
LEMMA SumRemove ==
    ASSUME NEW f, NEW S, IsFiniteSet(S), \A x \in S : f[x] \in Nat, NEW x \in S
    PROVE  SumFunctionOnSet(f, S) = f[x] + SumFunctionOnSet(f, S \ {x})
  <1> DEFINE Sum(s) == SumFunctionOnSet(f, s)
             Bad == {s \in SUBSET S : \E y \in s : Sum(s) # f[y] + Sum(s \ {y})}
  <1>1. Bad = {}
    <2> SUFFICES ASSUME Bad # {} PROVE FALSE
      OBVIOUS
    <2>1. PICK m \in Bad : \A s \in SUBSET m : s # m => s \notin Bad
      <3> HIDE DEF Bad
      <3>1. Bad \in SUBSET SUBSET S
        BY DEF Bad
      <3> QED
        BY <3>1, MinimalSubset
    <2>2. IsFiniteSet(m) /\ m \in SUBSET S
      BY FS_Subset
    <2>3. PICK y \in m : Sum(m) # f[y] + Sum(m \ {y})
      BY <2>1
    <2> DEFINE z == Pick(m)
    <2>4. z \in m /\ Sum(m) = f[z] + Sum(m \ {z})
      BY <2>2, <2>3, PickSmaller, SumRecursion
    <2>5. z # y
      BY <2>3, <2>4
    <2> HIDE DEF z, Sum
    <2>6. Sum(m \ {z}) = f[y] + Sum((m \ {z}) \ {y})
      BY <2>1, <2>2, <2>3, <2>4, <2>5
    <2>7. Sum(m \ {y}) = f[z] + Sum((m \ {y}) \ {z})
      BY <2>1, <2>2, <2>3, <2>4, <2>5
    <2>8. (m \ {z}) \ {y} = (m \ {y}) \ {z}
      OBVIOUS
    <2>9. Sum((m \ {z}) \ {y}) \in Nat
      <3>1. IsFiniteSet((m \ {z}) \ {y})
        BY <2>2, FS_Subset
      <3> QED
        BY <2>2, <3>1, SumType DEF Sum
    <2>10. f[y] \in Nat /\ f[z] \in Nat
      BY <2>2, <2>3, <2>4
    <2> QED
      BY <2>3, <2>4, <2>6, <2>7, <2>8, <2>9, <2>10
  <1>2. S \notin Bad
    BY <1>1
  <1> QED
    BY <1>2

\* A new element adds its value.
LEMMA SumAdd ==
    ASSUME NEW f, NEW S, IsFiniteSet(S), NEW x, x \notin S,
           \A y \in S \cup {x} : f[y] \in Nat
    PROVE  SumFunctionOnSet(f, S \cup {x}) = f[x] + SumFunctionOnSet(f, S)
  <1>1. IsFiniteSet(S \cup {x})
    BY FS_AddElement
  <1>2. (S \cup {x}) \ {x} = S
    OBVIOUS
  <1> QED
    BY <1>1, <1>2, SumRemove

\* Sums depend on the values summed only.
LEMMA SumSame ==
    ASSUME NEW f, NEW g, NEW S, IsFiniteSet(S), \A x \in S : f[x] = g[x]
    PROVE  SumFunctionOnSet(f, S) = SumFunctionOnSet(g, S)
  <1> DEFINE Bad == {s \in SUBSET S : SumFunctionOnSet(f, s) # SumFunctionOnSet(g, s)}
  <1>1. Bad = {}
    <2> SUFFICES ASSUME Bad # {} PROVE FALSE
      OBVIOUS
    <2>1. PICK m \in Bad : \A s \in SUBSET m : s # m => s \notin Bad
      <3> HIDE DEF Bad
      <3>1. Bad \in SUBSET SUBSET S
        BY DEF Bad
      <3> QED
        BY <3>1, MinimalSubset
    <2>2. IsFiniteSet(m) /\ m \in SUBSET S
      BY FS_Subset
    <2>3. m # {}
      BY <2>1, SumEmpty
    <2>4. Pick(m) \in m
      BY <2>2, <2>3, PickSmaller
    <2>5. SumFunctionOnSet(f, m \ {Pick(m)}) = SumFunctionOnSet(g, m \ {Pick(m)})
      BY <2>1, <2>2, <2>4
    <2> QED
      BY <2>1, <2>2, <2>3, <2>4, <2>5, SumRecursion
  <1> QED
    BY <1>1

\* Changing one value changes the sum by as much.
LEMMA SumChange ==
    ASSUME NEW f, NEW g, NEW S, IsFiniteSet(S), NEW x \in S, f[x] \in Nat, g[x] \in Nat,
           \A y \in S \ {x} : f[y] \in Nat /\ f[y] = g[y]
    PROVE  SumFunctionOnSet(g, S) = SumFunctionOnSet(f, S) - f[x] + g[x]
  <1>1. IsFiniteSet(S \ {x})
    BY FS_RemoveElement
  <1>2. SumFunctionOnSet(f, S \ {x}) = SumFunctionOnSet(g, S \ {x})
    BY <1>1, SumSame
  <1>3. SumFunctionOnSet(f, S \ {x}) \in Nat
    BY <1>1, SumType
  <1>4. /\ SumFunctionOnSet(f, S) = f[x] + SumFunctionOnSet(f, S \ {x})
        /\ SumFunctionOnSet(g, S) = g[x] + SumFunctionOnSet(g, S \ {x})
    BY SumRemove
  <1> QED
    BY <1>2, <1>3, <1>4

\* A part of a sum is no larger than the whole.
LEMMA SumPart ==
    ASSUME NEW f, NEW S, IsFiniteSet(S), \A x \in S : f[x] \in Nat, NEW P \in SUBSET S
    PROVE  SumFunctionOnSet(f, P) <= SumFunctionOnSet(f, S)
  <1> DEFINE Sum(s) == SumFunctionOnSet(f, s)
             Bad == {s \in SUBSET S : \E p \in SUBSET s : ~ (Sum(p) <= Sum(s))}
  <1>0. \A s \in SUBSET S : IsFiniteSet(s) /\ Sum(s) \in Nat
    <2> SUFFICES ASSUME NEW s \in SUBSET S PROVE IsFiniteSet(s) /\ Sum(s) \in Nat
      OBVIOUS
    <2>1. IsFiniteSet(s)
      BY FS_Subset
    <2> QED
      BY <2>1, SumType
  <1>1. Bad = {}
    <2> SUFFICES ASSUME Bad # {} PROVE FALSE
      OBVIOUS
    <2>1. PICK m \in Bad : \A s \in SUBSET m : s # m => s \notin Bad
      <3> HIDE DEF Bad
      <3>1. Bad \in SUBSET SUBSET S
        BY DEF Bad
      <3> QED
        BY <3>1, MinimalSubset
    <2>2. PICK p \in SUBSET m : ~ (Sum(p) <= Sum(m))
      BY <2>1
    <2>3. m \in SUBSET S /\ IsFiniteSet(m) /\ p \in SUBSET S
      BY <1>0, <2>1, <2>2
    <2>4. p # m
      BY <1>0, <2>2, <2>3
    <2>5. PICK x \in m : x \notin p
      BY <2>4
    <2>6. Sum(m) = f[x] + Sum(m \ {x})
      BY <2>3, SumRemove
    <2> HIDE DEF Sum
    <2>7. Sum(p) <= Sum(m \ {x})
      BY <2>1, <2>3, <2>5
    <2>8. f[x] \in Nat /\ Sum(p) \in Nat /\ Sum(m \ {x}) \in Nat
      BY <1>0, <2>3
    <2> QED
      BY <2>2, <2>6, <2>7, <2>8
  <1>2. S \notin Bad
    BY <1>1
  <1> QED
    BY <1>2

\* Moving the values of a sum up by one place does not change it.
LEMMA SumShift ==
    ASSUME NEW f, NEW g, NEW n \in Nat, \A i \in 1 .. n : f[i] \in Nat /\ g[i + 1] = f[i]
    PROVE  SumFunctionOnSet(g, 2 .. n + 1) = SumFunctionOnSet(f, 1 .. n)
  <1> DEFINE T == {m \in Nat : m <= n /\ SumFunctionOnSet(g, 2 .. m + 1) # SumFunctionOnSet(f, 1 .. m)}
  <1>1. T = {}
    <2> SUFFICES ASSUME T # {} PROVE FALSE
      OBVIOUS
    <2>1. PICK m \in T : \A k \in T : m <= k
      <3> HIDE DEF T
      <3>1. T \in SUBSET Nat
        BY DEF T
      <3> QED
        BY <3>1, LeastNatural
    <2>2. m \in Nat /\ m <= n /\ SumFunctionOnSet(g, 2 .. m + 1) # SumFunctionOnSet(f, 1 .. m)
      BY <2>1
    <2>3. CASE m = 0
      <3>1. 2 .. m + 1 = {} /\ 1 .. m = {}
        BY <2>3
      <3> QED
        BY <2>2, <3>1, SumEmpty
    <2>4. CASE m > 0
      <3> DEFINE k == m - 1
                 A == 1 .. k
                 B == 2 .. m
      <3>1. k \in Nat /\ k <= n /\ k \notin T /\ B = 2 .. k + 1
        BY <2>1, <2>2, <2>4
      <3>2. SumFunctionOnSet(g, B) = SumFunctionOnSet(f, A)
        BY <3>1
      <3>3. /\ 1 .. m = A \cup {m} /\ m \notin A
            /\ 2 .. m + 1 = B \cup {m + 1} /\ m + 1 \notin B
        BY <2>2, <2>4
      <3>4. IsFiniteSet(A) /\ IsFiniteSet(B)
        BY <2>2, <3>1, FS_Interval
      <3>5. (\A i \in A \cup {m} : f[i] \in Nat) /\ g[m + 1] = f[m]
        BY <2>2, <2>4
      <3>6. \A i \in B \cup {m + 1} : g[i] \in Nat
        <4> SUFFICES ASSUME NEW i \in B \cup {m + 1} PROVE g[i] \in Nat
          OBVIOUS
        <4>1. i - 1 \in 1 .. n /\ (i - 1) + 1 = i
          BY <2>2, <2>4
        <4> QED
          BY <4>1
      <3> HIDE DEF k, A, B
      <3>7. /\ SumFunctionOnSet(f, A \cup {m}) = f[m] + SumFunctionOnSet(f, A)
            /\ SumFunctionOnSet(g, B \cup {m + 1}) = g[m + 1] + SumFunctionOnSet(g, B)
        BY <3>3, <3>4, <3>5, <3>6, SumAdd
      <3> QED
        BY <2>2, <3>2, <3>3, <3>5, <3>7
    <2> QED
      BY <2>2, <2>3, <2>4
  <1>2. n \notin T
    BY <1>1
  <1> QED
    BY <1>2

\* A value put in front of a sequence of values is added to their sum.
LEMMA SumInFront ==
    ASSUME NEW f, NEW g, NEW n \in Nat, DOMAIN f = 1 .. n, DOMAIN g = 1 .. n + 1, g[1] \in Nat,
           \A i \in 1 .. n : f[i] \in Nat /\ g[i + 1] = f[i]
    PROVE  SumFunction(g) = g[1] + SumFunction(f)
  <1> DEFINE B == 2 .. n + 1
  <1>1. 1 .. n + 1 = B \cup {1} /\ 1 \notin B
    OBVIOUS
  <1>2. IsFiniteSet(B)
    BY FS_Interval
  <1>3. \A i \in B \cup {1} : g[i] \in Nat
    <2> SUFFICES ASSUME NEW i \in B PROVE g[i] \in Nat
      OBVIOUS
    <2>1. i - 1 \in 1 .. n /\ (i - 1) + 1 = i
      OBVIOUS
    <2> QED
      BY <2>1
  <1>4. SumFunctionOnSet(g, B) = SumFunctionOnSet(f, 1 .. n)
    BY SumShift
  <1> HIDE DEF B
  <1>5. SumFunctionOnSet(g, B \cup {1}) = g[1] + SumFunctionOnSet(g, B)
    BY <1>1, <1>2, <1>3, SumAdd
  <1> QED
    BY <1>1, <1>4, <1>5 DEF SumFunction
=============================================================================
