------------------------------ MODULE SumLemmas ------------------------------
(***************************************************************************)
(* Sums over finite sets, as the contracts and services keep them: a total *)
(* beside a map of stakes, of investments or of transfers.                 *)
(*                                                                         *)
(* MapThenSumSet folds in the order in which CHOOSE picks the elements.    *)
(* That the order does not matter is proved here by induction over the     *)
(* subsets of a finite set, with the induction predicate given as a set    *)
(* (SubsetInduction): the provers cannot instantiate an operator.          *)
(***************************************************************************)
EXTENDS Integers, FiniteSetsExt, FiniteSetTheorems, WellFoundedInduction, TLAPS

\* The element the fold takes next.
Pick(s) == CHOOSE x \in s : TRUE

\* What the terms f[i] add up to.
Total(f, S) == MapThenSumSet(LAMBDA i : f[i], S)

\* g adds up f over the subsets of S in D.
Adds(f, D, g) ==
    g = [s \in D |-> IF s = {} THEN 0 ELSE f[Pick(s)] + g[s \ {Pick(s)}]]

\* Total is MapThenSumSet.
LEMMA TotalDef ==
  ASSUME NEW f, NEW S
  PROVE  Total(f, S) = (CHOOSE g : Adds(f, SUBSET S, g))[S]
BY DEF Total, MapThenSumSet, MapThenFoldSet, Adds, Pick

\* A set of naturals that is not empty has a least element.
LEMMA LeastNat ==
  ASSUME NEW T, T \subseteq Nat, T # {}
  PROVE  \E n \in T : \A k \in T : n <= k
<1>1. PICK n \in T : \A k \in T : ~(<<k, n>> \in OpToRel(<, Nat))
  BY WFMin, NatLessThanWellFounded
<1>2. \A k \in T : ~(k < n)
  BY <1>1 DEF OpToRel
<1> QED BY <1>2

\* A set is in P when every subset of it is whose proper subsets all are.
LEMMA SubsetInduction ==
  ASSUME NEW S, IsFiniteSet(S), NEW P,
         \A s \in SUBSET S : (\A t \in SUBSET s : t # s => t \in P) => s \in P
  PROVE  S \in P
<1> SUFFICES ASSUME S \notin P PROVE FALSE
  OBVIOUS
<1> DEFINE B == {s \in SUBSET S : s \notin P}
           C == {Cardinality(s) : s \in B}
<1>1. \A s \in SUBSET S : IsFiniteSet(s) /\ Cardinality(s) \in Nat
  BY FS_Subset, FS_CardinalityType
<1>2. C \subseteq Nat /\ C # {}
  BY <1>1
<1>3. PICK n \in C : \A k \in C : n <= k
  BY <1>2, LeastNat
<1>4. PICK s \in B : Cardinality(s) = n
  OBVIOUS
<1>5. ASSUME NEW t \in SUBSET s, t # s PROVE t \in P
  <2>1. Cardinality(t) < Cardinality(s)
    BY <1>1, <1>5, FS_Subset
  <2>2. n \in Nat /\ Cardinality(t) \in Nat /\ Cardinality(t) < n
    BY <1>1, <1>2, <1>4, <2>1
  <2>3. ~(n <= Cardinality(t))
    BY <2>2
  <2>4. Cardinality(t) \notin C
    <3> HIDE DEF C
    <3> QED BY <1>3, <2>3
  <2> QED BY <2>4
<1> QED BY <1>4, <1>5

\* The subsets of S of at most n elements.
UpTo(S, n) == {s \in SUBSET S : Cardinality(s) <= n}

\* The fold over a finite set is defined: its equation has a solution.
LEMMA AddsExists ==
  ASSUME NEW f, NEW S, IsFiniteSet(S)
  PROVE  \E g : Adds(f, SUBSET S, g)
<1>1. \A s \in SUBSET S : IsFiniteSet(s) /\ Cardinality(s) \in Nat
  BY FS_Subset, FS_CardinalityType
<1>2. ASSUME NEW s \in SUBSET S, s # {}
      PROVE  /\ Pick(s) \in s /\ s \ {Pick(s)} \in SUBSET S
             /\ Cardinality(s \ {Pick(s)}) = Cardinality(s) - 1
             /\ Cardinality(s) \in Nat \ {0}
  <2>1. Pick(s) \in s
    BY <1>2 DEF Pick
  <2>2. Cardinality(s \ {Pick(s)}) = Cardinality(s) - 1
    BY <1>1, <2>1, FS_RemoveElement
  <2>3. Cardinality(s) # 0
    BY <1>1, <1>2, FS_EmptySet
  <2> QED BY <1>1, <2>1, <2>2, <2>3
<1> DEFINE Good == {n \in Nat : \E g : Adds(f, UpTo(S, n), g)}
           Bad  == Nat \ Good
<1>3. 0 \in Good
  <2> DEFINE g == [s \in UpTo(S, 0) |-> 0]
  <2>1. \A s \in UpTo(S, 0) : s = {}
    BY <1>1, FS_EmptySet DEF UpTo
  <2>2. Adds(f, UpTo(S, 0), g)
    BY <2>1 DEF Adds
  <2> QED BY <2>2
<1>4. ASSUME NEW n \in Good PROVE n + 1 \in Good
  <2>1. PICK g : Adds(f, UpTo(S, n), g)
    OBVIOUS
  <2> DEFINE h == [s \in UpTo(S, n + 1) |->
                     IF s = {} THEN 0 ELSE f[Pick(s)] + g[s \ {Pick(s)}]]
  <2>2. ASSUME NEW t \in UpTo(S, n) PROVE t \in UpTo(S, n + 1) /\ h[t] = g[t]
    <3>1. t \in UpTo(S, n + 1)
      BY <1>1 DEF UpTo
    <3>2. g[t] = IF t = {} THEN 0 ELSE f[Pick(t)] + g[t \ {Pick(t)}]
      BY <2>1 DEF Adds
    <3> QED BY <3>1, <3>2
  <2>3. ASSUME NEW s \in UpTo(S, n + 1), s # {} PROVE s \ {Pick(s)} \in UpTo(S, n)
    BY <1>2, <2>3 DEF UpTo
  <2>4. \A s \in UpTo(S, n + 1) :
           h[s] = IF s = {} THEN 0 ELSE f[Pick(s)] + h[s \ {Pick(s)}]
    BY <2>2, <2>3
  <2>5. Adds(f, UpTo(S, n + 1), h)
    BY <2>4 DEF Adds
  <2> QED BY <2>5
<1>5. Good = Nat
  <2> SUFFICES ASSUME Bad # {} PROVE FALSE
    OBVIOUS
  <2>1. PICK n \in Bad : \A k \in Bad : n <= k
    BY LeastNat
  <2>2. n # 0 /\ n \in Nat
    BY <1>3
  <2>3. n - 1 \in Nat /\ ~(n <= n - 1) /\ (n - 1) + 1 = n
    BY <2>2
  <2>4. n - 1 \in Good
    <3> HIDE DEF Good
    <3> QED BY <2>1, <2>3
  <2> QED BY <1>4, <2>3, <2>4
<1>6. PICK g : Adds(f, UpTo(S, Cardinality(S)), g)
  BY <1>1, <1>5
<1>7. UpTo(S, Cardinality(S)) = SUBSET S
  BY FS_Subset DEF UpTo
<1> QED BY <1>6, <1>7

\* Two such functions agree where both are defined.
LEMMA AddsAgree ==
  ASSUME NEW f, NEW S, IsFiniteSet(S), NEW T \in SUBSET S, NEW g, NEW h,
         Adds(f, SUBSET S, g), Adds(f, SUBSET T, h)
  PROVE  g[T] = h[T]
<1> DEFINE P == {s \in SUBSET T : g[s] = h[s]}
<1>1. IsFiniteSet(T)
  BY FS_Subset
<1>2. ASSUME NEW s \in SUBSET T, \A t \in SUBSET s : t # s => t \in P PROVE s \in P
  <2>1. /\ g[s] = IF s = {} THEN 0 ELSE f[Pick(s)] + g[s \ {Pick(s)}]
        /\ h[s] = IF s = {} THEN 0 ELSE f[Pick(s)] + h[s \ {Pick(s)}]
    BY DEF Adds
  <2>2. CASE s = {}
    BY <2>1, <2>2
  <2>3. CASE s # {}
    <3>1. Pick(s) \in s
      BY <2>3 DEF Pick
    <3>2. s \ {Pick(s)} \in P
      BY <1>2, <3>1
    <3> QED BY <2>1, <2>3, <3>2
  <2> QED BY <2>2, <2>3
<1>3. T \in P
  <2> HIDE DEF P
  <2> QED BY <1>1, <1>2, SubsetInduction
<1> QED BY <1>3

\* The recursion of Total.
LEMMA TotalRec ==
  ASSUME NEW f, NEW S, IsFiniteSet(S)
  PROVE  Total(f, S) = IF S = {} THEN 0 ELSE f[Pick(S)] + Total(f, S \ {Pick(S)})
<1> DEFINE g == CHOOSE g : Adds(f, SUBSET S, g)
           R == S \ {Pick(S)}
           h == CHOOSE h : Adds(f, SUBSET R, h)
<1>1. Adds(f, SUBSET S, g)
  BY AddsExists
<1>2. IsFiniteSet(R)
  BY FS_Subset
<1>3. Adds(f, SUBSET R, h)
  <2> HIDE DEF R
  <2> QED BY <1>2, AddsExists
<1>4. Total(f, S) = g[S] /\ Total(f, R) = h[R]
  BY TotalDef
<1>5. g[R] = h[R]
  <2>1. R \in SUBSET S
    OBVIOUS
  <2> HIDE DEF g, h, R
  <2> QED BY <1>1, <1>3, <2>1, AddsAgree
<1> HIDE DEF g, h
<1>6. g[S] = IF S = {} THEN 0 ELSE f[Pick(S)] + g[R]
  BY <1>1 DEF Adds
<1> QED BY <1>4, <1>5, <1>6

-----------------------------------------------------------------------------
(* What the rest of the project needs of sums. *)

\* A sum over nothing is 0.
LEMMA TotalEmpty == ASSUME NEW f PROVE Total(f, {}) = 0
BY TotalRec, FS_EmptySet

\* Sums of integers are integers.
LEMMA TotalInt ==
  ASSUME NEW S, IsFiniteSet(S), NEW f, \A i \in S : f[i] \in Int
  PROVE  Total(f, S) \in Int
<1> DEFINE P == {s \in SUBSET S : Total(f, s) \in Int}
<1>1. ASSUME NEW s \in SUBSET S, \A t \in SUBSET s : t # s => t \in P PROVE s \in P
  <2>1. IsFiniteSet(s)
    BY FS_Subset
  <2>2. CASE s = {}
    BY <2>2, TotalEmpty
  <2>3. CASE s # {}
    <3>1. Pick(s) \in s
      BY <2>3 DEF Pick
    <3>2. Total(f, s \ {Pick(s)}) \in Int
      BY <1>1, <3>1
    <3>3. Total(f, s) = f[Pick(s)] + Total(f, s \ {Pick(s)})
      BY <2>1, <2>3, TotalRec
    <3> QED BY <3>1, <3>2, <3>3
  <2> QED BY <2>2, <2>3
<1>2. S \in P
  <2> HIDE DEF P
  <2> QED BY <1>1, SubsetInduction
<1> QED BY <1>2

\* Any element can be taken out first.
LEMMA TotalRemove ==
  ASSUME NEW S, IsFiniteSet(S), NEW f, \A i \in S : f[i] \in Int, NEW x \in S
  PROVE  Total(f, S) = f[x] + Total(f, S \ {x})
<1> DEFINE P == {s \in SUBSET S : \A y \in s : Total(f, s) = f[y] + Total(f, s \ {y})}
<1>1. ASSUME NEW s \in SUBSET S, \A t \in SUBSET s : t # s => t \in P PROVE s \in P
  <2> SUFFICES ASSUME NEW y \in s PROVE Total(f, s) = f[y] + Total(f, s \ {y})
    OBVIOUS
  <2> DEFINE p == Pick(s)
             a == Total(f, s \ {p})
             b == Total(f, s \ {y})
             c == Total(f, (s \ {p}) \ {y})
  <2>1. IsFiniteSet(s) /\ p \in s
    BY FS_Subset DEF Pick
  <2>2. Total(f, s) = f[p] + a
    BY <2>1, TotalRec
  <2>3. CASE y = p
    BY <2>2, <2>3
  <2>4. CASE y # p
    <3>1. s \ {p} \in P /\ s \ {y} \in P
      BY <1>1, <2>1
    <3>2. a = f[y] + c
      BY <2>4, <3>1
    <3>3. (s \ {y}) \ {p} = (s \ {p}) \ {y} /\ p \in s \ {y}
      BY <2>1, <2>4
    <3>4. b = f[p] + c
      BY <3>1, <3>3
    <3>5. IsFiniteSet((s \ {p}) \ {y})
      BY <2>1, FS_Subset
    <3>6. c \in Int /\ f[p] \in Int /\ f[y] \in Int
      BY <2>1, <3>5, TotalInt
    <3> HIDE DEF a, b, c, p
    <3> QED BY <2>2, <3>2, <3>4, <3>6 DEF b
  <2> QED BY <2>3, <2>4
<1>2. S \in P
  <2> HIDE DEF P
  <2> QED BY <1>1, SubsetInduction
<1> QED BY <1>2

\* A new element adds its term.
LEMMA TotalAdd ==
  ASSUME NEW S, IsFiniteSet(S), NEW f, NEW x, x \notin S,
         \A i \in S \cup {x} : f[i] \in Int
  PROVE  Total(f, S \cup {x}) = Total(f, S) + f[x]
<1>1. IsFiniteSet(S \cup {x})
  BY FS_AddElement
<1>2. Total(f, S \cup {x}) = f[x] + Total(f, (S \cup {x}) \ {x})
  BY <1>1, TotalRemove
<1>3. (S \cup {x}) \ {x} = S
  OBVIOUS
<1> DEFINE a == Total(f, S)
<1>4. a \in Int /\ f[x] \in Int
  BY TotalInt
<1>5. Total(f, S \cup {x}) = f[x] + a
  BY <1>2, <1>3
<1>6. f[x] + a = a + f[x]
  <2> HIDE DEF a
  <2> QED BY <1>4
<1> QED BY <1>5, <1>6

\* Sums are monotonic in their terms.
LEMMA TotalMono ==
  ASSUME NEW S, IsFiniteSet(S), NEW f, NEW g,
         \A i \in S : f[i] \in Int /\ g[i] \in Int /\ f[i] <= g[i]
  PROVE  Total(f, S) <= Total(g, S)
<1> DEFINE P == {s \in SUBSET S : Total(f, s) <= Total(g, s)}
<1>1. ASSUME NEW s \in SUBSET S, \A t \in SUBSET s : t # s => t \in P PROVE s \in P
  <2>1. IsFiniteSet(s)
    BY FS_Subset
  <2>2. CASE s = {}
    BY <2>2, TotalEmpty
  <2>3. CASE s # {}
    <3> DEFINE p == Pick(s)
               a == Total(f, s \ {p})
               b == Total(g, s \ {p})
    <3>1. p \in s
      BY <2>3 DEF Pick
    <3>2. a <= b
      BY <1>1, <3>1
    <3>3. Total(f, s) = f[p] + a /\ Total(g, s) = g[p] + b
      BY <2>1, <2>3, TotalRec
    <3>4. IsFiniteSet(s \ {p})
      BY <2>1, FS_Subset
    <3>5. a \in Int /\ b \in Int /\ f[p] \in Int /\ g[p] \in Int /\ f[p] <= g[p]
      BY <3>1, <3>4, TotalInt
    <3>6. f[p] + a <= g[p] + b
      <4> HIDE DEF a, b, p
      <4> QED BY <3>2, <3>5
    <3> QED BY <3>3, <3>6
  <2> QED BY <2>2, <2>3
<1>2. S \in P
  <2> HIDE DEF P
  <2> QED BY <1>1, SubsetInduction
<1> QED BY <1>2

\* A sum depends only on its terms.
LEMMA TotalSame ==
  ASSUME NEW S, IsFiniteSet(S), NEW f, NEW g, \A i \in S : f[i] \in Int /\ f[i] = g[i]
  PROVE  Total(f, S) = Total(g, S)
<1>1. Total(f, S) <= Total(g, S) /\ Total(g, S) <= Total(f, S)
  BY TotalMono
<1>2. Total(f, S) \in Int /\ Total(g, S) \in Int
  BY TotalInt
<1> QED BY <1>1, <1>2

\* The sum of sums.
LEMMA TotalPlus ==
  ASSUME NEW S, IsFiniteSet(S), NEW f, NEW g, NEW h,
         \A i \in S : f[i] \in Int /\ g[i] \in Int /\ h[i] = f[i] + g[i]
  PROVE  Total(h, S) = Total(f, S) + Total(g, S)
<1> DEFINE P == {s \in SUBSET S : Total(h, s) = Total(f, s) + Total(g, s)}
<1>1. ASSUME NEW s \in SUBSET S, \A t \in SUBSET s : t # s => t \in P PROVE s \in P
  <2>1. IsFiniteSet(s)
    BY FS_Subset
  <2>2. CASE s = {}
    BY <2>2, TotalEmpty
  <2>3. CASE s # {}
    <3> DEFINE p == Pick(s)
               a == Total(f, s \ {p})
               b == Total(g, s \ {p})
               c == Total(h, s \ {p})
    <3>1. p \in s
      BY <2>3 DEF Pick
    <3>2. c = a + b
      BY <1>1, <3>1
    <3>3. Total(f, s) = f[p] + a /\ Total(g, s) = g[p] + b /\ Total(h, s) = h[p] + c
      BY <2>1, <2>3, TotalRec
    <3>4. IsFiniteSet(s \ {p})
      BY <2>1, FS_Subset
    <3>5. a \in Int /\ b \in Int /\ f[p] \in Int /\ g[p] \in Int /\ h[p] = f[p] + g[p]
      BY <3>1, <3>4, TotalInt
    <3>6. h[p] + c = (f[p] + a) + (g[p] + b)
      <4> HIDE DEF a, b, c, p
      <4> QED BY <3>2, <3>5
    <3> QED BY <3>3, <3>6
  <2> QED BY <2>2, <2>3
<1>2. S \in P
  <2> HIDE DEF P
  <2> QED BY <1>1, SubsetInduction
<1> QED BY <1>2

\* A common factor.
LEMMA TotalScale ==
  ASSUME NEW S, IsFiniteSet(S), NEW c \in Int, NEW f, NEW g,
         \A i \in S : f[i] \in Int /\ g[i] = c * f[i]
  PROVE  Total(g, S) = c * Total(f, S)
<1> DEFINE P == {s \in SUBSET S : Total(g, s) = c * Total(f, s)}
<1>1. ASSUME NEW s \in SUBSET S, \A t \in SUBSET s : t # s => t \in P PROVE s \in P
  <2>1. IsFiniteSet(s)
    BY FS_Subset
  <2>2. CASE s = {}
    BY <2>2, TotalEmpty
  <2>3. CASE s # {}
    <3> DEFINE p == Pick(s)
               a == Total(f, s \ {p})
               b == Total(g, s \ {p})
    <3>1. p \in s
      BY <2>3 DEF Pick
    <3>2. b = c * a
      BY <1>1, <3>1
    <3>3. Total(f, s) = f[p] + a /\ Total(g, s) = g[p] + b
      BY <2>1, <2>3, TotalRec
    <3>4. IsFiniteSet(s \ {p})
      BY <2>1, FS_Subset
    <3>5. a \in Int /\ f[p] \in Int /\ g[p] = c * f[p]
      BY <3>1, <3>4, TotalInt
    <3>6. g[p] + b = c * (f[p] + a)
      <4> HIDE DEF a, b, p
      <4>1. ASSUME NEW x \in Int, NEW y \in Int PROVE c * x + c * y = c * (x + y)
        OBVIOUS
      <4> QED BY <3>2, <3>5, <4>1
    <3> QED BY <3>3, <3>6
  <2> QED BY <2>2, <2>3
<1>2. S \in P
  <2> HIDE DEF P
  <2> QED BY <1>1, SubsetInduction
<1> QED BY <1>2

\* Changing one term.
LEMMA TotalExcept ==
  ASSUME NEW S, IsFiniteSet(S), NEW x \in S, NEW f, NEW g,
         \A i \in S : f[i] \in Int /\ g[i] \in Int /\ (i # x => g[i] = f[i])
  PROVE  Total(g, S) = Total(f, S) - f[x] + g[x]
<1>1. Total(f, S) = f[x] + Total(f, S \ {x}) /\ Total(g, S) = g[x] + Total(g, S \ {x})
  BY TotalRemove
<1>2. IsFiniteSet(S \ {x})
  BY FS_Subset
<1>3. Total(f, S \ {x}) = Total(g, S \ {x}) /\ Total(f, S \ {x}) \in Int
  BY <1>2, TotalSame, TotalInt
<1>4. f[x] \in Int /\ g[x] \in Int
  OBVIOUS
<1> QED BY <1>1, <1>3, <1>4

\* A sum of zeros.
LEMMA TotalZero ==
  ASSUME NEW S, IsFiniteSet(S), NEW f, \A i \in S : f[i] = 0
  PROVE  Total(f, S) = 0
<1> DEFINE a == Total(f, S)
<1>1. a = a + a
  BY TotalPlus
<1>2. a \in Int
  BY TotalInt
<1>3. a = 0
  <2> HIDE DEF a
  <2> QED BY <1>1, <1>2
<1> QED BY <1>3

\* A sum of naturals is one, and no term exceeds it.
LEMMA TotalNat ==
  ASSUME NEW S, IsFiniteSet(S), NEW f, \A i \in S : f[i] \in Nat
  PROVE  Total(f, S) \in Nat /\ \A i \in S : f[i] <= Total(f, S)
<1>1. ASSUME NEW T \in SUBSET S PROVE Total(f, T) \in Nat
  <2> DEFINE z == [i \in S |-> 0]
  <2>1. IsFiniteSet(T)
    BY FS_Subset
  <2>2. Total(z, T) = 0
    BY <2>1, TotalZero
  <2>3. Total(z, T) <= Total(f, T)
    BY <2>1, TotalMono
  <2>4. Total(f, T) \in Int
    BY <2>1, TotalInt
  <2> QED BY <2>2, <2>3, <2>4
<1>2. ASSUME NEW i \in S PROVE f[i] <= Total(f, S)
  <2>1. Total(f, S) = f[i] + Total(f, S \ {i})
    BY TotalRemove
  <2>2. Total(f, S \ {i}) \in Nat
    BY <1>1
  <2> QED BY <2>1, <2>2
<1> QED BY <1>1, <1>2

\* A sum over a subset is no larger.
LEMMA TotalSubset ==
  ASSUME NEW S, IsFiniteSet(S), NEW f, \A i \in S : f[i] \in Nat, NEW T \in SUBSET S
  PROVE  Total(f, T) <= Total(f, S)
<1> DEFINE P == {s \in SUBSET S : T \subseteq s => Total(f, T) <= Total(f, s)}
<1>1. ASSUME NEW s \in SUBSET S, \A t \in SUBSET s : t # s => t \in P PROVE s \in P
  <2> SUFFICES ASSUME T \subseteq s PROVE Total(f, T) <= Total(f, s)
    OBVIOUS
  <2>1. IsFiniteSet(s) /\ IsFiniteSet(T)
    BY FS_Subset
  <2>2. Total(f, T) \in Nat
    BY <2>1, TotalNat
  <2>3. CASE T = s
    BY <2>2, <2>3
  <2>4. CASE T # s
    <3>1. PICK x \in s : x \notin T
      BY <2>4
    <3>2. Total(f, s) = f[x] + Total(f, s \ {x})
      BY <2>1, TotalRemove
    <3>3. Total(f, T) <= Total(f, s \ {x})
      BY <1>1, <3>1
    <3>4. IsFiniteSet(s \ {x})
      BY <2>1, FS_Subset
    <3>5. Total(f, s \ {x}) \in Nat /\ f[x] \in Nat
      BY <3>4, TotalNat
    <3> QED BY <2>2, <3>2, <3>3, <3>5
  <2> QED BY <2>3, <2>4
<1>2. S \in P
  <2> HIDE DEF P
  <2> QED BY <1>1, SubsetInduction
<1> QED BY <1>2

\* A sum in two parts.
LEMMA TotalUnion ==
  ASSUME NEW S, IsFiniteSet(S), NEW f, \A i \in S : f[i] \in Int,
         NEW A \in SUBSET S, NEW B \in SUBSET S, A \cap B = {}
  PROVE  Total(f, A \cup B) = Total(f, A) + Total(f, B)
<1> DEFINE P == {s \in SUBSET B : Total(f, A \cup s) = Total(f, A) + Total(f, s)}
<1>1. IsFiniteSet(A) /\ IsFiniteSet(B)
  BY FS_Subset
<1>2. Total(f, A) \in Int
  BY <1>1, TotalInt
<1>3. ASSUME NEW s \in SUBSET B, \A t \in SUBSET s : t # s => t \in P PROVE s \in P
  <2>1. IsFiniteSet(s)
    BY <1>1, FS_Subset
  <2>2. CASE s = {}
    <3> DEFINE a == Total(f, A)
    <3>1. A \cup s = A /\ Total(f, s) = 0
      BY <2>2, TotalEmpty
    <3>2. Total(f, A \cup s) = a
      BY <3>1
    <3>3. a = a + 0
      <4> HIDE DEF a
      <4> QED BY <1>2 DEF a
    <3> QED BY <3>1, <3>2, <3>3
  <2>3. CASE s # {}
    <3>1. PICK x : x \in s
      BY <2>3
    <3> DEFINE r == s \ {x}
               c == Total(f, r)
               a == Total(f, A)
    <3>2. r \in P
      BY <1>3, <3>1
    <3>3. Total(f, A \cup r) = a + c
      BY <3>2
    <3>4. Total(f, s) = f[x] + c
      BY <2>1, <3>1, TotalRemove
    <3>5. Total(f, A \cup s) = Total(f, A \cup r) + f[x]
      <4>1. A \cup s = (A \cup r) \cup {x} /\ x \notin A \cup r
        BY <3>1
      <4>2. IsFiniteSet(A \cup r)
        BY FS_Subset
      <4>3. \A i \in (A \cup r) \cup {x} : f[i] \in Int
        BY <3>1
      <4>4. PICK T : T = A \cup r
        OBVIOUS
      <4>5. Total(f, T \cup {x}) = Total(f, T) + f[x]
        <5>1. IsFiniteSet(T) /\ x \notin T /\ \A i \in T \cup {x} : f[i] \in Int
          BY <4>1, <4>2, <4>3, <4>4
        <5> QED BY <5>1, TotalAdd
      <4>6. T \cup {x} = A \cup s
        BY <4>1, <4>4
      <4> QED BY <4>4, <4>5, <4>6
    <3>6. c \in Int /\ f[x] \in Int
      <4>1. IsFiniteSet(r)
        BY <2>1, FS_Subset
      <4> QED BY <3>1, <4>1, TotalInt
    <3>7. Total(f, A \cup s) = a + Total(f, s)
      <4> HIDE DEF c, a, r
      <4>1. a \in Int
        BY <1>2 DEF a
      <4> QED BY <3>3, <3>4, <3>5, <3>6, <4>1
    <3> QED BY <3>7
  <2> QED BY <2>2, <2>3
<1>4. B \in P
  <2> HIDE DEF P
  <2> QED BY <1>1, <1>3, SubsetInduction
<1> QED BY <1>4

\* Adding 1 for every element of A counts them.
LEMMA TotalCount ==
  ASSUME NEW S, IsFiniteSet(S), NEW A, NEW f,
         \A i \in S : f[i] = IF i \in A THEN 1 ELSE 0
  PROVE  Total(f, S) = Cardinality(A \cap S)
<1> DEFINE P == {s \in SUBSET S : Total(f, s) = Cardinality(A \cap s)}
<1>1. ASSUME NEW s \in SUBSET S, \A t \in SUBSET s : t # s => t \in P PROVE s \in P
  <2>1. IsFiniteSet(s) /\ IsFiniteSet(A \cap s) /\ Cardinality(A \cap s) \in Nat
    BY FS_Subset, FS_CardinalityType
  <2>2. CASE s = {}
    <3>1. A \cap s = {}
      BY <2>2
    <3> QED BY <2>2, <3>1, TotalEmpty, FS_EmptySet
  <2>3. CASE s # {}
    <3> DEFINE p == Pick(s)
    <3>1. p \in s
      BY <2>3 DEF Pick
    <3>2. Total(f, s) = f[p] + Total(f, s \ {p})
      BY <2>1, <2>3, TotalRec
    <3>3. Total(f, s \ {p}) = Cardinality(A \cap (s \ {p}))
      BY <1>1, <3>1
    <3> HIDE DEF p
    <3>4. CASE p \in A
      <4>1. A \cap (s \ {p}) = (A \cap s) \ {p}
        OBVIOUS
      <4>2. Cardinality(A \cap (s \ {p})) = Cardinality(A \cap s) - 1
        BY <2>1, <3>1, <3>4, <4>1, FS_RemoveElement
      <4>3. f[p] = 1
        BY <3>1, <3>4
      <4> QED BY <2>1, <3>2, <3>3, <4>2, <4>3
    <3>5. CASE p \notin A
      <4>1. A \cap (s \ {p}) = A \cap s
        BY <3>5
      <4>2. f[p] = 0
        BY <3>1, <3>5
      <4> QED BY <2>1, <3>2, <3>3, <4>1, <4>2
    <3> QED BY <3>4, <3>5
  <2> QED BY <2>2, <2>3
<1>2. S \in P
  <2> HIDE DEF P
  <2> QED BY <1>1, SubsetInduction
<1> QED BY <1>2

\* The sum that Functions.tla writes as a fold over the domain.
LEMMA FoldTotal ==
  ASSUME NEW f PROVE FoldFunction(+, 0, f) = Total(f, DOMAIN f)
BY DEF FoldFunction, FoldFunctionOnSet, Total, MapThenSumSet

-----------------------------------------------------------------------------
(* Counting off the elements of a set of numbers in their order.           *)

\* A finite set of naturals that is not empty has a greatest element.
LEMMA GreatestNat ==
  ASSUME NEW N \in Nat, NEW A, A \subseteq 1..N, A # {}
  PROVE  \E m \in A : \A k \in A : k <= m
<1> DEFINE T == {N - i : i \in A}
<1>1. T \subseteq Nat /\ T # {}
  <2>1. ASSUME NEW i \in A PROVE N - i \in Nat
    <3>1. i \in 1..N
      OBVIOUS
    <3> QED BY <3>1
  <2> QED BY <2>1
<1>2. PICK n \in T : \A k \in T : n <= k
  BY <1>1, LeastNat
<1>3. PICK m \in A : n = N - m
  OBVIOUS
<1>4. ASSUME NEW k \in A PROVE k <= m
  <2>1. N - k \in T
    OBVIOUS
  <2>2. N - m <= N - k
    BY <1>2, <1>3, <2>1
  <2>3. k \in Int /\ m \in Int
    OBVIOUS
  <2> QED BY <2>2, <2>3
<1> QED BY <1>4

\* The elements of A with fewer than r others before them.
FirstOf(A, r) == {i \in A : Cardinality({j \in A : j < i}) < r}

\* There are r of them, as long as A has so many.
LEMMA FirstCount ==
  ASSUME NEW N \in Nat, NEW A, A \subseteq 1..N, IsFiniteSet(A)
  PROVE  \A r \in 0..Cardinality(A) : Cardinality(FirstOf(A, r)) = r
<1> DEFINE P == {s \in SUBSET A :
                   \A r \in 0..Cardinality(s) : Cardinality(FirstOf(s, r)) = r}
<1>1. ASSUME NEW s \in SUBSET A, \A t \in SUBSET s : t # s => t \in P PROVE s \in P
  <2>1. IsFiniteSet(s) /\ Cardinality(s) \in Nat
    BY FS_Subset, FS_CardinalityType
  <2> SUFFICES ASSUME NEW r \in 0..Cardinality(s) PROVE Cardinality(FirstOf(s, r)) = r
    OBVIOUS
  <2>2. CASE s = {}
    <3>1. Cardinality(s) = 0 /\ FirstOf(s, r) = s
      BY <2>2, FS_EmptySet DEF FirstOf
    <3> QED BY <3>1
  <2>3. CASE s # {}
    <3>1. PICK m \in s : \A k \in s : k <= m
      BY <2>3, GreatestNat
    <3> DEFINE t == s \ {m}
    <3>2. IsFiniteSet(t) /\ Cardinality(t) = Cardinality(s) - 1 /\ t \in P
      BY <1>1, <2>1, FS_RemoveElement
    <3>3. ASSUME NEW i \in t PROVE {j \in s : j < i} = {j \in t : j < i}
      BY <3>1
    <3>4. {j \in s : j < m} = t
      <4>1. ASSUME NEW j \in s PROVE j < m <=> j # m
        <5>1. j \in Int /\ m \in Int /\ j <= m
          BY <3>1
        <5> QED BY <5>1
      <4> QED BY <4>1
    <3>5. CASE r = Cardinality(s)
      <4>1. ASSUME NEW i \in s PROVE Cardinality({j \in s : j < i}) < r
        <5> DEFINE before == {j \in s : j < i}
        <5>1. before \in SUBSET s /\ i \notin before
          <6>1. i \in Int
            OBVIOUS
          <6> QED BY <6>1
        <5>2. before # s
          BY <5>1
        <5> HIDE DEF before
        <5>3. Cardinality(before) < Cardinality(s)
          <6>1. Cardinality(before) <= Cardinality(s) /\ IsFiniteSet(before)
                  /\ (Cardinality(before) = Cardinality(s) => before = s)
            BY <2>1, <5>1, FS_Subset
          <6>2. Cardinality(before) \in Nat
            BY <6>1, FS_CardinalityType
          <6> QED BY <2>1, <5>2, <6>1, <6>2
        <5> QED BY <3>5, <5>3 DEF before
      <4>2. FirstOf(s, r) = s
        BY <4>1 DEF FirstOf
      <4> QED BY <3>5, <4>2
    <3>6. CASE r # Cardinality(s)
      <4>1. r \in 0..Cardinality(t) /\ ~(Cardinality(t) < r)
        BY <2>1, <3>2, <3>6
      <4>2. m \notin FirstOf(s, r)
        BY <3>4, <4>1 DEF FirstOf
      <4>3. FirstOf(s, r) = FirstOf(t, r)
        BY <3>3, <4>2 DEF FirstOf
      <4> HIDE DEF t
      <4> QED BY <3>2, <4>1, <4>3
    <3> QED BY <3>5, <3>6
  <2> QED BY <2>2, <2>3
<1>2. A \in P
  <2> HIDE DEF P
  <2> QED BY <1>1, SubsetInduction
<1> QED BY <1>2
=============================================================================
