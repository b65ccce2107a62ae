-------------------------- MODULE CollectionTheorems --------------------------
(* The collections the other proofs reckon with.                               *)
(* Sums: SumFunctionOnSet of the community module Functions adds up f over a   *)
(* finite set, picking the elements in an order CHOOSE decides.  These lemmas  *)
(* show that the order is immaterial, and how a sum changes with its set and   *)
(* its summands.  Arrays: what push, a batch of pushes and removeStorage do to *)
(* an array without repetitions.  Each induction is on a size, as the choice   *)
(* of a smallest counterexample.                                               *)
EXTENDS ArrayUtils, FiniteSets, FiniteSetTheorems, WellFoundedInduction, TLAPS

Pick(S) == CHOOSE x \in S : TRUE

\* g adds up f over every set of the family F, one picked element at a time,
AddsUpOn(g, f, F) ==
    g = [s \in F |-> IF s = {} THEN 0 ELSE f[Pick(s)] + g[s \ {Pick(s)}]]

\* ... in particular over S and all its subsets.
AddsUp(g, f, S) == AddsUpOn(g, f, SUBSET S)

\* A non-empty set of natural numbers has a least element.
LEMMA LeastNumber ==
    ASSUME NEW N \in SUBSET Nat, N # {}
    PROVE  \E n \in N : \A m \in N : n <= m
<1> DEFINE Less == {p \in Nat \X Nat : p[1] < p[2]}
<1>1. Less = OpToRel(<, Nat)
  BY Zenon DEF OpToRel
<1>2. IsWellFoundedOn(Less, Nat)
  BY <1>1, NatLessThanWellFounded, Zenon
<1>3. \A m, n \in Nat : m < n => <<m, n>> \in Less
  OBVIOUS
<1> HIDE DEF Less
<1>4. PICK n \in N : \A m \in N : <<m, n>> \notin Less
  BY <1>2, WFMin
<1>5. \A m \in N : n <= m
  <2>1. n \in Nat /\ \A m \in N : m \in Nat
    OBVIOUS
  <2>2. \A m \in N : ~(m < n)
    BY <2>1, <1>3, <1>4
  <2> QED BY <2>1, <2>2
<1> QED
  BY <1>5

\* A non-empty family of finite sets has a member none of whose proper subsets
\* is in the family.
LEMMA SmallestSet ==
    ASSUME NEW F, F # {}, \A s \in F : IsFiniteSet(s)
    PROVE  \E s \in F : \A x \in s : s \ {x} \notin F
<1> DEFINE N == {Cardinality(s) : s \in F}
<1>1. N \in SUBSET Nat /\ N # {}
  BY FS_CardinalityType
<1>2. PICK n \in N : \A m \in N : n <= m
  BY <1>1, LeastNumber
<1>3. PICK s \in F : n = Cardinality(s)
  OBVIOUS
<1>4. ASSUME NEW x \in s, s \ {x} \in F  PROVE FALSE
  <2>1. Cardinality(s \ {x}) = Cardinality(s) - 1
    BY FS_RemoveElement
  <2>2. Cardinality(s) \in Nat
    BY FS_CardinalityType
  <2>3. Cardinality(s \ {x}) \in N
    BY <1>4
  <2>4. n <= Cardinality(s \ {x})
    BY <2>3, <1>2
  <2> QED
    BY <2>1, <2>2, <2>4, <1>3
<1> QED
  BY <1>4

\* The recursion that defines the sum has a solution over a finite set.
LEMMA SumExists ==
    ASSUME NEW f, NEW S, IsFiniteSet(S)
    PROVE  \E g : AddsUp(g, f, S)
<1> DEFINE Upto(n) == {s \in SUBSET S : Cardinality(s) <= n}
           Bad == {n \in Nat : ~ \E g : AddsUpOn(g, f, Upto(n))}
<1>1. \A s \in SUBSET S : IsFiniteSet(s) /\ Cardinality(s) \in Nat
  BY FS_Subset, FS_CardinalityType
<1>2. \A s \in SUBSET S : s # {} =>
        /\ Pick(s) \in s
        /\ s \ {Pick(s)} \in SUBSET S
        /\ Cardinality(s \ {Pick(s)}) = Cardinality(s) - 1
  BY <1>1, FS_RemoveElement DEF Pick
<1>3. Bad = {}
  <2> SUFFICES ASSUME Bad # {} PROVE FALSE
    OBVIOUS
  <2>1. PICK n \in Bad : \A m \in Bad : n <= m
    <3>1. Bad \in SUBSET Nat
      OBVIOUS
    <3> QED BY <3>1, LeastNumber
  <2>2. CASE n = 0
    <3> DEFINE g == [s \in Upto(0) |-> 0]
    <3>1. \A s \in Upto(0) : s = {}
      BY <1>1, FS_EmptySet
    <3>2. AddsUpOn(g, f, Upto(0))
      BY <3>1 DEF AddsUpOn
    <3> QED BY <2>2, <3>2
  <2>3. CASE n # 0
    <3>1. n - 1 \in Nat /\ n \in Nat
      BY <2>3
    <3>2. PICK g : AddsUpOn(g, f, Upto(n - 1))
      <4>1. n - 1 \notin Bad
        <5> HIDE DEF Bad
        <5> QED BY <3>1, <2>1
      <4> QED BY <4>1, <3>1
    <3> DEFINE h == [s \in Upto(n) |->
                       IF s = {} THEN 0 ELSE f[Pick(s)] + g[s \ {Pick(s)}]]
    <3>3. \A s \in Upto(n) : s # {} => s \ {Pick(s)} \in Upto(n - 1)
      BY <1>1, <1>2, <3>1
    <3>4. \A s \in Upto(n - 1) : s \in Upto(n) /\ h[s] = g[s]
      <4>1. SUFFICES ASSUME NEW s \in Upto(n - 1)
                     PROVE  s \in Upto(n) /\ h[s] = g[s]
        OBVIOUS
      <4>2. s \in Upto(n)
        BY <1>1, <3>1
      <4>3. g[s] = IF s = {} THEN 0 ELSE f[Pick(s)] + g[s \ {Pick(s)}]
        BY <3>2 DEF AddsUpOn
      <4> QED BY <4>2, <4>3
    <3>5. \A s \in Upto(n) : s # {} => h[s \ {Pick(s)}] = g[s \ {Pick(s)}]
      BY <3>3, <3>4
    <3>6. AddsUpOn(h, f, Upto(n))
      BY <3>5 DEF AddsUpOn
    <3> QED BY <3>6, <3>1
  <2> QED BY <2>2, <2>3
<1>4. Cardinality(S) \in Nat /\ Upto(Cardinality(S)) = SUBSET S
  BY FS_Subset, FS_CardinalityType
<1> QED
  BY <1>3, <1>4 DEF AddsUp

\* Two solutions agree wherever both are defined.
LEMMA SumUnique ==
    ASSUME NEW f, NEW S, NEW g, AddsUp(g, f, S),
           NEW T \in SUBSET S, NEW h, AddsUp(h, f, T), IsFiniteSet(T)
    PROVE  g[T] = h[T]
<1> DEFINE Bad == {s \in SUBSET T : g[s] # h[s]}
<1> SUFFICES ASSUME Bad # {} PROVE FALSE
  OBVIOUS
<1>1. \A s \in Bad : IsFiniteSet(s)
  BY FS_Subset
<1>2. PICK s \in Bad : \A x \in s : s \ {x} \notin Bad
  BY <1>1, SmallestSet
<1>3. /\ g[s] = IF s = {} THEN 0 ELSE f[Pick(s)] + g[s \ {Pick(s)}]
      /\ h[s] = IF s = {} THEN 0 ELSE f[Pick(s)] + h[s \ {Pick(s)}]
  BY DEF AddsUp, AddsUpOn
<1>4. s # {}
  BY <1>3
<1>5. Pick(s) \in s /\ s \ {Pick(s)} \in SUBSET T
  BY <1>4 DEF Pick
<1> QED
  BY <1>2, <1>3, <1>4, <1>5

\* A sum is that recursion's value at the set.
LEMMA SumSolves ==
    ASSUME NEW f, NEW S, IsFiniteSet(S)
    PROVE  \E g : AddsUp(g, f, S) /\ SumFunctionOnSet(f, S) = g[S]
<1> DEFINE iter == CHOOSE g : AddsUp(g, f, S)
<1>1. AddsUp(iter, f, S)
  BY SumExists
<1>2. SumFunctionOnSet(f, S) = iter[S]
  BY DEF SumFunctionOnSet, FoldFunctionOnSet, MapThenFoldSet, AddsUp, AddsUpOn, Pick
<1> QED
  BY <1>1, <1>2

LEMMA SumEmpty ==
    ASSUME NEW f
    PROVE  SumFunctionOnSet(f, {}) = 0
<1>1. PICK g : AddsUp(g, f, {}) /\ SumFunctionOnSet(f, {}) = g[{}]
  BY SumSolves, FS_EmptySet
<1> QED
  BY <1>1 DEF AddsUp, AddsUpOn

\* The element CHOOSE picks can be split off ...
LEMMA SumPicks ==
    ASSUME NEW f, NEW S, IsFiniteSet(S), S # {}
    PROVE  /\ Pick(S) \in S
           /\ SumFunctionOnSet(f, S) =
                f[Pick(S)] + SumFunctionOnSet(f, S \ {Pick(S)})
<1> DEFINE rest == S \ {Pick(S)}
<1>1. Pick(S) \in S
  BY DEF Pick
<1>2. IsFiniteSet(rest) /\ rest \subseteq S
  BY FS_RemoveElement
<1> HIDE DEF rest
<1>3. PICK g : AddsUp(g, f, S) /\ SumFunctionOnSet(f, S) = g[S]
  BY SumSolves
<1>4. PICK h : AddsUp(h, f, rest) /\ SumFunctionOnSet(f, rest) = h[rest]
  BY <1>2, SumSolves
<1>5. g[rest] = h[rest]
  <2>1. AddsUp(g, f, S)
    BY <1>3
  <2>2. AddsUp(h, f, rest)
    BY <1>4
  <2>3. IsFiniteSet(rest)
    BY <1>2
  <2>4. rest \in SUBSET S
    BY <1>2
  <2> QED BY ONLY <2>1, <2>2, <2>3, <2>4, SumUnique
<1>6. g[S] = f[Pick(S)] + g[rest]
  BY <1>3 DEF AddsUp, AddsUpOn, rest
<1> QED
  BY <1>1, <1>3, <1>4, <1>5, <1>6 DEF rest

\* A sum of natural numbers is a natural number.
LEMMA SumType ==
    ASSUME NEW f, NEW S, IsFiniteSet(S), \A x \in S : f[x] \in Nat
    PROVE  SumFunctionOnSet(f, S) \in Nat
<1> DEFINE Bad == {s \in SUBSET S : SumFunctionOnSet(f, s) \notin Nat}
<1> SUFFICES ASSUME Bad # {} PROVE FALSE
  OBVIOUS
<1>1. \A s \in Bad : IsFiniteSet(s)
  BY FS_Subset
<1>2. PICK s \in Bad : \A x \in s : s \ {x} \notin Bad
  BY <1>1, SmallestSet
<1>3. s # {}
  BY SumEmpty
<1>4. /\ Pick(s) \in s
      /\ SumFunctionOnSet(f, s) =
            f[Pick(s)] + SumFunctionOnSet(f, s \ {Pick(s)})
  BY <1>1, <1>3, SumPicks
<1>5. SumFunctionOnSet(f, s \ {Pick(s)}) \in Nat
  BY <1>2, <1>4
<1> QED
  BY <1>4, <1>5

\* ... and so can any other.
LEMMA SumRemove ==
    ASSUME NEW f, NEW S, IsFiniteSet(S), \A x \in S : f[x] \in Nat,
           NEW e \in S
    PROVE  SumFunctionOnSet(f, S) = f[e] + SumFunctionOnSet(f, S \ {e})
<1> DEFINE Splits(s, x) ==
             SumFunctionOnSet(f, s) = f[x] + SumFunctionOnSet(f, s \ {x})
           Bad == {s \in SUBSET S : \E x \in s : ~Splits(s, x)}
<1> SUFFICES ASSUME Bad # {} PROVE FALSE
  OBVIOUS
<1>1. \A s \in Bad : IsFiniteSet(s)
  BY FS_Subset
<1>2. PICK s \in Bad : \A x \in s : s \ {x} \notin Bad
  <2> HIDE DEF Bad
  <2> QED BY <1>1, SmallestSet
<1>3. PICK x \in s : ~Splits(s, x)
  OBVIOUS
<1> DEFINE p == Pick(s)
           rest == (s \ {x}) \ {p}
<1>4. p \in s /\ Splits(s, p)
  BY <1>1, <1>3, SumPicks
<1>5. x # p
  BY <1>3, <1>4
<1>6. Splits(s \ {p}, x)
  BY <1>2, <1>3, <1>4, <1>5
<1>7. Splits(s \ {x}, p)
  BY <1>2, <1>3, <1>4, <1>5
<1>8. (s \ {p}) \ {x} = rest
  OBVIOUS
<1>9. SumFunctionOnSet(f, rest) \in Nat
  <2>1. IsFiniteSet(rest)
    BY <1>1, FS_Subset
  <2> QED BY <2>1, SumType
<1>10. f[x] \in Nat /\ f[p] \in Nat
  BY <1>3, <1>4
<1>11. /\ SumFunctionOnSet(f, s) = f[p] + SumFunctionOnSet(f, s \ {p})
       /\ SumFunctionOnSet(f, s \ {p}) = f[x] + SumFunctionOnSet(f, rest)
       /\ SumFunctionOnSet(f, s \ {x}) = f[p] + SumFunctionOnSet(f, rest)
       /\ SumFunctionOnSet(f, s) # f[x] + SumFunctionOnSet(f, s \ {x})
  BY <1>3, <1>4, <1>6, <1>7, <1>8, Zenon
<1> HIDE DEF p, rest, Bad, Splits
<1> QED
  BY <1>9, <1>10, <1>11

\* Adding an element adds its summand.
LEMMA SumAdd ==
    ASSUME NEW f, NEW S, IsFiniteSet(S), \A x \in S : f[x] \in Nat,
           NEW e, e \notin S, f[e] \in Nat
    PROVE  SumFunctionOnSet(f, S \cup {e}) = f[e] + SumFunctionOnSet(f, S)
<1>1. IsFiniteSet(S \cup {e}) /\ (S \cup {e}) \ {e} = S
  BY FS_AddElement
<1> QED
  BY <1>1, SumRemove

\* Functions equal on the set have the same sum over it.
LEMMA SumSame ==
    ASSUME NEW f, NEW g, NEW S, IsFiniteSet(S), \A x \in S : f[x] = g[x]
    PROVE  SumFunctionOnSet(f, S) = SumFunctionOnSet(g, S)
<1> DEFINE Bad == {s \in SUBSET S : SumFunctionOnSet(f, s) # SumFunctionOnSet(g, s)}
<1> SUFFICES ASSUME Bad # {} PROVE FALSE
  OBVIOUS
<1>1. \A s \in Bad : IsFiniteSet(s)
  BY FS_Subset
<1>2. PICK s \in Bad : \A x \in s : s \ {x} \notin Bad
  BY <1>1, SmallestSet
<1>3. s # {}
  BY SumEmpty
<1>4. /\ Pick(s) \in s
      /\ SumFunctionOnSet(f, s) =
            f[Pick(s)] + SumFunctionOnSet(f, s \ {Pick(s)})
      /\ SumFunctionOnSet(g, s) =
            g[Pick(s)] + SumFunctionOnSet(g, s \ {Pick(s)})
  BY <1>1, <1>3, SumPicks
<1> QED
  BY <1>2, <1>4

\* A set and the rest of it make up the whole sum.
LEMMA SumSplit ==
    ASSUME NEW f, NEW S, IsFiniteSet(S), \A x \in S : f[x] \in Nat,
           NEW T \in SUBSET S
    PROVE  SumFunctionOnSet(f, S) =
             SumFunctionOnSet(f, T) + SumFunctionOnSet(f, S \ T)
<1> DEFINE Bad == {s \in SUBSET T : SumFunctionOnSet(f, S) #
                     SumFunctionOnSet(f, s) + SumFunctionOnSet(f, S \ s)}
<1> SUFFICES ASSUME Bad # {} PROVE FALSE
  OBVIOUS
<1>1. \A s \in Bad : IsFiniteSet(s)
  BY FS_Subset
<1>2. PICK s \in Bad : \A x \in s : s \ {x} \notin Bad
  BY <1>1, SmallestSet
<1>3. SumFunctionOnSet(f, S) \in Nat
  BY SumType
<1>4. s # {}
  <2>1. S \ {} = S
    OBVIOUS
  <2> QED BY <2>1, <1>3, SumEmpty
<1>5. PICK x : x \in s
  BY <1>4
<1> DEFINE r == s \ {x}
<1>6. IsFiniteSet(r) /\ IsFiniteSet(S \ s) /\ IsFiniteSet(S \ r)
  BY FS_Subset
<1>7. SumFunctionOnSet(f, s) = f[x] + SumFunctionOnSet(f, r)
  BY <1>1, <1>5, SumRemove
<1>8. SumFunctionOnSet(f, S \ r) = f[x] + SumFunctionOnSet(f, S \ s)
  <2>1. (S \ r) \ {x} = S \ s /\ x \in S \ r
    BY <1>5
  <2> QED BY <2>1, <1>6, SumRemove
<1>9. SumFunctionOnSet(f, S) = SumFunctionOnSet(f, r) + SumFunctionOnSet(f, S \ r)
  BY <1>2, <1>5
<1>10. /\ SumFunctionOnSet(f, r) \in Nat
       /\ SumFunctionOnSet(f, S \ s) \in Nat
       /\ f[x] \in Nat
  BY <1>6, <1>5, SumType
<1> HIDE DEF r
<1> QED
  BY <1>7, <1>8, <1>9, <1>10

\* Changing one summand changes the sum by the difference.
LEMMA SumUpdate ==
    ASSUME NEW f, NEW g, NEW S, IsFiniteSet(S), NEW e \in S,
           \A x \in S : f[x] \in Nat /\ g[x] \in Nat,
           \A x \in S \ {e} : f[x] = g[x]
    PROVE  SumFunctionOnSet(g, S) = SumFunctionOnSet(f, S) - f[e] + g[e]
<1>1. IsFiniteSet(S \ {e})
  BY FS_RemoveElement
<1>2. SumFunctionOnSet(f, S) = f[e] + SumFunctionOnSet(f, S \ {e})
  BY SumRemove
<1>3. SumFunctionOnSet(g, S) = g[e] + SumFunctionOnSet(g, S \ {e})
  BY SumRemove
<1>4. SumFunctionOnSet(f, S \ {e}) = SumFunctionOnSet(g, S \ {e})
  BY <1>1, SumSame
<1>5. SumFunctionOnSet(f, S \ {e}) \in Nat
  BY <1>1, SumType
<1> QED
  BY <1>2, <1>3, <1>4, <1>5

\* Summands that are all zero add up to zero, and a natural sum of zero has
\* only such summands.
LEMMA SumZero ==
    ASSUME NEW f, NEW S, IsFiniteSet(S), \A x \in S : f[x] \in Nat
    PROVE  SumFunctionOnSet(f, S) = 0 <=> \A x \in S : f[x] = 0
<1>1. ASSUME SumFunctionOnSet(f, S) = 0, NEW x \in S  PROVE f[x] = 0
  <2>1. SumFunctionOnSet(f, S) = f[x] + SumFunctionOnSet(f, S \ {x})
    BY SumRemove
  <2>2. IsFiniteSet(S \ {x})
    BY FS_RemoveElement
  <2>3. SumFunctionOnSet(f, S \ {x}) \in Nat
    BY <2>2, SumType
  <2> QED BY <1>1, <2>1, <2>3
<1>2. ASSUME \A x \in S : f[x] = 0  PROVE SumFunctionOnSet(f, S) = 0
  <2> DEFINE Bad == {s \in SUBSET S : SumFunctionOnSet(f, s) # 0}
  <2> SUFFICES ASSUME Bad # {} PROVE FALSE
    OBVIOUS
  <2>1. \A s \in Bad : IsFiniteSet(s)
    BY FS_Subset
  <2>2. PICK s \in Bad : \A x \in s : s \ {x} \notin Bad
    BY <2>1, SmallestSet
  <2>3. s # {}
    BY SumEmpty
  <2>4. /\ Pick(s) \in s
        /\ SumFunctionOnSet(f, s) =
              f[Pick(s)] + SumFunctionOnSet(f, s \ {Pick(s)})
    BY <2>1, <2>3, SumPicks
  <2> QED
    BY <1>2, <2>2, <2>4
<1> QED
  BY <1>1, <1>2

\* Setting the values on a part to zero takes the sum of that part away.
LEMMA SumDrop ==
    ASSUME NEW f, NEW g, NEW S, IsFiniteSet(S), NEW T \in SUBSET S,
           \A x \in S : f[x] \in Nat /\ g[x] \in Nat,
           \A x \in S : g[x] = IF x \in T THEN 0 ELSE f[x]
    PROVE  SumFunctionOnSet(g, S) = SumFunctionOnSet(f, S) - SumFunctionOnSet(f, T)
<1> DEFINE rest == S \ T
<1>1. IsFiniteSet(T) /\ IsFiniteSet(rest)
  BY FS_Subset
<1>2. /\ SumFunctionOnSet(f, S) = SumFunctionOnSet(f, T) + SumFunctionOnSet(f, rest)
      /\ SumFunctionOnSet(g, S) = SumFunctionOnSet(g, T) + SumFunctionOnSet(g, rest)
  BY SumSplit
<1>3. /\ \A x \in T : f[x] \in Nat /\ g[x] \in Nat /\ g[x] = 0
      /\ \A x \in rest : f[x] \in Nat /\ f[x] = g[x]
  OBVIOUS
<1> HIDE DEF rest
<1>4. SumFunctionOnSet(f, rest) = SumFunctionOnSet(g, rest)
  BY <1>1, <1>3, SumSame
<1>5. SumFunctionOnSet(g, T) = 0
  BY <1>1, <1>3, SumZero
<1>6. SumFunctionOnSet(f, T) \in Nat /\ SumFunctionOnSet(f, rest) \in Nat
  BY <1>1, <1>3, SumType
<1> QED
  BY <1>2, <1>4, <1>5, <1>6

-----------------------------------------------------------------------------
(* Arrays.                                                                     *)

\* A listed element has a first place in the array.
LEMMA IndexExists ==
    ASSUME NEW S, NEW A \in Seq(S), IsInjective(A), NEW a \in Range(A)
    PROVE  /\ IndexOf(A, a) \in 1 .. Len(A)
           /\ A[IndexOf(A, a)] = a
<1>1. PICK i \in DOMAIN A : A[i] = a
  BY DEF Range
<1>2. \A j \in 1 .. i - 1 : A[j] # a
  <2> SUFFICES ASSUME NEW j \in 1 .. i - 1, A[j] = a
               PROVE  FALSE
    OBVIOUS
  <2>1. i \in 1 .. Len(A)
    OBVIOUS
  <2>2. j \in DOMAIN A /\ j # i
    BY <2>1
  <2> QED
    BY <1>1, <2>1, <2>2 DEF IsInjective
<1>3. \E k \in DOMAIN A : A[k] = a /\ \A j \in 1 .. k - 1 : A[j] # a
  BY <1>1, <1>2
<1> QED
  BY <1>3 DEF IndexOf

\* removeStorage takes out of an array without repetitions the element it is
\* given and nothing else, and introduces no repetition.
LEMMA RemoveStorageIsExact ==
    ASSUME NEW S, NEW A \in Seq(S), IsInjective(A), NEW a \in Range(A)
    PROVE  /\ RemoveStorage(A, a) \in Seq(S)
           /\ IsInjective(RemoveStorage(A, a))
           /\ Range(RemoveStorage(A, a)) = Range(A) \ {a}
<1> DEFINE n == Len(A)
           k == IndexOf(A, a)
           B == RemoveStorage(A, a)
<1>1. k \in 1 .. n /\ A[k] = a /\ n \in Nat
  BY IndexExists
<1>2. B = SubSeq([A EXCEPT ![k] = A[n]], 1, n - 1)
  BY DEF RemoveStorage
<1>3. [A EXCEPT ![k] = A[n]] \in Seq(S) /\ Len([A EXCEPT ![k] = A[n]]) = n
  BY <1>1
<1> HIDE DEF k, B
<1>4. B \in Seq(S) /\ Len(B) = n - 1
  BY <1>1, <1>2, <1>3
<1>5. \A i \in 1 .. n - 1 : B[i] = IF i = k THEN A[n] ELSE A[i]
  BY <1>1, <1>2, <1>3
<1>6. \A i, j \in 1 .. n : A[i] = A[j] => i = j
  BY DEF IsInjective
<1>7. DOMAIN B = 1 .. n - 1 /\ DOMAIN A = 1 .. n
  BY <1>1, <1>4
<1>8. IsInjective(B)
  <2> SUFFICES ASSUME NEW i \in 1 .. n - 1, NEW j \in 1 .. n - 1, B[i] = B[j]
               PROVE  i = j
    BY <1>7 DEF IsInjective
  <2> QED
    BY <1>1, <1>5, <1>6
<1>9. Range(B) \subseteq Range(A) \ {a}
  <2> SUFFICES ASSUME NEW i \in 1 .. n - 1
               PROVE  B[i] \in Range(A) \ {a}
    BY <1>7 DEF Range
  <2>1. CASE i = k
    BY <2>1, <1>1, <1>5, <1>6, <1>7 DEF Range
  <2>2. CASE i # k
    BY <2>2, <1>1, <1>5, <1>6, <1>7 DEF Range
  <2> QED
    BY <2>1, <2>2
<1>10. Range(A) \ {a} \subseteq Range(B)
  <2> SUFFICES ASSUME NEW i \in 1 .. n, A[i] # a
               PROVE  A[i] \in Range(B)
    BY <1>7 DEF Range
  <2>1. CASE i = n
    <3>1. k \in 1 .. n - 1 /\ B[k] = A[i]
      BY <2>1, <1>1, <1>5
    <3> QED
      BY <3>1, <1>7 DEF Range
  <2>2. CASE i # n
    <3>1. i \in 1 .. n - 1 /\ B[i] = A[i]
      BY <2>2, <1>1, <1>5
    <3> QED
      BY <3>1, <1>7 DEF Range
  <2> QED
    BY <2>1, <2>2
<1> QED
  BY <1>4, <1>8, <1>9, <1>10 DEF B

\* push appends its element and keeps an array that did not hold it free of
\* repetitions.
LEMMA AppendIsExact ==
    ASSUME NEW S, NEW A \in Seq(S), IsInjective(A), NEW a \in S, a \notin Range(A)
    PROVE  /\ Append(A, a) \in Seq(S)
           /\ IsInjective(Append(A, a))
           /\ Range(Append(A, a)) = Range(A) \cup {a}
<1> DEFINE n == Len(A)
           B == Append(A, a)
<1>1. B \in Seq(S) /\ n \in Nat /\ DOMAIN B = 1 .. n + 1 /\ DOMAIN A = 1 .. n
  OBVIOUS
<1>2. \A i \in 1 .. n + 1 : B[i] = IF i = n + 1 THEN a ELSE A[i]
  OBVIOUS
<1> HIDE DEF B
<1>3. \A i \in 1 .. n : A[i] # a
  BY <1>1 DEF Range
<1>4. IsInjective(B)
  <2> SUFFICES ASSUME NEW i \in 1 .. n + 1, NEW j \in 1 .. n + 1, B[i] = B[j]
               PROVE  i = j
    BY <1>1 DEF IsInjective
  <2>1. \A p, q \in 1 .. n : A[p] = A[q] => p = q
    BY <1>1 DEF IsInjective
  <2> QED
    BY <1>1, <1>2, <1>3, <2>1
<1>5. Range(B) \subseteq Range(A) \cup {a}
  <2> SUFFICES ASSUME NEW i \in 1 .. n + 1
               PROVE  B[i] \in Range(A) \cup {a}
    BY <1>1 DEF Range
  <2> QED
    BY <1>1, <1>2 DEF Range
<1>6. Range(A) \cup {a} \subseteq Range(B)
  <2>1. a \in Range(B)
    BY <1>1, <1>2 DEF Range
  <2>2. ASSUME NEW i \in 1 .. n
        PROVE  A[i] \in Range(B)
    <3>1. i \in DOMAIN B /\ B[i] = A[i]
      BY <1>1, <1>2
    <3> QED
      BY <3>1 DEF Range
  <2> QED
    BY <2>1, <2>2, <1>1 DEF Range
<1> QED
  BY <1>1, <1>4, <1>5, <1>6 DEF B

\* Appending the elements of another array, of which it holds none.
LEMMA ConcatIsExact ==
    ASSUME NEW S, NEW A \in Seq(S), IsInjective(A), NEW B \in Seq(S), IsInjective(B),
           Range(A) \cap Range(B) = {}
    PROVE  /\ A \o B \in Seq(S)
           /\ IsInjective(A \o B)
           /\ Range(A \o B) = Range(A) \cup Range(B)
<1> DEFINE n == Len(A)
           k == Len(B)
           C == A \o B
<1>1. /\ C \in Seq(S) /\ n \in Nat /\ k \in Nat
      /\ DOMAIN C = 1 .. n + k /\ DOMAIN A = 1 .. n /\ DOMAIN B = 1 .. k
  OBVIOUS
<1>2. \A i \in 1 .. n + k : C[i] = IF i <= n THEN A[i] ELSE B[i - n]
  OBVIOUS
<1> HIDE DEF C, n, k
<1>3. \A i \in 1 .. n, j \in 1 .. k : A[i] # B[j]
  BY <1>1 DEF Range
<1>4. IsInjective(C)
  <2> SUFFICES ASSUME NEW i \in 1 .. n + k, NEW j \in 1 .. n + k, C[i] = C[j]
               PROVE  i = j
    BY <1>1 DEF IsInjective
  <2>1. \A p, q \in 1 .. n : A[p] = A[q] => p = q
    BY <1>1 DEF IsInjective
  <2>2. \A p, q \in 1 .. k : B[p] = B[q] => p = q
    BY <1>1 DEF IsInjective
  <2>3. CASE i <= n /\ j <= n
    BY <1>1, <1>2, <2>1, <2>3
  <2>4. CASE i > n /\ j > n
    <3>1. i - n \in 1 .. k /\ j - n \in 1 .. k
      BY <1>1, <2>4
    <3>2. B[i - n] = B[j - n]
      BY <1>1, <1>2, <2>4
    <3>3. i - n = j - n
      BY <3>1, <3>2, <2>2
    <3> QED BY <3>3, <1>1
  <2>5. CASE i <= n /\ j > n
    <3>1. i \in 1 .. n /\ j - n \in 1 .. k
      BY <1>1, <2>5
    <3> QED BY <3>1, <1>1, <1>2, <1>3, <2>5
  <2>6. CASE i > n /\ j <= n
    <3>1. j \in 1 .. n /\ i - n \in 1 .. k
      BY <1>1, <2>6
    <3> QED BY <3>1, <1>1, <1>2, <1>3, <2>6
  <2> QED
    BY <2>3, <2>4, <2>5, <2>6, <1>1
<1>5. Range(C) \subseteq Range(A) \cup Range(B)
  <2> SUFFICES ASSUME NEW i \in 1 .. n + k
               PROVE  C[i] \in Range(A) \cup Range(B)
    BY <1>1 DEF Range
  <2>1. CASE i <= n
    <3>1. i \in DOMAIN A /\ C[i] = A[i]
      BY <2>1, <1>1, <1>2
    <3> QED BY <3>1 DEF Range
  <2>2. CASE i > n
    <3>1. i - n \in DOMAIN B /\ C[i] = B[i - n]
      BY <2>2, <1>1, <1>2
    <3> QED BY <3>1 DEF Range
  <2> QED BY <2>1, <2>2, <1>1
<1>6. Range(A) \subseteq Range(C)
  <2> SUFFICES ASSUME NEW i \in 1 .. n PROVE A[i] \in Range(C)
    BY <1>1 DEF Range
  <2>1. i \in DOMAIN C /\ C[i] = A[i]
    BY <1>1, <1>2
  <2> QED BY <2>1 DEF Range
<1>7. Range(B) \subseteq Range(C)
  <2> SUFFICES ASSUME NEW i \in 1 .. k PROVE B[i] \in Range(C)
    BY <1>1 DEF Range
  <2>1. i + n \in DOMAIN C /\ C[i + n] = B[i]
    BY <1>1, <1>2
  <2> QED BY <2>1 DEF Range
<1> QED
  BY <1>1, <1>4, <1>5, <1>6, <1>7 DEF C, n, k

-----------------------------------------------------------------------------
(* A loop of removeStorage calls: FoldLeft of the community modules, which     *)
(* recurses over sets of indices, the last of each first.                      *)

Last(s) == CHOOSE x \in s : \A y \in s : x >= y

LEMMA LastIndex ==
    ASSUME NEW n \in Nat, NEW s \in SUBSET (1 .. n), s # {}
    PROVE  /\ Last(s) \in s
           /\ Last(s) \in 1 .. n
           /\ \A y \in s : Last(s) >= y
           /\ s \ {Last(s)} \in SUBSET (1 .. n - 1)
<1> DEFINE N == {n - x : x \in s}
<1>1. N \in SUBSET Nat /\ N # {}
  <2>1. \A x \in s : n - x \in Nat
    OBVIOUS
  <2> QED BY <2>1
<1>2. PICK k \in N : \A m \in N : k <= m
  BY <1>1, LeastNumber
<1>3. PICK x \in s : k = n - x
  OBVIOUS
<1>4. \A y \in s : x >= y
  <2> SUFFICES ASSUME NEW y \in s PROVE x >= y
    OBVIOUS
  <2>1. k <= n - y
    BY <1>2
  <2>2. x \in 1 .. n /\ y \in 1 .. n
    OBVIOUS
  <2> QED BY <2>1, <2>2, <1>3
<1>5. Last(s) \in s /\ \A y \in s : Last(s) >= y
  BY <1>3, <1>4 DEF Last
<1>6. \A y \in s : y \in 1 .. n
  OBVIOUS
<1>7. \A y \in s \ {Last(s)} : y \in 1 .. n - 1
  <2> SUFFICES ASSUME NEW y \in s \ {Last(s)} PROVE y \in 1 .. n - 1
    OBVIOUS
  <2>1. y \in 1 .. n /\ Last(s) \in 1 .. n /\ Last(s) >= y /\ y # Last(s)
    BY <1>5, <1>6
  <2> QED BY <2>1
<1> QED
  BY <1>5, <1>6, <1>7

\* g[s] is what the calls for the indices in s leave of A.
RemovesOn(g, A, cs, F) ==
    g = [s \in F |-> IF s = {} THEN A ELSE RemoveStorage(g[s \ {Last(s)}], cs[Last(s)])]

LEMMA RemovalExists ==
    ASSUME NEW A, NEW cs, NEW n \in Nat
    PROVE  \E g : RemovesOn(g, A, cs, SUBSET (1 .. n))
<1> DEFINE Bad == {k \in Nat : ~ \E g : RemovesOn(g, A, cs, SUBSET (1 .. k))}
<1> SUFFICES ASSUME Bad # {} PROVE FALSE
  OBVIOUS
<1>1. PICK k \in Bad : \A m \in Bad : k <= m
  <2>1. Bad \in SUBSET Nat
    OBVIOUS
  <2> QED BY <2>1, LeastNumber
<1>2. k # 0
  <2> SUFFICES ASSUME k = 0 PROVE FALSE
    OBVIOUS
  <2> DEFINE g == [s \in SUBSET (1 .. 0) |-> A]
  <2>1. SUBSET (1 .. 0) = {{}}
    OBVIOUS
  <2>2. RemovesOn(g, A, cs, SUBSET (1 .. 0))
    BY <2>1 DEF RemovesOn
  <2> QED BY <2>2
<1>3. k - 1 \in Nat /\ k \in Nat
  BY <1>2
<1>4. PICK g : RemovesOn(g, A, cs, SUBSET (1 .. k - 1))
  <2>1. k - 1 \notin Bad
    <3> HIDE DEF Bad
    <3> QED BY <1>1, <1>3
  <2> QED BY <2>1, <1>3
<1> DEFINE h == [s \in SUBSET (1 .. k) |->
                   IF s = {} THEN A ELSE RemoveStorage(g[s \ {Last(s)}], cs[Last(s)])]
<1>5. \A s \in SUBSET (1 .. k) : s # {} => s \ {Last(s)} \in SUBSET (1 .. k - 1)
  BY <1>3, LastIndex
<1>6. \A s \in SUBSET (1 .. k - 1) : h[s] = g[s]
  <2> SUFFICES ASSUME NEW s \in SUBSET (1 .. k - 1) PROVE h[s] = g[s]
    OBVIOUS
  <2>1. s \in SUBSET (1 .. k)
    BY <1>3
  <2>2. g[s] = IF s = {} THEN A ELSE RemoveStorage(g[s \ {Last(s)}], cs[Last(s)])
    BY <1>4 DEF RemovesOn
  <2> QED BY <2>1, <2>2
<1>7. RemovesOn(h, A, cs, SUBSET (1 .. k))
  BY <1>5, <1>6 DEF RemovesOn
<1> QED
  BY <1>7

\* Taking distinct listed elements out one after the other takes out exactly
\* these, though each call moves another element.
LEMMA RemovalIsExact ==
    ASSUME NEW S, NEW A \in Seq(S), IsInjective(A),
           NEW cs \in Seq(S), IsInjective(cs), Range(cs) \subseteq Range(A),
           NEW g, RemovesOn(g, A, cs, SUBSET DOMAIN cs)
    PROVE  /\ g[DOMAIN cs] \in Seq(S)
           /\ IsInjective(g[DOMAIN cs])
           /\ Range(g[DOMAIN cs]) = Range(A) \ Range(cs)
<1> DEFINE n == Len(cs)
           First(k) == {cs[i] : i \in 1 .. k}
           Exact(k) == /\ g[1 .. k] \in Seq(S)
                       /\ IsInjective(g[1 .. k])
                       /\ Range(g[1 .. k]) = Range(A) \ First(k)
           Bad == {k \in 0 .. n : ~Exact(k)}
<1>1. n \in Nat /\ DOMAIN cs = 1 .. n
  OBVIOUS
<1> HIDE DEF n
<1>0. RemovesOn(g, A, cs, SUBSET (1 .. n))
  BY <1>1
<1>2. First(n) = Range(cs)
  BY <1>1 DEF Range
<1>3. Bad = {}
  <2> SUFFICES ASSUME Bad # {} PROVE FALSE
    OBVIOUS
  <2>1. PICK k \in Bad : \A m \in Bad : k <= m
    <3>1. Bad \in SUBSET Nat
      BY <1>1
    <3> QED BY <3>1, LeastNumber
  <2>2. k \in 0 .. n /\ ~Exact(k)
    OBVIOUS
  <2>3. k # 0
    <3> SUFFICES ASSUME k = 0 PROVE FALSE
      OBVIOUS
    <3>1. 1 .. k = {} /\ {} \in SUBSET (1 .. n)
      OBVIOUS
    <3>2. g[1 .. k] = A
      BY <3>1, <1>0 DEF RemovesOn
    <3>3. First(k) = {}
      BY <3>1
    <3> QED BY <3>2, <3>3, <2>2
  <2>4. k - 1 \in 0 .. n /\ k \in 1 .. n /\ k \in Nat
    BY <2>2, <2>3, <1>1
  <2>5. Exact(k - 1)
    <3> HIDE DEF Exact
    <3> QED BY <2>1, <2>4
  <2>6. Last(1 .. k) = k
    <3>1. k \in 1 .. k
      BY <2>4
    <3> DEFINE s == 1 .. k
    <3>2. Last(s) \in 1 .. k /\ Last(s) >= k
      <4>1. s \in SUBSET (1 .. k) /\ s # {} /\ k \in s
        BY <3>1
      <4> HIDE DEF s
      <4> QED BY <4>1, <2>4, LastIndex
    <3> QED BY <3>2
  <2>7. g[1 .. k] = RemoveStorage(g[1 .. k - 1], cs[k])
    <3>1. 1 .. k # {} /\ 1 .. k \in SUBSET (1 .. n) /\ (1 .. k) \ {k} = 1 .. k - 1
      <4>1. k \in 1 .. k /\ \A i \in 1 .. k : i \in 1 .. n
        BY <2>4, <1>1
      <4>2. \A i : i \in 1 .. k /\ i # k <=> i \in 1 .. k - 1
        BY <2>4, <1>1
      <4> QED BY <4>1, <4>2
    <3>2. g[1 .. k] = RemoveStorage(g[(1 .. k) \ {Last(1 .. k)}], cs[Last(1 .. k)])
      BY <3>1, <1>0 DEF RemovesOn
    <3> QED BY <3>1, <3>2, <2>6
  <2>8. cs[k] \in Range(g[1 .. k - 1])
    <3>1. cs[k] \in Range(A)
      BY <2>4, <1>1 DEF Range
    <3>2. cs[k] \notin First(k - 1)
      <4>1. \A i \in 1 .. k - 1 : i \in DOMAIN cs /\ i # k
        BY <2>4, <1>1
      <4> QED BY <4>1, <2>4, <1>1 DEF IsInjective
    <3> QED BY <3>1, <3>2, <2>5
  <2>9. First(k) = First(k - 1) \cup {cs[k]}
    <3>1. 1 .. k = (1 .. k - 1) \cup {k}
      BY <2>4
    <3> QED BY <3>1
  <2>10. /\ g[1 .. k] \in Seq(S)
         /\ IsInjective(g[1 .. k])
         /\ Range(g[1 .. k]) = Range(g[1 .. k - 1]) \ {cs[k]}
    <3> DEFINE B == g[1 .. k - 1]
    <3>1. B \in Seq(S) /\ IsInjective(B) /\ cs[k] \in Range(B)
      BY <2>5, <2>8
    <3> HIDE DEF B
    <3>2. /\ RemoveStorage(B, cs[k]) \in Seq(S)
          /\ IsInjective(RemoveStorage(B, cs[k]))
          /\ Range(RemoveStorage(B, cs[k])) = Range(B) \ {cs[k]}
      BY <3>1, RemoveStorageIsExact
    <3> QED BY <3>2, <2>7 DEF B
  <2>11. Exact(k)
    BY <2>5, <2>9, <2>10
  <2> QED BY <2>11, <2>2
<1>4. Exact(n)
  <2> HIDE DEF Exact
  <2> QED BY <1>1, <1>3
<1>5. g[DOMAIN cs] = g[1 .. n]
  BY <1>1
<1> QED
  BY <1>2, <1>4, <1>5
=============================================================================
