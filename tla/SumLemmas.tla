----------------------------- MODULE SumLemmas ------------------------------
(***************************************************************************)
(* Induction over finite sets and natural numbers, as the existence of     *)
(* least elements, and what it gives about SumFunctionOnSet, the sum of a  *)
(* function's values that the community modules define by recursion over   *)
(* the subsets of a set with an arbitrary order of the elements.           *)
(***************************************************************************)
EXTENDS Integers, FiniteSets, Functions, FiniteSetTheorems,
        WellFoundedInduction, TLAPS

\* A set of subsets of a finite set has a minimal element: what an induction
\* over the finite sets of votes, accounts or chunks of the models rests on.
LEMMA LeastSubset ==
    ASSUME NEW S, IsFiniteSet(S), NEW T, T \subseteq SUBSET S, T # {}
    PROVE  \E x \in T : \A y \in T : y \subseteq x => y = x
<1>1. IsWellFoundedOn(StrictSubsetOrdering(S), FiniteSubsetsOf(S))
  BY FS_StrictSubsetOrderingWellFounded
<1>2. FiniteSubsetsOf(S) = SUBSET S
  BY FS_FiniteSubsetsOfFinite
<1>3. PICK x \in T : \A y \in T : ~ (<<y, x>> \in StrictSubsetOrdering(S))
  <2>1. IsWellFoundedOn(StrictSubsetOrdering(S), SUBSET S)
    BY <1>1, <1>2
  <2> QED BY <2>1, WFMin
<1> QED BY <1>3 DEF StrictSubsetOrdering

\* A set of natural numbers that has 0 and is closed under successor up to N
\* has every number up to N: induction over the chunks of a write.
LEMMA UpTo ==
    ASSUME NEW N \in Nat, NEW T, 0 \in T,
           \A n \in 0 .. N - 1 : n \in T => n + 1 \in T
    PROVE  \A n \in 0 .. N : n \in T
<1> SUFFICES ASSUME NEW k \in 0 .. N, k \notin T PROVE FALSE
  OBVIOUS
<1> DEFINE Bad == {0 .. n : n \in {m \in 0 .. N : m \notin T}}
<1>1. IsFiniteSet(0 .. N)
  BY FS_Interval
<1>2. Bad \subseteq SUBSET (0 .. N)
  OBVIOUS
<1>3. 0 .. k \in Bad
  OBVIOUS
<1>4. PICK x \in Bad : \A y \in Bad : y \subseteq x => y = x
  <2> DEFINE S == 0 .. N
  <2>1. IsFiniteSet(S) /\ Bad \subseteq SUBSET S /\ Bad # {}
    BY <1>1, <1>2, <1>3
  <2> HIDE DEF Bad, S
  <2> QED BY <2>1, LeastSubset
<1>5. PICK m \in 0 .. N : m \notin T /\ x = 0 .. m
  OBVIOUS
<1>6. m # 0
  BY <1>5
<1>7. m - 1 \in 0 .. N - 1 /\ (m - 1) + 1 = m
  BY <1>6
<1>8. m - 1 \notin T
  BY <1>5, <1>7
<1>9. 0 .. (m - 1) \in Bad
  BY <1>7, <1>8
<1>10. 0 .. (m - 1) \subseteq 0 .. m
  OBVIOUS
<1>11. 0 .. (m - 1) = 0 .. m
  BY <1>4, <1>5, <1>9, <1>10
<1> QED BY <1>11

-----------------------------------------------------------------------------

\* g is the table of the sums of f over the subsets of A.
IsSum(f, A, g) ==
    /\ g \in [SUBSET A -> Int]
    /\ g[{}] = 0
    /\ \A s \in SUBSET A : \A y \in s : g[s] = f[y] + g[s \ {y}]

\* The table exists: the order in which elements are added does not matter.
LEMMA SumExists ==
    ASSUME NEW A, IsFiniteSet(A), NEW f, \A a \in A : f[a] \in Int
    PROVE  \E g : IsSum(f, A, g)
<1> DEFINE Bad == {B \in SUBSET A : ~ \E g : IsSum(f, B, g)}
<1> SUFFICES ASSUME Bad # {} PROVE FALSE
  OBVIOUS
<1>1. PICK B \in Bad : \A y \in Bad : y \subseteq B => y = B
  <2>1. Bad \subseteq SUBSET A
    OBVIOUS
  <2> HIDE DEF Bad
  <2> QED BY <2>1, LeastSubset
<1>2. B # {}
  <2> SUFFICES \E g : IsSum(f, {}, g)
    OBVIOUS
  <2> WITNESS [s \in SUBSET {} |-> 0]
  <2> QED BY DEF IsSum
<1>3. PICK x \in B : TRUE
  BY <1>2
<1>4. PICK g : IsSum(f, B \ {x}, g)
  <2>1. B \ {x} \notin Bad
    BY <1>1, <1>3
  <2> QED BY <2>1
<1> DEFINE h == [s \in SUBSET B |-> IF x \in s THEN f[x] + g[s \ {x}] ELSE g[s]]
<1>5. \A s \in SUBSET (B \ {x}) : g[s] \in Int
  BY <1>4 DEF IsSum
<1>6. f[x] \in Int
  BY <1>3
<1>7. h \in [SUBSET B -> Int]
  BY <1>5, <1>6
<1>8. h[{}] = 0
  BY <1>4 DEF IsSum
<1>9. ASSUME NEW s \in SUBSET B, NEW y \in s PROVE h[s] = f[y] + h[s \ {y}]
  <2>1. CASE y = x
    BY <2>1
  <2>2. CASE y # x /\ x \notin s
    BY <2>2, <1>4 DEF IsSum
  <2>3. CASE y # x /\ x \in s
    <3>1. h[s] = f[x] + g[s \ {x}]
      BY <2>3
    <3>2. g[s \ {x}] = f[y] + g[(s \ {x}) \ {y}]
      <4>1. s \ {x} \in SUBSET (B \ {x}) /\ y \in s \ {x}
        BY <2>3
      <4> QED BY <4>1, <1>4 DEF IsSum
    <3>3. h[s \ {y}] = f[x] + g[(s \ {y}) \ {x}]
      BY <2>3
    <3>4. (s \ {x}) \ {y} = (s \ {y}) \ {x}
      OBVIOUS
    <3>5. g[(s \ {y}) \ {x}] \in Int
      BY <1>5
    <3>6. f[y] \in Int
      OBVIOUS
    <3>7. g[s \ {x}] = f[y] + g[(s \ {y}) \ {x}]
      BY <3>2, <3>4, Zenon
    <3> DEFINE u == g[(s \ {y}) \ {x}]
    <3>8. h[s] = f[x] + (f[y] + u) /\ h[s \ {y}] = f[x] + u /\ u \in Int
      BY <3>1, <3>3, <3>5, <3>7, Zenon
    <3> HIDE DEF h, u
    <3> QED BY <3>6, <3>8, <1>6
  <2> QED BY <2>1, <2>2, <2>3
<1>10. IsSum(f, B, h)
  <2> HIDE DEF h
  <2> QED BY <1>7, <1>8, <1>9 DEF IsSum
<1> HIDE DEF h
<1> QED BY <1>10, <1>1

\* SumFunctionOnSet reads that table.
LEMMA SumIsTable ==
    ASSUME NEW A, IsFiniteSet(A), NEW f, \A a \in A : f[a] \in Int,
           NEW g, IsSum(f, A, g)
    PROVE  SumFunctionOnSet(f, A) = g[A]
<1> DEFINE c(s) == CHOOSE x \in s : TRUE
<1> DEFINE Eq(it) == it = [s \in SUBSET A |-> IF s = {} THEN 0 ELSE f[c(s)] + it[s \ {c(s)}]]
<1> DEFINE iter == CHOOSE it : Eq(it)
<1>1. SumFunctionOnSet(f, A) = iter[A]
  BY DEF SumFunctionOnSet, FoldFunctionOnSet, MapThenFoldSet
<1>2. \A s : s # {} => c(s) \in s
  OBVIOUS
<1>3. Eq(g)
  <2> HIDE DEF c
  <2>1. g = [s \in SUBSET A |-> g[s]]
    BY DEF IsSum
  <2>2. \A s \in SUBSET A : g[s] = IF s = {} THEN 0 ELSE f[c(s)] + g[s \ {c(s)}]
    BY <1>2 DEF IsSum
  <2> QED BY <2>1, <2>2
<1>4. Eq(iter)
  <2> HIDE DEF Eq
  <2> QED BY <1>3
<1>5. \A s \in SUBSET A : iter[s] = IF s = {} THEN 0 ELSE f[c(s)] + iter[s \ {c(s)}]
  <2> HIDE DEF iter, c
  <2> QED BY <1>4
<1> DEFINE Bad == {s \in SUBSET A : iter[s] # g[s]}
<1>6. Bad = {}
  <2> SUFFICES ASSUME Bad # {} PROVE FALSE
    OBVIOUS
  <2> HIDE DEF iter, c
  <2>1. PICK s \in Bad : \A y \in Bad : y \subseteq s => y = s
    <3>1. Bad \subseteq SUBSET A
      OBVIOUS
    <3> HIDE DEF Bad
    <3> QED BY <3>1, LeastSubset
  <2>2. s # {}
    BY <1>5 DEF IsSum
  <2>3. c(s) \in s /\ s \ {c(s)} \in SUBSET A
    BY <1>2, <2>2
  <2>4. iter[s \ {c(s)}] = g[s \ {c(s)}]
    BY <2>1, <2>3
  <2>5. iter[s] = f[c(s)] + iter[s \ {c(s)}]
    BY <1>5, <2>2
  <2>6. g[s] = f[c(s)] + g[s \ {c(s)}]
    BY <2>3 DEF IsSum
  <2> QED BY <2>4, <2>5, <2>6
<1> HIDE DEF iter
<1> QED BY <1>1, <1>6

-----------------------------------------------------------------------------
(* What the sums of the models need.                                       *)

\* The sum over no element.
LEMMA SumEmpty ==
    ASSUME NEW f
    PROVE  SumFunctionOnSet(f, {}) = 0
<1>1. IsFiniteSet({})
  BY FS_EmptySet
<1>2. \A a \in {} : f[a] \in Int
  OBVIOUS
<1>3. PICK g : IsSum(f, {}, g)
  BY <1>1, <1>2, SumExists
<1>4. SumFunctionOnSet(f, {}) = g[{}]
  BY <1>1, <1>2, <1>3, SumIsTable
<1> QED BY <1>3, <1>4 DEF IsSum

\* A table restricted to the subsets of a subset is its table.
LEMMA SumRestricted ==
    ASSUME NEW A, IsFiniteSet(A), NEW f, \A a \in A : f[a] \in Int,
           NEW g, IsSum(f, A, g), NEW B \in SUBSET A
    PROVE  SumFunctionOnSet(f, B) = g[B]
<1> DEFINE h == [s \in SUBSET B |-> g[s]]
<1>1. IsSum(f, B, h)
  BY DEF IsSum
<1>2. IsFiniteSet(B)
  BY FS_Subset
<1>3. h[B] = g[B]
  OBVIOUS
<1> HIDE DEF h
<1>4. SumFunctionOnSet(f, B) = h[B]
  BY <1>1, <1>2, SumIsTable
<1> QED BY <1>3, <1>4

\* A sum of integers is an integer, and one element can be split off.
LEMMA SumRemove ==
    ASSUME NEW A, IsFiniteSet(A), NEW f, \A a \in A : f[a] \in Int
    PROVE  /\ SumFunctionOnSet(f, A) \in Int
           /\ \A x \in A : SumFunctionOnSet(f, A) = f[x] + SumFunctionOnSet(f, A \ {x})
<1>1. PICK g : IsSum(f, A, g)
  BY SumExists
<1>2. \A B \in SUBSET A : SumFunctionOnSet(f, B) = g[B]
  BY <1>1, SumRestricted
<1>3. A \in SUBSET A /\ \A x \in A : A \ {x} \in SUBSET A
  OBVIOUS
<1>4. g[A] \in Int /\ \A x \in A : g[A] = f[x] + g[A \ {x}]
  BY <1>1, <1>3 DEF IsSum
<1> QED BY <1>2, <1>3, <1>4

\* The sum over a set with one more element.
LEMMA SumAdd ==
    ASSUME NEW A, IsFiniteSet(A), NEW f, NEW x, x \notin A,
           \A a \in A \cup {x} : f[a] \in Int
    PROVE  SumFunctionOnSet(f, A \cup {x}) = f[x] + SumFunctionOnSet(f, A)
<1> DEFINE B == A \cup {x}
<1>1. IsFiniteSet(B) /\ x \in B /\ B \ {x} = A
  BY FS_AddElement
<1>2. \A a \in B : f[a] \in Int
  OBVIOUS
<1> HIDE DEF B
<1>3. SumFunctionOnSet(f, B) = f[x] + SumFunctionOnSet(f, B \ {x})
  BY <1>1, <1>2, SumRemove
<1> QED BY <1>1, <1>3 DEF B

\* Functions with the same values have the same sums.
LEMMA SumSame ==
    ASSUME NEW A, IsFiniteSet(A), NEW f, NEW h,
           \A a \in A : f[a] \in Int /\ h[a] = f[a]
    PROVE  SumFunctionOnSet(h, A) = SumFunctionOnSet(f, A)
<1>1. PICK g : IsSum(f, A, g)
  BY SumExists
<1>2. IsSum(h, A, g)
  BY <1>1 DEF IsSum
<1>3. SumFunctionOnSet(f, A) = g[A]
  BY <1>1, SumIsTable
<1>4. SumFunctionOnSet(h, A) = g[A]
  BY <1>2, SumIsTable
<1> QED BY <1>3, <1>4

\* Two disjoint sets are summed one after the other.
LEMMA SumUnion ==
    ASSUME NEW A, NEW B, IsFiniteSet(A), IsFiniteSet(B), A \cap B = {},
           NEW f, \A a \in A \cup B : f[a] \in Int
    PROVE  SumFunctionOnSet(f, A \cup B) = SumFunctionOnSet(f, A) + SumFunctionOnSet(f, B)
<1> DEFINE Sum(s) == SumFunctionOnSet(f, s)
<1> DEFINE Bad == {s \in SUBSET B : Sum(A \cup s) # Sum(A) + Sum(s)}
<1>1. \A s \in SUBSET B : IsFiniteSet(s) /\ IsFiniteSet(A \cup s)
  BY FS_Subset, FS_Union
<1>2. Sum(A) \in Int
  BY SumRemove
<1>3. ASSUME NEW s \in SUBSET B, NEW x \in s
      PROVE  /\ Sum(A \cup s) = f[x] + Sum(A \cup (s \ {x}))
             /\ Sum(s) = f[x] + Sum(s \ {x})
             /\ Sum(s \ {x}) \in Int /\ f[x] \in Int
  <2>1. IsFiniteSet(A \cup s) /\ IsFiniteSet(s) /\ IsFiniteSet(s \ {x})
    BY <1>1
  <2>2. (A \cup s) \ {x} = A \cup (s \ {x}) /\ x \in A \cup s
    OBVIOUS
  <2>3. \A a \in A \cup s : f[a] \in Int
    OBVIOUS
  <2>4. Sum(A \cup s) = f[x] + Sum((A \cup s) \ {x})
    BY <2>1, <2>2, <2>3, SumRemove
  <2>5. Sum(s) = f[x] + Sum(s \ {x})
    BY <2>1, <2>3, SumRemove
  <2>6. Sum(s \ {x}) \in Int
    BY <2>1, <2>3, SumRemove
  <2> QED BY <2>2, <2>3, <2>4, <2>5, <2>6
<1>4. Sum(A \cup {}) = Sum(A) + Sum({})
  <2>1. A \cup {} = A
    OBVIOUS
  <2>2. Sum({}) = 0
    BY SumEmpty
  <2> HIDE DEF Sum
  <2> QED BY <1>2, <2>1, <2>2
<1>5. Bad = {}
  <2> SUFFICES ASSUME Bad # {} PROVE FALSE
    OBVIOUS
  <2> HIDE DEF Sum
  <2>1. PICK s \in Bad : \A y \in Bad : y \subseteq s => y = s
    <3>1. Bad \subseteq SUBSET B
      OBVIOUS
    <3> HIDE DEF Bad
    <3> QED BY <3>1, LeastSubset
  <2>2. s # {}
    BY <1>4
  <2>3. PICK x \in s : TRUE
    BY <2>2
  <2>4. s \ {x} \in SUBSET B /\ s \ {x} \notin Bad
    BY <2>1, <2>3
  <2>5. Sum(A \cup (s \ {x})) = Sum(A) + Sum(s \ {x})
    BY <2>4
  <2>6. Sum(A \cup s) # Sum(A) + Sum(s) /\ s \in SUBSET B
    OBVIOUS
  <2>7. Sum(A \cup s) = f[x] + Sum(A \cup (s \ {x})) /\ Sum(s) = f[x] + Sum(s \ {x})
        /\ Sum(s \ {x}) \in Int /\ f[x] \in Int
    BY <1>3, <2>6
  <2> QED BY <1>2, <2>5, <2>6, <2>7
<1>6. B \notin Bad
  BY <1>5
<1> QED BY <1>6

\* Natural values have a natural sum.
LEMMA SumNat ==
    ASSUME NEW A, IsFiniteSet(A), NEW f, \A a \in A : f[a] \in Nat
    PROVE  SumFunctionOnSet(f, A) \in Nat
<1>1. PICK g : IsSum(f, A, g)
  BY SumExists
<1> DEFINE Bad == {s \in SUBSET A : g[s] \notin Nat}
<1>2. Bad = {}
  <2> SUFFICES ASSUME Bad # {} PROVE FALSE
    OBVIOUS
  <2>1. PICK s \in Bad : \A y \in Bad : y \subseteq s => y = s
    <3>1. Bad \subseteq SUBSET A
      OBVIOUS
    <3> HIDE DEF Bad
    <3> QED BY <3>1, LeastSubset
  <2>2. s # {}
    <3>1. g[{}] = 0
      BY <1>1 DEF IsSum
    <3> QED BY <3>1
  <2>3. PICK x \in s : TRUE
    BY <2>2
  <2>4. s \ {x} \in SUBSET A /\ s \ {x} \notin Bad
    BY <2>1, <2>3
  <2>5. g[s \ {x}] \in Nat /\ f[x] \in Nat
    BY <2>3, <2>4
  <2>6. g[s] = f[x] + g[s \ {x}] /\ g[s] \notin Nat
    BY <1>1, <2>3 DEF IsSum
  <2> QED BY <2>5, <2>6
<1>3. SumFunctionOnSet(f, A) = g[A]
  BY <1>1, SumIsTable
<1> QED BY <1>2, <1>3

\* The image of a finite set is finite.
LEMMA ImageFinite ==
    ASSUME NEW A, IsFiniteSet(A), NEW m
    PROVE  IsFiniteSet({m[a] : a \in A})
<1> DEFINE B == {m[a] : a \in A}
<1>1. [a \in A |-> m[a]] \in Surjection(A, B)
  BY DEF Surjection
<1>2. PICK g : g \in Surjection(A, B)
  BY <1>1
<1> HIDE DEF B
<1>3. IsFiniteSet(B)
  BY <1>2, FS_Surjection
<1> QED BY <1>3 DEF B

\* The elements of a set can be renamed one for one.
LEMMA SumRenamed ==
    ASSUME NEW A, IsFiniteSet(A), NEW m, NEW f, NEW h,
           \A a \in A : f[m[a]] \in Int /\ h[a] = f[m[a]],
           \A a, b \in A : m[a] = m[b] => a = b
    PROVE  SumFunctionOnSet(h, A) = SumFunctionOnSet(f, {m[a] : a \in A})
<1> DEFINE Img(s) == {m[a] : a \in s}
           B == Img(A)
<1>1. IsFiniteSet(B)
  BY ImageFinite
<1>2. \A b \in B : f[b] \in Int
  OBVIOUS
<1>3. PICK g : IsSum(f, B, g)
  <2> HIDE DEF B
  <2> QED BY <1>1, <1>2, SumExists
<1> DEFINE k == [s \in SUBSET A |-> g[Img(s)]]
<1>4. IsSum(h, A, k)
  <2>1. \A s \in SUBSET A : Img(s) \in SUBSET B
    OBVIOUS
  <2>2. k \in [SUBSET A -> Int]
    BY <1>3, <2>1 DEF IsSum
  <2>3. k[{}] = 0
    <3>1. Img({}) = {}
      OBVIOUS
    <3>2. k[{}] = g[Img({})]
      OBVIOUS
    <3>3. g[{}] = 0
      BY <1>3 DEF IsSum
    <3> HIDE DEF Img, k
    <3> QED BY <3>1, <3>2, <3>3
  <2>4. ASSUME NEW s \in SUBSET A, NEW y \in s PROVE k[s] = h[y] + k[s \ {y}]
    <3>1. Img(s) \ {m[y]} = Img(s \ {y})
      OBVIOUS
    <3>2. m[y] \in Img(s)
      OBVIOUS
    <3>3. k[s] = g[Img(s)] /\ k[s \ {y}] = g[Img(s \ {y})]
      OBVIOUS
    <3>4. g[Img(s)] = f[m[y]] + g[Img(s) \ {m[y]}]
      <4> HIDE DEF Img, B
      <4> QED BY <1>3, <2>1, <3>2 DEF IsSum
    <3>5. h[y] = f[m[y]]
      OBVIOUS
    <3> HIDE DEF Img, k
    <3> QED BY <3>1, <3>3, <3>4, <3>5
  <2> HIDE DEF k
  <2> QED BY <2>2, <2>3, <2>4 DEF IsSum
<1>5. k[A] = g[B]
  OBVIOUS
<1>6. SumFunctionOnSet(h, A) = k[A]
  <2>1. \A a \in A : h[a] \in Int
    OBVIOUS
  <2> HIDE DEF k
  <2> QED BY <1>4, <2>1, SumIsTable
<1>7. SumFunctionOnSet(f, B) = g[B]
  <2> HIDE DEF B
  <2> QED BY <1>1, <1>2, <1>3, SumIsTable
<1> QED BY <1>5, <1>6, <1>7
=============================================================================
