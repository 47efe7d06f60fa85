--------------------------- MODULE NumbersAndSums ---------------------------
(***************************************************************************)
(* Induction over numbers and over finite sets, as facts about sets of     *)
(* them, and what it shows of sums: what holds for all is shown from the   *)
(* least number for which it does not.                                     *)
(***************************************************************************)
EXTENDS Integers, FiniteSetsExt, FiniteSetTheorems, WellFoundedInduction, TLAPS

\* Every set of natural numbers has a least one.
LEMMA LeastNat ==
  ASSUME NEW T \in SUBSET Nat, T # {}
  PROVE  \E n \in T : \A m \in T : n <= m
<1> DEFINE R == OpToRel(<, Nat)
<1>1. IsWellFoundedOn(R, Nat)
  BY NatLessThanWellFounded
<1>2. R = {ss \in Nat \X Nat : ss[1] < ss[2]}
  BY DEF OpToRel
<1> HIDE DEF R
<1>3. PICK x \in T : \A y \in T : <<y, x>> \notin R
  <2>1. \E x \in T : \A y \in T : ~ (<<y, x>> \in R)
    BY <1>1, WFMin
  <2>2. QED
    BY <2>1
<1>4. \A y \in T : x <= y
  <2> SUFFICES ASSUME NEW y \in T, ~(x <= y) PROVE FALSE
    OBVIOUS
  <2>1. y < x /\ y \in Nat /\ x \in Nat
    OBVIOUS
  <2>2. <<y, x>> \in R
    BY <1>2, <2>1
  <2>3. QED
    BY <1>3, <2>2
<1>5. QED
  BY <1>4

\* Every set of numbers up to n has a greatest one.
LEMMA GreatestUpTo ==
  ASSUME NEW n \in Nat, NEW T \in SUBSET (0..n), T # {}
  PROVE  \E k \in T : \A m \in T : m <= k
<1> DEFINE D == {n - k : k \in T}
<1>1. D \in SUBSET Nat /\ D # {}
  <2>1. \A k \in T : k \in 0..n /\ n - k \in Nat
    OBVIOUS
  <2>2. D \subseteq Nat
    BY <2>1
  <2>3. PICK k \in T : TRUE
    OBVIOUS
  <2>4. n - k \in D
    BY <2>3
  <2>5. QED
    BY <2>2, <2>4
<1>2. PICK d \in D : \A e \in D : d <= e
  BY <1>1, LeastNat
<1>3. PICK k \in T : d = n - k
  BY <1>2
<1>4. \A m \in T : m <= k
  <2> TAKE m \in T
  <2>1. n - m \in D
    OBVIOUS
  <2>2. n - k <= n - m
    BY <1>2, <1>3, <2>1
  <2>3. QED
    BY <2>2
<1>5. QED
  BY <1>4

\* A set of numbers up to n that has 0, and k + 1 with k, has them all.
LEMMA UpTo ==
  ASSUME NEW n \in Nat, NEW T, 0 \in T, \A k \in 0..(n - 1) : k \in T => k + 1 \in T
  PROVE  0..n \subseteq T
<1> DEFINE D == (0..n) \ T
<1> SUFFICES ASSUME D # {} PROVE FALSE
  OBVIOUS
<1>1. D \in SUBSET Nat
  OBVIOUS
<1>2. PICK d \in D : \A e \in D : d <= e
  BY <1>1, LeastNat
<1>3. d \in 0..n /\ d \notin T /\ d # 0
  OBVIOUS
<1>4. d - 1 \in 0..(n - 1) /\ d - 1 \notin D
  BY <1>2, <1>3
<1>5. d - 1 \in T
  BY <1>4
<1>6. (d - 1) + 1 \in T
  BY <1>4, <1>5
<1>7. QED
  BY <1>3, <1>6

-----------------------------------------------------------------------------
(* Finite sets *)

\* Of finite sets none is in the way of all: T has every subset of S if it has each of
\* which it has all that lack one element.
LEMMA BySmaller ==
  ASSUME NEW S, IsFiniteSet(S), NEW T,
         \A s \in SUBSET S : (\A x \in s : s \ {x} \in T) => s \in T
  PROVE  SUBSET S \subseteq T
<1> DEFINE Bad == (SUBSET S) \ T
           N   == {Cardinality(s) : s \in Bad}
<1> SUFFICES ASSUME Bad # {} PROVE FALSE
  OBVIOUS
<1>1. \A s \in SUBSET S : IsFiniteSet(s) /\ Cardinality(s) \in Nat
  BY FS_Subset, FS_CardinalityType
<1>2. N \in SUBSET Nat /\ N # {}
  BY <1>1
<1>3. PICK n \in N : \A m \in N : n <= m
  BY <1>2, LeastNat
<1>4. PICK s \in Bad : Cardinality(s) = n
  OBVIOUS
<1>5. PICK x \in s : s \ {x} \notin T
  OBVIOUS
<1>6. Cardinality(s \ {x}) = n - 1 /\ n \in Nat
  BY <1>1, <1>4, <1>5, FS_RemoveElement
<1>7. n - 1 \in N
  BY <1>5, <1>6
<1>8. n <= n - 1
  BY <1>3, <1>7
<1>9. QED
  BY <1>6, <1>8

-----------------------------------------------------------------------------
(* Sums *)

\* The sum of f over S.
Total(f, S) == MapThenSumSet(LAMBDA x : f[x], S)

\* g is the table of the partial sums that MapThenSumSet makes.
Sums(f, S, g) ==
  g = [s \in SUBSET S |-> IF s = {} THEN 0
                          ELSE f[CHOOSE x \in s : TRUE] + g[s \ {CHOOSE x \in s : TRUE}]]

LEMMA TotalMeans ==
  ASSUME NEW f, NEW S
  PROVE  Total(f, S) = (CHOOSE g : Sums(f, S, g))[S]
BY DEF Total, MapThenSumSet, MapThenFoldSet, Sums

\* There is such a table, and it gives numbers.
LEMMA SumsExist ==
  ASSUME NEW S, IsFiniteSet(S), NEW f, \A x \in S : f[x] \in Int
  PROVE  \E g \in [SUBSET S -> Int] : Sums(f, S, g)
<1> DEFINE Pick(s)     == CHOOSE x \in s : TRUE
           Value(s, g) == IF s = {} THEN 0 ELSE f[Pick(s)] + g[s \ {Pick(s)}]
           Small(n)    == {s \in SUBSET S : Cardinality(s) <= n}
           Table(n, g) == g \in [Small(n) -> Int] /\ \A s \in Small(n) : g[s] = Value(s, g)
           size        == Cardinality(S)
           T           == {n \in 0..size : \E g : Table(n, g)}
<1>1. \A s \in SUBSET S : /\ IsFiniteSet(s) /\ Cardinality(s) \in Nat
                          /\ Cardinality(s) <= size /\ (Cardinality(s) = 0 <=> s = {})
  BY FS_Subset, FS_CardinalityType, FS_EmptySet
<1>2. size \in Nat
  BY FS_CardinalityType
<1>3. \A s \in SUBSET S : s # {} => /\ Pick(s) \in s /\ f[Pick(s)] \in Int
                                    /\ s \ {Pick(s)} \in SUBSET S
                                    /\ Cardinality(s \ {Pick(s)}) = Cardinality(s) - 1
  BY <1>1, FS_RemoveElement
<1> HIDE DEF Pick, size
<1>4. 0 \in T
  <2> DEFINE g == [s \in Small(0) |-> 0]
  <2>1. \A s \in Small(0) : s = {}
    BY <1>1
  <2>2. Table(0, g)
    BY <2>1
  <2> HIDE DEF g, Table
  <2>3. QED
    BY <1>2, <2>2
<1>5. ASSUME NEW n \in 0..(size - 1), n \in T PROVE n + 1 \in T
  <2>1. PICK g : Table(n, g)
    BY <1>5
  <2> DEFINE h == [s \in Small(n + 1) |-> IF Cardinality(s) <= n THEN g[s] ELSE Value(s, g)]
  <2>2. \A s \in Small(n + 1) : s # {} => s \ {Pick(s)} \in Small(n)
    BY <1>1, <1>3
  <2>3. \A s \in Small(n + 1) : Cardinality(s) <= n => s \in Small(n)
    OBVIOUS
  <2>4. \A s \in Small(n + 1) : h[s] = Value(s, g)
    BY <2>1, <2>3
  <2>5. \A s \in Small(n + 1) : Value(s, g) \in Int
    BY <1>3, <2>1, <2>2
  <2>6. \A s \in Small(n) : s \in Small(n + 1) /\ h[s] = g[s]
    BY <1>1
  <2>7. \A s \in Small(n + 1) : Value(s, h) = Value(s, g)
    BY <2>2, <2>6
  <2>8. h \in [Small(n + 1) -> Int]
    BY <2>4, <2>5
  <2> HIDE DEF h, Small, Value
  <2>9. Table(n + 1, h)
    BY <2>4, <2>7, <2>8
  <2> HIDE DEF Table
  <2>10. QED
    BY <1>2, <2>9
<1> HIDE DEF T
<1>6. size \in T
  BY <1>2, <1>4, <1>5, UpTo
<1>7. PICK g : Table(size, g)
  BY <1>6 DEF T
<1>8. Small(size) = SUBSET S
  BY <1>1
<1>9. g \in [SUBSET S -> Int] /\ g = [s \in SUBSET S |-> Value(s, g)]
  <2> HIDE DEF Small, Value
  <2>1. QED
    BY <1>7, <1>8
<1>10. Sums(f, S, g)
  BY <1>9 DEF Sums, Pick
<1>11. QED
  BY <1>9, <1>10

\* Two of them agree where both are defined.
LEMMA SumsAgree ==
  ASSUME NEW S, IsFiniteSet(S), NEW R \in SUBSET S, NEW f, NEW g, NEW h,
         Sums(f, S, g), Sums(f, R, h)
  PROVE  \A s \in SUBSET R : h[s] = g[s]
<1> DEFINE T == {s \in SUBSET R : h[s] = g[s]}
           Pick(s) == CHOOSE x \in s : TRUE
<1>1. IsFiniteSet(R)
  BY FS_Subset
<1>2. \A s \in SUBSET R : /\ h[s] = IF s = {} THEN 0 ELSE f[Pick(s)] + h[s \ {Pick(s)}]
                          /\ g[s] = IF s = {} THEN 0 ELSE f[Pick(s)] + g[s \ {Pick(s)}]
  <2>1. \A s \in SUBSET R : h[s] = IF s = {} THEN 0 ELSE f[Pick(s)] + h[s \ {Pick(s)}]
    BY Zenon DEF Sums
  <2>2. \A s \in SUBSET S : g[s] = IF s = {} THEN 0 ELSE f[Pick(s)] + g[s \ {Pick(s)}]
    BY Zenon DEF Sums
  <2>3. QED
    BY <2>1, <2>2
<1>3. \A s \in SUBSET R : s # {} => Pick(s) \in s
  OBVIOUS
<1> HIDE DEF Pick
<1>4. \A s \in SUBSET R : (\A x \in s : s \ {x} \in T) => s \in T
  BY <1>2, <1>3
<1> HIDE DEF T
<1>5. SUBSET R \subseteq T
  BY <1>1, <1>4, BySmaller
<1>6. QED
  BY <1>5 DEF T

\* g has the sums over all parts of S.
Tabled(f, S, g) ==
  /\ g \in [SUBSET S -> Int] /\ Sums(f, S, g)
  /\ \A s \in SUBSET S : Total(f, s) = g[s]

LEMMA TotalByTable ==
  ASSUME NEW S, IsFiniteSet(S), NEW f, \A x \in S : f[x] \in Int
  PROVE  \E g : Tabled(f, S, g)
<1>1. PICK g \in [SUBSET S -> Int] : Sums(f, S, g)
  BY SumsExist
<1>2. ASSUME NEW s \in SUBSET S PROVE Total(f, s) = g[s]
  <2> DEFINE h == CHOOSE h : Sums(f, s, h)
  <2>1. \E k : Sums(f, s, k)
    <3>1. IsFiniteSet(s) /\ \A x \in s : f[x] \in Int
      BY FS_Subset
    <3>2. QED
      BY <3>1, SumsExist
  <2>2. Sums(f, s, h)
    BY <2>1
  <2> HIDE DEF h
  <2>3. h[s] = g[s]
    BY <1>1, <2>2, SumsAgree
  <2>4. QED
    BY <2>3, TotalMeans DEF h
<1>3. QED
  BY <1>1, <1>2 DEF Tabled

\* The sum over a set is that of any of its elements and of the rest.
LEMMA TotalSplits ==
  ASSUME NEW S, IsFiniteSet(S), NEW f, \A x \in S : f[x] \in Int
  PROVE  /\ \A s \in SUBSET S : Total(f, s) \in Int
         /\ Total(f, {}) = 0
         /\ \A s \in SUBSET S : \A x \in s : Total(f, s) = f[x] + Total(f, s \ {x})
<1> DEFINE Pick(s) == CHOOSE x \in s : TRUE
<1>0. PICK g : Tabled(f, S, g)
  BY TotalByTable
<1>1. /\ g \in [SUBSET S -> Int] /\ Sums(f, S, g)
      /\ \A s \in SUBSET S : Total(f, s) = g[s]
  BY <1>0 DEF Tabled
<1>2. \A s \in SUBSET S : g[s] = IF s = {} THEN 0 ELSE f[Pick(s)] + g[s \ {Pick(s)}]
  BY <1>1, Zenon DEF Sums
<1>3. \A s \in SUBSET S : s # {} => Pick(s) \in s
  OBVIOUS
<1> HIDE DEF Pick
<1> DEFINE T == {s \in SUBSET S : \A x \in s : g[s] = f[x] + g[s \ {x}]}
<1>4. ASSUME NEW s \in SUBSET S, \A x \in s : s \ {x} \in T PROVE s \in T
  <2> SUFFICES ASSUME NEW x \in s PROVE g[s] = f[x] + g[s \ {x}]
    OBVIOUS
  <2> DEFINE c == Pick(s)
             r == (s \ {c}) \ {x}
  <2>1. g[s] = f[c] + g[s \ {c}] /\ c \in s
    BY <1>2, <1>3
  <2>2. CASE x = c
    BY <2>1, <2>2
  <2>3. CASE x # c
    <3>1. s \ {c} \in T /\ s \ {x} \in T /\ x \in s \ {c} /\ c \in s \ {x}
      BY <1>4, <2>1, <2>3
    <3>2. g[s \ {c}] = f[x] + g[r]
      BY <3>1
    <3>3. g[s \ {x}] = f[c] + g[r]
      <4>1. r = (s \ {x}) \ {c}
        OBVIOUS
      <4>2. QED
        BY <3>1, <4>1
    <3>4. f[x] \in Int /\ f[c] \in Int /\ g[r] \in Int
      BY <1>1, <2>1
    <3> HIDE DEF c, r
    <3>5. QED
      BY <2>1, <3>2, <3>3, <3>4
  <2>4. QED
    BY <2>2, <2>3
<1> HIDE DEF T
<1>5. SUBSET S \subseteq T
  BY <1>4, BySmaller
<1>6. \A s \in SUBSET S : \A x \in s : Total(f, s) = f[x] + Total(f, s \ {x})
  BY <1>1, <1>5 DEF T
<1>7. \A s \in SUBSET S : Total(f, s) \in Int
  BY <1>1
<1>8. Total(f, {}) = 0
  <2>1. Total(f, {}) = g[{}] /\ g[{}] = 0
    BY <1>1, <1>2
  <2>2. QED
    BY <2>1
<1>9. QED
  BY <1>6, <1>7, <1>8

\* The sum over two sets apart is that of their sums.
LEMMA TotalAdds ==
  ASSUME NEW S, IsFiniteSet(S), NEW f, \A x \in S : f[x] \in Int,
         NEW A \in SUBSET S, NEW B \in SUBSET S, A \cap B = {}
  PROVE  Total(f, A \cup B) = Total(f, A) + Total(f, B)
<1>1. /\ \A s \in SUBSET S : Total(f, s) \in Int
      /\ Total(f, {}) = 0
      /\ \A s \in SUBSET S : \A x \in s : Total(f, s) = f[x] + Total(f, s \ {x})
  BY TotalSplits
<1> DEFINE T == {s \in SUBSET B : Total(f, A \cup s) = Total(f, A) + Total(f, s)}
<1>2. ASSUME NEW s \in SUBSET B, \A x \in s : s \ {x} \in T PROVE s \in T
  <2>1. CASE s = {}
    <3>1. A \cup s = A /\ Total(f, A) \in Int
      BY <1>1, <2>1
    <3>2. Total(f, A \cup s) = Total(f, A) + Total(f, s)
      BY <1>1, <2>1, <3>1
    <3>3. QED
      BY <3>2
  <2>2. CASE s # {}
    <3>1. PICK x \in s : TRUE
      BY <2>2
    <3>2. Total(f, s) = f[x] + Total(f, s \ {x}) /\ Total(f, s \ {x}) \in Int
      BY <1>1, <3>1
    <3>3. Total(f, A \cup s) = f[x] + Total(f, A \cup (s \ {x}))
      <4>1. (A \cup s) \ {x} = A \cup (s \ {x}) /\ A \cup s \in SUBSET S /\ x \in A \cup s
        BY <3>1
      <4>2. QED
        BY <1>1, <4>1
    <3>4. Total(f, A \cup (s \ {x})) = Total(f, A) + Total(f, s \ {x})
      BY <1>2, <3>1
    <3>5. f[x] \in Int /\ Total(f, A) \in Int
      BY <1>1, <3>1
    <3>6. Total(f, A \cup s) = Total(f, A) + Total(f, s)
      BY <3>2, <3>3, <3>4, <3>5
    <3>7. QED
      BY <3>6
  <2>3. QED
    BY <2>1, <2>2
<1> HIDE DEF T
<1>3. IsFiniteSet(B)
  BY FS_Subset
<1>4. SUBSET B \subseteq T
  BY <1>2, <1>3, BySmaller
<1>5. QED
  BY <1>4 DEF T

LEMMA Opposite == 0 - 0 = 0 /\ \A n \in Int : -n = 0 - n
OBVIOUS

\* The members of S that are of a class in K.
Among(S, class, K) == {x \in S : class[x] \in K}

\* e has for each class c of K the sum of f over its members in S, with the opposite sign.
Classed(e, K, f, S, class) ==
  /\ IsFiniteSet(S) /\ IsFiniteSet(K)
  /\ \A x \in S : f[x] \in Int
  /\ \A c \in K : e[c] = -Total(f, Among(S, class, {c}))

\* Summed up by classes.
LEMMA TotalByClass ==
  ASSUME NEW S, NEW f, NEW class, NEW K, NEW e, Classed(e, K, f, S, class)
  PROVE  Total(e, K) = -Total(f, Among(S, class, K))
<1>0. /\ IsFiniteSet(S) /\ IsFiniteSet(K)
      /\ \A x \in S : f[x] \in Int
      /\ \A c \in K : e[c] = -Total(f, Among(S, class, {c}))
  BY DEF Classed
<1> DEFINE In(L) == Among(S, class, L)
           Of(c) == Among(S, class, {c})
           T     == {L \in SUBSET K : Total(e, L) = -Total(f, In(L))}
<1>1. (\A s \in SUBSET S : Total(f, s) \in Int) /\ Total(f, {}) = 0
  BY <1>0, TotalSplits
<1>2. \A c \in K : e[c] \in Int /\ e[c] = -Total(f, Of(c))
  BY <1>0, <1>1 DEF Among
<1>3. /\ Total(e, {}) = 0 /\ \A L \in SUBSET K : Total(e, L) \in Int
      /\ \A L \in SUBSET K : \A c \in L : Total(e, L) = e[c] + Total(e, L \ {c})
  <2>1. \A c \in K : e[c] \in Int
    BY <1>2
  <2>2. QED
    BY <1>0, <2>1, TotalSplits
<1>4. ASSUME NEW L \in SUBSET K, \A c \in L : L \ {c} \in T PROVE L \in T
  <2>1. CASE L = {}
    <3>1. In(L) = {}
      BY <2>1 DEF Among
    <3> HIDE DEF In
    <3>2. Total(e, L) = 0 /\ Total(f, In(L)) = 0
      BY <1>1, <1>3, <2>1, <3>1
    <3>3. Total(f, In(L)) \in Int
      BY <3>2
    <3>4. -Total(f, In(L)) = 0 - Total(f, In(L))
      BY <3>3, Opposite
    <3>5. 0 - Total(f, In(L)) = 0 - 0
      BY <3>2
    <3>6. Total(e, L) = -Total(f, In(L))
      BY <3>2, <3>4, <3>5, Opposite, Zenon
    <3>7. QED
      BY <3>6
  <2>2. CASE L # {}
    <3>1. PICK c \in L : TRUE
      BY <2>2
    <3>2. In(L) = In(L \ {c}) \cup Of(c) /\ In(L \ {c}) \cap Of(c) = {}
      BY <3>1 DEF Among
    <3>3. In(L \ {c}) \in SUBSET S /\ Of(c) \in SUBSET S
      BY DEF Among
    <3>4. Total(e, L \ {c}) = -Total(f, In(L \ {c}))
      BY <1>4, <3>1
    <3> HIDE DEF In, Of
    <3>5. Total(f, In(L)) = Total(f, In(L \ {c})) + Total(f, Of(c))
      <4> DEFINE A == In(L \ {c})
                 B == Of(c)
      <4>1. A \in SUBSET S /\ B \in SUBSET S /\ A \cap B = {} /\ In(L) = A \cup B
        BY <3>2, <3>3
      <4> HIDE DEF A, B
      <4>2. Total(f, A \cup B) = Total(f, A) + Total(f, B)
        BY <1>0, <4>1, TotalAdds
      <4>3. QED
        BY <4>1, <4>2 DEF A, B
    <3>6. Total(e, L) = e[c] + Total(e, L \ {c}) /\ e[c] = -Total(f, Of(c))
      BY <1>2, <1>3, <3>1
    <3>7. Total(f, In(L \ {c})) \in Int /\ Total(f, Of(c)) \in Int
      BY <1>1, <3>3
    <3>8. Total(e, L) = -Total(f, In(L))
      BY <3>4, <3>5, <3>6, <3>7
    <3>9. QED
      BY <3>8
  <2>3. QED
    BY <2>1, <2>2
<1> HIDE DEF T
<1>5. SUBSET K \subseteq T
  BY <1>0, <1>4, BySmaller
<1>6. QED
  BY <1>5 DEF T
=============================================================================
