--------------------------- MODULE DataInduction ----------------------------
(***************************************************************************)
(* Induction over numbers and finite sets, stated over sets so that the    *)
(* provers can use it: the existence of functions defined by recursion, and*)
(* the facts on images, division, sums, extremes and ranks that the proofs *)
(* about the models need.                                                  *)
(***************************************************************************)
EXTENDS Integers, Sequences, FiniteSets, FiniteSetTheorems, WellFoundedInduction, TLAPS

Less == {ss \in Nat \X Nat : ss[1] < ss[2]}

(* The numbers are well-founded.                                           *)
LEMMA LessWellFounded == IsWellFoundedOn(Less, Nat)
  BY NatLessThanWellFounded DEF OpToRel, Less

(* A set of numbers that is not empty has a least element.                 *)
LEMMA LeastNumber ==
    ASSUME NEW T \in SUBSET Nat, T # {}
    PROVE  \E m \in T : \A k \in T : m <= k
<1>1. PICK m \in T : \A k \in T : ~ (<<k, m>> \in Less)
  BY LessWellFounded, WFMin
<1>2. ASSUME NEW k \in T PROVE m <= k
  <2>1. <<k, m>> \notin Less
    BY <1>1
  <2>2. k < m => <<k, m>> \in Less
    BY DEF Less
  <2> QED
    BY <2>1, <2>2
<1> QED
  BY <1>2

(* A set that holds 0, and n + 1 with every n, holds every number.         *)
LEMMA NumberInduction ==
    ASSUME NEW S, 0 \in S, \A n \in Nat : n \in S => n + 1 \in S
    PROVE  Nat \subseteq S
<1> DEFINE T == Nat \ S
<1> SUFFICES ASSUME T # {} PROVE FALSE
  OBVIOUS
<1>1. T \in SUBSET Nat
  OBVIOUS
<1>2. PICK m \in T : \A k \in T : m <= k
  <2> HIDE DEF T
  <2> QED
    BY <1>1, LeastNumber
<1>3. m - 1 \in Nat /\ m - 1 \in S
  BY <1>2
<1> QED
  BY <1>2, <1>3

(* A function from 0 to N given by its first value and its steps exists:   *)
(* G[m] takes the value at m - 1 to the value at m.                        *)
Steps(G, V, N)     == \A m \in 1..N : \A v \in V : G[m][v] \in V
Recurs(f, z, G, N) == f[0] = z /\ \A m \in 1..N : f[m] = G[m][f[m - 1]]

(* A recursion over 0..N has a solution.                                  *)
LEMMA Recursion ==
    ASSUME NEW V, NEW z \in V, NEW G, NEW N \in Nat, Steps(G, V, N)
    PROVE  \E f \in [0..N -> V] : Recurs(f, z, G, N)
<1> USE DEF Steps, Recurs
<1> DEFINE R(f, n) == f[0] = z /\ \A m \in 1..n : f[m] = G[m][f[m - 1]]
           P == {n \in Nat : n <= N => \E f \in [0..n -> V] : R(f, n)}
<1>1. 0 \in P
  <2>1. [m \in 0..0 |-> z] \in [0..0 -> V] /\ R([m \in 0..0 |-> z], 0)
    OBVIOUS
  <2> QED
    BY <2>1
<1>2. ASSUME NEW n \in Nat, n \in P PROVE n + 1 \in P
  <2> SUFFICES ASSUME n + 1 <= N PROVE \E f \in [0..n+1 -> V] : R(f, n + 1)
    OBVIOUS
  <2>1. PICK f \in [0..n -> V] : R(f, n)
    BY <1>2
  <2> DEFINE g == [m \in 0..n+1 |-> IF m = n + 1 THEN G[m][f[m - 1]] ELSE f[m]]
  <2>2. g \in [0..n+1 -> V]
    OBVIOUS
  <2>3. R(g, n + 1)
    <3>1. g[0] = z
      BY <2>1
    <3>2. ASSUME NEW m \in 1..n PROVE g[m] = G[m][g[m - 1]]
      <4>1. g[m] = f[m] /\ g[m - 1] = f[m - 1]
        OBVIOUS
      <4> QED
        BY <2>1, <4>1
    <3>3. g[n + 1] = G[n + 1][g[n]]
      OBVIOUS
    <3> HIDE DEF g
    <3> QED
      BY <3>1, <3>2, <3>3
  <2> HIDE DEF g, R
  <2> QED
    BY <2>2, <2>3
<1> HIDE DEF P
<1>3. Nat \subseteq P
  BY <1>1, <1>2, NumberInduction
<1> QED
  BY <1>3 DEF P

(* What a function takes on a finite domain is finite, and no more.        *)
LEMMA ImageFinite ==
    ASSUME NEW f, IsFiniteSet(DOMAIN f)
    PROVE  /\ IsFiniteSet({f[x] : x \in DOMAIN f})
           /\ Cardinality({f[x] : x \in DOMAIN f}) <= Cardinality(DOMAIN f)
<1> DEFINE g == [x \in DOMAIN f |-> f[x]]
           T == {f[x] : x \in DOMAIN f}
<1>1. g \in Surjection(DOMAIN f, T)
  BY DEF Surjection
<1> HIDE DEF g, T
<1>2. IsFiniteSet(T) /\ Cardinality(T) <= Cardinality(DOMAIN f)
  BY <1>1, FS_Surjection
<1> QED
  BY <1>2 DEF T

(* Of the quotient and the remainder.                                      *)
LEMMA DivisionRange ==
    ASSUME NEW k \in Nat, NEW l \in Nat, NEW r \in Nat, k < l * r, r > 0
    PROVE  k \div r \in 0..l-1
<1>1. k \div r \in Nat /\ k = r * (k \div r) + (k % r) /\ k % r \in 0..r-1
  OBVIOUS
<1>2. ASSUME k \div r >= l PROVE FALSE
  <2> DEFINE q == k \div r
  <2>1. r * q >= r * l
    BY <1>1, <1>2
  <2> QED
    BY <1>1, <2>1
<1> QED
  BY <1>1, <1>2

----------------------------------------------------------------------------
(* A family of subsets of a finite set that holds the empty set, and a set  *)
(* with each further element, holds the set itself.                         *)
LEMMA SubsetInduction ==
    ASSUME NEW S, IsFiniteSet(S), NEW P, {} \in P,
           \A T \in SUBSET S : \A x \in S \ T : T \in P => T \cup {x} \in P
    PROVE  \A T \in SUBSET S : T \in P
<1> DEFINE Q == {n \in Nat : \A T \in SUBSET S : Cardinality(T) = n => T \in P}
<1>0. \A T \in SUBSET S : IsFiniteSet(T) /\ Cardinality(T) \in Nat
  BY FS_Subset, FS_CardinalityType
<1>1. 0 \in Q
  <2>1. ASSUME NEW T \in SUBSET S, Cardinality(T) = 0 PROVE T \in P
    <3>1. T = {}
      BY <1>0, <2>1, FS_EmptySet
    <3> QED
      BY <3>1
  <2> QED
    BY <2>1
<1>2. ASSUME NEW n \in Nat, n \in Q PROVE n + 1 \in Q
  <2>1. ASSUME NEW T \in SUBSET S, Cardinality(T) = n + 1 PROVE T \in P
    <3>1. T # {}
      <4>1. Cardinality({}) = 0 /\ n + 1 # 0
        BY FS_EmptySet
      <4> QED
        BY <2>1, <4>1
    <3> PICK x \in T : TRUE
      BY <3>1
    <3>2. Cardinality(T \ {x}) = n
      <4>1. Cardinality(T \ {x}) = Cardinality(T) - 1
        BY <1>0, FS_RemoveElement
      <4> QED
        BY <2>1, <4>1
    <3>3. T \ {x} \in P
      BY <1>2, <3>2
    <3>4. (T \ {x}) \cup {x} \in P
      BY <3>3
    <3>5. (T \ {x}) \cup {x} = T
      OBVIOUS
    <3> QED
      BY <3>4, <3>5
  <2> QED
    BY <2>1
<1> HIDE DEF Q
<1>3. Nat \subseteq Q
  BY <1>1, <1>2, NumberInduction
<1>4. SUFFICES ASSUME NEW T \in SUBSET S PROVE T \in P
  OBVIOUS
<1>5. Cardinality(T) \in Q
  BY <1>0, <1>3
<1> QED
  BY <1>5 DEF Q

----------------------------------------------------------------------------
(* Sums.  Adds(h, g, S): h gives the sum of g over each part of S.          *)
Adds(h, g, S) ==
    /\ h \in [SUBSET S -> Int]
    /\ h[{}] = 0
    /\ \A T \in SUBSET S : \A x \in S \ T : h[T \cup {x}] = h[T] + g[x]

(* The sum over a set as the fold computes it, one chosen element at a time. *)
IsFoldOfSum(h, g, S) ==
    h = [s \in SUBSET S |-> IF s = {} THEN 0
                            ELSE g[CHOOSE x \in s : TRUE] + h[s \ {CHOOSE x \in s : TRUE}]]

(* The sum of the community modules is a fold over the whole set.         *)
LEMMA SumIsFold ==
    ASSUME NEW g, NEW S
    PROVE  SumFunctionOnSet(g, S) = (CHOOSE h : IsFoldOfSum(h, g, S))[S]
  BY DEF SumFunctionOnSet, FoldFunctionOnSet, MapThenFoldSet, IsFoldOfSum

(* As many units as the positive values of g over T have.                    *)
Units(g, T) == UNION {{x} \X (1..g[x]) : x \in T}

(* One more element has its own units more.                               *)
LEMMA UnitsAdd ==
    ASSUME NEW S, IsFiniteSet(S), NEW g \in [S -> Int]
    PROVE  /\ Units(g, {}) = {}
           /\ \A T \in SUBSET S : IsFiniteSet(Units(g, T)) /\ Cardinality(Units(g, T)) \in Nat
           /\ \A T \in SUBSET S : \A x \in S \ T :
                  Cardinality(Units(g, T \cup {x}))
                      = Cardinality(Units(g, T)) + (IF g[x] > 0 THEN g[x] ELSE 0)
<1>1. Units(g, {}) = {}
  BY DEF Units
<1>2. ASSUME NEW x \in S
      PROVE  /\ IsFiniteSet({x} \X (1..g[x]))
             /\ Cardinality({x} \X (1..g[x])) = IF g[x] > 0 THEN g[x] ELSE 0
  <2>1. g[x] \in Int
    OBVIOUS
  <2>2. IsFiniteSet(1..g[x]) /\ Cardinality(1..g[x]) = IF g[x] > 0 THEN g[x] ELSE 0
    BY <2>1, FS_Interval
  <2>3. IsFiniteSet({x}) /\ Cardinality({x}) = 1
    BY FS_Singleton
  <2>4. /\ IsFiniteSet({x} \X (1..g[x]))
        /\ Cardinality({x} \X (1..g[x])) = Cardinality({x}) * Cardinality(1..g[x])
    BY <2>2, <2>3, FS_Product
  <2> QED
    BY <2>1, <2>2, <2>3, <2>4
<1>3. ASSUME NEW T \in SUBSET S, NEW x \in S \ T
      PROVE  /\ Units(g, T \cup {x}) = Units(g, T) \cup ({x} \X (1..g[x]))
             /\ Units(g, T) \cap ({x} \X (1..g[x])) = {}
  BY DEF Units
<1>4. \A T \in SUBSET S : IsFiniteSet(Units(g, T))
  <2> DEFINE P == {T \in SUBSET S : IsFiniteSet(Units(g, T))}
  <2>1. {} \in P
    BY <1>1, FS_EmptySet
  <2>2. ASSUME NEW T \in SUBSET S, NEW x \in S \ T, T \in P PROVE T \cup {x} \in P
    <3>1. IsFiniteSet(Units(g, T)) /\ IsFiniteSet({x} \X (1..g[x]))
      BY <1>2, <2>2
    <3>2. IsFiniteSet(Units(g, T) \cup ({x} \X (1..g[x])))
      BY <3>1, FS_Union
    <3> QED
      BY <1>3, <3>2
  <2> HIDE DEF P
  <2>3. \A T \in SUBSET S : T \in P
    BY <2>1, <2>2, SubsetInduction
  <2> QED
    BY <2>3 DEF P
<1>5. ASSUME NEW T \in SUBSET S, NEW x \in S \ T
      PROVE  Cardinality(Units(g, T \cup {x}))
                 = Cardinality(Units(g, T)) + (IF g[x] > 0 THEN g[x] ELSE 0)
  <2> DEFINE U == Units(g, T)
             V == {x} \X (1..g[x])
  <2>1. IsFiniteSet(U) /\ IsFiniteSet(V)
    BY <1>2, <1>4
  <2>2. U \cap V = {} /\ Cardinality({}) = 0
    BY <1>3, FS_EmptySet
  <2>3. Cardinality(V) = IF g[x] > 0 THEN g[x] ELSE 0
    BY <1>2
  <2>4. Units(g, T \cup {x}) = U \cup V
    BY <1>3
  <2> HIDE DEF U, V
  <2>5. Cardinality(U \cup V) = Cardinality(U) + Cardinality(V) - Cardinality(U \cap V)
    BY <2>1, FS_Union
  <2>6. Cardinality(U) \in Nat /\ Cardinality(V) \in Nat
    BY <2>1, FS_CardinalityType
  <2>7. Cardinality(U \cup V) = Cardinality(U) + Cardinality(V)
    <3>1. Cardinality(U \cap V) = 0
      BY <2>2
    <3> QED
      BY <2>5, <2>6, <3>1
  <2> QED
    BY <2>3, <2>4, <2>7 DEF U
<1>6. \A T \in SUBSET S : Cardinality(Units(g, T)) \in Nat
  <2> SUFFICES ASSUME NEW T \in SUBSET S PROVE Cardinality(Units(g, T)) \in Nat
    OBVIOUS
  <2> QED
    BY <1>4, FS_CardinalityType
<1> QED
  BY <1>1, <1>4, <1>5, <1>6

(* Every sum over a finite set exists, and is what the fold computes.        *)
LEMMA SumAdds ==
    ASSUME NEW S, IsFiniteSet(S), NEW g \in [S -> Int]
    PROVE  \E h : Adds(h, g, S) /\ \A T \in SUBSET S : SumFunctionOnSet(g, T) = h[T]
<1> DEFINE minus == [x \in S |-> 0 - g[x]]
           h == [T \in SUBSET S |-> Cardinality(Units(g, T)) - Cardinality(Units(minus, T))]
<1>1. minus \in [S -> Int] /\ \A x \in S : minus[x] = 0 - g[x]
  OBVIOUS
<1>2. /\ Units(minus, {}) = {}
      /\ \A T \in SUBSET S : Cardinality(Units(minus, T)) \in Nat
      /\ \A T \in SUBSET S : \A x \in S \ T :
            Cardinality(Units(minus, T \cup {x}))
                = Cardinality(Units(minus, T)) + (IF minus[x] > 0 THEN minus[x] ELSE 0)
  <2> HIDE DEF minus
  <2> QED
    BY <1>1, UnitsAdd
<1>3. /\ Units(g, {}) = {}
      /\ \A T \in SUBSET S : Cardinality(Units(g, T)) \in Nat
      /\ \A T \in SUBSET S : \A x \in S \ T :
            Cardinality(Units(g, T \cup {x}))
                = Cardinality(Units(g, T)) + (IF g[x] > 0 THEN g[x] ELSE 0)
  BY UnitsAdd
<1> HIDE DEF minus
<1>4. Adds(h, g, S)
  <2>1. h \in [SUBSET S -> Int]
    BY <1>2, <1>3
  <2>2. h[{}] = 0
    <3>1. h[{}] = Cardinality({}) - Cardinality({}) /\ Cardinality({}) = 0
      BY <1>2, <1>3, FS_EmptySet
    <3> QED
      BY <3>1
  <2>3. ASSUME NEW T \in SUBSET S, NEW x \in S \ T PROVE h[T \cup {x}] = h[T] + g[x]
    <3>1. g[x] \in Int /\ minus[x] = 0 - g[x] /\ T \cup {x} \in SUBSET S
      BY <1>1
    <3>2. /\ Cardinality(Units(g, T)) \in Nat
          /\ Cardinality(Units(minus, T)) \in Nat
      BY <1>2, <1>3
    <3>3. Cardinality(Units(g, T \cup {x}))
                = Cardinality(Units(g, T)) + (IF g[x] > 0 THEN g[x] ELSE 0)
      BY <1>3
    <3>4. Cardinality(Units(minus, T \cup {x}))
                = Cardinality(Units(minus, T)) + (IF minus[x] > 0 THEN minus[x] ELSE 0)
      BY <1>2
    <3> QED
      BY <3>1, <3>2, <3>3, <3>4
  <2> HIDE DEF h
  <2> QED
    BY <2>1, <2>2, <2>3 DEF Adds
<1> HIDE DEF h
<1>5. ASSUME NEW R \in SUBSET S PROVE SumFunctionOnSet(g, R) = h[R]
  <2> DEFINE k == [T \in SUBSET R |-> h[T]]
             H == CHOOSE f : IsFoldOfSum(f, g, R)
  <2>1. IsFiniteSet(R)
    BY FS_Subset
  <2>2. IsFoldOfSum(k, g, R)
    <3>1. ASSUME NEW s \in SUBSET R
          PROVE  k[s] = IF s = {} THEN 0
                        ELSE g[CHOOSE x \in s : TRUE] + k[s \ {CHOOSE x \in s : TRUE}]
      <4>1. CASE s = {}
        BY <1>4, <4>1 DEF Adds
      <4>2. CASE s # {}
        <5> DEFINE c == CHOOSE x \in s : TRUE
        <5>1. c \in s
          BY <4>2
        <5> HIDE DEF c
        <5>2. h[(s \ {c}) \cup {c}] = h[s \ {c}] + g[c]
          BY <1>4, <5>1 DEF Adds
        <5>3. (s \ {c}) \cup {c} = s
          BY <5>1
        <5>4. h[s \ {c}] \in Int /\ g[c] \in Int
          BY <1>4, <5>1 DEF Adds
        <5>5. h[s] = g[c] + h[s \ {c}]
          <6>1. h[s] = h[(s \ {c}) \cup {c}]
            BY <5>3
          <6> QED
            BY <5>2, <5>4, <6>1
        <5>6. k[s] = h[s] /\ k[s \ {c}] = h[s \ {c}]
          OBVIOUS
        <5>7. k[s] = g[c] + k[s \ {c}]
          BY <5>5, <5>6
        <5> HIDE DEF k
        <5> QED
          BY <4>2, <5>7 DEF c
      <4> QED
        BY <4>1, <4>2
    <3>2. k = [s \in SUBSET R |-> k[s]]
      OBVIOUS
    <3> HIDE DEF k
    <3> QED
      BY <3>1, <3>2 DEF IsFoldOfSum
  <2> HIDE DEF k
  <2>3. IsFoldOfSum(H, g, R)
    BY <2>2
  <2> HIDE DEF H
  <2>4. ASSUME NEW s \in SUBSET R
        PROVE  /\ H[{}] = 0
               /\ s # {} => H[s] = g[CHOOSE x \in s : TRUE] + H[s \ {CHOOSE x \in s : TRUE}]
               /\ k[{}] = 0
               /\ s # {} => k[s] = g[CHOOSE x \in s : TRUE] + k[s \ {CHOOSE x \in s : TRUE}]
    <3>1. \A f : IsFoldOfSum(f, g, R) =>
              /\ f[{}] = 0
              /\ s # {} => f[s] = g[CHOOSE x \in s : TRUE] + f[s \ {CHOOSE x \in s : TRUE}]
      BY DEF IsFoldOfSum
    <3> QED
      BY <2>2, <2>3, <3>1
  <2> DEFINE P == {n \in Nat : \A s \in SUBSET R : Cardinality(s) = n => H[s] = k[s]}
  <2>5. 0 \in P
    <3>1. ASSUME NEW s \in SUBSET R, Cardinality(s) = 0 PROVE s = {}
      BY <2>1, <3>1, FS_Subset, FS_EmptySet
    <3> QED
      BY <2>4, <3>1
  <2>6. ASSUME NEW n \in Nat, n \in P PROVE n + 1 \in P
    <3>1. ASSUME NEW s \in SUBSET R, Cardinality(s) = n + 1 PROVE H[s] = k[s]
      <4>1. s # {}
        <5>1. Cardinality({}) = 0 /\ n + 1 # 0
          BY FS_EmptySet
        <5> QED
          BY <3>1, <5>1
      <4> DEFINE c == CHOOSE x \in s : TRUE
      <4>2. c \in s
        BY <4>1
      <4>3. H[s] = g[c] + H[s \ {c}] /\ k[s] = g[c] + k[s \ {c}]
        BY <2>4, <4>1
      <4> HIDE DEF c
      <4>4. Cardinality(s \ {c}) = n
        <5>1. IsFiniteSet(s)
          BY <2>1, FS_Subset
        <5>2. Cardinality(s \ {c}) = Cardinality(s) - 1
          BY <4>2, <5>1, FS_RemoveElement
        <5> QED
          BY <3>1, <5>2
      <4>5. H[s \ {c}] = k[s \ {c}]
        BY <2>6, <4>4
      <4> QED
        BY <4>3, <4>5
    <3> QED
      BY <3>1
  <2> HIDE DEF P
  <2>7. Nat \subseteq P
    BY <2>5, <2>6, NumberInduction
  <2>8. Cardinality(R) \in Nat
    BY <2>1, FS_CardinalityType
  <2>9. H[R] = k[R]
    BY <2>7, <2>8 DEF P
  <2>10. SumFunctionOnSet(g, R) = H[R]
    BY SumIsFold DEF H
  <2> QED
    BY <2>9, <2>10 DEF k
<1> QED
  BY <1>4, <1>5

(* A sum over a finite set is reached by adding one element at a time.    *)
LEMMA SumIsAdds ==
    ASSUME NEW S, IsFiniteSet(S), NEW g \in [S -> Int]
    PROVE  \E h : Adds(h, g, S) /\ SumFunction(g) = h[S]
<1>1. PICK h : Adds(h, g, S) /\ \A T \in SUBSET S : SumFunctionOnSet(g, T) = h[T]
  BY SumAdds
<1>2. SumFunction(g) = SumFunctionOnSet(g, S)
  BY DEF SumFunction
<1> QED
  BY <1>1, <1>2

(* A sum of integers is an integer.                                          *)
LEMMA SumType ==
    ASSUME NEW S, IsFiniteSet(S), NEW g \in [S -> Int]
    PROVE  SumFunction(g) \in Int
<1>1. PICK h : Adds(h, g, S) /\ SumFunction(g) = h[S]
  BY SumIsAdds
<1> QED
  BY <1>1 DEF Adds

(* A sum of larger terms is larger.                                          *)
LEMMA SumMonotone ==
    ASSUME NEW S, IsFiniteSet(S), NEW f \in [S -> Int], NEW g \in [S -> Int],
           \A x \in S : f[x] <= g[x]
    PROVE  SumFunction(f) <= SumFunction(g)
<1>1. PICK h : Adds(h, f, S) /\ SumFunction(f) = h[S]
  BY SumIsAdds
<1>2. PICK k : Adds(k, g, S) /\ SumFunction(g) = k[S]
  BY SumIsAdds
<1> DEFINE P == {T \in SUBSET S : h[T] <= k[T]}
<1>3. {} \in P
  BY <1>1, <1>2 DEF Adds
<1>4. ASSUME NEW T \in SUBSET S, NEW x \in S \ T, T \in P PROVE T \cup {x} \in P
  <2>1. h[T \cup {x}] = h[T] + f[x] /\ k[T \cup {x}] = k[T] + g[x]
    BY <1>1, <1>2 DEF Adds
  <2>2. h[T] \in Int /\ k[T] \in Int /\ f[x] \in Int /\ g[x] \in Int
    BY <1>1, <1>2 DEF Adds
  <2>3. h[T] <= k[T] /\ f[x] <= g[x]
    BY <1>4
  <2> QED
    BY <2>1, <2>2, <2>3
<1> HIDE DEF P
<1>5. S \in P
  BY <1>3, <1>4, SubsetInduction
<1> QED
  BY <1>1, <1>2, <1>5 DEF P

(* The difference of two sums is the sum of the differences.                 *)
LEMMA SumDifference ==
    ASSUME NEW S, IsFiniteSet(S), NEW f \in [S -> Int], NEW g \in [S -> Int],
           NEW d \in [S -> Int], \A x \in S : d[x] = f[x] - g[x]
    PROVE  SumFunction(d) = SumFunction(f) - SumFunction(g)
<1>1. PICK h : Adds(h, f, S) /\ SumFunction(f) = h[S]
  BY SumIsAdds
<1>2. PICK k : Adds(k, g, S) /\ SumFunction(g) = k[S]
  BY SumIsAdds
<1>3. PICK l : Adds(l, d, S) /\ SumFunction(d) = l[S]
  BY SumIsAdds
<1> DEFINE P == {T \in SUBSET S : l[T] = h[T] - k[T]}
<1>4. {} \in P
  BY <1>1, <1>2, <1>3 DEF Adds
<1>5. ASSUME NEW T \in SUBSET S, NEW x \in S \ T, T \in P PROVE T \cup {x} \in P
  <2>1. /\ h[T \cup {x}] = h[T] + f[x] /\ k[T \cup {x}] = k[T] + g[x]
        /\ l[T \cup {x}] = l[T] + d[x]
    BY <1>1, <1>2, <1>3 DEF Adds
  <2>2. h[T] \in Int /\ k[T] \in Int /\ f[x] \in Int /\ g[x] \in Int
    BY <1>1, <1>2 DEF Adds
  <2>3. l[T] = h[T] - k[T] /\ d[x] = f[x] - g[x]
    BY <1>5
  <2> QED
    BY <2>1, <2>2, <2>3
<1> HIDE DEF P
<1>6. S \in P
  BY <1>4, <1>5, SubsetInduction
<1> QED
  BY <1>1, <1>2, <1>3, <1>6 DEF P

(* Renaming the terms leaves the sum.                                        *)
LEMMA SumRename ==
    ASSUME NEW S, IsFiniteSet(S), NEW T, IsFiniteSet(T), NEW b \in Bijection(S, T),
           NEW g \in [S -> Int], NEW f \in [T -> Int], \A x \in S : g[x] = f[b[x]]
    PROVE  SumFunction(g) = SumFunction(f)
<1>1. PICK h : Adds(h, g, S) /\ SumFunction(g) = h[S]
  BY SumIsAdds
<1>2. PICK k : Adds(k, f, T) /\ SumFunction(f) = k[T]
  BY SumIsAdds
<1> DEFINE Image(U) == {b[x] : x \in U}
           P == {U \in SUBSET S : h[U] = k[Image(U)]}
<1>3. /\ b \in [S -> T] /\ \A x, y \in S : b[x] = b[y] => x = y
      /\ \A y \in T : \E x \in S : b[x] = y
  BY DEF Bijection, Injection, Surjection, IsInjective
<1>4. {} \in P
  <2>1. Image({}) = {}
    OBVIOUS
  <2> HIDE DEF Image
  <2> QED
    BY <1>1, <1>2, <2>1 DEF Adds
<1>5. ASSUME NEW U \in SUBSET S, NEW x \in S \ U, U \in P PROVE U \cup {x} \in P
  <2>1. Image(U \cup {x}) = Image(U) \cup {b[x]} /\ Image(U) \in SUBSET T
        /\ b[x] \in T \ Image(U)
    BY <1>3
  <2>2. h[U \cup {x}] = h[U] + g[x]
    BY <1>1 DEF Adds
  <2>3. k[Image(U) \cup {b[x]}] = k[Image(U)] + f[b[x]]
    <3> HIDE DEF Image
    <3> QED
      BY <1>2, <2>1 DEF Adds
  <2>4. h[U] = k[Image(U)] /\ g[x] = f[b[x]]
    BY <1>5
  <2>5. h[U \cup {x}] = k[Image(U \cup {x})]
    <3> HIDE DEF Image
    <3>1. k[Image(U \cup {x})] = k[Image(U) \cup {b[x]}]
      BY <2>1
    <3> QED
      BY <2>2, <2>3, <2>4, <3>1
  <2> QED
    BY <2>5
<1> HIDE DEF P
<1>6. S \in P
  BY <1>4, <1>5, SubsetInduction
<1>7. Image(S) = T
  BY <1>3
<1> QED
  BY <1>1, <1>2, <1>6, <1>7 DEF P

(* Terms that are zero may be left out.                                      *)
LEMMA SumZeros ==
    ASSUME NEW S, IsFiniteSet(S), NEW R \in SUBSET S,
           NEW g \in [S -> Int], NEW f \in [R -> Int],
           \A x \in S : g[x] = IF x \in R THEN f[x] ELSE 0
    PROVE  SumFunction(g) = SumFunction(f)
<1>0. IsFiniteSet(R)
  BY FS_Subset
<1>1. PICK h : Adds(h, g, S) /\ SumFunction(g) = h[S]
  BY SumIsAdds
<1>2. PICK k : Adds(k, f, R) /\ SumFunction(f) = k[R]
  BY <1>0, SumIsAdds
<1> DEFINE P == {U \in SUBSET S : h[U] = k[U \cap R]}
<1>3. {} \in P
  <2>1. {} \cap R = {}
    OBVIOUS
  <2> QED
    BY <1>1, <1>2, <2>1 DEF Adds
<1>4. ASSUME NEW U \in SUBSET S, NEW x \in S \ U, U \in P PROVE U \cup {x} \in P
  <2>1. h[U \cup {x}] = h[U] + g[x] /\ h[U] \in Int
    BY <1>1 DEF Adds
  <2>2. h[U] = k[U \cap R]
    BY <1>4
  <2>3. CASE x \in R
    <3>1. (U \cup {x}) \cap R = (U \cap R) \cup {x} /\ x \in R \ (U \cap R)
          /\ U \cap R \in SUBSET R
      BY <2>3
    <3>2. k[(U \cap R) \cup {x}] = k[U \cap R] + f[x]
      BY <1>2, <3>1 DEF Adds
    <3>3. k[(U \cup {x}) \cap R] = k[(U \cap R) \cup {x}]
      BY <3>1
    <3> QED
      BY <2>1, <2>2, <2>3, <3>2, <3>3
  <2>4. CASE x \notin R
    <3>1. (U \cup {x}) \cap R = U \cap R
      BY <2>4
    <3>2. k[(U \cup {x}) \cap R] = k[U \cap R]
      BY <3>1
    <3> QED
      BY <2>1, <2>2, <2>4, <3>2
  <2> QED
    BY <2>3, <2>4
<1> HIDE DEF P
<1>5. S \in P
  BY <1>3, <1>4, SubsetInduction
<1>6. S \cap R = R
  OBVIOUS
<1> QED
  BY <1>1, <1>2, <1>5, <1>6 DEF P

(* A sum of ones counts them.                                                *)
LEMMA SumCounts ==
    ASSUME NEW S, IsFiniteSet(S), NEW R \in SUBSET S, NEW g \in [S -> Int],
           \A x \in S : g[x] = IF x \in R THEN 1 ELSE 0
    PROVE  SumFunction(g) = Cardinality(R)
<1>1. PICK h : Adds(h, g, S) /\ SumFunction(g) = h[S]
  BY SumIsAdds
<1> DEFINE P == {U \in SUBSET S : h[U] = Cardinality(U \cap R)}
<1>3. {} \in P
  <2>1. {} \cap R = {}
    OBVIOUS
  <2> QED
    BY <1>1, <2>1, FS_EmptySet DEF Adds
<1>4. ASSUME NEW U \in SUBSET S, NEW x \in S \ U, U \in P PROVE U \cup {x} \in P
  <2>1. h[U \cup {x}] = h[U] + g[x] /\ h[U] \in Int
    BY <1>1 DEF Adds
  <2>2. h[U] = Cardinality(U \cap R) /\ IsFiniteSet(U \cap R)
    <3>1. U \cap R \in SUBSET S
      OBVIOUS
    <3>2. IsFiniteSet(U \cap R)
      BY <3>1, FS_Subset
    <3> QED
      BY <1>4, <3>2
  <2>3. CASE x \in R
    <3>1. (U \cup {x}) \cap R = (U \cap R) \cup {x} /\ x \notin U \cap R
      BY <2>3
    <3>2. Cardinality((U \cap R) \cup {x}) = Cardinality(U \cap R) + 1
      BY <2>2, <3>1, FS_AddElement
    <3>3. Cardinality((U \cup {x}) \cap R) = Cardinality((U \cap R) \cup {x})
      BY <3>1
    <3> QED
      BY <2>1, <2>2, <2>3, <3>2, <3>3
  <2>4. CASE x \notin R
    <3>1. (U \cup {x}) \cap R = U \cap R
      BY <2>4
    <3>2. Cardinality((U \cup {x}) \cap R) = Cardinality(U \cap R)
      BY <3>1
    <3> QED
      BY <2>1, <2>2, <2>4, <3>2
  <2> QED
    BY <2>3, <2>4
<1> HIDE DEF P
<1>5. S \in P
  BY <1>3, <1>4, SubsetInduction
<1>6. S \cap R = R
  OBVIOUS
<1> QED
  BY <1>1, <1>5, <1>6 DEF P

(* A sum of equal terms is a product.                                        *)
LEMMA SumConstant ==
    ASSUME NEW S, IsFiniteSet(S), NEW c \in Int, NEW g \in [S -> Int], \A x \in S : g[x] = c
    PROVE  SumFunction(g) = Cardinality(S) * c
<1>1. PICK h : Adds(h, g, S) /\ SumFunction(g) = h[S]
  BY SumIsAdds
<1> DEFINE P == {U \in SUBSET S : h[U] = Cardinality(U) * c}
<1>2. {} \in P
  <2>1. h[{}] = 0 /\ Cardinality({}) = 0
    BY <1>1, FS_EmptySet DEF Adds
  <2>2. Cardinality({}) * c = 0
    BY <2>1
  <2> QED
    BY <2>1, <2>2
<1>3. ASSUME NEW U \in SUBSET S, NEW x \in S \ U, U \in P PROVE U \cup {x} \in P
  <2>1. h[U \cup {x}] = h[U] + c
    <3>1. h[U \cup {x}] = h[U] + g[x] /\ g[x] = c
      BY <1>1 DEF Adds
    <3> QED
      BY <3>1
  <2>2. Cardinality(U) \in Nat /\ Cardinality(U \cup {x}) = Cardinality(U) + 1
    <3>1. IsFiniteSet(U)
      BY FS_Subset
    <3> QED
      BY <3>1, FS_AddElement, FS_CardinalityType
  <2>3. h[U] = Cardinality(U) * c
    BY <1>3
  <2>4. (Cardinality(U) + 1) * c = Cardinality(U) * c + c
    BY <2>2
  <2> QED
    BY <2>1, <2>2, <2>3, <2>4
<1> HIDE DEF P
<1>4. S \in P
  BY <1>2, <1>3, SubsetInduction
<1> QED
  BY <1>1, <1>4 DEF P

(* A finite set of integers that is not empty has a least and a greatest     *)
(* element, and Min and Max of FiniteSetsExt are they.                       *)
LEMMA HasExtremes ==
    ASSUME NEW S \in SUBSET Int, IsFiniteSet(S), S # {}
    PROVE  \E a, b \in S : \A x \in S : a <= x /\ x <= b
<1> DEFINE P == {T \in SUBSET S : T = {} \/ \E a, b \in T : \A x \in T : a <= x /\ x <= b}
<1>1. {} \in P
  OBVIOUS
<1>2. ASSUME NEW T \in SUBSET S, NEW y \in S \ T, T \in P PROVE T \cup {y} \in P
  <2>1. CASE T = {}
    BY <2>1
  <2>2. CASE T # {}
    <3>1. PICK a \in T, b \in T : \A x \in T : a <= x /\ x <= b
      BY <1>2, <2>2
    <3> DEFINE l == IF y < a THEN y ELSE a
               g == IF b < y THEN y ELSE b
    <3>2. l \in T \cup {y} /\ g \in T \cup {y}
      OBVIOUS
    <3>3. \A x \in T \cup {y} : l <= x /\ x <= g
      BY <3>1
    <3> HIDE DEF l, g
    <3> QED
      BY <3>2, <3>3
  <2> QED
    BY <2>1, <2>2
<1> HIDE DEF P
<1>3. S \in P
  BY <1>1, <1>2, SubsetInduction
<1> QED
  BY <1>3 DEF P

(* A sum of naturals is a natural.                                           *)
LEMMA SumNatural ==
    ASSUME NEW S, IsFiniteSet(S), NEW g \in [S -> Nat]
    PROVE  SumFunction(g) \in Nat
<1>1. g \in [S -> Int]
  OBVIOUS
<1>2. PICK h : Adds(h, g, S) /\ SumFunction(g) = h[S]
  BY <1>1, SumIsAdds
<1> DEFINE P == {T \in SUBSET S : h[T] \in Nat}
<1>3. {} \in P
  BY <1>2 DEF Adds
<1>4. ASSUME NEW T \in SUBSET S, NEW x \in S \ T, T \in P PROVE T \cup {x} \in P
  <2>1. h[T \cup {x}] = h[T] + g[x]
    BY <1>2 DEF Adds
  <2>2. h[T] \in Nat /\ g[x] \in Nat
    BY <1>4
  <2> QED
    BY <2>1, <2>2
<1> HIDE DEF P
<1>5. S \in P
  BY <1>3, <1>4, SubsetInduction
<1> QED
  BY <1>2, <1>5 DEF P

----------------------------------------------------------------------------
(* x is the value of rank r among the values of l over S: at least r of them *)
(* are no larger and fewer than r are smaller.                               *)
UpTo(l, S, x)  == {i \in S : l[i] <= x}
Below(l, S, x) == {i \in S : l[i] < x}

HasRank(x, r, l, S) == Cardinality(UpTo(l, S, x)) >= r /\ Cardinality(Below(l, S, x)) < r

(* Every rank has a value.                                                   *)
LEMMA RankExists ==
    ASSUME NEW S, IsFiniteSet(S), NEW l \in [S -> Nat], NEW r \in 1..Cardinality(S)
    PROVE  \E x \in {l[i] : i \in S} : HasRank(x, r, l, S)
<1>0. Cardinality(S) \in Nat /\ r \in Nat /\ r > 0
  BY FS_CardinalityType
<1>1. \A x : IsFiniteSet(UpTo(l, S, x)) /\ IsFiniteSet(Below(l, S, x))
             /\ Cardinality(UpTo(l, S, x)) \in Nat /\ Cardinality(Below(l, S, x)) \in Nat
  <2> SUFFICES ASSUME NEW x
               PROVE  /\ IsFiniteSet(UpTo(l, S, x)) /\ IsFiniteSet(Below(l, S, x))
                      /\ Cardinality(UpTo(l, S, x)) \in Nat /\ Cardinality(Below(l, S, x)) \in Nat
    OBVIOUS
  <2>1. UpTo(l, S, x) \in SUBSET S /\ Below(l, S, x) \in SUBSET S
    BY DEF UpTo, Below
  <2>2. IsFiniteSet(UpTo(l, S, x)) /\ IsFiniteSet(Below(l, S, x))
    BY <2>1, FS_Subset
  <2> QED
    BY <2>2, FS_CardinalityType
<1> DEFINE Q == {x \in Nat : Cardinality(UpTo(l, S, x)) >= r}
<1>2. Q # {}
  <2> DEFINE V == {l[i] : i \in DOMAIN l}
  <2>1. V \in SUBSET Int /\ IsFiniteSet(V)
    <3>1. DOMAIN l = S
      OBVIOUS
    <3>2. IsFiniteSet(DOMAIN l)
      BY <3>1
    <3>3. IsFiniteSet(V)
      BY <3>2, ImageFinite
    <3> QED
      BY <3>3
  <2>2. V # {}
    <3>1. S # {}
      BY <1>0, FS_EmptySet
    <3> QED
      BY <3>1
  <2>3. \A y \in V : y \in Nat
    OBVIOUS
  <2>4. \A i \in S : l[i] \in V
    OBVIOUS
  <2> HIDE DEF V
  <2>5. PICK b \in V : \A x \in V : x <= b
    BY <2>1, <2>2, HasExtremes
  <2>6. UpTo(l, S, b) = S
    BY <2>4, <2>5 DEF UpTo
  <2>7. Cardinality(UpTo(l, S, b)) = Cardinality(S)
    BY <2>6
  <2>8. b \in Nat
    BY <2>3
  <2>9. b \in Q
    BY <1>0, <2>7, <2>8
  <2> QED
    BY <2>9
<1>3. PICK x \in Q : \A y \in Q : x <= y
  <2>1. Q \in SUBSET Nat
    OBVIOUS
  <2> HIDE DEF Q
  <2> QED
    BY <1>2, <2>1, LeastNumber
<1>4. x \in Nat /\ Cardinality(UpTo(l, S, x)) >= r
  BY <1>3
<1>5. Cardinality(Below(l, S, x)) < r
  <2>1. CASE x = 0
    <3>1. Below(l, S, x) = {}
      BY <2>1 DEF Below
    <3>2. Cardinality(Below(l, S, x)) = 0
      BY <3>1, FS_EmptySet
    <3> QED
      BY <1>0, <3>2
  <2>2. CASE x # 0
    <3>1. x - 1 \in Nat /\ x - 1 \notin Q
      BY <1>3, <1>4, <2>2
    <3>2. Cardinality(UpTo(l, S, x - 1)) < r
      <4>1. ~ (Cardinality(UpTo(l, S, x - 1)) >= r)
        BY <3>1
      <4>2. Cardinality(UpTo(l, S, x - 1)) \in Nat
        BY <1>1
      <4> QED
        BY <1>0, <4>1, <4>2
    <3>3. UpTo(l, S, x - 1) = Below(l, S, x)
      BY <1>4 DEF UpTo, Below
    <3> QED
      BY <3>2, <3>3
  <2> QED
    BY <2>1, <2>2
<1>6. \E i \in S : l[i] = x
  <2> SUFFICES ASSUME \A i \in S : l[i] # x PROVE FALSE
    OBVIOUS
  <2>1. UpTo(l, S, x) = Below(l, S, x)
    BY <1>4 DEF UpTo, Below
  <2>2. Cardinality(UpTo(l, S, x)) = Cardinality(Below(l, S, x))
    BY <2>1
  <2> HIDE DEF Q
  <2> QED
    BY <1>0, <1>1, <1>4, <1>5, <2>2
<1> QED
  BY <1>4, <1>5, <1>6 DEF HasRank

(* Smaller values have a smaller value of the same rank.                     *)
LEMMA RankMonotone ==
    ASSUME NEW S, IsFiniteSet(S), NEW f \in [S -> Nat], NEW g \in [S -> Nat],
           \A i \in S : f[i] <= g[i],
           NEW r \in Nat, NEW x \in Nat, NEW y \in Nat,
           HasRank(x, r, f, S), HasRank(y, r, g, S)
    PROVE  x <= y
<1> SUFFICES ASSUME y < x PROVE FALSE
  OBVIOUS
<1>1. UpTo(g, S, y) \subseteq Below(f, S, x)
  <2>1. \A i \in S : f[i] \in Nat /\ g[i] \in Nat
    OBVIOUS
  <2> QED
    BY <2>1 DEF UpTo, Below
<1>2. IsFiniteSet(Below(f, S, x))
  <2>1. Below(f, S, x) \in SUBSET S
    BY DEF Below
  <2> QED
    BY <2>1, FS_Subset
<1>3. Cardinality(UpTo(g, S, y)) <= Cardinality(Below(f, S, x)) /\ IsFiniteSet(UpTo(g, S, y))
  BY <1>1, <1>2, FS_Subset
<1>4. Cardinality(UpTo(g, S, y)) \in Nat /\ Cardinality(Below(f, S, x)) \in Nat
  BY <1>2, <1>3, FS_CardinalityType
<1> QED
  BY <1>3, <1>4 DEF HasRank

(* The numbers of the members of a finite set's classes add up.              *)
LEMMA SumOfClasses ==
    ASSUME NEW F, IsFiniteSet(F), NEW C, IsFiniteSet(C), NEW c \in [F -> C],
           NEW g \in [C -> Int], \A x \in C : g[x] = Cardinality({f \in F : c[f] = x})
    PROVE  SumFunction(g) = Cardinality(F)
<1>1. PICK h : Adds(h, g, C) /\ SumFunction(g) = h[C]
  BY SumIsAdds
<1> DEFINE In(U) == {f \in F : c[f] \in U}
           P == {U \in SUBSET C : h[U] = Cardinality(In(U))}
<1>2. {} \in P
  <2>1. In({}) = {}
    OBVIOUS
  <2> HIDE DEF In
  <2> QED
    BY <1>1, <2>1, FS_EmptySet DEF Adds
<1>3. ASSUME NEW U \in SUBSET C, NEW x \in C \ U, U \in P PROVE U \cup {x} \in P
  <2> DEFINE A == In(U)
             B == {f \in F : c[f] = x}
  <2>1. h[U \cup {x}] = h[U] + Cardinality(B) /\ h[U] = Cardinality(A)
    <3>1. h[U \cup {x}] = h[U] + g[x] /\ g[x] = Cardinality(B)
      BY <1>1 DEF Adds
    <3> QED
      BY <1>3, <3>1
  <2>2. In(U \cup {x}) = A \cup B /\ A \cap B = {} /\ A \in SUBSET F /\ B \in SUBSET F
    OBVIOUS
  <2> HIDE DEF A, B, In
  <2>3. IsFiniteSet(A) /\ IsFiniteSet(B)
    BY <2>2, FS_Subset
  <2>4. Cardinality(A \cup B) = Cardinality(A) + Cardinality(B) - Cardinality(A \cap B)
    BY <2>3, FS_Union
  <2>5. Cardinality(A \cap B) = 0
    BY <2>2, FS_EmptySet
  <2>6. Cardinality(A) \in Nat /\ Cardinality(B) \in Nat
    BY <2>3, FS_CardinalityType
  <2>7. Cardinality(In(U \cup {x})) = Cardinality(A) + Cardinality(B)
    <3>1. Cardinality(In(U \cup {x})) = Cardinality(A \cup B)
      BY <2>2
    <3> QED
      BY <2>4, <2>5, <2>6, <3>1
  <2> QED
    BY <2>1, <2>7
<1> HIDE DEF P
<1>4. C \in P
  BY <1>2, <1>3, SubsetInduction
<1>5. In(C) = F
  OBVIOUS
<1> HIDE DEF In
<1> QED
  BY <1>1, <1>4, <1>5 DEF P

----------------------------------------------------------------------------
(* Rows numbered by position.                                              *)

(* The i-th row: there are i - 1 before it.                                 *)
Before(rows, r)     == {o \in rows : o.position < r.position}
AtPosition(rows, i) == CHOOSE r \in rows : Cardinality(Before(rows, r)) = i - 1

(* The rows are row[1] to row[n], numbered from 0.                           *)
InOrder(rows, row, n) ==
    /\ n \in Nat
    /\ \A i \in 1..n : row[i] \in rows /\ row[i].position = i - 1
    /\ \A r \in rows : \E i \in 1..n : r = row[i]

(* Rows numbered from 0 are found again by how many come before.            *)
LEMMA PositionsFound ==
    ASSUME NEW rows, NEW row, NEW n, InOrder(rows, row, n)
    PROVE  /\ Cardinality(rows) = n
           /\ \A i \in 1..n : AtPosition(rows, i) = row[i]
<1> USE DEF InOrder
<1>0. rows = {row[i] : i \in 1..n}
  OBVIOUS
<1> DEFINE S(k) == {row[i] : i \in 1..k}
<1>1. ASSUME NEW k \in 0..n PROVE Cardinality(S(k)) = k
  <2> DEFINE f == [i \in 1..k |-> row[i]]
  <2>1. \A i \in 1..k : i \in Int /\ row[i].position = i - 1
    OBVIOUS
  <2>2. \A i, j \in 1..k : row[i] = row[j] => i = j
    <3> SUFFICES ASSUME NEW i \in 1..k, NEW j \in 1..k, row[i] = row[j] PROVE i = j
      OBVIOUS
    <3>1. i - 1 = j - 1
      BY <2>1
    <3> QED
      BY <2>1, <3>1
  <2>3. f \in Bijection(1..k, S(k))
    BY <2>2 DEF Bijection, Injection, Surjection, IsInjective
  <2>4. k \in Nat
    OBVIOUS
  <2>5. IsFiniteSet(1..k) /\ Cardinality(1..k) = k
    BY <2>4, FS_Interval
  <2> HIDE DEF f, S
  <2>6. Cardinality(S(k)) = Cardinality(1..k)
    BY <2>3, <2>5, FS_Bijection DEF ExistsBijection
  <2> QED
    BY <2>5, <2>6
<1> DEFINE before(r) == {o \in rows : o.position < r.position}
<1>2. ASSUME NEW i \in 1..n PROVE Cardinality(before(row[i])) = i - 1
  <2>1. before(row[i]) = S(i - 1)
    <3>1. \A j \in 1..n : row[j].position < row[i].position <=> j \in 1..i-1
      OBVIOUS
    <3> QED
      BY <1>0, <3>1
  <2>2. i - 1 \in 0..n
    OBVIOUS
  <2> HIDE DEF S, before
  <2> QED
    BY <1>1, <2>1, <2>2
<1>3. ASSUME NEW i \in 1..n
      PROVE  (CHOOSE r \in rows : Cardinality(before(r)) = i - 1) = row[i]
  <2>1. \A r \in rows : Cardinality(before(r)) = i - 1 => r = row[i]
    <3> SUFFICES ASSUME NEW j \in 1..n, Cardinality(before(row[j])) = i - 1 PROVE row[j] = row[i]
      OBVIOUS
    <3> HIDE DEF before
    <3>1. j - 1 = i - 1
      BY <1>2
    <3> QED
      BY <3>1
  <2>2. row[i] \in rows
    OBVIOUS
  <2>3. Cardinality(before(row[i])) = i - 1
    BY <1>2
  <2> HIDE DEF before
  <2> QED
    BY <2>1, <2>2, <2>3
<1>4. Cardinality(rows) = n
  <2>1. n \in 0..n /\ rows = S(n)
    BY <1>0
  <2> HIDE DEF S
  <2> QED
    BY <1>1, <2>1
<1>5. ASSUME NEW i \in 1..n PROVE AtPosition(rows, i) = row[i]
  BY <1>3 DEF AtPosition, Before
<1> QED
  BY <1>4, <1>5
=============================================================================
