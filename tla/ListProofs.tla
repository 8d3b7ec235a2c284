------------------------------ MODULE ListProofs ------------------------------
(***************************************************************************)
(* Lemmas about Lists: what is kept of a list, and in which order.         *)
(***************************************************************************)
EXTENDS Lists, FunctionTheorems, FiniteSetTheorems, TLAPS

-----------------------------------------------------------------------------
(* A finite set of numbers in ascending order *)

Rank(P, x) == Cardinality({y \in P : y <= x})

LEMMA RankOrder ==
  ASSUME NEW P \in SUBSET Int, IsFiniteSet(P)
  PROVE  /\ Cardinality(P) \in Nat
         /\ \A x \in P : Rank(P, x) \in 1 .. Cardinality(P)
         /\ \A x, z \in P : x < z => Rank(P, x) < Rank(P, z)
         /\ \A k \in 1 .. Cardinality(P) : \E x \in P : Rank(P, x) = k
  <1> DEFINE Upto(x) == {y \in P : y <= x}
             n == Cardinality(P)
  <1>0. n \in Nat
    BY FS_CardinalityType
  <1>1. ASSUME NEW x \in P
        PROVE  IsFiniteSet(Upto(x)) /\ Rank(P, x) = Cardinality(Upto(x)) /\ Rank(P, x) \in 1 .. n
    <2>1. IsFiniteSet(Upto(x)) /\ Cardinality(Upto(x)) <= n
      BY FS_Subset
    <2>2. Cardinality(Upto(x)) \in Nat
      BY <2>1, FS_CardinalityType
    <2>3. x \in Upto(x)
      OBVIOUS
    <2>4. Cardinality(Upto(x)) # 0
      BY <2>1, <2>3, FS_EmptySet
    <2> QED
      BY <1>0, <2>1, <2>2, <2>4 DEF Rank
  <1>2. ASSUME NEW x \in P, NEW z \in P, x < z PROVE Rank(P, x) < Rank(P, z)
    <2>1. x \in Int /\ z \in Int
      OBVIOUS
    <2>2. z \in Upto(z) /\ z \notin Upto(x)
      BY <1>2, <2>1
    <2>3. \A y \in P : y <= x => y <= z
      <3>1. \A y \in Int : y <= x => y <= z
        BY <1>2, <2>1
      <3> QED
        BY <3>1
    <2>4. Upto(x) \in SUBSET Upto(z)
      BY <2>3
    <2> HIDE DEF Upto
    <2>5. Cardinality(Upto(x)) <= Cardinality(Upto(z)) /\ Cardinality(Upto(x)) # Cardinality(Upto(z))
      BY <1>1, <2>2, <2>4, FS_Subset
    <2> QED
      BY <1>0, <1>1, <2>5
  <1> HIDE DEF Upto
  <1>3. \A k \in 1 .. n : \E x \in P : Rank(P, x) = k
    <2> DEFINE f == [x \in P |-> Rank(P, x)]
    <2>1. f \in [P -> 1 .. n]
      BY <1>1
    <2>2. \A x, z \in P : x # z => f[x] # f[z]
      <3> SUFFICES ASSUME NEW x \in P, NEW z \in P, x # z PROVE f[x] # f[z]
        OBVIOUS
      <3>1. x \in Int /\ z \in Int
        OBVIOUS
      <3>2. x < z \/ z < x
        BY <3>1
      <3>3. Rank(P, x) \in Int /\ Rank(P, z) \in Int
        BY <1>0, <1>1
      <3> QED
        BY <1>2, <3>2, <3>3
    <2>3. f \in Injection(P, 1 .. n)
      BY <2>1, <2>2 DEF Injection, IsInjective
    <2>4. IsFiniteSet(1 .. n) /\ Cardinality(1 .. n) = n
      BY <1>0, FS_Interval
    <2>5. f \in Surjection(P, 1 .. n)
      BY <2>3, <2>4, FS_Injection
    <2> QED
      BY <2>5 DEF Surjection
  <1> QED
    BY <1>0, <1>1, <1>2, <1>3

\* Nth lists a finite set of numbers from the smallest to the largest, each once.
LEMMA NthOrder ==
  ASSUME NEW P \in SUBSET Int, IsFiniteSet(P)
  PROVE  /\ \A k \in 1 .. Cardinality(P) : Nth(P, k) \in P /\ Rank(P, Nth(P, k)) = k
         /\ \A j, k \in 1 .. Cardinality(P) : j < k => Nth(P, j) < Nth(P, k)
         /\ \A x \in P : Rank(P, x) \in 1 .. Cardinality(P) /\ Nth(P, Rank(P, x)) = x
  <1>1. ASSUME NEW k \in 1 .. Cardinality(P) PROVE Nth(P, k) \in P /\ Rank(P, Nth(P, k)) = k
    BY RankOrder DEF Nth, Rank
  <1>2. \A x, z \in P : Rank(P, x) <= Rank(P, z) => x <= z
    <2> SUFFICES ASSUME NEW x \in P, NEW z \in P, Rank(P, x) <= Rank(P, z) PROVE x <= z
      OBVIOUS
    <2>1. x \in Int /\ z \in Int /\ Rank(P, x) \in Int /\ Rank(P, z) \in Int
      BY RankOrder
    <2>2. ~(z < x)
      BY <2>1, RankOrder
    <2> QED
      BY <2>1, <2>2
  <1>3. ASSUME NEW j \in 1 .. Cardinality(P), NEW k \in 1 .. Cardinality(P), j < k
        PROVE  Nth(P, j) < Nth(P, k)
    <2> DEFINE x == Nth(P, j)
               z == Nth(P, k)
    <2>1. x \in P /\ z \in P /\ Rank(P, x) = j /\ Rank(P, z) = k
      BY <1>1
    <2> HIDE DEF x, z
    <2>2. x \in Int /\ z \in Int /\ j \in Int /\ k \in Int
      BY <2>1, RankOrder
    <2>3. x <= z /\ x # z
      BY <1>2, <1>3, <2>1, <2>2
    <2>4. x < z
      BY <2>2, <2>3
    <2> QED
      BY <2>4 DEF x, z
  <1>4. ASSUME NEW x \in P PROVE Rank(P, x) \in 1 .. Cardinality(P) /\ Nth(P, Rank(P, x)) = x
    <2> DEFINE z == Nth(P, Rank(P, x))
    <2>1. Rank(P, x) \in 1 .. Cardinality(P)
      BY RankOrder
    <2>2. z \in P /\ Rank(P, z) = Rank(P, x)
      BY <1>1, <2>1
    <2> HIDE DEF z
    <2>3. x \in Int /\ z \in Int /\ Rank(P, x) \in Int
      BY <2>1, <2>2
    <2>4. Rank(P, z) <= Rank(P, x) /\ Rank(P, x) <= Rank(P, z)
      BY <2>2, <2>3
    <2>5. z <= x /\ x <= z
      BY <1>2, <2>2, <2>4
    <2> QED
      BY <2>1, <2>3, <2>5 DEF z
  <1> QED
    BY <1>1, <1>3, <1>4

\* A set has as many elements as it takes to name each by a number.
LEMMA CountIs ==
  ASSUME NEW n \in Nat, NEW T, NEW f \in [1 .. n -> T],
         \A i, j \in 1 .. n : i # j => f[i] # f[j], \A t \in T : \E i \in 1 .. n : f[i] = t
  PROVE  IsFiniteSet(T) /\ Cardinality(T) = n
  <1>1. f \in Bijection(1 .. n, T)
    BY DEF Bijection, Injection, IsInjective, Surjection
  <1>2. ExistsBijection(1 .. n, T)
    BY <1>1 DEF ExistsBijection
  <1>3. IsFiniteSet(1 .. n) /\ Cardinality(1 .. n) = n
    BY FS_Interval
  <1> QED
    BY <1>2, <1>3, FS_Bijection

\* a is the elements of P by size
Ascending(a, n, P) ==
  /\ \A i, j \in 1 .. n : i < j => a[i] < a[j]
  /\ \A x : x \in P <=> \E i \in 1 .. n : a[i] = x

\* A list of numbers that ascends is the list of its elements by size.
LEMMA AscendingIs ==
  ASSUME NEW n \in Nat, NEW a \in [1 .. n -> Int], NEW P, Ascending(a, n, P)
  PROVE  /\ P \in SUBSET Int /\ IsFiniteSet(P) /\ Cardinality(P) = n
         /\ \A i \in 1 .. n : Rank(P, a[i]) = i /\ Nth(P, i) = a[i]
  <1>00. \A i, j \in 1 .. n : i < j => a[i] < a[j]
    BY DEF Ascending
  <1>0. P = {a[i] : i \in 1 .. n}
    BY DEF Ascending
  <1>1. ASSUME NEW i \in 0 .. n
        PROVE  IsFiniteSet({a[j] : j \in 1 .. i}) /\ Cardinality({a[j] : j \in 1 .. i}) = i
    <2> DEFINE T == {a[j] : j \in 1 .. i}
               f == [j \in 1 .. i |-> a[j]]
    <2>1. i \in Nat /\ \A j \in 1 .. i : j \in 1 .. n
      OBVIOUS
    <2>2. f \in [1 .. i -> T]
      OBVIOUS
    <2>3. \A j, k \in 1 .. i : j # k => f[j] # f[k]
      <3> SUFFICES ASSUME NEW j \in 1 .. i, NEW k \in 1 .. i, j # k PROVE a[j] # a[k]
        OBVIOUS
      <3>1. j \in 1 .. n /\ k \in 1 .. n /\ (j < k \/ k < j)
        BY <2>1
      <3>2. a[j] \in Int /\ a[k] \in Int
        BY <3>1
      <3> QED
        BY <1>00, <3>1, <3>2
    <2>4. \A t \in T : \E j \in 1 .. i : f[j] = t
      OBVIOUS
    <2> HIDE DEF T, f
    <2>5. IsFiniteSet(T) /\ Cardinality(T) = i
      BY <2>1, <2>2, <2>3, <2>4, CountIs
    <2> QED
      BY <2>5 DEF T
  <1>2. P \in SUBSET Int /\ IsFiniteSet(P) /\ Cardinality(P) = n
    <2>1. n \in 0 .. n
      OBVIOUS
    <2>2. IsFiniteSet(P) /\ Cardinality(P) = n
      BY <1>0, <1>1, <2>1
    <2> QED
      BY <1>0, <2>2
  <1>3. ASSUME NEW i \in 1 .. n PROVE Rank(P, a[i]) = i
    <2>1. \A j \in 1 .. n : a[j] <= a[i] <=> j <= i
      <3> SUFFICES ASSUME NEW j \in 1 .. n PROVE a[j] <= a[i] <=> j <= i
        OBVIOUS
      <3>1. a[i] \in Int /\ a[j] \in Int
        OBVIOUS
      <3>2. CASE j < i
        BY <1>00, <3>1, <3>2
      <3>3. CASE i < j
        <4>1. a[i] < a[j]
          BY <1>00, <3>3
        <4> QED
          BY <3>1, <3>3, <4>1
      <3>4. CASE i = j
        BY <3>1, <3>4
      <3> QED
        BY <3>2, <3>3, <3>4
    <2>2. {y \in P : y <= a[i]} = {a[j] : j \in 1 .. i}
      <3>1. \A y \in P : y <= a[i] => \E j \in 1 .. i : y = a[j]
        BY <1>0, <2>1
      <3>2. \A j \in 1 .. i : a[j] \in P /\ a[j] <= a[i]
        BY <1>0, <2>1
      <3> QED
        BY <3>1, <3>2
    <2>3. i \in 0 .. n
      OBVIOUS
    <2>4. Cardinality({y \in P : y <= a[i]}) = i
      BY <1>1, <2>2, <2>3
    <2> QED
      BY <2>4 DEF Rank
  <1>4. ASSUME NEW i \in 1 .. n PROVE Nth(P, i) = a[i]
    <2> DEFINE x == a[i]
    <2>1. x \in P /\ Rank(P, x) = i
      BY <1>0, <1>3
    <2> HIDE DEF x
    <2>2. Nth(P, Rank(P, x)) = x
      BY <1>2, <2>1, NthOrder
    <2> QED
      BY <2>1, <2>2 DEF x
  <1> QED
    BY <1>2, <1>3, <1>4

\* What is kept of a list: the elements at the positions, in their order.
LEMMA KeptIs ==
  ASSUME NEW S, NEW s \in Seq(S), NEW P \in SUBSET (1 .. Len(s))
  PROVE  /\ IsFiniteSet(P) /\ Cardinality(P) \in 0 .. Len(s)
         /\ Kept(s, P) \in Seq(S) /\ Len(Kept(s, P)) = Cardinality(P)
         /\ \A k \in 1 .. Cardinality(P) : /\ Nth(P, k) \in P /\ k <= Nth(P, k)
                                          /\ Kept(s, P)[k] = s[Nth(P, k)]
         /\ \A j, k \in 1 .. Cardinality(P) : j < k => Nth(P, j) < Nth(P, k)
         /\ \A i \in P : \E k \in 1 .. Cardinality(P) : Nth(P, k) = i
  <1>1. IsFiniteSet(P) /\ Cardinality(P) \in 0 .. Len(s) /\ P \in SUBSET Int
    <2> DEFINE D == 1 .. Len(s)
    <2>0. Len(s) \in Nat /\ 1 \in Int
      OBVIOUS
    <2>1. IsFiniteSet(D) /\ Cardinality(D) = Len(s)
      <3> DEFINE n == Len(s)
      <3>1. n \in Nat /\ n \in Int
        BY <2>0
      <3> HIDE DEF n
      <3>2. IsFiniteSet(1 .. n) /\ Cardinality(1 .. n) = IF 1 > n THEN 0 ELSE n - 1 + 1
        BY <2>0, <3>1, FS_Interval
      <3> QED
        BY <3>1, <3>2 DEF n
    <2>2. P \in SUBSET D /\ P \in SUBSET Int
      BY <2>0
    <2> HIDE DEF D
    <2>3. IsFiniteSet(P) /\ Cardinality(P) <= Len(s)
      BY <2>1, <2>2, FS_Subset
    <2>4. Cardinality(P) \in Nat
      BY <2>3, FS_CardinalityType
    <2> QED
      BY <2>0, <2>2, <2>3, <2>4
  <1>2. /\ \A k \in 1 .. Cardinality(P) : Nth(P, k) \in P /\ Rank(P, Nth(P, k)) = k
        /\ \A j, k \in 1 .. Cardinality(P) : j < k => Nth(P, j) < Nth(P, k)
        /\ \A x \in P : Rank(P, x) \in 1 .. Cardinality(P) /\ Nth(P, Rank(P, x)) = x
    BY <1>1, NthOrder
  <1>3. Kept(s, P) \in Seq(S) /\ Len(Kept(s, P)) = Cardinality(P)
    <2>0. \A i \in P : s[i] \in S
      OBVIOUS
    <2>1. \A k \in 1 .. Cardinality(P) : s[Nth(P, k)] \in S
      BY <1>2, <2>0
    <2>2. Cardinality(P) \in Nat
      BY <1>1
    <2>3. Kept(s, P) \in [1 .. Cardinality(P) -> S]
      BY <2>1 DEF Kept
    <2> QED
      BY <2>2, <2>3
  <1>4. ASSUME NEW k \in 1 .. Cardinality(P) PROVE k <= Nth(P, k)
    <2> PICK x \in P : x = Nth(P, k)
      BY <1>2
    <2>1. x \in 1 .. Len(s) /\ x \in Nat
      OBVIOUS
    <2>2. IsFiniteSet(1 .. x) /\ Cardinality(1 .. x) = x
      BY <2>1, FS_Interval
    <2>3. \A y \in P : y <= x => y \in 1 .. x
      BY <2>1
    <2>4. {y \in P : y <= x} \in SUBSET (1 .. x)
      BY <2>3
    <2>5. Rank(P, x) <= x
      BY <2>2, <2>4, FS_Subset DEF Rank
    <2> QED
      BY <1>2, <2>5
  <1>5. \A k \in 1 .. Cardinality(P) : Kept(s, P)[k] = s[Nth(P, k)]
    BY DEF Kept
  <1>6. \A i \in P : \E k \in 1 .. Cardinality(P) : Nth(P, k) = i
    BY <1>2
  <1> QED
    BY <1>1, <1>2, <1>3, <1>4, <1>5, <1>6

\* The smallest of a set are the smallest of its lower part.
LEMMA LowerPart ==
  ASSUME NEW P \in SUBSET Int, IsFiniteSet(P), NEW Q \in SUBSET P,
         \A x \in P : \A y \in Q : x <= y => x \in Q
  PROVE  /\ IsFiniteSet(Q) /\ Cardinality(Q) \in 0 .. Cardinality(P)
         /\ \A k \in 1 .. Cardinality(Q) : Nth(Q, k) = Nth(P, k)
  <1>1. IsFiniteSet(Q) /\ Q \in SUBSET Int /\ Cardinality(Q) \in 0 .. Cardinality(P)
        /\ Cardinality(P) \in Nat
    <2>1. IsFiniteSet(Q) /\ Cardinality(Q) <= Cardinality(P)
      BY FS_Subset
    <2>2. Cardinality(Q) \in Nat /\ Cardinality(P) \in Nat
      BY <2>1, FS_CardinalityType
    <2> QED
      BY <2>1, <2>2
  <1>2. ASSUME NEW k \in 1 .. Cardinality(Q) PROVE Nth(Q, k) = Nth(P, k)
    <2>1. Nth(Q, k) \in Q /\ Rank(Q, Nth(Q, k)) = k
      BY <1>1, NthOrder
    <2>2. {y \in P : y <= Nth(Q, k)} = {y \in Q : y <= Nth(Q, k)}
      BY <2>1
    <2>3. Rank(P, Nth(Q, k)) = k /\ Nth(Q, k) \in P
      BY <2>1, <2>2 DEF Rank
    <2>4. Nth(P, Rank(P, Nth(Q, k))) = Nth(Q, k)
      BY <2>3, NthOrder
    <2> QED
      BY <2>3, <2>4
  <1> QED
    BY <1>1, <1>2

\* t is the beginning of u
Begins(t, u) == Len(t) <= Len(u) /\ \A i \in 1 .. Len(t) : t[i] = u[i]

\* What is kept of a list starts what is kept by the same rule of a longer one.
LEMMA KeptBegins ==
  ASSUME NEW S, NEW t \in Seq(S), NEW u \in Seq(S), Begins(t, u),
         NEW P \in SUBSET (1 .. Len(t)), NEW Q \in SUBSET (1 .. Len(u)),
         \A i \in 1 .. Len(t) : i \in P <=> i \in Q
  PROVE  Begins(Kept(t, P), Kept(u, Q))
  <1>1. Len(t) \in Nat /\ Len(u) \in Nat /\ Len(t) <= Len(u)
    BY DEF Begins
  <1>2. Q \in SUBSET Int /\ P \in SUBSET Q /\ IsFiniteSet(Q)
    <2>1. IsFiniteSet(Q)
      BY KeptIs
    <2> QED
      BY <2>1
  <1>3. \A x \in Q : \A y \in P : x <= y => x \in P
    <2> SUFFICES ASSUME NEW x \in Q, NEW y \in P, x <= y PROVE x \in P
      OBVIOUS
    <2>1. x \in 1 .. Len(t)
      BY <1>1
    <2> QED
      BY <2>1
  <1>4. Cardinality(P) \in 0 .. Cardinality(Q) /\ \A k \in 1 .. Cardinality(P) : Nth(P, k) = Nth(Q, k)
    BY <1>2, <1>3, LowerPart
  <1>5. /\ Len(Kept(t, P)) = Cardinality(P) /\ Cardinality(P) \in Nat
        /\ \A k \in 1 .. Cardinality(P) : Nth(P, k) \in P /\ Kept(t, P)[k] = t[Nth(P, k)]
    BY KeptIs
  <1>6. /\ Len(Kept(u, Q)) = Cardinality(Q) /\ Cardinality(Q) \in Nat
        /\ \A k \in 1 .. Cardinality(Q) : Kept(u, Q)[k] = u[Nth(Q, k)]
    BY KeptIs
  <1>7. ASSUME NEW k \in 1 .. Cardinality(P) PROVE Kept(t, P)[k] = Kept(u, Q)[k]
    <2>1. k \in 1 .. Cardinality(Q)
      BY <1>4, <1>5, <1>6
    <2>2. Kept(t, P)[k] = t[Nth(P, k)] /\ Kept(u, Q)[k] = u[Nth(P, k)]
      BY <1>4, <1>5, <1>6, <2>1
    <2>3. Nth(P, k) \in 1 .. Len(t)
      BY <1>5
    <2> QED
      BY <2>2, <2>3 DEF Begins
  <1> QED
    BY <1>4, <1>5, <1>6, <1>7 DEF Begins

\* the least of a set of numbers
LEMMA Least ==
  ASSUME NEW P \in SUBSET Int, IsFiniteSet(P), P # {}
  PROVE  \E x \in P : \A y \in P : x <= y
  <1>1. Cardinality(P) \in Nat /\ Cardinality(P) # 0
    BY FS_CardinalityType, FS_EmptySet
  <1>2. 1 \in 1 .. Cardinality(P)
    BY <1>1
  <1>3. Nth(P, 1) \in P /\ Rank(P, Nth(P, 1)) = 1
    BY <1>2, NthOrder
  <1>4. \A y \in P : ~(y < Nth(P, 1))
    <2> SUFFICES ASSUME NEW y \in P, y < Nth(P, 1) PROVE FALSE
      OBVIOUS
    <2>1. Rank(P, y) < 1 /\ Rank(P, y) \in 1 .. Cardinality(P)
      BY <1>3, RankOrder
    <2> QED
      BY <1>1, <2>1
  <1>5. \A x, y \in Int : ~(y < x) => x <= y
    OBVIOUS
  <1>6. Nth(P, 1) \in Int /\ \A y \in P : y \in Int
    BY <1>3
  <1>7. \A y \in P : Nth(P, 1) <= y
    BY <1>4, <1>5, <1>6
  <1> QED
    BY <1>3, <1>7
=============================================================================
