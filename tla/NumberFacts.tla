---------------------------- MODULE NumberFacts ----------------------------
(***************************************************************************)
(* What the proofs about block addresses, groups and file positions need   *)
(* to know of numbers: quotients and remainders by a number that is not    *)
(* known, the least and greatest members of a set, and induction: what is  *)
(* true of no smallest number is true of none.                             *)
(***************************************************************************)
EXTENDS Integers, FiniteSets, FiniteSetsExt, FiniteSetTheorems, WellFoundedInduction, TLAPS

\* Quotient and remainder.
LEMMA DivMod ==
    ASSUME NEW a \in Nat, NEW n \in Nat \ {0}
    PROVE  /\ a \div n \in Nat /\ a % n \in 0 .. n - 1
           /\ a = n * (a \div n) + (a % n)
           /\ n * (a \div n) <= a /\ a < n * (a \div n) + n
  BY SMT

\* They are the only ones.
LEMMA DivModOf ==
    ASSUME NEW n \in Nat \ {0}, NEW q \in Nat, NEW r \in 0 .. n - 1
    PROVE  (n * q + r) \div n = q /\ (n * q + r) % n = r
  BY SMT

\* Multiplication is monotonic, and leaves gaps.
LEMMA Times ==
    ASSUME NEW n \in Nat, NEW a \in Int, NEW b \in Int
    PROVE  /\ a <= b => n * a <= n * b
           /\ a < b => n * a + n <= n * b
  BY SMT

\* The group of a position grows with it.
LEMMA DivMonotonic ==
    ASSUME NEW a \in Nat, NEW b \in Nat, a <= b, NEW n \in Nat \ {0}
    PROVE  a \div n <= b \div n
  <1> DEFINE p == a \div n
             q == b \div n
  <1>1. p \in Nat /\ q \in Nat /\ n * p <= a /\ b < n * q + n
    BY DivMod
  <1>2. q < p => n * q + n <= n * p
    BY <1>1, Times
  <1> HIDE DEF p, q
  <1>3. p <= q
    <2>1. n * p \in Nat /\ n * q \in Nat
      BY <1>1
    <2> QED
      BY <1>1, <1>2, <2>1
  <1> QED
    BY <1>3 DEF p, q

\* Rounding up: the first multiple of n that is not below a.
LEMMA DivUp ==
    ASSUME NEW a \in Nat, NEW n \in Nat \ {0}
    PROVE  /\ (a + n - 1) \div n \in Nat
           /\ a <= n * ((a + n - 1) \div n)
           /\ n * ((a + n - 1) \div n) < a + n
  <1> DEFINE m == a + n - 1
             q == m \div n
  <1>0. m \in Nat
    OBVIOUS
  <1>1. q \in Nat /\ n * q <= m /\ m < n * q + n
    BY <1>0, DivMod
  <1> HIDE DEF q
  <1>2. n * q \in Nat
    BY <1>1
  <1>3. a <= n * q /\ n * q < a + n
    BY <1>1, <1>2
  <1> QED
    BY <1>1, <1>3 DEF q

\* A finite set of numbers has a smallest one, and Min is it: of the sets of its
\* members below one of them, take a smallest.
LEMMA MinFacts ==
    ASSUME NEW S \in SUBSET Nat, S # {}, IsFiniteSet(S)
    PROVE  Min(S) \in S /\ \A z \in S : Min(S) <= z
  <1> DEFINE below(y) == {z \in S : z < y}
             T == {below(y) : y \in S}
  <1>2. T \subseteq FiniteSubsetsOf(S)
    BY FS_Subset DEF FiniteSubsetsOf
  <1>3. T # {}
    OBVIOUS
  <1>4. PICK U \in T : \A V \in T : ~ (<<V, U>> \in StrictSubsetOrdering(S))
    <2>1. IsWellFoundedOn(StrictSubsetOrdering(S), FiniteSubsetsOf(S))
      BY FS_StrictSubsetOrderingWellFounded
    <2> HIDE DEF T
    <2> QED
      BY <1>2, <1>3, <2>1, WFMin
  <1>5. PICK y \in S : U = below(y)
    OBVIOUS
  <1>6. \A z \in S : ~ (z < y)
    <2> SUFFICES ASSUME NEW z \in S, z < y
                 PROVE  FALSE
      OBVIOUS
    <2>1. below(z) \subseteq below(y)
      <3>1. \A w \in S : w < z => w < y
        OBVIOUS
      <3> QED
        BY <3>1
    <2>3. z \in below(y) /\ z \notin below(z)
      OBVIOUS
    <2>2. <<below(z), below(y)>> \in StrictSubsetOrdering(S)
      BY <2>1, <2>3 DEF StrictSubsetOrdering
    <2> QED
      BY <1>4, <1>5, <2>2
  <1>7. \E x \in S : \A z \in S : x <= z
    BY <1>6
  <1> QED
    BY <1>7 DEF Min

\* A set of numbers has a smallest one.
LEMMA Least ==
    ASSUME NEW S \in SUBSET Nat, S # {}
    PROVE  \E m \in S : \A z \in S : m <= z
  <1>1. PICK n \in S : TRUE
    OBVIOUS
  <1> DEFINE T == {z \in S : z <= n}
  <1>2. IsFiniteSet(T)
    <2>1. n \in Nat /\ T \in SUBSET Nat /\ \A z \in T : z <= n
      OBVIOUS
    <2> HIDE DEF T
    <2> QED
      BY <2>1, FS_BoundedSetOfNaturals
  <1>3. T \in SUBSET Nat /\ n \in T
    <2>1. n \in Nat /\ n <= n
      OBVIOUS
    <2> QED
      BY <2>1
  <1>4. Min(T) \in T /\ \A z \in T : Min(T) <= z
    <2> HIDE DEF T
    <2> QED
      BY <1>2, <1>3, MinFacts
  <1> DEFINE m == Min(T)
  <1>5. m \in S /\ m \in Nat /\ m <= n /\ n \in Nat
    BY <1>4
  <1>6. ASSUME NEW z \in S
        PROVE  m <= z
    <2>1. CASE z <= n
      BY <1>4, <2>1
    <2>2. CASE n < z
      <3> HIDE DEF m
      <3> QED
        BY <1>5, <2>2
    <2> QED
      BY <1>5, <2>1, <2>2
  <1> QED
    BY <1>5, <1>6

\* Induction: the smallest number that is not in the set would have one before it.
LEMMA Induction ==
    ASSUME NEW S, NEW m \in Nat, 0 \in S, \A n \in 0 .. m - 1 : n \in S => n + 1 \in S
    PROVE  \A n \in 0 .. m : n \in S
  <1> DEFINE T == {n \in 0 .. m : n \notin S}
  <1>1. SUFFICES ASSUME T # {}
                 PROVE  FALSE
    OBVIOUS
  <1>2. PICK n \in T : \A z \in T : n <= z
    <2>1. T \in SUBSET Nat
      OBVIOUS
    <2> HIDE DEF T
    <2> QED
      BY <1>1, <2>1, Least
  <1>3. n # 0 /\ n \in 0 .. m
    OBVIOUS
  <1>4. n - 1 \in 0 .. m - 1 /\ n - 1 + 1 = n
    BY <1>3
  <1>5. n - 1 \notin T
    BY <1>2, <1>3, <1>4
  <1>6. n - 1 \in S
    BY <1>4, <1>5
  <1> QED
    BY <1>2, <1>4, <1>6

\* The functions on the numbers up to m that begin with a and go on by F.
Recursive(m, D, a, F) ==
  {f \in [0 .. m -> D] : f[0] = a /\ \A k \in 1 .. m : f[k] = F[<<k, f[k - 1]>>]}

\* There is one.
LEMMA Recursion ==
    ASSUME NEW m \in Nat, NEW D, NEW a \in D, NEW F \in [Nat \X D -> D]
    PROVE  Recursive(m, D, a, F) # {}
  <1> DEFINE Rec(n) == {f \in [0 .. n -> D] : f[0] = a /\ \A k \in 1 .. n : f[k] = F[<<k, f[k - 1]>>]}
             S == {n \in 0 .. m : Rec(n) # {}}
  <1>1. 0 \in S
    <2>1. [k \in 0 .. 0 |-> a] \in Rec(0)
      OBVIOUS
    <2> QED
      BY <2>1
  <1>2. ASSUME NEW n \in 0 .. m - 1, n \in S
        PROVE  n + 1 \in S
    <2>1. PICK f \in Rec(n) : TRUE
      BY <1>2
    <2> DEFINE g == [k \in 0 .. n + 1 |-> IF k <= n THEN f[k] ELSE F[<<k, f[n]>>]]
    <2>2. n \in Nat /\ n + 1 \in 0 .. m /\ f \in [0 .. n -> D] /\ f[n] \in D
      OBVIOUS
    <2>3. g \in [0 .. n + 1 -> D]
      <3> SUFFICES ASSUME NEW k \in 0 .. n + 1
                   PROVE  (IF k <= n THEN f[k] ELSE F[<<k, f[n]>>]) \in D
        OBVIOUS
      <3>1. k <= n => k \in 0 .. n
        BY <2>2
      <3>2. F[<<k, f[n]>>] \in D
        BY <2>2
      <3> QED
        BY <2>2, <3>1, <3>2
    <2>4. g[0] = a
      BY <2>2
    <2>5. ASSUME NEW k \in 1 .. n + 1
          PROVE  g[k] = F[<<k, g[k - 1]>>]
      <3>1. CASE k <= n
        <4>1. k \in 1 .. n /\ k - 1 \in 0 .. n /\ k \in 0 .. n + 1 /\ k - 1 \in 0 .. n + 1 /\ k - 1 <= n
          BY <2>2, <2>5, <3>1
        <4>2. g[k] = f[k] /\ g[k - 1] = f[k - 1]
          BY <3>1, <4>1
        <4> QED
          BY <4>1, <4>2
      <3>2. CASE k = n + 1
        <4>1. k - 1 = n /\ ~ (k <= n) /\ k \in 0 .. n + 1 /\ n \in 0 .. n + 1 /\ n <= n
          BY <2>2, <3>2
        <4>2. g[k] = F[<<k, f[n]>>] /\ g[k - 1] = f[n]
          BY <4>1
        <4> QED
          BY <4>2
      <3> QED
        BY <2>2, <2>5, <3>1, <3>2
    <2> HIDE DEF g
    <2>6. g \in Rec(n + 1)
      BY <2>3, <2>4, <2>5
    <2> QED
      BY <2>2, <2>6
  <1>3. m \in S
    <2> HIDE DEF S
    <2>1. m \in 0 .. m
      OBVIOUS
    <2> QED
      BY <1>1, <1>2, <2>1, Induction
  <1> QED
    BY <1>3 DEF Recursive

\* The least and the greatest of two numbers.
LEMMA MinMaxOfTwo ==
    ASSUME NEW a \in Int, NEW b \in Int
    PROVE  /\ Min({a, b}) = IF a <= b THEN a ELSE b
           /\ Max({a, b}) = IF a >= b THEN a ELSE b
  <1> DEFINE lo == IF a <= b THEN a ELSE b
             hi == IF a >= b THEN a ELSE b
  <1>1. \A x \in {a, b} : (\A y \in {a, b} : x =< y) <=> x = lo
    OBVIOUS
  <1>2. \A x \in {a, b} : (\A y \in {a, b} : x >= y) <=> x = hi
    OBVIOUS
  <1>3. lo \in {a, b} /\ hi \in {a, b}
    OBVIOUS
  <1> HIDE DEF lo, hi
  <1>4. Min({a, b}) = lo
    BY <1>1, <1>3 DEF Min
  <1>5. Max({a, b}) = hi
    BY <1>2, <1>3 DEF Max
  <1> QED
    BY <1>4, <1>5 DEF lo, hi

=============================================================================
