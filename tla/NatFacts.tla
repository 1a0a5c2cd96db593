------------------------------ MODULE NatFacts ------------------------------
(***************************************************************************)
(* Least elements and induction on the natural numbers, stated for sets,   *)
(* and division.                                                           *)
(***************************************************************************)
EXTENDS Integers, FiniteSets, FiniteSetTheorems, TLAPS

\* A set of natural numbers that is not empty has a least element.
LEMMA LeastElement ==
    ASSUME NEW T \in SUBSET Nat, T # {}
    PROVE  \E m \in T : \A k \in T : m <= k
<1> DEFINE R == StrictSubsetOrdering(Nat)
           I == {0..n : n \in T}
<1>1. IsWellFoundedOn(R, FiniteSubsetsOf(Nat))
  BY FS_StrictSubsetOrderingWellFounded, Zenon
<1>2. \A n \in T : 0..n \in SUBSET Nat /\ IsFiniteSet(0..n)
  BY FS_Interval
<1>3. I \subseteq FiniteSubsetsOf(Nat)
  BY <1>2 DEF FiniteSubsetsOf
<1>4. I # {}
  OBVIOUS
<1>5. \E x \in I : \A y \in I : ~ (<<y, x>> \in R)
  <2> HIDE DEF I, R
  <2> QED
    BY <1>1, <1>3, <1>4, WFMin, Zenon
<1>6. PICK m \in T : \A n \in T : ~ (<<0..n, 0..m>> \in R)
  BY <1>5
<1>7. ASSUME NEW k \in T, ~(m <= k)
      PROVE  FALSE
  <2>1. 0..k \subseteq 0..m /\ 0..k # 0..m
    <3>1. m \in 0..m /\ m \notin 0..k
      BY <1>7
    <3> QED
      BY <1>7, <3>1
  <2>2. <<0..k, 0..m>> \in R
    BY <1>2, <2>1 DEF StrictSubsetOrdering
  <2> QED
    BY <1>6, <2>2
<1> QED
  BY <1>7

\* Induction.
LEMMA Induction ==
    ASSUME NEW S \in SUBSET Nat, 0 \in S, \A n \in S : n + 1 \in S
    PROVE  S = Nat
<1> SUFFICES ASSUME Nat \ S # {} PROVE FALSE
  OBVIOUS
<1>1. PICK m \in Nat \ S : \A k \in Nat \ S : m <= k
  BY LeastElement
<1>2. m - 1 \in Nat /\ m - 1 \in S
  BY <1>1
<1> QED
  BY <1>1, <1>2

\* Division with remainder.
LEMMA DivMod ==
    ASSUME NEW a \in Nat, NEW n \in Nat \ {0}
    PROVE  /\ a \div n \in Nat
           /\ a % n \in 0..(n - 1)
           /\ a = (a \div n) * n + (a % n)
  OBVIOUS

\* Quotient and remainder are unique.
LEMMA ModUnique ==
    ASSUME NEW n \in Nat \ {0}, NEW q \in Nat, NEW r \in 0..(n - 1)
    PROVE  (q * n + r) % n = r
<1> DEFINE a == q * n + r
           q2 == a \div n
           r2 == a % n
<1>1. q * n \in Nat /\ a \in Nat
  OBVIOUS
<1> HIDE DEF a
<1>2. q2 \in Nat /\ r2 \in 0..(n - 1) /\ a = q2 * n + r2
  BY <1>1, DivMod
<1> HIDE DEF q2, r2
<1>3. q2 * n \in Nat
  BY <1>2
<1>4. q * n + r = q2 * n + r2
  BY <1>2 DEF a
<1>5. CASE q = q2
  BY <1>1, <1>2, <1>4, <1>5 DEF r2, a
<1>6. CASE q < q2
  <2>1. q2 * n >= q * n + n
    BY <1>2, <1>6
  <2> QED
    BY <1>1, <1>2, <1>3, <1>4, <2>1
<1>7. CASE q2 < q
  <2>1. q * n >= q2 * n + n
    BY <1>2, <1>7
  <2> QED
    BY <1>1, <1>2, <1>3, <1>4, <2>1
<1> QED
  BY <1>2, <1>5, <1>6, <1>7

\* The quotient.
LEMMA DivUnique ==
    ASSUME NEW n \in Nat \ {0}, NEW q \in Nat, NEW r \in 0..(n - 1)
    PROVE  (q * n + r) \div n = q
<1> DEFINE a == q * n + r
           q2 == a \div n
<1>1. q * n \in Nat /\ a \in Nat
  OBVIOUS
<1> HIDE DEF a
<1>2. q2 \in Nat /\ a % n \in 0..(n - 1) /\ a = q2 * n + (a % n)
  BY <1>1, DivMod
<1>3. a % n = r
  BY ModUnique DEF a
<1> HIDE DEF q2
<1>4. q2 * n \in Nat
  BY <1>2
<1>5. q2 * n = q * n
  BY <1>1, <1>2, <1>3, <1>4 DEF a
<1>6. ~(q < q2) /\ ~(q2 < q)
  <2>1. q < q2 => q2 * n >= q * n + n
    BY <1>2
  <2>2. q2 < q => q * n >= q2 * n + n
    BY <1>2
  <2> QED
    BY <1>1, <1>4, <1>5, <2>1, <2>2
<1> QED
  BY <1>2, <1>6 DEF q2, a

\* The remainder counts on around n.
LEMMA ModNext ==
    ASSUME NEW n \in Nat \ {0}, NEW k \in Nat
    PROVE  (k + 1) % n = IF (k % n) + 1 = n THEN 0 ELSE (k % n) + 1
<1> DEFINE q == k \div n
           r == k % n
<1>1. q \in Nat /\ r \in 0..(n - 1) /\ k = q * n + r
  BY DivMod
<1> HIDE DEF q, r
<1>2. CASE r + 1 # n
  <2>1. k + 1 = q * n + (r + 1) /\ r + 1 \in 0..(n - 1)
    <3>1. q * n \in Nat
      BY <1>1
    <3> QED
      BY <1>1, <1>2, <3>1
  <2>2. (k + 1) % n = r + 1
    BY <1>1, <2>1, ModUnique
  <2> QED
    BY <1>2, <2>2 DEF r
<1>3. CASE r + 1 = n
  <2>1. k + 1 = (q + 1) * n + 0 /\ q + 1 \in Nat /\ 0 \in 0..(n - 1)
    BY <1>1, <1>3
  <2>2. (k + 1) % n = 0
    BY <2>1, ModUnique
  <2> QED
    BY <1>3, <2>2 DEF r
<1> QED
  BY <1>2, <1>3

\* f begins with a, and its element k is made of the one before by G[k].
Iterates(f, m, S, a, G) ==
    /\ f \in [0..m -> S]
    /\ f[0] = a
    /\ \A k \in 1..m : f[k] = G[k][f[k - 1]]

\* A recursive definition over 0..N has a value.
LEMMA Recursion ==
    ASSUME NEW S, NEW N \in Nat, NEW a \in S, NEW G \in [1..N -> [S -> S]]
    PROVE  \E f : Iterates(f, N, S, a, G)
<1> DEFINE Begins(m, f) == Iterates(f, m, S, a, G)
           T == {m \in Nat : m <= N => \E f : Begins(m, f)}
<1>1. 0 \in T
  <2>1. Begins(0, [k \in 0..0 |-> a])
    BY DEF Iterates
  <2> QED
    BY <2>1
<1>2. ASSUME NEW m \in T
      PROVE  m + 1 \in T
  <2> SUFFICES ASSUME m + 1 <= N
               PROVE  \E f : Begins(m + 1, f)
    OBVIOUS
  <2>1. m \in Nat /\ m <= N /\ m + 1 \in 1..N
    OBVIOUS
  <2>2. PICK f : Begins(m, f)
    BY <1>2, <2>1
  <2> DEFINE last == G[m + 1][f[m]]
             V == [k \in 0..(m + 1) |-> IF k = m + 1 THEN last ELSE f[k]]
  <2>3. f[m] \in S
    BY <2>1, <2>2 DEF Iterates
  <2>4. last \in S
    BY <2>1, <2>3
  <2>5. V \in [0..(m + 1) -> S] /\ V[0] = a
    <3> HIDE DEF last
    <3> QED
      BY <2>1, <2>2, <2>4 DEF Iterates
  <2>6. ASSUME NEW k \in 1..(m + 1)
        PROVE  V[k] = G[k][V[k - 1]]
    <3>1. CASE k = m + 1
      <4>1. V[k] = last /\ V[k - 1] = f[m]
        <5> HIDE DEF last
        <5> QED
          BY <2>1, <3>1
      <4> HIDE DEF V
      <4> QED
        BY <3>1, <4>1
    <3>2. CASE k # m + 1
      <4>1. /\ V[k] = f[k] /\ V[k - 1] = f[k - 1]
            /\ f[k] = G[k][f[k - 1]]
        <5> HIDE DEF last
        <5> QED
          BY <2>1, <2>2, <3>2 DEF Iterates
      <4> HIDE DEF V
      <4> QED
        BY <4>1
    <3> QED
      BY <3>1, <3>2
  <2>7. Begins(m + 1, V)
    <3> HIDE DEF V
    <3> QED
      BY <2>5, <2>6 DEF Iterates
  <2> HIDE DEF Begins
  <2> QED
    BY <2>7
<1>3. T \in SUBSET Nat
  OBVIOUS
<1> HIDE DEF T
<1>4. T = Nat
  BY <1>1, <1>2, <1>3, Induction
<1> HIDE DEF Begins
<1>5. \E f : Begins(N, f)
  <2>1. N \in T
    BY <1>4
  <2> QED
    BY <2>1 DEF T
<1> QED
  BY <1>5 DEF Begins
=============================================================================
