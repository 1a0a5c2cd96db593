--------------------------- MODULE LinkedListProofs ---------------------------
(***************************************************************************)
(* Theorems about LinkedList: for any number of nodes the operations keep  *)
(* the links in one circle, and do to the objects what ObjectList says.    *)
(***************************************************************************)
EXTENDS LinkedList, SequenceTheorems, FiniteSetTheorems, NatFacts

-----------------------------------------------------------------------------
(* The circle *)

\* Positions 1..L of a circle.
After(L, i) == IF i = L THEN 1 ELSE i + 1
Before(L, i) == IF i = 1 THEN L ELSE i - 1

\* s lists the nodes u in order from h, and p and x link them in a circle.
Ring(L, s, h, p, x, u) ==
    /\ L \in Nat
    /\ s \in [1..L -> Nodes]
    /\ \A i, j \in 1..L : s[i] = s[j] => i = j
    /\ u = {s[i] : i \in 1..L}
    /\ h = IF L = 0 THEN NULL ELSE s[1]
    /\ \A i \in 1..L : x[s[i]] = s[After(L, i)] /\ p[s[i]] = s[Before(L, i)]

\* s with n at position k, and s without position k.
Inserted(L, s, k, n) ==
    [i \in 1..(L + 1) |-> IF i < k THEN s[i] ELSE IF i = k THEN n ELSE s[i - 1]]
Removed(L, s, k) ==
    [i \in 1..(L - 1) |-> IF i < k THEN s[i] ELSE s[i + 1]]

\* Linking n in front of the k-th node, or behind the last one, puts it there.
LEMMA InsertRing ==
    ASSUME NEW L, NEW s, NEW h, NEW p \in [Nodes -> Pointer],
           NEW x \in [Nodes -> Pointer], NEW u, Ring(L, s, h, p, x, u), L # 0,
           NEW n \in Nodes, n \notin u, NEW k \in 1..(L + 1),
           NEW node, node = s[IF k = L + 1 THEN 1 ELSE k],
           NEW np, np = [p EXCEPT ![n] = p[node], ![node] = n],
           NEW nx, nx = [x EXCEPT ![n] = node, ![p[node]] = n]
    PROVE  Ring(L + 1, Inserted(L, s, k, n), IF k = 1 THEN n ELSE h,
                np, nx, u \cup {n})
<1> DEFINE t == Inserted(L, s, k, n)
<1>1. /\ L \in Nat \ {0}
      /\ s \in [1..L -> Nodes]
      /\ \A i, j \in 1..L : s[i] = s[j] => i = j
      /\ u = {s[i] : i \in 1..L}
      /\ h = s[1]
      /\ \A i \in 1..L : x[s[i]] = s[After(L, i)] /\ p[s[i]] = s[Before(L, i)]
  BY DEF Ring
<1>2. \A i \in 1..L : s[i] \in Nodes /\ s[i] # n
  BY <1>1
<1> DEFINE at == IF k = L + 1 THEN 1 ELSE k
<1>3. at \in 1..L /\ node = s[at] /\ node \in Nodes /\ node # n
  BY <1>1, <1>2
<1>4. Before(L, at) \in 1..L /\ p[node] = s[Before(L, at)]
  BY <1>1, <1>3 DEF Before
<1>5. t \in [1..(L + 1) -> Nodes]
  BY <1>1, <1>2 DEF Inserted
<1>6. \A i, j \in 1..(L + 1) : t[i] = t[j] => i = j
  BY <1>1, <1>2 DEF Inserted
<1>7. u \cup {n} = {t[i] : i \in 1..(L + 1)}
  <2>1. ASSUME NEW i \in 1..(L + 1) PROVE t[i] \in u \cup {n}
    BY <1>1, <1>2 DEF Inserted
  <2>2. ASSUME NEW i \in 1..L PROVE \E j \in 1..(L + 1) : s[i] = t[j]
    <3>1. CASE i < k
      BY <1>1, <3>1 DEF Inserted
    <3>2. CASE ~(i < k)
      <4>1. i + 1 \in 1..(L + 1) /\ t[i + 1] = s[i]
        BY <1>1, <3>2 DEF Inserted
      <4> QED
        BY <4>1
    <3> QED
      BY <3>1, <3>2
  <2>3. t[k] = n
    BY <1>1 DEF Inserted
  <2> QED
    BY <1>1, <2>1, <2>2, <2>3
<1>8. (IF k = 1 THEN n ELSE h) = t[1]
  BY <1>1 DEF Inserted
<1>9. ASSUME NEW i \in 1..(L + 1)
      PROVE  nx[t[i]] = t[After(L + 1, i)]
  <2>1. nx[n] = node
    BY <1>2, <1>3, <1>4
  <2>2. nx[p[node]] = n
    BY <1>2, <1>4
  <2>3. \A j \in 1..L : j # Before(L, at) => nx[s[j]] = x[s[j]]
    BY <1>1, <1>2, <1>4
  <2>4. CASE i = k
    <3>1. t[i] = n /\ t[After(L + 1, i)] = node
      BY <1>1, <1>3, <2>4 DEF Inserted, After
    <3> QED
      BY <2>1, <3>1
  <2>5. CASE i # k /\ After(L + 1, i) = k
    <3>1. t[After(L + 1, i)] = n
      BY <1>1, <2>5 DEF Inserted
    <3>2. t[i] = s[Before(L, at)]
      BY <1>1, <1>3, <2>5 DEF Inserted, After, Before
    <3> QED
      BY <1>4, <2>2, <3>1, <3>2
  <2>6. CASE i # k /\ After(L + 1, i) # k
    <3> DEFINE j == IF i < k THEN i ELSE i - 1
    <3>1. j \in 1..L /\ t[i] = s[j] /\ j # Before(L, at)
      BY <1>1, <1>3, <2>6 DEF Inserted, After, Before
    <3>2. t[After(L + 1, i)] = s[After(L, j)]
      BY <1>1, <2>6 DEF Inserted, After
    <3>3. nx[s[j]] = x[s[j]] /\ x[s[j]] = s[After(L, j)]
      BY <1>1, <2>3, <3>1
    <3> QED
      BY <3>1, <3>2, <3>3
  <2> QED
    BY <2>4, <2>5, <2>6
<1>10. ASSUME NEW i \in 1..(L + 1)
       PROVE  np[t[i]] = t[Before(L + 1, i)]
  <2>1. np[n] = p[node]
    BY <1>2, <1>3
  <2>2. np[node] = n
    BY <1>2, <1>3
  <2>3. \A j \in 1..L : j # at => np[s[j]] = p[s[j]]
    BY <1>1, <1>2, <1>3
  <2>4. CASE i = k
    <3>1. t[i] = n /\ t[Before(L + 1, i)] = s[Before(L, at)]
      BY <1>1, <1>3, <2>4 DEF Inserted, Before
    <3> QED
      BY <1>4, <2>1, <3>1
  <2>5. CASE i # k /\ Before(L + 1, i) = k
    <3>1. t[Before(L + 1, i)] = n
      BY <1>1, <2>5 DEF Inserted
    <3>2. t[i] = node
      BY <1>1, <1>3, <2>5 DEF Inserted, Before
    <3> QED
      BY <2>2, <3>1, <3>2
  <2>6. CASE i # k /\ Before(L + 1, i) # k
    <3> DEFINE j == IF i < k THEN i ELSE i - 1
    <3>1. j \in 1..L /\ t[i] = s[j] /\ j # at
      BY <1>1, <1>3, <2>6 DEF Inserted, Before
    <3>2. t[Before(L + 1, i)] = s[Before(L, j)]
      BY <1>1, <2>6 DEF Inserted, Before
    <3>3. np[s[j]] = p[s[j]] /\ p[s[j]] = s[Before(L, j)]
      BY <1>1, <2>3, <3>1
    <3> QED
      BY <3>1, <3>2, <3>3
  <2> QED
    BY <2>4, <2>5, <2>6
<1> HIDE DEF t
<1>11. Ring(L + 1, t, IF k = 1 THEN n ELSE h, np, nx, u \cup {n})
  <2>1. L + 1 \in Nat /\ L + 1 # 0
    BY <1>1
  <2>2. (IF k = 1 THEN n ELSE h) = IF L + 1 = 0 THEN NULL ELSE t[1]
    BY <1>8, <2>1
  <2> QED
    BY <1>5, <1>6, <1>7, <1>9, <1>10, <2>1, <2>2, Zenon DEF Ring
<1> QED
  BY <1>11 DEF t

\* A node alone is a circle.
LEMMA SingleRing ==
    ASSUME NEW n \in Nodes,
           NEW p \in [Nodes -> Pointer], NEW x \in [Nodes -> Pointer]
    PROVE  Ring(1, Inserted(0, <<>>, 1, n), n, [p EXCEPT ![n] = n],
                [x EXCEPT ![n] = n], {n})
<1> DEFINE t == Inserted(0, <<>>, 1, n)
<1>1. t = [i \in 1..1 |-> n]
  BY DEF Inserted
<1>2. t \in [1..1 -> Nodes] /\ t[1] = n
  BY <1>1
<1> HIDE DEF t
<1>3. Ring(1, t, n, [p EXCEPT ![n] = n], [x EXCEPT ![n] = n], {n})
  BY <1>2 DEF Ring, After, Before
<1> QED
  BY <1>3 DEF t

\* Unlinking the k-th node closes the gap; freeing it clears its fields.
LEMMA RemoveRing ==
    ASSUME NEW L, NEW s, NEW h, NEW p \in [Nodes -> Pointer],
           NEW x \in [Nodes -> Pointer], NEW u, Ring(L, s, h, p, x, u),
           NEW k \in 1..L, NEW n, n = s[k],
           NEW np, np = [[p EXCEPT ![x[n]] = p[n]] EXCEPT ![n] = NULL],
           NEW nx, nx = [[x EXCEPT ![p[n]] = x[n]] EXCEPT ![n] = NULL],
           NEW nh, nh = IF k > 1 THEN h ELSE IF x[h] = h THEN NULL ELSE x[h]
    PROVE  Ring(L - 1, Removed(L, s, k), nh, np, nx, u \ {n})
<1> DEFINE t == Removed(L, s, k)
<1>1. /\ L \in Nat \ {0}
      /\ s \in [1..L -> Nodes]
      /\ \A i, j \in 1..L : s[i] = s[j] => i = j
      /\ u = {s[i] : i \in 1..L}
      /\ h = s[1]
      /\ \A i \in 1..L : x[s[i]] = s[After(L, i)] /\ p[s[i]] = s[Before(L, i)]
  BY DEF Ring
<1>2. n \in Nodes /\ \A i \in 1..L : s[i] \in Nodes
  BY <1>1
<1>3. /\ After(L, k) \in 1..L /\ x[n] = s[After(L, k)]
      /\ Before(L, k) \in 1..L /\ p[n] = s[Before(L, k)]
  BY <1>1 DEF After, Before
<1>4. L - 1 \in Nat
  BY <1>1
<1>5. t \in [1..(L - 1) -> Nodes]
  BY <1>1, <1>2 DEF Removed
<1>6. \A i, j \in 1..(L - 1) : t[i] = t[j] => i = j
  BY <1>1, <1>2 DEF Removed
<1>7. u \ {n} = {t[i] : i \in 1..(L - 1)}
  <2>1. ASSUME NEW i \in 1..(L - 1) PROVE t[i] \in u \ {n}
    BY <1>1, <1>2 DEF Removed
  <2>2. ASSUME NEW i \in 1..L, i # k PROVE \E j \in 1..(L - 1) : s[i] = t[j]
    <3>1. CASE i < k
      <4>1. i \in 1..(L - 1) /\ t[i] = s[i]
        BY <1>1, <3>1 DEF Removed
      <4> QED
        BY <4>1
    <3>2. CASE ~(i < k)
      <4>1. i - 1 \in 1..(L - 1) /\ t[i - 1] = s[i]
        BY <1>1, <2>2, <3>2 DEF Removed
      <4> QED
        BY <4>1
    <3> QED
      BY <3>1, <3>2
  <2>3. u = {s[i] : i \in 1..L} /\ n = s[k]
    BY <1>1
  <2>4. \A y \in u \ {n} : \E j \in 1..(L - 1) : y = t[j]
    BY <2>2, <2>3
  <2> HIDE DEF t
  <2> QED
    BY <2>1, <2>4
<1>8. nh = IF L - 1 = 0 THEN NULL ELSE t[1]
  <2>1. CASE L = 1
    BY <1>1, <2>1 DEF After
  <2>2. CASE L # 1
    <3>1. x[h] = s[2] /\ s[2] # h
      BY <1>1, <2>2 DEF After
    <3>2. t[1] = IF k > 1 THEN s[1] ELSE s[2]
      BY <1>1, <2>2 DEF Removed
    <3> QED
      BY <1>1, <2>2, <3>1, <3>2
  <2> QED
    BY <2>1, <2>2
<1>9. ASSUME NEW i \in 1..(L - 1)
      PROVE  nx[t[i]] = t[After(L - 1, i)]
  <2> DEFINE j == IF i < k THEN i ELSE i + 1
  <2>1. j \in 1..L /\ t[i] = s[j] /\ j # k
    BY <1>1 DEF Removed
  <2>2. s[j] # n
    BY <1>1, <2>1
  <2>3. CASE j = Before(L, k)
    <3>1. nx[s[j]] = x[n]
      BY <1>2, <1>3, <2>1, <2>2, <2>3
    <3>2. t[After(L - 1, i)] = s[After(L, k)]
      BY <1>1, <2>3 DEF Removed, After, Before
    <3> QED
      BY <1>3, <2>1, <3>1, <3>2
  <2>4. CASE j # Before(L, k)
    <3>1. s[j] # p[n]
      BY <1>1, <1>3, <2>1, <2>4
    <3>2. nx[s[j]] = s[After(L, j)]
      BY <1>1, <1>2, <1>3, <2>1, <2>2, <3>1
    <3>3. t[After(L - 1, i)] = s[After(L, j)]
      BY <1>1, <2>4 DEF Removed, After, Before
    <3> QED
      BY <2>1, <3>2, <3>3
  <2> QED
    BY <2>3, <2>4
<1>10. ASSUME NEW i \in 1..(L - 1)
       PROVE  np[t[i]] = t[Before(L - 1, i)]
  <2> DEFINE j == IF i < k THEN i ELSE i + 1
  <2>1. j \in 1..L /\ t[i] = s[j] /\ j # k
    BY <1>1 DEF Removed
  <2>2. s[j] # n
    BY <1>1, <2>1
  <2>3. CASE j = After(L, k)
    <3>1. np[s[j]] = p[n]
      BY <1>2, <1>3, <2>1, <2>2, <2>3
    <3>2. t[Before(L - 1, i)] = s[Before(L, k)]
      BY <1>1, <2>3 DEF Removed, After, Before
    <3> QED
      BY <1>3, <2>1, <3>1, <3>2
  <2>4. CASE j # After(L, k)
    <3>1. s[j] # x[n]
      BY <1>1, <1>3, <2>1, <2>4
    <3>2. np[s[j]] = s[Before(L, j)]
      BY <1>1, <1>2, <1>3, <2>1, <2>2, <3>1
    <3>3. t[Before(L - 1, i)] = s[Before(L, j)]
      BY <1>1, <2>4 DEF Removed, After, Before
    <3> QED
      BY <2>1, <3>2, <3>3
  <2> QED
    BY <2>3, <2>4
<1> HIDE DEF t
<1>11. Ring(L - 1, t, nh, np, nx, u \ {n})
  BY <1>4, <1>5, <1>6, <1>7, <1>8, <1>9, <1>10, Zenon DEF Ring
<1> QED
  BY <1>11 DEF t

-----------------------------------------------------------------------------
(* Walking around the circle *)

\* A circle has no more nodes than there are.
LEMMA RingFits ==
    ASSUME NEW L, NEW s, NEW h, NEW p, NEW x, NEW u, Ring(L, s, h, p, x, u)
    PROVE  /\ u \in SUBSET Nodes
           /\ L = Cardinality(u)
           /\ L \in 0..Cardinality(Nodes)
           /\ \A n \in Nodes \ u : L < Cardinality(Nodes)
<1>1. /\ L \in Nat
      /\ s \in [1..L -> Nodes]
      /\ \A i, j \in 1..L : s[i] = s[j] => i = j
      /\ u = {s[i] : i \in 1..L}
  BY DEF Ring
<1>2. u \subseteq Nodes /\ IsFiniteSet(Nodes)
  BY <1>1, LinkedListAssumption
<1>3. s \in Bijection(1..L, u)
  BY <1>1 DEF Bijection, Injection, Surjection, IsInjective
<1>4. IsFiniteSet(u) /\ Cardinality(u) = L
  <2>1. ExistsBijection(1..L, u)
    BY <1>3 DEF ExistsBijection
  <2>2. IsFiniteSet(1..L) /\ Cardinality(1..L) = L
    BY <1>1, FS_Interval
  <2> HIDE DEF Ring
  <2> QED
    BY <2>1, <2>2, FS_Bijection, Zenon
<1>5. Cardinality(u) <= Cardinality(Nodes) /\ Cardinality(Nodes) \in Nat
  BY <1>2, FS_Subset, FS_CardinalityType
<1>6. ASSUME NEW n \in Nodes \ u PROVE Cardinality(u) < Cardinality(Nodes)
  <2>1. u \subseteq Nodes /\ u # Nodes
    BY <1>2
  <2> QED
    <3>1. Cardinality(Nodes) # Cardinality(u)
      BY <1>2, <2>1, FS_Subset, Zenon
    <3>2. Cardinality(u) \in Nat
      BY <1>1, <1>4
    <3> QED
      BY <1>5, <3>1, <3>2
<1> QED
  BY <1>1, <1>2, <1>4, <1>5, <1>6

\* The walk visits the nodes of the circle in order, again and again.
LEMMA WalkRing ==
    ASSUME NEW L, NEW s, Ring(L, s, head, prev, next, used)
    PROVE  /\ \A i \in 1..L : Walk[i - 1] = s[i]
           /\ L <= Cardinality(Nodes) /\ Walk[L] = head
           /\ \A i \in 1..(L - 1) : Walk[i] \notin {head, NULL}
<1> DEFINE N == Cardinality(Nodes)
           Step(W) == [i \in 0..N |-> IF i = 0 THEN head ELSE Next1(W[i - 1])]
<1>1. /\ L \in Nat
      /\ s \in [1..L -> Nodes]
      /\ \A i, j \in 1..L : s[i] = s[j] => i = j
      /\ head = IF L = 0 THEN NULL ELSE s[1]
      /\ \A i \in 1..L : next[s[i]] = s[After(L, i)]
  BY DEF Ring
<1>2. N \in Nat /\ L <= N
  BY <1>1, RingFits, FS_CardinalityType, LinkedListAssumption
<1> HIDE DEF N
<1>3. \E W : W = Step(W)
  <2>1. CASE L = 0
    <3> DEFINE W == [i \in 0..N |-> NULL]
    <3>1. W = Step(W)
      BY <1>1, <1>2, <2>1 DEF Next1
    <3> QED
      BY <3>1
  <2>2. CASE L # 0
    <3> DEFINE W == [i \in 0..N |-> s[(i % L) + 1]]
    <3>1. \A i \in 0..N : W[i] = IF i = 0 THEN head ELSE Next1(W[i - 1])
      <4> SUFFICES ASSUME NEW i \in 0..N
                   PROVE  W[i] = IF i = 0 THEN head ELSE Next1(W[i - 1])
        OBVIOUS
      <4>1. CASE i = 0
        <5>1. i % L = 0
          BY <1>1, <2>2, <4>1
        <5> QED
          BY <1>1, <1>2, <2>2, <4>1, <5>1
      <4>2. CASE i # 0
        <5> DEFINE q == (i - 1) % L
        <5>1. q \in 0..(L - 1)
          BY <1>1, <1>2, <2>2, <4>2
        <5>2. i % L = IF q + 1 = L THEN 0 ELSE q + 1
          <6>1. i - 1 \in Nat /\ (i - 1) + 1 = i /\ L \in Nat \ {0}
            BY <1>1, <1>2, <2>2, <4>2
          <6>2. ((i - 1) + 1) % L = IF q + 1 = L THEN 0 ELSE q + 1
            BY <6>1, ModNext
          <6> QED
            BY <6>1, <6>2
        <5> HIDE DEF q
        <5>3. (i % L) + 1 = After(L, q + 1)
          BY <1>1, <5>1, <5>2 DEF After
        <5>4. q + 1 \in 1..L /\ s[q + 1] \in Nodes /\ s[q + 1] # NULL
          BY <1>1, <5>1, LinkedListAssumption
        <5>5. W[i - 1] = s[q + 1] /\ i - 1 \in 0..N
          BY <1>2, <4>2 DEF q
        <5>6. W[i] = s[After(L, q + 1)]
          BY <5>3
        <5> QED
          BY <1>1, <4>2, <5>4, <5>5, <5>6 DEF Next1
      <4> QED
        BY <4>1, <4>2
    <3>2. W = Step(W)
      BY <3>1
    <3> QED
      BY <3>2
  <2> QED
    BY <2>1, <2>2
<1>4. Walk = Step(Walk)
  BY <1>3, Zenon DEF Walk, N
<1>5. Walk[0] = head /\ \A i \in 1..N : Walk[i] = Next1(Walk[i - 1])
  BY <1>2, <1>4
<1>6. \A i \in 1..L : Walk[i - 1] = s[i]
  <2> DEFINE T == {m \in Nat : m < L => Walk[m] = s[m + 1]}
  <2>1. 0 \in T
    BY <1>1, <1>5
  <2>2. ASSUME NEW m \in T PROVE m + 1 \in T
    <3>1. ASSUME m + 1 < L PROVE Walk[m + 1] = s[m + 2]
      <4>1. m \in Nat /\ m + 1 \in 1..L /\ m + 1 \in 1..N /\ (m + 1) - 1 = m
        BY <1>1, <1>2, <3>1
      <4>2. Walk[m] = s[m + 1]
        BY <1>1, <3>1, <4>1
      <4>3. Walk[m + 1] = Next1(s[m + 1])
        BY <1>5, <4>1, <4>2
      <4>4. s[m + 1] # NULL
        BY <1>1, <4>1, LinkedListAssumption
      <4>5. After(L, m + 1) = m + 2
        BY <1>1, <3>1, <4>1 DEF After
      <4> QED
        BY <1>1, <4>1, <4>3, <4>4, <4>5 DEF Next1
    <3>2. m \in Nat /\ m + 1 \in Nat /\ (m + 1) + 1 = m + 2
      OBVIOUS
    <3> QED
      BY <3>1, <3>2
  <2>3. T \in SUBSET Nat
    OBVIOUS
  <2>4. T = Nat
    <3> HIDE DEF T
    <3> QED
      BY <2>1, <2>2, <2>3, Induction
  <2>5. ASSUME NEW i \in 1..L PROVE Walk[i - 1] = s[i]
    <3>1. i - 1 \in T /\ i - 1 < L /\ (i - 1) + 1 = i
      BY <1>1, <2>4
    <3> QED
      BY <3>1
  <2> QED
    BY <2>5
<1>7. Walk[L] = head
  <2>1. CASE L = 0
    BY <1>5, <2>1
  <2>2. CASE L # 0
    <3>1. L \in 1..N /\ L \in 1..L /\ Walk[L - 1] = s[L]
      BY <1>1, <1>2, <1>6, <2>2
    <3>2. Walk[L] = next[s[L]]
      BY <1>1, <1>5, <3>1, LinkedListAssumption DEF Next1
    <3> QED
      BY <1>1, <2>2, <3>1, <3>2 DEF After
  <2> QED
    BY <2>1, <2>2
<1>8. ASSUME NEW i \in 1..(L - 1) PROVE Walk[i] \notin {head, NULL}
  <2>1. i + 1 \in 1..L /\ 1 \in 1..L /\ i + 1 # 1 /\ (i + 1) - 1 = i /\ L # 0
    BY <1>1
  <2>2. Walk[i] = s[i + 1]
    BY <1>6, <2>1
  <2> QED
    BY <1>1, <2>1, <2>2, LinkedListAssumption
<1> QED
  BY <1>2, <1>6, <1>7, <1>8 DEF N

\* The loops that walk until they are back at the head see the whole circle.
LEMMA LengthRing ==
    ASSUME NEW L, NEW s, Ring(L, s, head, prev, next, used)
    PROVE  /\ Length = L
           /\ Contents = [i \in 1..L |-> obj[s[i]]]
<1>1. L \in Nat /\ head = (IF L = 0 THEN NULL ELSE s[1]) /\ s \in [1..L -> Nodes]
  BY DEF Ring
<1>2. /\ \A i \in 1..L : Walk[i - 1] = s[i]
      /\ L <= Cardinality(Nodes) /\ Walk[L] = head
      /\ \A i \in 1..(L - 1) : Walk[i] \notin {head, NULL}
  BY WalkRing
<1>3. Cardinality(Nodes) \in Nat
  BY FS_CardinalityType, LinkedListAssumption
<1>4. Length = L
  <2>1. CASE L = 0
    BY <1>1, <2>1 DEF Length
  <2>2. CASE L # 0
    <3> DEFINE C(n) == /\ Walk[n] \in {head, NULL} \/ n = Cardinality(Nodes)
                       /\ \A m \in 1..(n - 1) : Walk[m] \notin {head, NULL}
    <3>1. head # NULL
      BY <1>1, <2>2, LinkedListAssumption
    <3>2. Length = CHOOSE n \in 1..Cardinality(Nodes) : C(n)
      BY <3>1 DEF Length
    <3>3. L \in 1..Cardinality(Nodes) /\ C(L)
      BY <1>1, <1>2, <1>3, <2>2
    <3>4. PICK n \in 1..Cardinality(Nodes) : n = Length /\ C(n)
      <4> HIDE DEF C
      <4> QED
        BY <3>2, <3>3
    <3>5. ~(n < L)
      BY <1>1, <1>2, <1>3, <3>3, <3>4
    <3>6. ~(L < n)
      BY <1>1, <1>2, <1>3, <3>3, <3>4
    <3> QED
      BY <1>1, <1>3, <3>4, <3>5, <3>6
  <2> QED
    BY <2>1, <2>2
<1> QED
  BY <1>2, <1>4 DEF Contents

-----------------------------------------------------------------------------
(* The operations on the circle *)

\* A node with object o has come in at position k.
Added(L, s, k, n, o) ==
    /\ k \in 1..(L + 1)
    /\ n \in Nodes \ used
    /\ Ring(L + 1, Inserted(L, s, k, n), head', prev', next', used')
    /\ prev' \in [Nodes -> Pointer] /\ next' \in [Nodes -> Pointer]
    /\ obj' = [obj EXCEPT ![n] = o]
    /\ result' = result

\* The k-th node is gone.
Taken(L, s, k) ==
    /\ k \in 1..L
    /\ Ring(L - 1, Removed(L, s, k), head', prev', next', used')
    /\ prev' \in [Nodes -> Pointer] /\ next' \in [Nodes -> Pointer]
    /\ obj' = [obj EXCEPT ![s[k]] = NULL]

\* What is known of the circle before an operation.
LEMMA RingFacts ==
    ASSUME TypeOK, NEW L, NEW s, Ring(L, s, head, prev, next, used)
    PROVE  /\ L \in Nat /\ s \in [1..L -> Nodes]
           /\ head = NULL <=> L = 0
           /\ L # 0 => /\ head = s[1] /\ next[head] = s[After(L, 1)]
                       /\ prev[head] = s[L]
           /\ \A i \in 1..L : prev[s[i]] \in Nodes /\ next[s[i]] \in Nodes
           /\ Length = L
           /\ \A i \in 1..L : Walk[i - 1] = s[i] /\ Contents[i] = obj[s[i]]
<1>1. /\ L \in Nat
      /\ s \in [1..L -> Nodes]
      /\ head = IF L = 0 THEN NULL ELSE s[1]
      /\ \A i \in 1..L : /\ next[s[i]] = s[After(L, i)]
                          /\ prev[s[i]] = s[Before(L, i)]
  BY DEF Ring
<1>2. \A i \in 1..L : After(L, i) \in 1..L /\ Before(L, i) \in 1..L
  BY <1>1 DEF After, Before
<1>3. \A i \in 1..L : s[i] \in Nodes /\ s[i] # NULL
  BY <1>1, LinkedListAssumption
<1>4. head = NULL <=> L = 0
  BY <1>1, <1>3
<1>5. L # 0 => 1 \in 1..L /\ Before(L, 1) = L
  BY <1>1 DEF Before
<1>6. Length = L /\ Contents = [i \in 1..L |-> obj[s[i]]]
  BY LengthRing
<1>7. \A i \in 1..L : Walk[i - 1] = s[i]
  BY WalkRing
<1> QED
  BY <1>1, <1>2, <1>3, <1>4, <1>5, <1>6, <1>7

\* push_back to a list that is not empty, wherever its handle points.
LEMMA LinkBeforeAdds ==
    ASSUME TypeOK, NEW L, NEW s, Ring(L, s, head, prev, next, used), L # 0,
           NEW n \in Nodes, NEW o, NewNode(n, o), NEW k \in 1..(L + 1),
           LinkBefore(n, s[IF k = L + 1 THEN 1 ELSE k]),
           head' = (IF k = 1 THEN n ELSE head), result' = result
    PROVE  Added(L, s, k, n, o)
<1> DEFINE node == s[IF k = L + 1 THEN 1 ELSE k]
<1>1. /\ prev \in [Nodes -> Pointer] /\ next \in [Nodes -> Pointer]
      /\ n \notin used /\ used' = used \cup {n}
      /\ obj' = [obj EXCEPT ![n] = o]
  BY DEF TypeOK, NewNode
<1>2. /\ prev' = [prev EXCEPT ![n] = prev[node], ![node] = n]
      /\ next' = [next EXCEPT ![n] = node, ![prev[node]] = n]
  BY DEF LinkBefore
<1>3. node \in Nodes /\ prev[node] \in Nodes
  <2>1. (IF k = L + 1 THEN 1 ELSE k) \in 1..L
    BY RingFacts
  <2> QED
    BY <2>1, RingFacts
<1>4. prev' \in [Nodes -> Pointer] /\ next' \in [Nodes -> Pointer]
  BY <1>1, <1>2, <1>3 DEF Pointer
<1>5. Ring(L + 1, Inserted(L, s, k, n), head', prev', next', used')
  <2> HIDE DEF node
  <2>1. node = s[IF k = L + 1 THEN 1 ELSE k]
    BY DEF node
  <2> QED
    BY <1>1, <1>2, <2>1, InsertRing
<1> QED
  BY <1>1, <1>4, <1>5 DEF Added

\* push_back and push_front to an empty list.
LEMMA LinkAloneAdds ==
    ASSUME TypeOK, NEW L, NEW s, Ring(L, s, head, prev, next, used), L = 0,
           NEW n \in Nodes, NEW o, NewNode(n, o), LinkAlone(n),
           head' = n, result' = result
    PROVE  Added(L, s, 1, n, o)
<1>1. /\ prev \in [Nodes -> Pointer] /\ next \in [Nodes -> Pointer]
      /\ n \notin used /\ used' = used \cup {n}
      /\ obj' = [obj EXCEPT ![n] = o]
  BY DEF TypeOK, NewNode
<1>2. prev' = [prev EXCEPT ![n] = n] /\ next' = [next EXCEPT ![n] = n]
  BY DEF LinkAlone
<1>3. prev' \in [Nodes -> Pointer] /\ next' \in [Nodes -> Pointer]
  BY <1>1, <1>2 DEF Pointer
<1>4. used = {}
  BY DEF Ring
<1>5. Inserted(L, s, 1, n) = Inserted(0, <<>>, 1, n) /\ L + 1 = 1
  BY DEF Inserted
<1>6. Ring(1, Inserted(0, <<>>, 1, n), n, prev', next', {n})
  BY <1>1, <1>2, SingleRing
<1> QED
  BY <1>1, <1>3, <1>4, <1>5, <1>6 DEF Added

\* Unlinking a node, the handle moving on if it pointed there.
LEMMA UnlinkTakes ==
    ASSUME TypeOK, NEW L, NEW s, Ring(L, s, head, prev, next, used),
           NEW k \in 1..L, Unlink(s[k]),
           head' = IF k > 1 THEN head
                   ELSE IF next[head] = head THEN NULL ELSE next[head]
    PROVE  Taken(L, s, k)
<1> DEFINE n == s[k]
<1>1. prev \in [Nodes -> Pointer] /\ next \in [Nodes -> Pointer]
  BY DEF TypeOK
<1>2. /\ used' = used \ {n}
      /\ prev' = [[prev EXCEPT ![next[n]] = prev[n]] EXCEPT ![n] = NULL]
      /\ next' = [[next EXCEPT ![prev[n]] = next[n]] EXCEPT ![n] = NULL]
      /\ obj' = [obj EXCEPT ![n] = NULL]
  BY DEF Unlink, FreeNode
<1>3. n \in Nodes /\ prev[n] \in Nodes /\ next[n] \in Nodes
  BY RingFacts
<1>4. prev' \in [Nodes -> Pointer] /\ next' \in [Nodes -> Pointer]
  BY <1>1, <1>2, <1>3 DEF Pointer
<1>5. Ring(L - 1, Removed(L, s, k), head', prev', next', used')
  BY <1>1, <1>2, RemoveRing
<1> QED
  BY <1>2, <1>4, <1>5 DEF Taken

\* push_back adds at the end.
LEMMA PushBackAdds ==
    ASSUME TypeOK, NEW L, NEW s, Ring(L, s, head, prev, next, used),
           NEW n \in Nodes, NEW o \in Objects, PushBack(n, o)
    PROVE  Added(L, s, L + 1, n, o)
<1>1. L \in Nat /\ (head = NULL <=> L = 0) /\ (L # 0 => head = s[1])
  BY RingFacts
<1>2. NewNode(n, o) /\ result' = result
  BY DEF PushBack
<1>3. CASE L = 0
  <2>1. LinkAlone(n) /\ head' = n
    BY <1>1, <1>3 DEF PushBack
  <2>2. Added(L, s, 1, n, o)
    BY <1>2, <1>3, <2>1, LinkAloneAdds
  <2> QED
    BY <1>3, <2>2
<1>4. CASE L # 0
  <2>1. LinkBefore(n, s[1]) /\ head' = head
    BY <1>1, <1>4 DEF PushBack
  <2>2. L + 1 \in 1..(L + 1) /\ L + 1 # 1
    BY <1>1, <1>4
  <2>3. s[IF L + 1 = L + 1 THEN 1 ELSE L + 1] = s[1]
    OBVIOUS
  <2> QED
    BY <1>2, <1>4, <2>1, <2>2, <2>3, LinkBeforeAdds
<1> QED
  BY <1>3, <1>4

\* push_front adds at the head.
LEMMA PushFrontAdds ==
    ASSUME TypeOK, NEW L, NEW s, Ring(L, s, head, prev, next, used),
           NEW n \in Nodes, NEW o \in Objects, PushFront(n, o)
    PROVE  Added(L, s, 1, n, o)
<1>1. L \in Nat /\ (head = NULL <=> L = 0) /\ (L # 0 => head = s[1])
  BY RingFacts
<1>2. NewNode(n, o) /\ result' = result
  BY DEF PushFront
<1>3. CASE L = 0
  <2>1. LinkAlone(n) /\ head' = n
    BY <1>1, <1>3 DEF PushFront
  <2> QED
    BY <1>2, <1>3, <2>1, LinkAloneAdds
<1>4. CASE L # 0
  <2>1. LinkBefore(n, s[1]) /\ head' = prev'[head] /\ head = s[1]
    BY <1>1, <1>4 DEF PushFront
  <2>2. head' = n
    <3>1. head \in Nodes /\ n \in Nodes /\ prev \in [Nodes -> Pointer]
      BY <1>1, <1>4, RingFacts DEF TypeOK
    <3>2. prev' = [prev EXCEPT ![n] = prev[head], ![head] = n]
      BY <2>1 DEF LinkBefore
    <3> QED
      BY <2>1, <3>1, <3>2
  <2>3. 1 \in 1..(L + 1) /\ 1 # L + 1
    BY <1>1, <1>4
  <2> QED
    BY <1>2, <1>4, <2>1, <2>2, <2>3, LinkBeforeAdds
<1> QED
  BY <1>3, <1>4

\* insert_with_compare adds in front of the first node that compares.
LEMMA InsertAdds ==
    ASSUME TypeOK, NEW L, NEW s, Ring(L, s, head, prev, next, used),
           NEW n \in Nodes, NEW o \in Objects, InsertWithCompare(n, o)
    PROVE  \E k \in 1..(L + 1) :
              /\ Added(L, s, k, n, o)
              /\ k # L + 1 => o <= obj[s[k]]
              /\ \A j \in 1..(k - 1) : ~(o <= obj[s[j]])
<1>1. L \in Nat /\ (head = NULL <=> L = 0) /\ (L # 0 => head = s[1])
  BY RingFacts
<1>2. Length = L /\ \A i \in 1..L : Walk[i - 1] = s[i]
  BY RingFacts
<1>3. NewNode(n, o) /\ result' = result
  BY DEF InsertWithCompare
<1>4. CASE head = NULL /\ LinkAlone(n) /\ head' = n
  <2>1. Added(L, s, 1, n, o)
    BY <1>1, <1>3, <1>4, LinkAloneAdds
  <2>2. 1 \in 1..(L + 1) /\ 1 = L + 1 /\ \A j \in 1..(1 - 1) : FALSE
    BY <1>1, <1>4
  <2> QED
    BY <2>1, <2>2
<1>5. ASSUME NEW i \in 1..Length,
             Comparator(o, Walk[i - 1]),
             \A j \in 1..(i - 1) : ~Comparator(o, Walk[j - 1]),
             LinkBefore(n, Walk[i - 1]),
             head' = IF i = 1 THEN prev'[head] ELSE head
      PROVE  \E k \in 1..(L + 1) :
              /\ Added(L, s, k, n, o)
              /\ k # L + 1 => o <= obj[s[k]]
              /\ \A j \in 1..(k - 1) : ~(o <= obj[s[j]])
  <2>1. i \in 1..L /\ i \in 1..(L + 1) /\ i # L + 1 /\ L # 0
    BY <1>1, <1>2, <1>5
  <2>2. LinkBefore(n, s[i])
    BY <1>2, <1>5, <2>1
  <2>3. head' = (IF i = 1 THEN n ELSE head)
    <3>1. CASE i = 1
      <4>1. head \in Nodes /\ n \in Nodes /\ prev \in [Nodes -> Pointer]
        BY <1>1, <2>1, RingFacts DEF TypeOK
      <4>2. prev' = [prev EXCEPT ![n] = prev[head], ![head] = n]
        BY <1>1, <2>1, <2>2, <3>1 DEF LinkBefore
      <4> QED
        BY <1>5, <3>1, <4>1, <4>2
    <3>2. CASE i # 1
      BY <1>5, <3>2
    <3> QED
      BY <3>1, <3>2
  <2>4. Added(L, s, i, n, o)
    BY <1>3, <2>1, <2>2, <2>3, LinkBeforeAdds
  <2>5. o <= obj[s[i]] /\ \A j \in 1..(i - 1) : ~(o <= obj[s[j]])
    <3>1. \A j \in 1..(i - 1) : Walk[j - 1] = s[j]
      BY <1>1, <1>2, <2>1
    <3> QED
      BY <1>2, <1>5, <2>1, <3>1 DEF Comparator
  <2> QED
    BY <2>1, <2>4, <2>5
<1>6. CASE /\ head # NULL
           /\ \A i \in 1..Length : ~Comparator(o, Walk[i - 1])
           /\ LinkBefore(n, head)
           /\ UNCHANGED head
  <2>1. L # 0 /\ L + 1 \in 1..(L + 1) /\ L + 1 # 1 /\ (L + 1) - 1 = L
    BY <1>1, <1>6
  <2>2. LinkBefore(n, s[1])
    BY <1>1, <1>6
  <2>3. s[IF L + 1 = L + 1 THEN 1 ELSE L + 1] = s[1]
    OBVIOUS
  <2>4. Added(L, s, L + 1, n, o)
    BY <1>3, <1>6, <2>1, <2>2, <2>3, LinkBeforeAdds
  <2>5. \A j \in 1..L : ~(o <= obj[s[j]])
    BY <1>2, <1>6 DEF Comparator
  <2> QED
    BY <2>1, <2>4, <2>5
<1> QED
  BY <1>4, <1>5, <1>6 DEF InsertWithCompare

\* pop_front takes the first node, if there is one.
LEMMA PopFrontTakes ==
    ASSUME TypeOK, NEW L, NEW s, Ring(L, s, head, prev, next, used), PopFront
    PROVE  \/ L = 0 /\ result' = NULL /\ UNCHANGED <<head, prev, next, obj, used>>
           \/ L # 0 /\ Taken(L, s, 1) /\ result' = obj[s[1]]
<1>1. L \in Nat /\ (head = NULL <=> L = 0) /\ (L # 0 => head = s[1])
  BY RingFacts
<1>2. CASE L = 0
  BY <1>1, <1>2 DEF PopFront
<1>3. CASE L # 0
  <2>1. /\ result' = obj[s[1]] /\ Unlink(s[1])
        /\ head' = IF next[head] = head THEN NULL ELSE next[head]
    BY <1>1, <1>3 DEF PopFront
  <2>2. 1 \in 1..L /\ ~(1 > 1)
    BY <1>1, <1>3
  <2> QED
    BY <1>3, <2>1, <2>2, UnlinkTakes
<1> QED
  BY <1>2, <1>3

\* pop_back takes the last node.
LEMMA PopBackTakes ==
    ASSUME TypeOK, NEW L, NEW s, Ring(L, s, head, prev, next, used), PopBack
    PROVE  L # 0 /\ Taken(L, s, L) /\ result' = obj[s[L]]
<1>1. /\ L \in Nat \ {0} /\ head = s[1] /\ prev[head] = s[L]
      /\ next[head] = s[After(L, 1)]
  BY RingFacts DEF PopBack
<1>2. /\ result' = obj[s[L]] /\ Unlink(s[L])
      /\ head' = IF next[head] = head THEN NULL ELSE head
  BY <1>1 DEF PopBack
<1>3. L > 1 => next[head] # head
  <2>1. SUFFICES ASSUME L > 1 PROVE s[2] # s[1]
    BY <1>1 DEF After
  <2> QED
    BY <1>1, <2>1 DEF Ring
<1>4. head' = IF L > 1 THEN head
              ELSE IF next[head] = head THEN NULL ELSE next[head]
  BY <1>1, <1>2, <1>3 DEF After
<1>5. L \in 1..L
  BY <1>1
<1> QED
  BY <1>1, <1>2, <1>4, <1>5, UnlinkTakes

\* remove takes the first node with the object, or nothing.
LEMMA RemoveTakes ==
    ASSUME TypeOK, NEW L, NEW s, Ring(L, s, head, prev, next, used),
           NEW o \in Objects, Remove(o)
    PROVE  /\ L # 0 /\ result' = result
           /\ \/ \E k \in 1..L : /\ Taken(L, s, k)
                                 /\ obj[s[k]] = o
                                 /\ \A j \in 1..(k - 1) : obj[s[j]] # o
              \/ /\ \A j \in 1..L : obj[s[j]] # o
                 /\ UNCHANGED <<head, prev, next, obj, used>>
<1>1. /\ L \in Nat /\ Length = L /\ (head = NULL <=> L = 0)
      /\ \A i \in 1..L : Walk[i - 1] = s[i] /\ Contents[i] = obj[s[i]]
  BY RingFacts
<1>2. L # 0 /\ result' = result
  BY <1>1 DEF Remove
<1>3. ASSUME NEW k \in 1..Length, Contents[k] = o,
             \A j \in 1..(k - 1) : Contents[j] # o, Unlink(Walk[k - 1]),
             head' = IF k > 1 THEN head
                     ELSE IF next[head] = head THEN NULL ELSE next[head]
      PROVE  /\ k \in 1..L /\ Taken(L, s, k) /\ obj[s[k]] = o
             /\ \A j \in 1..(k - 1) : obj[s[j]] # o
  <2>1. k \in 1..L /\ Unlink(s[k]) /\ obj[s[k]] = o
    BY <1>1, <1>3
  <2>2. \A j \in 1..(k - 1) : obj[s[j]] # o
    BY <1>1, <1>3, <2>1
  <2> QED
    BY <1>3, <2>1, <2>2, UnlinkTakes
<1>4. CASE \A i \in 1..Length : Contents[i] # o
  BY <1>1, <1>2, <1>3, <1>4 DEF Remove
<1>5. CASE \E i \in 1..Length : Contents[i] = o
  BY <1>2, <1>3, <1>5 DEF Remove
<1> QED
  BY <1>4, <1>5

-----------------------------------------------------------------------------
(* The invariant *)

\* The nodes in use are linked in a circle; it is the order of them that the
\* invariant says to exist.
CircleInv == TypeOK /\ \E L, s : Ring(L, s, head, prev, next, used)

\* The handle of a circle is a node or NULL.
LEMMA RingHead ==
    ASSUME NEW L, NEW s, NEW h, NEW p, NEW x, NEW u, Ring(L, s, h, p, x, u)
    PROVE  h \in Pointer
<1>1. L \in Nat /\ s \in [1..L -> Nodes] /\ h = IF L = 0 THEN NULL ELSE s[1]
  BY DEF Ring
<1>2. L # 0 => 1 \in 1..L
  BY <1>1
<1> QED
  BY <1>1, <1>2 DEF Pointer

\* Added and Taken say enough of the next state.
LEMMA AddedKeepsInv ==
    ASSUME TypeOK, NEW L, NEW s, NEW k, NEW n, NEW o \in Objects,
           Added(L, s, k, n, o)
    PROVE  CircleInv'
<1>1. /\ Ring(L + 1, Inserted(L, s, k, n), head', prev', next', used')
      /\ prev' \in [Nodes -> Pointer] /\ next' \in [Nodes -> Pointer]
      /\ obj' \in [Nodes -> Objects \cup {NULL}]
      /\ result' \in Objects \cup {NULL}
  BY DEF Added, TypeOK
<1>2. used' \subseteq Nodes
  BY <1>1, RingFits
<1>3. head' \in Pointer
  BY <1>1, RingHead
<1>4. \E M, t : Ring(M, t, head', prev', next', used')
  BY <1>1
<1> QED
  BY <1>1, <1>2, <1>3, <1>4 DEF CircleInv, TypeOK, Pointer

\* Likewise when a node is gone.
LEMMA TakenKeepsInv ==
    ASSUME TypeOK, NEW L, NEW s, NEW k, Taken(L, s, k),
           result' \in Objects \cup {NULL}
    PROVE  CircleInv'
<1>1. /\ Ring(L - 1, Removed(L, s, k), head', prev', next', used')
      /\ prev' \in [Nodes -> Pointer] /\ next' \in [Nodes -> Pointer]
      /\ obj' \in [Nodes -> Objects \cup {NULL}]
  BY DEF Taken, TypeOK
<1>2. used' \subseteq Nodes
  BY <1>1, RingFits
<1>3. head' \in Pointer
  BY <1>1, RingHead
<1>4. \E M, t : Ring(M, t, head', prev', next', used')
  BY <1>1
<1> QED
  BY <1>1, <1>2, <1>3, <1>4 DEF CircleInv, TypeOK, Pointer

\* The invariant holds.
LEMMA CircleAlways == Spec => []CircleInv
<1>1. Init => CircleInv
  <2> SUFFICES ASSUME Init PROVE CircleInv
    OBVIOUS
  <2>1. TypeOK
    BY DEF Init, TypeOK, Pointer
  <2>2. Ring(0, <<>>, head, prev, next, used)
    BY DEF Init, Ring
  <2> QED
    BY <2>1, <2>2 DEF CircleInv
<1>2. CircleInv /\ [Next]_vars => CircleInv'
  <2> SUFFICES ASSUME CircleInv, [Next]_vars PROVE CircleInv'
    OBVIOUS
  <2> USE DEF CircleInv
  <2>1. PICK L, s : Ring(L, s, head, prev, next, used)
    OBVIOUS
  <2>2. \A i \in 1..L : obj[s[i]] \in Objects \cup {NULL}
    BY <2>1, RingFacts DEF TypeOK
  <2>3. ASSUME UNCHANGED <<head, prev, next, obj, used>>,
               result' \in Objects \cup {NULL}
        PROVE  CircleInv'
    BY <2>3 DEF TypeOK, Pointer
  <2> HIDE DEF CircleInv
  <2>t. TypeOK
    BY DEF CircleInv
  <2>4. ASSUME NEW n \in Nodes, NEW o \in Objects, PushBack(n, o)
        PROVE  CircleInv'
    BY <2>t, <2>1, <2>4, PushBackAdds, AddedKeepsInv
  <2>5. ASSUME NEW n \in Nodes, NEW o \in Objects, PushFront(n, o)
        PROVE  CircleInv'
    BY <2>t, <2>1, <2>5, PushFrontAdds, AddedKeepsInv
  <2>6. ASSUME NEW n \in Nodes, NEW o \in Objects, InsertWithCompare(n, o)
        PROVE  CircleInv'
    BY <2>t, <2>1, <2>6, InsertAdds, AddedKeepsInv
  <2>7. ASSUME NEW o \in Objects, Remove(o)
        PROVE  CircleInv'
    <3>1. result' \in Objects \cup {NULL}
      BY <2>t, <2>7 DEF Remove, TypeOK
    <3> QED
      BY <2>t, <2>1, <2>3, <2>7, <3>1, RemoveTakes, TakenKeepsInv
  <2>8. CASE PopFront
    <3>1. L # 0 => 1 \in 1..L
      BY <2>t, <2>1, RingFacts
    <3>2. \/ result' = NULL /\ UNCHANGED <<head, prev, next, obj, used>>
          \/ Taken(L, s, 1) /\ result' \in Objects \cup {NULL}
      BY <2>t, <2>1, <2>2, <2>8, <3>1, PopFrontTakes
    <3> QED
      BY <2>t, <2>3, <3>2, TakenKeepsInv
  <2>9. CASE PopBack
    <3>1. L # 0 => L \in 1..L
      BY <2>t, <2>1, RingFacts
    <3>2. Taken(L, s, L) /\ result' \in Objects \cup {NULL}
      BY <2>t, <2>1, <2>2, <2>9, <3>1, PopBackTakes
    <3> QED
      BY <2>t, <3>2, TakenKeepsInv
  <2>10. CASE UNCHANGED vars
    BY <2>t, <2>3, <2>10 DEF vars, TypeOK
  <2> QED
    BY <2>4, <2>5, <2>6, <2>7, <2>8, <2>9, <2>10 DEF Next
<1> QED
  BY <1>1, <1>2, PTL DEF Spec

\* Links lead to nodes or are NULL, and pops return objects, whatever the
\* sequence of calls.
THEOREM TypeCorrect == Spec => []TypeOK
<1>1. CircleInv => TypeOK
  BY DEF CircleInv
<1> QED
  BY <1>1, CircleAlways, PTL

\* The nodes from kmalloc are those on the list, in one circle in both
\* directions: linked_list.c leaks no node and keeps no freed one.
THEOREM ListIsOneCircle == Spec => []OneCircle
<1>1. CircleInv => OneCircle
  <2> SUFFICES ASSUME CircleInv PROVE OneCircle
    OBVIOUS
  <2>1. PICK L, s : Ring(L, s, head, prev, next, used)
    BY DEF CircleInv
  <2>2. /\ L \in Nat /\ s \in [1..L -> Nodes]
        /\ used = {s[i] : i \in 1..L}
        /\ \A i \in 1..L : next[s[i]] = s[After(L, i)] /\ prev[s[i]] = s[Before(L, i)]
    BY <2>1 DEF Ring
  <2>3. Length = L /\ \A i \in 1..L : Walk[i - 1] = s[i]
    BY <2>1, RingFacts DEF CircleInv
  <2>4. used = {Walk[i] : i \in 0..(Length - 1)}
    <3>1. ASSUME NEW i \in 1..L PROVE \E j \in 0..(L - 1) : s[i] = Walk[j]
      <4>1. i - 1 \in 0..(L - 1) /\ s[i] = Walk[i - 1]
        BY <2>2, <2>3
      <4> QED
        BY <4>1
    <3>2. ASSUME NEW j \in 0..(L - 1) PROVE \E i \in 1..L : s[i] = Walk[j]
      <4>1. j + 1 \in 1..L /\ (j + 1) - 1 = j
        BY <2>2
      <4> QED
        BY <2>3, <4>1
    <3> QED
      <4>1. {s[i] : i \in 1..L} = {Walk[j] : j \in 0..(L - 1)}
        BY <3>1, <3>2
      <4> QED
        BY <2>2, <2>3, <4>1
  <2>5. ASSUME NEW i \in 1..L
        PROVE  /\ {next[s[i]], prev[s[i]]} \subseteq used
               /\ prev[next[s[i]]] = s[i]
               /\ next[prev[s[i]]] = s[i]
    <3>1. /\ After(L, i) \in 1..L /\ Before(L, After(L, i)) = i
          /\ Before(L, i) \in 1..L /\ After(L, Before(L, i)) = i
      BY <2>2 DEF After, Before
    <3> QED
      BY <2>2, <3>1
  <2>6. ASSUME NEW n \in used
        PROVE  /\ {next[n], prev[n]} \subseteq used
               /\ prev[next[n]] = n
               /\ next[prev[n]] = n
    <3>1. PICK i \in 1..L : n = s[i]
      BY <2>2
    <3> QED
      BY <2>5, <3>1
  <2> QED
    BY <2>4, <2>6 DEF OneCircle
<1> QED
  BY <1>1, CircleAlways, PTL

-----------------------------------------------------------------------------
(* Sequences with an element more or less *)

\* Functions on 1..L are the sequences of length L.
LEMMA IsSequence ==
    ASSUME NEW V, NEW L \in Nat, NEW c \in [1..L -> V]
    PROVE  c \in Seq(V) /\ Len(c) = L
OBVIOUS

\* The part of c before position a,
LEMMA PartBefore ==
    ASSUME NEW V, NEW L \in Nat, NEW c \in [1..L -> V], NEW a \in 1..(L + 1)
    PROVE  /\ SubSeq(c, 1, a - 1) \in Seq(V)
           /\ Len(SubSeq(c, 1, a - 1)) = a - 1
           /\ \A i \in 1..(a - 1) : SubSeq(c, 1, a - 1)[i] = c[i]
<1>1. /\ SubSeq(c, 1, a - 1) \in Seq(V)
      /\ Len(SubSeq(c, 1, a - 1)) = IF 1 <= a - 1 THEN (a - 1) - 1 + 1 ELSE 0
      /\ \A i \in 1..((a - 1) - 1 + 1) : SubSeq(c, 1, a - 1)[i] = c[1 + i - 1]
  <2>1. 1 \in Int /\ a - 1 \in Int /\ \A i \in 1..(a - 1) : c[i] \in V
    OBVIOUS
  <2> QED
    BY <2>1, SubSeqProperties
<1> QED
  BY <1>1

\* and the part after position b.
LEMMA PartAfter ==
    ASSUME NEW V, NEW L \in Nat, NEW c \in [1..L -> V], NEW b \in 0..L
    PROVE  /\ SubSeq(c, b + 1, L) \in Seq(V)
           /\ Len(SubSeq(c, b + 1, L)) = L - b
           /\ \A i \in 1..(L - b) : SubSeq(c, b + 1, L)[i] = c[b + i]
<1>1. /\ SubSeq(c, b + 1, L) \in Seq(V)
      /\ Len(SubSeq(c, b + 1, L)) = IF b + 1 <= L THEN L - (b + 1) + 1 ELSE 0
      /\ \A i \in 1..(L - (b + 1) + 1) :
            SubSeq(c, b + 1, L)[i] = c[(b + 1) + i - 1]
  <2>1. b + 1 \in Int /\ L \in Int /\ \A i \in (b + 1)..L : c[i] \in V
    OBVIOUS
  <2> QED
    BY <2>1, SubSeqProperties
<1> QED
  BY <1>1

\* s with n at position k is a sequence.
LEMMA InsertedItems ==
    ASSUME NEW V, NEW L \in Nat, NEW c \in [1..L -> V],
           NEW m \in 1..(L + 1), NEW o \in V
    PROVE  /\ Inserted(L, c, m, o) \in Seq(V)
           /\ Len(Inserted(L, c, m, o)) = L + 1
<1>1. Inserted(L, c, m, o) \in [1..(L + 1) -> V]
  BY DEF Inserted
<1> QED
  BY <1>1, IsSequence

\* It is what InsertAt builds,
LEMMA InsertedInside ==
    ASSUME NEW V, NEW L \in Nat, NEW c \in [1..L -> V],
           NEW k \in 1..(L + 1), NEW o \in V
    PROVE  Inserted(L, c, k, o) =
              SubSeq(c, 1, k - 1) \o <<o>> \o SubSeq(c, k, Len(c))
<1>1. c \in Seq(V) /\ Len(c) = L
  BY IsSequence
<1>2. ASSUME NEW m \in 1..(L + 1)
      PROVE  /\ Inserted(L, c, m, o) \in Seq(V)
             /\ Len(Inserted(L, c, m, o)) = L + 1
  BY InsertedItems
<1>3. \A m, i \in 1..(L + 1) :
         Inserted(L, c, m, o)[i] =
            IF i < m THEN c[i] ELSE IF i = m THEN o ELSE c[i - 1]
  BY DEF Inserted
<1>4. Inserted(L, c, k, o) = SubSeq(c, 1, k - 1) \o <<o>> \o SubSeq(c, k, L)
  <2> DEFINE p == SubSeq(c, 1, k - 1)
             q == SubSeq(c, k, L)
  <2>1. /\ p \in Seq(V) /\ Len(p) = k - 1
        /\ \A i \in 1..(k - 1) : p[i] = c[i]
        /\ q \in Seq(V) /\ Len(q) = L - (k - 1)
        /\ \A i \in 1..(L - (k - 1)) : q[i] = c[(k - 1) + i]
    <3>1. k - 1 \in 0..L /\ (k - 1) + 1 = k
      OBVIOUS
    <3>2. /\ SubSeq(c, (k - 1) + 1, L) \in Seq(V)
          /\ Len(SubSeq(c, (k - 1) + 1, L)) = L - (k - 1)
          /\ \A i \in 1..(L - (k - 1)) :
                SubSeq(c, (k - 1) + 1, L)[i] = c[(k - 1) + i]
      BY <3>1, PartAfter
    <3>3. /\ SubSeq(c, 1, k - 1) \in Seq(V)
          /\ Len(SubSeq(c, 1, k - 1)) = k - 1
          /\ \A i \in 1..(k - 1) : SubSeq(c, 1, k - 1)[i] = c[i]
      BY PartBefore
    <3> QED
      BY <3>1, <3>2, <3>3, Zenon
  <2> HIDE DEF p, q
  <2>2. /\ p \o <<o>> \in Seq(V) /\ Len(p \o <<o>>) = k
        /\ \A i \in 1..k : (p \o <<o>>)[i] = IF i < k THEN c[i] ELSE o
    <3>1. <<o>> \in Seq(V) /\ Len(<<o>>) = 1 /\ <<o>>[1] = o
      OBVIOUS
    <3>2. /\ p \o <<o>> \in Seq(V)
          /\ Len(p \o <<o>>) = Len(p) + Len(<<o>>)
          /\ \A i \in 1..(Len(p) + Len(<<o>>)) :
                (p \o <<o>>)[i] = IF i <= Len(p) THEN p[i] ELSE <<o>>[i - Len(p)]
      BY <2>1, <3>1, ConcatProperties
    <3>3. Len(p) + Len(<<o>>) = k
      BY <2>1, <3>1
    <3>4. ASSUME NEW i \in 1..k
          PROVE  (p \o <<o>>)[i] = IF i < k THEN c[i] ELSE o
      <4>1. CASE i < k
        BY <2>1, <3>2, <3>3, <4>1
      <4>2. CASE ~(i < k)
        <5>1. i = k /\ ~(i <= Len(p)) /\ i - Len(p) = 1
          BY <2>1, <4>2
        <5> QED
          BY <3>1, <3>2, <3>3, <4>2, <5>1
      <4> QED
        BY <4>1, <4>2
    <3> QED
      BY <3>2, <3>3, <3>4
  <2>3. /\ (p \o <<o>>) \o q \in Seq(V)
        /\ Len((p \o <<o>>) \o q) = k + (L - (k - 1))
        /\ \A i \in 1..(k + (L - (k - 1))) :
              ((p \o <<o>>) \o q)[i] =
                 IF i <= k THEN (p \o <<o>>)[i] ELSE q[i - k]
    <3> DEFINE r == p \o <<o>>
    <3>1. r \in Seq(V) /\ Len(r) = k
      BY <2>2
    <3> HIDE DEF r
    <3>2. /\ r \o q \in Seq(V)
          /\ Len(r \o q) = Len(r) + Len(q)
          /\ \A i \in 1..(Len(r) + Len(q)) :
                (r \o q)[i] = IF i <= Len(r) THEN r[i] ELSE q[i - Len(r)]
      BY <2>1, <3>1, ConcatProperties
    <3>3. /\ r \o q \in Seq(V)
          /\ Len(r \o q) = k + (L - (k - 1))
          /\ \A i \in 1..(k + (L - (k - 1))) :
                (r \o q)[i] = IF i <= k THEN r[i] ELSE q[i - k]
      BY <2>1, <3>1, <3>2
    <3> QED
      BY <3>3 DEF r
  <2>4. k + (L - (k - 1)) = L + 1
    OBVIOUS
  <2>5. ASSUME NEW i \in 1..(L + 1)
        PROVE  Inserted(L, c, k, o)[i] = ((p \o <<o>>) \o q)[i]
    <3>1. CASE i <= k
      <4>1. i \in 1..k
        BY <3>1
      <4> QED
        BY <1>3, <2>2, <2>3, <2>4, <3>1, <4>1
    <3>2. CASE ~(i <= k)
      <4>1. i - k \in 1..(L - (k - 1)) /\ (k - 1) + (i - k) = i - 1
        BY <3>2
      <4> QED
        BY <1>3, <2>1, <2>3, <2>4, <3>2, <4>1
    <3> QED
      BY <3>1, <3>2
  <2> QED
    BY <1>2, <2>3, <2>4, <2>5, SeqEqual DEF p, q
<1> QED
  BY <1>1, <1>4

\* Append at the end,
LEMMA InsertedLast ==
    ASSUME NEW V, NEW L \in Nat, NEW c \in [1..L -> V], NEW o \in V
    PROVE  Inserted(L, c, L + 1, o) = Append(c, o)
<1>1. c \in Seq(V) /\ Len(c) = L
  BY IsSequence
<1>2. ASSUME NEW m \in 1..(L + 1)
      PROVE  /\ Inserted(L, c, m, o) \in Seq(V)
             /\ Len(Inserted(L, c, m, o)) = L + 1
  BY InsertedItems
<1>3. \A m, i \in 1..(L + 1) :
         Inserted(L, c, m, o)[i] =
            IF i < m THEN c[i] ELSE IF i = m THEN o ELSE c[i - 1]
  BY DEF Inserted
<1>5. Inserted(L, c, L + 1, o) = Append(c, o)
  <2>1. L + 1 \in 1..(L + 1)
    OBVIOUS
  <2>2. /\ Append(c, o) \in Seq(V) /\ Len(Append(c, o)) = L + 1
        /\ \A i \in 1..L : Append(c, o)[i] = c[i]
        /\ Append(c, o)[L + 1] = o
    BY <1>1, AppendProperties
  <2>3. \A i \in 1..(L + 1) : Inserted(L, c, L + 1, o)[i] = Append(c, o)[i]
    BY <1>3, <2>1, <2>2
  <2> QED
    BY <1>2, <2>1, <2>2, <2>3, SeqEqual
<1> QED
  BY <1>5

\* and concatenation at the front.
LEMMA InsertedFirst ==
    ASSUME NEW V, NEW L \in Nat, NEW c \in [1..L -> V], NEW o \in V
    PROVE  Inserted(L, c, 1, o) = <<o>> \o c
<1>1. c \in Seq(V) /\ Len(c) = L
  BY IsSequence
<1>2. ASSUME NEW m \in 1..(L + 1)
      PROVE  /\ Inserted(L, c, m, o) \in Seq(V)
             /\ Len(Inserted(L, c, m, o)) = L + 1
  BY InsertedItems
<1>3. \A m, i \in 1..(L + 1) :
         Inserted(L, c, m, o)[i] =
            IF i < m THEN c[i] ELSE IF i = m THEN o ELSE c[i - 1]
  BY DEF Inserted
<1>6. Inserted(L, c, 1, o) = <<o>> \o c
  <2>1. 1 \in 1..(L + 1)
    OBVIOUS
  <2>2. <<o>> \in Seq(V) /\ Len(<<o>>) = 1 /\ <<o>>[1] = o
    OBVIOUS
  <2>3. /\ <<o>> \o c \in Seq(V) /\ Len(<<o>> \o c) = Len(<<o>>) + Len(c)
        /\ \A i \in 1..(Len(<<o>>) + Len(c)) :
              (<<o>> \o c)[i] = IF i <= Len(<<o>>) THEN <<o>>[i] ELSE c[i - Len(<<o>>)]
    BY <1>1, <2>2, ConcatProperties
  <2>4. \A i \in 1..(L + 1) : Inserted(L, c, 1, o)[i] = (<<o>> \o c)[i]
    BY <1>1, <1>3, <2>1, <2>2, <2>3
  <2>5. Len(<<o>> \o c) = L + 1
    BY <1>1, <2>2, <2>3
  <2> QED
    BY <1>2, <2>1, <2>3, <2>4, <2>5, SeqEqual
<1> QED
  BY <1>6

\* s without position k is what RemoveAt builds, Tail and Front.
LEMMA RemovedSequence ==
    ASSUME NEW V, NEW L \in Nat, NEW c \in [1..L -> V], NEW k \in 1..L
    PROVE  /\ Removed(L, c, k) =
                 SubSeq(c, 1, k - 1) \o SubSeq(c, k + 1, Len(c))
           /\ Removed(L, c, 1) = Tail(c)
           /\ Removed(L, c, L) = SubSeq(c, 1, Len(c) - 1)
<1>1. c \in Seq(V) /\ Len(c) = L /\ L - 1 \in Nat
  BY IsSequence
<1>2. ASSUME NEW m \in 1..L
      PROVE  /\ Removed(L, c, m) \in Seq(V)
             /\ Len(Removed(L, c, m)) = L - 1
  <2>1. Removed(L, c, m) \in [1..(L - 1) -> V]
    BY DEF Removed
  <2> QED
    BY <1>1, <2>1, IsSequence
<1>3. \A m \in 1..L, i \in 1..(L - 1) :
         Removed(L, c, m)[i] = IF i < m THEN c[i] ELSE c[i + 1]
  BY DEF Removed
<1>4. Removed(L, c, k) = SubSeq(c, 1, k - 1) \o SubSeq(c, k + 1, L)
  <2> DEFINE p == SubSeq(c, 1, k - 1)
             q == SubSeq(c, k + 1, L)
  <2>1. /\ p \in Seq(V) /\ Len(p) = k - 1
        /\ \A i \in 1..(k - 1) : p[i] = c[i]
        /\ q \in Seq(V) /\ Len(q) = L - k
        /\ \A i \in 1..(L - k) : q[i] = c[k + i]
    <3>1. k \in 1..(L + 1) /\ k \in 0..L
      OBVIOUS
    <3>2. /\ SubSeq(c, k + 1, L) \in Seq(V)
          /\ Len(SubSeq(c, k + 1, L)) = L - k
          /\ \A i \in 1..(L - k) : SubSeq(c, k + 1, L)[i] = c[k + i]
      BY <3>1, PartAfter
    <3>3. /\ SubSeq(c, 1, k - 1) \in Seq(V)
          /\ Len(SubSeq(c, 1, k - 1)) = k - 1
          /\ \A i \in 1..(k - 1) : SubSeq(c, 1, k - 1)[i] = c[i]
      BY <3>1, PartBefore
    <3> QED
      BY <3>2, <3>3, Zenon
  <2> HIDE DEF p, q
  <2>2. /\ p \o q \in Seq(V)
        /\ Len(p \o q) = Len(p) + Len(q)
        /\ \A i \in 1..(Len(p) + Len(q)) :
              (p \o q)[i] = IF i <= Len(p) THEN p[i] ELSE q[i - Len(p)]
    BY <2>1, ConcatProperties
  <2>3. Len(p) + Len(q) = L - 1
    BY <2>1
  <2>4. ASSUME NEW i \in 1..(L - 1)
        PROVE  Removed(L, c, k)[i] = (p \o q)[i]
    <3>1. CASE i < k
      <4>1. i <= Len(p) /\ i \in 1..(k - 1)
        BY <2>1, <3>1
      <4> QED
        BY <1>3, <2>1, <2>2, <2>3, <3>1, <4>1
    <3>2. CASE ~(i < k)
      <4>1. ~(i <= Len(p)) /\ i - Len(p) \in 1..(L - k) /\ k + (i - Len(p)) = i + 1
        BY <2>1, <3>2
      <4>2. (p \o q)[i] = q[i - Len(p)]
        BY <2>2, <2>3, <4>1
      <4>3. q[i - Len(p)] = c[k + (i - Len(p))]
        BY <2>1, <4>1
      <4> QED
        BY <1>3, <3>2, <4>1, <4>2, <4>3
    <3> QED
      BY <3>1, <3>2
  <2> QED
    BY <1>2, <2>2, <2>3, <2>4, SeqEqual DEF p, q
<1>5. Removed(L, c, 1) = Tail(c)
  <2>1. 1 \in 1..L /\ c # <<>>
    BY <1>1
  <2>2. /\ Tail(c) \in Seq(V) /\ Len(Tail(c)) = L - 1
        /\ \A i \in 1..(L - 1) : Tail(c)[i] = c[i + 1]
    BY <1>1, <2>1, HeadTailProperties
  <2>3. \A i \in 1..(L - 1) : Removed(L, c, 1)[i] = Tail(c)[i]
    BY <1>3, <2>1, <2>2
  <2> QED
    BY <1>2, <2>1, <2>2, <2>3, SeqEqual
<1>6. Removed(L, c, L) = SubSeq(c, 1, L - 1)
  <2>1. L \in 1..(L + 1) /\ L \in 1..L /\ 0 \in 0..L
    OBVIOUS
  <2>2. /\ SubSeq(c, 1, L - 1) \in Seq(V)
        /\ Len(SubSeq(c, 1, L - 1)) = L - 1
        /\ \A i \in 1..(L - 1) : SubSeq(c, 1, L - 1)[i] = c[i]
    BY <2>1, PartBefore
  <2>3. \A i \in 1..(L - 1) : Removed(L, c, L)[i] = SubSeq(c, 1, L - 1)[i]
    BY <1>3, <2>1, <2>2
  <2> QED
    BY <1>2, <2>1, <2>2, <2>3, SeqEqual
<1> QED
  BY <1>1, <1>4, <1>5, <1>6

-----------------------------------------------------------------------------
(* The circle implements the sequence *)

\* What is in the list, by its circle, in this state and in the next.
LEMMA ContentsOfRing ==
    \A L, s : Ring(L, s, head, prev, next, used) =>
                 Contents = [i \in 1..L |-> obj[s[i]]]
  BY LengthRing

\* The same, one state later.
LEMMA ContentsOfNextRing ==
    (\A L, s : Ring(L, s, head, prev, next, used) =>
                  Contents = [i \in 1..L |-> obj[s[i]]])'
  BY ContentsOfRing, PTL

\* Nodes that come and go take their objects with them, and no others.
LEMMA AddedContents ==
    ASSUME TypeOK, NEW L, NEW s, Ring(L, s, head, prev, next, used),
           NEW k, NEW n, NEW o \in Objects, Added(L, s, k, n, o)
    PROVE  Contents' = Inserted(L, Contents, k, o)
<1> DEFINE t == Inserted(L, s, k, n)
<1>1. Contents = [i \in 1..L |-> obj[s[i]]]
  BY ContentsOfRing
<1>2. Ring(L + 1, t, head', prev', next', used')
  BY DEF Added
<1>3. Contents' = [i \in 1..(L + 1) |-> obj'[t[i]]]
  <2> HIDE DEF t
  <2> QED
    BY <1>2, ContentsOfNextRing
<1>4. /\ L \in Nat /\ s \in [1..L -> Nodes] /\ k \in 1..(L + 1) /\ n \in Nodes
      /\ obj \in [Nodes -> Objects \cup {NULL}]
      /\ obj' = [obj EXCEPT ![n] = o]
  BY DEF Ring, Added, TypeOK
<1>5. \A i \in 1..L : s[i] # n
  BY DEF Ring, Added
<1>6. ASSUME NEW i \in 1..(L + 1)
      PROVE  obj'[t[i]] = IF i < k THEN Contents[i]
                          ELSE IF i = k THEN o ELSE Contents[i - 1]
  <2>1. CASE i < k
    <3>1. i \in 1..L /\ t[i] = s[i]
      BY <1>4, <2>1 DEF Inserted
    <3> QED
      BY <1>1, <1>4, <1>5, <2>1, <3>1
  <2>2. CASE i = k
    <3>1. t[i] = n
      BY <1>4, <2>2 DEF Inserted
    <3> QED
      BY <1>4, <2>2, <3>1
  <2>3. CASE ~(i < k) /\ i # k
    <3>1. i - 1 \in 1..L /\ t[i] = s[i - 1]
      BY <1>4, <2>3 DEF Inserted
    <3> QED
      BY <1>1, <1>4, <1>5, <2>3, <3>1
  <2> QED
    BY <2>1, <2>2, <2>3
<1> QED
  BY <1>3, <1>6 DEF Inserted

\* The same when a node is gone.
LEMMA TakenContents ==
    ASSUME TypeOK, NEW L, NEW s, Ring(L, s, head, prev, next, used),
           NEW k, Taken(L, s, k)
    PROVE  Contents' = Removed(L, Contents, k)
<1> DEFINE t == Removed(L, s, k)
<1>1. Contents = [i \in 1..L |-> obj[s[i]]]
  BY ContentsOfRing
<1>2. Ring(L - 1, t, head', prev', next', used')
  BY DEF Taken
<1>3. Contents' = [i \in 1..(L - 1) |-> obj'[t[i]]]
  <2> HIDE DEF t
  <2> QED
    BY <1>2, ContentsOfNextRing
<1>4. /\ L \in Nat /\ s \in [1..L -> Nodes] /\ k \in 1..L
      /\ obj \in [Nodes -> Objects \cup {NULL}]
      /\ obj' = [obj EXCEPT ![s[k]] = NULL]
  BY DEF Ring, Taken, TypeOK
<1>5. \A i \in 1..L : i # k => s[i] # s[k]
  BY <1>4 DEF Ring
<1>6. ASSUME NEW i \in 1..(L - 1)
      PROVE  obj'[t[i]] = IF i < k THEN Contents[i] ELSE Contents[i + 1]
  <2> DEFINE j == IF i < k THEN i ELSE i + 1
  <2>1. j \in 1..L /\ j # k /\ t[i] = s[j]
    BY <1>4 DEF Removed
  <2>2. obj'[s[j]] = obj[s[j]]
    BY <1>4, <1>5, <2>1
  <2> QED
    BY <1>1, <1>4, <2>1, <2>2
<1> QED
  BY <1>3, <1>6 DEF Removed

\* What is known of the contents.
LEMMA ContentsFacts ==
    ASSUME TypeOK, NEW L, NEW s, Ring(L, s, head, prev, next, used)
    PROVE  /\ L \in Nat
           /\ Contents \in [1..L -> Objects \cup {NULL}]
           /\ Contents \in Seq(Objects \cup {NULL}) /\ Len(Contents) = L
           /\ Contents = <<>> <=> L = 0
           /\ \A i \in 1..L : Contents[i] = obj[s[i]]
<1>1. /\ L \in Nat /\ s \in [1..L -> Nodes]
      /\ obj \in [Nodes -> Objects \cup {NULL}]
  BY DEF Ring, TypeOK
<1>2. Contents = [i \in 1..L |-> obj[s[i]]]
  BY ContentsOfRing
<1>3. Contents \in [1..L -> Objects \cup {NULL}]
  BY <1>1, <1>2
<1>4. Contents \in Seq(Objects \cup {NULL}) /\ Len(Contents) = L
  BY <1>1, <1>3, IsSequence
<1>5. Contents = <<>> <=> L = 0
  BY <1>4
<1> QED
  BY <1>1, <1>2, <1>3, <1>4, <1>5

\* Contents with an object more, in the terms of ObjectList.
LEMMA ContentsWith ==
    ASSUME TypeOK, NEW L, NEW s, Ring(L, s, head, prev, next, used),
           NEW o \in Objects
    PROVE  /\ \A k \in 1..(L + 1) :
                 Inserted(L, Contents, k, o) =
                    SubSeq(Contents, 1, k - 1) \o <<o>>
                       \o SubSeq(Contents, k, Len(Contents))
           /\ Inserted(L, Contents, L + 1, o) = Append(Contents, o)
           /\ Inserted(L, Contents, 1, o) = <<o>> \o Contents
<1> DEFINE V == Objects \cup {NULL}
<1>1. o \in V /\ L \in Nat /\ Contents \in [1..L -> V] /\ 1 \in 1..(L + 1)
  BY ContentsFacts
<1> HIDE DEF V
<1>2. ASSUME NEW k \in 1..(L + 1)
      PROVE  Inserted(L, Contents, k, o) =
                SubSeq(Contents, 1, k - 1) \o <<o>>
                   \o SubSeq(Contents, k, Len(Contents))
  BY <1>1, InsertedInside
<1>3. Inserted(L, Contents, L + 1, o) = Append(Contents, o)
  BY <1>1, InsertedLast
<1>4. Inserted(L, Contents, 1, o) = <<o>> \o Contents
  BY <1>1, InsertedFirst
<1> QED
  BY <1>2, <1>3, <1>4

\* Contents with an object less, in the terms of ObjectList.
LEMMA ContentsWithout ==
    ASSUME TypeOK, NEW L, NEW s, Ring(L, s, head, prev, next, used),
           NEW k \in 1..L
    PROVE  /\ Removed(L, Contents, k) =
                 SubSeq(Contents, 1, k - 1)
                    \o SubSeq(Contents, k + 1, Len(Contents))
           /\ Removed(L, Contents, 1) = Tail(Contents)
           /\ Removed(L, Contents, L) = SubSeq(Contents, 1, Len(Contents) - 1)
<1> DEFINE V == Objects \cup {NULL}
<1>1. L \in Nat /\ Contents \in [1..L -> V]
  BY ContentsFacts
<1> HIDE DEF V
<1> QED
  BY <1>1, RemovedSequence

\* Each operation does what ObjectList says: push_back,
LEMMA PushBackRefines ==
    ASSUME TypeOK, NEW L, NEW s, Ring(L, s, head, prev, next, used),
           NEW n \in Nodes, NEW o \in Objects, PushBack(n, o)
    PROVE  Abstract!PushBack(o)
<1>1. Added(L, s, L + 1, n, o)
  BY PushBackAdds
<1>2. Contents' = Append(Contents, o)
  <2>1. Contents' = Inserted(L, Contents, L + 1, o)
    BY <1>1, AddedContents
  <2> QED
    BY <2>1, ContentsWith
<1>3. Len(Contents) < Cardinality(Nodes)
  BY <1>1, ContentsFacts, RingFits DEF Added
<1> QED
  BY <1>1, <1>2, <1>3 DEF Added, Abstract!PushBack, Abstract!Room

\* push_front
LEMMA PushFrontRefines ==
    ASSUME TypeOK, NEW L, NEW s, Ring(L, s, head, prev, next, used),
           NEW n \in Nodes, NEW o \in Objects, PushFront(n, o)
    PROVE  Abstract!PushFront(o)
<1>1. Added(L, s, 1, n, o)
  BY PushFrontAdds
<1>2. Contents' = <<o>> \o Contents
  <2>1. Contents' = Inserted(L, Contents, 1, o)
    BY <1>1, AddedContents
  <2> QED
    BY <2>1, ContentsWith
<1>3. Len(Contents) < Cardinality(Nodes)
  BY <1>1, ContentsFacts, RingFits DEF Added
<1> QED
  BY <1>1, <1>2, <1>3 DEF Added, Abstract!PushFront, Abstract!Room

\* insert_with_compare
LEMMA InsertRefines ==
    ASSUME TypeOK, NEW L, NEW s, Ring(L, s, head, prev, next, used),
           NEW n \in Nodes, NEW o \in Objects, InsertWithCompare(n, o)
    PROVE  Abstract!InsertWithCompare(o)
<1>1. PICK k \in 1..(L + 1) :
         /\ Added(L, s, k, n, o)
         /\ k # L + 1 => o <= obj[s[k]]
         /\ \A j \in 1..(k - 1) : ~(o <= obj[s[j]])
  BY InsertAdds
<1>2. /\ L \in Nat /\ Len(Contents) = L
      /\ Contents \in [1..L -> Objects \cup {NULL}]
      /\ \A i \in 1..L : Contents[i] = obj[s[i]]
  BY ContentsFacts
<1> DEFINE C(i) == /\ i <= Len(Contents) => o <= Contents[i]
                   /\ \A j \in 1..(i - 1) : ~(o <= Contents[j])
           first == CHOOSE i \in 1..(Len(Contents) + 1) : C(i)
<1>3. first = k
  <2>1. k \in 1..(Len(Contents) + 1)
    BY <1>2
  <2>2. C(k)
    <3>1. k <= Len(Contents) => o <= Contents[k]
      BY <1>1, <1>2
    <3>2. ASSUME NEW j \in 1..(k - 1) PROVE ~(o <= Contents[j])
      <4>1. j \in 1..L
        BY <1>2
      <4> QED
        BY <1>1, <1>2, <4>1
    <3> QED
      BY <3>1, <3>2
  <2>3. first \in 1..(Len(Contents) + 1) /\ C(first)
    <3> HIDE DEF C
    <3> QED
      BY <2>1, <2>2
  <2> HIDE DEF first
  <2>4. ~(first < k)
    <3>1. SUFFICES ASSUME first < k PROVE FALSE
      OBVIOUS
    <3>2. first \in 1..(k - 1) /\ first <= Len(Contents)
      BY <1>2, <2>1, <2>3, <3>1
    <3> QED
      BY <2>2, <2>3, <3>2
  <2>5. ~(k < first)
    <3>1. SUFFICES ASSUME k < first PROVE FALSE
      OBVIOUS
    <3>2. k \in 1..(first - 1) /\ k <= Len(Contents)
      BY <1>2, <2>1, <2>3, <3>1
    <3> QED
      BY <2>2, <2>3, <3>2
  <2> QED
    BY <1>2, <2>1, <2>3, <2>4, <2>5
<1>4. Contents' = SubSeq(Contents, 1, k - 1) \o <<o>>
                     \o SubSeq(Contents, k, Len(Contents))
  <2>1. Contents' = Inserted(L, Contents, k, o)
    BY <1>1, AddedContents
  <2> QED
    BY <1>1, <2>1, ContentsWith
<1>5. Len(Contents) < Cardinality(Nodes) /\ result' = result
  BY <1>1, <1>2, RingFits DEF Added
<1>6. Contents' = Abstract!InsertAt(Contents, first, o)
  BY <1>3, <1>4, Zenon DEF Abstract!InsertAt
<1> QED
  BY <1>5, <1>6, Zenon DEF Abstract!InsertWithCompare, Abstract!Room, Abstract!First

\* pop_front
LEMMA PopFrontRefines ==
    ASSUME TypeOK, NEW L, NEW s, Ring(L, s, head, prev, next, used), PopFront
    PROVE  Abstract!PopFront
<1>1. /\ L \in Nat /\ (Contents = <<>> <=> L = 0)
      /\ \A i \in 1..L : Contents[i] = obj[s[i]]
  BY ContentsFacts
<1>2. CASE L = 0
  <2>1. result' = NULL /\ UNCHANGED <<head, prev, next, obj, used>>
    BY <1>2, PopFrontTakes
  <2>2. Ring(L, s, head', prev', next', used')
    BY <2>1
  <2>3. Contents' = [i \in 1..L |-> obj'[s[i]]]
    BY <2>2, ContentsOfNextRing
  <2>4. Contents' = Contents
    BY <2>1, <2>3, ContentsOfRing
  <2> QED
    BY <1>1, <1>2, <2>1, <2>4 DEF Abstract!PopFront
<1>3. CASE L # 0
  <2>1. Taken(L, s, 1) /\ result' = obj[s[1]] /\ 1 \in 1..L
    BY <1>1, <1>3, PopFrontTakes
  <2>2. Contents' = Tail(Contents)
    BY <2>1, TakenContents, ContentsWithout
  <2>3. result' = Head(Contents)
    BY <1>1, <2>1, ContentsFacts
  <2> QED
    BY <1>1, <1>3, <2>2, <2>3 DEF Abstract!PopFront
<1> QED
  BY <1>2, <1>3

\* pop_back
LEMMA PopBackRefines ==
    ASSUME TypeOK, NEW L, NEW s, Ring(L, s, head, prev, next, used), PopBack
    PROVE  Abstract!PopBack
<1>1. /\ L \in Nat /\ (Contents = <<>> <=> L = 0) /\ Len(Contents) = L
      /\ \A i \in 1..L : Contents[i] = obj[s[i]]
  BY ContentsFacts
<1>2. L # 0 /\ Taken(L, s, L) /\ result' = obj[s[L]] /\ L \in 1..L
  BY <1>1, PopBackTakes
<1>3. Contents' = SubSeq(Contents, 1, Len(Contents) - 1)
  <2>1. Contents' = Removed(L, Contents, L)
    BY <1>2, TakenContents
  <2> QED
    BY <1>2, <2>1, ContentsWithout
<1>4. result' = Contents[Len(Contents)]
  BY <1>1, <1>2
<1> QED
  BY <1>1, <1>2, <1>3, <1>4 DEF Abstract!PopBack, Abstract!Last, Abstract!Front

\* remove
LEMMA RemoveRefines ==
    ASSUME TypeOK, NEW L, NEW s, Ring(L, s, head, prev, next, used),
           NEW o \in Objects, Remove(o)
    PROVE  Abstract!Remove1(o)
<1>1. /\ L \in Nat /\ (Contents = <<>> <=> L = 0) /\ Len(Contents) = L
      /\ \A i \in 1..L : Contents[i] = obj[s[i]]
  BY ContentsFacts
<1> DEFINE C(i) == /\ i <= Len(Contents) => Contents[i] = o
                   /\ \A j \in 1..(i - 1) : ~(Contents[j] = o)
           first == CHOOSE i \in 1..(Len(Contents) + 1) : C(i)
<1>2. ASSUME NEW k \in 1..(Len(Contents) + 1), C(k)
      PROVE  first = k
  <2>1. first \in 1..(Len(Contents) + 1) /\ C(first)
    <3> HIDE DEF C
    <3> QED
      BY <1>2
  <2> HIDE DEF first
  <2>2. ~(first < k)
    <3>1. SUFFICES ASSUME first < k PROVE FALSE
      OBVIOUS
    <3>2. first \in 1..(k - 1) /\ first <= Len(Contents)
      BY <1>1, <2>1, <3>1
    <3> QED
      BY <1>2, <2>1, <3>2
  <2>3. ~(k < first)
    <3>1. SUFFICES ASSUME k < first PROVE FALSE
      OBVIOUS
    <3>2. k \in 1..(first - 1) /\ k <= Len(Contents)
      BY <1>1, <2>1, <3>1
    <3> QED
      BY <1>2, <2>1, <3>2
  <2> QED
    BY <1>1, <2>1, <2>2, <2>3
<1>3. /\ L # 0 /\ result' = result
      /\ \/ \E k \in 1..L : /\ Taken(L, s, k)
                            /\ obj[s[k]] = o
                            /\ \A j \in 1..(k - 1) : obj[s[j]] # o
         \/ /\ \A j \in 1..L : obj[s[j]] # o
            /\ UNCHANGED <<head, prev, next, obj, used>>
  BY RemoveTakes
<1>4. Contents' = IF first <= Len(Contents)
                  THEN SubSeq(Contents, 1, first - 1)
                         \o SubSeq(Contents, first + 1, Len(Contents))
                  ELSE Contents
  <2>1. ASSUME NEW k \in 1..L, Taken(L, s, k), obj[s[k]] = o,
               \A j \in 1..(k - 1) : obj[s[j]] # o
        PROVE  /\ first = k /\ k <= Len(Contents)
               /\ Contents' = SubSeq(Contents, 1, k - 1)
                                 \o SubSeq(Contents, k + 1, Len(Contents))
    <3>1. k \in 1..(Len(Contents) + 1) /\ k <= Len(Contents)
      BY <1>1
    <3>2. C(k)
      <4>1. ASSUME NEW j \in 1..(k - 1) PROVE ~(Contents[j] = o)
        <5>1. j \in 1..L
          BY <1>1
        <5> QED
          BY <1>1, <2>1, <5>1
      <4> QED
        BY <1>1, <2>1, <4>1
    <3>3. first = k
      <4> HIDE DEF C, first
      <4> QED
        BY <1>2, <3>1, <3>2
    <3>4. Contents' = Removed(L, Contents, k)
      BY <2>1, TakenContents
    <3> HIDE DEF first
    <3> QED
      BY <3>1, <3>3, <3>4, ContentsWithout
  <2>2. ASSUME \A j \in 1..L : obj[s[j]] # o,
               UNCHANGED <<head, prev, next, obj, used>>
        PROVE  /\ first = Len(Contents) + 1
               /\ Contents' = Contents
    <3>1. Len(Contents) + 1 \in 1..(Len(Contents) + 1)
      BY <1>1
    <3>2. C(Len(Contents) + 1)
      <4>1. ~(Len(Contents) + 1 <= Len(Contents)) /\ (Len(Contents) + 1) - 1 = L
        BY <1>1
      <4> QED
        BY <1>1, <2>2, <4>1
    <3>3. first = Len(Contents) + 1
      <4> HIDE DEF C, first
      <4> QED
        BY <1>2, <3>1, <3>2
    <3>4. Ring(L, s, head', prev', next', used')
      BY <2>2
    <3>5. Contents' = [i \in 1..L |-> obj'[s[i]]]
      BY <3>4, ContentsOfNextRing
    <3>6. Contents' = Contents
      BY <2>2, <3>5, ContentsOfRing
    <3> QED
      BY <3>3, <3>6
  <2> HIDE DEF first
  <2>3. ~(Len(Contents) + 1 <= Len(Contents))
    BY <1>1
  <2> QED
    BY <1>3, <2>1, <2>2, <2>3
<1> QED
  BY <1>1, <1>3, <1>4, Zenon DEF Abstract!Remove1, Abstract!First, Abstract!RemoveAt

\* linked_list.c does what linked_list.h promises: through the links, the
\* objects from the head on are the sequence of ObjectList after every call,
\* and pops return the object it says.
THEOREM ListImplementsObjectList == Spec => ImplementsObjectList
<1>1. Init => Abstract!Init
  <2> SUFFICES ASSUME Init PROVE Abstract!Init
    OBVIOUS
  <2>1. Contents = [i \in 1..0 |-> obj[Walk[i - 1]]]
    BY DEF Init, Contents, Length
  <2> QED
    BY <2>1 DEF Init, Abstract!Init
<1>2. CircleInv /\ [Next]_vars => [Abstract!Next]_(Abstract!vars)
  <2> SUFFICES ASSUME CircleInv, [Next]_vars
               PROVE  Abstract!Next \/ UNCHANGED Abstract!vars
    OBVIOUS
  <2>1. TypeOK
    BY DEF CircleInv
  <2>2. PICK L, s : Ring(L, s, head, prev, next, used)
    BY DEF CircleInv
  <2>3. ASSUME NEW n \in Nodes, NEW o \in Objects,
               PushBack(n, o) \/ PushFront(n, o) \/ InsertWithCompare(n, o)
        PROVE  Abstract!Next
    <3>1. Abstract!PushBack(o) \/ Abstract!PushFront(o)
             \/ Abstract!InsertWithCompare(o)
      BY <2>1, <2>2, <2>3, PushBackRefines, PushFrontRefines, InsertRefines
    <3> QED
      BY <3>1 DEF Abstract!Next
  <2>4. ASSUME NEW o \in Objects, Remove(o)
        PROVE  Abstract!Next
    <3>1. Abstract!Remove1(o)
      BY <2>1, <2>2, <2>4, RemoveRefines
    <3> QED
      BY <3>1 DEF Abstract!Next
  <2>5. CASE PopFront
    BY <2>1, <2>2, <2>5, PopFrontRefines DEF Abstract!Next
  <2>6. CASE PopBack
    BY <2>1, <2>2, <2>6, PopBackRefines DEF Abstract!Next
  <2>7. CASE UNCHANGED vars
    <3>1. UNCHANGED <<head, prev, next, obj, used>> /\ result' = result
      BY <2>7 DEF vars
    <3>2. Ring(L, s, head', prev', next', used')
      BY <2>2, <3>1
    <3>3. Contents' = [i \in 1..L |-> obj'[s[i]]]
      BY <3>2, ContentsOfNextRing
    <3>4. Contents' = Contents
      BY <2>2, <3>1, <3>3, ContentsOfRing
    <3> QED
      BY <3>1, <3>4 DEF Abstract!vars
  <2> QED
    BY <2>3, <2>4, <2>5, <2>6, <2>7 DEF Next
<1> QED
  BY <1>1, <1>2, CircleAlways, PTL DEF Spec, ImplementsObjectList, Abstract!Spec
=============================================================================
