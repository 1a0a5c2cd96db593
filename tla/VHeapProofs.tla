----------------------------- MODULE VHeapProofs -----------------------------
(***************************************************************************)
(* Theorems about VHeap, for every size of the address space, every set of *)
(* headers and requests, and every amount of memory.                       *)
(***************************************************************************)
EXTENDS VHeap, FiniteSetTheorems, NatFacts, TLAPS

-----------------------------------------------------------------------------
(* Heaps *)

\* The states of `heap`, with frames as many as a step on the way may have.
HeapState ==
    [headers : Link, header : [Headers -> Header], live : SUBSET Headers,
     heapinfo : [Pages -> Headers \cup (0..Size)], mapped : SUBSET Pages,
     frames : Nat, fault : Faults]

Sz(h, x) == h.header[x].size
At(h, x) == h.header[x].region

\* From h to k the list may have changed in any way, its regions have not.
SameRegions(h, k) ==
    /\ k \in HeapState
    /\ k.live = h.live /\ k.heapinfo = h.heapinfo
    /\ k.mapped = h.mapped /\ k.frames = h.frames
    /\ \A x \in Headers : Sz(k, x) = Sz(h, x) /\ At(k, x) = At(h, x)

\* What the constants and pages are to arithmetic.
LEMMA Numbers ==
    /\ Size \in Nat \ {0}
    /\ Pages \subseteq Nat
    /\ \A p \in Pages : p < Size
    /\ \A p \in Nat : p < Size => p \in Pages
    /\ \A x \in Headers : x \notin 0..Size /\ x # NULL
    /\ Link = Headers \cup {NULL}
  BY VHeapAssumption DEF Pages, Link

\* Changing nothing is a change of the list.
LEMMA SameSelf ==
    ASSUME NEW h \in HeapState
    PROVE  SameRegions(h, h)
  BY DEF SameRegions

\* Changes of the list add up.
LEMMA SameTrans ==
    ASSUME NEW h, NEW k, NEW l, SameRegions(h, k), SameRegions(k, l)
    PROVE  SameRegions(h, l)
  BY DEF SameRegions

\* A fault is recorded and nothing else.
LEMMA FaultSame ==
    ASSUME NEW h \in HeapState, NEW kind \in Faults
    PROVE  SameRegions(h, Fault(h, kind))
<1>1. /\ h.fault \in Faults
      /\ (IF h.fault = "none" THEN kind ELSE h.fault) \in Faults
  BY DEF HeapState
<1>2. Fault(h, kind) = [h EXCEPT !.fault = IF h.fault = "none" THEN kind ELSE h.fault]
  BY DEF Fault
<1> QED
  BY <1>1, <1>2 DEF SameRegions, HeapState, Sz, At

\* The ways in which calls go wrong.
LEMMA FaultKinds == {"none", "stopped", "freed"} = Faults
  BY DEF Faults

\* The head of the list may be replaced.
LEMMA HeadSame ==
    ASSUME NEW h \in HeapState, NEW value \in Link
    PROVE  SameRegions(h, [h EXCEPT !.headers = value])
  BY DEF SameRegions, HeapState, Sz, At

\* So may the links of a header.
LEMMA NextSame ==
    ASSUME NEW h \in HeapState, NEW item \in Headers, NEW value \in Link
    PROVE  SameRegions(h, [h EXCEPT !.header[item].next = value])
<1> DEFINE k == [h EXCEPT !.header[item].next = value]
<1>1. /\ h.header \in [Headers -> Header] /\ h.header[item] \in Header
      /\ [h.header[item] EXCEPT !.next = value] \in Header
  BY DEF HeapState, Header
<1>2. k.header \in [Headers -> Header]
  BY <1>1 DEF HeapState
<1>3. k \in HeapState
  BY <1>2 DEF HeapState
<1>4. \A x \in Headers : Sz(k, x) = Sz(h, x) /\ At(k, x) = At(h, x)
  BY <1>1 DEF Sz, At, HeapState, Header
<1> QED
  BY <1>3, <1>4 DEF SameRegions, HeapState

\* The same for prev.
LEMMA PrevSame ==
    ASSUME NEW h \in HeapState, NEW item \in Headers, NEW value \in Link
    PROVE  SameRegions(h, [h EXCEPT !.header[item].prev = value])
<1> DEFINE k == [h EXCEPT !.header[item].prev = value]
<1>1. /\ h.header \in [Headers -> Header] /\ h.header[item] \in Header
      /\ [h.header[item] EXCEPT !.prev = value] \in Header
  BY DEF HeapState, Header
<1>2. k.header \in [Headers -> Header]
  BY <1>1 DEF HeapState
<1>3. k \in HeapState
  BY <1>2 DEF HeapState
<1>4. \A x \in Headers : Sz(k, x) = Sz(h, x) /\ At(k, x) = At(h, x)
  BY <1>1 DEF Sz, At, HeapState, Header
<1> QED
  BY <1>3, <1>4 DEF SameRegions, HeapState

\* item->next = value.
LEMMA SetNextSame ==
    ASSUME NEW h \in HeapState, NEW item \in Link, NEW value \in Link
    PROVE  SameRegions(h, SetNext(h, item, value))
  BY Numbers, SameSelf, FaultSame, FaultKinds, NextSame DEF SetNext

\* item->prev = value.
LEMMA SetPrevSame ==
    ASSUME NEW h \in HeapState, NEW item \in Link, NEW value \in Link
    PROVE  SameRegions(h, SetPrev(h, item, value))
  BY Numbers, SameSelf, FaultSame, FaultKinds, PrevSame DEF SetPrev

\* The links of a header lead to headers or nowhere.
LEMMA LinksTyped ==
    ASSUME NEW h \in HeapState, NEW item \in Headers
    PROVE  h.header[item].next \in Link /\ h.header[item].prev \in Link
  BY DEF HeapState, Header

\* remove_ordered_list changes the list alone.
LEMMA RemoveSame ==
    ASSUME NEW h \in HeapState, NEW item \in Headers
    PROVE  SameRegions(h, RemoveOrderedList(h, item))
<1> DEFINE next == h.header[item].next
           prev == h.header[item].prev
           h1 == SetNext(h, prev, next)
           h2 == SetPrev(h1, next, h1.header[item].prev)
<1>1. next \in Link /\ prev \in Link
  BY LinksTyped
<1>2. SameRegions(h, h1)
  BY <1>1, SetNextSame
<1>3. h1 \in HeapState
  BY <1>2 DEF SameRegions
<1>4. SameRegions(h1, h2)
  <2> HIDE DEF h1, next, prev
  <2> QED
    BY <1>1, <1>3, LinksTyped, SetPrevSame
<1>5. SameRegions(h, h2)
  BY <1>2, <1>4, SameTrans
<1>6. SameRegions(h, [h EXCEPT !.headers = NULL])
  BY HeadSame, Numbers
<1> QED
  BY <1>5, <1>6 DEF RemoveOrderedList

\* What a walk meets next.
After(h, at) == IF at = NULL THEN NULL ELSE h.header[at].next

\* A walk meets headers or has ended.
LEMMA WalkTyped ==
    ASSUME NEW h \in HeapState, NEW n \in 0..Cardinality(Headers)
    PROVE  Walk(h)[n] \in Link /\ Walk(h)[0] = h.headers
<1> DEFINE N == Cardinality(Headers)
           Rest(W) == [i \in 0..N |-> IF i = 0 THEN h.headers
                                      ELSE IF W[i - 1] = NULL THEN NULL
                                      ELSE h.header[W[i - 1]].next]
           Starts(m, W) == /\ W \in [0..m -> Link]
                           /\ W[0] = h.headers
                           /\ \A i \in 1..m : W[i] = After(h, W[i - 1])
           S == {m \in Nat : \E W : Starts(m, W)}
<1>1. N \in Nat
  BY FS_CardinalityType, VHeapAssumption
<1>2. h.headers \in Link /\ \A at \in Link : After(h, at) \in Link
  BY Numbers, LinksTyped DEF After, HeapState
<1>3. 0 \in S
  <2>1. Starts(0, [i \in 0..0 |-> h.headers])
    BY <1>2
  <2> QED
    BY <2>1
<1>4. ASSUME NEW m \in S
      PROVE  m + 1 \in S
  <2>1. PICK W : Starts(m, W)
    BY <1>4
  <2> DEFINE V == [i \in 0..(m + 1) |-> IF i = m + 1 THEN After(h, W[m]) ELSE W[i]]
  <2>2. m \in Nat /\ W[m] \in Link
    BY <2>1
  <2>3. V \in [0..(m + 1) -> Link] /\ V[0] = h.headers
    BY <1>2, <2>1, <2>2
  <2>4. \A i \in 1..(m + 1) : V[i] = After(h, V[i - 1])
    BY <2>1, <2>2
  <2>5. Starts(m + 1, V)
    BY <2>3, <2>4
  <2> HIDE DEF Starts
  <2> QED
    BY <2>2, <2>5
<1>5. S = Nat
  <2> HIDE DEF Starts
  <2> QED
    BY <1>3, <1>4, Induction
<1> HIDE DEF N
<1>6. PICK W : Starts(N, W)
  <2> HIDE DEF Starts
  <2> QED
    BY <1>1, <1>5
<1>7. W = Rest(W)
  <2>1. \A i \in 0..N : W[i] = Rest(W)[i]
    BY <1>1, <1>6 DEF After
  <2>2. W \in [0..N -> Link]
    BY <1>6
  <2> QED
    BY <2>1, <2>2
<1>8. Walk(h) = CHOOSE V : V = Rest(V)
  BY Zenon DEF Walk, N
<1>9. Walk(h) = Rest(Walk(h))
  <2> HIDE DEF Rest
  <2>1. \E V : V = Rest(V)
    BY <1>7
  <2> QED
    BY <1>8, <2>1, Zenon
<1>10. \A m \in Nat : m <= N => Walk(h)[m] \in Link
  <2> DEFINE T == {m \in Nat : m <= N => Walk(h)[m] \in Link}
  <2>1. 0 \in T
    BY <1>1, <1>2, <1>9
  <2>2. \A m \in T : m + 1 \in T
    <3> SUFFICES ASSUME NEW m \in T, m + 1 <= N
                 PROVE  Walk(h)[m + 1] \in Link
      OBVIOUS
    <3>1. m \in Nat /\ m + 1 \in 0..N /\ (m + 1) - 1 = m /\ Walk(h)[m] \in Link
      BY <1>1
    <3>2. \A W1 : Rest(W1)[m + 1] = After(h, W1[(m + 1) - 1])
      BY <1>1, <3>1 DEF After
    <3>3. Walk(h)[m + 1] = After(h, Walk(h)[m])
      <4> HIDE DEF Rest
      <4> QED
        BY <1>9, <3>1, <3>2, Zenon
    <3> QED
      BY <1>2, <3>1, <3>3
  <2>0. T \in SUBSET Nat
    OBVIOUS
  <2> HIDE DEF T
  <2>3. T = Nat
    BY <2>0, <2>1, <2>2, Induction
  <2> QED
    BY <2>3 DEF T
<1>11. Walk(h)[0] = h.headers
  BY <1>1, <1>9
<1> QED
  BY <1>1, <1>10, <1>11 DEF N

\* The least of the numbers of steps is one of them.
LEMMA LeastSteps ==
    ASSUME NEW h, NEW size, StepsTo(h, size) # {}
    PROVE  /\ Min(StepsTo(h, size)) \in 0..Cardinality(Headers)
           /\ Min(StepsTo(h, size)) \in StepsTo(h, size)
<1>1. StepsTo(h, size) \subseteq 0..Cardinality(Headers)
  BY DEF StepsTo
<1>2. StepsTo(h, size) \in SUBSET Nat
  BY <1>1, FS_CardinalityType, VHeapAssumption
<1>3. \E m \in StepsTo(h, size) : \A k \in StepsTo(h, size) : m <= k
  BY <1>2, LeastElement
<1>4. Min(StepsTo(h, size)) \in StepsTo(h, size)
  <2> DEFINE T == StepsTo(h, size)
  <2> HIDE DEF T
  <2> QED
    BY <1>3 DEF Min, T
<1> QED
  BY <1>1, <1>4

\* insert_ordered_list changes the list alone.
LEMMA InsertSame ==
    ASSUME NEW h \in HeapState, NEW item \in Headers
    PROVE  SameRegions(h, InsertOrderedList(h, item))
<1> DEFINE steps == StepsTo(h, h.header[item].size)
           n == Min(steps)
           at == Walk(h)[n]
           before == IF at = NULL THEN Walk(h)[n - 1] ELSE h.header[at].prev
           linked == [h EXCEPT !.header[item].next = at,
                               !.header[item].prev = before]
           alone == [h EXCEPT !.headers = item, !.header[item].next = NULL,
                              !.header[item].prev = NULL]
           result == SetPrev(SetNext(linked, before, item), at, item)
<1>1. SameRegions(h, alone)
  <2> DEFINE h1 == [h EXCEPT !.headers = item]
             h2 == [h1 EXCEPT !.header[item].next = NULL]
             h3 == [h2 EXCEPT !.header[item].prev = NULL]
  <2>1. SameRegions(h, h1) /\ h1 \in HeapState
    BY HeadSame, Numbers DEF SameRegions
  <2>2. SameRegions(h1, h2) /\ h2 \in HeapState
    <3> HIDE DEF h1
    <3> QED
      BY <2>1, NextSame, Numbers DEF SameRegions
  <2>3. SameRegions(h2, h3)
    <3> HIDE DEF h2
    <3> QED
      BY <2>2, PrevSame, Numbers
  <2>4. SameRegions(h, h3)
    <3> HIDE DEF h1, h2, h3
    <3> QED
      BY <2>1, <2>2, <2>3, SameTrans
  <2>5. alone = h3
    BY DEF HeapState, Header
  <2> QED
    BY <2>4, <2>5
<1>2. CASE h.headers = NULL
  BY <1>1, <1>2 DEF InsertOrderedList
<1>3. CASE steps = {} /\ h.headers # NULL
  <2>1. InsertOrderedList(h, item) = Fault(h, "stopped")
    BY <1>3, Zenon DEF InsertOrderedList
  <2> QED
    BY <2>1, FaultSame, FaultKinds
<1>5. CASE steps # {} /\ h.headers # NULL /\ at \notin h.live \cup {NULL}
  <2>1. InsertOrderedList(h, item) = Fault(h, "freed")
    BY <1>5, Zenon DEF InsertOrderedList
  <2> QED
    BY <2>1, FaultSame, FaultKinds
<1>4. CASE steps # {} /\ h.headers # NULL /\ at \in h.live \cup {NULL}
  <2>1. n \in 0..Cardinality(Headers) /\ Cardinality(Headers) \in Nat
    BY <1>4, LeastSteps, FS_CardinalityType, VHeapAssumption
  <2>2. at \in Link /\ Walk(h)[0] # NULL
    <3> HIDE DEF n
    <3> QED
      BY <1>4, <2>1, WalkTyped
  <2>3. before \in Link
    <3>1. CASE at = NULL
      <4> HIDE DEF n
      <4>1. n - 1 \in 0..Cardinality(Headers)
        BY <2>1, <2>2, <3>1
      <4> QED
        BY <3>1, <4>1, WalkTyped
    <3>2. CASE at # NULL
      <4> HIDE DEF at
      <4> QED
        BY <2>2, <3>2, LinksTyped, Numbers DEF at
    <3> QED
      BY <3>1, <3>2
  <2>4. SameRegions(h, linked) /\ linked \in HeapState
    <3> HIDE DEF at, before
    <3> DEFINE h1 == [h EXCEPT !.header[item].next = at]
               h2 == [h1 EXCEPT !.header[item].prev = before]
    <3>1. SameRegions(h, h1) /\ h1 \in HeapState
      BY <2>2, NextSame DEF SameRegions
    <3>2. SameRegions(h1, h2)
      <4> HIDE DEF h1
      <4> QED
        BY <2>3, <3>1, PrevSame
    <3>3. SameRegions(h, h2)
      <4> HIDE DEF h1, h2
      <4> QED
        BY <3>1, <3>2, SameTrans
    <3>4. linked = h2
      BY DEF HeapState, Header
    <3> QED
      BY <3>3, <3>4 DEF SameRegions
  <2>5. SameRegions(h, result)
    <3> HIDE DEF at, before, linked
    <3> DEFINE h1 == SetNext(linked, before, item)
    <3>1. SameRegions(linked, h1)
      BY <2>3, <2>4, SetNextSame, Numbers
    <3>2. h1 \in HeapState
      BY <3>1 DEF SameRegions
    <3>3. SameRegions(h1, SetPrev(h1, at, item))
      <4> HIDE DEF h1
      <4> QED
        BY <2>2, <3>2, SetPrevSame, Numbers
    <3> QED
      BY <2>4, <3>1, <3>3, SameTrans
  <2> QED
    BY <1>4, <2>5, Zenon DEF InsertOrderedList
<1> QED
  BY <1>2, <1>3, <1>4, <1>5

\* The same for a header that walks may not meet before it is listed.
LEMMA InsertNewSame ==
    ASSUME NEW h \in HeapState, NEW new \in h.live, new \in Headers
    PROVE  SameRegions(h, [InsertOrderedList([h EXCEPT !.live = @ \ {new}], new)
                              EXCEPT !.live = @ \cup {new}])
<1> DEFINE g == [h EXCEPT !.live = @ \ {new}]
           i == InsertOrderedList(g, new)
           k == [i EXCEPT !.live = @ \cup {new}]
<1>1. /\ g \in HeapState /\ g.live = h.live \ {new} /\ g.heapinfo = h.heapinfo
      /\ g.mapped = h.mapped /\ g.frames = h.frames /\ g.header = h.header
      /\ h.live \in SUBSET Headers
  BY DEF HeapState
<1> HIDE DEF g
<1>2. SameRegions(g, i)
  BY <1>1, InsertSame
<1> HIDE DEF i
<1>3. /\ i \in HeapState /\ i.live = h.live \ {new} /\ i.heapinfo = h.heapinfo
      /\ i.mapped = h.mapped /\ i.frames = h.frames
      /\ \A x \in Headers : Sz(i, x) = Sz(h, x) /\ At(i, x) = At(h, x)
  BY <1>1, <1>2 DEF SameRegions, Sz, At
<1>4. /\ k \in HeapState /\ k.live = h.live /\ k.heapinfo = i.heapinfo
      /\ k.mapped = i.mapped /\ k.frames = i.frames /\ k.header = i.header
  BY <1>1, <1>3 DEF HeapState
<1> HIDE DEF k
<1>5. SameRegions(h, k)
  BY <1>3, <1>4 DEF SameRegions, Sz, At
<1> QED
  BY <1>5 DEF k, i, g

-----------------------------------------------------------------------------
(* The tags *)

\* A page whose tag cannot be read yet has no header for its tag.
Clean(h) ==
    \A p \in Pages : InfoPage(p) \notin h.mapped => h.heapinfo[p] \notin Headers

\* From h to k nothing but tags may have been written.
Tagged(h, k) ==
    /\ k \in HeapState /\ Clean(k)
    /\ k.headers = h.headers /\ k.header = h.header
    /\ k.live = h.live /\ k.fault = h.fault
    /\ k.frames <= h.frames

\* The tags described by p are among the tags.
LEMMA InfoPageTyped ==
    ASSUME NEW p \in Pages
    PROVE  InfoPage(p) \in Pages
<1>1. p \in Nat /\ InfoSpan \in Nat \ {0}
  BY Numbers, VHeapAssumption
<1> DEFINE q == p \div InfoSpan
<1>2. q \in Nat /\ q * InfoSpan <= p
  <2>1. q \in Nat /\ p % InfoSpan \in 0..(InfoSpan - 1)
    BY <1>1, DivMod
  <2>2. p = q * InfoSpan + (p % InfoSpan)
    BY <1>1, DivMod
  <2>3. q * InfoSpan \in Nat
    BY <1>1, <2>1
  <2> QED
    BY <1>1, <2>1, <2>2, <2>3
<1> HIDE DEF q
<1>3. q <= q * InfoSpan /\ q * InfoSpan \in Nat
  BY <1>1, <1>2
<1>4. q <= p
  BY <1>1, <1>2, <1>3
<1>5. q \in Pages
  BY <1>1, <1>2, <1>4, Numbers
<1> QED
  BY <1>5 DEF q, InfoPage

\* set_heapinfo writes the tag or, when it fails, leaves it: no header then.
LEMMA SetHeapinfoTags ==
    ASSUME NEW h \in HeapState, Clean(h), NEW page \in Pages,
           NEW value \in Headers \cup (0..Size)
    PROVE  LET r == SetHeapinfo(h, page, value)
           IN  /\ Tagged(h, r.heap)
               /\ \A p \in Pages : p # page =>
                     r.heap.heapinfo[p] = h.heapinfo[p]
               /\ r.ok => r.heap.heapinfo[page] = value
               /\ ~r.ok => /\ r.heap.heapinfo[page] = h.heapinfo[page]
                           /\ h.heapinfo[page] \notin Headers
<1> DEFINE mapped == InfoPage(page) \in h.mapped
           h1 == IF mapped THEN h
                 ELSE [h EXCEPT !.mapped = @ \cup {InfoPage(page)},
                                !.frames = IF @ < 2 THEN 0 ELSE @ - 2]
           k == [h1 EXCEPT !.heapinfo[page] = value]
           r == SetHeapinfo(h, page, value)
<1>1. CASE ~mapped /\ h.frames = 0
  <2>1. r = [heap |-> h, ok |-> FALSE]
    BY <1>1 DEF SetHeapinfo
  <2>2. Tagged(h, h)
    BY DEF Tagged, HeapState
  <2> QED
    BY <1>1, <2>1, <2>2 DEF Clean
<1>2. CASE ~(~mapped /\ h.frames = 0)
  <2>1. r = [heap |-> k, ok |-> TRUE]
    BY <1>2, Zenon DEF SetHeapinfo
  <2>2. /\ h1 \in HeapState /\ h1.frames <= h.frames
        /\ h1.mapped = h.mapped \cup {InfoPage(page)}
        /\ h1.headers = h.headers /\ h1.header = h.header
        /\ h1.live = h.live /\ h1.fault = h.fault /\ h1.heapinfo = h.heapinfo
    <3>1. CASE mapped
      BY <3>1 DEF HeapState
    <3>2. CASE ~mapped
      <4> DEFINE i == InfoPage(page)
      <4>1. i \in Pages
        BY InfoPageTyped
      <4> HIDE DEF i
      <4>2. h1 = [h EXCEPT !.mapped = @ \cup {i},
                           !.frames = IF @ < 2 THEN 0 ELSE @ - 2]
        BY <3>2 DEF i
      <4>3. h1.mapped = h.mapped \cup {i} /\ i = InfoPage(page)
        BY <4>2 DEF HeapState, i
      <4>4. h.frames \in Nat /\ h1.frames = (IF h.frames < 2 THEN 0 ELSE h.frames - 2)
        BY <4>2 DEF HeapState
      <4>5. h1.frames \in Nat /\ h1.frames <= h.frames
        BY <4>4
      <4>6. /\ h1.headers = h.headers /\ h1.header = h.header
            /\ h1.live = h.live /\ h1.fault = h.fault /\ h1.heapinfo = h.heapinfo
        BY <4>2 DEF HeapState
      <4>7. h1 \in HeapState
        <5> DEFINE f == IF h.frames < 2 THEN 0 ELSE h.frames - 2
        <5>1. h1 = [h EXCEPT !.mapped = @ \cup {i}, !.frames = f]
          BY <4>2 DEF HeapState
        <5>2. f \in Nat
          BY <4>4
        <5> HIDE DEF f, h1
        <5> QED
          BY <4>1, <5>1, <5>2 DEF HeapState
      <4> QED
        BY <4>3, <4>5, <4>6, <4>7
    <3> QED
      BY <3>1, <3>2
  <2> HIDE DEF h1
  <2>3. k \in HeapState /\ k.heapinfo = [h.heapinfo EXCEPT ![page] = value]
    BY <2>2 DEF HeapState
  <2>4. /\ k.frames = h1.frames /\ k.mapped = h1.mapped /\ k.live = h1.live
        /\ k.headers = h1.headers /\ k.header = h1.header /\ k.fault = h1.fault
    BY <2>2 DEF HeapState
  <2>5. k.heapinfo[page] = value /\ \A p \in Pages : p # page => k.heapinfo[p] = h.heapinfo[p]
    BY <2>3 DEF HeapState
  <2> HIDE DEF k
  <2>6. Clean(k)
    BY <2>2, <2>4, <2>5 DEF Clean
  <2>7. Tagged(h, k)
    BY <2>2, <2>3, <2>4, <2>6 DEF Tagged
  <2> QED
    BY <2>1, <2>5, <2>7
<1> QED
  BY <1>1, <1>2

\* Writing tags twice is writing tags.
LEMMA TaggedTrans ==
    ASSUME NEW h \in HeapState, NEW k, NEW l, Tagged(h, k), Tagged(k, l)
    PROVE  Tagged(h, l)
  BY DEF Tagged, HeapState

\* Two tags written by SetTags.
LEMMA SetTagsTags ==
    ASSUME NEW h \in HeapState, Clean(h), NEW page1 \in Pages, NEW page2 \in Pages,
           NEW value1 \in Headers \cup (0..Size),
           NEW value2 \in Headers \cup (0..Size)
    PROVE  LET r == SetTags(h, page1, value1, page2, value2)
               tag(p) == r.heap.heapinfo[p]
           IN  /\ Tagged(h, r.heap)
               /\ \A p \in Pages : p \notin {page1, page2} =>
                     tag(p) = h.heapinfo[p]
               /\ r.ok => /\ tag(page2) = value2
                          /\ page1 # page2 => tag(page1) = value1
               /\ tag(page1) \in {value1, value2} \/ tag(page1) \notin Headers
               /\ tag(page2) \in {value1, value2, h.heapinfo[page2]}
<1> DEFINE r1 == SetHeapinfo(h, page1, value1)
           r2 == SetHeapinfo(r1.heap, page2, value2)
           r == SetTags(h, page1, value1, page2, value2)
<1>1. /\ Tagged(h, r1.heap)
      /\ \A p \in Pages : p # page1 => r1.heap.heapinfo[p] = h.heapinfo[p]
      /\ r1.ok => r1.heap.heapinfo[page1] = value1
      /\ ~r1.ok => /\ r1.heap.heapinfo[page1] = h.heapinfo[page1]
                   /\ h.heapinfo[page1] \notin Headers
  BY SetHeapinfoTags
<1> HIDE DEF r1
<1>2. r1.heap \in HeapState /\ Clean(r1.heap)
  BY <1>1 DEF Tagged
<1>3. /\ Tagged(r1.heap, r2.heap)
      /\ \A p \in Pages : p # page2 => r2.heap.heapinfo[p] = r1.heap.heapinfo[p]
      /\ r2.ok => r2.heap.heapinfo[page2] = value2
      /\ ~r2.ok => r2.heap.heapinfo[page2] = r1.heap.heapinfo[page2]
  <2> DEFINE g == r1.heap
  <2> HIDE DEF g
  <2>1. g \in HeapState /\ Clean(g)
    BY <1>2 DEF g
  <2>2. LET q == SetHeapinfo(g, page2, value2)
        IN /\ Tagged(g, q.heap)
           /\ \A p \in Pages : p # page2 => q.heap.heapinfo[p] = g.heapinfo[p]
           /\ q.ok => q.heap.heapinfo[page2] = value2
           /\ ~q.ok => q.heap.heapinfo[page2] = g.heapinfo[page2]
    BY <2>1, SetHeapinfoTags
  <2> QED
    BY <2>2 DEF g
<1> HIDE DEF r2
<1>4. r = IF r1.ok THEN r2 ELSE r1
  BY DEF SetTags, r1, r2
<1> HIDE DEF r
<1>5. Tagged(h, r2.heap)
  BY <1>1, <1>3, TaggedTrans
<1>6. CASE r1.ok
  BY <1>1, <1>3, <1>4, <1>5, <1>6 DEF r
<1>7. CASE ~r1.ok
  BY <1>1, <1>4, <1>7 DEF r
<1> QED
  BY <1>6, <1>7

-----------------------------------------------------------------------------
(* The pages *)

\* A stretch of pages that no header describes: a caller's, or one that a
\* failed call has kept.
Extent == [at : Pages, size : 1..Size]

\* m pages from a on and n pages from b on have none in common.
Apart(a, m, b, n) == m = 0 \/ n = 0 \/ a + m <= b \/ b + n <= a

In(p, a, n) == a <= p /\ p < a + n

\* Headers and the extents that are away divide the pages among them.
Extents(h, away) ==
    /\ \A a \in away : a.at + a.size <= Size
    /\ \A x \in Headers : At(h, x) + Sz(h, x) <= Size
    /\ \A x \in Headers : x \notin h.live => Sz(h, x) = 0
    /\ \A a, b \in away : a # b => Apart(a.at, a.size, b.at, b.size)
    /\ \A a \in away, x \in Headers : Apart(a.at, a.size, At(h, x), Sz(h, x))
    /\ \A x, y \in Headers :
          x # y => Apart(At(h, x), Sz(h, x), At(h, y), Sz(h, y))
    /\ \A p \in Pages : \/ \E a \in away : In(p, a.at, a.size)
                        \/ \E x \in Headers : In(p, At(h, x), Sz(h, x))

\* The tags of the extents that are away: the size, and no header at the back.
AwayTags(h, away) ==
    \A a \in away : /\ h.heapinfo[a.at] = a.size
                    /\ a.size > 1 => h.heapinfo[a.at + a.size - 1] = 0

\* A header at an end of the region of a header in X is that header itself.
HeaderTags(h, X) ==
    \A x \in X : Sz(h, x) > 0 =>
        /\ h.heapinfo[At(h, x)] \in Headers => h.heapinfo[At(h, x)] = x
        /\ h.heapinfo[At(h, x) + Sz(h, x) - 1] \in Headers =>
              h.heapinfo[At(h, x) + Sz(h, x) - 1] = x

\* Everything between calls.
Sound(h, away) ==
    /\ h \in HeapState
    /\ Clean(h)
    /\ Extents(h, away)
    /\ AwayTags(h, away)
    /\ HeaderTags(h, Headers)

\* Sizes and places are numbers.
LEMMA FieldsTyped ==
    ASSUME NEW h \in HeapState, NEW x \in Headers
    PROVE  Sz(h, x) \in 0..Size /\ At(h, x) \in 0..Size
  BY DEF HeapState, Header, Sz, At

\* So are those of an extent.
LEMMA ExtentTyped ==
    ASSUME NEW away \in SUBSET Extent, NEW a \in away
    PROVE  /\ a.at \in Pages /\ a.at \in Nat /\ a.at < Size
           /\ a.size \in Nat \ {0} /\ a.size <= Size
<1>1. a \in Extent
  OBVIOUS
<1>2. a.at \in Pages /\ a.size \in 1..Size
  BY <1>1 DEF Extent
<1>3. a.at \in Nat /\ a.at < Size /\ Size \in Nat
  BY <1>2, Numbers
<1> QED
  BY <1>2, <1>3

\* Changes of the list leave the division of the pages as it is.
LEMMA SameSound ==
    ASSUME NEW h, NEW k, SameRegions(h, k), NEW away, NEW X \in SUBSET Headers
    PROVE  /\ Extents(h, away) => Extents(k, away)
           /\ AwayTags(h, away) => AwayTags(k, away)
           /\ HeaderTags(h, X) => HeaderTags(k, X)
           /\ Clean(h) => Clean(k)
<1>1. /\ k.live = h.live /\ k.heapinfo = h.heapinfo /\ k.mapped = h.mapped
      /\ \A x \in Headers : Sz(k, x) = Sz(h, x) /\ At(k, x) = At(h, x)
  BY DEF SameRegions
<1>2. Extents(h, away) => Extents(k, away)
  BY <1>1 DEF Extents
<1>3. AwayTags(h, away) => AwayTags(k, away)
  BY <1>1 DEF AwayTags
<1>4. HeaderTags(h, X) => HeaderTags(k, X)
  BY <1>1 DEF HeaderTags
<1>5. Clean(h) => Clean(k)
  BY <1>1 DEF Clean
<1> QED
  BY <1>2, <1>3, <1>4, <1>5

\* Tags written inside a region disturb no other region: if the ends of this
\* one are right afterwards, all tags are.
LEMMA RetagSound ==
    ASSUME NEW h \in HeapState, NEW away \in SUBSET Extent, NEW x \in Headers,
           Extents(h, away), AwayTags(h, away), HeaderTags(h, Headers \ {x}),
           Sz(h, x) > 0, NEW k, Tagged(h, k),
           NEW p1, NEW p2,
           In(p1, At(h, x), Sz(h, x)), In(p2, At(h, x), Sz(h, x)),
           p1 \in Pages, p2 \in Pages,
           \A p \in Pages : p \notin {p1, p2} => k.heapinfo[p] = h.heapinfo[p],
           HeaderTags(k, {x})
    PROVE  Sound(k, away)
<1>1. \A y \in Headers : /\ At(h, y) \in Nat /\ Sz(h, y) \in Nat
                         /\ At(h, y) + Sz(h, y) <= Size
  BY FieldsTyped, Numbers DEF Extents
<1>2. /\ k \in HeapState /\ Clean(k) /\ k.header = h.header /\ k.live = h.live
  BY DEF Tagged
<1>3. \A y \in Headers : At(k, y) = At(h, y) /\ Sz(k, y) = Sz(h, y)
  BY <1>2 DEF At, Sz
<1>4. Extents(k, away)
  BY <1>2, <1>3 DEF Extents
\* The ends of a region or an extent that is apart are other pages.
<1>5. ASSUME NEW b \in Nat, NEW m \in Nat, m > 0, b + m <= Size,
             Apart(b, m, At(h, x), Sz(h, x))
      PROVE  /\ k.heapinfo[b] = h.heapinfo[b]
             /\ k.heapinfo[b + m - 1] = h.heapinfo[b + m - 1]
  <2>1. /\ At(h, x) \in Nat /\ Sz(h, x) \in Nat /\ Sz(h, x) > 0 /\ Size \in Nat
        /\ p1 \in Nat /\ p2 \in Nat
    BY <1>1, Numbers
  <2>2. /\ b \notin {p1, p2} /\ b + m - 1 \notin {p1, p2}
        /\ b \in Nat /\ b < Size /\ b + m - 1 \in Nat /\ b + m - 1 < Size
    BY <1>5, <2>1 DEF Apart, In
  <2> QED
    BY <2>2, Numbers
<1>6. AwayTags(k, away)
  <2> SUFFICES ASSUME NEW b \in away
               PROVE  /\ k.heapinfo[b.at] = b.size
                      /\ b.size > 1 => k.heapinfo[b.at + b.size - 1] = 0
    BY DEF AwayTags
  <2>1. b.at \in Nat /\ b.size \in Nat /\ b.size > 0
    BY ExtentTyped
  <2>2. b.at + b.size <= Size /\ Apart(b.at, b.size, At(h, x), Sz(h, x))
    BY DEF Extents
  <2>3. /\ k.heapinfo[b.at] = h.heapinfo[b.at]
        /\ k.heapinfo[b.at + b.size - 1] = h.heapinfo[b.at + b.size - 1]
    BY <1>5, <2>1, <2>2
  <2>4. h.heapinfo[b.at] = b.size /\ (b.size > 1 => h.heapinfo[b.at + b.size - 1] = 0)
    BY DEF AwayTags
  <2> QED
    BY <2>3, <2>4
<1>7. HeaderTags(k, Headers)
  <2> SUFFICES ASSUME NEW y \in Headers, Sz(h, y) > 0
               PROVE  /\ k.heapinfo[At(h, y)] \in Headers => k.heapinfo[At(h, y)] = y
                      /\ k.heapinfo[At(h, y) + Sz(h, y) - 1] \in Headers =>
                            k.heapinfo[At(h, y) + Sz(h, y) - 1] = y
    BY <1>3 DEF HeaderTags
  <2>1. CASE y = x
    BY <1>3, <2>1 DEF HeaderTags
  <2>2. CASE y # x
    <3>1. Apart(At(h, y), Sz(h, y), At(h, x), Sz(h, x))
      BY <2>2 DEF Extents
    <3>2. /\ k.heapinfo[At(h, y)] = h.heapinfo[At(h, y)]
          /\ k.heapinfo[At(h, y) + Sz(h, y) - 1] = h.heapinfo[At(h, y) + Sz(h, y) - 1]
      BY <1>1, <1>5, <3>1
    <3>3. /\ h.heapinfo[At(h, y)] \in Headers => h.heapinfo[At(h, y)] = y
          /\ h.heapinfo[At(h, y) + Sz(h, y) - 1] \in Headers =>
                h.heapinfo[At(h, y) + Sz(h, y) - 1] = y
      BY <2>2 DEF HeaderTags
    <3> QED
      BY <3>2, <3>3
  <2> QED
    BY <2>1, <2>2
<1> QED
  BY <1>2, <1>4, <1>6, <1>7 DEF Sound

\* A header in the tag in front of an extent that is away describes the region
\* in front of it.
LEMMA InFront ==
    ASSUME NEW h, NEW away \in SUBSET Extent, Sound(h, away),
           NEW a \in away, a.at > 0, h.heapinfo[a.at - 1] \in Headers
    PROVE  LET x == h.heapinfo[a.at - 1]
           IN  x \in h.live /\ Sz(h, x) > 0 /\ At(h, x) + Sz(h, x) = a.at
<1>1. /\ a.at \in Nat /\ a.at < Size /\ a.size \in Nat \ {0}
      /\ a.at - 1 \in Pages /\ h \in HeapState
  <2>1. a.at \in Nat /\ a.at < Size /\ a.size \in Nat \ {0}
    BY ExtentTyped
  <2>2. a.at - 1 \in Nat /\ a.at - 1 < Size
    BY <2>1, Numbers
  <2> QED
    BY <2>1, <2>2, Numbers DEF Sound
<1>2. ASSUME NEW b \in away, In(a.at - 1, b.at, b.size)
      PROVE  FALSE
  <2>1. b.at \in Nat /\ b.size \in Nat \ {0} /\ b.size <= Size
    BY ExtentTyped
  <2>2. a # b
    BY <1>1, <1>2, <2>1 DEF In
  <2>3. Apart(a.at, a.size, b.at, b.size)
    BY <2>2 DEF Sound, Extents
  <2>4. b.at + b.size = a.at
    BY <1>1, <1>2, <2>1, <2>3 DEF In, Apart
  <2>5. h.heapinfo[b.at] = b.size /\ (b.size > 1 => h.heapinfo[b.at + b.size - 1] = 0)
    BY DEF Sound, AwayTags
  <2>6. h.heapinfo[a.at - 1] \in 0..Size
    <3>1. CASE b.size = 1
      <4>1. a.at - 1 = b.at
        BY <1>1, <2>1, <2>4, <3>1
      <4> QED
        BY <2>1, <2>5, <4>1, Numbers
    <3>2. CASE b.size > 1
      <4>1. a.at - 1 = b.at + b.size - 1
        BY <1>1, <2>1, <2>4
      <4> QED
        BY <2>5, <3>2, <4>1, Numbers
    <3> QED
      BY <2>1, <3>1, <3>2
  <2> QED
    BY <2>6, Numbers
<1>3. PICK x \in Headers : In(a.at - 1, At(h, x), Sz(h, x))
  BY <1>1, <1>2 DEF Sound, Extents
<1>4. Sz(h, x) \in Nat /\ At(h, x) \in Nat
  BY <1>1, FieldsTyped, Numbers
<1>5. Apart(a.at, a.size, At(h, x), Sz(h, x))
  BY DEF Sound, Extents
<1>6. Sz(h, x) > 0 /\ At(h, x) + Sz(h, x) = a.at
  BY <1>1, <1>3, <1>4, <1>5 DEF In, Apart
<1>7. h.heapinfo[a.at - 1] = x
  <2>1. At(h, x) + Sz(h, x) - 1 = a.at - 1
    BY <1>1, <1>4, <1>6
  <2>2. h.heapinfo[At(h, x) + Sz(h, x) - 1] \in Headers =>
           h.heapinfo[At(h, x) + Sz(h, x) - 1] = x
    BY <1>6 DEF Sound, HeaderTags
  <2> QED
    BY <2>1, <2>2
<1>8. x \in h.live
  BY <1>6 DEF Sound, Extents
<1> QED
  BY <1>6, <1>7, <1>8

\* And one in the tag behind it the region behind it.
LEMMA Behind ==
    ASSUME NEW h, NEW away \in SUBSET Extent, Sound(h, away),
           NEW a \in away, a.at + a.size < Size,
           h.heapinfo[a.at + a.size] \in Headers
    PROVE  LET x == h.heapinfo[a.at + a.size]
           IN  x \in h.live /\ Sz(h, x) > 0 /\ At(h, x) = a.at + a.size
<1> DEFINE p == a.at + a.size
<1>1. /\ a.at \in Nat /\ a.size \in Nat \ {0}
      /\ p \in Pages /\ p \in Nat /\ h \in HeapState
  <2>1. a.at \in Nat /\ a.at < Size /\ a.size \in Nat \ {0}
    BY ExtentTyped
  <2>2. p \in Nat /\ p < Size
    BY <2>1
  <2> QED
    BY <2>1, <2>2, Numbers DEF Sound
<1>2. ASSUME NEW b \in away, In(p, b.at, b.size)
      PROVE  FALSE
  <2>1. b.at \in Nat /\ b.size \in Nat \ {0} /\ b.size <= Size
    BY ExtentTyped
  <2>2. a # b
    BY <1>1, <1>2, <2>1 DEF In
  <2>3. Apart(a.at, a.size, b.at, b.size)
    BY <2>2 DEF Sound, Extents
  <2>4. b.at = p
    BY <1>1, <1>2, <2>1, <2>3 DEF In, Apart
  <2>5. h.heapinfo[b.at] = b.size
    BY DEF Sound, AwayTags
  <2> QED
    BY <2>1, <2>4, <2>5, Numbers
<1>3. PICK x \in Headers : In(p, At(h, x), Sz(h, x))
  BY <1>1, <1>2 DEF Sound, Extents
<1>4. Sz(h, x) \in Nat /\ At(h, x) \in Nat
  BY <1>1, FieldsTyped, Numbers
<1>5. Apart(a.at, a.size, At(h, x), Sz(h, x))
  BY DEF Sound, Extents
<1>6. Sz(h, x) > 0 /\ At(h, x) = p
  BY <1>1, <1>3, <1>4, <1>5 DEF In, Apart
<1>7. h.heapinfo[At(h, x)] = x
  BY <1>6 DEF Sound, HeaderTags
<1>8. x \in h.live
  BY <1>6 DEF Sound, Extents
<1> QED
  BY <1>6, <1>7, <1>8

-----------------------------------------------------------------------------
(* Allocating *)

\* The header keeps the pages behind the first ones.
Cut(h, x, size) == [h EXCEPT !.header[x].region = At(h, x) + size,
                             !.header[x].size = Sz(h, x) - size]

\* The first pages of x are an extent.
CutOff(h, k, away, x, size) ==
    LET a == [at |-> At(h, x), size |-> size]
    IN  /\ a \in Extent /\ a \notin away /\ k \in HeapState
        /\ Extents(k, away \cup {a})
        /\ At(k, x) = At(h, x) + size /\ Sz(k, x) = Sz(h, x) - size
        /\ \A y \in Headers : y # x => At(k, y) = At(h, y) /\ Sz(k, y) = Sz(h, y)
        /\ k.heapinfo = h.heapinfo /\ k.mapped = h.mapped
        /\ k.frames = h.frames /\ k.live = h.live

\* The header is cut at its front: the pages cut off are away.
LEMMA CutSound ==
    ASSUME NEW h \in HeapState, NEW away \in SUBSET Extent, Extents(h, away),
           NEW x \in Headers, NEW size \in Nat \ {0}, size <= Sz(h, x)
    PROVE  CutOff(h, Cut(h, x, size), away, x, size)
<1> DEFINE at == At(h, x)
           left == Sz(h, x) - size
           a == [at |-> at, size |-> size]
           k == Cut(h, x, size)
           B == away \cup {a}
<1>1. /\ Size \in Nat /\ at \in Nat /\ Sz(h, x) \in Nat
      /\ at + Sz(h, x) <= Size
  BY FieldsTyped, Numbers DEF Extents
<1>2. /\ left \in 0..Size /\ at + size \in 0..Size /\ at < Size /\ size \in 1..Size
      /\ left \in Nat /\ left + size = Sz(h, x)
  BY <1>1
<1>3. a \in Extent
  BY <1>1, <1>2, Numbers DEF Extent
<1>4. h.header \in [Headers -> Header] /\ h.header[x] \in Header
  BY DEF HeapState
<1> HIDE DEF at, left
<1>5. /\ k.header = [h.header EXCEPT ![x] = [@ EXCEPT !.region = at + size, !.size = left]]
      /\ k.heapinfo = h.heapinfo /\ k.mapped = h.mapped /\ k.headers = h.headers
      /\ k.frames = h.frames /\ k.live = h.live /\ k.fault = h.fault
  BY <1>4 DEF HeapState, Header, Cut, at, left
<1>6. [h.header[x] EXCEPT !.region = at + size, !.size = left] \in Header
  BY <1>2, <1>4 DEF Header
<1>7. k.header \in [Headers -> Header]
  BY <1>4, <1>5, <1>6
<1>8. k \in HeapState
  BY <1>5, <1>7 DEF HeapState, Cut
<1>9. /\ At(k, x) = at + size /\ Sz(k, x) = left
      /\ \A y \in Headers : y # x => At(k, y) = At(h, y) /\ Sz(k, y) = Sz(h, y)
  BY <1>4, <1>5 DEF At, Sz, Header
<1> HIDE DEF k
<1>10. \A y \in Headers : At(h, y) \in Nat /\ Sz(h, y) \in Nat
  BY FieldsTyped, Numbers
<1>11. \A b \in away : b.at \in Nat /\ b.size \in Nat \ {0}
  BY ExtentTyped
<1>12. a.at = at /\ a.size = size
  OBVIOUS
<1>13. \A b \in away : Apart(b.at, b.size, at, size)
  <2> SUFFICES ASSUME NEW b \in away
               PROVE  Apart(b.at, b.size, at, size)
    OBVIOUS
  <2>1. Apart(b.at, b.size, at, Sz(h, x))
    BY DEF Extents, at
  <2> QED
    BY <1>1, <1>2, <1>11, <2>1 DEF Apart
<1>14. a \notin away
  <2> SUFFICES ASSUME a \in away PROVE FALSE
    OBVIOUS
  <2> QED
    BY <1>1, <1>2, <1>12, <1>13 DEF Apart
<1> HIDE DEF a
<1>15. Extents(k, B)
  <2>1. \A b \in B : b.at + b.size <= Size
    BY <1>1, <1>2, <1>12 DEF Extents
  <2>2. \A y \in Headers : At(k, y) + Sz(k, y) <= Size
    <3> SUFFICES ASSUME NEW y \in Headers PROVE At(k, y) + Sz(k, y) <= Size
      OBVIOUS
    <3>1. CASE y = x
      BY <1>1, <1>2, <1>9, <3>1
    <3>2. CASE y # x
      BY <1>9, <3>2 DEF Extents
    <3> QED
      BY <3>1, <3>2
  <2>3. \A y \in Headers : y \notin k.live => Sz(k, y) = 0
    <3>1. x \in h.live
      BY <1>1, <1>2 DEF Extents
    <3> QED
      BY <1>5, <1>9, <3>1 DEF Extents
  <2>4. \A b, c \in B : b # c => Apart(b.at, b.size, c.at, c.size)
    <3>1. \A b, c \in away : b # c => Apart(b.at, b.size, c.at, c.size)
      BY DEF Extents
    <3>2. \A b \in away : Apart(a.at, a.size, b.at, b.size)
      BY <1>12, <1>13 DEF Apart
    <3> QED
      BY <1>12, <1>13, <3>1, <3>2
  <2>5. \A b \in B, y \in Headers : Apart(b.at, b.size, At(k, y), Sz(k, y))
    <3> SUFFICES ASSUME NEW b \in B, NEW y \in Headers
                 PROVE  Apart(b.at, b.size, At(k, y), Sz(k, y))
      OBVIOUS
    <3>1. CASE b \in away
      <4>1. Apart(b.at, b.size, At(h, y), Sz(h, y))
        BY <3>1 DEF Extents
      <4>2. CASE y = x
        BY <1>1, <1>2, <1>9, <1>11, <3>1, <4>1, <4>2 DEF Apart, at
      <4>3. CASE y # x
        BY <1>9, <4>1, <4>3
      <4> QED
        BY <4>2, <4>3
    <3>2. CASE b = a
      <4>1. CASE y = x
        BY <1>1, <1>2, <1>9, <1>12, <3>2, <4>1 DEF Apart
      <4>2. CASE y # x
        <5>1. Apart(at, Sz(h, x), At(h, y), Sz(h, y))
          BY <4>2 DEF Extents, at
        <5> QED
          BY <1>1, <1>2, <1>9, <1>10, <1>12, <3>2, <4>2, <5>1 DEF Apart
      <4> QED
        BY <4>1, <4>2
    <3> QED
      BY <3>1, <3>2
  <2>6. \A y, z \in Headers :
           y # z => Apart(At(k, y), Sz(k, y), At(k, z), Sz(k, z))
    <3> SUFFICES ASSUME NEW y \in Headers, NEW z \in Headers, y # z
                 PROVE  Apart(At(k, y), Sz(k, y), At(k, z), Sz(k, z))
      OBVIOUS
    <3>1. Apart(At(h, y), Sz(h, y), At(h, z), Sz(h, z))
      BY DEF Extents
    <3>2. CASE y = x
      BY <1>1, <1>2, <1>9, <1>10, <3>1, <3>2 DEF Apart, at
    <3>3. CASE z = x
      BY <1>1, <1>2, <1>9, <1>10, <3>1, <3>3 DEF Apart, at
    <3>4. CASE y # x /\ z # x
      BY <1>9, <3>1, <3>4
    <3> QED
      BY <3>2, <3>3, <3>4
  <2>7. \A p \in Pages : \/ \E b \in B : In(p, b.at, b.size)
                         \/ \E y \in Headers : In(p, At(k, y), Sz(k, y))
    <3> SUFFICES ASSUME NEW p \in Pages
                 PROVE  \/ \E b \in B : In(p, b.at, b.size)
                        \/ \E y \in Headers : In(p, At(k, y), Sz(k, y))
      OBVIOUS
    <3>1. CASE \E b \in away : In(p, b.at, b.size)
      BY <3>1
    <3>2. CASE In(p, at, Sz(h, x))
      <4>1. p \in Nat
        BY Numbers
      <4>2. In(p, a.at, a.size) \/ In(p, At(k, x), Sz(k, x))
        BY <1>1, <1>2, <1>9, <1>12, <3>2, <4>1 DEF In
      <4> QED
        BY <4>2
    <3>3. ASSUME NEW y \in Headers, y # x, In(p, At(h, y), Sz(h, y))
          PROVE  \E z \in Headers : In(p, At(k, z), Sz(k, z))
      BY <1>9, <3>3
    <3> QED
      BY <3>1, <3>2, <3>3 DEF Extents, at
  <2> QED
    BY <2>1, <2>2, <2>3, <2>4, <2>5, <2>6, <2>7 DEF Extents
<1> QED
  BY <1>3, <1>5, <1>8, <1>9, <1>14, <1>15 DEF k, a, at, left, CutOff

-----------------------------------------------------------------------------
(* Freeing *)

\* Everything while a region is being freed whose header is to be tagged.
Freeing(h, away, new) ==
    /\ h \in HeapState
    /\ Clean(h)
    /\ Extents(h, away)
    /\ AwayTags(h, away)
    /\ HeaderTags(h, Headers \ {new})
    /\ new \in h.live /\ Sz(h, new) > 0

\* The regions of n and new are neighbours, and start where they start.
Beside(h, n, new, start) ==
    \/ start = At(h, n) /\ At(h, n) + Sz(h, n) = At(h, new)
    \/ start = At(h, new) /\ At(h, new) + Sz(h, new) = At(h, n)

\* Absorb behind remove_ordered_list.
Join(h, n, new, start) ==
    [h EXCEPT !.header[new].region = start,
              !.header[new].size = @ + h.header[n].size,
              !.header[n] = Unwritten,
              !.live = @ \ {n}]

\* What becomes of the two regions and of everything else.
Joined(h, k, away, n, new, start) ==
    /\ Freeing(k, away, new)
    /\ At(k, new) = start /\ Sz(k, new) = Sz(h, new) + Sz(h, n)
    /\ \A y \in Headers : y \notin {n, new} =>
          At(k, y) = At(h, y) /\ Sz(k, y) = Sz(h, y)
    /\ k.heapinfo = h.heapinfo /\ k.mapped = h.mapped
    /\ k.frames = h.frames /\ k.live = h.live \ {n}

\* The new header takes the pages of a region next to its own.
LEMMA JoinSound ==
    ASSUME NEW h, NEW away \in SUBSET Extent,
           NEW n \in Headers, NEW new \in Headers, n # new,
           Freeing(h, away, new), Sz(h, n) > 0, NEW start,
           Beside(h, n, new, start)
    PROVE  Joined(h, Join(h, n, new, start), away, n, new, start)
<1> DEFINE both == Sz(h, new) + Sz(h, n)
           k == Join(h, n, new, start)
<1>1. /\ h \in HeapState /\ Clean(h) /\ Extents(h, away) /\ AwayTags(h, away)
      /\ HeaderTags(h, Headers \ {new})
      /\ new \in h.live /\ Sz(h, new) > 0
  BY DEF Freeing
<1>2. \A y \in Headers : /\ At(h, y) \in Nat /\ Sz(h, y) \in Nat
                         /\ At(h, y) + Sz(h, y) <= Size
  BY <1>1, FieldsTyped, Numbers DEF Extents
<1>3. /\ start \in Nat /\ both \in Nat /\ both > 0 /\ start + both <= Size
      /\ start <= At(h, n) /\ At(h, n) + Sz(h, n) <= start + both
      /\ start <= At(h, new) /\ At(h, new) + Sz(h, new) <= start + both
  BY <1>1, <1>2 DEF Beside
<1>4. Size \in Nat /\ start \in 0..Size /\ both \in 0..Size
  BY <1>3, Numbers
<1>5. h.header \in [Headers -> Header] /\ h.header[new] \in Header /\ Unwritten \in Header
  BY <1>1, Numbers DEF HeapState, Header, Unwritten
<1> HIDE DEF both
<1>6. /\ k.header = [h.header EXCEPT ![new] = [@ EXCEPT !.region = start, !.size = both],
                                    ![n] = Unwritten]
      /\ k.heapinfo = h.heapinfo /\ k.mapped = h.mapped /\ k.headers = h.headers
      /\ k.frames = h.frames /\ k.live = h.live \ {n} /\ k.fault = h.fault
  BY <1>1, <1>5 DEF Join, HeapState, Header, both, Sz
<1>7. [h.header[new] EXCEPT !.region = start, !.size = both] \in Header
  BY <1>4, <1>5 DEF Header
<1>8. k.header \in [Headers -> Header]
  BY <1>5, <1>6, <1>7
<1>9. k \in HeapState
  BY <1>1, <1>6, <1>8 DEF HeapState, Join
<1>10. /\ At(k, new) = start /\ Sz(k, new) = both /\ Sz(k, n) = 0
       /\ \A y \in Headers : y \notin {n, new} =>
             At(k, y) = At(h, y) /\ Sz(k, y) = Sz(h, y)
  BY <1>5, <1>6 DEF Join, HeapState, At, Sz, Header, Unwritten
<1>11. At(k, n) = 0
  BY <1>5, <1>6 DEF At, Unwritten
<1> HIDE DEF k
<1>12. \A b \in away : b.at \in Nat /\ b.size \in Nat \ {0}
  BY ExtentTyped
\* What is apart from both regions is apart from the two together.
<1>13. ASSUME NEW b \in Nat, NEW m \in Nat,
              Apart(b, m, At(h, n), Sz(h, n)), Apart(b, m, At(h, new), Sz(h, new))
       PROVE  Apart(b, m, start, both)
  <2>1. At(h, n) \in Nat /\ Sz(h, n) \in Nat /\ At(h, new) \in Nat /\ Sz(h, new) \in Nat
    BY <1>2
  <2> QED
    BY <1>1, <1>3, <1>13, <2>1 DEF Apart, both, Beside
<1>14. Extents(k, away)
  <2>1. \A b \in away : b.at + b.size <= Size
    BY <1>1 DEF Extents
  <2>2. \A y \in Headers : At(k, y) + Sz(k, y) <= Size
    BY <1>2, <1>3, <1>4, <1>10, <1>11
  <2>3. \A y \in Headers : y \notin k.live => Sz(k, y) = 0
    BY <1>1, <1>6, <1>10 DEF Extents
  <2>4. \A b, c \in away : b # c => Apart(b.at, b.size, c.at, c.size)
    BY <1>1 DEF Extents
  <2>5. \A b \in away, y \in Headers : Apart(b.at, b.size, At(k, y), Sz(k, y))
    <3> SUFFICES ASSUME NEW b \in away, NEW y \in Headers
                 PROVE  Apart(b.at, b.size, At(k, y), Sz(k, y))
      OBVIOUS
    <3>1. \A z \in Headers : Apart(b.at, b.size, At(h, z), Sz(h, z))
      BY <1>1 DEF Extents
    <3>2. CASE y = n
      BY <1>10, <3>2 DEF Apart
    <3>3. CASE y = new
      BY <1>10, <1>12, <1>13, <3>1, <3>3
    <3>4. CASE y \notin {n, new}
      BY <1>10, <3>1, <3>4
    <3> QED
      BY <3>2, <3>3, <3>4
  <2>6. \A y, z \in Headers :
           y # z => Apart(At(k, y), Sz(k, y), At(k, z), Sz(k, z))
    <3>1. \A y \in Headers : y \notin {n, new} =>
             /\ Apart(At(h, y), Sz(h, y), start, both)
             /\ Apart(start, both, At(h, y), Sz(h, y))
      <4> SUFFICES ASSUME NEW y \in Headers, y \notin {n, new}
                   PROVE  /\ Apart(At(h, y), Sz(h, y), start, both)
                          /\ Apart(start, both, At(h, y), Sz(h, y))
        OBVIOUS
      <4>1. /\ Apart(At(h, y), Sz(h, y), At(h, n), Sz(h, n))
            /\ Apart(At(h, y), Sz(h, y), At(h, new), Sz(h, new))
        BY <1>1 DEF Extents
      <4>2. Apart(At(h, y), Sz(h, y), start, both)
        BY <1>2, <1>13, <4>1
      <4> QED
        BY <4>2 DEF Apart
    <3> SUFFICES ASSUME NEW y \in Headers, NEW z \in Headers, y # z
                 PROVE  Apart(At(k, y), Sz(k, y), At(k, z), Sz(k, z))
      OBVIOUS
    <3>2. CASE y = n \/ z = n
      BY <1>10, <3>2 DEF Apart
    <3>3. CASE y = new /\ z # n
      BY <1>10, <3>1, <3>3
    <3>4. CASE z = new /\ y # n
      BY <1>10, <3>1, <3>4
    <3>5. CASE y \notin {n, new} /\ z \notin {n, new}
      BY <1>1, <1>10, <3>5 DEF Extents
    <3> QED
      BY <3>2, <3>3, <3>4, <3>5
  <2>7. \A p \in Pages : \/ \E b \in away : In(p, b.at, b.size)
                         \/ \E y \in Headers : In(p, At(k, y), Sz(k, y))
    <3> SUFFICES ASSUME NEW p \in Pages
                 PROVE  \/ \E b \in away : In(p, b.at, b.size)
                        \/ \E y \in Headers : In(p, At(k, y), Sz(k, y))
      OBVIOUS
    <3>1. CASE \E b \in away : In(p, b.at, b.size)
      BY <3>1
    <3>2. ASSUME NEW y \in Headers, In(p, At(h, y), Sz(h, y))
          PROVE  \E z \in Headers : In(p, At(k, z), Sz(k, z))
      <4>1. CASE y \in {n, new}
        <5>1. p \in Nat
          BY Numbers
        <5>2. In(p, start, both)
          BY <1>2, <1>3, <3>2, <4>1, <5>1 DEF In
        <5> QED
          BY <1>10, <5>2
      <4>2. CASE y \notin {n, new}
        BY <1>10, <3>2, <4>2
      <4> QED
        BY <4>1, <4>2
    <3> QED
      BY <1>1, <3>1, <3>2 DEF Extents
  <2> QED
    BY <2>1, <2>2, <2>3, <2>4, <2>5, <2>6, <2>7 DEF Extents
<1>15. Clean(k) /\ AwayTags(k, away)
  BY <1>1, <1>6 DEF Clean, AwayTags
<1>16. HeaderTags(k, Headers \ {new})
  <2> SUFFICES ASSUME NEW y \in Headers \ {new}, Sz(k, y) > 0
               PROVE  /\ k.heapinfo[At(k, y)] \in Headers => k.heapinfo[At(k, y)] = y
                      /\ k.heapinfo[At(k, y) + Sz(k, y) - 1] \in Headers =>
                            k.heapinfo[At(k, y) + Sz(k, y) - 1] = y
    BY DEF HeaderTags
  <2>1. y # n
    BY <1>10
  <2>2. At(k, y) = At(h, y) /\ Sz(k, y) = Sz(h, y)
    BY <1>10, <2>1
  <2> QED
    BY <1>1, <1>6, <2>2 DEF HeaderTags
<1>17. new \in k.live /\ Sz(k, new) > 0
  BY <1>1, <1>3, <1>6, <1>10
<1>18. Freeing(k, away, new)
  BY <1>9, <1>14, <1>15, <1>16, <1>17 DEF Freeing
<1> QED
  BY <1>6, <1>10, <1>18 DEF k, both, Joined

\* The same with the neighbour's way off the list.
LEMMA AbsorbSound ==
    ASSUME NEW h, NEW away \in SUBSET Extent,
           NEW n \in Headers, NEW new \in Headers, n # new,
           Freeing(h, away, new), Sz(h, n) > 0, NEW start,
           Beside(h, n, new, start)
    PROVE  Joined(h, Absorb(h, n, new, start), away, n, new, start)
<1> DEFINE g == RemoveOrderedList(h, n)
           k == Join(g, n, new, start)
<1>1. SameRegions(h, g)
  BY RemoveSame DEF Freeing
<1>2. Absorb(h, n, new, start) = k
  <2>1. n \in h.live
    BY DEF Freeing, Extents
  <2> QED
    BY <2>1 DEF Absorb, Join
<1> HIDE DEF g
<1>3. /\ g \in HeapState /\ g.live = h.live /\ g.heapinfo = h.heapinfo
      /\ g.mapped = h.mapped /\ g.frames = h.frames
      /\ \A x \in Headers : Sz(g, x) = Sz(h, x) /\ At(g, x) = At(h, x)
  BY <1>1 DEF SameRegions
<1>4. Extents(g, away) /\ AwayTags(g, away) /\ Clean(g)
  BY <1>1, SameSound DEF Freeing
<1>5. HeaderTags(g, Headers \ {new})
  <2>1. Headers \ {new} \in SUBSET Headers
    OBVIOUS
  <2> QED
    BY <1>1, <2>1, SameSound DEF Freeing
<1>6. Freeing(g, away, new)
  BY <1>3, <1>4, <1>5 DEF Freeing
<1>7. Sz(g, n) > 0
  BY <1>3
<1>8. Beside(g, n, new, start)
  BY <1>3 DEF Beside
<1>9. Joined(g, k, away, n, new, start)
  BY <1>6, <1>7, <1>8, JoinSound
<1> HIDE DEF k
<1> QED
  BY <1>2, <1>3, <1>9 DEF Joined

\* With the tags at both ends the free region is complete.
LEMMA TagFreeSound ==
    ASSUME NEW h, NEW away \in SUBSET Extent, NEW new \in Headers,
           Freeing(h, away, new)
    PROVE  Sound(TagFree(h, new), away) /\ TagFree(h, new).frames <= h.frames
<1> DEFINE first == At(h, new)
           last == first + Sz(h, new) - 1
           g == SetHeapinfo(h, first, new).heap
           k == SetHeapinfo(g, last, new).heap
<1>1. /\ h \in HeapState /\ Clean(h) /\ Extents(h, away) /\ AwayTags(h, away)
      /\ HeaderTags(h, Headers \ {new})
      /\ new \in h.live /\ Sz(h, new) > 0
  BY DEF Freeing
<1>2. \A y \in Headers : /\ At(h, y) \in Nat /\ Sz(h, y) \in Nat
                         /\ At(h, y) + Sz(h, y) <= Size
  BY <1>1, FieldsTyped, Numbers DEF Extents
<1>3. first \in Pages /\ last \in Pages
  <2>1. first \in Nat /\ first < Size /\ last \in Nat /\ last < Size
    BY <1>1, <1>2, Numbers
  <2> QED
    BY <2>1, Numbers
<1>4. TagFree(h, new) = k
  BY DEF TagFree, At, Sz
<1>5. /\ Tagged(h, g)
      /\ \A p \in Pages : p # first => g.heapinfo[p] = h.heapinfo[p]
      /\ g.heapinfo[first] = new \/ g.heapinfo[first] \notin Headers
  <2>1. new \in Headers \cup (0..Size)
    OBVIOUS
  <2> DEFINE r == SetHeapinfo(h, first, new)
  <2>2. /\ Tagged(h, r.heap)
        /\ \A p \in Pages : p # first => r.heap.heapinfo[p] = h.heapinfo[p]
        /\ r.ok => r.heap.heapinfo[first] = new
        /\ ~r.ok => /\ r.heap.heapinfo[first] = h.heapinfo[first]
                    /\ h.heapinfo[first] \notin Headers
    <3> HIDE DEF first
    <3> QED
      BY <1>1, <1>3, <2>1, SetHeapinfoTags
  <2> HIDE DEF r
  <2>3. g = r.heap
    BY DEF r
  <2> HIDE DEF g
  <2> QED
    BY <2>2, <2>3
<1> HIDE DEF g
<1>6. /\ Tagged(g, k)
      /\ \A p \in Pages : p # last => k.heapinfo[p] = g.heapinfo[p]
      /\ k.heapinfo[last] = new \/ k.heapinfo[last] \notin Headers
  <2>1. new \in Headers \cup (0..Size) /\ g \in HeapState /\ Clean(g)
    BY <1>5 DEF Tagged
  <2> DEFINE r == SetHeapinfo(g, last, new)
  <2>2. /\ Tagged(g, r.heap)
        /\ \A p \in Pages : p # last => r.heap.heapinfo[p] = g.heapinfo[p]
        /\ r.ok => r.heap.heapinfo[last] = new
        /\ ~r.ok => /\ r.heap.heapinfo[last] = g.heapinfo[last]
                    /\ g.heapinfo[last] \notin Headers
    <3> HIDE DEF last
    <3> QED
      BY <1>3, <2>1, SetHeapinfoTags
  <2> HIDE DEF r
  <2>3. k = r.heap
    BY DEF r
  <2> HIDE DEF k
  <2> QED
    BY <2>2, <2>3
<1> HIDE DEF k
<1>7. Tagged(h, k)
  BY <1>1, <1>5, <1>6, TaggedTrans
<1>8. k.header = h.header /\ k.frames <= h.frames
  BY <1>7 DEF Tagged
<1>9. /\ \A p \in Pages : p \notin {first, last} => k.heapinfo[p] = h.heapinfo[p]
      /\ \A p \in {first, last} : k.heapinfo[p] \in Headers => k.heapinfo[p] = new
  BY <1>3, <1>5, <1>6
<1>10. HeaderTags(k, {new})
  BY <1>8, <1>9 DEF HeaderTags, At, Sz
<1>11. In(first, At(h, new), Sz(h, new)) /\ In(last, At(h, new), Sz(h, new))
  BY <1>1, <1>2 DEF In
<1>12. Sound(k, away)
  <2> HIDE DEF first, last
  <2> QED
    BY <1>1, <1>3, <1>7, <1>9, <1>10, <1>11, RetagSound
<1> QED
  BY <1>4, <1>8, <1>12

\* The header of the freed region before it has absorbed its neighbours.
TakeBack(h, at, size, new) ==
    [h EXCEPT !.header[new].region = at, !.header[new].size = size,
              !.live = @ \cup {new}]

\* The pages of an extent are in the new header's hands.
TakenBack(h, k, away, a, new) ==
    /\ Freeing(k, away \ {a}, new)
    /\ At(k, new) = a.at /\ Sz(k, new) = a.size
    /\ \A y \in Headers : y # new => At(k, y) = At(h, y) /\ Sz(k, y) = Sz(h, y)
    /\ k.heapinfo = h.heapinfo /\ k.mapped = h.mapped
    /\ k.frames = h.frames /\ k.live = h.live \cup {new}

\* A header from kmalloc takes an extent back.
LEMMA TakeBackSound ==
    ASSUME NEW h, NEW away \in SUBSET Extent, Sound(h, away), NEW a \in away,
           NEW new \in Headers, new \notin h.live
    PROVE  TakenBack(h, TakeBack(h, a.at, a.size, new), away, a, new)
<1> DEFINE k == TakeBack(h, a.at, a.size, new)
           A == away \ {a}
<1>1. /\ h \in HeapState /\ Clean(h) /\ Extents(h, away) /\ AwayTags(h, away)
      /\ HeaderTags(h, Headers)
  BY DEF Sound
<1>2. \A y \in Headers : /\ At(h, y) \in Nat /\ Sz(h, y) \in Nat
                         /\ At(h, y) + Sz(h, y) <= Size
  BY <1>1, FieldsTyped, Numbers DEF Extents
<1>3. /\ a.at \in Nat /\ a.size \in Nat \ {0} /\ a.at + a.size <= Size
      /\ a.at \in 0..Size /\ a.size \in 0..Size
  BY <1>1, ExtentTyped, Numbers DEF Extents
<1>4. h.header \in [Headers -> Header] /\ h.header[new] \in Header
  BY <1>1 DEF HeapState
<1>5. /\ k.header = [h.header EXCEPT ![new] = [@ EXCEPT !.region = a.at, !.size = a.size]]
      /\ k.heapinfo = h.heapinfo /\ k.mapped = h.mapped /\ k.headers = h.headers
      /\ k.frames = h.frames /\ k.live = h.live \cup {new} /\ k.fault = h.fault
  BY <1>1, <1>4 DEF HeapState, Header, TakeBack
<1>6. [h.header[new] EXCEPT !.region = a.at, !.size = a.size] \in Header
  BY <1>3, <1>4 DEF Header
<1>7. k.header \in [Headers -> Header]
  BY <1>4, <1>5, <1>6
<1>8. k \in HeapState
  BY <1>1, <1>5, <1>7 DEF HeapState, TakeBack
<1>9. /\ At(k, new) = a.at /\ Sz(k, new) = a.size
      /\ \A y \in Headers : y # new => At(k, y) = At(h, y) /\ Sz(k, y) = Sz(h, y)
  BY <1>4, <1>5 DEF At, Sz, Header
<1> HIDE DEF k
<1>10. Extents(k, A)
  <2>1. \A b \in A : b.at + b.size <= Size
    BY <1>1 DEF Extents
  <2>2. \A y \in Headers : At(k, y) + Sz(k, y) <= Size
    BY <1>2, <1>3, <1>9
  <2>3. \A y \in Headers : y \notin k.live => Sz(k, y) = 0
    BY <1>1, <1>5, <1>9 DEF Extents
  <2>4. \A b, c \in A : b # c => Apart(b.at, b.size, c.at, c.size)
    BY <1>1 DEF Extents
  <2>5. \A b \in A, y \in Headers : Apart(b.at, b.size, At(k, y), Sz(k, y))
    <3>1. \A b \in A : b \in away /\ b # a
      OBVIOUS
    <3>2. \A b \in A : Apart(b.at, b.size, a.at, a.size)
      BY <1>1, <3>1 DEF Extents
    <3>3. \A b \in A, y \in Headers : Apart(b.at, b.size, At(h, y), Sz(h, y))
      BY <1>1, <3>1 DEF Extents
    <3> QED
      BY <1>9, <3>2, <3>3
  <2>6. \A y, z \in Headers :
           y # z => Apart(At(k, y), Sz(k, y), At(k, z), Sz(k, z))
    <3>1. \A y \in Headers : /\ Apart(a.at, a.size, At(h, y), Sz(h, y))
                             /\ Apart(At(h, y), Sz(h, y), a.at, a.size)
      BY <1>1 DEF Extents, Apart
    <3>2. \A y, z \in Headers :
             y # z => Apart(At(h, y), Sz(h, y), At(h, z), Sz(h, z))
      BY <1>1 DEF Extents
    <3> QED
      BY <1>9, <3>1, <3>2
  <2>7. \A p \in Pages : \/ \E b \in A : In(p, b.at, b.size)
                         \/ \E y \in Headers : In(p, At(k, y), Sz(k, y))
    <3> SUFFICES ASSUME NEW p \in Pages
                 PROVE  \/ \E b \in A : In(p, b.at, b.size)
                        \/ \E y \in Headers : In(p, At(k, y), Sz(k, y))
      OBVIOUS
    <3>1. ASSUME NEW b \in away, In(p, b.at, b.size)
          PROVE  \/ \E c \in A : In(p, c.at, c.size)
                 \/ \E y \in Headers : In(p, At(k, y), Sz(k, y))
      BY <1>9, <3>1
    <3>2. ASSUME NEW y \in Headers, In(p, At(h, y), Sz(h, y))
          PROVE  \E z \in Headers : In(p, At(k, z), Sz(k, z))
      <4>1. p \in Nat
        BY Numbers
      <4>2. Sz(h, y) # 0
        BY <1>2, <3>2, <4>1 DEF In
      <4>3. y # new
        BY <1>1, <4>2 DEF Extents
      <4> QED
        BY <1>9, <3>2, <4>3
    <3> QED
      BY <1>1, <3>1, <3>2 DEF Extents
  <2> QED
    BY <2>1, <2>2, <2>3, <2>4, <2>5, <2>6, <2>7 DEF Extents
<1>11. Clean(k) /\ AwayTags(k, A)
  BY <1>1, <1>5 DEF Clean, AwayTags
<1>12. HeaderTags(k, Headers \ {new})
  <2> SUFFICES ASSUME NEW y \in Headers \ {new}, Sz(k, y) > 0
               PROVE  /\ k.heapinfo[At(k, y)] \in Headers => k.heapinfo[At(k, y)] = y
                      /\ k.heapinfo[At(k, y) + Sz(k, y) - 1] \in Headers =>
                            k.heapinfo[At(k, y) + Sz(k, y) - 1] = y
    BY DEF HeaderTags
  <2>1. At(k, y) = At(h, y) /\ Sz(k, y) = Sz(h, y)
    BY <1>9
  <2> QED
    BY <1>1, <1>5, <2>1 DEF HeaderTags
<1>13. new \in k.live /\ Sz(k, new) > 0
  BY <1>3, <1>5, <1>9
<1>14. Freeing(k, A, new)
  BY <1>8, <1>10, <1>11, <1>12, <1>13 DEF Freeing
<1> QED
  BY <1>5, <1>9, <1>14 DEF k, TakenBack

\* vregion_free: the pages are free again, and nobody else's are touched.
LEMMA FreeSound ==
    ASSUME NEW h, NEW away \in SUBSET Extent, Sound(h, away), NEW a \in away,
           NEW new \in Headers, new \notin h.live
    PROVE  /\ Sound(VregionFree(h, a.at, new), away \ {a})
           /\ VregionFree(h, a.at, new).frames <= h.frames
<1> DEFINE A == away \ {a}
           at == a.at
           size == h.heapinfo[at]
           h1 == TakeBack(h, at, size, new)
           prev == h.heapinfo[at - 1]
           next == h.heapinfo[at + size]
           withPrev == at > 0 /\ prev \in Headers
           withNext == at + size < Size /\ next \in Headers
           h2 == IF withPrev THEN Absorb(h1, prev, new, At(h1, prev)) ELSE h1
           h3 == IF withNext THEN Absorb(h2, next, new, At(h2, new)) ELSE h2
           h4 == [InsertOrderedList([h3 EXCEPT !.live = @ \ {new}], new)
                     EXCEPT !.live = @ \cup {new}]
<1>1. /\ at \in Nat /\ size \in Nat \ {0} /\ size = a.size
      /\ A \in SUBSET Extent /\ h \in HeapState /\ h.frames \in Nat
  BY ExtentTyped DEF Sound, AwayTags, HeapState
<1>2. VregionFree(h, at, new) = TagFree(h4, new)
  BY DEF VregionFree, TakeBack, At
<1>3. TakenBack(h, h1, away, a, new)
  BY <1>1, TakeBackSound
<1>4. withPrev => /\ prev \in h.live /\ Sz(h, prev) > 0
                  /\ At(h, prev) + Sz(h, prev) = at
  BY <1>1, InFront
<1>5. withNext => next \in h.live /\ Sz(h, next) > 0 /\ At(h, next) = at + size
  BY <1>1, Behind
<1> HIDE DEF h1, prev, next, size
<1>6. /\ Freeing(h1, A, new) /\ At(h1, new) = at /\ Sz(h1, new) = size
      /\ \A y \in Headers : y # new => At(h1, y) = At(h, y) /\ Sz(h1, y) = Sz(h, y)
      /\ h1.frames = h.frames
  BY <1>1, <1>3 DEF TakenBack
<1>7. \A y \in Headers : At(h, y) \in Nat /\ Sz(h, y) \in Nat
  BY <1>1, FieldsTyped, Numbers
<1>8. /\ Freeing(h2, A, new) /\ h2.frames = h.frames
      /\ At(h2, new) + Sz(h2, new) = at + size
      /\ withNext => At(h2, next) = At(h, next) /\ Sz(h2, next) = Sz(h, next)
                     /\ next # new
  <2>1. CASE withPrev
    <3>1. prev # new /\ At(h1, prev) = At(h, prev) /\ Sz(h1, prev) = Sz(h, prev)
      BY <1>4, <1>6, <2>1
    <3>2. Beside(h1, prev, new, At(h1, prev)) /\ Sz(h1, prev) > 0
      BY <1>4, <1>6, <2>1, <3>1 DEF Beside
    <3>3. Joined(h1, Absorb(h1, prev, new, At(h1, prev)), A, prev, new, At(h1, prev))
      BY <1>1, <1>6, <2>1, <3>1, <3>2, AbsorbSound
    <3>4. h2 = Absorb(h1, prev, new, At(h1, prev))
      BY <2>1
    <3> HIDE DEF h2
    <3>5. Joined(h1, h2, A, prev, new, At(h1, prev))
      BY <3>3, <3>4
    <3>6. At(h2, new) = At(h, prev) /\ Sz(h2, new) = size + Sz(h, prev)
      BY <1>6, <3>1, <3>5 DEF Joined
    <3>7. At(h2, new) + Sz(h2, new) = at + size
      BY <1>1, <1>4, <1>7, <2>1, <3>6
    <3>8. withNext => next # new /\ next # prev
      BY <1>1, <1>4, <1>5, <1>7, <2>1
    <3>9. withNext => At(h2, next) = At(h, next) /\ Sz(h2, next) = Sz(h, next)
      BY <1>6, <3>5, <3>8 DEF Joined
    <3> QED
      BY <1>6, <3>5, <3>7, <3>8, <3>9 DEF Joined
  <2>2. CASE ~withPrev
    <3>1. h2 = h1
      BY <2>2
    <3>2. withNext => next # new
      BY <1>5
    <3> QED
      BY <1>1, <1>6, <3>1, <3>2
  <2> QED
    BY <2>1, <2>2
<1> HIDE DEF h2
<1>9. Freeing(h3, A, new) /\ h3.frames = h.frames
  <2>1. CASE withNext
    <3>1. Beside(h2, next, new, At(h2, new)) /\ Sz(h2, next) > 0 /\ next # new
      BY <1>5, <1>8, <2>1 DEF Beside
    <3>2. Joined(h2, Absorb(h2, next, new, At(h2, new)), A, next, new, At(h2, new))
      BY <1>1, <1>8, <2>1, <3>1, AbsorbSound
    <3> QED
      BY <1>8, <2>1, <3>2 DEF Joined
  <2>2. CASE ~withNext
    BY <1>8, <2>2
  <2> QED
    BY <2>1, <2>2
<1> HIDE DEF h3
<1>10. Freeing(h4, A, new) /\ h4.frames = h.frames
  <2>1. SameRegions(h3, h4)
    BY <1>9, InsertNewSame DEF Freeing
  <2> HIDE DEF h4
  <2>2. Extents(h4, A) /\ AwayTags(h4, A) /\ Clean(h4)
    BY <1>9, <2>1, SameSound DEF Freeing
  <2>3. HeaderTags(h4, Headers \ {new})
    <3>1. Headers \ {new} \in SUBSET Headers
      OBVIOUS
    <3> QED
      BY <1>9, <2>1, <3>1, SameSound DEF Freeing
  <2> QED
    BY <1>9, <2>1, <2>2, <2>3 DEF Freeing, SameRegions
<1> HIDE DEF h4
<1>11. Sound(TagFree(h4, new), A) /\ TagFree(h4, new).frames <= h4.frames
  BY <1>1, <1>10, TagFreeSound
<1> QED
  BY <1>2, <1>10, <1>11

-----------------------------------------------------------------------------
(* The calls *)

\* What vregion_alloc promises: a region that was in nobody's hands is, or
\* nothing is returned, and what a failure has kept is nobody's any more.
Allocated(h, away, size, r) ==
    \/ /\ r.at = Size
       /\ \E kept \in SUBSET Extent : away \subseteq kept /\ Sound(r.heap, kept)
       /\ r.heap.frames <= h.frames
    \/ /\ r.at \in Pages
       /\ [at |-> r.at, size |-> size] \in Extent \ away
       /\ Sound(r.heap, away \cup {[at |-> r.at, size |-> size]})
       /\ r.heap.frames <= h.frames

\* A failure that has kept nothing but the extents of `kept`.
LEMMA NothingAllocated ==
    ASSUME NEW h, NEW k, NEW away, NEW size,
           NEW kept \in SUBSET Extent, away \subseteq kept, Sound(k, kept),
           k.frames <= h.frames
    PROVE  Allocated(h, away, size, NoRegion(k))
  BY DEF Allocated, NoRegion

\* The list behind a sound heap may change.
LEMMA SoundSame ==
    ASSUME NEW h, NEW away, Sound(h, away), NEW k, SameRegions(h, k)
    PROVE  Sound(k, away) /\ k.frames = h.frames
<1>1. Headers \in SUBSET Headers
  OBVIOUS
<1> QED
  BY <1>1, SameSound DEF Sound, SameRegions

\* vregion_alloc.
LEMMA AllocSound ==
    ASSUME NEW h, NEW away \in SUBSET Extent, Sound(h, away),
           NEW size \in Nat \ {0}
    PROVE  Allocated(h, away, size, VregionAlloc(h, size))
<1> DEFINE steps == StepsTo(h, size)
           x == Walk(h)[Min(steps)]
           at == h.header[x].region
           left == h.header[x].size - size
           k1 == RemoveOrderedList(h, x)
           tagged == SetTags(k1, at + size - 1, 0, at, size)
           t == tagged.heap
           cut == [t EXCEPT !.header[x].region = at + size,
                            !.header[x].size = left]
           k2 == InsertOrderedList(cut, x)
           rest == SetTags(k2, at + size, x, at + size + left - 1, x)
           a == [at |-> at, size |-> size]
           more == away \cup {a}
<1>1. h \in HeapState /\ h.frames \in Nat
  BY DEF Sound, HeapState
<1>5. ASSUME NEW kind \in Faults
      PROVE  Allocated(h, away, size, NoRegion(Fault(h, kind)))
  <2>1. Sound(Fault(h, kind), away) /\ Fault(h, kind).frames = h.frames
    BY <1>1, FaultSame, SoundSame
  <2>2. Fault(h, kind).frames <= h.frames
    BY <1>1, <2>1
  <2> QED
    BY <2>1, <2>2, NothingAllocated
<1>2. CASE h.headers = NULL \/ steps = {}
  <2>1. VregionAlloc(h, size) = NoRegion(Fault(h, "stopped"))
    BY <1>2, Zenon DEF VregionAlloc
  <2> QED
    BY <2>1, <1>5, FaultKinds
<1>3. CASE ~(h.headers = NULL \/ steps = {}) /\ x = NULL
  <2>1. VregionAlloc(h, size) = NoRegion(h)
    BY <1>3, Zenon DEF VregionAlloc
  <2>2. h.frames <= h.frames
    BY <1>1
  <2> QED
    BY <2>1, <2>2, NothingAllocated
<1>6. CASE ~(h.headers = NULL \/ steps = {}) /\ x # NULL /\ x \notin h.live
  <2>1. VregionAlloc(h, size) = NoRegion(Fault(h, "freed"))
    BY <1>6, Zenon DEF VregionAlloc
  <2> QED
    BY <2>1, <1>5, FaultKinds
<1>4. CASE ~(h.headers = NULL \/ steps = {}) /\ x # NULL /\ x \in h.live
  <2>1. x \in Headers /\ h.header[x].size >= size
    <3>1. Min(steps) \in 0..Cardinality(Headers) /\ Min(steps) \in steps
      BY <1>4, LeastSteps
    <3>2. x \in Link
      BY <1>1, <3>1, WalkTyped
    <3>3. ~(h.header[x].size < size)
      BY <1>4, <3>1 DEF StepsTo, Passes
    <3>4. x \in Headers
      BY <1>4, <3>2, Numbers
    <3> HIDE DEF x
    <3>5. h.header[x].size \in Nat
      BY <1>1, <3>4, FieldsTyped, Numbers DEF Sz
    <3> QED
      BY <3>3, <3>4, <3>5
  <2>2. VregionAlloc(h, size) =
           IF ~tagged.ok THEN NoRegion(t)
           ELSE IF left = 0 THEN [heap |-> cut, at |-> at]
           ELSE IF ~rest.ok THEN NoRegion(rest.heap)
           ELSE [heap |-> rest.heap, at |-> at]
    BY <1>4, Zenon DEF VregionAlloc
  <2> HIDE DEF x
  <2>3. at = At(h, x) /\ left = Sz(h, x) - size
    BY DEF At, Sz
  <2>4. /\ at \in Nat /\ Sz(h, x) \in Nat /\ left \in Nat /\ Size \in Nat
        /\ Sz(h, x) = size + left /\ at + Sz(h, x) <= Size
    BY <1>1, <2>1, <2>3, FieldsTyped, Numbers DEF Sound, Extents, Sz
  <2> HIDE DEF at, left
  <2>5. Sound(k1, away) /\ k1.frames = h.frames /\ k1.frames \in Nat
    BY <1>1, <2>1, RemoveSame, SoundSame
  <2>6. At(k1, x) = at /\ Sz(k1, x) = size + left
    BY <1>1, <2>1, <2>3, <2>4, RemoveSame DEF SameRegions
  <2> HIDE DEF k1
  <2> DEFINE p1 == at + size - 1
  <2>7. /\ p1 \in Nat /\ p1 \in Pages /\ at \in Pages
        /\ In(p1, at, size + left) /\ In(at, at, size + left)
        /\ size \in 0..Size /\ 0 \in 0..Size
    <3>1. p1 \in Nat /\ p1 < Size /\ at < Size
      BY <2>4
    <3> QED
      BY <2>4, <3>1, Numbers DEF In
  <2>8. /\ Tagged(k1, t)
        /\ \A p \in Pages : p \notin {p1, at} => t.heapinfo[p] = k1.heapinfo[p]
        /\ tagged.ok => /\ t.heapinfo[at] = size
                        /\ p1 # at => t.heapinfo[p1] = 0
        /\ t.heapinfo[p1] \in {0, size} \/ t.heapinfo[p1] \notin Headers
        /\ t.heapinfo[at] \in {0, size, k1.heapinfo[at]}
    <3>1. k1 \in HeapState /\ Clean(k1)
      BY <2>5 DEF Sound
    <3>2. 0 \in Headers \cup (0..Size) /\ size \in Headers \cup (0..Size)
      BY <2>7
    <3> HIDE DEF p1
    <3>3. tagged = SetTags(k1, p1, 0, at, size)
      BY DEF p1
    <3> QED
      BY <2>7, <3>1, <3>2, <3>3, SetTagsTags
  <2> HIDE DEF tagged
  <2>9. Sound(t, away) /\ t.frames <= h.frames
    <3>1. /\ k1 \in HeapState /\ Extents(k1, away) /\ AwayTags(k1, away)
          /\ HeaderTags(k1, Headers)
      BY <2>5 DEF Sound
    <3>2. HeaderTags(k1, Headers \ {x})
      BY <3>1 DEF HeaderTags
    <3>3. At(t, x) = at /\ Sz(t, x) = size + left
      BY <2>6, <2>8 DEF Tagged, At, Sz
    <3>4. Sz(k1, x) > 0
      BY <2>4, <2>6
    <3>5. /\ k1.heapinfo[at] \in Headers => k1.heapinfo[at] = x
          /\ k1.heapinfo[at + (size + left) - 1] \in Headers =>
                k1.heapinfo[at + (size + left) - 1] = x
      BY <2>1, <2>6, <3>1, <3>4 DEF HeaderTags
    <3>6. at + (size + left) - 1 \in Pages
      <4>1. at + (size + left) - 1 \in Nat /\ at + (size + left) - 1 < Size
        BY <2>4
      <4> QED
        BY <4>1, Numbers
    <3>8. \A p \in {p1, at} : t.heapinfo[p] \in Headers => t.heapinfo[p] = x
      BY <2>7, <2>8, <3>5, Numbers
    <3>9. HeaderTags(t, {x})
      <4>1. /\ t.heapinfo[at] \in Headers => t.heapinfo[at] = x
            /\ t.heapinfo[at + (size + left) - 1] \in Headers =>
                  t.heapinfo[at + (size + left) - 1] = x
        BY <2>8, <3>5, <3>6, <3>8
      <4> QED
        BY <3>3, <4>1 DEF HeaderTags
    <3>10. In(p1, At(k1, x), Sz(k1, x)) /\ In(at, At(k1, x), Sz(k1, x))
      BY <2>6, <2>7
    <3>11. Sound(t, away)
      <4> HIDE DEF p1, t
      <4> QED
        BY <2>1, <2>7, <2>8, <3>1, <3>2, <3>4, <3>9, <3>10, RetagSound
    <3> QED
      BY <2>5, <2>8, <3>11 DEF Tagged
  <2>10. CASE ~tagged.ok
    BY <2>2, <2>9, <2>10, NothingAllocated
  <2>11. ASSUME tagged.ok
         PROVE  /\ a \in Extent \ away /\ cut \in HeapState /\ Clean(cut)
                /\ Extents(cut, more) /\ AwayTags(cut, more)
                /\ HeaderTags(cut, Headers \ {x})
                /\ cut.heapinfo[at + (size + left) - 1] \in Headers =>
                      cut.heapinfo[at + (size + left) - 1] = x
                /\ At(cut, x) = at + size /\ Sz(cut, x) = left
                /\ cut.frames <= h.frames
    <3>1. /\ t \in HeapState /\ Clean(t) /\ Extents(t, away)
          /\ AwayTags(t, away) /\ HeaderTags(t, Headers)
      BY <2>9 DEF Sound
    <3>2. At(t, x) = at /\ Sz(t, x) = size + left
      BY <2>6, <2>8 DEF Tagged, At, Sz
    <3>3. size <= Sz(t, x) /\ Sz(t, x) - size = left
      BY <2>4, <3>2
    <3> HIDE DEF t
    <3> DEFINE b == [at |-> At(t, x), size |-> size]
               c == Cut(t, x, size)
    <3>4. /\ b \in Extent /\ b \notin away /\ c \in HeapState
          /\ Extents(c, away \cup {b})
          /\ At(c, x) = At(t, x) + size /\ Sz(c, x) = Sz(t, x) - size
          /\ \A y \in Headers : y # x => At(c, y) = At(t, y) /\ Sz(c, y) = Sz(t, y)
          /\ c.heapinfo = t.heapinfo /\ c.mapped = t.mapped
          /\ c.frames = t.frames /\ c.live = t.live
      <4>1. CutOff(t, Cut(t, x, size), away, x, size)
        BY <2>1, <3>1, <3>3, CutSound
      <4> QED
        BY <4>1 DEF CutOff
    <3>5. b = a /\ c = cut
      BY <3>2, <3>3 DEF Cut
    <3> HIDE DEF b, c
    <3>6. Clean(cut)
      BY <3>1, <3>4, <3>5 DEF Clean
    <3>7. AwayTags(cut, more)
      <4>1. a.at = at /\ a.size = size
        OBVIOUS
      <4>2. size > 1 => p1 # at
        BY <2>4
      <4>3. t.heapinfo[at] = size /\ (size > 1 => t.heapinfo[at + size - 1] = 0)
        BY <2>8, <2>11, <4>2 DEF t
      <4> HIDE DEF a
      <4> QED
        BY <3>1, <3>4, <3>5, <4>1, <4>3 DEF AwayTags
    <3>8. HeaderTags(cut, Headers \ {x})
      <4> SUFFICES ASSUME NEW y \in Headers \ {x}, Sz(cut, y) > 0
                   PROVE  /\ cut.heapinfo[At(cut, y)] \in Headers =>
                                cut.heapinfo[At(cut, y)] = y
                          /\ cut.heapinfo[At(cut, y) + Sz(cut, y) - 1] \in Headers =>
                                cut.heapinfo[At(cut, y) + Sz(cut, y) - 1] = y
        BY DEF HeaderTags
      <4>1. At(cut, y) = At(t, y) /\ Sz(cut, y) = Sz(t, y)
        BY <3>4, <3>5
      <4> QED
        BY <3>1, <3>4, <3>5, <4>1 DEF HeaderTags
    <3>9. cut.heapinfo[at + (size + left) - 1] \in Headers =>
             cut.heapinfo[at + (size + left) - 1] = x
      <4>1. Sz(t, x) > 0
        BY <2>4, <3>2
      <4> QED
        BY <2>1, <3>1, <3>2, <3>4, <3>5, <4>1 DEF HeaderTags
    <3> QED
      BY <2>9, <3>2, <3>3, <3>4, <3>5, <3>6, <3>7, <3>8, <3>9 DEF t
  <2>12. a.at = at /\ a.size = size
    OBVIOUS
  <2> HIDE DEF cut, t
  <2>13. CASE tagged.ok /\ left = 0
    <3>1. VregionAlloc(h, size) = [heap |-> cut, at |-> at]
      BY <2>2, <2>13
    <3>2. HeaderTags(cut, Headers)
      BY <2>11, <2>13 DEF HeaderTags
    <3>3. Sound(cut, more)
      BY <2>11, <2>13, <3>2 DEF Sound
    <3> QED
      BY <2>7, <2>11, <2>13, <3>1, <3>3 DEF Allocated
  <2>14. CASE tagged.ok /\ left # 0
    <3> DEFINE first == at + size
               last == at + size + left - 1
               g == rest.heap
    <3>1. more \in SUBSET Extent /\ away \subseteq more
      BY <2>11, <2>14
    <3>2. /\ k2 \in HeapState /\ Extents(k2, more) /\ AwayTags(k2, more)
          /\ HeaderTags(k2, Headers \ {x}) /\ Clean(k2)
          /\ At(k2, x) = first /\ Sz(k2, x) = left
          /\ k2.heapinfo = cut.heapinfo /\ k2.frames = cut.frames
      <4>1. SameRegions(cut, k2)
        BY <2>1, <2>11, <2>14, InsertSame
      <4>2. Headers \ {x} \in SUBSET Headers
        OBVIOUS
      <4> HIDE DEF k2
      <4>3. HeaderTags(k2, Headers \ {x})
        BY <2>11, <2>14, <4>1, <4>2, SameSound
      <4>4. Extents(k2, more) /\ AwayTags(k2, more) /\ Clean(k2)
        <5> HIDE DEF more
        <5> QED
          BY <2>11, <2>14, <4>1, <4>2, SameSound
      <4> QED
        BY <2>1, <2>11, <2>14, <4>1, <4>3, <4>4 DEF SameRegions
    <3> HIDE DEF k2, more
    <3>3. /\ first \in Pages /\ last \in Pages
          /\ In(first, first, left) /\ In(last, first, left)
          /\ last = at + (size + left) - 1 /\ last = first + left - 1
      <4>1. /\ first \in Nat /\ first < Size /\ last \in Nat /\ last < Size
            /\ last = at + (size + left) - 1 /\ last = first + left - 1
        BY <2>4, <2>14
      <4> QED
        BY <2>4, <2>14, <4>1, Numbers DEF In
    <3>4. /\ Tagged(k2, g)
          /\ \A p \in Pages : p \notin {first, last} => g.heapinfo[p] = k2.heapinfo[p]
          /\ g.heapinfo[first] = x \/ g.heapinfo[first] \notin Headers
          /\ g.heapinfo[last] \in {x, k2.heapinfo[last]}
      <4> HIDE DEF first, last
      <4>1. x \in Headers \cup (0..Size)
        BY <2>1
      <4>2. rest = SetTags(k2, first, x, last, x)
        BY DEF first, last
      <4> HIDE DEF rest
      <4>3. LET r == SetTags(k2, first, x, last, x)
                tag(p) == r.heap.heapinfo[p]
            IN  /\ Tagged(k2, r.heap)
                /\ \A p \in Pages : p \notin {first, last} => tag(p) = k2.heapinfo[p]
                /\ tag(first) \in {x, x} \/ tag(first) \notin Headers
                /\ tag(last) \in {x, x, k2.heapinfo[last]}
        BY <3>2, <3>3, <4>1, SetTagsTags
      <4> QED
        BY <4>2, <4>3
    <3> HIDE DEF rest
    <3>5. HeaderTags(g, {x})
      <4>1. At(g, x) = first /\ Sz(g, x) = left
        BY <3>2, <3>4 DEF Tagged, At, Sz
      <4>2. g.heapinfo[first] \in Headers => g.heapinfo[first] = x
        BY <3>4
      <4>3. g.heapinfo[first + left - 1] \in Headers => g.heapinfo[first + left - 1] = x
        BY <2>11, <2>14, <3>2, <3>3, <3>4
      <4> QED
        BY <4>1, <4>2, <4>3 DEF HeaderTags
    <3>6. Sound(g, more)
      <4>1. Sz(k2, x) > 0
        BY <2>4, <2>14, <3>2
      <4>2. In(first, At(k2, x), Sz(k2, x)) /\ In(last, At(k2, x), Sz(k2, x))
        BY <3>2, <3>3
      <4> HIDE DEF first, last, g
      <4> QED
        BY <2>1, <3>1, <3>2, <3>3, <3>4, <3>5, <4>1, <4>2, RetagSound
    <3>7. g.frames <= h.frames
      BY <1>1, <2>11, <2>14, <3>2, <3>4 DEF Tagged, HeapState
    <3>8. \/ VregionAlloc(h, size) = NoRegion(g)
          \/ VregionAlloc(h, size) = [heap |-> g, at |-> at]
      BY <2>2, <2>14
    <3> HIDE DEF g
    <3>9. Allocated(h, away, size, NoRegion(g))
      BY <3>1, <3>6, <3>7, NothingAllocated
    <3>10. Allocated(h, away, size, [heap |-> g, at |-> at])
      BY <2>7, <2>11, <2>14, <3>6, <3>7 DEF Allocated, more
    <3> QED
      BY <3>8, <3>9, <3>10
  <2> QED
    BY <2>10, <2>13, <2>14
<1> QED
  BY <1>2, <1>3, <1>4, <1>6

-----------------------------------------------------------------------------
(* The invariant *)

\* The pages that the regions of vmalloc have memory for.
MemPages(R) ==
    {p \in Pages : \E r \in R : ~r.io /\ In(p, r.at, r.size)}

\* Some extents are away; every caller's region is one of them, no two callers
\* have the same, and the memory behind regions is none that is left.
VInv ==
    /\ \E away \in SUBSET Extent :
          /\ Sound(heap, away)
          /\ \A r \in regions : [at |-> r.at, size |-> r.size] \in away
    /\ regions \subseteq Region
    /\ \A r, s \in regions : r # s => r.at # s.at
    /\ heap.frames + Cardinality(MemPages(regions)) <= Frames

\* A region's extent, field by field.
LEMMA RegionTyped ==
    ASSUME NEW r \in Region
    PROVE  /\ r.at \in Pages /\ r.at \in Nat /\ r.size \in Nat \ {0}
           /\ r.size \in 1..Size /\ r.io \in BOOLEAN
           /\ [at |-> r.at, size |-> r.size] \in Extent
<1>1. r.at \in Pages /\ r.size \in 1..Size /\ r.io \in BOOLEAN
  BY DEF Region
<1>2. r.at \in Nat
  BY <1>1, Numbers
<1> QED
  BY <1>1, <1>2 DEF Extent

\* The pages with memory are finitely many.
LEMMA MemFinite ==
    ASSUME NEW R
    PROVE  IsFiniteSet(MemPages(R)) /\ Cardinality(MemPages(R)) \in Nat
<1>1. Pages = 0..(Size - 1) /\ Size - 1 \in Int /\ 0 \in Int
  BY Numbers DEF Pages
<1>2. IsFiniteSet(0..(Size - 1))
  BY <1>1, FS_Interval
<1>3. MemPages(R) \in SUBSET Pages
  BY DEF MemPages
<1>4. IsFiniteSet(Pages)
  BY <1>1, <1>2
<1>5. IsFiniteSet(MemPages(R))
  BY <1>3, <1>4, FS_Subset
<1> QED
  BY <1>5, FS_CardinalityType

\* n pages in a row are n pages.
LEMMA RowOfPages ==
    ASSUME NEW a \in Nat, NEW n \in Nat \ {0}
    PROVE  IsFiniteSet(a..(a + n - 1)) /\ Cardinality(a..(a + n - 1)) = n
<1> DEFINE b == a + n - 1
<1>1. a \in Int /\ b \in Int /\ ~(a > b) /\ b - a + 1 = n
  OBVIOUS
<1> HIDE DEF b
<1>2. IsFiniteSet(a..b) /\ Cardinality(a..b) = IF a > b THEN 0 ELSE b - a + 1
  BY <1>1, FS_Interval
<1> QED
  BY <1>1, <1>2 DEF b

\* A region of vmalloc brings as many pages with it as it is long.
LEMMA MemAdded ==
    ASSUME NEW R, NEW r \in Region
    PROVE  /\ Cardinality(MemPages(R \cup {r})) <= Cardinality(MemPages(R)) + r.size
           /\ r.io => MemPages(R \cup {r}) = MemPages(R)
<1> DEFINE I == r.at..(r.at + r.size - 1)
           M == MemPages(R)
           N == MemPages(R \cup {r})
<1>1. r.at \in Nat /\ r.size \in Nat \ {0}
  BY RegionTyped
<1>2. IsFiniteSet(I) /\ Cardinality(I) = r.size
  BY <1>1, RowOfPages
<1>3. IsFiniteSet(M) /\ Cardinality(M) \in Nat /\ IsFiniteSet(N) /\ Cardinality(N) \in Nat
  BY MemFinite
<1>4. N \in SUBSET (M \cup I)
  <2> SUFFICES ASSUME NEW p \in N, p \notin M PROVE p \in I
    OBVIOUS
  <2>1. p \in Pages /\ In(p, r.at, r.size)
    BY DEF MemPages
  <2> QED
    BY <1>1, <2>1, Numbers DEF In
<1>5. r.io => N = M
  BY DEF MemPages
<1> HIDE DEF I, M, N
<1>6. /\ IsFiniteSet(M \cup I)
      /\ Cardinality(M \cup I) = Cardinality(M) + Cardinality(I) - Cardinality(M \cap I)
  BY <1>2, <1>3, FS_Union
<1>7. IsFiniteSet(M \cap I)
  BY <1>3, FS_Subset
<1>8. Cardinality(M \cap I) \in Nat
  BY <1>7, FS_CardinalityType
<1>9. Cardinality(N) <= Cardinality(M \cup I)
  BY <1>4, <1>6, FS_Subset
<1>10. Cardinality(N) <= Cardinality(M) + r.size
  BY <1>1, <1>2, <1>3, <1>6, <1>8, <1>9
<1> QED
  BY <1>5, <1>10 DEF M, N

\* And takes them away with it, if no other region has them.
LEMMA MemRemoved ==
    ASSUME NEW R, NEW r \in R, R \subseteq Region, r.at + r.size <= Size,
           \A s \in R : s # r => Apart(s.at, s.size, r.at, r.size)
    PROVE  /\ ~r.io => Cardinality(MemPages(R \ {r})) + r.size
                          = Cardinality(MemPages(R))
           /\ Cardinality(MemPages(R \ {r})) <= Cardinality(MemPages(R))
<1> DEFINE I == r.at..(r.at + r.size - 1)
           M == MemPages(R)
           N == MemPages(R \ {r})
<1>1. r.at \in Nat /\ r.size \in Nat \ {0} /\ Size \in Nat
  BY RegionTyped, Numbers
<1>2. IsFiniteSet(I) /\ Cardinality(I) = r.size
  BY <1>1, RowOfPages
<1>3. IsFiniteSet(M) /\ Cardinality(M) \in Nat /\ IsFiniteSet(N) /\ Cardinality(N) \in Nat
  BY MemFinite
<1>4. N \in SUBSET M
  BY DEF MemPages
<1>5. Cardinality(N) <= Cardinality(M)
  <2> HIDE DEF M, N
  <2> QED
    BY <1>3, <1>4, FS_Subset
<1>6. ASSUME ~r.io
      PROVE  Cardinality(N) + r.size = Cardinality(M)
  <2>1. \A p \in I : p \in Pages /\ In(p, r.at, r.size)
    <3>1. \A p \in I : p \in Nat /\ p < Size /\ In(p, r.at, r.size)
      BY <1>1 DEF In
    <3> QED
      BY <3>1, Numbers
  <2>2. \A p \in Pages : In(p, r.at, r.size) => p \in I
    BY <1>1, Numbers DEF In
  <2>3. M = N \cup I
    <3>1. I \subseteq M
      BY <1>6, <2>1 DEF MemPages
    <3>2. M \subseteq N \cup I
      BY <2>2 DEF MemPages
    <3> QED
      BY <1>4, <3>1, <3>2
  <2>4. \A p \in N : p \notin I
    <3> SUFFICES ASSUME NEW p \in N, p \in I PROVE FALSE
      OBVIOUS
    <3>1. PICK s \in R \ {r} : In(p, s.at, s.size)
      BY DEF MemPages
    <3>2. s.at \in Nat /\ s.size \in Nat \ {0} /\ Apart(s.at, s.size, r.at, r.size)
      BY RegionTyped
    <3>3. p \in Nat /\ In(p, r.at, r.size)
      BY <2>1, Numbers
    <3> HIDE DEF I, N
    <3> QED
      BY <1>1, <3>1, <3>2, <3>3 DEF In, Apart
  <2> HIDE DEF I, M, N
  <2>5. N \cap I = {} /\ Cardinality({}) = 0
    BY <2>4, FS_EmptySet
  <2>6. Cardinality(N \cup I) = Cardinality(N) + Cardinality(I) - Cardinality(N \cap I)
    BY <1>2, <1>3, FS_Union
  <2> QED
    <3>1. Cardinality(N \cap I) = 0
      BY <2>5
    <3>2. Cardinality(M) = Cardinality(N) + r.size - 0
      BY <1>2, <2>3, <2>6, <3>1
    <3> QED
      BY <1>1, <1>3, <3>2
<1> QED
  BY <1>5, <1>6

\* Physical pages come and go without touching regions.
LEMMA FramesSound ==
    ASSUME NEW h, NEW away, Sound(h, away), NEW n \in Nat
    PROVE  LET k == [h EXCEPT !.frames = n]
           IN  /\ Sound(k, away) /\ k.frames = n
               /\ k.live = h.live /\ k.heapinfo = h.heapinfo
<1> DEFINE k == [h EXCEPT !.frames = n]
<1>1. /\ h \in HeapState /\ Clean(h) /\ Extents(h, away)
      /\ AwayTags(h, away) /\ HeaderTags(h, Headers)
  BY DEF Sound
<1>2. /\ k \in HeapState /\ k.frames = n /\ k.live = h.live
      /\ k.heapinfo = h.heapinfo /\ k.mapped = h.mapped /\ k.header = h.header
  BY <1>1 DEF HeapState
<1> HIDE DEF k
<1>3. \A y \in Headers : At(k, y) = At(h, y) /\ Sz(k, y) = Sz(h, y)
  BY <1>2 DEF At, Sz
<1>4. Clean(k) /\ AwayTags(k, away)
  BY <1>1, <1>2 DEF Clean, AwayTags
<1>5. Extents(k, away)
  BY <1>1, <1>2, <1>3 DEF Extents
<1>6. HeaderTags(k, Headers)
  BY <1>1, <1>2, <1>3 DEF HeaderTags
<1>7. Sound(k, away)
  BY <1>2, <1>4, <1>5, <1>6 DEF Sound
<1> QED
  BY <1>2, <1>7 DEF k

\* init_vheap.
LEMMA InitVInv ==
    ASSUME Init
    PROVE  VInv
<1>1. /\ regions = {} /\ heap.frames = Frames /\ Frames \in Nat
      /\ Size \in Nat \ {0} /\ First \in Headers /\ InfoSpan \in Nat \ {0}
  BY VHeapAssumption DEF Init
<1>2. 0 \in Pages /\ Size - 1 \in Pages
  <2>1. 0 \in Nat /\ 0 < Size /\ Size - 1 \in Nat /\ Size - 1 < Size
    BY <1>1
  <2> QED
    BY <2>1, Numbers
<1>3. InfoPage(0) \in Pages /\ InfoPage(Size - 1) \in Pages
  BY <1>2, InfoPageTyped
<1> DEFINE record(x) == IF x = First THEN [Unwritten EXCEPT !.size = Size] ELSE Unwritten
<1>4. \A x \in Headers : record(x) \in Header
  BY <1>1, Numbers DEF Header, Unwritten
<1>5. \A x \in Headers : heap.header[x] = record(x)
  BY DEF Init
<1>6. heap \in HeapState
  <2>1. [x \in Headers |-> record(x)] \in [Headers -> Header]
    BY <1>4
  <2>2. [p \in Pages |-> IF p \in {0, Size - 1} THEN First ELSE 0]
           \in [Pages -> Headers \cup (0..Size)]
    BY <1>1
  <2> HIDE DEF record
  <2>3. heap = [headers |-> First, header |-> [x \in Headers |-> record(x)],
                live |-> {First},
                heapinfo |-> [p \in Pages |-> IF p \in {0, Size - 1} THEN First ELSE 0],
                mapped |-> {InfoPage(0), InfoPage(Size - 1)},
                frames |-> Frames, fault |-> "none"]
    BY DEF Init, record
  <2>4. First \in Link /\ {First} \in SUBSET Headers
        /\ {InfoPage(0), InfoPage(Size - 1)} \in SUBSET Pages
    BY <1>1, <1>3, Numbers
  <2> QED
    BY <1>1, <2>1, <2>2, <2>3, <2>4 DEF HeapState, Faults
<1>7. /\ heap.live = {First} /\ heap.mapped = {InfoPage(0), InfoPage(Size - 1)}
      /\ \A p \in Pages : heap.heapinfo[p] = IF p \in {0, Size - 1} THEN First ELSE 0
  BY DEF Init
<1>8. /\ At(heap, First) = 0 /\ Sz(heap, First) = Size
      /\ \A x \in Headers : x # First => At(heap, x) = 0 /\ Sz(heap, x) = 0
  BY <1>1, <1>5 DEF At, Sz, Unwritten
<1>9. Clean(heap)
  BY <1>7, Numbers DEF Clean
<1>10. Extents(heap, {})
  <2>1. \A p \in Pages : In(p, 0, Size)
    BY Numbers DEF In
  <2> QED
    BY <1>1, <1>7, <1>8, <2>1 DEF Extents, Apart
<1>11. HeaderTags(heap, Headers)
  BY <1>1, <1>2, <1>7, <1>8 DEF HeaderTags
<1>12. Sound(heap, {})
  BY <1>6, <1>9, <1>10, <1>11 DEF Sound, AwayTags
<1>13. Cardinality(MemPages(regions)) = 0
  <2>1. MemPages({}) = {}
    BY DEF MemPages
  <2> QED
    BY <1>1, <2>1, FS_EmptySet
<1> QED
  BY <1>1, <1>12, <1>13 DEF VInv

\* A region taken from the free ones belongs to its caller.
LEMMA TakenVInv ==
    ASSUME VInv, NEW size \in Nat \ {0}, NEW io \in BOOLEAN, NEW r,
           \A away \in SUBSET Extent :
              Sound(heap, away) => Allocated(heap, away, size, r),
           r.at # Size, ~io => r.heap.frames >= size,
           heap' = IF io THEN r.heap ELSE [r.heap EXCEPT !.frames = @ - size],
           regions' = regions \cup {[at |-> r.at, size |-> size, io |-> io]}
    PROVE  VInv'
<1> DEFINE new == [at |-> r.at, size |-> size, io |-> io]
           a == [at |-> r.at, size |-> size]
<1>1. PICK away \in SUBSET Extent :
         /\ Sound(heap, away)
         /\ \A s \in regions : [at |-> s.at, size |-> s.size] \in away
  BY DEF VInv
<1>2. /\ r.at \in Pages /\ a \in Extent /\ a \notin away
      /\ Sound(r.heap, away \cup {a}) /\ r.heap.frames <= heap.frames
  BY <1>1 DEF Allocated
<1>3. /\ regions \subseteq Region /\ Frames \in Nat
      /\ \A s, u \in regions : s # u => s.at # u.at
      /\ heap.frames + Cardinality(MemPages(regions)) <= Frames
      /\ heap.frames \in Nat /\ r.heap.frames \in Nat
  BY <1>1, <1>2, VHeapAssumption DEF VInv, Sound, HeapState
<1>4. new \in Region /\ new.at = r.at /\ new.size = size /\ new.io = io
  <2>1. a.at = r.at /\ a.size = size /\ a.size \in 1..Size
    BY <1>2 DEF Extent
  <2> QED
    BY <1>2, <2>1 DEF Region
<1>5. away \cup {a} \in SUBSET Extent
  BY <1>2
<1>6. \A s \in regions : s.at # r.at
  <2> SUFFICES ASSUME NEW s \in regions, s.at = r.at PROVE FALSE
    OBVIOUS
  <2> DEFINE b == [at |-> s.at, size |-> s.size]
  <2>1. b \in away /\ b # a
    BY <1>1, <1>2
  <2>2. Apart(b.at, b.size, a.at, a.size)
    BY <1>2, <2>1 DEF Sound, Extents
  <2>3. b.at = s.at /\ b.size = s.size /\ a.at = r.at /\ a.size = size
    OBVIOUS
  <2>4. s.at \in Nat /\ s.size \in Nat \ {0}
    BY <1>3, RegionTyped
  <2> HIDE DEF a, b
  <2> QED
    BY <2>2, <2>3, <2>4 DEF Apart
<1>7. Sound(heap', away \cup {a})
  <2>1. CASE io
    BY <1>2, <2>1
  <2>2. CASE ~io
    <3> DEFINE n == r.heap.frames - size
    <3>1. n \in Nat
      BY <1>3, <2>2
    <3>2. heap' = [r.heap EXCEPT !.frames = n]
      BY <1>2, <2>2 DEF Sound, HeapState
    <3> HIDE DEF n, a
    <3> QED
      BY <1>2, <3>1, <3>2, FramesSound
  <2> QED
    BY <2>1, <2>2
<1>8. heap'.frames = IF io THEN r.heap.frames ELSE r.heap.frames - size
  BY <1>2 DEF Sound, HeapState
<1> HIDE DEF new
<1>9. regions' = regions \cup {new}
  BY DEF new
<1>10. heap'.frames + Cardinality(MemPages(regions')) <= Frames
  <2>1. /\ Cardinality(MemPages(regions')) <= Cardinality(MemPages(regions)) + size
        /\ io => MemPages(regions') = MemPages(regions)
    BY <1>4, <1>9, MemAdded
  <2>2. Cardinality(MemPages(regions')) \in Nat /\ Cardinality(MemPages(regions)) \in Nat
    BY MemFinite
  <2>3. CASE io
    BY <1>2, <1>3, <1>8, <2>1, <2>2, <2>3
  <2>4. CASE ~io
    <3>1. heap'.frames = r.heap.frames - size
      BY <1>8, <2>4
    <3> QED
      BY <1>2, <1>3, <2>1, <2>2, <3>1
  <2> QED
    BY <2>3, <2>4
<1>11. \A s \in regions' : [at |-> s.at, size |-> s.size] \in away \cup {a}
  BY <1>1, <1>4, <1>9
<1>12. regions' \subseteq Region /\ \A s, u \in regions' : s # u => s.at # u.at
  BY <1>3, <1>4, <1>6, <1>9
<1>13. \E away2 \in SUBSET Extent :
          /\ Sound(heap', away2)
          /\ \A s \in regions' : [at |-> s.at, size |-> s.size] \in away2
  <2> HIDE DEF a
  <2> QED
    BY <1>5, <1>7, <1>11
<1> QED
  <2>1. heap'.frames + Cardinality(MemPages(regions)') <= Frames
    BY <1>10 DEF MemPages
  <2> QED
    BY <1>12, <1>13, <2>1 DEF VInv, Sound, Clean, Extents, AwayTags, HeaderTags, At, Sz, InfoPage

\* A call that returns nothing has at most kept pages.
LEMMA RefusedVInv ==
    ASSUME VInv, NEW size \in Nat \ {0}, NEW r,
           \A away \in SUBSET Extent :
              Sound(heap, away) => Allocated(heap, away, size, r),
           \/ r.at = Size /\ heap' = r.heap
           \/ heap' = [r.heap EXCEPT !.frames = 0],
           regions' = regions
    PROVE  VInv'
<1>1. PICK away \in SUBSET Extent :
         /\ Sound(heap, away)
         /\ \A s \in regions : [at |-> s.at, size |-> s.size] \in away
  BY DEF VInv
<1>2. PICK kept \in SUBSET Extent : away \subseteq kept /\ Sound(r.heap, kept)
  <2>1. Allocated(heap, away, size, r)
    BY <1>1
  <2>2. CASE \E kept \in SUBSET Extent : away \subseteq kept /\ Sound(r.heap, kept)
    BY <2>2
  <2> DEFINE a == [at |-> r.at, size |-> size]
  <2>3. CASE a \in Extent /\ Sound(r.heap, away \cup {a})
    <3> HIDE DEF a
    <3>1. away \cup {a} \in SUBSET Extent /\ away \subseteq away \cup {a}
      BY <2>3
    <3> QED
      BY <2>3, <3>1
  <2> QED
    BY <2>1, <2>2, <2>3 DEF Allocated
<1>3. r.heap.frames <= heap.frames
  BY <1>1 DEF Allocated
<1>4. heap.frames \in Nat /\ r.heap.frames \in Nat
  BY <1>1, <1>2 DEF Sound, HeapState
<1>5. Sound(heap', kept) /\ heap'.frames \in Nat /\ heap'.frames <= heap.frames
  <2>1. CASE heap' = r.heap
    BY <1>2, <1>3, <1>4, <2>1
  <2>2. CASE heap' = [r.heap EXCEPT !.frames = 0]
    <3>1. Sound(heap', kept) /\ heap'.frames = 0
      BY <1>2, <2>2, FramesSound
    <3> QED
      BY <1>4, <3>1
  <2> QED
    BY <2>1, <2>2
<1>6. /\ regions \subseteq Region /\ \A s, u \in regions : s # u => s.at # u.at
      /\ heap.frames + Cardinality(MemPages(regions)) <= Frames
  BY DEF VInv
<1>7. heap'.frames + Cardinality(MemPages(regions)) <= Frames
  <2>1. Cardinality(MemPages(regions)) \in Nat /\ Frames \in Nat
    BY MemFinite, VHeapAssumption
  <2> QED
    BY <1>4, <1>5, <1>6, <2>1
<1> QED
  BY <1>1, <1>2, <1>5, <1>6, <1>7 DEF VInv, Sound, Clean, Extents, AwayTags, HeaderTags, At, Sz, InfoPage, MemPages

\* A caller's region goes back, and with it the pages behind it.
LEMMA FreedVInv ==
    ASSUME VInv, NEW region \in regions, NEW h,
           h = IF region.io THEN heap
               ELSE [heap EXCEPT !.frames = @ + heap.heapinfo[region.at]],
           FreeRegion(h, region.at),
           regions' = regions \ {region}
    PROVE  VInv'
<1> DEFINE a == [at |-> region.at, size |-> region.size]
           size == region.size
<1>1. PICK away \in SUBSET Extent :
         /\ Sound(heap, away)
         /\ \A s \in regions : [at |-> s.at, size |-> s.size] \in away
  BY DEF VInv
<1>2. /\ regions \subseteq Region /\ Frames \in Nat
      /\ \A s, u \in regions : s # u => s.at # u.at
      /\ heap.frames + Cardinality(MemPages(regions)) <= Frames
      /\ heap.frames \in Nat /\ heap \in HeapState
  BY <1>1, VHeapAssumption DEF VInv, Sound, HeapState
<1>3. /\ region.at \in Nat /\ size \in Nat \ {0} /\ region.io \in BOOLEAN
      /\ a \in away /\ a.at = region.at /\ a.size = size
  BY <1>1, <1>2, RegionTyped
<1> HIDE DEF a
<1>4. heap.heapinfo[region.at] = size
  BY <1>1, <1>3 DEF Sound, AwayTags
<1>5. /\ Sound(h, away) /\ h.live = heap.live
      /\ h.frames = IF region.io THEN heap.frames ELSE heap.frames + size
  <2>1. CASE region.io
    BY <1>1, <2>1
  <2>2. CASE ~region.io
    <3> DEFINE n == heap.frames + size
    <3>1. n \in Nat
      BY <1>2, <1>3
    <3>2. h = [heap EXCEPT !.frames = n]
      BY <1>2, <1>4, <2>2 DEF HeapState
    <3> HIDE DEF n
    <3> DEFINE k == [heap EXCEPT !.frames = n]
    <3>4. Sound(k, away)
      BY <1>1, <3>1, FramesSound
    <3>5. k.frames = n /\ k.live = heap.live
      BY <1>2 DEF HeapState
    <3>6. h = k
      BY <3>2
    <3> HIDE DEF k
    <3>3. Sound(h, away) /\ h.frames = n /\ h.live = heap.live
      BY <3>4, <3>5, <3>6
    <3> QED
      BY <2>2, <3>3 DEF n
  <2> QED
    BY <2>1, <2>2
<1>6. h \in HeapState /\ h.frames \in Nat
  BY <1>5 DEF Sound, HeapState
<1>7. \E left \in SUBSET away :
         /\ Sound(heap', left) /\ heap'.frames \in Nat /\ heap'.frames <= h.frames
         /\ away \ {a} \subseteq left
  <2>1. ASSUME NEW new \in Headers \ h.live, heap' = VregionFree(h, region.at, new)
        PROVE  Sound(heap', away \ {a}) /\ heap'.frames <= h.frames
    BY <1>3, <1>5, <2>1, FreeSound
  <2>2. ASSUME NEW new \in Headers \ h.live, heap' = VregionFree(h, region.at, new)
        PROVE  /\ Sound(heap', away \ {a}) /\ heap'.frames <= h.frames
               /\ heap'.frames \in Nat
    BY <2>1, <2>2 DEF Sound, HeapState
  <2>3. ASSUME heap' = Fault(h, "stopped")
        PROVE  Sound(heap', away) /\ heap'.frames <= h.frames /\ heap'.frames \in Nat
    <3>1. SameRegions(h, Fault(h, "stopped"))
      BY <1>6, FaultSame, FaultKinds
    <3>2. Fault(h, "stopped") \in HeapState
      BY <3>1 DEF SameRegions
    <3>3. Sound(Fault(h, "stopped"), away) /\ Fault(h, "stopped").frames = h.frames
      BY <1>5, <3>1, <3>2, SoundSame DEF SameRegions
    <3> QED
      BY <1>6, <2>3, <3>3
  <2> QED
    BY <2>2, <2>3 DEF FreeRegion
<1>8. PICK left \in SUBSET away :
         /\ Sound(heap', left) /\ heap'.frames \in Nat /\ heap'.frames <= h.frames
         /\ away \ {a} \subseteq left
  BY <1>7
<1>9. \A s \in regions' : [at |-> s.at, size |-> s.size] \in left
  <2> SUFFICES ASSUME NEW s \in regions \ {region}
               PROVE  [at |-> s.at, size |-> s.size] \in left
    OBVIOUS
  <2>1. s.at # region.at /\ [at |-> s.at, size |-> s.size] \in away
    BY <1>1, <1>2
  <2>2. [at |-> s.at, size |-> s.size] # a
    BY <1>3, <2>1
  <2> QED
    BY <1>8, <2>1, <2>2
<1>10. left \in SUBSET Extent
  BY <1>8
<1>11. \A s \in regions : s # region => Apart(s.at, s.size, region.at, size)
  <2> SUFFICES ASSUME NEW s \in regions, s # region
               PROVE  Apart(s.at, s.size, region.at, size)
    OBVIOUS
  <2> DEFINE b == [at |-> s.at, size |-> s.size]
  <2>1. b \in away /\ b.at = s.at /\ b.size = s.size /\ s.at # region.at
    BY <1>1, <1>2
  <2> HIDE DEF b
  <2>2. b # a
    BY <1>3, <2>1
  <2>3. Apart(b.at, b.size, a.at, a.size)
    BY <1>1, <1>3, <2>1, <2>2 DEF Sound, Extents
  <2> QED
    BY <1>3, <2>1, <2>3
<1>12. region.at + size <= Size
  BY <1>1, <1>3 DEF Sound, Extents
<1>13. heap'.frames + Cardinality(MemPages(regions \ {region})) <= Frames
  <2>1. /\ ~region.io => Cardinality(MemPages(regions \ {region})) + size
                            = Cardinality(MemPages(regions))
        /\ Cardinality(MemPages(regions \ {region})) <= Cardinality(MemPages(regions))
    BY <1>2, <1>11, <1>12, MemRemoved
  <2>2. /\ Cardinality(MemPages(regions \ {region})) \in Nat
        /\ Cardinality(MemPages(regions)) \in Nat
    BY MemFinite
  <2>3. CASE region.io
    <3>1. h.frames = heap.frames
      BY <1>5, <2>3
    <3> QED
      BY <1>2, <1>8, <2>1, <2>2, <3>1
  <2>4. CASE ~region.io
    <3>1. h.frames = heap.frames + size
      BY <1>5, <2>4
    <3> QED
      BY <1>2, <1>3, <1>8, <2>1, <2>2, <2>4, <3>1
  <2> QED
    BY <2>3, <2>4
<1>14. regions' \subseteq Region /\ \A s, u \in regions' : s # u => s.at # u.at
  BY <1>2
<1>15. heap'.frames + Cardinality(MemPages(regions)') <= Frames
  BY <1>13 DEF MemPages
<1> QED
  BY <1>8, <1>9, <1>10, <1>14, <1>15
     DEF VInv, Sound, Clean, Extents, AwayTags, HeaderTags, At, Sz, InfoPage

\* vmalloc, vfree, map_io and unmap_io keep the invariant.
LEMMA NextVInv ==
    ASSUME VInv, [Next]_vars
    PROVE  VInv'
<1>1. ASSUME NEW size \in Nat \ {0}
      PROVE  \A away \in SUBSET Extent :
                Sound(heap, away) =>
                   Allocated(heap, away, size, VregionAlloc(heap, size))
  BY AllocSound
<1>2. ASSUME NEW size \in Requests, Vmalloc(size)
      PROVE  VInv'
  <2> DEFINE r == VregionAlloc(heap, size)
  <2>1. size \in Nat \ {0}
    BY VHeapAssumption
  <2>2. \A away \in SUBSET Extent :
           Sound(heap, away) => Allocated(heap, away, size, r)
    BY <1>1, <2>1
  <2>3. CASE r.at = Size /\ heap' = r.heap /\ UNCHANGED regions
    <3> HIDE DEF r
    <3> QED
      BY <2>1, <2>2, <2>3, RefusedVInv
  <2>4. CASE /\ heap' = [r.heap EXCEPT !.frames = 0]
             /\ UNCHANGED regions
    <3> HIDE DEF r
    <3> QED
      BY <2>1, <2>2, <2>4, RefusedVInv
  <2>5. CASE /\ r.at # Size
             /\ r.heap.frames >= size
             /\ heap' = [r.heap EXCEPT !.frames = @ - size]
             /\ regions' = regions \cup {[at |-> r.at, size |-> size, io |-> FALSE]}
    <3> HIDE DEF r
    <3> DEFINE io == FALSE
    <3>1. /\ io \in BOOLEAN /\ (~io => r.heap.frames >= size)
          /\ heap' = IF io THEN r.heap ELSE [r.heap EXCEPT !.frames = @ - size]
          /\ regions' = regions \cup {[at |-> r.at, size |-> size, io |-> io]}
      BY <2>5
    <3> HIDE DEF io
    <3> QED
      BY <2>1, <2>2, <2>5, <3>1, TakenVInv
  <2> QED
    BY <1>2, <2>3, <2>4, <2>5, Zenon DEF Vmalloc
<1>3. ASSUME NEW size \in Requests, MapIo(size)
      PROVE  VInv'
  <2> DEFINE r == VregionAlloc(heap, size)
  <2>1. size \in Nat \ {0}
    BY VHeapAssumption
  <2>2. \A away \in SUBSET Extent :
           Sound(heap, away) => Allocated(heap, away, size, r)
    BY <1>1, <2>1
  <2>3. /\ heap' = r.heap
        /\ regions' = IF r.at = Size THEN regions
                      ELSE regions \cup {[at |-> r.at, size |-> size, io |-> TRUE]}
    BY <1>3, Zenon DEF MapIo
  <2> HIDE DEF r
  <2>4. CASE r.at = Size
    BY <2>1, <2>2, <2>3, <2>4, RefusedVInv
  <2>5. CASE r.at # Size
    <3> DEFINE io == TRUE
    <3>1. /\ io \in BOOLEAN /\ (~io => r.heap.frames >= size)
          /\ heap' = IF io THEN r.heap ELSE [r.heap EXCEPT !.frames = @ - size]
          /\ regions' = regions \cup {[at |-> r.at, size |-> size, io |-> io]}
      BY <2>3, <2>5
    <3> HIDE DEF io
    <3> QED
      BY <2>1, <2>2, <2>5, <3>1, TakenVInv
  <2> QED
    BY <2>4, <2>5
<1>4. ASSUME NEW region \in regions, Vfree(region)
      PROVE  VInv'
  <2> DEFINE h == [heap EXCEPT !.frames = @ + heap.heapinfo[region.at]]
  <2>1. FreeRegion(h, region.at) /\ regions' = regions \ {region} /\ ~region.io
    BY <1>4 DEF Vfree
  <2>2. h = IF region.io THEN heap ELSE h
    BY <2>1
  <2> QED
    BY <2>1, <2>2, FreedVInv
<1>5. ASSUME NEW region \in regions, UnmapIo(region)
      PROVE  VInv'
  <2>1. FreeRegion(heap, region.at) /\ regions' = regions \ {region} /\ region.io
    BY <1>5 DEF UnmapIo
  <2> DEFINE h == heap
  <2>2. h = IF region.io THEN heap
            ELSE [heap EXCEPT !.frames = @ + heap.heapinfo[region.at]]
    BY <2>1
  <2> QED
    BY <2>1, <2>2, FreedVInv
<1>6. CASE UNCHANGED vars
  BY <1>6 DEF vars, VInv, Sound, Clean, Extents, AwayTags, HeaderTags, At, Sz,
              InfoPage, MemPages
<1> QED
  BY <1>2, <1>3, <1>4, <1>5, <1>6 DEF Next

\* The invariant holds in every state.
LEMMA VInvAlways == Spec => []VInv
<1>1. Init => VInv
  BY InitVInv
<1>2. VInv /\ [Next]_vars => VInv'
  BY NextVInv
<1> QED
  BY <1>1, <1>2, PTL DEF Spec

-----------------------------------------------------------------------------
(* Theorems *)

\* The list, the headers, the tags and the regions of callers keep their types,
\* and there is never more memory than at the start.
THEOREM TypeCorrect == Spec => []TypeOK
<1>1. ASSUME VInv
      PROVE  TypeOK
  <2>1. heap \in HeapState /\ regions \subseteq Region
    BY <1>1 DEF VInv, Sound
  <2>2. Cardinality(MemPages(regions)) \in Nat /\ Frames \in Nat
    BY MemFinite, VHeapAssumption
  <2>3. heap.frames \in 0..Frames
    <3>1. heap.frames \in Nat /\ heap.frames + Cardinality(MemPages(regions)) <= Frames
      BY <1>1, <2>1 DEF VInv, HeapState
    <3> QED
      BY <2>2, <3>1
  <2>4. \A p \in Pages : heap.heapinfo[p] \in Headers \/ heap.heapinfo[p] \in 0..Size
    BY <2>1 DEF HeapState
  <2> QED
    BY <2>1, <2>3, <2>4 DEF TypeOK, HeapState
<1> QED
  BY <1>1, VInvAlways, PTL

\* Until a call reads through NULL, walks for ever or uses a header that kfree
\* has taken back, no page is in two hands, for every sequence of vmalloc, vfree,
\* map_io and unmap_io, whichever of them fail on the way.
THEOREM OneHand == Spec => []NoOverlap
<1>1. ASSUME VInv
      PROVE  NoOverlap
  <2>1. PICK away \in SUBSET Extent :
           /\ Sound(heap, away)
           /\ \A s \in regions : [at |-> s.at, size |-> s.size] \in away
    BY <1>1 DEF VInv
  <2>2. /\ regions \subseteq Region
        /\ \A s, u \in regions : s # u => s.at # u.at
    BY <1>1 DEF VInv
  <2>3. ASSUME NEW b \in Nat, NEW m \in Nat, NEW c \in Nat, NEW n \in Nat,
               Apart(b, m, c, n)
        PROVE  RegionPages(b, m) \cap RegionPages(c, n) = {}
    BY <2>3 DEF RegionPages, Apart
  <2>4. \A r \in regions : r.at \in Nat /\ r.size \in Nat
    BY <2>2, RegionTyped
  <2>5. heap.live \subseteq Headers
        /\ \A h \in Headers : /\ At(heap, h) \in Nat /\ Sz(heap, h) \in Nat
                              /\ HeaderPages(h) = RegionPages(At(heap, h), Sz(heap, h))
    <3>1. heap \in HeapState
      BY <2>1 DEF Sound
    <3> QED
      BY <3>1, FieldsTyped, Numbers DEF HeaderPages, At, Sz, HeapState
  <2>6. ASSUME NEW r \in regions, NEW s \in regions, r # s
        PROVE  RegionPages(r.at, r.size) \cap RegionPages(s.at, s.size) = {}
    <3> DEFINE a == [at |-> r.at, size |-> r.size]
               b == [at |-> s.at, size |-> s.size]
    <3>1. a \in away /\ b \in away /\ a # b
      BY <2>1, <2>2, <2>6
    <3>2. a.at = r.at /\ a.size = r.size /\ b.at = s.at /\ b.size = s.size
      OBVIOUS
    <3> HIDE DEF a, b
    <3>3. Apart(a.at, a.size, b.at, b.size)
      BY <2>1, <3>1 DEF Sound, Extents
    <3> QED
      BY <2>3, <2>4, <3>2, <3>3
  <2>7. ASSUME NEW r \in regions, NEW h \in heap.live
        PROVE  RegionPages(r.at, r.size) \cap HeaderPages(h) = {}
    <3> DEFINE a == [at |-> r.at, size |-> r.size]
    <3>1. a \in away /\ a.at = r.at /\ a.size = r.size
      BY <2>1
    <3> HIDE DEF a
    <3>2. Apart(a.at, a.size, At(heap, h), Sz(heap, h))
      BY <2>1, <2>5, <3>1 DEF Sound, Extents
    <3> QED
      BY <2>3, <2>4, <2>5, <3>1, <3>2
  <2>8. ASSUME NEW g \in heap.live, NEW h \in heap.live, g # h
        PROVE  HeaderPages(g) \cap HeaderPages(h) = {}
    <3>1. Apart(At(heap, g), Sz(heap, g), At(heap, h), Sz(heap, h))
      BY <2>1, <2>5, <2>8 DEF Sound, Extents
    <3> QED
      BY <2>3, <2>5, <3>1
  <2> QED
    BY <2>6, <2>7, <2>8 DEF NoOverlap
<1> QED
  BY <1>1, VInvAlways, PTL

\* Until then the tags of a caller's region are what vfree will read: its size
\* in front and no header at the back.
THEOREM OwnTagsRight == Spec => []TagsExact
<1>1. ASSUME VInv
      PROVE  TagsExact
  <2>1. PICK away \in SUBSET Extent :
           /\ Sound(heap, away)
           /\ \A s \in regions : [at |-> s.at, size |-> s.size] \in away
    BY <1>1 DEF VInv
  <2>2. ASSUME NEW r \in regions
        PROVE  /\ heap.heapinfo[r.at] = r.size
               /\ r.size > 1 => heap.heapinfo[r.at + r.size - 1] = 0
    <3> DEFINE a == [at |-> r.at, size |-> r.size]
    <3>1. a \in away /\ a.at = r.at /\ a.size = r.size
      BY <2>1
    <3> HIDE DEF a
    <3> QED
      BY <2>1, <3>1 DEF Sound, AwayTags
  <2> QED
    BY <2>2 DEF TagsExact
<1> QED
  BY <1>1, VInvAlways, PTL

\* Until then a header that the tags next to a caller's region name is in use
\* and describes the free region there: vfree follows no stale tag.
THEOREM NeighbourTagsRight == Spec => []NeighboursLive
<1>1. ASSUME VInv
      PROVE  NeighboursLive
  <2>1. PICK away \in SUBSET Extent :
           /\ Sound(heap, away)
           /\ \A s \in regions : [at |-> s.at, size |-> s.size] \in away
    BY <1>1 DEF VInv
  <2>2. /\ regions \subseteq Region /\ heap \in HeapState
        /\ \A h \in heap.live : h \in Headers
    BY <1>1, <2>1 DEF VInv, Sound, HeapState
  <2> SUFFICES ASSUME NEW r \in regions
               PROVE  /\ r.at > 0 /\ heap.heapinfo[r.at - 1] \in Headers =>
                            LET h == heap.heapinfo[r.at - 1]
                            IN  h \in heap.live /\ r.at - 1 \in HeaderPages(h)
                      /\ r.at + r.size < Size
                         /\ heap.heapinfo[r.at + r.size] \in Headers =>
                            LET h == heap.heapinfo[r.at + r.size]
                            IN  /\ h \in heap.live
                                /\ r.at + r.size = heap.header[h].region
    BY DEF NeighboursLive
  <2> DEFINE a == [at |-> r.at, size |-> r.size]
  <2>3. a \in away /\ a.at = r.at /\ a.size = r.size /\ r.at \in Nat
    BY <2>1, <2>2, RegionTyped
  <2> HIDE DEF a
  <2>4. ASSUME r.at > 0, heap.heapinfo[r.at - 1] \in Headers
        PROVE  LET h == heap.heapinfo[r.at - 1]
               IN  h \in heap.live /\ r.at - 1 \in HeaderPages(h)
    <3> DEFINE h == heap.heapinfo[r.at - 1]
    <3>1. h \in heap.live /\ Sz(heap, h) > 0 /\ At(heap, h) + Sz(heap, h) = r.at
      BY <2>1, <2>3, <2>4, InFront
    <3>2. At(heap, h) \in Nat /\ Sz(heap, h) \in Nat
      BY <2>2, <2>4, FieldsTyped, Numbers
    <3> HIDE DEF h
    <3>3. r.at - 1 \in At(heap, h)..(At(heap, h) + Sz(heap, h) - 1)
      BY <2>3, <3>1, <3>2
    <3>4. r.at - 1 \in HeaderPages(h)
      BY <3>3 DEF HeaderPages, RegionPages, At, Sz
    <3> QED
      BY <3>1, <3>4 DEF h
  <2>5. ASSUME r.at + r.size < Size, heap.heapinfo[r.at + r.size] \in Headers
        PROVE  LET h == heap.heapinfo[r.at + r.size]
               IN  h \in heap.live /\ r.at + r.size = heap.header[h].region
    BY <2>1, <2>3, <2>5, Behind DEF At
  <2> QED
    BY <2>4, <2>5
<1> QED
  BY <1>1, VInvAlways, PTL
=============================================================================
