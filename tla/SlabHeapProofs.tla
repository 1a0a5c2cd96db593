--------------------------- MODULE SlabHeapProofs ---------------------------
(***************************************************************************)
(* Proofs about SlabHeap: the allocator's state stays typed, free_count    *)
(* is the length of the free list, the list of caches stays ordered, and   *)
(* every object has one owner.                                             *)
(*                                                                         *)
(* The chain of operators that is the body of kmalloc or kfree is followed *)
(* step by step: what one step does to the heap is an effect predicate     *)
(* (SameObjects, Grew, Grown, Allocated), and one lemma for each operator  *)
(* says that it has this effect.                                           *)
(***************************************************************************)
EXTENDS SlabHeap, NatFacts, TLAPS

-----------------------------------------------------------------------------
(* The heap as a value, and what is true of it between any two steps *)

HeapState ==
    [caches : Seq(Key), cache : [Key -> CacheRecord],
     slab : UNION {[S -> SlabRecord] : S \in SUBSET Pages},
     heap_end : 0..MaxPages, heapinfo : [Pages -> SlabOrNull],
     mapped : SUBSET (0..MaxPages), frames : 0..Frames,
     internal : SUBSET Object, fault : BOOLEAN]

\* A pointer to a slab_t points to one, or is NULL.
Pointers(h) == DOMAIN h.slab \cup {0}

\* The lists of slabs have no link into nowhere.
Linked(h) ==
    /\ \A s \in DOMAIN h.slab :
          h.slab[s].next \in Pointers(h) /\ h.slab[s].prev \in Pointers(h)
    /\ \A k \in Key :
          /\ h.cache[k].full_slabs \in Pointers(h)
          /\ h.cache[k].particial_slabs \in Pointers(h)
          /\ h.cache[k].free_slabs \in Pointers(h)

\* The n pages from s on.
Extent(h, s) == SlabPages[h.slab[s].cache.size]

\* Slabs lie below heap_end, and no page belongs to two of them.
Placed(h) ==
    /\ 1 \in DOMAIN h.slab
    /\ \A s \in DOMAIN h.slab : s + Extent(h, s) <= h.heap_end + 1
    /\ \A s, t \in DOMAIN h.slab :
          s < t => s + Extent(h, s) <= t

\* An entry of heapinfo names a slab that the page belongs to.
Known(h) ==
    \A p \in Pages : h.heapinfo[p] # 0 =>
        /\ h.heapinfo[p] \in DOMAIN h.slab
        /\ h.heapinfo[p] <= p
        /\ p < h.heapinfo[p] + Extent(h, h.heapinfo[p])

\* FreeCountExact of a heap.
Counted(h) ==
    \A s \in DOMAIN h.slab :
        h.slab[s].free_count =
            Len(h.slab[s].free_obj) + (IF s = 1 THEN 1 ELSE 0)

\* CachesOrdered of a list.
Ordered(caches) ==
    /\ IsInjective(caches)
    /\ Cache32 \in Range(caches)
    /\ \A i, j \in 1..Len(caches) : i < j => caches[i].size <= caches[j].size

Sound(h) ==
    /\ h \in HeapState
    /\ Linked(h) /\ Placed(h) /\ Known(h) /\ Counted(h)
    /\ Ordered(h.caches)

\* The objects of slab s, a slab of cache key.
SlotsOf(key, s) ==
    (IF s = 1 THEN 2 ELSE HeaderSlots(key))..(Slots(key) - 1)

FreeOf(h, s) == Range(h.slab[s].free_obj)

\* OneOwner of a heap whose clients hold the objects in `held`, said of
\* objects instead of the slots of each slab.
Owned(h, held) ==
    /\ held \in SUBSET Object
    /\ held \cap h.internal = {}
    /\ \A o \in held \cup h.internal :
          /\ o.slab \in DOMAIN h.slab
          /\ o.at \in SlotsOf(h.slab[o.slab].cache, o.slab)
          /\ o.at \notin FreeOf(h, o.slab)
    /\ \A s \in DOMAIN h.slab :
          /\ IsInjective(h.slab[s].free_obj)
          /\ FreeOf(h, s) \subseteq SlotsOf(h.slab[s].cache, s)
          /\ h.slab[s].cache.size <= PAGE_SIZE =>
                \A at \in SlotsOf(h.slab[s].cache, s) :
                    \/ at \in FreeOf(h, s)
                    \/ [slab |-> s, at |-> at] \in held \cup h.internal

\* The inductive invariant.  A heap at which kfree has faulted has lost the
\* object, but nothing runs any more.
SInv ==
    /\ Sound(heap)
    /\ used \in SUBSET Object
    /\ heap.fault \/ Owned(heap, used)

-----------------------------------------------------------------------------
(* Keys and slots *)

\* What the constants and a key are to arithmetic.
LEMMA Numbers ==
    /\ PAGE_SIZE \in Nat /\ PAGE_SIZE > 32 /\ MaxPages \in Nat \ {0}
    /\ InfoSpan \in Nat \ {0} /\ Frames \in Nat
    /\ Cache32 \in Key /\ Cache32.size = 32 /\ SlabPages[32] = 1
    /\ \A key \in Key :
          /\ key.size \in Nat \ {0} /\ key.size \in DOMAIN SlabPages
          /\ SlabPages[key.size] \in Nat \ {0}
          /\ key.size <= SlabPages[key.size] * PAGE_SIZE
          /\ key.size <= PAGE_SIZE => PAGE_SIZE % key.size = 0
  BY SlabHeapAssumption DEF Key, Cache32

\* A number that holds size objects of a size has room for that many.
LEMMA Room ==
    ASSUME NEW a \in Nat, NEW n \in Nat \ {0}
    PROVE  /\ a \div n \in Nat /\ (a \div n) * n <= a
           /\ \A b \in Nat : b * n <= a => b <= a \div n
<1> DEFINE q == a \div n
           r == a % n
<1>1. q \in Nat /\ r \in 0..(n - 1) /\ a = q * n + r
  BY DivMod
<1> HIDE DEF q, r
<1>2. ASSUME NEW b \in Nat, b * n <= a, q < b
      PROVE  FALSE
  <2>1. b * n >= q * n + n
    BY <1>1, <1>2
  <2> QED
    BY <1>1, <1>2, <2>1
<1>3. q * n <= a
  BY <1>1
<1> QED
  BY <1>1, <1>2, <1>3 DEF q

\* The slots before the first object of a slab are slots of it.
LEMMA SlotsTyped ==
    ASSUME NEW key \in Key
    PROVE  /\ Slots(key) \in Nat /\ HeaderSlots(key) \in Nat
           /\ HeaderSlots(key) <= Slots(key)
<1> DEFINE n == key.size
           m == SlabPages[n] * PAGE_SIZE
<1>1. n \in Nat \ {0} /\ SlabPages[n] \in Nat \ {0} /\ PAGE_SIZE \in Nat
      /\ PAGE_SIZE > 32 /\ n <= m /\ (n <= PAGE_SIZE => PAGE_SIZE % n = 0)
  BY Numbers
<1>2. m \in Nat
  BY <1>1
<1>3. Slots(key) = m \div n
  BY DEF Slots
<1>4. Slots(key) \in Nat
  BY <1>1, <1>2, <1>3, Room
<1>5. CASE SlabPages[n] # 1
  BY <1>4, <1>5 DEF HeaderSlots
<1>6. CASE SlabPages[n] = 1
  <2> DEFINE a == 31 \div n
             q == PAGE_SIZE \div n
  <2>1. m = PAGE_SIZE
    BY <1>1, <1>6
  <2>2. a \in Nat /\ a * n <= 31
    BY <1>1, Room
  <2>3. q \in Nat /\ PAGE_SIZE = q * n
    <3>1. PAGE_SIZE = q * n + (PAGE_SIZE % n) /\ q \in Nat
      BY <1>1, DivMod
    <3>2. q * n \in Nat
      BY <1>1, <3>1
    <3> QED
      BY <1>1, <2>1, <3>1, <3>2
  <2>4. HeaderSlots(key) = a + 1
    BY <1>6 DEF HeaderSlots
  <2> HIDE DEF a, q
  <2>5. ASSUME q <= a
        PROVE  FALSE
    <3>1. q * n <= a * n
      BY <1>1, <2>2, <2>3, <2>5
    <3> QED
      BY <1>1, <2>2, <2>3, <3>1
  <2> QED
    BY <1>3, <1>4, <2>1, <2>2, <2>3, <2>4, <2>5 DEF q
<1> QED
  BY <1>5, <1>6

\* Where an object of slab s is: on one of the slab's pages, and at a multiple
\* of its size unless it is larger than a page.
LEMMA PageOf ==
    ASSUME NEW key \in Key, NEW s \in Pages, NEW object,
           object.slab = s, object.at \in Nat, object.at < Slots(key)
    PROVE  LET page == (Offset(key, object) \div PAGE_SIZE) + 1
           IN  /\ page \in Nat /\ s <= page /\ page < s + SlabPages[key.size]
               /\ key.size <= PAGE_SIZE => Offset(key, object) % key.size = 0
<1> DEFINE n == key.size
           w == SlabPages[n]
           m == w * PAGE_SIZE
           at == object.at
           q == PAGE_SIZE \div n
           d == at * n
           e == d \div PAGE_SIZE
           r == d % PAGE_SIZE
<1>1. n \in Nat \ {0} /\ w \in Nat \ {0} /\ PAGE_SIZE \in Nat \ {0}
      /\ (n <= PAGE_SIZE => PAGE_SIZE % n = 0) /\ s \in Nat \ {0} /\ at \in Nat
  BY Numbers DEF Pages
<1>2. m \in Nat /\ Slots(key) = m \div n
  BY <1>1 DEF Slots
<1>3. Slots(key) \in Nat /\ Slots(key) * n <= m
  BY <1>1, <1>2, Room
<1>4. d \in Nat /\ d < m
  <2>1. (at + 1) * n <= Slots(key) * n
    BY <1>1, <1>3
  <2>2. (at + 1) * n = d + n
    BY <1>1
  <2>3. d \in Nat /\ Slots(key) * n \in Nat
    BY <1>1, <1>3
  <2> HIDE DEF m, d
  <2> QED
    BY <1>1, <1>2, <1>3, <2>1, <2>2, <2>3
<1> HIDE DEF d
<1>5. e \in Nat /\ r \in 0..(PAGE_SIZE - 1) /\ d = e * PAGE_SIZE + r
  BY <1>1, <1>4, DivMod
<1> HIDE DEF e, r
<1>6. e < w
  <2> SUFFICES ASSUME w <= e PROVE FALSE
    BY <1>1, <1>5
  <2>1. w * PAGE_SIZE <= e * PAGE_SIZE
    BY <1>1, <1>5
  <2>2. e * PAGE_SIZE \in Nat
    BY <1>1, <1>5
  <2> QED
    BY <1>1, <1>2, <1>4, <1>5, <2>1, <2>2
<1>7. Offset(key, object) = (s - 1 + e) * PAGE_SIZE + r
  <2>1. Offset(key, object) = (s - 1) * PAGE_SIZE + d
    BY DEF Offset, d
  <2>2. (s - 1 + e) * PAGE_SIZE = (s - 1) * PAGE_SIZE + e * PAGE_SIZE
    BY <1>1, <1>5
  <2>3. (s - 1) * PAGE_SIZE \in Nat /\ e * PAGE_SIZE \in Nat
    BY <1>1, <1>5
  <2> QED
    BY <1>1, <1>4, <1>5, <2>1, <2>2, <2>3
<1>8. Offset(key, object) \div PAGE_SIZE = s - 1 + e
  BY <1>1, <1>5, <1>7, DivUnique
<1>9. ASSUME n <= PAGE_SIZE
      PROVE  Offset(key, object) % n = 0
  <2>1. q \in Nat /\ PAGE_SIZE = q * n
    <3>1. PAGE_SIZE = q * n + (PAGE_SIZE % n) /\ q \in Nat
      BY <1>1, DivMod
    <3>2. q * n \in Nat
      BY <1>1, <3>1
    <3> QED
      BY <1>1, <1>9, <3>1, <3>2
  <2> HIDE DEF q
  <2>2. (s - 1) * PAGE_SIZE = ((s - 1) * q) * n
    BY <1>1, <2>1
  <2>3. (s - 1) * q \in Nat
    BY <1>1, <2>1
  <2> DEFINE c == (s - 1) * q
  <2>4. Offset(key, object) = c * n + at * n
    BY <2>2 DEF Offset
  <2>5. c \in Nat
    BY <2>3
  <2> HIDE DEF c
  <2>6. Offset(key, object) = (c + at) * n + 0
    BY <1>1, <2>4, <2>5
  <2>7. c + at \in Nat /\ 0 \in 0..(n - 1)
    BY <1>1, <2>5
  <2> QED
    BY <1>1, <2>6, <2>7, ModUnique
<1> QED
  BY <1>1, <1>5, <1>6, <1>8, <1>9

-----------------------------------------------------------------------------
(* Changing a list *)

\* The records of a heap.
LEMMA SlabTyped ==
    ASSUME NEW h \in HeapState
    PROVE  /\ DOMAIN h.slab \in SUBSET Pages
           /\ \A s \in DOMAIN h.slab : h.slab[s] \in SlabRecord
           /\ h.slab \in [DOMAIN h.slab -> SlabRecord]
  BY DEF HeapState

\* A pointer to a slab_t is one the model counts.
LEMMA PointerTyped ==
    ASSUME NEW h \in HeapState
    PROVE  Pointers(h) \in SUBSET SlabOrNull
  BY SlabTyped, Numbers DEF Pointers, Pages, SlabOrNull

\* k is h with another record for slab s.
SlabPut(h, k, s, record) ==
    /\ k \in HeapState
    /\ DOMAIN k.slab = DOMAIN h.slab
    /\ k.slab[s] = record
    /\ \A t \in DOMAIN h.slab : t # s => k.slab[t] = h.slab[t]
    /\ k.cache = h.cache /\ k.caches = h.caches /\ k.heap_end = h.heap_end
    /\ k.heapinfo = h.heapinfo /\ k.mapped = h.mapped /\ k.frames = h.frames
    /\ k.internal = h.internal /\ k.fault = h.fault

\* A record of a slab may be replaced.
LEMMA PutSlab ==
    ASSUME NEW h \in HeapState, NEW s \in DOMAIN h.slab, NEW record \in SlabRecord
    PROVE  SlabPut(h, [h EXCEPT !.slab[s] = record], s, record)
<1> DEFINE k == [h EXCEPT !.slab[s] = record]
           S == DOMAIN h.slab
<1>1. S \in SUBSET Pages /\ h.slab \in [S -> SlabRecord]
  BY SlabTyped
<1>2. k.slab = [h.slab EXCEPT ![s] = record]
  BY DEF HeapState
<1>3. k.slab \in [S -> SlabRecord]
  BY <1>1, <1>2
<1>4. k.slab \in UNION {[T -> SlabRecord] : T \in SUBSET Pages}
  BY <1>1, <1>3
<1>5. k \in HeapState
  BY <1>4 DEF HeapState
<1>6. /\ k.cache = h.cache /\ k.caches = h.caches /\ k.heap_end = h.heap_end
      /\ k.heapinfo = h.heapinfo /\ k.mapped = h.mapped /\ k.frames = h.frames
      /\ k.internal = h.internal /\ k.fault = h.fault
  BY DEF HeapState
<1>7. /\ DOMAIN k.slab = S /\ k.slab[s] = record
      /\ \A t \in S : t # s => k.slab[t] = h.slab[t]
  BY <1>1, <1>2
<1> QED
  BY <1>5, <1>6, <1>7 DEF SlabPut

\* k differs from h in the lists of slabs only.
SameObjects(h, k) ==
    /\ k \in HeapState /\ Linked(k)
    /\ DOMAIN k.slab = DOMAIN h.slab
    /\ \A s \in DOMAIN h.slab :
          /\ k.slab[s].cache = h.slab[s].cache
          /\ k.slab[s].free_count = h.slab[s].free_count
          /\ k.slab[s].free_obj = h.slab[s].free_obj
    /\ k.caches = h.caches /\ k.heap_end = h.heap_end
    /\ k.heapinfo = h.heapinfo /\ k.mapped = h.mapped /\ k.frames = h.frames
    /\ k.internal = h.internal /\ k.fault = h.fault

\* A heap whose lists are left alone.
LEMMA SameSelf ==
    ASSUME NEW h \in HeapState, Linked(h)
    PROVE  SameObjects(h, h)
  BY DEF SameObjects

\* One change of the lists after another.
LEMMA SameThen ==
    ASSUME NEW h, NEW j, NEW k, SameObjects(h, j), SameObjects(j, k)
    PROVE  SameObjects(h, k)
  BY DEF SameObjects

\* slab->next = value.
LEMMA NextSame ==
    ASSUME NEW h \in HeapState, Linked(h), NEW s \in DOMAIN h.slab,
           NEW value \in Pointers(h)
    PROVE  SameObjects(h, SetNext(h, s, value))
<1> DEFINE record == [h.slab[s] EXCEPT !.next = value]
           k == [h EXCEPT !.slab[s] = record]
<1>1. DOMAIN h.slab \in SUBSET Pages /\ h.slab[s] \in SlabRecord
  BY SlabTyped
<1>2. value \in SlabOrNull
  BY PointerTyped
<1>3. /\ record \in SlabRecord /\ record.next = value
      /\ record.prev = h.slab[s].prev /\ record.cache = h.slab[s].cache
      /\ record.free_count = h.slab[s].free_count
      /\ record.free_obj = h.slab[s].free_obj
  BY <1>1, <1>2 DEF SlabRecord
<1> HIDE DEF record
<1>4. SlabPut(h, k, s, record)
  BY <1>3, PutSlab
<1>5. SetNext(h, s, value) = k
  BY DEF SetNext, record
<1> HIDE DEF k
<1>6. Linked(k)
  BY <1>3, <1>4 DEF Linked, Pointers, SlabPut
<1> QED
  BY <1>3, <1>4, <1>5, <1>6 DEF SameObjects, SlabPut

\* slab->prev = value.
LEMMA PrevSame ==
    ASSUME NEW h \in HeapState, Linked(h), NEW s \in Pointers(h),
           NEW value \in Pointers(h)
    PROVE  SameObjects(h, SetPrev(h, s, value))
<1>1. CASE s = 0
  BY <1>1, SameSelf DEF SetPrev
<1>2. CASE s # 0
  <2> DEFINE record == [h.slab[s] EXCEPT !.prev = value]
             k == [h EXCEPT !.slab[s] = record]
  <2>1. s \in DOMAIN h.slab
    BY <1>2 DEF Pointers
  <2>2. DOMAIN h.slab \in SUBSET Pages /\ h.slab[s] \in SlabRecord
    BY <2>1, SlabTyped
  <2>3. value \in SlabOrNull
    BY PointerTyped
  <2>4. /\ record \in SlabRecord /\ record.prev = value
        /\ record.next = h.slab[s].next /\ record.cache = h.slab[s].cache
        /\ record.free_count = h.slab[s].free_count
        /\ record.free_obj = h.slab[s].free_obj
    BY <2>2, <2>3 DEF SlabRecord
  <2> HIDE DEF record
  <2>5. SlabPut(h, k, s, record)
    BY <2>1, <2>4, PutSlab
  <2>6. SetPrev(h, s, value) = k
    BY <1>2 DEF SetPrev, record
  <2> HIDE DEF k
  <2>7. Linked(k)
    BY <2>1, <2>4, <2>5 DEF Linked, Pointers, SlabPut
  <2> QED
    BY <2>1, <2>4, <2>5, <2>6, <2>7 DEF SameObjects, SlabPut
<1> QED
  BY <1>1, <1>2

\* cache->particial_slabs = value.
LEMMA ParticialSame ==
    ASSUME NEW h \in HeapState, Linked(h), NEW key \in Key,
           NEW value \in Pointers(h)
    PROVE  SameObjects(h, [h EXCEPT !.cache[key].particial_slabs = value])
<1> DEFINE k == [h EXCEPT !.cache[key].particial_slabs = value]
<1>1. value \in SlabOrNull
  BY PointerTyped
<1>2. k \in HeapState
  BY <1>1 DEF HeapState, CacheRecord
<1>3. Linked(k)
  BY DEF HeapState, CacheRecord, Linked, Pointers
<1> QED
  BY <1>2, <1>3 DEF SameObjects, HeapState

\* cache->free_slabs = value.
LEMMA FreeSame ==
    ASSUME NEW h \in HeapState, Linked(h), NEW key \in Key,
           NEW value \in Pointers(h)
    PROVE  SameObjects(h, [h EXCEPT !.cache[key].free_slabs = value])
<1> DEFINE k == [h EXCEPT !.cache[key].free_slabs = value]
<1>1. value \in SlabOrNull
  BY PointerTyped
<1>2. k \in HeapState
  BY <1>1 DEF HeapState, CacheRecord
<1>3. Linked(k)
  BY DEF HeapState, CacheRecord, Linked, Pointers
<1> QED
  BY <1>2, <1>3 DEF SameObjects, HeapState

\* cache->full_slabs = value.
LEMMA FullSame ==
    ASSUME NEW h \in HeapState, Linked(h), NEW key \in Key,
           NEW value \in Pointers(h)
    PROVE  SameObjects(h, [h EXCEPT !.cache[key].full_slabs = value])
<1> DEFINE k == [h EXCEPT !.cache[key].full_slabs = value]
<1>1. value \in SlabOrNull
  BY PointerTyped
<1>2. k \in HeapState
  BY <1>1 DEF HeapState, CacheRecord
<1>3. Linked(k)
  BY DEF HeapState, CacheRecord, Linked, Pointers
<1> QED
  BY <1>2, <1>3 DEF SameObjects, HeapState

\* What the lists look like is no matter of soundness or ownership.
LEMMA SoundSameObjects ==
    ASSUME NEW h, Sound(h), NEW k, SameObjects(h, k)
    PROVE  Sound(k)
<1>1. Placed(k)
  BY DEF Sound, Placed, SameObjects, Extent
<1>2. Known(k)
  BY DEF Sound, Known, SameObjects, Extent
<1>3. Counted(k)
  BY DEF Sound, Counted, SameObjects
<1> QED
  BY <1>1, <1>2, <1>3 DEF Sound, SameObjects

\* The same of who owns what.
LEMMA OwnedSameObjects ==
    ASSUME NEW h, NEW held, Owned(h, held), NEW k, SameObjects(h, k)
    PROVE  Owned(k, held)
<1>1. /\ DOMAIN k.slab = DOMAIN h.slab /\ k.internal = h.internal
      /\ \A s \in DOMAIN h.slab : k.slab[s].cache = h.slab[s].cache
      /\ \A s \in DOMAIN h.slab : k.slab[s].free_obj = h.slab[s].free_obj
  BY DEF SameObjects
<1>2. \A s \in DOMAIN h.slab : FreeOf(k, s) = FreeOf(h, s)
  BY <1>1 DEF FreeOf
<1> QED
  BY <1>1, <1>2 DEF Owned

\* A full or a free slab goes to the list it belongs to now: three chains of
\* pointer writes.
LEMMA ToFull ==
    ASSUME NEW h \in HeapState, Linked(h), NEW key \in Key,
           NEW s \in DOMAIN h.slab, NEW next \in Pointers(h),
           NEW full \in Pointers(h)
    PROVE  LET h2 == SetPrev([h EXCEPT !.cache[key].particial_slabs = next],
                             next, 0)
               h3 == SetNext(SetPrev(h2, full, s), s, full)
           IN  SameObjects(h, [h3 EXCEPT !.cache[key].full_slabs = s])
<1> DEFINE h1 == [h EXCEPT !.cache[key].particial_slabs = next]
           h2 == SetPrev(h1, next, 0)
           j == SetPrev(h2, full, s)
           h3 == SetNext(j, s, full)
           k == [h3 EXCEPT !.cache[key].full_slabs = s]
           Good(x) == SameObjects(h, x)
<1>1. 0 \in Pointers(h) /\ s \in Pointers(h)
  BY DEF Pointers
<1>2. \A x : Good(x) => /\ x \in HeapState /\ Linked(x)
                        /\ Pointers(x) = Pointers(h)
                        /\ DOMAIN x.slab = DOMAIN h.slab
                        /\ \A y : SameObjects(x, y) => Good(y)
  BY SameThen DEF SameObjects, Pointers
<1>3. Good(h1)
  BY ParticialSame
<1> HIDE DEF h1, Good
<1>4. SameObjects(h1, h2)
  BY <1>1, <1>2, <1>3, PrevSame
<1>5. Good(h2)
  BY <1>2, <1>3, <1>4
<1> HIDE DEF h2
<1>6. SameObjects(h2, j)
  BY <1>1, <1>2, <1>5, PrevSame
<1>7. Good(j)
  BY <1>2, <1>5, <1>6
<1> HIDE DEF j
<1>8. SameObjects(j, h3)
  BY <1>2, <1>7, NextSame
<1>9. Good(h3)
  BY <1>2, <1>7, <1>8
<1> HIDE DEF h3
<1>10. SameObjects(h3, k)
  BY <1>1, <1>2, <1>9, FullSame
<1>11. Good(k)
  BY <1>2, <1>9, <1>10
<1> QED
  BY <1>11 DEF Good, k, h3, j, h2, h1

\* MoveToFree.
LEMMA MoveSame ==
    ASSUME NEW h \in HeapState, Linked(h), NEW key \in Key,
           NEW s \in DOMAIN h.slab
    PROVE  SameObjects(h, MoveToFree(h, key, s))
<1> DEFINE next == h.slab[s].next
           prev == h.slab[s].prev
           free == h.cache[key].free_slabs
           h1 == IF prev # 0 THEN SetNext(h, prev, next)
                 ELSE [h EXCEPT !.cache[key].particial_slabs = next]
           h2 == SetPrev(h1, next, prev)
           j == SetPrev(h2, free, s)
           h3 == SetNext(j, s, free)
           i == [h3 EXCEPT !.cache[key].free_slabs = s]
           k == SetPrev(i, s, 0)
           Good(x) == SameObjects(h, x)
<1>1. /\ 0 \in Pointers(h) /\ s \in Pointers(h) /\ next \in Pointers(h)
      /\ prev \in Pointers(h) /\ free \in Pointers(h)
      /\ prev # 0 => prev \in DOMAIN h.slab
  BY DEF Pointers, Linked
<1>2. \A x : Good(x) => /\ x \in HeapState /\ Linked(x)
                        /\ Pointers(x) = Pointers(h)
                        /\ DOMAIN x.slab = DOMAIN h.slab
                        /\ \A y : SameObjects(x, y) => Good(y)
  BY SameThen DEF SameObjects, Pointers
<1>3. MoveToFree(h, key, s) = k
  BY Zenon DEF MoveToFree
<1> HIDE DEF next, prev, free
<1>4. Good(h1)
  <2>1. CASE prev # 0
    BY <1>1, <2>1, NextSame
  <2>2. CASE prev = 0
    BY <1>1, <2>2, ParticialSame
  <2> QED
    BY <2>1, <2>2
<1> HIDE DEF h1, Good
<1>5. SameObjects(h1, h2)
  BY <1>1, <1>2, <1>4, PrevSame
<1>6. Good(h2)
  BY <1>2, <1>4, <1>5
<1> HIDE DEF h2
<1>7. SameObjects(h2, j)
  BY <1>1, <1>2, <1>6, PrevSame
<1>8. Good(j)
  BY <1>2, <1>6, <1>7
<1> HIDE DEF j
<1>9. SameObjects(j, h3)
  BY <1>1, <1>2, <1>8, NextSame
<1>10. Good(h3)
  BY <1>2, <1>8, <1>9
<1> HIDE DEF h3
<1>11. SameObjects(h3, i)
  BY <1>1, <1>2, <1>10, FreeSame
<1>12. Good(i)
  BY <1>2, <1>10, <1>11
<1> HIDE DEF i
<1>13. SameObjects(i, k)
  BY <1>1, <1>2, <1>12, PrevSame
<1>14. Good(k)
  BY <1>2, <1>12, <1>13
<1> QED
  BY <1>3, <1>14 DEF Good

\* UseFreeSlab, called when there is a free slab.
LEMMA UseSame ==
    ASSUME NEW h \in HeapState, Linked(h), NEW key \in Key,
           h.cache[key].free_slabs # 0
    PROVE  SameObjects(h, UseFreeSlab(h, key))
<1> DEFINE s == h.cache[key].free_slabs
           next == h.slab[s].next
           j == [h EXCEPT !.cache[key].free_slabs = next]
           h1 == SetPrev(j, next, 0)
           h2 == SetNext(h1, s, 0)
           h3 == SetPrev(h2, s, 0)
           k == [h3 EXCEPT !.cache[key].particial_slabs = s]
           Good(x) == SameObjects(h, x)
<1>1. /\ 0 \in Pointers(h) /\ s \in Pointers(h) /\ next \in Pointers(h)
      /\ s \in DOMAIN h.slab
  BY DEF Pointers, Linked
<1>2. \A x : Good(x) => /\ x \in HeapState /\ Linked(x)
                        /\ Pointers(x) = Pointers(h)
                        /\ DOMAIN x.slab = DOMAIN h.slab
                        /\ \A y : SameObjects(x, y) => Good(y)
  BY SameThen DEF SameObjects, Pointers
<1>3. Good(j)
  BY <1>1, FreeSame
<1>4. s # 0
  OBVIOUS
<1>5. UseFreeSlab(h, key)
        = [h1 EXCEPT !.slab[s].next = 0, !.slab[s].prev = 0,
                     !.cache[key].particial_slabs = s]
  BY Zenon DEF UseFreeSlab
<1> HIDE DEF j, Good, next, s
<1>6. SameObjects(j, h1)
  BY <1>1, <1>2, <1>3, PrevSame
<1>7. Good(h1)
  BY <1>2, <1>3, <1>6
<1> HIDE DEF h1
<1>8. SameObjects(h1, h2)
  BY <1>1, <1>2, <1>7, NextSame
<1>9. Good(h2)
  BY <1>2, <1>7, <1>8
<1>10. SameObjects(h2, h3)
  <2> HIDE DEF h2
  <2> QED
    BY <1>1, <1>2, <1>9, PrevSame
<1>11. Good(h3)
  BY <1>2, <1>9, <1>10
<1>12. SameObjects(h3, k)
  <2> HIDE DEF h3
  <2> QED
    BY <1>1, <1>2, <1>11, ParticialSame
<1>13. Good(k)
  <2> HIDE DEF h3, k
  <2> QED
    BY <1>2, <1>11, <1>12
<1>14. k = [h1 EXCEPT !.slab[s].next = 0, !.slab[s].prev = 0,
                      !.cache[key].particial_slabs = s]
  BY <1>4 DEF SetNext, SetPrev
<1> QED
  BY <1>5, <1>13, <1>14 DEF Good

-----------------------------------------------------------------------------
(* Taking an object out of a slab, and putting it back *)

\* The chain of free objects without its first one.
LEMMA TailFacts ==
    ASSUME NEW q \in Seq(Nat), q # <<>>
    PROVE  /\ Tail(q) \in Seq(Nat) /\ Len(Tail(q)) = Len(q) - 1
           /\ Len(q) \in Nat \ {0}
           /\ Head(q) \in Nat /\ Head(q) \in Range(q)
           /\ Range(q) = Range(Tail(q)) \cup {Head(q)}
           /\ IsInjective(q) => /\ IsInjective(Tail(q))
                                /\ Head(q) \notin Range(Tail(q))
<1>1. /\ Tail(q) \in Seq(Nat) /\ Len(Tail(q)) = Len(q) - 1
      /\ Len(q) \in Nat \ {0} /\ Head(q) = q[1]
      /\ \A i \in 1..(Len(q) - 1) : Tail(q)[i] = q[i + 1]
  OBVIOUS
<1> DEFINE u == Tail(q)
<1> HIDE DEF u
<1>2. /\ DOMAIN u = 1..(Len(q) - 1) /\ DOMAIN q = 1..Len(q)
      /\ \A i \in DOMAIN q : q[i] \in Nat
  BY <1>1 DEF u
<1>3. /\ \A i \in DOMAIN u : i + 1 \in DOMAIN q /\ u[i] = q[i + 1]
      /\ \A i \in DOMAIN q : i = 1 \/ (i - 1 \in DOMAIN u /\ u[i - 1] = q[i])
      /\ 1 \in DOMAIN q
  BY <1>1, <1>2 DEF u
<1>4. Range(q) = Range(u) \cup {q[1]}
  BY <1>3 DEF Range
<1>5. ASSUME IsInjective(q)
      PROVE  IsInjective(u) /\ q[1] \notin Range(u)
  <2>1. \A i, j \in DOMAIN q : q[i] = q[j] => i = j
    BY <1>5, Zenon DEF IsInjective
  <2>2. ASSUME NEW i \in DOMAIN u, NEW j \in DOMAIN u, u[i] = u[j]
        PROVE  i = j
    <3>1. i + 1 = j + 1
      BY <1>3, <2>1, <2>2
    <3> QED
      BY <1>2, <3>1
  <2>3. ASSUME NEW j \in DOMAIN u
        PROVE  u[j] # q[1]
    <3>1. j + 1 # 1
      BY <1>2
    <3> QED
      BY <1>3, <2>1, <3>1
  <2>4. IsInjective(u)
    BY <2>2, Zenon DEF IsInjective
  <2>5. q[1] \notin Range(u)
    BY <2>3, Zenon DEF Range
  <2> QED
    BY <2>4, <2>5
<1> QED
  BY <1>1, <1>2, <1>3, <1>4, <1>5 DEF u

\* The chain of free objects behind another one.
LEMMA ConsFacts ==
    ASSUME NEW q \in Seq(Nat), NEW a \in Nat
    PROVE  /\ <<a>> \o q \in Seq(Nat) /\ Len(<<a>> \o q) = Len(q) + 1
           /\ Range(<<a>> \o q) = Range(q) \cup {a}
           /\ (IsInjective(q) /\ a \notin Range(q)) => IsInjective(<<a>> \o q)
<1> DEFINE u == <<a>> \o q
<1>1. /\ u \in Seq(Nat) /\ Len(u) = Len(q) + 1 /\ u[1] = a
      /\ \A i \in 1..Len(q) : u[i + 1] = q[i]
      /\ Len(q) \in Nat
  OBVIOUS
<1> HIDE DEF u
<1>2. DOMAIN q = 1..Len(q) /\ DOMAIN u = 1..(Len(q) + 1)
  BY <1>1
<1>3. /\ \A i \in DOMAIN q : i + 1 \in DOMAIN u /\ u[i + 1] = q[i]
      /\ \A i \in DOMAIN u : i = 1 \/ (i - 1 \in DOMAIN q /\ q[i - 1] = u[i])
      /\ 1 \in DOMAIN u
  BY <1>1, <1>2
<1>4. Range(u) = Range(q) \cup {a}
  <2>1. ASSUME NEW x \in Range(u)
        PROVE  x \in Range(q) \cup {a}
    <3>1. PICK i \in DOMAIN u : x = u[i]
      BY DEF Range
    <3>2. i = 1 \/ (i - 1 \in DOMAIN q /\ x = q[i - 1])
      BY <1>3, <3>1
    <3> QED
      BY <1>1, <3>1, <3>2 DEF Range
  <2>2. ASSUME NEW x \in Range(q)
        PROVE  x \in Range(u)
    <3>1. PICK i \in DOMAIN q : x = q[i]
      BY DEF Range
    <3>2. i + 1 \in DOMAIN u /\ u[i + 1] = x
      BY <1>3, <3>1
    <3> QED
      BY <3>2 DEF Range
  <2>3. a \in Range(u)
    BY <1>1, <1>3 DEF Range
  <2> QED
    BY <2>1, <2>2, <2>3
<1>5. ASSUME IsInjective(q), a \notin Range(q)
      PROVE  IsInjective(u)
  <2> SUFFICES ASSUME NEW i \in DOMAIN u, NEW j \in DOMAIN u, u[i] = u[j]
               PROVE  i = j
    BY DEF IsInjective
  <2>1. \A x \in DOMAIN q : q[x] # a
    BY <1>5 DEF Range
  <2>2. i \in Nat /\ j \in Nat
    BY <1>2
  <2>3. CASE i = 1
    BY <1>1, <1>3, <2>1, <2>3
  <2>4. CASE j = 1
    BY <1>1, <1>3, <2>1, <2>4
  <2>5. CASE i # 1 /\ j # 1
    <3>1. i - 1 \in DOMAIN q /\ j - 1 \in DOMAIN q /\ q[i - 1] = q[j - 1]
      BY <1>3, <2>5
    <3>2. i - 1 = j - 1
      BY <1>5, <3>1 DEF IsInjective
    <3> QED
      BY <2>2, <3>2
  <2> QED
    BY <2>3, <2>4, <2>5
<1> QED
  BY <1>1, <1>4, <1>5 DEF u

\* k is h with another chain of free objects in slab s.
ChainPut(h, k, s, chain, count) ==
    /\ k \in HeapState /\ Linked(k)
    /\ DOMAIN k.slab = DOMAIN h.slab
    /\ k.slab[s].free_obj = chain /\ k.slab[s].free_count = count
    /\ \A t \in DOMAIN h.slab :
          /\ k.slab[t].cache = h.slab[t].cache
          /\ k.slab[t].next = h.slab[t].next /\ k.slab[t].prev = h.slab[t].prev
          /\ t # s => /\ k.slab[t].free_obj = h.slab[t].free_obj
                      /\ k.slab[t].free_count = h.slab[t].free_count
    /\ k.cache = h.cache /\ k.caches = h.caches /\ k.heap_end = h.heap_end
    /\ k.heapinfo = h.heapinfo /\ k.mapped = h.mapped /\ k.frames = h.frames
    /\ k.internal = h.internal /\ k.fault = h.fault

\* slab->free_obj = chain; slab->free_count = count.
LEMMA PutChain ==
    ASSUME NEW h \in HeapState, Linked(h), NEW s \in DOMAIN h.slab,
           NEW chain \in Seq(Nat), NEW count \in Nat
    PROVE  ChainPut(h, [h EXCEPT !.slab[s].free_obj = chain,
                                 !.slab[s].free_count = count], s, chain, count)
<1> DEFINE record == [h.slab[s] EXCEPT !.free_obj = chain,
                                       !.free_count = count]
           k == [h EXCEPT !.slab[s] = record]
<1>1. h.slab[s] \in SlabRecord
  BY SlabTyped
<1>2. /\ record \in SlabRecord /\ record.free_obj = chain
      /\ record.free_count = count /\ record.cache = h.slab[s].cache
      /\ record.next = h.slab[s].next /\ record.prev = h.slab[s].prev
  BY <1>1 DEF SlabRecord
<1>3. k = [h EXCEPT !.slab[s].free_obj = chain, !.slab[s].free_count = count]
  OBVIOUS
<1> HIDE DEF record
<1>4. SlabPut(h, k, s, record)
  BY <1>2, PutSlab
<1> HIDE DEF k
<1>5. Linked(k)
  BY <1>2, <1>4 DEF Linked, Pointers, SlabPut
<1>6. ChainPut(h, k, s, chain, count)
  BY <1>2, <1>4, <1>5 DEF ChainPut, SlabPut
<1> QED
  BY <1>3, <1>6

\* A chain with its length as the count leaves the heap sound.
LEMMA ChainSound ==
    ASSUME NEW h, Sound(h), NEW s \in DOMAIN h.slab, NEW chain \in Seq(Nat),
           NEW count, count = Len(chain) + (IF s = 1 THEN 1 ELSE 0),
           NEW k, ChainPut(h, k, s, chain, count)
    PROVE  Sound(k)
<1>1. Placed(k)
  BY DEF Sound, Placed, ChainPut, Extent
<1>2. Known(k)
  BY DEF Sound, Known, ChainPut, Extent
<1>3. Counted(k)
  BY DEF Sound, Counted, ChainPut
<1> QED
  BY <1>1, <1>2, <1>3 DEF Sound, ChainPut

\* slab_alloc: the first free object gets an owner.
LEMMA TakeOwned ==
    ASSUME NEW h, Sound(h), NEW held, Owned(h, held), NEW s \in DOMAIN h.slab,
           h.slab[s].free_obj # <<>>, NEW k, NEW count, NEW o,
           ChainPut(h, k, s, Tail(h.slab[s].free_obj), count),
           o = [slab |-> s, at |-> Head(h.slab[s].free_obj)]
    PROVE  /\ o \in Object /\ o \notin held /\ o \notin k.internal
           /\ Owned(k, held \cup {o})
<1> DEFINE chain == h.slab[s].free_obj
           at == Head(chain)
<1>1. h \in HeapState /\ s \in Pages /\ chain \in Seq(Nat)
  BY SlabTyped DEF Sound, SlabRecord
<1>2. /\ Range(chain) = Range(Tail(chain)) \cup {at} /\ at \in Nat
      /\ IsInjective(Tail(chain)) /\ at \notin Range(Tail(chain))
  BY <1>1, TailFacts DEF Owned
<1>3. /\ \A t \in DOMAIN h.slab : t # s => FreeOf(k, t) = FreeOf(h, t)
      /\ FreeOf(h, s) = FreeOf(k, s) \cup {at} /\ at \notin FreeOf(k, s)
  BY <1>2 DEF FreeOf, ChainPut
<1>4. /\ o \in Object /\ o.slab = s /\ o.at = at
      /\ \A x \in Object : x.slab = s /\ x.at = at => x = o
  BY <1>1, <1>2 DEF Object
<1>5. /\ DOMAIN k.slab = DOMAIN h.slab /\ k.internal = h.internal
      /\ \A t \in DOMAIN h.slab : k.slab[t].cache = h.slab[t].cache
      /\ \A t \in DOMAIN h.slab : t # s => k.slab[t].free_obj = h.slab[t].free_obj
      /\ k.slab[s].free_obj = Tail(chain)
  BY DEF ChainPut
<1>6. o \notin held /\ o \notin k.internal
  BY <1>3, <1>4, <1>5 DEF Owned
<1> HIDE DEF at, chain
<1> DEFINE all == held \cup {o}
<1>7. all \in SUBSET Object /\ all \cap k.internal = {}
  BY <1>4, <1>5, <1>6 DEF Owned
<1>8. ASSUME NEW x \in all \cup k.internal
      PROVE  /\ x.slab \in DOMAIN k.slab
             /\ x.at \in SlotsOf(k.slab[x.slab].cache, x.slab)
             /\ x.at \notin FreeOf(k, x.slab)
  <2>1. CASE x = o
    BY <1>3, <1>4, <1>5, <2>1 DEF Owned
  <2>2. CASE x \in held \cup h.internal
    BY <1>3, <1>5, <2>2 DEF Owned
  <2> QED
    BY <1>5, <2>1, <2>2
<1>9. ASSUME NEW t \in DOMAIN k.slab
      PROVE  /\ IsInjective(k.slab[t].free_obj)
             /\ FreeOf(k, t) \subseteq SlotsOf(k.slab[t].cache, t)
  <2>1. CASE t = s
    BY <1>2, <1>3, <1>5, <2>1 DEF Owned, chain
  <2>2. CASE t # s
    BY <1>3, <1>5, <2>2 DEF Owned
  <2> QED
    BY <2>1, <2>2
<1>10. ASSUME NEW t \in DOMAIN k.slab, k.slab[t].cache.size <= PAGE_SIZE,
              NEW a \in SlotsOf(k.slab[t].cache, t)
       PROVE  a \in FreeOf(k, t) \/ [slab |-> t, at |-> a] \in all \cup k.internal
  <2>1. a \in FreeOf(h, t) \/ [slab |-> t, at |-> a] \in held \cup h.internal
    BY <1>5, <1>10 DEF Owned
  <2>2. t = s /\ a = at => [slab |-> t, at |-> a] = o
    BY DEF at, chain
  <2> QED
    BY <1>3, <1>5, <2>1, <2>2
<1> QED
  BY <1>4, <1>6, <1>7, <1>8, <1>9, <1>10 DEF Owned

\* slab_free: the object has no owner but the list again.
LEMMA GiveOwned ==
    ASSUME NEW h, Sound(h), NEW held, Owned(h, held), NEW o \in held,
           NEW k, NEW count,
           ChainPut(h, k, o.slab, <<o.at>> \o h.slab[o.slab].free_obj, count)
    PROVE  Owned(k, held \ {o})
<1> DEFINE s == o.slab
           chain == h.slab[s].free_obj
           all == held \ {o}
<1>1. /\ h \in HeapState /\ o \in Object /\ s \in DOMAIN h.slab
      /\ o.at \in SlotsOf(h.slab[s].cache, s) /\ o.at \notin Range(chain)
      /\ o \notin h.internal
  BY DEF Sound, Owned, FreeOf
<1>2. s \in Pages /\ chain \in Seq(Nat) /\ o.at \in Nat
  BY <1>1, SlabTyped DEF Object, SlabRecord
<1>3. /\ Range(<<o.at>> \o chain) = Range(chain) \cup {o.at}
      /\ IsInjective(<<o.at>> \o chain)
  BY <1>1, <1>2, ConsFacts DEF Owned
<1>4. /\ DOMAIN k.slab = DOMAIN h.slab /\ k.internal = h.internal
      /\ \A t \in DOMAIN h.slab : k.slab[t].cache = h.slab[t].cache
      /\ \A t \in DOMAIN h.slab : t # s => k.slab[t].free_obj = h.slab[t].free_obj
      /\ k.slab[s].free_obj = <<o.at>> \o chain
  BY DEF ChainPut
<1>5. /\ \A t \in DOMAIN h.slab : t # s => FreeOf(k, t) = FreeOf(h, t)
      /\ FreeOf(k, s) = FreeOf(h, s) \cup {o.at}
  BY <1>3, <1>4 DEF FreeOf
<1>6. \A x \in Object : x.slab = s /\ x.at = o.at => x = o
  BY <1>1 DEF Object
<1>7. all \in SUBSET Object /\ all \cap k.internal = {}
  BY <1>4 DEF Owned
<1>8. ASSUME NEW x \in all \cup k.internal
      PROVE  /\ x.slab \in DOMAIN k.slab
             /\ x.at \in SlotsOf(k.slab[x.slab].cache, x.slab)
             /\ x.at \notin FreeOf(k, x.slab)
  <2>1. /\ x \in held \cup h.internal /\ x # o /\ x \in Object
    BY <1>1, <1>4 DEF Owned, HeapState
  <2>2. /\ x.slab \in DOMAIN h.slab
        /\ x.at \in SlotsOf(h.slab[x.slab].cache, x.slab)
        /\ x.at \notin FreeOf(h, x.slab)
    BY <2>1 DEF Owned
  <2> QED
    BY <1>4, <1>5, <1>6, <2>1, <2>2
<1>9. ASSUME NEW t \in DOMAIN k.slab
      PROVE  /\ IsInjective(k.slab[t].free_obj)
             /\ FreeOf(k, t) \subseteq SlotsOf(k.slab[t].cache, t)
  <2>1. CASE t = s
    BY <1>1, <1>3, <1>4, <1>5, <2>1 DEF Owned
  <2>2. CASE t # s
    BY <1>4, <1>5, <2>2 DEF Owned
  <2> QED
    BY <2>1, <2>2
<1>10. ASSUME NEW t \in DOMAIN k.slab, k.slab[t].cache.size <= PAGE_SIZE,
              NEW a \in SlotsOf(k.slab[t].cache, t)
       PROVE  a \in FreeOf(k, t) \/ [slab |-> t, at |-> a] \in all \cup k.internal
  <2>1. a \in FreeOf(h, t) \/ [slab |-> t, at |-> a] \in held \cup h.internal
    BY <1>4, <1>10 DEF Owned
  <2>2. [slab |-> t, at |-> a] = o => t = s /\ a = o.at
    OBVIOUS
  <2> QED
    BY <1>4, <1>5, <2>1, <2>2
<1> QED
  BY <1>7, <1>8, <1>9, <1>10 DEF Owned

-----------------------------------------------------------------------------
(* Allocating *)

\* k has the caches of h, the slabs of h, and perhaps more slabs that lie
\* beyond what was the end of the heap.
Grew(h, k) ==
    /\ h.heap_end <= k.heap_end /\ k.caches = h.caches
    /\ \A s \in DOMAIN h.slab :
          s \in DOMAIN k.slab /\ k.slab[s].cache = h.slab[s].cache
    /\ \A s \in DOMAIN k.slab : s \in DOMAIN h.slab \/ s > h.heap_end

\* What kmalloc or a part of it returns: NULL, or an object nobody had.
Allocated(h, r, held) ==
    /\ r = [heap |-> r.heap, object |-> r.object]
    /\ Sound(r.heap) /\ Grew(h, r.heap)
    /\ \/ r.object = NullObject /\ Owned(r.heap, held)
       \/ /\ r.object \in Object /\ r.object # NullObject
          /\ r.object \notin held /\ r.object \notin r.heap.internal
          /\ Owned(r.heap, held \cup {r.object})

\* What cache_grow returns: NULL, or a slab.
Grown(h, r, held) ==
    /\ Sound(r.heap) /\ Grew(h, r.heap) /\ Owned(r.heap, held)
    /\ r.slab \in Pointers(r.heap)

\* One growth after another.
LEMMA GrewThen ==
    ASSUME NEW h, Sound(h), NEW j, Sound(j), NEW k, Sound(k),
           Grew(h, j), Grew(j, k)
    PROVE  Grew(h, k)
<1>1. h.heap_end \in Int /\ j.heap_end \in Int /\ k.heap_end \in Int
  BY Numbers DEF Sound, HeapState
<1>2. \A s \in DOMAIN k.slab : s \in Int
  BY SlabTyped DEF Sound, Pages
<1> QED
  BY <1>1, <1>2 DEF Grew

\* Without a growth.
LEMMA GrewSame ==
    ASSUME NEW h, Sound(h), NEW k, SameObjects(h, k)
    PROVE  Grew(h, k)
<1>1. h.heap_end \in Int
  BY Numbers DEF Sound, HeapState
<1> QED
  BY <1>1 DEF Grew, SameObjects

\* Physical pages, heapinfo's own pages and the end of the heap may change
\* under the slabs.
LEMMA LooseSound ==
    ASSUME NEW h, Sound(h), NEW k \in HeapState,
           k.slab = h.slab, k.cache = h.cache, k.caches = h.caches,
           k.heapinfo = h.heapinfo, k.internal = h.internal,
           h.heap_end <= k.heap_end
    PROVE  /\ Sound(k) /\ Grew(h, k)
           /\ \A held : Owned(h, held) => Owned(k, held)
<1>1. h.heap_end \in Int /\ k.heap_end \in Int
  BY Numbers DEF Sound, HeapState
<1>2. \A s \in DOMAIN h.slab : s \in Int /\ Extent(h, s) \in Int
  BY SlabTyped, Numbers DEF Sound, Pages, Extent, SlabRecord
<1>3. Placed(k)
  BY <1>1, <1>2 DEF Sound, Placed, Extent
<1>4. Sound(k)
  BY <1>3 DEF Sound, Linked, Pointers, Known, Counted, Extent
<1>5. Grew(h, k)
  BY DEF Grew
<1>6. ASSUME NEW held, Owned(h, held)
      PROVE  Owned(k, held)
  BY <1>6 DEF Owned, FreeOf
<1> QED
  BY <1>4, <1>5, <1>6

\* An access through NULL changes nothing but stops the kernel.
LEMMA FaultSound ==
    ASSUME NEW h, Sound(h)
    PROVE  /\ Sound(Fault(h)) /\ Grew(h, Fault(h))
           /\ \A held : Owned(h, held) => Owned(Fault(h), held)
<1> DEFINE k == Fault(h)
<1>1. h \in HeapState /\ h.heap_end \in Int
  BY Numbers DEF Sound, HeapState
<1>2. /\ k \in HeapState /\ k.slab = h.slab /\ k.cache = h.cache
      /\ k.caches = h.caches /\ k.heap_end = h.heap_end
      /\ k.heapinfo = h.heapinfo /\ k.internal = h.internal
  BY <1>1 DEF Fault, HeapState
<1> HIDE DEF k
<1>3. Sound(k) /\ Grew(h, k) /\ \A held : Owned(h, held) => Owned(k, held)
  BY <1>1, <1>2, LooseSound
<1> QED
  BY <1>3 DEF k

\* slab_alloc with what cache_alloc does after it.
LEMMA SlabAllocated ==
    ASSUME NEW h, Sound(h), NEW held, Owned(h, held), NEW key \in Key,
           NEW s \in DOMAIN h.slab
    PROVE  Allocated(h, SlabAlloc(h, key, s), held)
<1> DEFINE slab == h.slab[s]
           chain == slab.free_obj
           full == h.cache[key].full_slabs
           count == slab.free_count - 1
           h1 == [h EXCEPT !.slab[s].free_obj = Tail(@),
                           !.slab[s].free_count = @ - 1]
           h2 == SetPrev([h1 EXCEPT !.cache[key].particial_slabs = slab.next],
                         slab.next, 0)
           h3 == SetNext(SetPrev(h2, full, s), s, full)
           h4 == [h3 EXCEPT !.cache[key].full_slabs = s]
           o == [slab |-> s, at |-> Head(chain)]
           r == SlabAlloc(h, key, s)
<1>1. h \in HeapState /\ Linked(h) /\ s \in Pages /\ chain \in Seq(Nat)
  BY SlabTyped DEF Sound, SlabRecord
<1>2. CASE chain = <<>>
  <2>1. r = NoObject(Fault(h))
    BY <1>2, Zenon DEF SlabAlloc
  <2>2. /\ r.heap = Fault(h) /\ r.object = NullObject
        /\ r = [heap |-> r.heap, object |-> r.object]
    BY <2>1 DEF NoObject
  <2> QED
    BY <2>2, FaultSound DEF Allocated
<1>3. CASE chain # <<>>
  <2>1. r = [heap |-> IF slab.free_count = 1 THEN h4 ELSE h1, object |-> o]
    BY <1>3, Zenon DEF SlabAlloc
  <2>2. /\ Tail(chain) \in Seq(Nat) /\ Len(chain) \in Nat \ {0}
        /\ Len(Tail(chain)) = Len(chain) - 1
    BY <1>1, <1>3, TailFacts
  <2>3. slab.free_count = Len(chain) + (IF s = 1 THEN 1 ELSE 0)
    BY DEF Sound, Counted
  <2>4. count \in Nat /\ count = Len(Tail(chain)) + (IF s = 1 THEN 1 ELSE 0)
    <3> HIDE DEF chain, slab
    <3> QED
      BY <2>2, <2>3
  <2>5. h1 = [h EXCEPT !.slab[s].free_obj = Tail(chain),
                       !.slab[s].free_count = count]
    OBVIOUS
  <2>6. ChainPut(h, h1, s, Tail(chain), count)
    <3> HIDE DEF h1, count, chain
    <3> QED
      BY <1>1, <2>2, <2>4, <2>5, PutChain
  <2> HIDE DEF h1
  <2>7. Sound(h1)
    <3> HIDE DEF count
    <3> QED
      BY <1>1, <2>2, <2>4, <2>6, ChainSound
  <2>8. /\ o \in Object /\ o \notin held /\ o \notin h1.internal
        /\ Owned(h1, held \cup {o})
    <3> HIDE DEF count, o
    <3> QED
      BY <1>3, <2>6, TakeOwned DEF o
  <2>9. Grew(h, h1)
    <3>1. h.heap_end \in Int
      BY <1>1, Numbers DEF HeapState
    <3> QED
      BY <2>6, <3>1 DEF Grew, ChainPut
  <2>10. SameObjects(h1, h4)
    <3>1. /\ slab.next \in Pointers(h1) /\ full \in Pointers(h1)
          /\ s \in DOMAIN h1.slab /\ h1 \in HeapState /\ Linked(h1)
      BY <1>1, <2>6 DEF Linked, Pointers, ChainPut
    <3> HIDE DEF slab, full
    <3> QED
      BY <3>1, ToFull
  <2> HIDE DEF h4
  <2>11. /\ Sound(h4) /\ Owned(h4, held \cup {o}) /\ Grew(h, h4)
         /\ o \notin h4.internal
    <3>1. Sound(h4) /\ Owned(h4, held \cup {o}) /\ Grew(h1, h4)
      BY <2>7, <2>8, <2>10, SoundSameObjects, OwnedSameObjects, GrewSame
    <3>2. Grew(h, h4)
      BY <2>7, <2>9, <3>1, GrewThen
    <3> QED
      BY <2>8, <2>10, <3>1, <3>2 DEF SameObjects
  <2>12. o # NullObject
    BY <1>1, Numbers DEF NullObject, Pages
  <2> HIDE DEF o, r
  <2>13. ASSUME slab.free_count = 1
         PROVE  Allocated(h, r, held)
    <3>1. /\ r.heap = h4 /\ r.object = o
          /\ r = [heap |-> r.heap, object |-> r.object]
      BY <2>1, <2>13
    <3> QED
      BY <2>8, <2>11, <2>12, <3>1 DEF Allocated
  <2>14. ASSUME slab.free_count # 1
         PROVE  Allocated(h, r, held)
    <3>1. /\ r.heap = h1 /\ r.object = o
          /\ r = [heap |-> r.heap, object |-> r.object]
      BY <2>1, <2>14
    <3> QED
      BY <2>7, <2>8, <2>9, <2>12, <3>1 DEF Allocated
  <2> QED
    BY <2>13, <2>14 DEF r
<1> QED
  BY <1>2, <1>3

\* cache_alloc.
LEMMA CacheAllocated ==
    ASSUME NEW h, Sound(h), NEW held, Owned(h, held), NEW key \in Key,
           NEW grown, Grown(h, grown, held)
    PROVE  Allocated(h, CacheAlloc(h, key, grown), held)
<1> DEFINE r == CacheAlloc(h, key, grown)
           p == h.cache[key].particial_slabs
           f == h.cache[key].free_slabs
<1>1. /\ h \in HeapState /\ Linked(h)
      /\ p # 0 => p \in DOMAIN h.slab
      /\ f # 0 => f \in DOMAIN h.slab
  BY DEF Sound, Linked, Pointers
<1>2. CASE p # 0
  <2>1. r = SlabAlloc(h, key, p)
    BY <1>2, Zenon DEF CacheAlloc
  <2> QED
    BY <1>1, <1>2, <2>1, SlabAllocated
<1>3. CASE p = 0 /\ f # 0
  <2> DEFINE j == UseFreeSlab(h, key)
  <2>1. r = SlabAlloc(j, key, f)
    BY <1>3, Zenon DEF CacheAlloc
  <2>2. SameObjects(h, j)
    BY <1>1, <1>3, UseSame
  <2> HIDE DEF j
  <2>3. Sound(j) /\ Owned(j, held) /\ Grew(h, j) /\ f \in DOMAIN j.slab
    BY <1>1, <1>3, <2>2, SoundSameObjects, OwnedSameObjects, GrewSame DEF SameObjects
  <2>4. Allocated(j, r, held)
    BY <2>1, <2>3, SlabAllocated
  <2> HIDE DEF r
  <2>5. Grew(h, r.heap)
    BY <2>3, <2>4, GrewThen DEF Allocated
  <2> QED
    BY <2>4, <2>5 DEF Allocated, r
<1>4. CASE p = 0 /\ f = 0 /\ grown.slab = 0
  <2>1. r = NoObject(grown.heap)
    BY <1>4, Zenon DEF CacheAlloc
  <2>2. /\ r.heap = grown.heap /\ r.object = NullObject
        /\ r = [heap |-> r.heap, object |-> r.object]
    BY <2>1 DEF NoObject
  <2> QED
    BY <2>2 DEF Allocated, Grown
<1>5. CASE p = 0 /\ f = 0 /\ grown.slab # 0
  <2> DEFINE g == grown.heap
             s == grown.slab
             i == [g EXCEPT !.cache[key].particial_slabs = s]
             j == [i EXCEPT !.cache[key].free_slabs = 0]
  <2>1. r = SlabAlloc([g EXCEPT !.cache[key].particial_slabs = s,
                                !.cache[key].free_slabs = 0], key, s)
    BY <1>5, Zenon DEF CacheAlloc
  <2>2. r = SlabAlloc(j, key, s)
    BY <2>1
  <2>3. /\ Sound(g) /\ Owned(g, held) /\ Grew(h, g) /\ g \in HeapState
        /\ Linked(g) /\ s \in Pointers(g) /\ s \in DOMAIN g.slab
    BY <1>5 DEF Grown, Pointers, Sound
  <2> HIDE DEF g, s
  <2>4. SameObjects(g, i)
    BY <2>3, ParticialSame
  <2>5. i \in HeapState /\ Linked(i) /\ 0 \in Pointers(i)
    BY <2>4 DEF SameObjects, Pointers
  <2> HIDE DEF i
  <2>6. SameObjects(i, j)
    BY <2>5, FreeSame
  <2> HIDE DEF j
  <2>7. SameObjects(g, j)
    BY <2>4, <2>6, SameThen
  <2>8. Sound(j) /\ Owned(j, held) /\ Grew(g, j) /\ s \in DOMAIN j.slab
    BY <2>3, <2>7, SoundSameObjects, OwnedSameObjects, GrewSame DEF SameObjects
  <2>9. Allocated(j, r, held)
    BY <2>2, <2>8, SlabAllocated
  <2> HIDE DEF r
  <2>10. Grew(h, r.heap)
    <3>1. Grew(h, j)
      BY <2>3, <2>8, GrewThen
    <3> QED
      BY <2>8, <2>9, <3>1, GrewThen DEF Allocated
  <2> QED
    BY <2>9, <2>10 DEF Allocated, r
<1> QED
  BY <1>2, <1>3, <1>4, <1>5

-----------------------------------------------------------------------------
(* Growing a cache *)

\* The n pages from s on belong to the heap and to no slab.
Clear(h, s, n) ==
    /\ s > 1 /\ s + n <= h.heap_end + 1
    /\ \A t \in DOMAIN h.slab : t + Extent(h, t) <= s \/ s + n <= t

\* They stay clear when the heap grows.
LEMMA ClearGrew ==
    ASSUME NEW h, Sound(h), NEW k, Sound(k), Grew(h, k), NEW s \in Nat,
           NEW n \in Nat, Clear(h, s, n)
    PROVE  Clear(k, s, n)
<1>1. h.heap_end \in Int /\ k.heap_end \in Int
  BY Numbers DEF Sound, HeapState
<1>2. \A t \in DOMAIN k.slab : t \in Int
  BY SlabTyped DEF Sound, Pages
<1>3. \A t \in DOMAIN h.slab : Extent(k, t) = Extent(h, t)
  BY DEF Grew, Extent
<1> QED
  BY <1>1, <1>2, <1>3 DEF Grew, Clear

\* increase_heap and the pages behind it: on success they are clear.
LEMMA PagesTaken ==
    ASSUME NEW h, Sound(h), NEW key \in Key
    PROVE  LET taken == TakePages(h, key)
               k == taken.heap
           IN  /\ Sound(k) /\ Grew(h, k)
               /\ \A held : Owned(h, held) => Owned(k, held)
               /\ taken.ok =>
                     Clear(k, h.heap_end + 1, SlabPages[key.size])
<1> DEFINE taken == TakePages(h, key)
           k == taken.heap
           n == SlabPages[key.size]
<1>1. /\ h \in HeapState /\ h.heap_end \in 0..MaxPages /\ h.frames \in 0..Frames
      /\ MaxPages \in Nat /\ Frames \in Nat /\ n \in Nat \ {0}
  BY Numbers DEF Sound, HeapState
<1>2. /\ taken.ok <=> (h.heap_end + n <= MaxPages /\ h.frames >= n)
      /\ k = IF h.heap_end + n > MaxPages THEN h
             ELSE IF h.frames < n THEN [h EXCEPT !.heap_end = @ + n]
             ELSE [h EXCEPT !.heap_end = @ + n, !.frames = @ - n]
  BY DEF TakePages
<1> HIDE DEF n, taken
<1>3. /\ k \in HeapState /\ k.slab = h.slab /\ k.cache = h.cache
      /\ k.caches = h.caches /\ k.heapinfo = h.heapinfo
      /\ k.internal = h.internal /\ h.heap_end <= k.heap_end
      /\ taken.ok => k.heap_end = h.heap_end + n
  <2>1. CASE h.heap_end + n > MaxPages
    BY <1>1, <1>2, <2>1
  <2>2. CASE h.heap_end + n <= MaxPages /\ h.frames < n
    <3>1. k = [h EXCEPT !.heap_end = h.heap_end + n]
      BY <1>1, <1>2, <2>2
    <3>2. h.heap_end + n \in 0..MaxPages
      BY <1>1, <2>2
    <3>3. k.heap_end = h.heap_end + n
      BY <1>1, <3>1 DEF HeapState
    <3>4. /\ k \in HeapState /\ k.slab = h.slab /\ k.cache = h.cache
          /\ k.caches = h.caches /\ k.heapinfo = h.heapinfo
          /\ k.internal = h.internal
      BY <1>1, <3>1, <3>2 DEF HeapState
    <3> QED
      BY <1>1, <3>3, <3>4
  <2>3. CASE h.heap_end + n <= MaxPages /\ h.frames >= n
    <3>1. k = [h EXCEPT !.heap_end = h.heap_end + n, !.frames = h.frames - n]
      BY <1>1, <1>2, <2>3
    <3>2. h.heap_end + n \in 0..MaxPages /\ h.frames - n \in 0..Frames
      BY <1>1, <2>3
    <3>3. k.heap_end = h.heap_end + n
      BY <1>1, <3>1 DEF HeapState
    <3>4. /\ k \in HeapState /\ k.slab = h.slab /\ k.cache = h.cache
          /\ k.caches = h.caches /\ k.heapinfo = h.heapinfo
          /\ k.internal = h.internal
      BY <1>1, <3>1, <3>2 DEF HeapState
    <3> QED
      BY <1>1, <3>3, <3>4
  <2> QED
    BY <1>1, <2>1, <2>2, <2>3
<1> HIDE DEF k
<1>4. Sound(k) /\ Grew(h, k) /\ \A held : Owned(h, held) => Owned(k, held)
  BY <1>3, LooseSound
<1>5. ASSUME taken.ok
      PROVE  Clear(k, h.heap_end + 1, n)
  <2>1. h.heap_end + 1 > 1 /\ h.heap_end + 1 + n <= k.heap_end + 1
    <3>1. 1 + Extent(h, 1) <= h.heap_end + 1 /\ Extent(h, 1) \in Nat \ {0}
      BY Numbers, SlabTyped DEF Sound, Placed, Extent, SlabRecord
    <3> QED
      BY <1>1, <1>3, <1>5, <3>1
  <2>2. \A t \in DOMAIN k.slab : t + Extent(k, t) <= h.heap_end + 1
    BY <1>3 DEF Sound, Placed, Extent
  <2> QED
    BY <2>1, <2>2 DEF Clear
<1> QED
  BY <1>4, <1>5 DEF k, taken, n

\* The free list of a new slab.
LEMMA NewSlabFacts ==
    ASSUME NEW key \in Key
    PROVE  LET slab == NewSlab(key, HeaderSlots(key))
           IN  /\ slab \in SlabRecord /\ slab.cache = key
               /\ slab.next = 0 /\ slab.prev = 0
               /\ slab.free_count = Len(slab.free_obj)
               /\ IsInjective(slab.free_obj)
               /\ Range(slab.free_obj) = HeaderSlots(key)..(Slots(key) - 1)
<1> DEFINE first == HeaderSlots(key)
           slots == Slots(key)
           n == slots - first
           chain == [i \in 1..n |-> first + i - 1]
           slab == NewSlab(key, first)
<1>1. first \in Nat /\ slots \in Nat /\ n \in Nat
  BY SlotsTyped
<1>2. /\ slab.cache = key /\ slab.next = 0 /\ slab.prev = 0
      /\ slab.free_count = n /\ slab.free_obj = chain
      /\ slab = [cache |-> key, next |-> 0, prev |-> 0, free_count |-> n,
                 free_obj |-> chain]
  BY DEF NewSlab, SlabInit
<1> HIDE DEF first, slots, slab
<1>3. chain \in Seq(Nat) /\ Len(chain) = n
  BY <1>1
<1>4. IsInjective(chain)
  BY <1>1 DEF IsInjective
<1>5. Range(chain) = first..(slots - 1)
  <2>1. ASSUME NEW a \in first..(slots - 1)
        PROVE  a \in Range(chain)
    <3>1. a - first + 1 \in 1..n /\ chain[a - first + 1] = a
      BY <1>1
    <3> QED
      BY <3>1 DEF Range
  <2>2. ASSUME NEW a \in Range(chain)
        PROVE  a \in first..(slots - 1)
    BY <1>1 DEF Range
  <2> QED
    BY <2>1, <2>2
<1>6. slab \in SlabRecord
  <2>1. 0 \in SlabOrNull
    BY Numbers DEF SlabOrNull
  <2> QED
    BY <1>1, <1>2, <1>3, <2>1 DEF SlabRecord
<1> QED
  BY <1>2, <1>3, <1>4, <1>5, <1>6 DEF slab, first, slots

\* k is h with slab s of cache key, which has not been in memory before.
Added(h, k, key, s) ==
    /\ Sound(k)
    /\ DOMAIN k.slab = DOMAIN h.slab \cup {s} /\ k.slab[s].cache = key
    /\ \A t \in DOMAIN h.slab : k.slab[t].cache = h.slab[t].cache
    /\ \A held : Owned(h, held) => Owned(k, held)
    /\ k.heap_end = h.heap_end /\ k.caches = h.caches

\* The first writes of cache_grow's end: the slab_t, and the cache's list.
LEMMA SlabAdded ==
    ASSUME NEW h, Sound(h), NEW key \in Key, NEW s \in Pages,
           Clear(h, s, SlabPages[key.size])
    PROVE  LET k == [h EXCEPT !.slab = [t \in DOMAIN @ \cup {s} |->
                                  IF t = s THEN NewSlab(key, HeaderSlots(key))
                                  ELSE @[t]],
                              !.cache[key].free_slabs = s]
           IN  /\ Added(h, k, key, s)
               /\ k.mapped = h.mapped /\ k.frames = h.frames
               /\ k.heapinfo = h.heapinfo
<1> DEFINE slab == NewSlab(key, HeaderSlots(key))
           S == DOMAIN h.slab
           new == [t \in S \cup {s} |-> IF t = s THEN slab ELSE h.slab[t]]
           i == [h EXCEPT !.slab = new]
           k == [i EXCEPT !.cache[key].free_slabs = s]
           n == SlabPages[key.size]
<1>1. /\ slab \in SlabRecord /\ slab.cache = key
      /\ slab.next = 0 /\ slab.prev = 0
      /\ slab.free_count = Len(slab.free_obj)
      /\ IsInjective(slab.free_obj)
      /\ Range(slab.free_obj) = HeaderSlots(key)..(Slots(key) - 1)
  BY NewSlabFacts
<1> HIDE DEF slab
<1>2. /\ h \in HeapState /\ S \in SUBSET Pages /\ Linked(h) /\ n \in Nat \ {0}
      /\ h.heap_end \in 0..MaxPages /\ MaxPages \in Nat
      /\ \A t \in S : h.slab[t] \in SlabRecord /\ Extent(h, t) \in Nat \ {0}
  BY SlabTyped, Numbers DEF Sound, Extent, SlabRecord, HeapState
<1>3. s \notin S /\ s # 1 /\ s \in Nat
  BY <1>2 DEF Clear, Pages
<1>4. i \in HeapState
  <2>1. new \in [S \cup {s} -> SlabRecord] /\ S \cup {s} \in SUBSET Pages
    BY <1>1, <1>2
  <2> HIDE DEF new
  <2>2. new \in UNION {[T -> SlabRecord] : T \in SUBSET Pages}
    BY <2>1
  <2> QED
    BY <1>2, <2>2 DEF HeapState
<1>5. i.slab = new /\ i.cache = h.cache
  BY <1>2 DEF HeapState
<1>6. /\ DOMAIN i.slab = S \cup {s} /\ i.slab[s] = slab
      /\ \A t \in S : i.slab[t] = h.slab[t]
  BY <1>3, <1>5
<1>7. /\ i.caches = h.caches /\ i.heap_end = h.heap_end
      /\ i.heapinfo = h.heapinfo /\ i.mapped = h.mapped /\ i.frames = h.frames
      /\ i.internal = h.internal /\ i.fault = h.fault
  BY <1>2 DEF HeapState
<1> HIDE DEF new, i
<1>8. Linked(i)
  BY <1>1, <1>2, <1>5, <1>6 DEF Linked, Pointers
<1>9. SameObjects(i, k)
  BY <1>4, <1>6, <1>8, FreeSame DEF Pointers
<1>10. Sound(i)
  <2>1. Placed(i)
    <3>1. Extent(i, s) = n /\ \A t \in S : Extent(i, t) = Extent(h, t)
      BY <1>1, <1>6 DEF Extent
    <3>2. \A t \in S : t \in Nat
      BY <1>2 DEF Pages
    <3>3. \A t \in S : t < s => t + Extent(h, t) <= s
      BY <1>2, <1>3, <3>2 DEF Clear
    <3>4. \A t \in S : s < t => s + n <= t
      BY <1>2, <1>3, <3>2 DEF Clear
    <3>5. s + n <= h.heap_end + 1
      BY DEF Clear
    <3>6. 1 \in DOMAIN i.slab
      BY <1>6 DEF Sound, Placed
    <3>7. \A t \in DOMAIN i.slab : t + Extent(i, t) <= i.heap_end + 1
      BY <1>6, <1>7, <3>1, <3>5 DEF Sound, Placed
    <3>8. ASSUME NEW t \in DOMAIN i.slab, NEW u \in DOMAIN i.slab, t < u
          PROVE  t + Extent(i, t) <= u
      <4>1. CASE t \in S /\ u \in S
        BY <3>1, <3>8, <4>1 DEF Sound, Placed
      <4>2. CASE t = s /\ u \in S
        BY <3>1, <3>4, <3>8, <4>2
      <4>3. CASE t \in S /\ u = s
        BY <3>1, <3>3, <3>8, <4>3
      <4>4. t # s \/ u # s
        BY <1>3, <3>8
      <4> QED
        BY <1>6, <4>1, <4>2, <4>3, <4>4
    <3> QED
      BY <3>6, <3>7, <3>8 DEF Placed
  <2>2. Known(i)
    BY <1>6, <1>7 DEF Sound, Known, Extent
  <2>3. Counted(i)
    <3>1. i.slab[s].free_count = Len(i.slab[s].free_obj) + 0
      BY <1>1, <1>6 DEF SlabRecord
    <3> QED
      BY <1>3, <1>6, <3>1 DEF Sound, Counted
  <2> QED
    BY <1>4, <1>7, <1>8, <2>1, <2>2, <2>3 DEF Sound
<1>11. ASSUME NEW held, Owned(h, held)
       PROVE  Owned(i, held)
  <2>1. /\ \A t \in S : FreeOf(i, t) = FreeOf(h, t)
        /\ FreeOf(i, s) = SlotsOf(key, s)
    BY <1>1, <1>3, <1>6 DEF FreeOf, SlotsOf
  <2>2. held \in SUBSET Object /\ held \cap i.internal = {}
    BY <1>7, <1>11 DEF Owned
  <2>3. \A o \in held \cup i.internal :
           /\ o.slab \in DOMAIN i.slab
           /\ o.at \in SlotsOf(i.slab[o.slab].cache, o.slab)
           /\ o.at \notin FreeOf(i, o.slab)
    BY <1>6, <1>7, <1>11, <2>1 DEF Owned
  <2>4. ASSUME NEW t \in DOMAIN i.slab
        PROVE  /\ IsInjective(i.slab[t].free_obj)
               /\ FreeOf(i, t) \subseteq SlotsOf(i.slab[t].cache, t)
               /\ i.slab[t].cache.size <= PAGE_SIZE =>
                     \A at \in SlotsOf(i.slab[t].cache, t) :
                         \/ at \in FreeOf(i, t)
                         \/ [slab |-> t, at |-> at] \in held \cup i.internal
    <3>1. CASE t = s
      BY <1>1, <1>6, <2>1, <3>1
    <3>2. CASE t \in S
      BY <1>6, <1>7, <1>11, <2>1, <3>2 DEF Owned
    <3> QED
      BY <1>6, <3>1, <3>2
  <2> QED
    BY <2>2, <2>3, <2>4 DEF Owned
<1> HIDE DEF k
<1>12. Sound(k) /\ \A held : Owned(h, held) => Owned(k, held)
  BY <1>9, <1>10, <1>11, SoundSameObjects, OwnedSameObjects
<1>13. /\ Added(h, k, key, s) /\ k.mapped = h.mapped /\ k.frames = h.frames
       /\ k.heapinfo = h.heapinfo
  BY <1>1, <1>6, <1>7, <1>9, <1>12 DEF Added, SameObjects
<1>14. k = [h EXCEPT !.slab = [t \in DOMAIN @ \cup {s} |->
                                  IF t = s THEN NewSlab(key, HeaderSlots(key))
                                  ELSE @[t]],
                     !.cache[key].free_slabs = s]
  BY Zenon DEF k, i, new, slab
<1> QED
  BY <1>13, <1>14

\* The page of heapinfo of a heap page.
LEMMA InfoPageTyped ==
    ASSUME NEW s \in Pages
    PROVE  InfoPage(s) \in 0..MaxPages
<1> DEFINE a == s - 1
           q == a \div InfoSpan
<1>1. a \in Nat /\ a <= MaxPages /\ InfoSpan \in Nat \ {0} /\ MaxPages \in Nat
  BY Numbers DEF Pages
<1> HIDE DEF a
<1>2. q \in Nat /\ q * InfoSpan <= a
  BY <1>1, Room
<1>3. InfoPage(s) = q
  BY DEF InfoPage, a
<1> HIDE DEF q
<1>4. q <= q * InfoSpan /\ q * InfoSpan \in Nat
  BY <1>1, <1>2
<1> QED
  BY <1>1, <1>2, <1>3, <1>4

\* The heapinfo entries of a slab's pages may be written.
LEMMA InfoSound ==
    ASSUME NEW h, Sound(h), NEW s \in DOMAIN h.slab
    PROVE  LET k == [h EXCEPT !.heapinfo =
                        [p \in Pages |->
                           IF p \in s..(s + Extent(h, s) - 1) THEN s ELSE @[p]]]
           IN  /\ Sound(k) /\ Grew(h, k) /\ k.slab = h.slab
               /\ \A held : Owned(h, held) => Owned(k, held)
<1> DEFINE pages == s..(s + Extent(h, s) - 1)
           info == [p \in Pages |-> IF p \in pages THEN s ELSE h.heapinfo[p]]
           k == [h EXCEPT !.heapinfo = info]
<1>1. /\ h \in HeapState /\ s \in Pages /\ h.heap_end \in Int
      /\ Extent(h, s) \in Nat \ {0} /\ s \in Nat
  <2>1. h \in HeapState
    BY DEF Sound
  <2>2. s \in Pages /\ h.slab[s] \in SlabRecord
    BY <2>1, SlabTyped
  <2>3. h.slab[s].cache \in Key
    BY <2>2 DEF SlabRecord
  <2>4. h.heap_end \in Int
    BY <2>1, Numbers DEF HeapState
  <2> QED
    BY <2>1, <2>2, <2>3, <2>4, Numbers DEF Extent, Pages
<1>2. info \in [Pages -> SlabOrNull]
  <2>1. s \in SlabOrNull
    BY <1>1, Numbers DEF Pages, SlabOrNull
  <2> QED
    BY <1>1, <2>1 DEF HeapState
<1>3. \A p \in Pages : info[p] = IF p \in pages THEN s ELSE h.heapinfo[p]
  OBVIOUS
<1>4. k = [h EXCEPT !.heapinfo =
              [p \in Pages |->
                 IF p \in s..(s + Extent(h, s) - 1) THEN s ELSE @[p]]]
  OBVIOUS
<1> HIDE DEF info
<1>5. /\ k \in HeapState /\ k.slab = h.slab /\ k.cache = h.cache
      /\ k.caches = h.caches /\ k.internal = h.internal
      /\ k.heap_end = h.heap_end /\ k.heapinfo = info
  BY <1>1, <1>2 DEF HeapState
<1> HIDE DEF k
<1>6. Known(k)
  <2> SUFFICES ASSUME NEW p \in Pages, info[p] # 0
               PROVE  /\ info[p] \in DOMAIN h.slab /\ info[p] <= p
                      /\ p < info[p] + Extent(h, info[p])
    BY <1>5 DEF Known, Extent
  <2>1. CASE p \in pages
    <3>1. info[p] = s /\ s <= p /\ p <= s + Extent(h, s) - 1 /\ p \in Int
      BY <1>1, <1>3, <2>1
    <3> QED
      BY <1>1, <3>1
  <2>2. CASE p \notin pages
    BY <1>3, <2>2 DEF Sound, Known
  <2> QED
    BY <2>1, <2>2
<1>7. Sound(k)
  BY <1>5, <1>6 DEF Sound, Linked, Pointers, Placed, Counted, Extent
<1>8. Grew(h, k)
  BY <1>1, <1>5 DEF Grew
<1>9. ASSUME NEW held, Owned(h, held)
      PROVE  Owned(k, held)
  BY <1>5, <1>9 DEF Owned, FreeOf
<1> QED
  BY <1>4, <1>5, <1>7, <1>8, <1>9

\* The end of cache_grow, for a heap h that grew from g.
LEMMA Published ==
    ASSUME NEW g, Sound(g), NEW h, Sound(h), Grew(g, h),
           NEW held, Owned(h, held), NEW key \in Key, NEW s \in Pages,
           s > g.heap_end, Clear(h, s, SlabPages[key.size])
    PROVE  Grown(g, PublishSlab(h, key, s), held)
<1> DEFINE n == SlabPages[key.size]
           pages == s..(s + n - 1)
           h1 == [h EXCEPT !.slab = [t \in DOMAIN @ \cup {s} |->
                                        IF t = s THEN NewSlab(key, HeaderSlots(key))
                                        ELSE @[t]],
                           !.cache[key].free_slabs = s]
           h2 == IF InfoPage(s) \in h.mapped THEN h1
                 ELSE [h1 EXCEPT !.mapped = @ \cup {InfoPage(s)},
                                 !.frames = @ - 1]
           h3 == [h2 EXCEPT !.heapinfo =
                     [p \in Pages |-> IF p \in pages THEN s ELSE @[p]]]
           r == PublishSlab(h, key, s)
           NoRoom == InfoPage(s) \notin h.mapped /\ h.frames = 0
           All == \A p \in pages : InfoPage(p) \in h2.mapped
<1>1. r = IF NoRoom THEN Failed(h1)
          ELSE IF All THEN [heap |-> h3, slab |-> s]
          ELSE Failed(Fault(h2))
  BY Zenon DEF PublishSlab
<1>2. /\ Added(h, h1, key, s)
      /\ h1.mapped = h.mapped /\ h1.frames = h.frames
      /\ h1.heapinfo = h.heapinfo
  BY SlabAdded
<1> HIDE DEF h1, All, r
<1>3. Sound(h1) /\ Owned(h1, held) /\ Grew(g, h1) /\ s \in DOMAIN h1.slab
  BY <1>2 DEF Added, Grew
<1>4. ASSUME ~NoRoom
      PROVE  /\ Sound(h2) /\ Owned(h2, held) /\ Grew(g, h2)
             /\ h2.slab = h1.slab
  <2>1. CASE InfoPage(s) \in h.mapped
    BY <1>3, <2>1
  <2>2. CASE InfoPage(s) \notin h.mapped
    <3> DEFINE m == h1.mapped \cup {InfoPage(s)}
               f == h1.frames - 1
               k == [h1 EXCEPT !.mapped = m, !.frames = f]
    <3>1. /\ h1 \in HeapState /\ h1.frames \in 0..Frames /\ h1.frames # 0
          /\ Frames \in Nat /\ h1.heap_end \in Int
      <4>1. h1 \in HeapState
        BY <1>3 DEF Sound
      <4>2. h1.frames \in 0..Frames /\ h1.heap_end \in Int
        BY <4>1, Numbers DEF HeapState
      <4>3. h1.frames # 0
        BY <1>2, <1>4, <2>2
      <4> QED
        BY <4>1, <4>2, <4>3, Numbers
    <3>2. m \in SUBSET (0..MaxPages) /\ f \in 0..Frames
      BY <3>1, InfoPageTyped DEF HeapState
    <3>3. h2 = k
      BY <2>2
    <3> HIDE DEF m, f, h2
    <3>4. /\ k \in HeapState /\ k.slab = h1.slab /\ k.cache = h1.cache
          /\ k.caches = h1.caches /\ k.heapinfo = h1.heapinfo
          /\ k.internal = h1.internal /\ k.heap_end = h1.heap_end
      BY <3>1, <3>2 DEF HeapState
    <3> HIDE DEF k
    <3>5. Sound(k) /\ Grew(h1, k) /\ Owned(k, held)
      BY <1>3, <3>1, <3>4, LooseSound
    <3>6. Grew(g, k)
      BY <1>3, <3>5, GrewThen
    <3> QED
      BY <3>3, <3>4, <3>5, <3>6
  <2> QED
    BY <2>1, <2>2
<1> HIDE DEF h2
<1>5. CASE NoRoom
  <2>1. r.heap = h1 /\ r.slab = 0
    BY <1>1, <1>5 DEF Failed
  <2>2. Grown(g, r, held)
    BY <1>3, <2>1 DEF Grown, Pointers
  <2> QED
    BY <2>2 DEF r
<1>6. CASE ~NoRoom /\ All
  <2>1. r.heap = h3 /\ r.slab = s
    BY <1>1, <1>6
  <2>2. Extent(h2, s) = n /\ s \in DOMAIN h2.slab
    BY <1>2, <1>3, <1>4, <1>6 DEF Extent, Added
  <2>3. h3 = [h2 EXCEPT !.heapinfo =
                 [p \in Pages |->
                    IF p \in s..(s + Extent(h2, s) - 1) THEN s ELSE @[p]]]
    BY <2>2
  <2>4. /\ Sound(h3) /\ Grew(h2, h3) /\ h3.slab = h2.slab
        /\ Owned(h3, held)
    <3> HIDE DEF h3
    <3> QED
      BY <1>4, <1>6, <2>2, <2>3, InfoSound
  <2> HIDE DEF h3
  <2>5. Grew(g, h3)
    BY <1>4, <1>6, <2>4, GrewThen
  <2>6. Grown(g, r, held)
    BY <2>1, <2>2, <2>4, <2>5 DEF Grown, Pointers
  <2> QED
    BY <2>6 DEF r
<1>7. CASE ~NoRoom /\ ~All
  <2>1. r.heap = Fault(h2) /\ r.slab = 0
    BY <1>1, <1>7 DEF Failed
  <2>2. /\ Sound(Fault(h2)) /\ Owned(Fault(h2), held) /\ Grew(h2, Fault(h2))
    BY <1>4, <1>7, FaultSound
  <2>3. Grew(g, Fault(h2))
    BY <1>4, <1>7, <2>2, GrewThen
  <2>4. Grown(g, r, held)
    BY <2>1, <2>2, <2>3 DEF Grown, Pointers
  <2> QED
    BY <2>4 DEF r
<1> QED
  BY <1>5, <1>6, <1>7

\* What has no memory has not grown by a slab.
LEMMA FailedGrown ==
    ASSUME NEW h, NEW k, Sound(k), Grew(h, k), NEW held, Owned(k, held)
    PROVE  Grown(h, Failed(k), held)
  BY DEF Grown, Failed, Pointers

\* cache_grow for slabs of one page.
LEMMA OnePageGrown ==
    ASSUME NEW h, Sound(h), NEW held, Owned(h, held), NEW key \in Key,
           SlabPages[key.size] = 1
    PROVE  Grown(h, GrowOnePage(h, key), held)
<1> DEFINE taken == TakePages(h, key)
           k == taken.heap
           s == h.heap_end + 1
<1>1. /\ Sound(k) /\ Grew(h, k) /\ Owned(k, held)
      /\ taken.ok => Clear(k, s, 1)
  BY PagesTaken
<1>2. GrowOnePage(h, key) = IF taken.ok THEN PublishSlab(k, key, s)
                            ELSE Failed(k)
  BY Zenon DEF GrowOnePage
<1> HIDE DEF taken
<1>3. CASE taken.ok
  <2>1. s \in Pages /\ s > h.heap_end
    <3>1. /\ k.heap_end \in 0..MaxPages /\ h.heap_end \in 0..MaxPages
          /\ MaxPages \in Nat
      BY <1>1, Numbers DEF Sound, HeapState
    <3>2. s > 1 /\ s + 1 <= k.heap_end + 1
      BY <1>1, <1>3 DEF Clear
    <3> HIDE DEF k
    <3> QED
      BY <3>1, <3>2 DEF Pages
  <2>2. Clear(k, s, SlabPages[key.size])
    BY <1>1, <1>3
  <2> HIDE DEF s, k
  <2>3. Grown(h, PublishSlab(k, key, s), held)
    BY <1>1, <2>1, <2>2, Published
  <2> QED
    BY <1>2, <1>3, <2>3
<1>4. CASE ~taken.ok
  BY <1>1, <1>2, <1>4, FailedGrown
<1> QED
  BY <1>3, <1>4

\* The allocator's own kmalloc: the object is one of its own.
LEMMA Kmalloc32Allocated ==
    ASSUME NEW h, Sound(h), NEW held, Owned(h, held)
    PROVE  LET r == Kmalloc32(h)
           IN  Sound(r.heap) /\ Grew(h, r.heap) /\ Owned(r.heap, held)
<1> DEFINE grown == GrowOnePage(h, Cache32)
           q == CacheAlloc(h, Cache32, grown)
           o == q.object
           j == q.heap
           k == [j EXCEPT !.internal = @ \cup {o}]
           r == Kmalloc32(h)
<1>1. Grown(h, grown, held)
  BY Numbers, OnePageGrown
<1> HIDE DEF grown
<1>2. Allocated(h, q, held)
  BY <1>1, Numbers, CacheAllocated
<1>3. r = IF o = NullObject THEN q ELSE [q EXCEPT !.heap.internal = @ \cup {o}]
  BY Zenon DEF Kmalloc32, grown
<1>4. ASSUME o # NullObject
      PROVE  r.heap = k
  <2>1. q = [heap |-> j, object |-> o]
    <3> HIDE DEF q
    <3> QED
      BY <1>2 DEF Allocated
  <2> HIDE DEF q, j, o
  <2>2. r = [q EXCEPT !.heap.internal = @ \cup {o}]
    BY <1>3, <1>4
  <2> QED
    BY <2>1, <2>2
<1> HIDE DEF q, r
<1>5. CASE o = NullObject
  BY <1>2, <1>3, <1>5 DEF Allocated, r
<1>6. CASE o # NullObject
  <2>1. /\ Sound(j) /\ Grew(h, j) /\ o \in Object /\ o \notin held
        /\ o \notin j.internal /\ Owned(j, held \cup {o}) /\ j \in HeapState
    BY <1>2, <1>6 DEF Allocated, Sound
  <2> HIDE DEF j, o
  <2>2. /\ k \in HeapState /\ k.slab = j.slab /\ k.cache = j.cache
        /\ k.caches = j.caches /\ k.heapinfo = j.heapinfo
        /\ k.heap_end = j.heap_end /\ k.internal = j.internal \cup {o}
    BY <2>1 DEF HeapState
  <2> HIDE DEF k
  <2>3. Sound(k)
    BY <2>1, <2>2 DEF Sound, Linked, Pointers, Placed, Known, Counted, Extent
  <2>4. Grew(h, k)
    BY <2>1, <2>2 DEF Grew
  <2>5. held \cup k.internal = (held \cup {o}) \cup j.internal
    BY <2>2
  <2>6. held \in SUBSET Object /\ held \cap k.internal = {}
    BY <2>1, <2>2 DEF Owned
  <2>7. Owned(k, held)
    BY <2>1, <2>2, <2>5, <2>6 DEF Owned, FreeOf
  <2> QED
    BY <1>4, <1>6, <2>3, <2>4, <2>7 DEF r
<1> QED
  BY <1>5, <1>6

\* cache_grow.
LEMMA CacheGrown ==
    ASSUME NEW h, Sound(h), NEW held, Owned(h, held), NEW key \in Key
    PROVE  Grown(h, CacheGrow(h, key), held)
<1> DEFINE taken == TakePages(h, key)
           j == taken.heap
           header == Kmalloc32(j)
           k == header.heap
           s == h.heap_end + 1
           n == SlabPages[key.size]
           r == CacheGrow(h, key)
<1>1. /\ Sound(j) /\ Grew(h, j) /\ Owned(j, held)
      /\ taken.ok => Clear(j, s, n)
  BY PagesTaken
<1>2. r = IF SlabPages[key.size] = 1 THEN GrowOnePage(h, key)
          ELSE IF ~taken.ok THEN Failed(j)
          ELSE IF header.object = NullObject THEN Failed(k)
          ELSE PublishSlab(k, key, s)
  BY Zenon DEF CacheGrow
<1> HIDE DEF taken, j, r
<1>3. Sound(k) /\ Grew(j, k) /\ Owned(k, held)
  BY <1>1, Kmalloc32Allocated
<1> HIDE DEF header
<1>4. Grew(h, k)
  BY <1>1, <1>3, GrewThen
<1>5. ASSUME SlabPages[key.size] = 1
      PROVE  Grown(h, r, held)
  BY <1>2, <1>5, OnePageGrown
<1>6. ASSUME SlabPages[key.size] # 1, ~taken.ok
      PROVE  Grown(h, r, held)
  BY <1>1, <1>2, <1>6, FailedGrown
<1>7. ASSUME SlabPages[key.size] # 1, taken.ok, header.object = NullObject
      PROVE  Grown(h, r, held)
  BY <1>2, <1>3, <1>4, <1>7, FailedGrown
<1>8. ASSUME SlabPages[key.size] # 1, taken.ok, header.object # NullObject
      PROVE  Grown(h, r, held)
  <2>1. s \in Nat /\ n \in Nat \ {0} /\ s > h.heap_end
    <3>1. h \in HeapState
      BY DEF Sound
    <3>2. h.heap_end \in Nat
      BY <3>1, Numbers DEF HeapState
    <3> QED
      BY <3>2, Numbers
  <2> HIDE DEF s, n, k
  <2>2. Clear(k, s, n)
    BY <1>1, <1>3, <1>8, <2>1, ClearGrew
  <2>3. s \in Pages
    BY <1>3, <2>1, <2>2, Numbers DEF Clear, Pages, Sound, HeapState
  <2>4. Clear(k, s, SlabPages[key.size])
    BY <2>2 DEF n
  <2>5. Grown(h, PublishSlab(k, key, s), held)
    BY <1>3, <1>4, <2>1, <2>3, <2>4, Published
  <2> QED
    BY <1>2, <1>8, <2>5
<1> QED
  BY <1>5, <1>6, <1>7, <1>8 DEF r

-----------------------------------------------------------------------------
(* The list of caches *)

\* Inserting into a sequence.
LEMMA InsertFacts ==
    ASSUME NEW q \in Seq(Key), NEW e \in Key, NEW at \in 1..(Len(q) + 1)
    PROVE  LET u == InsertAt(q, at, e)
           IN  /\ u \in Seq(Key) /\ Len(u) = Len(q) + 1
               /\ \A i \in 1..(Len(q) + 1) :
                     u[i] = IF i < at THEN q[i] ELSE IF i = at THEN e ELSE q[i - 1]
<1> DEFINE a == SubSeq(q, 1, at - 1)
           b == SubSeq(q, at, Len(q))
           u == a \o <<e>> \o b
<1>1. Len(q) \in Nat /\ at \in Nat /\ at >= 1 /\ at <= Len(q) + 1
  OBVIOUS
<1>2. a \in Seq(Key) /\ Len(a) = at - 1 /\ \A i \in 1..(at - 1) : a[i] = q[i]
  BY <1>1
<1>3. /\ b \in Seq(Key) /\ Len(b) = Len(q) - at + 1
      /\ \A i \in 1..(Len(q) - at + 1) : b[i] = q[at + i - 1]
  BY <1>1
<1> HIDE DEF a, b
<1>4. u \in Seq(Key) /\ Len(u) = Len(q) + 1
  BY <1>1, <1>2, <1>3
<1> DEFINE c == a \o <<e>>
<1>5. /\ c \in Seq(Key) /\ Len(c) = at /\ c[at] = e
      /\ \A i \in 1..(at - 1) : c[i] = q[i]
  BY <1>1, <1>2
<1> HIDE DEF c
<1>6. ASSUME NEW i \in 1..(Len(q) + 1)
      PROVE  u[i] = IF i < at THEN q[i] ELSE IF i = at THEN e ELSE q[i - 1]
  <2>1. u = c \o b
    BY DEF c
  <2> HIDE DEF u
  <2>2. (c \o b)[i] = IF i <= Len(c) THEN c[i] ELSE b[i - Len(c)]
    BY <1>1, <1>3, <1>5
  <2>3. CASE i <= at
    BY <1>1, <1>5, <2>1, <2>2, <2>3
  <2>4. CASE i > at
    <3>1. i - at \in 1..(Len(q) - at + 1) /\ at + (i - at) - 1 = i - 1
      BY <1>1, <2>4
    <3>2. b[i - at] = q[i - 1]
      BY <1>3, <3>1
    <3> QED
      BY <1>1, <1>5, <2>1, <2>2, <2>4, <3>2
  <2> QED
    BY <1>1, <2>3, <2>4
<1> QED
  BY <1>4, <1>6 DEF InsertAt, a, b

\* Where cache_create puts a cache: behind all that are smaller, in front of
\* the first that is not.
LEMMA PlaceFacts ==
    ASSUME NEW q \in Seq(Key), NEW key \in Key
    PROVE  LET larger == SelectInSeq(q, LAMBDA c : c.size >= key.size)
               at == IF larger = 0 THEN Len(q) + 1 ELSE larger
           IN  /\ at \in 1..(Len(q) + 1)
               /\ \A i \in 1..(at - 1) : q[i].size < key.size
               /\ at <= Len(q) => key.size <= q[at].size
<1> DEFINE I == {i \in 1..Len(q) : q[i].size >= key.size}
           larger == IF I # {} THEN Min(I) ELSE 0
           at == IF larger = 0 THEN Len(q) + 1 ELSE larger
<1>1. SelectInSeq(q, LAMBDA c : c.size >= key.size) = larger
  BY DEF SelectInSeq
<1>2. /\ Len(q) \in Nat /\ key.size \in Nat
      /\ \A i \in 1..Len(q) : q[i] \in Key /\ q[i].size \in Nat
  BY Numbers
<1>3. I \in SUBSET Nat /\ I \in SUBSET (1..Len(q))
  OBVIOUS
<1>4. I # {} => Min(I) \in I /\ \A i \in I : Min(I) <= i
  <2> HIDE DEF I
  <2> QED
    BY <1>3, LeastElement DEF Min
<1>5. CASE I = {}
  <2>1. at = Len(q) + 1
    BY <1>5
  <2>2. \A i \in 1..Len(q) : q[i].size < key.size
    BY <1>2, <1>5
  <2> HIDE DEF at, larger
  <2>3. /\ at \in 1..(Len(q) + 1)
        /\ \A i \in 1..(at - 1) : q[i].size < key.size
        /\ at <= Len(q) => key.size <= q[at].size
    BY <1>2, <2>1, <2>2
  <2> QED
    BY <1>1, <2>3 DEF at
<1>6. CASE I # {}
  <2> DEFINE m == Min(I)
  <2>1. m \in 1..Len(q) /\ q[m].size >= key.size /\ \A i \in I : m <= i
    BY <1>4, <1>6
  <2>2. at = m
    BY <1>6, <2>1
  <2>3. \A i \in 1..Len(q) : i < m => q[i].size < key.size
    <3> HIDE DEF m
    <3> QED
      BY <1>2, <2>1
  <2> HIDE DEF at, larger, m
  <2>4. /\ at \in 1..(Len(q) + 1)
        /\ \A i \in 1..(at - 1) : q[i].size < key.size
        /\ at <= Len(q) => key.size <= q[at].size
    BY <1>2, <2>1, <2>2, <2>3
  <2> QED
    BY <1>1, <2>4 DEF at
<1> QED
  BY <1>5, <1>6

\* The list of caches stays in order when it gets a cache it has not got.
LEMMA InsertOrdered ==
    ASSUME NEW q \in Seq(Key), Ordered(q), NEW key \in Key, key \notin Range(q),
           NEW at \in 1..(Len(q) + 1),
           \A i \in 1..(at - 1) : q[i].size < key.size,
           at <= Len(q) => key.size <= q[at].size
    PROVE  Ordered(InsertAt(q, at, key)) /\ InsertAt(q, at, key) \in Seq(Key)
<1> DEFINE u == InsertAt(q, at, key)
           n == Len(q)
           old(i) == IF i < at THEN i ELSE i - 1
<1>1. /\ u \in Seq(Key) /\ Len(u) = n + 1
      /\ \A i \in 1..(n + 1) :
            u[i] = IF i < at THEN q[i] ELSE IF i = at THEN key ELSE q[i - 1]
  BY InsertFacts
<1> HIDE DEF u
<1>2. /\ n \in Nat /\ key.size \in Nat /\ at \in Nat /\ at >= 1 /\ at <= n + 1
      /\ DOMAIN q = 1..n /\ DOMAIN u = 1..(n + 1)
      /\ \A i \in 1..n : q[i].size \in Nat
  BY <1>1, Numbers
<1>3. /\ u[at] = key
      /\ \A i \in 1..(n + 1) : i # at => old(i) \in 1..n /\ u[i] = q[old(i)]
      /\ \A i, j \in 1..(n + 1) :
            i # at /\ j # at => (i < j => old(i) < old(j)) /\ (i # j => old(i) # old(j))
  BY <1>1, <1>2
<1>4. /\ \A i \in 1..(n + 1) : i < at => old(i) = i
      /\ \A i \in 1..(n + 1) : i > at => old(i) >= at
  BY <1>2
<1>5. \A i \in 1..n : q[i] # key
  BY <1>2 DEF Range
<1> HIDE DEF old
<1>6. IsInjective(u)
  <2> SUFFICES ASSUME NEW i \in 1..(n + 1), NEW j \in 1..(n + 1), u[i] = u[j],
                      i # j
               PROVE  FALSE
    BY <1>2 DEF IsInjective
  <2>1. i # at /\ j # at
    BY <1>3, <1>5
  <2>2. old(i) \in DOMAIN q /\ old(j) \in DOMAIN q /\ q[old(i)] = q[old(j)]
    BY <1>2, <1>3, <2>1
  <2> QED
    BY <1>3, <2>1, <2>2 DEF Ordered, IsInjective
<1>7. Cache32 \in Range(u)
  <2>1. PICK i \in 1..n : q[i] = Cache32
    BY <1>2 DEF Ordered, Range
  <2>2. CASE i < at
    BY <1>1, <1>2, <2>1, <2>2 DEF Range
  <2>3. CASE i >= at
    <3>1. i + 1 \in 1..(n + 1) /\ u[i + 1] = q[i + 1 - 1]
      BY <1>1, <1>2, <2>3
    <3>2. i + 1 \in DOMAIN u /\ u[i + 1] = Cache32
      BY <1>2, <2>1, <3>1
    <3> QED
      BY <3>2 DEF Range
  <2> QED
    BY <1>2, <2>2, <2>3
<1>8. ASSUME NEW i \in 1..(n + 1), NEW j \in 1..(n + 1), i < j
      PROVE  u[i].size <= u[j].size
  <2>1. CASE i # at /\ j # at
    <3>1. old(i) \in 1..n /\ old(j) \in 1..n /\ old(i) < old(j)
      BY <1>3, <1>8, <2>1
    <3> QED
      BY <1>3, <2>1, <3>1 DEF Ordered
  <2>2. CASE j = at
    BY <1>2, <1>3, <1>4, <1>8, <2>2
  <2>3. CASE i = at
    <3>1. old(j) \in 1..n /\ old(j) >= at /\ u[j] = q[old(j)] /\ u[i] = key
      BY <1>2, <1>3, <1>4, <1>8, <2>3
    <3>2. at \in 1..n /\ key.size <= q[at].size
      BY <1>2, <3>1
    <3>3. q[at].size <= q[old(j)].size
      <4>1. CASE old(j) = at
        BY <1>2, <3>2, <4>1
      <4>2. CASE old(j) > at
        BY <3>1, <3>2, <4>2 DEF Ordered
      <4> QED
        BY <1>2, <3>1, <4>1, <4>2
    <3> QED
      BY <1>2, <3>1, <3>2, <3>3
  <2> QED
    BY <2>1, <2>2, <2>3
<1>9. Ordered(u)
  BY <1>1, <1>6, <1>7, <1>8 DEF Ordered
<1> QED
  BY <1>1, <1>9 DEF u

\* cache_create, for a cache that is not in the list.
LEMMA CacheCreated ==
    ASSUME NEW h, Sound(h), NEW held, Owned(h, held), NEW key \in Key,
           key \notin Range(h.caches)
    PROVE  LET k == CacheCreate(h, key).heap
           IN  Sound(k) /\ Owned(k, held)
<1> DEFINE header == Kmalloc32(h)
           j == header.heap
           larger == SelectInSeq(j.caches, LAMBDA c : c.size >= key.size)
           at == IF larger = 0 THEN Len(j.caches) + 1 ELSE larger
           list == InsertAt(j.caches, at, key)
           none == [full_slabs |-> 0, particial_slabs |-> 0, free_slabs |-> 0]
           k == [j EXCEPT !.caches = list, !.cache[key] = none]
           r == CacheCreate(h, key)
<1>1. Sound(j) /\ Grew(h, j) /\ Owned(j, held)
  BY Kmalloc32Allocated
<1>2. r = IF header.object = NullObject THEN [heap |-> j, ok |-> FALSE]
          ELSE [heap |-> k, ok |-> TRUE]
  BY Zenon DEF CacheCreate
<1> HIDE DEF header, r
<1>3. /\ j \in HeapState /\ j.caches \in Seq(Key) /\ Ordered(j.caches)
      /\ key \notin Range(j.caches)
  BY <1>1 DEF Sound, HeapState, Grew
<1> HIDE DEF j
<1>4. /\ at \in 1..(Len(j.caches) + 1)
      /\ \A i \in 1..(at - 1) : j.caches[i].size < key.size
      /\ at <= Len(j.caches) => key.size <= j.caches[at].size
  BY <1>3, PlaceFacts
<1> HIDE DEF at
<1>5. Ordered(list) /\ list \in Seq(Key)
  BY <1>3, <1>4, InsertOrdered
<1> HIDE DEF list
<1>6. none \in CacheRecord
  BY Numbers DEF CacheRecord, SlabOrNull
<1>7. /\ k \in HeapState /\ k.slab = j.slab /\ k.caches = list
      /\ k.heapinfo = j.heapinfo /\ k.internal = j.internal
      /\ k.heap_end = j.heap_end /\ k.cache = [j.cache EXCEPT ![key] = none]
  BY <1>3, <1>5, <1>6 DEF HeapState
<1>8. Linked(k)
  <2>1. \A c \in Key : k.cache[c] = IF c = key THEN none ELSE j.cache[c]
    BY <1>3, <1>7 DEF HeapState
  <2> HIDE DEF k
  <2> QED
    BY <1>1, <1>7, <2>1 DEF Sound, Linked, Pointers
<1> HIDE DEF k
<1>9. Sound(k)
  BY <1>1, <1>5, <1>7, <1>8 DEF Sound, Placed, Known, Counted, Extent
<1>10. Owned(k, held)
  BY <1>1, <1>7 DEF Owned, FreeOf
<1>11. Sound(r.heap) /\ Owned(r.heap, held)
  BY <1>1, <1>2, <1>9, <1>10
<1> QED
  BY <1>11 DEF r

-----------------------------------------------------------------------------
(* kmalloc *)

\* What kmalloc returns, whatever it did to the list of caches.
Served(r, held) ==
    /\ Sound(r.heap)
    /\ \/ r.object = NullObject /\ Owned(r.heap, held)
       \/ r.object # NullObject /\ Owned(r.heap, held \cup {r.object})

\* A request has an object size.
LEMMA ObjSizeFacts ==
    ASSUME NEW size \in Nat, \E s \in DOMAIN SlabPages : s >= size
    PROVE  ObjSize(size) \in DOMAIN SlabPages /\ ObjSize(size) >= size
<1> DEFINE T == {s \in DOMAIN SlabPages : s >= size}
<1>1. T \in SUBSET Nat /\ T # {}
  BY SlabHeapAssumption
<1>2. PICK m \in T : \A k \in T : m <= k
  BY <1>1, LeastElement
<1>3. \E o \in DOMAIN SlabPages :
         /\ o >= size
         /\ \A other \in DOMAIN SlabPages : other >= size => o <= other
  BY <1>2
<1> QED
  BY <1>3 DEF ObjSize

\* The whole of kmalloc.
LEMMA KmallocServed ==
    ASSUME NEW h, Sound(h), NEW held, Owned(h, held),
           NEW size \in Nat, \E s \in DOMAIN SlabPages : s >= size,
           NEW dma \in BOOLEAN
    PROVE  Served(KmallocResult(h, size, dma), held)
<1> DEFINE key == [size |-> ObjSize(size), dma |-> dma]
           created == CacheCreate(h, key)
           j == created.heap
           r == KmallocResult(h, size, dma)
<1>1. key \in Key
  BY ObjSizeFacts DEF Key
<1>2. r = IF key \in Range(h.caches) THEN CacheAlloc(h, key, CacheGrow(h, key))
          ELSE IF created.ok THEN CacheAlloc(j, key, CacheGrow(j, key))
          ELSE NoObject(j)
  BY Zenon DEF KmallocResult
<1> HIDE DEF key, created, r
<1>3. ASSUME NEW g, Sound(g), Owned(g, held),
             r = CacheAlloc(g, key, CacheGrow(g, key))
      PROVE  Served(r, held)
  <2>1. Grown(g, CacheGrow(g, key), held)
    BY <1>1, <1>3, CacheGrown
  <2>2. Allocated(g, r, held)
    BY <1>1, <1>3, <2>1, CacheAllocated
  <2> QED
    BY <2>2 DEF Allocated, Served
<1>4. ASSUME key \in Range(h.caches)
      PROVE  Served(r, held)
  BY <1>2, <1>3, <1>4
<1>5. ASSUME key \notin Range(h.caches)
      PROVE  Served(r, held)
  <2>1. Sound(j) /\ Owned(j, held)
    BY <1>1, <1>5, CacheCreated DEF created
  <2>2. CASE created.ok
    BY <1>2, <1>3, <1>5, <2>1, <2>2
  <2>3. CASE ~created.ok
    <3>1. r.heap = j /\ r.object = NullObject
      BY <1>2, <1>5, <2>3 DEF NoObject
    <3> QED
      BY <2>1, <3>1 DEF Served
  <2> QED
    BY <2>2, <2>3
<1> QED
  BY <1>4, <1>5 DEF r

-----------------------------------------------------------------------------
(* kfree *)

\* heapinfo leads from an object to its slab, or nowhere.
LEMMA OwnSlab ==
    ASSUME NEW h, Sound(h), NEW held, Owned(h, held), NEW o \in held
    PROVE  LET owner == h.slab[o.slab].cache
               page == (Offset(owner, o) \div PAGE_SIZE) + 1
           IN  /\ page \in Pages
               /\ h.heapinfo[page] # 0 => h.heapinfo[page] = o.slab
               /\ owner.size <= PAGE_SIZE => Offset(owner, o) % owner.size = 0
<1> DEFINE s == o.slab
           owner == h.slab[s].cache
           page == (Offset(owner, o) \div PAGE_SIZE) + 1
           t == h.heapinfo[page]
<1>1. /\ h \in HeapState /\ o \in Object /\ s \in DOMAIN h.slab
      /\ o.at \in SlotsOf(owner, s)
  BY DEF Sound, Owned
<1>2. owner \in Key /\ s \in Pages /\ o.at \in Nat
  BY <1>1, SlabTyped DEF Object, SlabRecord
<1>3. o.at < Slots(owner)
  BY <1>1, <1>2, SlotsTyped DEF SlotsOf
<1>4. /\ page \in Nat /\ s <= page /\ page < s + SlabPages[owner.size]
      /\ owner.size <= PAGE_SIZE => Offset(owner, o) % owner.size = 0
  <2> HIDE DEF owner
  <2> QED
    BY <1>2, <1>3, PageOf
<1>5. Extent(h, s) = SlabPages[owner.size]
  BY DEF Extent
<1> HIDE DEF owner, page
<1>6. /\ \A x \in DOMAIN h.slab : x \in Nat \ {0} /\ Extent(h, x) \in Nat
      /\ h.heap_end \in 0..MaxPages /\ MaxPages \in Nat
  <2>1. \A x \in DOMAIN h.slab : x \in Pages /\ h.slab[x].cache \in Key
    BY <1>1, SlabTyped DEF SlabRecord
  <2>2. \A x \in DOMAIN h.slab : x \in Nat \ {0} /\ Extent(h, x) \in Nat
    BY <2>1, Numbers DEF Pages, Extent
  <2>3. h.heap_end \in 0..MaxPages /\ MaxPages \in Nat
    BY <1>1, Numbers DEF HeapState
  <2> QED
    BY <2>2, <2>3
<1>7. s + Extent(h, s) <= h.heap_end + 1
  BY <1>1 DEF Sound, Placed
<1>8. page \in Pages
  BY <1>1, <1>4, <1>5, <1>6, <1>7 DEF Pages
<1>9. ASSUME t # 0
      PROVE  t = s
  <2>1. t \in DOMAIN h.slab /\ t <= page /\ page < t + Extent(h, t)
    BY <1>8, <1>9 DEF Sound, Known
  <2>2. CASE t < s
    <3>1. t + Extent(h, t) <= s
      BY <1>1, <2>1, <2>2 DEF Sound, Placed
    <3> HIDE DEF t, s
    <3> QED
      BY <1>1, <1>4, <1>6, <2>1, <3>1
  <2>3. CASE s < t
    <3>1. s + Extent(h, s) <= t
      BY <1>1, <2>1, <2>3 DEF Sound, Placed
    <3> HIDE DEF t, s
    <3> QED
      BY <1>1, <1>4, <1>5, <1>6, <2>1, <3>1
  <2> HIDE DEF t, s
  <2> QED
    BY <1>1, <1>6, <2>1, <2>2, <2>3
<1> QED
  BY <1>4, <1>8, <1>9 DEF owner, page

\* slab_free refuses an object larger than a page that lies off its
\* alignment: it is nobody's from then on.
LEMMA LostOwned ==
    ASSUME NEW h, NEW held, Owned(h, held), NEW o \in held,
           ~(h.slab[o.slab].cache.size <= PAGE_SIZE)
    PROVE  Owned(h, held \ {o})
<1>1. \A s \in DOMAIN h.slab : \A at :
         h.slab[s].cache.size <= PAGE_SIZE => [slab |-> s, at |-> at] # o
  OBVIOUS
<1> QED
  BY <1>1 DEF Owned

\* The whole of kfree.
LEMMA KfreeFreed ==
    ASSUME NEW h, Sound(h), NEW held, Owned(h, held), NEW o \in held
    PROVE  LET k == KfreeResult(h, o)
           IN  Sound(k) /\ (k.fault \/ Owned(k, held \ {o}))
<1> DEFINE s == o.slab
           owner == h.slab[s].cache
           page == (Offset(owner, o) \div PAGE_SIZE) + 1
           t == h.heapinfo[page]
           h1 == SlabFree(h, t, o)
           k == KfreeResult(h, o)
           rest == held \ {o}
<1>1. /\ h \in HeapState /\ o \in Object /\ s \in DOMAIN h.slab /\ Linked(h)
  BY DEF Sound, Owned
<1>2. owner \in Key /\ s \in Pages /\ o.at \in Nat
      /\ h.slab[s].free_obj \in Seq(Nat)
  BY <1>1, SlabTyped DEF Object, SlabRecord
<1>3. /\ t # 0 => t = s
      /\ owner.size <= PAGE_SIZE => Offset(owner, o) % owner.size = 0
  BY OwnSlab
<1>4. k = IF InfoPage(page) \notin h.mapped \/ t = 0 THEN Fault(h)
          ELSE IF h1.slab[t].free_count = FreeCount(h1.slab[t])
               THEN MoveToFree(h1, h1.slab[t].cache, t)
               ELSE h1
  BY Zenon DEF KfreeResult
<1> HIDE DEF page, k
<1>5. ASSUME InfoPage(page) \notin h.mapped \/ t = 0
      PROVE  Sound(k) /\ k.fault
  <2>1. k = Fault(h)
    BY <1>4, <1>5
  <2>2. Fault(h).fault
    BY <1>1 DEF Fault, HeapState
  <2> QED
    BY <2>1, <2>2, FaultSound
<1>6. ASSUME t = s
      PROVE  Sound(h1) /\ Owned(h1, rest) /\ s \in DOMAIN h1.slab
  <2>1. CASE Offset(owner, o) % owner.size # 0
    <3>1. h1 = h
      BY <1>6, <2>1 DEF SlabFree
    <3>2. Owned(h, rest)
      BY <1>3, <2>1, LostOwned
    <3> QED
      BY <1>1, <3>1, <3>2
  <2>2. CASE Offset(owner, o) % owner.size = 0
    <3> DEFINE chain == <<o.at>> \o h.slab[s].free_obj
               count == h.slab[s].free_count + 1
               j == [h EXCEPT !.slab[s].free_obj = chain,
                              !.slab[s].free_count = count]
    <3>1. h1 = j
      BY <1>6, <2>2 DEF SlabFree
    <3>2. chain \in Seq(Nat) /\ Len(chain) = Len(h.slab[s].free_obj) + 1
      BY <1>2, ConsFacts
    <3> DEFINE f == h.slab[s].free_count
               l == Len(h.slab[s].free_obj)
    <3>3. f = l + (IF s = 1 THEN 1 ELSE 0)
      BY <1>1 DEF Sound, Counted
    <3>9. l \in Nat
      BY <1>2
    <3>4. count = Len(chain) + (IF s = 1 THEN 1 ELSE 0) /\ count \in Nat
      <4>1. Len(chain) = l + 1 /\ count = f + 1
        BY <3>2
      <4> HIDE DEF chain, count, f, l, s
      <4> QED
        BY <3>3, <3>9, <4>1
    <3>5. ChainPut(h, j, s, chain, count)
      <4> HIDE DEF chain, count
      <4> QED
        BY <1>1, <3>2, <3>4, PutChain
    <3> HIDE DEF j
    <3>6. Sound(j)
      <4> HIDE DEF chain, count
      <4> QED
        BY <1>1, <3>2, <3>4, <3>5, ChainSound
    <3>7. Owned(j, rest)
      <4> HIDE DEF count
      <4> QED
        BY <3>5, GiveOwned
    <3>8. s \in DOMAIN j.slab
      BY <1>1, <3>5 DEF ChainPut
    <3> QED
      BY <3>1, <3>6, <3>7, <3>8
  <2> QED
    BY <2>1, <2>2
<1> HIDE DEF h1, t
<1>7. ASSUME InfoPage(page) \in h.mapped, t # 0
      PROVE  Sound(k) /\ Owned(k, rest)
  <2>1. Sound(h1) /\ Owned(h1, rest) /\ t \in DOMAIN h1.slab /\ t = s
    BY <1>3, <1>6, <1>7
  <2> DEFINE key == h1.slab[t].cache
             m == MoveToFree(h1, key, t)
  <2>2. h1 \in HeapState /\ Linked(h1) /\ key \in Key
    BY <2>1, SlabTyped DEF Sound, SlabRecord
  <2> HIDE DEF key
  <2>3. SameObjects(h1, m)
    BY <2>1, <2>2, MoveSame
  <2> HIDE DEF m
  <2>4. Sound(m) /\ Owned(m, rest)
    BY <2>1, <2>3, SoundSameObjects, OwnedSameObjects
  <2>5. k = m \/ k = h1
    BY <1>4, <1>7 DEF m, key
  <2> QED
    BY <2>1, <2>4, <2>5
<1>8. Sound(k) /\ (k.fault \/ Owned(k, rest))
  <2>1. CASE InfoPage(page) \notin h.mapped \/ t = 0
    BY <1>5, <2>1
  <2>2. CASE InfoPage(page) \in h.mapped /\ t # 0
    BY <1>7, <2>2
  <2> QED
    BY <2>1, <2>2
<1> QED
  BY <1>8 DEF k

-----------------------------------------------------------------------------
(* The invariant *)

\* init_kheap.
LEMMA InitSInv == Init => SInv
<1> SUFFICES ASSUME Init PROVE SInv
  OBVIOUS
<1> DEFINE q == PAGE_SIZE \div 32
           chain == [i \in 1..(q - 2) |-> 2 + i - 1]
           first == [cache |-> Cache32, next |-> 0, prev |-> 0,
                     free_count |-> (PAGE_SIZE - 32) \div 32,
                     free_obj |-> chain]
<1>1. /\ q \in Nat /\ q >= 2 /\ (PAGE_SIZE - 32) \div 32 = q - 1
      /\ PAGE_SIZE \in Nat
  BY SlabHeapAssumption
<1>2. /\ 1 \in Pages /\ 1 \in SlabOrNull /\ 0 \in SlabOrNull /\ Cache32 \in Key
      /\ MaxPages \in Nat \ {0} /\ Frames \in Nat /\ 0 \in 0..MaxPages
      /\ 1 \in 0..MaxPages
  BY Numbers DEF Pages, SlabOrNull
<1>3. /\ heap = InitKheap /\ used = {}
      /\ heap.caches = <<Cache32>>
      /\ heap.cache = [k \in Key |->
                         [full_slabs |-> 0,
                          particial_slabs |-> IF k = Cache32 THEN 1 ELSE 0,
                          free_slabs |-> 0]]
      /\ heap.slab = [s \in {1} |-> first]
      /\ heap.heap_end = 1
      /\ heap.heapinfo = [p \in Pages |-> IF p = 1 THEN 1 ELSE 0]
      /\ heap.mapped = {0} /\ heap.frames = Frames /\ heap.internal = {}
      /\ heap.fault = FALSE
  BY DEF Init, InitKheap, SlabInit
<1>4. /\ DOMAIN heap.slab = {1} /\ heap.slab[1].cache = Cache32
      /\ heap.slab[1].next = 0 /\ heap.slab[1].prev = 0
      /\ heap.slab[1].free_count = q - 1 /\ heap.slab[1].free_obj = chain
  <2>1. DOMAIN heap.slab = {1} /\ heap.slab[1] = first
    BY <1>3
  <2> HIDE DEF chain
  <2> QED
    BY <1>1, <2>1
<1>5. chain \in Seq(Nat) /\ Len(chain) = q - 2
  BY <1>1
<1>6. IsInjective(chain)
  BY <1>1 DEF IsInjective
<1>7. Range(chain) = 2..(q - 1)
  <2>1. ASSUME NEW a \in 2..(q - 1)
        PROVE  a \in Range(chain)
    <3>1. a - 1 \in 1..(q - 2) /\ chain[a - 1] = a
      BY <1>1
    <3> QED
      BY <3>1 DEF Range
  <2>2. ASSUME NEW a \in Range(chain)
        PROVE  a \in 2..(q - 1)
    BY <1>1 DEF Range
  <2> QED
    BY <2>1, <2>2
<1>8. first \in SlabRecord
  BY <1>1, <1>2, <1>5 DEF SlabRecord
<1> HIDE DEF chain, first
<1>9. heap \in HeapState
  <2>1. heap.slab \in [{1} -> SlabRecord] /\ {1} \in SUBSET Pages
    BY <1>2, <1>3, <1>8
  <2>2. heap.slab \in UNION {[S -> SlabRecord] : S \in SUBSET Pages}
    BY <2>1
  <2>3. heap.cache \in [Key -> CacheRecord]
    BY <1>2, <1>3 DEF CacheRecord
  <2>4. heap.heapinfo \in [Pages -> SlabOrNull]
    BY <1>2, <1>3
  <2>5. heap.caches \in Seq(Key)
    BY <1>2, <1>3
  <2>6. heap.heap_end \in 0..MaxPages /\ heap.mapped \in SUBSET (0..MaxPages)
        /\ heap.internal \in SUBSET Object
    BY <1>2, <1>3
  <2>8. heap.frames \in 0..Frames
    <3>1. Frames \in 0..Frames
      BY <1>2
    <3> QED
      BY <1>3, <3>1
  <2>9. heap.fault \in BOOLEAN
    BY <1>3
  <2>7. heap = [caches |-> heap.caches, cache |-> heap.cache,
                slab |-> heap.slab, heap_end |-> heap.heap_end,
                heapinfo |-> heap.heapinfo, mapped |-> heap.mapped,
                frames |-> heap.frames, internal |-> heap.internal,
                fault |-> heap.fault]
    BY <1>3 DEF InitKheap
  <2> QED
    BY <2>2, <2>3, <2>4, <2>5, <2>6, <2>7, <2>8, <2>9 DEF HeapState
<1>10. Linked(heap)
  BY <1>3, <1>4 DEF Linked, Pointers
<1>11. Extent(heap, 1) = 1
  BY <1>4, Numbers DEF Extent
<1>12. Placed(heap)
  BY <1>3, <1>4, <1>11 DEF Placed
<1>13. Known(heap)
  BY <1>3, <1>4, <1>11 DEF Known
<1>14. Counted(heap)
  BY <1>1, <1>4, <1>5 DEF Counted
<1>15. Ordered(heap.caches)
  BY <1>3 DEF Ordered, IsInjective, Range
<1>16. Owned(heap, used)
  <2>1. SlotsOf(Cache32, 1) = 2..(q - 1)
    BY <1>1, Numbers DEF SlotsOf, Slots
  <2>2. FreeOf(heap, 1) = 2..(q - 1)
    BY <1>4, <1>7 DEF FreeOf
  <2> QED
    BY <1>3, <1>4, <1>6, <2>1, <2>2 DEF Owned
<1> QED
  BY <1>3, <1>9, <1>10, <1>12, <1>13, <1>14, <1>15, <1>16 DEF SInv, Sound

\* A call of kmalloc keeps the invariant.
LEMMA KmallocSInv ==
    ASSUME SInv, NEW r \in Requests, Kmalloc(r[1], r[2])
    PROVE  SInv'
<1> DEFINE q == KmallocResult(heap, r[1], r[2])
<1>1. /\ ~heap.fault /\ heap' = q.heap
      /\ used' = IF q.object = NullObject THEN used ELSE used \cup {q.object}
  BY DEF Kmalloc
<1>2. Sound(heap) /\ Owned(heap, used)
  BY <1>1 DEF SInv
<1>3. /\ r[1] \in Nat /\ r[2] \in BOOLEAN
      /\ \E s \in DOMAIN SlabPages : s >= r[1]
  BY SlabHeapAssumption
<1>4. Served(q, used)
  BY <1>2, <1>3, KmallocServed
<1> HIDE DEF q
<1>5. Sound(heap') /\ Owned(heap', used')
  BY <1>1, <1>4 DEF Served
<1>6. used' \in SUBSET Object
  BY <1>5 DEF Owned
<1> QED
  BY <1>5, <1>6 DEF SInv

\* A call of kfree keeps the invariant.
LEMMA KfreeSInv ==
    ASSUME SInv, NEW object \in used, Kfree(object)
    PROVE  SInv'
<1> DEFINE k == KfreeResult(heap, object)
<1>1. ~heap.fault /\ heap' = k /\ used' = used \ {object}
  BY DEF Kfree
<1>2. Sound(heap) /\ Owned(heap, used) /\ used \in SUBSET Object
  BY <1>1 DEF SInv
<1>3. Sound(k) /\ (k.fault \/ Owned(k, used \ {object}))
  BY <1>2, KfreeFreed
<1> HIDE DEF k
<1> QED
  BY <1>1, <1>2, <1>3 DEF SInv

\* Every step keeps the invariant.
LEMMA NextSInv == SInv /\ [Next]_vars => SInv'
<1> SUFFICES ASSUME SInv, [Next]_vars PROVE SInv'
  OBVIOUS
<1>1. CASE UNCHANGED vars
  BY <1>1 DEF SInv, vars
<1>2. CASE \E r \in Requests : Kmalloc(r[1], r[2])
  BY <1>2, KmallocSInv
<1>3. CASE \E object \in used : Kfree(object)
  BY <1>3, KfreeSInv
<1> QED
  BY <1>1, <1>2, <1>3 DEF Next

\* The invariant holds throughout.
LEMMA SInvAlways == Spec => []SInv
<1> QED
  BY InitSInv, NextSInv, PTL DEF Spec

-----------------------------------------------------------------------------
(* The theorems *)

\* The allocator's state keeps its types: no list leads to what is not a slab,
\* and no counter or page number leaves its range, even when kmalloc or kfree
\* ends in a fault.
THEOREM TypeCorrect == Spec => []TypeOK
<1>1. SInv => TypeOK
  <2> SUFFICES ASSUME SInv PROVE TypeOK
    OBVIOUS
  <2>1. heap \in HeapState /\ used \in SUBSET Object
    BY DEF SInv, Sound
  <2>2. /\ DOMAIN heap.slab \in SUBSET Pages
        /\ \A s \in DOMAIN heap.slab : heap.slab[s] \in SlabRecord
    BY <2>1, SlabTyped
  <2> QED
    BY <2>1, <2>2 DEF TypeOK, HeapState
<1> QED
  BY <1>1, SInvAlways, PTL

\* Every object has one owner, whatever clients allocate and free and
\* whenever memory runs out: its slab's free list, one client, or kheap.c
\* itself.
THEOREM OwnersApart == Spec => []OneOwner
<1>1. SInv => OneOwner
  <2> SUFFICES ASSUME SInv, ~heap.fault, NEW s \in DOMAIN heap.slab
               PROVE  /\ IsInjective(heap.slab[s].free_obj)
                      /\ FreeSlots(s) \cap UsedSlots(s) = {}
                      /\ FreeSlots(s) \cap InternalSlots(s) = {}
                      /\ UsedSlots(s) \cap InternalSlots(s) = {}
                      /\ FreeSlots(s) \cup UsedSlots(s) \cup InternalSlots(s)
                            \subseteq ObjectSlots(s)
                      /\ heap.slab[s].cache.size <= PAGE_SIZE =>
                            FreeSlots(s) \cup UsedSlots(s) \cup InternalSlots(s)
                               = ObjectSlots(s)
    BY DEF OneOwner
  <2>1. Owned(heap, used) /\ heap.internal \in SUBSET Object
    BY DEF SInv, Sound, HeapState
  <2>2. FreeSlots(s) = FreeOf(heap, s)
    BY DEF FreeSlots, FreeOf
  <2>3. ObjectSlots(s) = SlotsOf(heap.slab[s].cache, s)
    BY DEF ObjectSlots, SlotsOf
  <2>4. \A o \in Object : o = [slab |-> o.slab, at |-> o.at]
    BY DEF Object
  <2>5. /\ \A a : a \in UsedSlots(s) <=> [slab |-> s, at |-> a] \in used
        /\ \A a : a \in InternalSlots(s) <=>
                     [slab |-> s, at |-> a] \in heap.internal
    <3>1. ASSUME NEW a, a \in UsedSlots(s)
          PROVE  [slab |-> s, at |-> a] \in used
      BY <2>1, <2>4, <3>1 DEF UsedSlots, Owned
    <3>2. ASSUME NEW a, [slab |-> s, at |-> a] \in used
          PROVE  a \in UsedSlots(s)
      <4> DEFINE o == [slab |-> s, at |-> a]
      <4>1. o \in used /\ o.slab = s /\ o.at = a
        BY <3>2
      <4> HIDE DEF o
      <4> QED
        BY <4>1 DEF UsedSlots
    <3>3. ASSUME NEW a, a \in InternalSlots(s)
          PROVE  [slab |-> s, at |-> a] \in heap.internal
      BY <2>1, <2>4, <3>3 DEF InternalSlots
    <3>4. ASSUME NEW a, [slab |-> s, at |-> a] \in heap.internal
          PROVE  a \in InternalSlots(s)
      <4> DEFINE o == [slab |-> s, at |-> a]
      <4>1. o \in heap.internal /\ o.slab = s /\ o.at = a
        BY <3>4
      <4> HIDE DEF o
      <4> QED
        BY <4>1 DEF InternalSlots
    <3> QED
      BY <3>1, <3>2, <3>3, <3>4
  <2>6. ASSUME NEW a, [slab |-> s, at |-> a] \in used \cup heap.internal
        PROVE  a \in ObjectSlots(s) /\ a \notin FreeSlots(s)
    <3> DEFINE o == [slab |-> s, at |-> a]
    <3>1. o \in used \cup heap.internal /\ o.slab = s /\ o.at = a
      BY <2>6
    <3> HIDE DEF o
    <3> QED
      BY <2>1, <2>2, <2>3, <3>1 DEF Owned
  <2>7. IsInjective(heap.slab[s].free_obj) /\ FreeSlots(s) \subseteq ObjectSlots(s)
    BY <2>1, <2>2, <2>3 DEF Owned
  <2>8. UsedSlots(s) \cap InternalSlots(s) = {}
    BY <2>1, <2>5 DEF Owned
  <2>9. heap.slab[s].cache.size <= PAGE_SIZE =>
           \A a \in ObjectSlots(s) :
              a \in FreeSlots(s) \/ [slab |-> s, at |-> a] \in used \cup heap.internal
    BY <2>1, <2>2, <2>3 DEF Owned
  <2> QED
    BY <2>5, <2>6, <2>7, <2>8, <2>9
<1> QED
  BY <1>1, SInvAlways, PTL

\* slab_alloc and slab_free keep free_count the length of the free list.
THEOREM CountKept == Spec => []FreeCountExact
<1>1. SInv => FreeCountExact
  BY DEF SInv, Sound, Counted, FreeCountExact
<1> QED
  BY <1>1, SInvAlways, PTL

\* cache_create keeps the list of caches in order, without a second cache of
\* the same size and type.
THEOREM CachesSorted == Spec => []CachesOrdered
<1>1. SInv => CachesOrdered
  BY DEF SInv, Sound, Ordered, CachesOrdered
<1> QED
  BY <1>1, SInvAlways, PTL
=============================================================================
