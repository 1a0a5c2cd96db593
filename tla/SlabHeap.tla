------------------------------ MODULE SlabHeap ------------------------------
(***************************************************************************)
(* kmalloc and kfree (kernel/modules/memory/kheap.c): caches of equal      *)
(* objects, each with its full, particial and free slabs, grown page by    *)
(* page from the kernel heap region.                                       *)
(*                                                                         *)
(* A call runs without interruption (Scheduler.tla), so it is one action;  *)
(* its body is a chain of operators from one heap to the next, in the      *)
(* order of the code.  A slab is named by its first heap page, counted     *)
(* from 1; NULL is 0.  The chain of free objects inside a slab is the      *)
(* sequence of their slot numbers.  A read or write through NULL, or of a  *)
(* heapinfo page that is not mapped, sets `fault`: the page fault handler  *)
(* never returns.                                                          *)
(*                                                                         *)
(* The physical allocator is external here (PhysMem.tla): `frames` pages   *)
(* are left, and an allocation fails when there are too few.               *)
(***************************************************************************)
EXTENDS Integers, Sequences, FiniteSets, SequencesExt, TLC

CONSTANTS
    PAGE_SIZE,      \* 4096 in the code
    Requests,       \* the calls clients make: <<size, flags & MM_DMA # 0>>
    SlabPages,      \* slab_sizes / PAGE_SIZE, by object size
    MaxPages,       \* (KHEAP_MAX - KHEAP_START) / PAGE_SIZE
    InfoSpan,       \* heap pages that one page of heapinfo describes
    Frames,         \* physical pages left when init_kheap is done
    MaxUsed         \* bound on the objects clients hold at once

ASSUME SlabHeapAssumption ==
    /\ PAGE_SIZE \in Nat \ {0}
    /\ PAGE_SIZE % 32 = 0 /\ PAGE_SIZE > 32
    /\ \A r \in Requests :
          /\ r[1] \in Nat /\ r[2] \in BOOLEAN
          /\ \E size \in DOMAIN SlabPages : size >= r[1]
    /\ SlabPages \in [DOMAIN SlabPages -> Nat \ {0}]
    /\ \A size \in DOMAIN SlabPages :
          /\ size \in Nat \ {0}
          /\ size <= SlabPages[size] * PAGE_SIZE
          /\ size <= PAGE_SIZE => PAGE_SIZE % size = 0
    /\ 32 \in DOMAIN SlabPages /\ SlabPages[32] = 1
    /\ MaxPages \in Nat \ {0}
    /\ InfoSpan \in Nat \ {0}
    /\ Frames \in Nat
    /\ MaxUsed \in Nat

VARIABLES
    heap,   \* the allocator's state, see TypeOK
    used    \* the objects that clients hold

vars == <<heap, used>>

-----------------------------------------------------------------------------
(* State *)

Pages == 1..MaxPages
SlabOrNull == 0..MaxPages

\* What a cache_t is found by.
Key == [size : DOMAIN SlabPages, dma : BOOLEAN]

\* The cache of slab_t and cache_t themselves, made by init_kheap.
Cache32 == [size |-> 32, dma |-> FALSE]

\* An object handed out: slot `at` of a slab.
Object == [slab : Pages, at : Nat]
NullObject == [slab |-> 0, at |-> 0]

Slots(key) == (SlabPages[key.size] * PAGE_SIZE) \div key.size

\* slab_t at the start of a one-page slab: the slots it covers.
HeaderSlots(key) ==
    IF SlabPages[key.size] = 1 THEN ((32 - 1) \div key.size) + 1 ELSE 0

SlabRecord ==
    [cache : Key, next : SlabOrNull, prev : SlabOrNull, free_count : Nat,
     free_obj : Seq(Nat)]

CacheRecord ==
    [full_slabs : SlabOrNull, particial_slabs : SlabOrNull,
     free_slabs : SlabOrNull]

\* The fields of `heap`: caches, the keys in list order; cache and slab, the
\* records in memory; heap_end, in pages; heapinfo, the slab written for each
\* heap page; mapped, the pages of heapinfo that are mapped; frames; internal,
\* the objects that hold the allocator's own slab_t and cache_t; fault.
TypeOK ==
    /\ DOMAIN heap.slab \subseteq Pages
    /\ \A s \in DOMAIN heap.slab : heap.slab[s] \in SlabRecord
    /\ heap.caches \in Seq(Key)
    /\ heap.cache \in [Key -> CacheRecord]
    /\ heap.heap_end \in 0..MaxPages
    /\ heap.heapinfo \in [Pages -> SlabOrNull]
    /\ heap.mapped \subseteq 0..MaxPages
    /\ heap.frames \in 0..Frames
    /\ heap.internal \subseteq Object
    /\ heap.fault \in BOOLEAN
    /\ used \subseteq Object

-----------------------------------------------------------------------------
(* Growing a cache *)

InfoPage(page) == (page - 1) \div InfoSpan

\* The free list slab_init writes: every slot from the first free object on.
SlabInit(first, slots) == [i \in 1..(slots - first) |-> first + i - 1]

\* Mutant: the free list of a slab of several pages stops behind its first.
MutNewSlab(key, first) ==
    [cache |-> key, next |-> 0, prev |-> 0,
     free_count |-> Slots(key) - first,
     free_obj |-> SlabInit(first, PAGE_SIZE \div key.size)]

NewSlab(key, first) ==
    [cache |-> key, next |-> 0, prev |-> 0,
     free_count |-> Slots(key) - first,
     free_obj |-> SlabInit(first, Slots(key))]

SetNext(h, s, value) == [h EXCEPT !.slab[s].next = value]
SetPrev(h, s, value) ==
    IF s = 0 THEN h ELSE [h EXCEPT !.slab[s].prev = value]

Failed(h) == [heap |-> h, slab |-> 0]
Fault(h) == [h EXCEPT !.fault = TRUE]

\* The end of cache_grow: the slab becomes the cache's free slab, its page of
\* heapinfo is mapped if the first page's entry is not, and the entries of
\* all its pages are written.
PublishSlab(h, key, s) ==
    LET pages == s..(s + SlabPages[key.size] - 1)
        h1 == [h EXCEPT !.slab = [t \in DOMAIN @ \cup {s} |->
                                     IF t = s THEN NewSlab(key, HeaderSlots(key))
                                     ELSE @[t]],
                        !.cache[key].free_slabs = s]
        h2 == IF InfoPage(s) \in h.mapped THEN h1
              ELSE [h1 EXCEPT !.mapped = @ \cup {InfoPage(s)},
                              !.frames = @ - 1]
        h3 == [h2 EXCEPT !.heapinfo =
                  [p \in Pages |-> IF p \in pages THEN s ELSE @[p]]]
    IN  IF InfoPage(s) \notin h.mapped /\ h.frames = 0 THEN Failed(h1)
        ELSE IF \A p \in pages : InfoPage(p) \in h2.mapped
             THEN [heap |-> h3, slab |-> s]
             ELSE Failed(Fault(h2))

\* Mutant: increase_heap does not test KHEAP_MAX.
MutTakePages(h, key) ==
    LET n == SlabPages[key.size]
    IN  [ok |-> h.frames >= n,
         heap |-> IF h.frames < n THEN [h EXCEPT !.heap_end = @ + n]
                  ELSE [h EXCEPT !.heap_end = @ + n, !.frames = @ - n]]

\* increase_heap and the pages for the slab.  heap_end stays where it is when
\* there are no pages.
TakePages(h, key) ==
    LET n == SlabPages[key.size]
    IN  [ok |-> h.heap_end + n <= MaxPages /\ h.frames >= n,
         heap |-> IF h.heap_end + n > MaxPages THEN h
                  ELSE IF h.frames < n THEN [h EXCEPT !.heap_end = @ + n]
                  ELSE [h EXCEPT !.heap_end = @ + n, !.frames = @ - n]]

\* cache_grow for slabs of one page, which hold their own slab_t.
GrowOnePage(h, key) ==
    LET taken == TakePages(h, key)
    IN  IF taken.ok THEN PublishSlab(taken.heap, key, h.heap_end + 1)
        ELSE Failed(taken.heap)

-----------------------------------------------------------------------------
(* Allocating *)

NoObject(h) == [heap |-> h, object |-> NullObject]

\* slab_alloc, and the slab's way to full_slabs when it was the last object.
SlabAlloc(h, key, s) ==
    LET slab == h.slab[s]
        full == h.cache[key].full_slabs
        h1 == [h EXCEPT !.slab[s].free_obj = Tail(@),
                        !.slab[s].free_count = @ - 1]
        h2 == SetPrev([h1 EXCEPT !.cache[key].particial_slabs = slab.next],
                      slab.next, 0)
        h3 == SetNext(SetPrev(h2, full, s), s, full)
        h4 == [h3 EXCEPT !.cache[key].full_slabs = s]
    IN  IF slab.free_obj = <<>> THEN NoObject(Fault(h))
        ELSE [heap |-> IF slab.free_count = 1 THEN h4 ELSE h1,
              object |-> [slab |-> s, at |-> Head(slab.free_obj)]]

\* The first free slab leaves its list and becomes the particial slab.
UseFreeSlab(h, key) ==
    LET s == h.cache[key].free_slabs
        next == h.slab[s].next
        h1 == SetPrev([h EXCEPT !.cache[key].free_slabs = next], next, 0)
    IN  [h1 EXCEPT !.slab[s].next = 0, !.slab[s].prev = 0,
                   !.cache[key].particial_slabs = s]

\* cache_alloc; `grown` is what cache_grow returns if it has to be called.
CacheAlloc(h, key, grown) ==
    LET cache == h.cache[key]
    IN  IF cache.particial_slabs # 0
        THEN SlabAlloc(h, key, cache.particial_slabs)
        ELSE IF cache.free_slabs # 0
        THEN SlabAlloc(UseFreeSlab(h, key), key, cache.free_slabs)
        ELSE IF grown.slab = 0 THEN NoObject(grown.heap)
        ELSE SlabAlloc([grown.heap EXCEPT
                           !.cache[key].particial_slabs = grown.slab,
                           !.cache[key].free_slabs = 0],
                       key, grown.slab)

\* kmalloc(sizeof(slab_t)) or kmalloc(sizeof(cache_t)) from the allocator.
Kmalloc32(h) ==
    LET r == CacheAlloc(h, Cache32, GrowOnePage(h, Cache32))
    IN  IF r.object = NullObject THEN r
        ELSE [r EXCEPT !.heap.internal = @ \cup {r.object}]

\* cache_grow.  The slab_t of a larger slab is an object of the heap itself.
CacheGrow(h, key) ==
    LET taken == TakePages(h, key)
        header == Kmalloc32(taken.heap)
    IN  IF SlabPages[key.size] = 1 THEN GrowOnePage(h, key)
        ELSE IF ~taken.ok THEN Failed(taken.heap)
        ELSE IF header.object = NullObject THEN Failed(header.heap)
        ELSE PublishSlab(header.heap, key, h.heap_end + 1)

\* Mutant: the new cache is linked behind the last one.
MutCacheCreate(h, key) ==
    LET header == Kmalloc32(h)
    IN  IF header.object = NullObject THEN [heap |-> header.heap, ok |-> FALSE]
        ELSE [heap |-> [header.heap EXCEPT !.caches = Append(@, key)],
              ok |-> TRUE]

\* cache_create: the new cache goes in front of the first one whose objects
\* are no smaller.
CacheCreate(h, key) ==
    LET header == Kmalloc32(h)
        caches == header.heap.caches
        larger == SelectInSeq(caches, LAMBDA c : c.size >= key.size)
        at == IF larger = 0 THEN Len(caches) + 1 ELSE larger
    IN  IF header.object = NullObject THEN [heap |-> header.heap, ok |-> FALSE]
        ELSE [heap |-> [header.heap EXCEPT
                           !.caches = InsertAt(caches, at, key),
                           !.cache[key] = [full_slabs |-> 0,
                                           particial_slabs |-> 0,
                                           free_slabs |-> 0]],
              ok |-> TRUE]

\* The smallest power of two, from 8 on, that holds the request.
ObjSize(size) ==
    CHOOSE o \in DOMAIN SlabPages :
        /\ o >= size
        /\ \A other \in DOMAIN SlabPages : other >= size => o <= other

KmallocResult(h, size, dma) ==
    LET key == [size |-> ObjSize(size), dma |-> dma]
        created == CacheCreate(h, key)
    IN  IF key \in Range(h.caches) THEN CacheAlloc(h, key, CacheGrow(h, key))
        ELSE IF created.ok
        THEN CacheAlloc(created.heap, key, CacheGrow(created.heap, key))
        ELSE NoObject(created.heap)

Kmalloc(size, dma) ==
    LET r == KmallocResult(heap, size, dma)
    IN  /\ ~heap.fault
        /\ Cardinality(used) < MaxUsed
        /\ heap' = r.heap
        /\ used' = IF r.object = NullObject THEN used
                   ELSE used \cup {r.object}

-----------------------------------------------------------------------------
(* Freeing *)

\* The distance of an object from the start of the heap, which is aligned to
\* every object size.
Offset(key, object) ==
    (object.slab - 1) * PAGE_SIZE + object.at * key.size

\* Mutant: free_count is incremented although the pointer is refused.
MutSlabFree(h, s, object) ==
    IF Offset(h.slab[s].cache, object) % h.slab[s].cache.size # 0
    THEN [h EXCEPT !.slab[s].free_count = @ + 1]
    ELSE [h EXCEPT !.slab[s].free_obj = <<object.at>> \o @,
                   !.slab[s].free_count = @ + 1]

\* slab_free refuses a pointer that is no multiple of the object size.
SlabFree(h, s, object) ==
    IF Offset(h.slab[s].cache, object) % h.slab[s].cache.size # 0 THEN h
    ELSE [h EXCEPT !.slab[s].free_obj = <<object.at>> \o @,
                   !.slab[s].free_count = @ + 1]

\* What kfree takes for the number of objects of an empty slab.  In a slab of
\* one page it measures from the object it has just put back.
FreeCount(slab) ==
    IF SlabPages[slab.cache.size] = 1
    THEN Slots(slab.cache) - Head(slab.free_obj)
    ELSE Slots(slab.cache)

\* The slab leaves the list it is in and becomes the first free slab.
MoveToFree(h, key, s) ==
    LET slab == h.slab[s]
        free == h.cache[key].free_slabs
        h1 == IF slab.prev # 0 THEN SetNext(h, slab.prev, slab.next)
              ELSE [h EXCEPT !.cache[key].particial_slabs = slab.next]
        h2 == SetPrev(h1, slab.next, slab.prev)
        h3 == SetNext(SetPrev(h2, free, s), s, free)
    IN  SetPrev([h3 EXCEPT !.cache[key].free_slabs = s], s, 0)

KfreeResult(h, object) ==
    LET owner == h.slab[object.slab].cache
        page == (Offset(owner, object) \div PAGE_SIZE) + 1
        s == h.heapinfo[page]
        h1 == SlabFree(h, s, object)
    IN  IF InfoPage(page) \notin h.mapped \/ s = 0 THEN Fault(h)
        ELSE IF h1.slab[s].free_count = FreeCount(h1.slab[s])
             THEN MoveToFree(h1, h1.slab[s].cache, s)
             ELSE h1

\* A client gives back an object it holds.
Kfree(object) ==
    /\ ~heap.fault
    /\ object \in used
    /\ heap' = KfreeResult(heap, object)
    /\ used' = used \ {object}

-----------------------------------------------------------------------------

\* init_kheap: slab_t and cache_t of the first cache take the first two slots
\* of the first page, but only one of them is left out of free_count.
InitKheap ==
    [caches |-> <<Cache32>>,
     cache |-> [k \in Key |->
                  [full_slabs |-> 0,
                   particial_slabs |-> IF k = Cache32 THEN 1 ELSE 0,
                   free_slabs |-> 0]],
     slab |-> [s \in {1} |->
                  [cache |-> Cache32, next |-> 0, prev |-> 0,
                   free_count |-> (PAGE_SIZE - 32) \div 32,
                   free_obj |-> SlabInit(2, PAGE_SIZE \div 32)]],
     heap_end |-> 1,
     heapinfo |-> [p \in Pages |-> IF p = 1 THEN 1 ELSE 0],
     mapped |-> {0},
     frames |-> Frames,
     internal |-> {},
     fault |-> FALSE]

Init ==
    /\ heap = InitKheap
    /\ used = {}

Next ==
    \/ \E r \in Requests : Kmalloc(r[1], r[2])
    \/ \E object \in used : Kfree(object)

Spec == Init /\ [][Next]_vars

-----------------------------------------------------------------------------
(* Properties *)

\* The slots of slab s that are free, held by a client, and held by kheap.c.
FreeSlots(s) == Range(heap.slab[s].free_obj)
UsedSlots(s) == {o.at : o \in {x \in used : x.slab = s}}
InternalSlots(s) == {o.at : o \in {x \in heap.internal : x.slab = s}}

\* The slots of slab s that are objects at all.
ObjectSlots(s) ==
    LET key == heap.slab[s].cache
    IN  (IF s = 1 THEN 2 ELSE HeaderSlots(key))..(Slots(key) - 1)

\* Every object has one owner: it is on its slab's free list once, or with
\* the client kmalloc gave it to, or it is a slab_t or cache_t, whatever the
\* order of kmalloc and kfree and whichever growth failed.  None is handed
\* out twice, and (up to a page in size) no slot of a slab is in nobody's
\* hands; a slab that is in no list of its cache any more keeps its slots.
OneOwner ==
    ~heap.fault =>
    \A s \in DOMAIN heap.slab :
        /\ IsInjective(heap.slab[s].free_obj)
        /\ FreeSlots(s) \cap UsedSlots(s) = {}
        /\ FreeSlots(s) \cap InternalSlots(s) = {}
        /\ UsedSlots(s) \cap InternalSlots(s) = {}
        /\ FreeSlots(s) \cup UsedSlots(s) \cup InternalSlots(s)
              \subseteq ObjectSlots(s)
        /\ heap.slab[s].cache.size <= PAGE_SIZE =>
              FreeSlots(s) \cup UsedSlots(s) \cup InternalSlots(s)
                 = ObjectSlots(s)

\* slab_alloc and slab_free keep free_count equal to the length of the free
\* list, through every kmalloc, kfree and failed growth; the first slab alone
\* is one ahead, as init_kheap left it.
FreeCountExact ==
    \A s \in DOMAIN heap.slab :
        heap.slab[s].free_count =
            Len(heap.slab[s].free_obj) + (IF s = 1 THEN 1 ELSE 0)

\* The list of caches stays ordered by object size and holds one cache per
\* size and type, the first of them included: a kmalloc that cannot get
\* memory for a cache_t leaves it as it was.
CachesOrdered ==
    /\ IsInjective(heap.caches)
    /\ Cache32 \in Range(heap.caches)
    /\ \A i, j \in 1..Len(heap.caches) :
          i < j => heap.caches[i].size <= heap.caches[j].size

\* README.md:6 lists "Kernel space kmalloc" as a finished feature: calls of
\* kmalloc, and of kfree with what kmalloc returned, never bring the kernel
\* down.
NoFault == ~heap.fault

=============================================================================
