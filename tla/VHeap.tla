-------------------------------- MODULE VHeap --------------------------------
(***************************************************************************)
(* Regions of kernel address space (kernel/modules/memory/vheap.c):        *)
(* vmalloc, vfree, map_io and unmap_io over a list of free regions kept in *)
(* order of size, with boundary tags in heapinfo at the first and the last *)
(* page of every region.                                                   *)
(*                                                                         *)
(* Addresses and sizes are counted in pages from VHEAP_START.  A tag is a  *)
(* size (0 for NULL) or a header; the code tells them apart by             *)
(* `> KERNEL_REGION`, where every header lies and no size does.  Headers   *)
(* come from kmalloc, which is external here and returns any header that   *)
(* is not in use.  So is the physical allocator, with `frames` pages left. *)
(*                                                                         *)
(* A call is one action (Scheduler.tla), and its body a chain of operators *)
(* from one heap to the next.                                              *)
(***************************************************************************)
EXTENDS Integers, FiniteSets, FiniteSetsExt

CONSTANTS
    Size,       \* (VHEAP_MAX - VHEAP_START) / PAGE_SIZE
    Headers,    \* the addresses kmalloc has for a vheader_t
    NULL,
    First,      \* the one init_vheap gets
    Requests,   \* the sizes callers ask for, in pages
    InfoSpan,   \* pages that one page of heapinfo describes
    Frames      \* physical pages left when init_vheap is done

ASSUME VHeapAssumption ==
    /\ Size \in Nat \ {0}
    /\ IsFiniteSet(Headers)
    /\ NULL \notin Headers
    /\ Headers \cap (0..Size) = {}
    /\ First \in Headers
    /\ Requests \subseteq Nat \ {0}
    /\ InfoSpan \in Nat \ {0}
    /\ Frames \in Nat

VARIABLES
    heap,       \* the list, the tags and the memory behind them, see TypeOK
    regions     \* what callers hold: regions of vmalloc and of map_io

vars == <<heap, regions>>

Pages == 0..(Size - 1)

Link == Headers \cup {NULL}

\* vheader_t
Header == [next : Link, prev : Link, size : 0..Size, region : 0..Size]

\* The record of an address that is no header in use.  Its memory is kmalloc's,
\* links of free objects and stale fields; using it is a fault, so that one
\* record stands for all it may hold.
Unwritten == [next |-> NULL, prev |-> NULL, size |-> 0, region |-> 0]

Region == [at : Pages, size : 1..Size, io : BOOLEAN]

\* How a call goes wrong: "stopped", the kernel reads through NULL or walks the
\* list for ever; "freed", it uses a header that kfree has taken back.  The
\* first word of such a header is a link of kmalloc's free objects now and the
\* others are stale, so a walk goes on into kmalloc's memory and a write breaks
\* its chain: what the heap does from there on is not modelled.
Faults == {"none", "stopped", "freed"}

\* The fields of `heap`: headers, the head of the list; header, the records in
\* memory; live, those allocated from kmalloc; heapinfo, the tags; mapped, the
\* heapinfo pages that are mapped; frames; fault, the first thing to go wrong.
TypeOK ==
    /\ heap.headers \in Link
    /\ heap.header \in [Headers -> Header]
    /\ heap.live \subseteq Headers
    /\ \A p \in Pages : heap.heapinfo[p] \in Headers \/ heap.heapinfo[p] \in 0..Size
    /\ heap.mapped \subseteq Pages
    /\ heap.frames \in 0..Frames
    /\ heap.fault \in Faults
    /\ regions \subseteq Region

-----------------------------------------------------------------------------
(* The ordered list *)

Fault(h, kind) == [h EXCEPT !.fault = IF @ = "none" THEN kind ELSE @]

\* item->next = value and item->prev = value, for an item that may be NULL.
SetNext(h, item, value) ==
    IF item = NULL THEN h
    ELSE IF item \notin h.live THEN Fault(h, "freed")
    ELSE [h EXCEPT !.header[item].next = value]
SetPrev(h, item, value) ==
    IF item = NULL THEN h
    ELSE IF item \notin h.live THEN Fault(h, "freed")
    ELSE [h EXCEPT !.header[item].prev = value]

\* The headers a walk from the head meets, one after the other.
Walk(h) ==
    LET at[n \in 0..Cardinality(Headers)] ==
            IF n = 0 THEN h.headers
            ELSE IF at[n - 1] = NULL THEN NULL
            ELSE h.header[at[n - 1]].next
    IN  at

\* A walk goes past the headers in use that are too small.
Passes(h, header, size) == header \in h.live /\ h.header[header].size < size

\* The number of steps to the first header of at least the given size, to the
\* end of the list or to a freed header; a walk longer than the number of
\* headers never ends.
StepsTo(h, size) ==
    {n \in 0..Cardinality(Headers) :
        /\ ~Passes(h, Walk(h)[n], size)
        /\ \A m \in 0..(n - 1) : Passes(h, Walk(h)[m], size)}

InsertOrderedList(h, item) ==
    LET steps == StepsTo(h, h.header[item].size)
        n == Min(steps)
        at == Walk(h)[n]
        before == IF at = NULL THEN Walk(h)[n - 1] ELSE h.header[at].prev
        linked == [h EXCEPT !.header[item].next = at,
                            !.header[item].prev = before]
    IN  IF h.headers = NULL
        THEN [h EXCEPT !.headers = item, !.header[item].next = NULL,
                       !.header[item].prev = NULL]
        ELSE IF steps = {} THEN Fault(h, "stopped")
        ELSE IF at \notin h.live \cup {NULL} THEN Fault(h, "freed")
        ELSE SetPrev(SetNext(linked, before, item), at, item)

\* Removing the head empties the list.
RemoveOrderedList(h, item) ==
    LET next == h.header[item].next
        prev == h.header[item].prev
        h1 == SetNext(h, prev, next)
    IN  IF item = h.headers THEN [h EXCEPT !.headers = NULL]
        ELSE SetPrev(h1, next, h1.header[item].prev)

-----------------------------------------------------------------------------
(* Regions *)

InfoPage(page) == page \div InfoSpan

\* set_heapinfo takes two physical pages for a page of heapinfo and maps one.
SetHeapinfo(h, page, value) ==
    LET mapped == InfoPage(page) \in h.mapped
        h1 == IF mapped THEN h
              ELSE [h EXCEPT !.mapped = @ \cup {InfoPage(page)},
                             !.frames = IF @ < 2 THEN 0 ELSE @ - 2]
    IN  IF ~mapped /\ h.frames = 0 THEN [heap |-> h, ok |-> FALSE]
        ELSE [heap |-> [h1 EXCEPT !.heapinfo[page] = value], ok |-> TRUE]

\* Mutant: the tags are written in the other order.
MutSetTags(h, page1, value1, page2, value2) ==
    LET set1 == SetHeapinfo(h, page2, value2)
    IN  IF set1.ok THEN SetHeapinfo(set1.heap, page1, value1) ELSE set1

\* Two calls of set_heapinfo, the second only if the first succeeds.
SetTags(h, page1, value1, page2, value2) ==
    LET set1 == SetHeapinfo(h, page1, value1)
    IN  IF set1.ok THEN SetHeapinfo(set1.heap, page2, value2) ELSE set1

NoRegion(h) == [heap |-> h, at |-> Size]

\* vregion_alloc: the first listed region that is large enough is cut at its
\* front.  A failure on the way leaves the header off the list.
VregionAlloc(h, size) ==
    LET steps == StepsTo(h, size)
        header == Walk(h)[Min(steps)]
        at == h.header[header].region
        left == h.header[header].size - size
        tagged == SetTags(RemoveOrderedList(h, header),
                          at + size - 1, 0, at, size)
        cut == [tagged.heap EXCEPT !.header[header].region = at + size,
                                   !.header[header].size = left]
        rest == SetTags(InsertOrderedList(cut, header),
                        at + size, header, at + size + left - 1, header)
    IN  IF h.headers = NULL \/ steps = {} THEN NoRegion(Fault(h, "stopped"))
        ELSE IF header = NULL THEN NoRegion(h)
        ELSE IF header \notin h.live THEN NoRegion(Fault(h, "freed"))
        ELSE IF ~tagged.ok THEN NoRegion(tagged.heap)
        ELSE IF left = 0 THEN [heap |-> cut, at |-> at]
        ELSE IF ~rest.ok THEN NoRegion(rest.heap)
        ELSE [heap |-> rest.heap, at |-> at]

\* Mutant: the new header keeps its start when it absorbs the region in front.
MutAbsorb(h, neighbour, new, start) ==
    LET h1 == RemoveOrderedList(h, neighbour)
    IN  IF neighbour \notin h.live THEN Fault(h, "freed")
        ELSE [h1 EXCEPT !.header[new].size = @ + h1.header[neighbour].size,
                        !.header[neighbour] = Unwritten,
                        !.live = @ \ {neighbour}]

\* A free neighbour leaves the list, its pages go to the new header, which
\* begins at `start` now, and its header goes back to kmalloc.
Absorb(h, neighbour, new, start) ==
    LET h1 == RemoveOrderedList(h, neighbour)
    IN  IF neighbour \notin h.live THEN Fault(h, "freed")
        ELSE [h1 EXCEPT !.header[new].region = start,
                        !.header[new].size = @ + h1.header[neighbour].size,
                        !.header[neighbour] = Unwritten,
                        !.live = @ \ {neighbour}]

\* Mutant: the last page of a freed region gets no tag.
MutTagFree(h, new) == SetHeapinfo(h, h.header[new].region, new).heap

\* The end of vregion_free: both ends of the region name its header.
TagFree(h, new) ==
    LET first == h.header[new].region
        last == first + h.header[new].size - 1
    IN  SetHeapinfo(SetHeapinfo(h, first, new).heap, last, new).heap

\* vregion_free with the header kmalloc returned.  Its links are not written
\* before it is inserted: a walk that comes to it by a stale link until then
\* reads what kmalloc left there.
VregionFree(h, at, new) ==
    LET size == h.heapinfo[at]
        h1 == [h EXCEPT !.header[new].region = at, !.header[new].size = size,
                        !.live = @ \cup {new}]
        prev == h.heapinfo[at - 1]
        next == h.heapinfo[at + size]
        h2 == IF at > 0 /\ prev \in Headers
              THEN Absorb(h1, prev, new, h1.header[prev].region) ELSE h1
        h3 == IF at + size < Size /\ next \in Headers
              THEN Absorb(h2, next, new, h2.header[new].region) ELSE h2
        inserted == InsertOrderedList([h3 EXCEPT !.live = @ \ {new}], new)
    IN  TagFree([inserted EXCEPT !.live = @ \cup {new}], new)

-----------------------------------------------------------------------------
(* Calls *)

\* A vmalloc that runs out of physical pages returns NULL and keeps the region
\* and the pages it has mapped.
Vmalloc(size) ==
    LET r == VregionAlloc(heap, size)
    IN  /\ heap.fault = "none"
        /\ \/ /\ r.at = Size
              /\ heap' = r.heap
              /\ UNCHANGED regions
           \/ /\ r.at # Size
              /\ r.heap.frames < size
              /\ heap' = [r.heap EXCEPT !.frames = 0]
              /\ UNCHANGED regions
           \/ /\ r.at # Size
              /\ r.heap.frames >= size
              /\ heap' = [r.heap EXCEPT !.frames = @ - size]
              /\ regions' = regions \cup
                    {[at |-> r.at, size |-> size, io |-> FALSE]}

MapIo(size) ==
    LET r == VregionAlloc(heap, size)
    IN  /\ heap.fault = "none"
        /\ heap' = r.heap
        /\ regions' = IF r.at = Size THEN regions
                      ELSE regions \cup
                              {[at |-> r.at, size |-> size, io |-> TRUE]}

\* vregion_free, with a header from kmalloc or, when that has none, a write
\* through NULL.
FreeRegion(h, at) ==
    \/ \E new \in Headers \ h.live : heap' = VregionFree(h, at, new)
    \/ Headers = h.live /\ heap' = Fault(h, "stopped")

\* The pages freed are as many as the tag says.
Vfree(region) ==
    /\ heap.fault = "none"
    /\ region \in regions /\ ~region.io
    /\ FreeRegion([heap EXCEPT !.frames = @ + heap.heapinfo[region.at]],
                  region.at)
    /\ regions' = regions \ {region}

\* Mutant: unmap_io frees the device's pages as if they were memory.
MutUnmapIo(region) ==
    /\ heap.fault = "none"
    /\ region \in regions /\ region.io
    /\ FreeRegion([heap EXCEPT !.frames = @ + heap.heapinfo[region.at]],
                  region.at)
    /\ regions' = regions \ {region}

UnmapIo(region) ==
    /\ heap.fault = "none"
    /\ region \in regions /\ region.io
    /\ FreeRegion(heap, region.at)
    /\ regions' = regions \ {region}

-----------------------------------------------------------------------------

\* init_vheap
Init ==
    /\ heap = [headers |-> First,
               header |-> [h \in Headers |->
                  IF h = First THEN [Unwritten EXCEPT !.size = Size]
                  ELSE Unwritten],
               live |-> {First},
               heapinfo |-> [p \in Pages |->
                  IF p \in {0, Size - 1} THEN First ELSE 0],
               mapped |-> {InfoPage(0), InfoPage(Size - 1)},
               frames |-> Frames,
               fault |-> "none"]
    /\ regions = {}

Next ==
    \/ \E size \in Requests : Vmalloc(size)
    \/ \E size \in Requests : MapIo(size)
    \/ \E region \in regions : Vfree(region)
    \/ \E region \in regions : UnmapIo(region)

Spec == Init /\ [][Next]_vars

-----------------------------------------------------------------------------
(* Properties *)

RegionPages(at, size) == at..(at + size - 1)
HeaderPages(h) == RegionPages(heap.header[h].region, heap.header[h].size)

\* Until a call goes wrong, no page of the region is in two hands: two
\* callers', or a caller's and a free region's, whatever the list has lost and
\* whichever headers were reused.
NoOverlap ==
    heap.fault = "none" =>
    /\ \A r, s \in regions : r # s =>
          RegionPages(r.at, r.size) \cap RegionPages(s.at, s.size) = {}
    /\ \A r \in regions, h \in heap.live :
          RegionPages(r.at, r.size) \cap HeaderPages(h) = {}
    /\ \A g, h \in heap.live : g # h => HeaderPages(g) \cap HeaderPages(h) = {}

\* The tags at the ends of a caller's region are what vfree of the region and
\* of its neighbours need: the size in front, no header at the back.
TagsExact ==
    heap.fault = "none" =>
    \A r \in regions :
        /\ heap.heapinfo[r.at] = r.size
        /\ r.size > 1 => heap.heapinfo[r.at + r.size - 1] = 0

\* A header named by the tag in front of or behind a caller's region is a
\* header in use, and describes the region the tag is at the end of: vfree
\* never absorbs a region through a stale tag.
NeighboursLive ==
    heap.fault = "none" =>
    \A r \in regions :
        /\ r.at > 0 /\ heap.heapinfo[r.at - 1] \in Headers =>
              LET h == heap.heapinfo[r.at - 1]
              IN  h \in heap.live /\ r.at - 1 \in HeaderPages(h)
        /\ r.at + r.size < Size /\ heap.heapinfo[r.at + r.size] \in Headers =>
              LET h == heap.heapinfo[r.at + r.size]
              IN  h \in heap.live /\ r.at + r.size = heap.header[h].region


=============================================================================
