----------------------------- MODULE PageTables -----------------------------
(***************************************************************************)
(* Page tables (kernel/modules/memory/vmm.c) under those who map pages:    *)
(* vmalloc, vfree, map_io and unmap_io with the heapinfo pages of their    *)
(* tags (vheap.c), the slabs of kmalloc (kheap.c) and create_task.         *)
(*                                                                         *)
(* The last entry of the boot directory maps the directory itself.         *)
(* create_task copies that entry with the rest of the kernel's part of the *)
(* directory, so whichever directory is loaded, `page_dir` and the page    *)
(* tables the code edits are those of the boot directory.                  *)
(*                                                                         *)
(* An address is the number of its page, a physical page its number; page  *)
(* 0 is what a failed alloc_page returns.  Which region vregion_alloc cuts *)
(* (VHeap.tla) is external: any run of pages that is in no region.         *)
(*                                                                         *)
(* The loops of vmalloc, map_io, vfree and unmap_io are taken a page at a  *)
(* time, the rest of a call in one step.                                   *)
(***************************************************************************)
EXTENDS Integers, FiniteSets, FiniteSetsExt

CONSTANTS
    PerTable,       \* the entries of a page table
    Dirs,           \* the directory indexes of the kernel's part
    Frames,         \* the physical pages of the machine, without page 0
    BootTables,     \* the tables of kstartup.asm, by directory index
    BootImage,      \* the pages they map, by address
    InfoStart,      \* HEAP_INFO_REGION
    HeapStart, HeapMax,     \* KHEAP_START, KHEAP_MAX
    VheapStart, VheapMax,   \* VHEAP_START, VHEAP_MAX
    Requests,       \* the sizes of vmalloc and map_io, in pages
    Devices,        \* what callers pass to map_io: addresses beyond memory
    Tasks           \* the tasks that are ever created

NONE == -1          \* an entry without PAGE_PRESENT
CountMod == 65536   \* mount_table is uint16_t

Entries == 0..(PerTable - 1)
Dir(v) == v \div PerTable
EntryOf(v) == v % PerTable

\* get_heapinfo_pointer: one page of heapinfo for the pages of one table.
KernelDir == Min(Dirs)
InfoPage(v) == InfoStart + (Dir(v) - KernelDir)

HeapPages == HeapStart..(HeapMax - 1)
VheapPages == VheapStart..(VheapMax - 1)
InfoPages == {InfoPage(v) : v \in HeapPages \cup VheapPages}

ASSUME PageTablesAssumption ==
    /\ PerTable \in Nat \ {0} /\ PerTable < CountMod
    /\ Dirs \subseteq Nat
    /\ Frames \subseteq Nat \ {0}
    /\ Devices \subseteq Nat \ Frames
    /\ DOMAIN BootTables \subseteq Dirs
    /\ BootTables \in [DOMAIN BootTables -> Frames]
    /\ BootImage \in [DOMAIN BootImage -> Frames]
    /\ DOMAIN BootImage \subseteq Nat
    /\ {Dir(v) : v \in DOMAIN BootImage} = DOMAIN BootTables
    /\ \A c, d \in DOMAIN BootTables : BootTables[c] = BootTables[d] => c = d
    /\ \A v, w \in DOMAIN BootImage : BootImage[v] = BootImage[w] => v = w
    /\ \A d \in DOMAIN BootTables, v \in DOMAIN BootImage :
          BootTables[d] # BootImage[v]
    /\ HeapStart \in Nat /\ HeapMax \in Nat /\ HeapStart < HeapMax
    /\ VheapStart \in Nat /\ VheapMax \in Nat /\ VheapStart < VheapMax
    /\ InfoPages \subseteq Nat
    /\ \A v \in HeapPages \cup VheapPages \cup InfoPages : Dir(v) \in Dirs
    /\ HeapPages \cap VheapPages = {}
    /\ InfoPages \cap (HeapPages \cup VheapPages) = {}
    /\ DOMAIN BootImage \cap (HeapPages \cup VheapPages \cup InfoPages) = {}
    /\ Requests \subseteq Nat \ {0}

VARIABLES
    page_dir,       \* the boot directory: the page of each table, or NONE
    memory,         \* the physical pages read as page tables
    mount_table,    \* uint16_t mount_table[]
    free,           \* the physical pages alloc_page can return
    lost,           \* pages that were allocated and forgotten
    exhausted,      \* the code has gone on with page 0 for a page
    heap_end,
    regions,        \* what callers hold, see Region
    abandoned,      \* the pages of regions that a failed vmalloc has kept
    call,           \* the call whose loop is running, see Call
    directory       \* task_t.page_directory of the tasks created so far

vars == <<page_dir, memory, mount_table, free, lost, exhausted, heap_end,
          regions, abandoned, call, directory>>

Entry == Frames \cup Devices \cup {0, NONE}

EmptyTable == [e \in Entries |-> NONE]

\* A region of vmalloc (io = NONE), or of map_io with the first device page.
Region == [at : VheapPages, size : Nat \ {0}, io : Devices \cup {NONE}]
PagesOf(r) == r.at..(r.at + r.size - 1)

\* The loop of vmalloc and map_io, or of vfree and unmap_io, and how many pages
\* of its region it has done.
Call == [op : {"none", "map", "unmap"}, region : Region, done : Nat]
Idle == [op |-> "none",
         region |-> [at |-> VheapStart, size |-> 1, io |-> NONE], done |-> 0]

\* Directory entries hold pages of the machine, and alloc_page has only those
\* to give, never the address of a device.
TypeOK ==
    /\ page_dir \in [Dirs -> Frames \cup {0, NONE}]
    /\ memory \in [Frames \cup {0} -> [Entries -> Entry]]
    /\ mount_table \in [Dirs -> 0..(CountMod - 1)]
    /\ free \subseteq Frames \cup {0}
    /\ lost \subseteq Frames \cup {0}
    /\ exhausted \in BOOLEAN
    /\ heap_end \in HeapStart..HeapMax
    /\ regions \subseteq Region
    /\ abandoned \subseteq VheapPages
    /\ call \in Call
    /\ DOMAIN directory \subseteq Tasks
    /\ \A t \in DOMAIN directory : directory[t] \in Frames

-----------------------------------------------------------------------------
(* alloc_page, map_page and unmap_page, on the state m of memory *)

State ==
    [dir |-> page_dir, mem |-> memory, count |-> mount_table, free |-> free,
     lost |-> lost, oom |-> exhausted]

Becomes(m) ==
    /\ page_dir' = m.dir
    /\ memory' = m.mem
    /\ mount_table' = m.count
    /\ free' = m.free
    /\ lost' = m.lost
    /\ exhausted' = m.oom

\* alloc_page returns the lowest free page (PhysMem.tla).
AllocPage(m) == IF m.free = {} THEN 0 ELSE Min(m.free)

\* A page that is used whether or not there is one.
Take(m) == [m EXCEPT !.free = @ \ {AllocPage(m)}, !.oom = @ \/ AllocPage(m) = 0]

\* get_phys_adr
GetPhysAdr(m, v) ==
    IF m.dir[Dir(v)] = NONE THEN NONE ELSE m.mem[m.dir[Dir(v)]][EntryOf(v)]

\* The table is created if the directory has none.  A failed allocation is
\* not handled: page 0 is cleared and becomes the table.
WithTable(m, d) ==
    IF m.dir[d] # NONE THEN m
    ELSE [Take(m) EXCEPT !.dir[d] = AllocPage(m),
                         !.mem[AllocPage(m)] = EmptyTable]

\* Mutant: the mapping that creates the table is not counted.
MutMapPage(m, phys, v) ==
    LET d == Dir(v)
        t == WithTable(m, d)
    IN  [t EXCEPT !.mem[t.dir[d]][EntryOf(v)] = phys,
                  !.count[d] = IF m.dir[d] = NONE THEN @
                              ELSE (@ + 1) % CountMod]

MapPage(m, phys, v) ==
    LET d == Dir(v)
        t == WithTable(m, d)
    IN  [t EXCEPT !.mem[t.dir[d]][EntryOf(v)] = phys,
                  !.count[d] = (@ + 1) % CountMod]

\* Mutant: the last mapping of a table does not free it.
MutUnmapPage(m, v) ==
    LET d == Dir(v)
        table == m.dir[d]
        u == [m EXCEPT !.mem[table][EntryOf(v)] = NONE,
                       !.count[d] = (@ - 1) % CountMod]
    IN  IF u.count[d] # 0 THEN u ELSE [u EXCEPT !.dir[d] = NONE]

\* Mutant: a table with one mapping left goes.
MutUnmapEarly(m, v) ==
    LET d == Dir(v)
        table == m.dir[d]
        u == [m EXCEPT !.mem[table][EntryOf(v)] = NONE,
                       !.count[d] = (@ - 1) % CountMod]
    IN  IF u.count[d] > 1 THEN u
        ELSE [u EXCEPT !.free = @ \cup {table}, !.dir[d] = NONE]

\* The table goes when its last mapping does.
UnmapPage(m, v) ==
    LET d == Dir(v)
        table == m.dir[d]
        u == [m EXCEPT !.mem[table][EntryOf(v)] = NONE,
                       !.count[d] = (@ - 1) % CountMod]
    IN  IF u.count[d] # 0 THEN u
        ELSE [u EXCEPT !.free = @ \cup {table}, !.dir[d] = NONE]

\* map_page(alloc_page(), v)
MapNewPage(m, v) == MapPage(Take(m), AllocPage(m), v)

-----------------------------------------------------------------------------
(* The tags of regions *)

\* set_heapinfo tests one page for NULL and maps another: the first is lost.
SetHeapinfo(m, v) ==
    IF GetPhysAdr(m, InfoPage(v)) # NONE THEN [m |-> m, ok |-> TRUE]
    ELSE IF m.free = {} THEN [m |-> m, ok |-> FALSE]
    ELSE [m |-> MapNewPage([Take(m) EXCEPT !.lost = @ \cup {AllocPage(m)}],
                           InfoPage(v)),
          ok |-> TRUE]

SetTags(m, v, w) ==
    LET set == SetHeapinfo(m, v)
    IN  IF set.ok THEN SetHeapinfo(set.m, w) ELSE set

\* vregion_alloc: the tags of a region and of what is left of the free region
\* it was cut from, which ends at `end`.
TagRegion(m, r, end) ==
    LET next == r.at + r.size
        own == SetTags(m, next - 1, r.at)
    IN  IF own.ok /\ next <= end THEN SetTags(own.m, next, end) ELSE own

\* vregion_free: the tags of the free region from `first` to `last`.
TagFree(m, first, last) == SetHeapinfo(SetHeapinfo(m, first).m, last).m

-----------------------------------------------------------------------------
(* Callers *)

Unheld(v) ==
    /\ v \in VheapPages \ abandoned
    /\ \A r \in regions : v \notin PagesOf(r)

\* vmalloc and map_io up to their loops.
StartMapping(r, end) ==
    /\ ~exhausted /\ call = Idle
    /\ r.at + r.size - 1 <= end
    /\ r.io # NONE => \A i \in 0..(r.size - 1) : r.io + i \in Devices
    /\ \A v \in r.at..end : Unheld(v)
    /\ LET tagged == TagRegion(State, r, end)
       IN  /\ Becomes(tagged.m)
           /\ call' = IF tagged.ok THEN [op |-> "map", region |-> r, done |-> 0]
                      ELSE Idle
    /\ UNCHANGED <<heap_end, regions, abandoned, directory>>

\* One page of the loop of vmalloc or of map_io, and the return after the last.
MapNext ==
    LET r == call.region
        v == r.at + call.done
    IN  /\ ~exhausted /\ call.op = "map"
        /\ r.io = NONE => free # {}
        /\ Becomes(IF r.io = NONE THEN MapNewPage(State, v)
                   ELSE MapPage(State, r.io + call.done, v))
        /\ IF call.done + 1 = r.size
           THEN call' = Idle /\ regions' = regions \cup {r}
           ELSE call' = [call EXCEPT !.done = @ + 1] /\ UNCHANGED regions
        /\ UNCHANGED <<heap_end, abandoned, directory>>

\* vmalloc without a page returns NULL, and keeps what it has.
VmallocFails ==
    /\ ~exhausted /\ call.op = "map" /\ call.region.io = NONE /\ free = {}
    /\ abandoned' = abandoned \cup PagesOf(call.region)
    /\ call' = Idle
    /\ UNCHANGED <<page_dir, memory, mount_table, free, lost, exhausted,
                   heap_end, regions, directory>>

\* vfree and unmap_io
StartUnmapping(r) ==
    /\ ~exhausted /\ call = Idle /\ r \in regions
    /\ regions' = regions \ {r}
    /\ call' = [op |-> "unmap", region |-> r, done |-> 0]
    /\ UNCHANGED <<page_dir, memory, mount_table, free, lost, exhausted,
                   heap_end, abandoned, directory>>

\* Mutant: unmap_io frees the device's page as vfree frees memory.
MutUnmapNext ==
    LET r == call.region
        v == r.at + call.done
        phys == GetPhysAdr(State, v)
    IN  /\ ~exhausted /\ call.op = "unmap" /\ call.done < r.size
        /\ phys # NONE
        /\ Becomes(UnmapPage([State EXCEPT !.free = @ \cup {phys}], v))
        /\ call' = [call EXCEPT !.done = @ + 1]
        /\ UNCHANGED <<heap_end, regions, abandoned, directory>>

\* One page of their loops: vfree calls free_page(get_phys_adr(i)), then
\* unmap_page(i), unmap_io only this.
UnmapNext ==
    LET r == call.region
        v == r.at + call.done
        phys == GetPhysAdr(State, v)
    IN  /\ ~exhausted /\ call.op = "unmap" /\ call.done < r.size
        /\ phys # NONE
        /\ Becomes(UnmapPage(IF r.io = NONE
                             THEN [State EXCEPT !.free = @ \cup {phys}]
                             ELSE State, v))
        /\ call' = [call EXCEPT !.done = @ + 1]
        /\ UNCHANGED <<heap_end, regions, abandoned, directory>>

\* vregion_free at their end, with the free region that the pages become part
\* of.
ReturnRegion(first, last) ==
    /\ ~exhausted /\ call.op = "unmap" /\ call.done = call.region.size
    /\ PagesOf(call.region) \subseteq first..last
    /\ \A v \in first..last : Unheld(v)
    /\ Becomes(TagFree(State, first, last))
    /\ call' = Idle
    /\ UNCHANGED <<heap_end, regions, abandoned, directory>>

\* cache_grow by a slab of one page, from any kmalloc, that of vregion_free
\* included.
GrowHeap ==
    LET mapped == MapNewPage(State, heap_end)
        info == InfoPage(heap_end)
    IN  /\ ~exhausted
        /\ call.op = "unmap" => call.done = call.region.size
        /\ call.op # "map"
        /\ heap_end < HeapMax
        /\ heap_end' = heap_end + 1
        /\ Becomes(IF free = {} THEN State
                   ELSE IF GetPhysAdr(mapped, info) # NONE \/ mapped.free = {}
                   THEN mapped
                   ELSE MapNewPage(mapped, info))
        /\ UNCHANGED <<regions, abandoned, call, directory>>

\* create_task: a page for the directory is mapped with map_io, whose result
\* is used unchecked, the kernel's part of the loaded directory is copied to
\* it, and unmap_io takes it away again.
CreateTask(t, v, end, first, last) ==
    LET page == AllocPage(State)
        r == [at |-> v, size |-> 1, io |-> NONE]
        tagged == TagRegion(Take(State), r, end)
        back == UnmapPage(MapPage(tagged.m, page, v), v)
    IN  /\ ~exhausted /\ call = Idle
        /\ t \notin DOMAIN directory /\ free # {}
        /\ v \in v..end /\ v \in first..last
        /\ \A w \in (v..end) \cup (first..last) : Unheld(w)
        /\ Becomes(IF tagged.ok THEN TagFree(back, first, last)
                   ELSE [tagged.m EXCEPT !.oom = TRUE])
        /\ directory' = [u \in DOMAIN directory \cup {t} |->
                           IF u = t THEN page ELSE directory[u]]
        /\ UNCHANGED <<heap_end, regions, abandoned, call>>

\* create_task when kmalloc has no stack: alloc_page is called before both
\* results are tested, and its page is not given back.
CreateTaskFails ==
    /\ ~exhausted /\ call = Idle /\ free # {}
    /\ Tasks # DOMAIN directory
    /\ Becomes([Take(State) EXCEPT !.lost = @ \cup {AllocPage(State)}])
    /\ UNCHANGED <<heap_end, regions, abandoned, call, directory>>

-----------------------------------------------------------------------------

\* The directory of kstartup.asm without the identity mapping (unmap_dir(0)),
\* its mappings counted by init_mm.
BootState ==
    [dir |-> [d \in Dirs |-> IF d \in DOMAIN BootTables THEN BootTables[d]
                             ELSE NONE],
     mem |-> [f \in Frames \cup {0} |-> [e \in Entries |->
                IF \E v \in DOMAIN BootImage :
                      f = BootTables[Dir(v)] /\ e = EntryOf(v)
                THEN BootImage[CHOOSE v \in DOMAIN BootImage :
                                  f = BootTables[Dir(v)] /\ e = EntryOf(v)]
                ELSE NONE]],
     count |-> [d \in Dirs |-> Cardinality({v \in DOMAIN BootImage : Dir(v) = d})],
     free |-> Frames \ ({BootTables[d] : d \in DOMAIN BootTables} \cup
                        {BootImage[v] : v \in DOMAIN BootImage}),
     lost |-> {},
     oom |-> FALSE]

InitKheap(m) == MapNewPage(MapNewPage(m, HeapStart), InfoPage(HeapStart))
InitVheap(m) == TagFree(m, VheapStart, VheapMax - 1)

\* init_mm
Init ==
    LET m == InitVheap(InitKheap(BootState))
    IN  /\ page_dir = m.dir
        /\ memory = m.mem
        /\ mount_table = m.count
        /\ free = m.free
        /\ lost = m.lost
        /\ exhausted = m.oom
        /\ heap_end = HeapStart + 1
        /\ regions = {}
        /\ abandoned = {}
        /\ call = Idle
        /\ directory = [t \in {} |-> 0]

Next ==
    \/ \E at, end \in VheapPages, size \in Requests, io \in Devices \cup {NONE} :
          StartMapping([at |-> at, size |-> size, io |-> io], end)
    \/ MapNext
    \/ VmallocFails
    \/ \E r \in regions : StartUnmapping(r)
    \/ UnmapNext
    \/ \E first, last \in VheapPages : ReturnRegion(first, last)
    \/ GrowHeap
    \/ \E t \in Tasks, v, end, first, last \in VheapPages :
          CreateTask(t, v, end, first, last)
    \/ CreateTaskFails

Spec == Init /\ [][Next]_vars

-----------------------------------------------------------------------------
(* Properties *)

Present(d) == {e \in Entries : memory[page_dir[d]][e] # NONE}

\* mount_table counts the mappings of every table, so that a table lives
\* exactly as long as it maps something: unmap_page frees no table in use.
MountsCounted ==
    ~exhausted =>
    \A d \in Dirs :
        IF page_dir[d] = NONE THEN mount_table[d] = 0
        ELSE mount_table[d] = Cardinality(Present(d)) /\ mount_table[d] > 0

Tables == {page_dir[d] : d \in {x \in Dirs : page_dir[x] # NONE}}
Mapped ==
    (UNION {{memory[page_dir[d]][e] : e \in Present(d)} :
               d \in {x \in Dirs : page_dir[x] # NONE}}) \cap Frames
DirectoryPages == {directory[t] : t \in DOMAIN directory}

\* Each physical page is one of: free, the page table of one directory entry,
\* mapped, a task's directory, or lost by set_heapinfo or a create_task that
\* failed, and no other is lost: no order of mapping, unmapping, growing and
\* task creation frees a page that is in use, and nothing but these two leaks
\* one.
PagesAccounted ==
    ~exhausted =>
    /\ free \cup Tables \cup Mapped \cup DirectoryPages \cup lost = Frames
    /\ free \cap (Tables \cup Mapped \cup DirectoryPages \cup lost) = {}
    /\ Tables \cap (Mapped \cup DirectoryPages \cup lost) = {}
    /\ Mapped \cap (DirectoryPages \cup lost) = {}
    /\ DirectoryPages \cap lost = {}
    /\ \A c, d \in Dirs :
          page_dir[c] = page_dir[d] /\ page_dir[c] # NONE => c = d

\* As long as a caller holds a region, every page of it is mapped, to memory
\* or to the device's page, and so is the heapinfo page of its size, which
\* vfree and unmap_io read: no other call takes a mapping or a table away.
RegionsMapped ==
    ~exhausted =>
    \A r \in regions :
        /\ GetPhysAdr(State, InfoPage(r.at)) # NONE
        /\ \A i \in 0..(r.size - 1) :
              IF r.io = NONE THEN GetPhysAdr(State, r.at + i) \in Frames
              ELSE GetPhysAdr(State, r.at + i) = r.io + i

=============================================================================
