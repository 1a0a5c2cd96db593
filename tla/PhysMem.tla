------------------------------- MODULE PhysMem -------------------------------
(***************************************************************************)
(* The physical page allocator, kernel/modules/memory/pmm.c: a bitmap with *)
(* one bit per 4 KB page, the cached position alloc_page starts its scan   *)
(* at, and the count of available memory that guards both scans.           *)
(*                                                                         *)
(* The kernel calls it with interrupts disabled, so a call is one action.  *)
(* `owned' is the callers' side: the pages handed out and not yet freed.   *)
(* The search of alloc_pages is stated here by what it returns; AllocScan  *)
(* has its loops.                                                          *)
(***************************************************************************)
EXTENDS Integers, FiniteSets, FiniteSetsExt

CONSTANTS
    Bytes,              \* PMM_BITMAP_SIZE; PHYS_MEM_LIMIT is 8 * Bytes pages
    HighStart,          \* 0x100000 / PAGE_SIZE, the first page of high memory
    LowMem,             \* mem_map, in KB
    LowMemReserved,
    HighMem,
    HighMemReserved,
    BootTable,          \* page 5: the boot page table unmap_dir(0) frees
    Sizes               \* what callers pass to alloc_pages, in bytes

PAGE_SIZE == 4096
PAGE_KB == 4
Bits == 0..7
Full == Bits
Limit == 8 * Bytes
Pages == 0..(Limit - 1)

LowPages == LowMem \div PAGE_KB
HighPages == HighMem \div PAGE_KB
LowReserved == LowMemReserved \div PAGE_KB
HighReserved == HighMemReserved \div PAGE_KB

\* Memory at the ends of the two regions that is counted in available_mem and
\* does not make a page.
Slack == (LowMem % PAGE_KB) + (HighMem % PAGE_KB)

\* kstartup.asm reserves whole pages (24 KB and 64 KB), and the memory map
\* lies below PHYS_MEM_LIMIT: set_bitmap_hole's size would underflow otherwise.
ASSUME PhysMemAssumption ==
    /\ Bytes \in Nat
    /\ HighStart \in Nat
    /\ {LowMem, LowMemReserved, HighMem, HighMemReserved} \subseteq Nat
    /\ LowMemReserved % PAGE_KB = 0
    /\ HighMemReserved % PAGE_KB = 0
    /\ LowReserved <= LowPages
    /\ LowPages <= HighStart
    /\ HighReserved <= HighPages
    /\ HighStart + HighPages <= Limit
    /\ BootTable \in 1..(LowReserved - 1)
    /\ Sizes \subseteq Nat \ {0}

VARIABLES
    bitmap,             \* pmm_bitmap, each byte as the set of its 1 bits
    cached_pos,
    available_mem,      \* in KB
    owned,
    overrun             \* a loop of the allocator has run out of its bounds

vars == <<bitmap, cached_pos, available_mem, owned, overrun>>

\* cached_pos stays inside pmm_bitmap, whatever alloc_page and free_page make of
\* it, and available_mem, which is unsigned, never goes below zero.
TypeOK ==
    /\ bitmap \in [0..(Bytes - 1) -> SUBSET Bits]
    /\ cached_pos \in 0..(Bytes - 1)
    /\ available_mem \in Nat
    /\ owned \subseteq Pages
    /\ overrun \in BOOLEAN

-----------------------------------------------------------------------------
(* Bits of the bitmap *)

\* reserve_page adds 1 << b to the byte: a bit that is set already carries
\* into the bits above it.
AddBit(byte, b) ==
    LET zeros == {k \in Bits : k >= b /\ k \notin byte}
    IN  IF zeros = {} THEN byte \ b..7
        ELSE (byte \ b..Min(zeros)) \cup {Min(zeros)}

\* Mutant: the value of the bit above.
MutSubBit(byte, b) == byte \ {(b + 1) % 8}

\* unreserve_page subtracts: a bit that is clear already borrows.
SubBit(byte, b) ==
    LET ones == {k \in Bits : k >= b /\ k \in byte}
    IN  IF ones = {} THEN byte \cup b..7
        ELSE (byte \ {Min(ones)}) \cup b..(Min(ones) - 1)

PageReserved(p) == (p % 8) \in bitmap[p \div 8]

FreePages == {p \in Pages : ~PageReserved(p)}

\* The byte i of a bitmap in which exactly the pages of P are reserved.
ByteOf(P, i) == {b \in Bits : 8 * i + b \in P}

-----------------------------------------------------------------------------
(* Operations *)

\* Mutant: cached_pos moves on past the byte just used.
MutAllocPage ==
    /\ available_mem >= PAGE_KB
    /\ \E i \in cached_pos..(Bytes - 1), b \in Bits :
          /\ \A j \in cached_pos..(i - 1) : bitmap[j] = Full
          /\ b \notin bitmap[i]
          /\ \A c \in 0..(b - 1) : c \in bitmap[i]
          /\ cached_pos' = i + 1
          /\ bitmap' = [bitmap EXCEPT ![i] = AddBit(@, b)]
          /\ owned' = owned \cup {8 * i + b}
          /\ available_mem' = available_mem - PAGE_KB
          /\ UNCHANGED overrun

\* alloc_page scans from cached_pos for a byte that is not full, and takes its
\* lowest clear bit.  With no such byte the scan leaves the bitmap.
AllocPage ==
    /\ available_mem >= PAGE_KB
    /\ \/ \E i \in cached_pos..(Bytes - 1), b \in Bits :
             /\ \A j \in cached_pos..(i - 1) : bitmap[j] = Full
             /\ b \notin bitmap[i]
             /\ \A c \in 0..(b - 1) : c \in bitmap[i]
             /\ cached_pos' = i
             /\ bitmap' = [bitmap EXCEPT ![i] = AddBit(@, b)]
             /\ owned' = owned \cup {8 * i + b}
             /\ available_mem' = available_mem - PAGE_KB
             /\ UNCHANGED overrun
       \/ /\ \A i \in cached_pos..(Bytes - 1) : bitmap[i] = Full
          /\ overrun' = TRUE
          /\ UNCHANGED <<bitmap, cached_pos, available_mem, owned>>

\* div_up(size, PAGE_SIZE)
PageCount(size) == (size - 1) \div PAGE_SIZE + 1

\* Where alloc_pages may put a block: free pages, and for the DMA controller
\* none across a 64 KB boundary.
Fits(start, count, dma) ==
    /\ start \in 0..(Limit - count)
    /\ start..(start + count - 1) \subseteq FreePages
    /\ dma => start \div 16 = (start + count - 1) \div 16

\* The lowest place is taken; the loop behind `done' then reserves the pages
\* from the last to the first, and does not end for start 0 (index is
\* unsigned).  NULL is returned with nothing changed.
AllocPages(size, dma) ==
    LET count == PageCount(size)
    IN  /\ available_mem >= size \div 1024
        /\ dma => size <= 64 * 1024
        /\ \E start \in Pages :
              /\ Fits(start, count, dma)
              /\ \A s \in 0..(start - 1) : ~Fits(s, count, dma)
              /\ bitmap' = [i \in 0..(Bytes - 1) |->
                              bitmap[i] \cup ByteOf(start..(start + count - 1), i)]
              /\ owned' = owned \cup start..(start + count - 1)
              /\ available_mem' = available_mem - count * PAGE_KB
              /\ overrun' = (overrun \/ start = 0)
              /\ UNCHANGED cached_pos

\* Mutant: cached_pos follows every free, up as well as down.
MutFreePage(p) ==
    /\ p \in owned
    /\ bitmap' = [bitmap EXCEPT ![p \div 8] = SubBit(@, p % 8)]
    /\ available_mem' = available_mem + PAGE_KB
    /\ cached_pos' = p \div 8
    /\ owned' = owned \ {p}
    /\ UNCHANGED overrun

FreePage(p) ==
    /\ p \in owned
    /\ bitmap' = [bitmap EXCEPT ![p \div 8] = SubBit(@, p % 8)]
    /\ available_mem' = available_mem + PAGE_KB
    /\ cached_pos' = IF p \div 8 < cached_pos THEN p \div 8 ELSE cached_pos
    /\ owned' = owned \ {p}
    /\ UNCHANGED overrun

\* init_pmm: memset, then four holes that PhysMemAssumption keeps apart.
BootReserved ==
    0..(LowReserved - 1) \cup LowPages..(HighStart - 1)
      \cup HighStart..(HighStart + HighReserved - 1)
      \cup (HighStart + HighPages)..(Limit - 1)

\* Mutant: the reserved high memory counts as available.
MutInitPmm ==
    /\ bitmap = [i \in 0..(Bytes - 1) |-> ByteOf(BootReserved, i)]
    /\ cached_pos = 0
    /\ available_mem = LowMem - LowMemReserved + HighMem

InitPmm ==
    /\ bitmap = [i \in 0..(Bytes - 1) |-> ByteOf(BootReserved, i)]
    /\ cached_pos = 0
    /\ available_mem = LowMem - LowMemReserved + HighMem - HighMemReserved

Init ==
    /\ InitPmm
    /\ owned = {BootTable}
    /\ overrun = FALSE

Next ==
    \/ AllocPage
    \/ \E size \in Sizes, dma \in BOOLEAN : AllocPages(size, dma)
    \/ \E p \in Pages : FreePage(p)

Spec == Init /\ [][Next]_vars

-----------------------------------------------------------------------------
(* Properties *)

\* The bitmap and the callers agree: exactly the pages reserved at boot and
\* the pages handed out are marked, however allocations of one page, of
\* several and of DMA blocks alternate with frees.  No page is lost, none of
\* the kernel's is given out, and `+=' and `-=' on bytes never carry.
BitmapExact ==
    /\ owned \cap (BootReserved \ {BootTable}) = {}
    /\ \A p \in Pages :
          PageReserved(p) <=> p \in owned \cup (BootReserved \ {BootTable})

\* Every byte below cached_pos is full, although alloc_pages ignores
\* cached_pos and frees happen in any order: alloc_page, which starts there,
\* misses no free page.
NothingFreeBelowCache ==
    \A i \in 0..(cached_pos - 1) : bitmap[i] = Full

\* available_mem counts the free pages, and the memory that makes no page: it
\* never wraps below zero, and no page is given out (and charged) twice.
AvailableExact ==
    available_mem = PAGE_KB * Cardinality(FreePages) + Slack

\* Neither alloc_page's scan, which is guarded by available_mem alone, nor
\* the reserving loop of alloc_pages runs past its bounds.
NoOverrun == ~overrun

=============================================================================
