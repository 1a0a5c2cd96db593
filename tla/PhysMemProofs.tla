---------------------------- MODULE PhysMemProofs ----------------------------
(***************************************************************************)
(* Theorems about PhysMem, for every bitmap size and memory map, and about *)
(* the loops of AllocScan, which implement it, whatever lies behind the    *)
(* bitmap.                                                                 *)
(***************************************************************************)
EXTENDS AllocScan, NatFacts, FiniteSetTheorems, TLAPS

-----------------------------------------------------------------------------
(* Bytes and bits *)

\* A page is a byte of the bitmap and a bit of it.
LEMMA PageSplit ==
    ASSUME NEW p \in Pages
    PROVE  /\ p \in Nat
           /\ p \div 8 \in 0..(Bytes - 1)
           /\ p % 8 \in Bits
           /\ p = 8 * (p \div 8) + (p % 8)
  BY PhysMemAssumption DEF Pages, Limit, Bits

\* A byte of the bitmap and a bit of it are a page.
LEMMA PageJoin ==
    ASSUME NEW i \in 0..(Bytes - 1), NEW b \in Bits
    PROVE  /\ 8 * i + b \in Pages
           /\ (8 * i + b) \div 8 = i
           /\ (8 * i + b) % 8 = b
  BY PhysMemAssumption DEF Pages, Limit, Bits

\* Adding the value of a clear bit sets it and carries nowhere.
LEMMA AddClearBit ==
    ASSUME NEW byte \in SUBSET Bits, NEW b \in Bits, b \notin byte
    PROVE  AddBit(byte, b) = byte \cup {b}
<1> DEFINE zeros == {k \in Bits : k >= b /\ k \notin byte}
<1>1. b \in zeros /\ \A k \in zeros : b <= k
  BY DEF Bits
<1>2. Min(zeros) \in zeros /\ \A k \in zeros : Min(zeros) <= k
  BY <1>1 DEF Min
<1>3. zeros \subseteq Int
  BY DEF Bits
<1>4. Min(zeros) = b
  BY <1>1, <1>2, <1>3
<1>5. AddBit(byte, b) = (byte \ b..b) \cup {b}
  BY <1>1, <1>4 DEF AddBit
<1>6. b..b = {b}
  BY DEF Bits
<1> QED
  BY <1>5, <1>6

\* Subtracting the value of a set bit clears it and borrows nowhere.
LEMMA SubSetBit ==
    ASSUME NEW byte \in SUBSET Bits, NEW b \in Bits, b \in byte
    PROVE  SubBit(byte, b) = byte \ {b}
<1> DEFINE ones == {k \in Bits : k >= b /\ k \in byte}
<1>1. b \in ones /\ \A k \in ones : b <= k
  BY DEF Bits
<1>2. Min(ones) \in ones /\ \A k \in ones : Min(ones) <= k
  BY <1>1 DEF Min
<1>3. ones \subseteq Int
  BY DEF Bits
<1>4. Min(ones) = b
  BY <1>1, <1>2, <1>3
<1>5. SubBit(byte, b) = (byte \ {b}) \cup b..(b - 1)
  BY <1>1, <1>4 DEF SubBit
<1>6. b..(b - 1) = {}
  BY DEF Bits
<1> QED
  BY <1>5, <1>6

-----------------------------------------------------------------------------
(* What the operations do to the set of reserved pages *)

\* reserve_page on a free page takes that page, and only that, from FreePages.
LEMMA ReserveOne ==
    ASSUME TypeOK, NEW i \in 0..(Bytes - 1), NEW b \in Bits, b \notin bitmap[i],
           bitmap' = [bitmap EXCEPT ![i] = AddBit(@, b)]
    PROVE  /\ bitmap' \in [0..(Bytes - 1) -> SUBSET Bits]
           /\ bitmap' = [bitmap EXCEPT ![i] = bitmap[i] \cup {b}]
           /\ 8 * i + b \in FreePages
           /\ \A q \in Pages :
                 PageReserved(q)' <=> PageReserved(q) \/ q = 8 * i + b
<1>1. bitmap[i] \in SUBSET Bits
  BY DEF TypeOK
<1>2. AddBit(bitmap[i], b) = bitmap[i] \cup {b}
  BY <1>1, AddClearBit
<1>3. bitmap' = [bitmap EXCEPT ![i] = bitmap[i] \cup {b}]
  BY <1>2
<1>4. bitmap[i] \cup {b} \in SUBSET Bits
  BY <1>1
<1>5. bitmap' \in [0..(Bytes - 1) -> SUBSET Bits]
  BY <1>3, <1>4 DEF TypeOK
<1>6. 8 * i + b \in FreePages
  BY PageJoin DEF FreePages, PageReserved
<1>7. ASSUME NEW q \in Pages
      PROVE  PageReserved(q)' <=> PageReserved(q) \/ q = 8 * i + b
  <2>1. /\ q \div 8 \in 0..(Bytes - 1)
        /\ q = 8 * i + b <=> q \div 8 = i /\ q % 8 = b
    BY PageSplit, PageJoin
  <2>2. bitmap'[q \div 8] = IF q \div 8 = i THEN bitmap[q \div 8] \cup {b}
                           ELSE bitmap[q \div 8]
    BY <1>3, <2>1 DEF TypeOK
  <2> QED
    BY <2>1, <2>2 DEF PageReserved
<1> QED
  BY <1>3, <1>5, <1>6, <1>7

\* unreserve_page on a reserved page gives that page, and only that, back.
LEMMA UnreserveOne ==
    ASSUME TypeOK, NEW p \in Pages, PageReserved(p),
           bitmap' = [bitmap EXCEPT ![p \div 8] = SubBit(@, p % 8)]
    PROVE  /\ bitmap' \in [0..(Bytes - 1) -> SUBSET Bits]
           /\ bitmap' = [bitmap EXCEPT ![p \div 8] = bitmap[p \div 8] \ {p % 8}]
           /\ \A q \in Pages : PageReserved(q)' <=> PageReserved(q) /\ q # p
<1> DEFINE i == p \div 8
           b == p % 8
<1>1. i \in 0..(Bytes - 1) /\ b \in Bits
  BY PageSplit
<1>2. bitmap[i] \in SUBSET Bits /\ b \in bitmap[i]
  BY <1>1 DEF TypeOK, PageReserved
<1>3. SubBit(bitmap[i], b) = bitmap[i] \ {b}
  BY <1>1, <1>2, SubSetBit
<1>4. bitmap' = [bitmap EXCEPT ![i] = bitmap[i] \ {b}]
  BY <1>3
<1>5. bitmap[i] \ {b} \in SUBSET Bits
  BY <1>2
<1>6. bitmap' \in [0..(Bytes - 1) -> SUBSET Bits]
  BY <1>4, <1>5 DEF TypeOK
<1>7. ASSUME NEW q \in Pages
      PROVE  PageReserved(q)' <=> PageReserved(q) /\ q # p
  <2>1. /\ q \div 8 \in 0..(Bytes - 1)
        /\ q = p <=> q \div 8 = i /\ q % 8 = b
    BY PageSplit
  <2>2. bitmap'[q \div 8] = IF q \div 8 = i THEN bitmap[q \div 8] \ {b}
                           ELSE bitmap[q \div 8]
    BY <1>4, <2>1 DEF TypeOK
  <2> QED
    BY <2>1, <2>2 DEF PageReserved
<1> QED
  BY <1>4, <1>6, <1>7

\* The reserving loop of alloc_pages takes exactly its run of pages.
LEMMA ReserveRun ==
    ASSUME TypeOK, NEW run \in SUBSET Pages,
           bitmap' = [i \in 0..(Bytes - 1) |-> bitmap[i] \cup ByteOf(run, i)]
    PROVE  /\ bitmap' \in [0..(Bytes - 1) -> SUBSET Bits]
           /\ \A i \in 0..(Bytes - 1) : bitmap[i] \subseteq bitmap'[i]
           /\ \A q \in Pages : PageReserved(q)' <=> PageReserved(q) \/ q \in run
<1>1. \A i \in 0..(Bytes - 1) : ByteOf(run, i) \subseteq Bits
  BY DEF ByteOf
<1>2. \A i \in 0..(Bytes - 1) : bitmap[i] \subseteq Bits
  BY DEF TypeOK
<1>3. ASSUME NEW q \in Pages
      PROVE  PageReserved(q)' <=> PageReserved(q) \/ q \in run
  <2>1. /\ q \div 8 \in 0..(Bytes - 1)
        /\ q % 8 \in Bits
        /\ q = 8 * (q \div 8) + (q % 8)
    BY PageSplit
  <2>2. bitmap'[q \div 8] = bitmap[q \div 8] \cup ByteOf(run, q \div 8)
    BY <2>1
  <2>3. (q % 8) \in ByteOf(run, q \div 8) <=> q \in run
    BY <2>1 DEF ByteOf
  <2> QED
    BY <2>2, <2>3 DEF PageReserved
<1> QED
  BY <1>1, <1>2, <1>3

-----------------------------------------------------------------------------
(* The invariant *)

\* The four facts rest on each other: BitmapExact says that a freed page is
\* reserved, so that `-=' does not borrow; AvailableExact that the count does
\* not underflow.
Inv ==
    /\ TypeOK
    /\ BitmapExact
    /\ NothingFreeBelowCache
    /\ AvailableExact

BootKept == BootReserved \ {BootTable}

\* The free pages can be counted.
LEMMA FreeFinite ==
    /\ IsFiniteSet(Pages)
    /\ IsFiniteSet(FreePages)
    /\ Cardinality(FreePages) \in Nat
<1>1. IsFiniteSet(Pages)
  BY PhysMemAssumption, FS_Interval DEF Pages, Limit
<1>2. FreePages \in SUBSET Pages
  BY DEF FreePages
<1>3. IsFiniteSet(FreePages)
  BY <1>1, <1>2, FS_Subset
<1> QED
  BY <1>1, <1>3, FS_CardinalityType

\* The memory that makes no page is a number of KB.
LEMMA SlackType == Slack \in Nat
  BY PhysMemAssumption DEF Slack, PAGE_KB

\* alloc_page keeps the invariant.
LEMMA AllocPageInv ==
    ASSUME Inv, AllocPage
    PROVE  Inv'
<1>1. ASSUME UNCHANGED <<bitmap, cached_pos, available_mem, owned>>,
             overrun' = TRUE
      PROVE  Inv'
  BY <1>1 DEF Inv, TypeOK, BitmapExact, NothingFreeBelowCache, AvailableExact,
              FreePages, PageReserved
<1>2. ASSUME NEW i \in cached_pos..(Bytes - 1), NEW b \in Bits,
             \A j \in cached_pos..(i - 1) : bitmap[j] = Full,
             b \notin bitmap[i],
             cached_pos' = i,
             bitmap' = [bitmap EXCEPT ![i] = AddBit(@, b)],
             owned' = owned \cup {8 * i + b},
             available_mem' = available_mem - PAGE_KB,
             UNCHANGED overrun
      PROVE  Inv'
  <2> DEFINE p == 8 * i + b
  <2>1. i \in 0..(Bytes - 1) /\ cached_pos \in 0..(Bytes - 1)
    BY PhysMemAssumption DEF Inv, TypeOK
  <2>2. /\ bitmap' \in [0..(Bytes - 1) -> SUBSET Bits]
        /\ bitmap' = [bitmap EXCEPT ![i] = bitmap[i] \cup {b}]
        /\ p \in FreePages
        /\ \A q \in Pages : PageReserved(q)' <=> PageReserved(q) \/ q = p
    BY <1>2, <2>1, ReserveOne DEF Inv
  <2> HIDE DEF p
  <2>3. p \in Pages /\ ~PageReserved(p)
    BY <2>2 DEF FreePages
  <2>4. owned' = owned \cup {p}
    BY <1>2 DEF p
  <2>5. BitmapExact'
    BY <2>2, <2>3, <2>4 DEF Inv, BitmapExact
  <2>6. FreePages' = FreePages \ {p}
    BY <2>2 DEF FreePages
  <2>7. /\ Cardinality(FreePages') = Cardinality(FreePages) - 1
        /\ Cardinality(FreePages') \in Nat
    BY <2>2, <2>6, FreeFinite, FS_RemoveElement, FS_CardinalityType
  <2>8. /\ available_mem' = PAGE_KB * Cardinality(FreePages') + Slack
        /\ available_mem' \in Nat
    BY <1>2, <2>7, FreeFinite, SlackType DEF Inv, AvailableExact, PAGE_KB
  <2>9. NothingFreeBelowCache'
    <3> SUFFICES ASSUME NEW j \in 0..(i - 1)
                 PROVE  bitmap'[j] = Full
      BY <1>2 DEF NothingFreeBelowCache
    <3>1. j \in 0..(Bytes - 1) /\ j # i
      BY <2>1, PhysMemAssumption
    <3>2. bitmap'[j] = bitmap[j]
      BY <2>2, <3>1 DEF Inv, TypeOK
    <3>3. j \in 0..(cached_pos - 1) \/ j \in cached_pos..(i - 1)
      BY <2>1, PhysMemAssumption
    <3> QED
      BY <1>2, <3>2, <3>3 DEF Inv, NothingFreeBelowCache
  <2>10. TypeOK'
    BY <1>2, <2>1, <2>2, <2>3, <2>4, <2>8 DEF Inv, TypeOK
  <2> QED
    BY <2>5, <2>8, <2>9, <2>10 DEF Inv, AvailableExact
<1> QED
  BY <1>1, <1>2 DEF AllocPage

\* alloc_pages keeps the invariant.
LEMMA AllocPagesInv ==
    ASSUME Inv, NEW size \in Sizes, NEW low \in BOOLEAN, AllocPages(size, low)
    PROVE  Inv'
<1> DEFINE n == PageCount(size)
<1>1. n \in Nat \ {0}
  BY PhysMemAssumption DEF PageCount, PAGE_SIZE
<1>2. PICK start \in Pages :
         /\ Fits(start, n, low)
         /\ bitmap' = [i \in 0..(Bytes - 1) |->
                         bitmap[i] \cup ByteOf(start..(start + n - 1), i)]
         /\ owned' = owned \cup start..(start + n - 1)
         /\ available_mem' = available_mem - n * PAGE_KB
         /\ overrun' = (overrun \/ start = 0)
         /\ UNCHANGED cached_pos
  BY DEF AllocPages
<1> HIDE DEF n
<1> DEFINE run == start..(start + n - 1)
<1>3. run \subseteq FreePages
  BY <1>2 DEF Fits
<1>4. IsFiniteSet(run) /\ Cardinality(run) = n
  <2>1. start \in Int /\ start + n - 1 \in Int /\ ~(start > start + n - 1)
    BY <1>1, PageSplit
  <2>2. Cardinality(run) = (start + n - 1) - start + 1
    BY <2>1, FS_Interval
  <2> QED
    BY <1>1, <2>1, <2>2, FS_Interval
<1>5. /\ bitmap' = [i \in 0..(Bytes - 1) |-> bitmap[i] \cup ByteOf(run, i)]
      /\ owned' = owned \cup run
  BY <1>2
<1> HIDE DEF run
<1>6. run \subseteq Pages /\ \A q \in run : ~PageReserved(q)
  BY <1>3 DEF FreePages
<1>7. /\ bitmap' \in [0..(Bytes - 1) -> SUBSET Bits]
      /\ \A i \in 0..(Bytes - 1) : bitmap[i] \subseteq bitmap'[i]
      /\ \A q \in Pages : PageReserved(q)' <=> PageReserved(q) \/ q \in run
  BY <1>5, <1>6, ReserveRun DEF Inv
<1>8. BitmapExact'
  BY <1>5, <1>6, <1>7 DEF Inv, BitmapExact
<1>9. FreePages' = FreePages \ run
  BY <1>7 DEF FreePages
<1>10. /\ Cardinality(FreePages') = Cardinality(FreePages) - n
       /\ Cardinality(FreePages') \in Nat
  <2>1. FreePages \cap run = run
    BY <1>3
  <2>2. /\ IsFiniteSet(FreePages')
        /\ Cardinality(FreePages') = Cardinality(FreePages) - Cardinality(run)
    <3>1. /\ IsFiniteSet(FreePages \ run)
          /\ Cardinality(FreePages \ run) =
                Cardinality(FreePages) - Cardinality(FreePages \cap run)
      BY FreeFinite, FS_Difference
    <3> QED
      BY <1>9, <2>1, <3>1
  <2> QED
    BY <1>4, <2>2, FS_CardinalityType
<1>11. /\ available_mem' = PAGE_KB * Cardinality(FreePages') + Slack
       /\ available_mem' \in Nat
  BY <1>1, <1>2, <1>10, FreeFinite, SlackType DEF Inv, AvailableExact, PAGE_KB
<1>12. NothingFreeBelowCache'
  <2> SUFFICES ASSUME NEW j \in 0..(cached_pos - 1)
               PROVE  bitmap'[j] = Full
    BY <1>2 DEF NothingFreeBelowCache
  <2>1. j \in 0..(Bytes - 1)
    BY PhysMemAssumption DEF Inv, TypeOK
  <2>2. bitmap[j] = Full /\ bitmap'[j] \subseteq Bits
    BY <1>7, <2>1 DEF Inv, NothingFreeBelowCache
  <2> QED
    BY <1>7, <2>1, <2>2 DEF Full
<1>13. TypeOK'
  <2>1. overrun' \in BOOLEAN
    BY <1>2
  <2> QED
    BY <1>2, <1>5, <1>6, <1>7, <1>11, <2>1 DEF Inv, TypeOK
<1> QED
  BY <1>8, <1>11, <1>12, <1>13 DEF Inv, AvailableExact

\* free_page keeps the invariant.
LEMMA FreePageInv ==
    ASSUME Inv, NEW p \in Pages, FreePage(p)
    PROVE  Inv'
<1>1. /\ p \in owned
      /\ PageReserved(p)
      /\ p \notin BootKept
  BY DEF FreePage, Inv, BitmapExact, BootKept
<1>2. /\ bitmap' \in [0..(Bytes - 1) -> SUBSET Bits]
      /\ bitmap' = [bitmap EXCEPT ![p \div 8] = bitmap[p \div 8] \ {p % 8}]
      /\ \A q \in Pages : PageReserved(q)' <=> PageReserved(q) /\ q # p
  BY <1>1, UnreserveOne DEF Inv, FreePage
<1>3. BitmapExact'
  BY <1>1, <1>2 DEF Inv, BitmapExact, BootKept, FreePage
<1>4. FreePages' = FreePages \cup {p} /\ p \notin FreePages
  BY <1>1, <1>2 DEF FreePages
<1>5. Cardinality(FreePages') = Cardinality(FreePages) + 1
  BY <1>4, FreeFinite, FS_AddElement
<1>6. /\ available_mem' = PAGE_KB * Cardinality(FreePages') + Slack
      /\ available_mem' \in Nat
  BY <1>5, FreeFinite, SlackType DEF Inv, AvailableExact, PAGE_KB, FreePage
<1>7. /\ p \div 8 \in 0..(Bytes - 1)
      /\ cached_pos \in 0..(Bytes - 1)
      /\ cached_pos' = IF p \div 8 < cached_pos THEN p \div 8 ELSE cached_pos
  BY PageSplit DEF Inv, TypeOK, FreePage
<1>8. NothingFreeBelowCache'
  <2> SUFFICES ASSUME NEW j \in 0..(cached_pos' - 1)
               PROVE  bitmap'[j] = Full
    BY DEF NothingFreeBelowCache
  <2>1. j \in 0..(Bytes - 1) /\ j # p \div 8 /\ j \in 0..(cached_pos - 1)
    BY <1>7, PhysMemAssumption
  <2>2. bitmap'[j] = bitmap[j]
    BY <1>2, <2>1 DEF Inv, TypeOK
  <2> QED
    BY <2>1, <2>2 DEF Inv, NothingFreeBelowCache
<1>9. TypeOK'
  BY <1>2, <1>6, <1>7 DEF Inv, TypeOK, FreePage
<1> QED
  BY <1>3, <1>6, <1>8, <1>9 DEF Inv, AvailableExact

\* KB to pages and back.
LEMMA DivMod4 ==
    ASSUME NEW m \in Nat
    PROVE  m = 4 * (m \div 4) + (m % 4) /\ (m % 4) \in Nat
  OBVIOUS

\* init_pmm establishes the invariant.
LEMMA InitInv == Init => Inv
<1> SUFFICES ASSUME Init PROVE Inv
  OBVIOUS
<1>1. /\ LowPages \in Nat /\ HighPages \in Nat
      /\ LowReserved \in Nat /\ HighReserved \in Nat
      /\ HighStart \in Nat /\ Bytes \in Nat
      /\ LowReserved <= LowPages /\ LowPages <= HighStart
      /\ HighReserved <= HighPages /\ HighStart + HighPages <= 8 * Bytes
      /\ BootTable \in 1..(LowReserved - 1)
  BY PhysMemAssumption
     DEF LowPages, HighPages, LowReserved, HighReserved, PAGE_KB, Limit
<1>2. BootReserved \subseteq Pages /\ BootTable \in BootReserved
  BY <1>1 DEF BootReserved, Pages, Limit
<1>3. ASSUME NEW p \in Pages PROVE PageReserved(p) <=> p \in BootReserved
  <2>1. /\ p \div 8 \in 0..(Bytes - 1)
        /\ p % 8 \in Bits
        /\ p = 8 * (p \div 8) + (p % 8)
    BY PageSplit
  <2>2. bitmap[p \div 8] = ByteOf(BootReserved, p \div 8)
    BY <2>1 DEF Init, InitPmm
  <2> QED
    BY <2>1, <2>2 DEF PageReserved, ByteOf
<1>4. BitmapExact
  BY <1>2, <1>3 DEF Init, BitmapExact
<1>5. NothingFreeBelowCache
  BY DEF Init, InitPmm, NothingFreeBelowCache
<1> DEFINE low == LowReserved..(LowPages - 1)
           high == (HighStart + HighReserved)..(HighStart + HighPages - 1)
<1>6. FreePages = low \cup high
  <2>1. ASSUME NEW p \in Pages
        PROVE  p \notin BootReserved <=> p \in low \cup high
    BY <1>1 DEF BootReserved, Pages, Limit
  <2>2. low \cup high \subseteq Pages
    BY <1>1 DEF Pages, Limit
  <2> HIDE DEF low, high
  <2> QED
    BY <1>3, <2>1, <2>2 DEF FreePages
<1>7. low \cap high = {}
  BY <1>1
<1>8. /\ IsFiniteSet(low) /\ Cardinality(low) = LowPages - LowReserved
      /\ IsFiniteSet(high) /\ Cardinality(high) = HighPages - HighReserved
  <2>1. Cardinality(low) = LowPages - LowReserved /\ IsFiniteSet(low)
    <3>1. /\ IsFiniteSet(low)
          /\ Cardinality(low) = IF LowReserved > LowPages - 1 THEN 0
                                ELSE (LowPages - 1) - LowReserved + 1
      BY <1>1, FS_Interval
    <3> QED
      BY <1>1, <3>1
  <2>2. Cardinality(high) = HighPages - HighReserved /\ IsFiniteSet(high)
    <3> DEFINE a == HighStart + HighReserved
               z == HighStart + HighPages - 1
    <3>1. a \in Int /\ z \in Int
      BY <1>1
    <3> HIDE DEF a, z
    <3>2. /\ IsFiniteSet(a..z)
          /\ Cardinality(a..z) = IF a > z THEN 0 ELSE z - a + 1
      BY <3>1, FS_Interval
    <3>3. (IF a > z THEN 0 ELSE z - a + 1) = HighPages - HighReserved
      BY <1>1 DEF a, z
    <3> QED
      BY <3>2, <3>3 DEF a, z
  <2> QED
    BY <2>1, <2>2
<1> HIDE DEF low, high
<1>9. Cardinality(FreePages) = (LowPages - LowReserved) + (HighPages - HighReserved)
  <2>1. Cardinality(low \cup high) =
           Cardinality(low) + Cardinality(high) - Cardinality(low \cap high)
    BY <1>8, FS_Union
  <2>2. Cardinality(low \cap high) = 0
    BY <1>7, FS_EmptySet
  <2> QED
    BY <1>1, <1>6, <1>8, <2>1, <2>2
<1>10. /\ LowMem = 4 * LowPages + (LowMem % 4)
       /\ HighMem = 4 * HighPages + (HighMem % 4)
       /\ LowMemReserved = 4 * LowReserved
       /\ HighMemReserved = 4 * HighReserved
       /\ LowMem \in Nat /\ HighMem \in Nat
       /\ (LowMem % 4) \in Nat /\ (HighMem % 4) \in Nat
  <2>1. \A m \in Nat : m = 4 * (m \div 4) + (m % 4) /\ (m % 4) \in Nat
    BY DivMod4
  <2>2. /\ LowMem \in Nat /\ LowMemReserved \in Nat
        /\ HighMem \in Nat /\ HighMemReserved \in Nat
        /\ (LowMemReserved % 4) = 0
        /\ (HighMemReserved % 4) = 0
    BY PhysMemAssumption DEF PAGE_KB
  <2>3. /\ LowMem = 4 * LowPages + (LowMem % 4)
        /\ HighMem = 4 * HighPages + (HighMem % 4)
    BY <2>1, <2>2 DEF LowPages, HighPages, PAGE_KB
  <2>4. /\ LowMemReserved = 4 * LowReserved + (LowMemReserved % 4)
        /\ HighMemReserved = 4 * HighReserved + (HighMemReserved % 4)
    BY <2>1, <2>2 DEF LowReserved, HighReserved, PAGE_KB
  <2> QED
    BY <1>1, <2>1, <2>2, <2>3, <2>4
<1>11. AvailableExact
  <2>1. available_mem = LowMem - LowMemReserved + HighMem - HighMemReserved
    BY DEF Init, InitPmm
  <2>2. Slack = (LowMem % 4) + (HighMem % 4)
    BY DEF Slack, PAGE_KB
  <2>3. PICK x \in Nat, y \in Nat : x = (LowMem % 4) /\ y = (HighMem % 4)
    BY <1>10
  <2>4. /\ available_mem = (4 * LowPages + x) - 4 * LowReserved
                              + (4 * HighPages + y) - 4 * HighReserved
        /\ Slack = x + y
    BY <1>10, <2>1, <2>2, <2>3
  <2> QED
    BY <1>1, <1>9, <2>4 DEF AvailableExact, PAGE_KB
<1>12. TypeOK
  <2>1. bitmap \in [0..(Bytes - 1) -> SUBSET Bits]
    BY DEF Init, InitPmm, ByteOf
  <2>2. cached_pos \in 0..(Bytes - 1)
    BY <1>1 DEF Init, InitPmm
  <2>3. available_mem \in Nat
    BY <1>11, FreeFinite, SlackType DEF AvailableExact, PAGE_KB
  <2> QED
    BY <1>2, <2>1, <2>2, <2>3 DEF Init, TypeOK
<1> QED
  BY <1>4, <1>5, <1>11, <1>12 DEF Inv

\* Every call keeps the invariant.
LEMMA NextInv == Inv /\ [Next]_vars => Inv'
<1> SUFFICES ASSUME Inv, [Next]_vars PROVE Inv'
  OBVIOUS
<1>1. CASE UNCHANGED vars
  BY <1>1 DEF vars, Inv, TypeOK, BitmapExact, NothingFreeBelowCache,
              AvailableExact, FreePages, PageReserved
<1> QED
  BY <1>1, AllocPageInv, AllocPagesInv, FreePageInv DEF Next

\* Every variable keeps its type; available_mem, a uint32_t, does not wrap
\* below zero.
THEOREM TypeCorrect == Spec => []TypeOK
<1>1. Inv => TypeOK
  BY DEF Inv
<1> QED
  BY <1>1, InitInv, NextInv, PTL DEF Spec

\* pmm_bitmap marks exactly the pages reserved at boot and those handed out:
\* no two callers ever own the same page.
THEOREM BitmapCorrect == Spec => []BitmapExact
<1>1. Inv => BitmapExact
  BY DEF Inv
<1> QED
  BY <1>1, InitInv, NextInv, PTL DEF Spec

\* alloc_page, which starts at cached_pos, overlooks no free page.
THEOREM CacheCorrect == Spec => []NothingFreeBelowCache
<1>1. Inv => NothingFreeBelowCache
  BY DEF Inv
<1> QED
  BY <1>1, InitInv, NextInv, PTL DEF Spec

\* available_mem is exact up to the memory that makes no page.
THEOREM AvailableCorrect == Spec => []AvailableExact
<1>1. Inv => AvailableExact
  BY DEF Inv
<1> QED
  BY <1>1, InitInv, NextInv, PTL DEF Spec

\* The scans of alloc_page stay inside the bitmap, and the loop of alloc_pages
\* ends, provided less than a page of the memory map is left over: the code
\* relies on low_mem % 4 + high_mem % 4 < 4 without saying so.
THEOREM ScansBounded ==
    ASSUME Slack < PAGE_KB
    PROVE  Spec => []NoOverrun
<1>1. Inv /\ NoOverrun /\ [Next]_vars => NoOverrun'
  <2> SUFFICES ASSUME Inv, NoOverrun, [Next]_vars PROVE NoOverrun'
    OBVIOUS
  <2>1. CASE AllocPage
    <3>1. available_mem >= 4
      BY <2>1 DEF AllocPage, PAGE_KB
    <3>2. FreePages # {}
      <4> SUFFICES ASSUME FreePages = {} PROVE FALSE
        OBVIOUS
      <4>1. Cardinality(FreePages) = 0
        BY FS_EmptySet
      <4> QED
        BY <3>1, <4>1, SlackType DEF Inv, AvailableExact, PAGE_KB
    <3>3. PICK p \in Pages : ~PageReserved(p)
      BY <3>2 DEF FreePages
    <3>4. /\ p \div 8 \in 0..(Bytes - 1) /\ p % 8 \in Bits
          /\ bitmap[p \div 8] # Full
      BY <3>3, PageSplit DEF PageReserved, Full
    <3>5. p \div 8 \in cached_pos..(Bytes - 1)
      <4>1. p \div 8 \notin 0..(cached_pos - 1)
        BY <3>4 DEF Inv, NothingFreeBelowCache
      <4>2. cached_pos \in 0..(Bytes - 1)
        BY DEF Inv, TypeOK
      <4> QED
        BY <3>4, <4>1, <4>2, PhysMemAssumption
    <3> QED
      BY <2>1, <3>4, <3>5 DEF AllocPage, NoOverrun
  <2>2. ASSUME NEW size \in Sizes, NEW low \in BOOLEAN, AllocPages(size, low)
        PROVE  NoOverrun'
    <3>1. PICK start \in Pages :
             /\ Fits(start, PageCount(size), low)
             /\ overrun' = (overrun \/ start = 0)
      BY <2>2 DEF AllocPages
    <3>2. start \in FreePages
      <4>1. PageCount(size) \in Nat \ {0}
        BY PhysMemAssumption DEF PageCount, PAGE_SIZE
      <4>2. start \in start..(start + PageCount(size) - 1)
        BY <4>1, PageSplit
      <4> QED
        BY <3>1, <4>2 DEF Fits
    <3>3. 0 \in BootReserved \ {BootTable}
      BY PhysMemAssumption DEF BootReserved, LowReserved, PAGE_KB
    <3>4. start # 0
      BY <3>2, <3>3 DEF Inv, BitmapExact, FreePages
    <3> QED
      BY <3>1, <3>4 DEF NoOverrun
  <2>3. ASSUME NEW p \in Pages, FreePage(p) PROVE NoOverrun'
    BY <2>3 DEF FreePage, NoOverrun
  <2>4. CASE UNCHANGED vars
    BY <2>4 DEF vars, NoOverrun
  <2> QED
    BY <2>1, <2>2, <2>3, <2>4 DEF Next
<1>2. Init => NoOverrun
  BY DEF Init, NoOverrun
<1> QED
  BY <1>1, <1>2, InitInv, NextInv, PTL DEF Spec

-----------------------------------------------------------------------------
(* What the loops over bytes and bits find *)

\* A byte two behind the bitmap is never full.
LEMMA FirstNotFullFound ==
    ASSUME NEW pos \in 0..(Bytes + 1)
    PROVE  /\ FirstNotFull(pos) \in pos..(Bytes + 1)
           /\ \A r \in pos..(FirstNotFull(pos) - 1) : ByteAt(r) = Full
<1> DEFINE T == {q \in pos..(Bytes + 1) : ByteAt(q) # Full}
<1>1. Bytes \in Nat
  BY PhysMemAssumption
<1>2. Bytes + 1 \in T
  BY <1>1 DEF ByteAt, Full, Bits
<1>3. PICK m \in T : \A k \in T : m <= k
  <2>1. T \in SUBSET Nat
    BY <1>1
  <2> HIDE DEF T
  <2> QED
    BY <1>2, <2>1, LeastElement
<1>4. /\ m \in pos..(Bytes + 2)
      /\ ByteAt(m) # Full
      /\ \A r \in pos..(m - 1) : ByteAt(r) = Full
  BY <1>1, <1>3
<1> DEFINE q == FirstNotFull(pos)
<1>5. /\ q \in pos..(Bytes + 2)
      /\ ByteAt(q) # Full
      /\ \A r \in pos..(q - 1) : ByteAt(r) = Full
  BY <1>4, Zenon DEF FirstNotFull
<1>6. q <= m
  BY <1>1, <1>3, <1>4, <1>5
<1> QED
  BY <1>1, <1>3, <1>5, <1>6

\* Likewise for the bits of the byte found, or of those behind it.
LEMMA FirstFreeFound ==
    ASSUME NEW p \in 0..(Limit + 8)
    PROVE  /\ FirstFree(p) \in p..(Limit + 8)
           /\ ~Reserved(FirstFree(p))
           /\ \A r \in p..(FirstFree(p) - 1) : Reserved(r)
<1> DEFINE T == {q \in p..(Limit + 8) : ~Reserved(q)}
<1>1. Bytes \in Nat /\ Limit \in Nat
  BY PhysMemAssumption DEF Limit
<1>2. Limit + 8 \in T
  <2>1. (Limit + 8) \div 8 = Bytes + 1
    BY <1>1 DEF Limit
  <2>2. ByteAt(Bytes + 1) = {}
    BY <1>1 DEF ByteAt
  <2>3. ~Reserved(Limit + 8)
    BY <2>1, <2>2 DEF Reserved
  <2>4. Limit + 8 \in p..(Limit + 8)
    BY <1>1
  <2> QED
    BY <2>3, <2>4
<1>3. PICK m \in T : \A k \in T : m <= k
  <2>1. T \in SUBSET Nat
    BY <1>1
  <2> HIDE DEF T
  <2> QED
    BY <1>2, <2>1, LeastElement
<1>4. /\ m \in p..(Limit + 16)
      /\ ~Reserved(m)
      /\ \A r \in p..(m - 1) : Reserved(r)
  BY <1>1, <1>3
<1> DEFINE q == FirstFree(p)
<1>5. /\ q \in p..(Limit + 16)
      /\ ~Reserved(q)
      /\ \A r \in p..(q - 1) : Reserved(r)
  BY <1>4, Zenon DEF FirstFree
<1>6. q <= m
  BY <1>1, <1>3, <1>4, <1>5
<1> QED
  BY <1>1, <1>3, <1>5, <1>6

\* A block with a reserved page, or with one behind memory, does not fit.
LEMMA ReservedNotFit ==
    ASSUME NEW s \in Nat, NEW n \in Nat \ {0}, NEW d, NEW p \in s..(s + n - 1),
           Reserved(p) \/ p >= Limit
    PROVE  ~Fits(s, n, d)
<1> SUFFICES ASSUME Fits(s, n, d) PROVE FALSE
  OBVIOUS
<1>1. Bytes \in Nat /\ Limit = 8 * Bytes
  BY PhysMemAssumption DEF Limit
<1>2. p \in FreePages
  BY DEF Fits
<1>3. p \in Pages /\ ~PageReserved(p)
  BY <1>2 DEF FreePages
<1>4. p < Limit /\ p \div 8 < Bytes
  BY <1>1, <1>3 DEF Pages
<1> QED
  BY <1>1, <1>3, <1>4 DEF Reserved, PageReserved, ByteAt

-----------------------------------------------------------------------------
(* The invariant of the search *)

\* No block that begins below p fits.
NoneBelow(p) == \A s \in 0..(p - 1) : ~Fits(s, count, dma)

\* The request is one that alloc_pages goes on with.
Request ==
    /\ dma \in BOOLEAN
    /\ count \in Nat \ {0}
    /\ \E size \in Sizes :
          /\ count = PageCount(size)
          /\ available_mem >= size \div 1024
          /\ dma => size <= 64 * 1024

\* The outer loop: everything below index is done with.
OuterInv ==
    /\ index \in 0..Limit
    /\ NoneBelow(index)

\* The inner loop: the pages from start_index to index are free and too few;
\* dma_pos is even and not above start_index, although it may be the position
\* of an earlier byte than start_index's.
InnerInv ==
    /\ start_index \in Nat
    /\ index \in Nat
    /\ start_index <= index
    /\ index - start_index < count
    /\ index = start_index => ~Reserved(index)
    /\ index # start_index => index <= Limit
    /\ \A p \in start_index..(index - 1) : ~Reserved(p)
    /\ dma_pos \in Nat
    /\ dma_pos % 2 = 0
    /\ 8 * dma_pos <= start_index
    /\ NoneBelow(start_index)

DoneInv ==
    /\ start_index \in Pages
    /\ index = start_index + count
    /\ Fits(start_index, count, dma)
    /\ NoneBelow(start_index)

NullInv == \A s \in Pages : ~Fits(s, count, dma)

\* free_pages: the pages it has left to free are the caller's.
FreeInv ==
    /\ index \in Nat
    /\ count \in Nat \ {0}
    /\ index..(index + count - 1) \subseteq owned

ScanInv ==
    /\ pc \in {"idle", "outer", "inner", "done", "null", "free"}
    /\ pc = "idle" => index = 0
    /\ pc \in {"outer", "inner", "done", "null"} => Request
    /\ pc = "outer" => OuterInv
    /\ pc = "inner" => InnerInv
    /\ pc = "done" => DoneInv
    /\ pc = "null" => NullInv
    /\ pc = "free" => FreeInv

\* A round of the outer loop.
LEMMA OuterStep ==
    ASSUME Request, OuterInv, Outer
    PROVE  Request' /\ InnerInv'
<1> DEFINE pos == FirstNotFull(index \div 8)
           from == IF pos = index \div 8 THEN index ELSE pos * 8
           first == FirstFree(from)
<1>1. /\ Bytes \in Nat /\ Limit \in Nat /\ Limit = 8 * Bytes
      /\ index \in Nat /\ index <= Limit
  BY PhysMemAssumption DEF Limit, OuterInv
<1>2. index \div 8 \in 0..(Bytes + 1)
  BY <1>1
<1>3. /\ pos \in (index \div 8)..(Bytes + 1)
      /\ \A r \in (index \div 8)..(pos - 1) : ByteAt(r) = Full
  BY <1>2, FirstNotFullFound
<1>4. pc' = "inner" /\ dma_pos' = pos - (pos % 2) /\ index' = first
      /\ start_index' = first /\ UNCHANGED <<vars, beyond, count, dma>>
  BY DEF Outer
<1> HIDE DEF pos
<1>5. /\ from \in 0..(Limit + 8) /\ index <= from /\ 8 * pos <= from
      /\ pos \in Nat
  BY <1>1, <1>2, <1>3
\* The pages of the bytes that are passed over are reserved.
<1>6. \A r \in index..(from - 1) : Reserved(r)
  <2> SUFFICES ASSUME NEW r \in index..(from - 1) PROVE Reserved(r)
    OBVIOUS
  <2>1. /\ r \in Nat /\ index <= r /\ r < from
    BY <1>1, <1>5
  <2>2. from = pos * 8
    BY <1>1, <2>1
  <2>3. r \div 8 \in (index \div 8)..(pos - 1) /\ r % 8 \in Bits
    BY <1>1, <1>5, <2>1, <2>2 DEF Bits
  <2> QED
    BY <1>3, <2>3 DEF Reserved, Full
<1> HIDE DEF from
<1>7. /\ first \in from..(Limit + 8)
      /\ ~Reserved(first)
      /\ \A r \in from..(first - 1) : Reserved(r)
  BY <1>5, FirstFreeFound
<1> HIDE DEF first
<1>8. \A r \in index..(first - 1) : Reserved(r)
  <2>1. from \in Nat /\ first \in Nat
    BY <1>1, <1>5, <1>7
  <2> QED
    BY <1>1, <1>6, <1>7, <2>1
<1>9. /\ count \in Nat \ {0}
      /\ first \in Nat /\ index <= first /\ 8 * pos <= first
  BY <1>1, <1>5, <1>7 DEF Request
<1>10. NoneBelow(first)
  <2> SUFFICES ASSUME NEW s \in 0..(first - 1) PROVE ~Fits(s, count, dma)
    BY DEF NoneBelow
  <2>1. CASE s < index
    BY <1>1, <2>1 DEF OuterInv, NoneBelow
  <2>2. CASE s >= index
    <3>1. Reserved(s) /\ s \in Nat /\ s \in s..(s + count - 1)
      BY <1>1, <1>8, <1>9, <2>2
    <3> QED
      BY <1>9, <3>1, ReservedNotFit
  <2> QED
    BY <1>1, <2>1, <2>2
<1>11. (NoneBelow(start_index))'
  BY <1>4, <1>10 DEF NoneBelow, Fits, FreePages, PageReserved, vars
<1>12. ~Reserved(index)'
  BY <1>4, <1>7 DEF Reserved, ByteAt, vars
<1>13. /\ pos - (pos % 2) \in Nat
       /\ (pos - (pos % 2)) % 2 = 0
       /\ 8 * (pos - (pos % 2)) <= first
  BY <1>5, <1>9
<1>14. Request'
  BY <1>4 DEF Request, vars
<1>15. count' = count
  BY <1>4
<1> QED
  BY <1>4, <1>9, <1>11, <1>12, <1>13, <1>14, <1>15 DEF InnerInv

\* A round of the inner loop.
LEMMA InnerStep ==
    ASSUME Request, InnerInv, pc = "inner", Inner
    PROVE  ScanInv'
<1> DEFINE next == index + 1
           crosses == (next - 1) \div 8 - dma_pos > 1
<1>1. /\ Bytes \in Nat /\ Limit \in Nat /\ Limit = 8 * Bytes
      /\ index \in Nat /\ start_index \in Nat /\ start_index <= index
      /\ index - start_index < count
      /\ dma_pos \in Nat /\ dma_pos % 2 = 0 /\ 8 * dma_pos <= start_index
      /\ count \in Nat \ {0}
  BY PhysMemAssumption DEF Limit, InnerInv, Request
<1>2. UNCHANGED <<vars, beyond, count, dma, start_index, dma_pos>>
  BY DEF Inner
<1>3. Request'
  BY <1>2 DEF Request, vars
<1>4. /\ \A s : Fits(s, count, dma)' <=> Fits(s, count, dma)
      /\ \A p : Reserved(p)' <=> Reserved(p)
  BY <1>2 DEF Fits, FreePages, PageReserved, Reserved, ByteAt, vars
<1>5. \A s \in 0..(start_index - 1) : ~Fits(s, count, dma)
  BY DEF InnerInv, NoneBelow
\* The run of free pages ends, too short.
<1>6. CASE Reserved(index) /\ pc' = "outer" /\ UNCHANGED index
  <2>1. index # start_index /\ index <= Limit
    BY <1>6 DEF InnerInv
  <2>2. NoneBelow(index)
    <3> SUFFICES ASSUME NEW s \in 0..(index - 1) PROVE ~Fits(s, count, dma)
      BY DEF NoneBelow
    <3>1. CASE s < start_index
      BY <1>1, <1>5, <3>1
    <3>2. CASE s >= start_index
      <4>1. s \in Nat /\ index \in s..(s + count - 1)
        BY <1>1, <3>2
      <4> QED
        BY <1>1, <1>6, <4>1, ReservedNotFit
    <3> QED
      BY <1>1, <3>1, <3>2
  <2>3. OuterInv'
    BY <1>1, <1>2, <1>4, <1>6, <2>1, <2>2 DEF OuterInv, NoneBelow
  <2> QED
    BY <1>3, <1>6, <2>3 DEF ScanInv
\* The end of memory.
<1>7. CASE ~Reserved(index) /\ AtEnd(next) /\ pc' = "null" /\ index' = next
  <2>1. index >= Limit
    BY <1>1, <1>7 DEF AtEnd
  <2>2. ASSUME NEW s \in Pages PROVE ~Fits(s, count, dma)
    <3>1. CASE s < start_index
      BY <1>1, <1>5, <3>1 DEF Pages
    <3>2. CASE s >= start_index
      BY <1>1, <2>1, <3>2 DEF Pages, Fits
    <3> QED
      BY <1>1, <3>1, <3>2 DEF Pages
  <2>3. NullInv'
    BY <1>4, <2>2 DEF NullInv
  <2> QED
    BY <1>3, <1>7, <2>3 DEF ScanInv
\* One page more.
<1>8. CASE /\ ~Reserved(index) /\ ~AtEnd(next) /\ ~(next - start_index >= count)
           /\ index' = next /\ UNCHANGED pc
  <2>1. /\ next <= Limit /\ next - start_index < count
        /\ next # start_index /\ start_index <= next
    BY <1>1, <1>8 DEF AtEnd
  <2>2. \A p \in start_index..(next - 1) : ~Reserved(p)
    BY <1>1, <1>8 DEF InnerInv
  <2>3. NoneBelow(start_index)'
    BY <1>2, <1>4, <1>5 DEF NoneBelow
  <2>4. InnerInv'
    BY <1>1, <1>2, <1>4, <1>8, <2>1, <2>2, <2>3 DEF InnerInv, NoneBelow
  <2> QED
    BY <1>3, <1>8, <2>4 DEF ScanInv
\* Enough pages: there are exactly `count' of them, below the end of memory.
<1>9. ASSUME ~Reserved(index), ~AtEnd(next), next - start_index >= count
      PROVE  /\ next = start_index + count /\ next <= Limit
             /\ start_index \in Pages
             /\ start_index \in 0..(Limit - count)
             /\ start_index..(start_index + count - 1) \subseteq FreePages
  <2>1. next = start_index + count /\ next <= Limit
    BY <1>1, <1>9 DEF AtEnd
  <2>2. start_index \in Pages /\ start_index \in 0..(Limit - count)
    BY <1>1, <2>1 DEF Pages
  <2>3. ASSUME NEW p \in start_index..(start_index + count - 1)
        PROVE  p \in FreePages
    <3>1. ~Reserved(p)
      BY <1>1, <1>9, <2>1 DEF InnerInv
    <3>2. p \in Pages /\ p \div 8 < Bytes
      BY <1>1, <2>1 DEF Pages
    <3> QED
      BY <3>1, <3>2 DEF FreePages, PageReserved, Reserved, ByteAt
  <2> QED
    BY <2>1, <2>2, <2>3
\* They cross the boundary behind dma_pos: so does every block from start_index
\* up to that boundary.
<1>10. CASE /\ ~Reserved(index) /\ ~AtEnd(next) /\ next - start_index >= count
            /\ dma /\ crosses /\ pc' = "outer" /\ index' = NextBlock(dma_pos)
  <2>1. next = start_index + count /\ next <= Limit
    BY <1>9, <1>10
  <2>2. index' = (dma_pos + 2) * 8 /\ index' \in 0..Limit
    BY <1>1, <1>10, <2>1 DEF NextBlock
  <2>3. NoneBelow((dma_pos + 2) * 8)
    <3> SUFFICES ASSUME NEW s \in 0..((dma_pos + 2) * 8 - 1)
                 PROVE  ~Fits(s, count, dma)
      BY DEF NoneBelow
    <3>1. CASE s < start_index
      BY <1>1, <1>5, <3>1
    <3>2. CASE s >= start_index
      <4>1. PICK h \in Nat : dma_pos = 2 * h
        BY <1>1
      <4>2. s \in Nat /\ 16 * h <= s /\ s < 16 * h + 16
        BY <1>1, <3>2, <4>1
      <4>3. s \div 16 = h
        BY <4>2
      <4>4. s + count - 1 >= index /\ index >= 16 * h + 16
        BY <1>1, <1>10, <2>1, <3>2, <4>1
      <4>5. (s + count - 1) \div 16 # h
        BY <1>1, <4>2, <4>4
      <4> QED
        BY <1>10, <4>3, <4>5 DEF Fits
    <3> QED
      BY <1>1, <3>1, <3>2
  <2>4. OuterInv'
    BY <1>2, <1>4, <2>2, <2>3 DEF OuterInv, NoneBelow
  <2> QED
    BY <1>3, <1>10, <2>4 DEF ScanInv
\* They do not.
<1>11. CASE /\ ~Reserved(index) /\ ~AtEnd(next) /\ next - start_index >= count
            /\ ~(dma /\ crosses) /\ pc' = "done" /\ index' = next
  <2>1. /\ next = start_index + count /\ next <= Limit
        /\ start_index \in Pages
        /\ start_index \in 0..(Limit - count)
        /\ start_index..(start_index + count - 1) \subseteq FreePages
    BY <1>9, <1>11
  <2>2. dma => start_index \div 16 = (start_index + count - 1) \div 16
    <3> SUFFICES ASSUME dma
                 PROVE  start_index \div 16 = (start_index + count - 1) \div 16
      OBVIOUS
    <3>1. PICK h \in Nat : dma_pos = 2 * h
      BY <1>1
    <3>2. index \div 8 <= dma_pos + 1
      BY <1>1, <1>11
    <3>3. index < 8 * dma_pos + 16
      BY <1>1, <3>2
    <3>4. /\ 16 * h <= start_index /\ start_index <= index
          /\ index < 16 * h + 16
      BY <1>1, <3>1, <3>3
    <3>5. start_index \div 16 = h /\ index \div 16 = h
      BY <1>1, <3>4
    <3>6. start_index + count - 1 = index
      BY <1>1, <2>1
    <3> QED
      BY <3>5, <3>6
  <2>3. Fits(start_index, count, dma)
    BY <2>1, <2>2 DEF Fits
  <2>4. NoneBelow(start_index)'
    BY <1>2, <1>4, <1>5 DEF NoneBelow
  <2>5. DoneInv'
    BY <1>2, <1>4, <1>11, <2>1, <2>3, <2>4 DEF DoneInv, NoneBelow
  <2> QED
    BY <1>3, <1>11, <2>5 DEF ScanInv
<1> QED
  BY <1>6, <1>7, <1>8, <1>10, <1>11 DEF Inner

-----------------------------------------------------------------------------
(* The steps of the code are steps of PhysMem *)

\* Whatever changes the bitmap is a call that PhysMem has.
LEMMA StepImplements ==
    Inv /\ ScanInv /\ [ScanNext]_<<vars, scanVars>> => [Next]_vars
<1> SUFFICES ASSUME Inv, ScanInv, [ScanNext]_<<vars, scanVars>>
             PROVE  [Next]_vars
  OBVIOUS
<1>1. CASE CallAllocPage
  BY <1>1 DEF CallAllocPage, Next
<1>2. ASSUME NEW p \in Pages, CallFreePage(p) PROVE [Next]_vars
  BY <1>2 DEF CallFreePage, Next
<1>3. ASSUME NEW size \in Sizes, NEW d \in BOOLEAN, EnterAllocPages(size, d)
      PROVE  [Next]_vars
  BY <1>3 DEF EnterAllocPages
<1>4. ASSUME NEW p \in Pages, NEW n \in 2..MaxFree, EnterFreePages(p, n)
      PROVE  [Next]_vars
  BY <1>4 DEF EnterFreePages
<1>5. CASE Outer \/ Inner \/ Null
  BY <1>5 DEF Outer, Inner, Null
<1>6. CASE Done
  <2>1. Request /\ DoneInv
    BY <1>6 DEF Done, ScanInv
  <2>2. PICK size \in Sizes : /\ count = PageCount(size)
                              /\ available_mem >= size \div 1024
                              /\ dma => size <= 64 * 1024
    BY <2>1 DEF Request
  <2>3. /\ start_index \in Pages
        /\ Fits(start_index, PageCount(size), dma)
        /\ \A s \in 0..(start_index - 1) : ~Fits(s, PageCount(size), dma)
    BY <2>1, <2>2 DEF DoneInv, NoneBelow
  <2>4. index - 1 = start_index + PageCount(size) - 1
    <3>1. index = start_index + count /\ count = PageCount(size)
      BY <2>1, <2>2 DEF DoneInv
    <3>2. start_index \in Nat /\ count \in Nat
      BY <2>1, PageSplit DEF DoneInv, Request
    <3> QED
      BY <3>1, <3>2
  <2>5. AllocPages(size, dma)
    BY <1>6, <2>2, <2>3, <2>4 DEF Done, AllocPages
  <2>6. dma \in BOOLEAN
    BY <2>1 DEF Request
  <2> QED
    BY <2>5, <2>6 DEF Next
<1>7. CASE FreeRound
  <2>1. FreePage(index)
    BY <1>7 DEF FreeRound
  <2>2. index \in Pages
    BY <2>1 DEF FreePage, Inv, TypeOK
  <2> QED
    BY <2>1, <2>2 DEF Next
<1>8. CASE UNCHANGED <<vars, scanVars>>
  BY <1>8
<1> QED
  BY <1>1, <1>2, <1>3, <1>4, <1>5, <1>6, <1>7, <1>8 DEF ScanNext, ScanStep

\* The invariant of the search is kept, also while pages are freed one by one.
LEMMA StepScanInv ==
    Inv /\ ScanInv /\ [ScanNext]_<<vars, scanVars>> => ScanInv'
<1> SUFFICES ASSUME Inv, ScanInv, [ScanNext]_<<vars, scanVars>>
             PROVE  ScanInv'
  OBVIOUS
<1>1. CASE CallAllocPage
  BY <1>1 DEF CallAllocPage, scanVars, ScanInv
<1>2. ASSUME NEW p \in Pages, CallFreePage(p) PROVE ScanInv'
  BY <1>2 DEF CallFreePage, scanVars, ScanInv
<1>3. ASSUME NEW size \in Sizes, NEW d \in BOOLEAN, EnterAllocPages(size, d)
      PROVE  ScanInv'
  <2>1. /\ index = 0 /\ index' = 0 /\ pc' = "outer" /\ count' = PageCount(size)
        /\ dma' = d /\ available_mem' = available_mem
    BY <1>3 DEF EnterAllocPages, ScanInv, vars
  <2>2. PageCount(size) \in Nat \ {0}
    BY PhysMemAssumption DEF PageCount, PAGE_SIZE
  <2>3. Request'
    BY <1>3, <2>1, <2>2 DEF EnterAllocPages, Request
  <2>4. OuterInv'
    BY <2>1, PhysMemAssumption DEF OuterInv, NoneBelow, Limit
  <2> QED
    BY <2>1, <2>3, <2>4 DEF ScanInv
<1>4. ASSUME NEW p \in Pages, NEW n \in 2..MaxFree, EnterFreePages(p, n)
      PROVE  ScanInv'
  <2>1. p \in Nat /\ n \in Nat \ {0}
    BY PageSplit, AllocScanAssumption
  <2> QED
    BY <1>4, <2>1 DEF EnterFreePages, ScanInv, FreeInv, vars
<1>5. CASE Outer
  BY <1>5, OuterStep DEF ScanInv, Outer
<1>6. CASE Inner
  BY <1>6, InnerStep DEF ScanInv, Inner
<1>7. CASE Done \/ Null
  BY <1>7 DEF Done, Null, Return, ScanInv
<1>8. CASE FreeRound
  <2>1. /\ index \in Nat /\ count \in Nat \ {0}
        /\ index..(index + count - 1) \subseteq owned
    BY <1>8 DEF FreeRound, ScanInv, FreeInv
  <2>2. CASE Return
    BY <2>2 DEF Return, ScanInv
  <2>3. CASE /\ count > 1 /\ count' = count - 1 /\ index' = index + 1
             /\ UNCHANGED pc
    <3>1. owned' = owned \ {index}
      BY <1>8 DEF FreeRound, FreePage
    <3>2. FreeInv'
      BY <2>1, <2>3, <3>1 DEF FreeInv
    <3> QED
      BY <1>8, <2>3, <3>2 DEF FreeRound, ScanInv
  <2> QED
    BY <1>8, <2>2, <2>3 DEF FreeRound
<1>9. CASE UNCHANGED <<vars, scanVars>>
  <2>1. UNCHANGED <<bitmap, owned, available_mem, pc, beyond, count, dma, index,
                    start_index, dma_pos>>
    BY <1>9 DEF vars, scanVars
  <2>2. \A s \in Nat : Fits(s, count, dma)' <=> Fits(s, count, dma)
    BY <2>1 DEF Fits, FreePages, PageReserved
  <2>3. (Request => Request') /\ (FreeInv => FreeInv')
    BY <2>1 DEF Request, FreeInv
  <2>4. /\ OuterInv => OuterInv'
        /\ DoneInv => DoneInv'
        /\ NullInv => NullInv'
    BY <2>1, <2>2 DEF OuterInv, DoneInv, NullInv, NoneBelow, Fits, FreePages,
                      PageReserved
  <2>5. InnerInv => InnerInv'
    BY <2>1 DEF InnerInv, NoneBelow, Fits, FreePages, PageReserved, Reserved,
                ByteAt
  <2> QED
    BY <2>1, <2>3, <2>4, <2>5 DEF ScanInv
<1> QED
  BY <1>1, <1>2, <1>3, <1>4, <1>5, <1>6, <1>7, <1>8, <1>9 DEF ScanNext, ScanStep

\* The invariants of PhysMem and of the search hold throughout.
LEMMA ScanAlways == ScanSpec => [](Inv /\ ScanInv)
<1>1. ScanInit => Inv /\ ScanInv
  BY InitInv DEF ScanInit, ScanInv
<1>2. Inv /\ ScanInv /\ [ScanNext]_<<vars, scanVars>> => (Inv /\ ScanInv)'
  BY StepImplements, StepScanInv, NextInv
<1> QED
  BY <1>1, <1>2, PTL DEF ScanSpec

\* alloc_pages with its two nested loops returns the lowest place where the
\* block fits, and NULL only if there is none: for every content of the
\* bitmap and of the memory behind it, and with dma_pos stale or not.
THEOREM SearchCorrect == ScanSpec => []LowestFit
<1>1. ScanInv => LowestFit
  BY DEF ScanInv, LowestFit, DoneInv, NullInv, NoneBelow
<1> QED
  BY <1>1, ScanAlways, PTL

\* The code with its loops implements the allocator of PhysMem, so that what is
\* proved of that holds of the loops.
THEOREM ScanImplementsPhysMem == ScanSpec => ImplementsPhysMem
<1>1. ScanInit => Init
  BY DEF ScanInit
<1> QED
  BY <1>1, ScanAlways, StepImplements, PTL DEF ScanSpec, ImplementsPhysMem, Spec

=============================================================================
