-------------------------- MODULE PageTablesProofs --------------------------
(***************************************************************************)
(* Theorems about PageTables, for every size of tables, of the heap and of *)
(* the regions, every memory, kernel image and set of devices and tasks.   *)
(***************************************************************************)
EXTENDS PageTables, NatFacts

\* The values of the record that map_page and unmap_page work on.
MState ==
    [dir : [Dirs -> Frames \cup {0, NONE}],
     mem : [Frames \cup {0} -> [Entries -> Entry]],
     count : [Dirs -> 0..(CountMod - 1)],
     free : SUBSET (Frames \cup {0}),
     lost : SUBSET (Frames \cup {0}),
     oom : BOOLEAN]

-----------------------------------------------------------------------------
(* map_page and unmap_page *)

\* The numbers and pages that are told apart.
LEMMA ConstantFacts ==
    /\ Frames \subseteq Nat /\ 0 \notin Frames /\ NONE \notin Frames
    /\ NONE \notin Devices /\ Devices \cap Frames = {}
    /\ NONE # 0
  BY PageTablesAssumption DEF NONE

\* 2^16
LEMMA CountModType == CountMod \in Nat \ {0}
  BY DEF CountMod

\* Arithmetic on a uint16_t.
LEMMA Wrap ==
    ASSUME NEW c \in 0..(CountMod - 1)
    PROVE  /\ (c + 1) % CountMod \in 0..(CountMod - 1)
           /\ (c - 1) % CountMod \in 0..(CountMod - 1)
           /\ c + 1 < CountMod => (c + 1) % CountMod = c + 1
           /\ c > 0 => (c - 1) % CountMod = c - 1
<1>2. ASSUME NEW N \in Nat \ {0}, NEW i \in 0..(N - 1)
      PROVE  /\ (i + 1) % N \in 0..(N - 1)
             /\ (i - 1) % N \in 0..(N - 1)
             /\ i + 1 < N => (i + 1) % N = i + 1
             /\ i > 0 => (i - 1) % N = i - 1
  OBVIOUS
<1> QED
  BY CountModType, <1>2, Zenon

\* A page table has finitely many entries, fewer than a count can hold.
LEMMA EntriesFinite ==
    /\ IsFiniteSet(Entries)
    /\ Cardinality(Entries) \in Nat
    /\ Cardinality(Entries) < CountMod
<1>1. PerTable \in Nat \ {0} /\ PerTable < CountMod
  BY PageTablesAssumption
<1>2. IsFiniteSet(0..(PerTable - 1)) /\ Cardinality(0..(PerTable - 1)) = PerTable
  BY <1>1, FS_Interval
<1> QED
  BY <1>1, <1>2 DEF Entries

\* An address is its directory index and its index into the table.
LEMMA Addresses ==
    ASSUME NEW v \in Nat
    PROVE  /\ EntryOf(v) \in Entries
           /\ Dir(v) \in Nat
           /\ \A w \in Nat : Dir(v) = Dir(w) /\ EntryOf(v) = EntryOf(w) => v = w
<1>1. PerTable \in Nat \ {0}
  BY PageTablesAssumption
<1>2. \A w \in Nat : /\ w \div PerTable \in Nat
                     /\ w % PerTable \in 0..(PerTable - 1)
                     /\ w = (w \div PerTable) * PerTable + (w % PerTable)
  BY <1>1, DivMod
<1> QED
  BY <1>2 DEF EntryOf, Dir, Entries

\* alloc_page gives a free page, or page 0 if there is none.
LEMMA AllocType ==
    ASSUME NEW m, m.free \subseteq Frames \cup {0}
    PROVE  /\ AllocPage(m) \in Frames \cup {0}
           /\ AllocPage(m) # 0 => AllocPage(m) \in m.free
           /\ m.free # {} => AllocPage(m) \in m.free
           /\ m.free = {} => AllocPage(m) = 0
<1>1. CASE m.free = {}
  BY <1>1 DEF AllocPage
<1>2. CASE m.free # {}
  <2>1. m.free \in SUBSET Nat
    <3>1. Frames \cup {0} \subseteq Nat
      BY ConstantFacts
    <3> QED
      BY <3>1
  <2>2. PICK x \in m.free : \A y \in m.free : x <= y
    BY <1>2, <2>1, LeastElement
  <2>3. Min(m.free) \in m.free
    BY <2>2, Zenon DEF Min
  <2> QED
    BY <1>2, <2>3 DEF AllocPage
<1> QED
  BY <1>1, <1>2

\* r is m without the page that alloc_page gives.
Taken(m, r) ==
    /\ r \in MState
    /\ r.dir = m.dir /\ r.mem = m.mem /\ r.count = m.count /\ r.lost = m.lost
    /\ r.free = m.free \ {AllocPage(m)}
    /\ r.oom = (m.oom \/ AllocPage(m) = 0)

\* What using a page unchecked does.
LEMMA TakeResult ==
    ASSUME NEW m \in MState
    PROVE  Taken(m, Take(m))
<1> DEFINE oom == m.oom \/ AllocPage(m) = 0
<1>1. oom \in BOOLEAN
  BY DEF MState
<1>2. Take(m) = [m EXCEPT !.free = m.free \ {AllocPage(m)}, !.oom = oom]
  BY DEF Take
<1> HIDE DEF oom
<1>3. Take(m) = [dir |-> m.dir, mem |-> m.mem, count |-> m.count,
                 free |-> m.free \ {AllocPage(m)}, lost |-> m.lost, oom |-> oom]
  BY <1>2 DEF MState
<1>4. m.free \ {AllocPage(m)} \in SUBSET (Frames \cup {0})
  BY DEF MState
<1>5. Take(m) \in MState
  BY <1>1, <1>3, <1>4 DEF MState
<1> QED
  BY <1>3, <1>5 DEF Taken, oom

\* r is m with a table for d, made in the page `new` if there was none.
TableMade(m, d, new, r) ==
    /\ r \in MState
    /\ r.dir[d] # NONE
    /\ \A c \in Dirs :
          r.dir[c] = IF c = d /\ m.dir[d] = NONE THEN new ELSE m.dir[c]
    /\ \A f \in Frames \cup {0}, x \in Entries :
          r.mem[f][x] = IF m.dir[d] = NONE /\ f = new THEN NONE ELSE m.mem[f][x]
    /\ r.count = m.count
    /\ r.free = IF m.dir[d] = NONE THEN m.free \ {new} ELSE m.free
    /\ r.lost = m.lost
    /\ ~r.oom => ~m.oom /\ (m.dir[d] = NONE => new # 0)

\* map_page makes the table if the directory has none.
LEMMA WithTableResult ==
    ASSUME NEW m \in MState, NEW d \in Dirs
    PROVE  TableMade(m, d, AllocPage(m), WithTable(m, d))
<1> DEFINE new == AllocPage(m)
           r == WithTable(m, d)
<1>a. new \in Frames \cup {0}
  BY AllocType DEF MState
<1>1. CASE m.dir[d] # NONE
  BY <1>1 DEF WithTable, MState, TableMade
<1>2. CASE m.dir[d] = NONE
  <2> DEFINE t == Take(m)
  <2>0. /\ t \in MState
        /\ t.dir = m.dir /\ t.mem = m.mem /\ t.count = m.count /\ t.lost = m.lost
        /\ t.free = m.free \ {new}
        /\ t.oom = (m.oom \/ new = 0)
    BY TakeResult DEF Taken
  <2>1. r = [t EXCEPT !.dir[d] = new, !.mem[new] = EmptyTable]
    BY <1>2 DEF WithTable
  <2> HIDE DEF t, r, new
  <2>2. r = [dir |-> [m.dir EXCEPT ![d] = new],
             mem |-> [m.mem EXCEPT ![new] = EmptyTable],
             count |-> m.count, free |-> m.free \ {new}, lost |-> m.lost,
             oom |-> t.oom]
    BY <2>0, <2>1 DEF MState
  <2>3. EmptyTable \in [Entries -> Entry] /\ \A x \in Entries : EmptyTable[x] = NONE
    BY DEF EmptyTable, Entry
  <2>4. /\ r.dir = [m.dir EXCEPT ![d] = new]
        /\ r.mem = [m.mem EXCEPT ![new] = EmptyTable]
        /\ r.count = m.count
        /\ r.free = m.free \ {new}
        /\ r.lost = m.lost
        /\ r.oom = t.oom
    BY <2>2
  <2>5. r \in MState
    BY <1>a, <2>0, <2>2, <2>3 DEF MState
  <2>6. r.dir[d] # NONE
    BY <1>a, <2>4, ConstantFacts DEF MState
  <2>7. \A c \in Dirs : r.dir[c] = IF c = d THEN new ELSE m.dir[c]
    BY <2>4 DEF MState
  <2>8. \A f \in Frames \cup {0}, x \in Entries :
           r.mem[f][x] = IF f = new THEN NONE ELSE m.mem[f][x]
    BY <2>4, <2>3 DEF MState
  <2>9. ~r.oom => ~m.oom /\ new # 0
    BY <2>0, <2>4
  <2> QED
    BY <1>2, <2>4, <2>5, <2>6, <2>7, <2>8, <2>9 DEF r, new, TableMade
<1> QED
  BY <1>1, <1>2

\* r is m with phys mapped at d and e.
PageMapped(m, phys, d, e, new, r) ==
    /\ r \in MState
    /\ r.dir[d] # NONE
    /\ \A c \in Dirs :
          r.dir[c] = IF c = d /\ m.dir[d] = NONE THEN new ELSE m.dir[c]
    /\ \A f \in Frames \cup {0}, x \in Entries :
          r.mem[f][x] = IF f = r.dir[d] /\ x = e THEN phys
                        ELSE IF m.dir[d] = NONE /\ f = new THEN NONE
                        ELSE m.mem[f][x]
    /\ \A c \in Dirs :
          r.count[c] = IF c = d THEN (m.count[d] + 1) % CountMod ELSE m.count[c]
    /\ r.free = IF m.dir[d] = NONE THEN m.free \ {new} ELSE m.free
    /\ r.lost = m.lost
    /\ ~r.oom => ~m.oom /\ (m.dir[d] = NONE => new # 0)

\* What map_page returns.
LEMMA MapResult ==
    ASSUME NEW m \in MState, NEW phys \in Entry, NEW v \in Nat, Dir(v) \in Dirs
    PROVE  PageMapped(m, phys, Dir(v), EntryOf(v), AllocPage(m),
                      MapPage(m, phys, v))
<1> DEFINE d == Dir(v)
           e == EntryOf(v)
           new == AllocPage(m)
           t == WithTable(m, d)
           r == MapPage(m, phys, v)
           up == (t.count[d] + 1) % CountMod
<1>a. d \in Dirs /\ e \in Entries
  BY Addresses
<1>0. TableMade(m, d, new, t)
  BY WithTableResult
<1>1. /\ t \in MState
      /\ t.dir[d] # NONE
      /\ \A c \in Dirs :
            t.dir[c] = IF c = d /\ m.dir[d] = NONE THEN new ELSE m.dir[c]
      /\ \A f \in Frames \cup {0}, x \in Entries :
            t.mem[f][x] = IF m.dir[d] = NONE /\ f = new THEN NONE
                          ELSE m.mem[f][x]
      /\ t.count = m.count
      /\ t.free = IF m.dir[d] = NONE THEN m.free \ {new} ELSE m.free
      /\ t.lost = m.lost
      /\ ~t.oom => ~m.oom /\ (m.dir[d] = NONE => new # 0)
  BY <1>0 DEF TableMade
<1>2. r = [t EXCEPT !.mem[t.dir[d]][e] = phys, !.count[d] = (@ + 1) % CountMod]
  BY DEF MapPage
<1> HIDE DEF t, r, d, e, new
<1>3. r = [dir |-> t.dir,
           mem |-> [t.mem EXCEPT ![t.dir[d]] = [@ EXCEPT ![e] = phys]],
           count |-> [t.count EXCEPT ![d] = up], free |-> t.free, lost |-> t.lost,
           oom |-> t.oom]
  BY <1>1, <1>2 DEF MState
<1>4. up \in 0..(CountMod - 1)
  <2>1. t.count[d] \in 0..(CountMod - 1)
    BY <1>a, <1>1 DEF MState
  <2> QED
    BY <2>1, Wrap
<1> HIDE DEF up
<1>5. /\ r.dir = t.dir
      /\ r.mem = [t.mem EXCEPT ![t.dir[d]] = [@ EXCEPT ![e] = phys]]
      /\ r.count = [t.count EXCEPT ![d] = up]
      /\ r.free = t.free
      /\ r.lost = t.lost
      /\ r.oom = t.oom
  BY <1>3
<1>6. r \in MState
  BY <1>a, <1>1, <1>3, <1>4 DEF MState
<1>7. \A f \in Frames \cup {0}, x \in Entries :
         r.mem[f][x] = IF f = t.dir[d] /\ x = e THEN phys ELSE t.mem[f][x]
  BY <1>a, <1>1, <1>5 DEF MState
<1>8. \A c \in Dirs : r.count[c] = IF c = d THEN up ELSE t.count[c]
  BY <1>a, <1>1, <1>5 DEF MState
<1>9. up = (m.count[d] + 1) % CountMod
  BY <1>1 DEF up
<1> QED
  BY <1>1, <1>5, <1>6, <1>7, <1>8, <1>9 DEF r, d, e, new, PageMapped

\* r is m without the page at d and e, and without its table if that was the
\* last mapping counted.
PageUnmapped(m, d, e, r) ==
    LET left == (m.count[d] - 1) % CountMod
    IN  /\ r \in MState
        /\ \A f \in Frames \cup {0}, x \in Entries :
              r.mem[f][x] = IF f = m.dir[d] /\ x = e THEN NONE ELSE m.mem[f][x]
        /\ \A c \in Dirs : r.count[c] = IF c = d THEN left ELSE m.count[c]
        /\ \A c \in Dirs :
              r.dir[c] = IF c = d /\ left = 0 THEN NONE ELSE m.dir[c]
        /\ r.free = IF left = 0 THEN m.free \cup {m.dir[d]} ELSE m.free
        /\ r.lost = m.lost
        /\ r.oom = m.oom

\* What unmap_page of a page that has a table returns.
LEMMA UnmapResult ==
    ASSUME NEW m \in MState, NEW v \in Nat, Dir(v) \in Dirs,
           m.dir[Dir(v)] # NONE
    PROVE  PageUnmapped(m, Dir(v), EntryOf(v), UnmapPage(m, v))
<1> DEFINE d == Dir(v)
           e == EntryOf(v)
           r == UnmapPage(m, v)
           left == (m.count[d] - 1) % CountMod
           mem == [m.mem EXCEPT ![m.dir[d]] = [@ EXCEPT ![e] = NONE]]
           dir == [m.dir EXCEPT ![d] = NONE]
           u == [m EXCEPT !.mem[m.dir[d]][e] = NONE,
                          !.count[d] = (@ - 1) % CountMod]
<1>a. d \in Dirs /\ e \in Entries /\ m.dir[d] # NONE
  BY Addresses
<1>0. u = [m EXCEPT !.mem[m.dir[d]][e] = NONE,
                    !.count[d] = (@ - 1) % CountMod]
  OBVIOUS
<1>2. left \in 0..(CountMod - 1)
  BY <1>a, Wrap DEF MState
<1>3. r = IF u.count[d] # 0 THEN u
          ELSE [u EXCEPT !.free = @ \cup {m.dir[d]}, !.dir[d] = NONE]
  BY DEF UnmapPage
<1> HIDE DEF u, r, d, e
<1>1. u = [dir |-> m.dir, mem |-> mem, count |-> [m.count EXCEPT ![d] = left],
           free |-> m.free, lost |-> m.lost, oom |-> m.oom]
  BY <1>0 DEF MState
<1> HIDE DEF left
<1>4. u.count[d] = left
  BY <1>a, <1>1 DEF MState
<1>5. r = [dir |-> IF left = 0 THEN dir ELSE m.dir, mem |-> mem,
           count |-> [m.count EXCEPT ![d] = left],
           free |-> IF left = 0 THEN m.free \cup {m.dir[d]} ELSE m.free,
           lost |-> m.lost, oom |-> m.oom]
  <2>1. CASE left = 0
    BY <1>1, <1>3, <1>4, <2>1
  <2>2. CASE left # 0
    BY <1>1, <1>3, <1>4, <2>2
  <2> QED
    BY <2>1, <2>2
<1>6. /\ mem \in [Frames \cup {0} -> [Entries -> Entry]]
      /\ \A f \in Frames \cup {0}, x \in Entries :
            mem[f][x] = IF f = m.dir[d] /\ x = e THEN NONE ELSE m.mem[f][x]
  BY <1>a DEF MState, Entry
<1>7. /\ dir \in [Dirs -> Frames \cup {0, NONE}]
      /\ \A c \in Dirs : dir[c] = IF c = d THEN NONE ELSE m.dir[c]
  BY DEF MState
<1>8. m.dir[d] \in Frames \cup {0}
  BY <1>a DEF MState
<1> HIDE DEF mem, dir
<1>9. r \in MState
  BY <1>2, <1>5, <1>6, <1>7, <1>8 DEF MState
<1>10. \A c \in Dirs : r.count[c] = IF c = d THEN left ELSE m.count[c]
  BY <1>a, <1>5 DEF MState
<1>11. \A c \in Dirs :
          r.dir[c] = IF c = d /\ left = 0 THEN NONE ELSE m.dir[c]
  BY <1>5, <1>7
<1> QED
  BY <1>5, <1>6, <1>9, <1>10, <1>11 DEF r, left, d, e, PageUnmapped

-----------------------------------------------------------------------------
(* The inductive invariant: counts and owners of pages, on a record m, with *)
(* the pages of `other` in the hands of somebody else                       *)

PresentIn(m, d) == {e \in Entries : m.mem[m.dir[d]][e] # NONE}

\* mount_table agrees with the tables.
Counted(m) ==
    \A d \in Dirs :
        IF m.dir[d] = NONE THEN m.count[d] = 0
        ELSE m.count[d] = Cardinality(PresentIn(m, d)) /\ m.count[d] > 0

\* A table is neither free nor anybody else's, and belongs to one entry.
TablesApart(m, other) ==
    /\ \A d \in Dirs :
          m.dir[d] # NONE => m.dir[d] \in Frames \ (m.free \cup other)
    /\ \A c, d \in Dirs : m.dir[c] = m.dir[d] /\ m.dir[c] # NONE => c = d

\* The same holds of a page of memory that is mapped, which is no table.
MappedApart(m, other) ==
    /\ \A d \in Dirs, e \in Entries :
          m.dir[d] # NONE /\ m.mem[m.dir[d]][e] \in Frames =>
             /\ m.mem[m.dir[d]][e] \notin m.free \cup other
             /\ \A c \in Dirs : m.dir[c] # m.mem[m.dir[d]][e]
    /\ \A c, d \in Dirs, e, f \in Entries :
          /\ m.dir[c] # NONE /\ m.dir[d] # NONE
          /\ m.mem[m.dir[c]][e] \in Frames
          /\ m.mem[m.dir[c]][e] = m.mem[m.dir[d]][f]
          => c = d /\ e = f

\* Nothing is lost.
Covered(m, other) ==
    \A p \in Frames :
        \/ p \in m.free \cup other
        \/ \E d \in Dirs : m.dir[d] = p
        \/ \E d \in Dirs, e \in Entries :
              m.dir[d] # NONE /\ m.mem[m.dir[d]][e] = p

Consistent(m, other) ==
    /\ m.free \subseteq Frames
    /\ other \subseteq Frames \ m.free
    /\ Counted(m)
    /\ TablesApart(m, other)
    /\ MappedApart(m, other)
    /\ Covered(m, other)

\* A table never counts more than its size.
LEMMA PresentFinite ==
    ASSUME NEW m, NEW d
    PROVE  /\ IsFiniteSet(PresentIn(m, d))
           /\ Cardinality(PresentIn(m, d)) \in Nat
           /\ Cardinality(PresentIn(m, d)) < CountMod
<1>1. PresentIn(m, d) \in SUBSET Entries
  BY DEF PresentIn
<1>2. /\ IsFiniteSet(PresentIn(m, d))
      /\ Cardinality(PresentIn(m, d)) <= Cardinality(Entries)
  BY <1>1, EntriesFinite, FS_Subset
<1>3. Cardinality(PresentIn(m, d)) \in Nat
  BY <1>2, FS_CardinalityType
<1> QED
  BY <1>2, <1>3, EntriesFinite, CountModType

\* map_page of a page that nobody else has, or of a device, at an address that
\* is not mapped, with memory left for the table.
LEMMA MapConsistent ==
    ASSUME NEW m \in MState, NEW phys \in Frames \cup Devices, NEW other,
           NEW v \in Nat, Dir(v) \in Dirs,
           Consistent(m, other \cup ({phys} \cap Frames)),
           phys \notin other,
           GetPhysAdr(m, v) = NONE,
           ~MapPage(m, phys, v).oom
    PROVE  Consistent(MapPage(m, phys, v), other)
<1> DEFINE d == Dir(v)
           e == EntryOf(v)
           new == AllocPage(m)
           r == MapPage(m, phys, v)
           taken == other \cup ({phys} \cap Frames)
<1>1. new \in Frames \cup {0} /\ phys \in Entry
  BY AllocType DEF Entry, MState
<1>2. PageMapped(m, phys, d, e, new, r)
  BY <1>1, MapResult
<1>a. d \in Dirs /\ e \in Entries
  BY Addresses
<1>b. m.dir[d] # NONE => m.mem[m.dir[d]][e] = NONE
  BY DEF GetPhysAdr
<1>c. new # 0 => new \in m.free
  BY AllocType DEF MState
<1> HIDE DEF r, d, e, new
<1>3. /\ r \in MState
      /\ r.dir[d] # NONE
      /\ \A c \in Dirs :
            r.dir[c] = IF c = d /\ m.dir[d] = NONE THEN new ELSE m.dir[c]
      /\ \A f \in Frames \cup {0}, x \in Entries :
            r.mem[f][x] = IF f = r.dir[d] /\ x = e THEN phys
                          ELSE IF m.dir[d] = NONE /\ f = new THEN NONE
                          ELSE m.mem[f][x]
      /\ \A c \in Dirs :
            r.count[c] = IF c = d THEN (m.count[d] + 1) % CountMod ELSE m.count[c]
      /\ r.free = IF m.dir[d] = NONE THEN m.free \ {new} ELSE m.free
  BY <1>2 DEF PageMapped
<1>4. m.dir[d] = NONE => new \in m.free /\ new \in Frames
  <2>1. m.dir[d] = NONE => new # 0
    BY <1>2 DEF PageMapped, r
  <2> QED
    BY <1>c, <2>1 DEF Consistent
<1>5. /\ m.free \subseteq Frames
      /\ taken \subseteq Frames \ m.free
      /\ Counted(m) /\ TablesApart(m, taken) /\ MappedApart(m, taken)
      /\ Covered(m, taken)
  BY DEF Consistent
<1>6. /\ \A c \in Dirs : m.dir[c] \in Frames \cup {0, NONE}
      /\ \A c \in Dirs : m.dir[c] # NONE => m.dir[c] \in Frames /\ m.dir[c] \notin m.free
      /\ \A c \in Dirs : r.dir[c] # NONE => r.dir[c] \in Frames
  BY <1>a, <1>3, <1>4, <1>5 DEF MState, TablesApart
\* The other tables, in place and in contents.
<1>7. ASSUME NEW c \in Dirs, c # d
      PROVE  /\ r.dir[c] = m.dir[c]
             /\ r.dir[c] # NONE =>
                   /\ r.dir[c] # r.dir[d]
                   /\ \A x \in Entries : r.mem[r.dir[c]][x] = m.mem[m.dir[c]][x]
  <2>1. r.dir[c] = m.dir[c]
    BY <1>3, <1>7
  <2>2. r.dir[c] # NONE => r.dir[c] # r.dir[d] /\ (m.dir[d] = NONE => r.dir[c] # new)
    BY <1>a, <1>3, <1>4, <1>5, <1>6, <1>7, <2>1 DEF TablesApart
  <2> QED
    BY <1>3, <1>6, <2>1, <2>2
\* The table of d.
<1>8. \A x \in Entries :
         r.mem[r.dir[d]][x] =
            IF x = e THEN phys
            ELSE IF m.dir[d] = NONE THEN NONE ELSE m.mem[m.dir[d]][x]
  BY <1>a, <1>3, <1>6
<1> HIDE DEF taken
<1>9. Counted(r)
  <2> SUFFICES ASSUME NEW c \in Dirs
               PROVE  IF r.dir[c] = NONE THEN r.count[c] = 0
                      ELSE /\ r.count[c] = Cardinality(PresentIn(r, c))
                           /\ r.count[c] > 0
    BY DEF Counted
  <2>1. CASE c # d
    <3>1. r.dir[c] # NONE => PresentIn(r, c) = PresentIn(m, c)
      BY <1>7, <2>1 DEF PresentIn
    <3> QED
      BY <1>3, <1>5, <1>7, <2>1, <3>1 DEF Counted
  <2>2. CASE c = d
    <3> DEFINE before == IF m.dir[d] = NONE THEN {} ELSE PresentIn(m, d)
    <3>1. PresentIn(r, d) = before \cup {e} /\ e \notin before
      BY <1>a, <1>b, <1>8, ConstantFacts DEF PresentIn
    <3>2. IsFiniteSet(before) /\ m.count[d] = Cardinality(before)
      BY <1>a, <1>5, PresentFinite, FS_EmptySet DEF Counted
    <3>3. Cardinality(PresentIn(r, d)) = m.count[d] + 1
      BY <3>1, <3>2, FS_AddElement
    <3>4. m.count[d] \in 0..(CountMod - 1) /\ m.count[d] + 1 < CountMod
      BY <1>a, <3>3, PresentFinite DEF MState
    <3>5. r.count[d] = m.count[d] + 1
      <4>1. r.count[d] = (m.count[d] + 1) % CountMod
        BY <1>a, <1>3
      <4> QED
        BY <3>4, <4>1, Wrap
    <3>6. m.count[d] \in Nat
      BY <3>4, CountModType
    <3> QED
      BY <1>3, <2>2, <3>3, <3>5, <3>6
  <2> QED
    BY <2>1, <2>2
<1>10. /\ r.free \subseteq Frames
       /\ other \subseteq Frames \ r.free
  BY <1>3, <1>5 DEF taken
<1>11. TablesApart(r, other)
  BY <1>a, <1>3, <1>4, <1>5, <1>6, <1>7 DEF TablesApart, taken
<1>12. MappedApart(r, other)
  <2>1. ASSUME NEW c \in Dirs, NEW x \in Entries, r.dir[c] # NONE,
               r.mem[r.dir[c]][x] \in Frames
        PROVE  \/ c = d /\ x = e /\ r.mem[r.dir[c]][x] = phys
               \/ /\ m.dir[c] # NONE
                  /\ r.mem[r.dir[c]][x] = m.mem[m.dir[c]][x]
                  /\ r.mem[r.dir[c]][x] # phys
    BY <1>a, <1>5, <1>7, <1>8, <2>1, ConstantFacts DEF MappedApart, taken
  <2>2. phys \in Frames => /\ phys \notin m.free \cup other
                           /\ \A c \in Dirs : m.dir[c] # phys
    BY <1>5, ConstantFacts DEF TablesApart, taken
  <2>3. ASSUME NEW c \in Dirs, NEW x \in Entries, r.dir[c] # NONE,
               r.mem[r.dir[c]][x] \in Frames
        PROVE  /\ r.mem[r.dir[c]][x] \notin r.free \cup other
               /\ \A b \in Dirs : r.dir[b] # r.mem[r.dir[c]][x]
    BY <1>3, <1>4, <1>5, <2>1, <2>2, <2>3 DEF MappedApart, taken
  <2>4. ASSUME NEW b \in Dirs, NEW c \in Dirs, NEW x \in Entries, NEW y \in Entries,
               r.dir[b] # NONE, r.dir[c] # NONE,
               r.mem[r.dir[b]][x] \in Frames,
               r.mem[r.dir[b]][x] = r.mem[r.dir[c]][y]
        PROVE  b = c /\ x = y
    BY <1>5, <2>1, <2>4 DEF MappedApart
  <2> QED
    BY <2>3, <2>4 DEF MappedApart
<1>13. Covered(r, other)
  <2> SUFFICES ASSUME NEW p \in Frames
               PROVE  \/ p \in r.free \cup other
                      \/ \E c \in Dirs : r.dir[c] = p
                      \/ \E c \in Dirs, x \in Entries :
                            r.dir[c] # NONE /\ r.mem[r.dir[c]][x] = p
    BY DEF Covered
  <2>1. \/ p \in m.free
        \/ p \in other
        \/ p = phys
        \/ \E c \in Dirs : m.dir[c] = p
        \/ \E c \in Dirs, x \in Entries :
              m.dir[c] # NONE /\ m.mem[m.dir[c]][x] = p
    BY <1>5 DEF Covered, taken
  <2>2. CASE p \in m.free
    BY <1>a, <1>3, <2>2
  <2>3. CASE p = phys
    BY <1>a, <1>3, <1>8, <2>3
  <2>4. ASSUME NEW c \in Dirs, m.dir[c] = p
        PROVE  r.dir[c] = p
    BY <1>3, <2>4, ConstantFacts
  <2>5. ASSUME NEW c \in Dirs, NEW x \in Entries, m.dir[c] # NONE,
               m.mem[m.dir[c]][x] = p
        PROVE  r.dir[c] # NONE /\ r.mem[r.dir[c]][x] = p
    BY <1>a, <1>b, <1>3, <1>7, <1>8, <2>5, ConstantFacts
  <2> QED
    BY <2>1, <2>2, <2>3, <2>4, <2>5
<1> QED
  BY <1>9, <1>10, <1>11, <1>12, <1>13 DEF Consistent, r

\* What unmap_page leaves in the count of a table.
LEMMA LastEntry ==
    ASSUME NEW m \in MState, Counted(m), NEW d \in Dirs, NEW e \in Entries,
           m.dir[d] # NONE, m.mem[m.dir[d]][e] # NONE
    PROVE  LET left == (m.count[d] - 1) % CountMod
           IN  /\ left = m.count[d] - 1
               /\ left = 0 \/ left > 0
               /\ left = Cardinality(PresentIn(m, d) \ {e})
               /\ left = 0 => PresentIn(m, d) = {e}
<1> DEFINE left == (m.count[d] - 1) % CountMod
<1>1. /\ m.count[d] = Cardinality(PresentIn(m, d)) /\ m.count[d] > 0
      /\ m.count[d] \in 0..(CountMod - 1)
  BY DEF Counted, MState
<1>2. IsFiniteSet(PresentIn(m, d)) /\ m.count[d] \in Nat
  BY <1>1, PresentFinite
<1>3. left = m.count[d] - 1
  BY <1>1, Wrap
<1>4. e \in PresentIn(m, d)
  BY DEF PresentIn
<1>5. /\ IsFiniteSet(PresentIn(m, d) \ {e})
      /\ Cardinality(PresentIn(m, d) \ {e}) = m.count[d] - 1
  BY <1>1, <1>2, <1>4, FS_RemoveElement
<1>6. left = 0 => PresentIn(m, d) \ {e} = {}
  BY <1>3, <1>5, FS_EmptySet
<1> HIDE DEF left
<1> QED
  BY <1>1, <1>2, <1>3, <1>4, <1>5, <1>6 DEF left

\* unmap_page of a page that is mapped: what it mapped is in the hands of the
\* caller.
LEMMA UnmapConsistent ==
    ASSUME NEW m \in MState, NEW other, NEW v \in Nat, Dir(v) \in Dirs,
           Consistent(m, other), GetPhysAdr(m, v) # NONE
    PROVE  Consistent(UnmapPage(m, v), other \cup ({GetPhysAdr(m, v)} \cap Frames))
<1> DEFINE d == Dir(v)
           e == EntryOf(v)
           r == UnmapPage(m, v)
           phys == m.mem[m.dir[d]][e]
           taken == other \cup ({phys} \cap Frames)
           left == (m.count[d] - 1) % CountMod
<1>a. /\ d \in Dirs /\ e \in Entries
      /\ m.dir[d] # NONE /\ phys # NONE /\ GetPhysAdr(m, v) = phys
  BY Addresses DEF GetPhysAdr
<1>1. PageUnmapped(m, d, e, r)
  BY <1>a, UnmapResult
<1>2. /\ m.free \subseteq Frames
      /\ other \subseteq Frames \ m.free
      /\ Counted(m) /\ TablesApart(m, other) /\ MappedApart(m, other)
      /\ Covered(m, other)
  BY DEF Consistent
<1> HIDE DEF r, d, e
<1>3. /\ r \in MState
      /\ \A f \in Frames \cup {0}, x \in Entries :
            r.mem[f][x] = IF f = m.dir[d] /\ x = e THEN NONE ELSE m.mem[f][x]
      /\ \A c \in Dirs : r.count[c] = IF c = d THEN left ELSE m.count[c]
      /\ \A c \in Dirs :
            r.dir[c] = IF c = d /\ left = 0 THEN NONE ELSE m.dir[c]
      /\ r.free = IF left = 0 THEN m.free \cup {m.dir[d]} ELSE m.free
  BY <1>1 DEF PageUnmapped
\* The count of d is exact, and wraps nowhere.
<1>4. /\ left = m.count[d] - 1
      /\ left = 0 \/ left > 0
      /\ left = Cardinality(PresentIn(m, d) \ {e})
      /\ left = 0 => PresentIn(m, d) = {e}
  BY <1>a, <1>2, LastEntry
<1> HIDE DEF left
<1>5. /\ \A c \in Dirs : m.dir[c] # NONE => m.dir[c] \in Frames
      /\ \A c \in Dirs : r.dir[c] # NONE => r.dir[c] = m.dir[c]
      /\ phys \in Entry
  BY <1>a, <1>2, <1>3 DEF TablesApart, MState
<1>6. \A c \in Dirs, x \in Entries :
         r.dir[c] # NONE =>
            r.mem[r.dir[c]][x] = IF c = d /\ x = e THEN NONE
                                 ELSE m.mem[m.dir[c]][x]
  BY <1>a, <1>2, <1>3, <1>5 DEF TablesApart
<1>7. Counted(r)
  <2> SUFFICES ASSUME NEW c \in Dirs
               PROVE  IF r.dir[c] = NONE THEN r.count[c] = 0
                      ELSE /\ r.count[c] = Cardinality(PresentIn(r, c))
                           /\ r.count[c] > 0
    BY DEF Counted
  <2>1. CASE c # d
    <3>1. r.dir[c] # NONE => PresentIn(r, c) = PresentIn(m, c)
      BY <1>6, <2>1 DEF PresentIn
    <3> QED
      BY <1>2, <1>3, <2>1, <3>1 DEF Counted
  <2>2. CASE c = d
    <3>1. r.dir[d] # NONE => PresentIn(r, d) = PresentIn(m, d) \ {e}
      BY <1>a, <1>6 DEF PresentIn
    <3>2. r.count[d] = left /\ (r.dir[d] = NONE <=> left = 0)
      BY <1>a, <1>3
    <3>3. CASE left = 0
      BY <2>2, <3>2, <3>3
    <3>4. CASE left # 0
      <4>1. Cardinality(PresentIn(r, d)) = left /\ r.dir[d] # NONE /\ left > 0
        <5>1. left > 0
          BY <1>4, <3>4
        <5>2. r.dir[d] # NONE
          BY <3>2, <3>4
        <5>3. PresentIn(r, d) = PresentIn(m, d) \ {e}
          BY <3>1, <5>2
        <5> QED
          BY <1>4, <5>1, <5>2, <5>3
      <4> QED
        BY <2>2, <3>2, <4>1
    <3> QED
      BY <3>3, <3>4
  <2> QED
    BY <2>1, <2>2
<1>8. /\ r.free \subseteq Frames
      /\ taken \subseteq Frames \ r.free
      /\ TablesApart(r, taken)
  BY <1>a, <1>2, <1>3, <1>5 DEF TablesApart, MappedApart
\* What r maps, m maps in the same place, and it is not phys.
<1>9. ASSUME NEW c \in Dirs, NEW x \in Entries, r.dir[c] # NONE,
             r.mem[r.dir[c]][x] \in Frames
      PROVE  /\ m.dir[c] # NONE
             /\ m.dir[c] = r.dir[c]
             /\ m.mem[m.dir[c]][x] = r.mem[r.dir[c]][x]
             /\ m.mem[m.dir[c]][x] \in Frames
             /\ m.mem[m.dir[c]][x] # phys
  <2>1. /\ m.dir[c] = r.dir[c] /\ ~(c = d /\ x = e)
        /\ m.mem[m.dir[c]][x] = r.mem[r.dir[c]][x]
    BY <1>5, <1>6, <1>9, ConstantFacts
  <2> QED
    BY <1>a, <1>2, <1>9, <2>1 DEF MappedApart
<1>10. MappedApart(r, taken)
  <2>1. ASSUME NEW c \in Dirs, NEW x \in Entries, r.dir[c] # NONE,
               r.mem[r.dir[c]][x] \in Frames
        PROVE  /\ r.mem[r.dir[c]][x] \notin r.free \cup taken
               /\ \A b \in Dirs : r.dir[b] # r.mem[r.dir[c]][x]
    <3>1. /\ m.mem[m.dir[c]][x] = r.mem[r.dir[c]][x]
          /\ m.mem[m.dir[c]][x] # phys /\ m.dir[c] # NONE
          /\ m.mem[m.dir[c]][x] \in Frames
      BY <1>9, <2>1
    <3>2. /\ m.mem[m.dir[c]][x] \notin m.free \cup other
          /\ \A b \in Dirs : m.dir[b] # m.mem[m.dir[c]][x]
      BY <1>2, <3>1 DEF MappedApart
    <3> QED
      BY <1>a, <1>3, <3>1, <3>2, ConstantFacts
  <2>2. ASSUME NEW b \in Dirs, NEW c \in Dirs, NEW x \in Entries, NEW y \in Entries,
               r.dir[b] # NONE, r.dir[c] # NONE,
               r.mem[r.dir[b]][x] \in Frames,
               r.mem[r.dir[b]][x] = r.mem[r.dir[c]][y]
        PROVE  b = c /\ x = y
    BY <1>2, <1>9, <2>2 DEF MappedApart
  <2> HIDE DEF taken
  <2> QED
    BY <2>1, <2>2 DEF MappedApart
<1>11. Covered(r, taken)
  <2> SUFFICES ASSUME NEW p \in Frames, p \notin r.free \cup taken,
                      \A c \in Dirs : r.dir[c] # p
               PROVE  \E c \in Dirs, x \in Entries :
                         r.dir[c] # NONE /\ r.mem[r.dir[c]][x] = p
    BY DEF Covered
  <2>1. p \notin m.free /\ p # phys /\ p \notin other /\ p # NONE
    BY <1>a, <1>3, ConstantFacts
  <2>2. \A c \in Dirs : m.dir[c] # p
    BY <1>3, ConstantFacts
  <2>3. PICK c \in Dirs, x \in Entries : m.dir[c] # NONE /\ m.mem[m.dir[c]][x] = p
    BY <1>2, <2>1, <2>2 DEF Covered
  <2>4. ~(c = d /\ x = e)
    BY <2>1, <2>3
  <2>5. r.dir[c] # NONE
    BY <1>a, <1>3, <1>4, <2>1, <2>3, <2>4 DEF PresentIn
  <2> QED
    BY <1>6, <2>3, <2>4, <2>5
<1> QED
  BY <1>a, <1>7, <1>8, <1>10, <1>11 DEF Consistent, r

\* A page that changes hands, to alloc_page or from it.
LEMMA HandOver ==
    ASSUME NEW m, NEW other, NEW r, NEW taken,
           Consistent(m, other),
           r.dir = m.dir, r.mem = m.mem, r.count = m.count,
           r.free \cup taken = m.free \cup other,
           r.free \cap taken = {}
    PROVE  Consistent(r, taken)
<1>1. \A d \in Dirs : PresentIn(r, d) = PresentIn(m, d)
  BY DEF PresentIn
<1>2. Counted(r)
  BY <1>1 DEF Consistent, Counted
<1>3. r.free \subseteq Frames /\ taken \subseteq Frames \ r.free
  BY DEF Consistent
<1>4. TablesApart(r, taken) /\ MappedApart(r, taken)
  BY DEF Consistent, TablesApart, MappedApart
<1>5. Covered(r, taken)
  BY DEF Consistent, Covered
<1> QED
  BY <1>2, <1>3, <1>4, <1>5 DEF Consistent

-----------------------------------------------------------------------------
(* The same for states of the program, which may have gone on without a page, *)
(* and what the calls leave at every address                                  *)

\* The addresses of the kernel's part of the directory.
Address == {v \in Nat : Dir(v) \in Dirs}

\* m is consistent with the pages of `hands` in somebody's hands, and those of
\* m.lost in nobody's, unless the code has gone on with page 0.
Sound(m, hands) ==
    /\ m \in MState
    /\ ~m.oom => Consistent(m, hands \cup m.lost) /\ hands \cap m.lost = {}

\* From m to r no mapping has changed but that of v.
OnlyAt(m, r, v) ==
    /\ m.oom => r.oom
    /\ ~r.oom => \A w \in Address \ {v} : GetPhysAdr(r, w) = GetPhysAdr(m, w)

\* Addresses, as the lemmas on map_page and unmap_page want them.
LEMMA AddressFacts ==
    ASSUME NEW v \in Address
    PROVE  /\ v \in Nat /\ Dir(v) \in Dirs /\ EntryOf(v) \in Entries
           /\ \A w \in Address : Dir(w) = Dir(v) /\ EntryOf(w) = EntryOf(v) => w = v
  BY Addresses DEF Address

\* get_phys_adr reads an entry.
LEMMA PhysType ==
    ASSUME NEW m \in MState, NEW v \in Address
    PROVE  GetPhysAdr(m, v) \in Entry
<1>1. Dir(v) \in Dirs /\ EntryOf(v) \in Entries
  BY AddressFacts
<1>2. CASE m.dir[Dir(v)] = NONE
  BY <1>2 DEF GetPhysAdr, Entry
<1>3. CASE m.dir[Dir(v)] # NONE
  <2>1. m.dir[Dir(v)] \in Frames \cup {0}
    BY <1>1, <1>3 DEF MState
  <2> QED
    BY <1>1, <1>3, <2>1 DEF GetPhysAdr, MState
<1> QED
  BY <1>2, <1>3

\* A page of alloc_page is in the hands of the caller.
LEMMA TakeSound ==
    ASSUME NEW m, NEW hands, Sound(m, hands)
    PROVE  /\ Sound(Take(m), hands \cup {AllocPage(m)})
           /\ OnlyAt(m, Take(m), NONE)
           /\ m.free # {} /\ ~m.oom => ~Take(m).oom
           /\ Take(m).lost = m.lost
           /\ AllocPage(m) \in Entry
           /\ ~Take(m).oom => /\ AllocPage(m) \in Frames
                              /\ AllocPage(m) \notin hands \cup m.lost
<1> DEFINE r == Take(m)
           p == AllocPage(m)
<1>1. m \in MState /\ m.free \subseteq Frames \cup {0}
  BY DEF Sound, MState
<1>2. /\ r \in MState
      /\ r.dir = m.dir /\ r.mem = m.mem /\ r.count = m.count /\ r.lost = m.lost
      /\ r.free = m.free \ {p}
      /\ r.oom = (m.oom \/ p = 0)
  BY <1>1, TakeResult DEF Taken
<1>3. /\ p \in Frames \cup {0}
      /\ p # 0 => p \in m.free
      /\ m.free # {} => p \in m.free
  BY <1>1, AllocType
<1> HIDE DEF r, p
<1>4. ASSUME ~m.oom
      PROVE  /\ m.free \subseteq Frames
             /\ Consistent(m, hands \cup m.lost) /\ hands \cap m.lost = {}
             /\ hands \cup m.lost \subseteq Frames \ m.free
  BY <1>4 DEF Sound, Consistent
<1>5. m.free # {} /\ ~m.oom => ~r.oom
  BY <1>2, <1>3, <1>4, ConstantFacts
<1>6. ASSUME ~r.oom
      PROVE  /\ p \in Frames /\ p \notin hands \cup m.lost
             /\ Consistent(r, (hands \cup {p}) \cup r.lost)
             /\ (hands \cup {p}) \cap r.lost = {}
  <2>1. ~m.oom /\ p \in m.free
    BY <1>2, <1>3, <1>6
  <2>2. p \in Frames /\ p \notin hands \cup m.lost
    BY <1>4, <2>1
  <2>3. /\ r.free \cup ((hands \cup {p}) \cup r.lost) = m.free \cup (hands \cup m.lost)
        /\ r.free \cap ((hands \cup {p}) \cup r.lost) = {}
    BY <1>2, <1>4, <2>1
  <2>4. Consistent(r, (hands \cup {p}) \cup r.lost)
    <3> DEFINE other == hands \cup m.lost
               taken == (hands \cup {p}) \cup r.lost
    <3>1. Consistent(m, other) /\ r.free \cup taken = m.free \cup other
          /\ r.free \cap taken = {}
      BY <1>4, <2>1, <2>3
    <3> HIDE DEF other, taken
    <3>2. Consistent(r, taken)
      BY <1>2, <3>1, HandOver
    <3> QED
      BY <3>2 DEF taken
  <2> QED
    BY <1>2, <1>4, <2>1, <2>2, <2>4
<1>7. OnlyAt(m, r, NONE)
  BY <1>2 DEF OnlyAt, GetPhysAdr
<1>8. Sound(r, hands \cup {p})
  BY <1>2, <1>6 DEF Sound
<1>9. p \in Entry
  BY <1>3 DEF Entry
<1> QED
  BY <1>2, <1>5, <1>6, <1>7, <1>8, <1>9 DEF r, p

\* What map_page leaves at every address.
LEMMA MapKeeps ==
    ASSUME NEW m \in MState, NEW phys \in Entry, NEW v \in Address
    PROVE  /\ MapPage(m, phys, v) \in MState
           /\ MapPage(m, phys, v).lost = m.lost
           /\ MapPage(m, phys, v).dir[Dir(v)] # NONE
           /\ GetPhysAdr(MapPage(m, phys, v), v) = phys
           /\ m.oom => MapPage(m, phys, v).oom
<1> DEFINE d == Dir(v)
           e == EntryOf(v)
           new == AllocPage(m)
           r == MapPage(m, phys, v)
<1>1. v \in Nat /\ d \in Dirs /\ e \in Entries
  BY AddressFacts
<1>2. PageMapped(m, phys, d, e, new, r)
  BY <1>1, MapResult
<1>3. GetPhysAdr(r, v) = IF r.dir[d] = NONE THEN NONE ELSE r.mem[r.dir[d]][e]
  BY DEF GetPhysAdr
<1> HIDE DEF r, d, e, new
<1>4. r \in MState /\ r.dir[d] # NONE /\ r.lost = m.lost /\ (m.oom => r.oom)
  BY <1>2 DEF PageMapped
<1>5. r.dir[d] \in Frames \cup {0}
  BY <1>1, <1>4 DEF MState
<1>6. r.mem[r.dir[d]][e] = phys
  BY <1>1, <1>2, <1>5 DEF PageMapped
<1> QED
  BY <1>3, <1>4, <1>6 DEF r, d

\* map_page of a page in the caller's hands, or of a device, at an address that
\* is not mapped.
LEMMA MapSound ==
    ASSUME NEW m, NEW hands, NEW phys \in Entry, NEW v \in Address,
           Sound(m, hands \cup ({phys} \cap Frames)),
           phys \notin hands,
           ~m.oom => GetPhysAdr(m, v) = NONE /\ phys \in Frames \cup Devices
    PROVE  /\ Sound(MapPage(m, phys, v), hands)
           /\ OnlyAt(m, MapPage(m, phys, v), v)
           /\ GetPhysAdr(MapPage(m, phys, v), v) = phys
           /\ MapPage(m, phys, v).dir[Dir(v)] # NONE
<1> DEFINE r == MapPage(m, phys, v)
<1>1. m \in MState
  BY DEF Sound
<1>2. /\ r \in MState /\ r.lost = m.lost /\ r.dir[Dir(v)] # NONE
      /\ GetPhysAdr(r, v) = phys
      /\ m.oom => r.oom
  BY <1>1, MapKeeps
<1>3. v \in Nat /\ Dir(v) \in Dirs /\ EntryOf(v) \in Entries
  BY AddressFacts
<1>4. ASSUME ~r.oom
      PROVE  Consistent(r, hands \cup r.lost) /\ hands \cap r.lost = {}
  <2> DEFINE other == hands \cup m.lost
  <2>1. ~m.oom
    BY <1>2, <1>4
  <2>2. /\ Consistent(m, (hands \cup ({phys} \cap Frames)) \cup m.lost)
        /\ (hands \cup ({phys} \cap Frames)) \cap m.lost = {}
        /\ (hands \cup ({phys} \cap Frames)) \cup m.lost
              = other \cup ({phys} \cap Frames)
    BY <2>1 DEF Sound
  <2>3. phys \in Frames \cup Devices /\ phys \notin other
    <3>1. other \subseteq Frames
      BY <2>2 DEF Consistent
    <3> QED
      BY <2>1, <2>2, <3>1
  <2>4. hands \cap r.lost = {}
    BY <1>2, <2>2
  <2> HIDE DEF other
  <2>5. Consistent(m, other \cup ({phys} \cap Frames)) /\ GetPhysAdr(m, v) = NONE
    BY <2>1, <2>2
  <2>6. Consistent(r, other)
    BY <1>1, <1>3, <1>4, <2>3, <2>5, MapConsistent
  <2> QED
    BY <1>2, <2>4, <2>6 DEF other
<1>5. OnlyAt(m, r, v)
  <2> SUFFICES ASSUME ~r.oom, NEW w \in Address, w # v
               PROVE  GetPhysAdr(r, w) = GetPhysAdr(m, w)
    BY <1>2 DEF OnlyAt
  <2> DEFINE d == Dir(v)
             e == EntryOf(v)
             c == Dir(w)
             x == EntryOf(w)
             new == AllocPage(m)
  <2>1. /\ c \in Dirs /\ x \in Entries
        /\ ~(c = d /\ x = e)
    BY AddressFacts
  <2>2. PageMapped(m, phys, d, e, new, r)
    BY <1>1, <1>3, MapResult
  <2>3. /\ GetPhysAdr(r, w) = IF r.dir[c] = NONE THEN NONE ELSE r.mem[r.dir[c]][x]
        /\ GetPhysAdr(m, w) = IF m.dir[c] = NONE THEN NONE ELSE m.mem[m.dir[c]][x]
    BY DEF GetPhysAdr
  <2>4. ~m.oom /\ Consistent(r, hands \cup r.lost)
    BY <1>2, <1>4
  <2>5. /\ TablesApart(r, hands \cup r.lost)
        /\ TablesApart(m, (hands \cup ({phys} \cap Frames)) \cup m.lost)
    BY <2>4 DEF Sound, Consistent
  <2>6. m.dir[d] = NONE => new \in m.free
    <3>1. new # 0 => new \in m.free
      BY <1>1, AllocType DEF MState
    <3>2. m.dir[d] = NONE => new # 0
      BY <2>2 DEF PageMapped
    <3> QED
      BY <3>1, <3>2
  <2> HIDE DEF r, d, e, c, x, new
  <2>7. \A f \in Frames \cup {0} :
           r.mem[f][x] = IF f = r.dir[d] /\ x = e THEN phys
                         ELSE IF m.dir[d] = NONE /\ f = new THEN NONE
                         ELSE m.mem[f][x]
    BY <2>1, <2>2 DEF PageMapped
  <2>8. /\ r.dir[d] # NONE
        /\ r.dir[c] = IF c = d /\ m.dir[d] = NONE THEN new ELSE m.dir[c]
        /\ r.dir[d] = IF m.dir[d] = NONE THEN new ELSE m.dir[d]
    BY <1>3, <2>1, <2>2 DEF PageMapped, d
  <2>9. CASE c = d
    <3>1. r.dir[d] \in Frames
      BY <2>1, <2>5, <2>8, <2>9 DEF TablesApart
    <3>2. r.mem[r.dir[d]][x] = IF m.dir[d] = NONE THEN NONE ELSE m.mem[m.dir[d]][x]
      BY <2>1, <2>5, <2>6, <2>7, <2>8, <2>9, <3>1 DEF TablesApart
    <3> QED
      BY <2>3, <2>8, <2>9, <3>2
  <2>10. CASE c # d
    <3>1. r.dir[c] = m.dir[c]
      BY <2>8, <2>10
    <3>2. ASSUME m.dir[c] # NONE
          PROVE  r.mem[m.dir[c]][x] = m.mem[m.dir[c]][x]
      <4>1. m.dir[c] \in Frames /\ m.dir[c] \notin m.free
        BY <2>1, <2>5, <3>2 DEF TablesApart
      <4>2. r.dir[c] # r.dir[d]
        BY <1>3, <2>1, <2>5, <2>8, <2>10, <3>1, <3>2 DEF TablesApart, d
      <4>3. m.dir[c] # r.dir[d]
        BY <3>1, <4>2
      <4> QED
        BY <2>6, <2>7, <4>1, <4>3
    <3> QED
      BY <2>3, <3>1, <3>2
  <2> QED
    BY <2>9, <2>10
<1> HIDE DEF r
<1>6. Sound(r, hands)
  BY <1>2, <1>4 DEF Sound
<1> QED
  BY <1>2, <1>5, <1>6 DEF r

\* map_page of a new page at an address that is not mapped.
LEMMA MapNewSound ==
    ASSUME NEW m, NEW hands, NEW v \in Address, Sound(m, hands),
           ~m.oom => GetPhysAdr(m, v) = NONE
    PROVE  /\ Sound(MapNewPage(m, v), hands)
           /\ OnlyAt(m, MapNewPage(m, v), v)
           /\ ~MapNewPage(m, v).oom => GetPhysAdr(MapNewPage(m, v), v) \in Frames
<1> DEFINE t == Take(m)
           p == AllocPage(m)
           r == MapPage(t, p, v)
<1>1. /\ Sound(t, hands \cup {p})
      /\ OnlyAt(m, t, NONE)
      /\ p \in Entry
      /\ ~t.oom => p \in Frames /\ p \notin hands
  BY TakeSound
<1>2. MapNewPage(m, v) = r
  BY DEF MapNewPage
<1>3. v \in Address \ {NONE} /\ NONE \notin Address
  BY DEF Address, NONE
<1> HIDE DEF t, p
<1>4. CASE ~t.oom
  <2>1. hands \cup {p} = hands \cup ({p} \cap Frames) /\ p \notin hands
    BY <1>1, <1>4
  <2>2. GetPhysAdr(t, v) = NONE /\ p \in Frames \cup Devices
    BY <1>1, <1>3, <1>4 DEF OnlyAt
  <2>3. Sound(t, hands \cup ({p} \cap Frames))
    BY <1>1, <2>1
  <2>4. /\ Sound(r, hands) /\ OnlyAt(t, r, v) /\ GetPhysAdr(r, v) = p
    BY <1>1, <2>1, <2>2, <2>3, MapSound
  <2> HIDE DEF r
  <2>5. OnlyAt(m, r, v)
    BY <1>1, <1>3, <2>4 DEF OnlyAt
  <2> QED
    BY <1>1, <1>2, <1>4, <2>4, <2>5
<1>5. CASE t.oom
  <2>1. t \in MState
    BY <1>1 DEF Sound
  <2>2. r \in MState /\ r.oom
    BY <1>1, <1>5, <2>1, MapKeeps
  <2> HIDE DEF r
  <2> QED
    BY <1>2, <2>2 DEF Sound, OnlyAt
<1> QED
  BY <1>4, <1>5

\* unmap_page of an address that is mapped: the page is in the caller's hands.
LEMMA UnmapSound ==
    ASSUME NEW m, NEW hands, NEW v \in Address, Sound(m, hands),
           m.dir[Dir(v)] # NONE,
           ~m.oom => GetPhysAdr(m, v) # NONE
    PROVE  /\ Sound(UnmapPage(m, v), hands \cup ({GetPhysAdr(m, v)} \cap Frames))
           /\ OnlyAt(m, UnmapPage(m, v), v)
           /\ ~m.oom => GetPhysAdr(UnmapPage(m, v), v) = NONE
           /\ UnmapPage(m, v).oom = m.oom
           /\ UnmapPage(m, v).lost = m.lost
           /\ PageUnmapped(m, Dir(v), EntryOf(v), UnmapPage(m, v))
<1> DEFINE r == UnmapPage(m, v)
           phys == GetPhysAdr(m, v)
           d == Dir(v)
           e == EntryOf(v)
           left == (m.count[d] - 1) % CountMod
<1>1. m \in MState
  BY DEF Sound
<1>2. v \in Nat /\ d \in Dirs /\ e \in Entries
  BY AddressFacts
<1>3. PageUnmapped(m, d, e, r)
  BY <1>1, <1>2, UnmapResult
<1>4. r \in MState /\ r.lost = m.lost /\ r.oom = m.oom
  BY <1>3 DEF PageUnmapped
<1>5. Sound(r, hands \cup ({phys} \cap Frames))
  <2>1. ASSUME ~r.oom
        PROVE  /\ Consistent(r, (hands \cup ({phys} \cap Frames)) \cup r.lost)
               /\ (hands \cup ({phys} \cap Frames)) \cap r.lost = {}
    <3> DEFINE other == hands \cup m.lost
    <3>1. Consistent(m, other) /\ hands \cap m.lost = {} /\ phys # NONE
      BY <1>4, <2>1 DEF Sound
    <3>2. phys \in Frames => phys \notin m.lost
      BY <1>2, <3>1 DEF GetPhysAdr, Consistent, MappedApart
    <3>3. (hands \cup ({phys} \cap Frames)) \cup r.lost = other \cup ({phys} \cap Frames)
      BY <1>4
    <3> HIDE DEF other, r
    <3>4. Consistent(UnmapPage(m, v), other \cup ({GetPhysAdr(m, v)} \cap Frames))
      BY <1>1, <1>2, <3>1, UnmapConsistent
    <3> QED
      BY <1>4, <3>1, <3>2, <3>3, <3>4 DEF r
  <2> QED
    BY <1>4, <2>1 DEF Sound
<1>b. /\ Counted(m) /\ m.mem[m.dir[d]][e] # NONE /\ left = 0
      => PresentIn(m, d) = {e}
  BY <1>1, <1>2, LastEntry
<1> HIDE DEF r, left
<1>6. ASSUME ~m.oom, NEW w \in Address
      PROVE  GetPhysAdr(r, w) = IF w = v THEN NONE ELSE GetPhysAdr(m, w)
  <2> DEFINE c == Dir(w)
             x == EntryOf(w)
  <2>1. /\ c \in Dirs /\ x \in Entries
        /\ c = d /\ x = e <=> w = v
    BY AddressFacts
  <2>2. /\ GetPhysAdr(r, w) = IF r.dir[c] = NONE THEN NONE ELSE r.mem[r.dir[c]][x]
        /\ GetPhysAdr(m, w) = IF m.dir[c] = NONE THEN NONE ELSE m.mem[m.dir[c]][x]
        /\ m.mem[m.dir[d]][e] # NONE
    BY <1>6 DEF GetPhysAdr
  <2>3. TablesApart(m, hands \cup m.lost) /\ Counted(m)
    BY <1>6 DEF Sound, Consistent
  <2>a. c \in Dirs /\ x \in Entries
    BY <2>1
  <2> HIDE DEF c, x, d, e
  <2>4. /\ \A f \in Frames \cup {0} :
              r.mem[f][x] = IF f = m.dir[d] /\ x = e THEN NONE ELSE m.mem[f][x]
        /\ r.dir[c] = IF c = d /\ left = 0 THEN NONE ELSE m.dir[c]
    BY <1>3, <2>a DEF PageUnmapped, left
  <2>5. CASE m.dir[c] = NONE
    BY <2>2, <2>4, <2>5
  <2>6. CASE m.dir[c] # NONE /\ c = d /\ left = 0
    <3>1. PresentIn(m, d) = {e}
      BY <1>b, <2>2, <2>3, <2>6 DEF d, e
    <3>2. x # e => m.mem[m.dir[d]][x] = NONE
      BY <2>a, <3>1 DEF PresentIn
    <3>3. r.dir[c] = NONE
      BY <2>4, <2>6
    <3> QED
      BY <2>1, <2>2, <2>6, <3>2, <3>3
  <2>7. CASE m.dir[c] # NONE /\ ~(c = d /\ left = 0)
    <3>1. r.dir[c] = m.dir[c] /\ m.dir[c] \in Frames
      BY <2>a, <2>3, <2>4, <2>7 DEF TablesApart
    <3>2. m.dir[c] = m.dir[d] => c = d
      BY <1>2, <2>a, <2>3, <2>7 DEF TablesApart, d
    <3>3. r.mem[m.dir[c]][x] = IF c = d /\ x = e THEN NONE ELSE m.mem[m.dir[c]][x]
      BY <2>4, <3>1, <3>2
    <3> QED
      BY <2>1, <2>2, <2>7, <3>1, <3>3
  <2> QED
    BY <2>5, <2>6, <2>7
<1>7. OnlyAt(m, r, v)
  BY <1>4, <1>6 DEF OnlyAt
<1> QED
  BY <1>3, <1>4, <1>5, <1>6, <1>7 DEF r, phys, d, e

\* free_page before unmap_page, as in vfree: nobody has the page.
LEMMA FreeSound ==
    ASSUME NEW m, NEW hands, NEW v \in Address, Sound(m, hands), ~m.oom,
           GetPhysAdr(m, v) \in Frames
    PROVE  LET q == UnmapPage([m EXCEPT !.free = @ \cup {GetPhysAdr(m, v)}], v)
           IN  /\ Sound(q, hands)
               /\ OnlyAt(m, q, v)
               /\ GetPhysAdr(q, v) = NONE
               /\ q.oom = m.oom
<1> DEFINE phys == GetPhysAdr(m, v)
           n == [m EXCEPT !.free = @ \cup {phys}]
           q == UnmapPage(n, v)
           r == UnmapPage(m, v)
           d == Dir(v)
           e == EntryOf(v)
<1>1. m \in MState /\ phys \in Frames
  BY DEF Sound
<1>2. v \in Nat /\ d \in Dirs /\ e \in Entries
  BY AddressFacts
<1>3. phys # NONE /\ m.dir[d] # NONE
  <2>1. phys # NONE
    BY ConstantFacts
  <2> QED
    BY <2>1 DEF GetPhysAdr
<1>4. /\ n \in MState /\ n.dir = m.dir /\ n.mem = m.mem /\ n.count = m.count
      /\ n.free = m.free \cup {phys} /\ n.lost = m.lost /\ n.oom = m.oom
  <2>0. n = [m EXCEPT !.free = m.free \cup {phys}]
    OBVIOUS
  <2> HIDE DEF phys, n
  <2>1. n = [dir |-> m.dir, mem |-> m.mem, count |-> m.count,
             free |-> m.free \cup {phys}, lost |-> m.lost, oom |-> m.oom]
    BY <1>1, <2>0 DEF MState
  <2> QED
    BY <1>1, <2>1 DEF MState
<1>5. /\ Sound(r, hands \cup ({phys} \cap Frames))
      /\ OnlyAt(m, r, v)
      /\ GetPhysAdr(r, v) = NONE
      /\ r.oom = m.oom /\ r.lost = m.lost
      /\ PageUnmapped(m, d, e, r)
  BY <1>3, UnmapSound
<1> HIDE DEF n
<1>6. PageUnmapped(n, d, e, q)
  BY <1>2, <1>3, <1>4, UnmapResult
<1> HIDE DEF q, r, phys, d, e
<1>7. /\ q \in MState /\ q.dir = r.dir /\ q.mem = r.mem /\ q.count = r.count
      /\ q.free = r.free \cup {phys}
      /\ q.lost = m.lost /\ q.oom = m.oom
  <2>1. r \in MState /\ q \in MState
    BY <1>5, <1>6 DEF PageUnmapped
  <2>2. /\ \A c \in Dirs : q.dir[c] = r.dir[c]
        /\ \A c \in Dirs : q.count[c] = r.count[c]
    BY <1>4, <1>5, <1>6 DEF PageUnmapped
  <2>3. \A f \in Frames \cup {0}, x \in Entries : q.mem[f][x] = r.mem[f][x]
    BY <1>4, <1>5, <1>6 DEF PageUnmapped
  <2>4. q.free = r.free \cup {phys}
    BY <1>4, <1>5, <1>6 DEF PageUnmapped
  <2>5. q.lost = m.lost /\ q.oom = m.oom
    BY <1>4, <1>6 DEF PageUnmapped
  <2> QED
    BY <2>1, <2>2, <2>3, <2>4, <2>5 DEF MState
<1>8. \A w : GetPhysAdr(q, w) = GetPhysAdr(r, w)
  BY <1>7 DEF GetPhysAdr
<1>9. phys \notin hands \cup m.lost
  BY <1>1, <1>2, <1>3 DEF Sound, Consistent, MappedApart, GetPhysAdr, phys, d, e
<1>10. Sound(q, hands)
  <2>1. Consistent(r, (hands \cup {phys}) \cup m.lost)
    <3>1. hands \cup ({phys} \cap Frames) = hands \cup {phys}
      BY <1>1
    <3> QED
      BY <1>5, <3>1 DEF Sound
  <2>2. hands \cap m.lost = {}
    BY DEF Sound
  <2>3. r.free \cap ((hands \cup {phys}) \cup m.lost) = {}
    BY <2>1 DEF Consistent
  <2> DEFINE other == (hands \cup {phys}) \cup m.lost
             taken == hands \cup m.lost
  <2>4. q.free \cup taken = r.free \cup other /\ q.free \cap taken = {}
    BY <1>7, <1>9, <2>3
  <2>5. Consistent(r, other)
    BY <2>1
  <2> HIDE DEF other, taken
  <2>6. Consistent(q, taken)
    BY <1>7, <2>4, <2>5, HandOver
  <2> QED
    BY <1>7, <2>2, <2>6 DEF Sound, taken
<1>11. OnlyAt(m, q, v)
  BY <1>5, <1>7, <1>8 DEF OnlyAt
<1> QED
  BY <1>5, <1>7, <1>8, <1>10, <1>11 DEF q, n, phys

\* A device's page, mapped or unmapped, is in nobody's hands.
LEMMA DevicePages ==
    ASSUME NEW hands, NEW phys, phys \notin Frames
    PROVE  hands \cup ({phys} \cap Frames) = hands
  OBVIOUS

\* The addresses of the heap, of the regions and of their heapinfo.
LEMMA PlaceFacts ==
    /\ HeapPages \subseteq Address
    /\ VheapPages \subseteq Address
    /\ InfoPages \subseteq Address
    /\ \A v \in HeapPages \cup VheapPages : InfoPage(v) \in InfoPages
    /\ HeapPages \cap VheapPages = {}
    /\ InfoPages \cap (HeapPages \cup VheapPages) = {}
<1>1. HeapStart \in Nat /\ HeapMax \in Nat /\ VheapStart \in Nat /\ VheapMax \in Nat
  BY PageTablesAssumption
<1>2. HeapPages \subseteq Nat /\ VheapPages \subseteq Nat
  BY <1>1 DEF HeapPages, VheapPages
<1> QED
  BY <1>2, PageTablesAssumption DEF Address, InfoPages

\* From m to r nothing has changed but that heapinfo pages were mapped.
Tagged(m, r, hands) ==
    /\ Sound(r, hands)
    /\ m.oom => r.oom
    /\ ~r.oom => \A w \in Address :
                    w \notin InfoPages \/ GetPhysAdr(m, w) # NONE =>
                       GetPhysAdr(r, w) = GetPhysAdr(m, w)

\* Tagging is done one after the other.
LEMMA TaggedOn ==
    ASSUME NEW m, NEW n, NEW r, NEW hands, Tagged(m, n, hands), Tagged(n, r, hands)
    PROVE  Tagged(m, r, hands)
  BY DEF Tagged

\* No tag at all.
LEMMA TaggedNot ==
    ASSUME NEW m, NEW hands, Sound(m, hands)
    PROVE  Tagged(m, m, hands)
  BY DEF Tagged

\* set_heapinfo gives v its heapinfo page, or fails.
LEMMA InfoSound ==
    ASSUME NEW m, NEW hands, NEW v \in HeapPages \cup VheapPages, Sound(m, hands)
    PROVE  /\ Tagged(m, SetHeapinfo(m, v).m, hands)
           /\ SetHeapinfo(m, v).ok \in BOOLEAN
           /\ SetHeapinfo(m, v).ok /\ ~SetHeapinfo(m, v).m.oom =>
                 GetPhysAdr(SetHeapinfo(m, v).m, InfoPage(v)) # NONE
<1> DEFINE info == InfoPage(v)
           s == SetHeapinfo(m, v)
           p == AllocPage(m)
           t == Take(m)
           n == [t EXCEPT !.lost = m.lost \cup {p}]
           r == MapNewPage(n, info)
<1>1. info \in InfoPages /\ info \in Address
  BY PlaceFacts
<1>2. CASE GetPhysAdr(m, info) # NONE
  <2>1. s = [m |-> m, ok |-> TRUE]
    BY <1>2 DEF SetHeapinfo
  <2> QED
    BY <1>2, <2>1, TaggedNot
<1>3. CASE GetPhysAdr(m, info) = NONE /\ m.free = {}
  <2>1. s = [m |-> m, ok |-> FALSE]
    BY <1>3 DEF SetHeapinfo
  <2> QED
    BY <2>1, TaggedNot
<1>4. CASE GetPhysAdr(m, info) = NONE /\ m.free # {}
  <2>1. /\ Sound(t, hands \cup {p})
        /\ OnlyAt(m, t, NONE)
        /\ t.lost = m.lost
        /\ ~t.oom => p \in Frames /\ p \notin hands \cup m.lost
        /\ p \in Frames \cup {0}
    BY TakeSound, AllocType DEF Sound, MState
  <2>2. s = [m |-> r, ok |-> TRUE]
    <3>1. [t EXCEPT !.lost = @ \cup {p}] = n
      BY <2>1
    <3> HIDE DEF n
    <3>2. s = [m |-> MapNewPage([t EXCEPT !.lost = @ \cup {p}], info), ok |-> TRUE]
      BY <1>4, Zenon DEF SetHeapinfo
    <3> QED
      BY <3>1, <3>2
  <2> HIDE DEF t, p
  <2>3. /\ n \in MState /\ n.dir = t.dir /\ n.mem = t.mem /\ n.count = t.count
        /\ n.free = t.free /\ n.lost = m.lost \cup {p} /\ n.oom = t.oom
    <3>1. t \in MState /\ m.lost \cup {p} \in SUBSET (Frames \cup {0})
      BY <2>1 DEF Sound, MState
    <3>a. n = [t EXCEPT !.lost = m.lost \cup {p}]
      OBVIOUS
    <3> HIDE DEF n
    <3>2. n = [dir |-> t.dir, mem |-> t.mem, count |-> t.count, free |-> t.free,
               lost |-> m.lost \cup {p}, oom |-> t.oom]
      BY <3>1, <3>a DEF MState
    <3> QED
      BY <3>1, <3>2 DEF MState
  <2> HIDE DEF n, s
  <2>4. Sound(n, hands)
    <3>1. ASSUME ~n.oom
          PROVE  Consistent(n, hands \cup n.lost) /\ hands \cap n.lost = {}
      <4>1. /\ Consistent(t, (hands \cup {p}) \cup m.lost)
            /\ (hands \cup {p}) \cap m.lost = {}
            /\ p \notin hands
        BY <2>1, <2>3, <3>1 DEF Sound
      <4> DEFINE other == (hands \cup {p}) \cup m.lost
      <4>2. hands \cup n.lost = other /\ hands \cap n.lost = {}
        BY <2>3, <4>1
      <4>3. n.free \cap other = {}
        BY <2>3, <4>1 DEF Consistent
      <4> HIDE DEF other
      <4>4. Consistent(t, other)
        BY <4>1 DEF other
      <4>5. Consistent(n, other)
        BY <2>3, <4>3, <4>4, HandOver
      <4> QED
        BY <4>2, <4>5
    <3> QED
      BY <2>3, <3>1 DEF Sound
  <2>5. \A w : GetPhysAdr(n, w) = GetPhysAdr(t, w)
    BY <2>3 DEF GetPhysAdr
  <2>6. NONE \notin Address
    BY DEF Address, NONE
  <2>7. OnlyAt(m, n, NONE)
    BY <2>1, <2>3, <2>5 DEF OnlyAt
  <2>8. ~n.oom => GetPhysAdr(n, info) = NONE
    BY <1>1, <1>4, <2>6, <2>7 DEF OnlyAt
  <2> HIDE DEF info
  <2>9. /\ Sound(r, hands) /\ OnlyAt(n, r, info)
        /\ ~r.oom => GetPhysAdr(r, info) \in Frames
    BY <1>1, <2>4, <2>8, MapNewSound
  <2> HIDE DEF r
  <2>10. Tagged(m, r, hands)
    BY <1>1, <1>4, <2>6, <2>7, <2>9 DEF Tagged, OnlyAt
  <2>11. ~r.oom => GetPhysAdr(r, info) # NONE
    BY <2>9, ConstantFacts
  <2>12. s.m = r /\ s.ok = TRUE
    BY <2>2
  <2> QED
    BY <2>10, <2>11, <2>12 DEF s, info
<1> QED
  BY <1>2, <1>3, <1>4

\* The two tags of a region.
LEMMA TagsSound ==
    ASSUME NEW m, NEW hands, NEW v \in VheapPages, NEW w \in VheapPages,
           Sound(m, hands)
    PROVE  /\ Tagged(m, SetTags(m, v, w).m, hands)
           /\ SetTags(m, v, w).ok \in BOOLEAN
           /\ SetTags(m, v, w).ok /\ ~SetTags(m, v, w).m.oom =>
                 GetPhysAdr(SetTags(m, v, w).m, InfoPage(w)) # NONE
<1> DEFINE s == SetHeapinfo(m, v)
           r == SetHeapinfo(s.m, w)
<1>1. /\ Tagged(m, s.m, hands) /\ s.ok \in BOOLEAN /\ Sound(s.m, hands)
  BY InfoSound DEF Tagged
<1>2. SetTags(m, v, w) = IF s.ok THEN r ELSE s
  BY DEF SetTags
<1> HIDE DEF s
<1>3. /\ Tagged(s.m, r.m, hands) /\ r.ok \in BOOLEAN
      /\ r.ok /\ ~r.m.oom => GetPhysAdr(r.m, InfoPage(w)) # NONE
  BY <1>1, InfoSound
<1> HIDE DEF r
<1>4. Tagged(m, r.m, hands)
  BY <1>1, <1>3, TaggedOn
<1> QED
  BY <1>1, <1>2, <1>3, <1>4

\* vregion_alloc's tags: those of the region are there if it succeeds.
LEMMA RegionTagsSound ==
    ASSUME NEW m, NEW hands, NEW r \in Region, NEW end \in VheapPages,
           r.at + r.size - 1 <= end, Sound(m, hands)
    PROVE  /\ Tagged(m, TagRegion(m, r, end).m, hands)
           /\ TagRegion(m, r, end).ok \in BOOLEAN
           /\ TagRegion(m, r, end).ok /\ ~TagRegion(m, r, end).m.oom =>
                 GetPhysAdr(TagRegion(m, r, end).m, InfoPage(r.at)) # NONE
<1> DEFINE next == r.at + r.size
           own == SetTags(m, next - 1, r.at)
           rest == SetTags(own.m, next, end)
<1>1. /\ VheapStart \in Nat /\ VheapMax \in Nat
      /\ r.at \in VheapPages /\ r.size \in Nat \ {0}
  BY PageTablesAssumption DEF Region
<1>2. /\ next - 1 \in VheapPages
      /\ next <= end => next \in VheapPages
  BY <1>1 DEF VheapPages
<1>3. TagRegion(m, r, end) = IF own.ok /\ next <= end THEN rest ELSE own
  BY DEF TagRegion
<1> HIDE DEF next
<1>4. /\ Tagged(m, own.m, hands) /\ own.ok \in BOOLEAN /\ Sound(own.m, hands)
      /\ own.ok /\ ~own.m.oom => GetPhysAdr(own.m, InfoPage(r.at)) # NONE
  BY <1>1, <1>2, TagsSound DEF Tagged
<1>5. CASE ~(own.ok /\ next <= end)
  BY <1>3, <1>4, <1>5
<1>6. CASE own.ok /\ next <= end
  <2> HIDE DEF own
  <2>1. Tagged(own.m, rest.m, hands) /\ rest.ok \in BOOLEAN
    BY <1>2, <1>4, <1>6, TagsSound
  <2> HIDE DEF rest
  <2>2. Tagged(m, rest.m, hands)
    BY <1>4, <2>1, TaggedOn
  <2>3. InfoPage(r.at) \in Address
    BY <1>1, PlaceFacts
  <2>4. ~rest.m.oom => GetPhysAdr(rest.m, InfoPage(r.at)) # NONE
    BY <1>4, <1>6, <2>1, <2>3 DEF Tagged
  <2> QED
    BY <1>3, <1>6, <2>1, <2>2, <2>4
<1> QED
  BY <1>5, <1>6

\* vregion_free's tags.
LEMMA FreeTagsSound ==
    ASSUME NEW m, NEW hands, NEW first \in VheapPages, NEW last \in VheapPages,
           Sound(m, hands)
    PROVE  Tagged(m, TagFree(m, first, last), hands)
<1> DEFINE n == SetHeapinfo(m, first).m
           r == SetHeapinfo(n, last).m
<1>1. Tagged(m, n, hands) /\ Sound(n, hands)
  BY InfoSound DEF Tagged
<1> HIDE DEF n
<1>2. Tagged(n, r, hands)
  BY <1>1, InfoSound
<1>3. TagFree(m, first, last) = r
  BY DEF TagFree, n
<1> HIDE DEF r
<1> QED
  BY <1>1, <1>2, <1>3, TaggedOn

-----------------------------------------------------------------------------
(* Who has which address: the heap's pages, the regions of callers and the   *)
(* region of the call that is running                                        *)

\* Page i of region r is mapped, to memory or to the device's page.
Backed(m, r, i) ==
    IF r.io = NONE THEN GetPhysAdr(m, r.at + i) \in Frames
    ELSE GetPhysAdr(m, r.at + i) = r.io + i /\ r.io + i \in Devices

\* The pages of the call.
CallPages(c) == IF c.op = "none" THEN {} ELSE PagesOf(c.region)

\* A region of R is where regions may be, has its heapinfo page and its pages.
Whole(m, A, r) ==
    /\ PagesOf(r) \subseteq VheapPages \ A
    /\ GetPhysAdr(m, InfoPage(r.at)) # NONE
    /\ \A i \in 0..(r.size - 1) : Backed(m, r, i)

\* The loop of c is at page c.done of a region that is nobody else's.
Looping(m, R, A, c) ==
    /\ PagesOf(c.region) \subseteq VheapPages \ A
    /\ \A r \in R : PagesOf(r) \cap PagesOf(c.region) = {}
    /\ c.op = "map" =>
          /\ c.done < c.region.size
          /\ GetPhysAdr(m, InfoPage(c.region.at)) # NONE
          /\ c.region.io # NONE =>
                \A i \in 0..(c.region.size - 1) : c.region.io + i \in Devices
    /\ \A i \in 0..(c.region.size - 1) :
          IF (c.op = "map") <=> (i < c.done) THEN Backed(m, c.region, i)
          ELSE GetPhysAdr(m, c.region.at + i) = NONE

\* Nothing is mapped where nobody has a page.
Vacant(m, R, A, c) ==
    \A v \in VheapPages \ A :
        (\A r \in R : v \notin PagesOf(r)) /\ v \notin CallPages(c)
        => GetPhysAdr(m, v) = NONE

Layout(m, R, A, c, h) ==
    /\ Vacant(m, R, A, c)
    /\ \A r \in R : Whole(m, A, r)
    /\ \A q, r \in R : q # r => PagesOf(q) \cap PagesOf(r) = {}
    /\ c.op # "none" => Looping(m, R, A, c)
    /\ \A v \in h..(HeapMax - 1) : GetPhysAdr(m, v) = NONE

\* A page of a region is one of its pages by number.
LEMMA RegionPages ==
    ASSUME NEW r \in Region
    PROVE  /\ \A i \in 0..(r.size - 1) : r.at + i \in PagesOf(r) /\ r.at + i \in Nat
           /\ \A v \in PagesOf(r) : \E i \in 0..(r.size - 1) : v = r.at + i
           /\ r.at \in VheapPages /\ r.size \in Nat \ {0} /\ r.at \in Nat
<1>1. VheapStart \in Nat /\ VheapMax \in Nat
  BY PageTablesAssumption
<1>2. r.at \in VheapPages /\ r.size \in Nat \ {0} /\ r.at \in Nat
  BY <1>1 DEF Region, VheapPages
<1>3. ASSUME NEW v \in PagesOf(r)
      PROVE  v - r.at \in 0..(r.size - 1) /\ v = r.at + (v - r.at)
  BY <1>2, <1>3 DEF PagesOf
<1>4. \A i \in 0..(r.size - 1) : r.at + i \in PagesOf(r) /\ r.at + i \in Nat
  BY <1>2 DEF PagesOf
<1> QED
  BY <1>2, <1>3, <1>4

\* What tells nobody's page from nobody's page: the layout depends on the
\* pages of the heap and the regions, and on which heapinfo is mapped.
LEMMA LayoutKept ==
    ASSUME NEW m, NEW n, NEW R \in SUBSET Region, NEW A, NEW c \in Call, NEW h \in Nat,
           HeapStart <= h,
           Layout(m, R, A, c, h),
           \A w \in Address : w \notin InfoPages => GetPhysAdr(n, w) = GetPhysAdr(m, w),
           \A w \in InfoPages : GetPhysAdr(m, w) # NONE => GetPhysAdr(n, w) # NONE
    PROVE  Layout(n, R, A, c, h)
<1>1. \A v \in VheapPages : GetPhysAdr(n, v) = GetPhysAdr(m, v)
  BY PlaceFacts
<1>2. \A v \in VheapPages : InfoPage(v) \in InfoPages
  BY PlaceFacts
<1>3. ASSUME NEW r \in Region, PagesOf(r) \subseteq VheapPages
      PROVE  /\ \A i \in 0..(r.size - 1) :
                   /\ GetPhysAdr(n, r.at + i) = GetPhysAdr(m, r.at + i)
                   /\ Backed(n, r, i) <=> Backed(m, r, i)
             /\ GetPhysAdr(m, InfoPage(r.at)) # NONE => GetPhysAdr(n, InfoPage(r.at)) # NONE
  <2>1. \A i \in 0..(r.size - 1) : GetPhysAdr(n, r.at + i) = GetPhysAdr(m, r.at + i)
    BY <1>1, <1>3, RegionPages
  <2>2. InfoPage(r.at) \in InfoPages
    BY <1>2, RegionPages
  <2> QED
    BY <2>1, <2>2 DEF Backed
<1>4. Vacant(n, R, A, c)
  BY <1>1 DEF Layout, Vacant
<1>5. \A r \in R : Whole(n, A, r)
  <2> TAKE r \in R
  <2>1. r \in Region /\ Whole(m, A, r) /\ PagesOf(r) \subseteq VheapPages
    BY DEF Layout, Whole
  <2> QED
    BY <1>3, <2>1 DEF Whole
<1>6. ASSUME c.op # "none" PROVE Looping(n, R, A, c)
  <2>1. /\ c.region \in Region /\ Looping(m, R, A, c)
        /\ PagesOf(c.region) \subseteq VheapPages
    BY <1>6 DEF Layout, Looping, Call
  <2>2. /\ \A i \in 0..(c.region.size - 1) :
              /\ GetPhysAdr(n, c.region.at + i) = GetPhysAdr(m, c.region.at + i)
              /\ Backed(n, c.region, i) <=> Backed(m, c.region, i)
        /\ GetPhysAdr(m, InfoPage(c.region.at)) # NONE
              => GetPhysAdr(n, InfoPage(c.region.at)) # NONE
    BY <1>3, <2>1
  <2> QED
    BY <2>1, <2>2 DEF Looping
<1>7. \A v \in h..(HeapMax - 1) : GetPhysAdr(n, v) = GetPhysAdr(m, v)
  <2>1. \A v \in h..(HeapMax - 1) : v \in HeapPages
    BY PageTablesAssumption DEF HeapPages
  <2> QED
    BY <2>1, PlaceFacts
<1> QED
  BY <1>4, <1>5, <1>6, <1>7 DEF Layout

\* Tagging changes nothing of the layout.
LEMMA LayoutTagged ==
    ASSUME NEW m, NEW n, NEW hands, NEW R \in SUBSET Region, NEW A, NEW c \in Call,
           NEW h \in Nat, HeapStart <= h, Layout(m, R, A, c, h),
           Tagged(m, n, hands), ~n.oom
    PROVE  Layout(n, R, A, c, h)
<1>1. \A w \in Address : w \notin InfoPages => GetPhysAdr(n, w) = GetPhysAdr(m, w)
  BY DEF Tagged
<1>2. \A w \in InfoPages : GetPhysAdr(m, w) # NONE => GetPhysAdr(n, w) # NONE
  BY PlaceFacts DEF Tagged
<1> QED
  BY <1>1, <1>2, LayoutKept

\* vregion_alloc has cut r off: its loop begins.
LEMMA LayoutStart ==
    ASSUME NEW m, NEW R \in SUBSET Region, NEW A, NEW h, Layout(m, R, A, Idle, h),
           NEW r \in Region,
           PagesOf(r) \subseteq VheapPages \ A,
           \A q \in R : PagesOf(q) \cap PagesOf(r) = {},
           r.io # NONE => \A i \in 0..(r.size - 1) : r.io + i \in Devices,
           GetPhysAdr(m, InfoPage(r.at)) # NONE
    PROVE  Layout(m, R, A, [op |-> "map", region |-> r, done |-> 0], h)
<1> DEFINE c == [op |-> "map", region |-> r, done |-> 0]
<1>1. c.op = "map" /\ c.region = r /\ c.done = 0 /\ Idle.op = "none"
  BY DEF Idle
<1> HIDE DEF c
<1>2. CallPages(Idle) = {}
  BY <1>1 DEF CallPages
<1>3. \A i \in 0..(r.size - 1) : GetPhysAdr(m, r.at + i) = NONE
  <2> TAKE i \in 0..(r.size - 1)
  <2>1. r.at + i \in PagesOf(r)
    BY RegionPages
  <2> QED
    BY <1>2, <2>1 DEF Layout, Vacant
<1>4. Vacant(m, R, A, c)
  BY <1>2 DEF Layout, Vacant
<1>5. r.size \in Nat \ {0}
  BY RegionPages
<1>6. Looping(m, R, A, c)
  BY <1>1, <1>3, <1>5 DEF Looping
<1> QED
  <2>1. Layout(m, R, A, c, h)
    BY <1>4, <1>6 DEF Layout
  <2> QED
    BY <2>1 DEF c

\* vfree or unmap_io begins.
LEMMA LayoutGive ==
    ASSUME NEW m, NEW R \in SUBSET Region, NEW A, NEW h, Layout(m, R, A, Idle, h),
           NEW r \in R
    PROVE  Layout(m, R \ {r}, A, [op |-> "unmap", region |-> r, done |-> 0], h)
<1> DEFINE c == [op |-> "unmap", region |-> r, done |-> 0]
<1>1. c.op = "unmap" /\ c.region = r /\ c.done = 0 /\ Idle.op = "none"
  BY DEF Idle
<1> HIDE DEF c
<1>2. Vacant(m, R \ {r}, A, c)
  BY <1>1 DEF Layout, Vacant, CallPages
<1>3. Whole(m, A, r) /\ \A q \in R \ {r} : PagesOf(q) \cap PagesOf(r) = {}
  BY DEF Layout
<1>4. Looping(m, R \ {r}, A, c)
  BY <1>1, <1>3 DEF Looping, Whole
<1> QED
  <2>1. Layout(m, R \ {r}, A, c, h)
    BY <1>2, <1>4 DEF Layout
  <2> QED
    BY <2>1 DEF c

\* vmalloc has failed: its region is never seen again.
LEMMA LayoutAbandon ==
    ASSUME NEW m, NEW R \in SUBSET Region, NEW A, NEW c \in Call, NEW h,
           Layout(m, R, A, c, h), c.op = "map"
    PROVE  /\ Layout(m, R, A \cup PagesOf(c.region), Idle, h)
           /\ PagesOf(c.region) \subseteq VheapPages
<1>1. Idle.op = "none" /\ c.op # "none"
  BY DEF Idle
<1>2. Looping(m, R, A, c)
  BY <1>1 DEF Layout
<1>3. Vacant(m, R, A \cup PagesOf(c.region), Idle)
  BY <1>1 DEF Layout, Vacant, CallPages
<1>4. \A r \in R : Whole(m, A \cup PagesOf(c.region), r)
  <2> TAKE r \in R
  <2>1. Whole(m, A, r) /\ PagesOf(r) \cap PagesOf(c.region) = {}
    BY <1>2 DEF Layout, Looping
  <2> QED
    BY <2>1 DEF Whole
<1> QED
  BY <1>1, <1>2, <1>3, <1>4 DEF Layout, Looping

\* vfree or unmap_io is done: its region is free.
LEMMA LayoutReturn ==
    ASSUME NEW m, NEW R \in SUBSET Region, NEW A, NEW c \in Call, NEW h,
           Layout(m, R, A, c, h), c.op = "unmap", c.done = c.region.size
    PROVE  Layout(m, R, A, Idle, h)
<1>1. Idle.op = "none" /\ c.op # "none" /\ c.op # "map" /\ c.region \in Region
  BY DEF Idle, Call
<1>2. Looping(m, R, A, c)
  BY <1>1 DEF Layout
<1>3. \A v \in PagesOf(c.region) : GetPhysAdr(m, v) = NONE
  <2> TAKE v \in PagesOf(c.region)
  <2>1. PICK i \in 0..(c.region.size - 1) : v = c.region.at + i
    BY <1>1, RegionPages
  <2>2. i < c.done
    BY <1>1, <2>1, RegionPages
  <2> QED
    BY <1>1, <1>2, <2>1, <2>2 DEF Looping
<1>4. Vacant(m, R, A, Idle)
  BY <1>1, <1>3 DEF Layout, Vacant, CallPages
<1> QED
  BY <1>1, <1>4 DEF Layout

\* What a mapping that changes at v leaves of the layout.
LEMMA ElsewhereKept ==
    ASSUME NEW m, NEW n, NEW v \in VheapPages, OnlyAt(m, n, v), ~n.oom
    PROVE  /\ \A w \in VheapPages \ {v} : GetPhysAdr(n, w) = GetPhysAdr(m, w)
           /\ \A w \in HeapPages : GetPhysAdr(n, w) = GetPhysAdr(m, w)
           /\ \A w \in VheapPages :
                 GetPhysAdr(n, InfoPage(w)) = GetPhysAdr(m, InfoPage(w))
           /\ \A A, r : /\ r \in Region /\ Whole(m, A, r) /\ v \notin PagesOf(r)
                        => Whole(n, A, r)
<1>1. \A w \in VheapPages \ {v} : GetPhysAdr(n, w) = GetPhysAdr(m, w)
  BY PlaceFacts DEF OnlyAt
<1>2. \A w \in HeapPages : GetPhysAdr(n, w) = GetPhysAdr(m, w)
  BY PlaceFacts DEF OnlyAt
<1>3. \A w \in VheapPages : GetPhysAdr(n, InfoPage(w)) = GetPhysAdr(m, InfoPage(w))
  BY PlaceFacts DEF OnlyAt
<1>4. ASSUME NEW A, NEW r, r \in Region, Whole(m, A, r), v \notin PagesOf(r)
      PROVE  Whole(n, A, r)
  <2>1. \A i \in 0..(r.size - 1) : GetPhysAdr(n, r.at + i) = GetPhysAdr(m, r.at + i)
    <3> TAKE i \in 0..(r.size - 1)
    <3>1. r.at + i \in PagesOf(r)
      BY <1>4, RegionPages
    <3> QED
      BY <1>1, <1>4, <3>1 DEF Whole
  <2>2. r.at \in VheapPages
    BY <1>4, RegionPages
  <2> QED
    BY <1>3, <1>4, <2>1, <2>2 DEF Whole, Backed
<1> QED
  BY <1>1, <1>2, <1>3, <1>4

\* One page of a loop of vmalloc or map_io.
LEMMA LayoutMapNext ==
    ASSUME NEW m, NEW n, NEW R \in SUBSET Region, NEW A, NEW c \in Call, NEW h \in Nat,
           HeapStart <= h, Layout(m, R, A, c, h), c.op = "map", ~n.oom,
           OnlyAt(m, n, c.region.at + c.done), Backed(n, c.region, c.done)
    PROVE  IF c.done + 1 = c.region.size
           THEN Layout(n, R \cup {c.region}, A, Idle, h)
           ELSE Layout(n, R, A, [c EXCEPT !.done = @ + 1], h)
<1> DEFINE r == c.region
           v == r.at + c.done
           d == [c EXCEPT !.done = c.done + 1]
<1>1. /\ Idle.op = "none" /\ c.op # "none" /\ r \in Region /\ c.done \in Nat
      /\ d.op = c.op /\ d.region = r /\ d.done = c.done + 1
      /\ d = [c EXCEPT !.done = @ + 1]
  BY DEF Idle, Call
<1>2. /\ PagesOf(r) \subseteq VheapPages \ A
      /\ \A q \in R : PagesOf(q) \cap PagesOf(r) = {}
      /\ c.done < r.size
      /\ GetPhysAdr(m, InfoPage(r.at)) # NONE
      /\ r.io # NONE => \A i \in 0..(r.size - 1) : r.io + i \in Devices
      /\ \A i \in 0..(r.size - 1) :
            IF i < c.done THEN Backed(m, r, i) ELSE GetPhysAdr(m, r.at + i) = NONE
  BY <1>1 DEF Layout, Looping
<1>3. /\ r.size \in Nat \ {0} /\ r.at \in Nat /\ r.at \in VheapPages
      /\ c.done \in 0..(r.size - 1)
      /\ v \in PagesOf(r) /\ v \in VheapPages
      /\ \A i \in 0..(r.size - 1) : r.at + i \in PagesOf(r)
  BY <1>1, <1>2, RegionPages
<1>4. OnlyAt(m, n, v) /\ Backed(n, r, c.done)
  OBVIOUS
<1>v. v = r.at + c.done
  OBVIOUS
<1> HIDE DEF r, d, v
<1>5. /\ \A w \in VheapPages \ {v} : GetPhysAdr(n, w) = GetPhysAdr(m, w)
      /\ \A w \in HeapPages : GetPhysAdr(n, w) = GetPhysAdr(m, w)
      /\ GetPhysAdr(n, InfoPage(r.at)) # NONE
      /\ \A q \in R : Whole(n, A, q)
  BY <1>2, <1>3, <1>4, ElsewhereKept DEF Layout
<1>6. \A i \in 0..(r.size - 1) :
         IF i < c.done + 1 THEN Backed(n, r, i) ELSE GetPhysAdr(n, r.at + i) = NONE
  <2> TAKE i \in 0..(r.size - 1)
  <2>1. CASE i = c.done
    BY <1>1, <1>4, <2>1
  <2>2. CASE i # c.done
    <3>1. r.at + i \in VheapPages \ {v}
      BY <1>1, <1>2, <1>3, <1>v, <2>2
    <3>2. GetPhysAdr(n, r.at + i) = GetPhysAdr(m, r.at + i)
      BY <1>5, <3>1
    <3>3. i < c.done + 1 <=> i < c.done
      BY <1>1, <2>2
    <3> QED
      BY <1>2, <3>2, <3>3 DEF Backed
  <2> QED
    BY <2>1, <2>2
<1>7. \A w \in h..(HeapMax - 1) : GetPhysAdr(n, w) = NONE
  <2>1. \A w \in h..(HeapMax - 1) : w \in HeapPages
    BY PageTablesAssumption DEF HeapPages
  <2> QED
    BY <1>5, <2>1 DEF Layout
<1>8. \A w \in VheapPages \ A :
         (\A q \in R : w \notin PagesOf(q)) /\ w \notin PagesOf(r)
         => GetPhysAdr(n, w) = NONE
  BY <1>1, <1>3, <1>5 DEF Layout, Vacant, CallPages, r
<1>9. CASE c.done + 1 = r.size
  <2>1. Whole(n, A, r)
    BY <1>1, <1>2, <1>5, <1>6, <1>9 DEF Whole
  <2>2. Vacant(n, R \cup {r}, A, Idle)
    BY <1>8 DEF Vacant
  <2>3. \A p, q \in R \cup {r} : p # q => PagesOf(p) \cap PagesOf(q) = {}
    BY <1>2 DEF Layout
  <2>4. Layout(n, R \cup {r}, A, Idle, h)
    BY <1>1, <1>5, <1>7, <2>1, <2>2, <2>3 DEF Layout
  <2> QED
    BY <1>9, <2>4 DEF r
<1>10. CASE c.done + 1 # r.size
  <2>1. Looping(n, R, A, d)
    BY <1>1, <1>2, <1>3, <1>5, <1>6, <1>10 DEF Looping
  <2>2. Vacant(n, R, A, d)
    BY <1>1, <1>8 DEF Vacant, CallPages
  <2>3. Layout(n, R, A, d, h)
    BY <1>1, <1>5, <1>7, <2>1, <2>2 DEF Layout
  <2> QED
    BY <1>1, <1>10, <2>3 DEF r
<1> QED
  BY <1>9, <1>10

\* One page of a loop of vfree or unmap_io.
LEMMA LayoutUnmapNext ==
    ASSUME NEW m, NEW n, NEW R \in SUBSET Region, NEW A, NEW c \in Call, NEW h \in Nat,
           HeapStart <= h, Layout(m, R, A, c, h), c.op = "unmap", ~n.oom,
           c.done < c.region.size,
           OnlyAt(m, n, c.region.at + c.done),
           GetPhysAdr(n, c.region.at + c.done) = NONE
    PROVE  Layout(n, R, A, [c EXCEPT !.done = @ + 1], h)
<1> DEFINE r == c.region
           v == r.at + c.done
           d == [c EXCEPT !.done = c.done + 1]
<1>1. /\ c.op # "none" /\ c.op # "map" /\ r \in Region /\ c.done \in Nat
      /\ d.op = c.op /\ d.region = r /\ d.done = c.done + 1
      /\ d = [c EXCEPT !.done = @ + 1]
  BY DEF Call
<1>2. /\ PagesOf(r) \subseteq VheapPages \ A
      /\ \A q \in R : PagesOf(q) \cap PagesOf(r) = {}
      /\ \A i \in 0..(r.size - 1) :
            IF i < c.done THEN GetPhysAdr(m, r.at + i) = NONE ELSE Backed(m, r, i)
  BY <1>1 DEF Layout, Looping
<1>3. /\ r.size \in Nat \ {0} /\ r.at \in Nat
      /\ c.done \in 0..(r.size - 1)
      /\ v \in PagesOf(r) /\ v \in VheapPages
      /\ \A i \in 0..(r.size - 1) : r.at + i \in PagesOf(r)
  BY <1>1, <1>2, RegionPages
<1>4. OnlyAt(m, n, v) /\ GetPhysAdr(n, v) = NONE
  OBVIOUS
<1>v. v = r.at + c.done
  OBVIOUS
<1> HIDE DEF r, d, v
<1>5. /\ \A w \in VheapPages \ {v} : GetPhysAdr(n, w) = GetPhysAdr(m, w)
      /\ \A w \in HeapPages : GetPhysAdr(n, w) = GetPhysAdr(m, w)
      /\ \A q \in R : Whole(n, A, q)
  BY <1>2, <1>3, <1>4, ElsewhereKept DEF Layout
<1>6. \A i \in 0..(r.size - 1) :
         IF i < c.done + 1 THEN GetPhysAdr(n, r.at + i) = NONE ELSE Backed(n, r, i)
  <2> TAKE i \in 0..(r.size - 1)
  <2>1. CASE i = c.done
    BY <1>1, <1>4, <1>v, <2>1
  <2>2. CASE i # c.done
    <3>1. r.at + i \in VheapPages \ {v}
      BY <1>1, <1>2, <1>3, <1>v, <2>2
    <3>2. GetPhysAdr(n, r.at + i) = GetPhysAdr(m, r.at + i)
      BY <1>5, <3>1
    <3>3. i < c.done + 1 <=> i < c.done
      BY <1>1, <2>2
    <3> QED
      BY <1>2, <3>2, <3>3 DEF Backed
  <2> QED
    BY <2>1, <2>2
<1>7. \A w \in h..(HeapMax - 1) : GetPhysAdr(n, w) = NONE
  <2>1. \A w \in h..(HeapMax - 1) : w \in HeapPages
    BY PageTablesAssumption DEF HeapPages
  <2> QED
    BY <1>5, <2>1 DEF Layout
<1>8. Vacant(n, R, A, d)
  BY <1>1, <1>3, <1>5 DEF Layout, Vacant, CallPages, r
<1>9. Looping(n, R, A, d)
  BY <1>1, <1>2, <1>6 DEF Looping
<1>10. Layout(n, R, A, d, h)
  BY <1>5, <1>7, <1>8, <1>9 DEF Layout
<1> QED
  BY <1>1, <1>10

\* cache_grow's page.
LEMMA LayoutGrow ==
    ASSUME NEW m, NEW n, NEW R \in SUBSET Region, NEW A, NEW c \in Call, NEW h \in Nat,
           HeapStart <= h, h < HeapMax, Layout(m, R, A, c, h), OnlyAt(m, n, h), ~n.oom
    PROVE  Layout(n, R, A, c, h + 1)
<1>1. h \in HeapPages /\ HeapMax \in Nat
  BY PageTablesAssumption DEF HeapPages
<1>2. Layout(m, R, A, c, h + 1)
  BY <1>1 DEF Layout
<1>3. \A w \in Address \ {h} : GetPhysAdr(n, w) = GetPhysAdr(m, w)
  BY DEF OnlyAt
\* h itself is no page that the layout with h + 1 tells anything about.
<1>4. \A v \in VheapPages : GetPhysAdr(n, v) = GetPhysAdr(m, v)
  BY <1>1, <1>3, PlaceFacts
<1>5. \A v \in InfoPages : GetPhysAdr(n, v) = GetPhysAdr(m, v)
  BY <1>1, <1>3, PlaceFacts
<1>6. ASSUME NEW r \in Region, PagesOf(r) \subseteq VheapPages
      PROVE  /\ \A i \in 0..(r.size - 1) :
                   /\ GetPhysAdr(n, r.at + i) = GetPhysAdr(m, r.at + i)
                   /\ Backed(n, r, i) <=> Backed(m, r, i)
             /\ GetPhysAdr(n, InfoPage(r.at)) = GetPhysAdr(m, InfoPage(r.at))
  <2>1. \A i \in 0..(r.size - 1) : GetPhysAdr(n, r.at + i) = GetPhysAdr(m, r.at + i)
    BY <1>4, <1>6, RegionPages
  <2>2. InfoPage(r.at) \in InfoPages
    BY RegionPages, PlaceFacts
  <2> QED
    BY <1>5, <2>1, <2>2 DEF Backed
<1>7. Vacant(n, R, A, c)
  BY <1>4 DEF Layout, Vacant
<1>8. \A r \in R : Whole(n, A, r)
  <2> TAKE r \in R
  <2>1. r \in Region /\ Whole(m, A, r) /\ PagesOf(r) \subseteq VheapPages
    BY DEF Layout, Whole
  <2> QED
    BY <1>6, <2>1 DEF Whole
<1>9. ASSUME c.op # "none" PROVE Looping(n, R, A, c)
  <2>1. /\ c.region \in Region /\ Looping(m, R, A, c)
        /\ PagesOf(c.region) \subseteq VheapPages
    BY <1>9 DEF Layout, Looping, Call
  <2>2. /\ \A i \in 0..(c.region.size - 1) :
              /\ GetPhysAdr(n, c.region.at + i) = GetPhysAdr(m, c.region.at + i)
              /\ Backed(n, c.region, i) <=> Backed(m, c.region, i)
        /\ GetPhysAdr(n, InfoPage(c.region.at)) = GetPhysAdr(m, InfoPage(c.region.at))
    BY <1>6, <2>1
  <2> QED
    BY <2>1, <2>2 DEF Looping
<1>10. \A v \in (h + 1)..(HeapMax - 1) : GetPhysAdr(n, v) = GetPhysAdr(m, v)
  <2>1. \A v \in (h + 1)..(HeapMax - 1) : v \in HeapPages /\ v # h
    BY <1>1, PageTablesAssumption DEF HeapPages
  <2> QED
    BY <1>3, <2>1, PlaceFacts
<1> QED
  BY <1>2, <1>7, <1>8, <1>9, <1>10 DEF Layout

-----------------------------------------------------------------------------
(* The invariant *)

\* The part of TypeOK that is not about the memory.
CallTypes ==
    /\ heap_end \in HeapStart..HeapMax
    /\ regions \subseteq Region
    /\ abandoned \subseteq VheapPages
    /\ call \in Call
    /\ DOMAIN directory \subseteq Tasks
    /\ \A t \in DOMAIN directory : directory[t] \in Frames

Inv ==
    /\ CallTypes
    /\ Sound(State, DirectoryPages)
    /\ ~exhausted => Layout(State, regions, abandoned, call, heap_end)

\* The invariant has the types in it.
LEMMA InvTypes == Inv => TypeOK
<1> SUFFICES ASSUME Inv PROVE TypeOK
  OBVIOUS
<1>1. State \in MState
  BY DEF Inv, Sound
<1> QED
  BY <1>1 DEF Inv, CallTypes, State, MState, TypeOK

\* The record is the state of the memory.
LEMMA BecomesState ==
    ASSUME NEW r \in MState, Becomes(r)
    PROVE  State' = r /\ exhausted' = r.oom
  BY DEF Becomes, State, MState

\* A step that ends in the memory r.
LEMMA Stepped ==
    ASSUME NEW r, Becomes(r), CallTypes', Sound(r, DirectoryPages'),
           ~r.oom => Layout(r, regions', abandoned', call', heap_end')
    PROVE  Inv'
<1>1. r \in MState
  BY DEF Sound
<1>2. State' = r /\ exhausted' = r.oom
  BY <1>1, BecomesState
<1> QED
  BY <1>2 DEF Inv

\* What a step can start from.
LEMMA InvFacts ==
    ASSUME Inv, ~exhausted
    PROVE  /\ State \in MState /\ State.oom = FALSE
           /\ State.free = free /\ State.lost = lost
           /\ Sound(State, DirectoryPages)
           /\ Layout(State, regions, abandoned, call, heap_end)
           /\ regions \in SUBSET Region /\ call \in Call
           /\ heap_end \in Nat /\ HeapStart <= heap_end /\ heap_end <= HeapMax
           /\ Idle \in Call /\ Idle.op = "none"
<1>1. State.oom = FALSE /\ State.free = free /\ State.lost = lost
  <2>1. State.oom = exhausted /\ State.free = free /\ State.lost = lost
    BY DEF State
  <2>2. exhausted \in BOOLEAN
    BY InvTypes DEF TypeOK
  <2> QED
    BY <2>1, <2>2
<1>2. heap_end \in Nat /\ HeapStart <= heap_end /\ heap_end <= HeapMax
  BY PageTablesAssumption DEF Inv, CallTypes
<1>3. Idle \in Call /\ Idle.op = "none"
  <2>1. VheapStart \in VheapPages
    BY PageTablesAssumption DEF VheapPages
  <2> QED
    BY <2>1 DEF Idle, Call, Region
<1> QED
  BY <1>1, <1>2, <1>3 DEF Inv, CallTypes, Sound

\* vmalloc and map_io begin.
LEMMA StartMappingKeeps ==
    ASSUME Inv, NEW r \in Region, NEW end \in VheapPages, StartMapping(r, end)
    PROVE  Inv'
<1>1. /\ ~exhausted /\ call = Idle
      /\ r.at + r.size - 1 <= end
      /\ r.io # NONE => \A i \in 0..(r.size - 1) : r.io + i \in Devices
      /\ \A v \in r.at..end : Unheld(v)
      /\ UNCHANGED <<heap_end, regions, abandoned, directory>>
  BY DEF StartMapping
<1> DEFINE tagged == TagRegion(State, r, end)
           begun == [op |-> "map", region |-> r, done |-> 0]
<1>2. /\ Becomes(tagged.m)
      /\ call' = IF tagged.ok THEN begun ELSE Idle
  BY DEF StartMapping
<1>3. /\ Sound(State, DirectoryPages)
      /\ Layout(State, regions, abandoned, Idle, heap_end)
      /\ regions \in SUBSET Region
      /\ heap_end \in Nat /\ HeapStart <= heap_end
      /\ Idle \in Call
  BY <1>1, InvFacts
<1>4. /\ Tagged(State, tagged.m, DirectoryPages)
      /\ tagged.ok /\ ~tagged.m.oom => GetPhysAdr(tagged.m, InfoPage(r.at)) # NONE
  BY <1>1, <1>3, RegionTagsSound
<1>5. begun \in Call
  BY DEF Call
<1>6. begun = [op |-> "map", region |-> r, done |-> 0]
  OBVIOUS
<1> HIDE DEF tagged, begun
<1>7. CallTypes'
  BY <1>1, <1>2, <1>3, <1>5 DEF Inv, CallTypes
<1>8. Sound(tagged.m, DirectoryPages')
  <2>1. DirectoryPages' = DirectoryPages
    BY <1>1 DEF DirectoryPages
  <2> QED
    BY <1>4, <2>1 DEF Tagged
<1>9. ASSUME ~tagged.m.oom
      PROVE  Layout(tagged.m, regions', abandoned', call', heap_end')
  <2>1. Layout(tagged.m, regions, abandoned, Idle, heap_end)
    BY <1>3, <1>4, <1>9, LayoutTagged
  <2>2. ASSUME NEW v \in PagesOf(r)
        PROVE  v \in VheapPages \ abandoned /\ \A q \in regions : v \notin PagesOf(q)
    <3>1. end \in Nat /\ r.at \in Nat /\ r.size \in Nat \ {0}
      BY RegionPages, PlaceFacts DEF Address
    <3>2. v \in r.at..end
      BY <1>1, <2>2, <3>1 DEF PagesOf
    <3> QED
      BY <1>1, <3>2 DEF Unheld
  <2>3. /\ PagesOf(r) \subseteq VheapPages \ abandoned
        /\ \A q \in regions : PagesOf(q) \cap PagesOf(r) = {}
    BY <2>2
  <2>4. CASE tagged.ok
    <3>1. GetPhysAdr(tagged.m, InfoPage(r.at)) # NONE
      BY <1>4, <1>9, <2>4
    <3>2. Layout(tagged.m, regions, abandoned, begun, heap_end)
      BY <1>1, <1>3, <1>6, <2>1, <2>3, <3>1, LayoutStart
    <3> QED
      BY <1>1, <1>2, <2>4, <3>2
  <2>5. CASE ~tagged.ok
    BY <1>1, <1>2, <2>1, <2>5
  <2> QED
    BY <2>4, <2>5
<1> QED
  BY <1>2, <1>7, <1>8, <1>9, Stepped

\* A page of vmalloc or of map_io.
LEMMA MapNextKeeps ==
    ASSUME Inv, MapNext
    PROVE  Inv'
<1> DEFINE r == call.region
           v == r.at + call.done
           n == IF r.io = NONE THEN MapNewPage(State, v)
                ELSE MapPage(State, r.io + call.done, v)
<1>1. /\ ~exhausted /\ call.op = "map"
      /\ Becomes(n)
      /\ IF call.done + 1 = r.size
         THEN call' = Idle /\ regions' = regions \cup {r}
         ELSE call' = [call EXCEPT !.done = @ + 1] /\ UNCHANGED regions
      /\ UNCHANGED <<heap_end, abandoned, directory>>
  BY DEF MapNext
<1>2. /\ Sound(State, DirectoryPages) /\ State \in MState /\ State.oom = FALSE
      /\ Layout(State, regions, abandoned, call, heap_end)
      /\ regions \in SUBSET Region /\ call \in Call
      /\ heap_end \in Nat /\ HeapStart <= heap_end
      /\ Idle \in Call
  BY <1>1, InvFacts
<1>3. Looping(State, regions, abandoned, call)
  BY <1>1, <1>2 DEF Layout
<1>4. r \in Region /\ call.done \in Nat /\ r.size \in Nat \ {0}
  BY <1>2, RegionPages DEF Call
<1>5. /\ call.done \in 0..(r.size - 1)
      /\ PagesOf(r) \subseteq VheapPages
      /\ r.io # NONE => r.io + call.done \in Devices
      /\ GetPhysAdr(State, v) = NONE
  BY <1>1, <1>3, <1>4 DEF Looping
<1>6. v \in VheapPages /\ v \in Address
  BY <1>4, <1>5, RegionPages, PlaceFacts
<1>7. Sound(n, DirectoryPages) /\ OnlyAt(State, n, v) /\ (~n.oom => Backed(n, r, call.done))
  <2>1. CASE r.io = NONE
    <3> DEFINE q == MapNewPage(State, v)
    <3>1. /\ Sound(q, DirectoryPages) /\ OnlyAt(State, q, v)
          /\ ~q.oom => GetPhysAdr(q, v) \in Frames
      BY <1>2, <1>5, <1>6, MapNewSound
    <3>2. n = q
      BY <2>1
    <3> HIDE DEF q, n
    <3> QED
      BY <2>1, <3>1, <3>2 DEF Backed
  <2>2. CASE r.io # NONE
    <3> DEFINE phys == r.io + call.done
               q == MapPage(State, phys, v)
    <3>1. phys \in Devices /\ phys \in Entry /\ phys \notin Frames
      BY <1>5, <2>2, ConstantFacts DEF Entry
    <3>2. DirectoryPages \cup ({phys} \cap Frames) = DirectoryPages
      BY <3>1
    <3>3. phys \notin DirectoryPages
      <4>1. DirectoryPages \subseteq Frames
        BY DEF Inv, CallTypes, DirectoryPages
      <4> QED
        BY <3>1, <4>1
    <3>a. phys = r.io + call.done
      OBVIOUS
    <3> HIDE DEF phys
    <3>4. Sound(State, DirectoryPages \cup ({phys} \cap Frames))
      BY <1>2, <3>2
    <3>5. /\ Sound(q, DirectoryPages) /\ OnlyAt(State, q, v)
          /\ GetPhysAdr(q, v) = phys
      BY <1>5, <1>6, <3>1, <3>3, <3>4, MapSound
    <3>6. n = q
      BY <2>2, <3>a
    <3> HIDE DEF q, n
    <3> QED
      BY <2>2, <3>1, <3>a, <3>5, <3>6 DEF Backed
  <2> QED
    BY <2>1, <2>2
<1> HIDE DEF n
<1>8. CallTypes'
  <2>1. call' \in Call
    BY <1>1, <1>2, <1>4 DEF Call
  <2>2. regions' \subseteq Region
    BY <1>1, <1>2, <1>4
  <2> QED
    BY <1>1, <2>1, <2>2 DEF Inv, CallTypes
<1>9. Sound(n, DirectoryPages')
  <2>1. DirectoryPages' = DirectoryPages
    BY <1>1 DEF DirectoryPages
  <2> QED
    BY <1>7, <2>1
<1>10. ASSUME ~n.oom
       PROVE  Layout(n, regions', abandoned', call', heap_end')
  <2>1. IF call.done + 1 = call.region.size
        THEN Layout(n, regions \cup {call.region}, abandoned, Idle, heap_end)
        ELSE Layout(n, regions, abandoned, [call EXCEPT !.done = @ + 1], heap_end)
    <3>1. /\ OnlyAt(State, n, call.region.at + call.done)
          /\ Backed(n, call.region, call.done)
      BY <1>7, <1>10
    <3> QED
      BY <1>1, <1>2, <1>10, <3>1, LayoutMapNext
  <2> QED
    BY <1>1, <2>1
<1> QED
  BY <1>1, <1>8, <1>9, <1>10, Stepped

\* A memory that does not change.
LEMMA StateBecomes ==
    ASSUME UNCHANGED <<page_dir, memory, mount_table, free, lost, exhausted>>
    PROVE  Becomes(State)
  BY DEF Becomes, State

\* vmalloc gives up.
LEMMA VmallocFailsKeeps ==
    ASSUME Inv, VmallocFails
    PROVE  Inv'
<1>1. /\ ~exhausted /\ call.op = "map"
      /\ abandoned' = abandoned \cup PagesOf(call.region)
      /\ call' = Idle
      /\ UNCHANGED <<page_dir, memory, mount_table, free, lost, exhausted,
                     heap_end, regions, directory>>
  BY DEF VmallocFails
<1>2. /\ Sound(State, DirectoryPages)
      /\ Layout(State, regions, abandoned, call, heap_end)
      /\ regions \in SUBSET Region /\ call \in Call
      /\ Idle \in Call
  BY <1>1, InvFacts
<1>3. /\ Layout(State, regions, abandoned \cup PagesOf(call.region), Idle, heap_end)
      /\ PagesOf(call.region) \subseteq VheapPages
  BY <1>1, <1>2, LayoutAbandon
<1>4. Becomes(State)
  BY <1>1, StateBecomes
<1>5. CallTypes' /\ DirectoryPages' = DirectoryPages
  BY <1>1, <1>2, <1>3 DEF Inv, CallTypes, DirectoryPages
<1>6. Sound(State, DirectoryPages') /\ Layout(State, regions', abandoned', call', heap_end')
  BY <1>1, <1>2, <1>3, <1>5
<1> HIDE DEF State
<1> QED
  BY <1>4, <1>5, <1>6, Stepped

\* vfree and unmap_io begin.
LEMMA StartUnmappingKeeps ==
    ASSUME Inv, NEW r \in regions, StartUnmapping(r)
    PROVE  Inv'
<1> DEFINE begun == [op |-> "unmap", region |-> r, done |-> 0]
<1>1. /\ ~exhausted /\ call = Idle
      /\ regions' = regions \ {r}
      /\ call' = begun
      /\ UNCHANGED <<page_dir, memory, mount_table, free, lost, exhausted,
                     heap_end, abandoned, directory>>
  BY DEF StartUnmapping
<1>2. /\ Sound(State, DirectoryPages)
      /\ Layout(State, regions, abandoned, Idle, heap_end)
      /\ regions \in SUBSET Region
  BY <1>1, InvFacts
<1>3. Layout(State, regions \ {r}, abandoned, begun, heap_end)
  BY <1>2, LayoutGive
<1>4. begun \in Call
  BY <1>2 DEF Call
<1> HIDE DEF begun
<1>5. Becomes(State)
  BY <1>1, StateBecomes
<1>6. CallTypes' /\ DirectoryPages' = DirectoryPages
  BY <1>1, <1>2, <1>4 DEF Inv, CallTypes, DirectoryPages
<1>7. Sound(State, DirectoryPages') /\ Layout(State, regions', abandoned', call', heap_end')
  BY <1>1, <1>2, <1>3, <1>6
<1> QED
  BY <1>5, <1>6, <1>7, Stepped

\* A page of vfree or of unmap_io.
LEMMA UnmapNextKeeps ==
    ASSUME Inv, UnmapNext
    PROVE  Inv'
<1> DEFINE r == call.region
           v == r.at + call.done
           phys == GetPhysAdr(State, v)
           n == UnmapPage(IF r.io = NONE
                          THEN [State EXCEPT !.free = @ \cup {phys}]
                          ELSE State, v)
<1>1. /\ ~exhausted /\ call.op = "unmap" /\ call.done < r.size
      /\ phys # NONE
      /\ Becomes(n)
      /\ call' = [call EXCEPT !.done = @ + 1]
      /\ UNCHANGED <<heap_end, regions, abandoned, directory>>
  BY DEF UnmapNext
<1>2. /\ Sound(State, DirectoryPages) /\ State \in MState /\ State.oom = FALSE
      /\ Layout(State, regions, abandoned, call, heap_end)
      /\ regions \in SUBSET Region /\ call \in Call
      /\ heap_end \in Nat /\ HeapStart <= heap_end
  BY <1>1, InvFacts
<1>3. Looping(State, regions, abandoned, call)
  BY <1>1, <1>2 DEF Layout
<1>4. r \in Region /\ call.done \in Nat /\ r.size \in Nat \ {0}
  BY <1>2, RegionPages DEF Call
<1>5. /\ call.done \in 0..(r.size - 1)
      /\ PagesOf(r) \subseteq VheapPages
      /\ Backed(State, r, call.done)
  BY <1>1, <1>3, <1>4 DEF Looping
<1>6. v \in VheapPages /\ v \in Address
  BY <1>4, <1>5, RegionPages, PlaceFacts
<1>7. Sound(n, DirectoryPages) /\ OnlyAt(State, n, v) /\ GetPhysAdr(n, v) = NONE
  <2>1. CASE r.io = NONE
    <3> DEFINE q == UnmapPage([State EXCEPT !.free = @ \cup {GetPhysAdr(State, v)}], v)
    <3>1. phys \in Frames
      BY <1>5, <2>1 DEF Backed
    <3>2. /\ Sound(q, DirectoryPages) /\ OnlyAt(State, q, v)
          /\ GetPhysAdr(q, v) = NONE
      BY <1>2, <1>6, <3>1, FreeSound
    <3>3. n = q
      BY <2>1
    <3> HIDE DEF q, n
    <3> QED
      BY <3>2, <3>3
  <2>2. CASE r.io # NONE
    <3> DEFINE q == UnmapPage(State, v)
    <3>1. phys \notin Frames
      BY <1>5, <2>2, ConstantFacts DEF Backed
    <3>2. DirectoryPages \cup ({phys} \cap Frames) = DirectoryPages
      BY <3>1
    <3>3. State.dir[Dir(v)] # NONE
      BY <1>1 DEF GetPhysAdr
    <3>4. /\ Sound(q, DirectoryPages \cup ({phys} \cap Frames))
          /\ OnlyAt(State, q, v) /\ GetPhysAdr(q, v) = NONE
      BY <1>1, <1>2, <1>6, <3>3, UnmapSound
    <3>5. n = q
      BY <2>2
    <3> HIDE DEF q, n
    <3> QED
      BY <3>2, <3>4, <3>5
  <2> QED
    BY <2>1, <2>2
<1> HIDE DEF n
<1>8. CallTypes' /\ DirectoryPages' = DirectoryPages
  <2>1. call' \in Call
    BY <1>1, <1>2, <1>4 DEF Call
  <2> QED
    BY <1>1, <2>1 DEF Inv, CallTypes, DirectoryPages
<1>9. ASSUME ~n.oom
      PROVE  Layout(n, regions', abandoned', call', heap_end')
  <2>1. Layout(n, regions, abandoned, [call EXCEPT !.done = @ + 1], heap_end)
    <3>1. /\ OnlyAt(State, n, call.region.at + call.done)
          /\ GetPhysAdr(n, call.region.at + call.done) = NONE
          /\ call.done < call.region.size
      BY <1>1, <1>7
    <3> QED
      BY <1>1, <1>2, <1>9, <3>1, LayoutUnmapNext
  <2> QED
    BY <1>1, <2>1
<1> QED
  BY <1>1, <1>7, <1>8, <1>9, Stepped

\* vregion_free at the end of vfree and unmap_io.
LEMMA ReturnRegionKeeps ==
    ASSUME Inv, NEW first \in VheapPages, NEW last \in VheapPages,
           ReturnRegion(first, last)
    PROVE  Inv'
<1> DEFINE n == TagFree(State, first, last)
<1>1. /\ ~exhausted /\ call.op = "unmap" /\ call.done = call.region.size
      /\ Becomes(n)
      /\ call' = Idle
      /\ UNCHANGED <<heap_end, regions, abandoned, directory>>
  BY DEF ReturnRegion
<1>2. /\ Sound(State, DirectoryPages)
      /\ Layout(State, regions, abandoned, call, heap_end)
      /\ regions \in SUBSET Region /\ call \in Call
      /\ heap_end \in Nat /\ HeapStart <= heap_end
      /\ Idle \in Call
  BY <1>1, InvFacts
<1>3. Layout(State, regions, abandoned, Idle, heap_end)
  BY <1>1, <1>2, LayoutReturn
<1>4. Tagged(State, n, DirectoryPages)
  BY <1>2, FreeTagsSound
<1> HIDE DEF n
<1>5. ASSUME ~n.oom PROVE Layout(n, regions, abandoned, Idle, heap_end)
  BY <1>2, <1>3, <1>4, <1>5, LayoutTagged
<1>6. CallTypes' /\ DirectoryPages' = DirectoryPages
  BY <1>1, <1>2 DEF Inv, CallTypes, DirectoryPages
<1>7. Sound(n, DirectoryPages')
  BY <1>4, <1>6 DEF Tagged
<1>8. ~n.oom => Layout(n, regions', abandoned', call', heap_end')
  BY <1>1, <1>5
<1> QED
  BY <1>1, <1>6, <1>7, <1>8, Stepped

\* cache_grow.
LEMMA GrowHeapKeeps ==
    ASSUME Inv, GrowHeap
    PROVE  Inv'
<1> DEFINE mapped == MapNewPage(State, heap_end)
           info == InfoPage(heap_end)
           told == MapNewPage(mapped, info)
           n == IF free = {} THEN State
                ELSE IF GetPhysAdr(mapped, info) # NONE \/ mapped.free = {}
                THEN mapped
                ELSE told
<1>1. /\ ~exhausted /\ heap_end < HeapMax /\ heap_end' = heap_end + 1
      /\ Becomes(n)
      /\ UNCHANGED <<regions, abandoned, call, directory>>
  BY DEF GrowHeap
<1>2. /\ Sound(State, DirectoryPages) /\ State.oom = FALSE
      /\ Layout(State, regions, abandoned, call, heap_end)
      /\ regions \in SUBSET Region /\ call \in Call
      /\ heap_end \in Nat /\ HeapStart <= heap_end
  BY <1>1, InvFacts
<1>3. heap_end \in HeapPages /\ heap_end \in heap_end..(HeapMax - 1) /\ HeapMax \in Nat
  BY <1>1, <1>2, PageTablesAssumption DEF HeapPages
<1>4. heap_end \in Address /\ info \in Address /\ info \in InfoPages
  BY <1>3, PlaceFacts
<1>5. GetPhysAdr(State, heap_end) = NONE
  BY <1>2, <1>3 DEF Layout
<1>6. Sound(mapped, DirectoryPages) /\ OnlyAt(State, mapped, heap_end)
  BY <1>2, <1>4, <1>5, MapNewSound
<1> HIDE DEF info, mapped
<1>7. ASSUME ~mapped.oom
      PROVE  Layout(mapped, regions, abandoned, call, heap_end + 1)
  BY <1>1, <1>2, <1>6, <1>7, LayoutGrow
<1>8. ASSUME GetPhysAdr(mapped, info) = NONE
      PROVE  Sound(told, DirectoryPages) /\ OnlyAt(mapped, told, info)
  BY <1>4, <1>6, <1>8, MapNewSound
<1>9. ASSUME GetPhysAdr(mapped, info) = NONE, ~told.oom
      PROVE  Layout(told, regions, abandoned, call, heap_end + 1)
  <2>1. ~mapped.oom /\ \A w \in Address \ {info} :
                          GetPhysAdr(told, w) = GetPhysAdr(mapped, w)
    BY <1>8, <1>9 DEF OnlyAt
  <2> HIDE DEF told
  <2>2. \A w \in Address : w \notin InfoPages => GetPhysAdr(told, w) = GetPhysAdr(mapped, w)
    BY <1>4, <2>1
  <2>3. \A w \in InfoPages : GetPhysAdr(mapped, w) # NONE => GetPhysAdr(told, w) # NONE
    BY <1>9, <2>1, PlaceFacts
  <2>4. Layout(mapped, regions, abandoned, call, heap_end + 1)
    BY <1>7, <2>1
  <2>5. heap_end + 1 \in Nat /\ HeapStart <= heap_end + 1
    BY <1>2, PageTablesAssumption
  <2> QED
    BY <1>2, <2>2, <2>3, <2>4, <2>5, LayoutKept
<1> HIDE DEF told
<1>10. Layout(State, regions, abandoned, call, heap_end + 1)
  BY <1>2, <1>3 DEF Layout
<1>11. Sound(n, DirectoryPages)
  BY <1>2, <1>6, <1>8
<1>12. ~n.oom => Layout(n, regions, abandoned, call, heap_end + 1)
  BY <1>7, <1>9, <1>10
<1> HIDE DEF n
<1>13. CallTypes' /\ DirectoryPages' = DirectoryPages
  <2>1. heap_end + 1 \in HeapStart..HeapMax
    BY <1>1, <1>2, PageTablesAssumption
  <2> QED
    BY <1>1, <2>1 DEF Inv, CallTypes, DirectoryPages
<1>14. /\ Sound(n, DirectoryPages')
       /\ ~n.oom => Layout(n, regions', abandoned', call', heap_end')
  BY <1>1, <1>11, <1>12, <1>13
<1> QED
  BY <1>1, <1>13, <1>14, Stepped

\* create_task.
LEMMA CreateTaskKeeps ==
    ASSUME Inv, NEW t \in Tasks, NEW v \in VheapPages, NEW end \in VheapPages,
           NEW first \in VheapPages, NEW last \in VheapPages,
           CreateTask(t, v, end, first, last)
    PROVE  Inv'
<1> DEFINE page == AllocPage(State)
           taken == Take(State)
           r == [at |-> v, size |-> 1, io |-> NONE]
           tagged == TagRegion(taken, r, end)
           mapped == MapPage(tagged.m, page, v)
           back == UnmapPage(mapped, v)
           n == IF tagged.ok THEN TagFree(back, first, last)
                ELSE [tagged.m EXCEPT !.oom = TRUE]
           hands == DirectoryPages \cup {page}
<1>1. /\ ~exhausted /\ call = Idle
      /\ t \notin DOMAIN directory /\ free # {}
      /\ v \in v..end
      /\ \A w \in (v..end) \cup (first..last) : Unheld(w)
      /\ Becomes(n)
      /\ directory' = [u \in DOMAIN directory \cup {t} |->
                         IF u = t THEN page ELSE directory[u]]
      /\ UNCHANGED <<heap_end, regions, abandoned, call>>
  BY DEF CreateTask
<1>2. /\ Sound(State, DirectoryPages) /\ State.oom = FALSE /\ State.free = free
      /\ Layout(State, regions, abandoned, call, heap_end)
      /\ regions \in SUBSET Region /\ call \in Call /\ call.op = "none"
      /\ heap_end \in Nat /\ HeapStart <= heap_end
  BY <1>1, InvFacts
<1>3. v \in Address /\ v \notin InfoPages /\ v \in Nat /\ end \in Nat
  BY PlaceFacts DEF Address
<1>4. /\ Sound(taken, hands) /\ OnlyAt(State, taken, NONE)
      /\ page \in Entry
      /\ ~taken.oom
      /\ page \in Frames /\ page \notin DirectoryPages
  BY <1>1, <1>2, TakeSound
<1>5. r \in Region /\ r.at + r.size - 1 <= end
  BY <1>1, <1>3 DEF Region
<1> HIDE DEF page, taken, r, hands
<1>6. Tagged(taken, tagged.m, hands) /\ Sound(tagged.m, hands)
  BY <1>4, <1>5, RegionTagsSound DEF Tagged
<1>a. NONE \notin Address
  BY DEF Address, NONE
<1>7. GetPhysAdr(State, v) = NONE
  <2>1. v \in VheapPages \ abandoned /\ \A q \in regions : v \notin PagesOf(q)
    BY <1>1 DEF Unheld
  <2>2. CallPages(call) = {}
    BY <1>2 DEF CallPages
  <2> QED
    BY <1>2, <2>1, <2>2 DEF Layout, Vacant
<1>8. \A w \in Address : GetPhysAdr(taken, w) = GetPhysAdr(State, w)
  BY <1>4, <1>a DEF OnlyAt
<1> HIDE DEF tagged
<1>9. ~tagged.m.oom => GetPhysAdr(tagged.m, v) = NONE
  BY <1>3, <1>6, <1>7, <1>8 DEF Tagged
<1>10. hands = DirectoryPages \cup ({page} \cap Frames)
  BY <1>4 DEF hands
<1>11. /\ Sound(mapped, DirectoryPages)
       /\ OnlyAt(tagged.m, mapped, v)
       /\ GetPhysAdr(mapped, v) = page
       /\ mapped.dir[Dir(v)] # NONE
  <2>1. Sound(tagged.m, DirectoryPages \cup ({page} \cap Frames))
    BY <1>6, <1>10
  <2> QED
    BY <1>3, <1>4, <1>9, <2>1, MapSound
<1> HIDE DEF mapped
<1>12. /\ Sound(back, hands)
       /\ OnlyAt(mapped, back, v)
       /\ ~mapped.oom => GetPhysAdr(back, v) = NONE
       /\ back.oom = mapped.oom
  <2>1. page # NONE
    BY <1>4, ConstantFacts
  <2>2. /\ Sound(back, DirectoryPages \cup ({GetPhysAdr(mapped, v)} \cap Frames))
        /\ OnlyAt(mapped, back, v)
        /\ ~mapped.oom => GetPhysAdr(back, v) = NONE
        /\ back.oom = mapped.oom
    BY <1>3, <1>11, <2>1, UnmapSound
  <2> HIDE DEF back
  <2> QED
    BY <1>10, <1>11, <2>2
<1> HIDE DEF back
<1>13. Tagged(back, TagFree(back, first, last), hands)
  BY <1>12, FreeTagsSound
<1>14. Sound(n, hands)
  <2>1. CASE tagged.ok
    BY <1>13, <2>1 DEF Tagged
  <2>2. CASE ~tagged.ok
    <3>1. [tagged.m EXCEPT !.oom = TRUE] \in MState /\ [tagged.m EXCEPT !.oom = TRUE].oom
      BY <1>6 DEF Sound, MState
    <3> QED
      BY <2>2, <3>1 DEF Sound
  <2> QED
    BY <2>1, <2>2
<1>15. ASSUME ~n.oom
       PROVE  Layout(n, regions, abandoned, call, heap_end)
  <2>1. tagged.ok /\ n = TagFree(back, first, last)
    <3>1. tagged.m \in MState
      BY <1>6 DEF Sound
    <3>2. [tagged.m EXCEPT !.oom = TRUE].oom
      BY <3>1 DEF MState
    <3> QED
      BY <1>15, <3>2
  <2> HIDE DEF n
  <2>2. Tagged(back, n, hands) /\ ~back.oom /\ ~mapped.oom /\ ~tagged.m.oom
    BY <1>11, <1>12, <1>13, <1>15, <2>1 DEF Tagged, OnlyAt
  <2>3. Layout(taken, regions, abandoned, call, heap_end)
    BY <1>2, <1>8, PlaceFacts, LayoutKept
  <2>4. Layout(tagged.m, regions, abandoned, call, heap_end)
    BY <1>2, <1>6, <2>2, <2>3, LayoutTagged
  <2>5. \A w \in Address : GetPhysAdr(back, w) = GetPhysAdr(tagged.m, w)
    <3> TAKE w \in Address
    <3>1. CASE w = v
      BY <1>9, <1>12, <2>2, <3>1
    <3>2. CASE w # v
      BY <1>11, <1>12, <2>2, <3>2 DEF OnlyAt
    <3> QED
      BY <3>1, <3>2
  <2>6. Layout(back, regions, abandoned, call, heap_end)
    BY <1>2, <2>4, <2>5, PlaceFacts, LayoutKept
  <2> QED
    BY <1>2, <1>15, <2>2, <2>6, LayoutTagged
<1> HIDE DEF n
<1>16. DirectoryPages' = hands
  <2>1. /\ DOMAIN directory' = DOMAIN directory \cup {t}
        /\ directory'[t] = page
        /\ \A u \in DOMAIN directory : directory'[u] = directory[u]
    BY <1>1
  <2>2. \A p : p \in DirectoryPages' <=> p \in DirectoryPages \/ p = page
    BY <2>1 DEF DirectoryPages
  <2> QED
    BY <2>2 DEF hands
<1>17. CallTypes'
  BY <1>1, <1>4 DEF Inv, CallTypes
<1>18. /\ Sound(n, DirectoryPages')
       /\ ~n.oom => Layout(n, regions', abandoned', call', heap_end')
  BY <1>1, <1>14, <1>15, <1>16
<1> QED
  BY <1>1, <1>17, <1>18, Stepped

\* A create_task that has no stack.
LEMMA CreateTaskFailsKeeps ==
    ASSUME Inv, CreateTaskFails
    PROVE  Inv'
<1> DEFINE page == AllocPage(State)
           taken == Take(State)
           n == [taken EXCEPT !.lost = @ \cup {page}]
<1>1. /\ ~exhausted /\ free # {}
      /\ Becomes(n)
      /\ UNCHANGED <<heap_end, regions, abandoned, call, directory>>
  BY DEF CreateTaskFails
<1>2. /\ Sound(State, DirectoryPages) /\ State.oom = FALSE /\ State.free = free
      /\ Layout(State, regions, abandoned, call, heap_end)
      /\ regions \in SUBSET Region /\ call \in Call
      /\ heap_end \in Nat /\ HeapStart <= heap_end
  BY <1>1, InvFacts
<1>3. /\ Sound(taken, DirectoryPages \cup {page}) /\ OnlyAt(State, taken, NONE)
      /\ ~taken.oom
      /\ page \in Frames /\ page \notin DirectoryPages
  BY <1>1, <1>2, TakeSound
<1>4. taken \in MState
  BY <1>3 DEF Sound
<1>a. n = [taken EXCEPT !.lost = taken.lost \cup {page}]
  BY <1>4 DEF MState
<1> HIDE DEF page, taken, n
<1>5. /\ n \in MState /\ n.dir = taken.dir /\ n.mem = taken.mem
      /\ n.count = taken.count
      /\ n.free = taken.free /\ n.lost = taken.lost \cup {page} /\ n.oom = taken.oom
  <2>1. n = [dir |-> taken.dir, mem |-> taken.mem, count |-> taken.count,
             free |-> taken.free, lost |-> taken.lost \cup {page}, oom |-> taken.oom]
    BY <1>4, <1>a DEF MState
  <2>2. taken.lost \cup {page} \in SUBSET (Frames \cup {0})
    BY <1>3, <1>4 DEF MState
  <2> QED
    BY <1>4, <2>1, <2>2 DEF MState
<1>6. Sound(n, DirectoryPages)
  <2> DEFINE other == (DirectoryPages \cup {page}) \cup taken.lost
  <2>1. Consistent(taken, other) /\ (DirectoryPages \cup {page}) \cap taken.lost = {}
    BY <1>3 DEF Sound
  <2>2. /\ DirectoryPages \cup n.lost = other
        /\ DirectoryPages \cap n.lost = {}
    BY <1>3, <1>5, <2>1
  <2>3. n.free \cap other = {}
    BY <1>5, <2>1 DEF Consistent
  <2> HIDE DEF other
  <2>4. Consistent(n, other)
    BY <1>5, <2>1, <2>3, HandOver
  <2> QED
    BY <1>5, <2>2, <2>4 DEF Sound
<1>7. \A w \in Address : GetPhysAdr(n, w) = GetPhysAdr(State, w)
  <2>1. \A w \in Address : GetPhysAdr(taken, w) = GetPhysAdr(State, w)
    <3>1. NONE \notin Address
      BY DEF Address, NONE
    <3> QED
      BY <1>3, <3>1 DEF OnlyAt
  <2> QED
    BY <1>5, <2>1 DEF GetPhysAdr
<1>8. Layout(n, regions, abandoned, call, heap_end)
  BY <1>2, <1>7, PlaceFacts, LayoutKept
<1>9. CallTypes' /\ DirectoryPages' = DirectoryPages
  BY <1>1 DEF Inv, CallTypes, DirectoryPages
<1>10. Sound(n, DirectoryPages') /\ Layout(n, regions', abandoned', call', heap_end')
  BY <1>1, <1>6, <1>8, <1>9
<1> QED
  BY <1>1, <1>9, <1>10, Stepped

-----------------------------------------------------------------------------
(* The initial states *)

\* Every page of the kernel's image has its place in a table of the boot code.
LEMMA BootPlaces ==
    /\ \A v \in DOMAIN BootImage :
          /\ v \in Address
          /\ Dir(v) \in DOMAIN BootTables
          /\ BootImage[v] \in Frames /\ BootImage[v] # NONE
    /\ \A d \in DOMAIN BootTables :
          d \in Dirs /\ BootTables[d] \in Frames /\ BootTables[d] # NONE
    /\ \A d \in DOMAIN BootTables : \E v \in DOMAIN BootImage : Dir(v) = d
<1>1. /\ DOMAIN BootTables \subseteq Dirs
      /\ BootTables \in [DOMAIN BootTables -> Frames]
      /\ BootImage \in [DOMAIN BootImage -> Frames]
      /\ DOMAIN BootImage \subseteq Nat
      /\ {Dir(v) : v \in DOMAIN BootImage} = DOMAIN BootTables
  BY PageTablesAssumption
<1>2. \A v \in DOMAIN BootImage : Dir(v) \in DOMAIN BootTables
  BY <1>1
<1>3. \A d \in DOMAIN BootTables : \E v \in DOMAIN BootImage : Dir(v) = d
  BY <1>1
<1> QED
  BY <1>1, <1>2, <1>3, ConstantFacts DEF Address

\* What the boot code has at each entry of its tables.
LEMMA BootEntries ==
    /\ \A v \in DOMAIN BootImage :
          BootState.mem[BootTables[Dir(v)]][EntryOf(v)] = BootImage[v]
    /\ \A d \in DOMAIN BootTables, e \in Entries :
          BootState.mem[BootTables[d]][e] # NONE =>
             \E v \in DOMAIN BootImage :
                /\ Dir(v) = d /\ EntryOf(v) = e
                /\ BootState.mem[BootTables[d]][e] = BootImage[v]
    /\ BootState.mem \in [Frames \cup {0} -> [Entries -> Entry]]
<1> DEFINE At(f, e) == {v \in DOMAIN BootImage : f = BootTables[Dir(v)] /\ e = EntryOf(v)}
           Word(f, e) == IF \E v \in DOMAIN BootImage :
                              f = BootTables[Dir(v)] /\ e = EntryOf(v)
                         THEN BootImage[CHOOSE v \in DOMAIN BootImage :
                                 f = BootTables[Dir(v)] /\ e = EntryOf(v)]
                         ELSE NONE
<1>1. BootState.mem = [f \in Frames \cup {0} |-> [e \in Entries |-> Word(f, e)]]
  BY DEF BootState
<1>2. \A f, e : (\A v \in DOMAIN BootImage :
                    ~(f = BootTables[Dir(v)] /\ e = EntryOf(v))) => Word(f, e) = NONE
  OBVIOUS
<1>3. ASSUME NEW f, NEW e, NEW v \in DOMAIN BootImage,
             f = BootTables[Dir(v)], e = EntryOf(v)
      PROVE  Word(f, e) = BootImage[v]
  <2> DEFINE w == CHOOSE u \in DOMAIN BootImage :
                     f = BootTables[Dir(u)] /\ e = EntryOf(u)
  <2>1. w \in DOMAIN BootImage /\ f = BootTables[Dir(w)] /\ e = EntryOf(w)
    BY <1>3, Zenon
  <2>2. Word(f, e) = BootImage[w]
    BY <1>3, Zenon
  <2> HIDE DEF w, Word
  <2>3. BootTables[Dir(v)] = BootTables[Dir(w)] /\ EntryOf(v) = EntryOf(w)
    BY <1>3, <2>1
  <2>4. Dir(v) = Dir(w)
    <3>1. Dir(v) \in DOMAIN BootTables /\ Dir(w) \in DOMAIN BootTables
      BY <2>1, BootPlaces
    <3>2. \A c, d \in DOMAIN BootTables : BootTables[c] = BootTables[d] => c = d
      BY PageTablesAssumption
    <3> QED
      BY <2>3, <3>1, <3>2
  <2>5. v = w
    BY <2>1, <2>3, <2>4, BootPlaces, AddressFacts
  <2> QED
    BY <2>2, <2>5
<1> HIDE DEF Word
<1>4. \A f, e : Word(f, e) \in Entry
  <2> TAKE f, e
  <2>1. CASE \E v \in DOMAIN BootImage : f = BootTables[Dir(v)] /\ e = EntryOf(v)
    <3>1. PICK v \in DOMAIN BootImage : f = BootTables[Dir(v)] /\ e = EntryOf(v)
      BY <2>1
    <3>2. Word(f, e) = BootImage[v]
      BY <1>3, <3>1
    <3> QED
      BY <3>2, BootPlaces DEF Entry
  <2>2. CASE ~\E v \in DOMAIN BootImage : f = BootTables[Dir(v)] /\ e = EntryOf(v)
    <3>1. Word(f, e) = NONE
      BY <1>2, <2>2
    <3> QED
      BY <3>1 DEF Entry
  <2> QED
    BY <2>1, <2>2
<1>5. BootState.mem \in [Frames \cup {0} -> [Entries -> Entry]]
  BY <1>1, <1>4
<1>6. \A f \in Frames, e \in Entries : BootState.mem[f][e] = Word(f, e)
  BY <1>1
<1>7. \A v \in DOMAIN BootImage :
         BootState.mem[BootTables[Dir(v)]][EntryOf(v)] = BootImage[v]
  <2> TAKE v \in DOMAIN BootImage
  <2>1. BootTables[Dir(v)] \in Frames /\ EntryOf(v) \in Entries
    BY BootPlaces, AddressFacts
  <2>2. Word(BootTables[Dir(v)], EntryOf(v)) = BootImage[v]
    BY <1>3
  <2> QED
    BY <1>6, <2>1, <2>2
<1>8. ASSUME NEW d \in DOMAIN BootTables, NEW e \in Entries,
             BootState.mem[BootTables[d]][e] # NONE
      PROVE  \E v \in DOMAIN BootImage :
                /\ Dir(v) = d /\ EntryOf(v) = e
                /\ BootState.mem[BootTables[d]][e] = BootImage[v]
  <2>1. BootState.mem[BootTables[d]][e] = Word(BootTables[d], e)
    BY <1>6, BootPlaces
  <2>2. PICK v \in DOMAIN BootImage : BootTables[d] = BootTables[Dir(v)] /\ e = EntryOf(v)
    BY <1>2, <1>8, <2>1
  <2>3. Dir(v) = d
    <3>1. Dir(v) \in DOMAIN BootTables
      BY BootPlaces
    <3>2. \A b, c \in DOMAIN BootTables : BootTables[b] = BootTables[c] => b = c
      BY PageTablesAssumption
    <3> QED
      BY <2>2, <3>1, <3>2
  <2>4. Word(BootTables[d], e) = BootImage[v]
    BY <1>3, <2>2
  <2> QED
    BY <2>1, <2>2, <2>3, <2>4
<1> QED
  BY <1>5, <1>7, <1>8

\* init_mm counts what the boot code has mapped.
LEMMA BootSound ==
    /\ Sound(BootState, {})
    /\ ~BootState.oom
    /\ \A w \in Address : w \notin DOMAIN BootImage => GetPhysAdr(BootState, w) = NONE
<1> DEFINE m == BootState
           Of(d) == {v \in DOMAIN BootImage : Dir(v) = d}
           used == {BootTables[d] : d \in DOMAIN BootTables} \cup
                   {BootImage[v] : v \in DOMAIN BootImage}
<1>1. /\ \A d \in Dirs : m.dir[d] = IF d \in DOMAIN BootTables THEN BootTables[d] ELSE NONE
      /\ m.dir \in [Dirs -> Frames \cup {0, NONE}]
      /\ \A d \in Dirs : m.count[d] = Cardinality(Of(d))
      /\ m.count = [d \in Dirs |-> Cardinality(Of(d))]
      /\ m.free = Frames \ used
      /\ m.lost = {} /\ m.oom = FALSE
      /\ m = [dir |-> m.dir, mem |-> m.mem, count |-> m.count, free |-> m.free,
              lost |-> m.lost, oom |-> m.oom]
  BY BootPlaces DEF BootState
<1>2. /\ \A v \in DOMAIN BootImage : m.mem[BootTables[Dir(v)]][EntryOf(v)] = BootImage[v]
      /\ \A d \in DOMAIN BootTables, e \in Entries :
            m.mem[BootTables[d]][e] # NONE =>
               \E v \in DOMAIN BootImage :
                  Dir(v) = d /\ EntryOf(v) = e /\ m.mem[BootTables[d]][e] = BootImage[v]
      /\ m.mem \in [Frames \cup {0} -> [Entries -> Entry]]
  BY BootEntries
<1>3. /\ \A c, d \in DOMAIN BootTables : BootTables[c] = BootTables[d] => c = d
      /\ \A v, w \in DOMAIN BootImage : BootImage[v] = BootImage[w] => v = w
      /\ \A d \in DOMAIN BootTables, v \in DOMAIN BootImage :
            BootTables[d] # BootImage[v]
  BY PageTablesAssumption
<1> HIDE DEF m
\* A table has an entry for each page of the image that it maps.
<1>4. ASSUME NEW d \in DOMAIN BootTables
      PROVE  Cardinality(Of(d)) = Cardinality(PresentIn(m, d)) /\ Of(d) # {}
  <2> DEFINE f == [v \in Of(d) |-> EntryOf(v)]
  <2>1. m.dir[d] = BootTables[d]
    BY <1>1, BootPlaces
  <2>2. \A v \in Of(d) : f[v] \in PresentIn(m, d)
    <3> TAKE v \in Of(d)
    <3>1. EntryOf(v) \in Entries
      BY BootPlaces, AddressFacts
    <3>2. m.mem[m.dir[d]][EntryOf(v)] # NONE
      BY <1>2, <2>1, BootPlaces
    <3> QED
      BY <3>1, <3>2 DEF PresentIn
  <2>3. \A v, w \in Of(d) : f[v] = f[w] => v = w
    BY BootPlaces, AddressFacts
  <2>4. \A e \in PresentIn(m, d) : \E v \in Of(d) : f[v] = e
    BY <1>2, <2>1 DEF PresentIn
  <2>5. f \in Bijection(Of(d), PresentIn(m, d))
    <3>1. f \in [Of(d) -> PresentIn(m, d)]
      BY <2>2
    <3> HIDE DEF f
    <3>2. f \in Injection(Of(d), PresentIn(m, d))
      BY <2>3, <3>1 DEF Injection, IsInjective
    <3>3. f \in Surjection(Of(d), PresentIn(m, d))
      BY <2>4, <3>1 DEF Surjection
    <3> QED
      BY <3>2, <3>3 DEF Bijection
  <2>6. Cardinality(Of(d)) = Cardinality(PresentIn(m, d))
    <3>1. IsFiniteSet(PresentIn(m, d))
      BY PresentFinite
    <3>2. f \in Injection(Of(d), PresentIn(m, d)) /\ f \in Surjection(Of(d), PresentIn(m, d))
      BY <2>5 DEF Bijection
    <3> HIDE DEF f, Of
    <3> QED
      BY <3>1, <3>2, FS_Injection
  <2> QED
    BY <2>6, BootPlaces
<1>5. ASSUME NEW d \in Dirs, d \notin DOMAIN BootTables
      PROVE  Cardinality(Of(d)) = 0
  <2>1. Of(d) = {}
    BY <1>5, BootPlaces
  <2> QED
    BY <2>1, FS_EmptySet
<1> HIDE DEF Of
<1>6. Counted(m)
  <2> SUFFICES ASSUME NEW d \in Dirs
               PROVE  IF m.dir[d] = NONE THEN m.count[d] = 0
                      ELSE /\ m.count[d] = Cardinality(PresentIn(m, d))
                           /\ m.count[d] > 0
    BY DEF Counted
  <2>1. CASE d \in DOMAIN BootTables
    <3>1. m.dir[d] # NONE /\ m.count[d] = Cardinality(PresentIn(m, d))
      BY <1>1, <1>4, <2>1, BootPlaces
    <3>2. IsFiniteSet(PresentIn(m, d)) /\ Cardinality(PresentIn(m, d)) \in Nat
      BY PresentFinite
    <3>3. PresentIn(m, d) # {}
      <4>1. PICK v \in DOMAIN BootImage : Dir(v) = d
        BY <2>1, BootPlaces
      <4>2. EntryOf(v) \in Entries /\ m.mem[m.dir[d]][EntryOf(v)] # NONE
        BY <1>1, <1>2, <2>1, <4>1, BootPlaces, AddressFacts
      <4> QED
        BY <4>2 DEF PresentIn
    <3>4. Cardinality(PresentIn(m, d)) # 0
      BY <3>2, <3>3, FS_EmptySet
    <3> QED
      BY <3>1, <3>2, <3>4
  <2>2. CASE d \notin DOMAIN BootTables
    BY <1>1, <1>5, <2>2
  <2> QED
    BY <2>1, <2>2
<1>7. \A d \in Dirs : Cardinality(Of(d)) \in 0..(CountMod - 1)
  <2> TAKE d \in Dirs
  <2>1. CASE d \in DOMAIN BootTables
    <3>1. /\ Cardinality(PresentIn(m, d)) \in Nat
          /\ Cardinality(PresentIn(m, d)) < CountMod
      BY PresentFinite
    <3> QED
      BY <1>4, <2>1, <3>1, CountModType
  <2>2. CASE d \notin DOMAIN BootTables
    BY <1>5, <2>2, CountModType
  <2> QED
    BY <2>1, <2>2
<1>8. m \in MState
  <2>1. m.count \in [Dirs -> 0..(CountMod - 1)]
    BY <1>1, <1>7
  <2> QED
    BY <1>1, <1>2, <2>1 DEF MState
<1>9. \A d \in Dirs : m.dir[d] # NONE =>
         d \in DOMAIN BootTables /\ m.dir[d] = BootTables[d] /\ m.dir[d] \in Frames
  BY <1>1, BootPlaces
<1>10. TablesApart(m, {})
  <2>1. \A d \in Dirs : m.dir[d] # NONE => m.dir[d] \in Frames \ (m.free \cup {})
    BY <1>1, <1>9
  <2>2. \A c, d \in Dirs : m.dir[c] = m.dir[d] /\ m.dir[c] # NONE => c = d
    BY <1>3, <1>9
  <2> QED
    BY <2>1, <2>2 DEF TablesApart
<1>11. \A d \in Dirs, e \in Entries :
          m.dir[d] # NONE /\ m.mem[m.dir[d]][e] \in Frames =>
             \E v \in DOMAIN BootImage :
                Dir(v) = d /\ EntryOf(v) = e /\ m.mem[m.dir[d]][e] = BootImage[v]
  BY <1>2, <1>9, ConstantFacts
<1>12. MappedApart(m, {})
  <2>1. ASSUME NEW d \in Dirs, NEW e \in Entries, m.dir[d] # NONE,
               m.mem[m.dir[d]][e] \in Frames
        PROVE  /\ m.mem[m.dir[d]][e] \notin m.free \cup {}
               /\ \A c \in Dirs : m.dir[c] # m.mem[m.dir[d]][e]
    <3>1. PICK v \in DOMAIN BootImage : m.mem[m.dir[d]][e] = BootImage[v]
      BY <1>11, <2>1
    <3>2. BootImage[v] \notin m.free
      BY <1>1
    <3>3. \A c \in Dirs : m.dir[c] # BootImage[v]
      BY <1>3, <1>9, BootPlaces
    <3> QED
      BY <3>1, <3>2, <3>3
  <2>2. ASSUME NEW c \in Dirs, NEW d \in Dirs, NEW e \in Entries, NEW f \in Entries,
               m.dir[c] # NONE, m.dir[d] # NONE,
               m.mem[m.dir[c]][e] \in Frames,
               m.mem[m.dir[c]][e] = m.mem[m.dir[d]][f]
        PROVE  c = d /\ e = f
    <3>1. PICK v \in DOMAIN BootImage :
             Dir(v) = c /\ EntryOf(v) = e /\ m.mem[m.dir[c]][e] = BootImage[v]
      BY <1>11, <2>2
    <3>2. PICK w \in DOMAIN BootImage :
             Dir(w) = d /\ EntryOf(w) = f /\ m.mem[m.dir[d]][f] = BootImage[w]
      BY <1>11, <2>2
    <3> QED
      BY <1>3, <2>2, <3>1, <3>2
  <2> QED
    BY <2>1, <2>2 DEF MappedApart
<1>13. Covered(m, {})
  <2> SUFFICES ASSUME NEW p \in Frames, p \in used
               PROVE  \/ \E d \in Dirs : m.dir[d] = p
                      \/ \E d \in Dirs, e \in Entries :
                            m.dir[d] # NONE /\ m.mem[m.dir[d]][e] = p
    BY <1>1 DEF Covered
  <2>1. CASE \E d \in DOMAIN BootTables : p = BootTables[d]
    BY <1>1, <2>1, BootPlaces
  <2>2. CASE \E v \in DOMAIN BootImage : p = BootImage[v]
    <3>1. PICK v \in DOMAIN BootImage : p = BootImage[v]
      BY <2>2
    <3>2. /\ Dir(v) \in Dirs /\ EntryOf(v) \in Entries
          /\ m.dir[Dir(v)] = BootTables[Dir(v)] /\ BootTables[Dir(v)] # NONE
      BY <1>1, BootPlaces, AddressFacts
    <3> QED
      BY <1>2, <3>1, <3>2
  <2> QED
    BY <2>1, <2>2
<1>14. Consistent(m, {})
  <2>1. m.free \subseteq Frames /\ {} \subseteq Frames \ m.free
    BY <1>1
  <2> QED
    BY <1>6, <1>10, <1>12, <1>13, <2>1 DEF Consistent
<1>15. Sound(m, {})
  BY <1>1, <1>8, <1>14 DEF Sound
<1>16. ASSUME NEW w \in Address, w \notin DOMAIN BootImage
       PROVE  GetPhysAdr(m, w) = NONE
  <2>1. Dir(w) \in Dirs /\ EntryOf(w) \in Entries
    BY AddressFacts
  <2>2. ASSUME m.dir[Dir(w)] # NONE, m.mem[m.dir[Dir(w)]][EntryOf(w)] # NONE
        PROVE  FALSE
    <3>1. PICK v \in DOMAIN BootImage : Dir(v) = Dir(w) /\ EntryOf(v) = EntryOf(w)
      BY <1>2, <1>9, <2>1, <2>2
    <3> QED
      BY <1>16, <3>1, BootPlaces, AddressFacts
  <2> QED
    BY <2>2 DEF GetPhysAdr
<1> QED
  BY <1>1, <1>15, <1>16 DEF m

\* init_mm establishes the invariant.
LEMMA InitKeeps == Init => Inv
<1> SUFFICES ASSUME Init PROVE Inv
  OBVIOUS
<1> DEFINE b == BootState
           m == MapNewPage(b, HeapStart)
           k == MapNewPage(m, InfoPage(HeapStart))
           n == InitVheap(k)
           info == InfoPage(HeapStart)
<1>1. /\ HeapStart \in HeapPages /\ HeapStart \in Nat
      /\ VheapStart \in VheapPages /\ VheapMax - 1 \in VheapPages
      /\ HeapStart + 1 \in HeapStart..HeapMax
  BY PageTablesAssumption DEF HeapPages, VheapPages
<1>2. /\ HeapStart \in Address /\ info \in Address /\ info \in InfoPages
      /\ HeapStart # info
  BY <1>1, PlaceFacts
<1>3. \A w \in HeapPages \cup VheapPages \cup InfoPages : GetPhysAdr(b, w) = NONE
  <2>1. \A w \in HeapPages \cup VheapPages \cup InfoPages :
           w \in Address /\ w \notin DOMAIN BootImage
    BY PlaceFacts, PageTablesAssumption
  <2> QED
    BY <2>1, BootSound
<1>4. Sound(b, {}) /\ ~b.oom
  BY BootSound
<1>5. Sound(m, {}) /\ OnlyAt(b, m, HeapStart)
  BY <1>1, <1>2, <1>3, <1>4, MapNewSound
<1>6. ~m.oom => GetPhysAdr(m, info) = NONE
  BY <1>2, <1>3, <1>5 DEF OnlyAt
<1> HIDE DEF b, m
<1>7. Sound(k, {}) /\ OnlyAt(m, k, info)
  BY <1>2, <1>5, <1>6, MapNewSound
<1> HIDE DEF k
<1>8. Tagged(k, n, {})
  <2>1. n = TagFree(k, VheapStart, VheapMax - 1)
    BY DEF InitVheap
  <2> QED
    BY <1>1, <1>7, <2>1, FreeTagsSound
<1>9. State = n
  <2>1. InitKheap(BootState) = k
    BY DEF InitKheap, k, m, b
  <2>2. /\ page_dir = n.dir /\ memory = n.mem /\ mount_table = n.count
        /\ free = n.free /\ lost = n.lost /\ exhausted = n.oom
    BY <2>1 DEF Init
  <2>3. n \in MState
    BY <1>8 DEF Tagged, Sound
  <2> HIDE DEF n
  <2> QED
    BY <2>2, <2>3 DEF State, MState
<1>10. /\ heap_end = HeapStart + 1 /\ regions = {} /\ abandoned = {} /\ call = Idle
       /\ DOMAIN directory = {} /\ DirectoryPages = {} /\ exhausted = n.oom
  BY <1>9 DEF Init, DirectoryPages, State
<1> HIDE DEF n
<1>11. Idle \in Call /\ Idle.op = "none"
  BY <1>1 DEF Idle, Call, Region
<1>12. ASSUME ~n.oom
       PROVE  Layout(n, {}, {}, Idle, HeapStart + 1)
  <2>1. ~k.oom /\ ~m.oom
    BY <1>7, <1>8, <1>12 DEF Tagged, OnlyAt
  <2>2. \A w \in HeapPages \cup VheapPages : w # HeapStart => GetPhysAdr(k, w) = NONE
    <3> TAKE w \in HeapPages \cup VheapPages
    <3>1. w \in Address /\ w # info
      BY <1>2, PlaceFacts
    <3> QED
      BY <1>3, <1>5, <1>7, <2>1, <3>1 DEF OnlyAt
  <2>3. /\ \A v \in VheapPages : v # HeapStart
        /\ \A v \in (HeapStart + 1)..(HeapMax - 1) : v \in HeapPages /\ v # HeapStart
    BY <1>1, PlaceFacts, PageTablesAssumption DEF HeapPages
  <2>4. Layout(k, {}, {}, Idle, HeapStart + 1)
    BY <1>11, <2>2, <2>3 DEF Layout, Vacant
  <2>5. HeapStart + 1 \in Nat /\ HeapStart <= HeapStart + 1
    BY <1>1
  <2> DEFINE h == HeapStart + 1
  <2>6. h \in Nat /\ HeapStart <= h /\ Layout(k, {}, {}, Idle, h)
    BY <2>4, <2>5
  <2> HIDE DEF h
  <2>7. Layout(n, {}, {}, Idle, h)
    BY <1>8, <1>11, <1>12, <2>6, LayoutTagged
  <2> QED
    BY <2>7 DEF h
<1>13. CallTypes
  BY <1>1, <1>10, <1>11 DEF CallTypes
<1>14. Sound(State, DirectoryPages)
  BY <1>8, <1>9, <1>10 DEF Tagged
<1>15. ~exhausted => Layout(State, regions, abandoned, call, heap_end)
  BY <1>9, <1>10, <1>12
<1> QED
  BY <1>13, <1>14, <1>15 DEF Inv

-----------------------------------------------------------------------------
(* Every step keeps the invariant *)

\* No step breaks it.
LEMMA NextKeeps == Inv /\ [Next]_vars => Inv'
<1> SUFFICES ASSUME Inv, [Next]_vars PROVE Inv'
  OBVIOUS
<1>1. ASSUME NEW at \in VheapPages, NEW end \in VheapPages, NEW size \in Requests,
             NEW io \in Devices \cup {NONE},
             StartMapping([at |-> at, size |-> size, io |-> io], end)
      PROVE  Inv'
  <2> DEFINE r == [at |-> at, size |-> size, io |-> io]
  <2>1. r \in Region
    BY PageTablesAssumption DEF Region
  <2>2. StartMapping(r, end)
    BY <1>1
  <2> HIDE DEF r
  <2> QED
    BY <2>1, <2>2, StartMappingKeeps
<1>2. ASSUME NEW r \in regions, StartUnmapping(r)
      PROVE  Inv'
  BY <1>2, StartUnmappingKeeps
<1>3. ASSUME NEW first \in VheapPages, NEW last \in VheapPages, ReturnRegion(first, last)
      PROVE  Inv'
  BY <1>3, ReturnRegionKeeps
<1>4. ASSUME NEW t \in Tasks, NEW v \in VheapPages, NEW end \in VheapPages,
             NEW first \in VheapPages, NEW last \in VheapPages,
             CreateTask(t, v, end, first, last)
      PROVE  Inv'
  BY <1>4, CreateTaskKeeps
<1>5. CASE UNCHANGED vars
  <2>1. /\ State' = State /\ DirectoryPages' = DirectoryPages
        /\ UNCHANGED <<exhausted, heap_end, regions, abandoned, call, directory>>
    BY <1>5 DEF vars, State, DirectoryPages
  <2> QED
    BY <2>1 DEF Inv, CallTypes
<1>6. CASE Next
  BY <1>1, <1>2, <1>3, <1>4, <1>6, MapNextKeeps, VmallocFailsKeeps, UnmapNextKeeps,
     GrowHeapKeeps, CreateTaskFailsKeeps DEF Next
<1> QED
  BY <1>5, <1>6

\* The invariant holds throughout.
LEMMA AlwaysInv == Spec => []Inv
  BY InitKeeps, NextKeeps, PTL DEF Spec

\* The page directory, the tables and the counts, the regions and the running
\* call have their types: a directory entry is a page of memory, never a device.
THEOREM TypeCorrect == Spec => []TypeOK
  BY AlwaysInv, InvTypes, PTL

\* unmap_page frees a page table exactly when its last mapping goes: the
\* counts of mount_table are the numbers of present entries, in every order of
\* calls, and never wrap.
THEOREM MountsAlwaysCounted == Spec => []MountsCounted
<1>1. Inv => MountsCounted
  <2> SUFFICES ASSUME Inv, ~exhausted, NEW d \in Dirs
               PROVE  IF page_dir[d] = NONE THEN mount_table[d] = 0
                      ELSE /\ mount_table[d] = Cardinality(Present(d))
                           /\ mount_table[d] > 0
    BY DEF MountsCounted
  <2>1. /\ State.dir = page_dir /\ State.mem = memory
        /\ State.count = mount_table
    BY DEF State
  <2>2. Present(d) = PresentIn(State, d)
    BY <2>1 DEF Present, PresentIn
  <2>3. Counted(State)
    <3>1. Sound(State, DirectoryPages) /\ ~State.oom
      BY InvFacts
    <3> QED
      BY <3>1 DEF Sound, Consistent
  <2> HIDE DEF State
  <2> QED
    BY <2>1, <2>2, <2>3 DEF Counted
<1> QED
  BY <1>1, AlwaysInv, PTL

\* Every page of memory has exactly one use: no mapping, unmapping, growth or
\* task creation frees a page in use, and only set_heapinfo and a failed
\* create_task lose one.
THEOREM PagesAlwaysAccounted == Spec => []PagesAccounted
<1>1. Inv => PagesAccounted
  <2> SUFFICES ASSUME Inv, ~exhausted
               PROVE  /\ free \cup Tables \cup Mapped \cup DirectoryPages \cup lost = Frames
                      /\ free \cap (Tables \cup Mapped \cup DirectoryPages \cup lost) = {}
                      /\ Tables \cap (Mapped \cup DirectoryPages \cup lost) = {}
                      /\ Mapped \cap (DirectoryPages \cup lost) = {}
                      /\ DirectoryPages \cap lost = {}
                      /\ \A c, d \in Dirs :
                            page_dir[c] = page_dir[d] /\ page_dir[c] # NONE => c = d
    BY DEF PagesAccounted
  <2>1. /\ State.dir = page_dir /\ State.mem = memory /\ State.free = free
        /\ State.lost = lost
    BY DEF State
  <2>a. Sound(State, DirectoryPages) /\ ~State.oom
    BY InvFacts
  <2> HIDE DEF State
  <2> DEFINE others == DirectoryPages \cup lost
  <2>2. Consistent(State, others) /\ DirectoryPages \cap lost = {}
    BY <2>1, <2>a DEF Sound
  <2>b. others = DirectoryPages \cup lost
    OBVIOUS
  <2> HIDE DEF others
  <2>3. \A p : p \in Tables <=> \E d \in Dirs : page_dir[d] = p /\ p # NONE
    BY DEF Tables
  <2>4. \A p : p \in Mapped <=>
                 /\ p \in Frames
                 /\ \E d \in Dirs, e \in Entries :
                       page_dir[d] # NONE /\ memory[page_dir[d]][e] = p
    BY ConstantFacts DEF Mapped, Present
  <2>5. /\ free \subseteq Frames
        /\ others \subseteq Frames \ free
        /\ \A p \in Tables : p \in Frames /\ p \notin free \cup others
        /\ \A c, d \in Dirs : page_dir[c] = page_dir[d] /\ page_dir[c] # NONE => c = d
    BY <2>1, <2>2, <2>3 DEF Consistent, TablesApart
  <2>6. \A p \in Mapped : p \notin free \cup others /\ p \notin Tables
    BY <2>1, <2>2, <2>3, <2>4 DEF Consistent, MappedApart
  <2>7. \A p \in Frames : p \in free \cup others \cup Tables \cup Mapped
    BY <2>1, <2>2, <2>3, <2>4, ConstantFacts DEF Consistent, Covered
  <2>8. Mapped \subseteq Frames
    BY DEF Mapped
  <2> QED
    BY <2>2, <2>b, <2>5, <2>6, <2>7, <2>8
<1> QED
  BY <1>1, AlwaysInv, PTL

\* A region that a caller holds stays mapped, page by page, whatever other
\* callers map, unmap and create, and vfree finds its tag.
THEOREM RegionsAlwaysMapped == Spec => []RegionsMapped
<1>1. Inv => RegionsMapped
  <2> SUFFICES ASSUME Inv, ~exhausted, NEW r \in regions
               PROVE  /\ GetPhysAdr(State, InfoPage(r.at)) # NONE
                      /\ \A i \in 0..(r.size - 1) :
                            IF r.io = NONE THEN GetPhysAdr(State, r.at + i) \in Frames
                            ELSE GetPhysAdr(State, r.at + i) = r.io + i
    BY DEF RegionsMapped
  <2>1. Layout(State, regions, abandoned, call, heap_end)
    BY InvFacts
  <2> HIDE DEF State
  <2>2. Whole(State, abandoned, r)
    BY <2>1 DEF Layout
  <2> QED
    BY <2>2 DEF Whole, Backed
<1> QED
  BY <1>1, AlwaysInv, PTL

=============================================================================
