-------------------------- MODULE BootConsoleProofs --------------------------
(***************************************************************************)
(* Theorems about what the machine shows and holds from power-on: about    *)
(* Boot, for every geometry of the disk and every file, and about Console: *)
(* the screen it prints on, for every size of it and every cursor the      *)
(* firmware leaves, and what kprintf prints for every directive.           *)
(***************************************************************************)
EXTENDS Boot, Console, NatFacts, SequenceTheorems

-----------------------------------------------------------------------------
(* Arithmetic of the disk *)

\* The parameters are positive.
LEMMA Parameters ==
    /\ BytesPerSector \in Nat \ {0} /\ ReservedForBoot \in Nat \ {0}
    /\ NumberOfFats \in Nat \ {0} /\ RootDirEntries \in Nat \ {0}
    /\ SectorsPerFat \in Nat \ {0} /\ SectorsPerTrack \in Nat \ {0}
    /\ Sides \in Nat \ {0} /\ EntriesPerSector \in Nat \ {0}
    /\ Span \in Nat \ {0} /\ SectorsToLoad \in Nat \ {0}
  BY BootAssumption

\* logical_to_hts gives the place of the sector it is called with.
LEMMA HtsOfLba ==
    ASSUME NEW lba \in Nat
    PROVE  Lba(LogicalToHts(lba)) = lba
<1> DEFINE track == lba \div SectorsPerTrack
<1>1. /\ track \in Nat
      /\ lba = track * SectorsPerTrack + (lba % SectorsPerTrack)
      /\ lba % SectorsPerTrack \in Nat
  BY DivMod, Parameters
<1>2. track = (track \div Sides) * Sides + (track % Sides)
  BY <1>1, DivMod, Parameters
<1>3. Lba(LogicalToHts(lba)) =
        ((track \div Sides) * Sides + (track % Sides)) * SectorsPerTrack
           + ((lba % SectorsPerTrack) + 1) - 1
  BY DEF Lba, LogicalToHts
<1>4. Lba(LogicalToHts(lba)) =
        track * SectorsPerTrack + ((lba % SectorsPerTrack) + 1) - 1
  BY <1>2, <1>3
<1>5. track * SectorsPerTrack \in Nat
  BY <1>1, Parameters
<1> QED
  BY <1>1, <1>4, <1>5

\* The places of the tables in memory and on the disk.
LEMMA Layout ==
    /\ RootDirSectors \in Nat
    /\ RootDirPointer \in Nat /\ RootDirPointer >= SectorsPerFat
    /\ DataPointer \in Nat /\ FATRAMPos \in Nat
    /\ FATRAMPos + SectorsPerFat <= RamTop
  <1>1. RootDirSectors \in Nat
    BY Parameters, DivMod DEF RootDirSectors
  <1>2. /\ NumberOfFats * SectorsPerFat \in Nat
        /\ NumberOfFats * SectorsPerFat >= SectorsPerFat
    BY Parameters
  <1> QED
    BY <1>1, <1>2, Parameters DEF RootDirPointer, DataPointer, FATRAMPos, RamTop,
                                  DiskRAMPos

-----------------------------------------------------------------------------
(* The file allocation table *)

\* The disk has a chain of clusters without a loop.
Disk ==
    /\ \E n \in Nat \ {0} : file \in [1..n -> Clusters]
    /\ \A i, j \in DOMAIN file : file[i] = file[j] => i = j
    /\ eof \in EofMarks

\* The table of the boot drive is in memory.
FatInRAM ==
    \A k \in 0..(SectorsPerFat - 1) :
        ram[FATRAMPos + k] = <<BootDevice, ReservedForBoot + k>>

\* What 12 bits hold.
Entry12 == 0..4095

\* The chain has a first cluster and a last.
LEMMA FileFacts ==
    ASSUME Disk
    PROVE  /\ Len(file) \in Nat \ {0}
           /\ DOMAIN file = 1..Len(file)
           /\ \A i \in 1..Len(file) : file[i] \in Clusters
<1>1. PICK n \in Nat \ {0} : file \in [1..n -> Clusters]
  BY DEF Disk
<1>2. Len(file) = n /\ DOMAIN file = 1..n
  BY <1>1
<1> QED
  BY <1>1, <1>2

\* A cluster number is none of the end marks.
LEMMA ClusterType ==
    ASSUME NEW c \in Clusters
    PROVE  c \in Nat /\ c >= 2 /\ c < 4088 /\ c \in Entry12
  BY BootAssumption DEF Entry12

\* The end marks.
LEMMA EofType ==
    ASSUME Disk
    PROVE  eof \in Nat /\ eof >= 4088 /\ eof \in Entry12
<1>1. eof \in 4088..4095
  BY BootAssumption DEF Disk
<1> QED
  BY <1>1 DEF Entry12

\* An entry of the table has 12 bits.
LEMMA EntryType ==
    ASSUME Disk, NEW c
    PROVE  FatEntry(c) \in Entry12
<1>1. CASE c \notin ToSet(file)
  BY <1>1 DEF FatEntry, Entry12
<1>2. CASE c \in ToSet(file)
  <2> DEFINE i == CHOOSE j \in DOMAIN file : file[j] = c
  <2>1. \E j \in DOMAIN file : file[j] = c
    BY <1>2 DEF ToSet
  <2>2. i \in DOMAIN file
    BY <2>1
  <2>3. FatEntry(c) = IF i = Len(file) THEN eof ELSE file[i + 1]
    BY <1>2 DEF FatEntry
  <2> HIDE DEF i
  <2>4. i # Len(file) => i + 1 \in 1..Len(file)
    BY <2>2, FileFacts
  <2>5. i # Len(file) => file[i + 1] \in Clusters
    BY <2>4, FileFacts
  <2>6. CASE i = Len(file)
    BY <2>3, <2>6, EofType
  <2>7. CASE i # Len(file)
    <3>1. file[i + 1] \in Entry12
      BY <2>5, <2>7, ClusterType
    <3> QED
      BY <2>3, <2>7, <3>1
  <2> QED
    BY <2>6, <2>7
<1> QED
  BY <1>1, <1>2

\* The entry of a cluster of the file is the next one, or the end mark.
LEMMA EntryOfFile ==
    ASSUME Disk, NEW i \in DOMAIN file
    PROVE  FatEntry(file[i]) = IF i = Len(file) THEN eof ELSE file[i + 1]
<1> DEFINE c == file[i]
           k == CHOOSE j \in DOMAIN file : file[j] = c
<1>1. c \in ToSet(file)
  BY DEF ToSet
<1>2. k \in DOMAIN file /\ file[k] = c
  OBVIOUS
<1>3. k = i
  BY <1>2 DEF Disk
<1> QED
  BY <1>1, <1>3 DEF FatEntry

\* A byte of the table in memory is the byte of the table on the disk.
LEMMA ByteInRAM ==
    ASSUME FatInRAM, NEW o \in 0..(SectorsPerFat * BytesPerSector - 1)
    PROVE  FATByteInRAM(o) = FatByte(o)
<1> DEFINE k == o \div BytesPerSector
           b == o % BytesPerSector
<1>1. /\ SectorsPerFat * BytesPerSector \in Nat
      /\ o \in Nat /\ o < SectorsPerFat * BytesPerSector
  BY Parameters
<1>2. k \in Nat /\ b \in Nat /\ o = k * BytesPerSector + b
  BY <1>1, DivMod, Parameters
<1> HIDE DEF k, b
<1>3. k < SectorsPerFat
  <2> SUFFICES ASSUME k >= SectorsPerFat PROVE FALSE
    BY <1>2, Parameters
  <2>1. k * BytesPerSector >= SectorsPerFat * BytesPerSector
    BY <1>2, Parameters
  <2>2. k * BytesPerSector \in Nat
    BY <1>2, Parameters
  <2> QED
    BY <1>1, <1>2, <2>1, <2>2
<1>4. ram[FATRAMPos + k] = <<BootDevice, ReservedForBoot + k>>
  BY <1>2, <1>3, Parameters DEF FatInRAM
<1>5. ReservedForBoot + k - ReservedForBoot = k /\ k \in 0..(SectorsPerFat - 1)
  BY <1>2, <1>3, Parameters
<1>6. SectorByte(<<BootDevice, ReservedForBoot + k>>, b) = FatByte(k * BytesPerSector + b)
  <2> DEFINE sector == <<BootDevice, ReservedForBoot + k>>
  <2>1. sector[2] - ReservedForBoot = k
    <3>1. sector[2] = ReservedForBoot + k
      OBVIOUS
    <3> HIDE DEF sector
    <3> QED
      BY <1>2, <3>1, Parameters
  <2> HIDE DEF sector
  <2>2. SectorByte(sector, b) = FatByte(k * BytesPerSector + b)
    BY <1>5, <2>1 DEF SectorByte
  <2> QED
    BY <2>2 DEF sector
<1>7. FATByteInRAM(o) = SectorByte(ram[FATRAMPos + k], b)
  BY DEF FATByteInRAM, k, b
<1> QED
  BY <1>2, <1>4, <1>6, <1>7

\* The words that load_file reads at the first and at the second of three
\* bytes, and the halves it takes of them.
EvenWord(even, odd) == (even % 256) + 256 * (even \div 256 + 16 * (odd % 16))
OddWord(even, odd) == even \div 256 + 16 * (odd % 16) + 256 * (odd \div 16)
LowerHalf(word) == word % 4096
UpperHalf(word) == word \div 16

\* Two entries of 12 bits in three bytes, and back.
LEMMA Unpack ==
    ASSUME NEW even \in Entry12, NEW odd \in Entry12
    PROVE  /\ LowerHalf(EvenWord(even, odd)) = even
           /\ UpperHalf(OddWord(even, odd)) = odd
<1> DEFINE a == even % 256
           b == even \div 256
           p == odd % 16
           q == odd \div 16
<1>1. a \in 0..255 /\ b \in 0..15 /\ even = 256 * b + a
  BY DEF Entry12
<1>2. p \in 0..15 /\ q \in 0..255 /\ odd = 16 * q + p
  BY DEF Entry12
<1> HIDE DEF a, b, p, q
<1>3. (a + 256 * (b + 16 * p)) % 4096 = even
  <2>1. a + 256 * (b + 16 * p) = 4096 * p + even
    BY <1>1, <1>2
  <2>2. (4096 * p + even) % 4096 = even
    <3>1. (p * 4096 + even) % 4096 = even /\ p * 4096 = 4096 * p
      BY <1>2, ModUnique DEF Entry12
    <3> QED
      BY <3>1
  <2> QED
    BY <2>1, <2>2
<1>4. (b + 16 * p + 256 * q) \div 16 = odd
  <2>1. b + 16 * p + 256 * q = 16 * odd + b
    BY <1>1, <1>2
  <2>2. (16 * odd + b) \div 16 = odd
    BY <1>1 DEF Entry12
  <2> QED
    BY <2>1, <2>2
<1> QED
  BY <1>3, <1>4 DEF a, b, p, q, EvenWord, OddWord, LowerHalf, UpperHalf

\* load_file unpacks the entry of every cluster, wherever its bytes lie.
LEMMA NextInChainIsEntry ==
    ASSUME Disk, FatInRAM, NEW c \in Clusters
    PROVE  NextInChain(c) = FatEntry(c)
<1> DEFINE size == SectorsPerFat * BytesPerSector
           o == (c * 3) \div 2
           h == c \div 2
           even == FatEntry(2 * h)
           odd == FatEntry(2 * h + 1)
<1>1. c \in Nat /\ h \in Nat /\ (c = 2 * h \/ c = 2 * h + 1)
  <2>1. c \in Nat
    BY ClusterType
  <2> QED
    BY <2>1
<1>2. size \in Nat /\ 3 * c + 3 <= 2 * size
  <2>1. size \in Nat
    BY Parameters
  <2>2. 2 * SectorsPerFat * BytesPerSector = 2 * size
    BY Parameters
  <2>3. c \in 2..((2 * size) \div 3 - 1)
    BY <2>2, BootAssumption
  <2> HIDE DEF size
  <2> QED
    BY <2>1, <2>3
<1> HIDE DEF size
<1>3. o \in Nat /\ o \in 0..(size - 1) /\ o + 1 \in 0..(size - 1)
  BY <1>1, <1>2
<1>4. FATByteInRAM(o) = FatByte(o) /\ FATByteInRAM(o + 1) = FatByte(o + 1)
  BY <1>3, ByteInRAM DEF size
<1>5. even \in Entry12 /\ odd \in Entry12
  BY EntryType
<1>6. NextInChain(c) =
         IF (c * 3) % 2 = 1 THEN (FatByte(o) + 256 * FatByte(o + 1)) \div 16
         ELSE (FatByte(o) + 256 * FatByte(o + 1)) % 4096
  BY <1>4 DEF NextInChain
<1> HIDE DEF even, odd, h
<1>7. /\ FatByte(3 * h) = even % 256
      /\ FatByte(3 * h + 1) = (even \div 256) + 16 * (odd % 16)
      /\ FatByte(3 * h + 2) = odd \div 16
  <2>1. /\ (3 * h) % 3 = 0 /\ (3 * h) \div 3 = h
        /\ (3 * h + 1) % 3 = 1 /\ (3 * h + 1) \div 3 = h
        /\ (3 * h + 2) % 3 = 2 /\ (3 * h + 2) \div 3 = h
    BY <1>1
  <2> QED
    BY <2>1 DEF FatByte, even, odd
<1>8. CASE c = 2 * h
  <2>1. o = 3 * h /\ (c * 3) % 2 = 0
    BY <1>1, <1>8
  <2>2. NextInChain(c) = LowerHalf(EvenWord(even, odd))
    BY <1>6, <1>7, <2>1 DEF LowerHalf, EvenWord
  <2> QED
    <3>1. NextInChain(c) = even
      BY <1>5, <2>2, Unpack, Zenon
    <3> QED
      BY <1>8, <3>1 DEF even
<1>9. CASE c = 2 * h + 1
  <2>1. o = 3 * h + 1 /\ o + 1 = 3 * h + 2 /\ (c * 3) % 2 = 1
    BY <1>1, <1>9
  <2>2. NextInChain(c) = UpperHalf(OddWord(even, odd))
    BY <1>6, <1>7, <2>1 DEF UpperHalf, OddWord
  <2> QED
    <3>1. NextInChain(c) = odd
      BY <1>5, <2>2, Unpack, Zenon
    <3> QED
      BY <1>9, <3>1 DEF odd
<1> QED
  BY <1>1, <1>8, <1>9

\* BX counts on around Span.
LEMMA NextPosition ==
    ASSUME NEW k \in Nat
    PROVE  /\ ((k % Span) + 1) % Span = (k + 1) % Span
           /\ k < Span => k % Span = k
<1> DEFINE q == k \div Span
           r == k % Span
<1>1. q \in Nat /\ r \in 0..(Span - 1) /\ k = q * Span + r /\ Span \in Nat \ {0}
  BY DivMod, Parameters
<1>2. 0 * Span + 0 = 0
  BY <1>1
<1>3. q * Span \in Nat
  BY <1>1
<1> HIDE DEF q, r
<1>4. ASSUME r + 1 < Span
      PROVE  (r + 1) % Span = (k + 1) % Span
  <2>1. k + 1 = q * Span + (r + 1) /\ r + 1 \in 0..(Span - 1)
    BY <1>1, <1>3, <1>4
  <2>2. (k + 1) % Span = r + 1
    BY <1>1, <2>1, ModUnique
  <2>3. (0 * Span + (r + 1)) % Span = r + 1
    BY <1>1, <2>1, ModUnique
  <2>4. 0 * Span + (r + 1) = r + 1
    BY <1>1, <2>1
  <2> QED
    BY <2>2, <2>3, <2>4
<1>5. ASSUME r + 1 = Span
      PROVE  (r + 1) % Span = (k + 1) % Span
  <2>1. k + 1 = (q + 1) * Span + 0
    BY <1>1, <1>3, <1>5
  <2>2. (k + 1) % Span = 0
    BY <1>1, <2>1, ModUnique
  <2>3. (1 * Span + 0) % Span = 0 /\ 1 * Span + 0 = Span
    BY <1>1, ModUnique
  <2> QED
    BY <1>5, <2>2, <2>3
<1>6. k < Span => k % Span = k
  <2> SUFFICES ASSUME k < Span PROVE k % Span = k
    OBVIOUS
  <2>1. (0 * Span + k) % Span = k /\ 0 * Span + k = k
    BY <1>1, ModUnique
  <2> QED
    BY <2>1
<1> QED
  BY <1>1, <1>4, <1>5, <1>6 DEF r

-----------------------------------------------------------------------------
(* The invariant *)

\* load_file is at the i-th cluster of the file.
At(i) ==
    /\ i \in 1..Len(file)
    /\ CurrentCluster = file[i]
    /\ position = (i - 1) % Span

\* The first n clusters of a file that BX can address are in high memory.
Loaded(n) ==
    Len(file) <= Span =>
       \A j \in 1..n : high[j - 1] = <<BootDevice, file[j] + DataPointer - 2>>

\* The read in progress.
Requested(lba, number, to) ==
    /\ request.drive = BootDevice
    /\ Lba(request.place) = lba
    /\ request.number = number
    /\ request.to = to

\* A read of the FAT, which may have stored a part of it; a read of the next
\* cluster, which has stored it or not; or one that may store anything.
Reading ==
    \/ request.ret \in {"second", "find"}
    \/ /\ request.ret = "load"
       /\ Requested(ReservedForBoot, SectorsPerFat, <<"ram", FATRAMPos>>)
       /\ At(1)
    \/ /\ request.ret = "next"
       /\ FatInRAM
       /\ Requested(CurrentCluster + DataPointer - 2, 1, <<"high", position>>)
       /\ \E i \in Nat : At(i) /\ Loaded(i - 1)

BootInv ==
    /\ Disk
    /\ DOMAIN ram = 0..(RamTop - 1)
    /\ DOMAIN high = 0..(Span - 1)
    /\ pc = "read" => Reading
    /\ pc = "load" => FatInRAM /\ \E i \in Nat : At(i) /\ Loaded(i - 1)
    /\ pc = "next" => FatInRAM /\ \E i \in Nat : At(i) /\ Loaded(i)
    /\ pc = "kernel" => Loaded(Len(file))

\* What a read into the first 64 KB stores.
LEMMA StoreLow ==
    ASSUME NEW n, NEW first, Store(n), request.to = <<"ram", first>>
    PROVE  /\ DOMAIN ram' = DOMAIN ram
           /\ \A s \in DOMAIN ram :
                 ram'[s] = IF s \in first..(first + n - 1)
                           THEN <<request.drive, Lba(request.place) + (s - first)>>
                           ELSE ram[s]
           /\ high' = high
  BY DEF Store

\* What a read from FFFF:0010 on stores.
LEMMA StoreHigh ==
    ASSUME NEW n \in Nat, NEW first, Store(n), request.to = <<"high", first>>
    PROVE  /\ ram' = ram
           /\ n = 0 => high' = high
           /\ n # 0 => /\ DOMAIN high' = DOMAIN high
                       /\ \A s \in DOMAIN high :
                             high'[s] = IF s = first
                                        THEN <<request.drive, Lba(request.place) + 0>>
                                        ELSE high[s]
  BY DEF Store

\* A read leaves the domains of memory.
LEMMA StoreDomains ==
    ASSUME NEW n, Store(n)
    PROVE  DOMAIN ram' = DOMAIN ram /\ DOMAIN high' = DOMAIN high
  BY DEF Store

\* Every step keeps the invariant.
LEMMA BootStep ==
    ASSUME BootInv, [BootNext]_bootVars
    PROVE  BootInv'
<1>0. /\ Disk /\ DOMAIN ram = 0..(RamTop - 1) /\ DOMAIN high = 0..(Span - 1)
      /\ Len(file) \in Nat \ {0}
  BY FileFacts DEF BootInv
\* The disk stays as it is.
<1>a. ASSUME UNCHANGED disk
      PROVE  /\ file' = file /\ BootDevice' = BootDevice
             /\ Disk'
  BY <1>0, <1>a DEF disk, Disk
\* Outside load_file nothing is claimed.
<1>b. ASSUME UNCHANGED disk, DOMAIN ram' = DOMAIN ram, DOMAIN high' = DOMAIN high,
             pc' \notin {"read", "load", "next", "kernel"}
      PROVE  BootInv'
  BY <1>0, <1>a, <1>b DEF BootInv
\* A read whose result is of no concern begins.
<1>c. ASSUME UNCHANGED disk, UNCHANGED <<ram, high>>, pc' = "read",
             request'.ret \in {"second", "find"}
      PROVE  BootInv'
  BY <1>0, <1>a, <1>c DEF BootInv, Reading
\* What is in memory and where load_file is, if neither changes.
<1>d. ASSUME UNCHANGED <<disk, CurrentCluster, position>>
      PROVE  /\ \A i : At(i)' <=> At(i)
             /\ high' = high => \A n : Loaded(n)' <=> Loaded(n)
             /\ ram' = ram /\ FatInRAM => FatInRAM'
  BY <1>a, <1>d DEF At, Loaded, FatInRAM
<1>1. CASE FirstBootStart
  <2>1. request'.ret = "second" /\ pc' = "read"
    BY <1>1 DEF FirstBootStart, Read
  <2> QED
    BY <1>1, <1>c, <2>1 DEF FirstBootStart
<1>2. CASE SecondBootStart \/ GetMemCount \/ Reboot
  BY <1>2, <1>b DEF SecondBootStart, GetMemCount, Reboot
<1>3. CASE OpenA20 \/ KeyboardA20
  <2>1. CASE ReadRootDir
    <3>1. request'.ret = "find" /\ pc' = "read" /\ UNCHANGED <<disk, ram, high>>
      BY <2>1 DEF ReadRootDir, Read
    <3> QED
      BY <1>c, <3>1
  <2>2. CASE pc' = "keyboard" /\ UNCHANGED <<disk, ram, high>>
    BY <1>b, <2>2
  <2> QED
    BY <1>3, <2>1, <2>2 DEF OpenA20, KeyboardA20
<1>4. CASE LoadFat
  <2>1. CASE pc' = "reboot"
    BY <1>4, <1>b, <2>1 DEF LoadFat
  <2>2. CASE /\ Read(BootDevice, ReservedForBoot, SectorsPerFat,
                     <<"ram", FATRAMPos>>, "load")
             /\ CurrentCluster' = file[1]
             /\ position' = 0
    <3>1. /\ UNCHANGED disk /\ ram' = ram /\ high' = high /\ pc' = "read"
          /\ request' = [drive |-> BootDevice, place |-> LogicalToHts(ReservedForBoot),
                         number |-> SectorsPerFat % 256,
                         to |-> <<"ram", FATRAMPos>>, ret |-> "load"]
      BY <1>4, <2>2 DEF LoadFat, Read
    <3>2. SectorsPerFat % 256 = SectorsPerFat
      BY BootAssumption
    <3>3. Lba(LogicalToHts(ReservedForBoot)) = ReservedForBoot
      BY HtsOfLba, Parameters
    <3>4. Requested(ReservedForBoot, SectorsPerFat, <<"ram", FATRAMPos>>)'
      BY <1>a, <3>1, <3>2, <3>3 DEF Requested, Lba
    <3>5. At(1)'
      <4>1. 0 % Span = 0 /\ 1 - 1 = 0 /\ 1 \in 1..Len(file)
        BY <1>0, NextPosition, Parameters
      <4> QED
        BY <1>a, <2>2, <3>1, <4>1 DEF At
    <3> QED
      BY <1>0, <1>a, <3>1, <3>4, <3>5 DEF BootInv, Reading
  <2> QED
    BY <1>4, <2>1, <2>2 DEF LoadFat
<1>5. CASE LoadSector
  <2>1. /\ UNCHANGED disk /\ ram' = ram /\ high' = high /\ pc' = "read"
        /\ UNCHANGED <<CurrentCluster, position>>
        /\ request' = [drive |-> BootDevice,
                       place |-> LogicalToHts(CurrentCluster + DataPointer - 2),
                       number |-> 1 % 256,
                       to |-> <<"high", position>>, ret |-> "next"]
    BY <1>5 DEF LoadSector, Read
  <2>2. PICK i \in Nat : FatInRAM /\ At(i) /\ Loaded(i - 1)
    BY <1>5 DEF LoadSector, BootInv
  <2>3. CurrentCluster \in Clusters
    BY <1>0, <2>2, FileFacts DEF At
  <2>4. CurrentCluster + DataPointer - 2 \in Nat
    BY <2>3, ClusterType, Layout
  <2>5. Lba(LogicalToHts(CurrentCluster + DataPointer - 2))
          = CurrentCluster + DataPointer - 2
    BY <2>4, HtsOfLba
  <2>6. Requested(CurrentCluster + DataPointer - 2, 1, <<"high", position>>)'
    BY <1>a, <2>1, <2>5 DEF Requested, Lba
  <2>7. FatInRAM' /\ At(i)' /\ Loaded(i - 1)'
    BY <1>d, <2>1, <2>2
  <2> QED
    BY <1>0, <1>a, <2>1, <2>6, <2>7 DEF BootInv, Reading
<1>6. CASE NextCluster
  <2>1. /\ UNCHANGED disk /\ ram' = ram /\ high' = high
        /\ position' = (position + 1) % Span
        /\ CurrentCluster' = NextInChain(CurrentCluster)
        /\ pc' = IF CurrentCluster' >= 4088 THEN "kernel" ELSE "load"
    BY <1>6 DEF NextCluster
  <2>2. PICK i \in Nat : FatInRAM /\ At(i) /\ Loaded(i)
    BY <1>6 DEF NextCluster, BootInv
  <2>3. i \in 1..Len(file) /\ CurrentCluster = file[i] /\ CurrentCluster \in Clusters
    BY <1>0, <2>2, FileFacts DEF At
  <2>4. CurrentCluster' = IF i = Len(file) THEN eof ELSE file[i + 1]
    <3>1. i \in DOMAIN file
      BY <1>0, <2>3, FileFacts
    <3> QED
      BY <1>0, <2>1, <2>2, <2>3, <3>1, NextInChainIsEntry, EntryOfFile
  <2>5. FatInRAM' /\ Loaded(i)'
    BY <1>a, <2>1, <2>2 DEF FatInRAM, Loaded
  <2>6. CASE i = Len(file)
    <3>1. pc' = "kernel"
      BY <1>0, <2>1, <2>4, <2>6, EofType
    <3> QED
      BY <1>0, <1>a, <2>1, <2>5, <2>6, <3>1 DEF BootInv
  <2>7. CASE i # Len(file)
    <3>1. i + 1 \in 1..Len(file) /\ i + 1 \in Nat /\ (i + 1) - 1 = i
      BY <1>0, <2>3, <2>7
    <3>2. CurrentCluster' = file[i + 1] /\ file[i + 1] \in Clusters
      BY <1>0, <2>4, <2>7, <3>1, FileFacts
    <3>3. pc' = "load"
      BY <2>1, <3>2, ClusterType
    <3>4. position' = i % Span
      <4>1. position = (i - 1) % Span /\ i - 1 \in Nat /\ (i - 1) + 1 = i
        BY <2>2, <2>3 DEF At
      <4> QED
        BY <2>1, <4>1, NextPosition
    <3>5. At(i + 1)'
      BY <1>a, <2>1, <3>1, <3>2, <3>4 DEF At
    <3>6. Loaded((i + 1) - 1)'
      BY <2>5, <3>1
    <3> QED
      BY <1>0, <1>a, <2>1, <2>5, <3>1, <3>3, <3>5, <3>6 DEF BootInv
  <2> QED
    BY <2>6, <2>7
<1>7. CASE ReadFromDisk
  <2>1. UNCHANGED <<disk, a20, request, CurrentCluster, position>> /\ Reading
    BY <1>7 DEF ReadFromDisk, BootInv
  \* All of it stored, or the first n sectors and tried again, or given up.
  <2>2. PICK n : /\ Store(n)
                 /\ \/ n = request.number /\ pc' \in {"lost", request.ret}
                    \/ n \in 0..(request.number - 1) /\ pc' \in {"lost", "reboot", "read"}
    BY <1>7 DEF ReadFromDisk
  <2>3. DOMAIN ram' = DOMAIN ram /\ DOMAIN high' = DOMAIN high
    BY <2>2, StoreDomains
  <2>4. CASE pc' \in {"lost", "reboot"}
    BY <1>b, <2>1, <2>3, <2>4
  <2>5. CASE request.ret \in {"second", "find"}
    <3>1. CASE pc' = "read"
      BY <1>0, <1>a, <2>1, <2>3, <2>5, <3>1 DEF BootInv, Reading
    <3>2. CASE pc' \in {"second", "find"}
      BY <1>b, <2>1, <2>3, <3>2
    <3> QED
      BY <2>2, <2>4, <2>5, <3>1, <3>2
  <2>6. CASE /\ request.ret = "load"
             /\ Requested(ReservedForBoot, SectorsPerFat, <<"ram", FATRAMPos>>)
             /\ At(1)
    <3>1. At(1)' /\ request' = request
      BY <1>d, <2>1, <2>6
    <3>2. CASE pc' = "read"
      <4>1. Requested(ReservedForBoot, SectorsPerFat, <<"ram", FATRAMPos>>)'
        BY <1>a, <2>1, <2>6 DEF Requested, Lba
      <4> QED
        BY <1>0, <1>a, <2>1, <2>3, <2>6, <3>1, <3>2, <4>1 DEF BootInv, Reading
    <3>3. CASE pc' = "load" /\ n = request.number
      <4>1. \A s \in DOMAIN ram :
               ram'[s] = IF s \in FATRAMPos..(FATRAMPos + SectorsPerFat - 1)
                         THEN <<BootDevice, ReservedForBoot + (s - FATRAMPos)>>
                         ELSE ram[s]
        BY <2>2, <2>6, <3>3, StoreLow DEF Requested
      <4>2. FatInRAM'
        <5> SUFFICES ASSUME NEW k \in 0..(SectorsPerFat - 1)
                     PROVE  ram'[FATRAMPos + k] = <<BootDevice, ReservedForBoot + k>>
          BY <1>a, <2>1 DEF FatInRAM
        <5>1. /\ FATRAMPos + k \in DOMAIN ram
              /\ FATRAMPos + k \in FATRAMPos..(FATRAMPos + SectorsPerFat - 1)
              /\ (FATRAMPos + k) - FATRAMPos = k
          BY <1>0, Layout, Parameters
        <5> QED
          BY <4>1, <5>1
      <4>3. Loaded(1 - 1)'
        BY DEF Loaded
      <4> QED
        BY <1>0, <1>a, <2>1, <2>3, <3>1, <3>3, <4>2, <4>3 DEF BootInv
    <3> QED
      BY <2>2, <2>4, <2>6, <3>2, <3>3
  <2>7. CASE /\ request.ret = "next"
             /\ FatInRAM
             /\ Requested(CurrentCluster + DataPointer - 2, 1, <<"high", position>>)
             /\ \E i \in Nat : At(i) /\ Loaded(i - 1)
    <3>1. PICK i \in Nat : At(i) /\ Loaded(i - 1)
      BY <2>7
    <3>2. n \in Nat /\ request.to = <<"high", position>> /\ request.number = 1
      BY <2>2, <2>7 DEF Requested
    <3>3. ram' = ram
      BY <2>2, <3>2, StoreHigh
    <3>4. FatInRAM' /\ At(i)'
      BY <1>d, <2>1, <2>7, <3>1, <3>3
    <3>5. CASE pc' = "read" /\ n \in 0..(request.number - 1)
      <4>1. high' = high
        BY <2>2, <3>2, <3>5, StoreHigh
      <4>2. Loaded(i - 1)'
        BY <1>d, <2>1, <3>1, <4>1
      <4>3. Requested(CurrentCluster + DataPointer - 2, 1, <<"high", position>>)'
        BY <1>a, <2>1, <2>7 DEF Requested, Lba
      <4> QED
        BY <1>0, <1>a, <2>1, <2>3, <2>7, <3>4, <3>5, <4>2, <4>3 DEF BootInv, Reading
    <3>6. CASE pc' = "next" /\ n = request.number
      <4>1. \A s \in DOMAIN high :
               high'[s] = IF s = position
                          THEN <<BootDevice, CurrentCluster + DataPointer - 2 + 0>>
                          ELSE high[s]
        BY <2>2, <2>7, <3>2, <3>6, StoreHigh DEF Requested
      <4>2. Loaded(i)'
        <5> SUFFICES ASSUME Len(file) <= Span, NEW j \in 1..i
                     PROVE  high'[j - 1] = <<BootDevice, file[j] + DataPointer - 2>>
          BY <1>a, <2>1 DEF Loaded
        <5>1. /\ i \in 1..Len(file) /\ CurrentCluster = file[i]
              /\ i - 1 \in Nat /\ i - 1 < Span /\ position = i - 1
          <6>1. /\ i \in 1..Len(file) /\ CurrentCluster = file[i]
                /\ position = (i - 1) % Span
            BY <3>1 DEF At
          <6>2. i - 1 \in Nat /\ i - 1 < Span
            BY <1>0, <6>1, Parameters
          <6>3. (i - 1) % Span = i - 1
            BY <6>2, NextPosition
          <6> QED
            BY <6>1, <6>2, <6>3
        <5>2. j - 1 \in DOMAIN high
          BY <1>0, <5>1, Parameters
        <5>3. CASE j = i
          <6>1. CurrentCluster + DataPointer - 2 + 0 = file[j] + DataPointer - 2
            <7>1. CurrentCluster \in Nat
              BY <1>0, <5>1, FileFacts, ClusterType
            <7> QED
              BY <5>1, <5>3, <7>1, Layout
          <6> QED
            BY <4>1, <5>1, <5>2, <5>3, <6>1
        <5>4. CASE j # i
          <6>1. j \in 1..(i - 1) /\ j - 1 # position
            BY <5>1, <5>4
          <6> QED
            BY <3>1, <4>1, <5>2, <6>1 DEF Loaded
        <5> QED
          BY <5>3, <5>4
      <4> QED
        BY <1>0, <1>a, <2>1, <2>3, <3>4, <3>6, <4>2 DEF BootInv
    <3> QED
      BY <2>2, <2>4, <2>7, <3>5, <3>6
  <2> QED
    BY <2>1, <2>5, <2>6, <2>7 DEF Reading
<1>8. CASE UNCHANGED bootVars
  <2>1. UNCHANGED <<disk, pc, ram, high, request, CurrentCluster, position>>
    BY <1>8 DEF bootVars, locals
  <2>2. /\ \A i : At(i)' <=> At(i)
        /\ \A n : Loaded(n)' <=> Loaded(n)
        /\ FatInRAM => FatInRAM'
    BY <1>d, <2>1
  <2>3. \A l, n, t : Requested(l, n, t)' <=> Requested(l, n, t)
    BY <1>a, <2>1 DEF Requested, Lba
  <2>4. Reading => Reading'
    BY <2>1, <2>2, <2>3 DEF Reading
  <2> QED
    BY <1>0, <1>a, <2>1, <2>2, <2>4 DEF BootInv
<1> QED
  BY <1>1, <1>2, <1>3, <1>4, <1>5, <1>6, <1>7, <1>8 DEF BootNext, Boot

\* The invariant holds throughout, reboots included.
LEMMA BootAlways == BootSpec => []BootInv
<1>1. BootInit => BootInv
  <2> SUFFICES ASSUME BootInit PROVE BootInv
    OBVIOUS
  <2>1. PICK n \in 1..Cardinality(Clusters) :
           file \in {s \in [1..n -> Clusters] : IsInjective(s)}
    BY DEF BootInit
  <2>2. n \in Nat \ {0}
    BY <2>1
  <2>3. Disk
    BY <2>1, <2>2 DEF BootInit, Disk, IsInjective
  <2> QED
    BY <2>3 DEF BootInit, BootInv
<1> QED
  BY <1>1, BootStep, PTL DEF BootSpec

\* load_file follows the chain of the kernel file through the table in memory,
\* for every geometry and wherever an entry's 12 bits lie in the sectors, and
\* whatever the reads before the FAT's stored in its place.
THEOREM ChainFollowed == BootSpec => []FollowsChain
<1>1. BootInv => FollowsChain
  BY FileFacts DEF BootInv, FollowsChain, At
<1> QED
  BY <1>1, BootAlways, PTL

\* The kernel is entered with every cluster of its file in place, after any
\* failures and reboots, if it is not larger than what BX spans.
THEOREM KernelLoaded == BootSpec => []KernelInPlace
<1>1. BootInv => KernelInPlace
  BY FileFacts DEF BootInv, KernelInPlace, Loaded
<1> QED
  BY <1>1, BootAlways, PTL

-----------------------------------------------------------------------------
(* The paper *)

\* Where the next character goes.
NextPlace(p, x) ==
    IF x.character = "\n" THEN screen_width * (p \div screen_width + 1)
    ELSE p + 1

\* Paper, of any text t that was begun at s.
PaperOf(t, s) ==
    LET pos[k \in 0..Len(t)] ==
            IF k = 0 THEN s
            ELSE IF t[k].character = "\n"
                 THEN screen_width * (pos[k - 1] \div screen_width + 1)
                 ELSE pos[k - 1] + 1
    IN  pos

\* What the constants are to arithmetic.
LEMMA ScreenSize ==
    /\ screen_width \in Nat \ {0} /\ screen_height \in Nat \ {0}
    /\ Size \in Nat \ {0} /\ Start \subseteq Cells
    /\ screen_width * (screen_height - 1) = Size - screen_width
    /\ Size - screen_width \in Nat
<1>1. screen_width \in Nat \ {0} /\ screen_height \in Nat \ {0}
  BY TerminalAssumption
<1>2. Size \in Nat \ {0} /\ Start \subseteq Cells
  <2>1. Size \in Nat /\ Size # 0
    BY <1>1 DEF Size
  <2> QED
    BY <2>1, TerminalAssumption DEF Size, Cells
<1>3. /\ screen_width * (screen_height - 1) = Size - screen_width
      /\ screen_width * (screen_height - 1) \in Nat
  BY <1>1 DEF Size
<1> QED
  BY <1>1, <1>2, <1>3

\* Rows and columns of the paper.
LEMMA Rows ==
    ASSUME NEW p \in Nat
    PROVE  /\ p \div screen_width \in Nat
           /\ (p \div screen_width) * screen_width <= p
           /\ p < (p \div screen_width + 1) * screen_width
           /\ \A m \in Nat, r \in 0..(screen_width - 1) :
                 (m * screen_width + r) \div screen_width = m
<1> DEFINE w == screen_width
           q == p \div w
<1>1. w \in Nat \ {0}
  BY ScreenSize
<1>2. q \in Nat /\ p % w \in 0..(w - 1) /\ p = q * w + (p % w)
  BY <1>1, DivMod
<1> HIDE DEF q
<1>3. q * w \in Nat /\ (q + 1) * w = q * w + w
  BY <1>1, <1>2
<1>4. q * w <= p /\ p < (q + 1) * w
  BY <1>1, <1>2, <1>3
<1>5. \A m \in Nat, r \in 0..(w - 1) : (m * w + r) \div w = m
  BY <1>1, DivUnique
<1> QED
  BY <1>2, <1>4, <1>5 DEF q

\* The next character goes further down, and the paper is endless.
LEMMA NextTyped ==
    ASSUME NEW p \in Nat, NEW x
    PROVE  NextPlace(p, x) \in Nat /\ p < NextPlace(p, x)
<1> DEFINE q == p \div screen_width
<1>1. /\ q \in Nat /\ p < (q + 1) * screen_width /\ screen_width \in Nat
      /\ (q + 1) * screen_width = screen_width * (q + 1)
  BY Rows, ScreenSize
<1>2. screen_width * (q + 1) \in Nat
  BY <1>1
<1> HIDE DEF q
<1> QED
  BY <1>1, <1>2 DEF NextPlace, q

\* The recursion has a value, which is the paper.
LEMMA PaperExists ==
    ASSUME NEW S, NEW t \in Seq(S), NEW s \in Nat
    PROVE  /\ PaperOf(t, s) \in [0..Len(t) -> Nat]
           /\ PaperOf(t, s)[0] = s
           /\ \A k \in 1..Len(t) :
                 PaperOf(t, s)[k] = NextPlace(PaperOf(t, s)[k - 1], t[k])
<1> DEFINE N == Len(t)
           Rest(P) == [k \in 0..N |->
                         IF k = 0 THEN s
                         ELSE IF t[k].character = "\n"
                              THEN screen_width * (P[k - 1] \div screen_width + 1)
                              ELSE P[k - 1] + 1]
           G == [k \in 1..N |-> [p \in Nat |-> NextPlace(p, t[k])]]
<1>1. N \in Nat
  OBVIOUS
<1>2. G \in [1..N -> [Nat -> Nat]]
  BY NextTyped
<1>3. \A k \in 1..N, p \in Nat : G[k][p] = NextPlace(p, t[k])
  OBVIOUS
<1> HIDE DEF N, G
<1>4. PICK P : Iterates(P, N, Nat, s, G)
  BY <1>1, <1>2, Recursion
<1>5. /\ P[0] = s /\ P \in [0..N -> Nat]
      /\ \A k \in 1..N : P[k] = NextPlace(P[k - 1], t[k])
  <2>1. P[0] = s /\ P \in [0..N -> Nat]
    BY <1>4 DEF Iterates
  <2>2. ASSUME NEW k \in 1..N
        PROVE  P[k] = NextPlace(P[k - 1], t[k])
    <3>1. P[k] = G[k][P[k - 1]] /\ k - 1 \in 0..N
      BY <1>1, <1>4 DEF Iterates
    <3>2. P[k - 1] \in Nat
      BY <2>1, <3>1
    <3> QED
      BY <1>3, <3>1, <3>2
  <2> QED
    BY <2>1, <2>2
<1>6. P = Rest(P)
  <2>1. \A k \in 0..N : P[k] = Rest(P)[k]
    BY <1>1, <1>5 DEF NextPlace
  <2> QED
    BY <1>5, <2>1
<1>7. PaperOf(t, s) = CHOOSE V : V = Rest(V)
  BY Zenon DEF PaperOf, N
<1>8. PaperOf(t, s) = Rest(PaperOf(t, s))
  BY <1>6, <1>7, Zenon
<1> DEFINE Q == PaperOf(t, s)
<1>9. /\ DOMAIN Q = 0..N /\ Q = [k \in 0..N |-> Q[k]] /\ Q[0] = s
      /\ \A k \in 1..N : Q[k] = NextPlace(Q[k - 1], t[k])
  <2> HIDE DEF Q
  <2>1. Q = Rest(Q)
    BY <1>8 DEF Q
  <2>2. DOMAIN Q = 0..N /\ Q = [k \in 0..N |-> Q[k]] /\ Q[0] = s
    BY <1>1, <2>1
  <2>3. \A k \in 1..N : Q[k] = NextPlace(Q[k - 1], t[k])
    BY <1>1, <2>1 DEF NextPlace
  <2> QED
    BY <2>2, <2>3
<1> HIDE DEF Q
<1>10. \A k \in 0..N : Q[k] \in Nat
  <2> DEFINE U == {m \in Nat : m <= N => Q[m] \in Nat}
  <2>1. 0 \in U
    BY <1>9
  <2>2. ASSUME NEW m \in U
        PROVE  m + 1 \in U
    <3> SUFFICES ASSUME m + 1 <= N
                 PROVE  Q[m + 1] \in Nat
      OBVIOUS
    <3>1. m \in Nat /\ m + 1 \in 1..N /\ (m + 1) - 1 = m /\ Q[m] \in Nat
      BY <1>1
    <3>2. Q[m + 1] = NextPlace(Q[m], t[m + 1])
      BY <1>9, <3>1
    <3> QED
      BY <3>1, <3>2, NextTyped
  <2>3. U \in SUBSET Nat
    OBVIOUS
  <2> HIDE DEF U
  <2>4. U = Nat
    BY <2>1, <2>2, <2>3, Induction
  <2> QED
    BY <1>1, <2>4 DEF U
<1>11. Q \in [0..N -> Nat]
  BY <1>9, <1>10
<1> QED
  BY <1>9, <1>11 DEF Q, N

\* A sequence that another element is appended to.
LEMMA AppendFacts ==
    ASSUME NEW S, NEW t \in Seq(S), NEW x
    PROVE  /\ Append(t, x) \in Seq(S \cup {x}) /\ t \in Seq(S \cup {x})
           /\ Len(t) \in Nat /\ Len(Append(t, x)) = Len(t) + 1
           /\ \A k \in 1..Len(t) : Append(t, x)[k] = t[k]
           /\ Append(t, x)[Len(t) + 1] = x
<1>1. t \in Seq(S \cup {x}) /\ x \in S \cup {x}
  OBVIOUS
<1> QED
  BY <1>1

\* What has been printed stays where it is on the paper.
LEMMA PaperAppend ==
    ASSUME NEW S, NEW t \in Seq(S), NEW x, NEW s \in Nat
    PROVE  /\ \A k \in 0..Len(t) :
                 PaperOf(Append(t, x), s)[k] = PaperOf(t, s)[k]
           /\ PaperOf(Append(t, x), s)[Len(t) + 1]
                 = NextPlace(PaperOf(t, s)[Len(t)], x)
<1> DEFINE u == Append(t, x)
           N == Len(t)
           P == PaperOf(t, s)
           Q == PaperOf(u, s)
<1>1. /\ u \in Seq(S \cup {x}) /\ N \in Nat /\ Len(u) = N + 1
      /\ \A k \in 1..N : u[k] = t[k]
      /\ u[N + 1] = x
  BY AppendFacts
<1> HIDE DEF u
<1>2. /\ P[0] = s /\ \A k \in 1..N : P[k] = NextPlace(P[k - 1], t[k])
  BY PaperExists
<1>3. /\ Q[0] = s /\ \A k \in 1..(N + 1) : Q[k] = NextPlace(Q[k - 1], u[k])
  <2>1. Q[0] = s /\ \A k \in 1..Len(u) : Q[k] = NextPlace(Q[k - 1], u[k])
    <3>1. u \in Seq(S \cup {x})
      BY <1>1
    <3> QED
      BY <3>1, PaperExists
  <2> HIDE DEF Q
  <2> QED
    BY <1>1, <2>1
<1> HIDE DEF N, P, Q
<1>4. \A k \in 0..N : Q[k] = P[k]
  <2> DEFINE U == {m \in Nat : m <= N => Q[m] = P[m]}
  <2>1. 0 \in U
    BY <1>2, <1>3
  <2>2. ASSUME NEW m \in U
        PROVE  m + 1 \in U
    <3> SUFFICES ASSUME m + 1 <= N
                 PROVE  Q[m + 1] = P[m + 1]
      OBVIOUS
    <3>1. /\ m \in Nat /\ m + 1 \in 1..N /\ m + 1 \in 1..(N + 1)
          /\ (m + 1) - 1 = m /\ Q[m] = P[m]
      BY <1>1
    <3> QED
      BY <1>1, <1>2, <1>3, <3>1
  <2>3. U \in SUBSET Nat
    OBVIOUS
  <2> HIDE DEF U
  <2>4. U = Nat
    BY <2>1, <2>2, <2>3, Induction
  <2> QED
    BY <1>1, <2>4 DEF U
<1>5. Q[N + 1] = NextPlace(P[N], x)
  <2>1. N + 1 \in 1..(N + 1) /\ (N + 1) - 1 = N /\ N \in 0..N
    BY <1>1
  <2> QED
    BY <1>1, <1>3, <1>4, <2>1
<1> QED
  BY <1>4, <1>5 DEF u, N, P, Q

\* No character is above the one before it.
LEMMA PaperGrows ==
    ASSUME NEW S, NEW t \in Seq(S), NEW s \in Nat
    PROVE  \A k \in 1..Len(t) :
              PaperOf(t, s)[k - 1] < PaperOf(t, s)[Len(t)]
<1> DEFINE N == Len(t)
           P == PaperOf(t, s)
           U == {m \in Nat : m <= N => \A k \in 1..m : P[k - 1] < P[m]}
<1>1. /\ N \in Nat /\ P \in [0..N -> Nat]
      /\ \A k \in 1..N : P[k] = NextPlace(P[k - 1], t[k])
  BY PaperExists
<1> HIDE DEF N, P
<1>2. \A k \in 0..N : P[k] \in Nat
  BY <1>1
<1>3. 0 \in U
  OBVIOUS
<1>4. ASSUME NEW m \in U
      PROVE  m + 1 \in U
  <2> SUFFICES ASSUME m + 1 <= N, NEW k \in 1..(m + 1)
               PROVE  P[k - 1] < P[m + 1]
    OBVIOUS
  <2>1. /\ m \in Nat /\ m \in 0..N /\ m + 1 \in 1..N /\ m + 1 \in 0..N
        /\ (m + 1) - 1 = m /\ k - 1 \in 0..N
    BY <1>1
  <2>2. P[m] < P[m + 1]
    BY <1>1, <1>2, <2>1, NextTyped
  <2>3. CASE k = m + 1
    BY <2>1, <2>2, <2>3
  <2>4. CASE k # m + 1
    <3>1. k \in 1..m
      BY <2>1, <2>4
    <3>2. P[k - 1] < P[m]
      BY <2>1, <3>1
    <3>3. P[k - 1] \in Nat /\ P[m] \in Nat /\ P[m + 1] \in Nat
      BY <1>2, <2>1
    <3> QED
      BY <2>2, <3>2, <3>3
  <2> QED
    BY <2>3, <2>4
<1>5. U \in SUBSET Nat
  OBVIOUS
<1> HIDE DEF U
<1>6. U = Nat
  BY <1>3, <1>4, <1>5, Induction
<1> QED
  BY <1>1, <1>6 DEF U, N, P

-----------------------------------------------------------------------------
(* Scrolling *)

\* scroll moves every row up by one and clears the last, although it copies
\* the rows one by one inside the same buffer.
LEMMA ScrollFacts ==
    ASSUME NEW buf, DOMAIN buf = Cells
    PROVE  /\ DOMAIN Scroll(buf) = Cells
           /\ \A i \in Cells :
                 Scroll(buf)[i] = IF i < Size - screen_width
                                  THEN buf[i + screen_width] ELSE ZeroCell
<1> DEFINE W == screen_width
           H == screen_height
           N == H - 1
           \* The buffer when the rows up to k have moved.
           Mid(k) == [c \in Cells |-> IF c < W * k THEN buf[c + W] ELSE buf[c]]
           V == [k \in 0..N |-> IF k = 0 THEN buf ELSE Mid(k)]
           Copy(b, k) == Memcpy(b, W * (k - 1), W * k, W)
           Rest(M) == [k \in 0..N |-> IF k = 0 THEN buf ELSE Copy(M[k - 1], k)]
<1>1. /\ W \in Nat \ {0} /\ H \in Nat \ {0} /\ N \in Nat /\ Size \in Nat \ {0}
      /\ W * N = Size - W /\ W * N \in Nat
  BY ScreenSize
<1>2. \A k \in 0..N : W * k \in Nat /\ W * k <= Size - W
  <2> SUFFICES ASSUME NEW k \in 0..N
               PROVE  W * k \in Nat /\ W * k <= Size - W
    OBVIOUS
  <2>1. W * k <= W * N /\ W * k \in Nat
    BY <1>1
  <2> QED
    BY <1>1, <2>1
<1>3. ASSUME NEW k \in 1..N, NEW b, DOMAIN b = Cells,
             \A c \in Cells : b[c] = IF c < W * (k - 1) THEN buf[c + W] ELSE buf[c]
      PROVE  Copy(b, k) = Mid(k)
  <2> DEFINE d == W * (k - 1)
             e == W * k
  <2>1. e = d + W /\ d \in Nat /\ e \in Nat /\ e <= Size - W
    <3>1. k - 1 \in 0..N /\ k \in 0..N /\ W * k = W * (k - 1) + W
      BY <1>1
    <3> QED
      BY <1>2, <3>1
  <2>2. Copy(b, k) = [i \in Cells |->
                        IF i \in d..(d + W - 1) THEN b[e + (i - d)] ELSE b[i]]
    BY <1>3 DEF Memcpy
  <2>3. Mid(k) = [c \in Cells |-> IF c < e THEN buf[c + W] ELSE buf[c]]
    OBVIOUS
  <2> HIDE DEF d, e, Copy, Mid
  <2>4. ASSUME NEW i \in Cells
        PROVE  (IF i \in d..(d + W - 1) THEN b[e + (i - d)] ELSE b[i])
                  = IF i < e THEN buf[i + W] ELSE buf[i]
    <3>1. i \in Nat /\ i < Size
      BY <1>1 DEF Cells
    <3>2. CASE i \in d..(d + W - 1)
      <4>1. e + (i - d) = i + W /\ i + W \in Cells /\ ~(i + W < d) /\ i < e
        BY <1>1, <2>1, <3>1, <3>2 DEF Cells
      <4>2. b[i + W] = buf[i + W]
        BY <1>3, <4>1 DEF d
      <4> QED
        BY <3>2, <4>1, <4>2
    <3>3. CASE i \notin d..(d + W - 1)
      <4>1. b[i] = IF i < d THEN buf[i + W] ELSE buf[i]
        BY <1>3 DEF d
      <4>2. i < d <=> i < e
        BY <1>1, <2>1, <3>1, <3>3
      <4> QED
        BY <3>3, <4>1, <4>2
    <3> QED
      BY <3>2, <3>3
  <2> QED
    BY <2>2, <2>3, <2>4
<1>4. \A k \in 1..N : V[k] = Copy(V[k - 1], k)
  <2> SUFFICES ASSUME NEW k \in 1..N
               PROVE  V[k] = Copy(V[k - 1], k)
    OBVIOUS
  <2>1. k \in 0..N /\ k # 0 /\ k - 1 \in 0..N /\ V[k] = Mid(k)
    BY <1>1
  <2> DEFINE b == V[k - 1]
  <2>2. CASE k = 1
    <3>1. b = buf /\ W * (k - 1) = 0
      BY <1>1, <2>1, <2>2
    <3>2. \A c \in Cells : b[c] = IF c < W * (k - 1) THEN buf[c + W] ELSE buf[c]
      BY <1>1, <3>1 DEF Cells
    <3>3. DOMAIN b = Cells
      BY <3>1
    <3> HIDE DEF b, Copy, Mid, V
    <3> QED
      BY <1>3, <2>1, <3>2, <3>3 DEF b
  <2>3. CASE k # 1
    <3>1. b = Mid(k - 1)
      BY <1>1, <2>1, <2>3
    <3>2. \A c \in Cells : b[c] = IF c < W * (k - 1) THEN buf[c + W] ELSE buf[c]
      BY <3>1
    <3>3. DOMAIN b = Cells
      BY <3>1
    <3> HIDE DEF b, Copy, Mid, V
    <3> QED
      BY <1>3, <2>1, <3>2, <3>3 DEF b
  <2> QED
    BY <2>2, <2>3
<1>5. V = Rest(V)
  <2> HIDE DEF Copy, Mid
  <2>2. V = [k \in 0..N |-> V[k]] /\ V[0] = buf
    BY <1>1
  <2> HIDE DEF V
  <2>1. \A k \in 0..N : V[k] = Rest(V)[k]
    <3> SUFFICES ASSUME NEW k \in 0..N
                 PROVE  V[k] = Rest(V)[k]
      OBVIOUS
    <3>1. Rest(V)[k] = IF k = 0 THEN buf ELSE Copy(V[k - 1], k)
      OBVIOUS
    <3>2. k # 0 => k \in 1..N
      BY <1>1
    <3> HIDE DEF Rest
    <3> QED
      BY <1>4, <2>2, <3>1, <3>2
  <2>3. Rest(V) = [k \in 0..N |-> Rest(V)[k]]
    OBVIOUS
  <2> HIDE DEF Rest
  <2> QED
    BY <2>1, <2>2, <2>3
<1> DEFINE M == CHOOSE X : X = Rest(X)
<1>6. Scroll(buf) = Memset(M[H - 1], W * (H - 1), W)
  BY Zenon DEF Scroll
<1>7. M = Rest(M)
  <2> HIDE DEF Rest
  <2> QED
    BY <1>5, Zenon
<1>8. \A k \in 0..N : M[k] = V[k]
  <2> DEFINE U == {m \in Nat : m <= N => M[m] = V[m]}
  <2> HIDE DEF Copy, V, M
  <2>1. M[0] = buf /\ \A k \in 1..N : M[k] = Copy(M[k - 1], k)
    BY <1>1, <1>7
  <2>2. V[0] = buf
    BY <1>1 DEF V
  <2>3. 0 \in U
    BY <2>1, <2>2
  <2>4. ASSUME NEW m \in U
        PROVE  m + 1 \in U
    <3> SUFFICES ASSUME m + 1 <= N
                 PROVE  M[m + 1] = V[m + 1]
      OBVIOUS
    <3>1. m \in Nat /\ m + 1 \in 1..N /\ (m + 1) - 1 = m /\ M[m] = V[m]
      BY <1>1
    <3> QED
      BY <1>4, <2>1, <3>1
  <2>5. U \in SUBSET Nat
    OBVIOUS
  <2> HIDE DEF U
  <2>6. U = Nat
    BY <2>3, <2>4, <2>5, Induction
  <2> QED
    BY <1>1, <2>6 DEF U
<1> HIDE DEF M
<1>9. /\ DOMAIN M[N] = Cells
      /\ \A c \in Cells : M[N][c] = IF c < W * N THEN buf[c + W] ELSE buf[c]
  <2>1. M[N] = V[N]
    <3>1. N \in 0..N
      BY <1>1
    <3> HIDE DEF N, V
    <3> QED
      BY <1>8, <3>1
  <2>2. CASE N = 0
    <3>1. M[N] = buf /\ W * N = 0
      BY <1>1, <2>1, <2>2
    <3> QED
      BY <1>1, <3>1 DEF Cells
  <2>3. CASE N # 0
    <3>1. M[N] = Mid(N)
      BY <1>1, <2>1, <2>3
    <3> QED
      BY <3>1
  <2> QED
    BY <2>2, <2>3
<1>10. Scroll(buf) = [i \in Cells |->
                        IF i \in (W * N)..(W * N + W - 1) THEN ZeroCell
                        ELSE M[N][i]]
  BY <1>6, <1>9 DEF Memset
<1>11. ASSUME NEW i \in Cells
       PROVE  (IF i \in (W * N)..(W * N + W - 1) THEN ZeroCell ELSE M[N][i])
                 = IF i < Size - W THEN buf[i + W] ELSE ZeroCell
  <2>1. i \in Nat /\ i < Size
    BY <1>1 DEF Cells
  <2>2. i \in (W * N)..(W * N + W - 1) <=> ~(i < Size - W)
    BY <1>1, <2>1
  <2> QED
    BY <1>1, <1>9, <2>2
<1> QED
  BY <1>10, <1>11

-----------------------------------------------------------------------------
(* The screen *)

\* The characters that stand at q on the paper.
Here(t, s, q) ==
    {k \in 1..Len(t) : PaperOf(t, s)[k - 1] = q /\ t[k].character # "\n"}

\* The cell that shows place q.
CellRight(cell, t, s, q) ==
    \/ \E k \in Here(t, s, q) : cell = t[k]
    \/ Here(t, s, q) = {} /\ cell = IF q < Size THEN BiosCell ELSE ZeroCell

\* A buffer that shows the paper from the place `off` on.
Shows(b, t, s, off) ==
    /\ DOMAIN b = Cells
    /\ \A i \in Cells : CellRight(b[i], t, s, off + i)

\* The screen shows the paper from row m on; when rows have left it, the cursor
\* is in its last row.
Window(b, c, t, s, m) ==
    /\ s \in Cells /\ c \in Cells
    /\ \E S : t \in Seq(S)
    /\ PaperOf(t, s)[Len(t)] = screen_width * m + c
    /\ m = 0 \/ c >= Size - screen_width
    /\ Shows(b, t, s, screen_width * m)

\* Where a character more appears.
LEMMA HereAppend ==
    ASSUME NEW S, NEW t \in Seq(S), NEW x, NEW s \in Nat, NEW q
    PROVE  /\ \A k \in Here(t, s, q) : Append(t, x)[k] = t[k]
           /\ PaperOf(t, s)[Len(t)] # q \/ x.character = "\n"
                => Here(Append(t, x), s, q) = Here(t, s, q)
           /\ PaperOf(t, s)[Len(t)] = q /\ x.character # "\n"
                => Len(t) + 1 \in Here(Append(t, x), s, q)
<1> DEFINE u == Append(t, x)
           N == Len(t)
           P == PaperOf(t, s)
           Q == PaperOf(u, s)
<1>1. /\ N \in Nat /\ Len(u) = N + 1
      /\ \A k \in 1..N : u[k] = t[k]
      /\ u[N + 1] = x
  BY AppendFacts
<1>2. \A k \in 0..N : Q[k] = P[k]
  BY PaperAppend
<1>3. /\ Here(u, s, q) = {k \in 1..(N + 1) : Q[k - 1] = q /\ u[k].character # "\n"}
      /\ Here(t, s, q) = {k \in 1..N : P[k - 1] = q /\ t[k].character # "\n"}
  BY <1>1 DEF Here
<1> HIDE DEF u, N, P, Q
<1>4. \A k \in 1..N : k \in Here(u, s, q) <=> k \in Here(t, s, q)
  <2> SUFFICES ASSUME NEW k \in 1..N
               PROVE  k \in Here(u, s, q) <=> k \in Here(t, s, q)
    OBVIOUS
  <2>1. k \in 1..(N + 1) /\ k - 1 \in 0..N
    BY <1>1
  <2> QED
    BY <1>1, <1>2, <1>3, <2>1
<1>5. N + 1 \in Here(u, s, q) <=> P[N] = q /\ x.character # "\n"
  <2>1. N + 1 \in 1..(N + 1) /\ (N + 1) - 1 = N /\ N \in 0..N
    BY <1>1
  <2> QED
    BY <1>1, <1>2, <1>3, <2>1
<1>6. /\ \A k \in Here(u, s, q) : k \in 1..N \/ k = N + 1
      /\ \A k \in Here(t, s, q) : k \in 1..N
  BY <1>1, <1>3
<1>7. ~(P[N] = q /\ x.character # "\n") => Here(u, s, q) = Here(t, s, q)
  BY <1>4, <1>5, <1>6
<1> QED
  BY <1>1, <1>5, <1>6, <1>7 DEF u, N, P, Q

\* Printing changes no cell but the one of the character.
LEMMA Untouched ==
    ASSUME NEW S, NEW t \in Seq(S), NEW x, NEW s \in Nat, NEW q, NEW cell,
           CellRight(cell, t, s, q),
           PaperOf(t, s)[Len(t)] # q \/ x.character = "\n"
    PROVE  CellRight(cell, Append(t, x), s, q)
<1>1. /\ \A k \in Here(t, s, q) : Append(t, x)[k] = t[k]
      /\ Here(Append(t, x), s, q) = Here(t, s, q)
  BY HereAppend
<1> QED
  BY <1>1 DEF CellRight

\* A character printed into the cell of the cursor.
LEMMA Printed ==
    ASSUME NEW S, NEW t \in Seq(S), NEW x, NEW s \in Nat, NEW b,
           NEW c \in Cells, NEW off \in Nat,
           PaperOf(t, s)[Len(t)] = off + c, Shows(b, t, s, off),
           x.character # "\n"
    PROVE  Shows([b EXCEPT ![c] = x], Append(t, x), s, off)
<1> DEFINE u == Append(t, x)
           d == [b EXCEPT ![c] = x]
<1>1. DOMAIN b = Cells /\ \A i \in Cells : CellRight(b[i], t, s, off + i)
  BY DEF Shows
<1>2. /\ DOMAIN d = Cells /\ d[c] = x
      /\ \A i \in Cells : i # c => d[i] = b[i]
  BY <1>1
<1> HIDE DEF d
<1>3. CellRight(d[c], u, s, off + c)
  <2>1. Len(t) + 1 \in Here(u, s, off + c) /\ u[Len(t) + 1] = x
    BY HereAppend, AppendFacts
  <2> HIDE DEF u
  <2> QED
    BY <1>2, <2>1 DEF CellRight
<1>4. ASSUME NEW i \in Cells, i # c
      PROVE  CellRight(d[i], u, s, off + i)
  <2>1. off + i # off + c
    BY <1>4, ScreenSize DEF Cells
  <2>2. CellRight(b[i], u, s, off + i)
    BY <1>1, <2>1, Untouched
  <2> QED
    BY <1>2, <1>4, <2>2
<1> QED
  BY <1>2, <1>3, <1>4 DEF Shows, d

\* A new line changes no cell.
LEMMA NewLine ==
    ASSUME NEW S, NEW t \in Seq(S), NEW x, NEW s \in Nat, NEW b,
           NEW off \in Nat, Shows(b, t, s, off), x.character = "\n"
    PROVE  Shows(b, Append(t, x), s, off)
  BY Untouched DEF Shows

\* When the next character would be below the screen, it rolls up by a row.
LEMMA Rolled ==
    ASSUME NEW S, NEW u \in Seq(S), NEW s \in Nat, NEW b, NEW m \in Nat,
           PaperOf(u, s)[Len(u)] = screen_width * m + Size,
           Shows(b, u, s, screen_width * m)
    PROVE  Shows(Scroll(b), u, s, screen_width * (m + 1))
<1> DEFINE W == screen_width
           off == W * m
           next == W * (m + 1)
<1>1. /\ W \in Nat \ {0} /\ Size \in Nat \ {0} /\ Size - W \in Nat
      /\ off \in Nat /\ next = off + W
  BY ScreenSize
<1>2. DOMAIN b = Cells /\ \A i \in Cells : CellRight(b[i], u, s, off + i)
  BY DEF Shows
<1>3. /\ DOMAIN Scroll(b) = Cells
      /\ \A i \in Cells : Scroll(b)[i] = IF i < Size - W THEN b[i + W] ELSE ZeroCell
  BY <1>2, ScrollFacts
<1>4. PaperOf(u, s)[Len(u)] = off + Size
  OBVIOUS
<1> HIDE DEF off, next
<1>5. ASSUME NEW i \in Cells
      PROVE  CellRight(Scroll(b)[i], u, s, next + i)
  <2>1. i \in Nat /\ i < Size
    BY <1>1 DEF Cells
  <2>2. CASE i < Size - W
    <3>1. i + W \in Cells /\ off + (i + W) = next + i
      BY <1>1, <2>1, <2>2 DEF Cells
    <3>2. CellRight(b[i + W], u, s, off + (i + W))
      BY <1>2, <3>1
    <3>3. Scroll(b)[i] = b[i + W]
      BY <1>3, <2>2
    <3> QED
      BY <3>1, <3>2, <3>3
  <2>3. CASE ~(i < Size - W)
    <3>1. next + i >= off + Size /\ next + i >= Size /\ off + Size \in Nat
          /\ next + i \in Nat
      BY <1>1, <2>1, <2>3
    <3>2. Here(u, s, next + i) = {}
      <4> SUFFICES ASSUME NEW k \in Here(u, s, next + i)
                   PROVE  FALSE
        OBVIOUS
      <4>1. k \in 1..Len(u) /\ PaperOf(u, s)[k - 1] = next + i
        BY DEF Here
      <4>2. PaperOf(u, s)[k - 1] < PaperOf(u, s)[Len(u)]
        BY <4>1, PaperGrows
      <4>3. next + i < off + Size
        BY <1>4, <4>1, <4>2
      <4> QED
        BY <3>1, <4>3
    <3>3. Scroll(b)[i] = ZeroCell
      BY <1>3, <2>3
    <3>4. ~(next + i < Size)
      BY <1>1, <3>1
    <3> QED
      BY <3>2, <3>3, <3>4 DEF CellRight
  <2> QED
    BY <2>2, <2>3
<1> QED
  BY <1>3, <1>5 DEF Shows, next

\* The column of the cursor counts on the paper as it does on the screen.
LEMMA NextRow ==
    ASSUME NEW m \in Nat, NEW c \in Cells
    PROVE  /\ (c \div screen_width + 1) * screen_width \in Nat
           /\ c < (c \div screen_width + 1) * screen_width
           /\ (c \div screen_width + 1) * screen_width <= Size
           /\ screen_width * ((screen_width * m + c) \div screen_width + 1)
                 = screen_width * m + (c \div screen_width + 1) * screen_width
           /\ (screen_width * m + c) \div screen_width = m + c \div screen_width
           /\ c \div screen_width \in 0..(screen_height - 1)
<1> DEFINE W == screen_width
           H == screen_height
           r == c \div W
           o == c % W
<1>1. W \in Nat \ {0} /\ H \in Nat \ {0} /\ c \in Nat /\ c < W * H
  BY ScreenSize DEF Cells, Size
<1>2. r \in Nat /\ o \in 0..(W - 1) /\ c = r * W + o
  BY <1>1, DivMod
<1> HIDE DEF r, o
<1>3. r * W \in Nat /\ (r + 1) * W = r * W + W
  BY <1>1, <1>2
<1>4. (r + 1) * W \in Nat /\ c < (r + 1) * W
  BY <1>1, <1>2, <1>3
<1>5. r < H
  <2> SUFFICES ASSUME r >= H
               PROVE  FALSE
    BY <1>1, <1>2
  <2>1. r * W >= W * H
    BY <1>1, <1>2
  <2> QED
    BY <1>1, <1>2, <1>3, <2>1
<1>6. (r + 1) * W <= Size
  <2>1. r + 1 <= H
    BY <1>1, <1>2, <1>5
  <2> QED
    BY <1>1, <1>2, <2>1 DEF Size
<1>7. (W * m + c) \div W = m + r
  <2>1. W * m + c = (m + r) * W + o /\ m + r \in Nat
    BY <1>1, <1>2
  <2> QED
    BY <1>1, <1>2, <2>1, Rows
<1>8. W * ((m + r) + 1) = W * m + (r + 1) * W
  BY <1>1, <1>2
<1> QED
  BY <1>1, <1>2, <1>4, <1>5, <1>6, <1>7, <1>8 DEF r

\* move_cursor, with what was printed in the buffer and the paper's place known.
LEMMA CursorMoved ==
    ASSUME NEW S, NEW u \in Seq(S), NEW s \in Cells, NEW m \in Nat, NEW b,
           NEW place \in Nat, NEW c \in Cells, c < place, place <= Size,
           m = 0 \/ c >= Size - screen_width,
           PaperOf(u, s)[Len(u)] = screen_width * m + place,
           Shows(b, u, s, screen_width * m),
           MoveCursor(place, b)
    PROVE  \E n \in Nat : Window(video_buffer', cursor', u, s, n)
<1> DEFINE W == screen_width
<1>1. /\ W \in Nat \ {0} /\ Size \in Nat \ {0} /\ Size - W \in Nat
      /\ W * (screen_height - 1) = Size - W
      /\ c \in Nat /\ s \in Nat
  BY ScreenSize DEF Cells
<1>2. CASE place < Size
  <2>1. cursor' = place /\ video_buffer' = b
    BY <1>1, <1>2 DEF MoveCursor
  <2>2. place \in Cells /\ (m = 0 \/ place >= Size - W)
    BY <1>1, <1>2 DEF Cells
  <2>3. Window(b, place, u, s, m)
    BY <2>2 DEF Window
  <2> QED
    BY <2>1, <2>3
<1>3. CASE place = Size
  <2>1. cursor' = Size - W /\ video_buffer' = Scroll(b)
    BY <1>1, <1>3 DEF MoveCursor
  <2>2. Size - W \in Cells /\ m + 1 \in Nat
    BY <1>1 DEF Cells
  <2>3. W * (m + 1) + (Size - W) = W * m + Size
    BY <1>1
  <2>4. Shows(Scroll(b), u, s, W * (m + 1))
    BY <1>1, <1>3, Rolled
  <2>5. Size - W >= Size - W
    BY <1>1
  <2>6. Window(Scroll(b), Size - W, u, s, m + 1)
    BY <1>3, <2>2, <2>3, <2>4, <2>5 DEF Window
  <2> QED
    BY <2>1, <2>2, <2>6
<1> QED
  BY <1>1, <1>2, <1>3

\* print_char keeps the screen a window on the paper.
LEMMA CharPrinted ==
    ASSUME NEW m \in Nat, Window(video_buffer, cursor, text, start, m),
           NEW c, PrintChar(c)
    PROVE  \E n \in Nat : Window(video_buffer', cursor', text', start', n)
<1> DEFINE W == screen_width
           x == [character |-> c, attributes |-> attributes]
           off == W * m
<1>1. PICK S : text \in Seq(S)
  BY DEF Window
<1>2. /\ start \in Cells /\ cursor \in Cells
      /\ m = 0 \/ cursor >= Size - W
      /\ PaperOf(text, start)[Len(text)] = off + cursor
      /\ Shows(video_buffer, text, start, off)
  BY DEF Window
<1>3. /\ W \in Nat \ {0} /\ off \in Nat /\ start \in Nat /\ cursor \in Nat
      /\ cursor < Size /\ Size \in Nat
  BY <1>2, ScreenSize DEF Cells
<1>4. text' = Append(text, x) /\ start' = start
  BY DEF PrintChar
<1>5. x.character = c
  OBVIOUS
<1> DEFINE u == Append(text, x)
<1>6. u \in Seq(S \cup {x}) /\ Len(u) = Len(text) + 1
  BY <1>1, AppendFacts
<1>7. PaperOf(u, start)[Len(u)] = NextPlace(off + cursor, x)
  BY <1>1, <1>2, <1>3, <1>6, PaperAppend
<1> HIDE DEF x
<1>8. CASE c = "\n"
  <2> DEFINE place == (cursor \div W + 1) * W
  <2>1. MoveCursor(place, video_buffer)
    BY <1>8 DEF PrintChar
  <2>2. /\ place \in Nat /\ cursor < place /\ place <= Size
        /\ NextPlace(off + cursor, x) = off + place
    BY <1>2, <1>5, <1>8, NextRow DEF NextPlace
  <2>3. Shows(video_buffer, u, start, off)
    BY <1>1, <1>2, <1>3, <1>5, <1>8, NewLine
  <2> HIDE DEF place, u
  <2>4. \E n \in Nat : Window(video_buffer', cursor', u, start, n)
    BY <1>2, <1>6, <1>7, <2>1, <2>2, <2>3, CursorMoved
  <2> QED
    BY <1>4, <2>4 DEF u
<1>9. CASE c # "\n"
  <2> DEFINE b == [video_buffer EXCEPT ![cursor] = x]
  <2>1. MoveCursor(cursor + 1, b)
    BY <1>9 DEF PrintChar, x
  <2>2. /\ cursor + 1 \in Nat /\ cursor < cursor + 1 /\ cursor + 1 <= Size
        /\ NextPlace(off + cursor, x) = off + (cursor + 1)
    BY <1>3, <1>5, <1>9 DEF NextPlace
  <2>3. Shows(b, u, start, off)
    BY <1>1, <1>2, <1>3, <1>5, <1>9, Printed
  <2> HIDE DEF b, u
  <2>4. \E n \in Nat : Window(video_buffer', cursor', u, start, n)
    BY <1>2, <1>6, <1>7, <2>1, <2>2, <2>3, CursorMoved
  <2> QED
    BY <1>4, <2>4 DEF u
<1> QED
  BY <1>8, <1>9

\* init_terminal, before anything is printed and wherever the cursor is.
LEMMA WindowStart ==
    ASSUME NEW b, b = [i \in Cells |-> BiosCell], NEW c \in Cells
    PROVE  Window(b, c, <<>>, c, 0)
<1>1. <<>> \in Seq({}) /\ Len(<<>>) = 0
  OBVIOUS
<1>2. c \in Nat /\ c < Size /\ screen_width * 0 = 0 /\ Size \in Nat
  BY ScreenSize DEF Cells
<1>3. PaperOf(<<>>, c)[0] = c
  BY <1>1, <1>2, PaperExists
<1>4. ASSUME NEW i \in Cells
      PROVE  CellRight(b[i], <<>>, c, 0 + i)
  <2>1. 0 + i < Size
    BY <1>2 DEF Cells
  <2>2. Here(<<>>, c, 0 + i) = {}
    BY <1>1 DEF Here
  <2> QED
    BY <2>1, <2>2 DEF CellRight
<1>5. Shows(b, <<>>, c, 0)
  BY <1>4 DEF Shows
<1> QED
  BY <1>1, <1>2, <1>3, <1>5 DEF Window

-----------------------------------------------------------------------------
(* The invariant *)

TermInv ==
    /\ \E m \in Nat : Window(video_buffer, cursor, text, start, m)
    /\ phase # "ready" =>
          /\ text = <<>> /\ call \notin {"kprintf", "print"}
          /\ video_buffer = [i \in Cells |-> BiosCell]

\* The start of the kernel.
LEMMA TermInvInit == Init => TermInv
<1> SUFFICES ASSUME Init PROVE TermInv
  OBVIOUS
<1>1. 0 \in Cells /\ 0 \in Nat
  BY ScreenSize DEF Cells
<1>2. Window(video_buffer, 0, <<>>, 0, 0)
  BY <1>1, WindowStart DEF Init, TermInit
<1> QED
  BY <1>1, <1>2 DEF Init, TermInit, TermInv

\* Every step keeps the invariant.
LEMMA TermInvStep == TermInv /\ [Next]_vars => TermInv'
<1> SUFFICES ASSUME TermInv, [Next]_vars
             PROVE  TermInv'
  OBVIOUS
\* Most steps leave the screen alone.
<1>a. ASSUME UNCHANGED <<video_buffer, cursor, text, start, phase>>,
             phase # "ready" => call' \notin {"kprintf", "print"}
      PROVE  TermInv'
  BY <1>a DEF TermInv, Window, Shows
<1>1. CASE InitDebug
  <2>1. UNCHANGED <<video_buffer, cursor, text, start, call>> /\ phase # "ready"
    BY <1>1 DEF InitDebug, InitSerial, termVars, callVars
  <2> QED
    BY <2>1 DEF TermInv, Window, Shows
<1>2. CASE StartTerminal
  <2>1. /\ phase # "ready" /\ phase' = "ready"
        /\ cursor' \in Start /\ start' = cursor'
        /\ UNCHANGED <<video_buffer, text>>
    BY <1>2 DEF StartTerminal, InitTerminal
  <2>2. cursor' \in Cells
    BY <2>1, ScreenSize
  <2>3. Window(video_buffer', cursor', text', start', 0)
    BY <2>1, <2>2, WindowStart DEF TermInv
  <2> QED
    BY <2>1, <2>3 DEF TermInv
<1>3. CASE Kprintf \/ DbgKprintf \/ EndCall
  BY <1>a, <1>3 DEF Kprintf, DbgKprintf, EndCall, termVars
<1>4. ASSUME NEW chars, PrintChars(chars)
      PROVE  TermInv'
  BY <1>a, <1>4 DEF PrintChars, termVars
<1>5. ASSUME NEW color, ChangeColor(color)
      PROVE  TermInv'
  BY <1>a, <1>5 DEF ChangeColor, SetColor, callVars, TermInv
<1>6. ASSUME NEW out, Item(out)
      PROVE  TermInv'
  BY <1>a, <1>6 DEF Item, termVars, TermInv
<1>7. CASE PutOnTerminal
  <2>1. PICK m \in Nat : Window(video_buffer, cursor, text, start, m)
    BY DEF TermInv
  <2>2. PrintChar(Head(pending)) /\ call \in {"kprintf", "print"} /\ phase' = phase
    BY <1>7 DEF PutOnTerminal
  <2>3. \E n \in Nat : Window(video_buffer', cursor', text', start', n)
    BY <2>1, <2>2, CharPrinted
  <2> QED
    BY <2>2, <2>3 DEF TermInv
<1>8. CASE ComSendChar
  BY <1>a, <1>8 DEF ComSendChar, termVars, TermInv
<1>9. CASE Transmit
  BY <1>a, <1>9 DEF Transmit, termVars, callVars, TermInv
<1>10. CASE UNCHANGED vars
  BY <1>a, <1>10 DEF vars, termVars, callVars, TermInv
<1> QED
  BY <1>1, <1>2, <1>3, <1>4, <1>5, <1>6, <1>7, <1>8, <1>9, <1>10
     DEF Next, InCall, Literal, Convert, PrintString, PrintByte, PrintMemory

\* The rows that have left the screen are those above the window.
LEMMA WindowShowsTail ==
    ASSUME NEW m \in Nat, Window(video_buffer, cursor, text, start, m)
    PROVE  ScreenShowsTail
<1> DEFINE W == screen_width
           H == screen_height
           r == cursor \div W
<1>1. PICK S : text \in Seq(S)
  BY DEF Window
<1>2. /\ cursor \in Cells /\ (m = 0 \/ cursor >= Size - W)
      /\ PaperOf(text, start)[Len(text)] = W * m + cursor
      /\ Shows(video_buffer, text, start, W * m)
  BY DEF Window
<1>3. /\ W \in Nat \ {0} /\ H \in Nat \ {0} /\ W * (H - 1) = Size - W
      /\ cursor \in Nat /\ cursor < Size /\ Size \in Nat /\ W * m \in Nat
  BY <1>2, ScreenSize DEF Cells
<1>4. Paper = PaperOf(text, start)
  BY Zenon DEF Paper, PaperOf
<1>5. (W * m + cursor) \div W = m + r /\ r \in 0..(H - 1)
  BY <1>2, NextRow
<1>6. cursor < (r + 1) * W /\ (r + 1) * W = W * r + W
  <2>1. cursor < (r + 1) * W
    BY <1>2, NextRow
  <2> HIDE DEF r
  <2> QED
    BY <1>3, <1>5, <2>1
<1> HIDE DEF r
<1>7. RolledOff = W * m
  <2>1. RolledOff = IF m + r < H THEN 0 ELSE W * (m + r - (H - 1))
    <3> DEFINE row == Paper[Len(text)] \div W
    <3>1. row = m + r
      BY <1>2, <1>4, <1>5
    <3>2. RolledOff = IF row < H THEN 0 ELSE W * (row - (H - 1))
      BY Zenon DEF RolledOff
    <3> HIDE DEF row
    <3> QED
      BY <1>3, <1>5, <3>1, <3>2
  <2>2. CASE m = 0
    BY <1>3, <1>5, <2>1, <2>2
  <2>3. CASE m # 0
    <3>1. r = H - 1
      <4> SUFFICES ASSUME r < H - 1
                   PROVE  FALSE
        BY <1>3, <1>5
      <4>1. W * (r + 1) <= W * (H - 1) /\ W * (r + 1) = W * r + W
        BY <1>3, <1>5
      <4> QED
        BY <1>2, <1>3, <1>5, <1>6, <2>3, <4>1
    <3>2. ~(m + r < H) /\ m + r - (H - 1) = m
      BY <1>3, <1>5, <2>3, <3>1
    <3> QED
      BY <2>1, <3>2
  <2> QED
    BY <2>2, <2>3
<1>8. cursor = Paper[Len(text)] - RolledOff
  BY <1>2, <1>3, <1>4, <1>7
<1>9. ASSUME NEW i \in Cells
      PROVE  LET here == {k \in 1..Len(text) :
                             /\ Paper[k - 1] = RolledOff + i
                             /\ text[k].character # "\n"}
             IN  \/ \E k \in here : video_buffer[i] = text[k]
                 \/ here = {} /\ video_buffer[i] =
                       IF RolledOff + i < Size THEN BiosCell ELSE ZeroCell
  <2>1. CellRight(video_buffer[i], text, start, W * m + i)
    BY <1>2 DEF Shows
  <2>2. Here(text, start, W * m + i) = {k \in 1..Len(text) :
                             /\ Paper[k - 1] = RolledOff + i
                             /\ text[k].character # "\n"}
    BY <1>4, <1>7 DEF Here
  <2> QED
    BY <1>7, <2>1, <2>2 DEF CellRight
<1> QED
  BY <1>2, <1>8, <1>9 DEF ScreenShowsTail

\* Whatever is printed, in whatever colours, wherever the firmware has left the
\* cursor: the screen shows the last rows of it, for every size of the screen.
THEOREM TailShown == Spec => []ScreenShowsTail
<1>1. TermInv => ScreenShowsTail
  BY WindowShowsTail DEF TermInv
<1> QED
  BY <1>1, TermInvInit, TermInvStep, PTL DEF Spec

-----------------------------------------------------------------------------
(* Digits *)

\* What is left of n when k digits have been taken off.
Quotients(n, base) ==
    LET rest[k \in 0..n] == IF k = 0 THEN n ELSE rest[k - 1] \div base
    IN  rest

Names(flags) == IF "UPPERCASE" \in flags THEN Upper ELSE Lower

\* Quotients get smaller.
LEMMA Quotient ==
    ASSUME NEW n \in Nat, NEW base \in {8, 10, 16}
    PROVE  /\ n \div base \in Nat
           /\ n % base \in 0..(base - 1)
           /\ n = base * (n \div base) + (n % base)
           /\ n # 0 => n \div base < n
           /\ n \div base = 0 => n % base = n
<1>1. base \in Nat \ {0} /\ base >= 2
  OBVIOUS
<1> DEFINE q == n \div base
           r == n % base
<1>2. q \in Nat /\ r \in 0..(base - 1) /\ n = q * base + r
  BY <1>1, DivMod
<1> HIDE DEF q, r
<1>3. q * base = base * q /\ q * base >= 2 * q /\ (q = 0 => q * base = 0)
  BY <1>1, <1>2
<1>4. q * base \in Nat
  BY <1>1, <1>2
<1> HIDE <1>1
<1>5. n # 0 => q < n
  BY <1>2, <1>3, <1>4
<1>6. q = 0 => r = n
  BY <1>2, <1>3, <1>4
<1> QED
  BY <1>2, <1>3, <1>5, <1>6 DEF q, r

\* The recursion has a value.
LEMMA RestExists ==
    ASSUME NEW n \in Nat, NEW base \in {8, 10, 16}
    PROVE  /\ Quotients(n, base) \in [0..n -> Nat]
           /\ Quotients(n, base)[0] = n
           /\ \A k \in 1..n : Quotients(n, base)[k] = Quotients(n, base)[k - 1] \div base
<1> DEFINE Def(P) == [k \in 0..n |-> IF k = 0 THEN n ELSE P[k - 1] \div base]
           G == [k \in 1..n |-> [x \in Nat |-> x \div base]]
<1>1. \A x \in Nat : x \div base \in Nat
  BY Quotient
<1>2. /\ G \in [1..n -> [Nat -> Nat]]
      /\ \A k \in 1..n, x \in Nat : G[k][x] = x \div base
  BY <1>1
<1> HIDE DEF G
<1>3. PICK P : Iterates(P, n, Nat, n, G)
  BY <1>2, Recursion
<1>4. /\ P \in [0..n -> Nat] /\ P[0] = n
      /\ \A k \in 1..n : P[k] = P[k - 1] \div base
  <2>1. P \in [0..n -> Nat] /\ P[0] = n
    BY <1>3 DEF Iterates
  <2>2. ASSUME NEW k \in 1..n
        PROVE  P[k] = P[k - 1] \div base
    <3>1. P[k] = G[k][P[k - 1]] /\ k - 1 \in 0..n
      BY <1>3 DEF Iterates
    <3>2. P[k - 1] \in Nat
      BY <2>1, <3>1
    <3> QED
      BY <1>2, <3>1, <3>2
  <2> QED
    BY <2>1, <2>2
<1>5. P = Def(P)
  <2>1. \A k \in 0..n : P[k] = Def(P)[k]
    BY <1>4
  <2> QED
    BY <1>4, <2>1
<1>6. Quotients(n, base) = CHOOSE V : V = Def(V)
  BY Zenon DEF Quotients
<1> DEFINE Q == Quotients(n, base)
<1>7. Q = Def(Q)
  BY <1>5, <1>6, Zenon
<1> HIDE DEF Q
<1>8. /\ DOMAIN Q = 0..n /\ Q = [k \in 0..n |-> Q[k]] /\ Q[0] = n
      /\ \A k \in 1..n : Q[k] = Q[k - 1] \div base
  <2>1. DOMAIN Q = 0..n /\ Q = [k \in 0..n |-> Q[k]] /\ Q[0] = n
    BY <1>7
  <2>2. \A k \in 1..n : Q[k] = Q[k - 1] \div base
    BY <1>7
  <2> QED
    BY <2>1, <2>2
<1>9. \A k \in 0..n : Q[k] = P[k]
  <2> DEFINE U == {m \in Nat : m <= n => Q[m] = P[m]}
  <2>1. 0 \in U
    BY <1>4, <1>8
  <2>2. ASSUME NEW m \in U
        PROVE  m + 1 \in U
    <3> SUFFICES ASSUME m + 1 <= n
                 PROVE  Q[m + 1] = P[m + 1]
      OBVIOUS
    <3>1. m \in Nat /\ m + 1 \in 1..n /\ (m + 1) - 1 = m /\ Q[m] = P[m]
      OBVIOUS
    <3> QED
      BY <1>4, <1>8, <3>1
  <2>3. U \in SUBSET Nat
    OBVIOUS
  <2> HIDE DEF U
  <2>4. U = Nat
    BY <2>1, <2>2, <2>3, Induction
  <2> QED
    BY <2>4 DEF U
<1>10. Q \in [0..n -> Nat]
  BY <1>4, <1>8, <1>9
<1> QED
  BY <1>8, <1>10 DEF Q

\* rest[k] is n without its last k digits; n has `count` of them.
Spelled(n, base, rest, count) ==
    /\ count \in Nat
    /\ rest \in [0..count -> Nat]
    /\ rest[0] = n /\ rest[count] = 0
    /\ \A j \in 0..(count - 1) : rest[j] # 0
    /\ \A k \in 1..count : rest[k] = rest[k - 1] \div base

\* The loop over the digits ends, and puts them down from the last.
LEMMA DigitsFacts ==
    ASSUME NEW n \in Nat, NEW base \in {8, 10, 16}, NEW flags
    PROVE  \E rest, count :
              /\ Spelled(n, base, rest, count)
              /\ Digits(n, base, flags) =
                    [i \in 1..count |-> Names(flags)[(rest[count - i] % base) + 1]]
<1> DEFINE R == Quotients(n, base)
           Ends(k) == R[k] = 0 /\ \A j \in 0..(k - 1) : R[j] # 0
           count == CHOOSE k \in 0..n : Ends(k)
<1>1. /\ R \in [0..n -> Nat] /\ R[0] = n
      /\ \A k \in 1..n : R[k] = R[k - 1] \div base
  BY RestExists
<1>2. Digits(n, base, flags) =
         [i \in 1..count |-> Names(flags)[(R[count - i] % base) + 1]]
  BY Zenon DEF Digits, Quotients, Names
<1> HIDE DEF R
<1>3. R[n] = 0
  <2> DEFINE U == {m \in Nat : m <= n => R[m] + m <= n}
  <2>1. 0 \in U
    BY <1>1
  <2>2. ASSUME NEW m \in U
        PROVE  m + 1 \in U
    <3> SUFFICES ASSUME m + 1 <= n
                 PROVE  R[m + 1] + (m + 1) <= n
      OBVIOUS
    <3>1. m \in Nat /\ m + 1 \in 1..n /\ m \in 0..n /\ (m + 1) - 1 = m /\ R[m] + m <= n
      OBVIOUS
    <3>2. R[m] \in Nat /\ R[m + 1] \in Nat /\ R[m + 1] = R[m] \div base
      BY <1>1, <3>1
    <3>3. CASE R[m] = 0
      <4>1. R[m + 1] = 0
        BY <3>2, <3>3
      <4> QED
        BY <3>1, <4>1
    <3>4. CASE R[m] # 0
      <4>1. R[m + 1] < R[m]
        BY <3>2, <3>4, Quotient
      <4> QED
        BY <3>1, <3>2, <4>1
    <3> QED
      BY <3>3, <3>4
  <2>3. U \in SUBSET Nat
    OBVIOUS
  <2> HIDE DEF U
  <2>4. U = Nat
    BY <2>1, <2>2, <2>3, Induction
  <2>5. R[n] + n <= n
    BY <2>4 DEF U
  <2>6. R[n] \in Nat
    BY <1>1
  <2> QED
    BY <2>5, <2>6
<1>4. \E k \in 0..n : Ends(k)
  <2> DEFINE T == {k \in 0..n : R[k] = 0}
  <2>1. T \in SUBSET Nat /\ n \in T
    BY <1>3
  <2>2. PICK k \in T : \A j \in T : k <= j
    BY <2>1, LeastElement
  <2>3. ASSUME NEW j \in 0..(k - 1)
        PROVE  R[j] # 0
    <3>1. j \in 0..n /\ ~(k <= j)
      OBVIOUS
    <3> QED
      BY <2>2, <3>1
  <2> QED
    BY <2>3
<1>5. count \in 0..n /\ Ends(count)
  <2> HIDE DEF Ends
  <2> QED
    BY <1>4
<1> HIDE DEF count
<1> DEFINE rest == [k \in 0..count |-> R[k]]
<1>6. Spelled(n, base, rest, count)
  BY <1>1, <1>5 DEF Spelled
<1>7. \A i \in 1..count : R[count - i] = rest[count - i]
  BY <1>5
<1>8. Digits(n, base, flags) =
         [i \in 1..count |-> Names(flags)[(rest[count - i] % base) + 1]]
  <2> HIDE DEF rest
  <2> QED
    BY <1>2, <1>7
<1> HIDE DEF rest
<1> QED
  BY <1>6, <1>8, Zenon

-----------------------------------------------------------------------------
(* The names of the digits *)

\* The value of a digit, as Value has it.
DigitOf(c) == (CHOOSE v \in 1..16 : Lower[v] = c \/ Upper[v] = c) - 1

\* The digits have different names, in both cases of letters.
LEMMA NamesDiffer ==
    ASSUME NEW v \in 1..16, NEW w \in 1..16, v < w
    PROVE  /\ Lower[v] # Lower[w] /\ Upper[v] # Upper[w]
           /\ Lower[v] # Upper[w] /\ Upper[v] # Lower[w]
<1>1. \/ v = 1 \/ v = 2 \/ v = 3 \/ v = 4 \/ v = 5 \/ v = 6 \/ v = 7 \/ v = 8
      \/ v = 9 \/ v = 10 \/ v = 11 \/ v = 12 \/ v = 13 \/ v = 14 \/ v = 15
  OBVIOUS
<1>2. \/ w = 2 \/ w = 3 \/ w = 4 \/ w = 5 \/ w = 6 \/ w = 7 \/ w = 8
      \/ w = 9 \/ w = 10 \/ w = 11 \/ w = 12 \/ w = 13 \/ w = 14 \/ w = 15 \/ w = 16
  OBVIOUS
<1> QED
  BY <1>1, <1>2, SMTT(60) DEF Lower, Upper

\* A digit is read as the number it was written for.
LEMMA DigitRead ==
    ASSUME NEW v \in 1..16, NEW flags
    PROVE  DigitOf(Names(flags)[v]) = v - 1
<1> DEFINE c == Names(flags)[v]
<1>1. c = Lower[v] \/ c = Upper[v]
  BY DEF Names
<1> HIDE DEF c
<1>2. ASSUME NEW w \in 1..16, Lower[w] = c \/ Upper[w] = c
      PROVE  w = v
  <2>1. ~(v < w) /\ ~(w < v)
    BY <1>1, <1>2, NamesDiffer
  <2> QED
    BY <2>1
<1>3. (CHOOSE w \in 1..16 : Lower[w] = c \/ Upper[w] = c) = v
  BY <1>1, <1>2
<1> QED
  BY <1>3 DEF DigitOf, c

\* The name of zero, and of no other digit.
LEMMA ZeroName ==
    ASSUME NEW flags
    PROVE  /\ Names(flags)[1] = "0"
           /\ \A v \in 2..16 : Names(flags)[v] # "0"
<1>1. Lower[1] = "0" /\ Upper[1] = "0"
  BY DEF Lower, Upper
<1>2. \A v \in 2..16 : Lower[v] # "0" /\ Upper[v] # "0"
  <2> SUFFICES ASSUME NEW v \in 2..16
               PROVE  Lower[v] # "0" /\ Upper[v] # "0"
    OBVIOUS
  <2>1. 1 \in 1..16 /\ v \in 1..16 /\ 1 < v
    OBVIOUS
  <2> QED
    BY <1>1, <2>1, NamesDiffer
<1> QED
  BY <1>1, <1>2 DEF Names

\* s is z zeros and the digits of n.
Written(s, z, n, base, flags) ==
    \E rest, count :
        /\ Spelled(n, base, rest, count)
        /\ Len(s) = z + count
        /\ \A i \in 1..z : s[i] = "0"
        /\ \A i \in 1..count :
              s[z + i] = Names(flags)[(rest[count - i] % base) + 1]

DigitString(s, z, base, flags) ==
    /\ Len(s) \in Nat /\ Len(s) >= z
    /\ \A i \in 1..Len(s) : \E v \in 1..base : s[i] = Names(flags)[v]
    /\ Len(s) > z => s[z + 1] # "0"

\* Every character of such a string is a digit of the base.
LEMMA WrittenDigits ==
    ASSUME NEW s, NEW z \in Nat, NEW n \in Nat, NEW base \in {8, 10, 16},
           NEW flags, Written(s, z, n, base, flags)
    PROVE  DigitString(s, z, base, flags)
<1>1. PICK rest, count :
        /\ Spelled(n, base, rest, count)
        /\ Len(s) = z + count
        /\ \A i \in 1..z : s[i] = "0"
        /\ \A i \in 1..count :
              s[z + i] = Names(flags)[(rest[count - i] % base) + 1]
  BY DEF Written
<1>2. /\ count \in Nat /\ rest \in [0..count -> Nat]
      /\ rest[count] = 0
      /\ \A j \in 0..(count - 1) : rest[j] # 0
      /\ \A k \in 1..count : rest[k] = rest[k - 1] \div base
  BY <1>1 DEF Spelled
<1>3. \A j \in 0..count : rest[j] % base \in 0..(base - 1)
  BY <1>2, Quotient
<1>4. ASSUME NEW i \in 1..Len(s)
      PROVE  \E v \in 1..base : s[i] = Names(flags)[v]
  <2>1. CASE i <= z
    <3>1. i \in 1..z /\ 1 \in 1..base
      BY <1>1, <1>2, <2>1
    <3>2. s[i] = "0"
      BY <1>1, <3>1
    <3>3. s[i] = Names(flags)[1]
      BY <3>2, ZeroName, Zenon
    <3> QED
      BY <3>1, <3>3
  <2>2. CASE ~(i <= z)
    <3> DEFINE j == i - z
               v == (rest[count - j] % base) + 1
    <3>1. j \in 1..count /\ z + j = i /\ count - j \in 0..count
      BY <1>1, <1>2, <2>2
    <3>2. rest[count - j] % base \in 0..(base - 1)
      BY <1>3, <3>1
    <3>3. s[i] = Names(flags)[v]
      BY <1>1, <3>1
    <3>4. v \in 1..base
      BY <3>2
    <3> QED
      BY <3>3, <3>4
  <2> QED
    BY <2>1, <2>2
<1>5. ASSUME Len(s) > z
      PROVE  s[z + 1] # "0"
  <2>1. /\ 1 \in 1..count /\ count \in 1..count /\ count - 1 \in 0..(count - 1)
        /\ count - 1 \in 0..count
    BY <1>1, <1>2, <1>5
  <2> DEFINE r == rest[count - 1]
  <2>2. r \in Nat /\ r # 0 /\ r \div base = 0
    BY <1>2, <2>1
  <2>3. r % base = r /\ r % base \in 0..(base - 1)
    BY <2>2, Quotient
  <2>4. s[z + 1] = Names(flags)[(r % base) + 1]
    BY <1>1, <2>1
  <2>5. (r % base) + 1 \in 2..16
    <3> HIDE DEF r
    <3> QED
      BY <2>2, <2>3
  <2> HIDE DEF r
  <2> QED
    BY <2>4, <2>5, ZeroName
<1> QED
  BY <1>1, <1>2, <1>4, <1>5 DEF DigitString

\* Zeros and digits are read back as the number.
LEMMA WrittenValue ==
    ASSUME NEW s, NEW z \in Nat, NEW n \in Nat, NEW base \in {8, 10, 16},
           NEW flags, Written(s, z, n, base, flags)
    PROVE  Value(s, base) = n
<1>1. PICK rest, count :
        /\ Spelled(n, base, rest, count)
        /\ Len(s) = z + count
        /\ \A i \in 1..z : s[i] = "0"
        /\ \A i \in 1..count :
              s[z + i] = Names(flags)[(rest[count - i] % base) + 1]
  BY DEF Written
<1>2. /\ count \in Nat /\ rest \in [0..count -> Nat]
      /\ rest[0] = n /\ rest[count] = 0
      /\ \A k \in 1..count : rest[k] = rest[k - 1] \div base
  BY <1>1 DEF Spelled
<1> DEFINE L == Len(s)
           Def(P) == [k \in 0..L |->
                        IF k = 0 THEN 0 ELSE base * P[k - 1] + DigitOf(s[k])]
           \* What has been read after m characters.
           V == [m \in 0..L |-> IF m <= z THEN 0 ELSE rest[count - (m - z)]]
<1>3. L = z + count /\ L \in Nat
  BY <1>1, <1>2
<1> HIDE DEF L
<1>4. V[0] = 0
  BY <1>3
<1>5. ASSUME NEW k \in 1..L
      PROVE  V[k] = base * V[k - 1] + DigitOf(s[k])
  <2>1. CASE k <= z
    <3>1. V[k] = 0 /\ V[k - 1] = 0
      BY <1>3, <2>1
    <3>2. s[k] = Names(flags)[1]
      BY <1>1, <2>1, ZeroName
    <3>3. DigitOf(s[k]) = 0
      BY <3>2, DigitRead
    <3> HIDE DEF V
    <3> QED
      BY <3>1, <3>3
  <2>2. CASE ~(k <= z)
    <3> DEFINE i == k - z
               j == count - i
    <3>1. i \in 1..count /\ z + i = k /\ j \in 0..(count - 1) /\ j + 1 \in 1..count
      BY <1>2, <1>3, <2>2
    <3>2. V[k] = rest[j]
      BY <1>3, <2>2
    <3>3. V[k - 1] = rest[j + 1]
      <4>1. CASE k - 1 <= z
        <5>1. k - 1 = z /\ j + 1 = count
          BY <1>2, <1>3, <2>2, <4>1
        <5> QED
          BY <1>2, <1>3, <4>1, <5>1
      <4>2. CASE ~(k - 1 <= z)
        <5>1. count - ((k - 1) - z) = j + 1
          BY <1>2, <1>3
        <5>2. V[k - 1] = rest[count - ((k - 1) - z)]
          BY <1>3, <4>2
        <5> QED
          BY <5>1, <5>2
      <4> QED
        BY <4>1, <4>2
    <3>4. s[k] = Names(flags)[(rest[j] % base) + 1]
      BY <1>1, <3>1
    <3> HIDE DEF V, i, j
    <3>5. rest[j] \in Nat /\ rest[j + 1] = rest[j] \div base
      <4>1. j \in 0..count /\ (j + 1) - 1 = j
        BY <1>2, <3>1
      <4> QED
        BY <1>2, <3>1, <4>1
    <3>6. /\ rest[j] = base * (rest[j] \div base) + (rest[j] % base)
          /\ rest[j] % base \in 0..(base - 1)
      BY <3>5, Quotient
    <3>7. (rest[j] % base) + 1 \in 1..16 /\ ((rest[j] % base) + 1) - 1 = rest[j] % base
      BY <3>6
    <3>8. DigitOf(s[k]) = rest[j] % base
      BY <3>4, <3>7, DigitRead
    <3> QED
      BY <3>2, <3>3, <3>5, <3>6, <3>8
  <2> QED
    BY <2>1, <2>2
<1>6. V = Def(V)
  <2>1. V = [k \in 0..L |-> V[k]]
    OBVIOUS
  <2>2. Def(V) = [k \in 0..L |-> Def(V)[k]]
    OBVIOUS
  <2>3. ASSUME NEW k \in 0..L
        PROVE  V[k] = Def(V)[k]
    <3>1. Def(V)[k] = IF k = 0 THEN 0 ELSE base * V[k - 1] + DigitOf(s[k])
      OBVIOUS
    <3>2. k # 0 => k \in 1..L
      BY <1>3
    <3> HIDE DEF V, Def
    <3> QED
      BY <1>4, <1>5, <3>1, <3>2
  <2> HIDE DEF V, Def
  <2> QED
    BY <2>1, <2>2, <2>3
<1> DEFINE Q == CHOOSE P : P = Def(P)
<1>7. Value(s, base) = Q[L]
  BY Zenon DEF Value, DigitOf, L
<1>8. Q = Def(Q)
  <2> HIDE DEF Def
  <2> QED
    BY <1>6, Zenon
<1> HIDE DEF Q
<1>9. /\ Q[0] = 0
      /\ \A k \in 1..L : Q[k] = base * Q[k - 1] + DigitOf(s[k])
  BY <1>3, <1>8
<1>10. Q[L] = V[L]
  <2> DEFINE U == {m \in Nat : m <= L => Q[m] = V[m]}
  <2> HIDE DEF V
  <2>1. 0 \in U
    BY <1>4, <1>9
  <2>2. ASSUME NEW m \in U
        PROVE  m + 1 \in U
    <3> SUFFICES ASSUME m + 1 <= L
                 PROVE  Q[m + 1] = V[m + 1]
      OBVIOUS
    <3>1. m \in Nat /\ m + 1 \in 1..L /\ (m + 1) - 1 = m /\ Q[m] = V[m]
      BY <1>3
    <3> QED
      BY <1>5, <1>9, <3>1
  <2>3. U \in SUBSET Nat
    OBVIOUS
  <2> HIDE DEF U
  <2>4. U = Nat
    BY <2>1, <2>2, <2>3, Induction
  <2>5. L \in U
    BY <1>3, <2>4
  <2> QED
    BY <1>3, <2>5 DEF U
<1>11. V[L] = n
  <2>1. CASE count = 0
    BY <1>2, <1>3, <2>1
  <2>2. CASE count # 0
    BY <1>2, <1>3, <2>2
  <2> QED
    BY <2>1, <2>2
<1> QED
  BY <1>7, <1>10, <1>11

-----------------------------------------------------------------------------
(* Padding *)

\* A repeated character.
LEMMA RepeatFacts ==
    ASSUME NEW c, NEW n \in Int
    PROVE  /\ Repeat(c, n) \in Seq({c})
           /\ Len(Repeat(c, n)) = Larger(n, 0) /\ Larger(n, 0) \in Nat
           /\ \A i \in 1..Larger(n, 0) : Repeat(c, n)[i] = c
<1>1. Larger(n, 0) \in Nat
  BY DEF Larger
<1>2. Repeat(c, n) \in [1..Larger(n, 0) -> {c}]
  BY DEF Repeat
<1>3. Repeat(c, n) \in Seq({c}) /\ Len(Repeat(c, n)) = Larger(n, 0)
  BY <1>1, <1>2, SeqDef
<1> QED
  BY <1>1, <1>2, <1>3

\* A negative number of characters is none.
LEMMA RepeatNat ==
    ASSUME NEW m \in Int, NEW c
    PROVE  Larger(m, 0) \in Nat /\ Repeat(c, m) = Repeat(c, Larger(m, 0))
<1>1. Larger(m, 0) \in Nat /\ Larger(Larger(m, 0), 0) = Larger(m, 0)
  BY DEF Larger
<1> QED
  BY <1>1 DEF Repeat

\* A part of a sequence, known by its elements.
LEMMA CutOut ==
    ASSUME NEW T, NEW s \in Seq(T), NEW part \in Seq(T), NEW before \in Nat,
           before + Len(part) <= Len(s),
           \A i \in 1..Len(part) : s[before + i] = part[i]
    PROVE  SubSeq(s, before + 1, before + Len(part)) = part
<1> DEFINE lo == before + 1
           hi == before + Len(part)
           X == SubSeq(s, lo, hi)
<1>1. /\ Len(part) \in Nat /\ Len(s) \in Nat /\ lo \in Int /\ hi \in Int
      /\ hi - lo + 1 = Len(part) /\ (lo <= hi <=> Len(part) # 0)
  OBVIOUS
<1>2. \A i \in lo..hi : s[i] \in T
  BY <1>1
<1> HIDE DEF lo, hi
<1>3. /\ X \in Seq(T)
      /\ Len(X) = IF lo <= hi THEN hi - lo + 1 ELSE 0
      /\ \A i \in 1..(hi - lo + 1) : X[i] = s[lo + i - 1]
  BY <1>1, <1>2, SubSeqProperties
<1> HIDE DEF X
<1>4. Len(X) = Len(part)
  BY <1>1, <1>3
<1>5. \A i \in 1..Len(part) : X[i] = part[i]
  <2> SUFFICES ASSUME NEW i \in 1..Len(part)
               PROVE  X[i] = part[i]
    OBVIOUS
  <2>1. lo + i - 1 = before + i
    BY <1>1 DEF lo
  <2> QED
    BY <1>1, <1>3, <2>1
<1>6. X = part
  BY <1>3, <1>4, <1>5, SeqEqual
<1> QED
  BY <1>6 DEF X, lo, hi

\* Blanks around len characters, as the width and LEFT ask for.
Fits(d, before, len, after) ==
    /\ d.width \in Int
    /\ "LEFT" \in d.flags => before = 0
    /\ "LEFT" \notin d.flags => after = 0
    /\ before + len + after >= d.width
    /\ before + after > 0 => before + len + after = d.width

PaddedTo(s, before, body, after, d) ==
    /\ Len(s) = before + Len(body) + after
    /\ before \in 0..Len(s) /\ after \in 0..Len(s)
    /\ Blanks(s, before, after, d)
    /\ Body(s, before, after) = body

\* A field is its body between blanks, at the width.
LEMMA Padded ==
    ASSUME NEW S, NEW body \in Seq(S), NEW d,
           NEW before \in Nat, NEW after \in Nat,
           Fits(d, before, Len(body), after),
           NEW s, s = Repeat(Blank, before) \o body \o Repeat(Blank, after)
    PROVE  PaddedTo(s, before, body, after, d)
<1> USE DEF Fits, PaddedTo
<1> DEFINE A == Repeat(Blank, before)
           B == Repeat(Blank, after)
           T == S \cup {Blank}
<1>1. /\ A \in Seq({Blank}) /\ Len(A) = before /\ \A i \in 1..before : A[i] = Blank
      /\ B \in Seq({Blank}) /\ Len(B) = after /\ \A i \in 1..after : B[i] = Blank
  <2>1. before \in Int /\ after \in Int /\ Larger(before, 0) = before /\ Larger(after, 0) = after
    BY DEF Larger
  <2> QED
    BY <2>1, RepeatFacts
<1> HIDE DEF A, B
<1>2. A \in Seq(T) /\ B \in Seq(T) /\ body \in Seq(T)
  BY <1>1
<1> DEFINE C == A \o body
           M == Len(body)
<1>3. /\ C \in Seq(T) /\ Len(C) = before + M /\ M \in Nat
      /\ \A i \in 1..(before + M) :
            C[i] = IF i <= before THEN A[i] ELSE body[i - before]
  <2>1. /\ C \in Seq(T) /\ Len(C) = Len(A) + M
        /\ \A i \in 1..(Len(A) + M) :
              C[i] = IF i <= Len(A) THEN A[i] ELSE body[i - Len(A)]
    BY <1>2, ConcatProperties
  <2> HIDE DEF C
  <2>2. M \in Nat
    OBVIOUS
  <2> QED
    BY <1>1, <2>1, <2>2
<1>s. s = C \o B
  BY DEF A, B
<1> HIDE DEF C
<1>4. /\ s \in Seq(T) /\ Len(s) = before + M + after
      /\ \A i \in 1..(before + M + after) :
            s[i] = IF i <= before + M THEN C[i] ELSE B[i - (before + M)]
  <2>1. /\ C \o B \in Seq(T) /\ Len(C \o B) = Len(C) + Len(B)
        /\ \A i \in 1..(Len(C) + Len(B)) :
              (C \o B)[i] = IF i <= Len(C) THEN C[i] ELSE B[i - Len(C)]
    BY <1>2, <1>3, ConcatProperties
  <2> QED
    BY <1>1, <1>3, <1>s, <2>1
<1> HIDE DEF M
<1>5. /\ M \in Nat
      /\ \A i \in 1..(before + M) :
            C[i] = IF i <= before THEN A[i] ELSE body[i - before]
  BY <1>3, Zenon
<1>m. M \in Nat
  BY <1>3
<1>6. \A i \in 1..before : s[i] = Blank
  <2> SUFFICES ASSUME NEW i \in 1..before PROVE s[i] = Blank
    OBVIOUS
  <2>1. i \in 1..(before + M + after) /\ i \in 1..(before + M) /\ i <= before + M
    BY <1>m
  <2>2. s[i] = C[i]
    BY <1>4, <2>1
  <2>3. C[i] = A[i]
    BY <1>5, <2>1
  <2> QED
    BY <1>1, <2>2, <2>3
<1>7. \A i \in (before + M + 1)..(before + M + after) : s[i] = Blank
  <2> SUFFICES ASSUME NEW i \in (before + M + 1)..(before + M + after)
               PROVE  s[i] = Blank
    OBVIOUS
  <2>1. /\ i \in 1..(before + M + after) /\ ~(i <= before + M)
        /\ i - (before + M) \in 1..after
    BY <1>m
  <2> QED
    BY <1>1, <1>4, <2>1
<1>8. \A i \in 1..M : s[before + i] = body[i]
  <2> SUFFICES ASSUME NEW i \in 1..M PROVE s[before + i] = body[i]
    OBVIOUS
  <2>1. /\ before + i \in 1..(before + M + after) /\ before + i \in 1..(before + M)
        /\ before + i <= before + M /\ ~(before + i <= before) /\ (before + i) - before = i
    BY <1>m
  <2> QED
    BY <1>3, <1>4, <2>1
<1> DEFINE L == before + M + after
<1>9. Blanks(s, before, after, d)
  <2>1. before + after <= L /\ L - after + 1 = before + M + 1
    BY <1>3
  <2>2. /\ before + after <= Len(s)
        /\ \A i \in (Len(s) - after + 1)..Len(s) : s[i] = Blank
        /\ Len(s) >= d.width
        /\ before + after > 0 => Len(s) = d.width
    <3> HIDE DEF L
    <3>1. Len(s) = L
      BY <1>4 DEF L
    <3>2. \A i \in (L - after + 1)..L : s[i] = Blank
      BY <1>7, <2>1 DEF L
    <3> QED
      BY <2>1, <3>1, <3>2 DEF L, M
  <2> QED
    BY <1>6, <2>2 DEF Blanks
<1>10. Body(s, before, after) = body
  <2>1. Len(s) - after = before + M /\ before + M <= Len(s)
    BY <1>3, <1>4
  <2>2. SubSeq(s, before + 1, before + M) = body
    BY <1>2, <1>4, <1>8, <2>1, CutOut DEF M
  <2> QED
    BY <2>1, <2>2 DEF Body
<1>11. before \in 0..L /\ after \in 0..L
  BY <1>3
<1> QED
  BY <1>4, <1>9, <1>10, <1>11 DEF M

-----------------------------------------------------------------------------
(* Numbers *)

\* The characters of numbers.
Symbols == {"-", Blank, "+", "0", "x", "X"}
              \cup {Lower[v] : v \in 1..16} \cup {Upper[v] : v \in 1..16}

\* The remainder is known by its range, below zero too.
LEMMA Remainder ==
    ASSUME NEW n \in Nat \ {0}, NEW q \in Int, NEW r \in 0..(n - 1)
    PROVE  (q * n + r) % n = r
<1> DEFINE a == q * n + r
           q2 == a \div n
           r2 == a % n
<1>1. q * n \in Int /\ a \in Int
  OBVIOUS
<1> HIDE DEF a
<1>2. q2 \in Int /\ r2 \in 0..(n - 1) /\ a = q2 * n + r2
  BY <1>1
<1> HIDE DEF q2, r2
<1> DEFINE k == q - q2
<1>3. k \in Int /\ k * n = r2 - r
  BY <1>1, <1>2 DEF a
<1>4. r2 - r < n /\ r - r2 < n
  BY <1>2
<1> HIDE DEF k
<1>5. k = 0
  <2>1. CASE k >= 1
    <3>1. k * n >= n
      BY <1>3, <2>1
    <3> QED
      BY <1>2, <1>3, <1>4, <3>1
  <2>2. CASE k <= -1
    <3>1. (-k) * n >= n
      BY <1>3, <2>2
    <3>2. (-k) * n = r - r2
      BY <1>2, <1>3
    <3> QED
      BY <1>2, <1>4, <3>1, <3>2
  <2> QED
    BY <1>3, <2>1, <2>2
<1> QED
  BY <1>2, <1>3, <1>5 DEF r2, a

\* The types of numbers.
LEMMA TypeMods ==
    ASSUME NEW d
    PROVE  /\ IntMod \in Nat \ {0} /\ TypeMod(d) \in Nat \ {0}
           /\ IntMod = 2 * (IntMod \div 2) /\ IntMod \div 2 \in Nat
           /\ CharMod <= IntMod /\ ShortMod <= IntMod
<1>1. /\ IntMod \in Nat \ {0} /\ ShortMod \in Nat \ {0} /\ CharMod \in Nat \ {0}
      /\ ShortMod <= IntMod /\ CharMod <= IntMod /\ IntMod % 2 = 0
  BY PrintfAssumption
<1>2. IntMod * IntMod \in Nat \ {0}
  BY <1>1
<1>3. TypeMod(d) \in {IntMod, CharMod, ShortMod, IntMod * IntMod}
  BY Zenon DEF TypeMod
<1>4. IntMod = 2 * (IntMod \div 2) /\ IntMod \div 2 \in Nat
  BY <1>1
<1>5. \A m \in {IntMod, CharMod, ShortMod, IntMod * IntMod} : m \in Nat \ {0}
  BY <1>1, <1>2
<1> QED
  BY <1>1, <1>3, <1>4, <1>5

\* The argument that is fetched is the number meant, as an unsigned int.
Fetched(d) ==
    /\ Meant(d) \in Int
    /\ GetArgument(d) \in 0..(IntMod - 1)
    /\ GetArgument(d) = IF Meant(d) < 0 THEN Meant(d) + IntMod ELSE Meant(d)
    /\ SignedSpec(d) => (Meant(d) < 0 <=> GetArgument(d) >= IntMod \div 2)
    /\ ~SignedSpec(d) => Meant(d) >= 0

\* That is so wherever C is followed.
LEMMA ArgumentFetched ==
    ASSUME NEW d \in Directives, d.spec \in Numbers, ~Departs(d)
    PROVE  Fetched(d)
<1> DEFINE M == TypeMod(d)
           n == d.arg % M
           h == IntMod \div 2
<1>1. d.arg \in Int
  BY ConsoleAssumption
<1>2. /\ IntMod \in Nat \ {0} /\ M \in Nat \ {0} /\ h \in Nat /\ IntMod = 2 * h
      /\ CharMod <= IntMod /\ ShortMod <= IntMod
  BY TypeMods
<1>3. /\ Meant(d) = IF SignedSpec(d) /\ 2 * n >= M THEN n - M ELSE n
  BY Zenon DEF Meant
<1> HIDE DEF M, h
<1>4. n \in 0..(M - 1)
  BY <1>1, <1>2
<1>5. Meant(d) \in Int
  <2> HIDE DEF n
  <2> QED
    BY <1>2, <1>3, <1>4
<1>6. SignedSpec(d) => d.spec # "p"
  BY DEF SignedSpec
<1>7. CASE d.spec # "p" /\ d.length = "ll"
  <2>1. GetArgument(d) = d.arg % IntMod /\ M = IntMod * IntMod
    BY <1>7 DEF GetArgument, TypeMod, M
  <2>2. IF SignedSpec(d) THEN -h <= Meant(d) /\ Meant(d) <= h - 1
                         ELSE 0 <= Meant(d) /\ Meant(d) <= IntMod - 1
    <3>1. Meant(d) \in IF SignedSpec(d) THEN (-h)..(h - 1) ELSE 0..(IntMod - 1)
      BY <1>7, Zenon DEF Departs, h
    <3> QED
      BY <1>2, <1>5, <3>1
  <2> DEFINE r == IF Meant(d) < 0 THEN Meant(d) + IntMod ELSE Meant(d)
  <2>3. r \in 0..(IntMod - 1)
    BY <1>2, <1>5, <2>2
  <2>4. \E q \in Int : d.arg = q * IntMod + r
    <3> DEFINE k == d.arg \div M
    <3>1. k \in Int /\ d.arg = k * M + n
      BY <1>1, <1>2
    <3> HIDE DEF k, n
    <3> DEFINE e == IF SignedSpec(d) /\ 2 * n >= M THEN k + 1 ELSE k
    <3>2. e \in Int /\ d.arg = e * M + Meant(d)
      BY <1>2, <1>3, <1>4, <3>1
    <3> HIDE DEF e
    <3> DEFINE f == e * IntMod
               g == IF Meant(d) < 0 THEN f - 1 ELSE f
    <3>3. f \in Int /\ e * M = f * IntMod
      BY <1>2, <2>1, <3>2
    <3> HIDE DEF f
    <3>4. g \in Int /\ d.arg = g * IntMod + r
      BY <1>2, <1>5, <3>2, <3>3
    <3> QED
      BY <3>4
  <2> HIDE DEF r
  <2>5. PICK q \in Int : d.arg = q * IntMod + r
    BY <2>4
  <2>6. d.arg % IntMod = r
    BY <1>2, <2>3, <2>5, Remainder
  <2>7. GetArgument(d) = r /\ r \in 0..(IntMod - 1)
    BY <2>1, <2>3, <2>6
  <2> HIDE DEF n
  <2> QED
    BY <1>2, <1>5, <2>2, <2>7 DEF Fetched, r, h
<1>8. CASE ~(d.spec # "p" /\ d.length = "ll")
  <2>1. GetArgument(d) = n
    <3>1. CASE d.spec = "p"
      BY <3>1 DEF GetArgument, TypeMod, M
    <3>2. CASE d.spec # "p" /\ d.length = "hh"
      BY <3>2 DEF GetArgument, TypeMod, M
    <3>3. CASE d.spec # "p" /\ d.length = "h"
      BY <3>3 DEF GetArgument, TypeMod, M
    <3>4. CASE d.spec # "p" /\ d.length \notin {"hh", "h", "ll"}
      BY <3>4 DEF GetArgument, TypeMod, M
    <3> QED
      BY <1>8, <3>1, <3>2, <3>3, <3>4
  <2>2. M <= IntMod
    <3>1. M \in {IntMod, CharMod, ShortMod}
      BY <1>8, Zenon DEF TypeMod, M
    <3> QED
      BY <1>2, <3>1
  <2>3. SignedSpec(d) => M = IntMod \/ Meant(d) >= 0
    <3> SUFFICES ASSUME SignedSpec(d), ~(Meant(d) >= 0)
                 PROVE  M = IntMod
      OBVIOUS
    <3>1. Meant(d) < 0
      BY <1>5
    <3>2. d.length \notin {"hh", "h"}
      BY <3>1, Zenon DEF Departs
    <3> QED
      BY <1>6, <1>8, <3>2 DEF TypeMod, M
  <2> HIDE DEF n
  <2>4. n \in Nat /\ n < M /\ n < IntMod /\ n \in 0..(IntMod - 1)
    BY <1>2, <1>4, <2>2
  <2>5. CASE SignedSpec(d) /\ 2 * n >= M
    <3>1. Meant(d) = n - M /\ Meant(d) < 0
      BY <1>2, <1>3, <2>4, <2>5
    <3>2. M = IntMod
      BY <2>3, <2>5, <3>1, <1>5
    <3> QED
      BY <1>2, <1>5, <2>1, <2>4, <2>5, <3>1, <3>2 DEF Fetched, h
  <2>6. CASE ~(SignedSpec(d) /\ 2 * n >= M)
    <3>1. Meant(d) = n /\ ~(Meant(d) < 0)
      BY <1>3, <2>4, <2>6
    <3>2. SignedSpec(d) => ~(n >= h)
      BY <1>2, <2>2, <2>4, <2>6
    <3> QED
      BY <1>5, <2>1, <2>4, <3>1, <3>2 DEF Fetched, h
  <2> QED
    BY <2>5, <2>6
<1> QED
  BY <1>7, <1>8

\* The size of the number meant.
Absolute(d) == IF Meant(d) < 0 THEN -Meant(d) ELSE Meant(d)

\* The names of its digits.
Case(d) == IF d.spec = "X" THEN {"UPPERCASE"} ELSE {}

\* What format_number works with is what C asks for.
AsMeant(d) ==
    /\ Meant(d) \in Int /\ Absolute(d) \in Nat
    /\ Magnitude(GetArgument(d), Base(d), Flags(d)) = Absolute(d)
    /\ Sign(GetArgument(d), Base(d), Flags(d)) = MeantSign(d)
    /\ Prefix(GetArgument(d), Base(d), Flags(d))
          = IF Octal(d) /\ Meant(d) # 0 THEN <<"0">> ELSE MeantPrefix(d)
    /\ Names(Flags(d)) = Names(Case(d))
    /\ ZeroPadded(d) <=> "ZEROPAD" \in Flags(d) /\ "LEFT" \notin Flags(d)
    /\ Octal(d) => MeantSign(d) = <<>> /\ MeantPrefix(d) = <<>> /\ Precision(d) = 1

\* It is, but where vprintf departs from C.
LEMMA AllAsMeant ==
    ASSUME NEW d \in Directives, d.spec \in Numbers, ~Departs(d)
    PROVE  AsMeant(d)
<1> DEFINE number == GetArgument(d)
           base == Base(d)
           flags == Flags(d)
           h == IntMod \div 2
<1>1. Fetched(d)
  BY ArgumentFetched
<1>2. /\ Meant(d) \in Int /\ number \in 0..(IntMod - 1)
      /\ number = IF Meant(d) < 0 THEN Meant(d) + IntMod ELSE Meant(d)
      /\ SignedSpec(d) => (Meant(d) < 0 <=> number >= h)
      /\ ~SignedSpec(d) => Meant(d) >= 0
  BY <1>1, Zenon DEF Fetched
<1>3. IntMod \in Nat \ {0} /\ h \in Nat
  BY TypeMods
<1>4. d.flags \subseteq {"LEFT", "PLUS", "SPACE", "HASH", "ZEROPAD", "PRECISION"}
  BY ConsoleAssumption
<1>5. /\ "SIGNED" \in flags <=> SignedSpec(d)
      /\ "UPPERCASE" \in flags <=> d.spec = "X"
      /\ "PLUS" \in flags <=> "PLUS" \in d.flags
      /\ "SPACE" \in flags <=> "SPACE" \in d.flags
      /\ "HASH" \in flags <=> "HASH" \in d.flags
      /\ "LEFT" \in flags <=> "LEFT" \in d.flags
      /\ "ZEROPAD" \in flags <=> "ZEROPAD" \in d.flags /\ "PRECISION" \notin d.flags
  BY <1>4 DEF Flags, SignedSpec
<1>6. /\ base = 10 <=> d.spec \in {"d", "i", "u"}
      /\ base = 8 <=> d.spec = "o"
      /\ base = 16 <=> d.spec \in {"x", "X", "p"}
  BY DEF Base, Numbers
<1>7. /\ SignedSpec(d) <=> d.spec \in {"d", "i"}
      /\ SignedSpec(d) => base = 10
      /\ SignedSpec(d) \/ d.spec = "u" \/ base # 10
  BY <1>6 DEF SignedSpec
<1>8. Negative(number, flags) <=> Meant(d) < 0
  BY <1>2, <1>5 DEF Negative
<1>9. number = 0 <=> Meant(d) = 0
  <2>1. number \in Int /\ h > 0
    BY <1>2, <1>3, TypeMods
  <2> HIDE DEF number, h
  <2>2. Meant(d) < 0 => number > 0
    BY <1>2, <1>3, <2>1
  <2> QED
    BY <1>2, <2>1, <2>2
<1> HIDE DEF number, base, flags, h
<1>10. Absolute(d) \in Nat
  BY <1>2 DEF Absolute
<1>11. Magnitude(number, base, flags) = Absolute(d)
  <2>1. Meant(d) < 0 => base = 10
    BY <1>2, <1>7
  <2>2. CASE Meant(d) < 0
    <3>1. Magnitude(number, base, flags) = IntMod - number
      BY <1>8, <2>1, <2>2 DEF Magnitude
    <3> QED
      BY <1>2, <1>3, <2>2, <3>1 DEF Absolute
  <2>3. CASE ~(Meant(d) < 0)
    <3>1. Magnitude(number, base, flags) = number
      BY <1>8, <2>3 DEF Magnitude
    <3> QED
      BY <1>2, <2>3, <3>1 DEF Absolute
  <2> QED
    BY <2>2, <2>3
<1>12. Sign(number, base, flags) = MeantSign(d)
  <2>1. CASE SignedSpec(d)
    <3>1. CASE Meant(d) < 0
      BY <1>7, <1>8, <2>1, <3>1, Zenon DEF Sign, MeantSign
    <3>2. CASE ~(Meant(d) < 0)
      <4>1. Meant(d) >= 0
        BY <1>2, <3>2
      <4>2. ~("PLUS" \in d.flags /\ "SPACE" \in d.flags)
        <5>1. ~({"PLUS", "SPACE"} \subseteq d.flags)
          BY <2>1, <4>1, Zenon DEF Departs
        <5> QED
          BY <5>1
      <4> QED
        BY <1>5, <1>7, <1>8, <2>1, <3>2, <4>2, Zenon DEF Sign, MeantSign
    <3> QED
      BY <3>1, <3>2
  <2>2. CASE ~SignedSpec(d) /\ base = 10
    <3>1. d.spec = "u"
      BY <1>7, <2>2
    <3>2. "PLUS" \notin d.flags /\ "SPACE" \notin d.flags
      <4>1. d.flags \cap {"PLUS", "SPACE"} = {}
        BY <3>1, Zenon DEF Departs
      <4> QED
        BY <4>1
    <3>3. ~(Meant(d) < 0)
      BY <1>2, <2>2
    <3> QED
      BY <1>5, <1>8, <2>2, <3>2, <3>3, Zenon DEF Sign, MeantSign
  <2>3. CASE ~SignedSpec(d) /\ base # 10
    BY <2>3, Zenon DEF Sign, MeantSign
  <2> QED
    BY <2>1, <2>2, <2>3
<1>13. Prefix(number, base, flags)
          = IF Octal(d) /\ Meant(d) # 0 THEN <<"0">> ELSE MeantPrefix(d)
  <2>1. CASE "HASH" \notin d.flags \/ Meant(d) = 0 \/ base = 10
    <3>1. ~(Octal(d) /\ Meant(d) # 0)
      BY <1>6, <2>1 DEF Octal
    <3>2. "HASH" \notin d.flags \/ Meant(d) = 0 \/ d.spec \notin {"x", "X", "p"}
      BY <1>6, <2>1
    <3>3. "HASH" \notin flags \/ number = 0 \/ base = 10
      BY <1>5, <1>9, <2>1
    <3>4. Prefix(number, base, flags) = <<>>
      BY <3>3, Zenon DEF Prefix
    <3>5. MeantPrefix(d) = <<>>
      BY <3>2, Zenon DEF MeantPrefix
    <3> QED
      BY <3>1, <3>4, <3>5, Zenon
  <2>2. CASE ~("HASH" \notin d.flags \/ Meant(d) = 0 \/ base = 10) /\ base = 8
    <3>1. Octal(d) /\ Meant(d) # 0
      BY <1>6, <2>2 DEF Octal
    <3>2. Prefix(number, base, flags) = <<"0">>
      BY <1>5, <1>9, <2>2, Zenon DEF Prefix
    <3> QED
      BY <3>1, <3>2, Zenon
  <2>3. CASE ~("HASH" \notin d.flags \/ Meant(d) = 0 \/ base = 10) /\ base # 8
    <3>1. ~Octal(d)
      BY <1>6, <2>3 DEF Octal
    <3>2. d.spec \in {"x", "X", "p"}
      BY <1>6, <2>3 DEF Numbers
    <3>3. Prefix(number, base, flags) = IF d.spec = "X" THEN <<"0", "X">> ELSE <<"0", "x">>
      BY <1>5, <1>9, <2>3, Zenon DEF Prefix
    <3>4. MeantPrefix(d) = IF d.spec = "X" THEN <<"0", "X">> ELSE <<"0", "x">>
      BY <2>3, <3>2, Zenon DEF MeantPrefix
    <3> QED
      BY <3>1, <3>3, <3>4, Zenon
  <2> QED
    BY <2>1, <2>2, <2>3, Zenon
<1>14. Names(flags) = Names(Case(d))
  <2>1. "UPPERCASE" \in Case(d) <=> d.spec = "X"
    BY DEF Case
  <2> QED
    BY <1>5, <2>1, Zenon DEF Names
<1>15. ZeroPadded(d) <=> "ZEROPAD" \in flags /\ "LEFT" \notin flags
  BY <1>5 DEF ZeroPadded
<1>16. Octal(d) => MeantSign(d) = <<>> /\ MeantPrefix(d) = <<>> /\ Precision(d) = 1
  <2> SUFFICES ASSUME Octal(d)
               PROVE  MeantSign(d) = <<>> /\ MeantPrefix(d) = <<>> /\ Precision(d) = 1
    OBVIOUS
  <2>1. d.spec = "o" /\ ~SignedSpec(d) /\ d.spec \notin {"x", "X", "p"}
    BY DEF Octal, SignedSpec
  <2>2. "PRECISION" \notin d.flags
    BY Zenon DEF Departs
  <2> QED
    BY <2>1, <2>2, Zenon DEF MeantSign, MeantPrefix, Precision
<1> QED
  BY <1>2, <1>10, <1>11, <1>12, <1>13, <1>14, <1>15, <1>16
     DEF AsMeant, number, base, flags

\* Signs and prefixes are made of symbols.
LEMMA FrontType ==
    ASSUME NEW number, NEW base, NEW flags
    PROVE  /\ Sign(number, base, flags) \in Seq(Symbols)
           /\ Prefix(number, base, flags) \in Seq(Symbols)
<1>1. {"-", Blank, "+", "0", "x", "X"} \subseteq Symbols
  BY DEF Symbols
<1>2. /\ <<>> \in Seq(Symbols) /\ <<"-">> \in Seq(Symbols)
      /\ <<Blank>> \in Seq(Symbols) /\ <<"+">> \in Seq(Symbols)
      /\ <<"0">> \in Seq(Symbols) /\ <<"0", "X">> \in Seq(Symbols)
      /\ <<"0", "x">> \in Seq(Symbols)
  BY <1>1
<1>3. Sign(number, base, flags) \in {<<>>, <<"-">>, <<Blank>>, <<"+">>}
  BY Zenon DEF Sign
<1>4. Prefix(number, base, flags) \in {<<>>, <<"0">>, <<"0", "X">>, <<"0", "x">>}
  BY Zenon DEF Prefix
<1> QED
  BY <1>2, <1>3, <1>4, Zenon

\* So are digits.
LEMMA NamesType ==
    ASSUME NEW flags, NEW v \in 1..16
    PROVE  Names(flags)[v] \in Symbols
  BY DEF Names, Symbols

\* Zeros for the width, zeros for the precision, and the digits of n.
Numeral(x, y, n, base, flags) ==
    (Repeat("0", x) \o Repeat("0", y)) \o Digits(n, base, flags)

\* It is read as n.
LEMMA NumeralFacts ==
    ASSUME NEW n \in Nat, NEW base \in {8, 10, 16}, NEW flags,
           NEW x \in Int, NEW y \in Int
    PROVE  /\ Digits(n, base, flags) \in Seq(Symbols)
           /\ Repeat("0", x) \in Seq(Symbols) /\ Repeat("0", y) \in Seq(Symbols)
           /\ Numeral(x, y, n, base, flags) \in Seq(Symbols)
           /\ Len(Numeral(x, y, n, base, flags))
                = Larger(x, 0) + Larger(y, 0) + Len(Digits(n, base, flags))
           /\ Written(Numeral(x, y, n, base, flags),
                      Larger(x, 0) + Larger(y, 0), n, base, flags)
<1> DEFINE X == Repeat("0", x)
           Y == Repeat("0", y)
           D == Digits(n, base, flags)
           a == Larger(x, 0)
           b == Larger(y, 0)
<1>1. /\ X \in Seq({"0"}) /\ Len(X) = a /\ a \in Nat /\ \A i \in 1..a : X[i] = "0"
      /\ Y \in Seq({"0"}) /\ Len(Y) = b /\ b \in Nat /\ \A i \in 1..b : Y[i] = "0"
  BY RepeatFacts
<1>2. PICK rest, count :
        /\ Spelled(n, base, rest, count)
        /\ D = [i \in 1..count |-> Names(flags)[(rest[count - i] % base) + 1]]
  BY DigitsFacts
<1>3. /\ count \in Nat /\ rest \in [0..count -> Nat]
  BY <1>2 DEF Spelled
<1>4. ASSUME NEW i \in 1..count
      PROVE  Names(flags)[(rest[count - i] % base) + 1] \in Symbols
  <2>1. rest[count - i] \in Nat
    BY <1>3
  <2>2. rest[count - i] % base \in 0..(base - 1)
    BY <2>1, Quotient
  <2>3. (rest[count - i] % base) + 1 \in 1..16
    BY <2>2
  <2> QED
    BY <2>3, NamesType
<1>5. /\ D \in Seq(Symbols) /\ Len(D) = count
      /\ \A i \in 1..count : D[i] = Names(flags)[(rest[count - i] % base) + 1]
  <2> DEFINE F == [i \in 1..count |-> Names(flags)[(rest[count - i] % base) + 1]]
  <2>1. F \in [1..count -> Symbols]
    BY <1>4
  <2>2. \A i \in 1..count : F[i] = Names(flags)[(rest[count - i] % base) + 1]
    OBVIOUS
  <2> HIDE DEF F, D
  <2>3. F \in Seq(Symbols) /\ Len(F) = count
    BY <1>3, <2>1
  <2>4. D = F
    BY <1>2 DEF F
  <2> QED
    BY <2>2, <2>3, <2>4
<1> HIDE DEF X, Y, D, a, b
<1>6. X \in Seq(Symbols) /\ Y \in Seq(Symbols)
  <2>1. "0" \in Symbols
    BY DEF Symbols
  <2> QED
    BY <1>1, <2>1
<1> DEFINE Z == X \o Y
           s == Z \o D
<1>7. /\ Z \in Seq(Symbols) /\ Len(Z) = a + b
      /\ \A i \in 1..(a + b) : Z[i] = "0"
  <2>1. /\ Z \in Seq(Symbols) /\ Len(Z) = Len(X) + Len(Y)
        /\ \A i \in 1..(Len(X) + Len(Y)) :
              Z[i] = IF i <= Len(X) THEN X[i] ELSE Y[i - Len(X)]
    BY <1>6, ConcatProperties
  <2> HIDE DEF Z
  <2>2. ASSUME NEW i \in 1..(a + b)
        PROVE  Z[i] = "0"
    <3>1. i <= a => i \in 1..a
      BY <1>1
    <3>2. ~(i <= a) => i - a \in 1..b
      BY <1>1
    <3> QED
      BY <1>1, <2>1, <3>1, <3>2
  <2> QED
    BY <1>1, <2>1, <2>2
<1> HIDE DEF Z
<1>8. /\ s \in Seq(Symbols) /\ Len(s) = a + b + count
      /\ \A i \in 1..(a + b + count) :
            s[i] = IF i <= a + b THEN Z[i] ELSE D[i - (a + b)]
  <2>1. /\ s \in Seq(Symbols) /\ Len(s) = Len(Z) + Len(D)
        /\ \A i \in 1..(Len(Z) + Len(D)) :
              s[i] = IF i <= Len(Z) THEN Z[i] ELSE D[i - Len(Z)]
    BY <1>5, <1>7, ConcatProperties
  <2> HIDE DEF s
  <2> QED
    BY <1>5, <1>7, <2>1
<1> HIDE DEF s
<1>9. Written(s, a + b, n, base, flags)
  <2>1. \A i \in 1..(a + b) : s[i] = "0"
    BY <1>1, <1>3, <1>7, <1>8
  <2>2. ASSUME NEW i \in 1..count
        PROVE  s[a + b + i] = Names(flags)[(rest[count - i] % base) + 1]
    <3>1. /\ a + b + i \in 1..(a + b + count) /\ ~(a + b + i <= a + b)
          /\ (a + b + i) - (a + b) = i
      BY <1>1, <1>3
    <3>2. s[a + b + i] = D[i]
      BY <1>8, <3>1
    <3> QED
      BY <1>5, <3>2
  <2> QED
    BY <1>2, <1>8, <2>1, <2>2 DEF Written
<1> QED
  BY <1>5, <1>6, <1>7, <1>8, <1>9 DEF Numeral, X, Y, D, a, b, Z, s

\* Three parts, put together in either order.
Joined(a, b) == a \o b

\* Appending is associative.
LEMMA Associative ==
    ASSUME NEW S, NEW a \in Seq(S), NEW b \in Seq(S), NEW c \in Seq(S)
    PROVE  /\ Joined(a, b) \in Seq(S)
           /\ Joined(Joined(a, b), c) = Joined(a, Joined(b, c))
  BY ConcatAssociative DEF Joined

\* The parts of a number: blanks, sign and prefix, zeros and digits, blanks.
Parts(p, a, b, c, e, f, q) == p \o a \o b \o c \o e \o f \o q

Grouped(p, a, b, c, e, f, q) == p \o ((a \o b) \o ((c \o e) \o f)) \o q

Sequences(S, p, a, b, c, e, f) ==
    /\ p \in Seq(S) /\ a \in Seq(S) /\ b \in Seq(S)
    /\ c \in Seq(S) /\ e \in Seq(S) /\ f \in Seq(S)

\* They are blanks around a body, which is a front and a numeral.
LEMMA Regroup ==
    ASSUME NEW S, NEW p, NEW a, NEW b, NEW c, NEW e, NEW f, NEW q,
           Sequences(S, p, a, b, c, e, f)
    PROVE  Parts(p, a, b, c, e, f, q) = Grouped(p, a, b, c, e, f, q)
<1>0. /\ p \in Seq(S) /\ a \in Seq(S) /\ b \in Seq(S)
      /\ c \in Seq(S) /\ e \in Seq(S) /\ f \in Seq(S)
  BY DEF Sequences
<1> DEFINE ab == Joined(a, b)
           ce == Joined(c, e)
           cef == Joined(ce, f)
           pab == Joined(p, ab)
<1>1. ab \in Seq(S) /\ Joined(Joined(p, a), b) = pab /\ ce \in Seq(S)
  BY <1>0, Associative
<1> HIDE DEF ab, ce
<1>2. pab \in Seq(S) /\ cef \in Seq(S)
  BY <1>0, <1>1, Associative
<1>3. Joined(pab, Joined(ce, f)) = Joined(p, Joined(ab, cef))
  <2> HIDE DEF cef
  <2>1. Joined(Joined(p, ab), cef) = Joined(p, Joined(ab, cef))
    BY <1>0, <1>1, <1>2, Associative
  <2> QED
    BY <2>1 DEF cef
<1> HIDE DEF pab
<1>4. Joined(Joined(pab, c), e) = Joined(pab, ce)
  BY <1>0, <1>2, Associative DEF ce
<1>5. Joined(Joined(pab, ce), f) = Joined(pab, cef)
  BY <1>0, <1>1, <1>2, Associative
<1>6. Joined(Joined(Joined(Joined(Joined(p, a), b), c), e), f)
         = Joined(p, Joined(ab, cef))
  BY <1>1, <1>3, <1>4, <1>5
<1>7. Joined(Joined(Joined(Joined(Joined(Joined(p, a), b), c), e), f), q)
         = Joined(Joined(p, Joined(ab, cef)), q)
  BY <1>6, Zenon
<1> QED
  BY <1>7, Zenon DEF Parts, Grouped, Joined, ab, ce, cef

Split(body, f, e) ==
    /\ Len(body) = Len(f) + Len(e)
    /\ Len(f) \in Nat /\ Len(e) \in Nat
    /\ SubSeq(body, 1, Len(f)) = f
    /\ SubSeq(body, Len(f) + 1, Len(body)) = e

\* The front and the rest of a body.
LEMMA FrontAndRest ==
    ASSUME NEW S, NEW f \in Seq(S), NEW e \in Seq(S)
    PROVE  f \o e \in Seq(S) /\ Split(f \o e, f, e)
<1> DEFINE s == f \o e
<1>1. /\ s \in Seq(S) /\ Len(s) = Len(f) + Len(e)
      /\ Len(f) \in Nat /\ Len(e) \in Nat
      /\ \A i \in 1..(Len(f) + Len(e)) :
            s[i] = IF i <= Len(f) THEN f[i] ELSE e[i - Len(f)]
  BY ConcatProperties
<1> HIDE DEF s
<1>2. \A i \in 1..Len(f) : s[0 + i] = f[i]
  BY <1>1
<1>3. \A i \in 1..Len(e) : s[Len(f) + i] = e[i]
  <2> SUFFICES ASSUME NEW i \in 1..Len(e)
               PROVE  s[Len(f) + i] = e[i]
    OBVIOUS
  <2>1. /\ Len(f) + i \in 1..(Len(f) + Len(e)) /\ ~(Len(f) + i <= Len(f))
        /\ (Len(f) + i) - Len(f) = i
    BY <1>1
  <2> QED
    BY <1>1, <2>1
<1>4. SubSeq(s, 0 + 1, 0 + Len(f)) = f
  <2>1. 0 \in Nat /\ 0 + Len(f) <= Len(s)
    BY <1>1
  <2> QED
    BY <1>1, <1>2, <2>1, CutOut
<1>5. SubSeq(s, Len(f) + 1, Len(f) + Len(e)) = e
  BY <1>1, <1>3, CutOut
<1>6. 0 + 1 = 1 /\ 0 + Len(f) = Len(f)
  BY <1>1
<1> QED
  BY <1>1, <1>4, <1>5, <1>6 DEF s, Split

\* Flags(d) leaves LEFT, and never adds ZEROPAD.
LEMMA FlagsFacts ==
    ASSUME NEW d
    PROVE  /\ "LEFT" \in Flags(d) <=> "LEFT" \in d.flags
           /\ "ZEROPAD" \in Flags(d) => "ZEROPAD" \in d.flags
  BY DEF Flags

\* A field of blanks, sign and prefix, z zeros and digits.
NumberShown(s, d, before, after, body, front, tail, z) ==
    /\ PaddedTo(s, before, body, after, d)
    /\ front \in Seq(Symbols) /\ tail \in Seq(Symbols)
    /\ body = front \o tail
    /\ Split(body, front, tail)
    /\ z \in Nat /\ Written(tail, z, Absolute(d), Base(d), Flags(d))
    /\ Precision(d) <= Len(tail)
    /\ ZeroPadded(d) => before = 0
    /\ \/ Len(tail) <= Precision(d)
       \/ z = 0 /\ Len(tail) > z
       \/ ZeroPadded(d) /\ Len(s) = d.width

\* Such a field with the sign and the prefix that format_number chooses.
Formatted(s, d) ==
    \E before, after, body, tail, z :
        NumberShown(s, d, before, after, body,
                    Sign(GetArgument(d), Base(d), Flags(d))
                       \o Prefix(GetArgument(d), Base(d), Flags(d)), tail, z)

\* Only zero has no digits of its own.
LEMMA WrittenLength ==
    ASSUME NEW s, NEW z \in Nat, NEW n \in Nat, NEW base, NEW flags,
           Written(s, z, n, base, flags)
    PROVE  Len(s) \in Nat /\ Len(s) >= z /\ (Len(s) = z <=> n = 0)
<1>1. PICK rest, count : Spelled(n, base, rest, count) /\ Len(s) = z + count
  BY DEF Written
<1>2. /\ count \in Nat /\ rest[0] = n /\ rest[count] = 0
      /\ \A j \in 0..(count - 1) : rest[j] # 0
  BY <1>1 DEF Spelled
<1>3. count = 0 <=> n = 0
  <2>1. count > 0 => 0 \in 0..(count - 1)
    BY <1>2
  <2> QED
    BY <1>2, <2>1
<1> QED
  BY <1>1, <1>2, <1>3

\* One zero more in front changes nothing but the number of zeros.
LEMMA WrittenMore ==
    ASSUME NEW t \in Seq(Symbols), NEW z \in Nat, NEW n \in Nat, NEW base, NEW flags,
           Written(t, z, n, base, flags)
    PROVE  Written(<<"0">> \o t, z + 1, n, base, flags)
<1> DEFINE zero == <<"0">>
           s == zero \o t
<1>1. PICK rest, count :
        /\ Spelled(n, base, rest, count)
        /\ Len(t) = z + count
        /\ \A i \in 1..z : t[i] = "0"
        /\ \A i \in 1..count :
              t[z + i] = Names(flags)[(rest[count - i] % base) + 1]
  BY DEF Written
<1>2. count \in Nat
  BY <1>1 DEF Spelled
<1>3. zero \in Seq(Symbols) /\ Len(zero) = 1 /\ zero[1] = "0"
  BY DEF Symbols
<1> HIDE DEF zero
<1>4. /\ Len(s) = 1 + Len(t)
      /\ \A i \in 1..(1 + Len(t)) : s[i] = IF i <= 1 THEN zero[i] ELSE t[i - 1]
  <2>1. /\ Len(s) = Len(zero) + Len(t)
        /\ \A i \in 1..(Len(zero) + Len(t)) :
              s[i] = IF i <= Len(zero) THEN zero[i] ELSE t[i - Len(zero)]
    BY <1>3, ConcatProperties
  <2> HIDE DEF s
  <2> QED
    BY <1>3, <2>1
<1> HIDE DEF s
<1>5. Len(s) = (z + 1) + count
  BY <1>1, <1>2, <1>4
<1>6. \A i \in 1..(z + 1) : s[i] = "0"
  <2> SUFFICES ASSUME NEW i \in 1..(z + 1)
               PROVE  s[i] = "0"
    OBVIOUS
  <2>1. i \in 1..(1 + Len(t)) /\ (i = 1 \/ (~(i <= 1) /\ i - 1 \in 1..z))
    BY <1>1, <1>2
  <2> QED
    BY <1>1, <1>3, <1>4, <2>1
<1>7. ASSUME NEW i \in 1..count
      PROVE  s[(z + 1) + i] = Names(flags)[(rest[count - i] % base) + 1]
  <2>1. /\ (z + 1) + i \in 1..(1 + Len(t)) /\ ~((z + 1) + i <= 1)
        /\ ((z + 1) + i) - 1 = z + i
    BY <1>1, <1>2
  <2>2. s[(z + 1) + i] = t[z + i]
    BY <1>4, <2>1
  <2> QED
    BY <1>1, <2>2
<1>8. Written(s, z + 1, n, base, flags)
  BY <1>1, <1>5, <1>6, <1>7 DEF Written
<1> QED
  BY <1>8 DEF s, zero

\* The parts of C's field.
FieldShown(s, d, before, after, body, front, digits) ==
    /\ Body(s, before, after) = body
    /\ Blanks(s, before, after, d)
    /\ ZeroPadded(d) => before = 0
    /\ Len(body) >= Len(front)
    /\ SubSeq(body, 1, Len(front)) = front
    /\ SubSeq(body, Len(front) + 1, Len(body)) = digits
    /\ IsDigits(digits, Base(d), Case(d))
    /\ Value(digits, Base(d)) = Absolute(d)
    /\ DigitsWanted(digits, d, Len(s) = d.width)

\* They make the field.
LEMMA PartsMakeField ==
    ASSUME NEW s, NEW d, NEW before \in 0..Len(s), NEW after \in 0..Len(s),
           NEW body, NEW front, NEW digits,
           front = MeantSign(d) \o MeantPrefix(d),
           FieldShown(s, d, before, after, body, front, digits)
    PROVE  NumberField(s, d)
  BY Zenon DEF NumberField, FieldShown, Absolute, Case

\* Digits that are zeros and the digits of the number are digits in C's way.
LEMMA WrittenShown ==
    ASSUME NEW d, AsMeant(d), NEW digits, NEW z \in Nat,
           Base(d) \in {8, 10, 16},
           Written(digits, z, Absolute(d), Base(d), Flags(d))
    PROVE  /\ IsDigits(digits, Base(d), Case(d))
           /\ Value(digits, Base(d)) = Absolute(d)
           /\ Len(digits) > z => digits[z + 1] # "0"
<1>1. Absolute(d) \in Nat /\ Names(Flags(d)) = Names(Case(d))
  BY DEF AsMeant
<1>2. DigitString(digits, z, Base(d), Flags(d))
  BY <1>1, WrittenDigits
<1>3. IsDigits(digits, Base(d), Case(d))
  BY <1>1, <1>2, Zenon DEF IsDigits, Names, DigitString
<1>4. Value(digits, Base(d)) = Absolute(d)
  BY <1>1, WrittenValue
<1> QED
  BY <1>2, <1>3, <1>4, Zenon DEF DigitString

\* What format_number shows is C's field.
LEMMA ShownIsField ==
    ASSUME NEW s, NEW d, AsMeant(d), Base(d) \in {8, 10, 16}, Precision(d) \in Nat,
           Formatted(s, d)
    PROVE  NumberField(s, d)
<1> DEFINE front == Sign(GetArgument(d), Base(d), Flags(d))
                      \o Prefix(GetArgument(d), Base(d), Flags(d))
<1>0. PICK before, after, body, tail, z :
         NumberShown(s, d, before, after, body, front, tail, z)
  BY Zenon DEF Formatted
<1>f. front = Sign(GetArgument(d), Base(d), Flags(d))
                \o Prefix(GetArgument(d), Base(d), Flags(d))
  OBVIOUS
<1> HIDE DEF front
<1>1. /\ PaddedTo(s, before, body, after, d)
      /\ front \in Seq(Symbols) /\ tail \in Seq(Symbols)
      /\ body = front \o tail
      /\ Split(body, front, tail)
      /\ z \in Nat /\ Written(tail, z, Absolute(d), Base(d), Flags(d))
      /\ Precision(d) <= Len(tail)
      /\ ZeroPadded(d) => before = 0
      /\ \/ Len(tail) <= Precision(d)
         \/ z = 0 /\ Len(tail) > z
         \/ ZeroPadded(d) /\ Len(s) = d.width
  BY <1>0, Zenon DEF NumberShown
<1>2. /\ Blanks(s, before, after, d) /\ Body(s, before, after) = body
      /\ before \in 0..Len(s) /\ after \in 0..Len(s)
  BY <1>1, Zenon DEF PaddedTo
<1>3. /\ Absolute(d) \in Nat /\ (Absolute(d) = 0 <=> Meant(d) = 0)
      /\ Octal(d) => MeantSign(d) = <<>> /\ MeantPrefix(d) = <<>> /\ Precision(d) = 1
      /\ Sign(GetArgument(d), Base(d), Flags(d)) = MeantSign(d)
      /\ Prefix(GetArgument(d), Base(d), Flags(d))
            = IF Octal(d) /\ Meant(d) # 0 THEN <<"0">> ELSE MeantPrefix(d)
  <2>1. Meant(d) \in Int /\ Absolute(d) \in Nat
    BY DEF AsMeant
  <2>2. Absolute(d) = 0 <=> Meant(d) = 0
    BY <2>1 DEF Absolute
  <2> QED
    BY <2>1, <2>2, Zenon DEF AsMeant
<1>4. /\ Len(tail) \in Nat /\ Len(tail) >= z /\ (Len(tail) = z <=> Absolute(d) = 0)
  BY <1>1, <1>3, WrittenLength
<1>5. CASE ~(Octal(d) /\ Meant(d) # 0)
  <2>1. front = MeantSign(d) \o MeantPrefix(d)
    BY <1>3, <1>5, <1>f, Zenon
  <2>2. /\ IsDigits(tail, Base(d), Case(d)) /\ Value(tail, Base(d)) = Absolute(d)
        /\ Len(tail) > z => tail[z + 1] # "0"
    BY <1>1, WrittenShown
  <2>3. z = 0 /\ Len(tail) > z => tail[1] # "0"
    <3>1. 0 + 1 = 1
      OBVIOUS
    <3> QED
      BY <2>2, <3>1
  <2>4. Octal(d) => Len(tail) > 0 /\ tail[1] = "0"
    <3> SUFFICES ASSUME Octal(d)
                 PROVE  Len(tail) > 0 /\ tail[1] = "0"
      OBVIOUS
    <3>1. Absolute(d) = 0 /\ Len(tail) >= 1 /\ z >= 1 /\ z = Len(tail)
      BY <1>1, <1>3, <1>4, <1>5
    <3>2. \A i \in 1..z : tail[i] = "0"
      BY <1>1, Zenon DEF Written
    <3>3. 1 \in 1..z
      BY <1>1, <3>1
    <3> QED
      BY <1>4, <3>1, <3>2, <3>3
  <2>5. DigitsWanted(tail, d, Len(s) = d.width)
    BY <1>1, <2>3, <2>4 DEF DigitsWanted
  <2>6. Len(body) >= Len(front) /\ SubSeq(body, 1, Len(front)) = front
        /\ SubSeq(body, Len(front) + 1, Len(body)) = tail
    BY <1>1 DEF Split
  <2>7. FieldShown(s, d, before, after, body, front, tail)
    BY <1>1, <1>2, <2>2, <2>5, <2>6, Zenon DEF FieldShown
  <2> QED
    BY <1>2, <2>1, <2>7, PartsMakeField, Zenon
<1>6. CASE Octal(d) /\ Meant(d) # 0
  <2>1. front = <<>> \o <<"0">> /\ MeantSign(d) = <<>> /\ MeantPrefix(d) = <<>>
    BY <1>3, <1>6, <1>f, Zenon
  <2>2. front = <<"0">>
    BY <2>1
  <2>3. body = <<"0">> \o tail
    BY <1>1, <2>2, Zenon
  <2>4. body \in Seq(Symbols) /\ Len(body) = 1 + Len(tail) /\ body[1] = "0"
    <3> DEFINE zero == <<"0">>
    <3>1. zero \in Seq(Symbols) /\ Len(zero) = 1 /\ zero[1] = "0"
      BY DEF Symbols
    <3>2. body = zero \o tail
      BY <2>3
    <3> HIDE DEF zero
    <3>3. 1 \in 1..(Len(zero) + Len(tail)) /\ 1 <= Len(zero)
      BY <1>4, <3>1
    <3>4. /\ zero \o tail \in Seq(Symbols)
          /\ Len(zero \o tail) = Len(zero) + Len(tail)
          /\ \A i \in 1..(Len(zero) + Len(tail)) :
                (zero \o tail)[i] = IF i <= Len(zero) THEN zero[i] ELSE tail[i - Len(zero)]
      BY <1>1, <3>1, ConcatProperties
    <3> QED
      BY <3>1, <3>2, <3>3, <3>4
  <2>5. Written(body, z + 1, Absolute(d), Base(d), Flags(d))
    BY <1>1, <1>3, <2>3, WrittenMore
  <2>6. /\ IsDigits(body, Base(d), Case(d)) /\ Value(body, Base(d)) = Absolute(d)
        /\ Len(body) > z + 1 => body[(z + 1) + 1] # "0"
    <3>1. z + 1 \in Nat
      BY <1>1
    <3> QED
      BY <2>5, <3>1, WrittenShown
  <2>7. z = 0 => body[2] # "0"
    <3> SUFFICES ASSUME z = 0
                 PROVE  body[2] # "0"
      OBVIOUS
    <3>1. (z + 1) + 1 = 2 /\ Len(body) > z + 1
      BY <1>3, <1>4, <1>6, <2>4
    <3> QED
      BY <2>6, <3>1
  <2>8. \/ body[2] # "0"
        \/ ZeroPadded(d) /\ Len(s) = d.width
    <3>1. CASE Len(tail) <= Precision(d)
      <4>1. z = 0
        BY <1>1, <1>3, <1>4, <1>6, <3>1
      <4> QED
        BY <2>7, <4>1
    <3> QED
      BY <1>1, <2>7, <3>1
  <2>9. DigitsWanted(body, d, Len(s) = d.width)
    <3>1. Len(body) >= Precision(d) /\ Len(body) > 0
      BY <1>1, <1>4, <2>4
    <3> QED
      BY <1>6, <2>4, <2>8, <3>1 DEF DigitsWanted
  <2> DEFINE none == MeantSign(d) \o MeantPrefix(d)
  <2>10. /\ none = <<>> /\ Len(none) = 0 /\ Len(body) >= Len(none)
         /\ SubSeq(body, 1, Len(none)) = none
         /\ SubSeq(body, Len(none) + 1, Len(body)) = body
    <3>1. none = <<>> /\ Len(none) = 0
      BY <2>1
    <3> HIDE DEF none
    <3>2. SubSeq(body, 1, 0) = <<>> /\ SubSeq(body, 1, Len(body)) = body
      BY <2>4
    <3> QED
      BY <2>4, <3>1, <3>2
  <2> HIDE DEF none
  <2>11. FieldShown(s, d, before, after, body, none, body)
    BY <1>1, <1>2, <2>6, <2>9, <2>10, Zenon DEF FieldShown
  <2> QED
    BY <1>2, <2>11, PartsMakeField, Zenon DEF none
<1> QED
  BY <1>5, <1>6

\* A number is printed as C asks for, but where vprintf departs from C.
LEMMA NumberRight ==
    ASSUME NEW d \in Directives, d.spec \in Numbers, Precision(d) >= 0, ~Departs(d)
    PROVE  NumberField(FormatNumber(GetArgument(d), Base(d), d.width,
                                    Precision(d), Flags(d)), d)
<1> DEFINE number == GetArgument(d)
           base == Base(d)
           width == d.width
           precision == Precision(d)
           flags == Flags(d)
           sign == Sign(number, base, flags)
           prefix == Prefix(number, base, flags)
           n == Magnitude(number, base, flags)
           digits == Digits(n, base, flags)
           left == "LEFT" \in flags
           zeropad == "ZEROPAD" \in flags
           pad == width - Len(sign) - Len(prefix) - Larger(precision, Len(digits))
           x == IF zeropad /\ ~left THEN pad ELSE 0
           y == precision - Len(digits)
           before == Larger(IF left \/ zeropad THEN 0 ELSE pad, 0)
           after == Larger(IF left THEN pad ELSE 0, 0)
           front == sign \o prefix
           tail == Numeral(x, y, n, base, flags)
           body == front \o tail
           s == FormatNumber(number, base, width, precision, flags)
<1>1. /\ width \in Int /\ precision \in Nat /\ base \in {8, 10, 16}
      /\ n \in Nat /\ n = Absolute(d)
  <2>1. d.width \in Int /\ d.precision \in Int
    BY ConsoleAssumption
  <2>2. Precision(d) \in Int
    BY <2>1 DEF Precision
  <2>3. Base(d) \in {8, 10, 16}
    BY DEF Base
  <2>4. n \in Nat /\ n = Absolute(d)
    BY AllAsMeant, Zenon DEF AsMeant
  <2> QED
    BY <2>1, <2>2, <2>3, <2>4
<1>2. s = Parts(Repeat(Blank, IF left \/ zeropad THEN 0 ELSE pad), sign, prefix,
                Repeat("0", x), Repeat("0", y), digits,
                Repeat(Blank, IF left THEN pad ELSE 0))
  BY Zenon DEF FormatNumber, Parts
<1>3. sign \in Seq(Symbols) /\ prefix \in Seq(Symbols)
  BY FrontType
<1>4. (left <=> "LEFT" \in d.flags) /\ (zeropad => "ZEROPAD" \in d.flags)
  BY FlagsFacts
<1>5. \A m \in Int : Larger(m, 0) \in Nat /\ Repeat(Blank, m) = Repeat(Blank, Larger(m, 0))
  BY RepeatNat
<1>6. /\ Len(sign) \in Nat /\ Len(prefix) \in Nat
      /\ front \in Seq(Symbols) /\ Len(front) = Len(sign) + Len(prefix)
  BY <1>3, FrontAndRest
<1>7. digits \in Seq(Symbols) /\ Len(digits) \in Nat
  <2>1. 0 \in Int
    OBVIOUS
  <2>2. digits \in Seq(Symbols)
    BY <1>1, <2>1, NumeralFacts
  <2> HIDE DEF digits
  <2> QED
    BY <2>2
<1> HIDE DEF sign, prefix, digits, front, left, zeropad, flags, precision, width,
             base, n, number, s
<1>8. x \in Int /\ y \in Int /\ pad \in Int
  <2>1. Larger(precision, Len(digits)) \in Nat
    BY <1>1, <1>7 DEF Larger
  <2> QED
    BY <1>1, <1>6, <1>7, <2>1
<1>9. /\ tail \in Seq(Symbols)
      /\ Len(tail) = Larger(x, 0) + Larger(y, 0) + Len(digits)
      /\ Written(tail, Larger(x, 0) + Larger(y, 0), n, base, flags)
      /\ Repeat("0", x) \in Seq(Symbols) /\ Repeat("0", y) \in Seq(Symbols)
  <2> HIDE DEF x, y
  <2> QED
    BY <1>1, <1>8, NumeralFacts DEF digits
<1>10. s = Repeat(Blank, before) \o body \o Repeat(Blank, after)
  <2> DEFINE p == Repeat(Blank, before)
             q == Repeat(Blank, after)
  <2>1. (IF left \/ zeropad THEN 0 ELSE pad) \in Int /\ (IF left THEN pad ELSE 0) \in Int
    BY <1>8
  <2>2. s = Parts(p, sign, prefix, Repeat("0", x), Repeat("0", y), digits, q)
    BY <1>2, <1>5, <2>1, Zenon
  <2>3. p \in Seq(Symbols)
    <3>1. before \in Int
      BY <1>5, <2>1
    <3>2. p \in Seq({Blank})
      <4> HIDE DEF before
      <4> QED
        BY <3>1, RepeatFacts
    <3>3. Blank \in Symbols
      BY DEF Symbols
    <3> HIDE DEF p
    <3> QED
      BY <3>2, <3>3
  <2> HIDE DEF p, q, x, y
  <2>4. s = p \o body \o q
    <3>1. Parts(p, sign, prefix, Repeat("0", x), Repeat("0", y), digits, q)
             = Grouped(p, sign, prefix, Repeat("0", x), Repeat("0", y), digits, q)
      <4>1. Sequences(Symbols, p, sign, prefix, Repeat("0", x), Repeat("0", y), digits)
        BY <1>3, <1>7, <1>9, <2>3, Zenon DEF Sequences
      <4> QED
        BY <4>1, Regroup
    <3> QED
      BY <2>2, <3>1, Zenon DEF Grouped, front, Numeral, digits
  <2> QED
    BY <2>4 DEF p, q
<1> HIDE DEF tail
<1> DEFINE z == Larger(x, 0) + Larger(y, 0)
<1>11. /\ z \in Nat /\ Len(tail) = z + Len(digits)
       /\ Len(tail) >= precision
       /\ before \in Nat /\ after \in Nat
       /\ left \/ zeropad => before = 0
       /\ ~left => after = 0
       /\ before + Len(front) + Len(tail) + after >= width
       /\ before + after > 0 => before + Len(front) + Len(tail) + after = width
       /\ \/ Len(tail) <= precision
          \/ z = 0 /\ Len(tail) > z
          \/ /\ zeropad /\ ~left /\ before = 0
             /\ before + Len(front) + Len(tail) + after = width
  <2> DEFINE f == Len(front)
             c == Len(digits)
             m == Larger(precision, c)
  <2>1. /\ f \in Nat /\ c \in Nat /\ m \in Nat /\ pad = width - f - m
        /\ Larger(y, 0) + c = m /\ Larger(y, 0) \in Nat /\ m >= precision
        /\ (m = precision /\ Larger(y, 0) = precision - c) \/ (m = c /\ Larger(y, 0) = 0 /\ c > precision)
    BY <1>1, <1>6, <1>7 DEF Larger
  <2> HIDE DEF f, c, m, y
  <2>2. z = Larger(x, 0) + Larger(y, 0) /\ Len(tail) = Larger(x, 0) + m
    BY <1>8, <1>9, <2>1 DEF Larger, c
  <2> DEFINE g == Larger(pad, 0)
  <2>6. g \in Nat /\ g >= pad /\ (g > 0 => g = pad) /\ pad \in Int
    BY <1>8 DEF Larger
  <2> HIDE DEF pad
  <2>3. CASE left
    <3>1. Larger(x, 0) = 0 /\ before = 0 /\ after = Larger(pad, 0)
      BY <2>3 DEF Larger
    <3> HIDE DEF g, z, before, after, x
    <3>2. z \in Nat /\ Len(tail) = z + c /\ Len(tail) >= precision
      BY <2>1, <2>2, <3>1
    <3>3. /\ before + f + Len(tail) + after >= width
          /\ before + after > 0 => before + f + Len(tail) + after = width
      BY <1>1, <2>1, <2>2, <2>6, <3>1 DEF g
    <3>4. Len(tail) <= precision \/ (z = 0 /\ Len(tail) > z)
      BY <1>1, <2>1, <2>2, <3>1
    <3>5. before \in Nat /\ after \in Nat
      BY <2>6, <3>1 DEF g
    <3> QED
      BY <2>3, <3>1, <3>2, <3>3, <3>4, <3>5 DEF f, c
  <2>4. CASE ~left /\ zeropad
    <3>1. Larger(x, 0) = Larger(pad, 0) /\ before = 0 /\ after = 0
      BY <2>4 DEF Larger
    <3> HIDE DEF g, z, before, after, x
    <3>2. CASE g = 0
      <4>1. z \in Nat /\ Len(tail) = z + c /\ Len(tail) >= precision
        BY <2>1, <2>2, <3>1, <3>2 DEF g
      <4>2. before + f + Len(tail) + after >= width
        BY <1>1, <2>1, <2>2, <2>6, <3>1, <3>2 DEF g
      <4>3. Len(tail) <= precision \/ (z = 0 /\ Len(tail) > z)
        BY <1>1, <2>1, <2>2, <3>1, <3>2 DEF g
      <4> QED
        BY <2>4, <3>1, <4>1, <4>2, <4>3 DEF f, c
    <3>3. CASE g > 0
      <4>1. before + f + Len(tail) + after = width
        BY <1>1, <2>1, <2>2, <2>6, <3>1, <3>3 DEF g
      <4>2. z \in Nat /\ Len(tail) = z + c /\ Len(tail) >= precision
        BY <1>1, <2>1, <2>2, <2>6, <3>1, <3>3 DEF g
      <4> QED
        BY <1>1, <2>4, <3>1, <4>1, <4>2 DEF f, c
    <3> QED
      BY <2>6, <3>2, <3>3
  <2>5. CASE ~left /\ ~zeropad
    <3>1. Larger(x, 0) = 0 /\ before = Larger(pad, 0) /\ after = 0
      BY <2>5 DEF Larger
    <3> HIDE DEF g, z, before, after, x
    <3>2. z \in Nat /\ Len(tail) = z + c /\ Len(tail) >= precision
      BY <2>1, <2>2, <3>1
    <3>3. /\ before + f + Len(tail) + after >= width
          /\ before + after > 0 => before + f + Len(tail) + after = width
      BY <1>1, <2>1, <2>2, <2>6, <3>1 DEF g
    <3>4. Len(tail) <= precision \/ (z = 0 /\ Len(tail) > z)
      BY <1>1, <2>1, <2>2, <3>1
    <3>5. before \in Nat /\ after \in Nat
      BY <2>6, <3>1 DEF g
    <3> QED
      BY <2>5, <3>1, <3>2, <3>3, <3>4, <3>5 DEF f, c
  <2> QED
    BY <2>3, <2>4, <2>5
<1> HIDE DEF before, after, x, y, z
<1>12. body \in Seq(Symbols) /\ Split(body, front, tail)
  <2>1. front \in Seq(Symbols) /\ tail \in Seq(Symbols)
    BY <1>6, <1>9
  <2> QED
    BY <2>1, FrontAndRest, Zenon
<1> HIDE DEF body
<1>13. PaddedTo(s, before, body, after, d)
  <2>1. Fits(d, before, Len(body), after)
    BY <1>1, <1>4, <1>11, <1>12 DEF width, Fits, Split
  <2>2. before \in Nat /\ after \in Nat /\ body \in Seq(Symbols)
    BY <1>11, <1>12
  <2> QED
    BY <1>10, <2>1, <2>2, Padded, Zenon
<1>14. Len(s) = before + Len(front) + Len(tail) + after
  BY <1>11, <1>12, <1>13 DEF Split, PaddedTo
<1>15. /\ Written(tail, z, n, base, flags)
       /\ front \in Seq(Symbols) /\ tail \in Seq(Symbols)
  BY <1>6, <1>9 DEF z
<1>16. ZeroPadded(d) <=> zeropad /\ ~left
  BY AllAsMeant, Zenon DEF AsMeant, zeropad, left, flags
<1>17. ZeroPadded(d) => before = 0
  BY <1>11, <1>16
<1>18. \/ Len(tail) <= precision
       \/ z = 0 /\ Len(tail) > z
       \/ ZeroPadded(d) /\ Len(s) = width
  BY <1>11, <1>14, <1>16
<1>19. body = front \o tail
  BY DEF body
<1> HIDE DEF z
<1>20. NumberShown(s, d, before, after, body, front, tail, z)
  BY <1>1, <1>11, <1>12, <1>13, <1>15, <1>17, <1>18, <1>19
     DEF NumberShown, flags, base, precision, width
<1>21. front = Sign(GetArgument(d), Base(d), Flags(d))
                 \o Prefix(GetArgument(d), Base(d), Flags(d))
  BY Zenon DEF front, sign, prefix, number, base, flags
<1>22. AsMeant(d) /\ Base(d) \in {8, 10, 16} /\ Precision(d) \in Nat
  BY <1>1, AllAsMeant DEF base, precision
<1>23. Formatted(s, d)
  BY <1>20, <1>21, Zenon DEF Formatted
<1>24. NumberField(s, d)
  BY <1>22, <1>23, ShownIsField
<1> QED
  BY <1>24 DEF s, number, base, width, precision, flags

\* What pads a field on the one side or on the other fills its width.
LEMMA PadFits ==
    ASSUME NEW d, NEW len \in Nat, d.width \in Int,
           NEW before, before = Larger(IF "LEFT" \in Flags(d) THEN 0 ELSE d.width - len, 0),
           NEW after, after = Larger(IF "LEFT" \in Flags(d) THEN d.width - len ELSE 0, 0)
    PROVE  before \in Nat /\ after \in Nat /\ Fits(d, before, len, after)
<1>1. "LEFT" \in Flags(d) <=> "LEFT" \in d.flags
  BY FlagsFacts
<1>2. CASE "LEFT" \in d.flags
  <2>1. before = 0 /\ after = Larger(d.width - len, 0)
    BY <1>1, <1>2 DEF Larger
  <2> QED
    BY <1>2, <2>1 DEF Larger, Fits
<1>3. CASE "LEFT" \notin d.flags
  <2>1. after = 0 /\ before = Larger(d.width - len, 0)
    BY <1>1, <1>3 DEF Larger
  <2> QED
    BY <1>3, <2>1 DEF Larger, Fits
<1> QED
  BY <1>2, <1>3

\* A string is cut at the precision and padded.
LEMMA StringRight ==
    ASSUME NEW d \in Directives, d.spec = "s",
           "PRECISION" \in d.flags => d.precision >= 0
    PROVE  StringField(FormatString(d.arg, d.width, Precision(d), Flags(d)), d)
<1> DEFINE arg == d.arg
           T == {d.arg[i] : i \in DOMAIN d.arg}
           flags == Flags(d)
           precision == Precision(d)
           shown == IF "PRECISION" \in flags THEN Smaller(precision, Len(arg))
                                             ELSE Len(arg)
           left == "LEFT" \in flags
           pad == d.width - shown
           before == Larger(IF left THEN 0 ELSE pad, 0)
           after == Larger(IF left THEN pad ELSE 0, 0)
           body == SubSeq(arg, 1, shown)
           s == FormatString(arg, d.width, precision, flags)
<1>1. /\ d.width \in Int /\ d.precision \in Int
      /\ arg \in Seq(T) /\ Len(arg) \in Nat
  <2>1. d.width \in Int /\ d.precision \in Int /\ arg \in Seq(T)
    BY ConsoleAssumption
  <2> HIDE DEF arg, T
  <2> QED
    BY <2>1
<1>2. "PRECISION" \in flags <=> "PRECISION" \in d.flags
  BY DEF Flags
<1> HIDE DEF arg, T, flags
<1>3. /\ shown \in 0..Len(arg)
      /\ "PRECISION" \in d.flags => shown <= d.precision
      /\ shown = Len(arg) \/ ("PRECISION" \in d.flags /\ shown = d.precision)
  <2>1. CASE "PRECISION" \in d.flags
    <3>1. precision = d.precision
      BY <2>1 DEF Precision
    <3>2. shown = Smaller(d.precision, Len(arg))
      BY <1>2, <2>1, <3>1
    <3> HIDE DEF shown, precision
    <3> QED
      BY <1>1, <2>1, <3>2 DEF Smaller
  <2>2. CASE "PRECISION" \notin d.flags
    <3>1. shown = Len(arg)
      BY <1>2, <2>2
    <3> HIDE DEF shown
    <3> QED
      BY <1>1, <2>2, <3>1
  <2> QED
    BY <2>1, <2>2
<1>4. s = Repeat(Blank, IF left THEN 0 ELSE pad) \o body
            \o Repeat(Blank, IF left THEN pad ELSE 0)
  <2>1. ~(shown < 0)
    BY <1>1, <1>3
  <2>2. s = Repeat(Blank, IF left THEN 0 ELSE pad)
              \o (IF shown < 0 THEN arg ELSE body)
              \o Repeat(Blank, IF left THEN pad ELSE 0)
    BY Zenon DEF FormatString
  <2> HIDE DEF shown, s, body, pad, left
  <2> QED
    BY <2>1, <2>2, Zenon
<1> HIDE DEF shown, precision, s
<1>5. body \in Seq(T) /\ Len(body) = shown
  BY <1>1, <1>3
<1>6. pad \in Int
  BY <1>1, <1>3
<1>7. /\ Repeat(Blank, IF left THEN 0 ELSE pad) = Repeat(Blank, before)
      /\ Repeat(Blank, IF left THEN pad ELSE 0) = Repeat(Blank, after)
  <2>1. (IF left THEN 0 ELSE pad) \in Int /\ (IF left THEN pad ELSE 0) \in Int
    BY <1>6
  <2> QED
    BY <2>1, RepeatNat
<1>8. before \in Nat /\ after \in Nat /\ Fits(d, before, shown, after)
  <2>1. shown \in Nat
    BY <1>1, <1>3
  <2>2. /\ before = Larger(IF "LEFT" \in Flags(d) THEN 0 ELSE d.width - shown, 0)
        /\ after = Larger(IF "LEFT" \in Flags(d) THEN d.width - shown ELSE 0, 0)
    BY DEF flags
  <2> HIDE DEF before, after
  <2> QED
    BY <1>1, <2>1, <2>2, PadFits
<1>9. PaddedTo(s, before, body, after, d)
  <2>1. s = Repeat(Blank, before) \o body \o Repeat(Blank, after)
    BY <1>4, <1>7, Zenon
  <2> HIDE DEF before, after, body, left, pad
  <2>2. Fits(d, before, Len(body), after)
    BY <1>5, <1>8
  <2> QED
    BY <1>5, <1>8, <2>1, <2>2, Padded, Zenon
<1>10. /\ before \in 0..Len(s) /\ after \in 0..Len(s)
       /\ Body(s, before, after) = body /\ Blanks(s, before, after, d)
  <2> HIDE DEF before, after, body
  <2> QED
    BY <1>9, Zenon DEF PaddedTo
<1>11. /\ Len(body) <= Len(arg)
       /\ body = SubSeq(arg, 1, Len(body))
       /\ "PRECISION" \in d.flags => Len(body) <= d.precision
       /\ \/ Len(body) = Len(arg)
          \/ "PRECISION" \in d.flags /\ Len(body) = d.precision
  <2>1. body = SubSeq(arg, 1, Len(body))
    BY <1>5
  <2> HIDE DEF body
  <2> QED
    BY <1>1, <1>3, <1>5, <2>1
<1> HIDE DEF before, after, body
<1>12. StringField(s, d)
  BY <1>10, <1>11, Zenon DEF StringField, arg
<1> QED
  BY <1>12 DEF s, arg, precision, flags

\* A character is padded.
LEMMA CharRight ==
    ASSUME NEW d \in Directives
    PROVE  CharField(FormatChar(d.arg, d.width, Flags(d)), d)
<1> DEFINE left == "LEFT" \in Flags(d)
           pad == d.width - 1
           before == Larger(IF left THEN 0 ELSE pad, 0)
           after == Larger(IF left THEN pad ELSE 0, 0)
           body == <<d.arg>>
           s == FormatChar(d.arg, d.width, Flags(d))
<1>1. d.width \in Int /\ pad \in Int
  <2>1. d.width \in Int
    BY ConsoleAssumption
  <2> QED
    BY <2>1
<1>2. s = Repeat(Blank, IF left THEN 0 ELSE pad) \o body
            \o Repeat(Blank, IF left THEN pad ELSE 0)
  BY Zenon DEF FormatChar
<1> HIDE DEF s
<1>3. /\ Repeat(Blank, IF left THEN 0 ELSE pad) = Repeat(Blank, before)
      /\ Repeat(Blank, IF left THEN pad ELSE 0) = Repeat(Blank, after)
  <2>1. (IF left THEN 0 ELSE pad) \in Int /\ (IF left THEN pad ELSE 0) \in Int
    BY <1>1
  <2> QED
    BY <2>1, RepeatNat
<1>4. body \in Seq({d.arg}) /\ Len(body) = 1
  OBVIOUS
<1>5. before \in Nat /\ after \in Nat /\ Fits(d, before, 1, after)
  <2>1. /\ before = Larger(IF "LEFT" \in Flags(d) THEN 0 ELSE d.width - 1, 0)
        /\ after = Larger(IF "LEFT" \in Flags(d) THEN d.width - 1 ELSE 0, 0)
    OBVIOUS
  <2>2. 1 \in Nat
    OBVIOUS
  <2> HIDE DEF before, after
  <2> QED
    BY <1>1, <2>1, <2>2, PadFits
<1>6. s = Repeat(Blank, before) \o body \o Repeat(Blank, after)
  BY <1>2, <1>3, Zenon
<1> HIDE DEF before, after
<1>7. PaddedTo(s, before, body, after, d)
  <2> HIDE DEF body
  <2>1. Fits(d, before, Len(body), after)
    BY <1>4, <1>5
  <2> QED
    BY <1>4, <1>5, <1>6, <2>1, Padded, Zenon
<1>8. CharField(s, d)
  BY <1>7, Zenon DEF CharField, PaddedTo
<1> QED
  BY <1>8 DEF s

\* What a directive prints is what C asks for, but where vprintf departs from C.
LEMMA OutputRight ==
    ASSUME NEW d \in Directives, ~Departs(d)
    PROVE  RightField(Output(d), d)
<1>0. /\ d.length \notin {"j", "z", "t"}
      /\ "PRECISION" \in d.flags => d.precision >= 0
  <2>1. d.precision \in Int
    BY ConsoleAssumption
  <2>2. d.length \notin {"j", "z", "t"} /\ ~("PRECISION" \in d.flags /\ d.precision < 0)
    BY Zenon DEF Departs
  <2> QED
    BY <2>1, <2>2
<1>1. ASSUME d.spec \in Numbers
      PROVE  NumberField(Output(d), d)
  <2>1. d.precision \in Int
    BY ConsoleAssumption
  <2>2. Precision(d) >= 0
    BY <1>0, <2>1 DEF Precision
  <2>3. Output(d) = FormatNumber(GetArgument(d), Base(d), d.width, Precision(d), Flags(d))
    <3>1. d.spec # "s" /\ d.spec # "c" /\ d.spec # "%"
      BY <1>1 DEF Numbers
    <3> QED
      BY <1>0, <1>1, <3>1, Zenon DEF Output
  <2> QED
    BY <1>1, <2>2, <2>3, NumberRight, Zenon
<1>2. ASSUME d.spec = "s"
      PROVE  StringField(Output(d), d)
  <2>1. d.spec \notin Numbers
    BY <1>2 DEF Numbers
  <2>2. Output(d) = FormatString(d.arg, d.width, Precision(d), Flags(d))
    BY <1>0, <1>2, <2>1, Zenon DEF Output
  <2> QED
    BY <1>0, <1>2, <2>2, StringRight, Zenon
<1>3. ASSUME d.spec = "c"
      PROVE  CharField(Output(d), d)
  <2>1. d.spec \notin Numbers /\ d.spec # "s"
    BY <1>3 DEF Numbers
  <2>2. Output(d) = FormatChar(d.arg, d.width, Flags(d))
    BY <1>0, <1>3, <2>1, Zenon DEF Output
  <2> QED
    BY <2>2, CharRight, Zenon
<1> QED
  BY <1>1, <1>2, <1>3, Zenon DEF RightField

\* The field shown is the output of one of the directives.
FieldInv ==
    \/ field = NoField
    \/ \E d \in Directives : field = [conv |-> d, out |-> Output(d)]

\* Conversions are the only steps that make a field.
LEMMA FieldKept == Spec => []FieldInv
<1>1. Init => FieldInv
  BY DEF Init, FieldInv
<1>2. FieldInv /\ [Next]_vars => FieldInv'
  <2> SUFFICES ASSUME FieldInv, [Next]_vars
               PROVE  FieldInv'
    OBVIOUS
  <2>1. \/ field' = field
        \/ field' = NoField
        \/ \E d \in Directives : field' = [conv |-> d, out |-> Output(d)]
    BY Zenon DEF Next, vars, callVars, InitDebug, InitSerial, StartTerminal, Kprintf,
                 DbgKprintf, PrintString, PrintByte, PrintMemory, PrintChars,
                 ChangeColor, InCall, Literal, Convert, EndCall, PutOnTerminal,
                 ComSendChar, Transmit
  <2> QED
    BY <2>1 DEF FieldInv, NoField
<1> QED
  BY <1>1, <1>2, PTL DEF Spec

\* What vprintf hands to put_char for a directive is what C's printf prints, for
\* every flags, width, precision, length and argument, but for the directives
\* that Departs lists.
THEOREM FieldsRight == Spec => []FieldRight
<1>1. FieldInv => FieldRight
  <2> SUFFICES ASSUME FieldInv, field # NoField
               PROVE  Departs(field.conv) \/ RightField(field.out, field.conv)
    BY Zenon DEF FieldRight
  <2>1. PICK d \in Directives : field = [conv |-> d, out |-> Output(d)]
    BY Zenon DEF FieldInv
  <2>2. field.conv = d /\ field.out = Output(d)
    BY <2>1
  <2> QED
    BY <2>2, OutputRight, Zenon
<1> QED
  BY <1>1, FieldKept, PTL

=============================================================================
