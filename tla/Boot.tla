-------------------------------- MODULE Boot --------------------------------
(***************************************************************************)
(* The boot loader (boot/boot.asm, fat12boot.asm, OpenA20.asm): from the   *)
(* boot sector the BIOS has loaded to the jump into the kernel, with the   *)
(* kernel file anywhere on a FAT12 disk and any read failing any number of *)
(* times.                                                                  *)
(*                                                                         *)
(* Memory is counted in sectors.  A slot holds the <<drive, sector>> last  *)
(* read into it: `ram` from 0x7C00 on (the loader, the root directory, the *)
(* FAT), `high` from FFFF:0010 on, where the 16-bit BX wraps after Span    *)
(* sectors.  The disk and the BIOS are external: a read that fails may     *)
(* have stored some of its sectors.                                        *)
(***************************************************************************)
EXTENDS Integers, Sequences, FiniteSets, SequencesExt

CONSTANTS
    BytesPerSector, ReservedForBoot, NumberOfFats, RootDirEntries,
    SectorsPerFat, SectorsPerTrack, Sides,     \* BIOSparamblock.asm
    SectorsToLoad,      \* of the second stage
    EntriesPerSector,   \* the 16 of load_file, 512 / 32
    Span,               \* 65536 / BytesPerSector
    Drives,             \* what the BIOS may pass in DL
    Clusters,           \* data clusters of the disk
    EofMarks            \* end marks of a chain

ASSUME BootAssumption ==
    /\ {BytesPerSector, ReservedForBoot, NumberOfFats, RootDirEntries,
        SectorsPerFat, SectorsPerTrack, Sides, EntriesPerSector, Span,
        SectorsToLoad}
          \subseteq Nat \ {0}
    /\ RootDirEntries % EntriesPerSector = 0
    /\ SectorsPerFat < 256
    /\ 0 \in Drives
    /\ Clusters \subseteq 2..((2 * SectorsPerFat * BytesPerSector) \div 3 - 1)
    /\ Clusters \subseteq 2..4087
    /\ EofMarks \subseteq 4088..4095

VARIABLES
    file,           \* the disk: the clusters of KERNEL.BIN in order,
    entry,          \* its place in the root directory, RootDirEntries if none,
    eof,            \* the end mark of its chain,
    BootDevice,     \* and the drive it is in
    pc,             \* the step to take next
    a20,            \* address line 20 is open
    ram,
    high,
    request,        \* the read in progress: drive, place, number, to, ret
    tries,          \* DI of read_from_disk
    CurrentCluster,
    position        \* of ES:BX in load_file, in sectors

disk == <<file, entry, eof, BootDevice>>
locals == <<request, tries, CurrentCluster, position>>
bootVars == <<disk, pc, a20, ram, high, locals>>

\* Memory that no sector has been read into.
None == <<-1, -1>>

RootDirSectors == RootDirEntries \div EntriesPerSector
RootDirPointer == NumberOfFats * SectorsPerFat + ReservedForBoot
DataPointer == RootDirSectors + RootDirPointer
DiskRAMPos == ReservedForBoot
FATRAMPos == DiskRAMPos + RootDirSectors
RamTop == FATRAMPos + RootDirPointer

-----------------------------------------------------------------------------
(* The disk *)

\* The entry of cluster c in the file allocation table.
FatEntry(c) ==
    IF c \notin ToSet(file) THEN 0
    ELSE LET i == CHOOSE j \in DOMAIN file : file[j] = c
         IN  IF i = Len(file) THEN eof ELSE file[i + 1]

\* Byte o of the table: two entries in three bytes.
FatByte(o) ==
    LET even == FatEntry(2 * (o \div 3))
        odd == FatEntry(2 * (o \div 3) + 1)
    IN  CASE o % 3 = 0 -> even % 256
          [] o % 3 = 1 -> even \div 256 + 16 * (odd % 16)
          [] OTHER -> odd \div 16

\* Byte b of a sector, as far as the sector is one of the table.
SectorByte(sector, b) ==
    LET lba == sector[2] - ReservedForBoot
    IN  IF lba \in 0..(SectorsPerFat - 1)
        THEN FatByte(lba * BytesPerSector + b) ELSE 0

\* The sector the drive finds at a cylinder, head and sector number.
Lba(place) ==
    (place.cylinder * Sides + place.head) * SectorsPerTrack + place.sector - 1

-----------------------------------------------------------------------------
(* Reading *)

LogicalToHts(lba) ==
    LET track == lba \div SectorsPerTrack
    IN  [sector |-> (lba % SectorsPerTrack) + 1,
         head |-> track % Sides,
         cylinder |-> track \div Sides]

\* The call of read_from_disk, with where it returns to.
Read(drive, lba, number, to, ret) ==
    /\ request' = [drive |-> drive, place |-> LogicalToHts(lba),
                   number |-> number % 256, to |-> to, ret |-> ret]
    /\ tries' = 4
    /\ pc' = "read"

\* The BIOS stores the first n sectors of the request.
Store(n) ==
    LET sector(i) == <<request.drive, Lba(request.place) + i>>
        low == request.to[1] = "ram"
        first == request.to[2]
    IN  /\ ram' = IF ~low THEN ram
                  ELSE [s \in DOMAIN ram |->
                          IF s \in first..(first + n - 1)
                          THEN sector(s - first) ELSE ram[s]]
        /\ high' = IF low \/ n = 0 THEN high
                   ELSE [high EXCEPT ![first] = sector(0)]

\* The first sector read to FFFF:0010 with line 20 closed goes over the
\* interrupt vectors.
Wraps(n) == request.to[1] = "high" /\ ~a20 /\ n > 0

\* Mutant: the fifth failure starts the read afresh.
MutReadForEver ==
    /\ pc = "read"
    /\ \/ /\ Store(request.number)
          /\ pc' = IF Wraps(request.number) THEN "lost" ELSE request.ret
          /\ UNCHANGED tries
       \/ \E n \in 0..(request.number - 1) :
             /\ Store(n)
             /\ tries' = IF tries = 0 THEN 4 ELSE tries - 1
             /\ pc' = IF Wraps(n) THEN "lost" ELSE "read"
    /\ UNCHANGED <<disk, a20, request, CurrentCluster, position>>

\* Mutant: the fifth failure returns as if it were a success.
MutReadGivesUp ==
    /\ pc = "read"
    /\ \/ /\ Store(request.number)
          /\ pc' = IF Wraps(request.number) THEN "lost" ELSE request.ret
          /\ UNCHANGED tries
       \/ \E n \in 0..(request.number - 1) :
             /\ Store(n)
             /\ tries' = IF tries = 0 THEN 0 ELSE tries - 1
             /\ pc' = IF Wraps(n) THEN "lost"
                      ELSE IF tries = 0 THEN request.ret ELSE "read"
    /\ UNCHANGED <<disk, a20, request, CurrentCluster, position>>

\* One round of read_from_disk: int 0x13 succeeds, or fails and is tried again
\* with the same registers; the fifth failure ends in disk_error.
ReadFromDisk ==
    /\ pc = "read"
    /\ \/ /\ Store(request.number)
          /\ pc' = IF Wraps(request.number) THEN "lost" ELSE request.ret
          /\ UNCHANGED tries
       \/ \E n \in 0..(request.number - 1) :
             /\ Store(n)
             /\ tries' = IF tries = 0 THEN 0 ELSE tries - 1
             /\ pc' = IF Wraps(n) THEN "lost"
                      ELSE IF tries = 0 THEN "reboot" ELSE "read"
    /\ UNCHANGED <<disk, a20, request, CurrentCluster, position>>

-----------------------------------------------------------------------------
(* The loader *)

\* start: the second stage is read.  DL is not set behind logical_to_hts: it
\* has the head there.
FirstBootStart ==
    /\ pc = "start"
    /\ Read(LogicalToHts(1).head, 1, SectorsToLoad, <<"ram", 1>>, "second")
    /\ UNCHANGED <<disk, a20, ram, high, CurrentCluster, position>>

\* second_boot_start, if that is what has been read: on a processor below the
\* i386 it halts.  The memory functions of the BIOS may fail.
SecondBootStart ==
    LET read == \A s \in 1..SectorsToLoad : ram[s] = <<BootDevice, s>>
    IN  /\ pc = "second"
        /\ pc' \in IF read THEN {"halted", "mem"} ELSE {"lost"}
        /\ UNCHANGED <<disk, a20, ram, high, locals>>

GetMemCount ==
    /\ pc = "mem"
    /\ pc' \in {"a20", "reboot"}
    /\ UNCHANGED <<disk, a20, ram, high, locals>>

\* 0 is written at 0000:0500 and 0xFF at FFFF:0510, one byte if the line is
\* closed.
CheckA20 == LET low == IF a20 THEN 0 ELSE 255 IN low # 255

\* The root directory is read.  AX still is RootDirPointer, so that many
\* sectors are: the directory, and others behind it where the FAT will go.
ReadRootDir ==
    /\ Read(BootDevice, RootDirPointer, RootDirPointer,
            <<"ram", DiskRAMPos>>, "find")
    /\ UNCHANGED <<disk, ram, high, CurrentCluster, position>>

\* open_A20 tries the BIOS only if the line is closed.
OpenA20 ==
    /\ pc = "a20"
    /\ \/ /\ CheckA20
          /\ ReadRootDir
          /\ UNCHANGED a20
       \/ /\ ~CheckA20
          /\ pc' = "keyboard"
          /\ a20' \in BOOLEAN
          /\ UNCHANGED <<disk, ram, high, locals>>

\* keyboard_A20, whose effect nobody checks.
KeyboardA20 ==
    /\ pc = "keyboard"
    /\ a20' \in IF CheckA20 THEN {TRUE} ELSE BOOLEAN
    /\ ReadRootDir

\* The number of the directory entry at place e of the buffer.
EntryAt(e) ==
    (ram[DiskRAMPos + e \div EntriesPerSector][2] - RootDirPointer)
        * EntriesPerSector + (e % EntriesPerSector)

FindFile == \E e \in 0..(RootDirEntries - 1) : EntryAt(e) = entry

\* The file is looked up, and the FAT read behind the directory.
LoadFat ==
    /\ pc = "find"
    /\ \/ /\ ~FindFile
          /\ pc' = "reboot"
          /\ UNCHANGED locals
       \/ /\ FindFile
          /\ Read(BootDevice, ReservedForBoot, SectorsPerFat,
                  <<"ram", FATRAMPos>>, "load")
          /\ CurrentCluster' = file[1]
          /\ position' = 0
    /\ UNCHANGED <<disk, a20, ram, high>>

\* load_file, .load_sector
LoadSector ==
    /\ pc = "load"
    /\ Read(BootDevice, CurrentCluster + DataPointer - 2, 1,
            <<"high", position>>, "next")
    /\ UNCHANGED <<disk, a20, ram, high, CurrentCluster, position>>

\* Byte o of the table in memory.
FATByteInRAM(o) ==
    SectorByte(ram[FATRAMPos + o \div BytesPerSector], o % BytesPerSector)

\* Mutant: the two halves of three bytes swapped.
MutNextInChain(c) ==
    LET o == (c * 3) \div 2
        word == FATByteInRAM(o) + 256 * FATByteInRAM(o + 1)
    IN  IF (c * 3) % 2 = 0 THEN word \div 16 ELSE word % 4096

\* The word at 3/2 of the cluster, its upper or its lower 12 bits.
NextInChain(c) ==
    LET o == (c * 3) \div 2
        word == FATByteInRAM(o) + 256 * FATByteInRAM(o + 1)
    IN  IF (c * 3) % 2 = 1 THEN word \div 16 ELSE word % 4096

\* The rest of the loop, up to the jump to the kernel at 0x100000.
NextCluster ==
    /\ pc = "next"
    /\ position' = (position + 1) % Span
    /\ CurrentCluster' = NextInChain(CurrentCluster)
    /\ pc' = IF CurrentCluster' >= 4088 THEN "kernel" ELSE "load"
    /\ UNCHANGED <<disk, a20, ram, high, request, tries>>

\* reboot waits for a key and boots again; memory keeps what is in it.
Reboot ==
    /\ pc = "reboot"
    /\ pc' = "start"
    /\ UNCHANGED <<disk, a20, ram, high, locals>>

-----------------------------------------------------------------------------

\* The BIOS has read the boot sector.
BootInit ==
    /\ file \in UNION {{s \in [1..n -> Clusters] : IsInjective(s)} :
                          n \in 1..Cardinality(Clusters)}
    /\ entry \in 0..RootDirEntries
    /\ eof \in EofMarks
    /\ BootDevice \in Drives
    /\ pc = "start"
    /\ a20 \in BOOLEAN
    /\ ram = [s \in 0..(RamTop - 1) |-> IF s = 0 THEN <<BootDevice, 0>> ELSE None]
    /\ high = [s \in 0..(Span - 1) |-> None]
    /\ request = [drive |-> 0, place |-> LogicalToHts(0), number |-> 0,
                  to |-> <<"ram", 0>>, ret |-> "start"]
    /\ tries = 0
    /\ CurrentCluster = 0
    /\ position = 0

Boot ==
    \/ FirstBootStart \/ ReadFromDisk \/ SecondBootStart \/ GetMemCount
    \/ OpenA20 \/ KeyboardA20 \/ LoadFat \/ LoadSector \/ NextCluster

BootNext == Boot \/ Reboot

\* The processor goes on; nobody has to press the key.
BootSpec == BootInit /\ [][BootNext]_bootVars /\ WF_bootVars(Boot)

-----------------------------------------------------------------------------
(* Properties *)

\* What is followed is the chain of the kernel file: the FAT in memory is the
\* disk's, although the read of the root directory stores sectors where it
\* lies, and entries are unpacked rightly, across a sector boundary too.
FollowsChain ==
    pc = "load" => \E i \in DOMAIN file :
        /\ file[i] = CurrentCluster
        /\ position = (i - 1) % Span

\* The kernel is entered only with the whole file in its place, in order and
\* from the right drive, through any number of failed reads that stored a part
\* of their sectors, and through reboots that leave old contents in memory; if
\* the file is not larger than the 64 KB that BX spans, which load_file does
\* not check.
KernelInPlace ==
    pc = "kernel" /\ Len(file) <= Span =>
        \A i \in DOMAIN file :
            high[i - 1] = <<BootDevice, file[i] + DataPointer - 2>>

\* The loader ends, in the kernel or waiting for a key, whatever the disk
\* does: no read is tried for ever.
BootEnds == pc = "start" ~> pc \in {"kernel", "reboot", "halted", "lost"}

=============================================================================
