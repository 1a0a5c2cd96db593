\* A disk with sectors of four bytes: the FAT has three, and the entry of
\* cluster 2 lies across two of them.  Files of up to four clusters, one more
\* than BX spans.
CONSTANTS
    BytesPerSector = 4
    ReservedForBoot = 3
    NumberOfFats = 2
    RootDirEntries = 4
    SectorsPerFat = 3
    SectorsPerTrack = 4
    Sides = 2
    SectorsToLoad = 2
    EntriesPerSector = 2
    Span = 3
    Drives = {0, 1}
    Clusters = {2, 3, 4, 5}
    EofMarks = {4088, 4095}
SPECIFICATION BootSpec
INVARIANTS
    FollowsChain
    KernelInPlace
PROPERTY
    BootEnds
CHECK_DEADLOCK FALSE
