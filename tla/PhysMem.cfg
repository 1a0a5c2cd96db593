\* 40 pages.  Pages 0..13 are reserved (1 is the boot page table), 14..16 free,
\* 17..35 a hole and the kernel, 36..39 free: one free region crosses a 64 KB
\* boundary (page 16), the other ends with the bitmap, and 3 KB are left over.
CONSTANTS
    Bytes = 5
    HighStart = 20
    LowMem = 71
    LowMemReserved = 56
    HighMem = 80
    HighMemReserved = 64
    BootTable = 1
    Sizes = {1, 4097, 12288, 16384}
    MaxFree = 3
    Beyond = {{}, {0, 1, 2, 3, 4, 5, 6, 7}}
SPECIFICATION ScanSpec
INVARIANTS
    TypeOK
    BitmapExact
    NothingFreeBelowCache
    AvailableExact
    NoOverrun
    LowestFit
PROPERTIES
    ScanEnds
    ImplementsPhysMem
