\* Five tables of three pages.  Page 0 is the kernel's, 1 and 2 are the heap's,
\* 3 to 7 heapinfo, 8 to 13 the regions', 14 the stack: the table of 9 to 11
\* and the page of heapinfo for it are made on the way, the others are there
\* when init_mm is done.  It leaves five pages free, and memory runs out on
\* some paths.
CONSTANTS
    t1 = t1
    t2 = t2
    PerTable = 3
    Dirs = {0, 1, 2, 3, 4}
    Frames = {1, 2, 3, 4, 5, 6, 7, 8, 9, 10, 11, 12, 13, 14, 15, 16, 17}
    BootTables <- MCBootTables
    BootImage <- MCBootImage
    InfoStart = 3
    HeapStart = 1
    HeapMax = 3
    VheapStart = 8
    VheapMax = 14
    Requests = {2}
    Devices = {20, 21}
    Tasks = {t1, t2}
SPECIFICATION Spec
INVARIANTS
    TypeOK
    MountsCounted
    PagesAccounted
    RegionsMapped
CHECK_DEADLOCK FALSE
