\* Every mix of the calls, with memory running out at different points.
CONSTANTS
    PAGE_SIZE = 192
    Requests <- MCRequests
    SlabPages <- MCSlabPages
    MaxPages = 7
    InfoSpan = 5
    Frames = 6
    MaxUsed = 4
SPECIFICATION Spec
INVARIANTS
    TypeOK
    OneOwner
    FreeCountExact
    CachesOrdered
CHECK_DEADLOCK FALSE
