\* Plenty of physical memory and one page of heapinfo for the whole heap.
CONSTANTS
    PAGE_SIZE = 384
    Requests <- StackRequests
    SlabPages <- StackPages
    MaxPages = 9
    InfoSpan = 9
    Frames = 16
    MaxUsed = 4
SPECIFICATION Spec
INVARIANT
    NoFault
CHECK_DEADLOCK FALSE
