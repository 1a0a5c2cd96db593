\* Five pages, one page of heapinfo to be mapped on the way, memory for three
\* pages.
CONSTANTS
    hdr1 = hdr1
    hdr2 = hdr2
    hdr3 = hdr3
    hdr4 = hdr4
    NULL = NULL
    Size = 5
    Headers = {hdr1, hdr2, hdr3, hdr4}
    First = hdr1
    Requests = {1, 2}
    InfoSpan = 2
    Frames = 3
SPECIFICATION Spec
SYMMETRY Symmetry
INVARIANTS
    TypeOK
    NoOverlap
    TagsExact
    NeighboursLive
CHECK_DEADLOCK FALSE
