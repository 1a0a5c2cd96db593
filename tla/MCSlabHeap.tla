---------------------------- MODULE MCSlabHeap ----------------------------
(* Instances of SlabHeap for TLC.  Pages have 192 bytes: a one-page slab    *)
(* has six slots for 32-byte objects, a slab of two pages holds two objects *)
(* of a page each, one of four pages two objects of two pages each, which   *)
(* need not be aligned to their size.                                       *)
EXTENDS SlabHeap

MCSlabPages == (32 :> 1) @@ (192 :> 2) @@ (384 :> 4)

MCRequests == {<<20, FALSE>>, <<192, TRUE>>, <<384, FALSE>>}

\* As many 32-byte objects as the allocator itself needs, and clients that
\* ask for objects of a page, two to a slab.
StackPages == (32 :> 1) @@ (384 :> 2)
StackRequests == {<<384, FALSE>>}
=============================================================================
