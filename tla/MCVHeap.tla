------------------------------ MODULE MCVHeap ------------------------------
(* Instances of VHeap for TLC. *)
EXTENDS VHeap, TLC

CONSTANTS hdr1, hdr2, hdr3, hdr4

\* The headers kmalloc may return are interchangeable, but for the first.
Symmetry == Permutations({hdr2, hdr3, hdr4})
=============================================================================
