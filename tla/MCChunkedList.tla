--------------------------- MODULE MCChunkedList ---------------------------
(* Values and searches with which TLC checks ChunkedList. *)
EXTENDS ChunkedList

CONSTANTS v, w     \* values

MCWants == {{v}, {w}}

MCSymmetry == Permutations(Chunk) \cup Permutations(Value)
=============================================================================
