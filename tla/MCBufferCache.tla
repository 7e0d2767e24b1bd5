--------------------------- MODULE MCBufferCache ---------------------------
(* BufferCache for TLC. *)
EXTENDS BufferCache, TLC

Symmetry == Permutations(Client) \cup Permutations(Sector) \cup Permutations(Part)
============================================================================
