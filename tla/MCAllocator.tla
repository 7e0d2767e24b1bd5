----------------------------- MODULE MCAllocator -----------------------------
(* Two threads, which are alike. *)
EXTENDS Allocator, TLC

Symmetry == Permutations(Thread)
=============================================================================
