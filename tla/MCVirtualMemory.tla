-------------------------- MODULE MCVirtualMemory --------------------------
(* VirtualMemory on two processes. *)
EXTENDS VirtualMemory, TLC

CONSTANT MaxMarked

Symmetry == Permutations(Process) \cup Permutations(Frame)

(* Only so many pages differ from zero at a time. *)
Marked == {x \in Process \X Page : last[x[1]][x[2]] # 0}
MarkedBound == Cardinality(Marked) <= MaxMarked
MCSpec == Init /\ [][Next /\ MarkedBound']_vars
============================================================================
