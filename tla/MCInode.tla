------------------------------ MODULE MCInode ------------------------------
(* Inode for TLC: the file handles are interchangeable, and states in which *)
(* more than MaxLeaked sectors are marked that no file reaches are left out *)
(* (removing a file does not release the blocks past its end).              *)
EXTENDS Inode

CONSTANT MaxLeaked


Symmetry == Permutations(Handle)

Reached == Live \cup {PointerAt(Data(s), p) : s \in Live, p \in Place}
LeakBound == Cardinality(free_map \ (Reserved \cup Reached)) <= MaxLeaked
MCSpec == Init /\ [][Next /\ LeakBound']_vars
============================================================================
