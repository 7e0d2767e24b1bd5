---------------------------- MODULE MCDirectory ----------------------------
(* Directory for TLC: the paths, relative and absolute, that processes use. *)
EXTENDS Directory, TLC

CONSTANTS a, b, MaxLeaked

Relative(names) == [absolute |-> FALSE, names |-> names]
Absolute(names) == [absolute |-> TRUE, names |-> names]

Paths == {Relative(<<a>>), Relative(<<Parent, b>>), Absolute(<<>>)}

(* Bound: calls leave at most MaxLeaked openers without a reference. *)
Leaked(s) == {s} \X (Cardinality(References(s)) + 1 .. IF inode[s] = NULL THEN 0 ELSE inode[s].open_cnt)
LeakBound == Cardinality(UNION {Leaked(s) : s \in Sector}) <= MaxLeaked
MCSpec == Init /\ [][Next /\ LeakBound']_vars

Symmetry == Permutations(Process)
============================================================================
