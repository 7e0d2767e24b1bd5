------------------------------- MODULE Lists -------------------------------
(* The kernel's linked lists (lib/kernel/list.c) as sequences.             *)
EXTENDS Naturals, Sequences, Functions

(* list_remove of the i-th element of l. *)
ListRemove(l, i) == SubSeq(l, 1, i - 1) \o SubSeq(l, i + 1, Len(l))
============================================================================
