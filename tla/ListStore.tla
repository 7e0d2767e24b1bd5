----------------------------- MODULE ListStore -----------------------------
(***************************************************************************)
(* What list.h and hash.h promise: lists are sequences of elements, and a  *)
(* hash table is a set of elements with different keys.  One action for    *)
(* each operation.                                                         *)
(***************************************************************************)
EXTENDS Integers, Sequences, SequencesExt, FiniteSets

CONSTANTS Elem, ListName, Key

VARIABLES list,   \* the elements of each list, in order
          table   \* the elements of the hash table

Free == Elem \ (UNION {ToSet(list[l]) : l \in ListName} \cup table)

(* The one stable sort: elements by key, and equal ones in their old order *)
Before(s, e, f) ==
  \/ Key[e] < Key[f]
  \/ Key[e] = Key[f] /\ \E i, j \in DOMAIN s : i < j /\ s[i] = e /\ s[j] = f
Sorted(s) == SetToSortSeq(ToSet(s), LAMBDA e, f : Before(s, e, f))

(* list_insert_ordered: before the first greater element *)
Position(s, e) ==
  LET greater == {i \in DOMAIN s : Key[e] < Key[s[i]]}
  IN IF greater = {} THEN Len(s) + 1 ELSE CHOOSE i \in greater : \A j \in greater : i <= j

(* An element is a duplicate when its predecessor is equal to it. *)
Dup(s, i) == i > 1 /\ Key[s[i]] = Key[s[i - 1]]
Subsequence(s, keep) == [k \in 1..Cardinality(keep) |->
                           s[CHOOSE i \in keep : Cardinality({j \in keep : j <= i}) = k]]

Set(l, s) == list' = [list EXCEPT ![l] = s] /\ UNCHANGED table

Insert(l, i, e) == e \in Free /\ Set(l, InsertAt(list[l], i, e))
InsertOrdered(l, e) == e \in Free /\ Set(l, InsertAt(list[l], Position(list[l], e), e))
RemoveFrom(l, i) == Set(l, RemoveAt(list[l], i))
ReverseAll(l) == Set(l, Reverse(list[l]))
Sort(l) == Set(l, Sorted(list[l]))

(* From the m-th element of l on, before the i-th of d *)
Splice(l, d, m, i) ==
  /\ list' = [list EXCEPT ![l] = SubSeq(@, 1, m - 1),
                          ![d] = SubSeq(@, 1, i - 1) \o SubSeq(list[l], m, Len(list[l])) \o SubSeq(@, i, Len(@))]
  /\ UNCHANGED table

Unique(l, d) ==
  LET s == list[l]
      dups == {i \in DOMAIN s : Dup(s, i)}
  IN /\ list' = [list EXCEPT ![l] = Subsequence(s, DOMAIN s \ dups), ![d] = @ \o Subsequence(s, dups)]
     /\ UNCHANGED table

(* The elements of the table equal to e: at most one *)
Equal(e) == {f \in table : Key[f] = Key[e]}
HashInsert(e) == e \in Free /\ table' = (IF Equal(e) = {} THEN table \cup {e} ELSE table) /\ UNCHANGED list
HashReplace(e) == e \in Free /\ table' = (table \ Equal(e)) \cup {e} /\ UNCHANGED list
HashDelete(e) == table' = table \ Equal(e) /\ UNCHANGED list
HashClear == table' = {} /\ UNCHANGED list

Init == list = [l \in ListName |-> <<>>] /\ table = {}
============================================================================
