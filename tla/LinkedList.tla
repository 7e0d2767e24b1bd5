----------------------------- MODULE LinkedList -----------------------------
(***************************************************************************)
(* The doubly linked lists of list.c.  A heap h has the two pointers of    *)
(* every element, h.next and h.prev; a list l is its two sentinels, l.head *)
(* and l.tail.  An operation returns the heap that it leaves, assignment   *)
(* by assignment.  less (a, b) is key[a] < key[b].                         *)
(***************************************************************************)
EXTENDS Integers, Sequences

CONSTANT NULL

(* h with the next, or the prev, pointer of e set to x *)
Next_(h, e, x) == [h EXCEPT !.next[e] = x]
Prev_(h, e, x) == [h EXCEPT !.prev[e] = x]

list_init(h, l) ==
  [next |-> [h.next EXCEPT ![l.head] = l.tail, ![l.tail] = NULL],
   prev |-> [h.prev EXCEPT ![l.head] = NULL, ![l.tail] = l.head]]

list_begin(h, l) == h.next[l.head]
list_empty(h, l) == list_begin(h, l) = l.tail
list_back(h, l) == h.prev[l.tail]

(* elem->prev = before->prev; elem->next = before;                         *)
(* before->prev->next = elem; before->prev = elem;                         *)
list_insert(h, before, e) ==
  LET g == Next_(Prev_(h, e, h.prev[before]), e, before)
  IN Prev_(Next_(g, g.prev[before], e), before, e)

list_push_front(h, l, e) == list_insert(h, list_begin(h, l), e)
list_push_back(h, l, e) == list_insert(h, l.tail, e)

(* elem->prev->next = elem->next; elem->next->prev = elem->prev; *)
list_remove(h, e) ==
  LET g == Next_(h, h.prev[e], h.next[e])
  IN Prev_(g, g.next[e], g.prev[e])

(* The elements first to last (exclusive) go before the element before. *)
list_splice(h, before, first, last) ==
  IF first = last THEN h
  ELSE LET end == h.prev[last]
           cut == Next_(h, h.prev[first], h.next[end])
           out == Prev_(cut, cut.next[end], cut.prev[first])
           in == Next_(Prev_(out, first, out.prev[before]), end, before)
       IN Prev_(Next_(in, in.prev[before], first), before, end)

----------------------------------------------------------------------------
(* swap of the pointers of each element, then of the sentinels *)
RECURSIVE ReverseFrom(_, _, _)
ReverseFrom(h, l, e) ==
  IF e = l.tail THEN h
  ELSE LET g == Prev_(Next_(h, e, h.prev[e]), e, h.next[e]) IN ReverseFrom(g, l, g.prev[e])
list_reverse(h, l) ==
  IF list_empty(h, l) THEN h
  ELSE LET g == ReverseFrom(h, l, list_begin(h, l))
           ends == Prev_(Next_(g, l.head, g.prev[l.tail]), l.tail, g.next[l.head])
           first == ends.next[l.head]
           last == ends.prev[l.tail]
       IN Next_(Prev_(ends, first, ends.next[last]), last, ends.prev[first])

(* find_end_of_run: the end of the run that starts at a, not after b *)
RECURSIVE find_end_of_run(_, _, _, _)
find_end_of_run(h, a, b, key) ==
  LET n == h.next[a]
  IN IF n # b /\ key[n] >= key[a] THEN find_end_of_run(h, n, b, key) ELSE n

(* inplace_merge: the first run goes first on a tie. *)
RECURSIVE MergeUnstable(_, _, _, _, _)
MergeUnstable(h, a0, a1b0, b1, key) ==
  IF a0 = a1b0 \/ a1b0 = b1 THEN h
  ELSE IF key[a1b0] > key[a0] THEN MergeUnstable(h, h.next[a0], a1b0, b1, key)
  ELSE LET n == h.next[a1b0] IN MergeUnstable(list_splice(h, a0, h.prev[n], n), a0, n, b1, key)
RECURSIVE inplace_merge(_, _, _, _, _)
inplace_merge(h, a0, a1b0, b1, key) ==
  IF a0 = a1b0 \/ a1b0 = b1 THEN h
  ELSE IF key[a1b0] >= key[a0] THEN inplace_merge(h, h.next[a0], a1b0, b1, key)
  ELSE LET n == h.next[a1b0] IN inplace_merge(list_splice(h, a0, h.prev[n], n), a0, n, b1, key)

(* list_sort: merge adjacent runs, until a pass makes only one *)
RECURSIVE SortPass(_, _, _, _, _)
SortPass(h, l, a0, runs, key) ==
  IF a0 = l.tail THEN [heap |-> h, runs |-> runs]
  ELSE LET a1b0 == find_end_of_run(h, a0, l.tail, key)
       IN IF a1b0 = l.tail THEN [heap |-> h, runs |-> runs + 1]
          ELSE LET b1 == find_end_of_run(h, a1b0, l.tail, key)
               IN SortPass(inplace_merge(h, a0, a1b0, b1, key), l, b1, runs + 1, key)
RECURSIVE list_sort(_, _, _)
list_sort(h, l, key) ==
  LET pass == SortPass(h, l, list_begin(h, l), 0, key)
  IN IF pass.runs > 1 THEN list_sort(pass.heap, l, key) ELSE pass.heap

(* list_insert_ordered: before the first element that is greater *)
RECURSIVE FirstGreater(_, _, _, _, _)
FirstGreater(h, l, x, e, key) ==
  IF x = l.tail \/ key[e] < key[x] THEN x ELSE FirstGreater(h, l, h.next[x], e, key)
list_insert_ordered(h, l, e, key) == list_insert(h, FirstGreater(h, l, list_begin(h, l), e, key), e)

(* list_unique: all but the first of adjacent equal elements go to d. *)
RECURSIVE UniqueFrom(_, _, _, _, _)
UniqueFrom(h, l, d, e, key) ==
  LET n == h.next[e]
  IN IF n = l.tail THEN h
     ELSE IF key[e] = key[n] THEN UniqueFrom(list_push_back(list_remove(h, n), d, n), l, d, e, key)
     ELSE UniqueFrom(h, l, d, n, key)
list_unique(h, l, d, key) == IF list_empty(h, l) THEN h ELSE UniqueFrom(h, l, d, list_begin(h, l), key)

(* list_max and list_min: the first of the greatest, or the least *)
RECURSIVE LastExtreme(_, _, _, _, _, _)
LastExtreme(h, l, best, e, key, sign) ==
  IF e = l.tail THEN best
  ELSE LastExtreme(h, l, IF sign * key[best] <= sign * key[e] THEN e ELSE best, h.next[e], key, sign)
RECURSIVE Extreme(_, _, _, _, _, _)
Extreme(h, l, best, e, key, sign) ==
  IF e = l.tail THEN best
  ELSE Extreme(h, l, IF sign * key[best] < sign * key[e] THEN e ELSE best, h.next[e], key, sign)
list_max(h, l, key) ==
  IF list_empty(h, l) THEN l.tail ELSE Extreme(h, l, list_begin(h, l), h.next[list_begin(h, l)], key, 1)
list_min(h, l, key) ==
  IF list_empty(h, l) THEN l.tail ELSE Extreme(h, l, list_begin(h, l), h.next[list_begin(h, l)], key, -1)

(* The elements met from list_begin to list_end, and from list_rbegin to   *)
(* list_rend; a list whose links are broken off ends there.                *)
RECURSIVE Onward(_, _, _), Backward(_, _, _)
Onward(h, l, e) == IF e \in {l.tail, NULL} THEN <<>> ELSE <<e>> \o Onward(h, l, h.next[e])
Backward(h, l, e) == IF e \in {l.head, NULL} THEN <<>> ELSE <<e>> \o Backward(h, l, h.prev[e])
Forwards(h, l) == Onward(h, l, list_begin(h, l))
Backwards(h, l) == Backward(h, l, list_back(h, l))
=============================================================================
