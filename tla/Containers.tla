----------------------------- MODULE Containers -----------------------------
(***************************************************************************)
(* The hash tables of hash.c beside lists of list.c, on one heap: a        *)
(* hash_elem is a list_elem, the buckets are lists.  An element is in one  *)
(* list or in the table at a time.  Beside the heap, list and table say    *)
(* what the operations called so far should have left.                     *)
(***************************************************************************)
EXTENDS LinkedList, FiniteSets

CONSTANTS Elem, ListName,
          Key,                    \* what less compares and hash hashes
          MIN_BUCKETS,            \* 4 in hash.c
          BEST_ELEMS_PER_BUCKET,  \* 2 in hash.c
          MaxBuckets              \* no table of Elem has more

ASSUME ContainersAssumption ==
  /\ Key \in [Elem -> Nat] /\ ListName \subseteq Nat
  /\ MIN_BUCKETS \in Nat \ {0} /\ BEST_ELEMS_PER_BUCKET \in Nat \ {0} /\ MaxBuckets \in Nat

(* The lists, and the buckets of the tables of each size *)
Head_(x) == <<"head", x>>
Tail_(x) == <<"tail", x>>
struct(x) == [head |-> Head_(x), tail |-> Tail_(x)]
Bucket(n, i) == struct(<<n, i>>)
Name == {<<0, l>> : l \in ListName} \cup {<<n, i>> : n \in 1..MaxBuckets, i \in 0..MaxBuckets - 1}
List(l) == struct(<<0, l>>)
Node == Elem \cup {Head_(x) : x \in Name} \cup {Tail_(x) : x \in Name}

VARIABLES heap,         \* the two pointers of every element and sentinel
          bucket_cnt, elem_cnt,
          list, table   \* history: what ListStore has

vars == <<heap, bucket_cnt, elem_cnt, list, table>>

Store == INSTANCE ListStore
Free == Store!Free

Buckets(n) == {Bucket(n, i) : i \in 0..n - 1}
Clean == [next |-> [x \in Node |-> NULL], prev |-> [x \in Node |-> NULL]]
(* list_init of several lists *)
Initialised(h, ls) ==
  [next |-> [x \in Node |-> IF \E l \in ls : x = l.head THEN (CHOOSE l \in ls : x = l.head).tail
                            ELSE IF \E l \in ls : x = l.tail THEN NULL ELSE h.next[x]],
   prev |-> [x \in Node |-> IF \E l \in ls : x = l.tail THEN (CHOOSE l \in ls : x = l.tail).head
                            ELSE IF \E l \in ls : x = l.head THEN NULL ELSE h.prev[x]]]

Init ==
  /\ heap = Initialised(Clean, {List(l) : l \in ListName} \cup Buckets(MIN_BUCKETS))
  /\ bucket_cnt = MIN_BUCKETS /\ elem_cnt = 0
  /\ Store!Init

----------------------------------------------------------------------------
(* The pointers of an element outside every list are not read: NULL here. *)
Tidy(h, e) == Prev_(Next_(h, e, NULL), e, NULL)

ListOnly == UNCHANGED <<bucket_cnt, elem_cnt>>
PushFront(l, e) == ListOnly /\ Store!Insert(l, 1, e) /\ heap' = list_push_front(heap, List(l), e)
PushBack(l, e) == ListOnly /\ Store!Insert(l, Len(list[l]) + 1, e) /\ heap' = list_push_back(heap, List(l), e)
InsertOrdered(l, e) ==
  ListOnly /\ Store!InsertOrdered(l, e) /\ heap' = list_insert_ordered(heap, List(l), e, Key)
Remove(l, k) == ListOnly /\ Store!RemoveFrom(l, k) /\ heap' = Tidy(list_remove(heap, list[l][k]), list[l][k])
Reverse(l) == ListOnly /\ Store!ReverseAll(l) /\ heap' = list_reverse(heap, List(l))
Sort(l) == ListOnly /\ Store!Sort(l) /\ heap' = list_sort(heap, List(l), Key)
(* From an element of l to its end, before the front or the end of d *)
Splice(l, d, m, i) ==
  /\ ListOnly /\ Store!Splice(l, d, m, i)
  /\ heap' = list_splice(heap, IF i = 1 THEN list_begin(heap, List(d)) ELSE List(d).tail, list[l][m], List(l).tail)
Unique(l, d) == ListOnly /\ Store!Unique(l, d) /\ heap' = list_unique(heap, List(l), List(d), Key)

----------------------------------------------------------------------------
(* find_bucket: hash & (bucket_cnt - 1), bucket_cnt a power of two *)
find_bucket(n, e) == Bucket(n, Key[e] % n)

RECURSIVE FindFrom(_, _, _, _)
FindFrom(h, b, x, e) ==
  IF x = b.tail THEN NULL ELSE IF Key[x] = Key[e] THEN x ELSE FindFrom(h, b, h.next[x], e)
find_elem(h, n, e) == LET b == find_bucket(n, e) IN FindFrom(h, b, list_begin(h, b), e)

(* The greatest power of two up to elem_cnt / BEST_ELEMS_PER_BUCKET: the   *)
(* lowest bits are turned off one by one.                                  *)
RECURSIVE turn_off_bits(_)
turn_off_bits(n) == IF \E k \in 0..n : n = 2^k THEN n
                    ELSE turn_off_bits(n - 2^(CHOOSE k \in 0..n : n % 2^k = 0 /\ n % 2^(k + 1) # 0))
Ideal(cnt) ==
  LET n == cnt \div BEST_ELEMS_PER_BUCKET IN turn_off_bits(IF n < MIN_BUCKETS THEN MIN_BUCKETS ELSE n)

(* Each element of the old buckets, from the first bucket to the last, is  *)
(* removed and pushed to the front of its new bucket.                      *)
RECURSIVE MoveFrom(_, _, _, _, _)
MoveFrom(h, old, i, x, new) ==
  IF i = old THEN h
  ELSE IF x = Bucket(old, i).tail
  THEN MoveFrom(h, old, i + 1, IF i + 1 < old THEN list_begin(h, Bucket(old, i + 1)) ELSE NULL, new)
  ELSE MoveFrom(list_push_front(list_remove(h, x), find_bucket(new, x), x), old, i, h.next[x], new)

(* rehash, with malloc of the new buckets failing or not.  The sentinels   *)
(* of the old buckets are freed.                                           *)
Forgotten(h, n) ==
  LET s == {b.head : b \in Buckets(n)} \cup {b.tail : b \in Buckets(n)}
  IN [next |-> [x \in Node |-> IF x \in s THEN NULL ELSE h.next[x]],
      prev |-> [x \in Node |-> IF x \in s THEN NULL ELSE h.prev[x]]]
Moved(h, old, new) ==
  LET g == Initialised(h, Buckets(new)) IN MoveFrom(g, old, 0, list_begin(g, Bucket(old, 0)), new)
rehash(h, cnt) ==
  LET new == Ideal(cnt)
  IN \/ heap' = h /\ bucket_cnt' = bucket_cnt
     \/ /\ new # bucket_cnt
        /\ heap' = Forgotten(Moved(h, bucket_cnt, new), bucket_cnt)
        /\ bucket_cnt' = new

Into(h, e) == list_push_front(h, find_bucket(bucket_cnt, e), e)
OutOf(h, e) == Tidy(list_remove(h, e), e)

hash_insert(e) ==
  /\ Store!HashInsert(e)
  /\ IF find_elem(heap, bucket_cnt, e) = NULL
     THEN elem_cnt' = elem_cnt + 1 /\ rehash(Into(heap, e), elem_cnt + 1)
     ELSE UNCHANGED elem_cnt /\ rehash(heap, elem_cnt)

hash_replace(e) ==
  LET old == find_elem(heap, bucket_cnt, e)
  IN /\ Store!HashReplace(e)
     /\ IF old = NULL
        THEN elem_cnt' = elem_cnt + 1 /\ rehash(Into(heap, e), elem_cnt + 1)
        ELSE UNCHANGED elem_cnt /\ rehash(Into(OutOf(heap, old), e), elem_cnt)

hash_delete(e) ==
  LET found == find_elem(heap, bucket_cnt, e)
  IN found # NULL /\ Store!HashDelete(e) /\ elem_cnt' = elem_cnt - 1 /\ rehash(OutOf(heap, found), elem_cnt - 1)

(* hash_clear: the destructor takes every element, the buckets stay. *)
hash_clear ==
  /\ Store!HashClear
  /\ heap' = LET h == Initialised(heap, Buckets(bucket_cnt))
             IN [next |-> [x \in Node |-> IF x \in table THEN NULL ELSE h.next[x]],
                 prev |-> [x \in Node |-> IF x \in table THEN NULL ELSE h.prev[x]]]
  /\ elem_cnt' = 0 /\ UNCHANGED bucket_cnt

(* hash_first and hash_next *)
hash_first == [bucket |-> 0, elem |-> Bucket(bucket_cnt, 0).head]
RECURSIVE SkipEmpty(_)
SkipEmpty(i) ==
  IF i.elem # Bucket(bucket_cnt, i.bucket).tail THEN i
  ELSE IF i.bucket + 1 >= bucket_cnt THEN [i EXCEPT !.elem = NULL]
  ELSE SkipEmpty([bucket |-> i.bucket + 1, elem |-> list_begin(heap, Bucket(bucket_cnt, i.bucket + 1))])
hash_next(i) == SkipEmpty([i EXCEPT !.elem = heap.next[@]])
(* The elements the iterator meets from i on *)
RECURSIVE Met(_)
Met(i) == LET n == hash_next(i) IN IF n.elem = NULL THEN <<>> ELSE <<n.elem>> \o Met(n)

Next ==
  \/ \E l \in ListName :
       \/ \E e \in Free : PushFront(l, e) \/ PushBack(l, e) \/ InsertOrdered(l, e)
       \/ \E k \in DOMAIN list[l] : Remove(l, k)
       \/ Reverse(l) \/ Sort(l)
       \/ \E d \in ListName \ {l} :
            \/ Unique(l, d)
            \/ \E m \in DOMAIN list[l], i \in {1, Len(list[d]) + 1} : Splice(l, d, m, i)
  \/ \E e \in Free : hash_insert(e) \/ hash_replace(e)
  \/ \E e \in Elem : hash_delete(e)
  \/ hash_clear
Spec == Init /\ [][Next]_vars

----------------------------------------------------------------------------
(* What each variable may be. *)
TypeOK ==
  /\ heap \in [{"next", "prev"} -> [Node -> Node \cup {NULL}]]
  /\ bucket_cnt \in {n \in MIN_BUCKETS..MaxBuckets : \E k \in 0..n : n = 2^k}
  /\ elem_cnt \in 0..Cardinality(Elem)
  /\ list \in [ListName -> Seq(Elem)] /\ table \subseteq Elem

(* After any sequence of operations a list, walked from front to back,     *)
(* has what it should: list_sort is stable, list_insert_ordered keeps a    *)
(* sorted list sorted, list_unique moves the later duplicates in order,    *)
(* list_splice and list_reverse lose nothing.                              *)
ListsRight == \A l \in ListName : Forwards(heap, List(l)) = list[l]

(* The walk from back to front meets the same elements. *)
BackwardsRight ==
  \A l \in ListName :
    LET s == Backwards(heap, List(l))
    IN Len(s) = Len(list[l]) /\ \A k \in DOMAIN s : s[k] = list[l][Len(s) + 1 - k]

(* list_max and list_min find the first of the extreme elements. *)
ExtremesFirst ==
  \A l \in ListName : list[l] # <<>> =>
    LET First(P(_)) == list[l][CHOOSE k \in DOMAIN list[l] : P(k) /\ \A j \in 1..k - 1 : ~P(j)]
        Greatest(k) == \A j \in DOMAIN list[l] : Key[list[l][j]] <= Key[list[l][k]]
        Least(k) == \A j \in DOMAIN list[l] : Key[list[l][j]] >= Key[list[l][k]]
    IN list_max(heap, List(l), Key) = First(Greatest) /\ list_min(heap, List(l), Key) = First(Least)

(* Whatever was inserted, replaced and deleted, and whether or not rehash  *)
(* could change the number of buckets, hash_find finds exactly the         *)
(* elements of the table, and hash_size is their number.                   *)
TableFound ==
  /\ elem_cnt = Cardinality(table)
  /\ \A e \in Elem : find_elem(heap, bucket_cnt, e) = IF Store!Equal(e) = {} THEN NULL
                                                      ELSE CHOOSE f \in Store!Equal(e) : TRUE

(* hash_next meets every element of the table once, past empty buckets. *)
IterationComplete ==
  LET s == Met(hash_first) IN Len(s) = Cardinality(table) /\ {s[k] : k \in DOMAIN s} = table

(* After any sequence of operations lists and hash tables are what their   *)
(* callers take them for: all of these.                                    *)
ContainersRight ==
  TypeOK /\ ListsRight /\ BackwardsRight /\ ExtremesFirst /\ TableFound /\ IterationComplete
=============================================================================
