------------------------------ MODULE Allocator ------------------------------
(***************************************************************************)
(* The kernel's memory: pages from palloc.c, marked in a bitmap, and       *)
(* blocks from malloc.c, cut out of pages that are arenas.                 *)
(*                                                                         *)
(* An address is a byte of the kernel pool.  A thread fills the bytes it   *)
(* asked for with its name; bytes that are free or fresh are NULL.  Work   *)
(* under the lock of a descriptor is one step, except that the pages for   *)
(* it are looked for one by one, under the lock of the pool; pages are     *)
(* freed under no lock, bit by bit; realloc copies and frees in steps.     *)
(***************************************************************************)
EXTENDS Bitmap, Sequences, FiniteSets

CONSTANTS Thread,
          Size,           \* the sizes asked for
          PAGES, PGSIZE,
          ARENA_SIZE,     \* sizeof (struct arena)
          MIN_BLOCK,      \* the smallest block_size, 16
          MaxHeld,        \* the blocks a thread has at a time
          NULL

ASSUME AllocatorAssumption ==
  /\ \A n \in {PAGES, PGSIZE, ARENA_SIZE, MIN_BLOCK} : n \in Nat \ {0}
  /\ Size \subseteq Nat \ {0}

VARIABLES used_map,   \* of the kernel pool
          arena,      \* the header of each page: desc and free_cnt, or NULL
          free_list,  \* of each descriptor, addresses of blocks
          memory,     \* the bytes of the pool
          held,       \* the blocks each thread has
          call        \* what each thread is in the middle of, or NULL

vars == <<used_map, arena, free_list, memory, held, call>>

Page == 0..PAGES - 1
Addr == 0..PAGES * PGSIZE - 1
Base(page) == page * PGSIZE
pg_no(a) == a \div PGSIZE

(* malloc_init: block_size doubles while it is less than half a page. *)
Descs == {d \in MIN_BLOCK..PGSIZE : 2 * d < PGSIZE /\ \E k \in 0..PGSIZE : d = MIN_BLOCK * 2^k}
blocks_per_arena(d) == (PGSIZE - ARENA_SIZE) \div d
arena_to_block(page, d, i) == Base(page) + ARENA_SIZE + i * d
Blocks(page, d) == {arena_to_block(page, d, i) : i \in 0..blocks_per_arena(d) - 1}

(* The smallest descriptor that satisfies a request, and the pages of one  *)
(* that none satisfies                                                     *)
Fitting(size) == {d \in Descs : d >= size}
page_cnt(size) == (size + ARENA_SIZE + PGSIZE - 1) \div PGSIZE
Desc(size) == CHOOSE d \in Fitting(size) : \A e \in Fitting(size) : d <= e

Init ==
  /\ used_map = bitmap_create(PAGES)
  /\ arena = [p \in Page |-> NULL]
  /\ free_list = [d \in Descs |-> <<>>]
  /\ memory = [a \in Addr |-> NULL]
  /\ held = [t \in Thread |-> {}]
  /\ call = [t \in Thread |-> NULL]

----------------------------------------------------------------------------
(* A block of size bytes at addr, of which the first full hold the name of *)
(* its thread                                                              *)
Block(a, size, full) == [addr |-> a, size |-> size, full |-> full]
Bytes(b) == b.addr..b.addr + b.size - 1

(* pool->lock, and d->lock of a thread that waits for a page *)
Scanning(t) == call[t] # NULL /\ call[t].name = "scan"
PoolLocked == \E t \in Thread : Scanning(t)
DescLocked(d) == \E t \in Thread : Scanning(t) /\ Fitting(call[t].size) # {} /\ Desc(call[t].size) = d

(* malloc has the block at a: it returns, or realloc, with an old block,   *)
(* goes on to copy.                                                        *)
Got(t, a, size, old) ==
  /\ held' = [held EXCEPT ![t] = @ \cup {Block(a, size, 0)}]
  /\ call' = [call EXCEPT ![t] = IF old = NULL THEN NULL
                                 ELSE [name |-> "copy", old |-> old, new |-> Block(a, size, 0)]]

(* malloc of a block whose free list has one *)
FromList(t, size, old) ==
  LET d == Desc(size) IN
  /\ Fitting(size) # {} /\ ~DescLocked(d) /\ free_list[d] # <<>>
  /\ free_list' = [free_list EXCEPT ![d] = Tail(@)]
  /\ arena' = [arena EXCEPT ![pg_no(Head(free_list[d]))].free_cnt = @ - 1]
  /\ Got(t, Head(free_list[d]), size, old)
  /\ UNCHANGED <<used_map, memory>>

(* malloc that needs pages asks palloc_get_multiple for them, which takes  *)
(* the lock of the pool and looks for them from page 0 on.                 *)
AskPages(t, size, old) ==
  /\ Fitting(size) # {} => (~DescLocked(Desc(size)) /\ free_list[Desc(size)] = <<>>)
  /\ ~PoolLocked
  /\ call' = [call EXCEPT ![t] = [name |-> "scan", size |-> size, page |-> 0, old |-> old]]
  /\ UNCHANGED <<used_map, arena, free_list, memory, held>>

(* A thread calls when it has written what it has. *)
Idle(t) == call[t] = NULL /\ \A b \in held[t] : b.full = b.size

malloc(t, size) ==
  /\ Idle(t) /\ Cardinality(held[t]) < MaxHeld
  /\ FromList(t, size, NULL) \/ AskPages(t, size, NULL)

realloc(t, b, size) ==
  /\ Idle(t) /\ Cardinality(held[t]) < MaxHeld
  /\ FromList(t, size, b) \/ AskPages(t, size, b)

(* bitmap_scan tests the group of bits at page; threads that free pages    *)
(* clear bits meanwhile.  After the last group palloc_get_multiple and     *)
(* malloc return NULL.                                                     *)
PagesWanted(size) == IF Fitting(size) # {} THEN 1 ELSE page_cnt(size)
GroupFree(page, n) == ~bitmap_contains(used_map, page, n, TRUE)

ScanOn(t) ==
  LET c == call[t] IN
  /\ Scanning(t) /\ c.page <= PAGES - PagesWanted(c.size) /\ ~GroupFree(c.page, PagesWanted(c.size))
  /\ call' = [call EXCEPT ![t].page = @ + 1]
  /\ UNCHANGED <<used_map, arena, free_list, memory, held>>

ScanFails(t) ==
  /\ Scanning(t) /\ call[t].page > PAGES - PagesWanted(call[t].size)
  /\ call' = [call EXCEPT ![t] = NULL]
  /\ UNCHANGED <<used_map, arena, free_list, memory, held>>

(* The pages found are marked.  A page becomes an arena whose blocks all   *)
(* go on the free list, and the first comes off it; more pages get an      *)
(* arena header and are one block.                                         *)
ScanFinds(t) ==
  LET c == call[t]
      n == PagesWanted(c.size)
      d == Desc(c.size)
      small == Fitting(c.size) # {}
      list == [i \in 1..blocks_per_arena(d) |-> arena_to_block(c.page, d, i - 1)]
  IN
  /\ Scanning(t) /\ c.page <= PAGES - n /\ GroupFree(c.page, n)
  /\ used_map' = bitmap_set_multiple(used_map, c.page, n, TRUE)
  /\ IF small
     THEN /\ arena' = [arena EXCEPT ![c.page] = [desc |-> d, free_cnt |-> blocks_per_arena(d) - 1]]
          /\ free_list' = [free_list EXCEPT ![d] = Tail(list)]
     ELSE /\ arena' = [arena EXCEPT ![c.page] = [desc |-> NULL, free_cnt |-> n]]
          /\ UNCHANGED free_list
  /\ Got(t, Base(c.page) + ARENA_SIZE, c.size, c.old)
  /\ UNCHANGED memory

(* The thread writes its block. *)
Fill(t, b) ==
  /\ call[t] = NULL /\ b.full < b.size
  /\ memory' = [a \in Addr |-> IF a \in Bytes(b) THEN t ELSE memory[a]]
  /\ held' = [held EXCEPT ![t] = (@ \ {b}) \cup {Block(b.addr, b.size, b.size)}]
  /\ UNCHANGED <<used_map, arena, free_list, call>>

(* memset of the block, or of the pages, to 0xcc before it is freed *)
Cleared(from, n) == [a \in Addr |-> IF a \in from..from + n - 1 THEN NULL ELSE memory[a]]

(* free of a block of descriptor d: to the front of the free list.  An     *)
(* arena with no block in use takes its blocks off the list and its page   *)
(* back to the pool.                                                       *)
Listed(page, d, list) == list
Unlisted(page, d, list) == SelectSeq(list, LAMBDA x : x \notin Blocks(page, d))
Unused(page) == arena[page].free_cnt + 1 >= blocks_per_arena(arena[page].desc)
SmallFree(addr) ==
  LET page == pg_no(addr)
      d == arena[page].desc
      list == <<addr>> \o free_list[d]
  IN /\ d # NULL /\ ~DescLocked(d)
     /\ memory' = Cleared(addr, d)
     /\ IF Unused(page)
        THEN /\ arena' = [arena EXCEPT ![page] = NULL]
             /\ free_list' = [free_list EXCEPT ![d] = Unlisted(page, d, list)]
             /\ used_map' = bitmap_set_multiple(used_map, page, 1, FALSE)
        ELSE /\ arena' = [arena EXCEPT ![page].free_cnt = @ + 1]
             /\ free_list' = [free_list EXCEPT ![d] = list]
             /\ UNCHANGED used_map

(* free of a big block, up to its bits: palloc_free_multiple takes no lock *)
(* and clears them one by one.                                             *)
BigFree(addr) ==
  LET page == pg_no(addr)
  IN /\ arena[page].desc = NULL
     /\ memory' = Cleared(Base(page), PGSIZE * arena[page].free_cnt)
     /\ arena' = [arena EXCEPT ![page] = NULL]
     /\ UNCHANGED <<used_map, free_list>>
Bits(addr) == [name |-> "bits", page |-> pg_no(addr), cnt |-> arena[pg_no(addr)].free_cnt]

free(t, b) ==
  /\ held' = [held EXCEPT ![t] = @ \ {b}]
  /\ \/ SmallFree(b.addr) /\ call' = [call EXCEPT ![t] = NULL]
     \/ BigFree(b.addr) /\ call' = [call EXCEPT ![t] = Bits(b.addr)]

ClearBit(t) ==
  LET c == call[t]
  IN /\ c # NULL /\ c.name = "bits"
     /\ used_map' = bitmap_reset(used_map, c.page)
     /\ call' = [call EXCEPT ![t] = IF c.cnt = 1 THEN NULL ELSE [c EXCEPT !.page = @ + 1, !.cnt = @ - 1]]
     /\ UNCHANGED <<arena, free_list, memory, held>>

(* realloc with both blocks copies the bytes that fit in both, then frees  *)
(* the old one.                                                            *)
block_size(addr) ==
  LET a == arena[pg_no(addr)] IN IF a.desc # NULL THEN a.desc ELSE PGSIZE * a.free_cnt - (addr % PGSIZE)
Least(m, n) == IF m < n THEN m ELSE n
OldSize(c) == block_size(c.old.addr)
min_size(c) == Least(c.new.size, block_size(c.old.addr))

CopyBlock(t) ==
  LET c == call[t]
      n == min_size(c)
  IN /\ c # NULL /\ c.name = "copy"
     /\ memory' = [a \in Addr |-> IF a \in c.new.addr..c.new.addr + n - 1
                                 THEN memory[a - c.new.addr + c.old.addr] ELSE memory[a]]
     /\ held' = [held EXCEPT ![t] = (@ \ {c.new}) \cup {[c.new EXCEPT !.full = Least(c.new.size, c.old.full)]}]
     /\ call' = [call EXCEPT ![t] = [name |-> "free", old |-> c.old]]
     /\ UNCHANGED <<used_map, arena, free_list>>

----------------------------------------------------------------------------
Step(t) ==
  \/ \E size \in Size : malloc(t, size)
  \/ \E b \in held[t] : Fill(t, b)
  \/ \E b \in held[t] : Idle(t) /\ free(t, b)
  \/ \E b \in held[t], size \in Size : realloc(t, b, size)
  \/ ScanOn(t)
  \/ ScanFails(t)
  \/ ScanFinds(t)
  \/ ClearBit(t)
  \/ CopyBlock(t)
  \/ call[t] # NULL /\ call[t].name = "free" /\ free(t, call[t].old)

Next == \E t \in Thread : Step(t)
Spec == Init /\ [][Next]_vars

----------------------------------------------------------------------------
(* Properties *)

Held == UNION {held[t] : t \in Thread}
Clearing(p) == \E t \in Thread : call[t] # NULL /\ call[t].name = "bits" /\ p \in call[t].page..call[t].page + call[t].cnt - 1

(* Type correctness: a page is an arena of some descriptor with fewer free *)
(* blocks than it has, a big block, or no arena.                           *)
TypeOK ==
  /\ used_map.bit_cnt = PAGES /\ \A w \in DOMAIN used_map.bits : used_map.bits[w] \in 0..2^ELEM_BITS - 1
  /\ \A p \in Page : arena[p] # NULL =>
       \/ arena[p].desc \in Descs /\ arena[p].free_cnt \in 0..blocks_per_arena(arena[p].desc) - 1
       \/ arena[p].desc = NULL /\ arena[p].free_cnt \in 1..PAGES
  /\ \A t \in Thread : \A b \in held[t] : b.addr \in Addr /\ b.full <= b.size

(* What a thread wrote to a block is there until it frees the block: no    *)
(* call of another thread, and no bookkeeping of the allocator, writes to  *)
(* a block in use, and realloc hands on what fits.                         *)
ContentsKept == \A t \in Thread : \A b \in held[t] : \A a \in b.addr..b.addr + b.full - 1 : memory[a] = t

(* A page of the pool is marked used exactly if it is an arena, belongs to *)
(* a big block, or waits for its bit to be cleared: none is lost, and none *)
(* is free while in use.                                                   *)
PagesAccounted ==
  \A p \in Page : bitmap_test(used_map, p) <=>
    \/ Clearing(p)
    \/ \E q \in Page : arena[q] # NULL /\ p \in q..q + (IF arena[q].desc = NULL THEN arena[q].free_cnt - 1 ELSE 0)

(* The free list of a descriptor holds, once each, the blocks of its       *)
(* arenas that no thread has, and free_cnt of an arena counts its own.     *)
FreeListsRight ==
  /\ \A d \in Descs :
       LET list == free_list[d] IN
       /\ \A i, j \in DOMAIN list : list[i] = list[j] => i = j
       /\ {list[i] : i \in DOMAIN list} =
            UNION {Blocks(p, d) : p \in {q \in Page : arena[q] # NULL /\ arena[q].desc = d}} \ {b.addr : b \in Held}
  /\ \A p \in Page : arena[p] # NULL /\ arena[p].desc # NULL =>
       arena[p].free_cnt = Cardinality(Blocks(p, arena[p].desc) \ {b.addr : b \in Held})

(* Blocks in use do not overlap one another or the header of an arena, and *)
(* each lies in pages marked used.                                         *)
BlocksApart ==
  \A t, u \in Thread : \A b \in held[t], c \in held[u] :
    /\ (t # u \/ b # c) => Bytes(b) \cap Bytes(c) = {}
    /\ \A a \in Bytes(b) : a \in Addr /\ bitmap_test(used_map, pg_no(a)) /\ (arena[pg_no(a)] # NULL => a % PGSIZE >= ARENA_SIZE)

(* malloc's own books are right at every step of every interleaving: all   *)
(* of these.                                                               *)
BooksRight == TypeOK /\ PagesAccounted /\ FreeListsRight /\ BlocksApart
=============================================================================
