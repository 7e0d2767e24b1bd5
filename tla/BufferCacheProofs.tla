------------------------- MODULE BufferCacheProofs -------------------------
(***************************************************************************)
(* For any number of clients, sectors and entries: a block has one entry   *)
(* and the table never outgrows its size, a flush leaves on disk what it   *)
(* has passed, a shutdown frees nothing that is not on disk, and the       *)
(* cache implements SectorStore.                                           *)
(***************************************************************************)
EXTENDS BufferCache, ListLemmas

USE SMTT(30), Zenon

(* The access under way: its sector has its entry once the victim is gone, *)
(* and the victim has none.                                                *)
AccessOK ==
  /\ stage = "none" <=> lock \notin Client
  /\ stage \in {"evict", "fill"} => req \in Request /\ Allowed(req)
  /\ stage = "fill" => Cached(req.sector)
  /\ stage = "evict" => /\ victim \in Sector /\ victim # req.sector
                        /\ NotFound(victim) /\ NotFound(req.sector)

(* The flush and the shutdown: the first entry is flushed first, the       *)
(* entries are freed when they are all on disk, and no one is there then.  *)
FlushOK ==
  /\ lock \notin {Flush, Halt} => cursor = 1
  /\ closing = "flush" <=> lock = Halt
  /\ closing \in {"free", "destroyed"} =>
       lock = NULL /\ \A s \in Sector : Cached(s) => disk[s] = vaddr[s]

(* The inductive invariant *)
IInv == TypeOK /\ EntriesOK /\ FlushedOnDisk /\ AccessOK /\ FlushOK

Step == (closing = "no" /\ Next) \/ Destroy

----------------------------------------------------------------------------
(* cache_table_find finds what is in the list. *)
LEMMA FindsElements ==
  ASSUME NEW S, NEW l \in Seq(S)
  PROVE  /\ \A s : (\E i \in 1 .. Len(l) : l[i] = s) <=> s \in Range(l)
         /\ (\A i, j \in 1 .. Len(l) : l[i] = l[j] => i = j) <=> IsInjective(l)
<1>1. DOMAIN l = 1 .. Len(l)
  OBVIOUS
<1>2. QED
  BY <1>1 DEF Range, IsInjective

(* The list of a state: its elements are the blocks that are cached, once  *)
(* each.                                                                   *)
LEMMA Elements ==
  ASSUME TypeOK
  PROVE  /\ \A s : Cached(s) <=> s \in Range(list)
         /\ OneEntry <=> IsInjective(list)
         /\ Len(list) \in Nat
<1>1. list \in Seq(Sector)
  BY DEF TypeOK
<1>2. QED
  BY <1>1, FindsElements DEF Cached, OneEntry

(* ... and that of the next one *)
LEMMA NextElements ==
  ASSUME list' \in Seq(Sector)
  PROVE  /\ \A s : Cached(s)' <=> s \in Range(list')
         /\ OneEntry' <=> IsInjective(list')
         /\ Len(list') \in Nat
  BY FindsElements DEF Cached, OneEntry

(* What a request says, according to its kind *)
LEMMA RequestFields ==
  ASSUME NEW r \in Request
  PROVE  /\ r.op \in {"read", "write", "use"} /\ r.sector \in Sector
         /\ r.op \in {"read", "write"} => r.part \in Part
         /\ r.op = "write" => r.value \in Value
  BY DEF Request

(* No cursor stands on an entry: nothing is known to be on disk. *)
LEMMA NothingFlushed ==
  ASSUME cursor' = 1 PROVE FlushedOnDisk'
  BY DEF FlushedOnDisk

(* The memcpy that ends an access touches the entry of its sector only. *)
LEMMA CopyStep ==
  ASSUME TypeOK, NEW c \in Client, NEW r \in Request, NEW d \in Data, Copy(c, r, d)
  PROVE  /\ vaddr' \in [Sector -> Data] /\ inuse' \subseteq Sector
         /\ buffer' \in [client : Client, sector : Sector, part : Part, value : Value] \cup {NULL}
         /\ \A s \in Sector : s # r.sector => vaddr'[s] = vaddr[s]
<1>1. vaddr \in [Sector -> Data] /\ inuse \subseteq Sector
  BY DEF TypeOK
<1>2. CASE CopyRead(c, r, d)
  <2>1. r.part \in Part /\ d[r.part] \in Value
    BY <1>2, RequestFields DEF CopyRead, Data
  <2>2. QED
    BY <1>1, <1>2, <2>1, RequestFields DEF CopyRead
<1>3. CASE CopyWrite(r, d)
  <2>1. [d EXCEPT ![r.part] = r.value] \in Data
    BY <1>3, RequestFields DEF CopyWrite, Data
  <2>2. QED
    BY <1>1, <1>3, <2>1, RequestFields DEF CopyWrite, Quiet
<1>4. CASE CopyZeros(r)
  <2>1. [o \in Part |-> Zero] \in Data
    BY CacheAssumption DEF Data
  <2>2. QED
    BY <1>1, <1>4, <2>1, RequestFields DEF CopyZeros, Quiet
<1>5. QED
  BY <1>2, <1>3, <1>4 DEF Copy

(* With no client inside, no access is under way. *)
LEMMA NoAccess ==
  ASSUME IInv, lock = NULL
  PROVE  stage = "none" /\ cursor = 1 /\ closing # "flush"
  BY CacheAssumption DEF IInv, AccessOK, FlushOK

----------------------------------------------------------------------------
(* cache_table_read and cache_table_write of a cached block *)
LEMMA HitStep ==
  ASSUME IInv, closing = "no", NEW c \in Client, NEW r \in Request, Hit(c, r)
  PROVE  IInv'
<1>1. TypeOK /\ EntriesOK /\ AccessOK /\ FlushOK
  BY DEF IInv
<1>2. lock = NULL /\ stage = "none" /\ cursor = 1
  BY NoAccess DEF Hit
<1>3. vaddr[r.sector] \in Data
  BY <1>1, RequestFields DEF TypeOK
<1>4. TypeOK'
  BY <1>1, <1>3, CopyStep DEF TypeOK, Hit, table
<1>5. EntriesOK'
  BY <1>1 DEF EntriesOK, OneEntry, SizeOK, Hit, table
<1>6. FlushedOnDisk'
  BY <1>2, NothingFlushed DEF Hit
<1>7. AccessOK'
  BY <1>1, <1>2 DEF AccessOK, Hit
<1>8. FlushOK'
  BY <1>1, <1>2 DEF FlushOK, Hit
<1>9. QED
  BY <1>4, <1>5, <1>6, <1>7, <1>8 DEF IInv

(* ... of one that is not: a new entry, or a victim off the list *)
LEMMA MissStep ==
  ASSUME IInv, closing = "no", NEW c \in Client, NEW r \in Request, Miss(c, r)
  PROVE  IInv'
<1>1. TypeOK /\ EntriesOK /\ FlushOK /\ list \in Seq(Sector) /\ size \in Nat
  BY DEF IInv, TypeOK
<1>2. lock = NULL /\ stage = "none" /\ cursor = 1 /\ r.sector \in Sector
  BY NoAccess, RequestFields DEF Miss
<1>3. IsInjective(list) /\ r.sector \notin Range(list) /\ Len(list) <= size
  BY <1>1, <1>2, Elements DEF EntriesOK, SizeOK, Miss, NotFound
<1>4. /\ lock' = c /\ req' = r /\ buffer' = NULL
      /\ UNCHANGED <<vaddr, disk, cursor, closing, popped, inuse>>
  BY DEF Miss, Quiet
<1>5. Allowed(r)'
  BY <1>4 DEF Allowed, Miss
<1>6. FlushedOnDisk'
  BY <1>2, <1>4, NothingFlushed
<1>7. FlushOK'
  BY <1>1, <1>2, <1>4, CacheAssumption DEF FlushOK
<1>8. CASE size < MAX_SIZE
  <2>1. stage' = "fill" /\ victim' = victim /\ list' = Append(list, r.sector) /\ size' = size + 1
    BY <1>8 DEF Miss
  <2>2. /\ list' \in Seq(Sector) /\ IsInjective(list') /\ r.sector \in Range(list')
        /\ Len(list') = Len(list) + 1
    BY <2>1, <1>1, <1>2, <1>3, PushBack
  <2>3. TypeOK'
    BY <2>1, <2>2, <1>1, <1>4, <1>8, CacheAssumption DEF TypeOK
  <2>4. EntriesOK'
    BY <2>1, <2>2, <1>1, <1>3, NextElements, Elements DEF EntriesOK, SizeOK
  <2>5. AccessOK'
    BY <2>1, <2>2, <1>4, <1>5, NextElements DEF AccessOK
  <2>6. QED
    BY <2>3, <2>4, <2>5, <1>6, <1>7 DEF IInv
<1>9. CASE ~(size < MAX_SIZE) /\ list = <<>>
  <2>1. stage' = "panic" /\ UNCHANGED <<list, size, victim>>
    BY <1>9 DEF Miss, table
  <2>2. TypeOK'
    BY <2>1, <1>1, <1>4 DEF TypeOK
  <2>3. EntriesOK'
    BY <2>1, <1>1, <1>2 DEF EntriesOK, OneEntry, SizeOK
  <2>4. AccessOK'
    BY <2>1, <1>4 DEF AccessOK
  <2>5. QED
    BY <2>2, <2>3, <2>4, <1>6, <1>7 DEF IInv
<1>10. CASE ~(size < MAX_SIZE) /\ list # <<>>
  <2>1. stage' = "evict" /\ victim' = Head(list) /\ list' = Tail(list) /\ size' = size
    BY <1>10 DEF Miss
  <2>2. /\ list' \in Seq(Sector) /\ IsInjective(list') /\ Len(list') + 1 = Len(list)
        /\ Range(list') = Range(list) \ {victim'} /\ victim' \in Range(list) /\ victim' \in Sector
    BY <2>1, <1>1, <1>3, <1>10, PopFront
  <2>3. TypeOK'
    BY <2>1, <2>2, <1>1, <1>4 DEF TypeOK
  <2>4. EntriesOK'
    BY <2>1, <2>2, <1>1, <1>3, NextElements, Elements DEF EntriesOK, SizeOK
  <2>5. victim' # r.sector /\ victim' \notin Range(list') /\ r.sector \notin Range(list')
    BY <2>2, <1>3
  <2>6. AccessOK'
    BY <2>1, <2>2, <2>5, <1>4, <1>5, NextElements DEF AccessOK, NotFound
  <2>7. QED
    BY <2>3, <2>4, <2>6, <1>6, <1>7 DEF IInv
<1>11. QED
  BY <1>8, <1>9, <1>10

(* The victim is on disk and the new entry in the list. *)
LEMMA EvictStep ==
  ASSUME IInv, closing = "no", NEW c \in Client, Evict(c)
  PROVE  IInv'
<1>1. TypeOK /\ EntriesOK /\ AccessOK /\ FlushOK /\ list \in Seq(Sector) /\ size \in Nat
  BY DEF IInv, TypeOK
<1>2. lock = c /\ stage = "evict" /\ cursor = 1
  BY <1>1, CacheAssumption DEF Evict, FlushOK
<1>3. /\ req \in Request /\ Allowed(req) /\ req.sector \in Sector
      /\ victim \in Sector /\ req.sector \notin Range(list)
  BY <1>1, <1>2, Elements, RequestFields DEF AccessOK, NotFound
<1>4. IsInjective(list) /\ Len(list) + 1 <= size /\ Len(list) \in Nat
  BY <1>1, <1>2, Elements DEF EntriesOK, SizeOK
<1>5. /\ disk' = [disk EXCEPT ![victim] = vaddr[victim]]
      /\ list' = Append(list, req.sector) /\ size' = (size - 1) + 1
      /\ stage' = "fill" /\ victim' = NULL /\ buffer' = NULL
      /\ UNCHANGED <<vaddr, lock, req, cursor, closing, popped, inuse>>
  BY DEF Evict, Quiet
<1>6. /\ list' \in Seq(Sector) /\ IsInjective(list') /\ req.sector \in Range(list')
      /\ Len(list') = Len(list) + 1 /\ size' = size
  BY <1>1, <1>3, <1>4, <1>5, PushBack
<1>7. disk' \in [Sector -> Data]
  BY <1>1, <1>3, <1>5 DEF TypeOK
<1>8. TypeOK'
  BY <1>1, <1>5, <1>6, <1>7 DEF TypeOK
<1>9. EntriesOK'
  BY <1>1, <1>4, <1>5, <1>6, NextElements DEF EntriesOK, SizeOK
<1>10. FlushedOnDisk'
  BY <1>2, <1>5, NothingFlushed
<1>11. Allowed(req)'
  BY <1>3, <1>5 DEF Allowed
<1>12. AccessOK'
  BY <1>2, <1>3, <1>5, <1>6, <1>11, NextElements DEF AccessOK
<1>13. FlushOK'
  BY <1>1, <1>2, <1>5 DEF FlushOK
<1>14. QED
  BY <1>8, <1>9, <1>10, <1>12, <1>13 DEF IInv

(* The disk_read into the new entry, and the copy *)
LEMMA FillStep ==
  ASSUME IInv, closing = "no", NEW c \in Client, Fill(c)
  PROVE  IInv'
<1>1. TypeOK /\ EntriesOK /\ AccessOK /\ FlushOK
  BY DEF IInv
<1>2. lock = c /\ stage = "fill" /\ cursor = 1
  BY <1>1, CacheAssumption DEF Fill, FlushOK
<1>3. req \in Request /\ disk[req.sector] \in Data
  BY <1>1, <1>2, RequestFields DEF AccessOK, TypeOK
<1>4. /\ Copy(c, req, disk[req.sector])
      /\ lock' = NULL /\ stage' = "none" /\ req' = NULL
      /\ UNCHANGED <<list, size, disk, victim, cursor, closing, popped>>
  BY DEF Fill, table
<1>5. TypeOK'
  BY <1>1, <1>3, <1>4, CopyStep DEF TypeOK
<1>6. EntriesOK'
  BY <1>1, <1>2, <1>4 DEF EntriesOK, OneEntry, SizeOK
<1>7. FlushedOnDisk'
  BY <1>2, <1>4, NothingFlushed
<1>8. AccessOK'
  BY <1>4, CacheAssumption DEF AccessOK
<1>9. FlushOK'
  BY <1>1, <1>2, <1>4, CacheAssumption DEF FlushOK
<1>10. QED
  BY <1>5, <1>6, <1>7, <1>8, <1>9 DEF IInv

(* The entry free_cache finds is the one there is. *)
LEMMA FindsEntry ==
  ASSUME TypeOK, OneEntry, NEW s \in Sector, Cached(s)
  PROVE  Find(s) \in DOMAIN list /\ list[Find(s)] = s
<1>1. list \in Seq(Sector) /\ DOMAIN list = 1 .. Len(list) /\ Len(list) \in Nat
  BY DEF TypeOK
<1>2. PICK i \in 1 .. Len(list) : list[i] = s
  BY DEF Cached
<1>3. \A j \in 1 .. i - 1 : list[j] # s
  BY <1>1, <1>2 DEF OneEntry
<1>4. QED
  BY <1>1, <1>2, <1>3 DEF Find

(* What free_cache leaves in the list *)
LEMMA FreeList ==
  ASSUME TypeOK, OneEntry, NEW s \in Sector, FreeCache(s)
  PROVE  /\ list' \in Seq(Sector) /\ IsInjective(list')
         /\ Len(list') <= Len(list) /\ Range(list') = Range(list) \ {s}
<1>1. list \in Seq(Sector) /\ IsInjective(list) /\ Len(list) \in Nat
  BY Elements DEF TypeOK
<1>2. CASE Cached(s)
  <2>1. list' = ListRemove(list, Find(s))
    BY <1>2 DEF FreeCache
  <2>2. Find(s) \in DOMAIN list /\ list[Find(s)] = s
    BY <1>2, FindsEntry
  <2>3. QED
    BY <2>1, <2>2, <1>1, RemoveFromList
<1>3. CASE ~Cached(s)
  <2>1. list' = list
    BY <1>3 DEF FreeCache
  <2>2. s \notin Range(list)
    BY <1>3, Elements
  <2>3. QED
    BY <2>1, <2>2, <1>1
<1>4. QED
  BY <1>2, <1>3

(* free_cache keeps the invariant, although it leaves the size. *)
LEMMA FreeStep ==
  ASSUME IInv, closing = "no", NEW s \in Sector, FreeCache(s)
  PROVE  IInv'
<1>1. TypeOK /\ OneEntry /\ SizeOK /\ FlushOK /\ Len(list) \in Nat /\ size \in Nat
  BY Elements DEF IInv, EntriesOK, TypeOK
<1>2. lock = NULL /\ stage = "none" /\ cursor = 1
  BY NoAccess DEF FreeCache
<1>3. /\ inuse' = inuse \ {s} /\ buffer' = NULL
      /\ UNCHANGED <<size, vaddr, disk, lock, stage, req, victim, cursor, closing, popped>>
  BY DEF FreeCache, Quiet
<1>4. /\ list' \in Seq(Sector) /\ IsInjective(list') /\ Len(list') \in Nat
      /\ Len(list') <= Len(list)
  BY <1>1, FreeList
<1>5. TypeOK'
  BY <1>1, <1>3, <1>4 DEF TypeOK
<1>6. EntriesOK'
  BY <1>1, <1>2, <1>3, <1>4, NextElements DEF EntriesOK, SizeOK
<1>7. FlushedOnDisk'
  BY <1>2, <1>3, NothingFlushed
<1>8. AccessOK'
  BY <1>2, <1>3, CacheAssumption DEF AccessOK
<1>9. FlushOK'
  BY <1>1, <1>2, <1>3 DEF FlushOK
<1>10. QED
  BY <1>5, <1>6, <1>7, <1>8, <1>9 DEF IInv

----------------------------------------------------------------------------
(* What no flush and no step of the shutdown but DestroyPop touches *)
Entries == <<list, size, vaddr, stage, req, victim, inuse>>

(* Such a step keeps the list and the access as they are. *)
LEMMA EntriesKept ==
  ASSUME EntriesOK, AccessOK, UNCHANGED Entries, lock' \in Client <=> lock \in Client
  PROVE  EntriesOK' /\ AccessOK' /\ \A s : Cached(s)' <=> Cached(s)
<1>1. UNCHANGED <<list, size, stage, req, victim, inuse>>
  BY DEF Entries
<1>2. EntriesOK' /\ \A s : Cached(s)' <=> Cached(s)
  BY <1>1 DEF EntriesOK, OneEntry, SizeOK, Cached
<1>3. AccessOK'
  BY <1>1, <1>2 DEF AccessOK, Allowed, NotFound
<1>4. QED
  BY <1>2, <1>3

(* The flush thread, and cache_table_destroy, take the lock. *)
LEMMA FlushBegins ==
  ASSUME IInv, (FlushStart /\ closing = "no") \/ DestroyFlush
  PROVE  IInv'
<1>1. TypeOK /\ EntriesOK /\ AccessOK /\ FlushOK /\ lock = NULL /\ closing = "no"
  BY DEF IInv, FlushStart, DestroyFlush
<1>2. /\ UNCHANGED Entries /\ UNCHANGED <<disk, popped>> /\ cursor' = 1 /\ buffer' = NULL
      /\ \/ lock' = Flush /\ closing' = "no"
         \/ (lock' = Halt /\ closing' = "flush")
  BY DEF FlushStart, DestroyFlush, Entries, table, Quiet
<1>3. TypeOK'
  BY <1>1, <1>2 DEF TypeOK, Entries
<1>4. EntriesOK' /\ AccessOK'
  BY <1>1, <1>2, EntriesKept, CacheAssumption
<1>5. FlushedOnDisk'
  BY <1>2, NothingFlushed
<1>6. FlushOK'
  BY <1>2, CacheAssumption DEF FlushOK
<1>7. QED
  BY <1>3, <1>4, <1>5, <1>6 DEF IInv

(* A disk_write of the flush: the entries up to this one are on disk. *)
LEMMA FlushEntryStep ==
  ASSUME IInv, NEW f \in {Flush, Halt}, FlushEntry(f)
  PROVE  IInv'
<1>1. TypeOK /\ EntriesOK /\ FlushedOnDisk /\ AccessOK /\ FlushOK
  BY DEF IInv
<1>2. /\ lock = f /\ cursor <= Len(list) /\ cursor' = cursor + 1 /\ buffer' = NULL
      /\ disk' = [disk EXCEPT ![list[cursor]] = vaddr[list[cursor]]]
      /\ UNCHANGED Entries /\ UNCHANGED <<lock, closing, popped>>
  BY DEF FlushEntry, Entries, table, Quiet
<1>3. /\ list \in Seq(Sector) /\ Len(list) \in Nat /\ cursor \in Nat \ {0}
      /\ vaddr \in [Sector -> Data] /\ disk \in [Sector -> Data]
  BY <1>1 DEF TypeOK
<1>4. \A i \in 1 .. Len(list) : list[i] \in Sector
  BY <1>3
<1>5. disk' \in [Sector -> Data]
  BY <1>2, <1>3, <1>4
<1>6. TypeOK'
  BY <1>1, <1>2, <1>3, <1>5 DEF TypeOK, Entries
<1>7. EntriesOK' /\ AccessOK'
  BY <1>1, <1>2, EntriesKept
<1>8. FlushedOnDisk'
  <2>1. UNCHANGED <<list, vaddr>>
    BY <1>2 DEF Entries
  <2>2. ASSUME NEW i \in 1 .. Len(list), i < cursor + 1
        PROVE  disk'[list[i]] = vaddr[list[i]]
    <3>1. CASE list[i] = list[cursor]
      BY <3>1, <1>2, <1>3, <1>4
    <3>2. CASE list[i] # list[cursor]
      <4>1. i < cursor
        BY <3>2, <2>2, <1>3
      <4>2. disk[list[i]] = vaddr[list[i]]
        BY <4>1, <1>1 DEF FlushedOnDisk
      <4>3. QED
        BY <4>2, <3>2, <1>2, <1>3, <1>4
    <3>3. QED
      BY <3>1, <3>2
  <2>3. QED
    BY <2>1, <2>2, <1>2 DEF FlushedOnDisk
<1>9. FlushOK'
  BY <1>1, <1>2, CacheAssumption DEF FlushOK
<1>10. QED
  BY <1>6, <1>7, <1>8, <1>9 DEF IInv

(* At the end of a flush every entry is on disk. *)
LEMMA FlushEndStep ==
  ASSUME IInv, NEW f \in {Flush, Halt}, FlushEnd(f), f = Flush => closing = "no"
  PROVE  IInv'
<1>1. TypeOK /\ EntriesOK /\ FlushedOnDisk /\ AccessOK /\ FlushOK
  BY DEF IInv
<1>2. /\ lock = f /\ cursor > Len(list) /\ lock' = NULL /\ cursor' = 1 /\ buffer' = NULL
      /\ closing' = IF f = Halt THEN "free" ELSE closing
      /\ UNCHANGED Entries /\ UNCHANGED <<disk, popped>>
  BY DEF FlushEnd, Entries, table, Quiet
<1>3. TypeOK'
  BY <1>1, <1>2 DEF TypeOK, Entries
<1>4. EntriesOK' /\ AccessOK' /\ \A s : Cached(s)' <=> Cached(s)
  BY <1>1, <1>2, EntriesKept, CacheAssumption
<1>5. FlushedOnDisk'
  BY <1>2, NothingFlushed
<1>6. \A s \in Sector : Cached(s) => disk[s] = vaddr[s]
  <2>1. Len(list) \in Nat /\ cursor \in Nat
    BY <1>1 DEF TypeOK
  <2>2. QED
    BY <2>1, <1>1, <1>2 DEF FlushedOnDisk, Cached
<1>7. FlushOK'
  <2>1. vaddr' = vaddr /\ disk' = disk
    BY <1>2 DEF Entries
  <2>2. QED
    BY <2>1, <1>2, <1>4, <1>6, CacheAssumption DEF FlushOK
<1>8. QED
  BY <1>3, <1>4, <1>5, <1>7 DEF IInv

(* cache_table_destroy takes the oldest entry off the list. *)
LEMMA DestroyPopStep ==
  ASSUME IInv, DestroyPop
  PROVE  IInv' /\ disk[popped'] = vaddr[popped'] /\ popped' \in Sector
<1>1. TypeOK /\ EntriesOK /\ AccessOK /\ FlushOK /\ list \in Seq(Sector)
  BY DEF IInv, TypeOK
<1>2. lock = NULL /\ closing = "free" /\ stage = "none" /\ cursor = 1
  BY <1>1, NoAccess DEF DestroyPop, FlushOK
<1>3. /\ popped' = Head(list) /\ list' = Tail(list) /\ list # <<>> /\ buffer' = NULL
      /\ UNCHANGED <<size, vaddr, disk, lock, stage, req, victim, cursor, closing, inuse>>
  BY DEF DestroyPop, Quiet
<1>4. IsInjective(list) /\ Len(list) <= size /\ size \in Nat
  BY <1>1, <1>2, Elements DEF EntriesOK, SizeOK, TypeOK
<1>5. /\ list' \in Seq(Sector) /\ IsInjective(list') /\ Len(list') + 1 = Len(list)
      /\ Range(list') \subseteq Range(list) /\ popped' \in Range(list) /\ popped' \in Sector
  BY <1>1, <1>3, <1>4, PopFront
<1>6. TypeOK'
  BY <1>1, <1>3, <1>5 DEF TypeOK
<1>7. EntriesOK'
  BY <1>1, <1>2, <1>3, <1>4, <1>5, NextElements, Elements DEF EntriesOK, SizeOK
<1>8. FlushedOnDisk'
  BY <1>2, <1>3, NothingFlushed
<1>9. AccessOK'
  BY <1>2, <1>3, CacheAssumption DEF AccessOK
<1>10. \A s : Cached(s)' => Cached(s)
  BY <1>1, <1>5, NextElements, Elements
<1>11. FlushOK'
  BY <1>1, <1>2, <1>3, <1>10, CacheAssumption DEF FlushOK
<1>12. disk[popped'] = vaddr[popped']
  BY <1>1, <1>2, <1>5, Elements DEF FlushOK
<1>13. QED
  BY <1>5, <1>6, <1>7, <1>8, <1>9, <1>11, <1>12 DEF IInv

(* ... frees it, and is done when the list is empty. *)
LEMMA DestroyRest ==
  ASSUME IInv, DestroyFree \/ DestroyEnd
  PROVE  IInv' /\ UNCHANGED <<vaddr, disk>> /\ popped' \in {popped, NULL}
<1>1. TypeOK /\ EntriesOK /\ AccessOK /\ FlushedOnDisk /\ FlushOK
  BY DEF IInv
<1>2. /\ UNCHANGED Entries /\ UNCHANGED <<disk, lock, cursor>> /\ buffer' = NULL
      /\ \/ popped' = NULL /\ closing' = closing
         \/ popped' = popped /\ closing = "free" /\ closing' = "destroyed"
  BY DEF DestroyFree, DestroyEnd, Entries, table, Quiet
<1>3. TypeOK'
  BY <1>1, <1>2 DEF TypeOK, Entries
<1>4. EntriesOK' /\ AccessOK' /\ \A s : Cached(s)' <=> Cached(s)
  BY <1>1, <1>2, EntriesKept
<1>5. FlushedOnDisk'
  BY <1>1, <1>2 DEF FlushedOnDisk, Entries
<1>6. vaddr' = vaddr /\ disk' = disk
  BY <1>2 DEF Entries
<1>7. FlushOK'
  BY <1>1, <1>2, <1>4, <1>6, CacheAssumption DEF FlushOK
<1>8. QED
  BY <1>2, <1>3, <1>4, <1>5, <1>6, <1>7 DEF IInv

----------------------------------------------------------------------------
(* The table is empty at first. *)
LEMMA InitIInv == Init => IInv
<1> SUFFICES ASSUME Init PROVE IInv
  OBVIOUS
<1>1. list = <<>> /\ list \in Seq(Sector) /\ Len(list) = 0
  BY DEF Init
<1>2. TypeOK
  BY <1>1, CacheAssumption DEF Init, TypeOK
<1>3. EntriesOK /\ FlushedOnDisk
  BY <1>1 DEF Init, EntriesOK, OneEntry, SizeOK, FlushedOnDisk
<1>4. AccessOK /\ FlushOK
  BY CacheAssumption DEF Init, AccessOK, FlushOK
<1>5. QED
  BY <1>2, <1>3, <1>4 DEF IInv

(* A step that changes nothing *)
LEMMA StutterStep ==
  ASSUME IInv, UNCHANGED vars
  PROVE  IInv'
<1>1. UNCHANGED <<list, size, vaddr, disk, lock, stage, req, victim, cursor, closing, popped, inuse, buffer>>
  BY DEF vars, table
<1>2. EntriesOK' /\ AccessOK' /\ \A s : Cached(s)' <=> Cached(s)
  BY <1>1, EntriesKept DEF Entries, IInv
<1>3. TypeOK' /\ FlushedOnDisk'
  BY <1>1 DEF IInv, TypeOK, FlushedOnDisk
<1>4. FlushOK'
  BY <1>1, <1>2 DEF IInv, FlushOK
<1>5. QED
  BY <1>2, <1>3, <1>4 DEF IInv

(* Every step keeps the invariant, and takes off the list in a shutdown    *)
(* only what is on disk.                                                   *)
LEMMA NextIInv ==
  ASSUME IInv, [Step]_vars
  PROVE  IInv' /\ (popped' \notin {popped, NULL} => disk[popped'] = vaddr[popped'])
<1>1. ASSUME closing = "no", NEW c \in Client, NEW r \in Request, Hit(c, r) \/ Miss(c, r)
      PROVE  IInv' /\ popped' = popped
  BY <1>1, HitStep, MissStep DEF Hit, Miss
<1>2. ASSUME closing = "no", NEW c \in Client, Evict(c) \/ Fill(c)
      PROVE  IInv' /\ popped' = popped
  BY <1>2, EvictStep, FillStep DEF Evict, Fill
<1>3. ASSUME closing = "no", NEW s \in Sector, FreeCache(s)
      PROVE  IInv' /\ popped' = popped
  BY <1>3, FreeStep DEF FreeCache
<1>4. ASSUME (FlushStart /\ closing = "no") \/ DestroyFlush
      PROVE  IInv' /\ popped' = popped
  BY <1>4, FlushBegins DEF FlushStart, DestroyFlush
<1>5. ASSUME NEW f \in {Flush, Halt}, FlushEntry(f)
      PROVE  IInv' /\ popped' = popped
  BY <1>5, FlushEntryStep DEF FlushEntry
<1>6. ASSUME NEW f \in {Flush, Halt}, FlushEnd(f), f = Flush => closing = "no"
      PROVE  IInv' /\ popped' = popped
  BY <1>6, FlushEndStep DEF FlushEnd
<1>7. CASE closing = "no" /\ Next
  BY <1>1, <1>2, <1>3, <1>4, <1>5, <1>6, <1>7, CacheAssumption DEF Next
<1>8. CASE Destroy
  BY <1>4, <1>5, <1>6, <1>8, DestroyPopStep, DestroyRest, CacheAssumption DEF Destroy
<1>9. CASE UNCHANGED vars
  BY <1>9, StutterStep DEF vars
<1>10. QED
  BY <1>7, <1>8, <1>9 DEF Step

(* The invariant of the cache holds of every reachable state.              *)
THEOREM CacheInvariant == Spec => []IInv
<1>1. IInv /\ [Step]_vars => IInv'
  BY NextIInv
<1>2. QED
  BY <1>1, InitIInv, PTL DEF Spec, Step

(* Every variable stays in its type; in particular the size stays within   *)
(* CACHE_TABLE_MAX_SIZE (the ASSERT of allocate_cache, cache.c:41).        *)
THEOREM CacheTypeOK == Spec => []TypeOK
<1>1. IInv => TypeOK
  BY DEF IInv
<1>2. QED
  BY <1>1, CacheInvariant, PTL

(* A block never has two entries, and the size counts at least the entries *)
(* there are, so that the table never outgrows its limit, although         *)
(* free_cache does not count down (cache.c:34-73).                         *)
THEOREM CacheEntries == Spec => []EntriesOK
<1>1. IInv => EntriesOK
  BY DEF IInv
<1>2. QED
  BY <1>1, CacheInvariant, PTL

(* What a flush has passed is on disk: nothing slips in between while it   *)
(* waits for the disk with the lock held (cache.c:107-115).                *)
THEOREM CacheFlushed == Spec => []FlushedOnDisk
<1>1. IInv => FlushedOnDisk
  BY DEF IInv
<1>2. QED
  BY <1>1, CacheInvariant, PTL

(* cache_table_destroy frees no entry that is not on disk                  *)
(* (cache.c:124-134).                                                      *)
THEOREM CacheShutdown == Spec => ShutdownWrites
<1>1. IInv /\ [Step]_vars => [popped' \notin {popped, NULL} => disk[popped'] = vaddr[popped']]_vars
  BY NextIInv
<1>2. QED
  BY <1>1, CacheInvariant, PTL DEF Spec, Step, ShutdownWrites

----------------------------------------------------------------------------
(* The refinement of SectorStore.  The contents of the store are functions *)
(* on the sectors, so that they are compared sector by sector.             *)
LEMMA ContentType ==
  ASSUME TypeOK
  PROVE  Content \in [Sector -> Data]
  BY DEF TypeOK, Content

(* No sector's contents change. *)
LEMMA ContentKept ==
  ASSUME \A s \in Sector : Content'[s] = Content[s]
  PROVE  Content' = Content
  BY DEF Content

(* One sector's contents change. *)
LEMMA ContentSet ==
  ASSUME NEW x \in Sector, NEW d, Content'[x] = d,
         \A s \in Sector : s # x => Content'[s] = Content[s]
  PROVE  Content' = [Content EXCEPT ![x] = d]
<1> DEFINE updated == [Content EXCEPT ![x] = d]
<1>1. DOMAIN Content = Sector
  BY DEF Content
<1>2. updated = [s \in Sector |-> IF s = x THEN d ELSE Content[s]]
  BY <1>1, Zenon
<1>3. Content' = [s \in Sector |-> Content'[s]]
  BY DEF Content
<1>4. \A s \in Sector : Content'[s] = IF s = x THEN d ELSE Content[s]
  OBVIOUS
<1> HIDE DEF Content
<1>5. QED
  BY <1>2, <1>3, <1>4

(* The contents when no access is under way *)
LEMMA ContentIdle ==
  ASSUME stage = "none", NEW s \in Sector
  PROVE  Content[s] = IF Cached(s) THEN vaddr[s] ELSE disk[s]
  BY DEF Content

LEMMA ContentIdleNext ==
  ASSUME stage' = "none", NEW s \in Sector
  PROVE  Content'[s] = IF Cached(s)' THEN vaddr'[s] ELSE disk'[s]
  BY DEF Content

(* An access takes effect when it copies: a read delivers the contents, a  *)
(* write and the zeros of a fresh block change them.                       *)
LEMMA CopyRefines ==
  ASSUME TypeOK, NEW c \in Client, NEW r \in Request, NEW d \in Data, Allowed(r),
         Copy(c, r, d), Content[r.sector] = d, Content'[r.sector] = vaddr'[r.sector],
         \A s \in Sector : s # r.sector => Content'[s] = Content[s]
  PROVE  Store!Next
<1>1. vaddr \in [Sector -> Data] /\ r.sector \in Sector
  BY RequestFields DEF TypeOK
<1>2. CASE CopyRead(c, r, d)
  <2>1. Content' = Content
    BY <1>1, <1>2, ContentKept DEF CopyRead
  <2>2. r.sector \in inuse /\ r.part \in Part
    BY <1>2, RequestFields DEF CopyRead, Allowed
  <2>3. Store!Read(c, r.sector, r.part)
    BY <1>2, <2>1, <2>2 DEF CopyRead, Store!Read
  <2>4. QED
    BY <2>2, <2>3, <1>1 DEF Store!Next
<1>3. CASE CopyWrite(r, d)
  <2>1. r.sector \in inuse /\ r.part \in Part /\ r.value \in Value
    BY <1>3, RequestFields DEF CopyWrite, Allowed
  <2>2. Content'[r.sector] = [d EXCEPT ![r.part] = r.value]
    BY <1>1, <1>3 DEF CopyWrite
  <2>3. Content' = [Content EXCEPT ![r.sector] = [d EXCEPT ![r.part] = r.value]]
    BY <1>1, <2>2, ContentSet
  <2>4. Content' = [Content EXCEPT ![r.sector][r.part] = r.value]
    BY <2>3
  <2>5. Store!Write(r.sector, r.part, r.value)
    BY <1>3, <2>1, <2>4 DEF CopyWrite, Quiet, Store!Write, Store!Quiet
  <2>6. QED
    BY <2>1, <2>5, <1>1 DEF Store!Next
<1>4. CASE CopyZeros(r)
  <2>1. r.sector \notin inuse
    BY <1>4 DEF CopyZeros, Allowed
  <2>2. Content'[r.sector] = [o \in Part |-> Zero]
    BY <1>1, <1>4 DEF CopyZeros
  <2>3. Content' = [Content EXCEPT ![r.sector] = [o \in Part |-> Zero]]
    BY <1>1, <2>2, ContentSet
  <2>4. Store!Use(r.sector)
    BY <1>4, <2>1, <2>3 DEF CopyZeros, Quiet, Store!Use, Store!Quiet
  <2>5. QED
    BY <2>4, <1>1 DEF Store!Next
<1>5. QED
  BY <1>2, <1>3, <1>4 DEF Copy

(* A hit is an access in one step. *)
LEMMA HitRefines ==
  ASSUME IInv, NEW c \in Client, NEW r \in Request, Hit(c, r)
  PROVE  Store!Next
<1>1. TypeOK /\ stage = "none" /\ stage' = "none"
  BY NoAccess DEF IInv, Hit
<1>2. /\ Allowed(r) /\ Cached(r.sector) /\ Copy(c, r, vaddr[r.sector])
      /\ list' = list /\ disk' = disk
  BY DEF Hit, table
<1>3. r.sector \in Sector /\ vaddr[r.sector] \in Data
  BY <1>1, RequestFields DEF TypeOK
<1>4. \A s : Cached(s)' <=> Cached(s)
  BY <1>2, Zenon DEF Cached
<1>5. \A s \in Sector : s # r.sector => vaddr'[s] = vaddr[s]
  BY <1>1, <1>2, <1>3, CopyStep
<1>6. Content[r.sector] = vaddr[r.sector] /\ Content'[r.sector] = vaddr'[r.sector]
  BY <1>1, <1>2, <1>3, <1>4, ContentIdle, ContentIdleNext
<1>7. \A s \in Sector : s # r.sector => Content'[s] = Content[s]
  BY <1>1, <1>2, <1>4, <1>5, ContentIdle, ContentIdleNext
<1>8. QED
  BY <1>1, <1>2, <1>3, <1>6, <1>7, CopyRefines

(* A miss is one at its last step, when the entry has been read. *)
LEMMA FillRefines ==
  ASSUME IInv, NEW c \in Client, Fill(c)
  PROVE  Store!Next
<1>1. TypeOK /\ AccessOK /\ stage = "fill" /\ stage' = "none"
  BY DEF IInv, Fill
<1>2. /\ req \in Request /\ Allowed(req) /\ Cached(req.sector)
      /\ Copy(c, req, disk[req.sector]) /\ list' = list /\ disk' = disk
  BY <1>1 DEF AccessOK, Fill, table
<1>3. req.sector \in Sector /\ disk[req.sector] \in Data
  BY <1>1, <1>2, RequestFields DEF TypeOK
<1>4. \A s : Cached(s)' <=> Cached(s)
  BY <1>2 DEF Cached
<1>5. \A s \in Sector : s # req.sector => vaddr'[s] = vaddr[s]
  BY <1>1, <1>2, <1>3, CopyStep
<1>6. \A s \in Sector :
        Content[s] = IF Cached(s) /\ s # req.sector THEN vaddr[s] ELSE disk[s]
  BY <1>1 DEF Content
<1>7. Content[req.sector] = disk[req.sector] /\ Content'[req.sector] = vaddr'[req.sector]
  BY <1>1, <1>2, <1>3, <1>4, <1>6, ContentIdleNext
<1>8. \A s \in Sector : s # req.sector => Content'[s] = Content[s]
  BY <1>1, <1>2, <1>4, <1>5, <1>6, ContentIdleNext
<1>9. QED
  BY <1>1, <1>2, <1>3, <1>7, <1>8, CopyRefines

(* A step that no user of the store sees *)
LEMMA OtherRefines ==
  ASSUME \A s \in Sector : Content'[s] = Content[s], inuse' = inuse, buffer' = NULL
  PROVE  Store!Next
  BY ContentKept DEF Store!Next, Store!Other, Store!Quiet

(* A miss makes room: the new entry does not count before it is filled,    *)
(* the victim's does until it is written back.                             *)
LEMMA MissRefines ==
  ASSUME IInv, NEW c \in Client, NEW r \in Request, Miss(c, r)
  PROVE  Store!Next
<1>1. TypeOK /\ OneEntry /\ stage = "none" /\ list \in Seq(Sector)
  BY NoAccess DEF IInv, EntriesOK, Miss, TypeOK
<1>2. /\ req' = r /\ buffer' = NULL /\ ~Cached(r.sector)
      /\ vaddr' = vaddr /\ disk' = disk /\ inuse' = inuse
  BY DEF Miss, Quiet, NotFound
<1>3. r.sector \in Sector /\ IsInjective(list) /\ \A s : Cached(s) <=> s \in Range(list)
  BY <1>1, RequestFields, Elements, Zenon
<1>4. \A s \in Sector : Content[s] = IF Cached(s) THEN vaddr[s] ELSE disk[s]
  BY <1>1, ContentIdle
<1>5. CASE size < MAX_SIZE
  <2>1. stage' = "fill" /\ list' = Append(list, r.sector)
    BY <1>5 DEF Miss
  <2>2. \A s : Cached(s)' <=> Cached(s) \/ s = r.sector
    BY <2>1, <1>1, <1>3, PushBack, NextElements
  <2>3. \A s \in Sector :
          Content'[s] = IF Cached(s)' /\ s # r.sector THEN vaddr[s] ELSE disk[s]
    BY <2>1, <1>2 DEF Content
  <2>4. QED
    BY <2>2, <2>3, <1>2, <1>4, OtherRefines
<1>6. CASE ~(size < MAX_SIZE) /\ list = <<>>
  <2>1. stage' = "panic" /\ list' = list
    BY <1>6 DEF Miss, table
  <2>2. \A s : Cached(s)' <=> Cached(s)
    BY <2>1 DEF Cached
  <2>3. \A s \in Sector : Content'[s] = IF Cached(s)' THEN vaddr[s] ELSE disk[s]
    BY <2>1, <1>2 DEF Content
  <2>4. QED
    BY <2>2, <2>3, <1>2, <1>4, OtherRefines
<1>7. CASE ~(size < MAX_SIZE) /\ list # <<>>
  <2>1. stage' = "evict" /\ victim' = Head(list) /\ list' = Tail(list)
    BY <1>7 DEF Miss
  <2>2. \A s : Cached(s)' \/ s = victim' <=> Cached(s)
    BY <2>1, <1>1, <1>3, <1>7, PopFront, NextElements
  <2>3. \A s \in Sector :
          Content'[s] = IF Cached(s)' \/ s = victim' THEN vaddr[s] ELSE disk[s]
    BY <2>1, <1>2 DEF Content
  <2>4. QED
    BY <2>2, <2>3, <1>2, <1>4, OtherRefines
<1>8. QED
  BY <1>5, <1>6, <1>7

(* The eviction moves the contents of the victim to the disk. *)
LEMMA EvictRefines ==
  ASSUME IInv, NEW c \in Client, Evict(c)
  PROVE  Store!Next
<1>1. TypeOK /\ AccessOK /\ stage = "evict" /\ stage' = "fill" /\ list \in Seq(Sector)
  BY DEF IInv, Evict, TypeOK
<1>2. /\ victim \in Sector /\ victim # req.sector /\ req.sector \in Sector
      /\ ~Cached(victim) /\ ~Cached(req.sector)
  BY <1>1, RequestFields DEF AccessOK, NotFound
<1>3. /\ disk' = [disk EXCEPT ![victim] = vaddr[victim]] /\ list' = Append(list, req.sector)
      /\ vaddr' = vaddr /\ req' = req /\ inuse' = inuse /\ buffer' = NULL
  BY DEF Evict, Quiet
<1>4. \A s : Cached(s)' <=> Cached(s) \/ s = req.sector
  BY <1>1, <1>2, <1>3, PushBack, NextElements, Elements
<1>5. \A s \in Sector :
        Content[s] = IF Cached(s) \/ s = victim THEN vaddr[s] ELSE disk[s]
  BY <1>1 DEF Content
<1>6. \A s \in Sector :
        Content'[s] = IF Cached(s)' /\ s # req.sector THEN vaddr[s] ELSE disk'[s]
  BY <1>1, <1>3 DEF Content
<1>7. \A s \in Sector : disk'[s] = IF s = victim THEN vaddr[s] ELSE disk[s]
  BY <1>1, <1>3 DEF TypeOK
<1>8. \A s \in Sector : Content'[s] = Content[s]
  BY <1>2, <1>4, <1>5, <1>6, <1>7
<1>9. QED
  BY <1>3, <1>8, OtherRefines

(* free_cache gives the sector up, with its entry or what the disk held    *)
(* as its contents.                                                        *)
LEMMA FreeRefines ==
  ASSUME IInv, closing = "no", NEW x \in Sector, FreeCache(x)
  PROVE  Store!Next
<1>1. TypeOK /\ OneEntry /\ stage = "none"
  BY NoAccess DEF IInv, EntriesOK, FreeCache
<1>2. /\ x \in inuse /\ inuse' = inuse \ {x} /\ buffer' = NULL
      /\ stage' = "none" /\ vaddr' = vaddr /\ disk' = disk
  BY <1>1 DEF FreeCache, Quiet
<1>3. \A s : s # x => (Cached(s)' <=> Cached(s))
  BY <1>1, FreeList, NextElements, Elements
<1>4. \A s \in Sector : s # x => Content'[s] = Content[s]
  BY <1>1, <1>2, <1>3, ContentIdle, ContentIdleNext
<1>5. Content' = [Content EXCEPT ![x] = Content'[x]]
  BY <1>4, ContentSet
<1>6. TypeOK'
  BY FreeStep DEF IInv
<1>7. Content'[x] \in Data
  BY <1>6 DEF TypeOK, Content
<1>8. Store!Free(x)
  BY <1>2, <1>5, <1>7 DEF Store!Free, Store!Quiet, Store!Data, Data
<1>9. QED
  BY <1>8 DEF Store!Next

(* A flush copies entries to the disk, which no one reads while they are   *)
(* entries.                                                                *)
LEMMA FlushRefines ==
  ASSUME IInv,
         \/ FlushStart \/ DestroyFlush
         \/ \E f \in {Flush, Halt} : FlushEntry(f) \/ FlushEnd(f)
  PROVE  Store!Next
<1>1. TypeOK /\ AccessOK /\ lock \notin Client
  BY CacheAssumption DEF IInv, FlushStart, DestroyFlush, FlushEntry, FlushEnd
<1>2. /\ list' = list /\ vaddr' = vaddr /\ inuse' = inuse /\ buffer' = NULL
      /\ stage = "none" /\ stage' = "none"
  BY <1>1 DEF AccessOK, FlushStart, DestroyFlush, FlushEntry, FlushEnd, Quiet, table
<1>3. \A s : Cached(s)' <=> Cached(s)
  BY <1>2 DEF Cached
<1>4. \A s \in Sector : ~Cached(s) => disk'[s] = disk[s]
  <2>1. ASSUME NEW f \in {Flush, Halt}, FlushEntry(f), NEW s \in Sector, ~Cached(s)
        PROVE  disk'[s] = disk[s]
    <3>1. cursor \in 1 .. Len(list)
      BY <2>1, <1>1 DEF FlushEntry, TypeOK
    <3>2. s # list[cursor]
      BY <3>1, <2>1, Zenon DEF Cached
    <3>3. QED
      BY <3>2, <2>1, <1>1 DEF FlushEntry, TypeOK
  <2>2. QED
    BY <2>1 DEF FlushStart, DestroyFlush, FlushEnd
<1>5. \A s \in Sector : Content'[s] = Content[s]
  BY <1>2, <1>3, <1>4, ContentIdle, ContentIdleNext
<1>6. QED
  BY <1>2, <1>5, OtherRefines

(* What the shutdown frees is on disk. *)
LEMMA DestroyRefines ==
  ASSUME IInv, DestroyPop \/ DestroyFree \/ DestroyEnd
  PROVE  Store!Next
<1>1. CASE DestroyPop
  <2>1. TypeOK /\ EntriesOK /\ FlushOK /\ list \in Seq(Sector)
    BY DEF IInv, TypeOK
  <2>2. /\ lock = NULL /\ stage = "none" /\ stage' = "none" /\ buffer' = NULL /\ inuse' = inuse
        /\ vaddr' = vaddr /\ disk' = disk /\ list' = Tail(list) /\ list # <<>>
    BY <1>1, <2>1, NoAccess DEF FlushOK, DestroyPop, Quiet
  <2>3. \A s \in Sector : Cached(s) => disk[s] = vaddr[s]
    BY <1>1, <2>1 DEF FlushOK, DestroyPop
  <2>4. \A s : Cached(s)' => Cached(s)
    BY <2>1, <2>2, PopFront, NextElements, Elements DEF EntriesOK
  <2>5. \A s \in Sector : Content'[s] = Content[s]
    BY <2>2, <2>3, <2>4, ContentIdle, ContentIdleNext
  <2>6. QED
    BY <2>2, <2>5, OtherRefines
<1>2. CASE DestroyFree \/ DestroyEnd
  <2>1. /\ list' = list /\ vaddr' = vaddr /\ disk' = disk /\ stage' = stage
        /\ req' = req /\ victim' = victim /\ inuse' = inuse /\ buffer' = NULL
    BY <1>2 DEF DestroyFree, DestroyEnd, Quiet, table
  <2>2. \A s \in Sector : Content'[s] = Content[s]
    BY <2>1 DEF Content, Cached
  <2>3. QED
    BY <2>1, <2>2, OtherRefines
<1>3. QED
  BY <1>1, <1>2

(* Every step of the cache is one of the store or none. *)
LEMMA NextRefines ==
  ASSUME IInv, [Step]_vars
  PROVE  [Store!Next]_<<Content, inuse, buffer>>
<1>1. ASSUME NEW c \in Client, NEW r \in Request, Hit(c, r) \/ Miss(c, r)
      PROVE  Store!Next
  BY <1>1, HitRefines, MissRefines
<1>2. ASSUME NEW c \in Client, Evict(c) \/ Fill(c)
      PROVE  Store!Next
  BY <1>2, EvictRefines, FillRefines
<1>3. CASE closing = "no" /\ Next
  BY <1>1, <1>2, <1>3, FreeRefines, FlushRefines DEF Next
<1>4. CASE Destroy
  BY <1>4, FlushRefines, DestroyRefines DEF Destroy
<1>5. CASE UNCHANGED vars
  BY <1>5 DEF vars, table, Content, Cached
<1>6. QED
  BY <1>3, <1>4, <1>5 DEF Step

(* A sector in use reads as it was last written, each access in one step,  *)
(* whatever is evicted, flushed, freed or shut down between its steps: the *)
(* cache implements SectorStore (cache.c:75-134).                          *)
THEOREM CacheImplementsStore == Spec => ImplementsStore
<1>1. Init => Store!Init
  <2>1. Init => Content \in [Sector -> Data]
    BY InitIInv, ContentType DEF IInv
  <2>2. QED
    BY <2>1 DEF Init, Store!Init, Store!Data, Data
<1>2. IInv /\ [Step]_vars => [Store!Next]_<<Content, inuse, buffer>>
  BY NextRefines
<1>3. QED
  BY <1>1, <1>2, CacheInvariant, PTL DEF Spec, Step, ImplementsStore, Store!Spec
=============================================================================
