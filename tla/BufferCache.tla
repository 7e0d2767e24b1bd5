---------------------------- MODULE BufferCache ----------------------------
(***************************************************************************)
(* The buffer cache (filesys/cache.c): cache_table_read and                *)
(* cache_table_write, which allocate an entry and evict the oldest one;    *)
(* free_cache; the thread that flushes the table; and cache_table_destroy. *)
(*                                                                         *)
(* A disk transfer blocks its thread, so it ends a step.  An access that   *)
(* finds its entry, and free_cache, are one step: nothing in them blocks.  *)
(***************************************************************************)
EXTENDS Lists

CONSTANTS Client,     \* threads in the file system
          Sector, Part, Value, Zero,
          MAX_SIZE,   \* CACHE_TABLE_MAX_SIZE
          NULL, Flush, Halt   \* the flush thread, and the one in filesys_done

ASSUME CacheAssumption ==
  /\ MAX_SIZE \in Nat \ {0} /\ Zero \in Value
  /\ NULL \notin Client \cup {Flush, Halt} /\ Client \cap {Flush, Halt} = {} /\ Flush # Halt

VARIABLES list,    \* cache_table.list, the blocks, oldest first
          vaddr,   \* the contents of each block's entry
          size,    \* cache_table.size
          disk,
          lock,    \* who holds cache_table.lock
          stage,   \* of its holder, with the access it makes and the block it evicts
          req, victim,
          cursor,  \* the entry it flushes next
          closing, \* of cache_table_destroy, with the entry it frees
          popped,
          inuse,   \* the sectors its callers have allocated and not freed
          buffer   \* what the step before this one has read, or NULL

table == <<list, size>>
vars == <<table, vaddr, disk, lock, stage, req, victim, cursor, closing, popped, inuse, buffer>>

Data == [Part -> Value]
Quiet == buffer' = NULL
Request == [op : {"read"}, sector : Sector, part : Part]
             \cup [op : {"write"}, sector : Sector, part : Part, value : Value]
             \cup [op : {"use"}, sector : Sector]

TypeOK ==
  /\ list \in Seq(Sector)
  /\ vaddr \in [Sector -> Data] /\ disk \in [Sector -> Data]
  /\ size \in 0..MAX_SIZE
  /\ lock \in Client \cup {NULL, Flush, Halt}
  /\ stage \in {"none", "evict", "fill", "panic"}
  /\ req \in Request \cup {NULL} /\ victim \in Sector \cup {NULL}
  /\ cursor \in Nat \ {0}
  /\ closing \in {"no", "flush", "free", "destroyed"} /\ popped \in Sector \cup {NULL}
  /\ inuse \subseteq Sector
  /\ buffer \in [client : Client, sector : Sector, part : Part, value : Value] \cup {NULL}

Init ==
  /\ list = <<>> /\ size = 0
  /\ disk \in [Sector -> Data]
  /\ vaddr = disk
  /\ lock = NULL /\ stage = "none" /\ req = NULL /\ victim = NULL
  /\ cursor = 1
  /\ closing = "no" /\ popped = NULL
  /\ inuse \in SUBSET Sector
  /\ buffer = NULL

----------------------------------------------------------------------------
(* cache_table_find *)
Cached(s) == \E i \in 1 .. Len(list) : list[i] = s
NotFound(s) == ~Cached(s)

(* The callers read and write sectors in use, and write the whole of a     *)
(* sector they have just allocated (allocate_block, inode.c).              *)
Allowed(r) == (r.op = "use") <=> (r.sector \notin inuse)

(* The memcpy that ends an access; the entry of the sector holds d. *)
CopyRead(c, r, d) ==
  /\ r.op = "read"
  /\ buffer' = [client |-> c, sector |-> r.sector, part |-> r.part, value |-> d[r.part]]
  /\ vaddr' = [vaddr EXCEPT ![r.sector] = d]
  /\ UNCHANGED inuse
CopyWrite(r, d) ==
  /\ r.op = "write"
  /\ vaddr' = [vaddr EXCEPT ![r.sector] = [d EXCEPT ![r.part] = r.value]]
  /\ Quiet /\ UNCHANGED inuse
CopyZeros(r) ==
  /\ r.op = "use"
  /\ vaddr' = [vaddr EXCEPT ![r.sector] = [o \in Part |-> Zero]]
  /\ inuse' = inuse \cup {r.sector}
  /\ Quiet
Copy(c, r, d) == CopyRead(c, r, d) \/ CopyWrite(r, d) \/ CopyZeros(r)

(* cache_table_read and cache_table_write of a block in the table *)
Hit(c, r) ==
  /\ lock = NULL /\ Allowed(r) /\ Cached(r.sector)
  /\ Copy(c, r, vaddr[r.sector])
  /\ UNCHANGED <<table, disk, lock, stage, req, victim, cursor, closing, popped>>

(* ... and of one that is not: allocate_cache appends an entry, or first   *)
(* takes the oldest off the list.  list_pop_front panics on an empty list. *)
Miss(c, r) ==
  /\ lock = NULL /\ Allowed(r) /\ NotFound(r.sector)
  /\ lock' = c
  /\ IF size < MAX_SIZE
     THEN /\ stage' = "fill" /\ UNCHANGED victim
          /\ list' = Append(list, r.sector) /\ size' = size + 1
     ELSE IF list = <<>>
     THEN stage' = "panic" /\ UNCHANGED <<table, victim>>
     ELSE /\ stage' = "evict" /\ victim' = Head(list)
          /\ list' = Tail(list) /\ UNCHANGED size
  /\ req' = r
  /\ Quiet /\ UNCHANGED <<vaddr, disk, cursor, closing, popped, inuse>>

(* The victim is written to disk and freed; the new entry is appended. *)
EvictDrops(c) ==
  /\ lock = c /\ stage = "evict"
  /\ list' = Append(list, req.sector)
  /\ stage' = "fill" /\ victim' = NULL
  /\ Quiet /\ UNCHANGED <<size, vaddr, disk, lock, req, cursor, closing, popped, inuse>>
Evict(c) ==
  /\ lock = c /\ stage = "evict"
  /\ disk' = [disk EXCEPT ![victim] = vaddr[victim]]
  /\ list' = Append(list, req.sector) /\ size' = (size - 1) + 1
  /\ stage' = "fill" /\ victim' = NULL
  /\ Quiet /\ UNCHANGED <<vaddr, lock, req, cursor, closing, popped, inuse>>

(* disk_read into the new entry, then the copy. *)
Fill(c) ==
  /\ lock = c /\ stage = "fill"
  /\ Copy(c, req, disk[req.sector])
  /\ lock' = NULL /\ stage' = "none" /\ req' = NULL
  /\ UNCHANGED <<table, disk, victim, cursor, closing, popped>>

(* The first entry of a block that is in the table *)
Find(s) == CHOOSE i \in 1 .. Len(list) : list[i] = s /\ \A j \in 1 .. i - 1 : list[j] # s

(* free_cache leaves the size as it is. *)
FreeCountsDown(s) ==
  /\ lock = NULL /\ s \in inuse
  /\ inuse' = inuse \ {s}
  /\ list' = IF Cached(s) THEN ListRemove(list, Find(s)) ELSE list
  /\ size' = IF size > 0 THEN size - 1 ELSE 0
  /\ Quiet /\ UNCHANGED <<vaddr, disk, lock, stage, req, victim, cursor, closing, popped>>
FreeCache(s) ==
  /\ lock = NULL /\ s \in inuse
  /\ inuse' = inuse \ {s}
  /\ list' = IF Cached(s) THEN ListRemove(list, Find(s)) ELSE list
  /\ Quiet /\ UNCHANGED <<size, vaddr, disk, lock, stage, req, victim, cursor, closing, popped>>

----------------------------------------------------------------------------
(* cache_table_flush, by the flush thread until the table is destroyed,    *)
(* and by cache_table_destroy.                                             *)
FlushStart ==
  /\ lock = NULL /\ closing # "destroyed"
  /\ lock' = Flush /\ cursor' = 1
  /\ Quiet /\ UNCHANGED <<table, vaddr, disk, stage, req, victim, closing, popped, inuse>>

FlushSkips(f) ==
  /\ lock = f /\ cursor <= Len(list)
  /\ disk' = [disk EXCEPT ![list[cursor]] = vaddr[list[cursor]]]
  /\ cursor' = cursor + 2
  /\ Quiet /\ UNCHANGED <<table, vaddr, lock, stage, req, victim, closing, popped, inuse>>
FlushEntry(f) ==
  /\ lock = f /\ cursor <= Len(list)
  /\ disk' = [disk EXCEPT ![list[cursor]] = vaddr[list[cursor]]]
  /\ cursor' = cursor + 1
  /\ Quiet /\ UNCHANGED <<table, vaddr, lock, stage, req, victim, closing, popped, inuse>>

FlushEnd(f) ==
  /\ lock = f /\ cursor > Len(list)
  /\ lock' = NULL /\ cursor' = 1
  /\ closing' = IF f = Halt THEN "free" ELSE closing
  /\ Quiet /\ UNCHANGED <<table, vaddr, disk, stage, req, victim, popped, inuse>>

----------------------------------------------------------------------------
(* cache_table_destroy: a flush, then the entries are freed without the    *)
(* lock.                                                                   *)
DestroyNoFlush ==
  /\ closing = "no" /\ lock = NULL
  /\ closing' = "free"
  /\ Quiet /\ UNCHANGED <<table, vaddr, disk, lock, stage, req, victim, cursor, popped, inuse>>
DestroyFlush ==
  /\ closing = "no" /\ lock = NULL
  /\ lock' = Halt /\ closing' = "flush" /\ cursor' = 1
  /\ Quiet /\ UNCHANGED <<table, vaddr, disk, stage, req, victim, popped, inuse>>

DestroyPop ==
  /\ closing = "free" /\ popped = NULL /\ list # <<>>
  /\ popped' = Head(list) /\ list' = Tail(list)
  /\ Quiet /\ UNCHANGED <<size, vaddr, disk, lock, stage, req, victim, cursor, closing, inuse>>

DestroyFree ==
  /\ popped # NULL
  /\ popped' = NULL
  /\ Quiet /\ UNCHANGED <<table, vaddr, disk, lock, stage, req, victim, cursor, closing, inuse>>

DestroyEnd ==
  /\ closing = "free" /\ popped = NULL /\ list = <<>>
  /\ closing' = "destroyed"
  /\ Quiet /\ UNCHANGED <<table, vaddr, disk, lock, stage, req, victim, cursor, popped, inuse>>

----------------------------------------------------------------------------
Next == \/ \E c \in Client : \/ \E r \in Request : Hit(c, r) \/ Miss(c, r)
                             \/ Evict(c) \/ Fill(c)
        \/ \E s \in Sector : FreeCache(s)
        \/ FlushStart \/ FlushEntry(Flush) \/ FlushEnd(Flush)

Destroy == DestroyFlush \/ FlushEntry(Halt) \/ FlushEnd(Halt) \/ DestroyPop \/ DestroyFree \/ DestroyEnd

(* The file system in use, then a filesys_done once nothing else runs.     *)
Spec == Init /\ [][(closing = "no" /\ Next) \/ Destroy]_vars

----------------------------------------------------------------------------
(* A block has one entry: allocate_cache's comment says "should be         *)
(* guaranteed that the entry with block does not exist" (cache.c:36).  Two *)
(* would let a write to one be lost.                                       *)
OneEntry == \A i, j \in 1 .. Len(list) : list[i] = list[j] => i = j

(* The size counts at least the entries there are, so that the table never *)
(* outgrows the limit; it may count more (cache.c:41-55, 60-73).           *)
SizeOK == Len(list) + (IF stage = "evict" THEN 1 ELSE 0) <= size

(* cache_table_find finds the one entry there is, and a miss at the limit  *)
(* evicts: both of these.                                                  *)
EntriesOK == OneEntry /\ SizeOK

(* Where a flush has been, the disk holds what the entries hold, although  *)
(* it lets other threads run at each disk_write (cache.c:107-115).         *)
FlushedOnDisk ==
  \A i \in 1 .. Len(list) : i < cursor => disk[list[i]] = vaddr[list[i]]

(* The contents of a sector: its entry's, once it is filled and until it   *)
(* has been written back.                                                  *)
Content ==
  [s \in Sector |->
     IF \/ Cached(s) /\ ~(stage = "fill" /\ req.sector = s)
        \/ stage = "evict" /\ victim = s
     THEN vaddr[s] ELSE disk[s]]

Store == INSTANCE SectorStore WITH content <- Content

(* The file system reads what it wrote last, whatever is evicted, flushed  *)
(* or freed between: the cache implements SectorStore (cache.c:75-105).    *)
ImplementsStore == Store!Spec

(* "Shuts down the file system module, writing any unwritten data to disk" *)
(* (filesys.c:51-52): an entry that cache_table_destroy takes off the list *)
(* to free it is on disk.                                                  *)
ShutdownWrites == [][popped' \notin {popped, NULL} => disk[popped'] = vaddr[popped']]_vars
============================================================================
