------------------------------- MODULE Inode -------------------------------
(***************************************************************************)
(* Files on disk: inode.c (direct, indirect and doubly indirect blocks,    *)
(* growth, removal), the free map (free-map.c) and the open files of       *)
(* file.c.                                                                 *)
(*                                                                         *)
(* The system calls that come here hold lock_file, so an operation is one  *)
(* step.  The sectors are those of SectorStore, which BufferCache          *)
(* implements; inodes go to the disk directly.  The free map is written to *)
(* its file with every change.  Which names a directory holds is the       *)
(* business of Directory: here a file is linked or not.                    *)
(***************************************************************************)
EXTENDS Integers, FiniteSets, FiniteSetsExt, SequencesExt

CONSTANTS SECTORS,            \* of the disk
          Reserved,           \* sectors of the free map and the root directory
          DIRECT_MAX, SECTOR_MAX, DISK_SECTOR_SIZE,
          Byte, Handle, NULL,
          Size, Offset,       \* the sizes and positions users ask for
          CleanShutdown,      \* no file is open when the system goes down
          MaxFiles            \* bound: no more files are linked

ASSUME InodeAssumption ==
  /\ {SECTORS, DIRECT_MAX, SECTOR_MAX, DISK_SECTOR_SIZE} \subseteq Nat \ {0}
  /\ Reserved \subseteq 0..SECTORS-1
  /\ 0 \in Byte /\ NULL \notin Handle

VARIABLES free_map,    \* the sectors marked
          block,       \* what is in each sector that is not an inode's: junk
                       \* stands for whatever is left in one that is not marked
          disk_inode,  \* the inodes on disk
          linked,      \* the inodes that directory entries name
          inode,       \* open_inodes, by sector
          file,        \* struct file, but for pos: file_seek takes it anywhere
          panic,       \* a failed assertion, or "no"
          buf          \* history: what the last step read, by position

disk == <<free_map, block, disk_inode, linked>>
memory == <<inode, file>>
vars == <<disk, memory, panic, buf>>

Sector == 0..SECTORS-1
UNUSED_SECTOR == SECTORS    \* (disk_sector_t) -1: no sector of the disk
Pointer == Sector \cup {UNUSED_SECTOR}

(* The block pointers of struct inode_disk in one array: direct[], then    *)
(* indirect and double_indirect.                                           *)
INDIRECT == DIRECT_MAX
DOUBLE_INDIRECT == DIRECT_MAX + 1
InodeDisk == [ptr : [0..DIRECT_MAX+1 -> Pointer], length : Nat]

zeros == [i \in 0..DISK_SECTOR_SIZE-1 |-> 0]
unused == [i \in 0..SECTOR_MAX-1 |-> UNUSED_SECTOR]
junk == [i \in 0..DISK_SECTOR_SIZE-1 |-> CHOOSE b \in Byte : b # 0]
Block == [0..DISK_SECTOR_SIZE-1 -> Byte] \cup [0..SECTOR_MAX-1 -> Pointer]

TypeOK ==
  /\ free_map \subseteq Sector
  /\ block \in [Sector -> Block]
  /\ \A s \in Sector : disk_inode[s] = NULL \/ disk_inode[s] \in InodeDisk
  /\ linked \subseteq Sector
  /\ \A s \in Sector : \/ inode[s] = NULL
                       \/ inode[s] \in [open_cnt : Nat \ {0}, deny_write_cnt : Nat,
                                        removed : BOOLEAN, data : InodeDisk]
  /\ \A h \in Handle : file[h] = NULL \/ file[h] \in [inode : Sector, deny_write : BOOLEAN]
  /\ panic \in {"no", "release", "disk"}
  /\ \A i \in DOMAIN buf : buf[i] \in Byte

free_map_init == Reserved

(* A formatted file system without files. *)
Init ==
  /\ free_map = free_map_init
  /\ block = [s \in Sector |-> junk]
  /\ disk_inode = [s \in Sector |-> NULL]
  /\ linked = {}
  /\ inode = [s \in Sector |-> NULL]
  /\ file = [h \in Handle |-> NULL]
  /\ panic = "no"
  /\ buf = <<>>

----------------------------------------------------------------------------
(* allocate_block on a copy st of what it changes: the free map, the       *)
(* sectors and the inode's data.  st.got is the sector it found, st.ok     *)
(* that it never failed.                                                   *)
State(data) == [map |-> free_map, block |-> block, data |-> data, got |-> UNUSED_SECTOR, ok |-> TRUE]

(* The sectors b with the new block s zeroed, or filled with UNUSED_SECTOR. *)
FreshZeros(b, s, fill) == [b EXCEPT ![s] = zeros]
Fresh(b, s, fill) == [b EXCEPT ![s] = fill]

(* free_map_allocate takes the first sector that is not marked. *)
free_map_allocate(map) == Min(Sector \ map)

(* The pointer i of the inode, or of the index block s; if unused, a new   *)
(* sector if there is one.                                                 *)
Fetch(st, s, i, fill) ==
  LET old == IF s = NULL THEN st.data.ptr[i] ELSE st.block[s][i]
      new == free_map_allocate(st.map)
      filled == Fresh(st.block, new, fill)
  IN IF old # UNUSED_SECTOR THEN [st EXCEPT !.got = old]
     ELSE IF Sector \subseteq st.map THEN [st EXCEPT !.got = UNUSED_SECTOR, !.ok = FALSE]
     ELSE [st EXCEPT !.map = @ \cup {new}, !.got = new,
                     !.block = IF s = NULL THEN filled ELSE [filled EXCEPT ![s][i] = new],
                     !.data = IF s = NULL THEN [@ EXCEPT !.ptr[i] = new] ELSE @]

FetchNext(st, i, fill) == IF st.got = UNUSED_SECTOR THEN st ELSE Fetch(st, st.got, i, fill)

allocate_block(st, pos) ==
  LET q == pos - DIRECT_MAX - SECTOR_MAX
  IN IF pos < DIRECT_MAX THEN Fetch(st, NULL, pos, zeros)
     ELSE IF pos < DIRECT_MAX + SECTOR_MAX
     THEN FetchNext(Fetch(st, NULL, INDIRECT, unused), pos - DIRECT_MAX, zeros)
     ELSE FetchNext(FetchNext(Fetch(st, NULL, DOUBLE_INDIRECT, unused), q \div SECTOR_MAX, unused),
                    q % SECTOR_MAX, zeros)

(* allocate_block for each of the blocks lo..hi. *)
AllocateBlocks(st, lo, hi) ==
  LET upto[i \in lo-1..hi] == IF i < lo THEN st ELSE allocate_block(upto[i-1], i)
  IN IF hi < lo THEN st ELSE upto[hi]

----------------------------------------------------------------------------
(* Reading the block map of the inode data d.                              *)
bytes_to_sectors(n) == (n + DISK_SECTOR_SIZE - 1) \div DISK_SECTOR_SIZE

(* b is what is in the sectors.                                           *)
Entry(b, s, i) == IF s = UNUSED_SECTOR THEN UNUSED_SECTOR ELSE b[s][i]
IndexOf(b, d, pos) ==
  IF pos < DIRECT_MAX + SECTOR_MAX THEN d.ptr[INDIRECT]
  ELSE Entry(b, d.ptr[DOUBLE_INDIRECT], (pos - DIRECT_MAX - SECTOR_MAX) \div SECTOR_MAX)
DataBlock(b, d, pos) ==
  IF pos < DIRECT_MAX THEN d.ptr[pos]
  ELSE Entry(b, IndexOf(b, d, pos), (pos - DIRECT_MAX) % SECTOR_MAX)

(* free_blocks: for each block below the length, the data block, and the   *)
(* index blocks whose first entry it is.                                   *)
FreedBlocks(d) ==
  LET P == 0..bytes_to_sectors(d.length) - 1
      direct == {d.ptr[p] : p \in P \cap 0..DIRECT_MAX-1}
      firsts == {p \in P : p >= DIRECT_MAX /\ (p - DIRECT_MAX) % SECTOR_MAX = 0}
      double == {d.ptr[DOUBLE_INDIRECT] : p \in P \cap {DIRECT_MAX + SECTOR_MAX}}
  IN direct \cup double \cup ({DataBlock(block, d, p) : p \in P} \ {UNUSED_SECTOR})
       \cup ({IndexOf(block, d, p) : p \in firsts} \ {UNUSED_SECTOR})

(* It reads an index block the inode does not have. *)
ReadsNoIndex(d) ==
  LET n == bytes_to_sectors(d.length)
  IN \/ n > DIRECT_MAX /\ d.ptr[INDIRECT] = UNUSED_SECTOR
     \/ n > DIRECT_MAX + SECTOR_MAX /\ d.ptr[DOUBLE_INDIRECT] = UNUSED_SECTOR

----------------------------------------------------------------------------
(* filesys_create's free_map_allocate and inode_create: every block is     *)
(* tried even after one failed, and those allocated stay when it fails;    *)
(* the inode's own sector is released by the caller.                       *)
inode_create(length) ==
  /\ Cardinality(linked) < MaxFiles /\ ~(Sector \subseteq free_map)
  /\ LET s == free_map_allocate(free_map)
         new == [ptr |-> [i \in 0..DIRECT_MAX+1 |-> UNUSED_SECTOR], length |-> length]
         st == AllocateBlocks([State(new) EXCEPT !.map = @ \cup {s}], 0, bytes_to_sectors(length) - 1)
     IN /\ block' = st.block
        /\ IF st.ok
           THEN /\ free_map' = st.map
                /\ disk_inode' = [disk_inode EXCEPT ![s] = st.data]
                /\ linked' = linked \cup {s}
           ELSE free_map' = st.map \ {s} /\ UNCHANGED <<disk_inode, linked>>
  /\ buf' = <<>>
  /\ UNCHANGED <<memory, panic>>

(* inode_open or inode_reopen, and file_open *)
Opened(s) ==
  IF inode[s] # NULL THEN [inode[s] EXCEPT !.open_cnt = @ + 1]
  ELSE [open_cnt |-> 1, deny_write_cnt |-> 0, removed |-> FALSE, data |-> disk_inode[s]]
OpenFile(h, s) ==
  /\ file[h] = NULL
  /\ inode' = [inode EXCEPT ![s] = Opened(s)]
  /\ file' = [file EXCEPT ![h] = [inode |-> s, deny_write |-> FALSE]]
  /\ buf' = <<>>
  /\ UNCHANGED <<disk, panic>>
file_open(h, s) == s \in linked /\ OpenFile(h, s)
file_reopen(h, g) == file[g] # NULL /\ OpenFile(h, file[g].inode)

(* The last inode_close of an inode that was not removed writes it to disk. *)
WriteNothing(s, i) == UNCHANGED disk_inode
WriteBack(s, i) == disk_inode' = [disk_inode EXCEPT ![s] = i.data]

(* The last inode_close of a removed inode: free_map_release and free_blocks *)
Release(s, i) ==
  LET freed == FreedBlocks(i.data) \cup {s}
  IN IF ReadsNoIndex(i.data) THEN panic' = "disk" /\ UNCHANGED <<free_map, block, disk_inode>>
     ELSE IF freed \subseteq free_map
     THEN /\ free_map' = free_map \ freed
          /\ block' = [b \in Sector |-> IF b \in freed THEN junk ELSE block[b]]
          /\ disk_inode' = [disk_inode EXCEPT ![s] = NULL]
          /\ UNCHANGED panic
     ELSE panic' = "release" /\ UNCHANGED <<free_map, block, disk_inode>>

(* inode_close of the struct inode i, as the caller leaves it, of sector s *)
inode_close(s, i) ==
  IF i.open_cnt > 1
  THEN /\ inode' = [inode EXCEPT ![s] = [i EXCEPT !.open_cnt = @ - 1]]
       /\ UNCHANGED <<free_map, block, disk_inode, panic>>
  ELSE /\ inode' = [inode EXCEPT ![s] = NULL]
       /\ IF i.removed THEN Release(s, i) ELSE WriteBack(s, i) /\ UNCHANGED <<free_map, block, panic>>

inode_deny_write(i) == [i EXCEPT !.deny_write_cnt = @ + 1]
inode_allow_write(i) == [i EXCEPT !.deny_write_cnt = @ - 1]

(* file_close: file_allow_write, then inode_close *)
file_close(h) ==
  /\ file[h] # NULL
  /\ file' = [file EXCEPT ![h] = NULL]
  /\ LET i == inode[file[h].inode]
     IN inode_close(file[h].inode,
                    IF file[h].deny_write THEN inode_allow_write(i) ELSE i)
  /\ buf' = <<>>
  /\ UNCHANGED linked

(* dir_remove erases the entry, opens the inode, marks it and closes it. *)
MarkedAndAlone(s) == [Opened(s) EXCEPT !.removed = TRUE, !.open_cnt = 1]
Marked(s) == [Opened(s) EXCEPT !.removed = TRUE]
inode_remove(s) ==
  /\ s \in linked
  /\ linked' = linked \ {s}
  /\ inode_close(s, Marked(s))
  /\ buf' = <<>>
  /\ UNCHANGED file

----------------------------------------------------------------------------
Least(a, b) == IF a < b THEN a ELSE b

(* inode_read_at: every block is allocated before the length is looked at, *)
(* the one at the end of the file included.                                *)
LastRead(pos, size, length) ==
  (IF pos + size <= length THEN pos + size - 1 ELSE IF pos < length THEN length ELSE pos)
    \div DISK_SECTOR_SIZE
inode_read_at(s, pos, size) ==
  LET d == inode[s].data
      n == IF pos >= d.length THEN 0 ELSE Least(size, d.length - pos)
      st == AllocateBlocks(State(d), pos \div DISK_SECTOR_SIZE, LastRead(pos, size, d.length))
      within == AllocateBlocks(State(d), pos \div DISK_SECTOR_SIZE, (pos + n - 1) \div DISK_SECTOR_SIZE)
      At(i) == st.block[DataBlock(st.block, st.data, i \div DISK_SECTOR_SIZE)][i % DISK_SECTOR_SIZE]
  IN IF n > 0 /\ ~within.ok
     THEN panic' = "disk" /\ buf' = <<>> /\ UNCHANGED <<disk, memory>>
     ELSE /\ free_map' = st.map /\ block' = st.block
          /\ inode' = [inode EXCEPT ![s].data = st.data]
          /\ buf' = [i \in pos..pos+n-1 |-> At(i)]
          /\ UNCHANGED <<disk_inode, linked, file, panic>>

(* file_read, from where file_seek has gone, and file_read_at *)
file_read(h, pos, size) == file[h] # NULL /\ inode_read_at(file[h].inode, pos, size)

(* inode_write_at of n bytes v: the length is raised before the blocks are *)
(* there; a block that could not be allocated fails the disk's assertion.  *)
MayWrite(i) == i.deny_write_cnt = 0
DataWritten(st, pos, n, v) ==
  LET bytes == {<<DataBlock(st.block, st.data, i \div DISK_SECTOR_SIZE), i % DISK_SECTOR_SIZE>> : i \in pos..pos+n-1}
  IN [s \in Sector |-> [i \in DOMAIN st.block[s] |-> IF <<s, i>> \in bytes THEN v ELSE st.block[s][i]]]
inode_write_at(s, pos, n, v) ==
  LET d == inode[s].data
      grown == [d EXCEPT !.length = IF @ < pos + n THEN pos + n ELSE @]
      st == AllocateBlocks(State(grown), pos \div DISK_SECTOR_SIZE, (pos + n - 1) \div DISK_SECTOR_SIZE)
  IN /\ MayWrite(inode[s])
     /\ buf' = <<>>
     /\ IF st.ok
        THEN /\ free_map' = st.map /\ block' = DataWritten(st, pos, n, v)
             /\ inode' = [inode EXCEPT ![s].data = st.data]
             /\ UNCHANGED panic
        ELSE panic' = "disk" /\ UNCHANGED <<free_map, block, inode>>
     /\ UNCHANGED <<disk_inode, linked, file>>

(* file_write and file_write_at *)
file_write(h, pos, n, v) == file[h] # NULL /\ inode_write_at(file[h].inode, pos, n, v)

file_deny_write(h) ==
  /\ file[h] # NULL /\ ~file[h].deny_write
  /\ file' = [file EXCEPT ![h].deny_write = TRUE]
  /\ inode' = [inode EXCEPT ![file[h].inode] = inode_deny_write(@)]
  /\ buf' = <<>>
  /\ UNCHANGED <<disk, panic>>

file_allow_write(h) ==
  /\ file[h] # NULL /\ file[h].deny_write
  /\ file' = [file EXCEPT ![h].deny_write = FALSE]
  /\ inode' = [inode EXCEPT ![file[h].inode] = inode_allow_write(@)]
  /\ buf' = <<>>
  /\ UNCHANGED <<disk, panic>>

(* filesys_done, which closes the free map and flushes the cache but no    *)
(* open inode, power off, and filesys_init.                                *)
Reboot ==
  /\ CleanShutdown => \A h \in Handle : file[h] = NULL
  /\ inode' = [s \in Sector |-> NULL]
  /\ file' = [h \in Handle |-> NULL]
  /\ buf' = <<>>
  /\ UNCHANGED <<disk, panic>>

----------------------------------------------------------------------------
Next ==
  /\ panic = "no"
  /\ \/ \E length \in Size : inode_create(length)
     \/ \E s \in Sector : inode_remove(s)
     \/ \E h \in Handle : \/ \E s \in Sector : file_open(h, s)
                          \/ \E g \in Handle : file_reopen(h, g)
                          \/ file_close(h)
                          \/ \E pos \in Offset, n \in Size \ {0} :
                               \/ file_read(h, pos, n)
                               \/ \E v \in Byte \ {0} : file_write(h, pos, n, v)
                          \/ file_deny_write(h) \/ file_allow_write(h)
     \/ Reboot

Spec == Init /\ [][Next]_vars

----------------------------------------------------------------------------
Live == {s \in Sector : s \in linked \/ inode[s] # NULL}
Data(s) == IF inode[s] # NULL THEN inode[s].data ELSE disk_inode[s]

(* The places of an inode that hold block pointers, and what they hold:    *)
(* <<i>> in the inode, <<INDIRECT, i>> and <<DOUBLE_INDIRECT, i>> in its   *)
(* index blocks, <<DOUBLE_INDIRECT, i, j>> one level down.                 *)
Place == LET I == 0..SECTOR_MAX-1
         IN {<<i>> : i \in 0..DIRECT_MAX+1} \cup ({INDIRECT, DOUBLE_INDIRECT} \X I)
              \cup ({DOUBLE_INDIRECT} \X I \X I)
PointerAt(d, p) ==
  LET first == IF Len(p) = 1 THEN d.ptr[p[1]] ELSE Entry(block, d.ptr[p[1]], p[2])
  IN IF Len(p) = 3 THEN Entry(block, first, p[3]) ELSE first
Owns(s) == {p \in Place : PointerAt(Data(s), p) # UNUSED_SECTOR}

(* No two pointers of the files that exist lead to the same block, none to *)
(* an inode, and every block and inode in use is marked in the free map:   *)
(* allocation, growth, close, removal and restart never hand out a sector  *)
(* that is in use.                                                         *)
BlocksOwned ==
  LET pointers == UNION {{s} \X Owns(s) : s \in Live}
      blocks == {PointerAt(Data(x[1]), x[2]) : x \in pointers}
  IN /\ TypeOK
     /\ Cardinality(blocks) = Cardinality(pointers)
     /\ blocks \cap Live = {}
     /\ blocks \cup Live \subseteq free_map \ Reserved

(* The write denials of an open inode are those of the files open on it,   *)
(* and it is in memory as long as there are such files.                    *)
OpenersCounted ==
  \A s \in Sector :
    LET H == {h \in Handle : file[h] # NULL /\ file[h].inode = s}
    IN IF H = {} THEN inode[s] = NULL
       ELSE /\ inode[s] # NULL
            /\ inode[s].open_cnt = Cardinality(H)
            /\ inode[s].deny_write_cnt = Cardinality({h \in H : file[h].deny_write})

(* What the files hold. *)
Contents(s) ==
  LET d == Data(s)
      At(i) == DataBlock(block, d, i \div DISK_SECTOR_SIZE)
  IN [i \in 1..d.length |-> IF At(i - 1) = UNUSED_SECTOR THEN 0
                           ELSE block[At(i - 1)][(i - 1) % DISK_SECTOR_SIZE]]

(* Reading returns what was last written, zeros where nothing was, and     *)
(* nothing of another file; a file keeps its contents through growth,      *)
(* close and reopen, restarts, and the removal of other files, and after   *)
(* its own removal until the last opener closes it.                        *)
Files == INSTANCE FileStore WITH
  Id <- Sector,
  None <- NULL,
  fd <- [h \in Handle |-> IF file[h] = NULL THEN NULL ELSE file[h].inode],
  file <- [s \in Sector |-> IF s \in Live THEN Contents(s) ELSE NULL]
ImplementsFiles == Files!Spec
============================================================================
