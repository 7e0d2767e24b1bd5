----------------------------- MODULE Directory -----------------------------
(***************************************************************************)
(* The directory tree: directory.c, the path walk and the create, open and *)
(* remove of filesys.c, the directory system calls of syscall.c, and the   *)
(* current directory and file descriptors of a process (process.c).        *)
(*                                                                         *)
(* A call is one step.  What an inode's blocks hold is the business of     *)
(* Inode; here a directory is the sequence of its entry slots.  The struct *)
(* inodes are counted call by call, as the code opens and closes them: a   *)
(* struct dir or file that is a local variable of the call is the count it *)
(* holds.                                                                  *)
(***************************************************************************)
EXTENDS Integers, Sequences, FiniteSets, FiniteSetsExt

CONSTANTS Process, Name,
          SECTORS, ROOT_DIR_SECTOR,
          Path,              \* what is asked for: [absolute, names]
          MIN_FILE_COUNT, MAX_FILE_COUNT,
          Parent, Self,      \* the names "..", and "." or ""
          NULL,
          MaxOpen            \* bound: on the openers of an inode

Sector == ROOT_DIR_SECTOR..SECTORS-1
Fd == MIN_FILE_COUNT..MAX_FILE_COUNT-1

ASSUME DirectoryAssumption ==
  /\ ROOT_DIR_SECTOR \in Nat /\ SECTORS \in Nat
  /\ ROOT_DIR_SECTOR \in Sector
  /\ Path \subseteq [absolute : BOOLEAN, names : Seq(Name \cup {Parent, Self})]

VARIABLES node,   \* what is on disk: the inodes and the directories' entries
          inode,  \* open_inodes, by sector
          cwd,    \* process->dir, NULL for a process that does not run
          fd,     \* process->files
          panic   \* a failed assertion or a stray reference, or "no"

vars == <<node, inode, cwd, fd, panic>>

Node == [is_dir : BOOLEAN, parent_dir : Sector \cup {NULL},
         entries : Seq({NULL} \cup [name : Name \cup {Parent, Self}, inode_sector : Sector])]

TypeOK ==
  /\ \A s \in Sector : node[s] = NULL \/ node[s] \in Node
  /\ \A s \in Sector : inode[s] = NULL \/ inode[s] \in [open_cnt : 1..MaxOpen, removed : BOOLEAN]
  /\ cwd \in [Process -> Sector \cup {NULL}]
  /\ \A p \in Process, f \in Fd : fd[p][f] = NULL \/ fd[p][f] \in [inode : Sector, pos : Nat]
  /\ panic \in {"no", "disk", "freed"}

(* do_format; run_task opens the root for the first process. *)
Init ==
  /\ node = [s \in Sector |-> IF s = ROOT_DIR_SECTOR
                              THEN [is_dir |-> TRUE, parent_dir |-> NULL, entries |-> <<>>] ELSE NULL]
  /\ \E p \in Process : cwd = [q \in Process |-> IF q = p THEN ROOT_DIR_SECTOR ELSE NULL]
  /\ inode = [s \in Sector |-> IF s = ROOT_DIR_SECTOR THEN [open_cnt |-> 1, removed |-> FALSE] ELSE NULL]
  /\ fd = [p \in Process |-> [f \in Fd |-> NULL]]
  /\ panic = "no"

----------------------------------------------------------------------------
(* A call works on a copy st of the state. *)
State == [node |-> node, inode |-> inode, panic |-> panic]

inode_open(st, s) ==
  IF s = NULL \/ st.node[s] = NULL THEN [st EXCEPT !.panic = "disk"]
  ELSE [st EXCEPT !.inode[s] = IF @ = NULL THEN [open_cnt |-> 1, removed |-> FALSE]
                               ELSE [@ EXCEPT !.open_cnt = @ + 1]]

(* inode_reopen; freed if the struct inode is not there any more *)
ReopenUncounted(st, s) == IF st.inode[s] = NULL THEN [st EXCEPT !.panic = "freed"] ELSE st
inode_reopen(st, s) ==
  IF st.inode[s] = NULL THEN [st EXCEPT !.panic = "freed"]
  ELSE [st EXCEPT !.inode[s].open_cnt = @ + 1]

(* inode_close; the last close of a removed inode frees it on disk. *)
inode_close(st, s) ==
  LET i == st.inode[s]
  IN IF i = NULL THEN [st EXCEPT !.panic = "freed"]
     ELSE IF i.open_cnt > 1 THEN [st EXCEPT !.inode[s].open_cnt = @ - 1]
     ELSE [st EXCEPT !.inode[s] = NULL, !.node[s] = IF i.removed THEN NULL ELSE @]

(* A struct dir is a reference to an inode. *)
dir_open_root(st) == inode_open(st, ROOT_DIR_SECTOR)
dir_reopen(st, d) == inode_reopen(st, d)
dir_close(st, d) == inode_close(st, d)

----------------------------------------------------------------------------
Slots(st, d) == DOMAIN st.node[d].entries
Slot(st, d, i) == st.node[d].entries[i]

(* lookup: the slot of name in d, or 0 *)
lookup(st, d, name) ==
  LET found == {i \in Slots(st, d) : Slot(st, d, i) # NULL /\ Slot(st, d, i).name = name}
  IN IF found = {} THEN 0 ELSE Min(found)

(* dir_lookup: the inode found, or NULL; "." gives the directory's own     *)
(* inode without counting it.                                              *)
dir_lookup(st, d, name) ==
  LET Found(s) == LET opened == inode_open(st, s)
                  IN [st |-> opened, found |-> IF opened.panic = "no" THEN s ELSE NULL]
  IN IF st.inode[d].removed THEN [st |-> st, found |-> NULL]
     ELSE IF name = Self THEN [st |-> st, found |-> d]
     ELSE IF name = Parent THEN Found(st.node[d].parent_dir)
     ELSE IF lookup(st, d, name) # 0 THEN Found(Slot(st, d, lookup(st, d, name)).inode_sector)
     ELSE [st |-> st, found |-> NULL]

(* dir_add: into the first free slot, or at the end *)
AddInFront(st, d, name, s) ==
  [st EXCEPT !.node[d].entries = <<[name |-> name, inode_sector |-> s]>> \o @]
dir_add(st, d, name, s) ==
  LET free == {i \in Slots(st, d) : Slot(st, d, i) = NULL}
      entry == [name |-> name, inode_sector |-> s]
  IN [st EXCEPT !.node[d].entries = IF free = {} THEN Append(@, entry) ELSE [@ EXCEPT ![Min(free)] = entry]]

(* filesys_find_dir: one turn of the walk, and the walk to the directory   *)
(* of the last name *)
Walk(w, name) ==
  LET l == dir_lookup(w.st, w.dir, name)
  IN IF l.found = NULL THEN [st |-> dir_close(l.st, w.dir), dir |-> NULL]
     ELSE IF ~l.st.node[l.found].is_dir
     THEN [st |-> inode_close(dir_close(l.st, w.dir), l.found), dir |-> NULL]
     ELSE [st |-> dir_close(l.st, w.dir), dir |-> l.found]
filesys_find_dir(st, d, names) ==
  LET walk[i \in 0..Len(names)] ==
        IF i = 0 THEN [st |-> dir_reopen(st, d), dir |-> d]
        ELSE IF walk[i-1].dir = NULL \/ walk[i-1].st.panic # "no" THEN walk[i-1]
        ELSE Walk(walk[i-1], names[i])
  IN IF names = <<>> THEN walk[0] ELSE walk[Len(names) - 1]

Final(path) == IF path.names = <<>> THEN Self ELSE path.names[Len(path.names)]

(* Where the walk starts: dir_open_root, whose dir nobody closes, or the   *)
(* current directory *)
Find(p, path) ==
  IF path.absolute
  THEN filesys_find_dir(dir_open_root(State), ROOT_DIR_SECTOR, path.names)
  ELSE filesys_find_dir(State, cwd[p], path.names)

(* The call ends with the state st. *)
Done(st) ==
  /\ \A s \in Sector : st.inode[s] # NULL => st.inode[s].open_cnt <= MaxOpen
  /\ node' = st.node /\ inode' = st.inode /\ panic' = st.panic

Fails(w) == w.dir = NULL \/ w.st.panic # "no"

----------------------------------------------------------------------------
Running(p) == cwd[p] # NULL

(* free_map_allocate, inode_create or dir_create, and dir_add; the sector  *)
(* is released if there is such a name.                                    *)
Added(st, d, name, is_dir) ==
  LET free == {s \in Sector : st.node[s] = NULL}
      new == [is_dir |-> is_dir, parent_dir |-> d, entries |-> <<>>]
  IN IF free = {} \/ name = Self \/ lookup(st, d, name) # 0 THEN st
     ELSE dir_add([st EXCEPT !.node[Min(free)] = new], d, name, Min(free))

(* The three filesys_find_and functions: w is what filesys_find_dir found. *)
filesys_find_and_create(w, name) ==
  IF Fails(w) THEN w.st
  ELSE IF w.st.inode[w.dir].removed THEN dir_close(w.st, w.dir)
  ELSE dir_close(Added(w.st, w.dir, name, FALSE), w.dir)
sys_create(p, w, name) ==
  /\ Running(p)
  /\ Done(filesys_find_and_create(w, name))
  /\ UNCHANGED <<cwd, fd>>

(* sys_mkdir: the inode it finds under the name stays open. *)
sys_mkdir(p, w, name) ==
  /\ Running(p)
  /\ LET l == dir_lookup(w.st, w.dir, name)
     IN Done(IF Fails(w) THEN w.st
             ELSE IF l.found # NULL \/ l.st.panic # "no" THEN dir_close(l.st, w.dir)
             ELSE dir_close(Added(w.st, w.dir, name, TRUE), w.dir))
  /\ UNCHANGED <<cwd, fd>>

(* process_open_file: the first free descriptor, or none *)
Descriptor(p, file) ==
  LET free == {f \in Fd : fd[p][f] = NULL}
  IN IF free = {} THEN fd ELSE [fd EXCEPT ![p][Min(free)] = file]

filesys_find_and_open(w, name) ==
  LET l == dir_lookup(w.st, w.dir, name)
  IN IF Fails(w) THEN [st |-> w.st, found |-> NULL]
     ELSE [st |-> dir_close(l.st, w.dir), found |-> l.found]

(* Without a descriptor the file stays open. *)
sys_open(p, w, name) ==
  /\ Running(p)
  /\ LET o == filesys_find_and_open(w, name)
     IN /\ Done(o.st)
        /\ fd' = IF o.found = NULL THEN fd ELSE Descriptor(p, [inode |-> o.found, pos |-> 0])
  /\ UNCHANGED cwd

dir_empty(st, d) == \A i \in Slots(st, d) : Slot(st, d, i) = NULL

(* dir_remove: the inode is opened, looked into, marked and closed. *)
RemovedFullToo(st, d, i) ==
  LET s == Slot(st, d, i).inode_sector
  IN inode_close([inode_open(st, s) EXCEPT !.node[d].entries[i] = NULL, !.inode[s].removed = TRUE], s)
RemovedStillNamed(st, d, i) ==
  LET s == Slot(st, d, i).inode_sector
  IN inode_close([inode_open(st, s) EXCEPT !.inode[s].removed = TRUE], s)
Removed(st, d, i) ==
  LET s == Slot(st, d, i).inode_sector
      opened == inode_open(st, s)
  IN IF opened.panic # "no" THEN opened
     ELSE IF s = ROOT_DIR_SECTOR \/ (st.node[s].is_dir /\ ~dir_empty(st, s)) THEN inode_close(opened, s)
     ELSE inode_close([opened EXCEPT !.node[d].entries[i] = NULL, !.inode[s].removed = TRUE], s)

filesys_find_and_remove(w, name) ==
  LET i == lookup(w.st, w.dir, name)
  IN IF Fails(w) THEN w.st
     ELSE dir_close(IF i = 0 THEN w.st ELSE Removed(w.st, w.dir, i), w.dir)
sys_remove(p, w, name) ==
  /\ Running(p)
  /\ Done(filesys_find_and_remove(w, name))
  /\ UNCHANGED <<cwd, fd>>

(* sys_chdir: the inode stays open if it is a file or where we are. *)
sys_chdir(p, w, name) ==
  /\ Running(p)
  /\ LET l == dir_lookup(w.st, w.dir, name)
         there == dir_close(l.st, w.dir)
         moves == /\ ~Fails(w) /\ l.found # NULL
                  /\ node[l.found].is_dir /\ l.found # cwd[p]
     IN /\ Done(IF Fails(w) THEN w.st ELSE IF moves THEN dir_close(there, cwd[p]) ELSE there)
        /\ cwd' = IF moves THEN [cwd EXCEPT ![p] = l.found] ELSE cwd
  /\ UNCHANGED fd

(* dir_readdir moves past the next entry in use. *)
dir_readdir(d, pos) ==
  LET left == {i \in DOMAIN node[d].entries : i > pos /\ node[d].entries[i] # NULL}
  IN IF left = {} THEN Len(node[d].entries) ELSE Min(left)
sys_readdir(p, f) ==
  /\ Running(p) /\ fd[p][f] # NULL /\ node[fd[p][f].inode].is_dir
  /\ fd' = [fd EXCEPT ![p][f].pos = dir_readdir(fd[p][f].inode, @)]
  /\ UNCHANGED <<node, inode, cwd, panic>>

sys_close(p, f) ==
  /\ Running(p) /\ fd[p][f] # NULL
  /\ Done(inode_close(State, fd[p][f].inode))
  /\ fd' = [fd EXCEPT ![p][f] = NULL]
  /\ UNCHANGED cwd

(* process_execute: the child q inherits the current directory. *)
process_execute(p, q) ==
  /\ Running(p) /\ ~Running(q)
  /\ Done(inode_reopen(State, cwd[p]))
  /\ cwd' = [cwd EXCEPT ![q] = cwd[p]]
  /\ UNCHANGED fd

(* process_exit closes the files, not the current directory. *)
process_exit(p) ==
  /\ Running(p)
  /\ LET close[f \in MIN_FILE_COUNT-1..MAX_FILE_COUNT-1] ==
           IF f < MIN_FILE_COUNT THEN State
           ELSE IF fd[p][f] = NULL THEN close[f-1] ELSE inode_close(close[f-1], fd[p][f].inode)
     IN Done(close[MAX_FILE_COUNT-1])
  /\ fd' = [fd EXCEPT ![p] = [f \in Fd |-> NULL]]
  /\ cwd' = [cwd EXCEPT ![p] = NULL]

----------------------------------------------------------------------------
Next ==
  /\ panic = "no"
  /\ \E p \in Process :
       \/ \E path \in Path :
            LET w == Find(p, path)
                name == Final(path)
            IN \/ sys_create(p, w, name) \/ sys_mkdir(p, w, name)
               \/ sys_open(p, w, name) \/ sys_remove(p, w, name) \/ sys_chdir(p, w, name)
       \/ \E f \in Fd : sys_readdir(p, f) \/ sys_close(p, f)
       \/ \E q \in Process : process_execute(p, q)
       \/ process_exit(p)

Spec == Init /\ [][Next]_vars

----------------------------------------------------------------------------
Used(d) == IF node[d] = NULL THEN {} ELSE {i \in DOMAIN node[d].entries : node[d].entries[i] # NULL}
Children(d) == {node[d].entries[i].inode_sector : i \in Used(d)}
Grown(S) == UNION {{d} \cup Children(d) : d \in S}
Reachable ==
  LET within[n \in 0..Cardinality(Sector)] ==
        IF n = 0 THEN {ROOT_DIR_SECTOR} ELSE Grown(within[n-1])
  IN within[Cardinality(Sector)]

(* The tree: the entries of the directories that paths from the root lead to *)
Tree == UNION {{<<d, node[d].entries[i]>> : i \in Used(d)} : d \in Reachable}

(* From the root, paths lead to what exists and was not removed, every     *)
(* file and directory has one name, and ".." leads back to the directory   *)
(* that holds the name: creating, removing and moving about, in every      *)
(* order, keeps the file system a tree.                                    *)
WellFormed ==
  /\ TypeOK
  /\ \A s \in Reachable : /\ node[s] # NULL
                          /\ inode[s] # NULL => ~inode[s].removed
  /\ LET tree == Tree
     IN \A e \in tree : /\ node[e[2].inode_sector].parent_dir = e[1]
                        /\ e[2].inode_sector # ROOT_DIR_SECTOR
                        /\ \A f \in tree : f[2].inode_sector = e[2].inode_sector => f = e

(* The places that refer to a struct inode between calls *)
References(s) == {<<p, 0>> : p \in {p \in Process : cwd[p] = s}} \cup
                 {x \in Process \X Fd : fd[x[1]][x[2]] # NULL /\ fd[x[1]][x[2]].inode = s}

(* A current directory or an open file never refers to a struct inode that *)
(* was freed, nor to sectors given back to the free map: an inode counts   *)
(* at least the openers it has.                                            *)
ReferencesHeld ==
  \A s \in Sector :
    References(s) # {} => /\ node[s] # NULL /\ inode[s] # NULL
                         /\ inode[s].open_cnt >= Cardinality(References(s))

(* A call adds one name to the tree or takes one away, of a file or of an  *)
(* empty directory, and leaves the rest as it is.                          *)
OneNameAtATime ==
  [][\A old \in {Tree}, new \in {Tree'} :
       /\ Cardinality(new \ old) + Cardinality(old \ new) <= 1
       /\ \A e \in old \ new : Children(e[2].inode_sector) = {}]_node

(* An entry stays in its slot until it is removed, so that a process that  *)
(* reads a directory while others change it meets every entry that is      *)
(* there throughout exactly once.                                          *)
ReaddirMeetsAll ==
  [][\A p \in Process, f \in Fd :
       (fd[p][f] # NULL /\ fd'[p][f] # NULL /\ fd[p][f].inode = fd'[p][f].inode /\ node[fd[p][f].inode].is_dir) =>
         LET d == fd[p][f].inode
             old == {node[d].entries[i] : i \in {i \in Used(d) : i <= fd[p][f].pos}}
             ahead == {node[d].entries[i] : i \in {i \in Used(d) : i > fd[p][f].pos}}
             stay == ahead \cap {node'[d].entries[i] : i \in Used(d)'}
             read == {node[d].entries[i] : i \in {i \in Used(d) : i > fd[p][f].pos /\ i <= fd'[p][f].pos}}
             ahead1 == {node'[d].entries[i] : i \in {i \in Used(d)' : i > fd'[p][f].pos}}
         IN /\ stay \ ahead1 = stay \cap read
            /\ Cardinality(read) <= 1
            /\ ahead1 \cap old = {}]_<<node, fd>>
============================================================================
