--------------------------- MODULE VirtualMemory ---------------------------
(***************************************************************************)
(* Demand paging: the frame table (frame.c), the supplementary page tables *)
(* (page.c), swap (swap.c), the page fault handler (exception.c), the      *)
(* hardware page tables (pagedir.c), loading (process.c) and memory-mapped *)
(* files (syscall.c, process.c).                                           *)
(*                                                                         *)
(* A page holds one value, and each process has three pages: one its       *)
(* program is loaded to, the first page of its stack, and one that it may  *)
(* map its file to or that the stack may grow to.  frame_table.lock is     *)
(* held from the choice of a frame until the page is in it; user programs  *)
(* run meanwhile.  The list of frames is list.c's, with its pointers,      *)
(* because a frame is pushed on it while it is still there.                *)
(***************************************************************************)
EXTENDS LinkedList, FiniteSets, FiniteSetsExt

CONSTANTS Process, Frame, Slot,
          FileLength,   \* the length of the files, in half pages
          Value,        \* what a page may hold; 0 is a page of zeros
          Code,         \* what a program is loaded with
          HEAD, TAIL    \* the sentinels of frame_table.list

Page == {"code", "stack", "map"}

ASSUME VirtualMemoryAssumption ==
  /\ Slot \subseteq Nat /\ FileLength \in Nat \ {0} /\ {0, Code} \subseteq Value

VARIABLES pagedir,     \* the frame each page is mapped to, NULL: not present
          dirty,       \* PTE_D of the page a file may be mapped to
          page_table,  \* the supplementary page tables
          memory,      \* what is in the frames
          pool,        \* the frames palloc has to give
          frame_table, \* hash: by frame, its owner and page
          list,        \* the pointers of its list of frames
          swap_table,  \* the slots marked
          swap,        \* what is in the slots
          file,        \* the first page of each process's file
          length,      \* its length, in half pages
          mmap,        \* the number of pages each process has mapped to it
          process,     \* how far each process is
          lock_file,   \* its holder, or NULL
          kpage,       \* the frame a program is being read into, or NULL
          fault,       \* the work in progress under frame_table.lock, or NULL
          panic,       \* why the model stops: a failed assertion, a stray
                       \* pointer, tables that no longer agree; or "no"
          last,        \* history: what each page was last given
          lost         \* history: pages given something while out of their frame

tables == <<pagedir, dirty, page_table>>
frames == <<pool, frame_table, list>>
swaps == <<swap_table, swap>>
files == <<file, length, mmap>>
history == <<last, lost>>
vars == <<tables, memory, frames, swaps, files, process, lock_file, kpage, fault, panic, history>>

Elem == Frame \cup {HEAD, TAIL}
FrameList == [head |-> HEAD, tail |-> TAIL]
(* struct page_table_entry; offset is NULL when file is *)
PTE == [frame : Frame \cup {NULL}, block : Slot \cup {NULL}, disk : BOOLEAN, file : BOOLEAN]

(* What each variable may be. *)
TypeOK ==
  /\ pagedir \in [Process -> [Page -> Frame \cup {NULL}]]
  /\ dirty \in [Process -> BOOLEAN]
  /\ \A p \in Process, g \in Page :
       page_table[p][g] # NULL =>
         /\ page_table[p][g] \in PTE
         /\ page_table[p][g].disk => page_table[p][g].block # NULL
  /\ memory \in [Frame -> Value]
  /\ pool \subseteq Frame
  /\ \A f \in Frame : frame_table[f] = NULL \/ frame_table[f] \in [owner : Process, page : Page]
  /\ list \in [{"next", "prev"} -> [Elem -> Elem \cup {NULL}]]
  /\ swap_table \subseteq Slot /\ swap \in [Slot -> Value]
  /\ file \in [Process -> Value] /\ length \in [Process -> Nat] /\ mmap \in [Process -> Nat]
  /\ process \in [Process -> {"new", "segment", "fill", "stack", "run", "exit"}]
  /\ lock_file \in Process \cup {NULL} /\ kpage \in Frame \cup {NULL}
  /\ \/ fault = NULL
     \/ /\ fault.process \in Process /\ fault.page \in Page /\ fault.frame \in Frame
        /\ fault.step \in {"write", "clear", "read"} /\ fault.block \in Slot \cup {NULL}
  /\ panic \in {"no", "swap", "null", "lock", "stale"}
  /\ last \in [Process -> [Page -> Value]] /\ lost \subseteq Process \X Page

Init ==
  /\ pagedir = [p \in Process |-> [g \in Page |-> NULL]]
  /\ dirty = [p \in Process |-> FALSE]
  /\ page_table = [p \in Process |-> [g \in Page |-> NULL]]
  /\ memory = [f \in Frame |-> 0]
  /\ pool = Frame
  /\ frame_table = [f \in Frame |-> NULL]
  /\ list = list_init([next |-> [e \in Elem |-> NULL], prev |-> [e \in Elem |-> NULL]], FrameList)
  /\ swap_table = {} /\ swap = [s \in Slot |-> 0]
  /\ file = [p \in Process |-> 0]
  /\ length = [p \in Process |-> FileLength]
  /\ mmap = [p \in Process |-> 0] /\ process = [p \in Process |-> "new"]
  /\ lock_file = NULL /\ kpage = NULL /\ fault = NULL /\ panic = "no"
  /\ last = [p \in Process |-> [g \in Page |-> 0]]
  /\ lost = {}

----------------------------------------------------------------------------
(* The entry a page gets in the three page_table_insert functions.  *)
page_table_insert_file(e) == [frame |-> NULL, block |-> NULL, disk |-> FALSE, file |-> TRUE]
page_table_insert_block(e, s) == [e EXCEPT !.frame = NULL, !.block = s, !.disk = TRUE]
page_table_insert_frame(e, f) ==
  [frame |-> f, block |-> NULL, disk |-> FALSE, file |-> e # NULL /\ e.file]

(* frame_table_insert: an entry that is there is reused, and pushed again. *)
frame_table_insert(p, f, g) ==
  /\ frame_table' = [frame_table EXCEPT ![f] = [owner |-> p, page |-> g]]
  /\ list' = list_push_back(list, FrameList, f)

(* frame_table_select_victim: the front of the list, put at the back *)
Victim == list_begin(list, FrameList)
frame_table_select_victim == list' = list_push_back(list_remove(list, Victim), FrameList, Victim)

(* file_write_at of a whole page; the file grows to the end of the page. *)
Lengthened(n) == IF n < 2 THEN 2 ELSE n
(* The pages of a mapping: len / PGSIZE + 1 *)
MappedPages(p) == length[p] \div 2 + 1

----------------------------------------------------------------------------
(* start_process: lock_file is held until the program is loaded. *)
Load(p) ==
  /\ process[p] = "new" /\ lock_file = NULL
  /\ lock_file' = p
  /\ process' = [process EXCEPT ![p] = "segment"]
  /\ UNCHANGED <<tables, memory, frames, swaps, files, kpage, fault, panic, history>>

(* A user program writes to a page that is present.  While the frame is    *)
(* being emptied for another page the value may not be in what was saved.  *)
Write(p, g, v) ==
  /\ process[p] = "run" /\ pagedir[p][g] # NULL
  /\ fault # NULL => fault.process # p
  /\ memory' = [memory EXCEPT ![pagedir[p][g]] = v]
  /\ dirty' = [dirty EXCEPT ![p] = @ \/ g = "map"]
  /\ last' = [last EXCEPT ![p][g] = v]
  /\ lost' = IF fault # NULL /\ fault.frame = pagedir[p][g] /\ fault.step = "clear"
             THEN lost \cup {<<p, g>>} ELSE lost \ {<<p, g>>}
  /\ UNCHANGED <<pagedir, page_table, frames, swaps, files, process, lock_file, kpage, fault, panic>>

(* Who may need a frame for g: load_segment and setup_stack for the pages  *)
(* of a new process, a running one for any page that is not present.       *)
Needs(p, g) ==
  \/ process[p] = "segment" /\ g = "code"
  \/ process[p] = "stack" /\ g = "stack"
  \/ process[p] = "run" /\ pagedir[p][g] = NULL

(* PAL_ZERO is asked for the stack. *)
Zeroed(p, g) == page_table[p][g] = NULL /\ g # "code"

Started(p, g, f, s) == [process |-> p, page |-> g, frame |-> f, step |-> s, block |-> NULL]

(* pagedir_clear_page and pagedir_set_page of the page that needs the frame *)
Mapped(p, g, f) ==
  /\ pagedir' = [pagedir EXCEPT ![p][g] = f]
  /\ dirty' = [dirty EXCEPT ![p] = @ /\ g # "map"]

(* allocate_frame and page_fault with a frame left: palloc_get_page zeroes *)
(* it on demand.                                                           *)
TakeFrame(p, g) ==
  /\ fault = NULL /\ Needs(p, g)
  /\ \E f \in pool :
       /\ pool' = pool \ {f}
       /\ memory' = IF Zeroed(p, g) THEN [memory EXCEPT ![f] = 0] ELSE memory
       /\ Mapped(p, g, f)
       /\ fault' = Started(p, g, f, "read")
  /\ UNCHANGED <<page_table, frame_table, list, swaps, files, process, lock_file, kpage, panic, history>>

(* No frame left: the victim's frame is mapped at once.  The frame table   *)
(* may still name the page of a mapping that is gone: a null pointer, or,  *)
(* if the page is in use again, an entry for another frame, and the wrong  *)
(* page is evicted.  The model stops there.                                *)
TakeVictim(p, g) ==
  /\ fault = NULL /\ Needs(p, g) /\ pool = {}
  /\ frame_table_select_victim
  /\ LET v == frame_table[Victim]
     IN IF v = NULL \/ page_table[v.owner][v.page] = NULL
        THEN panic' = "null" /\ UNCHANGED <<pagedir, dirty, fault>>
        ELSE IF page_table[v.owner][v.page].frame # Victim
        THEN panic' = "stale" /\ UNCHANGED <<pagedir, dirty, fault>>
        ELSE /\ Mapped(p, g, Victim)
             /\ fault' = Started(p, g, Victim, "write")
             /\ UNCHANGED panic
  /\ UNCHANGED <<page_table, memory, pool, frame_table, swaps, files, process, lock_file, kpage, history>>

(* The fault in progress, its victim and the victim's entry *)
Old == frame_table[fault.frame]
OldEntry == page_table[Old.owner][Old.page]

(* A mapped file's page is written to the file from the frame its entry    *)
(* names, under lock_file: a process that is loading has it already, which *)
(* lock_acquire asserts it has not.                                        *)
FileOut ==
  /\ fault # NULL /\ fault.step = "write" /\ OldEntry.file
  /\ IF lock_file = fault.process
     THEN panic' = "lock" /\ UNCHANGED <<file, length, fault>>
     ELSE /\ lock_file = NULL
          /\ file' = [file EXCEPT ![Old.owner] = memory[OldEntry.frame]]
          /\ length' = [length EXCEPT ![Old.owner] = Lengthened(@)]
          /\ fault' = [fault EXCEPT !.step = "clear"]
          /\ UNCHANGED panic
  /\ UNCHANGED <<tables, memory, frames, swaps, mmap, process, lock_file, kpage, history>>

(* swap_out to the first free slot; with no slot left the write is outside *)
(* the disk.                                                               *)
swap_out ==
  /\ fault # NULL /\ fault.step = "write" /\ ~OldEntry.file
  /\ IF Slot \subseteq swap_table
     THEN panic' = "swap" /\ UNCHANGED <<swaps, fault>>
     ELSE LET s == Min(Slot \ swap_table)
          IN /\ swap_table' = swap_table \cup {s}
             /\ swap' = [swap EXCEPT ![s] = memory[fault.frame]]
             /\ fault' = [fault EXCEPT !.step = "clear", !.block = s]
             /\ UNCHANGED panic
  /\ UNCHANGED <<tables, memory, frames, files, process, lock_file, kpage, history>>

(* The victim's entry says where its page went, and it is unmapped. *)
StillMapped ==
  /\ fault # NULL /\ fault.step = "clear"
  /\ page_table' = [page_table EXCEPT ![Old.owner][Old.page] =
                      IF @.file THEN page_table_insert_file(@) ELSE page_table_insert_block(@, fault.block)]
  /\ fault' = [fault EXCEPT !.step = "read"]
  /\ UNCHANGED <<pagedir, dirty, memory, frames, swaps, files, process, lock_file, kpage, panic, history>>
Clear ==
  /\ fault # NULL /\ fault.step = "clear"
  /\ page_table' = [page_table EXCEPT ![Old.owner][Old.page] =
                      IF @.file THEN page_table_insert_file(@) ELSE page_table_insert_block(@, fault.block)]
  /\ pagedir' = [pagedir EXCEPT ![Old.owner][Old.page] = NULL]
  /\ fault' = [fault EXCEPT !.step = "read"]
  /\ UNCHANGED <<dirty, memory, frames, swaps, files, process, lock_file, kpage, panic, history>>

(* What swap_in or file_read_at brings into the frame, and the end of the  *)
(* work under frame_table.lock.  A new page has what the frame had.  What  *)
(* is in a free slot is never read: it is 0 here.                          *)
NotReadIn(p, e, f) == memory[f]
Incoming(p, e, f) ==
  IF e = NULL THEN memory[f] ELSE IF e.disk THEN swap[e.block] ELSE file[p]
Read ==
  /\ fault # NULL /\ fault.step = "read"
  /\ LET p == fault.process
         g == fault.page
         f == fault.frame
         e == page_table[p][g]
         in == Incoming(p, e, f)
     IN /\ (e # NULL /\ e.file) => lock_file = NULL
        /\ memory' = [memory EXCEPT ![f] = in]
        /\ swap_table' = IF e # NULL /\ e.disk THEN swap_table \ {e.block} ELSE swap_table
        /\ swap' = [s \in Slot |-> IF s \in swap_table' THEN swap[s] ELSE 0]
        /\ frame_table_insert(p, f, g)
        /\ page_table' = [page_table EXCEPT ![p][g] = page_table_insert_frame(@, f)]
        /\ process' = [process EXCEPT ![p] = CASE @ = "segment" -> "fill" [] @ = "stack" -> "run" [] OTHER -> @]
        /\ lock_file' = IF process[p] = "stack" THEN NULL ELSE lock_file
        /\ kpage' = IF process[p] = "segment" THEN f ELSE kpage
        /\ last' = IF e = NULL THEN [last EXCEPT ![p][g] = in] ELSE last
  /\ fault' = NULL
  /\ UNCHANGED <<pagedir, dirty, pool, files, panic, lost>>

(* load_segment reads the program into the frame allocate_frame returned,  *)
(* wherever that frame is mapped by now.                                   *)
Emptied(p, g) == fault # NULL /\ fault.step = "clear" /\ pagedir[p][g] = fault.frame
Fill(p) ==
  /\ process[p] = "fill"
  /\ memory' = [memory EXCEPT ![kpage] = Code]
  /\ last' = [last EXCEPT ![p]["code"] = Code]
  /\ lost' = lost \cup {<<q, g>> \in Process \X Page :
                          IF <<q, g>> = <<p, "code">> THEN pagedir[q][g] # kpage \/ Emptied(q, g)
                                                      ELSE pagedir[q][g] = kpage}
  /\ kpage' = NULL
  /\ process' = [process EXCEPT ![p] = "stack"]
  /\ UNCHANGED <<tables, frames, swaps, files, lock_file, fault, panic>>

----------------------------------------------------------------------------
(* sys_mmap: refused when a page of the range has an entry *)
sys_mmap(p) ==
  /\ process[p] = "run" /\ fault = NULL /\ lock_file = NULL
  /\ page_table[p]["map"] = NULL
  /\ page_table' = [page_table EXCEPT ![p]["map"] = page_table_insert_file(@)]
  /\ mmap' = [mmap EXCEPT ![p] = MappedPages(p)]
  /\ last' = [last EXCEPT ![p]["map"] = file[p]]
  /\ lost' = lost \ {<<p, "map">>}
  /\ UNCHANGED <<pagedir, dirty, memory, frames, swaps, file, length, process, lock_file, kpage, fault, panic>>

(* mmap_write_back: a page that is in a frame and dirty is written, and    *)
(* its frame leaves the frame table.  The pages are counted anew: one that *)
(* was not there when the file was mapped has no entry.                    *)
NeverDirty(p) == FALSE
DirtyMap(p) == mmap[p] > 0 /\ pagedir[p]["map"] # NULL /\ dirty[p]
MissingEntry(p) == mmap[p] > 0 /\ MappedPages(p) > mmap[p]
mmap_write_back(p) ==
  IF DirtyMap(p)
  THEN /\ file' = [file EXCEPT ![p] = memory[pagedir[p]["map"]]]
       /\ length' = [length EXCEPT ![p] = Lengthened(@)]
       /\ list' = list_remove(list, pagedir[p]["map"])
  ELSE UNCHANGED <<file, length, list>>

(* The struct mmap of a process, and its end *)
mmap_find(p) == mmap[p] > 0
mmap_free(p) == mmap' = [mmap EXCEPT ![p] = 0]

sys_munmap(p) ==
  /\ process[p] = "run" /\ fault = NULL /\ lock_file = NULL /\ mmap_find(p)
  /\ mmap_write_back(p)
  /\ frame_table' = IF DirtyMap(p) THEN [frame_table EXCEPT ![pagedir[p]["map"]] = NULL] ELSE frame_table
  /\ pagedir' = [pagedir EXCEPT ![p]["map"] = NULL]
  /\ page_table' = [page_table EXCEPT ![p]["map"] = NULL]
  /\ mmap_free(p)
  /\ panic' = IF MissingEntry(p) THEN "null" ELSE panic
  /\ UNCHANGED <<dirty, memory, pool, swaps, process, lock_file, kpage, fault, history>>

(* process_exit: the mappings are written back, then page_table_free drops *)
(* the frame table entries of the pages in frames but not their list       *)
(* elements, and marks the slots of the others; pagedir_destroy frees the  *)
(* frames.  Once the list has freed elements the model stops.              *)
pagedir_destroy(p, left) ==
  /\ pool' = pool \cup left
  /\ pagedir' = [pagedir EXCEPT ![p] = [g \in Page |-> NULL]]
process_exit(p) ==
  LET kept == {g \in Page : pagedir[p][g] # NULL /\ ~(g = "map" /\ mmap_find(p))}
      left == {pagedir[p][g] : g \in kept}
  IN /\ process[p] = "run" /\ fault = NULL /\ lock_file = NULL
     /\ mmap_write_back(p)
     /\ frame_table' = [f \in Frame |->
          IF f \in left \/ (DirtyMap(p) /\ f = pagedir[p]["map"]) THEN NULL ELSE frame_table[f]]
     /\ pagedir_destroy(p, left)
     /\ page_table' = [page_table EXCEPT ![p] = [g \in Page |-> NULL]]
     /\ mmap_free(p)
     /\ panic' = IF MissingEntry(p) THEN "null" ELSE IF left # {} THEN "stale" ELSE panic
     /\ process' = [process EXCEPT ![p] = "exit"]
     /\ UNCHANGED <<dirty, memory, swaps, lock_file, kpage, fault, history>>

Next ==
  /\ panic = "no"
  /\ \/ \E p \in Process :
          \/ Load(p) \/ Fill(p)
          \/ sys_mmap(p) \/ sys_munmap(p) \/ process_exit(p)
          \/ \E g \in Page : TakeFrame(p, g) \/ TakeVictim(p, g) \/ \E v \in Value : Write(p, g, v)
     \/ FileOut \/ swap_out \/ Clear \/ Read
Spec == Init /\ [][Next]_vars

----------------------------------------------------------------------------
Quiet == fault = NULL /\ panic = "no"

(* When nothing holds frame_table.lock, three tables agree: a page is      *)
(* present exactly when its entry names a frame, it is that frame, and the *)
(* frame table gives the frame to that page, so that no two pages share    *)
(* one and palloc cannot give it again.  A page that is absent is in swap  *)
(* or in a file, so page_fault never reaches its last branch, kill.        *)
MapsAgree ==
  \A p \in Process, g \in Page :
    LET e == page_table[p][g]
    IN /\ pagedir[p][g] # NULL =>
            /\ e # NULL /\ e.frame = pagedir[p][g] /\ e.frame \notin pool
            /\ frame_table[e.frame] = [owner |-> p, page |-> g]
       /\ e # NULL /\ pagedir[p][g] = NULL => e.frame = NULL /\ (e.disk \/ e.file)

(* A slot holds one page: the slots of the pages in swap are marked, so    *)
(* that swap_out does not take them, and no two pages have the same.       *)
SlotsOwned ==
  LET Swapped == {<<p, g>> \in Process \X Page : page_table[p][g] # NULL /\ page_table[p][g].disk}
      Block(x) == page_table[x[1]][x[2]].block
  IN /\ \A x \in Swapped : Block(x) \in swap_table
     /\ \A x, y \in Swapped : Block(x) = Block(y) => x = y

(* Every frame in use waits in the list to be a victim, although it is     *)
(* pushed on it twice when a page is brought in: the frame then follows    *)
(* itself, and the next list_pop_front or list_push_back mends that.       *)
InList[n \in Nat] ==
  IF n = 0 THEN {Victim} ELSE InList[n - 1] \cup {list.next[e] : e \in InList[n - 1] \ {TAIL}}
EveryFrameWaits ==
  {f \in Frame : frame_table[f] # NULL} \subseteq InList[Cardinality(Frame)]

(* All the tables agree whenever nothing holds frame_table.lock: evictions,*)
(* faults, mappings and exits in every order leave the page directories,   *)
(* the entries, the frame table, its list and the swap slots consistent.   *)
TablesAgree == TypeOK /\ (Quiet => MapsAgree /\ SlotsOwned /\ EveryFrameWaits)

(* What a page holds, in its frame, in swap or in its file *)
Content(p, g) ==
  LET e == page_table[p][g]
  IN IF pagedir[p][g] # NULL THEN memory[pagedir[p][g]] ELSE IF e.disk THEN swap[e.block] ELSE file[p]
Holds(p, g) == page_table[p][g] # NULL => Content(p, g) = last[p][g]

(* However often it is evicted, a page holds what its process last wrote   *)
(* to it or load put there, except what was written between the copy of    *)
(* its frame and the moment it was unmapped.                               *)
PagesKept == Quiet => \A x \in (Process \X Page) \ lost : Holds(x[1], x[2])

(* Unmapping a file, or exiting, leaves in it what was last written to the *)
(* mapping, whether the page was evicted before or not.                    *)
MappingSaved ==
  [][mmap' # mmap => \A p \in Process :
       mmap[p] > 0 /\ mmap'[p] = 0 /\ <<p, "map">> \notin lost => file'[p] = last[p]["map"]]_vars

(* swap.c: "The process should have the illusion that they still have the  *)
(* page allocated to them."                                                *)
Illusion == Quiet => \A p \in Process, g \in Page : Holds(p, g)

============================================================================
