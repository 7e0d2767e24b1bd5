--------------------------- MODULE ProcessSteps ----------------------------
(***************************************************************************)
(* The inductive invariant of Process, and that it is preserved by the     *)
(* steps of process_execute in the parent, of a load, of the system calls  *)
(* and of process_exit up to the locks that the parent waits for.          *)
(***************************************************************************)
EXTENDS Process, TLAPS

USE SMTT(30), Zenon

(* Past the last use that a process makes of its struct process *)
Gone == {"exit_thread", "dead"}

(* From when to when a process may hold its own lock_exec, and does hold   *)
(* its own lock_wait                                                       *)
HoldsExec == {"start_wait", "start_file", "load", "load_frames", "loaded",
              "exit_vm", "exit_frames", "exit_flag", "exit_exec"}
HoldsWait == PCs \ ({"none", "start", "start_wait"} \cup Gone)

(* c is a child of p, or p is in a call about it. *)
Concerned(p, c) == c \in children[p] \/ arg[p] = c

(* A struct process is there once its process is, and until it is gone. *)
PagesOK ==
  /\ pc[Root] # "none"
  /\ \A c \in Proc : /\ page[c] = "none" <=> pc[c] = "none"
                     /\ page[c] = "freed" => pc[c] \in Gone

(* load is set once the load is over, exit in process_exit. *)
FlagsOK ==
  \A c \in Proc :
    /\ load[c] => pc[c] \notin StartPCs \cup {"none"}
    /\ exit[c] => pc[c] \in {"exit_exec", "exit_close", "exit_files", "exit_wait"} \cup Gone

(* The child a call is about: process_execute has entered it in the list   *)
(* of children, process_wait has found it there.                           *)
ArgOK ==
  \A p \in Proc :
    /\ pc[p] = "find" => arg[p] \in Proc
    /\ pc[p] \in (ExecPCs \ {"find"}) \cup WaitPCs => arg[p] \in children[p]
    /\ pc[p] \in StartPCs \cup CallPCs \cup {"none", "user"} => arg[p] = NULL
    /\ pc[p] = "reap" => pc[arg[p]] \in Gone

(* A child has one parent, which is another process and has not reaped it. *)
FamilyOK ==
  \A p, c \in Proc : Concerned(p, c) =>
    /\ page[c] = "used" /\ c # p /\ c # Root
    /\ \A q \in Proc : Concerned(q, c) => q = p

(* lock_exec and lock_wait of a process are held by itself or by the       *)
(* process in a call about it.                                             *)
OwnLocksOK ==
  \A c, p \in Proc :
    /\ lock_exec[c] = p =>
         \/ p = c /\ pc[p] \in HoldsExec /\ (load[p] => pc[p] = "exit_exec")
         \/ pc[p] = "exec_loop" /\ arg[p] = c
    /\ lock_wait[c] = p =>
         \/ p = c /\ pc[p] \in HoldsWait
         \/ pc[p] = "wait_loop" /\ arg[p] = c

(* A process holds its lock_wait from its start to its exit, so that its   *)
(* parent can have it only before and after.                               *)
WaitHeld ==
  \A c \in Proc :
    /\ c # Root /\ pc[c] \in HoldsWait => lock_wait[c] = c
    /\ pc[c] = "wait_loop" => lock_wait[arg[c]] = c

(* lock_file and frame_table.lock *)
SharedOK ==
  \A p \in Proc :
    /\ lock_file = p => pc[p] \in {"load", "load_frames", "syscall", "syscall_fault",
                                   "exit_vm", "exit_frames"}
    /\ lock_frame = p => pc[p] \in {"map_file", "exit_frames"}

(* Who waits for a condition is in cond_wait. *)
CondsOK ==
  \A c, p \in Proc :
    /\ cond_load_done[c] = p => pc[p] = "exec_lock" /\ arg[p] = c
    /\ cond_exit[c] = p => pc[p] = "wait_lock" /\ arg[p] = c

(* The inductive invariant *)
IInv == /\ TypeOK /\ PagesOK /\ FlagsOK /\ ArgOK /\ FamilyOK
        /\ OwnLocksOK /\ WaitHeld /\ SharedOK /\ CondsOK

----------------------------------------------------------------------------
(* What a step of p leaves alone that only goes on to b, sets flags of p   *)
(* and takes or releases lock_file, frame_table.lock or cache_table.lock   *)
Ties == <<arg, page, children, lock_exec, lock_wait, cond_load_done, cond_exit>>

SharedPCs == {"load", "load_frames", "syscall", "syscall_fault", "exit_vm", "exit_frames"}
FramePCs == {"map_file", "exit_frames"}
ExitedPCs == {"exit_exec", "exit_close", "exit_files", "exit_wait"} \cup Gone
NoCallPCs == StartPCs \cup CallPCs \cup {"user"}

(* Such a step keeps the invariant if p does not leave a call about a      *)
(* child, goes on holding its own locks and gives up the shared ones.      *)
LEMMA MoveKeeps ==
  ASSUME IInv, TypeOK', NEW p \in Proc,
         \A u \in Proc : u # p => /\ pc'[u] = pc[u]
                                  /\ load'[u] = load[u] /\ exit'[u] = exit[u],
         UNCHANGED Ties,
         pc[p] \notin {"none", "exec_lock", "exec_loop", "wait_lock", "wait_loop"},
         pc'[p] # "none",
         pc[p] \in Gone => pc'[p] \in Gone,
         pc[p] \in HoldsWait <=> pc'[p] \in HoldsWait,
         pc'[p] \in ExecPCs \cup WaitPCs => pc[p] = "inherit" /\ pc'[p] = "exec_lock",
         pc'[p] \in NoCallPCs => pc[p] \in NoCallPCs,
         lock_exec[p] = p => pc'[p] \in HoldsExec /\ (load'[p] => pc'[p] = "exit_exec"),
         load'[p] => pc'[p] \notin StartPCs,
         exit'[p] => pc'[p] \in ExitedPCs,
         lock_file' \in {lock_file, p, NULL}, lock_file' = p => pc'[p] \in SharedPCs,
         lock_frame' \in {lock_frame, p, NULL}, lock_frame' = p => pc'[p] \in FramePCs
  PROVE  IInv'
<1>1. /\ TypeOK /\ PagesOK /\ FlagsOK /\ ArgOK /\ FamilyOK
      /\ OwnLocksOK /\ WaitHeld /\ SharedOK /\ CondsOK
  BY DEF IInv
<1>2. /\ arg' = arg /\ page' = page /\ children' = children /\ lock_exec' = lock_exec
      /\ lock_wait' = lock_wait /\ cond_load_done' = cond_load_done /\ cond_exit' = cond_exit
  BY DEF Ties
<1>3. PagesOK'
  BY <1>1, <1>2, ProcessAssumption DEF PagesOK, Gone
<1>4. FlagsOK'
  BY <1>1 DEF FlagsOK, StartPCs, ExitedPCs
<1>5. ArgOK'
  <2>1. ASSUME NEW u \in Proc, u # p PROVE arg[u] \in Proc => (pc[arg[u]] \in Gone => pc'[arg[u]] \in Gone)
    OBVIOUS
  <2>2. children \in [Proc -> SUBSET Proc]
    BY <1>1 DEF TypeOK
  <2>3. QED
    BY <1>1, <1>2, <2>1, <2>2 DEF ArgOK, NoCallPCs, ExecPCs, WaitPCs, StartPCs, CallPCs
<1>6. FamilyOK'
  BY <1>1, <1>2 DEF FamilyOK, Concerned
<1>7. OwnLocksOK'
  BY <1>1, <1>2 DEF OwnLocksOK
<1>8. WaitHeld'
  BY <1>1, <1>2 DEF WaitHeld, WaitPCs
<1>9. SharedOK'
  BY <1>1, ProcessAssumption DEF SharedOK, SharedPCs, FramePCs
<1>10. CondsOK'
  BY <1>1, <1>2 DEF CondsOK
<1>11. QED
  BY <1>3, <1>4, <1>5, <1>6, <1>7, <1>8, <1>9, <1>10 DEF IInv

(* What the invariant says of p itself, outside the loop of exec *)
LEMMA Itself ==
  ASSUME IInv, NEW p \in Proc, pc[p] # "exec_loop"
  PROVE  /\ pc[p] \in PCs /\ pc \in [Proc -> PCs]
         /\ lock_exec[p] = p => pc[p] \in HoldsExec /\ (load[p] => pc[p] = "exit_exec")
         /\ load[p] => pc[p] \notin StartPCs
         /\ exit[p] => pc[p] \in ExitedPCs
         /\ lock_file = p => pc[p] \in SharedPCs
         /\ lock_frame = p => pc[p] \in FramePCs
         /\ load \in [Proc -> BOOLEAN] /\ exit \in [Proc -> BOOLEAN]
  BY DEF IInv, TypeOK, OwnLocksOK, FlagsOK, SharedOK, ExitedPCs, SharedPCs, FramePCs

----------------------------------------------------------------------------

(* process_execute passes the directory on to the child. *)
LEMMA InheritStep ==
  ASSUME IInv, NEW p \in Proc, ExecInherit(p)
  PROVE  IInv'
<1>1. TypeOK /\ pc \in [Proc -> PCs]
  BY DEF IInv, TypeOK
<1>2. /\ pc[p] = "inherit" /\ pc'[p] = "exec_lock" /\ \A u \in Proc : u # p => pc'[u] = pc[u]
      /\ UNCHANGED Ties /\ UNCHANGED <<load, exit, lock_file, lock_frame>>
  BY <1>1 DEF ExecInherit, At, Goto, Ties, flags, locks, shared, conds
<1>3. TypeOK'
  BY <1>1, Zenon DEF TypeOK, ExecInherit, Goto, Set, flags, locks, shared, conds, PCs, ExecPCs
<1>4. QED
  BY <1>2, <1>3, Itself, MoveKeeps
     DEF PCs, ExecPCs, StartPCs, WaitPCs, ExitPCs, CallPCs, NoCallPCs, ExitedPCs, HoldsExec, HoldsWait,
         Gone, SharedPCs, FramePCs

(* start_process from the call of load on: lock_file is taken, the program *)
(* is loaded, or is not there, or the process ends.                        *)
LEMMA LoadStep ==
  ASSUME IInv, NEW p \in Proc,
         \/ StartFile(p) \/ LoadFault(p)
         \/ \E relative, found \in BOOLEAN : Load(p, relative, found)
         \/ \E ok \in BOOLEAN : LoadFrames(p, ok)
  PROVE  IInv'
<1> USE DEF StartFile, LoadFault, Load, LoadFrames
<1>1. TypeOK /\ pc \in [Proc -> PCs]
  BY DEF IInv, TypeOK
<1>2. \A u \in Proc : u # p => pc'[u] = pc[u]
  BY <1>1 DEF Goto, Die
<1>3. UNCHANGED Ties /\ UNCHANGED <<load, exit, lock_frame>>
  BY DEF Ties, flags, links, locks, shared, conds
<1>4. /\ pc[p] \in {"start_file", "load", "load_frames"}
      /\ \/ pc'[p] = "loaded" /\ lock_file' = NULL
         \/ pc'[p] \in {"load", "load_frames", "exit_vm"} /\ lock_file' \in {p, lock_file}
  BY <1>1 DEF At, Goto, Die, locks, shared
<1>5. TypeOK'
  <2>1. pc' \in [Proc -> PCs]
    BY <1>1, ProcessAssumption DEF Goto, Die, PCs, StartPCs, ExitPCs
  <2>2. success' \in [Proc -> BOOLEAN] /\ status' \in [Proc -> Status \cup {PID_ERROR}]
    BY <1>1 DEF TypeOK, Die, Set, flags
  <2>3. UNCHANGED <<alive, dir, lock_cache, result>>
    BY DEF links, locks, shared
  <2>4. QED
    BY <2>1, <2>2, <2>3, <1>1, <1>3, <1>4 DEF TypeOK, Ties
<1> HIDE DEF StartFile, LoadFault, Load, LoadFrames
<1>6. QED
  BY <1>2, <1>3, <1>4, <1>5, Itself, MoveKeeps, ProcessAssumption
     DEF PCs, ExecPCs, StartPCs, WaitPCs, ExitPCs, CallPCs, NoCallPCs, ExitedPCs, HoldsExec, HoldsWait,
         Gone, SharedPCs, FramePCs

(* File and mapping system calls, a fault in one of them, and the ends of  *)
(* a process in user code                                                  *)
LEMMA CallStep ==
  ASSUME IInv, NEW p \in Proc,
         \/ Syscall(p) \/ FaultReturn(p) \/ FaultExit(p) \/ MapFrames(p) \/ get_pointer(p)
         \/ \E io \in BOOLEAN : SyscallReturn(p, io) \/ MapFile(p, io)
         \/ \E present \in BOOLEAN : SyscallFault(p, present)
         \/ \E s \in Status \cup {PID_ERROR} : Exit(p, s)
  PROVE  IInv'
<1> USE DEF Syscall, FaultReturn, FaultExit, MapFrames, get_pointer, SyscallReturn, MapFile,
            SyscallFault, Exit
<1>1. TypeOK /\ pc \in [Proc -> PCs]
  BY DEF IInv, TypeOK
<1>2. \A u \in Proc : u # p => pc'[u] = pc[u]
  BY <1>1 DEF Goto, Die
<1>3. UNCHANGED Ties /\ UNCHANGED <<load, exit>>
  BY DEF Ties, flags, links, locks, shared, conds
<1>4. pc[p] \in {"user", "syscall", "syscall_fault", "map_file"}
  BY Zenon DEF At
<1>5. \/ /\ pc[p] # "map_file" /\ pc'[p] \in {"syscall", "syscall_fault", "exit_vm"}
         /\ lock_file' \in {p, lock_file} /\ lock_frame' = lock_frame
      \/ pc[p] # "map_file" /\ pc'[p] = "user" /\ lock_file' = NULL /\ lock_frame' = lock_frame
      \/ pc[p] = "map_file" /\ pc'[p] = "user" /\ lock_file' = lock_file /\ lock_frame' = NULL
      \/ pc[p] = "user" /\ pc'[p] = "map_file" /\ lock_file' = lock_file /\ lock_frame' = p
  <2>1. CASE Syscall(p) \/ \E present \in BOOLEAN : SyscallFault(p, present)
    BY <2>1, <1>1 DEF At, Goto, Die
  <2>2. CASE FaultReturn(p) \/ \E io \in BOOLEAN : SyscallReturn(p, io)
    BY <2>2, <1>1 DEF At, Goto
  <2>3. CASE MapFrames(p) \/ \E io \in BOOLEAN : MapFile(p, io)
    BY <2>3, <1>1 DEF At, Goto
  <2>4. CASE FaultExit(p) \/ get_pointer(p) \/ \E s \in Status \cup {PID_ERROR} : Exit(p, s)
    BY <2>4, <1>1 DEF At, Goto, Die, locks, shared
  <2>5. QED
    BY <2>1, <2>2, <2>3, <2>4, Zenon
<1>6. TypeOK'
  <2>1. pc' \in [Proc -> PCs] /\ {lock_file', lock_frame'} \subseteq Proc \cup {NULL}
    BY <1>1, <1>5 DEF TypeOK, Goto, Die, PCs, CallPCs, ExitPCs
  <2>2. status' \in [Proc -> Status \cup {PID_ERROR}] /\ lock_cache' \in Proc \cup {NULL}
    BY <1>1 DEF TypeOK, Die, Set, flags, locks, shared
  <2>3. UNCHANGED <<success, alive, dir, result>>
    BY DEF flags, links
  <2>4. QED
    BY <2>1, <2>2, <2>3, <1>1, <1>3 DEF TypeOK, Ties
<1> HIDE DEF Syscall, FaultReturn, FaultExit, MapFrames, get_pointer, SyscallReturn, MapFile,
             SyscallFault, Exit
<1>7. QED
  BY <1>2, <1>3, <1>4, <1>5, <1>6, Itself, MoveKeeps, ProcessAssumption
     DEF PCs, ExecPCs, StartPCs, WaitPCs, ExitPCs, CallPCs, NoCallPCs, ExitedPCs, HoldsExec, HoldsWait,
         Gone, SharedPCs, FramePCs

(* process_exit, but for what it does under lock_exec and lock_wait *)
LEMMA ExitStep ==
  ASSUME IInv, NEW p \in Proc,
         \/ ExitFrames(p) \/ ExitFlag(p) \/ ExitThread(p)
         \/ \E io \in BOOLEAN : ExitVM(p, io) \/ ExitClose(p, io)
  PROVE  IInv'
<1> USE DEF ExitFrames, ExitFlag, ExitThread, ExitVM, ExitClose
<1>1. TypeOK /\ pc \in [Proc -> PCs]
  BY DEF IInv, TypeOK
<1>2. \A u \in Proc : u # p => pc'[u] = pc[u] /\ load'[u] = load[u] /\ exit'[u] = exit[u]
  BY <1>1 DEF TypeOK, Goto, Set, flags
<1>3. UNCHANGED Ties
  BY Zenon DEF Ties, flags, links, locks, shared, conds
<1>4. \/ pc[p] = "exit_vm" /\ pc'[p] = "exit_frames" /\ lock_file' = lock_file /\ lock_frame' = p
      \/ pc[p] = "exit_frames" /\ pc'[p] = "exit_flag" /\ lock_file' = NULL /\ lock_frame' = NULL
      \/ /\ \/ pc[p] = "exit_flag" /\ pc'[p] \in {"exit_exec", "exit_close", "exit_files"}
            \/ pc[p] \in {"exit_close", "exit_files"} /\ pc'[p] \in {"exit_files", "exit_wait"}
            \/ pc[p] = "exit_thread" /\ pc'[p] = "dead"
         /\ lock_file' = lock_file /\ lock_frame' = lock_frame
  BY <1>1, Zenon DEF At, Goto, locks, shared
<1>5. /\ lock_exec[p] = p => pc'[p] \in HoldsExec /\ (load'[p] => pc'[p] = "exit_exec")
      /\ exit'[p] => pc'[p] \in ExitedPCs
  <2>1. CASE ExitFlag(p)
    <3>1. pc[p] = "exit_flag" /\ (~load[p] => pc'[p] = "exit_exec")
      BY <2>1, <1>1 DEF At, Goto
    <3>2. QED
      BY <3>1, <1>4, Itself DEF HoldsExec, ExitedPCs
  <2>2. CASE ~ExitFlag(p)
    <3>1. pc[p] # "exit_flag" /\ load' = load /\ exit' = exit
      BY <2>2, Zenon DEF At, flags
    <3>2. QED
      BY <3>1, <1>4, Itself DEF HoldsExec, ExitedPCs, Gone
  <2>3. QED
    BY <2>1, <2>2, Zenon
<1>6. TypeOK'
  <2>1. pc' \in [Proc -> PCs]
    BY <1>1, Zenon DEF Goto, PCs, ExitPCs
  <2>5. {lock_file', lock_frame'} \subseteq Proc \cup {NULL}
    BY <1>1, <1>4 DEF TypeOK
  <2>2. load' \in [Proc -> BOOLEAN] /\ exit' \in [Proc -> BOOLEAN] /\ alive' \subseteq Proc
    BY <1>1, Zenon DEF TypeOK, Set, flags, links
  <2>3. UNCHANGED <<success, status, lock_cache, dir, result>>
    BY Zenon DEF flags, links, locks, shared
  <2>4. QED
    BY <2>1, <2>2, <2>3, <2>5, <1>1, <1>3 DEF TypeOK, Ties
<1> HIDE DEF ExitFrames, ExitFlag, ExitThread, ExitVM, ExitClose
<1>7. QED
  BY <1>2, <1>3, <1>4, <1>5, <1>6, Itself, MoveKeeps, ProcessAssumption
     DEF PCs, ExecPCs, StartPCs, WaitPCs, ExitPCs, CallPCs, NoCallPCs, ExitedPCs, HoldsExec, HoldsWait,
         Gone, SharedPCs, FramePCs

----------------------------------------------------------------------------
(* process_execute failed, or process_wait was asked for a pid that is no  *)
(* child: back at once.                                                    *)
LEMMA ReturnStep ==
  ASSUME IInv, NEW p \in Proc, pc[p] = "user", Return(p, PID_ERROR),
         UNCHANGED <<flags, links, locks, conds>>
  PROVE  IInv'
<1>1. TypeOK /\ arg[p] = NULL
  BY DEF IInv, ArgOK
<1>2. arg' = arg /\ pc' = pc
  BY <1>1 DEF TypeOK, Return, Goto, Set
<1>3. UNCHANGED Ties /\ UNCHANGED <<load, exit, lock_file, lock_frame>>
  BY <1>2 DEF Ties, flags, links, locks, shared, conds
<1>4. TypeOK'
  BY <1>1, <1>2 DEF TypeOK, Return, Set, flags, links, locks, shared, conds
<1>5. QED
  BY <1>2, <1>3, <1>4, Itself, MoveKeeps
     DEF PCs, ExecPCs, StartPCs, WaitPCs, ExitPCs, CallPCs, NoCallPCs, ExitedPCs, HoldsExec, HoldsWait,
         Gone, SharedPCs, FramePCs

(* process_execute: the child is made, and the call is about it. *)
LEMMA ExecStep ==
  ASSUME IInv, NEW p \in Proc, NEW c \in Proc, Exec(p, c)
  PROVE  IInv'
<1>1. /\ TypeOK /\ PagesOK /\ FlagsOK /\ ArgOK /\ FamilyOK
      /\ OwnLocksOK /\ WaitHeld /\ SharedOK /\ CondsOK
  BY DEF IInv
<1>2. /\ pc[p] = "user" /\ pc[c] = "none" /\ page[c] = "none" /\ c # p /\ c # Root
      /\ arg[p] = NULL /\ arg[c] = NULL
  BY <1>1 DEF Exec, MayExec, At, PagesOK, ArgOK
<1>3. /\ pc'[p] = "find" /\ pc'[c] = "start" /\ \A u \in Proc : u \notin {p, c} => pc'[u] = pc[u]
      /\ arg'[p] = c /\ \A u \in Proc : u # p => arg'[u] = arg[u]
      /\ page'[c] = "used" /\ \A u \in Proc : u # c => page'[u] = page[u]
  BY <1>1, <1>2 DEF TypeOK, Exec, Set
<1>4. UNCHANGED <<flags, children, dir, locks, conds, result>>
  BY DEF Exec
<1>5. TypeOK'
  BY <1>1, <1>4 DEF TypeOK, Exec, Set, PCs, ExecPCs, StartPCs, flags, locks, shared, conds
<1>6. PagesOK'
  BY <1>1, <1>2, <1>3, ProcessAssumption DEF PagesOK, Gone
<1>7. FlagsOK'
  BY <1>1, <1>2, <1>3, <1>4, Zenon DEF FlagsOK, flags, Gone, StartPCs
<1>8. ArgOK'
  <2>1. ASSUME NEW u \in Proc, u \notin {p, c}
        PROVE  pc[u] = "reap" => pc'[arg[u]] \in Gone
    <3>1. children \in [Proc -> SUBSET Proc]
      BY <1>1 DEF TypeOK
    <3>2. QED
      BY <2>1, <3>1, <1>1, <1>2, <1>3 DEF ArgOK, Gone, WaitPCs
  <2>2. children' = children
    BY <1>4
  <2>3. ASSUME NEW u \in Proc, u \notin {p, c}
        PROVE  /\ pc'[u] = "find" => arg'[u] \in Proc
               /\ pc'[u] \in (ExecPCs \ {"find"}) \cup WaitPCs => arg'[u] \in children'[u]
               /\ pc'[u] \in StartPCs \cup CallPCs \cup {"none", "user"} => arg'[u] = NULL
               /\ pc'[u] = "reap" => pc'[arg'[u]] \in Gone
    BY <2>1, <2>2, <2>3, <1>1, <1>3 DEF ArgOK
  <2>4. QED
    BY <2>3, <1>2, <1>3 DEF ArgOK, ExecPCs, WaitPCs, StartPCs, CallPCs
<1>9. FamilyOK'
  <2>1. ASSUME NEW q \in Proc, NEW x \in Proc
        PROVE  Concerned(q, x)' => Concerned(q, x) \/ (q = p /\ x = c)
    BY <1>3, <1>4 DEF Concerned
  <2>2. \A q \in Proc : ~Concerned(q, c)
    BY <1>1, <1>2, Zenon DEF FamilyOK
  <2>3. QED
    BY <2>1, <2>2, <1>1, <1>2, <1>3 DEF FamilyOK
<1>10. OwnLocksOK'
  <2>1. "user" \notin HoldsExec /\ "none" \notin HoldsExec \cup HoldsWait /\ "find" \in HoldsWait
    BY DEF HoldsExec, HoldsWait, PCs, ExecPCs, Gone
  <2>2. QED
    BY <2>1, <1>1, <1>2, <1>3, <1>4 DEF OwnLocksOK, locks, flags
<1>11. WaitHeld'
  <2>1. "user" \in HoldsWait /\ "start" \notin HoldsWait
    BY DEF HoldsWait, PCs, Gone
  <2>2. \A u \in Proc : u # p => (pc'[u] = "wait_loop" => pc[u] = "wait_loop" /\ arg'[u] = arg[u])
    BY <1>3
  <2>3. QED
    BY <2>1, <2>2, <1>1, <1>2, <1>3, <1>4 DEF WaitHeld, locks
<1>12. SharedOK'
  BY <1>1, <1>2, <1>3, <1>4 DEF SharedOK, locks, shared
<1>13. CondsOK'
  BY <1>1, <1>2, <1>3, <1>4 DEF CondsOK, conds
<1>14. QED
  BY <1>5, <1>6, <1>7, <1>8, <1>9, <1>10, <1>11, <1>12, <1>13 DEF IInv

(* process_execute finds the child and enters it in its list, or ends with *)
(* a null pointer.                                                         *)
LEMMA FindStep ==
  ASSUME IInv, NEW p \in Proc, ExecFind(p)
  PROVE  IInv'
<1>1. /\ TypeOK /\ PagesOK /\ FlagsOK /\ ArgOK /\ FamilyOK
      /\ OwnLocksOK /\ WaitHeld /\ SharedOK /\ CondsOK
  BY Zenon DEF IInv
<1>2. pc[p] = "find" /\ arg[p] \in Proc
  BY <1>1 DEF ExecFind, At, ArgOK
<1>3. UNCHANGED <<arg, load, success, exit, alive, page, dir, locks, conds, result>>
  BY DEF ExecFind
<1>4. CASE get_thread(arg[p])
  <2>1. /\ pc'[p] = "inherit" /\ \A u \in Proc : u # p => pc'[u] = pc[u]
        /\ children'[p] = children[p] \cup {arg[p]}
        /\ \A u \in Proc : u # p => children'[u] = children[u]
    BY <1>4, <1>1 DEF ExecFind, TypeOK, Goto
  <2>2. TypeOK'
    <3>1. pc' \in [Proc -> PCs] /\ children' \in [Proc -> SUBSET Proc]
      BY <1>4, <1>1, <1>2 DEF ExecFind, TypeOK, Goto, PCs, ExecPCs
    <3>2. status' = status
      BY <1>4, Zenon DEF ExecFind
    <3>3. QED
      BY <3>1, <3>2, <1>1, <1>3 DEF TypeOK, locks, shared, conds
  <2>3. PagesOK'
    BY <2>1, <1>1, <1>2, <1>3, ProcessAssumption DEF PagesOK, Gone
  <2>4. FlagsOK'
    BY <2>1, <1>1, <1>2, <1>3 DEF FlagsOK, StartPCs, Gone
  <2>5. ArgOK'
    <3>1. children \in [Proc -> SUBSET Proc]
      BY <1>1 DEF TypeOK
    <3>2. \A u \in Proc : pc[u] = "reap" => u # p /\ arg[u] \in Proc /\ pc'[arg[u]] \in Gone
      BY <3>1, <2>1, <1>1, <1>2 DEF ArgOK, WaitPCs, Gone
    <3>3. QED
      BY <3>2, <2>1, <1>1, <1>2, <1>3 DEF ArgOK, ExecPCs, WaitPCs, StartPCs, CallPCs
  <2>6. FamilyOK'
    <3>1. \A q, c \in Proc : Concerned(q, c)' <=> Concerned(q, c)
      BY <2>1, <1>3 DEF Concerned
    <3>2. QED
      BY <3>1, <1>1, <1>3 DEF FamilyOK
  <2>7. OwnLocksOK' /\ WaitHeld'
    <3>1. {"find", "inherit"} \subseteq HoldsWait /\ "find" \notin HoldsExec
      BY DEF HoldsWait, HoldsExec, PCs, ExecPCs, Gone
    <3>2. QED
      BY <3>1, <2>1, <1>1, <1>2, <1>3 DEF OwnLocksOK, WaitHeld, locks
  <2>8. SharedOK' /\ CondsOK'
    BY <2>1, <1>1, <1>2, <1>3 DEF SharedOK, CondsOK, locks, shared, conds
  <2>9. QED
    BY <2>2, <2>3, <2>4, <2>5, <2>6, <2>7, <2>8 DEF IInv
<1>5. CASE ~get_thread(arg[p])
  <2>1. /\ pc'[p] = "exit_vm" /\ \A u \in Proc : u # p => pc'[u] = pc[u]
        /\ children' = children
    BY <1>5, <1>1 DEF ExecFind, TypeOK, Goto, Die
  <2>2. TypeOK'
    <3>1. pc' \in [Proc -> PCs] /\ status' \in [Proc -> Status \cup {PID_ERROR}]
      BY <1>5, <1>1, Zenon DEF ExecFind, TypeOK, Goto, Die, Set, PCs, ExitPCs
    <3>2. QED
      BY <3>1, <2>1, <1>1, <1>3 DEF TypeOK, locks, shared, conds
  <2>3. UNCHANGED Ties /\ UNCHANGED <<load, exit, lock_file, lock_frame>>
    BY <2>1, <1>3 DEF Ties, locks, shared, conds
  <2>4. QED
    BY <1>2, <2>1, <2>2, <2>3, Itself, MoveKeeps
       DEF PCs, ExecPCs, StartPCs, WaitPCs, ExitPCs, CallPCs, NoCallPCs, ExitedPCs, HoldsExec, HoldsWait,
           Gone, SharedPCs, FramePCs
<1>6. QED
  BY <1>4, <1>5

(* process_execute waits for the load: with lock_exec of the child it      *)
(* looks, leaves, or waits on cond_load_done.                              *)
LEMMA ExecWaitStep ==
  ASSUME IInv, NEW p \in Proc, ExecLock(p) \/ ExecLoop(p)
  PROVE  IInv'
<1>1. /\ TypeOK /\ PagesOK /\ FlagsOK /\ ArgOK /\ FamilyOK
      /\ OwnLocksOK /\ WaitHeld /\ SharedOK /\ CondsOK
  BY DEF IInv
<1>2. pc[p] \in {"exec_lock", "exec_loop"} /\ arg[p] \in Proc /\ arg[p] \in children[p]
  BY <1>1, Zenon DEF ExecLock, ExecLoop, At, ArgOK, TypeOK, ExecPCs
<1>3. UNCHANGED <<flags, links, lock_wait, shared, cond_exit>>
  BY DEF ExecLock, ExecLoop, conds
<1>4. pc'[p] \in {"user", "exec_lock", "exec_loop"} /\ \A u \in Proc : u # p => pc'[u] = pc[u]
  BY <1>1 DEF ExecLock, ExecLoop, TypeOK, Goto, Return
<1>5. /\ arg'[p] = IF pc'[p] = "user" THEN NULL ELSE arg[p]
      /\ \A u \in Proc : u # p => arg'[u] = arg[u]
  BY <1>1, <1>4 DEF ExecLock, ExecLoop, TypeOK, Goto, Return, Set
<1>6. /\ lock_exec'[arg[p]] = IF pc'[p] = "exec_loop" THEN p ELSE NULL
      /\ \A u \in Proc : u # arg[p] => lock_exec'[u] = lock_exec[u]
  BY <1>1, <1>2, <1>4 DEF ExecLock, ExecLoop, TypeOK, Goto, Return, Set
<1>7. /\ pc[p] = "exec_lock" => cond_load_done[arg[p]] # p
      /\ pc'[p] = "exec_lock" => cond_load_done'[arg[p]] = p
      /\ pc'[p] # "exec_lock" => cond_load_done' = cond_load_done
      /\ \A u \in Proc : u # arg[p] => cond_load_done'[u] = cond_load_done[u]
  BY <1>1, <1>2 DEF ExecLock, ExecLoop, TypeOK, At, Goto, Return, Set, conds
<1>8. TypeOK'
  <2>1. pc' \in [Proc -> PCs] /\ arg' \in [Proc -> Proc \cup {NULL}]
    BY <1>1 DEF ExecLock, ExecLoop, TypeOK, Goto, Return, Set, PCs, ExecPCs
  <2>2. lock_exec' \in [Proc -> Proc \cup {NULL}] /\ cond_load_done' \in [Proc -> Proc \cup {NULL}]
    BY <1>1 DEF ExecLock, ExecLoop, TypeOK, Set, conds
  <2>3. result' \in [Proc -> Proc \cup Status \cup {PID_ERROR, NULL}]
    BY <1>1, <1>2 DEF ExecLock, ExecLoop, TypeOK, Return, Set
  <2>4. QED
    BY <2>1, <2>2, <2>3, <1>1, <1>3 DEF TypeOK, flags, links, shared
<1>9. PagesOK' /\ FlagsOK'
  BY <1>1, <1>2, <1>3, <1>4, ProcessAssumption DEF PagesOK, FlagsOK, flags, links, Gone, StartPCs
<1>10. ArgOK'
  <2>1. children \in [Proc -> SUBSET Proc]
    BY <1>1 DEF TypeOK
  <2>2. \A u \in Proc : pc[u] = "reap" => u # p /\ arg[u] \in Proc /\ pc'[arg[u]] \in Gone
    BY <2>1, <1>1, <1>2, <1>4 DEF ArgOK, WaitPCs, Gone
  <2>3. QED
    BY <2>2, <1>1, <1>2, <1>3, <1>4, <1>5 DEF ArgOK, ExecPCs, WaitPCs, StartPCs, CallPCs, links
<1>11. FamilyOK'
  <2>1. \A q, c \in Proc : Concerned(q, c)' => Concerned(q, c)
    BY <1>3, <1>5, ProcessAssumption DEF Concerned, links
  <2>2. QED
    BY <2>1, <1>1, <1>3 DEF FamilyOK, links
<1>12. OwnLocksOK'
  <2>1. {"user", "exec_lock", "exec_loop"} \subseteq HoldsWait /\ "exec_lock" \notin HoldsExec /\ "exec_loop" \notin HoldsExec
    BY Zenon DEF HoldsWait, HoldsExec, PCs, ExecPCs, Gone
  <2>2. QED
    BY <2>1, <1>1, <1>2, <1>3, <1>4, <1>5, <1>6, ProcessAssumption DEF OwnLocksOK, flags
<1>13. WaitHeld'
  <2>1. {"user", "exec_lock", "exec_loop"} \subseteq HoldsWait
    BY Zenon DEF HoldsWait, PCs, ExecPCs, Gone
  <2>2. QED
    BY <2>1, <1>1, <1>2, <1>3, <1>4, <1>5 DEF WaitHeld
<1>14. SharedOK'
  BY <1>1, <1>2, <1>3, <1>4 DEF SharedOK, shared
<1>15. CondsOK'
  BY <1>1, <1>2, <1>3, <1>4, <1>5, <1>7 DEF CondsOK
<1>16. QED
  BY <1>8, <1>9, <1>10, <1>11, <1>12, <1>13, <1>14, <1>15 DEF IInv
============================================================================
