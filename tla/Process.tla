------------------------------ MODULE Process ------------------------------
(***************************************************************************)
(* Processes (userprog/process.c): process_execute and the child's         *)
(* start_process, process_wait, process_exit, and the locks and condition  *)
(* variables they meet on.                                                 *)
(*                                                                         *)
(* Locks and condition variables are those of Monitor, which Synch         *)
(* implements: a lock is taken in one step, cond_wait leaves and waits in  *)
(* one step.  Any process may be preempted between two steps.  What user   *)
(* code does is arbitrary: run programs, wait for children, use files,     *)
(* exit or be killed.                                                      *)
(***************************************************************************)
EXTENDS Naturals, FiniteSets

CONSTANTS Proc,      \* pids; a pid is never used twice
          Root,      \* the kernel's main thread
          NULL,
          Status,    \* exit codes
          PID_ERROR  \* -1

ASSUME ProcessAssumption ==
  Root \in Proc /\ NULL \notin Proc /\ PID_ERROR \notin Status \cup Proc

VARIABLES pc, arg,    \* where a process is, and the child that call is about
          alive,      \* threads in all_threads
          page,       \* struct process: "none", "used" or "freed"
          load, success, exit, status, children, dir,  \* its members
          lock_exec, lock_wait,                        \* the holders
          lock_file, lock_frame, lock_cache, \* lock_file, frame_table.lock, cache_table.lock
          cond_load_done, cond_exit,                   \* who waits
          result      \* what the last exec or wait returned

flags == <<load, success, exit, status>>
links == <<alive, page, children, dir>>
shared == <<lock_file, lock_frame, lock_cache>>
locks == <<lock_exec, lock_wait, shared>>
conds == <<cond_load_done, cond_exit>>
vars == <<pc, arg, flags, links, locks, conds, result>>

ExecPCs == {"find", "inherit", "exec_lock", "exec_loop"}
StartPCs == {"start", "start_wait", "start_file", "load", "load_frames", "loaded"}
WaitPCs == {"wait_lock", "wait_loop", "reap"}
ExitPCs == {"exit_vm", "exit_frames", "exit_flag", "exit_exec", "exit_close", "exit_files", "exit_wait",
            "exit_thread"}
CallPCs == {"syscall", "syscall_fault", "map_file"}
PCs == ExecPCs \cup StartPCs \cup WaitPCs \cup ExitPCs \cup CallPCs \cup {"none", "user", "dead"}

TypeOK ==
  /\ pc \in [Proc -> PCs]
  /\ arg \in [Proc -> Proc \cup {NULL}]
  /\ alive \subseteq Proc
  /\ page \in [Proc -> {"none", "used", "freed"}]
  /\ load \in [Proc -> BOOLEAN] /\ success \in [Proc -> BOOLEAN] /\ exit \in [Proc -> BOOLEAN]
  /\ status \in [Proc -> Status \cup {PID_ERROR}]
  /\ children \in [Proc -> SUBSET Proc]
  /\ dir \in [Proc -> BOOLEAN]
  /\ lock_exec \in [Proc -> Proc \cup {NULL}] /\ lock_wait \in [Proc -> Proc \cup {NULL}]
  /\ {lock_file, lock_frame, lock_cache} \subseteq Proc \cup {NULL}
  /\ cond_load_done \in [Proc -> Proc \cup {NULL}] /\ cond_exit \in [Proc -> Proc \cup {NULL}]
  /\ result \in [Proc -> Proc \cup Status \cup {PID_ERROR, NULL}]

(* A process's status until it calls sys_exit. *)
InitStatus == PID_ERROR

(* run_task has made the kernel's main thread a process. *)
Init ==
  /\ pc = [p \in Proc |-> IF p = Root THEN "user" ELSE "none"]
  /\ arg = [p \in Proc |-> NULL]
  /\ alive = {Root}
  /\ page = [p \in Proc |-> IF p = Root THEN "used" ELSE "none"]
  /\ load = [p \in Proc |-> FALSE]
  /\ success = [p \in Proc |-> FALSE]
  /\ exit = [p \in Proc |-> FALSE]
  /\ status = [p \in Proc |-> InitStatus]
  /\ children = [p \in Proc |-> {}]
  /\ dir = [p \in Proc |-> p = Root]
  /\ lock_exec = [p \in Proc |-> NULL]
  /\ lock_wait = [p \in Proc |-> NULL]
  /\ lock_file = NULL /\ lock_frame = NULL /\ lock_cache = NULL
  /\ cond_load_done = [p \in Proc |-> NULL]
  /\ cond_exit = [p \in Proc |-> NULL]
  /\ result = [p \in Proc |-> NULL]

----------------------------------------------------------------------------
At(p, l) == pc[p] = l
Goto(p, l) == pc' = [pc EXCEPT ![p] = l]
Set(f, p, v) == [f EXCEPT ![p] = v]
Return(p, v) == /\ Goto(p, "user")
                /\ arg' = Set(arg, p, NULL)
                /\ result' = Set(result, p, v)

(* thread_exit () reached through exit_status (s), or from an exception,   *)
(* which leaves or makes the status PID_ERROR.                             *)
Die(p, s) == Goto(p, "exit_vm") /\ status' = Set(status, p, s)

(* The main thread runs one program after the other, process_wait          *)
(* (process_execute (task)); a user process does what it likes.            *)
MayExec(p) == At(p, "user") /\ (p = Root => result[p] \notin Proc)
MayWait(p, c) == At(p, "user") /\ (p = Root => c = result[p])

(* process_execute: thread_create, with process_create in it, has made the *)
(* child runnable, or failed.                                              *)
ExecFail(p) ==
  /\ MayExec(p)
  /\ Return(p, PID_ERROR)
  /\ UNCHANGED <<flags, links, locks, conds>>
Exec(p, c) ==
  /\ MayExec(p) /\ page[c] = "none"
  /\ pc' = [pc EXCEPT ![p] = "find", ![c] = "start"]
  /\ arg' = Set(arg, p, c)
  /\ alive' = alive \cup {c}
  /\ page' = Set(page, c, "used")
  /\ UNCHANGED <<flags, children, dir, locks, conds, result>>

(* get_thread: the thread with this tid, if it has not exited *)
get_thread(tid) == tid \in alive

(* get_thread (tid)->process; when the child has already exited this reads *)
(* through a null pointer, and page_fault ends the parent.                 *)
ExecFind(p) ==
  /\ At(p, "find")
  /\ IF get_thread(arg[p])
     THEN /\ children' = [children EXCEPT ![p] = @ \cup {arg[p]}]
          /\ Goto(p, "inherit")
          /\ UNCHANGED status
     ELSE Die(p, PID_ERROR) /\ UNCHANGED children
  /\ UNCHANGED <<arg, load, success, exit, alive, page, dir, locks, conds, result>>

ExecInherit(p) ==
  /\ At(p, "inherit")
  /\ dir' = Set(dir, arg[p], TRUE)
  /\ Goto(p, "exec_lock")
  /\ UNCHANGED <<arg, flags, alive, page, children, locks, conds, result>>

(* lock_acquire, and its call at the end of cond_wait. *)
ExecLock(p) ==
  /\ At(p, "exec_lock") /\ cond_load_done[arg[p]] # p
  /\ lock_exec[arg[p]] = NULL
  /\ lock_exec' = Set(lock_exec, arg[p], p)
  /\ Goto(p, "exec_loop")
  /\ UNCHANGED <<arg, flags, links, lock_wait, shared, conds, result>>

ExecSkipsWait(p) == TRUE
ExecDone(p) == load[arg[p]]
ExecLoop(p) ==
  /\ At(p, "exec_loop")
  /\ lock_exec' = Set(lock_exec, arg[p], NULL)
  /\ IF ExecDone(p)
     THEN /\ Return(p, IF success[arg[p]] THEN arg[p] ELSE PID_ERROR)
          /\ UNCHANGED cond_load_done
     ELSE /\ cond_load_done' = Set(cond_load_done, arg[p], p)
          /\ Goto(p, "exec_lock")
          /\ UNCHANGED <<arg, result>>
  /\ UNCHANGED <<flags, links, lock_wait, shared, cond_exit>>

----------------------------------------------------------------------------
(* start_process *)
StartExec(p) ==
  /\ At(p, "start") /\ lock_exec[p] = NULL
  /\ lock_exec' = Set(lock_exec, p, p)
  /\ Goto(p, "start_wait")
  /\ UNCHANGED <<arg, flags, links, lock_wait, shared, conds, result>>

StartForgetsWait(p) ==
  /\ At(p, "start_wait") /\ lock_wait[p] = NULL
  /\ Goto(p, "start_file")
  /\ UNCHANGED <<arg, flags, links, locks, conds, result>>
StartWait(p) ==
  /\ At(p, "start_wait") /\ lock_wait[p] = NULL
  /\ lock_wait' = Set(lock_wait, p, p)
  /\ Goto(p, "start_file")
  /\ UNCHANGED <<arg, flags, links, lock_exec, shared, conds, result>>

StartFile(p) ==
  /\ At(p, "start_file") /\ lock_file = NULL
  /\ lock_file' = p
  /\ Goto(p, "load")
  /\ UNCHANGED <<arg, flags, links, lock_exec, lock_wait, lock_frame, lock_cache, conds, result>>

(* load opens the file relative to the process's directory, which is a     *)
(* null pointer, and ends the process, until the parent has passed it on;  *)
(* it reads directories and the executable through the buffer cache.       *)
Load(p, relative, found) ==
  /\ At(p, "load")
  /\ IF relative /\ ~dir[p]
     THEN Die(p, PID_ERROR) /\ UNCHANGED lock_file
     ELSE /\ lock_cache = NULL
          /\ Goto(p, IF found THEN "load_frames" ELSE "loaded")
          /\ lock_file' = IF found THEN p ELSE NULL
          /\ UNCHANGED status
  /\ UNCHANGED <<arg, load, success, exit, links, lock_exec, lock_wait, lock_frame, lock_cache, conds, result>>

(* allocate_frame, for each page of the segments and the stack, takes      *)
(* frame_table.lock with lock_file held.                                   *)
LoadFrames(p, ok) ==
  /\ At(p, "load_frames") /\ lock_frame = NULL /\ lock_cache = NULL
  /\ success' = Set(success, p, ok)
  /\ lock_file' = NULL
  /\ Goto(p, "loaded")
  /\ UNCHANGED <<arg, load, exit, status, links, lock_exec, lock_wait, lock_frame, lock_cache, conds, result>>

(* Arguments that do not fit the stack page: setup_stack faults, and the   *)
(* process ends with lock_file and its two locks held.                     *)
LoadFault(p) ==
  /\ At(p, "load_frames") /\ lock_frame = NULL /\ lock_cache = NULL
  /\ Die(p, PID_ERROR)
  /\ UNCHANGED <<arg, load, success, exit, links, locks, conds, result>>

LoadedNoSignal(p) ==
  /\ At(p, "loaded")
  /\ load' = Set(load, p, TRUE)
  /\ lock_exec' = Set(lock_exec, p, NULL)
  /\ Goto(p, IF success[p] THEN "user" ELSE "exit_vm")
  /\ UNCHANGED <<arg, success, exit, status, links, lock_wait, shared, conds, result>>
Loaded(p) ==
  /\ At(p, "loaded")
  /\ load' = Set(load, p, TRUE)
  /\ cond_load_done' = Set(cond_load_done, p, NULL)
  /\ lock_exec' = Set(lock_exec, p, NULL)
  /\ Goto(p, IF success[p] THEN "user" ELSE "exit_vm")
  /\ UNCHANGED <<arg, success, exit, status, links, lock_wait, shared, cond_exit,
                 result>>

----------------------------------------------------------------------------
(* A system call that uses the file system under lock_file; io: it goes    *)
(* through the buffer cache.                                               *)
Syscall(p) ==
  /\ At(p, "user") /\ p # Root /\ lock_file = NULL
  /\ lock_file' = p
  /\ Goto(p, "syscall")
  /\ UNCHANGED <<arg, flags, links, lock_exec, lock_wait, lock_frame, lock_cache, conds, result>>

SyscallReturn(p, io) ==
  /\ At(p, "syscall") /\ (io => lock_cache = NULL)
  /\ lock_file' = NULL
  /\ Goto(p, "user")
  /\ UNCHANGED <<arg, flags, links, lock_exec, lock_wait, lock_frame, lock_cache, conds, result>>

(* read and write copy between the cache and the caller's buffer under     *)
(* cache_table.lock.  The copy may fault: on a read-only page page_fault   *)
(* ends the process; else it looks the page up under frame_table.lock and  *)
(* brings it in or ends the process.  The locks of the call stay held.     *)
SyscallFault(p, present) ==
  /\ At(p, "syscall") /\ lock_cache = NULL
  /\ lock_cache' = p
  /\ IF present THEN Die(p, PID_ERROR) ELSE Goto(p, "syscall_fault") /\ UNCHANGED status
  /\ UNCHANGED <<arg, load, success, exit, links, lock_exec, lock_wait, lock_file, lock_frame,
                 conds, result>>

(* The copy and the call go on to their end: bound, one fault a call. *)
FaultReturn(p) ==
  /\ At(p, "syscall_fault") /\ lock_frame = NULL
  /\ lock_cache' = NULL /\ lock_file' = NULL
  /\ Goto(p, "user")
  /\ UNCHANGED <<arg, flags, links, lock_exec, lock_wait, lock_frame, conds, result>>

FaultExit(p) ==
  /\ At(p, "syscall_fault") /\ lock_frame = NULL
  /\ Die(p, PID_ERROR)
  /\ UNCHANGED <<arg, load, success, exit, links, locks, conds, result>>

(* mmap, munmap, and the page fault on a page backed by a file: they take  *)
(* frame_table.lock and then lock_file, and may go through the cache.      *)
MapFrames(p) ==
  /\ At(p, "user") /\ p # Root /\ lock_frame = NULL
  /\ lock_frame' = p
  /\ Goto(p, "map_file")
  /\ UNCHANGED <<arg, flags, links, lock_exec, lock_wait, lock_file, lock_cache, conds, result>>

MapFile(p, io) ==
  /\ At(p, "map_file") /\ lock_file = NULL /\ (io => lock_cache = NULL)
  /\ lock_frame' = NULL
  /\ Goto(p, "user")
  /\ UNCHANGED <<arg, flags, links, lock_exec, lock_wait, lock_file, lock_cache, conds, result>>

(* sys_exit, a kill, or the end of the main thread; only sys_exit sets     *)
(* another status than PID_ERROR.                                          *)
Exit(p, s) ==
  /\ At(p, "user") /\ (p = Root => s = PID_ERROR /\ result[p] \notin Proc)
  /\ Die(p, s)
  /\ UNCHANGED <<arg, load, success, exit, links, locks, conds, result>>

(* get_pointer and get_integer end a process whose stack or argument is    *)
(* not valid, before the call takes a lock.                                *)
get_pointer(p) ==
  /\ At(p, "user") /\ p # Root
  /\ Die(p, PID_ERROR)
  /\ UNCHANGED <<arg, load, success, exit, links, locks, conds, result>>

----------------------------------------------------------------------------
(* process_exit, first under frame_table.lock and then lock_file, which    *)
(* the process may hold already; io: it has dirty mapped pages to write.   *)
(* A process that comes here with cache_table.lock and needs it again      *)
(* fails lock_acquire's assertion: it goes no further.                     *)
ExitFrames(p) ==
  /\ At(p, "exit_vm") /\ lock_frame = NULL
  /\ lock_frame' = p
  /\ Goto(p, "exit_frames")
  /\ UNCHANGED <<arg, flags, links, lock_exec, lock_wait, lock_file, lock_cache, conds, result>>

ExitVM(p, io) ==
  /\ At(p, "exit_frames") /\ lock_file \in {NULL, p} /\ (io => lock_cache = NULL)
  /\ lock_file' = NULL /\ lock_frame' = NULL
  /\ Goto(p, "exit_flag")
  /\ UNCHANGED <<arg, flags, links, lock_exec, lock_wait, lock_cache, conds, result>>

ExitFlag(p) ==
  /\ At(p, "exit_flag")
  /\ exit' = Set(exit, p, TRUE)
  /\ load' = Set(load, p, TRUE)
  /\ Goto(p, IF ~load[p] THEN "exit_exec" ELSE IF success[p] THEN "exit_close" ELSE "exit_files")
  /\ UNCHANGED <<arg, success, status, links, locks, conds, result>>

(* The process ends before it has loaded. *)
ExitExec(p) ==
  /\ At(p, "exit_exec") /\ lock_exec[p] \in {NULL, p}
  /\ cond_load_done' = Set(cond_load_done, p, NULL)
  /\ lock_exec' = Set(lock_exec, p, NULL)
  /\ Goto(p, "exit_files")
  /\ UNCHANGED <<arg, flags, links, lock_wait, shared, cond_exit, result>>

(* Close the executable, then the open files, under lock_file; io: one of  *)
(* them was removed, and its blocks are freed.                             *)
ExitClose(p, io) ==
  /\ pc[p] \in {"exit_close", "exit_files"} /\ lock_file = NULL /\ (io => lock_cache = NULL)
  /\ Goto(p, IF At(p, "exit_close") THEN "exit_files" ELSE "exit_wait")
  /\ UNCHANGED <<arg, flags, links, locks, conds, result>>

(* The last use the process makes of its struct process. *)
ExitWaitKeepsLock(p) ==
  /\ At(p, "exit_wait") /\ lock_wait[p] \in {NULL, p}
  /\ cond_exit' = Set(cond_exit, p, NULL)
  /\ Goto(p, "exit_thread")
  /\ UNCHANGED <<arg, flags, links, locks, cond_load_done, result>>
ExitWait(p) ==
  /\ At(p, "exit_wait") /\ lock_wait[p] \in {NULL, p}
  /\ cond_exit' = Set(cond_exit, p, NULL)
  /\ lock_wait' = Set(lock_wait, p, NULL)
  /\ Goto(p, "exit_thread")
  /\ UNCHANGED <<arg, flags, links, lock_exec, shared, cond_load_done, result>>

(* The rest of thread_exit. *)
ExitThread(p) ==
  /\ At(p, "exit_thread")
  /\ alive' = alive \ {p}
  /\ Goto(p, "dead")
  /\ UNCHANGED <<arg, flags, page, children, dir, locks, conds, result>>

----------------------------------------------------------------------------
process_find_child(p, c) == c \in children[p]

(* process_wait: PID_ERROR at once for a pid that is no child. *)
Wait(p, c) ==
  /\ MayWait(p, c)
  /\ IF process_find_child(p, c)
     THEN Goto(p, "wait_lock") /\ arg' = Set(arg, p, c) /\ UNCHANGED result
     ELSE Return(p, PID_ERROR)
  /\ UNCHANGED <<flags, links, locks, conds>>

WaitLock(p) ==
  /\ At(p, "wait_lock") /\ cond_exit[arg[p]] # p
  /\ lock_wait[arg[p]] = NULL
  /\ lock_wait' = Set(lock_wait, arg[p], p)
  /\ Goto(p, "wait_loop")
  /\ UNCHANGED <<arg, flags, links, lock_exec, shared, conds, result>>

WaitLoop(p) ==
  /\ At(p, "wait_loop")
  /\ lock_wait' = Set(lock_wait, arg[p], NULL)
  /\ IF exit[arg[p]]
     THEN Goto(p, "reap") /\ UNCHANGED cond_exit
     ELSE Goto(p, "wait_lock") /\ cond_exit' = Set(cond_exit, arg[p], p)
  /\ UNCHANGED <<arg, flags, links, lock_exec, shared, cond_load_done, result>>

process_reap(p, c) ==
  /\ children' = [children EXCEPT ![p] = @ \ {c}]
  /\ page' = Set(page, c, "freed")

(* The status is read, then the child is reaped. *)
Reap(p) ==
  /\ At(p, "reap")
  /\ Return(p, status[arg[p]])
  /\ process_reap(p, arg[p])
  /\ UNCHANGED <<flags, alive, dir, locks, conds>>

----------------------------------------------------------------------------
(* What user code, or the kernel's main thread, decides to do. *)
User(p) == \/ \E c \in Proc : Exec(p, c) \/ Wait(p, c)
           \/ ExecFail(p)
           \/ get_pointer(p) \/ Syscall(p) \/ MapFrames(p)
           \/ \E s \in Status \cup {PID_ERROR} : Exit(p, s)

(* A step of what it is in the middle of. *)
Continue(p) ==
  \/ ExecFind(p) \/ ExecInherit(p) \/ ExecLock(p) \/ ExecLoop(p)
  \/ StartExec(p) \/ StartWait(p) \/ StartFile(p) \/ Loaded(p)
  \/ \E relative, found \in BOOLEAN : Load(p, relative, found)
  \/ \E ok \in BOOLEAN : LoadFrames(p, ok)
  \/ LoadFault(p)
  \/ \E io \in BOOLEAN : SyscallReturn(p, io) \/ MapFile(p, io) \/ ExitVM(p, io) \/ ExitClose(p, io)
  \/ \E present \in BOOLEAN : SyscallFault(p, present)
  \/ FaultReturn(p) \/ FaultExit(p)
  \/ ExitFrames(p) \/ ExitFlag(p) \/ ExitExec(p) \/ ExitWait(p) \/ ExitThread(p)
  \/ WaitLock(p) \/ WaitLoop(p) \/ Reap(p)

Next == \E p \in Proc : User(p) \/ Continue(p)

Spec == Init /\ [][Next]_vars

----------------------------------------------------------------------------
(* No struct process is used after process_reap has freed it: its process  *)
(* has made its last use of it, no one is in a call about it or holds or   *)
(* waits for what is in it, and it is no one's child (process.c:88-92,     *)
(* 343-351, 437-444).                                                      *)
NoUseAfterReap ==
  \A c \in Proc : page[c] = "freed" =>
    /\ pc[c] \in {"exit_thread", "dead"}
    /\ lock_exec[c] = NULL /\ lock_wait[c] = NULL
    /\ cond_load_done[c] = NULL /\ cond_exit[c] = NULL
    /\ \A p \in Proc : arg[p] # c /\ c \notin children[p]

(* process_execute returns only after the child has finished its load, one *)
(* way or the other (the comment at process.c:220).                        *)
ExecAfterLoad(p) ==
  pc[p] = "exec_loop" /\ pc'[p] = "user" =>
    /\ pc[arg[p]] \notin StartPCs
    /\ result'[p] = arg[p] => success[arg[p]]

(* process_wait returns only after the child has terminated, with the      *)
(* status it exited with, and only once per child (process.c:312-322, the  *)
(* comment at 326).                                                        *)
WaitAfterExit(p) ==
  pc[p] \in WaitPCs /\ pc'[p] = "user" =>
    /\ pc[arg[p]] \in {"exit_thread", "dead"}
    /\ result'[p] = status[arg[p]]
    /\ page[arg[p]] = "used"

(* The parent hears of its child only what has happened: process_execute   *)
(* and process_wait return after the child's load and its exit, and with   *)
(* what came of them.                                                      *)
ChildHeard == [][\A p \in Proc : ExecAfterLoad(p) /\ WaitAfterExit(p)]_vars

(* A process that has ended, however it came to, has released the locks    *)
(* that process_exit looks after: lock_file and frame_table.lock, its own  *)
(* lock_exec and lock_wait, and those of its children (process.c:362-446). *)
DeadHoldsNothing ==
  \A p \in Proc : pc[p] = "dead" =>
    /\ lock_file # p /\ lock_frame # p
    /\ \A c \in Proc : lock_exec[c] # p /\ lock_wait[c] # p
============================================================================
