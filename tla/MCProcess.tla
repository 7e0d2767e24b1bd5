----------------------------- MODULE MCProcess -----------------------------
(* Process for TLC, with liveness. *)
EXTENDS Process

(* The scheduler runs every ready thread (EveryThreadRuns of Threads), and *)
(* a lock that is released for good is handed to one that waits for it     *)
(* (CallsReturn of MCSynch).                                               *)
FairSpec == Spec /\ \A p \in Proc : WF_vars(Continue(p))

(* lock_file and frame_table.lock are taken in both orders, and two        *)
(* processes wait for each other (process.c:373-375 and                    *)
(* syscall.c:418-419 against process.c:278, vm/frame.c:131 and             *)
(* exception.c:184).                                                       *)
LockCycle ==
  \E p, q \in Proc : /\ lock_frame = p /\ pc[p] \in {"exit_frames", "map_file"}
                     /\ lock_file = q /\ pc[q] \in {"load_frames", "syscall_fault", "exit_vm"}

(* A process was ended by a page fault while it held cache_table.lock, and *)
(* no one can use the buffer cache any more (cache.c:81, exception.c:176). *)
CacheOrphaned == \E p \in Proc : lock_cache = p /\ pc[p] \in ExitPCs \cup {"dead"}

(* p has nothing left to do: it is in user code or gone, or it waits for a *)
(* child that is in user code or waits in turn.                            *)
Settled(p) ==
  \/ pc[p] \in {"none", "user", "dead"}
  \/ pc[p] = "wait_lock" /\ pc[arg[p]] \in {"user", "wait_lock"}

(* Once user code asks for nothing more, all that is under way comes to an *)
(* end: every process_execute returns, although its child may fail or die  *)
(* at any point of its start, every exit is carried through, and every     *)
(* process_wait for a child that exits returns; no signal is lost between  *)
(* a test and the wait (process.c:232-236, 292-294, 346-350, 413-444).     *)
(* The lock cycle and the orphaned cache are the only ways not to.         *)
Settles ==
  <>[][\A p \in Proc : ~User(p)]_vars =>
    []<>((\A p \in Proc : Settled(p)) \/ LockCycle \/ CacheOrphaned)
============================================================================
