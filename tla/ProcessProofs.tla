--------------------------- MODULE ProcessProofs ---------------------------
(***************************************************************************)
(* For any set of processes: a struct process is never used after it is    *)
(* freed, a dead process holds none of the locks that process_exit looks   *)
(* after, and a parent hears of its child only what has happened.          *)
(***************************************************************************)
EXTENDS ProcessSteps

USE SMTT(30), Zenon

(* A process takes its own lock_exec as it starts, and gives it back, with *)
(* cond_load_done signalled, after its load or in process_exit.            *)
LEMMA OwnExecStep ==
  ASSUME IInv, NEW p \in Proc, StartExec(p) \/ Loaded(p) \/ ExitExec(p)
  PROVE  IInv'
<1>1. /\ TypeOK /\ PagesOK /\ FlagsOK /\ ArgOK /\ FamilyOK
      /\ OwnLocksOK /\ WaitHeld /\ SharedOK /\ CondsOK
  BY DEF IInv
<1>2. UNCHANGED <<arg, success, exit, status, links, lock_wait, shared, cond_exit, result>>
  BY Zenon DEF StartExec, Loaded, ExitExec, flags, conds
<1>3. \/ pc[p] = "start" /\ pc'[p] = "start_wait" /\ load' = load
      \/ pc[p] = "loaded" /\ pc'[p] \in {"user", "exit_vm"}
      \/ pc[p] = "exit_exec" /\ pc'[p] = "exit_files" /\ load' = load
  BY <1>1, Zenon DEF StartExec, Loaded, ExitExec, At, Goto, TypeOK, flags
<1>4. \A u \in Proc : u # p => /\ pc'[u] = pc[u] /\ load'[u] = load[u]
                               /\ lock_exec'[u] = lock_exec[u]
                               /\ cond_load_done'[u] = cond_load_done[u]
  BY <1>1 DEF StartExec, Loaded, ExitExec, Goto, Set, TypeOK, flags, conds
<1>5. /\ lock_exec'[p] = IF pc'[p] = "start_wait" THEN p ELSE NULL
      /\ cond_load_done'[p] \in {cond_load_done[p], NULL}
  BY <1>1 DEF StartExec, Loaded, ExitExec, Goto, Set, TypeOK, conds
<1>6. TypeOK'
  <2>1. pc' \in [Proc -> PCs]
    BY <1>1, Zenon DEF StartExec, Loaded, ExitExec, TypeOK, Goto, PCs, StartPCs, ExitPCs
  <2>4. load' \in [Proc -> BOOLEAN]
    BY <1>1, Zenon DEF StartExec, Loaded, ExitExec, TypeOK, Set, flags
  <2>2. lock_exec' \in [Proc -> Proc \cup {NULL}] /\ cond_load_done' \in [Proc -> Proc \cup {NULL}]
    BY <1>1 DEF StartExec, Loaded, ExitExec, TypeOK, Set, conds
  <2>3. QED
    BY <2>1, <2>2, <2>4, <1>1, <1>2 DEF TypeOK, links, shared
<1>7. PagesOK'
  BY <1>1, <1>2, <1>3, <1>4, ProcessAssumption DEF PagesOK, links, Gone
<1>8. FlagsOK'
  BY <1>1, <1>2, <1>3, <1>4 DEF FlagsOK, StartPCs, Gone
<1>9. ArgOK'
  <2>1. children \in [Proc -> SUBSET Proc]
    BY <1>1 DEF TypeOK
  <2>2. \A u \in Proc : pc[u] = "reap" => u # p /\ arg[u] \in Proc /\ pc'[arg[u]] \in Gone
    BY <2>1, <1>1, <1>3, <1>4 DEF ArgOK, WaitPCs, Gone
  <2>3. QED
    BY <2>2, <1>1, <1>2, <1>3, <1>4 DEF ArgOK, ExecPCs, WaitPCs, StartPCs, CallPCs, links
<1>10. FamilyOK'
  BY <1>1, <1>2 DEF FamilyOK, Concerned, links
<1>11. OwnLocksOK'
  <2>1. /\ "loaded" \in HoldsWait /\ "exit_exec" \in HoldsWait
        /\ {"user", "exit_vm", "exit_files"} \subseteq HoldsWait
        /\ {"start", "start_wait"} \cap HoldsWait = {} /\ "start_wait" \in HoldsExec
    BY DEF HoldsWait, HoldsExec, PCs, StartPCs, ExitPCs, Gone
  <2>2. pc[p] = "start" => ~load[p]
    BY <1>1 DEF FlagsOK, StartPCs
  <2>3. QED
    BY <2>1, <2>2, <1>1, <1>2, <1>3, <1>4, <1>5, ProcessAssumption DEF OwnLocksOK
<1>12. WaitHeld'
  <2>1. /\ "loaded" \in HoldsWait /\ "exit_exec" \in HoldsWait /\ "start_wait" \notin HoldsWait
    BY DEF HoldsWait, PCs, StartPCs, ExitPCs, Gone
  <2>2. QED
    BY <2>1, <1>1, <1>2, <1>3, <1>4 DEF WaitHeld
<1>13. SharedOK'
  BY <1>1, <1>2, <1>3, <1>4 DEF SharedOK, shared
<1>14. CondsOK'
  BY <1>1, <1>2, <1>3, <1>4, <1>5, ProcessAssumption DEF CondsOK
<1>15. QED
  BY <1>6, <1>7, <1>8, <1>9, <1>10, <1>11, <1>12, <1>13, <1>14 DEF IInv

(* A process takes its own lock_wait as it starts, and gives it back, with *)
(* cond_exit signalled, as the last thing it does with its struct process. *)
LEMMA OwnWaitStep ==
  ASSUME IInv, NEW p \in Proc, StartWait(p) \/ ExitWait(p)
  PROVE  IInv'
<1>1. /\ TypeOK /\ PagesOK /\ FlagsOK /\ ArgOK /\ FamilyOK
      /\ OwnLocksOK /\ WaitHeld /\ SharedOK /\ CondsOK
  BY DEF IInv
<1>2. UNCHANGED <<arg, flags, links, lock_exec, shared, cond_load_done, result>>
  BY DEF StartWait, ExitWait, conds
<1>3. /\ \/ pc[p] = "start_wait" /\ pc'[p] = "start_file" /\ lock_wait'[p] = p
         \/ pc[p] = "exit_wait" /\ pc'[p] = "exit_thread" /\ lock_wait'[p] = NULL
      /\ lock_wait[p] \in {NULL, p} /\ cond_exit'[p] \in {cond_exit[p], NULL}
  BY <1>1 DEF StartWait, ExitWait, At, Goto, Set, TypeOK, conds
<1>4. \A u \in Proc : u # p => /\ pc'[u] = pc[u] /\ lock_wait'[u] = lock_wait[u]
                               /\ cond_exit'[u] = cond_exit[u]
  BY <1>1 DEF StartWait, ExitWait, Goto, Set, TypeOK, conds
<1>5. TypeOK'
  <2>1. pc' \in [Proc -> PCs]
    BY <1>1 DEF StartWait, ExitWait, TypeOK, Goto, PCs, StartPCs, ExitPCs
  <2>2. lock_wait' \in [Proc -> Proc \cup {NULL}] /\ cond_exit' \in [Proc -> Proc \cup {NULL}]
    BY <1>1 DEF StartWait, ExitWait, TypeOK, Set, conds
  <2>3. QED
    BY <2>1, <2>2, <1>1, <1>2 DEF TypeOK, flags, links, shared
<1>6. PagesOK'
  BY <1>1, <1>2, <1>3, <1>4, ProcessAssumption DEF PagesOK, links, Gone
<1>7. FlagsOK'
  BY <1>1, <1>2, <1>3, <1>4 DEF FlagsOK, flags, StartPCs, Gone
<1>8. ArgOK'
  <2>1. children \in [Proc -> SUBSET Proc]
    BY <1>1 DEF TypeOK
  <2>2. \A u \in Proc : pc[u] = "reap" => u # p /\ arg[u] \in Proc /\ pc'[arg[u]] \in Gone
    BY <2>1, <1>1, <1>3, <1>4 DEF ArgOK, WaitPCs, Gone
  <2>3. QED
    BY <2>2, <1>1, <1>2, <1>3, <1>4 DEF ArgOK, ExecPCs, WaitPCs, StartPCs, CallPCs, links
<1>9. FamilyOK'
  BY <1>1, <1>2 DEF FamilyOK, Concerned, links
<1>10. OwnLocksOK'
  <2>1. "start_file" \in HoldsWait /\ {"start_wait", "start_file"} \subseteq HoldsExec /\ "exit_wait" \notin HoldsExec
    BY DEF HoldsWait, HoldsExec, PCs, StartPCs, Gone
  <2>2. pc[p] = "start_wait" => ~load[p]
    BY <1>1 DEF FlagsOK, StartPCs
  <2>3. QED
    BY <2>1, <2>2, <1>1, <1>2, <1>3, <1>4, ProcessAssumption DEF OwnLocksOK, flags
<1>11. WaitHeld'
  <2>1. "exit_thread" \notin HoldsWait
    BY DEF HoldsWait, Gone
  <2>2. ASSUME NEW u \in Proc, pc[u] = "wait_loop" PROVE arg[u] \in Proc /\ arg[u] # p
    <3>1. arg[u] \in children[u] /\ children[u] \subseteq Proc
      BY <2>2, <1>1 DEF ArgOK, TypeOK, WaitPCs
    <3>2. arg[u] # u /\ lock_wait[arg[u]] = u
      BY <3>1, <2>2, <1>1 DEF FamilyOK, Concerned, WaitHeld
    <3>3. QED
      BY <3>1, <3>2, <1>3, ProcessAssumption
  <2>3. QED
    BY <2>1, <2>2, <1>1, <1>2, <1>3, <1>4 DEF WaitHeld
<1>12. SharedOK'
  BY <1>1, <1>2, <1>3, <1>4 DEF SharedOK, shared
<1>13. CondsOK'
  BY <1>1, <1>2, <1>3, <1>4, ProcessAssumption DEF CondsOK
<1>14. QED
  BY <1>5, <1>6, <1>7, <1>8, <1>9, <1>10, <1>11, <1>12, <1>13 DEF IInv

(* process_wait has found the child: the call is about it. *)
LEMMA WaitStep ==
  ASSUME IInv, NEW p \in Proc, NEW c \in Proc, Wait(p, c), process_find_child(p, c)
  PROVE  IInv'
<1>1. /\ TypeOK /\ PagesOK /\ FlagsOK /\ ArgOK /\ FamilyOK
      /\ OwnLocksOK /\ WaitHeld /\ SharedOK /\ CondsOK
  BY DEF IInv
<1>2. pc[p] = "user" /\ arg[p] = NULL /\ c \in children[p]
  BY <1>1 DEF Wait, MayWait, At, ArgOK, process_find_child
<1>3. UNCHANGED <<flags, links, locks, conds, result>>
  BY DEF Wait
<1>4. /\ pc'[p] = "wait_lock" /\ arg'[p] = c
      /\ \A u \in Proc : u # p => pc'[u] = pc[u] /\ arg'[u] = arg[u]
  BY <1>1 DEF Wait, TypeOK, Goto, Set
<1>5. TypeOK'
  BY <1>1, <1>3 DEF TypeOK, Wait, Goto, Set, PCs, WaitPCs, flags, links, locks, shared, conds
<1>6. PagesOK' /\ FlagsOK'
  BY <1>1, <1>2, <1>3, <1>4, ProcessAssumption DEF PagesOK, FlagsOK, links, flags, Gone, StartPCs
<1>7. ArgOK'
  <2>1. children \in [Proc -> SUBSET Proc]
    BY <1>1 DEF TypeOK
  <2>2. \A u \in Proc : pc[u] = "reap" => u # p /\ arg[u] \in Proc /\ pc'[arg[u]] \in Gone
    BY <2>1, <1>1, <1>2, <1>4 DEF ArgOK, WaitPCs, Gone
  <2>3. QED
    BY <2>2, <1>1, <1>2, <1>3, <1>4 DEF ArgOK, ExecPCs, WaitPCs, StartPCs, CallPCs, links
<1>8. FamilyOK'
  <2>1. \A q, x \in Proc : Concerned(q, x)' => Concerned(q, x)
    BY <1>2, <1>3, <1>4 DEF Concerned, links
  <2>2. QED
    BY <2>1, <1>1, <1>3 DEF FamilyOK, links
<1>9. OwnLocksOK' /\ WaitHeld'
  <2>1. {"user", "wait_lock"} \subseteq HoldsWait /\ "user" \notin HoldsExec
    BY DEF HoldsWait, HoldsExec, PCs, WaitPCs, Gone
  <2>2. QED
    BY <2>1, <1>1, <1>2, <1>3, <1>4 DEF OwnLocksOK, WaitHeld, locks, flags
<1>10. SharedOK' /\ CondsOK'
  BY <1>1, <1>2, <1>3, <1>4 DEF SharedOK, CondsOK, locks, shared, conds
<1>11. QED
  BY <1>5, <1>6, <1>7, <1>8, <1>9, <1>10 DEF IInv

(* process_wait with lock_wait of the child: it looks, and goes on to reap *)
(* or waits on cond_exit.  When it has the lock and finds exit set the     *)
(* child is past its last use of its struct process.                       *)
LEMMA WaitLoopStep ==
  ASSUME IInv, NEW p \in Proc, WaitLock(p) \/ WaitLoop(p)
  PROVE  IInv'
<1>1. /\ TypeOK /\ PagesOK /\ FlagsOK /\ ArgOK /\ FamilyOK
      /\ OwnLocksOK /\ WaitHeld /\ SharedOK /\ CondsOK
  BY DEF IInv
<1>2. /\ pc[p] \in {"wait_lock", "wait_loop"} /\ arg[p] \in Proc /\ arg[p] \in children[p]
      /\ arg[p] # p /\ arg[p] # Root
  <2>1. pc[p] \in {"wait_lock", "wait_loop"} /\ arg[p] \in Proc /\ arg[p] \in children[p]
    BY <1>1 DEF WaitLock, WaitLoop, At, ArgOK, TypeOK, WaitPCs
  <2>2. QED
    BY <2>1, <1>1 DEF FamilyOK, Concerned
<1>3. UNCHANGED <<arg, flags, links, lock_exec, shared, cond_load_done, result>>
  BY DEF WaitLock, WaitLoop, conds
<1>4. /\ pc'[p] \in {"wait_lock", "wait_loop", "reap"} /\ \A u \in Proc : u # p => pc'[u] = pc[u]
      /\ pc'[p] = "wait_loop" => pc[p] = "wait_lock" /\ lock_wait[arg[p]] = NULL
      /\ pc'[p] = "reap" => pc[p] = "wait_loop" /\ exit[arg[p]]
  BY <1>1 DEF WaitLock, WaitLoop, TypeOK, At, Goto
<1>5. /\ lock_wait'[arg[p]] = IF pc'[p] = "wait_loop" THEN p ELSE NULL
      /\ \A u \in Proc : u # arg[p] => lock_wait'[u] = lock_wait[u]
  BY <1>1, <1>2, <1>4 DEF WaitLock, WaitLoop, TypeOK, Goto, Set
<1>6. /\ pc[p] = "wait_lock" => cond_exit[arg[p]] # p
      /\ pc'[p] = "wait_lock" => cond_exit'[arg[p]] = p
      /\ pc'[p] # "wait_lock" => cond_exit' = cond_exit
      /\ \A u \in Proc : u # arg[p] => cond_exit'[u] = cond_exit[u]
  BY <1>1, <1>2 DEF WaitLock, WaitLoop, TypeOK, At, Goto, Set, conds
<1>7. pc[arg[p]] \notin HoldsWait
  BY <1>1, <1>2, <1>4, ProcessAssumption DEF WaitHeld, WaitLock, WaitLoop, At
<1>8. TypeOK'
  <2>1. pc' \in [Proc -> PCs]
    BY <1>1 DEF WaitLock, WaitLoop, TypeOK, Goto, PCs, WaitPCs
  <2>2. lock_wait' \in [Proc -> Proc \cup {NULL}] /\ cond_exit' \in [Proc -> Proc \cup {NULL}]
    BY <1>1 DEF WaitLock, WaitLoop, TypeOK, Set, conds
  <2>3. QED
    BY <2>1, <2>2, <1>1, <1>3 DEF TypeOK, flags, links, shared
<1>9. PagesOK' /\ FlagsOK'
  BY <1>1, <1>2, <1>3, <1>4, ProcessAssumption DEF PagesOK, FlagsOK, flags, links, Gone, StartPCs
<1>10. ArgOK'
  <2>1. children \in [Proc -> SUBSET Proc]
    BY <1>1 DEF TypeOK
  <2>2. \A u \in Proc : pc[u] = "reap" => u # p /\ arg[u] \in Proc /\ pc'[arg[u]] \in Gone
    BY <2>1, <1>1, <1>2, <1>4 DEF ArgOK, WaitPCs, Gone
  <2>3. exit[arg[p]] => pc[arg[p]] \in Gone
    <3>1. pc[arg[p]] \in PCs
      BY <1>1, <1>2 DEF TypeOK
    <3>2. QED
      BY <3>1, <1>1, <1>2, <1>7 DEF FlagsOK, HoldsWait, Gone
  <2>4. pc'[p] = "reap" => pc'[arg[p]] \in Gone
    BY <2>3, <1>2, <1>4
  <2>5. QED
    BY <2>2, <2>4, <1>1, <1>2, <1>3, <1>4 DEF ArgOK, ExecPCs, WaitPCs, StartPCs, CallPCs, links
<1>11. FamilyOK'
  BY <1>1, <1>3 DEF FamilyOK, Concerned, links
<1>12. OwnLocksOK'
  <2>1. /\ {"wait_lock", "wait_loop", "reap"} \subseteq HoldsWait
        /\ {"wait_lock", "wait_loop"} \cap HoldsExec = {}
    BY DEF HoldsWait, HoldsExec, PCs, WaitPCs, Gone
  <2>2. QED
    BY <2>1, <1>1, <1>2, <1>3, <1>4, <1>5, ProcessAssumption DEF OwnLocksOK, flags
<1>13. WaitHeld'
  <2>1. {"wait_lock", "wait_loop"} \subseteq HoldsWait
    BY DEF HoldsWait, PCs, WaitPCs, Gone
  <2>2. ASSUME NEW u \in Proc, u # p, pc[u] = "wait_loop" PROVE arg[u] \in Proc /\ arg[u] # arg[p]
    <3>1. arg[u] \in children[u] /\ children[u] \subseteq Proc
      BY <2>2, <1>1 DEF ArgOK, TypeOK, WaitPCs
    <3>2. QED
      BY <3>1, <2>2, <1>1, <1>2 DEF FamilyOK, Concerned
  <2>3. QED
    BY <2>1, <2>2, <1>1, <1>2, <1>3, <1>4, <1>5, <1>7 DEF WaitHeld
<1>14. SharedOK'
  BY <1>1, <1>2, <1>3, <1>4 DEF SharedOK, shared
<1>15. CondsOK'
  BY <1>1, <1>2, <1>3, <1>4, <1>6 DEF CondsOK
<1>16. QED
  BY <1>8, <1>9, <1>10, <1>11, <1>12, <1>13, <1>14, <1>15 DEF IInv

(* process_reap: the child is no one's child any more, and is gone. *)
LEMMA ReapStep ==
  ASSUME IInv, NEW p \in Proc, Reap(p)
  PROVE  IInv'
<1>1. /\ TypeOK /\ PagesOK /\ FlagsOK /\ ArgOK /\ FamilyOK
      /\ OwnLocksOK /\ WaitHeld /\ SharedOK /\ CondsOK
  BY DEF IInv
<1>2. /\ pc[p] = "reap" /\ arg[p] \in Proc /\ arg[p] \in children[p] /\ arg[p] # p
      /\ pc[arg[p]] \in Gone
  <2>1. pc[p] = "reap" /\ arg[p] \in Proc /\ arg[p] \in children[p] /\ pc[arg[p]] \in Gone
    BY <1>1, Zenon DEF Reap, At, ArgOK, TypeOK, WaitPCs
  <2>2. QED
    BY <2>1, <1>1 DEF FamilyOK, Concerned
<1>3. UNCHANGED <<flags, alive, dir, locks, conds>>
  BY DEF Reap
<1>4. /\ pc'[p] = "user" /\ arg'[p] = NULL
      /\ \A u \in Proc : u # p => pc'[u] = pc[u] /\ arg'[u] = arg[u] /\ children'[u] = children[u]
      /\ children'[p] = children[p] \ {arg[p]}
      /\ page'[arg[p]] = "freed" /\ \A u \in Proc : u # arg[p] => page'[u] = page[u]
  BY <1>1, <1>2 DEF Reap, Return, process_reap, Goto, Set, TypeOK
<1>5. TypeOK'
  <2>1. pc' \in [Proc -> PCs] /\ arg' \in [Proc -> Proc \cup {NULL}]
    BY <1>1 DEF Reap, Return, Goto, Set, TypeOK, PCs
  <2>2. page' \in [Proc -> {"none", "used", "freed"}] /\ children' \in [Proc -> SUBSET Proc]
    BY <1>1, Zenon DEF Reap, process_reap, Set, TypeOK
  <2>3. result' \in [Proc -> Proc \cup Status \cup {PID_ERROR, NULL}]
    BY <1>1, <1>2, Zenon DEF Reap, Return, Set, TypeOK
  <2>4. QED
    BY <2>1, <2>2, <2>3, <1>1, <1>3 DEF TypeOK, flags, locks, shared, conds
<1>6. PagesOK'
  BY <1>1, <1>2, <1>4, ProcessAssumption DEF PagesOK, Gone
<1>7. FlagsOK'
  BY <1>1, <1>2, <1>3, <1>4, Zenon DEF FlagsOK, flags, Gone, StartPCs
<1>8. ArgOK'
  <2>1. children \in [Proc -> SUBSET Proc]
    BY <1>1, Zenon DEF TypeOK
  <2>2. \A u \in Proc : u # p /\ pc[u] = "reap" => arg[u] \in Proc /\ pc'[arg[u]] \in Gone
    BY <2>1, <1>1, <1>2, <1>4, Zenon DEF ArgOK, WaitPCs, Gone
  <2>3. QED
    BY <2>2, <1>1, <1>2, <1>4 DEF ArgOK, ExecPCs, WaitPCs, StartPCs, CallPCs
<1>9. FamilyOK'
  <2>1. \A q, c \in Proc : Concerned(q, c)' => Concerned(q, c) /\ c # arg[p]
    <3>1. \A q \in Proc : Concerned(q, arg[p]) => q = p
      BY <1>1, <1>2 DEF FamilyOK, Concerned
    <3>2. QED
      BY <3>1, <1>2, <1>4, ProcessAssumption DEF Concerned
  <2>2. QED
    BY <2>1, <1>1, <1>4 DEF FamilyOK
<1>10. OwnLocksOK' /\ WaitHeld'
  <2>1. {"user", "reap"} \subseteq HoldsWait /\ "reap" \notin HoldsExec
    BY Zenon DEF HoldsWait, HoldsExec, PCs, WaitPCs, Gone
  <2>2. QED
    BY <2>1, <1>1, <1>2, <1>3, <1>4 DEF OwnLocksOK, WaitHeld, locks, flags
<1>11. SharedOK' /\ CondsOK'
  BY <1>1, <1>2, <1>3, <1>4 DEF SharedOK, CondsOK, locks, shared, conds
<1>12. QED
  BY <1>5, <1>6, <1>7, <1>8, <1>9, <1>10, <1>11 DEF IInv

----------------------------------------------------------------------------
(* run_task's process is the only one, and nothing is held. *)
LEMMA InitIInv == Init => IInv
<1> SUFFICES ASSUME Init PROVE IInv
  OBVIOUS
<1> USE ProcessAssumption DEF Init
<1>1. TypeOK
  BY DEF TypeOK, PCs, InitStatus
<1>2. PagesOK /\ FlagsOK
  BY DEF PagesOK, FlagsOK
<1>3. ArgOK /\ FamilyOK
  BY DEF ArgOK, FamilyOK, Concerned, ExecPCs, WaitPCs
<1>4. OwnLocksOK /\ SharedOK /\ CondsOK
  BY DEF OwnLocksOK, SharedOK, CondsOK
<1>5. WaitHeld
  BY DEF WaitHeld, HoldsWait
<1>6. QED
  BY <1>1, <1>2, <1>3, <1>4, <1>5 DEF IInv

(* Every step of every process keeps the invariant. *)
LEMMA NextIInv == IInv /\ [Next]_vars => IInv'
<1> SUFFICES ASSUME IInv, [Next]_vars PROVE IInv'
  BY Zenon
<1>1. CASE UNCHANGED vars
  BY <1>1 DEF vars, flags, links, locks, shared, conds, IInv, TypeOK, PagesOK, FlagsOK, ArgOK, FamilyOK,
              Concerned, OwnLocksOK, WaitHeld, SharedOK, CondsOK
<1>2. ASSUME NEW p \in Proc, User(p) PROVE IInv'
  <2>1. ASSUME NEW c \in Proc, Exec(p, c) PROVE IInv'
    BY <2>1, ExecStep
  <2>2. ASSUME NEW c \in Proc, Wait(p, c) PROVE IInv'
    <3>1. CASE process_find_child(p, c)
      BY <2>2, <3>1, WaitStep
    <3>2. CASE ~process_find_child(p, c)
      BY <2>2, <3>2, ReturnStep DEF Wait, MayWait, At
    <3>3. QED
      BY <3>1, <3>2
  <2>3. CASE ExecFail(p)
    BY <2>3, ReturnStep DEF ExecFail, MayExec, At
  <2>4. QED
    BY <1>2, <2>1, <2>2, <2>3, CallStep DEF User
<1>3. ASSUME NEW p \in Proc, Continue(p) PROVE IInv'
  BY <1>3, FindStep, InheritStep, ExecWaitStep, OwnExecStep, OwnWaitStep, LoadStep, CallStep, ExitStep,
     WaitLoopStep, ReapStep
     DEF Continue
<1>4. QED
  BY <1>1, <1>2, <1>3 DEF Next

(* The inductive invariant holds always. *)
THEOREM ProcessInvariant == Spec => []IInv
  BY InitIInv, NextIInv, PTL DEF Spec

(* The variables of process.c keep their types. *)
THEOREM ProcessTypeOK == Spec => []TypeOK
<1>1. IInv => TypeOK
  BY DEF IInv
<1>2. QED
  BY <1>1, ProcessInvariant, PTL

(* process_reap (process.c) frees a struct process that no one uses, holds *)
(* or waits for any more, and no one will.                                 *)
THEOREM ReapedUnused == Spec => []NoUseAfterReap
<1>1. IInv => NoUseAfterReap
  <2> SUFFICES ASSUME IInv, NEW c \in Proc, page[c] = "freed"
               PROVE  /\ pc[c] \in {"exit_thread", "dead"}
                      /\ lock_exec[c] = NULL /\ lock_wait[c] = NULL
                      /\ cond_load_done[c] = NULL /\ cond_exit[c] = NULL
                      /\ \A p \in Proc : arg[p] # c /\ c \notin children[p]
    BY DEF NoUseAfterReap
  <2>1. pc[c] \in Gone
    BY DEF IInv, PagesOK
  <2>2. \A p \in Proc : arg[p] # c /\ c \notin children[p]
    BY DEF IInv, FamilyOK, Concerned
  <2>3. lock_exec[c] \in Proc \cup {NULL} /\ lock_wait[c] \in Proc \cup {NULL}
    BY DEF IInv, TypeOK
  <2>4. cond_load_done[c] \in Proc \cup {NULL} /\ cond_exit[c] \in Proc \cup {NULL}
    BY DEF IInv, TypeOK
  <2>5. lock_exec[c] = NULL /\ lock_wait[c] = NULL
    BY <2>1, <2>2, <2>3 DEF IInv, OwnLocksOK, HoldsExec, HoldsWait, Gone
  <2>6. cond_load_done[c] = NULL /\ cond_exit[c] = NULL
    BY <2>2, <2>4 DEF IInv, CondsOK
  <2>7. QED
    BY <2>1, <2>2, <2>5, <2>6 DEF Gone
<1>2. QED
  BY <1>1, ProcessInvariant, PTL

(* process_exit (process.c) has released its locks, however the process    *)
(* came to it.                                                             *)
THEOREM DeadReleased == Spec => []DeadHoldsNothing
<1>1. IInv => DeadHoldsNothing
  BY DEF IInv, DeadHoldsNothing, SharedOK, OwnLocksOK, HoldsExec, HoldsWait, Gone
<1>2. QED
  BY <1>1, ProcessInvariant, PTL

----------------------------------------------------------------------------
(* A process in a call is moved by its own steps only. *)
LEMMA OwnSteps ==
  ASSUME IInv, NEW p \in Proc, User(p) \/ Continue(p), NEW u \in Proc, u # p, pc[u] # "none"
  PROVE  pc'[u] = pc[u]
<1>1. pc \in [Proc -> PCs] /\ \A c \in Proc : page[c] = "none" => pc[c] = "none"
  BY Zenon DEF IInv, TypeOK, PagesOK
<1>2. CASE User(p)
  BY <1>1, <1>2 DEF User, Exec, Wait, ExecFail, get_pointer, Syscall, MapFrames, Exit, Goto, Return, Die
<1>3. CASE Continue(p)
  BY ZenonT(60), <1>1, <1>3
     DEF Continue, ExecFind, ExecInherit, ExecLock, ExecLoop, StartExec, StartWait, StartFile, Loaded, Load,
         LoadFrames, LoadFault, SyscallReturn, MapFile, ExitVM, ExitClose, SyscallFault, FaultReturn,
         FaultExit, ExitFrames, ExitFlag, ExitExec, ExitWait, ExitThread, WaitLock, WaitLoop, Reap,
         Goto, Return, Die
<1>4. QED
  BY <1>2, <1>3

(* In the loop of process_execute or in process_wait a process takes only  *)
(* the steps of that call.                                                 *)
LEMMA CallSteps ==
  ASSUME NEW p \in Proc, User(p) \/ Continue(p), pc[p] = "exec_loop" \/ pc[p] \in WaitPCs
  PROVE  \/ pc[p] = "exec_loop" /\ ExecLoop(p)
         \/ pc[p] = "reap" /\ Reap(p)
         \/ WaitLock(p) \/ WaitLoop(p)
<1>1. ~User(p)
  BY DEF User, Exec, Wait, ExecFail, get_pointer, Syscall, MapFrames, Exit, MayExec, MayWait, At, WaitPCs
<1>2. \/ ExecLoop(p) \/ Reap(p) \/ WaitLock(p) \/ WaitLoop(p)
  BY <1>1, ZenonT(60) DEF Continue, ExecFind, ExecInherit, ExecLock, StartExec, StartWait, StartFile, Loaded, Load,
         LoadFrames, LoadFault, SyscallReturn, MapFile, ExitVM, ExitClose, SyscallFault, FaultReturn,
         FaultExit, ExitFrames, ExitFlag, ExitExec, ExitWait, ExitThread, At, WaitPCs
<1>3. QED
  BY <1>2, Zenon DEF ExecLoop, Reap, At

(* process_execute and process_wait (process.c) return to the parent only  *)
(* once the child has finished its load, or has terminated, with what it   *)
(* made of it.                                                             *)
THEOREM ParentHears == Spec => ChildHeard
<1> USE DEF ExecAfterLoad, WaitAfterExit
<1>1. ASSUME IInv, NEW q \in Proc, User(q) \/ Continue(q), NEW p \in Proc PROVE ExecAfterLoad(p) /\ WaitAfterExit(p)
  <2>1. pc[p] \in {"exec_loop", "reap"} =>
          /\ arg[p] \in Proc /\ arg[p] \in children[p] /\ page[arg[p]] = "used"
          /\ pc[p] = "reap" => pc[arg[p]] \in Gone
    <3>1. pc[p] \in {"exec_loop", "reap"} => arg[p] \in children[p] /\ (pc[p] = "reap" => pc[arg[p]] \in Gone)
      BY <1>1, Zenon DEF IInv, ArgOK, ExecPCs, WaitPCs
    <3>2. children[p] \subseteq Proc
      BY <1>1 DEF IInv, TypeOK
    <3>3. QED
      BY Zenon, <3>1, <3>2, <1>1 DEF IInv, FamilyOK, Concerned
  <2>2. CASE q # p
    BY <2>2, <1>1, OwnSteps, Zenon DEF WaitPCs
  <2>3. CASE q = p /\ pc[p] = "exec_loop" /\ ExecLoop(p)
    <3>1. pc'[p] = "user" => load[arg[p]]
      BY <2>3, <1>1, Zenon DEF ExecLoop, ExecDone, Goto, IInv, TypeOK
    <3>2. load[arg[p]] => pc[arg[p]] \notin StartPCs
      BY <2>1, <2>3, <1>1, Zenon DEF IInv, FlagsOK
    <3>3. pc'[p] = "user" => result'[p] = IF success[arg[p]] THEN arg[p] ELSE PID_ERROR
      BY <2>3, <1>1, Zenon DEF ExecLoop, Goto, Return, Set, IInv, TypeOK
    <3>4. QED
      BY <2>1, <2>3, <3>1, <3>2, <3>3, ProcessAssumption DEF WaitPCs
  <2>4. CASE q = p /\ pc[p] = "reap" /\ Reap(p)
    <3>1. result'[p] = status[arg[p]]
      BY <2>4, <1>1, Zenon DEF Reap, Return, Set, IInv, TypeOK
    <3>2. QED
      BY <2>1, <2>4, <3>1 DEF Gone
  <2>5. CASE q = p /\ (WaitLock(p) \/ WaitLoop(p))
    BY <2>5, <1>1 DEF WaitLock, WaitLoop, At, Goto, IInv, TypeOK
  <2>6. QED
    BY <1>1, <2>2, <2>3, <2>4, <2>5, CallSteps, Zenon
<1>2. IInv /\ [Next]_vars => [\A p \in Proc : ExecAfterLoad(p) /\ WaitAfterExit(p)]_vars
  BY <1>1, Zenon DEF Next
<1>3. QED
  BY <1>2, ProcessInvariant, PTL DEF Spec, ChildHeard
============================================================================
