--------------------------- MODULE ThreadsProofs ---------------------------
(***************************************************************************)
(* Proofs about Threads, for any number of threads and semaphores, any     *)
(* time slice and any width of ticks: the run queue, the wait lists, the   *)
(* wake-ups and the alarm clock are right.                                 *)
(***************************************************************************)
EXTENDS ThreadsSteps, FiniteSetTheorems

USE SMTT(30), Zenon

----------------------------------------------------------------------------
(* The state thread_start leaves satisfies IInv. *)
LEMMA InitIInv == Init => IInv
<1> SUFFICES ASSUME Init PROVE IInv
  OBVIOUS
<1> USE Pages
<1>1. /\ status \in [Thread -> Statuses] /\ status[Main] = "RUNNING" /\ status[Idle] = "READY"
      /\ \A t \in Thread \ {Main, Idle} : status[t] = "FREE"
  BY DEF Init, Statuses
<1>2. /\ pc \in [Thread -> PCs] /\ pc[Main] = "down" /\ pc[Idle] = "idle_start"
      /\ \A t \in Thread \ {Main, Idle} : pc[t] = "dead"
  BY DEF Init, PCs
<1>3. arg \in [Thread -> Sema \cup Thread \cup {NULL}] /\ arg[Main] = IdleStarted
  BY DEF Init
<1>4. ready_list \in Seq(Thread) /\ Range(ready_list) = {Idle} /\ IsInjective(ready_list)
  <2>1. ready_list = <<Idle>>
    BY DEF Init
  <2>2. QED
    BY <2>1, OneElement
<1>5. /\ running = Main /\ idle_thread = NULL /\ thread_ticks = 0 /\ cursor = 0
      /\ yield_on_return = FALSE /\ sleepList = <<>>
      /\ value \in [Sema -> 0..MaxValue]
      /\ waiters \in [Sema -> Seq(Thread)] /\ \A s \in Sema : waiters[s] = <<>>
      /\ sleepTick \in [Thread -> 0..MaxSleep] /\ ticks = 0
      /\ deadline \in [Thread -> 0..TickMod-1]
  BY ThreadsAssumption DEF Init
<1>6. TypeOK
  <2>1. /\ thread_ticks \in 0..TIME_SLICE /\ ticks \in 0..TickMod-1 /\ cursor \in Nat
        /\ sleepList \in Seq(Thread)
    BY <1>5, ThreadsAssumption
  <2>2. yield_on_return \in BOOLEAN /\ running \in Thread /\ idle_thread \in {NULL, Idle}
    BY <1>5, Zenon
  <2>3. QED
    BY <1>1, <1>2, <1>3, <1>4, <1>5, <2>1, <2>2, Zenon DEF TypeOK
<1>7. RunQueueOK
  BY <1>1, <1>4, <1>5 DEF RunQueueOK
<1>8. SemaListsOK /\ SleepListOK
  BY <1>1, <1>2, <1>5, EmptyList, Zenon DEF SemaListsOK, SleepListOK
<1>9. BlockedOK
  BY <1>1, <1>2 DEF BlockedOK
<1>10. CallsOK
  BY <1>1, <1>2, <1>3, <1>5, Zenon, ZeroTick DEF CallsOK
<1>11. QED
  BY <1>6, <1>7, <1>8, <1>9, <1>10 DEF IInv, WaitListsOK

(* Every step keeps the invariant: one case per action. *)
LEMMA NextIInv == IInv /\ [Next]_vars => IInv'
<1> SUFFICES ASSUME IInv, [Next]_vars PROVE IInv'
  OBVIOUS
<1> USE Pages
<1>1. pc \in [Thread -> PCs] /\ arg \in [Thread -> Sema \cup Thread \cup {NULL}]
      /\ running \in Thread
  BY DEF IInv, TypeOK
<1>2. ASSUME NEW s \in Sema \ {IdleStarted},
             SemaDown(s) \/ SemaTryDown(s) \/ SemaUp(s) \/ DeviceInterrupt(s)
      PROVE  IInv'
  <2>1. CASE SemaDown(s)
    BY <2>1, SemaDownTurnStep DEF SemaDown, At
  <2>2. CASE SemaTryDown(s)
    BY <2>2, SemaTryDownStep
  <2>3. CASE SemaUp(s)
    BY <1>1, <2>3, UpStep DEF SemaUp, Ups
  <2>4. CASE DeviceInterrupt(s)
    <3>1. Up(s) /\ EndHlt /\ UNCHANGED <<idle_thread, clock, alarm, arg>>
      BY <2>4 DEF DeviceInterrupt
    <3>2. /\ pc' \in [Thread -> PCs]
          /\ \A t \in Thread :
               \/ pc'[t] = pc[t]
               \/ t = running /\ t = Idle /\ pc[t] = "idle_hlt" /\ pc'[t] = "idle_block"
      BY <3>1, EndHltFacts
    <3>3. QED
      BY <1>1, <3>1, <3>2, UpStep DEF Ups
  <2>5. QED
    BY <1>2, <2>1, <2>2, <2>3, <2>4
<1>3. CASE SemaDownRetry
  <2>1. arg[running] \in Sema
    BY <1>1, <1>3 DEF SemaDownRetry, At, IInv, CallsOK
  <2>2. QED
    BY <1>3, <2>1, SemaDownTurnStep DEF SemaDownRetry, At
<1>4. CASE \E t \in Thread : ThreadCreate(t)
  BY <1>4, ThreadCreateStep
<1>5. CASE ThreadCreateDone \/ ThreadCreateFail
  BY <1>5, ThreadCreateEndStep
<1>6. CASE ThreadExit
  BY <1>6, ExitStep
<1>7. CASE ThreadYield
  <2>1. /\ Yield /\ pc[running] = "kernel" /\ cursor = 0
        /\ UNCHANGED <<idle_thread, sema, clock, alarm, pc, arg>>
    BY <1>7 DEF ThreadYield, At
  <2>2. cursor' = 0 /\ ticks' = ticks /\ yield_on_return' \in BOOLEAN
    BY <2>1 DEF clock, IInv, TypeOK
  <2>3. QED
    BY <2>1, <2>2, YieldStep
<1>8. CASE \E n \in 1..MaxSleep : ThreadSleep(n)
  BY <1>8, ThreadSleepStep
<1>9. CASE IdleStart
  BY <1>9, IdleStartStep
<1>10. CASE IdleUp
  <2>1. /\ pc[running] = "idle_up" /\ Up(IdleStarted)
        /\ Goto("idle_block", NULL)
        /\ UNCHANGED <<idle_thread, clock, alarm>>
    BY <1>10 DEF IdleUp, At
  <2>2. /\ pc' \in [Thread -> PCs] /\ pc'[running] = "idle_block"
        /\ arg' \in [Thread -> Sema \cup Thread \cup {NULL}]
        /\ \A t \in Thread \ {running} : pc'[t] = pc[t] /\ arg'[t] = arg[t]
    BY <1>1, <2>1 DEF Goto, PCs
  <2>3. QED
    BY <2>1, <2>2, UpStep DEF Ups
<1>11. CASE IdleBlock
  BY <1>11, IdleBlockStep
<1>12. CASE TimerInterrupt
  BY <1>12, TimerInterruptStep
<1>13. CASE TimerWalk
  BY <1>13, TimerWalkStep
<1>14. CASE TimerReturn
  <2>1. /\ cursor > Len(sleepList) /\ cursor' = 0 /\ yield_on_return' = FALSE
        /\ IF yield_on_return THEN Yield ELSE UNCHANGED sched
        /\ UNCHANGED <<idle_thread, sema, ticks, alarm, pc, arg>>
    BY <1>14 DEF TimerReturn
  <2>2. CASE yield_on_return
    <3>1. Len(sleepList) \in Nat /\ cursor \in Nat
      BY DEF IInv, TypeOK
    <3>2. cursor > 0
      BY <2>1, <3>1
    <3>3. pc[running] # "idle_hlt"
      BY <3>2 DEF IInv, CallsOK
    <3>4. QED
      BY <2>1, <2>2, <3>3, YieldStep, Zenon
  <2>3. CASE ~yield_on_return
    <3>1. /\ cursor' = 0 /\ yield_on_return' = FALSE
          /\ UNCHANGED <<sched, idle_thread, sema, ticks, alarm, pc, arg>>
      BY <2>1, <2>3
    <3>2. thread_ticks # TIME_SLICE
      BY <2>3 DEF IInv, CallsOK
    <3>3. QED
      BY <3>1, <3>2, QuietStep, Zenon
  <2>4. QED
    BY <2>2, <2>3, Zenon DEF IInv, TypeOK
<1>15. CASE UNCHANGED vars
  BY <1>15, QuietStep, Zenon DEF vars, clock
<1>16. QED
  BY <1>2, <1>3, <1>4, <1>5, <1>6, <1>7, <1>8, <1>9, <1>10, <1>11, <1>12, <1>13, <1>14, <1>15
     DEF Next, Timer

(* The inductive invariant holds in every reachable state. *)
THEOREM ThreadsInvariant == Spec => []IInv
  BY InitIInv, NextIInv, PTL DEF Spec

(* Type correctness of the scheduler, the semaphores and the alarm clock. *)
THEOREM ThreadsTypeOK == Spec => []TypeOK
<1>1. IInv => TypeOK
  BY DEF IInv
<1>2. QED
  BY <1>1, ThreadsInvariant, PTL

(* The run queue holds exactly the READY threads, each once, whatever      *)
(* sequence of calls and interrupts led there.                             *)
THEOREM ThreadsRunQueue == Spec => []RunQueueOK
<1>1. IInv => RunQueueOK
  BY DEF IInv
<1>2. QED
  BY <1>1, ThreadsInvariant, PTL

(* A blocked thread is in exactly the list of what it waits for, and no    *)
(* other thread is in any wait list.                                       *)
THEOREM ThreadsWaitLists == Spec => []WaitListsOK
<1>1. IInv => WaitListsOK
  BY DEF IInv
<1>2. QED
  BY <1>1, ThreadsInvariant, PTL

(* What each thread is in the middle of agrees with its state, at every    *)
(* point where an interrupt may come.                                      *)
THEOREM ThreadsCalls == Spec => []CallsOK
<1>1. IInv => CallsOK
  BY DEF IInv
<1>2. QED
  BY <1>1, ThreadsInvariant, PTL

----------------------------------------------------------------------------
(* Wake-ups.                                                               *)

(* How the number of woken threads follows their set. *)
LEMMA ThreadSets ==
  \A S, T \in SUBSET Thread :
    /\ Cardinality(S) \in Nat
    /\ S \subseteq T => Cardinality(S) <= Cardinality(T)
    /\ \A u \in Thread : S \ {u} \subseteq T => Cardinality(S) <= Cardinality(T) + 1
    /\ \A u \in Thread \ S : S \cup {u} \subseteq T => Cardinality(S) + 1 <= Cardinality(T)
<1> TAKE S, T \in SUBSET Thread
<1>1. /\ IsFiniteSet(S) /\ IsFiniteSet(T) /\ Cardinality(S) \in Nat /\ Cardinality(T) \in Nat
  BY ThreadsAssumption, FS_Subset, FS_CardinalityType
<1>2. S \subseteq T => Cardinality(S) <= Cardinality(T)
  BY <1>1, FS_Subset
<1>3. ASSUME NEW u \in Thread, S \ {u} \subseteq T PROVE Cardinality(S) <= Cardinality(T) + 1
  <2>1. Cardinality(S \ {u}) <= Cardinality(T)
    BY <1>1, <1>3, FS_Subset
  <2>2. Cardinality(S \ {u}) = IF u \in S THEN Cardinality(S) - 1 ELSE Cardinality(S)
    BY <1>1, FS_RemoveElement, Zenon
  <2>3. QED
    BY <1>1, <2>1, <2>2
<1>4. ASSUME NEW u \in Thread \ S, S \cup {u} \subseteq T PROVE Cardinality(S) + 1 <= Cardinality(T)
  <2>1. Cardinality(S \cup {u}) <= Cardinality(T)
    BY <1>1, <1>4, FS_Subset
  <2>2. Cardinality(S \cup {u}) = Cardinality(S) + 1
    BY <1>1, <1>4, FS_AddElement, Zenon
  <2>3. QED
    BY <1>1, <2>1, <2>2
<1>5. QED
  BY <1>1, <1>2, <1>3, <1>4

(* What a step must do for s so that no wake-up of s is lost: it keeps the *)
(* woken threads; or takes a unit and moves one of them at most; or adds a *)
(* unit and wakes one, unless none is left waiting; or leaves no unit.     *)
LEMMA WakeKept ==
  ASSUME IInv, NoLostWakeup, NEW s \in Sema, value'[s] \in Nat,
         \/ value'[s] <= value[s] /\ waiters'[s] = waiters[s] /\ Woken(s) \subseteq Woken(s)'
         \/ value'[s] = value[s] - 1 /\ waiters'[s] = waiters[s] /\ Woken(s) \ {running} \subseteq Woken(s)'
         \/ /\ value'[s] = value[s] + 1 /\ waiters[s] # <<>>
            /\ \E u \in Thread \ Woken(s) : Woken(s) \cup {u} \subseteq Woken(s)'
         \/ waiters'[s] = <<>>
         \/ value'[s] = 0
  PROVE  waiters'[s] # <<>> => value'[s] <= Cardinality(Woken(s)')
<1>1. Woken(s) \in SUBSET Thread /\ Woken(s)' \in SUBSET Thread /\ running \in Thread
  BY DEF Woken, IInv, TypeOK
<1>2. value[s] \in Nat /\ (waiters[s] # <<>> => value[s] <= Cardinality(Woken(s)))
  BY DEF IInv, TypeOK, NoLostWakeup
<1>3. /\ Cardinality(Woken(s)) \in Nat /\ Cardinality(Woken(s)') \in Nat
      /\ Woken(s) \subseteq Woken(s)' => Cardinality(Woken(s)) <= Cardinality(Woken(s)')
      /\ Woken(s) \ {running} \subseteq Woken(s)' => Cardinality(Woken(s)) <= Cardinality(Woken(s)') + 1
      /\ (\E u \in Thread \ Woken(s) : Woken(s) \cup {u} \subseteq Woken(s)')
           => Cardinality(Woken(s)) + 1 <= Cardinality(Woken(s)')
  BY <1>1, ThreadSets, Zenon
<1>4. QED
  BY <1>2, <1>3

(* A step on no semaphore keeps them, if it leaves the threads that are    *)
(* awake in sema_down where they are.                                      *)
LEMMA WokenStay ==
  ASSUME IInv, NoLostWakeup, value' = value, waiters' = waiters,
         \A t \in Thread : pc[t] = "down" /\ status[t] # "BLOCKED" =>
            pc'[t] = "down" /\ arg'[t] = arg[t] /\ status'[t] # "BLOCKED"
  PROVE  NoLostWakeup'
<1>1. ASSUME NEW s \in Sema PROVE waiters'[s] # <<>> => value'[s] <= Cardinality(Woken(s)')
  <2>1. value[s] \in Nat /\ value'[s] = value[s] /\ waiters'[s] = waiters[s]
    BY DEF IInv, TypeOK
  <2>2. Woken(s) \subseteq Woken(s)'
    BY DEF Woken
  <2>3. value'[s] \in Nat /\ value'[s] <= value[s]
    BY <2>1
  <2>4. QED
    BY <2>1, <2>2, <2>3, WakeKept
<1>2. QED
  BY <1>1 DEF NoLostWakeup

(* schedule () blocks no one that the caller has not. *)
LEMMA ScheduleAwake ==
  \A st \in [Thread -> Statuses], rl \in Seq(Thread) : Schedule(st, rl) =>
    \A t \in Thread : st[t] # "BLOCKED" => status'[t] # "BLOCKED"
  BY DEF Schedule

(* One turn of sema_down: it takes a unit, or blocks because there is none. *)
LEMMA DownTurnWakes ==
  ASSUME IInv, NoLostWakeup, NEW s \in Sema, SemaDownTurn(s),
         pc[running] = "kernel" \/ (pc[running] = "down" /\ arg[running] = s)
  PROVE  NoLostWakeup'
<1>1. /\ running \in Thread /\ status \in [Thread -> Statuses] /\ ready_list \in Seq(Thread)
      /\ value \in [Sema -> 0..MaxValue] /\ waiters \in [Sema -> Seq(Thread)]
      /\ pc \in [Thread -> PCs] /\ arg \in [Thread -> Sema \cup Thread \cup {NULL}]
      /\ MaxValue \in Nat
  BY ThreadsAssumption, Zenon DEF IInv, TypeOK
<1>2. ASSUME NEW r \in Sema PROVE waiters'[r] # <<>> => value'[r] <= Cardinality(Woken(r)')
  <2>1. value[r] \in Nat /\ value[s] \in Nat
    BY <1>1
  <2>2. CASE value[s] = 0
    <3>1. /\ value' = value /\ waiters' = [waiters EXCEPT ![s] = Append(@, running)]
          /\ Schedule([status EXCEPT ![running] = "BLOCKED"], ready_list) /\ Goto("down", s)
      BY <2>1, <2>2 DEF SemaDownTurn, Block
    <3>2. [status EXCEPT ![running] = "BLOCKED"] \in [Thread -> Statuses]
      BY <1>1 DEF Statuses
    <3>3. \A t \in Thread : [status EXCEPT ![running] = "BLOCKED"][t] # "BLOCKED" => status'[t] # "BLOCKED"
      BY <1>1, <3>1, <3>2, ScheduleAwake, Zenon
    <3>4. \A t \in Thread \ {running} :
            pc'[t] = pc[t] /\ arg'[t] = arg[t] /\ (status[t] # "BLOCKED" => status'[t] # "BLOCKED")
      BY <1>1, <3>1, <3>3 DEF Goto
    <3>5. r # s => Woken(r) \subseteq Woken(r)'
      BY <3>4 DEF Woken
    <3>6. r # s => waiters'[r] = waiters[r]
      BY <1>1, <3>1
    <3>7. value'[r] \in Nat /\ value'[r] <= value[r] /\ (r = s => value'[r] = 0)
      BY <2>1, <2>2, <3>1
    <3>8. QED
      BY <3>5, <3>6, <3>7, WakeKept
  <2>3. CASE value[s] # 0
    <3>1. /\ value' = [value EXCEPT ![s] = @ - 1] /\ UNCHANGED <<waiters, status>> /\ Goto("kernel", NULL)
      BY <2>1, <2>3 DEF SemaDownTurn, sched
    <3>2. \A t \in Thread \ {running} : pc'[t] = pc[t] /\ arg'[t] = arg[t] /\ status'[t] = status[t]
      BY <1>1, <3>1 DEF Goto
    <3>3. Woken(r) \ {running} \subseteq Woken(r)' /\ (r # s => Woken(r) \subseteq Woken(r)')
      BY <3>2 DEF Woken
    <3>4. waiters'[r] = waiters[r] /\ value'[r] = IF r = s THEN value[r] - 1 ELSE value[r]
      BY <1>1, <3>1
    <3>5. value'[r] \in Nat /\ (r # s => value'[r] <= value[r])
      BY <2>1, <2>3, <3>4
    <3>6. QED
      BY <3>3, <3>4, <3>5, WakeKept
  <2>4. QED
    BY <2>2, <2>3
<1>3. QED
  BY <1>2 DEF NoLostWakeup

(* sema_try_down takes a unit, and moves no thread. *)
LEMMA TryDownWakes ==
  ASSUME IInv, NoLostWakeup, NEW s \in Sema, SemaTryDown(s)
  PROVE  NoLostWakeup'
<1>1. /\ value[s] > 0 /\ value' = [value EXCEPT ![s] = @ - 1]
      /\ UNCHANGED <<waiters, status, pc, arg>>
  BY DEF SemaTryDown, sched
<1>2. ASSUME NEW r \in Sema PROVE waiters'[r] # <<>> => value'[r] <= Cardinality(Woken(r)')
  <2>1. value[r] \in Nat /\ value[s] \in Nat /\ value'[r] = IF r = s THEN value[r] - 1 ELSE value[r]
    BY <1>1, ThreadsAssumption DEF IInv, TypeOK
  <2>2. value'[r] \in Nat /\ value'[r] <= value[r]
    BY <1>1, <2>1
  <2>3. Woken(r) \subseteq Woken(r)' /\ waiters'[r] = waiters[r]
    BY <1>1 DEF Woken
  <2>4. QED
    BY <2>2, <2>3, WakeKept
<1>3. QED
  BY <1>2 DEF NoLostWakeup

(* sema_up adds a unit, and wakes one of the threads that wait for it.     *)
LEMMA UpWakes ==
  ASSUME IInv, NoLostWakeup, NEW s \in Sema, Ups(s)
  PROVE  NoLostWakeup'
<1>1. /\ status \in [Thread -> Statuses] /\ value \in [Sema -> 0..MaxValue]
      /\ waiters \in [Sema -> Seq(Thread)] /\ MaxValue \in Nat
  BY ThreadsAssumption, Zenon DEF IInv, TypeOK
<1>2. value' = [value EXCEPT ![s] = @ + 1]
      /\ \A t \in Thread : pc[t] = "down" => pc'[t] = "down" /\ arg'[t] = arg[t]
  BY DEF Ups, Up
<1>3. ASSUME NEW r \in Sema PROVE waiters'[r] # <<>> => value'[r] <= Cardinality(Woken(r)')
  <2>1. value[r] \in Nat /\ value'[r] = IF r = s THEN value[r] + 1 ELSE value[r]
    BY <1>1, <1>2
  <2>2. value'[r] \in Nat /\ (r # s => value'[r] <= value[r])
    BY <2>1
  <2>3. CASE waiters[s] = <<>>
    <3>1. UNCHANGED <<waiters, status>>
      BY <2>3 DEF Ups, Up, WakesOne, sched
    <3>2. Woken(r) \subseteq Woken(r)'
      BY <1>2, <3>1 DEF Woken
    <3>3. QED
      BY <2>2, <2>3, <3>1, <3>2, WakeKept
  <2>4. CASE waiters[s] # <<>>
    <3> DEFINE u == Head(waiters[s])
    <3>1. waiters' = [waiters EXCEPT ![s] = Tail(@)] /\ status' = [status EXCEPT ![u] = "READY"]
      BY <2>4 DEF Ups, Up, WakesOne, Unblock
    <3>2. u \in Thread /\ u \in Range(waiters[s])
      BY <1>1, <2>4, PopFront
    <3>3. status[u] = "BLOCKED" /\ pc[u] = "down" /\ arg[u] = s
      BY <3>2 DEF IInv, WaitListsOK, SemaListsOK
    <3> HIDE DEF u
    <3>4. status'[u] = "READY" /\ \A t \in Thread \ {u} : status'[t] = status[t]
      BY <1>1, <3>1, <3>2
    <3>5. Woken(r) \subseteq Woken(r)' /\ u \notin Woken(r) /\ (r = s => u \in Woken(r)')
      BY <1>2, <3>2, <3>3, <3>4 DEF Woken
    <3>6. r # s => waiters'[r] = waiters[r]
      BY <1>1, <3>1
    <3>7. r = s => \E v \in Thread \ Woken(r) : Woken(r) \cup {v} \subseteq Woken(r)'
      BY <3>2, <3>5
    <3>8. QED
      BY <2>1, <2>2, <2>4, <3>5, <3>6, <3>7, WakeKept
  <2>5. QED
    BY <2>3, <2>4
<1>4. QED
  BY <1>3 DEF NoLostWakeup

(* The rest of the scheduler: no other call, and no part of the timer      *)
(* interrupt, touches a semaphore or a thread on its way out of sema_down. *)
LEMMA OthersWake ==
  ASSUME IInv, NoLostWakeup,
         \/ \E t \in Thread : ThreadCreate(t)
         \/ ThreadCreateDone \/ ThreadCreateFail \/ ThreadExit \/ ThreadYield
         \/ \E n \in 1..MaxSleep : ThreadSleep(n)
         \/ IdleStart \/ IdleBlock \/ Timer \/ UNCHANGED vars
  PROVE  NoLostWakeup'
<1> USE Pages
<1> DEFINE Stays(t) == pc'[t] = "down" /\ arg'[t] = arg[t] /\ status'[t] # "BLOCKED"
<1>1. /\ running \in Thread /\ status \in [Thread -> Statuses] /\ ready_list \in Seq(Thread)
      /\ pc \in [Thread -> PCs] /\ arg \in [Thread -> Sema \cup Thread \cup {NULL}]
      /\ Idle \in Thread /\ YieldQueue \in Seq(Thread)
  BY ThreadsAssumption DEF IInv, TypeOK, YieldQueue
<1>2. value' = value /\ waiters' = waiters
  BY Zenon DEF ThreadCreate, ThreadCreateDone, ThreadCreateFail, ThreadExit, ThreadYield, ThreadSleep,
         IdleStart, IdleBlock, Timer, TimerInterrupt, TimerWalk, TimerReturn, sema, vars
<1>3. SUFFICES ASSUME NEW t \in Thread, pc[t] = "down", status[t] # "BLOCKED"
               PROVE  Stays(t)
  BY <1>2, WokenStay
<1>4. [status EXCEPT ![running] = "BLOCKED"] \in [Thread -> Statuses]
      /\ [status EXCEPT ![running] = "READY"] \in [Thread -> Statuses]
      /\ [status EXCEPT ![running] = "DYING"] \in [Thread -> Statuses]
  BY <1>1 DEF Statuses
<1>5. Yield => status'[t] # "BLOCKED"
  BY <1>1, <1>3, <1>4, ScheduleAwake, Zenon DEF Yield
<1>6. Block /\ t # running => status'[t] # "BLOCKED"
  BY <1>1, <1>3, <1>4, ScheduleAwake, Zenon DEF Block
<1>7. ASSUME NEW n \in Thread, ThreadCreate(n) PROVE Stays(t)
  <2>1. n # t /\ pc[running] = "kernel" /\ running # t
    BY <1>3, <1>7 DEF ThreadCreate, At, IInv, CallsOK
  <2>2. QED
    BY <1>1, <1>3, <1>7, <2>1 DEF ThreadCreate
<1>8. CASE ThreadCreateDone \/ ThreadCreateFail
  <2>1. running # t /\ arg[running] \in Thread /\ arg[running] # t
    BY <1>1, <1>3, <1>8 DEF ThreadCreateDone, ThreadCreateFail, At, IInv, CallsOK
  <2>2. QED
    BY <1>1, <1>3, <1>8, <2>1, Zenon DEF ThreadCreateDone, ThreadCreateFail, Unblock, sched
<1>9. CASE ThreadExit
  <2>1. running # t
    BY <1>3, <1>9 DEF ThreadExit, At
  <2>2. status'[t] # "BLOCKED"
    BY <1>1, <1>3, <1>4, <1>9, <2>1, ScheduleAwake, Zenon DEF ThreadExit
  <2>3. QED
    BY <1>1, <1>3, <1>9, <2>1, <2>2 DEF ThreadExit, Goto
<1>10. CASE ThreadYield
  BY <1>3, <1>5, <1>10 DEF ThreadYield
<1>11. ASSUME NEW n \in 1..MaxSleep, ThreadSleep(n) PROVE Stays(t)
  <2>1. running # t
    BY <1>3, <1>11, Zenon DEF ThreadSleep, At
  <2>2. QED
    BY <1>1, <1>3, <1>6, <1>11, <2>1 DEF ThreadSleep, Goto
<1>12. CASE IdleStart \/ IdleBlock
  <2>1. running # t
    BY <1>3, <1>12 DEF IdleStart, IdleBlock, At
  <2>2. QED
    BY <1>1, <1>3, <1>6, <1>12, <2>1 DEF IdleStart, IdleBlock, Goto, sched
<1>13. CASE TimerInterrupt
  BY <1>1, <1>3, <1>13 DEF TimerInterrupt, EndHlt
<1>14. CASE TimerWalk
  <2> DEFINE u == sleepList[cursor]
  <2>1. u \in Thread /\ u \in Range(sleepList)
    BY <1>14 DEF TimerWalk, IInv, TypeOK, Range
  <2>2. pc[u] = "sleep"
    BY <2>1 DEF IInv, WaitListsOK, SleepListOK
  <2>3. /\ arg' = arg
        /\ \/ UNCHANGED <<status, pc>>
           \/ status' = [status EXCEPT ![u] = "READY"] /\ pc' = [pc EXCEPT ![u] = "kernel"]
    BY <1>14 DEF TimerWalk, ThreadAwake, Unblock, sched
  <2> HIDE DEF u
  <2>4. QED
    BY <1>1, <1>3, <2>1, <2>2, <2>3
<1>15. CASE TimerReturn
  BY <1>3, <1>5, <1>15 DEF TimerReturn, sched
<1>16. CASE UNCHANGED vars
  BY <1>3, <1>16 DEF vars, sched
<1>17. QED
  BY <1>7, <1>8, <1>9, <1>10, <1>11, <1>12, <1>13, <1>14, <1>15, <1>16 DEF Timer

(* Every step of the scheduler keeps the units of a semaphore that is      *)
(* waited for on their way to a thread.                                    *)
LEMMA NextWakes == IInv /\ NoLostWakeup /\ [Next]_vars => NoLostWakeup'
<1> SUFFICES ASSUME IInv, NoLostWakeup, [Next]_vars PROVE NoLostWakeup'
  OBVIOUS
<1>1. /\ running \in Thread /\ IdleStarted \in Sema /\ pc \in [Thread -> PCs]
      /\ arg \in [Thread -> Sema \cup Thread \cup {NULL}]
  BY ThreadsAssumption DEF IInv, TypeOK
<1>2. ASSUME NEW s \in Sema, SemaDown(s) \/ SemaTryDown(s) \/ SemaUp(s) \/ DeviceInterrupt(s)
      PROVE  NoLostWakeup'
  <2>1. CASE SemaDown(s)
    BY <2>1, DownTurnWakes DEF SemaDown, At
  <2>2. CASE SemaTryDown(s)
    BY <2>2, TryDownWakes
  <2>3. CASE SemaUp(s)
    BY <1>1, <2>3, UpWakes DEF SemaUp, Ups
  <2>4. CASE DeviceInterrupt(s)
    <3>1. Up(s) /\ EndHlt /\ UNCHANGED <<idle_thread, clock, alarm, arg>>
      BY <2>4 DEF DeviceInterrupt
    <3>2. /\ pc' \in [Thread -> PCs]
          /\ \A t \in Thread :
               \/ pc'[t] = pc[t]
               \/ t = running /\ t = Idle /\ pc[t] = "idle_hlt" /\ pc'[t] = "idle_block"
      BY <3>1, EndHltFacts
    <3>3. QED
      BY <1>1, <3>1, <3>2, UpWakes DEF Ups
  <2>5. QED
    BY <1>2, <2>1, <2>2, <2>3, <2>4
<1>3. CASE SemaDownRetry
  <2>1. arg[running] \in Sema
    BY <1>1, <1>3 DEF SemaDownRetry, At, IInv, CallsOK
  <2>2. QED
    BY <1>3, <2>1, DownTurnWakes DEF SemaDownRetry, At
<1>4. CASE IdleUp
  <2>1. /\ pc[running] = "idle_up" /\ Up(IdleStarted)
        /\ Goto("idle_block", NULL)
        /\ UNCHANGED <<idle_thread, clock, alarm>>
    BY <1>4 DEF IdleUp, At
  <2>2. /\ pc' \in [Thread -> PCs] /\ pc'[running] = "idle_block"
        /\ arg' \in [Thread -> Sema \cup Thread \cup {NULL}]
        /\ \A t \in Thread \ {running} : pc'[t] = pc[t] /\ arg'[t] = arg[t]
    BY <1>1, <2>1 DEF Goto, PCs
  <2>3. QED
    BY <1>1, <2>1, <2>2, UpWakes DEF Ups
<1>5. QED
  BY <1>2, <1>3, <1>4, OthersWake DEF Next

(* While threads wait for a semaphore, each unit of its value has a woken  *)
(* thread on its way to take it: sema_up wakes a thread for every unit,    *)
(* although others may take the unit first and the woken thread must then  *)
(* queue again.                                                            *)
THEOREM ThreadsNoLostWakeup == Spec => []NoLostWakeup
<1>1. Init => NoLostWakeup
  BY DEF Init, NoLostWakeup
<1>2. QED
  BY <1>1, NextWakes, ThreadsInvariant, PTL DEF Spec

----------------------------------------------------------------------------
(* The alarm clock.                                                        *)

(* The ticks that the i-th thread of sleepList has still to wait: while    *)
(* timer_interrupt walks the list, the present tick is already counted for *)
(* the threads its loop has passed, and not yet for the others.            *)
TicksLeft(i) == sleepTick[sleepList[i]] - (IF cursor # 0 /\ i >= cursor THEN 1 ELSE 0)

(* The countdowns of the sleepers agree with their deadlines, modulo the   *)
(* width of ticks.                                                         *)
CountdownOK ==
  \A i \in 1..Len(sleepList) :
    deadline[sleepList[i]] \in {ticks + TicksLeft(i), ticks + TicksLeft(i) - TickMod}

(* A clock of m ticks wraps round once at most when it advances by less    *)
(* than m.                                                                 *)
LEMMA ClockSum ==
  ASSUME NEW m \in Nat \ {0}, NEW a \in 0..m-1, NEW b \in 0..m-1
  PROVE  (a + b) % m = IF a + b < m THEN a + b ELSE a + b - m
  OBVIOUS

(* What the invariant says of a sleeper. *)
LEMMA SleeperFacts ==
  ASSUME IInv
  PROVE  /\ ticks \in Nat /\ ticks < TickMod /\ TickMod \in Nat /\ MaxSleep \in Nat
         /\ MaxSleep < TickMod /\ cursor \in Nat /\ Len(sleepList) \in Nat
         /\ sleepList \in Seq(Thread) /\ IsInjective(sleepList)
         /\ DOMAIN sleepList = 1..Len(sleepList)
         /\ \A i \in 1..Len(sleepList) :
              /\ sleepList[i] \in Thread /\ pc[sleepList[i]] = "sleep"
              /\ sleepTick[sleepList[i]] \in 1..MaxSleep
              /\ deadline[sleepList[i]] \in 0..TickMod-1
              /\ \A j \in 1..Len(sleepList) : sleepList[i] = sleepList[j] => i = j
<1>1. /\ ticks \in Nat /\ ticks < TickMod /\ TickMod \in Nat /\ MaxSleep \in Nat
      /\ MaxSleep < TickMod /\ cursor \in Nat /\ sleepList \in Seq(Thread)
      /\ sleepTick \in [Thread -> 0..MaxSleep] /\ deadline \in [Thread -> 0..TickMod-1]
  BY ThreadsAssumption DEF IInv, TypeOK
<1>2. IsInjective(sleepList) /\ \A t \in Thread : t \in Range(sleepList) <=> pc[t] = "sleep"
  BY Zenon DEF IInv, WaitListsOK, SleepListOK
<1>3. Len(sleepList) \in Nat /\ DOMAIN sleepList = 1..Len(sleepList)
  BY <1>1
<1>4. ASSUME NEW i \in 1..Len(sleepList)
      PROVE  /\ sleepList[i] \in Thread /\ pc[sleepList[i]] = "sleep"
             /\ sleepTick[sleepList[i]] \in 1..MaxSleep
             /\ deadline[sleepList[i]] \in 0..TickMod-1
             /\ \A j \in 1..Len(sleepList) : sleepList[i] = sleepList[j] => i = j
  <2>1. i \in DOMAIN sleepList /\ sleepList[i] \in Thread
    BY <1>1, <1>3
  <2>2. sleepList[i] \in Range(sleepList)
    BY <2>1, Zenon DEF Range
  <2>3. pc[sleepList[i]] = "sleep"
    BY <1>2, <2>1, <2>2
  <2>4. sleepTick[sleepList[i]] > 0 /\ sleepTick[sleepList[i]] \in 0..MaxSleep
    BY <1>1, <2>1, <2>3 DEF IInv, CallsOK
  <2>5. \A j \in 1..Len(sleepList) : sleepList[i] = sleepList[j] => i = j
    BY <1>2, <1>3, Zenon DEF IsInjective
  <2>6. deadline[sleepList[i]] \in 0..TickMod-1 /\ sleepTick[sleepList[i]] \in 1..MaxSleep
    BY <1>1, <2>1, <2>4
  <2>7. QED
    BY <2>1, <2>3, <2>5, <2>6
<1>5. QED
  BY <1>1, <1>2, <1>3, <1>4

(* A step that leaves the clock, the list and the sleepers alone. *)
LEMMA CountdownKept ==
  ASSUME IInv, CountdownOK, ticks' = ticks, cursor' = cursor, sleepList' = sleepList,
         \A i \in 1..Len(sleepList) : /\ sleepTick'[sleepList[i]] = sleepTick[sleepList[i]]
                                      /\ deadline'[sleepList[i]] = deadline[sleepList[i]]
  PROVE  CountdownOK'
  BY DEF CountdownOK, TicksLeft

(* ThreadSleep starts a countdown at the end of the list. *)
LEMMA SleepCountdown ==
  ASSUME IInv, CountdownOK, NEW n \in 1..MaxSleep, ThreadSleep(n)
  PROVE  CountdownOK'
<1>1. /\ cursor = 0 /\ cursor' = 0 /\ ticks' = ticks /\ pc[running] = "kernel"
      /\ sleepTick' = [sleepTick EXCEPT ![running] = n]
      /\ sleepList' = Append(sleepList, running)
      /\ deadline' = [deadline EXCEPT ![running] = (ticks + n) % TickMod]
  BY DEF ThreadSleep, At, clock
<1>2. /\ running \in Thread /\ sleepTick \in [Thread -> 0..MaxSleep]
      /\ deadline \in [Thread -> 0..TickMod-1]
  BY DEF IInv, TypeOK
<1>3. /\ sleepTick'[running] = n /\ deadline'[running] = (ticks + n) % TickMod
      /\ \A t \in Thread \ {running} : sleepTick'[t] = sleepTick[t] /\ deadline'[t] = deadline[t]
  BY <1>1, <1>2
<1>4. (ticks + n) % TickMod \in {ticks + n, ticks + n - TickMod}
  BY SleeperFacts, ClockSum
<1>5. ASSUME NEW i \in 1..Len(sleepList')
      PROVE  deadline'[sleepList'[i]] \in {ticks' + TicksLeft(i)', ticks' + TicksLeft(i)' - TickMod}
  <2>1. CASE i \in 1..Len(sleepList)
    <3>1. sleepList'[i] = sleepList[i] /\ sleepList[i] \in Thread \ {running}
      BY <1>1, <1>2, <2>1, SleeperFacts
    <3>2. QED
      BY <1>1, <1>3, <2>1, <3>1, SleeperFacts DEF CountdownOK, TicksLeft
  <2>2. CASE i = Len(sleepList) + 1
    <3>1. sleepList'[i] = running
      BY <1>1, <1>2, <2>2, SleeperFacts
    <3>2. TicksLeft(i)' = n
      BY <1>1, <1>3, <3>1 DEF TicksLeft
    <3>3. QED
      BY <1>1, <1>3, <1>4, <3>1, <3>2
  <2>3. Len(sleepList') = Len(sleepList) + 1
    BY <1>1, <1>2, SleeperFacts
  <2>4. QED
    BY <2>1, <2>2, <2>3, SleeperFacts
<1>6. QED
  BY <1>5 DEF CountdownOK

(* timer_interrupt counts a tick: every sleeper's countdown is now one     *)
(* behind.                                                                 *)
LEMMA TickCountdown ==
  ASSUME IInv, CountdownOK, TimerInterrupt
  PROVE  CountdownOK'
<1>1. /\ cursor = 0 /\ cursor' = 1 /\ ticks' = (ticks + 1) % TickMod
      /\ UNCHANGED <<sleepTick, sleepList, deadline>>
  BY DEF TimerInterrupt, alarm
<1>2. ASSUME NEW i \in 1..Len(sleepList)
      PROVE  deadline[sleepList[i]] \in {ticks' + TicksLeft(i)', ticks' + TicksLeft(i)' - TickMod}
  <2> DEFINE left == sleepTick[sleepList[i]]
             d == deadline[sleepList[i]]
  <2>1. left \in 1..MaxSleep /\ d \in 0..TickMod-1
    BY SleeperFacts
  <2>2. 1 \in 0..TickMod-1 /\ ticks \in 0..TickMod-1 /\ TickMod \in Nat \ {0}
    BY <2>1, SleeperFacts
  <2>3. ticks' = IF ticks + 1 < TickMod THEN ticks + 1 ELSE ticks + 1 - TickMod
    BY <1>1, <2>2, ClockSum, Zenon
  <2>4. d \in {ticks + left, ticks + left - TickMod}
    BY <1>1, <2>1 DEF CountdownOK, TicksLeft
  <2>5. TicksLeft(i)' = left - 1
    BY <1>1, <2>1 DEF TicksLeft
  <2> HIDE DEF left, d
  <2>6. d \in {ticks' + (left - 1), ticks' + (left - 1) - TickMod}
    BY <2>1, <2>2, <2>3, <2>4, SleeperFacts
  <2>7. QED
    BY <2>5, <2>6 DEF d
<1>3. QED
  BY <1>1, <1>2 DEF CountdownOK

(* One turn of timer_interrupt's loop counts the tick for one sleeper; at  *)
(* zero the sleeper leaves the list, the loop goes on with the thread that *)
(* takes its place, and the tick is the sleeper's deadline.                *)
LEMMA WalkCountdown ==
  ASSUME IInv, CountdownOK, TimerWalk
  PROVE  /\ CountdownOK'
         /\ \A t \in Range(sleepList) \ Range(sleepList') : deadline[t] = ticks
<1> DEFINE u == sleepList[cursor]
<1>1. /\ cursor \in DOMAIN sleepList
      /\ sleepTick' = [sleepTick EXCEPT ![u] = @ - 1]
      /\ cursor' = IF sleepTick[u] = 1 THEN cursor ELSE cursor + 1
      /\ sleepTick[u] = 1 => sleepList' = ListRemove(sleepList, cursor)
      /\ sleepTick[u] # 1 => sleepList' = sleepList
      /\ UNCHANGED <<ticks, deadline>>
  BY DEF TimerWalk, ListNext, Expires, ThreadAwake
<1>2. cursor \in 1..Len(sleepList) /\ u \in Thread /\ sleepTick[u] \in Nat /\ cursor > 0
  BY <1>1, SleeperFacts
<1>3. sleepTick'[u] = sleepTick[u] - 1 /\ \A t \in Thread \ {u} : sleepTick'[t] = sleepTick[t]
  BY <1>1, <1>2, Zenon DEF IInv, TypeOK
<1>4. CASE sleepTick[u] = 1
  <2>1. /\ sleepList' = ListRemove(sleepList, cursor) /\ cursor' = cursor
        /\ Len(sleepList') = Len(sleepList) - 1
        /\ Range(sleepList') = Range(sleepList) \ {u}
    <3>1. sleepList' = ListRemove(sleepList, cursor) /\ cursor' = cursor
      BY <1>1, <1>4
    <3>2. sleepList \in Seq(Thread) /\ IsInjective(sleepList)
      BY SleeperFacts
    <3>3. QED
      BY <1>1, <3>1, <3>2, RemoveFromList
  <2>2. ASSUME NEW i \in 1..Len(sleepList')
        PROVE  deadline[sleepList'[i]] \in {ticks + TicksLeft(i)', ticks + TicksLeft(i)' - TickMod}
    <3> DEFINE j == IF i < cursor THEN i ELSE i + 1
    <3>1. i \in 1..Len(sleepList)-1
      BY <2>1
    <3>2. sleepList'[i] = sleepList[j]
      BY <1>1, <2>1, <3>1, SleeperFacts, RemovedElements, Zenon
    <3>3. j \in 1..Len(sleepList) /\ j # cursor /\ (j >= cursor <=> i >= cursor)
      BY <1>2, <3>1, SleeperFacts
    <3> HIDE DEF j
    <3>4. sleepList[j] \in Thread \ {u}
      BY <1>2, <3>3, SleeperFacts
    <3>5. TicksLeft(i)' = TicksLeft(j)
      BY <1>3, <2>1, <3>2, <3>3, <3>4 DEF TicksLeft
    <3>6. QED
      BY <3>2, <3>3, <3>5 DEF CountdownOK
  <2>3. deadline[u] = ticks
    <3>1. TicksLeft(cursor) = 0
      BY <1>2, <1>4 DEF TicksLeft
    <3>2. deadline[u] \in {ticks, ticks - TickMod}
      BY <1>2, <3>1, SleeperFacts DEF CountdownOK
    <3>3. deadline[u] \in 0..TickMod-1
      BY <1>2, SleeperFacts
    <3>4. QED
      BY <3>2, <3>3, SleeperFacts
  <2>4. QED
    BY <1>1, <2>1, <2>2, <2>3 DEF CountdownOK
<1>5. CASE sleepTick[u] # 1
  <2>1. sleepList' = sleepList /\ cursor' = cursor + 1
    BY <1>1, <1>5
  <2>2. ASSUME NEW i \in 1..Len(sleepList)
        PROVE  TicksLeft(i)' = TicksLeft(i)
    <3>1. CASE i = cursor
      BY <1>2, <1>3, <2>1, <3>1 DEF TicksLeft
    <3>2. CASE i # cursor
      <4>1. sleepList[i] \in Thread \ {u}
        BY <1>2, <3>2, SleeperFacts
      <4>2. i >= cursor' <=> i >= cursor
        BY <1>2, <2>1, <3>2
      <4>3. QED
        BY <1>2, <1>3, <2>1, <4>1, <4>2 DEF TicksLeft
    <3>3. QED
      BY <3>1, <3>2
  <2>3. QED
    BY <1>1, <2>1, <2>2 DEF CountdownOK
<1>6. QED
  BY <1>4, <1>5

(* Every step keeps the countdowns right, and lets a sleeper go only at    *)
(* its deadline.                                                           *)
LEMMA NextCountdown ==
  IInv /\ CountdownOK /\ [Next]_vars =>
    CountdownOK' /\ [\A t \in Range(sleepList) \ Range(sleepList') : deadline[t] = ticks]_vars
<1> SUFFICES ASSUME IInv, CountdownOK, [Next]_vars
             PROVE  CountdownOK' /\ \A t \in Range(sleepList) \ Range(sleepList') : deadline[t] = ticks
  OBVIOUS
<1>1. CASE TimerInterrupt
  BY <1>1, TickCountdown DEF TimerInterrupt, alarm
<1>2. CASE TimerWalk
  BY <1>2, WalkCountdown, Zenon
<1>3. CASE TimerReturn
  <2>1. /\ cursor > Len(sleepList) /\ cursor' = 0
        /\ UNCHANGED <<ticks, sleepTick, sleepList, deadline>>
    BY <1>3 DEF TimerReturn, alarm
  <2>2. \A i \in 1..Len(sleepList) : TicksLeft(i)' = TicksLeft(i)
    BY <2>1, SleeperFacts DEF TicksLeft
  <2>3. QED
    BY <2>1, <2>2 DEF CountdownOK
<1>4. ASSUME NEW n \in 1..MaxSleep, ThreadSleep(n)
      PROVE  CountdownOK' /\ Range(sleepList) \subseteq Range(sleepList')
  <2>1. running \in Thread /\ sleepList' = Append(sleepList, running)
    BY <1>4 DEF ThreadSleep, IInv, TypeOK
  <2>2. QED
    BY <1>4, <2>1, SleepCountdown, SleeperFacts, PushBack
<1>5. ASSUME NEW n \in Thread, ThreadCreate(n)
      PROVE  CountdownOK' /\ sleepList' = sleepList
  <2>1. /\ sleepTick' = [sleepTick EXCEPT ![n] = 0] /\ pc[n] = "dead"
        /\ UNCHANGED <<ticks, cursor, sleepList, deadline>>
    BY <1>5, Zenon DEF ThreadCreate, clock, IInv, CallsOK
  <2>2. \A i \in 1..Len(sleepList) : sleepTick'[sleepList[i]] = sleepTick[sleepList[i]]
    BY <2>1, SleeperFacts DEF IInv, TypeOK
  <2>3. QED
    BY <2>1, <2>2, CountdownKept, Zenon
<1>6. CASE UNCHANGED <<clock, alarm>>
  BY <1>6, CountdownKept DEF clock, alarm
<1>7. QED
  <2>1. \/ TimerInterrupt \/ TimerWalk \/ TimerReturn
        \/ \E n \in 1..MaxSleep : ThreadSleep(n)
        \/ \E t \in Thread : ThreadCreate(t)
        \/ UNCHANGED <<clock, alarm>>
    BY Zenon DEF Next, SemaDown, SemaDownTurn, SemaDownRetry, SemaTryDown, SemaUp, DeviceInterrupt,
           ThreadCreateDone, ThreadCreateFail, ThreadExit, ThreadYield, IdleStart, IdleUp,
           IdleBlock, Timer, vars, clock, alarm
  <2>2. QED
    BY <1>1, <1>2, <1>3, <1>4, <1>5, <1>6, <2>1 DEF clock, alarm

(* timer_sleep ends exactly at the tick it was asked to end at, for any    *)
(* number of sleepers and wherever ticks wraps round.                      *)
THEOREM ThreadsAlarmOnTime == Spec => AlarmOnTime
<1>1. Init => CountdownOK
  BY DEF Init, CountdownOK
<1>2. IInv /\ CountdownOK => AlarmNotLate
  <2> SUFFICES ASSUME IInv, CountdownOK, cursor = 0, NEW t \in Range(sleepList)
               PROVE  deadline[t] # ticks
    BY DEF AlarmNotLate
  <2>1. PICK i \in 1..Len(sleepList) : t = sleepList[i]
    BY SleeperFacts DEF Range
  <2>2. deadline[t] \in {ticks + sleepTick[t], ticks + sleepTick[t] - TickMod}
    <3>1. sleepTick[t] \in Nat
      BY <2>1, SleeperFacts
    <3>2. TicksLeft(i) = sleepTick[t]
      BY <2>1, <3>1 DEF TicksLeft
    <3>3. QED
      BY <2>1, <3>2 DEF CountdownOK
  <2>3. QED
    BY <2>1, <2>2, SleeperFacts
<1>3. QED
  BY <1>1, <1>2, NextCountdown, ThreadsInvariant, PTL DEF Spec, AlarmOnTime
============================================================================
