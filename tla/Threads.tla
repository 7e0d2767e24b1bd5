------------------------------ MODULE Threads ------------------------------
(***************************************************************************)
(* The kernel's thread system as this repository builds it (PR_USER, PR_VM *)
(* and PR_FS defined, PROJECT_THREAD not): the round-robin scheduler of    *)
(* threads/thread.c, the semaphores of threads/synch.c, the timer          *)
(* interrupt and the alarm clock of devices/timer.c, the idle thread and   *)
(* the boot sequence of thread_start.                                      *)
(*                                                                         *)
(* One CPU.  A section of code that runs with interrupts off is one        *)
(* action; between two actions interrupts are on and the timer, or a       *)
(* device, may interrupt whatever thread is running.  Nothing is assumed   *)
(* of what threads do with the primitives: a running thread may call any   *)
(* of them at any time.                                                    *)
(***************************************************************************)
EXTENDS FiniteSets, Lists

CONSTANTS Thread,       \* the pages a struct thread can live in
          Main, Idle,   \* initial_thread, and the page of the idle thread
          NULL,         \* the null pointer
          Sema,         \* the semaphores of the system
          IdleStarted,  \* the one on thread_start's stack
          TIME_SLICE,   \* timer ticks a thread runs before it is preempted
          MaxValue,     \* bound: a semaphore's value never goes above it
          MaxSleep,     \* bound: the longest timer_sleep
          TickMod       \* bound: the clock wraps here

ASSUME ThreadsAssumption ==
  /\ Main \in Thread /\ Idle \in Thread /\ Main # Idle
  /\ NULL \notin Thread
  /\ IsFiniteSet(Thread)
  /\ IdleStarted \in Sema /\ NULL \notin Sema
  /\ TIME_SLICE \in Nat \ {0}
  /\ MaxValue \in Nat \ {0}
  /\ MaxSleep \in Nat
  /\ TickMod \in Nat /\ TickMod > MaxSleep

VARIABLES status,        \* struct thread: status ("FREE": the page is not allocated)
          running,       \* running_thread ()
          idle_thread,   \* NULL until the idle thread first runs
          ready_list,    \* the run queue
          thread_ticks,  \* ticks since the last switch
          value, waiters,       \* struct semaphore
          sleepList, sleepTick, \* the alarm clock
          ticks,         \* the tick counter, modulo TickMod
          cursor,        \* 0, or the position in sleepList of timer_interrupt's loop
          yield_on_return,      \* set by intr_yield_on_return
          pc, arg,       \* the call each thread is in, and its argument
          deadline       \* history: the tick at which a sleeper must wake

sched == <<status, running, ready_list, thread_ticks>>
sema == <<value, waiters>>
clock == <<ticks, cursor, yield_on_return>>
alarm == <<sleepList, sleepTick, deadline>>
vars == <<sched, idle_thread, sema, clock, alarm, pc, arg>>

(* "kernel": code between two calls; "down": in sema_down's loop; "sleep":  *)
(* blocked in ThreadSleep; "create": in thread_create, before it unblocks   *)
(* the new thread; "new": the thread being created; "leaked": created and   *)
(* abandoned on an error path; "dead": exited; "idle_*": in idle ().        *)
PCs == {"kernel", "down", "sleep", "create", "new", "leaked", "dead",
        "idle_start", "idle_up", "idle_block", "idle_hlt"}

Statuses == {"FREE", "BLOCKED", "READY", "RUNNING", "DYING"}

TypeOK ==
  /\ status \in [Thread -> Statuses]
  /\ running \in Thread
  /\ idle_thread \in {NULL, Idle}
  /\ ready_list \in Seq(Thread)
  /\ thread_ticks \in 0..TIME_SLICE
  /\ value \in [Sema -> 0..MaxValue]
  /\ waiters \in [Sema -> Seq(Thread)]
  /\ sleepList \in Seq(Thread)
  /\ sleepTick \in [Thread -> 0..MaxSleep]
  /\ ticks \in 0..TickMod-1
  /\ cursor \in Nat
  /\ yield_on_return \in BOOLEAN
  /\ pc \in [Thread -> PCs]
  /\ arg \in [Thread -> Sema \cup Thread \cup {NULL}]
  /\ deadline \in [Thread -> 0..TickMod-1]

(* thread_start has created the idle thread, enabled interrupts and is     *)
(* about to enter sema_down (&idle_started).                               *)
Init ==
  /\ status = [t \in Thread |-> CASE t = Main -> "RUNNING"
                                  [] t = Idle -> "READY"
                                  [] OTHER    -> "FREE"]
  /\ running = Main
  /\ idle_thread = NULL
  /\ ready_list = <<Idle>>
  /\ thread_ticks = 0
  /\ value = [s \in Sema |-> 0]
  /\ waiters = [s \in Sema |-> <<>>]
  /\ sleepList = <<>>
  /\ sleepTick = [t \in Thread |-> 0]
  /\ ticks = 0
  /\ cursor = 0
  /\ yield_on_return = FALSE
  /\ pc = [t \in Thread |-> CASE t = Main -> "down"
                              [] t = Idle -> "idle_start"
                              [] OTHER    -> "dead"]
  /\ arg = [t \in Thread |-> IF t = Main THEN IdleStarted ELSE NULL]
  /\ deadline = [t \in Thread |-> 0]

----------------------------------------------------------------------------
(* schedule () and schedule_tail (): leave the running thread in the state *)
(* st gives it, take the next thread off rl (the idle thread when rl is    *)
(* empty), start a new time slice, and free the page of a dying thread.    *)
Schedule(st, rl) ==
  LET next == IF rl = <<>> THEN idle_thread ELSE Head(rl)
      freed == {t \in {running} \ {next, Main} : st[t] = "DYING"}
  IN /\ running' = next
     /\ ready_list' = IF rl = <<>> THEN rl ELSE Tail(rl)
     /\ thread_ticks' = 0
     /\ status' = [t \in Thread |-> IF t = next THEN "RUNNING"
                                    ELSE IF t \in freed THEN "FREE" ELSE st[t]]

(* thread_block () *)
Block == Schedule([status EXCEPT ![running] = "BLOCKED"], ready_list)

(* thread_unblock (t); WaitListsOK is why its ASSERT holds. *)
Unblock(t) ==
  /\ status' = [status EXCEPT ![t] = "READY"]
  /\ ready_list' = Append(ready_list, t)
  /\ UNCHANGED <<running, thread_ticks>>

(* thread_yield (): the idle thread becomes READY but is not queued. *)
YieldQueuesIdle == Append(ready_list, running)
YieldToFront == <<running>> \o ready_list
YieldQueue == IF running = idle_thread THEN ready_list
              ELSE Append(ready_list, running)
Yield == Schedule([status EXCEPT ![running] = "READY"], YieldQueue)

(* Interrupts are on and the running thread is at p. *)
At(p) == cursor = 0 /\ pc[running] = p
Goto(p, a) == /\ pc' = [pc EXCEPT ![running] = p]
              /\ arg' = [arg EXCEPT ![running] = a]

----------------------------------------------------------------------------
(* Semaphores.  One turn of sema_down's loop on s, entered by a call or    *)
(* after a wake-up: queue and block while the value is 0, or take one.     *)
SemaDownTurn(s) ==
  \/ /\ value[s] = 0
     /\ waiters' = [waiters EXCEPT ![s] = Append(@, running)]
     /\ Block
     /\ Goto("down", s)
     /\ UNCHANGED <<value, idle_thread, clock, alarm>>
  \/ /\ value[s] > 0
     /\ value' = [value EXCEPT ![s] = @ - 1]
     /\ Goto("kernel", NULL)
     /\ UNCHANGED <<waiters, sched, idle_thread, clock, alarm>>

SemaDown(s) == At("kernel") /\ SemaDownTurn(s)
SemaDownRetry == At("down") /\ SemaDownTurn(arg[running])

(* A failing sema_try_down changes nothing. *)
SemaTryDown(s) ==
  /\ At("kernel")
  /\ value[s] > 0
  /\ value' = [value EXCEPT ![s] = @ - 1]
  /\ UNCHANGED <<waiters, sched, idle_thread, clock, alarm, pc, arg>>

(* sema_up (): the woken thread is unblocked before the value is raised,   *)
(* and does not run until the scheduler picks it.                          *)
WakesOnlyFromZero(s) == waiters[s] # <<>> /\ value[s] = 0
WakesOne(s) == waiters[s] # <<>>
Up(s) ==
  /\ value[s] < MaxValue
  /\ value' = [value EXCEPT ![s] = @ + 1]
  /\ IF WakesOne(s)
     THEN /\ waiters' = [waiters EXCEPT ![s] = Tail(@)]
          /\ Unblock(Head(waiters[s]))
     ELSE UNCHANGED <<waiters, sched>>

SemaUp(s) == /\ At("kernel")
             /\ Up(s)
             /\ UNCHANGED <<idle_thread, clock, alarm, pc, arg>>

----------------------------------------------------------------------------
(* Threads.  thread_create takes a page and initialises it as a blocked    *)
(* thread; later, once process_create has succeeded, it unblocks it.       *)
ThreadCreate(t) ==
  /\ At("kernel")
  /\ status[t] = "FREE"
  /\ status' = [status EXCEPT ![t] = "BLOCKED"]
  /\ sleepTick' = [sleepTick EXCEPT ![t] = 0]
  /\ pc' = [pc EXCEPT ![running] = "create", ![t] = "new"]
  /\ arg' = [arg EXCEPT ![running] = t, ![t] = NULL]
  /\ UNCHANGED <<running, ready_list, thread_ticks, idle_thread, sema, clock,
                 sleepList, deadline>>

ThreadCreateDone ==
  /\ At("create")
  /\ Unblock(arg[running])
  /\ pc' = [pc EXCEPT ![running] = "kernel", ![arg[running]] = "kernel"]
  /\ arg' = [arg EXCEPT ![running] = NULL]
  /\ UNCHANGED <<idle_thread, sema, clock, alarm>>

(* process_create failed: thread_create returns and forgets the page. *)
ThreadCreateFail ==
  /\ At("create")
  /\ pc' = [pc EXCEPT ![running] = "kernel", ![arg[running]] = "leaked"]
  /\ arg' = [arg EXCEPT ![running] = NULL]
  /\ UNCHANGED <<sched, idle_thread, sema, clock, alarm>>

ThreadExit ==
  /\ At("kernel")
  /\ Schedule([status EXCEPT ![running] = "DYING"], ready_list)
  /\ Goto("dead", NULL)
  /\ UNCHANGED <<idle_thread, sema, clock, alarm>>

ThreadYield == /\ At("kernel")
               /\ Yield
               /\ UNCHANGED <<idle_thread, sema, clock, alarm, pc, arg>>

(* timer_sleep (n) for n > 0; for n <= 0 ThreadSleep returns at once. *)
ThreadSleep(n) ==
  /\ At("kernel")
  /\ sleepTick' = [sleepTick EXCEPT ![running] = n]
  /\ sleepList' = Append(sleepList, running)
  /\ deadline' = [deadline EXCEPT ![running] = (ticks + n) % TickMod]
  /\ Block
  /\ Goto("sleep", NULL)
  /\ UNCHANGED <<idle_thread, sema, clock>>

----------------------------------------------------------------------------
(* The idle thread: announce itself, wake thread_start, then block for     *)
(* ever; whenever it is chosen it halts until an interrupt arrives.        *)
IdleStart == /\ At("idle_start")
             /\ idle_thread' = running
             /\ Goto("idle_up", NULL)
             /\ UNCHANGED <<sched, sema, clock, alarm>>

IdleUp == /\ At("idle_up")
          /\ Up(IdleStarted)
          /\ Goto("idle_block", NULL)
          /\ UNCHANGED <<idle_thread, clock, alarm>>

IdleBlock == /\ At("idle_block")
             /\ Block
             /\ Goto("idle_hlt", NULL)
             /\ UNCHANGED <<idle_thread, sema, clock, alarm>>

----------------------------------------------------------------------------
(* Interrupts.  Any interrupt ends the idle thread's hlt.                  *)
EndHlt == pc' = [t \in Thread |-> IF t = running /\ pc[t] = "idle_hlt"
                                  THEN "idle_block" ELSE pc[t]]

(* A device's handler ups a semaphore (the disk's completion_wait). *)
DeviceInterrupt(s) == /\ cursor = 0
                      /\ Up(s)
                      /\ EndHlt
                      /\ UNCHANGED <<idle_thread, clock, alarm, arg>>

(* timer_interrupt up to its loop: ticks++ and thread_tick (). *)
TimerInterrupt ==
  /\ cursor = 0
  /\ ticks' = (ticks + 1) % TickMod
  /\ thread_ticks' = thread_ticks + 1
  /\ yield_on_return' = (thread_ticks + 1 >= TIME_SLICE)
  /\ cursor' = 1
  /\ EndHlt
  /\ UNCHANGED <<status, running, ready_list, idle_thread, sema, alarm, arg>>

(* One turn of its loop: ThreadTick and, at zero, ThreadAwake, which takes *)
(* the element the loop stands on out of the list; list_next of the        *)
(* removed element is the one that moved into its place.                   *)
Expires(t) == sleepTick[t] = 1
SkipsAfterRemove(removed) == cursor + 1
ListNext(removed) == IF removed THEN cursor ELSE cursor + 1
AwakeKeepsListed(t) == UNCHANGED sleepList /\ Unblock(t)
ThreadAwake(t) == sleepList' = ListRemove(sleepList, cursor) /\ Unblock(t)
TimerWalk ==
  /\ cursor \in DOMAIN sleepList
  /\ LET t == sleepList[cursor] IN
     /\ sleepTick' = [sleepTick EXCEPT ![t] = @ - 1]
     /\ cursor' = ListNext(Expires(t))
     /\ IF Expires(t)
        THEN ThreadAwake(t) /\ pc' = [pc EXCEPT ![t] = "kernel"]
        ELSE UNCHANGED <<sleepList, sched, pc>>
  /\ UNCHANGED <<idle_thread, sema, ticks, yield_on_return, deadline, arg>>

(* The end of intr_handler: the interrupted thread goes on, or yields. *)
TimerReturn ==
  /\ cursor > Len(sleepList)
  /\ cursor' = 0
  /\ yield_on_return' = FALSE
  /\ IF yield_on_return THEN Yield ELSE UNCHANGED sched
  /\ UNCHANGED <<idle_thread, sema, ticks, alarm, pc, arg>>

Timer == TimerInterrupt \/ TimerWalk \/ TimerReturn

----------------------------------------------------------------------------
Next ==
  \/ \E s \in Sema \ {IdleStarted} :
        SemaDown(s) \/ SemaTryDown(s) \/ SemaUp(s) \/ DeviceInterrupt(s)
  \/ SemaDownRetry
  \/ \E t \in Thread : ThreadCreate(t)
  \/ ThreadCreateDone \/ ThreadCreateFail \/ ThreadExit \/ ThreadYield
  \/ \E n \in 1..MaxSleep : ThreadSleep(n)
  \/ IdleStart \/ IdleUp \/ IdleBlock
  \/ Timer

Spec == Init /\ [][Next]_vars

(* The hardware timer keeps interrupting; nothing is assumed of threads.   *)
FairSpec == Spec /\ WF_vars(Timer)

----------------------------------------------------------------------------
(* Exactly the thread that runs is RUNNING, and the run queue holds        *)
(* exactly the READY threads, each once; the idle thread, once it has      *)
(* named itself, is never in it (thread.h:77-82, thread.c:525-533).        *)
RunQueueOK ==
  /\ IsInjective(ready_list)
  /\ \A t \in Thread :
       /\ t \in Range(ready_list) <=> status[t] = "READY" /\ t # idle_thread
       /\ status[t] = "RUNNING" <=> t = running

(* A thread is in a semaphore's wait list, once, exactly while it is       *)
(* blocked in a sema_down of that semaphore, and in sleepList, once,       *)
(* exactly while it sleeps; a thread blocked in any other way is the idle  *)
(* thread, one being created, or a page abandoned by a failed              *)
(* thread_create.  So no wait list holds a thread that is running, ready   *)
(* or dead, none is in two lists, none is blocked where no one will find   *)
(* it, and thread_unblock is only given blocked threads (thread.c:290).    *)
SemaListsOK ==
  \A s \in Sema :
    /\ IsInjective(waiters[s])
    /\ \A t \in Thread : t \in Range(waiters[s]) <=>
         status[t] = "BLOCKED" /\ pc[t] = "down" /\ arg[t] = s
SleepListOK ==
  /\ IsInjective(sleepList)
  /\ \A t \in Thread : t \in Range(sleepList) <=> pc[t] = "sleep"
BlockedOK ==
  \A t \in Thread :
    /\ status[t] = "BLOCKED" => pc[t] \in {"down", "sleep", "new", "leaked", "idle_hlt"}
    /\ pc[t] \in {"sleep", "new", "leaked"} => status[t] = "BLOCKED"
    /\ pc[t] = "idle_hlt" /\ t # running => status[t] = "BLOCKED"
WaitListsOK == SemaListsOK /\ SleepListOK /\ BlockedOK

(* What a thread is in the middle of agrees with its state: a page is free *)
(* or dying exactly when its thread has exited, a page being initialised   *)
(* has one creator, only the idle thread runs idle (), which has named     *)
(* itself before it can be picked off an empty run queue, a sleeper has    *)
(* ticks left, a time slice that is used up is about to end, and an        *)
(* interrupt has ended the idle thread's hlt.                              *)
CallsOK ==
  /\ \A t \in Thread :
       /\ pc[t] = "dead" <=> status[t] \in {"FREE", "DYING"}
       /\ pc[t] = "down" => arg[t] \in Sema
       /\ pc[t] = "create" => arg[t] \in Thread /\ pc[arg[t]] = "new"
       /\ pc[t] \in {"idle_start", "idle_up", "idle_block", "idle_hlt"} <=> t = Idle
       /\ pc[t] = "sleep" => sleepTick[t] > 0
  /\ \A t, u \in Thread :
       pc[t] = "create" /\ pc[u] = "create" /\ arg[t] = arg[u] => t = u
  /\ idle_thread = NULL <=> pc[Idle] = "idle_start"
  /\ thread_ticks = TIME_SLICE => cursor > 0 /\ yield_on_return
  /\ cursor > 0 => pc[running] # "idle_hlt"

(* The inductive invariant: each part needs the others. *)
IInv == TypeOK /\ RunQueueOK /\ WaitListsOK /\ CallsOK

(* The threads that a sema_up on s woke and that have not yet retried. *)
Woken(s) == {t \in Thread : pc[t] = "down" /\ arg[t] = s /\ status[t] # "BLOCKED"}

(* No wake-up is lost: while threads wait for s, every unit of its value   *)
(* has a woken thread on its way to take it, even when threads that never  *)
(* waited overtake the woken ones (synch.c:61-87, 119-150).                *)
NoLostWakeup == \A s \in Sema : waiters[s] # <<>> => value[s] <= Cardinality(Woken(s))

(* Outside the timer interrupt no sleeper's deadline is the present tick:  *)
(* timer_interrupt's loop misses no thread of sleepList, although it       *)
(* removes elements from the list it walks (timer.c:170-178).              *)
AlarmNotLate == cursor = 0 => \A t \in Range(sleepList) : deadline[t] # ticks

(* timer_sleep ends at the tick it was asked to end at: a thread leaves    *)
(* sleepList only at its deadline, not before it, and no step leaves one   *)
(* there past it (timer.c:88-111, 162-185).                                *)
AlarmOnTime ==
  [][/\ \A t \in Range(sleepList) \ Range(sleepList') : deadline[t] = ticks
     /\ AlarmNotLate']_vars

(* Every READY thread and every sleeper runs, whatever the others do, as   *)
(* long as the timer interrupts (thread.c:168-187, 365-384).               *)
EveryThreadRuns ==
  \A t \in Thread \ {Idle} : (status[t] = "READY" \/ pc[t] = "sleep") ~> running = t
============================================================================
